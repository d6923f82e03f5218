---------------------------- MODULE Credential ----------------------------
(***************************************************************************)
(* Credential references (credential/registry): connecting an identity to  *)
(* an item of a credential source, probing it, and fetching the secret     *)
(* when a request is executed.  A secret never outlives the call that      *)
(* fetched it, so only whether one was handed out is kept.                 *)
(*                                                                         *)
(* The sources are programs or a vault outside this code: each call asks   *)
(* them afresh.  A source that says it is locked makes Fetch wait for the  *)
(* broadcast of an unlock, with a deadline; a source that hangs is ended   *)
(* by the deadline of its own call.  The store's statements are steps of   *)
(* their own, only CreateRegistration being a transaction.                 *)
(***************************************************************************)
EXTENDS Naturals, FiniteSets

CONSTANTS
    Connects, Verifies, Fetches,   \* calls
    Kinds,       \* kinds of source that are registered
    Lockable,    \* those that report a lock (vault_locked) rather than hang
    Items,       \* item coordinates an owner may give
    Exact,       \* the ones that name one item and hold no wildcard
    Resolving,   \* the ones that lead to a secret
    Services,    \* services an adapter declares
    Accounts,    \* account labels
    Absent

ASSUME SourcesAssumption == Lockable \subseteq Kinds /\ Resolving \subseteq Exact /\ Exact \subseteq Items

VARIABLES
    source,      \* whether each source is open, locked or gone
    announce,    \* a source was unlocked and the broadcast is due
    providers,   \* credential_providers
    references,  \* credential_references, by their coordinates
    declared,    \* the services in service_adapters
    identities,  \* identities, by service and account label
    connect, verify, fetch,        \* where each call is
    waiters,     \* UnlockWaiter.waiters: the calls whose channel it holds
    closed       \* the calls whose channel is closed

vars == <<source, announce, providers, references, declared, identities,
          connect, verify, fetch, waiters, closed>>
tables == <<providers, references, declared, identities>>
calls == <<connect, verify, fetch, waiters, closed>>
waiting == <<waiters, closed>>

Coordinates == [kind : Kinds, item : Items]
Health == {"ok", "unavailable"}
ReferenceRows == [service : Services, health : Health]
Labels == [service : Services, account : Accounts]
IdentityRows == [reference : Coordinates, status : {"ok", "needs_review"}]
Specs == [kind : Kinds, item : Items, service : Services, account : Accounts]
Coordinate(spec) == [kind |-> spec.kind, item |-> spec.item]
Label(spec) == [service |-> spec.service, account |-> spec.account]

ASSUME AbsentAssumption == Absent \notin ReferenceRows \cup IdentityRows \cup Specs

NoConnect == [at |-> "idle", spec |-> Absent, settled |-> Absent]
NoVerify == [at |-> "idle", label |-> Absent, health |-> Absent]
NoFetch == [at |-> "idle", reference |-> Absent]

Init ==
    /\ source = [k \in Kinds |-> "open"]
    /\ announce = FALSE
    /\ providers = {} /\ declared = {}
    /\ references = [x \in Coordinates |-> Absent]
    /\ identities = [l \in Labels |-> Absent]
    /\ connect = [c \in Connects |-> NoConnect]
    /\ verify = [v \in Verifies |-> NoVerify]
    /\ fetch = [f \in Fetches |-> NoFetch]
    /\ waiters = {} /\ closed = {}

-----------------------------------------------------------------------------
(* The sources *)

\* execRunner.Run: the program is found where it may be trusted and runs.
Runs(k) == source[k] # "gone"

\* Available: the source's own program answers; no item is looked at.
Available(k) == Runs(k)

\* readURI, parseItemRef: a vague address is refused before the source is asked.
WellFormed(x) == x.item \in Exact

\* Source.run, under the deadline of the call: a source that waits for its
\* owner beyond it is ended (provider_locked_timeout).
Run(k) ==
    IF ~Runs(k) THEN "unavailable"
    ELSE IF source[k] = "open" THEN "output"
    ELSE IF k \in Lockable THEN "vault_locked" ELSE "locked_timeout"

\* An item that is not there, or is empty, is refused.
SourceFetch(x) ==
    IF ~WellFormed(x) THEN "refused"
    ELSE IF Run(x.kind) # "output" THEN Run(x.kind)
    ELSE IF x.item \in Resolving THEN "value" ELSE "refused"

\* The owner unlocks a source; whoever did it broadcasts it afterwards.
OwnerUnlocks(k) ==
    /\ source[k] # "open"
    /\ source' = [source EXCEPT ![k] = "open"]
    /\ announce' = TRUE
    /\ UNCHANGED <<tables, calls>>

\* A source locks itself, or its program goes away.
SourceCloses(k) ==
    /\ source[k] = "open"
    /\ \E s \in {"locked", "gone"} : source' = [source EXCEPT ![k] = s]
    /\ UNCHANGED <<announce, tables, calls>>

-----------------------------------------------------------------------------
(* POST /identities *)

ConnectTo(c, at) == connect' = [connect EXCEPT ![c].at = at]

\* The owner is told of the failure and may ask again.
Refused(c) == connect' = [connect EXCEPT ![c] = NoConnect]

\* RegisterReference first asks the source whether it is there, then for the
\* item itself: a failure of either ends the call before anything is written.
Resolves(c) ==
    /\ connect[c].at = "idle"
    /\ \E spec \in Specs :
          LET reached == Available(spec.kind) /\ SourceFetch(Coordinate(spec)) = "value"
          IN  connect' = [connect EXCEPT ![c] =
                 IF reached THEN [at |-> "resolved", spec |-> spec, settled |-> Absent]
                 ELSE NoConnect]
    /\ UNCHANGED <<source, announce, tables, verify, fetch, waiting>>

\* One transaction finds or creates the provider and the reference.
CreateRegistration(c) ==
    LET spec == connect[c].spec
        x == Coordinate(spec)
        new == [service |-> spec.service, health |-> "ok"]
        row == IF references[x] = Absent THEN new ELSE references[x]
    IN  /\ connect[c].at = "resolved"
        /\ providers' = providers \cup {spec.kind}
        /\ references' = [references EXCEPT ![x] = row]
        /\ connect' = [connect EXCEPT ![c] =
              [at |-> "registered", spec |-> spec, settled |-> row]]
        /\ UNCHANGED <<source, announce, declared, identities, verify, fetch, waiting>>

\* Fault: the service of the row that was found is not compared.
SettleAnyService(c) ==
    LET x == Coordinate(connect[c].spec)
    IN  /\ connect[c].at = "registered"
        /\ references' = [references EXCEPT ![x].health = "ok"]
        /\ ConnectTo(c, "referenced")
        /\ UNCHANGED <<source, announce, providers, declared, identities, verify, fetch, waiting>>

\* Coordinates that belong to another service are refused.  Otherwise the row
\* is marked verified, unless it is already as of this very moment.
SettleReference(c) ==
    LET spec == connect[c].spec
        settled == connect[c].settled
        x == Coordinate(spec)
    IN  /\ connect[c].at = "registered"
        /\ \/ /\ settled.service # spec.service
              /\ Refused(c)
              /\ UNCHANGED references
           \/ /\ settled.service = spec.service
              /\ \/ references' = [references EXCEPT ![x].health = "ok"]
                 \/ settled.health = "ok" /\ UNCHANGED references
              /\ ConnectTo(c, "referenced")
        /\ UNCHANGED <<source, announce, providers, declared, identities, verify, fetch, waiting>>

\* A declaration is written when there is none; losing the race for it is no
\* failure.  The status of one that is there is not looked at: nothing ever
\* disables it.  Services an adapter does not know were refused by validate.
EnsureDeclared(c) ==
    /\ connect[c].at = "referenced"
    /\ declared' = declared \cup {connect[c].settled.service}
    /\ ConnectTo(c, "declared")
    /\ UNCHANGED <<source, announce, providers, references, identities, verify, fetch, waiting>>

\* The identity takes the service of the reference, not the one in the call.
CreateIdentity(c) ==
    LET spec == connect[c].spec
        label == [Label(spec) EXCEPT !.service = connect[c].settled.service]
        taken == identities[label] # Absent
    IN  /\ connect[c].at = "declared"
        /\ \/ taken /\ Refused(c) /\ UNCHANGED identities
           \/ /\ ~taken
              /\ identities' = [identities EXCEPT ![label] =
                                 [reference |-> Coordinate(spec), status |-> "ok"]]
              /\ ConnectTo(c, "created")
        /\ UNCHANGED <<source, announce, providers, references, declared, verify, fetch, waiting>>

\* The process stops, or a statement fails, between two steps: what was
\* written stays, and the owner may ask again.
ConnectBreaks(c) ==
    /\ connect[c].at \in {"resolved", "registered", "referenced", "declared"}
    /\ Refused(c)
    /\ UNCHANGED <<source, announce, tables, verify, fetch, waiting>>

-----------------------------------------------------------------------------
(* POST /identities/{id}/verify *)

\* Probe asks whether the source is there ...
Probe(v) ==
    /\ verify[v].at = "idle"
    /\ \E l \in Labels :
          /\ identities[l] # Absent
          /\ verify' = [verify EXCEPT ![v] =
                [at |-> "probed", label |-> l,
                 health |-> IF Available(identities[l].reference.kind)
                            THEN "ok" ELSE "unavailable"]]
    /\ UNCHANGED <<source, announce, tables, connect, fetch, waiting>>

\* ... writes what it found to the reference ...
SetReferenceHealth(v) ==
    LET x == identities[verify[v].label].reference
    IN  /\ verify[v].at = "probed"
        /\ references' = [references EXCEPT ![x].health = verify[v].health]
        /\ verify' = [verify EXCEPT ![v].at = "recorded"]
        /\ UNCHANGED <<source, announce, providers, declared, identities, connect, fetch, waiting>>

\* Fault: the reference's health is written as the identity's status.
HealthAsStatus(v) ==
    /\ verify[v].at = "recorded"
    /\ identities' = [identities EXCEPT ![verify[v].label].status = verify[v].health]
    /\ verify' = [verify EXCEPT ![v] = NoVerify]
    /\ UNCHANGED <<source, announce, providers, references, declared, connect, fetch, waiting>>

\* ... and the handler to the identity, which is not used on its own then.
SetIdentityStatus(v) ==
    LET status == IF verify[v].health = "ok" THEN "ok" ELSE "needs_review"
    IN  /\ verify[v].at = "recorded"
        /\ identities' = [identities EXCEPT ![verify[v].label].status = status]
        /\ verify' = [verify EXCEPT ![v] = NoVerify]
        /\ UNCHANGED <<source, announce, providers, references, declared, connect, fetch, waiting>>

-----------------------------------------------------------------------------
(* Fetching a secret *)

FetchTo(f, at) == fetch' = [fetch EXCEPT ![f].at = at]

\* The caller gets the secret or an error; which error is all the same here.
Answered(result) == IF result = "value" THEN "value" ELSE "failed"

\* An unhealthy reference is refused without asking the source.
Locate(f) ==
    /\ fetch[f].at = "idle"
    /\ \E x \in Coordinates :
          /\ references[x] # Absent
          /\ fetch' = [fetch EXCEPT ![f] =
                [at |-> IF references[x].health = "ok" THEN "asking" ELSE "failed",
                 reference |-> x]]
    /\ UNCHANGED <<source, announce, tables, connect, verify, waiting>>

\* The source is asked; a lock it reports is waited for, any other failure
\* is the answer.
AskSource(f) ==
    LET result == SourceFetch(fetch[f].reference)
    IN  /\ fetch[f].at = "asking"
        /\ FetchTo(f, IF result = "vault_locked" THEN "locked" ELSE Answered(result))
        /\ UNCHANGED <<source, announce, tables, connect, verify, waiting>>

\* UnlockWaiter.register: its own step, after the source has answered.
Register(f) ==
    /\ fetch[f].at = "locked"
    /\ waiters' = waiters \cup {f}
    /\ FetchTo(f, "waiting")
    /\ UNCHANGED <<source, announce, tables, connect, verify, closed>>

\* UnlockWaiter.Unlocked closes every channel it holds and forgets them.
Unlocked ==
    /\ announce
    /\ announce' = FALSE
    /\ closed' = closed \cup waiters
    /\ waiters' = {}
    /\ UNCHANGED <<source, tables, connect, verify, fetch>>

\* The channel is taken off the list, if it is still there, and dropped.
unregister(f) == waiters' = waiters \ {f} /\ closed' = closed \ {f}

\* Woken, the call asks the source once more and returns what that says,
\* also when it is locked again.
Woken(f) ==
    /\ fetch[f].at = "waiting" /\ f \in closed
    /\ unregister(f)
    /\ FetchTo(f, "again")
    /\ UNCHANGED <<source, announce, tables, connect, verify>>

AskAgain(f) ==
    /\ fetch[f].at = "again"
    /\ FetchTo(f, Answered(SourceFetch(fetch[f].reference)))
    /\ UNCHANGED <<source, announce, tables, connect, verify, waiting>>

\* Fault: the channel of a call that gave up stays on the list.
GivesUpRegistered(f) ==
    /\ fetch[f].at = "waiting"
    /\ FetchTo(f, "failed")
    /\ UNCHANGED <<source, announce, tables, connect, verify, waiting>>

GivesUp(f) ==
    /\ fetch[f].at = "waiting"
    /\ unregister(f)
    /\ FetchTo(f, "failed")
    /\ UNCHANGED <<source, announce, tables, connect, verify>>

\* Fault: the wait has no deadline of its own.
NoDeadline(f) == FALSE

\* The deadline of the wait passes, or the caller goes away.
TimesOut(f) == GivesUp(f)
Cancelled(f) == GivesUp(f)

-----------------------------------------------------------------------------
FetchSteps(f) == AskSource(f) \/ Register(f) \/ Woken(f) \/ AskAgain(f) \/ TimesOut(f)
ConnectSteps(c) ==
    CreateRegistration(c) \/ SettleReference(c) \/ EnsureDeclared(c) \/ CreateIdentity(c)

Next ==
    \/ \E k \in Kinds : OwnerUnlocks(k) \/ SourceCloses(k)
    \/ \E c \in Connects : Resolves(c) \/ ConnectSteps(c) \/ ConnectBreaks(c)
    \/ \E v \in Verifies : Probe(v) \/ SetReferenceHealth(v) \/ SetIdentityStatus(v)
    \/ \E f \in Fetches : Locate(f) \/ FetchSteps(f) \/ Cancelled(f)
    \/ Unlocked

\* A call that can go on does: its own steps, the deadline of the source's
\* program and the deadline of the wait.  Nothing makes the owner unlock,
\* the broadcast happen or the caller go away.
Fairness == \A f \in Fetches : WF_vars(FetchSteps(f))

Spec == Init /\ [][Next]_vars /\ Fairness

-----------------------------------------------------------------------------
(* What makes it correct *)

Answers == {"value", "failed"}

TypeOK ==
    /\ source \in [Kinds -> {"open", "locked", "gone"}]
    /\ announce \in BOOLEAN
    /\ providers \subseteq Kinds /\ declared \subseteq Services
    /\ references \in [Coordinates -> ReferenceRows \cup {Absent}]
    /\ identities \in [Labels -> IdentityRows \cup {Absent}]
    /\ \A c \in Connects : connect[c].spec \in Specs \cup {Absent}
    /\ \A f \in Fetches :
          fetch[f].at \in {"idle", "asking", "locked", "waiting", "again"} \cup Answers
    /\ waiters \subseteq Fetches /\ closed \subseteq Fetches

\* An identity that was reported connected belongs to the service its owner
\* named, leans on the coordinates its owner gave, which belong to that same
\* service, and that service is declared: whatever other call registered the
\* coordinates first, broke off half-way or ran at the same time
\* (identities.go connectIdentity, registry.go RegisterReference).
ConnectedAsAsked ==
    \A c \in Connects : connect[c].at = "created" =>
        LET spec == connect[c].spec IN
        /\ spec.service \in declared
        /\ spec.kind \in providers
        /\ identities[Label(spec)] # Absent
        /\ identities[Label(spec)].reference = Coordinate(spec)
        /\ references[Coordinate(spec)].service = spec.service

\* The list of waiters holds exactly the calls that wait and have not been
\* woken: none is left behind by a deadline, a caller that went away or a
\* broadcast, and none waits without being on it.  The console counts it
\* (unlock.go Wait, Unlocked, Waiting).
WaitersAreAccounted ==
    waiters = {f \in Fetches : fetch[f].at = "waiting"} \ closed

\* Every fetch is answered, also the one that registers just after the
\* broadcast it would have needed (unlock.go Wait).
FetchIsAnswered ==
    \A f \in Fetches : fetch[f].at = "asking" ~> fetch[f].at \in Answers

=============================================================================
