------------------------------ MODULE Session ------------------------------
(***************************************************************************)
(* Agent sessions: how a process started by `opendelo run` becomes an      *)
(* agent (core/agentauth), how its key authenticates the requests it       *)
(* sends, and how the session ends (core/pipeline/agent.go), taking the    *)
(* leases approved "until the task ends" with it.                          *)
(*                                                                         *)
(* Every statement on the store is a step of its own: none of these        *)
(* operations runs in a transaction, so two registrations, a registration  *)
(* and a disconnection, or a disconnection and the settlement of an        *)
(* approval may meet between any two of them.  A session key is fresh for  *)
(* each registration, so the run that holds it stands for it.  A request,  *)
(* the approval it leads to and the lease that approval issues share one   *)
(* name.                                                                   *)
(***************************************************************************)
EXTENDS Naturals, Sequences, FiniteSets, FiniteSetsExt

CONSTANTS
    Runs,          \* processes started by `opendelo run`
    Requests,      \* requests they may send
    Devices, Workspaces, Executables,   \* the parts of a binding
    Projects,      \* fingerprints of the project in a workspace
    MaxAgents,     \* rows of the agents table
    MaxOwner,      \* disconnections the owner asks for
    CascadeLimit,  \* leases one cascade lists
    Absent         \* no row, no request

Owner == "owner"
Closers == Runs \cup {Owner}
Bindings == [device : Devices, workspace : Workspaces, executable : Executables]

ASSUME BoundsAssumption ==
    /\ MaxAgents \in Nat \ {0} /\ MaxOwner \in Nat /\ CascadeLimit \in Nat \ {0}
    /\ Owner \notin Runs
    /\ IsFiniteSet(Runs) /\ IsFiniteSet(Requests)

VARIABLES
    devices,      \* the fingerprints in the devices table
    workspaces,   \* the project fingerprint of each path, Absent without a row
    agents,       \* the agents table, by creation order of the ULIDs
    confirmed,    \* history: the bindings the owner confirmed
    pc,           \* where each run is
    described,    \* the binding each run describes its process by
    session,      \* the agent row each run registered as
    request,      \* who sent each request, as which agent, and how far it got
    closer,       \* the DisconnectAgent call of each closer
    owned         \* how many disconnections the owner has asked for

vars == <<devices, workspaces, agents, confirmed, pc, described, session,
          request, closer, owned>>
registry == <<devices, workspaces, described>>

AgentIds == 1..MaxAgents
TrustLevels == {"unverified", "known"}
AgentRows == [binding : Bindings, key : Runs, trust : TrustLevels,
              status : {"active", "ended"}]
RunStates == {"idle", "bind", "rebind", "create",
              "running", "closing", "closed", "failed"}
CallStates == {"idle", "status", "list", "cascade", "done", "failed"}
NoAgent == 0
Unsent == [run |-> Absent, agent |-> NoAgent, at |-> "unsent"]
Over == [Unsent EXCEPT !.at = "over"]
Idle == [at |-> "idle", agent |-> NoAgent, todo |-> {}, due |-> {}]

Rows == DOMAIN agents
BindingOf(r) == described[r]

Init ==
    /\ devices = {}
    /\ workspaces = [w \in Workspaces |-> Absent]
    /\ agents = <<>>
    /\ confirmed = {}
    /\ pc = [r \in Runs |-> "idle"]
    /\ described = [r \in Runs |-> Absent]
    /\ session = [r \in Runs |-> NoAgent]
    /\ request = [q \in Requests |-> Unsent]
    /\ closer = [c \in Closers |-> Idle]
    /\ owned = 0

-----------------------------------------------------------------------------
(* Registration *)

Goto(r, state) == pc' = [pc EXCEPT ![r] = state]

\* The device, then the workspace are looked up and created when they are
\* new, and the workspace takes the project's new fingerprint.  Nothing else
\* here reads these tables.  The slower of two registrations of something
\* new is refused by uq_devices_fingerprint or uq_workspaces_path:
\* RegisterFails.
ResolveDevice(b) == devices' = devices \cup {b.device}
ResolveWorkspace(b, p) == workspaces' = [workspaces EXCEPT ![b.workspace] = p]

\* `opendelo run` describes the process and posts the registration.
OpenSession(r) ==
    /\ pc[r] = "idle"
    /\ \E b \in Bindings, p \in Projects :
          /\ described' = [described EXCEPT ![r] = b]
          /\ ResolveDevice(b)
          /\ ResolveWorkspace(b, p)
    /\ Goto(r, "bind")
    /\ UNCHANGED <<agents, confirmed, session, request, closer, owned>>

\* Fault: the executable's hash is left out of the lookup.
BoundToAnyHash(a, r) == agents[a].binding.workspace = BindingOf(r).workspace

\* GetAgentByBinding compares all five parts of the binding.
Bound(a, r) == agents[a].binding = BindingOf(r)

\* The newest row of the binding is the one that is read: ORDER BY id DESC.
AgentByBinding(r) ==
    LET bound == {a \in Rows : Bound(a, r)}
    IN  /\ pc[r] = "bind"
        /\ IF bound = {}
           THEN Goto(r, "create") /\ UNCHANGED session
           ELSE Goto(r, "rebind") /\ session' = [session EXCEPT ![r] = Max(bound)]
        /\ UNCHANGED <<registry, agents, confirmed, request, closer, owned>>

\* The row gets a new key and is active again; its trust level stays.
RebindAgent(r) ==
    /\ pc[r] = "rebind"
    /\ agents' = [agents EXCEPT ![session[r]] =
                     [@ EXCEPT !.key = r, !.status = "active"]]
    /\ Goto(r, "running")
    /\ UNCHANGED <<registry, confirmed, session, request, closer, owned>>

\* Fault: a new agent starts at the level that skips the owner.
CreateTrusted(r) ==
    /\ pc[r] = "create"
    /\ Len(agents) < MaxAgents
    /\ agents' = Append(agents, [binding |-> BindingOf(r), key |-> r, trust |-> "trusted",
                                 status |-> "active"])
    /\ session' = [session EXCEPT ![r] = Len(agents) + 1]
    /\ Goto(r, "running")
    /\ UNCHANGED <<registry, confirmed, request, closer, owned>>

CreateAgent(r) ==
    /\ pc[r] = "create"
    /\ Len(agents) < MaxAgents
    /\ agents' = Append(agents, [binding |-> BindingOf(r), key |-> r, trust |-> "unverified",
                                 status |-> "active"])
    /\ session' = [session EXCEPT ![r] = Len(agents) + 1]
    /\ Goto(r, "running")
    /\ UNCHANGED <<registry, confirmed, request, closer, owned>>

\* A statement fails: the command ends before its process started, and what
\* was written stays.
RegisterFails(r) ==
    /\ pc[r] \in {"bind", "rebind", "create"}
    /\ Goto(r, "failed")
    /\ UNCHANGED <<registry, agents, confirmed, session, request, closer, owned>>

-----------------------------------------------------------------------------
(* Authentication and what an authenticated request leads to *)

\* The key is valid: looked up by its hash, active and not expired.
Authenticates(r, a) ==
    /\ a \in Rows
    /\ agents[a].key = r
    /\ agents[a].status = "active"

Authenticate(r, q) ==
    /\ pc[r] = "running"
    /\ request[q].at = "unsent"
    /\ \E a \in AgentIds :
          /\ Authenticates(r, a)
          /\ request' = [request EXCEPT ![q] = [run |-> r, agent |-> a, at |-> "authenticated"]]
    /\ UNCHANGED <<registry, agents, confirmed, pc, session, closer, owned>>

\* A request moves on, or ends without a session-bound lease; what it was is
\* then of no further use.
MovesOn(q, from, to) ==
    /\ request[q].at = from
    /\ request' = [request EXCEPT ![q] = IF to = "over" THEN Over ELSE [@ EXCEPT !.at = to]]

\* Fault: touching the row marks it active.
TouchRevives(q) ==
    /\ \E outcome \in {"pending", "over"} : MovesOn(q, "authenticated", outcome)
    /\ agents' = [agents EXCEPT ![request[q].agent].status = "active"]
    /\ UNCHANGED <<registry, confirmed, pc, session, closer, owned>>

\* TouchAgent updates last_seen_at of the row whatever became of it since
\* the key was looked up; the request is then decided.  It waits for a
\* person, or nothing session-bound comes of it.
Touch(q) ==
    /\ \E outcome \in {"pending", "over"} : MovesOn(q, "authenticated", outcome)
    /\ UNCHANGED <<registry, agents, confirmed, pc, session, closer, owned>>

\* The owner allows it until the task ends and the lease is issued to the
\* agent of the request, whose row is not read again; or nothing comes of
\* it.  Of this handler's statements (module Settlement) only the lease is
\* seen by a disconnection.
SettleApproval(q) ==
    /\ \E outcome \in {"leased", "over"} : MovesOn(q, "pending", outcome)
    /\ UNCHANGED <<registry, agents, confirmed, pc, session, closer, owned>>

\* The lease is closed elsewhere: revoked by the owner, expired or used up.
CloseElsewhere(q) ==
    /\ MovesOn(q, "leased", "over")
    /\ UNCHANGED <<registry, agents, confirmed, pc, session, closer, owned>>

\* The owner confirms an agent it was shown: unverified becomes known.
ConfirmTrust(a) ==
    /\ a \in Rows
    /\ agents[a].trust = "unverified"
    /\ agents' = [agents EXCEPT ![a].trust = "known"]
    /\ confirmed' = confirmed \cup {agents[a].binding}
    /\ UNCHANGED <<registry, pc, session, request, closer, owned>>

\* The session's hour is over.  An active row past session_expires_at and a
\* disconnected row are one status here: neither authenticates, a rebind
\* makes either active, and nothing else in these operations reads them.
Expire(a) ==
    /\ a \in Rows
    /\ agents[a].status = "active"
    /\ agents' = [agents EXCEPT ![a].status = "ended"]
    /\ UNCHANGED <<registry, confirmed, pc, session, request, closer, owned>>

-----------------------------------------------------------------------------
(* DisconnectAgent *)

BoundLeases(a) == {q \in Requests : request[q].at = "leased" /\ request[q].agent = a}

\* Fault: the run ends the newest session of its binding, not its own.
ExitNewest(r) ==
    /\ pc[r] = "running"
    /\ Goto(r, "closing")
    /\ closer' = [closer EXCEPT ![r] =
          [Idle EXCEPT !.at = "status", !.agent = Max({a \in Rows : Bound(a, r)})]]
    /\ UNCHANGED <<registry, agents, confirmed, session, request, owned>>

\* The process ends, however it does, and the session is closed.
Exit(r) ==
    /\ pc[r] = "running"
    /\ Goto(r, "closing")
    /\ closer' = [closer EXCEPT ![r] = [Idle EXCEPT !.at = "status", !.agent = session[r]]]
    /\ UNCHANGED <<registry, agents, confirmed, session, request, owned>>

OwnerDisconnects(a) ==
    /\ a \in Rows
    /\ closer[Owner].at \in {"idle", "done", "failed"}
    /\ owned < MaxOwner
    /\ owned' = owned + 1
    /\ closer' = [closer EXCEPT ![Owner] = [Idle EXCEPT !.at = "status", !.agent = a]]
    /\ UNCHANGED <<registry, agents, confirmed, pc, session, request>>

\* First the key stops working ...
Disconnect(c) ==
    LET a == closer[c].agent
    IN  /\ closer[c].at = "status"
        /\ agents' = [agents EXCEPT ![a].status = "ended"]
        /\ closer' = [closer EXCEPT ![c] = [@ EXCEPT !.at = "list", !.due = BoundLeases(a)]]
        /\ UNCHANGED <<registry, confirmed, pc, session, request, owned>>

\* ... then the leases bound to the session are listed, at most CascadeLimit.
ListBound(c) ==
    LET bound == BoundLeases(closer[c].agent)
    IN  /\ closer[c].at = "list"
        /\ \E listed \in SUBSET bound :
              /\ IF Cardinality(bound) <= CascadeLimit
                 THEN listed = bound ELSE Cardinality(listed) = CascadeLimit
              /\ closer' = [closer EXCEPT ![c] =
                    [at |-> "cascade", agent |-> closer[c].agent, todo |-> listed,
                     due |-> IF listed = bound THEN closer[c].due ELSE listed]]
        /\ UNCHANGED <<registry, agents, confirmed, pc, session, request, owned>>

Settled(c, outcome) ==
    /\ closer' = [closer EXCEPT ![c] = [Idle EXCEPT !.at = outcome]]
    /\ IF c = Owner THEN UNCHANGED pc
       ELSE Goto(c, IF outcome = "done" THEN "closed" ELSE "failed")

\* Each lease is booked in the ledger as revoked and then revoked.
RevokeBound(c) ==
    /\ closer[c].at = "cascade"
    /\ \E q \in closer[c].todo :
          /\ MovesOn(q, "leased", "over")
          /\ closer' = [closer EXCEPT ![c].todo = @ \ {q}]
    /\ UNCHANGED <<registry, agents, confirmed, pc, session, owned>>

\* The lease was closed since the listing: it is booked all the same, the
\* conditional update then answers with a conflict and the call fails.
RevokeConflict(c) ==
    /\ closer[c].at = "cascade"
    /\ \E q \in closer[c].todo : request[q].at # "leased"
    /\ Settled(c, "failed")
    /\ UNCHANGED <<registry, agents, confirmed, session, request, owned>>

CascadeEnds(c) ==
    /\ closer[c].at = "cascade"
    /\ closer[c].todo = {}
    /\ Settled(c, "done")
    /\ UNCHANGED <<registry, agents, confirmed, session, request, owned>>

\* Fault: a statement of the cascade that fails ends it as if it were complete.
CloseFailsQuietly(c) ==
    /\ closer[c].at \in {"status", "list", "cascade"}
    /\ Settled(c, IF closer[c].at = "cascade" THEN "done" ELSE "failed")
    /\ UNCHANGED <<registry, agents, confirmed, session, request, owned>>

\* A statement or the call itself fails: `opendelo run` reports that the
\* session may still be valid and does not try again.
CloseFails(c) ==
    /\ closer[c].at \in {"status", "list", "cascade"}
    /\ Settled(c, "failed")
    /\ UNCHANGED <<registry, agents, confirmed, session, request, owned>>

RunStep(r) ==
    \/ OpenSession(r) \/ AgentByBinding(r)
    \/ RebindAgent(r) \/ CreateAgent(r) \/ RegisterFails(r) \/ Exit(r)
    \/ \E q \in Requests : Authenticate(r, q)
RequestStep(q) ==
    Touch(q) \/ SettleApproval(q) \/ CloseElsewhere(q)
CloserStep(c) ==
    \/ Disconnect(c) \/ ListBound(c) \/ RevokeBound(c) \/ RevokeConflict(c)
    \/ CascadeEnds(c) \/ CloseFails(c)

Next ==
    \/ \E r \in Runs : RunStep(r)
    \/ \E q \in Requests : RequestStep(q)
    \/ \E c \in Closers : CloserStep(c)
    \/ \E a \in AgentIds : ConfirmTrust(a) \/ Expire(a) \/ OwnerDisconnects(a)

Spec == Init /\ [][Next]_vars

-----------------------------------------------------------------------------
(* Properties *)

\* The tables hold rows of their types, and every reference between them is
\* one the code can have written.
TypeOK ==
    /\ devices \subseteq Devices
    /\ workspaces \in [Workspaces -> Projects \cup {Absent}]
    /\ agents \in Seq(AgentRows) /\ Len(agents) <= MaxAgents
    /\ confirmed \subseteq Bindings
    /\ pc \in [Runs -> RunStates]
    /\ described \in [Runs -> Bindings \cup {Absent}]
    /\ session \in [Runs -> AgentIds \cup {NoAgent}]
    /\ request \in [Requests -> [run : Runs \cup {Absent}, agent : AgentIds \cup {NoAgent},
            at : {"unsent", "authenticated", "pending", "leased", "over"}]]
    /\ closer \in [Closers -> [at : CallStates, agent : AgentIds \cup {NoAgent},
                               todo : SUBSET Requests, due : SUBSET Requests]]
    /\ owned \in 0..MaxOwner

\* A key authenticates the process it was issued to as an agent of exactly
\* its binding, and that agent is trusted only if the owner confirmed this
\* binding: a changed executable never inherits the trust of the old one
\* (Service.Register: "a changed hash finds no row").
TrustFollowsTheBinding ==
    \A r \in Runs, a \in AgentIds :
        Authenticates(r, a) =>
            /\ agents[a].binding = BindingOf(r)
            /\ agents[a].trust = "known" => BindingOf(r) \in confirmed

\* A DisconnectAgent that reports success has closed every session-bound
\* lease its agent had when the key stopped working, whatever was granted,
\* used up or revoked meanwhile.  Only where the agent holds more of them
\* than one listing returns, those that were granted since included, is it
\* the listed ones it has closed (Pipeline.DisconnectAgent).
CascadeIsComplete ==
    [][\A c \in Closers :
          closer[c].at # "done" /\ closer'[c].at = "done"
          => \A q \in closer[c].due : request'[q].at # "leased"]_vars

\* A key that works belongs to a run that has not closed its session: no
\* order of registrations and disconnections of one binding leaves a session
\* open behind a run that ended it (cli/run.go endSession).
NoOrphanSession ==
    \A r \in Runs, a \in AgentIds : Authenticates(r, a) => pc[r] # "closed"

\* A key that stopped working never works again: a disconnection, an expiry
\* or a rebind is final for it, whatever request it had authenticated before
\* is still under way (Service.Authenticate, RebindAgent).
KeyWorks(r) == \E a \in AgentIds : Authenticates(r, a)
DeadKeysStayDead ==
    [][\A r \in Runs : session[r] # NoAgent /\ pc[r] \notin {"rebind", "create"}
                         /\ ~KeyWorks(r) => ~KeyWorks(r)']_vars

\* What the package says of a lease approved until the task ends: it is
\* withdrawn with the session of the run that asked for it.
TaskLeaseEndsWithTask ==
    \A q \in Requests :
        request[q].at = "leased" => pc[request[q].run] # "closed"

=============================================================================
