------------------------------- MODULE Trust -------------------------------
(***************************************************************************)
(* What the gateway learns and what it does with it: requests that pass    *)
(* through the decision pipeline (orchestration/submissions.go,            *)
(* core/pipeline) while memories are learned, tightened, cleared and       *)
(* invalidated (core/trust) and identities are linked and disconnected.    *)
(*                                                                         *)
(* A request reads the agent and the identities, then the memories, then   *)
(* the leases, decides, and acts on the decision afterwards: the reads are *)
(* separate statements and everything else may happen in between.  A       *)
(* handler whose statement fails leaves what it did and takes no further   *)
(* step, which it may do at any point here; the statements themselves and  *)
(* their failures are the subject of Settlement, uses of leases that of    *)
(* Lease.                                                                  *)
(*                                                                         *)
(* Requests are numbered in the order of their arrival, memories in the    *)
(* order of their ids; a lease carries the number of the request it was    *)
(* issued for.  Where the code lists rows to work them off one by one the  *)
(* model takes them in any order.                                          *)
(***************************************************************************)
EXTENDS Decide, Sequences

CONSTANTS
    Mode,               \* Pipeline.mode, fixed when the gateway starts
    Agents,
    Names,              \* of workspaces, services, operations and resources
    Identities,
    ServiceOf,          \* ServiceOf[i]: the service identity i belongs to
    EnvironmentOf,      \* EnvironmentOf[i]: the environment it is marked with
    Calls,              \* what agents ask for, see CallType
    DeviceUntrusted,    \* whether the device has not been confirmed
    LeaseDuration,      \* scope.DefaultDuration
    TaskRequestLimit,   \* scope.TaskRequestLimit
    MemoryTTL,          \* trust.DefaultTTL
    MemoryLimit,        \* the most memories a decision looks at
    LeaseLimit,         \* leaseLimit: the most leases it looks at
    Submitted,          \* the answers the console submits
    MaxRequests,        \* bound on requests
    MaxEvents           \* bound on disconnections, verifications and ticks of the clock

Requests == 1..MaxRequests

\* A call with what the catalogue declares about its operation: intent.Intent and
\* pipeline.OperationFacts.  "named" is the environment the naming rules give.
CallType ==
    [agent : Agents, workspace : Names, service : Names, operation : Names,
     resource : Names, offered : BOOLEAN, isSelf : BOOLEAN,
     words : SUBSET {"read", "vault", "credential", "audit", "privilege"},
     write : BOOLEAN, label : Levels, reversible : BOOLEAN, destructive : BOOLEAN,
     permissionChange : BOOLEAN, secretAccess : BOOLEAN, billing : BOOLEAN,
     externalCommunication : BOOLEAN, named : Environments \cup {"unknown"}]

\* approval.Action; "none" before anyone has answered.
Answers == {"none", "deny", "allow_once", "allow_until_task_end", "auto_allow_in_project",
            "always_ask"}

\* An operation either carries a desired change or does not: the model's
\* reading of the adapters' declarations.
ASSUME TrustAssumption ==
    /\ Mode \in Modes
    /\ Missing \notin Agents \cup Identities
    /\ EnvironmentOf \in [Identities -> Environments]
    /\ DOMAIN ServiceOf = Identities
    /\ Calls \subseteq CallType
    /\ \A c, d \in Calls : c.operation = d.operation => c.write = d.write
    /\ LeaseDuration \in Nat \ {0}
    /\ TaskRequestLimit \in Nat \ {0}
    /\ MemoryTTL \in Nat \ {0}
    /\ MemoryLimit \in Nat \ {0}
    /\ LeaseLimit \in Nat \ {0}
    /\ Submitted \subseteq Answers \ {"none"}
    /\ MaxRequests \in Nat
    /\ MaxEvents \in Nat

VARIABLES
    now,        \* the clock
    trust,      \* agents.trust_level
    linked,     \* the rows of identities
    review,     \* the identities whose status is needs_review
    memory,     \* trust_memories, by id
    lease,      \* leases, by the request they were issued for
    pc,         \* where the handler of each request is
    call,       \* what the request asks for
    seen,       \* the agent's trust and the identities the handler read
    grants,     \* the memories it read
    resolved,   \* the match and the scope it arrived at
    level,      \* decisions.risk_level
    outcome,    \* the decision
    answer,     \* approvals.action, "none" while nobody has answered
    cleared,    \* audit_events: the memories the ledger says were cleared
    clearing,   \* the memories booked as cleared and not yet deleted
    cascade,    \* the disconnection under way
    events,     \* the disconnections, verifications and ticks so far
    warned      \* observation: the memories that said "always ask" when the request
                \* was submitted

requestVars == <<pc, call, seen, grants, resolved, level, outcome, answer, warned>>
clearVars == <<cleared, clearing>>
identityVars == <<linked, review>>
cascadeVars == <<cascade, events>>
vars == <<now, trust, identityVars, memory, lease, requestVars, clearVars,
          cascadeVars>>

NoScope ==
    [agent |-> Missing, workspace |-> Missing, service |-> Missing, identity |-> Missing,
     resource |-> Missing, operation |-> Missing, environment |-> Missing, notBefore |-> 0,
     expiresAt |-> 0, requestLimit |-> 0, riskCeiling |-> Missing]

NoLease == [status |-> "none", scope |-> NoScope]

NoOutcome == [Denied("undecided") EXCEPT !.verdict = "none"]

NothingSeen == [trust |-> "unverified", identities |-> {}, review |-> {}]

Idle == [step |-> "idle", identity |-> Missing, todo |-> {}]

Steps == {"absent", "resolving", "ruling", "issuing", "asked", "granting", "learning", "done"}

Scopes ==
    [agent : Agents \cup {Missing}, workspace : Names \cup {Missing},
     service : Names \cup {Missing}, identity : Identities \cup {Missing},
     resource : Names \cup {Missing}, operation : Names \cup {Missing},
     environment : Environments \cup {Missing}, notBefore : Nat, expiresAt : Nat,
     requestLimit : Nat, riskCeiling : Levels \cup {Missing}]

MemoryRows ==
    [scope : Scopes, ceiling : Levels, behavior : {"auto_allow", "always_ask"},
     status : {"active", "invalidated", "deleted"}, expiresAt : Nat, from : Requests]

TypeOK ==
    /\ now \in Nat
    /\ trust \in [Agents -> {"unverified", "known"}]
    /\ linked \subseteq Identities
    /\ review \subseteq linked
    /\ memory \in Seq(MemoryRows)
    /\ lease \in [Requests -> [status : {"none", "active", "closed"}, scope : Scopes]]
    /\ pc \in [Requests -> Steps]
    /\ call \in [Requests -> Calls \cup {Missing}]
    /\ \A r \in Requests : seen[r].identities \subseteq Identities
    /\ \A r \in Requests : \A g \in grants[r] : g.id \in DOMAIN memory
    /\ \A r \in Requests : resolved[r].scope \in Scopes
    /\ level \in [Requests -> Levels \cup {"none"}]
    /\ \A r \in Requests : outcome[r].memory \in 0..Len(memory)
    /\ answer \in [Requests -> Answers]
    /\ cleared \subseteq DOMAIN memory
    /\ clearing \subseteq DOMAIN memory
    /\ cascade.step \in {"idle", "revoking", "invalidating"}
    /\ events \in 0..MaxEvents

Init ==
    /\ now = 0
    /\ trust = [a \in Agents |-> "unverified"]
    /\ linked = {}
    /\ review = {}
    /\ memory = <<>>
    /\ lease = [r \in Requests |-> NoLease]
    /\ pc = [r \in Requests |-> "absent"]
    /\ call = [r \in Requests |-> Missing]
    /\ seen = [r \in Requests |-> NothingSeen]
    /\ grants = [r \in Requests |-> {}]
    /\ resolved = [r \in Requests |-> [match |-> Unmatched, scope |-> NoScope]]
    /\ level = [r \in Requests |-> "none"]
    /\ outcome = [r \in Requests |-> NoOutcome]
    /\ answer = [r \in Requests |-> "none"]
    /\ cleared = {}
    /\ clearing = {}
    /\ cascade = Idle
    /\ events = 0
    /\ warned = [r \in Requests |-> {}]

-----------------------------------------------------------------------------
(* A request on its way to a decision *)

Live(m) == memory[m].status = "active" /\ memory[m].expiresAt > now

\* Submissions.inputsFor: the agent's trust and the identities of the service.
Submit(r, c) ==
    /\ pc[r] = "absent"
    /\ \A q \in 1..(r - 1) : pc[q] # "absent"
    /\ pc' = [pc EXCEPT ![r] = "resolving"]
    /\ call' = [call EXCEPT ![r] = c]
    /\ seen' = [seen EXCEPT ![r] =
           [trust |-> trust[c.agent],
            identities |-> {i \in linked : ServiceOf[i] = c.service},
            review |-> review]]
    /\ warned' = [warned EXCEPT ![r] =
           {m \in DOMAIN memory : Live(m) /\ memory[m].behavior = "always_ask"}]
    /\ UNCHANGED <<now, trust, identityVars, memory, lease, grants, resolved, level,
                   outcome, answer, clearVars, cascadeVars>>

\* MatchTrustMemories: the first MemoryLimit rows of the agent, the workspace and
\* the service that are active.  Manager.Match then drops the expired ones.
Listed(c) ==
    LET own == {m \in DOMAIN memory : /\ memory[m].status = "active"
                                      /\ memory[m].scope.agent = c.agent
                                      /\ memory[m].scope.workspace = c.workspace
                                      /\ memory[m].scope.service = c.service}
    IN  {m \in own : Cardinality({k \in own : k < m}) < MemoryLimit}

Usable(c) == {m \in Listed(c) : memory[m].expiresAt > now}

\* toGrants
GrantsOf(ms) ==
    {[id |-> m, order |-> m, scope |-> memory[m].scope,
      alwaysAsk |-> memory[m].behavior = "always_ask"] : m \in ms}

\* intent.resolveEnvironment with the hint of soleEnvironment.
EnvironmentFor(c, identities) ==
    IF Cardinality(identities) = 1 THEN EnvironmentOf[CHOOSE i \in identities : TRUE]
    ELSE IF c.named \in Environments THEN c.named ELSE "production"

\* scope.Resolver.Resolve with the default duration and request limit.
ScopeFor(c, identity, identities) ==
    [agent |-> c.agent, workspace |-> c.workspace, service |-> c.service,
     identity |-> identity, resource |-> c.resource, operation |-> c.operation,
     environment |-> EnvironmentFor(c, identities), notBefore |-> now,
     expiresAt |-> now + LeaseDuration, requestLimit |-> 1, riskCeiling |-> c.label]

FailClosed(r) ==
    /\ pc' = [pc EXCEPT ![r] = "done"]
    /\ outcome' = [outcome EXCEPT ![r] = Denied("fail_closed")]
    /\ seen' = [seen EXCEPT ![r] = NothingSeen]
    /\ UNCHANGED <<grants, resolved>>

\* Pipeline.resolve up to the scope.  An ambiguous match has no identity, and a
\* scope without an identity does not validate.
Resolve(r) ==
    LET c == call[r]
        usable == Usable(c)
        match == Match(<<{}, {}, {memory[m].scope.identity : m \in usable}>>,
                       seen[r].identities, Missing, seen[r].review)
        scope == ScopeFor(c, match.identity, seen[r].identities)
        agrees == /\ Valid(scope)
                  /\ scope.environment = EnvironmentOf[match.identity]
    IN  /\ pc[r] = "resolving"
        /\ \/ /\ c.offered /\ agrees
              /\ pc' = [pc EXCEPT ![r] = "ruling"]
              /\ grants' = [grants EXCEPT ![r] = GrantsOf(usable)]
              /\ resolved' = [resolved EXCEPT ![r] = [match |-> match, scope |-> scope]]
              /\ UNCHANGED <<outcome, seen>>
           \/ ~(c.offered /\ agrees) /\ FailClosed(r)
        /\ UNCHANGED <<now, trust, identityVars, memory, lease, call, level, answer,
                       warned, clearVars, cascadeVars>>

\* Manager.Active: of the active rows, whoever holds them, the LeaseLimit that
\* end first.  Which of several that end together are left out is the database's
\* to say; here it is the later ones.
ActiveLeases ==
    LET active == {q \in Requests : lease[q].status = "active"}
        ends(q) == lease[q].scope.expiresAt
    IN  {q \in active : Cardinality({p \in active :
            ends(p) < ends(q) \/ (ends(p) = ends(q) /\ p < q)}) < LeaseLimit}

\* Pipeline.standing: those of the agent and the service that have not expired.
Standing(c) ==
    {[id |-> q, order |-> lease[q].scope.expiresAt, scope |-> lease[q].scope] :
        q \in {p \in ActiveLeases : /\ lease[p].scope.agent = c.agent
                                    /\ lease[p].scope.service = c.service
                                    /\ lease[p].scope.expiresAt > now}}

\* Pipeline.factors
FactorsFor(r) ==
    LET c == call[r]
        scope == resolved[r].scope
    IN  [write |-> c.write, production |-> scope.environment = "production",
         reversible |-> c.reversible,
         resourceCount |-> IF c.resource \in Patterns THEN 0 ELSE 1,
         destructive |-> c.destructive, permissionChange |-> c.permissionChange,
         secretAccess |-> c.secretAccess, billing |-> c.billing,
         externalCommunication |-> c.externalCommunication,
         firstSeen |-> grants[r] = {},
         beyondHistory |-> /\ grants[r] # {}
                           /\ \A g \in grants[r] : ~CoversIgnoringWindow(g.scope, scope),
         agentUnverified |-> seen[r].trust = "unverified",
         deviceUntrusted |-> DeviceUntrusted, label |-> c.label]

\* decision.Input as Pipeline.resolve assembles it; Submissions never fills in the
\* facts about new services, identities and resources.
InputFor(r) ==
    [mode |-> Mode, agentTrust |-> seen[r].trust, write |-> call[r].write,
     match |-> resolved[r].match, scope |-> resolved[r].scope,
     level |-> Evaluate(FactorsFor(r)), readOnlyAutoAllow |-> FALSE, newService |-> FALSE,
     identityChanged |-> FALSE, newIdentity |-> FALSE, newResource |-> FALSE,
     learned |-> grants[r], active |-> Standing(call[r]), blockers |-> {},
     isSelf |-> call[r].isSelf, words |-> call[r].words]

\* The rest of resolve, Decide and recordDecision.  The decision refers to the
\* memory it matched; a memory deleted meanwhile makes the statement fail.  What
\* the handler read is of no use afterwards.
Rule(r) ==
    LET input == InputFor(r)
        decided == Decide(input)
        exists == decided.memory # 0 => memory[decided.memory].status # "deleted"
    IN  /\ pc[r] = "ruling"
        /\ \/ /\ exists
              /\ level' = [level EXCEPT ![r] = input.level]
              /\ outcome' = [outcome EXCEPT ![r] = decided]
              /\ pc' = [pc EXCEPT ![r] = CASE decided.verdict = "deny" -> "done"
                                           [] decided.verdict = "require_approval" -> "asked"
                                           [] decided.verdict = "auto_allow" -> "issuing"]
           \/ /\ ~exists
              /\ pc' = [pc EXCEPT ![r] = "done"]
              /\ UNCHANGED <<level, outcome>>
        /\ grants' = [grants EXCEPT ![r] = {}]
        /\ seen' = [seen EXCEPT ![r] = NothingSeen]
        /\ UNCHANGED <<now, trust, identityVars, memory, lease, call, resolved,
                       answer, warned, clearVars, cascadeVars>>

Open(r, scope) == lease' = [lease EXCEPT ![r] = [status |-> "active", scope |-> scope]]

\* Pipeline.issue: the matched lease is used again, otherwise one is issued
\* unless the window has passed.
IssueAuto(r) ==
    /\ pc[r] = "issuing"
    /\ pc' = [pc EXCEPT ![r] = "done"]
    /\ IF outcome[r].lease = 0 /\ resolved[r].scope.expiresAt > now
       THEN Open(r, resolved[r].scope)
       ELSE UNCHANGED lease
    /\ UNCHANGED <<now, trust, identityVars, memory, call, seen, grants, resolved, level,
                   outcome, answer, warned, clearVars, cascadeVars>>

-----------------------------------------------------------------------------
(* A human's answer *)

Allows(a) == a \notin {"none", "deny"}

Learns(a) == a \in {"auto_allow_in_project", "always_ask"}

\* SettleApproval up to the verdict: the window must be open to allow, and
\* nothing can be learned from a high risk.
Settle(r, a) ==
    /\ pc[r] = "asked"
    /\ Allows(a) => resolved[r].scope.expiresAt > now
    /\ Learns(a) => level[r] # "high"
    /\ answer' = [answer EXCEPT ![r] = a]
    /\ pc' = [pc EXCEPT ![r] = IF Allows(a) THEN "granting" ELSE "done"]
    /\ UNCHANGED <<now, trust, identityVars, memory, lease, call, seen, grants, resolved,
                   level, outcome, warned, clearVars, cascadeVars>>

\* What the human allowed: the request limit is the one dimension an answer sets.
GrantedScope(r) ==
    [resolved[r].scope EXCEPT !.requestLimit =
        CASE answer[r] = "allow_until_task_end" -> TaskRequestLimit
          [] answer[r] = "allow_once" -> 1
          [] OTHER -> @]

\* Pipeline.grant; without a lease the call ends here.
Grant(r) ==
    /\ pc[r] = "granting"
    /\ IF resolved[r].scope.expiresAt > now
       THEN /\ Open(r, GrantedScope(r))
            /\ pc' = [pc EXCEPT ![r] = IF Learns(answer[r]) THEN "learning" ELSE "done"]
       ELSE /\ pc' = [pc EXCEPT ![r] = "done"]
            /\ UNCHANGED lease
    /\ UNCHANGED <<now, trust, identityVars, memory, call, seen, grants, resolved, level,
                   outcome, answer, warned, clearVars, cascadeVars>>

\* trust.Manager.checkGenerate for the request learn makes: the learned scope is
\* the approved one, which covers itself unless it holds a wildcard.  An approval
\* is learned once (uq_trust_memories_created_from).
MayGenerate(r) ==
    /\ \A m \in DOMAIN memory : memory[m].from = r => memory[m].status = "deleted"
    /\ CoversIgnoringWindow(resolved[r].scope, resolved[r].scope)
    /\ level[r] \in {"low", "medium"}

\* Pipeline.learn and trust.Manager.Generate.
Learn(r) ==
    /\ pc[r] = "learning"
    /\ pc' = [pc EXCEPT ![r] = "done"]
    /\ IF MayGenerate(r)
       THEN memory' = Append(memory,
                [scope |-> resolved[r].scope,
                 ceiling |-> LowerOf(level[r], resolved[r].scope.riskCeiling),
                 behavior |-> IF answer[r] = "always_ask" THEN "always_ask" ELSE "auto_allow",
                 status |-> "active", expiresAt |-> now + MemoryTTL, from |-> r])
       ELSE UNCHANGED memory
    /\ UNCHANGED <<now, trust, identityVars, lease, call, seen, grants, resolved, level,
                   outcome, answer, warned, clearVars, cascadeVars>>

-----------------------------------------------------------------------------
(* The automation page *)

\* TightenTrustMemoryBehavior: one statement, one direction.
Tighten(m) ==
    /\ memory[m].status = "active"
    /\ memory[m].behavior = "auto_allow"
    /\ memory' = [memory EXCEPT ![m].behavior = "always_ask"]
    /\ UNCHANGED <<now, trust, identityVars, lease, requestVars, clearVars, cascadeVars>>

\* ClearTrustMemory books the clearing first ...
BookClearing(m) ==
    /\ memory[m].status # "deleted"
    /\ m \notin clearing
    /\ cleared' = cleared \cup {m}
    /\ clearing' = clearing \cup {m}
    /\ UNCHANGED <<now, trust, identityVars, memory, lease, requestVars, cascadeVars>>

\* The rows that refer to a memory: decisions.trust_memory_id and, through the
\* decision, leases.source_memory_id.
Referenced(m) == \E r \in Requests : outcome[r].memory = m

\* Fault: no reference restricts the deletion.
DeleteUnrestricted(m) ==
    /\ m \in clearing
    /\ clearing' = clearing \ {m}
    /\ memory' = [memory EXCEPT ![m].status = "deleted"]
    /\ UNCHANGED <<now, trust, identityVars, lease, requestVars, cleared, cascadeVars>>

\* ... and deletes the row then, which the references restrict.
DeleteCleared(m) ==
    /\ m \in clearing
    /\ clearing' = clearing \ {m}
    /\ memory' = IF Referenced(m) THEN memory
                 ELSE [memory EXCEPT ![m].status = "deleted"]
    /\ UNCHANGED <<now, trust, identityVars, lease, requestVars, cleared, cascadeVars>>

-----------------------------------------------------------------------------
(* Agents, identities and leases *)

\* agentauth.ConfirmTrust
ConfirmTrust(a) ==
    /\ trust[a] = "unverified"
    /\ trust' = [trust EXCEPT ![a] = "known"]
    /\ UNCHANGED <<now, identityVars, memory, lease, requestVars, clearVars, cascadeVars>>

\* CreateIdentity
LinkIdentity(i) ==
    /\ i \notin linked
    /\ linked' = linked \cup {i}
    /\ UNCHANGED <<now, trust, review, memory, lease, requestVars, clearVars,
                   cascadeVars>>

\* verifyIdentity: the probe of the credential decides the status, whatever it was.
Verify(i, healthy) ==
    /\ i \in linked
    /\ events < MaxEvents
    /\ events' = events + 1
    /\ review' = IF healthy THEN review \ {i} ELSE review \cup {i}
    /\ UNCHANGED <<now, trust, linked, memory, lease, requestVars, clearVars, cascade>>

\* Fault: the identity is not looked up first.
DisconnectUnknown(i) ==
    /\ cascade = Idle
    /\ events < MaxEvents
    /\ events' = events + 1
    /\ cascade' = [step |-> "revoking", identity |-> i,
                   todo |-> {r \in Requests : /\ lease[r].status = "active"
                                              /\ lease[r].scope.identity = i}]
    /\ UNCHANGED <<now, trust, identityVars, memory, lease, requestVars, clearVars>>

\* DisconnectIdentity: lists the active leases of the identity ...
Disconnect(i) ==
    /\ cascade = Idle
    /\ i \in linked
    /\ events < MaxEvents
    /\ events' = events + 1
    /\ cascade' = [step |-> "revoking", identity |-> i,
                   todo |-> {r \in Requests : /\ lease[r].status = "active"
                                              /\ lease[r].scope.identity = i}]
    /\ UNCHANGED <<now, trust, identityVars, memory, lease, requestVars, clearVars>>

\* ... revokes them one by one, where the first one already closed ends the call ...
RevokeNext(r) ==
    /\ cascade.step = "revoking"
    /\ r \in cascade.todo
    /\ IF lease[r].status = "active"
       THEN /\ lease' = [lease EXCEPT ![r].status = "closed"]
            /\ cascade' = [cascade EXCEPT !.todo = @ \ {r}]
       ELSE cascade' = Idle /\ UNCHANGED lease
    /\ UNCHANGED <<now, trust, identityVars, memory, requestVars, clearVars,
                   events>>

\* ... lists its active memories ...
ListMemories ==
    /\ cascade.step = "revoking"
    /\ cascade.todo = {}
    /\ cascade' = [step |-> "invalidating", identity |-> cascade.identity,
                   todo |-> {m \in DOMAIN memory : /\ memory[m].status = "active"
                                                   /\ memory[m].scope.identity = cascade.identity}]
    /\ UNCHANGED <<now, trust, identityVars, memory, lease, requestVars, clearVars,
                   events>>

\* ... invalidates them in the same way ...
InvalidateNext(m) ==
    /\ cascade.step = "invalidating"
    /\ m \in cascade.todo
    /\ IF memory[m].status = "active"
       THEN /\ memory' = [memory EXCEPT ![m].status = "invalidated"]
            /\ cascade' = [cascade EXCEPT !.todo = @ \ {m}]
       ELSE cascade' = Idle /\ UNCHANGED memory
    /\ UNCHANGED <<now, trust, identityVars, lease, requestVars, clearVars,
                   events>>

\* ... and marks the identity last.
MarkReview ==
    /\ cascade.step = "invalidating"
    /\ cascade.todo = {}
    /\ review' = review \cup {cascade.identity}
    /\ cascade' = Idle
    /\ UNCHANGED <<now, trust, linked, memory, lease, requestVars, clearVars,
                   events>>

\* A statement of the disconnection fails: the rest of it does not happen.
FailCascade ==
    /\ cascade # Idle
    /\ cascade' = Idle
    /\ UNCHANGED <<now, trust, identityVars, memory, lease, requestVars, clearVars,
                   events>>

\* A lease is used up or revoked: Lease says how.
LeaseEnds(r) ==
    /\ lease[r].status = "active"
    /\ lease' = [lease EXCEPT ![r].status = "closed"]
    /\ UNCHANGED <<now, trust, identityVars, memory, requestVars, clearVars, cascadeVars>>

Tick ==
    /\ events < MaxEvents
    /\ events' = events + 1
    /\ now' = now + 1
    /\ UNCHANGED <<trust, identityVars, memory, lease, requestVars, clearVars, cascade>>

Next ==
    \/ \E r \in Requests, c \in Calls : Submit(r, c)
    \/ \E r \in Requests, a \in Submitted : Settle(r, a)
    \/ \E r \in Requests : \/ Resolve(r) \/ Rule(r) \/ IssueAuto(r) \/ Grant(r) \/ Learn(r)
                           \/ LeaseEnds(r) \/ RevokeNext(r)
    \/ \E m \in DOMAIN memory : \/ Tighten(m) \/ BookClearing(m) \/ DeleteCleared(m)
                                \/ InvalidateNext(m)
    \/ \E a \in Agents : ConfirmTrust(a)
    \/ \E i \in Identities : \/ LinkIdentity(i) \/ Disconnect(i)
                             \/ Verify(i, TRUE) \/ Verify(i, FALSE)
    \/ ListMemories \/ MarkReview \/ FailCascade \/ Tick

Spec == Init /\ [][Next]_vars

-----------------------------------------------------------------------------
(* What makes learning safe *)

Passed(r) == outcome[r].verdict = "auto_allow"

\* Some human answer allows at least what request r got.
Consented(r) ==
    \E q \in Requests : /\ Allows(answer[q])
                       /\ CoversIgnoringWindow(GrantedScope(q), resolved[r].scope)

\* Whatever was learned, leased, tightened, cleared or disconnected on the way, a
\* request that passes without a human is not of high risk, and it is either a
\* low-risk read or within what a human allowed before (Decide, Pipeline.issue,
\* trust.Manager.Generate).
ConsentOrHarmless ==
    \A r \in Requests : Passed(r) =>
        /\ level[r] # "high"
        /\ Consented(r) \/ (~call[r].write /\ level[r] = "low")

\* The rows of the agent, the workspace and the service of a call, in force or not.
RowsOf(c) ==
    {m \in DOMAIN memory : /\ memory[m].scope.agent = c.agent
                           /\ memory[m].scope.workspace = c.workspace
                           /\ memory[m].scope.service = c.service}

\* A memory that said "always ask" when the request was submitted, and that is
\* still in force, keeps the request from passing by itself, even if another
\* memory or a lease would let it through, as long as there are no more rows
\* than one query returns (Input.asksAlways, MatchMemories).
AlwaysAskWins ==
    \A r \in Requests : Passed(r) /\ Cardinality(RowsOf(call[r])) <= MemoryLimit =>
        \A m \in warned[r] : Live(m) => ~CoversIgnoringWindow(memory[m].scope, resolved[r].scope)

\* A memory is exactly what one approval allowed, no approval is learned twice,
\* nothing is learned from high risk, and the ceiling is at most the level of
\* the approved request.
LearnedAsApproved ==
    \A m \in DOMAIN memory :
        LET r == memory[m].from IN
        /\ Learns(answer[r])
        /\ level[r] # "high"
        /\ memory[m].scope = resolved[r].scope
        /\ Rank(memory[m].ceiling) <= Rank(level[r])
        /\ \A k \in DOMAIN memory : memory[k].from = r => k = m

\* Every decision can still name the memory it rests on, which was learned for
\* the same dimensions of scope.
DecisionsAreExplained ==
    \A r \in Requests : outcome[r].memory # 0 =>
        /\ memory[outcome[r].memory].status # "deleted"
        /\ CoversIgnoringWindow(memory[outcome[r].memory].scope, resolved[r].scope)

\* The chain from an answer to what is automated because of it can be followed in
\* both directions, whatever was cleared or submitted twice meanwhile: a memory is
\* what one approval allowed (checkGenerate, uq_trust_memories_created_from), a
\* decision names a memory that is still there (ON DELETE RESTRICT; recordDecision
\* fails when it went), and no memory goes without an entry (ClearTrustMemory).
LearningIsTraceable ==
    /\ LearnedAsApproved
    /\ DecisionsAreExplained
    /\ \A m \in DOMAIN memory : memory[m].status = "deleted" => m \in cleared
=============================================================================
