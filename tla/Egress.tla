------------------------------- MODULE Egress -------------------------------
(***************************************************************************)
(* What leaves the gateway: a request through the proxy port (proxy.serve),*)
(* the execution of a decided MCP call (mcpCalls.execute) and the reading  *)
(* of a record before its change is put to the user (Exchange.Preview).    *)
(* All of them end in an adapter and its outbound client.                  *)
(*                                                                         *)
(* Lease number l expires l-th, so that the list of active leases is in    *)
(* the order of the numbers.  Lease.tla has the other lives of a lease.    *)
(* The services answer as they like; a redirect within their host is part  *)
(* of one attempt, one to another host ends it.                            *)
(***************************************************************************)
EXTENDS Adapters

CONSTANTS
    Calls,         \* calls, each made once
    Agents,
    Targets,       \* [service, method, path, query]: what is asked of the proxy
    Leases,        \* 1..n, in the order of their expiry
    Scope,         \* Scope[l]: [agent, service, operation, resource]
    Limit,         \* Limit[l]: request_limit
    ActiveLimit,   \* maxActiveLeases (200)
    MaxRetries,    \* of an idempotent operation (2)
    Horizon        \* bound: how many leases may expire

ASSUME EgressAssumption ==
    /\ ActiveLimit \in Nat \ {0} /\ MaxRetries \in Nat /\ Horizon \in Nat
    /\ IsFiniteSet(Leases) /\ Leases = 1..Cardinality(Leases)
    /\ \A l \in Leases : Limit[l] \in Nat \ {0} /\ Scope[l].service \in Services
    /\ \A t \in Targets : t.service \in Services /\ t.path \in Seq(STRING)

VARIABLES
    now,         \* leases up to this number have expired
    closed,      \* leases whose row is no longer active
    used,        \* used_requests
    call,        \* where each call is and what it knows
    charged,     \* the leases each call has used
    reads,       \* attempts at reading the record that is to be changed
    sends,       \* attempts at the operation itself
    line,        \* method, path and query of the operation as sent
    booked,      \* the entry the call left in the ledger
    gone         \* calls whose client has left: their context is cancelled

vars == <<now, closed, used, call, charged, reads, sends, line, booked, gone>>
lease == <<now, closed, used, charged>>
wire == <<reads, sends, line>>

NoQuery == ""

Nothing == [method |-> "none", path |-> <<>>, query |-> NoQuery]

Idle == [at |-> "idle", face |-> "none", agent |-> "none", target |-> Nothing,
         service |-> "none", operation |-> "none", resource |-> <<>>, todo |-> {},
         grant |-> 0, result |-> "none"]

Steps == {"idle", "routed", "authorizing", "spent", "granted", "executing", "reading",
          "sending", "answered", "done"}

\* Registry.Capability finds a declaration.
Offered(c) == call[c].operation \in {d.operation : d \in Declared[call[c].service]}

TypeOK ==
    /\ now \in 0..Horizon /\ closed \subseteq Leases
    /\ used \in [Leases -> Nat] /\ \A l \in Leases : used[l] <= Limit[l]
    /\ \A c \in Calls :
          /\ call[c].at \in Steps
          /\ call[c].face \in {"none", "proxy", "mcp", "preview"}
          /\ call[c].grant \in Leases \cup {0}
          /\ call[c].todo \subseteq Leases
          /\ call[c].at \in {"executing", "reading", "sending", "answered"} => Offered(c)
          /\ call[c].result \in {"none", "refused", "ok", "failed"}
    /\ charged \in [Calls -> SUBSET Leases]
    /\ reads \in [Calls -> Nat] /\ sends \in [Calls -> Nat]
    /\ booked \in [Calls -> {"none", "blocked", "succeeded", "failed"}]
    /\ gone \subseteq Calls

Init ==
    /\ now = 0 /\ closed = {}
    /\ used = [l \in Leases |-> 0]
    /\ call = [c \in Calls |-> Idle]
    /\ charged = [c \in Calls |-> {}]
    /\ reads = [c \in Calls |-> 0] /\ sends = [c \in Calls |-> 0]
    /\ line = [c \in Calls |-> Nothing]
    /\ booked = [c \in Calls |-> "none"]
    /\ gone = {}

Goes(c, step) == call' = [call EXCEPT ![c].at = step]

Ends(c, result) == call' = [call EXCEPT ![c] = [@ EXCEPT !.at = "done", !.result = result]]

\* An entry of the ledger is written under the request's own context.
Books(c, entry) ==
    \/ c \notin gone /\ booked' = [booked EXCEPT ![c] = entry]
    \/ UNCHANGED booked

\* The proxy's refuse, the failed of an MCP call, the error of a preview: the
\* call is over, and an entry that cannot be written is only logged.
Refuse(c) ==
    /\ Ends(c, "refused")
    /\ CASE call[c].face = "proxy" -> Books(c, "blocked")
         [] call[c].face = "mcp"   -> Books(c, "failed")
         [] OTHER                  -> UNCHANGED booked

-----------------------------------------------------------------------------
(* Proxy.serve up to the lease *)

\* The gateway must be up, the target absolute, the session known, the host
\* one of an enabled adapter, the body small enough; otherwise refuse.
Ask(c) ==
    /\ call[c].at = "idle" /\ c \notin gone
    /\ \E a \in Agents, t \in Targets : \E d \in Resolve(t.service, t.method, t.path) :
          call' = [call EXCEPT ![c] = [Idle EXCEPT
                     !.at = "routed", !.face = "proxy", !.agent = a,
                     !.target = [method |-> t.method, path |-> t.path, query |-> t.query],
                     !.service = t.service, !.operation = d.operation,
                     !.resource = Captured(d.path, t.path)]]
    /\ UNCHANGED <<lease, wire, booked, gone>>

\* A refused CONNECT is only logged, the one refusal that is never booked.
AskRefused(c) ==
    /\ call[c].at = "idle"
    /\ Ends(c, "refused")
    /\ Books(c, "blocked")
    /\ UNCHANGED <<lease, wire, gone>>

\* Fault: the requested scope keeps the lease's own operation and resource.
CoversByService(l, c) ==
    /\ Scope[l].agent = call[c].agent
    /\ Scope[l].service = call[c].service

\* requestedScope puts what was asked over the lease's scope, and Use compares
\* the two; a request without any resource has no valid scope.
Covers(l, c) ==
    /\ Scope[l].agent = call[c].agent
    /\ Scope[l].service = call[c].service
    /\ Scope[l].operation = call[c].operation
    /\ Scope[l].resource = call[c].resource
    /\ DOMAIN call[c].resource # {}

\* Authorize: of the first rows of the active leases, whoever holds them, the
\* ones of this agent and service whose scope covers the request, to be tried in
\* the order of their expiry.
List(c) ==
    LET active == {l \in Leases : l \notin closed}
        listed == {l \in active : Cardinality({k \in active : k <= l}) <= ActiveLimit}
        fit == {l \in listed : Covers(l, c)}
    IN  /\ call[c].at = "routed" /\ c \notin gone
        /\ call' = [call EXCEPT ![c] = [@ EXCEPT !.at = "authorizing", !.todo = fit]]
        /\ UNCHANGED <<lease, wire, booked, gone>>

\* The lease that is tried next.
First(todo) == CHOOSE l \in todo : \A k \in todo : l <= k

Rest(todo) == todo \ {First(todo)}

\* Fault: a lease may be used once more than its limit says.
ConsumableOnceMore(l) == l \notin closed /\ l > now /\ used[l] <= Limit[l]

\* The WHERE clause of ConsumeLease.
Consumable(l) == l \notin closed /\ l > now /\ used[l] < Limit[l]

\* Consume finds the lease closed, expired or used up in the meantime.
Skip(c) ==
    /\ call[c].at = "authorizing" /\ call[c].todo # {}
    /\ ~Consumable(First(call[c].todo)) \/ c \in gone
    /\ call' = [call EXCEPT ![c].todo = Rest(@)]
    /\ UNCHANGED <<lease, wire, booked, gone>>

Charge(c) ==
    LET l == First(call[c].todo)
    IN  /\ call[c].at = "authorizing" /\ call[c].todo # {} /\ c \notin gone
        /\ Consumable(l)
        /\ used' = [used EXCEPT ![l] = @ + 1]
        /\ charged' = [charged EXCEPT ![c] = @ \cup {l}]
        /\ call' = [call EXCEPT ![c] =
              IF used[l] + 1 = Limit[l] THEN [@ EXCEPT !.at = "spent"]
                                        ELSE [@ EXCEPT !.at = "granted", !.grant = l]]
        /\ UNCHANGED <<now, closed, wire, booked, gone>>

\* The last use closes the lease.  Where somebody closed it first, or the
\* client has left, the use is lost and the next lease is tried.
Exhaust(c) ==
    LET l == First(call[c].todo)
    IN  /\ call[c].at = "spent"
        /\ IF l \in closed \/ c \in gone
           THEN /\ call' = [call EXCEPT ![c] = [@ EXCEPT !.at = "authorizing",
                                                       !.todo = Rest(call[c].todo)]]
                /\ UNCHANGED closed
           ELSE /\ call' = [call EXCEPT ![c] = [@ EXCEPT !.at = "granted", !.grant = l]]
                /\ closed' = closed \cup {l}
        /\ UNCHANGED <<now, used, charged, wire, booked, gone>>

NoLease(c) ==
    /\ call[c].at = "authorizing" /\ call[c].todo = {}
    /\ Refuse(c)
    /\ UNCHANGED <<lease, wire, gone>>

-----------------------------------------------------------------------------
(* The other two ways in *)

\* mcpCalls.execute: the request was allowed under lease l, whose scope is sent.
Call(c) ==
    /\ call[c].at = "idle" /\ c \notin gone
    /\ \E l \in Leases :
          call' = [call EXCEPT ![c] = [Idle EXCEPT
                     !.at = "authorizing", !.face = "mcp", !.agent = Scope[l].agent,
                     !.service = Scope[l].service, !.operation = Scope[l].operation,
                     !.resource = Scope[l].resource, !.todo = {l}]]
    /\ UNCHANGED <<lease, wire, booked, gone>>

\* Exchange.Preview, before there is any lease: only cloudflare offers it and
\* only a read operation may be its source.
Preview(c) ==
    /\ call[c].at = "idle" /\ c \notin gone
    /\ ~Write(Capability("cloudflare", PreviewSource))
    /\ \E l \in Leases :
          /\ Scope[l].service = "cloudflare" /\ Scope[l].operation \in ChangesBefore
          /\ call' = [call EXCEPT ![c] = [Idle EXCEPT
                        !.at = "granted", !.face = "preview", !.agent = Scope[l].agent,
                        !.service = "cloudflare", !.operation = Scope[l].operation,
                        !.resource = Scope[l].resource]]
    /\ UNCHANGED <<lease, wire, booked, gone>>

-----------------------------------------------------------------------------
(* Exchange.Send *)

Wanted(c) == Capability(call[c].service, call[c].operation)

\* The operation must be declared; then ReferenceFor and Fetch.
Fetch(c) ==
    /\ call[c].at = "granted" /\ c \notin gone /\ Offered(c)
    /\ Goes(c, "executing")
    /\ UNCHANGED <<lease, wire, booked, gone>>

\* No declaration, no reference, no secret, or a statement of the store that fails.
Fails(c) ==
    /\ call[c].at \in {"routed", "granted"}
    /\ Refuse(c)
    /\ UNCHANGED <<lease, wire, gone>>

\* The operation is one the adapter executes, not only declares.
executableCapability(c) == call[c].operation \in Executable[call[c].service]

\* A budget of zero is none at all.
withinBudget(max, spent, estimate) == max > 0 /\ spent + estimate <= max

\* What an adapter looks at before it sends anything.  Exchange.Send hands over
\* neither a budget nor what was spent of it, so that a model request goes no
\* further, whatever its estimate.
Prepared(c) ==
    /\ executableCapability(c)
    /\ Builds(Wanted(c), call[c].resource)
    /\ call[c].service \in {"openai", "anthropic"} => withinBudget(0, 0, 1)

\* A change of a record reads the record first, by a declared operation.
ExecuteCloudflare(c) ==
    /\ call[c].at = "executing" /\ call[c].service = "cloudflare" /\ Prepared(c)
    /\ Goes(c, IF call[c].operation \in ChangesBefore THEN "reading" ELSE "sending")
    /\ UNCHANGED <<lease, wire, booked, gone>>

ExecuteGitHub(c) ==
    /\ call[c].at = "executing" /\ call[c].service = "github" /\ Prepared(c)
    /\ Goes(c, "sending")
    /\ UNCHANGED <<lease, wire, booked, gone>>

\* checkHost: what was public when the definition was saved may be this
\* machine or a private network by now, or have no address.
Resolutions == {"public", "private", "unknown"}

ExecuteGeneric(c) ==
    /\ call[c].at = "executing" /\ call[c].service = "custom" /\ Prepared(c)
    /\ \E r \in Resolutions :
          IF r = "public" THEN Goes(c, "sending") /\ UNCHANGED booked ELSE Refuse(c)
    /\ UNCHANGED <<lease, wire, gone>>

ExecuteRefused(c) ==
    /\ call[c].at = "executing" /\ ~Prepared(c)
    /\ Refuse(c)
    /\ UNCHANGED <<lease, wire, gone>>

-----------------------------------------------------------------------------
(* The outbound client *)

\* Fault: whatever times out is sent again.
AttemptsForAll(d) == 1 + MaxRetries + (IF d.idempotent THEN 0 ELSE 0)

Attempts(d) == IF d.idempotent THEN 1 + MaxRetries ELSE 1

\* ok: a status below 400 and a body that could be read; busy: 429 or 5xx;
\* lost: a timeout or a broken connection, whether or not the service acted.
Outcomes == {"ok", "refused", "busy", "lost", "unreadable"}

\* Client.Do sends again after busy and lost, unless its wait is cancelled.
Again(c, outcome, made, d) == outcome \in {"busy", "lost"} /\ made < Attempts(d) /\ c \notin gone

\* readCurrentRecord: without the current value the change is not made.
Read(c) ==
    LET d == Capability("cloudflare", PreviewSource)
    IN  /\ call[c].at = "reading"
        /\ reads' = [reads EXCEPT ![c] = @ + 1]
        /\ \E o \in IF c \in gone THEN {"lost"} ELSE Outcomes :
              call' = [call EXCEPT ![c] =
                 IF Again(c, o, reads[c] + 1, d) THEN @
                 ELSE IF o # "ok" THEN [@ EXCEPT !.at = "answered", !.result = "failed"]
                 ELSE IF @.face = "preview" THEN [@ EXCEPT !.at = "answered", !.result = "ok"]
                 ELSE [@ EXCEPT !.at = "sending"]]
        /\ UNCHANGED <<lease, sends, line, booked, gone>>

\* Client.attempt puts the path of the base URL before the built one.  Neither
\* the proxy nor an MCP call hands a query over, so none is sent.  An answer that
\* cannot be redacted is withheld and counts as failed.
Send(c) ==
    /\ call[c].at = "sending"
    /\ sends' = [sends EXCEPT ![c] = @ + 1]
    /\ line' = [line EXCEPT ![c] =
          [method |-> Wanted(c).method, query |-> NoQuery,
           path |-> BasePath[call[c].service] \o buildPath(Wanted(c), call[c].resource)]]
    /\ \E o \in IF c \in gone THEN {"lost"} ELSE Outcomes :
          call' = [call EXCEPT ![c] =
             IF Again(c, o, sends[c] + 1, Wanted(c)) THEN @
             ELSE [@ EXCEPT !.at = "answered", !.result = IF o = "ok" THEN "ok" ELSE "failed"]]
    /\ UNCHANGED <<lease, reads, booked, gone>>

\* previewChange: without the old values, or when they cannot be saved with the
\* request, the user is asked without them.
SavePreview(c) ==
    /\ call[c].at = "answered" /\ call[c].face = "preview"
    /\ Ends(c, call[c].result) \/ Ends(c, "failed")
    /\ UNCHANGED <<lease, wire, booked, gone>>

\* Fault: an answer that could not be entered is handed over all the same.
RecordsLate(c) ==
    /\ call[c].at = "answered" /\ call[c].face # "preview"
    /\ Ends(c, call[c].result)
    /\ Books(c, IF call[c].result = "ok" THEN "succeeded" ELSE "failed")
    /\ UNCHANGED <<lease, wire, gone>>

\* RecordExecuted: what cannot be entered is not handed over.
RecordExecuted(c) ==
    /\ call[c].at = "answered" /\ call[c].face # "preview"
    /\ \/ /\ c \notin gone
          /\ booked' = [booked EXCEPT ![c] =
                           IF call[c].result = "ok" THEN "succeeded" ELSE "failed"]
          /\ Ends(c, call[c].result)
       \/ Ends(c, "failed") /\ UNCHANGED booked
    /\ UNCHANGED <<lease, wire, gone>>

-----------------------------------------------------------------------------
(* Around the calls *)

Leaves(c) ==
    /\ c \notin gone /\ call[c].at # "done"
    /\ gone' = gone \cup {c}
    /\ UNCHANGED <<lease, wire, call, booked>>

Revoke(l) ==
    /\ l \notin closed
    /\ closed' = closed \cup {l}
    /\ UNCHANGED <<now, used, charged, wire, call, booked, gone>>

Tick ==
    /\ now < Horizon
    /\ now' = now + 1
    /\ UNCHANGED <<closed, used, charged, wire, call, booked, gone>>

Step(c) ==
    \/ Ask(c) \/ AskRefused(c) \/ List(c) \/ Skip(c) \/ Charge(c) \/ Exhaust(c)
    \/ NoLease(c) \/ Call(c) \/ Preview(c) \/ Fetch(c) \/ Fails(c)
    \/ ExecuteGitHub(c) \/ ExecuteCloudflare(c) \/ ExecuteGeneric(c)
    \/ ExecuteRefused(c) \/ Read(c) \/ Send(c) \/ SavePreview(c)
    \/ RecordExecuted(c) \/ Leaves(c)

Next == (\E c \in Calls : Step(c)) \/ (\E l \in Leases : Revoke(l)) \/ Tick

Spec == Init /\ [][Next]_vars

-----------------------------------------------------------------------------
\* A template that holds no placeholder twice: nothing obliges one a user writes.
Plain(template) ==
    \A i, j \in 1..Len(template) : template[i] \in Keys /\ template[i] = template[j] => i = j

\* What was asked of the proxy, as it is to reach the service: the asked path
\* under the one of the service's base URL, and nothing of the asked query.
AsAsked(c) ==
    /\ EqualFold(line[c].method, call[c].target.method)
    /\ line[c].path = BasePath[call[c].service] \o call[c].target.path
    /\ line[c].query = NoQuery

(* An operation leaves only on a lease of its agent for just that operation  *)
(* and resource, of which this very call used up one request; taken apart by *)
(* the template, checked against the lease and put together again, the path  *)
(* asked of the proxy is the one that is sent under the service's base URL,  *)
(* unless the template holds a placeholder twice; and no use is counted that *)
(* no call made.  What leaves without a lease is a read of the record to be  *)
(* changed.                                                                  *)
SentIsPaidFor ==
    /\ \A c \in Calls : sends[c] > 0 =>
          /\ call[c].face # "preview"
          /\ call[c].grant \in charged[c]
          /\ Scope[call[c].grant].agent = call[c].agent
          /\ Scope[call[c].grant].operation = call[c].operation
          /\ Scope[call[c].grant].resource = call[c].resource
          /\ call[c].face = "proxy" /\ Plain(Wanted(c).path) => AsAsked(c)
    /\ \A l \in Leases : used[l] = Cardinality({c \in Calls : l \in charged[c]})

(* A timeout does not mean the service did nothing: an operation that is not *)
(* idempotent is sent once at most, whatever is lost, and a change whose     *)
(* record must be read first is sent only after an answer to the read.       *)
SentAtMostOnce ==
    \A c \in Calls : call[c].face # "none" =>
       /\ sends[c] <= IF Wanted(c).idempotent THEN 1 + MaxRetries ELSE 1
       /\ reads[c] <= 1 + MaxRetries
       /\ sends[c] > 0 /\ call[c].service = "cloudflare" /\ call[c].operation \in ChangesBefore
             => reads[c] > 0

(* The ledger says what happened: a request entered as blocked sent nothing, *)
(* one entered as succeeded was sent, and a client that is given an answer   *)
(* has its entry in the ledger.                                              *)
BookedAsHappened ==
    \A c \in Calls :
       /\ booked[c] = "blocked" => sends[c] = 0 /\ reads[c] = 0
       /\ booked[c] = "succeeded" => sends[c] > 0
       /\ call[c].at = "done" /\ call[c].result = "ok" /\ call[c].face # "preview"
             => booked[c] = "succeeded"
=============================================================================
