----------------------------- MODULE Settlement -----------------------------
(***************************************************************************)
(* A capability request from its arrival to its end: the decision pipeline *)
(* (core/pipeline), the approval manager (core/approval), the sweeper that *)
(* closes overdue approvals (cli/expiry.go) and the execution of an MCP    *)
(* call (cli/mcpcalls.go), over the tables they share.                     *)
(*                                                                         *)
(* Nothing here runs in a transaction: every statement commits by itself,  *)
(* and the actors interleave between statements.  An actor is the handler  *)
(* of one request, a submission of a verdict from the console, the agent's *)
(* cancellation, or the sweeper.  Any statement may fail (the client is    *)
(* gone, the disk is full), which ends the call it belongs to and leaves   *)
(* what it did before; a crash does that to all calls at once.             *)
(*                                                                         *)
(* A request has one decision, at most one approval, at most one lease and *)
(* at most one memory of its own, so all of them carry the request's name. *)
(* Which verdict the decision engine gives is left open.  A submission     *)
(* that fails its checks before the first write (unknown action, missing   *)
(* strong authentication, too few confirmations, window over) changes      *)
(* nothing and is not a step.                                              *)
(***************************************************************************)
EXTENDS Naturals, Sequences

CONSTANTS
    Requests,           \* the capability requests that may be submitted
    Settlers,           \* concurrent calls of SettleApproval
    NoRequest,          \* "none" where a request is expected
    Submitted,          \* the actions the console submits
    RiskLevels,         \* the risk levels decisions come with
    ApprovalTimeout,    \* how long an approval waits for a human
    WindowLength,       \* how long the resolved scope is valid
    SweepBatch,         \* the most approvals one round of the sweeper closes
    MaxTime,            \* bound on the clock
    MaxFailures         \* bound on failed statements and crashes

\* approval.Action
Actions == {"deny", "allow_once", "allow_until_task_end", "auto_allow_in_project", "always_ask"}

\* risk.Level
Levels == {"low", "medium", "high"}

ASSUME SettlementAssumption ==
    /\ NoRequest \notin Requests
    /\ Submitted \subseteq Actions
    /\ RiskLevels \subseteq Levels
    /\ ApprovalTimeout \in Nat
    /\ WindowLength \in Nat
    /\ SweepBatch \in Nat \ {0}
    /\ MaxTime \in Nat
    /\ MaxFailures \in Nat

\* pipeline.RequestStatus, without the three no statement ever writes
\* (resolving, deciding, expired); "none" is a request not yet submitted.
RequestStatuses ==
    {"none", "received", "auto_allowed", "awaiting_approval", "denied", "approved",
     "rejected", "cancelled", "executing", "succeeded", "failed"}

\* decision.Verdict; "none" before the decision is recorded.
Verdicts == {"none", "deny", "require_approval", "auto_allow"}

ApprovalStatuses == {"none", "pending", "approved", "rejected", "expired"}

\* audit.EventType as far as these paths write it.  "blocked" is the denial of
\* the decision itself, "user_denied" the one that carries an approval id.
Events == {"error", "auto_allowed", "blocked", "user_allowed", "user_denied",
           "approval_expired", "executed"}

HandlerSteps ==
    {"absent", "deciding", "booking", "acting", "advancing", "allowed", "using",
     "sending", "recording", "closing", "failing", "abandoning", "done"}

SettlerSteps == {"idle", "settling", "looking", "booking", "granting", "learning", "advancing"}

VARIABLES
    now,            \* the clock
    request,        \* capability_requests.status
    decision,       \* decisions.verdict
    risk,           \* decisions.risk_level
    window,         \* decisions.resolved_scope: the instant the scope expires
    matched,        \* Outcome.MatchedLeaseID: the lease an auto_allow rests on
    approval,       \* approvals.status
    action,         \* approvals.action
    expiresAt,      \* approvals.expires_at
    ledger,         \* audit_events: ledger[r][e] entries of type e about r
    lease,          \* the requests a lease was issued for
    memory,         \* the requests a trust memory was learned from
    hpc,            \* where the handler of each request is
    grant,          \* the lease the handler of an allowed request holds
    spc,            \* where each submission is
    sub,            \* the request whose approval it settles
    act,            \* the action it submits
    seen,           \* the request status it read
    wpc,            \* where the sweeper is
    due,            \* the approvals it listed and has not closed yet
    closed,         \* the approvals it closed and has not booked yet
    wseen,          \* the request status it read
    sent,           \* observation: the requests sent to the outside
    failures        \* the failures so far

decisionVars == <<decision, risk, window, matched>>
approvalVars == <<approval, action, expiresAt>>
handlerVars == <<hpc, grant>>
settlerVars == <<spc, sub, act, seen>>
sweeperVars == <<wpc, due, closed, wseen>>
vars == <<now, request, decisionVars, approvalVars, ledger, lease, memory,
          handlerVars, settlerVars, sweeperVars, sent, failures>>

TypeOK ==
    /\ now \in Nat
    /\ request \in [Requests -> RequestStatuses]
    /\ decision \in [Requests -> Verdicts]
    /\ risk \in [Requests -> Levels]
    /\ window \in [Requests -> Nat]
    /\ matched \in [Requests -> Requests \cup {NoRequest}]
    /\ approval \in [Requests -> ApprovalStatuses]
    /\ action \in [Requests -> Actions \cup {"none"}]
    /\ expiresAt \in [Requests -> Nat]
    /\ ledger \in [Requests -> [Events -> Nat]]
    /\ lease \in SUBSET Requests
    /\ memory \in SUBSET Requests
    /\ hpc \in [Requests -> HandlerSteps]
    /\ grant \in [Requests -> Requests \cup {NoRequest}]
    /\ spc \in [Settlers -> SettlerSteps]
    /\ sub \in [Settlers -> Requests \cup {NoRequest}]
    /\ act \in [Settlers -> Actions \cup {"none"}]
    /\ seen \in [Settlers -> RequestStatuses]
    /\ wpc \in {"idle", "closing", "booking", "advancing"}
    /\ due \in Seq(Requests)
    /\ closed \in Seq(Requests)
    /\ wseen \in RequestStatuses
    /\ sent \in SUBSET Requests
    /\ failures \in Nat

Init ==
    /\ now = 0
    /\ request = [r \in Requests |-> "none"]
    /\ decision = [r \in Requests |-> "none"]
    /\ risk = [r \in Requests |-> "low"]
    /\ window = [r \in Requests |-> 0]
    /\ matched = [r \in Requests |-> NoRequest]
    /\ approval = [r \in Requests |-> "none"]
    /\ action = [r \in Requests |-> "none"]
    /\ expiresAt = [r \in Requests |-> 0]
    /\ ledger = [r \in Requests |-> [e \in Events |-> 0]]
    /\ lease = {}
    /\ memory = {}
    /\ hpc = [r \in Requests |-> "absent"]
    /\ grant = [r \in Requests |-> NoRequest]
    /\ spc = [s \in Settlers |-> "idle"]
    /\ sub = [s \in Settlers |-> NoRequest]
    /\ act = [s \in Settlers |-> "none"]
    /\ seen = [s \in Settlers |-> "none"]
    /\ wpc = "idle"
    /\ due = <<>>
    /\ closed = <<>>
    /\ wseen = "none"
    /\ sent = {}
    /\ failures = 0

-----------------------------------------------------------------------------
(* Helpers *)

\* approval.Allows: what the consequences table says of an action.
Allows(a) == a # "deny"

\* The two actions whose consequence is a memory.
Learns(a) == a \in {"auto_allow_in_project", "always_ask"}

\* approval.Actions: high risk offers nothing that would be remembered.
Offered(level) == IF level = "high" THEN {a \in Actions : ~Learns(a)} ELSE Actions

\* Recorder.Record: one more entry.
Record(r, e) == ledger' = [ledger EXCEPT ![r][e] = @ + 1]

\* AdvanceRequest: the update is conditional on the status the caller expects.
Advance(r, from, to) ==
    /\ request[r] = from
    /\ request' = [request EXCEPT ![r] = to]

\* The status the handler moves its request to.
NextStatus(v) ==
    CASE v = "require_approval" -> "awaiting_approval"
      [] v = "auto_allow" -> "auto_allowed"
      [] OTHER -> "denied"

\* The pending approvals whose time is over, before ORDER BY and LIMIT.
Overdue == {r \in Requests : approval[r] = "pending" /\ expiresAt[r] <= now}

\* The sequences ListPendingApprovalsDueBefore may return.
OldestFirst(S, n) ==
    {q \in UNION {[1..k -> S] : k \in 0..n} :
        /\ \A i, j \in 1..Len(q) : i < j => q[i] # q[j] /\ expiresAt[q[i]] <= expiresAt[q[j]]
        /\ \A r \in S : r \notin {q[i] : i \in 1..Len(q)} =>
              /\ Len(q) = n
              /\ \A i \in 1..Len(q) : expiresAt[q[i]] <= expiresAt[r]}

HandlerGoes(r, step) == hpc' = [hpc EXCEPT ![r] = step]

SettlerGoes(s, step) ==
    /\ spc' = [spc EXCEPT ![s] = step]
    /\ UNCHANGED <<sub, act, seen>>

SettlerReturns(s) ==
    /\ spc' = [spc EXCEPT ![s] = "idle"]
    /\ sub' = [sub EXCEPT ![s] = NoRequest]
    /\ act' = [act EXCEPT ![s] = "none"]
    /\ seen' = [seen EXCEPT ![s] = "none"]

SweeperReturns == wpc' = "idle" /\ due' = <<>> /\ closed' = <<>> /\ wseen' = "none"

-----------------------------------------------------------------------------
(* The handler of a request: Pipeline.Handle and what follows it *)

\* CreateRequest, on the HTTP API or on the MCP face.
Submit(r) ==
    /\ hpc[r] = "absent"
    /\ request' = [request EXCEPT ![r] = "received"]
    /\ HandlerGoes(r, "deciding")
    /\ UNCHANGED <<now, decisionVars, approvalVars, ledger, lease, memory, grant,
                   settlerVars, sweeperVars, sent, failures>>

\* Pipeline.failClosed: the request cannot be resolved (or the chain panicked);
\* one error entry, no decision, and the request is denied next.
FailClosed(r) ==
    /\ hpc[r] = "deciding"
    /\ Record(r, "error")
    /\ HandlerGoes(r, "advancing")
    /\ UNCHANGED <<now, request, decisionVars, approvalVars, lease, memory, grant,
                   settlerVars, sweeperVars, sent, failures>>

\* resolve, Decide and recordDecision.  High risk is never allowed without a
\* human; an auto_allow may rest on a lease that is already out and not expired.
RecordDecision(r, v, level) ==
    /\ hpc[r] = "deciding"
    /\ v = "auto_allow" => level # "high"
    /\ decision' = [decision EXCEPT ![r] = v]
    /\ risk' = [risk EXCEPT ![r] = level]
    /\ window' = [window EXCEPT ![r] = now + WindowLength]
    /\ \E q \in {NoRequest} \cup {l \in lease : v = "auto_allow" /\ window[l] > now} :
          matched' = [matched EXCEPT ![r] = q]
    /\ HandlerGoes(r, "booking")
    /\ UNCHANGED <<now, request, approvalVars, ledger, lease, memory, grant,
                   settlerVars, sweeperVars, sent, failures>>

\* Pipeline.write, the entry that precedes whatever the verdict leads to.
BookDecision(r) ==
    /\ hpc[r] = "booking"
    /\ Record(r, IF decision[r] = "auto_allow" THEN "auto_allowed" ELSE "blocked")
    /\ HandlerGoes(r, IF decision[r] = "deny" THEN "advancing" ELSE "acting")
    /\ UNCHANGED <<now, request, decisionVars, approvalVars, lease, memory, grant,
                   settlerVars, sweeperVars, sent, failures>>

\* Manager.Open
Open(r) ==
    /\ hpc[r] = "acting"
    /\ decision[r] = "require_approval"
    /\ approval' = [approval EXCEPT ![r] = "pending"]
    /\ expiresAt' = [expiresAt EXCEPT ![r] = now + ApprovalTimeout]
    /\ HandlerGoes(r, "advancing")
    /\ UNCHANGED <<now, request, decisionVars, action, ledger, lease, memory, grant,
                   settlerVars, sweeperVars, sent, failures>>

\* Pipeline.issue when the verdict rests on a lease: that lease, not another.
ReuseLease(r) ==
    /\ hpc[r] = "acting"
    /\ decision[r] = "auto_allow"
    /\ matched[r] # NoRequest
    /\ grant' = [grant EXCEPT ![r] = matched[r]]
    /\ HandlerGoes(r, "advancing")
    /\ UNCHANGED <<now, request, decisionVars, approvalVars, ledger, lease, memory,
                   settlerVars, sweeperVars, sent, failures>>

\* Pipeline.issue otherwise: a lease of its own, if the window is still open.
Issue(r) ==
    /\ hpc[r] = "acting"
    /\ decision[r] = "auto_allow"
    /\ matched[r] = NoRequest
    /\ window[r] > now
    /\ lease' = lease \cup {r}
    /\ grant' = [grant EXCEPT ![r] = r]
    /\ HandlerGoes(r, "advancing")
    /\ UNCHANGED <<now, request, decisionVars, approvalVars, ledger, memory,
                   settlerVars, sweeperVars, sent, failures>>

\* Fault: the handler goes on without the lease.
IssueSkipped(r) ==
    /\ hpc[r] = "acting"
    /\ decision[r] = "auto_allow"
    /\ matched[r] = NoRequest
    /\ window[r] <= now
    /\ HandlerGoes(r, "advancing")
    /\ UNCHANGED <<now, request, decisionVars, approvalVars, ledger, lease, memory, grant,
                   settlerVars, sweeperVars, sent, failures>>

\* lease.Manager.Issue refuses a window that is over: Handle returns an error.
IssueRefused(r) ==
    /\ hpc[r] = "acting"
    /\ decision[r] = "auto_allow"
    /\ matched[r] = NoRequest
    /\ window[r] <= now
    /\ HandlerGoes(r, "done")
    /\ UNCHANGED <<now, request, decisionVars, approvalVars, ledger, lease, memory, grant,
                   settlerVars, sweeperVars, sent, failures>>

\* The last statement of conclude and of failClosed.
HandlerAdvance(r) ==
    /\ hpc[r] = "advancing"
    /\ Advance(r, "received", NextStatus(decision[r]))
    /\ HandlerGoes(r, IF decision[r] = "auto_allow" THEN "allowed" ELSE "done")
    /\ UNCHANGED <<now, decisionVars, approvalVars, ledger, lease, memory, grant,
                   settlerVars, sweeperVars, sent, failures>>

\* A submission was faster than the handler and moved the request already.
HandlerConflict(r) ==
    /\ hpc[r] = "advancing"
    /\ request[r] # "received"
    /\ HandlerGoes(r, "done")
    /\ UNCHANGED <<now, request, decisionVars, approvalVars, ledger, lease, memory, grant,
                   settlerVars, sweeperVars, sent, failures>>

-----------------------------------------------------------------------------
(* mcpCalls.execute.  A request that came over the HTTP API stays "allowed". *)

ExecuteStart(r) ==
    /\ hpc[r] = "allowed"
    /\ Advance(r, "auto_allowed", "executing")
    /\ HandlerGoes(r, "using")
    /\ UNCHANGED <<now, decisionVars, approvalVars, ledger, lease, memory, grant,
                   settlerVars, sweeperVars, sent, failures>>

\* lease.Manager.Use on the lease it holds; Lease.tla says when it succeeds.
Use(r, step) ==
    /\ hpc[r] = "using"
    /\ HandlerGoes(r, step)
    /\ UNCHANGED <<now, request, decisionVars, approvalVars, ledger, lease, memory, grant,
                   settlerVars, sweeperVars, sent, failures>>

\* Exchange.Send: answered, or failed before or after it reached the service.
Send(r) ==
    /\ hpc[r] = "sending"
    /\ \/ sent' = sent \cup {r} /\ HandlerGoes(r, "recording")
       \/ sent' \in {sent, sent \cup {r}} /\ HandlerGoes(r, "failing")
    /\ UNCHANGED <<now, request, decisionVars, approvalVars, ledger, lease, memory, grant,
                   settlerVars, sweeperVars, failures>>

\* mcpCalls.record after an answer.
RecordExecuted(r) ==
    /\ hpc[r] = "recording"
    /\ Record(r, "executed")
    /\ HandlerGoes(r, "closing")
    /\ UNCHANGED <<now, request, decisionVars, approvalVars, lease, memory, grant,
                   settlerVars, sweeperVars, sent, failures>>

\* The request ends as the status of the answer says.
ExecuteEnd(r, end) ==
    /\ hpc[r] = "closing"
    /\ Advance(r, "executing", end)
    /\ HandlerGoes(r, "done")
    /\ UNCHANGED <<now, decisionVars, approvalVars, ledger, lease, memory, grant,
                   settlerVars, sweeperVars, sent, failures>>

\* mcpCalls.failed: the entry is attempted ...
RecordFailed(r) ==
    /\ hpc[r] = "failing"
    /\ \/ Record(r, "executed") /\ UNCHANGED failures
       \/ failures < MaxFailures /\ failures' = failures + 1 /\ UNCHANGED ledger
    /\ HandlerGoes(r, "abandoning")
    /\ UNCHANGED <<now, request, decisionVars, approvalVars, lease, memory, grant,
                   settlerVars, sweeperVars, sent>>

\* ... and the request is moved whether or not it was written.
Abandon(r) ==
    /\ hpc[r] = "abandoning"
    /\ Advance(r, "executing", "failed")
    /\ HandlerGoes(r, "done")
    /\ UNCHANGED <<now, decisionVars, approvalVars, ledger, lease, memory, grant,
                   settlerVars, sweeperVars, sent, failures>>

HandlerFails(r) ==
    /\ hpc[r] \notin {"absent", "allowed", "failing", "done"}
    /\ failures < MaxFailures
    /\ failures' = failures + 1
    /\ HandlerGoes(r, "done")
    /\ UNCHANGED <<now, request, decisionVars, approvalVars, ledger, lease, memory, grant,
                   settlerVars, sweeperVars, sent>>

\* POST /requests/{id}/cancel: the request row and nothing else.
Cancel(r) ==
    /\ Advance(r, "awaiting_approval", "cancelled")
    /\ UNCHANGED <<now, decisionVars, approvalVars, ledger, lease, memory, handlerVars,
                   settlerVars, sweeperVars, sent, failures>>

-----------------------------------------------------------------------------
(* A submission from the console: Pipeline.SettleApproval *)

\* The three reads, the check that an allowing action still has a window, and
\* the checks of Manager.checkSettle, which look only at the decision record.
\* The status of the request is remembered until the last statement.
SettleRead(s, r, a) ==
    /\ spc[s] = "idle"
    /\ approval[r] # "none"
    /\ Allows(a) => window[r] > now
    /\ a \in Offered(risk[r])
    /\ spc' = [spc EXCEPT ![s] = "settling"]
    /\ sub' = [sub EXCEPT ![s] = r]
    /\ act' = [act EXCEPT ![s] = a]
    /\ seen' = [seen EXCEPT ![s] = request[r]]
    /\ UNCHANGED <<now, request, decisionVars, approvalVars, ledger, lease, memory,
                   handlerVars, sweeperVars, sent, failures>>

\* Fault: the status is read first and not part of the update.
SettleWriteUnconditional(s) ==
    /\ spc[s] = "settling"
    /\ approval' = [approval EXCEPT ![sub[s]] =
                      IF Allows(act[s]) THEN "approved" ELSE "rejected"]
    /\ action' = [action EXCEPT ![sub[s]] = act[s]]
    /\ SettlerGoes(s, "booking")
    /\ UNCHANGED <<now, request, decisionVars, expiresAt, ledger, lease, memory,
                   handlerVars, sweeperVars, sent, failures>>

\* The conditional update of Manager.Settle; expires_at plays no part in it.
SettleWrite(s) ==
    /\ spc[s] = "settling"
    /\ approval[sub[s]] = "pending"
    /\ approval' = [approval EXCEPT ![sub[s]] =
                      IF Allows(act[s]) THEN "approved" ELSE "rejected"]
    /\ action' = [action EXCEPT ![sub[s]] = act[s]]
    /\ SettlerGoes(s, "booking")
    /\ UNCHANGED <<now, request, decisionVars, expiresAt, ledger, lease, memory,
                   handlerVars, sweeperVars, sent, failures>>

\* Manager.replay: the update matched nothing.  Another verdict, or a timeout,
\* is a conflict; a repeated denial returns; a repeated approval looks for the
\* lease of the first one.
SettleReplay(s) ==
    /\ spc[s] = "settling"
    /\ approval[sub[s]] # "pending"
    /\ IF action[sub[s]] = act[s] /\ approval[sub[s]] # "expired" /\ Allows(act[s])
       THEN SettlerGoes(s, "looking")
       ELSE SettlerReturns(s)
    /\ UNCHANGED <<now, request, decisionVars, approvalVars, ledger, lease, memory,
                   handlerVars, sweeperVars, sent, failures>>

\* Pipeline.replayed: the first submission did everything; its lease is looked up
\* and nothing is booked, issued or learned again.
SettleLook(s) ==
    /\ spc[s] = "looking"
    /\ SettlerReturns(s)
    /\ UNCHANGED <<now, request, decisionVars, approvalVars, ledger, lease, memory,
                   handlerVars, sweeperVars, sent, failures>>

\* recordSettlement
SettleBook(s) ==
    /\ spc[s] = "booking"
    /\ Record(sub[s], IF Allows(act[s]) THEN "user_allowed" ELSE "user_denied")
    /\ SettlerGoes(s, IF Allows(act[s]) THEN "granting" ELSE "advancing")
    /\ UNCHANGED <<now, request, decisionVars, approvalVars, lease, memory,
                   handlerVars, sweeperVars, sent, failures>>

\* Pipeline.grant: the window is compared once more, and the lease table holds
\* one lease per approval.
SettleGrant(s) ==
    /\ spc[s] = "granting"
    /\ window[sub[s]] > now
    /\ sub[s] \notin lease
    /\ lease' = lease \cup {sub[s]}
    /\ SettlerGoes(s, IF Learns(act[s]) THEN "learning" ELSE "advancing")
    /\ UNCHANGED <<now, request, decisionVars, approvalVars, ledger, memory,
                   handlerVars, sweeperVars, sent, failures>>

\* Fault: the submission goes on without the lease.
SettleGrantSkipped(s) ==
    /\ spc[s] = "granting"
    /\ window[sub[s]] <= now \/ sub[s] \in lease
    /\ SettlerGoes(s, "advancing")
    /\ UNCHANGED <<now, request, decisionVars, approvalVars, ledger, lease, memory,
                   handlerVars, sweeperVars, sent, failures>>

\* The window closed since it was checked, or the unique index objects.
SettleGrantRefused(s) ==
    /\ spc[s] = "granting"
    /\ window[sub[s]] <= now \/ sub[s] \in lease
    /\ SettlerReturns(s)
    /\ UNCHANGED <<now, request, decisionVars, approvalVars, ledger, lease, memory,
                   handlerVars, sweeperVars, sent, failures>>

\* Pipeline.learn; trust.Manager.Generate refuses high risk.
SettleLearn(s) ==
    /\ spc[s] = "learning"
    /\ risk[sub[s]] # "high"
    /\ memory' = memory \cup {sub[s]}
    /\ SettlerGoes(s, "advancing")
    /\ UNCHANGED <<now, request, decisionVars, approvalVars, ledger, lease,
                   handlerVars, sweeperVars, sent, failures>>

\* The last statement moves the request from the status read at the beginning.
SettleAdvance(s) ==
    /\ spc[s] = "advancing"
    /\ Advance(sub[s], seen[s], IF Allows(act[s]) THEN "approved" ELSE "rejected")
    /\ SettlerReturns(s)
    /\ UNCHANGED <<now, decisionVars, approvalVars, ledger, lease, memory,
                   handlerVars, sweeperVars, sent, failures>>

\* The request has moved since: the submission ends in a conflict.
SettleAdvanceConflict(s) ==
    /\ spc[s] = "advancing"
    /\ request[sub[s]] # seen[s]
    /\ SettlerReturns(s)
    /\ UNCHANGED <<now, request, decisionVars, approvalVars, ledger, lease, memory,
                   handlerVars, sweeperVars, sent, failures>>

SettlerFails(s) ==
    /\ spc[s] # "idle"
    /\ failures < MaxFailures
    /\ failures' = failures + 1
    /\ SettlerReturns(s)
    /\ UNCHANGED <<now, request, decisionVars, approvalVars, ledger, lease, memory,
                   handlerVars, sweeperVars, sent>>

-----------------------------------------------------------------------------
(* A round of the sweeper: Pipeline.ExpireApprovals *)

\* Manager.Expire, the list.
SweepList ==
    /\ wpc = "idle"
    /\ \E q \in OldestFirst(Overdue, SweepBatch) : q # <<>> /\ due' = q
    /\ wpc' = "closing"
    /\ UNCHANGED <<now, request, decisionVars, approvalVars, ledger, lease, memory,
                   handlerVars, settlerVars, closed, wseen, sent, failures>>

\* Fault: the sweeper records an action the approvals table does not know.
SweepCloseAsTimeout ==
    /\ wpc = "closing"
    /\ approval[Head(due)] = "pending"
    /\ approval' = [approval EXCEPT ![Head(due)] = "expired"]
    /\ action' = [action EXCEPT ![Head(due)] = "timeout"]
    /\ closed' = Append(closed, Head(due))
    /\ due' = Tail(due)
    /\ wpc' = IF Tail(due) = <<>> THEN "booking" ELSE "closing"
    /\ UNCHANGED <<now, request, decisionVars, expiresAt, ledger, lease, memory,
                   handlerVars, settlerVars, wseen, sent, failures>>

\* Manager.Expire, one approval; after the last one the booking begins.
SweepClose ==
    /\ wpc = "closing"
    /\ approval[Head(due)] = "pending"
    /\ approval' = [approval EXCEPT ![Head(due)] = "expired"]
    /\ action' = [action EXCEPT ![Head(due)] = "deny"]
    /\ closed' = Append(closed, Head(due))
    /\ due' = Tail(due)
    /\ wpc' = IF Tail(due) = <<>> THEN "booking" ELSE "closing"
    /\ UNCHANGED <<now, request, decisionVars, expiresAt, ledger, lease, memory,
                   handlerVars, settlerVars, wseen, sent, failures>>

\* Fault: the sweeper closes what it listed, whatever it has become.
SweepOverrides ==
    /\ wpc = "closing"
    /\ approval[Head(due)] # "pending"
    /\ approval' = [approval EXCEPT ![Head(due)] = "expired"]
    /\ SweeperReturns
    /\ UNCHANGED <<now, request, decisionVars, action, expiresAt, ledger, lease, memory,
                   handlerVars, settlerVars, sent, failures>>

\* Fault: a conflict does not end the round, the same approval is tried again.
SweepRetries ==
    /\ wpc = "closing"
    /\ approval[Head(due)] # "pending"
    /\ UNCHANGED vars

\* Somebody settled it first: Expire returns the conflict together with what it
\* has closed, and ExpireApprovals returns without looking at that.
SweepConflict ==
    /\ wpc = "closing"
    /\ approval[Head(due)] # "pending"
    /\ SweeperReturns
    /\ UNCHANGED <<now, request, decisionVars, approvalVars, ledger, lease, memory,
                   handlerVars, settlerVars, sent, failures>>

\* One iteration of ExpireApprovals: read the request, write the entry ...
SweepBook ==
    /\ wpc = "booking"
    /\ Record(Head(closed), "approval_expired")
    /\ wseen' = request[Head(closed)]
    /\ wpc' = "advancing"
    /\ UNCHANGED <<now, request, decisionVars, approvalVars, lease, memory,
                   handlerVars, settlerVars, due, closed, sent, failures>>

\* ... and move the request.
SweepAdvance ==
    /\ wpc = "advancing"
    /\ Advance(Head(closed), wseen, "rejected")
    /\ IF Tail(closed) = <<>>
       THEN SweeperReturns
       ELSE wpc' = "booking" /\ closed' = Tail(closed) /\ wseen' = "none" /\ UNCHANGED due
    /\ UNCHANGED <<now, decisionVars, approvalVars, ledger, lease, memory,
                   handlerVars, settlerVars, sent, failures>>

\* The agent cancelled in between: the round ends, the rest stays unbooked.
SweepAdvanceConflict ==
    /\ wpc = "advancing"
    /\ request[Head(closed)] # wseen
    /\ SweeperReturns
    /\ UNCHANGED <<now, request, decisionVars, approvalVars, ledger, lease, memory,
                   handlerVars, settlerVars, sent, failures>>

SweeperFails ==
    /\ wpc # "idle"
    /\ failures < MaxFailures
    /\ failures' = failures + 1
    /\ SweeperReturns
    /\ UNCHANGED <<now, request, decisionVars, approvalVars, ledger, lease, memory,
                   handlerVars, settlerVars, sent>>

Tick ==
    /\ now < MaxTime
    /\ now' = now + 1
    /\ UNCHANGED <<request, decisionVars, approvalVars, ledger, lease, memory,
                   handlerVars, settlerVars, sweeperVars, sent, failures>>

\* The process dies and is started again: the tables are all that is left.
Crash ==
    /\ failures < MaxFailures
    /\ failures' = failures + 1
    /\ hpc' = [r \in Requests |-> IF hpc[r] = "absent" THEN "absent" ELSE "done"]
    /\ grant' = [r \in Requests |-> NoRequest]
    /\ spc' = [s \in Settlers |-> "idle"]
    /\ sub' = [s \in Settlers |-> NoRequest]
    /\ act' = [s \in Settlers |-> "none"]
    /\ seen' = [s \in Settlers |-> "none"]
    /\ SweeperReturns
    /\ UNCHANGED <<now, request, decisionVars, approvalVars, ledger, lease, memory, sent>>

-----------------------------------------------------------------------------
Handler(r) ==
    \/ FailClosed(r)
    \/ \E v \in Verdicts \ {"none"}, level \in RiskLevels :
          RecordDecision(r, v, level)
    \/ BookDecision(r)
    \/ Open(r)
    \/ ReuseLease(r)
    \/ Issue(r)
    \/ IssueRefused(r)
    \/ HandlerAdvance(r)
    \/ HandlerConflict(r)
    \/ \E step \in {"sending", "failing"} : Use(r, step)
    \/ Send(r)
    \/ RecordExecuted(r)
    \/ \E end \in {"succeeded", "failed"} : ExecuteEnd(r, end)
    \/ RecordFailed(r)
    \/ Abandon(r)

Settler(s) ==
    \/ SettleWrite(s)
    \/ SettleReplay(s)
    \/ SettleLook(s)
    \/ SettleBook(s)
    \/ SettleGrant(s)
    \/ SettleGrantRefused(s)
    \/ SettleLearn(s)
    \/ SettleAdvance(s)
    \/ SettleAdvanceConflict(s)

Sweeper ==
    \/ SweepList
    \/ SweepClose
    \/ SweepConflict
    \/ SweepBook
    \/ SweepAdvance
    \/ SweepAdvanceConflict

Next ==
    \/ \E r \in Requests : Submit(r) \/ Handler(r) \/ ExecuteStart(r) \/ HandlerFails(r) \/ Cancel(r)
    \/ \E s \in Settlers, r \in Requests, a \in Submitted : SettleRead(s, r, a)
    \/ \E s \in Settlers : Settler(s) \/ SettlerFails(s)
    \/ Sweeper
    \/ SweeperFails
    \/ Tick
    \/ Crash

Spec == Init /\ [][Next]_vars

\* Calls that have begun go on to their next statement, time passes, and the
\* sweeper's ticker fires again and again.
FairSpec ==
    /\ Spec
    /\ \A r \in Requests : WF_vars(Handler(r))
    /\ \A s \in Settlers : WF_vars(Settler(s))
    /\ WF_vars(Sweeper)
    /\ WF_vars(Tick)

-----------------------------------------------------------------------------
(* Properties *)

\* Ledger entries that report what became of an approval.
Settlements(r) ==
    ledger[r]["user_allowed"] + ledger[r]["user_denied"] + ledger[r]["approval_expired"]

\* However submissions and the sweeper race, an approval is reported at most
\* once, and the report is the verdict the approval row holds.
LedgerAgrees ==
    \A r \in Requests :
        /\ Settlements(r) <= 1
        /\ ledger[r]["user_allowed"] > 0 => approval[r] = "approved" /\ Allows(action[r])
        /\ ledger[r]["user_denied"] > 0 => approval[r] = "rejected" /\ action[r] = "deny"
        /\ ledger[r]["approval_expired"] > 0 => approval[r] = "expired"

\* A lease was issued only after the ledger said why (conclude and grant write
\* first), and a memory only for a lease a human allowed, with an action that
\* asks for it, at a risk that permits it.
GrantsAreEarned ==
    /\ \A r \in lease :
          \/ decision[r] = "auto_allow" /\ ledger[r]["auto_allowed"] = 1 /\ risk[r] # "high"
          \/ decision[r] = "require_approval" /\ ledger[r]["user_allowed"] = 1
    /\ \A r \in memory : r \in lease /\ Learns(action[r]) /\ approval[r] = "approved" /\ risk[r] # "high"

\* What has happened by the time a request has its status.
StatusEarned(r) ==
    /\ request[r] = "denied" => ledger[r]["blocked"] + ledger[r]["error"] = 1 /\ r \notin lease
    /\ request[r] = "approved" => r \in lease /\ (Learns(action[r]) => r \in memory)
    /\ request[r] = "rejected" =>
          ledger[r]["user_denied"] + ledger[r]["approval_expired"] = 1 /\ r \notin lease
    /\ request[r] \in {"auto_allowed", "executing"} => ledger[r]["auto_allowed"] = 1
    /\ request[r] = "succeeded" => ledger[r]["executed"] = 1 /\ r \in sent

\* The status of a request never claims more than happened: each status implies
\* the ledger entries, the lease and the memory that lead to it.
StatusIsEarned == \A r \in Requests : StatusEarned(r)

\* Wherever a call ended early and whatever raced with it, neither the leases and
\* memories that were handed out nor the status of a request go beyond what the
\* verdict and the ledger account for.
EarnedOutcome == GrantsAreEarned /\ StatusIsEarned

\* What a request was sent under: its own lease or the one it was matched with.
Basis(r) == IF matched[r] = NoRequest THEN r ELSE matched[r]

\* Nothing reaches an outside service without an entry in the ledger that
\* allows it and a lease that was earned, and at most one execution is reported.
SentIsCovered ==
    \A r \in Requests :
        /\ r \in sent => ledger[r]["auto_allowed"] = 1 /\ Basis(r) \in lease
        /\ ledger[r]["executed"] <= 1

\* The steps of a handler that has been told to go ahead.
GoingAhead == {"allowed", "using", "sending", "recording", "closing", "failing", "abandoning"}

\* The statements of SettleApproval after the conditional update succeeded.
Owning == {"booking", "granting", "learning", "advancing"}

\* The rows of r as its handler left them.
HandlerSound(r) ==
    /\ hpc[r] \in {"absent", "deciding"} => decision[r] = "none"
    /\ hpc[r] \in {"absent", "deciding", "booking"} => \A e \in Events : ledger[r][e] = 0
    /\ hpc[r] \in {"booking", "acting"} => decision[r] # "none"
    /\ hpc[r] \in {"absent", "deciding", "booking", "acting"} =>
          approval[r] = "none" /\ r \notin lease
    /\ hpc[r] = "acting" =>
          IF decision[r] = "auto_allow" THEN ledger[r]["auto_allowed"] = 1
          ELSE decision[r] = "require_approval" /\ ledger[r]["blocked"] = 1
    /\ hpc[r] = "advancing" /\ decision[r] = "none" => ledger[r]["error"] = 1
    /\ hpc[r] = "advancing" /\ decision[r] = "deny" => ledger[r]["blocked"] = 1
    /\ hpc[r] = "advancing" /\ decision[r] = "require_approval" => approval[r] # "none"
    /\ hpc[r] = "advancing" /\ decision[r] = "auto_allow" =>
          ledger[r]["auto_allowed"] = 1 /\ Basis(r) \in lease
    /\ hpc[r] \in GoingAhead =>
          decision[r] = "auto_allow" /\ ledger[r]["auto_allowed"] = 1 /\ Basis(r) \in lease
    /\ hpc[r] \notin {"closing", "abandoning", "done"} => ledger[r]["executed"] = 0
    /\ hpc[r] \notin {"recording", "closing", "failing", "abandoning", "done"} => r \notin sent
    /\ hpc[r] \in {"recording", "closing"} => r \in sent
    /\ hpc[r] = "closing" => ledger[r]["executed"] = 1

\* What a handler relies on between its statements: nobody else touches a
\* request before its approval is open, what it has decided is in the ledger
\* before it acts, and an execution has its lease and has not been reported yet.
HandlerInFlight == \A r \in Requests : HandlerSound(r)

\* The rows of the approval s is settling as its statements so far left them.
SettlerSound(s) ==
    /\ spc[s] # "idle" =>
          sub[s] \in Requests /\ approval[sub[s]] # "none" /\ act[s] \in Offered(risk[sub[s]])
    /\ spc[s] \in Owning =>
          /\ action[sub[s]] = act[s]
          /\ approval[sub[s]] = IF Allows(act[s]) THEN "approved" ELSE "rejected"
    /\ spc[s] = "booking" => Settlements(sub[s]) = 0
    /\ spc[s] = "granting" => Allows(act[s]) /\ ledger[sub[s]]["user_allowed"] = 1
    /\ spc[s] = "learning" => Learns(act[s]) /\ sub[s] \in lease
    /\ spc[s] = "advancing" /\ Allows(act[s]) =>
          sub[s] \in lease /\ (Learns(act[s]) => sub[s] \in memory)
    /\ spc[s] = "advancing" /\ ~Allows(act[s]) => ledger[sub[s]]["user_denied"] = 1

\* What a submission relies on once its update went through: it alone owns the
\* approval, the row holds its verdict, nothing is in the ledger before it writes
\* there, and each of its later statements finds the earlier ones done.
SettlersInFlight ==
    /\ \A s \in Settlers : SettlerSound(s)
    /\ \A s, t \in Settlers :
          spc[s] \in Owning /\ spc[t] \in Owning /\ sub[s] = sub[t] => s = t

\* What a round of the sweeper relies on: the approvals it closed are different,
\* still expired, and booked exactly if the round has got that far.
SweeperInFlight ==
    /\ wpc = "idle" => due = <<>> /\ closed = <<>>
    /\ wpc = "closing" <=> due # <<>>
    /\ wpc \in {"booking", "advancing"} => closed # <<>>
    /\ \A i, j \in 1..Len(closed) : closed[i] = closed[j] => i = j
    /\ \A i \in 1..Len(closed) :
          /\ approval[closed[i]] = "expired"
          /\ ledger[closed[i]]["approval_expired"] = IF wpc = "advancing" /\ i = 1 THEN 1 ELSE 0

\* The rows of r fit together.
RowsFit(r) ==
    /\ approval[r] # "none" => decision[r] = "require_approval"
    /\ ledger[r]["auto_allowed"] <= 1 /\ (ledger[r]["auto_allowed"] > 0 => decision[r] = "auto_allow")
    /\ ledger[r]["blocked"] <= 1
    /\ ledger[r]["blocked"] > 0 => decision[r] \in {"deny", "require_approval"}
    /\ ledger[r]["error"] <= 1 /\ (ledger[r]["error"] > 0 => decision[r] = "none")
    /\ decision[r] = "auto_allow" => risk[r] # "high"
    /\ matched[r] # NoRequest => matched[r] \in lease
    /\ hpc[r] = "absent" => request[r] = "none"
    /\ hpc[r] \in {"deciding", "booking", "acting"} => request[r] = "received"
    /\ hpc[r] = "advancing" /\ approval[r] = "none" => request[r] = "received"
    /\ request[r] \in {"awaiting_approval", "cancelled"} => approval[r] # "none"
    /\ request[r] = "approved" => approval[r] = "approved"
    /\ request[r] = "denied" => decision[r] \in {"none", "deny"}

\* What the rows of a request say of each other, whoever wrote them last: only
\* undecided requests have an approval, each entry has the decision it reports,
\* and a request whose handler has not got to its end is still where it left it.
RowsAgree == \A r \in Requests : RowsFit(r)

\* What the handler, the submissions and the sweeper rely on between their
\* statements holds whatever the others do in between.
InFlight == HandlerInFlight /\ SettlersInFlight /\ SweeperInFlight /\ RowsAgree

\* The verdict on a request, wherever it comes from.
VerdictOf(r) ==
    IF decision[r] = "auto_allow" \/ approval[r] = "approved" THEN "allowed"
    ELSE IF decision[r] = "deny" \/ approval[r] \in {"rejected", "expired"}
            \/ ledger[r]["error"] > 0 THEN "refused"
    ELSE "open"

\* How often the ledger reports that verdict.
EntriesOf(r) ==
    ledger[r]["error"] + ledger[r]["auto_allowed"] + Settlements(r)
    + (IF decision[r] = "deny" THEN ledger[r]["blocked"] ELSE 0)

Promise == INSTANCE Verdict WITH
    verdict <- [r \in Requests |-> VerdictOf(r)],
    entries <- [r \in Requests |-> EntriesOf(r)],
    granted <- lease,
    executed <- sent

\* The pipeline, the approvals and the sweeper together keep the promise of
\* Verdict: one verdict, reported once, before the lease, before anything goes out.
ImplementsVerdict == Promise!Spec

\* An approval nobody settles does not stay open: rounds of the sweeper that a
\* concurrent submission cuts short are made up for by later ones.
OverdueIsClosed ==
    \A r \in Requests :
        (approval[r] = "pending" /\ expiresAt[r] <= now) ~> (approval[r] # "pending")

\* A step that only adds to the ledger, the leases, the memories and what was
\* sent, and leaves every settled approval as it is.
OnlyAdds ==
    /\ \A r \in Requests, e \in Events : ledger'[r][e] >= ledger[r][e]
    /\ lease \subseteq lease' /\ memory \subseteq memory' /\ sent \subseteq sent'
    /\ \A r \in Requests :
          /\ approval[r] # "none" => approval'[r] # "none"
          /\ approval[r] \notin {"none", "pending"} =>
                approval'[r] = approval[r] /\ action'[r] = action[r]

\* However late a submission or a round of the sweeper arrives, it takes nothing
\* back: the first verdict on an approval stands, and so does what followed it.
NothingIsTakenBack == [][OnlyAdds]_vars
=============================================================================
