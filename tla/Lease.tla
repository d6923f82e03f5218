------------------------------- MODULE Lease --------------------------------
(***************************************************************************)
(* The lease manager (core/lease/manager.go) over the lease table          *)
(* (store/repo/lease.go, store/queries/leases.sql).                        *)
(*                                                                         *)
(* Every SQL statement is one atomic step; everything a Go function does   *)
(* between two statements can be interleaved with every other caller.  Use *)
(* is therefore three steps (read and compare, Consume, Close) and Sweep   *)
(* is one step to list and one per lease to close.  A caller's context can *)
(* be cancelled between any two of its statements, and the process can     *)
(* die, which loses every call in flight and keeps the table.              *)
(*                                                                         *)
(* The scope of a lease never changes after it is issued, so whether a     *)
(* caller's request lies inside a lease is a constant relation here.       *)
(***************************************************************************)
EXTENDS Naturals, Sequences

CONSTANTS
    Leases,         \* the rows of the lease table that may come to exist
    Callers,        \* concurrent calls of Manager.Use
    NoLease,        \* the target of a caller that is not inside Use
    Limits,         \* request limits a lease is issued with
    Covers,         \* Covers[c]: the leases whose scope covers c's request
    SweepLimit,     \* the most leases one Sweep closes
    MaxTime,        \* bound on the clock
    MaxUses,        \* bound on the uses of a lease without limit
    MaxCrashes      \* bound on the number of process crashes

ASSUME LeaseAssumption ==
    /\ NoLease \notin Leases
    /\ Limits \subseteq Nat
    /\ Covers \in [Callers -> SUBSET Leases]
    /\ SweepLimit \in Nat \ {0}
    /\ MaxTime \in Nat
    /\ MaxUses \in Nat
    /\ MaxCrashes \in Nat

\* Lease.RequestLimit = 0: no limit on the number of uses.
Unlimited == 0

\* "none" is a row that does not exist yet; the other four are lease.Status.
Statuses == {"none", "active", "expired", "exhausted", "revoked"}

VARIABLES
    now,            \* the clock every component reads
    status,         \* leases.status
    expiresAt,      \* leases.expires_at
    requestLimit,   \* leases.request_limit, Unlimited for NULL
    usedRequests,   \* leases.used_requests
    pc,             \* where each caller is inside Use
    target,         \* the lease each caller is using
    due,            \* the leases Sweep listed and has not handled yet
    served,         \* observation: the Use calls that returned success
    crashes         \* the crashes so far

table == <<status, expiresAt, requestLimit, usedRequests>>
calls == <<pc, target>>
vars == <<now, table, calls, due, served, crashes>>

TypeOK ==
    /\ now \in Nat
    /\ status \in [Leases -> Statuses]
    /\ expiresAt \in [Leases -> Nat]
    /\ requestLimit \in [Leases -> Nat]
    /\ usedRequests \in [Leases -> Nat]
    /\ pc \in [Callers -> {"idle", "checked", "spent"}]
    /\ target \in [Callers -> Leases \cup {NoLease}]
    /\ due \in Seq(Leases)
    /\ served \in [Leases -> Nat]
    /\ crashes \in Nat

Init ==
    /\ now = 0
    /\ status = [l \in Leases |-> "none"]
    /\ expiresAt = [l \in Leases |-> 0]
    /\ requestLimit = [l \in Leases |-> 0]
    /\ usedRequests = [l \in Leases |-> 0]
    /\ pc = [c \in Callers |-> "idle"]
    /\ target = [c \in Callers |-> NoLease]
    /\ due = <<>>
    /\ served = [l \in Leases |-> 0]
    /\ crashes = 0

-----------------------------------------------------------------------------
\* The lease has been used as often as it may be (the test Use makes on the row
\* Consume returned).
Spent(l) == requestLimit[l] # Unlimited /\ usedRequests[l] >= requestLimit[l]

\* Fault: the limit is compared with <=, as a read-then-write counter would.
ConsumableOneOver(l) ==
    /\ status[l] = "active"
    /\ expiresAt[l] > now
    /\ \/ requestLimit[l] = Unlimited
       \/ usedRequests[l] <= requestLimit[l]

\* Fault: expiry is left to Sweep and not tested when a use is charged.
ConsumableIgnoringExpiry(l) ==
    /\ status[l] = "active"
    /\ \/ requestLimit[l] = Unlimited
       \/ usedRequests[l] < requestLimit[l]

\* The WHERE clause of ConsumeLease: active, not expired, uses left.
Consumable(l) ==
    /\ status[l] = "active"
    /\ expiresAt[l] > now
    /\ \/ requestLimit[l] = Unlimited
       \/ usedRequests[l] < requestLimit[l]

\* Fault: the lease is closed one use early.
ReachesLimitEarly(l) ==
    requestLimit[l] # Unlimited /\ usedRequests[l] + 2 >= requestLimit[l]

\* The use being charged is the last one allowed.
ReachesLimit(l) ==
    requestLimit[l] # Unlimited /\ usedRequests[l] + 1 >= requestLimit[l]

\* Fault: leases about to expire are listed as well.
DueLeasesEarly == {l \in Leases : status[l] = "active" /\ expiresAt[l] <= now + 1}

\* ListActiveLeasesDueBefore, before ORDER BY and LIMIT.
DueLeases == {l \in Leases : status[l] = "active" /\ expiresAt[l] <= now}

\* CloseLease, which only changes a row that is still active.
CloseAs(l, s) == status' = [status EXCEPT ![l] = s]

\* The sequences a query with ORDER BY expires_at LIMIT n may return over S.
OldestFirst(S, n) ==
    {s \in UNION {[1..k -> S] : k \in 0..n} :
        /\ \A i, j \in 1..Len(s) : i < j => s[i] # s[j] /\ expiresAt[s[i]] <= expiresAt[s[j]]
        /\ \A l \in S : l \notin {s[i] : i \in 1..Len(s)} =>
              /\ Len(s) = n
              /\ \A i \in 1..Len(s) : expiresAt[s[i]] <= expiresAt[l]}

\* A caller leaves Use, with or without success.
Return(c) ==
    /\ pc' = [pc EXCEPT ![c] = "idle"]
    /\ target' = [target EXCEPT ![c] = NoLease]

-----------------------------------------------------------------------------
(* Manager.Issue *)
Issue(l) ==
    /\ status[l] = "none"
    /\ \E t \in 0..MaxTime :
          /\ t > now
          /\ expiresAt' = [expiresAt EXCEPT ![l] = t]
    /\ \E n \in Limits : requestLimit' = [requestLimit EXCEPT ![l] = n]
    /\ status' = [status EXCEPT ![l] = "active"]
    /\ UNCHANGED <<now, usedRequests, calls, due, served, crashes>>

(* Manager.Use, first statement: LeaseByID, then the scope comparison.  A    *)
(* request outside the scope is refused here and changes nothing.            *)
UseRead(c, l) ==
    /\ pc[c] = "idle"
    /\ status[l] # "none"
    /\ l \in Covers[c]
    /\ pc' = [pc EXCEPT ![c] = "checked"]
    /\ target' = [target EXCEPT ![c] = l]
    /\ UNCHANGED <<now, table, due, served, crashes>>

(* Manager.Use, second statement: Consume, with uses left afterwards.        *)
UseConsume(c) ==
    /\ pc[c] = "checked"
    /\ Consumable(target[c])
    /\ ~ReachesLimit(target[c])
    /\ requestLimit[target[c]] = Unlimited => usedRequests[target[c]] < MaxUses
    /\ usedRequests' = [usedRequests EXCEPT ![target[c]] = @ + 1]
    /\ served' = [served EXCEPT ![target[c]] = @ + 1]
    /\ Return(c)
    /\ UNCHANGED <<now, status, expiresAt, requestLimit, due, crashes>>

(* The same statement when it charges the last use: Use must still close the *)
(* lease before it returns.                                                  *)
UseConsumeLast(c) ==
    /\ pc[c] = "checked"
    /\ Consumable(target[c])
    /\ ReachesLimit(target[c])
    /\ usedRequests' = [usedRequests EXCEPT ![target[c]] = @ + 1]
    /\ pc' = [pc EXCEPT ![c] = "spent"]
    /\ UNCHANGED <<now, status, expiresAt, requestLimit, target, due, served, crashes>>

\* Consume matched no row: Use returns a conflict.
UseRefused(c) ==
    /\ pc[c] = "checked"
    /\ ~Consumable(target[c])
    /\ Return(c)
    /\ UNCHANGED <<now, table, due, served, crashes>>

(* Manager.Use, third statement: Close as exhausted.                         *)
UseExhaust(c) ==
    /\ pc[c] = "spent"
    /\ status[target[c]] = "active"
    /\ CloseAs(target[c], "exhausted")
    /\ served' = [served EXCEPT ![target[c]] = @ + 1]
    /\ Return(c)
    /\ UNCHANGED <<now, expiresAt, requestLimit, usedRequests, due, crashes>>

\* Somebody else closed the lease first: the use was charged, but Use returns
\* a conflict and the caller does not proceed.
UseExhaustConflict(c) ==
    /\ pc[c] = "spent"
    /\ status[target[c]] # "active"
    /\ Return(c)
    /\ UNCHANGED <<now, table, due, served, crashes>>

\* The caller's context is cancelled (its client went away): the next
\* statement of Use fails.
Cancelled(c) ==
    /\ pc[c] # "idle"
    /\ Return(c)
    /\ UNCHANGED <<now, table, due, served, crashes>>

\* Fault: a status the table does not know is written.
RevokeAsClosed(l) ==
    /\ status[l] = "active"
    /\ CloseAs(l, "closed")
    /\ UNCHANGED <<now, expiresAt, requestLimit, usedRequests, calls, due, served, crashes>>

(* Manager.Revoke *)
Revoke(l) ==
    /\ status[l] = "active"
    /\ CloseAs(l, "revoked")
    /\ UNCHANGED <<now, expiresAt, requestLimit, usedRequests, calls, due, served, crashes>>

(* Manager.Shorten: any earlier instant, even one that has already passed.   *)
Shorten(l) ==
    /\ status[l] = "active"
    /\ \E t \in 0..MaxTime :
          /\ expiresAt[l] > t
          /\ expiresAt' = [expiresAt EXCEPT ![l] = t]
    /\ UNCHANGED <<now, status, requestLimit, usedRequests, calls, due, served, crashes>>

(* Manager.Sweep, first statement: ActiveLeasesDueBefore.                    *)
SweepList ==
    /\ due = <<>>
    /\ \E s \in OldestFirst(DueLeases, SweepLimit) :
          /\ s # <<>>
          /\ due' = s
    /\ UNCHANGED <<now, table, calls, served, crashes>>

(* Manager.Sweep, one iteration.                                             *)
SweepClose ==
    /\ due # <<>>
    /\ status[Head(due)] = "active"
    /\ CloseAs(Head(due), "expired")
    /\ due' = Tail(due)
    /\ UNCHANGED <<now, expiresAt, requestLimit, usedRequests, calls, served, crashes>>

\* A conflict ends the round; the rest of the list is left to the next one.
SweepConflict ==
    /\ due # <<>>
    /\ status[Head(due)] # "active"
    /\ due' = <<>>
    /\ UNCHANGED <<now, table, calls, served, crashes>>

Tick ==
    /\ now < MaxTime
    /\ now' = now + 1
    /\ UNCHANGED <<table, calls, due, served, crashes>>

\* The process dies and is started again: the table is all that is left.
Crash ==
    /\ crashes < MaxCrashes
    /\ crashes' = crashes + 1
    /\ pc' = [c \in Callers |-> "idle"]
    /\ target' = [c \in Callers |-> NoLease]
    /\ due' = <<>>
    /\ UNCHANGED <<now, table, served>>

UseStep(c) ==
    \/ UseConsume(c)
    \/ UseConsumeLast(c)
    \/ UseRefused(c)
    \/ UseExhaust(c)
    \/ UseExhaustConflict(c)

\* What the running gateway does: nothing calls Sweep yet.
GatewayNext ==
    \/ \E l \in Leases : Issue(l) \/ Revoke(l) \/ Shorten(l)
    \/ \E c \in Callers, l \in Leases : UseRead(c, l)
    \/ \E c \in Callers : UseStep(c) \/ Cancelled(c)
    \/ Tick
    \/ Crash

Next == GatewayNext \/ SweepList \/ SweepClose \/ SweepConflict

Spec == Init /\ [][Next]_vars

-----------------------------------------------------------------------------
(* Properties *)

\* The callers that charged the last use of l and have not closed it yet.
Closers(l) == {c \in Callers : pc[c] = "spent" /\ target[c] = l}

\* However many calls of Use run at once, the ones that returned success plus
\* the one that is about to are covered by charged uses, and the charged uses
\* never exceed the limit the lease was issued with.
ServedWithinLimit ==
    \A l \in Leases :
        /\ requestLimit[l] # Unlimited => usedRequests[l] <= requestLimit[l]
        /\ served[l] + (IF Closers(l) = {} THEN 0 ELSE 1) <= usedRequests[l]

\* What a call of Use relies on between its statements: the lease it read still
\* exists, and a call that still has to close its lease finds every use of it
\* charged, so no other call can be closing the same lease.
UseInFlight ==
    /\ \A c \in Callers : pc[c] # "idle" =>
          target[c] \in Leases /\ status[target[c]] # "none"
    /\ \A c \in Callers : pc[c] = "spent" => Spent(target[c])
    /\ \A c, d \in Callers :
          pc[c] = "spent" /\ pc[d] = "spent" /\ target[c] = target[d] => c = d
    /\ \A l \in Leases : status[l] = "none" => usedRequests[l] = 0

\* What a round of Sweep relies on: the leases it has still to close exist and
\* are past their deadline, whatever happened since it listed them.
SweepInFlight ==
    \A i \in 1..Len(due) : status[due[i]] # "none" /\ expiresAt[due[i]] <= now

\* What the two calls that work statement by statement rely on holds whatever
\* the others do in between.
InFlight == UseInFlight /\ SweepInFlight

\* A lease recorded as exhausted has had every one of its uses charged, and one
\* recorded as expired really is past its deadline, although Sweep acts on a
\* list it read earlier and Shorten may have moved the deadline since.
ClosedForTheRecordedReason ==
    \A l \in Leases :
        /\ status[l] = "exhausted" => Spent(l)
        /\ status[l] = "expired" => expiresAt[l] <= now

\* A step that leaves every closed lease alone.
KeepsClosed ==
    \A l \in Leases : status[l] \notin {"none", "active"} =>
        /\ status'[l] = status[l]
        /\ expiresAt'[l] = expiresAt[l]
        /\ usedRequests'[l] = usedRequests[l]
        /\ served'[l] = served[l]

\* Once a lease is closed its row never changes again and no call of Use on it
\* returns success any more, not even one that had passed Consume before.
ClosedIsFinal == [][KeepsClosed]_vars

\* A step that gives no issued lease more time, more uses or uses back.
Narrows ==
    \A l \in Leases : status[l] # "none" =>
        /\ status'[l] # "none"
        /\ expiresAt'[l] <= expiresAt[l]
        /\ requestLimit'[l] = requestLimit[l]
        /\ usedRequests'[l] >= usedRequests[l]

\* An issued lease is never widened: its deadline only comes closer, its limit
\* is fixed and its uses are never given back.
OnlyNarrows == [][Narrows]_vars

\* What a holder can see of a lease: it is live exactly as long as its row is
\* active and has uses left.
Life(l) ==
    IF status[l] = "none" THEN "unissued"
    ELSE IF status[l] = "active" /\ ~Spent(l) THEN "live"
    ELSE "over"

\* The three statements of Use and the list-then-close of Sweep, seen as the
\* grant of LeaseGrant.
Grant == INSTANCE LeaseGrant WITH
    Instants <- 0..MaxTime,
    clock <- now,
    life <- [l \in Leases |-> Life(l)],
    deadline <- expiresAt,
    cap <- requestLimit,
    charges <- usedRequests

\* The lease manager implements what a lease promises.
ImplementsGrant == Grant!Spec
=============================================================================
