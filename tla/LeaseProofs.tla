---------------------------- MODULE LeaseProofs -----------------------------
(***************************************************************************)
(* Proofs about the lease manager for any number of leases and callers,    *)
(* any limits and any bounds.                                              *)
(***************************************************************************)
EXTENDS Lease, TLAPS

\* The inductive invariant.  ServedWithinLimit alone is not inductive: that a
\* second caller cannot close the same lease needs UseInFlight, which needs the
\* limit not to be exceeded; that a swept lease is due needs SweepInFlight.
IInv ==
    /\ TypeOK
    /\ UseInFlight
    /\ SweepInFlight
    /\ ServedWithinLimit
    /\ ClosedForTheRecordedReason

\* Every variable stays in its type.
LEMMA TypeStep == IInv /\ [Next]_vars => TypeOK'
<1> SUFFICES ASSUME IInv, [Next]_vars PROVE TypeOK'
  OBVIOUS
<1> USE LeaseAssumption DEF IInv, TypeOK, UseInFlight, Statuses, table, calls
<1>1. ASSUME NEW l \in Leases, Issue(l) PROVE TypeOK'
  BY <1>1 DEF Issue
<1>2. ASSUME NEW c \in Callers, NEW l \in Leases, UseRead(c, l) PROVE TypeOK'
  BY <1>2 DEF UseRead
<1>3. ASSUME NEW c \in Callers, UseConsume(c) PROVE TypeOK'
  <2>1. target[c] \in Leases
    BY <1>3 DEF UseConsume
  <2> QED BY <1>3, <2>1 DEF UseConsume, Return
<1>4. ASSUME NEW c \in Callers, UseConsumeLast(c) PROVE TypeOK'
  <2>1. target[c] \in Leases
    BY <1>4 DEF UseConsumeLast
  <2> QED BY <1>4, <2>1 DEF UseConsumeLast
<1>5. ASSUME NEW c \in Callers, UseRefused(c) PROVE TypeOK'
  BY <1>5 DEF UseRefused, Return
<1>6. ASSUME NEW c \in Callers, UseExhaust(c) PROVE TypeOK'
  <2>1. target[c] \in Leases
    BY <1>6 DEF UseExhaust
  <2>2. status' \in [Leases -> Statuses]
    BY <1>6, <2>1 DEF UseExhaust, CloseAs
  <2>3. served' \in [Leases -> Nat]
    BY <1>6, <2>1 DEF UseExhaust
  <2>4. pc' \in [Callers -> {"idle", "checked", "spent"}] /\ target' \in [Callers -> Leases \cup {NoLease}]
    BY <1>6 DEF UseExhaust, Return
  <2> QED BY <1>6, <2>2, <2>3, <2>4 DEF UseExhaust
<1>7. ASSUME NEW c \in Callers, UseExhaustConflict(c) PROVE TypeOK'
  BY <1>7 DEF UseExhaustConflict, Return
<1>8. ASSUME NEW c \in Callers, Cancelled(c) PROVE TypeOK'
  BY <1>8 DEF Cancelled, Return
<1>9. ASSUME NEW l \in Leases, Revoke(l) PROVE TypeOK'
  BY <1>9 DEF Revoke, CloseAs
<1>10. ASSUME NEW l \in Leases, Shorten(l) PROVE TypeOK'
  BY <1>10 DEF Shorten
<1>11. CASE SweepList
  <2>1. PICK s \in OldestFirst(DueLeases, SweepLimit) : due' = s
    BY <1>11 DEF SweepList
  <2>2. PICK k \in 0..SweepLimit : s \in [1..k -> DueLeases]
    BY <2>1 DEF OldestFirst
  <2>3. due' \in Seq(Leases)
    BY <2>1, <2>2 DEF DueLeases
  <2> QED BY <1>11, <2>3 DEF SweepList
<1>12. CASE SweepClose
  <2>1. Head(due) \in Leases /\ Tail(due) \in Seq(Leases)
    BY <1>12 DEF SweepClose
  <2> QED BY <1>12, <2>1 DEF SweepClose, CloseAs
<1>13. CASE SweepConflict
  BY <1>13 DEF SweepConflict
<1>14. CASE Tick
  BY <1>14 DEF Tick
<1>15. CASE Crash
  BY <1>15 DEF Crash
<1>16. CASE UNCHANGED vars
  BY <1>16 DEF vars
<1> QED
  BY <1>1, <1>2, <1>3, <1>4, <1>5, <1>6, <1>7, <1>8, <1>9, <1>10, <1>11, <1>12,
     <1>13, <1>14, <1>15, <1>16 DEF Next, GatewayNext, UseStep

\* No step widens a lease: the only action that touches a deadline of an issued
\* lease is Shorten, and it compares the new instant with the old one.
LEMMA NarrowStep == IInv /\ [Next]_vars => Narrows /\ now' >= now
<1> SUFFICES ASSUME IInv, [Next]_vars PROVE Narrows /\ now' >= now
  OBVIOUS
<1> USE LeaseAssumption DEF IInv, TypeOK, UseInFlight, Narrows, table, calls
<1>1. ASSUME NEW l \in Leases, Issue(l) PROVE Narrows /\ now' >= now
  BY <1>1 DEF Issue
<1>2. ASSUME NEW c \in Callers, NEW l \in Leases, UseRead(c, l) PROVE Narrows /\ now' >= now
  BY <1>2 DEF UseRead
<1>3. ASSUME NEW c \in Callers, UseConsume(c) PROVE Narrows /\ now' >= now
  BY <1>3 DEF UseConsume
<1>4. ASSUME NEW c \in Callers, UseConsumeLast(c) PROVE Narrows /\ now' >= now
  BY <1>4 DEF UseConsumeLast
<1>5. ASSUME NEW c \in Callers, UseRefused(c) PROVE Narrows /\ now' >= now
  BY <1>5 DEF UseRefused
<1>6. ASSUME NEW c \in Callers, UseExhaust(c) PROVE Narrows /\ now' >= now
  BY <1>6 DEF UseExhaust, CloseAs
<1>7. ASSUME NEW c \in Callers, UseExhaustConflict(c) PROVE Narrows /\ now' >= now
  BY <1>7 DEF UseExhaustConflict
<1>8. ASSUME NEW c \in Callers, Cancelled(c) PROVE Narrows /\ now' >= now
  BY <1>8 DEF Cancelled
<1>9. ASSUME NEW l \in Leases, Revoke(l) PROVE Narrows /\ now' >= now
  BY <1>9 DEF Revoke, CloseAs
<1>10. ASSUME NEW l \in Leases, Shorten(l) PROVE Narrows /\ now' >= now
  BY <1>10 DEF Shorten
<1>11. CASE SweepList
  BY <1>11 DEF SweepList
<1>12. CASE SweepClose
  <2>1. UNCHANGED <<now, expiresAt, requestLimit, usedRequests>> /\ CloseAs(Head(due), "expired")
    BY <1>12 DEF SweepClose
  <2>2. \A k \in Leases : status[k] # "none" => status'[k] # "none"
    BY <2>1 DEF CloseAs
  <2> QED BY <2>1, <2>2
<1>13. CASE SweepConflict
  BY <1>13 DEF SweepConflict
<1>14. CASE Tick
  BY <1>14 DEF Tick
<1>15. CASE Crash
  BY <1>15 DEF Crash
<1>16. CASE UNCHANGED vars
  BY <1>16 DEF vars
<1> QED
  BY <1>1, <1>2, <1>3, <1>4, <1>5, <1>6, <1>7, <1>8, <1>9, <1>10, <1>11, <1>12,
     <1>13, <1>14, <1>15, <1>16 DEF Next, GatewayNext, UseStep

\* Every step keeps what a call of Use relies on.  The charge of a last use
\* finds no other closer: a closer means that no use is left to charge.
LEMMA UseInFlightStep == IInv /\ [Next]_vars => UseInFlight'
<1> SUFFICES ASSUME IInv, [Next]_vars PROVE UseInFlight'
  OBVIOUS
<1> USE LeaseAssumption DEF IInv, TypeOK, UseInFlight, Spent, Unlimited, table, calls
<1>1. ASSUME NEW l \in Leases, Issue(l) PROVE UseInFlight'
  BY <1>1 DEF Issue
<1>2. ASSUME NEW c \in Callers, NEW l \in Leases, UseRead(c, l) PROVE UseInFlight'
  BY <1>2 DEF UseRead
<1>3. ASSUME NEW c \in Callers, UseConsume(c) PROVE UseInFlight'
  BY <1>3 DEF UseConsume, Return, Consumable, ReachesLimit
<1>4. ASSUME NEW c \in Callers, UseConsumeLast(c) PROVE UseInFlight'
  BY <1>4 DEF UseConsumeLast, Consumable, ReachesLimit
<1>5. ASSUME NEW c \in Callers, UseRefused(c) PROVE UseInFlight'
  BY <1>5 DEF UseRefused, Return
<1>6. ASSUME NEW c \in Callers, UseExhaust(c) PROVE UseInFlight'
  BY <1>6 DEF UseExhaust, Return, CloseAs
<1>7. ASSUME NEW c \in Callers, UseExhaustConflict(c) PROVE UseInFlight'
  BY <1>7 DEF UseExhaustConflict, Return
<1>8. ASSUME NEW c \in Callers, Cancelled(c) PROVE UseInFlight'
  BY <1>8 DEF Cancelled, Return
<1>9. ASSUME NEW l \in Leases, Revoke(l) PROVE UseInFlight'
  BY <1>9 DEF Revoke, CloseAs
<1>10. ASSUME NEW l \in Leases, Shorten(l) PROVE UseInFlight'
  BY <1>10 DEF Shorten
<1>11. CASE SweepList
  BY <1>11 DEF SweepList
<1>12. CASE SweepClose
  BY <1>12 DEF SweepClose, CloseAs
<1>13. CASE SweepConflict
  BY <1>13 DEF SweepConflict
<1>14. CASE Tick
  BY <1>14 DEF Tick
<1>15. CASE Crash
  BY <1>15 DEF Crash
<1>16. CASE UNCHANGED vars
  BY <1>16 DEF vars
<1> QED
  BY <1>1, <1>2, <1>3, <1>4, <1>5, <1>6, <1>7, <1>8, <1>9, <1>10, <1>11, <1>12,
     <1>13, <1>14, <1>15, <1>16 DEF Next, GatewayNext, UseStep

\* Every step keeps what a round of Sweep relies on, because leases are only
\* narrowed and the clock only advances.
LEMMA SweepInFlightStep == IInv /\ [Next]_vars => SweepInFlight'
<1> SUFFICES ASSUME IInv, [Next]_vars PROVE SweepInFlight'
  OBVIOUS
<1>0. \A j \in 1..Len(due) :
         due[j] \in Leases /\ status[due[j]] # "none" /\ expiresAt[due[j]] <= now
  <2>1. due \in Seq(Leases) /\ SweepInFlight
    BY DEF IInv, TypeOK
  <2> QED BY <2>1 DEF SweepInFlight
<1> USE DEF IInv, TypeOK, SweepInFlight
<1>1. /\ now' >= now /\ now' \in Nat
      /\ \A k \in Leases : status[k] # "none" =>
            status'[k] # "none" /\ expiresAt'[k] <= expiresAt[k] /\ expiresAt'[k] \in Nat
  BY NarrowStep, TypeStep DEF Narrows
<1>2. ASSUME NEW k \in Leases, status[k] # "none", expiresAt[k] <= now
      PROVE  status'[k] # "none" /\ expiresAt'[k] <= now'
  <2>1. expiresAt'[k] <= expiresAt[k] /\ expiresAt'[k] \in Nat /\ expiresAt[k] \in Nat
    BY <1>1, <1>2
  <2> QED BY <1>1, <1>2, <2>1
<1>3. CASE due' = due
  <2> SUFFICES ASSUME NEW i \in 1..Len(due)
               PROVE  status'[due[i]] # "none" /\ expiresAt'[due[i]] <= now'
    BY <1>3
  <2>1. due[i] \in Leases /\ status[due[i]] # "none" /\ expiresAt[due[i]] <= now
    BY <1>0
  <2> QED BY <1>2, <2>1
<1>4. CASE due' = <<>>
  BY <1>4
<1>5. CASE due # <<>> /\ due' = Tail(due)
  <2> SUFFICES ASSUME NEW i \in 1..Len(due')
               PROVE  status'[due'[i]] # "none" /\ expiresAt'[due'[i]] <= now'
    OBVIOUS
  <2>1. PICK j \in 1..Len(due) : due'[i] = due[j]
    BY <1>5
  <2>2. due[j] \in Leases /\ status[due[j]] # "none" /\ expiresAt[due[j]] <= now
    BY <1>0
  <2> QED BY <1>2, <2>1, <2>2
<1>6. CASE SweepList
  <2>1. PICK s \in OldestFirst(DueLeases, SweepLimit) : due' = s
    BY <1>6 DEF SweepList
  <2>2. s \in UNION {[1..k -> DueLeases] : k \in 0..SweepLimit}
    BY <2>1 DEF OldestFirst
  <2>2a. PICK k \in 0..SweepLimit : s \in [1..k -> DueLeases]
    BY <2>2
  <2>3. Len(s) = k
    BY <2>2a, LeaseAssumption
  <2>4. \A i \in 1..Len(due') : due'[i] \in DueLeases
    BY <2>1, <2>2a, <2>3
  <2> QED BY <1>6, <2>4 DEF SweepList, DueLeases, table
<1>7. due' = due \/ due' = <<>> \/ (due # <<>> /\ due' = Tail(due)) \/ SweepList
  BY DEF Next, GatewayNext, UseStep, Issue, UseRead, UseConsume, UseConsumeLast,
     UseRefused, UseExhaust, UseExhaustConflict, Cancelled, Revoke, Shorten,
     SweepClose, SweepConflict, Tick, Crash, vars
<1> QED BY <1>3, <1>4, <1>5, <1>6, <1>7

\* Every step keeps the served calls covered by charged uses and the charged uses
\* within the limit.
LEMMA ServedStep == IInv /\ [Next]_vars => ServedWithinLimit'
<1> SUFFICES ASSUME IInv, [Next]_vars PROVE ServedWithinLimit'
  OBVIOUS
<1> USE LeaseAssumption DEF IInv, TypeOK, UseInFlight, ServedWithinLimit, Closers,
        Spent, Unlimited, table, calls
<1>1. ASSUME NEW l \in Leases, Issue(l) PROVE ServedWithinLimit'
  BY <1>1 DEF Issue
<1>2. ASSUME NEW c \in Callers, NEW l \in Leases, UseRead(c, l) PROVE ServedWithinLimit'
  BY <1>2 DEF UseRead
<1>3. ASSUME NEW c \in Callers, UseConsume(c) PROVE ServedWithinLimit'
  BY <1>3 DEF UseConsume, Return, Consumable, ReachesLimit
<1>4. ASSUME NEW c \in Callers, UseConsumeLast(c) PROVE ServedWithinLimit'
  BY <1>4 DEF UseConsumeLast, Consumable, ReachesLimit
<1>5. ASSUME NEW c \in Callers, UseRefused(c) PROVE ServedWithinLimit'
  BY <1>5 DEF UseRefused, Return
<1>6. ASSUME NEW c \in Callers, UseExhaust(c) PROVE ServedWithinLimit'
  BY <1>6 DEF UseExhaust, Return, CloseAs
<1>7. ASSUME NEW c \in Callers, UseExhaustConflict(c) PROVE ServedWithinLimit'
  BY <1>7 DEF UseExhaustConflict, Return
<1>8. ASSUME NEW c \in Callers, Cancelled(c) PROVE ServedWithinLimit'
  BY <1>8 DEF Cancelled, Return
<1>9. ASSUME NEW l \in Leases, Revoke(l) PROVE ServedWithinLimit'
  BY <1>9 DEF Revoke, CloseAs
<1>10. ASSUME NEW l \in Leases, Shorten(l) PROVE ServedWithinLimit'
  BY <1>10 DEF Shorten
<1>11. CASE SweepList
  BY <1>11 DEF SweepList
<1>12. CASE SweepClose
  BY <1>12 DEF SweepClose, CloseAs
<1>13. CASE SweepConflict
  BY <1>13 DEF SweepConflict
<1>14. CASE Tick
  BY <1>14 DEF Tick
<1>15. CASE Crash
  <2>1. UNCHANGED <<requestLimit, usedRequests, served>>
    BY <1>15 DEF Crash
  <2>2. \A l \in Leases : Closers(l)' = {}
    BY <1>15 DEF Crash
  <2> QED BY <2>1, <2>2
<1>16. CASE UNCHANGED vars
  BY <1>16 DEF vars
<1> QED
  BY <1>1, <1>2, <1>3, <1>4, <1>5, <1>6, <1>7, <1>8, <1>9, <1>10, <1>11, <1>12,
     <1>13, <1>14, <1>15, <1>16 DEF Next, GatewayNext, UseStep

\* Every step keeps the recorded reason of a closed lease true.
LEMMA ReasonStep == IInv /\ [Next]_vars => ClosedForTheRecordedReason'
<1> SUFFICES ASSUME IInv, [Next]_vars PROVE ClosedForTheRecordedReason'
  OBVIOUS
<1> USE LeaseAssumption DEF IInv, TypeOK, UseInFlight, ClosedForTheRecordedReason,
        Spent, Unlimited, table, calls
<1>1. ASSUME NEW l \in Leases, Issue(l) PROVE ClosedForTheRecordedReason'
  BY <1>1 DEF Issue
<1>2. ASSUME NEW c \in Callers, NEW l \in Leases, UseRead(c, l) PROVE ClosedForTheRecordedReason'
  BY <1>2 DEF UseRead
<1>3. ASSUME NEW c \in Callers, UseConsume(c) PROVE ClosedForTheRecordedReason'
  BY <1>3 DEF UseConsume, Return, Consumable, ReachesLimit
<1>4. ASSUME NEW c \in Callers, UseConsumeLast(c) PROVE ClosedForTheRecordedReason'
  BY <1>4 DEF UseConsumeLast, Consumable, ReachesLimit
<1>5. ASSUME NEW c \in Callers, UseRefused(c) PROVE ClosedForTheRecordedReason'
  BY <1>5 DEF UseRefused, Return
<1>6. ASSUME NEW c \in Callers, UseExhaust(c) PROVE ClosedForTheRecordedReason'
  BY <1>6 DEF UseExhaust, Return, CloseAs
<1>7. ASSUME NEW c \in Callers, UseExhaustConflict(c) PROVE ClosedForTheRecordedReason'
  BY <1>7 DEF UseExhaustConflict, Return
<1>8. ASSUME NEW c \in Callers, Cancelled(c) PROVE ClosedForTheRecordedReason'
  BY <1>8 DEF Cancelled, Return
<1>9. ASSUME NEW l \in Leases, Revoke(l) PROVE ClosedForTheRecordedReason'
  BY <1>9 DEF Revoke, CloseAs
<1>10. ASSUME NEW l \in Leases, Shorten(l) PROVE ClosedForTheRecordedReason'
  BY <1>10 DEF Shorten
<1>11. CASE SweepList
  BY <1>11 DEF SweepList
<1>12. CASE SweepClose
  <2>1. due[1] = Head(due) /\ Head(due) \in Leases /\ 1 \in 1..Len(due)
    BY <1>12 DEF SweepClose
  <2>2. expiresAt[Head(due)] <= now
    BY <2>1 DEF SweepInFlight
  <2> QED BY <1>12, <2>1, <2>2 DEF SweepClose, CloseAs
<1>13. CASE SweepConflict
  BY <1>13 DEF SweepConflict
<1>14. CASE Tick
  BY <1>14 DEF Tick
<1>15. CASE Crash
  BY <1>15 DEF Crash
<1>16. CASE UNCHANGED vars
  BY <1>16 DEF vars
<1> QED
  BY <1>1, <1>2, <1>3, <1>4, <1>5, <1>6, <1>7, <1>8, <1>9, <1>10, <1>11, <1>12,
     <1>13, <1>14, <1>15, <1>16 DEF Next, GatewayNext, UseStep

\* The invariant holds initially, every step keeps it.
LEMMA Inductive == Spec => []IInv
<1>1. Init => IInv
  BY LeaseAssumption DEF Init, IInv, TypeOK, UseInFlight, SweepInFlight, ServedWithinLimit,
     ClosedForTheRecordedReason, Closers, Spent, Unlimited, Statuses
<1>2. IInv /\ [Next]_vars => IInv'
  BY TypeStep, UseInFlightStep, SweepInFlightStep, ServedStep, ReasonStep DEF IInv
<1> QED BY <1>1, <1>2, PTL DEF Spec

\* Type correctness of the lease table, of the calls of Use in flight and of the
\* list a round of Sweep works off.
THEOREM LeaseTypeCorrect == Spec => []TypeOK
<1>1. IInv => TypeOK
  BY DEF IInv
<1> QED BY <1>1, Inductive, PTL

\* For any number of concurrent callers: the successful uses of a lease never
\* exceed the charged ones, nor those the limit (ConsumeLease is one statement,
\* so no two callers can both take the last use).
THEOREM LimitRespected == Spec => []ServedWithinLimit
<1>1. IInv => ServedWithinLimit
  BY DEF IInv
<1> QED BY <1>1, Inductive, PTL

\* For any number of concurrent callers: only one of them closes a lease as
\* exhausted, the lease it closes has no use left (Manager.Use), and whatever a
\* round of Sweep has still to close is past its deadline (Manager.Sweep).
THEOREM CallsInFlightAreSound == Spec => []InFlight
<1>1. IInv => InFlight
  BY DEF IInv, InFlight
<1> QED BY <1>1, Inductive, PTL

\* An exhausted lease has had all its uses charged and an expired one is past its
\* deadline, although both are closed by a statement of their own.
THEOREM ReasonsAreTrue == Spec => []ClosedForTheRecordedReason
<1>1. IInv => ClosedForTheRecordedReason
  BY DEF IInv
<1> QED BY <1>1, Inductive, PTL

\* Issued leases are only ever narrowed (Shorten compares, nothing renews).
THEOREM LeasesOnlyNarrow == Spec => OnlyNarrows
<1>1. IInv /\ [Next]_vars => [Narrows]_vars
  BY NarrowStep
<1> QED BY <1>1, Inductive, PTL DEF Spec, OnlyNarrows

\* A closed lease is left alone by every step, including the third statement of a
\* call of Use that charged it before it was closed.
LEMMA ClosedStep == IInv /\ [Next]_vars => KeepsClosed
<1> SUFFICES ASSUME IInv, [Next]_vars PROVE KeepsClosed
  OBVIOUS
<1> USE LeaseAssumption DEF IInv, TypeOK, UseInFlight, KeepsClosed, table, calls
<1>1. ASSUME NEW l \in Leases, Issue(l) PROVE KeepsClosed
  BY <1>1 DEF Issue
<1>2. ASSUME NEW c \in Callers, NEW l \in Leases, UseRead(c, l) PROVE KeepsClosed
  BY <1>2 DEF UseRead
<1>3. ASSUME NEW c \in Callers, UseConsume(c) PROVE KeepsClosed
  BY <1>3 DEF UseConsume, Consumable
<1>4. ASSUME NEW c \in Callers, UseConsumeLast(c) PROVE KeepsClosed
  BY <1>4 DEF UseConsumeLast, Consumable
<1>5. ASSUME NEW c \in Callers, UseRefused(c) PROVE KeepsClosed
  BY <1>5 DEF UseRefused, Return
<1>6. ASSUME NEW c \in Callers, UseExhaust(c) PROVE KeepsClosed
  BY <1>6 DEF UseExhaust, Return, CloseAs
<1>7. ASSUME NEW c \in Callers, UseExhaustConflict(c) PROVE KeepsClosed
  BY <1>7 DEF UseExhaustConflict, Return
<1>8. ASSUME NEW c \in Callers, Cancelled(c) PROVE KeepsClosed
  BY <1>8 DEF Cancelled, Return
<1>9. ASSUME NEW l \in Leases, Revoke(l) PROVE KeepsClosed
  BY <1>9 DEF Revoke, CloseAs
<1>10. ASSUME NEW l \in Leases, Shorten(l) PROVE KeepsClosed
  BY <1>10 DEF Shorten
<1>11. CASE SweepList
  BY <1>11 DEF SweepList
<1>12. CASE SweepClose
  BY <1>12 DEF SweepClose, CloseAs
<1>13. CASE SweepConflict
  BY <1>13 DEF SweepConflict
<1>14. CASE Tick
  BY <1>14 DEF Tick
<1>15. CASE Crash
  BY <1>15 DEF Crash
<1>16. CASE UNCHANGED vars
  BY <1>16 DEF vars
<1> QED
  BY <1>1, <1>2, <1>3, <1>4, <1>5, <1>6, <1>7, <1>8, <1>9, <1>10, <1>11, <1>12,
     <1>13, <1>14, <1>15, <1>16 DEF Next, GatewayNext, UseStep

\* Nothing happens to a closed lease any more, and no call of Use succeeds on it.
THEOREM ClosedLeasesAreFinal == Spec => ClosedIsFinal
<1>1. IInv /\ [Next]_vars => [KeepsClosed]_vars
  BY ClosedStep
<1> QED BY <1>1, Inductive, PTL DEF Spec, ClosedIsFinal

\* Every step of the manager is a step of the grant or leaves it as it is: a
\* charge is Charge, closing or sweeping a lease with uses left is End, and
\* closing a used-up lease changes nothing its holder could see.
LEMMA GrantStep == IInv /\ [Next]_vars => [Grant!Next]_(Grant!vars)
<1> SUFFICES ASSUME IInv, [Next]_vars PROVE [Grant!Next]_(Grant!vars)
  OBVIOUS
<1> USE LeaseAssumption DEF IInv, TypeOK, UseInFlight, Grant!vars, Spent, Unlimited,
        Statuses, table, calls
<1>1. ASSUME NEW l \in Leases, Issue(l) PROVE [Grant!Next]_(Grant!vars)
  <2>1. status[l] = "none" /\ usedRequests[l] = 0
    BY <1>1 DEF Issue
  <2>2. PICK n \in Limits : requestLimit' = [requestLimit EXCEPT ![l] = n]
    BY <1>1 DEF Issue
  <2>3. PICK t \in 0..MaxTime : t > now /\ expiresAt' = [expiresAt EXCEPT ![l] = t]
    BY <1>1 DEF Issue
  <2>4. status' = [status EXCEPT ![l] = "active"] /\ UNCHANGED <<now, usedRequests>>
    BY <1>1 DEF Issue
  <2>5. Life(l) = "unissued" /\ Life(l)' = "live"
    BY <2>1, <2>2, <2>4 DEF Life
  <2>5a. \A k \in Leases : k # l => Life(k)' = Life(k)
    BY <2>2, <2>4 DEF Life
  <2>6. Grant!Give(l)
    BY <2>1, <2>2, <2>3, <2>4, <2>5, <2>5a DEF Grant!Give
  <2> QED BY <2>6 DEF Grant!Next
<1>2. ASSUME NEW c \in Callers, NEW l \in Leases, UseRead(c, l) PROVE [Grant!Next]_(Grant!vars)
  BY <1>2 DEF UseRead, Life
<1>3. ASSUME NEW c \in Callers, UseConsume(c) PROVE [Grant!Next]_(Grant!vars)
  <2>1. PICK l \in Leases : l = target[c]
    BY <1>3 DEF UseConsume
  <2>2. /\ status[l] = "active" /\ expiresAt[l] > now
        /\ requestLimit[l] = 0 \/ usedRequests[l] < requestLimit[l]
        /\ ~(requestLimit[l] # 0 /\ usedRequests[l] + 1 >= requestLimit[l])
        /\ usedRequests' = [usedRequests EXCEPT ![l] = usedRequests[l] + 1]
        /\ UNCHANGED <<now, status, expiresAt, requestLimit>>
    BY <1>3, <2>1 DEF UseConsume, Consumable, ReachesLimit
  <2>3. ~(requestLimit[l] # 0 /\ usedRequests[l] + 1 = requestLimit[l])
    BY <2>2
  <2>4. Life(l) = "live" /\ Life(l)' = "live"
    BY <2>2 DEF Life
  <2>5. \A k \in Leases : k # l => Life(k)' = Life(k)
    BY <2>2 DEF Life
  <2>6. Grant!Charge(l)
    BY <2>2, <2>3, <2>4, <2>5 DEF Grant!Charge
  <2> QED BY <2>6 DEF Grant!Next
<1>4. ASSUME NEW c \in Callers, UseConsumeLast(c) PROVE [Grant!Next]_(Grant!vars)
  <2>1. PICK l \in Leases : l = target[c]
    BY <1>4 DEF UseConsumeLast
  <2>2. /\ status[l] = "active" /\ expiresAt[l] > now
        /\ requestLimit[l] = 0 \/ usedRequests[l] < requestLimit[l]
        /\ (requestLimit[l] # 0 /\ usedRequests[l] + 1 >= requestLimit[l])
        /\ usedRequests' = [usedRequests EXCEPT ![l] = usedRequests[l] + 1]
        /\ UNCHANGED <<now, status, expiresAt, requestLimit>>
    BY <1>4, <2>1 DEF UseConsumeLast, Consumable, ReachesLimit
  <2>3. (requestLimit[l] # 0 /\ usedRequests[l] + 1 = requestLimit[l])
    BY <2>2
  <2>4. Life(l) = "live" /\ Life(l)' = "over"
    BY <2>2 DEF Life
  <2>5. \A k \in Leases : k # l => Life(k)' = Life(k)
    BY <2>2 DEF Life
  <2>6. Grant!Charge(l)
    BY <2>2, <2>3, <2>4, <2>5 DEF Grant!Charge
  <2> QED BY <2>6 DEF Grant!Next
<1>5. ASSUME NEW c \in Callers, UseRefused(c) PROVE [Grant!Next]_(Grant!vars)
  BY <1>5 DEF UseRefused, Life
<1>6. ASSUME NEW c \in Callers, UseExhaust(c) PROVE [Grant!Next]_(Grant!vars)
  <2>1. UNCHANGED Grant!vars
    BY <1>6 DEF UseExhaust, CloseAs, Life
  <2> QED BY <2>1
<1>7. ASSUME NEW c \in Callers, UseExhaustConflict(c) PROVE [Grant!Next]_(Grant!vars)
  BY <1>7 DEF UseExhaustConflict, Life
<1>8. ASSUME NEW c \in Callers, Cancelled(c) PROVE [Grant!Next]_(Grant!vars)
  BY <1>8 DEF Cancelled, Life
<1>9. ASSUME NEW l \in Leases, Revoke(l) PROVE [Grant!Next]_(Grant!vars)
  <2>1. CASE Spent(l)
    BY <1>9, <2>1 DEF Revoke, CloseAs, Life
  <2>2. CASE ~Spent(l)
    <3>1. Grant!End(l)
      BY <1>9, <2>2 DEF Revoke, CloseAs, Life, Grant!End
    <3> QED BY <3>1 DEF Grant!Next
  <2> QED BY <2>1, <2>2
<1>10. ASSUME NEW l \in Leases, Shorten(l) PROVE [Grant!Next]_(Grant!vars)
  <2>1. Grant!Narrow(l)
    BY <1>10 DEF Shorten, Life, Grant!Narrow
  <2> QED BY <2>1 DEF Grant!Next
<1>11. CASE SweepList
  BY <1>11 DEF SweepList, Life
<1>12. CASE SweepClose
  <2>1. PICK l \in Leases : l = Head(due)
    BY <1>12 DEF SweepClose
  <2>2. CASE Spent(l)
    <3>1. \A k \in Leases : Life(k)' = Life(k)
      BY <1>12, <2>1, <2>2 DEF SweepClose, CloseAs, Life
    <3> QED BY <1>12, <3>1 DEF SweepClose
  <2>3. CASE ~Spent(l)
    <3>1. Grant!End(l)
      BY <1>12, <2>1, <2>3 DEF SweepClose, CloseAs, Life, Grant!End
    <3> QED BY <3>1 DEF Grant!Next
  <2> QED BY <2>2, <2>3
<1>13. CASE SweepConflict
  BY <1>13 DEF SweepConflict, Life
<1>14. CASE Tick
  <2>1. Grant!Tick
    BY <1>14 DEF Tick, Life, Grant!Tick
  <2> QED BY <2>1 DEF Grant!Next
<1>15. CASE Crash
  BY <1>15 DEF Crash, Life
<1>16. CASE UNCHANGED vars
  BY <1>16 DEF vars, Life
<1> QED
  BY <1>1, <1>2, <1>3, <1>4, <1>5, <1>6, <1>7, <1>8, <1>9, <1>10, <1>11, <1>12,
     <1>13, <1>14, <1>15, <1>16 DEF Next, GatewayNext, UseStep

\* The manager, three statements per use and all, implements the grant.
THEOREM LeaseImplementsGrant == Spec => ImplementsGrant
<1>1. Init => Grant!Init
  BY LeaseAssumption DEF Init, Grant!Init, Life
<1> QED BY <1>1, Inductive, GrantStep, PTL DEF Spec, ImplementsGrant, Grant!Spec

=============================================================================
