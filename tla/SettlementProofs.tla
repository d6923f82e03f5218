-------------------------- MODULE SettlementProofs --------------------------
(***************************************************************************)
(* Proofs about the life of a request for any number of requests and       *)
(* submissions, any timeouts, any batch size and any bounds.               *)
(***************************************************************************)
EXTENDS Settlement, TLAPS

\* The inductive invariant.  LedgerAgrees, GrantsAreEarned, StatusIsEarned and
\* SentIsCovered are what is wanted of the tables; none of them survives a step on
\* its own, because a statement trusts what an earlier statement of its call found
\* out.  HandlerInFlight, SettlersInFlight and SweeperInFlight say what each call
\* has behind it between two statements, whatever the others did meanwhile, and
\* RowsAgree what is left of that when a call ended early or the process died.
IInv ==
    /\ TypeOK
    /\ HandlerInFlight
    /\ SettlersInFlight
    /\ SweeperInFlight
    /\ RowsAgree
    /\ LedgerAgrees
    /\ GrantsAreEarned
    /\ StatusIsEarned
    /\ SentIsCovered

\* What one more entry does to the ledger, entry by entry.
LEMMA RecordCounts ==
    ASSUME ledger \in [Requests -> [Events -> Nat]], NEW r \in Requests, NEW e \in Events,
           Record(r, e)
    PROVE  /\ ledger' \in [Requests -> [Events -> Nat]]
           /\ ledger'[r][e] = ledger[r][e] + 1
           /\ \A q \in Requests, f \in Events :
                 q # r \/ f # e => ledger'[q][f] = ledger[q][f]
           /\ \A q \in Requests, f \in Events : ledger'[q][f] >= ledger[q][f]
<1> DEFINE row == [ledger[r] EXCEPT ![e] = ledger[r][e] + 1]
<1>1. ledger' = [ledger EXCEPT ![r] = row]
  BY DEF Record
<1>2. row \in [Events -> Nat]
  OBVIOUS
<1>3. row[e] = ledger[r][e] + 1 /\ \A f \in Events : f # e => row[f] = ledger[r][f]
  OBVIOUS
<1> HIDE DEF row
<1>4. ledger' \in [Requests -> [Events -> Nat]] /\ ledger'[r] = row
      /\ \A q \in Requests : q # r => ledger'[q] = ledger[q]
  BY <1>1, <1>2
<1>5. \A q \in Requests, f \in Events : ledger[q][f] \in Nat
  OBVIOUS
<1>6. ASSUME NEW q \in Requests, NEW f \in Events PROVE ledger'[q][f] >= ledger[q][f]
  <2>1. CASE q = r /\ f = e
    BY <1>3, <1>4, <1>5, <2>1
  <2>2. CASE q # r \/ f # e
    BY <1>3, <1>4, <1>5, <2>2
  <2> QED BY <2>1, <2>2
<1> QED BY <1>3, <1>4, <1>6

\* Every variable stays in its type.
LEMMA TypeStep == IInv /\ [Next]_vars => TypeOK'
<1> SUFFICES ASSUME IInv, [Next]_vars PROVE TypeOK'
  OBVIOUS
<1> USE DEF IInv, decisionVars, approvalVars, handlerVars, settlerVars, sweeperVars
<1>1. ASSUME NEW r \in Requests, Submit(r) PROVE TypeOK'
  <2>1. request' \in [Requests -> RequestStatuses]
    BY <1>1 DEF TypeOK, Submit, HandlerGoes, RequestStatuses
  <2>2. hpc' \in [Requests -> HandlerSteps]
    BY <1>1 DEF TypeOK, Submit, HandlerGoes, HandlerSteps
  <2> QED BY <1>1, <2>1, <2>2 DEF TypeOK, Submit
<1>2. ASSUME NEW r \in Requests, FailClosed(r) PROVE TypeOK'
  <2>1. ledger' \in [Requests -> [Events -> Nat]]
    BY <1>2, RecordCounts DEF TypeOK, FailClosed, Events
  <2>2. hpc' \in [Requests -> HandlerSteps]
    BY <1>2 DEF TypeOK, FailClosed, HandlerGoes, HandlerSteps
  <2> QED BY <1>2, <2>1, <2>2 DEF TypeOK, FailClosed
<1>3. ASSUME NEW r \in Requests, NEW v \in Verdicts \ {"none"}, NEW level \in RiskLevels, RecordDecision(r, v, level) PROVE TypeOK'
  <2>1. decision' \in [Requests -> Verdicts]
    BY <1>3, SettlementAssumption DEF TypeOK, RecordDecision, HandlerGoes
  <2>2. risk' \in [Requests -> Levels]
    BY <1>3, SettlementAssumption DEF TypeOK, RecordDecision, HandlerGoes
  <2>3. window' \in [Requests -> Nat]
    BY <1>3, SettlementAssumption DEF TypeOK, RecordDecision, HandlerGoes
  <2>4. matched' \in [Requests -> Requests \cup {NoRequest}]
    BY <1>3, SettlementAssumption DEF TypeOK, RecordDecision, HandlerGoes
  <2>5. hpc' \in [Requests -> HandlerSteps]
    BY <1>3, SettlementAssumption DEF TypeOK, RecordDecision, HandlerGoes, HandlerSteps
  <2> QED BY <1>3, <2>1, <2>2, <2>3, <2>4, <2>5 DEF TypeOK, RecordDecision
<1>4. ASSUME NEW r \in Requests, BookDecision(r) PROVE TypeOK'
  <2>1. ledger' \in [Requests -> [Events -> Nat]]
    BY <1>4, RecordCounts DEF TypeOK, BookDecision, Events
  <2>2. hpc' \in [Requests -> HandlerSteps]
    BY <1>4 DEF TypeOK, BookDecision, HandlerGoes, HandlerSteps
  <2> QED BY <1>4, <2>1, <2>2 DEF TypeOK, BookDecision
<1>5. ASSUME NEW r \in Requests, Open(r) PROVE TypeOK'
  <2>1. approval' \in [Requests -> ApprovalStatuses]
    BY <1>5, SettlementAssumption DEF TypeOK, Open, HandlerGoes, ApprovalStatuses
  <2>2. expiresAt' \in [Requests -> Nat]
    BY <1>5, SettlementAssumption DEF TypeOK, Open, HandlerGoes
  <2>3. hpc' \in [Requests -> HandlerSteps]
    BY <1>5, SettlementAssumption DEF TypeOK, Open, HandlerGoes, HandlerSteps
  <2> QED BY <1>5, <2>1, <2>2, <2>3 DEF TypeOK, Open
<1>6. ASSUME NEW r \in Requests, ReuseLease(r) PROVE TypeOK'
  <2>1. grant' \in [Requests -> Requests \cup {NoRequest}]
    BY <1>6 DEF TypeOK, ReuseLease, HandlerGoes
  <2>2. hpc' \in [Requests -> HandlerSteps]
    BY <1>6 DEF TypeOK, ReuseLease, HandlerGoes, HandlerSteps
  <2> QED BY <1>6, <2>1, <2>2 DEF TypeOK, ReuseLease
<1>7. ASSUME NEW r \in Requests, Issue(r) PROVE TypeOK'
  <2>1. lease' \in SUBSET Requests
    BY <1>7 DEF TypeOK, Issue, HandlerGoes
  <2>2. grant' \in [Requests -> Requests \cup {NoRequest}]
    BY <1>7 DEF TypeOK, Issue, HandlerGoes
  <2>3. hpc' \in [Requests -> HandlerSteps]
    BY <1>7 DEF TypeOK, Issue, HandlerGoes, HandlerSteps
  <2> QED BY <1>7, <2>1, <2>2, <2>3 DEF TypeOK, Issue
<1>8. ASSUME NEW r \in Requests, IssueRefused(r) \/ HandlerConflict(r) \/ HandlerFails(r) PROVE TypeOK'
  <2>1. HandlerGoes(r, "done") /\ failures' \in {failures, failures + 1}
    BY <1>8 DEF IssueRefused, HandlerConflict, HandlerFails
  <2>2. hpc' \in [Requests -> HandlerSteps]
    BY <2>1 DEF TypeOK, HandlerGoes, HandlerSteps
  <2> QED BY <1>8, <2>1, <2>2 DEF TypeOK, IssueRefused, HandlerConflict, HandlerFails
<1>9. ASSUME NEW r \in Requests, HandlerAdvance(r) PROVE TypeOK'
  <2>1. request' \in [Requests -> RequestStatuses]
    BY <1>9 DEF TypeOK, HandlerAdvance, HandlerGoes, Advance, NextStatus, RequestStatuses
  <2>2. hpc' \in [Requests -> HandlerSteps]
    BY <1>9 DEF TypeOK, HandlerAdvance, HandlerGoes, Advance, NextStatus, HandlerSteps
  <2> QED BY <1>9, <2>1, <2>2 DEF TypeOK, HandlerAdvance
<1>10. ASSUME NEW r \in Requests, ExecuteStart(r) PROVE TypeOK'
  <2>1. request' \in [Requests -> RequestStatuses]
    BY <1>10 DEF TypeOK, ExecuteStart, HandlerGoes, Advance, RequestStatuses
  <2>2. hpc' \in [Requests -> HandlerSteps]
    BY <1>10 DEF TypeOK, ExecuteStart, HandlerGoes, Advance, HandlerSteps
  <2> QED BY <1>10, <2>1, <2>2 DEF TypeOK, ExecuteStart
<1>11. ASSUME NEW r \in Requests, NEW step \in {"sending", "failing"}, Use(r, step) PROVE TypeOK'
  <2>1. hpc' \in [Requests -> HandlerSteps]
    BY <1>11 DEF TypeOK, Use, HandlerGoes, HandlerSteps
  <2> QED BY <1>11, <2>1 DEF TypeOK, Use
<1>12. ASSUME NEW r \in Requests, Send(r) PROVE TypeOK'
  <2>1. hpc' \in [Requests -> HandlerSteps] /\ sent' \in SUBSET Requests
    BY <1>12 DEF TypeOK, Send, HandlerGoes, HandlerSteps
  <2> QED BY <1>12, <2>1 DEF TypeOK, Send
<1>13. ASSUME NEW r \in Requests, RecordExecuted(r) PROVE TypeOK'
  <2>1. ledger' \in [Requests -> [Events -> Nat]]
    BY <1>13, RecordCounts DEF TypeOK, RecordExecuted, Events
  <2>2. hpc' \in [Requests -> HandlerSteps]
    BY <1>13 DEF TypeOK, RecordExecuted, HandlerGoes, HandlerSteps
  <2> QED BY <1>13, <2>1, <2>2 DEF TypeOK, RecordExecuted
<1>14. ASSUME NEW r \in Requests, NEW end \in {"succeeded", "failed"}, ExecuteEnd(r, end) PROVE TypeOK'
  <2>1. request' \in [Requests -> RequestStatuses]
    BY <1>14 DEF TypeOK, ExecuteEnd, HandlerGoes, Advance, RequestStatuses
  <2>2. hpc' \in [Requests -> HandlerSteps]
    BY <1>14 DEF TypeOK, ExecuteEnd, HandlerGoes, Advance, HandlerSteps
  <2> QED BY <1>14, <2>1, <2>2 DEF TypeOK, ExecuteEnd
<1>15. ASSUME NEW r \in Requests, RecordFailed(r) PROVE TypeOK'
  <2>1. hpc' \in [Requests -> HandlerSteps] /\ failures' \in Nat
    BY <1>15 DEF TypeOK, RecordFailed, HandlerGoes, HandlerSteps
  <2>2. ledger' \in [Requests -> [Events -> Nat]]
    <3>1. CASE Record(r, "executed")
      BY <3>1, RecordCounts DEF TypeOK, Events
    <3>2. CASE UNCHANGED ledger
      BY <3>2 DEF TypeOK
    <3> QED BY <1>15, <3>1, <3>2 DEF RecordFailed
  <2> QED BY <1>15, <2>1, <2>2 DEF TypeOK, RecordFailed
<1>16. ASSUME NEW r \in Requests, Abandon(r) PROVE TypeOK'
  <2>1. request' \in [Requests -> RequestStatuses]
    BY <1>16 DEF TypeOK, Abandon, HandlerGoes, Advance, RequestStatuses
  <2>2. hpc' \in [Requests -> HandlerSteps]
    BY <1>16 DEF TypeOK, Abandon, HandlerGoes, Advance, HandlerSteps
  <2> QED BY <1>16, <2>1, <2>2 DEF TypeOK, Abandon
<1>17. ASSUME NEW r \in Requests, Cancel(r) PROVE TypeOK'
  <2>1. request' \in [Requests -> RequestStatuses]
    BY <1>17 DEF TypeOK, Cancel, Advance, RequestStatuses
  <2> QED BY <1>17, <2>1 DEF TypeOK, Cancel
<1>18. ASSUME NEW s \in Settlers, NEW r \in Requests, NEW a \in Submitted, SettleRead(s, r, a) PROVE TypeOK'
  <2>1. spc' \in [Settlers -> SettlerSteps]
    BY <1>18, SettlementAssumption DEF TypeOK, SettleRead, SettlerSteps
  <2>2. sub' \in [Settlers -> Requests \cup {NoRequest}]
    BY <1>18, SettlementAssumption DEF TypeOK, SettleRead
  <2>3. act' \in [Settlers -> Actions \cup {"none"}]
    BY <1>18, SettlementAssumption DEF TypeOK, SettleRead, Actions
  <2>4. seen' \in [Settlers -> RequestStatuses]
    BY <1>18, SettlementAssumption DEF TypeOK, SettleRead, RequestStatuses
  <2> QED BY <1>18, <2>1, <2>2, <2>3, <2>4 DEF TypeOK, SettleRead
<1>19. ASSUME NEW s \in Settlers, SettleWrite(s) PROVE TypeOK'
  <2>1. sub[s] \in Requests
    BY <1>19 DEF SettlersInFlight, SettlerSound, SettleWrite
  <2>3. approval' \in [Requests -> ApprovalStatuses]
    BY <1>19, <2>1 DEF TypeOK, SettleWrite, SettlerGoes, ApprovalStatuses
  <2>4. action' \in [Requests -> Actions \cup {"none"}]
    BY <1>19, <2>1 DEF TypeOK, SettleWrite, SettlerGoes, Actions
  <2>5. spc' \in [Settlers -> SettlerSteps]
    BY <1>19, <2>1 DEF TypeOK, SettleWrite, SettlerGoes, SettlerSteps
  <2> QED BY <1>19, <2>3, <2>4, <2>5 DEF TypeOK, SettleWrite, SettlerGoes
<1>20. ASSUME NEW s \in Settlers, SettleReplay(s) PROVE TypeOK'
  <2>1. SettlerGoes(s, "looking") \/ SettlerReturns(s)
    BY <1>20 DEF SettleReplay
  <2>2. spc' \in [Settlers -> SettlerSteps]
    BY <2>1 DEF TypeOK, SettlerSteps, SettlerGoes, SettlerReturns
  <2>3. /\ sub' \in [Settlers -> Requests \cup {NoRequest}]
        /\ act' \in [Settlers -> Actions \cup {"none"}]
    BY <2>1 DEF TypeOK, SettlerGoes, SettlerReturns
  <2>4. seen' \in [Settlers -> RequestStatuses]
    BY <2>1 DEF TypeOK, RequestStatuses, SettlerGoes, SettlerReturns
  <2> QED BY <1>20, <2>2, <2>3, <2>4 DEF TypeOK, SettleReplay
<1>21. ASSUME NEW s \in Settlers, SettleLook(s) PROVE TypeOK'
  <2>1. spc' \in [Settlers -> SettlerSteps]
    BY <1>21 DEF TypeOK, SettlerSteps, SettlerGoes, SettlerReturns, SettleLook
  <2>2. sub' \in [Settlers -> Requests \cup {NoRequest}]
    BY <1>21 DEF TypeOK, SettlerGoes, SettlerReturns, SettleLook
  <2>3. act' \in [Settlers -> Actions \cup {"none"}]
    BY <1>21 DEF TypeOK, SettlerGoes, SettlerReturns, SettleLook
  <2>4. seen' \in [Settlers -> RequestStatuses]
    BY <1>21 DEF TypeOK, RequestStatuses, SettlerGoes, SettlerReturns, SettleLook
  <2> QED BY <1>21, <2>1, <2>2, <2>3, <2>4 DEF TypeOK, SettleLook
<1>22. ASSUME NEW s \in Settlers, SettleBook(s) PROVE TypeOK'
  <2>1. sub[s] \in Requests
    BY <1>22 DEF SettlersInFlight, SettlerSound, SettleBook
  <2>3. ledger' \in [Requests -> [Events -> Nat]]
    BY <1>22, <2>1, RecordCounts DEF TypeOK, SettleBook, Events
  <2>4. spc' \in [Settlers -> SettlerSteps]
    BY <1>22, <2>1 DEF TypeOK, SettleBook, SettlerGoes, SettlerSteps
  <2> QED BY <1>22, <2>3, <2>4 DEF TypeOK, SettleBook, SettlerGoes
<1>23. ASSUME NEW s \in Settlers, SettleGrant(s) PROVE TypeOK'
  <2>1. sub[s] \in Requests
    BY <1>23 DEF SettlersInFlight, SettlerSound, SettleGrant
  <2>3. lease' \in SUBSET Requests
    BY <1>23, <2>1 DEF TypeOK, SettleGrant, SettlerGoes
  <2>4. spc' \in [Settlers -> SettlerSteps]
    BY <1>23, <2>1 DEF TypeOK, SettleGrant, SettlerGoes, SettlerSteps
  <2> QED BY <1>23, <2>3, <2>4 DEF TypeOK, SettleGrant, SettlerGoes
<1>24. ASSUME NEW s \in Settlers, SettleGrantRefused(s) \/ SettleAdvanceConflict(s) \/ SettlerFails(s) PROVE TypeOK'
  <2>1. spc' \in [Settlers -> SettlerSteps]
    BY <1>24 DEF TypeOK, SettlerSteps, SettlerGoes, SettlerReturns, SettleGrantRefused, SettleAdvanceConflict, SettlerFails
  <2>2. sub' \in [Settlers -> Requests \cup {NoRequest}]
    BY <1>24 DEF TypeOK, SettlerGoes, SettlerReturns, SettleGrantRefused, SettleAdvanceConflict, SettlerFails
  <2>3. act' \in [Settlers -> Actions \cup {"none"}]
    BY <1>24 DEF TypeOK, SettlerGoes, SettlerReturns, SettleGrantRefused, SettleAdvanceConflict, SettlerFails
  <2>4. seen' \in [Settlers -> RequestStatuses]
    BY <1>24 DEF TypeOK, RequestStatuses, SettlerGoes, SettlerReturns, SettleGrantRefused, SettleAdvanceConflict, SettlerFails
  <2> QED BY <1>24, <2>1, <2>2, <2>3, <2>4 DEF TypeOK, SettleGrantRefused, SettleAdvanceConflict, SettlerFails
<1>25. ASSUME NEW s \in Settlers, SettleLearn(s) PROVE TypeOK'
  <2>1. sub[s] \in Requests
    BY <1>25 DEF SettlersInFlight, SettlerSound, SettleLearn
  <2>3. memory' \in SUBSET Requests
    BY <1>25, <2>1 DEF TypeOK, SettleLearn, SettlerGoes
  <2>4. spc' \in [Settlers -> SettlerSteps]
    BY <1>25, <2>1 DEF TypeOK, SettleLearn, SettlerGoes, SettlerSteps
  <2> QED BY <1>25, <2>3, <2>4 DEF TypeOK, SettleLearn, SettlerGoes
<1>26. ASSUME NEW s \in Settlers, SettleAdvance(s) PROVE TypeOK'
  <2>1. spc' \in [Settlers -> SettlerSteps]
    BY <1>26 DEF TypeOK, SettlerSteps, SettlerGoes, SettlerReturns, SettleAdvance
  <2>2. sub' \in [Settlers -> Requests \cup {NoRequest}]
    BY <1>26 DEF TypeOK, SettlerGoes, SettlerReturns, SettleAdvance
  <2>3. act' \in [Settlers -> Actions \cup {"none"}]
    BY <1>26 DEF TypeOK, SettlerGoes, SettlerReturns, SettleAdvance
  <2>4. seen' \in [Settlers -> RequestStatuses]
    BY <1>26 DEF TypeOK, RequestStatuses, SettlerGoes, SettlerReturns, SettleAdvance
  <2>5. request' \in [Requests -> RequestStatuses]
    BY <1>26 DEF TypeOK, SettlersInFlight, SettlerSound, RequestStatuses, Advance, SettleAdvance
  <2> QED BY <1>26, <2>1, <2>2, <2>3, <2>4, <2>5 DEF TypeOK, SettleAdvance
<1>27. CASE SweepList
  <2>1. PICK q \in OldestFirst(Overdue, SweepBatch) : due' = q
    BY <1>27 DEF SweepList
  <2>2. PICK k \in 0..SweepBatch : q \in [1..k -> Overdue]
    BY <2>1 DEF OldestFirst
  <2>3. due' \in Seq(Requests)
    BY <2>1, <2>2, SettlementAssumption DEF Overdue
  <2> QED BY <1>27, <2>3 DEF TypeOK, SweepList
<1>28. CASE SweepClose
  <2>1. Head(due) \in Requests /\ Tail(due) \in Seq(Requests)
    BY <1>28 DEF TypeOK, SweepClose, SweeperInFlight
  <2>2. approval' \in [Requests -> ApprovalStatuses]
    BY <1>28, <2>1 DEF TypeOK, SweepClose, ApprovalStatuses
  <2>3. action' \in [Requests -> Actions \cup {"none"}]
    BY <1>28, <2>1 DEF TypeOK, SweepClose, Actions
  <2>4. due' \in Seq(Requests) /\ closed' \in Seq(Requests)
    BY <1>28, <2>1 DEF TypeOK, SweepClose
  <2> QED BY <1>28, <2>2, <2>3, <2>4 DEF TypeOK, SweepClose
<1>29. CASE SweepBook
  <2>1. Head(closed) \in Requests
    BY <1>29 DEF TypeOK, SweepBook, SweeperInFlight
  <2>2. ledger' \in [Requests -> [Events -> Nat]]
    BY <1>29, <2>1, RecordCounts DEF TypeOK, SweepBook, Events
  <2>3. wseen' \in RequestStatuses
    BY <1>29, <2>1 DEF TypeOK, SweepBook
  <2> QED BY <1>29, <2>2, <2>3 DEF TypeOK, SweepBook
<1>30. CASE SweepAdvance
  <2>1. Head(closed) \in Requests /\ Tail(closed) \in Seq(Requests)
    BY <1>30 DEF TypeOK, SweepAdvance, SweeperInFlight
  <2>2. request' \in [Requests -> RequestStatuses]
    BY <1>30, <2>1 DEF TypeOK, SweepAdvance, Advance, RequestStatuses
  <2>3. /\ wpc' \in {"idle", "closing", "booking", "advancing"} /\ wseen' \in RequestStatuses
        /\ due' \in Seq(Requests) /\ closed' \in Seq(Requests)
    BY <1>30, <2>1 DEF TypeOK, SweepAdvance, SweeperReturns, RequestStatuses
  <2> QED BY <1>30, <2>2, <2>3 DEF TypeOK, SweepAdvance
<1>31. CASE SweepConflict \/ SweepAdvanceConflict \/ SweeperFails
  <2>1. SweeperReturns /\ failures' \in {failures, failures + 1}
    BY <1>31 DEF SweepConflict, SweepAdvanceConflict, SweeperFails
  <2>2. /\ wpc' \in {"idle", "closing", "booking", "advancing"} /\ wseen' \in RequestStatuses
        /\ due' \in Seq(Requests) /\ closed' \in Seq(Requests)
    BY <2>1 DEF SweeperReturns, RequestStatuses
  <2>3. CASE SweepConflict
    BY <2>1, <2>2, <2>3 DEF TypeOK, SweepConflict
  <2>4. CASE SweepAdvanceConflict
    BY <2>1, <2>2, <2>4 DEF TypeOK, SweepAdvanceConflict
  <2>5. CASE SweeperFails
    BY <2>1, <2>2, <2>5 DEF TypeOK, SweeperFails
  <2> QED BY <1>31, <2>3, <2>4, <2>5
<1>32. CASE Tick
  BY <1>32 DEF TypeOK, Tick
<1>33. CASE Crash
  <2>1. /\ hpc' \in [Requests -> HandlerSteps]
        /\ grant' \in [Requests -> Requests \cup {NoRequest}]
    BY <1>33 DEF Crash, HandlerSteps
  <2>2. /\ spc' \in [Settlers -> SettlerSteps]
        /\ sub' \in [Settlers -> Requests \cup {NoRequest}]
        /\ act' \in [Settlers -> Actions \cup {"none"}]
        /\ seen' \in [Settlers -> RequestStatuses]
    BY <1>33 DEF Crash, SettlerSteps, RequestStatuses
  <2>3. /\ wpc' \in {"idle", "closing", "booking", "advancing"} /\ wseen' \in RequestStatuses
        /\ due' \in Seq(Requests) /\ closed' \in Seq(Requests) /\ failures' \in Nat
    BY <1>33 DEF TypeOK, Crash, SweeperReturns, RequestStatuses
  <2> QED BY <1>33, <2>1, <2>2, <2>3 DEF TypeOK, Crash
<1>34. CASE UNCHANGED vars
  BY <1>34 DEF TypeOK, vars
<1> QED
  BY <1>1, <1>2, <1>3, <1>4, <1>5, <1>6, <1>7, <1>8, <1>9, <1>10, <1>11, <1>12, <1>13,
     <1>14, <1>15, <1>16, <1>17, <1>18, <1>19, <1>20, <1>21, <1>22, <1>23, <1>24,
     <1>25, <1>26, <1>27, <1>28, <1>29, <1>30, <1>31, <1>32, <1>33,
     <1>34 DEF Next, Handler, Settler, Sweeper

\* The steps that change what the tables say of a decision, an approval, the
\* ledger, a lease, a memory or an execution.
Writes ==
    \/ \E r \in Requests :
          \/ FailClosed(r)
          \/ \E v \in Verdicts \ {"none"}, level \in RiskLevels : RecordDecision(r, v, level)
          \/ BookDecision(r)
          \/ Open(r)
          \/ Issue(r)
          \/ Send(r)
          \/ RecordExecuted(r)
          \/ RecordFailed(r)
    \/ \E s \in Settlers :
          SettleWrite(s) \/ SettleBook(s) \/ SettleGrant(s) \/ SettleLearn(s)
    \/ SweepClose
    \/ SweepBook

\* No other step changes them.
LEMMA OthersOnlyRead ==
    [Next]_vars /\ ~Writes =>
        UNCHANGED <<decision, risk, matched, approval, action, ledger, lease, memory, sent>>
<1> SUFFICES ASSUME [Next]_vars, ~Writes
    PROVE UNCHANGED <<decision, risk, matched, approval, action, ledger, lease, memory, sent>>
  OBVIOUS
<1> USE DEF Writes, decisionVars, approvalVars
<1>1. ASSUME NEW r \in Requests,
             Submit(r) \/ Handler(r) \/ ExecuteStart(r) \/ HandlerFails(r) \/ Cancel(r)
      PROVE  UNCHANGED <<decision, risk, matched, approval, action, ledger, lease, memory, sent>>
  BY <1>1 DEF Submit, Handler, ReuseLease, IssueRefused, HandlerAdvance, HandlerConflict,
     ExecuteStart, Use, ExecuteEnd, Abandon, HandlerFails, Cancel
<1>2. ASSUME NEW s \in Settlers,
             \/ \E r \in Requests, a \in Submitted : SettleRead(s, r, a)
             \/ Settler(s)
             \/ SettlerFails(s)
      PROVE  UNCHANGED <<decision, risk, matched, approval, action, ledger, lease, memory, sent>>
  BY <1>2 DEF SettleRead, Settler, SettleReplay, SettleLook, SettleGrantRefused, SettleAdvance,
     SettleAdvanceConflict, SettlerFails
<1>3. ASSUME Sweeper \/ SweeperFails \/ Tick \/ Crash \/ UNCHANGED vars
      PROVE  UNCHANGED <<decision, risk, matched, approval, action, ledger, lease, memory, sent>>
  BY <1>3 DEF Sweeper, SweepList, SweepConflict, SweepAdvance, SweepAdvanceConflict,
     SweeperFails, Tick, Crash, vars
<1> QED BY <1>1, <1>2, <1>3 DEF Next

\* Entries that do not report a settlement leave the reports of settlements alone.
LEMMA OtherEntries ==
    ASSUME ledger \in [Requests -> [Events -> Nat]], NEW r \in Requests,
           NEW e \in {"error", "auto_allowed", "blocked", "executed"}, Record(r, e)
    PROVE  \A q \in Requests :
              /\ ledger'[q]["user_allowed"] = ledger[q]["user_allowed"]
              /\ ledger'[q]["user_denied"] = ledger[q]["user_denied"]
              /\ ledger'[q]["approval_expired"] = ledger[q]["approval_expired"]
<1>1. e \in Events
  BY DEF Events
<1>2. \A q \in Requests, f \in Events : q # r \/ f # e => ledger'[q][f] = ledger[q][f]
  BY <1>1, RecordCounts
<1> QED BY <1>2 DEF Events

\* No entry about the settlement of r.
Unreported(r) ==
    /\ ledger[r]["user_allowed"] = 0
    /\ ledger[r]["user_denied"] = 0
    /\ ledger[r]["approval_expired"] = 0

\* An approval nobody has settled is not reported as settled.
LEMMA NothingToReport ==
    ASSUME TypeOK, LedgerAgrees, NEW r \in Requests, approval[r] \in {"none", "pending"}
    PROVE  Unreported(r)
<1>1. /\ ledger[r]["user_allowed"] \in Nat
      /\ ledger[r]["user_denied"] \in Nat
      /\ ledger[r]["approval_expired"] \in Nat
  BY DEF TypeOK, Events
<1> QED BY <1>1 DEF LedgerAgrees, Unreported

\* Every step keeps the reports in the ledger one per approval and true.
LEMMA LedgerStep == IInv /\ [Next]_vars => LedgerAgrees'
<1> SUFFICES ASSUME IInv, [Next]_vars PROVE LedgerAgrees'
  OBVIOUS
<1> USE DEF IInv, LedgerAgrees, Settlements, decisionVars, approvalVars
<1>1. ASSUME NEW r \in Requests, FailClosed(r) PROVE LedgerAgrees'
  <2>1. \A q \in Requests :
           /\ ledger'[q]["user_allowed"] = ledger[q]["user_allowed"]
           /\ ledger'[q]["user_denied"] = ledger[q]["user_denied"]
           /\ ledger'[q]["approval_expired"] = ledger[q]["approval_expired"]
    BY <1>1, OtherEntries DEF TypeOK, FailClosed
  <2> QED BY <1>1, <2>1 DEF FailClosed
<1>2. ASSUME NEW r \in Requests, NEW v \in Verdicts \ {"none"}, NEW level \in RiskLevels, RecordDecision(r, v, level) PROVE LedgerAgrees'
  BY <1>2 DEF RecordDecision
<1>3. ASSUME NEW r \in Requests, BookDecision(r) PROVE LedgerAgrees'
  <2>1. \A q \in Requests :
           /\ ledger'[q]["user_allowed"] = ledger[q]["user_allowed"]
           /\ ledger'[q]["user_denied"] = ledger[q]["user_denied"]
           /\ ledger'[q]["approval_expired"] = ledger[q]["approval_expired"]
    BY <1>3, OtherEntries DEF TypeOK, BookDecision
  <2> QED BY <1>3, <2>1 DEF BookDecision
<1>4. ASSUME NEW r \in Requests, Open(r) PROVE LedgerAgrees'
  <2>1. approval[r] = "none"
    BY <1>4 DEF Open, HandlerInFlight, HandlerSound
  <2>2. Unreported(r)
    BY <2>1, NothingToReport
  <2> QED BY <1>4, <2>2 DEF TypeOK, Open, Unreported
<1>5. ASSUME NEW r \in Requests, Issue(r) PROVE LedgerAgrees'
  BY <1>5 DEF Issue
<1>6. ASSUME NEW r \in Requests, Send(r) PROVE LedgerAgrees'
  BY <1>6 DEF Send
<1>7. ASSUME NEW r \in Requests, RecordExecuted(r) PROVE LedgerAgrees'
  <2>1. \A q \in Requests :
           /\ ledger'[q]["user_allowed"] = ledger[q]["user_allowed"]
           /\ ledger'[q]["user_denied"] = ledger[q]["user_denied"]
           /\ ledger'[q]["approval_expired"] = ledger[q]["approval_expired"]
    BY <1>7, OtherEntries DEF TypeOK, RecordExecuted
  <2> QED BY <1>7, <2>1 DEF RecordExecuted
<1>8. ASSUME NEW r \in Requests, RecordFailed(r) PROVE LedgerAgrees'
  <2>1. CASE Record(r, "executed")
    BY <1>8, <2>1, OtherEntries DEF TypeOK, RecordFailed
  <2>2. CASE UNCHANGED ledger
    BY <1>8, <2>2 DEF RecordFailed
  <2> QED BY <1>8, <2>1, <2>2 DEF RecordFailed
<1>9. ASSUME NEW s \in Settlers, SettleWrite(s) PROVE LedgerAgrees'
  <2>1. sub[s] \in Requests
    BY <1>9 DEF SettlersInFlight, SettlerSound, SettleWrite
  <2> QED BY <1>9, <2>1 DEF SettleWrite, TypeOK, Events, Allows
<1>10. ASSUME NEW s \in Settlers, SettleBook(s) PROVE LedgerAgrees'
  <2>1. /\ sub[s] \in Requests /\ Settlements(sub[s]) = 0 /\ action[sub[s]] = act[s]
        /\ approval[sub[s]] = IF Allows(act[s]) THEN "approved" ELSE "rejected"
    BY <1>10 DEF SettlersInFlight, SettlerSound, Owning, SettleBook
  <2> DEFINE e == IF Allows(act[s]) THEN "user_allowed" ELSE "user_denied"
  <2>2. e \in Events /\ Record(sub[s], e)
    BY <1>10 DEF SettleBook, Events
  <2>3. /\ ledger'[sub[s]][e] = ledger[sub[s]][e] + 1
        /\ \A q \in Requests, f \in Events :
              q # sub[s] \/ f # e => ledger'[q][f] = ledger[q][f]
    BY <2>1, <2>2, RecordCounts DEF TypeOK
  <2>4. ledger[sub[s]] \in [Events -> Nat]
    BY <2>1 DEF TypeOK
  <2>5. \A q \in Requests \ {sub[s]} : ledger'[q]["user_allowed"] = ledger[q]["user_allowed"]
           /\ ledger'[q]["user_denied"] = ledger[q]["user_denied"]
           /\ ledger'[q]["approval_expired"] = ledger[q]["approval_expired"]
    BY <2>3 DEF Events
  <2>6. ledger[sub[s]]["user_allowed"] = 0 /\ ledger[sub[s]]["user_denied"] = 0
        /\ ledger[sub[s]]["approval_expired"] = 0
    BY <2>1, <2>4 DEF Events
  <2>7. UNCHANGED <<approval, action>>
    BY <1>10 DEF SettleBook
  <2>8. CASE Allows(act[s])
    <3>1. ledger'[sub[s]]["user_allowed"] = 1 /\ ledger'[sub[s]]["user_denied"] = 0
          /\ ledger'[sub[s]]["approval_expired"] = 0
      BY <2>1, <2>3, <2>6, <2>8 DEF Events
    <3> QED BY <2>1, <2>5, <2>7, <2>8, <3>1
  <2>9. CASE ~Allows(act[s])
    <3>1. ledger'[sub[s]]["user_allowed"] = 0 /\ ledger'[sub[s]]["user_denied"] = 1
          /\ ledger'[sub[s]]["approval_expired"] = 0
      BY <2>1, <2>3, <2>6, <2>9 DEF Events
    <3> QED BY <2>1, <2>5, <2>7, <2>9, <3>1 DEF Allows
  <2> QED BY <2>8, <2>9
<1>11. ASSUME NEW s \in Settlers, SettleGrant(s) PROVE LedgerAgrees'
  BY <1>11 DEF SettleGrant
<1>12. ASSUME NEW s \in Settlers, SettleLearn(s) PROVE LedgerAgrees'
  BY <1>12 DEF SettleLearn
<1>13. CASE SweepClose
  <2>1. Head(due) \in Requests
    BY <1>13 DEF TypeOK, SweepClose, SweeperInFlight
  <2> QED BY <1>13, <2>1 DEF SweepClose, TypeOK, Events
<1>14. CASE SweepBook
  <2>1. Head(closed) \in Requests /\ approval[Head(closed)] = "expired"
        /\ ledger[Head(closed)]["approval_expired"] = 0
    BY <1>14 DEF TypeOK, SweepBook, SweeperInFlight
  <2>2. /\ ledger'[Head(closed)]["approval_expired"] = ledger[Head(closed)]["approval_expired"] + 1
        /\ \A q \in Requests, f \in Events :
              q # Head(closed) \/ f # "approval_expired" => ledger'[q][f] = ledger[q][f]
    BY <1>14, <2>1, RecordCounts DEF TypeOK, SweepBook, Events
  <2>3. ledger[Head(closed)] \in [Events -> Nat]
    BY <2>1 DEF TypeOK
  <2>4. UNCHANGED <<approval, action>>
    BY <1>14 DEF SweepBook
  <2> QED BY <2>1, <2>2, <2>3, <2>4 DEF Events
<1>15. CASE ~Writes
  BY <1>15, OthersOnlyRead
<1> QED BY <1>1, <1>2, <1>3, <1>4, <1>5, <1>6, <1>7, <1>8, <1>9, <1>10, <1>11, <1>12, <1>13, <1>14, <1>15 DEF Writes

\* What the sweeper has at the head of its lists is a request.
LEMMA HeadsAreRequests ==
    ASSUME due \in Seq(Requests), closed \in Seq(Requests), SweeperInFlight
    PROVE  /\ wpc = "closing" => Head(due) \in Requests
           /\ wpc \in {"booking", "advancing"} =>
                 Head(closed) \in Requests /\ approval[Head(closed)] = "expired"
<1>1. wpc = "closing" => due # <<>>
  BY DEF SweeperInFlight
<1>2. wpc \in {"booking", "advancing"} => closed # <<>>
  BY DEF SweeperInFlight
<1>3. closed # <<>> => Head(closed) = closed[1] /\ 1 \in 1..Len(closed)
  OBVIOUS
<1>4. closed # <<>> => approval[Head(closed)] = "expired"
  BY <1>3 DEF SweeperInFlight
<1> QED BY <1>1, <1>2, <1>3, <1>4

\* Every step keeps the leases and memories earned.
LEMMA GrantStep == IInv /\ [Next]_vars => GrantsAreEarned'
<1> SUFFICES ASSUME IInv, [Next]_vars PROVE GrantsAreEarned'
  OBVIOUS
<1>t. ledger \in [Requests -> [Events -> Nat]]
  BY DEF IInv, TypeOK
<1> GrantsAreEarned
  BY DEF IInv
<1> USE DEF GrantsAreEarned, decisionVars, approvalVars
<1>1. ASSUME NEW r \in Requests, FailClosed(r) PROVE GrantsAreEarned'
  <2>1. \A q \in Requests, f \in Events : q # r \/ f # "error" => ledger'[q][f] = ledger[q][f]
    BY <1>1, <1>t, RecordCounts DEF FailClosed, Events
  <2>2. \A q \in Requests :
           /\ ledger'[q]["auto_allowed"] = ledger[q]["auto_allowed"]
           /\ ledger'[q]["user_allowed"] = ledger[q]["user_allowed"]
    BY <2>1 DEF Events
  <2>3. UNCHANGED <<lease, memory, decision, risk, action, approval>>
    BY <1>1 DEF FailClosed
  <2>4. lease \subseteq Requests /\ memory \subseteq Requests
    BY DEF IInv, TypeOK
  <2> QED BY <2>2, <2>3, <2>4
<1>2. ASSUME NEW r \in Requests, NEW v \in Verdicts \ {"none"}, NEW level \in RiskLevels, RecordDecision(r, v, level) PROVE GrantsAreEarned'
  <2>1. r \notin lease
    BY <1>2 DEF IInv, RecordDecision, HandlerInFlight, HandlerSound
  <2> QED BY <1>2, <2>1 DEF IInv, TypeOK, RecordDecision
<1>3. ASSUME NEW r \in Requests, BookDecision(r) PROVE GrantsAreEarned'
  <2>1. r \notin lease
    BY <1>3 DEF IInv, BookDecision, HandlerInFlight, HandlerSound
  <2> DEFINE e == IF decision[r] = "auto_allow" THEN "auto_allowed" ELSE "blocked"
  <2>2. e \in Events /\ Record(r, e)
    BY <1>3 DEF BookDecision, Events
  <2>3. \A q \in Requests, f \in Events : q # r \/ f # e => ledger'[q][f] = ledger[q][f]
    BY <2>1, <2>2, <1>t, RecordCounts
  <2>4. \A q \in Requests \ {r} :
           /\ ledger'[q]["auto_allowed"] = ledger[q]["auto_allowed"]
           /\ ledger'[q]["user_allowed"] = ledger[q]["user_allowed"]
    BY <2>3 DEF Events
  <2>5. UNCHANGED <<lease, memory, decision, risk, action, approval>>
    BY <1>3 DEF BookDecision
  <2>6. lease \subseteq Requests /\ memory \subseteq Requests
    BY DEF IInv, TypeOK
  <2> QED BY <2>1, <2>4, <2>5, <2>6
<1>4. ASSUME NEW r \in Requests, Open(r) PROVE GrantsAreEarned'
  <2>1. r \notin lease
    BY <1>4 DEF IInv, Open, HandlerInFlight, HandlerSound
  <2> QED BY <1>4, <2>1 DEF IInv, TypeOK, Open
<1>5. ASSUME NEW r \in Requests, Issue(r) PROVE GrantsAreEarned'
  <2>1. ledger[r]["auto_allowed"] = 1 /\ risk[r] # "high" /\ decision[r] = "auto_allow"
    BY <1>5 DEF IInv, Issue, HandlerInFlight, HandlerSound, RowsAgree, RowsFit
  <2> QED BY <1>5, <2>1 DEF Issue
<1>6. ASSUME NEW r \in Requests, Send(r) PROVE GrantsAreEarned'
  BY <1>6 DEF Send
<1>7. ASSUME NEW r \in Requests, RecordExecuted(r) PROVE GrantsAreEarned'
  <2>1. \A q \in Requests, f \in Events : q # r \/ f # "executed" => ledger'[q][f] = ledger[q][f]
    BY <1>7, <1>t, RecordCounts DEF RecordExecuted, Events
  <2>2. \A q \in Requests :
           /\ ledger'[q]["auto_allowed"] = ledger[q]["auto_allowed"]
           /\ ledger'[q]["user_allowed"] = ledger[q]["user_allowed"]
    BY <2>1 DEF Events
  <2>3. UNCHANGED <<lease, memory, decision, risk, action, approval>>
    BY <1>7 DEF RecordExecuted
  <2>4. lease \subseteq Requests /\ memory \subseteq Requests
    BY DEF IInv, TypeOK
  <2> QED BY <2>2, <2>3, <2>4
<1>8. ASSUME NEW r \in Requests, RecordFailed(r) PROVE GrantsAreEarned'
  <2>1. \A q \in Requests, f \in Events : q # r \/ f # "executed" => ledger'[q][f] = ledger[q][f]
    <3>1. CASE Record(r, "executed")
      BY <3>1, <1>t, RecordCounts DEF Events
    <3>2. CASE UNCHANGED ledger
      BY <3>2
    <3> QED BY <1>8, <3>1, <3>2 DEF RecordFailed
  <2>2. UNCHANGED <<lease, memory, decision, risk, action, approval>>
    BY <1>8 DEF RecordFailed
  <2>3. \A q \in Requests :
           /\ ledger'[q]["auto_allowed"] = ledger[q]["auto_allowed"]
           /\ ledger'[q]["user_allowed"] = ledger[q]["user_allowed"]
    BY <2>1 DEF Events
  <2>4. lease \subseteq Requests /\ memory \subseteq Requests
    BY DEF IInv, TypeOK
  <2> QED BY <2>2, <2>3, <2>4
<1>9. ASSUME NEW s \in Settlers, SettleWrite(s) PROVE GrantsAreEarned'
  <2>1. sub[s] \notin memory /\ sub[s] \in Requests
    BY <1>9 DEF IInv, SettleWrite, SettlersInFlight, SettlerSound
  <2> QED BY <1>9, <2>1 DEF IInv, TypeOK, SettleWrite
<1>10. ASSUME NEW s \in Settlers, SettleBook(s) PROVE GrantsAreEarned'
  <2>1. sub[s] \in Requests /\ Settlements(sub[s]) = 0 /\ decision[sub[s]] = "require_approval"
    BY <1>10 DEF IInv, SettlersInFlight, SettlerSound, RowsAgree, RowsFit, SettleBook
  <2> DEFINE e == IF Allows(act[s]) THEN "user_allowed" ELSE "user_denied"
  <2>2. e \in Events /\ Record(sub[s], e)
    BY <1>10 DEF SettleBook, Events
  <2>3. \A q \in Requests, f \in Events : q # sub[s] \/ f # e => ledger'[q][f] = ledger[q][f]
    BY <2>1, <2>2, <1>t, RecordCounts
  <2>4. \A q \in Requests \ {sub[s]} :
           /\ ledger'[q]["auto_allowed"] = ledger[q]["auto_allowed"]
           /\ ledger'[q]["user_allowed"] = ledger[q]["user_allowed"]
    BY <2>3 DEF Events
  <2>5. UNCHANGED <<lease, memory, decision, risk, action, approval>>
    BY <1>10 DEF SettleBook
  <2>6. ledger[sub[s]]["user_allowed"] = 0
    BY <2>1 DEF IInv, TypeOK, Events, Settlements
  <2>7. sub[s] \notin lease
    BY <2>1, <2>6
  <2>8. lease \subseteq Requests /\ memory \subseteq Requests
    BY DEF IInv, TypeOK
  <2> QED BY <2>4, <2>5, <2>7, <2>8
<1>11. ASSUME NEW s \in Settlers, SettleGrant(s) PROVE GrantsAreEarned'
  <2>1. /\ sub[s] \in Requests /\ decision[sub[s]] = "require_approval"
        /\ ledger[sub[s]]["user_allowed"] = 1
    BY <1>11 DEF IInv, SettlersInFlight, SettlerSound, RowsAgree, RowsFit, SettleGrant
  <2> QED BY <1>11, <2>1 DEF SettleGrant
<1>12. ASSUME NEW s \in Settlers, SettleLearn(s) PROVE GrantsAreEarned'
  <2>1. /\ sub[s] \in lease /\ action[sub[s]] = act[s] /\ Learns(act[s])
        /\ approval[sub[s]] = "approved"
    BY <1>12 DEF IInv, SettlersInFlight, SettlerSound, Owning, SettleLearn, Learns, Allows
  <2> QED BY <1>12, <2>1 DEF SettleLearn
<1>13. CASE SweepClose
  <2>a. due \in Seq(Requests) /\ closed \in Seq(Requests) /\ SweeperInFlight
    BY DEF IInv, TypeOK
  <2>1. Head(due) \in Requests /\ Head(due) \notin memory
    BY <1>13, <2>a, HeadsAreRequests DEF SweepClose
  <2> QED BY <1>13, <2>1 DEF IInv, TypeOK, SweepClose
<1>14. CASE SweepBook
  <2>a. due \in Seq(Requests) /\ closed \in Seq(Requests) /\ SweeperInFlight
    BY DEF IInv, TypeOK
  <2>1. Head(closed) \in Requests
    BY <1>14, <2>a, HeadsAreRequests DEF SweepBook
  <2>2. \A q \in Requests, f \in Events : q # Head(closed) \/ f # "approval_expired" => ledger'[q][f] = ledger[q][f]
    BY <1>14, <2>1, <1>t, RecordCounts DEF SweepBook, Events
  <2>3. \A q \in Requests :
           /\ ledger'[q]["auto_allowed"] = ledger[q]["auto_allowed"]
           /\ ledger'[q]["user_allowed"] = ledger[q]["user_allowed"]
    BY <2>2 DEF Events
  <2>4. UNCHANGED <<lease, memory, decision, risk, action, approval>>
    BY <1>14 DEF SweepBook
  <2>5. lease \subseteq Requests /\ memory \subseteq Requests
    BY DEF IInv, TypeOK
  <2> QED BY <2>3, <2>4, <2>5
<1>15. CASE ~Writes
  BY <1>15, OthersOnlyRead
<1> QED BY <1>1, <1>2, <1>3, <1>4, <1>5, <1>6, <1>7, <1>8, <1>9, <1>10, <1>11, <1>12, <1>13, <1>14, <1>15 DEF Writes

\* Every step keeps what was sent covered by an entry and a lease.
LEMMA SentStep == IInv /\ [Next]_vars => SentIsCovered'
<1> SUFFICES ASSUME IInv, [Next]_vars PROVE SentIsCovered'
  OBVIOUS
<1>t. ledger \in [Requests -> [Events -> Nat]]
  BY DEF IInv, TypeOK
<1> SentIsCovered
  BY DEF IInv
<1> USE DEF SentIsCovered, Basis, decisionVars, approvalVars
<1>1. ASSUME NEW r \in Requests, FailClosed(r) PROVE SentIsCovered'
  <2>1. \A q \in Requests, f \in Events : q # r \/ f # "error" => ledger'[q][f] = ledger[q][f]
    BY <1>1, <1>t, RecordCounts DEF FailClosed, Events
  <2>2. UNCHANGED <<lease, matched, sent>>
    BY <1>1 DEF FailClosed
  <2>3. \A q \in Requests :
           /\ ledger'[q]["auto_allowed"] = ledger[q]["auto_allowed"]
           /\ ledger'[q]["executed"] = ledger[q]["executed"]
    BY <2>1 DEF Events
  <2> QED BY <2>2, <2>3
<1>2. ASSUME NEW r \in Requests, NEW v \in Verdicts \ {"none"}, NEW level \in RiskLevels, RecordDecision(r, v, level) PROVE SentIsCovered'
  <2>1. r \notin sent
    BY <1>2 DEF IInv, RecordDecision, HandlerInFlight, HandlerSound
  <2> QED BY <1>2, <2>1 DEF IInv, TypeOK, RecordDecision
<1>3. ASSUME NEW r \in Requests, BookDecision(r) PROVE SentIsCovered'
  <2>1. r \notin sent
    BY <1>3 DEF IInv, BookDecision, HandlerInFlight, HandlerSound
  <2> DEFINE e == IF decision[r] = "auto_allow" THEN "auto_allowed" ELSE "blocked"
  <2>2. e \in Events /\ Record(r, e)
    BY <1>3 DEF BookDecision, Events
  <2>3. \A q \in Requests, f \in Events : q # r \/ f # e => ledger'[q][f] = ledger[q][f]
    BY <2>1, <2>2, <1>t, RecordCounts
  <2>4. \A q \in Requests \ {r} :
           /\ ledger'[q]["auto_allowed"] = ledger[q]["auto_allowed"]
           /\ ledger'[q]["executed"] = ledger[q]["executed"]
    BY <2>3 DEF Events
  <2>5. UNCHANGED <<lease, matched, sent>>
    BY <1>3 DEF BookDecision
  <2>6. ledger'[r]["executed"] = ledger[r]["executed"]
    BY <2>3 DEF Events
  <2> QED BY <2>1, <2>4, <2>5, <2>6
<1>4. ASSUME NEW r \in Requests, Open(r) PROVE SentIsCovered'
  BY <1>4 DEF Open
<1>5. ASSUME NEW r \in Requests, Issue(r) PROVE SentIsCovered'
  BY <1>5 DEF Issue
<1>6. ASSUME NEW r \in Requests, Send(r) PROVE SentIsCovered'
  <2>1. ledger[r]["auto_allowed"] = 1 /\ Basis(r) \in lease
    BY <1>6 DEF IInv, Send, HandlerInFlight, HandlerSound, GoingAhead
  <2>2. sent' \in {sent, sent \cup {r}}
    BY <1>6 DEF Send
  <2>3. UNCHANGED <<lease, matched, ledger>>
    BY <1>6 DEF Send
  <2> QED BY <2>1, <2>2, <2>3
<1>7. ASSUME NEW r \in Requests, RecordExecuted(r) PROVE SentIsCovered'
  <2>1. ledger[r]["executed"] = 0
    BY <1>7 DEF IInv, RecordExecuted, HandlerInFlight, HandlerSound
  <2>2. /\ ledger'[r]["executed"] = ledger[r]["executed"] + 1
        /\ \A q \in Requests, f \in Events :
              q # r \/ f # "executed" => ledger'[q][f] = ledger[q][f]
    BY <1>7, <1>t, RecordCounts DEF RecordExecuted, Events
  <2>3. UNCHANGED <<lease, matched, sent>>
    BY <1>7 DEF RecordExecuted
  <2>4. /\ \A q \in Requests : ledger'[q]["auto_allowed"] = ledger[q]["auto_allowed"]
        /\ \A q \in Requests \ {r} : ledger'[q]["executed"] = ledger[q]["executed"]
    BY <2>2 DEF Events
  <2> QED BY <2>1, <2>2, <2>3, <2>4
<1>8. ASSUME NEW r \in Requests, RecordFailed(r) PROVE SentIsCovered'
  <2>1. ledger[r]["executed"] = 0
    BY <1>8 DEF IInv, RecordFailed, HandlerInFlight, HandlerSound
  <2>2. UNCHANGED <<lease, matched, sent>>
    BY <1>8 DEF RecordFailed
  <2>3. CASE Record(r, "executed")
    <3>1. /\ ledger'[r]["executed"] = ledger[r]["executed"] + 1
          /\ \A q \in Requests, f \in Events :
                q # r \/ f # "executed" => ledger'[q][f] = ledger[q][f]
      BY <2>3, <1>t, RecordCounts DEF Events
    <3>2. /\ \A q \in Requests : ledger'[q]["auto_allowed"] = ledger[q]["auto_allowed"]
          /\ \A q \in Requests \ {r} : ledger'[q]["executed"] = ledger[q]["executed"]
      BY <3>1 DEF Events
    <3> QED BY <2>1, <2>2, <3>1, <3>2
  <2>4. CASE UNCHANGED ledger
    BY <2>2, <2>4
  <2> QED BY <1>8, <2>3, <2>4 DEF RecordFailed
<1>9. ASSUME NEW s \in Settlers, SettleWrite(s) PROVE SentIsCovered'
  BY <1>9 DEF SettleWrite
<1>10. ASSUME NEW s \in Settlers, SettleBook(s) PROVE SentIsCovered'
  <2>1. sub[s] \in Requests
    BY <1>10 DEF IInv, SettlersInFlight, SettlerSound, SettleBook
  <2> DEFINE e == IF Allows(act[s]) THEN "user_allowed" ELSE "user_denied"
  <2>2. e \in Events /\ Record(sub[s], e)
    BY <1>10 DEF SettleBook, Events
  <2>3. \A q \in Requests, f \in Events : q # sub[s] \/ f # e => ledger'[q][f] = ledger[q][f]
    BY <2>1, <2>2, <1>t, RecordCounts
  <2>4. \A q \in Requests :
           /\ ledger'[q]["auto_allowed"] = ledger[q]["auto_allowed"]
           /\ ledger'[q]["executed"] = ledger[q]["executed"]
    BY <2>3 DEF Events
  <2>5. UNCHANGED <<lease, matched, sent>>
    BY <1>10 DEF SettleBook
  <2> QED BY <2>4, <2>5
<1>11. ASSUME NEW s \in Settlers, SettleGrant(s) PROVE SentIsCovered'
  BY <1>11 DEF SettleGrant
<1>12. ASSUME NEW s \in Settlers, SettleLearn(s) PROVE SentIsCovered'
  BY <1>12 DEF SettleLearn
<1>13. CASE SweepClose
  BY <1>13 DEF SweepClose
<1>14. CASE SweepBook
  <2>a. due \in Seq(Requests) /\ closed \in Seq(Requests) /\ SweeperInFlight
    BY DEF IInv, TypeOK
  <2>1. Head(closed) \in Requests
    BY <1>14, <2>a, HeadsAreRequests DEF SweepBook
  <2>2. \A q \in Requests, f \in Events : q # Head(closed) \/ f # "approval_expired" => ledger'[q][f] = ledger[q][f]
    BY <1>14, <2>1, <1>t, RecordCounts DEF SweepBook, Events
  <2>3. \A q \in Requests :
           /\ ledger'[q]["auto_allowed"] = ledger[q]["auto_allowed"]
           /\ ledger'[q]["executed"] = ledger[q]["executed"]
    BY <2>2 DEF Events
  <2>4. UNCHANGED <<lease, matched, sent>>
    BY <1>14 DEF SweepBook
  <2> QED BY <2>3, <2>4
<1>15. CASE ~Writes
  BY <1>15, OthersOnlyRead
<1> QED BY <1>1, <1>2, <1>3, <1>4, <1>5, <1>6, <1>7, <1>8, <1>9, <1>10, <1>11, <1>12, <1>13, <1>14, <1>15 DEF Writes

\* Every step only adds, because each write to an approval is conditional on its being
\* open.
LEMMA AddStep == IInv /\ [Next]_vars => OnlyAdds
<1> SUFFICES ASSUME IInv, [Next]_vars PROVE OnlyAdds
  OBVIOUS
<1>t. ledger \in [Requests -> [Events -> Nat]]
  BY DEF IInv, TypeOK
<1> USE DEF OnlyAdds, decisionVars, approvalVars
<1>1. ASSUME NEW r \in Requests, FailClosed(r) PROVE OnlyAdds
  <2>1. "error" \in Events /\ Record(r, "error")
    BY <1>1 DEF FailClosed, Events
  <2>2. \A q \in Requests, f \in Events : ledger'[q][f] >= ledger[q][f]
    BY <2>1, <1>t, RecordCounts
  <2> QED BY <1>1, <2>2 DEF FailClosed
<1>2. ASSUME NEW r \in Requests, NEW v \in Verdicts \ {"none"}, NEW level \in RiskLevels, RecordDecision(r, v, level) PROVE OnlyAdds
  <2>1. \A q \in Requests, f \in Events : ledger[q][f] \in Nat
    BY DEF IInv, TypeOK
  <2> QED BY <1>2, <2>1 DEF RecordDecision
<1>3. ASSUME NEW r \in Requests, BookDecision(r) PROVE OnlyAdds
  <2> DEFINE e == IF decision[r] = "auto_allow" THEN "auto_allowed" ELSE "blocked"
  <2>1. e \in Events /\ Record(r, e)
    BY <1>3 DEF BookDecision, Events
  <2> HIDE DEF e
  <2>2. \A q \in Requests, f \in Events : ledger'[q][f] >= ledger[q][f]
    BY <2>1, <1>t, RecordCounts
  <2> QED BY <1>3, <2>2 DEF BookDecision
<1>4. ASSUME NEW r \in Requests, Open(r) PROVE OnlyAdds
  <2>1. \A q \in Requests, f \in Events : ledger[q][f] \in Nat
    BY DEF IInv, TypeOK
  <2>2. approval[r] = "none"
    BY <1>4 DEF IInv, Open, HandlerInFlight, HandlerSound
  <2> QED BY <1>4, <2>1, <2>2 DEF IInv, TypeOK, Open
<1>5. ASSUME NEW r \in Requests, Issue(r) PROVE OnlyAdds
  <2>1. \A q \in Requests, f \in Events : ledger[q][f] \in Nat
    BY DEF IInv, TypeOK
  <2> QED BY <1>5, <2>1 DEF Issue
<1>6. ASSUME NEW r \in Requests, Send(r) PROVE OnlyAdds
  <2>1. \A q \in Requests, f \in Events : ledger[q][f] \in Nat
    BY DEF IInv, TypeOK
  <2> QED BY <1>6, <2>1 DEF Send
<1>7. ASSUME NEW r \in Requests, RecordExecuted(r) PROVE OnlyAdds
  <2>1. "executed" \in Events /\ Record(r, "executed")
    BY <1>7 DEF RecordExecuted, Events
  <2>2. \A q \in Requests, f \in Events : ledger'[q][f] >= ledger[q][f]
    BY <2>1, <1>t, RecordCounts
  <2> QED BY <1>7, <2>2 DEF RecordExecuted
<1>8. ASSUME NEW r \in Requests, RecordFailed(r) PROVE OnlyAdds
  <2>1. \A q \in Requests, f \in Events : ledger'[q][f] >= ledger[q][f]
    <3>1. CASE Record(r, "executed")
      BY <3>1, <1>t, RecordCounts DEF Events
    <3>2. CASE UNCHANGED ledger
      <4>1. \A q \in Requests, f \in Events : ledger[q][f] \in Nat
        BY DEF IInv, TypeOK
      <4> QED BY <3>2, <4>1
    <3> QED BY <1>8, <3>1, <3>2 DEF RecordFailed
  <2> QED BY <1>8, <2>1 DEF RecordFailed
<1>9. ASSUME NEW s \in Settlers, SettleWrite(s) PROVE OnlyAdds
  <2>1. \A q \in Requests, f \in Events : ledger[q][f] \in Nat
    BY DEF IInv, TypeOK
  <2>2. sub[s] \in Requests /\ approval \in [Requests -> ApprovalStatuses]
        /\ action \in [Requests -> Actions \cup {"none"}]
    BY <1>9 DEF IInv, TypeOK, SettlersInFlight, SettlerSound, SettleWrite
  <2> QED BY <1>9, <2>1, <2>2 DEF SettleWrite
<1>10. ASSUME NEW s \in Settlers, SettleBook(s) PROVE OnlyAdds
  <2>1. sub[s] \in Requests
    BY <1>10 DEF IInv, SettlersInFlight, SettlerSound, SettleBook
  <2> DEFINE e == IF Allows(act[s]) THEN "user_allowed" ELSE "user_denied"
  <2>2. e \in Events /\ Record(sub[s], e)
    BY <1>10 DEF SettleBook, Events
  <2> HIDE DEF e
  <2>3. \A q \in Requests, f \in Events : ledger'[q][f] >= ledger[q][f]
    BY <2>1, <2>2, <1>t, RecordCounts
  <2> QED BY <1>10, <2>3 DEF SettleBook
<1>11. ASSUME NEW s \in Settlers, SettleGrant(s) PROVE OnlyAdds
  <2>1. \A q \in Requests, f \in Events : ledger[q][f] \in Nat
    BY DEF IInv, TypeOK
  <2> QED BY <1>11, <2>1 DEF SettleGrant
<1>12. ASSUME NEW s \in Settlers, SettleLearn(s) PROVE OnlyAdds
  <2>1. \A q \in Requests, f \in Events : ledger[q][f] \in Nat
    BY DEF IInv, TypeOK
  <2> QED BY <1>12, <2>1 DEF SettleLearn
<1>13. CASE SweepClose
  <2>1. \A q \in Requests, f \in Events : ledger[q][f] \in Nat
    BY DEF IInv, TypeOK
  <2>2. Head(due) \in Requests /\ approval \in [Requests -> ApprovalStatuses]
        /\ action \in [Requests -> Actions \cup {"none"}]
    <3>1. /\ due \in Seq(Requests) /\ closed \in Seq(Requests) /\ SweeperInFlight
          /\ approval \in [Requests -> ApprovalStatuses]
          /\ action \in [Requests -> Actions \cup {"none"}]
      BY DEF IInv, TypeOK
    <3> QED BY <1>13, <3>1, HeadsAreRequests DEF SweepClose
  <2> QED BY <1>13, <2>1, <2>2 DEF SweepClose
<1>14. CASE SweepBook
  <2>a. due \in Seq(Requests) /\ closed \in Seq(Requests) /\ SweeperInFlight
    BY DEF IInv, TypeOK
  <2>1. Head(closed) \in Requests
    BY <1>14, <2>a, HeadsAreRequests DEF SweepBook
  <2>2. "approval_expired" \in Events /\ Record(Head(closed), "approval_expired")
    BY <1>14 DEF SweepBook, Events
  <2>3. \A q \in Requests, f \in Events : ledger'[q][f] >= ledger[q][f]
    BY <2>1, <2>2, <1>t, RecordCounts
  <2> QED BY <1>14, <2>3 DEF SweepBook
<1>15. CASE ~Writes
  <2>1. \A q \in Requests, f \in Events : ledger[q][f] \in Nat
    BY DEF IInv, TypeOK
  <2> QED BY <1>15, <2>1, OthersOnlyRead
<1> QED BY <1>1, <1>2, <1>3, <1>4, <1>5, <1>6, <1>7, <1>8, <1>9, <1>10, <1>11, <1>12, <1>13, <1>14, <1>15 DEF Writes

\* The steps of the handler of r.
HandlerOf(r) == Submit(r) \/ Handler(r) \/ ExecuteStart(r) \/ HandlerFails(r)

\* Who writes which entry about r: its handler, the submission that settles its
\* approval, or the sweeper that closed it.
EntriesHaveWriters ==
    \A q \in Requests :
        /\ \/ HandlerOf(q)
           \/ /\ ledger'[q]["error"] = ledger[q]["error"]
              /\ ledger'[q]["auto_allowed"] = ledger[q]["auto_allowed"]
              /\ ledger'[q]["blocked"] = ledger[q]["blocked"]
              /\ ledger'[q]["executed"] = ledger[q]["executed"]
        /\ \/ \E t \in Settlers : SettleBook(t) /\ sub[t] = q
           \/ /\ ledger'[q]["user_allowed"] = ledger[q]["user_allowed"]
              /\ ledger'[q]["user_denied"] = ledger[q]["user_denied"]
        /\ \/ SweepBook /\ Head(closed) = q
           \/ ledger'[q]["approval_expired"] = ledger[q]["approval_expired"]

\* Every step writes only the entries that are its own.
LEMMA EntryStep == IInv /\ [Next]_vars => EntriesHaveWriters
<1> SUFFICES ASSUME IInv, [Next]_vars PROVE EntriesHaveWriters
  OBVIOUS
<1>t. ledger \in [Requests -> [Events -> Nat]]
  BY DEF IInv, TypeOK
<1> USE DEF EntriesHaveWriters
<1>1. ASSUME NEW r \in Requests, FailClosed(r) PROVE EntriesHaveWriters
  <2>1. "error" \in Events /\ Record(r, "error")
    BY <1>1 DEF FailClosed, Events
  <2>2. \A q \in Requests, f \in Events : q # r \/ f # "error" => ledger'[q][f] = ledger[q][f]
    BY <2>1, <1>t, RecordCounts
  <2> QED BY <1>1, <2>2 DEF Events, HandlerOf, Handler
<1>2. ASSUME NEW r \in Requests, NEW v \in Verdicts \ {"none"}, NEW level \in RiskLevels, RecordDecision(r, v, level) PROVE EntriesHaveWriters
  <2>1. UNCHANGED ledger
    BY <1>2 DEF RecordDecision
  <2> QED BY <2>1
<1>3. ASSUME NEW r \in Requests, BookDecision(r) PROVE EntriesHaveWriters
  <2> DEFINE e == IF decision[r] = "auto_allow" THEN "auto_allowed" ELSE "blocked"
  <2>1. e \in Events /\ Record(r, e)
    BY <1>3 DEF BookDecision, Events
  <2>2. \A q \in Requests, f \in Events : q # r \/ f # e => ledger'[q][f] = ledger[q][f]
    BY <2>1, <1>t, RecordCounts
  <2> QED BY <1>3, <2>2 DEF Events, HandlerOf, Handler
<1>4. ASSUME NEW r \in Requests, Open(r) PROVE EntriesHaveWriters
  <2>1. UNCHANGED ledger
    BY <1>4 DEF Open
  <2> QED BY <2>1
<1>5. ASSUME NEW r \in Requests, Issue(r) PROVE EntriesHaveWriters
  <2>1. UNCHANGED ledger
    BY <1>5 DEF Issue
  <2> QED BY <2>1
<1>6. ASSUME NEW r \in Requests, Send(r) PROVE EntriesHaveWriters
  <2>1. UNCHANGED ledger
    BY <1>6 DEF Send
  <2> QED BY <2>1
<1>7. ASSUME NEW r \in Requests, RecordExecuted(r) PROVE EntriesHaveWriters
  <2>1. "executed" \in Events /\ Record(r, "executed")
    BY <1>7 DEF RecordExecuted, Events
  <2>2. \A q \in Requests, f \in Events : q # r \/ f # "executed" => ledger'[q][f] = ledger[q][f]
    BY <2>1, <1>t, RecordCounts
  <2> QED BY <1>7, <2>2 DEF Events, HandlerOf, Handler
<1>8. ASSUME NEW r \in Requests, RecordFailed(r) PROVE EntriesHaveWriters
  <2>1. CASE Record(r, "executed")
    <3>1. \A q \in Requests, f \in Events : q # r \/ f # "executed" => ledger'[q][f] = ledger[q][f]
      BY <2>1, <1>t, RecordCounts DEF Events
    <3> QED BY <1>8, <3>1 DEF Events, HandlerOf, Handler
  <2>2. CASE UNCHANGED ledger
    BY <2>2
  <2> QED BY <1>8, <2>1, <2>2 DEF RecordFailed
<1>9. ASSUME NEW s \in Settlers, SettleWrite(s) PROVE EntriesHaveWriters
  <2>1. UNCHANGED ledger
    BY <1>9 DEF SettleWrite
  <2> QED BY <2>1
<1>10. ASSUME NEW s \in Settlers, SettleBook(s) PROVE EntriesHaveWriters
  <2>1. sub[s] \in Requests
    BY <1>10 DEF IInv, SettlersInFlight, SettlerSound, SettleBook
  <2> DEFINE e == IF Allows(act[s]) THEN "user_allowed" ELSE "user_denied"
  <2>2. e \in Events /\ Record(sub[s], e)
    BY <1>10 DEF SettleBook, Events
  <2>3. \A q \in Requests, f \in Events : q # sub[s] \/ f # e => ledger'[q][f] = ledger[q][f]
    BY <2>1, <2>2, <1>t, RecordCounts
  <2> QED BY <1>10, <2>3 DEF Events
<1>11. ASSUME NEW s \in Settlers, SettleGrant(s) PROVE EntriesHaveWriters
  <2>1. UNCHANGED ledger
    BY <1>11 DEF SettleGrant
  <2> QED BY <2>1
<1>12. ASSUME NEW s \in Settlers, SettleLearn(s) PROVE EntriesHaveWriters
  <2>1. UNCHANGED ledger
    BY <1>12 DEF SettleLearn
  <2> QED BY <2>1
<1>13. CASE SweepClose
  <2>1. UNCHANGED ledger
    BY <1>13 DEF SweepClose
  <2> QED BY <2>1
<1>14. CASE SweepBook
  <2>a. due \in Seq(Requests) /\ closed \in Seq(Requests) /\ SweeperInFlight
    BY DEF IInv, TypeOK
  <2>1. Head(closed) \in Requests
    BY <1>14, <2>a, HeadsAreRequests DEF SweepBook
  <2>2. "approval_expired" \in Events /\ Record(Head(closed), "approval_expired")
    BY <1>14 DEF SweepBook, Events
  <2>3. \A q \in Requests, f \in Events : q # Head(closed) \/ f # "approval_expired" => ledger'[q][f] = ledger[q][f]
    BY <2>1, <2>2, <1>t, RecordCounts
  <2> QED BY <1>14, <2>3 DEF Events
<1>15. CASE ~Writes
  <2>1. UNCHANGED ledger
    BY <1>15, OthersOnlyRead
  <2> QED BY <2>1
<1> QED BY <1>1, <1>2, <1>3, <1>4, <1>5, <1>6, <1>7, <1>8, <1>9, <1>10, <1>11, <1>12, <1>13, <1>14, <1>15 DEF Writes

\* What the other actors leave alone of r, and the ways in which they move it.
Apart(r) ==
    /\ hpc'[r] = hpc[r] /\ decision'[r] = decision[r] /\ risk'[r] = risk[r]
    /\ matched'[r] = matched[r]
    /\ r \in sent' <=> r \in sent
    /\ approval[r] = "none" => approval'[r] = "none" /\ (r \in lease' => r \in lease)
    /\ \/ request'[r] = request[r]
       \/ request[r] = "awaiting_approval" /\ request'[r] = "cancelled"
       \/ /\ request'[r] = "approved" /\ approval[r] = "approved"
          /\ r \in lease /\ (Learns(action[r]) => r \in memory)
       \/ /\ request'[r] = "rejected"
          /\ ledger[r]["user_denied"] + ledger[r]["approval_expired"] = 1

\* The other actors keep to that, unless the process dies.
LEMMA ApartStep ==
    ASSUME IInv, [Next]_vars, NEW r \in Requests, ~HandlerOf(r), ~Crash
    PROVE  Apart(r)
<1> USE DEF Apart, decisionVars, approvalVars, handlerVars
<1>1. /\ request \in [Requests -> RequestStatuses] /\ decision \in [Requests -> Verdicts]
      /\ risk \in [Requests -> Levels] /\ hpc \in [Requests -> HandlerSteps]
      /\ matched \in [Requests -> Requests \cup {NoRequest}]
      /\ approval \in [Requests -> ApprovalStatuses]
  BY DEF IInv, TypeOK
<1>2. ASSUME NEW q \in Requests, HandlerOf(q) PROVE Apart(r)
  <2>1. q # r
    BY <1>2
  <2> USE DEF HandlerGoes
  <2>2. CASE Submit(q) \/ ExecuteStart(q) \/ HandlerFails(q)
    BY <1>1, <2>1, <2>2 DEF Submit, ExecuteStart, HandlerFails, Advance
  <2>3. CASE FailClosed(q) \/ BookDecision(q) \/ Open(q) \/ ReuseLease(q) \/ Issue(q)
    BY <1>1, <2>1, <2>3 DEF FailClosed, BookDecision, Open, ReuseLease, Issue
  <2>4. ASSUME NEW v \in Verdicts \ {"none"}, NEW level \in RiskLevels, RecordDecision(q, v, level)
        PROVE  Apart(r)
    BY <1>1, <2>1, <2>4 DEF RecordDecision
  <2>5. CASE IssueRefused(q) \/ HandlerAdvance(q) \/ HandlerConflict(q)
    BY <1>1, <2>1, <2>5 DEF IssueRefused, HandlerAdvance, HandlerConflict, Advance
  <2>6. ASSUME NEW step \in {"sending", "failing"}, Use(q, step) PROVE Apart(r)
    BY <1>1, <2>1, <2>6 DEF Use
  <2>7. CASE Send(q) \/ RecordExecuted(q) \/ RecordFailed(q) \/ Abandon(q)
    BY <1>1, <2>1, <2>7 DEF Send, RecordExecuted, RecordFailed, Abandon, Advance
  <2>8. ASSUME NEW end \in {"succeeded", "failed"}, ExecuteEnd(q, end) PROVE Apart(r)
    BY <1>1, <2>1, <2>8 DEF ExecuteEnd, Advance
  <2> QED BY <1>2, <2>2, <2>3, <2>4, <2>5, <2>6, <2>7, <2>8 DEF HandlerOf, Handler
<1>3. ASSUME NEW q \in Requests, Cancel(q) PROVE Apart(r)
  BY <1>1, <1>3 DEF Cancel, Advance
<1>4. ASSUME NEW s \in Settlers, NEW q \in Requests, NEW a \in Submitted, SettleRead(s, q, a)
      PROVE  Apart(r)
  BY <1>4 DEF SettleRead
<1>5. ASSUME NEW s \in Settlers, Settler(s) \/ SettlerFails(s) PROVE Apart(r)
  <2>1. SettlerSound(s)
    BY DEF IInv, SettlersInFlight
  <2>2. CASE SettleWrite(s)
    BY <1>1, <2>1, <2>2 DEF SettleWrite, SettlerSound
  <2>3. CASE SettleGrant(s)
    BY <2>1, <2>3 DEF SettleGrant, SettlerSound
  <2>4. CASE SettleAdvance(s)
    <3>1. UNCHANGED <<hpc, decision, risk, matched, sent, approval, lease>>
      BY <2>4 DEF SettleAdvance
    <3>2. sub[s] \in Requests
      BY <2>1, <2>4 DEF SettleAdvance, SettlerSound
    <3>3. CASE sub[s] # r
      BY <1>1, <2>4, <3>1, <3>2, <3>3 DEF SettleAdvance, Advance
    <3>4. CASE sub[s] = r /\ Allows(act[s])
      BY <1>1, <2>1, <2>4, <3>1, <3>4 DEF SettleAdvance, Advance, SettlerSound, Owning
    <3>5. CASE sub[s] = r /\ ~Allows(act[s])
      <4>1. ledger[r]["user_denied"] = 1
        BY <2>1, <2>4, <3>5 DEF SettleAdvance, SettlerSound
      <4>2. ledger[r]["user_denied"] + ledger[r]["approval_expired"] = 1
        BY <4>1 DEF IInv, TypeOK, Events, LedgerAgrees, Settlements
      <4> QED BY <1>1, <2>4, <3>1, <3>5, <4>2 DEF SettleAdvance, Advance
    <3> QED BY <3>3, <3>4, <3>5
  <2>5. CASE SettleReplay(s) \/ SettleLook(s) \/ SettleBook(s) \/ SettleGrantRefused(s)
             \/ SettleLearn(s) \/ SettleAdvanceConflict(s) \/ SettlerFails(s)
    BY <2>5 DEF SettleReplay, SettleLook, SettleBook, SettleGrantRefused, SettleLearn,
       SettleAdvanceConflict, SettlerFails
  <2> QED BY <1>5, <2>2, <2>3, <2>4, <2>5 DEF Settler
<1>6. CASE SweepClose
  BY <1>1, <1>6 DEF SweepClose
<1>7. CASE SweepAdvance
  <2>1. UNCHANGED <<hpc, decision, risk, matched, sent, approval, lease>>
    BY <1>7 DEF SweepAdvance
  <2>2. Head(closed) \in Requests /\ ledger[Head(closed)]["approval_expired"] = 1
    <3>1. closed \in Seq(Requests) /\ SweeperInFlight
      BY DEF IInv, TypeOK
    <3> QED BY <1>7, <3>1 DEF SweeperInFlight, SweepAdvance
  <2>3. ledger[Head(closed)]["user_denied"] + ledger[Head(closed)]["approval_expired"] = 1
    <3>1. ledger[Head(closed)] \in [Events -> Nat] /\ Settlements(Head(closed)) <= 1
      BY <2>2 DEF IInv, TypeOK, LedgerAgrees
    <3> QED BY <2>2, <3>1 DEF Events, Settlements
  <2>4. request' = [request EXCEPT ![Head(closed)] = "rejected"]
    BY <1>7 DEF SweepAdvance, Advance
  <2> QED BY <1>1, <2>1, <2>2, <2>3, <2>4
<1>8. CASE SweepList \/ SweepConflict \/ SweepBook \/ SweepAdvanceConflict \/ SweeperFails
           \/ Tick \/ UNCHANGED vars
  BY <1>8 DEF SweepList, SweepConflict, SweepBook, SweepAdvanceConflict, SweeperFails, Tick, vars
<1> QED
  BY <1>2, <1>3, <1>4, <1>5, <1>6, <1>7, <1>8 DEF Next, HandlerOf, Sweeper

\* Every step leaves the rows of a request as its handler relies on them.
LEMMA HandlerStep == IInv /\ [Next]_vars => HandlerInFlight'
<1> SUFFICES ASSUME IInv, [Next]_vars, NEW r \in Requests PROVE HandlerSound(r)'
  BY DEF HandlerInFlight
<1> USE DEF Basis
<1>a. HandlerSound(r) /\ RowsFit(r)
  BY DEF IInv, HandlerInFlight, RowsAgree
<1>b. /\ decision \in [Requests -> Verdicts] /\ hpc \in [Requests -> HandlerSteps]
      /\ matched \in [Requests -> Requests \cup {NoRequest}]
      /\ approval \in [Requests -> ApprovalStatuses]
      /\ ledger \in [Requests -> [Events -> Nat]]
  BY DEF IInv, TypeOK
<1>1. CASE Crash
  BY <1>1, <1>a, <1>b DEF Crash, HandlerSound, GoingAhead, decisionVars, approvalVars
<1>2. CASE ~HandlerOf(r) /\ ~Crash
  <2>1. Apart(r)
    BY <1>2, ApartStep
  <2>2. lease \subseteq lease' /\ (approval[r] # "none" => approval'[r] # "none")
    BY AddStep DEF OnlyAdds
  <2>3. /\ ledger'[r]["error"] = ledger[r]["error"]
        /\ ledger'[r]["auto_allowed"] = ledger[r]["auto_allowed"]
        /\ ledger'[r]["blocked"] = ledger[r]["blocked"]
        /\ ledger'[r]["executed"] = ledger[r]["executed"]
    BY <1>2, EntryStep DEF EntriesHaveWriters
  <2>4. approval[r] = "none" => Unreported(r)'
    <3>1. SUFFICES ASSUME approval'[r] = "none" PROVE Unreported(r)'
      BY <2>1 DEF Apart
    <3>2. /\ ledger'[r]["user_allowed"] \in Nat /\ ledger'[r]["user_denied"] \in Nat
          /\ ledger'[r]["approval_expired"] \in Nat
      BY TypeStep DEF TypeOK, Events
    <3> QED BY <3>1, <3>2, LedgerStep DEF LedgerAgrees, Unreported
  <2>5. hpc[r] \in {"absent", "deciding", "booking"} => \A e \in Events : ledger'[r][e] = 0
    BY <1>a, <2>3, <2>4 DEF HandlerSound, Unreported, Events
  <2> QED BY <1>a, <2>1, <2>2, <2>3, <2>5 DEF Apart, HandlerSound, GoingAhead
<1>3. CASE Submit(r)
  BY <1>3, <1>a, <1>b DEF Submit, HandlerGoes, HandlerSound, GoingAhead, decisionVars,
     approvalVars
<1>4. CASE FailClosed(r)
  <2>1. ledger'[r]["error"] = 1 /\ ledger'[r]["executed"] = 0
    BY <1>4, <1>a, <1>b, RecordCounts DEF FailClosed, HandlerSound, Events
  <2> QED BY <1>4, <1>a, <1>b, <2>1 DEF FailClosed, HandlerGoes, HandlerSound, GoingAhead,
     decisionVars, approvalVars
<1>5. ASSUME NEW v \in Verdicts \ {"none"}, NEW level \in RiskLevels, RecordDecision(r, v, level)
      PROVE  HandlerSound(r)'
  BY <1>5, <1>a, <1>b DEF RecordDecision, HandlerGoes, HandlerSound, GoingAhead, approvalVars
<1>6. CASE BookDecision(r)
  <2> DEFINE e == IF decision[r] = "auto_allow" THEN "auto_allowed" ELSE "blocked"
  <2>1. e \in Events /\ Record(r, e) /\ ledger[r][e] = 0 /\ ledger[r]["executed"] = 0
    BY <1>6, <1>a DEF BookDecision, HandlerSound, Events
  <2>2. ledger'[r][e] = 1 /\ ledger'[r]["executed"] = 0
    <3> HIDE DEF e
    <3>1. e # "executed" /\ "executed" \in Events
      BY DEF e, Events
    <3> QED BY <1>b, <2>1, <3>1, RecordCounts
  <2>3. hpc'[r] = (IF decision[r] = "deny" THEN "advancing" ELSE "acting")
        /\ UNCHANGED <<decision, approval, lease, sent>>
    BY <1>6, <1>b DEF BookDecision, HandlerGoes, decisionVars, approvalVars
  <2>4. hpc[r] = "booking" /\ decision[r] \in Verdicts \ {"none"}
    BY <1>6, <1>a, <1>b DEF BookDecision, HandlerSound
  <2> QED BY <1>a, <2>2, <2>3, <2>4 DEF HandlerSound, GoingAhead, Verdicts
<1>7. CASE Open(r)
  BY <1>7, <1>a, <1>b DEF Open, HandlerGoes, HandlerSound, GoingAhead, decisionVars
<1>8. CASE ReuseLease(r)
  BY <1>8, <1>a, <1>b DEF ReuseLease, HandlerGoes, HandlerSound, GoingAhead, RowsFit,
     decisionVars, approvalVars
<1>9. CASE Issue(r)
  BY <1>9, <1>a, <1>b DEF Issue, HandlerGoes, HandlerSound, GoingAhead, decisionVars,
     approvalVars
<1>10. CASE IssueRefused(r) \/ HandlerConflict(r) \/ HandlerFails(r)
  <2>1. HandlerGoes(r, "done")
    BY <1>10 DEF IssueRefused, HandlerConflict, HandlerFails
  <2> QED BY <1>b, <2>1 DEF HandlerGoes, HandlerSound, GoingAhead
<1>11. CASE HandlerAdvance(r)
  BY <1>11, <1>a, <1>b DEF HandlerAdvance, HandlerGoes, HandlerSound, GoingAhead, decisionVars,
     approvalVars
<1>12. CASE ExecuteStart(r)
  BY <1>12, <1>a, <1>b DEF ExecuteStart, HandlerGoes, HandlerSound, GoingAhead, decisionVars,
     approvalVars
<1>13. ASSUME NEW step \in {"sending", "failing"}, Use(r, step) PROVE HandlerSound(r)'
  BY <1>13, <1>a, <1>b DEF Use, HandlerGoes, HandlerSound, GoingAhead, decisionVars,
     approvalVars
<1>14. CASE Send(r)
  <2>1. /\ hpc'[r] \in {"recording", "failing"} /\ (hpc'[r] = "recording" => r \in sent')
        /\ UNCHANGED <<decision, matched, approval, lease, ledger>>
    BY <1>14, <1>b DEF Send, HandlerGoes, decisionVars, approvalVars
  <2>2. hpc[r] = "sending"
    BY <1>14 DEF Send
  <2> QED BY <1>a, <2>1, <2>2 DEF HandlerSound, GoingAhead
<1>15. CASE RecordExecuted(r)
  <2>1. ledger'[r]["executed"] = 1 /\ ledger'[r]["auto_allowed"] = ledger[r]["auto_allowed"]
    BY <1>15, <1>a, <1>b, RecordCounts DEF RecordExecuted, HandlerSound, Events
  <2> QED BY <1>15, <1>a, <1>b, <2>1 DEF RecordExecuted, HandlerGoes, HandlerSound, GoingAhead,
     decisionVars, approvalVars
<1>16. ASSUME NEW end \in {"succeeded", "failed"}, ExecuteEnd(r, end) PROVE HandlerSound(r)'
  BY <1>16, <1>b DEF ExecuteEnd, HandlerGoes, HandlerSound, GoingAhead
<1>17. CASE RecordFailed(r)
  <2>1. ledger'[r]["auto_allowed"] = ledger[r]["auto_allowed"]
    <3>1. CASE Record(r, "executed")
      BY <1>b, <3>1, RecordCounts DEF Events
    <3>2. CASE UNCHANGED ledger
      BY <3>2
    <3> QED BY <1>17, <3>1, <3>2 DEF RecordFailed
  <2>2. hpc[r] = "failing" /\ hpc'[r] = "abandoning"
        /\ UNCHANGED <<decision, matched, approval, lease, sent>>
    BY <1>17, <1>b DEF RecordFailed, HandlerGoes, decisionVars, approvalVars
  <2> QED BY <1>a, <2>1, <2>2 DEF HandlerSound, GoingAhead
<1>18. CASE Abandon(r)
  BY <1>18, <1>b DEF Abandon, HandlerGoes, HandlerSound, GoingAhead
<1> QED
  BY <1>1, <1>2, <1>3, <1>4, <1>5, <1>6, <1>7, <1>8, <1>9, <1>10, <1>11, <1>12, <1>13, <1>14,
     <1>15, <1>16, <1>17, <1>18 DEF HandlerOf, Handler

\* Every step leaves the rows of a request fitting together.
LEMMA RowsStep == IInv /\ [Next]_vars => RowsAgree'
<1> SUFFICES ASSUME IInv, [Next]_vars, NEW r \in Requests PROVE RowsFit(r)'
  BY DEF RowsAgree
<1>a. HandlerSound(r) /\ RowsFit(r)
  BY DEF IInv, HandlerInFlight, RowsAgree
<1>b. /\ decision \in [Requests -> Verdicts] /\ hpc \in [Requests -> HandlerSteps]
      /\ matched \in [Requests -> Requests \cup {NoRequest}]
      /\ approval \in [Requests -> ApprovalStatuses]
      /\ request \in [Requests -> RequestStatuses] /\ risk \in [Requests -> Levels]
      /\ ledger \in [Requests -> [Events -> Nat]]
  BY DEF IInv, TypeOK
<1>1. CASE Crash
  BY <1>1, <1>a, <1>b DEF Crash, RowsFit, decisionVars, approvalVars
<1>2. CASE ~HandlerOf(r) /\ ~Crash
  <2>1. Apart(r)
    BY <1>2, ApartStep
  <2>2. /\ lease \subseteq lease' /\ (approval[r] # "none" => approval'[r] # "none")
        /\ approval[r] = "approved" => approval'[r] = "approved"
    BY AddStep DEF OnlyAdds
  <2>3. /\ ledger'[r]["error"] = ledger[r]["error"]
        /\ ledger'[r]["auto_allowed"] = ledger[r]["auto_allowed"]
        /\ ledger'[r]["blocked"] = ledger[r]["blocked"]
    BY <1>2, EntryStep DEF EntriesHaveWriters
  <2>4. approval[r] = "none" => request'[r] = request[r]
    <3>1. approval[r] = "none" => ledger[r]["user_denied"] + ledger[r]["approval_expired"] = 0
      BY NothingToReport DEF IInv, Unreported
    <3> QED BY <1>a, <2>1, <3>1 DEF Apart, RowsFit
  <2>5. CASE request'[r] = request[r]
    BY <1>a, <2>1, <2>2, <2>3, <2>5 DEF Apart, RowsFit
  <2>6. CASE request'[r] # request[r]
    <3>1. approval[r] # "none" /\ hpc[r] \notin {"absent", "deciding", "booking", "acting"}
      BY <1>a, <2>4, <2>6 DEF HandlerSound
    <3> QED BY <1>a, <2>1, <2>2, <2>3, <2>6, <3>1 DEF Apart, RowsFit
  <2> QED BY <2>5, <2>6
<1>3. CASE Submit(r)
  BY <1>3, <1>a, <1>b DEF Submit, HandlerGoes, HandlerSound, RowsFit, decisionVars, approvalVars
<1>4. CASE FailClosed(r)
  <2>1. ledger'[r]["error"] = 1 /\ ledger'[r]["auto_allowed"] = 0 /\ ledger'[r]["blocked"] = 0
    BY <1>4, <1>a, <1>b, RecordCounts DEF FailClosed, HandlerSound, Events
  <2> QED BY <1>4, <1>a, <1>b, <2>1 DEF FailClosed, HandlerGoes, HandlerSound, RowsFit,
     decisionVars, approvalVars
<1>5. ASSUME NEW v \in Verdicts \ {"none"}, NEW level \in RiskLevels, RecordDecision(r, v, level)
      PROVE  RowsFit(r)'
  <2>1. ledger[r]["error"] = 0 /\ ledger[r]["auto_allowed"] = 0 /\ ledger[r]["blocked"] = 0
    BY <1>5, <1>a DEF RecordDecision, HandlerSound, Events
  <2>2. level \in Levels
    BY SettlementAssumption
  <2>3. /\ decision'[r] = v /\ risk'[r] = level /\ (v = "auto_allow" => level # "high")
        /\ matched'[r] = NoRequest \/ matched'[r] \in lease
        /\ hpc[r] = "deciding" /\ hpc'[r] = "booking"
        /\ UNCHANGED <<request, approval, ledger, lease>>
    BY <1>5, <1>b, <2>2 DEF RecordDecision, HandlerGoes, approvalVars
  <2> QED BY <1>a, <2>1, <2>3 DEF HandlerSound, RowsFit
<1>6. CASE BookDecision(r)
  <2> DEFINE e == IF decision[r] = "auto_allow" THEN "auto_allowed" ELSE "blocked"
  <2>1. e \in Events /\ Record(r, e) /\ \A f \in Events : ledger[r][f] = 0
    BY <1>6, <1>a DEF BookDecision, HandlerSound, Events
  <2>2. ledger'[r][e] = 1 /\ \A f \in Events \ {e} : ledger'[r][f] = 0
    <3> HIDE DEF e
    <3> QED BY <1>b, <2>1, RecordCounts
  <2>3. hpc[r] = "booking" /\ hpc'[r] \in {"advancing", "acting"} /\ decision[r] \in Verdicts \ {"none"}
        /\ UNCHANGED <<decision, approval, lease, request, matched, risk>>
    BY <1>6, <1>a, <1>b DEF BookDecision, HandlerGoes, HandlerSound, decisionVars, approvalVars
  <2>4. /\ ledger'[r]["auto_allowed"] = IF decision[r] = "auto_allow" THEN 1 ELSE 0
        /\ ledger'[r]["blocked"] = IF decision[r] = "auto_allow" THEN 0 ELSE 1
        /\ ledger'[r]["error"] = 0
    BY <2>2 DEF Events
  <2> QED BY <1>a, <2>3, <2>4 DEF HandlerSound, RowsFit, Verdicts
<1>7. CASE Open(r)
  BY <1>7, <1>a, <1>b DEF Open, HandlerGoes, HandlerSound, RowsFit, decisionVars
<1>8. CASE ReuseLease(r) \/ Issue(r)
  BY <1>8, <1>a, <1>b DEF ReuseLease, Issue, HandlerGoes, HandlerSound, RowsFit,
     decisionVars, approvalVars
<1>9. CASE IssueRefused(r) \/ HandlerConflict(r) \/ HandlerFails(r)
  <2>1. /\ HandlerGoes(r, "done")
        /\ UNCHANGED <<request, decision, risk, matched, approval, ledger, lease>>
    BY <1>9 DEF IssueRefused, HandlerConflict, HandlerFails, decisionVars, approvalVars
  <2> QED BY <1>a, <1>b, <2>1 DEF HandlerGoes, RowsFit
<1>10. CASE HandlerAdvance(r)
  <2>1. /\ hpc[r] = "advancing" /\ hpc'[r] \in {"allowed", "done"}
        /\ request'[r] = NextStatus(decision[r])
        /\ UNCHANGED <<decision, risk, matched, approval, ledger, lease>>
    BY <1>10, <1>b DEF HandlerAdvance, Advance, HandlerGoes, decisionVars, approvalVars
  <2> QED BY <1>a, <1>b, <2>1 DEF HandlerSound, RowsFit, NextStatus, Verdicts
<1>11. CASE ExecuteStart(r)
  BY <1>11, <1>a, <1>b DEF ExecuteStart, Advance, HandlerGoes, RowsFit, decisionVars, approvalVars
<1>12. ASSUME NEW step \in {"sending", "failing"}, Use(r, step) PROVE RowsFit(r)'
  BY <1>12, <1>a, <1>b DEF Use, HandlerGoes, RowsFit, decisionVars, approvalVars
<1>13. CASE Send(r)
  <2>1. hpc'[r] \in {"recording", "failing"}
        /\ UNCHANGED <<request, decision, risk, matched, approval, ledger, lease>>
    BY <1>13, <1>b DEF Send, HandlerGoes, decisionVars, approvalVars
  <2> QED BY <1>a, <2>1 DEF RowsFit
<1>14. CASE RecordExecuted(r) \/ RecordFailed(r)
  <2>1. hpc'[r] \in {"closing", "abandoning"}
        /\ UNCHANGED <<request, decision, risk, matched, approval, lease>>
    BY <1>14, <1>b DEF RecordExecuted, RecordFailed, HandlerGoes, decisionVars, approvalVars
  <2>2. /\ ledger'[r]["error"] = ledger[r]["error"]
        /\ ledger'[r]["auto_allowed"] = ledger[r]["auto_allowed"]
        /\ ledger'[r]["blocked"] = ledger[r]["blocked"]
    <3>1. CASE Record(r, "executed")
      BY <1>b, <3>1, RecordCounts DEF Events
    <3>2. CASE UNCHANGED ledger
      BY <3>2
    <3> QED BY <1>14, <3>1, <3>2 DEF RecordExecuted, RecordFailed
  <2> QED BY <1>a, <2>1, <2>2 DEF RowsFit
<1>15. ASSUME NEW end \in {"succeeded", "failed"}, ExecuteEnd(r, end) PROVE RowsFit(r)'
  BY <1>15, <1>a, <1>b DEF ExecuteEnd, Advance, HandlerGoes, RowsFit, decisionVars, approvalVars
<1>16. CASE Abandon(r)
  BY <1>16, <1>a, <1>b DEF Abandon, Advance, HandlerGoes, RowsFit, decisionVars, approvalVars
<1> QED
  BY <1>1, <1>2, <1>3, <1>4, <1>5, <1>6, <1>7, <1>8, <1>9, <1>10, <1>11, <1>12, <1>13, <1>14,
     <1>15, <1>16 DEF HandlerOf, Handler

\* Every step leaves the status of a request earned.  Where a request stays, what
\* earned its status is never taken back; where it moves, its mover has just done it.
LEMMA StatusStep == IInv /\ [Next]_vars => StatusIsEarned'
<1> SUFFICES ASSUME IInv, [Next]_vars, NEW r \in Requests PROVE StatusEarned(r)'
  BY DEF StatusIsEarned
<1>a. HandlerSound(r) /\ RowsFit(r) /\ StatusEarned(r)
  BY DEF IInv, HandlerInFlight, RowsAgree, StatusIsEarned
<1>b. RowsFit(r)' /\ GrantsAreEarned' /\ SentIsCovered' /\ LedgerAgrees'
  BY RowsStep, GrantStep, SentStep, LedgerStep DEF RowsAgree
<1>c. /\ \A e \in Events : ledger[r][e] \in Nat /\ ledger'[r][e] \in Nat /\ ledger'[r][e] >= ledger[r][e]
      /\ lease \subseteq lease' /\ memory \subseteq memory' /\ sent \subseteq sent'
      /\ approval[r] = "approved" => action'[r] = action[r]
  <2>1. OnlyAdds
    BY AddStep
  <2>2. ledger \in [Requests -> [Events -> Nat]] /\ ledger' \in [Requests -> [Events -> Nat]]
    BY TypeStep DEF IInv, TypeOK
  <2> QED BY <2>1, <2>2 DEF OnlyAdds
<1>d. hpc \in [Requests -> HandlerSteps] /\ request \in [Requests -> RequestStatuses]
      /\ decision \in [Requests -> Verdicts]
  BY DEF IInv, TypeOK
<1> DEFINE Some(e) == ledger'[r][e] >= 1
<1> DEFINE Enough ==
               /\ request'[r] = "denied" => Some("blocked") \/ Some("error")
               /\ request'[r] = "approved" => r \in lease' /\ (Learns(action'[r]) => r \in memory')
               /\ request'[r] = "rejected" => Some("user_denied") \/ Some("approval_expired")
               /\ request'[r] \in {"auto_allowed", "executing"} => Some("auto_allowed")
               /\ request'[r] = "succeeded" => Some("executed") /\ r \in sent'
<1>1. SUFFICES Enough
  <2>1. /\ ledger'[r]["blocked"] \in Nat /\ ledger'[r]["error"] \in Nat
        /\ ledger'[r]["user_allowed"] \in Nat /\ ledger'[r]["user_denied"] \in Nat
        /\ ledger'[r]["approval_expired"] \in Nat
        /\ ledger'[r]["auto_allowed"] \in Nat /\ ledger'[r]["executed"] \in Nat
    BY <1>c DEF Events
  <2>2. request'[r] = "denied" =>
           ledger'[r]["blocked"] + ledger'[r]["error"] = 1 /\ r \notin lease'
    BY <1>1, <1>b, <2>1 DEF RowsFit, GrantsAreEarned
  <2>3. request'[r] = "rejected" =>
           ledger'[r]["user_denied"] + ledger'[r]["approval_expired"] = 1 /\ r \notin lease'
    <3> SUFFICES ASSUME request'[r] = "rejected"
                 PROVE  ledger'[r]["user_denied"] + ledger'[r]["approval_expired"] = 1
                        /\ r \notin lease'
      OBVIOUS
    <3>1. ledger'[r]["user_denied"] >= 1 \/ ledger'[r]["approval_expired"] >= 1
      BY <1>1
    <3>2. /\ ledger'[r]["user_allowed"] + ledger'[r]["user_denied"]
                + ledger'[r]["approval_expired"] <= 1
          /\ approval'[r] # "none"
      BY <1>b, <2>1, <3>1 DEF LedgerAgrees, Settlements
    <3>3. ledger'[r]["user_allowed"] = 0
          /\ ledger'[r]["user_denied"] + ledger'[r]["approval_expired"] = 1
      BY <2>1, <3>1, <3>2
    <3>4. decision'[r] = "require_approval"
      BY <1>b, <3>2 DEF RowsFit
    <3>5. r \notin lease'
      BY <1>b, <3>3, <3>4 DEF GrantsAreEarned
    <3> QED BY <3>3, <3>5
  <2>4. request'[r] \in {"auto_allowed", "executing"} => ledger'[r]["auto_allowed"] = 1
    BY <1>1, <1>b, <2>1 DEF RowsFit
  <2>5. request'[r] = "succeeded" => ledger'[r]["executed"] = 1 /\ r \in sent'
    BY <1>1, <1>b, <2>1 DEF SentIsCovered
  <2> QED BY <1>1, <2>2, <2>3, <2>4, <2>5 DEF StatusEarned
<1>e. /\ ledger[r]["blocked"] \in Nat /\ ledger[r]["error"] \in Nat
      /\ ledger[r]["user_denied"] \in Nat /\ ledger[r]["approval_expired"] \in Nat
      /\ ledger'[r]["blocked"] \in Nat /\ ledger'[r]["error"] \in Nat
      /\ ledger'[r]["user_denied"] \in Nat /\ ledger'[r]["approval_expired"] \in Nat
      /\ ledger'[r]["auto_allowed"] \in Nat /\ ledger'[r]["executed"] \in Nat
      /\ ledger'[r]["blocked"] >= ledger[r]["blocked"] /\ ledger'[r]["error"] >= ledger[r]["error"]
      /\ ledger'[r]["user_denied"] >= ledger[r]["user_denied"]
      /\ ledger'[r]["approval_expired"] >= ledger[r]["approval_expired"]
      /\ ledger'[r]["auto_allowed"] >= ledger[r]["auto_allowed"]
      /\ ledger'[r]["executed"] >= ledger[r]["executed"]
  BY <1>c DEF Events
<1>2. CASE request'[r] = request[r]
  BY <1>a, <1>c, <1>e, <1>2 DEF StatusEarned, RowsFit
<1>3. CASE ~HandlerOf(r) /\ ~Crash
  <2>1. Apart(r)
    BY <1>3, ApartStep
  <2> QED BY <1>2, <1>c, <1>e, <2>1 DEF Apart
<1>4. CASE HandlerAdvance(r)
  <2>1. hpc[r] = "advancing" /\ request'[r] = NextStatus(decision[r]) /\ decision[r] \in Verdicts
    BY <1>4, <1>d DEF HandlerAdvance, Advance
  <2> QED BY <1>a, <1>e, <2>1 DEF HandlerSound, NextStatus, Verdicts
<1>5. CASE ExecuteStart(r)
  <2>1. request[r] = "auto_allowed" /\ request'[r] = "executing"
    BY <1>5, <1>d DEF ExecuteStart, Advance
  <2> QED BY <1>a, <1>e, <2>1 DEF StatusEarned
<1>6. ASSUME NEW end \in {"succeeded", "failed"}, ExecuteEnd(r, end) PROVE Enough
  <2>1. hpc[r] = "closing" /\ request'[r] = end
    BY <1>6, <1>d DEF ExecuteEnd, Advance
  <2> QED BY <1>a, <1>c, <1>e, <2>1 DEF HandlerSound
<1>7. CASE Submit(r) \/ Abandon(r)
  <2>1. request'[r] \in {"received", "failed"}
    BY <1>7, <1>d DEF Submit, Abandon, Advance
  <2> QED BY <2>1
<1>8. CASE Crash
  BY <1>2, <1>8 DEF Crash
<1>9. CASE FailClosed(r) \/ BookDecision(r) \/ Open(r) \/ ReuseLease(r) \/ Issue(r)
           \/ IssueRefused(r) \/ HandlerConflict(r) \/ Send(r) \/ RecordExecuted(r)
           \/ RecordFailed(r) \/ HandlerFails(r)
  BY <1>2, <1>9 DEF FailClosed, BookDecision, Open, ReuseLease, Issue, IssueRefused,
     HandlerConflict, Send, RecordExecuted, RecordFailed, HandlerFails
<1>10. ASSUME NEW v \in Verdicts \ {"none"}, NEW level \in RiskLevels, RecordDecision(r, v, level)
       PROVE  Enough
  BY <1>2, <1>10 DEF RecordDecision
<1>11. ASSUME NEW step \in {"sending", "failing"}, Use(r, step) PROVE Enough
  BY <1>2, <1>11 DEF Use
<1> QED BY <1>3, <1>4, <1>5, <1>6, <1>7, <1>8, <1>9, <1>10, <1>11 DEF HandlerOf, Handler

\* Every step keeps what a round of the sweeper relies on.
LEMMA SweeperStep == IInv /\ [Next]_vars => SweeperInFlight'
<1> SUFFICES ASSUME IInv, [Next]_vars PROVE SweeperInFlight'
  OBVIOUS
<1> USE DEF SweeperInFlight
<1>a. SweeperInFlight /\ due \in Seq(Requests) /\ closed \in Seq(Requests)
      /\ approval \in [Requests -> ApprovalStatuses]
      /\ wpc \in {"idle", "closing", "booking", "advancing"}
  BY DEF IInv, TypeOK
<1>b. \A q \in Requests : approval[q] = "expired" => approval'[q] = "expired"
  BY AddStep DEF OnlyAdds
<1>c. ASSUME NEW q \in Requests, ~SweepBook \/ Head(closed) # q
      PROVE  ledger'[q]["approval_expired"] = ledger[q]["approval_expired"]
  BY <1>c, EntryStep DEF EntriesHaveWriters
<1>1. CASE UNCHANGED sweeperVars /\ ~SweepBook
  <2>1. UNCHANGED <<wpc, due, closed>>
    BY <1>1 DEF sweeperVars
  <2>2. \A i \in 1..Len(closed) : closed[i] \in Requests
    BY <1>a
  <2> QED BY <1>1, <1>a, <1>b, <1>c, <2>1, <2>2
<1>2. CASE SweeperReturns
  BY <1>2 DEF SweeperReturns
<1>3. CASE SweepList
  <2>1. PICK q \in OldestFirst(Overdue, SweepBatch) : q # <<>> /\ due' = q
    BY <1>3 DEF SweepList
  <2>2. wpc = "idle" /\ wpc' = "closing" /\ closed' = closed
    BY <1>3 DEF SweepList
  <2> QED BY <1>a, <2>1, <2>2
<1>4. CASE SweepClose
  <2>1. /\ wpc = "closing" /\ due # <<>> /\ Head(due) \in Requests /\ Tail(due) \in Seq(Requests)
        /\ approval[Head(due)] = "pending" /\ approval'[Head(due)] = "expired"
        /\ closed' = Append(closed, Head(due)) /\ due' = Tail(due)
        /\ wpc' = IF Tail(due) = <<>> THEN "booking" ELSE "closing"
    BY <1>4, <1>a DEF SweepClose, ApprovalStatuses
  <2>2. ledger[Head(due)]["approval_expired"] = 0
    BY <2>1, NothingToReport DEF IInv, Unreported
  <2>3. ~SweepBook
    BY <2>1 DEF SweepBook
  <2>4. /\ Len(closed') = Len(closed) + 1 /\ closed'[Len(closed) + 1] = Head(due)
        /\ \A i \in 1..Len(closed) : closed'[i] = closed[i] /\ closed[i] \in Requests
        /\ Len(closed) \in Nat
    BY <1>a, <2>1
  <2>5. \A i \in 1..Len(closed) : closed[i] # Head(due)
    BY <1>a, <2>1
  <2>6. \A i \in 1..Len(closed') :
           approval'[closed'[i]] = "expired" /\ ledger'[closed'[i]]["approval_expired"] = 0
    <3> SUFFICES ASSUME NEW i \in 1..Len(closed')
                 PROVE  /\ approval'[closed'[i]] = "expired"
                        /\ ledger'[closed'[i]]["approval_expired"] = 0
      OBVIOUS
    <3>1. CASE i = Len(closed) + 1
      BY <1>c, <2>1, <2>2, <2>3, <2>4, <3>1
    <3>2. CASE i \in 1..Len(closed)
      <4>1. closed[i] \in Requests /\ approval[closed[i]] = "expired"
            /\ ledger[closed[i]]["approval_expired"] = 0
        BY <1>a, <2>1, <2>4, <3>2
      <4> QED BY <1>b, <1>c, <2>3, <2>4, <3>2, <4>1
    <3> QED BY <2>4, <3>1, <3>2
  <2>7. \A i, j \in 1..Len(closed') : closed'[i] = closed'[j] => i = j
    BY <1>a, <2>4, <2>5
  <2>8. closed' # <<>>
    BY <2>4
  <2> QED BY <2>1, <2>6, <2>7, <2>8
<1>5. CASE SweepBook
  <2>1. /\ wpc = "booking" /\ wpc' = "advancing" /\ closed' = closed /\ due' = due
        /\ closed # <<>> /\ Head(closed) = closed[1] /\ closed[1] \in Requests
        /\ UNCHANGED approval
    BY <1>5, <1>a DEF SweepBook, approvalVars
  <2>2. ledger'[closed[1]]["approval_expired"] = 1
    <3>1. ledger[closed[1]]["approval_expired"] = 0
      BY <1>a, <2>1
    <3>2. Record(closed[1], "approval_expired") /\ "approval_expired" \in Events
      BY <1>5, <2>1 DEF SweepBook, Events
    <3>3. ledger \in [Requests -> [Events -> Nat]]
      BY DEF IInv, TypeOK
    <3>4. ledger'[closed[1]]["approval_expired"] = ledger[closed[1]]["approval_expired"] + 1
      BY <2>1, <3>2, <3>3, RecordCounts
    <3> QED BY <3>1, <3>4
  <2>3. \A i \in 1..Len(closed) : i # 1 => closed[i] # closed[1]
    BY <1>a, <2>1
  <2>4. \A i \in 1..Len(closed) : closed[i] \in Requests
    BY <1>a
  <2> QED BY <1>a, <1>c, <2>1, <2>2, <2>3, <2>4
<1>6. CASE SweepAdvance /\ Tail(closed) # <<>>
  <2>1. /\ wpc = "advancing" /\ wpc' = "booking" /\ closed' = Tail(closed) /\ due' = due
        /\ closed # <<>> /\ UNCHANGED <<approval, ledger>>
    BY <1>6, <1>a DEF SweepAdvance, approvalVars
  <2>2. /\ Len(closed') = Len(closed) - 1 /\ Len(closed) \in Nat
        /\ \A i \in 1..Len(closed') : i + 1 \in 1..Len(closed) /\ closed'[i] = closed[i + 1]
    BY <1>a, <2>1
  <2>3. \A i \in 1..Len(closed') :
           approval'[closed'[i]] = "expired" /\ ledger'[closed'[i]]["approval_expired"] = 0
    BY <1>a, <2>1, <2>2
  <2>4. ASSUME NEW i \in 1..Len(closed'), NEW j \in 1..Len(closed'), closed'[i] = closed'[j]
        PROVE  i = j
    <3>1. i + 1 \in 1..Len(closed) /\ j + 1 \in 1..Len(closed) /\ closed[i + 1] = closed[j + 1]
      BY <2>2, <2>4
    <3>2. i + 1 = j + 1
      BY <1>a, <3>1
    <3> QED BY <2>2, <3>2
  <2> QED BY <1>6, <1>a, <2>1, <2>3, <2>4
<1>7. CASE SweepAdvance /\ Tail(closed) = <<>>
  BY <1>2, <1>7 DEF SweepAdvance
<1>8. CASE SweepConflict \/ SweepAdvanceConflict \/ SweeperFails \/ Crash
  BY <1>2, <1>8 DEF SweepConflict, SweepAdvanceConflict, SweeperFails, Crash
<1>9. ASSUME NEW r \in Requests, HandlerOf(r) \/ Cancel(r) PROVE UNCHANGED sweeperVars
  BY <1>9 DEF HandlerOf, Handler, Submit, FailClosed, RecordDecision, BookDecision, Open,
     ReuseLease, Issue, IssueRefused, HandlerAdvance, HandlerConflict, ExecuteStart, Use, Send,
     RecordExecuted, ExecuteEnd, RecordFailed, Abandon, HandlerFails, Cancel
<1>10. ASSUME NEW s \in Settlers,
              \/ \E r \in Requests, a \in Submitted : SettleRead(s, r, a)
              \/ Settler(s)
              \/ SettlerFails(s)
       PROVE  UNCHANGED sweeperVars
  BY <1>10 DEF SettleRead, Settler, SettleWrite, SettleReplay, SettleLook, SettleBook, SettleGrant,
     SettleGrantRefused, SettleLearn, SettleAdvance, SettleAdvanceConflict, SettlerFails
<1>11. Tick \/ UNCHANGED vars => UNCHANGED sweeperVars
  BY DEF Tick, vars, sweeperVars
<1> QED
  BY <1>1, <1>3, <1>4, <1>5, <1>6, <1>7, <1>8, <1>9, <1>10, <1>11 DEF Next, HandlerOf, Sweeper

\* A submission whose own state a step leaves alone finds its rows as before: nobody
\* else owns the same approval, and nothing is taken back.
LEMMA SettlerKept ==
    ASSUME IInv, [Next]_vars, NEW s \in Settlers, spc'[s] = spc[s], sub'[s] = sub[s], act'[s] = act[s],
           \A t \in Settlers : SettleBook(t) => t # s
    PROVE  SettlerSound(s)'
<1>a. SettlerSound(s)
  BY DEF IInv, SettlersInFlight
<1>1. CASE spc[s] = "idle"
  BY <1>1 DEF SettlerSound, Owning
<1>2. CASE spc[s] # "idle"
  <2>1. sub[s] \in Requests /\ approval[sub[s]] # "none"
    BY <1>2, <1>a DEF SettlerSound
  <2>2. PICK r \in Requests : r = sub[s]
    BY <2>1
  <2>3. /\ approval'[r] # "none" /\ lease \subseteq lease' /\ memory \subseteq memory'
        /\ approval[r] \notin {"none", "pending"} =>
              approval'[r] = approval[r] /\ action'[r] = action[r]
    BY <2>1, <2>2, AddStep DEF OnlyAdds
  <2>4. risk'[r] = risk[r]
    <3>1. decision[r] = "require_approval" /\ hpc[r] # "deciding"
      BY <2>1, <2>2 DEF IInv, RowsAgree, RowsFit, HandlerInFlight, HandlerSound
    <3>2. risk \in [Requests -> Levels]
      BY DEF IInv, TypeOK
    <3>3. ASSUME NEW q \in Requests, NEW v \in Verdicts \ {"none"}, NEW level \in RiskLevels,
                 RecordDecision(q, v, level)
          PROVE  risk'[r] = risk[r]
      BY <3>1, <3>2, <3>3 DEF RecordDecision
    <3>4. CASE ~Writes
      BY <3>4, OthersOnlyRead
    <3>5. CASE Writes /\ ~\E q \in Requests, v \in Verdicts \ {"none"}, level \in RiskLevels :
                             RecordDecision(q, v, level)
      BY <3>5 DEF Writes, FailClosed, BookDecision, Open, Issue, Send, RecordExecuted,
         RecordFailed, SettleWrite, SettleBook, SettleGrant, SettleLearn, SweepClose, SweepBook,
         decisionVars
    <3> QED BY <3>3, <3>4, <3>5
  <2>5. CASE spc[s] \notin Owning
    BY <1>a, <2>2, <2>3, <2>4, <2>5 DEF SettlerSound, Owning
  <2>6. CASE spc[s] \in Owning
    <3>1. /\ action[r] = act[s] /\ approval[r] = IF Allows(act[s]) THEN "approved" ELSE "rejected"
      BY <1>a, <2>2, <2>6 DEF SettlerSound
    <3>2. ~\E t \in Settlers : SettleBook(t) /\ sub[t] = r
      BY <2>2, <2>6 DEF IInv, SettlersInFlight, Owning, SettleBook
    <3>3. ~(SweepBook /\ Head(closed) = r)
      <4>1. SweepBook => closed # <<>> /\ Head(closed) = closed[1] /\ 1 \in 1..Len(closed)
        BY DEF IInv, TypeOK, SweeperInFlight, SweepBook
      <4>2. SweepBook => approval[closed[1]] = "expired"
        BY <4>1 DEF IInv, SweeperInFlight
      <4> QED BY <3>1, <4>1, <4>2
    <3>4. /\ ledger'[r]["user_allowed"] = ledger[r]["user_allowed"]
          /\ ledger'[r]["user_denied"] = ledger[r]["user_denied"]
          /\ ledger'[r]["approval_expired"] = ledger[r]["approval_expired"]
      BY <3>2, <3>3, EntryStep DEF EntriesHaveWriters
    <3> QED BY <1>a, <2>2, <2>3, <2>4, <2>6, <3>1, <3>4 DEF SettlerSound, Owning, Settlements
  <2> QED BY <2>5, <2>6
<1> QED BY <1>1, <1>2

\* The step of one submission leaves the state of the others alone.
LEMMA OneSettlerMoves ==
    ASSUME IInv, NEW s \in Settlers,
           \/ \E r \in Requests, a \in Submitted : SettleRead(s, r, a)
           \/ Settler(s)
           \/ SettlerFails(s)
    PROVE  \A t \in Settlers \ {s} : spc'[t] = spc[t] /\ sub'[t] = sub[t] /\ act'[t] = act[t]
<1>1. spc \in [Settlers -> SettlerSteps] /\ sub \in [Settlers -> Requests \cup {NoRequest}]
      /\ act \in [Settlers -> Actions \cup {"none"}]
  BY DEF IInv, TypeOK
<1>2. ASSUME NEW r \in Requests, NEW a \in Submitted, SettleRead(s, r, a)
      PROVE  \A t \in Settlers \ {s} : spc'[t] = spc[t] /\ sub'[t] = sub[t] /\ act'[t] = act[t]
  BY <1>1, <1>2 DEF SettleRead
<1>3. CASE Settler(s) \/ SettlerFails(s)
  <2>1. SettlerReturns(s) \/ \E step \in SettlerSteps : SettlerGoes(s, step)
    BY <1>3 DEF Settler, SettlerFails, SettleWrite, SettleReplay, SettleLook, SettleBook,
       SettleGrant, SettleGrantRefused, SettleLearn, SettleAdvance, SettleAdvanceConflict,
       SettlerSteps
  <2> QED BY <1>1, <2>1 DEF SettlerReturns, SettlerGoes
<1> QED BY <1>2, <1>3

\* Every step keeps what a submission relies on.  The conditional update makes its
\* winner the only owner: whoever owned the approval before had already closed it.
LEMMA SettlerStep == IInv /\ [Next]_vars => SettlersInFlight'
<1> SUFFICES ASSUME IInv, [Next]_vars PROVE SettlersInFlight'
  OBVIOUS
<1>a. /\ spc \in [Settlers -> SettlerSteps] /\ sub \in [Settlers -> Requests \cup {NoRequest}]
      /\ act \in [Settlers -> Actions \cup {"none"}]
      /\ approval \in [Requests -> ApprovalStatuses]
      /\ action \in [Requests -> Actions \cup {"none"}]
      /\ ledger \in [Requests -> [Events -> Nat]]
  BY DEF IInv, TypeOK
<1>b. \A s, t \in Settlers : spc[s] \in Owning /\ spc[t] \in Owning /\ sub[s] = sub[t] => s = t
  BY DEF IInv, SettlersInFlight
<1>1. CASE UNCHANGED <<spc, sub, act>> /\ ~\E t \in Settlers : SettleBook(t)
  <2>1. \A s \in Settlers : SettlerSound(s)'
    BY <1>1, SettlerKept
  <2> QED BY <1>1, <1>b, <2>1 DEF SettlersInFlight
<1>2. CASE Crash
  BY <1>2 DEF Crash, SettlersInFlight, SettlerSound, Owning
<1>3. ASSUME NEW s \in Settlers,
             \/ \E r \in Requests, a \in Submitted : SettleRead(s, r, a)
             \/ Settler(s)
             \/ SettlerFails(s)
      PROVE  SettlersInFlight'
  <2>a. SettlerSound(s)
    BY DEF IInv, SettlersInFlight
  <2>b. \A t \in Settlers \ {s} : spc'[t] = spc[t] /\ sub'[t] = sub[t] /\ act'[t] = act[t]
    BY <1>3, OneSettlerMoves
  <2>c. \A t \in Settlers : SettleBook(t) => t = s
    <3> SUFFICES ASSUME NEW t \in Settlers, SettleBook(t), t # s PROVE FALSE
      OBVIOUS
    <3>1. spc[t] = "booking" /\ spc'[t] # "booking"
      BY <1>a DEF SettleBook, SettlerGoes
    <3> QED BY <2>b, <3>1
  <2>1. \A t \in Settlers \ {s} : SettlerSound(t)'
    BY <2>b, <2>c, SettlerKept
  <2>2. SUFFICES /\ SettlerSound(s)'
                 /\ spc'[s] \in Owning => \A t \in Settlers \ {s} :
                       spc[t] \in Owning => sub[t] # sub'[s]
    BY <1>b, <2>1, <2>2, <2>b DEF SettlersInFlight
  <2>3. ASSUME NEW r \in Requests, NEW a \in Submitted, SettleRead(s, r, a)
        PROVE  SettlerSound(s)' /\ spc'[s] \notin Owning
    BY <1>a, <2>3, SettlementAssumption DEF SettleRead, SettlerSound, Owning, decisionVars, approvalVars,
       Offered
  <2>4. CASE SettlerReturns(s)
    BY <1>a, <2>4 DEF SettlerReturns, SettlerSound, Owning
  <2>5. CASE SettleReplay(s) /\ SettlerGoes(s, "looking")
    <3>1. spc[s] = "settling" /\ spc'[s] = "looking" /\ UNCHANGED <<sub, act, approval, risk>>
      BY <1>a, <2>5 DEF SettleReplay, SettlerGoes, decisionVars, approvalVars
    <3> QED BY <2>a, <3>1 DEF SettlerSound, Owning
  <2>6. CASE SettleWrite(s)
    <3>1. /\ spc[s] = "settling" /\ spc'[s] = "booking" /\ sub[s] \in Requests
          /\ approval[sub[s]] = "pending" /\ action'[sub[s]] = act[s]
          /\ approval'[sub[s]] = IF Allows(act[s]) THEN "approved" ELSE "rejected"
          /\ UNCHANGED <<sub, act, risk, ledger>>
      BY <1>a, <2>6, <2>a DEF SettleWrite, SettlerGoes, SettlerSound, decisionVars
    <3>2. Settlements(sub[s]) = 0
      BY <3>1, NothingToReport DEF IInv, Unreported, Settlements
    <3>3. \A t \in Settlers : spc[t] \in Owning => approval[sub[t]] # "pending"
      BY DEF IInv, SettlersInFlight, SettlerSound
    <3> QED BY <2>a, <3>1, <3>2, <3>3 DEF SettlerSound, Owning, Settlements
  <2>7. CASE SettleBook(s)
    <3>1. /\ spc[s] = "booking" /\ sub[s] \in Requests /\ Settlements(sub[s]) = 0
          /\ spc'[s] = (IF Allows(act[s]) THEN "granting" ELSE "advancing")
          /\ UNCHANGED <<sub, act, risk, approval, action>>
      BY <1>a, <2>7, <2>a DEF SettleBook, SettlerGoes, SettlerSound, decisionVars, approvalVars
    <3> DEFINE e == IF Allows(act[s]) THEN "user_allowed" ELSE "user_denied"
    <3>2. e \in Events /\ Record(sub[s], e)
      BY <2>7 DEF SettleBook, Events
    <3>3. ledger[sub[s]][e] = 0
      <4>1. ledger[sub[s]] \in [Events -> Nat]
        BY <1>a, <3>1
      <4>2. /\ ledger[sub[s]]["user_allowed"] \in Nat /\ ledger[sub[s]]["user_denied"] \in Nat
            /\ ledger[sub[s]]["approval_expired"] \in Nat
        BY <4>1 DEF Events
      <4>3. ledger[sub[s]]["user_allowed"] = 0 /\ ledger[sub[s]]["user_denied"] = 0
        BY <3>1, <4>2 DEF Settlements
      <4> QED BY <4>3
    <3>4. ledger'[sub[s]][e] = 1
      <4> HIDE DEF e
      <4> QED BY <1>a, <3>1, <3>2, <3>3, RecordCounts
    <3>5. \A t \in Settlers \ {s} : spc[t] \in Owning => sub[t] # sub[s]
      BY <1>b, <3>1 DEF Owning
    <3> QED BY <2>a, <3>1, <3>4, <3>5 DEF SettlerSound, Owning
  <2>8. CASE SettleGrant(s)
    <3>1. /\ spc[s] = "granting" /\ sub[s] \in Requests /\ sub[s] \in lease'
          /\ spc'[s] = (IF Learns(act[s]) THEN "learning" ELSE "advancing")
          /\ UNCHANGED <<sub, act, risk, approval, action>>
      BY <1>a, <2>8, <2>a DEF SettleGrant, SettlerGoes, SettlerSound, decisionVars, approvalVars
    <3>2. \A t \in Settlers \ {s} : spc[t] \in Owning => sub[t] # sub[s]
      BY <1>b, <3>1 DEF Owning
    <3> QED BY <2>a, <3>1, <3>2 DEF SettlerSound, Owning
  <2>9. CASE SettleLearn(s)
    <3>1. /\ spc[s] = "learning" /\ sub[s] \in Requests /\ sub[s] \in memory'
          /\ spc'[s] = "advancing" /\ UNCHANGED <<sub, act, risk, approval, action, lease>>
      BY <1>a, <2>9, <2>a DEF SettleLearn, SettlerGoes, SettlerSound, decisionVars, approvalVars
    <3>2. \A t \in Settlers \ {s} : spc[t] \in Owning => sub[t] # sub[s]
      BY <1>b, <3>1 DEF Owning
    <3> QED BY <2>a, <3>1, <3>2 DEF SettlerSound, Owning, Learns, Allows
  <2>10. CASE Settler(s) \/ SettlerFails(s)
    BY <2>4, <2>5, <2>6, <2>7, <2>8, <2>9, <2>10 DEF Settler, SettlerFails, SettleReplay, SettleLook,
       SettleGrantRefused, SettleAdvance, SettleAdvanceConflict
  <2> QED BY <1>3, <2>3, <2>10
<1>4. ASSUME NEW r \in Requests, HandlerOf(r) \/ Cancel(r) PROVE UNCHANGED settlerVars
  BY <1>4 DEF HandlerOf, Handler, Submit, FailClosed, RecordDecision, BookDecision, Open,
     ReuseLease, Issue, IssueRefused, HandlerAdvance, HandlerConflict, ExecuteStart, Use, Send,
     RecordExecuted, ExecuteEnd, RecordFailed, Abandon, HandlerFails, Cancel
<1>5. Sweeper \/ SweeperFails \/ Tick \/ UNCHANGED vars => UNCHANGED settlerVars
  BY DEF Sweeper, SweepList, SweepClose, SweepConflict, SweepBook, SweepAdvance,
     SweepAdvanceConflict, SweeperFails, Tick, vars, settlerVars
<1>6. UNCHANGED settlerVars => UNCHANGED <<spc, sub, act>> /\ ~\E t \in Settlers : SettleBook(t)
  BY <1>a DEF settlerVars, SettleBook, SettlerGoes
<1> QED BY <1>1, <1>2, <1>3, <1>4, <1>5, <1>6 DEF Next, HandlerOf

\* The inductive invariant holds of every behaviour.
LEMMA Inductive == Spec => []IInv
<1>1. Init => IInv
  <2> SUFFICES ASSUME Init PROVE IInv
    OBVIOUS
  <2> USE DEF Init
  <2>1. TypeOK
    BY DEF TypeOK, RequestStatuses, Verdicts, Levels, ApprovalStatuses, Actions, Events,
       HandlerSteps, SettlerSteps
  <2>2. HandlerInFlight /\ RowsAgree /\ StatusIsEarned
    BY DEF HandlerInFlight, HandlerSound, GoingAhead, RowsAgree, RowsFit, StatusIsEarned,
       StatusEarned, Events
  <2>3. SettlersInFlight /\ SweeperInFlight
    BY DEF SettlersInFlight, SettlerSound, Owning, SweeperInFlight
  <2>4. LedgerAgrees /\ GrantsAreEarned /\ SentIsCovered
    BY DEF LedgerAgrees, Settlements, GrantsAreEarned, SentIsCovered, Events
  <2> QED BY <2>1, <2>2, <2>3, <2>4 DEF IInv
<1>2. IInv /\ [Next]_vars => IInv'
  BY TypeStep, HandlerStep, SettlerStep, SweeperStep, RowsStep, LedgerStep, GrantStep, StatusStep,
     SentStep DEF IInv
<1> QED BY <1>1, <1>2, PTL DEF Spec

\* The pipeline, the approvals, the sweeper and the executions keep their types.
THEOREM SettlementTypeCorrect == Spec => []TypeOK
<1>1. IInv => TypeOK
  BY DEF IInv
<1> QED BY <1>1, Inductive, PTL

\* However many submissions race with each other and with the sweeper, an approval
\* is reported at most once, and truly.
THEOREM OneReportPerApproval == Spec => []LedgerAgrees
<1>1. IInv => LedgerAgrees
  BY DEF IInv
<1> QED BY <1>1, Inductive, PTL

\* No lease without the entry that allows it, no memory without the human who asked
\* for it and none at high risk; and the status of a request never claims more than
\* happened, wherever calls fail and whenever the process dies.
THEOREM OutcomesAreEarned == Spec => []EarnedOutcome
<1>1. IInv => EarnedOutcome
  BY DEF IInv, EarnedOutcome
<1> QED BY <1>1, Inductive, PTL

\* Whatever the other calls do between two of its statements, a handler, a
\* submission or a round of the sweeper finds its earlier ones still standing.
THEOREM CallsInFlightAreSound == Spec => []InFlight
<1>1. IInv => InFlight
  BY DEF IInv, InFlight
<1> QED BY <1>1, Inductive, PTL

\* Nothing is sent to the outside without an entry that allows it and a lease.
THEOREM NothingGoesOutUncovered == Spec => []SentIsCovered
<1>1. IInv => SentIsCovered
  BY DEF IInv
<1> QED BY <1>1, Inductive, PTL

\* No step takes back an entry, a lease, a memory or the verdict on an approval.
THEOREM VerdictsStand == Spec => NothingIsTakenBack
<1>1. IInv /\ [Next]_vars => [OnlyAdds]_vars
  BY AddStep
<1> QED BY <1>1, Inductive, PTL DEF Spec, NothingIsTakenBack

(***************************************************************************)
(* Settlement implements Verdict.                                          *)
(***************************************************************************)

\* A step after which q looks the same to Verdict.
Same(q) == VerdictOf(q)' = VerdictOf(q) /\ EntriesOf(q)' = EntriesOf(q)

\* A request whose rows are left alone looks the same; an execution does not show.
LEMMA SameRows ==
    ASSUME NEW q \in Requests, decision'[q] = decision[q], approval'[q] = approval[q],
           \A e \in Events \ {"executed"} : ledger'[q][e] = ledger[q][e]
    PROVE  Same(q)
BY DEF Same, VerdictOf, EntriesOf, Settlements, Events

\* One more entry about r changes nothing for the others, and for r it counts if
\* it reports the verdict on r.
LEMMA EntryView ==
    ASSUME TypeOK, NEW r \in Requests, NEW e \in Events, Record(r, e),
           UNCHANGED <<decision, approval>>
    PROVE  /\ \A q \in Requests \ {r} : Same(q)
           /\ e = "executed" \/ (e = "blocked" /\ decision[r] # "deny") => Same(r)
           /\ e # "executed" /\ (e = "blocked" => decision[r] = "deny") =>
                 EntriesOf(r)' = EntriesOf(r) + 1
           /\ e # "error" => VerdictOf(r)' = VerdictOf(r)
<1>1. /\ ledger'[r][e] = ledger[r][e] + 1
      /\ \A q \in Requests, f \in Events : q # r \/ f # e => ledger'[q][f] = ledger[q][f]
  BY RecordCounts DEF TypeOK
<1>2. \A q \in Requests \ {r} : Same(q)
  BY <1>1, SameRows
<1>3. /\ ledger[r]["error"] \in Nat /\ ledger[r]["auto_allowed"] \in Nat
      /\ ledger[r]["blocked"] \in Nat /\ ledger[r]["user_allowed"] \in Nat
      /\ ledger[r]["user_denied"] \in Nat /\ ledger[r]["approval_expired"] \in Nat
  BY DEF TypeOK, Events
<1>4. \A f \in Events : f # e => ledger'[r][f] = ledger[r][f]
  BY <1>1
<1>5. CASE e = "executed"
  BY <1>2, <1>4, <1>5, SameRows DEF Same
<1>6. CASE e = "blocked"
  <2>1. /\ ledger'[r]["error"] = ledger[r]["error"]
        /\ ledger'[r]["auto_allowed"] = ledger[r]["auto_allowed"]
        /\ ledger'[r]["user_allowed"] = ledger[r]["user_allowed"]
        /\ ledger'[r]["user_denied"] = ledger[r]["user_denied"]
        /\ ledger'[r]["approval_expired"] = ledger[r]["approval_expired"]
        /\ ledger'[r]["blocked"] = ledger[r]["blocked"] + 1
    BY <1>1, <1>4, <1>6 DEF Events
  <2>2. VerdictOf(r)' = VerdictOf(r)
    BY <2>1 DEF VerdictOf
  <2>3. EntriesOf(r)' = EntriesOf(r) + (IF decision[r] = "deny" THEN 1 ELSE 0)
    BY <1>3, <2>1 DEF EntriesOf, Settlements
  <2>4. EntriesOf(r) \in Nat
    BY <1>3 DEF EntriesOf, Settlements
  <2> QED BY <1>2, <1>6, <2>2, <2>3, <2>4 DEF Same
<1>7. CASE e \in {"error", "auto_allowed", "user_allowed", "user_denied", "approval_expired"}
  <2>1. ledger'[r]["blocked"] = ledger[r]["blocked"]
    BY <1>4, <1>7 DEF Events
  <2>2. e # "error" => ledger'[r]["error"] = ledger[r]["error"]
    BY <1>4 DEF Events
  <2>3. ledger'[r]["error"] + ledger'[r]["auto_allowed"] + ledger'[r]["user_allowed"]
          + ledger'[r]["user_denied"] + ledger'[r]["approval_expired"] =
        ledger[r]["error"] + ledger[r]["auto_allowed"] + ledger[r]["user_allowed"]
          + ledger[r]["user_denied"] + ledger[r]["approval_expired"] + 1
    <3>1. \A f \in {"error", "auto_allowed", "user_allowed", "user_denied", "approval_expired"} :
             ledger'[r][f] = IF f = e THEN ledger[r][f] + 1 ELSE ledger[r][f]
      BY <1>1, <1>4 DEF Events
    <3> QED BY <1>3, <1>7, <3>1
  <2>4. EntriesOf(r)' = EntriesOf(r) + 1
    <3>1. \A f \in {"error", "auto_allowed", "user_allowed", "user_denied", "approval_expired"} :
             ledger'[r][f] \in Nat
      BY <1>1, <1>3, <1>4, <1>7 DEF Events
    <3> QED BY <1>3, <2>1, <2>3, <3>1 DEF EntriesOf, Settlements
  <2>5. e # "error" => VerdictOf(r)' = VerdictOf(r)
    BY <2>2 DEF VerdictOf
  <2> QED BY <1>2, <1>7, <2>4, <2>5
<1> QED BY <1>5, <1>6, <1>7 DEF Events

\* A step that no request looks different after, and that grants and sends
\* nothing, is a stutter of Verdict.
LEMMA Stutters ==
    ASSUME \A q \in Requests : Same(q), UNCHANGED <<lease, sent>>
    PROVE  UNCHANGED Promise!vars
BY DEF Same, Promise!vars

\* A step that settles an open verdict on r is Verdict's Decide.
LEMMA Decides ==
    ASSUME NEW r \in Requests, \A q \in Requests \ {r} : Same(q), UNCHANGED <<lease, sent>>,
           VerdictOf(r) = "open", VerdictOf(r)' \in {"allowed", "refused"},
           EntriesOf(r)' = EntriesOf(r)
    PROVE  Promise!Next
<1>1. Promise!Decide(r)
  BY DEF Same, Promise!Decide
<1> QED BY <1>1 DEF Promise!Next

\* The entry that reports the verdict on r is Verdict's Book.
LEMMA Books ==
    ASSUME NEW r \in Requests, \A q \in Requests \ {r} : Same(q), UNCHANGED <<lease, sent>>,
           VerdictOf(r) # "open", VerdictOf(r)' = VerdictOf(r),
           EntriesOf(r) = 0, EntriesOf(r)' = 1
    PROVE  Promise!Next
<1>1. Promise!Book(r)
  BY DEF Same, Promise!Book
<1> QED BY <1>1 DEF Promise!Next

\* The entry about a request that could not be read is Verdict's RefuseUnread.
LEMMA Refuses ==
    ASSUME NEW r \in Requests, \A q \in Requests \ {r} : Same(q), UNCHANGED <<lease, sent>>,
           VerdictOf(r) = "open", VerdictOf(r)' = "refused",
           EntriesOf(r) = 0, EntriesOf(r)' = 1
    PROVE  Promise!Next
<1>1. Promise!RefuseUnread(r)
  BY DEF Same, Promise!RefuseUnread
<1> QED BY <1>1 DEF Promise!Next

\* A lease for r, whose approval is in the ledger, is Verdict's Grant.
LEMMA Grants ==
    ASSUME NEW r \in Requests, \A q \in Requests : Same(q), sent' = sent,
           r \notin lease, lease' = lease \cup {r}, VerdictOf(r) = "allowed", EntriesOf(r) = 1
    PROVE  Promise!Next
<1>1. Promise!Grant(r)
  BY DEF Same, Promise!Grant
<1> QED BY <1>1 DEF Promise!Next

\* Sending r under the lease of p is Verdict's Execute.
LEMMA Executes ==
    ASSUME NEW r \in Requests, NEW p \in Requests, \A q \in Requests : Same(q), lease' = lease,
           r \notin sent, sent' = sent \cup {r}, p \in lease,
           VerdictOf(r) = "allowed", EntriesOf(r) = 1
    PROVE  Promise!Next
<1>1. Promise!Execute(r, p)
  BY DEF Same, Promise!Execute
<1> QED BY <1>1 DEF Promise!Next

\* How often the verdict on a request is in the ledger, by the kind of verdict.
LEMMA EntriesOfKinds ==
    ASSUME IInv, NEW r \in Requests
    PROVE  /\ decision[r] = "none" => EntriesOf(r) = ledger[r]["error"]
           /\ decision[r] = "auto_allow" => EntriesOf(r) = ledger[r]["auto_allowed"]
           /\ decision[r] = "deny" => EntriesOf(r) = ledger[r]["blocked"]
           /\ decision[r] = "require_approval" => EntriesOf(r) = Settlements(r)
           /\ decision[r] # "none" => ledger[r]["error"] = 0
           /\ decision[r] # "require_approval" => approval[r] = "none"
<1>1. /\ ledger[r]["error"] \in Nat /\ ledger[r]["auto_allowed"] \in Nat
      /\ ledger[r]["blocked"] \in Nat /\ ledger[r]["user_allowed"] \in Nat
      /\ ledger[r]["user_denied"] \in Nat /\ ledger[r]["approval_expired"] \in Nat
  BY DEF IInv, TypeOK, Events
<1>2. RowsFit(r)
  BY DEF IInv, RowsAgree
<1>3. approval[r] = "none" => Unreported(r)
  BY NothingToReport DEF IInv
<1>4. decision[r] # "require_approval" => Settlements(r) = 0
  BY <1>2, <1>3 DEF RowsFit, Unreported, Settlements
<1> QED BY <1>1, <1>2, <1>4 DEF RowsFit, EntriesOf, Settlements

\* Closing a pending approval is Verdict's Decide, whoever closes it.
LEMMA Closes ==
    ASSUME IInv, NEW r \in Requests, approval[r] = "pending",
           approval'[r] \in {"approved", "rejected", "expired"},
           \A q \in Requests \ {r} : approval'[q] = approval[q],
           UNCHANGED <<decision, ledger, lease, sent>>
    PROVE  Promise!Next
<1>1. decision[r] = "require_approval" /\ ledger[r]["error"] = 0
  <2>1. RowsFit(r)
    BY DEF IInv, RowsAgree
  <2> QED BY <2>1, EntriesOfKinds DEF RowsFit
<1>2. \A q \in Requests \ {r} : Same(q)
  BY SameRows
<1>3. VerdictOf(r) = "open" /\ VerdictOf(r)' \in {"allowed", "refused"}
  BY <1>1 DEF VerdictOf
<1>4. EntriesOf(r)' = EntriesOf(r)
  BY DEF EntriesOf, Settlements
<1> QED BY <1>2, <1>3, <1>4, Decides

\* The first report of a settled approval is Verdict's Book.
LEMMA Reports ==
    ASSUME IInv, NEW r \in Requests, approval[r] \in {"approved", "rejected", "expired"},
           Settlements(r) = 0, NEW e \in {"user_allowed", "user_denied", "approval_expired"},
           Record(r, e), UNCHANGED <<decision, approval, lease, sent>>
    PROVE  Promise!Next
<1>1. decision[r] = "require_approval" /\ TypeOK
  BY DEF IInv, RowsAgree, RowsFit
<1>2. VerdictOf(r) # "open"
  BY DEF VerdictOf
<1>3. EntriesOf(r) = 0
  BY <1>1, EntriesOfKinds
<1>4. /\ \A q \in Requests \ {r} : Same(q)
      /\ VerdictOf(r)' = VerdictOf(r) /\ EntriesOf(r)' = EntriesOf(r) + 1
  <2>1. e \in Events /\ e \notin {"executed", "error", "blocked"}
    BY DEF Events
  <2> QED BY <1>1, <2>1, EntryView
<1> QED BY <1>2, <1>3, <1>4, Books

\* Every step is a step of Verdict or changes nothing Verdict can see.
LEMMA PromiseStep == IInv /\ [Next]_vars => [Promise!Next]_(Promise!vars)
<1> SUFFICES ASSUME IInv, [Next]_vars PROVE [Promise!Next]_(Promise!vars)
  OBVIOUS
<1> USE DEF decisionVars, approvalVars
<1>a. TypeOK /\ (\A r \in Requests : HandlerSound(r) /\ RowsFit(r))
  BY DEF IInv, HandlerInFlight, RowsAgree
<1>1. ASSUME NEW r \in Requests, FailClosed(r) PROVE Promise!Next
  <2>1. /\ decision[r] = "none" /\ approval[r] = "none" /\ ledger[r]["error"] = 0
        /\ Record(r, "error") /\ UNCHANGED <<decision, approval, lease, sent>>
    BY <1>a, <1>1 DEF FailClosed, HandlerSound, Events
  <2>2. VerdictOf(r) = "open" /\ EntriesOf(r) = 0
    BY <2>1, EntriesOfKinds DEF VerdictOf
  <2>3. /\ \A q \in Requests \ {r} : Same(q)
        /\ EntriesOf(r)' = EntriesOf(r) + 1
    BY <1>a, <2>1, EntryView DEF Events
  <2>4. ledger'[r]["error"] = 1
    BY <1>a, <2>1, RecordCounts DEF TypeOK, Events
  <2>5. VerdictOf(r)' = "refused"
    BY <2>1, <2>4 DEF VerdictOf
  <2> QED BY <2>1, <2>2, <2>3, <2>5, Refuses
<1>2. ASSUME NEW r \in Requests, NEW v \in Verdicts \ {"none"}, NEW level \in RiskLevels,
             RecordDecision(r, v, level)
      PROVE  [Promise!Next]_(Promise!vars)
  <2>1. /\ decision[r] = "none" /\ approval[r] = "none" /\ (\A e \in Events : ledger[r][e] = 0)
        /\ decision' = [decision EXCEPT ![r] = v] /\ UNCHANGED <<approval, ledger, lease, sent>>
    BY <1>a, <1>2 DEF RecordDecision, HandlerSound
  <2>2. decision'[r] = v /\ \A q \in Requests \ {r} : decision'[q] = decision[q]
    BY <1>a, <2>1 DEF TypeOK
  <2>3. \A q \in Requests \ {r} : Same(q)
    BY <2>1, <2>2, SameRows
  <2>4. EntriesOf(r)' = EntriesOf(r)
    BY <2>1 DEF EntriesOf, Settlements, Events
  <2>5. VerdictOf(r) = "open"
    BY <2>1 DEF VerdictOf, Events
  <2>6. CASE v = "require_approval"
    <3>1. VerdictOf(r)' = "open"
      BY <2>1, <2>2, <2>6 DEF VerdictOf, Events
    <3>2. \A q \in Requests : Same(q)
      BY <2>3, <2>4, <2>5, <3>1 DEF Same
    <3> QED BY <2>1, <3>2, Stutters
  <2>7. CASE v # "require_approval"
    <3>1. VerdictOf(r)' \in {"allowed", "refused"}
      BY <2>2, <2>7 DEF VerdictOf, Verdicts
    <3> QED BY <2>1, <2>3, <2>4, <2>5, <3>1, Decides
  <2> QED BY <2>6, <2>7
<1>3. ASSUME NEW r \in Requests, BookDecision(r) PROVE [Promise!Next]_(Promise!vars)
  <2>1. /\ decision[r] # "none" /\ approval[r] = "none" /\ (\A e \in Events : ledger[r][e] = 0)
        /\ Record(r, IF decision[r] = "auto_allow" THEN "auto_allowed" ELSE "blocked")
        /\ UNCHANGED <<decision, approval, lease, sent>>
    BY <1>a, <1>3 DEF BookDecision, HandlerSound
  <2>2. CASE decision[r] = "require_approval"
    <3>1. Record(r, "blocked")
      BY <2>1, <2>2
    <3>2. \A q \in Requests : Same(q)
      BY <1>a, <2>1, <2>2, <3>1, EntryView DEF Events
    <3> QED BY <2>1, <3>2, Stutters
  <2>3. CASE decision[r] # "require_approval"
    <3> DEFINE e == IF decision[r] = "auto_allow" THEN "auto_allowed" ELSE "blocked"
    <3>1. decision[r] \in {"auto_allow", "deny"}
      BY <1>a, <2>1, <2>3 DEF TypeOK, Verdicts
    <3>2. e \in Events /\ e \notin {"executed", "error"} /\ (e = "blocked" => decision[r] = "deny")
      BY <3>1 DEF Events
    <3>3. Record(r, e)
      BY <2>1
    <3>4. VerdictOf(r) # "open"
      BY <3>1 DEF VerdictOf
    <3>5. EntriesOf(r) = 0
      BY <2>1, <3>1, EntriesOfKinds DEF Events
    <3> HIDE DEF e
    <3>6. /\ \A q \in Requests \ {r} : Same(q)
          /\ VerdictOf(r)' = VerdictOf(r) /\ EntriesOf(r)' = EntriesOf(r) + 1
      BY <1>a, <2>1, <3>2, <3>3, EntryView
    <3> QED BY <2>1, <3>4, <3>5, <3>6, Books
  <2> QED BY <2>2, <2>3
<1>4. ASSUME NEW r \in Requests, Open(r) PROVE [Promise!Next]_(Promise!vars)
  <2>1. /\ approval[r] = "none" /\ decision[r] = "require_approval"
        /\ approval' = [approval EXCEPT ![r] = "pending"]
        /\ UNCHANGED <<decision, ledger, lease, sent>>
    BY <1>a, <1>4 DEF Open, HandlerSound
  <2>2. approval'[r] = "pending" /\ \A q \in Requests \ {r} : approval'[q] = approval[q]
    BY <1>a, <2>1 DEF TypeOK
  <2>3. \A q \in Requests \ {r} : Same(q)
    BY <2>1, <2>2, SameRows
  <2>4. Same(r)
    BY <2>1, <2>2 DEF Same, VerdictOf, EntriesOf, Settlements
  <2> QED BY <2>1, <2>3, <2>4, Stutters
<1>5. ASSUME NEW r \in Requests, Issue(r) PROVE Promise!Next
  <2>1. /\ decision[r] = "auto_allow" /\ ledger[r]["auto_allowed"] = 1 /\ r \notin lease
        /\ lease' = lease \cup {r} /\ UNCHANGED <<decision, approval, ledger, sent>>
    BY <1>a, <1>5 DEF Issue, HandlerSound
  <2>2. \A q \in Requests : Same(q)
    BY <2>1, SameRows
  <2>3. VerdictOf(r) = "allowed" /\ EntriesOf(r) = 1
    BY <2>1, EntriesOfKinds DEF VerdictOf
  <2> QED BY <2>1, <2>2, <2>3, Grants
<1>6. ASSUME NEW r \in Requests, Send(r) PROVE [Promise!Next]_(Promise!vars)
  <2>1. /\ decision[r] = "auto_allow" /\ ledger[r]["auto_allowed"] = 1 /\ Basis(r) \in lease
        /\ r \notin sent /\ sent' \in {sent, sent \cup {r}}
        /\ UNCHANGED <<decision, approval, ledger, lease>>
    BY <1>a, <1>6 DEF Send, HandlerSound, GoingAhead
  <2>2. \A q \in Requests : Same(q)
    BY <2>1, SameRows
  <2>3. VerdictOf(r) = "allowed" /\ EntriesOf(r) = 1
    BY <2>1, EntriesOfKinds DEF VerdictOf
  <2>4. Basis(r) \in Requests
    BY <1>a, <2>1 DEF TypeOK
  <2>5. CASE sent' = sent
    BY <2>1, <2>2, <2>5, Stutters
  <2>6. CASE sent' = sent \cup {r}
    BY <2>1, <2>2, <2>3, <2>4, <2>6, Executes
  <2> QED BY <2>1, <2>5, <2>6
<1>7. ASSUME NEW r \in Requests, RecordExecuted(r) \/ RecordFailed(r)
      PROVE  [Promise!Next]_(Promise!vars)
  <2>1. UNCHANGED <<decision, approval, lease, sent>>
    BY <1>7 DEF RecordExecuted, RecordFailed
  <2>2. CASE Record(r, "executed")
    <3>1. \A q \in Requests : Same(q)
      BY <1>a, <2>1, <2>2, EntryView DEF Events
    <3> QED BY <2>1, <3>1, Stutters
  <2>3. CASE UNCHANGED ledger
    BY <2>1, <2>3, SameRows, Stutters
  <2> QED BY <1>7, <2>2, <2>3 DEF RecordExecuted, RecordFailed
<1>8. ASSUME NEW s \in Settlers, SettleWrite(s) PROVE Promise!Next
  <2>1. PICK r \in Requests : r = sub[s]
    BY <1>8 DEF IInv, SettleWrite, SettlersInFlight, SettlerSound
  <2>2. /\ approval[r] = "pending"
        /\ approval' = [approval EXCEPT ![r] = IF Allows(act[s]) THEN "approved" ELSE "rejected"]
        /\ UNCHANGED <<decision, ledger, lease, sent>>
    BY <1>8, <2>1 DEF SettleWrite
  <2>3. /\ approval'[r] \in {"approved", "rejected"}
        /\ \A q \in Requests \ {r} : approval'[q] = approval[q]
    BY <1>a, <2>2 DEF TypeOK
  <2> QED BY <2>2, <2>3, Closes
<1>9. ASSUME NEW s \in Settlers, SettleBook(s) PROVE Promise!Next
  <2>1. PICK r \in Requests : r = sub[s]
    BY <1>9 DEF IInv, SettleBook, SettlersInFlight, SettlerSound
  <2>2. PICK e \in {"user_allowed", "user_denied"} : Record(r, e)
    BY <1>9, <2>1 DEF SettleBook
  <2>3. /\ approval[r] \in {"approved", "rejected"} /\ Settlements(r) = 0
        /\ UNCHANGED <<decision, approval, lease, sent>>
    BY <1>9, <2>1 DEF IInv, SettleBook, SettlersInFlight, SettlerSound, Owning
  <2> QED BY <2>2, <2>3, Reports
<1>10. ASSUME NEW s \in Settlers, SettleGrant(s) PROVE Promise!Next
  <2>1. PICK r \in Requests : r = sub[s]
    BY <1>10 DEF IInv, SettleGrant, SettlersInFlight, SettlerSound
  <2>2. /\ approval[r] = "approved" /\ ledger[r]["user_allowed"] = 1 /\ r \notin lease
        /\ lease' = lease \cup {r} /\ UNCHANGED <<decision, approval, ledger, sent>>
    BY <1>10, <2>1 DEF IInv, SettleGrant, SettlersInFlight, SettlerSound, Owning
  <2>3. \A q \in Requests : Same(q)
    BY <2>2, SameRows
  <2>4. VerdictOf(r) = "allowed"
    BY <2>2 DEF VerdictOf
  <2>5. Settlements(r) = 1
    <3>1. /\ ledger[r]["user_denied"] \in Nat /\ ledger[r]["approval_expired"] \in Nat
      BY <1>a DEF TypeOK, Events
    <3>2. Settlements(r) <= 1
      BY DEF IInv, LedgerAgrees
    <3> QED BY <2>2, <3>1, <3>2 DEF Settlements
  <2>6. EntriesOf(r) = 1
    BY <1>a, <2>2, <2>5, EntriesOfKinds DEF RowsFit
  <2> QED BY <2>2, <2>3, <2>4, <2>6, Grants
<1>11. ASSUME NEW s \in Settlers, SettleLearn(s) PROVE UNCHANGED Promise!vars
  <2>1. UNCHANGED <<decision, approval, ledger, lease, sent>>
    BY <1>11 DEF SettleLearn
  <2> QED BY <2>1, SameRows, Stutters
<1>12. CASE SweepClose
  <2>a. due \in Seq(Requests) /\ closed \in Seq(Requests) /\ SweeperInFlight
    BY DEF IInv, TypeOK
  <2>1. PICK r \in Requests : r = Head(due)
    BY <1>12, <2>a, HeadsAreRequests DEF SweepClose
  <2>2. /\ approval[r] = "pending" /\ approval' = [approval EXCEPT ![r] = "expired"]
        /\ UNCHANGED <<decision, ledger, lease, sent>>
    BY <1>12, <2>1 DEF SweepClose
  <2>3. approval'[r] = "expired" /\ \A q \in Requests \ {r} : approval'[q] = approval[q]
    BY <1>a, <2>2 DEF TypeOK
  <2> QED BY <2>2, <2>3, Closes
<1>13. CASE SweepBook
  <2>a. due \in Seq(Requests) /\ closed \in Seq(Requests) /\ SweeperInFlight
    BY DEF IInv, TypeOK
  <2>1. PICK r \in Requests : r = Head(closed)
    BY <1>13, <2>a, HeadsAreRequests DEF SweepBook
  <2>2. /\ approval[r] = "expired" /\ ledger[r]["approval_expired"] = 0
        /\ Record(r, "approval_expired") /\ UNCHANGED <<decision, approval, lease, sent>>
    BY <1>13, <2>1 DEF IInv, TypeOK, SweepBook, SweeperInFlight
  <2>3. Settlements(r) = 0
    <3>1. ledger[r]["user_allowed"] \in Nat /\ ledger[r]["user_denied"] \in Nat
      BY <1>a DEF TypeOK, Events
    <3>2. ledger[r]["user_allowed"] = 0 /\ ledger[r]["user_denied"] = 0
      BY <2>2, <3>1 DEF IInv, LedgerAgrees
    <3> QED BY <2>2, <3>2 DEF Settlements
  <2> QED BY <2>2, <2>3, Reports
<1>14. CASE ~Writes
  BY <1>14, OthersOnlyRead, SameRows, Stutters
<1> QED
  BY <1>1, <1>2, <1>3, <1>4, <1>5, <1>6, <1>7, <1>8, <1>9, <1>10, <1>11, <1>12, <1>13, <1>14
  DEF Writes

\* Handlers, submissions, the sweeper, failures and crashes and all, the gateway
\* keeps the promise of Verdict: one verdict per request, reported once, before the
\* lease, before anything goes out.
THEOREM SettlementImplementsVerdict == Spec => ImplementsVerdict
<1>1. Init => Promise!Init
  BY DEF Init, Promise!Init, VerdictOf, EntriesOf, Settlements, Events
<1> QED BY <1>1, Inductive, PromiseStep, PTL DEF Spec, ImplementsVerdict, Promise!Spec

=============================================================================
