---------------------------- MODULE EgressProofs ----------------------------
(***************************************************************************)
(* Proofs about what leaves the gateway, for any number of calls, leases   *)
(* and retries, whatever custom service is declared: an operation leaves   *)
(* on a lease that was charged for it, no more often than it may, and the  *)
(* ledger says what happened.                                              *)
(***************************************************************************)
EXTENDS Egress, FiniteSetTheorems, SequenceTheorems, WellFoundedInduction, TLAPS

-----------------------------------------------------------------------------
(* The inductive invariant *)

\* The functions that TypeOK leaves open.
Shape ==
    /\ DOMAIN call = Calls /\ DOMAIN line = Calls
    /\ \A c \in Calls : DOMAIN call[c] = DOMAIN Idle

Early == {"idle", "routed", "authorizing", "spent", "granted", "executing"}

Late == {"granted", "executing", "reading", "sending", "answered"}

\* What a call has and has not at each step.
StageOK(c) ==
    /\ call[c].at = "idle" =>
          call[c].face = "none" /\ call[c].grant = 0 /\ charged[c] = {}
    /\ call[c].face = "none" => call[c].at \in {"idle", "done"} /\ call[c].result # "ok"
    /\ call[c].face # "none" => call[c].service \in Services
    /\ call[c].face = "preview" =>
          /\ call[c].service = "cloudflare" /\ call[c].operation \in ChangesBefore
          /\ call[c].at \notin {"routed", "authorizing", "spent", "sending"}
    /\ call[c].at \in Early \/ call[c].face = "none" => sends[c] = 0 /\ reads[c] = 0
    /\ call[c].at \notin {"answered", "done"} => call[c].result = "none"
    /\ booked[c] # "none" => call[c].at = "done"

\* The scope of the lease is what the call asks for.
Fits(l, c) ==
    /\ Scope[l].agent = call[c].agent /\ Scope[l].service = call[c].service
    /\ Scope[l].operation = call[c].operation /\ Scope[l].resource = call[c].resource

\* No lease is charged twice for one call, and one that fits is charged before the
\* operation is executed.
PaidOK(c) ==
    /\ call[c].at = "routed" => charged[c] = {}
    /\ call[c].at \in {"authorizing", "spent"} => \A l \in call[c].todo : Fits(l, c)
    /\ call[c].at = "authorizing" => charged[c] \cap call[c].todo = {}
    /\ call[c].at = "spent" =>
          call[c].todo # {} /\ charged[c] \cap call[c].todo = {First(call[c].todo)}
    /\ call[c].grant # 0 => call[c].grant \in charged[c] /\ Fits(call[c].grant, c)
    /\ call[c].at \in Late => call[c].face = "preview" \/ call[c].grant # 0
    /\ sends[c] > 0 => call[c].face # "preview" /\ call[c].grant # 0

\* What was asked of the proxy matches a declaration, and is sent under its base URL.
AskedOK(c) ==
    call[c].face = "proxy" =>
        /\ \E d \in Declared[call[c].service] :
              /\ d.operation = call[c].operation /\ EqualFold(d.method, call[c].target.method)
              /\ MatchPath(d.path, call[c].target.path)
              /\ call[c].resource = Captured(d.path, call[c].target.path)
        /\ call[c].target.path \in Seq(STRING)
        /\ sends[c] > 0 /\ Plain(Wanted(c).path) => AsAsked(c)

Changes(c) == call[c].service = "cloudflare" /\ call[c].operation \in ChangesBefore

\* How often something was sent.
TriesOK(c) ==
    /\ call[c].at = "reading" => Changes(c) /\ sends[c] = 0 /\ reads[c] <= MaxRetries
    /\ call[c].at = "sending" =>
          sends[c] < Attempts(Wanted(c)) /\ (Changes(c) => reads[c] > 0)
    /\ call[c].face # "none" => sends[c] <= Attempts(Wanted(c))
    /\ reads[c] <= 1 + MaxRetries
    /\ sends[c] > 0 /\ Changes(c) => reads[c] > 0
    /\ call[c].at = "answered" /\ call[c].result = "ok" /\ call[c].face # "preview" =>
          sends[c] > 0

\* The calls that used lease l.
Users(l) == {c \in Calls : l \in charged[c]}

Counted == \A l \in Leases : IsFiniteSet(Users(l)) /\ used[l] = Cardinality(Users(l))

IInv ==
    /\ TypeOK
    /\ Shape
    /\ \A c \in Calls : StageOK(c) /\ PaidOK(c) /\ AskedOK(c) /\ TriesOK(c)
    /\ Counted
    /\ BookedAsHappened

-----------------------------------------------------------------------------
(* Leases and the order they are tried in *)

\* Leases are numbered from one.
LEMMA LeasesAreNumbers == Leases \subseteq Nat /\ 0 \notin Leases
<1>1. Leases = 1..Cardinality(Leases) /\ Cardinality(Leases) \in Nat
  BY EgressAssumption, FS_CardinalityType
<1> QED BY <1>1

\* Of several leases one is tried first.
LEMMA FirstIsOne ==
    ASSUME NEW todo, todo \subseteq Leases, todo # {}
    PROVE  First(todo) \in todo
<1> DEFINE Less == OpToRel(<, Nat)
<1>1. todo \subseteq Nat
  BY LeasesAreNumbers
<1>2. PICK x \in todo : \A y \in todo : ~(<<y, x>> \in Less)
  BY <1>1, NatLessThanWellFounded, WFMin
<1>3. \A n, b \in Nat : n < b => <<n, b>> \in Less
  BY DEF OpToRel
<1> HIDE DEF Less
<1>4. \A y \in todo : x <= y
  <2> SUFFICES ASSUME NEW y \in todo PROVE x <= y
    OBVIOUS
  <2>1. x \in Nat /\ y \in Nat /\ ~(y < x)
    BY <1>1, <1>2, <1>3
  <2> QED BY <2>1
<1> QED BY <1>4 DEF First

-----------------------------------------------------------------------------
(* What is said of one call *)

TypeRow(c) ==
    /\ call[c].at \in Steps
    /\ call[c].face \in {"none", "proxy", "mcp", "preview"}
    /\ call[c].grant \in Leases \cup {0}
    /\ call[c].todo \subseteq Leases
    /\ call[c].at \in {"executing", "reading", "sending", "answered"} => Offered(c)
    /\ call[c].result \in {"none", "refused", "ok", "failed"}

BookedOK(c) ==
    /\ booked[c] = "blocked" => sends[c] = 0 /\ reads[c] = 0
    /\ booked[c] = "succeeded" => sends[c] > 0
    /\ call[c].at = "done" /\ call[c].result = "ok" /\ call[c].face # "preview"
          => booked[c] = "succeeded"

Own(c) ==
    /\ DOMAIN call[c] = DOMAIN Idle /\ sends[c] \in Nat /\ reads[c] \in Nat
    /\ charged[c] \subseteq Leases /\ booked[c] \in {"none", "blocked", "succeeded", "failed"}
    /\ TypeRow(c) /\ StageOK(c) /\ PaidOK(c) /\ AskedOK(c) /\ TriesOK(c) /\ BookedOK(c)

\* The functions of the state, and the leases.
World ==
    /\ now \in 0..Horizon /\ closed \subseteq Leases /\ gone \subseteq Calls
    /\ used \in [Leases -> Nat] /\ \A l \in Leases : used[l] <= Limit[l]
    /\ DOMAIN call = Calls /\ DOMAIN line = Calls
    /\ charged \in [Calls -> SUBSET Leases]
    /\ reads \in [Calls -> Nat] /\ sends \in [Calls -> Nat]
    /\ booked \in [Calls -> {"none", "blocked", "succeeded", "failed"}]

\* The invariant is what is said of the world, of the counts and of every call.
LEMMA IInvParts == IInv => World /\ Counted /\ \A c \in Calls : Own(c)
<1> SUFFICES ASSUME IInv PROVE World /\ Counted /\ \A c \in Calls : Own(c)
  OBVIOUS
<1>1. World /\ Counted
  BY DEF IInv, TypeOK, Shape, World
<1>2. ASSUME NEW c \in Calls PROVE Own(c)
  <2>1. TypeRow(c) /\ BookedOK(c)
    BY DEF IInv, TypeOK, TypeRow, BookedAsHappened, BookedOK
  <2>2. /\ DOMAIN call[c] = DOMAIN Idle /\ sends[c] \in Nat /\ reads[c] \in Nat
        /\ charged[c] \subseteq Leases
        /\ booked[c] \in {"none", "blocked", "succeeded", "failed"}
    BY DEF IInv, TypeOK, Shape
  <2> QED BY <2>1, <2>2 DEF IInv, Own
<1> QED BY <1>1, <1>2

\* A call keeps what it asks for.
SameAsk(c) ==
    /\ call'[c].face = call[c].face /\ call'[c].agent = call[c].agent
    /\ call'[c].target = call[c].target /\ call'[c].service = call[c].service
    /\ call'[c].operation = call[c].operation /\ call'[c].resource = call[c].resource
    /\ DOMAIN call'[c] = DOMAIN Idle

\* ... and with it all that depends on it.
LEMMA SameAskFacts ==
    ASSUME NEW c \in Calls, SameAsk(c)
    PROVE  /\ \A l : Fits(l, c)' <=> Fits(l, c)
           /\ Wanted(c)' = Wanted(c)
           /\ Changes(c)' <=> Changes(c)
           /\ Offered(c)' <=> Offered(c)
  BY DEF SameAsk, Fits, Wanted, Changes, Offered

\* A call that takes a step keeps what it asks for.
Moves(c, at, todo, grant, result) ==
    /\ SameAsk(c)
    /\ call'[c].at = at /\ call'[c].todo = todo /\ call'[c].grant = grant
    /\ call'[c].result = result

\* The updates of a row, field by field.
LEMMA RowUpdates ==
    ASSUME NEW c \in Calls, DOMAIN call = Calls, DOMAIN call[c] = DOMAIN Idle
    PROVE  /\ \A at : call' = [call EXCEPT ![c].at = at] =>
                 Moves(c, at, call[c].todo, call[c].grant, call[c].result)
           /\ \A todo : call' = [call EXCEPT ![c].todo = todo] =>
                 Moves(c, call[c].at, todo, call[c].grant, call[c].result)
           /\ \A at, result :
                 call' = [call EXCEPT ![c] = [call[c] EXCEPT !.at = at, !.result = result]] =>
                     Moves(c, at, call[c].todo, call[c].grant, result)
           /\ \A at, todo :
                 call' = [call EXCEPT ![c] = [call[c] EXCEPT !.at = at, !.todo = todo]] =>
                     Moves(c, at, todo, call[c].grant, call[c].result)
           /\ \A at, grant :
                 call' = [call EXCEPT ![c] = [call[c] EXCEPT !.at = at, !.grant = grant]] =>
                     Moves(c, at, call[c].todo, grant, call[c].result)
<1>1. DOMAIN call[c] = {"at", "face", "agent", "target", "service", "operation", "resource",
                        "todo", "grant", "result"}
  BY DEF Idle
<1>2. DOMAIN Idle = DOMAIN call[c]
  OBVIOUS
<1>3. \A at : call' = [call EXCEPT ![c].at = at] =>
          Moves(c, at, call[c].todo, call[c].grant, call[c].result)
  BY <1>1, <1>2 DEF Moves, SameAsk
<1>4. \A todo : call' = [call EXCEPT ![c].todo = todo] =>
          Moves(c, call[c].at, todo, call[c].grant, call[c].result)
  BY <1>1, <1>2 DEF Moves, SameAsk
<1>5. \A at, result :
          call' = [call EXCEPT ![c] = [call[c] EXCEPT !.at = at, !.result = result]] =>
              Moves(c, at, call[c].todo, call[c].grant, result)
  BY <1>1, <1>2 DEF Moves, SameAsk
<1>6. \A at, todo :
          call' = [call EXCEPT ![c] = [call[c] EXCEPT !.at = at, !.todo = todo]] =>
              Moves(c, at, todo, call[c].grant, call[c].result)
  BY <1>1, <1>2 DEF Moves, SameAsk
<1>7. \A at, grant :
          call' = [call EXCEPT ![c] = [call[c] EXCEPT !.at = at, !.grant = grant]] =>
              Moves(c, at, call[c].todo, grant, call[c].result)
  BY <1>1, <1>2 DEF Moves, SameAsk
<1> QED BY <1>3, <1>4, <1>5, <1>6, <1>7

-----------------------------------------------------------------------------
(* Every step keeps what is said of a call *)

\* The rest of a call's state.
Wire(c) == UNCHANGED <<reads[c], sends[c], line[c]>>

\* A call that ends without an answer has sent nothing.
LEMMA RefusalKeepsOwn ==
    ASSUME World, NEW c \in Calls, Own(c), Refuse(c), Wire(c), UNCHANGED charged[c],
           call[c].at \in {"routed", "authorizing", "granted", "executing"}
    PROVE  Own(c)'
<1>1. DOMAIN call = Calls /\ DOMAIN call[c] = DOMAIN Idle /\ DOMAIN booked = Calls
  BY DEF World, Own
<1>2. Moves(c, "done", call[c].todo, call[c].grant, "refused")
  BY <1>1, RowUpdates DEF Refuse, Ends
<1>3. /\ booked'[c] = booked[c] \/ booked'[c] = "blocked" \/ booked'[c] = "failed"
  BY <1>1 DEF Refuse, Books
<1>4. SameAsk(c) /\ call'[c].at = "done" /\ call'[c].todo = call[c].todo
      /\ call'[c].grant = call[c].grant /\ call'[c].result = "refused"
  BY <1>2 DEF Moves
<1>5. sends[c] = 0 /\ reads[c] = 0 /\ booked[c] = "none" /\ call[c].face # "none"
  BY DEF Own, StageOK, Early
<1>6. TypeRow(c)' /\ StageOK(c)'
  BY <1>3, <1>4, <1>5 DEF Own, TypeRow, StageOK, SameAsk, Wire, Steps, Early
<1>7. PaidOK(c)'
  BY <1>4, <1>5, SameAskFacts DEF Own, PaidOK, SameAsk, Wire, Late
<1>8. AskedOK(c)'
  BY <1>4, <1>5, SameAskFacts DEF Own, AskedOK, AsAsked, SameAsk, Wire
<1>9. TriesOK(c)'
  BY <1>4, <1>5, SameAskFacts DEF Own, TriesOK, SameAsk, Wire
<1>10. BookedOK(c)'
  BY <1>3, <1>4, <1>5 DEF BookedOK, Wire
<1> QED BY <1>3, <1>4, <1>5, <1>6, <1>7, <1>8, <1>9, <1>10 DEF Own, SameAsk, Wire

\* What was declared is found by its operation: no operation is declared twice.
LEMMA CapabilityIsOne ==
    ASSUME NEW s \in Services, NEW d \in Declared[s]
    PROVE  Capability(s, d.operation) = d
<1>1. \A x, y \in Declared[s] : x.operation = y.operation => x = y
  BY DeclarationsRegister DEF Registers
<1>2. Capability(s, d.operation) \in Declared[s] /\ Capability(s, d.operation).operation = d.operation
  BY DEF Capability
<1> QED BY <1>1, <1>2

\* A path taken apart by its template and put together again is the same path.
LEMMA PathIsKept ==
    ASSUME NEW d, NEW path \in Seq(STRING), MatchPath(d.path, path), Plain(d.path)
    PROVE  buildPath(d, Captured(d.path, path)) = path
<1> DEFINE n == Len(path)
           at(k) == CHOOSE i \in 1..Len(d.path) :
                       d.path[i] = k /\ \A j \in (i + 1)..Len(d.path) : d.path[j] # k
           res == Captured(d.path, path)
<1>0. n \in Nat /\ path \in [1..n -> STRING]
  BY LenProperties
<1>1. n \in Nat /\ Len(d.path) = n /\ path = [i \in 1..n |-> path[i]]
  BY <1>0 DEF MatchPath
<1>2. ASSUME NEW i \in 1..n, d.path[i] \in Keys PROVE res[d.path[i]] = path[i]
  <2>1. \A j \in (i + 1)..Len(d.path) : d.path[j] # d.path[i]
    <3> SUFFICES ASSUME NEW j \in (i + 1)..n, d.path[j] = d.path[i] PROVE FALSE
      BY <1>1
    <3>1. j \in 1..n /\ i # j
      BY <1>1
    <3> QED BY <1>1, <1>2, <3>1 DEF Plain
  <2>2. /\ at(d.path[i]) \in 1..Len(d.path) /\ d.path[at(d.path[i])] = d.path[i]
    BY <1>1, <2>1
  <2>3. at(d.path[i]) = i
    BY <1>1, <1>2, <2>2 DEF Plain
  <2>4. res[d.path[i]] = path[at(d.path[i])]
    BY <1>1, <1>2 DEF Captured
  <2> QED BY <2>3, <2>4
<1> HIDE DEF res
<1>3. \A i \in 1..n : ~(d.path[i] \in Keys) => d.path[i] = path[i]
  BY <1>1 DEF MatchPath
<1>4. buildPath(d, res) = [i \in 1..n |-> path[i]]
  BY <1>1, <1>2, <1>3 DEF buildPath
<1> QED BY <1>1, <1>4 DEF res

\* What is built for a request through the proxy is what was asked.
LEMMA SentAsAsked ==
    ASSUME NEW c \in Calls, AskedOK(c), StageOK(c), call[c].face = "proxy",
           Plain(Wanted(c).path)
    PROVE  /\ EqualFold(Wanted(c).method, call[c].target.method)
           /\ buildPath(Wanted(c), call[c].resource) = call[c].target.path
<1>1. PICK d \in Declared[call[c].service] :
              /\ d.operation = call[c].operation /\ EqualFold(d.method, call[c].target.method)
              /\ MatchPath(d.path, call[c].target.path)
              /\ call[c].resource = Captured(d.path, call[c].target.path)
  BY DEF AskedOK
<1>2. Wanted(c) = d
  BY <1>1, CapabilityIsOne DEF Wanted, StageOK
<1>3. buildPath(d, call[c].resource) = call[c].target.path
  BY <1>1, <1>2, PathIsKept DEF AskedOK
<1> QED BY <1>1, <1>2, <1>3

\* What is said of a call is kept by every step of any call.
LEMMA OwnStep ==
    ASSUME IInv, [Next]_vars, NEW q \in Calls
    PROVE  Own(q)'
<1>a. World /\ Own(q) /\ \A c \in Calls : Own(c)
  BY IInvParts
<1>b. /\ DOMAIN call = Calls /\ DOMAIN line = Calls /\ DOMAIN charged = Calls
      /\ DOMAIN reads = Calls /\ DOMAIN sends = Calls /\ DOMAIN booked = Calls
      /\ DOMAIN call[q] = DOMAIN Idle
  BY <1>a DEF World, Own
<1> DEFINE Same == UNCHANGED <<call[q], charged[q], reads[q], sends[q], line[q], booked[q]>>
<1>c. Same => Own(q)'
  <2> SUFFICES ASSUME Same PROVE Own(q)'
    OBVIOUS
  <2>1. AsAsked(q)' <=> AsAsked(q)
    BY DEF AsAsked
  <2> QED BY <1>a, <2>1 DEF Own, TypeRow, StageOK, PaidOK, AskedOK, TriesOK, BookedOK, Fits,
                            Wanted, Changes, Offered
<1> HIDE DEF Same
<1>1. ASSUME NEW c \in Calls, Ask(c) PROVE Own(q)'
  <2>1. CASE q # c
    BY <1>b, <1>c, <1>1, <2>1 DEF Ask, Same, lease, wire, Goes, Ends, Books, Refuse
  <2>2. CASE q = c
    <3>1. PICK a \in Agents, t \in Targets : \E d \in Resolve(t.service, t.method, t.path) :
             call' = [call EXCEPT ![c] = [Idle EXCEPT
                     !.at = "routed", !.face = "proxy", !.agent = a,
                     !.target = [method |-> t.method, path |-> t.path, query |-> t.query],
                     !.service = t.service, !.operation = d.operation,
                     !.resource = Captured(d.path, t.path)]]
      BY <1>1 DEF Ask
    <3>0. PICK d \in Resolve(t.service, t.method, t.path) :
             call' = [call EXCEPT ![c] = [Idle EXCEPT
                     !.at = "routed", !.face = "proxy", !.agent = a,
                     !.target = [method |-> t.method, path |-> t.path, query |-> t.query],
                     !.service = t.service, !.operation = d.operation,
                     !.resource = Captured(d.path, t.path)]]
      BY <3>1
    <3> DEFINE row == [Idle EXCEPT
                     !.at = "routed", !.face = "proxy", !.agent = a,
                     !.target = [method |-> t.method, path |-> t.path, query |-> t.query],
                     !.service = t.service, !.operation = d.operation,
                     !.resource = Captured(d.path, t.path)]
    <3>2. /\ call'[q] = row /\ call[q].at = "idle"
          /\ UNCHANGED <<charged[q], booked[q], reads[q], sends[q], line[q]>>
      BY <1>b, <1>1, <2>2, <3>0 DEF Ask, lease, wire
    <3>3. /\ charged[q] = {} /\ sends[q] = 0 /\ reads[q] = 0 /\ booked[q] = "none"
      BY <1>a, <3>2 DEF Own, StageOK, Early
    <3>4. row.grant = 0 /\ row.result = "none" /\ DOMAIN row = DOMAIN Idle
      BY DEF Idle
    <3>5. /\ row.at = "routed" /\ row.face = "proxy" /\ row.service = t.service
          /\ row.target = [method |-> t.method, path |-> t.path, query |-> t.query] /\ row.todo = {}
          /\ row.operation = d.operation /\ row.resource = Captured(d.path, t.path)
      BY DEF Idle
    <3>6. /\ t.service \in Services /\ t.path \in Seq(STRING)
          /\ d \in Declared[t.service] /\ EqualFold(d.method, t.method) /\ MatchPath(d.path, t.path)
      BY EgressAssumption DEF Resolve
    <3> HIDE DEF row
    <3>a. Attempts(Wanted(q))' \in Nat /\ MaxRetries \in Nat
      BY EgressAssumption DEF Attempts
    <3>11. TypeRow(q)'
      BY <3>2, <3>3, <3>4, <3>5, <3>6, LeasesAreNumbers DEF TypeRow, Steps
    <3>12. StageOK(q)'
      BY <3>2, <3>3, <3>4, <3>5, <3>6 DEF StageOK, Early
    <3>13. PaidOK(q)'
      BY <3>2, <3>3, <3>4, <3>5, <3>6 DEF PaidOK, Late, Fits
    <3>14. AskedOK(q)'
      BY <3>2, <3>3, <3>4, <3>5, <3>6 DEF AskedOK
    <3>15. TriesOK(q)'
      BY <3>2, <3>3, <3>4, <3>5, <3>6, <3>a DEF TriesOK
    <3>16. BookedOK(q)'
      BY <3>2, <3>3, <3>4, <3>5, <3>6 DEF BookedOK
    <3> QED BY <1>a, <3>2, <3>3, <3>4, <3>5, <3>6, <3>11, <3>12, <3>13, <3>14, <3>15, <3>16 DEF Own
  <2> QED BY <2>1, <2>2
<1>2. ASSUME NEW c \in Calls, AskRefused(c) PROVE Own(q)'
  <2>1. CASE q # c
    BY <1>b, <1>c, <1>2, <2>1 DEF AskRefused, Same, lease, wire, Goes, Ends, Books, Refuse
  <2>2. CASE q = c
    <3>1. Moves(q, "done", call[q].todo, call[q].grant, "refused")
      BY <1>b, <1>2, <2>2, RowUpdates DEF AskRefused, Ends
    <3>2. /\ SameAsk(q) /\ call'[q].at = "done" /\ call'[q].todo = call[q].todo
          /\ call'[q].grant = call[q].grant /\ call'[q].result = "refused"
      BY <3>1 DEF Moves
    <3>3. /\ \A l : Fits(l, q)' <=> Fits(l, q)
          /\ Wanted(q)' = Wanted(q) /\ (Changes(q)' <=> Changes(q))
          /\ (Offered(q)' <=> Offered(q))
      BY <3>2, SameAskFacts
    <3>4. /\ call[q].at = "idle" /\ (UNCHANGED booked[q] \/ booked'[q] = "blocked")
          /\ UNCHANGED <<charged[q], reads[q], sends[q], line[q]>>
      BY <1>b, <1>2, <2>2 DEF AskRefused, Books, lease, wire
    <3>a. sends[q] = 0 /\ reads[q] = 0 /\ call[q].face = "none"
      BY <1>a, <3>4 DEF Own, StageOK, Early
    <3>5. TypeRow(q)'
      BY <1>a, <3>2, <3>3, <3>4, <3>a DEF Own, TypeRow, SameAsk, Steps
    <3>6. StageOK(q)'
      BY <1>a, <3>2, <3>3, <3>4, <3>a DEF Own, StageOK, SameAsk, Early
    <3>7. PaidOK(q)'
      BY <1>a, <3>2, <3>3, <3>4, <3>a DEF Own, PaidOK, SameAsk, Late
    <3>8. AskedOK(q)'
      BY <1>a, <3>2, <3>3, <3>4, <3>a DEF Own, AskedOK, AsAsked, SameAsk
    <3>9. TriesOK(q)'
      BY <1>a, <3>2, <3>3, <3>4, <3>a DEF Own, TriesOK, SameAsk
    <3>10. BookedOK(q)'
      BY <1>a, <3>2, <3>3, <3>4, <3>a DEF Own, BookedOK, SameAsk
    <3> QED BY <1>a, <3>2, <3>3, <3>4, <3>a, <3>5, <3>6, <3>7, <3>8, <3>9, <3>10 DEF Own, SameAsk
  <2> QED BY <2>1, <2>2
<1>3. ASSUME NEW c \in Calls, List(c) PROVE Own(q)'
  <2>1. CASE q # c
    BY <1>b, <1>c, <1>3, <2>1 DEF List, Same, lease, wire, Goes, Ends, Books, Refuse
  <2>2. CASE q = c
    <3>0. PICK fit \in SUBSET Leases : /\ \A l \in fit : Covers(l, q)
                                       /\ call' = [call EXCEPT ![q] =
                                             [call[q] EXCEPT !.at = "authorizing", !.todo = fit]]
      BY <1>3, <2>2 DEF List
    <3>1. Moves(q, "authorizing", fit, call[q].grant, call[q].result)
      BY <1>b, <3>0, RowUpdates
    <3>2. /\ SameAsk(q) /\ call'[q].at = "authorizing" /\ call'[q].todo = fit
          /\ call'[q].grant = call[q].grant /\ call'[q].result = call[q].result
      BY <3>1 DEF Moves
    <3>3. /\ \A l : Fits(l, q)' <=> Fits(l, q)
          /\ Wanted(q)' = Wanted(q) /\ (Changes(q)' <=> Changes(q))
          /\ (Offered(q)' <=> Offered(q))
      BY <3>2, SameAskFacts
    <3>4. call[q].at = "routed" /\ UNCHANGED <<charged[q], booked[q], reads[q], sends[q], line[q]>>
      BY <1>b, <1>3, <2>2 DEF List, lease, wire
    <3>5. TypeRow(q)'
      BY <1>a, <3>0, <3>2, <3>3, <3>4 DEF Own, TypeRow, SameAsk, Steps
    <3>6. StageOK(q)'
      BY <1>a, <3>0, <3>2, <3>3, <3>4 DEF Own, StageOK, SameAsk, Early
    <3>7. PaidOK(q)'
      <4>1. \A l \in fit : Fits(l, q)
        BY <3>0 DEF Covers, Fits
      <4> QED BY <1>a, <3>2, <3>3, <3>4, <4>1 DEF Own, PaidOK, SameAsk, Late
    <3>8. AskedOK(q)'
      BY <1>a, <3>0, <3>2, <3>3, <3>4 DEF Own, AskedOK, AsAsked, SameAsk
    <3>9. TriesOK(q)'
      BY <1>a, <3>0, <3>2, <3>3, <3>4 DEF Own, TriesOK, SameAsk
    <3>10. BookedOK(q)'
      BY <1>a, <3>0, <3>2, <3>3, <3>4 DEF Own, BookedOK, SameAsk
    <3> QED BY <1>a, <3>0, <3>2, <3>3, <3>4, <3>5, <3>6, <3>7, <3>8, <3>9, <3>10 DEF Own, SameAsk
  <2> QED BY <2>1, <2>2
<1>4. ASSUME NEW c \in Calls, Skip(c) PROVE Own(q)'
  <2>1. CASE q # c
    BY <1>b, <1>c, <1>4, <2>1 DEF Skip, Same, lease, wire, Goes, Ends, Books, Refuse
  <2>2. CASE q = c
    <3>1. Moves(q, call[q].at, Rest(call[q].todo), call[q].grant, call[q].result)
      BY <1>b, <1>4, <2>2, RowUpdates DEF Skip
    <3>2. /\ SameAsk(q) /\ call'[q].at = call[q].at /\ call'[q].todo = Rest(call[q].todo)
          /\ call'[q].grant = call[q].grant /\ call'[q].result = call[q].result
      BY <3>1 DEF Moves
    <3>3. /\ \A l : Fits(l, q)' <=> Fits(l, q)
          /\ Wanted(q)' = Wanted(q) /\ (Changes(q)' <=> Changes(q))
          /\ (Offered(q)' <=> Offered(q))
      BY <3>2, SameAskFacts
    <3>4. call[q].at = "authorizing" /\ UNCHANGED <<charged[q], booked[q], reads[q], sends[q], line[q]>>
      BY <1>b, <1>4, <2>2 DEF Skip, lease, wire
    <3>5. TypeRow(q)'
      BY <1>a, <3>2, <3>3, <3>4 DEF Own, TypeRow, SameAsk, Steps, Rest
    <3>6. StageOK(q)'
      BY <1>a, <3>2, <3>3, <3>4 DEF Own, StageOK, SameAsk, Early, Rest
    <3>7. PaidOK(q)'
      BY <1>a, <3>2, <3>3, <3>4 DEF Own, PaidOK, SameAsk, Late, Rest
    <3>8. AskedOK(q)'
      BY <1>a, <3>2, <3>3, <3>4 DEF Own, AskedOK, AsAsked, SameAsk, Rest
    <3>9. TriesOK(q)'
      BY <1>a, <3>2, <3>3, <3>4 DEF Own, TriesOK, SameAsk, Rest
    <3>10. BookedOK(q)'
      BY <1>a, <3>2, <3>3, <3>4 DEF Own, BookedOK, SameAsk, Rest
    <3> QED BY <1>a, <3>2, <3>3, <3>4, <3>5, <3>6, <3>7, <3>8, <3>9, <3>10 DEF Own, SameAsk
  <2> QED BY <2>1, <2>2
<1>5. ASSUME NEW c \in Calls, Charge(c) PROVE Own(q)'
  <2>1. CASE q # c
    BY <1>b, <1>c, <1>5, <2>1 DEF Charge, Same, lease, wire, Goes, Ends, Books, Refuse
  <2>2. CASE q = c
    <3> DEFINE l == First(call[q].todo)
    <3>0. /\ call[q].at = "authorizing" /\ call[q].todo # {} /\ l \in call[q].todo /\ l \in Leases
      BY <1>a, <1>5, <2>2, FirstIsOne DEF Charge, Own, TypeRow
    <3>1. \/ Moves(q, "spent", call[q].todo, call[q].grant, call[q].result)
          \/ Moves(q, "granted", call[q].todo, l, call[q].result)
      <4>1. CASE used[l] + 1 = Limit[l]
        BY <1>b, <1>5, <2>2, <4>1, RowUpdates DEF Charge
      <4>2. CASE used[l] + 1 # Limit[l]
        BY <1>b, <1>5, <2>2, <4>2, RowUpdates DEF Charge
      <4> QED BY <4>1, <4>2
    <3>2. /\ SameAsk(q) /\ call'[q].todo = call[q].todo /\ call'[q].result = call[q].result
          /\ \/ call'[q].at = "spent" /\ call'[q].grant = call[q].grant
             \/ call'[q].at = "granted" /\ call'[q].grant = l
      BY <3>1 DEF Moves
    <3>3. /\ \A k : Fits(k, q)' <=> Fits(k, q)
          /\ Wanted(q)' = Wanted(q) /\ (Changes(q)' <=> Changes(q))
          /\ (Offered(q)' <=> Offered(q))
      BY <3>2, SameAskFacts
    <3>4. charged'[q] = charged[q] \cup {l} /\ UNCHANGED <<booked[q], reads[q], sends[q], line[q]>>
      BY <1>b, <1>5, <2>2 DEF Charge, wire
    <3>a. call[q].grant # 0 => call[q].grant \in charged'[q]
      BY <1>a, <3>4 DEF Own, PaidOK
    <3>b. charged[q] \cap call[q].todo = {} /\ Fits(l, q) /\ l # 0
      BY <1>a, <3>0, LeasesAreNumbers DEF Own, PaidOK
    <3>c. charged'[q] \cap call'[q].todo = {First(call'[q].todo)}
      BY <3>0, <3>2, <3>4, <3>b
    <3>d. charged'[q] \subseteq Leases
      BY <1>a, <3>0, <3>4 DEF Own
    <3>e. sends[q] = 0 /\ reads[q] = 0 /\ call[q].face \in {"proxy", "mcp"}
      BY <1>a, <3>0 DEF Own, StageOK, TypeRow, Early
    <3> HIDE DEF l
    <3>5. TypeRow(q)'
      BY <1>a, <3>0, <3>2, <3>3, <3>4, <3>b, <3>d, <3>e DEF Own, TypeRow, SameAsk, Steps
    <3>6. StageOK(q)'
      BY <1>a, <3>0, <3>2, <3>3, <3>4, <3>b, <3>d, <3>e DEF Own, StageOK, SameAsk, Early
    <3>7. PaidOK(q)'
      <4>1. \A k \in call'[q].todo : Fits(k, q)
        BY <1>a, <3>0, <3>2 DEF Own, PaidOK
      <4>3. call'[q].grant # 0 => call'[q].grant \in charged'[q]
        BY <3>2, <3>4, <3>a
      <4>4. call'[q].grant # 0 => Fits(call'[q].grant, q)
        BY <1>a, <3>2, <3>b DEF Own, PaidOK
      <4>5. call'[q].at \in Late => call'[q].grant # 0
        BY <3>2, <3>b DEF Late
      <4>2. call'[q].at = "spent" => call'[q].todo # {}
        BY <3>0, <3>2
      <4>6. call'[q].at \notin {"routed", "authorizing"} /\ ~(sends'[q] > 0)
        BY <3>2, <3>4, <3>e
      <4> QED BY <3>3, <3>c, <4>1, <4>2, <4>3, <4>4, <4>5, <4>6 DEF PaidOK
    <3>8. AskedOK(q)'
      BY <1>a, <3>0, <3>2, <3>3, <3>4, <3>b, <3>d, <3>e DEF Own, AskedOK, AsAsked, SameAsk
    <3>9. TriesOK(q)'
      BY <1>a, <3>0, <3>2, <3>3, <3>4, <3>b, <3>d, <3>e DEF Own, TriesOK, SameAsk
    <3>10. BookedOK(q)'
      BY <1>a, <3>0, <3>2, <3>3, <3>4, <3>b, <3>d, <3>e DEF Own, BookedOK, SameAsk
    <3> QED BY <1>a, <3>0, <3>2, <3>3, <3>4, <3>b, <3>d, <3>e, <3>5, <3>6, <3>7, <3>8, <3>9, <3>10 DEF Own, SameAsk
  <2> QED BY <2>1, <2>2
<1>6. ASSUME NEW c \in Calls, Exhaust(c) PROVE Own(q)'
  <2>1. CASE q # c
    BY <1>b, <1>c, <1>6, <2>1 DEF Exhaust, Same, lease, wire, Goes, Ends, Books, Refuse
  <2>2. CASE q = c
    <3> DEFINE l == First(call[q].todo)
    <3>0. /\ call[q].at = "spent" /\ call[q].todo # {} /\ l \in call[q].todo /\ l \in Leases
          /\ charged[q] \cap call[q].todo = {l}
      <4>1. call[q].at = "spent"
        BY <1>6, <2>2 DEF Exhaust
      <4>2. call[q].todo # {} /\ charged[q] \cap call[q].todo = {l} /\ call[q].todo \subseteq Leases
        BY <1>a, <4>1 DEF Own, PaidOK, TypeRow
      <4> QED BY <4>1, <4>2
    <3>1. \/ Moves(q, "authorizing", Rest(call[q].todo), call[q].grant, call[q].result)
          \/ Moves(q, "granted", call[q].todo, l, call[q].result)
      <4>1. CASE l \in closed \/ c \in gone
        <5>1. call' = [call EXCEPT ![q] =
                         [call[q] EXCEPT !.at = "authorizing", !.todo = Rest(call[q].todo)]]
          BY <1>b, <1>6, <2>2, <4>1 DEF Exhaust
        <5> QED BY <1>b, <5>1, RowUpdates
      <4>2. CASE ~(l \in closed \/ c \in gone)
        BY <1>b, <1>6, <2>2, <4>2, RowUpdates DEF Exhaust
      <4> QED BY <4>1, <4>2
    <3>2. /\ SameAsk(q) /\ call'[q].result = call[q].result
          /\ \/ /\ call'[q].at = "authorizing" /\ call'[q].grant = call[q].grant
                /\ call'[q].todo = call[q].todo \ {l}
             \/ /\ call'[q].at = "granted" /\ call'[q].grant = l
                /\ call'[q].todo = call[q].todo
      BY <3>1 DEF Moves, Rest
    <3>3. /\ \A k : Fits(k, q)' <=> Fits(k, q)
          /\ Wanted(q)' = Wanted(q) /\ (Changes(q)' <=> Changes(q))
          /\ (Offered(q)' <=> Offered(q))
      BY <3>2, SameAskFacts
    <3>4. UNCHANGED <<charged[q], booked[q], reads[q], sends[q], line[q]>>
      BY <1>b, <1>6, <2>2 DEF Exhaust, wire
    <3>b. Fits(l, q) /\ l # 0 /\ l \in charged[q]
      BY <1>a, <3>0, LeasesAreNumbers DEF Own, PaidOK
    <3>e. sends[q] = 0 /\ reads[q] = 0 /\ call[q].face \in {"proxy", "mcp"}
      BY <1>a, <3>0 DEF Own, StageOK, TypeRow, Early
    <3> HIDE DEF l
    <3>5. TypeRow(q)'
      BY <1>a, <3>0, <3>2, <3>3, <3>4, <3>b, <3>e DEF Own, TypeRow, SameAsk, Steps
    <3>6. StageOK(q)'
      BY <1>a, <3>0, <3>2, <3>3, <3>4, <3>b, <3>e DEF Own, StageOK, SameAsk, Early
    <3>7. PaidOK(q)'
      BY <1>a, <3>0, <3>2, <3>3, <3>4, <3>b, <3>e DEF Own, PaidOK, SameAsk, Late
    <3>8. AskedOK(q)'
      BY <1>a, <3>0, <3>2, <3>3, <3>4, <3>b, <3>e DEF Own, AskedOK, AsAsked, SameAsk
    <3>9. TriesOK(q)'
      BY <1>a, <3>0, <3>2, <3>3, <3>4, <3>b, <3>e DEF Own, TriesOK, SameAsk
    <3>10. BookedOK(q)'
      BY <1>a, <3>0, <3>2, <3>3, <3>4, <3>b, <3>e DEF Own, BookedOK, SameAsk
    <3> QED BY <1>a, <3>0, <3>2, <3>3, <3>4, <3>b, <3>e, <3>5, <3>6, <3>7, <3>8, <3>9, <3>10 DEF Own, SameAsk
  <2> QED BY <2>1, <2>2
<1>7. ASSUME NEW c \in Calls, NoLease(c) PROVE Own(q)'
  <2>1. CASE q # c
    BY <1>b, <1>c, <1>7, <2>1 DEF NoLease, Same, lease, wire, Goes, Ends, Books, Refuse
  <2>2. CASE q = c
    BY <1>a, <1>7, <2>2, RefusalKeepsOwn DEF NoLease, lease, wire, Wire
  <2> QED BY <2>1, <2>2
<1>8. ASSUME NEW c \in Calls, Call(c) PROVE Own(q)'
  <2>1. CASE q # c
    BY <1>b, <1>c, <1>8, <2>1 DEF Call, Same, lease, wire, Goes, Ends, Books, Refuse
  <2>2. CASE q = c
    <3>1. PICK l \in Leases : call' = [call EXCEPT ![c] = [Idle EXCEPT
                     !.at = "authorizing", !.face = "mcp", !.agent = Scope[l].agent,
                     !.service = Scope[l].service, !.operation = Scope[l].operation,
                     !.resource = Scope[l].resource, !.todo = {l}]]
      BY <1>8 DEF Call
    <3> DEFINE row == [Idle EXCEPT
                     !.at = "authorizing", !.face = "mcp", !.agent = Scope[l].agent,
                     !.service = Scope[l].service, !.operation = Scope[l].operation,
                     !.resource = Scope[l].resource, !.todo = {l}]
    <3>2. /\ call'[q] = row /\ call[q].at = "idle"
          /\ UNCHANGED <<charged[q], booked[q], reads[q], sends[q], line[q]>>
      BY <1>b, <1>8, <2>2, <3>1 DEF Call, lease, wire
    <3>3. /\ charged[q] = {} /\ sends[q] = 0 /\ reads[q] = 0 /\ booked[q] = "none"
      BY <1>a, <3>2 DEF Own, StageOK, Early
    <3>4. row.grant = 0 /\ row.result = "none" /\ DOMAIN row = DOMAIN Idle
      BY DEF Idle
    <3>5. /\ row.at = "authorizing" /\ row.face = "mcp" /\ row.agent = Scope[l].agent
          /\ row.service = Scope[l].service /\ row.operation = Scope[l].operation
          /\ row.resource = Scope[l].resource /\ row.todo = {l} /\ Scope[l].service \in Services
      BY EgressAssumption DEF Idle
    <3> HIDE DEF row
    <3>a. Attempts(Wanted(q))' \in Nat /\ MaxRetries \in Nat
      BY EgressAssumption DEF Attempts
    <3>11. TypeRow(q)'
      BY <3>2, <3>3, <3>4, <3>5, LeasesAreNumbers DEF TypeRow, Steps
    <3>12. StageOK(q)'
      BY <3>2, <3>3, <3>4, <3>5 DEF StageOK, Early
    <3>13. PaidOK(q)'
      BY <3>2, <3>3, <3>4, <3>5 DEF PaidOK, Late, Fits
    <3>14. AskedOK(q)'
      BY <3>2, <3>3, <3>4, <3>5 DEF AskedOK
    <3>15. TriesOK(q)'
      BY <3>2, <3>3, <3>4, <3>5, <3>a DEF TriesOK
    <3>16. BookedOK(q)'
      BY <3>2, <3>3, <3>4, <3>5 DEF BookedOK
    <3> QED BY <1>a, <3>2, <3>3, <3>4, <3>5, <3>11, <3>12, <3>13, <3>14, <3>15, <3>16 DEF Own
  <2> QED BY <2>1, <2>2
<1>9. ASSUME NEW c \in Calls, Preview(c) PROVE Own(q)'
  <2>1. CASE q # c
    BY <1>b, <1>c, <1>9, <2>1 DEF Preview, Same, lease, wire, Goes, Ends, Books, Refuse
  <2>2. CASE q = c
    <3>1. PICK l \in Leases :
             /\ Scope[l].service = "cloudflare" /\ Scope[l].operation \in ChangesBefore
             /\ call' = [call EXCEPT ![c] = [Idle EXCEPT
                        !.at = "granted", !.face = "preview", !.agent = Scope[l].agent,
                        !.service = "cloudflare", !.operation = Scope[l].operation,
                        !.resource = Scope[l].resource]]
      BY <1>9 DEF Preview
    <3> DEFINE row == [Idle EXCEPT
                        !.at = "granted", !.face = "preview", !.agent = Scope[l].agent,
                        !.service = "cloudflare", !.operation = Scope[l].operation,
                        !.resource = Scope[l].resource]
    <3>2. /\ call'[q] = row /\ call[q].at = "idle"
          /\ UNCHANGED <<charged[q], booked[q], reads[q], sends[q], line[q]>>
      BY <1>b, <1>9, <2>2, <3>1 DEF Preview, lease, wire
    <3>3. /\ charged[q] = {} /\ sends[q] = 0 /\ reads[q] = 0 /\ booked[q] = "none"
      BY <1>a, <3>2 DEF Own, StageOK, Early
    <3>4. row.grant = 0 /\ row.result = "none" /\ DOMAIN row = DOMAIN Idle
      BY DEF Idle
    <3>5. /\ row.at = "granted" /\ row.face = "preview" /\ row.service = "cloudflare"
          /\ row.operation \in ChangesBefore /\ row.todo = {} /\ "cloudflare" \in Services
      <4>1. Scope[l].service \in Services /\ Scope[l].operation \in ChangesBefore
        BY <3>1, EgressAssumption
      <4> QED BY <3>1, <4>1 DEF Idle
    <3> HIDE DEF row
    <3>a. Attempts(Wanted(q))' \in Nat /\ MaxRetries \in Nat
      BY EgressAssumption DEF Attempts
    <3>11. TypeRow(q)'
      BY <3>2, <3>3, <3>4, <3>5, LeasesAreNumbers DEF TypeRow, Steps
    <3>12. StageOK(q)'
      BY <3>2, <3>3, <3>4, <3>5 DEF StageOK, Early
    <3>13. PaidOK(q)'
      BY <3>2, <3>3, <3>4, <3>5 DEF PaidOK, Late, Fits
    <3>14. AskedOK(q)'
      BY <3>2, <3>3, <3>4, <3>5 DEF AskedOK
    <3>15. TriesOK(q)'
      BY <3>2, <3>3, <3>4, <3>5, <3>a DEF TriesOK
    <3>16. BookedOK(q)'
      BY <3>2, <3>3, <3>4, <3>5 DEF BookedOK
    <3> QED BY <1>a, <3>2, <3>3, <3>4, <3>5, <3>11, <3>12, <3>13, <3>14, <3>15, <3>16 DEF Own
  <2> QED BY <2>1, <2>2
<1>10. ASSUME NEW c \in Calls, Fetch(c) PROVE Own(q)'
  <2>1. CASE q # c
    BY <1>b, <1>c, <1>10, <2>1 DEF Fetch, Same, lease, wire, Goes, Ends, Books, Refuse
  <2>2. CASE q = c
    <3>1. Moves(q, "executing", call[q].todo, call[q].grant, call[q].result)
      BY <1>b, <1>10, <2>2, RowUpdates DEF Fetch, Goes
    <3>2. /\ SameAsk(q) /\ call'[q].at = "executing" /\ call'[q].todo = call[q].todo
          /\ call'[q].grant = call[q].grant /\ call'[q].result = call[q].result
      BY <3>1 DEF Moves
    <3>3. /\ \A l : Fits(l, q)' <=> Fits(l, q)
          /\ Wanted(q)' = Wanted(q) /\ (Changes(q)' <=> Changes(q))
          /\ (Offered(q)' <=> Offered(q))
      BY <3>2, SameAskFacts
    <3>4. call[q].at = "granted" /\ Offered(q) /\ UNCHANGED <<charged[q], booked[q], reads[q], sends[q], line[q]>>
      BY <1>b, <1>10, <2>2 DEF Fetch, lease, wire
    <3>5. TypeRow(q)'
      BY <1>a, <3>2, <3>3, <3>4 DEF Own, TypeRow, SameAsk, Steps
    <3>6. StageOK(q)'
      BY <1>a, <3>2, <3>3, <3>4 DEF Own, StageOK, SameAsk, Early
    <3>7. PaidOK(q)'
      BY <1>a, <3>2, <3>3, <3>4 DEF Own, PaidOK, SameAsk, Late
    <3>8. AskedOK(q)'
      BY <1>a, <3>2, <3>3, <3>4 DEF Own, AskedOK, AsAsked, SameAsk
    <3>9. TriesOK(q)'
      BY <1>a, <3>2, <3>3, <3>4 DEF Own, TriesOK, SameAsk
    <3>10. BookedOK(q)'
      BY <1>a, <3>2, <3>3, <3>4 DEF Own, BookedOK, SameAsk
    <3> QED BY <1>a, <3>2, <3>3, <3>4, <3>5, <3>6, <3>7, <3>8, <3>9, <3>10 DEF Own, SameAsk
  <2> QED BY <2>1, <2>2
<1>11. ASSUME NEW c \in Calls, Fails(c) PROVE Own(q)'
  <2>1. CASE q # c
    BY <1>b, <1>c, <1>11, <2>1 DEF Fails, Same, lease, wire, Goes, Ends, Books, Refuse
  <2>2. CASE q = c
    BY <1>a, <1>11, <2>2, RefusalKeepsOwn DEF Fails, lease, wire, Wire
  <2> QED BY <2>1, <2>2
<1>12. ASSUME NEW c \in Calls, ExecuteGitHub(c) PROVE Own(q)'
  <2>1. CASE q # c
    BY <1>b, <1>c, <1>12, <2>1 DEF ExecuteGitHub, Same, lease, wire, Goes, Ends, Books, Refuse
  <2>2. CASE q = c
    <3>1. Moves(q, "sending", call[q].todo, call[q].grant, call[q].result)
      BY <1>b, <1>12, <2>2, RowUpdates DEF ExecuteGitHub, Goes
    <3>2. /\ SameAsk(q) /\ call'[q].at = "sending" /\ call'[q].todo = call[q].todo
          /\ call'[q].grant = call[q].grant /\ call'[q].result = call[q].result
      BY <3>1 DEF Moves
    <3>3. /\ \A l : Fits(l, q)' <=> Fits(l, q)
          /\ Wanted(q)' = Wanted(q) /\ (Changes(q)' <=> Changes(q))
          /\ (Offered(q)' <=> Offered(q))
      BY <3>2, SameAskFacts
    <3>4. call[q].at = "executing" /\ call[q].service = "github" /\ UNCHANGED <<charged[q], booked[q], reads[q], sends[q], line[q]>>
      BY <1>b, <1>12, <2>2 DEF ExecuteGitHub, lease, wire
    <3>a. sends[q] = 0 /\ reads[q] = 0 /\ call[q].face # "none"
      BY <1>a, <3>4 DEF Own, StageOK, Early
    <3>b. Attempts(Wanted(q)) \in Nat \ {0} /\ MaxRetries \in Nat
      BY EgressAssumption DEF Attempts
    <3>5. TypeRow(q)'
      BY <1>a, <3>2, <3>3, <3>4, <3>a, <3>b DEF Own, TypeRow, SameAsk, Steps, Changes
    <3>6. StageOK(q)'
      BY <1>a, <3>2, <3>3, <3>4, <3>a, <3>b DEF Own, StageOK, SameAsk, Early, Changes
    <3>7. PaidOK(q)'
      BY <1>a, <3>2, <3>3, <3>4, <3>a, <3>b DEF Own, PaidOK, SameAsk, Late, Changes
    <3>8. AskedOK(q)'
      BY <1>a, <3>2, <3>3, <3>4, <3>a, <3>b DEF Own, AskedOK, AsAsked, SameAsk, Changes
    <3>9. TriesOK(q)'
      BY <1>a, <3>2, <3>3, <3>4, <3>a, <3>b DEF Own, TriesOK, SameAsk, Changes
    <3>10. BookedOK(q)'
      BY <1>a, <3>2, <3>3, <3>4, <3>a, <3>b DEF Own, BookedOK, SameAsk, Changes
    <3> QED BY <1>a, <3>2, <3>3, <3>4, <3>a, <3>b, <3>5, <3>6, <3>7, <3>8, <3>9, <3>10 DEF Own, SameAsk
  <2> QED BY <2>1, <2>2
<1>13. ASSUME NEW c \in Calls, ExecuteCloudflare(c) PROVE Own(q)'
  <2>1. CASE q # c
    BY <1>b, <1>c, <1>13, <2>1 DEF ExecuteCloudflare, Same, lease, wire, Goes, Ends, Books, Refuse
  <2>2. CASE q = c
    <3> DEFINE at == IF call[q].operation \in ChangesBefore THEN "reading" ELSE "sending"
    <3>1. Moves(q, at, call[q].todo, call[q].grant, call[q].result)
      BY <1>b, <1>13, <2>2, RowUpdates DEF ExecuteCloudflare, Goes
    <3>2. /\ SameAsk(q) /\ call'[q].at = at /\ call'[q].todo = call[q].todo
          /\ call'[q].grant = call[q].grant /\ call'[q].result = call[q].result
      BY <3>1 DEF Moves
    <3>3. /\ \A l : Fits(l, q)' <=> Fits(l, q)
          /\ Wanted(q)' = Wanted(q) /\ (Changes(q)' <=> Changes(q))
          /\ (Offered(q)' <=> Offered(q))
      BY <3>2, SameAskFacts
    <3>4. call[q].at = "executing" /\ call[q].service = "cloudflare" /\ UNCHANGED <<charged[q], booked[q], reads[q], sends[q], line[q]>>
      BY <1>b, <1>13, <2>2 DEF ExecuteCloudflare, lease, wire
    <3>a. sends[q] = 0 /\ reads[q] = 0 /\ call[q].face # "none"
      BY <1>a, <3>4 DEF Own, StageOK, Early
    <3>b. Attempts(Wanted(q)) \in Nat \ {0} /\ MaxRetries \in Nat
      BY EgressAssumption DEF Attempts
    <3>5. TypeRow(q)'
      BY <1>a, <3>2, <3>3, <3>4, <3>a, <3>b DEF Own, TypeRow, SameAsk, Steps, Changes
    <3>6. StageOK(q)'
      BY <1>a, <3>2, <3>3, <3>4, <3>a, <3>b DEF Own, StageOK, SameAsk, Early, Changes
    <3>7. PaidOK(q)'
      BY <1>a, <3>2, <3>3, <3>4, <3>a, <3>b DEF Own, PaidOK, SameAsk, Late, Changes
    <3>8. AskedOK(q)'
      BY <1>a, <3>2, <3>3, <3>4, <3>a, <3>b DEF Own, AskedOK, AsAsked, SameAsk, Changes
    <3>9. TriesOK(q)'
      BY <1>a, <3>2, <3>3, <3>4, <3>a, <3>b DEF Own, TriesOK, SameAsk, Changes
    <3>10. BookedOK(q)'
      BY <1>a, <3>2, <3>3, <3>4, <3>a, <3>b DEF Own, BookedOK, SameAsk, Changes
    <3> QED BY <1>a, <3>2, <3>3, <3>4, <3>a, <3>b, <3>5, <3>6, <3>7, <3>8, <3>9, <3>10 DEF Own, SameAsk
  <2> QED BY <2>1, <2>2
<1>14. ASSUME NEW c \in Calls, ExecuteGeneric(c) PROVE Own(q)'
  <2>1. CASE q # c
    BY <1>b, <1>c, <1>14, <2>1 DEF ExecuteGeneric, Same, lease, wire, Goes, Ends, Books, Refuse
  <2>2. CASE q = c
    <3>i. CASE Refuse(c)
      BY <1>a, <1>14, <2>2, <3>i, RefusalKeepsOwn DEF ExecuteGeneric, lease, wire, Wire
    <3>j. CASE Goes(c, "sending") /\ UNCHANGED booked
      <4>1. Moves(q, "sending", call[q].todo, call[q].grant, call[q].result)
        BY <1>b, <1>14, <2>2, <3>j, RowUpdates DEF ExecuteGeneric, Goes
      <4>2. /\ SameAsk(q) /\ call'[q].at = "sending" /\ call'[q].todo = call[q].todo
            /\ call'[q].grant = call[q].grant /\ call'[q].result = call[q].result
        BY <4>1 DEF Moves
      <4>3. /\ \A l : Fits(l, q)' <=> Fits(l, q)
            /\ Wanted(q)' = Wanted(q) /\ (Changes(q)' <=> Changes(q))
            /\ (Offered(q)' <=> Offered(q))
        BY <4>2, SameAskFacts
      <4>4. call[q].at = "executing" /\ call[q].service = "custom" /\ UNCHANGED <<charged[q], booked[q], reads[q], sends[q], line[q]>>
        BY <1>b, <1>14, <2>2, <3>j DEF ExecuteGeneric, lease, wire
      <4>a. sends[q] = 0 /\ reads[q] = 0 /\ call[q].face # "none"
        BY <1>a, <4>4 DEF Own, StageOK, Early
      <4>b. Attempts(Wanted(q)) \in Nat \ {0} /\ MaxRetries \in Nat
        BY EgressAssumption DEF Attempts
      <4>5. TypeRow(q)'
        BY <1>a, <4>2, <4>3, <4>4, <4>a, <4>b DEF Own, TypeRow, SameAsk, Steps, Changes
      <4>6. StageOK(q)'
        BY <1>a, <4>2, <4>3, <4>4, <4>a, <4>b DEF Own, StageOK, SameAsk, Early, Changes
      <4>7. PaidOK(q)'
        BY <1>a, <4>2, <4>3, <4>4, <4>a, <4>b DEF Own, PaidOK, SameAsk, Late, Changes
      <4>8. AskedOK(q)'
        BY <1>a, <4>2, <4>3, <4>4, <4>a, <4>b DEF Own, AskedOK, AsAsked, SameAsk, Changes
      <4>9. TriesOK(q)'
        BY <1>a, <4>2, <4>3, <4>4, <4>a, <4>b DEF Own, TriesOK, SameAsk, Changes
      <4>10. BookedOK(q)'
        BY <1>a, <4>2, <4>3, <4>4, <4>a, <4>b DEF Own, BookedOK, SameAsk, Changes
      <4> QED BY <1>a, <4>2, <4>3, <4>4, <4>a, <4>b, <4>5, <4>6, <4>7, <4>8, <4>9, <4>10 DEF Own, SameAsk
    <3> QED BY <3>i, <3>j, <1>14 DEF ExecuteGeneric
  <2> QED BY <2>1, <2>2
<1>15. ASSUME NEW c \in Calls, ExecuteRefused(c) PROVE Own(q)'
  <2>1. CASE q # c
    BY <1>b, <1>c, <1>15, <2>1 DEF ExecuteRefused, Same, lease, wire, Goes, Ends, Books, Refuse
  <2>2. CASE q = c
    BY <1>a, <1>15, <2>2, RefusalKeepsOwn DEF ExecuteRefused, lease, wire, Wire
  <2> QED BY <2>1, <2>2
<1>16. ASSUME NEW c \in Calls, Read(c) PROVE Own(q)'
  <2>1. CASE q # c
    BY <1>b, <1>c, <1>16, <2>1 DEF Read, Same, lease, wire, Goes, Ends, Books, Refuse
  <2>2. CASE q = c
    <3>a. PICK o : call' = [call EXCEPT ![q] =
                 IF Again(c, o, reads[c] + 1, Capability("cloudflare", PreviewSource)) THEN @
                 ELSE IF o # "ok" THEN [@ EXCEPT !.at = "answered", !.result = "failed"]
                 ELSE IF @.face = "preview" THEN [@ EXCEPT !.at = "answered", !.result = "ok"]
                 ELSE [@ EXCEPT !.at = "sending"]]
      BY <1>16, <2>2 DEF Read
    <3>b. reads[q] \in Nat /\ MaxRetries \in Nat
      BY <1>a, EgressAssumption DEF Own
    <3>c. Again(c, o, reads[c] + 1, Capability("cloudflare", PreviewSource)) =>
              reads[q] + 1 <= MaxRetries
      BY <2>2, <3>b DEF Again, Attempts
    <3>1. \/ call'[q] = call[q] /\ reads[q] + 1 <= MaxRetries
          \/ Moves(q, "answered", call[q].todo, call[q].grant, "failed")
          \/ /\ Moves(q, "answered", call[q].todo, call[q].grant, "ok")
             /\ call[q].face = "preview"
          \/ /\ Moves(q, "sending", call[q].todo, call[q].grant, call[q].result)
             /\ call[q].face # "preview"
      <4>1. CASE Again(c, o, reads[c] + 1, Capability("cloudflare", PreviewSource))
        BY <1>b, <3>a, <3>c, <4>1
      <4>2. CASE ~Again(c, o, reads[c] + 1, Capability("cloudflare", PreviewSource)) /\ o # "ok"
        BY <1>b, <3>a, <4>2, RowUpdates
      <4>3. CASE /\ ~Again(c, o, reads[c] + 1, Capability("cloudflare", PreviewSource))
                 /\ o = "ok" /\ call[q].face = "preview"
        BY <1>b, <3>a, <4>3, RowUpdates
      <4>4. CASE /\ ~Again(c, o, reads[c] + 1, Capability("cloudflare", PreviewSource))
                 /\ o = "ok" /\ call[q].face # "preview"
        <5>1. call' = [call EXCEPT ![q].at = "sending"]
          BY <1>b, <3>a, <4>4
        <5> QED BY <1>b, <4>4, <5>1, RowUpdates
      <4> QED BY <4>1, <4>2, <4>3, <4>4
    <3>2. /\ SameAsk(q) /\ call'[q].todo = call[q].todo /\ call'[q].grant = call[q].grant
          /\ \/ /\ call'[q].at = call[q].at /\ call'[q].result = call[q].result
                /\ reads[q] + 1 <= MaxRetries
             \/ call'[q].at = "answered" /\ call'[q].result = "failed"
             \/ call'[q].at = "answered" /\ call'[q].result = "ok" /\ call[q].face = "preview"
             \/ /\ call'[q].at = "sending" /\ call'[q].result = call[q].result
                /\ call[q].face # "preview"
      BY <1>b, <3>1 DEF Moves, SameAsk
    <3>3. /\ \A l : Fits(l, q)' <=> Fits(l, q)
          /\ Wanted(q)' = Wanted(q) /\ (Changes(q)' <=> Changes(q))
          /\ (Offered(q)' <=> Offered(q))
      BY <3>2, SameAskFacts
    <3>4. /\ call[q].at = "reading" /\ reads'[q] = reads[q] + 1
          /\ UNCHANGED <<charged[q], booked[q], sends[q], line[q]>>
      BY <1>b, <1>16, <2>2 DEF Read, lease
    <3>d. /\ sends[q] = 0 /\ reads[q] <= MaxRetries /\ booked[q] = "none"
          /\ call[q].face # "none" /\ call[q].result = "none"
      BY <1>a, <3>4 DEF Own, StageOK, TriesOK
    <3>e. Attempts(Wanted(q)) \in Nat \ {0} /\ reads'[q] > 0 /\ reads'[q] <= 1 + MaxRetries
          /\ reads'[q] \in Nat
      BY <3>b, <3>4, <3>d DEF Attempts
    <3>5. TypeRow(q)'
      BY <1>a, <3>2, <3>3, <3>4, <3>d, <3>e DEF Own, TypeRow, SameAsk, Steps
    <3>6. StageOK(q)'
      BY <1>a, <3>2, <3>3, <3>4, <3>d, <3>e DEF Own, StageOK, SameAsk, Early
    <3>7. PaidOK(q)'
      BY <1>a, <3>2, <3>3, <3>4, <3>d, <3>e DEF Own, PaidOK, SameAsk, Late
    <3>8. AskedOK(q)'
      BY <1>a, <3>2, <3>3, <3>4, <3>d, <3>e DEF Own, AskedOK, AsAsked, SameAsk
    <3>9. TriesOK(q)'
      BY <1>a, <3>2, <3>3, <3>4, <3>d, <3>e DEF Own, TriesOK, SameAsk
    <3>10. BookedOK(q)'
      BY <1>a, <3>2, <3>3, <3>4, <3>d, <3>e DEF Own, BookedOK, SameAsk
    <3> QED BY <1>a, <3>2, <3>3, <3>4, <3>d, <3>e, <3>5, <3>6, <3>7, <3>8, <3>9, <3>10 DEF Own, SameAsk
  <2> QED BY <2>1, <2>2
<1>17. ASSUME NEW c \in Calls, Send(c) PROVE Own(q)'
  <2>1. CASE q # c
    BY <1>b, <1>c, <1>17, <2>1 DEF Send, Same, lease, wire, Goes, Ends, Books, Refuse
  <2>2. CASE q = c
    <3>a. PICK o : call' = [call EXCEPT ![q] =
                 IF Again(c, o, sends[c] + 1, Wanted(c)) THEN @
                 ELSE [@ EXCEPT !.at = "answered", !.result = IF o = "ok" THEN "ok" ELSE "failed"]]
      BY <1>17, <2>2 DEF Send
    <3>b. sends[q] \in Nat /\ MaxRetries \in Nat
      BY <1>a, EgressAssumption DEF Own
    <3>c. Again(c, o, sends[c] + 1, Wanted(c)) => sends[q] + 1 < Attempts(Wanted(q))
      BY <2>2 DEF Again
    <3>1. \/ call'[q] = call[q] /\ sends[q] + 1 < Attempts(Wanted(q))
          \/ Moves(q, "answered", call[q].todo, call[q].grant, "ok")
          \/ Moves(q, "answered", call[q].todo, call[q].grant, "failed")
      <4>1. CASE Again(c, o, sends[c] + 1, Wanted(c))
        BY <1>b, <3>a, <3>c, <4>1
      <4>2. CASE ~Again(c, o, sends[c] + 1, Wanted(c)) /\ o = "ok"
        BY <1>b, <3>a, <4>2, RowUpdates
      <4>3. CASE ~Again(c, o, sends[c] + 1, Wanted(c)) /\ o # "ok"
        BY <1>b, <3>a, <4>3, RowUpdates
      <4> QED BY <4>1, <4>2, <4>3
    <3>2. /\ SameAsk(q) /\ call'[q].todo = call[q].todo /\ call'[q].grant = call[q].grant
          /\ \/ /\ call'[q].at = call[q].at /\ call'[q].result = call[q].result
                /\ sends[q] + 1 < Attempts(Wanted(q))
             \/ call'[q].at = "answered" /\ call'[q].result \in {"ok", "failed"}
      BY <1>b, <3>1 DEF Moves, SameAsk
    <3>3. /\ \A l : Fits(l, q)' <=> Fits(l, q)
          /\ Wanted(q)' = Wanted(q) /\ (Changes(q)' <=> Changes(q))
          /\ (Offered(q)' <=> Offered(q))
      BY <3>2, SameAskFacts
    <3>4. /\ call[q].at = "sending" /\ sends'[q] = sends[q] + 1
          /\ line'[q] = [method |-> Wanted(q).method, query |-> NoQuery,
                path |-> BasePath[call[q].service] \o buildPath(Wanted(q), call[q].resource)]
          /\ UNCHANGED <<charged[q], booked[q], reads[q]>>
      BY <1>b, <1>17, <2>2 DEF Send, lease
    <3>d. /\ sends[q] < Attempts(Wanted(q)) /\ booked[q] = "none" /\ Offered(q)
          /\ call[q].face \notin {"none", "preview"} /\ call[q].grant # 0
      BY <1>a, <3>4 DEF Own, TypeRow, StageOK, PaidOK, TriesOK, Late
    <3>e. /\ Attempts(Wanted(q)) \in Nat /\ sends'[q] > 0 /\ sends'[q] \in Nat
          /\ sends'[q] <= Attempts(Wanted(q))
      BY <3>b, <3>4, <3>d DEF Attempts
    <3>5. TypeRow(q)'
      BY <1>a, <3>2, <3>3, <3>4, <3>d, <3>e DEF Own, TypeRow, SameAsk, Steps
    <3>6. StageOK(q)'
      BY <1>a, <3>2, <3>3, <3>4, <3>d, <3>e DEF Own, StageOK, SameAsk, Early
    <3>7. PaidOK(q)'
      BY <1>a, <3>2, <3>3, <3>4, <3>d, <3>e DEF Own, PaidOK, SameAsk, Late
    <3>8. AskedOK(q)'
      <4> SUFFICES ASSUME call[q].face = "proxy" PROVE AskedOK(q)'
        BY <3>2 DEF SameAsk, AskedOK
      <4>1. ASSUME Plain(Wanted(q).path) PROVE AsAsked(q)'
        <5>1. /\ EqualFold(Wanted(q).method, call[q].target.method)
              /\ buildPath(Wanted(q), call[q].resource) = call[q].target.path
          BY <1>a, <4>1, SentAsAsked DEF Own
        <5>2. call'[q].target = call[q].target /\ call'[q].service = call[q].service
          BY <3>2 DEF SameAsk
        <5>3. /\ line'[q].method = Wanted(q).method /\ line'[q].query = NoQuery
              /\ line'[q].path = BasePath[call[q].service] \o buildPath(Wanted(q), call[q].resource)
          <6> DEFINE p == BasePath[call[q].service] \o buildPath(Wanted(q), call[q].resource)
                     m == Wanted(q).method
          <6>1. line'[q] = [method |-> m, query |-> NoQuery, path |-> p]
            BY <3>4, Zenon
          <6> HIDE DEF p, m
          <6>2. line'[q].method = m /\ line'[q].query = NoQuery /\ line'[q].path = p
            BY <6>1
          <6> QED BY <6>2, Zenon DEF p, m
        <5>4. EqualFold(line'[q].method, call'[q].target.method)
          BY <5>1, <5>2, <5>3, Zenon
        <5>5. line'[q].path = BasePath[call'[q].service] \o call'[q].target.path
          BY <5>1, <5>2, <5>3, Zenon
        <5> QED BY <5>3, <5>4, <5>5 DEF AsAsked
      <4> QED BY <1>a, <3>2, <3>3, <4>1 DEF Own, AskedOK, SameAsk
    <3>9. TriesOK(q)'
      BY <1>a, <3>2, <3>3, <3>4, <3>d, <3>e DEF Own, TriesOK, SameAsk
    <3>10. BookedOK(q)'
      BY <1>a, <3>2, <3>3, <3>4, <3>d, <3>e DEF Own, BookedOK, SameAsk
    <3> QED BY <1>a, <3>2, <3>3, <3>4, <3>d, <3>e, <3>5, <3>6, <3>7, <3>8, <3>9, <3>10 DEF Own, SameAsk
  <2> QED BY <2>1, <2>2
<1>18. ASSUME NEW c \in Calls, SavePreview(c) PROVE Own(q)'
  <2>1. CASE q # c
    BY <1>b, <1>c, <1>18, <2>1 DEF SavePreview, Same, lease, wire, Goes, Ends, Books, Refuse
  <2>2. CASE q = c
    <3>1. PICK result \in {call[q].result, "failed"} : Ends(q, result)
      BY <1>18, <2>2 DEF SavePreview
    <3>2. /\ SameAsk(q) /\ call'[q].at = "done" /\ call'[q].todo = call[q].todo
          /\ call'[q].grant = call[q].grant /\ call'[q].result = result
      <4>1. call' = [call EXCEPT ![q] = [call[q] EXCEPT !.at = "done", !.result = result]]
        BY <3>1 DEF Ends
      <4>2. Moves(q, "done", call[q].todo, call[q].grant, result)
        BY <1>b, <4>1, RowUpdates
      <4> QED BY <4>2 DEF Moves
    <3>3. /\ \A l : Fits(l, q)' <=> Fits(l, q)
          /\ Wanted(q)' = Wanted(q) /\ (Changes(q)' <=> Changes(q))
          /\ (Offered(q)' <=> Offered(q))
      BY <3>2, SameAskFacts
    <3>4. /\ call[q].at = "answered" /\ call[q].face = "preview"
          /\ UNCHANGED <<charged[q], booked[q], reads[q], sends[q], line[q]>>
      BY <1>18, <2>2 DEF SavePreview, lease, wire
    <3>5. TypeRow(q)'
      BY <1>a, <3>1, <3>2, <3>3, <3>4 DEF Own, TypeRow, SameAsk, Steps
    <3>6. StageOK(q)'
      BY <1>a, <3>1, <3>2, <3>3, <3>4 DEF Own, StageOK, SameAsk, Early
    <3>7. PaidOK(q)'
      BY <1>a, <3>1, <3>2, <3>3, <3>4 DEF Own, PaidOK, SameAsk, Late
    <3>8. AskedOK(q)'
      BY <1>a, <3>1, <3>2, <3>3, <3>4 DEF Own, AskedOK, AsAsked, SameAsk
    <3>9. TriesOK(q)'
      BY <1>a, <3>1, <3>2, <3>3, <3>4 DEF Own, TriesOK, SameAsk
    <3>10. BookedOK(q)'
      BY <1>a, <3>1, <3>2, <3>3, <3>4 DEF Own, BookedOK, SameAsk
    <3> QED BY <1>a, <3>1, <3>2, <3>3, <3>4, <3>5, <3>6, <3>7, <3>8, <3>9, <3>10 DEF Own, SameAsk
  <2> QED BY <2>1, <2>2
<1>19. ASSUME NEW c \in Calls, RecordExecuted(c) PROVE Own(q)'
  <2>1. CASE q # c
    BY <1>b, <1>c, <1>19, <2>1 DEF RecordExecuted, Same, lease, wire, Goes, Ends, Books, Refuse
  <2>2. CASE q = c
    <3>1. PICK result \in {call[q].result, "failed"} :
             /\ Ends(q, result)
             /\ \/ UNCHANGED booked[q] /\ result = "failed"
                \/ /\ booked'[q] = IF result = "ok" THEN "succeeded" ELSE "failed"
                   /\ result = call[q].result
      BY <1>b, <1>19, <2>2 DEF RecordExecuted
    <3>2. /\ SameAsk(q) /\ call'[q].at = "done" /\ call'[q].todo = call[q].todo
          /\ call'[q].grant = call[q].grant /\ call'[q].result = result
      <4>1. call' = [call EXCEPT ![q] = [call[q] EXCEPT !.at = "done", !.result = result]]
        BY <3>1 DEF Ends
      <4>2. Moves(q, "done", call[q].todo, call[q].grant, result)
        BY <1>b, <4>1, RowUpdates
      <4> QED BY <4>2 DEF Moves
    <3>3. /\ \A l : Fits(l, q)' <=> Fits(l, q)
          /\ Wanted(q)' = Wanted(q) /\ (Changes(q)' <=> Changes(q))
          /\ (Offered(q)' <=> Offered(q))
      BY <3>2, SameAskFacts
    <3>4. /\ call[q].at = "answered" /\ call[q].face # "preview"
          /\ UNCHANGED <<charged[q], reads[q], sends[q], line[q]>>
      BY <1>19, <2>2 DEF RecordExecuted, lease, wire
    <3>a. call[q].result = "ok" => sends[q] > 0
      BY <1>a, <3>4 DEF Own, TriesOK
    <3>b. booked[q] = "none" /\ call[q].face # "none"
      BY <1>a, <3>4 DEF Own, StageOK
    <3>5. TypeRow(q)'
      BY <1>a, <3>1, <3>2, <3>3, <3>4, <3>a, <3>b DEF Own, TypeRow, SameAsk, Steps
    <3>6. StageOK(q)'
      BY <1>a, <3>1, <3>2, <3>3, <3>4, <3>a, <3>b DEF Own, StageOK, SameAsk, Early
    <3>7. PaidOK(q)'
      BY <1>a, <3>1, <3>2, <3>3, <3>4, <3>a, <3>b DEF Own, PaidOK, SameAsk, Late
    <3>8. AskedOK(q)'
      BY <1>a, <3>1, <3>2, <3>3, <3>4, <3>a, <3>b DEF Own, AskedOK, AsAsked, SameAsk
    <3>9. TriesOK(q)'
      BY <1>a, <3>1, <3>2, <3>3, <3>4, <3>a, <3>b DEF Own, TriesOK, SameAsk
    <3>10. BookedOK(q)'
      BY <1>a, <3>1, <3>2, <3>3, <3>4, <3>a, <3>b DEF Own, BookedOK, SameAsk
    <3> QED BY <1>a, <3>1, <3>2, <3>3, <3>4, <3>a, <3>b, <3>5, <3>6, <3>7, <3>8, <3>9, <3>10 DEF Own, SameAsk
  <2> QED BY <2>1, <2>2
<1>20. ASSUME NEW c \in Calls, Leaves(c) PROVE Own(q)'
  BY <1>c, <1>20 DEF Leaves, lease, wire, Same
<1>21. ASSUME NEW l \in Leases, Revoke(l) PROVE Own(q)'
  BY <1>c, <1>21 DEF Revoke, wire, Same
<1>22. CASE Tick
  BY <1>c, <1>22 DEF Tick, wire, Same
<1>23. CASE UNCHANGED vars
  BY <1>c, <1>23 DEF vars, Same
<1> QED BY <1>1, <1>2, <1>3, <1>4, <1>5, <1>6, <1>7, <1>8, <1>9, <1>10, <1>11, <1>12,
       <1>13, <1>14, <1>15, <1>16, <1>17, <1>18, <1>19, <1>20, <1>21, <1>22, <1>23 DEF Next, Step
-----------------------------------------------------------------------------
(* Every step keeps what is said of the leases *)

LEMMA WorldStep == IInv /\ [Next]_vars => World'
<1> SUFFICES ASSUME IInv, [Next]_vars PROVE World'
  OBVIOUS
<1>a. World /\ \A c \in Calls : Own(c)
  BY IInvParts
<1>1. ASSUME NEW c \in Calls, Ask(c) PROVE World'
  BY <1>a, <1>1 DEF Ask, World, Goes, Ends, Books, Refuse, lease, wire
<1>2. ASSUME NEW c \in Calls, AskRefused(c) PROVE World'
  BY <1>a, <1>2 DEF AskRefused, World, Goes, Ends, Books, Refuse, lease, wire
<1>3. ASSUME NEW c \in Calls, List(c) PROVE World'
  BY <1>a, <1>3 DEF List, World, Goes, Ends, Books, Refuse, lease, wire
<1>4. ASSUME NEW c \in Calls, Skip(c) PROVE World'
  BY <1>a, <1>4 DEF Skip, World, Goes, Ends, Books, Refuse, lease, wire
<1>5. ASSUME NEW c \in Calls, Charge(c) PROVE World'
  <2> DEFINE l == First(call[c].todo)
  <2>1. l \in Leases /\ used[l] < Limit[l] /\ used' = [used EXCEPT ![l] = @ + 1]
    <3>1. call[c].todo # {} /\ call[c].todo \subseteq Leases
      BY <1>a, <1>5 DEF Charge, Own, TypeRow
    <3> QED BY <3>1, <1>5, FirstIsOne DEF Charge, Consumable
  <2> HIDE DEF l
  <2>2. used[l] \in Nat /\ Limit[l] \in Nat
    BY <1>a, <2>1, EgressAssumption DEF World
  <2>3. used' \in [Leases -> Nat] /\ \A k \in Leases : used'[k] <= Limit[k]
    BY <1>a, <2>1, <2>2 DEF World
  <2>4. /\ UNCHANGED <<now, closed, wire, booked, gone>>
        /\ DOMAIN call' = DOMAIN call /\ charged' = [charged EXCEPT ![c] = @ \cup {l}]
    BY <1>5 DEF Charge, l
  <2>5. charged' \in [Calls -> SUBSET Leases]
    BY <1>a, <2>1, <2>4 DEF World
  <2> QED BY <1>a, <2>3, <2>4, <2>5 DEF World, wire
<1>6. ASSUME NEW c \in Calls, Exhaust(c) PROVE World'
  <2> DEFINE l == First(call[c].todo)
  <2>1. l \in Leases
    <3>1. call[c].at = "spent"
      BY <1>6 DEF Exhaust
    <3>2. call[c].todo # {} /\ call[c].todo \subseteq Leases
      BY <1>a, <3>1 DEF Own, PaidOK, TypeRow
    <3> QED BY <3>2, FirstIsOne
  <2>2. /\ UNCHANGED <<now, used, charged, wire, booked, gone>>
        /\ DOMAIN call' = DOMAIN call /\ closed' \in {closed, closed \cup {l}}
    BY <1>6 DEF Exhaust
  <2> HIDE DEF l
  <2> QED BY <1>a, <2>1, <2>2 DEF World, wire
<1>7. ASSUME NEW c \in Calls, NoLease(c) PROVE World'
  BY <1>a, <1>7 DEF NoLease, World, Goes, Ends, Books, Refuse, lease, wire
<1>8. ASSUME NEW c \in Calls, Call(c) PROVE World'
  BY <1>a, <1>8 DEF Call, World, Goes, Ends, Books, Refuse, lease, wire
<1>9. ASSUME NEW c \in Calls, Preview(c) PROVE World'
  BY <1>a, <1>9 DEF Preview, World, Goes, Ends, Books, Refuse, lease, wire
<1>10. ASSUME NEW c \in Calls, Fetch(c) PROVE World'
  BY <1>a, <1>10 DEF Fetch, World, Goes, Ends, Books, Refuse, lease, wire
<1>11. ASSUME NEW c \in Calls, Fails(c) PROVE World'
  BY <1>a, <1>11 DEF Fails, World, Goes, Ends, Books, Refuse, lease, wire
<1>12. ASSUME NEW c \in Calls, ExecuteGitHub(c) PROVE World'
  BY <1>a, <1>12 DEF ExecuteGitHub, World, Goes, Ends, Books, Refuse, lease, wire
<1>13. ASSUME NEW c \in Calls, ExecuteCloudflare(c) PROVE World'
  BY <1>a, <1>13 DEF ExecuteCloudflare, World, Goes, Ends, Books, Refuse, lease, wire
<1>14. ASSUME NEW c \in Calls, ExecuteGeneric(c) PROVE World'
  BY <1>a, <1>14 DEF ExecuteGeneric, World, Goes, Ends, Books, Refuse, lease, wire
<1>15. ASSUME NEW c \in Calls, ExecuteRefused(c) PROVE World'
  BY <1>a, <1>15 DEF ExecuteRefused, World, Goes, Ends, Books, Refuse, lease, wire
<1>16. ASSUME NEW c \in Calls, Read(c) PROVE World'
  BY <1>a, <1>16 DEF Read, World, Goes, Ends, Books, Refuse, lease, wire
<1>17. ASSUME NEW c \in Calls, Send(c) PROVE World'
  BY <1>a, <1>17 DEF Send, World, Goes, Ends, Books, Refuse, lease, wire
<1>18. ASSUME NEW c \in Calls, SavePreview(c) PROVE World'
  BY <1>a, <1>18 DEF SavePreview, World, Goes, Ends, Books, Refuse, lease, wire
<1>19. ASSUME NEW c \in Calls, RecordExecuted(c) PROVE World'
  BY <1>a, <1>19 DEF RecordExecuted, World, Goes, Ends, Books, Refuse, lease, wire
<1>20. ASSUME NEW c \in Calls, Leaves(c) PROVE World'
  BY <1>a, <1>20 DEF Leaves, World, Goes, Ends, Books, Refuse, lease, wire
<1>21. ASSUME NEW l \in Leases, Revoke(l) PROVE World'
  BY <1>a, <1>21 DEF Revoke, World, wire
<1>22. CASE Tick
  BY <1>a, <1>22, EgressAssumption DEF Tick, World, wire
<1>23. CASE UNCHANGED vars
  BY <1>a, <1>23 DEF vars, World
<1> QED BY <1>1, <1>2, <1>3, <1>4, <1>5, <1>6, <1>7, <1>8, <1>9, <1>10, <1>11, <1>12,
       <1>13, <1>14, <1>15, <1>16, <1>17, <1>18, <1>19, <1>20, <1>21, <1>22, <1>23 DEF Next, Step

\* A use of a lease and the entry of its call in the users of the lease are one
\* step, and no call uses a lease twice.
LEMMA CountedStep == IInv /\ [Next]_vars => Counted'
<1> SUFFICES ASSUME IInv, [Next]_vars PROVE Counted'
  OBVIOUS
<1>a. World /\ \A c \in Calls : Own(c)
  BY IInvParts
<1>b. Counted
  BY IInvParts
<1>c. UNCHANGED <<used, charged>> => Counted'
  BY <1>b DEF Counted, Users
<1>1. ASSUME NEW c \in Calls, Ask(c) PROVE Counted'
  BY <1>c, <1>1 DEF Ask, lease
<1>2. ASSUME NEW c \in Calls, AskRefused(c) PROVE Counted'
  BY <1>c, <1>2 DEF AskRefused, lease
<1>3. ASSUME NEW c \in Calls, List(c) PROVE Counted'
  BY <1>c, <1>3 DEF List, lease
<1>4. ASSUME NEW c \in Calls, Skip(c) PROVE Counted'
  BY <1>c, <1>4 DEF Skip, lease
<1>5. ASSUME NEW c \in Calls, Charge(c) PROVE Counted'
  <2> DEFINE l == First(call[c].todo)
  <2>1. call[c].at = "authorizing" /\ l \in call[c].todo /\ l \in Leases
    <3>1. call[c].at = "authorizing" /\ call[c].todo # {} /\ call[c].todo \subseteq Leases
      BY <1>a, <1>5 DEF Charge, Own, TypeRow
    <3> QED BY <3>1, FirstIsOne
  <2>2. l \notin charged[c]
    BY <1>a, <2>1 DEF Own, PaidOK
  <2>3. /\ used' = [used EXCEPT ![l] = @ + 1]
        /\ charged' = [charged EXCEPT ![c] = @ \cup {l}]
    BY <1>5 DEF Charge
  <2> HIDE DEF l
  <2>4. DOMAIN charged = Calls /\ used \in [Leases -> Nat]
    BY <1>a DEF World
  <2>5. ASSUME NEW k \in Leases
        PROVE  IsFiniteSet(Users(k)') /\ used'[k] = Cardinality(Users(k)')
    <3>1. CASE k # l
      <4>1. Users(k)' = Users(k) /\ used'[k] = used[k]
        BY <2>1, <2>3, <2>4, <3>1 DEF Users
      <4> QED BY <1>b, <4>1 DEF Counted
    <3>2. CASE k = l
      <4>1. Users(k)' = Users(k) \cup {c} /\ c \notin Users(k)
        BY <2>2, <2>3, <2>4, <3>2 DEF Users
      <4>2. used'[k] = used[k] + 1
        BY <2>1, <2>3, <2>4, <3>2
      <4>3. IsFiniteSet(Users(k)) /\ used[k] = Cardinality(Users(k))
        BY <1>b DEF Counted
      <4>4. /\ IsFiniteSet(Users(k) \cup {c})
            /\ Cardinality(Users(k) \cup {c}) = Cardinality(Users(k)) + 1
        BY <4>1, <4>3, FS_AddElement
      <4> QED BY <4>1, <4>2, <4>3, <4>4
    <3> QED BY <3>1, <3>2
  <2> QED BY <2>5 DEF Counted
<1>6. ASSUME NEW c \in Calls, Exhaust(c) PROVE Counted'
  BY <1>c, <1>6 DEF Exhaust
<1>7. ASSUME NEW c \in Calls, NoLease(c) PROVE Counted'
  BY <1>c, <1>7 DEF NoLease, lease
<1>8. ASSUME NEW c \in Calls, Call(c) PROVE Counted'
  BY <1>c, <1>8 DEF Call, lease
<1>9. ASSUME NEW c \in Calls, Preview(c) PROVE Counted'
  BY <1>c, <1>9 DEF Preview, lease
<1>10. ASSUME NEW c \in Calls, Fetch(c) PROVE Counted'
  BY <1>c, <1>10 DEF Fetch, lease
<1>11. ASSUME NEW c \in Calls, Fails(c) PROVE Counted'
  BY <1>c, <1>11 DEF Fails, lease
<1>12. ASSUME NEW c \in Calls, ExecuteGitHub(c) PROVE Counted'
  BY <1>c, <1>12 DEF ExecuteGitHub, lease
<1>13. ASSUME NEW c \in Calls, ExecuteCloudflare(c) PROVE Counted'
  BY <1>c, <1>13 DEF ExecuteCloudflare, lease
<1>14. ASSUME NEW c \in Calls, ExecuteGeneric(c) PROVE Counted'
  BY <1>c, <1>14 DEF ExecuteGeneric, lease
<1>15. ASSUME NEW c \in Calls, ExecuteRefused(c) PROVE Counted'
  BY <1>c, <1>15 DEF ExecuteRefused, lease
<1>16. ASSUME NEW c \in Calls, Read(c) PROVE Counted'
  BY <1>c, <1>16 DEF Read, lease
<1>17. ASSUME NEW c \in Calls, Send(c) PROVE Counted'
  BY <1>c, <1>17 DEF Send, lease
<1>18. ASSUME NEW c \in Calls, SavePreview(c) PROVE Counted'
  BY <1>c, <1>18 DEF SavePreview, lease
<1>19. ASSUME NEW c \in Calls, RecordExecuted(c) PROVE Counted'
  BY <1>c, <1>19 DEF RecordExecuted, lease
<1>20. ASSUME NEW c \in Calls, Leaves(c) PROVE Counted'
  BY <1>c, <1>20 DEF Leaves, lease
<1>21. ASSUME NEW l \in Leases, Revoke(l) PROVE Counted'
  BY <1>c, <1>21 DEF Revoke
<1>22. CASE Tick
  BY <1>c, <1>22 DEF Tick
<1>23. CASE UNCHANGED vars
  BY <1>c, <1>23 DEF vars
<1> QED BY <1>1, <1>2, <1>3, <1>4, <1>5, <1>6, <1>7, <1>8, <1>9, <1>10, <1>11, <1>12,
       <1>13, <1>14, <1>15, <1>16, <1>17, <1>18, <1>19, <1>20, <1>21, <1>22, <1>23 DEF Next, Step

-----------------------------------------------------------------------------
(* The invariant holds *)

LEMMA InitHolds == Init => IInv
<1> SUFFICES ASSUME Init PROVE IInv
  OBVIOUS
<1>1. /\ Idle.at = "idle" /\ Idle.face = "none" /\ Idle.grant = 0 /\ Idle.todo = {}
      /\ Idle.result = "none"
  BY DEF Idle
<1>2. \A c \in Calls : /\ call[c] = Idle /\ charged[c] = {} /\ reads[c] = 0 /\ sends[c] = 0
                       /\ booked[c] = "none"
  BY DEF Init
<1>3. TypeOK
  <2>1. \A l \in Leases : used[l] <= Limit[l]
    BY EgressAssumption DEF Init
  <2>2. \A c \in Calls :
          /\ call[c].at \in Steps
          /\ call[c].face \in {"none", "proxy", "mcp", "preview"}
          /\ call[c].grant \in Leases \cup {0}
          /\ call[c].todo \subseteq Leases
          /\ call[c].at \notin {"executing", "reading", "sending", "answered"}
          /\ call[c].result \in {"none", "refused", "ok", "failed"}
    BY <1>1, <1>2 DEF Steps
  <2>3. /\ now \in 0..Horizon /\ closed \subseteq Leases /\ used \in [Leases -> Nat]
        /\ charged \in [Calls -> SUBSET Leases]
        /\ reads \in [Calls -> Nat] /\ sends \in [Calls -> Nat]
        /\ booked \in [Calls -> {"none", "blocked", "succeeded", "failed"}]
        /\ gone \subseteq Calls
    BY EgressAssumption DEF Init
  <2> QED BY <2>1, <2>2, <2>3 DEF TypeOK
<1>4. Shape
  BY <1>2 DEF Init, Shape
<1>5. ASSUME NEW c \in Calls PROVE StageOK(c) /\ PaidOK(c) /\ AskedOK(c) /\ TriesOK(c)
  <2>1. StageOK(c) /\ PaidOK(c)
    BY <1>1, <1>2 DEF StageOK, PaidOK, Late, Early
  <2>2. AskedOK(c) /\ TriesOK(c)
    BY <1>1, <1>2, EgressAssumption DEF AskedOK, TriesOK
  <2> QED BY <2>1, <2>2
<1>6. Counted
  <2>1. \A l \in Leases : Users(l) = {} /\ used[l] = 0
    BY <1>2 DEF Init, Users
  <2> QED BY <2>1, FS_EmptySet DEF Counted
<1>7. BookedAsHappened
  BY <1>1, <1>2 DEF BookedAsHappened
<1> QED BY <1>3, <1>4, <1>5, <1>6, <1>7 DEF IInv

LEMMA Invariance == IInv /\ [Next]_vars => IInv'
<1> SUFFICES ASSUME IInv, [Next]_vars PROVE IInv'
  OBVIOUS
<1>1. World' /\ Counted' /\ \A c \in Calls : Own(c)'
  BY WorldStep, CountedStep, OwnStep
<1>2. TypeOK'
  <2>2. \A c \in Calls : TypeRow(c)'
    BY <1>1 DEF Own
  <2> QED BY <1>1, <2>2 DEF World, TypeRow, TypeOK, Offered
<1>3. Shape'
  BY <1>1 DEF World, Own, Shape
<1>4. \A c \in Calls : StageOK(c)' /\ PaidOK(c)' /\ AskedOK(c)' /\ TriesOK(c)'
  BY <1>1 DEF Own
<1>5. BookedAsHappened'
  BY <1>1 DEF Own, BookedOK, BookedAsHappened
<1> QED BY <1>1, <1>2, <1>3, <1>4, <1>5 DEF IInv

LEMMA Inductive == Spec => []IInv
<1> QED BY InitHolds, Invariance, PTL DEF Spec

-----------------------------------------------------------------------------
(* The theorems *)

\* Every state is of its type: no lease is used above its limit, and a call that
\* goes on to an adapter asks for an operation that is declared.
THEOREM EgressTypes == Spec => []TypeOK
<1>1. IInv => TypeOK
  BY DEF IInv
<1> QED BY <1>1, Inductive, PTL

\* An operation leaves only on a lease of its agent for just that operation and
\* resource, of which this call used up one request (ConsumeLease); what MatchPath took
\* apart and buildPath put together again is the path asked of the proxy, and is sent
\* under the service's base URL; the uses of a lease are those of its calls.
THEOREM SentIsPaid == Spec => []SentIsPaidFor
<1>1. IInv => SentIsPaidFor
  <2> SUFFICES ASSUME IInv PROVE SentIsPaidFor
    OBVIOUS
  <2>1. ASSUME NEW c \in Calls, sends[c] > 0
        PROVE  /\ call[c].face # "preview"
               /\ call[c].grant \in charged[c]
               /\ Scope[call[c].grant].agent = call[c].agent
               /\ Scope[call[c].grant].operation = call[c].operation
               /\ Scope[call[c].grant].resource = call[c].resource
               /\ call[c].face = "proxy" /\ Plain(Wanted(c).path) => AsAsked(c)
    <3>1. PaidOK(c) /\ AskedOK(c)
      BY DEF IInv
    <3>2. call[c].face # "preview" /\ call[c].grant \in charged[c] /\ Fits(call[c].grant, c)
      BY <2>1, <3>1 DEF PaidOK
    <3>3. call[c].face = "proxy" /\ Plain(Wanted(c).path) => AsAsked(c)
      BY <2>1, <3>1 DEF AskedOK
    <3> QED BY <3>2, <3>3 DEF Fits
  <2>2. \A l \in Leases : used[l] = Cardinality({c \in Calls : l \in charged[c]})
    BY DEF IInv, Counted, Users
  <2> QED BY <2>1, <2>2 DEF SentIsPaidFor
<1> QED BY <1>1, Inductive, PTL

\* An operation that is not idempotent is sent once at most, whatever the outbound
\* client loses, and a change of a record only after an answer to its read.
THEOREM NothingIsSentTwice == Spec => []SentAtMostOnce
<1>1. IInv => SentAtMostOnce
  BY DEF IInv, TriesOK, Attempts, Changes, SentAtMostOnce
<1> QED BY <1>1, Inductive, PTL

\* A request entered as blocked sent nothing, one entered as succeeded was sent, and
\* an answer is handed over only once it is in the ledger (RecordExecuted).
THEOREM TheLedgerSaysWhatLeft == Spec => []BookedAsHappened
<1>1. IInv => BookedAsHappened
  BY DEF IInv
<1> QED BY <1>1, Inductive, PTL

=============================================================================
