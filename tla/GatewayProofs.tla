--------------------------- MODULE GatewayProofs ----------------------------
(***************************************************************************)
(* Proofs about the life of the process, for any number of requests,       *)
(* consoles and breaking faces and a buffer of any size: a console is told *)
(* what is in the database, and the database is closed last.               *)
(***************************************************************************)
EXTENDS Gateway, SequenceTheorems, TLAPS

-----------------------------------------------------------------------------
(* The inductive invariant *)

\* What a console has been given or will be given.
Had(s) == stream[s].seen \o stream[s].buffer

\* had comes from what was broadcast after the first from events, in its order, and
\* for an open channel that cannot have been full it is all of it.
Tells(had, broadcast, from, open) ==
    /\ \A i \in 1..Len(had) :
          \E k \in 1..Len(broadcast) : from < k /\ broadcast[k] = had[i]
    /\ \A i, j \in 1..Len(had) : i < j =>
          \E k, l \in 1..Len(broadcast) :
             from < k /\ k < l /\ broadcast[k] = had[i] /\ broadcast[l] = had[j]
    /\ open /\ Len(broadcast) <= from + Buffer =>
          /\ Len(broadcast) = from + Len(had)
          /\ \A i \in 1..Len(had) : had[i] = broadcast[from + i]

StreamOK(s) ==
    /\ stream[s].at # "live" =>
          ~stream[s].open /\ stream[s].buffer = <<>> /\ stream[s].seen = <<>>
    /\ Tells(Had(s), published, stream[s].from, stream[s].open)

StreamRow == [at : {"new", "arrived", "live", "over"}, open : BOOLEAN, from : Nat,
              buffer : Seq(Events), seen : Seq(Events)]

\* What a request announces is in the database, and it announces each thing once.
Announced ==
    /\ \A c \in Calls : call[c] = "decided" => c \in stored
    /\ \A c \in Calls : call[c] # "decided" => owes[c] = {}
    /\ \A i \in 1..Len(published) :
          /\ call[published[i].call] \in {"decided", "over"} /\ published[i].call \in stored
          /\ published[i].type \notin owes[published[i].call]
    /\ \A i, j \in 1..Len(published) : published[i] = published[j] => i = j

\* What is over and what has not begun, at each step of Run.
LifeOK ==
    /\ run = "listening" => sweeper = "off" /\ \A f \in Faces : face[f] \in {"unbound", "bound"}
    /\ run \in {"returned", "closed"} =>
          /\ sweeper \in {"off", "ended"}
          /\ \A f \in Faces : face[f] \in {"unbound", "bound"} \cup Ended
    /\ run = "closed" => broker = "closed" /\ up = "stopped"
    /\ db = "closed" => run = "closed"

\* A face that serves nothing yet, or that has drained, has no request.
Quiet == \A f \in Faces : face[f] \in {"unbound", "bound", "drained"} => ~InFlight(f)

IInv ==
    /\ TypeOK
    /\ stream \in [Streams -> StreamRow]
    /\ Announced
    /\ LifeOK
    /\ Quiet
    /\ \A s \in Streams : StreamOK(s)

-----------------------------------------------------------------------------
(* Sequences of events *)

\* What is written to the console was taken from its buffer.
LEMMA PumpedIsKept ==
    ASSUME NEW S, NEW seen \in Seq(S), NEW buffer \in Seq(S), buffer # <<>>
    PROVE  /\ Append(seen, Head(buffer)) \o Tail(buffer) = seen \o buffer
           /\ Append(seen, Head(buffer)) \in Seq(S) /\ Tail(buffer) \in Seq(S)
           /\ Len(Tail(buffer)) = Len(buffer) - 1 /\ Len(buffer) \in Nat \ {0}
<1> DEFINE a == Append(seen, Head(buffer))
           b == Tail(buffer)
<1>1. /\ Head(buffer) \in S /\ b \in Seq(S) /\ Len(b) = Len(buffer) - 1
      /\ \A i \in 1..Len(b) : b[i] = buffer[i + 1]
      /\ Len(buffer) \in Nat \ {0} /\ Head(buffer) = buffer[1]
  BY HeadTailProperties, EmptySeq
<1>2. /\ a \in Seq(S) /\ Len(a) = Len(seen) + 1 /\ Len(seen) \in Nat
      /\ \A i \in 1..Len(seen) : a[i] = seen[i]
      /\ a[Len(seen) + 1] = buffer[1]
  BY <1>1, AppendProperties, LenProperties
<1> HIDE DEF a, b
<1>0. /\ a \o b \in Seq(S) /\ Len(a \o b) = Len(a) + Len(b)
      /\ \A i \in 1..Len(a) + Len(b) : (a \o b)[i] = IF i <= Len(a) THEN a[i] ELSE b[i - Len(a)]
  BY <1>1, <1>2, ConcatProperties
<1>3. /\ a \o b \in Seq(S) /\ Len(a \o b) = Len(seen) + Len(buffer)
      /\ \A i \in 1..Len(seen) + Len(buffer) :
            (a \o b)[i] = IF i <= Len(a) THEN a[i] ELSE b[i - Len(a)]
  <2>1. Len(a) + Len(b) = Len(seen) + Len(buffer)
    BY <1>1, <1>2
  <2> QED BY <1>0, <2>1
<1>4. /\ seen \o buffer \in Seq(S) /\ Len(seen \o buffer) = Len(seen) + Len(buffer)
      /\ \A i \in 1..Len(seen) + Len(buffer) : (seen \o buffer)[i] =
            IF i <= Len(seen) THEN seen[i] ELSE buffer[i - Len(seen)]
  BY ConcatProperties
<1>5. ASSUME NEW i \in 1..Len(a \o b) PROVE (a \o b)[i] = (seen \o buffer)[i]
  <2>1. CASE i <= Len(seen)
    BY <1>1, <1>2, <1>3, <1>4, <2>1
  <2>2. CASE i = Len(seen) + 1
    BY <1>1, <1>2, <1>3, <1>4, <2>2
  <2>3. CASE i > Len(seen) + 1
    <3>1. i - Len(a) \in 1..Len(b) /\ i - Len(a) + 1 = i - Len(seen)
      BY <1>1, <1>2, <1>3, <2>3
    <3>2. (a \o b)[i] = b[i - Len(a)]
      BY <1>2, <1>3, <2>3
    <3>3. (seen \o buffer)[i] = buffer[i - Len(seen)]
      BY <1>2, <1>3, <1>4, <2>3
    <3>4. b[i - Len(a)] = buffer[i - Len(a) + 1]
      BY <1>1, <3>1
    <3> QED BY <3>1, <3>2, <3>3, <3>4
  <2> QED BY <1>1, <1>2, <1>3, <2>1, <2>2, <2>3
<1>6. a \o b = seen \o buffer
  BY <1>3, <1>4, <1>5, SeqEqual
<1> QED BY <1>1, <1>2, <1>6 DEF a, b

\* An event that is put into the buffer is the last the console has.
LEMMA BufferedIsLast ==
    ASSUME NEW S, NEW seen \in Seq(S), NEW buffer \in Seq(S), NEW c \in S
    PROVE  seen \o Append(buffer, c) = Append(seen \o buffer, c)
<1> DEFINE a == Append(buffer, c)
           h == seen \o buffer
           g == Append(h, c)
<1>1. /\ a \in Seq(S) /\ Len(a) = Len(buffer) + 1 /\ Len(buffer) \in Nat /\ Len(seen) \in Nat
      /\ \A i \in 1..Len(buffer) : a[i] = buffer[i]
      /\ a[Len(buffer) + 1] = c
  BY AppendProperties, LenProperties
<1>2. /\ h \in Seq(S) /\ Len(h) = Len(seen) + Len(buffer)
      /\ \A i \in 1..Len(seen) + Len(buffer) : h[i] =
            IF i <= Len(seen) THEN seen[i] ELSE buffer[i - Len(seen)]
  BY ConcatProperties
<1>3. /\ g \in Seq(S) /\ Len(g) = Len(h) + 1 /\ \A i \in 1..Len(h) : g[i] = h[i]
      /\ g[Len(h) + 1] = c
  BY <1>2, AppendProperties, LenProperties
<1> HIDE DEF a, g
<1>4. /\ seen \o a \in Seq(S) /\ Len(seen \o a) = Len(seen) + Len(a)
      /\ \A i \in 1..Len(seen) + Len(a) : (seen \o a)[i] =
            IF i <= Len(seen) THEN seen[i] ELSE a[i - Len(seen)]
  BY <1>1, ConcatProperties
<1> HIDE DEF h
<1>5. ASSUME NEW i \in 1..Len(seen \o a) PROVE (seen \o a)[i] = g[i]
  <2>0. /\ i \in 1..(Len(seen) + Len(a))
        /\ i # Len(h) + 1 => i \in 1..Len(h) /\ i \in 1..Len(seen) + Len(buffer)
    BY <1>1, <1>2, <1>4
  <2>1. CASE i <= Len(seen)
    <3>1. (seen \o a)[i] = seen[i] /\ h[i] = seen[i] /\ g[i] = h[i]
      BY <1>1, <1>2, <1>3, <1>4, <2>0, <2>1
    <3> QED BY <3>1
  <2>2. CASE i > Len(seen) /\ i # Len(h) + 1
    <3>1. i - Len(seen) \in 1..Len(buffer)
      BY <1>1, <1>2, <2>0, <2>2
    <3>2. (seen \o a)[i] = a[i - Len(seen)]
      BY <1>1, <1>4, <2>0, <2>2
    <3>3. h[i] = buffer[i - Len(seen)]
      BY <1>1, <1>2, <2>0, <2>2
    <3>4. g[i] = h[i] /\ a[i - Len(seen)] = buffer[i - Len(seen)]
      BY <1>1, <1>3, <2>0, <2>2, <3>1
    <3> QED BY <3>2, <3>3, <3>4
  <2>3. CASE i = Len(h) + 1
    <3>1. (seen \o a)[i] = a[i - Len(seen)] /\ i - Len(seen) = Len(buffer) + 1
      BY <1>1, <1>2, <1>4, <2>0, <2>3
    <3> QED BY <1>1, <1>3, <2>3, <3>1
  <2> QED BY <1>1, <1>2, <1>4, <2>1, <2>2, <2>3
<1>6. seen \o a = g
  BY <1>1, <1>2, <1>3, <1>4, <1>5, SeqEqual
<1> QED BY <1>6 DEF a, g, h

\* An event that the channel takes.
LEMMA TellsMore ==
    ASSUME NEW had \in Seq(Events), NEW told \in Seq(Events), NEW from \in 0..Len(told),
           NEW c \in Events, Tells(had, told, from, TRUE)
    PROVE  Tells(Append(had, c), Append(told, c), from, TRUE)
<1> DEFINE h == Append(had, c)
           t == Append(told, c)
<1>1. /\ Len(h) = Len(had) + 1 /\ Len(had) \in Nat
      /\ \A i \in 1..Len(had) : h[i] = had[i]
      /\ h[Len(had) + 1] = c
  BY AppendProperties, LenProperties
<1>2. /\ Len(t) = Len(told) + 1 /\ Len(told) \in Nat
      /\ \A i \in 1..Len(told) : t[i] = told[i]
      /\ t[Len(told) + 1] = c
  BY AppendProperties, LenProperties
<1> HIDE DEF h, t
<1>3. ASSUME NEW i \in 1..Len(h)
      PROVE  \E k \in 1..Len(t) : from < k /\ t[k] = h[i]
  <2>1. CASE i = Len(had) + 1
    BY <1>1, <1>2, <2>1
  <2>2. CASE i # Len(had) + 1
    <3>1. i \in 1..Len(had)
      BY <1>1, <2>2
    <3>2. PICK k \in 1..Len(told) : from < k /\ told[k] = had[i]
      BY <3>1 DEF Tells
    <3>3. k \in 1..Len(t) /\ t[k] = h[i]
      BY <1>1, <1>2, <3>1, <3>2
    <3> QED BY <3>2, <3>3
  <2> QED BY <2>1, <2>2
<1>4. ASSUME NEW i \in 1..Len(h), NEW j \in 1..Len(h), i < j
      PROVE  \E k, l \in 1..Len(t) : from < k /\ k < l /\ t[k] = h[i] /\ t[l] = h[j]
  <2>0. i \in 1..Len(had)
    BY <1>1, <1>4
  <2>1. CASE j = Len(had) + 1
    <3>1. PICK k \in 1..Len(told) : from < k /\ told[k] = had[i]
      BY <2>0 DEF Tells
    <3>2. k \in 1..Len(t) /\ k < Len(t) /\ Len(t) \in 1..Len(t) /\ t[k] = h[i] /\ t[Len(t)] = h[j]
      BY <1>1, <1>2, <2>0, <2>1, <3>1
    <3> QED BY <3>1, <3>2
  <2>2. CASE j # Len(had) + 1
    <3>1. j \in 1..Len(had)
      BY <1>1, <2>2
    <3>2. PICK k \in 1..Len(told), l \in 1..Len(told) :
             from < k /\ k < l /\ told[k] = had[i] /\ told[l] = had[j]
      BY <1>4, <2>0, <3>1 DEF Tells
    <3>3. k \in 1..Len(t) /\ l \in 1..Len(t) /\ t[k] = h[i] /\ t[l] = h[j]
      BY <1>1, <1>2, <2>0, <3>1, <3>2
    <3> QED BY <3>2, <3>3
  <2> QED BY <2>1, <2>2
<1>5. ASSUME Len(t) <= from + Buffer
      PROVE  Len(t) = from + Len(h) /\ \A i \in 1..Len(h) : h[i] = t[from + i]
  <2>1. Len(told) <= from + Buffer
    BY <1>2, <1>5, BoundAssumption
  <2>2. Len(told) = from + Len(had) /\ \A i \in 1..Len(had) : had[i] = told[from + i]
    BY <2>1 DEF Tells
  <2>3. ASSUME NEW i \in 1..Len(h) PROVE h[i] = t[from + i]
    <3>1. CASE i = Len(had) + 1
      BY <1>1, <1>2, <2>2, <3>1
    <3>2. CASE i # Len(had) + 1
      <4>1. i \in 1..Len(had) /\ from + i \in 1..Len(told)
        BY <1>1, <1>2, <2>2, <3>2
      <4> QED BY <1>1, <1>2, <2>2, <4>1
    <3> QED BY <3>1, <3>2
  <2>4. Len(t) = from + Len(h)
    BY <1>1, <1>2, <2>2
  <2> QED BY <2>3, <2>4
<1>6. Tells(h, t, from, TRUE)
  BY <1>3, <1>4, <1>5 DEF Tells
<1> QED BY <1>6 DEF h, t

\* An event that the channel does not take: it is closed or full.
LEMMA TellsNoMore ==
    ASSUME NEW had \in Seq(Events), NEW told \in Seq(Events), NEW from \in 0..Len(told),
           NEW c \in Events, NEW open \in BOOLEAN, Tells(had, told, from, open),
           open => Len(had) >= Buffer
    PROVE  Tells(had, Append(told, c), from, open)
<1> DEFINE t == Append(told, c)
<1>1. Len(had) \in Nat
  BY LenProperties
<1>2. /\ Len(t) = Len(told) + 1 /\ Len(told) \in Nat
      /\ \A i \in 1..Len(told) : t[i] = told[i]
  BY AppendProperties, LenProperties
<1> HIDE DEF t
<1>3. ASSUME NEW i \in 1..Len(had)
      PROVE  \E k \in 1..Len(t) : from < k /\ t[k] = had[i]
  <2>1. PICK k \in 1..Len(told) : from < k /\ told[k] = had[i]
    BY DEF Tells
  <2>2. k \in 1..Len(t) /\ t[k] = had[i]
    BY <1>2, <2>1
  <2> QED BY <2>1, <2>2
<1>4. ASSUME NEW i \in 1..Len(had), NEW j \in 1..Len(had), i < j
      PROVE  \E k, l \in 1..Len(t) : from < k /\ k < l /\ t[k] = had[i] /\ t[l] = had[j]
  <2>1. PICK k \in 1..Len(told), l \in 1..Len(told) :
             from < k /\ k < l /\ told[k] = had[i] /\ told[l] = had[j]
    BY <1>4 DEF Tells
  <2>2. k \in 1..Len(t) /\ l \in 1..Len(t) /\ t[k] = had[i] /\ t[l] = had[j]
    BY <1>2, <2>1
  <2> QED BY <2>1, <2>2
<1>5. ~(open /\ Len(t) <= from + Buffer)
  <2> SUFFICES ASSUME open, Len(t) <= from + Buffer PROVE FALSE
    OBVIOUS
  <2>1. Len(told) <= from + Buffer
    BY <1>2, BoundAssumption
  <2>2. Len(told) = from + Len(had)
    BY <2>1 DEF Tells
  <2> QED BY <1>1, <1>2, <2>2, BoundAssumption
<1>6. Tells(had, t, from, open)
  BY <1>3, <1>4, <1>5 DEF Tells
<1> QED BY <1>6 DEF t

\* Nothing was given and nothing was missed.
LEMMA TellsNothing ==
    ASSUME NEW told \in Seq(Events), NEW from, NEW open, open => from = Len(told)
    PROVE  Tells(<<>>, told, from, open)
<1>1. Len(<<>>) = 0 /\ Len(told) \in Nat
  BY LenProperties, EmptySeq
<1> QED BY <1>1 DEF Tells

\* A channel that is closed promises less.
LEMMA TellsStays ==
    ASSUME NEW had, NEW told, NEW from, NEW open, Tells(had, told, from, open)
    PROVE  Tells(had, told, from, FALSE)
  BY DEF Tells

-----------------------------------------------------------------------------
(* Every step keeps what is said of the process *)

LEMMA FacesAre == Faces = {"web", "proxy", "mcp"}
<1>1. Order \in Seq({"web", "proxy", "mcp"}) /\ DOMAIN Order = 1..3
  BY DEF Order
<1>2. Order[1] = "web" /\ Order[2] = "proxy" /\ Order[3] = "mcp"
  BY DEF Order
<1>3. 1..3 = {1, 2, 3}
  OBVIOUS
<1> QED BY <1>1, <1>2, <1>3 DEF Faces, Range

LEMMA NewsAre == \A k \in Kinds : \A news \in News[k] : news \in SUBSET Types
  BY DEF Kinds, News, Types

\* The types of everything but the streams.
World ==
    /\ run \in RunSteps
    /\ up \in {"new", "serving", "stopped"}
    /\ signalled \in BOOLEAN /\ stopped \in BOOLEAN
    /\ face \in [Faces -> {"unbound", "bound", "serving", "draining"} \cup Ended]
    /\ sweeper \in {"off", "idle", "round", "ended"}
    /\ db \in {"open", "closed"} /\ broker \in {"open", "closed"}
    /\ call \in [Calls -> {"new", "deciding", "decided", "over"}]
    /\ stored \subseteq Calls /\ owes \in [Calls -> SUBSET Types]
    /\ published \in Seq(Events)

LEMMA WorldStep == World /\ [Next]_vars => World'
<1> SUFFICES ASSUME World, [Next]_vars PROVE World'
  OBVIOUS
<1>1. CASE Listen
  <2>1. /\ run' \in {run, "returned"} /\ UNCHANGED <<up, signalled, stopped, sweeper, db, requests, events>>
        /\ \/ UNCHANGED face
           \/ \E i \in 1..Len(Order) : face' = [face EXCEPT ![Order[i]] = "bound"]
    BY <1>1 DEF Listen
  <2>2. face' \in [Faces -> {"unbound", "bound", "serving", "draining"} \cup Ended]
    BY <2>1 DEF World
  <2> QED BY <2>1, <2>2 DEF World, RunSteps, requests, events
<1>2. CASE Serve
  BY <1>2 DEF Serve, World, RunSteps, Ended, Publish, CloseBroker, process, requests, events
<1>3. CASE Stop
  BY <1>3 DEF Stop, World, RunSteps, Ended, Publish, CloseBroker, process, requests, events
<1>4. CASE StopFaces
  BY <1>4 DEF StopFaces, World, RunSteps, Ended, Publish, CloseBroker, process, requests, events
<1>5. CASE Collect
  BY <1>5 DEF Collect, World, RunSteps, Ended, Publish, CloseBroker, process, requests, events
<1>6. CASE Close
  BY <1>6 DEF Close, World, RunSteps, Ended, Publish, CloseBroker, process, requests, events
<1>7. CASE Signal
  BY <1>7 DEF Signal, World, RunSteps, Ended, Publish, CloseBroker, process, requests, events
<1>8. CASE SweepRound
  BY <1>8 DEF SweepRound, World, RunSteps, Ended, Publish, CloseBroker, process, requests, events
<1>9. CASE SweeperEnds
  BY <1>9 DEF SweeperEnds, World, RunSteps, Ended, Publish, CloseBroker, process, requests, events
<1>10. ASSUME NEW f \in Faces, Drain(f) PROVE World'
  BY <1>10 DEF Drain, World, RunSteps, Ended, Publish, CloseBroker, process, requests, events
<1>11. ASSUME NEW f \in Faces, Drained(f) PROVE World'
  BY <1>11 DEF Drained, World, RunSteps, Ended, Publish, CloseBroker, process, requests, events
<1>12. ASSUME NEW f \in Faces, GraceEnds(f) PROVE World'
  BY <1>12 DEF GraceEnds, World, RunSteps, Ended, Publish, CloseBroker, process, requests, events
<1>13. ASSUME NEW f \in Faces, FaceFails(f) PROVE World'
  BY <1>13 DEF FaceFails, World, RunSteps, Ended, Publish, CloseBroker, process, requests, events
<1>14. ASSUME NEW c \in Calls, Arrive(c) PROVE World'
  BY <1>14 DEF Arrive, World, RunSteps, Ended, Publish, CloseBroker, process, requests, events
<1>15. ASSUME NEW c \in Calls, Refuse(c) PROVE World'
  BY <1>15 DEF Refuse, World, RunSteps, Ended, Publish, CloseBroker, process, requests, events
<1>16. ASSUME NEW c \in Calls, Decide(c) PROVE World'
  <2>1. owes' \in [Calls -> SUBSET Types]
    <3>1. KindOf[c] \in Kinds
      BY KindAssumption
    <3>2. UNCHANGED owes \/ \E news \in News[KindOf[c]] : owes' = [owes EXCEPT ![c] = news]
      BY <1>16 DEF Decide
    <3> QED BY <3>1, <3>2, NewsAre DEF World
  <2>2. /\ call' \in [Calls -> {"new", "deciding", "decided", "over"}] /\ stored' \subseteq Calls
        /\ UNCHANGED <<process, events>>
    BY <1>16 DEF Decide, World
  <2> QED BY <2>1, <2>2 DEF World, process, events
<1>17. ASSUME NEW c \in Calls, Announce(c) PROVE World'
  <2>1. PICK t \in owes[c] : owes' = [owes EXCEPT ![c] = @ \ {t}] /\ Publish([call |-> c, type |-> t])
    BY <1>17 DEF Announce
  <2>2. owes \in [Calls -> SUBSET Types] /\ published \in Seq(Events)
    BY DEF World
  <2>3. [call |-> c, type |-> t] \in Events
    BY <2>2 DEF Events
  <2>4. published' \in Seq(Events) /\ broker' = broker
    BY <2>1, <2>2, <2>3, AppendProperties DEF Publish, events
  <2>5. owes' \in [Calls -> SUBSET Types] /\ UNCHANGED <<process, call, stored>>
    BY <1>17, <2>1, <2>2 DEF Announce
  <2> QED BY <2>4, <2>5 DEF World, process
<1>23. ASSUME NEW c \in Calls, Finish(c) PROVE World'
  BY <1>23 DEF Finish, World, RunSteps, Ended, process, events
<1>18. ASSUME NEW z \in Streams, Connect(z) PROVE World'
  BY <1>18 DEF Connect, World, RunSteps, Ended, Publish, CloseBroker, process, requests, events
<1>19. ASSUME NEW z \in Streams, Subscribe(z) PROVE World'
  BY <1>19 DEF Subscribe, World, RunSteps, Ended, Publish, CloseBroker, process, requests, events
<1>20. ASSUME NEW z \in Streams, Pump(z) PROVE World'
  BY <1>20 DEF Pump, World, RunSteps, Ended, Publish, CloseBroker, process, requests, events
<1>21. ASSUME NEW z \in Streams, Leave(z) PROVE World'
  BY <1>21 DEF Leave, World, RunSteps, Ended, Publish, CloseBroker, process, requests, events
<1>22. CASE UNCHANGED vars
  BY <1>22 DEF vars, World, RunSteps, Ended, Publish, CloseBroker, process, requests, events
<1> QED BY <1>1, <1>2, <1>3, <1>4, <1>5, <1>6, <1>7, <1>8, <1>9, <1>10, <1>11, <1>12, <1>13,
       <1>14, <1>15, <1>16, <1>17, <1>18, <1>19, <1>20, <1>21, <1>22, <1>23 DEF Next, RunStep, Handler

\* Run, its faces and its sweeper end in their order.
LEMMA LifeStep == World /\ LifeOK /\ [Next]_vars => LifeOK'
<1> SUFFICES ASSUME World, LifeOK, [Next]_vars PROVE LifeOK'
  OBVIOUS
<1>1. CASE Listen
  <2>0. /\ run = "listening" /\ sweeper = "off" /\ db # "closed" /\ run' \in {run, "returned"}
        /\ \A f \in Faces : face[f] \in {"unbound", "bound"}
        /\ UNCHANGED <<up, sweeper, db, broker>>
    BY <1>1 DEF Listen, LifeOK, events
  <2>1. \A f \in Faces : face'[f] \in {"unbound", "bound"}
    BY <2>0, <1>1 DEF Listen, World
  <2> QED BY <2>0, <2>1 DEF LifeOK, Ended
<1>2. CASE Serve
  BY <1>2 DEF Serve, LifeOK, World, RunSteps, Ended, events
<1>3. CASE Stop
  BY <1>3 DEF Stop, LifeOK, World, RunSteps, Ended, events
<1>4. CASE StopFaces
  BY <1>4 DEF StopFaces, LifeOK, World, RunSteps, Ended, CloseBroker
<1>5. CASE Collect
  BY <1>5 DEF Collect, LifeOK, World, RunSteps, Ended, events
<1>6. CASE Close
  BY <1>6 DEF Close, LifeOK, World, RunSteps, Ended, CloseBroker
<1>7. CASE Signal
  BY <1>7 DEF Signal, LifeOK, process, requests, events
<1>8. CASE SweepRound
  BY <1>8 DEF SweepRound, LifeOK, World, RunSteps, Ended, events
<1>9. CASE SweeperEnds
  BY <1>9 DEF SweeperEnds, LifeOK, World, RunSteps, Ended, events
<1>10. ASSUME NEW f \in Faces, Drain(f) PROVE LifeOK'
  BY <1>10 DEF Drain, LifeOK, World, Ended, events
<1>11. ASSUME NEW f \in Faces, Drained(f) PROVE LifeOK'
  BY <1>11 DEF Drained, LifeOK, World, Ended, events
<1>12. ASSUME NEW f \in Faces, GraceEnds(f) PROVE LifeOK'
  BY <1>12 DEF GraceEnds, LifeOK, World, Ended, events
<1>13. ASSUME NEW f \in Faces, FaceFails(f) PROVE LifeOK'
  BY <1>13 DEF FaceFails, LifeOK, World, Ended, events
<1>14. ASSUME NEW c \in Calls, Arrive(c) PROVE LifeOK'
  BY <1>14 DEF Arrive, LifeOK, process, requests, events
<1>15. ASSUME NEW c \in Calls, Refuse(c) PROVE LifeOK'
  BY <1>15 DEF Refuse, LifeOK, process, requests, events
<1>16. ASSUME NEW c \in Calls, Decide(c) PROVE LifeOK'
  BY <1>16 DEF Decide, LifeOK, process, requests, events
<1>17. ASSUME NEW c \in Calls, Announce(c) PROVE LifeOK'
  BY <1>17 DEF Announce, Publish, LifeOK, process, requests, events
<1>23. ASSUME NEW c \in Calls, Finish(c) PROVE LifeOK'
  BY <1>23 DEF Finish, LifeOK, process, requests, events
<1>18. ASSUME NEW z \in Streams, Connect(z) PROVE LifeOK'
  BY <1>18 DEF Connect, LifeOK, process, requests, events
<1>19. ASSUME NEW z \in Streams, Subscribe(z) PROVE LifeOK'
  BY <1>19 DEF Subscribe, LifeOK, process, requests, events
<1>20. ASSUME NEW z \in Streams, Pump(z) PROVE LifeOK'
  BY <1>20 DEF Pump, LifeOK, process, requests, events
<1>21. ASSUME NEW z \in Streams, Leave(z) PROVE LifeOK'
  BY <1>21 DEF Leave, LifeOK, process, requests, events
<1>22. CASE UNCHANGED vars
  BY <1>22 DEF vars, LifeOK, process, events
<1> QED BY <1>1, <1>2, <1>3, <1>4, <1>5, <1>6, <1>7, <1>8, <1>9, <1>10, <1>11, <1>12, <1>13,
       <1>14, <1>15, <1>16, <1>17, <1>18, <1>19, <1>20, <1>21, <1>22, <1>23 DEF Next, RunStep, Handler

\* Only a face that still has connections takes a request or a stream.
LEMMA QuietStep ==
    World /\ stream \in [Streams -> StreamRow] /\ Quiet /\ [Next]_vars => Quiet'
<1> SUFFICES ASSUME World, stream \in [Streams -> StreamRow], Quiet, [Next]_vars PROVE Quiet'
  OBVIOUS
<1>a. Quiet
  OBVIOUS
<1>b. ASSUME \A e \in Calls : call'[e] \notin {"new", "over"} => call[e] \notin {"new", "over"},
             \A s \in Streams : stream'[s].at \in {"arrived", "live"} =>
                                   stream[s].at \in {"arrived", "live"},
             UNCHANGED face
      PROVE  Quiet'
  <2>1. \A f \in Faces : InFlight(f)' => InFlight(f)
    BY <1>b DEF InFlight
  <2> QED BY <1>a, <1>b, <2>1 DEF Quiet
<1>c. UNCHANGED <<call, stream, face>> => Quiet'
  BY <1>b
<1>d. stream \in [Streams -> StreamRow]
  OBVIOUS
<1>e. face \in [Faces -> {"unbound", "bound", "serving", "draining"} \cup Ended]
  BY DEF World
<1>1. CASE Listen
  <2>1. UNCHANGED <<call, stream>> /\ \A g \in Faces : face'[g] = face[g] \/ face[g] = "unbound"
    BY <1>e, <1>1 DEF Listen, requests, events
  <2>2. \A g \in Faces : InFlight(g)' <=> InFlight(g)
    BY <2>1 DEF InFlight
  <2> QED BY <1>a, <2>1, <2>2 DEF Quiet
<1>2. CASE Serve
  <2>1. UNCHANGED <<call, stream>> /\ \A g \in Faces : face'[g] = "serving"
    BY <1>e, <1>2 DEF Serve, requests, events
  <2>2. \A g \in Faces : InFlight(g)' <=> InFlight(g)
    BY <2>1 DEF InFlight
  <2> QED BY <1>a, <2>1, <2>2 DEF Quiet
<1>3. CASE Stop
  BY <1>c, <1>3 DEF Stop, requests, events
<1>4. CASE StopFaces
  <2>1. /\ UNCHANGED <<call, face>>
        /\ stream' = [s \in Streams |-> [stream[s] EXCEPT !.open = FALSE]]
    BY <1>4 DEF StopFaces, CloseBroker, requests
  <2>2. \A s \in Streams : stream'[s].at = stream[s].at
    BY <1>d, <2>1 DEF StreamRow
  <2> QED BY <1>b, <2>1, <2>2
<1>5. CASE Collect
  BY <1>c, <1>5 DEF Collect, requests, events
<1>6. CASE Close
  <2>1. /\ UNCHANGED <<call, face>>
        /\ stream' = [s \in Streams |-> [stream[s] EXCEPT !.open = FALSE]]
    BY <1>6 DEF Close, CloseBroker, requests
  <2>2. \A s \in Streams : stream'[s].at = stream[s].at
    BY <1>d, <2>1 DEF StreamRow
  <2> QED BY <1>b, <2>1, <2>2
<1>7. CASE Signal
  BY <1>c, <1>7 DEF Signal, requests, events
<1>8. CASE SweepRound
  BY <1>c, <1>8 DEF SweepRound, requests, events
<1>9. CASE SweeperEnds
  BY <1>c, <1>9 DEF SweeperEnds, requests, events
<1>10. ASSUME NEW f \in Faces, Drain(f) PROVE Quiet'
  <2>1. UNCHANGED <<call, stream>> /\ face'[f] = "draining" /\ \A g \in Faces : g # f => face'[g] = face[g]
    BY <1>e, <1>10 DEF Drain, requests, events
  <2>2. \A g \in Faces : InFlight(g)' <=> InFlight(g)
    BY <2>1 DEF InFlight
  <2> QED BY <1>a, <2>1, <2>2 DEF Quiet
<1>11. ASSUME NEW f \in Faces, Drained(f) PROVE Quiet'
  <2>1. UNCHANGED <<call, stream>> /\ ~InFlight(f) /\ \A g \in Faces : g # f => face'[g] = face[g]
    BY <1>e, <1>11 DEF Drained, requests, events
  <2>2. \A g \in Faces : InFlight(g)' <=> InFlight(g)
    BY <2>1 DEF InFlight
  <2> QED BY <1>a, <2>1, <2>2 DEF Quiet
<1>12. ASSUME NEW f \in Faces, GraceEnds(f) PROVE Quiet'
  <2>1. UNCHANGED <<call, stream>> /\ face'[f] = "forced" /\ \A g \in Faces : g # f => face'[g] = face[g]
    BY <1>e, <1>12 DEF GraceEnds, requests, events
  <2>2. \A g \in Faces : InFlight(g)' <=> InFlight(g)
    BY <2>1 DEF InFlight
  <2> QED BY <1>a, <2>1, <2>2 DEF Quiet
<1>13. ASSUME NEW f \in Faces, FaceFails(f) PROVE Quiet'
  <2>1. UNCHANGED <<call, stream>> /\ face'[f] = "failed" /\ \A g \in Faces : g # f => face'[g] = face[g]
    BY <1>e, <1>13 DEF FaceFails, requests, events
  <2>2. \A g \in Faces : InFlight(g)' <=> InFlight(g)
    BY <2>1 DEF InFlight
  <2> QED BY <1>a, <2>1, <2>2 DEF Quiet
<1>14. ASSUME NEW c \in Calls, Arrive(c) PROVE Quiet'
  <2>1. /\ Reachable(FaceOf[c]) /\ UNCHANGED <<face, stream>>
        /\ \A e \in Calls : e # c => call'[e] = call[e]
    BY <1>14 DEF Arrive, World, process, events
  <2>2. ASSUME NEW f \in Faces, face[f] \in {"unbound", "bound", "drained"}, InFlight(f)'
        PROVE  FALSE
    <3>1. f # FaceOf[c]
      BY <2>1, <2>2 DEF Reachable
    <3>2. InFlight(f)
      BY <2>1, <2>2, <3>1 DEF InFlight
    <3> QED BY <1>a, <2>2, <3>2 DEF Quiet
  <2> QED BY <2>1, <2>2 DEF Quiet
<1>15. ASSUME NEW c \in Calls, Refuse(c) PROVE Quiet'
  <2>1. /\ \A e \in Calls : call'[e] \notin {"new", "over"} => call[e] \notin {"new", "over"}
        /\ UNCHANGED <<stream, face>>
    BY <1>15 DEF Refuse, World, process, events
  <2> QED BY <1>b, <2>1
<1>16. ASSUME NEW c \in Calls, Decide(c) PROVE Quiet'
  <2>1. /\ \A e \in Calls : call'[e] \notin {"new", "over"} => call[e] \notin {"new", "over"}
        /\ UNCHANGED <<stream, face>>
    BY <1>16 DEF Decide, World, process, events
  <2> QED BY <1>b, <2>1
<1>17. ASSUME NEW c \in Calls, Announce(c) PROVE Quiet'
  <2>1. /\ \A e \in Calls : call'[e] \notin {"new", "over"} => call[e] \notin {"new", "over"}
        /\ UNCHANGED face
    BY <1>17 DEF Announce, World, process
  <2>2. \A s \in Streams : stream'[s].at = stream[s].at
    <3> SUFFICES ASSUME NEW s \in Streams PROVE stream'[s].at = stream[s].at
      OBVIOUS
    <3>1. PICK e : stream'[s] \in {stream[s], [stream[s] EXCEPT !.buffer = Append(@, e)]}
      BY <1>17 DEF Announce, Publish, events
    <3> QED BY <3>1, <1>d DEF StreamRow
  <2> QED BY <1>b, <2>1, <2>2
<1>23. ASSUME NEW c \in Calls, Finish(c) PROVE Quiet'
  <2>1. /\ \A e \in Calls : call'[e] \notin {"new", "over"} => call[e] \notin {"new", "over"}
        /\ UNCHANGED <<stream, face>>
    BY <1>23 DEF Finish, World, process, events
  <2> QED BY <1>b, <2>1
<1>18. ASSUME NEW z \in Streams, Connect(z) PROVE Quiet'
  <2>1. Reachable("web") /\ UNCHANGED <<face, call>>
    BY <1>18 DEF Connect, process, requests
  <2>2. ASSUME NEW f \in Faces, face[f] \in {"unbound", "bound", "drained"}, InFlight(f)'
        PROVE  FALSE
    <3>1. f # "web"
      BY <2>1, <2>2 DEF Reachable
    <3>2. InFlight(f)
      BY <2>1, <2>2, <3>1 DEF InFlight
    <3> QED BY <1>a, <2>2, <3>2 DEF Quiet
  <2> QED BY <2>1, <2>2 DEF Quiet
<1>19. ASSUME NEW z \in Streams, Subscribe(z) PROVE Quiet'
  <2>1. /\ UNCHANGED <<call, face>> /\ stream[z].at \in {"arrived", "live"}
        /\ \A s \in Streams : s # z => stream'[s] = stream[s]
    BY <1>d, <1>19 DEF Subscribe, process, requests
  <2> QED BY <1>b, <2>1
<1>20. ASSUME NEW z \in Streams, Pump(z) PROVE Quiet'
  <2>1. /\ UNCHANGED <<call, face>> /\ stream[z].at \in {"arrived", "live"}
        /\ \A s \in Streams : s # z => stream'[s] = stream[s]
    BY <1>d, <1>20 DEF Pump, process, requests
  <2> QED BY <1>b, <2>1
<1>21. ASSUME NEW z \in Streams, Leave(z) PROVE Quiet'
  <2>1. /\ UNCHANGED <<call, face>> /\ stream[z].at \in {"arrived", "live"}
        /\ \A s \in Streams : s # z => stream'[s] = stream[s]
    BY <1>d, <1>21 DEF Leave, process, requests
  <2> QED BY <1>b, <2>1
<1>22. CASE UNCHANGED vars
  BY <1>c, <1>22 DEF vars, process, requests, events
<1> QED BY <1>1, <1>2, <1>3, <1>4, <1>5, <1>6, <1>7, <1>8, <1>9, <1>10, <1>11, <1>12, <1>13,
       <1>14, <1>15, <1>16, <1>17, <1>18, <1>19, <1>20, <1>21, <1>22, <1>23 DEF Next, RunStep, Handler

\* A change is in the database before it is announced, and is announced once.
LEMMA AnnouncedStep == World /\ Announced /\ [Next]_vars => Announced'
<1> SUFFICES ASSUME World, Announced, [Next]_vars PROVE Announced'
  OBVIOUS
<1>a. Announced
  OBVIOUS
<1>b. UNCHANGED <<call, stored, owes, published>> => Announced'
  BY <1>a DEF Announced
<1>c. \A i \in 1..Len(published) : published[i] \in Events /\ published[i].call \in Calls
  <2>1. \A i \in 1..Len(published) : published[i] \in Events
    BY ElementOfSeq DEF World
  <2> QED BY <2>1 DEF Events
<1>d. World
  OBVIOUS
<1>1. CASE Listen
  BY <1>b, <1>1 DEF Listen, requests, events, CloseBroker
<1>2. CASE Serve
  BY <1>b, <1>2 DEF Serve, requests, events, CloseBroker
<1>3. CASE Stop
  BY <1>b, <1>3 DEF Stop, requests, events, CloseBroker
<1>4. CASE StopFaces
  BY <1>b, <1>4 DEF StopFaces, requests, events, CloseBroker
<1>5. CASE Collect
  BY <1>b, <1>5 DEF Collect, requests, events, CloseBroker
<1>6. CASE Close
  BY <1>b, <1>6 DEF Close, requests, events, CloseBroker
<1>7. CASE Signal
  BY <1>b, <1>7 DEF Signal, requests, events, CloseBroker
<1>8. CASE SweepRound
  BY <1>b, <1>8 DEF SweepRound, requests, events, CloseBroker
<1>9. CASE SweeperEnds
  BY <1>b, <1>9 DEF SweeperEnds, requests, events, CloseBroker
<1>10. ASSUME NEW f \in Faces, Drain(f) PROVE Announced'
  BY <1>b, <1>10 DEF Drain, requests, events, CloseBroker
<1>11. ASSUME NEW f \in Faces, Drained(f) PROVE Announced'
  BY <1>b, <1>11 DEF Drained, requests, events, CloseBroker
<1>12. ASSUME NEW f \in Faces, GraceEnds(f) PROVE Announced'
  BY <1>b, <1>12 DEF GraceEnds, requests, events, CloseBroker
<1>13. ASSUME NEW f \in Faces, FaceFails(f) PROVE Announced'
  BY <1>b, <1>13 DEF FaceFails, requests, events, CloseBroker
<1>e. ASSUME NEW c \in Calls, UNCHANGED published, stored \subseteq stored',
             \A e \in Calls : e # c => call'[e] = call[e] /\ owes'[e] = owes[e],
             call[c] \in {"decided", "over"} => call'[c] \in {"decided", "over"} /\ owes'[c] = owes[c],
             call'[c] = "decided" => c \in stored',
             call'[c] # "decided" => owes'[c] = {}
      PROVE  Announced'
  <2>1. \A e \in Calls : call'[e] = "decided" => e \in stored'
    BY <1>a, <1>e DEF Announced
  <2>2. \A e \in Calls : call'[e] # "decided" => owes'[e] = {}
    BY <1>a, <1>e DEF Announced
  <2>3. \A i \in 1..Len(published) :
           /\ call'[published[i].call] \in {"decided", "over"} /\ published[i].call \in stored'
           /\ published[i].type \notin owes'[published[i].call]
    BY <1>a, <1>c, <1>e DEF Announced
  <2> QED BY <1>a, <1>e, <2>1, <2>2, <2>3 DEF Announced
<1>14. ASSUME NEW c \in Calls, Arrive(c) PROVE Announced'
  <2>1. /\ UNCHANGED published /\ stored \subseteq stored'
        /\ \A e \in Calls : e # c => call'[e] = call[e] /\ owes'[e] = owes[e]
        /\ call[c] = "new" /\ call'[c] = "deciding" /\ UNCHANGED owes
    BY <1>d, <1>14 DEF Arrive, World, events
  <2>2. owes[c] = {}
    BY <1>a, <2>1 DEF Announced
  <2> QED BY <1>e, <2>1, <2>2
<1>15. ASSUME NEW c \in Calls, Refuse(c) PROVE Announced'
  <2>1. /\ UNCHANGED published /\ stored \subseteq stored'
        /\ \A e \in Calls : e # c => call'[e] = call[e] /\ owes'[e] = owes[e]
        /\ call[c] = "new" /\ call'[c] = "over" /\ UNCHANGED owes
    BY <1>d, <1>15 DEF Refuse, World, events
  <2>2. owes[c] = {}
    BY <1>a, <2>1 DEF Announced
  <2> QED BY <1>e, <2>1, <2>2
<1>23. ASSUME NEW c \in Calls, Finish(c) PROVE Announced'
  <2>1. /\ UNCHANGED published /\ stored \subseteq stored'
        /\ \A e \in Calls : e # c => call'[e] = call[e] /\ owes'[e] = owes[e]
        /\ call[c] = "decided" /\ call'[c] = "over" /\ owes[c] = {} /\ UNCHANGED owes
    BY <1>d, <1>23 DEF Finish, World, events
  <2>2. owes[c] = {}
    BY <1>a, <2>1 DEF Announced
  <2> QED BY <1>e, <2>1, <2>2
<1>16. ASSUME NEW c \in Calls, Decide(c) PROVE Announced'
  <2>1. /\ UNCHANGED published /\ stored \subseteq stored' /\ call[c] = "deciding"
        /\ \A e \in Calls : e # c => call'[e] = call[e] /\ owes'[e] = owes[e]
        /\ \/ call'[c] = "decided" /\ c \in stored'
           \/ call'[c] = "over" /\ UNCHANGED owes
    BY <1>d, <1>16 DEF Decide, World, events
  <2>2. owes[c] = {}
    BY <1>a, <2>1 DEF Announced
  <2> QED BY <1>e, <2>1, <2>2
<1>17. ASSUME NEW c \in Calls, Announce(c) PROVE Announced'
  <2>0. PICK t \in owes[c] : owes' = [owes EXCEPT ![c] = @ \ {t}] /\ Publish([call |-> c, type |-> t])
    BY <1>17 DEF Announce
  <2> DEFINE e == [call |-> c, type |-> t]
  <2>1. UNCHANGED <<call, stored>> /\ c \in stored /\ call[c] = "decided"
    BY <1>a, <1>17 DEF Announce, Announced
  <2>2. /\ t \notin owes'[c] /\ \A d \in Calls : owes'[d] \subseteq owes[d]
        /\ \A d \in Calls : call'[d] # "decided" => owes'[d] = {}
    BY <1>a, <1>d, <2>0, <2>1 DEF Announced, World
  <2>3. \A i \in 1..Len(published) :
           /\ call'[published[i].call] \in {"decided", "over"} /\ published[i].call \in stored'
           /\ published[i].type \notin owes'[published[i].call]
    BY <1>a, <1>c, <2>1, <2>2 DEF Announced
  <2>4. \A d \in Calls : call'[d] = "decided" => d \in stored'
    BY <1>a, <2>1 DEF Announced
  <2>5. CASE UNCHANGED published
    BY <1>a, <2>2, <2>3, <2>4, <2>5 DEF Announced
  <2>6. CASE published' = Append(published, e)
    <3>0. e.call = c /\ e.type = t /\ e \in Events
      BY <1>d, <2>0 DEF World, Events
    <3> HIDE DEF e
    <3>1. /\ Len(published') = Len(published) + 1 /\ Len(published) \in Nat
          /\ \A i \in 1..Len(published) : published'[i] = published[i]
          /\ published'[Len(published) + 1] = e
      BY <1>d, <2>6, <3>0, AppendProperties, LenProperties DEF World
    <3>2. \A i \in 1..Len(published) : published[i] # e
      BY <1>a, <3>0 DEF Announced
    <3>3. \A i \in 1..Len(published') : i = Len(published) + 1 \/ i \in 1..Len(published)
      BY <3>1
    <3>4. \A i \in 1..Len(published') :
             /\ call'[published'[i].call] \in {"decided", "over"} /\ published'[i].call \in stored'
             /\ published'[i].type \notin owes'[published'[i].call]
      BY <2>1, <2>2, <2>3, <3>0, <3>1, <3>3
    <3>5. \A i, j \in 1..Len(published') : published'[i] = published'[j] => i = j
      BY <1>a, <3>1, <3>2, <3>3 DEF Announced
    <3> QED BY <2>2, <2>4, <3>4, <3>5 DEF Announced
  <2> QED BY <2>0, <2>5, <2>6 DEF Publish, events
<1>18. ASSUME NEW z \in Streams, Connect(z) PROVE Announced'
  BY <1>b, <1>18 DEF Connect, requests, events, CloseBroker
<1>19. ASSUME NEW z \in Streams, Subscribe(z) PROVE Announced'
  BY <1>b, <1>19 DEF Subscribe, requests, events, CloseBroker
<1>20. ASSUME NEW z \in Streams, Pump(z) PROVE Announced'
  BY <1>b, <1>20 DEF Pump, requests, events, CloseBroker
<1>21. ASSUME NEW z \in Streams, Leave(z) PROVE Announced'
  BY <1>b, <1>21 DEF Leave, requests, events, CloseBroker
<1>22. CASE UNCHANGED vars
  BY <1>b, <1>22 DEF vars, requests, events
<1> QED BY <1>1, <1>2, <1>3, <1>4, <1>5, <1>6, <1>7, <1>8, <1>9, <1>10, <1>11, <1>12, <1>13,
       <1>14, <1>15, <1>16, <1>17, <1>18, <1>19, <1>20, <1>21, <1>22, <1>23 DEF Next, RunStep, Handler

-----------------------------------------------------------------------------
(* Every step keeps what is said of a console *)

Told(s) ==
    /\ stream[s] \in StreamRow
    /\ stream[s].from <= Len(published) /\ Len(stream[s].buffer) <= Buffer
    /\ StreamOK(s)

\* Whatever is broadcast, taken or given up, a console is told it in its order.
LEMMA ToldStep ==
    ASSUME World, stream \in [Streams -> StreamRow], [Next]_vars, NEW s \in Streams, Told(s)
    PROVE  Told(s)'
<1>a. Told(s)
  OBVIOUS
<1>b. UNCHANGED <<stream, published>> => Told(s)'
  BY <1>a DEF Told, StreamOK, Had
<1>c. published \in Seq(Events) /\ Len(published) \in Nat
  BY LenProperties DEF World
<1>d. /\ stream[s] \in StreamRow /\ stream[s].buffer \in Seq(Events) /\ stream[s].seen \in Seq(Events)
      /\ stream[s].from \in Nat /\ stream[s].from \in 0..Len(published)
      /\ stream[s].open \in BOOLEAN
      /\ Len(stream[s].buffer) \in Nat /\ Len(stream[s].buffer) <= Buffer
      /\ Len(stream[s].seen) \in Nat
  BY <1>a, <1>c, LenProperties DEF Told, StreamRow
<1>e. Had(s) \in Seq(Events) /\ Tells(Had(s), published, stream[s].from, stream[s].open)
  BY <1>a, <1>d, ConcatProperties DEF Had, Told, StreamOK
<1>f. UNCHANGED published /\ stream'[s] = stream[s] => Told(s)'
  BY <1>a DEF Told, StreamOK, Had
<1>g. DOMAIN stream = Streams
  OBVIOUS
<1>h. UNCHANGED published /\ stream'[s] = Without("over") => Told(s)'
  <2> SUFFICES ASSUME UNCHANGED published, stream'[s] = Without("over") PROVE Told(s)'
    OBVIOUS
  <2>1. /\ stream'[s].at = "over" /\ stream'[s].open = FALSE /\ stream'[s].from = 0
        /\ stream'[s].buffer = <<>> /\ stream'[s].seen = <<>>
    BY DEF Without
  <2>2. <<>> \in Seq(Events) /\ Len(<<>>) = 0
    BY EmptySeq
  <2>3. stream'[s] \in StreamRow
    BY <2>2 DEF Without, StreamRow
  <2>4. Had(s)' = <<>>
    BY <2>1, <2>2, ConcatEmptySeq DEF Had
  <2>5. Tells(<<>>, published, 0, FALSE)
    BY <1>c, TellsNothing
  <2>6. stream'[s].from <= Len(published') /\ Len(stream'[s].buffer) <= Buffer
    BY <1>c, <2>1, <2>2, BoundAssumption
  <2>7. StreamOK(s)'
    BY <2>1, <2>4, <2>5 DEF StreamOK
  <2> QED BY <2>3, <2>6, <2>7 DEF Told
<1>1. CASE Listen
  BY <1>b, <1>1 DEF Listen, events
<1>2. CASE Serve
  BY <1>b, <1>2 DEF Serve, events
<1>3. CASE Stop
  BY <1>b, <1>3 DEF Stop, events
<1>4. CASE StopFaces
  <2>1. /\ UNCHANGED published
        /\ stream' = [x \in Streams |-> [stream[x] EXCEPT !.open = FALSE]]
    BY <1>4 DEF StopFaces, CloseBroker
  <2>2. /\ stream'[s] \in StreamRow /\ stream'[s].open = FALSE
        /\ UNCHANGED <<stream[s].at, stream[s].from, stream[s].buffer, stream[s].seen>>
    BY <1>a, <2>1 DEF Told, StreamRow
  <2>3. Tells(Had(s)', published', stream'[s].from, stream'[s].open)
    <3>1. Had(s)' = Had(s)
      BY <2>2 DEF Had
    <3>2. Tells(Had(s), published, stream[s].from, FALSE)
      BY <1>e, TellsStays
    <3> QED BY <2>1, <2>2, <3>1, <3>2
  <2> QED BY <1>a, <2>1, <2>2, <2>3 DEF Told, StreamOK
<1>5. CASE Collect
  BY <1>b, <1>5 DEF Collect, events
<1>6. CASE Close
  <2>1. /\ UNCHANGED published
        /\ stream' = [x \in Streams |-> [stream[x] EXCEPT !.open = FALSE]]
    BY <1>6 DEF Close, CloseBroker
  <2>2. /\ stream'[s] \in StreamRow /\ stream'[s].open = FALSE
        /\ UNCHANGED <<stream[s].at, stream[s].from, stream[s].buffer, stream[s].seen>>
    BY <1>a, <2>1 DEF Told, StreamRow
  <2>3. Tells(Had(s)', published', stream'[s].from, stream'[s].open)
    <3>1. Had(s)' = Had(s)
      BY <2>2 DEF Had
    <3>2. Tells(Had(s), published, stream[s].from, FALSE)
      BY <1>e, TellsStays
    <3> QED BY <2>1, <2>2, <3>1, <3>2
  <2> QED BY <1>a, <2>1, <2>2, <2>3 DEF Told, StreamOK
<1>7. CASE Signal
  BY <1>b, <1>7 DEF Signal, events
<1>8. CASE SweepRound
  BY <1>b, <1>8 DEF SweepRound, events
<1>9. CASE SweeperEnds
  BY <1>b, <1>9 DEF SweeperEnds, events
<1>10. ASSUME NEW f \in Faces, Drain(f) PROVE Told(s)'
  BY <1>b, <1>10 DEF Drain, events
<1>11. ASSUME NEW f \in Faces, Drained(f) PROVE Told(s)'
  BY <1>b, <1>11 DEF Drained, events
<1>12. ASSUME NEW f \in Faces, GraceEnds(f) PROVE Told(s)'
  BY <1>b, <1>12 DEF GraceEnds, events
<1>13. ASSUME NEW f \in Faces, FaceFails(f) PROVE Told(s)'
  BY <1>b, <1>13 DEF FaceFails, events
<1>14. ASSUME NEW c \in Calls, Arrive(c) PROVE Told(s)'
  BY <1>b, <1>14 DEF Arrive, events
<1>15. ASSUME NEW c \in Calls, Refuse(c) PROVE Told(s)'
  BY <1>b, <1>15 DEF Refuse, events
<1>16. ASSUME NEW c \in Calls, Decide(c) PROVE Told(s)'
  BY <1>b, <1>16 DEF Decide, events
<1>17. ASSUME NEW d \in Calls, Announce(d) PROVE Told(s)'
  <2>a. PICK t \in owes[d] : Publish([call |-> d, type |-> t])
    BY <1>17 DEF Announce
  <2>b. [call |-> d, type |-> t] \in Events
    BY <2>a DEF World, Events
  <2>c. PICK c \in Events : Publish(c)
    BY <2>a, <2>b
  <2>0. CASE UNCHANGED <<stream, published>>
    BY <1>b, <2>0
  <2>1. CASE /\ published' = Append(published, c)
             /\ stream' = [x \in Streams |->
                  IF stream[x].open /\ Len(stream[x].buffer) < Buffer
                  THEN [stream[x] EXCEPT !.buffer = Append(@, c)] ELSE stream[x]]
    <3>0. Len(published') = Len(published) + 1
      BY <1>c, <2>1, AppendProperties
    <3>1. CASE stream[s].open /\ Len(stream[s].buffer) < Buffer
      <4>1. stream'[s] = [stream[s] EXCEPT !.buffer = Append(stream[s].buffer, c)]
        BY <2>1, <3>1
      <4>2. /\ Append(stream[s].buffer, c) \in Seq(Events)
            /\ Len(Append(stream[s].buffer, c)) = Len(stream[s].buffer) + 1
        BY <1>d, AppendProperties
      <4>3. /\ stream'[s] \in StreamRow /\ stream'[s].buffer = Append(stream[s].buffer, c)
            /\ UNCHANGED <<stream[s].at, stream[s].open, stream[s].from, stream[s].seen>>
        BY <1>a, <4>1, <4>2 DEF Told, StreamRow
      <4>4. Had(s)' = Append(Had(s), c)
        <5>1. stream[s].seen \o Append(stream[s].buffer, c)
                 = Append(stream[s].seen \o stream[s].buffer, c)
          <6>1. PICK x \in Seq(Events), y \in Seq(Events) : x = stream[s].seen /\ y = stream[s].buffer
            BY <1>d
          <6>2. x \o Append(y, c) = Append(x \o y, c)
            BY BufferedIsLast
          <6> QED BY <6>1, <6>2, Zenon
        <5> QED BY <4>3, <5>1 DEF Had
      <4>5. stream[s].open = TRUE
        BY <1>d, <3>1
      <4>6. Tells(Append(Had(s), c), published', stream[s].from, TRUE)
        BY <1>c, <1>d, <1>e, <2>1, <4>5, TellsMore
      <4>7. Tells(Had(s)', published', stream'[s].from, stream'[s].open)
        BY <4>3, <4>4, <4>5, <4>6
      <4>8. stream'[s].from <= Len(published') /\ Len(stream'[s].buffer) <= Buffer
        BY <1>c, <1>d, <3>0, <3>1, <4>2, <4>3, BoundAssumption
      <4>9. stream[s].at = "live"
        BY <1>a, <3>1 DEF Told, StreamOK
      <4> QED BY <4>3, <4>7, <4>8, <4>9 DEF Told, StreamOK
    <3>2. CASE ~(stream[s].open /\ Len(stream[s].buffer) < Buffer)
      <4>1. stream'[s] = stream[s]
        BY <2>1, <3>2
      <4>2. stream[s].open => Len(Had(s)) >= Buffer
        <5>1. Len(Had(s)) = Len(stream[s].seen) + Len(stream[s].buffer)
          BY <1>d, ConcatProperties DEF Had
        <5> SUFFICES ASSUME stream[s].open PROVE Len(Had(s)) >= Buffer
          OBVIOUS
        <5>2. ~(Len(stream[s].buffer) < Buffer)
          BY <3>2
        <5>3. PICK x \in Nat, y \in Nat : x = Len(stream[s].seen) /\ y = Len(stream[s].buffer)
          BY <1>d
        <5>4. Len(Had(s)) = x + y /\ ~(y < Buffer)
          BY <5>1, <5>2, <5>3, Zenon
        <5> QED BY <5>4, BoundAssumption
      <4>3. Tells(Had(s), published', stream[s].from, stream[s].open)
        BY <1>c, <1>d, <1>e, <2>1, <4>2, TellsNoMore
      <4>4. Had(s)' = Had(s)
        BY <4>1 DEF Had
      <4>5. stream'[s].from <= Len(published')
        BY <1>c, <1>d, <3>0, <4>1
      <4> QED BY <1>a, <4>1, <4>3, <4>4, <4>5 DEF Told, StreamOK
    <3> QED BY <3>1, <3>2
  <2> QED BY <2>0, <2>1, <2>c DEF Publish, events
<1>23. ASSUME NEW c \in Calls, Finish(c) PROVE Told(s)'
  BY <1>b, <1>23 DEF Finish, events
<1>18. ASSUME NEW z \in Streams, Connect(z) PROVE Told(s)'
  <2>1. CASE s # z
    BY <1>a, <1>c, <2>1, <1>18, <1>f DEF Connect
  <2>2. CASE s = z
    <3>1. stream' = [stream EXCEPT ![s].at = "arrived"] /\ stream[s].at = "new" /\ UNCHANGED published
      BY <2>2, <1>18 DEF Connect
    <3>2. /\ stream'[s] \in StreamRow /\ stream'[s].at = "arrived"
          /\ UNCHANGED <<stream[s].open, stream[s].from, stream[s].buffer, stream[s].seen>>
      BY <1>d, <1>g, <3>1 DEF StreamRow
    <3>3. Had(s)' = Had(s)
      BY <3>2 DEF Had
    <3> QED BY <1>a, <3>1, <3>2, <3>3 DEF Told, StreamOK
  <2> QED BY <2>1, <2>2
<1>19. ASSUME NEW z \in Streams, Subscribe(z) PROVE Told(s)'
  <2>1. CASE s # z
    BY <1>a, <1>c, <2>1, <1>19, <1>f DEF Subscribe
  <2>2. CASE s = z
    <3>1. /\ stream' = [stream EXCEPT ![s] = [stream[s] EXCEPT !.at = "live",
                                 !.open = (broker = "open"), !.from = Len(published)]]
          /\ stream[s].at = "arrived" /\ UNCHANGED published
      BY <2>2, <1>19 DEF Subscribe
    <3>2. stream'[s] = [stream[s] EXCEPT !.at = "live", !.open = (broker = "open"),
                                         !.from = Len(published)]
      BY <1>g, <3>1
    <3>3. /\ stream'[s] \in StreamRow /\ stream'[s].from = Len(published)
          /\ UNCHANGED <<stream[s].buffer, stream[s].seen>> /\ stream'[s].at = "live"
      BY <1>c, <1>d, <3>2, LenProperties DEF StreamRow
    <3>4. stream[s].buffer = <<>> /\ stream[s].seen = <<>>
      BY <1>a, <3>1 DEF Told, StreamOK
    <3>5. Had(s)' = <<>>
      BY <3>3, <3>4, ConcatEmptySeq, EmptySeq DEF Had
    <3>6. Tells(<<>>, published, Len(published), stream'[s].open)
      BY <1>c, TellsNothing
    <3>7. Len(stream'[s].buffer) <= Buffer /\ stream'[s].from <= Len(published')
      BY <1>c, <1>d, <3>1, <3>3, LenProperties
    <3> QED BY <3>1, <3>3, <3>5, <3>6, <3>7 DEF Told, StreamOK
  <2> QED BY <2>1, <2>2
<1>20. ASSUME NEW z \in Streams, Pump(z) PROVE Told(s)'
  <2>1. CASE s # z
    BY <1>a, <1>c, <2>1, <1>20, <1>f DEF Pump
  <2>2. CASE s = z
    <3>1. CASE stream' = [stream EXCEPT ![z] = Without("over")]
      BY <1>g, <1>h, <2>2, <3>1, <1>20 DEF Pump
    <3>2. CASE /\ stream[z].buffer # <<>>
               /\ stream' = [stream EXCEPT ![z] =
                     [@ EXCEPT !.buffer = Tail(stream[z].buffer),
                               !.seen = Append(stream[z].seen, Head(stream[z].buffer))]]
      <4> DEFINE b == Tail(stream[s].buffer)
                 a == Append(stream[s].seen, Head(stream[s].buffer))
      <4>1. stream'[s] = [stream[s] EXCEPT !.buffer = b, !.seen = a]
        BY <1>g, <2>2, <3>2
      <4>2. /\ a \o b = Had(s) /\ a \in Seq(Events) /\ b \in Seq(Events)
            /\ Len(b) = Len(stream[s].buffer) - 1 /\ Len(stream[s].buffer) \in Nat
        <5>1. stream[s].buffer # <<>>
          BY <2>2, <3>2
        <5>2. /\ a \o b = stream[s].seen \o stream[s].buffer
              /\ a \in Seq(Events) /\ b \in Seq(Events)
              /\ Len(b) = Len(stream[s].buffer) - 1 /\ Len(stream[s].buffer) \in Nat
          BY <1>d, <5>1, PumpedIsKept
        <5> QED BY <5>2 DEF Had
      <4>3. UNCHANGED published /\ stream[s].at = "live"
        BY <2>2, <1>20 DEF Pump
      <4> HIDE DEF a, b
      <4>4. /\ stream'[s] \in StreamRow /\ stream'[s].buffer = b /\ stream'[s].seen = a
            /\ UNCHANGED <<stream[s].at, stream[s].open, stream[s].from>>
        BY <1>d, <4>1, <4>2 DEF StreamRow
      <4>5. Had(s)' = Had(s)
        BY <4>2, <4>4 DEF Had
      <4>6. Len(stream'[s].buffer) <= Buffer
        BY <1>d, <4>2, <4>4, BoundAssumption
      <4> QED BY <1>a, <4>3, <4>4, <4>5, <4>6 DEF Told, StreamOK
    <3> QED BY <3>1, <3>2, <1>20 DEF Pump
  <2> QED BY <2>1, <2>2
<1>21. ASSUME NEW z \in Streams, Leave(z) PROVE Told(s)'
  <2>1. CASE s # z
    BY <1>a, <1>c, <2>1, <1>21, <1>f DEF Leave
  <2>2. CASE s = z
    BY <1>g, <1>h, <2>2, <1>21 DEF Leave
  <2> QED BY <2>1, <2>2
<1>22. CASE UNCHANGED vars
  BY <1>b, <1>22 DEF vars, events
<1> QED BY <1>1, <1>2, <1>3, <1>4, <1>5, <1>6, <1>7, <1>8, <1>9, <1>10, <1>11, <1>12, <1>13,
       <1>14, <1>15, <1>16, <1>17, <1>18, <1>19, <1>20, <1>21, <1>22, <1>23 DEF Next, RunStep, Handler

\* The streams stay a function on the consoles.
LEMMA StreamsStay ==
    stream \in [Streams -> StreamRow] /\ [Next]_vars => stream' = [s \in Streams |-> stream'[s]]
<1> SUFFICES ASSUME stream \in [Streams -> StreamRow], [Next]_vars
             PROVE  stream' = [s \in Streams |-> stream'[s]]
  OBVIOUS
<1>1. CASE Listen
  BY <1>1 DEF Listen, events
<1>2. CASE Serve
  BY <1>2 DEF Serve, events
<1>3. CASE Stop
  BY <1>3 DEF Stop, events
<1>4. CASE StopFaces
  BY <1>4 DEF StopFaces, CloseBroker
<1>5. CASE Collect
  BY <1>5 DEF Collect, events
<1>6. CASE Close
  BY <1>6 DEF Close, CloseBroker
<1>7. CASE Signal
  BY <1>7 DEF Signal, events
<1>8. CASE SweepRound
  BY <1>8 DEF SweepRound, events
<1>9. CASE SweeperEnds
  BY <1>9 DEF SweeperEnds, events
<1>10. ASSUME NEW f \in Faces, Drain(f) PROVE stream' = [s \in Streams |-> stream'[s]]
  BY <1>10 DEF Drain, events
<1>11. ASSUME NEW f \in Faces, Drained(f) PROVE stream' = [s \in Streams |-> stream'[s]]
  BY <1>11 DEF Drained, events
<1>12. ASSUME NEW f \in Faces, GraceEnds(f) PROVE stream' = [s \in Streams |-> stream'[s]]
  BY <1>12 DEF GraceEnds, events
<1>13. ASSUME NEW f \in Faces, FaceFails(f) PROVE stream' = [s \in Streams |-> stream'[s]]
  BY <1>13 DEF FaceFails, events
<1>14. ASSUME NEW c \in Calls, Arrive(c) PROVE stream' = [s \in Streams |-> stream'[s]]
  BY <1>14 DEF Arrive, events
<1>15. ASSUME NEW c \in Calls, Refuse(c) PROVE stream' = [s \in Streams |-> stream'[s]]
  BY <1>15 DEF Refuse, events
<1>16. ASSUME NEW c \in Calls, Decide(c) PROVE stream' = [s \in Streams |-> stream'[s]]
  BY <1>16 DEF Decide, events
<1>17. ASSUME NEW c \in Calls, Announce(c) PROVE stream' = [s \in Streams |-> stream'[s]]
  BY <1>17 DEF Announce, Publish, events
<1>23. ASSUME NEW c \in Calls, Finish(c) PROVE stream' = [s \in Streams |-> stream'[s]]
  BY <1>23 DEF Finish, events
<1>18. ASSUME NEW z \in Streams, Connect(z) PROVE stream' = [s \in Streams |-> stream'[s]]
  BY <1>18 DEF Connect
<1>19. ASSUME NEW z \in Streams, Subscribe(z) PROVE stream' = [s \in Streams |-> stream'[s]]
  BY <1>19 DEF Subscribe
<1>20. ASSUME NEW z \in Streams, Pump(z) PROVE stream' = [s \in Streams |-> stream'[s]]
  BY <1>20 DEF Pump
<1>21. ASSUME NEW z \in Streams, Leave(z) PROVE stream' = [s \in Streams |-> stream'[s]]
  BY <1>21 DEF Leave
<1>22. CASE UNCHANGED vars
  BY <1>22 DEF vars, events
<1> QED BY <1>1, <1>2, <1>3, <1>4, <1>5, <1>6, <1>7, <1>8, <1>9, <1>10, <1>11, <1>12, <1>13,
       <1>14, <1>15, <1>16, <1>17, <1>18, <1>19, <1>20, <1>21, <1>22, <1>23 DEF Next, RunStep, Handler

-----------------------------------------------------------------------------
(* The invariant holds *)

LEMMA IInvParts ==
    IInv <=> /\ World /\ stream \in [Streams -> StreamRow] /\ Announced /\ LifeOK /\ Quiet
             /\ \A s \in Streams : Told(s)
<1>1. ASSUME IInv
      PROVE  /\ World /\ stream \in [Streams -> StreamRow] /\ Announced /\ LifeOK /\ Quiet
             /\ \A s \in Streams : Told(s)
  <2>1. World /\ published \in Seq(Events)
    BY <1>1 DEF IInv, TypeOK, World
  <2>2. Len(published) \in Nat
    BY <2>1, LenProperties
  <2>3. \A s \in Streams : Told(s)
    BY <1>1, <2>2 DEF IInv, TypeOK, Told
  <2> QED BY <1>1, <2>1, <2>3 DEF IInv
<1>2. ASSUME World, stream \in [Streams -> StreamRow], Announced, LifeOK, Quiet,
             \A s \in Streams : Told(s)
      PROVE  IInv
  <2>1. Len(published) \in Nat
    BY <1>2, LenProperties DEF World
  <2>2. ASSUME NEW s \in Streams
        PROVE  /\ stream[s].at \in {"new", "arrived", "live", "over"}
               /\ stream[s].open \in BOOLEAN
               /\ stream[s].from \in 0..Len(published)
               /\ Len(stream[s].buffer) <= Buffer
               /\ Range(stream[s].buffer) \cup Range(stream[s].seen) \subseteq Events
    <3>1. /\ stream[s] \in StreamRow /\ stream[s].from <= Len(published)
          /\ Len(stream[s].buffer) <= Buffer
      BY <1>2 DEF Told
    <3>2. stream[s].buffer \in Seq(Events) /\ stream[s].seen \in Seq(Events)
      BY <3>1 DEF StreamRow
    <3>3. Range(stream[s].buffer) \subseteq Events /\ Range(stream[s].seen) \subseteq Events
      <4>1. \A q \in Seq(Events) : Range(q) \subseteq Events
        BY LenProperties DEF Range
      <4> QED BY <3>2, <4>1
    <3> QED BY <2>1, <3>1, <3>3 DEF StreamRow
  <2>3. TypeOK
    BY <1>2, <2>2 DEF World, TypeOK
  <2> QED BY <1>2, <2>3 DEF IInv, Told
<1> QED BY <1>1, <1>2

LEMMA InitHolds == Init => IInv
<1> SUFFICES ASSUME Init PROVE IInv
  OBVIOUS
<1>0. published = <<>> /\ published \in Seq(Events) /\ Len(published) = 0 /\ Len(<<>>) = 0
  BY EmptySeq DEF Init
<1>1. World
  BY <1>0 DEF Init, World, RunSteps
<1>2. \A s \in Streams : stream[s] = Without("new")
  BY DEF Init
<1>3. stream \in [Streams -> StreamRow]
  <2>1. <<>> \in Seq(Events)
    BY EmptySeq
  <2>2. Without("new") \in StreamRow
    BY <2>1 DEF Without, StreamRow
  <2> QED BY <2>2 DEF Init
<1>4. Announced /\ LifeOK
  BY <1>0 DEF Init, Announced, LifeOK
<1>5. Quiet
  <2>1. \A f \in Faces : ~InFlight(f)
    BY <1>2 DEF Init, InFlight, Without
  <2> QED BY <2>1 DEF Quiet
<1>6. ASSUME NEW s \in Streams PROVE Told(s)
  <2>1. /\ stream[s].at = "new" /\ stream[s].open = FALSE /\ stream[s].from = 0
        /\ stream[s].buffer = <<>> /\ stream[s].seen = <<>>
    BY <1>2 DEF Without
  <2>2. Had(s) = <<>>
    BY <2>1, ConcatEmptySeq, EmptySeq DEF Had
  <2>3. Tells(<<>>, published, 0, FALSE)
    BY <1>0, TellsNothing
  <2>4. stream[s].from <= Len(published) /\ Len(stream[s].buffer) <= Buffer
    BY <1>0, <2>1, BoundAssumption
  <2>5. StreamOK(s)
    BY <2>1, <2>2, <2>3 DEF StreamOK
  <2> QED BY <1>3, <2>4, <2>5 DEF Told
<1> QED BY <1>1, <1>3, <1>4, <1>5, <1>6, IInvParts

LEMMA Invariance == IInv /\ [Next]_vars => IInv'
<1> SUFFICES ASSUME IInv, [Next]_vars PROVE IInv'
  OBVIOUS
<1>1. /\ World /\ stream \in [Streams -> StreamRow] /\ Announced /\ LifeOK /\ Quiet
      /\ \A s \in Streams : Told(s)
  BY IInvParts
<1>2. World' /\ Announced' /\ LifeOK' /\ Quiet'
  BY <1>1, WorldStep, AnnouncedStep, LifeStep, QuietStep
<1>3. \A s \in Streams : Told(s)'
  BY <1>1, ToldStep
<1>4. stream' \in [Streams -> StreamRow]
  <2>1. \A s \in Streams : stream'[s] \in StreamRow
    BY <1>3 DEF Told
  <2>2. stream' = [s \in Streams |-> stream'[s]]
    BY <1>1, StreamsStay
  <2> QED BY <2>1, <2>2
<1>5. (/\ World /\ stream \in [Streams -> StreamRow] /\ Announced /\ LifeOK /\ Quiet
       /\ \A s \in Streams : Told(s))'
  BY <1>2, <1>3, <1>4
<1> QED BY <1>5, IInvParts, PTL

LEMMA Inductive == Spec => []IInv
<1> QED BY InitHolds, Invariance, PTL DEF Spec

-----------------------------------------------------------------------------
(* The theorems *)

\* Every state is of its type; the channel of a console never holds more than the
\* broker's buffer (subscriberBuffer).
THEOREM GatewayTypes == Spec => []TypeOK
<1>1. IInv => TypeOK
  BY DEF IInv
<1> QED BY <1>1, Inductive, PTL

\* Gateway.Run and Gateway.Close: when the database is closed the sweeper is out and
\* a request still in flight is one whose grace ran out or whose face failed.
THEOREM TheDatabaseClosesLast == Spec => []OrderlyEnd
<1>1. IInv => OrderlyEnd
  <2> SUFFICES ASSUME IInv, db = "closed" PROVE OrderlyEnd
    BY DEF OrderlyEnd
  <2>1. run = "closed"
    BY DEF IInv, LifeOK
  <2>2. /\ sweeper \in {"off", "ended"} /\ broker = "closed" /\ up = "stopped"
        /\ \A f \in Faces : face[f] \in {"unbound", "bound", "drained", "forced", "failed"}
    BY <2>1 DEF IInv, LifeOK, Ended
  <2> QED BY <2>2 DEF IInv, Quiet, OrderlyEnd
<1> QED BY <1>1, Inductive, PTL

\* The handlers, Broker.Publish and endpoints.pump: what is broadcast is in the database
\* and is broadcast once; a console is shown it in the order of the broadcast and each
\* once, and all of it while its channel cannot have been full.
THEOREM ConsolesAreToldWhatHappened == Spec => []StreamsTellWhatHappened
<1>1. IInv => StreamsTellWhatHappened
  <2> SUFFICES ASSUME IInv PROVE StreamsTellWhatHappened
    OBVIOUS
  <2>1. /\ World /\ stream \in [Streams -> StreamRow] /\ Announced
        /\ \A s \in Streams : Told(s)
    BY IInvParts
  <2>2. published \in Seq(Events) /\ Len(published) \in Nat /\ DOMAIN published = 1..Len(published)
    BY <2>1, LenProperties DEF World
  <2>3. \A i \in 1..Len(published) : published[i].call \in stored
    BY <2>1 DEF Announced
  <2>4. ASSUME NEW s \in Streams
        PROVE  LET since == SubSeq(published, stream[s].from + 1, Len(published))
                   had == stream[s].seen \o stream[s].buffer
               IN  /\ IsInjective(had) /\ \A i, j \in 1..Len(had) : i < j =>
                         \E k, l \in 1..Len(since) :
                            k < l /\ since[k] = had[i] /\ since[l] = had[j]
                   /\ stream[s].open /\ Len(since) <= Buffer => had = since
    <3> DEFINE from == stream[s].from
               since == SubSeq(published, from + 1, Len(published))
               had == Had(s)
    <3>1. /\ stream[s].seen \in Seq(Events) /\ stream[s].buffer \in Seq(Events)
          /\ from \in Nat /\ from <= Len(published)
          /\ Tells(had, published, from, stream[s].open)
      BY <2>1 DEF Told, StreamOK, StreamRow
    <3>2. had \in Seq(Events)
      BY <3>1, ConcatProperties DEF Had
    <3>3. Len(had) \in Nat /\ DOMAIN had = 1..Len(had)
      BY <3>2, LenProperties
    <3>4. /\ since \in Seq(Events) /\ Len(since) = Len(published) - from
          /\ \A k \in 1..Len(since) : since[k] = published[from + k]
      <4>1. \A i \in (from + 1)..Len(published) : published[i] \in Events
        BY <2>2, <3>1, ElementOfSeq
      <4>2. from + 1 \in Int /\ Len(published) \in Int
        BY <2>2, <3>1
      <4>3. /\ since \in Seq(Events)
            /\ Len(since) = IF from + 1 <= Len(published) THEN Len(published) - (from + 1) + 1 ELSE 0
            /\ \A i \in 1..(Len(published) - (from + 1) + 1) :
                  since[i] = published[from + 1 + i - 1]
        BY <4>1, <4>2, SubSeqProperties
      <4> HIDE DEF since, from
      <4>4. Len(since) = Len(published) - from
        <5>1. CASE from + 1 <= Len(published)
          BY <2>2, <3>1, <4>3, <5>1
        <5>2. CASE ~(from + 1 <= Len(published))
          <6>0. from \in Nat /\ from <= Len(published) /\ Len(published) \in Nat
            BY <2>2, <3>1
          <6>1. from = Len(published)
            BY <5>2, <6>0
          <6>2. Len(since) = 0
            BY <4>3, <5>2
          <6> QED BY <6>0, <6>1, <6>2
        <5> QED BY <5>1, <5>2
      <4>5. ASSUME NEW k \in 1..Len(since) PROVE since[k] = published[from + k]
        <5>1. k \in 1..(Len(published) - (from + 1) + 1) /\ from + 1 + k - 1 = from + k
          BY <2>2, <3>1, <4>4
        <5> QED BY <4>3, <5>1
      <4> QED BY <4>3, <4>4, <4>5
    <3> HIDE DEF since, from, had
    <3>5. ASSUME NEW i \in 1..Len(had), NEW j \in 1..Len(had), i < j
          PROVE  \E k, l \in 1..Len(since) : k < l /\ since[k] = had[i] /\ since[l] = had[j]
      <4>1. PICK k \in 1..Len(published), l \in 1..Len(published) :
               from < k /\ k < l /\ published[k] = had[i] /\ published[l] = had[j]
        BY <3>1, <3>5 DEF Tells
      <4>2. /\ k - from \in 1..Len(since) /\ l - from \in 1..Len(since) /\ k - from < l - from
            /\ from + (k - from) = k /\ from + (l - from) = l
        BY <2>2, <3>1, <3>4, <4>1
      <4>3. since[k - from] = had[i] /\ since[l - from] = had[j]
        BY <3>4, <4>1, <4>2
      <4> QED BY <4>2, <4>3
    <3>6. IsInjective(had)
      <4> SUFFICES ASSUME NEW i \in 1..Len(had), NEW j \in 1..Len(had), i < j, had[i] = had[j]
                   PROVE  FALSE
        BY <3>3 DEF IsInjective
      <4>1. PICK k \in 1..Len(published), l \in 1..Len(published) :
               from < k /\ k < l /\ published[k] = had[i] /\ published[l] = had[j]
        BY <3>1 DEF Tells
      <4>2. k = l
        BY <2>1, <4>1 DEF Announced
      <4> QED BY <4>1, <4>2
    <3>7. ASSUME stream[s].open, Len(since) <= Buffer PROVE had = since
      <4>1. Len(published) <= from + Buffer
        BY <2>2, <3>1, <3>4, <3>7, BoundAssumption
      <4>2. Len(published) = from + Len(had) /\ \A i \in 1..Len(had) : had[i] = published[from + i]
        BY <3>1, <3>7, <4>1 DEF Tells
      <4>3. Len(had) = Len(since)
        BY <2>2, <3>1, <3>3, <3>4, <4>2
      <4> QED BY <3>2, <3>4, <4>2, <4>3, SeqEqual
    <3> QED BY <3>5, <3>6, <3>7 DEF had, since, from, Had
  <2> QED BY <2>3, <2>4 DEF StreamsTellWhatHappened
<1> QED BY <1>1, Inductive, PTL

=============================================================================
