------------------------------- MODULE Gateway ------------------------------
(***************************************************************************)
(* The life of the gateway process: Gateway.Run binds three faces, serves  *)
(* them beside the expiry sweeper until a signal comes or a face fails,    *)
(* and shuts down; Gateway.Close follows.  A request changes the database  *)
(* and then announces the change; consoles follow the announcements on     *)
(* event streams fed by the broker.                                        *)
(*                                                                         *)
(* The faces, the sweeper, every request and every stream are goroutines   *)
(* of their own.  The faces and the sweeper watch a context derived from   *)
(* the one the signal cancels, so they do not wait for Run to come round.  *)
(* What a request changes is in Lease.tla, Settlement.tla and Egress.tla;  *)
(* here it is one fact: whether its change is in the database.             *)
(***************************************************************************)
EXTENDS Naturals, Sequences, FiniteSets, SequencesExt

CONSTANTS
    Calls,      \* requests, each made once
    KindOf,     \* KindOf[c]: what a request asks for
    Streams,    \* consoles, each opening the event stream once
    Buffer,     \* subscriberBuffer
    MaxBroken   \* bound: faces that fail or are cut off

ASSUME BoundAssumption == Buffer \in Nat \ {0} /\ MaxBroken \in Nat

\* In the order in which Run binds them.
Order == <<"web", "proxy", "mcp">>

Faces == Range(Order)

\* The events of the broker: EventArrival, EventPassage, EventLease.
Types == {"arrival", "passage", "lease"}

\* What a handler announces once its change is in the database.  Those that may
\* fail after it (a later write, a read for the view) may announce nothing.
\*   submit, tool   Submissions.Decide, from the web API and from the MCP server
\*   settle         SettleApproval, with or without a lease
\*   cancel         the request row; no entry of the ledger is written
\*   lease          Shorten and Revoke, the lease row; no entry either
\*   fetch          the proxy announces nothing
News == [submit |-> {{}, {"arrival"}}, tool |-> {{}, {"arrival"}},
         settle |-> {{}, {"passage"}, {"passage", "lease"}},
         cancel |-> {{}, {"passage"}}, lease |-> {{"lease"}}, fetch |-> {{}}]

Kinds == {"submit", "settle", "cancel", "lease", "tool", "fetch"}

ASSUME KindAssumption == KindOf \in [Calls -> Kinds]

FaceOf == [c \in Calls |-> CASE KindOf[c] = "tool" -> "mcp"
                             [] KindOf[c] = "fetch" -> "proxy"
                             [] OTHER -> "web"]

Events == [call : Calls, type : Types]

VARIABLES
    run,         \* where Gateway.Run is
    up,          \* Availability: "new", "serving" or "stopped"
    signalled,   \* the context of the command is cancelled
    stopped,     \* stopFaces was called
    face,        \* where the Serve of each face is
    sweeper,     \* where sweepApprovals is
    db,          \* "open" or "closed"
    call,        \* where each request is
    stored,      \* requests whose change is in the database
    owes,        \* what each request has still to announce
    broker,      \* "open" or "closed"
    published,   \* what the broker has broadcast, in order
    stream       \* [at, open, from, buffer, seen] of each console

process == <<run, up, signalled, stopped, face, sweeper, db>>
requests == <<call, stored, owes>>
events == <<broker, published, stream>>
vars == <<process, requests, events>>

RunSteps == {"listening", "serving", "stopping", "collecting", "returned", "closed"}

\* A Serve that has returned, and why.
Ended == {"drained", "forced", "failed"}

\* Another face may break: the bound.
MayBreak == Cardinality({f \in Faces : face[f] \in {"forced", "failed"}}) < MaxBroken

\* The context of the faces and of the sweeper.
Done == signalled \/ stopped

\* A stream without a subscription.
Without(step) == [at |-> step, open |-> FALSE, from |-> 0, buffer |-> <<>>, seen |-> <<>>]

TypeOK ==
    /\ run \in RunSteps
    /\ up \in {"new", "serving", "stopped"}
    /\ signalled \in BOOLEAN /\ stopped \in BOOLEAN
    /\ face \in [Faces -> {"unbound", "bound", "serving", "draining"} \cup Ended]
    /\ sweeper \in {"off", "idle", "round", "ended"}
    /\ db \in {"open", "closed"} /\ broker \in {"open", "closed"}
    /\ call \in [Calls -> {"new", "deciding", "decided", "over"}]
    /\ stored \subseteq Calls /\ owes \in [Calls -> SUBSET Types]
    /\ published \in Seq(Events)
    /\ \A s \in Streams :
          /\ stream[s].at \in {"new", "arrived", "live", "over"}
          /\ stream[s].open \in BOOLEAN
          /\ stream[s].from \in 0..Len(published)
          /\ Len(stream[s].buffer) <= Buffer
          /\ Range(stream[s].buffer) \cup Range(stream[s].seen) \subseteq Events

Init ==
    /\ run = "listening" /\ up = "new" /\ signalled = FALSE /\ stopped = FALSE
    /\ face = [f \in Faces |-> "unbound"]
    /\ sweeper = "off" /\ db = "open"
    /\ call = [c \in Calls |-> "new"] /\ stored = {} /\ owes = [c \in Calls |-> {}]
    /\ broker = "open" /\ published = <<>>
    /\ stream = [s \in Streams |-> Without("new")]

-----------------------------------------------------------------------------
(* Requests *)

\* Availability.Check, asked at the head of proxy.serve and of Dispatch.  The
\* web API does not ask.
Check(c) == FaceOf[c] = "web" \/ up = "serving"

\* A face that still has connections: it takes new ones while it serves, a
\* connection accepted before the drain may carry its first request during it,
\* and one kept alive outlives a listener that fails.
Reachable(f) == face[f] \in {"serving", "draining", "failed"}

\* The server of a face starts a handler.
Arrive(c) ==
    /\ call[c] = "new" /\ Reachable(FaceOf[c]) /\ Check(c)
    /\ call' = [call EXCEPT ![c] = "deciding"]
    /\ UNCHANGED <<process, stored, owes, events>>

\* The proxy books what it refuses, unless the write fails; the MCP server
\* only answers with an error.
Refuse(c) ==
    /\ call[c] = "new" /\ Reachable(FaceOf[c]) /\ ~Check(c)
    /\ call' = [call EXCEPT ![c] = "over"]
    /\ stored' \in {stored, IF FaceOf[c] = "proxy" /\ db = "open" THEN stored \cup {c} ELSE stored}
    /\ UNCHANGED <<process, owes, events>>

\* Fault: the error of the store is dropped.
DecideRegardless(c) ==
    /\ call[c] = "deciding"
    /\ call' = [call EXCEPT ![c] = "decided"]
    /\ \E news \in News[KindOf[c]] : owes' = [owes EXCEPT ![c] = news]
    /\ \/ db = "open" /\ stored' = stored \cup {c}
       \/ UNCHANGED stored
    /\ UNCHANGED <<process, events>>

\* The handler up to the end of its writes.  It fails when the database is
\* closed, and may fail at any time: the client leaves, the input is refused,
\* the state machine answers with a conflict.  A settlement that only replays
\* an earlier one writes nothing and announces nothing.
Decide(c) ==
    /\ call[c] = "deciding"
    /\ \/ /\ db = "open"
          /\ stored' = stored \cup {c}
          /\ \E news \in News[KindOf[c]] : owes' = [owes EXCEPT ![c] = news]
          /\ call' = [call EXCEPT ![c] = "decided"]
       \/ call' = [call EXCEPT ![c] = "over"] /\ UNCHANGED <<stored, owes>>
    /\ UNCHANGED <<process, events>>

\* Fault: the buffers are taken to be unbounded.
PublishUnbounded(e) ==
    IF broker = "closed" THEN UNCHANGED events
    ELSE /\ published' = Append(published, e)
         /\ stream' = [s \in Streams |->
              IF stream[s].open
              THEN [stream[s] EXCEPT !.buffer = Append(@, e)] ELSE stream[s]]
         /\ UNCHANGED broker

\* Broker.Publish: to every subscriber that has room, waiting for none.
Publish(e) ==
    IF broker = "closed" THEN UNCHANGED events
    ELSE /\ published' = Append(published, e)
         /\ stream' = [s \in Streams |->
              IF stream[s].open /\ Len(stream[s].buffer) < Buffer
              THEN [stream[s] EXCEPT !.buffer = Append(@, e)] ELSE stream[s]]
         /\ UNCHANGED broker

\* Announcer.Announce and endpoints.publish: one event at a time, the passage
\* before the lease that came of it.
Announce(c) ==
    /\ call[c] = "decided"
    /\ \E t \in owes[c] :
          /\ t = "lease" => "passage" \notin owes[c]
          /\ owes' = [owes EXCEPT ![c] = @ \ {t}]
          /\ Publish([call |-> c, type |-> t])
    /\ UNCHANGED <<process, call, stored>>

\* What follows the announcements: the answer, and for a tool call its
\* execution (mcpCalls.execute).
Finish(c) ==
    /\ call[c] = "decided" /\ owes[c] = {}
    /\ call' = [call EXCEPT ![c] = "over"]
    /\ UNCHANGED <<process, stored, owes, events>>

-----------------------------------------------------------------------------
(* Event streams *)

Connect(s) ==
    /\ stream[s].at = "new" /\ Reachable("web")
    /\ stream' = [stream EXCEPT ![s].at = "arrived"]
    /\ UNCHANGED <<process, requests, broker, published>>

\* endpoints.stream: subscribe, then answer.  A closed broker gives a channel
\* that is closed.
Subscribe(s) ==
    /\ stream[s].at = "arrived"
    /\ stream' = [stream EXCEPT ![s] = [@ EXCEPT !.at = "live", !.open = (broker = "open"),
                                                 !.from = Len(published)]]
    /\ UNCHANGED <<process, requests, broker, published>>

\* endpoints.pump: the next event is written; when the channel is closed and
\* empty the handler returns.
Pump(s) ==
    /\ stream[s].at = "live"
    /\ \/ /\ stream[s].buffer # <<>>
          /\ stream' = [stream EXCEPT ![s] =
                [@ EXCEPT !.buffer = Tail(stream[s].buffer),
                          !.seen = Append(stream[s].seen, Head(stream[s].buffer))]]
       \/ /\ stream[s].buffer = <<>> /\ ~stream[s].open
          /\ stream' = [stream EXCEPT ![s] = Without("over")]
    /\ UNCHANGED <<process, requests, broker, published>>

\* The client is gone or a write fails: pump returns and unsubscribes.
Leave(s) ==
    /\ stream[s].at = "live"
    /\ stream' = [stream EXCEPT ![s] = Without("over")]
    /\ UNCHANGED <<process, requests, broker, published>>

\* Broker.Close: every channel is closed; what is in it can still be read.
CloseBroker ==
    /\ broker' = "closed"
    /\ stream' = [s \in Streams |-> [stream[s] EXCEPT !.open = FALSE]]
    /\ UNCHANGED published

-----------------------------------------------------------------------------
(* Faces and sweeper *)

\* The handlers http.Server.Shutdown waits for.  It also waits, as long as the
\* grace lasts, for connections that were opened and not used.
InFlight(f) ==
    \/ \E c \in Calls : FaceOf[c] = f /\ call[c] \notin {"new", "over"}
    \/ f = "web" /\ \E s \in Streams : stream[s].at \in {"arrived", "live"}

\* Serve sees its context end: no new connection is taken.
Drain(f) ==
    /\ face[f] = "serving" /\ Done
    /\ face' = [face EXCEPT ![f] = "draining"]
    /\ UNCHANGED <<run, up, signalled, stopped, sweeper, db, requests, events>>

Drained(f) ==
    /\ face[f] = "draining" /\ ~InFlight(f)
    /\ face' = [face EXCEPT ![f] = "drained"]
    /\ UNCHANGED <<run, up, signalled, stopped, sweeper, db, requests, events>>

\* The grace is used up, by a handler or by an unused connection: the
\* connections are cut, handlers run on.
GraceEnds(f) ==
    /\ face[f] = "draining" /\ MayBreak
    /\ face' = [face EXCEPT ![f] = "forced"]
    /\ UNCHANGED <<run, up, signalled, stopped, sweeper, db, requests, events>>

\* http.Server.Serve returns an error of its listener; Serve returns it and
\* waits for nobody.
FaceFails(f) ==
    /\ face[f] = "serving" /\ MayBreak
    /\ face' = [face EXCEPT ![f] = "failed"]
    /\ UNCHANGED <<run, up, signalled, stopped, sweeper, db, requests, events>>

\* sweepApprovals: a round at each tick of the ticker, out when the context is
\* done and no round is under way.
SweepRound ==
    /\ \/ sweeper = "idle" /\ sweeper' = "round"
       \/ sweeper = "round" /\ sweeper' = "idle"
    /\ UNCHANGED <<run, up, signalled, stopped, face, db, requests, events>>

SweeperEnds ==
    /\ sweeper = "idle" /\ Done
    /\ sweeper' = "ended"
    /\ UNCHANGED <<run, up, signalled, stopped, face, db, requests, events>>

-----------------------------------------------------------------------------
(* Gateway.Run and Gateway.Close *)

\* Each face in its turn; a port that is taken ends Run.
Listen ==
    /\ run = "listening"
    /\ \E i \in 1..Len(Order) :
          /\ face[Order[i]] = "unbound" /\ \A j \in 1..(i - 1) : face[Order[j]] = "bound"
          /\ \/ face' = [face EXCEPT ![Order[i]] = "bound"] /\ UNCHANGED run
             \/ run' = "returned" /\ UNCHANGED face
    /\ UNCHANGED <<up, signalled, stopped, sweeper, db, requests, events>>

\* Availability.Serve, then the goroutines.
Serve ==
    /\ run = "listening" /\ \A f \in Faces : face[f] = "bound"
    /\ up = "new"
    /\ up' = "serving" /\ run' = "serving"
    /\ face' = [f \in Faces |-> "serving"]
    /\ sweeper' = "idle"
    /\ UNCHANGED <<signalled, stopped, db, requests, events>>

\* The select: a face has returned or the signal has come.  Availability.Stop
\* is the first thing to follow.
Stop ==
    /\ run = "serving"
    /\ signalled \/ \E f \in Faces : face[f] \in Ended
    /\ up' = "stopped" /\ run' = "stopping"
    /\ UNCHANGED <<signalled, stopped, face, sweeper, db, requests, events>>

\* Fault: the faces are left to the signal.
StopEvents ==
    /\ run = "stopping"
    /\ CloseBroker
    /\ run' = "collecting"
    /\ UNCHANGED <<up, signalled, stopped, face, sweeper, db, requests>>

\* events.Close, then stopFaces.
StopFaces ==
    /\ run = "stopping"
    /\ CloseBroker
    /\ stopped' = TRUE /\ run' = "collecting"
    /\ UNCHANGED <<up, signalled, face, sweeper, db, requests>>

\* Fault: one result less than there are faces is received.
CollectTwo ==
    /\ run = "collecting" /\ sweeper = "ended"
    /\ Cardinality({f \in Faces : face[f] \in Ended}) >= Len(Order) - 1
    /\ run' = "returned"
    /\ UNCHANGED <<up, signalled, stopped, face, sweeper, db, requests, events>>

\* The Serve of each face has returned, and the sweeper; so does Run.
Collect ==
    /\ run = "collecting" /\ sweeper = "ended"
    /\ \A f \in Faces : face[f] \in Ended
    /\ run' = "returned"
    /\ UNCHANGED <<up, signalled, stopped, face, sweeper, db, requests, events>>

\* Gateway.Close, deferred by runStart.
Close ==
    /\ run = "returned"
    /\ up' = "stopped" /\ db' = "closed" /\ run' = "closed"
    /\ CloseBroker
    /\ UNCHANGED <<signalled, stopped, face, sweeper, requests>>

Signal ==
    /\ ~signalled
    /\ signalled' = TRUE
    /\ UNCHANGED <<run, up, stopped, face, sweeper, db, requests, events>>

RunStep == Listen \/ Serve \/ Stop \/ StopFaces \/ Collect \/ Close

Handler(c) == Decide(c) \/ Announce(c) \/ Finish(c)

Next ==
    \/ RunStep \/ Signal
    \/ \E f \in Faces : Drain(f) \/ Drained(f) \/ GraceEnds(f) \/ FaceFails(f)
    \/ SweepRound \/ SweeperEnds
    \/ \E c \in Calls : Arrive(c) \/ Refuse(c) \/ Handler(c)
    \/ \E s \in Streams : Connect(s) \/ Subscribe(s) \/ Pump(s) \/ Leave(s)

Spec == Init /\ [][Next]_vars

\* Goroutines that can run do.  A handler comes to its end: what it waits for
\* has a deadline.  The sweeper's ticker is slow, so that its select finds the
\* context done and no tick again and again.  A console reads what is written
\* to it (there is no write timeout).  Neither the end of the grace nor a client
\* that leaves is relied on.
Fairness ==
    /\ WF_vars(RunStep)
    /\ \A f \in Faces : WF_vars(Drain(f)) /\ WF_vars(Drained(f))
    /\ WF_vars(SweepRound) /\ SF_vars(SweeperEnds)
    /\ \A c \in Calls : WF_vars(Handler(c))
    /\ \A s \in Streams : WF_vars(Subscribe(s)) /\ WF_vars(Pump(s))

FairSpec == Spec /\ Fairness

-----------------------------------------------------------------------------
(* Properties *)

\* A signal, or a face that fails, ends the process: Run collects its faces
\* and its sweeper and the database is closed, though a console holds an event
\* stream open or is just opening one.  With consoles that read, the grace need
\* not run out; with one that does not, GraceEnds is what ends the wait.
ShutdownFinishes ==
    (signalled \/ \E f \in Faces : face[f] = "failed") ~> (run = "closed")

\* Only what has happened is broadcast, and no event twice: the change an event
\* tells of is in the database, whatever fails or is shut down meanwhile.  A
\* console is shown events in the order of their broadcast, each once, and as
\* long as no more were broadcast since it subscribed than its channel holds
\* none is missing.
StreamsTellWhatHappened ==
    /\ \A i \in 1..Len(published) : published[i].call \in stored
    /\ \A s \in Streams :
          LET since == SubSeq(published, stream[s].from + 1, Len(published))
              had == stream[s].seen \o stream[s].buffer
          IN  /\ IsInjective(had) /\ \A i, j \in 1..Len(had) : i < j =>
                    \E k, l \in 1..Len(since) : k < l /\ since[k] = had[i] /\ since[l] = had[j]
              /\ stream[s].open /\ Len(since) <= Buffer => had = since

\* When the database is closed nobody the process answers for still works on
\* it: the sweeper is out, and a request still in flight is one whose grace
\* ran out or whose face failed.
OrderlyEnd ==
    db = "closed" =>
        /\ sweeper \in {"off", "ended"} /\ broker = "closed" /\ up = "stopped"
        /\ \A f \in Faces : InFlight(f) => face[f] \in {"forced", "failed"}

=============================================================================
