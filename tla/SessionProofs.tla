--------------------------- MODULE SessionProofs ----------------------------
(***************************************************************************)
(* Proofs about agent sessions, for any number of runs, requests, devices, *)
(* workspaces, executables and rows: trust follows the binding, no session *)
(* stays open behind a run that closed it, a dead key stays dead, and a    *)
(* disconnection that reports success has closed what it had to close.     *)
(***************************************************************************)
EXTENDS Session, SequenceTheorems, WellFoundedInduction, TLAPS

\* A key is in one row, that of the session its run registered, the row has
\* the run's binding, and it is trusted only where the owner confirmed that.
KeysOK ==
    \A a \in Rows : LET r == agents[a].key IN
        /\ pc[r] \in {"running", "closing", "closed", "failed"}
        /\ session[r] = a
        /\ agents[a].binding = described[r]
        /\ agents[a].trust = "known" => agents[a].binding \in confirmed

\* A run that registers has described itself, and the row it is about to take
\* over has its binding; one that is connected has a row.
RunsOK ==
    \A r \in Runs :
        /\ pc[r] # "idle" => described[r] \in Bindings
        /\ pc[r] = "rebind" =>
              session[r] \in Rows /\ agents[session[r]].binding = described[r]
        /\ pc[r] \in {"running", "closing"} => session[r] \in Rows

\* A disconnection under way is about a row; a run's own is about its session,
\* and past its first statement the run's key works no more.
CallsOK ==
    \A c \in Closers : closer[c].at \in {"status", "list", "cascade"} =>
        /\ closer[c].agent \in Rows
        /\ c \in Runs =>
              /\ pc[c] = "closing" /\ closer[c].agent = session[c]
              /\ closer[c].at # "status" => ~KeyWorks(c)

\* What a cascade is due to close is closed already, or bound to its agent
\* when it is listed, or still to do afterwards.
Due(c) ==
    /\ closer[c].at \in {"list", "cascade"} =>
          \A q \in closer[c].due : request[q].at \in {"leased", "over"}
    /\ closer[c].at = "list" =>
          \A q \in closer[c].due : request[q].at = "leased" => request[q].agent = closer[c].agent
    /\ closer[c].at = "cascade" =>
          \A q \in closer[c].due : request[q].at = "leased" => q \in closer[c].todo

IInv ==
    /\ TypeOK
    /\ KeysOK
    /\ RunsOK
    /\ CallsOK
    /\ NoOrphanSession
    /\ \A c \in Closers : Due(c)

-----------------------------------------------------------------------------
(* The rows of the agents table *)

\* The newest of the rows that match is one of them.
LEMMA NewestIsOne ==
    ASSUME NEW n \in Nat, NEW S \in SUBSET (1..n), S # {}
    PROVE  Max(S) \in S
<1> DEFINE T == {n - a : a \in S}
           R == OpToRel(<, Nat)
<1>1. T \subseteq Nat /\ T # {}
  <2>1. \A a \in S : n - a \in Nat
    OBVIOUS
  <2>2. PICK a \in S : TRUE
    OBVIOUS
  <2>3. n - a \in T
    OBVIOUS
  <2> QED BY <2>1, <2>3
<1>2. PICK x \in T : \A y \in T : ~(<<y, x>> \in R)
  BY <1>1, NatLessThanWellFounded, WFMin
<1>3. PICK a \in S : x = n - a
  OBVIOUS
<1>4. \A b \in S : a >= b
  <2> SUFFICES ASSUME NEW b \in S PROVE a >= b
    OBVIOUS
  <2>1. n - b \in Nat /\ n - a \in Nat /\ ~(<<n - b, n - a>> \in R)
    BY <1>1, <1>2, <1>3
  <2>2. ~(n - b < n - a)
    BY <2>1 DEF OpToRel
  <2> QED BY <2>2
<1> QED BY <1>4 DEF Max

\* A statement that updates one row leaves the others and their number.
LEMMA OneRow ==
    ASSUME NEW T, NEW s \in Seq(T), NEW a \in DOMAIN s, NEW row \in T
    PROVE  LET t == [s EXCEPT ![a] = row]
           IN  /\ t \in Seq(T) /\ Len(t) = Len(s) /\ DOMAIN t = DOMAIN s
               /\ t[a] = row
               /\ \A b \in DOMAIN s : b # a => t[b] = s[b]
  BY ExceptSeq

\* One that adds a row puts it behind the others.
LEMMA OneMoreRow ==
    ASSUME NEW T, NEW s \in Seq(T), NEW row \in T
    PROVE  LET t == Append(s, row)
           IN  /\ t \in Seq(T) /\ Len(t) = Len(s) + 1
               /\ DOMAIN t = DOMAIN s \cup {Len(s) + 1} /\ Len(s) + 1 \notin DOMAIN s
               /\ t[Len(s) + 1] = row
               /\ \A b \in DOMAIN s : t[b] = s[b]
<1>1. /\ Len(s) \in Nat /\ DOMAIN s = 1..Len(s)
      /\ DOMAIN Append(s, row) = 1..(Len(s) + 1)
  BY AppendProperties
<1>2. 1..(Len(s) + 1) = (1..Len(s)) \cup {Len(s) + 1} /\ Len(s) + 1 \notin 1..Len(s)
  BY <1>1
<1> QED BY <1>1, <1>2, AppendProperties

\* Rows are numbered from one to at most MaxAgents.
LEMMA RowsAreIds ==
    ASSUME TypeOK
    PROVE  /\ Rows = 1..Len(agents) /\ Len(agents) \in Nat
           /\ Rows \subseteq AgentIds
           /\ \A a \in Rows : agents[a] \in AgentRows
  BY BoundsAssumption, ElementOfSeq DEF TypeOK, Rows, AgentIds

-----------------------------------------------------------------------------
(* The requests *)

\* A request that moves on keeps its agent until it is over, and no other moves.
LEMMA RequestMoves ==
    ASSUME TypeOK, NEW q \in Requests, NEW from,
           NEW to \in {"pending", "leased", "over"}, MovesOn(q, from, to)
    PROVE  /\ request' \in [Requests -> [run : Runs \cup {Absent}, agent : AgentIds \cup {NoAgent},
                at : {"unsent", "authenticated", "pending", "leased", "over"}]]
           /\ request[q].at = from /\ request'[q].at = to
           /\ to # "over" => request'[q].agent = request[q].agent
           /\ \A p \in Requests : p # q => request'[p] = request[p]
<1> DEFINE new == IF to = "over" THEN Over ELSE [request[q] EXCEPT !.at = to]
<1>1. request[q].at = from /\ request' = [request EXCEPT ![q] = new]
  BY DEF MovesOn
<1>2. /\ new \in [run : Runs \cup {Absent}, agent : AgentIds \cup {NoAgent},
                  at : {"unsent", "authenticated", "pending", "leased", "over"}]
      /\ new.at = to
      /\ to # "over" => new.agent = request[q].agent
  <2>1. CASE to = "over"
    BY <2>1 DEF Over, Unsent
  <2>2. CASE to # "over"
    BY <2>2 DEF TypeOK
  <2> QED BY <2>1, <2>2
<1> HIDE DEF new
<1> QED BY <1>1, <1>2 DEF TypeOK

-----------------------------------------------------------------------------
(* Every variable stays in its type *)

\* No step leaves the types.
LEMMA TypeStep == IInv /\ [Next]_vars => TypeOK'
<1> SUFFICES ASSUME IInv, [Next]_vars PROVE TypeOK'
  OBVIOUS
<1>t. TypeOK
  BY DEF IInv
<1>r. /\ Rows = 1..Len(agents) /\ Len(agents) \in Nat /\ Rows \subseteq AgentIds
      /\ \A a \in Rows : agents[a] \in AgentRows
  BY <1>t, RowsAreIds
<1>1. ASSUME NEW r \in Runs, OpenSession(r) PROVE TypeOK'
  <2>1. PICK b \in Bindings, p \in Projects :
           /\ described' = [described EXCEPT ![r] = b]
           /\ ResolveDevice(b) /\ ResolveWorkspace(b, p)
    BY <1>1 DEF OpenSession
  <2>2. b.device \in Devices /\ b.workspace \in Workspaces
    BY DEF Bindings
  <2> QED BY <1>1, <1>t, <2>1, <2>2
       DEF OpenSession, ResolveDevice, ResolveWorkspace, Goto, TypeOK, RunStates
<1>2. ASSUME NEW r \in Runs, AgentByBinding(r) PROVE TypeOK'
  <2> DEFINE bound == {a \in Rows : Bound(a, r)}
  <2>1. bound # {} => Max(bound) \in AgentIds
    BY <1>r, NewestIsOne
  <2>2. session' \in [Runs -> AgentIds \cup {NoAgent}]
    BY <1>2, <1>t, <2>1 DEF AgentByBinding, TypeOK
  <2> QED BY <1>2, <1>t, <2>2 DEF AgentByBinding, Goto, TypeOK, RunStates, registry
<1>3. ASSUME NEW r \in Runs, RebindAgent(r) PROVE TypeOK'
  <2> DEFINE a == session[r]
             row == [agents[a] EXCEPT !.key = r, !.status = "active"]
  <2>1. a \in Rows
    BY <1>3 DEF RebindAgent, IInv, RunsOK
  <2>2. row \in AgentRows
    BY <1>r, <2>1 DEF AgentRows
  <2>3. agents' = [agents EXCEPT ![a] = row]
    BY <1>3 DEF RebindAgent
  <2> HIDE DEF row, a
  <2>4. agents' \in Seq(AgentRows) /\ Len(agents') = Len(agents)
    BY <1>t, <2>1, <2>2, <2>3, OneRow DEF TypeOK, Rows
  <2> QED BY <1>3, <1>t, <2>4 DEF RebindAgent, Goto, TypeOK, RunStates, registry
<1>4. ASSUME NEW r \in Runs, CreateAgent(r) PROVE TypeOK'
  <2> DEFINE row == [binding |-> BindingOf(r), key |-> r, trust |-> "unverified",
                     status |-> "active"]
  <2>1. row \in AgentRows
    BY <1>4 DEF CreateAgent, IInv, RunsOK, AgentRows, TrustLevels, BindingOf
  <2>2. agents' = Append(agents, row) /\ Len(agents) < MaxAgents
    BY <1>4 DEF CreateAgent
  <2> HIDE DEF row
  <2>3. agents' \in Seq(AgentRows) /\ Len(agents') = Len(agents) + 1
    BY <1>t, <2>1, <2>2, OneMoreRow DEF TypeOK
  <2>4. Len(agents) + 1 \in AgentIds /\ Len(agents') <= MaxAgents
    BY <1>r, <2>2, <2>3, BoundsAssumption DEF AgentIds
  <2> QED BY <1>4, <1>t, <2>3, <2>4 DEF CreateAgent, Goto, TypeOK, RunStates, registry
<1>5. ASSUME NEW r \in Runs, RegisterFails(r) PROVE TypeOK'
  BY <1>5, <1>t DEF RegisterFails, Goto, TypeOK, RunStates, registry
<1>6. ASSUME NEW r \in Runs, Exit(r) PROVE TypeOK'
  <2>1. closer' \in [Closers -> [at : CallStates, agent : AgentIds \cup {NoAgent},
                               todo : SUBSET Requests, due : SUBSET Requests]]
    BY <1>6, <1>t DEF Exit, TypeOK, Idle, CallStates, Closers
  <2> QED BY <1>6, <1>t, <2>1 DEF Exit, Goto, TypeOK, RunStates, registry
<1>7. ASSUME NEW r \in Runs, NEW q \in Requests, Authenticate(r, q) PROVE TypeOK'
  BY <1>7, <1>t DEF Authenticate, TypeOK, registry
<1>8. ASSUME NEW q \in Requests, Touch(q) PROVE TypeOK'
  <2>1. request' \in [Requests -> [run : Runs \cup {Absent}, agent : AgentIds \cup {NoAgent},
            at : {"unsent", "authenticated", "pending", "leased", "over"}]]
    BY <1>8, <1>t, RequestMoves DEF Touch
  <2> QED BY <1>8, <1>t, <2>1 DEF Touch, TypeOK, registry
<1>9. ASSUME NEW q \in Requests, SettleApproval(q) PROVE TypeOK'
  <2>1. request' \in [Requests -> [run : Runs \cup {Absent}, agent : AgentIds \cup {NoAgent},
            at : {"unsent", "authenticated", "pending", "leased", "over"}]]
    BY <1>9, <1>t, RequestMoves DEF SettleApproval
  <2> QED BY <1>9, <1>t, <2>1 DEF SettleApproval, TypeOK, registry
<1>10. ASSUME NEW q \in Requests, CloseElsewhere(q) PROVE TypeOK'
  <2>1. request' \in [Requests -> [run : Runs \cup {Absent}, agent : AgentIds \cup {NoAgent},
            at : {"unsent", "authenticated", "pending", "leased", "over"}]]
    BY <1>10, <1>t, RequestMoves DEF CloseElsewhere
  <2> QED BY <1>10, <1>t, <2>1 DEF CloseElsewhere, TypeOK, registry
<1>11. ASSUME NEW c \in Closers, Disconnect(c) PROVE TypeOK'
  <2> DEFINE a == closer[c].agent
             row == [agents[a] EXCEPT !.status = "ended"]
  <2>1. a \in Rows
    BY <1>11 DEF Disconnect, IInv, CallsOK
  <2>2. row \in AgentRows
    BY <1>r, <2>1 DEF AgentRows
  <2>3. agents' = [agents EXCEPT ![a] = row]
    BY <1>11 DEF Disconnect
  <2>4. BoundLeases(a) \in SUBSET Requests
    BY DEF BoundLeases
  <2>5. closer' \in [Closers -> [at : CallStates, agent : AgentIds \cup {NoAgent},
                               todo : SUBSET Requests, due : SUBSET Requests]]
    BY <1>11, <1>t, <2>4 DEF Disconnect, TypeOK, CallStates
  <2> HIDE DEF row, a
  <2>6. agents' \in Seq(AgentRows) /\ Len(agents') = Len(agents)
    BY <1>t, <2>1, <2>2, <2>3, OneRow DEF TypeOK, Rows
  <2> QED BY <1>11, <1>t, <2>5, <2>6 DEF Disconnect, TypeOK, registry
<1>12. ASSUME NEW c \in Closers, ListBound(c) PROVE TypeOK'
  <2>1. PICK listed \in SUBSET BoundLeases(closer[c].agent) :
           closer' = [closer EXCEPT ![c] =
              [at |-> "cascade", agent |-> closer[c].agent, todo |-> listed,
               due |-> IF listed = BoundLeases(closer[c].agent) THEN closer[c].due ELSE listed]]
    BY <1>12 DEF ListBound
  <2>2. listed \in SUBSET Requests
    BY DEF BoundLeases
  <2>3. closer' \in [Closers -> [at : CallStates, agent : AgentIds \cup {NoAgent},
                               todo : SUBSET Requests, due : SUBSET Requests]]
    BY <1>t, <2>1, <2>2 DEF TypeOK, CallStates
  <2> QED BY <1>12, <1>t, <2>3 DEF ListBound, TypeOK, registry
<1>13. ASSUME NEW c \in Closers, RevokeBound(c) PROVE TypeOK'
  <2>1. PICK q \in closer[c].todo :
           /\ MovesOn(q, "leased", "over")
           /\ closer' = [closer EXCEPT ![c].todo = @ \ {q}]
    BY <1>13 DEF RevokeBound
  <2>2. request' \in [Requests -> [run : Runs \cup {Absent}, agent : AgentIds \cup {NoAgent},
            at : {"unsent", "authenticated", "pending", "leased", "over"}]]
    BY <1>t, <2>1, RequestMoves DEF TypeOK
  <2>3. closer' \in [Closers -> [at : CallStates, agent : AgentIds \cup {NoAgent},
                               todo : SUBSET Requests, due : SUBSET Requests]]
    BY <1>t, <2>1 DEF TypeOK
  <2> QED BY <1>13, <1>t, <2>2, <2>3 DEF RevokeBound, TypeOK, registry
<1>14. ASSUME NEW c \in Closers, RevokeConflict(c) PROVE TypeOK'
  <2>1. closer' \in [Closers -> [at : CallStates, agent : AgentIds \cup {NoAgent},
                               todo : SUBSET Requests, due : SUBSET Requests]]
    BY <1>14, <1>t DEF RevokeConflict, Settled, TypeOK, Idle, CallStates, NoAgent
  <2>2. pc' \in [Runs -> RunStates]
    BY <1>14, <1>t DEF RevokeConflict, Settled, Goto, TypeOK, RunStates
  <2> QED BY <1>14, <1>t, <2>1, <2>2 DEF RevokeConflict, TypeOK, registry
<1>15. ASSUME NEW c \in Closers, CascadeEnds(c) PROVE TypeOK'
  <2>1. closer' \in [Closers -> [at : CallStates, agent : AgentIds \cup {NoAgent},
                               todo : SUBSET Requests, due : SUBSET Requests]]
    BY <1>15, <1>t DEF CascadeEnds, Settled, TypeOK, Idle, CallStates, NoAgent
  <2>2. pc' \in [Runs -> RunStates]
    BY <1>15, <1>t DEF CascadeEnds, Settled, Goto, TypeOK, RunStates
  <2> QED BY <1>15, <1>t, <2>1, <2>2 DEF CascadeEnds, TypeOK, registry
<1>16. ASSUME NEW c \in Closers, CloseFails(c) PROVE TypeOK'
  <2>1. closer' \in [Closers -> [at : CallStates, agent : AgentIds \cup {NoAgent},
                               todo : SUBSET Requests, due : SUBSET Requests]]
    BY <1>16, <1>t DEF CloseFails, Settled, TypeOK, Idle, CallStates, NoAgent
  <2>2. pc' \in [Runs -> RunStates]
    BY <1>16, <1>t DEF CloseFails, Settled, Goto, TypeOK, RunStates
  <2> QED BY <1>16, <1>t, <2>1, <2>2 DEF CloseFails, TypeOK, registry
<1>17. ASSUME NEW a \in AgentIds, ConfirmTrust(a) PROVE TypeOK'
  <2> DEFINE row == [agents[a] EXCEPT !.trust = "known"]
  <2>1. a \in Rows /\ agents' = [agents EXCEPT ![a] = row]
    BY <1>17 DEF ConfirmTrust
  <2>2. row \in AgentRows
    BY <1>r, <2>1 DEF AgentRows, TrustLevels
  <2> HIDE DEF row
  <2>3. agents' \in Seq(AgentRows) /\ Len(agents') = Len(agents)
    BY <1>t, <2>1, <2>2, OneRow DEF TypeOK, Rows
  <2>4. agents[a].binding \in Bindings
    BY <1>r, <2>1 DEF AgentRows
  <2> QED BY <1>17, <1>t, <2>3, <2>4 DEF ConfirmTrust, TypeOK, registry
<1>18. ASSUME NEW a \in AgentIds, Expire(a) PROVE TypeOK'
  <2> DEFINE row == [agents[a] EXCEPT !.status = "ended"]
  <2>1. a \in Rows /\ agents' = [agents EXCEPT ![a] = row]
    BY <1>18 DEF Expire
  <2>2. row \in AgentRows
    BY <1>r, <2>1 DEF AgentRows, TrustLevels
  <2> HIDE DEF row
  <2>3. agents' \in Seq(AgentRows) /\ Len(agents') = Len(agents)
    BY <1>t, <2>1, <2>2, OneRow DEF TypeOK, Rows
  <2> QED BY <1>18, <1>t, <2>3 DEF Expire, TypeOK, registry
<1>19. ASSUME NEW a \in AgentIds, OwnerDisconnects(a) PROVE TypeOK'
  <2>1. closer' \in [Closers -> [at : CallStates, agent : AgentIds \cup {NoAgent},
                               todo : SUBSET Requests, due : SUBSET Requests]]
    BY <1>19, <1>t DEF OwnerDisconnects, TypeOK, Idle, CallStates, Closers
  <2> QED BY <1>19, <1>t, <2>1, BoundsAssumption DEF OwnerDisconnects, TypeOK, registry
<1>20. CASE UNCHANGED vars
  BY <1>20, <1>t DEF vars, TypeOK
<1> QED BY <1>1, <1>2, <1>3, <1>4, <1>5, <1>6, <1>7, <1>8, <1>9, <1>10, <1>11, <1>12, <1>13, <1>14, <1>15, <1>16, <1>17, <1>18, <1>19, <1>20
       DEF Next, RunStep, RequestStep, CloserStep

-----------------------------------------------------------------------------
(* What each statement does to the rows *)

\* Row a is replaced by `row`, and that is all that happens to the table.
Updates(a, row) ==
    /\ a \in Rows /\ Rows' = Rows
    /\ agents'[a] = row
    /\ \A b \in Rows : b # a => agents'[b] = agents[b]

\* The rows a step may replace, and with what.
LEMMA RowUpdates ==
    ASSUME IInv
    PROVE  /\ \A r \in Runs : RebindAgent(r) =>
                 Updates(session[r], [agents[session[r]] EXCEPT !.key = r, !.status = "active"])
           /\ \A c \in Closers : Disconnect(c) =>
                 Updates(closer[c].agent, [agents[closer[c].agent] EXCEPT !.status = "ended"])
           /\ \A a \in AgentIds : ConfirmTrust(a) =>
                 Updates(a, [agents[a] EXCEPT !.trust = "known"])
           /\ \A a \in AgentIds : Expire(a) =>
                 Updates(a, [agents[a] EXCEPT !.status = "ended"])
<1>1. ASSUME NEW a \in Rows, NEW row, agents' = [agents EXCEPT ![a] = row]
      PROVE  Updates(a, row)
  BY <1>1 DEF Updates, Rows
<1>2. ASSUME NEW r \in Runs, RebindAgent(r)
      PROVE  Updates(session[r], [agents[session[r]] EXCEPT !.key = r, !.status = "active"])
  <2>1. session[r] \in Rows
    BY <1>2 DEF RebindAgent, IInv, RunsOK
  <2> QED BY <1>1, <1>2, <2>1 DEF RebindAgent
<1>3. ASSUME NEW c \in Closers, Disconnect(c)
      PROVE  Updates(closer[c].agent, [agents[closer[c].agent] EXCEPT !.status = "ended"])
  <2>1. closer[c].agent \in Rows
    BY <1>3 DEF Disconnect, IInv, CallsOK
  <2> QED BY <1>1, <1>3, <2>1 DEF Disconnect
<1>4. ASSUME NEW a \in AgentIds, ConfirmTrust(a)
      PROVE  Updates(a, [agents[a] EXCEPT !.trust = "known"])
  BY <1>1, <1>4 DEF ConfirmTrust
<1>5. ASSUME NEW a \in AgentIds, Expire(a)
      PROVE  Updates(a, [agents[a] EXCEPT !.status = "ended"])
  BY <1>1, <1>5 DEF Expire
<1> QED BY <1>2, <1>3, <1>4, <1>5

\* A registration adds one row.
LEMMA RowAdded ==
    ASSUME TypeOK, RunsOK, NEW r \in Runs, CreateAgent(r)
    PROVE  /\ Rows' = Rows \cup {Len(agents) + 1} /\ Len(agents) + 1 \notin Rows
           /\ agents'[Len(agents) + 1] =
                 [binding |-> described[r], key |-> r, trust |-> "unverified", status |-> "active"]
           /\ \A b \in Rows : agents'[b] = agents[b]
<1> DEFINE row == [binding |-> described[r], key |-> r, trust |-> "unverified", status |-> "active"]
<1>1. row \in AgentRows
  BY DEF CreateAgent, RunsOK, AgentRows, TrustLevels
<1>2. agents' = Append(agents, row) /\ agents \in Seq(AgentRows)
  BY DEF CreateAgent, BindingOf, TypeOK
<1> HIDE DEF row
<1> QED BY <1>1, <1>2, OneMoreRow DEF Rows, row

\* Rows stay, and keep their binding.
LEMMA RowsStay == IInv /\ [Next]_vars =>
    \A a \in Rows : a \in Rows' /\ agents'[a].binding = agents[a].binding
<1> DEFINE Stay == \A a \in Rows : a \in Rows' /\ agents'[a].binding = agents[a].binding
<1> SUFFICES ASSUME IInv, [Next]_vars PROVE Stay
  OBVIOUS
<1>r. \A a \in Rows : agents[a] \in AgentRows
  BY RowsAreIds DEF IInv
<1>s. agents' = agents => Stay
  BY DEF Rows
<1>u. ASSUME NEW a \in Rows, NEW row, Updates(a, row), row.binding = agents[a].binding PROVE Stay
  BY <1>u DEF Updates
<1> HIDE DEF Stay
<1>1. ASSUME NEW r \in Runs, OpenSession(r) PROVE Stay
  BY <1>1, <1>s DEF OpenSession
<1>2. ASSUME NEW r \in Runs, AgentByBinding(r) PROVE Stay
  BY <1>2, <1>s DEF AgentByBinding
<1>3. ASSUME NEW r \in Runs, RebindAgent(r) PROVE Stay
  <2> DEFINE row == [agents[session[r]] EXCEPT !.key = r, !.status = "active"]
  <2>1. Updates(session[r], row) /\ session[r] \in Rows
    BY <1>3, RowUpdates DEF Updates
  <2>2. row.binding = agents[session[r]].binding
    BY <1>r, <2>1 DEF AgentRows
  <2> HIDE DEF row
  <2> QED BY <1>u, <2>1, <2>2
<1>4. ASSUME NEW r \in Runs, CreateAgent(r) PROVE Stay
  BY <1>4, RowAdded DEF Stay, IInv
<1>5. ASSUME NEW r \in Runs, RegisterFails(r) PROVE Stay
  BY <1>5, <1>s DEF RegisterFails
<1>6. ASSUME NEW r \in Runs, Exit(r) PROVE Stay
  BY <1>6, <1>s DEF Exit
<1>7. ASSUME NEW r \in Runs, NEW q \in Requests, Authenticate(r, q) PROVE Stay
  BY <1>7, <1>s DEF Authenticate
<1>8. ASSUME NEW q \in Requests, Touch(q) PROVE Stay
  BY <1>8, <1>s DEF Touch
<1>9. ASSUME NEW q \in Requests, SettleApproval(q) PROVE Stay
  BY <1>9, <1>s DEF SettleApproval
<1>10. ASSUME NEW q \in Requests, CloseElsewhere(q) PROVE Stay
  BY <1>10, <1>s DEF CloseElsewhere
<1>11. ASSUME NEW c \in Closers, Disconnect(c) PROVE Stay
  <2> DEFINE row == [agents[closer[c].agent] EXCEPT !.status = "ended"]
  <2>1. Updates(closer[c].agent, row) /\ closer[c].agent \in Rows
    BY <1>11, RowUpdates DEF Updates
  <2>2. row.binding = agents[closer[c].agent].binding
    BY <1>r, <2>1 DEF AgentRows
  <2> HIDE DEF row
  <2> QED BY <1>u, <2>1, <2>2
<1>12. ASSUME NEW c \in Closers, ListBound(c) PROVE Stay
  BY <1>12, <1>s DEF ListBound
<1>13. ASSUME NEW c \in Closers, RevokeBound(c) PROVE Stay
  BY <1>13, <1>s DEF RevokeBound
<1>14. ASSUME NEW c \in Closers, RevokeConflict(c) PROVE Stay
  BY <1>14, <1>s DEF RevokeConflict
<1>15. ASSUME NEW c \in Closers, CascadeEnds(c) PROVE Stay
  BY <1>15, <1>s DEF CascadeEnds
<1>16. ASSUME NEW c \in Closers, CloseFails(c) PROVE Stay
  BY <1>16, <1>s DEF CloseFails
<1>17. ASSUME NEW a \in AgentIds, ConfirmTrust(a) PROVE Stay
  <2> DEFINE row == [agents[a] EXCEPT !.trust = "known"]
  <2>1. Updates(a, row) /\ a \in Rows
    BY <1>17, RowUpdates DEF Updates
  <2>2. row.binding = agents[a].binding
    BY <1>r, <2>1 DEF AgentRows
  <2> HIDE DEF row
  <2> QED BY <1>u, <2>1, <2>2
<1>18. ASSUME NEW a \in AgentIds, Expire(a) PROVE Stay
  <2> DEFINE row == [agents[a] EXCEPT !.status = "ended"]
  <2>1. Updates(a, row) /\ a \in Rows
    BY <1>18, RowUpdates DEF Updates
  <2>2. row.binding = agents[a].binding
    BY <1>r, <2>1 DEF AgentRows
  <2> HIDE DEF row
  <2> QED BY <1>u, <2>1, <2>2
<1>19. ASSUME NEW a \in AgentIds, OwnerDisconnects(a) PROVE Stay
  BY <1>19, <1>s DEF OwnerDisconnects
<1>20. CASE UNCHANGED vars
  BY <1>20, <1>s DEF vars
<1> QED BY <1>1, <1>2, <1>3, <1>4, <1>5, <1>6, <1>7, <1>8, <1>9, <1>10, <1>11, <1>12, <1>13, <1>14, <1>15, <1>16, <1>17, <1>18, <1>19, <1>20
       DEF Next, RunStep, RequestStep, CloserStep

-----------------------------------------------------------------------------
(* Keys *)

\* A key that does not work is given to no row but by its own registration.
LEMMA DeadStays == IInv /\ [Next]_vars =>
    \A k \in Runs : pc[k] \notin {"rebind", "create"} /\ ~KeyWorks(k) => ~KeyWorks(k)'
<1> SUFFICES ASSUME IInv, [Next]_vars,
                    NEW k \in Runs, pc[k] \notin {"rebind", "create"}, ~KeyWorks(k)
             PROVE  ~KeyWorks(k)'
  OBVIOUS
<1>t. TypeOK /\ TypeOK'
  BY TypeStep DEF IInv
<1>r. /\ Rows = 1..Len(agents) /\ Len(agents) \in Nat /\ Rows \subseteq AgentIds
      /\ \A a \in Rows : agents[a] \in AgentRows /\ agents[a].key \in Runs
  BY <1>t, RowsAreIds DEF AgentRows
<1>w. \A a \in Rows : ~(agents[a].key = k /\ agents[a].status = "active")
  BY <1>r DEF KeyWorks, Authenticates
<1>n. (\A a \in Rows' : ~(agents'[a].key = k /\ agents'[a].status = "active")) => ~KeyWorks(k)'
  BY DEF KeyWorks, Authenticates
<1>s. agents' = agents => ~KeyWorks(k)'
  BY <1>w, <1>n DEF Rows
<1>u. ASSUME NEW a \in Rows, NEW row, Updates(a, row), ~(row.key = k /\ row.status = "active")
      PROVE  ~KeyWorks(k)'
  BY <1>u, <1>w, <1>n DEF Updates
<1>1. ASSUME NEW r \in Runs, OpenSession(r) PROVE ~KeyWorks(k)'
  BY <1>1, <1>s DEF OpenSession
<1>2. ASSUME NEW r \in Runs, AgentByBinding(r) PROVE ~KeyWorks(k)'
  BY <1>2, <1>s DEF AgentByBinding
<1>3. ASSUME NEW r \in Runs, RebindAgent(r) PROVE ~KeyWorks(k)'
  <2> DEFINE row == [agents[session[r]] EXCEPT !.key = r, !.status = "active"]
  <2>1. Updates(session[r], row) /\ session[r] \in Rows /\ k # r
    BY <1>3, RowUpdates DEF Updates, RebindAgent
  <2>2. row.key = r
    BY <1>r, <2>1 DEF AgentRows
  <2> QED BY <1>u, <2>1, <2>2
<1>4. ASSUME NEW r \in Runs, CreateAgent(r) PROVE ~KeyWorks(k)'
  <2>1. k # r
    BY <1>4 DEF CreateAgent
  <2> DEFINE x == Len(agents) + 1
             row == [binding |-> described[r], key |-> r, trust |-> "unverified",
                     status |-> "active"]
  <2>2. /\ Rows' = Rows \cup {x} /\ agents'[x] = row
        /\ \A b \in Rows : agents'[b] = agents[b]
    BY <1>4, RowAdded DEF IInv
  <2>3. row.key = r
    OBVIOUS
  <2> HIDE DEF row, x
  <2> QED BY <1>n, <1>w, <2>1, <2>2, <2>3
<1>5. ASSUME NEW r \in Runs, RegisterFails(r) PROVE ~KeyWorks(k)'
  BY <1>5, <1>s DEF RegisterFails
<1>6. ASSUME NEW r \in Runs, Exit(r) PROVE ~KeyWorks(k)'
  BY <1>6, <1>s DEF Exit
<1>7. ASSUME NEW r \in Runs, NEW q \in Requests, Authenticate(r, q) PROVE ~KeyWorks(k)'
  BY <1>7, <1>s DEF Authenticate
<1>8. ASSUME NEW q \in Requests, Touch(q) PROVE ~KeyWorks(k)'
  BY <1>8, <1>s DEF Touch
<1>9. ASSUME NEW q \in Requests, SettleApproval(q) PROVE ~KeyWorks(k)'
  BY <1>9, <1>s DEF SettleApproval
<1>10. ASSUME NEW q \in Requests, CloseElsewhere(q) PROVE ~KeyWorks(k)'
  BY <1>10, <1>s DEF CloseElsewhere
<1>11. ASSUME NEW c \in Closers, Disconnect(c) PROVE ~KeyWorks(k)'
  <2> DEFINE row == [agents[closer[c].agent] EXCEPT !.status = "ended"]
  <2>1. Updates(closer[c].agent, row) /\ closer[c].agent \in Rows
    BY <1>11, RowUpdates DEF Updates
  <2>2. row.status = "ended"
    BY <1>r, <2>1 DEF AgentRows
  <2> QED BY <1>u, <2>1, <2>2
<1>12. ASSUME NEW c \in Closers, ListBound(c) PROVE ~KeyWorks(k)'
  BY <1>12, <1>s DEF ListBound
<1>13. ASSUME NEW c \in Closers, RevokeBound(c) PROVE ~KeyWorks(k)'
  BY <1>13, <1>s DEF RevokeBound
<1>14. ASSUME NEW c \in Closers, RevokeConflict(c) PROVE ~KeyWorks(k)'
  BY <1>14, <1>s DEF RevokeConflict
<1>15. ASSUME NEW c \in Closers, CascadeEnds(c) PROVE ~KeyWorks(k)'
  BY <1>15, <1>s DEF CascadeEnds
<1>16. ASSUME NEW c \in Closers, CloseFails(c) PROVE ~KeyWorks(k)'
  BY <1>16, <1>s DEF CloseFails
<1>17. ASSUME NEW a \in AgentIds, ConfirmTrust(a) PROVE ~KeyWorks(k)'
  <2> DEFINE row == [agents[a] EXCEPT !.trust = "known"]
  <2>1. Updates(a, row) /\ a \in Rows
    BY <1>17, RowUpdates DEF Updates
  <2>2. row.key = agents[a].key /\ row.status = agents[a].status
    BY <1>r, <2>1 DEF AgentRows
  <2> QED BY <1>u, <1>w, <2>1, <2>2
<1>18. ASSUME NEW a \in AgentIds, Expire(a) PROVE ~KeyWorks(k)'
  <2> DEFINE row == [agents[a] EXCEPT !.status = "ended"]
  <2>1. Updates(a, row) /\ a \in Rows
    BY <1>18, RowUpdates DEF Updates
  <2>2. row.status = "ended"
    BY <1>r, <2>1 DEF AgentRows
  <2> QED BY <1>u, <2>1, <2>2
<1>19. ASSUME NEW a \in AgentIds, OwnerDisconnects(a) PROVE ~KeyWorks(k)'
  BY <1>19, <1>s DEF OwnerDisconnects
<1>20. CASE UNCHANGED vars
  BY <1>20, <1>s DEF vars
<1> QED BY <1>1, <1>2, <1>3, <1>4, <1>5, <1>6, <1>7, <1>8, <1>9, <1>10, <1>11, <1>12, <1>13, <1>14, <1>15, <1>16, <1>17, <1>18, <1>19, <1>20
       DEF Next, RunStep, RequestStep, CloserStep

\* Keys stay with the session and the binding of their run.
LEMMA KeysStep == IInv /\ [Next]_vars => KeysOK'
<1> SUFFICES ASSUME IInv, [Next]_vars PROVE KeysOK'
  OBVIOUS
<1>t. TypeOK /\ TypeOK'
  BY TypeStep DEF IInv
<1>r. /\ Rows = 1..Len(agents) /\ Len(agents) \in Nat /\ Rows \subseteq AgentIds
      /\ \A a \in Rows : agents[a] \in AgentRows /\ agents[a].key \in Runs
  BY <1>t, RowsAreIds DEF AgentRows
<1>k. \A a \in Rows :
        /\ pc[agents[a].key] \in {"running", "closing", "closed", "failed"}
        /\ session[agents[a].key] = a
        /\ agents[a].binding = described[agents[a].key]
        /\ agents[a].trust = "known" => agents[a].binding \in confirmed
  BY DEF IInv, KeysOK
<1> DEFINE Live == {"running", "closing", "closed", "failed"}
           Fine(a) == /\ pc'[agents'[a].key] \in Live
                      /\ session'[agents'[a].key] = a
                      /\ agents'[a].binding = described'[agents'[a].key]
                      /\ agents'[a].trust = "known" => agents'[a].binding \in confirmed'
<1>g. (\A a \in Rows' : Fine(a)) => KeysOK'
  BY DEF KeysOK
<1>s. ASSUME agents' = agents, confirmed' = confirmed, 
             \A r \in Runs : pc[r] \in Live =>
                pc'[r] \in Live /\ session'[r] = session[r] /\ described'[r] = described[r]
      PROVE  KeysOK'
  <2>1. \A a \in Rows : Fine(a)
    BY <1>s, <1>k, <1>r
  <2> QED BY <1>s, <2>1, <1>g DEF Rows
<1>u. ASSUME NEW x \in Rows, NEW row, Updates(x, row), Fine(x),
             confirmed \subseteq confirmed', described' = described, session' = session,
             \A r \in Runs : pc[r] \in Live => pc'[r] \in Live
      PROVE  KeysOK'
  <2>1. ASSUME NEW a \in Rows, a # x PROVE Fine(a)
    <3>1. agents'[a] = agents[a]
      BY <1>u, <2>1 DEF Updates
    <3> QED BY <1>u, <1>k, <1>r, <3>1
  <2> QED BY <1>g, <1>u, <2>1 DEF Updates
<1> HIDE DEF Fine
<1>1. ASSUME NEW r \in Runs, OpenSession(r) PROVE KeysOK'
  <2>1. \A k \in Runs : pc[k] \in Live =>
           pc'[k] \in Live /\ session'[k] = session[k] /\ described'[k] = described[k]
    BY <1>1, <1>t DEF OpenSession, Goto, TypeOK
  <2> QED BY <1>1, <1>s, <2>1 DEF OpenSession
<1>2. ASSUME NEW r \in Runs, AgentByBinding(r) PROVE KeysOK'
  <2>1. \A k \in Runs : pc[k] \in Live =>
           pc'[k] \in Live /\ session'[k] = session[k] /\ described'[k] = described[k]
    BY <1>2, <1>t DEF AgentByBinding, Goto, TypeOK, registry
  <2> QED BY <1>2, <1>s, <2>1 DEF AgentByBinding
<1>3. ASSUME NEW r \in Runs, RebindAgent(r) PROVE KeysOK'
  <2> DEFINE x == session[r]
             row == [agents[x] EXCEPT !.key = r, !.status = "active"]
  <2>1. Updates(x, row) /\ x \in Rows /\ agents[x].binding = described[r]
    BY <1>3, RowUpdates DEF Updates, RebindAgent, IInv, RunsOK
  <2>2. row.key = r /\ row.binding = agents[x].binding /\ row.trust = agents[x].trust
    BY <1>r, <2>1 DEF AgentRows
  <2>3. /\ \A k \in Runs : pc[k] \in Live => pc'[k] \in Live
        /\ pc'[r] \in Live
        /\ described' = described /\ session' = session /\ confirmed' = confirmed
    BY <1>3, <1>t DEF RebindAgent, Goto, TypeOK, registry
  <2> HIDE DEF row
  <2>4. Fine(x)
    BY <1>k, <2>1, <2>2, <2>3 DEF Fine, Updates, x
  <2> QED BY <1>u, <2>1, <2>3, <2>4
<1>4. ASSUME NEW r \in Runs, CreateAgent(r) PROVE KeysOK'
  <2> DEFINE x == Len(agents) + 1
  <2>1. /\ Rows' = Rows \cup {x} /\ x \notin Rows
        /\ agents'[x] = [binding |-> described[r], key |-> r, trust |-> "unverified",
                         status |-> "active"]
        /\ \A b \in Rows : agents'[b] = agents[b]
    BY <1>4, RowAdded DEF IInv
  <2>2. /\ session' = [session EXCEPT ![r] = x] /\ pc' = [pc EXCEPT ![r] = "running"]
        /\ described' = described /\ confirmed' = confirmed /\ pc[r] = "create"
    BY <1>4 DEF CreateAgent, Goto, registry
  <2> HIDE DEF x
  <2>3. Fine(x)
    BY <1>t, <2>1, <2>2 DEF Fine, TypeOK
  <2>4. ASSUME NEW b \in Rows PROVE Fine(b)
    <3>1. agents'[b] = agents[b] /\ agents[b].key # r
      BY <1>k, <2>1, <2>2
    <3>2. pc'[agents[b].key] = pc[agents[b].key] /\ session'[agents[b].key] = session[agents[b].key]
      BY <1>r, <1>t, <2>2, <3>1 DEF TypeOK
    <3> QED BY <1>k, <2>2, <3>1, <3>2 DEF Fine
  <2> QED BY <1>g, <2>1, <2>3, <2>4
<1>5. ASSUME NEW r \in Runs, RegisterFails(r) PROVE KeysOK'
  BY <1>5, <1>s, <1>t DEF RegisterFails, Goto, TypeOK, registry
<1>6. ASSUME NEW r \in Runs, Exit(r) PROVE KeysOK'
  BY <1>6, <1>s, <1>t DEF Exit, Goto, TypeOK, registry
<1>7. ASSUME NEW r \in Runs, NEW q \in Requests, Authenticate(r, q) PROVE KeysOK'
  BY <1>7, <1>s DEF Authenticate, registry
<1>8. ASSUME NEW q \in Requests, Touch(q) PROVE KeysOK'
  BY <1>8, <1>s DEF Touch, registry
<1>9. ASSUME NEW q \in Requests, SettleApproval(q) PROVE KeysOK'
  BY <1>9, <1>s DEF SettleApproval, registry
<1>10. ASSUME NEW q \in Requests, CloseElsewhere(q) PROVE KeysOK'
  BY <1>10, <1>s DEF CloseElsewhere, registry
<1>11. ASSUME NEW c \in Closers, Disconnect(c) PROVE KeysOK'
  <2> DEFINE x == closer[c].agent
             row == [agents[x] EXCEPT !.status = "ended"]
  <2>1. Updates(x, row) /\ x \in Rows
    BY <1>11, RowUpdates DEF Updates
  <2>2. row.key = agents[x].key /\ row.binding = agents[x].binding
    BY <1>r, <2>1 DEF AgentRows
  <2>3. row.trust = agents[x].trust
    BY <1>r, <2>1 DEF AgentRows
  <2>4. described' = described /\ session' = session /\ confirmed' = confirmed /\ pc' = pc
    BY <1>11 DEF Disconnect, registry
  <2> HIDE DEF row, x
  <2>5. Fine(x)
    BY <1>k, <2>1, <2>2, <2>3, <2>4 DEF Fine, Updates
  <2> QED BY <1>u, <2>1, <2>4, <2>5
<1>12. ASSUME NEW c \in Closers, ListBound(c) PROVE KeysOK'
  BY <1>12, <1>s DEF ListBound, registry
<1>13. ASSUME NEW c \in Closers, RevokeBound(c) PROVE KeysOK'
  BY <1>13, <1>s DEF RevokeBound, registry
<1>14. ASSUME NEW c \in Closers, RevokeConflict(c) PROVE KeysOK'
  <2>1. \A r \in Runs : pc[r] \in Live => pc'[r] \in Live
    BY <1>14, <1>t DEF RevokeConflict, Settled, Goto, TypeOK
  <2> QED BY <1>14, <1>s, <2>1 DEF RevokeConflict, registry
<1>15. ASSUME NEW c \in Closers, CascadeEnds(c) PROVE KeysOK'
  <2>1. \A r \in Runs : pc[r] \in Live => pc'[r] \in Live
    BY <1>15, <1>t DEF CascadeEnds, Settled, Goto, TypeOK
  <2> QED BY <1>15, <1>s, <2>1 DEF CascadeEnds, registry
<1>16. ASSUME NEW c \in Closers, CloseFails(c) PROVE KeysOK'
  <2>1. \A r \in Runs : pc[r] \in Live => pc'[r] \in Live
    BY <1>16, <1>t DEF CloseFails, Settled, Goto, TypeOK
  <2> QED BY <1>16, <1>s, <2>1 DEF CloseFails, registry
<1>17. ASSUME NEW a \in AgentIds, ConfirmTrust(a) PROVE KeysOK'
  <2> DEFINE x == a
             row == [agents[x] EXCEPT !.trust = "known"]
  <2>1. Updates(x, row) /\ x \in Rows
    BY <1>17, RowUpdates DEF Updates
  <2>2. row.key = agents[x].key /\ row.binding = agents[x].binding
    BY <1>r, <2>1 DEF AgentRows
  <2>4. /\ described' = described /\ session' = session /\ pc' = pc
        /\ confirmed' = confirmed \cup {agents[x].binding}
    BY <1>17 DEF ConfirmTrust, registry
  <2> HIDE DEF row, x
  <2>5. Fine(x)
    BY <1>k, <2>1, <2>2, <2>4 DEF Fine, Updates
  <2> QED BY <1>u, <2>1, <2>4, <2>5
<1>18. ASSUME NEW a \in AgentIds, Expire(a) PROVE KeysOK'
  <2> DEFINE x == a
             row == [agents[x] EXCEPT !.status = "ended"]
  <2>1. Updates(x, row) /\ x \in Rows
    BY <1>18, RowUpdates DEF Updates
  <2>2. row.key = agents[x].key /\ row.binding = agents[x].binding
    BY <1>r, <2>1 DEF AgentRows
  <2>3. row.trust = agents[x].trust
    BY <1>r, <2>1 DEF AgentRows
  <2>4. described' = described /\ session' = session /\ confirmed' = confirmed /\ pc' = pc
    BY <1>18 DEF Expire, registry
  <2> HIDE DEF row, x
  <2>5. Fine(x)
    BY <1>k, <2>1, <2>2, <2>3, <2>4 DEF Fine, Updates
  <2> QED BY <1>u, <2>1, <2>4, <2>5
<1>19. ASSUME NEW a \in AgentIds, OwnerDisconnects(a) PROVE KeysOK'
  BY <1>19, <1>s DEF OwnerDisconnects, registry
<1>20. CASE UNCHANGED vars
  BY <1>20, <1>s DEF vars
<1> QED BY <1>1, <1>2, <1>3, <1>4, <1>5, <1>6, <1>7, <1>8, <1>9, <1>10, <1>11, <1>12, <1>13, <1>14, <1>15, <1>16, <1>17, <1>18, <1>19, <1>20
       DEF Next, RunStep, RequestStep, CloserStep

\* A run that registers or is connected has what it needs.
LEMMA RunsStep == IInv /\ [Next]_vars => RunsOK'
<1> SUFFICES ASSUME IInv, [Next]_vars PROVE RunsOK'
  OBVIOUS
<1>t. TypeOK /\ TypeOK'
  BY TypeStep DEF IInv
<1>r. /\ Rows = 1..Len(agents) /\ Len(agents) \in Nat /\ Rows \subseteq AgentIds
      /\ \A a \in Rows : agents[a] \in AgentRows /\ agents[a].key \in Runs
  BY <1>t, RowsAreIds DEF AgentRows
<1>w. \A a \in Rows : a \in Rows' /\ agents'[a].binding = agents[a].binding
  BY RowsStay
<1> DEFINE Fine(k) ==
      /\ pc[k] # "idle" => described[k] \in Bindings
      /\ pc[k] = "rebind" => session[k] \in Rows /\ agents[session[k]].binding = described[k]
      /\ pc[k] \in {"running", "closing"} => session[k] \in Rows
<1>f. \A k \in Runs : Fine(k)
  BY DEF IInv, RunsOK
<1>g. (\A k \in Runs : Fine(k)') => RunsOK'
  BY DEF RunsOK
<1>s. ASSUME NEW k \in Runs, pc'[k] = pc[k], described'[k] = described[k], session'[k] = session[k]
      PROVE  Fine(k)'
  BY <1>s, <1>f, <1>w
<1>p. ASSUME pc' = pc, described' = described, session' = session PROVE RunsOK'
  BY <1>p, <1>s, <1>g
<1>o. ASSUME NEW r \in Runs, Fine(r)',
             \A k \in Runs : k # r =>
                pc'[k] = pc[k] /\ described'[k] = described[k] /\ session'[k] = session[k]
      PROVE  RunsOK'
  BY <1>o, <1>s, <1>g
<1> HIDE DEF Fine
<1>1. ASSUME NEW r \in Runs, OpenSession(r) PROVE RunsOK'
  <2>1. \A k \in Runs : k # r =>
           pc'[k] = pc[k] /\ described'[k] = described[k] /\ session'[k] = session[k]
    BY <1>1, <1>t DEF OpenSession, Goto, TypeOK, registry
  <2>2. Fine(r)'
    BY <1>1, <1>t DEF Fine, OpenSession, Goto, TypeOK
  <2> QED BY <1>o, <2>1, <2>2
<1>2. ASSUME NEW r \in Runs, AgentByBinding(r) PROVE RunsOK'
  <2>1. \A k \in Runs : k # r =>
           pc'[k] = pc[k] /\ described'[k] = described[k] /\ session'[k] = session[k]
    BY <1>2, <1>t DEF AgentByBinding, Goto, TypeOK, registry
  <2>2. Fine(r)'
    <3> DEFINE bound == {a \in Rows : Bound(a, r)}
    <3>0. /\ pc[r] = "bind" /\ agents' = agents /\ described' = described /\ Rows' = Rows
      BY <1>2 DEF AgentByBinding, registry, Rows
    <3>1. CASE bound = {}
      BY <1>2, <1>f, <1>t, <3>0, <3>1 DEF Fine, AgentByBinding, Goto, TypeOK
    <3>2. CASE bound # {}
      <4>1. Max(bound) \in bound
        BY <1>r, <3>2, NewestIsOne
      <4>2. pc' = [pc EXCEPT ![r] = "rebind"] /\ session' = [session EXCEPT ![r] = Max(bound)]
        BY <1>2, <3>2 DEF AgentByBinding, Goto
      <4>3. Max(bound) \in Rows /\ agents[Max(bound)].binding = described[r]
        BY <4>1 DEF Bound, BindingOf
      <4> HIDE DEF bound
      <4> QED BY <1>f, <1>t, <3>0, <4>2, <4>3 DEF Fine, TypeOK
    <3> QED BY <3>1, <3>2
  <2> QED BY <1>o, <2>1, <2>2
<1>3. ASSUME NEW r \in Runs, RebindAgent(r) PROVE RunsOK'
  <2>1. \A k \in Runs : k # r =>
           pc'[k] = pc[k] /\ described'[k] = described[k] /\ session'[k] = session[k]
    BY <1>3, <1>t DEF RebindAgent, Goto, TypeOK, registry
  <2>2. Fine(r)'
    BY <1>3, <1>f, <1>t, <1>w DEF Fine, RebindAgent, Goto, TypeOK, registry
  <2> QED BY <1>o, <2>1, <2>2
<1>4. ASSUME NEW r \in Runs, CreateAgent(r) PROVE RunsOK'
  <2>1. \A k \in Runs : k # r =>
           pc'[k] = pc[k] /\ described'[k] = described[k] /\ session'[k] = session[k]
    BY <1>4, <1>t DEF CreateAgent, Goto, TypeOK, registry
  <2>2. Fine(r)'
    <3>1. Len(agents) + 1 \in Rows'
      BY <1>4, RowAdded DEF IInv
    <3> QED BY <1>4, <1>f, <1>t, <3>1 DEF Fine, CreateAgent, Goto, TypeOK, registry
  <2> QED BY <1>o, <2>1, <2>2
<1>5. ASSUME NEW r \in Runs, RegisterFails(r) PROVE RunsOK'
  <2>1. \A k \in Runs : k # r =>
           pc'[k] = pc[k] /\ described'[k] = described[k] /\ session'[k] = session[k]
    BY <1>5, <1>t DEF RegisterFails, Goto, TypeOK, registry
  <2>2. Fine(r)'
    BY <1>5, <1>f, <1>t DEF Fine, RegisterFails, Goto, TypeOK, registry
  <2> QED BY <1>o, <2>1, <2>2
<1>6. ASSUME NEW r \in Runs, Exit(r) PROVE RunsOK'
  <2>1. \A k \in Runs : k # r =>
           pc'[k] = pc[k] /\ described'[k] = described[k] /\ session'[k] = session[k]
    BY <1>6, <1>t DEF Exit, Goto, TypeOK, registry
  <2>2. Fine(r)'
    BY <1>6, <1>f, <1>t, <1>w DEF Fine, Exit, Goto, TypeOK, registry
  <2> QED BY <1>o, <2>1, <2>2
<1>7. ASSUME NEW r \in Runs, NEW q \in Requests, Authenticate(r, q) PROVE RunsOK'
  BY <1>7, <1>p DEF Authenticate, registry
<1>8. ASSUME NEW q \in Requests, Touch(q) PROVE RunsOK'
  BY <1>8, <1>p DEF Touch, registry
<1>9. ASSUME NEW q \in Requests, SettleApproval(q) PROVE RunsOK'
  BY <1>9, <1>p DEF SettleApproval, registry
<1>10. ASSUME NEW q \in Requests, CloseElsewhere(q) PROVE RunsOK'
  BY <1>10, <1>p DEF CloseElsewhere, registry
<1>11. ASSUME NEW c \in Closers, Disconnect(c) PROVE RunsOK'
  BY <1>11, <1>p DEF Disconnect, registry
<1>12. ASSUME NEW c \in Closers, ListBound(c) PROVE RunsOK'
  BY <1>12, <1>p DEF ListBound, registry
<1>13. ASSUME NEW c \in Closers, RevokeBound(c) PROVE RunsOK'
  BY <1>13, <1>p DEF RevokeBound, registry
<1>14. ASSUME NEW c \in Closers, RevokeConflict(c) PROVE RunsOK'
  <2>1. /\ described' = described /\ session' = session
        /\ \A k \in Runs : pc'[k] = pc[k] \/ pc'[k] \in {"closed", "failed"}
    BY <1>14, <1>t DEF RevokeConflict, Settled, Goto, TypeOK, registry
  <2>2. c = Owner => pc' = pc
    BY <1>14 DEF RevokeConflict, Settled
  <2>3. c # Owner => c \in Runs /\ pc[c] = "closing" /\ \A k \in Runs : k # c => pc'[k] = pc[k]
    BY <1>14, <1>t DEF RevokeConflict, Closers, Settled, Goto, TypeOK, IInv, CallsOK
  <2>4. c # Owner => Fine(c)'
    BY <1>f, <1>s, <2>1, <2>3 DEF Fine
  <2>5. c # Owner => RunsOK'
    BY <1>o, <2>1, <2>3, <2>4
  <2> QED BY <1>p, <2>1, <2>2, <2>5
<1>15. ASSUME NEW c \in Closers, CascadeEnds(c) PROVE RunsOK'
  <2>1. /\ described' = described /\ session' = session
        /\ \A k \in Runs : pc'[k] = pc[k] \/ pc'[k] \in {"closed", "failed"}
    BY <1>15, <1>t DEF CascadeEnds, Settled, Goto, TypeOK, registry
  <2>2. c = Owner => pc' = pc
    BY <1>15 DEF CascadeEnds, Settled
  <2>3. c # Owner => c \in Runs /\ pc[c] = "closing" /\ \A k \in Runs : k # c => pc'[k] = pc[k]
    BY <1>15, <1>t DEF CascadeEnds, Closers, Settled, Goto, TypeOK, IInv, CallsOK
  <2>4. c # Owner => Fine(c)'
    BY <1>f, <1>s, <2>1, <2>3 DEF Fine
  <2>5. c # Owner => RunsOK'
    BY <1>o, <2>1, <2>3, <2>4
  <2> QED BY <1>p, <2>1, <2>2, <2>5
<1>16. ASSUME NEW c \in Closers, CloseFails(c) PROVE RunsOK'
  <2>1. /\ described' = described /\ session' = session
        /\ \A k \in Runs : pc'[k] = pc[k] \/ pc'[k] \in {"closed", "failed"}
    BY <1>16, <1>t DEF CloseFails, Settled, Goto, TypeOK, registry
  <2>2. c = Owner => pc' = pc
    BY <1>16 DEF CloseFails, Settled
  <2>3. c # Owner => c \in Runs /\ pc[c] = "closing" /\ \A k \in Runs : k # c => pc'[k] = pc[k]
    BY <1>16, <1>t DEF CloseFails, Closers, Settled, Goto, TypeOK, IInv, CallsOK
  <2>4. c # Owner => Fine(c)'
    BY <1>f, <1>s, <2>1, <2>3 DEF Fine
  <2>5. c # Owner => RunsOK'
    BY <1>o, <2>1, <2>3, <2>4
  <2> QED BY <1>p, <2>1, <2>2, <2>5
<1>17. ASSUME NEW a \in AgentIds, ConfirmTrust(a) PROVE RunsOK'
  BY <1>17, <1>p DEF ConfirmTrust, registry
<1>18. ASSUME NEW a \in AgentIds, Expire(a) PROVE RunsOK'
  BY <1>18, <1>p DEF Expire, registry
<1>19. ASSUME NEW a \in AgentIds, OwnerDisconnects(a) PROVE RunsOK'
  BY <1>19, <1>p DEF OwnerDisconnects, registry
<1>20. CASE UNCHANGED vars
  BY <1>20, <1>p DEF vars
<1> QED BY <1>1, <1>2, <1>3, <1>4, <1>5, <1>6, <1>7, <1>8, <1>9, <1>10, <1>11, <1>12, <1>13, <1>14, <1>15, <1>16, <1>17, <1>18, <1>19, <1>20
       DEF Next, RunStep, RequestStep, CloserStep

-----------------------------------------------------------------------------
(* Disconnections *)

\* A disconnection stays about its session, and no key works behind it.
LEMMA CallsStep == IInv /\ [Next]_vars => CallsOK' /\ NoOrphanSession'
<1> SUFFICES ASSUME IInv, [Next]_vars PROVE CallsOK' /\ NoOrphanSession'
  OBVIOUS
<1>t. TypeOK /\ TypeOK'
  BY TypeStep DEF IInv
<1>r. /\ Rows = 1..Len(agents) /\ Len(agents) \in Nat /\ Rows \subseteq AgentIds
      /\ \A a \in Rows : agents[a] \in AgentRows /\ agents[a].key \in Runs
  BY <1>t, RowsAreIds DEF AgentRows
<1>w. \A a \in Rows : a \in Rows'
  BY RowsStay
<1>d. \A k \in Runs : pc[k] \notin {"rebind", "create"} /\ ~KeyWorks(k) => ~KeyWorks(k)'
  BY DeadStays
<1> DEFINE Under == {"status", "list", "cascade"}
           Fine(x) == closer[x].at \in Under =>
              /\ closer[x].agent \in Rows
              /\ x \in Runs => /\ pc[x] = "closing" /\ closer[x].agent = session[x]
                               /\ closer[x].at # "status" => ~KeyWorks(x)
           Shut(k) == pc[k] = "closed" => ~KeyWorks(k)
<1>f. (\A x \in Closers : Fine(x)) /\ (\A k \in Runs : Shut(k))
  BY DEF IInv, CallsOK, NoOrphanSession, KeyWorks
<1>g. (\A x \in Closers : Fine(x)') /\ (\A k \in Runs : Shut(k)') => CallsOK' /\ NoOrphanSession'
  BY DEF CallsOK, NoOrphanSession, KeyWorks
<1>s. ASSUME NEW x \in Closers, closer'[x] = closer[x],
             x \in Runs /\ pc[x] = "closing" => pc'[x] = pc[x] /\ session'[x] = session[x]
      PROVE  Fine(x)'
  BY <1>s, <1>f, <1>d, <1>w
<1>c. ASSUME NEW k \in Runs, pc'[k] = "closed" => pc[k] = "closed"
      PROVE  Shut(k)'
  BY <1>c, <1>f, <1>d
<1>p. ASSUME closer' = closer,
             \A k \in Runs : /\ pc'[k] = "closed" => pc[k] = "closed"
                             /\ pc[k] = "closing" => pc'[k] = pc[k] /\ session'[k] = session[k]
      PROVE  CallsOK' /\ NoOrphanSession'
  <2>1. \A x \in Closers : Fine(x)'
    BY <1>p, <1>s
  <2>2. \A k \in Runs : Shut(k)'
    BY <1>p, <1>c
  <2> QED BY <2>1, <2>2, <1>g
<1>o. ASSUME NEW x \in Closers, Fine(x)', x \in Runs => Shut(x)',
             \A y \in Closers : y # x => closer'[y] = closer[y] /\ (y \in Runs => pc'[y] = pc[y]),
             session' = session
      PROVE  CallsOK' /\ NoOrphanSession'
  <2>1. \A y \in Closers : Fine(y)'
    BY <1>o, <1>s
  <2>2. \A k \in Runs : Shut(k)'
    BY <1>o, <1>c DEF Closers
  <2> QED BY <2>1, <2>2, <1>g
<1> HIDE DEF Fine, Shut
<1>1. ASSUME NEW r \in Runs, OpenSession(r) PROVE CallsOK' /\ NoOrphanSession'
  BY <1>1, <1>p, <1>t DEF OpenSession, Goto, TypeOK, registry
<1>2. ASSUME NEW r \in Runs, AgentByBinding(r) PROVE CallsOK' /\ NoOrphanSession'
  BY <1>2, <1>p, <1>t DEF AgentByBinding, Goto, TypeOK, registry
<1>3. ASSUME NEW r \in Runs, RebindAgent(r) PROVE CallsOK' /\ NoOrphanSession'
  BY <1>3, <1>p, <1>t DEF RebindAgent, Goto, TypeOK, registry
<1>4. ASSUME NEW r \in Runs, CreateAgent(r) PROVE CallsOK' /\ NoOrphanSession'
  BY <1>4, <1>p, <1>t DEF CreateAgent, Goto, TypeOK, registry
<1>5. ASSUME NEW r \in Runs, RegisterFails(r) PROVE CallsOK' /\ NoOrphanSession'
  BY <1>5, <1>p, <1>t DEF RegisterFails, Goto, TypeOK, registry
<1>6. ASSUME NEW r \in Runs, Exit(r) PROVE CallsOK' /\ NoOrphanSession'
  <2>1. /\ session' = session
        /\ \A y \in Closers : y # r => closer'[y] = closer[y] /\ (y \in Runs => pc'[y] = pc[y])
    BY <1>6, <1>t DEF Exit, TypeOK, registry, Goto
  <2>2. closer'[r].at = "status" /\ closer'[r].agent = session[r] /\ pc'[r] = "closing"
    BY <1>6, <1>t DEF Exit, Goto, TypeOK, Idle, Closers
  <2>3. session[r] \in Rows
    BY <1>6 DEF Exit, IInv, RunsOK
  <2>4. Fine(r)' /\ Shut(r)'
    BY <1>w, <2>1, <2>2, <2>3 DEF Fine, Shut
  <2> QED BY <1>o, <2>1, <2>4 DEF Closers
<1>7. ASSUME NEW r \in Runs, NEW q \in Requests, Authenticate(r, q) PROVE CallsOK' /\ NoOrphanSession'
  BY <1>7, <1>p DEF Authenticate, registry
<1>8. ASSUME NEW q \in Requests, Touch(q) PROVE CallsOK' /\ NoOrphanSession'
  BY <1>8, <1>p DEF Touch, registry
<1>9. ASSUME NEW q \in Requests, SettleApproval(q) PROVE CallsOK' /\ NoOrphanSession'
  BY <1>9, <1>p DEF SettleApproval, registry
<1>10. ASSUME NEW q \in Requests, CloseElsewhere(q) PROVE CallsOK' /\ NoOrphanSession'
  BY <1>10, <1>p DEF CloseElsewhere, registry
<1>11. ASSUME NEW c \in Closers, Disconnect(c) PROVE CallsOK' /\ NoOrphanSession'
  <2>1. /\ session' = session
        /\ \A y \in Closers : y # c => closer'[y] = closer[y] /\ (y \in Runs => pc'[y] = pc[y])
    BY <1>11, <1>t DEF Disconnect, TypeOK, registry
  <2>2. /\ closer'[c].at = "list" /\ closer'[c].agent = closer[c].agent
        /\ closer[c].at = "status" /\ pc' = pc
    BY <1>11, <1>t DEF Disconnect, TypeOK
  <2>3. ASSUME c \in Runs PROVE ~KeyWorks(c)'
    <3> DEFINE x == closer[c].agent
               row == [agents[x] EXCEPT !.status = "ended"]
    <3>1. Updates(x, row) /\ x \in Rows
      BY <1>11, RowUpdates DEF Updates
    <3>2. row.status = "ended"
      BY <1>r, <3>1 DEF AgentRows
    <3>3. x = session[c]
      BY <1>f, <2>2, <2>3 DEF Fine
    <3>4. \A b \in Rows : agents[b].key = c => b = x
      BY <3>3 DEF IInv, KeysOK
    <3> HIDE DEF row, x
    <3>5. \A b \in Rows' : ~(agents'[b].key = c /\ agents'[b].status = "active")
      BY <3>1, <3>2, <3>4 DEF Updates
    <3> QED BY <3>5 DEF KeyWorks, Authenticates
  <2>4. Fine(c)' /\ (c \in Runs => Shut(c)')
    BY <1>f, <1>w, <2>1, <2>2, <2>3 DEF Fine, Shut
  <2> QED BY <1>o, <2>1, <2>4
<1>12. ASSUME NEW c \in Closers, ListBound(c) PROVE CallsOK' /\ NoOrphanSession'
  <2>1. /\ session' = session
        /\ \A y \in Closers : y # c => closer'[y] = closer[y] /\ (y \in Runs => pc'[y] = pc[y])
    BY <1>12, <1>t DEF ListBound, TypeOK, registry
  <2>2. /\ closer'[c].at = "cascade" /\ closer'[c].agent = closer[c].agent
        /\ closer[c].at = "list" /\ pc' = pc /\ agents' = agents
    BY <1>12, <1>t DEF ListBound, TypeOK
  <2>3. c \in Runs => pc[c] = "closing" /\ ~KeyWorks(c)
    BY <1>f, <2>2 DEF Fine
  <2>4. c \in Runs => ~KeyWorks(c)'
    BY <1>d, <2>3
  <2>5. Fine(c)' /\ (c \in Runs => Shut(c)')
    BY <1>f, <1>w, <2>1, <2>2, <2>3, <2>4 DEF Fine, Shut
  <2> QED BY <1>o, <2>1, <2>5
<1>13. ASSUME NEW c \in Closers, RevokeBound(c) PROVE CallsOK' /\ NoOrphanSession'
  <2>1. /\ session' = session
        /\ \A y \in Closers : y # c => closer'[y] = closer[y] /\ (y \in Runs => pc'[y] = pc[y])
    BY <1>13, <1>t DEF RevokeBound, TypeOK, registry
  <2>2. /\ closer'[c].at = "cascade" /\ closer'[c].agent = closer[c].agent
        /\ closer[c].at = "cascade" /\ pc' = pc /\ agents' = agents
    BY <1>13, <1>t DEF RevokeBound, TypeOK
  <2>3. c \in Runs => pc[c] = "closing" /\ ~KeyWorks(c)
    BY <1>f, <2>2 DEF Fine
  <2>4. c \in Runs => ~KeyWorks(c)'
    BY <1>d, <2>3
  <2>5. Fine(c)' /\ (c \in Runs => Shut(c)')
    BY <1>f, <1>w, <2>1, <2>2, <2>3, <2>4 DEF Fine, Shut
  <2> QED BY <1>o, <2>1, <2>5
<1>14. ASSUME NEW c \in Closers, RevokeConflict(c) PROVE CallsOK' /\ NoOrphanSession'
  <2>1. /\ session' = session
        /\ \A y \in Closers : y # c => closer'[y] = closer[y] /\ (y \in Runs => pc'[y] = pc[y])
    BY <1>14, <1>t DEF RevokeConflict, TypeOK, registry, Settled, Goto
  <2>2. closer'[c].at = "failed" /\ (c \in Runs => pc'[c] = "failed")
    BY <1>14, <1>t, BoundsAssumption DEF RevokeConflict, Settled, Goto, TypeOK, Idle
  <2>3. Fine(c)' /\ (c \in Runs => Shut(c)')
    BY <2>2 DEF Fine, Shut
  <2> QED BY <1>o, <2>1, <2>3
<1>15. ASSUME NEW c \in Closers, CascadeEnds(c) PROVE CallsOK' /\ NoOrphanSession'
  <2>1. /\ session' = session
        /\ \A y \in Closers : y # c => closer'[y] = closer[y] /\ (y \in Runs => pc'[y] = pc[y])
    BY <1>15, <1>t DEF CascadeEnds, TypeOK, registry, Settled, Goto
  <2>2. closer'[c].at = "done" /\ closer[c].at = "cascade"
    BY <1>15, <1>t DEF CascadeEnds, Settled, TypeOK, Idle
  <2>3. c \in Runs => pc[c] = "closing" /\ ~KeyWorks(c)
    BY <1>f, <2>2 DEF Fine
  <2>4. c \in Runs => ~KeyWorks(c)'
    BY <1>d, <2>3
  <2>5. Fine(c)' /\ (c \in Runs => Shut(c)')
    BY <2>2, <2>4 DEF Fine, Shut
  <2> QED BY <1>o, <2>1, <2>5
<1>16. ASSUME NEW c \in Closers, CloseFails(c) PROVE CallsOK' /\ NoOrphanSession'
  <2>1. /\ session' = session
        /\ \A y \in Closers : y # c => closer'[y] = closer[y] /\ (y \in Runs => pc'[y] = pc[y])
    BY <1>16, <1>t DEF CloseFails, TypeOK, registry, Settled, Goto
  <2>2. closer'[c].at = "failed" /\ (c \in Runs => pc'[c] = "failed")
    BY <1>16, <1>t, BoundsAssumption DEF CloseFails, Settled, Goto, TypeOK, Idle
  <2>3. Fine(c)' /\ (c \in Runs => Shut(c)')
    BY <2>2 DEF Fine, Shut
  <2> QED BY <1>o, <2>1, <2>3
<1>17. ASSUME NEW a \in AgentIds, ConfirmTrust(a) PROVE CallsOK' /\ NoOrphanSession'
  BY <1>17, <1>p DEF ConfirmTrust, registry
<1>18. ASSUME NEW a \in AgentIds, Expire(a) PROVE CallsOK' /\ NoOrphanSession'
  BY <1>18, <1>p DEF Expire, registry
<1>19. ASSUME NEW a \in AgentIds, OwnerDisconnects(a) PROVE CallsOK' /\ NoOrphanSession'
  <2>1. /\ session' = session
        /\ \A y \in Closers : y # Owner => closer'[y] = closer[y] /\ (y \in Runs => pc'[y] = pc[y])
    BY <1>19, <1>t DEF OwnerDisconnects, TypeOK, registry
  <2>2. closer'[Owner].at = "status" /\ closer'[Owner].agent = a /\ a \in Rows
    BY <1>19, <1>t DEF OwnerDisconnects, TypeOK, Idle, Closers
  <2>3. Owner \notin Runs /\ Owner \in Closers
    BY BoundsAssumption DEF Closers
  <2>4. Fine(Owner)'
    BY <1>w, <2>2, <2>3 DEF Fine
  <2> QED BY <1>o, <2>1, <2>3, <2>4
<1>20. CASE UNCHANGED vars
  BY <1>20, <1>p DEF vars
<1> QED BY <1>1, <1>2, <1>3, <1>4, <1>5, <1>6, <1>7, <1>8, <1>9, <1>10, <1>11, <1>12, <1>13, <1>14, <1>15, <1>16, <1>17, <1>18, <1>19, <1>20
       DEF Next, RunStep, RequestStep, CloserStep

-----------------------------------------------------------------------------
(* Cascades *)

\* What was leased stays leased to the same agent or is over for good.
Forward ==
    \A q \in Requests : request[q].at \in {"leased", "over"} =>
        /\ request'[q].at \in {"leased", "over"}
        /\ request'[q].at = "leased" =>
              request[q].at = "leased" /\ request'[q].agent = request[q].agent

\* No step takes a request back.
LEMMA RequestsMoveForward == IInv /\ [Next]_vars => Forward
<1> SUFFICES ASSUME IInv, [Next]_vars PROVE Forward
  OBVIOUS
<1>t. TypeOK
  BY DEF IInv
<1>s. request' = request => Forward
  BY DEF Forward
<1>m. ASSUME NEW q \in Requests, NEW from \in {"authenticated", "pending", "leased"},
             NEW to \in {"pending", "leased", "over"}, MovesOn(q, from, to),
             from = "leased" => to = "over"
      PROVE  Forward
  BY <1>m, <1>t, RequestMoves DEF Forward
<1>1. ASSUME NEW r \in Runs, OpenSession(r) PROVE Forward
  BY <1>1, <1>s DEF OpenSession
<1>2. ASSUME NEW r \in Runs, AgentByBinding(r) PROVE Forward
  BY <1>2, <1>s DEF AgentByBinding
<1>3. ASSUME NEW r \in Runs, RebindAgent(r) PROVE Forward
  BY <1>3, <1>s DEF RebindAgent
<1>4. ASSUME NEW r \in Runs, CreateAgent(r) PROVE Forward
  BY <1>4, <1>s DEF CreateAgent
<1>5. ASSUME NEW r \in Runs, RegisterFails(r) PROVE Forward
  BY <1>5, <1>s DEF RegisterFails
<1>6. ASSUME NEW r \in Runs, Exit(r) PROVE Forward
  BY <1>6, <1>s DEF Exit
<1>7. ASSUME NEW r \in Runs, NEW q \in Requests, Authenticate(r, q) PROVE Forward
  BY <1>7, <1>t DEF Authenticate, Forward, TypeOK
<1>8. ASSUME NEW q \in Requests, Touch(q) PROVE Forward
  <2>1. PICK to \in {"pending", "over"} : MovesOn(q, "authenticated", to)
    BY <1>8 DEF Touch
  <2> QED BY <1>m, <2>1
<1>9. ASSUME NEW q \in Requests, SettleApproval(q) PROVE Forward
  <2>1. PICK to \in {"leased", "over"} : MovesOn(q, "pending", to)
    BY <1>9 DEF SettleApproval
  <2> QED BY <1>m, <2>1
<1>10. ASSUME NEW q \in Requests, CloseElsewhere(q) PROVE Forward
  BY <1>10, <1>m DEF CloseElsewhere
<1>11. ASSUME NEW c \in Closers, Disconnect(c) PROVE Forward
  BY <1>11, <1>s DEF Disconnect
<1>12. ASSUME NEW c \in Closers, ListBound(c) PROVE Forward
  BY <1>12, <1>s DEF ListBound
<1>13. ASSUME NEW c \in Closers, RevokeBound(c) PROVE Forward
  <2>1. PICK q \in closer[c].todo : MovesOn(q, "leased", "over")
    BY <1>13 DEF RevokeBound
  <2>2. q \in Requests
    BY <1>t DEF TypeOK
  <2> QED BY <1>m, <2>1, <2>2
<1>14. ASSUME NEW c \in Closers, RevokeConflict(c) PROVE Forward
  BY <1>14, <1>s DEF RevokeConflict
<1>15. ASSUME NEW c \in Closers, CascadeEnds(c) PROVE Forward
  BY <1>15, <1>s DEF CascadeEnds
<1>16. ASSUME NEW c \in Closers, CloseFails(c) PROVE Forward
  BY <1>16, <1>s DEF CloseFails
<1>17. ASSUME NEW a \in AgentIds, ConfirmTrust(a) PROVE Forward
  BY <1>17, <1>s DEF ConfirmTrust
<1>18. ASSUME NEW a \in AgentIds, Expire(a) PROVE Forward
  BY <1>18, <1>s DEF Expire
<1>19. ASSUME NEW a \in AgentIds, OwnerDisconnects(a) PROVE Forward
  BY <1>19, <1>s DEF OwnerDisconnects
<1>20. CASE UNCHANGED vars
  BY <1>20, <1>s DEF vars
<1> QED BY <1>1, <1>2, <1>3, <1>4, <1>5, <1>6, <1>7, <1>8, <1>9, <1>10, <1>11, <1>12, <1>13, <1>14, <1>15, <1>16, <1>17, <1>18, <1>19, <1>20
       DEF Next, RunStep, RequestStep, CloserStep

\* A cascade keeps track of what it is due to close, and one that ends as done
\* has closed it.
LEMMA DueStep == IInv /\ [Next]_vars =>
    \A x \in Closers :
        /\ Due(x)'
        /\ closer[x].at # "done" /\ closer'[x].at = "done" =>
              \A q \in closer[x].due : request'[q].at # "leased"
<1> DEFINE Complete(x) == closer[x].at # "done" /\ closer'[x].at = "done" =>
                             \A q \in closer[x].due : request'[q].at # "leased"
           Goal(x) == Due(x)' /\ Complete(x)
<1> SUFFICES ASSUME IInv, [Next]_vars PROVE \A x \in Closers : Goal(x)
  OBVIOUS
<1>t. TypeOK /\ TypeOK'
  BY TypeStep DEF IInv
<1>f. \A x \in Closers : Due(x) /\ closer[x].due \subseteq Requests /\ closer[x].todo \subseteq Requests
  BY <1>t DEF IInv, TypeOK
<1>m. Forward
  BY RequestsMoveForward
<1>s. ASSUME NEW x \in Closers, closer'[x] = closer[x] PROVE Goal(x)
  BY <1>s, <1>f, <1>m DEF Due, Forward
<1>p. closer' = closer => \A x \in Closers : Goal(x)
  BY <1>s
<1>i. ASSUME NEW x \in Closers, closer'[x].at \in {"status", "failed"} PROVE Goal(x)
  BY <1>i DEF Due
<1> HIDE DEF Goal
<1>1. ASSUME NEW r \in Runs, OpenSession(r) PROVE \A x \in Closers : Goal(x)
  BY <1>1, <1>p DEF OpenSession
<1>2. ASSUME NEW r \in Runs, AgentByBinding(r) PROVE \A x \in Closers : Goal(x)
  BY <1>2, <1>p DEF AgentByBinding
<1>3. ASSUME NEW r \in Runs, RebindAgent(r) PROVE \A x \in Closers : Goal(x)
  BY <1>3, <1>p DEF RebindAgent
<1>4. ASSUME NEW r \in Runs, CreateAgent(r) PROVE \A x \in Closers : Goal(x)
  BY <1>4, <1>p DEF CreateAgent
<1>5. ASSUME NEW r \in Runs, RegisterFails(r) PROVE \A x \in Closers : Goal(x)
  BY <1>5, <1>p DEF RegisterFails
<1>6. ASSUME NEW r \in Runs, Exit(r) PROVE \A x \in Closers : Goal(x)
  <2>1. closer'[r].at = "status" /\ \A x \in Closers : x # r => closer'[x] = closer[x]
    BY <1>6, <1>t DEF Exit, TypeOK, Idle, Closers
  <2> QED BY <1>s, <1>i, <2>1
<1>7. ASSUME NEW r \in Runs, NEW q \in Requests, Authenticate(r, q) PROVE \A x \in Closers : Goal(x)
  BY <1>7, <1>p DEF Authenticate
<1>8. ASSUME NEW q \in Requests, Touch(q) PROVE \A x \in Closers : Goal(x)
  BY <1>8, <1>p DEF Touch
<1>9. ASSUME NEW q \in Requests, SettleApproval(q) PROVE \A x \in Closers : Goal(x)
  BY <1>9, <1>p DEF SettleApproval
<1>10. ASSUME NEW q \in Requests, CloseElsewhere(q) PROVE \A x \in Closers : Goal(x)
  BY <1>10, <1>p DEF CloseElsewhere
<1>11. ASSUME NEW c \in Closers, Disconnect(c) PROVE \A x \in Closers : Goal(x)
  <2>1. /\ \A x \in Closers : x # c => closer'[x] = closer[x]
        /\ closer'[c].at = "list" /\ closer'[c].agent = closer[c].agent
        /\ closer'[c].due = BoundLeases(closer[c].agent) /\ request' = request
    BY <1>11, <1>t DEF Disconnect, TypeOK
  <2>2. Goal(c)
    BY <2>1 DEF Goal, Due, BoundLeases
  <2> QED BY <1>s, <2>1, <2>2
<1>12. ASSUME NEW c \in Closers, ListBound(c) PROVE \A x \in Closers : Goal(x)
  <2> DEFINE bound == BoundLeases(closer[c].agent)
  <2>1. PICK listed \in SUBSET bound :
           closer' = [closer EXCEPT ![c] =
              [at |-> "cascade", agent |-> closer[c].agent, todo |-> listed,
               due |-> IF listed = bound THEN closer[c].due ELSE listed]]
    BY <1>12 DEF ListBound
  <2>2. closer[c].at = "list" /\ request' = request
    BY <1>12 DEF ListBound
  <2> HIDE DEF bound
  <2>3. /\ \A x \in Closers : x # c => closer'[x] = closer[x]
        /\ closer'[c].at = "cascade" /\ closer'[c].todo = listed
        /\ closer'[c].due = IF listed = bound THEN closer[c].due ELSE listed
    BY <1>t, <2>1 DEF TypeOK
  <2>4. \A q \in closer[c].due : /\ request[q].at \in {"leased", "over"}
                                 /\ request[q].at = "leased" => q \in bound
    BY <1>f, <2>2 DEF Due, BoundLeases, bound
  <2>5. \A q \in listed : request[q].at = "leased"
    BY DEF BoundLeases, bound
  <2>6. Goal(c)
    BY <2>2, <2>3, <2>4, <2>5 DEF Goal, Due
  <2> QED BY <1>s, <2>3, <2>6
<1>13. ASSUME NEW c \in Closers, RevokeBound(c) PROVE \A x \in Closers : Goal(x)
  <2>1. PICK q \in closer[c].todo :
           /\ MovesOn(q, "leased", "over")
           /\ closer' = [closer EXCEPT ![c].todo = @ \ {q}]
    BY <1>13 DEF RevokeBound
  <2>2. q \in Requests /\ closer[c].at = "cascade"
    BY <1>13, <1>f DEF RevokeBound
  <2>3. request'[q].at = "over"
    BY <1>t, <2>1, <2>2, RequestMoves
  <2>4. /\ \A x \in Closers : x # c => closer'[x] = closer[x]
        /\ closer'[c].at = "cascade" /\ closer'[c].todo = closer[c].todo \ {q}
        /\ closer'[c].due = closer[c].due
    BY <1>t, <2>1, <2>2 DEF TypeOK
  <2>5. Goal(c)
    BY <1>f, <1>m, <2>2, <2>3, <2>4 DEF Goal, Due, Forward
  <2> QED BY <1>s, <2>4, <2>5
<1>14. ASSUME NEW c \in Closers, RevokeConflict(c) PROVE \A x \in Closers : Goal(x)
  <2>1. closer'[c].at = "failed" /\ \A x \in Closers : x # c => closer'[x] = closer[x]
    BY <1>14, <1>t DEF RevokeConflict, Settled, TypeOK, Idle
  <2> QED BY <1>s, <1>i, <2>1
<1>15. ASSUME NEW c \in Closers, CascadeEnds(c) PROVE \A x \in Closers : Goal(x)
  <2>1. /\ \A x \in Closers : x # c => closer'[x] = closer[x]
        /\ closer'[c].at = "done" /\ closer[c].at = "cascade" /\ closer[c].todo = {}
        /\ request' = request
    BY <1>15, <1>t DEF CascadeEnds, Settled, TypeOK, Idle
  <2>2. Goal(c)
    BY <1>f, <2>1 DEF Goal, Due
  <2> QED BY <1>s, <2>1, <2>2
<1>16. ASSUME NEW c \in Closers, CloseFails(c) PROVE \A x \in Closers : Goal(x)
  <2>1. closer'[c].at = "failed" /\ \A x \in Closers : x # c => closer'[x] = closer[x]
    BY <1>16, <1>t DEF CloseFails, Settled, TypeOK, Idle
  <2> QED BY <1>s, <1>i, <2>1
<1>17. ASSUME NEW a \in AgentIds, ConfirmTrust(a) PROVE \A x \in Closers : Goal(x)
  BY <1>17, <1>p DEF ConfirmTrust
<1>18. ASSUME NEW a \in AgentIds, Expire(a) PROVE \A x \in Closers : Goal(x)
  BY <1>18, <1>p DEF Expire
<1>19. ASSUME NEW a \in AgentIds, OwnerDisconnects(a) PROVE \A x \in Closers : Goal(x)
  <2>1. closer'[Owner].at = "status" /\ \A x \in Closers : x # Owner => closer'[x] = closer[x]
    BY <1>19, <1>t DEF OwnerDisconnects, TypeOK, Idle, Closers
  <2> QED BY <1>s, <1>i, <2>1
<1>20. CASE UNCHANGED vars
  BY <1>20, <1>p DEF vars
<1> QED BY <1>1, <1>2, <1>3, <1>4, <1>5, <1>6, <1>7, <1>8, <1>9, <1>10, <1>11, <1>12, <1>13, <1>14, <1>15, <1>16, <1>17, <1>18, <1>19, <1>20
       DEF Next, RunStep, RequestStep, CloserStep

-----------------------------------------------------------------------------
(* The theorems *)

\* The inductive invariant holds before the first registration.
LEMMA InitIInv == Init => IInv
<1> SUFFICES ASSUME Init PROVE IInv
  OBVIOUS
<1>1. agents \in Seq(AgentRows) /\ Len(agents) = 0 /\ Rows = {}
  BY EmptySeq DEF Init, Rows
<1>2. TypeOK
  BY <1>1, BoundsAssumption
     DEF Init, TypeOK, RunStates, CallStates, Idle, Unsent, NoAgent
<1>3. KeysOK /\ RunsOK /\ CallsOK /\ NoOrphanSession
  BY <1>1 DEF Init, KeysOK, RunsOK, CallsOK, NoOrphanSession, Authenticates, Idle
<1>4. \A c \in Closers : Due(c)
  BY DEF Init, Due, Idle
<1> QED BY <1>2, <1>3, <1>4 DEF IInv

\* Every step keeps it.
LEMMA StepIInv == IInv /\ [Next]_vars => IInv'
  BY TypeStep, KeysStep, RunsStep, CallsStep, DueStep DEF IInv

\* It holds in every state the registrations and disconnections reach.
LEMMA Inductive == Spec => []IInv
  BY InitIInv, StepIInv, PTL DEF Spec

\* The tables stay in their types, whatever registrations, requests and
\* disconnections meet (core/agentauth, core/pipeline/agent.go).
THEOREM SessionTypes == Spec => []TypeOK
<1>1. IInv => TypeOK
  BY DEF IInv
<1> QED BY Inductive, <1>1, PTL

\* However many runs of however many versions of an executable register at
\* once, a key works only for the binding it was issued to, and as a known
\* agent only where the owner confirmed that binding (Service.Register).
THEOREM TrustStaysWithTheBinding == Spec => []TrustFollowsTheBinding
<1>1. IInv => TrustFollowsTheBinding
  BY DEF IInv, KeysOK, TrustFollowsTheBinding, Authenticates, BindingOf
<1> QED BY Inductive, <1>1, PTL

\* A run that closed its session leaves no key that works (endSession).
THEOREM ClosedRunsAreGone == Spec => []NoOrphanSession
<1>1. IInv => NoOrphanSession
  BY DEF IInv
<1> QED BY Inductive, <1>1, PTL

\* A key that stopped working never works again (Authenticate, RebindAgent).
THEOREM DeadKeysNeverRevive == Spec => DeadKeysStayDead
<1>1. IInv /\ [Next]_vars =>
        [\A r \in Runs : session[r] # NoAgent /\ pc[r] \notin {"rebind", "create"}
                           /\ ~KeyWorks(r) => ~KeyWorks(r)']_vars
  BY DeadStays
<1> QED BY Inductive, <1>1, PTL DEF Spec, DeadKeysStayDead

\* A disconnection that reports success has closed what it had to close, for
\* any number of leases and any limit of the listing (DisconnectAgent).
THEOREM CascadesAreComplete == Spec => CascadeIsComplete
<1>1. IInv /\ [Next]_vars =>
        [\A c \in Closers :
            closer[c].at # "done" /\ closer'[c].at = "done"
            => \A q \in closer[c].due : request'[q].at # "leased"]_vars
  BY DueStep
<1> QED BY Inductive, <1>1, PTL DEF Spec, CascadeIsComplete

=============================================================================
