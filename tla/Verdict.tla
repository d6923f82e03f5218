------------------------------ MODULE Verdict -------------------------------
(***************************************************************************)
(* What the gateway promises about a capability request, with none of the  *)
(* machinery: a request gets at most one verdict, the verdict is written   *)
(* to the ledger at most once, a lease is granted only for a request whose *)
(* favourable verdict is already in the ledger, and nothing is sent to the *)
(* outside except under such a lease.  Settlement.tla implements this.     *)
(***************************************************************************)
EXTENDS Naturals

CONSTANT Requests

VARIABLES
    verdict,    \* verdict[r]: "open", "allowed" or "refused"
    entries,    \* entries[r]: how often the verdict on r is in the ledger
    granted,    \* the requests a lease was granted for
    executed    \* the requests that were sent to the outside

vars == <<verdict, entries, granted, executed>>

Init ==
    /\ verdict = [r \in Requests |-> "open"]
    /\ entries = [r \in Requests |-> 0]
    /\ granted = {}
    /\ executed = {}

Decide(r) ==
    /\ verdict[r] = "open"
    /\ \E v \in {"allowed", "refused"} : verdict' = [verdict EXCEPT ![r] = v]
    /\ UNCHANGED <<entries, granted, executed>>

Book(r) ==
    /\ verdict[r] # "open"
    /\ entries[r] = 0
    /\ entries' = [entries EXCEPT ![r] = 1]
    /\ UNCHANGED <<verdict, granted, executed>>

\* A request the gateway cannot make sense of is refused by the very entry that
\* reports it.
RefuseUnread(r) ==
    /\ verdict[r] = "open"
    /\ entries[r] = 0
    /\ verdict' = [verdict EXCEPT ![r] = "refused"]
    /\ entries' = [entries EXCEPT ![r] = 1]
    /\ UNCHANGED <<granted, executed>>

Grant(r) ==
    /\ verdict[r] = "allowed"
    /\ entries[r] = 1
    /\ r \notin granted
    /\ granted' = granted \cup {r}
    /\ UNCHANGED <<verdict, entries, executed>>

\* r goes out, under its own lease or under the one granted for q.
Execute(r, q) ==
    /\ verdict[r] = "allowed"
    /\ entries[r] = 1
    /\ q \in granted
    /\ r \notin executed
    /\ executed' = executed \cup {r}
    /\ UNCHANGED <<verdict, entries, granted>>

Next ==
    \/ \E r \in Requests : Decide(r) \/ Book(r) \/ RefuseUnread(r) \/ Grant(r)
    \/ \E r, q \in Requests : Execute(r, q)

Spec == Init /\ [][Next]_vars
=============================================================================
