----------------------------- MODULE LeaseGrant -----------------------------
(***************************************************************************)
(* What a lease promises, with none of the machinery that keeps the        *)
(* promise: a grant is live from the moment it is given until it ends, it  *)
(* is charged one use at a time, never after its deadline, never more      *)
(* often than its cap, the last charge ends it in the same step, and it    *)
(* can only be narrowed.  Lease.tla is shown to implement this.            *)
(***************************************************************************)
EXTENDS Naturals

CONSTANTS
    Leases,     \* the grants that may exist
    Instants,   \* the instants a deadline may be set to
    Limits      \* the caps a grant may be given; 0 stands for "no cap"

VARIABLES
    clock,      \* the wall clock
    life,       \* life[l]: "unissued", "live" or "over"
    deadline,   \* deadline[l]: the grant is worthless from this instant on
    cap,        \* cap[l]: the number of charges allowed, 0 for no cap
    charges     \* charges[l]: the number of charges made

vars == <<clock, life, deadline, cap, charges>>

Init ==
    /\ clock = 0
    /\ life = [l \in Leases |-> "unissued"]
    /\ deadline = [l \in Leases |-> 0]
    /\ cap = [l \in Leases |-> 0]
    /\ charges = [l \in Leases |-> 0]

Give(l) ==
    /\ life[l] = "unissued"
    /\ life' = [life EXCEPT ![l] = "live"]
    /\ \E t \in Instants : t > clock /\ deadline' = [deadline EXCEPT ![l] = t]
    /\ \E n \in Limits : cap' = [cap EXCEPT ![l] = n]
    /\ UNCHANGED <<clock, charges>>

\* One use.  The last one allowed also ends the grant: there is no instant at
\* which a used-up grant is still live.
Charge(l) ==
    /\ life[l] = "live"
    /\ clock < deadline[l]
    /\ charges' = [charges EXCEPT ![l] = @ + 1]
    /\ life' = [life EXCEPT ![l] =
                  IF cap[l] # 0 /\ charges[l] + 1 = cap[l] THEN "over" ELSE "live"]
    /\ UNCHANGED <<clock, deadline, cap>>

\* Expiry, revocation: the grant is over, whatever the reason.
End(l) ==
    /\ life[l] = "live"
    /\ life' = [life EXCEPT ![l] = "over"]
    /\ UNCHANGED <<clock, deadline, cap, charges>>

Narrow(l) ==
    /\ life[l] # "unissued"
    /\ \E t \in Instants : t < deadline[l] /\ deadline' = [deadline EXCEPT ![l] = t]
    /\ UNCHANGED <<clock, life, cap, charges>>

Tick ==
    /\ clock' = clock + 1
    /\ UNCHANGED <<life, deadline, cap, charges>>

Next ==
    \/ Tick
    \/ \E l \in Leases : Give(l) \/ Charge(l) \/ End(l) \/ Narrow(l)

Spec == Init /\ [][Next]_vars
=============================================================================
