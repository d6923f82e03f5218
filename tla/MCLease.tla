------------------------------ MODULE MCLease -------------------------------
(* Instances of Lease for TLC. *)
EXTENDS Lease

CONSTANTS l1, l2, c1, c2

TwoLeases == {l1, l2}
TwoCallers == {c1, c2}

\* Both callers ask for what every lease covers: they compete for all of them.
AllCovered == [c \in Callers |-> Leases]
=============================================================================
