---------------------------- MODULE MCSettlement ----------------------------
(* Instances of Settlement for TLC. *)
EXTENDS Settlement, TLC

CONSTANTS r1, r2, s1, s2

TwoRequests == {r1, r2}
TwoSettlers == {s1, s2}

\* Requests are interchangeable, and so are submissions.
RequestSymmetry == Permutations(Requests) \cup Permutations(Settlers)
=============================================================================
