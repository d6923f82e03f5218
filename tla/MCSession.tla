----------------------------- MODULE MCSession -----------------------------
(***************************************************************************)
(* Two runs, of the same executable or of two versions of it, in one       *)
(* workspace of one device.                                                *)
(***************************************************************************)
EXTENDS Session, TLC

MCSymmetry == Permutations(Runs) \cup Permutations(Requests)
                 \cup Permutations(Executables)

=============================================================================
