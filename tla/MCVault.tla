------------------------------ MODULE MCVault ------------------------------
(***************************************************************************)
(* A vault of one entry, its own password and another one.                 *)
(***************************************************************************)
EXTENDS Vault, TLC

MCSymmetry == Permutations(Masters)

=============================================================================
