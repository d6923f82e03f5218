------------------------------ MODULE MCGateway -----------------------------
(* Named after its kind, a request arrives once. *)
EXTENDS Gateway, TLC

MCKindOf == [c \in Calls |-> c]
=============================================================================
