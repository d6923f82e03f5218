------------------------------ MODULE MCLedger ------------------------------
(* Three entries of two agents for one service, in pages of one. *)
EXTENDS Ledger, TLC

MCAgentOf == "e1" :> "a" @@ "e2" :> "a" @@ "e3" :> "b"
MCServiceOf == [e \in {"e1", "e2", "e3"} |-> "github"]
=============================================================================
