---------------------------- MODULE MCCredential ----------------------------
(***************************************************************************)
(* Two owners' calls that race for one item, and two requests that need    *)
(* it while its source locks and unlocks.  The source is one that reports  *)
(* the lock, as the local vault does; the gateway registers two kinds that *)
(* let the call run into its deadline instead.                             *)
(***************************************************************************)
EXTENDS Credential, TLC

=============================================================================
