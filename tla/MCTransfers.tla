----------------------------- MODULE MCTransfers -----------------------------
(***************************************************************************)
(* One message that is transferred again and again, also while it is being *)
(* transferred already, and two clients.                                   *)
(***************************************************************************)
EXTENDS Transfers
=============================================================================
