----------------------------- MODULE MCHttpTask -----------------------------
(***************************************************************************)
(* The HTTP task for TLC: its module has only scalar constants.            *)
(***************************************************************************)
EXTENDS HttpTask
=============================================================================
