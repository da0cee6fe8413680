----------------------------- MODULE MCTaskSort -----------------------------
(***************************************************************************)
(* Queues of three tasks for TLC: three are enough for the comparator to   *)
(* run in a circle.  The states that the comparator cannot tell apart are  *)
(* represented by one of them.                                             *)
(***************************************************************************)
EXTENDS TaskSort

SomeStates == {"READY", "NEED_CONNECTION", "NEED_USER_CONNECTION",
               "TRANSMITTING", "SLEEP"}
=============================================================================
