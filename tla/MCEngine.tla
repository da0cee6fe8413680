------------------------------ MODULE MCEngine ------------------------------
(***************************************************************************)
(* Small instances of the engine and its dispatcher for TLC.               *)
(***************************************************************************)
EXTENDS Engine, TLC

(* One message to be sent: it is encoded and uploaded. *)
Sending == "e1" :> "encode" @@ "s1" :> "send"
SendingTasks == DOMAIN Sending
SendingMsg == [t \in SendingTasks |-> 1]
SendingImsi == [t \in SendingTasks |-> "simA"]
=============================================================================
