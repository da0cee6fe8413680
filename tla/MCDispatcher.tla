---------------------------- MODULE MCDispatcher ----------------------------
(***************************************************************************)
(* Small instances of the dispatcher for TLC.  A task is named after its   *)
(* class and its message.                                                  *)
(***************************************************************************)
EXTENDS Dispatcher, TLC

(* Receiving a message: notification, download, decoding, acknowledgement
   and delivery to the handler.  For another SIM, the user asks for a message
   to be downloaded and sends one, which is encoded first. *)
Receiving ==
  "n1" :> "notification" @@ "r1" :> "retrieve" @@ "d1" :> "decode" @@
  "a1" :> "ack" @@ "p1" :> "publish" @@ "u3" :> "retrieve" @@
  "e4" :> "encode"

(* Sending a message: encoding and upload. *)
Sending == "e2" :> "encode" @@ "s2" :> "send"

ReceivingTasks == DOMAIN Receiving
SendingTasks == DOMAIN Sending

MsgOf(t) == CASE t \in {"n1", "r1", "d1", "a1", "p1"} -> 1
              [] t \in {"e2", "s2"} -> 2
              [] t = "u3" -> 3
              [] t = "e4" -> 4

ReceivingMsg == [t \in ReceivingTasks |-> MsgOf(t)]
SendingMsg == [t \in SendingTasks |-> MsgOf(t)]

SimOf(t) == IF MsgOf(t) = 1 THEN "simA" ELSE "simB"

ReceivingImsi == [t \in ReceivingTasks |-> SimOf(t)]
SendingImsi == [t \in SendingTasks |-> SimOf(t)]
=============================================================================
