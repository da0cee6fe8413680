------------------------------ MODULE TaskLife ------------------------------
(***************************************************************************)
(* What the dispatcher relies on in a task that needs the network: the     *)
(* states it goes through and when, as module Dispatcher has it for the    *)
(* tasks of the HTTP classes (mms_task.h, mms_task.c).  How the transfer   *)
(* is carried out does not show.                                           *)
(***************************************************************************)
VARIABLES state,   \* task->state, "NONE" when the task is gone
          expired  \* the deadline has passed

lifeVars == <<state, expired>>

NeedsNetwork == state \in {"NEED_CONNECTION", "NEED_USER_CONNECTION"}

Exists == state # "NONE"

-----------------------------------------------------------------------------
LifeInit == state = "READY" /\ expired = FALSE

(* mms_task_retry: there is another attempt only before the deadline. *)
RetryOrEnd == state' = IF expired THEN "DONE" ELSE "SLEEP"

(* mms_task_run *)
LifeRun ==
  /\ state = "READY"
  /\ state' \in {"NEED_CONNECTION", "NEED_USER_CONNECTION"}
  /\ UNCHANGED expired

(* mms_task_transmit.  A task that fails leaves the queue at once. *)
LifeTransmit ==
  /\ NeedsNetwork
  /\ state' \in {"TRANSMITTING", "NONE"}
  /\ UNCHANGED expired

(* The transaction ends. *)
LifeFinish ==
  /\ state = "TRANSMITTING"
  /\ state' = "DONE" \/ RetryOrEnd
  /\ UNCHANGED expired

(* mms_task_network_unavailable(task, TRUE) *)
LifeOffline ==
  /\ NeedsNetwork \/ state = "TRANSMITTING"
  /\ RetryOrEnd
  /\ UNCHANGED expired

(* mms_task_wakeup_callback *)
LifeWakeup ==
  /\ state = "SLEEP"
  /\ state' = "READY"
  /\ UNCHANGED expired

(* mms_task_cancel, in any state *)
LifeCancel ==
  /\ Exists
  /\ state' = "DONE"
  /\ UNCHANGED expired

(* The dispatcher drops a task that is done. *)
LifeFree ==
  /\ state = "DONE"
  /\ state' = "NONE"
  /\ UNCHANGED expired

(* The clock passes the deadline. *)
LifeExpire ==
  /\ Exists
  /\ expired' = TRUE
  /\ UNCHANGED state

LifeNext ==
  \/ LifeRun
  \/ LifeTransmit
  \/ LifeFinish
  \/ LifeOffline
  \/ LifeWakeup
  \/ LifeCancel
  \/ LifeFree
  \/ LifeExpire

LifeSpec == LifeInit /\ [][LifeNext]_lifeVars
=============================================================================
