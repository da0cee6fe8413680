------------------------------ MODULE HttpTask ------------------------------
(***************************************************************************)
(* A task that sends or receives over HTTP (mms_task_http.c on top of      *)
(* mms_task.c), from its creation to the moment the dispatcher drops it.   *)
(*                                                                         *)
(* One C call may run into another: aborting a session can complete its    *)
(* message on the spot, completing it puts the task to sleep, a task that  *)
(* has no time to sleep is cancelled, and cancelling it aborts.  The       *)
(* operations are therefore functions of the task object, composed the way *)
(* the calls are nested, and an action is a whole callback.                *)
(***************************************************************************)
EXTENDS Naturals

CONSTANTS ConnType,      \* priv->connection_type: "AUTO" or "USER"
          MaxSessions    \* bound: how often the transfer is started

ASSUME HttpAssumption ==
  /\ ConnType \in {"AUTO", "USER"}
  /\ MaxSessions \in Nat

VARIABLES task,     \* the object, see TaskType
          expired,  \* its deadline has passed
          pending,  \* sessions whose completion callback is still to come
          sessions, \* how many sessions have been created
          asyncSession \* the sessions are SoupSessionAsync (libsoup before
                       \* 2.42): aborting one completes its message before
                       \* the call returns

vars == <<task, expired, pending, sessions, asyncSession>>

TaskStates == {"READY", "NEED_CONNECTION", "NEED_USER_CONNECTION",
               "TRANSMITTING", "SLEEP", "DONE", "NONE"}

HttpStates == {"READY", "ACTIVE", "PAUSED", "DONE"}

NoTransfer == 0

TaskType ==
  [state  : TaskStates,   \* task->state, "NONE" once the object is gone
   wakeup : BOOLEAN,      \* priv->wakeup_id is set
   http   : HttpStates,   \* priv->transaction_state; while it is "ACTIVE" the
                          \* transfer is in the transfer list
   tx     : 0..MaxSessions, \* priv->tx: its session, or NoTransfer
   done   : 0..1]         \* how often fn_done has been called

NeedsNetwork == task.state \in {"NEED_CONNECTION", "NEED_USER_CONNECTION"}

(* The session of the transfer t holds has not completed its message. *)
InProgress(t) == t.tx \in pending

-----------------------------------------------------------------------------
(* Operations on the task t. *)

(* Seeded fault: the outcome may be reported again. *)
HttpStateAlways(t, new) ==
  [t EXCEPT !.http = new,
            !.done = IF new = "DONE" THEN @ + 1 ELSE @]

(* mms_task_http_set_state: a transaction that is done stays so. *)
HttpState(t, new) ==
  IF t.http \in {new, "DONE"} THEN t
  ELSE [t EXCEPT !.http = new,
                 !.done = IF new = "DONE" THEN @ + 1 ELSE @]

(* Seeded fault: the deadline does not matter. *)
SleepForever(t) == [t EXCEPT !.state = "SLEEP", !.wakeup = TRUE]

(* mms_task_sleep *)
Sleep(t) ==
  IF expired THEN [t EXCEPT !.state = "DONE", !.wakeup = FALSE]
  ELSE [t EXCEPT !.state = "SLEEP", !.wakeup = TRUE]

(* A transport error in mms_task_http_finished: mms_task_retry *)
Retried(t) ==
  HttpState(Sleep(t), IF expired THEN "DONE" ELSE "PAUSED")

(* Seeded fault: the transfer is forgotten before its session is aborted. *)
ForgetTransfer(t) == [t EXCEPT !.tx = NoTransfer]

(* mms_task_http_finish_transfer.  The session is aborted while priv->tx
   still points to the transfer: a completion callback that comes at once
   passes for that of the transfer, and being cancelled counts as a transport
   error. *)
FinishTransfer(t) ==
  [IF asyncSession /\ InProgress(t) THEN Retried(t) ELSE t
     EXCEPT !.tx = NoTransfer]

(* The sessions still to complete after FinishTransfer *)
PendingAfter(t) == IF asyncSession THEN pending \ {t.tx} ELSE pending

(* Seeded fault: the wakeup of a cancelled task is left behind. *)
CancelledAsleep(t) ==
  [HttpState(FinishTransfer(t), "DONE") EXCEPT !.state = "DONE"]

(* mms_task_http_cancel and mms_task_cancel_cb *)
Cancelled(t) ==
  [HttpState(FinishTransfer(t), "DONE") EXCEPT !.state = "DONE",
                                               !.wakeup = FALSE]

(* mms_task_set_state(SLEEP) after the transfer has been finished *)
PutToSleep(t) ==
  IF t.state = "SLEEP" THEN t
  ELSE IF expired THEN Cancelled(t)
  ELSE [t EXCEPT !.state = "SLEEP", !.wakeup = TRUE]

-----------------------------------------------------------------------------
(* What the dispatcher does with the task. *)

(* mms_task_http_run *)
Run ==
  /\ task.state = "READY"
  /\ task' = [task EXCEPT !.state = IF ConnType = "USER"
                                    THEN "NEED_USER_CONNECTION"
                                    ELSE "NEED_CONNECTION"]
  /\ UNCHANGED <<expired, pending, sessions, asyncSession>>

(* mms_task_http_transmit when mms_task_http_start succeeds *)
Transmit ==
  /\ NeedsNetwork
  /\ sessions < MaxSessions
  /\ sessions' = sessions + 1
  /\ task' = [HttpState(FinishTransfer(task), "ACTIVE")
                EXCEPT !.tx = sessions', !.state = "TRANSMITTING"]
  /\ pending' = PendingAfter(task) \cup {sessions'}
  /\ UNCHANGED <<expired, asyncSession>>

(* The files or the URI are no good: the outcome is reported without a
   change of the transaction's state, and the dispatcher drops the task. *)
TransmitFailed ==
  /\ NeedsNetwork
  /\ task' = [FinishTransfer(task) EXCEPT !.done = @ + 1, !.state = "NONE"]
  /\ pending' = PendingAfter(task)
  /\ UNCHANGED <<expired, sessions, asyncSession>>

(* mms_task_http_network_unavailable(task, TRUE): the connection is gone. *)
NetworkLost ==
  /\ NeedsNetwork \/ task.state = "TRANSMITTING"
  /\ task' = PutToSleep(FinishTransfer(task))
  /\ pending' = PendingAfter(task)
  /\ UNCHANGED <<expired, sessions, asyncSession>>

(* mms_task_cancel, and mms_task_http_network_unavailable(task, FALSE) *)
Cancel ==
  /\ task.state # "NONE"
  /\ task' = Cancelled(task)
  /\ pending' = PendingAfter(task)
  /\ UNCHANGED <<expired, sessions, asyncSession>>

(* mms_task_http_dispose *)
Free ==
  /\ task.state = "DONE"
  /\ task' = [FinishTransfer(task) EXCEPT !.state = "NONE"]
  /\ pending' = PendingAfter(task)
  /\ UNCHANGED <<expired, sessions, asyncSession>>

-----------------------------------------------------------------------------
(* Timers and libsoup. *)

(* mms_task_wakeup_callback *)
Wakeup ==
  /\ task.wakeup
  /\ task' = [task EXCEPT !.state = "READY", !.wakeup = FALSE]
  /\ UNCHANGED <<expired, pending, sessions, asyncSession>>

(* The clock passes the deadline. *)
Expire ==
  /\ task.state # "NONE"
  /\ ~expired
  /\ expired' = TRUE
  /\ UNCHANGED <<task, pending, sessions, asyncSession>>

(* Seeded fault: the completion of an aborted session is taken for that of
   the transfer. *)
FinishedUnchecked(s) ==
  /\ s \in pending
  /\ pending' = pending \ {s}
  /\ task' \in {HttpState([task EXCEPT !.state = "DONE"], "DONE"),
                Retried(task)}
  /\ UNCHANGED <<expired, sessions, asyncSession>>

(* mms_task_http_finished: success or a permanent error, or a transport error
   that is retried.  The stale completion of an aborted session is ignored. *)
Finished(s) ==
  /\ s \in pending
  /\ pending' = pending \ {s}
  /\ task' \in IF task.tx = s
               THEN {HttpState([task EXCEPT !.state = "DONE"], "DONE"),
                     Retried(task)}
               ELSE {task}
  /\ UNCHANGED <<expired, sessions, asyncSession>>

(* mms_task_http_got_chunk when the file cannot be written *)
WriteError ==
  /\ InProgress(task)
  /\ task' = PutToSleep(HttpState(FinishTransfer(task), "PAUSED"))
  /\ pending' = PendingAfter(task)
  /\ UNCHANGED <<expired, sessions, asyncSession>>

-----------------------------------------------------------------------------
Init ==
  /\ task = [state |-> "READY", wakeup |-> FALSE, http |-> "READY",
             tx |-> NoTransfer, done |-> 0]
  /\ expired = FALSE
  /\ pending = {}
  /\ sessions = 0
  /\ asyncSession \in BOOLEAN

Next ==
  \/ Run
  \/ Transmit
  \/ TransmitFailed
  \/ NetworkLost
  \/ Cancel
  \/ Free
  \/ Wakeup
  \/ Expire
  \/ \E s \in pending : Finished(s)
  \/ WriteError

Spec == Init /\ [][Next]_vars

-----------------------------------------------------------------------------
(* Properties. *)

(* Every variable stays within its type. *)
TypeOK ==
  /\ task \in TaskType
  /\ expired \in BOOLEAN
  /\ sessions \in 0..MaxSessions
  /\ pending \subseteq 1..sessions
  /\ asyncSession \in BOOLEAN

(* A wakeup is scheduled exactly while the task sleeps: it neither sleeps for
   ever nor is woken up out of another state, whichever of the nested calls
   put it to sleep or cancelled it (asserted in mms_task.c, lines 67, 84 and
   121). *)
WakeupIffSleeping == task.wakeup <=> task.state = "SLEEP"

(* The outcome of the transfer is reported to the task's class, and from
   there to the handler, when the task is done, and once only. *)
OutcomeReportedOnce ==
  task.done = IF task.state \in {"DONE", "NONE"} THEN 1 ELSE 0

(* The task transmits exactly while the session it holds is in progress: no
   stale completion ends the transmission, and none is waited for that does
   not come. *)
TransmitsOverItsSession ==
  task.state = "TRANSMITTING" <=> InProgress(task)

Life == INSTANCE TaskLife WITH state <- task.state

(* The task behaves the way the dispatcher's model assumes. *)
ImplementsTaskLife == Life!LifeSpec

(* "Sending or receiving the data": a task that is done does neither, so its
   transfer has left the transfer list.  This holds where an aborted session
   completes at once: the completion pauses the transaction, and starting or
   dropping it after that is reported.  (Where it completes later, an
   interrupted transaction stays ACTIVE.) *)
TransferEnds ==
  asyncSession /\ task.state \in {"DONE", "NONE"} => task.http # "ACTIVE"
=============================================================================
