---------------------------- MODULE HandlerCalls ----------------------------
(***************************************************************************)
(* The calls of the D-Bus handler (mms_handler_dbus.c) and the two tasks   *)
(* that wait for their answers: the notification of an incoming message    *)
(* (mms_task_notification.c) and its publication when it has been received *)
(* (mms_task_publish.c).                                                   *)
(*                                                                         *)
(* A call is an object of its own.  It has the task as the parameter of    *)
(* its callback, the task has a pointer to the call so that it can cancel  *)
(* it, and it is freed when it is answered, which also happens to a        *)
(* cancelled one.                                                          *)
(***************************************************************************)
EXTENDS Naturals, FiniteSets

CONSTANTS Tasks,
          Notifications, \* the others publish a message
          Calls,         \* bound: the calls that can be made
          NoCall, NoTask

ASSUME CallsAssumption ==
  /\ Notifications \subseteq Tasks
  /\ IsFiniteSet(Calls)
  /\ NoCall \notin Calls /\ NoTask \notin Tasks

VARIABLES task,      \* the tasks, see TaskType
          call,      \* the calls, see CallType
          busy,      \* handler->busy
          undefined  \* the program has used a call after it was freed

vars == <<task, call, busy, undefined>>

TaskStates == {"NEW", "READY", "PENDING", "SLEEP", "DONE"}

TaskType == [state  : TaskStates,
             call   : Calls \cup {NoCall}, \* ind->notify, pub->call
             queued : BOOLEAN,             \* it is in disp->tasks
             refs   : Nat]

CallType == [state : {"NEW", "SENT", "FREED"},
             cb    : BOOLEAN,              \* call->cb is not NULL
             task  : Tasks \cup {NoTask}]  \* the callback's parameter

Sent == {c \in Calls : call[c].state = "SENT"}

-----------------------------------------------------------------------------
(* mms_task_retry: the wakeup keeps a reference to a task that sleeps, and a
   task that has no time left is done. *)
RetryResults(k) == {[k EXCEPT !.state = "SLEEP", !.refs = @ + 1],
                    [k EXCEPT !.state = "DONE"]}

(* Seeded fault: the callback overlooks an error. *)
CallbackResultsIgnoring(t, ok) ==
  {[k EXCEPT !.call = IF t \in Notifications THEN NoCall ELSE @,
             !.refs = @ - 1] :
     k \in IF ok THEN {[task[t] EXCEPT !.state = "DONE"]} ELSE {task[t]}}

(* mms_task_notification_done and mms_task_publish_done.  Only the former
   clears the task's pointer. *)
CallbackResults(t, ok) ==
  {[k EXCEPT !.call = IF t \in Notifications THEN NoCall ELSE @,
             !.refs = @ - 1] :
     k \in IF ok THEN {[task[t] EXCEPT !.state = "DONE"]}
                 ELSE RetryResults(task[t])}

(* The task becomes k; everything else stays. *)
Update(t, k) == task' = [task EXCEPT ![t] = k]

(* mms_handler_notify_call_create, _message_received_call_create and the
   calls that nobody waits for *)
Make(c, t) ==
  /\ call[c].state = "NEW"
  /\ call' = [call EXCEPT ![c] = [state |-> "SENT", cb |-> t # NoTask,
                                  task |-> t]]
  /\ busy' = busy + 1

-----------------------------------------------------------------------------
(* mms_dispatcher_queue_and_unref_task *)
Create(t) ==
  /\ task[t].state = "NEW"
  /\ Update(t, [task[t] EXCEPT !.state = "READY", !.queued = TRUE,
                               !.refs = 1])
  /\ UNCHANGED <<call, busy>>

(* mms_task_notification_ind, mms_task_publish_run *)
Run(t) ==
  /\ task[t].queued /\ task[t].state = "READY"
  /\ \/ \E c \in Calls :
          /\ Make(c, t)
          /\ Update(t, [task[t] EXCEPT !.state = "PENDING", !.call = c,
                                       !.refs = @ + 1])
     \/ \* the handler cannot be called
        /\ \E k \in RetryResults([task[t] EXCEPT !.call = NoCall]) :
             Update(t, k)
        /\ UNCHANGED <<call, busy>>

(* mms_task_delivery_ind, mms_task_read_orig_ind: a notification that only
   passes a report on, if the handler can be called. *)
RunReport(t) ==
  /\ t \in Notifications
  /\ task[t].queued /\ task[t].state = "READY"
  /\ Update(t, [task[t] EXCEPT !.state = "DONE"])
  /\ \/ \E c \in Calls : Make(c, NoTask)
     \/ UNCHANGED <<call, busy>>

(* mms_task_wakeup_callback *)
Wakeup(t) ==
  /\ task[t].state = "SLEEP"
  /\ Update(t, [task[t] EXCEPT !.state = "READY", !.refs = @ - 1])
  /\ UNCHANGED <<call, busy>>

(* mms_task_cancel_cb *)
Cancelled(k) == [k EXCEPT !.state = "DONE",
                          !.refs = IF k.state = "SLEEP" THEN @ - 1 ELSE @]

(* Seeded fault: the callback of a cancelled call is still called. *)
CancelCalledBack(t) ==
  /\ task[t].queued
  /\ Update(t, Cancelled(IF task[t].call = NoCall THEN task[t]
                         ELSE [task[t] EXCEPT !.call = NoCall,
                                              !.refs = @ - 1]))
  /\ UNCHANGED <<call, busy>>

(* Seeded fault: the reference of a cancelled call is not returned. *)
CancelReferenced(t) ==
  /\ task[t].queued
  /\ Update(t, Cancelled([task[t] EXCEPT !.call = NoCall]))
  /\ call' = IF task[t].call = NoCall THEN call
             ELSE [call EXCEPT ![task[t].call].cb = FALSE]
  /\ UNCHANGED busy

(* mms_task_notification_cancel, mms_task_publish_cancel, _received_cancel
   and _notify_cancel of the handler, for a task that waits for no call or
   one that is pending *)
Cancel(t) ==
  /\ task[t].queued
  /\ \/ /\ task[t].call = NoCall
        /\ Update(t, Cancelled(task[t]))
        /\ UNCHANGED call
     \/ /\ task[t].call \in Sent
        /\ Update(t, Cancelled([task[t] EXCEPT !.call = NoCall,
                                               !.refs = @ - 1]))
        /\ call' = [call EXCEPT ![task[t].call].cb = FALSE]
  /\ UNCHANGED busy

(* The same functions, when the call has been freed *)
CancelFreed(t) ==
  /\ task[t].queued
  /\ task[t].call # NoCall /\ task[t].call \notin Sent
  /\ undefined' = TRUE
  /\ UNCHANGED <<task, call, busy>>

(* mms_dispatcher_run drops a task that is done. *)
Drop(t) ==
  /\ task[t].queued /\ task[t].state = "DONE"
  /\ Update(t, [task[t] EXCEPT !.queued = FALSE, !.refs = @ - 1])
  /\ UNCHANGED <<call, busy>>

(* Any other task tells the handler something, and waits for nothing:
   mms_handler_message_send_state_changed and the like *)
Report(c) ==
  /\ Make(c, NoTask)
  /\ UNCHANGED task

(* Seeded fault: a cancelled call is forgotten when it is answered. *)
ReplyForgotten(c, ok) ==
  /\ c \in Sent
  /\ call' = [call EXCEPT ![c].state = "FREED"]
  /\ IF call[c].cb
     THEN /\ \E k \in CallbackResults(call[c].task, ok) : Update(call[c].task, k)
          /\ busy' = busy - 1
     ELSE UNCHANGED <<task, busy>>

(* mms_handler_dbus_message_notify_done, mms_handler_dbus_message_received_done
   and mms_handler_dbus_call_done *)
Reply(c, ok) ==
  /\ c \in Sent
  /\ call' = [call EXCEPT ![c].state = "FREED"]
  /\ busy' = busy - 1
  /\ IF call[c].cb
     THEN \E k \in CallbackResults(call[c].task, ok) : Update(call[c].task, k)
     ELSE UNCHANGED task

-----------------------------------------------------------------------------
Init ==
  /\ task = [t \in Tasks |-> [state |-> "NEW", call |-> NoCall,
                              queued |-> FALSE, refs |-> 0]]
  /\ call = [c \in Calls |-> [state |-> "NEW", cb |-> FALSE,
                              task |-> NoTask]]
  /\ busy = 0
  /\ undefined = FALSE

TaskStep(t) ==
  \/ Create(t) \/ Run(t) \/ RunReport(t) \/ Wakeup(t) \/ Cancel(t) \/ Drop(t)

CallStep(c) == Report(c) \/ \E ok \in BOOLEAN : Reply(c, ok)

(* After a freed call has been used, anything may happen: the model stops
   there. *)
Next ==
  /\ ~undefined
  /\ \/ \E t \in Tasks : CancelFreed(t)
     \/ /\ \/ \E t \in Tasks : TaskStep(t)
           \/ \E c \in Calls : CallStep(c)
        /\ UNCHANGED undefined

Spec == Init /\ [][Next]_vars

(* D-Bus answers every call, if only with an error when the other side has
   died or says nothing. *)
Answer(c) == /\ ~undefined
             /\ \E ok \in BOOLEAN : Reply(c, ok)
             /\ UNCHANGED undefined

Fairness == \A c \in Calls : WF_vars(Answer(c))

FairSpec == Spec /\ Fairness

-----------------------------------------------------------------------------
(* Properties. *)

(* Every variable stays within its type; in particular no reference is
   returned twice. *)
TypeOK ==
  /\ task \in [Tasks -> TaskType]
  /\ call \in [Calls -> CallType]
  /\ busy \in Nat
  /\ undefined \in BOOLEAN

(* The handler is busy for exactly the calls that are not answered: it
   reports that it is done when the last one is, cancelled ones included
   (mms_handler_busy_update). *)
BusyCountsCalls == busy = Cardinality(Sent)

(* A task waits if and only if a call will call it back, and it is this call
   that it would cancel. *)
CallsBack(c, t) == c \in Sent /\ call[c].cb /\ call[c].task = t

PendingIsAnswered ==
  \A t \in Tasks :
     /\ task[t].state = "PENDING" => CallsBack(task[t].call, t)
     /\ \A c \in Calls :
          CallsBack(c, t) => task[t].state = "PENDING" /\ task[t].call = c

(* A task has one reference from the queue, one from the call that will call
   it back and one from its wakeup: it lives as long as somebody can reach it
   and no longer. *)
RefsBalanced ==
  \A t \in Tasks :
     task[t].refs = Cardinality({c \in Calls : CallsBack(c, t)})
                    + (IF task[t].queued THEN 1 ELSE 0)
                    + (IF task[t].state = "SLEEP" THEN 1 ELSE 0)

(* A task that is done stays done: an answer that comes after it was
   cancelled does not bring it back. *)
DoneIsFinal ==
  [][\A t \in Tasks : task[t].state = "DONE" => task'[t].state = "DONE"]_vars

(* A task that waits for the handler does not wait for ever. *)
PendingEnds ==
  \A t \in Tasks :
     task[t].state = "PENDING" ~> task[t].state # "PENDING" \/ undefined

(* GASSERT(!ind->notify) and GASSERT(!pub->call): a task that is run has no
   call (mms_task_notification.c:167, mms_task_publish.c:63). *)
RunsWithoutCall ==
  \A t \in Tasks : task[t].state = "READY" => task[t].call = NoCall
=============================================================================
