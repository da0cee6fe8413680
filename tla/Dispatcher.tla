----------------------------- MODULE Dispatcher -----------------------------
(***************************************************************************)
(* The MMS dispatcher (mms-lib/src/mms_dispatcher.c) with the life cycle   *)
(* of its tasks (mms_task.c and the task classes) and the events that the  *)
(* network, the message handler and the user send it.                      *)
(*                                                                         *)
(* Everything happens on one GLib main loop.  An action outside the task   *)
(* loop is one callback.  The task loop itself (mms_dispatcher_run) is a   *)
(* single callback too; it is cut into its iterations, and phase keeps     *)
(* every other callback out until it has ended.                            *)
(***************************************************************************)
EXTENDS TaskOrder, FiniteSets

CONSTANTS Tasks,      \* MMSTask objects that may exist
          Class,      \* Class[t]: the class of task t
          Msg,        \* Msg[t]: the message the task works for
          Imsi,       \* Imsi[t]: the SIM the task belongs to
          UserTasks,  \* tasks created with MMS_CONNECTION_TYPE_USER
          NoImsi,     \* the SIM of no connection
          MaxOrder    \* bound: no request once so many tasks were numbered

HttpClasses == {"retrieve", "ack", "notifyresp", "read", "send"}

Classes == HttpClasses \cup {"notification", "decode", "publish", "encode"}

(* MMS_TASK_PRIORITY_POST_PROCESS *)
PostClasses == {"decode", "ack", "publish"}

(* Tasks created by a D-Bus request to the engine. *)
RequestClasses == {"notification", "retrieve", "read", "encode"}

ASSUME ConstantsAssumption ==
  /\ IsFiniteSet(Tasks)
  /\ Class \in [Tasks -> Classes]
  /\ DOMAIN Msg = Tasks
  /\ DOMAIN Imsi = Tasks
  /\ \A t \in Tasks : Imsi[t] # NoImsi
  /\ UserTasks \subseteq {t \in Tasks : Class[t] = "retrieve"}
  /\ MaxOrder \in Nat

VARIABLES taskState,    \* task->state, "NONE" when there is no such object
          order,        \* task->order
          nextOrder,    \* mms_task_order
          expired,      \* tasks whose deadline has passed
          jobs,         \* encoding tasks with an active job (a thread)
          conn,         \* disp->connection: its SIM and state
          closing,      \* its mms_connection_close is being carried out
          nextRun,      \* disp->next_run_id
          idleTimer,    \* disp->network_idle_id
          phase,        \* where mms_dispatcher_run is
          started,      \* disp->started
          handlerBusy,  \* mms_handler_busy
          connmanBusy   \* mms_connman_busy

taskVars == <<taskState, order, nextOrder, expired, jobs>>
connVars == <<conn, closing, idleTimer>>
vars == <<taskState, order, nextOrder, expired, jobs, conn, closing, idleTimer,
          nextRun, phase, started, handlerBusy, connmanBusy>>

-----------------------------------------------------------------------------
(* What the code reads off its state. *)

NoConn == [state |-> "NONE", imsi |-> NoImsi]

(* The queued tasks.  An encoding job keeps its task object alive when the
   task has left the queue. *)
Live == {t \in Tasks : taskState[t] # "NONE"}

Free == Tasks \ (Live \cup jobs)

(* What mms_dispatcher_sort_cb sees of a task. *)
View(t) == [state |-> taskState[t], imsi  |-> Imsi[t],
            order |-> order[t],     post  |-> Class[t] \in PostClasses]

HeadTasks == Heads(Live, [t \in Live |-> View(t)], conn)

(* The values of disp->connection: a connection belongs to the SIM of the
   task it was requested for. *)
Connections ==
  {NoConn} \cup [state : {"OPENING", "OPEN"}, imsi : {Imsi[t] : t \in Tasks}]

ConnExists == conn.state # "NONE"

ConnIsFor(t) == conn.imsi = Imsi[t]

ConnOpenFor(t) == conn.state = "OPEN" /\ ConnIsFor(t)

(* Seeded fault: a task that is transmitting does not count. *)
OnlyNeedsNetwork(t) == taskState[t] \in NeedStates

(* The queued tasks that keep the network connection in use. *)
UsesNetwork(t) == taskState[t] \in NeedStates \cup {"TRANSMITTING"}

ConnInUse == \E t \in Tasks : UsesNetwork(t)

(* Seeded fault: the connection does not count. *)
IsBusy == handlerBusy \/ connmanBusy \/ Live # {}

(* mms_dispatcher_is_active.  FAILED and CLOSED connections are dropped in
   the callback that reports them. *)
IsActive == ConnExists \/ handlerBusy \/ connmanBusy \/ Live # {}

(* mms_task_sleep and mms_task_set_state(SLEEP): only before the deadline. *)
RetryState(t) == IF t \in expired THEN "DONE" ELSE "SLEEP"

-----------------------------------------------------------------------------
(* The task classes: what a step of a task makes of it, as pairs of its    *)
(* new state and the classes of the tasks it puts in the queue.            *)

(* A failure that is retried until the deadline. *)
RetryResult(t) == <<RetryState(t), {}>>

(* A notification that cannot be handed over is rejected in the end. *)
NotifyFailed(t) ==
  <<RetryState(t), IF t \in expired THEN {"notifyresp"} ELSE {}>>

(* fn_run of each class *)
RunResults(t) ==
  CASE Class[t] \in HttpClasses ->
         {<<IF t \in UserTasks THEN "NEED_USER_CONNECTION"
                               ELSE "NEED_CONNECTION", {}>>}
    [] Class[t] = "notification" ->
         {<<"PENDING", {}>>, <<"DONE", {}>>, NotifyFailed(t)}
    [] Class[t] = "decode" ->
         {<<"DONE", {"ack", "publish"}>>, <<"DONE", {"publish"}>>,
          <<"DONE", {}>>, <<"DONE", {"notifyresp"}>>}
    [] Class[t] = "publish" -> {<<"PENDING", {}>>, RetryResult(t)}
    [] Class[t] = "encode"  -> {<<"WORKING", {}>>, RetryResult(t)}

(* The handler's answer to a call a task is waiting for *)
ReplyResults(t) ==
  CASE Class[t] = "notification" ->
         {<<"DONE", {"retrieve"}>>, <<"DONE", {}>>, NotifyFailed(t)}
    [] OTHER -> {<<"DONE", {}>>, RetryResult(t)}

(* The end of an HTTP transaction *)
FinishResults(t) ==
  {<<"DONE", {}>>, RetryResult(t)}
    \cup (IF Class[t] = "retrieve" THEN {<<"DONE", {"decode"}>>} ELSE {})

(* The end of an encoding job *)
JobResults(t) == {<<"DONE", {"send"}>>, <<"DONE", {}>>}

(* The objects that may become the tasks of these classes that t queues.
   A follow-up task has the id of its parent, and only the user asks for a
   connection of the user's. *)
NewTasks(t, classes) ==
  {new \in SUBSET (Free \ UserTasks) :
     /\ {Class[u] : u \in new} = classes
     /\ \A u \in new : Msg[u] = Msg[t]
     /\ \A u, v \in new : Class[u] = Class[v] => u = v}

(* A decoded message's ack is created before its publish. *)
CreationRank(u, new) ==
  IF Class[u] = "publish" /\ \E v \in new : Class[v] = "ack" THEN 1 ELSE 0

(* From the given states task t goes to state s and the tasks new are
   queued.  "NONE" takes t out of the queue; the numbering starts afresh when
   the last object is gone (mms_task_finalize). *)
Update(states, t, s, new) ==
  /\ taskState' = [u \in Tasks |-> IF u \in new THEN "READY"
                                   ELSE IF u = t THEN s ELSE states[u]]
  /\ order' = [u \in Tasks |->
                 IF u \in new THEN nextOrder + CreationRank(u, new)
                 ELSE IF u = t /\ s = "NONE" THEN 0 ELSE order[u]]
  /\ nextOrder' = IF Live' \cup jobs' = {} THEN 0
                  ELSE nextOrder + Cardinality(new)
  /\ expired' = IF s = "NONE" THEN expired \ {t} ELSE expired

Become(t, s, new) == Update(taskState, t, s, new)

(* The end of an iteration of the loop: a task that is DONE leaves the queue
   for good, any other goes back to it. *)
Requeued(s) == IF s = "DONE" THEN "NONE" ELSE s

-----------------------------------------------------------------------------
(* Operations the callbacks are made of. *)

(* mms_dispatcher_check_if_done, called with the run scheduled or not *)
CheckIfDone(scheduled) ==
  /\ nextRun' = (scheduled /\ IsActive')
  /\ started' = (started /\ IsActive')

(* A callback that made calls to the handler, or none *)
MayCallHandler == handlerBusy' \in {handlerBusy, TRUE}

MayCallConnman == connmanBusy' \in {connmanBusy, TRUE}

(* Seeded fault: a task that is transmitting is not told. *)
WithoutNetworkWaiting ==
  [t \in Tasks |-> IF taskState[t] \in NeedStates /\ ConnIsFor(t)
                   THEN RetryState(t) ELSE taskState[t]]

(* The tasks that lose the network with the connection go to sleep, or are
   cancelled by mms_task_set_state when there is no time left. *)
WithoutNetwork ==
  [t \in Tasks |-> IF UsesNetwork(t) /\ ConnIsFor(t) THEN RetryState(t)
                   ELSE taskState[t]]

(* mms_dispatcher_drop_connection *)
DropConnection ==
  /\ conn' = NoConn
  /\ closing' = FALSE
  /\ idleTimer' = FALSE

(* mms_dispatcher_connection_state_changed with a FAILED or CLOSED
   connection, up to mms_dispatcher_check_if_done. *)
LoseConnection ==
  /\ ConnExists
  /\ taskState' = WithoutNetwork
  /\ DropConnection
  /\ MayCallHandler
  /\ MayCallConnman
  /\ UNCHANGED <<order, nextOrder, expired, jobs, phase>>

(* mms_dispatcher_close_connection when the connection takes its time: the
   request is made, the connection stays for now and keeps the dispatcher
   active. *)
CloseLater ==
  /\ ConnExists
  /\ closing' = TRUE
  /\ UNCHANGED conn

-----------------------------------------------------------------------------
(* The task loop, mms_dispatcher_run. *)

(* mms_dispatcher_next_run *)
NextRun ==
  /\ phase = "OFF"
  /\ nextRun
  /\ nextRun' = FALSE
  /\ phase' = "LOOP"
  /\ UNCHANGED <<taskVars, connVars, started, handlerBusy, connmanBusy>>

(* mms_dispatcher_pick_next_task has sorted the queue and t is its head. *)
Picked(t) == phase = "LOOP" /\ t \in HeadTasks

NeedHead(t) == taskState[t] \in NeedStates /\ Picked(t)

(* mms_task_run.  A waiting task has made a call to the handler, a working
   one has started its job. *)
RunReady(t) ==
  /\ taskState[t] = "READY"
  /\ Picked(t)
  /\ \E r \in RunResults(t) :
       /\ IF r[1] = "PENDING" THEN handlerBusy' = TRUE ELSE MayCallHandler
       /\ jobs' = IF r[1] = "WORKING" THEN jobs \cup {t} ELSE jobs
       /\ \E new \in NewTasks(t, r[2]) : Become(t, Requeued(r[1]), new)
  /\ UNCHANGED <<connVars, nextRun, phase, started, connmanBusy>>

(* A task that is DONE is taken out of the queue. *)
FreeDone(t) ==
  /\ taskState[t] = "DONE"
  /\ Picked(t)
  /\ UNCHANGED jobs
  /\ Become(t, "NONE", {})
  /\ UNCHANGED <<connVars, nextRun, phase, started, handlerBusy, connmanBusy>>

(* mms_task_transmit starts the HTTP transaction, or the task fails. *)
TransmitResults == {"TRANSMITTING", "DONE"}

Transmit(t) ==
  /\ NeedHead(t)
  /\ ConnOpenFor(t)
  /\ UNCHANGED jobs
  /\ \E s \in TransmitResults : Become(t, Requeued(s), {})
  /\ MayCallHandler
  /\ UNCHANGED <<connVars, nextRun, phase, started, connmanBusy>>

(* The right connection is still being opened. *)
AwaitOpen(t) ==
  /\ NeedHead(t)
  /\ ConnExists
  /\ ConnIsFor(t)
  /\ ~ConnOpenFor(t)
  /\ phase' = "END"
  /\ UNCHANGED <<taskVars, connVars, nextRun, started, handlerBusy,
                 connmanBusy>>

(* The wrong connection is asked to close. *)
AwaitClose(t) ==
  /\ NeedHead(t)
  /\ ConnExists
  /\ ~ConnIsFor(t)
  /\ CloseLater
  /\ phase' = "END"
  /\ UNCHANGED <<taskVars, idleTimer, nextRun, started, handlerBusy,
                 connmanBusy>>

(* There is no connection, or the wrong one goes away at once and the tasks
   that used it with it.  A new one is requested: it is opening, or open
   already, or the SIM is not there and the task is cancelled. *)
OpenConnection(t) ==
  LET states == IF ConnExists THEN WithoutNetwork ELSE taskState
  IN  /\ NeedHead(t)
      /\ ConnExists => ~ConnIsFor(t)
      /\ UNCHANGED jobs
      /\ \/ /\ conn' = [state |-> "OPENING", imsi |-> Imsi[t]]
            /\ Update(states, t, taskState[t], {})
            /\ nextRun' = (nextRun \/ ConnExists)
            /\ phase' = "END"
         \/ /\ conn' = [state |-> "OPEN", imsi |-> Imsi[t]]
            /\ \E s \in TransmitResults : Update(states, t, Requeued(s), {})
            /\ nextRun' = (nextRun \/ ConnExists)
            /\ UNCHANGED phase
         \/ /\ conn' = NoConn
            /\ Update(states, t, "DONE", {})
            /\ nextRun' = TRUE
            /\ phase' = "END"
      /\ closing' = FALSE
      /\ idleTimer' = FALSE
      /\ MayCallHandler
      /\ MayCallConnman
      /\ UNCHANGED started

(* Nothing to do at this point. *)
PickNothing ==
  /\ phase = "LOOP"
  /\ \/ Live = {}
     \/ \E t \in HeadTasks :
           taskState[t] \in {"TRANSMITTING", "WORKING", "PENDING", "SLEEP"}
  /\ phase' = "END"
  /\ UNCHANGED <<taskVars, connVars, nextRun, started, handlerBusy,
                 connmanBusy>>

(* Seeded fault: the timeout waits for the queue to empty. *)
IdleWhenEmpty == ConnExists /\ Live = {}

(* The end of mms_dispatcher_run: whether the inactivity timeout ticks *)
IdleAfterRun == ConnExists /\ ~ConnInUse

(* The end of mms_dispatcher_run. *)
EndRun ==
  /\ phase = "END"
  /\ phase' = "OFF"
  /\ idleTimer' = IdleAfterRun
  /\ UNCHANGED <<taskVars, conn, closing, handlerBusy, connmanBusy>>
  /\ CheckIfDone(nextRun)

-----------------------------------------------------------------------------
(* The network. *)

(* mms_dispatcher_network_idle_run *)
NetworkIdle ==
  /\ phase = "OFF"
  /\ idleTimer
  /\ \/ /\ CloseLater
        /\ idleTimer' = FALSE
        /\ UNCHANGED <<taskVars, nextRun, phase, started, handlerBusy,
                       connmanBusy>>
     \/ /\ LoseConnection
        /\ CheckIfDone(TRUE)

(* mms_dispatcher_connection_state_changed *)
ConnOpened ==
  /\ phase = "OFF"
  /\ conn.state = "OPENING"
  /\ conn' = [conn EXCEPT !.state = "OPEN"]
  /\ nextRun' = TRUE
  /\ UNCHANGED <<taskVars, closing, idleTimer, phase, started, handlerBusy,
                 connmanBusy>>

(* The same when the connection has failed or closed: a run is scheduled
   even when the dispatcher is done. *)
ConnGone ==
  /\ phase = "OFF"
  /\ LoseConnection
  /\ started' = (started /\ IsActive')
  /\ nextRun' = TRUE

(* The HTTP transaction of a task ends (mms_task_http_finished). *)
HttpFinish(t) ==
  /\ phase = "OFF"
  /\ taskState[t] = "TRANSMITTING"
  /\ UNCHANGED jobs
  /\ \E r \in FinishResults(t), new \in SUBSET Free :
       new \in NewTasks(t, r[2]) /\ Become(t, r[1], new)
  /\ MayCallHandler
  /\ nextRun' = TRUE
  /\ UNCHANGED <<connVars, phase, started, connmanBusy>>

(* mms_connman_busy_dec reaches zero *)
ConnmanDone ==
  /\ phase = "OFF"
  /\ connmanBusy
  /\ connmanBusy' = FALSE
  /\ UNCHANGED <<taskVars, connVars, phase, handlerBusy>>
  /\ CheckIfDone(nextRun)

-----------------------------------------------------------------------------
(* The message handler, the encoding thread and the timers of the tasks. *)

Waiting == {t \in Tasks : taskState[t] = "PENDING"}

(* The answer to the call that task t is waiting for.  The last answer
   leaves the handler idle (mms_dispatcher_handler_done). *)
HandlerReply(t) ==
  /\ phase = "OFF"
  /\ taskState[t] = "PENDING"
  /\ UNCHANGED jobs
  /\ \E r \in ReplyResults(t), new \in SUBSET Free :
       new \in NewTasks(t, r[2]) /\ Become(t, r[1], new)
  /\ handlerBusy' \in IF Waiting = {t} THEN BOOLEAN ELSE {TRUE}
  /\ nextRun' = TRUE
  /\ UNCHANGED <<connVars, phase, started, connmanBusy>>

(* Seeded fault: the end of the last call goes unnoticed. *)
HandlerDoneUnnoticed ==
  /\ phase = "OFF"
  /\ handlerBusy
  /\ Waiting = {}
  /\ handlerBusy' = FALSE
  /\ UNCHANGED <<taskVars, connVars, phase, nextRun, started, connmanBusy>>

(* The last of the calls nobody waits for is answered. *)
HandlerDone ==
  /\ phase = "OFF"
  /\ handlerBusy
  /\ Waiting = {}
  /\ handlerBusy' = FALSE
  /\ nextRun' = TRUE
  /\ UNCHANGED <<taskVars, connVars, phase, started, connmanBusy>>

(* mms_task_encode_job_done.  The task may have been cancelled and may even
   have left the queue since; a message it queues then is lost. *)
JobDone(t) ==
  /\ phase = "OFF"
  /\ t \in jobs
  /\ jobs' = jobs \ {t}
  /\ \E r \in JobResults(t), new \in SUBSET Free :
       /\ new \in NewTasks(t, IF taskState[t] = "NONE" THEN {} ELSE r[2])
       /\ Become(t, IF taskState[t] = "NONE" THEN "NONE" ELSE r[1], new)
       /\ nextRun' = (nextRun \/ taskState[t] = "WORKING" \/ new # {})
  /\ MayCallHandler
  /\ UNCHANGED <<connVars, phase, started, connmanBusy>>

(* mms_task_wakeup_callback *)
Wakeup(t) ==
  /\ phase = "OFF"
  /\ taskState[t] = "SLEEP"
  /\ taskState' = [taskState EXCEPT ![t] = "READY"]
  /\ nextRun' = TRUE
  /\ UNCHANGED <<order, nextOrder, expired, jobs, connVars, phase, started,
                 handlerBusy, connmanBusy>>

(* The clock passes the deadline of task t. *)
Expire(t) ==
  /\ t \in Live \ expired
  /\ expired' = expired \cup {t}
  /\ UNCHANGED <<taskState, order, nextOrder, jobs, connVars, nextRun, phase,
                 started, handlerBusy, connmanBusy>>

-----------------------------------------------------------------------------
(* D-Bus requests. *)

(* A request queues a task and mms_dispatcher_start schedules a run. *)
Request(t) ==
  /\ phase = "OFF"
  /\ t \in Free
  /\ Class[t] \in RequestClasses
  /\ nextOrder < MaxOrder
  /\ taskState' = [taskState EXCEPT ![t] = "READY"]
  /\ order' = [order EXCEPT ![t] = nextOrder]
  /\ nextOrder' = nextOrder + 1
  /\ started' = TRUE
  /\ nextRun' = TRUE
  /\ UNCHANGED <<expired, jobs, connVars, phase, handlerBusy, connmanBusy>>

(* fn_cancel of every task in the set: whatever its state, it is DONE.  A
   call it was waiting for stays with the handler until it is answered. *)
CancelTasks(cancelled) ==
  taskState' = [t \in Tasks |-> IF t \in cancelled THEN "DONE"
                                ELSE taskState[t]]

(* Seeded fault: the cancellation of a sleeping task schedules no run. *)
AnyAwake(set) == \E t \in set : taskState[t] \notin {"DONE", "SLEEP"}

(* Whether their cancellation changes the state of any of these tasks *)
AnyUndone(set) == \E t \in set : taskState[t] # "DONE"

(* mms_dispatcher_cancel(id).  A notification has no id as long as nobody
   gave it one. *)
CancelMessage(m) ==
  LET matching == {t \in Live : Class[t] # "notification" /\ Msg[t] = m}
  IN  /\ phase = "OFF"
      /\ matching # {}
      /\ CancelTasks(matching)
      /\ nextRun' = (nextRun \/ AnyUndone(matching))
      /\ IF AnyUndone(matching) THEN MayCallHandler ELSE UNCHANGED handlerBusy
      /\ UNCHANGED <<order, nextOrder, expired, jobs, connVars, phase, started,
                     connmanBusy>>

(* mms_dispatcher_cancel(NULL): every task, and then the connection, which
   goes away later, or at once, or does not exist. *)
CancelAll ==
  /\ phase = "OFF"
  /\ CancelTasks(Live)
  /\ IF AnyUndone(Live) THEN MayCallHandler ELSE UNCHANGED handlerBusy
  /\ \/ /\ IF ConnExists THEN CloseLater ELSE UNCHANGED <<conn, closing>>
        /\ nextRun' = (nextRun \/ AnyUndone(Live))
        /\ UNCHANGED <<idleTimer, started, connmanBusy>>
     \/ /\ ConnExists
        /\ DropConnection
        /\ MayCallConnman
        /\ CheckIfDone(TRUE)
  /\ UNCHANGED <<order, nextOrder, expired, jobs, phase>>

-----------------------------------------------------------------------------
Init ==
  /\ taskState = [t \in Tasks |-> "NONE"]
  /\ order = [t \in Tasks |-> 0]
  /\ nextOrder = 0
  /\ expired = {}
  /\ jobs = {}
  /\ conn = NoConn
  /\ closing = FALSE
  /\ idleTimer = FALSE
  /\ nextRun = FALSE
  /\ phase = "OFF"
  /\ started = FALSE
  /\ handlerBusy = FALSE
  /\ connmanBusy = FALSE

(* One iteration of the task loop *)
LoopTask(t) ==
  \/ RunReady(t)
  \/ FreeDone(t)
  \/ Transmit(t)
  \/ AwaitOpen(t)
  \/ AwaitClose(t)
  \/ OpenConnection(t)

LoopStep == PickNothing \/ EndRun \/ \E t \in Tasks : LoopTask(t)

Network == NetworkIdle \/ ConnOpened \/ ConnGone \/ ConnmanDone

TaskEvent(t) ==
  \/ HttpFinish(t)
  \/ HandlerReply(t)
  \/ JobDone(t)
  \/ Wakeup(t)
  \/ Expire(t)

User ==
  \/ \E t \in Tasks : Request(t)
  \/ \E m \in {Msg[t] : t \in Tasks} : CancelMessage(m)
  \/ CancelAll

Next ==
  \/ NextRun
  \/ LoopStep
  \/ Network
  \/ HandlerDone
  \/ \E t \in Tasks : TaskEvent(t)
  \/ User

Spec == Init /\ [][Next]_vars

(***************************************************************************)
(* Fairness.  The main loop dispatches every source that stays ready, so a *)
(* scheduled run takes place and a run goes on to its end.  The rest is    *)
(* assumed of the world: a connection that is being opened or closed gets  *)
(* somewhere, an HTTP transaction, a call to the handler and an encoding   *)
(* job end, and the clock reaches wakeup times and deadlines.  Nobody has  *)
(* to make requests, and an open connection may stay open.                 *)
(***************************************************************************)
ConnResolved == conn.state = "OPENING" /\ (ConnOpened \/ ConnGone)

ConnClosed == closing /\ ConnGone

Fairness ==
  /\ WF_vars(NextRun)
  /\ WF_vars(LoopStep)
  /\ WF_vars(ConnResolved)
  /\ WF_vars(ConnClosed)
  /\ \A t \in Tasks : /\ WF_vars(HttpFinish(t))
                      /\ WF_vars(HandlerReply(t))
                      /\ WF_vars(JobDone(t))
                      /\ WF_vars(Wakeup(t))
                      /\ WF_vars(Expire(t))

FairSpec == Spec /\ Fairness

-----------------------------------------------------------------------------
(* Properties. *)

(* Every variable stays within its type. *)
TypeOK ==
  /\ taskState \in [Tasks -> LiveStates \cup {"NONE"}]
  /\ order \in [Tasks -> Nat]
  /\ nextOrder \in Nat
  /\ expired \subseteq Tasks
  /\ jobs \subseteq Tasks
  /\ conn \in Connections
  /\ phase \in {"OFF", "LOOP", "END"}
  /\ closing \in BOOLEAN /\ idleTimer \in BOOLEAN
  /\ nextRun \in BOOLEAN /\ started \in BOOLEAN
  /\ handlerBusy \in BOOLEAN /\ connmanBusy \in BOOLEAN

Quiescent == phase = "OFF" /\ ~nextRun

(* A task transmits only while the connection is open for its own SIM, and
   only one task does: wherever the loop, the network and cancellation leave
   the queue, the connection a transaction runs on is never taken over by a
   task of another SIM (mms_dispatcher_pick_next_task). *)
TransmitOnOpenConnection ==
  \A t \in Tasks : taskState[t] = "TRANSMITTING" =>
     /\ conn = [state |-> "OPEN", imsi |-> Imsi[t]]
     /\ \A u \in Tasks \ {t} : taskState[u] # "TRANSMITTING"

(* No wakeup is lost: when no run is scheduled, what comes out first in the
   queue is waiting for something that will schedule one.  It is not
   runnable, and if it needs the network then a connection is being opened
   for it, or the wrong one is being closed. *)
Waits(h) ==
  /\ taskState[h] \notin RunnableStates
  /\ taskState[h] \in NeedStates =>
       /\ ConnExists
       /\ ~ConnOpenFor(h)
       /\ ConnIsFor(h) \/ closing

NoLostWakeup ==
  Quiescent /\ Live # {} => \E h \in HeadTasks : Waits(h)

(* The delegate hears that the dispatcher is done: with nothing left to do
   and nothing scheduled, a started dispatcher has reported it
   (mms_dispatcher_check_if_done). *)
DoneIsReported == started /\ Quiescent => IsActive

(* The inactivity timeout never ticks while a task wants or uses the
   network... *)
IdleTimerSparesUsers ==
  phase = "OFF" /\ idleTimer =>
    /\ ConnExists
    /\ \A t \in Live : taskState[t] \notin NeedStates \cup {"TRANSMITTING"}

(* ...and a connection that nobody uses does not stay open forever: the
   timeout is ticking or the connection is being closed. *)
UnusedConnectionEnds ==
  /\ Quiescent
  /\ ConnExists
  /\ \A t \in Live : taskState[t] \notin NeedStates \cup {"TRANSMITTING"}
  => idleTimer \/ closing

(* The dispatcher does not interfere with a task that is transmitting: its
   loop leaves that task alone, and the connection is not asked to close
   under it. *)
TransmissionUndisturbed ==
  [][\A t \in Tasks : taskState[t] = "TRANSMITTING" =>
        /\ phase # "OFF" => taskState'[t] = "TRANSMITTING"
        /\ closing' /\ ~closing => taskState'[t] # "TRANSMITTING"]_vars

-----------------------------------------------------------------------------
(* What comments of the code say. *)

(* "Cancels al the activity associated with the specified message": a
   message is sent only for an encoding task that has not been cancelled. *)
OnlyLiveMessagesAreSent ==
  [][\A t \in Tasks :
        Class[t] = "send" /\ taskState[t] = "NONE" /\ taskState'[t] # "NONE"
        => \E u \in Tasks : /\ Msg[u] = Msg[t]
                            /\ Class[u] = "encode"
                            /\ taskState[u] = "WORKING"]_vars
=============================================================================
