------------------------------- MODULE Engine -------------------------------
(***************************************************************************)
(* The engine (mms-engine/mms_engine.c) around the dispatcher: its D-Bus   *)
(* methods, its inactivity timer and the way it stops the main loop.       *)
(*                                                                         *)
(* Every callback of the dispatcher is a step of the composed system, with *)
(* what the engine does when the dispatcher reports that it is done.       *)
(***************************************************************************)
EXTENDS Dispatcher

CONSTANTS KeepRunning,  \* engine->keep_running (--keep-running)
          MaxCalls      \* bound: how many D-Bus calls and signals come in

ASSUME EngineAssumption == KeepRunning \in BOOLEAN /\ MaxCalls \in Nat

VARIABLES engineTimer,    \* engine->idle_timer_id
          stopScheduled,  \* mms_engine_stop_callback is on its way
          stopRequested,  \* engine->stop_requested
          running,        \* the main loop has not been quit
          calls           \* calls and signals received so far

engineVars == <<engineTimer, stopScheduled, stopRequested, running, calls>>
allVars == <<vars, engineVars>>

-----------------------------------------------------------------------------
(* mms_engine_idle_timer_check: what becomes of the timer *)
IdleTimerCheck == ~started' /\ ~KeepRunning

(* The dispatcher calls its delegate when it is done. *)
DoneReported == started /\ ~started'

(* Seeded fault: the report does not start the inactivity timer. *)
DoneWithoutTimer ==
  /\ stopScheduled' = (stopScheduled \/ (DoneReported /\ stopRequested))
  /\ UNCHANGED engineTimer

(* mms_engine_delegate_dispatcher_done, when it is called *)
DispatcherDone ==
  /\ engineTimer' = IF DoneReported /\ ~stopRequested THEN IdleTimerCheck
                    ELSE engineTimer
  /\ stopScheduled' = (stopScheduled \/ (DoneReported /\ stopRequested))

(* A callback of the dispatcher and what it tells the engine *)
WithDispatcher(A) ==
  /\ running
  /\ A
  /\ DispatcherDone
  /\ UNCHANGED <<stopRequested, running, calls>>

-----------------------------------------------------------------------------
(* D-Bus methods. *)

Call == running /\ calls < MaxCalls /\ calls' = calls + 1

(* sendMessage, receiveMessage, sendReadReport, pushNotify, push *)
EngineRequest(t) ==
  /\ Call
  /\ Request(t)
  /\ engineTimer' = IdleTimerCheck
  /\ UNCHANGED <<stopScheduled, stopRequested, running>>

(* cancel.  The dispatcher may report that it is done before the method
   returns. *)
EngineCancel ==
  /\ Call
  /\ CancelAll \/ \E m \in {Msg[t] : t \in Tasks} : CancelMessage(m)
  /\ stopScheduled' = (stopScheduled \/ (DoneReported /\ stopRequested))
  /\ engineTimer' = IdleTimerCheck
  /\ UNCHANGED <<stopRequested, running>>

(* Any other method, or one that is refused *)
OtherCall ==
  /\ Call
  /\ phase = "OFF"
  /\ UNCHANGED vars
  /\ engineTimer' = IdleTimerCheck
  /\ UNCHANGED <<stopScheduled, stopRequested, running>>

(* mms_engine_stop, by the exit method or a signal *)
EngineStop ==
  /\ Call
  /\ phase = "OFF"
  /\ \/ /\ IsActive
        /\ stopRequested' = TRUE
        /\ CancelAll
        /\ stopScheduled' = (stopScheduled \/ DoneReported)
     \/ /\ ~IsActive
        /\ stopScheduled' = TRUE
        /\ UNCHANGED <<vars, stopRequested>>
  /\ UNCHANGED <<engineTimer, running>>

-----------------------------------------------------------------------------
(* mms_engine_idle_timer_expired *)
EngineIdle ==
  /\ running
  /\ phase = "OFF"
  /\ engineTimer
  /\ engineTimer' = FALSE
  /\ stopScheduled' = TRUE
  /\ UNCHANGED <<vars, stopRequested, running, calls>>

(* mms_engine_stop_callback, an idle source: a scheduled run of the
   dispatcher has priority. *)
StopCallback ==
  /\ running
  /\ phase = "OFF"
  /\ ~nextRun
  /\ stopScheduled
  /\ stopScheduled' = FALSE
  /\ running' = FALSE
  /\ UNCHANGED <<vars, engineTimer, stopRequested, calls>>

-----------------------------------------------------------------------------
(* mms_engine_run with an empty queue *)
EngineInit ==
  /\ Init
  /\ engineTimer = ~KeepRunning
  /\ stopScheduled = FALSE
  /\ stopRequested = FALSE
  /\ running = TRUE
  /\ calls = 0

EngineNext ==
  \/ WithDispatcher(NextRun)
  \/ WithDispatcher(LoopStep)
  \/ WithDispatcher(Network)
  \/ WithDispatcher(HandlerDone)
  \/ \E t \in Tasks : WithDispatcher(TaskEvent(t))
  \/ \E t \in Tasks : EngineRequest(t)
  \/ EngineCancel
  \/ OtherCall
  \/ EngineStop
  \/ EngineIdle
  \/ StopCallback

EngineSpec == EngineInit /\ [][EngineNext]_allVars

(***************************************************************************)
(* Fairness: what is fair in the dispatcher; besides, timers that are not  *)
(* stopped expire, the calls to the handler and to the connection manager  *)
(* that nobody waits for are answered, and the idle source of the main     *)
(* loop gets its turn.                                                     *)
(***************************************************************************)
EngineFairness ==
  /\ WF_allVars(WithDispatcher(NextRun))
  /\ WF_allVars(WithDispatcher(LoopStep))
  /\ WF_allVars(WithDispatcher(ConnResolved))
  /\ WF_allVars(WithDispatcher(ConnClosed))
  /\ WF_allVars(WithDispatcher(NetworkIdle))
  /\ WF_allVars(WithDispatcher(ConnmanDone))
  /\ WF_allVars(WithDispatcher(HandlerDone))
  /\ \A t \in Tasks : /\ WF_allVars(WithDispatcher(HttpFinish(t)))
                      /\ WF_allVars(WithDispatcher(HandlerReply(t)))
                      /\ WF_allVars(WithDispatcher(JobDone(t)))
                      /\ WF_allVars(WithDispatcher(Wakeup(t)))
                      /\ WF_allVars(WithDispatcher(Expire(t)))
  /\ WF_allVars(EngineIdle)
  /\ WF_allVars(StopCallback)

FairEngineSpec == EngineSpec /\ EngineFairness

-----------------------------------------------------------------------------
(* Properties. *)

(* The engine's inactivity timer does not tick while the dispatcher works: it
   looks at whether the dispatcher has been started, at each method and at the
   dispatcher's report only, and still there is then no task, no connection
   and nothing that the connection manager is busy with, nor will there be
   before the next request (mms_engine_idle_timer_check, mms_dispatcher.c:74-89).
   What may go on is a call to the handler, see TimerSparesCalls. *)
TimerSparesWork == engineTimer => Live = {} /\ ~ConnExists /\ ~connmanBusy

(* With no more calls coming in, an engine that is not kept running quits:
   after the last task, the connection and the pending calls. *)
EngineExits == <>~running

(* "While busy flags is on, mms-engine shouldn't exit": the main loop is
   not quit while the connection manager or the handler is busy. *)
NoExitWhileBusy == ~running => ~connmanBusy /\ ~handlerBusy

(* Nor does the timer tick while the handler has a call to answer. *)
TimerSparesCalls == engineTimer => ~handlerBusy

(* A stop that was put off until the dispatcher's report takes place: there
   will be one. *)
StopTakesPlace == running /\ stopRequested => started \/ stopScheduled
=============================================================================
