--------------------------- MODULE HttpTaskProofs ---------------------------
(***************************************************************************)
(* Proofs about the HTTP task, for both kinds of libsoup session and any   *)
(* number of attempts: its invariants, and that it behaves the way the     *)
(* dispatcher's model assumes.                                             *)
(*                                                                         *)
(* The nested calls are taken apart by lemmas on the operations: each      *)
(* returns a sound task object, and says what state it leaves it in.       *)
(***************************************************************************)
EXTENDS HttpTask, TLAPS

(* What holds of the task object between any two of the nested calls: it is
   well typed, has a wakeup exactly when it sleeps, has reported its outcome
   exactly when it is done, and so has its transaction. *)
Sound(t) ==
  /\ t \in TaskType
  /\ t.wakeup <=> t.state = "SLEEP"
  /\ t.done = IF t.state \in {"DONE", "NONE"} THEN 1 ELSE 0
  /\ t.state # "NONE" => (t.http = "DONE" <=> t.state = "DONE")

(* The inductive invariant *)
HttpInv == TypeOK /\ Sound(task) /\ TransmitsOverItsSession

-----------------------------------------------------------------------------
(* The operations. *)

(* Some values of the fields of a task object *)
LEMMA Values ==
  /\ 0 \in 0..1 /\ 1 \in 0..1
  /\ "READY" \in HttpStates /\ "DONE" \in HttpStates
  /\ "READY" \in TaskStates /\ "TRANSMITTING" \in TaskStates
  /\ "DONE" \in TaskStates /\ "NONE" \in TaskStates
  BY DEF HttpStates, TaskStates

(* The transaction of the task t ends. *)
LEMMA HttpDone ==
  ASSUME NEW t \in TaskType, t.http # "DONE", t.done = 0
  PROVE  LET h == HttpState(t, "DONE")
         IN  /\ h \in TaskType
             /\ h.http = "DONE" /\ h.done = 1
             /\ h.state = t.state /\ h.wakeup = t.wakeup /\ h.tx = t.tx
<1>1. HttpState(t, "DONE") = [t EXCEPT !.http = "DONE", !.done = 1]
  BY DEF HttpState
<1>2. HttpState(t, "DONE") \in TaskType
  BY <1>1, Values DEF TaskType
<1> QED
  BY <1>1, <1>2 DEF TaskType

(* The transaction of the task t starts or stops for a while; nothing becomes
   of one that is done. *)
LEMMA HttpOther ==
  ASSUME NEW t \in TaskType, NEW new \in {"ACTIVE", "PAUSED"}
  PROVE  LET h == HttpState(t, new)
         IN  /\ h \in TaskType
             /\ h.http = "DONE" <=> t.http = "DONE"
             /\ h.state = t.state /\ h.wakeup = t.wakeup
             /\ h.tx = t.tx /\ h.done = t.done
<1>1. CASE t.http \in {new, "DONE"}
  BY <1>1 DEF HttpState
<1>2. CASE t.http \notin {new, "DONE"}
  <2>1. HttpState(t, new) = [t EXCEPT !.http = new, !.done = t.done]
    BY <1>2 DEF HttpState
  <2> QED
    BY <1>2, <2>1 DEF TaskType, HttpStates
<1> QED
  BY <1>1, <1>2

(* A retry leaves a task that is not done asleep, or done with its outcome
   reported. *)
LEMMA RetriedSound ==
  ASSUME NEW t, Sound(t), expired \in BOOLEAN, t.state \notin {"DONE", "NONE"}
  PROVE  /\ Sound(Retried(t))
         /\ Retried(t).state = IF expired THEN "DONE" ELSE "SLEEP"
         /\ Retried(t).tx = t.tx
<1> DEFINE s == Sleep(t)
<1>1. /\ s \in TaskType
      /\ s.state = IF expired THEN "DONE" ELSE "SLEEP"
      /\ s.wakeup = ~expired
      /\ s.http = t.http /\ s.tx = t.tx /\ s.done = t.done
  BY DEF Sound, Sleep, TaskType, TaskStates
<1>2. t.http # "DONE" /\ t.done = 0
  BY DEF Sound
<1> HIDE DEF s
<1>3. CASE expired
  <2>1. Retried(t) = HttpState(s, "DONE")
    BY <1>3 DEF Retried, s
  <2> QED
    BY <1>1, <1>2, <1>3, <2>1, HttpDone DEF Sound
<1>4. CASE ~expired
  <2>1. Retried(t) = HttpState(s, "PAUSED")
    BY <1>4 DEF Retried, s
  <2> QED
    BY <1>1, <1>2, <1>4, <2>1, HttpOther DEF Sound
<1> QED
  BY <1>3, <1>4

(* No transfer is in progress when there is none. *)
LEMMA NothingInProgress ==
  ASSUME TypeOK
  PROVE  NoTransfer \notin pending
  BY DEF TypeOK, NoTransfer

(* Finishing the transfer leaves a sound task without one.  Its state only
   changes when the session was in progress. *)
LEMMA FinishSound ==
  ASSUME HttpInv
  PROVE  /\ Sound(FinishTransfer(task))
         /\ FinishTransfer(task).tx = NoTransfer
         /\ \/ FinishTransfer(task).state = task.state
            \/ /\ task.state = "TRANSMITTING"
               /\ FinishTransfer(task).state =
                    IF expired THEN "DONE" ELSE "SLEEP"
<1>1. CASE asyncSession /\ InProgress(task)
  <2>1. task.state = "TRANSMITTING"
    BY <1>1 DEF HttpInv, TransmitsOverItsSession
  <2>2. /\ Sound(Retried(task))
        /\ Retried(task).state = IF expired THEN "DONE" ELSE "SLEEP"
    BY <2>1, RetriedSound DEF HttpInv, TypeOK
  <2>3. FinishTransfer(task) = [Retried(task) EXCEPT !.tx = NoTransfer]
    BY <1>1 DEF FinishTransfer
  <2> HIDE DEF Retried
  <2> QED
    BY <2>1, <2>2, <2>3, HttpAssumption
    DEF Sound, TaskType, NoTransfer, HttpAssumption
<1>2. CASE ~(asyncSession /\ InProgress(task))
  <2>1. FinishTransfer(task) = [task EXCEPT !.tx = NoTransfer]
    BY <1>2 DEF FinishTransfer
  <2> QED
    BY <2>1, HttpAssumption
    DEF HttpInv, Sound, TaskType, NoTransfer, HttpAssumption
<1> QED
  BY <1>1, <1>2

(* Finishing a transfer that does not exist changes nothing. *)
LEMMA FinishNothing ==
  ASSUME TypeOK, NEW t \in TaskType, t.tx = NoTransfer
  PROVE  FinishTransfer(t) = t
<1>1. FinishTransfer(t) = [t EXCEPT !.tx = NoTransfer]
  BY NothingInProgress DEF FinishTransfer, InProgress
<1> QED
  BY <1>1 DEF TaskType

(* Cancelling a task that exists, with or without a transfer, leaves it done
   and its outcome reported. *)
LEMMA CancelledSound ==
  ASSUME NEW t, NEW f, f = FinishTransfer(t), Sound(f), f.tx = NoTransfer,
         f.state # "NONE"
  PROVE  /\ Sound(Cancelled(t))
         /\ Cancelled(t).state = "DONE"
         /\ Cancelled(t).tx = NoTransfer
<1>1. Cancelled(t) = [HttpState(f, "DONE") EXCEPT !.state = "DONE",
                                                  !.wakeup = FALSE]
  BY DEF Cancelled
<1>2. /\ HttpState(f, "DONE") \in TaskType
      /\ HttpState(f, "DONE").http = "DONE"
      /\ HttpState(f, "DONE").done = 1
      /\ HttpState(f, "DONE").tx = NoTransfer
  <2>1. CASE f.http = "DONE"
    BY <2>1 DEF Sound, HttpState
  <2>2. CASE f.http # "DONE"
    BY <2>2, HttpDone DEF Sound
  <2> QED
    BY <2>1, <2>2
<1> HIDE DEF Cancelled
<1> QED
  BY <1>1, <1>2 DEF Sound, TaskType, TaskStates

(* Putting a task to sleep whose transfer is finished *)
LEMMA PutToSleepSound ==
  ASSUME TypeOK, NEW t, Sound(t), t.tx = NoTransfer, t.state # "NONE",
         t.state = "DONE" => expired
  PROVE  /\ Sound(PutToSleep(t))
         /\ PutToSleep(t).state \in {"SLEEP", "DONE"}
         /\ t.state # "SLEEP" =>
              PutToSleep(t).state = IF expired THEN "DONE" ELSE "SLEEP"
         /\ t.state = "SLEEP" => PutToSleep(t).state = "SLEEP"
         /\ PutToSleep(t).tx = NoTransfer
<1>1. CASE t.state = "SLEEP"
  BY <1>1 DEF PutToSleep
<1>2. CASE t.state # "SLEEP" /\ expired
  <2>1. FinishTransfer(t) = t
    BY FinishNothing DEF Sound
  <2>2. PutToSleep(t) = Cancelled(t)
    BY <1>2 DEF PutToSleep
  <2> QED
    BY <1>2, <2>1, <2>2, CancelledSound
<1>3. CASE t.state # "SLEEP" /\ ~expired
  <2>1. PutToSleep(t) = [t EXCEPT !.state = "SLEEP", !.wakeup = TRUE]
    BY <1>3 DEF PutToSleep
  <2> HIDE DEF PutToSleep
  <2> QED
    BY <1>3, <2>1 DEF Sound, TaskType, TaskStates
<1> QED
  BY <1>1, <1>2, <1>3

(* A task that loses its network goes to sleep, or is done when there is no
   time left. *)
LEMMA LostSound ==
  ASSUME HttpInv, NeedsNetwork \/ task.state = "TRANSMITTING",
         NEW t, Sound(t), t.tx = NoTransfer,
         t.state = FinishTransfer(task).state
  PROVE  /\ Sound(PutToSleep(t))
         /\ PutToSleep(t).state = IF expired THEN "DONE" ELSE "SLEEP"
         /\ PutToSleep(t).tx = NoTransfer
<1>1. \/ t.state = task.state
      \/ t.state = IF expired THEN "DONE" ELSE "SLEEP"
  BY FinishSound
<1>2. t.state # "NONE" /\ (t.state = "DONE" => expired)
  BY <1>1 DEF NeedsNetwork
<1>3. t.state = "SLEEP" => ~expired
  BY <1>1 DEF NeedsNetwork
<1> QED
  BY <1>2, <1>3, PutToSleepSound DEF HttpInv

(* Unless it is "DONE", the transaction's state may become anything that
   does not end it. *)
LEMMA HttpStateSound ==
  ASSUME NEW t, Sound(t), NEW new \in {"ACTIVE", "PAUSED"}
  PROVE  /\ Sound(HttpState(t, new))
         /\ HttpState(t, new).state = t.state
         /\ HttpState(t, new).tx = t.tx
  BY HttpOther DEF Sound

-----------------------------------------------------------------------------
(* The steps. *)

(* A step that leaves the task without a transfer, not transmitting and with
   only old sessions pending preserves what is said of sessions. *)
LEMMA NoTransferLeft ==
  ASSUME HttpInv, UNCHANGED <<expired, sessions, asyncSession>>,
         Sound(task'), task'.tx = NoTransfer, task'.state # "TRANSMITTING",
         pending' \subseteq pending
  PROVE  HttpInv'
<1>1. NoTransfer \notin pending'
  BY NothingInProgress DEF HttpInv
<1> QED
  BY <1>1 DEF HttpInv, TypeOK, Sound, TransmitsOverItsSession, InProgress

LEMMA PendingShrinks == PendingAfter(task) \subseteq pending
  BY DEF PendingAfter

(* A step that starts a transfer and one that fails to *)
LEMMA TransmitInv ==
  ASSUME HttpInv, Transmit
  PROVE  HttpInv'
<1> DEFINE f == FinishTransfer(task)
           h == HttpState(f, "ACTIVE")
<1>1. Sound(f) /\ f.state = task.state
  BY FinishSound DEF Transmit, NeedsNetwork
<1>2. Sound(h) /\ h.state = task.state
  BY <1>1, HttpStateSound
<1>3. sessions' = sessions + 1 /\ sessions' \in 1..MaxSessions
  BY HttpAssumption DEF Transmit, HttpInv, TypeOK, HttpAssumption
<1>4. task' = [h EXCEPT !.tx = sessions', !.state = "TRANSMITTING"]
  BY DEF Transmit
<1> HIDE DEF h
<1>5. /\ task' \in TaskType
      /\ task'.tx = sessions'
      /\ task'.state = "TRANSMITTING"
      /\ task'.wakeup = h.wakeup
      /\ task'.done = h.done
      /\ task'.http = h.http
  <2>1. sessions' \in 0..MaxSessions
    BY <1>3
  <2>2. task' \in TaskType
    BY <1>2, <1>4, <2>1, Values DEF Sound, TaskType
  <2> QED
    BY <1>2, <1>4, <2>2 DEF Sound, TaskType
<1>6. Sound(task')
  BY <1>2, <1>5 DEF Sound, Transmit, NeedsNetwork
<1>7. pending' \subseteq 1..sessions' /\ sessions' \in pending'
  BY <1>3, PendingShrinks DEF Transmit, HttpInv, TypeOK
<1> QED
  BY <1>3, <1>5, <1>6, <1>7
  DEF HttpInv, TypeOK, Sound, TransmitsOverItsSession, InProgress, Transmit

LEMMA TransmitFailedInv ==
  ASSUME HttpInv, TransmitFailed
  PROVE  HttpInv'
<1> DEFINE f == FinishTransfer(task)
<1>1. Sound(f) /\ f.state = task.state /\ f.tx = NoTransfer
  BY FinishSound DEF TransmitFailed, NeedsNetwork
<1>2. task' = [f EXCEPT !.done = @ + 1, !.state = "NONE"]
  BY DEF TransmitFailed
<1> HIDE DEF f
<1>3. f \in TaskType /\ f.done = 0 /\ ~f.wakeup
  BY <1>1 DEF Sound, TransmitFailed, NeedsNetwork
<1>4. task' = [f EXCEPT !.done = 1, !.state = "NONE"]
  BY <1>2, <1>3
<1>5. task' \in TaskType
  BY <1>3, <1>4, Values DEF TaskType
<1>6. Sound(task') /\ task'.tx = NoTransfer /\ task'.state = "NONE"
  BY <1>1, <1>3, <1>4, <1>5 DEF Sound, TaskType
<1> QED
  BY <1>6, PendingShrinks, NoTransferLeft DEF TransmitFailed

LEMMA NetworkLostInv ==
  ASSUME HttpInv, NetworkLost
  PROVE  HttpInv' /\ task'.state = IF expired THEN "DONE" ELSE "SLEEP"
<1>1. Sound(FinishTransfer(task)) /\ FinishTransfer(task).tx = NoTransfer
  BY FinishSound
<1>2. /\ Sound(task')
      /\ task'.state = IF expired THEN "DONE" ELSE "SLEEP"
      /\ task'.tx = NoTransfer
  BY <1>1, LostSound DEF NetworkLost
<1> QED
  BY <1>2, PendingShrinks, NoTransferLeft DEF NetworkLost

LEMMA WriteErrorInv ==
  ASSUME HttpInv, WriteError
  PROVE  HttpInv' /\ task'.state = IF expired THEN "DONE" ELSE "SLEEP"
<1> DEFINE f == FinishTransfer(task)
           h == HttpState(f, "PAUSED")
<1>1. Sound(f) /\ f.tx = NoTransfer
  BY FinishSound
<1>2. Sound(h) /\ h.tx = NoTransfer /\ h.state = f.state
  BY <1>1, HttpStateSound
<1>3. task.state = "TRANSMITTING"
  BY DEF WriteError, HttpInv, TransmitsOverItsSession
<1>4. /\ Sound(task')
      /\ task'.state = IF expired THEN "DONE" ELSE "SLEEP"
      /\ task'.tx = NoTransfer
  BY <1>2, <1>3, LostSound DEF WriteError
<1> QED
  BY <1>4, PendingShrinks, NoTransferLeft DEF WriteError

LEMMA CancelInv ==
  ASSUME HttpInv, Cancel
  PROVE  HttpInv' /\ task'.state = "DONE"
<1>1. /\ Sound(FinishTransfer(task))
      /\ FinishTransfer(task).tx = NoTransfer
      /\ FinishTransfer(task).state # "NONE"
  BY FinishSound DEF Cancel
<1>2. Sound(task') /\ task'.state = "DONE" /\ task'.tx = NoTransfer
  BY <1>1, CancelledSound DEF Cancel
<1> QED
  BY <1>2, PendingShrinks, NoTransferLeft DEF Cancel

LEMMA FreeInv ==
  ASSUME HttpInv, Free
  PROVE  HttpInv' /\ task'.state = "NONE"
<1> DEFINE f == FinishTransfer(task)
<1>1. Sound(f) /\ f.tx = NoTransfer /\ f.state = "DONE"
  BY FinishSound DEF Free
<1>2. task' = [f EXCEPT !.state = "NONE"]
  BY DEF Free
<1> HIDE DEF f
<1>3. Sound(task') /\ task'.state = "NONE" /\ task'.tx = NoTransfer
  BY <1>1, <1>2 DEF Sound, TaskType, TaskStates
<1> QED
  BY <1>3, PendingShrinks, NoTransferLeft DEF Free

LEMMA FinishedInv ==
  ASSUME HttpInv, NEW s \in pending, Finished(s)
  PROVE  /\ HttpInv'
         /\ \/ task' = task
            \/ /\ task.state = "TRANSMITTING"
               /\ task'.state = "DONE" \/
                  task'.state = IF expired THEN "DONE" ELSE "SLEEP"
<1>1. CASE task.tx # s
  BY <1>1 DEF Finished, HttpInv, TypeOK, Sound, TransmitsOverItsSession,
              InProgress
<1>2. CASE task.tx = s
  <2>1. task.state = "TRANSMITTING"
    BY <1>2 DEF HttpInv, TransmitsOverItsSession, InProgress
  <2>2. CASE task' = HttpState([task EXCEPT !.state = "DONE"], "DONE")
    <3> DEFINE t == [task EXCEPT !.state = "DONE"]
    <3>2. t \in TaskType
      BY Values DEF HttpInv, Sound, TaskType
    <3>3. /\ t.state = "DONE" /\ t.http # "DONE" /\ t.done = 0
          /\ ~t.wakeup /\ t.tx = s
      BY <1>2, <2>1 DEF HttpInv, Sound, TaskType
    <3> HIDE DEF t
    <3>1. Sound(task') /\ task'.state = "DONE" /\ task'.tx = s
      BY <2>2, <3>2, <3>3, HttpDone DEF Sound, t
    <3> QED
      BY <2>1, <3>1
      DEF Finished, HttpInv, TypeOK, Sound, TransmitsOverItsSession,
          InProgress
  <2>3. CASE task' = Retried(task)
    <3>1. /\ Sound(task')
          /\ task'.state = IF expired THEN "DONE" ELSE "SLEEP"
          /\ task'.tx = s
      BY <1>2, <2>1, <2>3, RetriedSound DEF HttpInv, TypeOK
    <3> QED
      BY <2>1, <3>1
      DEF Finished, HttpInv, TypeOK, Sound, TransmitsOverItsSession,
          InProgress
  <2> QED
    BY <1>2, <2>2, <2>3 DEF Finished
<1> QED
  BY <1>1, <1>2

LEMMA TimerInv ==
  ASSUME HttpInv, Run \/ Wakeup \/ Expire
  PROVE  HttpInv'
<1>1. CASE Run
  BY <1>1 DEF Run, HttpInv, TypeOK, Sound, TransmitsOverItsSession,
              InProgress, TaskType, TaskStates
<1>2. CASE Wakeup
  BY <1>2 DEF Wakeup, HttpInv, TypeOK, Sound, TransmitsOverItsSession,
              InProgress, TaskType, TaskStates
<1>3. CASE Expire
  BY <1>3 DEF Expire, HttpInv, TypeOK, Sound, TransmitsOverItsSession,
              InProgress
<1> QED
  BY <1>1, <1>2, <1>3

-----------------------------------------------------------------------------
LEMMA InitInv == Init => HttpInv
<1> SUFFICES ASSUME Init
             PROVE  HttpInv
  OBVIOUS
<1>1. NoTransfer \in 0..MaxSessions
  BY HttpAssumption DEF NoTransfer, HttpAssumption
<1>2. task \in TaskType
  BY <1>1, Values DEF Init, TaskType
<1> QED
  BY <1>1, <1>2
  DEF Init, HttpInv, TypeOK, Sound, TransmitsOverItsSession, InProgress,
      NoTransfer

LEMMA StepInv == HttpInv /\ [Next]_vars => HttpInv'
<1> SUFFICES ASSUME HttpInv, [Next]_vars
             PROVE  HttpInv'
  OBVIOUS
<1>1. CASE UNCHANGED vars
  BY <1>1 DEF vars, HttpInv, TypeOK, Sound, TransmitsOverItsSession,
              InProgress
<1> QED
  BY <1>1, TransmitInv, TransmitFailedInv, NetworkLostInv, WriteErrorInv,
     CancelInv, FreeInv, FinishedInv, TimerInv DEF Next

LEMMA Invariant == Spec => []HttpInv
  BY InitInv, StepInv, PTL DEF Spec

(* The type invariant holds for every number of attempts. *)
THEOREM TypeCorrect == Spec => []TypeOK
<1>1. HttpInv => TypeOK
  BY DEF HttpInv
<1> QED
  BY <1>1, Invariant, PTL

(* A wakeup is scheduled exactly while the task sleeps. *)
THEOREM WakeupOnlyAsleep == Spec => []WakeupIffSleeping
<1>1. HttpInv => WakeupIffSleeping
  BY DEF HttpInv, Sound, WakeupIffSleeping
<1> QED
  BY <1>1, Invariant, PTL

(* The outcome is reported when the task is done, and once only. *)
THEOREM OutcomeOnce == Spec => []OutcomeReportedOnce
<1>1. HttpInv => OutcomeReportedOnce
  BY DEF HttpInv, Sound, OutcomeReportedOnce
<1> QED
  BY <1>1, Invariant, PTL

(* The task transmits exactly while its own session is in progress. *)
THEOREM OwnSession == Spec => []TransmitsOverItsSession
<1>1. HttpInv => TransmitsOverItsSession
  BY DEF HttpInv
<1> QED
  BY <1>1, Invariant, PTL

-----------------------------------------------------------------------------
(* The transaction follows the transfer. *)

(* Where an aborted session completes at once, a transaction is ACTIVE only
   while the task transmits. *)
ActiveTransmits ==
  asyncSession /\ task.http = "ACTIVE" => task.state = "TRANSMITTING"

(* Pausing or ending a transaction leaves it inactive; so does a retry. *)
LEMMA PausedInactive ==
  ASSUME NEW t \in TaskType, NEW new \in {"PAUSED", "DONE"}
  PROVE  HttpState(t, new).http # "ACTIVE"
  BY DEF HttpState, TaskType

LEMMA RetriedInactive ==
  ASSUME NEW t \in TaskType, expired \in BOOLEAN
  PROVE  Retried(t).http # "ACTIVE"
<1>1. Sleep(t) \in TaskType
  BY DEF Sleep, TaskType, TaskStates
<1> QED
  BY <1>1, PausedInactive DEF Retried

(* Finishing the transfer leaves the transaction inactive: if the task
   transmits, the session completes and the transaction is paused. *)
LEMMA FinishInactive ==
  ASSUME HttpInv, ActiveTransmits, asyncSession
  PROVE  /\ FinishTransfer(task) \in TaskType
         /\ FinishTransfer(task).http # "ACTIVE"
<1>1. FinishTransfer(task) \in TaskType
  BY FinishSound DEF Sound
<1>2. CASE InProgress(task)
  <2>1. FinishTransfer(task) = [Retried(task) EXCEPT !.tx = NoTransfer]
    BY <1>2 DEF FinishTransfer
  <2>2. Retried(task) \in TaskType /\ Retried(task).http # "ACTIVE"
    BY <1>2, RetriedSound, RetriedInactive
    DEF HttpInv, TypeOK, Sound, TransmitsOverItsSession
  <2> HIDE DEF Retried
  <2> QED
    BY <1>1, <2>1, <2>2 DEF TaskType
<1>3. CASE ~InProgress(task)
  <2>1. FinishTransfer(task) = [task EXCEPT !.tx = NoTransfer]
    BY <1>3 DEF FinishTransfer
  <2>2. task \in TaskType /\ task.http # "ACTIVE"
    BY <1>3 DEF HttpInv, TypeOK, TransmitsOverItsSession, ActiveTransmits
  <2> QED
    BY <1>1, <2>1, <2>2 DEF TaskType
<1> QED
  BY <1>2, <1>3, <1>1

(* Cancelling ends the transaction, putting to sleep does not start it. *)
LEMMA CancelledInactive ==
  ASSUME NEW t, FinishTransfer(t) \in TaskType
  PROVE  Cancelled(t).http # "ACTIVE"
<1> DEFINE h == HttpState(FinishTransfer(t), "DONE")
<1>1. h.http # "ACTIVE"
  BY PausedInactive
<1>2. h \in [state : TaskStates, wakeup : BOOLEAN, http : HttpStates,
             tx : 0..MaxSessions, done : {h.done}]
  BY DEF HttpState, TaskType, HttpStates
<1>3. Cancelled(t) = [h EXCEPT !.state = "DONE", !.wakeup = FALSE]
  BY DEF Cancelled
<1> HIDE DEF h
<1> QED
  BY <1>1, <1>2, <1>3

LEMMA AsleepInactive ==
  ASSUME TypeOK, NEW t \in TaskType, t.http # "ACTIVE", t.tx = NoTransfer
  PROVE  PutToSleep(t).http # "ACTIVE"
<1>1. FinishTransfer(t) \in TaskType
  BY FinishNothing
<1>2. Cancelled(t).http # "ACTIVE"
  BY <1>1, CancelledInactive
<1>3. PutToSleep(t) \in {t, Cancelled(t),
                         [t EXCEPT !.state = "SLEEP", !.wakeup = TRUE]}
  BY DEF PutToSleep
<1> QED
  BY <1>2, <1>3 DEF TaskType

LEMMA ActiveStep ==
  HttpInv /\ ActiveTransmits /\ [Next]_vars => ActiveTransmits'
<1> SUFFICES ASSUME HttpInv, ActiveTransmits, [Next]_vars, asyncSession',
                    task'.http = "ACTIVE"
             PROVE  task'.state = "TRANSMITTING"
  BY DEF ActiveTransmits
<1>0. asyncSession
  BY DEF Next, vars, Run, Transmit, TransmitFailed, NetworkLost, Cancel, Free,
         Wakeup, Expire, Finished, WriteError
<1> DEFINE f == FinishTransfer(task)
<1>f. f \in TaskType /\ f.http # "ACTIVE" /\ f.tx = NoTransfer
  BY <1>0, FinishInactive, FinishSound
<1>t. TypeOK /\ task \in TaskType /\ expired \in BOOLEAN
  BY DEF HttpInv, TypeOK
<1>1. CASE Run
  BY <1>0, <1>1, <1>t DEF Run, TaskType, ActiveTransmits
<1>2. CASE Transmit
  <2>1. HttpState(f, "ACTIVE") \in TaskType
    BY HttpOther, <1>f
  <2> QED
    BY <1>2, <2>1 DEF Transmit, TaskType
<1>3. CASE TransmitFailed
  <2>1. task' = [f EXCEPT !.done = @ + 1, !.state = "NONE"]
    BY <1>3 DEF TransmitFailed
  <2> HIDE DEF f
  <2> QED
    BY <2>1, <1>f DEF TaskType
<1>4. CASE NetworkLost
  BY <1>4, <1>f, <1>t, AsleepInactive DEF NetworkLost
<1>5. CASE Cancel
  BY <1>5, <1>f, CancelledInactive DEF Cancel
<1>6. CASE Free
  <2>1. task' = [f EXCEPT !.state = "NONE"]
    BY <1>6 DEF Free
  <2> HIDE DEF f
  <2> QED
    BY <2>1, <1>f DEF TaskType
<1>7. CASE Wakeup
  BY <1>0, <1>7, <1>t DEF Wakeup, TaskType, ActiveTransmits, HttpInv, Sound
<1>8. CASE Expire
  BY <1>0, <1>8 DEF Expire, ActiveTransmits
<1>9. ASSUME NEW s \in pending, Finished(s)
      PROVE  task'.state = "TRANSMITTING"
  <2>1. [task EXCEPT !.state = "DONE"] \in TaskType
    BY <1>t, Values DEF TaskType
  <2>2. CASE task' = HttpState([task EXCEPT !.state = "DONE"], "DONE")
    BY <2>1, <2>2, PausedInactive
  <2>3. CASE task' = Retried(task)
    BY <2>3, <1>t, RetriedInactive
  <2>4. CASE task' = task
    BY <1>0, <2>4 DEF ActiveTransmits
  <2> QED
    BY <1>9, <2>2, <2>3, <2>4 DEF Finished
<1>10. CASE WriteError
  <2>1. HttpState(f, "PAUSED") \in TaskType
        /\ HttpState(f, "PAUSED").tx = NoTransfer
    BY HttpOther, <1>f
  <2>2. HttpState(f, "PAUSED").http # "ACTIVE"
    BY PausedInactive, <1>f
  <2> QED
    BY <1>10, <1>t, <2>1, <2>2, AsleepInactive DEF WriteError
<1>11. CASE UNCHANGED vars
  BY <1>0, <1>11 DEF vars, ActiveTransmits
<1> QED
  BY <1>1, <1>2, <1>3, <1>4, <1>5, <1>6, <1>7, <1>8, <1>9, <1>10, <1>11
  DEF Next

(* Where an aborted session completes at once, the transfer of a task that is
   done has left the transfer list. *)
THEOREM TransferLeaves == Spec => []TransferEnds
<1>1. Init => ActiveTransmits
  BY DEF Init, ActiveTransmits
<1>2. ActiveTransmits => TransferEnds
  BY DEF ActiveTransmits, TransferEnds
<1> QED
  BY <1>1, <1>2, ActiveStep, Invariant, PTL DEF Spec

-----------------------------------------------------------------------------
(* The refinement. *)

LEMMA LifeInitHolds == Init => Life!LifeInit
  BY DEF Init, Life!LifeInit

(* Every step of the task is a step the dispatcher knows of, or none. *)
LEMMA LifeStepHolds ==
  HttpInv /\ [Next]_vars => [Life!LifeNext]_(Life!lifeVars)
<1> SUFFICES ASSUME HttpInv, [Next]_vars
             PROVE  Life!LifeNext \/ UNCHANGED Life!lifeVars
  OBVIOUS
<1> USE DEF Life!lifeVars, Life!LifeNext, Life!NeedsNetwork, Life!Exists,
            Life!RetryOrEnd
<1>1. CASE Run
  <2>1. task'.state \in {"NEED_CONNECTION", "NEED_USER_CONNECTION"}
    BY <1>1 DEF Run, HttpInv, Sound, TaskType
  <2> QED
    BY <1>1, <2>1 DEF Run, Life!LifeRun
<1>2. CASE Transmit
  <2>1. task'.state = "TRANSMITTING"
    <3>1. FinishTransfer(task) \in TaskType
      BY FinishSound DEF Sound
    <3>2. HttpState(FinishTransfer(task), "ACTIVE") \in TaskType
      BY FinishSound, HttpStateSound DEF Sound
    <3> QED
      BY <1>2, <3>2 DEF Transmit, TaskType
  <2> QED
    BY <1>2, <2>1 DEF Transmit, NeedsNetwork, Life!LifeTransmit
<1>3. CASE TransmitFailed
  <2>1. task'.state = "NONE"
    BY <1>3, FinishSound DEF TransmitFailed, Sound, TaskType
  <2> QED
    BY <1>3, <2>1 DEF TransmitFailed, NeedsNetwork, Life!LifeTransmit
<1>4. CASE NetworkLost
  BY <1>4, NetworkLostInv DEF NetworkLost, NeedsNetwork, Life!LifeOffline
<1>5. CASE Cancel
  BY <1>5, CancelInv DEF Cancel, Life!LifeCancel
<1>6. CASE Free
  BY <1>6, FreeInv DEF Free, Life!LifeFree
<1>7. CASE Wakeup
  <2>1. task.state = "SLEEP" /\ task'.state = "READY"
    BY <1>7 DEF Wakeup, HttpInv, Sound, TaskType
  <2> QED
    BY <1>7, <2>1 DEF Wakeup, Life!LifeWakeup
<1>8. CASE Expire
  BY <1>8 DEF Expire, Life!LifeExpire
<1>9. ASSUME NEW s \in pending, Finished(s)
      PROVE  Life!LifeNext \/ UNCHANGED Life!lifeVars
  BY <1>9, FinishedInv DEF Finished, Life!LifeFinish
<1>10. CASE WriteError
  <2>1. task.state = "TRANSMITTING"
    BY <1>10 DEF WriteError, HttpInv, TransmitsOverItsSession
  <2> QED
    BY <1>10, <2>1, WriteErrorInv DEF WriteError, Life!LifeFinish
<1>11. CASE UNCHANGED vars
  BY <1>11 DEF vars
<1> QED
  BY <1>1, <1>2, <1>3, <1>4, <1>5, <1>6, <1>7, <1>8, <1>9, <1>10, <1>11
  DEF Next

(* An HTTP task implements the abstract task that the dispatcher's model is
   built on, whatever libsoup does when a session is aborted. *)
THEOREM TaskLifeImplemented == Spec => ImplementsTaskLife
<1> QED
  BY LifeInitHolds, LifeStepHolds, Invariant, PTL
  DEF Spec, ImplementsTaskLife, Life!LifeSpec
=============================================================================
