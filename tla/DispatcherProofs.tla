-------------------------- MODULE DispatcherProofs --------------------------
(***************************************************************************)
(* Proofs about the dispatcher, for any number of tasks, messages and      *)
(* SIMs: its type invariant, that a transaction always runs on an open     *)
(* connection of its own SIM and is not disturbed, that the schedule of    *)
(* the task loop loses no wakeup, no report and no timeout, that the       *)
(* engine around it implements it and spares its work, and that GLib's     *)
(* sort puts first what the dispatcher's model lets come first.            *)
(***************************************************************************)
EXTENDS Engine, TaskSort, FiniteSetTheorems, TLAPS

(***************************************************************************)
(* What the task classes can make of a task.                               *)
(***************************************************************************)

(* A retry puts the task to sleep or ends it. *)
LEMMA RetryStates == \A t : RetryState(t) \in {"SLEEP", "DONE"}
  BY DEF RetryState

(* Running a task never starts a transmission and never leaves it READY. *)
LEMMA RunStates ==
  ASSUME NEW t \in Tasks, NEW r \in RunResults(t)
  PROVE  r[1] \in {"NEED_CONNECTION", "NEED_USER_CONNECTION", "PENDING",
                   "WORKING", "SLEEP", "DONE"}
<1>1. Class[t] \in Classes
  BY ConstantsAssumption DEF ConstantsAssumption
<1>2. CASE Class[t] \in HttpClasses
  BY <1>2 DEF RunResults, HttpClasses
<1>3. CASE Class[t] = "notification"
  BY <1>3, RetryStates DEF RunResults, HttpClasses, NotifyFailed
<1>4. CASE Class[t] = "decode"
  BY <1>4 DEF RunResults, HttpClasses
<1>5. CASE Class[t] = "publish"
  BY <1>5, RetryStates DEF RunResults, HttpClasses, RetryResult
<1>6. CASE Class[t] = "encode"
  BY <1>6, RetryStates DEF RunResults, HttpClasses, RetryResult
<1> QED
  BY <1>1, <1>2, <1>3, <1>4, <1>5, <1>6 DEF Classes

(* An answer, the end of a transaction or the end of a job leaves a task
   sleeping or done. *)
LEMMA ResultStates ==
  ASSUME NEW t \in Tasks,
         NEW r \in ReplyResults(t) \cup FinishResults(t) \cup JobResults(t)
  PROVE  r[1] \in {"SLEEP", "DONE"}
  BY RetryStates DEF ReplyResults, FinishResults, JobResults, RetryResult,
                     NotifyFailed

(* What Update does to the variables of the tasks, whatever it is told. *)
LEMMA UpdateType ==
  ASSUME TypeOK,
         NEW states \in [Tasks -> LiveStates \cup {"NONE"}],
         NEW t \in Tasks,
         NEW s \in LiveStates \cup {"NONE"},
         NEW new \in SUBSET Free,
         Update(states, t, s, new)
  PROVE  /\ taskState' \in [Tasks -> LiveStates \cup {"NONE"}]
         /\ order' \in [Tasks -> Nat]
         /\ nextOrder' \in Nat
         /\ expired' \in SUBSET Tasks
<1>1. taskState' \in [Tasks -> LiveStates \cup {"NONE"}]
  BY DEF Update, LiveStates
<1>2. \A u : CreationRank(u, new) \in Nat
  BY DEF CreationRank
<1>3. order' \in [Tasks -> Nat]
  BY <1>2 DEF Update, TypeOK
<1>4. IsFiniteSet(new)
  BY ConstantsAssumption, FS_Subset DEF ConstantsAssumption, Free
<1>5. Cardinality(new) \in Nat
  BY <1>4, FS_CardinalityType
<1>6. nextOrder' \in Nat
  BY <1>5 DEF Update, TypeOK
<1>7. expired' \in SUBSET Tasks
  BY DEF Update, TypeOK
<1> QED
  BY <1>1, <1>3, <1>6, <1>7

(* The same for a step that queues no task. *)
LEMMA UpdateAloneType ==
  ASSUME TypeOK,
         NEW states \in [Tasks -> LiveStates \cup {"NONE"}],
         NEW t \in Tasks,
         NEW s \in LiveStates \cup {"NONE"},
         Update(states, t, s, {})
  PROVE  /\ taskState' \in [Tasks -> LiveStates \cup {"NONE"}]
         /\ order' \in [Tasks -> Nat]
         /\ nextOrder' \in Nat
         /\ expired' \in SUBSET Tasks
<1>1. {} \in SUBSET Free
  OBVIOUS
<1> QED
  BY <1>1, UpdateType

LEMMA WithoutNetworkType ==
  ASSUME TypeOK
  PROVE  WithoutNetwork \in [Tasks -> LiveStates \cup {"NONE"}]
  BY RetryStates DEF WithoutNetwork, TypeOK, LiveStates

(* A connection requested for a task is one of the connections. *)
LEMMA RequestedConnection ==
  ASSUME NEW t \in Tasks, NEW s \in {"OPENING", "OPEN"}
  PROVE  [state |-> s, imsi |-> Imsi[t]] \in Connections
  BY DEF Connections

LEMMA ConnectionKept ==
  ASSUME conn \in Connections, conn.state = "OPENING"
  PROVE  [conn EXCEPT !.state = "OPEN"] \in Connections
<1>1. conn \in [state : {"OPENING", "OPEN"}, imsi : {Imsi[t] : t \in Tasks}]
  BY DEF Connections, NoConn
<1> QED
  BY <1>1 DEF Connections

LEMMA LoseConnectionType ==
  ASSUME TypeOK, LoseConnection
  PROVE  /\ taskState' \in [Tasks -> LiveStates \cup {"NONE"}]
         /\ order' \in [Tasks -> Nat]
         /\ nextOrder' \in Nat
         /\ expired' \subseteq Tasks
         /\ jobs' \subseteq Tasks
         /\ conn' \in Connections
         /\ phase' \in {"OFF", "LOOP", "END"}
         /\ closing' \in BOOLEAN
         /\ idleTimer' \in BOOLEAN
         /\ handlerBusy' \in BOOLEAN
         /\ connmanBusy' \in BOOLEAN
<1>1. taskState' \in [Tasks -> LiveStates \cup {"NONE"}]
  BY WithoutNetworkType DEF LoseConnection
<1>2. conn' \in Connections
  BY DEF LoseConnection, DropConnection, Connections
<1>3. /\ closing' \in BOOLEAN
      /\ idleTimer' \in BOOLEAN
      /\ handlerBusy' \in BOOLEAN
      /\ connmanBusy' \in BOOLEAN
  BY DEF LoseConnection, DropConnection, MayCallHandler, MayCallConnman,
         TypeOK
<1> QED
  BY <1>1, <1>2, <1>3 DEF LoseConnection, TypeOK

-----------------------------------------------------------------------------
(* The type invariant. *)

LEMMA InitType == Init => TypeOK
<1> SUFFICES ASSUME Init
             PROVE  TypeOK
  OBVIOUS
<1>1. /\ taskState \in [Tasks -> LiveStates \cup {"NONE"}]
      /\ order \in [Tasks -> Nat]
  BY DEF Init
<1>2. conn \in Connections
  BY DEF Init, Connections
<1> QED
  BY <1>1, <1>2 DEF Init, TypeOK

(* An iteration of the loop keeps the types. *)
LEMMA LoopTaskType ==
  ASSUME TypeOK, NEW t \in Tasks, LoopTask(t)
  PROVE  TypeOK'
<1>1. CASE RunReady(t)
  <2>1. PICK r \in RunResults(t), new \in SUBSET Free :
           /\ Become(t, Requeued(r[1]), new)
           /\ handlerBusy' = TRUE \/ MayCallHandler
           /\ jobs' = jobs \/ jobs' = jobs \cup {t}
    BY <1>1 DEF RunReady, NewTasks
  <2>2. Requeued(r[1]) \in LiveStates \cup {"NONE"}
    BY RunStates DEF Requeued, LiveStates
  <2>3. handlerBusy' \in BOOLEAN
    BY <2>1 DEF MayCallHandler, TypeOK
  <2>4. /\ taskState' \in [Tasks -> LiveStates \cup {"NONE"}]
        /\ order' \in [Tasks -> Nat]
        /\ nextOrder' \in Nat
        /\ expired' \in SUBSET Tasks
    BY <2>1, <2>2, UpdateType DEF Become, TypeOK
  <2> QED
    BY <1>1, <2>1, <2>3, <2>4 DEF RunReady, TypeOK, connVars
<1>2. CASE FreeDone(t)
  <2>1. "NONE" \in LiveStates \cup {"NONE"} /\ Update(taskState, t, "NONE", {})
    BY <1>2 DEF FreeDone, Become
  <2>2. /\ taskState' \in [Tasks -> LiveStates \cup {"NONE"}]
        /\ order' \in [Tasks -> Nat]
        /\ nextOrder' \in Nat
        /\ expired' \in SUBSET Tasks
    BY <2>1, UpdateAloneType DEF TypeOK
  <2> QED
    BY <1>2, <2>2 DEF FreeDone, TypeOK, connVars
<1>3. CASE Transmit(t)
  <2>1. PICK s \in TransmitResults : Update(taskState, t, Requeued(s), {})
    BY <1>3 DEF Transmit, Become
  <2>2. Requeued(s) \in LiveStates \cup {"NONE"}
    BY DEF Requeued, TransmitResults, LiveStates
  <2>3. /\ taskState' \in [Tasks -> LiveStates \cup {"NONE"}]
        /\ order' \in [Tasks -> Nat]
        /\ nextOrder' \in Nat
        /\ expired' \in SUBSET Tasks
    BY <2>1, <2>2, UpdateAloneType DEF TypeOK
  <2> QED
    BY <1>3, <2>3 DEF Transmit, TypeOK, connVars, MayCallHandler
<1>4. CASE AwaitOpen(t)
  BY <1>4 DEF AwaitOpen, TypeOK, connVars, taskVars
<1>5. CASE AwaitClose(t)
  BY <1>5 DEF AwaitClose, TypeOK, taskVars, CloseLater
<1>6. CASE OpenConnection(t)
  <2> DEFINE states == IF ConnExists THEN WithoutNetwork ELSE taskState
  <2>1. states \in [Tasks -> LiveStates \cup {"NONE"}]
    BY WithoutNetworkType DEF TypeOK
  <2>2. PICK s \in LiveStates \cup {"NONE"} : Update(states, t, s, {})
    <3>1. \A s \in TransmitResults : Requeued(s) \in LiveStates \cup {"NONE"}
      BY DEF Requeued, TransmitResults, LiveStates
    <3>2. taskState[t] \in LiveStates /\ "DONE" \in LiveStates
      BY <1>6 DEF OpenConnection, NeedHead, NeedStates, LiveStates
    <3> QED
      BY <1>6, <3>1, <3>2 DEF OpenConnection
  <2>3. /\ taskState' \in [Tasks -> LiveStates \cup {"NONE"}]
        /\ order' \in [Tasks -> Nat]
        /\ nextOrder' \in Nat
        /\ expired' \in SUBSET Tasks
    BY <2>1, <2>2, UpdateAloneType
  <2>4. conn' \in Connections
    BY <1>6, RequestedConnection DEF OpenConnection, Connections
  <2>5. nextRun' \in BOOLEAN /\ phase' \in {"OFF", "LOOP", "END"}
    BY <1>6 DEF OpenConnection, TypeOK
  <2> QED
    BY <1>6, <2>3, <2>4, <2>5
    DEF OpenConnection, TypeOK, MayCallHandler, MayCallConnman
<1> QED
  BY <1>1, <1>2, <1>3, <1>4, <1>5, <1>6 DEF LoopTask

(* Events of the network keep the types. *)
LEMMA NetworkType ==
  ASSUME TypeOK, Network
  PROVE  TypeOK'
<1>1. CASE NetworkIdle
  <2>1. CASE LoseConnection /\ CheckIfDone(TRUE)
    BY <2>1, LoseConnectionType DEF TypeOK, CheckIfDone
  <2>2. CASE ~(LoseConnection /\ CheckIfDone(TRUE))
    BY <1>1, <2>2 DEF NetworkIdle, TypeOK, taskVars, CloseLater
  <2> QED
    BY <2>1, <2>2
<1>2. CASE ConnOpened
  BY <1>2, ConnectionKept DEF ConnOpened, TypeOK, taskVars
<1>3. CASE ConnGone
  BY <1>3, LoseConnectionType DEF ConnGone, TypeOK
<1>4. CASE ConnmanDone
  BY <1>4 DEF ConnmanDone, TypeOK, taskVars, connVars, CheckIfDone
<1> QED
  BY <1>1, <1>2, <1>3, <1>4 DEF Network

(* Events of a task keep the types. *)
LEMMA TaskEventType ==
  ASSUME TypeOK, NEW t \in Tasks, TaskEvent(t)
  PROVE  TypeOK'
<1>1. CASE HttpFinish(t)
  <2>1. PICK r \in FinishResults(t), new \in SUBSET Free :
           Update(taskState, t, r[1], new)
    BY <1>1 DEF HttpFinish, Become
  <2>2. r[1] \in LiveStates \cup {"NONE"}
    BY ResultStates DEF LiveStates
  <2>3. /\ taskState' \in [Tasks -> LiveStates \cup {"NONE"}]
        /\ order' \in [Tasks -> Nat]
        /\ nextOrder' \in Nat
        /\ expired' \in SUBSET Tasks
    BY <2>1, <2>2, UpdateType DEF TypeOK
  <2> QED
    BY <1>1, <2>3 DEF HttpFinish, TypeOK, connVars, MayCallHandler
<1>2. CASE HandlerReply(t)
  <2>1. PICK r \in ReplyResults(t), new \in SUBSET Free :
           Update(taskState, t, r[1], new)
    BY <1>2 DEF HandlerReply, Become
  <2>2. r[1] \in LiveStates \cup {"NONE"}
    BY ResultStates DEF LiveStates
  <2>3. /\ taskState' \in [Tasks -> LiveStates \cup {"NONE"}]
        /\ order' \in [Tasks -> Nat]
        /\ nextOrder' \in Nat
        /\ expired' \in SUBSET Tasks
    BY <2>1, <2>2, UpdateType DEF TypeOK
  <2> QED
    BY <1>2, <2>3 DEF HandlerReply, TypeOK, connVars
<1>3. CASE JobDone(t)
  <2>1. PICK r \in JobResults(t), new \in SUBSET Free :
           /\ Update(taskState, t,
                     IF taskState[t] = "NONE" THEN "NONE" ELSE r[1], new)
           /\ nextRun' = (nextRun \/ taskState[t] = "WORKING" \/ new # {})
    BY <1>3 DEF JobDone, Become
  <2>2. (IF taskState[t] = "NONE" THEN "NONE" ELSE r[1])
           \in LiveStates \cup {"NONE"}
    BY ResultStates DEF LiveStates
  <2>3. /\ taskState' \in [Tasks -> LiveStates \cup {"NONE"}]
        /\ order' \in [Tasks -> Nat]
        /\ nextOrder' \in Nat
        /\ expired' \in SUBSET Tasks
    BY <2>1, <2>2, UpdateType DEF TypeOK
  <2>4. nextRun' \in BOOLEAN
    BY <2>1 DEF TypeOK
  <2> QED
    BY <1>3, <2>3, <2>4 DEF JobDone, TypeOK, connVars, MayCallHandler
<1>4. CASE Wakeup(t)
  BY <1>4 DEF Wakeup, TypeOK, connVars, LiveStates
<1>5. CASE Expire(t)
  BY <1>5 DEF Expire, TypeOK, connVars
<1> QED
  BY <1>1, <1>2, <1>3, <1>4, <1>5 DEF TaskEvent

(* Requests and cancellations keep the types. *)
LEMMA UserType ==
  ASSUME TypeOK, User
  PROVE  TypeOK'
<1>1. ASSUME NEW t \in Tasks, Request(t)
      PROVE  TypeOK'
  BY <1>1 DEF Request, TypeOK, connVars, LiveStates
<1>2. ASSUME NEW S, CancelTasks(S)
      PROVE  taskState' \in [Tasks -> LiveStates \cup {"NONE"}]
  BY <1>2 DEF CancelTasks, TypeOK, LiveStates
<1>3. ASSUME NEW m, CancelMessage(m)
      PROVE  TypeOK'
  <2>1. PICK S : /\ CancelTasks(S)
                 /\ nextRun' = (nextRun \/ AnyUndone(S))
                 /\ handlerBusy' = handlerBusy \/ MayCallHandler
    BY <1>3 DEF CancelMessage
  <2>2. nextRun' \in BOOLEAN
    BY <2>1 DEF TypeOK
  <2>3. handlerBusy' \in BOOLEAN
    BY <2>1 DEF TypeOK, MayCallHandler
  <2> QED
    BY <1>2, <1>3, <2>1, <2>2, <2>3 DEF CancelMessage, TypeOK, connVars
<1>4. CASE CancelAll
  <2>1. taskState' \in [Tasks -> LiveStates \cup {"NONE"}]
    BY <1>2, <1>4 DEF CancelAll
  <2>2. handlerBusy' \in BOOLEAN
    BY <1>4 DEF CancelAll, MayCallHandler, TypeOK
  <2>3. /\ nextRun' \in BOOLEAN
        /\ started' \in BOOLEAN
        /\ conn' \in Connections
        /\ closing' \in BOOLEAN
        /\ idleTimer' \in BOOLEAN
        /\ connmanBusy' \in BOOLEAN
    BY <1>4 DEF CancelAll, TypeOK, CheckIfDone, CloseLater, DropConnection,
                MayCallConnman, Connections
  <2> QED
    BY <1>4, <2>1, <2>2, <2>3 DEF CancelAll, TypeOK
<1> QED
  BY <1>1, <1>3, <1>4 DEF User

LEMMA StepType == TypeOK /\ [Next]_vars => TypeOK'
<1> SUFFICES ASSUME TypeOK, [Next]_vars
             PROVE  TypeOK'
  OBVIOUS
<1>1. CASE NextRun
  BY <1>1 DEF NextRun, TypeOK, taskVars, connVars
<1>2. CASE LoopStep
  <2>1. CASE PickNothing
    BY <2>1 DEF PickNothing, TypeOK, taskVars, connVars
  <2>2. CASE EndRun
    <3>1. idleTimer' \in BOOLEAN
      BY <2>2 DEF EndRun, IdleAfterRun
    <3> QED
      BY <2>2, <3>1 DEF EndRun, TypeOK, taskVars, CheckIfDone
  <2> QED
    BY <1>2, <2>1, <2>2, LoopTaskType DEF LoopStep
<1>3. CASE Network
  BY <1>3, NetworkType
<1>4. CASE HandlerDone
  BY <1>4 DEF HandlerDone, TypeOK, taskVars, connVars
<1>5. CASE \E t \in Tasks : TaskEvent(t)
  BY <1>5, TaskEventType
<1>6. CASE User
  BY <1>6, UserType
<1>7. CASE UNCHANGED vars
  BY <1>7 DEF TypeOK, vars
<1> QED
  BY <1>1, <1>2, <1>3, <1>4, <1>5, <1>6, <1>7 DEF Next

(* Every variable stays within its type, whatever the tasks, the messages
   and the SIMs. *)
THEOREM TypeCorrect == Spec => []TypeOK
<1>1. Init => TypeOK
  BY InitType
<1>2. TypeOK /\ [Next]_vars => TypeOK'
  BY StepType
<1> QED
  BY <1>1, <1>2, PTL DEF Spec

-----------------------------------------------------------------------------
(* A transaction and its connection.  TransmitOnOpenConnection is inductive *)
(* together with the types: the comparator puts the task that transmits     *)
(* before all the others as long as the connection is open, so the loop     *)
(* cannot reach a task that would take the connection away from it.         *)

LEMMA SenderComesFirst ==
  ASSUME TransmitOnOpenConnection,
         NEW t \in HeadTasks, NEW u \in Tasks, taskState[u] = "TRANSMITTING"
  PROVE  t = u
<1> SUFFICES ASSUME t # u PROVE FALSE
  OBVIOUS
<1> DEFINE S == Live \ {u}
<1>1. u \in Live /\ t \in Live
  BY DEF Live, HeadTasks, Heads
<1>2. S \in SUBSET Live /\ t \in S /\ S # Live
  BY <1>1
<1>3. \E a \in S, b \in Live \ S : Precedes(View(a), View(b), conn)
  BY <1>2 DEF HeadTasks, Heads
<1>4. PICK a \in S : Precedes(View(a), View(u), conn)
  BY <1>3
<1>5. conn.state = "OPEN" /\ taskState[a] # "TRANSMITTING"
  BY DEF TransmitOnOpenConnection, Live
<1>6. View(a).state = taskState[a] /\ View(u).state = "TRANSMITTING"
  BY DEF View
<1> QED
  BY <1>4, <1>5, <1>6 DEF Precedes

(* A head that needs the network finds nobody transmitting. *)
LEMMA NeedHeadAlone ==
  ASSUME TransmitOnOpenConnection, NEW t \in Tasks, NeedHead(t), NEW u \in Tasks
  PROVE  taskState[u] # "TRANSMITTING"
<1> SUFFICES ASSUME taskState[u] = "TRANSMITTING" PROVE FALSE
  OBVIOUS
<1>1. t = u
  BY SenderComesFirst DEF NeedHead, Picked
<1> QED
  BY <1>1 DEF NeedHead, NeedStates

(* A step that leaves the connection alone and starts no transmission keeps
   the invariant. *)
LEMMA NoNewSender ==
  ASSUME TransmitOnOpenConnection, UNCHANGED conn,
         \A u \in Tasks : taskState'[u] = "TRANSMITTING" =>
                             taskState[u] = "TRANSMITTING"
  PROVE  TransmitOnOpenConnection'
  BY DEF TransmitOnOpenConnection

(* Neither does a step after which nothing transmits. *)
LEMMA NoSender ==
  ASSUME \A u \in Tasks : taskState'[u] # "TRANSMITTING"
  PROVE  TransmitOnOpenConnection'
  BY DEF TransmitOnOpenConnection

(* The loss of the connection ends every transmission. *)
LEMMA LossEndsTransmission ==
  ASSUME TransmitOnOpenConnection, NEW u \in Tasks
  PROVE  WithoutNetwork[u] # "TRANSMITTING"
<1>1. CASE taskState[u] = "TRANSMITTING"
  <2>1. UsesNetwork(u) /\ ConnIsFor(u)
    BY <1>1 DEF TransmitOnOpenConnection, UsesNetwork, ConnIsFor
  <2> QED
    BY <2>1, RetryStates DEF WithoutNetwork
<1>2. CASE taskState[u] # "TRANSMITTING"
  BY <1>2, RetryStates DEF WithoutNetwork
<1> QED
  BY <1>1, <1>2

(* Where Update starts no transmission itself, there is none it has not been
   given. *)
LEMMA UpdateSenders ==
  ASSUME NEW states, NEW t, NEW s, NEW new, Update(states, t, s, new),
         s # "TRANSMITTING", NEW u \in Tasks, taskState'[u] = "TRANSMITTING"
  PROVE  states[u] = "TRANSMITTING"
  BY DEF Update

LEMMA LoopTaskTransmit ==
  ASSUME TypeOK, TransmitOnOpenConnection, NEW t \in Tasks, LoopTask(t)
  PROVE  TransmitOnOpenConnection'
<1>1. CASE RunReady(t)
  <2>1. PICK r \in RunResults(t), new \in SUBSET Free :
           Update(taskState, t, Requeued(r[1]), new)
    BY <1>1 DEF RunReady, Become, NewTasks
  <2>2. Requeued(r[1]) # "TRANSMITTING"
    BY RunStates DEF Requeued
  <2>3. UNCHANGED conn
    BY <1>1 DEF RunReady, connVars
  <2> QED
    BY <2>1, <2>2, <2>3, UpdateSenders, NoNewSender
<1>2. CASE FreeDone(t)
  <2>1. Update(taskState, t, "NONE", {}) /\ UNCHANGED conn
    BY <1>2 DEF FreeDone, Become, connVars
  <2> QED
    BY <2>1, UpdateSenders, NoNewSender
<1>3. CASE Transmit(t)
  <2>1. PICK s \in TransmitResults : Update(taskState, t, Requeued(s), {})
    BY <1>3 DEF Transmit, Become
  <2>2. \A u \in Tasks \ {t} : taskState'[u] # "TRANSMITTING"
    BY <1>3, <2>1, NeedHeadAlone DEF Transmit, Update
  <2>3. conn' = [state |-> "OPEN", imsi |-> Imsi[t]]
    <3>1. conn = [state |-> conn.state, imsi |-> conn.imsi]
      BY DEF TypeOK, Connections, NoConn
    <3> QED
      BY <1>3, <3>1 DEF Transmit, ConnOpenFor, ConnIsFor, connVars
  <2> QED
    BY <2>2, <2>3 DEF TransmitOnOpenConnection
<1>4. CASE AwaitOpen(t)
  BY <1>4, NoNewSender DEF AwaitOpen, taskVars, connVars
<1>5. CASE AwaitClose(t)
  BY <1>5, NoNewSender DEF AwaitClose, taskVars, CloseLater
<1>6. CASE OpenConnection(t)
  <2> DEFINE states == IF ConnExists THEN WithoutNetwork ELSE taskState
  <2>1. \A u \in Tasks : states[u] # "TRANSMITTING"
    BY <1>6, LossEndsTransmission, NeedHeadAlone DEF OpenConnection
  <2>2. CASE \E s \in TransmitResults :
                /\ conn' = [state |-> "OPEN", imsi |-> Imsi[t]]
                /\ Update(states, t, Requeued(s), {})
    <3>1. \A u \in Tasks \ {t} : taskState'[u] # "TRANSMITTING"
      BY <2>1, <2>2 DEF Update
    <3> QED
      BY <2>2, <3>1 DEF TransmitOnOpenConnection
  <2>3. CASE \/ Update(states, t, taskState[t], {})
             \/ Update(states, t, "DONE", {})
    <3>1. taskState[t] # "TRANSMITTING"
      BY <1>6 DEF OpenConnection, NeedHead, NeedStates
    <3>2. \A u \in Tasks : taskState'[u] # "TRANSMITTING"
      BY <2>1, <2>3, <3>1, UpdateSenders
    <3> QED
      BY <3>2, NoSender
  <2> QED
    BY <1>6, <2>2, <2>3 DEF OpenConnection
<1> QED
  BY <1>1, <1>2, <1>3, <1>4, <1>5, <1>6 DEF LoopTask

LEMMA NetworkTransmit ==
  ASSUME TypeOK, TransmitOnOpenConnection, Network
  PROVE  TransmitOnOpenConnection'
<1>1. CASE LoseConnection
  <2>1. \A u \in Tasks : taskState'[u] # "TRANSMITTING"
    BY <1>1, LossEndsTransmission DEF LoseConnection
  <2> QED
    BY <2>1, NoSender
<1>2. CASE NetworkIdle /\ ~LoseConnection
  BY <1>2, NoNewSender DEF NetworkIdle, CloseLater, taskVars
<1>3. CASE ConnOpened
  <2>1. \A u \in Tasks : taskState'[u] # "TRANSMITTING"
    BY <1>3 DEF ConnOpened, TransmitOnOpenConnection, taskVars
  <2> QED
    BY <2>1, NoSender
<1>4. CASE ConnmanDone
  BY <1>4, NoNewSender DEF ConnmanDone, taskVars, connVars
<1> QED
  BY <1>1, <1>2, <1>3, <1>4 DEF Network, ConnGone

LEMMA TaskEventTransmit ==
  ASSUME TypeOK, TransmitOnOpenConnection, NEW t \in Tasks, TaskEvent(t)
  PROVE  TransmitOnOpenConnection'
<1>1. CASE HttpFinish(t) \/ HandlerReply(t) \/ JobDone(t)
  <2>1. PICK s \in {"SLEEP", "DONE", "NONE"}, new \in SUBSET Free :
           Update(taskState, t, s, new)
    <3>1. CASE HttpFinish(t)
      <4>1. PICK r \in FinishResults(t), new \in SUBSET Free :
               Update(taskState, t, r[1], new)
        BY <3>1 DEF HttpFinish, Become
      <4>2. r[1] \in {"SLEEP", "DONE"}
        BY ResultStates
      <4> QED
        BY <4>1, <4>2
    <3>2. CASE HandlerReply(t)
      <4>1. PICK r \in ReplyResults(t), new \in SUBSET Free :
               Update(taskState, t, r[1], new)
        BY <3>2 DEF HandlerReply, Become
      <4>2. r[1] \in {"SLEEP", "DONE"}
        BY ResultStates
      <4> QED
        BY <4>1, <4>2
    <3>3. CASE JobDone(t)
      <4>1. PICK r \in JobResults(t), new \in SUBSET Free :
               Update(taskState, t,
                      IF taskState[t] = "NONE" THEN "NONE" ELSE r[1], new)
        BY <3>3 DEF JobDone, Become
      <4>2. r[1] \in {"SLEEP", "DONE"}
        BY ResultStates
      <4> QED
        BY <4>1, <4>2
    <3> QED
      BY <1>1, <3>1, <3>2, <3>3
  <2>2. UNCHANGED conn
    BY <1>1 DEF HttpFinish, HandlerReply, JobDone, connVars
  <2> QED
    BY <2>1, <2>2, UpdateSenders, NoNewSender
<1>2. CASE Wakeup(t) \/ Expire(t)
  <2>1. \A u \in Tasks : taskState'[u] = "TRANSMITTING" =>
                            taskState[u] = "TRANSMITTING"
    BY <1>2 DEF Wakeup, Expire, TypeOK
  <2> QED
    BY <1>2, <2>1, NoNewSender DEF Wakeup, Expire, connVars
<1> QED
  BY <1>1, <1>2 DEF TaskEvent

LEMMA UserTransmit ==
  ASSUME TypeOK, TransmitOnOpenConnection, User
  PROVE  TransmitOnOpenConnection'
<1>1. ASSUME NEW t \in Tasks, Request(t)
      PROVE  TransmitOnOpenConnection'
  <2>1. \A u \in Tasks : taskState'[u] = "TRANSMITTING" =>
                            taskState[u] = "TRANSMITTING"
    BY <1>1 DEF Request, TypeOK
  <2> QED
    BY <1>1, <2>1, NoNewSender DEF Request, connVars
<1>2. ASSUME NEW m, CancelMessage(m)
      PROVE  TransmitOnOpenConnection'
  <2>1. \A u \in Tasks : taskState'[u] = "TRANSMITTING" =>
                            taskState[u] = "TRANSMITTING"
    BY <1>2 DEF CancelMessage, CancelTasks
  <2> QED
    BY <1>2, <2>1, NoNewSender DEF CancelMessage, connVars
<1>3. CASE CancelAll
  <2>1. \A u \in Tasks : taskState'[u] # "TRANSMITTING"
    BY <1>3 DEF CancelAll, CancelTasks, Live
  <2> QED
    BY <2>1, NoSender
<1> QED
  BY <1>1, <1>2, <1>3 DEF User

LEMMA StepTransmit ==
  TypeOK /\ TransmitOnOpenConnection /\ [Next]_vars => TransmitOnOpenConnection'
<1> SUFFICES ASSUME TypeOK, TransmitOnOpenConnection, [Next]_vars
             PROVE  TransmitOnOpenConnection'
  OBVIOUS
<1>1. CASE NextRun \/ HandlerDone
  BY <1>1, NoNewSender DEF NextRun, HandlerDone, taskVars, connVars
<1>2. CASE PickNothing \/ EndRun
  BY <1>2, NoNewSender DEF PickNothing, EndRun, taskVars, connVars
<1>3. CASE UNCHANGED vars
  BY <1>3, NoNewSender DEF vars
<1> QED
  BY <1>1, <1>2, <1>3, LoopTaskTransmit, NetworkTransmit, TaskEventTransmit,
     UserTransmit DEF Next, LoopStep

(* A task transmits only on an open connection of its own SIM, and only one
   task does, however many tasks and SIMs there are. *)
THEOREM TransmissionHasConnection == Spec => []TransmitOnOpenConnection
<1>1. Init => TypeOK /\ TransmitOnOpenConnection
  BY InitType DEF Init, TransmitOnOpenConnection
<1>2. TypeOK /\ TransmitOnOpenConnection /\ [Next]_vars
        => TypeOK' /\ TransmitOnOpenConnection'
  BY StepType, StepTransmit
<1> QED
  BY <1>1, <1>2, PTL DEF Spec
-----------------------------------------------------------------------------
(* The loop and its schedule.  An event either schedules a run, or leaves   *)
(* the dispatcher with nothing to do, or changes nothing that the loop      *)
(* looked at when it ended (Still).  What the loop found at its end         *)
(* therefore still holds when no run is scheduled.                          *)

(* An encoding job is that of a task that works, or that was cancelled. *)
JobStates ==
  \A t \in jobs : taskState[t] \in {"WORKING", "DONE", "NONE"}

(* When the loop has ended and no other run is scheduled, a task that can be
   first in the queue waits. *)
HeadWaits ==
  phase \in {"END", "OFF"} /\ ~nextRun /\ Live # {}
    => \E h \in HeadTasks : Waits(h)

(* The inductive invariant of the schedule, besides TypeOK,
   TransmitOnOpenConnection and JobStates *)
ScheduleInv ==
  /\ IdleTimerSparesUsers
  /\ UnusedConnectionEnds
  /\ DoneIsReported
  /\ HeadWaits

(* A step that changes nothing the end of the loop depends on *)
Still ==
  /\ UNCHANGED <<taskState, conn, phase>>
  /\ \A t \in Live : order'[t] = order[t]
  /\ closing => closing'
  /\ idleTimer => idleTimer' \/ closing'
  /\ nextRun => nextRun'
  /\ started' => started /\ (IsActive => IsActive')

(* Until a connection is open the comparator does not look at it. *)
LEMMA PrecedesUnopened ==
  ASSUME NEW a, NEW b, NEW c, NEW d, c.state # "OPEN", d.state # "OPEN"
  PROVE  Precedes(a, b, c) = Precedes(a, b, d)
  BY DEF Precedes

(* The heads depend on the queue and on an open connection only. *)
LEMMA SameHeads ==
  ASSUME taskState' = taskState, \A t \in Live : order'[t] = order[t],
         \/ conn' = conn
         \/ conn.state # "OPEN" /\ conn'.state # "OPEN"
  PROVE  Live' = Live /\ HeadTasks' = HeadTasks
<1> DEFINE view == [t \in Live |-> View(t)]
<1>1. Live' = Live
  BY DEF Live
<1>2. view' = view
  BY <1>1 DEF View
<1>3. \A a, b : Precedes(a, b, conn') = Precedes(a, b, conn)
  BY PrecedesUnopened
<1> HIDE DEF view
<1>4. Heads(Live, view, conn') = Heads(Live, view, conn)
  BY <1>3 DEF Heads
<1>5. HeadTasks = Heads(Live, view, conn)
  BY DEF HeadTasks, view
<1>6. HeadTasks' = Heads(Live', view', conn')
  BY DEF HeadTasks, view
<1> QED
  BY <1>1, <1>2, <1>4, <1>5, <1>6

(* What waits goes on waiting while nothing happens to it. *)
LEMMA WaitsStill ==
  ASSUME UNCHANGED <<taskState, conn>>, closing => closing',
         NEW h, Waits(h)
  PROVE  Waits(h)'
  BY DEF Waits, ConnExists, ConnOpenFor, ConnIsFor

(* The idle timer: no event outside the loop makes a task use the network. *)
LEMMA NoNewUser ==
  ASSUME IdleTimerSparesUsers, phase = "OFF",
         idleTimer' => idleTimer, ConnExists => ConnExists',
         \A u \in Tasks : taskState'[u] \in NeedStates \cup {"TRANSMITTING"}
           => taskState[u] \in NeedStates \cup {"TRANSMITTING"}
  PROVE  IdleTimerSparesUsers'
<1>1. \A u \in Tasks : taskState[u] \in NeedStates \cup {"TRANSMITTING"}
                         => u \in Live
  BY DEF Live, NeedStates
<1> QED
  BY <1>1 DEF IdleTimerSparesUsers, Live

LEMMA TimerOff ==
  ASSUME ~idleTimer' \/ phase' # "OFF"
  PROVE  IdleTimerSparesUsers'
  BY DEF IdleTimerSparesUsers

(* A run that is scheduled looks at everything again. *)
LEMMA Woken ==
  ASSUME nextRun'
  PROVE  UnusedConnectionEnds' /\ DoneIsReported' /\ HeadWaits'
  BY DEF UnusedConnectionEnds, DoneIsReported, HeadWaits, Quiescent

(* So does a run that is going on. *)
LEMMA Running ==
  ASSUME phase' = "LOOP"
  PROVE  IdleTimerSparesUsers' /\ UnusedConnectionEnds' /\ DoneIsReported'
         /\ HeadWaits'
  BY DEF IdleTimerSparesUsers, UnusedConnectionEnds, DoneIsReported, HeadWaits,
         Quiescent

(* A dispatcher that is not active has reported it, and has no task and no
   connection. *)
LEMMA Inactive ==
  ASSUME ~IsActive', ~started'
  PROVE  UnusedConnectionEnds' /\ DoneIsReported' /\ HeadWaits'
  BY DEF UnusedConnectionEnds, DoneIsReported, HeadWaits, IsActive

LEMMA HeadWaitsStill ==
  ASSUME HeadWaits, phase \in {"END", "OFF"}, nextRun => nextRun',
         UNCHANGED <<taskState, conn>>, \A t \in Live : order'[t] = order[t],
         closing => closing'
  PROVE  HeadWaits'
<1>1. taskState' = taskState /\ conn' = conn
  OBVIOUS
<1>2. Live' = Live /\ HeadTasks' = HeadTasks
  BY <1>1, SameHeads
<1> QED
  BY <1>2, WaitsStill DEF HeadWaits

LEMMA StillKeeps ==
  ASSUME ScheduleInv, Still, phase \in {"LOOP", "END", "OFF"}
  PROVE  UnusedConnectionEnds' /\ DoneIsReported' /\ HeadWaits'
<1>1. CASE phase = "LOOP"
  BY <1>1, Running DEF Still
<1>2. CASE phase \in {"END", "OFF"}
  <2>1. HeadWaits'
    BY <1>2, HeadWaitsStill DEF ScheduleInv, Still
  <2>2. UnusedConnectionEnds'
    BY DEF ScheduleInv, Still, UnusedConnectionEnds, Quiescent, ConnExists, Live
  <2>3. DoneIsReported'
    BY DEF ScheduleInv, Still, DoneIsReported, Quiescent
  <2> QED
    BY <2>1, <2>2, <2>3
<1> QED
  BY <1>1, <1>2

-----------------------------------------------------------------------------
(* Jobs. *)

(* Tasks with a job are neither queued again nor use the network. *)
LEMMA UpdateJobs ==
  ASSUME TypeOK, JobStates, NEW states, NEW t \in Tasks, NEW s,
         NEW new \in SUBSET Free, Update(states, t, s, new),
         NEW u \in jobs, u # t, states[u] = taskState[u]
  PROVE  taskState'[u] \in {"WORKING", "DONE", "NONE"}
<1>1. u \in Tasks /\ u \notin new
  BY DEF TypeOK, Free
<1> QED
  BY <1>1 DEF Update, JobStates

LEMMA NoJobUsesNetwork ==
  ASSUME TypeOK, JobStates, NEW u \in jobs
  PROVE  WithoutNetwork[u] = taskState[u]
  BY DEF TypeOK, JobStates, WithoutNetwork, UsesNetwork, NeedStates

LEMMA LoopTaskJobs ==
  ASSUME TypeOK, JobStates, NEW t \in Tasks, LoopTask(t)
  PROVE  JobStates'
<1>1. CASE RunReady(t)
  <2>1. PICK r \in RunResults(t), new \in SUBSET Free :
           /\ Update(taskState, t, Requeued(r[1]), new)
           /\ jobs' = IF r[1] = "WORKING" THEN jobs \cup {t} ELSE jobs
    BY <1>1 DEF RunReady, Become, NewTasks
  <2>2. t \notin jobs /\ t \notin new
    BY <1>1 DEF RunReady, JobStates, Free, Live
  <2>3. r[1] = "WORKING" => taskState'[t] = "WORKING"
    BY <2>1, <2>2 DEF Update, Requeued
  <2>4. \A u \in jobs : taskState'[u] \in {"WORKING", "DONE", "NONE"}
    BY <2>1, <2>2, UpdateJobs
  <2> QED
    BY <2>1, <2>3, <2>4 DEF JobStates
<1>2. CASE FreeDone(t)
  <2>1. Update(taskState, t, "NONE", {}) /\ jobs' = jobs
    BY <1>2 DEF FreeDone, Become
  <2>2. \A u \in Tasks : taskState'[u] \in {taskState[u], "NONE"}
    BY <2>1 DEF Update
  <2> QED
    BY <2>1, <2>2 DEF JobStates, TypeOK
<1>3. CASE Transmit(t)
  <2>1. PICK s : Update(taskState, t, s, {})
    BY <1>3 DEF Transmit, Become
  <2>2. jobs' = jobs /\ t \notin jobs
    BY <1>3 DEF Transmit, NeedHead, NeedStates, JobStates
  <2> QED
    BY <2>1, <2>2, UpdateJobs DEF JobStates
<1>4. CASE AwaitOpen(t) \/ AwaitClose(t)
  BY <1>4 DEF AwaitOpen, AwaitClose, taskVars, JobStates
<1>5. CASE OpenConnection(t)
  <2> DEFINE states == IF ConnExists THEN WithoutNetwork ELSE taskState
  <2>1. PICK s : Update(states, t, s, {})
    BY <1>5 DEF OpenConnection
  <2>2. jobs' = jobs /\ t \notin jobs
    BY <1>5 DEF OpenConnection, NeedHead, NeedStates, JobStates
  <2>3. \A u \in jobs : states[u] = taskState[u]
    BY NoJobUsesNetwork
  <2> HIDE DEF states
  <2> QED
    BY <2>1, <2>2, <2>3, UpdateJobs DEF JobStates
<1> QED
  BY <1>1, <1>2, <1>3, <1>4, <1>5 DEF LoopTask

LEMMA TaskEventJobs ==
  ASSUME TypeOK, JobStates, NEW t \in Tasks, TaskEvent(t)
  PROVE  JobStates'
<1>1. CASE HttpFinish(t) \/ HandlerReply(t)
  <2>1. PICK r \in FinishResults(t) \cup ReplyResults(t),
             new \in SUBSET Free : Update(taskState, t, r[1], new)
    BY <1>1 DEF HttpFinish, HandlerReply, Become
  <2>2. jobs' = jobs /\ t \notin jobs
    BY <1>1 DEF HttpFinish, HandlerReply, JobStates
  <2> QED
    BY <2>1, <2>2, UpdateJobs DEF JobStates
<1>2. CASE JobDone(t)
  <2>1. PICK r \in JobResults(t), new \in SUBSET Free :
           Update(taskState, t,
                  IF taskState[t] = "NONE" THEN "NONE" ELSE r[1], new)
    BY <1>2 DEF JobDone, Become
  <2>2. jobs' = jobs \ {t}
    BY <1>2 DEF JobDone
  <2> QED
    BY <2>1, <2>2, UpdateJobs DEF JobStates
<1>3. CASE Wakeup(t)
  BY <1>3 DEF Wakeup, JobStates, TypeOK
<1>4. CASE Expire(t)
  BY <1>4 DEF Expire, JobStates
<1> QED
  BY <1>1, <1>2, <1>3, <1>4 DEF TaskEvent

LEMMA StepJobs == TypeOK /\ JobStates /\ [Next]_vars => JobStates'
<1> SUFFICES ASSUME TypeOK, JobStates, [Next]_vars
             PROVE  JobStates'
  OBVIOUS
<1>1. CASE NextRun \/ HandlerDone \/ PickNothing \/ EndRun \/ ConnOpened
           \/ ConnmanDone \/ UNCHANGED vars
  BY <1>1 DEF NextRun, HandlerDone, PickNothing, EndRun, ConnOpened,
              ConnmanDone, taskVars, vars, JobStates
<1>2. CASE NetworkIdle \/ ConnGone
  <2>1. CASE LoseConnection
    BY <2>1, NoJobUsesNetwork DEF LoseConnection, JobStates
  <2>2. CASE ~LoseConnection
    BY <1>2, <2>2 DEF NetworkIdle, ConnGone, taskVars, JobStates
  <2> QED
    BY <2>1, <2>2
<1>3. CASE User
  <2>1. ASSUME NEW t \in Tasks, Request(t)
        PROVE  JobStates'
    BY <2>1 DEF Request, Free, JobStates, TypeOK
  <2>2. ASSUME NEW S, CancelTasks(S), jobs' = jobs
        PROVE  JobStates'
    BY <2>2 DEF CancelTasks, JobStates, TypeOK
  <2>3. ASSUME NEW m, CancelMessage(m)
        PROVE  JobStates'
    BY <2>2, <2>3 DEF CancelMessage
  <2>4. CASE CancelAll
    BY <2>2, <2>4 DEF CancelAll
  <2> QED
    BY <1>3, <2>1, <2>3, <2>4 DEF User
<1> QED
  BY <1>1, <1>2, <1>3, LoopTaskJobs, TaskEventJobs
  DEF Next, LoopStep, Network

-----------------------------------------------------------------------------
(* The steps of the schedule. *)

(* The loop goes on, or ends with a head that waits. *)
LEMMA LoopTaskSchedule ==
  ASSUME TypeOK, NEW t \in Tasks, LoopTask(t)
  PROVE  ScheduleInv'
<1>1. CASE phase' = "LOOP"
  BY <1>1, Running DEF ScheduleInv
<1>2. CASE phase' = "END" /\ nextRun'
  BY <1>2, Woken, TimerOff DEF ScheduleInv
<1>3. CASE phase' = "END" /\ ~nextRun'
  <2>1. phase = "LOOP" /\ NeedHead(t)
    BY <1>3 DEF LoopTask, RunReady, FreeDone, Transmit, AwaitOpen, AwaitClose,
                OpenConnection, NeedHead, Picked, connVars
  <2>2. /\ UNCHANGED taskState
        /\ \A u \in Live : order'[u] = order[u]
        /\ \/ conn' = conn
           \/ conn.state # "OPEN" /\ conn'.state # "OPEN"
        /\ Waits(t)'
    <3>1. CASE AwaitOpen(t)
      BY <2>1, <3>1 DEF AwaitOpen, taskVars, connVars, Waits, ConnExists,
           ConnOpenFor, ConnIsFor, NeedHead, NeedStates, RunnableStates
    <3>2. CASE AwaitClose(t)
      BY <2>1, <3>2 DEF AwaitClose, taskVars, CloseLater, Waits, ConnExists,
           ConnOpenFor, ConnIsFor, NeedHead, NeedStates, RunnableStates
    <3>3. CASE OpenConnection(t)
      <4>1. /\ ~ConnExists
            /\ conn' = [state |-> "OPENING", imsi |-> Imsi[t]]
            /\ Update(taskState, t, taskState[t], {})
        BY <1>3, <2>1, <3>3 DEF OpenConnection
      <4>2. UNCHANGED taskState
        BY <4>1 DEF Update, TypeOK
      <4>3. taskState[t] \in NeedStates
        BY <2>1 DEF NeedHead
      <4>4. \A u \in Live : order'[u] = order[u]
        BY <4>1, <4>3 DEF Update, NeedStates, Live
      <4>5. Waits(t)'
        BY <4>1, <4>2, <4>3 DEF Waits, ConnExists, ConnOpenFor, ConnIsFor,
             NeedStates, RunnableStates
      <4>6. conn.state # "OPEN" /\ conn'.state # "OPEN"
        BY <4>1 DEF ConnExists
      <4> QED
        BY <4>2, <4>4, <4>5, <4>6
    <3>4. CASE RunReady(t) \/ FreeDone(t) \/ Transmit(t)
      BY <1>3, <2>1, <3>4 DEF RunReady, FreeDone, Transmit
    <3> QED
      BY <3>1, <3>2, <3>3, <3>4 DEF LoopTask
  <2>3. t \in HeadTasks'
    BY <2>1, <2>2, SameHeads DEF NeedHead, Picked
  <2>4. HeadWaits'
    BY <2>2, <2>3 DEF HeadWaits
  <2> QED
    BY <1>3, <2>4, TimerOff
    DEF ScheduleInv, UnusedConnectionEnds, DoneIsReported, Quiescent
<1>4. phase' \in {"LOOP", "END"}
  BY DEF LoopTask, RunReady, FreeDone, Transmit, AwaitOpen, AwaitClose,
         OpenConnection, NeedHead, Picked
<1> QED
  BY <1>1, <1>2, <1>3, <1>4

LEMMA LoopEndSchedule ==
  ASSUME TypeOK, ScheduleInv, PickNothing \/ EndRun
  PROVE  ScheduleInv'
<1>1. CASE PickNothing
  <2>1. UNCHANGED <<taskState, order, conn, closing>> /\ phase' = "END"
    BY <1>1 DEF PickNothing, taskVars, connVars
  <2>2. ASSUME Live' # {}
        PROVE  \E h \in HeadTasks' : Waits(h)'
    <3>1. Live' = Live /\ HeadTasks' = HeadTasks
      BY <2>1, SameHeads
    <3>2. PICK h \in HeadTasks :
             taskState[h] \in {"TRANSMITTING", "WORKING", "PENDING", "SLEEP"}
      BY <1>1, <2>2, <3>1 DEF PickNothing
    <3>3. Waits(h)
      BY <3>2 DEF Waits, RunnableStates, NeedStates
    <3>4. Waits(h)'
      BY <2>1, <3>3, WaitsStill
    <3> QED
      BY <3>1, <3>4
  <2>3. HeadWaits'
    BY <2>2 DEF HeadWaits
  <2> QED
    BY <2>1, <2>3, TimerOff
    DEF ScheduleInv, UnusedConnectionEnds, DoneIsReported, Quiescent
<1>2. CASE EndRun
  <2>1. /\ UNCHANGED <<taskState, order, conn, closing>>
        /\ phase = "END" /\ phase' = "OFF"
        /\ idleTimer' = (ConnExists /\ ~ConnInUse)
        /\ nextRun' = (nextRun /\ IsActive')
        /\ started' = (started /\ IsActive')
    BY <1>2 DEF EndRun, taskVars, IdleAfterRun, CheckIfDone
  <2>2. IdleTimerSparesUsers'
    BY <2>1 DEF IdleTimerSparesUsers, ConnExists, ConnInUse, UsesNetwork, Live
  <2>3. CASE ~IsActive'
    BY <2>1, <2>2, <2>3, Inactive DEF ScheduleInv
  <2>4. CASE IsActive'
    <3>1. HeadWaits'
      BY <2>1, <2>4, HeadWaitsStill DEF ScheduleInv
    <3>2. DoneIsReported'
      BY <2>4 DEF DoneIsReported
    <3>3. UnusedConnectionEnds'
      <4>1. SUFFICES ASSUME ConnExists',
                       \A u \in Live' : taskState'[u] \notin
                                          NeedStates \cup {"TRANSMITTING"}
                     PROVE  idleTimer'
        BY DEF UnusedConnectionEnds
      <4>2. \A u \in Tasks : ~UsesNetwork(u)
        BY <2>1, <4>1 DEF Live, UsesNetwork, NeedStates
      <4> QED
        BY <2>1, <4>1, <4>2 DEF ConnExists, ConnInUse
    <3> QED
      BY <2>2, <3>1, <3>2, <3>3 DEF ScheduleInv
  <2> QED
    BY <2>3, <2>4
<1> QED
  BY <1>1, <1>2

(* What schedules a run unless the dispatcher is done. *)
LEMMA DoneOrWoken ==
  ASSUME CheckIfDone(TRUE), ~idleTimer'
  PROVE  ScheduleInv'
<1>1. IdleTimerSparesUsers'
  BY TimerOff
<1>2. CASE IsActive'
  BY <1>1, <1>2, Woken DEF CheckIfDone, ScheduleInv
<1>3. CASE ~IsActive'
  BY <1>1, <1>3, Inactive DEF CheckIfDone, ScheduleInv
<1> QED
  BY <1>2, <1>3

LEMMA NetworkSchedule ==
  ASSUME TypeOK, ScheduleInv, Network
  PROVE  ScheduleInv'
<1>1. CASE NetworkIdle
  <2>1. CASE LoseConnection /\ CheckIfDone(TRUE)
    BY <2>1, DoneOrWoken DEF LoseConnection, DropConnection
  <2>2. CASE ~(LoseConnection /\ CheckIfDone(TRUE))
    <3>1. /\ UNCHANGED <<taskState, order, conn, phase, nextRun, started,
                         handlerBusy, connmanBusy>>
          /\ closing' /\ ~idleTimer'
      BY <1>1, <2>2 DEF NetworkIdle, CloseLater, taskVars
    <3>2. Still
      BY <3>1 DEF Still, IsActive, ConnExists, Live
    <3>3. IdleTimerSparesUsers'
      BY <3>1, TimerOff
    <3> QED
      BY <3>2, <3>3, StillKeeps DEF ScheduleInv, TypeOK
  <2> QED
    BY <2>1, <2>2
<1>2. CASE ConnOpened
  <2>1. ConnExists'
    BY <1>2 DEF ConnOpened, ConnExists, TypeOK, Connections
  <2>2. IdleTimerSparesUsers'
    BY <1>2, <2>1, NoNewUser DEF ConnOpened, taskVars, ScheduleInv
  <2> QED
    BY <1>2, <2>2, Woken DEF ConnOpened, ScheduleInv
<1>3. CASE ConnGone
  BY <1>3, Woken, TimerOff
  DEF ConnGone, LoseConnection, DropConnection, ScheduleInv
<1>4. CASE ConnmanDone
  <2>1. /\ UNCHANGED <<taskState, order, conn, closing, idleTimer, phase,
                       handlerBusy>>
        /\ phase = "OFF"
        /\ nextRun' = (nextRun /\ IsActive')
        /\ started' = (started /\ IsActive')
    BY <1>4 DEF ConnmanDone, taskVars, connVars, CheckIfDone
  <2>2. IdleTimerSparesUsers'
    BY <2>1, NoNewUser DEF ScheduleInv, ConnExists
  <2>3. CASE IsActive'
    <3>1. Still
      BY <2>1, <2>3 DEF Still
    <3> QED
      BY <2>2, <3>1, StillKeeps DEF ScheduleInv, TypeOK
  <2>4. CASE ~IsActive'
    BY <2>1, <2>2, <2>4, Inactive DEF ScheduleInv
  <2> QED
    BY <2>3, <2>4
<1> QED
  BY <1>1, <1>2, <1>3, <1>4 DEF Network

LEMMA TaskEventSchedule ==
  ASSUME TypeOK, JobStates, ScheduleInv, NEW t \in Tasks, TaskEvent(t)
  PROVE  ScheduleInv'
<1>1. ASSUME NEW s \in {"SLEEP", "DONE", "NONE"}, NEW new \in SUBSET Free,
             Update(taskState, t, s, new), phase = "OFF",
             UNCHANGED <<conn, idleTimer>>
      PROVE  IdleTimerSparesUsers'
  <2>1. \A u \in Tasks : taskState'[u] \in NeedStates \cup {"TRANSMITTING"}
          => taskState[u] \in NeedStates \cup {"TRANSMITTING"}
    BY <1>1 DEF Update, NeedStates
  <2> QED
    BY <1>1, <2>1, NoNewUser DEF ScheduleInv, ConnExists
<1>2. CASE HttpFinish(t) \/ HandlerReply(t)
  <2>1. PICK r \in FinishResults(t) \cup ReplyResults(t),
             new \in SUBSET Free : Update(taskState, t, r[1], new)
    BY <1>2 DEF HttpFinish, HandlerReply, Become
  <2>2. r[1] \in {"SLEEP", "DONE"}
    BY ResultStates
  <2>3. IdleTimerSparesUsers'
    BY <1>1, <1>2, <2>1, <2>2 DEF HttpFinish, HandlerReply, connVars
  <2>4. nextRun'
    BY <1>2 DEF HttpFinish, HandlerReply
  <2> QED
    BY <2>3, <2>4, Woken DEF ScheduleInv
<1>3. CASE JobDone(t)
  <2>1. PICK r \in JobResults(t), new \in SUBSET Free :
           /\ Update(taskState, t,
                     IF taskState[t] = "NONE" THEN "NONE" ELSE r[1], new)
           /\ nextRun' = (nextRun \/ taskState[t] = "WORKING" \/ new # {})
    BY <1>3 DEF JobDone, Become
  <2>2. r[1] = "DONE"
    BY DEF JobResults
  <2>3. IdleTimerSparesUsers'
    BY <1>1, <1>3, <2>1, <2>2 DEF JobDone, connVars
  <2>4. CASE nextRun'
    BY <2>3, <2>4, Woken DEF ScheduleInv
  <2>5. CASE ~nextRun'
    <3>1. taskState[t] \in {"DONE", "NONE"} /\ new = {}
      BY <1>3, <2>1, <2>5 DEF JobDone, JobStates
    <3>2. UNCHANGED taskState
      BY <2>1, <2>2, <3>1 DEF Update, TypeOK
    <3>3. \A u \in Live : order'[u] = order[u]
      BY <2>1, <2>2, <3>1 DEF Update, Live
    <3>4. /\ UNCHANGED <<conn, closing, idleTimer, phase, started, connmanBusy>>
          /\ handlerBusy => handlerBusy'
          /\ ~nextRun
      <4>1. ~nextRun
        BY <2>1, <2>5
      <4>2. handlerBusy => handlerBusy'
        BY <1>3 DEF JobDone, MayCallHandler
      <4> QED
        BY <1>3, <4>1, <4>2 DEF JobDone, connVars
    <3>5. Still
      BY <3>2, <3>3, <3>4 DEF Still, IsActive, ConnExists, Live
    <3> QED
      BY <2>3, <3>5, StillKeeps DEF ScheduleInv, TypeOK
  <2> QED
    BY <2>4, <2>5 DEF TypeOK
<1>4. CASE Wakeup(t)
  <2>1. \A u \in Tasks : taskState'[u] \in NeedStates \cup {"TRANSMITTING"}
          => taskState[u] \in NeedStates \cup {"TRANSMITTING"}
    BY <1>4 DEF Wakeup, TypeOK, NeedStates
  <2>2. IdleTimerSparesUsers'
    BY <1>4, <2>1, NoNewUser DEF Wakeup, connVars, ScheduleInv, ConnExists
  <2> QED
    BY <1>4, <2>2, Woken DEF Wakeup, ScheduleInv
<1>5. CASE Expire(t)
  <2>1. UNCHANGED <<taskState, order, conn, closing, idleTimer, nextRun, phase,
                    started, handlerBusy, connmanBusy>>
    BY <1>5 DEF Expire, connVars
  <2>2. Still
    BY <2>1 DEF Still, IsActive, ConnExists, Live
  <2>3. IdleTimerSparesUsers'
    BY <2>1 DEF ScheduleInv, IdleTimerSparesUsers, ConnExists, Live
  <2> QED
    BY <2>2, <2>3, StillKeeps DEF ScheduleInv, TypeOK
<1> QED
  BY <1>2, <1>3, <1>4, <1>5 DEF TaskEvent

LEMMA UserSchedule ==
  ASSUME TypeOK, ScheduleInv, User
  PROVE  ScheduleInv'
<1>1. ASSUME NEW t \in Tasks, Request(t)
      PROVE  ScheduleInv'
  <2>1. \A u \in Tasks : taskState'[u] \in NeedStates \cup {"TRANSMITTING"}
          => taskState[u] \in NeedStates \cup {"TRANSMITTING"}
    BY <1>1 DEF Request, TypeOK, NeedStates
  <2>2. IdleTimerSparesUsers'
    BY <1>1, <2>1, NoNewUser DEF Request, connVars, ScheduleInv, ConnExists
  <2> QED
    BY <1>1, <2>2, Woken DEF Request, ScheduleInv
<1>2. ASSUME NEW S \in SUBSET Live, CancelTasks(S),
             nextRun' = (nextRun \/ AnyUndone(S)),
             UNCHANGED <<conn, order, idleTimer, phase, started, connmanBusy>>,
             ~AnyUndone(S) => UNCHANGED handlerBusy,
             closing => closing', phase = "OFF"
      PROVE  ScheduleInv'
  <2>1. \A u \in Tasks : taskState'[u] \in NeedStates \cup {"TRANSMITTING"}
          => taskState[u] \in NeedStates \cup {"TRANSMITTING"}
    BY <1>2 DEF CancelTasks, NeedStates
  <2>2. IdleTimerSparesUsers'
    BY <1>2, <2>1, NoNewUser DEF ScheduleInv, ConnExists
  <2>3. CASE AnyUndone(S)
    BY <1>2, <2>2, <2>3, Woken DEF ScheduleInv
  <2>4. CASE ~AnyUndone(S)
    <3>1. UNCHANGED taskState
      BY <1>2, <2>4 DEF AnyUndone, CancelTasks, TypeOK
    <3>2. Still
      <4>1. IsActive' = IsActive
        BY <1>2, <2>4, <3>1 DEF IsActive, ConnExists, Live
      <4>2. nextRun => nextRun'
        BY <1>2
      <4> QED
        BY <1>2, <3>1, <4>1, <4>2 DEF Still
    <3> QED
      BY <2>2, <3>2, StillKeeps DEF ScheduleInv, TypeOK
  <2> QED
    BY <2>3, <2>4
<1>3. ASSUME NEW m, CancelMessage(m)
      PROVE  ScheduleInv'
  <2>1. PICK S \in SUBSET Live :
           /\ CancelTasks(S)
           /\ nextRun' = (nextRun \/ AnyUndone(S))
           /\ ~AnyUndone(S) => UNCHANGED handlerBusy
    BY <1>3 DEF CancelMessage
  <2> QED
    BY <1>2, <1>3, <2>1 DEF CancelMessage, connVars
<1>4. CASE CancelAll
  <2>1. CASE ConnExists /\ DropConnection /\ CheckIfDone(TRUE)
    BY <2>1, DoneOrWoken DEF DropConnection
  <2>2. CASE ~(ConnExists /\ DropConnection /\ CheckIfDone(TRUE))
    <3>1. /\ IF ConnExists THEN CloseLater ELSE UNCHANGED <<conn, closing>>
          /\ nextRun' = (nextRun \/ AnyUndone(Live))
          /\ UNCHANGED <<idleTimer, started, connmanBusy>>
      BY <1>4, <2>2 DEF CancelAll
    <3>2. UNCHANGED conn /\ (closing => closing')
      BY <3>1 DEF CloseLater
    <3>3. /\ phase = "OFF" /\ CancelTasks(Live) /\ UNCHANGED <<order, phase>>
          /\ ~AnyUndone(Live) => UNCHANGED handlerBusy
      BY <1>4 DEF CancelAll
    <3> QED
      BY <1>2, <3>1, <3>2, <3>3
  <2> QED
    BY <2>1, <2>2
<1> QED
  BY <1>1, <1>3, <1>4 DEF User

LEMMA StepSchedule ==
  TypeOK /\ JobStates /\ ScheduleInv /\ [Next]_vars => ScheduleInv'
<1> SUFFICES ASSUME TypeOK, JobStates, ScheduleInv, [Next]_vars
             PROVE  ScheduleInv'
  OBVIOUS
<1>1. CASE NextRun
  BY <1>1, Running DEF NextRun, ScheduleInv
<1>2. CASE HandlerDone
  <2>1. IdleTimerSparesUsers'
    BY <1>2, NoNewUser DEF HandlerDone, taskVars, connVars, ScheduleInv,
                           ConnExists
  <2> QED
    BY <1>2, <2>1, Woken DEF HandlerDone, ScheduleInv
<1>3. CASE UNCHANGED vars
  <2>1. UNCHANGED <<taskState, order, conn, closing, idleTimer, nextRun, phase,
                    started, handlerBusy, connmanBusy>>
    BY <1>3 DEF vars
  <2>2. Still
    BY <2>1 DEF Still, IsActive, ConnExists, Live
  <2>3. IdleTimerSparesUsers'
    BY <2>1 DEF ScheduleInv, IdleTimerSparesUsers, ConnExists, Live
  <2> QED
    BY <2>2, <2>3, StillKeeps DEF ScheduleInv, TypeOK
<1> QED
  BY <1>1, <1>2, <1>3, LoopTaskSchedule, LoopEndSchedule, NetworkSchedule,
     TaskEventSchedule, UserSchedule DEF Next, LoopStep

(* All that is known of the dispatcher *)
DispatcherInv ==
  TypeOK /\ TransmitOnOpenConnection /\ JobStates /\ ScheduleInv

LEMMA Invariance == Spec => []DispatcherInv
<1>1. Init => DispatcherInv
  <2> SUFFICES ASSUME Init
               PROVE  DispatcherInv
    OBVIOUS
  <2>1. JobStates /\ TransmitOnOpenConnection
    BY DEF Init, JobStates, TransmitOnOpenConnection
  <2>2. Live = {} /\ ~ConnExists
    BY DEF Init, Live, ConnExists, NoConn
  <2>3. ScheduleInv
    BY <2>2 DEF Init, ScheduleInv, IdleTimerSparesUsers, UnusedConnectionEnds,
                DoneIsReported, HeadWaits
  <2> QED
    BY <2>1, <2>3, InitType DEF DispatcherInv
<1>2. DispatcherInv /\ [Next]_vars => DispatcherInv'
  BY StepType, StepTransmit, StepJobs, StepSchedule DEF DispatcherInv
<1> QED
  BY <1>1, <1>2, PTL DEF Spec

(* When no run is scheduled, a task that can be first in the queue waits for
   something that will schedule one, whatever happened since the last. *)
THEOREM NoWakeupLost == Spec => []NoLostWakeup
<1>1. DispatcherInv => NoLostWakeup
  BY DEF DispatcherInv, ScheduleInv, HeadWaits, NoLostWakeup, Quiescent
<1> QED
  BY <1>1, Invariance, PTL

(* A dispatcher that has nothing left to do has told its delegate. *)
THEOREM DelegateHears == Spec => []DoneIsReported
<1>1. DispatcherInv => DoneIsReported
  BY DEF DispatcherInv, ScheduleInv
<1> QED
  BY <1>1, Invariance, PTL

(* A connection that nobody uses is timed or being closed. *)
THEOREM UnusedEnds == Spec => []UnusedConnectionEnds
<1>1. DispatcherInv => UnusedConnectionEnds
  BY DEF DispatcherInv, ScheduleInv
<1> QED
  BY <1>1, Invariance, PTL

(* The timeout of the connection does not tick while anybody uses it. *)
THEOREM TimerSparesUsers == Spec => []IdleTimerSparesUsers
<1>1. DispatcherInv => IdleTimerSparesUsers
  BY DEF DispatcherInv, ScheduleInv
<1> QED
  BY <1>1, Invariance, PTL

-----------------------------------------------------------------------------
(* A transmission is not disturbed. *)

(* While a task transmits, the loop finds nothing to do. *)
LEMMA NoLoopTask ==
  ASSUME TransmitOnOpenConnection, NEW u \in Tasks,
         taskState[u] = "TRANSMITTING", NEW t \in Tasks
  PROVE  ~LoopTask(t)
<1> SUFFICES ASSUME LoopTask(t) PROVE FALSE
  OBVIOUS
<1>1. /\ t \in HeadTasks
      /\ taskState[t] \in {"READY", "DONE"} \cup NeedStates
  BY DEF LoopTask, RunReady, FreeDone, Transmit, AwaitOpen, AwaitClose,
         OpenConnection, NeedHead, Picked
<1>2. t = u
  BY <1>1, SenderComesFirst
<1> QED
  BY <1>1, <1>2 DEF NeedStates

Undisturbed(t) ==
  taskState[t] = "TRANSMITTING" =>
    /\ phase # "OFF" => taskState'[t] = "TRANSMITTING"
    /\ closing' /\ ~closing => taskState'[t] # "TRANSMITTING"

LEMMA StepUndisturbed ==
  ASSUME DispatcherInv, [Next]_vars, NEW t \in Tasks
  PROVE  Undisturbed(t)
<1> SUFFICES ASSUME taskState[t] = "TRANSMITTING"
             PROVE  Undisturbed(t)
  BY DEF Undisturbed
<1>1. CASE PickNothing \/ EndRun
  BY <1>1 DEF PickNothing, EndRun, taskVars, connVars, Undisturbed
<1>2. CASE \E u \in Tasks : LoopTask(u)
  BY <1>2, NoLoopTask DEF DispatcherInv
<1>3. CASE NextRun \/ HandlerDone \/ UNCHANGED vars
  BY <1>3 DEF NextRun, HandlerDone, taskVars, connVars, vars, Undisturbed
<1>4. CASE ConnOpened \/ ConnmanDone
  BY <1>4 DEF ConnOpened, ConnmanDone, taskVars, connVars, Undisturbed
<1>5. CASE ConnGone
  BY <1>5 DEF ConnGone, LoseConnection, DropConnection, Undisturbed
<1>6. CASE NetworkIdle
  <2>1. t \in Live
    BY DEF Live
  <2> QED
    BY <1>6, <2>1 DEF NetworkIdle, DispatcherInv, ScheduleInv,
                      IdleTimerSparesUsers
<1>7. CASE \E u \in Tasks : TaskEvent(u)
  <2>1. CASE \E u \in Tasks : Expire(u)
    BY <2>1 DEF Expire, connVars, Undisturbed
  <2>2. CASE ~\E u \in Tasks : Expire(u)
    BY <1>7, <2>2 DEF TaskEvent, HttpFinish, HandlerReply, JobDone, Wakeup,
                      connVars, Undisturbed
  <2> QED
    BY <2>1, <2>2
<1>8. CASE User
  <2>1. CASE CancelAll
    <3>1. phase = "OFF" /\ taskState'[t] = "DONE"
      BY <2>1 DEF CancelAll, CancelTasks, Live
    <3> QED
      BY <3>1 DEF Undisturbed
  <2>2. CASE ~CancelAll
    BY <1>8, <2>2 DEF User, Request, CancelMessage, connVars, Undisturbed
  <2> QED
    BY <2>1, <2>2
<1> QED
  BY <1>1, <1>2, <1>3, <1>4, <1>5, <1>6, <1>7, <1>8 DEF Next, LoopStep, Network

(* Neither the loop nor a timeout gets in the way of a task that transmits. *)
THEOREM SenderUndisturbed == Spec => TransmissionUndisturbed
<1>1. DispatcherInv /\ [Next]_vars
        => [\A t \in Tasks : taskState[t] = "TRANSMITTING" =>
              /\ phase # "OFF" => taskState'[t] = "TRANSMITTING"
              /\ closing' /\ ~closing => taskState'[t] # "TRANSMITTING"]_vars
  BY StepUndisturbed DEF Undisturbed
<1> QED
  BY <1>1, Invariance, PTL DEF Spec, TransmissionUndisturbed

-----------------------------------------------------------------------------
(* The engine.  Its dispatcher is this dispatcher, for any number of tasks,  *)
(* messages, SIMs and calls: the composed system implements it, so that all  *)
(* that is proved of the dispatcher holds of the engine's.                   *)

LEMMA EngineSteps == [EngineNext]_allVars => [Next]_vars
<1> SUFFICES ASSUME [EngineNext]_allVars
             PROVE  [Next]_vars
  OBVIOUS
<1>1. CASE \/ WithDispatcher(NextRun)
           \/ WithDispatcher(LoopStep)
           \/ WithDispatcher(Network)
           \/ WithDispatcher(HandlerDone)
           \/ \E t \in Tasks : WithDispatcher(TaskEvent(t))
  BY <1>1 DEF WithDispatcher, Next
<1>2. CASE \E t \in Tasks : EngineRequest(t)
  BY <1>2 DEF EngineRequest, Next, User
<1>3. CASE EngineCancel
  BY <1>3 DEF EngineCancel, Next, User
<1>4. CASE EngineStop
  BY <1>4 DEF EngineStop, Next, User
<1>5. CASE OtherCall \/ EngineIdle \/ StopCallback
  BY <1>5 DEF OtherCall, EngineIdle, StopCallback
<1>6. CASE UNCHANGED allVars
  BY <1>6 DEF allVars
<1> QED
  BY <1>1, <1>2, <1>3, <1>4, <1>5, <1>6 DEF EngineNext

(* The engine gives its dispatcher nothing to do that the dispatcher's
   specification does not allow. *)
THEOREM DispatcherImplemented == EngineSpec => Spec
<1>1. EngineInit => Init
  BY DEF EngineInit
<1> QED
  BY <1>1, EngineSteps, PTL DEF EngineSpec, Spec

(* So the engine's dispatcher loses no wakeup and no report either. *)
THEOREM EngineKeepsSchedule == EngineSpec => [](NoLostWakeup /\ DoneIsReported)
  BY DispatcherImplemented, NoWakeupLost, DelegateHears, PTL

-----------------------------------------------------------------------------
(* The inactivity timer.  A dispatcher that is not started has no task, no   *)
(* connection and nothing the connection manager is busy with, and gets none *)
(* before the next request: it reports that it is done only when it is, and  *)
(* what may still happen, the late end of a cancelled job, queues no task.   *)
(* Only a request starts it, and every method looks at the timer again.      *)

UnstartedIsIdle == ~started => Live = {} /\ ~ConnExists /\ ~connmanBusy

(* The report takes place when nothing is left. *)
LEMMA ReportedWhenIdle ==
  ASSUME started, ~started', NEW scheduled,
         \/ CheckIfDone(scheduled)
         \/ started' = (started /\ IsActive')
  PROVE  UnstartedIsIdle'
  BY DEF CheckIfDone, IsActive, UnstartedIsIdle

(* Without tasks, connection and calls, nothing appears but by a request. *)
LEMMA IdleStays ==
  ASSUME TypeOK, Live = {}, ~ConnExists, ~connmanBusy,
         \/ NextRun \/ LoopStep \/ Network \/ HandlerDone
         \/ (\E t \in Tasks : TaskEvent(t))
         \/ (\E m \in {Msg[t] : t \in Tasks} : CancelMessage(m)) \/ CancelAll
  PROVE  (Live = {} /\ ~ConnExists /\ ~connmanBusy)'
<1>1. \A t \in Tasks : taskState[t] = "NONE"
  BY DEF Live
<1>2. conn = NoConn /\ conn.state = "NONE"
  BY DEF TypeOK, Connections, ConnExists, NoConn
<1>3. SUFFICES UNCHANGED <<taskState, conn, connmanBusy>>
  BY DEF Live, ConnExists
<1>4. CASE NextRun
  BY <1>4 DEF NextRun, taskVars, connVars
<1>5. CASE LoopStep
  <2>1. CASE PickNothing
    BY <2>1 DEF PickNothing, taskVars, connVars
  <2>2. CASE EndRun
    BY <2>2 DEF EndRun, taskVars
  <2>3. ASSUME NEW t \in Tasks, LoopTask(t)
        PROVE  FALSE
    BY <1>1, <2>3 DEF LoopTask, RunReady, FreeDone, Transmit, AwaitOpen,
         AwaitClose, OpenConnection, NeedHead, NeedStates
  <2> QED
    BY <1>5, <2>1, <2>2, <2>3 DEF LoopStep
<1>6. CASE Network
  BY <1>2, <1>6 DEF Network, NetworkIdle, ConnOpened, ConnGone, ConnmanDone,
       CloseLater, LoseConnection
<1>7. CASE HandlerDone
  BY <1>7 DEF HandlerDone, taskVars, connVars
<1>8. ASSUME NEW t \in Tasks, TaskEvent(t)
      PROVE  UNCHANGED <<taskState, conn, connmanBusy>>
  <2>1. CASE JobDone(t)
    <3>1. PICK new : new \in NewTasks(t, {}) /\ Become(t, "NONE", new)
      BY <1>1, <2>1 DEF JobDone
    <3>2. new = {}
      BY <3>1 DEF NewTasks
    <3>3. taskState' = [u \in Tasks |-> IF u = t THEN "NONE" ELSE taskState[u]]
      BY <3>1, <3>2 DEF Become, Update
    <3>4. taskState' = taskState
      BY <1>1, <3>3 DEF TypeOK
    <3> QED
      BY <2>1, <3>4 DEF JobDone, connVars
  <2>2. ~(HttpFinish(t) \/ HandlerReply(t) \/ Wakeup(t) \/ Expire(t))
    BY <1>1 DEF HttpFinish, HandlerReply, Wakeup, Expire
  <2> QED
    BY <1>8, <2>1, <2>2 DEF TaskEvent
<1>9. CASE CancelAll
  <2>1. UNCHANGED <<conn, connmanBusy>>
    BY <1>9 DEF CancelAll
  <2>2. taskState' = [t \in Tasks |-> taskState[t]]
    BY <1>9 DEF CancelAll, CancelTasks
  <2>3. taskState' = taskState
    BY <2>2 DEF TypeOK
  <2> QED
    BY <2>1, <2>3
<1>10. ASSUME NEW m, CancelMessage(m)
       PROVE  FALSE
  BY <1>10 DEF CancelMessage
<1> QED
  BY <1>4, <1>5, <1>6, <1>7, <1>8, <1>9, <1>10

LEMMA OnlyRequestsStart ==
  ASSUME \/ NextRun \/ LoopStep \/ Network \/ HandlerDone
         \/ (\E t \in Tasks : TaskEvent(t)) \/ CancelAll,
         started'
  PROVE  started
<1>1. CASE NextRun \/ HandlerDone \/ CancelAll
  BY <1>1 DEF NextRun, HandlerDone, CancelAll, CheckIfDone
<1>2. CASE LoopStep
  BY <1>2 DEF LoopStep, PickNothing, EndRun, LoopTask, RunReady, FreeDone,
              Transmit, AwaitOpen, AwaitClose, OpenConnection, CheckIfDone
<1>3. CASE Network
  BY <1>3 DEF Network, NetworkIdle, ConnOpened, ConnGone, ConnmanDone,
              CheckIfDone
<1>4. CASE \E t \in Tasks : TaskEvent(t)
  BY <1>4 DEF TaskEvent, HttpFinish, HandlerReply, JobDone, Wakeup, Expire
<1> QED
  BY <1>1, <1>2, <1>3, <1>4

(* When it ceases to be started, it is idle. *)
LEMMA StopsWhenIdle ==
  ASSUME [Next]_vars, started, ~started'
  PROVE  UnstartedIsIdle'
<1>1. CASE NextRun \/ HandlerDone
  BY <1>1 DEF NextRun, HandlerDone
<1>2. CASE LoopStep
  <2>1. EndRun
    BY <1>2 DEF LoopStep, PickNothing, LoopTask, RunReady, FreeDone, Transmit,
                AwaitOpen, AwaitClose, OpenConnection
  <2> QED
    BY <2>1, ReportedWhenIdle DEF EndRun
<1>3. CASE Network
  <2>1. (\E b : CheckIfDone(b)) \/ started' = (started /\ IsActive')
    BY <1>3 DEF Network, NetworkIdle, ConnOpened, ConnGone, ConnmanDone
  <2> QED
    BY <2>1, ReportedWhenIdle
<1>4. CASE \E t \in Tasks : TaskEvent(t)
  BY <1>4 DEF TaskEvent, HttpFinish, HandlerReply, JobDone, Wakeup, Expire
<1>5. CASE User
  <2>1. CheckIfDone(TRUE)
    BY <1>5 DEF User, Request, CancelMessage, CancelAll
  <2> QED
    BY <2>1, ReportedWhenIdle
<1>6. CASE UNCHANGED vars
  BY <1>6 DEF vars
<1> QED
  BY <1>1, <1>2, <1>3, <1>4, <1>5, <1>6 DEF Next

LEMMA StepUnstarted ==
  TypeOK /\ UnstartedIsIdle /\ [Next]_vars => UnstartedIsIdle'
<1> SUFFICES ASSUME TypeOK, UnstartedIsIdle, [Next]_vars, ~started'
             PROVE  UnstartedIsIdle'
  BY DEF UnstartedIsIdle
<1>1. CASE started
  BY <1>1, StopsWhenIdle
<1>2. CASE ~started
  <2>1. Live = {} /\ ~ConnExists /\ ~connmanBusy
    BY <1>2 DEF UnstartedIsIdle
  <2>2. \A t \in Tasks : ~Request(t)
    BY DEF Request
  <2>3. CASE UNCHANGED vars
    BY <2>1, <2>3 DEF vars, UnstartedIsIdle, Live, ConnExists
  <2> QED
    BY <2>1, <2>2, <2>3, IdleStays DEF Next, User, UnstartedIsIdle
<1> QED
  BY <1>1, <1>2

LEMMA UnstartedIdle == Spec => []UnstartedIsIdle
<1>1. Init => UnstartedIsIdle
  BY DEF Init, UnstartedIsIdle, Live, ConnExists, NoConn
<1> QED
  BY <1>1, StepUnstarted, TypeCorrect, PTL DEF Spec

(* The timer ticks only when the dispatcher is not started. *)
TimerUnstarted == engineTimer => ~started

LEMMA StepTimer ==
  TimerUnstarted /\ [EngineNext]_allVars => TimerUnstarted'
<1> SUFFICES ASSUME TimerUnstarted, [EngineNext]_allVars,
                    engineTimer', started'
             PROVE  FALSE
  BY DEF TimerUnstarted
<1>1. ~IdleTimerCheck
  BY DEF IdleTimerCheck
<1>2. CASE \/ WithDispatcher(NextRun)
           \/ WithDispatcher(LoopStep)
           \/ WithDispatcher(Network)
           \/ WithDispatcher(HandlerDone)
           \/ \E t \in Tasks : WithDispatcher(TaskEvent(t))
  <2>1. started /\ DispatcherDone
    BY <1>2, OnlyRequestsStart DEF WithDispatcher
  <2>2. ~DoneReported
    BY DEF DoneReported
  <2>3. engineTimer
    BY <2>1, <2>2 DEF DispatcherDone
  <2> QED
    BY <2>1, <2>3 DEF TimerUnstarted
<1>3. CASE (\E t \in Tasks : EngineRequest(t)) \/ EngineCancel \/ OtherCall
  <2>1. engineTimer' = IdleTimerCheck
    BY <1>3 DEF EngineRequest, EngineCancel, OtherCall
  <2> QED
    BY <1>1, <2>1
<1>4. CASE EngineStop
  <2>1. started /\ engineTimer
    <3>1. engineTimer
      BY <1>4 DEF EngineStop
    <3>2. CASE CancelAll
      BY <3>1, <3>2, OnlyRequestsStart
    <3>3. CASE UNCHANGED vars
      BY <3>1, <3>3 DEF vars
    <3> QED
      BY <1>4, <3>2, <3>3 DEF EngineStop
  <2> QED
    BY <2>1 DEF TimerUnstarted
<1>5. CASE EngineIdle
  BY <1>5 DEF EngineIdle
<1>6. CASE StopCallback
  BY <1>6 DEF StopCallback, vars, TimerUnstarted
<1>7. CASE UNCHANGED allVars
  BY <1>7 DEF allVars, vars, engineVars, TimerUnstarted
<1> QED
  BY <1>2, <1>3, <1>4, <1>5, <1>6, <1>7 DEF EngineNext

(* The engine's inactivity timer does not tick while the dispatcher has a
   task or a connection or keeps the connection manager busy. *)
THEOREM EngineTimer == EngineSpec => []TimerSparesWork
<1>1. EngineInit => TimerUnstarted
  BY DEF EngineInit, Init, TimerUnstarted
<1>2. EngineSpec => []TimerUnstarted
  BY <1>1, StepTimer, PTL DEF EngineSpec
<1>3. TimerUnstarted /\ UnstartedIsIdle => TimerSparesWork
  BY DEF TimerUnstarted, UnstartedIsIdle, TimerSparesWork
<1> QED
  BY <1>2, <1>3, DispatcherImplemented, UnstartedIdle, PTL

(***************************************************************************)
(* The sort.  Its two functions are defined by recursion: first that there *)
(* are such functions, then, by the least queue that would go wrong, what  *)
(* they make of a queue.                                                   *)
(***************************************************************************)

(* A set of naturals that is not empty has a least element. *)
LEMMA LeastOf ==
  ASSUME NEW T, T \subseteq Nat, T # {}
  PROVE  \E n \in T : \A m \in T : n <= m
<1> DEFINE R == {ss \in Nat \X Nat : ss[1] < ss[2]}
<1>1. IsWellFoundedOn(R, Nat)
  BY NatLessThanWellFounded DEF OpToRel
<1>2. \A m, n \in Nat : m < n => <<m, n>> \in R
  OBVIOUS
<1> HIDE DEF R
<1>3. \E n \in T : \A m \in T : <<m, n>> \notin R
  BY <1>1, WFMin
<1>4. PICK n \in T : \A m \in T : <<m, n>> \notin R
  BY <1>3
<1>5. \A m \in T : ~(m < n)
  BY <1>2, <1>4
<1>6. \A m \in T : n <= m
  BY <1>5
<1> QED
  BY <1>6

(***************************************************************************)
(* A function that is defined by recursion over a size exists: B makes of  *)
(* an argument and a function the value at the argument, and looks at the  *)
(* function only at arguments of smaller size.                             *)
(***************************************************************************)

Smaller(D, V, size, B) ==
  \A p \in D : \A f, g \in [D -> V] :
    (\A q \in D : size[q] < size[p] => f[q] = g[q])
      => B[<<p, f>>] = B[<<p, g>>]

Solves(f, D, B) == \A p \in D : f[p] = B[<<p, f>>]

LEMMA Recursion ==
  ASSUME NEW D, NEW V, NEW v0 \in V, NEW size \in [D -> Nat],
         NEW B \in [D \X [D -> V] -> V], Smaller(D, V, size, B)
  PROVE  \E f \in [D -> V] : Solves(f, D, B)
<1> DEFINE Good(f, n) == /\ f \in [D -> V]
                         /\ \A p \in D : size[p] < n => f[p] = B[<<p, f>>]
           Local == \A p \in D : \A f, g \in [D -> V] :
                      (\A q \in D : size[q] < size[p] => f[q] = g[q])
                        => B[<<p, f>>] = B[<<p, g>>]
<1>0. Local
  BY DEF Smaller
<1> HIDE DEF Local
<1>1. \A n \in Nat : \E f : Good(f, n)
  <2> DEFINE bad == {n \in Nat : ~ \E f : Good(f, n)}
  <2> SUFFICES ASSUME bad # {} PROVE FALSE
    OBVIOUS
  <2>1. PICK n \in bad : \A m \in bad : n <= m
    <3> HIDE DEF bad
    <3>1. bad \subseteq Nat
      BY DEF bad
    <3> QED
      BY <3>1, LeastOf
  <2>2. n # 0
    <3>1. [p \in D |-> v0] \in [D -> V]
      OBVIOUS
    <3>2. \A p \in D : ~ (size[p] < 0)
      OBVIOUS
    <3>3. Good([p \in D |-> v0], 0)
      BY <3>1, <3>2
    <3> QED
      BY <3>3
  <2>3. n - 1 \in Nat /\ n - 1 \notin bad
    <3>1. n \in Nat
      OBVIOUS
    <3>2. n - 1 \in Nat /\ ~(n <= n - 1)
      BY <2>2, <3>1
    <3> HIDE DEF bad
    <3> QED
      BY <2>1, <3>2
  <2>4. PICK f : Good(f, n - 1)
    BY <2>3
  <2> DEFINE h == [p \in D |-> B[<<p, f>>]]
  <2>5. h \in [D -> V]
    BY <2>4
  <2>6. ASSUME NEW p \in D, size[p] < n PROVE h[p] = B[<<p, h>>]
    <3>1. \A q \in D : size[q] < size[p] => f[q] = h[q]
      <4> SUFFICES ASSUME NEW q \in D, size[q] < size[p] PROVE f[q] = h[q]
        OBVIOUS
      <4>1. size[q] < n - 1
        BY <2>3, <2>6
      <4>2. f[q] = B[<<q, f>>]
        BY <2>4, <4>1
      <4> QED
        BY <4>2
    <3>2. f \in [D -> V]
      BY <2>4
    <3>3. B[<<p, f>>] = B[<<p, h>>]
      <4> HIDE DEF h
      <4> QED
        BY <1>0, <2>5, <3>1, <3>2 DEF Local
    <3>4. h[p] = B[<<p, f>>]
      OBVIOUS
    <3> QED
      BY <3>3, <3>4
  <2>7. Good(h, n)
    <3> HIDE DEF h
    <3> QED
      BY <2>5, <2>6
  <2> QED
    BY <2>7
<1>2. ASSUME NEW m \in Nat, NEW n \in Nat, NEW f, NEW g,
             Good(f, m), Good(g, n)
      PROVE  \A p \in D : size[p] < m /\ size[p] < n => f[p] = g[p]
  <2> DEFINE P(p) == size[p] < m /\ size[p] < n /\ f[p] # g[p]
             bad == {size[p] : p \in {q \in D : P(q)}}
  <2> SUFFICES ASSUME NEW p0 \in D, P(p0) PROVE FALSE
    OBVIOUS
  <2>1. size[p0] \in bad /\ bad \subseteq Nat
    OBVIOUS
  <2>2. PICK k \in bad : \A j \in bad : k <= j
    <3> HIDE DEF bad
    <3> QED
      BY <2>1, LeastOf
  <2>3. PICK p \in D : P(p) /\ size[p] = k
    OBVIOUS
  <2>4. \A q \in D : size[q] < size[p] => f[q] = g[q]
    <3> SUFFICES ASSUME NEW q \in D, size[q] < size[p], f[q] # g[q]
                 PROVE  FALSE
      OBVIOUS
    <3>0. size[q] < size[p]
      OBVIOUS
    <3>1. size[q] < m /\ size[q] < n
      BY <2>3
    <3>2. size[q] \in bad
      BY <3>1
    <3>3. size[q] \in Nat /\ size[p] \in Nat
      OBVIOUS
    <3> HIDE DEF bad
    <3> QED
      BY <2>2, <2>3, <3>0, <3>2, <3>3
  <2>5. B[<<p, f>>] = B[<<p, g>>]
    BY <1>0, <1>2, <2>4 DEF Local
  <2> QED
    BY <1>2, <2>3, <2>5
<1> DEFINE G(n) == CHOOSE f : Good(f, n)
           F == [p \in D |-> G(size[p] + 1)[p]]
<1> HIDE DEF Good
<1>3. \A n \in Nat : Good(G(n), n)
  BY <1>1
<1>4. F \in [D -> V]
  <2>1. ASSUME NEW p \in D PROVE G(size[p] + 1)[p] \in V
    <3>1. size[p] + 1 \in Nat
      OBVIOUS
    <3>2. Good(G(size[p] + 1), size[p] + 1)
      BY <1>3, <3>1
    <3>3. G(size[p] + 1) \in [D -> V]
      BY <3>2 DEF Good
    <3> QED
      BY <3>3
  <2> QED
    BY <2>1
<1>5. ASSUME NEW p \in D PROVE F[p] = B[<<p, F>>]
  <2> DEFINE f == G(size[p] + 1)
  <2>1. Good(f, size[p] + 1)
    BY <1>3
  <2> HIDE DEF f
  <2>2. f \in [D -> V] /\ f[p] = B[<<p, f>>]
    BY <2>1 DEF Good
  <2>3. \A q \in D : size[q] < size[p] => f[q] = F[q]
    <3> SUFFICES ASSUME NEW q \in D, size[q] < size[p] PROVE f[q] = F[q]
      OBVIOUS
    <3> DEFINE g == G(size[q] + 1)
    <3>1. Good(g, size[q] + 1)
      BY <1>3
    <3> HIDE DEF g
    <3>2. /\ size[q] \in Nat /\ size[p] \in Nat
          /\ size[q] < size[p] + 1 /\ size[q] < size[q] + 1
      OBVIOUS
    <3>4. /\ size[q] + 1 \in Nat /\ size[p] + 1 \in Nat
      OBVIOUS
    <3>5. f[q] = g[q]
      BY <1>2, <2>1, <3>1, <3>2, <3>4
    <3>3. F[q] = g[q]
      BY DEF g
    <3> QED
      BY <3>3, <3>5
  <2>4. B[<<p, f>>] = B[<<p, F>>]
    <3> HIDE DEF F
    <3> QED
      BY <1>0, <1>4, <2>2, <2>3 DEF Local
  <2>5. F[p] = f[p]
    BY DEF f
  <2> QED
    BY <2>2, <2>4, <2>5
<1> QED
  BY <1>4, <1>5 DEF Solves

(***************************************************************************)
(* The merge.                                                              *)
(***************************************************************************)

LEMMA HeadTail ==
  ASSUME NEW T, NEW s \in Seq(T), s # <<>>
  PROVE  /\ Head(s) \in T /\ Head(s) = s[1]
         /\ Tail(s) \in Seq(T) /\ Len(Tail(s)) = Len(s) - 1
         /\ \A i \in 1..Len(s) - 1 : Tail(s)[i] = s[i + 1]
         /\ Len(s) \in Nat /\ Len(s) > 0
  OBVIOUS

LEMMA Front ==
  ASSUME NEW T, NEW t \in T, NEW s \in Seq(T)
  PROVE  /\ <<t>> \o s \in Seq(T) /\ <<t>> \o s # <<>>
         /\ Len(<<t>> \o s) = Len(s) + 1
         /\ (<<t>> \o s)[1] = t
         /\ \A i \in 1..Len(s) : (<<t>> \o s)[i + 1] = s[i]
  OBVIOUS

(* One step of the merge, when m is what is done with shorter queues *)
MergeStep(m, l, r, c) ==
  IF l = <<>> THEN r
  ELSE IF r = <<>> THEN l
  ELSE IF Precedes(Head(r), Head(l), c)
       THEN <<Head(r)>> \o m[<<l, Tail(r)>>]
       ELSE <<Head(l)>> \o m[<<Tail(l), r>>]

LEMMA MergeIs ==
  ASSUME NEW T, NEW c
  PROVE  \A l, r \in Seq(T) :
           /\ Merge(T, c)[<<l, r>>] \in Seq(T)
           /\ Merge(T, c)[<<l, r>>] = MergeStep(Merge(T, c), l, r, c)
<1> DEFINE D == Seq(T) \X Seq(T)
           V == Seq(T)
           size == [p \in D |-> Len(p[1]) + Len(p[2])]
           B == [x \in D \X [D -> V] |->
                   MergeStep(x[2], x[1][1], x[1][2], c)]
<1>1. <<>> \in V
  OBVIOUS
<1>2. size \in [D -> Nat]
  <2>1. \A s \in Seq(T) : Len(s) \in Nat
    OBVIOUS
  <2>2. ASSUME NEW p \in D PROVE Len(p[1]) + Len(p[2]) \in Nat
    <3>1. p[1] \in Seq(T) /\ p[2] \in Seq(T)
      OBVIOUS
    <3>2. Len(p[1]) \in Nat /\ Len(p[2]) \in Nat
      BY <2>1, <3>1
    <3> QED
      BY <3>2
  <2> QED
    BY <2>2
<1>3. ASSUME NEW l \in Seq(T), NEW r \in Seq(T), NEW f \in [D -> V]
      PROVE  MergeStep(f, l, r, c) \in V
  <2>1. CASE l = <<>> \/ r = <<>>
    BY <2>1 DEF MergeStep
  <2>2. CASE l # <<>> /\ r # <<>>
    <3>1. /\ Head(l) \in T /\ Tail(l) \in Seq(T)
          /\ Head(r) \in T /\ Tail(r) \in Seq(T)
      BY <2>2, HeadTail
    <3>2. <<l, Tail(r)>> \in D /\ <<Tail(l), r>> \in D
      BY <3>1
    <3>3. f[<<l, Tail(r)>>] \in V /\ f[<<Tail(l), r>>] \in V
      BY <3>2
    <3>4. /\ <<Head(r)>> \o f[<<l, Tail(r)>>] \in V
          /\ <<Head(l)>> \o f[<<Tail(l), r>>] \in V
      BY <3>1, <3>3, Front
    <3> QED
      BY <2>2, <3>4 DEF MergeStep
  <2> QED
    BY <2>1, <2>2
<1>0. ASSUME NEW l \in Seq(T), NEW r \in Seq(T), l # <<>>, r # <<>>
      PROVE  /\ <<l, Tail(r)>> \in D /\ size[<<l, Tail(r)>>] < size[<<l, r>>]
             /\ <<Tail(l), r>> \in D /\ size[<<Tail(l), r>>] < size[<<l, r>>]
  <2>1. /\ Tail(l) \in Seq(T) /\ Len(Tail(l)) = Len(l) - 1
        /\ Tail(r) \in Seq(T) /\ Len(Tail(r)) = Len(r) - 1
        /\ Len(l) \in Nat /\ Len(r) \in Nat
    BY <1>0, HeadTail
  <2>2. <<l, r>> \in D /\ <<l, Tail(r)>> \in D /\ <<Tail(l), r>> \in D
    BY <2>1
  <2>3. /\ size[<<l, r>>] = Len(l) + Len(r)
        /\ size[<<l, Tail(r)>>] = Len(l) + Len(Tail(r))
        /\ size[<<Tail(l), r>>] = Len(Tail(l)) + Len(r)
    BY <2>2
  <2> HIDE DEF size, D
  <2> QED
    BY <2>1, <2>2, <2>3
<1>4. B \in [D \X [D -> V] -> V]
  <2>1. ASSUME NEW x \in D \X [D -> V]
        PROVE  MergeStep(x[2], x[1][1], x[1][2], c) \in V
    <3>1. x[1] \in D /\ x[2] \in [D -> V]
      OBVIOUS
    <3>2. x[1][1] \in Seq(T) /\ x[1][2] \in Seq(T)
      BY <3>1
    <3> QED
      BY <1>3, <3>1, <3>2
  <2> QED
    BY <2>1
<1>5. ASSUME NEW p \in D, NEW f \in [D -> V], NEW g \in [D -> V],
             \A q \in D : size[q] < size[p] => f[q] = g[q]
      PROVE  B[<<p, f>>] = B[<<p, g>>]
  <2> DEFINE l == p[1]
             r == p[2]
  <2>1. l \in Seq(T) /\ r \in Seq(T)
    OBVIOUS
  <2>2. /\ B[<<p, f>>] = MergeStep(f, l, r, c)
        /\ B[<<p, g>>] = MergeStep(g, l, r, c)
    OBVIOUS
  <2>3. CASE l = <<>> \/ r = <<>>
    BY <2>2, <2>3 DEF MergeStep
  <2>4. CASE l # <<>> /\ r # <<>>
    <3>1. p = <<l, r>>
      OBVIOUS
    <3>2. /\ <<l, Tail(r)>> \in D /\ size[<<l, Tail(r)>>] < size[p]
          /\ <<Tail(l), r>> \in D /\ size[<<Tail(l), r>>] < size[p]
      <4> HIDE DEF D, size, l, r
      <4> QED
        BY <1>0, <2>1, <2>4, <3>1
    <3>5. /\ f[<<l, Tail(r)>>] = g[<<l, Tail(r)>>]
          /\ f[<<Tail(l), r>>] = g[<<Tail(l), r>>]
      BY <1>5, <3>2
    <3> HIDE DEF B, l, r
    <3> QED
      BY <2>2, <3>5 DEF MergeStep
  <2> QED
    BY <2>3, <2>4
<1>6. PICK f \in [D -> V] : Solves(f, D, B)
  <2>1. Smaller(D, V, size, B)
    <3> HIDE DEF B, D, V, size
    <3> QED
      BY <1>5 DEF Smaller
  <2> HIDE DEF B, D, V, size
  <2> QED
    BY <1>1, <1>2, <1>4, <2>1, Recursion
<1>7. f = [p \in D |-> MergeStep(f, p[1], p[2], c)]
  BY <1>6 DEF Solves
<1>8. Merge(T, c) = [p \in D |-> MergeStep(Merge(T, c), p[1], p[2], c)]
  BY <1>7 DEF Merge, MergeStep
<1>9. \A p \in D : Merge(T, c)[p] \in V
  <2> DEFINE bad == {size[p] : p \in {q \in D : Merge(T, c)[q] \notin V}}
  <2> SUFFICES ASSUME NEW p0 \in D, Merge(T, c)[p0] \notin V PROVE FALSE
    OBVIOUS
  <2>1. bad \subseteq Nat /\ bad # {}
    <3>1. size[p0] \in bad
      OBVIOUS
    <3>2. bad \subseteq Nat
      <4> HIDE DEF size, D, V
      <4> QED
        BY <1>2
    <3> QED
      BY <3>1, <3>2
  <2>2. PICK k \in bad : \A j \in bad : k <= j
    <3> HIDE DEF bad
    <3> QED
      BY <2>1, LeastOf
  <2>3. PICK p \in D : Merge(T, c)[p] \notin V /\ size[p] = k
    OBVIOUS
  <2>4. ASSUME NEW q \in D, size[q] < size[p]
        PROVE  Merge(T, c)[q] \in V
    <3>1. size[q] \in bad => size[p] <= size[q]
      BY <2>2, <2>3
    <3>2. size[q] \in Nat /\ size[p] \in Nat
      BY <1>2
    <3>3. size[q] \notin bad
      <4> HIDE DEF bad, size
      <4> QED
        BY <2>4, <3>1, <3>2
    <3> QED
      BY <3>3
  <2> DEFINE l == p[1]
             r == p[2]
  <2>5. l \in Seq(T) /\ r \in Seq(T) /\ p = <<l, r>>
    OBVIOUS
  <2>6. Merge(T, c)[p] = MergeStep(Merge(T, c), l, r, c)
    <3> HIDE DEF D
    <3> QED
      BY <1>8
  <2>7. CASE l = <<>> \/ r = <<>>
    BY <2>3, <2>5, <2>6, <2>7 DEF MergeStep
  <2>8. CASE l # <<>> /\ r # <<>>
    <3>1. /\ Merge(T, c)[<<l, Tail(r)>>] \in V
          /\ Merge(T, c)[<<Tail(l), r>>] \in V
      <4> HIDE DEF D, size, l, r
      <4> QED
        BY <1>0, <2>4, <2>5, <2>8
    <3>2. Head(l) \in T /\ Head(r) \in T
      BY <2>5, <2>8, HeadTail
    <3>3. /\ <<Head(r)>> \o Merge(T, c)[<<l, Tail(r)>>] \in V
          /\ <<Head(l)>> \o Merge(T, c)[<<Tail(l), r>>] \in V
      BY <3>1, <3>2, Front
    <3> HIDE DEF l, r
    <3> QED
      BY <2>3, <2>6, <2>8, <3>3 DEF MergeStep
  <2> QED
    BY <2>7, <2>8
<1> QED
  <2> SUFFICES ASSUME NEW l \in Seq(T), NEW r \in Seq(T)
               PROVE  /\ Merge(T, c)[<<l, r>>] \in Seq(T)
                      /\ Merge(T, c)[<<l, r>>] = MergeStep(Merge(T, c), l, r, c)
    OBVIOUS
  <2>1. <<l, r>> \in D
    OBVIOUS
  <2>2. Merge(T, c)[<<l, r>>] = MergeStep(Merge(T, c), l, r, c)
    BY <1>8, <2>1
  <2> QED
    BY <1>9, <2>1, <2>2

(***************************************************************************)
(* The sort.                                                               *)
(***************************************************************************)

Left(s) == SubSeq(s, 1, Len(s) \div 2)
Right(s) == SubSeq(s, (Len(s) \div 2) + 1, Len(s))

LEMMA Halves ==
  ASSUME NEW T, NEW s \in Seq(T), ~(Len(s) < 2)
  PROVE  \E h \in Nat :
           /\ h = Len(s) \div 2 /\ 0 < h /\ h < Len(s) /\ Len(s) \in Nat
           /\ Left(s) \in Seq(T) /\ Len(Left(s)) = h
           /\ \A i \in 1..h : Left(s)[i] = s[i]
           /\ Right(s) \in Seq(T) /\ Len(Right(s)) = Len(s) - h
           /\ \A i \in 1..Len(s) - h : Right(s)[i] = s[h + i]
<1> DEFINE h == Len(s) \div 2
<1>1. Len(s) \in Nat
  OBVIOUS
<1>2. h \in Nat /\ 0 < h /\ h < Len(s)
  <2>1. \A n \in Nat : ~(n < 2) => /\ n \div 2 \in Nat
                                   /\ 0 < n \div 2 /\ n \div 2 < n
    OBVIOUS
  <2> QED
    BY <1>1, <2>1
<1>3. ASSUME NEW k \in Nat, 0 < k, k < Len(s)
      PROVE  /\ SubSeq(s, 1, k) \in Seq(T) /\ Len(SubSeq(s, 1, k)) = k
             /\ \A i \in 1..k : SubSeq(s, 1, k)[i] = s[i]
             /\ SubSeq(s, k + 1, Len(s)) \in Seq(T)
             /\ Len(SubSeq(s, k + 1, Len(s))) = Len(s) - k
             /\ \A i \in 1..Len(s) - k :
                  SubSeq(s, k + 1, Len(s))[i] = s[k + i]
  BY <1>1, <1>3
<1> QED
  BY <1>1, <1>2, <1>3 DEF Left, Right

(* One step of the sort, when m is what is done with shorter queues *)
SortStep(m, s, T, c) ==
  IF Len(s) < 2 THEN s ELSE Merge(T, c)[<<m[Left(s)], m[Right(s)]>>]

LEMMA SortIs ==
  ASSUME NEW T, NEW c
  PROVE  \A s \in Seq(T) :
           /\ MergeSort(T, c)[s] \in Seq(T)
           /\ MergeSort(T, c)[s] = SortStep(MergeSort(T, c), s, T, c)
<1> DEFINE V == Seq(T)
           size == [s \in V |-> Len(s)]
           B == [x \in V \X [V -> V] |-> SortStep(x[2], x[1], T, c)]
<1>1. <<>> \in V
  OBVIOUS
<1>2. size \in [V -> Nat]
  OBVIOUS
<1>3. ASSUME NEW s \in V, ~(Len(s) < 2)
      PROVE  /\ Left(s) \in V /\ size[Left(s)] < size[s]
             /\ Right(s) \in V /\ size[Right(s)] < size[s]
  <2>1. PICK h \in Nat :
          /\ 0 < h /\ h < Len(s) /\ Len(s) \in Nat
          /\ Left(s) \in V /\ Len(Left(s)) = h
          /\ Right(s) \in V /\ Len(Right(s)) = Len(s) - h
    BY <1>3, Halves
  <2>2. /\ size[s] = Len(s) /\ size[Left(s)] = h
        /\ size[Right(s)] = Len(s) - h
    BY <2>1
  <2> HIDE DEF size, V
  <2> QED
    BY <2>1, <2>2
<1>4. ASSUME NEW s \in V, NEW f \in [V -> V]
      PROVE  SortStep(f, s, T, c) \in V
  <2>1. CASE Len(s) < 2
    BY <2>1 DEF SortStep
  <2>2. CASE ~(Len(s) < 2)
    <3>1. f[Left(s)] \in Seq(T) /\ f[Right(s)] \in Seq(T)
      BY <1>3, <2>2
    <3>2. Merge(T, c)[<<f[Left(s)], f[Right(s)]>>] \in V
      BY <3>1, MergeIs
    <3> QED
      BY <2>2, <3>2 DEF SortStep
  <2> QED
    BY <2>1, <2>2
<1>5. B \in [V \X [V -> V] -> V]
  <2>1. ASSUME NEW x \in V \X [V -> V]
        PROVE  SortStep(x[2], x[1], T, c) \in V
    <3>1. x[1] \in V /\ x[2] \in [V -> V]
      OBVIOUS
    <3> HIDE DEF V
    <3> QED
      BY <1>4, <3>1
  <2> QED
    BY <2>1
<1>6. Smaller(V, V, size, B)
  <2> SUFFICES ASSUME NEW s \in V, NEW f \in [V -> V], NEW g \in [V -> V],
                      \A q \in V : size[q] < size[s] => f[q] = g[q]
               PROVE  B[<<s, f>>] = B[<<s, g>>]
    <3> HIDE DEF B, V, size
    <3> QED
      BY DEF Smaller
  <2>1. /\ B[<<s, f>>] = SortStep(f, s, T, c)
        /\ B[<<s, g>>] = SortStep(g, s, T, c)
    <3> HIDE DEF V
    <3> QED
      OBVIOUS
  <2>2. CASE Len(s) < 2
    BY <2>1, <2>2 DEF SortStep
  <2>3. CASE ~(Len(s) < 2)
    <3>1. f[Left(s)] = g[Left(s)] /\ f[Right(s)] = g[Right(s)]
      <4> HIDE DEF V, size
      <4> QED
        BY <1>3, <2>3
    <3> HIDE DEF B
    <3> QED
      BY <2>1, <3>1 DEF SortStep
  <2> QED
    BY <2>2, <2>3
<1>7. PICK f \in [V -> V] : Solves(f, V, B)
  <2> HIDE DEF B, V, size
  <2> QED
    BY <1>1, <1>2, <1>5, <1>6, Recursion
<1>8. f = [s \in V |-> SortStep(f, s, T, c)]
  BY <1>7 DEF Solves
<1>9. MergeSort(T, c) = [s \in V |-> SortStep(MergeSort(T, c), s, T, c)]
  BY <1>8 DEF MergeSort, SortStep, Left, Right
<1>10. \A s \in V : MergeSort(T, c)[s] \in V
  <2> DEFINE bad == {size[s] : s \in {q \in V : MergeSort(T, c)[q] \notin V}}
  <2> SUFFICES ASSUME NEW s0 \in V, MergeSort(T, c)[s0] \notin V PROVE FALSE
    OBVIOUS
  <2>1. bad \subseteq Nat /\ bad # {}
    <3>1. size[s0] \in bad
      OBVIOUS
    <3>2. bad \subseteq Nat
      <4> HIDE DEF size, V
      <4> QED
        BY <1>2
    <3> QED
      BY <3>1, <3>2
  <2>2. PICK k \in bad : \A j \in bad : k <= j
    <3> HIDE DEF bad
    <3> QED
      BY <2>1, LeastOf
  <2>3. PICK s \in V : MergeSort(T, c)[s] \notin V /\ size[s] = k
    OBVIOUS
  <2>4. ASSUME NEW q \in V, size[q] < size[s]
        PROVE  MergeSort(T, c)[q] \in V
    <3>1. size[q] \in bad => size[s] <= size[q]
      BY <2>2, <2>3
    <3>2. size[q] \in Nat /\ size[s] \in Nat
      BY <1>2
    <3>3. size[q] \notin bad
      <4> HIDE DEF bad, size
      <4> QED
        BY <2>4, <3>1, <3>2
    <3> QED
      BY <3>3
  <2>5. MergeSort(T, c)[s] = SortStep(MergeSort(T, c), s, T, c)
    <3> HIDE DEF V
    <3> QED
      BY <1>9
  <2>6. CASE Len(s) < 2
    BY <2>3, <2>5, <2>6 DEF SortStep
  <2>7. CASE ~(Len(s) < 2)
    <3>1. /\ MergeSort(T, c)[Left(s)] \in Seq(T)
          /\ MergeSort(T, c)[Right(s)] \in Seq(T)
      BY <1>3, <2>4, <2>7
    <3>2. Merge(T, c)[<<MergeSort(T, c)[Left(s)],
                        MergeSort(T, c)[Right(s)]>>] \in V
      BY <3>1, MergeIs
    <3> QED
      BY <2>3, <2>5, <2>7, <3>2 DEF SortStep
  <2> QED
    BY <2>6, <2>7
<1> QED
  <2> HIDE DEF V
  <2>1. \A s \in V : MergeSort(T, c)[s] = SortStep(MergeSort(T, c), s, T, c)
    BY <1>9
  <2> QED
    BY <1>10, <2>1 DEF V

(***************************************************************************)
(* What a merge keeps.                                                     *)
(***************************************************************************)

Elements(s) == {s[i] : i \in 1..Len(s)}

(* Each task has the relation Q to all behind it. *)
Ordered(s, Q) == \A i, j \in 1..Len(s) : i < j => <<s[i], s[j]>> \in Q

(* The comparator tells any two tasks of T apart. *)
Comparable(T, c) ==
  \A a, b \in T : a # b => Precedes(a, b, c) \/ Precedes(b, a, c)

(* Q is transitive, and all that the comparator says is in it. *)
Respects(Q, T, c) ==
  /\ \A a, b \in T : a # b /\ Precedes(a, b, c) => <<a, b>> \in Q
  /\ \A x, y, z \in T : <<x, y>> \in Q /\ <<y, z>> \in Q => <<x, z>> \in Q

LEMMA ElementsType ==
  ASSUME NEW T, NEW s \in Seq(T)
  PROVE  Elements(s) \subseteq T
  BY DEF Elements

LEMMA FrontElements ==
  ASSUME NEW T, NEW t \in T, NEW s \in Seq(T), NEW Q
  PROVE  /\ Elements(<<t>> \o s) = {t} \cup Elements(s)
         /\ Ordered(s, Q) /\ (\A x \in Elements(s) : <<t, x>> \in Q)
              => Ordered(<<t>> \o s, Q)
<1> DEFINE u == <<t>> \o s
           n == Len(s)
<1>1. n \in Nat /\ Len(u) = n + 1 /\ u[1] = t
      /\ \A i \in 1..n : u[i + 1] = s[i]
  BY Front
<1> HIDE DEF u, n
<1>2. \A j \in 1..n + 1 : j = 1 \/ (j - 1 \in 1..n /\ u[j] = s[j - 1])
  <2> SUFFICES ASSUME NEW j \in 1..n + 1, j # 1
               PROVE  j - 1 \in 1..n /\ u[j] = s[j - 1]
    OBVIOUS
  <2>1. j - 1 \in 1..n /\ (j - 1) + 1 = j
    BY <1>1
  <2>2. u[(j - 1) + 1] = s[j - 1]
    BY <1>1, <2>1
  <2> QED
    BY <2>1, <2>2
<1>3. Elements(u) = {t} \cup Elements(s)
  <2>1. ASSUME NEW x \in Elements(u) PROVE x \in {t} \cup Elements(s)
    <3>1. PICK j \in 1..n + 1 : x = u[j]
      BY <1>1 DEF Elements
    <3> QED
      BY <1>1, <1>2, <3>1 DEF Elements, n
  <2>2. t \in Elements(u)
    <3>1. 1 \in 1..n + 1
      BY <1>1
    <3> QED
      BY <1>1, <3>1 DEF Elements
  <2>3. ASSUME NEW x \in Elements(s) PROVE x \in Elements(u)
    <3>1. PICK i \in 1..n : x = s[i]
      BY DEF Elements, n
    <3>2. i + 1 \in 1..n + 1 /\ u[i + 1] = x
      BY <1>1, <3>1
    <3> QED
      BY <1>1, <3>2 DEF Elements
  <2> QED
    BY <2>1, <2>2, <2>3
<1>4. ASSUME Ordered(s, Q), \A x \in Elements(s) : <<t, x>> \in Q,
             NEW i \in 1..n + 1, NEW j \in 1..n + 1, i < j
      PROVE  <<u[i], u[j]>> \in Q
  <2>1. j # 1
    BY <1>1, <1>4
  <2>2. j - 1 \in 1..n /\ u[j] = s[j - 1] /\ s[j - 1] \in Elements(s)
    BY <1>2, <2>1 DEF Elements, n
  <2>3. CASE i = 1
    BY <1>1, <1>4, <2>2, <2>3
  <2>4. CASE i # 1
    <3>1. i - 1 \in 1..n /\ u[i] = s[i - 1]
      BY <1>2, <2>4
    <3>2. i - 1 < j - 1
      BY <1>1, <1>4
    <3> QED
      BY <1>4, <2>2, <3>1, <3>2 DEF Ordered, n
  <2> QED
    BY <2>3, <2>4
<1>5. Ordered(s, Q) /\ (\A x \in Elements(s) : <<t, x>> \in Q)
        => Ordered(u, Q)
  BY <1>1, <1>4 DEF Ordered
<1> QED
  BY <1>3, <1>5 DEF u

LEMMA TailElements ==
  ASSUME NEW T, NEW s \in Seq(T), s # <<>>, NEW Q
  PROVE  /\ Elements(s) = {Head(s)} \cup Elements(Tail(s))
         /\ Ordered(s, Q) => /\ Ordered(Tail(s), Q)
                             /\ \A x \in Elements(Tail(s)) :
                                  <<Head(s), x>> \in Q
<1>1. /\ Head(s) \in T /\ Head(s) = s[1]
      /\ Tail(s) \in Seq(T) /\ Len(Tail(s)) = Len(s) - 1
      /\ \A i \in 1..Len(s) - 1 : Tail(s)[i] = s[i + 1]
      /\ Len(s) \in Nat /\ Len(s) > 0
  BY HeadTail
<1>2. s = <<Head(s)>> \o Tail(s)
  OBVIOUS
<1>3. Elements(s) = {Head(s)} \cup Elements(Tail(s))
  BY <1>1, <1>2, FrontElements
<1>4. ASSUME Ordered(s, Q) PROVE Ordered(Tail(s), Q)
  <2> SUFFICES ASSUME NEW i \in 1..Len(s) - 1, NEW j \in 1..Len(s) - 1, i < j
               PROVE  <<Tail(s)[i], Tail(s)[j]>> \in Q
    BY <1>1 DEF Ordered
  <2>1. i + 1 \in 1..Len(s) /\ j + 1 \in 1..Len(s) /\ i + 1 < j + 1
    BY <1>1
  <2> QED
    BY <1>1, <1>4, <2>1 DEF Ordered
<1>5. ASSUME Ordered(s, Q), NEW x \in Elements(Tail(s))
      PROVE  <<Head(s), x>> \in Q
  <2>1. PICK i \in 1..Len(s) - 1 : x = Tail(s)[i]
    BY <1>1 DEF Elements
  <2>2. 1 \in 1..Len(s) /\ i + 1 \in 1..Len(s) /\ 1 < i + 1
    BY <1>1
  <2>3. x = s[i + 1]
    BY <1>1, <2>1
  <2> QED
    BY <1>1, <1>5, <2>2, <2>3 DEF Ordered
<1> QED
  BY <1>3, <1>4, <1>5

(* A merge has the tasks of both queues, the first of one of them first, and
   is ordered if they are. *)
Merges(T, c, Q, l, r) ==
  LET m == Merge(T, c)[<<l, r>>]
  IN  /\ Len(m) = Len(l) + Len(r)
      /\ Elements(m) = Elements(l) \cup Elements(r)
      /\ l # <<>> /\ r # <<>> =>
           m[1] = IF Precedes(r[1], l[1], c) THEN r[1] ELSE l[1]
      /\ Ordered(l, Q) /\ Ordered(r, Q) /\ Elements(l) \cap Elements(r) = {}
           => Ordered(m, Q)

LEMMA MergeStepKeeps ==
  ASSUME NEW T, NEW c, NEW Q, Comparable(T, c), Respects(Q, T, c),
         NEW l \in Seq(T), NEW r \in Seq(T),
         l # <<>> /\ r # <<>> => /\ Merges(T, c, Q, l, Tail(r))
                                 /\ Merges(T, c, Q, Tail(l), r)
  PROVE  Merges(T, c, Q, l, r)
<1> DEFINE m == Merge(T, c)[<<l, r>>]
<1>1. m = MergeStep(Merge(T, c), l, r, c)
  BY MergeIs
<1>2. Len(<<>>) = 0 /\ Elements(<<>>) = {}
  BY DEF Elements
<1>3. Len(l) \in Nat /\ Len(r) \in Nat
  OBVIOUS
<1>4. CASE l = <<>>
  <2>1. m = r
    BY <1>1, <1>4 DEF MergeStep
  <2> QED
    BY <1>2, <1>3, <1>4, <2>1 DEF Merges
<1>5. CASE l # <<>> /\ r = <<>>
  <2>1. m = l
    BY <1>1, <1>5 DEF MergeStep
  <2> QED
    BY <1>2, <1>3, <1>5, <2>1 DEF Merges
<1>6. CASE l # <<>> /\ r # <<>>
  <2>1. /\ Head(l) \in T /\ Head(l) = l[1] /\ Tail(l) \in Seq(T)
        /\ Len(Tail(l)) = Len(l) - 1
        /\ Elements(l) = {Head(l)} \cup Elements(Tail(l))
        /\ Ordered(l, Q) => /\ Ordered(Tail(l), Q)
                            /\ \A x \in Elements(Tail(l)) :
                                 <<Head(l), x>> \in Q
    BY <1>6, HeadTail, TailElements
  <2>2. /\ Head(r) \in T /\ Head(r) = r[1] /\ Tail(r) \in Seq(T)
        /\ Len(Tail(r)) = Len(r) - 1
        /\ Elements(r) = {Head(r)} \cup Elements(Tail(r))
        /\ Ordered(r, Q) => /\ Ordered(Tail(r), Q)
                            /\ \A x \in Elements(Tail(r)) :
                                 <<Head(r), x>> \in Q
    BY <1>6, HeadTail, TailElements
  <2>3. Elements(l) \subseteq T /\ Elements(r) \subseteq T
    BY ElementsType
  <2>4. CASE Precedes(Head(r), Head(l), c)
    <3> DEFINE u == Merge(T, c)[<<l, Tail(r)>>]
    <3>1. m = <<Head(r)>> \o u
      BY <1>1, <1>6, <2>4 DEF MergeStep
    <3>2. /\ u \in Seq(T) /\ Len(u) = Len(l) + Len(Tail(r))
          /\ Elements(u) = Elements(l) \cup Elements(Tail(r))
          /\ Ordered(l, Q) /\ Ordered(Tail(r), Q)
               /\ Elements(l) \cap Elements(Tail(r)) = {} => Ordered(u, Q)
      BY <1>6, <2>2, MergeIs DEF Merges
    <3> HIDE DEF u
    <3>3. /\ Len(m) = Len(u) + 1 /\ m[1] = Head(r)
          /\ Elements(m) = {Head(r)} \cup Elements(u)
          /\ Ordered(u, Q) /\ (\A x \in Elements(u) : <<Head(r), x>> \in Q)
               => Ordered(m, Q)
      <4> DEFINE h == Head(r)
      <4>1. h \in T /\ u \in Seq(T)
        BY <2>2, <3>2
      <4> HIDE DEF m, h
      <4>2. /\ Len(<<h>> \o u) = Len(u) + 1
            /\ (<<h>> \o u)[1] = h
        BY <4>1, Front
      <4>3. /\ Elements(<<h>> \o u) = {h} \cup Elements(u)
            /\ Ordered(u, Q) /\ (\A x \in Elements(u) : <<h, x>> \in Q)
                 => Ordered(<<h>> \o u, Q)
        BY <4>1, FrontElements
      <4>4. m = <<h>> \o u
        BY <3>1 DEF h
      <4> QED
        BY <4>2, <4>3, <4>4 DEF h
    <3>4. ASSUME Ordered(l, Q), Ordered(r, Q),
                 Elements(l) \cap Elements(r) = {}, NEW x \in Elements(u)
          PROVE  <<Head(r), x>> \in Q
      <4>1. Head(r) # Head(l)
        BY <2>1, <2>2, <3>4
      <4>2. <<Head(r), Head(l)>> \in Q
        BY <2>1, <2>2, <2>4, <4>1 DEF Respects
      <4>3. CASE x \in Elements(Tail(r))
        BY <2>2, <3>4, <4>3
      <4>4. CASE x \in Elements(l)
        BY <2>1, <2>2, <2>3, <3>4, <4>2, <4>4 DEF Respects
      <4> QED
        BY <3>2, <3>4, <4>3, <4>4
    <3>5. Ordered(l, Q) /\ Ordered(r, Q) /\ Elements(l) \cap Elements(r) = {}
            => Ordered(m, Q)
      <4> SUFFICES ASSUME Ordered(l, Q), Ordered(r, Q),
                          Elements(l) \cap Elements(r) = {}
                   PROVE  Ordered(m, Q)
        OBVIOUS
      <4>1. Ordered(u, Q)
        BY <2>2, <3>2
      <4> QED
        BY <3>3, <3>4, <4>1
    <3>6. Len(m) = Len(l) + Len(r)
      BY <1>3, <2>2, <3>2, <3>3
    <3>7. Elements(m) = Elements(l) \cup Elements(r)
      BY <2>2, <3>2, <3>3
    <3>8. m[1] = IF Precedes(r[1], l[1], c) THEN r[1] ELSE l[1]
      BY <2>1, <2>2, <2>4, <3>3
    <3> QED
      BY <3>5, <3>6, <3>7, <3>8 DEF Merges
  <2>5. CASE ~Precedes(Head(r), Head(l), c)
    <3> DEFINE u == Merge(T, c)[<<Tail(l), r>>]
    <3>1. m = <<Head(l)>> \o u
      BY <1>1, <1>6, <2>5 DEF MergeStep
    <3>2. /\ u \in Seq(T) /\ Len(u) = Len(Tail(l)) + Len(r)
          /\ Elements(u) = Elements(Tail(l)) \cup Elements(r)
          /\ Ordered(Tail(l), Q) /\ Ordered(r, Q)
               /\ Elements(Tail(l)) \cap Elements(r) = {} => Ordered(u, Q)
      BY <1>6, <2>1, MergeIs DEF Merges
    <3> HIDE DEF u
    <3>3. /\ Len(m) = Len(u) + 1 /\ m[1] = Head(l)
          /\ Elements(m) = {Head(l)} \cup Elements(u)
          /\ Ordered(u, Q) /\ (\A x \in Elements(u) : <<Head(l), x>> \in Q)
               => Ordered(m, Q)
      <4> DEFINE h == Head(l)
      <4>1. h \in T /\ u \in Seq(T)
        BY <2>1, <3>2
      <4> HIDE DEF m, h
      <4>2. /\ Len(<<h>> \o u) = Len(u) + 1
            /\ (<<h>> \o u)[1] = h
        BY <4>1, Front
      <4>3. /\ Elements(<<h>> \o u) = {h} \cup Elements(u)
            /\ Ordered(u, Q) /\ (\A x \in Elements(u) : <<h, x>> \in Q)
                 => Ordered(<<h>> \o u, Q)
        BY <4>1, FrontElements
      <4>4. m = <<h>> \o u
        BY <3>1 DEF h
      <4> QED
        BY <4>2, <4>3, <4>4 DEF h
    <3>4. ASSUME Ordered(l, Q), Ordered(r, Q),
                 Elements(l) \cap Elements(r) = {}, NEW x \in Elements(u)
          PROVE  <<Head(l), x>> \in Q
      <4>1. Head(r) # Head(l)
        BY <2>1, <2>2, <3>4
      <4>2. <<Head(l), Head(r)>> \in Q
        BY <2>1, <2>2, <2>5, <4>1 DEF Respects, Comparable
      <4>3. CASE x \in Elements(Tail(l))
        BY <2>1, <3>4, <4>3
      <4>4. CASE x \in Elements(r)
        BY <2>1, <2>2, <2>3, <3>4, <4>2, <4>4 DEF Respects
      <4> QED
        BY <3>2, <3>4, <4>3, <4>4
    <3>5. Ordered(l, Q) /\ Ordered(r, Q) /\ Elements(l) \cap Elements(r) = {}
            => Ordered(m, Q)
      <4> SUFFICES ASSUME Ordered(l, Q), Ordered(r, Q),
                          Elements(l) \cap Elements(r) = {}
                   PROVE  Ordered(m, Q)
        OBVIOUS
      <4>1. Ordered(u, Q)
        BY <2>1, <3>2
      <4> QED
        BY <3>3, <3>4, <4>1
    <3>6. Len(m) = Len(l) + Len(r)
      BY <1>3, <2>1, <3>2, <3>3
    <3>7. Elements(m) = Elements(l) \cup Elements(r)
      BY <2>1, <3>2, <3>3
    <3>8. m[1] = IF Precedes(r[1], l[1], c) THEN r[1] ELSE l[1]
      BY <2>1, <2>2, <2>5, <3>3
    <3> QED
      BY <3>5, <3>6, <3>7, <3>8 DEF Merges
  <2> QED
    BY <2>4, <2>5
<1> QED
  BY <1>4, <1>5, <1>6

LEMMA MergeKeeps ==
  ASSUME NEW T, NEW c, NEW Q, Comparable(T, c), Respects(Q, T, c)
  PROVE  \A l, r \in Seq(T) : Merges(T, c, Q, l, r)
<1> DEFINE D == Seq(T) \X Seq(T)
           bad == {Len(q[1]) + Len(q[2]) :
                     q \in {p \in D : ~Merges(T, c, Q, p[1], p[2])}}
<1> SUFFICES ASSUME NEW l0 \in Seq(T), NEW r0 \in Seq(T),
                    ~Merges(T, c, Q, l0, r0)
             PROVE  FALSE
  OBVIOUS
<1>1. \A s \in Seq(T) : Len(s) \in Nat
  OBVIOUS
<1>2. ASSUME NEW l \in Seq(T), NEW r \in Seq(T), ~Merges(T, c, Q, l, r)
      PROVE  Len(l) + Len(r) \in bad
  <2>1. <<l, r>> \in {p \in D : ~Merges(T, c, Q, p[1], p[2])}
    BY <1>2
  <2>2. <<l, r>>[1] = l /\ <<l, r>>[2] = r
    OBVIOUS
  <2> QED
    BY <2>1, <2>2
<1>3. ASSUME NEW n \in bad
      PROVE  \E l, r \in Seq(T) : n = Len(l) + Len(r) /\ ~Merges(T, c, Q, l, r)
  <2>1. PICK p \in D : n = Len(p[1]) + Len(p[2]) /\ ~Merges(T, c, Q, p[1], p[2])
    OBVIOUS
  <2>2. p[1] \in Seq(T) /\ p[2] \in Seq(T)
    OBVIOUS
  <2> QED
    BY <2>1, <2>2
<1> HIDE DEF bad, D
<1>4. bad \subseteq Nat
  <2>1. ASSUME NEW n \in bad PROVE n \in Nat
    <3>1. PICK l, r \in Seq(T) : n = Len(l) + Len(r)
      BY <1>3
    <3>2. Len(l) \in Nat /\ Len(r) \in Nat
      BY <1>1
    <3> QED
      BY <3>1, <3>2
  <2> QED
    BY <2>1
<1>5. bad # {}
  BY <1>2
<1>6. PICK n \in bad : \A k \in bad : n <= k
  BY <1>4, <1>5, LeastOf
<1>7. PICK l, r \in Seq(T) : n = Len(l) + Len(r) /\ ~Merges(T, c, Q, l, r)
  BY <1>3
<1>8. ASSUME l # <<>>, r # <<>>
      PROVE  Merges(T, c, Q, l, Tail(r)) /\ Merges(T, c, Q, Tail(l), r)
  <2>1. /\ Tail(l) \in Seq(T) /\ Len(Tail(l)) = Len(l) - 1
        /\ Tail(r) \in Seq(T) /\ Len(Tail(r)) = Len(r) - 1
        /\ Len(l) \in Nat /\ Len(r) \in Nat
    BY <1>8, HeadTail
  <2>2. /\ ~(n <= Len(l) + Len(Tail(r)))
        /\ ~(n <= Len(Tail(l)) + Len(r))
    BY <1>7, <2>1
  <2> QED
    BY <1>2, <1>6, <2>1, <2>2
<1> QED
  BY <1>7, <1>8, MergeStepKeeps

(***************************************************************************)
(* What the sort keeps.                                                    *)
(***************************************************************************)

Distinct(s) == \A i, j \in 1..Len(s) : i # j => s[i] # s[j]

(* From h every other task of E can be reached along the comparator. *)
Reaches(h, E, c) ==
  /\ h \in E
  /\ \A S \in SUBSET E : h \in S /\ S # E =>
       \E a \in S, b \in E \ S : Precedes(a, b, c)

LEMMA HeadsReach ==
  ASSUME NEW E, NEW c
  PROVE  Heads(E, [t \in E |-> t], c) = {h \in E : Reaches(h, E, c)}
<1> DEFINE v == [t \in E |-> t]
<1>1. \A S \in SUBSET E : \A a \in S, b \in E \ S :
        Precedes(v[a], v[b], c) <=> Precedes(a, b, c)
  <2>1. \A x \in E : v[x] = x
    OBVIOUS
  <2> HIDE DEF v
  <2> QED
    BY <2>1
<1> HIDE DEF v
<1>2. \A h \in E : h \in Heads(E, v, c) <=> Reaches(h, E, c)
  BY <1>1 DEF Heads, Reaches
<1>3. Heads(E, v, c) \subseteq E
  BY DEF Heads
<1> QED
  BY <1>2, <1>3 DEF v

(* The better of two heads is the head of both. *)
LEMMA BetterReaches ==
  ASSUME NEW c, NEW E, NEW F, NEW h, NEW g,
         Reaches(h, E, c), Reaches(g, F, c), Precedes(h, g, c),
         E \cap F = {}
  PROVE  Reaches(h, E \cup F, c)
<1>1. h \in E /\ g \in F
  BY DEF Reaches
<1> SUFFICES ASSUME NEW S \in SUBSET (E \cup F), h \in S, S # E \cup F
             PROVE  \E a \in S, b \in (E \cup F) \ S : Precedes(a, b, c)
  BY <1>1 DEF Reaches
<1>2. CASE ~(E \subseteq S)
  <2>1. S \cap E \in SUBSET E /\ h \in S \cap E /\ S \cap E # E
    BY <1>1, <1>2
  <2>2. PICK a \in S \cap E, b \in E \ (S \cap E) : Precedes(a, b, c)
    BY <2>1 DEF Reaches
  <2> QED
    BY <2>2
<1>3. CASE E \subseteq S /\ g \notin S
  BY <1>1, <1>3
<1>4. CASE E \subseteq S /\ g \in S
  <2>1. S \cap F \in SUBSET F /\ g \in S \cap F /\ S \cap F # F
    BY <1>1, <1>4
  <2>2. PICK a \in S \cap F, b \in F \ (S \cap F) : Precedes(a, b, c)
    BY <2>1 DEF Reaches
  <2> QED
    BY <2>2
<1> QED
  BY <1>2, <1>3, <1>4

LEMMA HalvesElements ==
  ASSUME NEW T, NEW s \in Seq(T), ~(Len(s) < 2), Distinct(s)
  PROVE  /\ Elements(s) = Elements(Left(s)) \cup Elements(Right(s))
         /\ Elements(Left(s)) \cap Elements(Right(s)) = {}
         /\ Distinct(Left(s)) /\ Distinct(Right(s))
<1>1. PICK h \in Nat :
        /\ h = Len(s) \div 2 /\ 0 < h /\ h < Len(s) /\ Len(s) \in Nat
        /\ Left(s) \in Seq(T) /\ Len(Left(s)) = h
        /\ \A i \in 1..h : Left(s)[i] = s[i]
        /\ Right(s) \in Seq(T) /\ Len(Right(s)) = Len(s) - h
        /\ \A i \in 1..Len(s) - h : Right(s)[i] = s[h + i]
  BY Halves
<1>2. \A i \in 1..h : i \in 1..Len(s)
  BY <1>1
<1>3. \A i \in 1..Len(s) - h : h + i \in 1..Len(s) /\ h + i \notin 1..h
  BY <1>1
<1>4. \A k \in 1..Len(s) : k \in 1..h \/ (k - h \in 1..Len(s) - h
                                          /\ h + (k - h) = k)
  BY <1>1
<1>5. Elements(s) = Elements(Left(s)) \cup Elements(Right(s))
  <2>1. ASSUME NEW x \in Elements(s)
        PROVE  x \in Elements(Left(s)) \cup Elements(Right(s))
    <3>1. PICK k \in 1..Len(s) : x = s[k]
      BY DEF Elements
    <3>2. CASE k \in 1..h
      BY <1>1, <3>1, <3>2 DEF Elements
    <3>3. CASE k - h \in 1..Len(s) - h /\ h + (k - h) = k
      <4>1. Right(s)[k - h] = s[k]
        BY <1>1, <3>3
      <4> QED
        BY <1>1, <3>1, <3>3, <4>1 DEF Elements
    <3> QED
      BY <1>4, <3>2, <3>3
  <2>2. Elements(Left(s)) \subseteq Elements(s)
    BY <1>1, <1>2 DEF Elements
  <2>3. ASSUME NEW x \in Elements(Right(s)) PROVE x \in Elements(s)
    <3>1. PICK i \in 1..Len(s) - h : x = Right(s)[i]
      BY <1>1 DEF Elements
    <3>2. x = s[h + i]
      BY <1>1, <3>1
    <3> QED
      BY <1>3, <3>2 DEF Elements
  <2> QED
    BY <2>1, <2>2, <2>3
<1>6. ASSUME NEW x \in Elements(Left(s)), x \in Elements(Right(s))
      PROVE  FALSE
  <2>1. PICK i \in 1..h : x = s[i]
    BY <1>1 DEF Elements
  <2>2. PICK j \in 1..Len(s) - h : x = s[h + j]
    BY <1>1, <1>6 DEF Elements
  <2>3. i \in 1..Len(s) /\ h + j \in 1..Len(s) /\ i # h + j
    BY <1>2, <1>3
  <2> QED
    BY <2>1, <2>2, <2>3 DEF Distinct
<1>7. Distinct(Left(s))
  BY <1>1, <1>2 DEF Distinct
<1>8. Distinct(Right(s))
  <2> SUFFICES ASSUME NEW i \in 1..Len(s) - h, NEW j \in 1..Len(s) - h, i # j
               PROVE  Right(s)[i] # Right(s)[j]
    BY <1>1 DEF Distinct
  <2>1. h + i \in 1..Len(s) /\ h + j \in 1..Len(s) /\ h + i # h + j
    BY <1>1, <1>3
  <2> QED
    BY <1>1, <2>1 DEF Distinct
<1> QED
  BY <1>5, <1>6, <1>7, <1>8

(* The sort loses no task and adds none; it keeps what the comparator says as
   far as that is transitive, and what it puts first reaches all others. *)
Sorts(T, c, Q, s) ==
  LET m == MergeSort(T, c)[s]
  IN  Distinct(s) =>
        /\ Len(m) = Len(s) /\ Elements(m) = Elements(s)
        /\ Ordered(m, Q)
        /\ s # <<>> => Reaches(m[1], Elements(s), c)

LEMMA SortStepKeeps ==
  ASSUME NEW T, NEW c, NEW Q, Comparable(T, c), Respects(Q, T, c),
         NEW s \in Seq(T), Distinct(s),
         ~(Len(s) < 2) => Sorts(T, c, Q, Left(s)) /\ Sorts(T, c, Q, Right(s))
  PROVE  Sorts(T, c, Q, s)
<1> DEFINE m == MergeSort(T, c)[s]
<1>1. m = SortStep(MergeSort(T, c), s, T, c)
  BY SortIs
<1>2. CASE Len(s) < 2
  <2>1. m = s
    BY <1>1, <1>2 DEF SortStep
  <2>2. \A i, j \in 1..Len(s) : ~(i < j)
    BY <1>2
  <2>3. s # <<>> => Reaches(s[1], Elements(s), c)
    <3> SUFFICES ASSUME s # <<>> PROVE Reaches(s[1], Elements(s), c)
      OBVIOUS
    <3>1. Len(s) = 1
      <4>1. Len(s) \in Nat /\ Len(s) > 0
        BY HeadTail
      <4> QED
        BY <1>2, <4>1
    <3>2. Elements(s) = {s[1]}
      BY <3>1 DEF Elements
    <3> QED
      BY <3>2 DEF Reaches
  <2> QED
    BY <2>1, <2>2, <2>3 DEF Sorts, Ordered
<1>3. CASE ~(Len(s) < 2)
  <2> DEFINE l == MergeSort(T, c)[Left(s)]
             r == MergeSort(T, c)[Right(s)]
  <2>1. PICK h \in Nat :
          /\ 0 < h /\ h < Len(s) /\ Len(s) \in Nat
          /\ Left(s) \in Seq(T) /\ Len(Left(s)) = h
          /\ Right(s) \in Seq(T) /\ Len(Right(s)) = Len(s) - h
    BY <1>3, Halves
  <2>2. Left(s) # <<>> /\ Right(s) # <<>> /\ s # <<>>
    BY <2>1
  <2>3. m = Merge(T, c)[<<l, r>>]
    BY <1>1, <1>3 DEF SortStep
  <2>4. /\ Elements(s) = Elements(Left(s)) \cup Elements(Right(s))
        /\ Elements(Left(s)) \cap Elements(Right(s)) = {}
        /\ Distinct(Left(s)) /\ Distinct(Right(s))
    BY <1>3, HalvesElements
  <2>5. /\ l \in Seq(T) /\ Len(l) = h /\ Elements(l) = Elements(Left(s))
        /\ Ordered(l, Q) /\ Reaches(l[1], Elements(l), c)
    BY <1>3, <2>1, <2>2, <2>4, SortIs DEF Sorts
  <2>6. /\ r \in Seq(T) /\ Len(r) = Len(s) - h
        /\ Elements(r) = Elements(Right(s))
        /\ Ordered(r, Q) /\ Reaches(r[1], Elements(r), c)
    BY <1>3, <2>1, <2>2, <2>4, SortIs DEF Sorts
  <2> HIDE DEF m, l, r
  <2>7. l # <<>> /\ r # <<>>
    BY <2>1, <2>5, <2>6
  <2>8. Merges(T, c, Q, l, r)
    BY <2>5, <2>6, MergeKeeps
  <2>9. /\ Len(m) = Len(l) + Len(r)
        /\ Elements(m) = Elements(l) \cup Elements(r)
        /\ m[1] = IF Precedes(r[1], l[1], c) THEN r[1] ELSE l[1]
        /\ Ordered(m, Q)
    BY <2>3, <2>4, <2>5, <2>6, <2>7, <2>8 DEF Merges
  <2>10. Len(m) = Len(s) /\ Elements(m) = Elements(s)
    BY <2>1, <2>4, <2>5, <2>6, <2>9
  <2>11. Reaches(m[1], Elements(s), c)
    <3>1. /\ Elements(s) = Elements(l) \cup Elements(r)
          /\ Elements(s) = Elements(r) \cup Elements(l)
          /\ Elements(l) \cap Elements(r) = {}
          /\ Elements(r) \cap Elements(l) = {}
      BY <2>4, <2>5, <2>6
    <3>2. CASE Precedes(r[1], l[1], c)
      BY <2>5, <2>6, <2>9, <3>1, <3>2, BetterReaches
    <3>3. CASE ~Precedes(r[1], l[1], c)
      <4>1. l[1] \in Elements(l) /\ r[1] \in Elements(r)
        BY <2>5, <2>6 DEF Reaches
      <4>2. l[1] \in T /\ r[1] \in T /\ l[1] # r[1]
        BY <2>5, <2>6, <3>1, <4>1, ElementsType
      <4>3. Precedes(l[1], r[1], c)
        BY <3>3, <4>2 DEF Comparable
      <4> QED
        BY <2>5, <2>6, <2>9, <3>1, <3>3, <4>3, BetterReaches
    <3> QED
      BY <3>2, <3>3
  <2> QED
    BY <2>9, <2>10, <2>11 DEF Sorts, m
<1> QED
  BY <1>2, <1>3

LEMMA SortKeeps ==
  ASSUME NEW T, NEW c, NEW Q, Comparable(T, c), Respects(Q, T, c)
  PROVE  \A s \in Seq(T) : Sorts(T, c, Q, s)
<1> DEFINE bad == {Len(s) : s \in {q \in Seq(T) : ~Sorts(T, c, Q, q)}}
<1> SUFFICES ASSUME NEW s0 \in Seq(T), ~Sorts(T, c, Q, s0) PROVE FALSE
  OBVIOUS
<1>1. Len(s0) \in bad /\ bad \subseteq Nat
  OBVIOUS
<1>2. PICK n \in bad : \A k \in bad : n <= k
  <2> HIDE DEF bad
  <2> QED
    BY <1>1, LeastOf
<1>3. PICK s \in Seq(T) : n = Len(s) /\ ~Sorts(T, c, Q, s)
  OBVIOUS
<1>4. \A q \in Seq(T) : Sorts(T, c, Q, q) \/ n <= Len(q)
  BY <1>2
<1>5. Distinct(s)
  BY <1>3 DEF Sorts
<1>6. ASSUME ~(Len(s) < 2)
      PROVE  Sorts(T, c, Q, Left(s)) /\ Sorts(T, c, Q, Right(s))
  <2>1. PICK h \in Nat :
          /\ 0 < h /\ h < Len(s) /\ Len(s) \in Nat
          /\ Left(s) \in Seq(T) /\ Len(Left(s)) = h
          /\ Right(s) \in Seq(T) /\ Len(Right(s)) = Len(s) - h
    BY <1>6, Halves
  <2>2. ~(n <= Len(Left(s))) /\ ~(n <= Len(Right(s)))
    BY <1>3, <2>1
  <2> QED
    BY <1>4, <2>1, <2>2
<1> QED
  BY <1>3, <1>5, <1>6, SortStepKeeps

(***************************************************************************)
(* The dispatcher's queue: module TaskSort.                                *)
(***************************************************************************)

(* The tasks of a queue: numbered, and at most one of them transmits. *)
Sortable(T, c) ==
  /\ \A t \in T : /\ t.post \in BOOLEAN /\ t.order \in Nat
                 /\ t.state \in LiveStates
  /\ \A a, b \in T : a # b => a.order # b.order
  /\ \A t \in T : Sender(t) => c.state = "OPEN"
  /\ \A a, b \in T : Sender(a) /\ Sender(b) => a = b

(* A task of the same priority that cannot go on, and is not transmitting,
   hides none that can. *)
HidesNot(a, b) == Sender(a) \/ a.post # b.post \/ (Idles(a) => Idles(b))

(* What a is promised that comes before b *)
Promised(T, c) ==
  {q \in T \X T : /\ ~Sender(q[2])
                  /\ Sender(q[1]) \/ (q[2].post => q[1].post)
                  /\ HidesNot(q[1], q[2])
                  /\ c.state # "OPEN" => Precedes(q[1], q[2], c)}

LEMMA SortableCompares ==
  ASSUME NEW T, NEW c, Sortable(T, c)
  PROVE  /\ Comparable(T, c)
         /\ \A a, b \in T : a # b => ~(Precedes(a, b, c) /\ Precedes(b, a, c))
<1> SUFFICES ASSUME NEW a \in T, NEW b \in T, a # b
             PROVE  /\ Precedes(a, b, c) \/ Precedes(b, a, c)
                    /\ ~(Precedes(a, b, c) /\ Precedes(b, a, c))
  BY DEF Comparable
<1>1. /\ a.post \in BOOLEAN /\ b.post \in BOOLEAN
      /\ a.order \in Nat /\ b.order \in Nat /\ a.order # b.order
  BY DEF Sortable
<1> QED
  BY <1>1 DEF Precedes, WantsThis, NeedStates, RunnableStates

LEMMA PromiseRespects ==
  ASSUME NEW T, NEW c, Sortable(T, c)
  PROVE  Respects(Promised(T, c), T, c)
<1>1. ASSUME NEW a \in T, NEW b \in T, a # b, Precedes(a, b, c)
      PROVE  <<a, b>> \in Promised(T, c)
  <2>1. a.post \in BOOLEAN /\ b.post \in BOOLEAN
    BY DEF Sortable
  <2>2. ~Sender(b)
    <3> SUFFICES ASSUME Sender(b) PROVE FALSE
      OBVIOUS
    <3>1. c.state = "OPEN" /\ ~Sender(a)
      BY <1>1 DEF Sortable
    <3> QED
      BY <1>1, <3>1 DEF Precedes, Sender
  <2>3. Sender(a) \/ (b.post => a.post)
    BY <1>1, <2>1, <2>2 DEF Precedes, Sender
  <2>4. HidesNot(a, b)
    <3> SUFFICES ASSUME ~Sender(a), a.post = b.post, Idles(a), ~Idles(b)
                 PROVE  FALSE
      BY DEF HidesNot
    <3>1. ~(a.state \in RunnableStates \cup NeedStates)
      BY DEF Idles, RunnableStates, NeedStates
    <3>2. ~WantsThis(a, c) /\ a.state # b.state
      BY <3>1 DEF WantsThis, Idles
    <3>3. ~Sender(b) => b.state \in RunnableStates \cup NeedStates
      BY DEF Sortable, LiveStates, Sender, Idles, RunnableStates, NeedStates
    <3> QED
      BY <1>1, <2>2, <3>1, <3>2, <3>3 DEF Precedes, Sender
  <2> QED
    BY <1>1, <2>2, <2>3, <2>4 DEF Promised
<1>2. ASSUME NEW x \in T, NEW y \in T, NEW z \in T,
             <<x, y>> \in Promised(T, c), <<y, z>> \in Promised(T, c)
      PROVE  <<x, z>> \in Promised(T, c)
  <2>1. /\ ~Sender(y) /\ ~Sender(z)
        /\ Sender(x) \/ (y.post => x.post)
        /\ z.post => y.post
        /\ c.state # "OPEN" => Precedes(x, y, c) /\ Precedes(y, z, c)
    BY <1>2 DEF Promised
  <2>2. ASSUME c.state # "OPEN" PROVE Precedes(x, z, c)
    <3>1. /\ x.post \in BOOLEAN /\ y.post \in BOOLEAN /\ z.post \in BOOLEAN
          /\ x.order \in Nat /\ y.order \in Nat /\ z.order \in Nat
      BY DEF Sortable
    <3> QED
      BY <2>1, <2>2, <3>1 DEF Precedes, NeedStates, RunnableStates
  <2>3. HidesNot(x, z)
    <3>1. HidesNot(x, y) /\ HidesNot(y, z)
      BY <1>2 DEF Promised
    <3>2. x.post \in BOOLEAN /\ y.post \in BOOLEAN /\ z.post \in BOOLEAN
      BY DEF Sortable
    <3> QED
      BY <2>1, <3>1, <3>2 DEF HidesNot
  <2> QED
    BY <2>1, <2>2, <2>3 DEF Promised
<1> QED
  BY <1>1, <1>2 DEF Respects

QueueInv ==
  /\ Queued = Elements(queue)
  /\ queue \in Seq(Queued) /\ Len(queue) = Length
  /\ Sortable(Queued, held)
  /\ ~sorted => Distinct(queue)
  /\ sorted =>
       /\ Ordered(queue, Promised(Queued, held))
       /\ Length > 0 => Reaches(queue[1], Queued, held)

LEMMA QueueInit == SortInit => QueueInv
<1> SUFFICES ASSUME SortInit PROVE QueueInv
  OBVIOUS
<1>0. Length \in Nat
  BY SortAssumption
<1>1. PICK q \in [Slots -> [state : TaskStates, imsi : Sims,
                                    post : BOOLEAN]],
           p \in Permutation :
        LET tasks == [i \in Slots |->
                        [state |-> q[i].state, imsi |-> q[i].imsi,
                         order |-> i, post |-> q[i].post]]
        IN  /\ Consistent(tasks, held)
            /\ queue = Arranged(tasks, p)
  BY DEF SortInit
<1> DEFINE tasks == [i \in Slots |->
                       [state |-> q[i].state, imsi |-> q[i].imsi,
                        order |-> i, post |-> q[i].post]]
<1>2. /\ p \in [1..Length -> 1..Length]
      /\ \A i, j \in 1..Length : i # j => p[i] # p[j]
  BY DEF Permutation, Slots
<1>3. ~sorted
  BY DEF SortInit
<1>4. \A i \in 1..Length : /\ tasks[i].order = i /\ i \in Nat
                           /\ tasks[i].post \in BOOLEAN
                           /\ tasks[i].state \in LiveStates
  BY SortAssumption DEF Slots
<1>5. \A i, j \in 1..Length :
        /\ Sender(tasks[i]) => held.state = "OPEN"
        /\ Sender(tasks[i]) /\ Sender(tasks[j]) => i = j
  BY <1>1 DEF Consistent, Sender, Slots
<1>6. queue = [i \in 1..Length |-> tasks[p[i]]]
  BY <1>1 DEF Arranged, Slots
<1> HIDE DEF tasks
<1>7. queue \in Seq(Queued) /\ Len(queue) = Length
      /\ Queued = Elements(queue)
  <2>1. Queued = {queue[i] : i \in 1..Length}
    BY DEF Queued, Slots
  <2>2. queue \in [1..Length -> Queued]
    BY <1>6, <2>1
  <2>3. queue \in Seq(Queued) /\ Len(queue) = Length
    BY <1>0, <2>2
  <2> QED
    BY <2>1, <2>3 DEF Elements
<1>8. \A t \in Queued : \E i \in 1..Length : t = tasks[i]
  BY <1>2, <1>6, <1>7 DEF Elements
<1>9. Sortable(Queued, held)
  BY <1>4, <1>5, <1>8 DEF Sortable
<1>10. Distinct(queue)
  <2> SUFFICES ASSUME NEW i \in 1..Length, NEW j \in 1..Length, i # j
               PROVE  queue[i] # queue[j]
    BY <1>7 DEF Distinct
  <2>1. p[i] \in 1..Length /\ p[j] \in 1..Length /\ p[i] # p[j]
    BY <1>2
  <2>2. tasks[p[i]].order # tasks[p[j]].order
    BY <1>4, <2>1
  <2> QED
    BY <1>6, <2>2
<1> QED
  BY <1>3, <1>7, <1>9, <1>10 DEF QueueInv

LEMMA QueueStep == QueueInv /\ [SortNext]_sortVars => QueueInv'
<1> SUFFICES ASSUME QueueInv, [SortNext]_sortVars PROVE QueueInv'
  OBVIOUS
<1>0. Length \in Nat
  BY SortAssumption
<1> DEFINE T == Queued
           Q == Promised(T, held)
<1>1. CASE SortNext
  <2>1. /\ ~sorted /\ sorted' /\ held' = held
        /\ queue' = MergeSort(T, held)[queue]
    BY <1>1 DEF SortNext, Sort
  <2>2. Comparable(T, held) /\ Respects(Q, T, held)
    BY SortableCompares, PromiseRespects DEF QueueInv
  <2>3. /\ queue \in Seq(T) /\ Elements(queue) = T /\ Len(queue) = Length
        /\ Distinct(queue)
    BY <2>1 DEF QueueInv
  <2>4. Sorts(T, held, Q, queue) /\ queue' \in Seq(T)
    <3> HIDE DEF T, Q
    <3> QED
      BY <2>1, <2>2, <2>3, SortKeeps, SortIs
  <2>5. /\ Len(queue') = Length /\ Elements(queue') = T
        /\ Ordered(queue', Q)
        /\ queue # <<>> => Reaches(queue'[1], T, held)
    <3> HIDE DEF T, Q
    <3> QED
      BY <2>1, <2>3, <2>4 DEF Sorts
  <2>6. T' = Elements(queue')
    BY <2>5 DEF Queued, Slots, Elements
  <2>7. T' = T
    BY <2>5, <2>6
  <2>8. Length > 0 => queue # <<>>
    BY <2>3
  <2>9. Sortable(T', held')
    BY <2>1, <2>7 DEF QueueInv
  <2>10. Ordered(queue', Promised(T', held'))
    BY <2>1, <2>5, <2>7
  <2>11. Length > 0 => Reaches(queue'[1], T', held')
    BY <2>1, <2>5, <2>7, <2>8
  <2>12. queue' \in Seq(T')
    BY <2>4, <2>7
  <2> QED
    BY <2>1, <2>5, <2>6, <2>9, <2>10, <2>11, <2>12 DEF QueueInv
<1>2. CASE UNCHANGED sortVars
  <2>1. queue' = queue /\ held' = held /\ sorted' = sorted
    BY <1>2 DEF sortVars
  <2> QED
    BY <2>1 DEF QueueInv, Queued, Slots
<1> QED
  BY <1>1, <1>2

LEMMA QueueInvariant == SortSpec => []QueueInv
  BY QueueInit, QueueStep, PTL DEF SortSpec

(* The dispatcher's model has a set for the queue and lets any of Heads come
   first; whatever the queue and its arrangement, what the sort puts first is
   one of them (mms_dispatcher_pick_next_task). *)
THEOREM SortedHead == SortSpec => []HeadIsExpected
<1>1. QueueInv => HeadIsExpected
  <2> SUFFICES ASSUME QueueInv PROVE HeadIsExpected
    OBVIOUS
  <2> DEFINE T == Queued
  <2>1. Heads(T, [t \in T |-> t], held) = {h \in T : Reaches(h, T, held)}
    BY HeadsReach
  <2>2. ASSUME sorted, Length > 0
        PROVE  Head(queue) \in T /\ Reaches(Head(queue), T, held)
    <3>1. Reaches(queue[1], T, held) /\ Head(queue) = queue[1]
      BY <2>2 DEF QueueInv
    <3> QED
      BY <3>1 DEF Reaches
  <2>3. ASSUME NEW h \in T, \A u \in T \ {h} : Precedes(h, u, held)
        PROVE  {x \in T : Reaches(x, T, held)} = {h}
    <3>1. Reaches(h, T, held)
      BY <2>3 DEF Reaches
    <3>2. ASSUME NEW x \in T, Reaches(x, T, held), x # h PROVE FALSE
      <4>1. T \ {h} \in SUBSET T /\ x \in T \ {h} /\ T \ {h} # T
        BY <3>2
      <4>2. PICK a \in T \ {h}, b \in T \ (T \ {h}) : Precedes(a, b, held)
        BY <3>2, <4>1 DEF Reaches
      <4>3. b = h /\ a # h /\ Precedes(h, a, held)
        BY <2>3
      <4> QED
        BY <4>2, <4>3, SortableCompares DEF QueueInv
    <3> QED
      BY <3>1, <3>2
  <2> QED
    BY <2>1, <2>2, <2>3 DEF HeadIsExpected
<1> QED
  BY <1>1, QueueInvariant, PTL

(* The order that the sorted queue promises, in spite of a comparator that is
   not transitive (mms_dispatcher_sort_cb). *)
THEOREM SortedOrder == SortSpec => []OrderedAsPromised
<1>1. QueueInv => OrderedAsPromised
  <2> SUFFICES ASSUME QueueInv, sorted,
                      NEW i \in 1..Length, NEW j \in 1..Length, i < j
               PROVE  /\ ~Sender(queue[j])
                      /\ Sender(queue[i]) \/ (queue[j].post => queue[i].post)
                      /\ held.state # "OPEN" =>
                           Precedes(queue[i], queue[j], held)
    BY DEF OrderedAsPromised, Slots
  <2>1. <<queue[i], queue[j]>> \in Promised(Queued, held)
    BY DEF QueueInv, Ordered
  <2> QED
    BY <2>1 DEF Promised
<1> QED
  BY <1>1, QueueInvariant, PTL

(* What comes first without being able to go on hides nobody of its priority
   or above that can (mms_dispatcher_pick_next_task). *)
THEOREM SortedHidesNobody == SortSpec => []HeadHidesNobody
<1>1. QueueInv => HeadHidesNobody
  <2> SUFFICES ASSUME QueueInv, sorted, Length > 0, Idles(queue[1]),
                      NEW i \in 1..Length, ~Idles(queue[i])
               PROVE  queue[1].post /\ ~queue[i].post
    BY DEF HeadHidesNobody, Slots, QueueInv
  <2>1. Length \in Nat /\ 1 \in 1..Length
    BY SortAssumption
  <2>2. 1 < i
    BY <2>1
  <2>3. <<queue[1], queue[i]>> \in Promised(Queued, held)
    BY <2>1, <2>2 DEF QueueInv, Ordered
  <2>4. ~Sender(queue[1])
    BY DEF Idles, Sender
  <2>5. queue[1].post # queue[i].post /\ (queue[i].post => queue[1].post)
    BY <2>3, <2>4 DEF Promised, HidesNot
  <2>6. queue[1].post \in BOOLEAN /\ queue[i].post \in BOOLEAN
    BY <2>1 DEF QueueInv, Sortable, Elements
  <2> QED
    BY <2>5, <2>6
<1> QED
  BY <1>1, QueueInvariant, PTL
=============================================================================
