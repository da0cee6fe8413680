------------------------- MODULE HandlerCallsProofs -------------------------
(***************************************************************************)
(* Proofs about the handler's calls, for any number of tasks and calls.    *)
(*                                                                         *)
(* RefsBalanced counts calls and is not inductive.  The invariant below    *)
(* says instead that a task is called back exactly while it is PENDING,    *)
(* that it is called back by the call it points to, and counts references  *)
(* by the state of the task; that makes the sets of calls singletons.      *)
(***************************************************************************)
EXTENDS HandlerCalls, FiniteSetTheorems, TLAPS

(* The references that a task in the state of k should have *)
RefsOf(k) == (IF k.state = "PENDING" THEN 1 ELSE 0)
             + (IF k.queued THEN 1 ELSE 0)
             + (IF k.state = "SLEEP" THEN 1 ELSE 0)

Counted(k) == k.refs = RefsOf(k)

RefsCounted == \A t \in Tasks : Counted(task[t])

(* A task points to a call that was made, and to one that is not answered
   only as long as it will be called back by it. *)
OwnCalls ==
  \A t \in Tasks :
     task[t].call # NoCall =>
       /\ call[task[t].call].state # "NEW"
       /\ task[t].call \in Sent => CallsBack(task[t].call, t)

CallbacksHaveTasks ==
  \A c \in Calls : call[c].cb => call[c].task \in Tasks

(* The inductive invariant *)
CallsInv ==
  /\ TypeOK
  /\ BusyCountsCalls
  /\ PendingIsAnswered
  /\ RefsCounted
  /\ OwnCalls
  /\ CallbacksHaveTasks

-----------------------------------------------------------------------------
(* The calls and the busy count. *)

LEMMA SentFinite == IsFiniteSet(Sent) /\ Cardinality(Sent) \in Nat
<1>1. Sent \in SUBSET Calls
  BY DEF Sent
<1> QED
  BY <1>1, CallsAssumption, FS_Subset, FS_CardinalityType

(* A call that is made keeps its type, and is counted. *)
LEMMA MadeCounted ==
  ASSUME CallsInv, NEW c \in Calls, NEW t \in Tasks \cup {NoTask}, Make(c, t)
  PROVE  /\ call' \in [Calls -> CallType]
         /\ busy' \in Nat
         /\ BusyCountsCalls'
         /\ CallbacksHaveTasks'
<1>1. call' \in [Calls -> CallType]
  BY DEF CallsInv, TypeOK, Make, CallType
<1>2. busy' \in Nat
  BY DEF CallsInv, TypeOK, Make
<1>3. Sent' = Sent \cup {c} /\ c \notin Sent
  BY DEF CallsInv, TypeOK, Make, Sent
<1>4. BusyCountsCalls'
  BY <1>3, SentFinite, FS_AddElement DEF CallsInv, BusyCountsCalls, Make
<1>5. CallbacksHaveTasks'
  BY CallsAssumption DEF CallsInv, CallbacksHaveTasks, TypeOK, Make
<1> QED
  BY <1>1, <1>2, <1>4, <1>5

(* A call that is answered is not counted any more. *)
LEMMA AnsweredCounted ==
  ASSUME CallsInv, NEW c \in Sent,
         call' = [call EXCEPT ![c].state = "FREED"], busy' = busy - 1
  PROVE  /\ call' \in [Calls -> CallType]
         /\ busy' \in Nat
         /\ BusyCountsCalls'
         /\ CallbacksHaveTasks'
<1>1. call' \in [Calls -> CallType]
  BY DEF CallsInv, TypeOK, CallType, Sent
<1>2. Sent' = Sent \ {c}
  BY DEF CallsInv, TypeOK, Sent
<1>3. BusyCountsCalls'
  BY <1>2, SentFinite, FS_RemoveElement DEF CallsInv, BusyCountsCalls
<1>4. busy' \in Nat
  BY <1>2, <1>3, SentFinite, FS_RemoveElement, FS_CardinalityType
     DEF BusyCountsCalls
<1>5. CallbacksHaveTasks'
  BY DEF CallsInv, CallbacksHaveTasks, TypeOK, Sent
<1> QED
  BY <1>1, <1>3, <1>4, <1>5

-----------------------------------------------------------------------------
(* The tasks. *)

(* The references of a task that are counted by its state are a number. *)
LEMMA CountedNat ==
  ASSUME NEW k, k.refs = RefsOf(k)
  PROVE  k.refs \in Nat
  BY DEF RefsOf

(* What a failure that is retried makes of a task *)
LEMMA RetryValues ==
  ASSUME NEW k \in TaskType, NEW r \in RetryResults(k)
  PROVE  /\ r \in TaskType
         /\ r.call = k.call /\ r.queued = k.queued
         /\ r.state \in {"SLEEP", "DONE"}
         /\ r.refs = k.refs + (IF r.state = "SLEEP" THEN 1 ELSE 0)
<1>1. /\ k.refs + 1 \in Nat /\ k.refs \in Nat
      /\ "SLEEP" \in TaskStates /\ "DONE" \in TaskStates
  BY DEF TaskType, TaskStates
<1>2. CASE r = [k EXCEPT !.state = "SLEEP", !.refs = @ + 1]
  <2>1. r \in TaskType
    BY <1>1, <1>2 DEF TaskType
  <2>2. /\ r.state = "SLEEP" /\ r.refs = k.refs + 1
        /\ r.call = k.call /\ r.queued = k.queued
    BY <1>2 DEF TaskType
  <2> QED
    BY <2>1, <2>2
<1>3. CASE r = [k EXCEPT !.state = "DONE"]
  <2>1. r \in TaskType
    BY <1>1, <1>3 DEF TaskType
  <2>2. /\ r.state = "DONE" /\ r.refs = k.refs
        /\ r.call = k.call /\ r.queued = k.queued
    BY <1>3 DEF TaskType
  <2> QED
    BY <1>1, <2>1, <2>2
<1> QED
  BY <1>2, <1>3 DEF RetryResults

(* What its callback makes of a task that waited *)
LEMMA CallbackValues ==
  ASSUME CallsInv, NEW t \in Tasks, task[t].state = "PENDING",
         NEW ok \in BOOLEAN, NEW k \in CallbackResults(t, ok)
  PROVE  /\ k \in TaskType /\ Counted(k)
         /\ k.state # "PENDING"
         /\ k.call \in {task[t].call, NoCall}
<1>1. /\ task[t] \in TaskType
      /\ task[t].refs = 1 + (IF task[t].queued THEN 1 ELSE 0)
  BY DEF CallsInv, TypeOK, RefsCounted, Counted, RefsOf
<1>2. PICK r : /\ r \in IF ok THEN {[task[t] EXCEPT !.state = "DONE"]}
                        ELSE RetryResults(task[t])
               /\ k = [r EXCEPT !.call = IF t \in Notifications
                                          THEN NoCall ELSE @,
                                !.refs = @ - 1]
  BY DEF CallbackResults
<1>3. /\ r \in TaskType
      /\ r.call = task[t].call /\ r.queued = task[t].queued
      /\ r.state \in {"SLEEP", "DONE"}
      /\ r.refs = task[t].refs + (IF r.state = "SLEEP" THEN 1 ELSE 0)
  <2>1. CASE ok
    <3>1. r = [task[t] EXCEPT !.state = "DONE"] /\ "DONE" \in TaskStates
      BY <1>2, <2>1 DEF TaskStates
    <3>2. r \in TaskType
      BY <1>1, <3>1 DEF TaskType
    <3>3. /\ r.state = "DONE" /\ r.refs = task[t].refs
          /\ r.call = task[t].call /\ r.queued = task[t].queued
      BY <1>1, <3>1 DEF TaskType
    <3>4. task[t].refs \in Nat
      BY <1>1 DEF TaskType
    <3> QED
      BY <3>2, <3>3, <3>4
  <2>2. CASE ~ ok
    BY <1>1, <1>2, <2>2, RetryValues
  <2> QED
    BY <2>1, <2>2
<1>4. r.refs - 1 \in Nat
  BY <1>1, <1>3
<1>5. k \in TaskType
  BY <1>2, <1>3, <1>4 DEF TaskType
<1>6. /\ k.state = r.state /\ k.queued = r.queued /\ k.refs = r.refs - 1
      /\ k.call \in {r.call, NoCall}
  BY <1>2, <1>3 DEF TaskType
<1>7. k.refs = RefsOf(k)
  BY <1>1, <1>3, <1>6 DEF RefsOf
<1> QED
  BY <1>3, <1>5, <1>6, <1>7 DEF Counted

(* What a cancel makes of a task that does not wait *)
LEMMA CancelledValues ==
  ASSUME CallsInv, NEW t \in Tasks, task[t].state # "PENDING"
  PROVE  LET k == Cancelled(task[t])
         IN  /\ k \in TaskType /\ Counted(k)
             /\ k.state = "DONE" /\ k.call = task[t].call
<1> DEFINE o == task[t]
           k == Cancelled(task[t])
<1>1. o \in TaskType /\ o.refs = RefsOf(o)
  BY DEF CallsInv, TypeOK, RefsCounted, Counted
<1>2. /\ o.state = "SLEEP" => o.refs - 1 \in Nat
      /\ "DONE" \in TaskStates /\ o.refs \in Nat
  BY <1>1 DEF RefsOf, TaskStates, TaskType
<1>3. k \in TaskType
  BY <1>1, <1>2 DEF Cancelled, TaskType
<1>4. /\ k.state = "DONE" /\ k.call = o.call /\ k.queued = o.queued
      /\ k.refs = IF o.state = "SLEEP" THEN o.refs - 1 ELSE o.refs
  BY <1>1 DEF Cancelled, TaskType
<1>5. k.refs = RefsOf(k)
  BY <1>1, <1>4 DEF RefsOf
<1> QED
  BY <1>3, <1>4, <1>5 DEF Counted

(* What a cancel makes of a task that waits *)
LEMMA CancelledCallValues ==
  ASSUME CallsInv, NEW t \in Tasks, task[t].state = "PENDING"
  PROVE  LET k == Cancelled([task[t] EXCEPT !.call = NoCall, !.refs = @ - 1])
         IN  /\ k \in TaskType /\ Counted(k)
             /\ k.state = "DONE" /\ k.call = NoCall
<1> DEFINE o == task[t]
           m == [o EXCEPT !.call = NoCall, !.refs = @ - 1]
           k == Cancelled(m)
<1>1. o \in TaskType /\ o.refs = 1 + (IF o.queued THEN 1 ELSE 0)
  BY DEF CallsInv, TypeOK, RefsCounted, Counted, RefsOf
<1>2. o.refs - 1 \in Nat /\ "DONE" \in TaskStates
  BY <1>1 DEF TaskStates
<1>3. m \in TaskType
  BY <1>1, <1>2 DEF TaskType
<1>4. /\ m.state = "PENDING" /\ m.call = NoCall
      /\ m.queued = o.queued /\ m.refs = o.refs - 1
  BY <1>1 DEF TaskType
<1> HIDE DEF m
<1>5. k = [m EXCEPT !.state = "DONE", !.refs = m.refs]
  BY <1>4 DEF Cancelled
<1>6. k \in TaskType
  BY <1>2, <1>3, <1>4, <1>5 DEF TaskType
<1>7. /\ k.state = "DONE" /\ k.call = NoCall
      /\ k.queued = m.queued /\ k.refs = m.refs
  BY <1>3, <1>4, <1>5 DEF TaskType
<1>8. k.refs = RefsOf(k)
  BY <1>1, <1>4, <1>7 DEF RefsOf
<1> HIDE DEF k
<1> QED
  BY <1>6, <1>7, <1>8 DEF Counted, k, m

(* A task may go from one state in which nobody calls it back to another,
   and the handler may be told something at the same time. *)
LEMMA NobodyCallsBack ==
  ASSUME CallsInv, NEW t \in Tasks, NEW k \in TaskType, Update(t, k),
         Counted(k), task[t].state # "PENDING", k.state # "PENDING",
         k.call \in {task[t].call, NoCall},
         \/ \E c \in Calls : Make(c, NoTask)
         \/ UNCHANGED <<call, busy>>,
         UNCHANGED undefined
  PROVE  CallsInv'
<1>1. task' \in [Tasks -> TaskType] /\ RefsCounted'
  BY DEF CallsInv, TypeOK, RefsCounted, Update
<1>2. \A s \in Tasks : /\ task'[s].state = "PENDING" <=> task[s].state = "PENDING"
                       /\ task'[s].call \in {task[s].call, NoCall}
                       /\ s # t => task'[s] = task[s]
  BY DEF CallsInv, TypeOK, Update
<1>3. CASE UNCHANGED <<call, busy>>
  <2>1. \A c, s : CallsBack(c, s)' <=> CallsBack(c, s)
    BY <1>3 DEF CallsBack, Sent
  <2>2. PendingIsAnswered'
    BY <1>2, <2>1 DEF CallsInv, PendingIsAnswered
  <2>3. OwnCalls'
    BY <1>2, <1>3, <2>1 DEF CallsInv, OwnCalls, Sent
  <2> QED
    BY <1>1, <1>3, <2>2, <2>3
       DEF CallsInv, TypeOK, BusyCountsCalls, CallbacksHaveTasks, Sent
<1>4. CASE \E c \in Calls : Make(c, NoTask)
  <2>1. PICK c \in Calls : Make(c, NoTask)
    BY <1>4
  <2>2. /\ \A d \in Calls : d # c => call'[d] = call[d]
        /\ call[c].state = "NEW" /\ call'[c].state = "SENT" /\ ~ call'[c].cb
    BY <2>1, CallsAssumption DEF CallsInv, TypeOK, Make
  <2>3. \A d, s : CallsBack(d, s)' <=> CallsBack(d, s)
    BY <2>2 DEF CallsBack, Sent
  <2>4. PendingIsAnswered'
    BY <1>2, <2>3 DEF CallsInv, PendingIsAnswered
  <2>5. OwnCalls'
    <3> SUFFICES ASSUME NEW s \in Tasks, task'[s].call # NoCall
                 PROVE  /\ call'[task'[s].call].state # "NEW"
                        /\ task'[s].call \in Sent' => CallsBack(task[s].call, s)'
      BY DEF OwnCalls
    <3>1. task'[s].call = task[s].call /\ task[s].call \in Calls
      BY <1>2 DEF CallsInv, TypeOK, TaskType
    <3>2. call[task[s].call].state # "NEW"
      BY <3>1 DEF CallsInv, OwnCalls
    <3>3. call'[task[s].call] = call[task[s].call]
      BY <2>2, <3>1, <3>2
    <3>4. task'[s].call \in Sent' => CallsBack(task[s].call, s)
      BY <3>1, <3>2, <3>3 DEF CallsInv, OwnCalls, Sent
    <3>5. CallsBack(task[s].call, s)' <=> CallsBack(task[s].call, s)
      BY <2>2, <3>1, <3>2, <3>3 DEF CallsBack, Sent
    <3> QED
      BY <3>1, <3>2, <3>3, <3>4, <3>5
  <2> QED
    BY <1>1, <2>1, <2>4, <2>5, MadeCounted DEF CallsInv, TypeOK
<1> QED
  BY <1>3, <1>4

(* The handler is told something, and nobody waits for it. *)
LEMMA ReportStep ==
  ASSUME CallsInv, NEW c \in Calls, Report(c), UNCHANGED undefined
  PROVE  CallsInv'
<1>1. Make(c, NoTask) /\ task' = task
  BY DEF Report
<1>2. /\ \A d \in Calls : d # c => call'[d] = call[d]
      /\ call[c].state = "NEW" /\ call'[c].state = "SENT" /\ ~ call'[c].cb
  BY <1>1, CallsAssumption DEF CallsInv, TypeOK, Make
<1>3. \A d, s : CallsBack(d, s)' <=> CallsBack(d, s)
  BY <1>2 DEF CallsBack, Sent
<1>4. PendingIsAnswered'
  BY <1>1, <1>3 DEF CallsInv, PendingIsAnswered
<1>5. OwnCalls'
  <2> SUFFICES ASSUME NEW s \in Tasks, task[s].call # NoCall
               PROVE  /\ call'[task[s].call].state # "NEW"
                      /\ task[s].call \in Sent' => CallsBack(task[s].call, s)
    BY <1>1, <1>3 DEF OwnCalls
  <2>1. task[s].call \in Calls /\ call[task[s].call].state # "NEW"
    BY DEF CallsInv, TypeOK, TaskType, OwnCalls
  <2>2. call'[task[s].call] = call[task[s].call]
    BY <1>2, <2>1
  <2> QED
    BY <2>1, <2>2 DEF CallsInv, OwnCalls, Sent
<1> QED
  BY <1>1, <1>4, <1>5, MadeCounted
     DEF CallsInv, TypeOK, RefsCounted

(* A task calls the handler and waits: the call is its own. *)
LEMMA RunStep ==
  ASSUME CallsInv, NEW t \in Tasks, NEW c \in Calls, Make(c, t),
         task[t].state = "READY",
         Update(t, [task[t] EXCEPT !.state = "PENDING", !.call = c,
                                   !.refs = @ + 1]),
         UNCHANGED undefined
  PROVE  CallsInv'
<1> DEFINE k == [task[t] EXCEPT !.state = "PENDING", !.call = c,
                                !.refs = @ + 1]
<1>1. k \in TaskType /\ Counted(k) /\ k.state = "PENDING" /\ k.call = c
  <2>1. task[t] \in TaskType /\ task[t].refs = RefsOf(task[t])
    BY DEF CallsInv, TypeOK, RefsCounted, Counted
  <2>2. /\ k \in TaskType /\ k.state = "PENDING" /\ k.call = c
        /\ k.refs = task[t].refs + 1 /\ k.queued = task[t].queued
    <3>1. task[t].refs + 1 \in Nat /\ "PENDING" \in TaskStates
      BY <2>1 DEF TaskType, TaskStates
    <3>2. k \in TaskType
      BY <2>1, <3>1 DEF TaskType
    <3>3. /\ k.state = "PENDING" /\ k.call = c
          /\ k.refs = task[t].refs + 1 /\ k.queued = task[t].queued
      BY <2>1 DEF TaskType
    <3> QED
      BY <3>2, <3>3
  <2>3. k.refs = RefsOf(k)
    BY <2>1, <2>2 DEF RefsOf
  <2> QED
    BY <2>2, <2>3 DEF Counted
<1>2. task' = [task EXCEPT ![t] = k]
  BY DEF Update
<1> HIDE DEF k
<1>3. /\ task'[t] = k
      /\ \A s \in Tasks : s # t => task'[s] = task[s]
      /\ task' \in [Tasks -> TaskType]
  BY <1>1, <1>2 DEF CallsInv, TypeOK
<1>4. /\ call[c].state = "NEW" /\ call'[c].state = "SENT"
      /\ call'[c].cb /\ call'[c].task = t
      /\ \A d \in Calls : d # c => call'[d] = call[d]
  BY CallsAssumption DEF CallsInv, TypeOK, Make
<1>5. /\ \A s : CallsBack(c, s)' <=> s = t
      /\ \A s : ~ CallsBack(c, s)
      /\ \A d, s : d # c => (CallsBack(d, s)' <=> CallsBack(d, s))
  BY <1>4 DEF CallsBack, Sent
<1>6. \A s \in Tasks : s # t => task[s].call # c
  BY <1>4, CallsAssumption DEF CallsInv, OwnCalls
<1>7. \A d \in Calls : ~ CallsBack(d, t)
  BY DEF CallsInv, PendingIsAnswered
<1>8. PendingIsAnswered'
  <2>1. CallsBack(task[t].call, t)'
    BY <1>1, <1>3, <1>4 DEF CallsBack, Sent
  <2>2. ASSUME NEW s \in Tasks, s # t, task'[s].state = "PENDING"
        PROVE  CallsBack(task[s].call, s)'
    <3>1. CallsBack(task[s].call, s) /\ task[s].call # c /\ task'[s] = task[s]
      BY <1>3, <1>6, <2>2 DEF CallsInv, PendingIsAnswered
    <3> QED
      BY <1>4, <3>1 DEF CallsBack, Sent
  <2>3. ASSUME NEW s \in Tasks, NEW d \in Calls, CallsBack(d, s)'
        PROVE  task'[s].state = "PENDING" /\ task'[s].call = d
    <3>1. CASE d = c
      BY <1>1, <1>3, <1>5, <2>3, <3>1
    <3>2. CASE d # c
      BY <1>3, <1>5, <1>7, <2>3, <3>2 DEF CallsInv, PendingIsAnswered
    <3> QED
      BY <3>1, <3>2
  <2> QED
    BY <2>1, <2>2, <2>3 DEF PendingIsAnswered
<1>9. OwnCalls'
  <2>1. CallsBack(task[t].call, t)' /\ call'[task'[t].call].state # "NEW"
    BY <1>1, <1>3, <1>4 DEF CallsBack, Sent
  <2>2. ASSUME NEW s \in Tasks, s # t, task'[s].call # NoCall
        PROVE  /\ call'[task'[s].call].state # "NEW"
               /\ task'[s].call \in Sent' => CallsBack(task[s].call, s)'
    <3>1. /\ task'[s] = task[s] /\ task[s].call \in Calls
          /\ task[s].call # c /\ call'[task[s].call] = call[task[s].call]
      BY <1>3, <1>4, <1>6, <2>2 DEF CallsInv, TypeOK, TaskType
    <3>2. /\ call[task[s].call].state # "NEW"
          /\ task[s].call \in Sent => CallsBack(task[s].call, s)
      BY <2>2, <3>1 DEF CallsInv, OwnCalls
    <3> QED
      BY <3>1, <3>2 DEF CallsBack, Sent
  <2> QED
    BY <2>1, <2>2 DEF OwnCalls
<1> QED
  BY <1>1, <1>3, <1>8, <1>9, MadeCounted DEF CallsInv, TypeOK, RefsCounted

(* A call of the task t is not going to call it back any more, because it is
   cancelled or answered, and the task does not wait any more. *)
LEMMA CallbackGone ==
  ASSUME CallsInv, NEW t \in Tasks, NEW c \in Calls, CallsBack(c, t),
         NEW k \in TaskType, Counted(k), Update(t, k), k.state # "PENDING",
         k.call \in {c, NoCall},
         \A d \in Calls : d # c => call'[d] = call[d],
         call' \in [Calls -> CallType], busy' \in Nat,
         BusyCountsCalls', CallbacksHaveTasks',
         UNCHANGED undefined,
         \/ call'[c].state = "FREED"
         \/ call'[c].state = "SENT" /\ ~ call'[c].cb /\ k.call = NoCall
  PROVE  CallsInv'
<1>1. /\ task'[t] = k
      /\ \A s \in Tasks : s # t => task'[s] = task[s]
      /\ task' \in [Tasks -> TaskType]
  BY DEF CallsInv, TypeOK, Update
<1>2. /\ \A s : ~ CallsBack(c, s)'
      /\ \A s \in Tasks : s # t => ~ CallsBack(c, s)
      /\ c \in Sent
  BY DEF CallsBack, Sent
<1>3. \A s \in Tasks : s # t => task[s].call # c
  BY <1>2, CallsAssumption DEF CallsInv, OwnCalls
<1>4. \A d \in Calls : CallsBack(d, t) => d = c
  BY DEF CallsInv, PendingIsAnswered
<1>5. \A d \in Calls : d # c => \A s : (CallsBack(d, s)' <=> CallsBack(d, s))
  BY DEF CallsBack, Sent
<1>6. PendingIsAnswered'
  <2>1. ASSUME NEW s \in Tasks, task'[s].state = "PENDING"
        PROVE  CallsBack(task[s].call, s)'
    <3>1. s # t /\ task'[s] = task[s] /\ task[s].call # c
      BY <1>1, <1>3, <2>1
    <3>2. CallsBack(task[s].call, s) /\ task[s].call \in Calls
      BY <2>1, <3>1 DEF CallsInv, PendingIsAnswered, CallsBack, Sent
    <3>3. call'[task[s].call] = call[task[s].call]
      BY <3>1, <3>2
    <3> QED
      BY <3>1, <3>2, <3>3 DEF CallsBack, Sent
  <2>2. ASSUME NEW s \in Tasks, NEW d \in Calls, CallsBack(d, s)'
        PROVE  task'[s].state = "PENDING" /\ task'[s].call = d
    <3>1. d # c /\ CallsBack(d, s)
      BY <1>2, <1>5, <2>2
    <3>2. s # t
      BY <1>4, <3>1
    <3> QED
      BY <1>1, <3>1, <3>2 DEF CallsInv, PendingIsAnswered
  <2> QED
    BY <2>1, <2>2 DEF PendingIsAnswered
<1>7. OwnCalls'
  <2>1. ASSUME NEW s \in Tasks, s # t, task'[s].call # NoCall
        PROVE  /\ call'[task'[s].call].state # "NEW"
               /\ task'[s].call \in Sent' => CallsBack(task[s].call, s)'
    <3>1. /\ task'[s] = task[s] /\ task[s].call \in Calls
          /\ task[s].call # c
      BY <1>1, <1>3, <2>1 DEF CallsInv, TypeOK, TaskType
    <3>2. /\ call[task[s].call].state # "NEW"
          /\ task[s].call \in Sent => CallsBack(task[s].call, s)
          /\ call'[task[s].call] = call[task[s].call]
      BY <2>1, <3>1 DEF CallsInv, OwnCalls
    <3> QED
      BY <3>1, <3>2 DEF CallsBack, Sent
  <2>2. task'[t].call # NoCall => call'[task'[t].call].state = "FREED"
    BY <1>1
  <2> QED
    BY <2>1, <2>2 DEF OwnCalls, Sent
<1>8. RefsCounted'
  BY <1>1 DEF CallsInv, RefsCounted
<1> QED
  BY <1>1, <1>6, <1>7, <1>8 DEF CallsInv, TypeOK

-----------------------------------------------------------------------------
(* The steps. *)

(* Every step of a task keeps the invariant. *)
LEMMA TaskStepKeepsInv ==
  ASSUME CallsInv, NEW t \in Tasks, TaskStep(t), UNCHANGED undefined
  PROVE  CallsInv'
<1>1. /\ task[t] \in TaskType /\ task[t].refs = RefsOf(task[t])
      /\ task[t].refs \in Nat
      /\ "READY" \in TaskStates /\ "DONE" \in TaskStates
  BY DEF CallsInv, TypeOK, RefsCounted, Counted, TaskType, TaskStates
<1>2. CASE Create(t)
  <2> DEFINE k == [task[t] EXCEPT !.state = "READY", !.queued = TRUE,
                                  !.refs = 1]
  <2>1. k \in TaskType
    BY <1>1 DEF TaskType
  <2>2. /\ k.state = "READY" /\ k.queued = TRUE /\ k.refs = 1
        /\ k.call = task[t].call
    BY <1>1 DEF TaskType
  <2>3. /\ task[t].state = "NEW" /\ Update(t, k)
        /\ UNCHANGED <<call, busy>>
    BY <1>2 DEF Create
  <2> HIDE DEF k
  <2>4. Counted(k)
    BY <2>2 DEF Counted, RefsOf
  <2> QED
    BY <2>1, <2>2, <2>3, <2>4, NobodyCallsBack
<1>3. CASE Run(t)
  <2>1. task[t].state = "READY"
    BY <1>3 DEF Run
  <2>2. ASSUME NEW c \in Calls, Make(c, t),
               Update(t, [task[t] EXCEPT !.state = "PENDING", !.call = c,
                                         !.refs = @ + 1])
        PROVE  CallsInv'
    BY <2>1, <2>2, RunStep
  <2>3. ASSUME NEW k \in RetryResults([task[t] EXCEPT !.call = NoCall]),
               Update(t, k), UNCHANGED <<call, busy>>
        PROVE  CallsInv'
    <3> DEFINE m == [task[t] EXCEPT !.call = NoCall]
    <3>1. m \in TaskType
      BY <1>1 DEF TaskType
    <3>2. /\ m.state = "READY" /\ m.call = NoCall
          /\ m.queued = task[t].queued /\ m.refs = task[t].refs
      BY <1>1, <2>1 DEF TaskType
    <3>3. k \in RetryResults(m)
      BY <2>3
    <3> HIDE DEF m
    <3>4. /\ k \in TaskType /\ k.call = NoCall
          /\ k.queued = task[t].queued /\ k.state \in {"SLEEP", "DONE"}
          /\ k.refs = task[t].refs + (IF k.state = "SLEEP" THEN 1 ELSE 0)
      BY <3>1, <3>2, <3>3, RetryValues
    <3>5. k.refs = RefsOf(k)
      BY <1>1, <2>1, <3>4 DEF RefsOf
    <3> QED
      BY <2>1, <2>3, <3>4, <3>5, NobodyCallsBack DEF Counted
  <2> QED
    BY <1>3, <2>2, <2>3 DEF Run
<1>4. CASE RunReport(t)
  <2> DEFINE k == [task[t] EXCEPT !.state = "DONE"]
  <2>1. k \in TaskType
    BY <1>1 DEF TaskType
  <2>2. /\ k.state = "DONE" /\ k.queued = task[t].queued
        /\ k.refs = task[t].refs /\ k.call = task[t].call
    BY <1>1 DEF TaskType
  <2>3. task[t].state = "READY" /\ Update(t, k)
    BY <1>4 DEF RunReport
  <2>4. (\E c \in Calls : Make(c, NoTask)) \/ UNCHANGED <<call, busy>>
    BY <1>4 DEF RunReport
  <2> HIDE DEF k
  <2>5. Counted(k)
    BY <1>1, <2>2, <2>3 DEF Counted, RefsOf
  <2> QED
    BY <2>1, <2>2, <2>3, <2>4, <2>5, NobodyCallsBack
<1>5. CASE Wakeup(t)
  <2> DEFINE k == [task[t] EXCEPT !.state = "READY", !.refs = @ - 1]
  <2>1. task[t].state = "SLEEP" /\ Update(t, k) /\ UNCHANGED <<call, busy>>
    BY <1>5 DEF Wakeup
  <2>2. task[t].refs - 1 \in Nat
    BY <1>1, <2>1 DEF RefsOf
  <2>3. k \in TaskType
    BY <1>1, <2>2 DEF TaskType
  <2>4. /\ k.state = "READY" /\ k.queued = task[t].queued
        /\ k.refs = task[t].refs - 1 /\ k.call = task[t].call
    BY <1>1 DEF TaskType
  <2> HIDE DEF k
  <2>5. Counted(k)
    BY <1>1, <2>1, <2>4 DEF Counted, RefsOf
  <2> QED
    BY <2>1, <2>3, <2>4, <2>5, NobodyCallsBack
<1>6. CASE Cancel(t)
  <2>1. CASE task[t].call = NoCall
    <3>1. Update(t, Cancelled(task[t])) /\ UNCHANGED <<call, busy>>
      BY <1>6, <2>1, CallsAssumption DEF Cancel, Sent
    <3>2. task[t].state # "PENDING"
      BY <2>1, CallsAssumption DEF CallsInv, PendingIsAnswered, CallsBack, Sent
    <3> QED
      BY <3>1, <3>2, CancelledValues, NobodyCallsBack
  <2>2. CASE task[t].call # NoCall
    <3> DEFINE c == task[t].call
               k == Cancelled([task[t] EXCEPT !.call = NoCall,
                                              !.refs = @ - 1])
    <3>1. /\ c \in Sent /\ Update(t, k) /\ busy' = busy
          /\ call' = [call EXCEPT ![c].cb = FALSE]
      BY <1>6, <2>2 DEF Cancel
    <3>2. c \in Calls /\ CallsBack(c, t) /\ task[t].state = "PENDING"
      BY <2>2, <3>1 DEF CallsInv, OwnCalls, PendingIsAnswered, Sent
    <3>3. k \in TaskType /\ Counted(k) /\ k.state = "DONE" /\ k.call = NoCall
      BY <3>2, CancelledCallValues
    <3> HIDE DEF k, c
    <3>4. /\ call' \in [Calls -> CallType]
          /\ \A d \in Calls : d # c => call'[d] = call[d]
          /\ call'[c].state = "SENT" /\ ~ call'[c].cb
          /\ \A d \in Calls : /\ call'[d].state = call[d].state
                              /\ call'[d].task = call[d].task
                              /\ call'[d].cb => call[d].cb
      BY <3>1, <3>2 DEF CallsInv, TypeOK, CallType, Sent
    <3>5. Sent' = Sent
      BY <3>4 DEF Sent
    <3>6. BusyCountsCalls' /\ busy' \in Nat /\ CallbacksHaveTasks'
      BY <3>1, <3>4, <3>5
         DEF CallsInv, TypeOK, BusyCountsCalls, CallbacksHaveTasks
    <3> QED
      BY <3>1, <3>2, <3>3, <3>4, <3>6, CallbackGone
  <2> QED
    BY <2>1, <2>2
<1>7. CASE Drop(t)
  <2> DEFINE k == [task[t] EXCEPT !.queued = FALSE, !.refs = @ - 1]
  <2>1. /\ task[t].state = "DONE" /\ task[t].queued
        /\ Update(t, k) /\ UNCHANGED <<call, busy>>
    BY <1>7 DEF Drop
  <2>2. task[t].refs - 1 \in Nat
    BY <1>1, <2>1 DEF RefsOf
  <2>3. k \in TaskType
    BY <1>1, <2>2 DEF TaskType
  <2>4. /\ k.state = "DONE" /\ k.queued = FALSE
        /\ k.refs = task[t].refs - 1 /\ k.call = task[t].call
    BY <1>1, <2>1 DEF TaskType
  <2> HIDE DEF k
  <2>5. Counted(k)
    BY <1>1, <2>1, <2>4 DEF Counted, RefsOf
  <2> QED
    BY <2>1, <2>3, <2>4, <2>5, NobodyCallsBack
<1> QED
  BY <1>2, <1>3, <1>4, <1>5, <1>6, <1>7 DEF TaskStep

(* Every answer keeps the invariant. *)
LEMMA ReplyKeepsInv ==
  ASSUME CallsInv, NEW c \in Calls, NEW ok \in BOOLEAN, Reply(c, ok),
         UNCHANGED undefined
  PROVE  CallsInv'
<1>1. /\ c \in Sent /\ busy' = busy - 1
      /\ call' = [call EXCEPT ![c].state = "FREED"]
  BY DEF Reply
<1>2. /\ call' \in [Calls -> CallType] /\ busy' \in Nat
      /\ BusyCountsCalls' /\ CallbacksHaveTasks'
  BY <1>1, AnsweredCounted
<1>3. /\ call'[c].state = "FREED"
      /\ \A d \in Calls : d # c => call'[d] = call[d]
  BY <1>1 DEF CallsInv, TypeOK, CallType
<1>4. CASE call[c].cb
  <2> DEFINE t == call[c].task
  <2>1. t \in Tasks /\ CallsBack(c, t)
    BY <1>1, <1>4 DEF CallsInv, CallbacksHaveTasks, CallsBack
  <2>2. task[t].state = "PENDING" /\ task[t].call = c
    BY <2>1 DEF CallsInv, PendingIsAnswered
  <2>3. PICK k \in CallbackResults(t, ok) : Update(t, k)
    BY <1>4 DEF Reply
  <2> HIDE DEF t
  <2>4. /\ k \in TaskType /\ Counted(k) /\ k.state # "PENDING"
        /\ k.call \in {c, NoCall}
    BY <2>1, <2>2, <2>3, CallbackValues
  <2> QED
    BY <1>2, <1>3, <2>1, <2>3, <2>4, CallbackGone
<1>5. CASE ~ call[c].cb
  <2>1. task' = task
    BY <1>5 DEF Reply
  <2>2. \A s : ~ CallsBack(c, s)' /\ ~ CallsBack(c, s)
    BY <1>3, <1>5 DEF CallsBack, Sent
  <2>3. \A d, s : CallsBack(d, s)' <=> CallsBack(d, s)
    BY <1>3, <2>2 DEF CallsBack, Sent
  <2>4. \A s \in Tasks : task[s].call # c
    BY <1>1, <2>2, CallsAssumption DEF CallsInv, OwnCalls
  <2>5. PendingIsAnswered'
    BY <2>1, <2>3 DEF CallsInv, PendingIsAnswered
  <2>6. OwnCalls'
    <3> SUFFICES ASSUME NEW s \in Tasks, task[s].call # NoCall
                 PROVE  /\ call'[task[s].call].state # "NEW"
                        /\ task[s].call \in Sent' => CallsBack(task[s].call, s)
      BY <2>1, <2>3 DEF OwnCalls
    <3>1. task[s].call \in Calls /\ task[s].call # c
      BY <2>4 DEF CallsInv, TypeOK, TaskType
    <3>2. call'[task[s].call] = call[task[s].call]
      BY <1>3, <3>1
    <3> QED
      BY <3>1, <3>2 DEF CallsInv, OwnCalls, Sent
  <2> QED
    BY <1>2, <2>1, <2>5, <2>6 DEF CallsInv, TypeOK, RefsCounted
<1> QED
  BY <1>4, <1>5

(* The invariant holds at first. *)
LEMMA InitInv ==
  ASSUME Init
  PROVE  CallsInv
<1>1. task \in [Tasks -> TaskType] /\ call \in [Calls -> CallType]
  BY DEF Init, TaskType, CallType, TaskStates
<1>2. Sent = {}
  BY DEF Init, Sent
<1>3. BusyCountsCalls /\ busy \in Nat /\ undefined \in BOOLEAN
  BY <1>2, FS_EmptySet DEF Init, BusyCountsCalls
<1>4. PendingIsAnswered /\ OwnCalls
  BY <1>2 DEF Init, PendingIsAnswered, OwnCalls, CallsBack
<1>5. RefsCounted /\ CallbacksHaveTasks
  BY DEF Init, RefsCounted, Counted, RefsOf, CallbacksHaveTasks
<1> QED
  BY <1>1, <1>3, <1>4, <1>5 DEF CallsInv, TypeOK

(* Every step of the program keeps the invariant. *)
LEMMA NextKeepsInv ==
  ASSUME CallsInv, [Next]_vars
  PROVE  CallsInv'
<1>1. CASE UNCHANGED vars
  BY <1>1 DEF vars, CallsInv, TypeOK, BusyCountsCalls, PendingIsAnswered,
              RefsCounted, Counted, RefsOf, OwnCalls, CallbacksHaveTasks,
              CallsBack, Sent
<1>2. ASSUME NEW t \in Tasks, CancelFreed(t)
      PROVE  CallsInv'
  BY <1>2 DEF CancelFreed, CallsInv, TypeOK, BusyCountsCalls,
              PendingIsAnswered, RefsCounted, Counted, RefsOf, OwnCalls,
              CallbacksHaveTasks, CallsBack, Sent
<1>3. ASSUME NEW t \in Tasks, TaskStep(t), UNCHANGED undefined
      PROVE  CallsInv'
  BY <1>3, TaskStepKeepsInv
<1>4. ASSUME NEW c \in Calls, CallStep(c), UNCHANGED undefined
      PROVE  CallsInv'
  BY <1>4, ReportStep, ReplyKeepsInv DEF CallStep
<1> QED
  BY <1>1, <1>2, <1>3, <1>4 DEF Next

(* The invariant of the handler's calls, for any number of tasks and calls *)
THEOREM Invariance == Spec => []CallsInv
<1>1. Init => CallsInv
  BY InitInv
<1>2. CallsInv /\ [Next]_vars => CallsInv'
  BY NextKeepsInv
<1> QED
  BY <1>1, <1>2, PTL DEF Spec

-----------------------------------------------------------------------------
(* The properties. *)

(* Every variable stays within its type; in particular no reference to a
   task is returned twice, and the handler's busy count is never negative
   (GASSERT(h->busy >= 0) in mms_handler_busy_update). *)
THEOREM TypeCorrect == Spec => []TypeOK
<1>1. CallsInv => TypeOK
  BY DEF CallsInv
<1> QED
  BY <1>1, Invariance, PTL

(* The handler reports that it is done exactly when the last call has been
   answered. *)
THEOREM BusyCounts == Spec => []BusyCountsCalls
<1>1. CallsInv => BusyCountsCalls
  BY DEF CallsInv
<1> QED
  BY <1>1, Invariance, PTL

(* A task that waits will be called back, by the call it would cancel, and
   no other task will be. *)
THEOREM PendingAnswered == Spec => []PendingIsAnswered
<1>1. CallsInv => PendingIsAnswered
  BY DEF CallsInv
<1> QED
  BY <1>1, Invariance, PTL

(* The calls that will call a task back: one if it waits, or else none. *)
LEMMA OneCallback ==
  ASSUME CallsInv, NEW t \in Tasks
  PROVE  Cardinality({c \in Calls : CallsBack(c, t)})
           = IF task[t].state = "PENDING" THEN 1 ELSE 0
<1> DEFINE S == {c \in Calls : CallsBack(c, t)}
<1>1. CASE task[t].state = "PENDING"
  <2>1. S = {task[t].call}
    BY <1>1 DEF CallsInv, PendingIsAnswered, CallsBack, Sent
  <2> QED
    BY <1>1, <2>1, FS_Singleton
<1>2. CASE task[t].state # "PENDING"
  <2>1. S = {}
    BY <1>2 DEF CallsInv, PendingIsAnswered
  <2> QED
    BY <1>2, <2>1, FS_EmptySet
<1> QED
  BY <1>1, <1>2

(* A task has one reference from the queue, one from the call that will call
   it back and one from its wakeup. *)
THEOREM RefsAreBalanced == Spec => []RefsBalanced
<1>1. CallsInv => RefsBalanced
  <2> SUFFICES ASSUME CallsInv, NEW t \in Tasks
               PROVE  task[t].refs
                        = Cardinality({c \in Calls : CallsBack(c, t)})
                          + (IF task[t].queued THEN 1 ELSE 0)
                          + (IF task[t].state = "SLEEP" THEN 1 ELSE 0)
    BY DEF RefsBalanced
  <2>1. task[t].refs = RefsOf(task[t])
    BY DEF CallsInv, RefsCounted, Counted
  <2> QED
    BY <2>1, OneCallback DEF RefsOf
<1> QED
  BY <1>1, Invariance, PTL

(* A task that is done stays done in every step. *)
LEMMA StepKeepsDone ==
  ASSUME CallsInv, [Next]_vars, NEW t \in Tasks, task[t].state = "DONE"
  PROVE  task'[t].state = "DONE"
<1> USE DEF Update
<1>1. /\ task \in [Tasks -> TaskType]
      /\ "DONE" \in TaskStates
  BY DEF CallsInv, TypeOK, TaskStates
<1>2. CASE UNCHANGED task
  BY <1>2
<1>3. ASSUME NEW s \in Tasks, TaskStep(s)
      PROVE  task'[t].state = "DONE"
  <2>1. CASE s # t
    <3>1. PICK k : task' = [task EXCEPT ![s] = k]
      BY <1>3 DEF TaskStep, Create, Run, RunReport, Wakeup, Cancel, Drop
    <3> QED
      BY <1>1, <2>1, <3>1
  <2>2. CASE s = t
    <3>1. Cancel(t) \/ Drop(t)
      BY <1>3, <2>2 DEF TaskStep, Create, Run, RunReport, Wakeup
    <3>2. CASE Cancel(t)
      <4>1. PICK m \in {task[t], [task[t] EXCEPT !.call = NoCall,
                                                  !.refs = @ - 1]} :
                task' = [task EXCEPT ![t] = Cancelled(m)]
        BY <3>2 DEF Cancel
      <4>2. DOMAIN m = {"state", "call", "queued", "refs"}
        BY <1>1, <4>1 DEF TaskType
      <4>3. Cancelled(m).state = "DONE"
        BY <4>2 DEF Cancelled
      <4> QED
        BY <1>1, <4>1, <4>3
    <3>3. CASE Drop(t)
      BY <1>1, <3>3 DEF Drop, TaskType
    <3> QED
      BY <3>1, <3>2, <3>3
  <2> QED
    BY <2>1, <2>2
<1>4. ASSUME NEW c \in Calls, NEW ok \in BOOLEAN, Reply(c, ok)
      PROVE  task'[t].state = "DONE"
  <2>1. CASE call[c].cb
    <3> DEFINE s == call[c].task
    <3>1. s \in Tasks /\ CallsBack(c, s)
      BY <1>4, <2>1 DEF Reply, CallsInv, CallbacksHaveTasks, CallsBack
    <3>2. s # t
      BY <3>1 DEF CallsInv, PendingIsAnswered
    <3>3. PICK k : task' = [task EXCEPT ![s] = k]
      BY <1>4, <2>1 DEF Reply
    <3> HIDE DEF s
    <3> QED
      BY <1>1, <3>2, <3>3
  <2>2. CASE ~ call[c].cb
    BY <1>4, <2>2 DEF Reply
  <2> QED
    BY <2>1, <2>2
<1> QED
  BY <1>2, <1>3, <1>4 DEF Next, vars, CancelFreed, CallStep, Report

(* An answer that comes after its task was cancelled does not bring the task
   back. *)
THEOREM DoneStays == Spec => DoneIsFinal
<1>1. CallsInv /\ [Next]_vars =>
        [\A t \in Tasks : task[t].state = "DONE" => task'[t].state = "DONE"]_vars
  BY StepKeepsDone
<1> QED
  BY <1>1, Invariance, PTL DEF Spec, DoneIsFinal

=============================================================================
