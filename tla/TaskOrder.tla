------------------------------ MODULE TaskOrder ------------------------------
(***************************************************************************)
(* The order of the dispatcher's task queue: mms_dispatcher_sort_cb, the   *)
(* comparator given to g_queue_sort every time the dispatcher looks for    *)
(* the next task.                                                          *)
(*                                                                         *)
(* The queue is a set here.  Only the head of the sorted queue decides     *)
(* what the dispatcher does next, and where the comparator is a strict     *)
(* total order the head does not depend on the arrangement the sort        *)
(* started from.  Where it is not (see module TaskSort) GLib leaves the    *)
(* result to its merge sort; Heads then holds every task that can come out *)
(* first.                                                                  *)
(***************************************************************************)
EXTENDS Naturals

(* enum MMS_TASK_STATE; "NONE" is a task object that does not exist. *)
LiveStates == {"READY", "NEED_CONNECTION", "NEED_USER_CONNECTION",
               "TRANSMITTING", "WORKING", "PENDING", "SLEEP", "DONE"}

NeedStates == {"NEED_CONNECTION", "NEED_USER_CONNECTION"}

RunnableStates == {"READY", "DONE"}

(***************************************************************************)
(* What the comparator looks at.  A task has a state, a SIM, its creation  *)
(* order and a priority: post is TRUE for MMS_TASK_PRIORITY_POST_PROCESS.  *)
(* A connection has a state and a SIM.                                     *)
(***************************************************************************)
WantsThis(a, c) == a.state \in NeedStates /\ a.imsi = c.imsi

(* Seeded fault: the comparator without its first rule. *)
PrecedesAnySender(a, b, c) ==
  LET runs(x)  == x.state \in RunnableStates
      needs(x) == x.state \in NeedStates
  IN  IF a.post # b.post              THEN a.post
      ELSE IF runs(a) # runs(b)       THEN runs(a)
      ELSE IF needs(a) # needs(b)     THEN needs(a)
      ELSE a.order < b.order

(* Seeded fault: the comparator without the rule for the tasks that need the
   network. *)
PrecedesAnyWaiting(a, b, c) ==
  LET open     == c.state = "OPEN"
      sends(x) == x.state = "TRANSMITTING"
      wants(x) == WantsThis(x, c)
      runs(x)  == x.state \in RunnableStates
  IN  IF open /\ sends(a) # sends(b)      THEN sends(a)
      ELSE IF a.post # b.post             THEN a.post
      ELSE IF open /\ a.state # b.state
                   /\ wants(a) # wants(b) THEN wants(a)
      ELSE IF runs(a) # runs(b)           THEN runs(a)
      ELSE a.order < b.order

(* Seeded fault: the comparator without the priorities. *)
PrecedesByState(a, b, c) ==
  LET open     == c.state = "OPEN"
      sends(x) == x.state = "TRANSMITTING"
      runs(x)  == x.state \in RunnableStates
      needs(x) == x.state \in NeedStates
  IN  IF open /\ sends(a) # sends(b)  THEN sends(a)
      ELSE IF runs(a) # runs(b)       THEN runs(a)
      ELSE IF needs(a) # needs(b)     THEN needs(a)
      ELSE a.order < b.order

(***************************************************************************)
(* mms_dispatcher_sort_cb(a, b) < 0, for two different tasks.  The code    *)
(* asks for different states before it prefers the tasks that want the     *)
(* open connection; for its other state-based rules that condition follows *)
(* from the rule itself.                                                   *)
(***************************************************************************)
Precedes(a, b, c) ==
  LET open     == c.state = "OPEN"
      sends(x) == x.state = "TRANSMITTING"
      wants(x) == WantsThis(x, c)
      runs(x)  == x.state \in RunnableStates
      needs(x) == x.state \in NeedStates
  IN  IF open /\ sends(a) # sends(b)      THEN sends(a)
      ELSE IF a.post # b.post             THEN a.post
      ELSE IF open /\ a.state # b.state
                   /\ wants(a) # wants(b) THEN wants(a)
      ELSE IF runs(a) # runs(b)           THEN runs(a)
      ELSE IF needs(a) # needs(b)         THEN needs(a)
      ELSE a.order < b.order

(***************************************************************************)
(* The tasks of the set q that can be first in the sorted queue: no part   *)
(* of the queue that leaves such a task in is preceded by all of the rest. *)
(* view[t] is what the comparator sees of task t.                          *)
(***************************************************************************)
Heads(q, view, c) ==
  {h \in q : \A S \in SUBSET q :
               (h \in S /\ S # q) =>
                  \E a \in S, b \in q \ S : Precedes(view[a], view[b], c)}
=============================================================================
