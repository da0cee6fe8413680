------------------------------ MODULE TaskSort ------------------------------
(***************************************************************************)
(* Sorting the dispatcher's queue, whatever is in it and in any            *)
(* arrangement: g_queue_sort with the comparator of TaskOrder.             *)
(*                                                                         *)
(* The comparator is not transitive while a connection is open, so what    *)
(* comes out depends on how the sort goes about it, and GLib's merge sort  *)
(* is written out here.  Module Dispatcher has a set for a queue and lets  *)
(* any of Heads come first; what the sort puts first is one of them.       *)
(***************************************************************************)
EXTENDS TaskOrder, Sequences

CONSTANTS Length,      \* bound: how many tasks are queued
          Sims,        \* the SIMs
          TaskStates,  \* the task states to try
          ConnStates   \* the states of the connection to try

ASSUME SortAssumption == Length \in Nat /\ TaskStates \subseteq LiveStates

Slots == 1..Length

VARIABLES queue,   \* disp->tasks: the tasks as the comparator sees them
          held,    \* disp->connection
          sorted   \* the queue has just been sorted

sortVars == <<queue, held, sorted>>

Queued == {queue[i] : i \in Slots}

-----------------------------------------------------------------------------
(* The sort. *)

(* The merge of two sorted queues of tasks of T: the first task of the right
   one comes next only when the comparator puts it before the first of the
   left one. *)
Merge(T, c) ==
  LET merge[q \in Seq(T) \X Seq(T)] ==
        LET l == q[1]
            r == q[2]
        IN  IF l = <<>> THEN r
            ELSE IF r = <<>> THEN l
            ELSE IF Precedes(Head(r), Head(l), c)
                 THEN <<Head(r)>> \o merge[<<l, Tail(r)>>]
                 ELSE <<Head(l)>> \o merge[<<Tail(l), r>>]
  IN  merge

(* Both halves are sorted and merged; the right one has the odd task. *)
MergeSort(T, c) ==
  LET sort[s \in Seq(T)] ==
        LET half == Len(s) \div 2
        IN  IF Len(s) < 2 THEN s
            ELSE Merge(T, c)[<<sort[SubSeq(s, 1, half)],
                               sort[SubSeq(s, half + 1, Len(s))]>>]
  IN  sort

(* The first statement of mms_dispatcher_pick_next_task *)
Sort ==
  /\ ~sorted
  /\ queue' = MergeSort(Queued, held)[queue]
  /\ sorted' = TRUE
  /\ UNCHANGED held

-----------------------------------------------------------------------------
(* The queues the dispatcher may have to sort. *)

Permutation == {p \in [Slots -> Slots] : \A i, j \in Slots :
                                           i # j => p[i] # p[j]}

(* The same tasks in another arrangement *)
Arranged(s, p) == [i \in Slots |-> s[p[i]]]

(* A task transmits only over the open connection of its SIM, and alone
   (theorem TransmissionHasConnection of module DispatcherProofs). *)
Sender(t) == t.state = "TRANSMITTING"

Consistent(q, c) ==
  \A i \in Slots : Sender(q[i]) =>
     /\ c.state = "OPEN"
     /\ q[i].imsi = c.imsi
     /\ \A j \in Slots \ {i} : ~Sender(q[j])

SortInit ==
  /\ held \in [state : ConnStates, imsi : {CHOOSE s \in Sims : TRUE}]
  /\ \E q \in [Slots -> [state : TaskStates, imsi : Sims, post : BOOLEAN]],
        p \in Permutation :
       LET tasks == [i \in Slots |-> [state |-> q[i].state, imsi |-> q[i].imsi,
                                      order |-> i, post |-> q[i].post]]
       IN  Consistent(tasks, held) /\ queue = Arranged(tasks, p)
  /\ sorted = FALSE

SortNext == Sort

SortSpec == SortInit /\ [][SortNext]_sortVars

-----------------------------------------------------------------------------
(* Properties. *)

(* What the dispatcher does nothing about when it comes first *)
Idles(t) == t.state \in {"WORKING", "PENDING", "SLEEP"}

(* A task that can go on is not kept from its turn by one that cannot: the
   dispatcher looks at the first task only and does nothing about one that
   works, waits for an answer or sleeps.  When such a task comes first, no
   other of its priority or above can go on either, even where the comparator
   runs in a circle; a task that processes a message does go before all those
   of normal priority (mms_dispatcher_pick_next_task). *)
HeadHidesNobody ==
  sorted /\ Length > 0 =>
    LET h == Head(queue)
    IN  Idles(h) => \A i \in Slots : \/ Idles(queue[i])
                                     \/ h.post /\ ~queue[i].post

(* What the sorted queue promises even where the comparator runs in a circle:
   the task that transmits comes first as long as the connection is open
   ("Don't interfere with the task transmiting the data"), behind it tasks of
   different priority come in that order, whatever else differs, and without
   an open connection the whole queue is in the comparator's order. *)
OrderedAsPromised ==
  sorted =>
    \A i, j \in Slots : i < j =>
       /\ ~Sender(queue[j])
       /\ Sender(queue[i]) \/ (queue[j].post => queue[i].post)
       /\ held.state # "OPEN" => Precedes(queue[i], queue[j], held)

-----------------------------------------------------------------------------
(* What ties the sort to the set that module Dispatcher has for a queue:
   however the queue was arranged, what comes first in it is one of the tasks
   that Heads names, so that the dispatcher's model leaves no choice of the
   next task out; and where the comparator puts one task before all others,
   Heads names no other.  It compares the two modules and says nothing of the
   code: see theorem SortedHead of module DispatcherProofs.  With four tasks
   and a circle Heads may name one that the sort never puts first. *)
HeadIsExpected ==
  LET heads == Heads(Queued, [t \in Queued |-> t], held)
  IN  /\ sorted /\ Length > 0 => Head(queue) \in heads
      /\ \A h \in Queued :
           (\A u \in Queued \ {h} : Precedes(h, u, held)) => heads = {h}
=============================================================================
