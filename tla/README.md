# A verification of mms-engine

mms-engine is the daemon of Sailfish OS that sends and receives multimedia messages. This directory holds TLA+
models of its core, the configurations that check them with TLC, and proofs that TLAPS checks. Paths of source
files are relative to the repository.

- [1 The system](#1-the-system): its parts, their state, how they interact, what is hard
- [2 The modules](#2-the-modules): what models what, and how it corresponds to the code
- [3 The runs](#3-the-runs): what is checked, bounds, fairness
- [4 The proofs](#4-the-proofs)
- [5 What the models show of the code](#5-what-the-models-show-of-the-code): disagreements found
- [6 What is not modelled](#6-what-is-not-modelled)
- [7 Plan](#7-plan)

Run `tlc -config Dispatcher.cfg MCDispatcher` to check, `tlapm DispatcherProofs.tla` to prove.
`PROJECT.json` maps every definition to its lines of code, lists the hazards and the seeded faults ("mutants")
that show that each property can fail.

## 1 The system

Everything but the encoding of images runs on one GLib main loop. A step of a model outside the task loop is one
callback: a D-Bus call that comes in, an answer, a timer, an idle source, a thread's completion.

| Part | State | Operations | Talks to |
|---|---|---|---|
| Engine `mms-engine/mms_engine.c` | inactivity timer, stop flags, main loop | D-Bus methods (send, receive, cancel, read reports), busy callbacks, deferred stop | dispatcher; busy signals of handler and connection manager |
| Dispatcher `mms-lib/src/mms_dispatcher.c` | queue of tasks, current connection, idle sources, `started` | queue, run the loop, cancel, connection state changes, report "done" | tasks, connection manager, engine (delegate) |
| Task base class `mms_task.c` | state, order number, deadline, wakeup, references | run, retry, sleep, wake up, cancel | dispatcher (delegate) |
| HTTP tasks `mms_task_http.c` and retrieve, send, ack, notifyresp, read | transaction state, libsoup session | transmit, finish, abort, pause, retry | libsoup, transfer list |
| Other tasks: notification, decode, publish, encode | their calls, their job | run, answer, end of the job | handler, task pool |
| Connection manager and connection of Nemo `mms-connman-nemo` | the current connection; its SIM reservation, handlers, context | open, close, follow ofono | ofono's modem manager over D-Bus, libgofono |
| Handler `mms_handler.c`, `mms_handler_dbus.c` | pending calls, busy count | notify, received, reports; answers; cancel | the commhistory daemon over D-Bus |
| Connection manager and connection of ofono `mms-connman-ofono` | modems, default modem, weak pointers to connections; a connection's modem, SIM, names | open, close, follow ofono | libgofono |
| Transfer list `mms-transfer-list-dbus` | table of transfers, list's clients, each transfer's clients, requests and flags | start, finish, progress; Get, EnableUpdates, DisableUpdates; clients that leave | user interface over D-Bus |
| Settings `mms_settings.c`, `mms-settings-dconf` | the values of the SIM asked for last, its watches | get for a SIM, migrate, follow changes | dconf; read by the encoding jobs |
| Codec and message `mms_codec.c`, `mms_message.c` | - ; a message's references, parts and files | decode, encode; reference, release | the tasks that receive and publish |
| Attachments `mms_attachment*.c` | file, mapped data, step of shrinking | reset, resize | the encoding job's thread |

### The life of a message

A D-Bus call makes a task: a notification (push), an encoding (send), a retrieval or a read report. A task puts
further tasks in the queue: notification → retrieve → decode → publish and ack; encode → send. The dispatcher sorts
the queue, takes the head, and does what the head's state asks for: runs it, transmits over the connection when it is
the right one, requests a connection, waits for one, or closes the wrong one. One connection exists at a time, for
one SIM.

### What is hard

- **The loop looks at the head only** and must be scheduled again by whatever changes a state. A missed schedule leaves
  a task in the queue for ever.
- **One connection, many SIMs.** Tasks of another SIM or of higher priority take it over, and it may close in
  the middle of `mms_connection_close`, later, or on its own, while a transaction is running.
- **The comparator is a chain of rules that apply to some pairs only**; with a connection open it is not
  transitive, and the merge sort is given an order that is none.
- **Callbacks in the middle of calls.** Older versions of libsoup call the completion handler from inside
  `soup_session_abort`; newer ones call it after the task has gone on to another session or is gone.
- **Answers that come late**: to a cancelled call of the handler, to a reservation of a SIM that nobody wants any
  more, from an encoding job that was cancelled when it was over.
- **ofono may crash and come back** in every state of a connection, and the handlers for the modem manager, the modem
  and the context all fire.
- **Counting**: the process exits when nobody is busy. Every call must be counted up and down once, whichever way
  it ends.
- **Timers**: the inactivity timers of engine and connection must not tick against work, nor be forgotten; retries end
  at a deadline.
- **Flags at two levels**: what a transfer signals is cached per client and per transfer.
- **Weak pointers and one copy**: the manager of ofono remembers connections it does not own, the settings keep the
  values of one SIM while a thread asks again and again for those of another.
- **A PDU is not trusted**: headers are repeated, unreadable, out of place; parts are called alike or not at all.
- **Files of several owners** in one directory, which whoever looks last removes.

`PROJECT.json` lists each of these at its line, with the properties that guard it.

### What makes each part correct

- Dispatcher: nobody transmits over a connection of another SIM, a transmission is not disturbed by the queue, no
  wakeup is lost, "done" is reported, the connection closes when nobody uses it and not before, every task ends.
- Order of the queue: the transmitting task first, priorities respected, and a task that can do nothing hides none of
  its priority that could be run.
- HTTP task: each transfer reported once, a wakeup exactly while asleep, a stale completion ignored, and the
  task behaves as the dispatcher assumes.
- Engine: its timer does not tick against tasks or a connection, and it exits when there is no work.
- Connection: the promised life cycle, reservations returned, objects outlive their use, pointers are fresh, a held
  connection is usable, close and busy come to an end.
- Handler's calls: a task waits exactly while it will be called back, references balance, done is final, waiting ends.
- Transfer list: flags are what is requested, signals reach those who asked and nobody else, leavers are forgotten.
- Settings and encoding: the settings in use are those of the SIM, what is sent has all its data and fits, the
  sender hears of the end.
- Receiving: a message is made of what came first and whole, its parts are found under their names as long as
  anybody holds it, answers can be decoded, and no file is left.

## 2 The modules

    TaskOrder <- Dispatcher <- Engine        Connections <== ConnectionNemo, ConnectionOfono
        ^            :                       TaskLife    <== HttpTask
    TaskSort         (assumes TaskLife)      HandlerCalls     Transfers
    SimSettings <- Encode                    Pdu <- Receive

`<-` is EXTENDS, `<==` is "implements", checked as a refinement. Every `MC...` module gives the constants of its
module values for TLC, every `...Proofs` module holds the theorems of its module.

**TaskOrder** is the comparator (`mms_dispatcher_sort_cb`) as the relation `Precedes`, and the tasks it lets come
first (`Heads`). **TaskSort** is GLib's merge sort with that comparator, as two recursive functions, and a queue that is sorted
with it. Its properties are about the code's queue: since the loop looks at the head only, `HeadHidesNobody` says that a task
which works, waits or sleeps comes first only when no task of its priority could be run, and `OrderedAsPromised` what
is left of the order although the relation is none. What ties it to the dispatcher's model, which takes any of `Heads`, is
`HeadIsExpected`: the sort puts one of `Heads` first, so that the model leaves no choice out. It compares two modules and no run
checks it; it is the theorem `SortedHead`. The model may have choices that the code has not: with an open connection, four tasks
or more and the comparator running in a circle, `Heads` can name a task that no arrangement brings first. Where one task
precedes all others it names no other.

**Dispatcher** is `mms_dispatcher.c` with the life of its tasks. The queue is the set of tasks whose `taskState` is
not `NONE`: only its head, once sorted, is ever looked at. `mms_dispatcher_run` is a single callback; the model cuts it
into its iterations (`RunReady`, `FreeDone`, `Transmit`, `AwaitOpen`, `AwaitClose`, `OpenConnection`, `EndRun`), and
`phase` keeps every other callback out meanwhile. That also makes `active_task`, which exists only within an iteration,
unnecessary. `RunResults` includes a decoding that queues the publication alone, because no acknowledgement could be made. The
task classes are what they do to the queue: `RunResults`, `ReplyResults` and their like give the new
state and the classes of tasks queued. A connection may answer a close at once, within the call (`LoseConnection`
nested in the action), or later (`closing`). Other callbacks may come between the scheduling of a run and the run,
although its idle source has high priority: sources of the same iteration of the main loop are dispatched before it.
The order counter starts again when the last task object is gone (`mms_task.c:140`).

**Engine** composes the dispatcher with `mms_engine.c`: the D-Bus methods that reach it, the inactivity timer, the stop
that is scheduled as an idle source and the one that is deferred to the dispatcher's report, the end of the main loop.

**HttpTask** is one HTTP task with `mms_task_http.c` and the base class, down to nested calls: operations are functions
from task object to task object that are composed as the code composes them. `asyncSession` chooses between the two
libsoup sessions of `mms_task_http.c:38-41`: TRUE is the one whose abort calls the completion in the middle, so that
the transfer still looks like the current one, and a retry nests in whatever called abort; FALSE is the one that
completes later, so that a completion may be stale. **TaskLife** is a task as the dispatcher sees it.

**ConnectionNemo** is `mms_connection_nemo.c` with the manager's single connection, ofono's modem manager (the queues
`inbox` and `outbox` are D-Bus, in order both ways) and the state of modem and context that libgofono shows. The
handlers a connection has registered follow from `step`, how far it has got. ofono may refuse a reservation, lose the
SIM, crash and restart; a crash answers all calls with errors. **Connections** is the promise of `mms_connection.h`.

**ConnectionOfono** is `mms_connman_ofono.c` and `mms_connection_ofono.c` with what the dispatcher does in its handler:
the list of modems, the default one (`Select`), the weak pointer of each modem, and a connection that follows its SIM
(`ImsiLost` and its like) and its context. The default is selected anew when a SIM manager becomes valid or its SIM comes or
goes (`PresenceChanged`), not when the SIM is another one. A handler runs inside the event that emits, and so nested callbacks are
part of the action. When a modem with a connection goes, the code drops a reference that is the dispatcher's: the model
sets `dangling` and stops there.

**SimSettings** is where a value of a SIM comes from: built in, configuration file, command line, dconf, and the move
from the place older versions used (`Attach`). One copy, `data`, is kept for the SIM asked for last. A change of a
watched value is heard of later (`changes`). **Encode** composes it with the encoding tasks: the list of attachments as
it is composed in the main thread (`Prepared`), the job's thread with a step for each of its phases (`Thread`),
the shrinking of the largest image, and the result that the main loop takes. The size of a request is the sum of the sizes
of its attachments; each shrinking may fail, and may make the file larger.

**Pdu** is the decoder as an operator: which fields it takes a value from (`Taken`), which PDUs it accepts
(`Decodes`) and what the encoder makes of the answers. It follows the loop of `mms_parse_headers`, in which a field that is
out of place stops the loop, for the header tables of all PDU types. **Receive** is a message's way from the
notification's retrieval to the handler: the five tasks, the message and who holds it, and the files in its two
directories. A retrieve status that the decoder does not know counts as none. A part whose transfer encoding cannot be
decoded is renamed back to its name; nobody looks whether that works, and where it does not the part has no file and its
original stays (`"stray"` in `Content`). The decoding is one callback and is cut into its parts (`Decode`, `DecodePart`, `Decoded`), and nothing
else happens until it ends (`Idle`).

**HandlerCalls** is `mms_handler_dbus.c` with the two tasks that wait for answers. A call has its callback and its
parameter, the task a pointer to the call; `refs` counts the references the queue, the call and the wakeup
hold. When the code would use a call that has been freed, the model sets `undefined` and stops there. Memory is not
reused, so that every use of a freed call is seen.

**Transfers** is `mms-transfer-list-dbus`. The clients' side is observed: `sent` is what the last step signalled,
`known` the list as a client keeps it from `Get` and the signals. A client that has left may have one call still on
its way. A message has at most one entry in the table, since the keys' types are not told apart; a transfer that starts while one
is listed replaces it (`Started`), with the old one's end signalled (`EndSignals`). One that replaces another of the same
path is listed but not on the bus (`exported`), so that its requests cannot be made nor revoked.

## 3 The runs

| Run | Question | Distinct states |
|---|---|---|
| Dispatcher | an incoming message from notification to delivery, against a user's download and an encoding for another SIM, failing or cancelled anywhere: no lost wakeup, done reported, right connection, no disturbance, idle timer, connection not left open | 1000219 |
| DispatcherCancel | violation: a message is sent though its encoding was cancelled | - |
| TaskSort | all queues of three tasks in all arrangements: a task that can do nothing hides none that could be run, and the order that is promised | 96832 |
| Engine | the engine around its dispatcher: the timer against tasks and connection, and the exit | 12238 |
| HttpTask | an HTTP task with every failure on both libsoups, against TaskLife | 1684 |
| ConnectionNemo | two connections on two SIMs against an ofono that fails in all ways, against Connections | 98992 |
| ConnectionOfono | two connections over two modems, which come and go with their SIMs and contexts, against Connections | 401198 |
| HandlerCalls | a notification and a publication, retried, cancelled, answered late | 68481 |
| PublishDangling | violation: a publication runs with a stale call | - |
| Transfers | two clients follow a list and a message transferred repeatedly, also before the last transfer was off the list; they revoke and leave | 235878 |
| Encode | a message with two images, or with its own SMIL, shrunk until it fits, while the settings change and those of another SIM are asked for | 664324 |
| Receive | all short PDUs, and messages whose parts are called alike, retrieved, decoded, acknowledged and published | 1527676 |

Deadlock is checked for the dispatcher (Dispatcher, DispatcherCancel). Elsewhere the modelled program ends: the
engine's loop quits, the one HTTP task is freed, connections, calls and cookies are used up, the queue is sorted, the
message is sent or received.

Five more configurations show what section 5 describes, each in a few seconds and each by one invariant that is
violated: `EngineBusy.cfg`, `EngineReport.cfg` and `EngineStop.cfg` (with MCEngine; `NoExitWhileBusy`, `TimerSparesCalls`,
`StopTakesPlace`), `ConnectionRelease.cfg` (MCConnectionNemo, `ReleasesItsOwn`) and `OfonoModemGone.cfg` (MCConnectionOfono,
`HeldIsReferenced`).

### Bounds

- `MaxOrder = 2` (dispatcher): no *request* is taken once so many tasks were numbered. Tasks queued by other tasks are
  not bounded, so a message goes through all its stages; two requests are enough for the interleavings of two
  activities and for one that is repeated. Numbers start again when the queue empties, so runs are unbounded in length.
- Seven tasks on two SIMs (Dispatcher): every state a task can be in, a change of SIM, a user's task among others, and
  work that needs no connection. The encoding's `send` is in the Engine's instance and in DispatcherCancel's.
- `Length = 3` (sort): three tasks are the least that can be in a circle; longer queues are the theorems'. States the comparator does not tell apart
  have one representative. A transmitting task is on the open connection of its own SIM, and there is one: that is
  the theorem `TransmissionHasConnection`.
- `MaxSessions = 5` (HTTP): a stale session behind the current one needs two; five leaves room for retries between.
- `MaxCalls = 3` (engine): requests until the end; a cancel and two sends.
- Two connections, `MaxCrashes = 1`, `MaxInbox = 2` (Nemo): a late answer to the first connection meets the second;
  `MaxInbox` bounds only the messages after which the SIM may be taken out. ConnectionRelease needs no crash.
- Two modems, two SIMs, two connections (ofono): the default modem changes, a SIM moves between the modems, and a second
  connection is made while pointers to the first might be left. One of the modems can be given either SIM.
- Four calls (handler): both tasks call, fail, and call again, or reports are sent meanwhile.
- `MaxCookie = 2`, `MaxBytes = 1` (transfers): two requests in force at once, of one client or of two, is what the cached
  flags can get wrong; `MaxBytes` counts progress in one direction.
- One task, two images, `MaxWrites = 1`, `MaxRetries = 1` (encode): the SIM's limit is the default or a smaller one
  written meanwhile, neither is met at once, and what is written for the other SIM cannot be converted. The theorems cover
  any number of tasks and sizes.
- Fields in sequences of up to four, and longer ones chosen for repetition (receive): three headers are mandatory, so the
  fourth is the one that is repeated, unreadable or out of place. Two or three parts with names that collide in the
  ways the code distinguishes: equal, prefixed, slashed, bracketed, empty, and called like another's undecoded copy.
  `MaxTries = 1`. The transaction id "long" is one that does not fit its buffer.

### Fairness

Weak fairness throughout; what is assumed:

- *Main loop.* A source that stays ready is dispatched: the scheduled run, each iteration of it, the
  engine's idle source, a message that has arrived.
- *Timers* that are not stopped expire: wakeups, deadlines, inactivity.
- *The world answers*: a connection being opened or closed gets somewhere, an HTTP transaction ends (libsoup's timeout),
  D-Bus calls are answered (with an error if the peer died), encoding jobs end, a context asked to deactivate
  does so, the bus reports clients that leave.
- *Threads* run: a job that has begun goes on to its end.
- Nothing makes a connection open or a transfer succeed, nobody has to make requests. `EngineExits` and `EncodingEnds` need
  no strong fairness because retries end at the deadline: a task cannot be kept from its end by going round.
- The liveness properties are `EngineExits`, `ConnectionSettles`, `CloseEnds`, `PendingEnds`, `LeaversAreForgotten` and
  `EncodingEnds`. The runs of Dispatcher, TaskSort, HttpTask and Receive check safety only and assume no fairness.

## 4 The proofs

For all values of the constants, under the ASSUMEs the modules name.

**DispatcherProofs.** `TypeCorrect`, and `TransmissionHasConnection`: a task transmits only over the open connection of its own
SIM, and alone. `TypeOK /\ TransmitOnOpenConnection` is inductive; the argument is in four lemmas. A transmitting task
is a sender and so the only head (`SenderComesFirst`), therefore no head needs the network while somebody transmits
(`NeedHeadAlone`) and the loop starts no second transmission and takes no connection over; every loss of the connection ends
the transmission in the same callback (`LossEndsTransmission`); and no other event makes a task TRANSMITTING
(`NoNewSender`). The properties of the schedule (`NoLostWakeup`, `DoneIsReported`, `UnusedConnectionEnds`,
`IdleTimerSparesUsers`) are about what the loop found when it ended, and none is inductive alone. `ScheduleInv` is: besides
the last three it says that a head waits from the end of the loop on (`HeadWaits`), not only when the dispatcher is
quiescent. An event of the world either schedules a run, or leaves the dispatcher inactive, or changes nothing that the
loop's end depended on (`Still`); that a job belongs to a task that works or was cancelled (`JobStates`) is needed for the
end of an encoding, which schedules a run. `TransmissionUndisturbed` follows from `DispatcherInv`, the conjunction.

The same module proves of the engine that every step of it is a step of the dispatcher or leaves its variables alone
(`DispatcherImplemented`), so that the dispatcher's theorems hold within it (`EngineKeepsSchedule` states two of them).
`EngineTimer` needs more than that the timer looks at `started`: that a dispatcher which has not been started, or has reported
its end, has an empty queue, no connection and nothing asked for, whatever still reports to it (`UnstartedIsIdle`). It ceases
to be started only when it is so (`ReportedWhenIdle`, `StopsWhenIdle`), and what comes later, the end of a cancelled job, queues
nothing (`IdleStays`). With it `TimerSparesWork` follows: only requests start the dispatcher, and each of them
looks at the timer again (`TimerUnstarted`). A call of the handler may go on, see `EngineReport.cfg`.

And it proves of the sort, for queues of any length and arrangement, `SortedHidesNobody`, `SortedOrder` and
`SortedHead`. The sort is recursive, and
two things are done by hand that an induction theorem would do: `Recursion` says that a function exists which is defined by
recursion over a size, from which `MergeIs` and `SortIs` have what `Merge` and `MergeSort` do with their arguments; and what
they make of every queue is shown by the smallest queue for which it would be wrong (`LeastOf`). A merge keeps the tasks of
both queues, and any transitive relation that contains the comparator's verdicts (`MergeKeeps`); what is promised of the sorted
queue is such a relation although the comparator is not (`PromiseRespects`). The better of two heads is the head of both
(`BetterReaches`): that is what `Heads` says, and why it holds of whatever a merge sort puts first.

**HttpTaskProofs.** Since the calls nest, the invariant is one of the task *object* (`Sound`): typed, a wakeup exactly
when asleep, reported exactly when done, transaction done exactly when the task is. Lemmas say of each operation
that it returns a sound object and in which state; the actions compose them. With `TransmitsOverItsSession` it is inductive.
It gives `TypeCorrect`, `WakeupOnlyAsleep`, `OutcomeOnce`, `OwnSession`. That only a task that transmits has an active
transfer (`ActiveTransmits`, where an aborted session completes at once) gives `TransferLeaves`. `TaskLifeImplemented` maps each step to a step of
`TaskLife` or a stutter, which is what justifies the HTTP tasks of the dispatcher's model.

**HandlerCallsProofs.** `RefsBalanced` counts calls in a set and is not inductive. `CallsInv` says instead: a task is called
back exactly while it is PENDING, by the call it points to (`PendingIsAnswered`); a call that is pointed to has been
made, and calls back as long as it is not answered (`OwnCalls`); a callback has a task; and references follow from the
task's state (`RefsCounted`). Two lemmas carry all actions: `NobodyCallsBack` (a task goes from one state without
callback to another) and `CallbackGone` (a callback is cancelled or made). It gives `TypeCorrect` (no reference is returned
twice, the busy count is not negative), `BusyCounts`, `PendingAnswered`, `RefsAreBalanced` and the action property
`DoneStays`. They hold up to the first use of a freed call, which exists: see PublishDangling.

**TransfersProofs.** `Sound` says of one transfer that the two levels of flags agree with the requests, that a client which
is not registered has none, and that cookies beyond the last one given are unused (otherwise a new request could replace
an older one, and the flags of its client, which only grow with it, would be too many). Lemmas show that each operation
makes a sound transfer of a sound one; the table lemmas `TableSound` and `ListKept` carry them to the actions. With the
clients' knowledge of the list it gives `FlagsRequested`, `ListKnown` and `TypeCorrect`. Who is signalled is a matter of one
step: a step that changes the progress or ends a transfer leaves its subscribers as they are until the signal is sent, also
one that puts another in its place (`StartMade`; `OtherStep` for all the rest), the cached flags say who they are (`ProgressReaches`), and since every request asks for
FINISHED (`EndsAsked`), whoever has one hears of the end (`EndReaches`).

**ConnectionNemoProofs.** The invariant says of the program's state between two nested calls (`Nemo`) that the connection
which is held is the one that is active, and that one which was not created has got nowhere; and (`Ready`) that a connection
which follows an active context is open, so that a signal cannot open it twice. Each operation lets at most the held
connection resolve or close (`Moves`) and most leave all as they are (`Stays`, `Keeps`); composed along each action this
gives `LifeImplemented`, whatever ofono answers or signals. `Books` adds what the calls on their way account for: the busy
count is their number, the references of a connection are theirs and the holder's, and at most one reservation is
awaited, by the connection that waits for it. Lemmas count in sequences (what a call appended or taken from the front changes).
With them it gives `TypeCorrect` and `ObjectsKept`. `ReservationFollows` needs in addition where a reservation can be: a slot that is
taken has its connection in use, its grant in the inbox or its release in the outbox.

**ConnectionOfonoProofs.** The properties are about the connection that is held and say nothing of the others. `OfonoInv` adds
that only the held one is active or pointed to (`OnlyHeld`), and that the dispatcher has its only reference and its modem
points back to it (`HeldOwned`); otherwise a SIM that goes might end another connection. The lemma `Ended` says what every
way to an end leaves. It gives `TypeCorrect`, `FreshPointers`, `UsableConnection`, and `LifeImplemented`, that each
connection goes through the life of `Connections`. They hold up to the freed connection where the specification stops.

**EncodeProofs.** `SettingsAreOwn` needs that what dconf has for a SIM was written for it (`KeptIsWritten`).
`EncodeInv` has besides, for each task (`TaskSound`), what each phase of its job may rely on: attachments are untouched when
a job starts and mapped when it encodes, a size that was measured is that of the file, a job that is done fits.
The limit it fits is the one of the settings the *job* copied, which are the task's SIM's (`SettingsOfSim`). It gives `OwnSettings`,
`MessageFits` and `DataThere`, for any messages, sizes and failures. What the folds compute (the size of a list) is not looked into.

**ReceiveProofs.** `ReceiveInv` has eleven parts, for any PDUs, any number of parts whatever they are called, and any order of the
tasks: each task comes after the one that queues it (`Ordered`); what is decoded was accepted (`Decoding`); the message has
a reference for each of its holders (`Referenced`); its parts are in their files, or left behind under the original's name, and there is no other file (`Stored`); none is there
before the decoding (`Undecoded`); names that were given are remembered while others are made, so that none is given twice (`Remembered`); a task that answers has its answer (`Carried`); each file
belongs to a task that is still there (`Owned`); whoever is the last removes the directories (`Cleared`); and the handler has
heard or will (`Heard`). Lemmas say what the decoder takes from a sequence of fields of any length: where it stops
(`StopIsFirst`), that it takes the first of a header (`FirstTaken`), that it takes every recipient (`RecipientsTaken`), what
it must have seen to accept a PDU (`MadeWhole`), and that it accepts what the encoder makes (`AnswerDecodes`). `FreshIsNew`
says that the loop that looks for a free name ends with one: there are more candidates than names. It gives `TypeCorrect`,
`MessagesWhole`, `PartsFound`, `AnswersAccepted` and `NothingLeft`.

**Only model-checked:** liveness, and everything else under fairness (`EngineExits`, `ConnectionSettles`, `CloseEnds`, `PendingEnds`,
`LeaversAreForgotten`, `EncodingEnds`): it needs ENABLED, which is out of the prover's reach. Every other property of a run is
stated by a theorem. What a proof found that the runs had not:

- `Heads` was taken to be exact, which holds for three tasks and not for four (see TaskSort in section 2).
- A message can be made of a PDU whose first status cannot be read, when it is the last field and there is no body:
  the decoder's loop ends there with what it has. `MessageIsWhole` says so now, and the case is among the run's PDUs.
- Cases of `NetHandled` in ConnectionNemo (what a connection does when the modem's state changes) overlapped, and a CASE
  that overlaps says nothing; they exclude each other now.

## 5 What the models show of the code

Two runs find a violation of what a comment or an assertion says:

- **DispatcherCancel**: an encoding cancelled when its job is over but not yet reported sends its message
  (`mms_task_encode.c:325`).
- **PublishDangling**: `mms_task_publish_done` leaves `pub->call` pointing to the freed call (`mms_task_publish.c:46`).

Five configurations outside the runs find one each:

- `EngineBusy.cfg`: a scheduled stop is not revoked by work that comes in before it takes place (`mms_engine.c:105`).
- `EngineReport.cfg`: the inactivity timer is looked at only after a D-Bus call and at the dispatcher's report, and asks whether
  the dispatcher has been started, not whether it is active (`mms_engine.c:138`). When an encoding was cancelled, the last report
  of its job can come after the dispatcher's and make a call of the handler while the timer ticks. No task is in the queue then.
- `EngineStop.cfg`: the same call makes the dispatcher active without being started; a stop that comes meanwhile is deferred to
  a report that nobody makes (`mms_engine.c:815`). Unless the engine is to keep running, its timer ends it all the same, which
  is why `EngineExits` holds.
- `ConnectionRelease.cfg`: a connection cancelled while it reserves its SIM releases the modem when the answer comes,
  also when its successor holds it (`mms_connection_nemo.c:460`).
- `OfonoModemGone.cfg`: `mms_ofono_modem_cleanup` drops a reference to the modem's connection, to which the manager has
  only a weak pointer: the connection is freed while the dispatcher holds it (`mms_connman_ofono.c:378`).

Further observations met while modelling, for which there is no run:

- `mms_dispatcher.c:358`: the comparator prefers the SIM of the open connection only between tasks of different
  states; between two of the same state an older task of another SIM closes the connection.
- `mms_dispatcher.c:359`: with a connection open the comparator is not transitive, so what comes first may depend on the
  order the tasks were queued in (the dispatcher's model has all outcomes: theorem `SortedHead`).
- `mms_dispatcher.c:355,460`: priority is compared first, so a post-processing task that waits hides ready tasks
  until it moves on.
- `mms_task_http.c:657`: on the newer libsoup an interrupted transaction stays ACTIVE, and in the transfer list, while its
  task sleeps. Therefore `TransferEnds` is about the older one, and on the newer one no property guards the list.
- `mms_transfer_list_dbus.c:195`, `mms_transfer_dbus.c:486`: such a transfer is replaced when the message is retrieved again. The new
  object is exported while the old one has the path, which fails and is only logged; then the old one is taken from the bus, and the
  new one is announced and listed but cannot be called.
- `mms_transfer_list_dbus.c:123`: a key is compared with itself, so that the types do not count: the end of one type of transfer
  of a message takes another type's off the list.
- `mms_task_decode.c:130`: nobody looks whether the original of a part that could not be decoded was renamed back. If not, the
  message names a file that is not there, and the original stays, in a directory that cannot be removed. `PartsAreKept` and
  `NothingIsLeft` leave the case out.
- `mms_codec.c:915-929`: a retrieve status that is not known is ignored, and the message is taken as if it had none.
- `mms_task_encode.c:629`: the list of attachments is returned when a SMIL was found, also if one after it could not be
  prepared; the message is sent without it.
- `mms_codec.c:1642`: an acknowledgement whose transaction id does not fit the buffer is never sent, and its file stays
  (`NothingIsLeft` leaves it out).
- `mms_task_decode.c`: the acknowledgement is queued before the message has been published; a handler that never takes
  the message does not take the acknowledgement back.
- `mms_settings_dconf.c:235`: values read when a SIM is attached also replace those given on the command line, unlike
  changes heard of later.
- `mms_connman_nemo.c:120`, `mms_connman_ofono.c:70`: nested main loops, in which other callbacks of the dispatcher run.
- `mms_transfer_list_dbus.c:315`: the watches of the list's clients are never removed when the list goes.

## 6 What is not modelled

- **Octets of the codec**: conversions of values, content types and the multipart body are abstracted to whether a value
  can be read; the encoding of a send request is its size. They are functions of a buffer, without state, which the
  repository's unit tests feed with samples; the control around them (`mms_parse_headers`) is in Pdu.
- **Images, texts**: pixels, scaling callbacks, charsets. What they may do to size and files is in Encode.
- **Nested main loops**: the wait for the modem manager of Nemo with its timeout (`mms_connman_nemo.c:120`) and for ofono
  (`mms_connman_ofono.c:70`); listed as a hazard.
- **Names of a context** (interface, proxy, MMSC) in ConnectionNemo; in ConnectionOfono they are one value that changes.
- **Reference counting of task objects** outside HandlerCalls. A completion of libsoup that comes after the task was
  freed is taken as ignored.
- **Failure of mkdir** in `mms_dispatcher_start`, which would need a queue that is not empty and a dispatcher that has not
  started in every model around it.
- **The outcome's text**: what a notification, a send confirmation, a delivery or read report says is its outcome.
- **Process entry** but for the settings it gives, **logging, command line tools**: no state of interest. D-Bus payloads
  and access policies are abstracted to outcomes.

## 7 Plan

Order: the dispatcher and its tasks first, since every message passes there, then what it depends on.

1. *Done.* TaskOrder, TaskSort, Dispatcher, Engine, TaskLife, HttpTask, Connections, ConnectionNemo, HandlerCalls, Transfers.
2. *Done.* The connection of ofono as a second implementation of Connections; settings of dconf and the encoding loop;
   the decoder's control and the reception of a message; their proofs.
3. *Models.* The default SIM's nested loop; the failure of mkdir.
4. *Compositions.* Dispatcher with Connections in place of its own connection variables (an INSTANCE per SIM), so that
   the assumption "a connection answers" is the abstract specification's.
5. *Abstract specifications.* The dispatcher as a server of tasks (each queued, at most one transmitting, each
   finished), with Dispatcher shown to implement it; the clients' view of a transfer, implemented by Transfers.
6. *Theorems.* All safety properties and action properties of the runs are done. Next: what the folds of Encode compute,
   by the way the sort was done; the abstract specifications of 5.
7. Runs stay at one per question; new modules take the place of runs that answer a smaller one.
