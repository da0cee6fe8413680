---------------------------- MODULE EncodeProofs ----------------------------
(***************************************************************************)
(* Proofs about the encoding of outgoing messages, for any messages, SIMs, *)
(* settings and failures: the settings in use are those of their SIM, what *)
(* is encoded has its data, and what is sent has a file that fits.         *)
(***************************************************************************)
EXTENDS Encode, TLAPS

-----------------------------------------------------------------------------
(* The settings. *)

(* What is kept for a SIM was written for it. *)
KeptIsWritten ==
  \A s \in Sims, k \in Keys :
    /\ store[s][k] \in Written[s][k] \cup {NoValue}
    /\ legacy[s][k] \in Written[s][k] \cup {NoValue}

(* The inductive invariant of the settings *)
SettingsInv ==
  /\ SettingsTypeOK
  /\ KeptIsWritten
  /\ SettingsAreOwn

(* The defaults are numbers, wherever they come from. *)
LEMMA DefaultsAreNumbers == SimDefaults \in [Keys -> Nat]
<1> SUFFICES ASSUME NEW k \in Keys
             PROVE  SimDefaults[k] \in Nat
  BY DEF SimDefaults
<1>1. CASE k \in Override
  BY <1>1, SettingsAssumption DEF SimDefaults, Override, SettingsAssumption
<1>2. CASE k \notin Override /\ ConfigFile[k] \in Nat \ {0}
  BY <1>2 DEF SimDefaults
<1>3. CASE k \notin Override /\ ConfigFile[k] \notin Nat \ {0}
  BY <1>3, SettingsAssumption DEF SimDefaults, SettingsAssumption
<1> QED
  BY <1>1, <1>2, <1>3

(* A value that was written for SIM s, or none, leaves a value of s. *)
LEMMA UpdatedIsOwn ==
  ASSUME NEW s \in Sims, NEW k \in Keys, NEW current \in Own(s, k) \cap Nat,
         NEW v \in Written[s][k] \cup {NoValue}
  PROVE  Updated(current, v) \in Own(s, k) \cap Nat
<1>1. NoValue \notin Nat
  BY SettingsAssumption DEF SettingsAssumption
<1> QED
  BY <1>1 DEF Updated, Own

(* The default is a value of any SIM. *)
LEMMA DefaultIsOwn ==
  ASSUME NEW s \in Sims, NEW k \in Keys
  PROVE  SimDefaults[k] \in Own(s, k) \cap Nat
  BY DefaultsAreNumbers DEF Own

LEMMA AttachInv ==
  ASSUME SettingsInv, NEW s \in Sims, Attach(s)
  PROVE  SettingsInv' /\ attached' = s
<1>1. PICK copied \in SUBSET {k \in Keys : legacy[s][k] # NoValue},
           removed \in SUBSET {k \in Keys : legacy[s][k] # NoValue} :
        /\ store' = [store EXCEPT ![s] =
             [k \in Keys |-> IF k \in copied THEN legacy[s][k] ELSE @[k]]]
        /\ legacy' = [legacy EXCEPT ![s] =
             [k \in Keys |-> IF k \in removed THEN NoValue ELSE @[k]]]
        /\ attached' = s
        /\ data' = [k \in Keys |-> Updated(Base(s)[k], store'[s][k])]
        /\ UNCHANGED <<changes, writes>>
  BY DEF Attach
<1>2. /\ store \in [Sims -> [Keys -> Int \cup {NoValue}]]
      /\ legacy \in [Sims -> [Keys -> Int \cup {NoValue}]]
  BY DEF SettingsInv, SettingsTypeOK
<1>3. /\ store'[s] = [k \in Keys |-> IF k \in copied THEN legacy[s][k]
                                     ELSE store[s][k]]
      /\ legacy'[s] = [k \in Keys |-> IF k \in removed THEN NoValue
                                      ELSE legacy[s][k]]
      /\ \A r \in Sims : r # s => store'[r] = store[r] /\ legacy'[r] = legacy[r]
  BY <1>1, <1>2
<1>4. store'[s] \in [Keys -> Int \cup {NoValue}]
  BY <1>2, <1>3
<1>5. legacy'[s] \in [Keys -> Int \cup {NoValue}]
  BY <1>2, <1>3
<1>6. /\ store' \in [Sims -> [Keys -> Int \cup {NoValue}]]
      /\ legacy' \in [Sims -> [Keys -> Int \cup {NoValue}]]
  BY <1>1, <1>2, <1>3, <1>4, <1>5
<1>7. KeptIsWritten'
  BY <1>3 DEF SettingsInv, KeptIsWritten
<1>8. \A k \in Keys : data'[k] \in Own(s, k) \cap Nat
  BY <1>1, <1>7, DefaultIsOwn, UpdatedIsOwn DEF Base, KeptIsWritten
<1>9. data' \in [Keys -> Nat]
  BY <1>1, <1>8
<1> QED
  BY <1>1, <1>6, <1>7, <1>8, <1>9
  DEF SettingsInv, SettingsTypeOK, SettingsAreOwn

(* Asking for the settings of a SIM gives values of that SIM. *)
LEMMA GetSimDataInv ==
  ASSUME SettingsInv, NEW s \in Sims, GetSimData(s)
  PROVE  /\ SettingsInv'
         /\ data' \in [Keys -> Nat]
         /\ \A k \in Keys : data'[k] \in Own(s, k)
<1>1. SettingsInv' /\ attached' = s
  <2>1. CASE attached # s /\ Attach(s)
    BY <2>1, AttachInv
  <2>2. CASE attached = s /\ UNCHANGED settingsVars
    BY <2>2 DEF settingsVars, SettingsInv, SettingsTypeOK, KeptIsWritten,
                SettingsAreOwn
  <2> QED
    BY <2>1, <2>2 DEF GetSimData
<1>2. s # NoSim
  BY SettingsAssumption DEF SettingsAssumption
<1> QED
  BY <1>1, <1>2 DEF SettingsInv, SettingsAreOwn, SettingsTypeOK

LEMMA WriteInv ==
  ASSUME SettingsInv, NEW s \in Sims, NEW k \in Keys, Write(s, k)
  PROVE  SettingsInv'
<1>1. PICK v \in Written[s][k] \cup {NoValue} :
        store' = [store EXCEPT ![s][k] = v]
  BY DEF Write
<1>2. /\ writes < MaxWrites /\ writes' = writes + 1
      /\ changes' = IF attached = s THEN changes \cup {<<s, k>>} ELSE changes
      /\ UNCHANGED <<legacy, attached, data>>
  BY DEF Write
<1>3. /\ store \in [Sims -> [Keys -> Int \cup {NoValue}]]
      /\ changes \subseteq Sims \X Keys
      /\ writes \in 0..MaxWrites /\ MaxWrites \in Nat
      /\ v \in Int \cup {NoValue}
  BY SettingsAssumption DEF SettingsInv, SettingsTypeOK, SettingsAssumption
<1>4. store' \in [Sims -> [Keys -> Int \cup {NoValue}]]
  BY <1>1, <1>3
<1>5. changes' \subseteq Sims \X Keys /\ writes' \in 0..MaxWrites
  BY <1>2, <1>3
<1>6. KeptIsWritten'
  BY <1>1, <1>2, <1>3 DEF SettingsInv, KeptIsWritten
<1> QED
  BY <1>2, <1>4, <1>5, <1>6 DEF SettingsInv, SettingsTypeOK, SettingsAreOwn

LEMMA ChangedInv ==
  ASSUME SettingsInv, NEW s \in Sims, NEW k \in Keys, Changed(s, k)
  PROVE  SettingsInv'
<1>1. /\ changes' \subseteq changes
      /\ UNCHANGED <<store, legacy, attached, writes>>
      /\ data' = IF attached = s /\ k \notin Override
                 THEN [data EXCEPT ![k] = Updated(@, store[s][k])]
                 ELSE data
  BY DEF Changed
<1>2. data \in [Keys -> Nat] /\ s # NoSim
  BY SettingsAssumption DEF SettingsInv, SettingsTypeOK, SettingsAssumption
<1>3. CASE attached = s /\ k \notin Override
  <2>1. data' = [data EXCEPT ![k] = Updated(data[k], store[s][k])]
    BY <1>1, <1>3
  <2>2. data[k] \in Own(s, k) \cap Nat
    BY <1>2, <1>3 DEF SettingsInv, SettingsAreOwn
  <2>3. Updated(data[k], store[s][k]) \in Own(s, k) \cap Nat
    BY <2>2, UpdatedIsOwn DEF SettingsInv, KeptIsWritten
  <2>4. data' \in [Keys -> Nat]
    BY <1>2, <2>1, <2>3
  <2>5. SettingsAreOwn'
    BY <1>1, <1>2, <1>3, <2>1, <2>3 DEF SettingsInv, SettingsAreOwn
  <2> QED
    BY <1>1, <2>4, <2>5 DEF SettingsInv, SettingsTypeOK, KeptIsWritten
<1>4. CASE ~(attached = s /\ k \notin Override)
  BY <1>1, <1>4
  DEF SettingsInv, SettingsTypeOK, KeptIsWritten, SettingsAreOwn
<1> QED
  BY <1>3, <1>4

LEMMA SettingsNextInv ==
  ASSUME SettingsInv, SettingsNext
  PROVE  SettingsInv'
  BY GetSimDataInv, WriteInv, ChangedInv DEF SettingsNext

LEMMA SettingsSameInv ==
  ASSUME SettingsInv, UNCHANGED settingsVars
  PROVE  SettingsInv'
  BY DEF settingsVars, SettingsInv, SettingsTypeOK, KeptIsWritten,
         SettingsAreOwn

LEMMA SettingsInitInv == SettingsInit => SettingsInv
<1> SUFFICES ASSUME SettingsInit
             PROVE  SettingsInv
  OBVIOUS
<1>1. \A s \in Sims, k \in Keys : Written[s][k] \cup {NoValue}
                                    \subseteq Int \cup {NoValue}
  BY SettingsAssumption DEF SettingsAssumption
<1>2. legacy \in [Sims -> [Keys -> Int \cup {NoValue}]]
  <2>1. \A s \in Sims : legacy[s] \in [Keys -> Int \cup {NoValue}]
    BY <1>1 DEF SettingsInit
  <2> QED
    BY <2>1 DEF SettingsInit
<1>3. SettingsTypeOK
  BY <1>2, SettingsAssumption
  DEF SettingsInit, SettingsTypeOK, Empty, SettingsAssumption
<1> QED
  BY <1>3 DEF SettingsInit, SettingsInv, KeptIsWritten, SettingsAreOwn, Empty

-----------------------------------------------------------------------------
(* The attachments. *)

PartFields == {"kind", "size", "side", "shrunk", "step", "made", "file", "map"}

(* The data of the attachment p is that of the file it goes by. *)
Mapped(p) == DOMAIN p = PartFields /\ p.map = p.file

(* Nothing has been tried on the attachment p yet. *)
Fresh(p) == /\ Mapped(p)
            /\ p.kind = "image" => p.file = "original" /\ p.step = 0

(* A list that is prepared has attachments that were not touched. *)
LEMMA PreparedFresh ==
  ASSUME NEW message \in Seq(Info), NEW n \in 0..Len(message), NEW generated,
         NEW list \in Prepared(message, n, generated)
  PROVE  \A i \in DOMAIN list : Fresh(list[i]) /\ list[i].step = 0
<1> DEFINE ps == [i \in 1..n |-> NewPart(message[i])]
           all == {NewPart(message[i]) : i \in 1..n} \cup {Smil}
<1>1. ps \in Seq(all) /\ Len(ps) = n /\ DOMAIN ps = 1..n
  OBVIOUS
<1>2. SmilIndex(ps) \subseteq 1..n
  BY <1>1 DEF SmilIndex
<1>3. list \in Seq(all)
  <2> HIDE DEF ps, all
  <2>1. \/ list = ps
        \/ list \in {<<ps[i]>> \o RemoveAt(ps, i) : i \in SmilIndex(ps)}
        \/ list = <<Smil>> \o ps
    BY DEF Prepared, ps
  <2>2. CASE list = ps
    BY <1>1, <2>2
  <2>3. CASE list \in {<<ps[i]>> \o RemoveAt(ps, i) : i \in SmilIndex(ps)}
    <3>1. PICK i \in 1..n : list = <<ps[i]>> \o RemoveAt(ps, i)
      BY <1>2, <2>3
    <3>2. SubSeq(ps, 1, i - 1) \in Seq(all) /\ SubSeq(ps, i + 1, n) \in Seq(all)
      BY <1>1
    <3>3. RemoveAt(ps, i) \in Seq(all) /\ <<ps[i]>> \in Seq(all)
      BY <1>1, <3>2 DEF RemoveAt
    <3> QED
      BY <3>1, <3>3
  <2>4. CASE list = <<Smil>> \o ps
    <3>1. <<Smil>> \in Seq(all)
      BY DEF all
    <3> QED
      BY <1>1, <2>4, <3>1
  <2> QED
    BY <2>1, <2>2, <2>3, <2>4
<1>4. \A p \in all : Fresh(p) /\ p.step = 0
  BY DEF Smil, NewPart, Fresh, Mapped, PartFields
<1> QED
  BY <1>3, <1>4

(* Converting a text leaves it mapped. *)
LEMMA ConvertedFresh ==
  ASSUME NEW p, Fresh(p), p.kind # "image"
  PROVE  Fresh(Converted(p))
  BY DEF Converted, Fresh, Mapped, PartFields

(* Before anything is tried, resetting an attachment leaves it as it is. *)
LEMMA ResetMapped ==
  ASSUME NEW p, Fresh(p), NEW q \in Reset(p)
  PROVE  Mapped(q)
<1>1. CASE p.kind = "image"
  <2>1. Reset(p) = {[p EXCEPT !.file = "original"]}
    BY <1>1 DEF Fresh, Reset
  <2> QED
    BY <1>1, <2>1 DEF Fresh, Mapped, PartFields
<1>2. CASE p.kind # "image"
  <2>1. Reset(p) = {p}
    BY <1>2 DEF Reset
  <2> QED
    BY <2>1 DEF Fresh
<1> QED
  BY <1>1, <1>2

(* When an image could be resized, its data is that of the converted file. *)
LEMMA ResizedMapped ==
  ASSUME NEW p, Mapped(p), NEW pixels, NEW r \in Resized(p, pixels), r[2]
  PROVE  Mapped(r[1])
<1> DEFINE next == NextStep(p, pixels)
           bare == Prepare(p)
<1>1. PICK size \in Shrunk(p, next) :
        r = <<[bare EXCEPT !.step = next, !.shrunk = size,
                           !.file = "converted", !.map = "converted"], TRUE>>
  <2>1. \A q : r # <<q, FALSE>>
    <3> SUFFICES ASSUME NEW q, r = <<q, FALSE>>
                 PROVE  FALSE
      OBVIOUS
    <3>1. r[2] = FALSE
      OBVIOUS
    <3> QED
      BY <3>1, Zenon
  <2>2. r \in {<<bare, FALSE>>, <<[bare EXCEPT !.step = next], FALSE>>} \cup
         {<<[bare EXCEPT !.step = next, !.shrunk = size,
                         !.file = "converted", !.map = "converted"], TRUE>> :
            size \in Shrunk(p, next)}
    BY DEF Resized
  <2> HIDE DEF next, bare
  <2> QED
    BY <2>1, <2>2
<1>2. DOMAIN bare = PartFields
  BY DEF Prepare, Mapped, PartFields
<1> QED
  <2> HIDE DEF next, bare
  <2> QED
    BY <1>1, <1>2 DEF Mapped, PartFields

(* Whatever becomes of an attempt, the attachment is one. *)
LEMMA ResizedShape ==
  ASSUME NEW p, Mapped(p), NEW pixels, NEW r \in Resized(p, pixels)
  PROVE  DOMAIN r[1] = PartFields
<1> DEFINE next == NextStep(p, pixels)
           bare == Prepare(p)
<1>1. DOMAIN bare = PartFields
  BY DEF Prepare, Mapped, PartFields
<1>2. r \in {<<bare, FALSE>>, <<[bare EXCEPT !.step = next], FALSE>>} \cup
       {<<[bare EXCEPT !.step = next, !.shrunk = size,
                       !.file = "converted", !.map = "converted"], TRUE>> :
          size \in Shrunk(p, next)}
  BY DEF Resized
<1> HIDE DEF next, bare
<1>3. CASE r = <<bare, FALSE>>
  BY <1>1, <1>3
<1>4. CASE r = <<[bare EXCEPT !.step = next], FALSE>>
  BY <1>1, <1>4
<1>5. CASE \E size \in Shrunk(p, next) :
             r = <<[bare EXCEPT !.step = next, !.shrunk = size,
                      !.file = "converted", !.map = "converted"], TRUE>>
  BY <1>1, <1>5
<1> QED
  BY <1>2, <1>3, <1>4, <1>5

-----------------------------------------------------------------------------
(* The tasks and their jobs. *)

JobFields == {"phase", "active", "cancelled", "path", "size", "state"}

(* Every task has its record in each of the tables.  What the sizes are does
   not matter, only where they are kept. *)
Shape ==
  /\ task \in [Tasks -> TaskType]
  /\ settings \in [Tasks -> [Keys -> Nat]]
  /\ DOMAIN job = Tasks /\ DOMAIN parts = Tasks /\ DOMAIN pdu = Tasks
  /\ \A t \in Tasks : /\ DOMAIN job[t] = JobFields
                      /\ \A i \in DOMAIN parts[t] :
                           DOMAIN parts[t][i] = PartFields

(* The limit of the SIM that task t sends from, as its job knows it *)
Limit(t) == settings[t]["size_limit"]

(* What holds of a task x with its attachments ps, its job j and its file of
   size s, when the limit is l. *)
Sound(x, ps, j, s, l) ==
  /\ x.state \in {"NONE", "READY", "SLEEP"} => j.phase = "none"
  /\ x.state \in {"READY", "SLEEP"} \/ j.phase = "start"
       => \A i \in DOMAIN ps : Fresh(ps[i])
  /\ j.phase \in {"encode", "check"} => \A i \in DOMAIN ps : Mapped(ps[i])
  /\ j.phase \in {"check", "end"} /\ j.size > 0 => s = j.size
  /\ j.phase = "report" /\ j.state = "DONE" => Fits(s, l)
  /\ x.sent => x.state = "DONE" /\ j.phase = "none" /\ Fits(s, l)

TaskSound(t) == Sound(task[t], parts[t], job[t], pdu[t], Limit(t))

SettingsOfSim ==
  \A t \in Tasks, k \in Keys : settings[t][k] \in Own(SimOf[t], k)

(* The inductive invariant *)
EncodeInv ==
  /\ SettingsInv
  /\ Shape
  /\ SettingsOfSim
  /\ \A t \in Tasks : TaskSound(t)

(* The tables of all the tasks but t stay as they are. *)
OthersStay(t) ==
  \A u \in Tasks : u # t => /\ task'[u] = task[u] /\ parts'[u] = parts[u]
                            /\ job'[u] = job[u] /\ pdu'[u] = pdu[u]
                            /\ settings'[u] = settings[u]

LEMMA OneTask ==
  ASSUME EncodeInv, NEW t \in Tasks, OthersStay(t),
         SettingsInv', Shape', SettingsOfSim', TaskSound(t)'
  PROVE  EncodeInv'
<1>1. ASSUME NEW u \in Tasks
      PROVE  TaskSound(u)'
  <2>1. CASE u = t
    BY <2>1
  <2>2. CASE u # t
    BY <2>2 DEF EncodeInv, OthersStay, TaskSound, Limit
  <2> QED
    BY <2>1, <2>2
<1> QED
  BY <1>1 DEF EncodeInv

LEMMA SendMessageInv ==
  ASSUME EncodeInv, NEW t \in Tasks, SendMessage(t)
  PROVE  EncodeInv'
<1>1. PICK message \in Messages, generated \in BOOLEAN, utf8 \in BOOLEAN :
      \E n \in 0..Len(message) :
      \E list \in Prepared(message, n, generated) :
        parts' = [parts EXCEPT ![t] =
          [i \in DOMAIN list |-> IF list[i].kind = "text" /\ utf8
                                 THEN Converted(list[i]) ELSE list[i]]]
  BY DEF SendMessage
<1>2. PICK n \in 0..Len(message) :
      \E list \in Prepared(message, n, generated) :
        parts' = [parts EXCEPT ![t] =
          [i \in DOMAIN list |-> IF list[i].kind = "text" /\ utf8
                                 THEN Converted(list[i]) ELSE list[i]]]
  BY <1>1
<1>3. PICK list \in Prepared(message, n, generated) :
        parts' = [parts EXCEPT ![t] =
          [i \in DOMAIN list |-> IF list[i].kind = "text" /\ utf8
                                 THEN Converted(list[i]) ELSE list[i]]]
  BY <1>2
<1>4. \A i \in DOMAIN list : Fresh(list[i])
  BY PreparedFresh, EncodeAssumption DEF EncodeAssumption
<1>5. \A i \in DOMAIN list :
        list[i].kind = "text" => Fresh(Converted(list[i]))
  BY <1>4, ConvertedFresh
<1>6. /\ DOMAIN parts' = Tasks
      /\ \A i \in DOMAIN parts'[t] : Fresh(parts'[t][i])
      /\ \A u \in Tasks : u # t => parts'[u] = parts[u]
  BY <1>3, <1>4, <1>5 DEF EncodeInv, Shape
<1>7. /\ task' = [task EXCEPT ![t] =
           [NoTask EXCEPT !.state = "READY", !.delegate = TRUE]]
      /\ task[t].state = "NONE"
      /\ UNCHANGED <<job, settings, pdu, settingsVars>>
  BY DEF SendMessage
<1>8. [NoTask EXCEPT !.state = "READY", !.delegate = TRUE] \in TaskType
  BY DEF NoTask, TaskType
<1>9. /\ task' \in [Tasks -> TaskType]
      /\ task'[t].state = "READY" /\ ~task'[t].sent
      /\ \A u \in Tasks : u # t => task'[u] = task[u]
  BY <1>7, <1>8 DEF EncodeInv, Shape, NoTask
<1>10. job[t].phase = "none"
  BY <1>7 DEF EncodeInv, TaskSound, Sound
<1>11. SettingsInv'
  BY <1>7, SettingsSameInv DEF EncodeInv
<1>12. Shape'
  BY <1>6, <1>7, <1>9 DEF EncodeInv, Shape, Fresh, Mapped
<1>13. SettingsOfSim'
  BY <1>7 DEF EncodeInv, SettingsOfSim
<1>14. TaskSound(t)'
  BY <1>6, <1>7, <1>9, <1>10 DEF TaskSound, Sound
<1>15. OthersStay(t)
  BY <1>6, <1>7, <1>9 DEF OthersStay
<1> QED
  BY <1>11, <1>12, <1>13, <1>14, <1>15, OneTask

(* A task that is tried again later, or not at all, keeps its other fields. *)
LEMMA RetriedType ==
  ASSUME NEW x \in TaskType
  PROVE  /\ Retried(x) \in TaskType
         /\ Retried(x).state \in {"SLEEP", "DONE"}
         /\ Retried(x).sent = x.sent
<1>1. CASE x.retries < MaxRetries
  <2>1. Retried(x) = [x EXCEPT !.state = "SLEEP", !.retries = x.retries + 1,
                               !.told = "DEFERRED"]
    BY <1>1 DEF Retried
  <2>2. x.retries + 1 \in Nat
    BY DEF TaskType
  <2> QED
    BY <2>1, <2>2 DEF TaskType
<1>2. CASE ~(x.retries < MaxRetries)
  <2>1. Retried(x) = [x EXCEPT !.state = "DONE", !.told = "SEND_ERROR"]
    BY <1>2 DEF Retried
  <2> QED
    BY <2>1 DEF TaskType
<1> QED
  BY <1>1, <1>2

(* The job takes a copy of the settings of its SIM; without a thread there is
   none, and the task sleeps or is done. *)
LEMMA RunInv ==
  ASSUME EncodeInv, NEW t \in Tasks, Run(t)
  PROVE  EncodeInv'
<1>1. /\ task[t].state = "READY" /\ GetSimData(SimOf[t])
      /\ UNCHANGED <<parts, pdu>>
  BY DEF Run
<1>2. SimOf[t] \in Sims
  BY EncodeAssumption DEF EncodeAssumption
<1>3. /\ SettingsInv'
      /\ data' \in [Keys -> Nat]
      /\ \A k \in Keys : data'[k] \in Own(SimOf[t], k)
  BY <1>1, <1>2, GetSimDataInv DEF EncodeInv
<1>4. /\ job[t].phase = "none" /\ ~task[t].sent
      /\ \A i \in DOMAIN parts[t] : Fresh(parts[t][i])
      /\ task[t] \in TaskType
  BY <1>1 DEF EncodeInv, TaskSound, Sound, Shape
<1>5. CASE /\ job' = [job EXCEPT ![t] = NewJob]
           /\ settings' = [settings EXCEPT ![t] = data']
           /\ task' = [task EXCEPT ![t].state = "WORKING",
                                   ![t].told = "ENCODING"]
  <2>1. /\ DOMAIN job' = Tasks /\ job'[t] = NewJob
        /\ \A u \in Tasks : u # t => job'[u] = job[u]
    BY <1>5 DEF EncodeInv, Shape
  <2>2. /\ settings' \in [Tasks -> [Keys -> Nat]] /\ settings'[t] = data'
        /\ \A u \in Tasks : u # t => settings'[u] = settings[u]
    BY <1>3, <1>5 DEF EncodeInv, Shape
  <2>3. /\ task' \in [Tasks -> TaskType]
        /\ task'[t].state = "WORKING" /\ ~task'[t].sent
        /\ \A u \in Tasks : u # t => task'[u] = task[u]
    BY <1>4, <1>5 DEF EncodeInv, Shape, TaskType
  <2>4. DOMAIN NewJob = JobFields /\ NewJob.phase = "start"
    BY DEF NewJob, NoJob, JobFields
  <2>5. Shape'
    BY <1>1, <2>1, <2>2, <2>3, <2>4 DEF EncodeInv, Shape
  <2>6. SettingsOfSim'
    BY <1>3, <2>2 DEF EncodeInv, SettingsOfSim
  <2>7. TaskSound(t)'
    BY <1>1, <1>4, <2>1, <2>3, <2>4 DEF TaskSound, Sound
  <2>8. OthersStay(t)
    BY <1>1, <2>1, <2>2, <2>3 DEF OthersStay
  <2> QED
    BY <1>3, <2>5, <2>6, <2>7, <2>8, OneTask
<1>6. CASE /\ task' = [task EXCEPT ![t] = Retried(@)]
           /\ UNCHANGED <<job, settings>>
  <2>1. /\ Retried(task[t]) \in TaskType
        /\ Retried(task[t]).state \in {"SLEEP", "DONE"}
        /\ Retried(task[t]).sent = task[t].sent
    BY <1>4, RetriedType
  <2>2. /\ task' \in [Tasks -> TaskType] /\ task'[t] = Retried(task[t])
        /\ \A u \in Tasks : u # t => task'[u] = task[u]
    BY <1>6, <2>1 DEF EncodeInv, Shape
  <2>3. Shape'
    BY <1>1, <1>6, <2>2 DEF EncodeInv, Shape
  <2>4. SettingsOfSim'
    BY <1>6 DEF EncodeInv, SettingsOfSim
  <2>5. TaskSound(t)'
    BY <1>1, <1>4, <1>6, <2>1, <2>2 DEF TaskSound, Sound
  <2>6. OthersStay(t)
    BY <1>1, <1>6, <2>2 DEF OthersStay
  <2> QED
    BY <1>3, <2>3, <2>4, <2>5, <2>6, OneTask
<1> QED
  BY <1>5, <1>6 DEF Run

(* What the steps of a thread have in common: only the attachments, the job
   and the file of one task change, and the record of the job is kept. *)
LEMMA ThreadStep ==
  ASSUME EncodeInv, NEW t \in Tasks, OthersStay(t),
         UNCHANGED <<task, settings, settingsVars>>,
         DOMAIN job' = Tasks, DOMAIN parts' = Tasks, DOMAIN pdu' = Tasks,
         DOMAIN job'[t] = JobFields,
         \A i \in DOMAIN parts'[t] : DOMAIN parts'[t][i] = PartFields,
         TaskSound(t)'
  PROVE  EncodeInv'
<1>1. SettingsInv'
  BY SettingsSameInv DEF EncodeInv
<1>2. Shape'
  BY DEF EncodeInv, Shape, OthersStay
<1>3. SettingsOfSim'
  BY DEF EncodeInv, SettingsOfSim
<1> QED
  BY <1>1, <1>2, <1>3, OneTask

(* While a thread is at work, its task neither waits to be run nor has been
   handed over. *)
LEMMA AtWork ==
  ASSUME EncodeInv, NEW t \in Tasks, job[t].phase # "none"
  PROVE  task[t].state \notin {"NONE", "READY", "SLEEP"} /\ ~task[t].sent
  BY DEF EncodeInv, TaskSound, Sound

LEMMA JobStartInv ==
  ASSUME EncodeInv, NEW t \in Tasks, JobStart(t)
  PROVE  EncodeInv'
<1>1. /\ job[t].phase = "start"
      /\ job' = [job EXCEPT ![t].phase = "encode", ![t].state = "RUNNING"]
      /\ UNCHANGED <<task, pdu, settings, settingsVars>>
  BY DEF JobStart
<1>2. PICK ps \in [DOMAIN parts[t] -> UNION {Reset(parts[t][i]) :
                                             i \in DOMAIN parts[t]}] :
        /\ \A i \in DOMAIN ps : ps[i] \in Reset(parts[t][i])
        /\ parts' = [parts EXCEPT ![t] = ps]
  BY DEF JobStart
<1>3. /\ DOMAIN job = Tasks /\ DOMAIN job[t] = JobFields
      /\ DOMAIN parts = Tasks /\ DOMAIN pdu = Tasks
      /\ \A i \in DOMAIN parts[t] : Fresh(parts[t][i])
  BY <1>1 DEF EncodeInv, Shape, TaskSound, Sound
<1>4. job'[t] = [job[t] EXCEPT !.phase = "encode", !.state = "RUNNING"]
  BY <1>1, <1>3
<1>5. /\ DOMAIN job' = Tasks /\ DOMAIN job'[t] = JobFields
      /\ job'[t].phase = "encode"
      /\ \A u \in Tasks : u # t => job'[u] = job[u]
  BY <1>1, <1>3, <1>4 DEF JobFields
<1>6. /\ DOMAIN parts' = Tasks
      /\ \A i \in DOMAIN parts'[t] : Mapped(parts'[t][i])
      /\ \A u \in Tasks : u # t => parts'[u] = parts[u]
  BY <1>2, <1>3, ResetMapped
<1>7. TaskSound(t)'
  BY <1>1, <1>5, <1>6, AtWork DEF TaskSound, Sound
<1>8. OthersStay(t)
  BY <1>1, <1>5, <1>6 DEF OthersStay
<1> QED
  BY <1>1, <1>3, <1>5, <1>6, <1>7, <1>8, ThreadStep DEF Mapped

LEMMA JobEncodeInv ==
  ASSUME EncodeInv, NEW t \in Tasks, JobEncode(t)
  PROVE  EncodeInv'
<1> DEFINE last == job[t].size
           size == PduSize(parts[t])
           Encoded(file, length, path) ==
             /\ pdu' = [pdu EXCEPT ![t] = file]
             /\ job' = [job EXCEPT ![t].path = path, ![t].size = length,
                          ![t].phase = IF last > 0 /\ (length = 0 \/ length >= last)
                                       THEN "end" ELSE "check"]
<1>1. /\ job[t].phase = "encode"
      /\ UNCHANGED <<task, parts, settings, settingsVars>>
  BY DEF JobEncode
<1>2. PICK file, length, path :
        (length = 0 \/ file = length) /\ Encoded(file, length, path)
  <2>1. \/ Encoded(size, size, TRUE)
        \/ Encoded(0, 0, FALSE)
        \/ Encoded(pdu[t], 0, FALSE)
    BY DEF JobEncode
  <2> HIDE DEF Encoded
  <2> QED
    BY <2>1
<1>3. /\ DOMAIN job = Tasks /\ DOMAIN job[t] = JobFields
      /\ DOMAIN parts = Tasks /\ DOMAIN pdu = Tasks
      /\ \A i \in DOMAIN parts[t] : Mapped(parts[t][i])
  BY <1>1 DEF EncodeInv, Shape, TaskSound, Sound
<1>4. PICK phase \in {"end", "check"} :
        job' = [job EXCEPT ![t].path = path, ![t].size = length,
                           ![t].phase = phase]
  BY <1>2
<1>5. job'[t] = [job[t] EXCEPT !.path = path, !.size = length, !.phase = phase]
  BY <1>3, <1>4
<1>6. /\ DOMAIN job' = Tasks /\ DOMAIN job'[t] = JobFields
      /\ job'[t].phase = phase /\ job'[t].size = length
      /\ \A u \in Tasks : u # t => job'[u] = job[u]
  BY <1>3, <1>4, <1>5 DEF JobFields
<1>7. /\ DOMAIN pdu' = Tasks /\ pdu'[t] = file
      /\ \A u \in Tasks : u # t => pdu'[u] = pdu[u]
  BY <1>2, <1>3
<1>8. job'[t].size > 0 => pdu'[t] = job'[t].size
  BY <1>2, <1>6, <1>7
<1>9. TaskSound(t)'
  BY <1>1, <1>3, <1>6, <1>8, AtWork DEF TaskSound, Sound
<1>10. OthersStay(t)
  BY <1>1, <1>6, <1>7 DEF OthersStay
<1> QED
  BY <1>1, <1>3, <1>6, <1>7, <1>9, <1>10, ThreadStep DEF Mapped

LEMMA JobResizeInv ==
  ASSUME EncodeInv, NEW t \in Tasks, JobResize(t)
  PROVE  EncodeInv'
<1>1. /\ job[t].phase = "check"
      /\ UNCHANGED <<task, pdu, settings, settingsVars>>
  BY DEF JobResize
<1>2. /\ DOMAIN job = Tasks /\ DOMAIN job[t] = JobFields
      /\ DOMAIN parts = Tasks /\ DOMAIN pdu = Tasks
      /\ \A i \in DOMAIN parts[t] : Mapped(parts[t][i])
      /\ job[t].size > 0 => pdu[t] = job[t].size
  BY <1>1 DEF EncodeInv, Shape, TaskSound, Sound
<1>3. PICK phase \in {"encode", "end"} :
        /\ job' = [job EXCEPT ![t].phase = phase]
        /\ \/ phase = "end" /\ UNCHANGED parts
           \/ \E i \in DOMAIN parts[t] :
              \E r \in Resized(parts[t][i], JobSettings(t)["max_pixels"]) :
                /\ parts' = [parts EXCEPT ![t][i] = r[1]]
                /\ phase = AfterResize(r[2])
  <2>1. PICK opened \in SUBSET DOMAIN parts[t] :
          LET largest == Largest(parts[t], opened)
          IN  \/ /\ largest = {}
                 /\ job' = [job EXCEPT ![t].phase = AfterResize(FALSE)]
                 /\ UNCHANGED parts
              \/ \E i \in largest :
                 \E r \in Resized(parts[t][i], JobSettings(t)["max_pixels"]) :
                   /\ parts' = [parts EXCEPT ![t][i] = r[1]]
                   /\ job' = [job EXCEPT ![t].phase = AfterResize(r[2])]
    BY Zenon DEF JobResize
  <2>2. Largest(parts[t], opened) \subseteq DOMAIN parts[t]
    BY DEF Largest
  <2>3. AfterResize(FALSE) = "end"
    BY DEF AfterResize
  <2>4. \A b : AfterResize(b) \in {"encode", "end"}
    BY DEF AfterResize
  <2> QED
    BY <2>1, <2>2, <2>3, <2>4
<1>4. job'[t] = [job[t] EXCEPT !.phase = phase]
  BY <1>2, <1>3
<1>5. /\ DOMAIN job' = Tasks /\ DOMAIN job'[t] = JobFields
      /\ job'[t].phase = phase /\ job'[t].size = job[t].size
      /\ \A u \in Tasks : u # t => job'[u] = job[u]
  BY <1>2, <1>3, <1>4 DEF JobFields
<1>6. /\ DOMAIN parts' = Tasks
      /\ \A u \in Tasks : u # t => parts'[u] = parts[u]
      /\ \A i \in DOMAIN parts'[t] : DOMAIN parts'[t][i] = PartFields
      /\ phase = "encode" => \A i \in DOMAIN parts'[t] : Mapped(parts'[t][i])
  <2>1. CASE phase = "end" /\ UNCHANGED parts
    BY <1>2, <2>1 DEF Mapped
  <2>2. CASE \E i \in DOMAIN parts[t] :
             \E r \in Resized(parts[t][i], JobSettings(t)["max_pixels"]) :
               /\ parts' = [parts EXCEPT ![t][i] = r[1]]
               /\ phase = AfterResize(r[2])
    <3>1. PICK i \in DOMAIN parts[t] :
            \E r \in Resized(parts[t][i], JobSettings(t)["max_pixels"]) :
              /\ parts' = [parts EXCEPT ![t][i] = r[1]]
              /\ phase = AfterResize(r[2])
      BY <2>2
    <3>2. PICK r \in Resized(parts[t][i], JobSettings(t)["max_pixels"]) :
            /\ parts' = [parts EXCEPT ![t][i] = r[1]]
            /\ phase = AfterResize(r[2])
      BY <3>1
    <3>3. DOMAIN r[1] = PartFields
      BY <1>2, ResizedShape
    <3>4. phase = "encode" => Mapped(r[1])
      <4>1. phase = "encode" => r[2]
        BY <3>2, Zenon DEF AfterResize
      <4> QED
        BY <1>2, <4>1, ResizedMapped, Zenon
    <3>5. /\ DOMAIN parts'[t] = DOMAIN parts[t]
          /\ parts'[t][i] = r[1]
          /\ \A j \in DOMAIN parts[t] : j # i => parts'[t][j] = parts[t][j]
          /\ DOMAIN parts' = Tasks
          /\ \A u \in Tasks : u # t => parts'[u] = parts[u]
      BY <1>2, <3>2
    <3> QED
      BY <1>2, <3>3, <3>4, <3>5 DEF Mapped
  <2> QED
    BY <1>3, <2>1, <2>2
<1>7. TaskSound(t)'
  BY <1>1, <1>2, <1>5, <1>6, AtWork DEF TaskSound, Sound
<1>8. OthersStay(t)
  BY <1>1, <1>5, <1>6 DEF OthersStay
<1> QED
  BY <1>1, <1>2, <1>5, <1>6, <1>7, <1>8, ThreadStep

(* A job that reports success has a file of the size that was found to fit. *)
LEMMA JobEndInv ==
  ASSUME EncodeInv, NEW t \in Tasks, JobEnd(t)
  PROVE  EncodeInv'
<1> DEFINE fits == Fits(job[t].size, Limit(t))
           path == job[t].path /\ fits
           state == CASE fits                     -> "DONE"
                      [] ~fits /\ job[t].size > 0 -> "TOO_BIG"
                      [] OTHER                    -> "ERROR"
<1>1. job[t].phase \in {"check", "end"}
  BY DEF JobEnd
<1>2. /\ DOMAIN job = Tasks /\ DOMAIN job[t] = JobFields
      /\ DOMAIN parts = Tasks /\ DOMAIN pdu = Tasks
      /\ job[t].size > 0 => pdu[t] = job[t].size
  BY <1>1 DEF EncodeInv, Shape, TaskSound, Sound
<1>3. /\ job' = [job EXCEPT ![t].phase = "report", ![t].path = path,
                            ![t].state = state]
      /\ state = "DONE" => fits
  <2>1. job' = [job EXCEPT ![t].phase = "report", ![t].path = path,
                           ![t].state = state]
    BY DEF JobEnd, JobSettings, Limit
  <2>2. state = "DONE" => fits
    <3> HIDE DEF fits
    <3> QED
      OBVIOUS
  <2> QED
    BY <2>1, <2>2
<1> HIDE DEF path, state
<1>4. /\ pdu' = [pdu EXCEPT ![t] = IF job[t].path /\ ~fits THEN 0 ELSE @]
      /\ UNCHANGED <<task, parts, settings, settingsVars>>
  BY DEF JobEnd, JobSettings, Limit
<1>5. job'[t] = [job[t] EXCEPT !.phase = "report", !.path = path,
                               !.state = state]
  BY <1>2, <1>3
<1>6. /\ DOMAIN job' = Tasks /\ DOMAIN job'[t] = JobFields
      /\ job'[t].phase = "report" /\ job'[t].state = state
      /\ \A u \in Tasks : u # t => job'[u] = job[u]
  BY <1>2, <1>3, <1>5 DEF JobFields
<1>7. /\ DOMAIN pdu' = Tasks
      /\ fits => pdu'[t] = pdu[t]
      /\ \A u \in Tasks : u # t => pdu'[u] = pdu[u]
  <2> HIDE DEF fits
  <2> QED
    BY <1>2, <1>4
<1>8. state = "DONE" => Fits(pdu'[t], Limit(t))
  BY <1>2, <1>3, <1>7 DEF Fits
<1>9. TaskSound(t)'
  BY <1>1, <1>4, <1>6, <1>8, AtWork DEF TaskSound, Sound, Limit
<1>10. OthersStay(t)
  BY <1>4, <1>6, <1>7 DEF OthersStay
<1>11. \A i \in DOMAIN parts'[t] : DOMAIN parts'[t][i] = PartFields
  BY <1>4 DEF EncodeInv, Shape
<1> QED
  BY <1>2, <1>4, <1>6, <1>7, <1>9, <1>10, <1>11, ThreadStep

LEMMA JobDoneInv ==
  ASSUME EncodeInv, NEW t \in Tasks, JobDone(t)
  PROVE  EncodeInv'
<1> DEFINE done == job[t].state = "DONE"
<1>1. /\ job[t].phase = "report"
      /\ job' = [job EXCEPT ![t].phase = "none", ![t].active = FALSE,
                            ![t].path = FALSE]
      /\ pdu' = [pdu EXCEPT ![t] = IF done /\ ~task[t].delegate THEN 0 ELSE @]
      /\ UNCHANGED <<parts, settings, settingsVars>>
  BY DEF JobDone
<1>2. /\ DOMAIN job = Tasks /\ DOMAIN job[t] = JobFields
      /\ DOMAIN parts = Tasks /\ DOMAIN pdu = Tasks
      /\ task \in [Tasks -> TaskType] /\ task[t] \in TaskType
      /\ done => Fits(pdu[t], Limit(t))
  BY <1>1 DEF EncodeInv, Shape, TaskSound, Sound
<1>3. PICK sent \in BOOLEAN, told \in {"nothing", "ENCODING", "DEFERRED",
                                       "SEND_ERROR", "TOO_BIG"} :
        /\ sent => done /\ task[t].delegate
        /\ task' = [task EXCEPT ![t].state = "DONE", ![t].sent = sent,
                                ![t].told = told]
  <2>1. task' = [task EXCEPT ![t].state = "DONE",
                   ![t].sent = done /\ task[t].delegate,
                   ![t].told = CASE done -> @
                                 [] job[t].state = "TOO_BIG" -> "TOO_BIG"
                                 [] OTHER -> "SEND_ERROR"]
    BY DEF JobDone
  <2>2. (CASE done -> task[t].told
           [] job[t].state = "TOO_BIG" -> "TOO_BIG"
           [] OTHER -> "SEND_ERROR")
          \in {"nothing", "ENCODING", "DEFERRED", "SEND_ERROR", "TOO_BIG"}
    BY <1>2 DEF TaskType
  <2>3. (done /\ task[t].delegate) \in BOOLEAN
    OBVIOUS
  <2> HIDE DEF done
  <2> QED
    BY <2>1, <2>2, <2>3
<1>4. task'[t] = [task[t] EXCEPT !.state = "DONE", !.sent = sent,
                                 !.told = told]
  BY <1>2, <1>3
<1>5. /\ task'[t] \in TaskType
      /\ task'[t].state = "DONE" /\ task'[t].sent = sent
  BY <1>2, <1>4 DEF TaskType
<1>6. /\ task' \in [Tasks -> TaskType]
      /\ \A u \in Tasks : u # t => task'[u] = task[u]
  BY <1>2, <1>3, <1>5
<1>7. job'[t] = [job[t] EXCEPT !.phase = "none", !.active = FALSE,
                               !.path = FALSE]
  BY <1>1, <1>2
<1>8. /\ DOMAIN job' = Tasks /\ DOMAIN job'[t] = JobFields
      /\ job'[t].phase = "none"
      /\ \A u \in Tasks : u # t => job'[u] = job[u]
  BY <1>1, <1>2, <1>7 DEF JobFields
<1>9. /\ DOMAIN pdu' = Tasks
      /\ sent => pdu'[t] = pdu[t]
      /\ \A u \in Tasks : u # t => pdu'[u] = pdu[u]
  BY <1>1, <1>2, <1>3
<1>10. TaskSound(t)'
  BY <1>1, <1>2, <1>3, <1>5, <1>8, <1>9 DEF TaskSound, Sound, Limit
<1>11. OthersStay(t)
  BY <1>1, <1>6, <1>8, <1>9 DEF OthersStay
<1>12. Shape'
  BY <1>1, <1>6, <1>8, <1>9 DEF EncodeInv, Shape
<1>13. SettingsInv' /\ SettingsOfSim'
  BY <1>1, SettingsSameInv DEF EncodeInv, SettingsOfSim
<1> QED
  BY <1>10, <1>11, <1>12, <1>13, OneTask

(* A task that sleeps becomes ready, one that is done is let go. *)
LEMMA WakeupReleaseInv ==
  ASSUME EncodeInv, NEW t \in Tasks, Wakeup(t) \/ Release(t)
  PROVE  EncodeInv'
<1>1. /\ UNCHANGED <<parts, job, pdu, settings, settingsVars>>
      /\ \/ /\ task[t].state = "SLEEP"
            /\ task' = [task EXCEPT ![t].state = "READY"]
         \/ /\ task[t].state = "DONE"
            /\ task' = [task EXCEPT ![t].delegate = FALSE]
  BY DEF Wakeup, Release
<1>2. task \in [Tasks -> TaskType] /\ task[t] \in TaskType
  BY DEF EncodeInv, Shape
<1>3. /\ task' \in [Tasks -> TaskType]
      /\ \A u \in Tasks : u # t => task'[u] = task[u]
      /\ task'[t].sent = task[t].sent
      /\ \/ task[t].state = "SLEEP" /\ task'[t].state = "READY"
         \/ task[t].state = "DONE" /\ task'[t].state = "DONE"
  <2>1. CASE /\ task[t].state = "SLEEP"
             /\ task' = [task EXCEPT ![t].state = "READY"]
    BY <1>2, <2>1 DEF TaskType
  <2>2. CASE /\ task[t].state = "DONE"
             /\ task' = [task EXCEPT ![t].delegate = FALSE]
    BY <1>2, <2>2 DEF TaskType
  <2> QED
    BY <1>1, <2>1, <2>2
<1>4. TaskSound(t)'
  BY <1>1, <1>3 DEF EncodeInv, TaskSound, Sound, Limit
<1>5. OthersStay(t)
  BY <1>1, <1>3 DEF OthersStay
<1>6. SettingsInv' /\ SettingsOfSim' /\ Shape'
  BY <1>1, <1>3, SettingsSameInv DEF EncodeInv, SettingsOfSim, Shape
<1> QED
  BY <1>4, <1>5, <1>6, OneTask

LEMMA CancelInv ==
  ASSUME EncodeInv, NEW t \in Tasks, Cancel(t)
  PROVE  EncodeInv'
<1>1. PICK cancelled :
        /\ job' = [job EXCEPT ![t].cancelled = cancelled]
        /\ task' = [task EXCEPT ![t].state = "DONE", ![t].cancelled = TRUE]
        /\ UNCHANGED <<parts, pdu, settings, settingsVars>>
  BY DEF Cancel
<1>2. /\ task \in [Tasks -> TaskType] /\ task[t] \in TaskType
      /\ DOMAIN job = Tasks /\ DOMAIN job[t] = JobFields
  BY DEF EncodeInv, Shape
<1>3. /\ task' \in [Tasks -> TaskType]
      /\ task'[t].state = "DONE" /\ task'[t].sent = task[t].sent
      /\ \A u \in Tasks : u # t => task'[u] = task[u]
  BY <1>1, <1>2 DEF TaskType
<1>4. job'[t] = [job[t] EXCEPT !.cancelled = cancelled]
  BY <1>1, <1>2
<1>5. /\ DOMAIN job' = Tasks /\ DOMAIN job'[t] = JobFields
      /\ job'[t].phase = job[t].phase /\ job'[t].size = job[t].size
      /\ job'[t].state = job[t].state
      /\ \A u \in Tasks : u # t => job'[u] = job[u]
  BY <1>1, <1>2, <1>4 DEF JobFields
<1>6. TaskSound(t)'
  BY <1>1, <1>3, <1>5 DEF EncodeInv, TaskSound, Sound, Limit
<1>7. OthersStay(t)
  BY <1>1, <1>3, <1>5 DEF OthersStay
<1>8. SettingsInv' /\ SettingsOfSim' /\ Shape'
  BY <1>1, <1>3, <1>5, SettingsSameInv DEF EncodeInv, SettingsOfSim, Shape
<1> QED
  BY <1>6, <1>7, <1>8, OneTask

LEMMA SettingsStepInv ==
  ASSUME EncodeInv, Settings
  PROVE  EncodeInv'
<1>1. SettingsInv' /\ UNCHANGED encodeVars
  BY SettingsNextInv DEF EncodeInv, Settings
<1> QED
  BY <1>1
  DEF encodeVars, EncodeInv, Shape, SettingsOfSim, TaskSound, Limit

-----------------------------------------------------------------------------
LEMMA InitInv == Init => EncodeInv
<1> SUFFICES ASSUME Init
             PROVE  EncodeInv
  OBVIOUS
<1>1. SettingsInv
  BY SettingsInitInv DEF Init
<1>2. NoTask \in TaskType /\ NoTask.state = "NONE" /\ ~NoTask.sent
  BY DEF NoTask, TaskType
<1>3. DOMAIN NoJob = JobFields /\ NoJob.phase = "none"
  BY DEF NoJob, JobFields
<1>4. Shape
  BY <1>2, <1>3, DefaultsAreNumbers DEF Init, Shape
<1>5. SettingsOfSim
  <2>1. \A t \in Tasks : SimOf[t] \in Sims
    BY EncodeAssumption DEF EncodeAssumption
  <2> QED
    BY <2>1, DefaultIsOwn DEF Init, SettingsOfSim
<1>6. \A t \in Tasks : TaskSound(t)
  BY <1>2, <1>3 DEF Init, TaskSound, Sound
<1> QED
  BY <1>1, <1>4, <1>5, <1>6 DEF EncodeInv

LEMMA NextInv ==
  ASSUME EncodeInv, [Next]_vars
  PROVE  EncodeInv'
<1>1. CASE \E t \in Tasks :
             \/ SendMessage(t) \/ Run(t) \/ Thread(t) \/ JobDone(t)
             \/ Wakeup(t) \/ Cancel(t) \/ Release(t)
  BY <1>1, SendMessageInv, RunInv, JobStartInv, JobEncodeInv, JobResizeInv,
     JobEndInv, JobDoneInv, WakeupReleaseInv, CancelInv
  DEF Thread
<1>2. CASE Settings
  BY <1>2, SettingsStepInv
<1>3. CASE UNCHANGED vars
  BY <1>3, SettingsSameInv
  DEF vars, encodeVars, EncodeInv, Shape, SettingsOfSim, TaskSound, Limit
<1> QED
  BY <1>1, <1>2, <1>3 DEF Next

LEMMA Invariance == Spec => []EncodeInv
<1>1. Init => EncodeInv
  BY InitInv
<1>2. EncodeInv /\ [Next]_vars => EncodeInv'
  BY NextInv
<1> QED
  BY <1>1, <1>2, PTL DEF Spec

(* Whatever is in use for a SIM was written for it or is the default, however
   the SIMs take turns and the values change. *)
THEOREM OwnSettings == Spec => []SettingsAreOwn
<1>1. EncodeInv => SettingsAreOwn
  BY DEF EncodeInv, SettingsInv
<1> QED
  BY <1>1, Invariance, PTL

(* What is handed over to be sent has a file that fits the limit of the SIM
   it is sent from, for any sizes and any failures on the way. *)
THEOREM MessageFits == Spec => []SentMessageFits
<1>1. EncodeInv => SentMessageFits
  <2> SUFFICES ASSUME EncodeInv, NEW t \in Tasks, task[t].sent
               PROVE  /\ settings[t]["size_limit"] \in Own(SimOf[t], "size_limit")
                      /\ Fits(pdu[t], settings[t]["size_limit"])
    BY DEF SentMessageFits
  <2>1. Fits(pdu[t], Limit(t))
    BY DEF EncodeInv, TaskSound, Sound
  <2>2. "size_limit" \in Keys
    BY EncodeAssumption DEF EncodeAssumption
  <2> QED
    BY <2>1, <2>2 DEF EncodeInv, SettingsOfSim, Limit
<1> QED
  BY <1>1, Invariance, PTL

(* Each attachment of a message has its data when the message is encoded. *)
THEOREM DataThere == Spec => []DataIsMapped
<1>1. EncodeInv => DataIsMapped
  BY DEF EncodeInv, TaskSound, Sound, DataIsMapped, Mapped
<1> QED
  BY <1>1, Invariance, PTL
=============================================================================
