------------------------------- MODULE Encode -------------------------------
(***************************************************************************)
(* The encoding of outgoing messages: the tasks of mms_task_encode.c, the  *)
(* jobs that their threads run, the attachments (mms_attachment*.c) that   *)
(* the jobs shrink until the message fits, and the settings of the SIMs    *)
(* that say what fits.                                                     *)
(*                                                                         *)
(* A task composes its list of attachments when it is created, in the main *)
(* thread.  Its thread encodes them, shrinks the largest image and encodes *)
(* again.  The result is taken by the main loop, which goes on running     *)
(* meanwhile: the task may be cancelled, and other tasks ask for the       *)
(* settings of other SIMs.                                                 *)
(***************************************************************************)
EXTENDS SimSettings, FiniteSets, Sequences, SequencesExt

CONSTANTS Tasks,       \* tasks that can be created
          SimOf,       \* the SIM each sends from
          Messages,    \* attachments that can be asked for, see Info
          ImageSizes,  \* sizes that a shrunk image can have
          MaxRetries   \* retry_secs fit so often before the deadline

(* MMSAttachmentInfo: of an image, the pixels of a side matter *)
Info == [kind : {"smil", "text", "image", "other"}, size : Nat, side : Nat]

ASSUME EncodeAssumption ==
  /\ SimOf \in [Tasks -> Sims]
  /\ Messages \subseteq Seq(Info)
  /\ ImageSizes \subseteq Nat
  /\ {"size_limit", "max_pixels"} \subseteq Keys
  /\ MaxRetries \in Nat

VARIABLES task,      \* the tasks
          parts,     \* enc->parts of each
          job,       \* the job of each
          settings,  \* job->settings
          pdu        \* size of the send request on disk, 0 for none

encodeVars == <<task, parts, job, settings, pdu>>
vars == <<settingsVars, encodeVars>>

(* MMSAttachment.  The file is the original or the converted one, "map" says
   of which the data is mapped.  made: image->resized is set. *)
PartType == [kind : {"smil", "text", "image", "other"}, size : Nat,
             side : Nat, shrunk : Nat, step : Nat, made : BOOLEAN,
             file : {"original", "converted"},
             map : {"original", "converted", "none"}]

TaskType == [state : {"NONE", "READY", "WORKING", "SLEEP", "DONE"},
             delegate : BOOLEAN, cancelled : BOOLEAN, retries : Nat,
             sent : BOOLEAN,
             told : {"nothing", "ENCODING", "DEFERRED", "SEND_ERROR",
                     "TOO_BIG"}]

(* phase: where the thread is; path: job->path is set *)
JobType == [phase : {"none", "start", "encode", "check", "end", "report"},
            active : BOOLEAN, cancelled : BOOLEAN, path : BOOLEAN, size : Nat,
            state : {"NONE", "RUNNING", "DONE", "TOO_BIG", "ERROR"}]

NoTask == [state |-> "NONE", delegate |-> FALSE, cancelled |-> FALSE,
           retries |-> 0, sent |-> FALSE, told |-> "nothing"]

NoJob == [phase |-> "none", active |-> FALSE, cancelled |-> FALSE,
          path |-> FALSE, size |-> 0, state |-> "NONE"]

-----------------------------------------------------------------------------
(* The list of attachments. *)

(* mms_attachment_new *)
NewPart(info) ==
  [kind |-> info.kind, size |-> info.size, side |-> info.side, shrunk |-> 0,
   step |-> 0, made |-> FALSE, file |-> "original", map |-> "original"]

(* mms_attachment_text_convert_to_utf8, which leaves the text alone when its
   charset is known well enough or something goes wrong *)
Converted(p) == [p EXCEPT !.shrunk = p.size, !.file = "converted",
                          !.map = "converted"]

(* mms_attachment_new_smil *)
Smil == NewPart([kind |-> "smil", size |-> 1, side |-> 0])

(* smil_index: where the first SMIL is, if there is any *)
SmilIndex(ps) == {i \in DOMAIN ps : /\ ps[i].kind = "smil"
                                    /\ \A j \in 1..(i - 1) : ps[j].kind # "smil"}

(* mms_task_encode_prepare_attachments when the first n attachments could be
   copied and mapped, and a SMIL be generated or not: the list, if there is
   one.  What was copied before a failure is returned if a SMIL is among it. *)
Prepared(message, n, generated) ==
  LET ps == [i \in 1..n |-> NewPart(message[i])]
      smil == SmilIndex(ps)
  IN  CASE n < Len(message) /\ smil # {} -> {ps}
        [] n = Len(message) /\ smil # {} ->
             {<<ps[i]>> \o RemoveAt(ps, i) : i \in smil}
        [] n = Len(message) /\ smil = {} /\ generated -> {<<Smil>> \o ps}
        [] OTHER -> {}

(* mms_task_encode_new, mms_dispatcher_send_message: the task is queued when
   the list is there *)
SendMessage(t) ==
  /\ task[t].state = "NONE"
  /\ \E message \in Messages, generated \in BOOLEAN, utf8 \in BOOLEAN :
     \E n \in 0..Len(message) :
     \E list \in Prepared(message, n, generated) :
       parts' = [parts EXCEPT ![t] =
         [i \in DOMAIN list |-> IF list[i].kind = "text" /\ utf8
                                THEN Converted(list[i]) ELSE list[i]]]
  /\ task' = [task EXCEPT ![t] =
       [NoTask EXCEPT !.state = "READY", !.delegate = TRUE]]
  /\ UNCHANGED <<job, settings, pdu, settingsVars>>

-----------------------------------------------------------------------------
(* Images. *)

Square(n) == n * n

(* mms_attachment_image_next_resize_step *)
NextStep(p, pixels) ==
  LET Pixels(n) == Square(p.side \div (n + 1))
      fits == {n \in (p.step + 1)..(p.step + 1 + p.side) :
                 \/ pixels = 0 /\ n = p.step + 1
                 \/ pixels > 0 /\ Pixels(n) <= pixels}
  IN  CHOOSE n \in fits : \A m \in fits : n <= m

(* mms_attachment_image_resize, before anything is tried: the mapping of a
   file about to be replaced is given up *)
Unmapped(p) == IF p.made THEN "none" ELSE p.map

(* mms_attachment_image_prepare_filename: the converted file that there may
   be is removed *)
Prepare(p) == [p EXCEPT !.map = Unmapped(p), !.file = "original",
                        !.made = TRUE, !.shrunk = 0]

(* What the callbacks of an image class can make of the image, by the size of
   the file: an image without pixels cannot be written. *)
Shrunk(p, next) == IF p.side \div (next + 1) > 0 THEN ImageSizes ELSE {}

(* mms_attachment_image_resize with all that can go wrong: reading, writing
   and mapping.  The result is the attachment and whether it was resized. *)
Resized(p, pixels) ==
  LET next == NextStep(p, pixels)
      bare == Prepare(p)
  IN  {<<bare, FALSE>>, <<[bare EXCEPT !.step = next], FALSE>>} \cup
      {<<[bare EXCEPT !.step = next, !.shrunk = size, !.file = "converted",
                      !.map = "converted"], TRUE>> : size \in Shrunk(p, next)}

(* mms_attachment_reset, mms_attachment_image_reset *)
Reset(p) ==
  CASE p.kind = "image" /\ p.step = 0 -> {[p EXCEPT !.file = "original"]}
    [] p.kind = "image" /\ p.step > 0 ->
         {[p EXCEPT !.file = "original", !.step = 0, !.map = m] :
            m \in {"original", "none"}}
    [] p.kind # "image" -> {p}

(* The size of the file that file_name names *)
FileSize(p) == IF p.file = "original" THEN p.size ELSE p.shrunk

(* The length of the mapped data *)
MappedSize(p) == CASE p.map = "original"  -> p.size
                   [] p.map = "converted" -> p.shrunk
                   [] p.map = "none"      -> 0

(* mms_message_encode: the headers and what is mapped *)
PduSize(ps) == FoldFunction(+, 1, [i \in DOMAIN ps |-> MappedSize(ps[i])])

(* mms_encode_job_resize: the first of the largest among the files that could
   be opened *)
Largest(ps, opened) ==
  LET images == {i \in opened : ps[i].kind = "image" /\ FileSize(ps[i]) > 0}
  IN  {i \in images : \A j \in images :
         \/ FileSize(ps[i]) > FileSize(ps[j])
         \/ FileSize(ps[i]) = FileSize(ps[j]) /\ i <= j}

-----------------------------------------------------------------------------
(* Jobs. *)

(* The limit of the message, 0 for none *)
Fits(size, limit) == size > 0 /\ (limit = 0 \/ size <= limit)

(* Seeded fault: the sender is told of a retry that there is no time for. *)
DeferredAnyway(x) ==
  [x EXCEPT !.state = IF x.retries < MaxRetries THEN "SLEEP" ELSE "DONE",
            !.retries = IF x.retries < MaxRetries THEN @ + 1 ELSE @,
            !.told = "DEFERRED"]

(* mms_task_schedule_wakeup: there may be no time left *)
Retried(x) == IF x.retries < MaxRetries
              THEN [x EXCEPT !.state = "SLEEP", !.retries = @ + 1,
                             !.told = "DEFERRED"]
              ELSE [x EXCEPT !.state = "DONE", !.told = "SEND_ERROR"]

(* mms_encode_job_new, mms_encode_job_ref, and the start of its thread *)
NewJob == [NoJob EXCEPT !.phase = "start", !.active = TRUE]

(* mms_task_encode_run.  The job asks for the settings of its SIM and copies
   them, also if its thread cannot be started. *)
Run(t) ==
  /\ task[t].state = "READY"
  /\ task[t].delegate
  /\ GetSimData(SimOf[t])
  /\ \/ /\ job' = [job EXCEPT ![t] = NewJob]
        /\ settings' = [settings EXCEPT ![t] = data']
        /\ task' = [task EXCEPT ![t].state = "WORKING", ![t].told = "ENCODING"]
     \/ /\ task' = [task EXCEPT ![t] = Retried(@)]
        /\ UNCHANGED <<job, settings>>
  /\ UNCHANGED <<parts, pdu>>

(* Seeded fault: the job looks at the settings that are attached. *)
AttachedSettings(t) == data

(* job->settings->data *)
JobSettings(t) == settings[t]

(* mms_encode_job_run, its beginning *)
JobStart(t) ==
  /\ job[t].phase = "start"
  /\ job' = [job EXCEPT ![t].phase = "encode", ![t].state = "RUNNING"]
  /\ \E ps \in [DOMAIN parts[t] -> UNION {Reset(parts[t][i]) :
                                          i \in DOMAIN parts[t]}] :
       /\ \A i \in DOMAIN ps : ps[i] \in Reset(parts[t][i])
       /\ parts' = [parts EXCEPT ![t] = ps]
  /\ UNCHANGED <<task, pdu, settings, settingsVars>>

(* mms_encode_job_encode and what its caller makes of the size: encoding stops
   when it fails or the message has not become smaller.  When the file cannot
   be created, an earlier one is left behind, for its path was forgotten. *)
JobEncode(t) ==
  LET size == PduSize(parts[t])
      last == job[t].size
      Encoded(file, length, path) ==
        /\ pdu' = [pdu EXCEPT ![t] = file]
        /\ job' = [job EXCEPT ![t].path = path, ![t].size = length,
                     ![t].phase = IF last > 0 /\ (length = 0 \/ length >= last)
                                  THEN "end" ELSE "check"]
  IN  /\ job[t].phase = "encode"
      /\ \/ Encoded(size, size, TRUE)
         \/ Encoded(0, 0, FALSE)
         \/ Encoded(pdu[t], 0, FALSE)
      /\ UNCHANGED <<task, parts, settings, settingsVars>>

(* The condition of the loop in mms_encode_job_run, before the resizing *)
MustShrink(t) == /\ JobSettings(t)["size_limit"] > 0
                 /\ job[t].size > JobSettings(t)["size_limit"]
                 /\ ~job[t].cancelled

(* Seeded fault: the message is encoded again whatever came of it. *)
EncodeAnyway(resized) == "encode"

(* The loop of mms_encode_job_run after mms_encode_job_resize *)
AfterResize(resized) == IF resized THEN "encode" ELSE "end"

(* mms_encode_job_resize.  When it fails the encoding is over, whatever other
   images there are. *)
JobResize(t) ==
  /\ job[t].phase = "check"
  /\ MustShrink(t)
  /\ \E opened \in SUBSET DOMAIN parts[t] :
       LET largest == Largest(parts[t], opened)
       IN  \/ /\ largest = {}
              /\ job' = [job EXCEPT ![t].phase = AfterResize(FALSE)]
              /\ UNCHANGED parts
           \/ \E i \in largest :
              \E r \in Resized(parts[t][i], JobSettings(t)["max_pixels"]) :
                /\ parts' = [parts EXCEPT ![t][i] = r[1]]
                /\ job' = [job EXCEPT ![t].phase = AfterResize(r[2])]
  /\ UNCHANGED <<task, pdu, settings, settingsVars>>

(* mms_encode_job_run, its end: the result goes to the main loop *)
JobEnd(t) ==
  LET size == job[t].size
      fits == Fits(size, JobSettings(t)["size_limit"])
  IN  /\ \/ job[t].phase = "check" /\ ~MustShrink(t)
         \/ job[t].phase = "end"
      /\ job' = [job EXCEPT ![t].phase = "report", ![t].path = @ /\ fits,
                   ![t].state = CASE fits               -> "DONE"
                                  [] ~fits /\ size > 0  -> "TOO_BIG"
                                  [] OTHER              -> "ERROR"]
      /\ pdu' = [pdu EXCEPT ![t] = IF job[t].path /\ ~fits THEN 0 ELSE @]
      /\ UNCHANGED <<task, parts, settings, settingsVars>>

(* mms_encode_job_done, mms_task_encode_job_done.  Without a delegate, the
   task that would send the message is dropped, and its file with it. *)
JobDone(t) ==
  LET done == job[t].state = "DONE"
  IN  /\ job[t].phase = "report"
      /\ job[t].active
      /\ job' = [job EXCEPT ![t].phase = "none", ![t].active = FALSE,
                            ![t].path = FALSE]
      /\ task' = [task EXCEPT ![t].state = "DONE",
                    ![t].sent = done /\ task[t].delegate,
                    ![t].told = CASE done -> @
                                  [] job[t].state = "TOO_BIG" -> "TOO_BIG"
                                  [] OTHER -> "SEND_ERROR"]
      /\ pdu' = [pdu EXCEPT ![t] = IF done /\ ~task[t].delegate THEN 0 ELSE @]
      /\ UNCHANGED <<parts, settings, settingsVars>>

-----------------------------------------------------------------------------
(* The main loop. *)

(* mms_task_wakeup_callback *)
Wakeup(t) ==
  /\ task[t].state = "SLEEP"
  /\ task' = [task EXCEPT ![t].state = "READY"]
  /\ UNCHANGED <<parts, job, pdu, settings, settingsVars>>

(* mms_task_encode_cancel, mms_task_cancel_cb: the job goes on until it looks
   at its cancellable, and reports *)
Cancel(t) ==
  /\ task[t].delegate
  /\ ~task[t].cancelled
  /\ job' = [job EXCEPT ![t].cancelled = @ \/ job[t].active]
  /\ task' = [task EXCEPT ![t].state = "DONE", ![t].cancelled = TRUE]
  /\ UNCHANGED <<parts, pdu, settings, settingsVars>>

(* mms_dispatcher_run lets go of a task that is done *)
Release(t) ==
  /\ task[t].state = "DONE"
  /\ task[t].delegate
  /\ task' = [task EXCEPT ![t].delegate = FALSE]
  /\ UNCHANGED <<parts, job, pdu, settings, settingsVars>>

(* Tasks of other kinds ask for settings, others write them *)
Settings == SettingsNext /\ UNCHANGED <<encodeVars>>

Init ==
  /\ SettingsInit
  /\ task = [t \in Tasks |-> NoTask]
  /\ parts = [t \in Tasks |-> <<>>]
  /\ job = [t \in Tasks |-> NoJob]
  /\ settings = [t \in Tasks |-> SimDefaults]
  /\ pdu = [t \in Tasks |-> 0]

Thread(t) == JobStart(t) \/ JobEncode(t) \/ JobResize(t) \/ JobEnd(t)

Next ==
  \/ \E t \in Tasks : \/ SendMessage(t) \/ Run(t) \/ Thread(t) \/ JobDone(t)
                      \/ Wakeup(t) \/ Cancel(t) \/ Release(t)
  \/ Settings

Spec == Init /\ [][Next]_vars

(* The kernel runs the threads, the main loop its sources and the dispatcher
   the tasks that are ready *)
FairSpec ==
  Spec /\ \A t \in Tasks : /\ WF_vars(Thread(t)) /\ WF_vars(JobDone(t))
                           /\ WF_vars(Run(t)) /\ WF_vars(Wakeup(t))

-----------------------------------------------------------------------------
TypeOK ==
  /\ SettingsTypeOK
  /\ task \in [Tasks -> TaskType]
  /\ parts \in [Tasks -> Seq(PartType)]
  /\ job \in [Tasks -> JobType]
  /\ settings \in [Tasks -> [Keys -> Nat]]
  /\ pdu \in [Tasks -> Nat]

(* What is in use for a SIM was written for that SIM or is the default: no
   value of the SIM attached before stays, and no late change of its values is
   taken for one of the new SIM (mms_settings_dconf.c:309-381). *)
SettingsAreOwn ==
  attached # NoSim => \A k \in Keys : data[k] \in Own(attached, k)

(* A message that is handed over to be sent has its file, and the file fits
   the limit of the SIM that it is sent from, whichever SIM the settings were
   attached to while the thread was working (mms_task_encode.c:207-246). *)
SentMessageFits ==
  \A t \in Tasks : task[t].sent =>
    LET limit == settings[t]["size_limit"]
    IN  limit \in Own(SimOf[t], "size_limit") /\ Fits(pdu[t], limit)

(* Whenever a message is encoded, each of its attachments is mapped, and it is
   the file that its size was judged by that is mapped: a failed attempt to
   shrink an image, which leaves it without data, is never followed by an
   encoding (mms_attachment_image.c:248-276, mms_task_encode.c:225-231). *)
DataIsMapped ==
  \A t \in Tasks : job[t].phase = "encode" =>
    \A i \in DOMAIN parts[t] : parts[t][i].map = parts[t][i].file

(* Every message that was taken is handed over or its sender hears why not,
   unless it was cancelled, however often its images are shrunk and its thread
   cannot be started (mms_task_encode.c:319-373). *)
EncodingEnds ==
  \A t \in Tasks : task[t].state # "NONE" ~>
    /\ task[t].state = "DONE"
    /\ job[t].phase = "none"
    /\ \/ task[t].cancelled
       \/ task[t].sent /\ task[t].told = "ENCODING"
       \/ ~task[t].sent /\ task[t].told \in {"SEND_ERROR", "TOO_BIG"}
=============================================================================
