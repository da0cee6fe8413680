------------------------------- MODULE Receive -------------------------------
(***************************************************************************)
(* A message on its way from the MMSC to the handler: the tasks that       *)
(* retrieve, decode, acknowledge and publish it (mms_task_retrieve.c,      *)
(* _decode.c, _ack.c, _notifyresp.c, _publish.c), the message that they    *)
(* pass on (mms_message.c), and the files that they make in the message's  *)
(* directory (mms_file_util.c) and remove when they are freed.             *)
(*                                                                         *)
(* When the tasks get their turn is the dispatcher's business, and how an  *)
(* HTTP task gets to its end is HttpTask's: here they run in any order.    *)
(* Temporary files are not kept (keep_temp_files is off).  A publication   *)
(* whose call has been answered is not cancelled here: see HandlerCalls.   *)
(***************************************************************************)
EXTENDS Pdu

CONSTANTS Pdus,     \* what the MMSC may answer
          Ids,      \* transaction ids of the notification
          MaxTries  \* how often an attempt may be repeated

VARIABLES tx,        \* transaction_id of the retrieval
          pdu,       \* what the MMSC answers, NoPdu when it is of no use
          task,      \* the tasks
          told,      \* the last the handler has heard of the message
          cancelled, \* the user has cancelled it
          dirs,      \* the message's directory and that of its parts
          files,     \* the files in the first
          partFiles, \* the files in the second
          dec,       \* mms_task_decode_retrieve_conf: where it is
          msg,       \* the message
          call       \* the call to the handler that holds the message

vars == <<tx, pdu, task, told, cancelled, dirs, files, partFiles, dec, msg,
          call>>

Kinds == {"retrieve", "decode", "ack", "notifyresp", "publish"}

NoPdu == [type |-> "none", fields |-> <<>>, body |-> "none", parts |-> <<>>]
NoMessage == [refs |-> 0, parts |-> <<>>]
NoFiles == [f \in {} |-> NoPdu]

(* The name of a file or a content id: underscores put in front of it, what
   it is made of, and how often .orig has been put behind it *)
Name(under, base, orig) == [under |-> under, base |-> base, orig |-> orig]
EmptyName == Name(0, <<>>, 0)

IsName(n) == /\ n = Name(n.under, n.base, n.orig)
             /\ n.under \in Nat /\ n.orig \in Nat

(* What the decoder makes of octets: texts, and names of parts *)
ASSUME ReceiveAssumption ==
  /\ MaxTries \in Nat
  /\ \A p \in Pdus :
       /\ p.fields \in Seq([header : STRING, readable : BOOLEAN,
                            value : STRING])
       /\ p.parts \in Seq({p.parts[k] : k \in DOMAIN p.parts})
       /\ \A k \in DOMAIN p.parts :
            /\ IsName(p.parts[k].id)
            /\ p.parts[k].name.under \in Nat /\ p.parts[k].name.orig \in Nat

-----------------------------------------------------------------------------
(* Names. *)

(* Seeded fault: a name that is taken is taken again. *)
FreshNot(names, name) == name

(* The loop that mms_task_decode_add_file_name and _make_content_id share *)
Fresh(names, name) ==
  LET With(n) == [name EXCEPT !.under = @ + n]
      free == {n \in 0..Cardinality(names) : With(n) \notin names}
  IN  With(CHOOSE n \in free : \A m \in free : n <= m)

(* mms_task_decode_add_file_name: brackets are left out, a slash becomes an
   underscore *)
Sanitized(raw) == Name(raw.under + (IF raw.slashed THEN 1 ELSE 0),
                       raw.base, raw.orig)

(* The name that mms_task_decode_retrieve_conf gives to a part, the i-th *)
Proposed(part, i) ==
  IF part.name.base = <<>> /\ ~part.name.brackets
  THEN Name(0, <<"part", i>>, 0)
  ELSE Sanitized(part.name)

-----------------------------------------------------------------------------
(* Files. *)

Without(f, name) == [x \in DOMAIN f \ {name} |-> f[x]]
With(f, name, data) ==
  [x \in DOMAIN f \cup {name} |-> IF x = name THEN data ELSE f[x]]

(* rmdir of the message's directory *)
Emptied(d, f) == IF f = NoFiles /\ "parts" \notin d THEN d \ {"msg"} ELSE d

(* mms_remove_file_and_dir, and rmdir in mms_task_finalize *)
RemoveFile(name) == /\ files' = Without(files, name)
                    /\ dirs' = Emptied(dirs, files')

(* mms_message_finalize removes the files of the parts and the directories *)
Finalize ==
  LET own == UNION {{p.file, p.orig} : p \in {msg.parts[k] :
                                             k \in DOMAIN msg.parts}}
      left == [x \in DOMAIN partFiles \ own |-> partFiles[x]]
  IN  /\ partFiles' = left
      /\ dirs' = Emptied(IF left = NoFiles THEN dirs \ {"parts"} ELSE dirs,
                         files)
      /\ msg' = NoMessage

(* mms_message_unref, in the end of a task or of a call *)
Unref == IF msg.refs = 1 THEN Finalize
         ELSE /\ msg' = [msg EXCEPT !.refs = @ - 1]
              /\ dirs' = Emptied(dirs, files)
              /\ UNCHANGED partFiles

(* mms_create_file, mms_message_encode: the file is there also when encoding
   fails.  The result is the file, or an unusable one. *)
Answer(kind) ==
  LET fields == IF kind = "ack" THEN Acknowledge(tx) ELSE NotifyResp(tx)
      type == IF kind = "ack" THEN "acknowledge_ind" ELSE "notifyresp_ind"
  IN  {NoPdu} \cup
      IF Fits(fields) THEN {[NoPdu EXCEPT !.type = type, !.fields = fields]}
      ELSE {}

-----------------------------------------------------------------------------
(* The retrieval. *)

To(kind, state) == [task EXCEPT ![kind].state = state]

(* mms_task_http_start; the directory or the file may fail to be created *)
Start ==
  /\ task["retrieve"].state = "READY"
  /\ \/ /\ task' = To("retrieve", "TRANSMITTING")
        /\ files' = With(files, "retrieve", NoPdu)
        /\ dirs' = dirs \cup {"msg"}
        /\ told' = "RECEIVING"
     \/ /\ task' = To("retrieve", "DONE")
        /\ files' = Without(files, "retrieve")
        /\ dirs' \in {dirs, dirs \cup {"msg"}}
        /\ told' = "DOWNLOAD_ERROR"
  /\ UNCHANGED <<tx, pdu, cancelled, partFiles, dec, msg, call>>

(* mms_task_http_finished, mms_task_retrieve_done, mms_task_decode_new: what
   was received is mapped *)
Retrieved ==
  /\ task["retrieve"].state = "TRANSMITTING"
  /\ \/ /\ files' = With(files, "retrieve", pdu)
        /\ told' = "DECODING"
        /\ task' = [To("retrieve", "DONE") EXCEPT !["decode"].state = "READY"]
     \/ /\ told' = "DOWNLOAD_ERROR"
        /\ task' = To("retrieve", "DONE")
        /\ UNCHANGED files
     \/ /\ task["retrieve"].tries < MaxTries
        /\ task' = [To("retrieve", "READY")
                      EXCEPT !["retrieve"].tries = @ + 1]
        /\ told' = "DEFERRED"
        /\ UNCHANGED files
  /\ UNCHANGED <<tx, pdu, cancelled, dirs, partFiles, dec, msg, call>>

-----------------------------------------------------------------------------
(* The decoding.  It is one callback: nothing else happens until it ends. *)

(* The message is there: mms_task_decode_process_pdu.  A status that
   extract_retrieve_status does not know counts as none. *)
HasMessage ==
  /\ Taken(pdu, "MESSAGE_ID") # <<>>
  /\ Taken(pdu, "RETRIEVE_STATUS") \in {<<>>, <<"ok">>, <<"unknown">>}

Refused(kind) ==
  /\ \E answer \in Answer(kind) :
       \/ /\ files' = With(files, kind, answer)
          /\ dirs' = dirs \cup {"msg"}
          /\ task' = [To("decode", "DONE") EXCEPT
               ![kind].state = IF answer = NoPdu THEN "NONE" ELSE "READY"]
       \/ /\ UNCHANGED files
          /\ dirs' \in {dirs, dirs \cup {"msg"}}
          /\ task' = To("decode", "DONE")
  /\ told' = "DECODING_ERROR"
  /\ pdu' = NoPdu
  /\ UNCHANGED <<dec, msg>>

(* mms_task_decode_run, mms_task_decode_process_pdu *)
Decode ==
  /\ task["decode"].state = "READY"
  /\ dec.part = 0
  /\ \/ /\ Decodes(pdu) /\ pdu.type = "retrieve_conf" /\ HasMessage
        /\ dec' = [dec EXCEPT !.part = 1]
        /\ msg' = [NoMessage EXCEPT !.refs = 1]
        /\ UNCHANGED <<pdu, files, dirs, task, told>>
     \/ /\ Decodes(pdu) /\ pdu.type = "retrieve_conf" /\ ~HasMessage
        /\ told' = "DOWNLOAD_ERROR"
        /\ task' = To("decode", "DONE")
        /\ pdu' = NoPdu
        /\ UNCHANGED <<dec, msg, files, dirs>>
     \/ /\ ~(Decodes(pdu) /\ pdu.type = "retrieve_conf")
        /\ Refused("notifyresp")
  /\ UNCHANGED <<tx, cancelled, partFiles, call>>

(* A part in a file: as it came, decoded, or as it came and left behind under
   the name for the original when its own file is gone *)
Content(i, form) == [part |-> i, form |-> form]

(* mms_task_decode_part for the file of part i: the files that there are then
   and the name that is remembered for the original, EmptyName for none.
   Nobody looks whether the original could be renamed back. *)
Transferred(i, file, orig) ==
  LET both == With(With(partFiles, file, Content(i, "decoded")), orig,
                   Content(i, "raw"))
      bare == With(partFiles, file, Content(i, "raw"))
      left == With(partFiles, orig, Content(i, "stray"))
  IN  {<<both, orig>>,      \* decoded
       <<bare, EmptyName>>, \* could not be decoded, was renamed back
       <<left, EmptyName>>, \* could not be decoded nor renamed back
       <<bare, orig>>}      \* could not be renamed

(* The loop of mms_task_decode_retrieve_conf *)
DecodePart ==
  LET i    == dec.part
      part == pdu.parts[i]
      file == Fresh(dec.names, Proposed(part, i))
      names == dec.names \cup {file}
      orig == Fresh(names, [file EXCEPT !.orig = @ + 1])
      id   == Fresh(dec.ids,
                    IF part.id # EmptyName THEN part.id
                    ELSE Name(0, <<"file", file>>, 0))
      Add(name) == msg' = [msg EXCEPT !.parts =
                     Append(@, [of |-> i, id |-> id, file |-> file,
                                orig |-> name])]
  IN  /\ i \in DOMAIN pdu.parts
      /\ \/ /\ dec' = [part |-> i + 1, names |-> names, ids |-> dec.ids]
            /\ dirs' \in {dirs, dirs \cup {"msg"}, dirs \cup {"msg", "parts"}}
            /\ UNCHANGED <<partFiles, msg>>
         \/ /\ file # EmptyName
            /\ dirs' = dirs \cup {"msg", "parts"}
            /\ \/ /\ ~part.encoded
                  /\ partFiles' = With(partFiles, file,
                                       Content(i, "raw"))
                  /\ Add(EmptyName)
                  /\ dec' = [part |-> i + 1, names |-> names,
                             ids |-> dec.ids \cup {id}]
               \/ /\ part.encoded
                  /\ \E r \in Transferred(i, file, orig) :
                       partFiles' = r[1] /\ Add(r[2])
                  /\ dec' = [part |-> i + 1, names |-> names \cup {orig},
                             ids |-> dec.ids \cup {id}]
      /\ UNCHANGED <<tx, pdu, task, told, cancelled, files, call>>

(* The end of mms_task_decode_process_pdu: mms_task_ack_new,
   mms_task_publish_new.  The publication takes a reference to the message,
   and the one of the decoding is dropped. *)
Decoded ==
  /\ dec.part = Len(pdu.parts) + 1
  /\ \E answer \in Answer("ack") :
       \/ /\ files' = With(files, "ack", answer)
          /\ dirs' = dirs \cup {"msg"}
          /\ task' = [To("decode", "DONE") EXCEPT
               !["ack"].state = IF answer = NoPdu THEN "NONE" ELSE "READY",
               !["publish"].state = "READY"]
       \/ /\ UNCHANGED files
          /\ dirs' \in {dirs, dirs \cup {"msg"}}
          /\ task' = [To("decode", "DONE") EXCEPT
                        !["publish"].state = "READY"]
  /\ dec' = [part |-> 0, names |-> {}, ids |-> {}]
  /\ pdu' = NoPdu
  /\ UNCHANGED <<tx, told, cancelled, partFiles, msg, call>>

-----------------------------------------------------------------------------
(* The answer to the MMSC and the publication. *)

Idle == dec.part = 0

(* The HTTP task of an answer ends, one way or the other. *)
Answered(kind) ==
  /\ Idle
  /\ task[kind].state = "READY"
  /\ task' = To(kind, "DONE")
  /\ UNCHANGED <<tx, pdu, told, cancelled, dirs, files, partFiles, dec, msg,
                 call>>

(* mms_task_publish_run.  Without a handler there is a retry or the end. *)
Publish ==
  /\ Idle
  /\ task["publish"].state = "READY"
  /\ \/ /\ task' = To("publish", "PENDING")
        /\ msg' = [msg EXCEPT !.refs = @ + 1]
        /\ call' = "pending"
     \/ /\ task' = IF task["publish"].tries < MaxTries
                   THEN [task EXCEPT !["publish"].tries = @ + 1]
                   ELSE To("publish", "DONE")
        /\ UNCHANGED <<msg, call>>
  /\ UNCHANGED <<tx, pdu, told, cancelled, dirs, files, partFiles, dec>>

(* mms_handler_dbus_message_received_done, mms_task_publish_done.  A call that
   was cancelled only lets go of the message. *)
HandlerAnswers ==
  /\ Idle
  /\ call # "none"
  /\ call' = "none"
  /\ \/ call = "pending" /\ told' = "message" /\ task' = To("publish", "DONE")
     \/ /\ call = "pending" /\ task["publish"].tries < MaxTries
        /\ task' = [To("publish", "READY") EXCEPT !["publish"].tries = @ + 1]
        /\ UNCHANGED told
     \/ /\ call = "pending" /\ task["publish"].tries = MaxTries
        /\ task' = To("publish", "DONE")
        /\ UNCHANGED told
     \/ call = "cancelled" /\ UNCHANGED <<told, task>>
  /\ Unref
  /\ UNCHANGED <<tx, pdu, cancelled, files, dec>>

(* mms_dispatcher_cancel, the fn_cancel of the classes: the outcome of a
   retrieval is reported *)
Cancel ==
  /\ Idle
  /\ ~cancelled
  /\ call = "none" => /\ task["publish"].state # "DONE"
                      /\ task["publish"].tries = 0
  /\ cancelled' = TRUE
  /\ told' = IF task["retrieve"].state \in {"READY", "TRANSMITTING"}
             THEN "DOWNLOAD_ERROR" ELSE told
  /\ task' = [k \in Kinds |-> IF task[k].state \in {"NONE", "FREED"}
                              THEN task[k]
                              ELSE [task[k] EXCEPT !.state = "DONE"]]
  /\ call' = IF call = "pending" THEN "cancelled" ELSE call
  /\ UNCHANGED <<tx, pdu, dirs, files, partFiles, dec, msg>>

(* Seeded fault: the file of a retrieval is left to its decoding. *)
FreeKeeping(kind) ==
  /\ Idle
  /\ task[kind].state = "DONE"
  /\ task' = To(kind, "FREED")
  /\ IF kind = "publish" THEN Unref /\ UNCHANGED files
     ELSE /\ IF kind = "retrieve" THEN UNCHANGED <<files, dirs>>
             ELSE RemoveFile(IF kind = "decode" THEN "retrieve" ELSE kind)
          /\ UNCHANGED <<msg, partFiles>>
  /\ UNCHANGED <<tx, pdu, told, cancelled, dec, call>>

(* The dispatcher lets go of a task, which is finalized with its files *)
Free(kind) ==
  /\ Idle
  /\ task[kind].state = "DONE"
  /\ task' = To(kind, "FREED")
  /\ IF kind = "publish" THEN Unref /\ UNCHANGED files
     ELSE /\ RemoveFile(IF kind = "decode" THEN "retrieve" ELSE kind)
          /\ UNCHANGED <<msg, partFiles>>
  /\ UNCHANGED <<tx, pdu, told, cancelled, dec, call>>

-----------------------------------------------------------------------------
Init ==
  /\ tx \in Ids
  /\ pdu \in Pdus
  /\ task = [k \in Kinds |->
               [state |-> IF k = "retrieve" THEN "READY" ELSE "NONE",
                tries |-> 0]]
  /\ told = "nothing"
  /\ cancelled = FALSE
  /\ dirs = {}
  /\ files = NoFiles
  /\ partFiles = NoFiles
  /\ dec = [part |-> 0, names |-> {}, ids |-> {}]
  /\ msg = NoMessage
  /\ call = "none"

Next ==
  \/ Start \/ Retrieved \/ Decode \/ DecodePart \/ Decoded
  \/ \E kind \in {"ack", "notifyresp"} : Answered(kind)
  \/ Publish
  \/ HandlerAnswers
  \/ \E kind \in Kinds : Free(kind)
  \/ Cancel

Spec == Init /\ [][Next]_vars

-----------------------------------------------------------------------------
(* Where the PDU has fields of a header, and the first of them *)
Given(h) == {i \in DOMAIN pdu.fields : pdu.fields[i].header = h}
Earliest(h) == CHOOSE i \in Given(h) : \A j \in Given(h) : i <= j

(* What makes a message is what came first and came whole: a message is made
   only of a PDU whose mandatory headers are there and in their place, its id
   is that of the first such header, and neither the first status nor any
   recipient is dropped for being unreadable, unless it is the last thing in a
   PDU without a body (mms_codec.c:1045-1144, mms_task_decode.c:251-303). *)
MessageIsWhole ==
  dec.part = 1 =>
    /\ \A h \in {"VERSION", "DATE", "MESSAGE_ID"} : Given(h) # {}
    /\ Taken(pdu, "MESSAGE_ID") = <<pdu.fields[Earliest("MESSAGE_ID")].value>>
    /\ Given("RETRIEVE_STATUS") # {} =>
         LET i == Earliest("RETRIEVE_STATUS")
         IN  \/ Taken(pdu, "RETRIEVE_STATUS") = <<pdu.fields[i].value>>
             \/ ~pdu.fields[i].readable /\ i = Len(pdu.fields)
                /\ pdu.body = "none"
    /\ pdu.body # "none" => Len(Taken(pdu, "TO")) = Cardinality(Given("TO"))
    /\ pdu.fields[1].header \in {"TRANSACTION_ID", "VERSION"}

(* All that is left of a part whose decoding could not be undone *)
LeftBehind(p) ==
  /\ p.orig = EmptyName
  /\ p.file \notin DOMAIN partFiles
  /\ Content(p.of, "stray") \in {partFiles[f] : f \in DOMAIN partFiles}

(* Whoever holds the message, the handler included, finds each of its parts in
   the file that it names, and nothing but that part, however the parts were
   called and whatever went wrong with their transfer encoding, unless the
   original of one that could not be decoded could not be renamed back; no two
   parts answer to the same content id (mms_task_decode.c:60-142, 208-244). *)
PartsAreKept ==
  /\ task["publish"].state \in {"READY", "PENDING"} \/ call # "none" =>
       msg.refs > 0
  /\ msg.refs > 0 =>
       \A k \in DOMAIN msg.parts :
         LET p == msg.parts[k]
         IN  /\ \/ LeftBehind(p)
                \/ /\ p.file \in DOMAIN partFiles
                   /\ partFiles[p.file].part = p.of
                   /\ partFiles[p.file].form # "stray"
             /\ p.orig \in DOMAIN partFiles =>
                  /\ partFiles[p.orig] = Content(p.of, "raw")
                  /\ partFiles[p.file] = Content(p.of, "decoded")
             /\ \A j \in DOMAIN msg.parts : j # k => msg.parts[j].id # p.id

(* A task that answers the MMSC has its file, although others remove theirs
   and the directory meanwhile; it is an answer that a decoder accepts, to the
   transaction of the notification (mms_task_ack.c, mms_task_notifyresp.c). *)
AnswersDecode ==
  \A kind \in {"ack", "notifyresp"} :
    task[kind].state = "READY" =>
      /\ kind \in DOMAIN files
      /\ Decodes(files[kind])
      /\ Taken(files[kind], "TRANSACTION_ID") = <<tx>>

(* Where all tasks have been freed and the handler has answered, nothing is
   left in the message's directory nor the directory itself, in whichever
   order they went, but for the files that nobody owns: of an answer that could
   not be encoded, and of a part that could not be renamed back.  The handler
   has the message or has heard of an error, unless
   the user cancelled or the handler itself refused the message to the end
   (mms_file_util.c:72-90, mms_message.c:22-75, mms_task.c:132-159). *)
NothingIsLeft ==
  (\A k \in Kinds : task[k].state \in {"NONE", "FREED"}) /\ call = "none" =>
    /\ msg = NoMessage
    /\ \A f \in DOMAIN partFiles : partFiles[f].form = "stray"
    /\ \A f \in DOMAIN files : f \in {"ack", "notifyresp"} /\ files[f] = NoPdu
    /\ files = NoFiles /\ partFiles = NoFiles => dirs = {}
    /\ \/ cancelled
       \/ told \in {"message", "DOWNLOAD_ERROR", "DECODING_ERROR"}
       \/ task["publish"].tries = MaxTries
=============================================================================
