--------------------------------- MODULE Pdu ---------------------------------
(***************************************************************************)
(* Protocol data units (mms_codec.c): which of them the decoder accepts,   *)
(* which header fields it takes the values from, and what the encoder      *)
(* makes of the ones that the program sends.                               *)
(*                                                                         *)
(* A header field of a PDU is a record: the header that it gives, whether  *)
(* the value can be converted, and the value.  A PDU is its type, its      *)
(* fields in their order, and its body.                                    *)
(***************************************************************************)
EXTENDS Naturals, Sequences, FiniteSets

(* HEADER_FLAG_..., and "ignored" for an entry without a place to put the
   value *)
Header(header, flags) == [header |-> header, flags |-> flags]

First == {"mandatory", "preset"}

NotificationInd ==
  <<Header("TRANSACTION_ID", First), Header("VERSION", First),
    Header("FROM", {}), Header("SUBJECT", {}),
    Header("MESSAGE_CLASS", {"mandatory"}),
    Header("MESSAGE_SIZE", {"mandatory"}), Header("EXPIRY", {"mandatory"}),
    Header("CONTENT_LOCATION", {"mandatory"})>>

NotifyRespInd ==
  <<Header("TRANSACTION_ID", First), Header("VERSION", First),
    Header("STATUS", {"mandatory"})>>

AcknowledgeInd ==
  <<Header("TRANSACTION_ID", First), Header("VERSION", First),
    Header("REPORT_ALLOWED", {})>>

DeliveryInd ==
  <<Header("TRANSACTION_ID", {"preset", "ignored"}), Header("VERSION", First),
    Header("MESSAGE_ID", {"mandatory"}), Header("TO", {"mandatory"}),
    Header("DATE", {"mandatory"}), Header("STATUS", {"mandatory"})>>

ReadInd ==
  <<Header("TRANSACTION_ID", {"preset", "ignored"}), Header("VERSION", First),
    Header("MESSAGE_ID", {"mandatory"}), Header("TO", {"mandatory"}),
    Header("FROM", {"mandatory"}), Header("DATE", {"mandatory"}),
    Header("READ_STATUS", {"mandatory"})>>

RetrieveConf ==
  <<Header("TRANSACTION_ID", {"preset"}), Header("VERSION", First),
    Header("FROM", {}), Header("TO", {"multi"}), Header("CC", {"multi"}),
    Header("SUBJECT", {}), Header("MESSAGE_CLASS", {}),
    Header("PRIORITY", {}), Header("MESSAGE_ID", {}),
    Header("DATE", {"mandatory"}), Header("READ_REPORT", {}),
    Header("RETRIEVE_STATUS", {})>>

SendConf ==
  <<Header("TRANSACTION_ID", First), Header("VERSION", First),
    Header("RESPONSE_STATUS", {"mandatory"}), Header("RESPONSE_TEXT", {}),
    Header("MESSAGE_ID", {})>>

SendReq ==
  <<Header("TRANSACTION_ID", First), Header("VERSION", First),
    Header("TO", {"multi"}), Header("CC", {"multi"}),
    Header("BCC", {"multi"}), Header("DELIVERY_REPORT", {}),
    Header("READ_REPORT", {})>>

(* The types that mms_message_decode knows *)
Table == [send_req |-> SendReq, send_conf |-> SendConf,
          notification_ind |-> NotificationInd,
          notifyresp_ind |-> NotifyRespInd, retrieve_conf |-> RetrieveConf,
          acknowledge_ind |-> AcknowledgeInd, delivery_ind |-> DeliveryInd,
          read_rec_ind |-> ReadInd, read_orig_ind |-> ReadInd]

Headers(table) == {table[k].header : k \in DOMAIN table}

Flags(table, h) ==
  table[CHOOSE k \in DOMAIN table : table[k].header = h].flags

-----------------------------------------------------------------------------
(* Decoding. *)

(* The loop of mms_parse_headers, by what becomes of the field at position i:
   headers that are not listed are skipped, those that are listed without a
   place for the value are only marked, of the others the first field counts,
   or each if several are allowed. *)
Listed(pdu, i, flag) ==
  LET table == Table[pdu.type]
      h == pdu.fields[i].header
  IN  h \in Headers(table) /\ (flag = "any" \/ flag \in Flags(table, h))

Repeated(pdu, i) == \E j \in 1..(i - 1) :
                      pdu.fields[j].header = pdu.fields[i].header

(* Seeded fault: a repeated header is taken as well. *)
WantedAgain(pdu, i) == /\ Listed(pdu, i, "any")
                       /\ ~Listed(pdu, i, "ignored")

Wanted(pdu, i) == /\ Listed(pdu, i, "any")
                  /\ ~Listed(pdu, i, "ignored")
                  /\ Listed(pdu, i, "multi") \/ ~Repeated(pdu, i)

(* The position of the first field that is wanted and cannot be converted,
   where the loop stops, or else behind the last *)
Stop(pdu) ==
  LET unread == {i \in DOMAIN pdu.fields : /\ Wanted(pdu, i)
                                           /\ ~pdu.fields[i].readable}
  IN  CHOOSE i \in unread \cup {Len(pdu.fields) + 1} :
        \A j \in unread : i <= j

(* The positions of header h that are marked.  Its pos is the last of them. *)
Marks(pdu, h) ==
  {i \in 1..(Stop(pdu) - 1) : /\ pdu.fields[i].header = h
                              /\ Wanted(pdu, i) \/ Listed(pdu, i, "ignored")}

(* The values taken of header h, in their order *)
Taken(pdu, h) ==
  LET wanted == {i \in Marks(pdu, h) : Wanted(pdu, i)}
      Nth(k) == CHOOSE i \in wanted :
                  Cardinality({j \in wanted : j <= i}) = k
  IN  [k \in 1..Cardinality(wanted) |-> pdu.fields[Nth(k)].value]

(* What mms_parse_headers demands after the loop: the mandatory headers, and
   those with a preset position at it *)
HeadersAccepted(pdu) ==
  LET table == Table[pdu.type]
      marks == [k \in DOMAIN table |-> Marks(pdu, table[k].header)]
      present == {k \in DOMAIN table : marks[k] # {}}
  IN  \A k \in DOMAIN table :
        /\ "mandatory" \in table[k].flags => k \in present
        /\ "preset" \in table[k].flags /\ k \in present =>
             /\ 1 + Cardinality({j \in present : j < k}) \in marks[k]
             /\ \A i \in marks[k] :
                  i <= 1 + Cardinality({j \in present : j < k})

(* The content type of a PDU comes after its headers.  One that could not be
   read is in the way of what follows. *)
Behind(pdu) ==
  IF Stop(pdu) < Len(pdu.fields)
     \/ (Stop(pdu) = Len(pdu.fields) /\ pdu.body # "none")
  THEN "unread" ELSE pdu.body

(* The bodies that are taken, by mms_message_decode for each type.  "single":
   a content type other than multipart; "broken": a multipart body that
   mms_parse_attachments fails on. *)
Bodies(type) == CASE type = "retrieve_conf" -> {"none", "single", "multipart"}
                  [] type = "send_req"      -> {"none", "multipart"}
                  [] OTHER -> {"none", "single", "multipart", "broken",
                               "unread"}

(* mms_message_decode *)
Decodes(pdu) == /\ pdu.type \in DOMAIN Table
                /\ HeadersAccepted(pdu)
                /\ Behind(pdu) \in Bodies(pdu.type)

-----------------------------------------------------------------------------
(* Encoding. *)

Field(h, v) == [header |-> h, readable |-> TRUE, value |-> v]

(* Seeded fault: the version comes first. *)
VersionFirst(tx) ==
  <<Field("VERSION", "1.2"), Field("TRANSACTION_ID", tx),
    Field("STATUS", "status")>>

(* mms_encode_notify_resp_ind, mms_task_notifyresp_encode *)
NotifyResp(tx) ==
  <<Field("TRANSACTION_ID", tx), Field("VERSION", "1.2"),
    Field("STATUS", "status")>>

(* mms_encode_acknowledge_ind, mms_task_ack_encode *)
Acknowledge(tx) ==
  <<Field("TRANSACTION_ID", tx), Field("VERSION", "1.2"),
    Field("REPORT_ALLOWED", "report")>>

(* A text that the buffer of 256 octets has no room for *)
LongText == "long"

(* fb_request: a field that does not fit the buffer cannot be encoded *)
Fits(fields) == \A k \in DOMAIN fields : fields[k].value # LongText
=============================================================================
