--------------------------- MODULE ReceiveProofs ---------------------------
(***************************************************************************)
(* Proofs about the reception of a message, for any PDUs, any number of    *)
(* parts however they are called, and any order of the tasks: a message is *)
(* made of what came first and whole, its parts are found in their files   *)
(* as long as anybody holds it, the answers can be decoded, and nothing is *)
(* left in the end.                                                        *)
(***************************************************************************)
EXTENDS Receive, FiniteSetTheorems, TLAPS

(***************************************************************************)
(* The invariant.                                                          *)
(***************************************************************************)

States == {"NONE", "READY", "TRANSMITTING", "PENDING", "DONE", "FREED"}
Tolds == {"nothing", "RECEIVING", "DECODING", "DEFERRED", "DOWNLOAD_ERROR",
          "DECODING_ERROR", "message"}

State(kind) == task[kind].state

(* A sequence of what it consists of *)
IsSeq(s) == s \in Seq({s[k] : k \in DOMAIN s})

(* A function of its domain *)
IsFile(f) == f = [x \in DOMAIN f |-> f[x]]

Typed ==
  /\ pdu \in Pdus \cup {NoPdu}
  /\ task \in [Kinds -> [state : States, tries : 0..MaxTries]]
  /\ told \in Tolds
  /\ cancelled \in BOOLEAN
  /\ dirs \subseteq {"msg", "parts"}
  /\ IsFile(files) /\ DOMAIN files \subseteq {"retrieve", "ack", "notifyresp"}
  /\ IsFile(partFiles)
  /\ dec = [part |-> dec.part, names |-> dec.names, ids |-> dec.ids]
  /\ dec.part \in Nat
  /\ IsFiniteSet(dec.names) /\ IsFiniteSet(dec.ids)
  /\ msg = [refs |-> msg.refs, parts |-> msg.parts]
  /\ msg.refs \in Nat /\ IsSeq(msg.parts)
  /\ call \in {"none", "pending", "cancelled"}

(* Each task comes after the one that queues it, and the call is the
   publication's. *)
Ordered ==
  /\ State("retrieve") \in {"READY", "TRANSMITTING", "DONE", "FREED"}
  /\ State("retrieve") \in {"READY", "TRANSMITTING"} => State("decode") = "NONE"
  /\ State("decode") \in {"NONE", "READY", "DONE", "FREED"}
  /\ State("decode") \in {"NONE", "READY"} =>
       /\ State("ack") = "NONE" /\ State("notifyresp") = "NONE"
       /\ State("publish") = "NONE"
  /\ \A kind \in {"ack", "notifyresp"} :
       State(kind) \in {"NONE", "READY", "DONE", "FREED"}
  /\ State("publish") \in {"NONE", "READY", "PENDING", "DONE", "FREED"}
  /\ call = "pending" <=> State("publish") = "PENDING"
  /\ call = "cancelled" => State("publish") \in {"DONE", "FREED"}

(* What is being decoded is a message. *)
Decoding ==
  /\ dec.part > 0 =>
       /\ State("decode") = "READY"
       /\ Decodes(pdu) /\ pdu.type = "retrieve_conf" /\ HasMessage
  /\ dec.part = 0 => dec.names = {} /\ dec.ids = {}

One(b) == IF b THEN 1 ELSE 0

(* Who has a reference to the message *)
Holders == One(dec.part > 0)
             + One(State("publish") \in {"READY", "PENDING", "DONE"})
             + One(call # "none")

Referenced == /\ msg.refs = Holders
              /\ msg.refs = 0 => msg = NoMessage

Entries == {msg.parts[k] : k \in DOMAIN msg.parts}

(* The names under which a message has its parts *)
Own == UNION {{p.file, p.orig} : p \in Entries}

(* Among files, a part is in its own, or what is left of it is behind. *)
Kept(f, p) ==
  /\ p.file # EmptyName
  /\ \/ /\ p.orig = EmptyName /\ p.file \notin DOMAIN f
        /\ \E x \in DOMAIN f : f[x] = Content(p.of, "stray")
     \/ /\ p.file \in DOMAIN f
        /\ f[p.file].part = p.of /\ f[p.file].form # "stray"
  /\ p.orig \in DOMAIN f => /\ f[p.orig] = Content(p.of, "raw")
                            /\ f[p.file] = Content(p.of, "decoded")

(* The parts are kept, and no other file is there but what was left behind. *)
Stored ==
  /\ \A p \in Entries : Kept(partFiles, p)
  /\ \A j, k \in DOMAIN msg.parts :
       j # k => msg.parts[j].id # msg.parts[k].id
  /\ \A x \in DOMAIN partFiles :
       x # EmptyName /\ (x \in Own \/ partFiles[x].form = "stray")

(* No file of a part is there before the decoding. *)
Undecoded ==
  State("decode") \in {"NONE", "READY"} /\ dec.part = 0 =>
    DOMAIN partFiles = {}

(* Names are remembered as long as others are being made. *)
Remembered ==
  dec.part > 0 =>
    /\ Own \subseteq dec.names \cup {EmptyName}
    /\ DOMAIN partFiles \subseteq dec.names
    /\ \A p \in Entries : p.id \in dec.ids

(* The answer that a task carries *)
AnswerPdu(kind) ==
  [NoPdu EXCEPT
     !.type = IF kind = "ack" THEN "acknowledge_ind" ELSE "notifyresp_ind",
     !.fields = IF kind = "ack" THEN Acknowledge(tx) ELSE NotifyResp(tx)]

Carried ==
  \A kind \in {"ack", "notifyresp"} :
    State(kind) = "READY" => /\ kind \in DOMAIN files
                             /\ files[kind] = AnswerPdu(kind)

(* Every file is the business of a task that is still there, but for that of
   an answer that could not be encoded. *)
Owned ==
  /\ "retrieve" \in DOMAIN files => State("retrieve") # "FREED"
  /\ \A kind \in {"ack", "notifyresp"} :
       kind \in DOMAIN files =>
         files[kind] = NoPdu \/ State(kind) \in {"READY", "DONE"}

Over == /\ \A k \in Kinds : State(k) \in {"NONE", "FREED"}
        /\ call = "none"

(* Whoever is the last removes the directories. *)
Cleared ==
  /\ "parts" \in dirs => msg.refs > 0 \/ partFiles # NoFiles
  /\ Over /\ files = NoFiles /\ partFiles = NoFiles => dirs = {}

(* The handler has heard of each thing that came to an end, or the next is on
   its way. *)
Settled == told \in {"message", "DOWNLOAD_ERROR", "DECODING_ERROR"}
Ended(kind) == State(kind) \in {"DONE", "FREED"}

Heard ==
  cancelled \/ Settled \/
    /\ Ended("retrieve") => State("decode") # "NONE"
    /\ Ended("decode") => State("publish") # "NONE"
    /\ Ended("publish") => task["publish"].tries = MaxTries

ReceiveInv == /\ Typed /\ Ordered /\ Decoding /\ Referenced /\ Stored
              /\ Undecoded /\ Remembered /\ Carried /\ Owned /\ Cleared /\ Heard

(* A set of naturals that is not empty has a least element. *)
LEMMA LeastOf ==
  ASSUME NEW T, T \subseteq Nat, T # {}
  PROVE  \E n \in T : \A m \in T : n <= m
<1> DEFINE R == {ss \in Nat \X Nat : ss[1] < ss[2]}
<1>1. IsWellFoundedOn(R, Nat)
  BY NatLessThanWellFounded DEF OpToRel
<1>2. \A m, n \in Nat : m < n => <<m, n>> \in R
  OBVIOUS
<1> HIDE DEF R
<1>3. \E n \in T : \A m \in T : <<m, n>> \notin R
  BY <1>1, WFMin
<1>4. PICK n \in T : \A m \in T : <<m, n>> \notin R
  BY <1>3
<1>5. \A m \in T : ~(m < n)
  BY <1>2, <1>4
<1>6. \A m \in T : n <= m
  BY <1>5
<1> QED
  BY <1>6

(***************************************************************************)
(* Names.                                                                  *)
(***************************************************************************)

LEMMA NameIsName ==
  ASSUME NEW under \in Nat, NEW base, NEW orig \in Nat
  PROVE  IsName(Name(under, base, orig))
  BY DEF IsName, Name

LEMMA EmptyIsName == IsName(EmptyName)
  BY NameIsName DEF EmptyName

(* Underscores in front of a name make another name. *)
LEMMA Underscored ==
  ASSUME NEW name, IsName(name), NEW n \in Nat
  PROVE  [name EXCEPT !.under = @ + n]
           = Name(name.under + n, name.base, name.orig)
  BY DEF IsName, Name

(* The loop ends, with a name that nothing else has: there are fewer names
   than numbers of underscores to try. *)
LEMMA FreshIsNew ==
  ASSUME NEW names, IsFiniteSet(names), NEW name, IsName(name)
  PROVE  /\ Fresh(names, name) \notin names
         /\ IsName(Fresh(names, name))
         /\ Fresh(names, name).orig = name.orig
<1> DEFINE Longer(n) == [name EXCEPT !.under = @ + n]
           tries == 0..Cardinality(names)
           free == {n \in tries : Longer(n) \notin names}
<1>1. Cardinality(names) \in Nat
  BY FS_CardinalityType
<1>2. \A n \in tries : Longer(n) = Name(name.under + n, name.base, name.orig)
  BY <1>1, Underscored
<1>3. free # {}
  <2> SUFFICES ASSUME \A n \in tries : Longer(n) \in names PROVE FALSE
    OBVIOUS
  <2> DEFINE taken == {Longer(n) : n \in tries}
             f == [n \in tries |-> Longer(n)]
  <2>1. IsFiniteSet(tries) /\ Cardinality(tries) = Cardinality(names) + 1
    BY <1>1, FS_Interval
  <2>2. f \in Injection(tries, names)
    <3>1. f \in [tries -> names]
      OBVIOUS
    <3>2. ASSUME NEW m \in tries, NEW n \in tries, f[m] = f[n]
          PROVE  m = n
      <4>1. Name(name.under + m, name.base, name.orig)
              = Name(name.under + n, name.base, name.orig)
        BY <1>2, <3>2
      <4>2. name.under + m = name.under + n
        BY <4>1 DEF Name
      <4> QED
        BY <4>2 DEF IsName
    <3> QED
      BY <3>1, <3>2 DEF Injection, IsInjective
  <2>3. Cardinality(tries) <= Cardinality(names)
    BY <2>1, <2>2, FS_Injection
  <2> QED
    BY <1>1, <2>1, <2>3
<1>4. \E n \in free : \A m \in free : n <= m
  <2>1. free \subseteq Nat
    BY <1>1
  <2>2. IsFiniteSet(free)
    <3>1. IsFiniteSet(tries)
      BY <1>1, FS_Interval
    <3> QED
      BY <3>1, FS_Subset
  <2> QED
    BY <1>3, <2>1, <2>2, LeastOf
<1>5. Fresh(names, name) = Longer(CHOOSE n \in free : \A m \in free : n <= m)
  BY DEF Fresh
<1>6. PICK n \in free : Fresh(names, name) = Longer(n)
  BY <1>4, <1>5
<1>7. Fresh(names, name) = Name(name.under + n, name.base, name.orig)
  BY <1>2, <1>6
<1> QED
  BY <1>1, <1>6, <1>7, NameIsName DEF IsName, Name

(***************************************************************************)
(* What the decoder takes.                                                 *)
(***************************************************************************)

(* Its fields are in a sequence. *)
IsPdu(p) == Len(p.fields) \in Nat /\ DOMAIN p.fields = 1..Len(p.fields)

(* The positions whose values are taken *)
Positions(p, h) == {i \in Marks(p, h) : Wanted(p, i)}

LEMMA StopIsFirst ==
  ASSUME NEW p, IsPdu(p)
  PROVE  /\ Stop(p) \in 1..(Len(p.fields) + 1)
         /\ Stop(p) \in DOMAIN p.fields =>
              Wanted(p, Stop(p)) /\ ~p.fields[Stop(p)].readable
<1> DEFINE unread == {i \in DOMAIN p.fields : /\ Wanted(p, i)
                                              /\ ~p.fields[i].readable}
           ends == unread \cup {Len(p.fields) + 1}
<1>1. /\ Len(p.fields) \in Nat
      /\ DOMAIN p.fields = 1..Len(p.fields)
  BY DEF IsPdu
<1>2. ends \subseteq Nat /\ unread \subseteq 1..Len(p.fields)
  BY <1>1
<1>3. \E i \in ends : \A j \in ends : i <= j
  BY <1>2, LeastOf
<1>4. Stop(p) = CHOOSE i \in ends : \A j \in unread : i <= j
  BY DEF Stop
<1>5. Stop(p) \in ends
  BY <1>3, <1>4
<1> QED
  BY <1>1, <1>5

(* No position before the end is read in vain. *)
LEMMA ReadableBefore ==
  ASSUME NEW p, IsPdu(p), NEW i \in DOMAIN p.fields, Wanted(p, i),
         ~p.fields[i].readable
  PROVE  Stop(p) <= i
<1> DEFINE unread == {j \in DOMAIN p.fields : /\ Wanted(p, j)
                                              /\ ~p.fields[j].readable}
           ends == unread \cup {Len(p.fields) + 1}
<1>1. /\ Len(p.fields) \in Nat
      /\ DOMAIN p.fields = 1..Len(p.fields)
  BY DEF IsPdu
<1>2. ends \subseteq Nat
  BY <1>1
<1>3. \E j \in ends : \A k \in ends : j <= k
  BY <1>2, LeastOf
<1>4. Stop(p) = CHOOSE j \in ends : \A k \in unread : j <= k
  BY DEF Stop
<1>5. \A k \in unread : Stop(p) <= k
  BY <1>3, <1>4
<1> QED
  BY <1>5

LEMMA MarksAre ==
  ASSUME NEW p, IsPdu(p), NEW h
  PROVE  /\ Marks(p, h) \subseteq {i \in DOMAIN p.fields :
                                     p.fields[i].header = h}
         /\ Marks(p, h) \subseteq 1..Len(p.fields)
<1>1. /\ Len(p.fields) \in Nat
      /\ DOMAIN p.fields = 1..Len(p.fields)
  BY DEF IsPdu
<1>2. Stop(p) \in 1..(Len(p.fields) + 1)
  BY StopIsFirst
<1> QED
  BY <1>1, <1>2 DEF Marks

LEMMA NothingTaken ==
  ASSUME NEW p, NEW h, Positions(p, h) = {}
  PROVE  Taken(p, h) = <<>>
<1> DEFINE Nth(k) == CHOOSE n \in Positions(p, h) :
                       Cardinality({j \in Positions(p, h) : j <= n}) = k
<1>1. Cardinality(Positions(p, h)) = 0
  BY FS_EmptySet
<1>2. Taken(p, h) = [k \in 1..Cardinality(Positions(p, h)) |->
                       p.fields[Nth(k)].value]
  BY DEF Taken, Positions
<1> HIDE DEF Nth
<1>3. Taken(p, h) = [k \in 1..0 |-> p.fields[Nth(k)].value]
  BY <1>1, <1>2
<1> QED
  BY <1>3

LEMMA OneTaken ==
  ASSUME NEW p, NEW h, NEW i \in Nat, Positions(p, h) = {i}
  PROVE  Taken(p, h) = <<p.fields[i].value>>
<1> DEFINE Nth(k) == CHOOSE n \in Positions(p, h) :
                       Cardinality({j \in Positions(p, h) : j <= n}) = k
<1>1. Cardinality(Positions(p, h)) = 1
  BY FS_Singleton
<1>2. {j \in Positions(p, h) : j <= i} = {i}
  OBVIOUS
<1>3. Cardinality({j \in Positions(p, h) : j <= i}) = 1
  BY <1>2, FS_Singleton
<1>4. Nth(1) = i
  BY <1>3
<1>5. Taken(p, h) = [k \in 1..Cardinality(Positions(p, h)) |->
                       p.fields[Nth(k)].value]
  BY DEF Taken, Positions
<1> HIDE DEF Nth
<1>6. Taken(p, h) = [k \in 1..1 |-> p.fields[Nth(k)].value]
  BY <1>1, <1>5
<1>7. \A k \in 1..1 : k = 1
  OBVIOUS
<1> QED
  BY <1>4, <1>6, <1>7

LEMMA AllTaken ==
  ASSUME NEW p, IsPdu(p), NEW h
  PROVE  Len(Taken(p, h)) = Cardinality(Positions(p, h))
<1> DEFINE Nth(k) == CHOOSE n \in Positions(p, h) :
                       Cardinality({j \in Positions(p, h) : j <= n}) = k
           n == Cardinality(Positions(p, h))
<1>1. Taken(p, h) = [k \in 1..n |-> p.fields[Nth(k)].value]
  BY DEF Taken, Positions
<1>2. n \in Nat
  <2>1. Positions(p, h) \subseteq 1..Len(p.fields)
    BY MarksAre DEF Positions
  <2>2. IsFiniteSet(1..Len(p.fields))
    BY FS_Interval DEF IsPdu
  <2> QED
    BY <2>1, <2>2, FS_Subset, FS_CardinalityType
<1> HIDE DEF n, Nth
<1> QED
  BY <1>1, <1>2 DEF n

(* The table of the message's headers, of which three matter below. *)
LEMMA ConfTable ==
  /\ Table["retrieve_conf"] = RetrieveConf
  /\ DOMAIN RetrieveConf = 1..12
  /\ \A k \in 1..12 : "ignored" \notin RetrieveConf[k].flags
  /\ RetrieveConf[1].header = "TRANSACTION_ID"
  /\ RetrieveConf[2].header = "VERSION" /\ RetrieveConf[2].flags = First
  /\ RetrieveConf[10].header = "DATE"
  /\ RetrieveConf[1].flags = {"preset"}
  /\ RetrieveConf[10].flags = {"mandatory"}
<1>1. Table["retrieve_conf"] = RetrieveConf
  BY DEF Table
<1> QED
  BY <1>1 DEF RetrieveConf, Header, First

LEMMA ConfFlags ==
  /\ Flags(RetrieveConf, "MESSAGE_ID") = {}
  /\ Flags(RetrieveConf, "RETRIEVE_STATUS") = {}
  /\ Flags(RetrieveConf, "TO") = {"multi"}
  /\ {"MESSAGE_ID", "RETRIEVE_STATUS", "TO"} \subseteq Headers(RetrieveConf)
<1>1. DOMAIN RetrieveConf = 1..12
  BY ConfTable
<1>2. \A k \in 1..12 : /\ RetrieveConf[k].header = "MESSAGE_ID" <=> k = 9
                       /\ RetrieveConf[k].header = "RETRIEVE_STATUS" <=> k = 12
                       /\ RetrieveConf[k].header = "TO" <=> k = 4
  BY DEF RetrieveConf, Header
<1>3. /\ RetrieveConf[9].flags = {} /\ RetrieveConf[12].flags = {}
      /\ RetrieveConf[4].flags = {"multi"}
  BY DEF RetrieveConf, Header
<1>4. /\ (CHOOSE k \in 1..12 : RetrieveConf[k].header = "MESSAGE_ID") = 9
      /\ (CHOOSE k \in 1..12 : RetrieveConf[k].header = "RETRIEVE_STATUS") = 12
      /\ (CHOOSE k \in 1..12 : RetrieveConf[k].header = "TO") = 4
  BY <1>2
<1>5. {"MESSAGE_ID", "RETRIEVE_STATUS", "TO"} \subseteq Headers(RetrieveConf)
  <2>1. /\ RetrieveConf[9].header = "MESSAGE_ID"
        /\ RetrieveConf[12].header = "RETRIEVE_STATUS"
        /\ RetrieveConf[4].header = "TO"
    BY <1>2
  <2> QED
    BY <1>1, <2>1 DEF Headers
<1> QED
  BY <1>1, <1>3, <1>4, <1>5 DEF Flags

(* Of a header that may be there once the first counts. *)
LEMMA SingleWanted ==
  ASSUME NEW p, p.type = "retrieve_conf",
         NEW i \in DOMAIN p.fields,
         p.fields[i].header \in {"MESSAGE_ID", "RETRIEVE_STATUS"}
  PROVE  Wanted(p, i) <=> ~Repeated(p, i)
  BY ConfTable, ConfFlags DEF Wanted, Listed

LEMMA RecipientWanted ==
  ASSUME NEW p, p.type = "retrieve_conf",
         NEW i \in DOMAIN p.fields, p.fields[i].header = "TO"
  PROVE  Wanted(p, i)
  BY ConfTable, ConfFlags DEF Wanted, Listed

(* A message that is accepted was read to its last field, and with a body to
   the end. *)
LEMMA ReadToTheEnd ==
  ASSUME NEW p, IsPdu(p), p.type = "retrieve_conf", Decodes(p)
  PROVE  /\ Stop(p) >= Len(p.fields)
         /\ p.body # "none" => Stop(p) = Len(p.fields) + 1
<1>1. Behind(p) # "unread"
  BY DEF Decodes, Bodies
<1>2. Stop(p) \in 1..(Len(p.fields) + 1) /\ Len(p.fields) \in Nat
  BY StopIsFirst DEF IsPdu
<1> QED
  BY <1>1, <1>2 DEF Behind

(* The header that is demanded at the front is there. *)
LEMMA FrontHeaders ==
  ASSUME NEW p, IsPdu(p), p.type = "retrieve_conf", Decodes(p)
  PROVE  /\ Marks(p, "VERSION") # {} /\ Marks(p, "DATE") # {}
         /\ p.fields[1].header \in {"TRANSACTION_ID", "VERSION"}
<1> DEFINE table == Table[p.type]
           marks == [k \in DOMAIN table |-> Marks(p, table[k].header)]
           present == {k \in DOMAIN table : marks[k] # {}}
           place(k) == 1 + Cardinality({j \in present : j < k})
<1>1. \A k \in DOMAIN table :
        /\ "mandatory" \in table[k].flags => k \in present
        /\ "preset" \in table[k].flags /\ k \in present => place(k) \in marks[k]
  BY DEF Decodes, HeadersAccepted
<1>2. table = RetrieveConf /\ DOMAIN table = 1..12
  BY ConfTable
<1>3. 2 \in present /\ 10 \in present
  BY <1>1, <1>2, ConfTable DEF First
<1>4. Marks(p, "VERSION") # {} /\ Marks(p, "DATE") # {}
  BY <1>2, <1>3, ConfTable
<1>5. CASE 1 \in present
  <2>1. {j \in present : j < 1} = {}
    BY <1>2
  <2>2. place(1) = 1
    BY <2>1, FS_EmptySet
  <2>3. 1 \in Marks(p, "TRANSACTION_ID")
    BY <1>1, <1>2, <1>5, <2>2, ConfTable
  <2> QED
    BY <1>4, <2>3, MarksAre
<1>6. CASE 1 \notin present
  <2>1. {j \in present : j < 2} = {}
    <3>1. present \subseteq 1..12
      BY <1>2
    <3> HIDE DEF present
    <3> SUFFICES ASSUME NEW j \in present, j < 2 PROVE FALSE
      OBVIOUS
    <3>2. j = 1
      BY <3>1
    <3> QED
      BY <1>6, <3>2
  <2>2. place(2) = 1
    BY <2>1, FS_EmptySet
  <2>3. 1 \in Marks(p, "VERSION")
    BY <1>1, <1>2, <1>3, <2>2, ConfTable DEF First
  <2> QED
    BY <1>4, <2>3, MarksAre
<1> QED
  BY <1>5, <1>6

(* The values of a header of which the first field counts. *)
LEMMA FirstTaken ==
  ASSUME NEW p, IsPdu(p), p.type = "retrieve_conf", Decodes(p),
         NEW h \in {"MESSAGE_ID", "RETRIEVE_STATUS"},
         NEW i \in DOMAIN p.fields, p.fields[i].header = h,
         \A j \in DOMAIN p.fields : p.fields[j].header = h => i <= j
  PROVE  \/ Taken(p, h) = <<p.fields[i].value>>
         \/ /\ Taken(p, h) = <<>>
            /\ ~p.fields[i].readable /\ i = Len(p.fields) /\ p.body = "none"
<1>1. /\ Len(p.fields) \in Nat /\ DOMAIN p.fields = 1..Len(p.fields)
      /\ i \in Nat
  BY DEF IsPdu
<1>2. \A j \in DOMAIN p.fields :
        p.fields[j].header = h => (Repeated(p, j) <=> j # i)
  <2> SUFFICES ASSUME NEW j \in DOMAIN p.fields, p.fields[j].header = h
               PROVE  Repeated(p, j) <=> j # i
    OBVIOUS
  <2>1. i <= j
    OBVIOUS
  <2>2. ASSUME j # i PROVE Repeated(p, j)
    <3>1. i \in 1..(j - 1)
      BY <1>1, <2>1, <2>2
    <3> QED
      BY <3>1 DEF Repeated
  <2>3. ASSUME Repeated(p, j), j = i PROVE FALSE
    <3>1. PICK k \in 1..(i - 1) : p.fields[k].header = h
      BY <2>3 DEF Repeated
    <3>2. k \in DOMAIN p.fields /\ k < i
      BY <1>1, <3>1
    <3> QED
      BY <1>1, <3>1, <3>2
  <2> QED
    BY <2>2, <2>3
<1>3. \A j \in DOMAIN p.fields :
        p.fields[j].header = h => (Wanted(p, j) <=> j = i)
  BY <1>2, SingleWanted
<1>4. Stop(p) \in 1..(Len(p.fields) + 1) /\ Stop(p) >= Len(p.fields)
  BY StopIsFirst, ReadToTheEnd
<1>5. CASE i < Stop(p)
  <2>1. i \in Marks(p, h)
    BY <1>1, <1>3, <1>4, <1>5 DEF Marks
  <2>2. Positions(p, h) = {i}
    BY <1>3, <2>1, MarksAre DEF Positions
  <2> QED
    BY <1>1, <2>2, OneTaken
<1>6. CASE ~(i < Stop(p))
  <2>1. i = Len(p.fields) /\ Stop(p) = i
    BY <1>1, <1>4, <1>6
  <2>2. ~p.fields[i].readable
    BY <2>1, StopIsFirst
  <2>3. p.body = "none"
    BY <1>1, <2>1, ReadToTheEnd
  <2>4. i \notin Marks(p, h)
    BY <1>1, <2>1 DEF Marks
  <2>5. Positions(p, h) = {}
    BY <1>3, <2>4, MarksAre DEF Positions
  <2> QED
    BY <2>1, <2>2, <2>3, <2>5, NothingTaken
<1> QED
  BY <1>5, <1>6

(* All recipients are taken of a message with a body. *)
LEMMA RecipientsTaken ==
  ASSUME NEW p, IsPdu(p), p.type = "retrieve_conf", Decodes(p),
         p.body # "none"
  PROVE  Positions(p, "TO")
           = {i \in DOMAIN p.fields : p.fields[i].header = "TO"}
<1>1. /\ Len(p.fields) \in Nat /\ DOMAIN p.fields = 1..Len(p.fields)
  BY DEF IsPdu
<1>2. Stop(p) = Len(p.fields) + 1
  BY ReadToTheEnd
<1>3. 1..(Stop(p) - 1) = DOMAIN p.fields
  BY <1>1, <1>2
<1> QED
  BY <1>3, RecipientWanted DEF Positions, Marks

LEMMA PdusTyped ==
  ASSUME NEW p \in Pdus \cup {NoPdu}
  PROVE  IsPdu(p)
<1>1. CASE p \in Pdus
  BY <1>1, ReceiveAssumption DEF ReceiveAssumption, IsPdu
<1>2. CASE p = NoPdu
  <2>1. p.fields = <<>>
    BY <1>2 DEF NoPdu
  <2> QED
    BY <2>1 DEF IsPdu
<1> QED
  BY <1>1, <1>2

(* A message that the decoder makes is whole. *)
LEMMA MadeWhole ==
  ASSUME pdu \in Pdus \cup {NoPdu}, Decodes(pdu), pdu.type = "retrieve_conf",
         HasMessage
  PROVE  MessageIsWhole
<1>1. IsPdu(pdu)
  BY PdusTyped
<1>2. Len(pdu.fields) \in Nat /\ DOMAIN pdu.fields = 1..Len(pdu.fields)
  BY <1>1 DEF IsPdu
<1>3. ASSUME NEW h, Given(h) # {}
      PROVE  /\ Earliest(h) \in DOMAIN pdu.fields
             /\ pdu.fields[Earliest(h)].header = h
             /\ \A j \in DOMAIN pdu.fields :
                  pdu.fields[j].header = h => Earliest(h) <= j
  <2>1. Given(h) \subseteq Nat
    BY <1>2 DEF Given
  <2>2. \E i \in Given(h) : \A j \in Given(h) : i <= j
    BY <1>3, <2>1, LeastOf
  <2>3. /\ Earliest(h) \in Given(h)
        /\ \A j \in Given(h) : Earliest(h) <= j
    BY <2>2 DEF Earliest
  <2> QED
    BY <2>3 DEF Given
<1>4. Given("VERSION") # {} /\ Given("DATE") # {}
  BY <1>1, FrontHeaders, MarksAre DEF Given
<1>5. /\ Given("MESSAGE_ID") # {}
      /\ Taken(pdu, "MESSAGE_ID")
           = <<pdu.fields[Earliest("MESSAGE_ID")].value>>
  <2>1. Taken(pdu, "MESSAGE_ID") # <<>>
    BY DEF HasMessage
  <2>2. Given("MESSAGE_ID") # {}
    <3>1. Positions(pdu, "MESSAGE_ID") # {}
      BY <2>1, NothingTaken
    <3> QED
      BY <1>1, <3>1, MarksAre DEF Given, Positions
  <2> QED
    BY <1>1, <1>3, <2>1, <2>2, FirstTaken
<1>6. ASSUME Given("RETRIEVE_STATUS") # {}
      PROVE  LET i == Earliest("RETRIEVE_STATUS")
             IN  \/ Taken(pdu, "RETRIEVE_STATUS") = <<pdu.fields[i].value>>
                 \/ ~pdu.fields[i].readable /\ i = Len(pdu.fields)
                    /\ pdu.body = "none"
  BY <1>1, <1>3, <1>6, FirstTaken
<1>7. pdu.body # "none" => Len(Taken(pdu, "TO")) = Cardinality(Given("TO"))
  <2> SUFFICES ASSUME pdu.body # "none"
               PROVE  Len(Taken(pdu, "TO")) = Cardinality(Given("TO"))
    OBVIOUS
  <2>1. Positions(pdu, "TO") = Given("TO")
    BY <1>1, RecipientsTaken DEF Given
  <2>2. Len(Taken(pdu, "TO")) = Cardinality(Positions(pdu, "TO"))
    BY <1>1, AllTaken
  <2> QED
    BY <2>1, <2>2
<1>8. pdu.fields[1].header \in {"TRANSACTION_ID", "VERSION"}
  BY <1>1, FrontHeaders
<1> QED
  BY <1>4, <1>5, <1>6, <1>7, <1>8 DEF MessageIsWhole

(***************************************************************************)
(* The answers to the MMSC.                                                *)
(***************************************************************************)

(* The three headers of a table, in their order *)
InOrder(p, table) ==
  /\ p.type \in {"acknowledge_ind", "notifyresp_ind"}
  /\ DOMAIN table = 1..3
  /\ IsPdu(p) /\ Len(p.fields) = 3 /\ p.body = "none"
  /\ \A k \in 1..3 : /\ p.fields[k].header = table[k].header
                     /\ p.fields[k].readable
                     /\ "ignored" \notin table[k].flags
  /\ \A j, k \in 1..3 : table[j].header = table[k].header => j = k
  /\ "preset" \notin table[3].flags

(* A PDU that has the headers of its table in their order is accepted. *)
LEMMA InOrderDecodes ==
  ASSUME NEW p, InOrder(p, Table[p.type])
  PROVE  /\ Decodes(p)
         /\ Taken(p, Table[p.type][1].header) = <<p.fields[1].value>>
<1> DEFINE table == Table[p.type]
<1> USE DEF InOrder
<1>1. DOMAIN p.fields = 1..3 /\ Len(p.fields) = 3
  BY DEF IsPdu
<1>2. Stop(p) = 4
  <2>1. Stop(p) \in 1..(Len(p.fields) + 1)
    BY StopIsFirst
  <2>2. Stop(p) \notin 1..3
    BY <1>1, StopIsFirst
  <2> HIDE DEF InOrder
  <2> QED
    BY <1>1, <2>1, <2>2
<1>3. ASSUME NEW k \in 1..3
      PROVE  Marks(p, table[k].header) = {k} /\ Wanted(p, k)
  <2>1. table[k].header \in Headers(table)
    BY DEF Headers
  <2>2. (CHOOSE j \in DOMAIN table : table[j].header = table[k].header) = k
    OBVIOUS
  <2>3. "ignored" \notin Flags(table, table[k].header)
    BY <2>2 DEF Flags
  <2>4. ~Repeated(p, k)
    <3> SUFFICES ASSUME NEW j \in 1..(k - 1),
                        p.fields[j].header = p.fields[k].header
                 PROVE  FALSE
      BY DEF Repeated
    <3>1. j \in 1..3 /\ j # k
      OBVIOUS
    <3> QED
      BY <3>1
  <2>5. Wanted(p, k)
    BY <2>1, <2>3, <2>4 DEF Wanted, Listed
  <2>6. 1..(Stop(p) - 1) = 1..3
    BY <1>2
  <2>7. k \in Marks(p, table[k].header)
    BY <2>5, <2>6 DEF Marks
  <2>8. ASSUME NEW i \in Marks(p, table[k].header) PROVE i = k
    <3>1. i \in 1..3 /\ p.fields[i].header = table[k].header
      BY <2>6 DEF Marks
    <3> QED
      BY <3>1
  <2> QED
    BY <2>5, <2>7, <2>8
<1>4. HeadersAccepted(p)
  <2> DEFINE marks == [k \in DOMAIN table |-> Marks(p, table[k].header)]
             present == {k \in DOMAIN table : marks[k] # {}}
             place(k) == 1 + Cardinality({j \in present : j < k})
  <2>1. \A k \in 1..3 : marks[k] = {k}
    BY <1>3
  <2>2. present = 1..3
    BY <2>1
  <2>3. place(1) = 1
    <3>1. {j \in present : j < 1} = {}
      BY <2>2
    <3>2. Cardinality({j \in present : j < 1}) = 0
      BY <3>1, FS_EmptySet
    <3> QED
      BY <3>2
  <2>4. place(2) = 2
    <3>1. {j \in present : j < 2} = {1}
      BY <2>2
    <3>2. Cardinality({j \in present : j < 2}) = 1
      BY <3>1, FS_Singleton
    <3> QED
      BY <3>2
  <2>5. \A k \in DOMAIN table :
          /\ "mandatory" \in table[k].flags => k \in present
          /\ "preset" \in table[k].flags /\ k \in present =>
               place(k) \in marks[k] /\ \A i \in marks[k] : i <= place(k)
    <3> SUFFICES ASSUME NEW k \in 1..3, "preset" \in table[k].flags
                 PROVE  place(k) \in marks[k] /\ \A i \in marks[k] : i <= place(k)
      <4> HIDE DEF place, marks, present
      <4> QED
        BY <2>2
    <3>1. k \in {1, 2}
      OBVIOUS
    <3>2. place(k) = k
      BY <2>3, <2>4, <3>1
    <3> HIDE DEF place, marks
    <3> QED
      BY <2>1, <3>2
  <2> QED
    BY <2>5 DEF HeadersAccepted
<1>5. Behind(p) = "none"
  BY <1>2 DEF Behind
<1>6. p.type \in DOMAIN Table
  BY DEF Table
<1>7. "none" \in Bodies(p.type)
  BY DEF Bodies
<1>8. Decodes(p)
  BY <1>4, <1>5, <1>6, <1>7 DEF Decodes
<1>9. Positions(p, table[1].header) = {1}
  BY <1>3 DEF Positions
<1> QED
  BY <1>8, <1>9, OneTaken

(* The answers are accepted by a decoder, and say which transaction they are
   about (mms_codec.c:2292-2317). *)
LEMMA AnswerDecodes ==
  ASSUME NEW kind \in {"ack", "notifyresp"}
  PROVE  /\ Decodes(AnswerPdu(kind))
         /\ Taken(AnswerPdu(kind), "TRANSACTION_ID") = <<tx>>
<1> DEFINE p == AnswerPdu(kind)
           table == Table[p.type]
<1>1. CASE kind = "ack"
  <2>1. /\ p.type = "acknowledge_ind" /\ p.body = "none"
        /\ p.fields = Acknowledge(tx)
    BY <1>1 DEF AnswerPdu, NoPdu
  <2>2. IsPdu(p) /\ Len(p.fields) = 3
    BY <2>1 DEF IsPdu, Acknowledge
  <2>3. table = AcknowledgeInd /\ DOMAIN table = 1..3
    BY <2>1 DEF Table, AcknowledgeInd
  <2>4. \A k \in 1..3 : /\ p.fields[k].header = table[k].header
                        /\ p.fields[k].readable
                        /\ "ignored" \notin table[k].flags
    BY <2>1, <2>3 DEF Acknowledge, AcknowledgeInd, Field, Header, First
  <2>5. /\ \A j, k \in 1..3 : table[j].header = table[k].header => j = k
        /\ "preset" \notin table[3].flags
        /\ table[1].header = "TRANSACTION_ID"
    BY <2>3 DEF AcknowledgeInd, Header, First
  <2>6. p.fields[1].value = tx
    BY <2>1 DEF Acknowledge, Field
  <2> HIDE DEF p, table
  <2>7. InOrder(p, table)
    BY <2>1, <2>2, <2>3, <2>4, <2>5 DEF InOrder
  <2>8. Decodes(p) /\ Taken(p, table[1].header) = <<p.fields[1].value>>
    BY <2>7, InOrderDecodes DEF table
  <2> QED
    BY <2>5, <2>6, <2>8 DEF p
<1>2. CASE kind = "notifyresp"
  <2>1. /\ p.type = "notifyresp_ind" /\ p.body = "none"
        /\ p.fields = NotifyResp(tx)
    BY <1>2 DEF AnswerPdu, NoPdu
  <2>2. IsPdu(p) /\ Len(p.fields) = 3
    BY <2>1 DEF IsPdu, NotifyResp
  <2>3. table = NotifyRespInd /\ DOMAIN table = 1..3
    BY <2>1 DEF Table, NotifyRespInd
  <2>4. \A k \in 1..3 : /\ p.fields[k].header = table[k].header
                        /\ p.fields[k].readable
                        /\ "ignored" \notin table[k].flags
    BY <2>1, <2>3 DEF NotifyResp, NotifyRespInd, Field, Header, First
  <2>5. /\ \A j, k \in 1..3 : table[j].header = table[k].header => j = k
        /\ "preset" \notin table[3].flags
        /\ table[1].header = "TRANSACTION_ID"
    BY <2>3 DEF NotifyRespInd, Header, First
  <2>6. p.fields[1].value = tx
    BY <2>1 DEF NotifyResp, Field
  <2> HIDE DEF p, table
  <2>7. InOrder(p, table)
    BY <2>1, <2>2, <2>3, <2>4, <2>5 DEF InOrder
  <2>8. Decodes(p) /\ Taken(p, table[1].header) = <<p.fields[1].value>>
    BY <2>7, InOrderDecodes DEF table
  <2> QED
    BY <2>5, <2>6, <2>8 DEF p
<1> QED
  BY <1>1, <1>2

(***************************************************************************)
(* Files, sequences and tasks.                                             *)
(***************************************************************************)

LEMMA WithIs ==
  ASSUME NEW f, NEW name, NEW data
  PROVE  /\ IsFile(With(f, name, data))
         /\ DOMAIN With(f, name, data) = DOMAIN f \cup {name}
         /\ With(f, name, data)[name] = data
         /\ \A x \in DOMAIN f : x # name => With(f, name, data)[x] = f[x]
  BY DEF With, IsFile

LEMMA WithoutIs ==
  ASSUME NEW f, NEW name
  PROVE  /\ IsFile(Without(f, name))
         /\ DOMAIN Without(f, name) = DOMAIN f \ {name}
         /\ \A x \in DOMAIN f \ {name} : Without(f, name)[x] = f[x]
  BY DEF Without, IsFile

LEMMA NoFilesAre ==
  ASSUME NEW f, IsFile(f)
  PROVE  f = NoFiles <=> DOMAIN f = {}
<1>1. DOMAIN NoFiles = {}
  BY DEF NoFiles
<1>2. ASSUME DOMAIN f = {} PROVE f = NoFiles
  <2>1. f = [x \in {} |-> f[x]]
    BY <1>2 DEF IsFile
  <2> QED
    BY <2>1 DEF NoFiles
<1> QED
  BY <1>1, <1>2

LEMMA AppendIs ==
  ASSUME NEW s, IsSeq(s), NEW e
  PROVE  /\ IsSeq(Append(s, e))
         /\ DOMAIN s = 1..Len(s) /\ Len(s) \in Nat
         /\ DOMAIN Append(s, e) = 1..(Len(s) + 1)
         /\ \A k \in DOMAIN s : Append(s, e)[k] = s[k]
         /\ Append(s, e)[Len(s) + 1] = e
<1> DEFINE S == {s[k] : k \in DOMAIN s}
           t == Append(s, e)
           T == {t[k] : k \in DOMAIN t}
<1>1. s \in Seq(S)
  BY DEF IsSeq
<1> HIDE DEF S
<1>2. DOMAIN s = 1..Len(s) /\ Len(s) \in Nat
  BY <1>1
<1>3. s \in Seq(S \cup {e})
  BY <1>1
<1>4. /\ t \in Seq(S \cup {e})
      /\ DOMAIN t = 1..(Len(s) + 1) /\ Len(t) = Len(s) + 1
      /\ \A k \in DOMAIN s : t[k] = s[k]
      /\ t[Len(s) + 1] = e
  BY <1>2, <1>3
<1> HIDE DEF t
<1>5. t = [k \in 1..Len(t) |-> t[k]]
  BY <1>4
<1>6. t \in Seq(T)
  <2>1. \A k \in 1..Len(t) : t[k] \in T
    BY <1>4
  <2>2. Len(t) \in Nat
    BY <1>2, <1>4
  <2> HIDE DEF T
  <2> QED
    BY <1>5, <2>1, <2>2
<1>7. IsSeq(t)
  BY <1>6 DEF IsSeq
<1> QED
  BY <1>2, <1>4, <1>7 DEF t

LEMMA EmptyIsSeq == IsSeq(<<>>)
  BY DEF IsSeq

(* What becomes of the message when one lets go of it. *)
LEMMA UnrefDoes ==
  ASSUME Typed, Unref, msg.refs # 0
  PROVE  /\ msg' = [refs |-> msg'.refs, parts |-> msg'.parts]
         /\ msg'.refs = msg.refs - 1 /\ msg'.refs \in Nat
         /\ IsSeq(msg'.parts) /\ IsFile(partFiles')
         /\ dirs' \subseteq dirs
         /\ msg.refs = 1 =>
              /\ msg' = NoMessage
              /\ DOMAIN partFiles' = DOMAIN partFiles \ Own
              /\ \A x \in DOMAIN partFiles' : partFiles'[x] = partFiles[x]
              /\ dirs' = Emptied(IF partFiles' = NoFiles THEN dirs \ {"parts"}
                                 ELSE dirs, files)
         /\ msg.refs # 1 =>
              /\ msg'.parts = msg.parts /\ partFiles' = partFiles
              /\ dirs' = Emptied(dirs, files)
<1>1. CASE msg.refs = 1
  <2>1. Finalize
    BY <1>1 DEF Unref
  <2>2. msg' = NoMessage /\ msg'.refs = 0 /\ msg'.parts = <<>>
    BY <2>1 DEF Finalize, NoMessage
  <2>3. partFiles' = [x \in DOMAIN partFiles \ Own |-> partFiles[x]]
    BY <2>1 DEF Finalize, Own, Entries
  <2>4. dirs' = Emptied(IF partFiles' = NoFiles THEN dirs \ {"parts"}
                        ELSE dirs, files)
    BY <2>1 DEF Finalize
  <2>5. /\ IsFile(partFiles') /\ DOMAIN partFiles' = DOMAIN partFiles \ Own
        /\ \A x \in DOMAIN partFiles' : partFiles'[x] = partFiles[x]
    BY <2>3 DEF IsFile
  <2>6. dirs' \subseteq dirs
    BY <2>4 DEF Emptied
  <2>7. msg' = [refs |-> msg'.refs, parts |-> msg'.parts]
    BY <2>2 DEF NoMessage
  <2>8. IsSeq(msg'.parts)
    BY <2>2, EmptyIsSeq
  <2>9. msg'.refs = msg.refs - 1 /\ msg'.refs \in Nat
    BY <1>1, <2>2
  <2> QED
    BY <1>1, <2>2, <2>4, <2>5, <2>6, <2>7, <2>8, <2>9
<1>2. CASE msg.refs # 1
  <2>1. /\ msg' = [msg EXCEPT !.refs = @ - 1]
        /\ dirs' = Emptied(dirs, files) /\ partFiles' = partFiles
    BY <1>2 DEF Unref
  <2>2. msg = [refs |-> msg.refs, parts |-> msg.parts] /\ msg.refs \in Nat
    BY DEF Typed
  <2>3. /\ msg' = [refs |-> msg.refs - 1, parts |-> msg.parts]
        /\ msg.refs - 1 \in Nat
    BY <2>1, <2>2
  <2>4. dirs' \subseteq dirs
    BY <2>1 DEF Emptied
  <2>5. msg'.refs = msg.refs - 1 /\ msg'.parts = msg.parts
    BY <2>3
  <2>6. IsSeq(msg'.parts) /\ IsFile(partFiles')
    BY <2>1, <2>5 DEF Typed
  <2>7. msg' = [refs |-> msg'.refs, parts |-> msg'.parts]
    BY <2>3, <2>5
  <2> QED
    BY <1>2, <2>1, <2>3, <2>4, <2>5, <2>6, <2>7
<1> QED
  BY <1>1, <1>2

(* A publication that is not over has a reference, and so has its call. *)
LEMMA HoldersHold ==
  ASSUME Referenced
  PROVE  /\ State("publish") \in {"READY", "PENDING", "DONE"} => msg.refs > 0
         /\ call # "none" => msg.refs > 0
         /\ dec.part > 0 => msg.refs > 0
  BY DEF Referenced, Holders, One

LEMMA KindIs == Kinds = {"retrieve", "decode", "ack", "notifyresp", "publish"}
  BY DEF Kinds

(* A task that goes to another state *)
LEMMA ToIs ==
  ASSUME task \in [Kinds -> [state : States, tries : 0..MaxTries]],
         NEW kind \in Kinds, NEW s \in States
  PROVE  /\ To(kind, s) \in [Kinds -> [state : States, tries : 0..MaxTries]]
         /\ To(kind, s)[kind] = [state |-> s, tries |-> task[kind].tries]
         /\ \A k \in Kinds : k # kind => To(kind, s)[k] = task[k]
  BY DEF To

LEMMA InitTyped == Init => Typed
<1> SUFFICES ASSUME Init PROVE Typed
  OBVIOUS
<1>1. /\ pdu \in Pdus \cup {NoPdu} /\ told \in Tolds /\ cancelled \in BOOLEAN
      /\ dirs \subseteq {"msg", "parts"} /\ call \in {"none", "pending", "cancelled"}
  BY DEF Init, Tolds
<1>2. task \in [Kinds -> [state : States, tries : 0..MaxTries]]
  BY ReceiveAssumption DEF Init, States, ReceiveAssumption
<1>3. /\ IsFile(files) /\ DOMAIN files \subseteq {"retrieve", "ack", "notifyresp"}
      /\ IsFile(partFiles)
  BY DEF Init, NoFiles, IsFile
<1>4. /\ dec = [part |-> dec.part, names |-> dec.names, ids |-> dec.ids]
      /\ dec.part \in Nat /\ IsFiniteSet(dec.names) /\ IsFiniteSet(dec.ids)
  BY FS_EmptySet DEF Init
<1>5. /\ msg = [refs |-> msg.refs, parts |-> msg.parts]
      /\ msg.refs \in Nat /\ IsSeq(msg.parts)
  BY EmptyIsSeq DEF Init, NoMessage
<1> QED
  BY <1>1, <1>2, <1>3, <1>4, <1>5 DEF Typed

(* The answer of which a file may be made *)
LEMMA AnswersAre ==
  ASSUME NEW kind \in {"ack", "notifyresp"}, NEW answer \in Answer(kind)
  PROVE  answer = NoPdu \/ answer = AnswerPdu(kind)
  BY DEF Answer, AnswerPdu

(* What the tasks, the message and the files have as types, one at a time *)
TasksTyped == task \in [Kinds -> [state : States, tries : 0..MaxTries]]
FilesTyped == /\ dirs \subseteq {"msg", "parts"}
              /\ IsFile(files)
              /\ DOMAIN files \subseteq {"retrieve", "ack", "notifyresp"}
              /\ IsFile(partFiles)
DecTyped == /\ dec = [part |-> dec.part, names |-> dec.names, ids |-> dec.ids]
            /\ dec.part \in Nat
            /\ IsFiniteSet(dec.names) /\ IsFiniteSet(dec.ids)
MessageTyped == /\ msg = [refs |-> msg.refs, parts |-> msg.parts]
                /\ msg.refs \in Nat /\ IsSeq(msg.parts)
RestTyped == /\ pdu \in Pdus \cup {NoPdu}
             /\ told \in Tolds
             /\ cancelled \in BOOLEAN
             /\ call \in {"none", "pending", "cancelled"}

LEMMA TypedParts == Typed <=> /\ TasksTyped /\ FilesTyped /\ DecTyped
                              /\ MessageTyped /\ RestTyped
  BY DEF Typed, TasksTyped, FilesTyped, DecTyped, MessageTyped, RestTyped

(* The tasks of a step by which one of them gets on *)
LEMMA StepTasksTyped ==
  ASSUME TasksTyped, [Next]_vars
  PROVE  TasksTyped'
<1> USE DEF TasksTyped
<1>0. /\ MaxTries \in Nat
      /\ \A k \in Kinds : task[k].tries \in 0..MaxTries
  BY ReceiveAssumption DEF ReceiveAssumption
<1>1. CASE Start \/ Decoded \/ Decode
  BY <1>1 DEF Start, Decoded, Decode, Refused, To, Kinds, States
<1>2. CASE Retrieved
  BY <1>0, <1>2 DEF Retrieved, To, Kinds, States
<1>3. CASE DecodePart \/ UNCHANGED vars
  BY <1>3 DEF DecodePart, vars
<1>4. CASE \E kind \in {"ack", "notifyresp"} : Answered(kind)
  BY <1>4 DEF Answered, To, Kinds, States
<1>5. CASE Publish
  BY <1>0, <1>5 DEF Publish, To, Kinds, States
<1>6. CASE HandlerAnswers
  BY <1>0, <1>6 DEF HandlerAnswers, To, Kinds, States
<1>7. CASE \E kind \in Kinds : Free(kind)
  BY <1>7 DEF Free, To, States
<1>8. CASE Cancel
  BY <1>8 DEF Cancel, Kinds, States
<1> QED
  BY <1>1, <1>2, <1>3, <1>4, <1>5, <1>6, <1>7, <1>8 DEF Next

LEMMA FileMade ==
  ASSUME FilesTyped, NEW name \in {"retrieve", "ack", "notifyresp"}, NEW data
  PROVE  /\ IsFile(With(files, name, data))
         /\ DOMAIN With(files, name, data)
              \subseteq {"retrieve", "ack", "notifyresp"}
<1>1. /\ IsFile(With(files, name, data))
      /\ DOMAIN With(files, name, data) = DOMAIN files \cup {name}
  BY WithIs
<1> QED
  BY <1>1 DEF FilesTyped

LEMMA FileRemoved ==
  ASSUME FilesTyped, NEW name
  PROVE  /\ IsFile(Without(files, name))
         /\ DOMAIN Without(files, name)
              \subseteq {"retrieve", "ack", "notifyresp"}
  BY WithoutIs DEF FilesTyped

LEMMA StepFilesTyped ==
  ASSUME Typed, Referenced, [Next]_vars
  PROVE  FilesTyped'
<1>0. FilesTyped
  BY TypedParts
<1>00. /\ dirs \subseteq {"msg", "parts"} /\ IsFile(partFiles)
       /\ IsFile(files)
       /\ DOMAIN files \subseteq {"retrieve", "ack", "notifyresp"}
  BY <1>0 DEF FilesTyped
<1> USE DEF FilesTyped
<1>1. CASE Start
  <2>1. \/ files' = With(files, "retrieve", NoPdu)
        \/ files' = Without(files, "retrieve")
    BY <1>1 DEF Start
  <2>2. /\ IsFile(files')
        /\ DOMAIN files' \subseteq {"retrieve", "ack", "notifyresp"}
    <3> HIDE DEF FilesTyped
    <3> QED
      BY <1>0, <2>1, FileMade, FileRemoved
  <2>3. dirs' \subseteq {"msg", "parts"} /\ UNCHANGED partFiles
    BY <1>00, <1>1 DEF Start
  <2> QED
    BY <1>00, <2>2, <2>3
<1>2. CASE Retrieved
  <2>1. files' = With(files, "retrieve", pdu) \/ UNCHANGED files
    BY <1>2 DEF Retrieved
  <2>2. /\ IsFile(files')
        /\ DOMAIN files' \subseteq {"retrieve", "ack", "notifyresp"}
    <3> HIDE DEF FilesTyped
    <3> QED
      BY <1>0, <1>00, <2>1, FileMade
  <2>3. UNCHANGED <<dirs, partFiles>>
    BY <1>2 DEF Retrieved
  <2> QED
    BY <1>00, <2>2, <2>3
<1>3. CASE Decode
  <2>1. (\E data : files' = With(files, "notifyresp", data)) \/ UNCHANGED files
    BY <1>3 DEF Decode, Refused
  <2>2. /\ IsFile(files')
        /\ DOMAIN files' \subseteq {"retrieve", "ack", "notifyresp"}
    <3> HIDE DEF FilesTyped
    <3> QED
      BY <1>0, <1>00, <2>1, FileMade
  <2>3. dirs' \subseteq {"msg", "parts"} /\ UNCHANGED partFiles
    BY <1>00, <1>3 DEF Decode, Refused
  <2> QED
    BY <1>00, <2>2, <2>3
<1>4. CASE DecodePart
  <2>1. \/ UNCHANGED partFiles
        \/ \E f, name, data : partFiles' = With(f, name, data)
    BY <1>4 DEF DecodePart, Transferred
  <2>2. IsFile(partFiles')
    <3>1. ASSUME NEW f, NEW name, NEW data, partFiles' = With(f, name, data)
          PROVE  IsFile(partFiles')
      BY <3>1, WithIs
    <3> QED
      BY <1>00, <2>1, <3>1
  <2>3. UNCHANGED files /\ dirs' \subseteq {"msg", "parts"}
    BY <1>00, <1>4 DEF DecodePart
  <2> QED
    BY <1>00, <2>2, <2>3
<1>5. CASE Decoded
  <2>1. (\E data : files' = With(files, "ack", data)) \/ UNCHANGED files
    BY <1>5 DEF Decoded
  <2>2. /\ IsFile(files')
        /\ DOMAIN files' \subseteq {"retrieve", "ack", "notifyresp"}
    <3> HIDE DEF FilesTyped
    <3> QED
      BY <1>0, <1>00, <2>1, FileMade
  <2>3. dirs' \subseteq {"msg", "parts"} /\ UNCHANGED partFiles
    BY <1>00, <1>5 DEF Decoded
  <2> QED
    BY <1>00, <2>2, <2>3
<1>6. CASE \/ \E kind \in {"ack", "notifyresp"} : Answered(kind)
           \/ Publish \/ Cancel \/ UNCHANGED vars
  BY <1>00, <1>6 DEF Answered, Publish, Cancel, vars
<1>7. CASE HandlerAnswers
  <2>1. Unref /\ msg.refs # 0 /\ UNCHANGED files
    BY <1>7, HoldersHold DEF HandlerAnswers
  <2> QED
    BY <1>00, <2>1, UnrefDoes
<1>8. CASE \E kind \in Kinds : Free(kind)
  <2>1. PICK kind \in Kinds : Free(kind)
    BY <1>8
  <2>2. CASE kind = "publish"
    <3>1. Unref /\ msg.refs # 0 /\ UNCHANGED files
      BY <2>1, <2>2, HoldersHold DEF Free, State
    <3> QED
      BY <1>00, <3>1, UnrefDoes
  <2>3. CASE kind # "publish"
    <3>1. PICK name : RemoveFile(name)
      BY <2>1, <2>3 DEF Free
    <3>2. UNCHANGED partFiles /\ dirs' \subseteq dirs
      BY <2>1, <2>3, <3>1 DEF Free, RemoveFile, Emptied
    <3>3. /\ IsFile(files')
          /\ DOMAIN files' \subseteq {"retrieve", "ack", "notifyresp"}
      BY <1>0, <3>1, FileRemoved DEF RemoveFile
    <3> QED
      BY <1>00, <3>2, <3>3
  <2> QED
    BY <2>2, <2>3
<1> QED
  BY <1>1, <1>2, <1>3, <1>4, <1>5, <1>6, <1>7, <1>8 DEF Next

(***************************************************************************)
(* The ways in which the decoding goes on with a part: it is left out, it  *)
(* is stored as it is, or it is decoded.                                   *)
(***************************************************************************)
PartFile == Fresh(dec.names, Proposed(pdu.parts[dec.part], dec.part))
PartNames == dec.names \cup {PartFile}
PartOrig == Fresh(PartNames, [PartFile EXCEPT !.orig = @ + 1])
PartId == Fresh(dec.ids, IF pdu.parts[dec.part].id # EmptyName
                         THEN pdu.parts[dec.part].id
                         ELSE Name(0, <<"file", PartFile>>, 0))
Entry(name) == [of |-> dec.part, id |-> PartId, file |-> PartFile,
                orig |-> name]

PartSkipped ==
  /\ dec' = [part |-> dec.part + 1, names |-> PartNames, ids |-> dec.ids]
  /\ UNCHANGED <<partFiles, msg>>

PartStored(orig, f, names) ==
  /\ PartFile # EmptyName
  /\ dirs' = dirs \cup {"msg", "parts"}
  /\ partFiles' = f
  /\ msg' = [refs |-> msg.refs, parts |-> Append(msg.parts, Entry(orig))]
  /\ dec' = [part |-> dec.part + 1, names |-> names,
             ids |-> dec.ids \cup {PartId}]

PartDone ==
  \/ /\ PartSkipped
     /\ dirs' \in {dirs, dirs \cup {"msg"}, dirs \cup {"msg", "parts"}}
  \/ PartStored(EmptyName,
                With(partFiles, PartFile, Content(dec.part, "raw")),
                PartNames)
  \/ \E r \in Transferred(dec.part, PartFile, PartOrig) :
       PartStored(r[2], r[1], PartNames \cup {PartOrig})

LEMMA PartIsDone ==
  ASSUME MessageTyped, DecodePart
  PROVE  /\ PartDone
         /\ dec.part \in DOMAIN pdu.parts
         /\ UNCHANGED <<tx, pdu, task, told, cancelled, files, call>>
<1> DEFINE i == dec.part
           part == pdu.parts[i]
           Add(name) == msg' = [msg EXCEPT !.parts = Append(@, Entry(name))]
           Skip == /\ dec' = [part |-> i + 1, names |-> PartNames,
                              ids |-> dec.ids]
                   /\ dirs' \in {dirs, dirs \cup {"msg"},
                                 dirs \cup {"msg", "parts"}}
                   /\ UNCHANGED <<partFiles, msg>>
           Store == /\ partFiles' = With(partFiles, PartFile,
                                         Content(i, "raw"))
                    /\ Add(EmptyName)
                    /\ dec' = [part |-> i + 1, names |-> PartNames,
                               ids |-> dec.ids \cup {PartId}]
           Decoded1 == /\ \E r \in Transferred(i, PartFile, PartOrig) :
                            partFiles' = r[1] /\ Add(r[2])
                       /\ dec' = [part |-> i + 1,
                                  names |-> PartNames \cup {PartOrig},
                                  ids |-> dec.ids \cup {PartId}]
           Open == PartFile # EmptyName /\ dirs' = dirs \cup {"msg", "parts"}
<1>1. /\ Skip \/ (Open /\ Store) \/ (Open /\ Decoded1)
      /\ dec.part \in DOMAIN pdu.parts
      /\ UNCHANGED <<tx, pdu, task, told, cancelled, files, call>>
  BY DEF DecodePart, PartFile, PartNames, PartOrig, PartId, Entry
<1>2. ASSUME NEW e
      PROVE  [msg EXCEPT !.parts = Append(@, e)]
               = [refs |-> msg.refs, parts |-> Append(msg.parts, e)]
  BY DEF MessageTyped
<1>3. CASE Skip
  BY <1>1, <1>3 DEF PartDone, PartSkipped
<1>4. CASE Open /\ Store
  BY <1>1, <1>2, <1>4 DEF PartDone, PartStored
<1>5. CASE Open /\ Decoded1
  <2>1. PICK r \in Transferred(i, PartFile, PartOrig) :
          partFiles' = r[1] /\ Add(r[2])
    BY <1>5
  <2>2. msg' = [refs |-> msg.refs, parts |-> Append(msg.parts, Entry(r[2]))]
    BY <1>2, <2>1
  <2>3. PartStored(r[2], r[1], PartNames \cup {PartOrig})
    BY <1>5, <2>1, <2>2 DEF PartStored
  <2> QED
    BY <1>1, <2>3 DEF PartDone
<1> QED
  BY <1>1, <1>3, <1>4, <1>5

LEMMA StepDecTyped ==
  ASSUME DecTyped, MessageTyped, [Next]_vars
  PROVE  DecTyped'
<1> USE DEF DecTyped
<1>1. CASE Decode
  <2>1. dec' = [dec EXCEPT !.part = 1] \/ UNCHANGED dec
    BY <1>1 DEF Decode, Refused
  <2>2. dec' = [part |-> 1, names |-> dec.names, ids |-> dec.ids]
        \/ UNCHANGED dec
    BY <2>1
  <2> QED
    BY <2>2
<1>2. CASE DecodePart
  <2>1. PartDone
    BY <1>2, PartIsDone
  <2>2. \E n, d : dec' = [part |-> dec.part + 1, names |-> n, ids |-> d]
                  /\ n \in {PartNames, PartNames \cup {PartOrig}}
                  /\ d \in {dec.ids, dec.ids \cup {PartId}}
    BY <2>1 DEF PartDone, PartSkipped, PartStored
  <2>3. PICK n, d : dec' = [part |-> dec.part + 1, names |-> n, ids |-> d]
                  /\ n \in {PartNames, PartNames \cup {PartOrig}}
                  /\ d \in {dec.ids, dec.ids \cup {PartId}}
    BY <2>2
  <2>4. IsFiniteSet(PartNames)
    BY FS_AddElement DEF PartNames
  <2>5. /\ IsFiniteSet(PartNames \cup {PartOrig})
        /\ IsFiniteSet(dec.ids \cup {PartId})
    BY <2>4, FS_AddElement
  <2>6. IsFiniteSet(n) /\ IsFiniteSet(d)
    BY <2>3, <2>4, <2>5
  <2> QED
    BY <2>3, <2>6
<1>3. CASE Decoded
  BY <1>3, FS_EmptySet DEF Decoded
<1>4. CASE \/ Start \/ Retrieved \/ Publish \/ HandlerAnswers \/ Cancel
           \/ UNCHANGED vars
           \/ \E kind \in {"ack", "notifyresp"} : Answered(kind)
           \/ \E kind \in Kinds : Free(kind)
  BY <1>4 DEF Start, Retrieved, Publish, HandlerAnswers, Cancel, vars,
              Answered, Free
<1> QED
  BY <1>1, <1>2, <1>3, <1>4 DEF Next

LEMMA StepMessageTyped ==
  ASSUME Typed, Referenced, [Next]_vars
  PROVE  MessageTyped'
<1>0. MessageTyped
  BY TypedParts
<1> USE DEF MessageTyped
<1>1. CASE Decode
  <2>1. msg' = [NoMessage EXCEPT !.refs = 1] \/ UNCHANGED msg
    BY <1>1 DEF Decode, Refused
  <2>2. msg' = [refs |-> 1, parts |-> <<>>] \/ UNCHANGED msg
    BY <2>1 DEF NoMessage
  <2> QED
    BY <1>0, <2>2, EmptyIsSeq
<1>2. CASE DecodePart
  <2>1. \/ \E e : msg' = [msg EXCEPT !.parts = Append(msg.parts, e)]
        \/ UNCHANGED msg
    BY <1>2 DEF DecodePart
  <2>2. ASSUME NEW e, msg' = [msg EXCEPT !.parts = Append(msg.parts, e)]
        PROVE  MessageTyped'
    <3>1. msg' = [refs |-> msg.refs, parts |-> Append(msg.parts, e)]
      BY <1>0, <2>2
    <3>2. IsSeq(Append(msg.parts, e))
      BY <1>0, AppendIs
    <3>3. msg'.parts = Append(msg.parts, e) /\ msg'.refs = msg.refs
      BY <3>1
    <3> QED
      BY <1>0, <3>1, <3>2, <3>3
  <2> QED
    BY <1>0, <2>1, <2>2
<1>3. CASE Publish
  <2>1. msg' = [msg EXCEPT !.refs = @ + 1] \/ UNCHANGED msg
    BY <1>3 DEF Publish
  <2>2. msg' = [refs |-> msg.refs + 1, parts |-> msg.parts] \/ UNCHANGED msg
    BY <1>0, <2>1
  <2> QED
    BY <1>0, <2>2
<1>4. CASE HandlerAnswers
  BY <1>4, HoldersHold, UnrefDoes DEF HandlerAnswers
<1>5. CASE \E kind \in Kinds : Free(kind)
  <2>1. PICK kind \in Kinds : Free(kind)
    BY <1>5
  <2>2. CASE kind = "publish"
    <3>1. Unref /\ msg.refs # 0
      BY <2>1, <2>2, HoldersHold DEF Free, State
    <3> QED
      BY <3>1, UnrefDoes
  <2>3. CASE kind # "publish"
    BY <1>0, <2>1, <2>3 DEF Free
  <2> QED
    BY <2>2, <2>3
<1>6. CASE \/ Start \/ Retrieved \/ Decoded \/ Cancel \/ UNCHANGED vars
           \/ \E kind \in {"ack", "notifyresp"} : Answered(kind)
  BY <1>0, <1>6 DEF Start, Retrieved, Decoded, Cancel, vars, Answered
<1> QED
  BY <1>1, <1>2, <1>3, <1>4, <1>5, <1>6 DEF Next

LEMMA StepRestTyped ==
  ASSUME RestTyped, [Next]_vars
  PROVE  RestTyped'
<1> USE DEF RestTyped, Tolds
<1>1. CASE Start \/ Retrieved \/ DecodePart \/ Decoded
  BY <1>1 DEF Start, Retrieved, DecodePart, Decoded
<1>2. CASE Decode
  BY <1>2 DEF Decode, Refused
<1>3. CASE Publish \/ HandlerAnswers \/ Cancel \/ UNCHANGED vars
  BY <1>3 DEF Publish, HandlerAnswers, Cancel, vars
<1>4. CASE \/ \E kind \in {"ack", "notifyresp"} : Answered(kind)
           \/ \E kind \in Kinds : Free(kind)
  BY <1>4 DEF Answered, Free
<1> QED
  BY <1>1, <1>2, <1>3, <1>4 DEF Next

LEMMA StepTyped ==
  ASSUME Typed, Referenced, [Next]_vars
  PROVE  Typed'
<1>1. TasksTyped' /\ DecTyped' /\ RestTyped'
  BY TypedParts, StepTasksTyped, StepDecTyped, StepRestTyped
<1>2. FilesTyped' /\ MessageTyped'
  BY StepFilesTyped, StepMessageTyped
<1> QED
  BY <1>1, <1>2 DEF Typed, TasksTyped, FilesTyped, DecTyped, MessageTyped,
                    RestTyped

(***************************************************************************)
(* The order of the tasks, and who holds the message.                      *)
(***************************************************************************)

LEMMA PartsCounted ==
  ASSUME Typed
  PROVE  Len(pdu.parts) \in Nat /\ DOMAIN pdu.parts = 1..Len(pdu.parts)
<1>1. CASE pdu \in Pdus
  BY <1>1, ReceiveAssumption DEF ReceiveAssumption
<1>2. CASE pdu = NoPdu
  <2>1. pdu.parts = <<>>
    BY <1>2 DEF NoPdu
  <2> QED
    BY <2>1
<1> QED
  BY <1>1, <1>2 DEF Typed

LEMMA StepOrdered ==
  ASSUME Typed, Ordered, Decoding, [Next]_vars
  PROVE  Ordered'
<1>0. task \in [Kinds -> [state : States, tries : 0..MaxTries]]
  BY DEF Typed
<1> USE KindIs DEF Ordered, State
<1>1. CASE Start
  BY <1>0, <1>1 DEF Start, To
<1>2. CASE Retrieved
  BY <1>0, <1>2 DEF Retrieved, To
<1>3. CASE Decode
  BY <1>0, <1>3 DEF Decode, Refused, To
<1>4. CASE DecodePart \/ UNCHANGED vars
  BY <1>4 DEF DecodePart, vars
<1>5. CASE Decoded
  <2>1. task["decode"].state = "READY"
    BY <1>5, PartsCounted DEF Decoded, Decoding, Typed
  <2> QED
    BY <1>0, <1>5, <2>1 DEF Decoded, To
<1>6. CASE \E kind \in {"ack", "notifyresp"} : Answered(kind)
  BY <1>0, <1>6 DEF Answered, To
<1>7. CASE Publish
  BY <1>0, <1>7 DEF Publish, To
<1>8. CASE HandlerAnswers
  BY <1>0, <1>8 DEF HandlerAnswers, To
<1>9. CASE \E kind \in Kinds : Free(kind)
  BY <1>0, <1>9 DEF Free, To
<1>10. CASE Cancel
  BY <1>0, <1>10 DEF Cancel
<1> QED
  BY <1>1, <1>2, <1>3, <1>4, <1>5, <1>6, <1>7, <1>8, <1>9, <1>10 DEF Next

LEMMA StepDecoding ==
  ASSUME Typed, Ordered, Decoding, [Next]_vars
  PROVE  Decoding'
<1>0. task \in [Kinds -> [state : States, tries : 0..MaxTries]]
  BY DEF Typed
<1>00. dec.part \in Nat
  BY DEF Typed
<1> USE KindIs DEF Decoding, State
<1>1. CASE Decode
  <2>1. CASE Decodes(pdu) /\ pdu.type = "retrieve_conf" /\ HasMessage
             /\ dec' = [dec EXCEPT !.part = 1] /\ UNCHANGED <<pdu, task>>
    <3>1. dec'.part = 1
      BY <2>1 DEF Typed
    <3>2. task["decode"].state = "READY" /\ HasMessage' /\ Decodes(pdu')
      BY <1>1, <2>1 DEF Decode, HasMessage
    <3> QED
      BY <2>1, <3>1, <3>2
  <2>2. CASE UNCHANGED dec
    BY <1>1, <2>2 DEF Decode
  <2> QED
    BY <1>1, <2>1, <2>2 DEF Decode, Refused
<1>2. CASE DecodePart
  <2>1. dec'.part = dec.part + 1 /\ dec.part \in DOMAIN pdu.parts
    BY <1>2, PartIsDone, TypedParts DEF PartDone, PartSkipped, PartStored
  <2>2. dec.part > 0
    BY <2>1, PartsCounted
  <2>3. UNCHANGED <<pdu, task>>
    BY <1>2 DEF DecodePart
  <2>4. HasMessage' <=> HasMessage
    BY <2>3 DEF HasMessage
  <2> QED
    BY <1>00, <2>1, <2>2, <2>3, <2>4
<1>3. CASE Decoded
  BY <1>3 DEF Decoded
<1>4. CASE Start \/ Retrieved
  <2>1. task["decode"].state # "READY"
    BY <1>4 DEF Ordered, Start, Retrieved
  <2>2. UNCHANGED dec
    BY <1>4 DEF Start, Retrieved
  <2> QED
    BY <1>00, <2>1, <2>2
<1>5. CASE \/ Publish \/ HandlerAnswers \/ Cancel
           \/ \E kind \in {"ack", "notifyresp"} : Answered(kind)
           \/ \E kind \in Kinds : Free(kind)
  <2>1. dec.part = 0 /\ UNCHANGED dec
    BY <1>5 DEF Publish, HandlerAnswers, Cancel, Answered, Free, Idle
  <2> QED
    BY <2>1
<1>6. CASE UNCHANGED vars
  BY <1>6 DEF vars, HasMessage
<1> QED
  BY <1>1, <1>2, <1>3, <1>4, <1>5, <1>6 DEF Next

LEMMA StepReferenced ==
  ASSUME Typed, Ordered, Decoding, Referenced, [Next]_vars
  PROVE  Referenced'
<1>0. task \in [Kinds -> [state : States, tries : 0..MaxTries]]
  BY DEF Typed
<1>00. dec.part \in Nat /\ msg = [refs |-> msg.refs, parts |-> msg.parts]
       /\ msg.refs \in Nat
  BY DEF Typed
<1> USE KindIs DEF Referenced, Holders, One, State
<1>1. CASE Start \/ Retrieved
  <2>1. UNCHANGED <<dec, msg, call>> /\ task'["publish"] = task["publish"]
    BY <1>0, <1>1 DEF Start, Retrieved, To
  <2> QED
    BY <2>1
<1>2. CASE Decode
  <2>0. /\ task'["publish"] = task["publish"] /\ UNCHANGED call
        /\ task["publish"].state = "NONE"
    BY <1>0, <1>2 DEF Decode, Refused, To, Ordered
  <2>1. /\ task'["publish"] = task["publish"] /\ UNCHANGED call
        /\ task["publish"].state = "NONE" /\ call = "none"
    BY <2>0 DEF Ordered, Typed
  <2>2. CASE UNCHANGED <<dec, msg>>
    BY <2>1, <2>2
  <2>3. CASE /\ dec' = [dec EXCEPT !.part = 1]
             /\ msg' = [NoMessage EXCEPT !.refs = 1]
    <3>1. dec'.part = 1 /\ msg'.refs = 1
      BY <2>3 DEF Typed, NoMessage
    <3> QED
      BY <2>1, <3>1
  <2> QED
    BY <1>2, <2>2, <2>3 DEF Decode, Refused
<1>3. CASE DecodePart
  <2>1. dec'.part = dec.part + 1 /\ dec.part \in DOMAIN pdu.parts
        /\ msg'.refs = msg.refs
    BY <1>3, PartIsDone, TypedParts DEF PartDone, PartSkipped, PartStored
  <2>2. dec.part > 0
    BY <2>1, PartsCounted
  <2>3. UNCHANGED <<task, call>>
    BY <1>3 DEF DecodePart
  <2>4. dec'.part > 0
    BY <1>00, <2>1, <2>2
  <2>5. msg'.refs # 0
    BY <1>00, <2>1, <2>2
  <2> QED
    BY <2>1, <2>2, <2>3, <2>4, <2>5
<1>4. CASE Decoded
  <2>1. dec.part > 0 /\ dec'.part = 0
    BY <1>00, <1>4, PartsCounted DEF Decoded
  <2>2. task["publish"].state = "NONE" /\ task'["publish"].state = "READY"
    BY <1>0, <1>4, <2>1 DEF Decoded, Decoding, Ordered, To
  <2>3. UNCHANGED <<msg, call>>
    BY <1>4 DEF Decoded
  <2> QED
    BY <2>1, <2>2, <2>3
<1>5. CASE Publish
  <2>1. CASE /\ task' = To("publish", "PENDING")
             /\ msg' = [msg EXCEPT !.refs = @ + 1] /\ call' = "pending"
    <3>1. task["publish"].state = "READY" /\ task'["publish"].state = "PENDING"
      BY <1>0, <1>5, <2>1 DEF Publish, To
    <3>2. msg'.refs = msg.refs + 1
      BY <1>00, <2>1
    <3>3. call = "none"
      BY <3>1 DEF Ordered, Typed
    <3>4. UNCHANGED dec
      BY <1>5 DEF Publish
    <3> QED
      BY <1>00, <2>1, <3>1, <3>2, <3>3, <3>4
  <2>2. CASE UNCHANGED <<msg, call>>
    <3>1. /\ task["publish"].state = "READY"
          /\ task'["publish"].state \in {"READY", "DONE"}
      BY <1>0, <1>5, <2>2 DEF Publish, To, Ordered
    <3>2. UNCHANGED dec
      BY <1>5 DEF Publish
    <3> QED
      BY <2>2, <3>1, <3>2
  <2> QED
    BY <1>5, <2>1, <2>2 DEF Publish
<1>6. CASE HandlerAnswers
  <2>1. call # "none" /\ call' = "none" /\ UNCHANGED dec /\ Unref
    BY <1>6 DEF HandlerAnswers
  <2>2. msg.refs # 0
    BY <2>1, HoldersHold
  <2>3. task["publish"].state \in {"READY", "PENDING", "DONE"}
          <=> task'["publish"].state \in {"READY", "PENDING", "DONE"}
    BY <1>0, <1>6 DEF HandlerAnswers, Ordered, To
  <2>4. msg'.refs = msg.refs - 1 /\ (msg'.refs = 0 => msg' = NoMessage)
    BY <1>00, <2>1, <2>2, UnrefDoes
  <2> QED
    BY <1>00, <2>1, <2>3, <2>4
<1>7. CASE \E kind \in Kinds : Free(kind)
  <2>1. PICK kind \in Kinds : Free(kind)
    BY <1>7
  <2>2. CASE kind = "publish"
    <3>1. /\ task["publish"].state = "DONE" /\ task'["publish"].state = "FREED"
          /\ UNCHANGED <<dec, call>> /\ Unref
      BY <1>0, <2>1, <2>2 DEF Free, To
    <3>2. msg.refs # 0
      BY <3>1, HoldersHold
    <3>3. msg'.refs = msg.refs - 1 /\ (msg'.refs = 0 => msg' = NoMessage)
      BY <1>00, <3>1, <3>2, UnrefDoes
    <3> QED
      BY <1>00, <3>1, <3>3
  <2>3. CASE kind # "publish"
    <3>1. UNCHANGED <<dec, call, msg>> /\ task'["publish"] = task["publish"]
      BY <1>0, <2>1, <2>3 DEF Free, To
    <3> QED
      BY <3>1
  <2> QED
    BY <2>2, <2>3
<1>8. CASE Cancel
  <2>1. /\ UNCHANGED <<dec, msg>> /\ (call = "none" <=> call' = "none")
        /\ task["publish"].state \in {"READY", "PENDING", "DONE"}
          <=> task'["publish"].state \in {"READY", "PENDING", "DONE"}
    BY <1>0, <1>8 DEF Cancel, Ordered
  <2> QED
    BY <2>1
<1>9. CASE \/ UNCHANGED vars
           \/ \E kind \in {"ack", "notifyresp"} : Answered(kind)
  <2>1. UNCHANGED <<dec, call, msg>> /\ task'["publish"] = task["publish"]
    BY <1>0, <1>9 DEF Answered, To, vars
  <2> QED
    BY <2>1
<1> QED
  BY <1>1, <1>2, <1>3, <1>4, <1>5, <1>6, <1>7, <1>8, <1>9 DEF Next

(***************************************************************************)
(* The parts and their files.                                              *)
(***************************************************************************)

(* What a part is called is a name of that kind. *)
LEMMA ProposedIsName ==
  ASSUME Typed, dec.part \in DOMAIN pdu.parts
  PROVE  /\ IsName(Proposed(pdu.parts[dec.part], dec.part))
         /\ IsName(IF pdu.parts[dec.part].id # EmptyName
                   THEN pdu.parts[dec.part].id
                   ELSE Name(0, <<"file", PartFile>>, 0))
<1> DEFINE part == pdu.parts[dec.part]
<1>1. /\ IsName(part.id)
      /\ part.name.under \in Nat /\ part.name.orig \in Nat
  <2>1. CASE pdu \in Pdus
    BY <2>1, ReceiveAssumption DEF ReceiveAssumption
  <2>2. CASE pdu = NoPdu
    BY <2>2 DEF NoPdu
  <2> QED
    BY <2>1, <2>2 DEF Typed
<1>2. IsName(Name(0, <<"part", dec.part>>, 0))
  BY NameIsName
<1>3. IsName(Sanitized(part.name))
  BY <1>1, NameIsName DEF Sanitized
<1>4. IsName(Name(0, <<"file", PartFile>>, 0))
  BY NameIsName
<1> QED
  BY <1>1, <1>2, <1>3, <1>4 DEF Proposed

(* The names of a part are its own. *)
LEMMA NewNames ==
  ASSUME Typed, dec.part \in DOMAIN pdu.parts
  PROVE  /\ PartFile \notin dec.names
         /\ PartOrig \notin PartNames /\ PartOrig # PartFile
         /\ PartOrig # EmptyName
         /\ PartId \notin dec.ids
<1>1. PartFile \notin dec.names /\ IsName(PartFile)
  BY ProposedIsName, FreshIsNew DEF PartFile, Typed
<1>2. PartId \notin dec.ids
  BY ProposedIsName, FreshIsNew DEF PartId, Typed
<1> DEFINE name == [PartFile EXCEPT !.orig = @ + 1]
<1>3. name = Name(PartFile.under, PartFile.base, PartFile.orig + 1)
  BY <1>1 DEF IsName, Name
<1>4. IsName(name) /\ name.orig = PartFile.orig + 1
  BY <1>1, <1>3, NameIsName DEF IsName, Name
<1>5. IsFiniteSet(PartNames)
  BY FS_AddElement DEF PartNames, Typed
<1>6. PartOrig \notin PartNames /\ PartOrig.orig = PartFile.orig + 1
  BY <1>4, <1>5, FreshIsNew DEF PartOrig
<1>7. PartOrig # EmptyName
  BY <1>1, <1>6 DEF EmptyName, Name, IsName
<1> QED
  BY <1>1, <1>2, <1>6, <1>7 DEF PartNames

LEMMA EntriesGrow ==
  ASSUME IsSeq(msg.parts), NEW e, msg'.parts = Append(msg.parts, e)
  PROVE  /\ Entries' = Entries \cup {e}
         /\ DOMAIN msg'.parts = DOMAIN msg.parts \cup {Len(msg.parts) + 1}
         /\ \A k \in DOMAIN msg.parts : msg'.parts[k] = msg.parts[k]
         /\ msg'.parts[Len(msg.parts) + 1] = e
<1> DEFINE n == Len(msg.parts)
<1>1. /\ n \in Nat /\ DOMAIN msg.parts = 1..n
      /\ DOMAIN Append(msg.parts, e) = 1..(n + 1)
      /\ \A k \in DOMAIN msg.parts : Append(msg.parts, e)[k] = msg.parts[k]
      /\ Append(msg.parts, e)[n + 1] = e
  BY AppendIs
<1>2. 1..(n + 1) = (1..n) \cup {n + 1}
  BY <1>1
<1>3. /\ DOMAIN msg'.parts = DOMAIN msg.parts \cup {n + 1}
      /\ \A k \in DOMAIN msg.parts : msg'.parts[k] = msg.parts[k]
      /\ msg'.parts[n + 1] = e
  BY <1>1, <1>2
<1> HIDE DEF n
<1>4. Entries' = Entries \cup {e}
  BY <1>3 DEF Entries
<1> QED
  BY <1>3, <1>4 DEF n

(* What the files and the names are then *)
Adds(orig, f, names) ==
  /\ orig \in {EmptyName, PartOrig}
  /\ PartNames \subseteq names /\ orig \in names \cup {EmptyName}
  /\ \A x \in DOMAIN partFiles : x \in DOMAIN f /\ f[x] = partFiles[x]
  /\ \A x \in DOMAIN f \ DOMAIN partFiles :
       /\ x \in {PartFile, PartOrig} /\ x \in names /\ x # EmptyName
       /\ x \in {PartFile, orig} \/ f[x].form = "stray"
  /\ Kept(f, Entry(orig))

(* A part whose file is there is added, under names that nothing has. *)
LEMMA PartAdded ==
  ASSUME Typed, Stored, Remembered, dec.part \in DOMAIN pdu.parts,
         NEW orig, NEW f, NEW names,
         PartStored(orig, f, names), Adds(orig, f, names)
  PROVE  Stored' /\ Remembered'
<1> USE DEF Adds
<1> DEFINE e == Entry(orig)
<1>1. /\ PartFile # EmptyName /\ partFiles' = f
      /\ msg'.parts = Append(msg.parts, e)
      /\ dec'.part = dec.part + 1 /\ dec'.names = names
      /\ dec'.ids = dec.ids \cup {PartId}
  BY DEF PartStored
<1>2. /\ e.of = dec.part /\ e.id = PartId /\ e.file = PartFile /\ e.orig = orig
  BY DEF Entry
<1> HIDE DEF e
<1>3. /\ Entries' = Entries \cup {e}
      /\ DOMAIN msg'.parts = DOMAIN msg.parts \cup {Len(msg.parts) + 1}
      /\ \A k \in DOMAIN msg.parts : msg'.parts[k] = msg.parts[k]
      /\ msg'.parts[Len(msg.parts) + 1] = e
  BY <1>1, EntriesGrow DEF Typed
<1>4. dec.part > 0
  BY PartsCounted
<1>5. /\ Own \subseteq dec.names \cup {EmptyName}
      /\ DOMAIN partFiles \subseteq dec.names
      /\ \A p \in Entries : p.id \in dec.ids
      /\ \A x \in DOMAIN partFiles :
           x # EmptyName /\ (x \in Own \/ partFiles[x].form = "stray")
  BY <1>4 DEF Remembered, Stored
<1>6. /\ PartFile \notin dec.names /\ PartOrig \notin PartNames
      /\ PartOrig # PartFile /\ PartOrig # EmptyName /\ PartId \notin dec.ids
      /\ dec.names \subseteq PartNames /\ PartFile \in PartNames
  BY NewNames DEF PartNames
<1>7. Own' = Own \cup {PartFile, orig}
  BY <1>2, <1>3 DEF Own
<1>8. ASSUME NEW p \in Entries
      PROVE  Kept(f, p)
  <2>1. Kept(partFiles, p)
    BY DEF Stored
  <2>2. p.orig \in Own /\ p.file \in Own
    BY DEF Own
  <2>3. \A x \in Own : x \in DOMAIN f <=> x \in DOMAIN partFiles
    BY <1>5, <1>6
  <2>4. \A x \in DOMAIN partFiles : x \in DOMAIN f /\ f[x] = partFiles[x]
    OBVIOUS
  <2>5. p.orig = EmptyName => p.orig \notin DOMAIN partFiles
    BY <1>5
  <2>6. p.orig \in DOMAIN partFiles => p.file \in DOMAIN partFiles
    BY <2>1, <2>5 DEF Kept
  <2>7. /\ p.file # EmptyName
        /\ p.orig \in DOMAIN f => /\ f[p.orig] = Content(p.of, "raw")
                                  /\ f[p.file] = Content(p.of, "decoded")
    BY <2>1, <2>2, <2>3, <2>4, <2>6 DEF Kept
  <2>8. CASE p.file \in DOMAIN partFiles
    BY <2>1, <2>4, <2>7, <2>8 DEF Kept
  <2>9. CASE p.file \notin DOMAIN partFiles
    <3>1. p.orig = EmptyName
      BY <2>1, <2>9 DEF Kept
    <3>2. PICK x \in DOMAIN partFiles : partFiles[x] = Content(p.of, "stray")
      BY <2>1, <2>9 DEF Kept
    <3>3. x \in DOMAIN f /\ f[x] = Content(p.of, "stray")
      BY <2>4, <3>2
    <3>4. p.file \notin DOMAIN f
      BY <2>2, <2>3, <2>9
    <3> QED
      BY <2>7, <3>1, <3>3, <3>4 DEF Kept
  <2> QED
    BY <2>8, <2>9
<1>9. Kept(f, e)
  BY DEF e
<1>10. \A j, k \in DOMAIN msg'.parts :
         j # k => msg'.parts[j].id # msg'.parts[k].id
  <2>1. \A k \in DOMAIN msg.parts : msg'.parts[k].id \in dec.ids
    BY <1>3, <1>5 DEF Entries
  <2>2. \A j, k \in DOMAIN msg.parts :
          j # k => msg'.parts[j].id # msg'.parts[k].id
    BY <1>3 DEF Stored
  <2>3. msg'.parts[Len(msg.parts) + 1].id \notin dec.ids
    BY <1>2, <1>3, <1>6
  <2> QED
    BY <1>3, <2>1, <2>2, <2>3
<1>11. \A x \in DOMAIN f :
         x # EmptyName /\ (x \in Own' \/ f[x].form = "stray")
  <2> TAKE x \in DOMAIN f
  <2>1. CASE x \in DOMAIN partFiles
    BY <1>5, <1>7, <2>1
  <2>2. CASE x \notin DOMAIN partFiles
    BY <1>7, <2>2
  <2> QED
    BY <2>1, <2>2
<1>12. Stored'
  BY <1>1, <1>3, <1>8, <1>9, <1>10, <1>11 DEF Stored
<1>13. Own' \subseteq dec'.names \cup {EmptyName}
  BY <1>1, <1>5, <1>6, <1>7
<1>14. \A p \in Entries' : p.id \in dec'.ids
  BY <1>1, <1>2, <1>3, <1>5
<1>15. DOMAIN partFiles' \subseteq dec'.names
  BY <1>1, <1>5, <1>6
<1> QED
  BY <1>12, <1>13, <1>14, <1>15 DEF Remembered

LEMMA StepPartStored ==
  ASSUME Typed, Stored, Remembered, DecodePart
  PROVE  Stored' /\ Remembered'
<1> DEFINE raw == Content(dec.part, "raw")
           done == Content(dec.part, "decoded")
           stray == Content(dec.part, "stray")
           bare == With(partFiles, PartFile, raw)
           both == With(With(partFiles, PartFile, done), PartOrig, raw)
           left == With(partFiles, PartOrig, stray)
           names == PartNames \cup {PartOrig}
<1>1. PartDone /\ dec.part \in DOMAIN pdu.parts
  BY PartIsDone, TypedParts
<1>2. /\ DOMAIN partFiles \subseteq dec.names /\ EmptyName \notin DOMAIN partFiles
      /\ PartFile \notin DOMAIN partFiles /\ PartOrig \notin DOMAIN partFiles
      /\ PartOrig # PartFile /\ PartOrig # EmptyName /\ PartFile \in PartNames
  <2>1. dec.part > 0
    BY <1>1, PartsCounted
  <2>2. DOMAIN partFiles \subseteq dec.names /\ EmptyName \notin DOMAIN partFiles
    BY <2>1 DEF Stored, Remembered
  <2> QED
    BY <1>1, <2>2, NewNames DEF PartNames
<1>3. /\ raw = Content(dec.part, "raw") /\ raw.part = dec.part
      /\ done = Content(dec.part, "decoded") /\ done.part = dec.part
      /\ stray = Content(dec.part, "stray") /\ stray.form = "stray"
      /\ raw.form # "stray" /\ done.form # "stray"
  BY DEF Content
<1> HIDE DEF raw, done, stray
<1>4. /\ DOMAIN bare = DOMAIN partFiles \cup {PartFile} /\ bare[PartFile] = raw
      /\ \A x \in DOMAIN partFiles : bare[x] = partFiles[x]
  <2>1. \A x \in DOMAIN partFiles : x # PartFile => bare[x] = partFiles[x]
    BY DEF With
  <2>2. DOMAIN bare = DOMAIN partFiles \cup {PartFile} /\ bare[PartFile] = raw
    BY DEF With
  <2> HIDE DEF bare
  <2> QED
    BY <1>2, <2>1, <2>2
<1>5. /\ DOMAIN both = DOMAIN partFiles \cup {PartFile, PartOrig}
      /\ both[PartFile] = done /\ both[PartOrig] = raw
      /\ \A x \in DOMAIN partFiles : both[x] = partFiles[x]
  <2> DEFINE one == With(partFiles, PartFile, done)
  <2>1. /\ DOMAIN one = DOMAIN partFiles \cup {PartFile}
        /\ one[PartFile] = done
        /\ \A x \in DOMAIN partFiles : x # PartFile => one[x] = partFiles[x]
    BY DEF With
  <2>2. /\ DOMAIN both = DOMAIN one \cup {PartOrig} /\ both[PartOrig] = raw
        /\ \A x \in DOMAIN one : x # PartOrig => both[x] = one[x]
    BY DEF With
  <2> HIDE DEF one, both
  <2> QED
    BY <1>2, <2>1, <2>2
<1>6. /\ DOMAIN left = DOMAIN partFiles \cup {PartOrig} /\ left[PartOrig] = stray
      /\ \A x \in DOMAIN partFiles : left[x] = partFiles[x]
  <2>1. \A x \in DOMAIN partFiles : x # PartOrig => left[x] = partFiles[x]
    BY DEF With
  <2>2. DOMAIN left = DOMAIN partFiles \cup {PartOrig} /\ left[PartOrig] = stray
    BY DEF With
  <2> HIDE DEF left
  <2> QED
    BY <1>2, <2>1, <2>2
<1> HIDE DEF bare, both, left
<1>7. CASE PartSkipped
  <2>1. UNCHANGED <<partFiles, msg>> /\ dec'.names = PartNames
        /\ dec'.ids = dec.ids
    BY <1>7 DEF PartSkipped
  <2>2. Stored' /\ Own' = Own /\ Entries' = Entries
    BY <2>1 DEF Stored, Own, Entries
  <2>3. dec.part > 0
    BY <1>1, PartsCounted
  <2> QED
    BY <2>1, <2>2, <2>3 DEF Remembered, PartNames
<1>8. ASSUME NEW orig, NEW f, NEW ns,
             PartStored(orig, f, ns), PartFile # EmptyName => Adds(orig, f, ns)
      PROVE  Stored' /\ Remembered'
  <2>1. Adds(orig, f, ns)
    BY <1>8 DEF PartStored
  <2> QED
    BY <1>1, <1>8, <2>1, PartAdded
<1>9. \A orig : /\ Entry(orig).of = dec.part /\ Entry(orig).file = PartFile
                /\ Entry(orig).orig = orig
  BY DEF Entry
<1>10. ASSUME PartFile # EmptyName PROVE Adds(EmptyName, bare, PartNames)
  <2>1. Kept(bare, Entry(EmptyName))
    BY <1>2, <1>3, <1>4, <1>9, <1>10 DEF Kept
  <2> QED
    BY <1>2, <1>4, <1>10, <2>1 DEF Adds
<1>11. ASSUME PartFile # EmptyName PROVE Adds(EmptyName, bare, names)
  BY <1>10, <1>11 DEF Adds
<1>12. ASSUME PartFile # EmptyName PROVE Adds(PartOrig, bare, names)
  <2>1. Kept(bare, Entry(PartOrig))
    BY <1>2, <1>3, <1>4, <1>9, <1>12 DEF Kept
  <2> QED
    BY <1>2, <1>4, <1>12, <2>1 DEF Adds
<1>13. ASSUME PartFile # EmptyName PROVE Adds(PartOrig, both, names)
  <2>1. Kept(both, Entry(PartOrig))
    BY <1>2, <1>3, <1>5, <1>9, <1>13 DEF Kept
  <2> QED
    BY <1>2, <1>5, <1>13, <2>1 DEF Adds
<1>14. ASSUME PartFile # EmptyName PROVE Adds(EmptyName, left, names)
  <2>1. Kept(left, Entry(EmptyName))
    BY <1>2, <1>3, <1>6, <1>9, <1>14 DEF Kept
  <2> QED
    BY <1>2, <1>3, <1>6, <1>14, <2>1 DEF Adds
<1>15. \/ PartSkipped \/ PartStored(EmptyName, bare, PartNames)
       \/ PartStored(PartOrig, both, names)
       \/ PartStored(EmptyName, bare, names)
       \/ PartStored(EmptyName, left, names)
       \/ PartStored(PartOrig, bare, names)
  <2>1. Transferred(dec.part, PartFile, PartOrig)
          = {<<both, PartOrig>>, <<bare, EmptyName>>, <<left, EmptyName>>,
             <<bare, PartOrig>>}
    BY DEF Transferred, bare, both, left, raw, done, stray
  <2>2. CASE \E r \in Transferred(dec.part, PartFile, PartOrig) :
               PartStored(r[2], r[1], names)
    BY <2>1, <2>2
  <2> QED
    BY <1>1, <2>2 DEF PartDone, bare, raw
<1> HIDE DEF names
<1> QED
  BY <1>7, <1>8, <1>10, <1>11, <1>12, <1>13, <1>14, <1>15

LEMMA PartsKept ==
  ASSUME Stored, msg'.parts = msg.parts, partFiles' = partFiles
  PROVE  Stored' /\ Own' = Own /\ Entries' = Entries
  BY DEF Stored, Own, Entries

LEMMA NoPartsKept ==
  ASSUME msg' = NoMessage,
         \A x \in DOMAIN partFiles' :
           x # EmptyName /\ partFiles'[x].form = "stray"
  PROVE  Stored' /\ Entries' = {}
<1>1. msg'.parts = <<>>
  BY DEF NoMessage
<1>2. DOMAIN msg'.parts = {}
  BY <1>1
<1>3. Entries' = {}
  BY <1>2 DEF Entries
<1> QED
  BY <1>2, <1>3 DEF Stored

(* Letting go of the message keeps its parts or removes them all. *)
LEMMA UnrefKeeps ==
  ASSUME Typed, Stored, Unref, msg.refs # 0
  PROVE  Stored'
<1>1. CASE msg.refs = 1
  <2>1. /\ msg' = NoMessage /\ DOMAIN partFiles' = DOMAIN partFiles \ Own
        /\ \A x \in DOMAIN partFiles' : partFiles'[x] = partFiles[x]
    BY <1>1, UnrefDoes
  <2>2. \A x \in DOMAIN partFiles' :
          x # EmptyName /\ partFiles'[x].form = "stray"
    BY <2>1 DEF Stored
  <2> QED
    BY <2>1, <2>2, NoPartsKept
<1>2. CASE msg.refs # 1
  BY <1>2, UnrefDoes, PartsKept
<1> QED
  BY <1>1, <1>2

(* Before the decoding there is no message. *)
LEMMA NoMessageYet ==
  ASSUME Typed, Ordered, Referenced, State("decode") \in {"NONE", "READY"},
         dec.part = 0
  PROVE  msg = NoMessage
<1>1. State("publish") = "NONE" /\ call = "none"
  BY DEF Ordered, Typed
<1>2. msg.refs = 0
  BY <1>1 DEF Referenced, Holders, One
<1> QED
  BY <1>2 DEF Referenced

LEMMA StepStored ==
  ASSUME Typed, Ordered, Referenced, Stored, Undecoded, Remembered,
         [Next]_vars
  PROVE  Stored' /\ Remembered'
<1>0. dec.part \in Nat
  BY DEF Typed
<1>1. CASE Start \/ Retrieved \/ UNCHANGED vars
  <2>1. UNCHANGED <<dec, msg, partFiles>>
    BY <1>1 DEF Start, Retrieved, vars
  <2>2. Stored' /\ Own' = Own /\ Entries' = Entries
    BY <2>1, PartsKept
  <2> QED
    BY <2>1, <2>2 DEF Remembered
<1>2. CASE Decode
  <2>1. msg.parts = <<>> /\ UNCHANGED partFiles /\ DOMAIN partFiles = {}
    <3>1. /\ State("decode") = "READY" /\ dec.part = 0 /\ UNCHANGED partFiles
          /\ DOMAIN partFiles = {}
      BY <1>2 DEF Decode, State, Undecoded
    <3>2. msg = NoMessage
      BY <3>1, NoMessageYet
    <3> QED
      BY <3>1, <3>2 DEF NoMessage
  <2>2. msg'.parts = <<>>
    <3>1. msg' = [NoMessage EXCEPT !.refs = 1] \/ UNCHANGED msg
      BY <1>2 DEF Decode, Refused
    <3>2. [NoMessage EXCEPT !.refs = 1].parts = <<>>
      BY DEF NoMessage
    <3> QED
      BY <2>1, <3>1, <3>2
  <2>3. Stored' /\ Own' = Own /\ Entries' = Entries
    BY <2>1, <2>2, PartsKept
  <2>4. Entries = {} /\ Own = {}
    <3>1. DOMAIN msg.parts = {}
      BY <2>1
    <3> QED
      BY <3>1 DEF Entries, Own
  <2> QED
    BY <2>1, <2>3, <2>4 DEF Remembered
<1>3. CASE DecodePart
  BY <1>3, StepPartStored
<1>4. CASE Decoded
  <2>1. UNCHANGED <<msg, partFiles>> /\ dec'.part = 0
    BY <1>4 DEF Decoded
  <2> QED
    BY <2>1, PartsKept DEF Remembered
<1>5. CASE \/ Publish \/ Cancel
           \/ \E kind \in {"ack", "notifyresp"} : Answered(kind)
  <2>1. UNCHANGED <<dec, partFiles>> /\ dec.part = 0
    BY <1>5 DEF Publish, Cancel, Answered, Idle
  <2>2. msg'.parts = msg.parts
    <3>1. msg' = [msg EXCEPT !.refs = @ + 1] \/ UNCHANGED msg
      BY <1>5 DEF Publish, Cancel, Answered
    <3>2. [msg EXCEPT !.refs = @ + 1].parts = msg.parts
      BY DEF Typed
    <3> QED
      BY <3>1, <3>2
  <2> QED
    BY <2>1, <2>2, PartsKept DEF Remembered
<1>6. CASE HandlerAnswers
  <2>1. dec'.part = 0 /\ Unref /\ msg.refs # 0
    BY <1>6, HoldersHold DEF HandlerAnswers, Idle
  <2> QED
    BY <2>1, UnrefKeeps DEF Remembered
<1>7. CASE \E kind \in Kinds : Free(kind)
  <2>1. PICK kind \in Kinds : Free(kind)
    BY <1>7
  <2>2. dec'.part = 0
    BY <2>1 DEF Free, Idle
  <2>3. CASE kind = "publish"
    <3>1. Unref /\ msg.refs # 0
      BY <2>1, <2>3, HoldersHold DEF Free, State
    <3> QED
      BY <2>2, <3>1, UnrefKeeps DEF Remembered
  <2>4. CASE kind # "publish"
    <3>1. UNCHANGED <<msg, partFiles>>
      BY <2>1, <2>4 DEF Free
    <3> QED
      BY <2>2, <3>1, PartsKept DEF Remembered
  <2> QED
    BY <2>3, <2>4
<1> QED
  BY <1>1, <1>2, <1>3, <1>4, <1>5, <1>6, <1>7 DEF Next

(* The files of parts come with the decoding and go with the message. *)
LEMMA StepUndecoded ==
  ASSUME Typed, Ordered, Undecoded, Ordered', [Next]_vars
  PROVE  Undecoded'
<1> SUFFICES ASSUME State("decode")' \in {"NONE", "READY"}, dec'.part = 0
             PROVE  DOMAIN partFiles' = {}
  BY DEF Undecoded
<1>0. task \in [Kinds -> [state : States, tries : 0..MaxTries]]
  BY DEF Typed
<1>1. State("publish")' = "NONE"
  BY DEF Ordered
<1> USE KindIs
<1>2. CASE Start \/ Retrieved
  <2>1. UNCHANGED <<dec, partFiles>> /\ State("decode") = "NONE"
    BY <1>2 DEF Start, Retrieved, Ordered, State
  <2> QED
    BY <2>1 DEF Undecoded
<1>3. CASE Decode
  BY <1>3 DEF Decode, Undecoded, State
<1>4. CASE DecodePart
  <2>1. dec.part \in Nat /\ dec'.part = dec.part + 1
    BY <1>4 DEF DecodePart, Typed
  <2> QED
    BY <2>1
<1>5. CASE Decoded
  BY <1>0, <1>1, <1>5 DEF Decoded, To, State
<1>6. CASE \/ Publish \/ \E kind \in {"ack", "notifyresp"} : Answered(kind)
  <2>1. UNCHANGED <<dec, partFiles>> /\ State("decode")' = State("decode")
    BY <1>0, <1>6 DEF Publish, Answered, To, State
  <2> QED
    BY <2>1 DEF Undecoded
<1>7. CASE HandlerAnswers
  <2>1. State("publish") \in {"PENDING", "DONE", "FREED"}
    BY <1>7 DEF HandlerAnswers, Ordered, Typed
  <2>2. State("publish")' # "NONE"
    BY <1>0, <1>7, <2>1 DEF HandlerAnswers, To, State
  <2> QED
    BY <1>1, <2>2
<1>8. CASE \E kind \in Kinds : Free(kind)
  <2>1. PICK kind \in Kinds : Free(kind)
    BY <1>8
  <2>2. State(kind)' = "FREED" /\ UNCHANGED dec
    BY <1>0, <2>1 DEF Free, To, State
  <2>3. kind # "publish"
    BY <1>1, <2>2
  <2>4. UNCHANGED partFiles /\ kind # "decode"
    BY <2>1, <2>2, <2>3 DEF Free
  <2>5. State("decode")' = State("decode")
    BY <1>0, <2>1, <2>4 DEF Free, To, State
  <2> QED
    BY <2>2, <2>4, <2>5 DEF Undecoded
<1>9. CASE Cancel
  <2>1. UNCHANGED <<dec, partFiles>>
    BY <1>9 DEF Cancel
  <2>2. State("decode") \in {"NONE", "FREED"} \/ State("decode")' = "DONE"
    BY <1>0, <1>9 DEF Cancel, State
  <2>3. State("decode") = "FREED" => State("decode")' = "FREED"
    BY <1>0, <1>9 DEF Cancel, State
  <2> QED
    BY <2>1, <2>2, <2>3 DEF Undecoded
<1>10. CASE UNCHANGED vars
  BY <1>10 DEF vars, Undecoded, State
<1> QED
  BY <1>2, <1>3, <1>4, <1>5, <1>6, <1>7, <1>8, <1>9, <1>10 DEF Next

(***************************************************************************)
(* The files of the tasks.                                                 *)
(***************************************************************************)

(* A file that another name is made or removed beside *)
LEMMA OtherFile ==
  ASSUME NEW f, NEW name, NEW other, other # name, NEW data
  PROVE  /\ other \in DOMAIN With(f, name, data) <=> other \in DOMAIN f
         /\ other \in DOMAIN f => With(f, name, data)[other] = f[other]
         /\ other \in DOMAIN Without(f, name) <=> other \in DOMAIN f
         /\ other \in DOMAIN f => Without(f, name)[other] = f[other]
  BY DEF With, Without

(* What becomes of the answers' files in a step *)
FileKept(kind) ==
  /\ kind \in DOMAIN files' <=> kind \in DOMAIN files
  /\ kind \in DOMAIN files => files'[kind] = files[kind]

LEMMA FileBeside ==
  ASSUME NEW kind, NEW name, name # kind, NEW data,
         files' = With(files, name, data) \/ files' = Without(files, name)
  PROVE  FileKept(kind)
  BY OtherFile DEF FileKept

FileOf(kind) ==
  /\ State(kind) = "READY" => kind \in DOMAIN files
                              /\ files[kind] = AnswerPdu(kind)
  /\ kind \in DOMAIN files =>
       files[kind] = NoPdu \/ State(kind) \in {"READY", "DONE"}

LEMMA AnswerKept ==
  ASSUME NEW kind \in {"ack", "notifyresp"}, FileOf(kind), FileKept(kind),
         UNCHANGED tx,
         \/ State(kind)' = State(kind)
         \/ State(kind) = "READY" /\ State(kind)' = "DONE"
  PROVE  FileOf(kind)'
<1>1. AnswerPdu(kind)' = AnswerPdu(kind)
  BY DEF AnswerPdu, Acknowledge, NotifyResp
<1> QED
  BY <1>1 DEF FileOf, FileKept

(* A task that is queued with its answer, or not, or makes no file *)
LEMMA AnswerQueued ==
  ASSUME NEW kind \in {"ack", "notifyresp"}, UNCHANGED tx,
         NEW answer \in Answer(kind),
         files' = With(files, kind, answer),
         State(kind)' = IF answer = NoPdu THEN "NONE" ELSE "READY"
  PROVE  FileOf(kind)'
<1>1. answer = NoPdu \/ answer = AnswerPdu(kind)
  BY AnswersAre
<1>2. AnswerPdu(kind)' = AnswerPdu(kind)
  BY DEF AnswerPdu, Acknowledge, NotifyResp
<1>3. kind \in DOMAIN files' /\ files'[kind] = answer
  BY DEF With
<1>4. AnswerPdu(kind) # NoPdu
  BY DEF AnswerPdu, NoPdu
<1> QED
  BY <1>1, <1>2, <1>3, <1>4 DEF FileOf

LEMMA FilesOf ==
  /\ Carried /\ Owned => \A kind \in {"ack", "notifyresp"} : FileOf(kind)
  /\ (\A kind \in {"ack", "notifyresp"} : FileOf(kind)) => Carried
  /\ (\A kind \in {"ack", "notifyresp"} : FileOf(kind))
       /\ ("retrieve" \in DOMAIN files => State("retrieve") # "FREED")
       => Owned
  BY DEF Carried, Owned, FileOf

LEMMA StepAnswers ==
  ASSUME Typed, Ordered, Decoding,
         NEW kind \in {"ack", "notifyresp"}, FileOf(kind), [Next]_vars
  PROVE  FileOf(kind)'
<1>0. task \in [Kinds -> [state : States, tries : 0..MaxTries]]
  BY DEF Typed
<1> USE KindIs
<1>1. CASE Start \/ Retrieved
  <2>1. State(kind)' = State(kind) /\ UNCHANGED tx
    BY <1>0, <1>1 DEF Start, Retrieved, To, State
  <2>2. \/ UNCHANGED files
        \/ \E data : files' = With(files, "retrieve", data)
        \/ files' = Without(files, "retrieve")
    BY <1>1 DEF Start, Retrieved
  <2>3. FileKept(kind)
    BY <2>2, OtherFile DEF FileKept
  <2> QED
    BY <2>1, <2>3, AnswerKept
<1>2. CASE Decode
  <2>1. CASE State(kind)' = State(kind) /\ UNCHANGED files
    BY <1>2, <2>1, AnswerKept DEF Decode, FileKept
  <2>2. CASE Refused("notifyresp") /\ kind = "notifyresp"
             /\ ~(State(kind)' = State(kind) /\ UNCHANGED files)
    <3>1. PICK answer \in Answer(kind) :
            \/ /\ files' = With(files, kind, answer)
               /\ task' = [To("decode", "DONE") EXCEPT
                    ![kind].state = IF answer = NoPdu THEN "NONE" ELSE "READY"]
            \/ /\ UNCHANGED files
               /\ task' = To("decode", "DONE")
      BY <2>2 DEF Refused
    <3>2. task' # To("decode", "DONE") \/ ~UNCHANGED files
      BY <1>0, <2>2 DEF To, State
    <3>3. /\ files' = With(files, kind, answer)
          /\ task' = [To("decode", "DONE") EXCEPT
               ![kind].state = IF answer = NoPdu THEN "NONE" ELSE "READY"]
      BY <3>1, <3>2
    <3>4. State(kind)' = IF answer = NoPdu THEN "NONE" ELSE "READY"
      BY <1>0, <3>3 DEF To, State
    <3> QED
      BY <1>2, <3>3, <3>4, AnswerQueued DEF Decode
  <2>3. CASE Refused("notifyresp") /\ kind = "ack"
    <3>1. State(kind)' = State(kind)
      BY <1>0, <2>3 DEF Refused, To, State
    <3>2. \/ UNCHANGED files
          \/ \E data : files' = With(files, "notifyresp", data)
      BY <2>3 DEF Refused
    <3>3. FileKept(kind)
      <4>1. CASE UNCHANGED files
        BY <4>1 DEF FileKept
      <4>2. ASSUME NEW data, files' = With(files, "notifyresp", data)
            PROVE  FileKept(kind)
        BY <2>3, <4>2, FileBeside
      <4> QED
        BY <3>2, <4>1, <4>2
    <3> QED
      BY <1>2, <3>1, <3>3, AnswerKept DEF Decode
  <2>4. Refused("notifyresp") \/ (State(kind)' = State(kind) /\ UNCHANGED files)
    BY <1>0, <1>2 DEF Decode, To, State
  <2> QED
    BY <2>1, <2>2, <2>3, <2>4
<1>3. CASE Decoded
  <2>1. State("ack") = "NONE"
    BY <1>3, PartsCounted DEF Decoded, Decoding, Ordered
  <2>2. PICK answer \in Answer("ack") :
          \/ /\ files' = With(files, "ack", answer)
             /\ task' = [To("decode", "DONE") EXCEPT
                  !["ack"].state = IF answer = NoPdu THEN "NONE" ELSE "READY",
                  !["publish"].state = "READY"]
          \/ /\ UNCHANGED files
             /\ task' = [To("decode", "DONE") EXCEPT
                           !["publish"].state = "READY"]
    BY <1>3 DEF Decoded
  <2>3. CASE kind = "notifyresp"
    <3>1. State(kind)' = State(kind)
      BY <1>0, <2>2, <2>3 DEF To, State
    <3>2. FileKept(kind)
      <4>1. CASE UNCHANGED files
        BY <4>1 DEF FileKept
      <4>2. CASE files' = With(files, "ack", answer)
        BY <2>3, <4>2, FileBeside
      <4> QED
        BY <2>2, <4>1, <4>2
    <3> QED
      BY <1>3, <3>1, <3>2, AnswerKept DEF Decoded
  <2>4. CASE kind = "ack" /\ UNCHANGED files
               /\ task' = [To("decode", "DONE") EXCEPT
                             !["publish"].state = "READY"]
    <3>1. State(kind)' = State(kind)
      BY <1>0, <2>4 DEF To, State
    <3> QED
      BY <1>3, <2>4, <3>1, AnswerKept DEF Decoded, FileKept
  <2>5. CASE /\ kind = "ack" /\ files' = With(files, "ack", answer)
             /\ task' = [To("decode", "DONE") EXCEPT
                  !["ack"].state = IF answer = NoPdu THEN "NONE" ELSE "READY",
                  !["publish"].state = "READY"]
    <3>1. State(kind)' = IF answer = NoPdu THEN "NONE" ELSE "READY"
      BY <1>0, <2>5 DEF To, State
    <3> QED
      BY <1>3, <2>5, <3>1, AnswerQueued DEF Decoded
  <2> QED
    BY <2>2, <2>3, <2>4, <2>5
<1>4. CASE Publish \/ HandlerAnswers \/ DecodePart \/ UNCHANGED vars
  <2>1. State(kind)' = State(kind) /\ UNCHANGED <<tx, files>>
    BY <1>0, <1>4 DEF Publish, HandlerAnswers, DecodePart, vars, To, State
  <2> QED
    BY <2>1, AnswerKept DEF FileKept
<1>5. CASE Cancel
  <2>1. UNCHANGED <<tx, files>>
    BY <1>5 DEF Cancel
  <2>2. State(kind)' = IF State(kind) \in {"NONE", "FREED"} THEN State(kind)
                       ELSE "DONE"
    BY <1>0, <1>5 DEF Cancel, State
  <2>3. State(kind) \in {"NONE", "READY", "DONE", "FREED"}
    BY DEF Ordered
  <2> QED
    BY <2>1, <2>2, <2>3, AnswerKept DEF FileKept
<1>6. CASE \E k \in {"ack", "notifyresp"} : Answered(k)
  <2>1. /\ UNCHANGED <<tx, files>>
        /\ \/ State(kind)' = State(kind)
           \/ State(kind) = "READY" /\ State(kind)' = "DONE"
    BY <1>0, <1>6 DEF Answered, To, State
  <2> QED
    BY <2>1, AnswerKept DEF FileKept
<1>7. CASE \E k \in Kinds : Free(k)
  <2>1. PICK k \in Kinds : Free(k)
    BY <1>7
  <2>2. CASE k = kind
    <3>1. files' = Without(files, kind) /\ State(kind)' = "FREED"
      BY <1>0, <2>1, <2>2 DEF Free, RemoveFile, To, State
    <3>2. kind \notin DOMAIN files'
      BY <3>1 DEF Without
    <3> QED
      BY <3>1, <3>2 DEF FileOf
  <2>3. CASE k # kind
    <3>1. State(kind)' = State(kind) /\ UNCHANGED tx
      BY <1>0, <2>1, <2>3 DEF Free, To, State
    <3>2. UNCHANGED files \/ \E name : name # kind /\ files' = Without(files, name)
      BY <2>1, <2>3 DEF Free, RemoveFile
    <3>3. FileKept(kind)
      <4>1. CASE UNCHANGED files
        BY <4>1 DEF FileKept
      <4>2. ASSUME NEW name, name # kind, files' = Without(files, name)
            PROVE  FileKept(kind)
        BY <4>2, FileBeside
      <4> QED
        BY <3>2, <4>1, <4>2
    <3> QED
      BY <3>1, <3>3, AnswerKept
  <2> QED
    BY <2>2, <2>3
<1> QED
  BY <1>1, <1>2, <1>3, <1>4, <1>5, <1>6, <1>7 DEF Next

LEMMA StepCarried ==
  ASSUME Typed, Ordered, Decoding, Carried, Owned, [Next]_vars
  PROVE  Carried' /\ Owned'
<1>0. task \in [Kinds -> [state : States, tries : 0..MaxTries]]
  BY DEF Typed
<1>1. \A kind \in {"ack", "notifyresp"} : FileOf(kind)'
  <2>1. \A kind \in {"ack", "notifyresp"} : FileOf(kind)
    BY FilesOf
  <2> QED
    BY <2>1, StepAnswers
<1> DEFINE Mine == "retrieve" \in DOMAIN files => State("retrieve") # "FREED"
<1>2. Mine
  BY DEF Owned
<1>3. Mine'
  <2> USE KindIs DEF State
  <2>1. CASE Start \/ Retrieved
    BY <1>0, <2>1 DEF Start, Retrieved, To
  <2>2. CASE Decode
    <3>1. task'["retrieve"] = task["retrieve"]
      BY <1>0, <2>2 DEF Decode, Refused, To
    <3>2. "retrieve" \in DOMAIN files' <=> "retrieve" \in DOMAIN files
      <4>1. \/ UNCHANGED files
            \/ \E data : files' = With(files, "notifyresp", data)
        BY <2>2 DEF Decode, Refused
      <4> QED
        BY <4>1 DEF With
    <3> QED
      BY <1>2, <3>1, <3>2
  <2>3. CASE Decoded
    <3>1. task'["retrieve"] = task["retrieve"]
      BY <1>0, <2>3 DEF Decoded, To
    <3>2. "retrieve" \in DOMAIN files' <=> "retrieve" \in DOMAIN files
      <4>1. \/ UNCHANGED files
            \/ \E data : files' = With(files, "ack", data)
        BY <2>3 DEF Decoded
      <4> QED
        BY <4>1 DEF With
    <3> QED
      BY <1>2, <3>1, <3>2
  <2>4. CASE \/ DecodePart \/ Publish \/ HandlerAnswers \/ UNCHANGED vars
             \/ \E kind \in {"ack", "notifyresp"} : Answered(kind)
    <3>1. task'["retrieve"] = task["retrieve"] /\ UNCHANGED files
      BY <1>0, <2>4 DEF DecodePart, Publish, HandlerAnswers, Answered, vars, To
    <3> QED
      BY <1>2, <3>1
  <2>5. CASE \E kind \in Kinds : Free(kind)
    <3>1. PICK kind \in Kinds : Free(kind)
      BY <2>5
    <3>2. CASE kind = "retrieve"
      BY <3>1, <3>2 DEF Free, RemoveFile, Without
    <3>3. CASE kind # "retrieve"
      <4>1. task'["retrieve"] = task["retrieve"]
        BY <1>0, <3>1, <3>3 DEF Free, To
      <4>2. UNCHANGED files \/ \E name : files' = Without(files, name)
        BY <3>1 DEF Free, RemoveFile
      <4>3. "retrieve" \in DOMAIN files' => "retrieve" \in DOMAIN files
        BY <4>2 DEF Without
      <4> QED
        BY <1>2, <4>1, <4>3
    <3> QED
      BY <3>2, <3>3
  <2>6. CASE Cancel
    BY <1>0, <1>2, <2>6 DEF Cancel
  <2> QED
    BY <2>1, <2>2, <2>3, <2>4, <2>5, <2>6 DEF Next
<1> QED
  <2>1. /\ (\A kind \in {"ack", "notifyresp"} : FileOf(kind)') => Carried'
        /\ (\A kind \in {"ack", "notifyresp"} : FileOf(kind)') /\ Mine'
             => Owned'
    BY DEF Carried, Owned, FileOf
  <2> QED
    BY <1>1, <1>3, <2>1

(***************************************************************************)
(* What is left in the end.                                                *)
(***************************************************************************)

(* Where nothing is in the directory, the last one removes it. *)
LEMMA LastRemoves ==
  ASSUME NEW d, d \subseteq {"msg", "parts"}, "parts" \notin d
  PROVE  Emptied(d, NoFiles) = {}
  BY DEF Emptied

(* Letting go of the message leaves nothing behind but what nobody owns. *)
LEMMA UnrefClears ==
  ASSUME Typed, Cleared, Unref, msg.refs # 0, UNCHANGED files
  PROVE  /\ "parts" \in dirs' => msg'.refs > 0 \/ partFiles' # NoFiles
         /\ msg'.refs = 0 /\ files' = NoFiles /\ partFiles' = NoFiles
              => dirs' = {}
<1>0. /\ msg'.refs = msg.refs - 1 /\ msg.refs \in Nat /\ msg'.refs \in Nat
      /\ dirs' \subseteq dirs /\ dirs \subseteq {"msg", "parts"}
  BY UnrefDoes DEF Typed
<1>1. CASE msg.refs = 1
  <2> SUFFICES ASSUME partFiles' = NoFiles
               PROVE  /\ "parts" \notin dirs'
                      /\ files = NoFiles => dirs' = {}
    OBVIOUS
  <2>1. dirs' = Emptied(dirs \ {"parts"}, files)
    BY <1>1, UnrefDoes
  <2>2. "parts" \notin dirs'
    BY <2>1 DEF Emptied
  <2>3. files = NoFiles => dirs' = {}
    <3>1. Emptied(dirs \ {"parts"}, NoFiles) = {}
      <4>1. dirs \ {"parts"} \subseteq {"msg", "parts"}
        BY <1>0
      <4>2. "parts" \notin dirs \ {"parts"}
        OBVIOUS
      <4> QED
        BY <4>1, <4>2, LastRemoves
    <3> QED
      BY <2>1, <3>1
  <2> QED
    BY <2>2, <2>3
<1>2. CASE msg.refs # 1
  BY <1>0, <1>2
<1> QED
  BY <1>1, <1>2

(* As long as the decoding is under way, it is not over. *)
LEMMA DecodingOrOver ==
  ASSUME Typed, Decoding, Referenced, Over
  PROVE  dec.part = 0 /\ msg = NoMessage
<1>1. dec.part = 0
  BY KindIs DEF Typed, Decoding, Over
<1>2. State("publish") \in {"NONE", "FREED"} /\ call = "none"
  BY KindIs DEF Over
<1>3. msg.refs = 0
  BY <1>1, <1>2 DEF Referenced, Holders, One
<1> QED
  BY <1>1, <1>3 DEF Referenced

LEMMA StepCleared ==
  ASSUME Typed, Ordered, Decoding, Referenced, Undecoded, Cleared,
         Typed', Decoding', Referenced', [Next]_vars
  PROVE  Cleared'
<1>0. task \in [Kinds -> [state : States, tries : 0..MaxTries]]
  BY DEF Typed
<1>00. /\ dirs \subseteq {"msg", "parts"} /\ msg.refs \in Nat
       /\ "parts" \in dirs => msg.refs > 0 \/ partFiles # NoFiles
  BY DEF Typed, Cleared
<1>a. Over' => msg'.refs = 0
  <2> SUFFICES ASSUME Over' PROVE msg'.refs = 0
    OBVIOUS
  <2>1. /\ State("decode")' \in {"NONE", "FREED"}
        /\ State("publish")' \in {"NONE", "FREED"} /\ call' = "none"
    BY KindIs DEF Over
  <2>2. dec'.part = 0
    BY <2>1 DEF Typed, Decoding
  <2> QED
    BY <2>1, <2>2 DEF Referenced, Holders, One
<1> USE KindIs
<1>1. CASE Start \/ Retrieved
  <2>1. ~Over'
    BY <1>0, <1>1 DEF Start, Retrieved, To, Over, State
  <2>2. /\ UNCHANGED <<msg, partFiles>>
        /\ "parts" \in dirs' => "parts" \in dirs
    BY <1>1 DEF Start, Retrieved
  <2> QED
    BY <1>00, <2>1, <2>2 DEF Cleared
<1>2. CASE Decode
  <2>1. State("decode")' \in {"READY", "DONE"}
    BY <1>0, <1>2 DEF Decode, Refused, To, State
  <2>2. ~Over'
    BY <2>1 DEF Over
  <2>3. msg = NoMessage /\ partFiles = NoFiles
    <3>1. State("decode") = "READY" /\ dec.part = 0
      BY <1>2 DEF Decode, State
    <3> QED
      BY <3>1, NoMessageYet, NoFilesAre DEF Undecoded, Typed
  <2>4. "parts" \notin dirs
    BY <1>00, <2>3 DEF NoMessage
  <2>5. "parts" \notin dirs'
    BY <1>2, <2>4 DEF Decode, Refused
  <2> QED
    BY <2>2, <2>5 DEF Cleared
<1>3. CASE DecodePart
  <2>1. UNCHANGED task /\ dec.part \in DOMAIN pdu.parts /\ msg'.refs = msg.refs
    BY <1>3, PartIsDone, TypedParts DEF PartDone, PartSkipped, PartStored
  <2>2. dec.part > 0
    BY <2>1, PartsCounted
  <2>3. msg'.refs > 0
    BY <2>1, <2>2, HoldersHold
  <2>4. ~Over'
    BY <2>1, <2>2 DEF Decoding, Over, State
  <2> QED
    BY <2>3, <2>4 DEF Cleared
<1>4. CASE Decoded
  <2>1. State("publish")' = "READY"
    BY <1>0, <1>4 DEF Decoded, To, State
  <2>2. /\ UNCHANGED <<msg, partFiles>>
        /\ "parts" \in dirs' => "parts" \in dirs
    BY <1>4 DEF Decoded
  <2> QED
    BY <1>00, <2>1, <2>2 DEF Cleared, Over
<1>5. CASE \E kind \in {"ack", "notifyresp"} : Answered(kind)
  <2>1. ~Over' /\ UNCHANGED <<msg, dirs, partFiles>>
    BY <1>0, <1>5 DEF Answered, To, Over, State
  <2> QED
    BY <1>00, <2>1 DEF Cleared
<1>6. CASE Publish
  <2>1. UNCHANGED dirs /\ State("publish")' \in {"READY", "PENDING", "DONE"}
    BY <1>0, <1>6 DEF Publish, To, State
  <2>2. msg'.refs # 0 /\ msg'.refs \in Nat
    BY <2>1 DEF Referenced, Holders, One, Typed
  <2> QED
    BY <2>1, <2>2 DEF Cleared, Over
<1>7. CASE HandlerAnswers
  <2>1. Unref /\ msg.refs # 0 /\ UNCHANGED files
    BY <1>7, HoldersHold DEF HandlerAnswers
  <2> QED
    BY <1>a, <2>1, UnrefClears DEF Cleared
<1>8. CASE \E kind \in Kinds : Free(kind)
  <2>1. PICK kind \in Kinds : Free(kind)
    BY <1>8
  <2>2. CASE kind = "publish"
    <3>1. Unref /\ msg.refs # 0 /\ UNCHANGED files
      BY <2>1, <2>2, HoldersHold DEF Free, State
    <3> QED
      BY <1>a, <3>1, UnrefClears DEF Cleared
  <2>3. CASE kind # "publish"
    <3>1. UNCHANGED <<msg, partFiles>> /\ dirs' = Emptied(dirs, files')
      BY <2>1, <2>3 DEF Free, RemoveFile
    <3>2. "parts" \in dirs' => "parts" \in dirs
      BY <3>1 DEF Emptied
    <3>3. ASSUME Over', files' = NoFiles, partFiles' = NoFiles
          PROVE  dirs' = {}
      <4>1. "parts" \notin dirs
        BY <1>a, <1>00, <3>1, <3>3
      <4> QED
        BY <1>00, <3>1, <3>3, <4>1, LastRemoves
    <3> QED
      BY <1>00, <3>1, <3>2, <3>3 DEF Cleared
  <2> QED
    BY <2>2, <2>3
<1>9. CASE Cancel
  <2>1. UNCHANGED <<dirs, files, partFiles, msg>>
    BY <1>9 DEF Cancel
  <2>2. \A k \in Kinds : State(k)' \in {"NONE", "FREED"}
                           => State(k) \in {"NONE", "FREED"}
    BY <1>0, <1>9 DEF Cancel, State
  <2>3. call' = "none" => call = "none"
    BY <1>9 DEF Cancel
  <2>4. Over' => Over
    BY <2>2, <2>3 DEF Over
  <2> QED
    BY <2>1, <2>4 DEF Cleared
<1>10. CASE UNCHANGED vars
  BY <1>10 DEF vars, Cleared, Over, State
<1> QED
  BY <1>1, <1>2, <1>3, <1>4, <1>5, <1>6, <1>7, <1>8, <1>9, <1>10 DEF Next

(* How far a task has got, for what the handler hears *)
LEMMA StepHeard ==
  ASSUME Typed, Ordered, Decoding, Heard, [Next]_vars
  PROVE  Heard'
<1>0. task \in [Kinds -> [state : States, tries : 0..MaxTries]]
  BY DEF Typed
<1>00. MaxTries \in Nat
  BY ReceiveAssumption DEF ReceiveAssumption
<1> DEFINE Told == /\ Ended("retrieve") => State("decode") # "NONE"
                   /\ Ended("decode") => State("publish") # "NONE"
                   /\ Ended("publish") => task["publish"].tries = MaxTries
<1>a. Heard <=> cancelled \/ Settled \/ Told
  BY DEF Heard
<1>b. Heard' <=> cancelled' \/ Settled' \/ Told'
  BY DEF Heard
<1> USE KindIs DEF State, Ended
<1>1. CASE Start
  <2>1. CASE told' = "DOWNLOAD_ERROR"
    BY <1>b, <2>1 DEF Settled
  <2>2. CASE task' = To("retrieve", "TRANSMITTING")
    <3>1. /\ task'["retrieve"].state = "TRANSMITTING"
          /\ task'["decode"].state = "NONE" /\ task'["publish"].state = "NONE"
      BY <1>0, <1>1, <2>2 DEF Start, Ordered, To
    <3>2. Told'
      BY <3>1
    <3> QED
      BY <1>b, <3>2
  <2> QED
    BY <1>1, <2>1, <2>2 DEF Start
<1>2. CASE Retrieved
  <2>1. CASE told' = "DOWNLOAD_ERROR"
    BY <1>b, <2>1 DEF Settled
  <2>2. CASE told' # "DOWNLOAD_ERROR"
    <3>1. /\ \/ task'["retrieve"].state = "READY"
             \/ task'["decode"].state = "READY"
          /\ task'["decode"].state \in {"NONE", "READY"}
          /\ task'["publish"].state = "NONE"
      BY <1>0, <1>2, <2>2 DEF Retrieved, Ordered, To
    <3>2. Told'
      BY <3>1
    <3> QED
      BY <1>b, <3>2
  <2> QED
    BY <2>1, <2>2
<1>3. CASE Decode
  <2>1. CASE told' \in {"DOWNLOAD_ERROR", "DECODING_ERROR"}
    BY <1>b, <2>1 DEF Settled
  <2>2. CASE UNCHANGED <<task, told>>
    BY <1>3, <1>a, <1>b, <2>2 DEF Decode, Settled
  <2> QED
    BY <1>3, <2>1, <2>2 DEF Decode, Refused
<1>4. CASE DecodePart \/ UNCHANGED vars
  <2>1. UNCHANGED <<task, told, cancelled>>
    BY <1>4 DEF DecodePart, vars
  <2> QED
    BY <1>a, <1>b, <2>1 DEF Settled
<1>5. CASE Decoded
  <2>1. /\ task'["decode"].state = "DONE" /\ task'["publish"].state = "READY"
    BY <1>0, <1>5 DEF Decoded, To
  <2>2. Told'
    BY <2>1
  <2> QED
    BY <1>b, <2>2
<1>6. CASE \E kind \in {"ack", "notifyresp"} : Answered(kind)
  <2>1. UNCHANGED <<told, cancelled>>
        /\ \A k \in {"retrieve", "decode", "publish"} : task'[k] = task[k]
    BY <1>0, <1>6 DEF Answered, To
  <2> QED
    BY <1>a, <1>b, <2>1 DEF Settled
<1>7. CASE Publish
  <2>1. /\ UNCHANGED <<told, cancelled>>
        /\ task'["retrieve"] = task["retrieve"]
        /\ task'["decode"] = task["decode"]
        /\ task'["publish"].state \in {"READY", "PENDING", "DONE"}
        /\ task'["publish"].state = "DONE" =>
             task'["publish"].tries = task["publish"].tries
             /\ ~(task["publish"].tries < MaxTries)
    BY <1>0, <1>7 DEF Publish, To
  <2>2. task["publish"].tries \in 0..MaxTries
    BY <1>0
  <2>3. task'["publish"].state = "DONE" => task'["publish"].tries = MaxTries
    BY <1>00, <2>1, <2>2
  <2>4. Told => Told'
    BY <2>1, <2>3
  <2> QED
    BY <1>a, <1>b, <2>1, <2>4 DEF Settled
<1>8. CASE HandlerAnswers
  <2>1. CASE told' = "message"
    BY <1>b, <2>1 DEF Settled
  <2>2. CASE UNCHANGED told
    <3>1. /\ UNCHANGED cancelled
          /\ task'["retrieve"] = task["retrieve"]
          /\ task'["decode"] = task["decode"]
          /\ \/ task'["publish"] = task["publish"]
             \/ task'["publish"].state = "READY"
             \/ task'["publish"].state = "DONE"
                /\ task'["publish"].tries = MaxTries
             \/ told' = "message"
      BY <1>0, <1>8, <2>2 DEF HandlerAnswers, To
    <3>2. Told => Told' \/ told' = "message"
      BY <3>1
    <3> QED
      BY <1>a, <1>b, <2>2, <3>1, <3>2 DEF Settled
  <2> QED
    BY <1>8, <2>1, <2>2 DEF HandlerAnswers
<1>9. CASE \E kind \in Kinds : Free(kind)
  <2>1. /\ UNCHANGED <<told, cancelled>>
        /\ \A k \in Kinds : /\ task'[k].tries = task[k].tries
                            /\ \/ task'[k].state = task[k].state
                               \/ /\ task[k].state = "DONE"
                                  /\ task'[k].state = "FREED"
    BY <1>0, <1>9 DEF Free, To
  <2>2. Told => Told'
    BY <2>1
  <2> QED
    BY <1>a, <1>b, <2>1, <2>2 DEF Settled
<1>10. CASE Cancel
  BY <1>b, <1>10 DEF Cancel
<1> QED
  BY <1>1, <1>2, <1>3, <1>4, <1>5, <1>6, <1>7, <1>8, <1>9, <1>10 DEF Next

(***************************************************************************)
(* The theorems.                                                           *)
(***************************************************************************)

LEMMA InvInit == Init => ReceiveInv
<1> SUFFICES ASSUME Init PROVE ReceiveInv
  OBVIOUS
<1>1. Typed
  BY InitTyped
<1>2. /\ \A k \in Kinds : State(k) = IF k = "retrieve" THEN "READY" ELSE "NONE"
      /\ call = "none" /\ dec.part = 0 /\ dec.names = {} /\ dec.ids = {}
      /\ msg = NoMessage /\ files = NoFiles /\ partFiles = NoFiles /\ dirs = {}
  BY DEF Init, State
<1>3. /\ State("retrieve") = "READY" /\ State("decode") = "NONE"
      /\ State("ack") = "NONE" /\ State("notifyresp") = "NONE"
      /\ State("publish") = "NONE"
  BY <1>2 DEF Kinds
<1>4. Ordered /\ Decoding /\ Referenced
  BY <1>2, <1>3 DEF Ordered, Decoding, Referenced, Holders, One, NoMessage
<1>5. Entries = {}
  <2>1. msg.parts = <<>>
    BY <1>2 DEF NoMessage
  <2>2. DOMAIN msg.parts = {}
    BY <2>1
  <2> QED
    BY <2>2 DEF Entries
<1>6. DOMAIN msg.parts = {}
  <2>1. msg.parts = <<>>
    BY <1>2 DEF NoMessage
  <2> QED
    BY <2>1
<1>7. DOMAIN files = {} /\ DOMAIN partFiles = {}
  BY <1>2 DEF NoFiles
<1>8. Stored /\ Undecoded /\ Remembered
  BY <1>2, <1>5, <1>6, <1>7 DEF Stored, Undecoded, Remembered
<1>9. Carried /\ Owned /\ Cleared /\ Heard
  BY <1>2, <1>3, <1>7 DEF Carried, Owned, Cleared, Heard, Ended
<1> QED
  BY <1>1, <1>4, <1>8, <1>9 DEF ReceiveInv

LEMMA InvStep == ReceiveInv /\ [Next]_vars => ReceiveInv'
<1> SUFFICES ASSUME ReceiveInv, [Next]_vars PROVE ReceiveInv'
  OBVIOUS
<1> USE DEF ReceiveInv
<1>1. Typed' /\ Ordered' /\ Decoding' /\ Referenced'
  BY StepTyped, StepOrdered, StepDecoding, StepReferenced
<1>2. Stored' /\ Remembered'
  BY StepStored
<1>3. Carried' /\ Owned'
  BY StepCarried
<1>4. Cleared'
  BY <1>1, StepCleared
<1>5. Heard'
  BY StepHeard
<1>6. Undecoded'
  BY <1>1, StepUndecoded
<1> QED
  BY <1>1, <1>2, <1>3, <1>4, <1>5, <1>6

(* The inductive invariant, with everything the results below rest on: the
   order of the tasks, what is decoded, the references of the message, the
   files of its parts and the owner of every other file. *)
THEOREM ReceiveInvariant == Spec => []ReceiveInv
  BY InvInit, InvStep, PTL DEF Spec

(* The variables keep their types, for any PDUs, parts and retries; what is
   decoded is one of the PDUs, and the message's references are a number. *)
THEOREM TypeCorrect == Spec => []Typed
<1>1. ReceiveInv => Typed
  BY DEF ReceiveInv
<1> QED
  BY <1>1, ReceiveInvariant, PTL

(* A message is made only of a PDU that came whole (mms_task_decode.c:251). *)
THEOREM MessagesWhole == Spec => []MessageIsWhole
<1>1. ReceiveInv => MessageIsWhole
  <2> SUFFICES ASSUME ReceiveInv PROVE MessageIsWhole
    OBVIOUS
  <2>1. CASE dec.part = 1
    BY <2>1, MadeWhole DEF ReceiveInv, Decoding, Typed
  <2>2. CASE dec.part # 1
    BY <2>2 DEF MessageIsWhole
  <2> QED
    BY <2>1, <2>2
<1> QED
  BY <1>1, ReceiveInvariant, PTL

(* Whoever holds the message finds its parts in their files
   (mms_task_decode.c:60-142). *)
THEOREM PartsFound == Spec => []PartsAreKept
<1>1. ReceiveInv => PartsAreKept
  <2> SUFFICES ASSUME ReceiveInv PROVE PartsAreKept
    OBVIOUS
  <2>1. task["publish"].state \in {"READY", "PENDING"} \/ call # "none" =>
          msg.refs > 0
    BY HoldersHold DEF ReceiveInv, State
  <2>2. ASSUME NEW k \in DOMAIN msg.parts
        PROVE  LET p == msg.parts[k]
               IN  /\ \/ LeftBehind(p)
                      \/ /\ p.file \in DOMAIN partFiles
                         /\ partFiles[p.file].part = p.of
                         /\ partFiles[p.file].form # "stray"
                   /\ p.orig \in DOMAIN partFiles =>
                        /\ partFiles[p.orig] = Content(p.of, "raw")
                        /\ partFiles[p.file] = Content(p.of, "decoded")
                   /\ \A j \in DOMAIN msg.parts :
                        j # k => msg.parts[j].id # p.id
    <3>1. Kept(partFiles, msg.parts[k])
      BY DEF ReceiveInv, Stored, Entries
    <3>2. \A j \in DOMAIN msg.parts :
            j # k => msg.parts[j].id # msg.parts[k].id
      BY DEF ReceiveInv, Stored
    <3> QED
      BY <3>1, <3>2 DEF Kept, LeftBehind
  <2> QED
    BY <2>1, <2>2 DEF PartsAreKept
<1> QED
  BY <1>1, ReceiveInvariant, PTL

(* A task that answers has its answer, which a decoder accepts
   (mms_task_ack.c, mms_task_notifyresp.c). *)
THEOREM AnswersAccepted == Spec => []AnswersDecode
<1>1. ReceiveInv => AnswersDecode
  BY AnswerDecodes DEF ReceiveInv, Carried, AnswersDecode, State
<1> QED
  BY <1>1, ReceiveInvariant, PTL

(* In the end nothing is left but what nobody owns, and the handler has heard
   (mms_task.c:132-159, mms_message.c:22-75). *)
THEOREM NothingLeft == Spec => []NothingIsLeft
<1>1. ReceiveInv => NothingIsLeft
  <2> SUFFICES ASSUME ReceiveInv, Over PROVE
               /\ msg = NoMessage
               /\ \A f \in DOMAIN partFiles : partFiles[f].form = "stray"
               /\ \A f \in DOMAIN files :
                    f \in {"ack", "notifyresp"} /\ files[f] = NoPdu
               /\ files = NoFiles /\ partFiles = NoFiles => dirs = {}
               /\ \/ cancelled
                  \/ told \in {"message", "DOWNLOAD_ERROR", "DECODING_ERROR"}
                  \/ task["publish"].tries = MaxTries
    BY DEF NothingIsLeft, Over, State
  <2> USE DEF ReceiveInv
  <2>1. dec.part = 0 /\ msg = NoMessage
    BY DecodingOrOver
  <2>2. \A f \in DOMAIN partFiles : partFiles[f].form = "stray"
    <3>1. msg.parts = <<>>
      BY <2>1 DEF NoMessage
    <3>2. DOMAIN msg.parts = {}
      BY <3>1
    <3>3. Entries = {}
      BY <3>2 DEF Entries
    <3>4. Own = {}
      BY <3>3 DEF Own
    <3> QED
      BY <3>4 DEF Stored
  <2>3. \A k \in Kinds : State(k) \in {"NONE", "FREED"}
    BY DEF Over
  <2>4. State("retrieve") = "FREED"
    BY <2>3, KindIs DEF Ordered
  <2>5. \A f \in DOMAIN files : f \in {"ack", "notifyresp"} /\ files[f] = NoPdu
    BY <2>3, <2>4, KindIs DEF Typed, Owned
  <2>6. files = NoFiles /\ partFiles = NoFiles => dirs = {}
    BY DEF Cleared
  <2>7. \/ cancelled \/ Settled \/ task["publish"].tries = MaxTries
    BY <2>3, <2>4, KindIs DEF Heard, Ended
  <2> QED
    BY <2>1, <2>2, <2>5, <2>6, <2>7 DEF Settled
<1> QED
  BY <1>1, ReceiveInvariant, PTL

=============================================================================
