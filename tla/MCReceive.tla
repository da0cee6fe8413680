------------------------------ MODULE MCReceive ------------------------------
(***************************************************************************)
(* Answers of the MMSC for TLC: all short sequences of the fields that     *)
(* matter, and messages whose parts are called the same in various ways.   *)
(***************************************************************************)
EXTENDS Receive

(* The fields, some with two values, some unreadable *)
Kinds0 == {Field("TRANSACTION_ID", "t1"), Field("VERSION", "1.2"),
           Field("MESSAGE_ID", "m1"), Field("MESSAGE_ID", "m2"),
           Field("DATE", "d1"), Field("RETRIEVE_STATUS", "ok"),
           Field("RETRIEVE_STATUS", "error"),
           [header |-> "TO", readable |-> FALSE, value |-> "to"]}

Good == <<Field("VERSION", "1.2"), Field("MESSAGE_ID", "m1"),
          Field("DATE", "d1")>>

Unread == [header |-> "RETRIEVE_STATUS", readable |-> FALSE, value |-> "?"]

Unknown == Field("RETRIEVE_STATUS", "unknown")

(* Two recipients, a header that is not known and one of the application; a
   status that cannot be read, the last of the fields or not, or is not known *)
Long == {Good \o <<Field("TO", "a"), Field("TO", "b"), Field("Other", "x"),
                   Field("DATE", "d2")>>,
         Good \o <<Field("MESSAGE_ID", "m2"), Field("RETRIEVE_STATUS", "ok"),
                   Field("RETRIEVE_STATUS", "error")>>,
         Good \o <<Unread>>, Good \o <<Unread, Field("TO", "a")>>,
         Good \o <<Field("RETRIEVE_STATUS", "ok"), Unread>>,
         Good \o <<Unknown>>,
         Good \o <<Unknown, Field("RETRIEVE_STATUS", "error")>>}

Conf(fields, body, parts) == [type |-> "retrieve_conf", fields |-> fields,
                              body |-> body, parts |-> parts]

Raw(under, base, orig, slashed, brackets) ==
  [under |-> under, base |-> base, orig |-> orig, slashed |-> slashed,
   brackets |-> brackets]

RawNames == {Raw(0, <<"a">>, 0, FALSE, FALSE), Raw(1, <<"a">>, 0, FALSE, FALSE),
             Raw(0, <<"a">>, 0, TRUE, FALSE), Raw(0, <<"a">>, 1, FALSE, FALSE),
             Raw(0, <<>>, 0, FALSE, FALSE), Raw(0, <<>>, 0, FALSE, TRUE)}

Part(name, id, encoded) == [name |-> name, id |-> id, encoded |-> encoded]

Twos == [1..2 -> {Part(n, EmptyName, e) : n \in RawNames, e \in BOOLEAN}
                 \cup {Part(Raw(0, <<"a">>, 0, FALSE, FALSE),
                            Name(0, <<"id">>, 0), FALSE)}]

Threes == [1..3 -> {Part(Raw(0, <<"a">>, 0, FALSE, TRUE), EmptyName, TRUE),
                    Part(Raw(0, <<"a">>, 1, FALSE, FALSE), EmptyName, FALSE)}]

MCPdus ==
  {Conf(fields, body, <<>>) :
     fields \in Long \cup UNION {[1..n -> Kinds0] : n \in 0..4},
     body \in {"none", "broken"}} \cup
  {Conf(Good, "single", <<>>)} \cup
  {Conf(Good, "multipart", parts) : parts \in Twos \cup Threes} \cup
  {[Conf(Good, "none", <<>>) EXCEPT !.type = type] :
     type \in {"delivery_ind", "garbage"}}
=============================================================================
