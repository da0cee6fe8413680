------------------------ MODULE ConnectionNemoProofs ------------------------
(***************************************************************************)
(* Proofs about the connections over ofono's Nemo extensions: for any      *)
(* number of connections, and whatever ofono does, each goes through the   *)
(* life cycle that the header promises, a pending call keeps what it needs *)
(* and the reservation of the modem follows its use.                       *)
(*                                                                         *)
(* The operations nest, so the lemmas speak of the program's state s, of   *)
(* what an operation makes of it and of the modem's state n; the actions   *)
(* compose them.                                                           *)
(***************************************************************************)
EXTENDS ConnectionNemo, Integers, FiniteSetTheorems, FunctionTheorems,
        SequenceTheorems, TLAPS

-----------------------------------------------------------------------------
(* Counting in sequences. *)

(* Where the sequence q has an element of P, and how often *)
Where(q, P) == {i \in DOMAIN q : q[i] \in P}
Count(q, P) == Cardinality(Where(q, P))

LEMMA WhereFinite ==
  ASSUME NEW S, NEW q \in Seq(S), NEW P
  PROVE  IsFiniteSet(Where(q, P)) /\ Count(q, P) \in Nat
<1>1. IsFiniteSet(1..Len(q))
  BY FS_Interval
<1>2. Where(q, P) \in SUBSET (1..Len(q))
  BY DEF Where
<1>3. IsFiniteSet(Where(q, P))
  BY <1>1, <1>2, FS_Subset
<1> QED
  BY <1>3, FS_CardinalityType DEF Count

LEMMA CountZero ==
  ASSUME NEW S, NEW q \in Seq(S), NEW P
  PROVE  Count(q, P) = 0 <=> \A i \in DOMAIN q : q[i] \notin P
<1>1. IsFiniteSet(Where(q, P))
  BY WhereFinite
<1>2. Count(q, P) = 0 <=> Where(q, P) = {}
  BY <1>1, FS_EmptySet DEF Count
<1> QED
  BY <1>2 DEF Where

LEMMA CountEmpty ==
  ASSUME NEW P
  PROVE  Count(<<>>, P) = 0
<1>1. Where(<<>>, P) = {}
  BY DEF Where
<1> QED
  BY <1>1, FS_EmptySet DEF Count

LEMMA CountAppend ==
  ASSUME NEW S, NEW q \in Seq(S), NEW x \in S, NEW P
  PROVE  Count(Append(q, x), P) = Count(q, P) + IF x \in P THEN 1 ELSE 0
<1> DEFINE n == Len(q) + 1
           a == Append(q, x)
<1>1. /\ a \in Seq(S) /\ DOMAIN a = 1..n /\ a[n] = x
      /\ \A i \in 1..Len(q) : a[i] = q[i]
      /\ DOMAIN q = 1..Len(q) /\ Len(q) \in Nat
  BY AppendProperties
<1> HIDE DEF a
<1>2. Where(a, P) = IF x \in P THEN Where(q, P) \cup {n} ELSE Where(q, P)
  BY <1>1 DEF Where
<1>3. n \notin Where(q, P)
  BY <1>1 DEF Where
<1>4. IsFiniteSet(Where(q, P)) /\ Cardinality(Where(q, P)) \in Nat
  BY WhereFinite DEF Count
<1>5. Cardinality(Where(q, P) \cup {n}) = Cardinality(Where(q, P)) + 1
  BY <1>3, <1>4, FS_AddElement
<1>6. Count(a, P) = Count(q, P) + IF x \in P THEN 1 ELSE 0
  BY <1>2, <1>4, <1>5 DEF Count
<1> QED
  BY <1>6 DEF a

(* Moving a set of numbers along does not change its size. *)
LEMMA ShiftedSize ==
  ASSUME NEW k \in Int,
         NEW T, T \subseteq Int, IsFiniteSet(T),
         NEW U, U \subseteq Int,
         \A i \in T : i + k \in U, \A u \in U : u - k \in T
  PROVE  IsFiniteSet(U) /\ Cardinality(U) = Cardinality(T)
<1> DEFINE f == [i \in T |-> i + k]
<1>1. f \in Bijection(T, U)
  <2>1. f \in [T -> U]
    OBVIOUS
  <2>2. \A i, j \in T : f[i] = f[j] => i = j
    OBVIOUS
  <2>3. \A u \in U : u - k \in T /\ f[u - k] = u
    OBVIOUS
  <2> QED
    BY <2>1, <2>2, <2>3, Fun_IsBij
<1>2. ExistsBijection(T, U)
  BY <1>1 DEF ExistsBijection
<1> QED
  BY <1>2, FS_Bijection

LEMMA CountConcat ==
  ASSUME NEW S, NEW q \in Seq(S), NEW r \in Seq(S), NEW P
  PROVE  Count(q \o r, P) = Count(q, P) + Count(r, P)
<1> DEFINE n == Len(q)
           a == q \o r
           U == {i + n : i \in Where(r, P)}
<1>1. /\ a \in Seq(S) /\ Len(a) = n + Len(r)
      /\ n \in Nat /\ Len(r) \in Nat
      /\ DOMAIN a = 1..(n + Len(r)) /\ DOMAIN q = 1..n
      /\ DOMAIN r = 1..Len(r)
      /\ \A i \in 1..n : a[i] = q[i]
      /\ \A i \in 1..Len(r) : a[i + n] = r[i]
  BY ConcatProperties
<1> HIDE DEF a, n
<1>2. \A i \in DOMAIN a : i \in 1..n \/ \E j \in 1..Len(r) : i = j + n
  <2> TAKE i \in DOMAIN a
  <2>1. CASE i > n
    <3>1. i - n \in 1..Len(r) /\ i = (i - n) + n
      BY <1>1, <2>1
    <3> QED
      BY <3>1
  <2> QED
    BY <1>1, <2>1
<1>3. Where(a, P) = Where(q, P) \cup U
  <2>1. ASSUME NEW i \in Where(a, P)
        PROVE  i \in Where(q, P) \/ i \in U
    <3>1. i \in DOMAIN a /\ a[i] \in P
      BY <2>1 DEF Where
    <3>2. CASE i \in 1..n
      BY <1>1, <3>1, <3>2 DEF Where
    <3>3. CASE \E j \in 1..Len(r) : i = j + n
      BY <1>1, <3>1, <3>3 DEF Where
    <3> QED
      BY <1>2, <3>1, <3>2, <3>3
  <2>2. \A i \in Where(q, P) : i \in Where(a, P)
    BY <1>1 DEF Where
  <2>3. \A j \in Where(r, P) : j + n \in Where(a, P)
    BY <1>1 DEF Where
  <2> QED
    BY <2>1, <2>2, <2>3
<1>4. Where(q, P) \cap U = {}
  BY <1>1 DEF Where
<1>5. /\ IsFiniteSet(Where(q, P)) /\ Cardinality(Where(q, P)) \in Nat
      /\ IsFiniteSet(Where(r, P)) /\ Cardinality(Where(r, P)) \in Nat
  BY WhereFinite DEF Count
<1>6. IsFiniteSet(U) /\ Cardinality(U) = Cardinality(Where(r, P))
  <2>1. Where(r, P) \subseteq Int
    BY <1>1 DEF Where
  <2>2. U \subseteq Int
    BY <1>1, <2>1
  <2>3. \A i \in Where(r, P) : i + n \in U
    OBVIOUS
  <2>4. \A u \in U : u - n \in Where(r, P)
    BY <1>1, <2>1
  <2>5. IsFiniteSet(Where(r, P)) /\ n \in Int
    BY <1>1, <1>5
  <2> HIDE DEF U
  <2> QED
    BY <2>1, <2>2, <2>3, <2>4, <2>5, ShiftedSize
<1>7. Cardinality({}) = 0
  BY FS_EmptySet
<1> HIDE DEF U
<1>8. Cardinality(Where(q, P) \cup U)
        = Cardinality(Where(q, P)) + Cardinality(U)
          - Cardinality(Where(q, P) \cap U)
  BY <1>5, <1>6, FS_Union
<1>9. Cardinality(Where(a, P))
        = Cardinality(Where(q, P)) + Cardinality(Where(r, P))
  <2>1. Cardinality(Where(q, P) \cap U) = 0
    BY <1>4, <1>7
  <2>2. Cardinality(Where(a, P)) = Cardinality(Where(q, P) \cup U)
    BY <1>3
  <2> QED
    BY <1>5, <1>6, <1>8, <2>1, <2>2
<1>10. Count(a, P) = Count(q, P) + Count(r, P)
  BY <1>9 DEF Count
<1> QED
  BY <1>10 DEF a

LEMMA CountSingle ==
  ASSUME NEW S, NEW x \in S, NEW P
  PROVE  Count(<<x>>, P) = IF x \in P THEN 1 ELSE 0
<1>1. Append(<<>>, x) = <<x>> /\ <<>> \in Seq(S)
  OBVIOUS
<1>2. Count(Append(<<>>, x), P)
        = Count(<<>>, P) + IF x \in P THEN 1 ELSE 0
  BY <1>1, CountAppend
<1> QED
  BY <1>1, <1>2, CountEmpty

LEMMA CountTail ==
  ASSUME NEW S, NEW q \in Seq(S), q # <<>>, NEW P
  PROVE  Count(q, P) = Count(Tail(q), P) + IF Head(q) \in P THEN 1 ELSE 0
<1>1. /\ Head(q) \in S /\ Tail(q) \in Seq(S) /\ <<Head(q)>> \in Seq(S)
      /\ q = <<Head(q)>> \o Tail(q)
  BY HeadTailProperties
<1> DEFINE h == Head(q)
           t == Tail(q)
<1> HIDE DEF h, t
<1>2. Count(<<h>> \o t, P) = Count(<<h>>, P) + Count(t, P)
  BY <1>1, CountConcat DEF h, t
<1>3. Count(<<h>>, P) = IF h \in P THEN 1 ELSE 0
  BY <1>1, CountSingle DEF h
<1>4. Count(t, P) \in Nat
  BY <1>1, WhereFinite DEF t
<1>5. q = <<h>> \o t
  BY <1>1 DEF h, t
<1>6. Count(q, P) = Count(t, P) + IF h \in P THEN 1 ELSE 0
  BY <1>2, <1>3, <1>4, <1>5
<1> QED
  BY <1>6 DEF h, t

-----------------------------------------------------------------------------
(* The invariant. *)

(* The types without the claim that a counter never becomes negative *)
LooseConn == [state : States, step : Steps, path : BOOLEAN, refs : Int]

Requests == {"NONE", "UP", "DOWN"}

LooseClient ==
  [conn    : [Conns -> LooseConn],
   held    : Conns \cup {NoConn},
   busy    : Int,
   valid   : BOOLEAN,
   request : Requests,
   out     : Seq(CallType)]

(* One that has not been created has got nowhere. *)
Unused(k) == k.step = "MM" /\ k.refs = 0

(* What holds of the program's state between any two of the nested calls: the
   dispatcher holds the connection that is active, and there is no other. *)
Nemo(s) ==
  /\ s \in LooseClient
  /\ \A c \in Conns : s.conn[c].state \in Active <=> s.held = c
  /\ \A c \in Conns : s.conn[c].state = "NONE" => Unused(s.conn[c])

(* How far a connection has got says what there is to use, and it is open
   exactly when it follows a context that is active. *)
Follows(k, n) ==
  /\ k.step \notin {"MM", "SIM"} => k.path
  /\ k.step \in {"CONTEXT", "READY"} => n.modem
  /\ k.step = "READY" => n.context = "VALID"
  /\ k.state = "OPEN" <=> k.step = "READY" /\ n.active

Ready(s, n) == \A c \in Conns : s.held = c => Follows(s.conn[c], n)

(* The calls that are made for a connection, those that reserve its modem, and
   the replies to either *)
CallsOf(c) == {x \in CallType : x.conn = c}
ReservesOf(c) == {x \in CallsOf(c) : x.imsi # NoImsi}
AllReplies == {m \in MessageType : m.type = "reply"}
RepliesTo(c) == {m \in AllReplies : m.call \in CallsOf(c)}
ReservedFor(c) == {m \in AllReplies : m.call \in ReservesOf(c)}

(* A reference is the dispatcher's, a call's, or not accounted for. *)
Ledger(s, c) ==
  s.conn[c].refs - Count(s.out, CallsOf(c))
                 - (IF IsActive(s, c) THEN 1 ELSE 0)

(* Somebody is going to give the reservation back. *)
Releases(q) == \E i \in DOMAIN q : q[i].imsi = NoImsi
Reserved(s) == \/ \E c \in Conns : IsActive(s, c) /\ s.conn[c].path
               \/ Releases(s.out)
Granted(q) == \E i \in DOMAIN q : /\ q[i].type = "reply"
                                  /\ q[i].ok
                                  /\ q[i].call.imsi # NoImsi

(* The references and the busy count are those of the calls on their way; a
   connection waits for one reservation while it is at SIM, and for none
   before and after; and a modem that is reserved will be given back. *)
Books ==
  /\ \A c \in Conns :
       Ledger(client, c) = Count(outbox, CallsOf(c)) + Count(inbox, RepliesTo(c))
  /\ client.busy = Len(outbox) + Count(inbox, AllReplies)
  /\ \A c \in Conns : client.held = c =>
       Count(outbox, ReservesOf(c)) + Count(inbox, ReservedFor(c))
         <= IF client.conn[c].step = "SIM" THEN 1 ELSE 0
  /\ slot # NoImsi => Reserved(client) \/ Releases(outbox) \/ Granted(inbox)

OfonoTyped ==
  /\ slot \in Imsis
  /\ up \in BOOLEAN
  /\ crashes \in 0..MaxCrashes
  /\ ~up => slot = NoImsi

(* The inductive invariant *)
NemoInv ==
  /\ Nemo(client)
  /\ Ready(client, net)
  /\ client.out = <<>>
  /\ net \in Nets
  /\ outbox \in Seq(CallType)
  /\ inbox \in Seq(MessageType)
  /\ Books
  /\ OfonoTyped

-----------------------------------------------------------------------------
(* What the operations do. *)

(* What one event may do to the connections: the one that is held resolves or
   closes, if anything. *)
Moves(s, t) ==
  \A c \in Conns :
     \/ t.conn[c].state = s.conn[c].state
     \/ /\ c = s.held
        /\ \/ /\ s.conn[c].state = "OPENING"
              /\ t.conn[c].state \in {"OPEN", "FAILED"}
           \/ s.conn[c].state = "OPEN" /\ t.conn[c].state = "CLOSED"

(* The states and the holder stay. *)
Stays(s, t) ==
  /\ t.held = s.held
  /\ \A c \in Conns : t.conn[c].state = s.conn[c].state

(* So do how far the connections have got and what they have reserved. *)
Keeps(s, t) ==
  /\ Stays(s, t)
  /\ \A c \in Conns : /\ t.conn[c].step = s.conn[c].step
                      /\ s.conn[c].path => t.conn[c].path

(* References and the busy count change with the calls only, and a
   reservation is not forgotten. *)
Charges(s, t) ==
  /\ \A c \in Conns : Ledger(t, c) = Ledger(s, c)
  /\ t.busy - Len(t.out) = s.busy - Len(s.out)
  /\ Reserved(s) => Reserved(t)

(* No modem is asked for. *)
Pays(s, t) ==
  /\ Charges(s, t)
  /\ \A c \in Conns : Count(t.out, ReservesOf(c)) = Count(s.out, ReservesOf(c))

(* A call of connection c has been answered. *)
PaysBack(s, t, c) ==
  /\ \A d \in Conns :
       /\ Ledger(t, d) = Ledger(s, d) - IF d = c THEN 1 ELSE 0
       /\ Count(t.out, ReservesOf(d)) = Count(s.out, ReservesOf(d))
  /\ t.busy - Len(t.out) = s.busy - Len(s.out) - 1
  /\ Reserved(s) => Reserved(t)

LEMMA StaysMoves ==
  ASSUME NEW s, NEW t, NEW u, Stays(s, t), Moves(t, u)
  PROVE  Moves(s, u)
  BY DEF Stays, Moves

LEMMA MovesStays ==
  ASSUME NEW s, NEW t, NEW u, Moves(s, t), Stays(t, u)
  PROVE  Moves(s, u)
  BY DEF Stays, Moves

LEMMA StayingMoves ==
  ASSUME NEW s, NEW t, Stays(s, t)
  PROVE  Moves(s, t)
  BY DEF Stays, Moves

LEMMA ReadyKept ==
  ASSUME NEW s, NEW t, NEW n, Ready(s, n), Keeps(s, t)
  PROVE  Ready(t, n)
  BY DEF Ready, Follows, Keeps, Stays

LEMMA Dropped ==
  ASSUME NEW t, NEW n, t.held = NoConn
  PROVE  Ready(t, n)
  BY NemoAssumption DEF Ready, NemoAssumption

LEMMA PaysOn ==
  ASSUME NEW s, NEW t, NEW u, Pays(s, t), Pays(t, u)
  PROVE  Pays(s, u)
  BY DEF Pays, Charges

LEMMA ChargesOn ==
  ASSUME NEW s, NEW t, NEW u, Charges(s, t), Charges(t, u)
  PROVE  Charges(s, u)
  BY DEF Charges

(* Nothing that the books are about changes. *)
LEMMA SameBooks ==
  ASSUME NEW s, NEW t, t.out = s.out, t.busy = s.busy,
         \A c \in Conns : /\ t.conn[c].refs = s.conn[c].refs
                          /\ IsActive(t, c) <=> IsActive(s, c)
                          /\ s.conn[c].path => t.conn[c].path
  PROVE  Pays(s, t)
<1>1. \A c \in Conns : Ledger(t, c) = Ledger(s, c)
  BY DEF Ledger
<1>2. Reserved(s) => Reserved(t)
  BY DEF Reserved
<1> QED
  BY <1>1, <1>2 DEF Pays, Charges

(* A state with one connection changed *)
With(s, c, k) == [s EXCEPT !.conn = [s.conn EXCEPT ![c] = k]]

LEMMA WithTyped ==
  ASSUME NEW s \in LooseClient, NEW c \in Conns, NEW k \in LooseConn
  PROVE  LET t == With(s, c, k)
         IN  /\ t \in LooseClient
             /\ t.held = s.held /\ t.busy = s.busy /\ t.valid = s.valid
             /\ t.request = s.request /\ t.out = s.out
             /\ \A d \in Conns : t.conn[d] = IF d = c THEN k ELSE s.conn[d]
<1>1. [s.conn EXCEPT ![c] = k] \in [Conns -> LooseConn]
  BY DEF LooseClient
<1> QED
  BY <1>1 DEF With, LooseClient

(* A connection changes, but for its state. *)
LEMMA WithStays ==
  ASSUME NEW s, Nemo(s), NEW c \in Conns, NEW k \in LooseConn,
         k.state = s.conn[c].state, k.state # "NONE"
  PROVE  LET t == With(s, c, k)
         IN  /\ Nemo(t) /\ Stays(s, t)
             /\ t.busy = s.busy /\ t.out = s.out
             /\ \A d \in Conns : t.conn[d] = IF d = c THEN k ELSE s.conn[d]
             /\ k.step = s.conn[c].step /\ (s.conn[c].path => k.path)
                  => Keeps(s, t)
             /\ k.refs = s.conn[c].refs /\ (s.conn[c].path => k.path)
                  => Pays(s, t)
<1> DEFINE t == With(s, c, k)
<1>1. /\ t \in LooseClient /\ t.held = s.held
      /\ t.busy = s.busy /\ t.out = s.out
      /\ \A d \in Conns : t.conn[d] = IF d = c THEN k ELSE s.conn[d]
  BY WithTyped DEF Nemo
<1> HIDE DEF t
<1>2. Stays(s, t)
  BY <1>1 DEF Stays
<1>3. Nemo(t)
  BY <1>1 DEF Nemo
<1>4. k.step = s.conn[c].step /\ (s.conn[c].path => k.path) => Keeps(s, t)
  BY <1>1, <1>2 DEF Keeps
<1>5. ASSUME k.refs = s.conn[c].refs, s.conn[c].path => k.path
      PROVE  Pays(s, t)
  <2>1. \A d \in Conns : /\ t.conn[d].refs = s.conn[d].refs
                         /\ IsActive(t, d) <=> IsActive(s, d)
                         /\ s.conn[d].path => t.conn[d].path
    BY <1>1, <1>5 DEF IsActive
  <2> QED
    BY <1>1, <2>1, SameBooks
<1> QED
  BY <1>1, <1>2, <1>3, <1>4, <1>5 DEF t

(* What does not belong to a connection changes. *)
LEMMA GlobalKeeps ==
  ASSUME NEW s, Nemo(s), NEW t \in LooseClient,
         t.conn = s.conn, t.held = s.held
  PROVE  Nemo(t) /\ Keeps(s, t)
  BY DEF Nemo, Keeps, Stays

LEMMA RequestKeeps ==
  ASSUME NEW s, Nemo(s), NEW r \in Requests
  PROVE  LET t == [s EXCEPT !.request = r]
         IN  Nemo(t) /\ Keeps(s, t) /\ Pays(s, t)
<1> DEFINE t == [s EXCEPT !.request = r]
<1>1. /\ t \in LooseClient /\ t.conn = s.conn /\ t.held = s.held
      /\ t.out = s.out /\ t.busy = s.busy
  BY DEF Nemo, LooseClient
<1> HIDE DEF t
<1>2. Pays(s, t)
  BY <1>1, SameBooks DEF IsActive
<1> QED
  BY <1>1, <1>2, GlobalKeeps DEF t

(* A call is accounted for when it is made. *)
LEMMA CallNemo ==
  ASSUME NEW s, Nemo(s), NEW c \in Conns, NEW imsi \in Imsis,
         s.conn[c].state # "NONE"
  PROVE  LET t == Call(s, c, imsi)
         IN  /\ Nemo(t) /\ Keeps(s, t) /\ Charges(s, t)
             /\ imsi = NoImsi => Pays(s, t) /\ Reserved(t)
             /\ \A d \in Conns :
                  Count(t.out, ReservesOf(d)) = Count(s.out, ReservesOf(d))
                    + IF d = c /\ imsi # NoImsi THEN 1 ELSE 0
<1> DEFINE k == [s.conn[c] EXCEPT !.refs = @ + 1]
           u == With(s, c, k)
           x == [conn |-> c, imsi |-> imsi]
           o == Append(s.out, x)
           t == [u EXCEPT !.busy = s.busy + 1, !.out = o]
<1>1. s \in LooseClient /\ s.busy + 1 \in Int /\ s.out \in Seq(CallType)
      /\ s.busy \in Int
  BY DEF Nemo, LooseClient
<1>2. /\ k \in LooseConn /\ k.state = s.conn[c].state
      /\ k.step = s.conn[c].step /\ k.path = s.conn[c].path
      /\ k.refs = s.conn[c].refs + 1
  BY <1>1 DEF LooseClient, LooseConn
<1>3. Call(s, c, imsi) = t
  BY <1>1 DEF Call, With, LooseClient
<1> HIDE DEF k
<1>4. /\ Nemo(u) /\ Keeps(s, u)
      /\ \A d \in Conns : u.conn[d] = IF d = c THEN k ELSE s.conn[d]
  BY <1>2, WithStays
<1>5. x \in CallType /\ x.conn = c /\ x.imsi = imsi
  BY DEF CallType
<1> HIDE DEF x
<1>6. /\ o \in Seq(CallType) /\ Len(o) = Len(s.out) + 1
      /\ DOMAIN o = 1..Len(o) /\ o[Len(o)] = x
      /\ \A i \in DOMAIN s.out : i \in DOMAIN o /\ o[i] = s.out[i]
      /\ Len(s.out) \in Nat
  BY <1>1, <1>5, AppendProperties
<1>7. \A P : Count(o, P) = Count(s.out, P) + IF x \in P THEN 1 ELSE 0
  BY <1>1, <1>5, CountAppend
<1> HIDE DEF o, u
<1>8. /\ t \in LooseClient /\ t.conn = u.conn /\ t.held = u.held
      /\ t.out = o /\ t.busy = s.busy + 1
  BY <1>1, <1>4, <1>6 DEF Nemo, LooseClient
<1> HIDE DEF t
<1>9. Nemo(t) /\ Keeps(u, t)
  BY <1>4, <1>8, GlobalKeeps
<1>10. Keeps(s, t)
  BY <1>4, <1>9 DEF Keeps, Stays
<1>11. \A d \in Conns : Ledger(t, d) = Ledger(s, d)
  <2> TAKE d \in Conns
  <2>1. x \in CallsOf(d) <=> d = c
    BY <1>5 DEF CallsOf
  <2>2. Count(s.out, CallsOf(d)) \in Nat /\ s.conn[d].refs \in Int
    BY <1>1, WhereFinite DEF LooseClient, LooseConn
  <2>3. Count(t.out, CallsOf(d)) = Count(s.out, CallsOf(d))
                                   + IF d = c THEN 1 ELSE 0
    BY <1>7, <1>8, <2>1
  <2>4. t.conn[d].refs = s.conn[d].refs + IF d = c THEN 1 ELSE 0
    BY <1>2, <1>4, <1>8, <2>2
  <2>5. IsActive(t, d) <=> IsActive(s, d)
    BY <1>10 DEF Keeps, Stays, IsActive
  <2> QED
    BY <2>2, <2>3, <2>4, <2>5 DEF Ledger
<1>12. Reserved(s) => Reserved(t)
  BY <1>6, <1>8, <1>10 DEF Reserved, Releases, Keeps, Stays, IsActive
<1>13. Charges(s, t)
  BY <1>1, <1>6, <1>8, <1>11, <1>12 DEF Charges
<1>14. imsi = NoImsi => Reserved(t)
  BY <1>5, <1>6, <1>8 DEF Reserved, Releases
<1>15. \A d \in Conns :
         Count(t.out, ReservesOf(d)) = Count(s.out, ReservesOf(d))
           + IF d = c /\ imsi # NoImsi THEN 1 ELSE 0
  <2> TAKE d \in Conns
  <2>1. x \in ReservesOf(d) <=> d = c /\ imsi # NoImsi
    BY <1>5 DEF ReservesOf, CallsOf
  <2> QED
    BY <1>7, <1>8, <2>1
<1>16. imsi = NoImsi => Pays(s, t)
  <2>1. \A d \in Conns : Count(s.out, ReservesOf(d)) \in Nat
    BY <1>1, WhereFinite
  <2> QED
    BY <1>13, <1>15, <2>1 DEF Pays
<1> QED
  BY <1>3, <1>9, <1>10, <1>13, <1>14, <1>15, <1>16

(* An answer gives back one reference and one of the busy count. *)
LEMMA AnsweredNemo ==
  ASSUME NEW s, Nemo(s), NEW c \in Conns, s.conn[c].state # "NONE"
  PROVE  LET t == Answered(s, c)
         IN  Nemo(t) /\ Keeps(s, t) /\ PaysBack(s, t, c)
<1> DEFINE k == [s.conn[c] EXCEPT !.refs = @ - 1]
           u == With(s, c, k)
           t == [u EXCEPT !.busy = s.busy - 1]
<1>1. s \in LooseClient /\ s.busy - 1 \in Int /\ s.out \in Seq(CallType)
      /\ s.busy \in Int
  BY DEF Nemo, LooseClient
<1>2. /\ k \in LooseConn /\ k.state = s.conn[c].state
      /\ k.step = s.conn[c].step /\ k.path = s.conn[c].path
      /\ k.refs = s.conn[c].refs - 1
  BY <1>1 DEF LooseClient, LooseConn
<1>3. Answered(s, c) = t
  BY <1>1 DEF Answered, With, LooseClient
<1> HIDE DEF k
<1>4. /\ Nemo(u) /\ Keeps(s, u) /\ u.out = s.out
      /\ \A d \in Conns : u.conn[d] = IF d = c THEN k ELSE s.conn[d]
  BY <1>2, WithStays
<1> HIDE DEF u
<1>6. /\ t \in LooseClient /\ t.conn = u.conn /\ t.held = u.held
      /\ t.out = s.out /\ t.busy = s.busy - 1
  BY <1>1, <1>4 DEF Nemo, LooseClient
<1> HIDE DEF t
<1>7. Nemo(t) /\ Keeps(u, t)
  BY <1>4, <1>6, GlobalKeeps
<1>8. Keeps(s, t)
  BY <1>4, <1>7 DEF Keeps, Stays
<1>9. \A d \in Conns : Ledger(t, d) = Ledger(s, d) - IF d = c THEN 1 ELSE 0
  <2> TAKE d \in Conns
  <2>1. Count(s.out, CallsOf(d)) \in Nat /\ s.conn[d].refs \in Int
    BY <1>1, WhereFinite DEF LooseClient, LooseConn
  <2>2. t.conn[d].refs = s.conn[d].refs - IF d = c THEN 1 ELSE 0
    BY <1>2, <1>4, <1>6, <2>1
  <2>3. IsActive(t, d) <=> IsActive(s, d)
    BY <1>8 DEF Keeps, Stays, IsActive
  <2> QED
    BY <1>6, <2>1, <2>2, <2>3 DEF Ledger
<1>10. Reserved(s) => Reserved(t)
  BY <1>6, <1>8 DEF Reserved, Keeps, Stays, IsActive
<1>11. t.busy - Len(t.out) = s.busy - Len(s.out) - 1
  <2>1. Len(s.out) \in Nat
    BY <1>1
  <2> QED
    BY <1>1, <1>6, <2>1
<1>12. PaysBack(s, t, c)
  BY <1>6, <1>9, <1>10, <1>11 DEF PaysBack
<1> QED
  BY <1>3, <1>7, <1>8, <1>12

(* How far a connection has got does not concern its state. *)
GotTo(s, c, step) == [s EXCEPT !.conn[c].step = step]

LEMMA StepNemo ==
  ASSUME NEW s, Nemo(s), NEW c \in Conns, NEW step \in Steps,
         s.conn[c].state # "NONE"
  PROVE  LET t == GotTo(s, c, step)
         IN  /\ Nemo(t) /\ Stays(s, t) /\ Pays(s, t)
             /\ t.conn[c].step = step
             /\ t.conn[c].path = s.conn[c].path
<1> DEFINE k == [s.conn[c] EXCEPT !.step = step]
<1>1. s \in LooseClient
  BY DEF Nemo
<1>2. /\ k \in LooseConn /\ k.state = s.conn[c].state /\ k.step = step
      /\ k.path = s.conn[c].path /\ k.refs = s.conn[c].refs
  BY <1>1 DEF LooseClient, LooseConn
<1>3. GotTo(s, c, step) = With(s, c, k)
  BY <1>1 DEF GotTo, With, LooseClient
<1> HIDE DEF k
<1> QED
  BY <1>2, <1>3, WithStays

(* Neither does that its modem is reserved. *)
LEMMA PathNemo ==
  ASSUME NEW s, Nemo(s), NEW c \in Conns, s.conn[c].state # "NONE"
  PROVE  LET t == [s EXCEPT !.conn[c].path = TRUE]
         IN  Nemo(t) /\ Keeps(s, t) /\ Pays(s, t) /\ t.conn[c].path
<1> DEFINE k == [s.conn[c] EXCEPT !.path = TRUE]
<1>1. s \in LooseClient
  BY DEF Nemo
<1>2. /\ k \in LooseConn /\ k.state = s.conn[c].state
      /\ k.step = s.conn[c].step /\ k.path /\ k.refs = s.conn[c].refs
  BY <1>1 DEF LooseClient, LooseConn
<1>3. [s EXCEPT !.conn[c].path = TRUE] = With(s, c, k)
  BY <1>1 DEF With, LooseClient
<1> HIDE DEF k
<1> DEFINE t == With(s, c, k)
<1>4. Nemo(t) /\ Keeps(s, t) /\ Pays(s, t) /\ t.conn[c] = k
  BY <1>2, WithStays
<1> HIDE DEF t
<1>5. Nemo(t) /\ Keeps(s, t) /\ Pays(s, t) /\ t.conn[c].path
  BY <1>2, <1>4
<1> QED
  BY <1>3, <1>5 DEF t

(* The connection that is held ends: the dispatcher's reference goes with
   it, and what it has reserved is given back. *)
LEMMA EndNemo ==
  ASSUME NEW s, Nemo(s), NEW c \in Conns, s.held = c, NEW n,
         NEW state \in {"FAILED", "CLOSED"},
         s.conn[c].state = IF state = "FAILED" THEN "OPENING" ELSE "OPEN"
  PROVE  LET t == End(s, c, n, state)
         IN  Nemo(t) /\ Moves(s, t) /\ Pays(s, t) /\ t.held = NoConn
<1> DEFINE f == IF s.conn[c].path THEN Call(s, c, NoImsi) ELSE s
           a == ContextActive(s, c, n)
           r == f.conn[c].refs - 1
           j == [f.conn[c] EXCEPT !.state = state]
           g == With(f, c, j)
           k == [j EXCEPT !.refs = r]
           u == With(g, c, k)
           t == [u EXCEPT !.held = NoConn,
                          !.request = IF a THEN "DOWN" ELSE f.request]
<1>1. /\ Nemo(f) /\ Keeps(s, f) /\ Pays(s, f)
      /\ s.conn[c].path => Reserved(f)
  <2>1. NoImsi \in Imsis /\ s.conn[c].state # "NONE"
    BY DEF Imsis
  <2>2. Keeps(s, s) /\ Pays(s, s)
    BY DEF Keeps, Stays, Pays, Charges
  <2> QED
    BY <2>1, <2>2, CallNemo
<1>2. End(s, c, n, state) =
        [f EXCEPT !.conn[c].state = state,
                  !.conn[c].refs = @ - 1,
                  !.held = NoConn,
                  !.request = IF a THEN "DOWN" ELSE @]
  BY DEF End
<1> HIDE DEF f, a
<1>3. f \in LooseClient /\ f.conn[c] \in LooseConn
  BY <1>1 DEF Nemo, LooseClient
<1>4. /\ r \in Int /\ f.conn[c].refs \in Int
      /\ j \in LooseConn /\ k \in LooseConn
      /\ k.state = state /\ k.refs = r
  <2>1. r \in Int /\ f.conn[c].refs \in Int
    BY <1>3 DEF LooseConn
  <2>2. j \in LooseConn /\ j.state = state
    BY <1>3 DEF LooseConn, States
  <2> HIDE DEF r, j
  <2> QED
    BY <2>1, <2>2 DEF LooseConn
<1>5. End(s, c, n, state) = t
  <2>1. [f EXCEPT !.conn[c].state = state] = g
    BY <1>3 DEF With, LooseClient
  <2> HIDE DEF j
  <2>2. g \in LooseClient /\ g.conn[c] = j
    BY <1>3, <1>4, WithTyped
  <2> HIDE DEF g
  <2>3. [g EXCEPT !.conn[c].refs = r] = u
    BY <2>2 DEF With, LooseClient
  <2>4. End(s, c, n, state)
          = [[[f EXCEPT !.conn[c].state = state] EXCEPT !.conn[c].refs = r]
               EXCEPT !.held = NoConn,
                      !.request = IF a THEN "DOWN" ELSE f.request]
    BY <1>2, <1>3 DEF LooseClient, LooseConn
  <2> HIDE DEF u, r
  <2> QED
    BY <2>1, <2>3, <2>4
<1> HIDE DEF j, k
<1>6. /\ u \in LooseClient /\ u.out = f.out /\ u.busy = f.busy
      /\ \A d \in Conns : u.conn[d] = IF d = c THEN k ELSE f.conn[d]
  <2>1. /\ g \in LooseClient /\ g.out = f.out /\ g.busy = f.busy
        /\ \A d \in Conns : g.conn[d] = IF d = c THEN j ELSE f.conn[d]
    BY <1>3, <1>4, WithTyped
  <2> HIDE DEF g
  <2> QED
    BY <1>4, <2>1, WithTyped
<1> HIDE DEF u
<1>8. /\ t \in LooseClient /\ t.held = NoConn /\ t.conn = u.conn
      /\ t.out = f.out /\ t.busy = f.busy
  BY <1>3, <1>6 DEF LooseClient, Requests
<1> HIDE DEF t
<1>9. \A d \in Conns : /\ t.conn[d].state = IF d = c THEN state
                                            ELSE s.conn[d].state
                       /\ d # c => t.conn[d] = f.conn[d]
  BY <1>1, <1>4, <1>6, <1>8 DEF Keeps, Stays
<1>10. \A d \in Conns : ~IsActive(t, d) /\ (IsActive(f, d) <=> d = c)
  BY <1>1, <1>9 DEF Nemo, Keeps, Stays, IsActive, Active
<1>11. Nemo(t)
  <2>1. t.held \notin Conns
    BY <1>8, NemoAssumption DEF NemoAssumption
  <2>2. \A d \in Conns : t.conn[d].state = "NONE" => Unused(t.conn[d])
    BY <1>1, <1>9 DEF Nemo, Keeps, Stays
  <2> QED
    BY <1>8, <1>10, <2>1, <2>2 DEF Nemo, IsActive
<1>12. Moves(s, t)
  BY <1>9 DEF Moves
<1>13. \A d \in Conns : Ledger(t, d) = Ledger(f, d)
  <2> TAKE d \in Conns
  <2>1. Count(f.out, CallsOf(d)) \in Nat
    BY <1>3, WhereFinite DEF LooseClient
  <2>2. CASE d = c
    <3>1. t.conn[d].refs = f.conn[d].refs - 1 /\ f.conn[d].refs \in Int
      BY <1>4, <1>6, <1>8, <2>2
    <3>2. ~IsActive(t, d) /\ IsActive(f, d)
      BY <1>10, <2>2
    <3> QED
      BY <1>8, <2>1, <3>1, <3>2 DEF Ledger
  <2>3. CASE d # c
    BY <1>8, <1>9, <1>10, <2>3 DEF Ledger
  <2> QED
    BY <2>2, <2>3
<1>14. Reserved(s) => Reserved(t)
  <2>1. ASSUME Reserved(s)
        PROVE  Releases(f.out)
    <3>1. Reserved(f)
      BY <1>1, <2>1 DEF Pays, Charges
    <3>2. CASE s.conn[c].path
      <4>1. f = Call(s, c, NoImsi)
        BY <3>2 DEF f
      <4>2. f.out = Append(s.out, [conn |-> c, imsi |-> NoImsi])
        BY <4>1 DEF Call, Nemo, LooseClient
      <4> DEFINE x == [conn |-> c, imsi |-> NoImsi]
      <4>3. s.out \in Seq(CallType) /\ x \in CallType /\ x.imsi = NoImsi
        BY DEF Nemo, LooseClient, CallType, Imsis
      <4> HIDE DEF x
      <4>4. f.out = Append(s.out, x)
        BY <4>2 DEF x
      <4>5. Len(s.out) + 1 \in DOMAIN f.out /\ f.out[Len(s.out) + 1] = x
        BY <4>3, <4>4, AppendProperties
      <4> QED
        BY <4>3, <4>5 DEF Releases
    <3>3. CASE ~s.conn[c].path
      <4>1. f = s
        BY <3>3 DEF f
      <4> QED
        BY <1>10, <3>1, <3>3, <4>1 DEF Reserved
    <3> QED
      BY <3>2, <3>3
  <2> QED
    BY <1>8, <2>1 DEF Reserved
<1>15. Pays(s, t)
  BY <1>1, <1>8, <1>13, <1>14 DEF Pays, Charges
<1> QED
  BY <1>5, <1>8, <1>11, <1>12, <1>15

LEMMA CancelNemo ==
  ASSUME NEW s, Nemo(s), NEW c \in Conns, NEW n
  PROVE  LET t == Cancel(s, c, n)
         IN  /\ Nemo(t) /\ Moves(s, t) /\ Pays(s, t)
             /\ s.held = c => t.held = NoConn
             /\ s.held # c => t = s
<1>1. CASE s.held = c
  <2>1. s.conn[c].state \in Active
    BY <1>1 DEF Nemo
  <2>2. CASE s.conn[c].state = "OPENING"
    <3>1. Cancel(s, c, n) = End(s, c, n, "FAILED")
      BY <2>2 DEF Cancel
    <3> QED
      BY <1>1, <2>2, <3>1, EndNemo
  <2>3. CASE s.conn[c].state = "OPEN"
    <3>1. Cancel(s, c, n) = End(s, c, n, "CLOSED")
      BY <2>3 DEF Cancel
    <3> QED
      BY <1>1, <2>3, <3>1, EndNemo
  <2> QED
    BY <2>1, <2>2, <2>3 DEF Active
<1>2. CASE s.held # c
  <2>1. Cancel(s, c, n) = s
    BY <1>2 DEF Cancel, Nemo, Active
  <2> QED
    BY <1>2, <2>1 DEF Moves, Pays, Charges
<1> QED
  BY <1>1, <1>2

(* The connection that is held is open, from now on if not before. *)
LEMMA OpenedNemo ==
  ASSUME NEW s, Nemo(s), NEW c \in Conns, s.held = c
  PROVE  LET t == [s EXCEPT !.conn[c].state = "OPEN"]
         IN  /\ Nemo(t) /\ Moves(s, t) /\ Pays(s, t)
             /\ t.held = c /\ t.conn[c].state = "OPEN"
             /\ t.conn[c].step = s.conn[c].step
             /\ t.conn[c].path = s.conn[c].path
<1> DEFINE k == [s.conn[c] EXCEPT !.state = "OPEN"]
           t == With(s, c, k)
<1>1. s \in LooseClient /\ s.conn[c].state \in Active
  BY DEF Nemo
<1>2. /\ k \in LooseConn /\ k.state = "OPEN" /\ k.step = s.conn[c].step
      /\ k.path = s.conn[c].path /\ k.refs = s.conn[c].refs
  BY <1>1 DEF LooseClient, LooseConn, States
<1>3. [s EXCEPT !.conn[c].state = "OPEN"] = t
  BY <1>1 DEF With, LooseClient
<1> HIDE DEF k
<1>4. /\ t \in LooseClient /\ t.held = s.held
      /\ t.out = s.out /\ t.busy = s.busy
      /\ \A d \in Conns : t.conn[d] = IF d = c THEN k ELSE s.conn[d]
  BY <1>1, <1>2, WithTyped
<1> HIDE DEF t
<1>5. Nemo(t)
  BY <1>2, <1>4 DEF Nemo, Active
<1>6. Moves(s, t)
  BY <1>1, <1>2, <1>4 DEF Moves, Active
<1>7. \A d \in Conns : /\ t.conn[d].refs = s.conn[d].refs
                       /\ IsActive(t, d) <=> IsActive(s, d)
                       /\ s.conn[d].path => t.conn[d].path
  BY <1>1, <1>2, <1>4 DEF IsActive, Active
<1>8. Pays(s, t)
  BY <1>4, <1>7, SameBooks
<1> QED
  BY <1>2, <1>3, <1>4, <1>5, <1>6, <1>8

(* The modem is there, and so is its context. *)
Usable(s, c, n) ==
  s.held = c /\ s.conn[c].path /\ n.modem /\ n.context = "VALID"

LEMMA CheckContextNemo ==
  ASSUME NEW s, Nemo(s), NEW c \in Conns, NEW n \in Nets,
         Usable(s, c, n), s.conn[c].step = "READY",
         s.conn[c].state = "OPEN" => n.active
  PROVE  LET t == CheckContext(s, c, n)
         IN  Nemo(t) /\ Moves(s, t) /\ Ready(t, n) /\ Pays(s, t)
<1> DEFINE u == [s EXCEPT !.request = "UP"]
           o == [s EXCEPT !.conn[c].state = "OPEN"]
<1>1. s.conn[c].state \in {"OPENING", "OPEN"} /\ s.held = c
  BY DEF Nemo, Active, Usable
<1>2. CASE s.conn[c].state = "OPENING" /\ n.active
  <2>1. CheckContext(s, c, n) = o
    BY <1>2 DEF CheckContext
  <2>2. /\ Nemo(o) /\ Moves(s, o) /\ Pays(s, o)
        /\ o.held = c /\ o.conn[c].state = "OPEN"
        /\ o.conn[c].step = "READY" /\ o.conn[c].path
    BY <1>1, OpenedNemo DEF Usable
  <2> HIDE DEF o
  <2>3. Ready(o, n)
    BY <1>2, <2>2 DEF Ready, Follows, Usable
  <2> QED
    BY <2>1, <2>2, <2>3
<1>3. CASE ~(s.conn[c].state = "OPENING" /\ n.active)
  <2>1. CheckContext(s, c, n) = s \/ CheckContext(s, c, n) = u
    BY <1>1, <1>3 DEF CheckContext
  <2>2. Ready(s, n)
    BY <1>1, <1>3 DEF Ready, Follows, Usable
  <2>3. Nemo(u) /\ Keeps(s, u) /\ Pays(s, u)
    BY RequestKeeps DEF Requests
  <2> HIDE DEF u
  <2>4. Moves(s, u) /\ Ready(u, n) /\ Moves(s, s) /\ Pays(s, s)
    BY <2>2, <2>3, ReadyKept, StayingMoves DEF Keeps, Moves, Pays, Charges
  <2> QED
    BY <2>1, <2>2, <2>3, <2>4
<1> QED
  BY <1>2, <1>3

LEMMA SetupContextNemo ==
  ASSUME NEW s, Nemo(s), NEW c \in Conns, NEW n \in Nets,
         Usable(s, c, n), s.conn[c].state = "OPENING"
  PROVE  LET t == SetupContext(s, c, n)
         IN  Nemo(t) /\ Moves(s, t) /\ Ready(t, n) /\ Pays(s, t)
<1> DEFINE u == GotTo(s, c, "READY")
<1>1. /\ Nemo(u) /\ Stays(s, u) /\ Pays(s, u)
      /\ u.conn[c].step = "READY" /\ u.conn[c].path = s.conn[c].path
  BY StepNemo DEF Steps
<1>2. SetupContext(s, c, n) = CheckContext(u, c, n)
  BY DEF SetupContext, GotTo
<1> HIDE DEF u
<1> DEFINE t == CheckContext(u, c, n)
<1>3. Usable(u, c, n) /\ u.conn[c].state = "OPENING"
  BY <1>1 DEF Usable, Stays
<1>4. Nemo(t) /\ Moves(u, t) /\ Ready(t, n) /\ Pays(u, t)
  BY <1>1, <1>3, CheckContextNemo
<1> HIDE DEF t
<1>5. Moves(s, t) /\ Pays(s, t)
  BY <1>1, <1>4, StaysMoves, PaysOn
<1> QED
  BY <1>2, <1>4, <1>5 DEF t

LEMMA InitContextNemo ==
  ASSUME NEW s, Nemo(s), NEW c \in Conns, s.held = c, NEW n \in Nets,
         s.conn[c].path, s.conn[c].state = "OPENING", n.modem
  PROVE  LET t == InitContext(s, c, n)
         IN  Nemo(t) /\ Moves(s, t) /\ Ready(t, n) /\ Pays(s, t)
<1>1. n.context \in {"NONE", "INVALID", "VALID"}
  BY DEF Nets, NetType
<1>2. CASE n.context = "NONE"
  <2>1. InitContext(s, c, n) = Cancel(s, c, n)
    BY <1>2 DEF InitContext
  <2> DEFINE t == Cancel(s, c, n)
  <2>2. Nemo(t) /\ Moves(s, t) /\ Pays(s, t) /\ t.held = NoConn
    BY CancelNemo
  <2> HIDE DEF t
  <2>3. Ready(t, n)
    BY <2>2, Dropped
  <2> QED
    BY <2>1, <2>2, <2>3 DEF t
<1>3. CASE n.context = "INVALID"
  <2> DEFINE u == GotTo(s, c, "CONTEXT")
  <2>1. InitContext(s, c, n) = u
    BY <1>3 DEF InitContext, GotTo
  <2>2. "CONTEXT" \in Steps
    BY DEF Steps
  <2>3. /\ Nemo(u) /\ Stays(s, u) /\ Pays(s, u)
        /\ u.conn[c].step = "CONTEXT" /\ u.conn[c].path
    BY <2>2, StepNemo
  <2> HIDE DEF u
  <2>4. Moves(s, u) /\ Ready(u, n)
    BY <2>3 DEF Stays, Moves, Ready, Follows
  <2> QED
    BY <2>1, <2>3, <2>4
<1>4. CASE n.context = "VALID"
  <2>1. InitContext(s, c, n) = SetupContext(s, c, n)
    BY <1>4 DEF InitContext
  <2> QED
    BY <1>4, <2>1, SetupContextNemo DEF Usable
<1> QED
  BY <1>1, <1>2, <1>3, <1>4

(* The modem is asked for, by a connection that waits for the manager. *)
LEMMA RequestSimNemo ==
  ASSUME NEW s, Nemo(s), NEW c \in Conns, s.held = c,
         s.conn[c].state = "OPENING"
  PROVE  LET t == RequestSim(s, c)
         IN  /\ Nemo(t) /\ Stays(s, t) /\ Charges(s, t)
             /\ \A n : Ready(t, n)
             /\ t.conn[c].step = "SIM"
             /\ Count(t.out, ReservesOf(c)) = Count(s.out, ReservesOf(c)) + 1
<1> DEFINE u == GotTo(s, c, "SIM")
           t == Call(u, c, Imsi[c])
<1>1. /\ Nemo(u) /\ Stays(s, u) /\ Pays(s, u)
      /\ u.conn[c].step = "SIM"
  <2>1. "SIM" \in Steps
    BY DEF Steps
  <2> QED
    BY <2>1, StepNemo
<1>2. RequestSim(s, c) = t
  BY DEF RequestSim, GotTo
<1> HIDE DEF u
<1>3. Imsi[c] \in Imsis /\ Imsi[c] # NoImsi /\ u.conn[c].state = "OPENING"
  BY <1>1, NemoAssumption DEF Imsis, NemoAssumption, Stays
<1>4. /\ Nemo(t) /\ Keeps(u, t) /\ Charges(u, t)
      /\ Count(t.out, ReservesOf(c)) = Count(u.out, ReservesOf(c)) + 1
  BY <1>1, <1>3, CallNemo
<1> HIDE DEF t
<1>5. \A n : Ready(t, n)
  BY <1>1, <1>3, <1>4 DEF Keeps, Stays, Ready, Follows
<1>6. Charges(s, t)
  BY <1>1, <1>4, ChargesOn DEF Pays
<1>7. Count(t.out, ReservesOf(c)) = Count(s.out, ReservesOf(c)) + 1
  BY <1>1, <1>4 DEF Pays
<1> QED
  BY <1>1, <1>2, <1>4, <1>5, <1>6, <1>7 DEF Keeps, Stays

(* An answer is accounted for after it has been handled. *)
LEMMA AnsweredLast ==
  ASSUME NEW s, NEW c \in Conns, NEW n, NEW h,
         Nemo(h), Moves(s, h), Ready(h, n), Pays(s, h),
         h.conn[c].state # "NONE"
  PROVE  LET t == Answered(h, c)
         IN  /\ Nemo(t) /\ Moves(s, t) /\ Ready(t, n) /\ PaysBack(s, t, c)
             /\ Keeps(s, h) => Keeps(s, t)
             /\ Reserved(h) => Reserved(t)
<1> DEFINE t == Answered(h, c)
<1>1. Nemo(t) /\ Keeps(h, t) /\ PaysBack(h, t, c)
  BY AnsweredNemo
<1> HIDE DEF t
<1>2. Moves(s, t) /\ Ready(t, n)
  BY <1>1, MovesStays, ReadyKept DEF Keeps
<1>3. PaysBack(s, t, c)
  BY <1>1 DEF PaysBack, Pays, Charges
<1>4. (Keeps(s, h) => Keeps(s, t)) /\ (Reserved(h) => Reserved(t))
  BY <1>1 DEF Keeps, Stays, PaysBack
<1> QED
  BY <1>1, <1>2, <1>3, <1>4 DEF t

LEMMA SetDoneNemo ==
  ASSUME NEW s, Nemo(s), NEW c \in Conns, NEW n \in Nets, NEW ok,
         s.conn[c].state # "NONE",
         s.held = c => s.conn[c].state = "OPENING",
         s.held # c => Ready(s, n)
  PROVE  LET t == SetDone(s, c, n, ok)
         IN  /\ Nemo(t) /\ Moves(s, t) /\ Ready(t, n) /\ PaysBack(s, t, c)
             /\ s.held # c => Keeps(s, t)
             /\ ok => Reserved(t)
<1> DEFINE p == [s EXCEPT !.conn[c].path = TRUE]
           q == [s EXCEPT !.conn[c].path = TRUE, !.request = "NONE"]
           m == GotTo(q, c, "MODEM")
           h == IF ~ok THEN Cancel(s, c, n)
                ELSE IF s.conn[c].state # "OPENING" THEN Call(p, c, NoImsi)
                ELSE IF n.modem THEN InitContext(q, c, n)
                ELSE m
           Good(x) == /\ Nemo(x) /\ Moves(s, x) /\ Ready(x, n) /\ Pays(s, x)
                      /\ x.conn[c].state # "NONE"
                      /\ s.held # c => Keeps(s, x)
                      /\ ok => Reserved(x)
<1>1. SetDone(s, c, n, ok) = Answered(h, c)
  BY DEF SetDone, GotTo
<1>2. Nemo(p) /\ Keeps(s, p) /\ Pays(s, p) /\ p.conn[c].path
  BY PathNemo
<1>3. Nemo(q) /\ Keeps(s, q) /\ Pays(s, q) /\ q.conn[c].path
  <2>1. q = [p EXCEPT !.request = "NONE"]
    OBVIOUS
  <2> HIDE DEF p, q
  <2>2. Nemo(q) /\ Keeps(p, q) /\ Pays(p, q)
    BY <1>2, <2>1, RequestKeeps DEF Requests
  <2>3. Pays(s, q)
    BY <1>2, <2>2, PaysOn
  <2> QED
    BY <1>2, <2>2, <2>3 DEF Keeps, Stays
<1> HIDE DEF p, q
<1>4. ASSUME ~ok
      PROVE  Good(h)
  <2> DEFINE t == Cancel(s, c, n)
  <2>1. /\ Nemo(t) /\ Moves(s, t) /\ Pays(s, t)
        /\ s.held = c => t.held = NoConn
        /\ s.held # c => t = s
    BY CancelNemo
  <2> HIDE DEF t
  <2>2. Ready(t, n)
    BY <2>1, Dropped
  <2>3. s.held # c => Keeps(s, t)
    BY <2>1 DEF Keeps, Stays
  <2>4. t.conn[c].state # "NONE"
    BY <2>1 DEF Moves
  <2>5. Good(t)
    BY <1>4, <2>1, <2>2, <2>3, <2>4
  <2>6. h = t
    BY <1>4 DEF t
  <2> HIDE DEF Good, h
  <2> QED
    BY <2>5, <2>6
<1>5. ASSUME ok, s.conn[c].state # "OPENING"
      PROVE  Good(h)
  <2> DEFINE t == Call(p, c, NoImsi)
  <2>1. NoImsi \in Imsis /\ p.conn[c].state # "NONE"
    BY <1>2 DEF Imsis, Keeps, Stays
  <2>2. Nemo(t) /\ Keeps(p, t) /\ Pays(p, t) /\ Reserved(t)
    BY <1>2, <2>1, CallNemo
  <2>3. h = t
    BY <1>5
  <2> HIDE DEF t
  <2>4. Ready(s, n)
    BY <1>5
  <2>5. Keeps(s, t) /\ Pays(s, t)
    BY <1>2, <2>2, PaysOn DEF Keeps, Stays
  <2>6. Ready(t, n) /\ Moves(s, t) /\ t.conn[c].state # "NONE"
    BY <2>4, <2>5, ReadyKept, StayingMoves DEF Keeps, Stays
  <2>7. Good(t)
    BY <2>2, <2>5, <2>6
  <2> HIDE DEF Good, h
  <2> QED
    BY <2>3, <2>7
<1>6. ASSUME ok, s.conn[c].state = "OPENING"
      PROVE  Good(h)
  <2>1. /\ s.held = c /\ q.held = c /\ q.conn[c].state = "OPENING"
        /\ IsActive(q, c)
    BY <1>3, <1>6 DEF Nemo, IsActive, Active, Keeps, Stays
  <2>2. Reserved(q)
    BY <1>3, <2>1 DEF Reserved
  <2>3. ASSUME NEW x, Nemo(x), Moves(q, x), Ready(x, n), Pays(q, x)
        PROVE  Good(x)
    <3>1. Moves(s, x) /\ Pays(s, x)
      BY <1>3, <2>3, StaysMoves, PaysOn DEF Keeps
    <3>2. x.conn[c].state # "NONE"
      BY <2>1, <2>3 DEF Moves
    <3>3. Reserved(x)
      BY <2>2, <2>3 DEF Pays, Charges
    <3> QED
      BY <2>1, <2>3, <3>1, <3>2, <3>3
  <2>4. CASE n.modem
    <3> DEFINE t == InitContext(q, c, n)
    <3>1. Nemo(t) /\ Moves(q, t) /\ Ready(t, n) /\ Pays(q, t)
      BY <1>3, <2>1, <2>4, InitContextNemo
    <3>2. h = t
      BY <1>6, <2>4
    <3> HIDE DEF t, Good, h
    <3> QED
      BY <2>3, <3>1, <3>2
  <2>5. CASE ~n.modem
    <3>1. /\ Nemo(m) /\ Stays(q, m) /\ Pays(q, m)
          /\ m.conn[c].step = "MODEM" /\ m.conn[c].path
      BY <1>3, <2>1, StepNemo DEF Steps
    <3>2. h = m
      BY <1>6, <2>5
    <3> HIDE DEF m, Good, h
    <3>3. Moves(q, m) /\ Ready(m, n)
      BY <2>1, <3>1 DEF Stays, Moves, Ready, Follows
    <3> QED
      BY <2>3, <3>1, <3>2, <3>3
  <2> QED
    BY <2>4, <2>5
<1>7. Good(h)
  BY <1>4, <1>5, <1>6
<1> HIDE DEF h
<1> DEFINE t == Answered(h, c)
<1>8. /\ Nemo(t) /\ Moves(s, t) /\ Ready(t, n) /\ PaysBack(s, t, c)
      /\ s.held # c => Keeps(s, t)
      /\ ok => Reserved(t)
  BY <1>7, AnsweredLast
<1> QED
  BY <1>1, <1>8

(* The context becomes active, or an open connection's becomes inactive. *)
LEMMA ActiveChangedNemo ==
  ASSUME NEW s, Nemo(s), NEW c \in Conns, NEW n,
         Usable(s, c, n), s.conn[c].step = "READY",
         ~n.active => s.conn[c].state = "OPEN"
  PROVE  LET t == ActiveChanged(s, c, n)
         IN  Nemo(t) /\ Moves(s, t) /\ Ready(t, n) /\ Pays(s, t)
<1>1. CASE n.active
  <2> DEFINE o == [s EXCEPT !.conn[c].state = "OPEN"]
             r == IF s.request = "UP" THEN "NONE" ELSE s.request
             t == [o EXCEPT !.request = r]
  <2>1. /\ Nemo(o) /\ Moves(s, o) /\ Pays(s, o)
        /\ o.held = c /\ o.conn[c].state = "OPEN"
        /\ o.conn[c].step = "READY" /\ o.conn[c].path
    BY OpenedNemo DEF Usable
  <2>2. ActiveChanged(s, c, n) = t
    BY <1>1 DEF ActiveChanged
  <2>3. r \in Requests
    BY DEF Nemo, LooseClient, Requests
  <2> HIDE DEF o, r
  <2>4. Nemo(t) /\ Keeps(o, t) /\ Pays(o, t)
    BY <2>1, <2>3, RequestKeeps
  <2> HIDE DEF t
  <2>5. Ready(o, n)
    BY <1>1, <2>1 DEF Ready, Follows, Usable
  <2>6. Ready(t, n) /\ Moves(s, t) /\ Pays(s, t)
    BY <2>1, <2>4, <2>5, ReadyKept, MovesStays, PaysOn DEF Keeps
  <2> QED
    BY <2>2, <2>4, <2>6
<1>2. CASE ~n.active
  <2> DEFINE u == [s EXCEPT !.request = "NONE"]
             t == End(u, c, n, "CLOSED")
  <2>1. Nemo(u) /\ Keeps(s, u) /\ Pays(s, u)
    BY RequestKeeps DEF Requests
  <2>2. ActiveChanged(s, c, n) = t
    BY <1>2 DEF ActiveChanged
  <2> HIDE DEF u
  <2>3. Nemo(t) /\ Moves(u, t) /\ Pays(u, t) /\ t.held = NoConn
    BY <1>2, <2>1, EndNemo DEF Keeps, Stays, Usable
  <2> HIDE DEF t
  <2>4. Ready(t, n) /\ Moves(s, t) /\ Pays(s, t)
    BY <2>1, <2>3, Dropped, StaysMoves, PaysOn DEF Keeps
  <2> QED
    BY <2>2, <2>3, <2>4
<1> QED
  BY <1>1, <1>2

(* Whatever becomes of the modem, the connection that is held follows. *)
LEMMA NetHandledNemo ==
  ASSUME NEW s, Nemo(s), NEW c \in Conns, s.held = c, NEW n \in Nets,
         net \in Nets, Ready(s, net)
  PROVE  LET t == NetHandled(s, c, n)
         IN  Nemo(t) /\ Moves(s, t) /\ Ready(t, n) /\ Pays(s, t)
<1> DEFINE Good(t) == Nemo(t) /\ Moves(s, t) /\ Ready(t, n) /\ Pays(s, t)
           k == s.conn[c]
           t == NetHandled(s, c, n)
<1>1. /\ k.state \in Active /\ k.step \in Steps
      /\ n.context \in {"NONE", "INVALID", "VALID"}
      /\ n.active \in BOOLEAN /\ net.active \in BOOLEAN
  BY DEF Nemo, LooseClient, LooseConn, Nets, NetType
<1>2. Follows(k, net)
  BY DEF Ready
<1>3. Good(Cancel(s, c, n))
  <2> DEFINE u == Cancel(s, c, n)
  <2>1. Nemo(u) /\ Moves(s, u) /\ Pays(s, u) /\ u.held = NoConn
    BY CancelNemo
  <2> HIDE DEF u
  <2> QED
    BY <2>1, Dropped DEF u
<1>4. ASSUME k.step = "MODEM", n.modem
      PROVE  Good(InitContext(s, c, n))
  BY <1>1, <1>2, <1>4, InitContextNemo DEF Follows, Active
<1>5. ASSUME k.step = "CONTEXT", n.modem, n.context = "VALID"
      PROVE  Good(SetupContext(s, c, n))
  <2>1. Usable(s, c, n) /\ k.state = "OPENING"
    BY <1>1, <1>2, <1>5 DEF Usable, Follows, Active
  <2> QED
    BY <2>1, SetupContextNemo
<1>6. ASSUME k.step = "READY", n.modem, n.context = "VALID"
      PROVE  Usable(s, c, n)
  BY <1>2, <1>6 DEF Usable, Follows
<1>7. ASSUME k.step = "READY", n.modem, n.context = "VALID",
             n.active # net.active
      PROVE  Good(ActiveChanged(s, c, n))
  <2>1. ~n.active => s.conn[c].state = "OPEN"
    BY <1>1, <1>2, <1>7 DEF Follows
  <2> QED
    BY <1>6, <1>7, <2>1, ActiveChangedNemo
<1>8. ASSUME k.step = "READY", n.modem, n.context = "VALID",
             n.active = net.active
      PROVE  Good(CheckContext(s, c, n))
  <2>1. s.conn[c].state = "OPEN" => n.active
    BY <1>2, <1>8 DEF Follows
  <2> QED
    BY <1>6, <1>8, <2>1, CheckContextNemo
<1>9. ASSUME Follows(k, n)
      PROVE  Good(s)
  BY <1>9 DEF Ready, Moves, Pays, Charges
<1>10. \/ k.step = "MODEM" /\ n.modem /\ t = InitContext(s, c, n)
       \/ t = Cancel(s, c, n)
       \/ /\ k.step = "CONTEXT" /\ n.modem /\ n.context = "VALID"
          /\ t = SetupContext(s, c, n)
       \/ /\ k.step = "READY" /\ n.modem /\ n.context = "VALID"
          /\ \/ n.active # net.active /\ t = ActiveChanged(s, c, n)
             \/ n.active = net.active /\ t = CheckContext(s, c, n)
       \/ Follows(k, n) /\ t = s
  <2> HIDE DEF k
  <2> DEFINE usable == n.modem /\ n.context = "VALID"
  <2>1. t = CASE k.step = "MODEM" /\ n.modem -> InitContext(s, c, n)
              [] \/ k.step = "CONTEXT" /\ ~n.modem
                 \/ k.step = "READY" /\ ~usable -> Cancel(s, c, n)
              [] k.step = "CONTEXT" /\ usable -> SetupContext(s, c, n)
              [] k.step = "READY" /\ usable /\ n.active # net.active ->
                   ActiveChanged(s, c, n)
              [] /\ k.step = "READY" /\ usable /\ n.active = net.active
                 /\ n.attached /\ ~net.attached -> CheckContext(s, c, n)
              [] OTHER -> s
    BY DEF NetHandled, k
  <2> HIDE DEF t
  <2>2. CASE k.step \in {"MM", "SIM", "MODEM"}
    <3>1. k.step = "MODEM" /\ n.modem => t = InitContext(s, c, n)
      BY <2>1
    <3>2. ~(k.step = "MODEM" /\ n.modem) => t = s
      BY <2>1, <2>2
    <3>3. Follows(k, n)
      BY <1>2, <2>2 DEF Follows
    <3> QED
      BY <3>1, <3>2, <3>3
  <2>3. CASE k.step = "CONTEXT"
    <3>1. ~n.modem => t = Cancel(s, c, n)
      BY <2>1, <2>3
    <3>2. n.modem /\ n.context = "VALID" => t = SetupContext(s, c, n)
      BY <2>1, <2>3
    <3>3. n.modem /\ n.context # "VALID" => t = s /\ Follows(k, n)
      BY <1>2, <2>1, <2>3 DEF Follows
    <3> QED
      BY <2>3, <3>1, <3>2, <3>3
  <2>4. CASE k.step = "READY"
    <3>1. ~usable => t = Cancel(s, c, n)
      BY <2>1, <2>4
    <3>2. usable /\ n.active # net.active => t = ActiveChanged(s, c, n)
      BY <2>1, <2>4
    <3>3. n.modem /\ n.context = "VALID" /\ n.active = net.active
            => \/ t = CheckContext(s, c, n)
               \/ t = s /\ Follows(k, n)
      BY <1>2, <2>1, <2>4 DEF Follows
    <3> QED
      BY <2>4, <3>1, <3>2, <3>3
  <2> QED
    BY <1>1, <2>2, <2>3, <2>4 DEF Steps
<1> HIDE DEF t, k, Good
<1>11. Good(t)
  BY <1>3, <1>4, <1>5, <1>7, <1>8, <1>9, <1>10
<1> QED
  BY <1>11 DEF Good, t

-----------------------------------------------------------------------------
(* The actions. *)

LEMMA CountMono ==
  ASSUME NEW S, NEW q \in Seq(S), NEW P, NEW Q, P \subseteq Q,
         Count(q, Q) = 0
  PROVE  Count(q, P) = 0
<1>1. \A i \in DOMAIN q : q[i] \notin Q
  BY CountZero
<1> QED
  BY <1>1, CountZero

(* What the operation s leaves, and the calls that it makes *)
LEMMA BecomesNemo ==
  ASSUME NemoInv, NEW s, Nemo(s), Becomes(s), Ready(s, net')
  PROVE  /\ Nemo(client') /\ Keeps(s, client') /\ Ready(client', net')
         /\ client'.out = <<>>
         /\ outbox' \in Seq(CallType)
         /\ client'.busy = s.busy
         /\ Len(outbox') = Len(outbox) + Len(s.out)
         /\ \A P : Count(outbox', P) = Count(outbox, P) + Count(s.out, P)
         /\ \A c \in Conns :
              Ledger(client', c) = Ledger(s, c) + Count(s.out, CallsOf(c))
         /\ Releases(outbox') <=> Releases(outbox) \/ Releases(s.out)
         /\ Reserved(s) => Reserved(client') \/ Releases(outbox')
<1>1. client' = [s EXCEPT !.out = <<>>] /\ outbox' = outbox \o s.out
  BY DEF Becomes
<1>2. s \in LooseClient /\ <<>> \in Seq(CallType)
  BY DEF Nemo
<1>3. /\ client' \in LooseClient
      /\ client'.conn = s.conn /\ client'.held = s.held
      /\ client'.out = <<>> /\ client'.busy = s.busy
  BY <1>1, <1>2 DEF LooseClient
<1>4. Nemo(client') /\ Keeps(s, client')
  BY <1>3, GlobalKeeps
<1>5. s.out \in Seq(CallType) /\ outbox \in Seq(CallType)
  BY <1>2 DEF LooseClient, NemoInv
<1>6. /\ outbox' \in Seq(CallType) /\ Len(outbox') = Len(outbox) + Len(s.out)
      /\ DOMAIN outbox' = 1..(Len(outbox) + Len(s.out))
      /\ \A i \in 1..Len(outbox) : outbox'[i] = outbox[i]
      /\ \A i \in 1..Len(s.out) : outbox'[i + Len(outbox)] = s.out[i]
      /\ DOMAIN outbox = 1..Len(outbox) /\ DOMAIN s.out = 1..Len(s.out)
      /\ Len(outbox) \in Nat /\ Len(s.out) \in Nat
  BY <1>1, <1>5, ConcatProperties
<1>7. \A P : Count(outbox', P) = Count(outbox, P) + Count(s.out, P)
  BY <1>1, <1>5, CountConcat
<1>8. \A c \in Conns :
        Ledger(client', c) = Ledger(s, c) + Count(s.out, CallsOf(c))
  <2> TAKE c \in Conns
  <2>1. Count(client'.out, CallsOf(c)) = 0
    BY <1>3, CountEmpty
  <2>2. Count(s.out, CallsOf(c)) \in Nat /\ s.conn[c].refs \in Int
    BY <1>2, <1>5, WhereFinite DEF LooseClient, LooseConn
  <2>3. (IsActive(client', c) <=> IsActive(s, c))
        /\ client'.conn[c].refs = s.conn[c].refs
    BY <1>3 DEF IsActive
  <2> QED
    BY <2>1, <2>2, <2>3 DEF Ledger
<1>9. Releases(outbox') <=> Releases(outbox) \/ Releases(s.out)
  <2>1. Releases(outbox) => Releases(outbox')
    BY <1>6 DEF Releases
  <2>2. ASSUME NEW i \in DOMAIN s.out, s.out[i].imsi = NoImsi
        PROVE  Releases(outbox')
    <3>1. i + Len(outbox) \in DOMAIN outbox'
      BY <1>6
    <3>2. outbox'[i + Len(outbox)].imsi = NoImsi
      BY <1>6, <2>2
    <3> QED
      BY <3>1, <3>2 DEF Releases
  <2>3. ASSUME NEW i \in DOMAIN outbox', outbox'[i].imsi = NoImsi
        PROVE  Releases(outbox) \/ Releases(s.out)
    <3>1. CASE i <= Len(outbox)
      BY <1>6, <2>3, <3>1 DEF Releases
    <3>2. CASE i > Len(outbox)
      <4> DEFINE j == i - Len(outbox)
      <4>1. j \in DOMAIN s.out /\ i = j + Len(outbox)
        BY <1>6, <3>2
      <4>2. s.out[j].imsi = NoImsi
        BY <1>6, <2>3, <4>1
      <4> QED
        BY <4>1, <4>2 DEF Releases
    <3> QED
      BY <1>6, <3>1, <3>2
  <2> QED
    BY <2>1, <2>2, <2>3 DEF Releases
<1>10. Reserved(s) => Reserved(client') \/ Releases(outbox')
  BY <1>3, <1>9 DEF Reserved, IsActive
<1> QED
  BY <1>3, <1>4, <1>6, <1>7, <1>8, <1>9, <1>10, ReadyKept

LEMMA LedgerTyped ==
  ASSUME NEW s \in LooseClient, NEW c \in Conns
  PROVE  Ledger(s, c) \in Int
<1>1. s.conn[c].refs \in Int /\ s.out \in Seq(CallType)
  BY DEF LooseClient, LooseConn
<1>2. Count(s.out, CallsOf(c)) \in Nat
  BY <1>1, WhereFinite
<1> QED
  BY <1>1, <1>2 DEF Ledger

(* Events happen to the connection that is held. *)
LEMMA HeldBefore ==
  ASSUME NEW s, Nemo(s), NEW t, Nemo(t), Moves(s, t),
         NEW c \in Conns, t.held = c
  PROVE  s.held = c
  BY DEF Nemo, Moves, Active

(* An account that gained what its counterpart gained still agrees with it. *)
LEMMA Balanced ==
  ASSUME NEW a \in Int, NEW b \in Int, NEW x \in Int, NEW y \in Int,
         NEW i \in Int, NEW j \in Int,
         a = x + i, b - a = j - i
  PROVE  b + y = (x + y) + j
  OBVIOUS

(* How the books are kept when the program's state becomes s *)
LEMMA BooksInv ==
  ASSUME NemoInv, NEW s, Nemo(s), Ready(s, net'), Becomes(s), net' \in Nets,
         UNCHANGED <<slot, up, crashes>>,
         inbox' \in Seq(MessageType),
         \A c \in Conns :
           Ledger(s, c) - Ledger(client, c)
             = Count(inbox', RepliesTo(c)) - Count(inbox, RepliesTo(c)),
         s.busy - Len(s.out) - client.busy
           = Count(inbox', AllReplies) - Count(inbox, AllReplies),
         \A c \in Conns : s.held = c =>
           Count(outbox, ReservesOf(c)) + Count(s.out, ReservesOf(c))
             + Count(inbox', ReservedFor(c))
               <= IF s.conn[c].step = "SIM" THEN 1 ELSE 0,
         slot # NoImsi => Reserved(s) \/ Releases(outbox) \/ Granted(inbox')
  PROVE  NemoInv' /\ Keeps(s, client')
<1>1. /\ Nemo(client') /\ Keeps(s, client') /\ Ready(client', net')
      /\ client'.out = <<>>
      /\ outbox' \in Seq(CallType)
      /\ client'.busy = s.busy
      /\ Len(outbox') = Len(outbox) + Len(s.out)
      /\ \A P : Count(outbox', P) = Count(outbox, P) + Count(s.out, P)
      /\ \A c \in Conns :
           Ledger(client', c) = Ledger(s, c) + Count(s.out, CallsOf(c))
      /\ Releases(outbox') <=> Releases(outbox) \/ Releases(s.out)
      /\ Reserved(s) => Reserved(client') \/ Releases(outbox')
  BY BecomesNemo
<1>2. /\ s.out \in Seq(CallType) /\ s.busy \in Int /\ client.busy \in Int
      /\ outbox \in Seq(CallType) /\ inbox \in Seq(MessageType)
      /\ \A c \in Conns : s.conn[c].refs \in Int /\ client.conn[c].refs \in Int
      /\ client.out \in Seq(CallType)
  BY DEF NemoInv, Nemo, LooseClient, LooseConn
<1>3. Len(s.out) \in Nat /\ Len(outbox) \in Nat
  BY <1>2
<1>4. \A P : /\ Count(s.out, P) \in Nat /\ Count(outbox, P) \in Nat
             /\ Count(inbox, P) \in Nat /\ Count(inbox', P) \in Nat
             /\ Count(client.out, P) \in Nat
  BY <1>2, WhereFinite
<1>5. \A c \in Conns : Ledger(s, c) \in Int /\ Ledger(client, c) \in Int
  BY LedgerTyped DEF NemoInv, Nemo
<1>6. \A c \in Conns : Ledger(client', c)
        = Count(outbox', CallsOf(c)) + Count(inbox', RepliesTo(c))
  <2> TAKE c \in Conns
  <2>1. Ledger(client, c)
          = Count(outbox, CallsOf(c)) + Count(inbox, RepliesTo(c))
    BY DEF NemoInv, Books
  <2>2. Count(outbox', CallsOf(c))
          = Count(outbox, CallsOf(c)) + Count(s.out, CallsOf(c))
    BY <1>1
  <2>3. /\ Count(outbox, CallsOf(c)) \in Nat /\ Count(s.out, CallsOf(c)) \in Nat
        /\ Count(inbox, RepliesTo(c)) \in Nat
        /\ Count(inbox', RepliesTo(c)) \in Nat
    BY <1>4
  <2>4. Ledger(s, c) - Ledger(client, c)
          = Count(inbox', RepliesTo(c)) - Count(inbox, RepliesTo(c))
    OBVIOUS
  <2>5. Ledger(client', c) = Ledger(s, c) + Count(s.out, CallsOf(c))
    BY <1>1
  <2>6. Ledger(s, c) \in Int /\ Ledger(client, c) \in Int
    BY <1>5
  <2>7. Ledger(s, c) + Count(s.out, CallsOf(c))
          = (Count(outbox, CallsOf(c)) + Count(s.out, CallsOf(c)))
            + Count(inbox', RepliesTo(c))
    BY <2>1, <2>3, <2>4, <2>6, Balanced
  <2> QED
    BY <2>2, <2>5, <2>7
<1>7. client'.busy = Len(outbox') + Count(inbox', AllReplies)
  <2>1. client.busy = Len(outbox) + Count(inbox, AllReplies)
    BY DEF NemoInv, Books
  <2>2. Count(inbox, AllReplies) \in Nat /\ Count(inbox', AllReplies) \in Nat
    BY <1>4
  <2>3. s.busy - Len(s.out) - client.busy
          = Count(inbox', AllReplies) - Count(inbox, AllReplies)
    OBVIOUS
  <2>4. s.busy \in Int /\ client.busy \in Int
    BY <1>2
  <2>5. client'.busy = s.busy /\ Len(outbox') = Len(outbox) + Len(s.out)
    BY <1>1
  <2> DEFINE b == s.busy - Len(s.out)
             i == Count(inbox, AllReplies)
             j == Count(inbox', AllReplies)
             n == Len(outbox)
             k == client.busy
  <2>6. b \in Int /\ b + Len(s.out) = s.busy
    BY <1>3, <2>4
  <2>7. b - k = j - i /\ k = n + i
    BY <2>1, <2>3
  <2>8. n \in Int /\ i \in Int /\ j \in Int /\ k \in Int
    BY <1>3, <2>2, <2>4
  <2> HIDE DEF b, i, j, n, k
  <2>9. b + Len(s.out) = (n + Len(s.out)) + j
    BY <1>3, <2>6, <2>7, <2>8
  <2> QED
    BY <2>5, <2>6, <2>9 DEF j, n
<1>8. \A c \in Conns : client'.held = c =>
        Count(outbox', ReservesOf(c)) + Count(inbox', ReservedFor(c))
          <= IF client'.conn[c].step = "SIM" THEN 1 ELSE 0
  <2> TAKE c \in Conns
  <2>1. Count(outbox', ReservesOf(c))
          = Count(outbox, ReservesOf(c)) + Count(s.out, ReservesOf(c))
    BY <1>1
  <2> QED
    BY <1>1, <2>1 DEF Keeps, Stays
<1>9. slot' # NoImsi => Reserved(client') \/ Releases(outbox') \/ Granted(inbox')
  BY <1>1
<1>10. Books'
  BY <1>6, <1>7, <1>8, <1>9 DEF Books
<1>11. OfonoTyped'
  BY DEF NemoInv, OfonoTyped
<1> QED
  BY <1>1, <1>10, <1>11 DEF NemoInv

(* An event that the program handles without asking for a modem; if the
   connection is held on, it had got past that or stays where it was. *)
LEMMA EventInv ==
  ASSUME NemoInv, NEW s, Nemo(s), Moves(client, s), Pays(client, s),
         Ready(s, net'), Becomes(s), net' \in Nets,
         UNCHANGED <<slot, up, crashes>>,
         inbox' \in Seq(MessageType),
         \A P : P \subseteq AllReplies => Count(inbox', P) = Count(inbox, P),
         Granted(inbox) => Granted(inbox'),
         \A c \in Conns : s.held = c =>
           (client.conn[c].step = "SIM" => s.conn[c].step = "SIM")
  PROVE  NemoInv' /\ Moves(client, client')
<1>1. \A c \in Conns : RepliesTo(c) \subseteq AllReplies
                       /\ ReservedFor(c) \subseteq AllReplies
  BY DEF RepliesTo, ReservedFor
<1>2. /\ client.out = <<>> /\ outbox \in Seq(CallType)
      /\ inbox \in Seq(MessageType) /\ client.busy \in Int /\ s.busy \in Int
      /\ s.out \in Seq(CallType)
      /\ Nemo(client)
      /\ \A c \in Conns : s.conn[c].refs \in Int
      /\ \A c \in Conns : client.conn[c].refs \in Int
  BY DEF NemoInv, Nemo, LooseClient, LooseConn
<1>3. Len(client.out) = 0 /\ Len(s.out) \in Nat
  BY <1>2
<1>4. \A P : /\ Count(s.out, P) \in Nat /\ Count(outbox, P) \in Nat
             /\ Count(inbox, P) \in Nat /\ Count(inbox', P) \in Nat
             /\ Count(client.out, P) = 0
  BY <1>2, WhereFinite, CountEmpty
<1>5. \A c \in Conns : Ledger(s, c) \in Int /\ Ledger(client, c) \in Int
  BY LedgerTyped DEF NemoInv, Nemo
<1>6. \A c \in Conns :
        Ledger(s, c) - Ledger(client, c)
          = Count(inbox', RepliesTo(c)) - Count(inbox, RepliesTo(c))
  BY <1>1, <1>4, <1>5 DEF Pays, Charges
<1>7. s.busy - Len(s.out) - client.busy
        = Count(inbox', AllReplies) - Count(inbox, AllReplies)
  BY <1>2, <1>3, <1>4 DEF Pays, Charges
<1>8. \A c \in Conns : s.held = c =>
        Count(outbox, ReservesOf(c)) + Count(s.out, ReservesOf(c))
          + Count(inbox', ReservedFor(c))
            <= IF s.conn[c].step = "SIM" THEN 1 ELSE 0
  <2> SUFFICES ASSUME NEW c \in Conns, s.held = c
               PROVE  Count(outbox, ReservesOf(c)) + Count(s.out, ReservesOf(c))
                        + Count(inbox', ReservedFor(c))
                          <= IF s.conn[c].step = "SIM" THEN 1 ELSE 0
    OBVIOUS
  <2>1. client.held = c
    BY <1>2, HeldBefore
  <2>2. Count(outbox, ReservesOf(c)) + Count(inbox, ReservedFor(c))
          <= IF client.conn[c].step = "SIM" THEN 1 ELSE 0
    BY <2>1 DEF NemoInv, Books
  <2>3. Count(s.out, ReservesOf(c)) = 0
    BY <1>4 DEF Pays
  <2>4. Count(inbox', ReservedFor(c)) = Count(inbox, ReservedFor(c))
    BY <1>1
  <2> QED
    BY <1>4, <2>2, <2>3, <2>4
<1>9. slot # NoImsi => Reserved(s) \/ Releases(outbox) \/ Granted(inbox')
  BY DEF NemoInv, Books, Pays, Charges
<1>10. NemoInv' /\ Keeps(s, client')
  BY <1>6, <1>7, <1>8, <1>9, BooksInv
<1> QED
  BY <1>10, MovesStays DEF Keeps

LEMMA HeldTyped ==
  ASSUME NemoInv, Held # NoConn
  PROVE  Held \in Conns /\ client.held = Held
  BY DEF NemoInv, Nemo, LooseClient, Held

(* A connection that is not referenced has nothing on its way. *)
LEMMA NothingPending ==
  ASSUME NemoInv, NEW c \in Conns, Ledger(client, c) = 0
  PROVE  /\ Count(outbox, CallsOf(c)) = 0 /\ Count(inbox, RepliesTo(c)) = 0
         /\ Count(outbox, ReservesOf(c)) = 0
         /\ Count(inbox, ReservedFor(c)) = 0
<1>1. outbox \in Seq(CallType) /\ inbox \in Seq(MessageType)
  BY DEF NemoInv
<1>2. Count(outbox, CallsOf(c)) \in Nat /\ Count(inbox, RepliesTo(c)) \in Nat
  BY <1>1, WhereFinite
<1>3. Ledger(client, c)
        = Count(outbox, CallsOf(c)) + Count(inbox, RepliesTo(c))
  BY DEF NemoInv, Books
<1>4. Count(outbox, CallsOf(c)) = 0 /\ Count(inbox, RepliesTo(c)) = 0
  BY <1>2, <1>3
<1>5. ReservesOf(c) \subseteq CallsOf(c) /\ ReservedFor(c) \subseteq RepliesTo(c)
  BY DEF ReservesOf, CallsOf, ReservedFor, RepliesTo
<1> QED
  BY <1>1, <1>4, <1>5, CountMono

(* One that has not been created is not referenced. *)
LEMMA UnusedLedger ==
  ASSUME NemoInv, NEW c \in Conns, client.conn[c].state = "NONE"
  PROVE  Ledger(client, c) = 0
<1>1. client.conn[c].refs = 0 /\ client.out = <<>> /\ ~IsActive(client, c)
  BY DEF NemoInv, Nemo, Unused, IsActive, Active
<1>2. Count(client.out, CallsOf(c)) = 0
  BY <1>1, CountEmpty
<1> QED
  BY <1>1, <1>2 DEF Ledger

LEMMA OpenInv ==
  ASSUME NemoInv, NEW c \in Conns, Open(c)
  PROVE  NemoInv' /\ Life!LifeOpen(c)
<1> DEFINE k == [client.conn[c] EXCEPT !.state = "OPENING"]
           g == [client EXCEPT !.conn[c].state = "OPENING"]
           l == [g.conn[c] EXCEPT !.refs = 1]
           u == [g EXCEPT !.conn[c].refs = 1]
           new == [client EXCEPT !.conn[c].state = "OPENING",
                                 !.conn[c].refs = 1,
                                 !.held = c]
           s == IF client.valid THEN RequestSim(new, c) ELSE new
<1>1. /\ client \in LooseClient /\ client.held = NoConn
      /\ client.conn[c].state = "NONE" /\ client.conn[c].step = "MM"
      /\ client.conn[c].refs = 0
      /\ Becomes(s) /\ UNCHANGED <<net, inbox, slot, up, crashes>>
  BY DEF Open, Held, NemoInv, Nemo, Unused
<1>2. \A d \in Conns : client.conn[d].state \notin Active
  BY <1>1, NemoAssumption DEF NemoInv, Nemo, NemoAssumption
<1>3. client.conn[c] \in LooseConn
  BY <1>1 DEF LooseClient
<1>4. k \in LooseConn /\ k.state = "OPENING" /\ k.step = "MM"
  BY <1>1, <1>3 DEF LooseConn, States
<1>5. new = [u EXCEPT !.held = c]
  OBVIOUS
<1>6. /\ u \in LooseClient /\ u.out = client.out /\ u.busy = client.busy
      /\ u.conn[c].state = "OPENING" /\ u.conn[c].step = "MM"
      /\ u.conn[c].refs = 1
      /\ \A d \in Conns : d # c => u.conn[d] = client.conn[d]
  <2>1. g = With(client, c, k)
    BY <1>1 DEF With, LooseClient
  <2> HIDE DEF g, k
  <2>2. /\ g \in LooseClient /\ g.conn[c] = k
        /\ g.out = client.out /\ g.busy = client.busy
        /\ \A d \in Conns : d # c => g.conn[d] = client.conn[d]
    BY <1>1, <1>4, <2>1, WithTyped
  <2>3. l \in LooseConn /\ l.state = "OPENING" /\ l.step = "MM" /\ l.refs = 1
    BY <1>4, <2>2 DEF LooseConn
  <2>4. u = With(g, c, l)
    BY <2>2 DEF With, LooseClient
  <2> HIDE DEF l, u
  <2> QED
    BY <2>2, <2>3, <2>4, WithTyped
<1> HIDE DEF u, new
<1>7. /\ new \in LooseClient /\ new.conn = u.conn /\ new.held = c
      /\ new.out = client.out /\ new.busy = client.busy
  BY <1>5, <1>6 DEF LooseClient
<1>8. /\ new.conn[c].state = "OPENING" /\ new.conn[c].step = "MM"
      /\ new.conn[c].refs = 1
      /\ \A d \in Conns : d # c => new.conn[d] = client.conn[d]
  BY <1>6, <1>7
<1>9. Nemo(new)
  BY <1>1, <1>2, <1>7, <1>8 DEF Nemo, NemoInv, Active
<1>10. \A n : Ready(new, n)
  BY <1>7, <1>8 DEF Ready, Follows
<1>11. \A d \in Conns : Ledger(new, d) = Ledger(client, d)
  <2> TAKE d \in Conns
  <2>1. CASE d = c
    <3>1. Ledger(client, c) = 0
      BY <1>1, UnusedLedger
    <3>2. Count(new.out, CallsOf(c)) = 0
      BY <1>7, CountEmpty DEF NemoInv
    <3>3. IsActive(new, c)
      BY <1>8 DEF IsActive, Active
    <3> QED
      BY <1>8, <2>1, <3>1, <3>2, <3>3 DEF Ledger
  <2>2. CASE d # c
    BY <1>7, <1>8, <2>2 DEF Ledger, IsActive
  <2> QED
    BY <2>1, <2>2
<1>12. /\ Count(outbox, ReservesOf(c)) = 0
       /\ Count(inbox, ReservedFor(c)) = 0
       /\ Count(new.out, ReservesOf(c)) = 0
       /\ client.out = <<>>
  <2>1. Ledger(client, c) = 0 /\ client.out = <<>>
    BY <1>1, UnusedLedger DEF NemoInv
  <2> QED
    BY <1>7, <2>1, NothingPending, CountEmpty
<1>13. ~Reserved(client)
  BY <1>2, <1>12 DEF Reserved, IsActive, Releases
<1>14. Charges(new, new) /\ Stays(new, new)
  BY <1>13 DEF Charges, Stays
<1>15. /\ Nemo(s) /\ Stays(new, s) /\ Charges(new, s)
       /\ \A n : Ready(s, n)
       /\ Count(s.out, ReservesOf(c))
            <= IF s.conn[c].step = "SIM" THEN 1 ELSE 0
  <2>1. CASE client.valid
    <3> DEFINE r == RequestSim(new, c)
    <3>1. /\ Nemo(r) /\ Stays(new, r) /\ Charges(new, r)
          /\ \A n : Ready(r, n)
          /\ r.conn[c].step = "SIM"
          /\ Count(r.out, ReservesOf(c)) = Count(new.out, ReservesOf(c)) + 1
      BY <1>7, <1>8, <1>9, RequestSimNemo
    <3>2. s = r
      BY <2>1
    <3> HIDE DEF r, s
    <3> QED
      BY <1>12, <3>1, <3>2
  <2>2. CASE ~client.valid
    <3>1. s = new
      BY <2>2
    <3> QED
      BY <1>9, <1>10, <1>12, <1>14, <3>1
  <2> QED
    BY <2>1, <2>2
<1> HIDE DEF s
<1>16. s.held = c /\ net' \in Nets /\ inbox' \in Seq(MessageType)
  BY <1>1, <1>7, <1>15 DEF Stays, NemoInv
<1>17. /\ s.out \in Seq(CallType) /\ s.busy \in Int /\ client.busy \in Int
       /\ Len(client.out) = 0 /\ inbox \in Seq(MessageType)
       /\ s \in LooseClient
  BY <1>1, <1>12, <1>15 DEF Nemo, LooseClient, NemoInv
<1>18. \A P : Count(inbox, P) \in Nat /\ Count(s.out, P) \in Nat
  BY <1>17, WhereFinite
<1>19. \A d \in Conns :
         Ledger(s, d) - Ledger(client, d)
           = Count(inbox', RepliesTo(d)) - Count(inbox, RepliesTo(d))
  <2> TAKE d \in Conns
  <2>1. Ledger(s, d) = Ledger(client, d) /\ Ledger(client, d) \in Int
    BY <1>1, <1>11, <1>15, LedgerTyped DEF Charges
  <2>2. Count(inbox, RepliesTo(d)) \in Nat /\ inbox' = inbox
    BY <1>1, <1>18
  <2> QED
    BY <2>1, <2>2
<1>20. s.busy - Len(s.out) - client.busy
         = Count(inbox', AllReplies) - Count(inbox, AllReplies)
  <2>1. s.busy - Len(s.out) = client.busy - 0
    BY <1>7, <1>15, <1>17 DEF Charges
  <2>2. Count(inbox, AllReplies) \in Nat /\ inbox' = inbox
    BY <1>1, <1>18
  <2> QED
    BY <1>17, <2>1, <2>2
<1>21. \A d \in Conns : s.held = d =>
         Count(outbox, ReservesOf(d)) + Count(s.out, ReservesOf(d))
           + Count(inbox', ReservedFor(d))
             <= IF s.conn[d].step = "SIM" THEN 1 ELSE 0
  BY <1>1, <1>12, <1>15, <1>16, <1>18
<1>22. slot # NoImsi => Reserved(s) \/ Releases(outbox) \/ Granted(inbox')
  BY <1>1, <1>13 DEF NemoInv, Books
<1>23. NemoInv' /\ Keeps(s, client')
  BY <1>1, <1>15, <1>16, <1>19, <1>20, <1>21, <1>22, BooksInv
<1>24. \A d \in Conns : client'.conn[d].state = IF d = c THEN "OPENING"
                                                ELSE client.conn[d].state
  BY <1>8, <1>15, <1>23 DEF Keeps, Stays
<1>25. Life!LifeOpen(c)
  BY <1>1, <1>2, <1>24 DEF Life!LifeOpen, Life!ActiveStates, Active
<1> QED
  BY <1>23, <1>25

(* The inbox does not change. *)
LEMMA SameInbox ==
  ASSUME NemoInv, NEW s, Nemo(s), Moves(client, s), Pays(client, s),
         Ready(s, net'), Becomes(s), net' \in Nets,
         UNCHANGED <<inbox, slot, up, crashes>>,
         \A c \in Conns : s.held = c =>
           (client.conn[c].step = "SIM" => s.conn[c].step = "SIM")
  PROVE  NemoInv' /\ Moves(client, client')
<1>1. inbox' \in Seq(MessageType)
  BY DEF NemoInv
<1> QED
  BY <1>1, EventInv

LEMMA CloseInv ==
  ASSUME NemoInv, Close
  PROVE  NemoInv' /\ Moves(client, client')
<1> DEFINE u == [client EXCEPT !.request = "DOWN"]
           t == Cancel(client, Held, net)
           s == IF ContextActive(client, Held, net) THEN u ELSE t
<1>1. Held \in Conns /\ client.held = Held /\ Nemo(client)
      /\ Ready(client, net)
  BY HeldTyped DEF Close, NemoInv
<1>2. Becomes(s) /\ UNCHANGED <<net, inbox, slot, up, crashes>>
  BY DEF Close
<1>3. Nemo(u) /\ Keeps(client, u) /\ Pays(client, u)
  BY <1>1, RequestKeeps DEF Requests
<1>4. Nemo(t) /\ Moves(client, t) /\ Pays(client, t) /\ t.held = NoConn
  BY <1>1, CancelNemo
<1> HIDE DEF u, t
<1>5. /\ Moves(client, u) /\ Ready(u, net)
      /\ \A c \in Conns : u.conn[c].step = client.conn[c].step
  BY <1>1, <1>3, ReadyKept, StayingMoves DEF Keeps
<1>6. Ready(t, net) /\ \A c \in Conns : t.held # c
  BY <1>4, Dropped, NemoAssumption DEF NemoAssumption
<1>7. /\ Nemo(s) /\ Moves(client, s) /\ Ready(s, net') /\ Pays(client, s)
      /\ \A c \in Conns : s.held = c =>
           (client.conn[c].step = "SIM" => s.conn[c].step = "SIM")
  BY <1>2, <1>3, <1>4, <1>5, <1>6
<1> HIDE DEF s
<1> QED
  BY <1>2, <1>7, SameInbox DEF NemoInv

LEMMA NetChangedInv ==
  ASSUME NemoInv, NEW n \in Nets, NetChanged(n)
  PROVE  NemoInv' /\ Moves(client, client')
<1> DEFINE s == NetHandled(client, Held, n)
<1>1. /\ Held \in Conns /\ client.held = Held
      /\ client.conn[Held].step \notin {"MM", "SIM"}
  BY HeldTyped DEF NetChanged
<1>2. Becomes(s) /\ net' = n /\ UNCHANGED <<inbox, slot, up, crashes>>
  BY DEF NetChanged
<1>3. Nemo(s) /\ Moves(client, s) /\ Ready(s, n) /\ Pays(client, s)
  BY <1>1, NetHandledNemo DEF NemoInv
<1> HIDE DEF s
<1>4. \A c \in Conns : s.held = c => client.held = c
  BY <1>3, HeldBefore DEF NemoInv
<1> QED
  BY <1>1, <1>2, <1>3, <1>4, SameInbox

LEMMA ActivateFailedInv ==
  ASSUME NemoInv, ActivateFailed
  PROVE  NemoInv' /\ Moves(client, client')
<1> DEFINE u == [client EXCEPT !.request = "NONE"]
           s == Cancel(u, Held, net)
<1>1. Held \in Conns /\ client.held = Held /\ Nemo(client)
  BY HeldTyped DEF ActivateFailed, At, NemoInv
<1>2. Becomes(s) /\ UNCHANGED <<net, inbox, slot, up, crashes>>
  BY DEF ActivateFailed
<1>3. Nemo(u) /\ Keeps(client, u) /\ Pays(client, u)
  BY <1>1, RequestKeeps DEF Requests
<1> HIDE DEF u
<1>4. Nemo(s) /\ Moves(u, s) /\ Pays(u, s) /\ s.held = NoConn
  BY <1>1, <1>3, CancelNemo DEF Keeps, Stays
<1> HIDE DEF s
<1>5. /\ Moves(client, s) /\ Ready(s, net') /\ Pays(client, s)
      /\ \A c \in Conns : s.held # c
  BY <1>3, <1>4, StaysMoves, PaysOn, Dropped, NemoAssumption
  DEF Keeps, NemoAssumption
<1> QED
  BY <1>2, <1>4, <1>5, SameInbox DEF NemoInv

(* ofono's own steps leave the program alone. *)
LEMMA OfonoInv ==
  ASSUME NemoInv, UNCHANGED <<client, net>>,
         outbox' \in Seq(CallType), inbox' \in Seq(MessageType),
         Books', OfonoTyped'
  PROVE  NemoInv' /\ Moves(client, client')
  BY DEF NemoInv, Moves

(* There is no reply in q. *)
Silent(q) == \A P : P \subseteq AllReplies => Count(q, P) = 0

LEMMA SignalTyped ==
  ASSUME NEW imsi \in Imsis
  PROVE  /\ SlotSignal(imsi) \in Seq(MessageType)
         /\ Silent(SlotSignal(imsi))
<1> DEFINE x == [type |-> "imsi", imsi |-> imsi]
<1>1. x \in MessageType /\ x.type # "reply"
  BY DEF MessageType
<1>2. \A P : P \subseteq AllReplies => x \notin P
  BY <1>1 DEF AllReplies
<1> HIDE DEF x
<1>3. <<>> \in Seq(MessageType) /\ <<x>> \in Seq(MessageType)
  BY <1>1
<1>4. Silent(<<x>>) /\ Silent(<<>>)
  BY <1>1, <1>2, CountSingle, CountEmpty DEF Silent
<1>5. SlotSignal(imsi) = <<>> \/ SlotSignal(imsi) = <<x>>
  BY DEF SlotSignal, x
<1> QED
  BY <1>3, <1>4, <1>5

(* The reply to a call is the reply of its connection. *)
LEMMA ReplyOf ==
  ASSUME NEW call \in CallType, NEW ok \in BOOLEAN
  PROVE  LET m == Reply(call, ok)
         IN  /\ m \in MessageType /\ m \in AllReplies
             /\ m.type = "reply" /\ m.call = call /\ m.ok = ok
             /\ \A c \in Conns : /\ m \in RepliesTo(c) <=> call \in CallsOf(c)
                                 /\ m \in ReservedFor(c) <=> call \in ReservesOf(c)
<1>1. /\ Reply(call, ok) \in MessageType
      /\ Reply(call, ok).type = "reply" /\ Reply(call, ok).call = call
      /\ Reply(call, ok).ok = ok
  BY DEF Reply, MessageType
<1> QED
  BY <1>1 DEF AllReplies, RepliesTo, ReservedFor

LEMMA SubReplies ==
  \A c \in Conns : RepliesTo(c) \subseteq AllReplies
                   /\ ReservedFor(c) \subseteq AllReplies
  BY DEF RepliesTo, ReservedFor

(* What comes later does not take back what has been granted. *)
LEMMA GrantedOn ==
  ASSUME NEW q \in Seq(MessageType), NEW r \in Seq(MessageType)
  PROVE  Granted(q) \/ Granted(r) => Granted(q \o r)
<1>1. /\ DOMAIN (q \o r) = 1..(Len(q) + Len(r))
      /\ \A i \in 1..Len(q) : (q \o r)[i] = q[i]
      /\ \A i \in 1..Len(r) : (q \o r)[i + Len(q)] = r[i]
      /\ DOMAIN q = 1..Len(q) /\ DOMAIN r = 1..Len(r)
      /\ Len(q) \in Nat /\ Len(r) \in Nat
  BY ConcatProperties
<1>2. Granted(q) => Granted(q \o r)
  BY <1>1 DEF Granted
<1>3. ASSUME NEW i \in DOMAIN r, r[i].type = "reply", r[i].ok,
             r[i].call.imsi # NoImsi
      PROVE  Granted(q \o r)
  <2>1. i + Len(q) \in DOMAIN (q \o r) /\ (q \o r)[i + Len(q)] = r[i]
    BY <1>1
  <2> QED
    BY <1>3, <2>1 DEF Granted
<1> QED
  BY <1>2, <1>3 DEF Granted

LEMMA AppendAsConcat ==
  ASSUME NEW S, NEW q \in Seq(S), NEW x \in S
  PROVE  Append(q, x) = q \o <<x>> /\ <<x>> \in Seq(S)
  OBVIOUS

(* What ofono sends when it answers a call with m *)
LEMMA Answers ==
  ASSUME NemoInv, NEW m \in AllReplies,
         NEW signal \in Seq(MessageType), Silent(signal),
         NEW q, q \in {Append(inbox, m) \o signal, Append(inbox \o signal, m),
                       Append(inbox, m)}
  PROVE  /\ q \in Seq(MessageType)
         /\ \A P : P \subseteq AllReplies =>
              /\ m \in P => Count(q, P) = Count(inbox, P) + 1
              /\ m \notin P => Count(q, P) = Count(inbox, P)
         /\ Granted(inbox) => Granted(q)
         /\ m.ok /\ m.call.imsi # NoImsi => Granted(q)
<1> DEFINE a == Append(inbox, m)
           b == inbox \o signal
<1>1. m \in MessageType /\ m.type = "reply"
  BY DEF AllReplies
<1>2. inbox \in Seq(MessageType) /\ a \in Seq(MessageType)
      /\ b \in Seq(MessageType) /\ <<m>> \in Seq(MessageType)
      /\ a = inbox \o <<m>>
  BY <1>1, AppendProperties, ConcatProperties, AppendAsConcat DEF NemoInv
<1>3. q \in {a \o signal, Append(b, m), a}
  OBVIOUS
<1>4. Append(b, m) = b \o <<m>>
  BY <1>1, <1>2, AppendAsConcat
<1>5. \A P : Count(inbox, P) \in Nat
  BY <1>2, WhereFinite
<1>6. m.ok /\ m.call.imsi # NoImsi => Granted(<<m>>)
  <2>1. 1 \in DOMAIN <<m>> /\ <<m>>[1] = m
    OBVIOUS
  <2> QED
    BY <1>1, <2>1 DEF Granted
<1>7. \A P : /\ Count(a, P) = Count(inbox, P) + IF m \in P THEN 1 ELSE 0
             /\ Count(b, P) = Count(inbox, P) + Count(signal, P)
  <2> TAKE P
  <2>1. Count(a, P) = Count(inbox, P) + IF m \in P THEN 1 ELSE 0
    BY <1>1, <1>2, CountAppend
  <2>2. Count(b, P) = Count(inbox, P) + Count(signal, P)
    BY <1>2, CountConcat
  <2> QED
    BY <2>1, <2>2
<1>8. \A P : /\ Count(a \o signal, P) = Count(a, P) + Count(signal, P)
             /\ Count(Append(b, m), P) = Count(b, P) + IF m \in P THEN 1 ELSE 0
  <2> TAKE P
  <2> HIDE DEF a, b
  <2>1. Count(a \o signal, P) = Count(a, P) + Count(signal, P)
    BY <1>2, CountConcat
  <2>2. Count(Append(b, m), P) = Count(b, P) + IF m \in P THEN 1 ELSE 0
    BY <1>1, <1>2, CountAppend
  <2> QED
    BY <2>1, <2>2
<1>9. /\ Granted(inbox) \/ Granted(<<m>>) => Granted(a)
      /\ Granted(inbox) => Granted(b)
  BY <1>2, GrantedOn
<1>10. /\ Granted(a) => Granted(a \o signal)
       /\ Granted(b) \/ Granted(<<m>>) => Granted(Append(b, m))
  BY <1>2, <1>4, GrantedOn
<1> HIDE DEF a, b
<1>11. q \in Seq(MessageType)
  <2>1. a \o signal \in Seq(MessageType)
    BY <1>2, ConcatProperties
  <2>2. Append(b, m) \in Seq(MessageType)
    BY <1>1, <1>2, AppendProperties
  <2> QED
    BY <1>2, <1>3, <2>1, <2>2
<1>12. ASSUME NEW P, P \subseteq AllReplies
       PROVE  /\ m \in P => Count(q, P) = Count(inbox, P) + 1
              /\ m \notin P => Count(q, P) = Count(inbox, P)
  <2>1. Count(signal, P) = 0 /\ Count(inbox, P) \in Nat
    BY <1>5, <1>12 DEF Silent
  <2>2. /\ Count(a, P) = Count(inbox, P) + IF m \in P THEN 1 ELSE 0
        /\ Count(b, P) = Count(inbox, P)
    BY <1>7, <2>1
  <2>3. /\ Count(a \o signal, P) = Count(a, P)
        /\ Count(Append(b, m), P) = Count(b, P) + IF m \in P THEN 1 ELSE 0
    BY <1>8, <2>1, <2>2
  <2> DEFINE Gained(r) == /\ m \in P => Count(r, P) = Count(inbox, P) + 1
                          /\ m \notin P => Count(r, P) = Count(inbox, P)
  <2>4. Gained(a)
    BY <2>1, <2>2
  <2>5. Gained(a \o signal)
    BY <2>3, <2>4
  <2>6. Gained(Append(b, m))
    BY <2>1, <2>2, <2>3
  <2>7. Gained(q)
    <3> HIDE DEF Gained
    <3> QED
      BY <1>3, <2>4, <2>5, <2>6
  <2> QED
    BY <2>7
<1>13. /\ Granted(inbox) => Granted(q)
       /\ m.ok /\ m.call.imsi # NoImsi => Granted(q)
  BY <1>3, <1>6, <1>9, <1>10
<1> QED
  BY <1>11, <1>12, <1>13

LEMMA ServeInv ==
  ASSUME NemoInv, Serve
  PROVE  NemoInv' /\ Moves(client, client')
<1> DEFINE call == Head(outbox)
           signal == SlotSignal(call.imsi)
<1>1. /\ call \in CallType /\ outbox' \in Seq(CallType)
      /\ outbox' = Tail(outbox) /\ outbox # <<>>
      /\ outbox \in Seq(CallType) /\ inbox \in Seq(MessageType)
      /\ Len(outbox') = Len(outbox) - 1 /\ Len(outbox) \in Nat
  BY HeadTailProperties DEF Serve, NemoInv
<1>2. /\ signal \in Seq(MessageType) /\ call.imsi \in Imsis
      /\ Silent(signal)
  BY <1>1, SignalTyped DEF CallType
<1>3. PICK ok \in BOOLEAN :
        /\ inbox' \in {Append(inbox, Reply(call, ok)) \o signal,
                       Append(inbox \o signal, Reply(call, ok)),
                       Append(inbox, Reply(call, ok))}
        /\ \/ up /\ ok /\ slot' = call.imsi
           \/ (~up \/ call.imsi # NoImsi) /\ slot' = slot
  BY DEF Serve
<1> DEFINE m == Reply(call, ok)
<1>4. /\ m \in AllReplies /\ m.ok = ok /\ m.call = call
      /\ \A c \in Conns : /\ m \in RepliesTo(c) <=> call \in CallsOf(c)
                          /\ m \in ReservedFor(c) <=> call \in ReservesOf(c)
  BY <1>1, ReplyOf
<1>5. inbox' \in {Append(inbox, m) \o signal, Append(inbox \o signal, m),
                 Append(inbox, m)}
  BY <1>3
<1> HIDE DEF m, signal
<1>6. /\ inbox' \in Seq(MessageType)
      /\ \A P : P \subseteq AllReplies =>
           /\ m \in P => Count(inbox', P) = Count(inbox, P) + 1
           /\ m \notin P => Count(inbox', P) = Count(inbox, P)
      /\ Granted(inbox) => Granted(inbox')
      /\ m.ok /\ m.call.imsi # NoImsi => Granted(inbox')
  BY <1>2, <1>4, <1>5, Answers
<1>7. \A P : Count(outbox, P) = Count(outbox', P) + IF call \in P THEN 1 ELSE 0
  BY <1>1, CountTail
<1>8. \A P : /\ Count(outbox, P) \in Nat /\ Count(outbox', P) \in Nat
             /\ Count(inbox, P) \in Nat /\ Count(inbox', P) \in Nat
  BY <1>1, <1>6, WhereFinite
<1>9. UNCHANGED <<client, net, up, crashes>>
  BY DEF Serve
<1>10. \A c \in Conns :
        Count(outbox', CallsOf(c)) + Count(inbox', RepliesTo(c))
          = Count(outbox, CallsOf(c)) + Count(inbox, RepliesTo(c))
  <2> TAKE c \in Conns
  <2>1. Count(inbox', RepliesTo(c))
          = Count(inbox, RepliesTo(c)) + IF call \in CallsOf(c) THEN 1 ELSE 0
    BY <1>4, <1>6, <1>8, SubReplies
  <2>2. Count(outbox, CallsOf(c))
          = Count(outbox', CallsOf(c)) + IF call \in CallsOf(c) THEN 1 ELSE 0
    BY <1>7
  <2> QED
    BY <1>8, <2>1, <2>2
<1>11. \A c \in Conns :
         Count(outbox', ReservesOf(c)) + Count(inbox', ReservedFor(c))
           = Count(outbox, ReservesOf(c)) + Count(inbox, ReservedFor(c))
  <2> TAKE c \in Conns
  <2>1. Count(inbox', ReservedFor(c))
          = Count(inbox, ReservedFor(c)) + IF call \in ReservesOf(c) THEN 1 ELSE 0
    BY <1>4, <1>6, <1>8, SubReplies
  <2>2. Count(outbox, ReservesOf(c))
          = Count(outbox', ReservesOf(c)) + IF call \in ReservesOf(c) THEN 1 ELSE 0
    BY <1>7
  <2> QED
    BY <1>8, <2>1, <2>2
<1>12. Len(outbox') + Count(inbox', AllReplies)
         = Len(outbox) + Count(inbox, AllReplies)
  <2>1. Count(inbox', AllReplies) = Count(inbox, AllReplies) + 1
    BY <1>4, <1>6
  <2>2. Count(inbox, AllReplies) \in Nat
    BY <1>8
  <2> QED
    BY <1>1, <2>1, <2>2
<1>13. slot' # NoImsi => Reserved(client) \/ Releases(outbox') \/ Granted(inbox')
  <2>1. CASE ok /\ slot' = call.imsi
    BY <1>4, <1>6, <2>1
  <2>2. CASE slot' = slot /\ ~up
    BY <2>2 DEF NemoInv, OfonoTyped
  <2>3. CASE slot' = slot /\ call.imsi # NoImsi
    <3>1. Releases(outbox) => Releases(outbox')
      <4>1. /\ \A i \in 1..Len(outbox) :
                 i # 1 => i - 1 \in DOMAIN outbox' /\ outbox'[i - 1] = outbox[i]
            /\ DOMAIN outbox = 1..Len(outbox) /\ outbox[1] = call
        BY <1>1
      <4> QED
        BY <2>3, <4>1 DEF Releases
    <3> QED
      BY <1>6, <2>3, <3>1 DEF NemoInv, Books
  <2> QED
    BY <1>3, <2>1, <2>2, <2>3
<1>14. Books'
  BY <1>9, <1>10, <1>11, <1>12, <1>13 DEF NemoInv, Books
<1>15. OfonoTyped'
  BY <1>2, <1>3, <1>9 DEF NemoInv, OfonoTyped
<1> QED
  BY <1>1, <1>6, <1>9, <1>14, <1>15, OfonoInv

(* A message that is no reply, at the end of the inbox *)
LEMMA SignalInv ==
  ASSUME NemoInv, NEW r \in Seq(MessageType), inbox' = inbox \o r,
         Silent(r),
         UNCHANGED <<client, net, outbox>>,
         slot' \in {slot, NoImsi}, OfonoTyped'
  PROVE  NemoInv' /\ Moves(client, client')
<1>1. inbox \in Seq(MessageType) /\ inbox' \in Seq(MessageType)
      /\ outbox' \in Seq(CallType)
  BY ConcatProperties DEF NemoInv
<1>2. \A P : Count(inbox, P) \in Nat
  BY <1>1, WhereFinite
<1>3. \A P : Count(inbox', P) = Count(inbox, P) + Count(r, P)
  BY <1>1, CountConcat
<1>4. \A P : P \subseteq AllReplies => Count(inbox', P) = Count(inbox, P)
  BY <1>2, <1>3 DEF Silent
<1>5. Granted(inbox) => Granted(inbox')
  BY <1>1, GrantedOn
<1>6. \A c \in Conns :
        /\ Count(inbox', RepliesTo(c)) = Count(inbox, RepliesTo(c))
        /\ Count(inbox', ReservedFor(c)) = Count(inbox, ReservedFor(c))
  BY <1>4, SubReplies
<1>7. Count(inbox', AllReplies) = Count(inbox, AllReplies)
  BY <1>4
<1>8. Books'
  BY <1>5, <1>6, <1>7 DEF NemoInv, Books
<1> QED
  BY <1>1, <1>8, OfonoInv

LEMMA SimRemovedInv ==
  ASSUME NemoInv, SimRemoved
  PROVE  NemoInv' /\ Moves(client, client')
<1>1. NoImsi \in Imsis
  BY DEF Imsis
<1>2. OfonoTyped'
  BY <1>1 DEF SimRemoved, NemoInv, OfonoTyped
<1> QED
  BY <1>1, <1>2, SignalTyped, SignalInv DEF SimRemoved

LEMMA ValidTyped ==
  ASSUME NEW b \in BOOLEAN
  PROVE  LET x == [type |-> "valid", valid |-> b]
         IN  /\ x \in MessageType /\ <<x>> \in Seq(MessageType)
             /\ Silent(<<x>>)
<1> DEFINE x == [type |-> "valid", valid |-> b]
<1>1. x \in MessageType /\ x.type # "reply"
  BY DEF MessageType
<1>2. \A P : P \subseteq AllReplies => x \notin P
  BY <1>1 DEF AllReplies
<1> HIDE DEF x
<1>3. Silent(<<x>>)
  BY <1>1, <1>2, CountSingle DEF Silent
<1>4. <<x>> \in Seq(MessageType)
  BY <1>1
<1> QED
  BY <1>1, <1>3, <1>4 DEF x

LEMMA RestartInv ==
  ASSUME NemoInv, Restart
  PROVE  NemoInv' /\ Moves(client, client')
<1> DEFINE x == [type |-> "valid", valid |-> TRUE]
<1>1. /\ x \in MessageType /\ <<x>> \in Seq(MessageType)
      /\ Silent(<<x>>)
  BY ValidTyped
<1>2. inbox' = Append(inbox, x) /\ inbox \in Seq(MessageType)
      /\ UNCHANGED <<client, net, outbox, slot>>
  BY DEF Restart, NemoInv
<1> HIDE DEF x
<1>3. inbox' = inbox \o <<x>>
  BY <1>1, <1>2, AppendAsConcat
<1>4. OfonoTyped'
  BY DEF Restart, NemoInv, OfonoTyped
<1> QED
  BY <1>1, <1>2, <1>3, <1>4, SignalInv

LEMMA CrashInv ==
  ASSUME NemoInv, Crash
  PROVE  NemoInv' /\ Moves(client, client')
<1> DEFINE replies == [i \in DOMAIN outbox |-> Reply(outbox[i], FALSE)]
           gone == [type |-> "valid", valid |-> FALSE]
           q == inbox \o replies
<1>1. /\ outbox \in Seq(CallType) /\ inbox \in Seq(MessageType)
      /\ DOMAIN outbox = 1..Len(outbox) /\ Len(outbox) \in Nat
      /\ \A i \in 1..Len(outbox) : outbox[i] \in CallType
  BY DEF NemoInv
<1>2. replies \in Seq(MessageType)
  <2>1. \A call \in CallType : Reply(call, FALSE) \in MessageType
    BY ReplyOf
  <2>2. replies \in [1..Len(outbox) -> MessageType]
    BY <1>1, <2>1
  <2> HIDE DEF replies
  <2> QED
    BY <1>1, <2>2, IsASeq
<1>3. /\ DOMAIN replies = DOMAIN outbox
      /\ \A i \in DOMAIN outbox : replies[i] = Reply(outbox[i], FALSE)
  OBVIOUS
<1>4. gone \in MessageType /\ <<gone>> \in Seq(MessageType) /\ Silent(<<gone>>)
  BY ValidTyped
<1>5. inbox' = q \o <<gone>> /\ outbox' = <<>> /\ slot' = NoImsi
      /\ UNCHANGED <<client, net>>
  BY DEF Crash
<1> HIDE DEF replies, gone
<1>6. q \in Seq(MessageType) /\ inbox' \in Seq(MessageType)
  <2>1. q \in Seq(MessageType)
    BY <1>1, <1>2, ConcatProperties
  <2> HIDE DEF q
  <2> QED
    BY <1>4, <1>5, <2>1, ConcatProperties
<1>7. \A P : /\ Count(inbox, P) \in Nat /\ Count(outbox, P) \in Nat
             /\ Count(replies, P) \in Nat /\ Count(inbox', P) \in Nat
  BY <1>1, <1>2, <1>6, WhereFinite
<1>8. ASSUME NEW P, P \subseteq AllReplies
      PROVE  Count(inbox', P) = Count(inbox, P) + Count(replies, P)
  <2>1. Count(q, P) = Count(inbox, P) + Count(replies, P)
    BY <1>1, <1>2, CountConcat
  <2> HIDE DEF q
  <2>2. Count(inbox', P) = Count(q, P) + Count(<<gone>>, P)
    BY <1>4, <1>5, <1>6, CountConcat
  <2>3. Count(<<gone>>, P) = 0
    BY <1>4, <1>8 DEF Silent
  <2> QED
    BY <1>7, <2>1, <2>2, <2>3
<1>9. \A P : Count(outbox', P) = 0
  BY <1>5, CountEmpty
<1>10. \A c \in Conns :
         /\ Count(replies, RepliesTo(c)) = Count(outbox, CallsOf(c))
         /\ Count(replies, ReservedFor(c)) = Count(outbox, ReservesOf(c))
  <2> TAKE c \in Conns
  <2>1. \A i \in DOMAIN outbox :
          /\ replies[i] \in RepliesTo(c) <=> outbox[i] \in CallsOf(c)
          /\ replies[i] \in ReservedFor(c) <=> outbox[i] \in ReservesOf(c)
    <3> TAKE i \in DOMAIN outbox
    <3>1. replies[i] = Reply(outbox[i], FALSE) /\ outbox[i] \in CallType
      BY <1>1, <1>3
    <3> QED
      BY <3>1, ReplyOf
  <2>2. /\ Where(replies, RepliesTo(c)) = Where(outbox, CallsOf(c))
        /\ Where(replies, ReservedFor(c)) = Where(outbox, ReservesOf(c))
    BY <1>3, <2>1 DEF Where
  <2> QED
    BY <2>2 DEF Count
<1>11. Count(replies, AllReplies) = Len(outbox)
  <2>1. \A i \in DOMAIN outbox : replies[i] \in AllReplies
    BY <1>1, <1>3, ReplyOf
  <2>2. Where(replies, AllReplies) = 1..Len(outbox)
    BY <1>1, <1>3, <2>1 DEF Where
  <2>3. Cardinality(1..Len(outbox)) = Len(outbox)
    <3> DEFINE n == Len(outbox)
    <3>1. n \in Nat
      BY <1>1
    <3> HIDE DEF n
    <3>2. Cardinality(1..n) = IF 1 > n THEN 0 ELSE n - 1 + 1
      BY <3>1, FS_Interval
    <3> QED
      BY <3>1, <3>2 DEF n
  <2> QED
    BY <2>2, <2>3 DEF Count
<1>12. \A c \in Conns :
         /\ Count(outbox', CallsOf(c)) + Count(inbox', RepliesTo(c))
              = Count(outbox, CallsOf(c)) + Count(inbox, RepliesTo(c))
         /\ Count(outbox', ReservesOf(c)) + Count(inbox', ReservedFor(c))
              = Count(outbox, ReservesOf(c)) + Count(inbox, ReservedFor(c))
  <2> TAKE c \in Conns
  <2>1. /\ Count(inbox', RepliesTo(c))
             = Count(inbox, RepliesTo(c)) + Count(outbox, CallsOf(c))
        /\ Count(inbox', ReservedFor(c))
             = Count(inbox, ReservedFor(c)) + Count(outbox, ReservesOf(c))
    BY <1>8, <1>10, SubReplies
  <2>2. Count(outbox', CallsOf(c)) = 0 /\ Count(outbox', ReservesOf(c)) = 0
    BY <1>9
  <2> QED
    BY <1>7, <2>1, <2>2
<1>13. Len(outbox') + Count(inbox', AllReplies)
         = Len(outbox) + Count(inbox, AllReplies)
  <2>1. Count(inbox', AllReplies) = Count(inbox, AllReplies) + Len(outbox)
    BY <1>8, <1>11
  <2>2. Len(outbox') = 0 /\ Count(inbox, AllReplies) \in Nat
    BY <1>5, <1>7
  <2> QED
    BY <1>1, <2>1, <2>2
<1>14. Books'
  BY <1>5, <1>12, <1>13 DEF NemoInv, Books
<1>15. OfonoTyped'
  <2>1. crashes \in 0..MaxCrashes /\ crashes < MaxCrashes /\ crashes' = crashes + 1
        /\ up' = FALSE
    BY DEF Crash, NemoInv, OfonoTyped
  <2>2. crashes' \in 0..MaxCrashes
    BY <2>1, NemoAssumption DEF NemoAssumption
  <2> QED
    BY <1>5, <2>1, <2>2 DEF OfonoTyped, Imsis
<1>16. outbox' \in Seq(CallType)
  BY <1>5
<1> QED
  BY <1>5, <1>6, <1>14, <1>15, <1>16, OfonoInv

(* The message that arrives, and those behind it *)
LEMMA Arrives ==
  ASSUME NemoInv, inbox # <<>>, inbox' = Tail(inbox)
  PROVE  LET m == Head(inbox)
         IN  /\ m \in MessageType /\ inbox' \in Seq(MessageType)
             /\ \A P : Count(inbox, P)
                         = Count(inbox', P) + IF m \in P THEN 1 ELSE 0
             /\ Granted(inbox) =>
                  \/ Granted(inbox')
                  \/ m.type = "reply" /\ m.ok /\ m.call.imsi # NoImsi
<1> DEFINE m == Head(inbox)
<1>1. /\ inbox \in Seq(MessageType) /\ m \in MessageType
      /\ inbox' \in Seq(MessageType)
      /\ Len(inbox') = Len(inbox) - 1 /\ Len(inbox) \in Nat
  BY HeadTailProperties DEF NemoInv
<1>2. \A P : Count(inbox, P) = Count(inbox', P) + IF m \in P THEN 1 ELSE 0
  BY <1>1, CountTail
<1>3. /\ \A i \in 1..Len(inbox) :
           i # 1 => i - 1 \in DOMAIN inbox' /\ inbox'[i - 1] = inbox[i]
      /\ DOMAIN inbox = 1..Len(inbox) /\ inbox[1] = m
  BY <1>1
<1> HIDE DEF m
<1>4. Granted(inbox) => \/ Granted(inbox')
                        \/ m.type = "reply" /\ m.ok /\ m.call.imsi # NoImsi
  <2>1. ASSUME NEW i \in DOMAIN inbox, i # 1,
               inbox[i].type = "reply", inbox[i].ok, inbox[i].call.imsi # NoImsi
        PROVE  Granted(inbox')
    BY <1>3, <2>1 DEF Granted
  <2> QED
    BY <1>3, <2>1 DEF Granted
<1> QED
  BY <1>1, <1>2, <1>4 DEF m

(* A message that is no reply has arrived. *)
LEMMA NoReply ==
  ASSUME NemoInv, NEW m \in MessageType, m.type # "reply",
         inbox' \in Seq(MessageType),
         \A P : Count(inbox, P) = Count(inbox', P) + IF m \in P THEN 1 ELSE 0
  PROVE  \A P : P \subseteq AllReplies => Count(inbox', P) = Count(inbox, P)
<1>1. \A P : P \subseteq AllReplies => m \notin P
  BY DEF AllReplies
<1>2. \A P : Count(inbox', P) \in Nat
  BY WhereFinite
<1> QED
  BY <1>1, <1>2

(* A reply has been handled by s. *)
LEMMA RepliedInv ==
  ASSUME NemoInv, NEW m \in AllReplies, NEW s, Nemo(s), Ready(s, net'),
         Becomes(s), net' \in Nets, UNCHANGED <<slot, up, crashes>>,
         Moves(client, s), PaysBack(client, s, m.call.conn),
         m.call.conn \in Conns,
         m.call.imsi = NoImsi \/ client.held # m.call.conn => Keeps(client, s),
         m.ok /\ m.call.imsi # NoImsi => Reserved(s),
         inbox' \in Seq(MessageType),
         \A P : Count(inbox, P) = Count(inbox', P) + IF m \in P THEN 1 ELSE 0,
         Granted(inbox) =>
           \/ Granted(inbox')
           \/ m.type = "reply" /\ m.ok /\ m.call.imsi # NoImsi
  PROVE  NemoInv' /\ Moves(client, client')
<1> DEFINE c == m.call.conn
<1>1. /\ s.out \in Seq(CallType) /\ s.busy \in Int /\ client.busy \in Int
      /\ client.out = <<>> /\ Nemo(client)
      /\ outbox \in Seq(CallType) /\ inbox \in Seq(MessageType)
      /\ s \in LooseClient /\ client \in LooseClient
  BY DEF NemoInv, Nemo, LooseClient
<1>2. \A P : /\ Count(s.out, P) \in Nat /\ Count(outbox, P) \in Nat
             /\ Count(inbox, P) \in Nat /\ Count(inbox', P) \in Nat
             /\ Count(client.out, P) = 0
  BY <1>1, WhereFinite, CountEmpty
<1>3. Len(s.out) \in Nat /\ Len(client.out) = 0
  BY <1>1
<1>4. /\ m.call \in CallType
      /\ \A d \in Conns : m \in RepliesTo(d) <=> d = c
      /\ \A d \in Conns : m \in ReservedFor(d) <=> d = c /\ m.call.imsi # NoImsi
  BY DEF AllReplies, MessageType, RepliesTo, CallsOf, ReservedFor, ReservesOf
<1>5. \A d \in Conns :
        Ledger(s, d) - Ledger(client, d)
          = Count(inbox', RepliesTo(d)) - Count(inbox, RepliesTo(d))
  <2> TAKE d \in Conns
  <2>1. Ledger(s, d) = Ledger(client, d) - IF d = c THEN 1 ELSE 0
    BY DEF PaysBack
  <2>2. Count(inbox, RepliesTo(d))
          = Count(inbox', RepliesTo(d)) + IF d = c THEN 1 ELSE 0
    BY <1>4
  <2>3. Ledger(s, d) \in Int /\ Ledger(client, d) \in Int
    BY <1>1, LedgerTyped
  <2>4. Count(inbox, RepliesTo(d)) \in Int /\ Count(inbox', RepliesTo(d)) \in Int
    BY <1>2
  <2> QED
    BY <2>1, <2>2, <2>3, <2>4
<1>6. s.busy - Len(s.out) - client.busy
        = Count(inbox', AllReplies) - Count(inbox, AllReplies)
  <2>1. s.busy - Len(s.out) = client.busy - 1
    BY <1>1, <1>3 DEF PaysBack
  <2>2. Count(inbox, AllReplies) = Count(inbox', AllReplies) + 1
    OBVIOUS
  <2>3. Count(inbox, AllReplies) \in Int /\ Count(inbox', AllReplies) \in Int
    BY <1>2
  <2> DEFINE b == s.busy - Len(s.out)
             i == Count(inbox, AllReplies)
             j == Count(inbox', AllReplies)
  <2>4. b = client.busy - 1 /\ i = j + 1 /\ i \in Int /\ j \in Int
    BY <2>1, <2>2, <2>3
  <2> HIDE DEF b, i, j
  <2>5. b - client.busy = j - i
    BY <1>1, <2>4
  <2> QED
    BY <2>5 DEF b, i, j
<1>7. \A d \in Conns : s.held = d =>
        Count(outbox, ReservesOf(d)) + Count(s.out, ReservesOf(d))
          + Count(inbox', ReservedFor(d))
            <= IF s.conn[d].step = "SIM" THEN 1 ELSE 0
  <2> SUFFICES ASSUME NEW d \in Conns, s.held = d
               PROVE  Count(outbox, ReservesOf(d)) + Count(s.out, ReservesOf(d))
                        + Count(inbox', ReservedFor(d))
                          <= IF s.conn[d].step = "SIM" THEN 1 ELSE 0
    OBVIOUS
  <2>1. client.held = d
    BY <1>1, HeldBefore
  <2>2. Count(outbox, ReservesOf(d)) + Count(inbox, ReservedFor(d))
          <= IF client.conn[d].step = "SIM" THEN 1 ELSE 0
    BY <2>1 DEF NemoInv, Books
  <2>3. Count(s.out, ReservesOf(d)) = 0
    BY <1>2 DEF PaysBack
  <2>4. /\ Count(outbox, ReservesOf(d)) \in Nat
        /\ Count(inbox, ReservedFor(d)) \in Nat
        /\ Count(inbox', ReservedFor(d)) \in Nat
    BY <1>2
  <2>5. CASE d = c /\ m.call.imsi # NoImsi
    <3>1. Count(inbox, ReservedFor(d)) = Count(inbox', ReservedFor(d)) + 1
      BY <1>4, <2>5
    <3>2. Count(outbox, ReservesOf(d)) + Count(inbox', ReservedFor(d)) <= 0
      BY <2>2, <2>4, <3>1
    <3> QED
      BY <2>3, <2>4, <3>2
  <2>6. CASE ~(d = c /\ m.call.imsi # NoImsi)
    <3>1. Count(inbox, ReservedFor(d)) = Count(inbox', ReservedFor(d))
      <4>1. m \notin ReservedFor(d)
        BY <1>4, <2>6
      <4> QED
        BY <2>4, <4>1
    <3>2. s.conn[d].step = client.conn[d].step
      BY <2>1, <2>6 DEF Keeps
    <3> QED
      BY <2>2, <2>3, <2>4, <3>1, <3>2
  <2> QED
    BY <2>5, <2>6
<1>8. slot # NoImsi => Reserved(s) \/ Releases(outbox) \/ Granted(inbox')
  BY DEF NemoInv, Books, PaysBack
<1>9. NemoInv' /\ Keeps(s, client')
  BY <1>5, <1>6, <1>7, <1>8, BooksInv
<1> QED
  BY <1>9, MovesStays DEF Keeps

LEMMA ReplyInv ==
  ASSUME NemoInv, inbox # <<>>, inbox' = Tail(inbox),
         ReceiveReply(Head(inbox)), UNCHANGED <<slot, up, crashes>>
  PROVE  NemoInv' /\ Moves(client, client')
<1> DEFINE m == Head(inbox)
           c == m.call.conn
<1>1. /\ m \in MessageType /\ inbox' \in Seq(MessageType)
      /\ \A P : Count(inbox, P) = Count(inbox', P) + IF m \in P THEN 1 ELSE 0
      /\ Granted(inbox) =>
           \/ Granted(inbox')
           \/ m.type = "reply" /\ m.ok /\ m.call.imsi # NoImsi
  BY Arrives
<1>2. ReceiveReply(m)
  OBVIOUS
<1> HIDE DEF m
<1>3. /\ m \in AllReplies /\ m.type = "reply" /\ m.call \in CallType
      /\ m.ok \in BOOLEAN /\ c \in Conns
  BY <1>1, <1>2 DEF ReceiveReply, AllReplies, MessageType, CallType
<1>4. Nemo(client) /\ Ready(client, net) /\ net \in Nets /\ client.out = <<>>
  BY DEF NemoInv
<1>5. client.conn[c].state # "NONE"
  <2>1. SUFFICES ASSUME client.conn[c].state = "NONE"
                 PROVE  FALSE
    OBVIOUS
  <2>2. Count(inbox, RepliesTo(c)) = 0
    BY <1>3, <2>1, UnusedLedger, NothingPending
  <2>3. m \in RepliesTo(c)
    BY <1>3 DEF RepliesTo, CallsOf
  <2>4. Count(inbox, RepliesTo(c)) = Count(inbox', RepliesTo(c)) + 1
        /\ Count(inbox', RepliesTo(c)) \in Nat
    BY <1>1, <2>3, WhereFinite
  <2> QED
    BY <2>2, <2>4
<1>6. ASSUME m.call.imsi # NoImsi, client.held = c
      PROVE  client.conn[c].state = "OPENING"
  <2>1. m \in ReservedFor(c)
    BY <1>3, <1>6 DEF ReservedFor, ReservesOf, CallsOf
  <2>2. Count(inbox, ReservedFor(c)) = Count(inbox', ReservedFor(c)) + 1
        /\ Count(inbox', ReservedFor(c)) \in Nat
        /\ Count(outbox, ReservesOf(c)) \in Nat
    BY <1>1, <2>1, WhereFinite DEF NemoInv
  <2>3. Count(outbox, ReservesOf(c)) + Count(inbox, ReservedFor(c))
          <= IF client.conn[c].step = "SIM" THEN 1 ELSE 0
    BY <1>3, <1>6 DEF NemoInv, Books
  <2>4. client.conn[c].step = "SIM"
    BY <2>2, <2>3
  <2> QED
    BY <1>3, <1>4, <1>6, <2>4 DEF Ready, Follows, Nemo, Active
<1>7. CASE /\ m.call.imsi # NoImsi
           /\ net' \in IF m.ok /\ IsActive(client, c) THEN Nets ELSE {net}
           /\ Becomes(SetDone(client, c, net', m.ok))
  <2> DEFINE s == SetDone(client, c, net', m.ok)
  <2>1. net' \in Nets
    BY <1>4, <1>7
  <2>2. client.held # c => Ready(client, net')
    BY <1>3, <1>4, <1>7 DEF IsActive, Nemo
  <2>3. /\ Nemo(s) /\ Moves(client, s) /\ Ready(s, net')
        /\ PaysBack(client, s, c)
        /\ client.held # c => Keeps(client, s)
        /\ m.ok => Reserved(s)
    BY <1>3, <1>4, <1>5, <1>6, <1>7, <2>1, <2>2, SetDoneNemo
  <2> HIDE DEF s
  <2>4. Becomes(s)
    BY <1>7 DEF s
  <2> QED
    BY <1>1, <1>3, <1>7, <2>1, <2>3, <2>4, RepliedInv
<1>8. CASE /\ m.call.imsi = NoImsi
           /\ Becomes(Answered(client, c)) /\ net' = net
  <2> DEFINE s == Answered(client, c)
  <2>1. Nemo(s) /\ Keeps(client, s) /\ PaysBack(client, s, c)
    BY <1>3, <1>4, <1>5, AnsweredNemo
  <2> HIDE DEF s
  <2>2. Moves(client, s) /\ Ready(s, net')
    BY <1>4, <1>8, <2>1, ReadyKept, StayingMoves DEF Keeps
  <2>3. Becomes(s)
    BY <1>8 DEF s
  <2> QED
    BY <1>1, <1>3, <1>4, <1>8, <2>1, <2>2, <2>3, RepliedInv
<1> QED
  BY <1>2, <1>7, <1>8 DEF ReceiveReply

LEMMA ImsiInv ==
  ASSUME NemoInv, inbox # <<>>, inbox' = Tail(inbox),
         ReceiveImsi(Head(inbox)), UNCHANGED <<slot, up, crashes>>
  PROVE  NemoInv' /\ Moves(client, client')
<1> DEFINE m == Head(inbox)
<1>1. /\ m \in MessageType /\ inbox' \in Seq(MessageType)
      /\ \A P : Count(inbox, P) = Count(inbox', P) + IF m \in P THEN 1 ELSE 0
      /\ Granted(inbox) => Granted(inbox') \/ m.type = "reply"
  BY Arrives
<1>2. ReceiveImsi(m)
  OBVIOUS
<1> HIDE DEF m
<1>3. /\ \A P : P \subseteq AllReplies => Count(inbox', P) = Count(inbox, P)
      /\ Granted(inbox) => Granted(inbox')
      /\ net' = net
  BY <1>1, <1>2, NoReply DEF ReceiveImsi
<1>4. CASE UNCHANGED <<client, outbox>>
  <2>1. Books'
    <3>1. \A c \in Conns :
            /\ Count(inbox', RepliesTo(c)) = Count(inbox, RepliesTo(c))
            /\ Count(inbox', ReservedFor(c)) = Count(inbox, ReservedFor(c))
      BY <1>3, SubReplies
    <3>2. Count(inbox', AllReplies) = Count(inbox, AllReplies)
      BY <1>3
    <3> QED
      BY <1>3, <1>4, <3>1, <3>2 DEF NemoInv, Books
  <2>2. OfonoTyped' /\ outbox' \in Seq(CallType)
    BY <1>4 DEF NemoInv, OfonoTyped
  <2> QED
    BY <1>1, <1>3, <1>4, <2>1, <2>2, OfonoInv
<1>5. CASE Held # NoConn /\ Becomes(Cancel(client, Held, net))
  <2> DEFINE s == Cancel(client, Held, net)
  <2>1. Nemo(s) /\ Moves(client, s) /\ Pays(client, s) /\ s.held = NoConn
    BY <1>5, HeldTyped, CancelNemo DEF NemoInv
  <2>2. Becomes(s)
    BY <1>5
  <2> HIDE DEF s
  <2>3. Ready(s, net') /\ \A c \in Conns : s.held # c
    BY <2>1, Dropped, NemoAssumption DEF NemoAssumption
  <2>4. net' \in Nets
    BY <1>3 DEF NemoInv
  <2> QED
    BY <1>1, <1>3, <2>1, <2>2, <2>3, <2>4, EventInv
<1> QED
  BY <1>2, <1>4, <1>5 DEF ReceiveImsi

LEMMA ValidInv ==
  ASSUME NemoInv, inbox # <<>>, inbox' = Tail(inbox),
         ReceiveValid(Head(inbox)), UNCHANGED <<slot, up, crashes>>
  PROVE  NemoInv' /\ Moves(client, client')
<1> DEFINE m == Head(inbox)
<1>1. /\ m \in MessageType /\ inbox' \in Seq(MessageType)
      /\ \A P : Count(inbox, P) = Count(inbox', P) + IF m \in P THEN 1 ELSE 0
      /\ Granted(inbox) => Granted(inbox') \/ m.type = "reply"
  BY Arrives
<1>2. ReceiveValid(m)
  OBVIOUS
<1> HIDE DEF m
<1>3. /\ \A P : P \subseteq AllReplies => Count(inbox', P) = Count(inbox, P)
      /\ Granted(inbox) => Granted(inbox')
      /\ net' = net /\ net' \in Nets
      /\ m.valid \in BOOLEAN
  BY <1>1, <1>2, NoReply DEF ReceiveValid, NemoInv, MessageType
<1> DEFINE s == [client EXCEPT !.valid = m.valid]
           r == RequestSim(s, Held)
           t == Cancel(s, Held, net)
<1>4. /\ Nemo(s) /\ Keeps(client, s) /\ Pays(client, s)
      /\ s.out = client.out
  <2>1. /\ s \in LooseClient /\ s.conn = client.conn /\ s.held = client.held
        /\ s.out = client.out /\ s.busy = client.busy
    BY <1>3 DEF NemoInv, Nemo, LooseClient
  <2> HIDE DEF s
  <2>2. Pays(client, s)
    BY <2>1, SameBooks DEF IsActive
  <2> QED
    BY <2>1, <2>2, GlobalKeeps DEF NemoInv
<1>5. \/ Becomes(s)
      \/ Held # NoConn /\ client.conn[Held].step = "MM" /\ Becomes(r)
      \/ Held # NoConn /\ Becomes(t)
  BY <1>2 DEF ReceiveValid, At
<1> HIDE DEF s
<1>6. Moves(client, s) /\ Ready(s, net')
  BY <1>3, <1>4, ReadyKept, StayingMoves DEF Keeps, NemoInv
<1>7. \A c \in Conns : s.conn[c].step = client.conn[c].step
  BY <1>4 DEF Keeps
<1>8. CASE Becomes(s)
  BY <1>1, <1>3, <1>4, <1>6, <1>7, <1>8, EventInv
<1>9. ASSUME Held # NoConn
      PROVE  Held \in Conns /\ s.held = Held /\ client.held = Held
  BY <1>4, <1>9, HeldTyped DEF Keeps, Stays
<1>10. CASE /\ Held # NoConn /\ client.conn[Held].step = "MM"
            /\ Becomes(r)
  <2> DEFINE c == Held
  <2>1. c \in Conns /\ s.held = c /\ client.held = c
    BY <1>9, <1>10
  <2>2. s.conn[c].state = "OPENING"
    <3>1. s.conn[c].state \in Active /\ s.conn[c].step = "MM"
      BY <1>4, <1>7, <1>10, <2>1 DEF Nemo
    <3> QED
      BY <1>6, <2>1, <3>1 DEF Ready, Follows, Active
  <2>3. Becomes(r) /\ r = RequestSim(s, c)
    BY <1>10
  <2> HIDE DEF c
  <2>4. /\ Nemo(r) /\ Stays(s, r) /\ Charges(s, r) /\ Ready(r, net')
        /\ r.conn[c].step = "SIM"
        /\ Count(r.out, ReservesOf(c)) = Count(s.out, ReservesOf(c)) + 1
    BY <1>4, <2>1, <2>2, <2>3, RequestSimNemo
  <2> HIDE DEF r
  <2>5. Charges(client, r)
    BY <1>4, <2>4, ChargesOn DEF Pays
  <2>6. r.held = c /\ \A d \in Conns : r.held = d => d = c
    BY <2>1, <2>4 DEF Stays
  <2>7. /\ r.out \in Seq(CallType) /\ r.busy \in Int /\ client.busy \in Int
        /\ client.out = <<>> /\ Len(client.out) = 0
        /\ outbox \in Seq(CallType) /\ inbox \in Seq(MessageType)
        /\ r \in LooseClient /\ client \in LooseClient
    BY <2>4 DEF NemoInv, Nemo, LooseClient
  <2>8. \A P : /\ Count(r.out, P) \in Nat /\ Count(outbox, P) \in Nat
               /\ Count(inbox, P) \in Nat /\ Count(client.out, P) = 0
    BY <2>7, WhereFinite, CountEmpty
  <2>9. \A d \in Conns :
          Ledger(r, d) - Ledger(client, d)
            = Count(inbox', RepliesTo(d)) - Count(inbox, RepliesTo(d))
    <3> TAKE d \in Conns
    <3>1. Count(inbox', RepliesTo(d)) = Count(inbox, RepliesTo(d))
          /\ Count(inbox, RepliesTo(d)) \in Nat
      BY <1>3, <2>8, SubReplies
    <3>2. Ledger(r, d) = Ledger(client, d) /\ Ledger(client, d) \in Int
      BY <2>5, <2>7, LedgerTyped DEF Charges
    <3> QED
      BY <3>1, <3>2
  <2>10. r.busy - Len(r.out) - client.busy
           = Count(inbox', AllReplies) - Count(inbox, AllReplies)
    <3>1. Count(inbox', AllReplies) = Count(inbox, AllReplies)
          /\ Count(inbox, AllReplies) \in Nat
      BY <1>3, <2>8
    <3>2. r.busy - Len(r.out) = client.busy
      BY <2>5, <2>7 DEF Charges
    <3> QED
      BY <2>7, <3>1, <3>2
  <2>11. Count(outbox, ReservesOf(c)) + Count(r.out, ReservesOf(c))
           + Count(inbox', ReservedFor(c)) <= 1
    <3>1. Count(outbox, ReservesOf(c)) + Count(inbox, ReservedFor(c)) <= 0
      BY <1>10, <2>1 DEF NemoInv, Books, c
    <3>2. Count(inbox', ReservedFor(c)) = Count(inbox, ReservedFor(c))
      BY <1>3, <2>1, SubReplies
    <3>3. Count(r.out, ReservesOf(c)) = 1
      BY <1>4, <2>4, <2>8
    <3>4. Count(outbox, ReservesOf(c)) \in Nat
          /\ Count(inbox, ReservedFor(c)) \in Nat
      BY <2>8
    <3> QED
      BY <3>1, <3>2, <3>3, <3>4
  <2>12. slot # NoImsi => Reserved(r) \/ Releases(outbox) \/ Granted(inbox')
    BY <1>3, <2>5 DEF NemoInv, Books, Charges
  <2>13. \A d \in Conns : r.held = d =>
           Count(outbox, ReservesOf(d)) + Count(r.out, ReservesOf(d))
             + Count(inbox', ReservedFor(d))
               <= IF r.conn[d].step = "SIM" THEN 1 ELSE 0
    BY <2>4, <2>6, <2>11
  <2>14. NemoInv' /\ Keeps(r, client')
    BY <1>1, <1>3, <2>3, <2>4, <2>9, <2>10, <2>12, <2>13, BooksInv
  <2>15. Moves(client, client')
    BY <1>6, <2>4, <2>14, MovesStays DEF Keeps
  <2> QED
    BY <2>14, <2>15
<1>11. CASE Held # NoConn /\ Becomes(t)
  <2>1. Nemo(t) /\ Moves(s, t) /\ Pays(s, t) /\ t.held = NoConn
    BY <1>4, <1>9, <1>11, CancelNemo
  <2> HIDE DEF t
  <2>2. /\ Moves(client, t) /\ Pays(client, t) /\ Ready(t, net')
        /\ \A c \in Conns : t.held # c
    BY <1>4, <2>1, StaysMoves, PaysOn, Dropped, NemoAssumption
    DEF Keeps, NemoAssumption
  <2> QED
    BY <1>1, <1>3, <1>11, <2>1, <2>2, EventInv
<1> QED
  BY <1>5, <1>8, <1>10, <1>11

LEMMA ReceiveInv ==
  ASSUME NemoInv, Receive
  PROVE  NemoInv' /\ Moves(client, client')
  BY ReplyInv, ImsiInv, ValidInv DEF Receive

-----------------------------------------------------------------------------
LEMMA InitInv == Init => NemoInv
<1> SUFFICES ASSUME Init
             PROVE  NemoInv
  OBVIOUS
<1>1. [state |-> "NONE", step |-> "MM", path |-> FALSE, refs |-> 0]
        \in LooseConn
  BY DEF LooseConn, States, Steps
<1>2. client \in LooseClient
  BY <1>1 DEF Init, LooseClient, Requests
<1>3. Nemo(client)
  BY <1>2, NemoAssumption DEF Init, Nemo, Active, NemoAssumption, Unused
<1>4. Ready(client, net)
  BY NemoAssumption DEF Init, Ready, NemoAssumption
<1>5. net \in Nets
  BY DEF Init, Nets, NetType
<1>6. inbox \in Seq(MessageType) /\ Silent(inbox)
  <2>1. CASE up
    <3>1. inbox = <<[type |-> "valid", valid |-> TRUE]>>
      BY <2>1 DEF Init
    <3> QED
      BY <3>1, ValidTyped
  <2>2. CASE ~up
    BY <2>2, CountEmpty DEF Init, Silent
  <2> QED
    BY <2>1, <2>2
<1>7. Books
  <2>1. /\ client.out = <<>> /\ outbox = <<>> /\ slot = NoImsi
        /\ client.busy = 0 /\ client.held = NoConn
        /\ \A c \in Conns : client.conn[c].refs = 0 /\ ~IsActive(client, c)
    BY DEF Init, IsActive, Active
  <2>2. \A P : Count(client.out, P) = 0 /\ Count(outbox, P) = 0
    BY <2>1, CountEmpty
  <2>3. /\ \A c \in Conns : /\ Count(inbox, RepliesTo(c)) = 0
                            /\ Count(inbox, ReservedFor(c)) = 0
        /\ Count(inbox, AllReplies) = 0
    BY <1>6, SubReplies DEF Silent
  <2>4. \A c \in Conns : Ledger(client, c) = 0
    BY <2>1, <2>2 DEF Ledger
  <2>5. Len(outbox) = 0
    BY <2>1
  <2> QED
    BY <2>1, <2>2, <2>3, <2>4, <2>5 DEF Books
<1>8. OfonoTyped
  BY NemoAssumption DEF Init, OfonoTyped, Imsis, NemoAssumption
<1> QED
  BY <1>3, <1>4, <1>5, <1>6, <1>7, <1>8 DEF Init, NemoInv

LEMMA NextInv ==
  ASSUME NemoInv, [Next]_vars
  PROVE  NemoInv' /\ (Moves(client, client') \/ Life!LifeNext)
<1>1. CASE UNCHANGED vars
  <2>1. Books' /\ OfonoTyped'
    BY <1>1 DEF vars, NemoInv, Books, OfonoTyped
  <2> QED
    BY <1>1, <2>1 DEF vars, NemoInv, Moves
<1>2. CASE Next
  BY <1>2, OpenInv, CloseInv, NetChangedInv, ActivateFailedInv, ServeInv,
     SimRemovedInv, CrashInv, RestartInv, ReceiveInv
  DEF Next, Life!LifeNext
<1> QED
  BY <1>1, <1>2

LEMMA Invariance == Spec => []NemoInv
<1>1. NemoInv /\ [Next]_vars => NemoInv'
  BY NextInv
<1> QED
  BY <1>1, InitInv, PTL DEF Spec

(* What an event does to the connections is what the header allows. *)
LEMMA MovesPromised ==
  ASSUME NemoInv, NemoInv', Moves(client, client')
  PROVE  [Life!LifeNext]_([c \in Conns |-> client.conn[c].state])
<1>1. CASE \A c \in Conns : client'.conn[c].state = client.conn[c].state
  BY <1>1
<1>2. CASE \E c \in Conns : client'.conn[c].state # client.conn[c].state
  <2>1. PICK c \in Conns : client'.conn[c].state # client.conn[c].state
    BY <1>2
  <2>2. /\ c = client.held
        /\ \/ /\ client.conn[c].state = "OPENING"
              /\ client'.conn[c].state \in {"OPEN", "FAILED"}
           \/ client.conn[c].state = "OPEN" /\ client'.conn[c].state = "CLOSED"
    BY <2>1 DEF Moves
  <2>3. \A d \in Conns : d # c => client'.conn[d].state = client.conn[d].state
    BY <2>2 DEF Moves
  <2> QED
    BY <2>2, <2>3 DEF Life!LifeNext, Life!LifeResolve, Life!LifeClose
<1> QED
  BY <1>1, <1>2

(* The connections go through the life cycle that mms_connection.h promises,
   one after the other, however late ofono answers and whatever it does. *)
THEOREM LifeImplemented == Spec => ImplementsConnections
<1>1. Init => Life!LifeInit
  BY DEF Init, Life!LifeInit
<1>2. NemoInv /\ NemoInv' /\ [Next]_vars
        => [Life!LifeNext]_([c \in Conns |-> client.conn[c].state])
  BY NextInv, MovesPromised
<1> QED
  BY <1>1, <1>2, Invariance, PTL DEF Spec, ImplementsConnections, Life!LifeSpec

(* What is counted when nothing is being handled *)
LEMMA Settled ==
  ASSUME NemoInv
  PROVE  /\ outbox \in Seq(CallType) /\ inbox \in Seq(MessageType)
         /\ \A P : Count(outbox, P) \in Nat /\ Count(inbox, P) \in Nat
         /\ \A c \in Conns :
              client.conn[c].refs
                = Count(outbox, CallsOf(c)) + Count(inbox, RepliesTo(c))
                  + IF IsActive(client, c) THEN 1 ELSE 0
         /\ client.busy = Len(outbox) + Count(inbox, AllReplies)
         /\ Replies = Where(inbox, AllReplies)
<1>1. /\ outbox \in Seq(CallType) /\ inbox \in Seq(MessageType)
      /\ client \in LooseClient /\ client.out = <<>>
  BY DEF NemoInv, Nemo
<1>2. \A P : Count(outbox, P) \in Nat /\ Count(inbox, P) \in Nat
  BY <1>1, WhereFinite
<1>3. \A c \in Conns :
        client.conn[c].refs
          = Count(outbox, CallsOf(c)) + Count(inbox, RepliesTo(c))
            + IF IsActive(client, c) THEN 1 ELSE 0
  <2> TAKE c \in Conns
  <2>1. client.conn[c].refs \in Int
    BY <1>1 DEF LooseClient, LooseConn
  <2>2. Count(client.out, CallsOf(c)) = 0
    BY <1>1, CountEmpty
  <2>3. Ledger(client, c)
          = Count(outbox, CallsOf(c)) + Count(inbox, RepliesTo(c))
    BY DEF NemoInv, Books
  <2>4. Ledger(client, c)
          = client.conn[c].refs - IF IsActive(client, c) THEN 1 ELSE 0
    BY <2>1, <2>2 DEF Ledger
  <2> QED
    BY <1>2, <2>1, <2>3, <2>4
<1>4. \A i \in DOMAIN inbox : inbox[i] \in MessageType
  BY <1>1
<1>5. Replies = Where(inbox, AllReplies)
  BY <1>4 DEF Replies, Where, AllReplies
<1> QED
  BY <1>1, <1>2, <1>3, <1>5 DEF NemoInv, Books

(* Every variable stays within its type: neither a reference nor the busy
   count is ever dropped once too often. *)
THEOREM TypeCorrect == Spec => []TypeOK
<1>1. NemoInv => TypeOK
  <2> SUFFICES ASSUME NemoInv
               PROVE  TypeOK
    OBVIOUS
  <2>1. client \in LooseClient
    BY DEF NemoInv, Nemo
  <2>2. \A c \in Conns : client.conn[c].refs \in Nat
    <3> TAKE c \in Conns
    <3>1. /\ client.conn[c].refs
               = Count(outbox, CallsOf(c)) + Count(inbox, RepliesTo(c))
                 + IF IsActive(client, c) THEN 1 ELSE 0
          /\ Count(outbox, CallsOf(c)) \in Nat
          /\ Count(inbox, RepliesTo(c)) \in Nat
      BY Settled
    <3> QED
      BY <3>1
  <2>3. client.busy \in Nat
    <3>1. /\ client.busy = Len(outbox) + Count(inbox, AllReplies)
          /\ Len(outbox) \in Nat /\ Count(inbox, AllReplies) \in Nat
      BY Settled
    <3> QED
      BY <3>1
  <2>4. client \in ClientType
    BY <2>1, <2>2, <2>3 DEF LooseClient, LooseConn, Requests, ClientType
  <2> QED
    BY <2>4 DEF NemoInv, OfonoTyped, TypeOK
<1> QED
  BY <1>1, Invariance, PTL

(* The manager is busy for exactly the calls that ofono has not answered, and
   a connection without references neither is in use nor waits for a reply
   (mms_connman_busy_inc and _dec, the assertion of
   mms_connection_nemo_dispose). *)
THEOREM ObjectsKept == Spec => []PendingKeepsObjects
<1>1. NemoInv => PendingKeepsObjects
  <2> SUFFICES ASSUME NemoInv
               PROVE  PendingKeepsObjects
    OBVIOUS
  <2>1. client.busy = Len(outbox) + Cardinality(Replies)
    BY Settled DEF Count
  <2>2. ASSUME NEW c \in Conns, client.conn[c].refs = 0
        PROVE  /\ ~IsActive(client, c)
               /\ \A i \in DOMAIN outbox : outbox[i].conn # c
               /\ \A i \in Replies : inbox[i].call.conn # c
    <3>1. /\ outbox \in Seq(CallType) /\ inbox \in Seq(MessageType)
          /\ Count(outbox, CallsOf(c)) \in Nat
          /\ Count(inbox, RepliesTo(c)) \in Nat
          /\ client.conn[c].refs
               = Count(outbox, CallsOf(c)) + Count(inbox, RepliesTo(c))
                 + IF IsActive(client, c) THEN 1 ELSE 0
          /\ Replies = Where(inbox, AllReplies)
      BY Settled
    <3>2. /\ ~IsActive(client, c)
          /\ Count(outbox, CallsOf(c)) = 0 /\ Count(inbox, RepliesTo(c)) = 0
      BY <2>2, <3>1
    <3>3. \A i \in DOMAIN outbox : outbox[i] \notin CallsOf(c)
      BY <3>1, <3>2, CountZero
    <3>4. \A i \in DOMAIN inbox : inbox[i] \notin RepliesTo(c)
      BY <3>1, <3>2, CountZero
    <3>5. \A i \in DOMAIN outbox : outbox[i].conn # c
      BY <3>1, <3>3 DEF CallsOf
    <3>6. \A i \in Replies : inbox[i].call.conn # c
      <4> TAKE i \in Replies
      <4>1. i \in DOMAIN inbox /\ inbox[i] \in AllReplies
        BY <3>1 DEF Where
      <4>2. inbox[i].call \in CallType
        BY <4>1 DEF AllReplies, MessageType
      <4> QED
        BY <3>4, <4>1, <4>2 DEF RepliesTo, CallsOf
    <3> QED
      BY <3>2, <3>5, <3>6
  <2> QED
    BY <2>1, <2>2 DEF PendingKeepsObjects
<1> QED
  BY <1>1, Invariance, PTL

(* An open connection has its modem reserved and its context active, and the
   modem is free once nothing uses it and everything is answered
   (mms_connection_nemo_set_state, mms_connection_nemo_set_mms_imsi_done). *)
THEOREM ReservationFollows == Spec => []ReservationFollowsUse
<1>1. NemoInv => ReservationFollowsUse
  <2> SUFFICES ASSUME NemoInv
               PROVE  ReservationFollowsUse
    OBVIOUS
  <2>1. ASSUME NEW c \in Conns, client.conn[c].state = "OPEN"
        PROVE  client.conn[c].path /\ net.modem /\ ContextActive(client, c, net)
    <3>1. client.held = c
      BY <2>1 DEF NemoInv, Nemo, Active
    <3> QED
      BY <2>1, <3>1 DEF NemoInv, Ready, Follows, ContextActive
  <2>2. ASSUME outbox = <<>>, Replies = {},
               \A c \in Conns : ~IsActive(client, c)
        PROVE  slot = NoImsi
    <3>1. ~Reserved(client) /\ ~Releases(outbox)
      BY <2>2 DEF NemoInv, Reserved, Releases
    <3>2. ~Granted(inbox)
      BY <2>2 DEF Granted, Replies
    <3> QED
      BY <3>1, <3>2 DEF NemoInv, Books
  <2> QED
    BY <2>1, <2>2 DEF ReservationFollowsUse
<1> QED
  BY <1>1, Invariance, PTL
=============================================================================
