-------------------------- MODULE TransfersProofs --------------------------
(***************************************************************************)
(* Proofs about the transfers, for any number of messages, clients and     *)
(* requests: the flags that are kept at two levels are what the clients    *)
(* ask for, and the clients of the list know it.                           *)
(*                                                                         *)
(* The lemmas on the operations speak of one transfer; the actions put     *)
(* their result into the table.                                            *)
(***************************************************************************)
EXTENDS Transfers, TLAPS

(* What the requests of the client k ask for *)
FlagsOf(k) == {flag \in Flags : \E j \in Cookies : flag \in k.requests[j]}

(* The cookies after the given one have not been given to the client k. *)
Unused(k, cookie) == \A j \in Cookies : j > cookie => k.requests[j] = {}

(* What holds of a transfer: its clients' flags and its own are exactly what
   is asked for, and a client that is not registered asks for nothing. *)
Sound(t) ==
  /\ t \in TransferType
  /\ \A c \in Clients \ t.watched : t.clients[c] = NewClient
  /\ \A c \in Clients : t.clients[c].flags = FlagsOf(t.clients[c])
  /\ t.flags = UNION {FlagsOf(t.clients[c]) : c \in Clients}
  /\ \A c \in Clients : Unused(t.clients[c], t.cookie)

TransfersSound ==
  /\ transfers \in [Messages -> TransferType \cup {NoTransfer}]
  /\ \A m \in Messages : Listed(m) => Sound(transfers[m])

-----------------------------------------------------------------------------
(* One transfer. *)

LEMMA NewClientSound ==
  /\ NewClient \in ClientType
  /\ FlagsOf(NewClient) = {}
  /\ NewClient.flags = {}
  /\ \A cookie : Unused(NewClient, cookie)
  BY DEF NewClient, ClientType, FlagsOf, Unused

LEMMA NewTransferSound ==
  ASSUME NEW type \in Types, NEW old, old \in TransferType \cup {NoTransfer}
  PROVE  LET t == NewTransfer(type, old)
         IN  /\ Sound(t) /\ t.type = type
             /\ old # NoTransfer => t.object # old.object
<1> DEFINE t == NewTransfer(type, old)
<1>1. /\ t.clients = [c \in Clients |-> NewClient] /\ t.type = type
      /\ t.watched = {} /\ t.flags = {}
      /\ t.object = IF old # NoTransfer THEN ~old.object ELSE FALSE
  BY DEF NewTransfer
<1>2. old # NoTransfer => old.object \in BOOLEAN /\ old.exported \in BOOLEAN
  BY DEF TransferType
<1>3. t \in TransferType
  <2> DEFINE e == ~(old # NoTransfer /\ old.type = type /\ old.exported)
  <2>1. e \in BOOLEAN /\ t.object \in BOOLEAN
    BY <1>1, <1>2
  <2>2. t = [type |-> type, object |-> t.object, exported |-> e,
             clients |-> [c \in Clients |-> NewClient],
             watched |-> {}, flags |-> {}, cookie |-> 0,
             bytes |-> [d \in Directions |-> 0]]
    BY DEF NewTransfer
  <2> HIDE DEF t, e
  <2>3. /\ [c \in Clients |-> NewClient] \in [Clients -> ClientType]
        /\ [d \in Directions |-> 0] \in [Directions -> 0..MaxBytes]
        /\ 0 \in 0..MaxCookie
    BY NewClientSound, TransfersAssumption
  <2> QED
    BY <2>1, <2>2, <2>3 DEF TransferType
<1> HIDE DEF t
<1>4. \A c \in Clients : t.clients[c] = NewClient
  BY <1>1
<1>5. UNION {FlagsOf(t.clients[c]) : c \in Clients} = {}
  BY <1>4, NewClientSound
<1>6. Sound(t)
  BY <1>1, <1>3, <1>4, <1>5, NewClientSound DEF Sound
<1> QED
  BY <1>1, <1>2, <1>6 DEF t

LEMMA ProgressSound ==
  ASSUME NEW t, Sound(t), NEW d \in Directions, NEW n \in 0..MaxBytes
  PROVE  LET u == [t EXCEPT !.bytes[d] = n]
         IN  Sound(u) /\ u.type = t.type
<1> DEFINE u == [t EXCEPT !.bytes[d] = n]
<1>1. /\ u.clients = t.clients /\ u.watched = t.watched
      /\ u.flags = t.flags /\ u.type = t.type /\ u.cookie = t.cookie
  BY DEF Sound, TransferType
<1>2. u \in TransferType
  BY DEF Sound, TransferType
<1> HIDE DEF u
<1> QED
  BY <1>1, <1>2 DEF Sound, u

(* A transfer whose client c has become k, with the cached flags brought up
   to date. *)
LEMMA UpdatedSound ==
  ASSUME NEW t, Sound(t), NEW c \in Clients, NEW k \in ClientType,
         k.flags = FlagsOf(k), Unused(k, t.cookie),
         NEW u \in TransferType, u.cookie = t.cookie,
         u.clients = [t.clients EXCEPT ![c] = k],
         t.watched \ {c} \subseteq u.watched,
         c \notin u.watched => k = NewClient
  PROVE  Sound(UpdateFlags(u)) /\ UpdateFlags(u).type = u.type
<1> DEFINE v == UpdateFlags(u)
<1>1. /\ t.clients \in [Clients -> ClientType]
      /\ u.clients \in [Clients -> ClientType]
      /\ u.watched \subseteq Clients
  BY DEF Sound, TransferType
<1>2. /\ u.clients[c] = k
      /\ \A d \in Clients : d # c => u.clients[d] = t.clients[d]
  BY <1>1
<1>3. \A d \in Clients : u.clients[d].flags = FlagsOf(u.clients[d])
  BY <1>2 DEF Sound
<1>4. \A d \in Clients \ u.watched : u.clients[d] = NewClient
  BY <1>2 DEF Sound
<1>5. UNION {u.clients[d].flags : d \in u.watched}
        = UNION {FlagsOf(u.clients[d]) : d \in Clients}
  BY <1>1, <1>3, <1>4, NewClientSound
<1>6. UNION {FlagsOf(u.clients[d]) : d \in Clients} \in SUBSET Flags
  BY DEF FlagsOf
<1>7. v \in TransferType
  BY <1>5, <1>6 DEF UpdateFlags, TransferType
<1>8. /\ v.clients = u.clients /\ v.watched = u.watched /\ v.type = u.type
      /\ v.cookie = u.cookie
      /\ v.flags = UNION {u.clients[d].flags : d \in u.watched}
  BY DEF UpdateFlags, TransferType
<1> HIDE DEF v
<1>9. \A d \in Clients : Unused(v.clients[d], v.cookie)
  BY <1>2, <1>8 DEF Sound
<1>10. Sound(v)
  BY <1>9, <1>3, <1>4, <1>5, <1>7, <1>8 DEF Sound
<1> QED
  BY <1>8, <1>10 DEF v

(* Revoking a request leaves the client with the flags of the others. *)
LEMMA WithoutRequestSound ==
  ASSUME NEW k \in ClientType, NEW j, NEW cookie, Unused(k, cookie)
  PROVE  LET n == WithoutRequest(k, j)
         IN  /\ n \in ClientType
             /\ n.flags = FlagsOf(n)
             /\ Unused(n, cookie)
<1> DEFINE requests == [k.requests EXCEPT ![j] = {}]
           n == WithoutRequest(k, j)
<1>1. requests \in [Cookies -> SUBSET Flags]
  BY DEF ClientType
<1>2. n.requests = requests /\ n.flags = UNION {requests[i] : i \in Cookies}
  BY DEF WithoutRequest
<1> HIDE DEF requests
<1>3. UNION {requests[i] : i \in Cookies} \in SUBSET Flags
  BY <1>1
<1>4. n \in ClientType
  BY <1>1, <1>3 DEF ClientType, WithoutRequest, requests
<1>5. n.flags = FlagsOf(n)
  BY <1>1, <1>2 DEF FlagsOf
<1>6. Unused(n, cookie)
  BY <1>1, <1>2 DEF Unused, ClientType, requests
<1> QED
  BY <1>4, <1>5, <1>6

(* A new request adds its flags to those of its client and of the transfer:
   the cookie it gets has no older request. *)
LEMMA EnabledSound ==
  ASSUME NEW t, Sound(t), NEW c \in Clients, NEW asked \in SUBSET Flags,
         t.cookie + 1 <= MaxCookie
  PROVE  LET u == [t EXCEPT !.cookie = t.cookie + 1,
                            !.watched = @ \cup {c},
                            !.clients[c] = WithRequest(@, t.cookie + 1, asked),
                            !.flags = @ \cup asked]
         IN  Sound(u) /\ u.type = t.type
<1> DEFINE j == t.cookie + 1
           o == t.clients[c]
           k == WithRequest(o, j, asked)
           u == [t EXCEPT !.cookie = t.cookie + 1,
                          !.watched = @ \cup {c},
                          !.clients[c] = WithRequest(@, t.cookie + 1, asked),
                          !.flags = @ \cup asked]
<1>1. t.cookie \in Nat /\ j \in Cookies /\ j \in 0..MaxCookie
  BY TransfersAssumption DEF Sound, TransferType, Cookies
<1>2. /\ o \in ClientType /\ o.flags = FlagsOf(o) /\ o.requests[j] = {}
      /\ Unused(o, t.cookie)
  BY <1>1 DEF Sound, TransferType, Unused
<1>3. /\ k.requests = [o.requests EXCEPT ![j] = asked]
      /\ k.flags = o.flags \cup asked
      /\ k \in ClientType
  BY <1>1, <1>2 DEF ClientType, WithRequest
<1>4. /\ u.clients = [t.clients EXCEPT ![c] = k]
      /\ u.watched = t.watched \cup {c} /\ u.cookie = j /\ u.type = t.type
      /\ u.flags = t.flags \cup asked
  BY DEF Sound, TransferType
<1>5. u = [t EXCEPT !.cookie = j, !.watched = t.watched \cup {c},
                    !.clients = [t.clients EXCEPT ![c] = k],
                    !.flags = t.flags \cup asked]
  BY DEF Sound, TransferType
<1> HIDE DEF k, u
<1>6. u \in TransferType
  BY <1>1, <1>3, <1>5 DEF Sound, TransferType
<1>7. FlagsOf(k) = FlagsOf(o) \cup asked
  BY <1>1, <1>2, <1>3 DEF FlagsOf, ClientType
<1>8. Unused(k, j)
  BY <1>1, <1>2, <1>3 DEF Unused, ClientType, Cookies
<1>9. /\ u.clients[c] = k
      /\ \A d \in Clients : d # c => u.clients[d] = t.clients[d]
  BY <1>4 DEF Sound, TransferType
<1>10. u.flags = UNION {FlagsOf(u.clients[d]) : d \in Clients}
  <2>1. \A d \in Clients : FlagsOf(u.clients[d])
                             = FlagsOf(t.clients[d]) \cup
                               (IF d = c THEN asked ELSE {})
    BY <1>7, <1>9
  <2> QED
    BY <1>4, <2>1 DEF Sound
<1>11. \A d \in Clients : Unused(u.clients[d], u.cookie)
  <2>1. \A d \in Clients : Unused(t.clients[d], j)
    BY <1>1 DEF Sound, Unused, Cookies
  <2> QED
    BY <1>4, <1>8, <1>9, <2>1
<1>12. /\ \A d \in Clients \ u.watched : u.clients[d] = NewClient
       /\ \A d \in Clients : u.clients[d].flags = FlagsOf(u.clients[d])
  BY <1>2, <1>3, <1>4, <1>7, <1>9 DEF Sound
<1>13. Sound(u)
  BY <1>6, <1>10, <1>11, <1>12 DEF Sound
<1> QED
  BY <1>4, <1>13 DEF u

-----------------------------------------------------------------------------
(* The table of transfers. *)

(* The list as a client should know it *)
TheList == {Path(m) : m \in {n \in Messages : Listed(n)}}

(* A transfer is entered, changed or removed; the others stay. *)
LEMMA TableSound ==
  ASSUME TransfersSound, NEW m \in Messages, NEW t, SetTransfer(m, t),
         t = NoTransfer \/ Sound(t)
  PROVE  /\ TransfersSound'
         /\ transfers'[m] = t
         /\ \A n \in Messages : n # m => transfers'[n] = transfers[n]
<1>1. t \in TransferType \cup {NoTransfer}
  BY DEF Sound
<1>2. /\ transfers' \in [Messages -> TransferType \cup {NoTransfer}]
      /\ transfers'[m] = t
      /\ \A n \in Messages : n # m => transfers'[n] = transfers[n]
  BY <1>1 DEF TransfersSound, SetTransfer
<1>3. ASSUME NEW n \in Messages, transfers'[n] # NoTransfer
      PROVE  Sound(transfers'[n])
  <2>1. CASE n = m
    BY <1>2, <1>3, <2>1
  <2>2. CASE n # m
    BY <1>2, <1>3, <2>2 DEF TransfersSound, Listed
  <2> QED
    BY <2>1, <2>2
<1> QED
  BY <1>2, <1>3 DEF TransfersSound, Listed

(* A transfer that is listed and changes stays listed under its path. *)
LEMMA ListKept ==
  ASSUME TransfersSound, NEW m \in Messages, Listed(m), NEW t, Sound(t),
         t.type = transfers[m].type, SetTransfer(m, t)
  PROVE  TheList' = TheList
<1>1. /\ transfers'[m] = t /\ t # NoTransfer
      /\ \A n \in Messages : n # m => transfers'[n] = transfers[n]
  BY TableSound, NoTransferAssumption DEF Sound
<1>2. \A n \in Messages : Listed(n)' <=> Listed(n)
  BY <1>1 DEF Listed
<1>3. \A n \in Messages : Path(n)' = Path(n)
  BY <1>1 DEF Path
<1> QED
  BY <1>2, <1>3 DEF TheList

(* The path that a transfer of m leaves *)
PathsOf(m) == IF Listed(m) THEN {Path(m)} ELSE {}

LEMMA StartedStep ==
  ASSUME TransfersSound, NEW m \in Messages, NEW type \in Types,
         Started(m, type)
  PROVE  /\ TransfersSound'
         /\ TheList' = (TheList \ PathsOf(m)) \cup {<<m, type>>}
<1> DEFINE t == NewTransfer(type, transfers[m])
<1>1. Sound(t) /\ t.type = type /\ SetTransfer(m, t)
  BY NewTransferSound DEF Started, TransfersSound
<1> HIDE DEF t
<1>2. /\ TransfersSound'
      /\ transfers'[m] = t /\ t # NoTransfer
      /\ \A n \in Messages : n # m => transfers'[n] = transfers[n]
  BY <1>1, TableSound, NoTransferAssumption DEF Sound
<1>3. /\ \A n \in Messages : Listed(n)' <=> Listed(n) \/ n = m
      /\ \A n \in Messages : n # m => Path(n)' = Path(n)
      /\ \A n \in Messages : n # m => Path(n) # Path(m)
      /\ Path(m)' = <<m, type>>
  BY <1>1, <1>2 DEF Listed, Path
<1>4. TheList' = (TheList \ PathsOf(m)) \cup {<<m, type>>}
  BY <1>3 DEF TheList, PathsOf
<1> QED
  BY <1>2, <1>4

LEMMA FinishedStep ==
  ASSUME TransfersSound, NEW m \in Messages, Finished(m)
  PROVE  /\ TransfersSound'
         /\ TheList' = TheList \ {Path(m)}
<1>1. SetTransfer(m, NoTransfer) /\ Listed(m)
  BY DEF Finished
<1>2. /\ TransfersSound'
      /\ transfers'[m] = NoTransfer
      /\ \A n \in Messages : n # m => transfers'[n] = transfers[n]
  BY <1>1, TableSound
<1>3. /\ \A n \in Messages : Listed(n)' <=> Listed(n) /\ n # m
      /\ \A n \in Messages : n # m => Path(n)' = Path(n)
      /\ \A n \in Messages : n # m => Path(n) # Path(m)
  BY <1>1, <1>2 DEF Listed, Path
<1>4. TheList' = TheList \ {Path(m)}
  BY <1>1, <1>3 DEF TheList
<1> QED
  BY <1>2, <1>4

LEMMA ProgressStep ==
  ASSUME TransfersSound, NEW m \in Messages, NEW d \in Directions,
         NEW bytes \in 0..MaxBytes, Progress(m, d, bytes)
  PROVE  TransfersSound' /\ TheList' = TheList
<1> DEFINE t == transfers[m]
           u == [t EXCEPT !.bytes[d] = bytes]
<1>1. Listed(m) /\ Sound(t) /\ SetTransfer(m, u)
  BY DEF Progress, TransfersSound
<1>2. Sound(u) /\ u.type = t.type
  BY <1>1, ProgressSound
<1> HIDE DEF u
<1> QED
  BY <1>1, <1>2, TableSound, ListKept

LEMMA EnableStep ==
  ASSUME TransfersSound, NEW m \in Messages, NEW c \in Clients,
         NEW asked \in SUBSET Directions, EnableUpdates(m, c, asked)
  PROVE  TransfersSound' /\ TheList' = TheList
<1> DEFINE t == transfers[m]
           flags == asked \cup {"FINISHED"}
           u == [t EXCEPT !.cookie = t.cookie + 1,
                          !.watched = @ \cup {c},
                          !.clients[c] = WithRequest(@, t.cookie + 1, flags),
                          !.flags = @ \cup flags]
<1>1. /\ Listed(m) /\ Sound(t) /\ SetTransfer(m, u)
      /\ t.cookie + 1 <= MaxCookie
  BY DEF EnableUpdates, TransfersSound
<1>2. flags \in SUBSET Flags
  BY DEF Flags
<1>3. Sound(u) /\ u.type = t.type
  BY <1>1, <1>2, EnabledSound
<1> HIDE DEF u
<1> QED
  BY <1>1, <1>3, TableSound, ListKept

LEMMA DisableStep ==
  ASSUME TransfersSound, NEW m \in Messages, NEW c \in Clients,
         NEW j \in Cookies, DisableUpdates(m, c, j)
  PROVE  TransfersSound' /\ TheList' = TheList
<1> DEFINE t == transfers[m]
           k == WithoutRequest(t.clients[c], j)
           u == [t EXCEPT !.clients[c] = WithoutRequest(@, j)]
<1>1. /\ Listed(m) /\ Sound(t) /\ SetTransfer(m, UpdateFlags(u))
      /\ c \in t.watched
  BY DEF DisableUpdates, TransfersSound
<1>2. t.clients[c] \in ClientType /\ Unused(t.clients[c], t.cookie)
  BY <1>1 DEF Sound, TransferType
<1>3. k \in ClientType /\ k.flags = FlagsOf(k) /\ Unused(k, t.cookie)
  BY <1>2, WithoutRequestSound
<1>4. /\ u.clients = [t.clients EXCEPT ![c] = k]
      /\ u.watched = t.watched /\ u.cookie = t.cookie /\ u.type = t.type
  BY <1>1 DEF Sound, TransferType
<1> HIDE DEF k
<1>5. u \in TransferType
  BY <1>1, <1>3 DEF Sound, TransferType, k
<1> HIDE DEF u
<1>6. Sound(UpdateFlags(u)) /\ UpdateFlags(u).type = t.type
  BY <1>1, <1>3, <1>4, <1>5, UpdatedSound
<1> QED
  BY <1>1, <1>6, TableSound, ListKept

LEMMA VanishedStep ==
  ASSUME TransfersSound, NEW m \in Messages, NEW c \in Clients,
         ClientVanished(m, c)
  PROVE  TransfersSound' /\ TheList' = TheList
<1> DEFINE t == transfers[m]
           u == [t EXCEPT !.watched = @ \ {c}, !.clients[c] = NewClient]
<1>1. Listed(m) /\ Sound(t) /\ SetTransfer(m, UpdateFlags(u))
  BY DEF ClientVanished, TransfersSound
<1>2. /\ u.clients = [t.clients EXCEPT ![c] = NewClient]
      /\ u.watched = t.watched \ {c} /\ u.cookie = t.cookie
      /\ u.type = t.type
  BY <1>1 DEF Sound, TransferType
<1>3. u \in TransferType
  BY <1>1, NewClientSound DEF Sound, TransferType
<1> HIDE DEF u
<1>4. Sound(UpdateFlags(u)) /\ UpdateFlags(u).type = t.type
  BY <1>1, <1>2, <1>3, NewClientSound, UpdatedSound
<1> QED
  BY <1>1, <1>4, TableSound, ListKept

-----------------------------------------------------------------------------
(* The specification. *)

(* The inductive invariant *)
TransfersInv ==
  /\ TransfersSound
  /\ listeners \subseteq Clients
  /\ known \in [Clients -> SUBSET Paths]
  /\ \A c \in listeners : known[c] = TheList

(* The paths in the list *)
LEMMA ListPaths ==
  ASSUME TransfersSound
  PROVE  /\ \A m \in Messages : Listed(m) => Path(m) \in Paths
         /\ TheList \in SUBSET Paths
<1>1. ASSUME NEW m \in Messages, Listed(m)
      PROVE  Path(m) \in Paths
  BY <1>1 DEF TransfersSound, Sound, TransferType, Path, Paths
<1> QED
  BY <1>1 DEF TheList

LEMMA InitInv ==
  ASSUME Init
  PROVE  TransfersInv
<1>1. TransfersSound /\ TheList = {}
  BY DEF Init, TransfersSound, TheList, Listed
<1> QED
  BY <1>1 DEF Init, TransfersInv

(* Nobody starts or stops to follow the list, and it stays the same. *)
LEMMA SameListInv ==
  ASSUME TransfersInv, TransfersSound', TheList' = TheList,
         listeners' \subseteq listeners, known' = known
  PROVE  TransfersInv'
  BY DEF TransfersInv

(* Every step of the program keeps the invariant. *)
LEMMA NextKeepsInv ==
  ASSUME TransfersInv, [Next]_vars
  PROVE  TransfersInv'
<1>1. ASSUME UNCHANGED transfers
      PROVE  TransfersSound' /\ TheList' = TheList
  BY <1>1 DEF TransfersInv, TransfersSound, Listed, TheList, Path
<1>2. CASE UNCHANGED vars
  BY <1>1, <1>2, SameListInv DEF vars
<1>3. ASSUME NEW m \in Messages, NEW type \in Types, Started(m, type)
      PROVE  TransfersInv'
  <2>1. /\ TransfersSound'
        /\ TheList' = (TheList \ PathsOf(m)) \cup {<<m, type>>}
    BY <1>3, StartedStep DEF TransfersInv
  <2>2. /\ known' = [c \in Clients |->
                       IF c \in listeners
                       THEN (known[c] \ PathsOf(m)) \cup {<<m, type>>}
                       ELSE known[c]]
        /\ listeners' = listeners /\ <<m, type>> \in Paths
    BY <1>3 DEF Started, Hear, PathsOf, Paths
  <2> QED
    BY <2>1, <2>2 DEF TransfersInv
<1>4. ASSUME NEW m \in Messages, Finished(m)
      PROVE  TransfersInv'
  <2>1. TransfersSound' /\ TheList' = TheList \ {Path(m)}
    BY <1>4, FinishedStep DEF TransfersInv
  <2>2. /\ known' = [c \in Clients |-> IF c \in listeners
                                       THEN known[c] \ {Path(m)}
                                       ELSE known[c]]
        /\ listeners' = listeners
    BY <1>4 DEF Finished, Hear
  <2> QED
    BY <2>1, <2>2 DEF TransfersInv
<1>5. ASSUME NEW m \in Messages, NEW d \in Directions,
             NEW bytes \in 0..MaxBytes, Progress(m, d, bytes)
      PROVE  TransfersInv'
  BY <1>5, ProgressStep, SameListInv DEF Progress, TransfersInv
<1>6. ASSUME NEW m \in Messages, NEW c \in Clients,
             NEW asked \in SUBSET Directions, EnableUpdates(m, c, asked)
      PROVE  TransfersInv'
  BY <1>6, EnableStep, SameListInv DEF EnableUpdates, TransfersInv
<1>7. ASSUME NEW m \in Messages, NEW c \in Clients, NEW j \in Cookies,
             DisableUpdates(m, c, j)
      PROVE  TransfersInv'
  BY <1>7, DisableStep, SameListInv DEF DisableUpdates, TransfersInv
<1>8. ASSUME NEW c \in Clients, Get(c)
      PROVE  TransfersInv'
  <2>1. /\ transfers' = transfers /\ listeners' = listeners \cup {c}
        /\ known' = [known EXCEPT ![c] = TheList]
    BY <1>8 DEF Get, TheList
  <2>2. TransfersSound' /\ TheList' = TheList /\ TheList \in SUBSET Paths
    BY <1>1, <2>1, ListPaths DEF TransfersInv
  <2> QED
    BY <2>1, <2>2 DEF TransfersInv
<1>9. ASSUME NEW c \in Clients, Leave(c)
      PROVE  TransfersInv'
  BY <1>1, <1>9, SameListInv DEF Leave
<1>10. ASSUME NEW c \in Clients, ListClientVanished(c)
       PROVE  TransfersInv'
  BY <1>1, <1>10, SameListInv DEF ListClientVanished
<1>11. ASSUME NEW m \in Messages, NEW c \in Clients, ClientVanished(m, c)
       PROVE  TransfersInv'
  BY <1>11, VanishedStep, SameListInv DEF ClientVanished, TransfersInv
<1> QED
  BY <1>2, <1>3, <1>4, <1>5, <1>6, <1>7, <1>8, <1>9, <1>10, <1>11
     DEF Next, Vanished

LEMMA Invariance == Spec => []TransfersInv
<1>1. Init => TransfersInv
  BY InitInv
<1>2. TransfersInv /\ [Next]_vars => TransfersInv'
  BY NextKeepsInv
<1> QED
  BY <1>1, <1>2, PTL DEF Spec

(* What is signalled is exactly what is asked for: the flags of every client
   and of every transfer are those of the requests in force, whatever was
   revoked and whoever left. *)
THEOREM FlagsRequested == Spec => []FlagsAreRequested
<1>1. TransfersInv => FlagsAreRequested
  <2> SUFFICES ASSUME TransfersInv, NEW m \in Messages, Listed(m)
               PROVE  LET t == transfers[m]
                      IN  /\ \A c \in Clients :
                               t.clients[c].flags
                                 = {flag \in Flags : Asks(m, c, flag)}
                          /\ t.flags = {flag \in Flags :
                                          \E c \in Clients : Asks(m, c, flag)}
    BY DEF FlagsAreRequested
  <2> DEFINE t == transfers[m]
  <2>1. /\ \A c \in Clients : t.clients[c].flags = FlagsOf(t.clients[c])
        /\ t.flags = UNION {FlagsOf(t.clients[c]) : c \in Clients}
    BY DEF TransfersInv, TransfersSound, Sound
  <2>2. \A c \in Clients :
           FlagsOf(t.clients[c]) = {flag \in Flags : Asks(m, c, flag)}
    BY DEF FlagsOf, Asks
  <2> QED
    BY <2>1, <2>2
<1> QED
  BY <1>1, Invariance, PTL

(* A client that asked for the list and follows the signals knows it. *)
THEOREM ListKnown == Spec => []ListenersKnowTheList
<1>1. TransfersInv => ListenersKnowTheList
  BY DEF TransfersInv, ListenersKnowTheList, TheList
<1> QED
  BY <1>1, Invariance, PTL

-----------------------------------------------------------------------------
(* The signals. *)

(* A request always asks for the end of the transfer, too. *)
EndAsked(t) ==
  \A c \in Clients, j \in Cookies :
     t.clients[c].requests[j] # {} => "FINISHED" \in t.clients[c].requests[j]

EndsAsked == \A m \in Messages : Listed(m) => EndAsked(transfers[m])

(* What a step does to the transfer of m, its progress and its requests *)
Kept(m) ==
  Listed(m) /\ Listed(m)' =>
    /\ transfers'[m].object = transfers[m].object
    /\ transfers'[m].bytes = transfers[m].bytes
    /\ EndAsked(transfers[m]) => EndAsked(transfers'[m])

(* The clients that are sent signals of one name about one path *)
To(S, path, name) ==
  {s.to : s \in {r \in S : r.name = name /\ r.path = path}}

LEMMA Recipients ==
  ASSUME NEW S, NEW C, NEW path, NEW name,
         \A s \in S : s.name = name /\ s.path = path => s.to \in C,
         \A c \in C : [to |-> c, path |-> path, name |-> name] \in S
  PROVE  To(S, path, name) = C
<1> DEFINE R == {r \in S : r.name = name /\ r.path = path}
<1>1. ASSUME NEW c \in C
      PROVE  \E s \in R : s.to = c
  <2> DEFINE s == [to |-> c, path |-> path, name |-> name]
  <2>1. s \in S /\ s.name = name /\ s.path = path /\ s.to = c
    OBVIOUS
  <2> QED
    BY <2>1
<1>2. \A s \in R : s.to \in C
  OBVIOUS
<1> HIDE DEF R
<1>3. {s.to : s \in R} = C
  BY <1>1, <1>2
<1> QED
  BY <1>3 DEF R, To

(* A signal of the transfer reaches those who ask for it. *)
LEMMA EmitReaches ==
  ASSUME TransfersSound, NEW m \in Messages, Listed(m), NEW flag \in Flags
  PROVE  Emit(m, flag) = {[to |-> c, path |-> Path(m), name |-> flag] :
                            c \in {d \in Clients : Asks(m, d, flag)}}
<1> DEFINE t == transfers[m]
<1>1. Sound(t)
  BY DEF TransfersSound
<1>2. \A c \in Clients : flag \in t.clients[c].flags <=> Asks(m, c, flag)
  BY <1>1 DEF Sound, FlagsOf, Asks
<1>3. flag \in t.flags <=> \E c \in Clients : Asks(m, c, flag)
  BY <1>1 DEF Sound, FlagsOf, Asks
<1>4. \A c \in Clients : Asks(m, c, flag) => c \in t.watched
  BY <1>1 DEF Sound, Asks, NewClient
<1>5. t.watched \subseteq Clients
  BY <1>1 DEF Sound, TransferType
<1>6. {d \in t.watched : flag \in t.clients[d].flags}
        = {d \in Clients : Asks(m, d, flag)}
  BY <1>2, <1>4, <1>5
<1>7. CASE flag \in t.flags
  BY <1>6, <1>7 DEF Emit
<1>8. CASE flag \notin t.flags
  <2>1. {d \in Clients : Asks(m, d, flag)} = {}
    BY <1>3, <1>8
  <2>2. Emit(m, flag) = {}
    BY <1>8 DEF Emit
  <2> QED
    BY <2>1, <2>2
<1> QED
  BY <1>7, <1>8

(* The transfer of m changes: its clients as said, its progress not. *)
LEMMA ChangeKept ==
  ASSUME TransfersSound, NEW m \in Messages, NEW t, SetTransfer(m, t),
         Listed(m) => /\ t.object = transfers[m].object
                      /\ t.bytes = transfers[m].bytes,
         Listed(m) /\ EndAsked(transfers[m]) => EndAsked(t)
  PROVE  \A n \in Messages : Kept(n)
<1>1. \A n \in Messages :
         transfers'[n] = IF n = m THEN t ELSE transfers[n]
  BY DEF TransfersSound, SetTransfer
<1> QED
  BY <1>1 DEF Kept

LEMMA EnableKept ==
  ASSUME TransfersSound, NEW m \in Messages, NEW c \in Clients,
         NEW asked \in SUBSET Directions, EnableUpdates(m, c, asked)
  PROVE  \A n \in Messages : Kept(n)
<1> DEFINE t == transfers[m]
           j == t.cookie + 1
           flags == asked \cup {"FINISHED"}
           k == WithRequest(t.clients[c], j, flags)
           u == [t EXCEPT !.cookie = t.cookie + 1,
                          !.watched = @ \cup {c},
                          !.clients[c] = WithRequest(@, t.cookie + 1, flags),
                          !.flags = @ \cup flags]
<1>1. /\ Listed(m) /\ Sound(t) /\ SetTransfer(m, u)
      /\ t.cookie + 1 <= MaxCookie
  BY DEF EnableUpdates, TransfersSound
<1>2. j \in Cookies /\ t.clients[c] \in ClientType
  BY <1>1, TransfersAssumption DEF Sound, TransferType, Cookies
<1>3. k.requests = [t.clients[c].requests EXCEPT ![j] = flags]
      /\ k \in ClientType
  BY <1>2 DEF ClientType, WithRequest, Flags
<1>4. /\ u.clients = [t.clients EXCEPT ![c] = k] /\ u.bytes = t.bytes
      /\ u.object = t.object
  BY <1>1 DEF Sound, TransferType
<1> HIDE DEF k, u
<1>5. \A i \in Cookies : "FINISHED" \in k.requests[i] \/
                          k.requests[i] = t.clients[c].requests[i]
  BY <1>2, <1>3 DEF ClientType
<1>6. EndAsked(t) => EndAsked(u)
  <2>1. /\ u.clients[c] = k
        /\ \A d \in Clients : d # c => u.clients[d] = t.clients[d]
    BY <1>1, <1>4 DEF Sound, TransferType
  <2> QED
    BY <1>5, <2>1 DEF EndAsked
<1> QED
  BY <1>1, <1>4, <1>6, ChangeKept

LEMMA DisableKept ==
  ASSUME TransfersSound, NEW m \in Messages, NEW c \in Clients,
         NEW j \in Cookies, DisableUpdates(m, c, j)
  PROVE  \A n \in Messages : Kept(n)
<1> DEFINE t == transfers[m]
           k == WithoutRequest(t.clients[c], j)
           u == [t EXCEPT !.clients[c] = WithoutRequest(@, j)]
           v == UpdateFlags(u)
<1>1. Listed(m) /\ Sound(t) /\ SetTransfer(m, v)
  BY DEF DisableUpdates, TransfersSound
<1>2. t.clients[c] \in ClientType /\ Unused(t.clients[c], t.cookie)
  BY <1>1 DEF Sound, TransferType
<1>3. /\ k \in ClientType
      /\ k.requests = [t.clients[c].requests EXCEPT ![j] = {}]
  <2>1. k \in ClientType
    BY <1>2, WithoutRequestSound
  <2>2. k.requests = [t.clients[c].requests EXCEPT ![j] = {}]
    BY DEF WithoutRequest
  <2> QED
    BY <2>1, <2>2
<1>4. /\ v.clients = [t.clients EXCEPT ![c] = k] /\ v.bytes = t.bytes
      /\ v.object = t.object
  <2>1. u = [t EXCEPT !.clients = [@ EXCEPT ![c] = k]]
    OBVIOUS
  <2> HIDE DEF k, u
  <2>2. /\ u \in TransferType /\ u.bytes = t.bytes /\ u.object = t.object
        /\ u.clients = [t.clients EXCEPT ![c] = k]
    BY <1>1, <1>3, <2>1 DEF Sound, TransferType
  <2> HIDE DEF u
  <2> QED
    BY <2>2 DEF UpdateFlags, TransferType
<1> HIDE DEF k, v
<1>5. \A i \in Cookies : k.requests[i] # {} =>
                          k.requests[i] = t.clients[c].requests[i]
  BY <1>2, <1>3 DEF ClientType
<1>6. EndAsked(t) => EndAsked(v)
  <2>1. /\ v.clients[c] = k
        /\ \A d \in Clients : d # c => v.clients[d] = t.clients[d]
    BY <1>1, <1>4 DEF Sound, TransferType
  <2> QED
    BY <1>5, <2>1 DEF EndAsked
<1> QED
  BY <1>1, <1>4, <1>6, ChangeKept

LEMMA VanishedKept ==
  ASSUME TransfersSound, NEW m \in Messages, NEW c \in Clients,
         ClientVanished(m, c)
  PROVE  \A n \in Messages : Kept(n)
<1> DEFINE t == transfers[m]
           u == [t EXCEPT !.watched = @ \ {c}, !.clients[c] = NewClient]
           v == UpdateFlags(u)
<1>1. Listed(m) /\ Sound(t) /\ SetTransfer(m, v)
  BY DEF ClientVanished, TransfersSound
<1>2. /\ v.clients = [t.clients EXCEPT ![c] = NewClient] /\ v.bytes = t.bytes
      /\ v.object = t.object
  <2>1. /\ u \in TransferType /\ u.bytes = t.bytes /\ u.object = t.object
        /\ u.clients = [t.clients EXCEPT ![c] = NewClient]
    BY <1>1, NewClientSound DEF Sound, TransferType
  <2> HIDE DEF u
  <2> QED
    BY <2>1 DEF UpdateFlags, TransferType
<1> HIDE DEF v
<1>3. \A i \in Cookies : NewClient.requests[i] = {}
  BY DEF NewClient
<1>4. EndAsked(t) => EndAsked(v)
  <2>1. /\ v.clients[c] = NewClient
        /\ \A d \in Clients : d # c => v.clients[d] = t.clients[d]
    BY <1>1, <1>2 DEF Sound, TransferType
  <2> QED
    BY <1>3, <2>1 DEF EndAsked
<1> QED
  BY <1>1, <1>2, <1>4, ChangeKept

(* The progress of one transfer changes, and that of no other. *)
LEMMA ProgressMade ==
  ASSUME TransfersSound, NEW m \in Messages, NEW d \in Directions,
         NEW bytes \in 0..MaxBytes, Progress(m, d, bytes)
  PROVE  /\ Listed(m)
         /\ \A n \in Messages : n # m => Kept(n)
         /\ transfers'[m].object = transfers[m].object
         /\ \A e \in Directions :
              transfers'[m].bytes[e] # transfers[m].bytes[e] => e = d
         /\ EndAsked(transfers[m]) => EndAsked(transfers'[m])
<1> DEFINE t == transfers[m]
           u == [t EXCEPT !.bytes[d] = bytes]
<1>1. Listed(m) /\ Sound(t) /\ SetTransfer(m, u)
  BY DEF Progress, TransfersSound
<1>2. /\ u.clients = t.clients /\ u.bytes = [t.bytes EXCEPT ![d] = bytes]
      /\ u.object = t.object
      /\ t.bytes \in [Directions -> 0..MaxBytes]
  BY <1>1 DEF Sound, TransferType
<1> HIDE DEF u
<1>3. \A n \in Messages :
         transfers'[n] = IF n = m THEN u ELSE transfers[n]
  BY <1>1 DEF TransfersSound, SetTransfer
<1>4. \A n \in Messages : n # m => Kept(n)
  BY <1>3 DEF Kept
<1>5. EndAsked(t) => EndAsked(u)
  BY <1>2 DEF EndAsked
<1> QED
  BY <1>1, <1>2, <1>3, <1>4, <1>5

(* Which transfers the end of one ends *)
LEMMA EndMade ==
  ASSUME TransfersSound, NEW m \in Messages, Finished(m)
  PROVE  /\ Listed(m)
         /\ \A n \in Messages : Kept(n)
         /\ \A n \in Messages : n # m => (Listed(n) => Listed(n)')
<1>1. Listed(m) /\ SetTransfer(m, NoTransfer)
  BY DEF Finished
<1>2. \A n \in Messages :
         transfers'[n] = IF n = m THEN NoTransfer ELSE transfers[n]
  BY <1>1 DEF TransfersSound, SetTransfer
<1> QED
  BY <1>1, <1>2 DEF Kept, Listed

(* A new transfer ends the one whose place it takes, and no other. *)
LEMMA StartMade ==
  ASSUME TransfersSound, NEW m \in Messages, NEW type \in Types,
         Started(m, type)
  PROVE  /\ ~Stays(m)
         /\ EndAsked(transfers'[m])
         /\ \A n \in Messages : n # m => Kept(n) /\ (Listed(n) => Listed(n)')
<1> DEFINE t == NewTransfer(type, transfers[m])
<1>1. \A n \in Messages :
         transfers'[n] = IF n = m THEN t ELSE transfers[n]
  BY DEF Started, TransfersSound, SetTransfer
<1>2. Listed(m) => t.object # transfers[m].object
  BY NewTransferSound DEF Listed, TransfersSound
<1>3. EndAsked(t)
  BY DEF NewTransfer, NewClient, EndAsked
<1> HIDE DEF t
<1> QED
  BY <1>1, <1>2, <1>3 DEF Stays, Kept, Listed

(* As long as the list is the same, nothing on it has gone. *)
LEMMA SameList ==
  ASSUME TheList' = TheList, NEW m \in Messages, Listed(m)
  PROVE  Listed(m)'
<1>1. Path(m) \in TheList'
  BY DEF TheList
<1>2. PICK k \in Messages : Listed(k)' /\ Path(m) = Path(k)'
  BY <1>1 DEF TheList
<1>3. m = k
  BY <1>2 DEF Path
<1> QED
  BY <1>2, <1>3

(* The other steps keep the progress, and end nothing. *)
LEMMA OtherStep ==
  ASSUME TransfersSound, TransfersSound', [Next]_vars
  PROVE  \/ \E m \in Messages, d \in Directions, bytes \in 0..MaxBytes :
               Progress(m, d, bytes)
         \/ \E m \in Messages : Finished(m)
         \/ \E m \in Messages, type \in Types : Started(m, type)
         \/ \A m \in Messages : Kept(m) /\ (Listed(m) => Listed(m)')
<1>1. ASSUME UNCHANGED transfers
      PROVE  \A m \in Messages : Kept(m) /\ (Listed(m) => Listed(m)')
  BY <1>1 DEF Kept, Listed
<1>2. ASSUME TheList' = TheList
      PROVE  \A n \in Messages : Listed(n) => Listed(n)'
  BY <1>2, SameList
<1>3. ASSUME NEW m \in Messages, NEW c \in Clients,
             NEW asked \in SUBSET Directions, EnableUpdates(m, c, asked)
      PROVE  \A n \in Messages : Kept(n) /\ (Listed(n) => Listed(n)')
  BY <1>3, <1>2, EnableKept, EnableStep
<1>4. ASSUME NEW m \in Messages, NEW c \in Clients, NEW j \in Cookies,
             DisableUpdates(m, c, j)
      PROVE  \A n \in Messages : Kept(n) /\ (Listed(n) => Listed(n)')
  BY <1>4, <1>2, DisableKept, DisableStep
<1>5. ASSUME NEW m \in Messages, NEW c \in Clients, ClientVanished(m, c)
      PROVE  \A n \in Messages : Kept(n) /\ (Listed(n) => Listed(n)')
  BY <1>5, <1>2, VanishedKept, VanishedStep
<1>6. ASSUME NEW c \in Clients, Get(c) \/ Leave(c) \/ ListClientVanished(c)
      PROVE  \A m \in Messages : Kept(m) /\ (Listed(m) => Listed(m)')
  BY <1>1, <1>6 DEF Get, Leave, ListClientVanished
<1>7. CASE UNCHANGED vars
  BY <1>1, <1>7 DEF vars
<1> QED
  BY <1>3, <1>4, <1>5, <1>6, <1>7 DEF Next, Vanished

LEMMA EndsAskedKept ==
  ASSUME TransfersSound, TransfersSound', EndsAsked, [Next]_vars
  PROVE  EndsAsked'
<1> SUFFICES ASSUME NEW m \in Messages, Listed(m)'
             PROVE  EndAsked(transfers'[m])
  BY DEF EndsAsked, EndAsked
<1>1. ASSUME NEW n \in Messages, NEW type \in Types, Started(n, type)
      PROVE  EndAsked(transfers'[m])
  <2>1. CASE n = m
    BY <1>1, <2>1, StartMade
  <2>2. CASE n # m
    <3>1. transfers'[m] = transfers[m]
      BY <1>1, <2>2 DEF Started, SetTransfer, TransfersSound
    <3> QED
      BY <3>1 DEF EndsAsked, Listed
  <2> QED
    BY <2>1, <2>2
<1>2. CASE Listed(m) \/ \E n \in Messages, type \in Types : Started(n, type)
  <2>1. Listed(m) => EndAsked(transfers[m])
    BY DEF EndsAsked
  <2>2. CASE Listed(m) /\ Kept(m)
    BY <2>1, <2>2 DEF Kept
  <2>3. ASSUME NEW n \in Messages, NEW d \in Directions, Listed(m),
               NEW bytes \in 0..MaxBytes, Progress(n, d, bytes)
        PROVE  EndAsked(transfers'[m])
    BY <2>1, <2>2, <2>3, ProgressMade
  <2>4. ASSUME NEW n \in Messages, Finished(n), Listed(m)
        PROVE  EndAsked(transfers'[m])
    BY <2>2, <2>4, EndMade
  <2> QED
    BY <1>1, <1>2, <2>2, <2>3, <2>4, OtherStep
<1>3. CASE /\ ~Listed(m)
           /\ ~ \E n \in Messages, type \in Types : Started(n, type)
  <2>1. ASSUME NEW n \in Messages, NEW t, Listed(n), SetTransfer(n, t)
        PROVE  FALSE
    BY <1>3, <2>1 DEF TransfersSound, SetTransfer, Listed
  <2>2. transfers' # transfers
    BY <1>3 DEF Listed
  <2> QED
    BY <1>3, <2>1, <2>2
    DEF Next, Vanished, vars, Finished, Progress, EnableUpdates,
        DisableUpdates, ClientVanished, ListClientVanished, Get, Leave
<1> QED
  BY <1>2, <1>3

LEMMA EndsInvariance == Spec => []EndsAsked
<1>1. Init => EndsAsked
  BY DEF Init, EndsAsked, Listed
<1>2. TransfersInv => TransfersSound
  BY DEF TransfersInv
<1>3. TransfersSound /\ TransfersSound' /\ EndsAsked /\ [Next]_vars => EndsAsked'
  BY EndsAskedKept
<1> QED
  BY <1>1, <1>2, <1>3, Invariance, PTL DEF Spec

(* Progress reaches the clients that ask for it at the time, and no other. *)
THEOREM ProgressReaches == Spec => ProgressReachesRequests
<1>1. ASSUME TransfersSound, TransfersSound', [Next]_vars,
             NEW m \in Messages, NEW d \in Directions, Stays(m),
             transfers'[m].bytes[d] # transfers[m].bytes[d]
      PROVE  Told(m, d) = {c \in Clients : Asks(m, c, d)}
  <2>1. ~Kept(m)
    BY <1>1 DEF Kept, Stays
  <2>2. PICK n \in Messages, e \in Directions, bytes \in 0..MaxBytes :
           Progress(n, e, bytes)
    BY <1>1, <2>1, OtherStep, EndMade, StartMade
  <2>3. n = m /\ e = d
    BY <1>1, <2>1, <2>2, ProgressMade
  <2>4. sent' = {[to |-> c, path |-> Path(m), name |-> d] :
                   c \in {b \in Clients : Asks(m, b, d)}}
    BY <1>1, <2>2, <2>3, EmitReaches DEF Progress, Flags
  <2>5. To(sent', Path(m), d) = {c \in Clients : Asks(m, c, d)}
    <3> DEFINE C == {c \in Clients : Asks(m, c, d)}
    <3>1. \A s \in sent' : s.to \in C
      BY <2>4
    <3>2. \A c \in C : [to |-> c, path |-> Path(m), name |-> d] \in sent'
      BY <2>4
    <3> HIDE DEF C
    <3>3. To(sent', Path(m), d) = C
      BY <3>1, <3>2, Recipients
    <3> QED
      BY <3>3 DEF C
  <2> QED
    BY <2>5 DEF Told, To
<1>2. TransfersInv => TransfersSound
  BY DEF TransfersInv
<1>3. TransfersSound /\ TransfersSound' /\ [Next]_vars =>
        [\A m \in Messages, d \in Directions :
          Stays(m) /\ transfers'[m].bytes[d] # transfers[m].bytes[d]
          => Told(m, d) = {c \in Clients : Asks(m, c, d)}]_vars
  BY <1>1
<1> QED
  BY <1>2, <1>3, Invariance, PTL DEF Spec, ProgressReachesRequests

(* The end of a transfer reaches all who ask for any of its updates, and all
   who follow the list. *)
THEOREM EndReaches == Spec => EndReachesRequests
<1>1. ASSUME TransfersSound, TransfersSound', EndsAsked,
             listeners \subseteq Clients, [Next]_vars,
             NEW m \in Messages, Listed(m), ~Stays(m)
      PROVE  /\ Told(m, "FINISHED")
                  = {c \in Clients : \E flag \in Flags : Asks(m, c, flag)}
             /\ Told(m, "TransferFinished") = listeners
  <2>1. ASSUME NEW n \in Messages, NEW d \in Directions,
               NEW bytes \in 0..MaxBytes, Progress(n, d, bytes)
        PROVE  FALSE
    <3>1. TheList' = TheList
      BY <1>1, <2>1, ProgressStep
    <3>2. Listed(m)'
      BY <1>1, <3>1, SameList
    <3>3. transfers'[m].object = transfers[m].object
      BY <1>1, <2>1, <3>2, ProgressMade DEF Kept
    <3> QED
      BY <1>1, <3>2, <3>3 DEF Stays
  <2>2. Finished(m) \/ \E type \in Types : Started(m, type)
    <3>1. ~(Kept(m) /\ (Listed(m) => Listed(m)'))
      BY <1>1 DEF Kept, Stays
    <3> QED
      BY <1>1, <2>1, <3>1, OtherStep, EndMade, StartMade
  <2>3. EndSignals(m)
          = {[to |-> c, path |-> Path(m), name |-> "TransferFinished"] :
               c \in listeners}
            \cup {[to |-> c, path |-> Path(m), name |-> "FINISHED"] :
                    c \in {b \in Clients : Asks(m, b, "FINISHED")}}
    BY <1>1, EmitReaches DEF EndSignals, EmitToListeners, Flags
  <2>4. /\ EndSignals(m) \subseteq sent'
        /\ \A s \in sent' \ EndSignals(m) : s.name = "TransferStarted"
    <3>1. CASE Finished(m)
      BY <3>1 DEF Finished
    <3>2. ASSUME NEW type \in Types, Started(m, type)
          PROVE  sent' = EndSignals(m)
                           \cup EmitToListeners(<<m, type>>, "TransferStarted")
      BY <3>2 DEF Started
    <3>3. \A path : \A s \in EmitToListeners(path, "TransferStarted") :
             s.name = "TransferStarted"
      BY DEF EmitToListeners
    <3> QED
      BY <2>2, <3>1, <3>2, <3>3
  <2>5. \A c \in Clients : (\E flag \in Flags : Asks(m, c, flag))
                             <=> Asks(m, c, "FINISHED")
    BY <1>1 DEF EndsAsked, EndAsked, Asks, Flags
  <2>6. To(sent', Path(m), "FINISHED") = {b \in Clients : Asks(m, b, "FINISHED")}
    <3> DEFINE C == {b \in Clients : Asks(m, b, "FINISHED")}
    <3>1. \A s \in sent' : s.name = "FINISHED" => s.to \in C
      BY <2>3, <2>4
    <3>2. \A c \in C :
             [to |-> c, path |-> Path(m), name |-> "FINISHED"] \in sent'
      BY <2>3, <2>4
    <3> HIDE DEF C
    <3>3. To(sent', Path(m), "FINISHED") = C
      BY <3>1, <3>2, Recipients
    <3> QED
      BY <3>3 DEF C
  <2>7. To(sent', Path(m), "TransferFinished") = listeners
    <3>1. \A s \in sent' : s.name = "TransferFinished" => s.to \in listeners
      BY <2>3, <2>4
    <3>2. \A c \in listeners :
             [to |-> c, path |-> Path(m), name |-> "TransferFinished"] \in sent'
      BY <2>3, <2>4
    <3> QED
      BY <3>1, <3>2, Recipients
  <2> QED
    BY <2>5, <2>6, <2>7 DEF Told, To
<1>2. TransfersInv => TransfersSound /\ listeners \subseteq Clients
  BY DEF TransfersInv
<1>3. TransfersSound /\ TransfersSound' /\ EndsAsked
        /\ listeners \subseteq Clients /\ [Next]_vars =>
        [\A m \in Messages : Listed(m) /\ ~Stays(m) =>
          /\ Told(m, "FINISHED")
               = {c \in Clients : \E flag \in Flags : Asks(m, c, flag)}
          /\ Told(m, "TransferFinished") = listeners]_vars
  BY <1>1
<1> QED
  BY <1>2, <1>3, Invariance, EndsInvariance, PTL
  DEF Spec, EndReachesRequests

-----------------------------------------------------------------------------
(* The types. *)

(* The clients and what they are sent *)
BusTyped ==
  /\ alive \subseteq Clients
  /\ late \subseteq Clients \ alive
  /\ sent \subseteq SignalType

LEMMA SignalsTyped ==
  ASSUME TransfersInv, NEW m \in Messages, Listed(m)
  PROVE  /\ \A flag \in Flags : Emit(m, flag) \subseteq SignalType
         /\ EndSignals(m) \subseteq SignalType
<1>1. Path(m) \in Paths
  BY ListPaths DEF TransfersInv
<1>2. ASSUME NEW flag \in Flags
      PROVE  Emit(m, flag) \subseteq SignalType
  <2>1. Emit(m, flag) = {[to |-> c, path |-> Path(m), name |-> flag] :
                           c \in {d \in Clients : Asks(m, d, flag)}}
    BY EmitReaches DEF TransfersInv
  <2> QED
    BY <1>1, <2>1 DEF SignalType
<1>3. EmitToListeners(Path(m), "TransferFinished") \subseteq SignalType
  BY <1>1 DEF EmitToListeners, SignalType, TransfersInv
<1> QED
  BY <1>2, <1>3 DEF EndSignals, Flags

LEMMA BusStep ==
  ASSUME TransfersInv, BusTyped, [Next]_vars
  PROVE  BusTyped'
<1> USE DEF BusTyped
<1>1. ASSUME NEW m \in Messages, NEW type \in Types, Started(m, type)
      PROVE  BusTyped'
  <2>1. EmitToListeners(<<m, type>>, "TransferStarted") \subseteq SignalType
    BY DEF EmitToListeners, SignalType, Paths, TransfersInv
  <2>2. EndSignals(m) \subseteq SignalType
    BY SignalsTyped DEF EndSignals
  <2> QED
    BY <1>1, <2>1, <2>2 DEF Started
<1>2. ASSUME NEW m \in Messages, Finished(m)
      PROVE  BusTyped'
  BY <1>2, SignalsTyped DEF Finished, Flags
<1>3. ASSUME NEW m \in Messages, NEW d \in Directions,
             NEW bytes \in 0..MaxBytes, Progress(m, d, bytes)
      PROVE  BusTyped'
  BY <1>3, SignalsTyped DEF Progress, Flags
<1>4. ASSUME NEW c \in Clients, Calls(c), UNCHANGED alive, sent' = {}
      PROVE  BusTyped'
  BY <1>4 DEF Calls
<1>5. ASSUME NEW m \in Messages, NEW c \in Clients,
             NEW asked \in SUBSET Directions, EnableUpdates(m, c, asked)
      PROVE  BusTyped'
  BY <1>4, <1>5 DEF EnableUpdates
<1>6. ASSUME NEW m \in Messages, NEW c \in Clients, NEW j \in Cookies,
             DisableUpdates(m, c, j)
      PROVE  BusTyped'
  BY <1>4, <1>6 DEF DisableUpdates
<1>7. ASSUME NEW c \in Clients, Get(c)
      PROVE  BusTyped'
  BY <1>4, <1>7 DEF Get
<1>8. ASSUME NEW c \in Clients, Leave(c)
      PROVE  BusTyped'
  BY <1>8 DEF Leave
<1>9. ASSUME NEW c \in Clients, Vanished(c)
      PROVE  BusTyped'
  BY <1>9 DEF Vanished, ListClientVanished, ClientVanished
<1>10. CASE UNCHANGED vars
  BY <1>10 DEF vars
<1> QED
  BY <1>1, <1>2, <1>3, <1>5, <1>6, <1>7, <1>8, <1>9, <1>10 DEF Next

(* The variables keep their types, for any number of messages, clients and
   requests; only registered clients have requests. *)
THEOREM TypeCorrect == Spec => []TypeOK
<1>1. Init => BusTyped
  BY DEF Init, BusTyped
<1>2. TransfersInv /\ BusTyped /\ [Next]_vars => BusTyped'
  BY BusStep
<1>3. TransfersInv /\ BusTyped => TypeOK
  BY DEF TransfersInv, BusTyped, TypeOK, TransfersSound, Sound
<1> QED
  BY <1>1, <1>2, <1>3, Invariance, PTL DEF Spec

=============================================================================
