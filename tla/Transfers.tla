------------------------------ MODULE Transfers ------------------------------
(***************************************************************************)
(* The transfers that the engine shows on D-Bus: the list                  *)
(* (mms_transfer_list_dbus.c), which HTTP tasks add transfers to and       *)
(* remove them from, and the transfers themselves (mms_transfer_dbus.c).   *)
(*                                                                         *)
(* A client that has asked for the list is told of what is added and       *)
(* removed.  A client of a transfer asks for updates as often as it likes, *)
(* revokes each request by its cookie, and may leave at any time; the list *)
(* and every transfer notice this for themselves, some time later.         *)
(***************************************************************************)
EXTENDS Naturals

CONSTANTS Messages, Types, Clients,
          NoTransfer,
          MaxCookie, \* bound: requests for the updates of one transfer
          MaxBytes   \* bound: values of a progress counter

ASSUME TransfersAssumption ==
  /\ MaxCookie \in Nat \ {0} /\ MaxBytes \in Nat

VARIABLES transfers,   \* the hash table of the list, see TransferType
          listeners,   \* clients of the list
          alive,       \* clients that are connected to the bus
          late,        \* clients that left with a call under way
          known,       \* what each client has heard of the list
          sent         \* signals sent in the last step

vars == <<transfers, listeners, alive, late, known, sent>>

Directions == {"SEND", "RECEIVE"}
Flags == Directions \cup {"FINISHED"}
Cookies == 1..MaxCookie

ClientType == [requests : [Cookies -> SUBSET Flags], \* {} is no request
               flags    : SUBSET Flags]

TransferType ==
  [type     : Types,
   object   : BOOLEAN,                 \* tells it from the one it replaces
   exported : BOOLEAN,                 \* clients can call it
   clients  : [Clients -> ClientType], \* NewClient, unless registered
   watched  : SUBSET Clients,          \* keys of priv->clients
   flags    : SUBSET Flags,            \* priv->flags
   cookie   : 0..MaxCookie,            \* priv->last_update_cookie
   bytes    : [Directions -> 0..MaxBytes]]

ASSUME NoTransferAssumption == NoTransfer \notin TransferType

(* mms_transfer_key_equal_cb compares a key with itself: the table does not
   tell the transfers of one message apart. *)
Listed(m) == transfers[m] # NoTransfer

Paths == Messages \X Types
Path(m) == <<m, transfers[m].type>>

SignalType == [to : Clients, path : Paths,
               name : Flags \cup {"TransferStarted", "TransferFinished"}]

-----------------------------------------------------------------------------
(* mms_transfer_dbus_emit_signal, for a transfer with the flag set *)
Emit(m, flag) ==
  IF flag \notin transfers[m].flags THEN {}
  ELSE {[to |-> c, path |-> Path(m), name |-> flag] :
          c \in {d \in transfers[m].watched :
                   flag \in transfers[m].clients[d].flags}}

(* mms_transfer_dbus_list_emit_signal *)
EmitToListeners(path, name) ==
  {[to |-> c, path |-> path, name |-> name] : c \in listeners}

NewClient == [requests |-> [k \in Cookies |-> {}], flags |-> {}]

(* mms_transfer_dbus_new, when the transfer old of the message may be listed.
   The path of an old one of that type is taken, and the new one is not
   exported. *)
NewTransfer(type, old) ==
  LET replaces == old # NoTransfer
  IN  [type     |-> type,
       object   |-> IF replaces THEN ~old.object ELSE FALSE,
       exported |-> ~(replaces /\ old.type = type /\ old.exported),
       clients  |-> [c \in Clients |-> NewClient],
       watched  |-> {}, flags |-> {}, cookie |-> 0,
       bytes    |-> [d \in Directions |-> 0]]

(* What the clients hear of a transfer that is taken off the table:
   mms_transfer_destroy_cb, mms_transfer_dbus_finished *)
EndSignals(m) ==
  IF Listed(m) THEN EmitToListeners(Path(m), "TransferFinished")
                    \cup Emit(m, "FINISHED")
  ELSE {}

(* The clients of the list apply what they hear: gone is off it, new on. *)
Hear(gone, new) ==
  known' = [c \in Clients |-> IF c \in listeners THEN (known[c] \ gone) \cup new
                              ELSE known[c]]

(* mms_transfer_dbus_update_flags *)
UpdateFlags(t) ==
  [t EXCEPT !.flags = UNION {t.clients[c].flags : c \in t.watched}]

SetTransfer(m, t) == transfers' = [transfers EXCEPT ![m] = t]

-----------------------------------------------------------------------------
(* What the HTTP tasks report. *)

(* Seeded fault: the end of a transfer that is replaced goes unheard. *)
StartedInPlace(m, type) ==
  /\ SetTransfer(m, NewTransfer(type, transfers[m]))
  /\ sent' = EmitToListeners(<<m, type>>, "TransferStarted")
  /\ Hear({}, {<<m, type>>})
  /\ UNCHANGED <<listeners, alive, late>>

(* mms_transfer_list_dbus_transfer_started.  "There's shouldn't be more than
   one transfer per message at any time" (line 101), but when there is one the
   new one replaces it. *)
Started(m, type) ==
  /\ SetTransfer(m, NewTransfer(type, transfers[m]))
  /\ sent' = EndSignals(m) \cup EmitToListeners(<<m, type>>, "TransferStarted")
  /\ Hear(IF Listed(m) THEN {Path(m)} ELSE {}, {<<m, type>>})
  /\ UNCHANGED <<listeners, alive, late>>

(* Seeded fault: the clients of the transfer hear of its end through the
   progress they asked for. *)
FinishedProgress(m) ==
  /\ Listed(m)
  /\ SetTransfer(m, NoTransfer)
  /\ sent' = EmitToListeners(Path(m), "TransferFinished")
             \cup {[s EXCEPT !.name = "FINISHED"] : s \in Emit(m, "SEND")}
  /\ Hear({Path(m)}, {})
  /\ UNCHANGED <<listeners, alive, late>>

(* mms_transfer_list_dbus_transfer_finished, by whichever task of the message,
   and mms_transfer_dbus_finalize *)
Finished(m) ==
  /\ Listed(m)
  /\ SetTransfer(m, NoTransfer)
  /\ sent' = EndSignals(m)
  /\ Hear({Path(m)}, {})
  /\ UNCHANGED <<listeners, alive, late>>

(* mms_transfer_dbus_send_progress, mms_transfer_dbus_receive_progress *)
Progress(m, d, bytes) ==
  /\ Listed(m)
  /\ transfers[m].bytes[d] # bytes
  /\ SetTransfer(m, [transfers[m] EXCEPT !.bytes[d] = bytes])
  /\ sent' = Emit(m, d)
  /\ UNCHANGED <<listeners, alive, late, known>>

-----------------------------------------------------------------------------
(* What the clients do.  The last call of a client may be handled after it
   has left. *)
Calls(c) == /\ c \in alive \cup late
            /\ late' = late \ {c}

(* mms_transfer_list_dbus_handle_get, for a client that is allowed to *)
Get(c) ==
  /\ Calls(c)
  /\ listeners' = listeners \cup {c}
  /\ known' = [known EXCEPT ![c] = {Path(m) : m \in {n \in Messages : Listed(n)}}]
  /\ sent' = {}
  /\ UNCHANGED <<transfers, alive>>

(* A client with one more request *)
WithRequest(client, k, flags) ==
  [requests |-> [client.requests EXCEPT ![k] = flags],
   flags    |-> client.flags \cup flags]

(* mms_transfer_dbus_handle_enable_updates *)
EnableUpdates(m, c, asked) ==
  /\ Calls(c)
  /\ Listed(m) /\ transfers[m].exported
  /\ LET t == transfers[m]
         k == t.cookie + 1
         flags == asked \cup {"FINISHED"}
     IN  /\ k <= MaxCookie
         /\ SetTransfer(m, [t EXCEPT !.cookie = k,
                                     !.watched = @ \cup {c},
                                     !.clients[c] = WithRequest(@, k, flags),
                                     !.flags = @ \cup flags])
  /\ sent' = {}
  /\ UNCHANGED <<listeners, alive, known>>

(* Seeded fault: the request is revoked, but not what other requests of the
   client have in common with it. *)
WithoutRequestFlags(client, k) ==
  [requests |-> [client.requests EXCEPT ![k] = {}],
   flags    |-> client.flags \ client.requests[k]]

(* The flags of a client without the request *)
WithoutRequest(client, k) ==
  LET requests == [client.requests EXCEPT ![k] = {}]
  IN  [requests |-> requests,
       flags    |-> UNION {requests[j] : j \in Cookies}]

(* mms_transfer_dbus_handle_disable_updates *)
DisableUpdates(m, c, k) ==
  /\ Calls(c)
  /\ Listed(m) /\ transfers[m].exported
  /\ c \in transfers[m].watched
  /\ SetTransfer(m, UpdateFlags([transfers[m] EXCEPT
                                   !.clients[c] = WithoutRequest(@, k)]))
  /\ sent' = {}
  /\ UNCHANGED <<listeners, alive, known>>

Leave(c) ==
  /\ c \in alive
  /\ alive' = alive \ {c}
  /\ late' \in {late, late \cup {c}}
  /\ sent' = {}
  /\ UNCHANGED <<transfers, listeners, known>>

-----------------------------------------------------------------------------
(* What D-Bus tells of clients that have left. *)

(* mms_transfer_list_dbus_client_vanished *)
ListClientVanished(c) ==
  /\ c \in listeners \ alive
  /\ listeners' = listeners \ {c}
  /\ sent' = {}
  /\ UNCHANGED <<transfers, alive, late, known>>

(* Seeded fault: only the flags of the transfer are updated. *)
ClientVanishedKept(m, c) ==
  /\ Listed(m)
  /\ c \in transfers[m].watched \ alive
  /\ SetTransfer(m, UpdateFlags([transfers[m] EXCEPT !.clients[c] = NewClient]))
  /\ sent' = {}
  /\ UNCHANGED <<listeners, alive, late, known>>

(* mms_transfer_dbus_client_vanished *)
ClientVanished(m, c) ==
  /\ Listed(m)
  /\ c \in transfers[m].watched \ alive
  /\ SetTransfer(m, UpdateFlags([transfers[m] EXCEPT !.watched = @ \ {c},
                                                     !.clients[c] = NewClient]))
  /\ sent' = {}
  /\ UNCHANGED <<listeners, alive, late, known>>

-----------------------------------------------------------------------------
Init ==
  /\ transfers = [m \in Messages |-> NoTransfer]
  /\ listeners = {}
  /\ alive = Clients
  /\ late = {}
  /\ known = [c \in Clients |-> {}]
  /\ sent = {}

Vanished(c) ==
  \/ ListClientVanished(c)
  \/ \E m \in Messages : ClientVanished(m, c)

Next ==
  \/ \E m \in Messages :
       \/ \E type \in Types : Started(m, type)
       \/ Finished(m)
       \/ \E d \in Directions, bytes \in 0..MaxBytes : Progress(m, d, bytes)
       \/ \E c \in Clients :
            \/ \E asked \in (SUBSET Directions) \ {{}} :
                 EnableUpdates(m, c, asked)
            \/ \E k \in Cookies : DisableUpdates(m, c, k)
  \/ \E c \in Clients : Get(c) \/ Leave(c) \/ Vanished(c)

Spec == Init /\ [][Next]_vars

(* D-Bus reports the clients that have left. *)
FairSpec ==
  Spec /\ \A c \in Clients, m \in Messages :
            WF_vars(ListClientVanished(c)) /\ WF_vars(ClientVanished(m, c))

-----------------------------------------------------------------------------
(* Properties. *)

(* Every variable stays within its type, and only registered clients have
   requests. *)
TypeOK ==
  /\ transfers \in [Messages -> TransferType \cup {NoTransfer}]
  /\ \A m \in Messages : Listed(m) =>
        \A c \in Clients \ transfers[m].watched :
           transfers[m].clients[c] = NewClient
  /\ listeners \subseteq Clients
  /\ alive \subseteq Clients
  /\ late \subseteq Clients \ alive
  /\ known \in [Clients -> SUBSET Paths]
  /\ sent \subseteq SignalType

Asks(m, c, flag) ==
  \E k \in Cookies : flag \in transfers[m].clients[c].requests[k]

(* The flags, which are kept at two levels, are exactly what the requests in
   force ask for. *)
FlagsAreRequested ==
  \A m \in Messages : Listed(m) =>
     LET t == transfers[m]
     IN  /\ \A c \in Clients :
              t.clients[c].flags = {flag \in Flags : Asks(m, c, flag)}
         /\ t.flags = {flag \in Flags : \E c \in Clients : Asks(m, c, flag)}

(* A client that has asked for the list knows it, as long as it applies the
   signals to what Get returned. *)
ListenersKnowTheList ==
  \A c \in listeners : known[c] = {Path(m) : m \in {n \in Messages : Listed(n)}}

Told(m, name) == {s.to : s \in {r \in sent' : r.name = name /\ r.path = Path(m)}}

(* The step leaves the transfer of m in its place. *)
Stays(m) == Listed(m) /\ Listed(m)' /\ transfers'[m].object = transfers[m].object

(* "They are emitted as long as at least one client needs them": progress
   reaches those who ask for it at the time and nobody else, whatever has
   been revoked and whoever has left (TransferList.xml). *)
ProgressReachesRequests ==
  [][\A m \in Messages, d \in Directions :
       Stays(m) /\ transfers'[m].bytes[d] # transfers[m].bytes[d]
       => Told(m, d) = {c \in Clients : Asks(m, c, d)}]_vars

(* "All registered clients get "Finished" signal": when a transfer ends, by
   itself or because another takes its place, all that ask for any of its
   updates hear of it. *)
EndReachesRequests ==
  [][\A m \in Messages : Listed(m) /\ ~Stays(m) =>
       /\ Told(m, "FINISHED") = {c \in Clients : \E flag \in Flags : Asks(m, c, flag)}
       /\ Told(m, "TransferFinished") = listeners]_vars

(* A client that has left is forgotten, by the list and by all transfers;
   until then signals are sent to it in vain. *)
LeaversAreForgotten ==
  \A c \in Clients :
     c \notin alive ~>
        c \notin listeners /\ \A m \in Messages :
                                 Listed(m) => c \notin transfers[m].watched
=============================================================================
