--------------------------- MODULE ConnectionNemo ---------------------------
(***************************************************************************)
(* Connections over ofono's Nemo extensions (mms_connection_nemo.c), the   *)
(* manager that creates them (mms_connman_nemo.c) and the dispatcher that  *)
(* holds one at a time.                                                    *)
(*                                                                         *)
(* A connection reserves the modem for its SIM with a D-Bus call, waits    *)
(* for the modem's connection manager and MMS context to become valid and  *)
(* activates the context.  When it ends it gives the reservation back with *)
(* another call; both are answered later, whatever has happened meanwhile. *)
(* D-Bus keeps the order of the calls, and that of the answers and signals.*)
(*                                                                         *)
(* Signal handlers run inside the calls that emit: the operations are      *)
(* functions of the program's state s, and n is what ofono says of the     *)
(* modem at the time.                                                      *)
(***************************************************************************)
EXTENDS Naturals, Sequences, FiniteSets

CONSTANTS Conns,      \* connections that can be created
          Imsi,       \* the SIM of each
          NoConn,     \* null
          NoImsi,     \* the empty string: the modem is not reserved
          MaxInbox,   \* bound: messages on their way when the SIM goes
          MaxCrashes  \* bound: how often ofono dies

ASSUME NemoAssumption ==
  /\ NoConn \notin Conns
  /\ \A c \in Conns : Imsi[c] # NoImsi
  /\ MaxInbox \in Nat /\ MaxCrashes \in Nat

VARIABLES client,   \* the program, see ClientType
          net,      \* the modem as libgofono sees it, see NetType
          outbox,   \* calls of SetMmsImsi on their way to ofono
          inbox,    \* replies and signals on their way back
          slot,     \* ofono's MmsImsi property
          up,       \* ofono is running
          crashes

vars == <<client, net, outbox, inbox, slot, up, crashes>>

States == {"NONE", "OPENING", "FAILED", "OPEN", "CLOSED"}
Active == {"OPENING", "OPEN"}

(* How far a connection has got; its signal handlers follow from it. *)
Steps == {"MM",      \* waiting for the modem manager to become valid
          "SIM",     \* SetMmsImsi has been called
          "MODEM",   \* waiting for the connection manager of the modem
          "CONTEXT", \* waiting for its MMS context
          "READY"}   \* following the context's state

Imsis == {Imsi[c] : c \in Conns} \cup {NoImsi}

CallType == [conn : Conns, imsi : Imsis]

ClientType ==
  [conn    : [Conns -> [state : States, step : Steps,
                        path  : BOOLEAN, \* the modem reserved for the SIM
                        refs  : Nat]],
   held    : Conns \cup {NoConn},  \* disp->connection and the manager's conn
   busy    : Nat,                  \* cm->busy
   valid   : BOOLEAN,              \* mm->valid
   request : {"NONE", "UP", "DOWN"}, \* what the context was asked to do
   out     : Seq(CallType)]        \* calls made in the current step

NetType == [modem : BOOLEAN, attached : BOOLEAN,
            context : {"NONE", "INVALID", "VALID"}, active : BOOLEAN]

Nets == {n \in NetType : n.active => n.context = "VALID"}

-----------------------------------------------------------------------------
(* Operations on the program's state. *)

IsActive(s, c) == s.conn[c].state \in Active

(* Seeded fault: the pending call does not keep the connection. *)
CallUnreferenced(s, c, imsi) ==
  [s EXCEPT !.busy = @ + 1, !.out = Append(@, [conn |-> c, imsi |-> imsi])]

(* A call of SetMmsImsi, with the connection referenced and the manager busy
   until it is answered *)
Call(s, c, imsi) ==
  [s EXCEPT !.conn[c].refs = @ + 1, !.busy = @ + 1,
            !.out = Append(@, [conn |-> c, imsi |-> imsi])]

(* Seeded fault: the manager stays busy after an answer. *)
AnsweredBusy(s, c) == [s EXCEPT !.conn[c].refs = @ - 1]

Answered(s, c) == [s EXCEPT !.conn[c].refs = @ - 1, !.busy = @ - 1]

(* ofono_connctx_valid(self->context) && context->active *)
ContextActive(s, c, n) ==
  s.conn[c].step \in {"CONTEXT", "READY"} /\ n.context = "VALID" /\ n.active

(* mms_connection_nemo_set_state, to a final state.  The manager forgets the
   connection; the dispatcher, in its own handler, closes it once more, which
   can only concern the context, and drops it. *)
End(s, c, n, state) ==
  LET freed == IF s.conn[c].path THEN Call(s, c, NoImsi) ELSE s
  IN  [freed EXCEPT !.conn[c].state = state,
                    !.conn[c].refs = @ - 1,
                    !.held = NoConn,
                    !.request = IF ContextActive(s, c, n) THEN "DOWN" ELSE @]

(* Seeded fault: final states are not final. *)
CancelTwice(s, c, n) ==
  IF s.conn[c].state = "OPENING" THEN End(s, c, n, "FAILED")
  ELSE End(s, c, n, "CLOSED")

(* mms_connection_nemo_cancel *)
Cancel(s, c, n) ==
  CASE s.conn[c].state = "OPENING" -> End(s, c, n, "FAILED")
    [] s.conn[c].state = "OPEN"    -> End(s, c, n, "CLOSED")
    [] OTHER -> s

(* mms_connection_nemo_request_sim *)
RequestSim(s, c) == Call([s EXCEPT !.conn[c].step = "SIM"], c, Imsi[c])

(* mms_connection_nemo_check_context: activation waits for the modem to be
   attached. *)
CheckContext(s, c, n) ==
  IF s.conn[c].state # "OPENING" THEN s
  ELSE IF n.active THEN [s EXCEPT !.conn[c].state = "OPEN"]
  ELSE IF n.modem /\ n.attached THEN [s EXCEPT !.request = "UP"]
  ELSE s

(* mms_connection_nemo_setup_context *)
SetupContext(s, c, n) ==
  CheckContext([s EXCEPT !.conn[c].step = "READY"], c, n)

(* mms_connection_nemo_init_context *)
InitContext(s, c, n) ==
  CASE n.context = "NONE"    -> Cancel(s, c, n)
    [] n.context = "INVALID" -> [s EXCEPT !.conn[c].step = "CONTEXT"]
    [] n.context = "VALID"   -> SetupContext(s, c, n)

(* Seeded fault: a reservation that comes too late is kept. *)
SetDoneTooLate(s, c, n, ok) ==
  IF ok /\ s.conn[c].state # "OPENING"
  THEN Answered([s EXCEPT !.conn[c].path = TRUE], c)
  ELSE LET reserved == [s EXCEPT !.conn[c].path = TRUE, !.request = "NONE"]
       IN  Answered(IF ~ok THEN Cancel(s, c, n)
                    ELSE IF n.modem THEN InitContext(reserved, c, n)
                    ELSE [reserved EXCEPT !.conn[c].step = "MODEM"], c)

(* mms_connection_nemo_set_mms_imsi_done *)
SetDone(s, c, n, ok) ==
  LET reserved == [s EXCEPT !.conn[c].path = TRUE, !.request = "NONE"]
      handled ==
        IF ~ok THEN Cancel(s, c, n)
        ELSE IF s.conn[c].state # "OPENING"
             THEN Call([s EXCEPT !.conn[c].path = TRUE], c, NoImsi)
        ELSE IF n.modem THEN InitContext(reserved, c, n)
        ELSE [reserved EXCEPT !.conn[c].step = "MODEM"]
  IN  Answered(handled, c)

(* The program's next state, with its calls under way *)
Becomes(s) == /\ client' = [s EXCEPT !.out = <<>>]
              /\ outbox' = outbox \o s.out

Held == client.held
At(step) == Held # NoConn /\ client.conn[Held].step = step

-----------------------------------------------------------------------------
(* The dispatcher. *)

(* mms_connman_nemo_open_connection, mms_connection_nemo_new *)
Open(c) ==
  /\ Held = NoConn
  /\ client.conn[c].state = "NONE"
  /\ LET new == [client EXCEPT !.conn[c].state = "OPENING",
                               !.conn[c].refs = 1,
                               !.held = c]
     IN  Becomes(IF client.valid THEN RequestSim(new, c) ELSE new)
  /\ UNCHANGED <<net, inbox, slot, up, crashes>>

(* mms_connection_nemo_close: an active context is deactivated first. *)
Close ==
  /\ Held # NoConn
  /\ Becomes(IF ContextActive(client, Held, net)
             THEN [client EXCEPT !.request = "DOWN"]
             ELSE Cancel(client, Held, net))
  /\ UNCHANGED <<net, inbox, slot, up, crashes>>

-----------------------------------------------------------------------------
(* The modem. *)

(* mms_connection_nemo_active_changed *)
ActiveChanged(s, c, n) ==
  IF n.active
  THEN [s EXCEPT !.conn[c].state = "OPEN",
                 !.request = IF @ = "UP" THEN "NONE" ELSE @]
  ELSE End([s EXCEPT !.request = "NONE"], c, n, "CLOSED")

(* What the handlers of connection c do when the modem's state becomes n:
   mms_connection_nemo_cancel_if_invalid, _connmgr_valid_changed,
   _context_valid_changed, _active_changed, _connmgr_attached_changed *)
NetHandled(s, c, n) ==
  LET step == s.conn[c].step
      usable == n.modem /\ n.context = "VALID"
  IN  CASE step = "MODEM" /\ n.modem -> InitContext(s, c, n)
        [] \/ step = "CONTEXT" /\ ~n.modem
           \/ step = "READY" /\ ~usable -> Cancel(s, c, n)
        [] step = "CONTEXT" /\ usable -> SetupContext(s, c, n)
        [] step = "READY" /\ usable /\ n.active # net.active ->
             ActiveChanged(s, c, n)
        [] /\ step = "READY" /\ usable /\ n.active = net.active
           /\ n.attached /\ ~net.attached -> CheckContext(s, c, n)
        [] OTHER -> s

(* One property of the modem changes. *)
NetStep(n) ==
  \/ \E b \in BOOLEAN : n = [net EXCEPT !.modem = b]
  \/ \E b \in BOOLEAN : n = [net EXCEPT !.attached = b]
  \/ \E x \in {"INVALID", "VALID"}, b \in BOOLEAN :
       net.context # "NONE" /\ n = [net EXCEPT !.context = x, !.active = b]

NetChanged(n) ==
  /\ Held # NoConn
  /\ client.conn[Held].step \notin {"MM", "SIM"}
  /\ n # net
  /\ NetStep(n)
  /\ net' = n
  /\ Becomes(NetHandled(client, Held, n))
  /\ UNCHANGED <<inbox, slot, up, crashes>>

(* mms_connection_nemo_activate_failed *)
ActivateFailed ==
  /\ At("READY")
  /\ client.request = "UP"
  /\ Becomes(Cancel([client EXCEPT !.request = "NONE"], Held, net))
  /\ UNCHANGED <<net, inbox, slot, up, crashes>>

-----------------------------------------------------------------------------
(* ofono. *)

SlotSignal(imsi) == IF imsi = slot THEN <<>>
                    ELSE <<[type |-> "imsi", imsi |-> imsi]>>

Reply(call, ok) == [type |-> "reply", call |-> call, ok |-> ok]

(* ofono answers the next call.  A SIM that is not there is refused; giving
   a reservation back is not. *)
Serve ==
  /\ outbox # <<>>
  /\ outbox' = Tail(outbox)
  /\ LET call == Head(outbox)
     IN  \/ /\ up
            /\ slot' = call.imsi
            /\ inbox' \in
                 {Append(inbox, Reply(call, TRUE)) \o SlotSignal(call.imsi),
                  Append(inbox \o SlotSignal(call.imsi), Reply(call, TRUE))}
         \/ /\ ~up \/ call.imsi # NoImsi
            /\ inbox' = Append(inbox, Reply(call, FALSE))
            /\ UNCHANGED slot
  /\ UNCHANGED <<client, net, up, crashes>>

(* The reserved SIM is removed. *)
SimRemoved ==
  /\ up /\ slot # NoImsi
  /\ Len(inbox) < MaxInbox
  /\ slot' = NoImsi
  /\ inbox' = inbox \o SlotSignal(NoImsi)
  /\ UNCHANGED <<client, net, outbox, up, crashes>>

Crash ==
  /\ up /\ crashes < MaxCrashes
  /\ up' = FALSE
  /\ crashes' = crashes + 1
  /\ slot' = NoImsi
  /\ inbox' = inbox \o [i \in DOMAIN outbox |-> Reply(outbox[i], FALSE)]
                   \o <<[type |-> "valid", valid |-> FALSE]>>
  /\ outbox' = <<>>
  /\ UNCHANGED <<client, net>>

Restart ==
  /\ ~up /\ outbox = <<>>
  /\ up' = TRUE
  /\ inbox' = Append(inbox, [type |-> "valid", valid |-> TRUE])
  /\ UNCHANGED <<client, net, outbox, slot, crashes>>

-----------------------------------------------------------------------------
(* What arrives from ofono. *)

(* mms_connection_nemo_set_mms_imsi_done, with the modem that was reserved in
   any state, or mms_connection_nemo_reset_mms_imsi_done *)
ReceiveReply(m) ==
  /\ m.type = "reply"
  /\ \/ /\ m.call.imsi # NoImsi
        /\ net' \in IF m.ok /\ IsActive(client, m.call.conn) THEN Nets
                    ELSE {net}
        /\ Becomes(SetDone(client, m.call.conn, net', m.ok))
     \/ /\ m.call.imsi = NoImsi
        /\ Becomes(Answered(client, m.call.conn))
        /\ UNCHANGED net

(* mms_connection_nemo_mms_imsi_changed, which is connected once the modem is
   reserved *)
ReceiveImsi(m) ==
  /\ m.type = "imsi"
  /\ IF /\ Held # NoConn
        /\ client.conn[Held].path
        /\ client.valid
        /\ m.imsi # Imsi[Held]
     THEN Becomes(Cancel(client, Held, net))
     ELSE UNCHANGED <<client, outbox>>
  /\ UNCHANGED net

(* mms_connection_nemo_mm_valid_changed, _cancel_if_mm_invalid *)
ReceiveValid(m) ==
  /\ m.type = "valid"
  /\ LET s == [client EXCEPT !.valid = m.valid]
     IN  Becomes(IF Held = NoConn THEN s
                 ELSE IF m.valid
                 THEN IF At("MM") THEN RequestSim(s, Held) ELSE s
                 ELSE IF At("MM") THEN s ELSE Cancel(s, Held, net))
  /\ UNCHANGED net

Receive ==
  /\ inbox # <<>>
  /\ inbox' = Tail(inbox)
  /\ LET m == Head(inbox)
     IN  ReceiveReply(m) \/ ReceiveImsi(m) \/ ReceiveValid(m)
  /\ UNCHANGED <<slot, up, crashes>>

-----------------------------------------------------------------------------
Init ==
  /\ client = [conn    |-> [c \in Conns |-> [state |-> "NONE", step |-> "MM",
                                             path |-> FALSE, refs |-> 0]],
               held    |-> NoConn,
               busy    |-> 0,
               valid   |-> FALSE,
               request |-> "NONE",
               out     |-> <<>>]
  /\ net = [modem |-> FALSE, attached |-> FALSE, context |-> "NONE",
            active |-> FALSE]
  /\ outbox = <<>>
  /\ up \in BOOLEAN
  /\ inbox = IF up THEN <<[type |-> "valid", valid |-> TRUE]>> ELSE <<>>
  /\ slot = NoImsi
  /\ crashes = 0

Next ==
  \/ \E c \in Conns : Open(c)
  \/ Close
  \/ \E n \in Nets : NetChanged(n)
  \/ ActivateFailed
  \/ Serve
  \/ SimRemoved
  \/ Crash
  \/ Restart
  \/ Receive

Spec == Init /\ [][Next]_vars

(***************************************************************************)
(* Fairness: ofono answers, what it sends arrives, and a context that is   *)
(* asked to deactivate becomes inactive.  Nothing makes a connection open. *)
(***************************************************************************)
Deactivated ==
  /\ client.request = "DOWN"
  /\ NetChanged([net EXCEPT !.active = FALSE])

Fairness == WF_vars(Serve) /\ WF_vars(Receive) /\ WF_vars(Deactivated)

FairSpec == Spec /\ Fairness

-----------------------------------------------------------------------------
(* Properties. *)

(* Every variable stays within its type. *)
MessageType ==
  [type : {"reply"}, call : CallType, ok : BOOLEAN]
  \cup [type : {"imsi"}, imsi : Imsis]
  \cup [type : {"valid"}, valid : BOOLEAN]

TypeOK ==
  /\ client \in ClientType
  /\ net \in Nets
  /\ outbox \in Seq(CallType)
  /\ inbox \in Seq(MessageType)
  /\ slot \in Imsis
  /\ up \in BOOLEAN
  /\ crashes \in 0..MaxCrashes

(* Where in the inbox the replies are *)
Replies == {i \in DOMAIN inbox : inbox[i].type = "reply"}

(* A pending call keeps what it needs.  The manager is busy for exactly the
   calls that ofono has not answered, so that the engine neither exits under a
   call nor waits for ever (mms_connman_busy_inc and _dec); a connection lives
   as long as somebody holds it or a call will be answered in its name, and
   one that is gone had ended (asserted in mms_connection_nemo_dispose). *)
PendingKeepsObjects ==
  /\ client.busy = Len(outbox) + Cardinality(Replies)
  /\ \A c \in Conns : client.conn[c].refs = 0 =>
        /\ ~IsActive(client, c)
        /\ \A i \in DOMAIN outbox : outbox[i].conn # c
        /\ \A i \in Replies : inbox[i].call.conn # c

(* The reservation of the modem follows its use.  An open connection can be
   used: its modem is reserved and its context is valid and active.  Once all
   connections have ended and all calls are answered the modem is free,
   however the connection ended and however late it was reserved ("Tell ofono
   that this SIM is no longer reserved for MMS"). *)
ReservationFollowsUse ==
  /\ \A c \in Conns : client.conn[c].state = "OPEN" =>
        client.conn[c].path /\ net.modem /\ ContextActive(client, c, net)
  /\ outbox = <<>> /\ Replies = {} /\ (\A c \in Conns : ~IsActive(client, c))
     => slot = NoImsi

Life == INSTANCE Connections
  WITH state <- [c \in Conns |-> client.conn[c].state]

(* "There are only two state change sequences allowed": every connection goes
   through one of them, one connection after the other (mms_connection.h,
   line 21). *)
ImplementsConnections == Life!LifeSpec

(* A connection that has been asked to close ends, and the calls made on its
   behalf are over some day. *)
ConnectionSettles ==
  /\ \A c \in Conns :
        Held = c /\ At("READY") /\ client.request = "DOWN" ~> Held # c
  /\ client.busy > 0 ~> client.busy = 0

(* "Canceled, releasing": a connection that gives its reservation back does
   not take that of another one, which is in use or being opened. *)
ReleasesItsOwn ==
  [][\A i \in Len(outbox) + 1 .. Len(outbox') :
        outbox'[i].imsi = NoImsi =>
           \A c \in Conns \ {outbox'[i].conn} : client'.conn[c].state \notin Active]_vars
=============================================================================
