--------------------------- MODULE ConnectionOfono ---------------------------
(***************************************************************************)
(* The connection manager over plain ofono (mms_connman_ofono.c), its      *)
(* connections (mms_connection_ofono.c) and the dispatcher, which holds    *)
(* one of them at a time and drops it when it has ended.                   *)
(*                                                                         *)
(* The manager follows ofono's list of modems, picks the default one and   *)
(* remembers the connection of each by a weak pointer.  A connection       *)
(* follows its SIM and the MMS context of its modem.  Signal handlers run  *)
(* inside the event that emits, and so does what the dispatcher does in    *)
(* its own handler.                                                        *)
(*                                                                         *)
(* The specification stops where the dispatcher is left with a connection  *)
(* that has been freed.                                                    *)
(***************************************************************************)
EXTENDS Naturals

CONSTANTS Conns,    \* connections that can be created
          Modems,   \* the paths of modems
          Sims,     \* Sims[m]: the SIMs that modem m can be given
          Names,    \* values of a name that a context provides
          NoConn, NoModem, NoSim, NoName

ASSUME OfonoAssumption ==
  /\ NoConn \notin Conns
  /\ NoModem \notin Modems
  /\ \A m \in Modems : NoSim \notin Sims[m]
  /\ NoName \notin Names

VARIABLES up,        \* manager->valid
          listed,    \* the keys of self->modems
          default,   \* self->default_modem
          weak,      \* modem->conn
          ready,     \* modems whose SIM manager is valid
          sim,       \* simmgr->imsi of each, NoSim when none is present
          context,   \* the MMS context of each
          asked,     \* what each context was last asked to become
          conn,      \* the connections
          held,      \* disp->connection
          dangling   \* the one held has been freed

worldVars == <<up, listed, ready, sim>>
vars == <<up, listed, default, weak, ready, sim, context, asked, conn, held,
          dangling>>

Active == {"OPENING", "OPEN"}
Final == {"FAILED", "CLOSED"}

(* The rank of a state in MMS_CONNECTION_STATE *)
Rank == [s \in {"NONE"} \cup Active \cup Final |->
           CASE s = "NONE"    -> 0
             [] s = "OPENING" -> 1
             [] s = "FAILED"  -> 2
             [] s = "OPEN"    -> 3
             [] s = "CLOSED"  -> 4]

AllSims == UNION {Sims[m] : m \in Modems}

ConnType == [state : DOMAIN Rank, modem : Modems \cup {NoModem},
             imsi : AllSims \cup {NoSim}, name : Names \cup {NoName},
             refs : Nat]

(* exists: ofono_connmgr_get_context_for_type returns it *)
ContextType == [exists : BOOLEAN, active : BOOLEAN,
                name : Names \cup {NoName}]

NoContext == [exists |-> FALSE, active |-> FALSE, name |-> NoName]

Contexts == {x \in ContextType : x.active => x.exists}

-----------------------------------------------------------------------------
(* The manager. *)

Usable(m, sims, valid) == m \in valid /\ sims[m] # NoSim

(* mms_connman_ofono_select_default_modem: the first modem with a SIM in the
   order of the hash table, which is nobody's choice, or else any modem *)
Select(modems, sims, valid) ==
  LET usable == {m \in modems : Usable(m, sims, valid)}
  IN  CASE usable # {} -> usable
        [] usable = {} /\ modems # {} -> modems
        [] OTHER -> {NoModem}

(* ofono_connctx_deactivate *)
Deactivate(m) == IF context[m].active THEN [asked EXCEPT ![m] = "DOWN"]
                 ELSE asked

(* Seeded fault: the manager is not told that a connection is gone. *)
WeakForgetful(c) == weak

(* mms_connman_ofono_connection_gone *)
WeakWithout(c) == [m \in Modems |-> IF weak[m] = c THEN NoConn ELSE weak[m]]

(* mms_ofono_modem_cleanup for every modem of a set.  The connection is asked
   to close, which nobody hears with the modem gone, and a reference to it is
   dropped: the dispatcher's, for the manager has none. *)
Cleanup(gone) ==
  LET conns == {weak[m] : m \in gone} \ {NoConn}
  IN  /\ listed' = listed \ gone
      /\ weak' = [m \in Modems |-> IF m \in gone THEN NoConn ELSE weak[m]]
      /\ context' = [m \in Modems |-> IF m \in gone THEN NoContext
                                       ELSE context[m]]
      /\ asked' = [m \in Modems |-> IF m \in gone THEN "NONE" ELSE asked[m]]
      /\ conn' = [c \in Conns |-> IF c \in conns
                                  THEN [conn[c] EXCEPT !.refs = @ - 1]
                                  ELSE conn[c]]
      /\ dangling' = (held # NoConn /\ conn'[held].refs = 0)
      /\ UNCHANGED held

(* mms_connman_ofono_valid_changed, mms_connman_ofono_init_modems *)
OfonoUp(modems) ==
  /\ ~up
  /\ up' = TRUE
  /\ listed' = modems
  /\ default' \in Select(modems, sim, ready)
  /\ UNCHANGED <<weak, ready, sim, context, asked, conn, held, dangling>>

OfonoDown ==
  /\ up
  /\ up' = FALSE
  /\ default' = NoModem
  /\ Cleanup(listed)
  /\ UNCHANGED <<ready, sim>>

(* mms_connman_ofono_modem_added, mms_connman_ofono_add_modem *)
ModemAdded(m) ==
  /\ up
  /\ m \notin listed
  /\ listed' = listed \cup {m}
  /\ default' \in Select(listed', sim, ready)
  /\ UNCHANGED <<up, weak, ready, sim, context, asked, conn, held, dangling>>

(* mms_connman_ofono_modem_removed *)
ModemRemoved(m) ==
  /\ up
  /\ m \in listed
  /\ Cleanup({m})
  /\ default' \in Select(listed', sim, ready)
  /\ UNCHANGED <<up, ready, sim>>

-----------------------------------------------------------------------------
(* Connections. *)

(* The connection that listens to the signals of modem m: its handlers are
   removed when it ends. *)
Follows(c, m) == held = c /\ conn[c].modem = m /\ conn[c].state \in Active

(* mms_connection_ofono_set_state: whether the state changes *)
Moves(c, s) ==
  /\ conn[c].state \notin Final
  /\ Rank[conn[c].state] < Rank[s]

(* mms_connection_ofono_set_state, with what the dispatcher does in its own
   handler: it asks a connection that has ended to close and drops it. *)
SetState(c, s) ==
  LET moved == [conn EXCEPT ![c].state = s]
  IN  IF ~Moves(c, s) THEN UNCHANGED <<conn, held, weak>>
      ELSE IF s \in Final
      THEN /\ conn' = [moved EXCEPT ![c].refs = @ - 1]
           /\ held' = NoConn
           /\ weak' = WeakWithout(c)
      ELSE /\ conn' = moved
           /\ UNCHANGED <<held, weak>>

(* Seeded fault: a connection that failed to open is closed. *)
CancelClosed(c) == SetState(c, "CLOSED")

(* mms_connection_ofono_cancel *)
Cancel(c) ==
  SetState(c, IF Rank[conn[c].state] <= Rank["OPENING"] THEN "FAILED"
              ELSE "CLOSED")

(* mms_connman_ofono_modem_for_imsi *)
Reachable(m) == m \in listed /\ Usable(m, sim, ready)

(* mms_connman_ofono_open_connection, mms_connection_ofono_new *)
Open(c, m) ==
  /\ held = NoConn
  /\ conn[c].state = "NONE"
  /\ Reachable(m)
  /\ context[m].exists
  /\ IF weak[m] # NoConn
     THEN /\ held' = weak[m]
          /\ conn' = [conn EXCEPT ![weak[m]].refs = @ + 1]
          /\ UNCHANGED weak
     ELSE /\ held' = c
          /\ conn' = [conn EXCEPT ![c] =
                        [state |-> IF context[m].active THEN "OPEN"
                                   ELSE "OPENING",
                         modem |-> m, imsi |-> sim[m],
                         name  |-> context[m].name, refs |-> 1]]
          /\ weak' = [weak EXCEPT ![m] = c]
  /\ asked' = IF context[m].active THEN asked ELSE [asked EXCEPT ![m] = "UP"]
  /\ UNCHANGED <<worldVars, default, context, dangling>>

(* mms_connection_ofono_close: the connection ends when the context reports
   that it is not active any more. *)
Close ==
  /\ held # NoConn
  /\ asked' = Deactivate(conn[held].modem)
  /\ UNCHANGED <<worldVars, default, weak, context, conn, held, dangling>>

-----------------------------------------------------------------------------
(* What ofono reports of a modem. *)

(* Seeded fault: another SIM is as good. *)
PresenceLost(m) == \E c \in Conns : Follows(c, m) /\ sim'[m] = NoSim

ImsiLost(m) == \E c \in Conns : Follows(c, m) /\ conn[c].imsi # sim'[m]

(* The SIM manager of a modem becomes valid or invalid, or its SIM comes or
   goes: that another SIM is there instead selects no modem. *)
PresenceChanged(m) == ready' # ready \/ NoSim \in {sim[m], sim'[m]}

(* The SIM manager becomes valid or invalid, or its SIM comes, goes or is
   another one: mms_ofono_simmgr_changed, mms_connection_ofono_imsi_changed,
   mms_connection_ofono_present_changed. *)
SimChanged(m) ==
  /\ \/ /\ ready' = IF m \in ready THEN ready \ {m} ELSE ready \cup {m}
        /\ UNCHANGED sim
     \/ /\ \E i \in (Sims[m] \cup {NoSim}) \ {sim[m]} :
             sim' = [sim EXCEPT ![m] = i]
        /\ UNCHANGED ready
  /\ IF m \in listed /\ PresenceChanged(m)
     THEN default' \in Select(listed, sim', ready')
     ELSE UNCHANGED default
  /\ IF ImsiLost(m)
     THEN /\ Cancel(held)
          /\ asked' = Deactivate(m)
     ELSE UNCHANGED <<conn, held, weak, asked>>
  /\ UNCHANGED <<up, listed, context, dangling>>

(* Seeded fault: only the activation is heard of. *)
ActiveChangedUp(m) ==
  IF held # NoConn /\ Follows(held, m) /\ context'[m].active
  THEN SetState(held, "OPEN")
  ELSE UNCHANGED <<conn, held, weak>>

(* mms_connection_ofono_active_changed *)
ActiveChanged(m) ==
  IF held # NoConn /\ Follows(held, m)
  THEN SetState(held, IF context'[m].active THEN "OPEN" ELSE "CLOSED")
  ELSE UNCHANGED <<conn, held, weak>>

(* The context is activated or deactivated. *)
ContextActive(m, active) ==
  /\ context[m].exists
  /\ context[m].active # active
  /\ context' = [context EXCEPT ![m].active = active]
  /\ ActiveChanged(m)
  /\ asked' = [asked EXCEPT ![m] = "NONE"]
  /\ UNCHANGED <<worldVars, default, dangling>>

(* Activation fails: mms_connection_ofono_activate_failed *)
ActivateFailed(m) ==
  /\ asked[m] = "UP"
  /\ asked' = [asked EXCEPT ![m] = "NONE"]
  /\ IF held # NoConn /\ Follows(held, m) THEN Cancel(held)
     ELSE UNCHANGED <<conn, held, weak>>
  /\ UNCHANGED <<worldVars, default, context, dangling>>

(* The interface, the proxy and the message centre of the context are names
   that the connection borrows: mms_connection_ofono_interface_changed,
   _mms_proxy_changed, _mms_center_changed. *)
NameChanged(m) ==
  /\ context[m].exists
  /\ \E x \in (Names \cup {NoName}) \ {context[m].name} :
       /\ context' = [context EXCEPT ![m].name = x]
       /\ conn' = [c \in Conns |-> IF Follows(c, m)
                                   THEN [conn[c] EXCEPT !.name = x]
                                   ELSE conn[c]]
  /\ UNCHANGED <<worldVars, default, weak, asked, held, dangling>>

(* The modem is found to have an MMS context. *)
ContextAdded(m) ==
  /\ m \in listed
  /\ ~context[m].exists
  /\ context' = [context EXCEPT ![m].exists = TRUE]
  /\ UNCHANGED <<worldVars, default, weak, asked, conn, held, dangling>>

-----------------------------------------------------------------------------
(* mms_connman_ofono_new with an ofono that is there or not *)
Init ==
  /\ ready \in SUBSET Modems
  /\ sim \in [Modems -> AllSims \cup {NoSim}]
  /\ \A m \in Modems : sim[m] \in Sims[m] \cup {NoSim}
  /\ up \in BOOLEAN
  /\ listed \in SUBSET Modems
  /\ ~up => listed = {}
  /\ default \in Select(listed, sim, ready)
  /\ weak = [m \in Modems |-> NoConn]
  /\ context = [m \in Modems |-> NoContext]
  /\ asked = [m \in Modems |-> "NONE"]
  /\ conn = [c \in Conns |-> [state |-> "NONE", modem |-> NoModem,
                              imsi |-> NoSim, name |-> NoName, refs |-> 0]]
  /\ held = NoConn
  /\ dangling = FALSE

Manager ==
  \/ \E modems \in SUBSET Modems : OfonoUp(modems)
  \/ OfonoDown
  \/ \E m \in Modems : ModemAdded(m) \/ ModemRemoved(m)

Connection ==
  \/ \E c \in Conns, m \in Modems : Open(c, m)
  \/ Close

ModemStep(m) ==
  \/ SimChanged(m)
  \/ \E active \in BOOLEAN : ContextActive(m, active)
  \/ ActivateFailed(m)
  \/ NameChanged(m)
  \/ ContextAdded(m)

Next ==
  /\ ~dangling
  /\ \/ Manager
     \/ Connection
     \/ \E m \in Modems : ModemStep(m)

Spec == Init /\ [][Next]_vars

(***************************************************************************)
(* Fairness: a context that is asked to deactivate does so.                *)
(***************************************************************************)
Deactivated(m) == ~dangling /\ asked[m] = "DOWN" /\ ContextActive(m, FALSE)

FairSpec == Spec /\ \A m \in Modems : WF_vars(Deactivated(m))

-----------------------------------------------------------------------------
(* Properties. *)

(* Every variable stays within its type. *)
TypeOK ==
  /\ up \in BOOLEAN /\ dangling \in BOOLEAN
  /\ listed \subseteq Modems /\ ready \subseteq Modems
  /\ default \in Modems \cup {NoModem}
  /\ weak \in [Modems -> Conns \cup {NoConn}]
  /\ sim \in [Modems -> AllSims \cup {NoSim}]
  /\ context \in [Modems -> Contexts]
  /\ asked \in [Modems -> {"NONE", "UP", "DOWN"}]
  /\ conn \in [Conns -> ConnType]
  /\ held \in Conns \cup {NoConn}

(* The pointers the manager answers requests with are renewed in time.  The
   default modem is one of those that are there, and has a SIM when any of
   them has (mms_connman_ofono_select_default_modem). *)
DefaultHasSim ==
  /\ default = NoModem <=> listed = {}
  /\ default # NoModem => default \in listed
  /\ (\E m \in listed : Usable(m, sim, ready)) => Usable(default, sim, ready)

(* The weak pointer of a modem is to a connection that can still be used. *)
WeakPointsToActive ==
  \A m \in Modems : weak[m] # NoConn =>
     /\ conn[weak[m]].state \in Active
     /\ conn[weak[m]].modem = m
     /\ conn[weak[m]].refs > 0

(* A request never gets a modem without a SIM while another has one, nor a
   connection that has ended or has been freed, whatever modems, SIMs and
   connections came and went before. *)
PointersAreFresh == DefaultHasSim /\ WeakPointsToActive

(* A connection that the dispatcher holds is one it can use: its SIM is in
   its modem, the names it borrows from the context are the current ones, and
   when it is open the context is active. *)
HeldIsUsable ==
  held # NoConn /\ ~dangling =>
    LET c == conn[held]
    IN  /\ c.state \in Active
        /\ sim[c.modem] = c.imsi
        /\ context[c.modem].exists
        /\ context[c.modem].name = c.name
        /\ (c.state = "OPEN") <=> context[c.modem].active

Life == INSTANCE Connections WITH state <- [c \in Conns |-> conn[c].state]

(* "There are only two state change sequences allowed" (mms_connection.h:21):
   the connections go through them one after the other, up to the first that
   is freed under the dispatcher. *)
ImplementsConnections == Life!LifeSpec

(* An open connection that has been asked to close ends, whatever happens to
   its modem meanwhile. *)
CloseEnds == \A m \in Modems :
  held # NoConn /\ asked[m] = "DOWN" /\ conn[held].modem = m
  ~> dangling \/ held = NoConn \/ conn[held].modem # m

(* "The caller must release the reference" (mms_connman_ofono.c:190): the
   connection the dispatcher holds is there until the dispatcher lets go. *)
HeldIsReferenced == held # NoConn => conn[held].refs > 0
=============================================================================
