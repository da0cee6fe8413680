------------------------ MODULE ConnectionOfonoProofs ------------------------
(***************************************************************************)
(* Proofs about the connections over plain ofono, for any modems, SIMs and *)
(* connections: the pointers that the manager keeps are fresh, a           *)
(* connection that is held can be used, and the connections go through the *)
(* life cycle that is promised to those who hold them.                     *)
(*                                                                         *)
(* The properties are about what is held and do not say that nothing else  *)
(* is in use.  That the dispatcher's connection is the only active one,    *)
(* that nobody but the dispatcher has a reference to it and that only its  *)
(* modem points to it, is what makes them inductive.                       *)
(***************************************************************************)
EXTENDS ConnectionOfono, TLAPS

(* Only the connection that is held is active or pointed to. *)
OnlyHeld ==
  /\ \A m \in Modems : weak[m] \in {NoConn, held}
  /\ \A c \in Conns : conn[c].state \in Active => c = held

(* The dispatcher has the only reference to the connection it holds, and the
   connection's modem points back to it. *)
HeldOwned ==
  held # NoConn => /\ conn[held].refs = 1
                   /\ conn[held].modem \in Modems
                   /\ weak[conn[held].modem] = held

(* The inductive invariant.  Nothing is known of the dispatcher's connection
   when it has been freed. *)
OfonoInv ==
  /\ TypeOK
  /\ DefaultHasSim
  /\ WeakPointsToActive
  /\ ~dangling => OnlyHeld /\ HeldOwned
  /\ HeldIsUsable

(* No connection is in use. *)
Unused ==
  /\ held = NoConn
  /\ \A m \in Modems : weak[m] = NoConn
  /\ \A c \in Conns : conn[c].state \notin Active

-----------------------------------------------------------------------------
(* The operations. *)

(* The order of the states *)
LEMMA Ranks ==
  /\ DOMAIN Rank = {"NONE", "OPENING", "FAILED", "OPEN", "CLOSED"}
  /\ Rank["NONE"] = 0 /\ Rank["OPENING"] = 1 /\ Rank["FAILED"] = 2
  /\ Rank["OPEN"] = 3 /\ Rank["CLOSED"] = 4
  BY DEF Rank, Active, Final

(* The default modem that is selected has a SIM if any has. *)
LEMMA SelectFresh ==
  ASSUME NEW modems \in SUBSET Modems, NEW sims, NEW valid,
         NEW d \in Select(modems, sims, valid)
  PROVE  /\ d \in Modems \cup {NoModem}
         /\ d = NoModem <=> modems = {}
         /\ d # NoModem => d \in modems
         /\ (\E m \in modems : Usable(m, sims, valid))
              => Usable(d, sims, valid)
<1> DEFINE usable == {m \in modems : Usable(m, sims, valid)}
<1>1. CASE usable # {}
  <2>1. Select(modems, sims, valid) = usable
    BY <1>1 DEF Select
  <2> QED
    BY <2>1, OfonoAssumption DEF OfonoAssumption
<1>2. CASE usable = {} /\ modems # {}
  <2>1. Select(modems, sims, valid) = modems
    BY <1>2 DEF Select
  <2> QED
    BY <1>2, <2>1, OfonoAssumption DEF OfonoAssumption
<1>3. CASE usable = {} /\ modems = {}
  <2>1. Select(modems, sims, valid) = {NoModem}
    BY <1>3 DEF Select
  <2> QED
    BY <1>3, <2>1
<1> QED
  BY <1>1, <1>2, <1>3

(* A connection that ends is dropped, and nothing is in use any more. *)
LEMMA Ended ==
  ASSUME OfonoInv, ~dangling, held # NoConn,
         NEW s \in Final, Moves(held, s), SetState(held, s)
  PROVE  /\ Unused'
         /\ conn' \in [Conns -> ConnType]
         /\ weak' \in [Modems -> Conns \cup {NoConn}]
         /\ conn'[held].state = s
         /\ \A c \in Conns : c # held => conn'[c] = conn[c]
<1>1. held \in Conns /\ conn \in [Conns -> ConnType]
  BY DEF OfonoInv, TypeOK
<1>2. /\ conn' = [[conn EXCEPT ![held].state = s]
                    EXCEPT ![held].refs = @ - 1]
      /\ held' = NoConn
      /\ weak' = WeakWithout(held)
  BY DEF SetState
<1>3. s \in DOMAIN Rank /\ s \notin Active
  BY Ranks DEF Final, Active
<1>4. conn[held].refs - 1 \in Nat
  BY DEF OfonoInv, HeldOwned
<1>5. conn'[held] = [conn[held] EXCEPT !.state = s, !.refs = @ - 1]
  BY <1>1, <1>2 DEF ConnType
<1>6. \A c \in Conns : c # held => conn'[c] = conn[c]
  BY <1>1, <1>2
<1>7. conn'[held] \in ConnType /\ conn'[held].state = s
  BY <1>1, <1>3, <1>4, <1>5 DEF ConnType
<1>8. conn' \in [Conns -> ConnType]
  <2>1. conn' = [c \in Conns |-> conn'[c]]
    BY <1>1, <1>2
  <2> QED
    BY <1>1, <1>6, <1>7, <2>1
<1>9. \A m \in Modems : weak'[m] = NoConn
  BY <1>2 DEF WeakWithout, OfonoInv, OnlyHeld
<1>10. weak' \in [Modems -> Conns \cup {NoConn}]
  BY <1>2, <1>9 DEF WeakWithout
<1>11. \A c \in Conns : conn'[c].state \notin Active
  BY <1>3, <1>6, <1>7 DEF OfonoInv, OnlyHeld
<1> QED
  BY <1>2, <1>6, <1>7, <1>8, <1>9, <1>10, <1>11 DEF Unused

(* Cancelling the connection that is held ends it, the way its state allows. *)
LEMMA Cancelled ==
  ASSUME OfonoInv, ~dangling, held # NoConn, Cancel(held)
  PROVE  /\ Unused'
         /\ conn' \in [Conns -> ConnType]
         /\ weak' \in [Modems -> Conns \cup {NoConn}]
         /\ \/ conn[held].state = "OPENING" /\ conn'[held].state = "FAILED"
            \/ conn[held].state = "OPEN" /\ conn'[held].state = "CLOSED"
         /\ \A c \in Conns : c # held => conn'[c] = conn[c]
<1>1. conn[held].state \in Active
  BY DEF OfonoInv, HeldIsUsable
<1>2. CASE conn[held].state = "OPENING"
  <2>1. SetState(held, "FAILED") /\ Moves(held, "FAILED")
    BY <1>2, Ranks DEF Cancel, Moves, Final
  <2> QED
    BY <1>2, <2>1, Ended DEF Final
<1>3. CASE conn[held].state = "OPEN"
  <2>1. SetState(held, "CLOSED") /\ Moves(held, "CLOSED")
    BY <1>3, Ranks DEF Cancel, Moves, Final
  <2> QED
    BY <1>3, <2>1, Ended DEF Final
<1> QED
  BY <1>1, <1>2, <1>3 DEF Active

(* The connections of the modems that are gone lose their reference.  If the
   dispatcher's is among them it dangles, else it is not touched. *)
LEMMA CleanupInv ==
  ASSUME OfonoInv, ~dangling, NEW gone \in SUBSET Modems, Cleanup(gone),
         UNCHANGED sim
  PROVE  /\ listed' = listed \ gone
         /\ conn' \in [Conns -> ConnType]
         /\ weak' \in [Modems -> Conns \cup {NoConn}]
         /\ context' \in [Modems -> Contexts]
         /\ asked' \in [Modems -> {"NONE", "UP", "DOWN"}]
         /\ dangling' \in BOOLEAN
         /\ held' = held
         /\ WeakPointsToActive'
         /\ ~dangling' => (OnlyHeld /\ HeldOwned)'
         /\ HeldIsUsable'
         /\ \A c \in Conns : conn'[c].state = conn[c].state
<1> DEFINE conns == {weak[m] : m \in gone} \ {NoConn}
<1>1. /\ conn \in [Conns -> ConnType]
      /\ weak \in [Modems -> Conns \cup {NoConn}]
      /\ context \in [Modems -> Contexts]
      /\ asked \in [Modems -> {"NONE", "UP", "DOWN"}]
      /\ held \in Conns \cup {NoConn}
  BY DEF OfonoInv, TypeOK
<1>2. /\ listed' = listed \ gone
      /\ weak' = [m \in Modems |-> IF m \in gone THEN NoConn ELSE weak[m]]
      /\ context' = [m \in Modems |-> IF m \in gone THEN NoContext
                                       ELSE context[m]]
      /\ asked' = [m \in Modems |-> IF m \in gone THEN "NONE" ELSE asked[m]]
      /\ conn' = [c \in Conns |-> IF c \in conns
                                  THEN [conn[c] EXCEPT !.refs = @ - 1]
                                  ELSE conn[c]]
      /\ dangling' = (held # NoConn /\ conn'[held].refs = 0)
      /\ held' = held
  BY DEF Cleanup
<1>3. conns \subseteq Conns /\ conns \subseteq {held} /\ NoConn \notin conns
  BY <1>1 DEF OfonoInv, OnlyHeld
<1>4. \A c \in conns : conn[c].refs = 1
  BY <1>3 DEF OfonoInv, HeldOwned
<1>5. \A c \in Conns : /\ conn'[c] \in ConnType
                       /\ conn'[c].state = conn[c].state
                       /\ conn'[c].modem = conn[c].modem
                       /\ c \notin conns => conn'[c] = conn[c]
                       /\ c \in conns => conn'[c].refs = 0
  <2> HIDE DEF conns
  <2> SUFFICES ASSUME NEW c \in Conns
               PROVE  /\ conn'[c] \in ConnType
                      /\ conn'[c].state = conn[c].state
                      /\ conn'[c].modem = conn[c].modem
                      /\ c \notin conns => conn'[c] = conn[c]
                      /\ c \in conns => conn'[c].refs = 0
    OBVIOUS
  <2>1. CASE c \notin conns
    BY <1>1, <1>2, <2>1
  <2>2. CASE c \in conns
    <3>1. conn'[c] = [conn[c] EXCEPT !.refs = 0]
      BY <1>2, <1>4, <2>2
    <3> QED
      BY <1>1, <2>2, <3>1 DEF ConnType
  <2> QED
    BY <2>1, <2>2
<1>6. conn' \in [Conns -> ConnType]
  <2> HIDE DEF conns
  <2>1. conn' = [c \in Conns |-> conn'[c]]
    BY <1>2
  <2> QED
    BY <1>5, <2>1
<1>7. /\ weak' \in [Modems -> Conns \cup {NoConn}]
      /\ asked' \in [Modems -> {"NONE", "UP", "DOWN"}]
  BY <1>1, <1>2
<1>8. NoContext \in Contexts
  BY DEF NoContext, Contexts, ContextType
<1>9. context' \in [Modems -> Contexts]
  BY <1>1, <1>2, <1>8
<1>10. dangling' <=> held \in conns
  <2> HIDE DEF conns
  <2>1. dangling' <=> held # NoConn /\ conn'[held].refs = 0
    BY <1>2
  <2>2. held # NoConn => conn[held].refs = 1
    BY DEF OfonoInv, HeldOwned
  <2> QED
    BY <1>1, <1>3, <1>5, <2>1, <2>2
<1>11. \A m \in Modems : weak'[m] # NoConn =>
          /\ m \notin gone /\ weak'[m] = weak[m] /\ weak[m] = held
          /\ conn[held].modem = m /\ held \in Conns /\ held \notin conns
  BY <1>1, <1>2 DEF OfonoInv, OnlyHeld, WeakPointsToActive
<1>12. WeakPointsToActive'
  BY <1>5, <1>11 DEF OfonoInv, WeakPointsToActive
<1>13. ASSUME ~dangling', held # NoConn
       PROVE  /\ conn'[held] = conn[held]
              /\ conn[held].modem \in Modems \ gone
  BY <1>1, <1>5, <1>10, <1>13 DEF OfonoInv, HeldOwned
<1>14. ~dangling' => (OnlyHeld /\ HeldOwned)'
  BY <1>1, <1>2, <1>5, <1>13 DEF OfonoInv, OnlyHeld, HeldOwned
<1>15. HeldIsUsable'
  BY <1>1, <1>2, <1>13 DEF OfonoInv, HeldIsUsable
<1> QED
  BY <1>2, <1>5, <1>6, <1>7, <1>9, <1>12, <1>14, <1>15

-----------------------------------------------------------------------------
(* The steps. *)

(* No connection changes its state. *)
SameStates == \A c \in Conns : conn'[c].state = conn[c].state

(* What a change of one connection's state is to the life cycle *)
LEMMA StateMoves ==
  ASSUME NEW c \in Conns, NEW s, conn'[c].state = s,
         \A d \in Conns : d # c => conn'[d].state = conn[d].state
  PROVE  [d \in Conns |-> conn'[d].state]
           = [[d \in Conns |-> conn[d].state] EXCEPT ![c] = s]
  OBVIOUS

LEMMA ManagerInv ==
  ASSUME OfonoInv, ~dangling, Manager
  PROVE  OfonoInv' /\ SameStates
<1>1. CASE \E modems \in SUBSET Modems : OfonoUp(modems)
  <2>1. PICK modems \in SUBSET Modems : OfonoUp(modems)
    BY <1>1
  <2>2. listed' = modems /\ default' \in Select(modems, sim, ready)
    BY <2>1 DEF OfonoUp
  <2>3. /\ up' = TRUE /\ UNCHANGED <<weak, ready, sim, context, asked, conn,
                                     held, dangling>>
    BY <2>1 DEF OfonoUp
  <2>4. DefaultHasSim' /\ default' \in Modems \cup {NoModem}
    BY <2>2, <2>3, SelectFresh DEF DefaultHasSim, Usable
  <2>5. TypeOK'
    BY <2>2, <2>3, <2>4 DEF OfonoInv, TypeOK
  <2> QED
    BY <2>3, <2>4, <2>5
    DEF OfonoInv, WeakPointsToActive, OnlyHeld, HeldOwned, HeldIsUsable,
        SameStates
<1>2. CASE OfonoDown
  <2>1. listed \in SUBSET Modems
    BY DEF OfonoInv, TypeOK
  <2>2. /\ up' = FALSE /\ default' = NoModem /\ Cleanup(listed)
        /\ UNCHANGED <<ready, sim>>
    BY <1>2 DEF OfonoDown
  <2>3. listed' = {}
    BY <2>1, <2>2, CleanupInv
  <2>4. DefaultHasSim'
    BY <2>2, <2>3 DEF DefaultHasSim
  <2>5. TypeOK'
    BY <2>1, <2>2, <2>3, CleanupInv DEF OfonoInv, TypeOK
  <2> QED
    BY <2>1, <2>2, <2>4, <2>5, CleanupInv DEF OfonoInv, SameStates
<1>3. CASE \E m \in Modems : ModemAdded(m)
  <2>1. PICK m \in Modems : ModemAdded(m)
    BY <1>3
  <2>2. /\ listed' = listed \cup {m} /\ listed' \in SUBSET Modems
        /\ default' \in Select(listed', sim, ready)
        /\ UNCHANGED <<up, weak, ready, sim, context, asked, conn, held,
                       dangling>>
    BY <2>1 DEF ModemAdded, OfonoInv, TypeOK
  <2>3. DefaultHasSim' /\ default' \in Modems \cup {NoModem}
    BY <2>2, SelectFresh DEF DefaultHasSim, Usable
  <2>4. TypeOK'
    BY <2>2, <2>3 DEF OfonoInv, TypeOK
  <2> QED
    BY <2>2, <2>3, <2>4
    DEF OfonoInv, WeakPointsToActive, OnlyHeld, HeldOwned, HeldIsUsable,
        SameStates
<1>4. CASE \E m \in Modems : ModemRemoved(m)
  <2>1. PICK m \in Modems : ModemRemoved(m)
    BY <1>4
  <2>2. /\ Cleanup({m}) /\ {m} \in SUBSET Modems
        /\ default' \in Select(listed', sim, ready)
        /\ UNCHANGED <<up, ready, sim>>
    BY <2>1 DEF ModemRemoved
  <2>3. listed' = listed \ {m} /\ listed' \in SUBSET Modems
    BY <2>2, CleanupInv DEF OfonoInv, TypeOK
  <2>4. DefaultHasSim' /\ default' \in Modems \cup {NoModem}
    BY <2>2, <2>3, SelectFresh DEF DefaultHasSim, Usable
  <2>5. TypeOK'
    BY <2>2, <2>3, <2>4, CleanupInv DEF OfonoInv, TypeOK
  <2> QED
    BY <2>2, <2>4, <2>5, CleanupInv DEF OfonoInv, SameStates
<1> QED
  BY <1>1, <1>2, <1>3, <1>4 DEF Manager

LEMMA OpenInv ==
  ASSUME OfonoInv, ~dangling, NEW c \in Conns, NEW m \in Modems, Open(c, m)
  PROVE  OfonoInv' /\ Life!LifeNext
<1> DEFINE new == [state |-> IF context[m].active THEN "OPEN" ELSE "OPENING",
                   modem |-> m, imsi |-> sim[m],
                   name  |-> context[m].name, refs |-> 1]
<1>1. /\ held = NoConn /\ weak[m] = NoConn
      /\ \A d \in Conns : conn[d].state \notin Active
      /\ \A n \in Modems : weak[n] = NoConn
  <2>1. held = NoConn
    BY DEF Open
  <2> QED
    BY <2>1, OfonoAssumption DEF OfonoInv, OnlyHeld, OfonoAssumption
<1>2. /\ held' = c
      /\ conn' = [conn EXCEPT ![c] = new]
      /\ weak' = [weak EXCEPT ![m] = c]
      /\ asked' = IF context[m].active THEN asked ELSE [asked EXCEPT ![m] = "UP"]
      /\ UNCHANGED <<up, listed, ready, sim, default, context, dangling>>
  BY <1>1 DEF Open, worldVars
<1>3. /\ conn \in [Conns -> ConnType]
      /\ weak \in [Modems -> Conns \cup {NoConn}]
      /\ sim[m] \in AllSims \cup {NoSim}
      /\ context[m].name \in Names \cup {NoName}
      /\ context[m].active \in BOOLEAN
      /\ asked \in [Modems -> {"NONE", "UP", "DOWN"}]
  BY DEF OfonoInv, TypeOK, Contexts, ContextType
<1>4. new \in ConnType /\ new.state \in Active
  BY <1>3, Ranks DEF ConnType, Active
<1>5. /\ conn'[c] = new
      /\ \A d \in Conns : d # c => conn'[d] = conn[d]
      /\ conn' \in [Conns -> ConnType]
      /\ weak' \in [Modems -> Conns \cup {NoConn}]
      /\ weak'[m] = c
      /\ \A n \in Modems : n # m => weak'[n] = NoConn
      /\ asked' \in [Modems -> {"NONE", "UP", "DOWN"}]
  BY <1>1, <1>2, <1>3, <1>4
<1>6. TypeOK'
  BY <1>2, <1>5 DEF OfonoInv, TypeOK
<1>7. DefaultHasSim'
  BY <1>2 DEF OfonoInv, DefaultHasSim, Usable
<1>8. WeakPointsToActive'
  BY <1>4, <1>5 DEF WeakPointsToActive
<1>9. OnlyHeld' /\ HeldOwned'
  BY <1>1, <1>2, <1>5 DEF OnlyHeld, HeldOwned
<1>10. HeldIsUsable'
  <2>1. context[m].exists
    BY DEF Open
  <2> QED
    BY <1>2, <1>3, <1>4, <1>5, <2>1 DEF HeldIsUsable
<1>11. Life!LifeOpen(c)
  <2>1. conn[c].state = "NONE"
    BY DEF Open
  <2>2. [d \in Conns |-> conn'[d].state]
          = [[d \in Conns |-> conn[d].state] EXCEPT ![c] = new.state]
    BY <1>5, StateMoves
  <2> QED
    BY <1>1, <1>4, <2>1, <2>2 DEF Life!LifeOpen, Life!ActiveStates, Active
<1> QED
  BY <1>6, <1>7, <1>8, <1>9, <1>10, <1>11 DEF OfonoInv, Life!LifeNext

(* The parts of the invariant that are not about the modems do not depend on
   what is asked of a context. *)
LEMMA CloseInv ==
  ASSUME OfonoInv, ~dangling, Close
  PROVE  OfonoInv' /\ SameStates
<1>1. UNCHANGED <<up, listed, ready, sim, default, weak, context, conn, held,
                  dangling>>
  BY DEF Close, worldVars
<1>2. asked' \in [Modems -> {"NONE", "UP", "DOWN"}]
  BY DEF Close, Deactivate, OfonoInv, TypeOK
<1> QED
  BY <1>1, <1>2
  DEF OfonoInv, TypeOK, DefaultHasSim, Usable, WeakPointsToActive, OnlyHeld,
      HeldOwned, HeldIsUsable, SameStates

(* The connection that is held listens to its modem, and no other does. *)
LEMMA Followed ==
  ASSUME OfonoInv, ~dangling, NEW m \in Modems, NEW c \in Conns
  PROVE  Follows(c, m) <=> c = held /\ conn[held].modem = m
<1>1. CASE held = NoConn
  BY <1>1, OfonoAssumption DEF Follows, OfonoAssumption
<1>2. CASE held # NoConn
  <2>1. conn[held].state \in Active
    BY <1>2 DEF OfonoInv, HeldIsUsable
  <2> QED
    BY <2>1 DEF Follows
<1> QED
  BY <1>1, <1>2

(* The ways to end that the promised life cycle has *)
LEMMA EndedIsPromised ==
  ASSUME OfonoInv, held # NoConn, NEW s,
         \/ conn[held].state = "OPENING" /\ s = "FAILED"
         \/ conn[held].state = "OPEN" /\ s = "CLOSED",
         conn'[held].state = s,
         \A c \in Conns : c # held => conn'[c] = conn[c]
  PROVE  Life!LifeNext
<1>1. held \in Conns
  BY DEF OfonoInv, TypeOK
<1>2. [c \in Conns |-> conn'[c].state]
        = [[c \in Conns |-> conn[c].state] EXCEPT ![held] = s]
  BY <1>1, StateMoves
<1>3. CASE conn[held].state = "OPENING" /\ s = "FAILED"
  BY <1>1, <1>2, <1>3 DEF Life!LifeNext, Life!LifeResolve
<1>4. CASE conn[held].state = "OPEN" /\ s = "CLOSED"
  BY <1>1, <1>2, <1>4 DEF Life!LifeNext, Life!LifeClose
<1> QED
  BY <1>3, <1>4

LEMMA SimChangedInv ==
  ASSUME OfonoInv, ~dangling, NEW m \in Modems, SimChanged(m)
  PROVE  OfonoInv' /\ (SameStates \/ Life!LifeNext)
<1>1. /\ IF m \in listed /\ PresenceChanged(m)
         THEN default' \in Select(listed, sim', ready')
         ELSE UNCHANGED default
      /\ IF ImsiLost(m)
         THEN /\ Cancel(held)
              /\ asked' = Deactivate(m)
         ELSE UNCHANGED <<conn, held, weak, asked>>
      /\ UNCHANGED <<up, listed, context, dangling>>
  BY DEF SimChanged
<1>2. /\ ready' \subseteq Modems
      /\ sim' \in [Modems -> AllSims \cup {NoSim}]
      /\ \A n \in Modems : n # m => /\ sim'[n] = sim[n]
                                    /\ n \in ready' <=> n \in ready
  <2>1. CASE /\ ready' = IF m \in ready THEN ready \ {m} ELSE ready \cup {m}
             /\ UNCHANGED sim
    BY <2>1 DEF OfonoInv, TypeOK
  <2>2. CASE /\ \E i \in (Sims[m] \cup {NoSim}) \ {sim[m]} :
                  sim' = [sim EXCEPT ![m] = i]
             /\ UNCHANGED ready
    BY <2>2 DEF OfonoInv, TypeOK, AllSims
  <2> QED
    BY <2>1, <2>2 DEF SimChanged
<1>3. DefaultHasSim' /\ default' \in Modems \cup {NoModem}
  <2>1. listed \in SUBSET Modems /\ default \in Modems \cup {NoModem}
    BY DEF OfonoInv, TypeOK
  <2>2. CASE m \in listed /\ PresenceChanged(m)
    BY <1>1, <2>1, <2>2, SelectFresh DEF DefaultHasSim, Usable
  <2>3. CASE ~(m \in listed /\ PresenceChanged(m))
    <3>1. \A n \in listed : Usable(n, sim', ready') <=> Usable(n, sim, ready)
      BY <1>2, <2>1, <2>3 DEF Usable, PresenceChanged
    <3> QED
      BY <1>1, <2>1, <2>3, <3>1 DEF OfonoInv, DefaultHasSim, Usable
  <2> QED
    BY <2>2, <2>3
<1>4. CASE ImsiLost(m)
  <2>1. held # NoConn
    BY <1>4, OfonoAssumption DEF ImsiLost, Follows, OfonoAssumption
  <2>2. Cancel(held) /\ asked' = Deactivate(m)
    BY <1>1, <1>4
  <2>3. asked' \in [Modems -> {"NONE", "UP", "DOWN"}]
    BY <2>2 DEF Deactivate, OfonoInv, TypeOK
  <2>4. TypeOK'
    BY <1>1, <1>2, <1>3, <2>1, <2>2, <2>3, Cancelled
    DEF OfonoInv, TypeOK, Unused
  <2>5. (WeakPointsToActive /\ OnlyHeld /\ HeldOwned /\ HeldIsUsable)'
    BY <2>1, <2>2, Cancelled
    DEF Unused, WeakPointsToActive, OnlyHeld, HeldOwned, HeldIsUsable
  <2>6. Life!LifeNext
    BY <2>1, <2>2, Cancelled, EndedIsPromised
  <2> QED
    BY <1>3, <2>4, <2>5, <2>6 DEF OfonoInv
<1>5. CASE ~ImsiLost(m)
  <2>1. UNCHANGED <<conn, held, weak, asked>>
    BY <1>1, <1>5
  <2>2. TypeOK'
    BY <1>1, <1>2, <1>3, <2>1 DEF OfonoInv, TypeOK
  <2>3. HeldIsUsable'
    <3>1. CASE held = NoConn
      BY <2>1, <3>1 DEF HeldIsUsable
    <3>2. CASE held # NoConn
      <4>1. held \in Conns /\ conn[held].modem \in Modems
        BY <3>2 DEF OfonoInv, TypeOK, HeldOwned
      <4>2. conn[held].modem = m => conn[held].imsi = sim'[m]
        BY <1>5, <4>1, Followed DEF ImsiLost
      <4> QED
        BY <1>1, <1>2, <2>1, <3>2, <4>1, <4>2 DEF OfonoInv, HeldIsUsable
    <3> QED
      BY <3>1, <3>2
  <2>4. (WeakPointsToActive /\ OnlyHeld /\ HeldOwned)' /\ SameStates
    BY <2>1 DEF OfonoInv, WeakPointsToActive, OnlyHeld, HeldOwned, SameStates
  <2> QED
    BY <1>1, <1>3, <2>2, <2>3, <2>4 DEF OfonoInv
<1> QED
  BY <1>4, <1>5

LEMMA ActivateFailedInv ==
  ASSUME OfonoInv, ~dangling, NEW m \in Modems, ActivateFailed(m)
  PROVE  OfonoInv' /\ (SameStates \/ Life!LifeNext)
<1>1. /\ asked' \in [Modems -> {"NONE", "UP", "DOWN"}]
      /\ UNCHANGED <<up, listed, ready, sim, default, context, dangling>>
  BY DEF ActivateFailed, worldVars, OfonoInv, TypeOK
<1>2. DefaultHasSim'
  BY <1>1 DEF OfonoInv, DefaultHasSim, Usable
<1>3. CASE held # NoConn /\ Follows(held, m)
  <2>1. Cancel(held)
    BY <1>3 DEF ActivateFailed
  <2>2. TypeOK'
    BY <1>1, <1>3, <2>1, Cancelled DEF OfonoInv, TypeOK, Unused
  <2>3. (WeakPointsToActive /\ OnlyHeld /\ HeldOwned /\ HeldIsUsable)'
    BY <1>3, <2>1, Cancelled
    DEF Unused, WeakPointsToActive, OnlyHeld, HeldOwned, HeldIsUsable
  <2>4. Life!LifeNext
    BY <1>3, <2>1, Cancelled, EndedIsPromised
  <2> QED
    BY <1>2, <2>2, <2>3, <2>4 DEF OfonoInv
<1>4. CASE ~(held # NoConn /\ Follows(held, m))
  <2>1. UNCHANGED <<conn, held, weak>>
    BY <1>4 DEF ActivateFailed
  <2> QED
    BY <1>1, <1>2, <2>1
    DEF OfonoInv, TypeOK, WeakPointsToActive, OnlyHeld, HeldOwned,
        HeldIsUsable, SameStates
<1> QED
  BY <1>3, <1>4

LEMMA ContextActiveInv ==
  ASSUME OfonoInv, ~dangling, NEW m \in Modems, NEW active \in BOOLEAN,
         ContextActive(m, active)
  PROVE  OfonoInv' /\ (SameStates \/ Life!LifeNext)
<1>1. /\ context[m].exists /\ context[m].active # active
      /\ context' = [context EXCEPT ![m].active = active]
      /\ ActiveChanged(m)
      /\ asked' = [asked EXCEPT ![m] = "NONE"]
      /\ UNCHANGED <<up, listed, ready, sim, default, dangling>>
  BY DEF ContextActive, worldVars
<1>2. /\ asked' \in [Modems -> {"NONE", "UP", "DOWN"}]
      /\ context \in [Modems -> Contexts]
  BY <1>1 DEF OfonoInv, TypeOK
<1>3. /\ context'[m] = [context[m] EXCEPT !.active = active]
      /\ \A n \in Modems : n # m => context'[n] = context[n]
  BY <1>1, <1>2
<1>4. /\ context'[m].exists /\ context'[m].active = active
      /\ context'[m].name = context[m].name
      /\ context'[m] \in Contexts
  BY <1>1, <1>2, <1>3 DEF Contexts, ContextType
<1>5. context' \in [Modems -> Contexts]
  <2>1. context' = [n \in Modems |-> context'[n]]
    BY <1>1, <1>2
  <2> QED
    BY <1>2, <1>3, <1>4, <2>1
<1>6. DefaultHasSim'
  BY <1>1 DEF OfonoInv, DefaultHasSim, Usable
<1>7. CASE ~(held # NoConn /\ Follows(held, m))
  <2>1. UNCHANGED <<conn, held, weak>>
    BY <1>1, <1>7 DEF ActiveChanged
  <2>2. held # NoConn => conn[held].modem \in Modems \ {m}
    BY <1>7, Followed DEF OfonoInv, TypeOK, HeldOwned
  <2>3. HeldIsUsable'
    BY <1>1, <1>3, <2>1, <2>2 DEF OfonoInv, HeldIsUsable
  <2> QED
    BY <1>1, <1>2, <1>5, <1>6, <2>1, <2>3
    DEF OfonoInv, TypeOK, WeakPointsToActive, OnlyHeld, HeldOwned, SameStates
<1>8. CASE held # NoConn /\ Follows(held, m) /\ ~active
  <2>1. SetState(held, "CLOSED")
    BY <1>1, <1>4, <1>8 DEF ActiveChanged
  <2>2. conn[held].state = "OPEN"
    BY <1>1, <1>2, <1>8 DEF OfonoInv, HeldIsUsable, Follows, Contexts,
                            ContextType
  <2>3. Moves(held, "CLOSED")
    BY <2>2, Ranks DEF Moves, Final
  <2>4. /\ Unused'
        /\ conn' \in [Conns -> ConnType]
        /\ weak' \in [Modems -> Conns \cup {NoConn}]
        /\ conn'[held].state = "CLOSED"
        /\ \A c \in Conns : c # held => conn'[c] = conn[c]
    BY <1>8, <2>1, <2>3, Ended DEF Final
  <2>5. TypeOK'
    BY <1>1, <1>2, <1>5, <2>4 DEF OfonoInv, TypeOK, Unused
  <2>6. (WeakPointsToActive /\ OnlyHeld /\ HeldOwned /\ HeldIsUsable)'
    BY <2>4
    DEF Unused, WeakPointsToActive, OnlyHeld, HeldOwned, HeldIsUsable
  <2>7. Life!LifeNext
    BY <1>8, <2>2, <2>4, EndedIsPromised
  <2> QED
    BY <1>6, <2>5, <2>6, <2>7 DEF OfonoInv
<1>9. CASE held # NoConn /\ Follows(held, m) /\ active
  <2>1. SetState(held, "OPEN")
    BY <1>1, <1>4, <1>9 DEF ActiveChanged
  <2>2. conn[held].state = "OPENING" /\ conn[held].modem = m
    BY <1>1, <1>2, <1>9 DEF OfonoInv, HeldIsUsable, Follows, Contexts,
                            ContextType, Active
  <2>3. Moves(held, "OPEN")
    BY <2>2, Ranks DEF Moves, Final
  <2>4. conn' = [conn EXCEPT ![held].state = "OPEN"] /\ UNCHANGED <<held, weak>>
    BY <2>1, <2>3 DEF SetState, Final
  <2>5. held \in Conns /\ conn \in [Conns -> ConnType]
    BY <1>9 DEF OfonoInv, TypeOK
  <2>6. /\ conn'[held] = [conn[held] EXCEPT !.state = "OPEN"]
        /\ \A c \in Conns : c # held => conn'[c] = conn[c]
        /\ conn' = [c \in Conns |-> conn'[c]]
    BY <2>4, <2>5
  <2>7. /\ conn'[held] \in ConnType
        /\ conn'[held].state = "OPEN" /\ conn'[held].modem = m
        /\ conn'[held].refs = conn[held].refs
        /\ conn'[held].imsi = conn[held].imsi
        /\ conn'[held].name = conn[held].name
    BY <2>2, <2>5, <2>6, Ranks DEF ConnType
  <2>8. conn' \in [Conns -> ConnType]
    BY <2>5, <2>6, <2>7
  <2>9. TypeOK'
    BY <1>1, <1>2, <1>5, <2>4, <2>8 DEF OfonoInv, TypeOK
  <2>10. (WeakPointsToActive /\ OnlyHeld /\ HeldOwned)'
    BY <1>1, <2>2, <2>4, <2>6, <2>7
    DEF OfonoInv, WeakPointsToActive, OnlyHeld, HeldOwned, Active
  <2>11. HeldIsUsable'
    BY <1>1, <1>4, <1>9, <2>2, <2>4, <2>7
    DEF OfonoInv, HeldIsUsable, Active
  <2>12. Life!LifeNext
    <3>1. [c \in Conns |-> conn'[c].state]
            = [[c \in Conns |-> conn[c].state] EXCEPT ![held] = "OPEN"]
      BY <2>5, <2>6, <2>7, StateMoves
    <3> QED
      BY <2>2, <2>5, <3>1 DEF Life!LifeNext, Life!LifeResolve
  <2> QED
    BY <1>6, <2>9, <2>10, <2>11, <2>12 DEF OfonoInv
<1> QED
  BY <1>7, <1>8, <1>9

(* A connection that follows the modem learns of the new name, and so has
   what the context has. *)
LEMMA NameChangedInv ==
  ASSUME OfonoInv, ~dangling, NEW m \in Modems, NameChanged(m)
  PROVE  OfonoInv' /\ SameStates
<1>1. PICK x \in Names \cup {NoName} :
        /\ context' = [context EXCEPT ![m].name = x]
        /\ conn' = [c \in Conns |-> IF Follows(c, m)
                                    THEN [conn[c] EXCEPT !.name = x]
                                    ELSE conn[c]]
  BY DEF NameChanged
<1>2. /\ context[m].exists
      /\ UNCHANGED <<up, listed, ready, sim, default, weak, asked, held,
                     dangling>>
  BY DEF NameChanged, worldVars
<1>3. context \in [Modems -> Contexts] /\ conn \in [Conns -> ConnType]
  BY DEF OfonoInv, TypeOK
<1>4. /\ context'[m] = [context[m] EXCEPT !.name = x]
      /\ \A n \in Modems : n # m => context'[n] = context[n]
      /\ context' = [n \in Modems |-> context'[n]]
  BY <1>1, <1>3
<1>5. /\ context'[m] \in Contexts
      /\ context'[m].exists = context[m].exists
      /\ context'[m].active = context[m].active
      /\ context'[m].name = x
  BY <1>3, <1>4 DEF Contexts, ContextType
<1>6. context' \in [Modems -> Contexts]
  BY <1>3, <1>4, <1>5
<1>7. \A c \in Conns : /\ conn'[c] \in ConnType
                       /\ conn'[c].state = conn[c].state
                       /\ conn'[c].modem = conn[c].modem
                       /\ conn'[c].refs = conn[c].refs
                       /\ conn'[c].imsi = conn[c].imsi
                       /\ conn'[c].name = IF Follows(c, m) THEN x
                                          ELSE conn[c].name
  <2> SUFFICES ASSUME NEW c \in Conns
               PROVE  /\ conn'[c] \in ConnType
                      /\ conn'[c].state = conn[c].state
                      /\ conn'[c].modem = conn[c].modem
                      /\ conn'[c].refs = conn[c].refs
                      /\ conn'[c].imsi = conn[c].imsi
                      /\ conn'[c].name = IF Follows(c, m) THEN x
                                         ELSE conn[c].name
    OBVIOUS
  <2>1. conn'[c] = IF Follows(c, m) THEN [conn[c] EXCEPT !.name = x]
                   ELSE conn[c]
    BY <1>1
  <2> QED
    BY <1>3, <2>1 DEF ConnType
<1>8. conn' \in [Conns -> ConnType]
  BY <1>1, <1>7
<1>9. TypeOK'
  BY <1>2, <1>6, <1>8 DEF OfonoInv, TypeOK
<1>10. (DefaultHasSim /\ WeakPointsToActive /\ OnlyHeld /\ HeldOwned)'
  BY <1>2, <1>7
  DEF OfonoInv, TypeOK, DefaultHasSim, Usable, WeakPointsToActive, OnlyHeld,
      HeldOwned
<1>11. HeldIsUsable'
  <2>1. CASE held = NoConn
    BY <1>2, <2>1 DEF HeldIsUsable
  <2>2. CASE held # NoConn
    <3>1. held \in Conns /\ conn[held].modem \in Modems
      BY <2>2 DEF OfonoInv, TypeOK, HeldOwned
    <3>2. Follows(held, m) <=> conn[held].modem = m
      BY <3>1, Followed
    <3> QED
      BY <1>2, <1>4, <1>5, <1>7, <2>2, <3>1, <3>2 DEF OfonoInv, HeldIsUsable
  <2> QED
    BY <2>1, <2>2
<1> QED
  BY <1>7, <1>9, <1>10, <1>11 DEF OfonoInv, SameStates

LEMMA ContextAddedInv ==
  ASSUME OfonoInv, ~dangling, NEW m \in Modems, ContextAdded(m)
  PROVE  OfonoInv' /\ SameStates
<1>1. /\ ~context[m].exists
      /\ context' = [context EXCEPT ![m].exists = TRUE]
      /\ UNCHANGED <<up, listed, ready, sim, default, weak, asked, conn, held,
                     dangling>>
  BY DEF ContextAdded, worldVars
<1>2. context \in [Modems -> Contexts]
  BY DEF OfonoInv, TypeOK
<1>3. /\ context'[m] = [context[m] EXCEPT !.exists = TRUE]
      /\ \A n \in Modems : n # m => context'[n] = context[n]
      /\ context' = [n \in Modems |-> context'[n]]
  BY <1>1, <1>2
<1>4. context'[m] \in Contexts
  BY <1>2, <1>3 DEF Contexts, ContextType
<1>5. context' \in [Modems -> Contexts]
  BY <1>2, <1>3, <1>4
<1>6. held # NoConn => conn[held].modem \in Modems \ {m}
  BY <1>1 DEF OfonoInv, HeldOwned, HeldIsUsable
<1>7. HeldIsUsable'
  BY <1>1, <1>3, <1>6 DEF OfonoInv, HeldIsUsable
<1> QED
  BY <1>1, <1>5, <1>7
  DEF OfonoInv, TypeOK, DefaultHasSim, Usable, WeakPointsToActive, OnlyHeld,
      HeldOwned, SameStates

-----------------------------------------------------------------------------
LEMMA InitInv == Init => OfonoInv
<1> SUFFICES ASSUME Init
             PROVE  OfonoInv
  OBVIOUS
<1>1. listed \in SUBSET Modems /\ default \in Select(listed, sim, ready)
  BY DEF Init
<1>2. DefaultHasSim /\ default \in Modems \cup {NoModem}
  BY <1>1, SelectFresh DEF DefaultHasSim
<1>3. NoContext \in Contexts
  BY DEF NoContext, Contexts, ContextType
<1>4. [state |-> "NONE", modem |-> NoModem, imsi |-> NoSim, name |-> NoName,
       refs |-> 0] \in ConnType
  BY Ranks DEF ConnType
<1>5. TypeOK
  BY <1>2, <1>3, <1>4 DEF Init, TypeOK
<1>6. Unused
  BY DEF Init, Unused, Active
<1> QED
  BY <1>2, <1>5, <1>6
  DEF OfonoInv, Unused, WeakPointsToActive, OnlyHeld, HeldOwned, HeldIsUsable

LEMMA NextInv ==
  ASSUME OfonoInv, Next
  PROVE  OfonoInv' /\ (SameStates \/ Life!LifeNext)
<1>1. ~dangling
  BY DEF Next
<1>2. CASE Manager
  BY <1>1, <1>2, ManagerInv
<1>3. CASE Connection
  BY <1>1, <1>3, OpenInv, CloseInv DEF Connection
<1>4. CASE \E m \in Modems : ModemStep(m)
  BY <1>1, <1>4, SimChangedInv, ContextActiveInv, ActivateFailedInv,
     NameChangedInv, ContextAddedInv
  DEF ModemStep
<1> QED
  BY <1>2, <1>3, <1>4 DEF Next

LEMMA SameInv == OfonoInv /\ UNCHANGED vars => OfonoInv'
  BY DEF vars, OfonoInv, TypeOK, DefaultHasSim, Usable, WeakPointsToActive,
         OnlyHeld, HeldOwned, HeldIsUsable

LEMMA Invariance == Spec => []OfonoInv
<1>1. Init => OfonoInv
  BY InitInv
<1>2. OfonoInv /\ [Next]_vars => OfonoInv'
  BY NextInv, SameInv
<1> QED
  BY <1>1, <1>2, PTL DEF Spec

(* Every variable keeps its type: in particular a reference is never returned
   that nobody had, and no context is active that does not exist. *)
THEOREM TypeCorrect == Spec => []TypeOK
<1>1. OfonoInv => TypeOK
  BY DEF OfonoInv
<1> QED
  BY <1>1, Invariance, PTL

(* The default modem has a SIM if any has, and no weak pointer of the manager
   is left to a connection that has ended or has been freed. *)
THEOREM FreshPointers == Spec => []PointersAreFresh
<1>1. OfonoInv => PointersAreFresh
  BY DEF OfonoInv, PointersAreFresh
<1> QED
  BY <1>1, Invariance, PTL

(* What the dispatcher holds it can use: the SIM, the names and the state of
   the context are those of the connection. *)
THEOREM UsableConnection == Spec => []HeldIsUsable
<1>1. OfonoInv => HeldIsUsable
  BY DEF OfonoInv
<1> QED
  BY <1>1, Invariance, PTL

(* The connections go through the life cycle that mms_connection.h promises,
   one after the other: each step is one of its steps or changes the state of
   no connection. *)
THEOREM LifeImplemented == Spec => ImplementsConnections
<1>1. Init => Life!LifeInit
  BY DEF Init, Life!LifeInit
<1>2. ASSUME SameStates
      PROVE  UNCHANGED [c \in Conns |-> conn[c].state]
  BY <1>2 DEF SameStates
<1>3. UNCHANGED vars => SameStates
  BY DEF vars, SameStates
<1>4. OfonoInv /\ [Next]_vars
        => [Life!LifeNext]_([c \in Conns |-> conn[c].state])
  BY <1>2, <1>3, NextInv
<1> QED
  BY <1>1, <1>4, Invariance, PTL DEF Spec, ImplementsConnections, Life!LifeSpec
=============================================================================
