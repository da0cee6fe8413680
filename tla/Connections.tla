----------------------------- MODULE Connections -----------------------------
(***************************************************************************)
(* What connections promise to those who hold them (mms_connection.h): a   *)
(* connection is opened or fails to open, unless it was open when it was   *)
(* made; an open one is closed, and then nothing happens to it any more.   *)
(* Clients drop it and ask for a new one, and only when the last one has   *)
(* ended.                                                                  *)
(***************************************************************************)
CONSTANT Conns

VARIABLE state  \* connection->state of each, "NONE" before it is created

ActiveStates == {"OPENING", "OPEN"}

-----------------------------------------------------------------------------
LifeInit == state = [c \in Conns |-> "NONE"]

LifeOpen(c) ==
  /\ state[c] = "NONE"
  /\ \A d \in Conns : state[d] \notin ActiveStates
  /\ \E new \in ActiveStates : state' = [state EXCEPT ![c] = new]

LifeResolve(c) ==
  /\ state[c] = "OPENING"
  /\ \E new \in {"OPEN", "FAILED"} : state' = [state EXCEPT ![c] = new]

LifeClose(c) ==
  /\ state[c] = "OPEN"
  /\ state' = [state EXCEPT ![c] = "CLOSED"]

LifeNext == \E c \in Conns : LifeOpen(c) \/ LifeResolve(c) \/ LifeClose(c)

LifeSpec == LifeInit /\ [][LifeNext]_state
=============================================================================
