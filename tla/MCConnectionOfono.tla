-------------------------- MODULE MCConnectionOfono --------------------------
(***************************************************************************)
(* Two modems, one of which can be given either SIM, and two connections.  *)
(***************************************************************************)
EXTENDS ConnectionOfono, TLC

ModemSims == "m1" :> {"simA", "simB"} @@ "m2" :> {"simB"}
TwoModems == DOMAIN ModemSims
=============================================================================
