-------------------------- MODULE MCConnectionNemo --------------------------
(***************************************************************************)
(* Two connections one after the other, on different SIMs.                 *)
(***************************************************************************)
EXTENDS ConnectionNemo, TLC

TwoSims == "c1" :> "simA" @@ "c2" :> "simB"
TwoConns == DOMAIN TwoSims
=============================================================================
