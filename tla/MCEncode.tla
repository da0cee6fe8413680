------------------------------ MODULE MCEncode ------------------------------
(***************************************************************************)
(* One message and the settings of its SIM and of another, which the tasks *)
(* of other messages ask for, for TLC.                                     *)
(***************************************************************************)
EXTENDS Encode

CONSTANTS simA, simB, t1

MCSims == {simA, simB}
MCTasks == {t1}
MCKeys == {"size_limit", "max_pixels"}
MCSimOf == (t1 :> simA)

(* A negative number cannot be converted, and 0 is no limit *)
MCWritten ==
  (simA :> ("size_limit" :> {2} @@ "max_pixels" :> {})) @@
  (simB :> ("size_limit" :> {-1} @@ "max_pixels" :> {}))
MCBuiltin == ("size_limit" :> 4) @@ ("max_pixels" :> 4)
MCConfigFile == [k \in MCKeys |-> NoValue]
MCCommandLine == ("size_limit" :> NoValue) @@ ("max_pixels" :> 1)

Image(size) == [kind |-> "image", size |-> size, side |-> 4]
Text == [kind |-> "text", size |-> 1, side |-> 0]
SmilFile == [kind |-> "smil", size |-> 1, side |-> 0]

MCMessages == {<<Image(3), Image(2)>>, <<SmilFile, Text>>}
=============================================================================
