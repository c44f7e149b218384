---------------------------- MODULE MCRepeatLoad ----------------------------
(* Three lists, two of one length, so that ends alone tell no list apart,  *)
(* with and without resets, and with nothing, the magic or the whole marker*)
(* open to stray writes.                                                   *)
EXTENDS RepeatLoad

MCListEnd == [i \in Ids |-> IF i = 3 THEN 3 ELSE 2]

MCEnvironments == [resets : BOOLEAN, scribbled : {{}, {"low", "high"}, MarkerBytes}]
=============================================================================
