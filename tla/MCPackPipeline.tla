--------------------------- MODULE MCPackPipeline ---------------------------
(* Tables over four slots and three banks: one that passes for both        *)
(* regions and, between the two, one failing for each reason the gate has. *)
EXTENDS PackPipeline

MCRegions == {"jp", "usa"}

good == <<<<4, 2>>, <<0, 2>>>>
repeated == <<<<0, 2>>, <<0, 1>>>>
far == <<<<0, 2>>, <<4, 2>>, <<8, 2>>>>
short == <<<<0, 1>>, <<4, 2>>>>
misread == <<<<0, 2>>, <<4, 2>>, <<5, 1>>>>
undecodable == <<<<0, 2>>, <<3, 4>>>>

MCTables == [r \in MCRegions |->
  {good, undecodable} \union IF r = "jp" THEN {short, far} ELSE {repeated, misread}]

MCRecorded == [r \in MCRegions |-> IF r = "jp" THEN <<<<0, 2>>>> ELSE <<>>]

\* The ROM ends after three bytes of any stream.
MCDecoded(e) == IF e[2] > 3 THEN NONE ELSE e[2]

\* Releases of both regions, of one, and of a region there is not: one run after
\* the other, or overlapping on either region or on none.
MCCommands == [p \in {"p1", "p2"} |->
  IF p = "p1" THEN {<<"jp", "usa">>, <<"jp">>} ELSE {<<"usa">>, <<"jp">>, <<"eu">>}]
=============================================================================
