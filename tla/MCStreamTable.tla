--------------------------- MODULE MCStreamTable ---------------------------
(* Streams at a few addresses of a small ROM, with compressed bytes that   *)
(* grow steadily, or leap over their neighbours' addresses.                *)
EXTENDS StreamTable

CONSTANTS Shapes, Asked

\* The bytes the first, the second and the third length consume.
Consumed(shape, n) ==
  CASE shape = "steady" -> n
    [] shape = "leaps" -> <<2, 2, 4>>[n]
    [] shape = "jumps" -> <<1, 3, 5>>[n]

MCRoms ==
  {[s \in Sources |-> [n \in 1 .. MaxLength |-> s + Consumed(shape[s], n)]] :
     shape \in [Sources -> Shapes]}

MCTables == {Nothing, [s \in Sources |-> MaxLength], [s \in Sources |-> 1]}

\* Any of a fixed set of requests, one length to an address.
MCSteady == {w \in Table : \A s \in Sources : w[s] \in {0, Asked}}

=============================================================================
