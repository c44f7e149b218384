---------------------------- MODULE MCTranslate ----------------------------
(* Every list of up to MaxKeys keys at colliding addresses, the last slot  *)
(* of the table among them, those allocate refuses included.               *)
EXTENDS Translate, SequencesExt

CONSTANTS Addresses, MaxKeys

KeyChoices == [bank : Banks, addr : Addresses]

MCBanks == WINDOW_BASE .. RADIX - 1

MCKeyLists ==
  {l \in BoundedSeq(KeyChoices, MaxKeys) : l # <<>> /\ IsInjective(l)}

MCDestination(i) == [bank |-> 1, addr |-> 2 * i]

MCRegisters ==
  {[a |-> 6, x |-> 2, y |-> y, dbr |-> 2, m8 |-> TRUE, x8 |-> TRUE, c |-> TRUE] :
     y \in Channels}
  \union
  {[a |-> 5, x |-> 8, y |-> 1, dbr |-> 0, m8 |-> TRUE, x8 |-> FALSE, c |-> FALSE]}
=============================================================================
