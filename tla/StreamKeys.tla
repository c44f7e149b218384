----------------------------- MODULE StreamKeys -----------------------------
(***************************************************************************)
(* The key of a stream and the slot it is looked up at, as one function of *)
(* the list of keys.  KeyTable has the algorithm step by step; it returns  *)
(* FirstFreeSlots or refuses, because its repair rounds change nothing.    *)
(***************************************************************************)
EXTENDS Integers, Sequences

CONSTANT Slots  \* slots of the table, as many as a bank has addresses

\* The window bank and the address a stream is asked for by.
SourceKey(source, windowBase) ==
  [bank |-> windowBase + source \div Slots, addr |-> source % Slots]

\* The first of some streams in order of address, ties in the order given.
Earliest(keys, left) ==
  CHOOSE i \in left : \A j \in left : \/ keys[i].addr < keys[j].addr
                                      \/ keys[i].addr = keys[j].addr /\ i <= j

\* The steps from an address to the first slot outside a set.
Probe(addr, taken) ==
  CHOOSE d \in 0 .. Slots - 1 :
    /\ (addr + d) % Slots \notin taken
    /\ \A e \in 0 .. d - 1 : (addr + e) % Slots \in taken

\* One more stream in the first slot free from its address on.
WithNext(keys, slots) ==
  LET i == Earliest(keys, DOMAIN keys \ DOMAIN slots)
      slot == (keys[i].addr
               + Probe(keys[i].addr, {slots[j] : j \in DOMAIN slots})) % Slots
  IN [j \in DOMAIN slots \union {i} |-> IF j = i THEN slot ELSE slots[j]]

\* The slots after the first n streams are placed, to the last one.
FirstFreeSlots(keys) ==
  LET placement[n \in 0 .. Len(keys)] ==
        IF n = 0 THEN <<>> ELSE WithNext(keys, placement[n - 1])
  IN placement[Len(keys)]

\* How far past its address a stream's slot is.
Distance(keys, slots, i) == (slots[i] - keys[i].addr) % Slots

\* No scan passes another stream of its own bank before it comes to its own.
Unambiguous(keys, slots) ==
  \A i, j \in DOMAIN keys :
    i # j /\ keys[i].bank = keys[j].bank =>
      Distance(keys, slots, i) < (slots[j] - keys[i].addr) % Slots

\* worst_scan: the longest distance, 0 for an empty table.
WorstScan(keys) ==
  LET slots == FirstFreeSlots(keys)
      distances == {Distance(keys, slots, i) : i \in DOMAIN keys}
  IN IF keys = <<>> THEN 0
     ELSE CHOOSE d \in distances : \A e \in distances : e <= d
=============================================================================
