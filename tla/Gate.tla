-------------------------------- MODULE Gate --------------------------------
(***************************************************************************)
(* gate.py and mapcheck.py: what a stream table must satisfy before an     *)
(* image is built from it.  A table is a sequence of entries, each the     *)
(* address of a stream and its length; sorted() puts it in order.          *)
(***************************************************************************)
EXTENDS Integers, Sequences, FiniteSets, SequencesExt

CONSTANTS
  Slots,        \* slots of the key table, 65536
  WINDOW_BASE,  \* 0xC0
  SCAN_BUDGET   \* 64

Keys == INSTANCE StreamKeys

source(e) == e[1]
length(e) == e[2]

\* sorted: by address, entries of one address by length.
Before(e, f) ==
  source(e) < source(f) \/ (source(e) = source(f) /\ length(e) < length(f))

\* Entry i stands no later than entry j: equals stay as they are.
NoLater(entries, i, j) ==
  Before(entries[i], entries[j]) \/ (entries[i] = entries[j] /\ i <= j)

Sorted(entries) ==
  LET N == DOMAIN entries
      places == {[of |-> j, place |-> Cardinality({i \in N : NoLater(entries, i, j)})] : j \in N}
  IN [n \in N |-> entries[(CHOOSE p \in places : p.place = n).of]]

\* The key the image will look a stream up by.
KeyOf(e) == Keys!SourceKey(source(e), WINDOW_BASE)

KeysOf(entries) == [i \in DOMAIN entries |-> KeyOf(entries[i])]

\* duplicates, duplicate_sources: the repeats of a table in order lie together.
Duplicates(entries) ==
  {source(entries[i]) : i \in {k \in 2 .. Len(entries) :
     source(entries[k - 1]) = source(entries[k])}}

\* undecodable, given how many bytes the decoder makes of each entry.
Undecodable(entries, produced) ==
  {i \in DOMAIN entries : produced[i] # length(entries[i])}

\* uncovered: dict() keeps the last entry of an address, the longest.
Uncovered(entries, wanted) ==
  {r \in ToSet(wanted) :
     \A i \in DOMAIN entries :
       source(entries[i]) = source(r) => length(entries[i]) < length(r)}

\* allocate returns: the table has a slot for every key, and the first
\* placement is one no scan misreads.
Placeable(entries) ==
  LET keys == KeysOf(entries)
  IN /\ Len(keys) <= Slots
     /\ Keys!Unambiguous(keys, Keys!FirstFreeSlots(keys))

\* worst_scan, scan_cost.
WorstScan(entries) == Keys!WorstScan(KeysOf(entries))
=============================================================================
