------------------------------ MODULE KeyTable ------------------------------
(***************************************************************************)
(* sdd1tables.py: the key table the translate routine scans.  A stream is  *)
(* keyed by the address the game programs, a window bank and a 16-bit      *)
(* address; allocate puts the bank byte in the first free slot at or after *)
(* the address, then looks for scans that stop at the wrong slot and moves *)
(* those streams, for at most MaxRepairs rounds.                           *)
(***************************************************************************)
EXTENDS Integers, Sequences, FiniteSets

CONSTANTS
  Slots,       \* slots of the table; 65536, one per 16-bit address
  Banks,       \* the window banks streams live in
  EMPTY,       \* what an empty slot holds
  KeyLists,    \* the sequences of keys to place, each a bank and an address
  MaxRepairs   \* MAX_REPAIRS, 64

Slot == 0 .. Slots - 1
Key == [bank : Banks, addr : Slot]

ASSUME SlotsAssumption == Slots \in Nat \ {0}
ASSUME EmptyAssumption == EMPTY \notin Banks
\* Streams are keyed by their place in the ROM, so no two keys are the same.
ASSUME KeysAssumption ==
  \A l \in KeyLists : /\ l \in Seq(Key) /\ Len(l) <= Slots
                       /\ \A i, j \in DOMAIN l : l[i] = l[j] => i = j
ASSUME RepairsAssumption == MaxRepairs \in Nat

VARIABLES
  keys,    \* the streams, in the order they are given
  table,   \* what each slot holds
  placed,  \* the slot of each stream, UNPLACED before it has one
  phase,   \* where allocate is
  rounds,  \* repair rounds started
  broken   \* streams the current round has still to move

vars == <<keys, table, placed, phase, rounds, broken>>

UNPLACED == -1

Streams == DOMAIN keys
Unplaced == {i \in Streams : placed[i] = UNPLACED}

\* The slot d steps after s, wrapping at the end of the table.
After(s, d) == (s + d) % Slots

\* The first slot of a set at or after s.
Nearest(s, S) ==
  After(s, CHOOSE d \in Slot : /\ After(s, d) \in S
                               /\ \A e \in 0 .. d - 1 : After(s, e) \notin S)

\* _first_free with the scan begun one slot late.
MutFirstFreeLate(t, s) == Nearest(After(s, 1), {u \in Slot : t[u] = EMPTY})

\* _first_free; allocate never asks it of a full table.
FirstFree(t, s) == Nearest(s, {u \in Slot : t[u] = EMPTY})

\* _scan; a placed key always finds a slot holding its bank.
Scan(t, k) == Nearest(k.addr, {u \in Slot : t[u] = k.bank})

\* The table is filled in order of address, ties in the order given.
Earliest(i) ==
  \A j \in Unplaced : \/ keys[i].addr < keys[j].addr
                      \/ keys[i].addr = keys[j].addr /\ i <= j

\* The collision test left out: a stream takes the slot of its address.
MutPlaceAtAddress ==
  /\ phase = "place"
  /\ \E i \in Unplaced :
       /\ Earliest(i)
       /\ table' = [table EXCEPT ![keys[i].addr] = keys[i].bank]
       /\ placed' = [placed EXCEPT ![i] = keys[i].addr]
  /\ UNCHANGED <<keys, phase, rounds, broken>>

Place ==
  /\ phase = "place"
  /\ \E i \in Unplaced :
       /\ Earliest(i)
       /\ LET s == FirstFree(table, keys[i].addr) IN
            /\ table' = [table EXCEPT ![s] = keys[i].bank]
            /\ placed' = [placed EXCEPT ![i] = s]
  /\ UNCHANGED <<keys, phase, rounds, broken>>

AllPlaced ==
  /\ phase = "place"
  /\ Unplaced = {}
  /\ phase' = "round"
  /\ UNCHANGED <<keys, table, placed, rounds, broken>>

Misread(i) == Scan(table, keys[i]) # placed[i]

\* The streams a round sees broken.
BrokenNow == {i \in Streams : Misread(i)}

Return ==
  /\ phase = "round"
  /\ rounds < MaxRepairs
  /\ BrokenNow = {}
  /\ phase' = "returned"
  /\ UNCHANGED <<keys, table, placed, rounds, broken>>

StartRound ==
  /\ phase = "round"
  /\ rounds < MaxRepairs
  /\ BrokenNow # {}
  /\ broken' = BrokenNow
  /\ rounds' = rounds + 1
  /\ phase' = "repair"
  /\ UNCHANGED <<keys, table, placed>>

\* PlacementError: the rounds are used up, whatever the last one achieved.
Refuse ==
  /\ phase = "round"
  /\ rounds = MaxRepairs
  /\ phase' = "refused"
  /\ UNCHANGED <<keys, table, placed, rounds, broken>>

\* The stream moved past the slot it had, not past the slot its scan found.
MutRepairPastOwn ==
  /\ phase = "repair"
  /\ \E i \in broken :
       /\ \A j \in broken : i <= j
       /\ LET cleared == [table EXCEPT ![placed[i]] = EMPTY]
              s == FirstFree(cleared, After(placed[i], 1))
          IN /\ table' = [cleared EXCEPT ![s] = keys[i].bank]
             /\ placed' = [placed EXCEPT ![i] = s]
       /\ broken' = broken \ {i}
       /\ phase' = IF broken = {i} THEN "round" ELSE "repair"
  /\ UNCHANGED <<keys, rounds>>

\* The stream leaves its slot for the first free one past the slot its scan
\* stopped at.  The streams broken are the round's, in order, not refreshed.
Repair ==
  /\ phase = "repair"
  /\ \E i \in broken :
       /\ \A j \in broken : i <= j
       /\ LET cleared == [table EXCEPT ![placed[i]] = EMPTY]
              s == FirstFree(cleared, After(Scan(table, keys[i]), 1))
          IN /\ table' = [cleared EXCEPT ![s] = keys[i].bank]
             /\ placed' = [placed EXCEPT ![i] = s]
       /\ broken' = broken \ {i}
       /\ phase' = IF broken = {i} THEN "round" ELSE "repair"
  /\ UNCHANGED <<keys, rounds>>

Init ==
  /\ keys \in KeyLists
  /\ table = [s \in Slot |-> EMPTY]
  /\ placed = [i \in DOMAIN keys |-> UNPLACED]
  /\ phase = "place"
  /\ rounds = 0
  /\ broken = {}

Finished == phase \in {"returned", "refused"} /\ UNCHANGED vars

Next == Place \/ AllPlaced \/ Return \/ StartRound \/ Refuse \/ Repair \/ Finished

Spec == Init /\ [][Next]_vars

-----------------------------------------------------------------------------

TypeOK ==
  /\ keys \in KeyLists
  /\ table \in [Slot -> Banks \union {EMPTY}]
  /\ placed \in [Streams -> Slot \union {UNPLACED}]
  /\ phase \in {"place", "round", "repair", "returned", "refused"}
  /\ rounds \in 0 .. MaxRepairs
  /\ broken \subseteq Streams

(* The table and the placement always tell the same story: no two streams  *)
(* share a slot, and a slot holds a bank exactly when a stream of that bank*)
(* was put there.  verify would otherwise refuse what allocate returned.   *)
TableMatchesPlacement ==
  /\ \A i, j \in Streams \ Unplaced : placed[i] = placed[j] => i = j
  /\ \A s \in Slot :
       IF table[s] = EMPTY
       THEN \A i \in Streams : placed[i] # s
       ELSE \E i \in Streams : placed[i] = s /\ keys[i].bank = table[s]

(* Every slot from a stream's address up to the slot it got is taken, so   *)
(* the translate routine's unbounded scan always ends.                     *)
ProbePathTaken ==
  \A i \in Streams \ Unplaced :
    \A d \in 0 .. (placed[i] - keys[i].addr) % Slots :
      table[After(keys[i].addr, d)] # EMPTY

(* A misread stream sits behind another stream of its own bank and every   *)
(* slot in between is taken, so the first free slot past the one found is  *)
(* the slot just given up: the repair rounds put every stream back where   *)
(* it was.  allocate returns exactly the first placement or refuses it.    *)
RepairChangesNothing ==
  [][phase = "repair" => table' = table /\ placed' = placed]_vars
=============================================================================
