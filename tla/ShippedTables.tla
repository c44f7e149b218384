--------------------------- MODULE ShippedTables ---------------------------
(***************************************************************************)
(* gate.main on the tables the repository ships, in a checkout without the *)
(* dumps: for each region the table is searched for repeated sources, held *)
(* against the recorded requests, and its keys are placed one by one as    *)
(* sdd1tables.allocate places them, to measure the longest scan.           *)
(***************************************************************************)
EXTENDS Integers, Sequences, FiniteSets, TLC

CONSTANTS
  Slots,        \* slots of the key table, 65536
  WINDOW_BASE,  \* 0xC0
  SCAN_BUDGET   \* 64

ASSUME GateAssumption ==
  Slots \in Nat \ {0} /\ WINDOW_BASE \in Nat /\ SCAN_BUDGET \in Nat

G == INSTANCE Gate
Jp == INSTANCE JpStreams
Usa == INSTANCE UsaStreams
Asked == INSTANCE JpRequests

\* sorted(RETAIL), the regions in the order they are checked.
Regions == <<"jp", "usa">>

\* G!Sorted by another way, which takes less time on tables this long.
JpTable == SortSeq(Jp!STREAMS, G!Before)
UsaTable == SortSeq(Usa!STREAMS, G!Before)

\* table
Table(r) == IF r = "jp" THEN JpTable ELSE UsaTable

\* requests
Requests(r) == IF r = "jp" THEN Asked!REQUESTS ELSE <<>>

\* The order allocate places a table's keys in.
ByAddress(table) ==
  SortSeq([i \in DOMAIN table |-> i],
          LAMBDA i, j : LET a == G!KeyOf(table[i]).addr
                            b == G!KeyOf(table[j]).addr
                        IN a < b \/ (a = b /\ i < j))

JpOrder == ByAddress(JpTable)
UsaOrder == ByAddress(UsaTable)

\* The keys taken as they come instead of in order of address.
MutOrder(r) == [i \in DOMAIN Table(r) |-> i]

Order(r) == IF r = "jp" THEN JpOrder ELSE UsaOrder

VARIABLES
  at,        \* which region is being checked
  held,      \* the placement so far: the stream each taken slot belongs to
  next,      \* the next of Order to be placed
  findings,  \* what check has found against the region's table
  failed,    \* whether some region before it had findings
  exit       \* how gate.main ended, or "running"

vars == <<at, held, next, findings, failed, exit>>

region == Regions[at]
Key(i) == G!KeyOf(Table(region)[i])

\* The first slot from one on that nobody has.
FirstFree(s) ==
  (s + CHOOSE d \in 0 .. Slots - 1 :
         /\ (s + d) % Slots \notin DOMAIN held
         /\ \A e \in 0 .. d - 1 : (s + e) % Slots \in DOMAIN held) % Slots

\* How far a scan for a key gets before a slot holds its bank, within limit.
StopsWithin(key, limit) ==
  LET hits == {d \in 0 .. limit : LET s == (key.addr + d) % Slots IN
                  s \in DOMAIN held /\ Key(held[s]).bank = key.bank}
  IN IF hits = {} THEN limit + 1
     ELSE CHOOSE d \in hits : \A e \in hits : d <= e

Distance(s) == (s - Key(held[s]).addr) % Slots

Misread == {s \in DOMAIN held : StopsWithin(Key(held[s]), Distance(s)) # Distance(s)}

\* duplicates and uncovered of one region, before its keys are placed.
Found(r) ==
  (IF G!Duplicates(Table(r)) # {} THEN {"repeated"} ELSE {})
  \union (IF G!Uncovered(Table(r), Requests(r)) # {} THEN {"uncovered"} ELSE {})

\* The stream put where its address is, whoever has the slot.
MutPlace ==
  /\ exit = "running" /\ next <= Len(Order(region))
  /\ held' = (Key(Order(region)[next]).addr :> Order(region)[next]) @@ held
  /\ next' = next + 1
  /\ UNCHANGED <<at, findings, failed, exit>>

\* One round of allocate's first loop.
Place ==
  /\ exit = "running" /\ next <= Len(Order(region))
  /\ LET i == Order(region)[next]
     IN held' = held @@ (FirstFree(Key(i).addr) :> i)
  /\ next' = next + 1
  /\ UNCHANGED <<at, findings, failed, exit>>

Placed == exit = "running" /\ next > Len(Order(region))

TooFar == {s \in DOMAIN held : Distance(s) > SCAN_BUDGET}

Verdict == findings \union (IF TooFar # {} THEN {"far"} ELSE {})

NextRegion ==
  /\ Placed /\ Misread = {} /\ at < Len(Regions)
  /\ at' = at + 1
  /\ findings' = Found(Regions[at + 1])
  /\ failed' = (failed \/ Verdict # {})
  /\ held' = <<>> /\ next' = 1
  /\ UNCHANGED exit

\* A misread scan ends it too: PlacementError is not caught, and the repair
\* rounds move nothing (KeyTable).
Exit ==
  /\ Placed /\ (Misread # {} \/ at = Len(Regions))
  /\ exit' = CASE Misread # {} -> "raised"
               [] Misread = {} /\ (failed \/ Verdict # {}) -> "1"
               [] Misread = {} /\ ~failed /\ Verdict = {} -> "0"
  /\ UNCHANGED <<at, held, next, findings, failed>>

Init ==
  /\ at = 1 /\ held = <<>> /\ next = 1
  /\ findings = Found(Regions[1])
  /\ failed = FALSE
  /\ exit = "running"

Finished == exit # "running" /\ UNCHANGED vars

Next == Place \/ NextRegion \/ Exit \/ Finished

Spec == Init /\ [][Next]_vars

-----------------------------------------------------------------------------

(* Both shipped tables pass: no source twice, every request recorded from  *)
(* the Japanese cartridge covered, a placement no scan misreads, and, as   *)
(* README.md has it, "Median scan distance is 0 in both regions and the    *)
(* worst is 31".                                                           *)
ShippedTablesPass ==
  /\ exit \in {"running", "0"} /\ findings = {}
  /\ Placed =>
       /\ \A s \in DOMAIN held : Distance(s) <= 31
       /\ \E s \in DOMAIN held : Distance(s) = 31
       /\ 2 * Cardinality({s \in DOMAIN held : Distance(s) = 0}) > next - 1

(* Whatever the Japanese cartridge was seen to ask for, the scan from the  *)
(* address it programs stops within the budget, at the stream that starts  *)
(* there and not at a neighbour's, and the stream is long enough.          *)
RequestsResolve ==
  Placed =>
    \A n \in DOMAIN Requests(region) :
      LET r == Requests(region)[n]
          key == G!KeyOf(r)
          d == StopsWithin(key, SCAN_BUDGET)
          stream == Table(region)[held[(key.addr + d) % Slots]]
      IN d <= SCAN_BUDGET /\ stream[1] = r[1] /\ stream[2] >= r[2]
=============================================================================
