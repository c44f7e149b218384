------------------------------ MODULE RomImage ------------------------------
(***************************************************************************)
(* rombuild.build: the chip-free image.  The free regions are the data     *)
(* banks, less what the extra payloads take, and the stretches of the      *)
(* cartridge window whose compressed bytes no longer matter; the streams   *)
(* are allocated in them, by RegionAllocator's steps, and keyed; then the  *)
(* ROM, the tables, the streams and the extras are written, in that order, *)
(* and a later write wins.                                                 *)
(* Addresses reach the file through the windowed map of                    *)
(* emu/windowed_lorom.cpp, with N banks for each of its four quarters:     *)
(* LoROM, data banks, LoROM mirror and window (64 in the source).          *)
(***************************************************************************)
EXTENDS RegionAllocator, SequencesExt

CONSTANTS
  N,           \* banks of a quarter; 64
  TABLE_BANK,  \* the bank of the stream tables, $60
  WRAM_BANKS,  \* data banks the console's work RAM hides, $7E and $7F
  MIN_REGION,  \* the shortest reclaimed stretch worth having
  SCAN_BUDGET, \* slots a lookup may look at past the first
  EntryLists,  \* lists of streams: source, length, end of the compressed bytes
  ExtraLists   \* lists of payloads: bank, address and length

HALF == BANK \div 2
READ_AHEAD == 1
LOROM_MIRROR_BASE == 2 * N
WINDOW_BASE == 3 * N
IMAGE_BANKS == 3 * N
ORIGINAL_SIZE == N * BANK
Rom == 0 .. ORIGINAL_SIZE - 1

ASSUME HalvesAssumption == BANK = 2 * HALF
ASSUME ImageAssumption ==
  N \in Nat \ {0} /\ MIN_REGION \in Nat /\ SCAN_BUDGET \in Nat
ASSUME BanksAssumption ==
  TABLE_BANK \in N .. 2 * N - 1 /\ WRAM_BANKS \subseteq N .. 2 * N - 1
\* Streams are sorted by source; the decoder's end is past its read-ahead.
ASSUME EntriesAssumption ==
  \A l \in EntryLists :
    /\ l \in Seq([source : Rom, length : Nat \ {0}, end : Nat])
    /\ \A i \in DOMAIN l : l[i].end \in l[i].source + READ_AHEAD .. ORIGINAL_SIZE + READ_AHEAD
    /\ \A i, j \in DOMAIN l : i < j => l[i].source < l[j].source
\* The callers' one payload, the pre-fight table, has a data bank to itself.
ASSUME ExtrasAssumption ==
  \A x \in ExtraLists :
    /\ x \in Seq([bank : (N .. 2 * N - 1) \ {TABLE_BANK}, addr : Nat, length : Nat])
    /\ \A i \in DOMAIN x : x[i].addr + x[i].length <= BANK

VARIABLES
  entries,  \* the streams to place
  extra,    \* the payloads written last
  phase,    \* "plan", "allocate", "key", "write", "built" or "refused"
  slots,    \* the table slot of each stream
  step,     \* writes made so far
  image     \* the file

layout == <<entries, extra>>
allocation == vars
all == <<layout, phase, allocation, slots, step, image>>

Span(bank, start, end) == [bank |-> bank, start |-> start, end |-> end]

\* The order regions are sorted in.
Before(r, s) == r.bank < s.bank \/ (r.bank = s.bank /\ r.start < s.start)

-----------------------------------------------------------------------------
(* The free regions.                                                       *)

DataBankRegions ==
  {Span(b, 0, BANK) : b \in (N .. 2 * N - 1) \ ({TABLE_BANK} \union WRAM_BANKS)}

SpansOf(x) == [i \in DOMAIN x |-> Span(x[i].bank, x[i].addr, x[i].addr + x[i].length)]

\* A hole that only touches one end taken for one that misses the piece.
MutCut(piece, hole) ==
  IF \/ hole.bank # piece.bank
     \/ (hole.end < piece.end /\ hole.start <= piece.start)
     \/ hole.end <= piece.start \/ hole.start >= piece.end
  THEN {piece}
  ELSE {r \in {[piece EXCEPT !.end = hole.start], [piece EXCEPT !.start = hole.end]} :
          r.start < r.end}

\* What a hole leaves of a piece.
Cut(piece, hole) ==
  IF hole.bank # piece.bank \/ hole.end <= piece.start \/ hole.start >= piece.end
  THEN {piece}
  ELSE {r \in {[piece EXCEPT !.end = hole.start], [piece EXCEPT !.start = hole.end]} :
          r.start < r.end}

\* What is left of some regions when each hole in turn is cut out of them.
Subtract(regions, holes) ==
  LET left[n \in 0 .. Len(holes)] ==
        IF n = 0 THEN regions ELSE UNION {Cut(p, holes[n]) : p \in left[n - 1]}
  IN left[Len(holes)]

\* The region that is sorted last.
Latest(regions) == CHOOSE r \in regions : \A s \in regions : ~Before(r, s)

\* A region put behind a list, joined to its last one if the two touch.
Join(merged, r) ==
  IF merged # <<>> /\ Last(merged).bank = r.bank /\ Last(merged).end >= r.start
  THEN [merged EXCEPT ![Len(merged)].end = IF @ < r.end THEN r.end ELSE @]
  ELSE Append(merged, r)

\* The regions joined in order of bank and address.
Merge(regions) ==
  LET merged[S \in SUBSET regions] ==
        IF S = {} THEN <<>> ELSE Join(merged[S \ {Latest(S)}], Latest(S))
  IN merged[regions]

\* Read-ahead taken for consumed.
MutReclaimedEnd(e) ==
  LET bankEnd == (e.source \div BANK + 1) * BANK IN
  IF e.end < bankEnd THEN e.end ELSE bankEnd

\* The bytes a stream's decompression consumed, inside its bank.
ReclaimedEnd(e) ==
  LET consumed == e.end - READ_AHEAD
      bankEnd == (e.source \div BANK + 1) * BANK
  IN IF consumed < bankEnd THEN consumed ELSE bankEnd

ReclaimedRegions(l) ==
  LET spans == {Span(WINDOW_BASE + l[i].source \div BANK, l[i].source % BANK,
                     ReclaimedEnd(l[i]) - (l[i].source \div BANK) * BANK) :
                  i \in {j \in DOMAIN l : ReclaimedEnd(l[j]) > l[j].source}}
      merged == Merge(spans)
  IN {merged[i] : i \in {j \in DOMAIN merged :
                           merged[j].end - merged[j].start >= MIN_REGION}}

Regions(l, x) == Subtract(DataBankRegions, SpansOf(x)) \union ReclaimedRegions(l)

\* The last stream is placed first.
Ordered(l) == IF l = <<>> THEN l ELSE <<Last(l)>> \o Front(l)

Sizes(l) == [i \in DOMAIN l |-> Ordered(l)[i].length]

Destination(i) == IF i = Len(entries) THEN placed[1] ELSE placed[i + 1]

-----------------------------------------------------------------------------
(* The windowed map and the file.                                          *)

LowHalf(imageBank) == (imageBank + IMAGE_BANKS) * HALF
HighHalf(imageBank) == imageBank * HALF

\* The window's high halves taken from the LoROM banks' high ones.
MutAddressToFile(bank, addr) ==
  CASE bank >= WINDOW_BASE /\ addr < HALF ->
         LowHalf(LOROM_MIRROR_BASE + bank - WINDOW_BASE) + addr
    [] bank >= WINDOW_BASE /\ addr >= HALF ->
         HighHalf(bank - WINDOW_BASE) + addr - HALF
    [] bank < WINDOW_BASE /\ addr < HALF -> LowHalf(bank) + addr
    [] bank < WINDOW_BASE /\ addr >= HALF -> HighHalf(bank) + addr - HALF

\* Where a bus address lies in the file; the window takes its low halves from
\* the LoROM mirror's banks and its high halves from the LoROM banks' low ones.
AddressToFile(bank, addr) ==
  CASE bank >= WINDOW_BASE /\ addr < HALF ->
         LowHalf(LOROM_MIRROR_BASE + bank - WINDOW_BASE) + addr
    [] bank >= WINDOW_BASE /\ addr >= HALF ->
         LowHalf(bank - WINDOW_BASE) + addr - HALF
    [] bank < WINDOW_BASE /\ addr < HALF -> LowHalf(bank) + addr
    [] bank < WINDOW_BASE /\ addr >= HALF -> HighHalf(bank) + addr - HALF

\* The file offset k bytes on from an address, a bank at a time.
Offset(bank, addr, k) ==
  AddressToFile(bank + (addr + k) \div BANK, (addr + k) % BANK)

Read(bank, addr) == image[AddressToFile(bank, addr)]

\* place: the contents written to the file from an address on.
PlaceBytes(img, bank, addr, data) ==
  LET at == [k \in DOMAIN data |-> Offset(bank, addr, k - 1)] IN
  [f \in DOMAIN img |->
     IF \E k \in DOMAIN data : at[k] = f
     THEN data[CHOOSE k \in DOMAIN data :
                 at[k] = f /\ \A j \in DOMAIN data : j > k => at[j] # f]
     ELSE img[f]]

RomBytes(from, length) == [k \in 1 .. length |-> <<"rom", from + k - 1>>]
StreamBytes(i) == [k \in 1 .. entries[i].length |-> <<"stream", i, k>>]
ExtraBytes(i) == [k \in 1 .. extra[i].length |-> <<"extra", i, k>>]
Blank == [f \in 0 .. IMAGE_BANKS * BANK - 1 |-> <<"blank">>]

\* The slots of the key table, one for each address of a bank.
StreamKeys == INSTANCE StreamKeys WITH Slots <- BANK

Key(i) == StreamKeys!SourceKey(entries[i].source, WINDOW_BASE)
Keys == [i \in DOMAIN entries |-> Key(i)]

\* The four byte tables, as one bank of slots.
TableBytes ==
  [k \in 1 .. BANK |->
     IF \E i \in DOMAIN entries : slots[i] = k - 1
     THEN LET i == CHOOSE i \in DOMAIN entries : slots[i] = k - 1
          IN <<"key", Key(i).bank, Destination(i).bank, Destination(i).start>>
     ELSE <<"empty">>]

-----------------------------------------------------------------------------
(* build.                                                                  *)

Plan ==
  /\ phase = "plan"
  /\ phase' = "allocate"
  /\ free' = Merge(Regions(entries, extra))
  /\ sizes' = Sizes(entries)
  /\ cursor' = [i \in DOMAIN free' |-> free'[i].start]
  /\ placed' = <<>>
  /\ outcome' = "placing"
  /\ UNCHANGED <<layout, slots, step, image>>

Allocate ==
  /\ phase = "allocate"
  /\ Next
  /\ phase' = CASE outcome' = "placing" -> "allocate"
                [] outcome' = "placed" -> "key"
                [] outcome' = "refused" -> "refused"
  /\ UNCHANGED <<layout, slots, step, image>>

\* sdd1tables.build: allocate raises when there are more streams than slots or a
\* scan is ambiguous; verify and the check of the banks pass what it returns.
KeyStreams ==
  /\ phase = "key"
  /\ slots' = IF Len(Keys) <= BANK THEN StreamKeys!FirstFreeSlots(Keys) ELSE <<>>
  /\ phase' = IF Len(Keys) <= BANK /\ StreamKeys!Unambiguous(Keys, slots')
              THEN "write" ELSE "refused"
  /\ UNCHANGED <<layout, allocation, step, image>>

\* The writes, in order.
WriteLorom(bank) ==
  LET half == RomBytes(bank * HALF, HALF) IN
  PlaceBytes(PlaceBytes(image, bank, HALF, half), LOROM_MIRROR_BASE + bank, HALF, half)

WriteWindow(n) == PlaceBytes(image, WINDOW_BASE + n, 0, RomBytes(n * BANK, BANK))

WriteTables == PlaceBytes(image, TABLE_BANK, 0, TableBytes)

WriteStream(i) ==
  PlaceBytes(image, Destination(i).bank, Destination(i).start, StreamBytes(i))

WriteExtra(i) == PlaceBytes(image, extra[i].bank, extra[i].addr, ExtraBytes(i))

Writes == N + N + 1 + Len(entries) + Len(extra)

Write(s) ==
  CASE s < N -> WriteLorom(s)
    [] s \in N .. 2 * N - 1 -> WriteWindow(s - N)
    [] s = 2 * N -> WriteTables
    [] s \in 2 * N + 1 .. 2 * N + Len(entries) -> WriteStream(s - 2 * N)
    [] s > 2 * N + Len(entries) -> WriteExtra(s - 2 * N - Len(entries))

WriteNext ==
  /\ phase = "write"
  /\ step < Writes
  /\ image' = Write(step)
  /\ step' = step + 1
  /\ phase' = IF step' = Writes THEN "built" ELSE "write"
  /\ UNCHANGED <<layout, allocation, slots>>

BuildInit ==
  /\ entries \in EntryLists
  /\ extra \in ExtraLists
  /\ phase = "plan"
  /\ free = <<>> /\ sizes = <<>> /\ cursor = <<>> /\ placed = <<>>
  /\ outcome = "placing"
  /\ slots = <<>>
  /\ step = 0
  /\ image = Blank

BuildNext == Plan \/ Allocate \/ KeyStreams \/ WriteNext

BuildSpec == BuildInit /\ [][BuildNext]_all

-----------------------------------------------------------------------------
(* verify_image.py: the image read back the way the game reads it.         *)

\* The steps of a lookup that come to a slot of the stream's bank.
Matches(i) ==
  {d \in 0 .. SCAN_BUDGET :
     LET slot == Read(TABLE_BANK, (Key(i).addr + d) % BANK) IN
     slot[1] = "key" /\ slot[2] = Key(i).bank}

First(S) == CHOOSE d \in S : \A e \in S : d <= e

\* resolve: the destination of the first, or none within the budget.
Resolve(i) ==
  IF Matches(i) = {} THEN <<>>
  ELSE LET slot == Read(TABLE_BANK, (Key(i).addr + First(Matches(i))) % BANK)
       IN <<slot[3], slot[4]>>

Unresolved == {i \in DOMAIN entries : Resolve(i) = <<>>}

Wrong ==
  {i \in DOMAIN entries \ Unresolved :
     \E k \in 1 .. entries[i].length :
       image[Offset(Resolve(i)[1], Resolve(i)[2], k - 1)] # <<"stream", i, k>>}

Built == phase = "built"

(* In a finished image a lookup finds each stream's own entry, unless that *)
(* lies further off than it may look, and no other's. The destination there*)
(* holds the stream's bytes, all of them: no later write and no neighbour  *)
(* has taken one away.                                                     *)
EveryStreamReadsBack ==
  Built =>
    /\ Wrong = {}
    /\ Unresolved =
         {i \in DOMAIN entries : StreamKeys!Distance(Keys, slots, i) > SCAN_BUDGET}

\* The ROM bytes whose only use was to be decompressed.
Spent ==
  UNION {{b \in Rom : /\ entries[i].source <= b
                      /\ b < entries[i].end - READ_AHEAD
                      /\ b \div BANK = entries[i].source \div BANK} :
           i \in DOMAIN entries}

(* The game still reads its ROM. The LoROM banks and their mirror return it*)
(* byte for byte, whatever is reclaimed in the window, which shares the    *)
(* file with them; and the window returns it but where some stream consumed*)
(* the byte, before its read-ahead and inside the bank it starts in.       *)
GameViewIntact ==
  Built =>
    /\ \A b \in 0 .. N - 1, a \in HALF .. BANK - 1 :
         /\ Read(b, a) = <<"rom", b * HALF + a - HALF>>
         /\ Read(LOROM_MIRROR_BASE + b, a) = <<"rom", b * HALF + a - HALF>>
    /\ \A b \in Rom \ Spent :
         Read(WINDOW_BASE + b \div BANK, b % BANK) = <<"rom", b>>

Bytes(regions) == UNION {{<<r.bank, b>> : b \in r.start .. r.end - 1} : r \in regions}

ValuesOf(l) == {l[i] : i \in DOMAIN l}

\* The spent bytes of one bank in a row with a given one.
Stretch(b) ==
  {c \in Spent : /\ c \div BANK = b \div BANK
                 /\ (IF b < c THEN b .. c ELSE c .. b) \subseteq Spent}

(* What is free is exactly the data banks' bytes no payload has and the    *)
(* spent bytes in stretches long enough to keep; sorting, cutting and      *)
(* joining lose nothing and invent nothing.                                *)
FreeIsExact ==
  phase = "allocate" =>
    Bytes(ValuesOf(free)) =
      (Bytes(DataBankRegions) \ Bytes(ValuesOf(SpansOf(extra))))
      \union {<<WINDOW_BASE + b \div BANK, b % BANK>> :
                b \in {c \in Spent : Cardinality(Stretch(c)) >= MIN_REGION}}
=============================================================================
