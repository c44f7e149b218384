-------------------------- MODULE RegionAllocator --------------------------
(***************************************************************************)
(* rombuild.allocate: every decompressed stream gets a place in the free   *)
(* regions of the image.  The regions are taken in order of bank and       *)
(* address, a cursor moves up each, and a stream goes to the first region  *)
(* with room for it, or the build stops with AllocationError.              *)
(***************************************************************************)
EXTENDS Integers, Sequences, FiniteSets

CONSTANTS
  BANK,       \* bytes of a bank; 65536
  FreeLists,  \* lists of free regions, as merge returns them
  SizeLists   \* lists of stream lengths, in the order they are placed

Region == [bank : Nat, start : Nat, end : Nat]

Apart(r, s) == r.bank # s.bank \/ r.end <= s.start \/ s.end <= r.start

\* merge leaves disjoint regions, each inside one bank.
Merged(l) ==
  /\ \A i \in DOMAIN l : l[i].start <= l[i].end /\ l[i].end <= BANK
  /\ \A i, j \in DOMAIN l : i # j => Apart(l[i], l[j])

ASSUME BankAssumption == BANK \in Nat \ {0}
ASSUME FreeAssumption == \A l \in FreeLists : l \in Seq(Region) /\ Merged(l)
ASSUME SizesAssumption == \A l \in SizeLists : l \in Seq(Nat \ {0})

VARIABLES
  free,     \* the free regions
  sizes,    \* the lengths to place
  cursor,   \* the first byte of each region not handed out yet
  placed,   \* where each stream placed so far went, in order
  outcome   \* "placing", "placed" or "refused"

vars == <<free, sizes, cursor, placed, outcome>>

\* The stream to place next.
This == Len(placed) + 1

Fits(i) == free[i].end - cursor[i] >= sizes[This]

FirstFit(i) == Fits(i) /\ \A j \in 1 .. i - 1 : ~Fits(j)

Taken(i) ==
  [bank |-> free[i].bank, start |-> cursor[i], end |-> cursor[i] + sizes[This]]

\* The cursor left where it was.
MutPlaceNoAdvance ==
  /\ outcome = "placing" /\ free # <<>> /\ This <= Len(sizes)
  /\ \E i \in DOMAIN free : FirstFit(i) /\ placed' = Append(placed, Taken(i))
  /\ UNCHANGED <<free, sizes, cursor, outcome>>

Place ==
  /\ outcome = "placing" /\ free # <<>> /\ This <= Len(sizes)
  /\ \E i \in DOMAIN free :
       /\ FirstFit(i)
       /\ placed' = Append(placed, Taken(i))
       /\ cursor' = [cursor EXCEPT ![i] = @ + sizes[This]]
  /\ UNCHANGED <<free, sizes, outcome>>

Return ==
  /\ outcome = "placing" /\ free # <<>> /\ This > Len(sizes)
  /\ outcome' = "placed"
  /\ UNCHANGED <<free, sizes, cursor, placed>>

\* Given up when the last region is full, whatever the others hold.
MutRefuse ==
  /\ outcome = "placing"
  /\ \/ free = <<>>
     \/ free # <<>> /\ This <= Len(sizes) /\ ~Fits(Len(free))
  /\ outcome' = "refused"
  /\ UNCHANGED <<free, sizes, cursor, placed>>

\* AllocationError: no regions at all, or none with room for the stream.
Refuse ==
  /\ outcome = "placing"
  /\ \/ free = <<>>
     \/ This <= Len(sizes) /\ \A i \in DOMAIN free : ~Fits(i)
  /\ outcome' = "refused"
  /\ UNCHANGED <<free, sizes, cursor, placed>>

Init ==
  /\ free \in FreeLists
  /\ sizes \in SizeLists
  /\ cursor = [i \in DOMAIN free |-> free[i].start]
  /\ placed = <<>>
  /\ outcome = "placing"

Next == Place \/ Return \/ Refuse

Spec == Init /\ [][Next]_vars

-----------------------------------------------------------------------------

TypeOK ==
  /\ free \in Seq(Region) /\ Merged(free)
  /\ sizes \in Seq(Nat \ {0})
  /\ cursor \in [DOMAIN free -> Nat]
  /\ placed \in Seq(Region)
  /\ Len(placed) <= Len(sizes)
  /\ outcome \in {"placing", "placed", "refused"}

(* No two streams share a byte of the image, whatever regions and lengths  *)
(* the build meets.                                                        *)
StreamsApart ==
  \A p, q \in DOMAIN placed : p # q => Apart(placed[p], placed[q])

Within(r, s) == r.bank = s.bank /\ s.start <= r.start /\ r.end <= s.end

(* Every stream lies inside one free region, so it never runs over a bank's*)
(* end and never over anything the regions leave out, and it has exactly   *)
(* the length it was asked to have.                                        *)
InsideFree ==
  \A p \in DOMAIN placed :
    /\ placed[p].end - placed[p].start = sizes[p]
    /\ \E i \in DOMAIN free : Within(placed[p], free[i])

(* The bytes of a region that no stream was given.                         *)
Unused(i) ==
  {b \in free[i].start .. free[i].end - 1 :
     ~\E p \in DOMAIN placed : /\ placed[p].bank = free[i].bank
                               /\ placed[p].start <= b /\ b < placed[p].end}

(* A build is refused only for want of room: no region has as many bytes   *)
(* left over as the stream is long.  The cursors waste nothing.            *)
RefusedMeansFull ==
  outcome = "refused" =>
    \A i \in DOMAIN free : Cardinality(Unused(i)) < sizes[This]
=============================================================================
