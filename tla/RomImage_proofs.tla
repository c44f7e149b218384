--------------------------- MODULE RomImage_proofs ---------------------------
(* For every list of streams and of payloads the build is given: the free  *)
(* regions are exactly the bytes nobody needs, allocate gives each stream  *)
(* bytes of its own there or is refused for want of room, and the finished *)
(* file reads back: the game's ROM, the tables and every stream, whatever  *)
(* was written after it.                                                   *)
EXTENDS RomImage, FiniteSetTheorems, WellFoundedInduction, TLAPS

-----------------------------------------------------------------------------
(* The allocator: what it keeps of what it has placed, at every step.      *)

\* Each cursor stands inside its region.
CursorsInside ==
  \A i \in DOMAIN free : free[i].start <= cursor[i] /\ cursor[i] <= free[i].end

\* r was cut from region i, below its cursor.
Behind(r, i) ==
  r.bank = free[i].bank /\ free[i].start <= r.start /\ r.end <= cursor[i]

AllBehind ==
  \A p \in DOMAIN placed :
    /\ placed[p].end - placed[p].start = sizes[p]
    /\ \E i \in DOMAIN free : Behind(placed[p], i)

IInv == TypeOK /\ CursorsInside /\ AllBehind /\ StreamsApart

\* The regions and lengths are what merge and the stream table give.
LEMMA Inputs ==
  ASSUME TypeOK
  PROVE  /\ free \in Seq(Region) /\ Merged(free)
         /\ sizes \in Seq(Nat \ {0})
BY DEF TypeOK

\* Nothing is placed yet and every cursor stands at its region's start.
Fresh ==
  /\ free \in Seq(Region) /\ Merged(free) /\ sizes \in Seq(Nat \ {0})
  /\ cursor = [i \in DOMAIN free |-> free[i].start]
  /\ placed = <<>> /\ outcome = "placing"

LEMMA FreshInv == Fresh => IInv
<1> SUFFICES ASSUME Fresh PROVE IInv
  OBVIOUS
<1>1. free \in Seq(Region) /\ Merged(free) /\ sizes \in Seq(Nat \ {0})
  BY DEF Fresh
<1>2. /\ outcome = "placing" /\ placed = <<>>
      /\ cursor = [i \in DOMAIN free |-> free[i].start]
  BY DEF Fresh
<1>3. ASSUME NEW i \in DOMAIN free
      PROVE  free[i].start \in Nat /\ free[i].start <= free[i].end
  <2>1. free[i] \in Region
    BY <1>1
  <2>2. free[i].start \in Nat
    BY <2>1 DEF Region
  <2> QED BY <1>1, <2>2 DEF Merged
<1>4. cursor \in [DOMAIN free -> Nat]
  BY <1>2, <1>3, Zenon
<1>5. placed \in Seq(Region) /\ Len(placed) <= Len(sizes)
  BY <1>1, <1>2
<1>6. TypeOK
  BY <1>1, <1>2, <1>4, <1>5 DEF TypeOK
<1>7. CursorsInside
  BY <1>2, <1>3 DEF CursorsInside
<1>8. AllBehind /\ StreamsApart
  BY <1>2 DEF AllBehind, StreamsApart
<1> QED BY <1>6, <1>7, <1>8 DEF IInv

LEMMA InitFresh == Init => Fresh
BY FreeAssumption, SizesAssumption DEF Init, Fresh

\* The bytes cut for the next stream lie apart from everything cut before.
LEMMA TakenApart ==
  ASSUME IInv, NEW i \in DOMAIN free, This <= Len(sizes), Fits(i),
         NEW r \in Region, r.start <= r.end,
         NEW j \in DOMAIN free, Behind(r, j)
  PROVE  Apart(r, Taken(i)) /\ Apart(Taken(i), r)
<1>1. free \in Seq(Region) /\ Merged(free) /\ sizes \in Seq(Nat \ {0})
  BY Inputs DEF IInv
<1>2. /\ cursor[i] \in Nat /\ cursor[j] \in Nat
      /\ free[i] \in Region /\ free[j] \in Region
      /\ sizes[This] \in Nat
  BY <1>1 DEF IInv, TypeOK, This
<1>3. /\ free[i].start <= cursor[i] /\ cursor[i] + sizes[This] <= free[i].end
      /\ cursor[j] <= free[j].end
  <2>1. CursorsInside
    BY DEF IInv
  <2>2. /\ free[i].start <= cursor[i] /\ cursor[j] <= free[j].end
    BY <2>1 DEF CursorsInside
  <2>3. cursor[i] + sizes[This] <= free[i].end
    <3>1. free[i].end - cursor[i] >= sizes[This]
      BY DEF Fits
    <3>2. free[i].end \in Nat
      BY <1>2 DEF Region
    <3> QED BY <1>2, <3>1, <3>2
  <2> QED BY <2>2, <2>3
<1>4. CASE i = j
  BY <1>2, <1>3, <1>4 DEF Behind, Apart, Taken, Region
<1>5. CASE i # j
  <2>1. Apart(free[i], free[j])
    BY <1>1, <1>5 DEF Merged
  <2> QED BY <1>2, <1>3, <2>1 DEF Behind, Apart, Taken, Region
<1> QED BY <1>4, <1>5

\* A stream cut at a cursor keeps all of it: the cursor moves over exactly its bytes.
LEMMA PlaceInv == IInv /\ Place => IInv'
<1> SUFFICES ASSUME IInv, Place PROVE IInv'
  OBVIOUS
<1>1. /\ free \in Seq(Region) /\ Merged(free) /\ sizes \in Seq(Nat \ {0})
      /\ placed \in Seq(Region) /\ cursor \in [DOMAIN free -> Nat]
  BY Inputs DEF IInv, TypeOK
<1>2. PICK i \in DOMAIN free :
        /\ FirstFit(i)
        /\ placed' = Append(placed, Taken(i))
        /\ cursor' = [cursor EXCEPT ![i] = @ + sizes[This]]
  BY DEF Place
<1>3. /\ free' = free /\ sizes' = sizes /\ outcome' = outcome
      /\ This <= Len(sizes) /\ Fits(i)
  BY <1>2 DEF Place, FirstFit
<1>4. This = Len(placed) + 1 /\ This \in Nat /\ sizes[This] \in Nat /\ sizes[This] > 0
  BY <1>1, <1>3 DEF This
<1>5. cursor[i] \in Nat /\ free[i] \in Region
      /\ free[i].start <= cursor[i] /\ cursor[i] + sizes[This] <= free[i].end
  <2>1. cursor[i] \in Nat /\ free[i] \in Region
    BY <1>1
  <2>2. free[i].end \in Nat /\ free[i].start \in Nat
    BY <2>1 DEF Region
  <2>3. free[i].start <= cursor[i]
    BY DEF IInv, CursorsInside
  <2>4. free[i].end - cursor[i] >= sizes[This]
    BY <1>3 DEF Fits
  <2> QED BY <1>4, <2>1, <2>2, <2>3, <2>4
<1>6. Taken(i) \in Region
  BY <1>4, <1>5 DEF Taken, Region
<1>7. /\ placed' \in Seq(Region) /\ Len(placed') = This
      /\ placed'[This] = Taken(i)
      /\ DOMAIN placed' = DOMAIN placed \union {This}
      /\ This \notin DOMAIN placed
      /\ \A p \in DOMAIN placed : placed'[p] = placed[p] /\ placed[p] \in Region
  BY <1>1, <1>2, <1>4, <1>6
<1>8. /\ cursor' \in [DOMAIN free -> Nat]
      /\ cursor'[i] = cursor[i] + sizes[This]
      /\ \A j \in DOMAIN free : j # i => cursor'[j] = cursor[j]
  BY <1>1, <1>2, <1>4, <1>5
<1>9. \A j \in DOMAIN free : cursor[j] \in Nat /\ cursor[j] <= cursor'[j]
  <2>1. ASSUME NEW j \in DOMAIN free
        PROVE  cursor[j] \in Nat /\ cursor[j] <= cursor'[j]
    <3>1. cursor[j] \in Nat
      BY <1>1
    <3> QED BY <1>4, <1>8, <3>1
  <2> QED BY <2>1
<1>10. TypeOK'
  BY <1>3, <1>7, <1>8 DEF IInv, TypeOK
<1>11. CursorsInside'
  <2>1. ASSUME NEW j \in DOMAIN free
        PROVE  free[j].start <= cursor'[j] /\ cursor'[j] <= free[j].end
    <3>1. CASE j = i
      BY <1>4, <1>5, <1>8, <3>1 DEF Region
    <3>2. CASE j # i
      BY <1>8, <3>2 DEF IInv, CursorsInside
    <3> QED BY <3>1, <3>2
  <2> QED BY <1>3, <2>1 DEF CursorsInside
<1>12. AllBehind'
  <2>1. ASSUME NEW p \in DOMAIN placed
        PROVE  (/\ placed[p].end - placed[p].start = sizes[p]
                /\ \E j \in DOMAIN free : Behind(placed[p], j))'
    <3>1. PICK j \in DOMAIN free : Behind(placed[p], j)
      BY DEF IInv, AllBehind
    <3>2. placed[p].end \in Nat /\ cursor[j] \in Nat /\ cursor'[j] \in Nat
      BY <1>7, <1>8, <1>9 DEF Region
    <3>3. placed[p].end <= cursor[j] /\ cursor[j] <= cursor'[j]
      BY <1>9, <3>1 DEF Behind
    <3>4. placed[p].end <= cursor'[j]
      BY <3>2, <3>3
    <3>5. Behind(placed[p], j)'
      BY <1>3, <1>7, <3>1, <3>4 DEF Behind
    <3>6. placed[p].end - placed[p].start = sizes[p]
      BY DEF IInv, AllBehind
    <3> QED BY <1>3, <1>7, <3>5, <3>6
  <2>2. ASSUME NEW p, p = This
        PROVE  (/\ placed[p].end - placed[p].start = sizes[p]
                /\ Behind(placed[p], i))'
    <3>1. /\ placed'[p].bank = free[i].bank
          /\ placed'[p].start = cursor[i]
          /\ placed'[p].end = cursor[i] + sizes[p]
      BY <1>7, <2>2 DEF Taken
    <3>2. placed'[p].end - placed'[p].start = sizes[p]
      BY <1>4, <1>5, <2>2, <3>1
    <3>3. placed'[p].end <= cursor'[i] /\ free[i].start <= placed'[p].start
      BY <1>4, <1>5, <1>8, <2>2, <3>1
    <3> QED BY <1>3, <3>1, <3>2, <3>3 DEF Behind
  <2>3. ASSUME NEW p \in DOMAIN placed'
        PROVE  (/\ placed[p].end - placed[p].start = sizes[p]
                /\ \E j \in DOMAIN free : Behind(placed[p], j))'
    <3>1. p \in DOMAIN placed \/ p = This
      BY <1>7
    <3> QED BY <1>3, <2>1, <2>2, <3>1
  <2> QED BY <2>3 DEF AllBehind
<1>13. StreamsApart'
  <2>1. ASSUME NEW p \in DOMAIN placed
        PROVE  Apart(placed[p], Taken(i)) /\ Apart(Taken(i), placed[p])
    <3>1. PICK j \in DOMAIN free : Behind(placed[p], j)
      BY DEF IInv, AllBehind
    <3>2. placed[p] \in Region /\ placed[p].end - placed[p].start = sizes[p]
      BY <1>7 DEF IInv, AllBehind
    <3>3. p \in DOMAIN sizes
      BY <1>1 DEF IInv, TypeOK
    <3>4. placed[p].start \in Nat /\ placed[p].end \in Nat /\ sizes[p] \in Nat
      BY <1>1, <3>2, <3>3 DEF Region
    <3>5. placed[p].start <= placed[p].end
      BY <3>2, <3>4
    <3> QED BY <1>3, <3>1, <3>2, <3>5, TakenApart
  <2> QED BY <1>7, <2>1 DEF IInv, StreamsApart
<1> QED BY <1>10, <1>11, <1>12, <1>13 DEF IInv

\* The steps that place nothing change only the outcome.
LEMMA OtherInv == IInv /\ (Return \/ Refuse \/ UNCHANGED vars) => IInv'
<1> SUFFICES ASSUME IInv, Return \/ Refuse \/ UNCHANGED vars PROVE IInv'
  OBVIOUS
<1>1. /\ free' = free /\ sizes' = sizes /\ cursor' = cursor /\ placed' = placed
      /\ outcome' \in {outcome, "placed", "refused"}
  BY DEF Return, Refuse, vars
<1>2. TypeOK'
  BY <1>1 DEF IInv, TypeOK
<1>3. CursorsInside' /\ StreamsApart'
  BY <1>1 DEF IInv, CursorsInside, StreamsApart
<1>4. AllBehind'
  BY <1>1 DEF IInv, AllBehind, Behind
<1> QED BY <1>2, <1>3, <1>4 DEF IInv

\* What is below a cursor is inside its region.
LEMMA BehindInside == IInv => InsideFree
<1> SUFFICES ASSUME IInv, NEW p \in DOMAIN placed
             PROVE  /\ placed[p].end - placed[p].start = sizes[p]
                    /\ \E i \in DOMAIN free : Within(placed[p], free[i])
  BY DEF InsideFree
<1>1. free \in Seq(Region) /\ placed[p] \in Region /\ cursor \in [DOMAIN free -> Nat]
  BY Inputs DEF IInv, TypeOK
<1>2. PICK i \in DOMAIN free : Behind(placed[p], i)
  BY DEF IInv, AllBehind
<1>3. cursor[i] <= free[i].end /\ cursor[i] \in Nat /\ free[i] \in Region
  BY <1>1 DEF IInv, CursorsInside
<1>4. Within(placed[p], free[i])
  BY <1>1, <1>2, <1>3 DEF Behind, Within, Region
<1> QED BY <1>4 DEF IInv, AllBehind

-----------------------------------------------------------------------------

\* Some stream was given byte b of region i.
Given(i, b) ==
  \E p \in DOMAIN placed : /\ placed[p].bank = free[i].bank
                           /\ placed[p].start <= b /\ b < placed[p].end

\* Nothing is left over below a cursor, and a build that was refused had no
\* region for the stream at the one moment it looked.
NothingWasted ==
  /\ \A i \in DOMAIN free :
       \A b \in Int : free[i].start <= b /\ b < cursor[i] => Given(i, b)
  /\ outcome = "refused" =>
       free = <<>> \/ (This <= Len(sizes) /\ \A i \in DOMAIN free : ~Fits(i))

\* Every cursor is at the bottom of its region.
LEMMA WastedFresh == Fresh => NothingWasted
<1> SUFFICES ASSUME Fresh PROVE NothingWasted
  OBVIOUS
<1>1. free \in Seq(Region) /\ outcome # "refused"
      /\ \A i \in DOMAIN free : cursor[i] = free[i].start
  BY DEF Fresh
<1>2. ASSUME NEW i \in DOMAIN free, NEW b \in Int, free[i].start <= b, b < cursor[i]
      PROVE  FALSE
  <2>1. free[i] \in Region /\ cursor[i] = free[i].start
    BY <1>1
  <2>2. free[i].start \in Nat
    BY <2>1 DEF Region
  <2> QED BY <1>2, <2>1, <2>2
<1> QED BY <1>1, <1>2 DEF NothingWasted

\* The bytes the cursor moves over are the bytes of the stream placed.
LEMMA WastedPlace == IInv /\ NothingWasted /\ Place => NothingWasted'
<1> SUFFICES ASSUME IInv, NothingWasted, Place PROVE NothingWasted'
  OBVIOUS
<1>1. /\ free \in Seq(Region) /\ sizes \in Seq(Nat \ {0})
      /\ placed \in Seq(Region) /\ cursor \in [DOMAIN free -> Nat]
  BY Inputs DEF IInv, TypeOK
<1>2. PICK i \in DOMAIN free :
        /\ FirstFit(i)
        /\ placed' = Append(placed, Taken(i))
        /\ cursor' = [cursor EXCEPT ![i] = @ + sizes[This]]
  BY DEF Place
<1>3. /\ UNCHANGED <<free, sizes>> /\ outcome' # "refused"
      /\ cursor[i] \in Nat /\ sizes[This] \in Nat
  BY <1>1 DEF Place, This
<1>4. /\ placed'[This] = Taken(i) /\ This \in DOMAIN placed'
      /\ \A p \in DOMAIN placed : p \in DOMAIN placed' /\ placed'[p] = placed[p]
  BY <1>1, <1>2 DEF This
<1>5. ASSUME NEW j \in DOMAIN free, NEW b \in Int, free[j].start <= b, b < cursor'[j]
      PROVE  Given(j, b)'
  <2>1. CASE b < cursor[j]
    <3>1. Given(j, b)
      BY <1>5, <2>1 DEF NothingWasted
    <3> QED BY <1>3, <1>4, <3>1 DEF Given
  <2>2. CASE ~(b < cursor[j])
    <3>1. j = i
      BY <1>1, <1>2, <1>5, <2>2
    <3>2. cursor'[j] = cursor[i] + sizes[This] /\ cursor[i] <= b
      BY <1>1, <1>2, <1>3, <2>2, <3>1
    <3>3. /\ placed'[This].bank = free[j].bank /\ placed'[This].start <= b
          /\ b < placed'[This].end
      BY <1>4, <1>5, <3>1, <3>2 DEF Taken
    <3> QED BY <1>3, <1>4, <3>3 DEF Given
  <2> QED BY <2>1, <2>2
<1> QED BY <1>3, <1>5 DEF NothingWasted

\* The other steps place nothing; only Refuse refuses.
LEMMA WastedOther == NothingWasted /\ (Return \/ Refuse \/ UNCHANGED vars) => NothingWasted'
<1> SUFFICES ASSUME NothingWasted, Return \/ Refuse \/ UNCHANGED vars PROVE NothingWasted'
  OBVIOUS
<1>1. UNCHANGED <<free, sizes, cursor, placed>>
  BY DEF Return, Refuse, vars
<1>2. outcome' = "refused" =>
        free = <<>> \/ (This <= Len(sizes) /\ \A i \in DOMAIN free : ~Fits(i))
  BY DEF Return, Refuse, vars, NothingWasted
<1>3. \A i \in DOMAIN free : \A b : Given(i, b) => Given(i, b)'
  BY <1>1 DEF Given
<1> QED BY <1>1, <1>2, <1>3 DEF NothingWasted, This, Fits

\* So what a region has left over is what lies above its cursor.
LEMMA LeftOver ==
  ASSUME IInv, NothingWasted, NEW i \in DOMAIN free
  PROVE  /\ cursor[i] \in Nat /\ free[i].end \in Nat
         /\ Cardinality(Unused(i)) \in Nat
         /\ Cardinality(Unused(i)) <= free[i].end - cursor[i]
<1>1. free \in Seq(Region) /\ cursor \in [DOMAIN free -> Nat] /\ cursor[i] <= free[i].end
  BY Inputs DEF IInv, TypeOK, CursorsInside
<1>2. cursor[i] \in Nat /\ free[i].start \in Nat /\ free[i].end \in Nat
  <2>1. free[i] \in Region /\ cursor[i] \in Nat
    BY <1>1
  <2> QED BY <2>1 DEF Region
<1> DEFINE above == cursor[i] .. free[i].end - 1
<1>3. Unused(i) \subseteq above
  <2> SUFFICES ASSUME NEW b \in Unused(i) PROVE b \in above
    OBVIOUS
  <2>1. b \in Int /\ free[i].start <= b /\ b <= free[i].end - 1 /\ ~Given(i, b)
    BY <1>2 DEF Unused, Given
  <2>2. ~(b < cursor[i])
    BY <2>1 DEF NothingWasted
  <2> QED BY <1>2, <2>1, <2>2
<1>4. /\ IsFiniteSet(above)
      /\ Cardinality(above) =
           IF cursor[i] > free[i].end - 1 THEN 0 ELSE (free[i].end - 1) - cursor[i] + 1
  <2>1. free[i].end - 1 \in Int /\ cursor[i] \in Int
    BY <1>2
  <2> QED BY <2>1, FS_Interval
<1>5. Cardinality(above) <= free[i].end - cursor[i]
  <2>1. CASE cursor[i] > free[i].end - 1
    BY <1>1, <1>2, <1>4, <2>1
  <2>2. CASE ~(cursor[i] > free[i].end - 1)
    BY <1>2, <1>4, <2>2
  <2> QED BY <2>1, <2>2
<1>6. IsFiniteSet(Unused(i)) /\ Cardinality(Unused(i)) <= Cardinality(above)
  BY <1>3, <1>4, FS_Subset
<1>7. Cardinality(Unused(i)) \in Nat /\ Cardinality(above) \in Nat
  BY <1>4, <1>6, FS_CardinalityType
<1> HIDE DEF above
<1> QED BY <1>2, <1>5, <1>6, <1>7

\* What is left over is less than the stream that was refused.
LEMMA FullWhenRefused == IInv /\ NothingWasted => RefusedMeansFull
<1> SUFFICES ASSUME IInv, NothingWasted, outcome = "refused", NEW i \in DOMAIN free
             PROVE  Cardinality(Unused(i)) < sizes[This]
  BY DEF RefusedMeansFull
<1>1. This <= Len(sizes) /\ ~Fits(i)
  BY DEF NothingWasted
<1>2. sizes[This] \in Nat
  BY <1>1, Inputs DEF IInv, TypeOK, This
<1>3. /\ cursor[i] \in Nat /\ free[i].end \in Nat /\ Cardinality(Unused(i)) \in Nat
      /\ Cardinality(Unused(i)) <= free[i].end - cursor[i]
  BY LeftOver
<1> QED BY <1>1, <1>2, <1>3 DEF Fits

\* The allocator returns when there is nothing left to place.
AllPlaced == outcome = "placed" => Len(placed) = Len(sizes)

LEMMA PlacedStep == IInv /\ AllPlaced /\ [Next]_vars => AllPlaced'
<1> SUFFICES ASSUME IInv, AllPlaced, [Next]_vars, outcome' = "placed"
             PROVE  (Len(placed) = Len(sizes))'
  BY DEF AllPlaced
<1>1. placed \in Seq(Region) /\ sizes \in Seq(Nat \ {0}) /\ Len(placed) <= Len(sizes)
  BY Inputs DEF IInv, TypeOK
<1>2. CASE Place
  BY <1>2 DEF Place
<1>3. CASE Return
  BY <1>1, <1>3 DEF Return, This
<1>4. CASE Refuse
  BY <1>4 DEF Refuse
<1>5. CASE UNCHANGED vars
  BY <1>5 DEF vars, AllPlaced
<1> QED BY <1>2, <1>3, <1>4, <1>5 DEF Next

\* All of it, from a step of the allocator or none.
AllocatorInv == IInv /\ NothingWasted /\ AllPlaced

LEMMA AllocatorFresh == Fresh => AllocatorInv
BY FreshInv, WastedFresh DEF Fresh, AllPlaced, AllocatorInv

LEMMA AllocatorStep == AllocatorInv /\ [Next]_vars => AllocatorInv'
<1>1. NothingWasted /\ IInv /\ [Next]_vars => NothingWasted'
  BY WastedPlace, WastedOther DEF Next
<1>2. IInv /\ [Next]_vars => IInv'
  BY PlaceInv, OtherInv DEF Next
<1> QED BY <1>1, <1>2, PlacedStep DEF AllocatorInv

LEMMA Invariance == Spec => []AllocatorInv
<1>1. Init => AllocatorInv
  BY InitFresh, AllocatorFresh
<1> QED BY <1>1, AllocatorStep, PTL DEF Spec

(* The allocator's state has its types for every input it can be given.    *)
THEOREM AllocatorTypes == Spec => []TypeOK
<1>1. AllocatorInv => TypeOK
  BY DEF AllocatorInv, IInv
<1> QED BY <1>1, Invariance, PTL

(* No two streams share a byte of the image, however many there are and    *)
(* however the free regions lie.                                           *)
THEOREM StreamsNeverShareBytes == Spec => []StreamsApart
<1>1. AllocatorInv => StreamsApart
  BY DEF AllocatorInv, IInv
<1> QED BY <1>1, Invariance, PTL

(* Every stream keeps inside one free region and has the length asked for. *)
THEOREM StreamsInsideFreeRegions == Spec => []InsideFree
<1>1. AllocatorInv => InsideFree
  BY BehindInside DEF AllocatorInv
<1> QED BY <1>1, Invariance, PTL

(* A build is refused only for want of room: whatever the regions and the  *)
(* lengths, every region has fewer bytes left over than the stream is long.*)
THEOREM RefusedOnlyWhenFull == Spec => []RefusedMeansFull
<1>1. AllocatorInv => RefusedMeansFull
  BY FullWhenRefused DEF AllocatorInv
<1> QED BY <1>1, Invariance, PTL

\* Numbers are split into banks and addresses in one way.
LEMMA OneSplit ==
  ASSUME NEW b \in Nat \ {0}, NEW q \in Int, NEW p \in Int,
         NEW o \in 0 .. b - 1, NEW u \in 0 .. b - 1, b * q + o = b * p + u
  PROVE  q = p /\ o = u
<1>1. ASSUME NEW x \in Int, NEW y \in Int, x < y PROVE b * x + b <= b * y
  <2>1. y - x \in Nat /\ y - x >= 1
    BY <1>1
  <2>2. b * (y - x) >= b
    BY <2>1
  <2>3. b * (y - x) = b * y - b * x
    OBVIOUS
  <2>4. b * x \in Int /\ b * y \in Int
    OBVIOUS
  <2> QED BY <2>2, <2>3, <2>4
<1>2. b * q \in Int /\ b * p \in Int
  OBVIOUS
<1>3. ~(q < p)
  <2>1. q < p => b * q + b <= b * p
    BY <1>1
  <2> QED BY <1>2, <2>1
<1>4. ~(p < q)
  <2>1. p < q => b * p + b <= b * q
    BY <1>1
  <2> QED BY <1>2, <2>1
<1>5. q = p
  BY <1>3, <1>4
<1> QED BY <1>2, <1>5

LEMMA Split ==
  ASSUME NEW b \in Nat \ {0}, NEW s \in Nat
  PROVE  s \div b \in Nat /\ s % b \in 0 .. b - 1 /\ s = b * (s \div b) + (s % b)
<1> DEFINE q == s \div b
           o == s % b
<1>1. b \in Nat /\ b > 0 /\ s \in Int
  OBVIOUS
<1>2. q \in Int /\ o \in 0 .. b - 1 /\ s = b * q + o
  BY <1>1
<1> HIDE DEF q, o
<1>3. q < 0 => b * q <= -b
  BY <1>2
<1>4. q >= 0
  BY <1>2, <1>3
<1>5. q \in Nat
  BY <1>2, <1>4
<1>6. s = b * q + o /\ o \in 0 .. b - 1
  BY <1>2
<1> QED BY <1>5, <1>6 DEF q, o

LEMMA SplitBack ==
  ASSUME NEW b \in Nat \ {0}, NEW q \in Nat, NEW o \in 0 .. b - 1
  PROVE  (b * q + o) \div b = q /\ (b * q + o) % b = o
<1> DEFINE s == b * q + o
<1>1. b * q \in Nat
  OBVIOUS
<1>2. s \in Nat
  BY <1>1
<1> DEFINE p == s \div b
           u == s % b
<1>3. p \in Nat /\ u \in 0 .. b - 1 /\ s = b * p + u
  <2> HIDE DEF s
  <2> QED BY <1>2, Split
<1>4. p = q /\ u = o
  <2> HIDE DEF p, u
  <2>1. b * q + o = b * p + u /\ p \in Int /\ q \in Int
    BY <1>3
  <2> QED BY <1>3, <2>1, OneSplit
<1> QED BY <1>4

-----------------------------------------------------------------------------
(* Regions of the image, and the bytes they have.                          *)

Box == [bank : 0 .. 4 * N - 1, start : 0 .. BANK, end : 0 .. BANK]

Proper == {r \in Box : r.start <= r.end}

LEMMA ByteOf ==
  ASSUME NEW R, NEW b, NEW a
  PROVE  <<b, a>> \in Bytes(R) <=> \E r \in R : r.bank = b /\ a \in r.start .. r.end - 1
<1>1. \A r \in R : <<b, a>> \in {<<r.bank, c>> : c \in r.start .. r.end - 1}
                     <=> r.bank = b /\ a \in r.start .. r.end - 1
  OBVIOUS
<1> QED BY <1>1 DEF Bytes

LEMMA BytePairs ==
  ASSUME NEW R, NEW x \in Bytes(R)
  PROVE  x = <<x[1], x[2]>>
BY DEF Bytes

\* Two sets of bytes are one if they have the same addresses.
LEMMA SameBytes ==
  ASSUME NEW R, NEW S,
         \A b, a : <<b, a>> \in Bytes(R) <=> <<b, a>> \in Bytes(S)
  PROVE  Bytes(R) = Bytes(S)
<1>1. ASSUME NEW x \in Bytes(R) PROVE x \in Bytes(S)
  BY BytePairs
<1>2. ASSUME NEW x \in Bytes(S) PROVE x \in Bytes(R)
  BY BytePairs
<1> QED BY <1>1, <1>2

LEMMA BoxFinite == IsFiniteSet(Box)
<1> DEFINE X == 0 .. 4 * N - 1
           Y == 0 .. BANK
           P == (X \X Y) \X Y
           f == [p \in P |-> [bank |-> p[1][1], start |-> p[1][2], end |-> p[2]]]
<1>1. IsFiniteSet(X) /\ IsFiniteSet(Y)
  <2>1. 0 \in Int /\ 4 * N - 1 \in Int /\ BANK \in Int
    BY ImageAssumption, BankAssumption
  <2> QED BY <2>1, FS_Interval
<1>2. IsFiniteSet(P)
  <2> HIDE DEF X, Y
  <2> QED BY <1>1, FS_Product
<1>3. f \in [P -> Box]
  BY DEF Box
<1>4. ASSUME NEW r \in Box PROVE \E p \in P : f[p] = r
  <2> DEFINE p == <<<<r.bank, r.start>>, r.end>>
  <2>1. p \in P
    BY DEF Box
  <2>2. f[p] = [bank |-> r.bank, start |-> r.start, end |-> r.end]
    BY <2>1
  <2>3. r = [bank |-> r.bank, start |-> r.start, end |-> r.end]
    BY DEF Box
  <2> QED BY <2>1, <2>2, <2>3
<1>5. f \in Surjection(P, Box)
  <2> HIDE DEF f, P
  <2> QED BY <1>3, <1>4 DEF Surjection
<1> HIDE DEF f, P
<1> QED BY <1>2, <1>5, FS_Surjection

LEMMA Finite ==
  ASSUME NEW R \in SUBSET Box
  PROVE  IsFiniteSet(R) /\ Cardinality(R) \in Nat
BY BoxFinite, FS_Subset, FS_CardinalityType

-----------------------------------------------------------------------------
(* Regions joined in order lose no byte and invent none.                   *)

\* What merge makes of some regions: a list in order, no two of which touch,
\* that begin where some region begins and have the same bytes.
InOrder(m) ==
  \A i, j \in DOMAIN m : i < j =>
    m[i].bank < m[j].bank \/ (m[i].bank = m[j].bank /\ m[i].end < m[j].start)

BeginIn(m, S) == \A i \in DOMAIN m : \E s \in S : s.bank = m[i].bank /\ s.start = m[i].start

Joined(m, S) ==
  m \in Seq(Proper) /\ InOrder(m) /\ BeginIn(m, S) /\ Bytes(ValuesOf(m)) = Bytes(S)

LEMMA ProperTypes ==
  ASSUME NEW r \in Proper
  PROVE  /\ r = [bank |-> r.bank, start |-> r.start, end |-> r.end]
         /\ r.bank \in Nat /\ r.bank < 4 * N
         /\ r.start \in Nat /\ r.end \in Nat /\ r.start <= r.end /\ r.end <= BANK
         /\ r \in Region
<1>1. r \in Box /\ r.start <= r.end /\ BANK \in Nat /\ N \in Nat
  BY BankAssumption, ImageAssumption DEF Proper
<1>2. /\ r = [bank |-> r.bank, start |-> r.start, end |-> r.end]
      /\ r.bank \in 0 .. 4 * N - 1 /\ r.start \in 0 .. BANK /\ r.end \in 0 .. BANK
  BY <1>1 DEF Box
<1> HIDE DEF Proper
<1> QED BY <1>1, <1>2 DEF Region

\* The bytes of a list, by position.
LEMMA ByteAt ==
  ASSUME NEW m, NEW b, NEW a
  PROVE  <<b, a>> \in Bytes(ValuesOf(m)) <=>
           \E i \in DOMAIN m : m[i].bank = b /\ a \in m[i].start .. m[i].end - 1
<1>1. <<b, a>> \in Bytes(ValuesOf(m)) <=>
        \E r \in ValuesOf(m) : r.bank = b /\ a \in r.start .. r.end - 1
  BY ByteOf
<1> QED BY <1>1 DEF ValuesOf

\* A region behind the others of its list.
LEMMA JoinAppends ==
  ASSUME NEW S \in SUBSET Proper, NEW r \in Proper, NEW m, Joined(m, S),
         m # <<>> => \/ m[Len(m)].bank < r.bank
                     \/ m[Len(m)].bank = r.bank /\ m[Len(m)].end < r.start
  PROVE  Joined(Append(m, r), S \union {r})
<1> DEFINE n == Len(m)
           t == Append(m, r)
<1>1. m \in Seq(Proper) /\ n \in Nat /\ DOMAIN m = 1 .. n
  BY DEF Joined
<1>2. /\ t \in Seq(Proper) /\ DOMAIN t = 1 .. n + 1 /\ t[n + 1] = r
      /\ \A i \in 1 .. n : t[i] = m[i] /\ i \in DOMAIN m
  BY <1>1
<1> HIDE DEF n, t
<1>3. \A i \in DOMAIN t : t[i] \in Proper
  BY <1>1, <1>2
<1>4. InOrder(t)
  <2> SUFFICES ASSUME NEW i \in DOMAIN t, NEW j \in DOMAIN t, i < j
               PROVE  \/ t[i].bank < t[j].bank
                      \/ t[i].bank = t[j].bank /\ t[i].end < t[j].start
    BY DEF InOrder
  <2>1. i \in 1 .. n /\ j \in 1 .. n + 1 /\ t[i] = m[i] /\ m[i] \in Proper
    BY <1>1, <1>2
  <2>2. CASE j \in 1 .. n
    <3>1. t[j] = m[j] /\ j \in DOMAIN m /\ i \in DOMAIN m
      BY <1>2, <2>1, <2>2
    <3> QED BY <2>1, <3>1 DEF Joined, InOrder
  <2>3. CASE j = n + 1
    <3>1. n \in 1 .. n /\ n \in DOMAIN m /\ m # <<>> /\ t[j] = r /\ m[n] \in Proper
      BY <1>1, <1>2, <2>1, <2>3
    <3>2. m[n].bank < r.bank \/ (m[n].bank = r.bank /\ m[n].end < r.start)
      BY <3>1 DEF n
    <3>3. CASE i = n
      BY <2>1, <3>1, <3>2, <3>3
    <3>4. CASE i # n
      <4>1. i < n /\ i \in DOMAIN m
        BY <1>1, <2>1, <3>4
      <4>2. m[i].bank < m[n].bank \/ (m[i].bank = m[n].bank /\ m[i].end < m[n].start)
        BY <3>1, <4>1 DEF Joined, InOrder
      <4>3. /\ m[i].bank \in Nat /\ m[i].end \in Nat
            /\ m[n].bank \in Nat /\ m[n].start \in Nat /\ m[n].end \in Nat
            /\ m[n].start <= m[n].end /\ r.bank \in Nat /\ r.start \in Nat
        BY <2>1, <3>1, ProperTypes
      <4>4. m[i].bank < r.bank \/ (m[i].bank = r.bank /\ m[i].end < r.start)
        BY <3>2, <4>2, <4>3
      <4> QED BY <2>1, <3>1, <4>4
    <3> QED BY <3>3, <3>4
  <2> QED BY <1>1, <2>1, <2>2, <2>3
<1>5. BeginIn(t, S \union {r})
  <2> SUFFICES ASSUME NEW i \in DOMAIN t
               PROVE  \E s \in S \union {r} : s.bank = t[i].bank /\ s.start = t[i].start
    BY DEF BeginIn
  <2>1. CASE i \in 1 .. n
    BY <1>2, <2>1 DEF Joined, BeginIn
  <2>2. CASE i = n + 1
    BY <1>2, <2>2
  <2> QED BY <1>1, <1>2, <2>1, <2>2
<1>6. Bytes(ValuesOf(t)) = Bytes(S \union {r})
  <2>1. ASSUME NEW b, NEW a
        PROVE  <<b, a>> \in Bytes(ValuesOf(t)) <=> <<b, a>> \in Bytes(S \union {r})
    <3> DEFINE In(x) == x.bank = b /\ a \in x.start .. x.end - 1
    <3>1. <<b, a>> \in Bytes(ValuesOf(t)) <=> \E i \in DOMAIN t : In(t[i])
      BY ByteAt
    <3>2. <<b, a>> \in Bytes(S \union {r}) <=> \E s \in S \union {r} : In(s)
      BY ByteOf
    <3>3. (\E i \in DOMAIN m : In(m[i])) <=> \E s \in S : In(s)
      <4>1. <<b, a>> \in Bytes(ValuesOf(m)) <=> \E i \in DOMAIN m : In(m[i])
        BY ByteAt
      <4>2. <<b, a>> \in Bytes(S) <=> \E s \in S : In(s)
        BY ByteOf
      <4> QED BY <4>1, <4>2 DEF Joined
    <3> HIDE DEF In
    <3>4. (\E i \in DOMAIN t : In(t[i])) <=> (\E i \in DOMAIN m : In(m[i])) \/ In(r)
      <4>1. \A i \in DOMAIN t : i \in 1 .. n \/ i = n + 1
        BY <1>1, <1>2
      <4>2. n + 1 \in DOMAIN t /\ 1 .. n \subseteq DOMAIN t
        BY <1>1, <1>2
      <4> QED BY <1>1, <1>2, <4>1, <4>2
    <3> QED BY <3>1, <3>2, <3>3, <3>4
  <2> QED BY <2>1, SameBytes
<1> QED BY <1>2, <1>4, <1>5, <1>6 DEF Joined, t

\* A region that touches the last of the list.
LEMMA JoinExtends ==
  ASSUME NEW S \in SUBSET Proper, NEW r \in Proper, NEW m, Joined(m, S),
         m # <<>>, m[Len(m)].bank = r.bank, m[Len(m)].start <= r.start,
         m[Len(m)].end >= r.start,
         NEW e, e = IF m[Len(m)].end < r.end THEN r.end ELSE m[Len(m)].end
  PROVE  Joined([m EXCEPT ![Len(m)] = [@ EXCEPT !.end = e]], S \union {r})
<1> DEFINE n == Len(m)
           l == m[n]
           k == [bank |-> l.bank, start |-> l.start, end |-> e]
           t == [m EXCEPT ![n] = [@ EXCEPT !.end = e]]
<1>1. m \in Seq(Proper) /\ n \in Nat /\ DOMAIN m = 1 .. n /\ n \in 1 .. n
  BY DEF Joined
<1>2. l \in Proper
  BY <1>1
<1>3. /\ l.bank \in Nat /\ l.start \in Nat /\ l.end \in Nat /\ l.start <= l.end
      /\ l.end <= BANK /\ r.start \in Nat /\ r.end \in Nat /\ r.start <= r.end
      /\ r.end <= BANK /\ l.bank = r.bank /\ l.start <= r.start /\ r.start <= l.end
      /\ e = IF l.end < r.end THEN r.end ELSE l.end
  BY <1>2, ProperTypes, Zenon
<1>4. e \in Nat /\ l.end <= e /\ r.end <= e /\ l.start <= e /\ e <= BANK
      /\ (e = l.end \/ e = r.end)
  BY <1>3
<1>5. k \in Proper /\ [l EXCEPT !.end = e] = k
  <2>1. l \in Box
    BY <1>2 DEF Proper
  <2>2. [l EXCEPT !.end = e] = k
    BY <2>1 DEF Box
  <2>3. e \in 0 .. BANK
    BY <1>4, BankAssumption
  <2>4. k \in Box
    BY <2>1, <2>3 DEF Box
  <2> QED BY <1>4, <2>2, <2>4 DEF Proper
<1>6. t = [m EXCEPT ![n] = k]
  BY <1>1, <1>5
<1>7. k.bank = l.bank /\ k.start = l.start /\ k.end = e
  OBVIOUS
<1> HIDE DEF k
<1>8. /\ t \in Seq(Proper) /\ DOMAIN t = 1 .. n /\ t[n] = k
      /\ \A i \in 1 .. n : i # n => t[i] = m[i]
  BY <1>1, <1>5, <1>6
<1> HIDE DEF t
<1>9. InOrder(t)
  <2> SUFFICES ASSUME NEW i \in DOMAIN t, NEW j \in DOMAIN t, i < j
               PROVE  \/ t[i].bank < t[j].bank
                      \/ t[i].bank = t[j].bank /\ t[i].end < t[j].start
    BY DEF InOrder
  <2>1. i \in 1 .. n /\ j \in 1 .. n /\ i # n /\ i \in DOMAIN m /\ j \in DOMAIN m
    <3> HIDE DEF n
    <3>1. i \in 1 .. n /\ j \in 1 .. n /\ i \in DOMAIN m /\ j \in DOMAIN m
      BY <1>1, <1>8
    <3>2. i # n
      BY <1>1, <3>1
    <3> QED BY <3>1, <3>2
  <2>2. m[i].bank < m[j].bank \/ (m[i].bank = m[j].bank /\ m[i].end < m[j].start)
    BY <2>1 DEF Joined, InOrder
  <2>3. t[i] = m[i] /\ t[j].bank = m[j].bank /\ t[j].start = m[j].start
    <3>1. CASE j = n
      BY <1>7, <1>8, <2>1, <3>1
    <3>2. CASE j # n
      BY <1>8, <2>1, <3>2
    <3> QED BY <1>8, <2>1, <3>1, <3>2
  <2> QED BY <2>2, <2>3
<1>10. BeginIn(t, S \union {r})
  <2> SUFFICES ASSUME NEW i \in DOMAIN t
               PROVE  \E s \in S \union {r} : s.bank = t[i].bank /\ s.start = t[i].start
    BY DEF BeginIn
  <2>1. i \in DOMAIN m /\ t[i].bank = m[i].bank /\ t[i].start = m[i].start
    <3>1. CASE i = n
      BY <1>1, <1>7, <1>8, <3>1
    <3>2. CASE i # n
      BY <1>1, <1>8, <3>2
    <3> QED BY <3>1, <3>2
  <2>2. \E s \in S : s.bank = m[i].bank /\ s.start = m[i].start
    BY <2>1 DEF Joined, BeginIn
  <2> QED BY <2>1, <2>2
<1>11. Bytes(ValuesOf(t)) = Bytes(S \union {r})
  <2>1. ASSUME NEW b, NEW a
        PROVE  <<b, a>> \in Bytes(ValuesOf(t)) <=> <<b, a>> \in Bytes(S \union {r})
    <3> DEFINE In(x) == x.bank = b /\ a \in x.start .. x.end - 1
    <3>1. <<b, a>> \in Bytes(ValuesOf(t)) <=> \E i \in DOMAIN t : In(t[i])
      BY ByteAt
    <3>2. <<b, a>> \in Bytes(S \union {r}) <=> \E s \in S \union {r} : In(s)
      BY ByteOf
    <3>3. (\E i \in DOMAIN m : In(m[i])) <=> \E s \in S : In(s)
      <4>1. <<b, a>> \in Bytes(ValuesOf(m)) <=> \E i \in DOMAIN m : In(m[i])
        BY ByteAt
      <4>2. <<b, a>> \in Bytes(S) <=> \E s \in S : In(s)
        BY ByteOf
      <4> QED BY <4>1, <4>2 DEF Joined
    <3>4. In(k) <=> In(l) \/ In(r)
      BY <1>3, <1>4, <1>7
    <3> HIDE DEF In
    <3>5. (\E i \in DOMAIN t : In(t[i])) <=> (\E i \in DOMAIN m : In(m[i])) \/ In(r)
      <4>1. ASSUME NEW i \in DOMAIN t, In(t[i])
            PROVE  (\E x \in DOMAIN m : In(m[x])) \/ In(r)
        BY <1>1, <1>8, <3>4, <4>1
      <4>2. ASSUME NEW i \in DOMAIN m, In(m[i])
            PROVE  \E x \in DOMAIN t : In(t[x])
        BY <1>1, <1>8, <3>4, <4>2
      <4>3. In(r) => In(t[n]) /\ n \in DOMAIN t
        BY <1>1, <1>8, <3>4
      <4> QED BY <4>1, <4>2, <4>3
    <3> QED BY <3>1, <3>2, <3>3, <3>5
  <2> QED BY <2>1, SameBytes
<1> QED BY <1>8, <1>9, <1>10, <1>11 DEF Joined, t

\* So a region later than the others joins them.
LEMMA JoinStep ==
  ASSUME NEW S \in SUBSET Proper, NEW r \in Proper, NEW m, Joined(m, S),
         \A s \in S : ~Before(r, s)
  PROVE  Joined(Join(m, r), S \union {r})
<1> DEFINE n == Len(m)
           l == m[n]
           Touches == l.bank = r.bank /\ l.end >= r.start
<1>1. Last(m) = l
  BY DEF Last
<1>2. m \in Seq(Proper)
  BY DEF Joined
<1>3. ASSUME m # <<>>
      PROVE  /\ l \in Proper
             /\ l.bank < r.bank \/ (l.bank = r.bank /\ l.start <= r.start)
  <2>1. n \in DOMAIN m /\ l \in Proper
    BY <1>2, <1>3
  <2>2. PICK s \in S : s.bank = l.bank /\ s.start = l.start
    BY <2>1 DEF Joined, BeginIn
  <2>3. ~Before(r, s)
    OBVIOUS
  <2>4. /\ l.bank \in Nat /\ l.start \in Nat /\ r.bank \in Nat /\ r.start \in Nat
    BY <2>1, ProperTypes
  <2> HIDE DEF l
  <2>5. l.bank < r.bank \/ (l.bank = r.bank /\ l.start <= r.start)
    BY <2>2, <2>3, <2>4 DEF Before
  <2> QED BY <2>1, <2>5 DEF l
<1>4. CASE m # <<>> /\ Touches
  <2>1. /\ l.bank = r.bank /\ l.start <= r.start /\ l.end >= r.start
    <3>1. l.bank \in Nat /\ r.bank \in Nat
      BY <1>3, <1>4, ProperTypes
    <3> HIDE DEF l
    <3> QED BY <1>3, <1>4, <3>1
  <2>2. Join(m, r) = [m EXCEPT ![n].end = IF @ < r.end THEN r.end ELSE @]
    BY <1>1, <1>4, Zenon DEF Join
  <2> DEFINE e == IF l.end < r.end THEN r.end ELSE l.end
  <2>4. Join(m, r) = [m EXCEPT ![n] = [@ EXCEPT !.end = e]]
    BY <2>2, Zenon
  <2>5. e = IF m[Len(m)].end < r.end THEN r.end ELSE m[Len(m)].end
    OBVIOUS
  <2> HIDE DEF e
  <2>6. Joined([m EXCEPT ![Len(m)] = [@ EXCEPT !.end = e]], S \union {r})
    BY <1>4, <2>1, <2>5, JoinExtends, Zenon
  <2> QED BY <2>4, <2>6, Zenon
<1>5. CASE ~(m # <<>> /\ Touches)
  <2>1. Join(m, r) = Append(m, r)
    BY <1>1, <1>5 DEF Join
  <2>2. ASSUME m # <<>>
        PROVE  l.bank < r.bank \/ (l.bank = r.bank /\ l.end < r.start)
    <3>1. l.bank \in Nat /\ r.bank \in Nat /\ l.end \in Nat /\ r.start \in Nat
      BY <1>3, <2>2, ProperTypes
    <3>2. ~Touches
      BY <1>5, <2>2
    <3> HIDE DEF l
    <3> QED BY <1>3, <2>2, <3>1, <3>2
  <2> QED BY <2>1, <2>2, JoinAppends
<1> QED BY <1>4, <1>5

\* The least number of a set, which the inductions below start from.
LEMMA LeastNat ==
  ASSUME NEW T \in SUBSET Nat, T # {}
  PROVE  \E n \in T : \A m \in T : n <= m
<1> DEFINE R == {p \in Nat \X Nat : p[1] < p[2]}
<1>1. IsWellFoundedOn(R, Nat)
  BY NatLessThanWellFounded DEF OpToRel
<1>2. PICK n \in T : \A m \in T : ~ (<<m, n>> \in R)
  <2> HIDE DEF R
  <2> QED BY <1>1, WFMin
<1>3. ASSUME NEW m \in T PROVE n <= m
  <2>1. m \in Nat /\ n \in Nat /\ <<m, n>> \notin R
    BY <1>2
  <2>2. ~(m < n)
    BY <2>1
  <2> QED BY <2>1, <2>2
<1> QED BY <1>3

\* Of any regions one is sorted last.
LEMMA LatestFound ==
  ASSUME NEW S \in SUBSET Proper, S # {}
  PROVE  Latest(S) \in S /\ \A s \in S : ~Before(Latest(S), s)
<1> DEFINE A == {4 * N - s.bank : s \in S}
<1>1. N \in Nat /\ BANK \in Nat
  BY ImageAssumption, BankAssumption
<1>2. ASSUME NEW s \in S
      PROVE  /\ s.bank \in Nat /\ 4 * N - s.bank \in Nat
             /\ s.start \in Nat /\ BANK - s.start \in Nat
  <2>1. s \in Proper
    OBVIOUS
  <2>2. s.bank \in Nat /\ s.bank < 4 * N /\ s.start \in Nat /\ s.end \in Nat
        /\ s.start <= s.end /\ s.end <= BANK
    BY <2>1, ProperTypes
  <2> QED BY <1>1, <2>2
<1>3. PICK a \in A : \A b \in A : a <= b
  <2>1. A \in SUBSET Nat /\ A # {}
    BY <1>2
  <2> HIDE DEF A
  <2> QED BY <2>1, LeastNat
<1> DEFINE B == {BANK - s.start : s \in {t \in S : 4 * N - t.bank = a}}
<1>4. PICK b \in B : \A c \in B : b <= c
  <2>1. B \in SUBSET Nat /\ B # {}
    BY <1>2, <1>3
  <2> HIDE DEF B
  <2> QED BY <2>1, LeastNat
<1>5. PICK r \in S : 4 * N - r.bank = a /\ BANK - r.start = b
  BY <1>4
<1>6. ASSUME NEW s \in S PROVE ~Before(r, s)
  <2>1. a <= 4 * N - s.bank
    BY <1>3
  <2>2. 4 * N - s.bank = a => b <= BANK - s.start
    BY <1>4
  <2>3. /\ s.bank \in Nat /\ s.start \in Nat /\ r.bank \in Nat /\ r.start \in Nat
    BY <1>2
  <2> QED BY <1>1, <1>5, <2>1, <2>2, <2>3 DEF Before
<1> HIDE DEF A, B
<1>7. r \in S /\ \A s \in S : ~Before(r, s)
  BY <1>6
<1> QED BY <1>7, Zenon DEF Latest

\* Merge is a recursive function over the sets of regions.
MergeStep(f, S) == IF S = {} THEN <<>> ELSE Join(f[S \ {Latest(S)}], Latest(S))
MergeBody(R, f) == [S \in SUBSET R |-> MergeStep(f, S)]
MergeOf(R) == CHOOSE f : f = MergeBody(R, f)

\* Each step takes one region away.
LEMMA OneLess ==
  ASSUME NEW S \in SUBSET Proper, S # {}
  PROVE  /\ Latest(S) \in S
         /\ Cardinality(S) \in Nat /\ Cardinality(S \ {Latest(S)}) \in Nat
         /\ Cardinality(S \ {Latest(S)}) < Cardinality(S)
<1>1. Latest(S) \in S
  BY LatestFound
<1>2. IsFiniteSet(S) /\ Cardinality(S) \in Nat
  BY Finite DEF Proper
<1>3. IsFiniteSet(S \ {Latest(S)})
      /\ Cardinality(S \ {Latest(S)}) = Cardinality(S) - 1
  BY <1>1, <1>2, FS_RemoveElement
<1>4. Cardinality(S \ {Latest(S)}) \in Nat
  BY <1>3, FS_CardinalityType
<1> QED BY <1>1, <1>2, <1>3, <1>4

LEMMA MergeExists ==
  ASSUME NEW R \in SUBSET Proper
  PROVE  \E f : f = MergeBody(R, f)
<1> DEFINE Upto(f, n) ==
             /\ f = [S \in SUBSET R |-> f[S]]
             /\ \A S \in SUBSET R : Cardinality(S) <= n => f[S] = MergeStep(f, S)
           T == {n \in Nat : ~\E f : Upto(f, n)}
<1>1. \A S \in SUBSET R : S \in SUBSET Proper /\ Cardinality(S) \in Nat
  BY Finite DEF Proper
<1>2. ASSUME NEW f, NEW n \in Nat, f = [S \in SUBSET R |-> f[S]],
             \A S \in SUBSET R : Cardinality(S) < n => f[S] = MergeStep(f, S)
      PROVE  \E g : Upto(g, n)
  <2> DEFINE g == [S \in SUBSET R |-> MergeStep(f, S)]
  <2>1. g = [S \in SUBSET R |-> g[S]] /\ \A S \in SUBSET R : g[S] = MergeStep(f, S)
    OBVIOUS
  <2> HIDE DEF g
  <2>2. ASSUME NEW S \in SUBSET R, Cardinality(S) <= n
        PROVE  g[S] = MergeStep(g, S)
    <3>1. CASE S = {}
      BY <2>1, <3>1 DEF MergeStep
    <3>2. CASE S # {}
      <4>1. Cardinality(S \ {Latest(S)}) < n
        <5>1. Cardinality(S \ {Latest(S)}) \in Nat
              /\ Cardinality(S \ {Latest(S)}) < Cardinality(S) /\ Cardinality(S) \in Nat
          BY <1>1, <3>2, OneLess
        <5> QED BY <2>2, <5>1
      <4>2. S \ {Latest(S)} \in SUBSET R
        OBVIOUS
      <4>3. f[S \ {Latest(S)}] = g[S \ {Latest(S)}]
        BY <1>2, <2>1, <4>1, <4>2
      <4>4. MergeStep(f, S) = MergeStep(g, S)
        BY <4>3 DEF MergeStep
      <4> QED BY <2>1, <4>4
    <3> QED BY <3>1, <3>2
  <2> QED BY <2>1, <2>2
<1>3. T = {}
  <2> SUFFICES ASSUME T # {} PROVE FALSE
    OBVIOUS
  <2>1. PICK n \in T : \A m \in T : n <= m
    <3>1. T \in SUBSET Nat
      OBVIOUS
    <3> HIDE DEF T
    <3> QED BY <3>1, LeastNat
  <2>2. \E f : /\ f = [S \in SUBSET R |-> f[S]]
               /\ \A S \in SUBSET R : Cardinality(S) < n => f[S] = MergeStep(f, S)
    <3>1. CASE n = 0
      <4> DEFINE f == [S \in SUBSET R |-> <<>>]
      <4>1. f = [S \in SUBSET R |-> f[S]]
        OBVIOUS
      <4>2. \A S \in SUBSET R : ~(Cardinality(S) < n)
        BY <1>1, <3>1
      <4> HIDE DEF f
      <4> QED BY <4>1, <4>2
    <3>2. CASE n # 0
      <4>1. n - 1 \in Nat /\ n - 1 \notin T
        <5>1. n \in Nat /\ n - 1 \in Nat
          BY <3>2
        <5> HIDE DEF T
        <5> QED BY <2>1, <5>1
      <4>2. PICK f : Upto(f, n - 1)
        BY <4>1
      <4>3. \A S \in SUBSET R : Cardinality(S) < n => Cardinality(S) <= n - 1
        BY <1>1, <4>1
      <4> QED BY <4>2, <4>3
    <3> QED BY <3>1, <3>2
  <2>3. \E f : Upto(f, n)
    BY <1>2, <2>2
  <2> QED BY <2>1, <2>3
<1>4. Cardinality(R) \in Nat /\ IsFiniteSet(R)
  BY Finite DEF Proper
<1>5. PICK f : Upto(f, Cardinality(R))
  BY <1>3, <1>4
<1>6. \A S \in SUBSET R : Cardinality(S) <= Cardinality(R)
  BY <1>4, FS_Subset
<1>7. f = [S \in SUBSET R |-> MergeStep(f, S)]
  <2>1. \A S \in SUBSET R : f[S] = MergeStep(f, S)
    BY <1>5, <1>6
  <2>2. f = [S \in SUBSET R |-> f[S]]
    BY <1>5
  <2> QED BY <2>1, <2>2
<1> QED BY <1>7 DEF MergeBody

LEMMA MergeEquation ==
  ASSUME NEW R \in SUBSET Proper
  PROVE  /\ Merge(R) = MergeOf(R)[R]
         /\ \A S \in SUBSET R : MergeOf(R)[S] = MergeStep(MergeOf(R), S)
<1>1. Merge(R) = MergeOf(R)[R]
  BY Zenon DEF Merge, MergeOf, MergeBody, MergeStep
<1>2. MergeOf(R) = MergeBody(R, MergeOf(R))
  <2> DEFINE F(f) == MergeBody(R, f)
  <2>1. \E f : f = F(f)
    BY MergeExists
  <2>2. (CHOOSE f : f = F(f)) = F(CHOOSE f : f = F(f))
    <3> HIDE DEF F
    <3> QED BY <2>1, Zenon
  <2> QED BY <2>2, Zenon DEF MergeOf
<1> DEFINE g == MergeOf(R)
<1>3. g = MergeBody(R, g)
  BY <1>2
<1> HIDE DEF g
<1>4. \A S \in SUBSET R : g[S] = MergeStep(g, S)
  <2>1. \A S \in SUBSET R : MergeBody(R, g)[S] = MergeStep(g, S)
    BY Zenon DEF MergeBody
  <2> QED BY <1>3, <2>1
<1> QED BY <1>1, <1>4 DEF g

\* merge keeps the bytes, sorts and leaves no two regions that touch.
LEMMA MergeJoins ==
  ASSUME NEW R \in SUBSET Proper
  PROVE  Joined(Merge(R), R)
<1> DEFINE g == MergeOf(R)
           T == {n \in Nat : \E S \in SUBSET R : Cardinality(S) = n /\ ~Joined(g[S], S)}
<1>1. \A S \in SUBSET R : S \in SUBSET Proper /\ Cardinality(S) \in Nat
  BY Finite DEF Proper
<1>2. \A S \in SUBSET R : g[S] = MergeStep(g, S)
  BY MergeEquation
<1>3. Merge(R) = g[R]
  BY MergeEquation
<1> HIDE DEF g
<1>4. T = {}
  <2> SUFFICES ASSUME T # {} PROVE FALSE
    OBVIOUS
  <2>1. PICK n \in T : \A m \in T : n <= m
    <3>1. T \in SUBSET Nat
      OBVIOUS
    <3> HIDE DEF T
    <3> QED BY <3>1, LeastNat
  <2>2. PICK S \in SUBSET R : Cardinality(S) = n /\ ~Joined(g[S], S)
    BY <2>1
  <2>3. CASE S = {}
    <3>1. g[S] = <<>>
      BY <1>2, <2>3 DEF MergeStep
    <3>2. Bytes(ValuesOf(<<>>)) = Bytes({})
      BY DEF Bytes, ValuesOf
    <3>3. Joined(<<>>, {})
      BY <3>2 DEF Joined, InOrder, BeginIn
    <3> QED BY <2>2, <2>3, <3>1, <3>3
  <2>4. CASE S # {}
    <3> DEFINE r == Latest(S)
               U == S \ {r}
    <3>1. /\ r \in S /\ Cardinality(U) \in Nat /\ Cardinality(U) < n
          /\ \A s \in S : ~Before(r, s)
      BY <1>1, <2>2, <2>4, OneLess, LatestFound
    <3>2. Joined(g[U], U)
      <4>1. Cardinality(U) \notin T
        <5>1. n \in Nat
          OBVIOUS
        <5> HIDE DEF T, U, r
        <5> QED BY <2>1, <3>1, <5>1
      <4>2. U \in SUBSET R
        OBVIOUS
      <4> QED BY <3>1, <4>1, <4>2
    <3>3. g[S] = Join(g[U], r)
      BY <1>2, <2>4 DEF MergeStep
    <3>4. /\ U \in SUBSET Proper /\ r \in Proper /\ U \union {r} = S
          /\ \A s \in U : ~Before(r, s)
      BY <1>1, <3>1
    <3> HIDE DEF r, U
    <3>5. Joined(Join(g[U], r), U \union {r})
      BY <3>2, <3>4, JoinStep
    <3> QED BY <2>2, <3>3, <3>4, <3>5
  <2> QED BY <2>3, <2>4
<1>5. Joined(g[R], R)
  <2>1. R \in SUBSET R /\ Cardinality(R) \in Nat
    BY <1>1
  <2> QED BY <1>4, <2>1
<1> QED BY <1>3, <1>5

\* So the allocator gets what it asks for.
LEMMA JoinedMerged ==
  ASSUME NEW m, NEW S, Joined(m, S)
  PROVE  m \in Seq(Region) /\ Merged(m)
<1>1. m \in Seq(Proper) /\ DOMAIN m = 1 .. Len(m) /\ Len(m) \in Nat
  BY DEF Joined
<1>2. ASSUME NEW i \in DOMAIN m
      PROVE  /\ m[i] \in Region /\ m[i].bank \in Nat /\ m[i].start \in Nat
             /\ m[i].end \in Nat /\ m[i].start <= m[i].end /\ m[i].end <= BANK
  <2>1. m[i] \in Proper
    BY <1>1
  <2> QED BY <2>1, ProperTypes
<1>3. m \in Seq(Region)
  BY <1>1, <1>2
<1>4. ASSUME NEW i \in DOMAIN m, NEW j \in DOMAIN m, i # j
      PROVE  Apart(m[i], m[j])
  <2>1. i < j \/ j < i
    BY <1>1, <1>4
  <2>2. i < j => m[i].bank < m[j].bank \/ (m[i].bank = m[j].bank /\ m[i].end < m[j].start)
    BY DEF Joined, InOrder
  <2>3. j < i => m[j].bank < m[i].bank \/ (m[j].bank = m[i].bank /\ m[j].end < m[i].start)
    BY DEF Joined, InOrder
  <2>4. /\ m[i].bank \in Nat /\ m[i].start \in Nat /\ m[i].end \in Nat
        /\ m[j].bank \in Nat /\ m[j].start \in Nat /\ m[j].end \in Nat
    BY <1>2
  <2>5. CASE m[i].bank < m[j].bank \/ m[j].bank < m[i].bank
    BY <2>4, <2>5 DEF Apart
  <2>6. CASE ~(m[i].bank < m[j].bank \/ m[j].bank < m[i].bank)
    BY <2>1, <2>2, <2>3, <2>4, <2>6 DEF Apart
  <2> QED BY <2>5, <2>6
<1> QED BY <1>2, <1>3, <1>4 DEF Merged

-----------------------------------------------------------------------------
(* Cutting holes out of regions takes exactly their bytes.                 *)

Hole == {h \in Region : h.start <= h.end}

LEMMA BytesWithout ==
  ASSUME NEW R, NEW S, NEW T,
         \A b, a : <<b, a>> \in Bytes(R) <=> <<b, a>> \in Bytes(S) /\ <<b, a>> \notin Bytes(T)
  PROVE  Bytes(R) = Bytes(S) \ Bytes(T)
<1>1. ASSUME NEW x \in Bytes(R) PROVE x \in Bytes(S) \ Bytes(T)
  BY BytePairs
<1>2. ASSUME NEW x \in Bytes(S) \ Bytes(T) PROVE x \in Bytes(R)
  <2>1. x = <<x[1], x[2]>>
    BY <1>2, BytePairs
  <2> QED BY <1>2, <2>1
<1> QED BY <1>1, <1>2

\* The two pieces beside a hole.
LEMMA CutPieces ==
  ASSUME NEW p \in Proper, NEW h \in Hole
  PROVE  /\ Cut(p, h) \subseteq Proper
         /\ \A b, a : (\E r \in Cut(p, h) : r.bank = b /\ a \in r.start .. r.end - 1) <=>
                        /\ p.bank = b /\ a \in p.start .. p.end - 1
                        /\ ~(h.bank = b /\ a \in h.start .. h.end - 1)
<1> DEFINE below == [bank |-> p.bank, start |-> p.start, end |-> h.start]
           above == [bank |-> p.bank, start |-> h.end, end |-> p.end]
           Missed == \/ h.bank # p.bank \/ h.end <= p.start \/ h.start >= p.end
<1>1. /\ p = [bank |-> p.bank, start |-> p.start, end |-> p.end]
      /\ p.bank \in Nat /\ p.start \in Nat /\ p.end \in Nat /\ p.start <= p.end
      /\ p.end <= BANK
  BY ProperTypes
<1>2. h.bank \in Nat /\ h.start \in Nat /\ h.end \in Nat /\ h.start <= h.end
  BY DEF Hole, Region
<1>3. [p EXCEPT !.end = h.start] = below /\ [p EXCEPT !.start = h.end] = above
  <2>1. p \in Box
    BY DEF Proper
  <2> QED BY <2>1 DEF Box
<1>4. CASE Missed
  <2>1. Cut(p, h) = {p}
    BY <1>4, Zenon DEF Cut
  <2>2. ASSUME NEW b, NEW a, p.bank = b, a \in p.start .. p.end - 1,
               h.bank = b, a \in h.start .. h.end - 1
        PROVE  FALSE
    BY <1>1, <1>2, <1>4, <2>2
  <2> QED BY <2>1, <2>2
<1>5. CASE ~Missed
  <2>1. Cut(p, h) = {r \in {below, above} : r.start < r.end}
    BY <1>3, <1>5, Zenon DEF Cut
  <2>2. h.bank = p.bank /\ p.start < h.end /\ h.start < p.end
    BY <1>1, <1>2, <1>5
  <2>3. ASSUME NEW r \in Cut(p, h) PROVE r \in Proper
    <3>1. p \in Box /\ BANK \in Nat
      BY BankAssumption DEF Proper
    <3>2. CASE r = below
      <4>1. below.start < below.end /\ h.start \in 0 .. BANK
        BY <1>1, <1>2, <2>1, <2>2, <2>3, <3>1, <3>2
      <4>2. below \in Box
        BY <3>1, <4>1 DEF Box
      <4>3. below.start <= below.end
        BY <1>1, <1>2, <4>1
      <4> QED BY <3>2, <4>2, <4>3 DEF Proper
    <3>3. CASE r = above
      <4>1. above.start < above.end
        BY <2>1, <2>3, <3>3
      <4>2. h.end < p.end
        BY <4>1
      <4>3. h.end \in 0 .. BANK
        BY <1>1, <1>2, <3>1, <4>2
      <4>4. above \in Box
        BY <3>1, <4>3 DEF Box
      <4>5. above.start <= above.end
        BY <1>1, <1>2, <4>1
      <4> QED BY <3>3, <4>4, <4>5 DEF Proper
    <3> QED BY <2>1, <2>3, <3>2, <3>3
  <2>4. ASSUME NEW b, NEW a
        PROVE  (\E r \in Cut(p, h) : r.bank = b /\ a \in r.start .. r.end - 1) <=>
                 /\ p.bank = b /\ a \in p.start .. p.end - 1
                 /\ ~(h.bank = b /\ a \in h.start .. h.end - 1)
    <3> DEFINE In(r) == r.bank = b /\ a \in r.start .. r.end - 1
    <3>1. (\E r \in Cut(p, h) : In(r)) <=>
            \/ below.start < below.end /\ In(below)
            \/ above.start < above.end /\ In(above)
      <4> HIDE DEF In, below, above
      <4> QED BY <2>1
    <3>2. below.start < below.end /\ In(below) <=>
            p.bank = b /\ p.start < h.start /\ a \in p.start .. h.start - 1
      OBVIOUS
    <3>3. above.start < above.end /\ In(above) <=>
            p.bank = b /\ h.end < p.end /\ a \in h.end .. p.end - 1
      OBVIOUS
    <3>4. ASSUME a \in Int
          PROVE  (p.start < h.start /\ a \in p.start .. h.start - 1)
                   \/ (h.end < p.end /\ a \in h.end .. p.end - 1)
                 <=> a \in p.start .. p.end - 1 /\ ~(a \in h.start .. h.end - 1)
      BY <1>1, <1>2, <2>2, <3>4
    <3>5. CASE a \in Int
      <4> HIDE DEF In, below, above
      <4>1. (\E r \in Cut(p, h) : In(r)) <=>
              p.bank = b /\ a \in p.start .. p.end - 1 /\ ~(a \in h.start .. h.end - 1)
        BY <3>1, <3>2, <3>3, <3>4, <3>5
      <4> QED BY <2>2, <4>1 DEF In
    <3>6. CASE a \notin Int
      BY <1>1, <1>2, <3>1, <3>2, <3>3, <3>6
    <3> QED BY <3>5, <3>6
  <2> QED BY <2>3, <2>4
<1> QED BY <1>4, <1>5

CutAll(S, h) == UNION {Cut(p, h) : p \in S}

LEMMA CutBytes ==
  ASSUME NEW S \in SUBSET Proper, NEW h \in Hole
  PROVE  CutAll(S, h) \in SUBSET Proper /\ Bytes(CutAll(S, h)) = Bytes(S) \ Bytes({h})
<1>1. \A p \in S : Cut(p, h) \subseteq Proper
  BY CutPieces
<1>2. ASSUME NEW b, NEW a
      PROVE  <<b, a>> \in Bytes(CutAll(S, h)) <=>
               <<b, a>> \in Bytes(S) /\ <<b, a>> \notin Bytes({h})
  <2> DEFINE In(r) == r.bank = b /\ a \in r.start .. r.end - 1
  <2>1. <<b, a>> \in Bytes(CutAll(S, h)) <=> \E r \in CutAll(S, h) : In(r)
    BY ByteOf
  <2>2. <<b, a>> \in Bytes(S) <=> \E p \in S : In(p)
    BY ByteOf
  <2>3. <<b, a>> \in Bytes({h}) <=> In(h)
    <3>1. <<b, a>> \in Bytes({h}) <=> \E r \in {h} : In(r)
      BY ByteOf
    <3> HIDE DEF In
    <3> QED BY <3>1
  <2>4. ASSUME NEW p \in S
        PROVE  (\E r \in Cut(p, h) : In(r)) <=> In(p) /\ ~In(h)
    <3>1. p \in Proper
      OBVIOUS
    <3>2. \A c, d : (\E r \in Cut(p, h) : r.bank = c /\ d \in r.start .. r.end - 1) <=>
                     /\ p.bank = c /\ d \in p.start .. p.end - 1
                     /\ ~(h.bank = c /\ d \in h.start .. h.end - 1)
      BY <3>1, CutPieces, Zenon
    <3>3. (\E r \in Cut(p, h) : r.bank = b /\ a \in r.start .. r.end - 1) <=>
            /\ p.bank = b /\ a \in p.start .. p.end - 1
            /\ ~(h.bank = b /\ a \in h.start .. h.end - 1)
      BY <3>2, Zenon
    <3> QED BY <3>3, Zenon
  <2> HIDE DEF In
  <2>5. (\E r \in CutAll(S, h) : In(r)) <=> \E p \in S : \E r \in Cut(p, h) : In(r)
    BY DEF CutAll
  <2> QED BY <2>1, <2>2, <2>3, <2>4, <2>5
<1>3. CutAll(S, h) \in SUBSET Proper
  BY <1>1 DEF CutAll
<1>4. Bytes(CutAll(S, h)) = Bytes(S) \ Bytes({h})
  BY <1>2, BytesWithout, Zenon
<1> QED BY <1>3, <1>4

\* Subtract is a recursive function over the holes.
LeftBody(R, H, f) == [n \in 0 .. Len(H) |-> IF n = 0 THEN R ELSE CutAll(f[n - 1], H[n])]
LeftOf(R, H) == CHOOSE f : f = LeftBody(R, H, f)

LEMMA LeftExists ==
  ASSUME NEW R, NEW H, Len(H) \in Nat
  PROVE  \E f : f = LeftBody(R, H, f)
<1> DEFINE M == Len(H)
           Upto(f, n) == /\ f = [m \in 0 .. M |-> f[m]]
                         /\ \A m \in 0 .. n : f[m] = IF m = 0 THEN R ELSE CutAll(f[m - 1], H[m])
           T == {n \in 0 .. M : ~\E f : Upto(f, n)}
<1>1. T = {}
  <2> SUFFICES ASSUME T # {} PROVE FALSE
    OBVIOUS
  <2>1. T \in SUBSET Nat
    OBVIOUS
  <2>2. PICK n \in T : \A m \in T : n <= m
    <3> HIDE DEF T
    <3> QED BY <2>1, LeastNat
  <2>3. n \in 0 .. M /\ M \in Nat
    OBVIOUS
  <2>4. CASE n = 0
    <3> DEFINE g == [m \in 0 .. M |-> R]
    <3>1. g = [m \in 0 .. M |-> g[m]] /\ g[0] = R
      BY <2>3
    <3>2. Upto(g, 0)
      BY <3>1
    <3> QED BY <2>2, <2>4, <3>2
  <2>5. CASE n > 0
    <3>1. n - 1 \in 0 .. M /\ n - 1 \notin T
      <4>1. n - 1 \in 0 .. M
        BY <2>3, <2>5
      <4> HIDE DEF T, M
      <4> QED BY <2>2, <2>3, <4>1
    <3>2. PICK f : Upto(f, n - 1)
      BY <3>1
    <3> DEFINE w == CutAll(f[n - 1], H[n])
               g == [m \in 0 .. M |-> IF m = n THEN w ELSE f[m]]
    <3>3. \A m \in 0 .. M : g[m] = IF m = n THEN w ELSE f[m]
      OBVIOUS
    <3>4. g = [m \in 0 .. M |-> g[m]]
      OBVIOUS
    <3> HIDE DEF w, g
    <3>5. ASSUME NEW m \in 0 .. n PROVE g[m] = IF m = 0 THEN R ELSE CutAll(g[m - 1], H[m])
      <4>1. CASE m = n
        <5>1. g[n] = w /\ g[n - 1] = f[n - 1]
          BY <2>3, <2>5, <3>1, <3>3
        <5>2. w = CutAll(g[n - 1], H[n])
          BY <5>1 DEF w
        <5> QED BY <2>5, <4>1, <5>1, <5>2
      <4>2. CASE m # n
        <5>1. m \in 0 .. n - 1 /\ m \in 0 .. M
          BY <2>3, <4>2
        <5>2. g[m] = f[m] /\ (m # 0 => g[m - 1] = f[m - 1])
          <6>1. m # 0 => m - 1 \in 0 .. M /\ m - 1 # n
            BY <2>3, <5>1
          <6>2. m # n
            BY <4>2
          <6> HIDE DEF M
          <6> QED BY <3>3, <5>1, <6>1, <6>2
        <5>3. f[m] = IF m = 0 THEN R ELSE CutAll(f[m - 1], H[m])
          BY <3>2, <5>1
        <5> QED BY <5>2, <5>3
      <4> QED BY <4>1, <4>2
    <3>6. Upto(g, n)
      BY <3>4, <3>5
    <3> QED BY <2>2, <3>6
  <2> QED BY <2>3, <2>4, <2>5
<1>2. PICK f : Upto(f, M)
  BY <1>1
<1>3. f = [m \in 0 .. M |-> IF m = 0 THEN R ELSE CutAll(f[m - 1], H[m])]
  <2>1. \A m \in 0 .. M : f[m] = IF m = 0 THEN R ELSE CutAll(f[m - 1], H[m])
    BY <1>2
  <2>2. f = [m \in 0 .. M |-> f[m]]
    BY <1>2
  <2> QED BY <2>1, <2>2
<1> QED BY <1>3 DEF LeftBody

LEMMA LeftEquation ==
  ASSUME NEW R, NEW H, Len(H) \in Nat
  PROVE  /\ Subtract(R, H) = LeftOf(R, H)[Len(H)]
         /\ \A n \in 0 .. Len(H) :
              LeftOf(R, H)[n] = IF n = 0 THEN R ELSE CutAll(LeftOf(R, H)[n - 1], H[n])
<1> DEFINE g == LeftOf(R, H)
<1>1. g = LeftBody(R, H, g)
  <2> DEFINE F(f) == LeftBody(R, H, f)
  <2>1. \E f : f = F(f)
    BY LeftExists
  <2>2. (CHOOSE f : f = F(f)) = F(CHOOSE f : f = F(f))
    <3> HIDE DEF F
    <3> QED BY <2>1, Zenon
  <2> QED BY <2>2, Zenon DEF LeftOf
<1>2. Subtract(R, H) = g[Len(H)]
  BY Zenon DEF Subtract, LeftOf, LeftBody, CutAll
<1> HIDE DEF g
<1>3. \A n \in 0 .. Len(H) : g[n] = IF n = 0 THEN R ELSE CutAll(g[n - 1], H[n])
  <2>1. \A n \in 0 .. Len(H) :
          LeftBody(R, H, g)[n] = IF n = 0 THEN R ELSE CutAll(g[n - 1], H[n])
    BY Zenon DEF LeftBody
  <2> QED BY <1>1, <2>1
<1> QED BY <1>2, <1>3 DEF g

\* What is left has the bytes no hole has.
LEMMA SubtractBytes ==
  ASSUME NEW R \in SUBSET Proper, NEW H \in Seq(Hole)
  PROVE  /\ Subtract(R, H) \in SUBSET Proper
         /\ Bytes(Subtract(R, H)) = Bytes(R) \ Bytes(ValuesOf(H))
<1> DEFINE g == LeftOf(R, H)
           HolesTo(n) == {H[i] : i \in 1 .. n}
           Good(n) == g[n] \in SUBSET Proper /\ Bytes(g[n]) = Bytes(R) \ Bytes(HolesTo(n))
           T == {n \in 0 .. Len(H) : ~Good(n)}
<1>1. Len(H) \in Nat /\ DOMAIN H = 1 .. Len(H)
  OBVIOUS
<1>2. /\ Subtract(R, H) = g[Len(H)]
      /\ \A n \in 0 .. Len(H) : g[n] = IF n = 0 THEN R ELSE CutAll(g[n - 1], H[n])
  BY <1>1, LeftEquation
<1> HIDE DEF g
<1>3. T = {}
  <2> SUFFICES ASSUME T # {} PROVE FALSE
    OBVIOUS
  <2>1. PICK n \in T : \A m \in T : n <= m
    <3>1. T \in SUBSET Nat
      OBVIOUS
    <3> HIDE DEF T
    <3> QED BY <3>1, LeastNat
  <2>2. n \in 0 .. Len(H) /\ ~Good(n)
    OBVIOUS
  <2>3. CASE n = 0
    <3>1. g[n] = R
      BY <1>2, <2>2, <2>3
    <3>2. Bytes(HolesTo(n)) = {}
      BY <2>3 DEF Bytes
    <3> QED BY <2>2, <3>1, <3>2
  <2>4. CASE n # 0
    <3>1. n - 1 \in 0 .. Len(H) /\ n \in 1 .. Len(H) /\ H[n] \in Hole
      BY <1>1, <2>2, <2>4
    <3>2. Good(n - 1)
      <4>1. n - 1 \notin T
        <5> HIDE DEF T
        <5> QED BY <2>1, <2>2, <3>1
      <4> QED BY <3>1, <4>1
    <3>3. g[n] = CutAll(g[n - 1], H[n])
      BY <1>2, <2>2, <2>4
    <3>4. g[n] \in SUBSET Proper /\ Bytes(g[n]) = Bytes(g[n - 1]) \ Bytes({H[n]})
      BY <3>1, <3>2, <3>3, CutBytes
    <3>5. Bytes(HolesTo(n)) = Bytes(HolesTo(n - 1)) \union Bytes({H[n]})
      <4>1. HolesTo(n) = HolesTo(n - 1) \union {H[n]}
        <5>1. 1 .. n = 1 .. n - 1 \union {n}
          BY <3>1
        <5> QED BY <5>1
      <4>2. \A S, h : Bytes(S \union {h}) = Bytes(S) \union Bytes({h})
        BY DEF Bytes
      <4> HIDE DEF HolesTo
      <4> QED BY <4>1, <4>2
    <3> QED BY <2>2, <3>2, <3>4, <3>5
  <2> QED BY <2>3, <2>4
<1>4. Good(Len(H))
  BY <1>1, <1>3
<1>5. HolesTo(Len(H)) = ValuesOf(H)
  BY <1>1 DEF ValuesOf
<1> QED BY <1>2, <1>4, <1>5

-----------------------------------------------------------------------------
(* What the streams leave of the window.                                   *)

\* The spans the streams consumed, before they are joined.
Consumed(l) ==
  {Span(WINDOW_BASE + l[i].source \div BANK, l[i].source % BANK,
        ReclaimedEnd(l[i]) - (l[i].source \div BANK) * BANK) :
     i \in {j \in DOMAIN l : ReclaimedEnd(l[j]) > l[j].source}}

\* The address in the window of a byte of the ROM.
Seen(c) == <<WINDOW_BASE + c \div BANK, c % BANK>>

LEMMA Sizing ==
  /\ N \in Nat /\ N > 0 /\ BANK \in Nat \ {0} /\ BANK \in Nat /\ BANK > 0
  /\ MIN_REGION \in Nat
  /\ WINDOW_BASE = 3 * N /\ WINDOW_BASE \in Nat
  /\ ORIGINAL_SIZE = BANK * N /\ ORIGINAL_SIZE \in Nat
<1>1. N \in Nat /\ N > 0 /\ BANK \in Nat \ {0} /\ MIN_REGION \in Nat
  BY ImageAssumption, BankAssumption
<1> QED BY <1>1 DEF WINDOW_BASE, ORIGINAL_SIZE

\* What the assumption says of one stream.
LEMMA Stream ==
  ASSUME NEW l \in EntryLists, NEW i \in DOMAIN l,
         NEW q, q = l[i].source \div BANK, NEW o, o = l[i].source % BANK
  PROVE  /\ DOMAIN l = 1 .. Len(l) /\ Len(l) \in Nat
         /\ l[i].source \in Nat /\ l[i].source < ORIGINAL_SIZE /\ l[i].length \in Nat \ {0}
         /\ l[i].end \in Nat /\ l[i].source + 1 <= l[i].end
         /\ l[i].end <= ORIGINAL_SIZE + 1
         /\ q \in Nat /\ q < N /\ o \in Nat /\ o < BANK /\ l[i].source = BANK * q + o
         /\ ReclaimedEnd(l[i]) =
              IF l[i].end - 1 < (q + 1) * BANK THEN l[i].end - 1 ELSE (q + 1) * BANK
<1> DEFINE e == l[i]
<1>1. /\ l \in Seq([source : Rom, length : Nat \ {0}, end : Nat])
      /\ e.end \in e.source + READ_AHEAD .. ORIGINAL_SIZE + READ_AHEAD
  BY EntriesAssumption
<1>2. DOMAIN l = 1 .. Len(l) /\ Len(l) \in Nat
      /\ e \in [source : Rom, length : Nat \ {0}, end : Nat]
  <2> DEFINE X == [source : Rom, length : Nat \ {0}, end : Nat]
  <2>1. l \in Seq(X)
    BY <1>1
  <2> HIDE DEF X
  <2>2. DOMAIN l = 1 .. Len(l) /\ Len(l) \in Nat
    BY <2>1
  <2>3. e \in X
    BY <2>1
  <2> QED BY <2>2, <2>3 DEF X
<1>3. e.source \in 0 .. ORIGINAL_SIZE - 1 /\ e.length \in Nat \ {0} /\ e.end \in Nat
  BY <1>2 DEF Rom
<1>4. e.end \in e.source + 1 .. ORIGINAL_SIZE + 1
  BY <1>1 DEF READ_AHEAD
<1> HIDE DEF e
<1>5. /\ e.source \in Nat /\ e.source < ORIGINAL_SIZE
      /\ e.source + 1 <= e.end /\ e.end <= ORIGINAL_SIZE + 1
  BY <1>3, <1>4, Sizing
<1>6. q \in Nat /\ o \in Nat /\ o < BANK /\ e.source = BANK * q + o
  <2>1. q = e.source \div BANK /\ o = e.source % BANK
    BY DEF e
  <2>2. q \in Nat /\ o \in 0 .. BANK - 1 /\ e.source = BANK * q + o
    BY <1>5, <2>1, Sizing, Split
  <2> QED BY <2>2, Sizing
<1>7. q < N
  <2>1. SUFFICES ASSUME N <= q PROVE FALSE
    BY <1>6, Sizing
  <2>2. BANK * N <= BANK * q
    BY <1>6, <2>1, Sizing
  <2>3. BANK * q \in Nat /\ BANK * N \in Nat
    BY <1>6, Sizing
  <2> QED BY <1>5, <1>6, <2>2, <2>3, Sizing
<1>8. ReclaimedEnd(e) = IF e.end - 1 < (q + 1) * BANK THEN e.end - 1 ELSE (q + 1) * BANK
  <2>1. q = e.source \div BANK
    BY DEF e
  <2> QED BY <2>1, Zenon DEF ReclaimedEnd, READ_AHEAD
<1> QED BY <1>2, <1>3, <1>5, <1>6, <1>7, <1>8 DEF e

\* A byte of the ROM has one address in the window.
LEMMA SeenOnce ==
  ASSUME NEW c \in Nat, NEW q \in Nat, NEW a \in Nat, a < BANK
  PROVE  /\ Seen(c) = <<WINDOW_BASE + q, a>> <=> c = BANK * q + a
         /\ c = BANK * q + a => c \div BANK = q /\ c % BANK = a
<1> DEFINE p == c \div BANK
           u == c % BANK
<1>1. p \in Nat /\ u \in 0 .. BANK - 1 /\ c = BANK * p + u
  BY Sizing, Split
<1>2. c = BANK * q + a => p = q /\ u = a
  <2>1. a \in 0 .. BANK - 1
    BY Sizing
  <2> QED BY <2>1, Sizing, SplitBack
<1>3. Seen(c) = <<WINDOW_BASE + p, u>>
  BY DEF Seen
<1> HIDE DEF p, u
<1>4. WINDOW_BASE + p = WINDOW_BASE + q => p = q
  BY <1>1, Sizing
<1>5. Seen(c) = <<WINDOW_BASE + q, a>> <=> p = q /\ u = a
  BY <1>3, <1>4
<1> QED BY <1>1, <1>2, <1>5 DEF p, u

\* The bytes consumed are the spent ones, at their addresses in the window.
LEMMA ConsumedBytes ==
  ASSUME entries \in EntryLists
  PROVE  /\ Consumed(entries) \in SUBSET Proper
         /\ \A k, a : <<k, a>> \in Bytes(Consumed(entries)) <=>
                        \E c \in Spent : Seen(c) = <<k, a>>
<1> DEFINE l == entries
           D == {j \in DOMAIN l : ReclaimedEnd(l[j]) > l[j].source}
           S(i) == Span(WINDOW_BASE + l[i].source \div BANK, l[i].source % BANK,
                        ReclaimedEnd(l[i]) - (l[i].source \div BANK) * BANK)
<1>1. ASSUME NEW i \in DOMAIN l, NEW q, q = l[i].source \div BANK,
             NEW o, o = l[i].source % BANK,
             NEW z, z = ReclaimedEnd(l[i]) - q * BANK
      PROVE  /\ q \in Nat /\ q < N /\ o \in Nat /\ o < BANK /\ l[i].source = BANK * q + o
             /\ BANK * q \in Nat /\ z \in Int /\ z <= BANK
             /\ ReclaimedEnd(l[i]) = BANK * q + z /\ z <= l[i].end - 1 - BANK * q
             /\ (z = BANK \/ z = l[i].end - 1 - BANK * q)
             /\ BANK * q + z <= ORIGINAL_SIZE /\ l[i].end \in Nat
             /\ S(i) = [bank |-> WINDOW_BASE + q, start |-> o, end |-> z]
             /\ i \in D <=> o < z
  <2>1. /\ l[i].source \in Nat /\ l[i].end \in Nat /\ l[i].end <= ORIGINAL_SIZE + 1
        /\ q \in Nat /\ q < N /\ o \in Nat /\ o < BANK /\ l[i].source = BANK * q + o
        /\ ReclaimedEnd(l[i]) =
             IF l[i].end - 1 < (q + 1) * BANK THEN l[i].end - 1 ELSE (q + 1) * BANK
    BY <1>1, Stream
  <2>2. BANK * q \in Nat /\ q * BANK = BANK * q /\ (q + 1) * BANK = BANK * q + BANK
    BY <2>1, Sizing
  <2>3. S(i) = [bank |-> WINDOW_BASE + q, start |-> o, end |-> z]
    BY <1>1, Zenon DEF Span
  <2> DEFINE w == BANK * q
             r == ReclaimedEnd(l[i])
             s == l[i].source
             e == l[i].end
  <2>4. /\ w \in Nat /\ e \in Nat /\ e <= ORIGINAL_SIZE + 1 /\ s = w + o
        /\ o \in Nat /\ o < BANK /\ z = r - w /\ BANK \in Nat /\ ORIGINAL_SIZE \in Nat
        /\ r = IF e - 1 < w + BANK THEN e - 1 ELSE w + BANK
    BY <1>1, <2>1, <2>2, Sizing
  <2>5. i \in D <=> r > s
    OBVIOUS
  <2> HIDE DEF w, r, s, e, D, S
  <2>6. /\ z \in Int /\ z <= BANK /\ r = w + z /\ z <= e - 1 - w
        /\ (z = BANK \/ z = e - 1 - w) /\ w + z <= ORIGINAL_SIZE
        /\ (r > s <=> o < z)
    BY <2>4
  <2>7. i \in D <=> o < z
    BY <2>5, <2>6
  <2> QED BY <2>1, <2>2, <2>3, <2>6, <2>7 DEF w, r, s, e
<1>2. Consumed(l) = {S(i) : i \in D}
  BY DEF Consumed
<1> HIDE DEF D, S
<1>3. ASSUME NEW i \in D PROVE S(i) \in Proper /\ i \in DOMAIN l
  <2>1. i \in DOMAIN l
    BY DEF D
  <2> DEFINE q == l[i].source \div BANK
             o == l[i].source % BANK
             z == ReclaimedEnd(l[i]) - q * BANK
  <2>4. q = l[i].source \div BANK /\ o = l[i].source % BANK
        /\ z = ReclaimedEnd(l[i]) - q * BANK
    OBVIOUS
  <2> HIDE DEF q, o, z
  <2>2. /\ q \in Nat /\ q < N /\ o \in Nat /\ o < BANK /\ z \in Int /\ z <= BANK
        /\ S(i) = [bank |-> WINDOW_BASE + q, start |-> o, end |-> z]
        /\ o < z
    BY <1>1, <2>1, <2>4
  <2>3. /\ WINDOW_BASE + q \in 0 .. 4 * N - 1 /\ o \in 0 .. BANK /\ z \in 0 .. BANK
        /\ o <= z
    BY <2>2, Sizing
  <2>5. S(i) \in Box /\ S(i).start <= S(i).end
    BY <2>2, <2>3 DEF Box
  <2> QED BY <2>1, <2>5 DEF Proper
<1>4. ASSUME NEW k, NEW a, <<k, a>> \in Bytes(Consumed(l))
      PROVE  \E c \in Spent : Seen(c) = <<k, a>>
  <2>1. PICK i \in D : S(i).bank = k /\ a \in S(i).start .. S(i).end - 1
    <3>1. \E r \in Consumed(l) : r.bank = k /\ a \in r.start .. r.end - 1
      BY <1>4, ByteOf
    <3> QED BY <1>2, <3>1
  <2>2. i \in DOMAIN l
    BY DEF D
  <2> DEFINE q == l[i].source \div BANK
             o == l[i].source % BANK
             z == ReclaimedEnd(l[i]) - q * BANK
             c == BANK * q + a
  <2>4. q = l[i].source \div BANK /\ o = l[i].source % BANK
        /\ z = ReclaimedEnd(l[i]) - q * BANK
    OBVIOUS
  <2> HIDE DEF q, o, z
  <2>3. /\ q \in Nat /\ q < N /\ o \in Nat /\ o < BANK /\ z \in Int /\ z <= BANK
        /\ BANK * q \in Nat /\ l[i].source = BANK * q + o /\ z <= l[i].end - 1 - BANK * q
        /\ BANK * q + z <= ORIGINAL_SIZE /\ l[i].end \in Nat
        /\ S(i) = [bank |-> WINDOW_BASE + q, start |-> o, end |-> z]
    BY <1>1, <2>2, <2>4
  <2>5. k = WINDOW_BASE + q /\ a \in o .. z - 1
    BY <2>1, <2>3
  <2>6. a \in Nat /\ a < BANK /\ o <= a /\ a < z
    BY <2>3, <2>5, Sizing
  <2>7. /\ c \in Nat /\ l[i].source <= c /\ c < l[i].end - 1 /\ c < ORIGINAL_SIZE
    BY <2>3, <2>6, Sizing
  <2>8. c \div BANK = q /\ Seen(c) = <<k, a>>
    <3>1. c = BANK * q + a
      OBVIOUS
    <3> HIDE DEF c
    <3> QED BY <2>3, <2>5, <2>6, <2>7, <3>1, SeenOnce
  <2>9. c \in Spent
    <3>1. c \in Rom
      BY <2>7, Sizing DEF Rom
    <3> HIDE DEF c
    <3> QED BY <2>2, <2>4, <2>7, <2>8, <3>1 DEF Spent, READ_AHEAD
  <2> QED BY <2>8, <2>9
<1>5. ASSUME NEW c \in Spent PROVE Seen(c) \in Bytes(Consumed(l))
  <2>1. PICK i \in DOMAIN l : /\ c \in Rom /\ l[i].source <= c /\ c < l[i].end - 1
                              /\ c \div BANK = l[i].source \div BANK
    BY DEF Spent, READ_AHEAD
  <2> DEFINE q == l[i].source \div BANK
             o == l[i].source % BANK
             z == ReclaimedEnd(l[i]) - q * BANK
             a == c % BANK
  <2>10. q = l[i].source \div BANK /\ o = l[i].source % BANK
         /\ z = ReclaimedEnd(l[i]) - q * BANK
    OBVIOUS
  <2>11. c \div BANK = q
    BY <2>1
  <2> HIDE DEF q, o, z
  <2>2. /\ q \in Nat /\ q < N /\ o \in Nat /\ o < BANK /\ z \in Int /\ z <= BANK
        /\ BANK * q \in Nat /\ l[i].source = BANK * q + o /\ l[i].end \in Nat
        /\ (z = BANK \/ z = l[i].end - 1 - BANK * q)
        /\ S(i) = [bank |-> WINDOW_BASE + q, start |-> o, end |-> z]
        /\ (i \in D <=> o < z)
    BY <1>1, <2>10
  <2>3. c \in Nat
    BY <2>1, Sizing DEF Rom
  <2>4. c = BANK * q + a /\ a \in 0 .. BANK - 1
    BY <2>3, <2>11, Sizing, Split
  <2>5. Seen(c) = <<WINDOW_BASE + q, a>>
    BY <2>11, Zenon DEF Seen
  <2> HIDE DEF a
  <2>6. a \in o .. z - 1 /\ o < z
    BY <2>1, <2>2, <2>4, Sizing
  <2>7. S(i) \in Consumed(l)
    BY <1>2, <2>2, <2>6
  <2>8. S(i).bank = WINDOW_BASE + q /\ a \in S(i).start .. S(i).end - 1
    BY <2>2, <2>6
  <2>9. <<WINDOW_BASE + q, a>> \in Bytes(Consumed(l))
    BY <2>7, <2>8, ByteOf
  <2> QED BY <2>5, <2>9
<1>6. Consumed(l) \in SUBSET Proper
  BY <1>2, <1>3
<1>7. ASSUME NEW k, NEW a
      PROVE  <<k, a>> \in Bytes(Consumed(l)) <=> \E c \in Spent : Seen(c) = <<k, a>>
  BY <1>4, <1>5
<1> QED BY <1>6, <1>7

Joins == Merge(Consumed(entries))

Long == {j \in DOMAIN Joins : Joins[j].end - Joins[j].start >= MIN_REGION}

\* The spent bytes of a joined region, and no others.
LEMMA JoinedBytes ==
  ASSUME entries \in EntryLists
  PROVE  /\ Joined(Joins, Consumed(entries)) /\ DOMAIN Joins \subseteq Nat
         /\ \A j \in DOMAIN Joins :
              /\ Joins[j] \in Proper /\ Joins[j].bank \in Nat
              /\ Joins[j].start \in Nat /\ Joins[j].end \in Nat
              /\ Joins[j].start <= Joins[j].end /\ Joins[j].end <= BANK
         /\ \A k, a : (\E c \in Spent : Seen(c) = <<k, a>>) <=>
                        \E j \in DOMAIN Joins : /\ Joins[j].bank = k
                                                /\ a \in Joins[j].start .. Joins[j].end - 1
<1>1. Consumed(entries) \in SUBSET Proper
  BY ConsumedBytes
<1>2. Joined(Joins, Consumed(entries))
  BY <1>1, MergeJoins DEF Joins
<1> DEFINE m == Joins
<1>3. m \in Seq(Proper) /\ Bytes(ValuesOf(m)) = Bytes(Consumed(entries))
  BY <1>2 DEF Joined
<1> HIDE DEF m
<1>4. DOMAIN m \subseteq Nat /\ \A j \in DOMAIN m : m[j] \in Proper
  BY <1>3
<1>5. ASSUME NEW j \in DOMAIN m
      PROVE  /\ m[j] \in Proper /\ m[j].bank \in Nat
             /\ m[j].start \in Nat /\ m[j].end \in Nat
             /\ m[j].start <= m[j].end /\ m[j].end <= BANK
  BY <1>4, ProperTypes
<1>6. ASSUME NEW k, NEW a
      PROVE  (\E c \in Spent : Seen(c) = <<k, a>>) <=>
               \E j \in DOMAIN m : m[j].bank = k /\ a \in m[j].start .. m[j].end - 1
  <2>1. <<k, a>> \in Bytes(Consumed(entries)) <=> \E c \in Spent : Seen(c) = <<k, a>>
    BY ConsumedBytes
  <2>2. <<k, a>> \in Bytes(ValuesOf(m)) <=>
          \E j \in DOMAIN m : m[j].bank = k /\ a \in m[j].start .. m[j].end - 1
    BY ByteAt
  <2> QED BY <1>3, <2>1, <2>2
<1> QED BY <1>2, <1>4, <1>5, <1>6 DEF m

\* A spent byte is in one of them, at its address.
LEMMA SpentIn ==
  ASSUME entries \in EntryLists, NEW q \in Nat, NEW a \in Nat, a < BANK
  PROVE  BANK * q + a \in Spent <=>
           \E j \in DOMAIN Joins : /\ Joins[j].bank = WINDOW_BASE + q
                                   /\ a \in Joins[j].start .. Joins[j].end - 1
<1> DEFINE k == WINDOW_BASE + q
           b == BANK * q + a
<1>1. b \in Nat
  BY Sizing
<1>2. \A c \in Spent : c \in Nat
  BY Sizing DEF Spent, Rom
<1>3. \A c \in Nat : Seen(c) = <<k, a>> <=> c = b
  BY SeenOnce
<1> HIDE DEF k, b
<1>4. (\E c \in Spent : Seen(c) = <<k, a>>) <=> b \in Spent
  BY <1>1, <1>2, <1>3
<1> QED BY <1>4, JoinedBytes DEF k, b

\* Two joined regions of a bank have a byte between them that is in neither.
LEMMA JoinedApart ==
  ASSUME entries \in EntryLists, NEW i \in DOMAIN Joins, NEW j \in DOMAIN Joins,
         Joins[i].bank = Joins[j].bank, i # j
  PROVE  Joins[i].end < Joins[j].start \/ Joins[j].end < Joins[i].start
<1>1. Joined(Joins, Consumed(entries)) /\ DOMAIN Joins \subseteq Nat
      /\ Joins[i].bank \in Nat /\ Joins[j].bank \in Nat
  BY JoinedBytes
<1>2. i < j \/ j < i
  BY <1>1
<1>3. /\ i < j => \/ Joins[i].bank < Joins[j].bank
                  \/ Joins[i].bank = Joins[j].bank /\ Joins[i].end < Joins[j].start
      /\ j < i => \/ Joins[j].bank < Joins[i].bank
                  \/ Joins[j].bank = Joins[i].bank /\ Joins[j].end < Joins[i].start
  BY <1>1 DEF Joined, InOrder
<1> QED BY <1>1, <1>2, <1>3

\* The stretch of a spent byte is the whole of its joined region.
LEMMA StretchIs ==
  ASSUME entries \in EntryLists, NEW q \in Nat, NEW a \in Nat, a < BANK,
         NEW j \in DOMAIN Joins, Joins[j].bank = WINDOW_BASE + q,
         a \in Joins[j].start .. Joins[j].end - 1
  PROVE  /\ Stretch(BANK * q + a) =
              BANK * q + Joins[j].start .. BANK * q + Joins[j].end - 1
         /\ Cardinality(Stretch(BANK * q + a)) = Joins[j].end - Joins[j].start
<1> DEFINE w == BANK * q
           s == Joins[j].start
           e == Joins[j].end
<1>1. /\ w \in Nat /\ s \in Nat /\ e \in Nat /\ s <= e /\ e <= BANK /\ s <= a /\ a < e
      /\ BANK \in Nat
  BY JoinedBytes, Sizing
<1>2. \A d \in Nat : s <= d /\ d < e => w + d \in Spent
  <2> SUFFICES ASSUME NEW d \in Nat, s <= d, d < e PROVE w + d \in Spent
    OBVIOUS
  <2>1. d < BANK /\ d \in s .. e - 1
    BY <1>1
  <2> QED BY <2>1, SpentIn
<1>3. e < BANK => w + e \notin Spent
  <2> SUFFICES ASSUME e < BANK, w + e \in Spent PROVE FALSE
    OBVIOUS
  <2>1. PICK i \in DOMAIN Joins : /\ Joins[i].bank = WINDOW_BASE + q
                                  /\ e \in Joins[i].start .. Joins[i].end - 1
    BY <1>1, SpentIn
  <2>2. /\ Joins[i].start \in Nat /\ Joins[i].end \in Nat
    BY JoinedBytes
  <2>3. i # j
    BY <1>1, <2>1, <2>2
  <2>4. e < Joins[i].start \/ Joins[i].end < s
    BY <2>1, <2>3, JoinedApart
  <2> HIDE DEF e, s
  <2> QED BY <1>1, <2>1, <2>2, <2>4
<1>4. s > 0 => w + (s - 1) \notin Spent
  <2> SUFFICES ASSUME s > 0, w + (s - 1) \in Spent PROVE FALSE
    OBVIOUS
  <2>0. s - 1 \in Nat /\ s - 1 < BANK
    BY <1>1
  <2>1. PICK i \in DOMAIN Joins : /\ Joins[i].bank = WINDOW_BASE + q
                                  /\ s - 1 \in Joins[i].start .. Joins[i].end - 1
    BY <2>0, SpentIn
  <2>2. /\ Joins[i].start \in Nat /\ Joins[i].end \in Nat
    BY JoinedBytes
  <2>3. i # j
    BY <1>1, <2>1, <2>2
  <2>4. e < Joins[i].start \/ Joins[i].end < s
    BY <2>1, <2>3, JoinedApart
  <2> HIDE DEF e, s
  <2> QED BY <1>1, <2>1, <2>2, <2>4
<1> HIDE DEF w, s, e
<1>5. \A d \in Nat : d < BANK => (w + d) \div BANK = q
  <2> SUFFICES ASSUME NEW d \in Nat, d < BANK PROVE (w + d) \div BANK = q
    OBVIOUS
  <2>1. d \in 0 .. BANK - 1
    BY Sizing
  <2> QED BY <2>1, Sizing, SplitBack DEF w
<1> DEFINE c == w + a
<1>6. c \div BANK = q /\ c \in Nat
  BY <1>1, <1>5
<1> HIDE DEF c
<1>7. ASSUME NEW x \in Stretch(c) PROVE x \in w + s .. w + e - 1
  <2>1. /\ x \in Spent /\ x \div BANK = q
        /\ (IF c < x THEN c .. x ELSE x .. c) \subseteq Spent
    BY <1>6 DEF Stretch
  <2>2. x \in Nat
    BY <2>1, Sizing DEF Spent, Rom
  <2> DEFINE d == x % BANK
  <2>3. d \in 0 .. BANK - 1 /\ x = BANK * q + d
    BY <2>1, <2>2, Sizing, Split
  <2> HIDE DEF d
  <2>4. d \in Nat /\ d < BANK /\ x = w + d
    BY <1>1, <2>3 DEF w
  <2>5. ~(e <= d)
    <3> SUFFICES ASSUME e <= d PROVE FALSE
      OBVIOUS
    <3>1. e < BANK /\ c < x /\ w + e \in c .. x
      BY <1>1, <2>4 DEF c
    <3> QED BY <1>3, <2>1, <3>1
  <2>6. ~(d < s)
    <3> SUFFICES ASSUME d < s PROVE FALSE
      OBVIOUS
    <3>1. s > 0 /\ ~(c < x) /\ w + (s - 1) \in x .. c
      BY <1>1, <2>4 DEF c
    <3> QED BY <1>4, <2>1, <3>1
  <2> QED BY <1>1, <2>4, <2>5, <2>6
<1>8. ASSUME NEW x \in w + s .. w + e - 1 PROVE x \in Stretch(c)
  <2> DEFINE d == x - w
  <2>1. d \in Nat /\ s <= d /\ d < e /\ x = w + d /\ d < BANK
    BY <1>1
  <2> HIDE DEF d
  <2>2. x \in Spent
    BY <1>2, <2>1
  <2>3. x \div BANK = c \div BANK
    BY <1>5, <1>6, <2>1
  <2>4. ASSUME NEW y \in (IF c < x THEN c .. x ELSE x .. c) PROVE y \in Spent
    <3> DEFINE f == y - w
    <3>1. f \in Nat /\ s <= f /\ f < e /\ y = w + f
      BY <1>1, <2>1 DEF c
    <3> HIDE DEF f
    <3> QED BY <1>2, <3>1
  <2> QED BY <2>2, <2>3, <2>4 DEF Stretch
<1>9. Stretch(c) = w + s .. w + e - 1
  BY <1>7, <1>8
<1>10. Cardinality(Stretch(c)) = e - s
  <2> DEFINE u == w + s
             v == w + e - 1
  <2>1. u \in Int /\ v \in Int /\ u <= v /\ v - u + 1 = e - s
    BY <1>1
  <2>2. Stretch(c) = u .. v
    BY <1>9
  <2> HIDE DEF u, v
  <2>3. Cardinality(u .. v) = IF u > v THEN 0 ELSE v - u + 1
    BY <2>1, FS_Interval
  <2> QED BY <2>1, <2>2, <2>3
<1> QED BY <1>9, <1>10 DEF c, w, s, e

\* What is kept of the window is every stretch that is long enough.
Kept == {c \in Spent : Cardinality(Stretch(c)) >= MIN_REGION}

LEMMA Reclaims ==
  ASSUME entries \in EntryLists
  PROVE  /\ ReclaimedRegions(entries) \in SUBSET Proper
         /\ Bytes(ReclaimedRegions(entries)) = {Seen(c) : c \in Kept}
<1>1. ReclaimedRegions(entries) = {Joins[j] : j \in Long}
  BY Zenon DEF ReclaimedRegions, Joins, Long, Consumed
<1>2. \A j \in DOMAIN Joins : Joins[j] \in Proper
  BY JoinedBytes
<1>3. \A j \in Long : j \in DOMAIN Joins
  BY DEF Long
<1>4. \A c \in Spent : c \in Nat
  BY Sizing DEF Spent, Rom
<1>5. ASSUME NEW x \in Bytes(ReclaimedRegions(entries)) PROVE x \in {Seen(c) : c \in Kept}
  <2> DEFINE k == x[1]
             a == x[2]
  <2>1. x = <<k, a>>
    BY <1>5, BytePairs
  <2> HIDE DEF k, a
  <2>2. PICK j \in Long : Joins[j].bank = k /\ a \in Joins[j].start .. Joins[j].end - 1
    <3>1. \E r \in ReclaimedRegions(entries) : r.bank = k /\ a \in r.start .. r.end - 1
      BY <1>5, <2>1, ByteOf
    <3> QED BY <1>1, <3>1
  <2>3. PICK c \in Spent : Seen(c) = <<k, a>>
    BY <1>3, <2>2, JoinedBytes
  <2> DEFINE q == c \div BANK
  <2>4. k = WINDOW_BASE + q /\ a = c % BANK
    BY <2>3 DEF Seen
  <2>5. q \in Nat /\ a \in 0 .. BANK - 1 /\ c = BANK * q + a
    BY <1>4, <2>4, Sizing, Split
  <2> HIDE DEF q
  <2>6. a \in Nat /\ a < BANK
    BY <2>5, Sizing
  <2>7. Cardinality(Stretch(c)) = Joins[j].end - Joins[j].start
    BY <1>3, <2>2, <2>4, <2>5, <2>6, StretchIs
  <2>8. c \in Kept
    BY <2>2, <2>7 DEF Kept, Long
  <2> QED BY <2>1, <2>3, <2>8
<1>6. ASSUME NEW c \in Kept PROVE Seen(c) \in Bytes(ReclaimedRegions(entries))
  <2> DEFINE q == c \div BANK
             a == c % BANK
  <2>1. c \in Spent /\ c \in Nat /\ Cardinality(Stretch(c)) >= MIN_REGION
    BY <1>4 DEF Kept
  <2>2. Seen(c) = <<WINDOW_BASE + q, a>>
    BY DEF Seen
  <2>3. q \in Nat /\ a \in 0 .. BANK - 1 /\ c = BANK * q + a
    BY <2>1, Sizing, Split
  <2> HIDE DEF q, a
  <2>4. a \in Nat /\ a < BANK
    BY <2>3, Sizing
  <2>5. PICK j \in DOMAIN Joins : /\ Joins[j].bank = WINDOW_BASE + q
                                  /\ a \in Joins[j].start .. Joins[j].end - 1
    BY <2>1, <2>2, JoinedBytes
  <2>6. Cardinality(Stretch(c)) = Joins[j].end - Joins[j].start
    BY <2>3, <2>4, <2>5, StretchIs
  <2>7. j \in Long
    BY <2>1, <2>6 DEF Long
  <2>8. Joins[j] \in ReclaimedRegions(entries)
    BY <1>1, <2>7
  <2> QED BY <2>2, <2>5, <2>8, ByteOf
<1>7. ReclaimedRegions(entries) \in SUBSET Proper
  BY <1>1, <1>2, <1>3
<1> QED BY <1>5, <1>6, <1>7

-----------------------------------------------------------------------------
(* All that is free.                                                       *)

FreeBytes ==
  (Bytes(DataBankRegions) \ Bytes(ValuesOf(SpansOf(extra))))
  \union {Seen(c) : c \in Kept}

\* What the assumption says of one payload.
LEMMA Payload ==
  ASSUME NEW x \in ExtraLists
  PROVE  /\ DOMAIN x = 1 .. Len(x) /\ Len(x) \in Nat
         /\ \A i \in DOMAIN x :
              /\ x[i].bank \in N .. 2 * N - 1 /\ x[i].bank # TABLE_BANK
              /\ x[i].bank \in Nat /\ x[i].addr \in Nat /\ x[i].length \in Nat
              /\ x[i].addr + x[i].length <= BANK
<1> DEFINE X == [bank : (N .. 2 * N - 1) \ {TABLE_BANK}, addr : Nat, length : Nat]
<1>1. x \in Seq(X) /\ \A i \in DOMAIN x : x[i].addr + x[i].length <= BANK
  BY ExtrasAssumption
<1>2. DOMAIN x = 1 .. Len(x) /\ Len(x) \in Nat /\ \A i \in DOMAIN x : x[i] \in X
  <2> HIDE DEF X
  <2> QED BY <1>1
<1>3. ASSUME NEW i \in DOMAIN x
      PROVE  /\ x[i].bank \in N .. 2 * N - 1 /\ x[i].bank # TABLE_BANK
             /\ x[i].bank \in Nat /\ x[i].addr \in Nat /\ x[i].length \in Nat
  BY <1>2, Sizing
<1> QED BY <1>1, <1>2, <1>3

LEMMA FreeRegions ==
  ASSUME entries \in EntryLists, extra \in ExtraLists
  PROVE  /\ Regions(entries, extra) \in SUBSET Proper
         /\ Bytes(Regions(entries, extra)) = FreeBytes
<1> DEFINE D == DataBankRegions
           H == SpansOf(extra)
           R == ReclaimedRegions(entries)
<1>1. D \in SUBSET Proper
  <2> SUFFICES ASSUME NEW b \in N .. 2 * N - 1 PROVE Span(b, 0, BANK) \in Proper
    BY DEF DataBankRegions
  <2>1. /\ b \in 0 .. 4 * N - 1 /\ 0 \in 0 .. BANK /\ BANK \in 0 .. BANK /\ 0 <= BANK
    BY Sizing
  <2> DEFINE r == [bank |-> b, start |-> 0, end |-> BANK]
  <2>2. r \in Box /\ r.start <= r.end
    BY <2>1 DEF Box
  <2> HIDE DEF r
  <2>3. r \in Proper
    BY <2>2 DEF Proper
  <2> QED BY <2>3 DEF r, Span
<1>2. H \in Seq(Hole)
  <2>1. DOMAIN extra = 1 .. Len(extra) /\ Len(extra) \in Nat
    BY Payload
  <2>2. ASSUME NEW i \in DOMAIN extra
        PROVE  Span(extra[i].bank, extra[i].addr, extra[i].addr + extra[i].length) \in Hole
    <3>1. extra[i].bank \in Nat /\ extra[i].addr \in Nat /\ extra[i].length \in Nat
      BY Payload
    <3> QED BY <3>1 DEF Span, Hole, Region
  <2>3. H = [i \in 1 .. Len(extra) |->
               Span(extra[i].bank, extra[i].addr, extra[i].addr + extra[i].length)]
    BY <2>1 DEF SpansOf
  <2> HIDE DEF H
  <2> QED BY <2>1, <2>2, <2>3
<1>3. Subtract(D, H) \in SUBSET Proper
      /\ Bytes(Subtract(D, H)) = Bytes(D) \ Bytes(ValuesOf(H))
  <2> HIDE DEF D, H
  <2> QED BY <1>1, <1>2, SubtractBytes
<1>4. R \in SUBSET Proper /\ Bytes(R) = {Seen(c) : c \in Kept}
  BY Reclaims
<1>5. \A S, U : Bytes(S \union U) = Bytes(S) \union Bytes(U)
  BY DEF Bytes
<1> HIDE DEF D, H, R
<1>6. Regions(entries, extra) = Subtract(D, H) \union R
  BY DEF Regions, D, H, R
<1>7. Regions(entries, extra) \in SUBSET Proper
  BY <1>3, <1>4, <1>6
<1>8. Bytes(Regions(entries, extra)) = (Bytes(D) \ Bytes(ValuesOf(H))) \union {Seen(c) : c \in Kept}
  BY <1>3, <1>4, <1>5, <1>6
<1> QED BY <1>7, <1>8 DEF FreeBytes, D, H

\* The free list is the free bytes, sorted and joined.
LEMMA PlanFrees ==
  ASSUME entries \in EntryLists, extra \in ExtraLists
  PROVE  /\ Joined(Merge(Regions(entries, extra)), Regions(entries, extra))
         /\ Bytes(ValuesOf(Merge(Regions(entries, extra)))) = FreeBytes
<1>1. Joined(Merge(Regions(entries, extra)), Regions(entries, extra))
  BY FreeRegions, MergeJoins
<1> QED BY <1>1, FreeRegions DEF Joined

-----------------------------------------------------------------------------
(* The build up to its writes.                                             *)

\* The place in the order of allocation of each stream.
Nth(l, i) == IF i = Len(l) THEN 1 ELSE i + 1

LEMMA Orders ==
  ASSUME NEW l \in EntryLists
  PROVE  /\ Sizes(l) \in Seq(Nat \ {0}) /\ Len(Sizes(l)) = Len(l) /\ Len(l) \in Nat
         /\ DOMAIN Sizes(l) = DOMAIN l /\ DOMAIN l = 1 .. Len(l)
         /\ \A i \in DOMAIN l : Nth(l, i) \in DOMAIN l /\ Sizes(l)[Nth(l, i)] = l[i].length
<1> DEFINE n == Len(l)
<1>1. DOMAIN l = 1 .. n /\ n \in Nat /\ \A i \in DOMAIN l : l[i].length \in Nat \ {0}
  <2>1. l \in Seq([source : Rom, length : Nat \ {0}, end : Nat])
    BY EntriesAssumption
  <2>2. DOMAIN l = 1 .. n /\ n \in Nat
    BY <2>1
  <2>3. \A i \in DOMAIN l : l[i].length \in Nat \ {0}
    BY Stream
  <2> QED BY <2>2, <2>3
<1>2. ASSUME l # <<>>
      PROVE  /\ n > 0 /\ DOMAIN Ordered(l) = 1 .. n
             /\ Ordered(l)[1] = l[n] /\ \A i \in 1 .. n - 1 : Ordered(l)[i + 1] = l[i]
  <2> DEFINE X == [source : Rom, length : Nat \ {0}, end : Nat]
  <2>0. l \in Seq(X)
    BY EntriesAssumption
  <2>1. l \in Seq(X) /\ n \in Nat
    BY <1>1, <2>0
  <2> HIDE DEF X
  <2>2. n > 0
    BY <1>2, <2>1
  <2> DEFINE f == SubSeq(l, 1, n - 1)
             z == l[n]
             o == <<z>> \o f
  <2>3. z \in X /\ DOMAIN l = 1 .. n
    BY <2>1, <2>2
  <2>4. f \in Seq(X) /\ Len(f) = n - 1 /\ \A i \in 1 .. n - 1 : f[i] = l[i]
    <3> HIDE DEF n
    <3>1. n - 1 \in Nat /\ 1 .. n - 1 \subseteq 1 .. n
      BY <2>1, <2>2
    <3>2. \A i \in 1 .. n - 1 : l[i] \in X
      BY <2>1, <2>3, <3>1
    <3>3. f = [i \in 1 .. n - 1 |-> l[i]]
      <4>1. SubSeq(l, 1, n - 1) = [i \in 1 .. n - 1 |-> l[1 + i - 1]]
        BY <2>1, <2>3, <3>1
      <4> QED BY <3>1, <4>1
    <3> QED BY <3>1, <3>2, <3>3
  <2>5. Ordered(l) = o
    BY <1>2 DEF Ordered, Front, Last
  <2> HIDE DEF f, z
  <2>6. n - 1 \in Nat
    BY <2>1, <2>2
  <2>7. <<z>> \in Seq(X) /\ Len(<<z>>) = 1 /\ <<z>>[1] = z
    BY <2>3
  <2>8. o \in Seq(X) /\ Len(o) = 1 + (n - 1)
    BY <2>4, <2>6, <2>7
  <2>9. o[1] = z
    BY <2>4, <2>6, <2>7
  <2>10. ASSUME NEW i \in 1 .. n - 1 PROVE o[i + 1] = f[i]
    <3>1. i \in DOMAIN f /\ i + 1 \in 1 .. Len(<<z>>) + Len(f) /\ ~(i + 1 <= 1)
      BY <2>4, <2>6, <2>7
    <3> QED BY <2>4, <2>7, <3>1
  <2>11. Len(o) = n /\ DOMAIN o = 1 .. n
    BY <2>1, <2>2, <2>8
  <2> HIDE DEF o
  <2> QED BY <2>2, <2>4, <2>5, <2>9, <2>10, <2>11 DEF z
<1>3. \A i \in DOMAIN l : Sizes(l)[i] = Ordered(l)[i].length
  BY DEF Sizes
<1>4. DOMAIN Sizes(l) = DOMAIN l /\ Sizes(l) = [i \in 1 .. n |-> Sizes(l)[i]]
  BY <1>1 DEF Sizes
<1> DEFINE s == Sizes(l)
<1>5. ASSUME NEW i \in DOMAIN l
      PROVE  Nth(l, i) \in DOMAIN l /\ s[Nth(l, i)] = l[i].length
  <2>0. l # <<>>
    BY <1>5
  <2>1. CASE i = n
    <3>1. Nth(l, i) = 1 /\ 1 \in DOMAIN l
      BY <1>1, <1>2, <2>0, <2>1 DEF Nth
    <3> QED BY <1>2, <1>3, <2>0, <2>1, <3>1
  <2>2. CASE i # n
    <3>1. Nth(l, i) = i + 1 /\ i + 1 \in DOMAIN l /\ i \in 1 .. n - 1
      BY <1>1, <2>2 DEF Nth
    <3> QED BY <1>2, <1>3, <2>0, <3>1
  <2> QED BY <2>1, <2>2
<1>6. ASSUME NEW k \in DOMAIN l PROVE s[k] \in Nat \ {0}
  <2>0. l # <<>> /\ k \in 1 .. n
    BY <1>1, <1>6
  <2>1. CASE k = 1
    BY <1>1, <1>2, <1>3, <2>0, <2>1
  <2>2. CASE k # 1
    <3>1. k - 1 \in 1 .. n - 1 /\ k - 1 \in DOMAIN l /\ k - 1 + 1 = k
      BY <1>1, <2>0, <2>2
    <3>2. Ordered(l)[k] = l[k - 1]
      BY <1>2, <2>0, <3>1
    <3> QED BY <1>1, <1>3, <3>1, <3>2
  <2> QED BY <2>1, <2>2
<1> HIDE DEF s
<1>7. s \in [1 .. n -> Nat \ {0}]
  BY <1>1, <1>4, <1>6 DEF s
<1>8. s \in Seq(Nat \ {0}) /\ Len(s) = n
  BY <1>1, <1>7
<1> QED BY <1>1, <1>4, <1>5, <1>8 DEF s

BuildInv ==
  /\ entries \in EntryLists /\ extra \in ExtraLists
  /\ phase \in {"plan", "allocate", "key", "write", "built", "refused"}
  /\ phase = "plan" => placed = <<>> /\ outcome = "placing"
  /\ phase # "plan" =>
       /\ AllocatorInv
       /\ sizes = Sizes(entries)
       /\ Bytes(ValuesOf(free)) = Bytes(Regions(entries, extra))
  /\ phase \in {"key", "write", "built"} => outcome = "placed"

LEMMA BuildStarts == BuildInit => BuildInv
BY DEF BuildInit, BuildInv

\* The allocator's steps, seen by the build, only put its own state behind it.
LEMMA BuildKeeps ==
  BuildInv /\ UNCHANGED <<layout, allocation>> /\ phase # "plan"
    /\ phase' \in {"allocate", "key", "write", "built", "refused"}
    /\ (phase' \in {"key", "write", "built"} => outcome = "placed")
    => BuildInv'
<1> SUFFICES ASSUME BuildInv, UNCHANGED <<layout, allocation>>, phase # "plan",
                    phase' \in {"allocate", "key", "write", "built", "refused"},
                    phase' \in {"key", "write", "built"} => outcome = "placed"
             PROVE  BuildInv'
  OBVIOUS
<1>1. /\ entries' = entries /\ extra' = extra /\ UNCHANGED vars
      /\ free' = free /\ sizes' = sizes /\ outcome' = outcome
  BY DEF layout, allocation, vars
<1>2. AllocatorInv'
  <2>1. AllocatorInv
    BY DEF BuildInv
  <2> QED BY <1>1, <2>1, AllocatorStep
<1>3. (sizes = Sizes(entries))' /\ (Bytes(ValuesOf(free)) = Bytes(Regions(entries, extra)))'
  BY <1>1 DEF BuildInv
<1> QED BY <1>1, <1>2, <1>3 DEF BuildInv

LEMMA BuildStep == BuildInv /\ [BuildNext]_all => BuildInv'
<1> SUFFICES ASSUME BuildInv, [BuildNext]_all PROVE BuildInv'
  OBVIOUS
<1>1. CASE Plan
  <2>1. /\ entries' = entries /\ extra' = extra /\ phase' = "allocate"
        /\ free' = Merge(Regions(entries, extra)) /\ sizes' = Sizes(entries)
        /\ cursor' = [i \in DOMAIN free' |-> free'[i].start]
        /\ placed' = <<>> /\ outcome' = "placing"
    BY <1>1 DEF Plan, layout
  <2>2. Joined(free', Regions(entries, extra))
    BY <2>1, PlanFrees DEF BuildInv
  <2>3. free' \in Seq(Region) /\ Merged(free')
    BY <2>2, JoinedMerged
  <2>4. Merged(free)'
    BY <2>3 DEF Merged
  <2>5. sizes' \in Seq(Nat \ {0})
    BY <2>1, Orders DEF BuildInv
  <2>6. Fresh'
    BY <2>1, <2>3, <2>4, <2>5 DEF Fresh
  <2>7. AllocatorInv'
    BY <2>6, AllocatorFresh, PTL
  <2>8. (Bytes(ValuesOf(free)) = Bytes(Regions(entries, extra)))'
    BY <2>1, <2>2 DEF Joined
  <2> QED BY <2>1, <2>7, <2>8 DEF BuildInv
<1>2. CASE Allocate
  <2>1. /\ entries' = entries /\ extra' = extra /\ phase = "allocate" /\ Next
        /\ phase' = CASE outcome' = "placing" -> "allocate"
                      [] outcome' = "placed" -> "key"
                      [] outcome' = "refused" -> "refused"
    BY <1>2 DEF Allocate, layout
  <2>2. AllocatorInv' /\ free' = free /\ sizes' = sizes
    <3>1. AllocatorInv
      BY <2>1 DEF BuildInv
    <3>2. free' = free /\ sizes' = sizes
      BY <2>1 DEF Next, Place, Return, Refuse
    <3> QED BY <2>1, <3>1, <3>2, AllocatorStep
  <2>3. outcome' \in {"placing", "placed", "refused"}
    BY <2>2 DEF AllocatorInv, IInv, TypeOK
  <2>4. /\ phase' \in {"allocate", "key", "refused"}
        /\ phase' = "key" => outcome' = "placed"
    BY <2>1, <2>3
  <2>5. (sizes = Sizes(entries))' /\ (Bytes(ValuesOf(free)) = Bytes(Regions(entries, extra)))'
    BY <2>1, <2>2 DEF BuildInv
  <2> QED BY <2>1, <2>2, <2>4, <2>5 DEF BuildInv
<1>3. CASE KeyStreams
  <2>1. UNCHANGED <<layout, allocation>> /\ phase = "key" /\ phase' \in {"write", "refused"}
    BY <1>3 DEF KeyStreams
  <2> QED BY <2>1, BuildKeeps DEF BuildInv
<1>4. CASE WriteNext
  <2>1. UNCHANGED <<layout, allocation>> /\ phase = "write" /\ phase' \in {"write", "built"}
    BY <1>4 DEF WriteNext
  <2> QED BY <2>1, BuildKeeps DEF BuildInv
<1>5. CASE UNCHANGED all
  <2>1. UNCHANGED <<layout, allocation>> /\ phase' = phase
    BY <1>5 DEF all
  <2>2. CASE phase = "plan"
    BY <2>1, <2>2 DEF BuildInv, layout, allocation, vars
  <2>3. CASE phase # "plan"
    BY <2>1, <2>3, BuildKeeps DEF BuildInv
  <2> QED BY <2>2, <2>3
<1> QED BY <1>1, <1>2, <1>3, <1>4, <1>5 DEF BuildNext

LEMMA BuildInvariance == BuildSpec => []BuildInv
BY BuildStarts, BuildStep, PTL DEF BuildSpec

(* No two streams of an image share a byte of it, whatever was free.       *)
THEOREM StreamsOfAnImageApart == BuildSpec => []StreamsApart
<1>1. BuildInv => StreamsApart
  BY DEF BuildInv, AllocatorInv, IInv, StreamsApart
<1> QED BY <1>1, BuildInvariance, PTL

(* A build is refused for want of room only when no free region of the     *)
(* image, as it was planned, has as many bytes left as the stream is long. *)
THEOREM ImagesRefusedOnlyWhenFull == BuildSpec => []RefusedMeansFull
<1>1. ASSUME BuildInv PROVE RefusedMeansFull
  <2>1. CASE phase = "plan"
    BY <1>1, <2>1 DEF BuildInv, RefusedMeansFull
  <2>2. CASE phase # "plan"
    BY <1>1, <2>2, FullWhenRefused DEF BuildInv, AllocatorInv
  <2> QED BY <2>1, <2>2
<1> QED BY <1>1, BuildInvariance, PTL

(* What a build has to allocate from is exact for every list of streams and*)
(* of payloads: cutting the payloads out of the data banks and joining the *)
(* consumed stretches of the window lose no byte and invent none.          *)
THEOREM FreeBytesAreExact == BuildSpec => []FreeIsExact
<1>1. ASSUME BuildInv PROVE FreeIsExact
  <2> SUFFICES ASSUME phase = "allocate" PROVE Bytes(ValuesOf(free)) = FreeBytes
    BY Zenon DEF FreeIsExact, FreeBytes, Seen, Kept
  <2>1. Bytes(ValuesOf(free)) = Bytes(Regions(entries, extra))
    BY <1>1 DEF BuildInv
  <2> QED BY <1>1, <2>1, FreeRegions DEF BuildInv
<1> QED BY <1>1, BuildInvariance, PTL

\* Where a finished allocation puts each stream.
LEMMA Destinations ==
  ASSUME BuildInv, outcome = "placed", phase # "plan", NEW i \in DOMAIN entries
  PROVE  /\ Destination(i) \in Region
         /\ Destination(i).bank \in Nat /\ Destination(i).start \in Nat
         /\ Destination(i).end \in Nat /\ Destination(i).end <= BANK
         /\ Destination(i).end = Destination(i).start + entries[i].length
         /\ entries[i].length \in Nat \ {0}
         /\ \A a \in Destination(i).start .. Destination(i).end - 1 :
              <<Destination(i).bank, a>> \in FreeBytes
         /\ \A j \in DOMAIN entries : i # j => Apart(Destination(i), Destination(j))
<1> DEFINE p == Nth(entries, i)
<1>1. /\ entries \in EntryLists /\ extra \in ExtraLists /\ AllocatorInv
      /\ sizes = Sizes(entries) /\ Bytes(ValuesOf(free)) = FreeBytes
  BY FreeRegions DEF BuildInv
<1>2. /\ TypeOK /\ StreamsApart /\ InsideFree /\ Len(placed) = Len(sizes)
  BY <1>1, BehindInside DEF AllocatorInv, IInv, AllPlaced
<1>3. /\ DOMAIN placed = DOMAIN entries /\ DOMAIN entries = 1 .. Len(entries)
      /\ Len(entries) \in Nat
      /\ p \in DOMAIN entries /\ sizes[p] = entries[i].length
  <2>1. placed \in Seq(Region) /\ DOMAIN placed = 1 .. Len(placed)
    BY <1>2 DEF TypeOK
  <2> QED BY <1>1, <1>2, <2>1, Orders
<1>4. \A j \in DOMAIN entries : Destination(j) = placed[Nth(entries, j)]
  BY DEF Destination, Nth
<1> DEFINE d == Destination(i)
<1>5. d = placed[p] /\ d \in Region
  BY <1>2, <1>3, <1>4 DEF TypeOK
<1> HIDE DEF p, d
<1>6. d.bank \in Nat /\ d.start \in Nat /\ d.end \in Nat
  BY <1>5 DEF Region
<1>7. entries[i].length \in Nat \ {0}
  BY <1>1, Stream
<1>8. PICK f \in DOMAIN free : Within(d, free[f])
  BY <1>2, <1>3, <1>5 DEF InsideFree
<1>9. d.end - d.start = entries[i].length
  BY <1>2, <1>3, <1>5 DEF InsideFree
<1>10. free[f].start \in Nat /\ free[f].end \in Nat /\ free[f].end <= BANK
  <2>1. free[f] \in Region /\ free[f].end <= BANK
    BY <1>2 DEF TypeOK, Merged
  <2> QED BY <2>1 DEF Region
<1>11. d.end <= BANK /\ d.end = d.start + entries[i].length
  BY <1>6, <1>7, <1>8, <1>9, <1>10, Sizing DEF Within
<1>12. ASSUME NEW a \in d.start .. d.end - 1 PROVE <<d.bank, a>> \in FreeBytes
  <2>1. free[f].bank = d.bank /\ a \in free[f].start .. free[f].end - 1
    BY <1>6, <1>8, <1>10, <1>12 DEF Within
  <2>2. <<d.bank, a>> \in Bytes(ValuesOf(free))
    BY <2>1, ByteAt
  <2> QED BY <1>1, <2>2
<1>13. ASSUME NEW j \in DOMAIN entries, i # j PROVE Apart(d, Destination(j))
  <2> DEFINE q == Nth(entries, j)
  <2>1. q # p /\ Destination(j) = placed[q] /\ q \in DOMAIN entries
    <3>1. q # p
      BY <1>3, <1>13 DEF Nth, p
    <3>2. q \in DOMAIN entries
      BY <1>1, Orders
    <3> QED BY <1>4, <3>1, <3>2
  <2> QED BY <1>2, <1>3, <1>5, <2>1 DEF StreamsApart
<1> QED BY <1>5, <1>6, <1>7, <1>11, <1>12, <1>13 DEF d

-----------------------------------------------------------------------------
(* The addresses the build writes and the game reads.                      *)

\* The half of the file an address is in, counted in half banks.
Row(b, a) == IF a >= HALF THEN b ELSE IF b >= 3 * N THEN 2 * N + b ELSE 3 * N + b

\* The addresses used: the low halves of the LoROM banks and of their mirror
\* are the window's.
Used(b, a) ==
  /\ b \in Nat /\ b < 4 * N /\ a \in Nat /\ a < BANK
  /\ a >= HALF \/ (N <= b /\ b < 2 * N) \/ 3 * N <= b

LEMMA HalfSize == HALF \in Nat /\ HALF > 0 /\ BANK = HALF + HALF
<1>1. BANK = 2 * HALF /\ BANK \in Nat /\ BANK > 0
  BY HalvesAssumption, Sizing
<1>2. HALF \in Int
  BY <1>1 DEF HALF
<1> HIDE DEF HALF
<1> QED BY <1>1, <1>2

LEMMA FileRow ==
  ASSUME NEW b, NEW a, Used(b, a), NEW o, o = IF a < HALF THEN a ELSE a - HALF
  PROVE  /\ AddressToFile(b, a) = HALF * Row(b, a) + o
         /\ Row(b, a) \in Nat /\ Row(b, a) < 6 * N /\ o \in 0 .. HALF - 1
         /\ AddressToFile(b, a) \in DOMAIN Blank
<1>1. /\ N \in Nat /\ N > 0 /\ HALF \in Nat /\ HALF > 0 /\ BANK = HALF + HALF
      /\ b \in Nat /\ b < 4 * N /\ a \in Nat /\ a < BANK
  BY Sizing, HalfSize DEF Used
<1>2. WINDOW_BASE = 3 * N /\ LOROM_MIRROR_BASE = 2 * N /\ IMAGE_BANKS = 3 * N
  BY DEF WINDOW_BASE, LOROM_MIRROR_BASE, IMAGE_BANKS
<1> HIDE DEF HALF, WINDOW_BASE, LOROM_MIRROR_BASE, IMAGE_BANKS
<1> DEFINE r == Row(b, a)
<1>3. r \in Nat /\ r < 6 * N /\ o \in 0 .. HALF - 1
  BY <1>1 DEF Row
<1>4. AddressToFile(b, a) = HALF * r + o
  <2>1. CASE b >= WINDOW_BASE /\ a < HALF
    <3>1. AddressToFile(b, a) = LowHalf(LOROM_MIRROR_BASE + b - WINDOW_BASE) + a
      BY <1>1, <1>2, <2>1 DEF AddressToFile
    <3>2. r = 2 * N + b /\ o = a
      BY <1>1, <1>2, <2>1 DEF Row
    <3>3. LOROM_MIRROR_BASE + b - WINDOW_BASE + IMAGE_BANKS = 2 * N + b
      BY <1>1, <1>2
    <3>4. LowHalf(LOROM_MIRROR_BASE + b - WINDOW_BASE) = (2 * N + b) * HALF
      BY <3>3 DEF LowHalf
    <3> QED BY <1>1, <3>1, <3>2, <3>4
  <2>2. CASE b >= WINDOW_BASE /\ a >= HALF
    <3>1. AddressToFile(b, a) = LowHalf(b - WINDOW_BASE) + a - HALF
      BY <1>1, <1>2, <2>2 DEF AddressToFile
    <3>2. r = b /\ o = a - HALF
      BY <1>1, <1>2, <2>2 DEF Row
    <3>3. LowHalf(b - WINDOW_BASE) = b * HALF
      <4>1. b - WINDOW_BASE + IMAGE_BANKS = b
        BY <1>1, <1>2
      <4> QED BY <4>1 DEF LowHalf
    <3> QED BY <1>1, <3>1, <3>2, <3>3
  <2>3. CASE b < WINDOW_BASE /\ a < HALF
    <3>1. AddressToFile(b, a) = LowHalf(b) + a
      BY <1>1, <1>2, <2>3 DEF AddressToFile
    <3>2. r = 3 * N + b /\ o = a
      BY <1>1, <1>2, <2>3 DEF Row
    <3>3. LowHalf(b) = (3 * N + b) * HALF
      <4>1. b + IMAGE_BANKS = 3 * N + b
        BY <1>1, <1>2
      <4> QED BY <4>1 DEF LowHalf
    <3> QED BY <1>1, <3>1, <3>2, <3>3
  <2>4. CASE b < WINDOW_BASE /\ a >= HALF
    <3>1. AddressToFile(b, a) = HighHalf(b) + a - HALF
      BY <1>1, <1>2, <2>4 DEF AddressToFile
    <3>2. r = b /\ o = a - HALF
      BY <1>1, <1>2, <2>4 DEF Row
    <3> QED BY <1>1, <3>1, <3>2 DEF HighHalf
  <2> QED BY <1>1, <1>2, <2>1, <2>2, <2>3, <2>4
<1>5. AddressToFile(b, a) \in DOMAIN Blank
  <2>1. DOMAIN Blank = 0 .. 3 * N * BANK - 1
    BY <1>2 DEF Blank
  <2>2. HALF * (r + 1) <= HALF * (6 * N) /\ HALF * (r + 1) = HALF * r + HALF
        /\ HALF * (6 * N) = 3 * N * BANK
    <3> HIDE DEF r
    <3>1. r + 1 <= 6 * N /\ r + 1 \in Nat /\ 6 * N \in Nat
      BY <1>1, <1>3
    <3>2. \A x, y \in Nat : x <= y => HALF * x <= HALF * y
      BY <1>1
    <3>3. HALF * (r + 1) <= HALF * (6 * N)
      BY <3>1, <3>2
    <3> QED BY <1>1, <1>3, <3>3
  <2>3. HALF * r \in Nat /\ HALF * r + o < HALF * r + HALF
    BY <1>1, <1>3
  <2> DEFINE h == HALF * r
             t == 3 * N * BANK
  <2>4. h \in Nat /\ t \in Int /\ h + HALF <= t /\ h + o < h + HALF /\ o \in Nat
    BY <1>1, <1>3, <2>2, <2>3
  <2>5. AddressToFile(b, a) = h + o /\ DOMAIN Blank = 0 .. t - 1
    BY <1>4, <2>1
  <2> HIDE DEF h, t
  <2> QED BY <1>1, <2>4, <2>5
<1> QED BY <1>3, <1>4, <1>5

\* Two of them never share a byte of the file.
LEMMA FileOnce ==
  ASSUME NEW b, NEW a, Used(b, a), NEW c, NEW d, Used(c, d),
         AddressToFile(b, a) = AddressToFile(c, d)
  PROVE  b = c /\ a = d
<1> DEFINE o == IF a < HALF THEN a ELSE a - HALF
           u == IF d < HALF THEN d ELSE d - HALF
           q == Row(b, a)
           p == Row(c, d)
<1>1. /\ AddressToFile(b, a) = HALF * q + o /\ q \in Nat /\ o \in 0 .. HALF - 1
      /\ AddressToFile(c, d) = HALF * p + u /\ p \in Nat /\ u \in 0 .. HALF - 1
  <2>1. o = (IF a < HALF THEN a ELSE a - HALF) /\ u = (IF d < HALF THEN d ELSE d - HALF)
    OBVIOUS
  <2> HIDE DEF o, u
  <2>2. AddressToFile(b, a) = HALF * q + o /\ q \in Nat /\ o \in 0 .. HALF - 1
    BY <2>1, FileRow
  <2>3. AddressToFile(c, d) = HALF * p + u /\ p \in Nat /\ u \in 0 .. HALF - 1
    BY <2>1, FileRow
  <2> QED BY <2>2, <2>3
<1>2. HALF \in Nat \ {0}
  BY HalfSize
<1>3. q = p /\ o = u
  <2> HIDE DEF o, u, q, p
  <2>1. q \in Int /\ p \in Int /\ o \in 0 .. HALF - 1 /\ u \in 0 .. HALF - 1
    BY <1>1
  <2>2. HALF * q + o = HALF * p + u
    BY <1>1, Zenon
  <2> QED BY <1>2, <2>1, <2>2, OneSplit
<1>4. /\ N \in Nat /\ N > 0 /\ HALF \in Nat /\ HALF > 0 /\ BANK = HALF + HALF
  BY Sizing, HalfSize
<1> HIDE DEF HALF
<1>5. b = c /\ (a < HALF <=> d < HALF)
  BY <1>3, <1>4 DEF Used, Row
<1> QED BY <1>3, <1>4, <1>5 DEF Used

\* A write inside a bank.
LEMMA InBank ==
  ASSUME NEW bank \in Nat, NEW addr \in Nat, NEW k \in Nat, addr + k < BANK
  PROVE  Offset(bank, addr, k) = AddressToFile(bank, addr + k)
<1> DEFINE s == addr + k
<1>1. s \in 0 .. BANK - 1 /\ s = BANK * 0 + s
  BY Sizing
<1>2. s \div BANK = 0 /\ s % BANK = s
  <2> HIDE DEF s
  <2>1. (BANK * 0 + s) \div BANK = 0 /\ (BANK * 0 + s) % BANK = s
    BY <1>1, Sizing, SplitBack
  <2> QED BY <1>1, <2>1
<1>3. Offset(bank, addr, k) = AddressToFile(bank + s \div BANK, s % BANK)
  BY DEF Offset
<1> HIDE DEF s
<1>4. bank + 0 = bank
  OBVIOUS
<1>5. Offset(bank, addr, k) = AddressToFile(bank, s)
  BY <1>2, <1>3, <1>4
<1> QED BY <1>5 DEF s

\* What such a write changes: the bytes of its target and no other.
Wrote(img, new, bank, addr, data) ==
  /\ DOMAIN new = DOMAIN img
  /\ \A k \in DOMAIN data : new[AddressToFile(bank, addr + k - 1)] = data[k]
  /\ \A b, a : Used(b, a) /\ ~(b = bank /\ a \in addr .. addr + Len(data) - 1)
                 => new[AddressToFile(b, a)] = img[AddressToFile(b, a)]

LEMMA Places ==
  ASSUME NEW img, DOMAIN img = DOMAIN Blank, NEW bank \in Nat, NEW addr \in Nat,
         NEW L \in Nat, NEW data, data = [k \in 1 .. L |-> data[k]], Len(data) = L,
         \A k \in 1 .. L : Used(bank, addr + k - 1)
  PROVE  Wrote(img, PlaceBytes(img, bank, addr, data), bank, addr, data)
<1> DEFINE new == PlaceBytes(img, bank, addr, data)
           at == [k \in DOMAIN data |-> Offset(bank, addr, k - 1)]
           Last1(f) == CHOOSE k \in DOMAIN data :
                         at[k] = f /\ \A j \in DOMAIN data : j > k => at[j] # f
           Hit(f) == \E k \in DOMAIN data : at[k] = f
<1>1. DOMAIN data = 1 .. L
  OBVIOUS
<1>2. ASSUME NEW k \in 1 .. L
      PROVE  /\ addr + k - 1 \in Nat /\ at[k] = AddressToFile(bank, addr + k - 1)
             /\ at[k] \in DOMAIN img /\ Used(bank, addr + k - 1)
  <2>1. Used(bank, addr + k - 1)
    OBVIOUS
  <2>2. addr + k - 1 \in Nat /\ addr + k - 1 < BANK /\ k - 1 \in Nat
    BY <2>1 DEF Used
  <2>3. addr + (k - 1) = addr + k - 1
    OBVIOUS
  <2>4. Offset(bank, addr, k - 1) = AddressToFile(bank, addr + (k - 1))
    BY <2>2, <2>3, InBank
  <2>5. at[k] = Offset(bank, addr, k - 1)
    BY <1>1
  <2>6. AddressToFile(bank, addr + k - 1) \in DOMAIN img
    BY <2>1, FileRow
  <2> QED BY <2>1, <2>2, <2>3, <2>4, <2>5, <2>6
<1>3. \A k, j \in 1 .. L : at[k] = at[j] => k = j
  <2> SUFFICES ASSUME NEW k \in 1 .. L, NEW j \in 1 .. L, at[k] = at[j] PROVE k = j
    OBVIOUS
  <2>1. addr + k - 1 = addr + j - 1
    <3> HIDE DEF at
    <3> QED BY <1>2, FileOnce
  <2> QED BY <2>1
<1>4. /\ DOMAIN new = DOMAIN img
      /\ \A f \in DOMAIN img : new[f] = IF Hit(f) THEN data[Last1(f)] ELSE img[f]
  <2>1. new = [f \in DOMAIN img |-> IF Hit(f) THEN data[Last1(f)] ELSE img[f]]
    BY Zenon DEF PlaceBytes
  <2> HIDE DEF new, Hit, Last1
  <2> QED BY <2>1
<1> HIDE DEF new, at
<1>5. ASSUME NEW k \in 1 .. L
      PROVE  new[AddressToFile(bank, addr + k - 1)] = data[k]
  <2> DEFINE f == AddressToFile(bank, addr + k - 1)
  <2>1. f \in DOMAIN img /\ at[k] = f
    BY <1>2
  <2> HIDE DEF f
  <2>2. \A j \in 1 .. L : at[j] = f => j = k
    BY <1>3, <2>1
  <2>3. Last1(f) = k
    <3>1. /\ k \in DOMAIN data /\ at[k] = f
          /\ \A j \in DOMAIN data : j > k => at[j] # f
      BY <1>1, <2>1, <2>2
    <3> QED BY <1>1, <2>2, <3>1
  <2>4. Hit(f)
    BY <1>1, <2>1
  <2> HIDE DEF Hit, Last1
  <2>5. new[f] = data[k]
    BY <1>4, <2>1, <2>3, <2>4
  <2> QED BY <2>5 DEF f
<1>6. ASSUME NEW b, NEW a, Used(b, a), ~(b = bank /\ a \in addr .. addr + Len(data) - 1)
      PROVE  new[AddressToFile(b, a)] = img[AddressToFile(b, a)]
  <2> DEFINE f == AddressToFile(b, a)
  <2>1. f \in DOMAIN img
    BY <1>6, FileRow
  <2>2. ~Hit(f)
    <3> SUFFICES ASSUME NEW k \in 1 .. L, at[k] = f PROVE FALSE
      BY <1>1
    <3>1. b = bank /\ a = addr + k - 1
      BY <1>2, <1>6, FileOnce
    <3>2. a \in addr .. addr + L - 1
      BY <3>1
    <3> QED BY <1>6, <3>1, <3>2
  <2> HIDE DEF Hit, Last1, f
  <2>3. new[f] = img[f]
    BY <1>4, <2>1, <2>2
  <2> QED BY <2>3 DEF f
<1> QED BY <1>1, <1>4, <1>5, <1>6 DEF Wrote, new

-----------------------------------------------------------------------------
(* The writes, and what each leaves of the ones before it.                 *)

FB == Bytes(Regions(entries, extra))

LoromHas(img, n) ==
  \A a \in HALF .. BANK - 1 :
    /\ img[AddressToFile(n, a)] = <<"rom", n * HALF + a - HALF>>
    /\ img[AddressToFile(LOROM_MIRROR_BASE + n, a)] = <<"rom", n * HALF + a - HALF>>

WindowHas(img, n) ==
  \A a \in 0 .. BANK - 1 :
    <<WINDOW_BASE + n, a>> \notin FB =>
      img[AddressToFile(WINDOW_BASE + n, a)] = <<"rom", n * BANK + a>>

TableHas(img) ==
  \A a \in 0 .. BANK - 1 : img[AddressToFile(TABLE_BANK, a)] = TableBytes[a + 1]

StreamHas(img, i) ==
  \A k \in 1 .. entries[i].length :
    img[AddressToFile(Destination(i).bank, Destination(i).start + k - 1)] = <<"stream", i, k>>

\* What is in the file after s writes.
Holds(img, s) ==
  /\ \A n \in 0 .. N - 1 : n < s => LoromHas(img, n)
  /\ \A n \in 0 .. N - 1 : N + n < s => WindowHas(img, n)
  /\ 2 * N < s => TableHas(img)
  /\ \A i \in DOMAIN entries : 2 * N + i < s => StreamHas(img, i)

\* What is free lies in the data banks and the window, off the tables.
LEMMA FreeBanks ==
  ASSUME entries \in EntryLists, extra \in ExtraLists, NEW b, NEW a, <<b, a>> \in FB
  PROVE  /\ Used(b, a) /\ b # TABLE_BANK
         /\ (b < 2 * N /\ N <= b /\ <<b, a>> \notin Bytes(ValuesOf(SpansOf(extra))))
              \/ (3 * N <= b /\ \E c \in Spent : Seen(c) = <<b, a>>)
<1>1. FB = FreeBytes
  BY FreeRegions DEF FB
<1>2. CASE <<b, a>> \in Bytes(DataBankRegions) \ Bytes(ValuesOf(SpansOf(extra)))
  <2>1. PICK r \in DataBankRegions : r.bank = b /\ a \in r.start .. r.end - 1
    BY <1>2, ByteOf
  <2>2. PICK c \in (N .. 2 * N - 1) \ ({TABLE_BANK} \union WRAM_BANKS) : r = Span(c, 0, BANK)
    BY <2>1 DEF DataBankRegions
  <2>3. c = b /\ a \in 0 .. BANK - 1
    BY <2>1, <2>2 DEF Span
  <2>4. b \in Nat /\ N <= b /\ b < 2 * N /\ b # TABLE_BANK /\ a \in Nat /\ a < BANK
    BY <2>2, <2>3, Sizing
  <2> QED BY <1>2, <2>4, Sizing DEF Used
<1>3. CASE \E c \in Kept : Seen(c) = <<b, a>>
  <2>1. PICK c \in Spent : Seen(c) = <<b, a>>
    BY <1>3 DEF Kept
  <2>2. c \in Nat /\ c < BANK * N
    BY Sizing DEF Spent, Rom
  <2> DEFINE q == c \div BANK
             o == c % BANK
  <2>3. q \in Nat /\ o \in 0 .. BANK - 1 /\ c = BANK * q + o
    BY <2>2, Sizing, Split
  <2>4. b = WINDOW_BASE + q /\ a = o
    BY <2>1 DEF Seen
  <2> HIDE DEF q, o
  <2>5. q < N
    <3> SUFFICES ASSUME N <= q PROVE FALSE
      BY <2>3, Sizing
    <3>1. BANK * N <= BANK * q /\ BANK * q \in Nat /\ BANK * N \in Nat
      BY <2>3, Sizing
    <3> QED BY <2>2, <2>3, <3>1
  <2>6. b \in Nat /\ 3 * N <= b /\ b < 4 * N /\ a \in Nat /\ a < BANK
    BY <2>3, <2>4, <2>5, Sizing
  <2>7. b # TABLE_BANK
    BY <2>6, BanksAssumption, Sizing
  <2> QED BY <2>1, <2>6, <2>7 DEF Used
<1> QED BY <1>1, <1>2, <1>3 DEF FreeBytes

LEMMA Banks ==
  /\ LOROM_MIRROR_BASE = 2 * N /\ WINDOW_BASE = 3 * N
  /\ TABLE_BANK \in Nat /\ N <= TABLE_BANK /\ TABLE_BANK < 2 * N
BY Sizing, BanksAssumption DEF LOROM_MIRROR_BASE

\* A bank of the ROM stays as it is under a write to another bank.
LEMMA LoromKept ==
  ASSUME NEW img, NEW new, NEW bank, NEW addr, NEW data, Wrote(img, new, bank, addr, data),
         NEW n \in 0 .. N - 1, LoromHas(img, n), bank # n, bank # LOROM_MIRROR_BASE + n
  PROVE  LoromHas(new, n)
<1> SUFFICES ASSUME NEW a \in HALF .. BANK - 1
             PROVE  /\ new[AddressToFile(n, a)] = <<"rom", n * HALF + a - HALF>>
                    /\ new[AddressToFile(LOROM_MIRROR_BASE + n, a)] =
                         <<"rom", n * HALF + a - HALF>>
  BY DEF LoromHas
<1>1. Used(n, a) /\ Used(LOROM_MIRROR_BASE + n, a)
  <2>1. /\ a \in Nat /\ a >= HALF /\ a < BANK /\ n \in Nat /\ n < N /\ 2 * N + n \in Nat
        /\ 2 * N + n < 4 * N /\ n < 4 * N
    BY Sizing, HalfSize
  <2> QED BY <2>1, Banks DEF Used
<1>2. /\ new[AddressToFile(n, a)] = img[AddressToFile(n, a)]
      /\ new[AddressToFile(LOROM_MIRROR_BASE + n, a)] =
           img[AddressToFile(LOROM_MIRROR_BASE + n, a)]
  BY <1>1 DEF Wrote
<1> QED BY <1>2 DEF LoromHas

LEMMA WindowKept ==
  ASSUME NEW img, NEW new, NEW bank, NEW addr, NEW data, Wrote(img, new, bank, addr, data),
         NEW n \in 0 .. N - 1, WindowHas(img, n),
         \A a : bank = WINDOW_BASE + n /\ a \in addr .. addr + Len(data) - 1
                  => <<WINDOW_BASE + n, a>> \in FB
  PROVE  WindowHas(new, n)
<1> SUFFICES ASSUME NEW a \in 0 .. BANK - 1, <<WINDOW_BASE + n, a>> \notin FB
             PROVE  new[AddressToFile(WINDOW_BASE + n, a)] = <<"rom", n * BANK + a>>
  BY DEF WindowHas
<1>1. Used(WINDOW_BASE + n, a)
  <2>1. /\ a \in Nat /\ a < BANK /\ n \in Nat /\ n < N /\ 3 * N + n \in Nat
        /\ 3 * N + n < 4 * N /\ 3 * N <= 3 * N + n
    BY Sizing
  <2> QED BY <2>1, Banks DEF Used
<1>2. new[AddressToFile(WINDOW_BASE + n, a)] = img[AddressToFile(WINDOW_BASE + n, a)]
  BY <1>1 DEF Wrote
<1> QED BY <1>2 DEF WindowHas

LEMMA TableKept ==
  ASSUME NEW img, NEW new, NEW bank, NEW addr, NEW data, Wrote(img, new, bank, addr, data),
         TableHas(img), bank # TABLE_BANK
  PROVE  TableHas(new)
<1> SUFFICES ASSUME NEW a \in 0 .. BANK - 1
             PROVE  new[AddressToFile(TABLE_BANK, a)] = TableBytes[a + 1]
  BY DEF TableHas
<1>1. Used(TABLE_BANK, a)
  <2>1. a \in Nat /\ a < BANK /\ TABLE_BANK < 4 * N
    BY Sizing, Banks
  <2> QED BY <2>1, Banks DEF Used
<1>2. new[AddressToFile(TABLE_BANK, a)] = img[AddressToFile(TABLE_BANK, a)]
  BY <1>1 DEF Wrote
<1> QED BY <1>2 DEF TableHas

\* The build has its destinations.
Allocated == BuildInv /\ phase # "plan" /\ outcome = "placed"

\* The bytes of a stream are free ones.
LEMMA StreamAt ==
  ASSUME Allocated, NEW i \in DOMAIN entries, NEW k \in 1 .. entries[i].length,
         NEW d, d = Destination(i)
  PROVE  /\ d.start + k - 1 \in d.start .. d.end - 1
         /\ d.start \in Nat /\ d.end \in Nat /\ k \in Nat /\ d.start + k - 1 \in Nat
         /\ <<d.bank, d.start + k - 1>> \in FB /\ Used(d.bank, d.start + k - 1)
<1>1. entries \in EntryLists /\ extra \in ExtraLists
  BY DEF Allocated, BuildInv
<1>2. /\ d.start \in Nat /\ d.end = d.start + entries[i].length /\ d.end \in Nat
      /\ entries[i].length \in Nat
      /\ \A a \in d.start .. d.end - 1 : <<d.bank, a>> \in FreeBytes
  BY Destinations DEF Allocated
<1>3. d.start + k - 1 \in d.start .. d.end - 1 /\ d.start + k - 1 \in Nat /\ k \in Nat
  BY <1>2
<1>4. <<d.bank, d.start + k - 1>> \in FB
  BY <1>1, <1>2, <1>3, FreeRegions DEF FB
<1>5. Used(d.bank, d.start + k - 1)
  BY <1>1, <1>4, FreeBanks
<1> QED BY <1>2, <1>3, <1>4, <1>5

LEMMA StreamKept ==
  ASSUME NEW img, NEW new, NEW bank, NEW addr, NEW data, Wrote(img, new, bank, addr, data),
         Allocated, NEW i \in DOMAIN entries, StreamHas(img, i),
         \A k \in 1 .. entries[i].length :
           ~(/\ bank = Destination(i).bank
             /\ Destination(i).start + k - 1 \in addr .. addr + Len(data) - 1)
  PROVE  StreamHas(new, i)
<1> DEFINE d == Destination(i)
<1> SUFFICES ASSUME NEW k \in 1 .. entries[i].length
             PROVE  new[AddressToFile(d.bank, d.start + k - 1)] = <<"stream", i, k>>
  BY DEF StreamHas
<1>1. Used(d.bank, d.start + k - 1)
  BY StreamAt
<1>2. new[AddressToFile(d.bank, d.start + k - 1)] = img[AddressToFile(d.bank, d.start + k - 1)]
  <2> HIDE DEF d
  <2>1. ~(d.bank = bank /\ d.start + k - 1 \in addr .. addr + Len(data) - 1)
    BY DEF d
  <2> QED BY <1>1, <2>1 DEF Wrote
<1> QED BY <1>2 DEF StreamHas

LEMMA Numbered ==
  ASSUME Allocated
  PROVE  /\ entries \in EntryLists /\ extra \in ExtraLists
         /\ DOMAIN entries = 1 .. Len(entries) /\ Len(entries) \in Nat
         /\ DOMAIN entries \subseteq Nat
         /\ DOMAIN extra = 1 .. Len(extra) /\ Len(extra) \in Nat
<1>1. entries \in EntryLists /\ extra \in ExtraLists
  BY DEF Allocated, BuildInv
<1> QED BY <1>1, Orders, Payload

\* A bank of the ROM written behind the LoROM banks and their mirror.
LEMMA WritesLorom ==
  ASSUME Allocated, DOMAIN image = DOMAIN Blank, NEW n \in 0 .. N - 1, Holds(image, n)
  PROVE  DOMAIN WriteLorom(n) = DOMAIN Blank /\ Holds(WriteLorom(n), n + 1)
<1> DEFINE data == RomBytes(n * HALF, HALF)
           mid == PlaceBytes(image, n, HALF, data)
           new == PlaceBytes(mid, LOROM_MIRROR_BASE + n, HALF, data)
<1>1. /\ n \in Nat /\ n < N /\ N \in Nat /\ HALF \in Nat /\ HALF > 0 /\ BANK = HALF + HALF
      /\ LOROM_MIRROR_BASE = 2 * N /\ WINDOW_BASE = 3 * N
  BY Sizing, HalfSize, Banks
<1>2. /\ data = [k \in 1 .. HALF |-> data[k]] /\ Len(data) = HALF /\ DOMAIN data = 1 .. HALF
      /\ \A k \in 1 .. HALF : data[k] = <<"rom", n * HALF + k - 1>>
  BY <1>1 DEF RomBytes
<1>3. WriteLorom(n) = new
  BY DEF WriteLorom
<1> HIDE DEF data, HALF, LOROM_MIRROR_BASE
<1>4. \A k \in 1 .. HALF : Used(n, HALF + k - 1) /\ Used(LOROM_MIRROR_BASE + n, HALF + k - 1)
  BY <1>1 DEF Used
<1>5. Wrote(image, mid, n, HALF, data)
  BY <1>1, <1>2, <1>4, Places
<1>6. DOMAIN mid = DOMAIN Blank
  BY <1>5 DEF Wrote
<1> HIDE DEF mid
<1>7. Wrote(mid, new, LOROM_MIRROR_BASE + n, HALF, data)
  <2>1. LOROM_MIRROR_BASE + n \in Nat
    BY <1>1
  <2> QED BY <1>1, <1>2, <1>4, <1>6, <2>1, Places
<1> HIDE DEF new
<1>8. ASSUME NEW m \in 0 .. N - 1, m < n PROVE LoromHas(new, m)
  <2>1. LoromHas(image, m)
    BY <1>8 DEF Holds
  <2>2. /\ n # m /\ n # LOROM_MIRROR_BASE + m
        /\ LOROM_MIRROR_BASE + n # m /\ LOROM_MIRROR_BASE + n # LOROM_MIRROR_BASE + m
    BY <1>1, <1>8
  <2>3. LoromHas(mid, m)
    BY <1>5, <2>1, <2>2, LoromKept
  <2> QED BY <1>7, <2>2, <2>3, LoromKept
<1>9. LoromHas(new, n)
  <2> SUFFICES ASSUME NEW a \in HALF .. BANK - 1
               PROVE  /\ new[AddressToFile(n, a)] = <<"rom", n * HALF + a - HALF>>
                      /\ new[AddressToFile(LOROM_MIRROR_BASE + n, a)] =
                           <<"rom", n * HALF + a - HALF>>
    BY DEF LoromHas
  <2> DEFINE k == a - HALF + 1
  <2>1. /\ k \in 1 .. HALF /\ HALF + k - 1 = a /\ n * HALF + k - 1 = n * HALF + a - HALF
    <3>1. n * HALF \in Int
      BY <1>1
    <3> QED BY <1>1, <3>1
  <2> HIDE DEF k
  <2>2. Used(n, a) /\ n # LOROM_MIRROR_BASE + n
    <3>1. Used(n, HALF + k - 1)
      BY <1>4, <2>1
    <3> QED BY <1>1, <2>1, <3>1
  <2>3. mid[AddressToFile(n, HALF + k - 1)] = data[k]
    BY <1>2, <1>5, <2>1 DEF Wrote
  <2>4. new[AddressToFile(n, a)] = mid[AddressToFile(n, a)]
    BY <1>7, <2>2 DEF Wrote
  <2>5. new[AddressToFile(LOROM_MIRROR_BASE + n, HALF + k - 1)] = data[k]
    BY <1>2, <1>7, <2>1 DEF Wrote
  <2>6. data[k] = <<"rom", n * HALF + a - HALF>>
    BY <1>2, <2>1
  <2> QED BY <2>1, <2>3, <2>4, <2>5, <2>6
<1>10. Holds(new, n + 1)
  <2>1. \A m \in 0 .. N - 1 : m < n + 1 => m < n \/ m = n
    BY <1>1
  <2>2. \A m \in 0 .. N - 1 : ~(N + m < n + 1)
    BY <1>1
  <2>3. ~(2 * N < n + 1) /\ \A i \in DOMAIN entries : i \in Nat => ~(2 * N + i < n + 1)
    BY <1>1
  <2>4. \A i \in DOMAIN entries : 2 * N + i < n + 1 => StreamHas(new, i)
    <3>1. DOMAIN entries \subseteq Nat
      BY Numbered
    <3> QED BY <2>3, <3>1
  <2> QED BY <1>8, <1>9, <2>1, <2>2, <2>3, <2>4 DEF Holds
<1>11. DOMAIN new = DOMAIN Blank
  BY <1>6, <1>7 DEF Wrote
<1> QED BY <1>3, <1>10, <1>11

\* A bank of the ROM written in the window.
LEMMA WritesWindow ==
  ASSUME Allocated, DOMAIN image = DOMAIN Blank, NEW n \in 0 .. N - 1, Holds(image, N + n)
  PROVE  DOMAIN WriteWindow(n) = DOMAIN Blank /\ Holds(WriteWindow(n), N + n + 1)
<1> DEFINE data == RomBytes(n * BANK, BANK)
           new == PlaceBytes(image, WINDOW_BASE + n, 0, data)
<1>1. /\ n \in Nat /\ n < N /\ N \in Nat /\ BANK \in Nat /\ BANK > 0
      /\ LOROM_MIRROR_BASE = 2 * N /\ WINDOW_BASE = 3 * N /\ WINDOW_BASE + n \in Nat
  BY Sizing, Banks
<1>2. /\ data = [k \in 1 .. BANK |-> data[k]] /\ Len(data) = BANK /\ DOMAIN data = 1 .. BANK
      /\ \A k \in 1 .. BANK : data[k] = <<"rom", n * BANK + k - 1>>
  BY <1>1 DEF RomBytes
<1>3. WriteWindow(n) = new
  BY DEF WriteWindow
<1> HIDE DEF data, LOROM_MIRROR_BASE, WINDOW_BASE
<1>4. \A k \in 1 .. BANK : Used(WINDOW_BASE + n, 0 + k - 1)
  BY <1>1 DEF Used
<1>5. Wrote(image, new, WINDOW_BASE + n, 0, data)
  BY <1>1, <1>2, <1>4, Places
<1> HIDE DEF new
<1>6. ASSUME NEW m \in 0 .. N - 1 PROVE LoromHas(new, m)
  <2>1. LoromHas(image, m)
    BY <1>1 DEF Holds
  <2>2. WINDOW_BASE + n # m /\ WINDOW_BASE + n # LOROM_MIRROR_BASE + m
    BY <1>1
  <2> QED BY <1>5, <2>1, <2>2, LoromKept
<1>7. ASSUME NEW m \in 0 .. N - 1, m < n PROVE WindowHas(new, m)
  <2>1. WindowHas(image, m)
    BY <1>1, <1>7 DEF Holds
  <2>2. WINDOW_BASE + n # WINDOW_BASE + m
    BY <1>1, <1>7
  <2> QED BY <1>5, <2>1, <2>2, WindowKept
<1>8. WindowHas(new, n)
  <2> SUFFICES ASSUME NEW a \in 0 .. BANK - 1
               PROVE  new[AddressToFile(WINDOW_BASE + n, a)] = <<"rom", n * BANK + a>>
    BY DEF WindowHas
  <2> DEFINE k == a + 1
  <2>1. k \in 1 .. BANK /\ 0 + k - 1 = a /\ n * BANK + k - 1 = n * BANK + a
    <3>1. n * BANK \in Int
      BY <1>1
    <3> QED BY <1>1, <3>1
  <2> HIDE DEF k
  <2>2. new[AddressToFile(WINDOW_BASE + n, 0 + k - 1)] = data[k]
    BY <1>2, <1>5, <2>1 DEF Wrote
  <2> QED BY <1>2, <2>1, <2>2
<1>9. Holds(new, N + n + 1)
  <2>1. \A m \in 0 .. N - 1 : N + m < N + n + 1 => m < n \/ m = n
    BY <1>1
  <2>2. ~(2 * N < N + n + 1)
    BY <1>1
  <2>3. \A i \in DOMAIN entries : ~(2 * N + i < N + n + 1)
    <3>1. DOMAIN entries \subseteq Nat
      BY Numbered
    <3> QED BY <1>1, <3>1
  <2> QED BY <1>6, <1>7, <1>8, <2>1, <2>2, <2>3 DEF Holds
<1>10. DOMAIN new = DOMAIN Blank
  BY <1>5 DEF Wrote
<1> QED BY <1>3, <1>9, <1>10

\* The tables.
LEMMA WritesTables ==
  ASSUME Allocated, DOMAIN image = DOMAIN Blank, Holds(image, 2 * N)
  PROVE  DOMAIN WriteTables = DOMAIN Blank /\ Holds(WriteTables, 2 * N + 1)
<1> DEFINE new == PlaceBytes(image, TABLE_BANK, 0, TableBytes)
<1>1. /\ N \in Nat /\ BANK \in Nat /\ BANK > 0
      /\ LOROM_MIRROR_BASE = 2 * N /\ WINDOW_BASE = 3 * N
      /\ TABLE_BANK \in Nat /\ N <= TABLE_BANK /\ TABLE_BANK < 2 * N
  BY Sizing, Banks
<1>2. /\ TableBytes = [k \in 1 .. BANK |-> TableBytes[k]] /\ Len(TableBytes) = BANK
      /\ DOMAIN TableBytes = 1 .. BANK
  <2> DEFINE F(k) == IF \E i \in DOMAIN entries : slots[i] = k - 1
                     THEN LET i == CHOOSE i \in DOMAIN entries : slots[i] = k - 1
                          IN <<"key", Key(i).bank, Destination(i).bank, Destination(i).start>>
                     ELSE <<"empty">>
  <2>1. TableBytes = [k \in 1 .. BANK |-> F(k)]
    BY Zenon DEF TableBytes
  <2> HIDE DEF F
  <2> QED BY <1>1, <2>1
<1>3. WriteTables = new
  BY DEF WriteTables
<1> HIDE DEF LOROM_MIRROR_BASE, WINDOW_BASE
<1>4. \A k \in 1 .. BANK : Used(TABLE_BANK, 0 + k - 1)
  BY <1>1 DEF Used
<1>5. Wrote(image, new, TABLE_BANK, 0, TableBytes)
  BY <1>1, <1>2, <1>4, Places
<1> HIDE DEF new
<1>6. ASSUME NEW m \in 0 .. N - 1 PROVE LoromHas(new, m) /\ WindowHas(new, m)
  <2>1. LoromHas(image, m) /\ WindowHas(image, m)
    BY <1>1 DEF Holds
  <2>2. TABLE_BANK # m /\ TABLE_BANK # LOROM_MIRROR_BASE + m /\ TABLE_BANK # WINDOW_BASE + m
    BY <1>1
  <2> QED BY <1>5, <2>1, <2>2, LoromKept, WindowKept
<1>7. TableHas(new)
  <2> SUFFICES ASSUME NEW a \in 0 .. BANK - 1
               PROVE  new[AddressToFile(TABLE_BANK, a)] = TableBytes[a + 1]
    BY DEF TableHas
  <2> DEFINE k == a + 1
  <2>1. k \in 1 .. BANK /\ 0 + k - 1 = a
    BY <1>1
  <2> HIDE DEF k
  <2>2. new[AddressToFile(TABLE_BANK, 0 + k - 1)] = TableBytes[k]
    BY <1>2, <1>5, <2>1 DEF Wrote
  <2> QED BY <2>1, <2>2 DEF k
<1>8. Holds(new, 2 * N + 1)
  <2>1. \A i \in DOMAIN entries : ~(2 * N + i < 2 * N + 1)
    <3>1. DOMAIN entries = 1 .. Len(entries)
      BY Numbered
    <3> QED BY <1>1, <3>1
  <2> QED BY <1>6, <1>7, <2>1 DEF Holds
<1>9. DOMAIN new = DOMAIN Blank
  BY <1>5 DEF Wrote
<1> QED BY <1>3, <1>8, <1>9

\* A write to free bytes spares the game's view and the tables.
LEMMA FreeKept ==
  ASSUME NEW img, NEW new, NEW bank, NEW addr, NEW data, Wrote(img, new, bank, addr, data),
         NEW s \in Nat, Holds(img, s), bank \in Nat, bank # TABLE_BANK,
         N <= bank, bank < 2 * N \/ 3 * N <= bank,
         \A a : bank >= 3 * N /\ a \in addr .. addr + Len(data) - 1 => <<bank, a>> \in FB
  PROVE  /\ \A n \in 0 .. N - 1 : n < s => LoromHas(new, n)
         /\ \A n \in 0 .. N - 1 : N + n < s => WindowHas(new, n)
         /\ 2 * N < s => TableHas(new)
<1>1. /\ N \in Nat /\ LOROM_MIRROR_BASE = 2 * N /\ WINDOW_BASE = 3 * N
  BY Sizing, Banks
<1> HIDE DEF LOROM_MIRROR_BASE, WINDOW_BASE
<1>2. ASSUME NEW n \in 0 .. N - 1, n < s PROVE LoromHas(new, n)
  <2>1. LoromHas(img, n)
    BY <1>2 DEF Holds
  <2>2. bank # n /\ bank # LOROM_MIRROR_BASE + n
    BY <1>1
  <2> QED BY <2>1, <2>2, LoromKept
<1>3. ASSUME NEW n \in 0 .. N - 1, N + n < s PROVE WindowHas(new, n)
  <2>1. WindowHas(img, n)
    BY <1>3 DEF Holds
  <2>2. bank = WINDOW_BASE + n => bank >= 3 * N
    BY <1>1
  <2>3. \A a : bank = WINDOW_BASE + n /\ a \in addr .. addr + Len(data) - 1
                 => <<WINDOW_BASE + n, a>> \in FB
    BY <2>2
  <2> QED BY <2>1, <2>3, WindowKept
<1>4. ASSUME 2 * N < s PROVE TableHas(new)
  BY <1>4, TableKept DEF Holds
<1> QED BY <1>2, <1>3, <1>4

\* A stream.
LEMMA WritesStream ==
  ASSUME Allocated, DOMAIN image = DOMAIN Blank, NEW i \in DOMAIN entries,
         Holds(image, 2 * N + i)
  PROVE  DOMAIN WriteStream(i) = DOMAIN Blank /\ Holds(WriteStream(i), 2 * N + i + 1)
<1> DEFINE data == StreamBytes(i)
           d == Destination(i)
           L == entries[i].length
           new == PlaceBytes(image, d.bank, d.start, data)
<1>1. /\ d.bank \in Nat /\ d.start \in Nat /\ d.end \in Nat /\ d.end = d.start + L
      /\ L \in Nat /\ L > 0 /\ \A a \in d.start .. d.end - 1 : <<d.bank, a>> \in FB
  <2>1. /\ d.bank \in Nat /\ d.start \in Nat /\ d.end \in Nat /\ d.end = d.start + L
        /\ L \in Nat \ {0} /\ \A a \in d.start .. d.end - 1 : <<d.bank, a>> \in FreeBytes
    BY Destinations DEF Allocated
  <2>2. FB = FreeBytes
    BY Numbered, FreeRegions DEF FB
  <2> QED BY <2>1, <2>2
<1>2. /\ data = [k \in 1 .. L |-> data[k]] /\ Len(data) = L /\ DOMAIN data = 1 .. L
      /\ \A k \in 1 .. L : data[k] = <<"stream", i, k>>
  BY <1>1 DEF StreamBytes
<1>3. WriteStream(i) = new
  BY DEF WriteStream
<1>4. \A k \in 1 .. L : Used(d.bank, d.start + k - 1)
  BY StreamAt
<1>5. i \in Nat /\ N \in Nat /\ DOMAIN entries \subseteq Nat
  BY Numbered, Sizing
<1>6. d.bank # TABLE_BANK /\ N <= d.bank /\ (d.bank < 2 * N \/ 3 * N <= d.bank)
  <2>1. d.start \in d.start .. d.end - 1
    BY <1>1
  <2>2. <<d.bank, d.start>> \in FB
    BY <1>1, <2>1
  <2> HIDE DEF d
  <2>3. d.bank # TABLE_BANK
        /\ ((d.bank < 2 * N /\ N <= d.bank) \/ 3 * N <= d.bank)
    BY <2>2, Numbered, FreeBanks
  <2> QED BY <1>1, <1>5, <2>3
<1>7. ASSUME NEW j \in DOMAIN entries, j # i, NEW k \in 1 .. entries[j].length,
             d.bank = Destination(j).bank,
             Destination(j).start + k - 1 \in d.start .. d.start + L - 1
      PROVE  FALSE
  <2> DEFINE c == Destination(j)
  <2>1. Apart(d, c)
    BY <1>7, Destinations DEF Allocated
  <2>2. /\ c.start + k - 1 \in c.start .. c.end - 1 /\ c.start \in Nat /\ c.end \in Nat
        /\ c.start + k - 1 \in Nat
    BY StreamAt
  <2> DEFINE a == c.start + k - 1
  <2>3. a \in d.start .. d.end - 1 /\ a \in c.start .. c.end - 1
    BY <1>1, <1>7, <2>2
  <2> HIDE DEF a, c, d
  <2> QED BY <1>1, <1>7, <2>1, <2>2, <2>3 DEF Apart, c
<1> HIDE DEF data, d, L
<1>8. Wrote(image, new, d.bank, d.start, data)
  BY <1>1, <1>2, <1>4, Places
<1> HIDE DEF new
<1> DEFINE s == 2 * N + i
<1>9. /\ \A n \in 0 .. N - 1 : n < s => LoromHas(new, n)
      /\ \A n \in 0 .. N - 1 : N + n < s => WindowHas(new, n)
      /\ 2 * N < s => TableHas(new)
  <2>1. s \in Nat /\ Holds(image, s)
    BY <1>5
  <2>2. \A a : a \in d.start .. d.start + Len(data) - 1 => <<d.bank, a>> \in FB
    BY <1>1, <1>2
  <2> HIDE DEF s
  <2> QED BY <1>1, <1>6, <1>8, <2>1, <2>2, FreeKept
<1>10. ASSUME NEW j \in DOMAIN entries, j < i PROVE StreamHas(new, j)
  <2>1. StreamHas(image, j)
    <3>1. 2 * N + j < 2 * N + i
      BY <1>5, <1>10
    <3> QED BY <3>1 DEF Holds
  <2>2. j # i
    BY <1>5, <1>10
  <2>3. \A k \in 1 .. entries[j].length :
          ~(/\ d.bank = Destination(j).bank
            /\ Destination(j).start + k - 1 \in d.start .. d.start + Len(data) - 1)
    BY <1>2, <1>7, <2>2
  <2> QED BY <1>8, <2>1, <2>3, StreamKept
<1>11. StreamHas(new, i)
  <2> SUFFICES ASSUME NEW k \in 1 .. L
               PROVE  new[AddressToFile(d.bank, d.start + k - 1)] = <<"stream", i, k>>
    BY DEF StreamHas, d, L
  <2> QED BY <1>2, <1>8 DEF Wrote
<1>12. Holds(new, s + 1)
  <2>1. \A n \in 0 .. N - 1 : n < s /\ N + n < s
    BY <1>5
  <2>2. 2 * N < s
    <3>1. i > 0
      BY Numbered
    <3> QED BY <1>5, <3>1
  <2>3. \A j \in DOMAIN entries : 2 * N + j < s + 1 => j < i \/ j = i
    BY <1>5
  <2> HIDE DEF s
  <2> QED BY <1>9, <1>10, <1>11, <2>1, <2>2, <2>3 DEF Holds
<1>13. DOMAIN new = DOMAIN Blank
  BY <1>8 DEF Wrote
<1> QED BY <1>3, <1>12, <1>13

\* A payload.
LEMMA WritesExtra ==
  ASSUME Allocated, DOMAIN image = DOMAIN Blank, NEW x \in DOMAIN extra,
         NEW s \in Nat, s > 2 * N + Len(entries), Holds(image, s)
  PROVE  DOMAIN WriteExtra(x) = DOMAIN Blank /\ Holds(WriteExtra(x), s + 1)
<1> DEFINE data == ExtraBytes(x)
           bank == extra[x].bank
           addr == extra[x].addr
           L == extra[x].length
           new == PlaceBytes(image, bank, addr, data)
<1>1. /\ bank \in Nat /\ N <= bank /\ bank < 2 * N /\ bank # TABLE_BANK
      /\ addr \in Nat /\ L \in Nat /\ addr + L <= BANK
      /\ N \in Nat /\ BANK \in Nat
  <2>1. /\ bank \in N .. 2 * N - 1 /\ bank # TABLE_BANK /\ bank \in Nat
        /\ addr \in Nat /\ L \in Nat /\ addr + L <= BANK
    BY Numbered, Payload
  <2> QED BY <2>1, Sizing
<1>2. /\ data = [k \in 1 .. L |-> data[k]] /\ Len(data) = L /\ DOMAIN data = 1 .. L
  BY <1>1 DEF ExtraBytes
<1>3. WriteExtra(x) = new
  BY DEF WriteExtra
<1>4. ASSUME NEW a \in addr .. addr + L - 1 PROVE <<bank, a>> \notin FB
  <2>1. <<bank, a>> \in Bytes(ValuesOf(SpansOf(extra)))
    <3> DEFINE S == SpansOf(extra)
    <3>1. x \in DOMAIN S /\ S[x] = [bank |-> bank, start |-> addr, end |-> addr + L]
      BY DEF SpansOf, Span
    <3>4. a \in addr .. addr + L - 1
      OBVIOUS
    <3> HIDE DEF S, bank, addr, L
    <3>2. S[x].bank = bank /\ S[x].start = addr /\ S[x].end = addr + L
      BY <3>1
    <3>3. a \in S[x].start .. S[x].end - 1
      BY <1>1, <3>2, <3>4
    <3> QED BY <3>1, <3>2, <3>3, ByteAt DEF S
  <2> HIDE DEF bank
  <2>2. ~(3 * N <= bank)
    BY <1>1
  <2> QED BY <2>1, <2>2, Numbered, FreeBanks
<1> HIDE DEF data, bank, addr, L
<1>5. \A k \in 1 .. L : Used(bank, addr + k - 1)
  BY <1>1 DEF Used
<1>6. Wrote(image, new, bank, addr, data)
  BY <1>1, <1>2, <1>5, Places
<1> HIDE DEF new
<1>7. /\ \A n \in 0 .. N - 1 : n < s => LoromHas(new, n)
      /\ \A n \in 0 .. N - 1 : N + n < s => WindowHas(new, n)
      /\ 2 * N < s => TableHas(new)
  <2>1. ~(bank >= 3 * N)
    BY <1>1
  <2> QED BY <1>1, <1>6, <2>1, FreeKept
<1>8. ASSUME NEW j \in DOMAIN entries PROVE StreamHas(new, j)
  <2>1. StreamHas(image, j)
    <3>1. 2 * N + j < s
      <4>1. j <= Len(entries) /\ Len(entries) \in Nat /\ j \in Nat
        BY Numbered
      <4> QED BY <1>1, <4>1
    <3> QED BY <3>1 DEF Holds
  <2>2. ASSUME NEW k \in 1 .. entries[j].length, bank = Destination(j).bank,
               Destination(j).start + k - 1 \in addr .. addr + Len(data) - 1
        PROVE  FALSE
    <3>1. <<bank, Destination(j).start + k - 1>> \in FB
      BY <2>2, StreamAt
    <3> QED BY <1>2, <1>4, <2>2, <3>1
  <2> QED BY <1>6, <2>1, <2>2, StreamKept
<1>9. Holds(new, s + 1)
  <2>1. /\ \A n \in 0 .. N - 1 : n < s /\ N + n < s
        /\ 2 * N < s
    <3>1. Len(entries) \in Nat
      BY Numbered
    <3> QED BY <1>1, <3>1
  <2> QED BY <1>7, <1>8, <2>1 DEF Holds
<1>10. DOMAIN new = DOMAIN Blank
  BY <1>6 DEF Wrote
<1> QED BY <1>3, <1>9, <1>10

\* The tables, of the streams, their slots and their places.
TableOf(es, ss, ps) ==
  [k \in 1 .. BANK |->
     IF \E i \in DOMAIN es : ss[i] = k - 1
     THEN LET i == CHOOSE i \in DOMAIN es : ss[i] = k - 1
              d == IF i = Len(es) THEN ps[1] ELSE ps[i + 1]
          IN <<"key", StreamKeys!SourceKey(es[i].source, WINDOW_BASE).bank, d.bank, d.start>>
     ELSE <<"empty">>]

\* The expected contents do not change while they are written.
LEMMA SameExpected ==
  ASSUME UNCHANGED <<layout, allocation, slots>>, NEW s, Holds(image', s), step' = s
  PROVE  Holds(image, step)'
<1>1. entries' = entries /\ extra' = extra /\ placed' = placed /\ slots' = slots
  BY DEF layout, allocation, vars
<1>2. TableBytes' = TableBytes
  <2>1. TableBytes = TableOf(entries, slots, placed)
    BY Zenon DEF TableBytes, TableOf, Key, Destination
  <2>2. TableBytes' = TableOf(entries', slots', placed')
    BY Zenon DEF TableBytes, TableOf, Key, Destination
  <2> QED BY <1>1, <2>1, <2>2, Zenon
<1>3. FB' = FB
  BY <1>1, Zenon DEF FB
<1>4. \A i : Destination(i)' = Destination(i)
  BY <1>1, Zenon DEF Destination
<1>5. ASSUME NEW n \in 0 .. N - 1, n < s PROVE LoromHas(image, n)'
  BY <1>5 DEF Holds, LoromHas
<1>6. ASSUME NEW n \in 0 .. N - 1, N + n < s PROVE WindowHas(image, n)'
  BY <1>3, <1>6 DEF Holds, WindowHas
<1>7. ASSUME 2 * N < s PROVE TableHas(image)'
  BY <1>2, <1>7 DEF Holds, TableHas
<1>8. ASSUME NEW i \in DOMAIN entries, 2 * N + i < s PROVE StreamHas(image, i)'
  <2>1. StreamHas(image', i)
    BY <1>8 DEF Holds
  <2>2. Destination(i)' = Destination(i)
    BY <1>4
  <2> QED BY <1>1, <2>1, <2>2 DEF StreamHas
<1> QED BY <1>1, <1>5, <1>6, <1>7, <1>8 DEF Holds

WriteInv ==
  /\ DOMAIN image = DOMAIN Blank
  /\ step \in Nat
  /\ phase \notin {"write", "built"} => step = 0
  /\ phase = "built" => step = Writes
  /\ Holds(image, step)

\* Nothing is expected before the first write.
LEMMA NothingYet ==
  ASSUME entries \in EntryLists, NEW img
  PROVE  Holds(img, 0)
<1>1. DOMAIN entries \subseteq Nat /\ N \in Nat
  BY Orders, Sizing
<1> QED BY <1>1 DEF Holds

LEMMA WriteStarts == BuildInit => WriteInv
<1> SUFFICES ASSUME BuildInit PROVE WriteInv
  OBVIOUS
<1>1. entries \in EntryLists /\ phase = "plan" /\ step = 0 /\ image = Blank
  BY DEF BuildInit
<1>2. Holds(image, 0)
  BY <1>1, NothingYet
<1> QED BY <1>1, <1>2 DEF WriteInv

LEMMA WriteStep == BuildInv /\ WriteInv /\ [BuildNext]_all => WriteInv'
<1> SUFFICES ASSUME BuildInv, WriteInv, [BuildNext]_all PROVE WriteInv'
  OBVIOUS
<1>1. ASSUME UNCHANGED <<step, image>>, phase \notin {"write", "built"},
             entries' = entries, phase' # "built"
      PROVE  WriteInv'
  <2>1. BuildInv'
    BY BuildStep
  <2>2. step = 0 /\ step' = 0
    BY <1>1 DEF WriteInv
  <2>3. Holds(image, step)'
    <3>1. entries' \in EntryLists
      BY <2>1 DEF BuildInv
    <3>2. DOMAIN entries' \subseteq Nat /\ N \in Nat
      BY <3>1, Orders, Sizing
    <3> QED BY <2>2, <3>2 DEF Holds
  <2>4. DOMAIN image' = DOMAIN Blank
    BY <1>1 DEF WriteInv
  <2>5. (DOMAIN image = DOMAIN Blank)'
    BY <2>4 DEF Blank
  <2> QED BY <1>1, <2>2, <2>3, <2>5 DEF WriteInv
<1>2. CASE Plan
  BY <1>1, <1>2 DEF Plan, layout
<1>3. CASE Allocate
  <2>1. phase = "allocate" /\ UNCHANGED <<layout, step, image>> /\ Next
        /\ phase' = CASE outcome' = "placing" -> "allocate"
                      [] outcome' = "placed" -> "key"
                      [] outcome' = "refused" -> "refused"
    BY <1>3 DEF Allocate
  <2>2. outcome' \in {"placing", "placed", "refused"}
    <3>1. AllocatorInv
      BY <2>1 DEF BuildInv
    <3>2. AllocatorInv'
      BY <2>1, <3>1, AllocatorStep
    <3> QED BY <3>2 DEF AllocatorInv, IInv, TypeOK
  <2>3. phase' # "built"
    BY <2>1, <2>2
  <2> QED BY <1>1, <2>1, <2>3 DEF layout
<1>4. CASE KeyStreams
  <2>1. phase = "key" /\ UNCHANGED <<layout, step, image>> /\ phase' # "built"
    BY <1>4 DEF KeyStreams
  <2> QED BY <1>1, <2>1 DEF layout
<1>5. CASE WriteNext
  <2>1. /\ phase = "write" /\ step < Writes /\ image' = Write(step) /\ step' = step + 1
        /\ phase' = (IF step' = Writes THEN "built" ELSE "write")
        /\ UNCHANGED <<layout, allocation, slots>>
    BY <1>5 DEF WriteNext
  <2>2. /\ Allocated /\ DOMAIN image = DOMAIN Blank /\ Holds(image, step)
        /\ step \in Nat /\ N \in Nat /\ N > 0
        /\ DOMAIN entries = 1 .. Len(entries) /\ Len(entries) \in Nat
        /\ DOMAIN extra = 1 .. Len(extra) /\ Len(extra) \in Nat
    <3>1. Allocated
      BY <2>1 DEF Allocated, BuildInv
    <3> QED BY <3>1, Numbered, Sizing DEF WriteInv
  <2>3. DOMAIN image' = DOMAIN Blank /\ Holds(image', step + 1)
    <3> DEFINE E == Len(entries)
    <3>1. CASE step < N
      <4>1. image' = WriteLorom(step) /\ step \in 0 .. N - 1
        BY <2>1, <2>2, <3>1 DEF Write
      <4> QED BY <2>2, <4>1, WritesLorom
    <3>2. CASE step \in N .. 2 * N - 1
      <4> DEFINE n == step - N
      <4>1. n \in 0 .. N - 1 /\ step = N + n /\ ~(step < N)
        BY <2>2, <3>2
      <4>2. image' = WriteWindow(n)
        BY <2>1, <2>2, <3>2, <4>1 DEF Write
      <4> HIDE DEF n
      <4> QED BY <2>2, <4>1, <4>2, WritesWindow
    <3>3. CASE step = 2 * N
      <4>1. ~(step < N) /\ ~(step \in N .. 2 * N - 1)
        BY <2>2, <3>3
      <4>2. image' = WriteTables
        BY <2>1, <2>2, <3>3, <4>1 DEF Write
      <4> QED BY <2>2, <3>3, <4>2, WritesTables
    <3>4. CASE step \in 2 * N + 1 .. 2 * N + E
      <4> DEFINE i == step - 2 * N
      <4>1. i \in DOMAIN entries /\ step = 2 * N + i
        BY <2>2, <3>4
      <4>2. ~(step < N) /\ ~(step \in N .. 2 * N - 1) /\ ~(step = 2 * N)
        BY <2>2, <3>4
      <4>3. image' = WriteStream(i)
        <5>1. image' = Write(step)
          BY <2>1
        <5>2. Write(step) = WriteStream(i)
          <6> DEFINE n == step
          <6>1. ~(n < N) /\ ~(n \in N .. 2 * N - 1) /\ n # 2 * N
                /\ n \in 2 * N + 1 .. 2 * N + Len(entries) /\ ~(n > 2 * N + Len(entries))
            BY <2>2, <3>4, <4>2
          <6> HIDE DEF n
          <6>2. Write(n) = WriteStream(n - 2 * N)
            BY <6>1 DEF Write
          <6> QED BY <6>2 DEF n
        <5> QED BY <5>1, <5>2
      <4> HIDE DEF i
      <4> QED BY <2>2, <4>1, <4>3, WritesStream
    <3>5. CASE step > 2 * N + E
      <4> DEFINE x == step - 2 * N - E
      <4>0. step < N + N + 1 + E + Len(extra)
        BY <2>1 DEF Writes
      <4>1. x \in DOMAIN extra
        BY <2>2, <3>5, <4>0
      <4>2. ~(step < N) /\ ~(step \in N .. 2 * N - 1) /\ ~(step = 2 * N)
            /\ ~(step \in 2 * N + 1 .. 2 * N + E)
        BY <2>2, <3>5
      <4>3. image' = WriteExtra(x)
        BY <2>1, <3>5, <4>2 DEF Write
      <4> HIDE DEF x
      <4> QED BY <2>2, <3>5, <4>1, <4>3, WritesExtra
    <3> QED BY <2>2, <3>1, <3>2, <3>3, <3>4, <3>5
  <2>4. Holds(image, step)'
    BY <2>1, <2>3, SameExpected
  <2>5. Writes' = Writes
    BY <2>1 DEF Writes, layout
  <2>6. (DOMAIN image = DOMAIN Blank)'
    BY <2>3 DEF Blank
  <2>7. phase' \in {"write", "built"} /\ (phase' = "built" => step' = Writes') /\ step' \in Nat
    BY <2>1, <2>2, <2>5
  <2> QED BY <2>4, <2>6, <2>7 DEF WriteInv
<1>6. CASE UNCHANGED all
  <2>1. /\ UNCHANGED <<layout, allocation, slots>> /\ step' = step /\ image' = image
        /\ phase' = phase
    BY <1>6 DEF all
  <2>2. Holds(image', step)
    BY <2>1 DEF WriteInv
  <2>3. Holds(image, step)'
    BY <2>1, <2>2, SameExpected
  <2>4. Writes' = Writes
    BY <2>1 DEF Writes, layout
  <2>5. (DOMAIN image = DOMAIN Blank)'
    BY <2>1 DEF Blank, WriteInv
  <2> QED BY <2>1, <2>3, <2>4, <2>5 DEF WriteInv
<1> QED BY <1>2, <1>3, <1>4, <1>5, <1>6 DEF BuildNext

LEMMA WriteInvariance == BuildSpec => [](BuildInv /\ WriteInv)
<1>1. BuildInit => BuildInv /\ WriteInv
  BY BuildStarts, WriteStarts
<1>2. BuildInv /\ WriteInv /\ [BuildNext]_all => (BuildInv /\ WriteInv)'
  BY BuildStep, WriteStep
<1> QED BY <1>1, <1>2, PTL DEF BuildSpec

\* A byte that is still needed is not free.
LEMMA NeededIsKept ==
  ASSUME BuildInv, NEW b \in Rom \ Spent
  PROVE  /\ b \in Nat /\ b \div BANK \in 0 .. N - 1 /\ b % BANK \in 0 .. BANK - 1
         /\ b = (b \div BANK) * BANK + (b % BANK)
         /\ Seen(b) \notin FB
<1> DEFINE q == b \div BANK
           a == b % BANK
<1>1. b \in Nat /\ b < BANK * N
  BY Sizing DEF Rom
<1>2. q \in Nat /\ a \in 0 .. BANK - 1 /\ b = BANK * q + a
  BY <1>1, Sizing, Split
<1>3. Seen(b) = <<WINDOW_BASE + q, a>>
  BY DEF Seen
<1> HIDE DEF q, a
<1>4. q < N
  <2> SUFFICES ASSUME N <= q PROVE FALSE
    BY <1>2, Sizing
  <2>1. BANK * N <= BANK * q /\ BANK * q \in Nat /\ BANK * N \in Nat
    BY <1>2, Sizing
  <2> QED BY <1>1, <1>2, <2>1
<1>5. b = q * BANK + a
  BY <1>2, Sizing
<1>6. ASSUME Seen(b) \in FB PROVE FALSE
  <2>1. ~(WINDOW_BASE + q < 2 * N)
    BY <1>2, Sizing
  <2>2. PICK c \in Spent : Seen(c) = <<WINDOW_BASE + q, a>>
    BY <1>3, <1>6, <2>1, FreeBanks DEF BuildInv
  <2>3. c \in Nat /\ a \in Nat /\ a < BANK
    BY <1>2, Sizing DEF Spent, Rom
  <2>4. c = BANK * q + a
    BY <1>2, <2>2, <2>3, SeenOnce
  <2> QED BY <1>2, <2>2, <2>4
<1> QED BY <1>1, <1>2, <1>4, <1>5, <1>6, Sizing DEF q, a

(* The game still reads its ROM from every image the build finishes.       *)
THEOREM TheGameReadsItsRom == BuildSpec => []GameViewIntact
<1>1. ASSUME BuildInv, WriteInv PROVE GameViewIntact
  <2> SUFFICES ASSUME Built PROVE
        /\ \A b \in 0 .. N - 1, a \in HALF .. BANK - 1 :
             /\ Read(b, a) = <<"rom", b * HALF + a - HALF>>
             /\ Read(LOROM_MIRROR_BASE + b, a) = <<"rom", b * HALF + a - HALF>>
        /\ \A b \in Rom \ Spent :
             Read(WINDOW_BASE + b \div BANK, b % BANK) = <<"rom", b>>
    BY DEF GameViewIntact
  <2>1. /\ Holds(image, step) /\ N \in Nat
        /\ \A n \in 0 .. N - 1 : n < step /\ N + n < step
    <3>1. /\ step = N + N + 1 + Len(entries) + Len(extra) /\ N \in Nat
          /\ Len(entries) \in Nat /\ Len(extra) \in Nat
      <4>1. step = Writes
        BY <1>1 DEF WriteInv, Built
      <4>2. Len(entries) \in Nat /\ Len(extra) \in Nat
        BY <1>1, Orders, Payload DEF BuildInv
      <4> QED BY <4>1, <4>2, Sizing DEF Writes
    <3>2. Holds(image, step)
      BY <1>1 DEF WriteInv
    <3> QED BY <3>1, <3>2
  <2>2. ASSUME NEW b \in 0 .. N - 1, NEW a \in HALF .. BANK - 1
        PROVE  /\ Read(b, a) = <<"rom", b * HALF + a - HALF>>
               /\ Read(LOROM_MIRROR_BASE + b, a) = <<"rom", b * HALF + a - HALF>>
    BY <2>1 DEF Holds, LoromHas, Read
  <2>3. ASSUME NEW b \in Rom \ Spent
        PROVE  Read(WINDOW_BASE + b \div BANK, b % BANK) = <<"rom", b>>
    <3> DEFINE q == b \div BANK
               a == b % BANK
    <3>1. q \in 0 .. N - 1 /\ a \in 0 .. BANK - 1 /\ b = q * BANK + a
          /\ <<WINDOW_BASE + q, a>> \notin FB
      BY <1>1, NeededIsKept DEF Seen
    <3> HIDE DEF q, a
    <3>2. WindowHas(image, q)
      BY <2>1, <3>1 DEF Holds
    <3>3. Read(WINDOW_BASE + q, a) = <<"rom", q * BANK + a>>
      BY <3>1, <3>2 DEF WindowHas, Read
    <3> QED BY <3>1, <3>3 DEF q, a
  <2> QED BY <2>2, <2>3
<1> QED BY <1>1, WriteInvariance, PTL

-----------------------------------------------------------------------------
(* The slots the streams are keyed in.                                     *)

\* A table's slots, and the lists of keys there is room for.
Slot == 0 .. BANK - 1
KeyType == [bank : Nat, addr : Slot]
KeyLists == {k \in Seq(KeyType) : Len(k) <= BANK}
After(s, d) == (s + d) % BANK

KeysBody(k, f) ==
  [n \in 0 .. Len(k) |-> IF n = 0 THEN <<>> ELSE StreamKeys!WithNext(k, f[n - 1])]
Placement(k) == CHOOSE f : f = KeysBody(k, f)

\* Steps round the table, in whole turns.
LEMMA Turn ==
  ASSUME NEW n \in Nat \ {0}, NEW s \in Int
  PROVE  /\ s % n \in 0 .. n - 1
         /\ s \in 0 .. n - 1 => s % n = s
         /\ s \in n .. 2 * n - 1 => s % n = s - n
         /\ s \in 0 - n .. 0 - 1 => s % n = s + n
<1>1. s % n \in 0 .. n - 1
  OBVIOUS
<1>2. s \in 0 .. n - 1 => s % n = s
  OBVIOUS
<1>3. s \in n .. 2 * n - 1 => s % n = s - n
  OBVIOUS
<1>4. s \in 0 - n .. 0 - 1 => s % n = s + n
  OBVIOUS
<1> QED BY <1>1, <1>2, <1>3, <1>4

LEMMA Wrap ==
  ASSUME NEW n \in Nat \ {0}, NEW a \in 0 .. n - 1, NEW b \in 0 .. n - 1
  PROVE  (a + b) % n = IF a + b < n THEN a + b ELSE a + b - n
<1>1. CASE a + b < n
  <2>1. a + b \in Int /\ a + b \in 0 .. n - 1
    BY <1>1
  <2> QED BY <1>1, <2>1, Turn
<1>2. CASE ~(a + b < n)
  <2> DEFINE t == a + b
  <2>1. t \in Int /\ t \in n .. 2 * n - 1
    BY <1>2
  <2>2. t % n = t - n
    <3> HIDE DEF t
    <3> QED BY <2>1, Turn
  <2> QED BY <1>2, <2>2
<1> QED BY <1>1, <1>2

LEMMA WrapBack ==
  ASSUME NEW n \in Nat \ {0}, NEW a \in 0 .. n - 1, NEW b \in 0 .. n - 1
  PROVE  (a - b) % n = IF a >= b THEN a - b ELSE a - b + n
<1>1. CASE a >= b
  <2>1. a - b \in Int /\ a - b \in 0 .. n - 1
    BY <1>1
  <2> QED BY <1>1, <2>1, Turn
<1>2. CASE ~(a >= b)
  <2>1. a - b \in Int /\ a - b \in 0 - n .. 0 - 1
    BY <1>2
  <2> QED BY <1>2, <2>1, Turn
<1> QED BY <1>1, <1>2

\* BANK are steps round the table.
LEMMA Steps ==
  ASSUME NEW s \in Slot
  PROVE  /\ BANK \in Nat \ {0} /\ Slot = 0 .. BANK - 1
         /\ \A d \in Slot : After(s, d) = IF s + d < BANK THEN s + d ELSE s + d - BANK
         /\ \A u \in Slot : (u - s) % BANK = IF u >= s THEN u - s ELSE u - s + BANK
<1>1. BANK \in Nat \ {0} /\ Slot = 0 .. BANK - 1
  BY Sizing DEF Slot
<1>2. ASSUME NEW d \in Slot
      PROVE  After(s, d) = IF s + d < BANK THEN s + d ELSE s + d - BANK
  BY <1>1, Wrap DEF After
<1>3. ASSUME NEW u \in Slot
      PROVE  (u - s) % BANK = IF u >= s THEN u - s ELSE u - s + BANK
  BY <1>1, WrapBack
<1> QED BY <1>1, <1>2, <1>3

\* Walking round the table from a slot meets every slot once.
LEMMA Walk ==
  ASSUME NEW s \in Slot
  PROVE  /\ \A d \in Slot : After(s, d) \in Slot
         /\ \A u \in Slot : (u - s) % BANK \in Slot /\ After(s, (u - s) % BANK) = u
         /\ \A d, e \in Slot : After(s, d) = After(s, e) => d = e
<1>1. /\ BANK \in Nat \ {0} /\ Slot = 0 .. BANK - 1
      /\ \A d \in Slot : After(s, d) = IF s + d < BANK THEN s + d ELSE s + d - BANK
      /\ \A u \in Slot : (u - s) % BANK = IF u >= s THEN u - s ELSE u - s + BANK
  BY Steps
<1>2. ASSUME NEW d \in Slot PROVE After(s, d) \in Slot
  BY <1>1
<1>3. ASSUME NEW u \in Slot
      PROVE  (u - s) % BANK \in Slot /\ After(s, (u - s) % BANK) = u
  <2> DEFINE d == (u - s) % BANK
  <2>1. d = IF u >= s THEN u - s ELSE u - s + BANK
    BY <1>1
  <2> HIDE DEF d
  <2>2. d \in Slot
    BY <1>1, <2>1
  <2>3. After(s, d) = u
    BY <1>1, <2>1, <2>2
  <2> QED BY <2>2, <2>3 DEF d
<1>4. ASSUME NEW d \in Slot, NEW e \in Slot, After(s, d) = After(s, e)
      PROVE  d = e
  <2>1. /\ BANK \in Int /\ s \in Int
        /\ d \in Int /\ 0 <= d /\ d < BANK /\ e \in Int /\ 0 <= e /\ e < BANK
    BY <1>1
  <2> DEFINE u == After(s, d)
  <2>2. u = IF s + d < BANK THEN s + d ELSE s + d - BANK
    BY <1>1
  <2>3. u = IF s + e < BANK THEN s + e ELSE s + e - BANK
    BY <1>1, <1>4
  <2> HIDE DEF u
  <2> QED BY <2>1, <2>2, <2>3
<1> QED BY <1>2, <1>3, <1>4

\* What the constants say of one list.
LEMMA ListOfKeys ==
  ASSUME NEW k \in KeyLists
  PROVE  /\ k \in Seq(KeyType) /\ DOMAIN k = 1 .. Len(k) /\ Len(k) \in Nat /\ Len(k) <= BANK
         /\ IsFiniteSet(DOMAIN k) /\ Cardinality(DOMAIN k) = Len(k)
         /\ \A i \in DOMAIN k : k[i] \in KeyType /\ k[i].addr \in Slot /\ k[i].bank \in Nat
<1> DEFINE n == Len(k)
<1>1. k \in Seq(KeyType) /\ n <= BANK
  BY DEF KeyLists
<1>2. DOMAIN k = 1 .. n /\ n \in Nat /\ n \in Int /\ 1 \in Int
  BY <1>1
<1>3. \A i \in DOMAIN k : k[i] \in KeyType
  BY <1>1, <1>2
<1> HIDE DEF n
<1>4. IsFiniteSet(1 .. n) /\ Cardinality(1 .. n) = IF 1 > n THEN 0 ELSE n - 1 + 1
  BY <1>2, FS_Interval
<1>5. Cardinality(1 .. n) = n
  BY <1>2, <1>4
<1> QED BY <1>1, <1>2, <1>3, <1>4, <1>5 DEF KeyType, n

\* There is one, whatever the list: each step has the one before it.
LEMMA PlacementExists ==
  ASSUME NEW k, Len(k) \in Nat
  PROVE  \E f : f = KeysBody(k, f)
<1> DEFINE M == Len(k)
           Next1(x) == StreamKeys!WithNext(k, x)
           Upto(f, n) == /\ f = [m \in 0 .. M |-> f[m]]
                         /\ \A m \in 0 .. n : f[m] = IF m = 0 THEN <<>> ELSE Next1(f[m - 1])
           T == {n \in 0 .. M : ~\E f : Upto(f, n)}
<1> HIDE DEF Next1
<1>1. T = {}
  <2> SUFFICES ASSUME T # {} PROVE FALSE
    OBVIOUS
  <2>1. T \in SUBSET Nat
    OBVIOUS
  <2>2. PICK n \in T : \A m \in T : n <= m
    <3> HIDE DEF T
    <3> QED BY <2>1, LeastNat
  <2>3. n \in 0 .. M /\ M \in Nat
    OBVIOUS
  <2>4. CASE n = 0
    <3> DEFINE g == [m \in 0 .. M |-> <<>>]
    <3>1. g = [m \in 0 .. M |-> g[m]] /\ g[0] = <<>>
      BY <2>3
    <3>2. Upto(g, 0)
      BY <3>1
    <3> QED BY <2>2, <2>4, <3>2
  <2>5. CASE n > 0
    <3>1. n - 1 \in 0 .. M /\ n - 1 \notin T
      BY <2>2, <2>3, <2>5
    <3>2. PICK f : Upto(f, n - 1)
      BY <3>1
    <3> DEFINE w == Next1(f[n - 1])
               g == [m \in 0 .. M |-> IF m = n THEN w ELSE f[m]]
    <3>3. \A m \in 0 .. M : g[m] = IF m = n THEN w ELSE f[m]
      OBVIOUS
    <3>4. g = [m \in 0 .. M |-> g[m]]
      OBVIOUS
    <3> HIDE DEF w, g
    <3>5. ASSUME NEW m \in 0 .. n PROVE g[m] = IF m = 0 THEN <<>> ELSE Next1(g[m - 1])
      <4>1. CASE m = n
        <5>1. g[n] = w /\ g[n - 1] = f[n - 1]
          BY <2>3, <2>5, <3>1, <3>3
        <5>2. w = Next1(g[n - 1])
          BY <5>1 DEF w
        <5> QED BY <2>5, <4>1, <5>1, <5>2
      <4>2. CASE m # n
        <5>1. m \in 0 .. n - 1 /\ m \in 0 .. M
          BY <2>3, <4>2
        <5>2. g[m] = f[m] /\ (m # 0 => g[m - 1] = f[m - 1])
          BY <2>3, <3>3, <5>1
        <5>3. f[m] = IF m = 0 THEN <<>> ELSE Next1(f[m - 1])
          BY <3>2, <5>1
        <5> QED BY <5>2, <5>3
      <4> QED BY <4>1, <4>2
    <3>6. Upto(g, n)
      BY <3>4, <3>5
    <3> QED BY <2>2, <3>6
  <2> QED BY <2>3, <2>4, <2>5
<1>2. PICK f : Upto(f, M)
  BY <1>1
<1>3. f = KeysBody(k, f)
  <2>1. \A m \in 0 .. M : f[m] = IF m = 0 THEN <<>> ELSE Next1(f[m - 1])
    BY <1>2
  <2>2. f = [m \in 0 .. M |-> f[m]]
    BY <1>2
  <2>3. f = [m \in 0 .. M |-> IF m = 0 THEN <<>> ELSE Next1(f[m - 1])]
    BY <2>1, <2>2
  <2> QED BY <2>3 DEF KeysBody, Next1
<1> QED BY <1>3

LEMMA PlacementEquation ==
  ASSUME NEW k, Len(k) \in Nat
  PROVE  /\ StreamKeys!FirstFreeSlots(k) = Placement(k)[Len(k)]
         /\ Placement(k)[0] = <<>>
         /\ \A n \in 1 .. Len(k) : Placement(k)[n] = StreamKeys!WithNext(k, Placement(k)[n - 1])
<1> DEFINE g == Placement(k)
<1>1. g = KeysBody(k, g)
  BY PlacementExists, Zenon DEF Placement
<1>2. StreamKeys!FirstFreeSlots(k) = g[Len(k)]
  BY Zenon DEF StreamKeys!FirstFreeSlots, KeysBody, Placement
<1> HIDE DEF g
<1>3. \A n \in 0 .. Len(k) : g[n] = IF n = 0 THEN <<>> ELSE StreamKeys!WithNext(k, g[n - 1])
  <2> DEFINE W(x) == StreamKeys!WithNext(k, x)
  <2>1. g = [n \in 0 .. Len(k) |-> IF n = 0 THEN <<>> ELSE W(g[n - 1])]
    BY <1>1 DEF KeysBody
  <2> HIDE DEF W
  <2>2. \A n \in 0 .. Len(k) : g[n] = IF n = 0 THEN <<>> ELSE W(g[n - 1])
    BY <2>1
  <2> QED BY <2>2 DEF W
<1>4. g[0] = <<>>
  BY <1>3
<1>5. ASSUME NEW n \in 1 .. Len(k) PROVE g[n] = StreamKeys!WithNext(k, g[n - 1])
  <2>1. n \in 0 .. Len(k) /\ n # 0
    OBVIOUS
  <2> QED BY <1>3, <2>1
<1> QED BY <1>2, <1>4, <1>5 DEF g

\* Of any streams one is first, and only one.
LEMMA FirstToPlace ==
  ASSUME NEW k \in KeyLists, NEW left \in SUBSET (DOMAIN k), left # {}
  PROVE  StreamKeys!Earliest(k, left) \in left
<1> DEFINE Comes(i, j) == k[i].addr < k[j].addr \/ (k[i].addr = k[j].addr /\ i <= j)
           A == {k[j].addr : j \in left}
<1>1. \A j \in left : j \in Nat /\ k[j].addr \in Nat
  <2>1. \A j \in left : j \in Nat /\ k[j].addr \in Slot
    BY ListOfKeys
  <2> QED BY <2>1, Sizing DEF Slot
<1>2. PICK a \in A : \A b \in A : a <= b
  <2>1. A \in SUBSET Nat /\ A # {}
    BY <1>1
  <2> HIDE DEF A
  <2> QED BY <2>1, LeastNat
<1> DEFINE I == {j \in left : k[j].addr = a}
<1>3. PICK i \in I : \A j \in I : i <= j
  <2>1. I \in SUBSET Nat /\ I # {}
    BY <1>1, <1>2
  <2> HIDE DEF I
  <2> QED BY <2>1, LeastNat
<1>4. i \in left /\ k[i].addr = a
  OBVIOUS
<1>5. ASSUME NEW j \in left PROVE Comes(i, j)
  <2>1. k[j].addr \in A /\ a <= k[j].addr /\ k[j].addr \in Nat /\ a \in Nat
    BY <1>1, <1>2, <1>4
  <2>2. CASE k[j].addr = a
    BY <1>3, <1>4, <2>2
  <2>3. CASE k[j].addr # a
    BY <1>4, <2>1, <2>3
  <2> QED BY <2>2, <2>3
<1>6. i \in left /\ \A j \in left : Comes(i, j)
  BY <1>4, <1>5
<1>7. StreamKeys!Earliest(k, left) = CHOOSE x \in left : \A j \in left : Comes(x, j)
  BY DEF StreamKeys!Earliest
<1> HIDE DEF Comes
<1> QED BY <1>6, <1>7

\* The steps the gate counts end at the first slot outside the taken ones.
LEMMA Probed ==
  ASSUME NEW a \in Slot, NEW taken, NEW u \in Slot, u \notin taken
  PROVE  /\ StreamKeys!Probe(a, taken) \in Slot
         /\ After(a, StreamKeys!Probe(a, taken)) \notin taken
         /\ \A e \in 0 .. StreamKeys!Probe(a, taken) - 1 : After(a, e) \in taken
<1> DEFINE T == {d \in Slot : After(a, d) \notin taken}
           P(d) == (a + d) % BANK \notin taken /\ \A e \in 0 .. d - 1 : (a + e) % BANK \in taken
<1>1. BANK \in Nat /\ Slot = 0 .. BANK - 1 /\ Slot \subseteq Nat
  BY Sizing DEF Slot
<1>2. T # {}
  <2>1. (u - a) % BANK \in Slot /\ After(a, (u - a) % BANK) = u
    BY Walk
  <2> QED BY <2>1
<1>3. PICK d \in T : \A e \in T : d <= e
  <2>1. T \in SUBSET Nat
    BY <1>1
  <2> HIDE DEF T
  <2> QED BY <1>2, <2>1, LeastNat
<1>4. d \in 0 .. BANK - 1 /\ P(d)
  <2>1. ASSUME NEW e \in 0 .. d - 1 PROVE After(a, e) \in taken
    <3>1. e \in Slot /\ ~(d <= e)
      BY <1>1, <1>3
    <3> QED BY <1>3, <3>1
  <2> QED BY <1>1, <1>3, <2>1 DEF After
<1> DEFINE c == CHOOSE e \in 0 .. BANK - 1 : P(e)
<1>5. c \in 0 .. BANK - 1 /\ P(c)
  <2> HIDE DEF P
  <2> QED BY <1>4
<1>6. StreamKeys!Probe(a, taken) = c
  BY DEF StreamKeys!Probe
<1> HIDE DEF c
<1> QED BY <1>1, <1>5, <1>6 DEF After

\* Streams of the list take a slot each, so one is free while any waits.
LEMMA SlotsLeft ==
  ASSUME NEW k \in KeyLists, NEW D \in SUBSET (DOMAIN k), NEW f \in [D -> Slot],
         D # DOMAIN k
  PROVE  \E u \in Slot : u \notin {f[j] : j \in D}
<1>1. BANK \in Nat /\ Slot = 0 .. BANK - 1
  BY Sizing DEF Slot
<1>2. Len(k) \in Nat /\ Len(k) <= BANK
  BY ListOfKeys
<1>3. IsFiniteSet(DOMAIN k) /\ Cardinality(DOMAIN k) = Len(k)
  BY ListOfKeys
<1>4. IsFiniteSet(D) /\ Cardinality(D) < Len(k)
  <2>1. IsFiniteSet(D) /\ Cardinality(D) <= Cardinality(DOMAIN k)
        /\ (Cardinality(DOMAIN k) = Cardinality(D) => DOMAIN k = D)
    BY <1>3, FS_Subset
  <2>2. Cardinality(D) \in Nat
    BY <2>1, FS_CardinalityType
  <2> QED BY <1>2, <1>3, <2>1, <2>2
<1>5. IsFiniteSet(Slot) /\ Cardinality(Slot) = BANK
  BY <1>1, FS_Interval
<1>6. SUFFICES ASSUME \A u \in Slot : \E j \in D : f[j] = u PROVE FALSE
  OBVIOUS
<1> DEFINE h == [u \in Slot |-> CHOOSE j \in D : f[j] = u]
<1>7. \A u \in Slot : h[u] \in D /\ f[h[u]] = u
  BY <1>6
<1>8. h \in [Slot -> D]
  BY <1>7
<1>9. Cardinality(D) < Cardinality(Slot)
  <2>1. Cardinality(D) \in Nat
    BY <1>4, FS_CardinalityType
  <2> QED BY <1>1, <1>2, <1>4, <1>5, <2>1
<1>10. PICK u, v \in Slot : u # v /\ h[u] = h[v]
  <2> HIDE DEF h
  <2> QED BY <1>4, <1>5, <1>8, <1>9, FS_PigeonHole
<1> QED BY <1>7, <1>10

\* No two streams have one slot.
OneEach(f) == \A i, j \in DOMAIN f : f[i] = f[j] => i = j

\* One more stream in a slot of the table that no stream has.
LEMMA OneMore ==
  ASSUME NEW k \in KeyLists, NEW D \in SUBSET (DOMAIN k), NEW f \in [D -> Slot],
         D # DOMAIN k, OneEach(f)
  PROVE  \E i \in DOMAIN k \ D : /\ StreamKeys!WithNext(k, f) \in [D \union {i} -> Slot]
                                  /\ OneEach(StreamKeys!WithNext(k, f))
<1> DEFINE left == DOMAIN k \ D
           i == StreamKeys!Earliest(k, left)
           taken == {f[j] : j \in D}
           a == k[i].addr
           u == (a + StreamKeys!Probe(a, taken)) % BANK
<1>1. left \in SUBSET (DOMAIN k) /\ left # {}
  OBVIOUS
<1>2. i \in left
  <2> HIDE DEF left
  <2> QED BY <1>1, FirstToPlace
<1>3. a \in Slot
  <2>1. i \in DOMAIN k
    BY <1>2
  <2> HIDE DEF i
  <2> QED BY <2>1, ListOfKeys
<1>4. \E v \in Slot : v \notin taken
  BY SlotsLeft
<1>5. u \in Slot /\ u \notin taken
  <2> HIDE DEF a, taken
  <2>1. /\ StreamKeys!Probe(a, taken) \in Slot
        /\ After(a, StreamKeys!Probe(a, taken)) \notin taken
    BY <1>3, <1>4, Probed
  <2> QED BY <1>3, <2>1, Walk DEF After
<1>6. DOMAIN f = D
  OBVIOUS
<1> DEFINE g == [j \in D \union {i} |-> IF j = i THEN u ELSE f[j]]
<1>7. StreamKeys!WithNext(k, f) = g
  BY <1>6, Zenon DEF StreamKeys!WithNext
<1>8. \A j \in D : f[j] \in taken
  OBVIOUS
<1> HIDE DEF i, u, left, taken
<1>9. g \in [D \union {i} -> Slot]
  BY <1>5
<1>10. OneEach(g)
  <2>1. \A j \in D : g[j] = (IF j = i THEN u ELSE f[j])
    OBVIOUS
  <2>2. g[i] = u /\ DOMAIN g = D \union {i} /\ i \notin D
    BY <1>2 DEF left
  <2> HIDE DEF g
  <2> QED BY <1>5, <1>6, <1>8, <2>1, <2>2 DEF OneEach
<1> QED BY <1>2, <1>7, <1>9, <1>10 DEF left

\* n streams are placed in n steps.
LEMMA PlacementTyped ==
  ASSUME NEW k \in KeyLists, NEW n \in 0 .. Len(k)
  PROVE  \E D \in SUBSET (DOMAIN k) : IsFiniteSet(D) /\ Cardinality(D) = n
                                      /\ Placement(k)[n] \in [D -> Slot]
                                      /\ OneEach(Placement(k)[n])
<1>1. Len(k) \in Nat
  BY ListOfKeys
<1>2. Placement(k)[0] = <<>>
      /\ \A m \in 1 .. Len(k) : Placement(k)[m] = StreamKeys!WithNext(k, Placement(k)[m - 1])
  BY <1>1, PlacementEquation
<1> DEFINE g == Placement(k)
           M == Len(k)
           Has(m, D) == /\ IsFiniteSet(D) /\ Cardinality(D) = m
                        /\ g[m] \in [D -> Slot] /\ OneEach(g[m])
           T == {m \in 0 .. M : ~\E D \in SUBSET (DOMAIN k) : Has(m, D)}
<1>3. T = {}
  <2> SUFFICES ASSUME T # {} PROVE FALSE
    OBVIOUS
  <2>1. T \in SUBSET Nat
    OBVIOUS
  <2>2. PICK m \in T : \A e \in T : m <= e
    <3> HIDE DEF T
    <3> QED BY <2>1, LeastNat
  <2>3. m \in 0 .. M /\ M \in Nat
    BY <1>1
  <2>4. CASE m = 0
    <3>1. IsFiniteSet({}) /\ Cardinality({}) = 0
      BY FS_EmptySet
    <3>2. g[0] \in [{} -> Slot] /\ OneEach(g[0])
      BY <1>2 DEF OneEach
    <3>3. Has(0, {})
      BY <3>1, <3>2
    <3> QED BY <2>2, <2>4, <3>3
  <2>5. CASE m > 0
    <3>1. m - 1 \in 0 .. M /\ m - 1 \notin T
      BY <2>2, <2>3, <2>5
    <3>2. PICK D \in SUBSET (DOMAIN k) : Has(m - 1, D)
      BY <3>1
    <3>3. D # DOMAIN k
      <4>1. Cardinality(DOMAIN k) = M
        BY ListOfKeys
      <4> QED BY <2>3, <3>2, <4>1
    <3>4. PICK i \in DOMAIN k \ D :
            /\ StreamKeys!WithNext(k, g[m - 1]) \in [D \union {i} -> Slot]
            /\ OneEach(StreamKeys!WithNext(k, g[m - 1]))
      <4> DEFINE f == g[m - 1]
      <4>1. f \in [D -> Slot] /\ OneEach(f)
        BY <3>2
      <4> HIDE DEF f
      <4>2. \E i \in DOMAIN k \ D : /\ StreamKeys!WithNext(k, f) \in [D \union {i} -> Slot]
                                    /\ OneEach(StreamKeys!WithNext(k, f))
        BY <3>3, <4>1, OneMore
      <4> QED BY <4>2 DEF f
    <3>5. g[m] = StreamKeys!WithNext(k, g[m - 1])
      BY <1>2, <2>3, <2>5
    <3>6. g[m] \in [D \union {i} -> Slot] /\ OneEach(g[m])
      BY <3>4, <3>5
    <3>7. IsFiniteSet(D) /\ Cardinality(D) = m - 1 /\ i \notin D
      BY <3>2, <3>4
    <3>8. IsFiniteSet(D \union {i}) /\ Cardinality(D \union {i}) = m - 1 + 1
      BY <3>7, FS_AddElement
    <3>9. m - 1 + 1 = m
      BY <2>3
    <3>10. Has(m, D \union {i}) /\ D \union {i} \in SUBSET (DOMAIN k)
      BY <3>4, <3>6, <3>8, <3>9
    <3> QED BY <2>2, <3>10
  <2> QED BY <2>3, <2>4, <2>5
<1>4. \E D \in SUBSET (DOMAIN k) : Has(n, D)
  BY <1>3
<1> QED BY <1>4

\* Every stream of a list has a slot of its own, whatever the list.
LEMMA AllHaveSlots ==
  ASSUME NEW k \in KeyLists
  PROVE  /\ StreamKeys!FirstFreeSlots(k) \in [DOMAIN k -> Slot]
         /\ OneEach(StreamKeys!FirstFreeSlots(k))
<1> DEFINE M == Len(k)
<1>1. M \in Nat /\ IsFiniteSet(DOMAIN k) /\ Cardinality(DOMAIN k) = M
  BY ListOfKeys
<1>2. PICK D \in SUBSET (DOMAIN k) : IsFiniteSet(D) /\ Cardinality(D) = M
                                      /\ Placement(k)[M] \in [D -> Slot]
                                      /\ OneEach(Placement(k)[M])
  BY <1>1, PlacementTyped
<1>3. D = DOMAIN k
  <2> HIDE DEF M
  <2> QED BY <1>1, <1>2, FS_Subset
<1>4. StreamKeys!FirstFreeSlots(k) = Placement(k)[M]
  BY <1>1, PlacementEquation
<1> QED BY <1>2, <1>3, <1>4

-----------------------------------------------------------------------------
(* The keys of the streams, and the lookups.                               *)

KeysOf(es) == [i \in DOMAIN es |-> StreamKeys!SourceKey(es[i].source, WINDOW_BASE)]

Keyed(es, ss) ==
  /\ Len(KeysOf(es)) <= BANK
  /\ ss = StreamKeys!FirstFreeSlots(KeysOf(es))
  /\ StreamKeys!Unambiguous(KeysOf(es), ss)

\* What is written has been keyed, and every scan of it is unambiguous.
KeyInv == phase \in {"write", "built"} => Keyed(entries, slots)

LEMMA KeyStep == KeyInv /\ [BuildNext]_all => KeyInv'
<1> SUFFICES ASSUME KeyInv, [BuildNext]_all, phase' \in {"write", "built"}
             PROVE  Keyed(entries, slots)'
  BY DEF KeyInv
<1>1. CASE Plan
  BY <1>1 DEF Plan
<1>2. CASE Allocate
  <2>1. /\ phase = "allocate" /\ Next
        /\ phase' = CASE outcome' = "placing" -> "allocate"
                      [] outcome' = "placed" -> "key"
                      [] outcome' = "refused" -> "refused"
    BY <1>2 DEF Allocate
  <2>2. outcome' \in {"placing", "placed", "refused"}
    BY <2>1 DEF Next, Place, Return, Refuse
  <2> QED BY <2>1, <2>2
<1>3. CASE KeyStreams
  <2>1. Keys = KeysOf(entries)
    BY Zenon DEF Keys, Key, KeysOf
  <2>2. /\ slots' = (IF Len(Keys) <= BANK THEN StreamKeys!FirstFreeSlots(Keys) ELSE <<>>)
        /\ phase' = (IF Len(Keys) <= BANK /\ StreamKeys!Unambiguous(Keys, slots')
                     THEN "write" ELSE "refused")
        /\ entries' = entries
    BY <1>3 DEF KeyStreams, layout
  <2>3. Keyed(entries', slots')
    BY <2>1, <2>2 DEF Keyed
  <2> QED BY <2>3
<1>4. CASE WriteNext
  <2>1. phase = "write" /\ entries' = entries /\ slots' = slots
    BY <1>4 DEF WriteNext, layout
  <2> QED BY <2>1 DEF KeyInv
<1>5. CASE UNCHANGED all
  <2>1. phase' = phase /\ entries' = entries /\ slots' = slots
    BY <1>5 DEF all, layout
  <2> QED BY <2>1 DEF KeyInv
<1> QED BY <1>1, <1>2, <1>3, <1>4, <1>5 DEF BuildNext

\* The lists of streams that can be keyed.
LEMMA Keying ==
  ASSUME entries \in EntryLists, Keyed(entries, slots)
  PROVE  /\ Keys \in KeyLists /\ DOMAIN Keys = DOMAIN entries
         /\ \A i \in DOMAIN entries : Keys[i] = Key(i)
         /\ slots \in [DOMAIN entries -> Slot] /\ OneEach(slots)
         /\ StreamKeys!Unambiguous(Keys, slots)
<1>1. Keys = KeysOf(entries)
  BY Zenon DEF Keys, Key, KeysOf
<1>2. DOMAIN Keys = DOMAIN entries /\ \A i \in DOMAIN entries : Keys[i] = Key(i)
  BY DEF Keys
<1>3. ASSUME NEW i \in DOMAIN entries PROVE Key(i) \in KeyType
  <2> DEFINE q == entries[i].source \div BANK
             o == entries[i].source % BANK
  <2>1. q \in Nat /\ o \in Nat /\ o < BANK
    BY Stream
  <2>2. Key(i) = [bank |-> WINDOW_BASE + q, addr |-> o]
    BY DEF Key, StreamKeys!SourceKey
  <2> HIDE DEF q, o
  <2>3. WINDOW_BASE + q \in Nat /\ o \in Slot
    BY <2>1, Sizing DEF Slot
  <2> QED BY <2>2, <2>3 DEF KeyType
<1>4. DOMAIN entries = 1 .. Len(entries) /\ Len(entries) \in Nat
  BY Orders
<1>5. Keys \in Seq(KeyType)
  <2>1. Keys = [i \in 1 .. Len(entries) |-> Key(i)]
    BY <1>4 DEF Keys
  <2>2. \A i \in 1 .. Len(entries) : Key(i) \in KeyType
    BY <1>3, <1>4
  <2> HIDE DEF Keys
  <2> QED BY <1>4, <2>1, <2>2
<1>6. Keys \in KeyLists
  BY <1>1, <1>5 DEF KeyLists, Keyed
<1>7. StreamKeys!FirstFreeSlots(Keys) \in [DOMAIN Keys -> Slot]
      /\ OneEach(StreamKeys!FirstFreeSlots(Keys))
  <2> DEFINE k == Keys
  <2>1. k \in KeyLists
    BY <1>6
  <2> HIDE DEF k
  <2>2. /\ StreamKeys!FirstFreeSlots(k) \in [DOMAIN k -> Slot]
        /\ OneEach(StreamKeys!FirstFreeSlots(k))
    BY <2>1, AllHaveSlots
  <2> QED BY <2>2 DEF k
<1>8. slots = StreamKeys!FirstFreeSlots(Keys) /\ StreamKeys!Unambiguous(Keys, slots)
  BY <1>1 DEF Keyed
<1> QED BY <1>2, <1>6, <1>7, <1>8

\* However many turns of the table a walk makes, its end is no nearer to its
\* start than the walk is long.
LEMMA Turns ==
  ASSUME NEW n \in Nat \ {0}, NEW a \in 0 .. n - 1, NEW d \in Nat
  PROVE  /\ (a + d) % n \in 0 .. n - 1
         /\ (((a + d) % n) - a) % n <= d
<1> DEFINE q == d \div n
           r == d % n
<1>1. q \in Nat /\ r \in 0 .. n - 1 /\ d = n * q + r
  BY Split
<1> HIDE DEF q, r
<1>2. r <= d
  <2>1. n * q \in Nat
    BY <1>1
  <2> QED BY <1>1, <2>1
<1>3. (a + d) % n = IF a + r < n THEN a + r ELSE a + r - n
  <2>1. CASE a + r < n
    <3>1. a + r \in 0 .. n - 1
      BY <1>1, <2>1
    <3>2. (n * q + (a + r)) % n = a + r
      BY <1>1, <3>1, SplitBack
    <3>3. n * q + (a + r) = a + d
      <4>1. n * q \in Nat
        BY <1>1
      <4> QED BY <1>1, <4>1
    <3> QED BY <2>1, <3>2, <3>3
  <2>2. CASE ~(a + r < n)
    <3>1. a + r - n \in 0 .. n - 1 /\ q + 1 \in Nat
      BY <1>1, <2>2
    <3>2. (n * (q + 1) + (a + r - n)) % n = a + r - n
      BY <3>1, SplitBack
    <3>3. n * (q + 1) + (a + r - n) = a + d
      <4>1. n * (q + 1) = n * q + n /\ n * q \in Nat
        BY <1>1
      <4> QED BY <1>1, <4>1
    <3> QED BY <2>2, <3>2, <3>3
  <2> QED BY <2>1, <2>2
<1> DEFINE s == (a + d) % n
<1>4. s \in 0 .. n - 1
  BY <1>1, <1>3
<1>5. (s - a) % n = IF s >= a THEN s - a ELSE s - a + n
  <2>1. s = IF a + r < n THEN a + r ELSE a + r - n
    BY <1>3
  <2> HIDE DEF s
  <2> QED BY <1>4, WrapBack
<1>6. s = IF a + r < n THEN a + r ELSE a + r - n
  BY <1>3
<1> DEFINE t == (s - a) % n
<1>7. t = IF s >= a THEN s - a ELSE s - a + n
  BY <1>5
<1> HIDE DEF s, t
<1>8. t <= d
  BY <1>1, <1>2, <1>4, <1>6, <1>7
<1> QED BY <1>4, <1>8 DEF s, t

\* What a slot of the finished table has.
LEMMA SlotsHold ==
  ASSUME entries \in EntryLists, Keyed(entries, slots), TableHas(image)
  PROVE  /\ \A j \in DOMAIN entries :
              Read(TABLE_BANK, slots[j]) =
                <<"key", Key(j).bank, Destination(j).bank, Destination(j).start>>
         /\ \A a \in Slot :
              (\A j \in DOMAIN entries : slots[j] # a)
                => Read(TABLE_BANK, a) = <<"empty">>
<1>1. slots \in [DOMAIN entries -> Slot] /\ OneEach(slots)
  BY Keying
<1> DEFINE X(i) == <<"key", Key(i).bank, Destination(i).bank, Destination(i).start>>
<1>2. ASSUME NEW a \in Slot
      PROVE  Read(TABLE_BANK, a) =
               IF \E i \in DOMAIN entries : slots[i] = a
               THEN X(CHOOSE i \in DOMAIN entries : slots[i] = a) ELSE <<"empty">>
  <2>1. Read(TABLE_BANK, a) = TableBytes[a + 1]
    BY DEF TableHas, Slot, Read
  <2> DEFINE B(c) == IF \E i \in DOMAIN entries : slots[i] = c
                     THEN X(CHOOSE i \in DOMAIN entries : slots[i] = c) ELSE <<"empty">>
  <2>2. ASSUME NEW k \in 1 .. BANK PROVE TableBytes[k] = B(k - 1)
    BY Zenon DEF TableBytes
  <2> DEFINE k == a + 1
  <2>3. k \in 1 .. BANK /\ k - 1 = a
    BY Sizing DEF Slot
  <2> HIDE DEF B, k
  <2>4. TableBytes[k] = B(k - 1)
    BY <2>2, <2>3
  <2>5. TableBytes[a + 1] = B(a)
    BY <2>3, <2>4 DEF k
  <2>6. Read(TABLE_BANK, a) = B(a)
    BY <2>1, <2>5
  <2> QED BY <2>6 DEF B
<1> HIDE DEF X
<1>3. ASSUME NEW j \in DOMAIN entries PROVE Read(TABLE_BANK, slots[j]) = X(j)
  <2>1. slots[j] \in Slot
    BY <1>1
  <2>2. (CHOOSE i \in DOMAIN entries : slots[i] = slots[j]) = j
    <3> DEFINE c == CHOOSE i \in DOMAIN entries : slots[i] = slots[j]
    <3>1. c \in DOMAIN entries /\ slots[c] = slots[j]
      OBVIOUS
    <3> HIDE DEF c
    <3>2. c = j
      BY <1>1, <3>1 DEF OneEach
    <3> QED BY <3>2 DEF c
  <2>3. \E i \in DOMAIN entries : slots[i] = slots[j]
    OBVIOUS
  <2>4. Read(TABLE_BANK, slots[j]) = X(CHOOSE i \in DOMAIN entries : slots[i] = slots[j])
    BY <1>2, <2>1, <2>3
  <2> QED BY <2>2, <2>4
<1> QED BY <1>2, <1>3 DEF X

\* A lookup comes to the stream's own slot first of all those it could take
\* for it, if it goes that far.
LEMMA Lookup ==
  ASSUME entries \in EntryLists, Keyed(entries, slots), TableHas(image),
         NEW i \in DOMAIN entries,
         NEW far, far = StreamKeys!Distance(Keys, slots, i)
  PROVE  /\ far \in Nat
         /\ far > SCAN_BUDGET => Resolve(i) = <<>>
         /\ far <= SCAN_BUDGET => Resolve(i) = <<Destination(i).bank, Destination(i).start>>
<1> DEFINE addr == Key(i).addr
           At(d) == Read(TABLE_BANK, (addr + d) % BANK)
<1>1. /\ Keys \in KeyLists /\ DOMAIN Keys = DOMAIN entries
      /\ \A j \in DOMAIN entries : Keys[j] = Key(j)
      /\ slots \in [DOMAIN entries -> Slot] /\ OneEach(slots)
      /\ StreamKeys!Unambiguous(Keys, slots)
  BY Keying
<1>2. addr \in Slot /\ BANK \in Nat \ {0} /\ Slot = 0 .. BANK - 1 /\ SCAN_BUDGET \in Nat
  <2>1. Keys[i].addr \in Slot
    BY <1>1, ListOfKeys
  <2> QED BY <1>1, <2>1, Sizing, ImageAssumption DEF Slot
<1>3. far = (slots[i] - addr) % BANK
  BY <1>1 DEF StreamKeys!Distance
<1>4. far \in Slot /\ (addr + far) % BANK = slots[i]
  <2> DEFINE u == slots[i]
  <2>1. u \in Slot
    BY <1>1
  <2> HIDE DEF addr, u
  <2>2. (u - addr) % BANK \in Slot /\ After(addr, (u - addr) % BANK) = u
    BY <1>2, <2>1, Walk
  <2>3. far = (u - addr) % BANK
    BY <1>3 DEF u
  <2> QED BY <2>2, <2>3 DEF After, u
<1>5. /\ \A j \in DOMAIN entries :
           Read(TABLE_BANK, slots[j]) =
             <<"key", Key(j).bank, Destination(j).bank, Destination(j).start>>
      /\ \A a \in Slot :
           (\A j \in DOMAIN entries : slots[j] # a) => Read(TABLE_BANK, a) = <<"empty">>
  BY SlotsHold
<1>6. Matches(i) = {d \in 0 .. SCAN_BUDGET : At(d)[1] = "key" /\ At(d)[2] = Key(i).bank}
  BY Zenon DEF Matches
<1>7. far <= SCAN_BUDGET => far \in Matches(i)
  <2>1. At(far) = <<"key", Key(i).bank, Destination(i).bank, Destination(i).start>>
    BY <1>4, <1>5
  <2>2. far \in Nat
    BY <1>2, <1>4
  <2> HIDE DEF At
  <2> QED BY <1>2, <1>6, <2>1, <2>2
<1>8. ASSUME NEW d \in Matches(i) PROVE far <= d /\ d \in Nat /\ d <= SCAN_BUDGET
  <2> DEFINE a == (addr + d) % BANK
             t == (a - addr) % BANK
  <2>1. d \in Nat /\ d <= SCAN_BUDGET /\ At(d)[1] = "key" /\ At(d)[2] = Key(i).bank
    BY <1>2, <1>6
  <2>2. a \in Slot /\ t <= d
    <3> HIDE DEF addr
    <3> QED BY <1>2, <2>1, Turns
  <2>3. At(d) = Read(TABLE_BANK, a)
    OBVIOUS
  <2> HIDE DEF At
  <2>4. t \in Nat
    <3>1. addr \in Slot /\ a \in Slot
      BY <1>2, <2>2
    <3> HIDE DEF addr, a
    <3>2. t \in Slot
      BY <3>1, Walk
    <3> QED BY <1>2, <3>2
  <2>5. PICK j \in DOMAIN entries : slots[j] = a
    <3> SUFFICES ASSUME \A j \in DOMAIN entries : slots[j] # a PROVE FALSE
      OBVIOUS
    <3>1. At(d) = <<"empty">>
      BY <1>5, <2>2, <2>3
    <3>2. <<"empty">>[1] = "empty" /\ "empty" # "key"
      OBVIOUS
    <3> QED BY <2>1, <3>1, <3>2
  <2>6. Key(j).bank = Key(i).bank
    <3>1. At(d) = <<"key", Key(j).bank, Destination(j).bank, Destination(j).start>>
      BY <1>5, <2>3, <2>5
    <3> QED BY <2>1, <3>1
  <2>7. CASE j = i
    <3>1. far = t
      BY <1>3, <2>5, <2>7
    <3> QED BY <2>1, <2>2, <3>1
  <2>8. CASE j # i
    <3>1. StreamKeys!Distance(Keys, slots, i) < (slots[j] - Keys[i].addr) % BANK
      BY <1>1, <2>6, <2>8 DEF StreamKeys!Unambiguous
    <3>2. far < t
      BY <1>1, <2>5, <3>1
    <3>3. far \in Nat
      BY <1>2, <1>4
    <3> HIDE DEF t
    <3> QED BY <2>1, <2>2, <2>4, <3>2, <3>3
  <2> QED BY <2>1, <2>7, <2>8
<1>9. far \in Nat
  BY <1>2, <1>4
<1>10. CASE far > SCAN_BUDGET
  <2>1. Matches(i) = {}
    <3> SUFFICES ASSUME NEW d \in Matches(i) PROVE FALSE
      OBVIOUS
    <3>1. far <= d /\ d \in Nat /\ d <= SCAN_BUDGET
      BY <1>8
    <3> QED BY <1>2, <1>9, <1>10, <3>1
  <2>2. Resolve(i) = <<>>
    BY <2>1 DEF Resolve
  <2> QED BY <1>2, <1>9, <1>10, <2>2
<1>11. CASE far <= SCAN_BUDGET
  <2> DEFINE S == Matches(i)
  <2>1. far \in S /\ \A d \in S : far <= d /\ d \in Nat
    BY <1>7, <1>8, <1>11
  <2>2. First(S) = far
    <3> HIDE DEF S
    <3> DEFINE c == CHOOSE d \in S : \A e \in S : d <= e
    <3>1. c \in S /\ \A e \in S : c <= e
      BY <2>1
    <3>2. First(S) = c
      BY DEF First
    <3> HIDE DEF c
    <3>3. c <= far /\ far <= c /\ c \in Nat
      BY <2>1, <3>1
    <3> QED BY <1>9, <3>2, <3>3
  <2>3. Resolve(i) = <<At(far)[3], At(far)[4]>>
    <3>1. S # {}
      BY <2>1
    <3>2. Resolve(i) = <<At(First(S))[3], At(First(S))[4]>>
      BY <3>1, Zenon DEF Resolve
    <3> QED BY <2>2, <3>2
  <2>4. At(far) = <<"key", Key(i).bank, Destination(i).bank, Destination(i).start>>
    BY <1>4, <1>5
  <2> HIDE DEF At
  <2> QED BY <1>2, <1>9, <1>11, <2>3, <2>4
<1> QED BY <1>2, <1>9, <1>10, <1>11

(* In every finished image each lookup ends at the stream's own entry, or  *)
(* at none where that is past the budget, and the stream's bytes are there.*)
THEOREM StreamsReadBack == BuildSpec => []EveryStreamReadsBack
<1>1. BuildInit => KeyInv
  BY DEF BuildInit, KeyInv
<1>2. BuildSpec => []KeyInv
  BY <1>1, KeyStep, PTL DEF BuildSpec
<1>3. ASSUME BuildInv, WriteInv, KeyInv PROVE EveryStreamReadsBack
  <2> DEFINE Far(i) == StreamKeys!Distance(Keys, slots, i)
  <2> SUFFICES ASSUME Built
               PROVE  Wrong = {} /\ Unresolved = {i \in DOMAIN entries : Far(i) > SCAN_BUDGET}
    BY DEF EveryStreamReadsBack
  <2>1. /\ entries \in EntryLists /\ Keyed(entries, slots) /\ SCAN_BUDGET \in Nat
        /\ DOMAIN entries = 1 .. Len(entries) /\ Len(entries) \in Nat
    <3>1. entries \in EntryLists /\ Keyed(entries, slots)
      BY <1>3 DEF BuildInv, KeyInv, Built
    <3> QED BY <3>1, Orders, ImageAssumption
  <2>2. /\ Holds(image, step) /\ N \in Nat /\ 2 * N < step
        /\ \A i \in DOMAIN entries : 2 * N + i < step
    <3>1. /\ step = N + N + 1 + Len(entries) + Len(extra) /\ N \in Nat
          /\ Len(extra) \in Nat
      <4>1. step = Writes
        BY <1>3 DEF WriteInv, Built
      <4>2. Len(extra) \in Nat
        BY <1>3, Payload DEF BuildInv
      <4> QED BY <4>1, <4>2, Sizing DEF Writes
    <3>2. Holds(image, step)
      BY <1>3 DEF WriteInv
    <3> QED BY <2>1, <3>1, <3>2
  <2>3. TableHas(image) /\ \A i \in DOMAIN entries : StreamHas(image, i)
    BY <2>2 DEF Holds
  <2>4. ASSUME NEW i \in DOMAIN entries
        PROVE  /\ Far(i) \in Nat
               /\ Far(i) > SCAN_BUDGET => Resolve(i) = <<>>
               /\ Far(i) <= SCAN_BUDGET =>
                    Resolve(i) = <<Destination(i).bank, Destination(i).start>>
    BY <2>1, <2>3, Lookup
  <2> HIDE DEF Far
  <2>5. \A i \in DOMAIN entries : Resolve(i) = <<>> <=> Far(i) > SCAN_BUDGET
    <3> SUFFICES ASSUME NEW i \in DOMAIN entries
                 PROVE  Resolve(i) = <<>> <=> Far(i) > SCAN_BUDGET
      OBVIOUS
    <3>1. Far(i) \in Nat
      BY <2>4
    <3>2. CASE Far(i) > SCAN_BUDGET
      BY <2>4, <3>2
    <3>3. CASE Far(i) <= SCAN_BUDGET
      <4>1. Resolve(i) # <<>>
        BY <2>4, <3>3
      <4> QED BY <2>1, <3>1, <3>3, <4>1
    <3> QED BY <2>1, <3>1, <3>2, <3>3
  <2>6. Unresolved = {i \in DOMAIN entries : Far(i) > SCAN_BUDGET}
    BY <2>5 DEF Unresolved
  <2>7. ASSUME NEW i \in DOMAIN entries \ Unresolved, NEW k \in 1 .. entries[i].length
        PROVE  image[Offset(Resolve(i)[1], Resolve(i)[2], k - 1)] = <<"stream", i, k>>
    <3> DEFINE d == Destination(i)
    <3>1. Resolve(i) = <<d.bank, d.start>>
      <4>1. Far(i) \in Nat /\ ~(Far(i) > SCAN_BUDGET)
        BY <2>4, <2>6
      <4>2. Far(i) <= SCAN_BUDGET
        BY <2>1, <4>1
      <4> QED BY <2>4, <4>2
    <3>2. /\ d.bank \in Nat /\ d.start \in Nat /\ d.end <= BANK /\ d.end \in Nat
          /\ d.end = d.start + entries[i].length /\ entries[i].length \in Nat
      BY <1>3, Destinations DEF BuildInv, Built
    <3>3. image[AddressToFile(d.bank, d.start + k - 1)] = <<"stream", i, k>>
      BY <2>3 DEF StreamHas
    <3> HIDE DEF d
    <3>4. k - 1 \in Nat /\ d.start + (k - 1) < BANK /\ d.start + (k - 1) = d.start + k - 1
      BY <3>2, Sizing
    <3>5. Offset(d.bank, d.start, k - 1) = AddressToFile(d.bank, d.start + (k - 1))
      BY <3>2, <3>4, InBank
    <3>6. Resolve(i)[1] = d.bank /\ Resolve(i)[2] = d.start
      BY <3>1
    <3> QED BY <3>3, <3>4, <3>5, <3>6
  <2>8. Wrong = {}
    BY <2>7 DEF Wrong
  <2> QED BY <2>6, <2>8
<1> QED BY <1>2, <1>3, WriteInvariance, PTL
=============================================================================
