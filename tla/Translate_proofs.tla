-------------------------- MODULE Translate_proofs ---------------------------
(* First allocate, for a table of any length, any keys and any number of   *)
(* streams: every stream placed stands where its placement says, every slot*)
(* between its entry point and it is taken, and the repair rounds find     *)
(* nothing to do, so the placement is that of the first pass.  Then the    *)
(* routine that scans the table, for any caller, channels and destinations:*)
(* it implements the one-step lookup of DmaLookup.  Last the gate, which   *)
(* works the placement out for itself: it is allocate's, and no scan of    *)
(* the console is longer than the worst the gate finds.                    *)
EXTENDS Translate, WellFoundedInduction, FiniteSetTheorems, TLAPS

\* The least number of a set, which the scans stop at.
LEMMA LeastNat ==
  ASSUME NEW T \in SUBSET Nat, T # {}
  PROVE  \E n \in T : \A m \in T : n <= m
<1> DEFINE R == {p \in Nat \X Nat : p[1] < p[2]}
<1>1. IsWellFoundedOn(R, Nat)
  BY NatLessThanWellFounded DEF OpToRel
<1>2. PICK n \in T : \A m \in T : ~ (<<m, n>> \in R)
  <2> HIDE DEF R
  <2> QED BY <1>1, WFMin
<1>3. ASSUME NEW m \in T PROVE n <= m
  <2>1. m \in Nat /\ n \in Nat /\ <<m, n>> \notin R
    BY <1>2
  <2>2. ~(m < n)
    BY <2>1
  <2> QED BY <2>1, <2>2
<1> QED BY <1>3

\* Steps round the table, in whole turns.
LEMMA Turn ==
  ASSUME NEW n \in Nat \ {0}, NEW s \in Int
  PROVE  /\ s % n \in 0 .. n - 1
         /\ s \in 0 .. n - 1 => s % n = s
         /\ s \in n .. 2 * n - 1 => s % n = s - n
         /\ s \in 0 - n .. 0 - 1 => s % n = s + n
<1>1. s % n \in 0 .. n - 1
  OBVIOUS
<1>2. s \in 0 .. n - 1 => s % n = s
  OBVIOUS
<1>3. s \in n .. 2 * n - 1 => s % n = s - n
  OBVIOUS
<1>4. s \in 0 - n .. 0 - 1 => s % n = s + n
  OBVIOUS
<1> QED BY <1>1, <1>2, <1>3, <1>4

LEMMA Wrap ==
  ASSUME NEW n \in Nat \ {0}, NEW a \in 0 .. n - 1, NEW b \in 0 .. n - 1
  PROVE  (a + b) % n = IF a + b < n THEN a + b ELSE a + b - n
<1>1. CASE a + b < n
  <2>1. a + b \in Int /\ a + b \in 0 .. n - 1
    BY <1>1
  <2> QED BY <1>1, <2>1, Turn
<1>2. CASE ~(a + b < n)
  <2> DEFINE t == a + b
  <2>1. t \in Int /\ t \in n .. 2 * n - 1
    BY <1>2
  <2>2. t % n = t - n
    <3> HIDE DEF t
    <3> QED BY <2>1, Turn
  <2> QED BY <1>2, <2>2
<1> QED BY <1>1, <1>2

LEMMA WrapBack ==
  ASSUME NEW n \in Nat \ {0}, NEW a \in 0 .. n - 1, NEW b \in 0 .. n - 1
  PROVE  (a - b) % n = IF a >= b THEN a - b ELSE a - b + n
<1>1. CASE a >= b
  <2>1. a - b \in Int /\ a - b \in 0 .. n - 1
    BY <1>1
  <2> QED BY <1>1, <2>1, Turn
<1>2. CASE ~(a >= b)
  <2>1. a - b \in Int /\ a - b \in 0 - n .. 0 - 1
    BY <1>2
  <2> QED BY <1>2, <2>1, Turn
<1> QED BY <1>1, <1>2

\* Slots are steps round the table.
LEMMA Steps ==
  ASSUME NEW s \in Slot
  PROVE  /\ Slots \in Nat \ {0} /\ Slot = 0 .. Slots - 1
         /\ \A d \in Slot : After(s, d) = IF s + d < Slots THEN s + d ELSE s + d - Slots
         /\ \A u \in Slot : (u - s) % Slots = IF u >= s THEN u - s ELSE u - s + Slots
<1>1. Slots \in Nat \ {0} /\ Slot = 0 .. Slots - 1
  BY SlotsAssumption DEF Slot
<1>2. ASSUME NEW d \in Slot
      PROVE  After(s, d) = IF s + d < Slots THEN s + d ELSE s + d - Slots
  BY <1>1, Wrap DEF After
<1>3. ASSUME NEW u \in Slot
      PROVE  (u - s) % Slots = IF u >= s THEN u - s ELSE u - s + Slots
  BY <1>1, WrapBack
<1> QED BY <1>1, <1>2, <1>3

\* Walking round the table from a slot meets every slot once.
LEMMA Walk ==
  ASSUME NEW s \in Slot
  PROVE  /\ \A d \in Slot : After(s, d) \in Slot
         /\ \A u \in Slot : (u - s) % Slots \in Slot /\ After(s, (u - s) % Slots) = u
         /\ \A d, e \in Slot : After(s, d) = After(s, e) => d = e
<1>1. /\ Slots \in Nat \ {0} /\ Slot = 0 .. Slots - 1
      /\ \A d \in Slot : After(s, d) = IF s + d < Slots THEN s + d ELSE s + d - Slots
      /\ \A u \in Slot : (u - s) % Slots = IF u >= s THEN u - s ELSE u - s + Slots
  BY Steps
<1>2. ASSUME NEW d \in Slot PROVE After(s, d) \in Slot
  BY <1>1
<1>3. ASSUME NEW u \in Slot
      PROVE  (u - s) % Slots \in Slot /\ After(s, (u - s) % Slots) = u
  <2> DEFINE d == (u - s) % Slots
  <2>1. d = IF u >= s THEN u - s ELSE u - s + Slots
    BY <1>1
  <2> HIDE DEF d
  <2>2. d \in Slot
    BY <1>1, <2>1
  <2>3. After(s, d) = u
    BY <1>1, <2>1, <2>2
  <2> QED BY <2>2, <2>3 DEF d
<1>4. ASSUME NEW d \in Slot, NEW e \in Slot, After(s, d) = After(s, e)
      PROVE  d = e
  <2>1. /\ Slots \in Int /\ s \in Int
        /\ d \in Int /\ 0 <= d /\ d < Slots /\ e \in Int /\ 0 <= e /\ e < Slots
    BY <1>1
  <2> DEFINE u == After(s, d)
  <2>2. u = IF s + d < Slots THEN s + d ELSE s + d - Slots
    BY <1>1
  <2>3. u = IF s + e < Slots THEN s + e ELSE s + e - Slots
    BY <1>1, <1>4
  <2> HIDE DEF u
  <2> QED BY <2>1, <2>2, <2>3
<1> QED BY <1>2, <1>3, <1>4

\* One step past the slot d steps away, and e steps on.
LEMMA WalkOn ==
  ASSUME NEW s \in Slot, NEW d \in Slot, NEW e \in Slot, d + 1 + e \in Slot
  PROVE  /\ After(After(s, d), 1) \in Slot
         /\ After(After(After(s, d), 1), e) = After(s, d + 1 + e)
<1>1. Slots \in Nat \ {0} /\ Slot = 0 .. Slots - 1
  BY Steps
<1>2. After(s, d) = IF s + d < Slots THEN s + d ELSE s + d - Slots
  BY Steps
<1> DEFINE u == After(s, d)
           v == After(u, 1)
<1>3. u \in Slot
  BY Walk
<1>4. 1 \in Slot
  BY <1>1
<1>5. v = IF u + 1 < Slots THEN u + 1 ELSE u + 1 - Slots
  BY <1>3, <1>4, Steps
<1>6. v \in Slot
  BY <1>3, <1>4, Walk
<1>7. After(v, e) = IF v + e < Slots THEN v + e ELSE v + e - Slots
  BY <1>6, Steps
<1>8. After(s, d + 1 + e) = IF s + (d + 1 + e) < Slots THEN s + (d + 1 + e)
                                                     ELSE s + (d + 1 + e) - Slots
  BY Steps
<1>9. After(v, e) = After(s, d + 1 + e)
  <2> HIDE DEF u, v
  <2>1. u = IF s + d < Slots THEN s + d ELSE s + d - Slots
    BY <1>2 DEF u
  <2> QED BY <1>1, <1>3, <1>5, <1>6, <1>7, <1>8, <2>1
<1> QED BY <1>6, <1>9

\* The nearest slot of a set is in it, and none on the way is.
LEMMA NearestFound ==
  ASSUME NEW s \in Slot, NEW S \in SUBSET Slot, S # {}
  PROVE  \E d \in Slot : /\ Nearest(s, S) = After(s, d) /\ After(s, d) \in S
                         /\ \A e \in 0 .. d - 1 : After(s, e) \notin S
<1> DEFINE T == {d \in Slot : After(s, d) \in S}
           P(d) == After(s, d) \in S /\ \A e \in 0 .. d - 1 : After(s, e) \notin S
<1>1. Slots \in Nat /\ Slot = 0 .. Slots - 1 /\ Slot \subseteq Nat
  BY SlotsAssumption DEF Slot
<1>2. T # {}
  <2>1. PICK u \in S : u \in Slot
    OBVIOUS
  <2>2. (u - s) % Slots \in Slot /\ After(s, (u - s) % Slots) = u
    BY <2>1, Walk
  <2>3. (u - s) % Slots \in T
    BY <2>1, <2>2
  <2> QED BY <2>3
<1>3. PICK d \in T : \A e \in T : d <= e
  <2>1. T \in SUBSET Nat
    BY <1>1
  <2> HIDE DEF T
  <2> QED BY <1>2, <2>1, LeastNat
<1>4. d \in Slot /\ P(d)
  <2>1. ASSUME NEW e \in 0 .. d - 1 PROVE After(s, e) \notin S
    <3>1. e \in Slot /\ ~(d <= e)
      BY <1>1, <1>3
    <3> QED BY <1>3, <3>1
  <2> QED BY <1>3, <2>1
<1> DEFINE c == CHOOSE e \in Slot : P(e)
<1>5. c \in Slot /\ P(c)
  <2> HIDE DEF P
  <2> QED BY <1>4
<1>6. Nearest(s, S) = After(s, c)
  BY DEF Nearest
<1> HIDE DEF c
<1> QED BY <1>5, <1>6

\* It is the only such slot.
LEMMA NearestIs ==
  ASSUME NEW s \in Slot, NEW S \in SUBSET Slot, NEW d \in Slot,
         After(s, d) \in S, \A e \in 0 .. d - 1 : After(s, e) \notin S
  PROVE  Nearest(s, S) = After(s, d)
<1>1. Slot \subseteq Int
  BY SlotsAssumption DEF Slot
<1>2. PICK f \in Slot : /\ Nearest(s, S) = After(s, f) /\ After(s, f) \in S
                        /\ \A e \in 0 .. f - 1 : After(s, e) \notin S
  BY NearestFound
<1>3. ~(f < d) /\ ~(d < f)
  BY <1>1, <1>2 DEF Slot
<1>4. f = d
  BY <1>1, <1>3
<1> QED BY <1>2, <1>4
-----------------------------------------------------------------------------
(* The inductive invariant: the tables agree, no stream waits once the     *)
(* repairs begin, and those a round has still to move are misread.         *)

IInv ==
  /\ TypeOK
  /\ TableMatchesPlacement
  /\ ProbePathTaken
  /\ phase # "place" => Unplaced = {}
  /\ phase = "repair" => broken # {} /\ \A i \in broken : Misread(i)

\* What the constants say of one list.
LEMMA ListOfKeys ==
  ASSUME NEW k \in KeyLists
  PROVE  /\ k \in Seq(Key) /\ DOMAIN k = 1 .. Len(k) /\ Len(k) \in Nat /\ Len(k) <= Slots
         /\ IsFiniteSet(DOMAIN k) /\ Cardinality(DOMAIN k) = Len(k)
         /\ \A i \in DOMAIN k : k[i] \in Key /\ k[i].addr \in Slot /\ k[i].bank \in Banks
<1> DEFINE n == Len(k)
<1>1. k \in Seq(Key) /\ n <= Slots
  BY KeysAssumption
<1>2. DOMAIN k = 1 .. n /\ n \in Nat /\ n \in Int /\ 1 \in Int
  BY <1>1
<1>3. \A i \in DOMAIN k : k[i] \in Key
  BY <1>1, <1>2
<1> HIDE DEF n
<1>4. IsFiniteSet(1 .. n) /\ Cardinality(1 .. n) = IF 1 > n THEN 0 ELSE n - 1 + 1
  BY <1>2, FS_Interval
<1>5. Cardinality(1 .. n) = n
  BY <1>2, <1>4
<1> QED BY <1>1, <1>2, <1>3, <1>4, <1>5 DEF Key, n

LEMMA KeysOfList ==
  ASSUME keys \in KeyLists
  PROVE  /\ Streams = 1 .. Len(keys) /\ Len(keys) \in Nat /\ Len(keys) <= Slots
         /\ IsFiniteSet(Streams) /\ Cardinality(Streams) = Len(keys)
         /\ \A i \in Streams : keys[i] \in Key /\ keys[i].addr \in Slot /\ keys[i].bank \in Banks
BY ListOfKeys DEF Streams

\* No slot of the table is free only if every slot has a stream.
LEMMA SlotFree ==
  ASSUME TypeOK, TableMatchesPlacement, Unplaced # {}
  PROVE  \E u \in Slot : table[u] = EMPTY
<1> SUFFICES ASSUME \A u \in Slot : table[u] # EMPTY PROVE FALSE
  OBVIOUS
<1>1. PICK i \in Streams : placed[i] = UNPLACED
  BY DEF Unplaced
<1>2. Slots \in Nat /\ Slot = 0 .. Slots - 1 /\ UNPLACED \notin Slot
  BY SlotsAssumption DEF Slot, UNPLACED
<1>3. Streams = 1 .. Len(keys) /\ Len(keys) \in Nat /\ Len(keys) <= Slots
  BY KeysOfList DEF TypeOK
<1> DEFINE T == Streams \ {i}
           f == [u \in Slot |-> CHOOSE j \in Streams : placed[j] = u]
<1>4. \A u \in Slot : \E j \in Streams : placed[j] = u
  BY DEF TableMatchesPlacement
<1>5. \A u \in Slot : f[u] \in Streams /\ placed[f[u]] = u
  BY <1>4
<1>6. f \in [Slot -> T]
  BY <1>1, <1>2, <1>5
<1>7. IsFiniteSet(Slot) /\ Cardinality(Slot) = Slots
  BY <1>2, FS_Interval
<1>8. IsFiniteSet(Streams) /\ Cardinality(Streams) = Len(keys)
  BY KeysOfList DEF TypeOK
<1>9. IsFiniteSet(T) /\ Cardinality(T) = Len(keys) - 1
  BY <1>1, <1>8, FS_RemoveElement
<1>10. Cardinality(T) < Cardinality(Slot)
  BY <1>2, <1>3, <1>7, <1>9
<1>11. PICK u, v \in Slot : u # v /\ f[u] = f[v]
  <2> HIDE DEF f, T
  <2> QED BY <1>6, <1>7, <1>9, <1>10, FS_PigeonHole
<1> QED BY <1>5, <1>11

LEMMA InitInv == Init => IInv
<1> SUFFICES ASSUME Init PROVE IInv
  OBVIOUS
<1>1. TypeOK
  BY RepairsAssumption DEF Init, TypeOK, Streams
<1>2. Streams \ Unplaced = {}
  BY DEF Init, Streams, Unplaced
<1>3. TableMatchesPlacement
  <2>1. \A s \in Slot : \A i \in Streams : placed[i] # s
    BY SlotsAssumption DEF Init, Streams, UNPLACED, Slot
  <2> QED BY <1>2, <2>1 DEF Init, TableMatchesPlacement
<1>4. ProbePathTaken
  BY <1>2 DEF ProbePathTaken
<1> QED BY <1>1, <1>3, <1>4 DEF IInv, Init

\* A stream put into a free slot: what Place and Repair share.
LEMMA FreeSlot ==
  ASSUME NEW t \in [Slot -> Banks \union {EMPTY}], NEW s \in Slot,
         NEW u \in Slot, t[u] = EMPTY
  PROVE  \E d \in Slot : /\ FirstFree(t, s) = After(s, d)
                         /\ After(s, d) \in Slot /\ t[After(s, d)] = EMPTY
                         /\ \A e \in 0 .. d - 1 : t[After(s, e)] # EMPTY
<1> DEFINE S == {v \in Slot : t[v] = EMPTY}
<1>1. S \in SUBSET Slot /\ S # {} /\ FirstFree(t, s) = Nearest(s, S)
  BY DEF FirstFree
<1> HIDE DEF S
<1>2. PICK d \in Slot : /\ Nearest(s, S) = After(s, d) /\ After(s, d) \in S
                        /\ \A e \in 0 .. d - 1 : After(s, e) \notin S
  BY <1>1, NearestFound
<1>3. ASSUME NEW e \in 0 .. d - 1 PROVE After(s, e) \in Slot
  <2>1. e \in Slot
    BY SlotsAssumption DEF Slot
  <2> QED BY <2>1, Walk
<1> QED BY <1>1, <1>2, <1>3 DEF S
LEMMA PlaceInv == IInv /\ Place => IInv'
<1> SUFFICES ASSUME IInv, Place PROVE IInv'
  OBVIOUS
<1> USE DEF IInv
<1>1. PICK i \in Unplaced :
        LET s == FirstFree(table, keys[i].addr) IN
          /\ table' = [table EXCEPT ![s] = keys[i].bank]
          /\ placed' = [placed EXCEPT ![i] = s]
  BY DEF Place
<1>2. /\ phase = "place" /\ phase' = "place" /\ keys' = keys
      /\ rounds' = rounds /\ broken' = broken
  BY DEF Place
<1>3. /\ i \in Streams /\ placed[i] = UNPLACED /\ UNPLACED \notin Slot
      /\ keys[i].addr \in Slot /\ keys[i].bank \in Banks /\ keys[i].bank # EMPTY
  BY SlotsAssumption, KeysOfList, EmptyAssumption DEF Unplaced, TypeOK, Slot, UNPLACED
<1>4. table \in [Slot -> Banks \union {EMPTY}] /\ placed \in [Streams -> Slot \union {UNPLACED}]
  BY DEF TypeOK
<1>5. PICK u \in Slot : table[u] = EMPTY
  BY <1>1, SlotFree
<1> DEFINE a == keys[i].addr
           s == FirstFree(table, a)
<1>6. PICK d \in Slot : /\ s = After(a, d) /\ After(a, d) \in Slot
                        /\ table[After(a, d)] = EMPTY
                        /\ \A e \in 0 .. d - 1 : table[After(a, e)] # EMPTY
  BY <1>3, <1>4, <1>5, FreeSlot
<1>7. s \in Slot /\ table[s] = EMPTY
  BY <1>6
<1>8. /\ table' = [table EXCEPT ![s] = keys[i].bank]
      /\ placed' = [placed EXCEPT ![i] = s]
  BY <1>1
<1> HIDE DEF s
<1>9. /\ table'[s] = keys[i].bank /\ \A v \in Slot \ {s} : table'[v] = table[v]
      /\ placed'[i] = s /\ \A j \in Streams \ {i} : placed'[j] = placed[j]
  BY <1>3, <1>4, <1>7, <1>8
<1>10. Streams' = Streams /\ Unplaced' = Unplaced \ {i}
  BY <1>2, <1>3, <1>4, <1>7, <1>9 DEF Streams, Unplaced
<1>11. TypeOK'
  BY <1>2, <1>3, <1>4, <1>7, <1>8, <1>10 DEF TypeOK
<1>12. \A j \in Streams \ {i} : placed[j] # s
  BY <1>7 DEF TableMatchesPlacement
<1>13. TableMatchesPlacement'
  <2>1. ASSUME NEW j \in Streams \ Unplaced', NEW k \in Streams \ Unplaced',
               placed'[j] = placed'[k]
        PROVE  j = k
    <3>1. \A l \in Streams \ {i} : l \notin Unplaced' => l \notin Unplaced
      BY <1>10
    <3> QED BY <1>9, <1>12, <2>1, <3>1 DEF TableMatchesPlacement
  <2>2. ASSUME NEW v \in Slot
        PROVE  IF table'[v] = EMPTY
               THEN \A j \in Streams : placed'[j] # v
               ELSE \E j \in Streams : placed'[j] = v /\ keys[j].bank = table'[v]
    <3>1. CASE v = s
      BY <1>3, <1>9, <3>1
    <3>2. CASE v # s
      BY <1>3, <1>9, <3>2 DEF TableMatchesPlacement
    <3> QED BY <3>1, <3>2
  <2> QED BY <1>2, <1>10, <2>1, <2>2 DEF TableMatchesPlacement
<1>14. \A v \in Slot : table[v] # EMPTY => table'[v] # EMPTY
  BY <1>3, <1>9
<1>15. ProbePathTaken'
  <2>1. ASSUME NEW j \in Streams, j \notin Unplaced', j # i,
               NEW e \in 0 .. (placed'[j] - keys[j].addr) % Slots
        PROVE  table'[After(keys[j].addr, e)] # EMPTY
    <3>1. placed'[j] = placed[j] /\ j \notin Unplaced /\ keys[j].addr \in Slot /\ placed[j] \in Slot
      BY <1>4, <1>9, <1>10, <2>1, KeysOfList DEF TypeOK, Unplaced
    <3>2. table[After(keys[j].addr, e)] # EMPTY
      BY <2>1, <3>1 DEF ProbePathTaken
    <3>3. (placed[j] - keys[j].addr) % Slots \in Slot
      BY <3>1, Walk
    <3>4. e \in Slot
      <4> DEFINE m == (placed[j] - keys[j].addr) % Slots
      <4>1. e \in 0 .. m /\ m \in 0 .. Slots - 1
        BY <3>1, <3>3 DEF Slot
      <4> HIDE DEF m
      <4> QED BY <4>1, SlotsAssumption DEF Slot
    <3> QED BY <1>14, <3>1, <3>2, <3>4, Walk
  <2>2. (placed'[i] - keys[i].addr) % Slots = d
    BY <1>3, <1>6, <1>7, <1>9, Walk
  <2>3. ASSUME NEW e \in 0 .. d
        PROVE  table'[After(keys[i].addr, e)] # EMPTY
    <3>1. CASE e = d
      BY <1>3, <1>6, <1>9, <3>1
    <3>2. CASE e # d
      <4>1. e \in 0 .. d - 1 /\ e \in Slot
        BY <3>2, SlotsAssumption DEF Slot
      <4> QED BY <1>3, <1>6, <1>14, <4>1, Walk
    <3> QED BY <3>1, <3>2
  <2> QED BY <1>2, <1>10, <2>1, <2>2, <2>3 DEF ProbePathTaken
<1> QED BY <1>2, <1>11, <1>13, <1>15

\* A misread stream has only taken slots between the one its scan stops at
\* and its own, so the first free one past the former is its own again.
LEMMA RepairBack == IInv /\ Repair => table' = table /\ placed' = placed
<1> SUFFICES ASSUME IInv, Repair PROVE table' = table /\ placed' = placed
  OBVIOUS
<1> USE DEF IInv
<1>1. PICK i \in broken :
        LET cleared == [table EXCEPT ![placed[i]] = EMPTY]
            s == FirstFree(cleared, After(Scan(table, keys[i]), 1))
        IN /\ table' = [cleared EXCEPT ![s] = keys[i].bank]
           /\ placed' = [placed EXCEPT ![i] = s]
  BY DEF Repair
<1>2. phase = "repair" /\ Unplaced = {} /\ i \in Streams
  BY DEF Repair, TypeOK
<1>3. table \in [Slot -> Banks \union {EMPTY}] /\ placed \in [Streams -> Slot]
  BY <1>2 DEF TypeOK, Unplaced
<1> DEFINE a == keys[i].addr
           b == keys[i].bank
           p == placed[i]
           dp == (p - a) % Slots
           S == {u \in Slot : table[u] = b}
<1>4. a \in Slot /\ b \in Banks /\ b # EMPTY /\ p \in Slot
  BY <1>2, <1>3, KeysOfList, EmptyAssumption DEF TypeOK
<1>5. table[p] = b
  BY <1>2, <1>4 DEF TableMatchesPlacement
<1>6. dp \in Slot /\ After(a, dp) = p
  BY <1>4, Walk
<1>7. \A e \in 0 .. dp : table[After(a, e)] # EMPTY
  BY <1>2 DEF ProbePathTaken
<1>8. Scan(table, keys[i]) = Nearest(a, S) /\ Nearest(a, S) # p
  BY <1>1, <1>2 DEF Scan, Misread
<1>9. S \in SUBSET Slot /\ p \in S
  BY <1>4, <1>5
<1>10. PICK f \in Slot : /\ Nearest(a, S) = After(a, f)
                         /\ \A e \in 0 .. f - 1 : After(a, e) \notin S
  <2> HIDE DEF S, a
  <2> QED BY <1>4, <1>9, NearestFound
<1>11. Slots \in Nat \ {0} /\ Slot = 0 .. Slots - 1
  BY SlotsAssumption DEF Slot
<1> HIDE DEF S, a, b, p, dp
<1>12. f < dp
  <2>1. f # dp
    BY <1>6, <1>8, <1>10
  <2>2. ~(dp < f)
    <3>1. dp < f => dp \in 0 .. f - 1
      BY <1>6, <1>11
    <3> QED BY <1>6, <1>9, <1>10, <3>1
  <2> QED BY <1>6, <1>11, <2>1, <2>2
<1> DEFINE g == dp - f - 1
           s0 == After(After(a, f), 1)
           cleared == [table EXCEPT ![p] = EMPTY]
           F == {u \in Slot : cleared[u] = EMPTY}
<1>13. g \in Slot /\ f + 1 + g = dp /\ f + 1 + g \in Slot
  BY <1>6, <1>11, <1>12
<1>14. s0 \in Slot /\ After(s0, g) = p
  <2> HIDE DEF g
  <2> QED BY <1>4, <1>6, <1>13, WalkOn
<1>15. p \in F
  BY <1>3, <1>4
<1>16. ASSUME NEW e \in 0 .. g - 1
       PROVE  After(s0, e) \notin F
  <2> DEFINE k == f + 1 + e
  <2>1. e \in Slot /\ k \in Slot /\ k \in 0 .. dp /\ k # dp
    BY <1>6, <1>11, <1>12
  <2>2. After(s0, e) = After(a, k)
    BY <1>4, <2>1, WalkOn
  <2> HIDE DEF k
  <2>3. After(a, k) \in Slot /\ After(a, k) # p
    BY <1>4, <1>6, <2>1, Walk
  <2>4. table[After(a, k)] # EMPTY
    BY <1>7, <2>1 DEF a, dp
  <2>5. cleared[After(a, k)] = table[After(a, k)]
    BY <1>3, <2>3
  <2> QED BY <2>2, <2>4, <2>5
<1>17. FirstFree(cleared, s0) = p
  <2>1. FirstFree(cleared, s0) = Nearest(s0, F)
    BY DEF FirstFree
  <2>2. F \in SUBSET Slot
    OBVIOUS
  <2> HIDE DEF F, g, s0
  <2>3. Nearest(s0, F) = After(s0, g)
    BY <1>13, <1>14, <1>15, <1>16, <2>2, NearestIs
  <2> QED BY <1>14, <2>1, <2>3
<1>18. Scan(table, keys[i]) = After(a, f)
  BY <1>8, <1>10
<1>19. table' = [cleared EXCEPT ![p] = b] /\ placed' = [placed EXCEPT ![i] = p]
  BY <1>1, <1>17, <1>18 DEF a, b, p
<1>20. table' = table
  BY <1>3, <1>4, <1>5, <1>19
<1>21. placed' = placed
  BY <1>2, <1>3, <1>19 DEF p
<1> QED BY <1>20, <1>21
LEMMA RepairInv == IInv /\ Repair => IInv'
<1> SUFFICES ASSUME IInv, Repair PROVE IInv'
  OBVIOUS
<1>1. table' = table /\ placed' = placed /\ keys' = keys /\ rounds' = rounds
  BY RepairBack DEF Repair
<1>2. /\ phase = "repair" /\ broken' \subseteq broken
      /\ phase' \in {"round", "repair"} /\ (phase' = "repair" => broken' # {})
  <2>1. PICK i \in broken : /\ broken' = broken \ {i}
                            /\ phase' = IF broken = {i} THEN "round" ELSE "repair"
    BY DEF Repair
  <2> QED BY <2>1 DEF Repair
<1>3. Streams' = Streams /\ Unplaced' = Unplaced /\ \A i \in Streams : Misread(i)' = Misread(i)
  BY <1>1 DEF Streams, Unplaced, Misread
<1>4. TypeOK'
  BY <1>1, <1>2, <1>3 DEF IInv, TypeOK
<1>5. TableMatchesPlacement' /\ ProbePathTaken'
  BY <1>1, <1>3 DEF IInv, TableMatchesPlacement, ProbePathTaken
<1>6. phase' = "repair" => broken' # {} /\ \A i \in broken' : Misread(i)'
  BY <1>2, <1>3 DEF IInv, TypeOK
<1> QED BY <1>2, <1>3, <1>4, <1>5, <1>6 DEF IInv

\* A step that leaves the table and the placement alone.
LEMMA QuietInv ==
  ASSUME IInv, UNCHANGED <<keys, table, placed>>, Unplaced = {}, phase' # "repair",
         phase' \in {"round", "returned", "refused"}, rounds' = rounds, broken' = broken
  PROVE  IInv'
<1>1. Streams' = Streams /\ Unplaced' = Unplaced
  BY DEF Streams, Unplaced
<1>2. TypeOK'
  BY <1>1 DEF IInv, TypeOK
<1>3. TableMatchesPlacement' /\ ProbePathTaken'
  BY <1>1 DEF IInv, TableMatchesPlacement, ProbePathTaken
<1> QED BY <1>1, <1>2, <1>3 DEF IInv

LEMMA StartRoundInv == IInv /\ StartRound => IInv'
<1> SUFFICES ASSUME IInv, StartRound PROVE IInv'
  OBVIOUS
<1>1. Streams' = Streams /\ Unplaced' = Unplaced /\ \A i \in Streams : Misread(i)' = Misread(i)
  BY DEF StartRound, Streams, Unplaced, Misread
<1>2. broken' = {i \in Streams : Misread(i)} /\ broken' # {}
  BY DEF StartRound, BrokenNow
<1>3. rounds' \in 0 .. MaxRepairs
  BY RepairsAssumption DEF IInv, TypeOK, StartRound
<1>4. TypeOK'
  BY <1>1, <1>2, <1>3 DEF IInv, TypeOK, StartRound
<1>5. TableMatchesPlacement' /\ ProbePathTaken'
  BY <1>1 DEF IInv, StartRound, TableMatchesPlacement, ProbePathTaken
<1>6. Unplaced' = {} /\ phase' = "repair"
  BY <1>1 DEF IInv, StartRound
<1> QED BY <1>1, <1>2, <1>4, <1>5, <1>6 DEF IInv

LEMMA NextInv == IInv /\ [Next]_vars => IInv'
<1> SUFFICES ASSUME IInv, [Next]_vars PROVE IInv'
  OBVIOUS
<1>1. CASE Place
  BY <1>1, PlaceInv
<1>2. CASE AllPlaced
  <2>1. /\ UNCHANGED <<keys, table, placed>> /\ Unplaced = {} /\ phase' = "round"
        /\ rounds' = rounds /\ broken' = broken
    BY <1>2 DEF AllPlaced
  <2> QED BY <2>1, QuietInv
<1>3. CASE Return
  <2>1. /\ UNCHANGED <<keys, table, placed>> /\ Unplaced = {} /\ phase' = "returned"
        /\ rounds' = rounds /\ broken' = broken
    BY <1>3 DEF Return, IInv
  <2> QED BY <2>1, QuietInv
<1>4. CASE StartRound
  BY <1>4, StartRoundInv
<1>5. CASE Refuse
  <2>1. /\ UNCHANGED <<keys, table, placed>> /\ Unplaced = {} /\ phase' = "refused"
        /\ rounds' = rounds /\ broken' = broken
    BY <1>5 DEF Refuse, IInv
  <2> QED BY <2>1, QuietInv
<1>6. CASE Repair
  BY <1>6, RepairInv
<1>7. CASE UNCHANGED vars
  <2>1. Streams' = Streams /\ Unplaced' = Unplaced /\ \A i \in Streams : Misread(i)' = Misread(i)
    BY <1>7 DEF vars, Streams, Unplaced, Misread
  <2>2. TypeOK' /\ TableMatchesPlacement' /\ ProbePathTaken'
    BY <1>7, <2>1 DEF vars, IInv, TypeOK, TableMatchesPlacement, ProbePathTaken
  <2> QED BY <1>7, <2>1, <2>2 DEF vars, IInv, TypeOK
<1> QED BY <1>1, <1>2, <1>3, <1>4, <1>5, <1>6, <1>7 DEF Next, Finished

LEMMA Inductive == Spec => []IInv
BY InitInv, NextInv, PTL DEF Spec

-----------------------------------------------------------------------------
(* allocate keeps to its types, for every table and list of keys.          *)
THEOREM KeyTableTypes == Spec => []TypeOK
<1>1. IInv => TypeOK
  BY DEF IInv
<1> QED BY <1>1, Inductive, PTL

(* Table and placement agree at every step, so verify never refuses what   *)
(* allocate returns and no stream is overwritten by a later one.           *)
THEOREM TableAndPlacementAgree == Spec => []TableMatchesPlacement
<1>1. IInv => TableMatchesPlacement
  BY DEF IInv
<1> QED BY <1>1, Inductive, PTL

(* No slot between a stream's address and its own is ever free, so the     *)
(* console's unbounded scan cannot run past the stream.                    *)
THEOREM ScansNeverRunOff == Spec => []ProbePathTaken
<1>1. IInv => ProbePathTaken
  BY DEF IInv
<1> QED BY <1>1, Inductive, PTL

(* The repair rounds change neither the table nor the placement, whatever  *)
(* the keys, the slots and the number of rounds: a placement that is not   *)
(* right the first time is never returned.                                 *)
THEOREM RepairsAreIdle == Spec => RepairChangesNothing
<1>1. IInv /\ [Next]_vars => [phase = "repair" => table' = table /\ placed' = placed]_vars
  <2> SUFFICES ASSUME IInv, Next, phase = "repair" PROVE table' = table /\ placed' = placed
    BY DEF vars
  <2>1. CASE Repair
    BY <2>1, RepairBack
  <2>2. CASE UNCHANGED vars
    BY <2>2 DEF vars
  <2> QED BY <2>1, <2>2 DEF Next, Finished, Place, AllPlaced, Return, StartRound, Refuse
<1> QED BY <1>1, Inductive, PTL DEF Spec, RepairChangesNothing
-----------------------------------------------------------------------------
(* The routine that scans the table.  It runs only over a placement allocate*)
(* returned, where no scan stops at the wrong slot.                        *)

ReturnedRight == phase = "returned" => BrokenNow = {}

Regs == [a : Int, x : Int, y : Int, dbr : Int, m8 : BOOLEAN, x8 : BOOLEAN, c : BOOLEAN]
Callers == [a : Word, x : Word, y : Word, dbr : Byte,
            m8 : BOOLEAN, x8 : BOOLEAN, c : BOOLEAN]
Transfers == [fixed : BOOLEAN, addr : Word, bank : Byte]

Scanning == {"scan", "scan chy"}
AtSlot == {"found", "found chy"}
Before == {"macro", "chy"}

Served == [entry.dma EXCEPT ![channel] =
             [fixed |-> FALSE, addr |-> Destination(stream).addr,
              bank |-> Destination(stream).bank]]

\* A call is for a stream of the image, on a channel programmed with its key.
CallInv ==
  /\ pc \in {"game", "write chy", "return"} \union Before \union Scanning \union AtSlot
  /\ r \in Regs /\ dma \in [Channels -> Transfers]
  /\ pc = "game" => r \in Callers /\ stack = <<>>
  /\ pc # "game" =>
       /\ phase = "returned" /\ channel \in Channels /\ stream \in DOMAIN keys
       /\ entry.r \in Callers /\ entry.dma \in [Channels -> Transfers]
       /\ entry.dma[channel].addr = keys[stream].addr
       /\ entry.dma[channel].bank = keys[stream].bank
  /\ pc \in Before => r = entry.r /\ stack = <<>> /\ steps = 0
  /\ pc = "chy" => r.y = channel

\* The caller's registers, flags and data bank, under whatever came after.
Holds(s, q) ==
  /\ s \in Seq(Int) /\ Len(s) >= 8
  /\ s[1] = Flags(q) /\ s[2] = q.dbr
  /\ s[3] = Hi(q.a) /\ s[4] = Lo(q.a)
  /\ s[5] = Hi(q.x) /\ s[6] = Lo(q.x)
  /\ s[7] = Hi(q.y) /\ s[8] = Lo(q.y)

StackInv ==
  /\ pc \in Scanning \union AtSlot \union {"write chy", "return"} => Holds(stack, entry.r)
  /\ pc \in {"scan", "found"} => Len(stack) = 8
  /\ pc \in {"scan chy", "found chy", "write chy"} =>
       stack[9] = Hi(channel) /\ stack[10] = Lo(channel)
  /\ pc \in {"scan chy", "found chy", "return"} => Len(stack) = 10
  /\ pc = "write chy" =>
       /\ Len(stack) = 13
       /\ stack[11] = Lo(Destination(stream).addr)
       /\ stack[12] = Hi(Destination(stream).addr)
       /\ stack[13] = Destination(stream).bank

\* How far past its address a stream stands.
Away(i) == (placed[i] - keys[i].addr) % Slots

\* The scan has passed no slot of the stream's bank, and none past its own.
ScanInv ==
  /\ pc \in Scanning =>
       /\ steps \in 0 .. Away(stream)
       /\ r.y = After(keys[stream].addr, steps) /\ Lo(r.a) = keys[stream].bank
       /\ \A e \in 0 .. steps - 1 : table[After(keys[stream].addr, e)] # keys[stream].bank
  /\ pc \in AtSlot => r.y = placed[stream]

\* The transfer is as it was asked for until the destination is written.
TransferInv ==
  /\ pc \in Before \union Scanning \union AtSlot \union {"write chy"} => dma = entry.dma
  /\ pc = "return" => dma = Served

RoutineInv == CallInv /\ StackInv /\ ScanInv /\ TransferInv

-----------------------------------------------------------------------------
(* Words, bytes and stacks.                                                *)

LEMMA Types ==
  /\ RADIX \in Nat /\ RADIX >= 2
  /\ Byte \subseteq Int /\ Word \subseteq Int /\ Word = Slot /\ Slots = RADIX * RADIX
  /\ Callers \subseteq Regs
<1>1. RADIX \in Nat /\ RADIX >= 2 /\ Slots = RADIX * RADIX
  BY RadixAssumption, WordsAssumption
<1>2. Byte \subseteq Int /\ Word = Slot
  BY <1>1 DEF Byte, Word, Slot
<1>3. Word \subseteq Int
  BY <1>2, SlotsAssumption DEF Slot
<1>4. Callers \subseteq Regs
  BY <1>2, <1>3 DEF Callers, Regs
<1> QED BY <1>1, <1>2, <1>3, <1>4

\* A word is its two bytes.
LEMMA Halves ==
  ASSUME NEW w \in Word
  PROVE  /\ Hi(w) \in Nat /\ Lo(w) \in Byte /\ Pair(Hi(w), Lo(w)) = w
         /\ w \in Int /\ Hi(w) \in Int /\ Lo(w) \in Int
<1>1. RADIX \in Nat /\ RADIX >= 2 /\ w \in Nat
  BY RadixAssumption DEF Word
<1>2. w % RADIX \in 0 .. RADIX - 1 /\ w \div RADIX \in Nat
  BY <1>1
<1>3. (w \div RADIX) * RADIX + (w % RADIX) = w
  BY <1>1
<1> QED BY <1>1, <1>2, <1>3 DEF Hi, Lo, Pair, Byte

\* The lower byte of a pair.
LEMMA LowOfPair ==
  ASSUME NEW h \in Nat, NEW b \in Byte
  PROVE  Lo(Pair(h, b)) = b /\ Pair(h, b) \in Int
<1>1. RADIX \in Nat /\ RADIX >= 2 /\ b \in 0 .. RADIX - 1
  BY RadixAssumption DEF Byte
<1>2. (h * RADIX + b) % RADIX = b
  BY <1>1
<1> QED BY <1>1, <1>2 DEF Lo, Pair

\* Two bytes on top of a stack.
LEMMA PushTwo ==
  ASSUME NEW s \in Seq(Int), NEW u \in Int, NEW v \in Int
  PROVE  /\ s \o <<u, v>> \in Seq(Int)
         /\ Len(s \o <<u, v>>) = Len(s) + 2
         /\ \A i \in 1 .. Len(s) : (s \o <<u, v>>)[i] = s[i]
         /\ (s \o <<u, v>>)[Len(s) + 1] = u /\ (s \o <<u, v>>)[Len(s) + 2] = v
OBVIOUS

LEMMA PushThree ==
  ASSUME NEW s \in Seq(Int), NEW u \in Int, NEW v \in Int, NEW w \in Int
  PROVE  /\ s \o <<u, v, w>> \in Seq(Int)
         /\ Len(s \o <<u, v, w>>) = Len(s) + 3
         /\ \A i \in 1 .. Len(s) : (s \o <<u, v, w>>)[i] = s[i]
         /\ (s \o <<u, v, w>>)[Len(s) + 1] = u /\ (s \o <<u, v, w>>)[Len(s) + 2] = v
         /\ (s \o <<u, v, w>>)[Len(s) + 3] = w
OBVIOUS

\* The bytes of a stack kept when the top ones are dropped.
LEMMA Dropped ==
  ASSUME NEW s \in Seq(Int), NEW n \in Nat, n <= Len(s)
  PROVE  /\ Drop(s, n) \in Seq(Int) /\ Len(Drop(s, n)) = Len(s) - n
         /\ \A i \in 1 .. Len(s) - n : Drop(s, n)[i] = s[i]
<1> DEFINE m == Len(s) - n
<1>1. m \in 0 .. Len(s)
  OBVIOUS
<1> HIDE DEF m
<1>2. SubSeq(s, 1, m) \in Seq(Int) /\ Len(SubSeq(s, 1, m)) = m
      /\ \A i \in 1 .. m : SubSeq(s, 1, m)[i] = s[i]
  BY <1>1
<1> QED BY <1>2 DEF Drop, m

LEMMA PushedWord ==
  ASSUME NEW s \in Seq(Int), NEW w \in Word
  PROVE  /\ PushWord(s, w) \in Seq(Int) /\ Len(PushWord(s, w)) = Len(s) + 2
         /\ \A i \in 1 .. Len(s) : PushWord(s, w)[i] = s[i]
         /\ PushWord(s, w)[Len(s) + 1] = Hi(w) /\ PushWord(s, w)[Len(s) + 2] = Lo(w)
<1>1. Hi(w) \in Int /\ Lo(w) \in Int
  BY Halves, Types
<1> QED BY <1>1, PushTwo DEF PushWord

\* What the caller had, pushed on an empty stack.
LEMMA SavedHolds ==
  ASSUME r \in Callers, stack = <<>>
  PROVE  Holds(Saved, r) /\ Len(Saved) = 8
<1> DEFINE f == Flags(r)
           d == r.dbr
           u == r.a
           v == r.x
           w == r.y
           s1 == stack \o <<f, d>>
           s2 == PushWord(s1, u)
           s3 == PushWord(s2, v)
           s4 == PushWord(s3, w)
<1>1. u \in Word /\ v \in Word /\ w \in Word /\ d \in Int
  BY Types DEF Callers
<1>2. f \in Int
  BY DEF Flags
<1>3. Saved = s4
  BY DEF Saved
<1>4. stack = <<>>
  OBVIOUS
<1> HIDE DEF f, d, u, v, w
<1>5. s1 \in Seq(Int) /\ Len(s1) = 2 /\ s1[1] = f /\ s1[2] = d
  BY <1>1, <1>2, <1>4
<1> HIDE DEF s1
<1>6. s2 \in Seq(Int) /\ Len(s2) = 4 /\ \A i \in 1 .. 2 : s2[i] = s1[i]
  <2>1. /\ s2 \in Seq(Int) /\ Len(s2) = Len(s1) + 2
        /\ \A i \in 1 .. Len(s1) : s2[i] = s1[i]
    BY <1>1, <1>5, PushedWord
  <2> HIDE DEF s2
  <2> QED BY <1>5, <2>1
<1>7. s2[3] = Hi(u) /\ s2[4] = Lo(u)
  <2>1. s2[Len(s1) + 1] = Hi(u) /\ s2[Len(s1) + 2] = Lo(u)
    BY <1>1, <1>5, PushedWord
  <2> HIDE DEF s2
  <2> QED BY <1>5, <2>1
<1> HIDE DEF s2
<1>8. s3 \in Seq(Int) /\ Len(s3) = 6 /\ \A i \in 1 .. 4 : s3[i] = s2[i]
  <2>1. /\ s3 \in Seq(Int) /\ Len(s3) = Len(s2) + 2
        /\ \A i \in 1 .. Len(s2) : s3[i] = s2[i]
    BY <1>1, <1>6, PushedWord
  <2> HIDE DEF s3
  <2> QED BY <1>6, <2>1
<1>9. s3[5] = Hi(v) /\ s3[6] = Lo(v)
  <2>1. s3[Len(s2) + 1] = Hi(v) /\ s3[Len(s2) + 2] = Lo(v)
    BY <1>1, <1>6, PushedWord
  <2> HIDE DEF s3
  <2> QED BY <1>6, <2>1
<1> HIDE DEF s3
<1>10. s4 \in Seq(Int) /\ Len(s4) = 8 /\ \A i \in 1 .. 6 : s4[i] = s3[i]
  <2>1. /\ s4 \in Seq(Int) /\ Len(s4) = Len(s3) + 2
        /\ \A i \in 1 .. Len(s3) : s4[i] = s3[i]
    BY <1>1, <1>8, PushedWord
  <2> HIDE DEF s4
  <2> QED BY <1>8, <2>1
<1>11. s4[7] = Hi(w) /\ s4[8] = Lo(w)
  <2>1. s4[Len(s3) + 1] = Hi(w) /\ s4[Len(s3) + 2] = Lo(w)
    BY <1>1, <1>8, PushedWord
  <2> HIDE DEF s4
  <2> QED BY <1>8, <2>1
<1> HIDE DEF s4
<1>12. s4[1] = f /\ s4[2] = d
  BY <1>5, <1>6, <1>8, <1>10
<1>13. s4[3] = Hi(u) /\ s4[4] = Lo(u)
  BY <1>7, <1>8, <1>10
<1>14. s4[5] = Hi(v) /\ s4[6] = Lo(v)
  BY <1>9, <1>10
<1>15. Holds(s4, r)
  BY <1>10, <1>11, <1>12, <1>13, <1>14 DEF Holds, f, d, u, v, w
<1> QED BY <1>3, <1>10, <1>15

\* They stay where they are when more is pushed, and when that is dropped.
LEMMA HeldUnder ==
  ASSUME NEW s, NEW t \in Seq(Int), NEW q, Holds(s, q), Len(t) >= 8,
         \A i \in 1 .. 8 : t[i] = s[i]
  PROVE  Holds(t, q)
<1>1. t[1] = s[1] /\ t[2] = s[2] /\ t[3] = s[3] /\ t[4] = s[4]
  OBVIOUS
<1>2. t[5] = s[5] /\ t[6] = s[6] /\ t[7] = s[7] /\ t[8] = s[8]
  OBVIOUS
<1> QED BY <1>1, <1>2 DEF Holds

-----------------------------------------------------------------------------
(* The steps of the image.                                                 *)

ImageInv == IInv /\ ReturnedRight /\ RoutineInv

\* What a call may rely on: its stream stands where its scan stops.
LEMMA Asked ==
  ASSUME ImageInv, pc # "game"
  PROVE  /\ stream \in Streams /\ channel \in Channels /\ channel \in Word
         /\ keys[stream].addr \in Slot /\ keys[stream].bank \in Banks
         /\ keys[stream].bank \in Byte
         /\ placed[stream] \in Slot /\ table[placed[stream]] = keys[stream].bank
         /\ Scan(table, keys[stream]) = placed[stream]
         /\ Held(placed[stream]) = stream
         /\ Destination(stream).bank \in Byte /\ Destination(stream).addr \in Word
         /\ entry.r \in Callers /\ entry.dma \in [Channels -> Transfers]
<1>1. /\ phase = "returned" /\ channel \in Channels /\ stream \in Streams
      /\ entry.r \in Callers /\ entry.dma \in [Channels -> Transfers]
  BY DEF ImageInv, RoutineInv, CallInv, Streams
<1>2. TypeOK /\ TableMatchesPlacement /\ Unplaced = {} /\ BrokenNow = {}
  BY <1>1 DEF ImageInv, IInv, ReturnedRight
<1>3. placed \in [Streams -> Slot] /\ keys \in KeyLists
  BY <1>2 DEF TypeOK, Unplaced
<1>4. keys[stream].addr \in Slot /\ keys[stream].bank \in Banks
  BY <1>1, <1>3, KeysOfList
<1>5. keys[stream].bank \in Byte
  BY <1>4, BanksAssumption, Types DEF Byte
<1>6. placed[stream] \in Slot
  BY <1>1, <1>3
<1>7. keys[stream].bank # EMPTY
  BY <1>4, EmptyAssumption
<1>8. table[placed[stream]] = keys[stream].bank
  <2>1. table[placed[stream]] # EMPTY
    BY <1>1, <1>2, <1>6 DEF TableMatchesPlacement
  <2>2. PICK i \in Streams : placed[i] = placed[stream] /\ keys[i].bank = table[placed[stream]]
    BY <1>2, <1>6, <2>1 DEF TableMatchesPlacement
  <2>3. i = stream
    BY <1>1, <1>2, <2>2 DEF TableMatchesPlacement
  <2> QED BY <2>2, <2>3
<1>9. Scan(table, keys[stream]) = placed[stream]
  BY <1>1, <1>2 DEF BrokenNow, Misread
<1>10. Held(placed[stream]) = stream
  <2>1. \A i \in Streams : placed[i] = placed[stream] => i = stream
    BY <1>1, <1>2 DEF TableMatchesPlacement
  <2> QED BY <1>1, <2>1 DEF Held, Streams
<1>11. Destination(stream).bank \in Byte /\ Destination(stream).addr \in Word
  BY <1>1, <1>3, DestinationAssumption DEF Streams
<1>12. channel \in Word
  BY <1>1, CallerAssumption
<1> QED BY <1>1, <1>4, <1>5, <1>6, <1>8, <1>9, <1>10, <1>11, <1>12

\* An instruction of the routine leaves the table and what was asked for.
LEMMA Unmoved ==
  ASSUME ImageInv, UNCHANGED <<built, call>>
  PROVE  /\ IInv' /\ ReturnedRight'
         /\ keys' = keys /\ table' = table /\ placed' = placed /\ phase' = phase
         /\ channel' = channel /\ stream' = stream /\ entry' = entry
         /\ Served' = Served /\ Away(stream)' = Away(stream)
<1>1. /\ UNCHANGED vars
      /\ keys' = keys /\ table' = table /\ placed' = placed /\ phase' = phase
      /\ channel' = channel /\ stream' = stream /\ entry' = entry
  BY DEF built, vars, call
<1>2. IInv'
  BY <1>1, NextInv DEF ImageInv
<1>3. ReturnedRight'
  BY <1>1 DEF ImageInv, ReturnedRight, BrokenNow, Misread, Streams
<1> QED BY <1>1, <1>2, <1>3 DEF Served, Away

LEMMA ImageInitInv == ImageInit => ImageInv
<1> SUFFICES ASSUME ImageInit PROVE ImageInv
  OBVIOUS
<1>1. IInv
  BY InitInv DEF ImageInit
<1>2. phase = "place" /\ pc = "game" /\ r \in Registers /\ stack = <<>>
      /\ dma = [ch \in Channels |-> Idle]
  BY DEF ImageInit, Init, ConsoleInit
<1>3. ReturnedRight
  BY <1>2 DEF ReturnedRight
<1>4. r \in Callers /\ r \in Regs
  BY <1>2, CallerAssumption, Types DEF Callers
<1>5. Idle \in Transfers
  <2>1. 0 \in Byte
    BY Types DEF Byte
  <2>2. 0 \in Word
    BY Types, SlotsAssumption DEF Slot
  <2> QED BY <2>1, <2>2 DEF Idle, Transfers
<1>6. CallInv
  BY <1>2, <1>4, <1>5 DEF CallInv, Before
<1>7. StackInv /\ ScanInv /\ TransferInv
  BY <1>2 DEF StackInv, ScanInv, TransferInv, Before, Scanning, AtSlot
<1> QED BY <1>1, <1>3, <1>6, <1>7 DEF ImageInv, RoutineInv

\* allocate works only before the image is made, and between its steps nothing moves.
LEMMA TableStep ==
  ASSUME ImageInv, [Next]_vars, UNCHANGED console
  PROVE  ImageInv'
<1>1. /\ UNCHANGED <<r, stack, dma, pc, channel, stream, entry, steps>>
  BY DEF console, machine, call
<1>2. IInv'
  BY NextInv DEF ImageInv
<1>3. ReturnedRight'
  <2>1. CASE Return
    BY <2>1 DEF Return, ReturnedRight, BrokenNow, Misread, Streams
  <2>2. CASE UNCHANGED vars
    BY <2>2 DEF ImageInv, vars, ReturnedRight, BrokenNow, Misread, Streams
  <2>3. CASE Place \/ AllPlaced \/ StartRound \/ Refuse \/ Repair
    <3>1. phase' # "returned"
      BY <2>3 DEF Place, AllPlaced, StartRound, Refuse, Repair
    <3> QED BY <3>1 DEF ReturnedRight
  <2> QED BY <2>1, <2>2, <2>3 DEF Next, Finished
<1>4. CASE pc = "game"
  <2>1. CallInv'
    BY <1>1, <1>4 DEF ImageInv, RoutineInv, CallInv, Before
  <2>2. StackInv' /\ ScanInv' /\ TransferInv'
    BY <1>1, <1>4 DEF StackInv, ScanInv, TransferInv, Before, Scanning, AtSlot
  <2> QED BY <1>2, <1>3, <2>1, <2>2 DEF ImageInv, RoutineInv
<1>5. CASE pc # "game"
  <2>1. phase = "returned"
    BY <1>5 DEF ImageInv, RoutineInv, CallInv
  <2>2. UNCHANGED vars
    BY <2>1 DEF Next, Place, AllPlaced, Return, StartRound, Refuse, Repair, Finished
  <2>3. UNCHANGED <<keys, table, placed, phase>>
    BY <2>2 DEF vars
  <2>4. CallInv'
    BY <1>1, <2>3 DEF ImageInv, RoutineInv, CallInv
  <2>5. StackInv'
    BY <1>1 DEF ImageInv, RoutineInv, StackInv
  <2>6. ScanInv'
    BY <1>1, <2>3 DEF ImageInv, RoutineInv, ScanInv, Away
  <2>7. TransferInv'
    BY <1>1 DEF ImageInv, RoutineInv, TransferInv, Served
  <2> QED BY <1>2, <1>3, <2>4, <2>5, <2>6, <2>7 DEF ImageInv, RoutineInv
<1> QED BY <1>4, <1>5

\* A hook site programs the channel with the stream's key.
LEMMA CallStep ==
  ASSUME ImageInv, NEW ch \in Channels, NEW i \in DOMAIN keys, NEW q \in Registers,
         NEW which \in Before, Call(ch, i, q, which)
  PROVE  ImageInv'
<1>1. /\ pc = "game" /\ phase = "returned" /\ (which = "chy" => q.y = ch) /\ pc' = which
      /\ r' = q /\ channel' = ch /\ stream' = i /\ entry' = [r |-> q, dma |-> dma']
      /\ dma' = [dma EXCEPT ![ch] = [fixed |-> TRUE, addr |-> keys[i].addr,
                                     bank |-> keys[i].bank]]
      /\ steps' = 0 /\ UNCHANGED vars /\ stack' = stack
  BY DEF Call, built
<1>2. IInv' /\ ReturnedRight' /\ UNCHANGED <<keys, table, placed, phase>>
  <2>1. UNCHANGED <<keys, table, placed, phase>>
    BY <1>1 DEF vars
  <2>2. IInv'
    BY <1>1, NextInv DEF ImageInv
  <2>3. ReturnedRight'
    BY <2>1 DEF ImageInv, ReturnedRight, BrokenNow, Misread, Streams
  <2> QED BY <2>1, <2>2, <2>3
<1>3. dma \in [Channels -> Transfers] /\ stack = <<>>
  BY <1>1 DEF ImageInv, RoutineInv, CallInv
<1>4. keys[i].addr \in Word /\ keys[i].bank \in Byte
  <2>1. keys \in KeyLists /\ i \in DOMAIN keys
    BY DEF ImageInv, IInv, TypeOK
  <2>2. keys[i].addr \in Slot /\ keys[i].bank \in Banks
    BY <2>1, KeysOfList
  <2> QED BY <2>2, Types, BanksAssumption DEF Byte
<1>5. [fixed |-> TRUE, addr |-> keys[i].addr, bank |-> keys[i].bank] \in Transfers
  BY <1>4 DEF Transfers
<1>6. dma' \in [Channels -> Transfers]
  BY <1>1, <1>3, <1>5
<1>7. entry'.r = q /\ entry'.dma = dma' /\ entry'.dma[ch].addr = keys[i].addr
      /\ entry'.dma[ch].bank = keys[i].bank
  BY <1>1, <1>3
<1>8. q \in Callers /\ q \in Regs
  BY CallerAssumption, Types DEF Callers
<1>9. CallInv'
  BY <1>1, <1>2, <1>3, <1>6, <1>7, <1>8 DEF CallInv, Before, Scanning, AtSlot
<1>10. StackInv' /\ ScanInv' /\ TransferInv'
  BY <1>1, <1>7 DEF StackInv, ScanInv, TransferInv, Before, Scanning, AtSlot
<1> QED BY <1>2, <1>9, <1>10 DEF ImageInv, RoutineInv

\* Between the call and the return the routine is in one of its parts.
LEMMA InRoutine ==
  ASSUME ImageInv, pc # "game", UNCHANGED <<built, call>>,
         pc' \in Scanning \union AtSlot \union {"write chy", "return"},
         r' \in Regs, dma' \in [Channels -> Transfers]
  PROVE  CallInv'
<1>1. /\ UNCHANGED <<keys, phase, channel, stream, entry>>
      /\ pc' # "game" /\ pc' # "chy" /\ pc' \notin Before
  BY Unmoved DEF Scanning, AtSlot, Before
<1>2. /\ phase = "returned" /\ channel \in Channels /\ stream \in DOMAIN keys
      /\ entry.r \in Callers /\ entry.dma \in [Channels -> Transfers]
      /\ entry.dma[channel].addr = keys[stream].addr
      /\ entry.dma[channel].bank = keys[stream].bank
  BY DEF ImageInv, RoutineInv, CallInv
<1> QED BY <1>1, <1>2 DEF CallInv

LEMMA Sameness ==
  ASSUME NEW a \in Slot
  PROVE  After(a, 0) = a
<1>1. 0 \in Slot /\ a \in Int /\ a + 0 < Slots
  BY SlotsAssumption DEF Slot
<1> QED BY <1>1, Steps

\* The registers at the start of a scan.
LEMMA ScanStarts ==
  ASSUME ImageInv, UNCHANGED <<built, call>>, pc # "game", pc' \in Scanning,
         dma = entry.dma, dma' = dma,
         steps' = 0, r'.y = keys[stream].addr, Lo(r'.a) = keys[stream].bank
  PROVE  ScanInv' /\ TransferInv'
<1>1. stream' = stream /\ keys' = keys /\ table' = table /\ placed' = placed /\ entry' = entry
      /\ Away(stream)' = Away(stream)
  BY Unmoved
<1>2. keys[stream].addr \in Slot /\ placed[stream] \in Slot
  BY Asked
<1>3. Away(stream) \in Nat
  <2> DEFINE a == keys[stream].addr
             u == placed[stream]
  <2>1. a \in Slot /\ u \in Slot
    BY <1>2
  <2>2. Away(stream) = (u - a) % Slots
    BY DEF Away
  <2> HIDE DEF a, u
  <2>3. (u - a) % Slots \in Slot
    BY <2>1, Walk
  <2> QED BY <2>2, <2>3, SlotsAssumption DEF Slot
<1>4. 0 \in 0 .. Away(stream) /\ 0 .. 0 - 1 = {}
  BY <1>3
<1>5. r'.y = After(keys[stream].addr, 0)
  BY <1>2, Sameness
<1>6. pc' \notin AtSlot
  BY DEF Scanning, AtSlot
<1>7. \A e \in 0 .. steps' - 1 : table'[After(keys[stream].addr, e)] # keys[stream].bank
  BY <1>4
<1>8. ScanInv'
  BY <1>1, <1>4, <1>5, <1>6, <1>7 DEF ScanInv
<1>9. TransferInv'
  BY <1>1 DEF TransferInv, Scanning
<1> QED BY <1>8, <1>9

\* What the channel was programmed with, as the routine reads it.
LEMMA Programmed ==
  ASSUME ImageInv, pc \in Before
  PROVE  /\ r = entry.r /\ r \in Callers /\ stack = <<>> /\ steps = 0 /\ dma = entry.dma
         /\ dma[channel].addr = keys[stream].addr /\ dma[channel].bank = keys[stream].bank
         /\ pc # "game"
<1>1. pc # "game"
  BY DEF Before
<1>2. r = entry.r /\ stack = <<>> /\ steps = 0 /\ dma = entry.dma
  BY DEF ImageInv, RoutineInv, CallInv, TransferInv
<1>3. dma[channel].addr = keys[stream].addr /\ dma[channel].bank = keys[stream].bank
  BY <1>1, <1>2 DEF ImageInv, RoutineInv, CallInv
<1>4. r \in Callers
  BY <1>1, <1>2, Asked
<1> QED BY <1>1, <1>2, <1>3, <1>4

LEMMA EnterMacroStep == ImageInv /\ EnterMacro => ImageInv'
<1> SUFFICES ASSUME ImageInv, EnterMacro PROVE ImageInv'
  OBVIOUS
<1>1. /\ pc = "macro" /\ stack' = Saved /\ pc' = "scan" /\ UNCHANGED <<built, call>>
      /\ dma' = dma /\ steps' = steps
      /\ r' = [Widened(r) EXCEPT !.m8 = TRUE, !.y = dma[channel].addr, !.dbr = TABLE_BANK,
                 !.a = Pair(Hi(dma[channel].addr), dma[channel].bank)]
  BY DEF EnterMacro
<1>2. /\ r = entry.r /\ r \in Callers /\ stack = <<>> /\ steps = 0 /\ dma = entry.dma
      /\ dma[channel].addr = keys[stream].addr /\ dma[channel].bank = keys[stream].bank
      /\ pc # "game"
  BY <1>1, Programmed DEF Before
<1>3. IInv' /\ ReturnedRight' /\ entry' = entry
  BY <1>1, Unmoved
<1> DEFINE k == keys[stream]
           p == Pair(Hi(k.addr), k.bank)
<1>4. k.addr \in Word /\ k.bank \in Byte /\ entry.dma \in [Channels -> Transfers]
  BY <1>2, Asked, Types
<1>5. Lo(p) = k.bank /\ p \in Int /\ k.addr \in Int
  BY <1>4, Halves, LowOfPair
<1>6. /\ r' = [a |-> p, x |-> r.x, y |-> k.addr, dbr |-> TABLE_BANK,
               m8 |-> TRUE, x8 |-> FALSE, c |-> r.c]
      /\ r.x \in Int /\ r.c \in BOOLEAN
  <2>1. r \in Regs
    BY <1>2, Types
  <2> HIDE DEF k
  <2>2. r' = [Widened(r) EXCEPT !.m8 = TRUE, !.y = k.addr, !.dbr = TABLE_BANK, !.a = p]
    BY <1>1, <1>2 DEF k
  <2> HIDE DEF p
  <2> QED BY <2>1, <2>2 DEF Widened, Regs
<1>7. TABLE_BANK \in Int
  BY BanksAssumption, Types
<1> HIDE DEF p
<1>8. r' \in Regs
  BY <1>5, <1>6, <1>7 DEF Regs
<1>9. r'.y = k.addr /\ Lo(r'.a) = k.bank
  BY <1>5, <1>6
<1>10. CallInv'
  <2>1. dma' \in [Channels -> Transfers]
    BY <1>1, <1>2, <1>4
  <2> QED BY <1>1, <1>2, <1>8, <2>1, InRoutine DEF Scanning
<1>11. StackInv'
  <2>1. Holds(stack', entry'.r) /\ Len(stack') = 8
    BY <1>1, <1>2, <1>3, SavedHolds
  <2> QED BY <1>1, <2>1 DEF StackInv
<1>12. ScanInv' /\ TransferInv'
  BY <1>1, <1>2, <1>9, ScanStarts DEF Scanning
<1> QED BY <1>3, <1>10, <1>11, <1>12 DEF ImageInv, RoutineInv

LEMMA EnterChyStep == ImageInv /\ EnterChy => ImageInv'
<1> SUFFICES ASSUME ImageInv, EnterChy PROVE ImageInv'
  OBVIOUS
<1>1. /\ pc = "chy" /\ stack' = PushWord(Saved, r.y) /\ pc' = "scan chy"
      /\ UNCHANGED <<built, call>> /\ dma' = dma /\ steps' = steps
      /\ r' = [Widened(r) EXCEPT !.m8 = TRUE, !.x = r.y, !.y = dma[r.y].addr,
                 !.dbr = TABLE_BANK, !.a = Pair(Hi(dma[r.y].addr), dma[r.y].bank)]
  BY DEF EnterChy
<1>2. /\ r = entry.r /\ r \in Callers /\ stack = <<>> /\ steps = 0 /\ dma = entry.dma
      /\ dma[channel].addr = keys[stream].addr /\ dma[channel].bank = keys[stream].bank
      /\ pc # "game"
  BY <1>1, Programmed DEF Before
<1>3. IInv' /\ ReturnedRight' /\ entry' = entry /\ channel' = channel
  BY <1>1, Unmoved
<1>4. r.y = channel
  BY <1>1 DEF ImageInv, RoutineInv, CallInv
<1> DEFINE k == keys[stream]
           p == Pair(Hi(k.addr), k.bank)
<1>5. /\ k.addr \in Word /\ k.bank \in Byte /\ entry.dma \in [Channels -> Transfers]
      /\ channel \in Word
  BY <1>2, Asked, Types
<1>6. Lo(p) = k.bank /\ p \in Int /\ k.addr \in Int /\ channel \in Int
  BY <1>5, Halves, LowOfPair
<1>7. /\ r' = [a |-> p, x |-> channel, y |-> k.addr, dbr |-> TABLE_BANK,
               m8 |-> TRUE, x8 |-> FALSE, c |-> r.c]
      /\ r.c \in BOOLEAN
  <2>1. r \in Regs
    BY <1>2, Types
  <2> HIDE DEF k
  <2>2. r' = [Widened(r) EXCEPT !.m8 = TRUE, !.x = channel, !.y = k.addr,
                !.dbr = TABLE_BANK, !.a = p]
    BY <1>1, <1>2, <1>4 DEF k
  <2> HIDE DEF p
  <2> QED BY <2>1, <2>2 DEF Widened, Regs
<1>8. TABLE_BANK \in Int
  BY BanksAssumption, Types
<1> HIDE DEF p
<1>9. r' \in Regs
  BY <1>6, <1>7, <1>8 DEF Regs
<1>10. r'.y = k.addr /\ Lo(r'.a) = k.bank
  BY <1>6, <1>7
<1>11. CallInv'
  <2>1. dma' \in [Channels -> Transfers]
    BY <1>1, <1>2, <1>5
  <2> QED BY <1>1, <1>2, <1>9, <2>1, InRoutine DEF Scanning
<1>12. StackInv'
  <2> DEFINE s == Saved
             t == PushWord(s, channel)
  <2>1. Holds(s, entry.r) /\ Len(s) = 8 /\ s \in Seq(Int)
    BY <1>2, SavedHolds DEF Holds
  <2>2. stack' = t
    BY <1>1, <1>4
  <2> HIDE DEF s
  <2>3. /\ t \in Seq(Int) /\ Len(t) = Len(s) + 2
        /\ \A i \in 1 .. Len(s) : t[i] = s[i]
        /\ t[Len(s) + 1] = Hi(channel) /\ t[Len(s) + 2] = Lo(channel)
    BY <1>5, <2>1, PushedWord
  <2> HIDE DEF t
  <2>4. Len(t) = 10 /\ t[9] = Hi(channel) /\ t[10] = Lo(channel) /\ \A i \in 1 .. 8 : t[i] = s[i]
    BY <2>1, <2>3
  <2> DEFINE q == entry.r
  <2>5. Holds(s, q) /\ t \in Seq(Int) /\ Len(t) >= 8 /\ \A i \in 1 .. 8 : t[i] = s[i]
    BY <2>1, <2>3, <2>4
  <2>6. Holds(t, q)
    <3> HIDE DEF q
    <3> QED BY <2>5, HeldUnder
  <2> QED BY <1>1, <1>3, <2>2, <2>4, <2>6 DEF StackInv
<1>13. ScanInv' /\ TransferInv'
  BY <1>1, <1>2, <1>10, ScanStarts DEF Scanning
<1> QED BY <1>3, <1>11, <1>12, <1>13 DEF ImageInv, RoutineInv

\* The slot after the one d steps away.
LEMMA OneOn ==
  ASSUME NEW s \in Slot, NEW d \in Slot, d + 1 \in Slot
  PROVE  After(After(s, d), 1) \in Slot /\ After(After(s, d), 1) = After(s, d + 1)
<1> DEFINE v == After(After(s, d), 1)
<1>1. d \in Int /\ 0 \in Slot
  BY SlotsAssumption DEF Slot
<1>2. d + 1 + 0 = d + 1
  BY <1>1
<1>3. v \in Slot /\ After(v, 0) = After(s, d + 1)
  BY <1>1, <1>2, WalkOn
<1> HIDE DEF v
<1>4. After(v, 0) = v
  BY <1>3, Sameness
<1>5. v \in Slot /\ v = After(s, d + 1)
  BY <1>3, <1>4
<1> QED BY <1>5 DEF v

\* A slot that holds another bank is before the stream's own.
LEMMA ScanSlotStep == ImageInv /\ ScanSlot => ImageInv'
<1> SUFFICES ASSUME ImageInv, ScanSlot PROVE ImageInv'
  OBVIOUS
<1> DEFINE k == keys[stream]
           u == After(k.addr, steps)
           n == Away(stream)
<1>1. pc \in Scanning /\ UNCHANGED <<built, call>> /\ stack' = stack /\ dma' = dma /\ pc # "game"
  BY DEF ScanSlot, Scanning
<1>2. /\ IInv' /\ ReturnedRight'
      /\ UNCHANGED <<keys, table, placed, phase, channel, stream, entry>>
      /\ Served' = Served /\ Away(stream)' = Away(stream)
  BY <1>1, Unmoved
<1>3. /\ k.addr \in Slot /\ placed[stream] \in Slot /\ table[placed[stream]] = k.bank
      /\ Scan(table, k) = placed[stream] /\ entry.dma \in [Channels -> Transfers]
  BY <1>1, Asked
<1>4. /\ steps \in 0 .. n /\ r.y = u /\ Lo(r.a) = k.bank
      /\ \A e \in 0 .. steps - 1 : table[After(k.addr, e)] # k.bank
  BY <1>1 DEF ImageInv, RoutineInv, ScanInv
<1>5. dma = entry.dma /\ r \in Regs
  <2>1. dma = entry.dma
    BY <1>1 DEF ImageInv, RoutineInv, TransferInv
  <2> QED BY <2>1 DEF ImageInv, RoutineInv, CallInv
<1>6. n \in Slot /\ After(k.addr, n) = placed[stream]
  <2> HIDE DEF k
  <2>1. Away(stream) = (placed[stream] - k.addr) % Slots
    BY DEF Away, k
  <2> QED BY <1>3, <2>1, Walk
<1> HIDE DEF n
<1>7. Slot = 0 .. Slots - 1 /\ Slots \in Nat \ {0} /\ steps \in Slot /\ steps \in Int
  <2>1. Slot = 0 .. Slots - 1 /\ Slots \in Nat \ {0}
    BY SlotsAssumption DEF Slot
  <2> QED BY <1>4, <1>6, <2>1
<1>8. u \in Slot
  BY <1>3, <1>7, Walk
<1>9. CASE table[u] = k.bank
  <2>1. pc' \in AtSlot /\ r' = r /\ steps' = steps
        /\ (pc = "scan" => pc' = "found") /\ (pc = "scan chy" => pc' = "found chy")
    BY <1>4, <1>9 DEF ScanSlot, TableKey, AtSlot, Scanning
  <2>2. u = placed[stream]
    <3> DEFINE S == {v \in Slot : table[v] = k.bank}
    <3>1. Scan(table, k) = Nearest(k.addr, S)
      BY DEF Scan
    <3>2. S \in SUBSET Slot /\ u \in S
      BY <1>8, <1>9
    <3>3. \A e \in 0 .. steps - 1 : After(k.addr, e) \notin S
      BY <1>4
    <3> HIDE DEF S, k
    <3>4. Nearest(k.addr, S) = u
      BY <1>3, <1>7, <3>2, <3>3, NearestIs
    <3> QED BY <1>3, <3>1, <3>4
  <2>3. CallInv'
    <3>1. r' \in Regs /\ dma' \in [Channels -> Transfers]
      BY <1>1, <1>3, <1>5, <2>1
    <3> QED BY <1>1, <2>1, <3>1, InRoutine
  <2>4. StackInv'
    <3>1. (pc = "scan" /\ pc' = "found") \/ (pc = "scan chy" /\ pc' = "found chy")
      BY <1>1, <2>1 DEF Scanning
    <3> QED BY <1>1, <1>2, <3>1 DEF ImageInv, RoutineInv, StackInv, Scanning, AtSlot
  <2>5. ScanInv'
    <3>1. pc' \notin Scanning /\ r'.y = placed'[stream']
      BY <1>2, <1>4, <2>1, <2>2 DEF Scanning, AtSlot
    <3> QED BY <3>1 DEF ScanInv
  <2>6. TransferInv'
    BY <1>1, <1>2, <1>5, <2>1 DEF TransferInv, AtSlot
  <2> QED BY <1>2, <2>3, <2>4, <2>5, <2>6 DEF ImageInv, RoutineInv
<1>10. CASE table[u] # k.bank
  <2>1. pc' = pc /\ r' = [r EXCEPT !.y = (r.y + 1) % (RADIX * RADIX)] /\ steps' = steps + 1
    BY <1>4, <1>10 DEF ScanSlot, TableKey
  <2>2. steps # n
    BY <1>3, <1>6, <1>10
  <2>3. steps + 1 \in 0 .. n /\ steps + 1 \in Slot
    BY <1>4, <1>6, <1>7, <2>2
  <2> DEFINE v == After(u, 1)
  <2>4. v \in Slot /\ v = After(k.addr, steps + 1)
    BY <1>3, <1>7, <2>3, OneOn
  <2>5. (r.y + 1) % (RADIX * RADIX) = v
    BY <1>4, WordsAssumption DEF After
  <2> HIDE DEF v
  <2>6. r' = [r EXCEPT !.y = v]
    BY <2>1, <2>5
  <2>7. r' \in Regs /\ r'.y = v /\ r'.a = r.a
    <3>1. v \in Int /\ r \in Regs
      BY <1>5, <1>7, <2>4
    <3> HIDE DEF k, u
    <3>2. r' \in Regs
      BY <2>6, <3>1 DEF Regs
    <3>3. r'.y = v /\ r'.a = r.a
      BY <2>6, <3>1 DEF Regs
    <3> QED BY <3>2, <3>3
  <2>8. CallInv'
    <3>1. dma' \in [Channels -> Transfers]
      BY <1>1, <1>3, <1>5
    <3> QED BY <1>1, <2>1, <2>7, <3>1, InRoutine
  <2>9. StackInv'
    BY <1>1, <1>2, <2>1 DEF ImageInv, RoutineInv, StackInv
  <2>10. \A e \in 0 .. steps' - 1 : table[After(k.addr, e)] # k.bank
    <3> SUFFICES ASSUME NEW e \in 0 .. steps' - 1 PROVE table[After(k.addr, e)] # k.bank
      OBVIOUS
    <3>1. e \in 0 .. steps - 1 \/ e = steps
      BY <1>7, <2>1
    <3> HIDE DEF k
    <3> QED BY <1>4, <1>10, <3>1
  <2>11. ScanInv'
    <3>1. pc' \notin AtSlot
      BY <1>1, <2>1 DEF Scanning, AtSlot
    <3>2. steps' \in 0 .. Away(stream)' /\ r'.y = After(k.addr, steps') /\ Lo(r'.a) = k.bank
      BY <1>2, <1>4, <2>1, <2>3, <2>4, <2>7 DEF n
    <3>3. k' = k /\ table' = table
      BY <1>2
    <3> QED BY <2>10, <3>1, <3>2, <3>3 DEF ScanInv
  <2>12. TransferInv'
    BY <1>1, <1>2, <1>5, <2>1 DEF TransferInv, Scanning
  <2> QED BY <1>2, <2>8, <2>9, <2>11, <2>12 DEF ImageInv, RoutineInv
<1> QED BY <1>9, <1>10

\* The slot the scan stopped at gives the stream's destination.
LEMMA AtItsSlot ==
  ASSUME ImageInv, pc \in AtSlot
  PROVE  /\ pc # "game" /\ r.y = placed[stream] /\ r.y \in Word
         /\ TableLow(r.y) = Lo(Destination(stream).addr)
         /\ TableHigh(r.y) = Hi(Destination(stream).addr)
         /\ TableBank(r.y) = Destination(stream).bank
         /\ TableLow(r.y) \in Int /\ TableHigh(r.y) \in Int /\ TableBank(r.y) \in Int
         /\ Holds(stack, entry.r) /\ dma = entry.dma
<1>1. pc # "game"
  BY DEF AtSlot
<1>2. r.y = placed[stream] /\ Holds(stack, entry.r) /\ dma = entry.dma
  BY DEF ImageInv, RoutineInv, ScanInv, StackInv, TransferInv
<1>3. /\ placed[stream] \in Slot /\ Held(placed[stream]) = stream
      /\ Destination(stream).bank \in Byte /\ Destination(stream).addr \in Word
  BY <1>1, Asked
<1>4. /\ TableLow(r.y) = Lo(Destination(stream).addr)
      /\ TableHigh(r.y) = Hi(Destination(stream).addr)
      /\ TableBank(r.y) = Destination(stream).bank
  BY <1>2, <1>3 DEF TableLow, TableHigh, TableBank
<1>5. Lo(Destination(stream).addr) \in Int /\ Hi(Destination(stream).addr) \in Int
  BY <1>3, Halves
<1>6. r.y \in Word /\ Destination(stream).bank \in Int
  BY <1>2, <1>3, Types
<1> QED BY <1>1, <1>2, <1>4, <1>5, <1>6

\* The transfer as the channel is left with it.
LEMMA Serving ==
  ASSUME ImageInv, pc # "game"
  PROVE  Served \in [Channels -> Transfers]
<1>1. /\ Destination(stream).bank \in Byte /\ Destination(stream).addr \in Word
      /\ entry.dma \in [Channels -> Transfers]
  BY Asked
<1> QED BY <1>1 DEF Served, Transfers

LEMMA FoundStep == ImageInv /\ Found => ImageInv'
<1> SUFFICES ASSUME ImageInv, Found PROVE ImageInv'
  OBVIOUS
<1> DEFINE b == TableBank(r.y)
           w == r.y
<1>1. /\ pc = "found" /\ stack' = PushWord(stack, w) /\ pc' = "return"
      /\ UNCHANGED <<built, call>>
      /\ dma' = [dma EXCEPT ![channel] =
                   [fixed |-> FALSE, addr |-> Pair(TableHigh(w), TableLow(w)), bank |-> b]]
      /\ r' = [r EXCEPT !.x = w, !.a = Pair(Hi(@), b)]
  BY DEF Found
<1>2. /\ pc # "game" /\ w \in Word /\ TableLow(w) = Lo(Destination(stream).addr)
      /\ TableHigh(w) = Hi(Destination(stream).addr) /\ b = Destination(stream).bank
      /\ Holds(stack, entry.r) /\ dma = entry.dma
  BY <1>1, AtItsSlot DEF AtSlot
<1>3. IInv' /\ ReturnedRight' /\ entry' = entry /\ Served' = Served
  BY <1>1, Unmoved
<1>4. Destination(stream).addr \in Word /\ Destination(stream).bank \in Byte /\ r \in Regs
  <2>1. r \in Regs
    BY DEF ImageInv, RoutineInv, CallInv
  <2> QED BY <1>2, <2>1, Asked
<1>5. dma' = Served
  <2>1. Pair(TableHigh(w), TableLow(w)) = Destination(stream).addr
    BY <1>2, <1>4, Halves
  <2> QED BY <1>1, <1>2, <2>1 DEF Served
<1>6. r' \in Regs
  <2>1. w \in Int /\ Pair(Hi(r.a), b) \in Int
    <3>1. RADIX \in Nat \ {0} /\ Word \subseteq Int
      BY Types
    <3>2. w \in Int
      BY <1>2, <3>1
    <3>3. b \in Int
      BY <1>2, AtItsSlot, <1>1 DEF AtSlot
    <3>4. r.a \in Int
      BY <1>4 DEF Regs
    <3> DEFINE h == Hi(r.a)
    <3>5. h \in Int
      BY <3>1, <3>4 DEF Hi
    <3> HIDE DEF h, b
    <3>6. Pair(h, b) \in Int
      BY <3>1, <3>3, <3>5 DEF Pair
    <3> QED BY <3>2, <3>6 DEF h
  <2> DEFINE p == Pair(Hi(r.a), b)
  <2>2. r' = [r EXCEPT !.x = w, !.a = p]
    BY <1>1
  <2> HIDE DEF p, w
  <2>3. p \in Int /\ w \in Int
    BY <2>1 DEF p
  <2> QED BY <1>4, <2>2, <2>3 DEF Regs
<1>7. CallInv'
  <2>1. dma' \in [Channels -> Transfers]
    BY <1>2, <1>5, Serving
  <2> QED BY <1>1, <1>2, <1>6, <2>1, InRoutine
<1>8. StackInv'
  <2> DEFINE s == stack
             t == PushWord(s, w)
             q == entry.r
  <2>1. Holds(s, q) /\ Len(s) = 8 /\ s \in Seq(Int)
    BY <1>1, <1>2 DEF ImageInv, RoutineInv, StackInv, Holds
  <2> HIDE DEF s, q, w
  <2>2. /\ t \in Seq(Int) /\ Len(t) = Len(s) + 2
        /\ \A i \in 1 .. Len(s) : t[i] = s[i]
    BY <1>2, <2>1, PushedWord
  <2> HIDE DEF t
  <2>3. Len(t) = 10 /\ Len(t) >= 8 /\ \A i \in 1 .. 8 : t[i] = s[i]
    BY <2>1, <2>2
  <2>4. Holds(t, q)
    BY <2>1, <2>2, <2>3, HeldUnder
  <2>5. stack' = t
    BY <1>1 DEF t, s
  <2> QED BY <1>1, <1>3, <2>3, <2>4, <2>5 DEF StackInv, q
<1>9. ScanInv' /\ TransferInv'
  BY <1>1, <1>3, <1>5 DEF ScanInv, TransferInv, Scanning, AtSlot, Before
<1> QED BY <1>3, <1>7, <1>8, <1>9 DEF ImageInv, RoutineInv

LEMMA FoundChyStep == ImageInv /\ FoundChy => ImageInv'
<1> SUFFICES ASSUME ImageInv, FoundChy PROVE ImageInv'
  OBVIOUS
<1> DEFINE b == TableBank(r.y)
           w == r.y
           lo == TableLow(w)
           hi == TableHigh(w)
<1>1. /\ pc = "found chy" /\ stack' = stack \o <<lo, hi, b>> /\ pc' = "write chy"
      /\ UNCHANGED <<built, call>> /\ dma' = dma
      /\ r' = [r EXCEPT !.x = w, !.a = Pair(Hi(@), b)]
  BY DEF FoundChy
<1>2. /\ pc # "game" /\ w \in Word /\ lo = Lo(Destination(stream).addr)
      /\ hi = Hi(Destination(stream).addr) /\ b = Destination(stream).bank
      /\ lo \in Int /\ hi \in Int /\ b \in Int
      /\ Holds(stack, entry.r) /\ dma = entry.dma
  BY <1>1, AtItsSlot DEF AtSlot
<1>3. IInv' /\ ReturnedRight' /\ entry' = entry /\ channel' = channel /\ stream' = stream
  BY <1>1, Unmoved
<1>4. entry.dma \in [Channels -> Transfers] /\ r \in Regs
  <2>1. r \in Regs
    BY DEF ImageInv, RoutineInv, CallInv
  <2> QED BY <1>2, <2>1, Asked
<1>5. r' \in Regs
  <2>1. w \in Int /\ Pair(Hi(r.a), b) \in Int
    <3>1. RADIX \in Nat \ {0} /\ Word \subseteq Int
      BY Types
    <3>2. w \in Int
      BY <1>2, <3>1
    <3>3. b \in Int
      BY <1>2, AtItsSlot, <1>1 DEF AtSlot
    <3>4. r.a \in Int
      BY <1>4 DEF Regs
    <3> DEFINE h == Hi(r.a)
    <3>5. h \in Int
      BY <3>1, <3>4 DEF Hi
    <3> HIDE DEF h, b
    <3>6. Pair(h, b) \in Int
      BY <3>1, <3>3, <3>5 DEF Pair
    <3> QED BY <3>2, <3>6 DEF h
  <2> DEFINE p == Pair(Hi(r.a), b)
  <2>2. r' = [r EXCEPT !.x = w, !.a = p]
    BY <1>1
  <2> HIDE DEF p, w
  <2>3. p \in Int /\ w \in Int
    BY <2>1 DEF p
  <2> QED BY <1>4, <2>2, <2>3 DEF Regs
<1>6. CallInv'
  <2>1. dma' \in [Channels -> Transfers]
    BY <1>1, <1>2, <1>4
  <2> QED BY <1>1, <1>2, <1>5, <2>1, InRoutine
<1>7. StackInv'
  <2> DEFINE s == stack
             t == s \o <<lo, hi, b>>
             q == entry.r
  <2>1. /\ Holds(s, q) /\ Len(s) = 10 /\ s \in Seq(Int)
        /\ s[9] = Hi(channel) /\ s[10] = Lo(channel)
    BY <1>1, <1>2 DEF ImageInv, RoutineInv, StackInv, Holds, AtSlot
  <2>2. lo \in Int /\ hi \in Int /\ b \in Int
    BY <1>2
  <2>0. s \in Seq(Int)
    BY <2>1
  <2> HIDE DEF s, q, lo, hi, b
  <2>3. /\ t \in Seq(Int) /\ Len(t) = Len(s) + 3
        /\ \A i \in 1 .. Len(s) : t[i] = s[i]
        /\ t[Len(s) + 1] = lo /\ t[Len(s) + 2] = hi /\ t[Len(s) + 3] = b
    BY <2>0, <2>2, PushThree
  <2> HIDE DEF t
  <2>4. Len(t) = 13 /\ Len(t) >= 8 /\ \A i \in 1 .. 8 : t[i] = s[i]
    BY <2>1, <2>3
  <2>5. t[9] = s[9] /\ t[10] = s[10] /\ t[11] = lo /\ t[12] = hi /\ t[13] = b
    BY <2>1, <2>3
  <2>6. Holds(t, q)
    BY <2>1, <2>3, <2>4, HeldUnder
  <2>7. stack' = t /\ q = entry'.r
    BY <1>1, <1>3 DEF t, s, q
  <2>8. t[9] = Hi(channel) /\ t[10] = Lo(channel) /\ t[11] = Lo(Destination(stream).addr)
        /\ t[12] = Hi(Destination(stream).addr) /\ t[13] = Destination(stream).bank
    BY <1>2, <2>1, <2>5
  <2> QED BY <1>1, <1>3, <2>4, <2>6, <2>7, <2>8 DEF StackInv, Scanning, AtSlot
<1>8. ScanInv' /\ TransferInv'
  BY <1>1, <1>2, <1>3 DEF ScanInv, TransferInv, Scanning, AtSlot, Before
<1> QED BY <1>3, <1>6, <1>7, <1>8 DEF ImageInv, RoutineInv

LEMMA WriteChyStep == ImageInv /\ WriteChy => ImageInv'
<1> SUFFICES ASSUME ImageInv, WriteChy PROVE ImageInv'
  OBVIOUS
<1> DEFINE s == stack
           d == Destination(stream)
<1>1. /\ pc = "write chy" /\ pc' = "return" /\ UNCHANGED <<built, call>> /\ pc # "game"
      /\ dma' = [dma EXCEPT ![Parked] =
                   [fixed |-> FALSE, addr |-> Pair(Above(s, 2), Above(s, 3)),
                    bank |-> Above(s, 1)]]
      /\ r' = [r EXCEPT !.x = Parked, !.a = Pair(Hi(Parked), @ % RADIX), !.dbr = 0]
      /\ stack' = Drop(s, 3)
  BY DEF WriteChy
<1>2. IInv' /\ ReturnedRight' /\ entry' = entry /\ Served' = Served
  BY <1>1, Unmoved
<1>3. /\ s \in Seq(Int) /\ Holds(s, entry.r) /\ Len(s) = 13
      /\ s[9] = Hi(channel) /\ s[10] = Lo(channel)
      /\ s[11] = Lo(d.addr) /\ s[12] = Hi(d.addr) /\ s[13] = d.bank
  BY <1>1 DEF ImageInv, RoutineInv, StackInv, Holds
<1>4. d.addr \in Word /\ channel \in Word
  BY <1>1, Asked
<1>5. dma = entry.dma /\ r \in Regs
  BY <1>1 DEF ImageInv, RoutineInv, TransferInv, CallInv
<1>6. Above(s, 1) = d.bank /\ Above(s, 2) = Hi(d.addr) /\ Above(s, 3) = Lo(d.addr)
      /\ Above(s, 4) = Lo(channel) /\ Above(s, 5) = Hi(channel)
  <2> HIDE DEF s, d
  <2> QED BY <1>3 DEF Above
<1>7. Parked = channel
  <2>1. Parked = Pair(Hi(channel), Lo(channel))
    <3>1. Parked = Pair(Above(s, 4 + 1), Above(s, 4)) /\ 4 + 1 = 5
      BY DEF Parked, WordAbove
    <3> HIDE DEF s
    <3> QED BY <1>6, <3>1
  <2> QED BY <1>4, <2>1, Halves
<1>8. dma' = Served
  <2>1. Pair(Above(s, 2), Above(s, 3)) = d.addr
    BY <1>4, <1>6, Halves
  <2> QED BY <1>1, <1>5, <1>6, <1>7, <2>1 DEF Served
<1>9. r' \in Regs
  <2> DEFINE p == Pair(Hi(channel), r.a % RADIX)
  <2>1. p \in Int /\ channel \in Int
    <3>1. Hi(channel) \in Int /\ RADIX \in Nat \ {0} /\ r.a \in Int /\ channel \in Int
      BY <1>4, <1>5, Halves, Types DEF Regs
    <3> DEFINE h == Hi(channel)
               l == r.a % RADIX
    <3>2. h \in Int /\ l \in Int
      BY <3>1
    <3> HIDE DEF h, l
    <3>3. Pair(h, l) \in Int
      BY <3>1, <3>2 DEF Pair
    <3> QED BY <3>1, <3>3 DEF h, l
  <2>2. r' = [r EXCEPT !.x = channel, !.a = p, !.dbr = 0]
    BY <1>1, <1>7
  <2> HIDE DEF p, s, d
  <2>3. r \in Regs /\ p \in Int /\ channel \in Int /\ 0 \in Int
    BY <1>5, <2>1
  <2> QED BY <2>2, <2>3 DEF Regs
<1>10. CallInv'
  <2>1. dma' \in [Channels -> Transfers]
    BY <1>1, <1>8, Serving
  <2> QED BY <1>1, <1>9, <2>1, InRoutine
<1>11. StackInv'
  <2> DEFINE t == Drop(s, 3)
             q == entry.r
  <2>1. s \in Seq(Int) /\ Holds(s, q) /\ Len(s) = 13
    BY <1>3
  <2>0. stack' = t
    BY <1>1
  <2> HIDE DEF s, q
  <2>5. 3 \in Nat /\ 3 <= Len(s)
    BY <2>1
  <2>2. t \in Seq(Int) /\ Len(t) = Len(s) - 3 /\ \A i \in 1 .. Len(s) - 3 : t[i] = s[i]
    BY <2>1, <2>5, Dropped
  <2> HIDE DEF t
  <2>3. Len(t) = 10 /\ Len(t) >= 8 /\ \A i \in 1 .. 8 : t[i] = s[i]
    BY <2>1, <2>2
  <2>4. Holds(t, q)
    BY <2>1, <2>2, <2>3, HeldUnder
  <2> QED BY <1>1, <1>2, <2>0, <2>3, <2>4 DEF StackInv, q
<1>12. ScanInv' /\ TransferInv'
  BY <1>1, <1>2, <1>8 DEF ScanInv, TransferInv, Scanning, AtSlot, Before
<1> QED BY <1>2, <1>10, <1>11, <1>12 DEF ImageInv, RoutineInv

\* Three bits, each read back out of the byte they make.
LEMMA Bits ==
  ASSUME NEW x \in {0, 1}, NEW y \in {0, 1}, NEW z \in {0, 1}
  PROVE  /\ (4 * x + 2 * y + z) \div 4 % 2 = x
         /\ (4 * x + 2 * y + z) \div 2 % 2 = y
         /\ (4 * x + 2 * y + z) % 2 = z
<1>1. (4 * x + 2 * y + z) \div 4 = x /\ x % 2 = x
  OBVIOUS
<1>2. (4 * x + 2 * y + z) \div 2 = 2 * x + y /\ (2 * x + y) % 2 = y
  OBVIOUS
<1>3. (4 * x + 2 * y + z) % 2 = z
  OBVIOUS
<1> QED BY <1>1, <1>2, <1>3

\* The caller's flags come back out of the byte they were pushed in.
LEMMA FlagsBack ==
  ASSUME NEW q \in Callers
  PROVE  /\ (Flags(q) \div 4 % 2 = 1) = q.m8
         /\ (Flags(q) \div 2 % 2 = 1) = q.x8
         /\ (Flags(q) % 2 = 1) = q.c
<1> DEFINE x == IF q.m8 THEN 1 ELSE 0
           y == IF q.x8 THEN 1 ELSE 0
           z == IF q.c THEN 1 ELSE 0
           f == Flags(q)
           f4 == f \div 4 % 2
           f2 == f \div 2 % 2
           f1 == f % 2
<1>1. q.m8 \in BOOLEAN /\ q.x8 \in BOOLEAN /\ q.c \in BOOLEAN
  BY DEF Callers
<1>2. x \in {0, 1} /\ y \in {0, 1} /\ z \in {0, 1}
  OBVIOUS
<1>3. f = 4 * x + 2 * y + z
  BY DEF Flags
<1>4. (x = 1) = q.m8 /\ (y = 1) = q.x8 /\ (z = 1) = q.c
  BY <1>1
<1> HIDE DEF x, y, z, f
<1>5. f4 = x /\ f2 = y /\ f1 = z
  BY <1>2, <1>3, Bits
<1> HIDE DEF f4, f2, f1
<1>6. (f4 = 1) = q.m8 /\ (f2 = 1) = q.x8 /\ (f1 = 1) = q.c
  BY <1>4, <1>5
<1> QED BY <1>6 DEF f4, f2, f1, f

\* The caller is given back what it had, and nothing is left on its stack.
LEMMA GivenBack ==
  ASSUME ImageInv, Leave
  PROVE  r' = entry.r /\ stack' = <<>>
<1> DEFINE s == stack
           q == entry.r
<1>1. pc = "return" /\ pc # "game"
  BY DEF Leave
<1>2. s \in Seq(Int) /\ Holds(s, q) /\ Len(s) = 10
  BY <1>1 DEF ImageInv, RoutineInv, StackInv, Holds
<1>3. q \in Callers
  BY <1>1, Asked
<1>4. /\ r' = [a |-> WordAbove(s, 7), x |-> WordAbove(s, 5),
               y |-> WordAbove(s, 3), dbr |-> Above(s, 9),
               m8 |-> Above(s, 10) \div 4 % 2 = 1,
               x8 |-> Above(s, 10) \div 2 % 2 = 1, c |-> Above(s, 10) % 2 = 1]
      /\ stack' = Drop(s, 10)
  BY DEF Leave
<1> HIDE DEF s, q
<1>5. Above(s, 10) = Flags(q) /\ Above(s, 9) = q.dbr
  BY <1>2 DEF Above, Holds
<1>6. WordAbove(s, 7) = q.a
  <2>1. WordAbove(s, 7) = Pair(s[3], s[4])
    BY <1>2 DEF WordAbove, Above
  <2>2. WordAbove(s, 7) = Pair(Hi(q.a), Lo(q.a)) /\ q.a \in Word
    BY <1>2, <1>3, <2>1 DEF Holds, Callers
  <2> QED BY <2>2, Halves
<1>7. WordAbove(s, 5) = q.x
  <2>1. WordAbove(s, 5) = Pair(s[5], s[6])
    BY <1>2 DEF WordAbove, Above
  <2>2. WordAbove(s, 5) = Pair(Hi(q.x), Lo(q.x)) /\ q.x \in Word
    BY <1>2, <1>3, <2>1 DEF Holds, Callers
  <2> QED BY <2>2, Halves
<1>8. WordAbove(s, 3) = q.y
  <2>1. WordAbove(s, 3) = Pair(s[7], s[8])
    BY <1>2 DEF WordAbove, Above
  <2>2. WordAbove(s, 3) = Pair(Hi(q.y), Lo(q.y)) /\ q.y \in Word
    BY <1>2, <1>3, <2>1 DEF Holds, Callers
  <2> QED BY <2>2, Halves
<1>9. r' = [a |-> q.a, x |-> q.x, y |-> q.y, dbr |-> q.dbr,
            m8 |-> q.m8, x8 |-> q.x8, c |-> q.c]
  <2> DEFINE t == Above(s, 10)
             m == t \div 4 % 2 = 1
             x == t \div 2 % 2 = 1
             c == t % 2 = 1
  <2>1. m = q.m8 /\ x = q.x8 /\ c = q.c
    BY <1>3, <1>5, FlagsBack
  <2>2. r' = [a |-> WordAbove(s, 7), x |-> WordAbove(s, 5), y |-> WordAbove(s, 3),
              dbr |-> Above(s, 9), m8 |-> m, x8 |-> x, c |-> c]
    BY <1>4
  <2> HIDE DEF m, x, c, t
  <2> QED BY <1>5, <1>6, <1>7, <1>8, <2>1, <2>2
<1>10. q = [a |-> q.a, x |-> q.x, y |-> q.y, dbr |-> q.dbr,
            m8 |-> q.m8, x8 |-> q.x8, c |-> q.c]
  BY <1>3 DEF Callers
<1>11. Drop(s, 10) = <<>>
  <2> DEFINE t == Drop(s, 10)
  <2>1. 10 \in Nat /\ 10 <= Len(s)
    BY <1>2
  <2>2. t \in Seq(Int) /\ Len(t) = Len(s) - 10
    BY <1>2, <2>1, Dropped
  <2> HIDE DEF t
  <2>3. t \in Seq(Int) /\ Len(t) = 0
    BY <1>2, <2>2
  <2>4. t = <<>>
    BY <2>3
  <2> QED BY <2>4 DEF t
<1> QED BY <1>4, <1>9, <1>10, <1>11 DEF q

LEMMA LeaveStep == ImageInv /\ Leave => ImageInv'
<1> SUFFICES ASSUME ImageInv, Leave PROVE ImageInv'
  OBVIOUS
<1>1. pc = "return" /\ pc' = "game" /\ dma' = dma /\ UNCHANGED <<built, call>> /\ pc # "game"
  BY DEF Leave
<1>2. r' = entry.r /\ stack' = <<>> /\ entry.r \in Callers
  BY <1>1, GivenBack, Asked
<1>3. IInv' /\ ReturnedRight'
  BY <1>1, Unmoved
<1>4. dma' \in [Channels -> Transfers]
  BY <1>1 DEF ImageInv, RoutineInv, CallInv
<1>5. CallInv'
  BY <1>1, <1>2, <1>4, Types DEF CallInv, Before
<1>6. StackInv' /\ ScanInv' /\ TransferInv'
  BY <1>1 DEF StackInv, ScanInv, TransferInv, Before, Scanning, AtSlot
<1> QED BY <1>3, <1>5, <1>6 DEF ImageInv, RoutineInv

LEMMA ImageNextInv == ImageInv /\ [ImageNext]_all => ImageInv'
<1> SUFFICES ASSUME ImageInv, [ImageNext]_all PROVE ImageInv'
  OBVIOUS
<1>1. CASE Console
  <2>1. CASE Routine
    BY <2>1, EnterMacroStep, EnterChyStep, ScanSlotStep, FoundStep, FoundChyStep,
       WriteChyStep, LeaveStep DEF Routine
  <2>2. CASE \E ch \in Channels, i \in DOMAIN keys, q \in Registers :
               Call(ch, i, q, "macro") \/ Call(ch, i, q, "chy")
    <3>1. PICK ch \in Channels, i \in DOMAIN keys, q \in Registers, which \in Before :
            Call(ch, i, q, which)
      BY <2>2 DEF Before
    <3> QED BY <3>1, CallStep
  <2> QED BY <1>1, <2>1, <2>2 DEF Console
<1>2. CASE Next /\ UNCHANGED console
  BY <1>2, TableStep
<1>3. CASE UNCHANGED all
  BY <1>3, TableStep DEF all, built
<1> QED BY <1>1, <1>2, <1>3 DEF ImageNext

LEMMA ImageAlways == ImageSpec => []ImageInv
BY ImageInitInv, ImageNextInv, PTL DEF ImageSpec

-----------------------------------------------------------------------------
(* What the routine implements.                                            *)

\* A step inside the call, or of the tools before it, is none to a hook site.
LEMMA Unseen ==
  ASSUME UNCHANGED <<keys, call>>, pc = "game" <=> pc' = "game",
         pc = "game" => UNCHANGED machine
  PROVE  UNCHANGED Lookup!vars
<1>1. UNCHANGED <<keys, channel, stream, entry>>
  BY DEF call
<1>2. pc = "game" => UNCHANGED <<r, stack, dma>>
  BY DEF machine
<1> QED BY <1>1, <1>2 DEF Lookup!vars

LEMMA CallLookup ==
  ASSUME NEW ch \in Channels, NEW i \in DOMAIN keys, NEW q \in Registers,
         NEW which \in Before, Call(ch, i, q, which)
  PROVE  Lookup!Next
<1>1. /\ pc = "game" /\ pc' # "game" /\ UNCHANGED keys /\ channel' = ch /\ stream' = i
      /\ entry'.dma = dma'
      /\ dma' = [dma EXCEPT ![ch] = [fixed |-> TRUE, addr |-> keys[i].addr,
                                     bank |-> keys[i].bank]]
  BY DEF Call, Before, built, vars
<1>2. Lookup!Program(ch, i)
  BY <1>1 DEF Lookup!Program, Lookup!NoRequest
<1> QED BY <1>2 DEF Lookup!Next

LEMMA LeaveLookup ==
  ASSUME ImageInv, Leave
  PROVE  Lookup!Next
<1>1. /\ pc = "return" /\ pc # "game" /\ pc' = "game" /\ dma' = dma
      /\ UNCHANGED keys /\ r' = entry.r /\ stack' = <<>>
  BY GivenBack DEF Leave, built, vars
<1>2. dma = Served
  BY <1>1 DEF ImageInv, RoutineInv, TransferInv
<1>3. stream # 0
  <2>1. stream \in Streams
    BY <1>1, Asked
  <2>2. Streams = 1 .. Len(keys) /\ Len(keys) \in Nat
    BY KeysOfList DEF ImageInv, IInv, TypeOK
  <2> QED BY <2>1, <2>2
<1>4. [channel |-> channel, stream |-> stream] # [channel |-> -1, stream |-> 0]
  BY <1>3
<1>5. dma' = [entry.dma EXCEPT ![channel] =
                [fixed |-> FALSE, addr |-> Destination(stream).addr,
                 bank |-> Destination(stream).bank]]
  BY <1>1, <1>2 DEF Served
<1>6. Lookup!Translate
  BY <1>1, <1>4, <1>5 DEF Lookup!Translate, Lookup!NoRequest
<1> QED BY <1>6 DEF Lookup!Next

LEMMA InsideLookup ==
  ASSUME EnterMacro \/ EnterChy \/ ScanSlot \/ Found \/ FoundChy \/ WriteChy
  PROVE  UNCHANGED Lookup!vars
<1>1. UNCHANGED <<keys, call>>
  BY DEF EnterMacro, EnterChy, ScanSlot, Found, FoundChy, WriteChy, built, vars
<1>2. pc # "game"
  BY DEF EnterMacro, EnterChy, ScanSlot, Found, FoundChy, WriteChy
<1>3. pc' # "game"
  BY DEF EnterMacro, EnterChy, ScanSlot, Found, FoundChy, WriteChy
<1> QED BY <1>1, <1>2, <1>3, Unseen

LEMMA StepsLookUp == ImageInv /\ [ImageNext]_all => [Lookup!Next]_Lookup!vars
<1> SUFFICES ASSUME ImageInv, [ImageNext]_all PROVE [Lookup!Next]_Lookup!vars
  OBVIOUS
<1>1. CASE Routine
  <2>1. CASE Leave
    BY <2>1, LeaveLookup
  <2>2. CASE EnterMacro \/ EnterChy \/ ScanSlot \/ Found \/ FoundChy \/ WriteChy
    BY <2>2, InsideLookup
  <2> QED BY <1>1, <2>1, <2>2 DEF Routine
<1>2. CASE \E ch \in Channels, i \in DOMAIN keys, q \in Registers :
             Call(ch, i, q, "macro") \/ Call(ch, i, q, "chy")
  <2>1. PICK ch \in Channels, i \in DOMAIN keys, q \in Registers, which \in Before :
          Call(ch, i, q, which)
    BY <1>2 DEF Before
  <2> QED BY <2>1, CallLookup
<1>3. CASE Next /\ UNCHANGED console
  <2>1. UNCHANGED keys
    BY <1>3 DEF Next, Place, AllPlaced, Return, StartRound, Refuse, Repair, Finished, vars
  <2>2. UNCHANGED <<machine, pc, call>>
    BY <1>3 DEF console
  <2> QED BY <2>1, <2>2, Unseen
<1>4. CASE UNCHANGED all
  <2>1. UNCHANGED <<keys, machine, pc, call>>
    BY <1>4 DEF all, built, vars, console
  <2> QED BY <2>1, Unseen
<1> QED BY <1>1, <1>2, <1>3, <1>4 DEF ImageNext, Console

LEMMA InitLooksUp == ImageInit => Lookup!Init
BY DEF ImageInit, ConsoleInit, Lookup!Init, Lookup!NoRequest

(* The routine does nothing but look streams up: whatever interleaving of   *)
(* calls, a channel asked for a stream comes back copying from where that  *)
(* stream was placed, every other channel is as it was, and the caller has *)
(* its registers, its flags, its data bank and its stack.                  *)
THEOREM RoutineLooksUp == ImageSpec => Lookup!Init /\ [][Lookup!Next]_Lookup!vars
BY InitLooksUp, StepsLookUp, ImageAlways, PTL DEF ImageSpec

-----------------------------------------------------------------------------
(* The gate's own placement.                                               *)

\* The gate's own placement, as the recursive function it is built by.
Body(k, f) ==
  [n \in 0 .. Len(k) |-> IF n = 0 THEN <<>> ELSE Gated!WithNext(k, f[n - 1])]
Placement(k) == CHOOSE f : f = Body(k, f)

\* There is one, whatever the list: each step has the one before it.
LEMMA Exists ==
  ASSUME NEW k, Len(k) \in Nat
  PROVE  \E f : f = Body(k, f)
<1> DEFINE N == Len(k)
           Next1(x) == Gated!WithNext(k, x)
           Upto(f, n) == /\ f = [m \in 0 .. N |-> f[m]]
                         /\ \A m \in 0 .. n : f[m] = IF m = 0 THEN <<>> ELSE Next1(f[m - 1])
           T == {n \in 0 .. N : ~\E f : Upto(f, n)}
<1> HIDE DEF Next1
<1>1. T = {}
  <2> SUFFICES ASSUME T # {} PROVE FALSE
    OBVIOUS
  <2>1. T \in SUBSET Nat
    OBVIOUS
  <2>2. PICK n \in T : \A m \in T : n <= m
    <3> HIDE DEF T
    <3> QED BY <2>1, LeastNat
  <2>3. n \in 0 .. N /\ N \in Nat
    OBVIOUS
  <2>4. CASE n = 0
    <3> DEFINE g == [m \in 0 .. N |-> <<>>]
    <3>1. g = [m \in 0 .. N |-> g[m]] /\ g[0] = <<>>
      BY <2>3
    <3>2. Upto(g, 0)
      BY <3>1
    <3> QED BY <2>2, <2>4, <3>2
  <2>5. CASE n > 0
    <3>1. n - 1 \in 0 .. N /\ n - 1 \notin T
      BY <2>2, <2>3, <2>5
    <3>2. PICK f : Upto(f, n - 1)
      BY <3>1
    <3> DEFINE w == Next1(f[n - 1])
               g == [m \in 0 .. N |-> IF m = n THEN w ELSE f[m]]
    <3>3. \A m \in 0 .. N : g[m] = IF m = n THEN w ELSE f[m]
      OBVIOUS
    <3>4. g = [m \in 0 .. N |-> g[m]]
      OBVIOUS
    <3> HIDE DEF w, g
    <3>5. ASSUME NEW m \in 0 .. n PROVE g[m] = IF m = 0 THEN <<>> ELSE Next1(g[m - 1])
      <4>1. CASE m = n
        <5>1. g[n] = w /\ g[n - 1] = f[n - 1]
          BY <2>3, <2>5, <3>1, <3>3
        <5>2. w = Next1(g[n - 1])
          BY <5>1 DEF w
        <5> QED BY <2>5, <4>1, <5>1, <5>2
      <4>2. CASE m # n
        <5>1. m \in 0 .. n - 1 /\ m \in 0 .. N
          BY <2>3, <4>2
        <5>2. g[m] = f[m] /\ (m # 0 => g[m - 1] = f[m - 1])
          BY <2>3, <3>3, <5>1
        <5>3. f[m] = IF m = 0 THEN <<>> ELSE Next1(f[m - 1])
          BY <3>2, <5>1
        <5> QED BY <5>2, <5>3
      <4> QED BY <4>1, <4>2
    <3>6. Upto(g, n)
      BY <3>4, <3>5
    <3> QED BY <2>2, <3>6
  <2> QED BY <2>3, <2>4, <2>5
<1>2. PICK f : Upto(f, N)
  BY <1>1
<1>3. f = Body(k, f)
  <2>1. \A m \in 0 .. N : f[m] = IF m = 0 THEN <<>> ELSE Next1(f[m - 1])
    BY <1>2
  <2>2. f = [m \in 0 .. N |-> f[m]]
    BY <1>2
  <2>3. f = [m \in 0 .. N |-> IF m = 0 THEN <<>> ELSE Next1(f[m - 1])]
    BY <2>1, <2>2
  <2> QED BY <2>3 DEF Body, Next1
<1> QED BY <1>3

LEMMA Placements ==
  ASSUME NEW k, Len(k) \in Nat
  PROVE  /\ Gated!FirstFreeSlots(k) = Placement(k)[Len(k)]
         /\ Placement(k)[0] = <<>>
         /\ \A n \in 1 .. Len(k) : Placement(k)[n] = Gated!WithNext(k, Placement(k)[n - 1])
<1> DEFINE g == Placement(k)
<1>1. g = Body(k, g)
  BY Exists, Zenon DEF Placement
<1>2. Gated!FirstFreeSlots(k) = g[Len(k)]
  BY Zenon DEF Gated!FirstFreeSlots, Body, Placement
<1> HIDE DEF g
<1>3. \A n \in 0 .. Len(k) : g[n] = IF n = 0 THEN <<>> ELSE Gated!WithNext(k, g[n - 1])
  <2> DEFINE W(x) == Gated!WithNext(k, x)
  <2>1. g = [n \in 0 .. Len(k) |-> IF n = 0 THEN <<>> ELSE W(g[n - 1])]
    BY <1>1 DEF Body
  <2> HIDE DEF W
  <2>2. \A n \in 0 .. Len(k) : g[n] = IF n = 0 THEN <<>> ELSE W(g[n - 1])
    BY <2>1
  <2> QED BY <2>2 DEF W
<1>4. g[0] = <<>>
  BY <1>3
<1>5. ASSUME NEW n \in 1 .. Len(k) PROVE g[n] = Gated!WithNext(k, g[n - 1])
  <2>1. n \in 0 .. Len(k) /\ n # 0
    OBVIOUS
  <2> QED BY <1>3, <2>1
<1> QED BY <1>2, <1>4, <1>5 DEF g

\* Of any streams one is first, and only one.
LEMMA FirstToPlace ==
  ASSUME NEW k \in KeyLists, NEW left \in SUBSET (DOMAIN k), left # {}
  PROVE  Gated!Earliest(k, left) \in left
<1> DEFINE First(i, j) == k[i].addr < k[j].addr \/ (k[i].addr = k[j].addr /\ i <= j)
           A == {k[j].addr : j \in left}
<1>1. \A j \in left : j \in Nat /\ k[j].addr \in Nat
  <2>1. \A j \in left : j \in Nat /\ k[j].addr \in Slot
    BY ListOfKeys
  <2> QED BY <2>1, SlotsAssumption DEF Slot
<1>2. PICK a \in A : \A b \in A : a <= b
  <2>1. A \in SUBSET Nat /\ A # {}
    BY <1>1
  <2> HIDE DEF A
  <2> QED BY <2>1, LeastNat
<1> DEFINE I == {j \in left : k[j].addr = a}
<1>3. PICK i \in I : \A j \in I : i <= j
  <2>1. I \in SUBSET Nat /\ I # {}
    BY <1>1, <1>2
  <2> HIDE DEF I
  <2> QED BY <2>1, LeastNat
<1>4. i \in left /\ k[i].addr = a
  OBVIOUS
<1>5. ASSUME NEW j \in left PROVE First(i, j)
  <2>1. k[j].addr \in A /\ a <= k[j].addr /\ k[j].addr \in Nat /\ a \in Nat
    BY <1>1, <1>2, <1>4
  <2>2. CASE k[j].addr = a
    BY <1>3, <1>4, <2>2
  <2>3. CASE k[j].addr # a
    BY <1>4, <2>1, <2>3
  <2> QED BY <2>2, <2>3
<1>6. i \in left /\ \A j \in left : First(i, j)
  BY <1>4, <1>5
<1>7. Gated!Earliest(k, left) = CHOOSE x \in left : \A j \in left : First(x, j)
  BY DEF Gated!Earliest
<1> HIDE DEF First
<1> QED BY <1>6, <1>7

\* The steps the gate counts end at the first slot outside the taken ones.
LEMMA Probed ==
  ASSUME NEW a \in Slot, NEW taken, NEW u \in Slot, u \notin taken
  PROVE  /\ Gated!Probe(a, taken) \in Slot
         /\ After(a, Gated!Probe(a, taken)) \notin taken
         /\ \A e \in 0 .. Gated!Probe(a, taken) - 1 : After(a, e) \in taken
<1> DEFINE T == {d \in Slot : After(a, d) \notin taken}
           P(d) == (a + d) % Slots \notin taken /\ \A e \in 0 .. d - 1 : (a + e) % Slots \in taken
<1>1. Slots \in Nat /\ Slot = 0 .. Slots - 1 /\ Slot \subseteq Nat
  BY SlotsAssumption DEF Slot
<1>2. T # {}
  <2>1. (u - a) % Slots \in Slot /\ After(a, (u - a) % Slots) = u
    BY Walk
  <2> QED BY <2>1
<1>3. PICK d \in T : \A e \in T : d <= e
  <2>1. T \in SUBSET Nat
    BY <1>1
  <2> HIDE DEF T
  <2> QED BY <1>2, <2>1, LeastNat
<1>4. d \in 0 .. Slots - 1 /\ P(d)
  <2>1. ASSUME NEW e \in 0 .. d - 1 PROVE After(a, e) \in taken
    <3>1. e \in Slot /\ ~(d <= e)
      BY <1>1, <1>3
    <3> QED BY <1>3, <3>1
  <2> QED BY <1>1, <1>3, <2>1 DEF After
<1> DEFINE c == CHOOSE e \in 0 .. Slots - 1 : P(e)
<1>5. c \in 0 .. Slots - 1 /\ P(c)
  <2> HIDE DEF P
  <2> QED BY <1>4
<1>6. Gated!Probe(a, taken) = c
  BY DEF Gated!Probe
<1> HIDE DEF c
<1> QED BY <1>1, <1>5, <1>6 DEF After

\* Streams of the list take a slot each, so one is free while any waits.
LEMMA SlotsLeft ==
  ASSUME NEW k \in KeyLists, NEW D \in SUBSET (DOMAIN k), NEW f \in [D -> Slot],
         D # DOMAIN k
  PROVE  \E u \in Slot : u \notin {f[j] : j \in D}
<1>1. Slots \in Nat /\ Slot = 0 .. Slots - 1
  BY SlotsAssumption DEF Slot
<1>2. Len(k) \in Nat /\ Len(k) <= Slots
  BY ListOfKeys
<1>3. IsFiniteSet(DOMAIN k) /\ Cardinality(DOMAIN k) = Len(k)
  BY ListOfKeys
<1>4. IsFiniteSet(D) /\ Cardinality(D) < Len(k)
  <2>1. IsFiniteSet(D) /\ Cardinality(D) <= Cardinality(DOMAIN k)
        /\ (Cardinality(DOMAIN k) = Cardinality(D) => DOMAIN k = D)
    BY <1>3, FS_Subset
  <2>2. Cardinality(D) \in Nat
    BY <2>1, FS_CardinalityType
  <2> QED BY <1>2, <1>3, <2>1, <2>2
<1>5. IsFiniteSet(Slot) /\ Cardinality(Slot) = Slots
  BY <1>1, FS_Interval
<1>6. SUFFICES ASSUME \A u \in Slot : \E j \in D : f[j] = u PROVE FALSE
  OBVIOUS
<1> DEFINE h == [u \in Slot |-> CHOOSE j \in D : f[j] = u]
<1>7. \A u \in Slot : h[u] \in D /\ f[h[u]] = u
  BY <1>6
<1>8. h \in [Slot -> D]
  BY <1>7
<1>9. Cardinality(D) < Cardinality(Slot)
  <2>1. Cardinality(D) \in Nat
    BY <1>4, FS_CardinalityType
  <2> QED BY <1>1, <1>2, <1>4, <1>5, <2>1
<1>10. PICK u, v \in Slot : u # v /\ h[u] = h[v]
  <2> HIDE DEF h
  <2> QED BY <1>4, <1>5, <1>8, <1>9, FS_PigeonHole
<1> QED BY <1>7, <1>10

\* One more stream in a slot of the table.
LEMMA OneMore ==
  ASSUME NEW k \in KeyLists, NEW D \in SUBSET (DOMAIN k), NEW f \in [D -> Slot],
         D # DOMAIN k
  PROVE  \E i \in DOMAIN k \ D : Gated!WithNext(k, f) \in [D \union {i} -> Slot]
<1> DEFINE left == DOMAIN k \ D
           i == Gated!Earliest(k, left)
           taken == {f[j] : j \in D}
           a == k[i].addr
           u == (a + Gated!Probe(a, taken)) % Slots
<1>1. left \in SUBSET (DOMAIN k) /\ left # {}
  OBVIOUS
<1>2. i \in left
  <2> HIDE DEF left
  <2> QED BY <1>1, FirstToPlace
<1>3. a \in Slot
  <2>1. i \in DOMAIN k
    BY <1>2
  <2> HIDE DEF i
  <2> QED BY <2>1, ListOfKeys
<1>4. \E v \in Slot : v \notin taken
  BY SlotsLeft
<1>5. u \in Slot
  <2> HIDE DEF a, taken
  <2>1. Gated!Probe(a, taken) \in Slot
    BY <1>3, <1>4, Probed
  <2> QED BY <1>3, <2>1, Walk DEF After
<1>6. DOMAIN f = D
  OBVIOUS
<1>7. Gated!WithNext(k, f) = [j \in D \union {i} |-> IF j = i THEN u ELSE f[j]]
  BY <1>6, Zenon DEF Gated!WithNext
<1> HIDE DEF i, u, left
<1>8. Gated!WithNext(k, f) \in [D \union {i} -> Slot]
  BY <1>5, <1>7
<1> QED BY <1>2, <1>8 DEF left

\* n streams are placed in n steps.
LEMMA PlacementTyped ==
  ASSUME NEW k \in KeyLists, NEW n \in 0 .. Len(k)
  PROVE  \E D \in SUBSET (DOMAIN k) : IsFiniteSet(D) /\ Cardinality(D) = n
                                      /\ Placement(k)[n] \in [D -> Slot]
<1>1. Len(k) \in Nat
  BY ListOfKeys
<1>2. Placement(k)[0] = <<>>
      /\ \A m \in 1 .. Len(k) : Placement(k)[m] = Gated!WithNext(k, Placement(k)[m - 1])
  BY <1>1, Placements
<1> DEFINE g == Placement(k)
           N == Len(k)
           Typed(m, D) == IsFiniteSet(D) /\ Cardinality(D) = m /\ g[m] \in [D -> Slot]
           T == {m \in 0 .. N : ~\E D \in SUBSET (DOMAIN k) : Typed(m, D)}
<1>3. T = {}
  <2> SUFFICES ASSUME T # {} PROVE FALSE
    OBVIOUS
  <2>1. T \in SUBSET Nat
    OBVIOUS
  <2>2. PICK m \in T : \A e \in T : m <= e
    <3> HIDE DEF T
    <3> QED BY <2>1, LeastNat
  <2>3. m \in 0 .. N /\ N \in Nat
    BY <1>1
  <2>4. CASE m = 0
    <3>1. IsFiniteSet({}) /\ Cardinality({}) = 0
      BY FS_EmptySet
    <3>2. g[0] \in [{} -> Slot]
      BY <1>2
    <3>3. Typed(0, {})
      BY <3>1, <3>2
    <3> QED BY <2>2, <2>4, <3>3
  <2>5. CASE m > 0
    <3>1. m - 1 \in 0 .. N /\ m - 1 \notin T
      BY <2>2, <2>3, <2>5
    <3>2. PICK D \in SUBSET (DOMAIN k) : Typed(m - 1, D)
      BY <3>1
    <3>3. D # DOMAIN k
      <4>1. Cardinality(DOMAIN k) = N
        BY ListOfKeys
      <4> QED BY <2>3, <3>2, <4>1
    <3>4. PICK i \in DOMAIN k \ D : Gated!WithNext(k, g[m - 1]) \in [D \union {i} -> Slot]
      <4> DEFINE f == g[m - 1]
      <4>1. f \in [D -> Slot]
        BY <3>2
      <4> HIDE DEF f
      <4>2. \E i \in DOMAIN k \ D : Gated!WithNext(k, f) \in [D \union {i} -> Slot]
        BY <3>3, <4>1, OneMore
      <4> QED BY <4>2 DEF f
    <3>5. g[m] = Gated!WithNext(k, g[m - 1])
      BY <1>2, <2>3, <2>5
    <3>6. g[m] \in [D \union {i} -> Slot]
      BY <3>4, <3>5
    <3>7. IsFiniteSet(D) /\ Cardinality(D) = m - 1 /\ i \notin D
      BY <3>2, <3>4
    <3>8. IsFiniteSet(D \union {i}) /\ Cardinality(D \union {i}) = m - 1 + 1
      BY <3>7, FS_AddElement
    <3>9. m - 1 + 1 = m
      BY <2>3
    <3>10. Typed(m, D \union {i}) /\ D \union {i} \in SUBSET (DOMAIN k)
      BY <3>4, <3>6, <3>8, <3>9
    <3> QED BY <2>2, <3>10
  <2> QED BY <2>3, <2>4, <2>5
<1>4. \E D \in SUBSET (DOMAIN k) : Typed(n, D)
  BY <1>3
<1> QED BY <1>4

\* Every stream of a list has a slot, whatever the list.
LEMMA AllHaveSlots ==
  ASSUME NEW k \in KeyLists
  PROVE  Gated!FirstFreeSlots(k) \in [DOMAIN k -> Slot]
<1> DEFINE N == Len(k)
<1>1. N \in Nat /\ IsFiniteSet(DOMAIN k) /\ Cardinality(DOMAIN k) = N
  BY ListOfKeys
<1>2. PICK D \in SUBSET (DOMAIN k) : IsFiniteSet(D) /\ Cardinality(D) = N
                                      /\ Placement(k)[N] \in [D -> Slot]
  BY <1>1, PlacementTyped
<1>3. D = DOMAIN k
  <2> HIDE DEF N
  <2> QED BY <1>1, <1>2, FS_Subset
<1>4. Gated!FirstFreeSlots(k) = Placement(k)[N]
  BY <1>1, Placements
<1> QED BY <1>2, <1>3, <1>4

-----------------------------------------------------------------------------
\* The streams placed so far, each at its slot.
PlacedNow == [i \in Streams \ Unplaced |-> placed[i]]

\* allocate's first pass is the gate's own placement, stream by stream.
GateInv == PlacedNow = Placement(keys)[Cardinality(Streams \ Unplaced)]

\* The stream allocate places next goes where the gate's own next one does.
LEMMA SameNext ==
  ASSUME IInv, NEW i \in Unplaced, Earliest(i)
  PROVE  Gated!WithNext(keys, PlacedNow)
           = [j \in (Streams \ Unplaced) \union {i} |->
                IF j = i THEN FirstFree(table, keys[i].addr) ELSE placed[j]]
<1>1. TypeOK /\ TableMatchesPlacement
  BY DEF IInv
<1>2. /\ keys \in KeyLists /\ table \in [Slot -> Banks \union {EMPTY}]
      /\ placed \in [Streams -> Slot \union {UNPLACED}]
  BY <1>1 DEF TypeOK
<1>3. i \in Streams /\ Unplaced \subseteq Streams
  BY DEF Unplaced
<1>4. \A j \in Streams : j \in Nat /\ keys[j].addr \in Slot /\ keys[j].addr \in Nat
  BY <1>2, KeysOfList, SlotsAssumption DEF Slot
<1> DEFINE D == Streams \ Unplaced
           a == keys[i].addr
           taken == {PlacedNow[j] : j \in D}
           full == {u \in Slot : table[u] # EMPTY}
           p == Gated!Probe(a, full)
<1>5. Streams \ D = Unplaced /\ DOMAIN PlacedNow = D /\ \A j \in D : PlacedNow[j] = placed[j]
  BY <1>3 DEF PlacedNow
<1>6. Gated!Earliest(keys, Unplaced) = i
  <2> DEFINE First(x) == \A j \in Unplaced : keys[x].addr < keys[j].addr
                                             \/ (keys[x].addr = keys[j].addr /\ x <= j)
  <2>1. First(i)
    BY DEF Earliest
  <2>2. ASSUME NEW x \in Unplaced, First(x) PROVE x = i
    <3>1. x \in Nat /\ i \in Nat /\ keys[x].addr \in Nat /\ keys[i].addr \in Nat
      BY <1>3, <1>4
    <3>2. keys[x].addr < keys[i].addr \/ (keys[x].addr = keys[i].addr /\ x <= i)
      BY <2>2
    <3>3. keys[i].addr < keys[x].addr \/ (keys[i].addr = keys[x].addr /\ i <= x)
      BY <2>1
    <3> QED BY <3>1, <3>2, <3>3
  <2>3. Gated!Earliest(keys, Unplaced) = CHOOSE x \in Unplaced : First(x)
    BY DEF Gated!Earliest
  <2> HIDE DEF First
  <2> QED BY <2>1, <2>2, <2>3
<1>7. taken = full
  <2>1. ASSUME NEW u \in taken PROVE u \in full
    <3>1. PICK j \in D : u = placed[j]
      BY <1>5
    <3>2. u \in Slot
      BY <1>2, <3>1 DEF Unplaced
    <3> QED BY <1>1, <3>1, <3>2 DEF TableMatchesPlacement
  <2>2. ASSUME NEW u \in full PROVE u \in taken
    <3>1. PICK j \in Streams : placed[j] = u
      BY <1>1 DEF TableMatchesPlacement
    <3>2. j \in D
      BY <3>1, SlotsAssumption DEF Unplaced, UNPLACED, Slot
    <3> QED BY <1>5, <3>1, <3>2
  <2> QED BY <2>1, <2>2
<1>8. PICK u \in Slot : table[u] = EMPTY
  BY <1>1, SlotFree
<1>9. a \in Slot /\ u \notin full
  BY <1>3, <1>4, <1>8
<1> HIDE DEF full, taken, a
<1>10. /\ p \in Slot /\ After(a, p) \notin full
       /\ \A e \in 0 .. p - 1 : After(a, e) \in full
  BY <1>8, <1>9, Probed
<1> HIDE DEF p
<1>11. FirstFree(table, a) = After(a, p)
  <2> DEFINE S == {v \in Slot : table[v] = EMPTY}
  <2>1. FirstFree(table, a) = Nearest(a, S)
    BY DEF FirstFree
  <2>2. \A v \in Slot : v \in S <=> v \notin full
    BY DEF full
  <2>3. S \in SUBSET Slot /\ After(a, p) \in Slot
    BY <1>9, <1>10, Walk
  <2>4. After(a, p) \in S
    BY <1>10, <2>2, <2>3
  <2>5. \A e \in 0 .. p - 1 : After(a, e) \notin S
    BY <1>10, <2>2, <2>3 DEF full
  <2> HIDE DEF S
  <2> QED BY <1>9, <1>10, <2>1, <2>3, <2>4, <2>5, NearestIs
<1>12. Gated!WithNext(keys, PlacedNow)
         = [j \in D \union {i} |-> IF j = i THEN After(a, p) ELSE PlacedNow[j]]
  <2>1. DOMAIN keys \ DOMAIN PlacedNow = Unplaced
    BY <1>5 DEF Streams
  <2>2. (keys[i].addr + Gated!Probe(keys[i].addr, {PlacedNow[j] : j \in D})) % Slots = After(a, p)
    BY <1>7 DEF a, p, taken, After
  <2> QED BY <1>5, <1>6, <2>1, <2>2, Zenon DEF Gated!WithNext
<1>13. \A j \in D \union {i} : (IF j = i THEN After(a, p) ELSE PlacedNow[j])
                               = IF j = i THEN FirstFree(table, a) ELSE placed[j]
  BY <1>5, <1>11
<1> QED BY <1>12, <1>13 DEF a

\* Streams placed keep their places, and the placement a step makes is the
\* next the gate makes.
LEMMA GateStep == IInv /\ GateInv /\ [Next]_vars => GateInv'
<1> SUFFICES ASSUME IInv, GateInv, [Next]_vars PROVE GateInv'
  OBVIOUS
<1>1. CASE Place
  <2>1. PICK i \in Unplaced :
          /\ Earliest(i)
          /\ LET s == FirstFree(table, keys[i].addr) IN
               /\ table' = [table EXCEPT ![s] = keys[i].bank]
               /\ placed' = [placed EXCEPT ![i] = s]
    BY <1>1 DEF Place
  <2> DEFINE D == Streams \ Unplaced
             s == FirstFree(table, keys[i].addr)
             n == Cardinality(D)
  <2>2. placed \in [Streams -> Slot \union {UNPLACED}] /\ keys \in KeyLists
        /\ keys' = keys /\ Streams' = Streams /\ i \in Streams /\ i \notin D
    BY <1>1 DEF IInv, TypeOK, Place, Streams, Unplaced
  <2>3. s \in Slot
    <3>1. PICK u \in Slot : table[u] = EMPTY
      BY <2>1, SlotFree DEF IInv
    <3>2. keys[i].addr \in Slot
      BY <2>2, KeysOfList
    <3> QED BY <3>1, <3>2, FreeSlot DEF IInv, TypeOK
  <2>4. placed' = [placed EXCEPT ![i] = s]
    BY <2>1
  <2>5. Gated!WithNext(keys, PlacedNow)
          = [j \in D \union {i} |-> IF j = i THEN s ELSE placed[j]]
    BY <2>1, SameNext
  <2> HIDE DEF s
  <2>6. (Streams \ Unplaced)' = D \union {i}
    BY <2>2, <2>3, <2>4, SlotsAssumption DEF Unplaced, UNPLACED, Slot
  <2>7. PlacedNow' = [j \in D \union {i} |-> IF j = i THEN s ELSE placed[j]]
    <3>1. \A j \in D \union {i} : placed'[j] = IF j = i THEN s ELSE placed[j]
      BY <2>2, <2>4
    <3>2. PlacedNow' = [j \in D \union {i} |-> placed'[j]]
      BY <2>6 DEF PlacedNow
    <3> QED BY <3>1, <3>2
  <2>8. IsFiniteSet(Streams) /\ Cardinality(Streams) = Len(keys) /\ Len(keys) \in Nat
    BY <2>2, KeysOfList
  <2>9. /\ IsFiniteSet(D) /\ Cardinality(D \union {i}) = n + 1
        /\ n \in Nat /\ n + 1 <= Len(keys)
    <3>1. IsFiniteSet(D)
      BY <2>8, FS_Subset
    <3>2. Cardinality(D \union {i}) = n + 1
      <4> HIDE DEF D
      <4> QED BY <2>2, <3>1, FS_AddElement
    <3>3. Cardinality(D \union {i}) <= Len(keys)
      <4>1. D \union {i} \in SUBSET Streams
        BY <2>2
      <4> HIDE DEF D
      <4> QED BY <2>8, <4>1, FS_Subset
    <3>4. n \in Nat
      <4> HIDE DEF D
      <4> QED BY <3>1, FS_CardinalityType
    <3> QED BY <3>1, <3>2, <3>3, <3>4
  <2>10. PlacedNow = Placement(keys)[n]
    BY DEF GateInv
  <2> HIDE DEF n, D
  <2>11. n + 1 \in 1 .. Len(keys) /\ (n + 1) - 1 = n
    BY <2>8, <2>9
  <2>12. Placement(keys)[n + 1] = Gated!WithNext(keys, Placement(keys)[(n + 1) - 1])
    <3>1. \A m \in 1 .. Len(keys) :
             Placement(keys)[m] = Gated!WithNext(keys, Placement(keys)[m - 1])
      BY <2>8, Placements
    <3> QED BY <2>11, <3>1
  <2>13. Placement(keys)[n + 1] = PlacedNow'
    BY <2>5, <2>7, <2>10, <2>11, <2>12
  <2> QED BY <2>2, <2>6, <2>9, <2>13 DEF GateInv
<1>2. CASE AllPlaced \/ Return \/ StartRound \/ Refuse \/ Repair \/ UNCHANGED vars
  <2>1. keys' = keys
    BY <1>2 DEF AllPlaced, Return, StartRound, Refuse, Repair, vars
  <2>2. placed' = placed
    BY <1>2, RepairBack DEF AllPlaced, Return, StartRound, Refuse, vars
  <2> QED BY <2>1, <2>2 DEF GateInv, PlacedNow, Streams, Unplaced
<1> QED BY <1>1, <1>2 DEF Next, Finished

LEMMA GateInit == Init => GateInv
<1> SUFFICES ASSUME Init PROVE GateInv
  OBVIOUS
<1>1. Streams \ Unplaced = {}
  BY DEF Init, Streams, Unplaced
<1>2. Cardinality(Streams \ Unplaced) = 0
  BY <1>1, FS_EmptySet
<1>3. Placement(keys)[0] = <<>>
  <2>1. keys \in KeyLists
    BY DEF Init
  <2> QED BY <2>1, KeysOfList, Placements
<1>4. PlacedNow = <<>>
  BY <1>1 DEF PlacedNow
<1> QED BY <1>2, <1>3, <1>4 DEF GateInv

\* Once no stream waits, the placement is the gate's.
LEMMA AllAsGated ==
  ASSUME IInv, GateInv, Unplaced = {}
  PROVE  placed = Gated!FirstFreeSlots(keys) /\ placed \in [Streams -> Slot]
<1>1. keys \in KeyLists /\ placed \in [Streams -> Slot]
  BY DEF IInv, TypeOK, Unplaced
<1>2. Cardinality(Streams) = Len(keys) /\ Len(keys) \in Nat
  BY <1>1, KeysOfList
<1>3. Streams \ Unplaced = Streams
  OBVIOUS
<1>4. PlacedNow = placed
  BY <1>1, <1>3 DEF PlacedNow
<1>5. placed = Placement(keys)[Len(keys)]
  BY <1>2, <1>3, <1>4 DEF GateInv
<1> QED BY <1>1, <1>2, <1>5, Placements

LEMMA GateAlways == Spec => [](IInv /\ GateInv)
<1>1. Init => IInv /\ GateInv
  BY InitInv, GateInit
<1>2. IInv /\ GateInv /\ [Next]_vars => (IInv /\ GateInv)'
  BY NextInv, GateStep
<1> QED BY <1>1, <1>2, PTL DEF Spec

(* The gate asks of a function of the keys what allocate does step by step *)
(* with a table, a scan and rounds of repairs: the placement allocate      *)
(* returns, or refuses, is that function's for any keys.                   *)
THEOREM AllocateIsTheGates ==
  Spec => [](phase # "place" => placed = Gated!FirstFreeSlots(keys))
<1>1. IInv /\ GateInv => (phase # "place" => placed = Gated!FirstFreeSlots(keys))
  BY AllAsGated DEF IInv
<1> QED BY <1>1, GateAlways, PTL

-----------------------------------------------------------------------------
\* The scan of the last call has not passed its stream.
StepsInv ==
  \/ stream = 0 /\ steps = 0
  \/ phase = "returned" /\ stream \in Streams /\ steps <= Away(stream) /\ steps \in Nat

LEMMA StepsInit == ImageInit => StepsInv
BY DEF ImageInit, ConsoleInit, StepsInv

\* How far a stream stands from its address is a number of slots.
LEMMA AwaySlot ==
  ASSUME IInv, Unplaced = {}, NEW i \in Streams
  PROVE  Away(i) \in Slot
<1>1. placed[i] \in Slot /\ keys[i].addr \in Slot
  BY KeysOfList DEF IInv, TypeOK, Unplaced
<1> DEFINE p == placed[i]
           a == keys[i].addr
<1>2. p \in Slot /\ a \in Slot
  BY <1>1
<1>3. (p - a) % Slots \in Slot
  <2> HIDE DEF p, a
  <2> QED BY <1>2, Walk
<1> QED BY <1>3 DEF Away

\* Whatever the image does, allocate's part of it is a step of allocate.
LEMMA ImageMoves ==
  ASSUME [ImageNext]_all
  PROVE  [Next]_vars
<1>1. Console => UNCHANGED vars
  BY DEF Console, Routine, Call, EnterMacro, EnterChy, ScanSlot, Found, FoundChy, WriteChy,
         Leave, built
<1> QED BY <1>1 DEF ImageNext, all, built

LEMMA StepsStep == ImageInv /\ StepsInv /\ [ImageNext]_all => StepsInv'
<1> SUFFICES ASSUME ImageInv, StepsInv, [ImageNext]_all PROVE StepsInv'
  OBVIOUS
<1>1. ImageInv'
  BY ImageNextInv
<1>2. CASE \E ch \in Channels, i \in DOMAIN keys, q \in Registers :
             Call(ch, i, q, "macro") \/ Call(ch, i, q, "chy")
  <2>1. PICK ch \in Channels, i \in DOMAIN keys, q \in Registers, which \in Before :
          Call(ch, i, q, which)
    BY <1>2 DEF Before
  <2>2. /\ steps' = 0 /\ stream' = i /\ phase = "returned"
        /\ phase' = phase /\ keys' = keys
    BY <2>1 DEF Call, built, vars
  <2>3. stream' \in Streams' /\ phase' = "returned"
    BY <2>2 DEF Streams
  <2>4. Away(stream)' \in Slot
    <3>1. Unplaced = {} /\ IInv /\ i \in Streams
      BY <2>2 DEF ImageInv, IInv, Streams
    <3>2. Away(i) \in Slot
      BY <3>1, AwaySlot
    <3>3. keys' = keys /\ placed' = placed /\ stream' = i
      BY <2>1 DEF Call, built, vars
    <3> QED BY <3>2, <3>3 DEF Away
  <2> QED BY <2>2, <2>3, <2>4, SlotsAssumption DEF StepsInv, Slot
<1>3. CASE ScanSlot
  <2>1. pc \in Scanning /\ pc # "game" /\ UNCHANGED <<built, call>>
    BY <1>3 DEF ScanSlot, Scanning
  <2>2. UNCHANGED <<keys, placed, phase, stream>> /\ Away(stream)' = Away(stream)
    BY <2>1, Unmoved
  <2>3. stream \in Streams /\ phase = "returned"
    BY <2>1, Asked DEF ImageInv, RoutineInv, CallInv
  <2>4. Away(stream) \in Slot
    <3>1. Unplaced = {} /\ IInv
      BY <2>3 DEF ImageInv, IInv
    <3> QED BY <2>3, <3>1, AwaySlot
  <2>5. steps \in 0 .. Away(stream)
    BY <2>1 DEF ImageInv, RoutineInv, ScanInv
  <2>6. steps' \in 0 .. Away(stream)
    <3>1. CASE steps' = steps
      BY <2>5, <3>1
    <3>2. CASE pc' = pc
      <4>1. pc' \in Scanning
        BY <2>1, <3>2
      <4> QED BY <1>1, <2>2, <4>1 DEF ImageInv, RoutineInv, ScanInv
    <3> QED BY <1>3, <3>1, <3>2 DEF ScanSlot
  <2>7. steps' \in Nat /\ steps' <= Away(stream)
    <3> DEFINE n == Away(stream)
    <3>1. n \in Int /\ steps' \in 0 .. n
      BY <2>4, <2>6, SlotsAssumption DEF Slot
    <3> HIDE DEF n
    <3>2. steps' \in Nat /\ steps' <= n
      BY <3>1
    <3> QED BY <3>2 DEF n
  <2> QED BY <2>2, <2>3, <2>7 DEF StepsInv, Streams
<1>4. CASE EnterMacro \/ EnterChy \/ Found \/ FoundChy \/ WriteChy \/ Leave
  <2>1. pc # "game" /\ UNCHANGED <<built, call>> /\ steps' = steps
    BY <1>4 DEF EnterMacro, EnterChy, Found, FoundChy, WriteChy, Leave
  <2>2. UNCHANGED <<keys, placed, phase, stream>> /\ Away(stream)' = Away(stream)
    BY <2>1, Unmoved
  <2> QED BY <2>1, <2>2 DEF StepsInv, Streams
<1>5. CASE [Next]_vars /\ UNCHANGED console
  <2>1. stream' = stream /\ steps' = steps
    BY <1>5 DEF console, call
  <2>2. CASE stream = 0 /\ steps = 0
    BY <2>1, <2>2 DEF StepsInv
  <2>3. CASE phase = "returned"
    <3>1. UNCHANGED vars
      BY <1>5, <2>3 DEF Next, Place, AllPlaced, Return, StartRound, Refuse, Repair, Finished
    <3>2. UNCHANGED <<keys, placed, phase>>
      BY <3>1 DEF vars
    <3> QED BY <2>1, <3>2 DEF StepsInv, Streams, Away
  <2> QED BY <2>2, <2>3 DEF StepsInv
<1> QED BY <1>2, <1>3, <1>4, <1>5 DEF ImageNext, Console, Routine, all, built

\* The worst scan is one of some stream's, and none is longer.
LEMMA WorstBounds ==
  ASSUME NEW k \in KeyLists, NEW i \in DOMAIN k
  PROVE  /\ Gated!Distance(k, Gated!FirstFreeSlots(k), i) <= Gated!WorstScan(k)
         /\ Gated!WorstScan(k) \in Nat
<1> DEFINE f == Gated!FirstFreeSlots(k)
           dist(j) == Gated!Distance(k, f, j)
           S == {dist(j) : j \in DOMAIN k}
           T == {Slots - 1 - d : d \in S}
           w == CHOOSE d \in S : \A e \in S : e <= d
<1>1. k \in Seq(Key) /\ Slots \in Nat /\ Slot = 0 .. Slots - 1
  BY KeysAssumption, SlotsAssumption DEF Slot
<1>2. \A j \in DOMAIN k : dist(j) \in Slot
  <2> SUFFICES ASSUME NEW j \in DOMAIN k PROVE dist(j) \in Slot
    OBVIOUS
  <2> DEFINE p == f[j]
             a == k[j].addr
  <2>1. p \in Slot /\ a \in Slot
    BY AllHaveSlots, ListOfKeys
  <2>2. dist(j) = (p - a) % Slots
    BY DEF Gated!Distance
  <2> HIDE DEF p, a
  <2>3. (p - a) % Slots \in Slot
    BY <2>1, Walk
  <2> HIDE DEF dist
  <2> QED BY <2>2, <2>3
<1>3. k # <<>>
  BY <1>1
<1>4. Gated!WorstScan(k) = w
  BY <1>3, Zenon DEF Gated!WorstScan
<1> HIDE DEF dist
<1>5. S # {} /\ S \subseteq Slot /\ dist(i) \in S
  BY <1>2
<1> HIDE DEF S
<1>6. T \in SUBSET Nat /\ T # {}
  <2>1. ASSUME NEW d \in S PROVE Slots - 1 - d \in Nat
    BY <1>1, <1>5
  <2> QED BY <1>5, <2>1
<1>7. PICK t \in T : \A u \in T : t <= u
  <2> HIDE DEF T
  <2> QED BY <1>6, LeastNat
<1>8. PICK d \in S : t = Slots - 1 - d
  OBVIOUS
<1>9. ASSUME NEW e \in S PROVE e <= d
  <2>1. t <= Slots - 1 - e /\ e \in Nat /\ d \in Nat
    BY <1>1, <1>5, <1>7
  <2> QED BY <1>1, <1>8, <2>1
<1>10. w \in S /\ \A e \in S : e <= w
  <2> DEFINE Top(x) == \A e \in S : e <= x
  <2>1. d \in S /\ Top(d)
    BY <1>8, <1>9
  <2>2. w = CHOOSE x \in S : Top(x)
    OBVIOUS
  <2> HIDE DEF Top, w
  <2>3. w \in S /\ Top(w)
    BY <2>1, <2>2
  <2> QED BY <2>3 DEF Top
<1> HIDE DEF w
<1>11. w \in Nat
  BY <1>1, <1>5, <1>10
<1> QED BY <1>4, <1>5, <1>10, <1>11 DEF dist

(* The gate's budget binds the console: however many calls are made, on    *)
(* whatever channels, no scan passes more slots than the gate measured on  *)
(* a placement of its own, for any table, keys and repair rounds.          *)
THEOREM ScansStayInBudget == ImageSpec => []ScanWithinWorst
<1>1. ImageInit => IInv /\ GateInv
  BY InitInv, GateInit DEF ImageInit
<1>2. IInv /\ GateInv /\ [ImageNext]_all => (IInv /\ GateInv)'
  <2> SUFFICES ASSUME IInv, GateInv, [ImageNext]_all PROVE (IInv /\ GateInv)'
    OBVIOUS
  <2>1. [Next]_vars
    BY ImageMoves
  <2> QED BY <2>1, NextInv, GateStep
<1>3. ImageSpec => []StepsInv
  BY ImageAlways, StepsInit, StepsStep, PTL DEF ImageSpec
<1>4. IInv /\ GateInv /\ StepsInv => ScanWithinWorst
  <2> SUFFICES ASSUME IInv, GateInv, StepsInv PROVE steps <= Gated!WorstScan(keys)
    BY DEF ScanWithinWorst
  <2>1. keys \in KeyLists
    BY DEF IInv, TypeOK
  <2>2. CASE stream = 0 /\ steps = 0
    <3>1. CASE keys = <<>>
      BY <2>2, <3>1 DEF Gated!WorstScan
    <3>2. CASE keys # <<>>
      <4>1. \E i \in DOMAIN keys : TRUE
        <5>1. keys \in Seq(Key)
          BY <2>1, KeysAssumption
        <5>2. Len(keys) \in Nat /\ Len(keys) # 0 /\ DOMAIN keys = 1 .. Len(keys)
          BY <3>2, <5>1
        <5>3. 1 \in DOMAIN keys
          BY <5>2
        <5> QED BY <5>3
      <4>2. Gated!WorstScan(keys) \in Nat
        BY <2>1, <4>1, WorstBounds
      <4> QED BY <2>2, <4>2
    <3> QED BY <3>1, <3>2
  <2>3. CASE /\ phase = "returned" /\ stream \in Streams
             /\ steps <= Away(stream) /\ steps \in Nat
    <3>1. Unplaced = {}
      BY <2>3 DEF IInv
    <3>2. placed = Gated!FirstFreeSlots(keys)
      BY <3>1, AllAsGated
    <3>3. Away(stream) = Gated!Distance(keys, Gated!FirstFreeSlots(keys), stream)
      BY <3>2 DEF Away, Gated!Distance
    <3>4. Away(stream) <= Gated!WorstScan(keys) /\ Gated!WorstScan(keys) \in Nat
      BY <2>1, <2>3, <3>3, WorstBounds DEF Streams
    <3>5. Away(stream) \in Nat
      BY <2>3, <3>1, AwaySlot, SlotsAssumption DEF Slot
    <3> DEFINE n == Away(stream)
               w == Gated!WorstScan(keys)
    <3>6. steps \in Nat /\ n \in Nat /\ w \in Nat /\ steps <= n /\ n <= w
      BY <2>3, <3>4, <3>5
    <3> HIDE DEF n, w
    <3>7. steps <= w
      BY <3>6
    <3> QED BY <3>7 DEF w
  <2> QED BY <2>2, <2>3 DEF StepsInv
<1> QED BY <1>1, <1>2, <1>3, <1>4, PTL DEF ImageSpec
=============================================================================
