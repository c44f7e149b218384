------------------------- MODULE StreamTable_proofs -------------------------
(* For any ROM, any table and any requests.  First shorten_to: halving     *)
(* finds the longest length that ends by a boundary.  Then the search for  *)
(* the table: what its tools do to each other's work.                      *)
EXTENDS StreamTable, WellFoundedInduction, FiniteSetTheorems, TLAPS

-----------------------------------------------------------------------------
(* shorten_to.                                                             *)

\* The least number of a set.
LEMMA LeastNat ==
  ASSUME NEW T \in SUBSET Nat, T # {}
  PROVE  \E n \in T : \A m \in T : n <= m
<1> DEFINE R == {p \in Nat \X Nat : p[1] < p[2]}
<1>1. IsWellFoundedOn(R, Nat)
  BY NatLessThanWellFounded DEF OpToRel
<1>2. PICK n \in T : \A m \in T : ~ (<<m, n>> \in R)
  <2> HIDE DEF R
  <2> QED BY <1>1, WFMin
<1>3. ASSUME NEW m \in T PROVE n <= m
  <2>1. m \in Nat /\ n \in Nat /\ <<m, n>> \notin R
    BY <1>2
  <2>2. ~(m < n)
    BY <2>1
  <2> QED BY <2>1, <2>2
<1> QED BY <1>3

\* What the table of Search is, given the table.
Middle(i) == (i[1] + i[2]) \div 2
Late(s, b, i) == CompressedEnd(s, Middle(i)) > b
Below(i) == <<i[1], Middle(i) - 1>>
Above(i) == <<Middle(i) + 1, i[2]>>
Found(s, b, f, i) ==
  IF i[1] > i[2] THEN 0
  ELSE IF Late(s, b, i) THEN f[Below(i)]
  ELSE Max({Middle(i), f[Above(i)]})
SearchBody(s, b, f) == [i \in Intervals |-> Found(s, b, f, i)]

\* How many lengths an interval has.
Size(i) == IF i[1] > i[2] THEN 0 ELSE i[2] - i[1] + 1

\* Halving an interval that is not empty leaves shorter ones.
LEMMA Halves ==
  ASSUME NEW i \in Intervals, i[1] <= i[2]
  PROVE  /\ Middle(i) \in 1 .. MaxLength /\ i[1] <= Middle(i) /\ Middle(i) <= i[2]
         /\ Below(i) \in Intervals /\ Size(Below(i)) < Size(i)
         /\ Above(i) \in Intervals /\ Size(Above(i)) < Size(i)
         /\ Size(i) \in Nat
<1> DEFINE l == i[1]
           h == i[2]
           m == Middle(i)
<1>1. l \in 1 .. MaxLength + 1 /\ h \in 0 .. MaxLength /\ l <= h /\ MaxLength \in Nat
  BY LengthAssumption DEF Intervals
<1>2. m = (l + h) \div 2
  BY DEF Middle
<1>3. m \in Int /\ l <= m /\ m <= h
  <2> HIDE DEF l, h, m
  <2> QED BY <1>1, <1>2
<1>4. Below(i) = <<l, m - 1>> /\ Above(i) = <<m + 1, h>>
  BY DEF Below, Above
<1> HIDE DEF l, h, m
<1>5. /\ m \in 1 .. MaxLength /\ m - 1 \in 0 .. MaxLength /\ m + 1 \in 1 .. MaxLength + 1
  BY <1>1, <1>3
<1>6. Below(i) \in Intervals /\ Above(i) \in Intervals
  BY <1>1, <1>4, <1>5 DEF Intervals
<1>7. Size(i) = h - l + 1
  BY <1>1 DEF Size, l, h
<1>8. Size(Below(i)) = IF l > m - 1 THEN 0 ELSE m - 1 - l + 1
  BY <1>4 DEF Size
<1>9. Size(Above(i)) = IF m + 1 > h THEN 0 ELSE h - (m + 1) + 1
  BY <1>4 DEF Size
<1>10. Size(Below(i)) < Size(i) /\ Size(Above(i)) < Size(i) /\ Size(i) \in Nat
  BY <1>1, <1>3, <1>7, <1>8, <1>9
<1> QED BY <1>3, <1>5, <1>6, <1>10 DEF l, h, m

\* Every interval has a number of lengths.
LEMMA SizeNat ==
  ASSUME NEW i \in Intervals
  PROVE  Size(i) \in Nat
BY LengthAssumption DEF Size, Intervals

\* There is a table: the longer intervals take theirs from the shorter ones.
LEMMA SearchExists ==
  ASSUME NEW s, NEW b
  PROVE  \E f : f = SearchBody(s, b, f)
<1> DEFINE F(f, i) == Found(s, b, f, i)
           Upto(f, n) == /\ f = [i \in Intervals |-> f[i]]
                         /\ \A i \in Intervals : Size(i) <= n => f[i] = F(f, i)
           T == {n \in Nat : ~\E f : Upto(f, n)}
<1>0. ASSUME NEW f, NEW g, NEW i \in Intervals,
             i[1] <= i[2] => f[Below(i)] = g[Below(i)] /\ f[Above(i)] = g[Above(i)]
      PROVE  F(f, i) = F(g, i)
  <2>1. CASE i[1] > i[2]
    BY <2>1 DEF Found
  <2>2. CASE ~(i[1] > i[2])
    <3>1. i[1] <= i[2]
      BY <2>2, LengthAssumption DEF Intervals
    <3> QED BY <1>0, <2>2, <3>1 DEF Found
  <2> QED BY <2>1, <2>2
<1>1. ASSUME NEW f, NEW n \in Nat, f = [i \in Intervals |-> f[i]],
             \A i \in Intervals : Size(i) < n => f[i] = F(f, i)
      PROVE  \E g : Upto(g, n)
  <2> DEFINE g == [i \in Intervals |-> F(f, i)]
  <2>1. g = [i \in Intervals |-> g[i]] /\ \A i \in Intervals : g[i] = F(f, i)
    <3> HIDE DEF F
    <3> QED OBVIOUS
  <2> HIDE DEF g
  <2>2. ASSUME NEW i \in Intervals, Size(i) <= n
        PROVE  g[i] = F(g, i)
    <3>1. ASSUME i[1] <= i[2]
          PROVE  f[Below(i)] = g[Below(i)] /\ f[Above(i)] = g[Above(i)]
      <4>1. /\ Below(i) \in Intervals /\ Size(Below(i)) < n
            /\ Above(i) \in Intervals /\ Size(Above(i)) < n
        <5>1. Size(Below(i)) \in Nat /\ Size(Above(i)) \in Nat
          BY <3>1, Halves, SizeNat
        <5> QED BY <2>2, <3>1, <5>1, Halves
      <4> HIDE DEF F
      <4> QED BY <1>1, <2>1, <4>1
    <3>2. F(f, i) = F(g, i)
      <4> HIDE DEF F
      <4> QED BY <1>0, <3>1
    <3> HIDE DEF F
    <3> QED BY <2>1, <3>2
  <2> HIDE DEF F
  <2> QED BY <2>1, <2>2
<1> HIDE DEF F
<1>2. T = {}
  <2> SUFFICES ASSUME T # {} PROVE FALSE
    OBVIOUS
  <2>1. PICK n \in T : \A m \in T : n <= m
    <3>1. T \in SUBSET Nat
      OBVIOUS
    <3> HIDE DEF T
    <3> QED BY <3>1, LeastNat
  <2>2. \E f : /\ f = [i \in Intervals |-> f[i]]
               /\ \A i \in Intervals : Size(i) < n => f[i] = F(f, i)
    <3>1. CASE n = 0
      <4> DEFINE f == [i \in Intervals |-> 0]
      <4>1. f = [i \in Intervals |-> f[i]]
        OBVIOUS
      <4>2. \A i \in Intervals : ~(Size(i) < n)
        BY <3>1, SizeNat
      <4> HIDE DEF f
      <4> QED BY <4>1, <4>2
    <3>2. CASE n # 0
      <4>1. n - 1 \in Nat /\ n - 1 \notin T
        BY <2>1, <3>2
      <4>2. PICK f : Upto(f, n - 1)
        BY <4>1
      <4>3. \A i \in Intervals : Size(i) < n => Size(i) <= n - 1
        BY <4>1, SizeNat
      <4> QED BY <4>2, <4>3
    <3> QED BY <3>1, <3>2
  <2>3. \E f : Upto(f, n)
    BY <1>1, <2>2
  <2> QED BY <2>1, <2>3
<1>3. PICK f : Upto(f, MaxLength)
  BY <1>2, LengthAssumption
<1>4. \A i \in Intervals : Size(i) <= MaxLength
  BY LengthAssumption DEF Size, Intervals
<1>5. f = [i \in Intervals |-> F(f, i)]
  <2>1. \A i \in Intervals : f[i] = F(f, i)
    BY <1>3, <1>4
  <2>2. f = [i \in Intervals |-> f[i]]
    BY <1>3
  <2> QED BY <2>1, <2>2
<1> QED BY <1>5 DEF SearchBody, F

LEMMA SearchEquation ==
  ASSUME NEW s, NEW b, NEW i \in Intervals
  PROVE  Search(s, b)[i] = Found(s, b, Search(s, b), i)
<1>1. Search(s, b) = CHOOSE f : f = SearchBody(s, b, f)
  BY Zenon DEF Search, SearchBody, Found, Late, Middle, Below, Above
<1>2. Search(s, b) = SearchBody(s, b, Search(s, b))
  <2> DEFINE F(f) == SearchBody(s, b, f)
  <2>1. \E f : f = F(f)
    BY SearchExists
  <2>2. (CHOOSE f : f = F(f)) = F(CHOOSE f : f = F(f))
    <3> HIDE DEF F
    <3> QED BY <2>1, Zenon
  <2> QED BY <1>1, <2>2
<1>3. ASSUME NEW f
      PROVE  SearchBody(s, b, f)[i] = Found(s, b, f, i)
  BY Zenon DEF SearchBody
<1> QED BY <1>2, <1>3

\* The greater of two numbers.
LEMMA MaxOfTwo ==
  ASSUME NEW a \in Int, NEW c \in Int
  PROVE  Max({a, c}) = IF a < c THEN c ELSE a
<1> DEFINE m == IF a < c THEN c ELSE a
<1>1. m \in {a, c} /\ \A y \in {a, c} : m >= y
  OBVIOUS
<1>2. \A x \in {a, c} : (\A y \in {a, c} : x >= y) => x = m
  OBVIOUS
<1> HIDE DEF m
<1>3. Max({a, c}) = CHOOSE x \in {a, c} : \A y \in {a, c} : x >= y
  BY Zenon DEF Max
<1> QED BY <1>1, <1>2, <1>3 DEF m

\* The longest length of an interval that ends by a boundary, or 0.
LongestBy(s, b, i, n) ==
  \/ n = 0 /\ \A m \in i[1] .. i[2] : CompressedEnd(s, m) > b
  \/ /\ n \in i[1] .. i[2]
     /\ CompressedEnd(s, n) <= b
     /\ \A m \in i[1] .. i[2] : m > n => CompressedEnd(s, m) > b

LEMMA EndsGrow ==
  ASSUME rom \in Roms, NEW s \in Sources,
         NEW m \in 1 .. MaxLength, NEW n \in 1 .. MaxLength, m <= n
  PROVE  /\ CompressedEnd(s, m) \in Nat /\ CompressedEnd(s, n) \in Nat
         /\ CompressedEnd(s, m) <= CompressedEnd(s, n)
BY RomsAssumption DEF CompressedEnd

\* Halving finds it.
LEMMA SearchFinds ==
  ASSUME rom \in Roms, NEW s \in Sources, NEW b \in Nat
  PROVE  \A i \in Intervals : LongestBy(s, b, i, Search(s, b)[i])
<1> DEFINE T == {n \in Nat : \E i \in Intervals :
                    Size(i) = n /\ ~LongestBy(s, b, i, Search(s, b)[i])}
           g == Search(s, b)
<1>1. SUFFICES ASSUME T # {} PROVE FALSE
  BY SizeNat
<1>2. PICK n \in T : \A m \in T : n <= m
  <2>1. T \in SUBSET Nat
    OBVIOUS
  <2> HIDE DEF T
  <2> QED BY <1>1, <2>1, LeastNat
<1>3. PICK i \in Intervals : Size(i) = n /\ ~LongestBy(s, b, i, g[i])
  BY <1>2
<1>4. \A j \in Intervals : Size(j) < Size(i) => LongestBy(s, b, j, g[j])
  BY <1>2, <1>3, SizeNat
<1>5. g[i] = Found(s, b, g, i)
  BY SearchEquation
<1> HIDE DEF g, T
<1>6. i[1] \in Nat /\ i[2] \in Nat /\ i[1] >= 1 /\ i[2] <= MaxLength
  BY LengthAssumption DEF Intervals
<1>7. i[1] <= i[2]
  <2> SUFFICES ASSUME i[1] > i[2] PROVE FALSE
    BY <1>6
  <2>1. g[i] = 0
    BY <1>5 DEF Found
  <2>2. \A m \in i[1] .. i[2] : FALSE
    BY <1>6
  <2> QED BY <1>3, <2>1, <2>2 DEF LongestBy
<1> DEFINE k == Middle(i)
<1>8. /\ k \in 1 .. MaxLength /\ i[1] <= k /\ k <= i[2]
      /\ LongestBy(s, b, Below(i), g[Below(i)])
      /\ LongestBy(s, b, Above(i), g[Above(i)])
  BY <1>4, <1>7, Halves
<1>9. /\ Below(i)[1] = i[1] /\ Below(i)[2] = k - 1
      /\ Above(i)[1] = k + 1 /\ Above(i)[2] = i[2]
  BY DEF Below, Above
<1>10. g[i] = IF CompressedEnd(s, k) > b THEN g[Below(i)] ELSE Max({k, g[Above(i)]})
  BY <1>5, <1>6, <1>7 DEF Found, Late
<1> HIDE DEF k
<1>11. /\ \A m \in i[1] .. i[2] : m \in 1 .. MaxLength /\ CompressedEnd(s, m) \in Nat
       /\ \A m \in i[1] .. i[2] : m <= k => CompressedEnd(s, m) <= CompressedEnd(s, k)
       /\ \A m \in i[1] .. i[2] : k <= m => CompressedEnd(s, k) <= CompressedEnd(s, m)
       /\ CompressedEnd(s, k) \in Nat
  <2>1. \A m \in i[1] .. i[2] : m \in 1 .. MaxLength
    BY <1>6, LengthAssumption
  <2> QED BY <1>8, <2>1, EndsGrow
<1>12. CASE CompressedEnd(s, k) > b
  <2>1. g[i] = g[Below(i)]
    BY <1>10, <1>12
  <2>2. \A m \in i[1] .. i[2] : m >= k => CompressedEnd(s, m) > b
    BY <1>11, <1>12, <1>8
  <2>3. \A m \in i[1] .. i[2] : m >= k \/ m \in i[1] .. k - 1
    BY <1>6, <1>8
  <2>4. \A m \in i[1] .. k - 1 : m \in i[1] .. i[2]
    BY <1>6, <1>8
  <2>5. LongestBy(s, b, i, g[i])
    BY <1>8, <1>9, <2>1, <2>2, <2>3, <2>4 DEF LongestBy
  <2> QED BY <1>3, <2>5
<1>13. CASE ~(CompressedEnd(s, k) > b)
  <2>1. g[Above(i)] \in Int
    BY <1>6, <1>8, <1>9 DEF LongestBy
  <2>2. g[i] = IF k < g[Above(i)] THEN g[Above(i)] ELSE k
    BY <1>8, <1>10, <1>13, <2>1, MaxOfTwo
  <2>3. CompressedEnd(s, k) <= b
    BY <1>11, <1>13
  <2>4. \A m \in i[1] .. i[2] : m <= k \/ m \in k + 1 .. i[2]
    BY <1>6, <1>8
  <2>5. \A m \in k + 1 .. i[2] : m \in i[1] .. i[2] /\ k < m
    BY <1>6, <1>8
  <2>6. CASE g[Above(i)] = 0 /\ \A m \in k + 1 .. i[2] : CompressedEnd(s, m) > b
    <3>1. g[i] = k
      BY <1>8, <2>2, <2>6
    <3>2. k \in i[1] .. i[2] /\ \A m \in i[1] .. i[2] : m > k => m \in k + 1 .. i[2]
      BY <1>6, <1>8, <2>4
    <3>3. LongestBy(s, b, i, g[i])
      BY <2>3, <2>6, <3>1, <3>2 DEF LongestBy
    <3> QED BY <1>3, <3>3
  <2>7. CASE /\ g[Above(i)] \in k + 1 .. i[2]
             /\ CompressedEnd(s, g[Above(i)]) <= b
             /\ \A m \in k + 1 .. i[2] : m > g[Above(i)] => CompressedEnd(s, m) > b
    <3>1. g[i] = g[Above(i)] /\ k < g[i]
      BY <1>8, <2>2, <2>5, <2>7
    <3>2. \A m \in i[1] .. i[2] : m > g[i] => m \in k + 1 .. i[2]
      BY <1>6, <1>8, <2>4, <2>7, <3>1
    <3>3. LongestBy(s, b, i, g[i])
      BY <2>5, <2>7, <3>1, <3>2 DEF LongestBy
    <3> QED BY <1>3, <3>3
  <2> QED BY <1>8, <1>9, <2>6, <2>7 DEF LongestBy
<1> QED BY <1>12, <1>13

(* shorten_to finds a length whenever there is one: of those up to the     *)
(* given one that end exactly at the boundary it returns the longest, and  *)
(* None when none does.                                                    *)
THEOREM ShortenToExact ==
  ASSUME rom \in Roms, NEW s \in Sources, NEW n \in 1 .. MaxLength, NEW b \in Nat
  PROVE  LET m == ShortenTo(s, n, b) IN
         /\ m \in 0 .. n
         /\ m # 0 => CompressedEnd(s, m) = b
         /\ \A o \in 1 .. n : CompressedEnd(s, o) = b => o <= m
<1> DEFINE i == <<1, n>>
           best == Search(s, b)[i]
           m == ShortenTo(s, n, b)
<1>1. i \in Intervals /\ i[1] = 1 /\ i[2] = n
  BY LengthAssumption DEF Intervals
<1>2. LongestBy(s, b, i, best)
  BY <1>1, SearchFinds
<1>3. m = IF best # 0 /\ CompressedEnd(s, best) = b THEN best ELSE 0
  BY DEF ShortenTo
<1> HIDE DEF i, best, m
<1>4. /\ best \in 0 .. n
      /\ \A o \in 1 .. n : CompressedEnd(s, o) \in Nat /\ o \in 1 .. MaxLength
  <2>1. \A o \in 1 .. n : o \in 1 .. MaxLength
    BY LengthAssumption
  <2>2. \A o \in 1 .. n : CompressedEnd(s, o) \in Nat
    BY <2>1, EndsGrow
  <2> QED BY <1>1, <1>2, <2>1, <2>2 DEF LongestBy
<1>5. \A o \in 1 .. n : CompressedEnd(s, o) = b => o <= best /\ best # 0
  BY <1>1, <1>2, <1>4 DEF LongestBy
<1>6. ASSUME NEW o \in 1 .. n, CompressedEnd(s, o) = b
      PROVE  o <= m
  <2>1. o <= best /\ best \in 1 .. n
    BY <1>4, <1>5, <1>6
  <2>2. CompressedEnd(s, best) <= b
    BY <1>1, <1>2, <2>1 DEF LongestBy
  <2>3. CompressedEnd(s, o) <= CompressedEnd(s, best)
    BY <1>4, <2>1, EndsGrow
  <2>4. CompressedEnd(s, best) = b
    BY <1>4, <1>6, <2>1, <2>2, <2>3
  <2> QED BY <1>3, <2>1, <2>4
<1> QED BY <1>3, <1>4, <1>6 DEF m

-----------------------------------------------------------------------------
(* The tools.                                                              *)

Flags == added \in BOOLEAN /\ refused \subseteq Sources

TypeOK ==
  /\ rom \in Roms
  /\ shipped \in Table /\ file \in Table /\ table \in Table
  /\ wanted \in Table /\ heard \in Table /\ toured \in Table
  /\ tool \in {"none", "harvest", "converge", "tour"}
  /\ runs \in 0 .. Runs
  /\ round \in Nat
  /\ Flags

\* What is being worked through was asked for.
WantedWasHeard == tool # "none" => Covers(heard, wanted)

\* What converge and the tour do is add.
OnlyAdds == tool \in {"converge", "tour"} => Covers(table, file)

\* converge works through addresses the table does not have.
WantedIsNew == tool = "converge" => \A s \in Sources : wanted[s] > 0 => table[s] = 0

\* The tour keeps what it heard until the last run, then works it off.
WorkedOff(s) ==
  runs = Runs /\ wanted[s] = 0 /\ (Decodes(s, heard[s]) => heard[s] <= table[s])
TourWorksOff ==
  tool = "tour" => \A s \in Sources : wanted[s] = heard[s] \/ WorkedOff(s)

\* No request of the iteration is lost sight of.
Answered(s) == table[s] > 0 \/ ~Decodes(s, heard[s]) \/ s \in refused
NothingForgotten ==
  tool \in {"harvest", "converge"} =>
    \A s \in Sources : heard[s] > 0 => wanted[s] > 0 \/ Answered(s)

\* Every iteration of converge that went on has an address to show for it.
RoundsPaidFor ==
  tool = "converge" =>
    /\ round <= ConvergeRounds
    /\ Cardinality(Present(table)) >= round - 1
    /\ added => Cardinality(Present(table)) >= round

IInv ==
  /\ TypeOK
  /\ tool # "none" => outcome = "none"
  /\ WantedWasHeard
  /\ OnlyAdds
  /\ WantedIsNew
  /\ TourWorksOff
  /\ NothingForgotten
  /\ RoundsPaidFor
  /\ ToursStayCovered
  /\ ConvergedMeansQuiet
  /\ UnfinishedHasAdded

LEMMA EntryType ==
  ASSUME NEW t \in Table, NEW s \in Sources
  PROVE  t[s] \in 0 .. MaxLength /\ t[s] \in Nat
BY LengthAssumption DEF Table

LEMMA NothingType == Nothing \in Table /\ \A s \in Sources : Nothing[s] = 0
BY LengthAssumption DEF Nothing, Table

\* Of two tables.
LEMMA LargerFacts ==
  ASSUME NEW t \in Table, NEW u \in Table
  PROVE  /\ Larger(t, u) \in Table
         /\ \A s \in Sources : /\ Larger(t, u)[s] = IF t[s] < u[s] THEN u[s] ELSE t[s]
                               /\ t[s] <= Larger(t, u)[s]
                               /\ u[s] <= Larger(t, u)[s]
<1>1. \A s \in Sources : Larger(t, u)[s] = IF t[s] < u[s] THEN u[s] ELSE t[s]
  BY DEF Larger
<1>2. Larger(t, u) \in Table
  BY EntryType DEF Larger, Table
<1> QED BY <1>1, <1>2, EntryType

\* A request that runs past the end does so at any greater length.
LEMMA LongerRunsPast ==
  ASSUME rom \in Roms, NEW s \in Sources,
         NEW m \in 1 .. MaxLength, NEW n \in 1 .. MaxLength, m <= n, ~Decodes(s, m)
  PROVE  ~Decodes(s, n)
BY EndsGrow, LengthAssumption DEF Decodes, CompressedEnd

\* What absorb does to the neighbours.
LEMMA TrimmedFacts ==
  ASSUME rom \in Roms, NEW t \in Table, NEW s \in Sources
  PROVE  /\ Trimmed(t, s) \in Table
         /\ Trimmed(t, s)[s] = t[s]
         /\ \A o \in Sources :
              /\ Trimmed(t, s)[o] # t[o] =>
                   /\ o < s /\ Trimmed(t, s)[o] > 0 /\ Trimmed(t, s)[o] < t[o]
                   /\ CompressedEnd(o, Trimmed(t, s)[o]) = s
              /\ o \in Overlapping(t, s) /\ Untrimmable(t, s) = {} =>
                   CompressedEnd(o, Trimmed(t, s)[o]) = s
<1>1. ASSUME NEW o \in Sources, o \in Overlapping(t, s)
      PROVE  /\ o < s /\ t[o] > 0
             /\ ShortenTo(o, t[o], s) \in 0 .. MaxLength
             /\ ShortenTo(o, t[o], s) <= t[o]
             /\ ShortenTo(o, t[o], s) # 0 => CompressedEnd(o, ShortenTo(o, t[o], s)) = s
  <2>1. o < s /\ t[o] > 0
    BY <1>1 DEF Overlapping
  <2>2. t[o] \in 1 .. MaxLength /\ s \in Nat
    BY <2>1, EntryType, SourcesAssumption
  <2>3. /\ ShortenTo(o, t[o], s) \in 0 .. t[o]
        /\ ShortenTo(o, t[o], s) # 0 => CompressedEnd(o, ShortenTo(o, t[o], s)) = s
    BY <2>2, ShortenToExact
  <2> QED BY <2>1, <2>2, <2>3, LengthAssumption
<1> DEFINE Trims(o) == o \in Overlapping(t, s) /\ \A u \in Untrimmable(t, s) : o < u
<1>2. \A o \in Sources : Trimmed(t, s)[o] = IF Trims(o) THEN ShortenTo(o, t[o], s) ELSE t[o]
  BY DEF Trimmed
<1>3. ASSUME NEW o \in Sources, Trims(o)
      PROVE  ShortenTo(o, t[o], s) # 0
  <2> SUFFICES ASSUME ShortenTo(o, t[o], s) = 0 PROVE FALSE
    OBVIOUS
  <2>1. o \in Untrimmable(t, s)
    BY <1>3 DEF Untrimmable
  <2> QED BY <1>3, <2>1, SourcesAssumption
<1>4. Trimmed(t, s) \in Table
  <2>1. \A o \in Sources : (IF Trims(o) THEN ShortenTo(o, t[o], s) ELSE t[o]) \in 0 .. MaxLength
    BY <1>1, EntryType
  <2> HIDE DEF Trims
  <2>2. Trimmed(t, s) = [o \in Sources |-> IF Trims(o) THEN ShortenTo(o, t[o], s) ELSE t[o]]
    BY DEF Trimmed, Trims
  <2> QED BY <2>1, <2>2 DEF Table
<1>5. s \notin Overlapping(t, s)
  BY SourcesAssumption DEF Overlapping
<1>6. Untrimmable(t, s) = {} => \A o \in Overlapping(t, s) : Trims(o) /\ o \in Sources
  BY DEF Overlapping
<1>7. ASSUME NEW o \in Sources, Trimmed(t, s)[o] # t[o]
      PROVE  /\ o < s /\ Trimmed(t, s)[o] > 0 /\ Trimmed(t, s)[o] < t[o]
             /\ CompressedEnd(o, Trimmed(t, s)[o]) = s
  <2>1. Trims(o) /\ Trimmed(t, s)[o] = ShortenTo(o, t[o], s)
    BY <1>2, <1>7
  <2>2. t[o] \in Nat
    BY EntryType
  <2> QED BY <1>1, <1>3, <1>7, <2>1, <2>2
<1>8. ASSUME NEW o \in Sources, o \in Overlapping(t, s), Untrimmable(t, s) = {}
      PROVE  CompressedEnd(o, Trimmed(t, s)[o]) = s
  BY <1>1, <1>2, <1>3, <1>6, <1>8
<1>9. Trimmed(t, s)[s] = t[s]
  BY <1>2, <1>5
<1> QED BY <1>4, <1>7, <1>8, <1>9

\* What absorb leaves behind.
LEMMA AbsorbFacts ==
  ASSUME rom \in Roms, NEW t \in Table, NEW s \in Sources, NEW n \in 1 .. MaxLength
  PROVE  /\ Absorb(t, s, n) \in Table
         /\ \A o \in Sources :
              /\ t[o] > 0 => Absorb(t, s, n)[o] > 0
              /\ o # s /\ Absorb(t, s, n)[o] # t[o] =>
                   /\ o < s /\ Absorb(t, s, n)[o] > 0 /\ Absorb(t, s, n)[o] < t[o]
                   /\ CompressedEnd(o, Absorb(t, s, n)[o]) = s
         /\ Absorb(t, s, n)[s] >= t[s]
         /\ Untrimmable(t, s) # {} => Absorb(t, s, n)[s] = t[s]
         /\ Untrimmable(t, s) = {} =>
              /\ Absorb(t, s, n)[s] > 0
              /\ \A o \in Overlapping(t, s) : CompressedEnd(o, Absorb(t, s, n)[o]) = s
<1> DEFINE u == Absorb(t, s, n)
           v == Trimmed(t, s)
<1>1. /\ v \in Table /\ v[s] = t[s]
      /\ \A o \in Sources :
           /\ v[o] # t[o] =>
                o < s /\ v[o] > 0 /\ v[o] < t[o] /\ CompressedEnd(o, v[o]) = s
           /\ o \in Overlapping(t, s) /\ Untrimmable(t, s) = {} => CompressedEnd(o, v[o]) = s
  BY TrimmedFacts
<1> HIDE DEF v
<1>2. /\ v[s] \in 0 .. MaxLength /\ t[s] \in 0 .. MaxLength
      /\ \A o \in Sources : v[o] \in Nat /\ t[o] \in Nat
  BY <1>1, EntryType
<1>3. Max({v[s], n}) = IF v[s] < n THEN n ELSE v[s]
  BY <1>2, MaxOfTwo
<1>4. CASE Untrimmable(t, s) = {}
  <2> DEFINE x == Max({v[s], n})
  <2>1. u = [v EXCEPT ![s] = x]
    BY <1>4 DEF Absorb, v
  <2>2. x \in 0 .. MaxLength /\ x > 0 /\ x >= t[s]
    BY <1>1, <1>2, <1>3
  <2> HIDE DEF u, x
  <2>3. u \in Table /\ \A o \in Sources : u[o] = IF o = s THEN x ELSE v[o]
    BY <1>1, <2>1, <2>2 DEF Table
  <2>4. \A o \in Overlapping(t, s) : o \in Sources /\ o # s
    BY SourcesAssumption DEF Overlapping
  <2>5. \A o \in Overlapping(t, s) : CompressedEnd(o, u[o]) = s
    BY <1>1, <1>4, <2>3, <2>4
  <2>6. \A o \in Sources : t[o] > 0 => u[o] > 0
    BY <1>1, <1>2, <2>2, <2>3
  <2>7. \A o \in Sources : o # s /\ u[o] # t[o] =>
           o < s /\ u[o] > 0 /\ u[o] < t[o] /\ CompressedEnd(o, u[o]) = s
    BY <1>1, <2>3
  <2> QED BY <1>4, <2>2, <2>3, <2>5, <2>6, <2>7 DEF u
<1>5. CASE Untrimmable(t, s) # {}
  <2>1. u = v
    BY <1>5 DEF Absorb, v
  <2> HIDE DEF u
  <2>2. \A o \in Sources : t[o] > 0 => u[o] > 0
    BY <1>1, <2>1
  <2> QED BY <1>1, <1>2, <1>5, <2>1, <2>2 DEF u
<1> QED BY <1>4, <1>5

\* How many addresses a table has.
LEMMA PresentGrows ==
  ASSUME NEW t, NEW u, \A s \in Sources : t[s] > 0 => u[s] > 0
  PROVE  /\ Cardinality(Present(t)) \in Nat
         /\ Cardinality(Present(t)) <= Cardinality(Present(u))
         /\ \A s \in Sources : ~(t[s] > 0) /\ u[s] > 0 =>
              Cardinality(Present(t)) + 1 <= Cardinality(Present(u))
<1>1. IsFiniteSet(Present(t)) /\ IsFiniteSet(Present(u)) /\ Present(t) \subseteq Present(u)
  <2>1. Present(t) \subseteq Sources /\ Present(u) \subseteq Sources
    BY DEF Present
  <2>2. Present(t) \subseteq Present(u)
    BY DEF Present
  <2> QED BY <2>1, <2>2, FS_Subset, SourcesAssumption
<1>2. Cardinality(Present(t)) \in Nat /\ Cardinality(Present(u)) \in Nat
  BY <1>1, FS_CardinalityType
<1>3. Cardinality(Present(t)) <= Cardinality(Present(u))
  BY <1>1, FS_Subset
<1>4. ASSUME NEW s \in Sources, ~(t[s] > 0), u[s] > 0
      PROVE  Cardinality(Present(t)) + 1 <= Cardinality(Present(u))
  <2>1. s \notin Present(t) /\ s \in Present(u)
    BY <1>4 DEF Present
  <2>2. Present(t) \cup {s} \subseteq Present(u)
    BY <1>1, <2>1
  <2>3. Cardinality(Present(t) \cup {s}) = Cardinality(Present(t)) + 1
    BY <1>1, <2>1, FS_AddElement
  <2>4. Cardinality(Present(t) \cup {s}) <= Cardinality(Present(u))
    BY <1>1, <2>2, FS_Subset
  <2> QED BY <2>3, <2>4
<1> QED BY <1>2, <1>3, <1>4

-----------------------------------------------------------------------------
(* Every step keeps the invariant.                                         *)

LEMMA InitInv == Init => IInv
<1> SUFFICES ASSUME Init PROVE IInv
  OBVIOUS
<1>1. shipped \in Table /\ \A s \in Sources : shipped[s] \in Nat
  BY TablesAssumption, EntryType DEF Init
<1>2. TypeOK
  <2>1. Flags
    BY Zenon DEF Init, Flags
  <2> QED BY <1>1, <2>1, NothingType, RoundsAssumption DEF Init, TypeOK
<1>3. Covers(file, toured)
  BY <1>1, NothingType DEF Init, Covers
<1> QED
  BY <1>2, <1>3 DEF Init, IInv, WantedWasHeard, OnlyAdds, WantedIsNew, TourWorksOff,
     NothingForgotten, RoundsPaidFor, ToursStayCovered, ConvergedMeansQuiet,
     UnfinishedHasAdded

\* What the entries of the tables are.
LEMMA Entries ==
  ASSUME TypeOK
  PROVE  \A s \in Sources :
           /\ table[s] \in 0 .. MaxLength /\ file[s] \in 0 .. MaxLength
           /\ wanted[s] \in 0 .. MaxLength /\ heard[s] \in 0 .. MaxLength
           /\ toured[s] \in 0 .. MaxLength
BY EntryType DEF TypeOK

\* A table starts as the shipped one or as the file's.
LEMMA StartInv ==
  ASSUME IInv, NEW name, NEW from,
         \/ name = "harvest" /\ from = shipped
         \/ name \in {"converge", "tour"} /\ from = file,
         Start(name, from)
  PROVE  IInv'
<1>1. TypeOK'
  <2>1. Flags'
    BY Zenon DEF Start, Flags
  <2> QED BY <2>1, NothingType, RoundsAssumption DEF IInv, TypeOK, Start
<1>2. Covers(file, file)
  BY Entries DEF IInv, Covers
<1>3. WantedWasHeard' /\ OnlyAdds' /\ WantedIsNew' /\ TourWorksOff' /\ NothingForgotten'
  BY <1>2, NothingType
     DEF Start, WantedWasHeard, OnlyAdds, WantedIsNew, TourWorksOff, NothingForgotten, Covers
<1>4. RoundsPaidFor'
  <2>1. Cardinality(Present(file)) \in Nat
    BY PresentGrows
  <2> QED BY <2>1, RoundsAssumption DEF Start, RoundsPaidFor, Present
<1>5. ToursStayCovered' /\ ConvergedMeansQuiet' /\ UnfinishedHasAdded'
  BY DEF IInv, Start, ToursStayCovered, ConvergedMeansQuiet, UnfinishedHasAdded, Covers
<1> QED BY <1>1, <1>3, <1>4, <1>5 DEF IInv, Start

LEMMA RunInv ==
  ASSUME IInv, NEW w \in Reports, Run(w)
  PROVE  IInv'
<1>1. w \in Table /\ \A s \in Sources : w[s] \in 0 .. MaxLength
  BY TablesAssumption, EntryType
<1>2. /\ wanted \in Table /\ heard \in Table /\ runs \in 0 .. Runs /\ runs < Runs
      /\ tool \in {"none", "harvest", "converge", "tour"} /\ tool # "none"
      /\ \A s \in Sources :
           wanted[s] \in 0 .. MaxLength /\ heard[s] \in 0 .. MaxLength /\ wanted[s] <= heard[s]
  BY Entries DEF IInv, TypeOK, Run, WantedWasHeard, Covers
<1>3. /\ Larger(heard, w) \in Table /\ Larger(wanted, w) \in Table
      /\ \A s \in Sources :
           /\ Larger(heard, w)[s] = IF heard[s] < w[s] THEN w[s] ELSE heard[s]
           /\ Larger(wanted, w)[s] = IF wanted[s] < w[s] THEN w[s] ELSE wanted[s]
  BY <1>1, <1>2, LargerFacts
<1>4. /\ Candidates(w) \in Table
      /\ \A s \in Sources :
           Candidates(w)[s] = IF table[s] > 0 THEN 0 ELSE Larger(wanted, w)[s]
  <2>1. \A s \in Sources :
          (IF table[s] > 0 THEN 0 ELSE Larger(wanted, w)[s]) \in 0 .. MaxLength
    BY <1>3, EntryType, LengthAssumption
  <2> QED BY <2>1 DEF Candidates, Table
<1>5. /\ heard' = Larger(heard, w) /\ runs' = runs + 1 /\ runs' \in 0 .. Runs
      /\ UNCHANGED <<rom, shipped, file, tool, table, round, added, outcome, toured, refused>>
  BY <1>2, RoundsAssumption DEF Run
<1>6. /\ tool = "harvest" => wanted' = w /\ wanted = Nothing
      /\ tool = "converge" => wanted' = Candidates(w)
      /\ tool = "tour" => wanted' = Larger(wanted, w)
  BY DEF Run
<1>7. TypeOK'
  <2>1. Flags'
    BY Zenon DEF Run, Flags, IInv, TypeOK
  <2> QED BY <1>1, <1>2, <1>3, <1>4, <1>5, <1>6, <2>1 DEF IInv, TypeOK
<1>8. \A s \in Sources : wanted'[s] <= heard'[s]
  BY <1>1, <1>2, <1>3, <1>4, <1>5, <1>6
<1>9. WantedIsNew'
  BY <1>4, <1>5, <1>6, Entries DEF WantedIsNew, IInv
<1>10. TourWorksOff'
  <2> SUFFICES ASSUME tool = "tour", NEW s \in Sources
               PROVE  wanted'[s] = heard'[s]
    BY <1>5 DEF TourWorksOff
  <2>1. wanted[s] = heard[s]
    BY <1>2 DEF IInv, TourWorksOff, WorkedOff
  <2> QED BY <1>3, <1>5, <1>6, <2>1
<1>11. NothingForgotten'
  <2> SUFFICES ASSUME tool \in {"harvest", "converge"}, NEW s \in Sources, heard'[s] > 0
               PROVE  wanted'[s] > 0 \/ Answered(s)'
    BY <1>5 DEF NothingForgotten
  <2>1. CASE heard[s] < w[s]
    <3>1. w[s] > 0
      BY <1>1, <1>2, <2>1
    <3>2. wanted[s] < w[s] /\ table[s] \in Nat
      BY <1>1, <1>2, <2>1, EntryType DEF IInv, TypeOK
    <3>3. wanted'[s] > 0 \/ table'[s] > 0
      BY <1>3, <1>4, <1>5, <1>6, <3>1, <3>2
    <3> QED BY <3>3 DEF Answered
  <2>2. CASE ~(heard[s] < w[s])
    <3>1. heard'[s] = heard[s] /\ heard[s] > 0
      BY <1>3, <1>5, <2>2
    <3>2. wanted[s] > 0 \/ Answered(s)
      BY <3>1 DEF IInv, NothingForgotten
    <3>3. CASE Answered(s)
      BY <1>5, <3>1, <3>3 DEF Answered, Decodes
    <3>4. CASE wanted[s] > 0
      <4>1. tool = "converge"
        BY <1>6, <3>4, NothingType
      <4>2. wanted'[s] > 0 \/ table'[s] > 0
        BY <1>1, <1>2, <1>3, <1>4, <1>5, <1>6, <3>4, <4>1
      <4> QED BY <4>2 DEF Answered
    <3> QED BY <3>2, <3>3, <3>4
  <2> QED BY <2>1, <2>2
<1>12. ConvergedMeansQuiet' /\ UnfinishedHasAdded'
  BY <1>2, <1>5 DEF IInv, ConvergedMeansQuiet, UnfinishedHasAdded
<1>13. WantedWasHeard' /\ OnlyAdds' /\ RoundsPaidFor' /\ ToursStayCovered'
  BY <1>5, <1>8 DEF IInv, WantedWasHeard, OnlyAdds, RoundsPaidFor, ToursStayCovered, Covers,
     Present
<1> QED BY <1>2, <1>5, <1>7, <1>9, <1>10, <1>11, <1>12, <1>13 DEF IInv

\* The request taken up is one of those heard.
LEMMA RequestFacts ==
  ASSUME IInv, NEW s \in Sources, Request(s), wanted' = [wanted EXCEPT ![s] = 0]
  PROVE  /\ wanted[s] \in 1 .. MaxLength /\ heard[s] \in 1 .. MaxLength
         /\ wanted[s] <= heard[s]
         /\ wanted' \in Table
         /\ \A o \in Sources : wanted'[o] = IF o = s THEN 0 ELSE wanted[o]
         /\ \A o \in Sources : wanted'[o] <= heard[o]
         /\ ~Decodes(s, wanted[s]) => ~Decodes(s, heard[s])
<1>1. /\ wanted[s] > 0 /\ wanted \in Table
      /\ \A o \in Sources :
           wanted[o] \in 0 .. MaxLength /\ heard[o] \in 0 .. MaxLength /\ wanted[o] <= heard[o]
  BY Entries DEF IInv, TypeOK, Request, WantedWasHeard, Covers
<1>2. wanted[s] \in 1 .. MaxLength /\ heard[s] \in 1 .. MaxLength /\ wanted[s] <= heard[s]
  BY <1>1
<1>3. /\ wanted' \in Table
      /\ \A o \in Sources : wanted'[o] = IF o = s THEN 0 ELSE wanted[o]
  <2>1. 0 \in 0 .. MaxLength
    BY LengthAssumption
  <2> QED BY <1>1, <2>1 DEF Table
<1>4. \A o \in Sources : wanted'[o] <= heard[o]
  BY <1>1, <1>3
<1>5. ~Decodes(s, wanted[s]) => ~Decodes(s, heard[s])
  BY <1>2, LongerRunsPast DEF IInv, TypeOK
<1> QED BY <1>2, <1>3, <1>4, <1>5

LEMMA HarvestRequestInv ==
  ASSUME IInv, NEW s \in Sources, HarvestRequest(s)
  PROVE  IInv'
<1>1. /\ tool = "harvest" /\ Request(s) /\ wanted' = [wanted EXCEPT ![s] = 0]
      /\ UNCHANGED <<rom, shipped, file, tool, round, runs, heard, outcome, toured>>
  BY DEF HarvestRequest
<1>2. /\ wanted[s] \in 1 .. MaxLength /\ wanted[s] <= heard[s] /\ heard[s] \in 1 .. MaxLength
      /\ wanted' \in Table
      /\ \A o \in Sources : wanted'[o] = IF o = s THEN 0 ELSE wanted[o]
      /\ \A o \in Sources : wanted'[o] <= heard[o]
      /\ ~Decodes(s, wanted[s]) => ~Decodes(s, heard[s])
  BY <1>1, RequestFacts
<1>3. /\ Absorb(table, s, wanted[s]) \in Table
      /\ \A o \in Sources : table[o] > 0 => Absorb(table, s, wanted[s])[o] > 0
      /\ Untrimmable(table, s) = {} => Absorb(table, s, wanted[s])[s] > 0
  BY <1>2, AbsorbFacts DEF IInv, TypeOK
<1>4. /\ table' \in Table
      /\ \A o \in Sources : table[o] > 0 => table'[o] > 0
      /\ refused \subseteq refused' /\ refused' \subseteq Sources
      /\ table'[s] > 0 \/ ~Decodes(s, wanted[s]) \/ s \in refused'
      /\ added' \in BOOLEAN
  <2>1. table[s] \in Nat
    BY Entries DEF IInv
  <2>2. CASE HarvestSkip(s)
    <3>1. table' = table /\ refused' = refused /\ added' = added
      BY <2>2 DEF HarvestRequest
    <3>2. table[s] > 0 \/ ~Decodes(s, wanted[s])
      BY <1>2, <2>1, <2>2 DEF HarvestSkip
    <3> QED BY <3>1, <3>2 DEF IInv, TypeOK, Flags
  <2>3. CASE ~HarvestSkip(s)
    <3>1. table' = Absorb(table, s, wanted[s])
      BY <2>3 DEF HarvestRequest
    <3>2. /\ refused' = IF Untrimmable(table, s) = {} THEN refused ELSE refused \union {s}
          /\ added' = (added \/ Untrimmable(table, s) = {})
      BY <2>3 DEF HarvestRequest
    <3>3. refused \subseteq Sources
      BY DEF IInv, TypeOK, Flags
    <3>4. /\ Untrimmable(table, s) = {} \/ s \in refused'
          /\ refused \subseteq refused' /\ refused' \subseteq Sources
      BY <3>2, <3>3, Zenon
    <3>5. added' \in BOOLEAN
      BY <3>2, Zenon
    <3> QED BY <1>3, <3>1, <3>4, <3>5
  <2> QED BY <2>2, <2>3
<1>5. TypeOK'
  <2>1. Flags'
    BY <1>4 DEF Flags
  <2> QED BY <1>1, <1>2, <1>4, <2>1 DEF IInv, TypeOK
<1>6. NothingForgotten'
  <2> SUFFICES ASSUME NEW o \in Sources, heard'[o] > 0
               PROVE  wanted'[o] > 0 \/ Answered(o)'
    BY DEF NothingForgotten
  <2>1. CASE o = s
    BY <1>1, <1>2, <1>4, <2>1 DEF Answered, Decodes
  <2>2. CASE o # s
    <3>1. wanted[o] > 0 \/ Answered(o)
      BY <1>1 DEF IInv, NothingForgotten
    <3>2. CASE Answered(o)
      BY <1>1, <1>4, <3>2 DEF Answered, Decodes
    <3> QED BY <1>2, <2>2, <3>1, <3>2
  <2> QED BY <2>1, <2>2
<1>7. /\ WantedWasHeard' /\ OnlyAdds' /\ WantedIsNew' /\ TourWorksOff' /\ RoundsPaidFor'
      /\ ToursStayCovered'
  BY <1>1, <1>2 DEF IInv, WantedWasHeard, OnlyAdds, WantedIsNew, TourWorksOff, RoundsPaidFor,
     ToursStayCovered, Covers
<1>8. outcome' = "none" /\ ConvergedMeansQuiet' /\ UnfinishedHasAdded'
  BY <1>1 DEF IInv, ConvergedMeansQuiet, UnfinishedHasAdded
<1> QED BY <1>5, <1>6, <1>7, <1>8 DEF IInv

LEMMA ConvergeRequestInv ==
  ASSUME IInv, NEW s \in Sources, ConvergeRequest(s)
  PROVE  IInv'
<1>1. /\ tool = "converge" /\ Request(s) /\ wanted' = [wanted EXCEPT ![s] = 0]
      /\ UNCHANGED <<rom, shipped, file, tool, round, runs, heard, outcome, toured, refused>>
  BY DEF ConvergeRequest
<1>2. /\ wanted[s] \in 1 .. MaxLength /\ wanted[s] <= heard[s] /\ heard[s] \in 1 .. MaxLength
      /\ wanted' \in Table
      /\ \A o \in Sources : wanted'[o] = IF o = s THEN 0 ELSE wanted[o]
      /\ \A o \in Sources : wanted'[o] <= heard[o]
      /\ ~Decodes(s, wanted[s]) => ~Decodes(s, heard[s])
  BY <1>1, RequestFacts
<1>3. /\ table[s] = 0
      /\ \A o \in Sources : table[o] \in 0 .. MaxLength /\ file[o] \in 0 .. MaxLength
      /\ Covers(table, file)
  BY <1>1, <1>2, Entries DEF IInv, WantedIsNew, OnlyAdds
<1>4. /\ table' \in Table
      /\ \A o \in Sources : o # s => table'[o] = table[o]
      /\ table'[s] >= table[s]
      /\ table'[s] > 0 \/ (~Decodes(s, wanted[s]) /\ table' = table /\ added' = added)
  <2>1. CASE Decodes(s, wanted[s])
    <3>1. table' = [table EXCEPT ![s] = wanted[s]] /\ table \in Table
      BY <2>1 DEF ConvergeRequest, IInv, TypeOK
    <3> QED BY <1>2, <1>3, <3>1 DEF Table
  <2>2. CASE ~Decodes(s, wanted[s])
    <3>1. table' = table
      BY <2>2 DEF ConvergeRequest
    <3>2. added' = added
      BY <2>2 DEF ConvergeRequest
    <3> QED BY <1>3, <2>2, <3>1, <3>2 DEF IInv, TypeOK
  <2> QED BY <2>1, <2>2
<1>5. \A o \in Sources : table[o] <= table'[o]
  BY <1>3, <1>4, EntryType
<1>6. TypeOK'
  <2>1. Flags'
    BY Zenon DEF ConvergeRequest, Flags, IInv, TypeOK
  <2> QED BY <1>1, <1>2, <1>4, <2>1 DEF IInv, TypeOK
<1>7. OnlyAdds'
  BY <1>1, <1>3, <1>5, <1>4, EntryType DEF OnlyAdds, Covers
<1>8. WantedIsNew'
  BY <1>1, <1>2, <1>4 DEF IInv, WantedIsNew
<1>9. NothingForgotten'
  <2> SUFFICES ASSUME NEW o \in Sources, heard'[o] > 0
               PROVE  wanted'[o] > 0 \/ Answered(o)'
    BY DEF NothingForgotten
  <2>1. CASE o = s
    BY <1>1, <1>2, <1>4, <2>1 DEF Answered, Decodes
  <2>2. CASE o # s
    <3>1. wanted[o] > 0 \/ Answered(o)
      BY <1>1 DEF IInv, NothingForgotten
    <3> QED BY <1>1, <1>2, <1>4, <2>2, <3>1 DEF Answered, Decodes
  <2> QED BY <2>1, <2>2
<1>10. RoundsPaidFor'
  <2>1. /\ round <= ConvergeRounds /\ round \in Nat /\ Cardinality(Present(table)) >= round - 1
        /\ added => Cardinality(Present(table)) >= round
    BY <1>1 DEF IInv, TypeOK, RoundsPaidFor
  <2>2. /\ Cardinality(Present(table)) \in Nat
        /\ Cardinality(Present(table)) <= Cardinality(Present(table'))
        /\ ~(table[s] > 0) /\ table'[s] > 0 =>
             Cardinality(Present(table)) + 1 <= Cardinality(Present(table'))
    <3>1. \A o \in Sources : table[o] > 0 => table'[o] > 0
      BY <1>3, <1>4, <1>5, EntryType
    <3> QED BY <3>1, PresentGrows
  <2>3. Present(table)' = Present(table')
    BY DEF Present
  <2>4. Cardinality(Present(table')) \in Nat
    BY PresentGrows
  <2>5. CASE table'[s] > 0
    BY <1>1, <1>3, <2>1, <2>2, <2>3, <2>4, <2>5 DEF RoundsPaidFor
  <2>6. CASE table' = table /\ added' = added
    BY <1>1, <2>1, <2>3, <2>6 DEF RoundsPaidFor
  <2> QED BY <1>4, <2>5, <2>6
<1>11. WantedWasHeard' /\ TourWorksOff' /\ ToursStayCovered'
  BY <1>1, <1>2 DEF IInv, WantedWasHeard, TourWorksOff, ToursStayCovered, Covers
<1>12. outcome' = "none" /\ ConvergedMeansQuiet' /\ UnfinishedHasAdded'
  BY <1>1 DEF IInv, ConvergedMeansQuiet, UnfinishedHasAdded
<1> QED BY <1>6, <1>7, <1>8, <1>9, <1>10, <1>11, <1>12 DEF IInv

LEMMA TourRequestInv ==
  ASSUME IInv, NEW s \in Sources, TourRequest(s)
  PROVE  IInv'
<1>1. /\ tool = "tour" /\ Request(s) /\ wanted' = [wanted EXCEPT ![s] = 0]
      /\ UNCHANGED <<rom, shipped, file, tool, round, runs, heard, outcome, toured, refused>>
  BY DEF TourRequest
<1>2. /\ wanted[s] \in 1 .. MaxLength /\ wanted[s] <= heard[s]
      /\ wanted' \in Table
      /\ \A o \in Sources : wanted'[o] = IF o = s THEN 0 ELSE wanted[o]
      /\ \A o \in Sources : wanted'[o] <= heard[o]
  BY <1>1, RequestFacts
<1>3. /\ Covers(table, file) /\ runs = Runs /\ wanted[s] = heard[s]
      /\ \A o \in Sources : /\ table[o] \in 0 .. MaxLength /\ file[o] \in 0 .. MaxLength
                            /\ heard[o] \in 0 .. MaxLength
                            /\ wanted[o] = heard[o] \/ WorkedOff(o)
  BY <1>1, <1>2, Entries
     DEF IInv, OnlyAdds, Request, Handling, TourWorksOff, WorkedOff
<1>4. /\ table' \in Table
      /\ \A o \in Sources : o # s => table'[o] = table[o]
      /\ table'[s] >= table[s]
      /\ Decodes(s, wanted[s]) => wanted[s] <= table'[s]
  <2>1. CASE Decodes(s, wanted[s]) /\ table[s] < wanted[s]
    <3>1. table' = [table EXCEPT ![s] = wanted[s]] /\ table \in Table
      BY <2>1 DEF TourRequest, IInv, TypeOK
    <3> QED BY <1>2, <1>3, <2>1, <3>1 DEF Table
  <2>2. CASE ~(Decodes(s, wanted[s]) /\ table[s] < wanted[s])
    <3>1. table' = table /\ table \in Table
      BY <2>2 DEF TourRequest, IInv, TypeOK
    <3> QED BY <1>2, <1>3, <2>2, <3>1
  <2> QED BY <2>1, <2>2
<1>5. \A o \in Sources : table[o] <= table'[o]
  BY <1>3, <1>4, EntryType
<1>6. TypeOK'
  <2>1. Flags'
    BY Zenon DEF TourRequest, Flags, IInv, TypeOK
  <2> QED BY <1>1, <1>2, <1>4, <2>1 DEF IInv, TypeOK
<1>7. OnlyAdds'
  BY <1>1, <1>3, <1>4, <1>5, EntryType DEF OnlyAdds, Covers
<1>8. TourWorksOff'
  <2> SUFFICES ASSUME NEW o \in Sources
               PROVE  wanted'[o] = heard'[o] \/ WorkedOff(o)'
    BY DEF TourWorksOff
  <2>1. CASE o = s
    BY <1>1, <1>2, <1>3, <1>4, <2>1 DEF WorkedOff, Decodes
  <2>2. CASE o # s
    BY <1>1, <1>2, <1>3, <1>4, <2>2 DEF WorkedOff, Decodes
  <2> QED BY <2>1, <2>2
<1>9. WantedWasHeard' /\ WantedIsNew' /\ NothingForgotten' /\ RoundsPaidFor' /\ ToursStayCovered'
  BY <1>1, <1>2
     DEF IInv, WantedWasHeard, WantedIsNew, NothingForgotten, RoundsPaidFor, ToursStayCovered,
     Covers
<1>10. outcome' = "none" /\ ConvergedMeansQuiet' /\ UnfinishedHasAdded'
  BY <1>1 DEF IInv, ConvergedMeansQuiet, UnfinishedHasAdded
<1> QED BY <1>6, <1>7, <1>8, <1>9, <1>10 DEF IInv

\* An iteration that goes on.
LEMMA NextRoundInv ==
  ASSUME IInv, tool \in {"harvest", "converge"}, RoundOver, NextRound, added,
         \/ tool = "harvest" /\ file' = file
         \/ tool = "converge" /\ file' = table /\ round < ConvergeRounds
  PROVE  IInv'
<1>1. /\ wanted = Nothing /\ runs' = 0 /\ round' = round + 1 /\ heard' = Nothing
      /\ UNCHANGED <<rom, shipped, tool, table, wanted, outcome, toured>>
      /\ added' = FALSE /\ refused' = {}
  BY DEF NextRound, RoundOver
<1>2. TypeOK'
  <2>1. Flags'
    BY <1>1 DEF Flags
  <2> QED BY <1>1, <2>1, NothingType, RoundsAssumption DEF IInv, TypeOK
<1>3. /\ \A o \in Sources : /\ table[o] \in 0 .. MaxLength /\ file[o] \in 0 .. MaxLength
                            /\ toured[o] \in 0 .. MaxLength
      /\ tool = "converge" => Covers(table, file)
      /\ Covers(file, toured)
  BY Entries DEF IInv, OnlyAdds, ToursStayCovered
<1>4. OnlyAdds' /\ ToursStayCovered'
  BY <1>1, <1>3 DEF OnlyAdds, ToursStayCovered, Covers
<1>5. RoundsPaidFor'
  <2> SUFFICES ASSUME tool = "converge" PROVE RoundsPaidFor'
    BY <1>1 DEF RoundsPaidFor
  <2>1. /\ round \in Nat /\ round < ConvergeRounds
        /\ Cardinality(Present(table)) >= round /\ Cardinality(Present(table)) \in Nat
    BY PresentGrows DEF IInv, TypeOK, RoundsPaidFor
  <2>2. Present(table)' = Present(table)
    BY <1>1 DEF Present
  <2> QED BY <1>1, <2>1, <2>2, RoundsAssumption DEF RoundsPaidFor
<1>6. WantedWasHeard' /\ WantedIsNew' /\ TourWorksOff' /\ NothingForgotten'
  BY <1>1, NothingType
     DEF IInv, WantedWasHeard, WantedIsNew, TourWorksOff, NothingForgotten, Covers
<1>7. outcome' = "none" /\ ConvergedMeansQuiet' /\ UnfinishedHasAdded'
  BY <1>1 DEF IInv, ConvergedMeansQuiet, UnfinishedHasAdded
<1> QED BY <1>2, <1>4, <1>5, <1>6, <1>7 DEF IInv

\* A tool that ends, or is ended: nothing is in hand any more.
LEMMA EndInv ==
  ASSUME IInv, tool' = "none", UNCHANGED <<rom, shipped, work>>,
         file' \in Table, toured' \in Table, Flags', Covers(file', toured'),
         (ConvergedMeansQuiet /\ UnfinishedHasAdded)'
  PROVE  IInv'
<1>1. TypeOK'
  BY DEF IInv, TypeOK, work
<1> QED
  BY <1>1 DEF IInv, WantedWasHeard, OnlyAdds, WantedIsNew, TourWorksOff, NothingForgotten,
     RoundsPaidFor, ToursStayCovered, Covers

LEMMA HarvestRoundInv ==
  ASSUME IInv, HarvestRound
  PROVE  IInv'
<1>1. tool = "harvest" /\ RoundOver /\ wanted = Nothing
  BY DEF HarvestRound, RoundOver
<1>2. CASE added /\ round < HarvestRounds /\ NextRound /\ UNCHANGED file
  BY <1>1, <1>2, NextRoundInv
<1>3. CASE /\ End(IF added THEN "gave up" ELSE "converged")
           /\ file' = table /\ toured' = Nothing /\ UNCHANGED refused
  <2>1. /\ tool' = "none" /\ UNCHANGED <<rom, shipped, work>>
        /\ UNCHANGED <<table, wanted, heard, added, refused>>
        /\ file' = table /\ toured' = Nothing
        /\ outcome' = IF added THEN "gave up" ELSE "converged"
    BY <1>3 DEF End, work
  <2>2. Flags'
    BY <2>1, Zenon DEF Flags, IInv, TypeOK
  <2>3. Covers(file', toured') /\ file' \in Table /\ toured' \in Table
    <3>1. /\ \A s \in Sources : Nothing[s] <= table[s]
          /\ table \in Table /\ Nothing \in Table
      BY NothingType, Entries DEF IInv, TypeOK
    <3> QED BY <2>1, <3>1 DEF Covers
  <2>4. \A s \in Sources : heard[s] > 0 => Answered(s)
    BY <1>1, NothingType DEF IInv, NothingForgotten
  <2>5. ConvergedMeansQuiet'
    BY <2>1, <2>4 DEF ConvergedMeansQuiet, Answered, Decodes
  <2>6. UnfinishedHasAdded'
    BY <2>1 DEF UnfinishedHasAdded
  <2> QED BY <2>1, <2>2, <2>3, <2>5, <2>6, EndInv
<1> QED BY <1>2, <1>3 DEF HarvestRound

LEMMA ConvergeRoundInv ==
  ASSUME IInv, ConvergeRound
  PROVE  IInv'
<1>1. tool = "converge" /\ RoundOver /\ wanted = Nothing /\ file' = table
  BY DEF ConvergeRound, RoundOver
<1>2. CASE added /\ round < ConvergeRounds /\ NextRound
  BY <1>1, <1>2, NextRoundInv
<1>3. CASE /\ ~added \/ round = ConvergeRounds
           /\ End(IF added THEN "unfinished" ELSE "converged")
           /\ UNCHANGED <<toured, refused>>
  <2>1. /\ tool' = "none" /\ UNCHANGED <<rom, shipped, work>>
        /\ UNCHANGED <<table, wanted, heard, added, refused, toured>>
        /\ outcome' = IF added THEN "unfinished" ELSE "converged"
    BY <1>3 DEF End, work
  <2>2. Flags'
    BY <1>3, <2>1, Zenon DEF Flags, IInv, TypeOK
  <2>3. Covers(file', toured') /\ file' \in Table /\ toured' \in Table
    <3>1. \A s \in Sources : /\ toured[s] <= file[s] /\ file[s] <= table[s]
                             /\ toured[s] \in Nat /\ file[s] \in Nat /\ table[s] \in Nat
      BY <1>1, Entries DEF IInv, ToursStayCovered, OnlyAdds, Covers
    <3> QED BY <1>1, <2>1, <3>1 DEF IInv, TypeOK, Covers
  <2>4. \A s \in Sources : heard[s] > 0 => Answered(s)
    BY <1>1, NothingType DEF IInv, NothingForgotten
  <2>5. ConvergedMeansQuiet'
    BY <1>1, <2>1, <2>4 DEF ConvergedMeansQuiet, Answered, Decodes
  <2>6. UnfinishedHasAdded'
    <3> SUFFICES ASSUME outcome' = "unfinished"
                 PROVE  Cardinality(Present(table)) >= ConvergeRounds
      BY <1>1 DEF UnfinishedHasAdded, Present
    <3>1. added
      BY <2>1
    <3> QED BY <1>1, <1>3, <3>1 DEF IInv, RoundsPaidFor
  <2> QED BY <2>1, <2>2, <2>3, <2>5, <2>6, EndInv
<1> QED BY <1>2, <1>3 DEF ConvergeRound

LEMMA TourRoundInv ==
  ASSUME IInv, TourRound
  PROVE  IInv'
<1> DEFINE told == [s \in Sources |->
                      IF heard[s] > 0 /\ Decodes(s, heard[s]) THEN heard[s] ELSE 0]
<1>1. /\ tool = "tour" /\ wanted = Nothing /\ file' = table /\ toured' = Larger(toured, told)
      /\ tool' = "none" /\ outcome' = "done"
      /\ UNCHANGED <<rom, shipped, work>> /\ UNCHANGED refused
      /\ UNCHANGED added
  BY DEF TourRound, RoundOver, End, work
<1>2. /\ told \in Table
      /\ \A s \in Sources :
           told[s] = IF heard[s] > 0 /\ Decodes(s, heard[s]) THEN heard[s] ELSE 0
  BY Entries, LengthAssumption DEF IInv, Table
<1> HIDE DEF told
<1>3. Flags'
  BY <1>1, Zenon DEF Flags, IInv, TypeOK
<1>4. /\ Larger(toured, told) \in Table
      /\ \A s \in Sources :
           Larger(toured, told)[s] = IF toured[s] < told[s] THEN told[s] ELSE toured[s]
  BY <1>2, LargerFacts DEF IInv, TypeOK
<1>5. \A s \in Sources : told[s] <= table[s]
  <2> SUFFICES ASSUME NEW s \in Sources PROVE told[s] <= table[s]
    OBVIOUS
  <2>1. wanted[s] = 0 /\ (wanted[s] = heard[s] \/ WorkedOff(s)) /\ table[s] \in Nat
    BY <1>1, NothingType, Entries DEF IInv, TourWorksOff
  <2> QED BY <1>2, <2>1 DEF WorkedOff
<1>6. \A s \in Sources : toured[s] <= table[s]
  BY <1>1, Entries DEF IInv, ToursStayCovered, OnlyAdds, Covers
<1>7. Covers(file', toured') /\ file' \in Table /\ toured' \in Table
  BY <1>1, <1>4, <1>5, <1>6 DEF IInv, TypeOK, Covers
<1>8. (ConvergedMeansQuiet /\ UnfinishedHasAdded)'
  BY <1>1 DEF ConvergedMeansQuiet, UnfinishedHasAdded
<1> QED BY <1>1, <1>3, <1>7, <1>8, EndInv

LEMMA AbortInv ==
  ASSUME IInv, Abort
  PROVE  IInv'
<1>1. /\ tool' = "none" /\ outcome' = "aborted" /\ UNCHANGED <<rom, shipped, work>>
      /\ UNCHANGED <<file, toured, added, refused>>
  BY DEF Abort, work
<1>2. Flags'
  BY <1>1, Zenon DEF Flags, IInv, TypeOK
<1>3. Covers(file', toured') /\ file' \in Table /\ toured' \in Table
  BY <1>1 DEF IInv, TypeOK, ToursStayCovered
<1>4. (ConvergedMeansQuiet /\ UnfinishedHasAdded)'
  BY <1>1 DEF ConvergedMeansQuiet, UnfinishedHasAdded
<1> QED BY <1>1, <1>2, <1>3, <1>4, EndInv

LEMMA IdleInv ==
  ASSUME IInv, UNCHANGED vars
  PROVE  IInv'
<1>1. /\ UNCHANGED <<rom, shipped, file, tool, outcome, toured, refused>>
      /\ UNCHANGED <<table, round, runs, wanted, added, heard>>
  BY DEF vars, work
<1> QED
  BY <1>1, Zenon DEF IInv, TypeOK, Flags, WantedWasHeard, OnlyAdds, WantedIsNew, TourWorksOff,
     WorkedOff, NothingForgotten, Answered, RoundsPaidFor, ToursStayCovered,
     ConvergedMeansQuiet, UnfinishedHasAdded, Covers, Present, Decodes

LEMMA StepInv == IInv /\ [Next]_vars => IInv'
<1> SUFFICES ASSUME IInv, [Next]_vars PROVE IInv'
  OBVIOUS
<1>1. CASE StartHarvest
  BY <1>1, StartInv DEF StartHarvest
<1>2. CASE StartConverge
  BY <1>2, StartInv DEF StartConverge
<1>3. CASE StartTour
  BY <1>3, StartInv DEF StartTour
<1>4. ASSUME NEW w \in Reports, Run(w) PROVE IInv'
  BY <1>4, RunInv
<1>5. ASSUME NEW s \in Sources, HarvestRequest(s) PROVE IInv'
  BY <1>5, HarvestRequestInv
<1>6. ASSUME NEW s \in Sources, ConvergeRequest(s) PROVE IInv'
  BY <1>6, ConvergeRequestInv
<1>7. ASSUME NEW s \in Sources, TourRequest(s) PROVE IInv'
  BY <1>7, TourRequestInv
<1>8. CASE HarvestRound
  BY <1>8, HarvestRoundInv
<1>9. CASE ConvergeRound
  BY <1>9, ConvergeRoundInv
<1>10. CASE TourRound
  BY <1>10, TourRoundInv
<1>11. CASE Abort
  BY <1>11, AbortInv
<1>12. CASE UNCHANGED vars
  BY <1>12, IdleInv
<1> QED
  BY <1>1, <1>2, <1>3, <1>4, <1>5, <1>6, <1>7, <1>8, <1>9, <1>10, <1>11, <1>12
     DEF Next, Working

LEMMA Invariance == Spec => []IInv
BY InitInv, StepInv, PTL DEF Spec

(* Once a tour has finished, the file covers what it decoded, whatever     *)
(* converge and other tours do to it and whoever is aborted, until a       *)
(* harvest writes its own table.                                           *)
THEOREM ToursAreKept == Spec => []ToursStayCovered
<1>1. IInv => ToursStayCovered
  BY DEF IInv
<1> QED BY <1>1, Invariance, PTL

(* A search that says it converged left no address its last iteration      *)
(* asked for out, save those that do not decode and those absorb refused   *)
(* in that iteration.                                                      *)
THEOREM ConvergedSearchesAreQuiet == Spec => []ConvergedMeansQuiet
<1>1. IInv => ConvergedMeansQuiet
  BY DEF IInv
<1> QED BY <1>1, Invariance, PTL

(* converge out of iterations has found an address in every one of them,   *)
(* for any bound on them, any ROM and any requests.                        *)
THEOREM OutOfRoundsHasAdded == Spec => []UnfinishedHasAdded
<1>1. IInv => UnfinishedHasAdded
  BY DEF IInv
<1> QED BY <1>1, Invariance, PTL

-----------------------------------------------------------------------------
(* How harvest makes room.                                                 *)

LEMMA MakesRoom ==
  ASSUME IInv, NEW q \in Sources, HarvestRequest(q), NEW s \in Sources,
         table'[s] > table[s]
  PROVE  Overlapping(table', s) = {}
<1> DEFINE u == Absorb(table, q, wanted[q])
<1>1. /\ wanted[q] \in 1 .. MaxLength /\ wanted'[q] = 0 /\ rom' = rom
      /\ \A o \in Sources : table[o] \in Nat
      /\ q \in Nat /\ s \in Nat
  <2>1. Request(q) /\ wanted' = [wanted EXCEPT ![q] = 0] /\ rom' = rom
    BY DEF HarvestRequest
  <2>2. wanted[q] \in 1 .. MaxLength /\ wanted'[q] = 0
    BY <2>1, RequestFacts
  <2> QED BY <2>1, <2>2, Entries, SourcesAssumption DEF IInv
<1>2. /\ u \in Table
      /\ \A o \in Sources : o # q /\ u[o] # table[o] =>
           o < q /\ u[o] > 0 /\ u[o] < table[o] /\ CompressedEnd(o, u[o]) = q
      /\ u[q] >= table[q]
      /\ Untrimmable(table, q) # {} => u[q] = table[q]
      /\ Untrimmable(table, q) = {} => \A o \in Overlapping(table, q) : CompressedEnd(o, u[o]) = q
  <2>1. rom \in Roms /\ table \in Table
    BY DEF IInv, TypeOK
  <2> QED BY <1>1, <2>1, AbsorbFacts
<1>3. table' = table \/ table' = u
  BY DEF HarvestRequest
<1> HIDE DEF u
<1>4. \A o \in Sources : u[o] \in Nat
  BY <1>2, EntryType
<1>5. table' = u /\ s = q /\ Untrimmable(table, q) = {}
  BY <1>1, <1>2, <1>3, <1>4
<1>6. ASSUME NEW o \in Overlapping(u, q) PROVE FALSE
  <2>1. o \in Sources /\ u[o] > 0 /\ o < q /\ q < CompressedEnd(o, u[o]) /\ o # q
    BY <1>1, <1>6, SourcesAssumption DEF Overlapping
  <2>2. u[o] = table[o]
    BY <1>1, <1>2, <2>1
  <2>3. o \in Overlapping(table, q)
    BY <2>1, <2>2 DEF Overlapping
  <2> QED BY <1>1, <1>2, <1>5, <2>1, <2>3
<1> QED BY <1>5, <1>6

(* For any ROM and any table: whatever harvest adds or lengthens, no       *)
(* stream below it that the table has runs over it, however many did.      *)
THEOREM HarvestClearsTheWay == Spec => HarvestMakesRoom
<1> DEFINE Clears ==
      tool = "harvest" /\ tool' = "harvest" =>
        \A s \in Sources : table'[s] > table[s] => Overlapping(table', s) = {}
<1>1. IInv /\ [Next]_vars => [Clears]_vars
  <2> SUFFICES ASSUME IInv, Next, tool = "harvest", tool' = "harvest", NEW s \in Sources,
                      table'[s] > table[s]
               PROVE  Overlapping(table', s) = {}
    BY DEF vars
  <2>1. CASE \E q \in Sources : HarvestRequest(q)
    BY <2>1, MakesRoom
  <2>2. CASE table' = table
    <3>1. table[s] \in Nat
      BY Entries DEF IInv
    <3> QED BY <2>2, <3>1
  <2>3. (\E q \in Sources : HarvestRequest(q)) \/ table' = table
    BY DEF Next, Working, StartHarvest, StartConverge, StartTour, Start, Run, ConvergeRequest,
       TourRequest, HarvestRound, ConvergeRound, TourRound, NextRound, End, work, Abort
  <2> QED BY <2>1, <2>2, <2>3
<1>2. Spec => [][Clears]_vars
  BY <1>1, Invariance, PTL DEF Spec
<1> QED BY <1>2 DEF HarvestMakesRoom
=============================================================================
