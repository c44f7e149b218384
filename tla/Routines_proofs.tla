--------------------------- MODULE Routines_proofs ---------------------------
(* Three short routines of the assembly, each on its own.  cpu_third: for  *)
(* every register width and every number of terms, the division by three   *)
(* never leaves the register's range and returns the exact third.          *)
(* prefight_table: whatever the frame handler leaves in the channel and    *)
(* whenever it runs, the transfer the routine starts is the table's, and   *)
(* the caller's flags come back.  repeat_load: for any lists, any room for *)
(* groups and any order of calls, with or without resets and stray writes, *)
(* no group lands in the list in use; on a console that is not reset, and  *)
(* whose marker id nobody else writes, the marker that is believed is true,*)
(* and where no stray write meets it every upload makes it so and every    *)
(* repeat is recognised.                                                   *)
EXTENDS CpuThird, PrefightDma, RepeatLoad, TLAPS

-----------------------------------------------------------------------------
(* cpu_third.                                                              *)

\* What the steps preserve: the types, and a series that never overshoots.
ThirdInv == TypeOK /\ NeverOver /\ (pc = "term" => left > 0) /\ ExactThird

\* A quarter is a natural number no larger than a quarter of what it divides.
LEMMA QuarterFits ==
  ASSUME NEW v \in Nat
  PROVE  Quarter(v) \in Nat /\ 4 * Quarter(v) <= v
BY DEF Quarter

\* Adding within the register's range does not wrap.
LEMMA NoWrap ==
  ASSUME NEW v \in Nat, v < Word
  PROVE  v % Word = v
BY WordAssumption

\* The first term alone: a quarter counted three times and once more is within the value.
LEMMA ThirdInitInv == Init => ThirdInv
<1> SUFFICES ASSUME Init PROVE ThirdInv
  OBVIOUS
<1>1. value \in 0 .. Word - 1 /\ quo = value \div 4 /\ term = value \div 4
  BY DEF Init
<1>2. quo \in Nat /\ term \in Nat /\ 3 * quo + term <= value
  BY <1>1, WordAssumption
<1>3. TypeOK
  BY <1>1, <1>2, WordAssumption, QuartersAssumption DEF Init, TypeOK
<1>4. NeverOver /\ (pc = "term" => left > 0)
  BY <1>2, QuartersAssumption DEF Init, NeverOver
<1>5. ExactThird
  BY DEF Init, ExactThird
<1> QED BY <1>3, <1>4, <1>5 DEF ThirdInv

\* One more term keeps three quotients and the term within the value.
LEMMA TermInv == ThirdInv /\ Term => ThirdInv'
<1> SUFFICES ASSUME ThirdInv, Term PROVE ThirdInv'
  OBVIOUS
<1> DEFINE t == Quarter(term)
<1>1. /\ value \in Nat /\ value < Word /\ quo \in Nat /\ term \in Nat
      /\ 3 * quo + term <= value
  BY WordAssumption DEF ThirdInv, TypeOK, NeverOver, Term
<1>2. t \in Nat /\ 4 * t <= term
  BY <1>1, QuarterFits
<1>3. 3 * (quo + t) + t <= value
  BY <1>1, <1>2
<1> HIDE DEF t
<1>4. quo + t \in Nat /\ quo + t < Word /\ t < Word
  BY <1>1, <1>2, <1>3, WordAssumption
<1>5. term' = t /\ quo' = quo + t
  BY <1>4, NoWrap DEF Term, t
<1>6. left' = left - 1 /\ value' = value /\ pc = "term"
      /\ pc' = IF left = 1 THEN "correct" ELSE "term"
  BY DEF Term
<1>7. left \in 0 .. Quarters /\ left > 0
  BY <1>6 DEF ThirdInv, TypeOK
<1>8. left' \in 0 .. Quarters /\ (pc' = "term" => left' > 0)
  BY <1>6, <1>7, QuartersAssumption
<1>9. TypeOK'
  BY <1>1, <1>2, <1>4, <1>5, <1>6, <1>8, WordAssumption DEF TypeOK
<1>10. NeverOver'
  BY <1>2, <1>3, <1>4, <1>5, <1>6, <1>1 DEF NeverOver
<1>11. ExactThird'
  BY <1>6 DEF ExactThird
<1> QED BY <1>8, <1>9, <1>10, <1>11 DEF ThirdInv

\* What is left is the true remainder, because nothing has overshot.
LEMMA TrueRemainder ==
  ASSUME TypeOK, NeverOver
  PROVE  Remainder = value - 3 * quo /\ Remainder \in Nat
<1>1. value \in Nat /\ value < Word /\ quo \in Nat /\ 3 * quo <= value
  BY WordAssumption DEF TypeOK, NeverOver
<1>2. value - 3 * quo \in Nat /\ value - 3 * quo < Word
  BY <1>1, WordAssumption
<1> QED BY <1>2, NoWrap DEF Remainder

\* A pass of the correction loop adds one only while three or more are left, so
\* it never overshoots, and it stops at the exact third.
LEMMA CorrectInv == ThirdInv /\ Correct => ThirdInv'
<1> SUFFICES ASSUME ThirdInv, Correct PROVE ThirdInv'
  OBVIOUS
<1>1. /\ value \in Nat /\ value < Word /\ quo \in Nat /\ 3 * quo <= value
      /\ term \in 0 .. Word - 1 /\ left \in 0 .. Quarters
  BY WordAssumption DEF ThirdInv, TypeOK, NeverOver
<1>2. Remainder = value - 3 * quo /\ Remainder \in Nat
  BY TrueRemainder DEF ThirdInv
<1>3. value' = value /\ term' = term /\ left' = left /\ pc = "correct"
  BY DEF Correct
<1>4. CASE Remainder >= 3 /\ quo' = (quo + 1) % Word /\ UNCHANGED pc
  <2>1. quo + 1 \in Nat /\ quo + 1 < Word /\ 3 * (quo + 1) <= value
    BY <1>1, <1>2, <1>4, WordAssumption
  <2>2. quo' = quo + 1
    BY <1>4, <2>1, NoWrap
  <2>3. pc' = "correct"
    BY <1>3, <1>4
  <2> QED
    BY <1>1, <1>3, <2>1, <2>2, <2>3, WordAssumption
    DEF ThirdInv, TypeOK, NeverOver, ExactThird
<1>5. CASE Remainder < 3 /\ pc' = "exact" /\ UNCHANGED quo
  <2>1. quo = value \div 3
    BY <1>1, <1>2, <1>5
  <2> QED
    BY <1>1, <1>3, <1>5, <2>1, WordAssumption
    DEF ThirdInv, TypeOK, NeverOver, ExactThird
<1> QED BY <1>4, <1>5 DEF Correct

\* The strengthened invariant holds throughout.
LEMMA ThirdInvariance == Spec => []ThirdInv
<1>1. ThirdInv /\ [Next]_vars => ThirdInv'
  <2> SUFFICES ASSUME ThirdInv, [Next]_vars PROVE ThirdInv'
    OBVIOUS
  <2>1. CASE UNCHANGED vars
    BY <2>1 DEF vars, ThirdInv, TypeOK, NeverOver, ExactThird
  <2> QED BY <2>1, TermInv, CorrectInv DEF Next
<1> QED BY ThirdInitInv, <1>1, PTL DEF Spec

\* Every register of the routine stays within its width.
THEOREM ThirdTypes == Spec => []TypeOK
<1>1. ThirdInv => TypeOK BY DEF ThirdInv
<1> QED BY ThirdInvariance, <1>1, PTL

\* No addition of the series carries and no subtraction borrows.
THEOREM ThirdNeverOver == Spec => []NeverOver
<1>1. ThirdInv => NeverOver BY DEF ThirdInv
<1> QED BY ThirdInvariance, <1>1, PTL

\* cpu_third returns exactly a third of every value a register can hold.
THEOREM ThirdIsExact == Spec => []ExactThird
<1>1. ThirdInv => ExactThird BY DEF ThirdInv
<1> QED BY ThirdInvariance, <1>1, PTL

-----------------------------------------------------------------------------
(* prefight_table.                                                         *)

\* The registers stored when the routine stands at a point.
Stored(p) ==
  {reg \in Registers :
     \/ p \in {"wram bank", "parameters", "b bus", "source bank", "source",
               "length", "enable"} /\ reg = "wram"
     \/ p \in {"parameters", "b bus", "source bank", "source", "length", "enable"}
        /\ reg = "wram bank"
     \/ p \in {"b bus", "source bank", "source", "length", "enable"}
        /\ reg = "parameters"
     \/ p \in {"source bank", "source", "length", "enable"} /\ reg = "b bus"
     \/ p \in {"source", "length", "enable"} /\ reg = "source bank"
     \/ p \in {"length", "enable"} /\ reg = "source"
     \/ p = "enable" /\ reg = "length"}

\* What has been stored stands, because no frame is let in from the disable on.
StoresStand ==
  /\ point \notin {"php", "sei", "rtl"} => flags.i
  /\ point # "plp" => \A reg \in Stored(point) : dma[reg] = Table[reg]

\* The caller's flags are on the stack or in the processor.
FlagsKept ==
  IF point \in {"php", "rtl"} THEN flags = entered ELSE pushed = entered

DmaInv == DmaTypeOK /\ StoresStand /\ FlagsKept /\ TableMoves

\* The registers the table is moved with are among the values of a register.
LEMMA TableType == Table \in [Registers -> Values]
<1>1. Table = [reg \in Registers |-> Table[reg]]
  BY DEF Table
<1>2. \A reg \in Registers : Table[reg] \in Values
  BY DEF Values
<1> QED BY <1>1, <1>2

\* Changing the width of the accumulator leaves the interrupt flag alone.
LEMMA Widened ==
  ASSUME NEW m8 \in BOOLEAN, flags \in Flags, Widen(m8)
  PROVE  flags' \in Flags /\ flags'.i = flags.i
BY DEF Widen, Flags

LEMMA DmaInitInv == DmaInit => DmaInv
<1> SUFFICES ASSUME DmaInit PROVE DmaInv
  OBVIOUS
<1>1. PICK f \in Foreign : dma = [reg \in Registers |-> f]
  BY DEF DmaInit
<1>2. f \in Values
  BY DEF Values
<1>3. dma \in [Registers -> Values]
  BY <1>1, <1>2
<1>4. DmaTypeOK
  BY <1>3, TableType DEF DmaInit, DmaTypeOK, Points
<1>5. StoresStand
  BY DEF DmaInit, StoresStand, Stored
<1>6. FlagsKept /\ TableMoves
  BY DEF DmaInit, FlagsKept, TableMoves
<1> QED BY <1>4, <1>5, <1>6 DEF DmaInv

\* One more register stored: those before it keep their values.
LEMMA StoreInv ==
  ASSUME DmaInv,
         NEW from \in Points, NEW to \in Points,
         NEW regs \in SUBSET Registers, NEW m8 \in BOOLEAN,
         StoreStep(from, to, regs, m8),
         from \notin {"php", "sei", "plp", "rtl"},
         to \notin {"php", "sei", "plp", "rtl"},
         Stored(to) \subseteq Stored(from) \union regs
  PROVE  DmaInv'
<1>1. point = from /\ point' = to /\ Widen(m8)
  BY DEF StoreStep, Goto
<1>2. /\ pushed' = pushed /\ pending' = pending
      /\ moved' = moved /\ entered' = entered
  BY DEF StoreStep
<1>3. dma' = [reg \in Registers |-> IF reg \in regs THEN Table[reg] ELSE dma[reg]]
  BY DEF StoreStep
<1>4. flags' \in Flags /\ flags'.i = flags.i /\ flags.i
  BY <1>1, Widened DEF DmaInv, DmaTypeOK, StoresStand
<1>5. dma' \in [Registers -> Values]
  BY <1>3, TableType DEF DmaInv, DmaTypeOK
<1>6. DmaTypeOK'
  BY <1>1, <1>2, <1>4, <1>5 DEF DmaInv, DmaTypeOK
<1>7. ASSUME NEW reg \in Stored(to) PROVE dma'[reg] = Table[reg]
  <2>1. reg \in Registers
    BY DEF Stored
  <2>2. CASE reg \in regs
    BY <1>3, <2>1, <2>2
  <2>3. CASE reg \notin regs
    <3>1. reg \in Stored(from)
      BY <2>3
    <3>2. dma[reg] = Table[reg]
      BY <3>1, <1>1 DEF DmaInv, StoresStand
    <3> QED BY <3>2, <1>3, <2>1, <2>3
  <2> QED BY <2>2, <2>3
<1>8. StoresStand'
  BY <1>1, <1>4, <1>7 DEF StoresStand
<1>9. FlagsKept' /\ TableMoves'
  BY <1>1, <1>2 DEF DmaInv, FlagsKept, TableMoves
<1> QED BY <1>6, <1>8, <1>9 DEF DmaInv

\* Saving the flags, and shutting the frame out.
LEMMA ShutInv == DmaInv /\ (Php \/ Sei) => DmaInv'
<1> SUFFICES ASSUME DmaInv, Php \/ Sei PROVE DmaInv'
  OBVIOUS
<1>1. CASE Php
  <2>1. /\ point = "php" /\ point' = "sei" /\ pushed' = flags /\ flags' = flags
        /\ pending' = pending /\ entered' = entered /\ dma' = dma /\ moved' = moved
    BY <1>1 DEF Php, Goto, NoStore
  <2>2. DmaTypeOK'
    BY <2>1 DEF DmaInv, DmaTypeOK, Points
  <2>3. StoresStand'
    BY <2>1 DEF StoresStand, Stored
  <2>4. FlagsKept' /\ TableMoves'
    BY <2>1 DEF DmaInv, FlagsKept, TableMoves
  <2> QED BY <2>2, <2>3, <2>4 DEF DmaInv
<1>2. CASE Sei
  <2>1. /\ point = "sei" /\ point' = "wram" /\ pushed' = pushed
        /\ flags' = [flags EXCEPT !.m = FALSE, !.x = FALSE, !.i = TRUE]
        /\ pending' = pending /\ entered' = entered /\ dma' = dma /\ moved' = moved
    BY <1>2 DEF Sei, Goto, NoStore
  <2>2. flags' \in Flags /\ flags'.i
    BY <2>1 DEF DmaInv, DmaTypeOK, Flags
  <2>3. DmaTypeOK'
    BY <2>1, <2>2 DEF DmaInv, DmaTypeOK, Points
  <2>4. StoresStand'
    BY <2>1, <2>2 DEF StoresStand, Stored
  <2>5. FlagsKept' /\ TableMoves'
    BY <2>1 DEF DmaInv, FlagsKept, TableMoves
  <2> QED BY <2>3, <2>4, <2>5 DEF DmaInv
<1> QED BY <1>1, <1>2

\* Every register has been stored when the transfer starts.
LEMMA EnableInv == DmaInv /\ Enable => DmaInv'
<1> SUFFICES ASSUME DmaInv, Enable PROVE DmaInv'
  OBVIOUS
<1>1. /\ point = "enable" /\ point' = "plp" /\ moved' = dma
      /\ flags' = flags /\ pushed' = pushed /\ dma' = dma
      /\ pending' = pending /\ entered' = entered
  BY DEF Enable, Goto
<1>2. \A reg \in Registers : reg \in Stored("enable")
  BY DEF Stored, Registers
<1>3. \A reg \in Registers : dma[reg] = Table[reg]
  BY <1>1, <1>2 DEF DmaInv, StoresStand
<1>4. dma = Table
  BY <1>3, TableType DEF DmaInv, DmaTypeOK
<1>5. DmaTypeOK'
  BY <1>1 DEF DmaInv, DmaTypeOK, Points
<1>6. StoresStand'
  BY <1>1 DEF DmaInv, StoresStand
<1>7. FlagsKept' /\ TableMoves'
  BY <1>1, <1>4 DEF DmaInv, FlagsKept, TableMoves
<1> QED BY <1>5, <1>6, <1>7 DEF DmaInv

\* The caller's flags come back, and the caller calls again with any.
LEMMA ReturnInv == DmaInv /\ (Plp \/ CallPrefight) => DmaInv'
<1> SUFFICES ASSUME DmaInv, Plp \/ CallPrefight PROVE DmaInv'
  OBVIOUS
<1>1. CASE Plp
  <2>1. /\ point = "plp" /\ point' = "rtl" /\ flags' = pushed /\ pushed' = pushed
        /\ pending' = pending /\ entered' = entered /\ dma' = dma /\ moved' = moved
    BY <1>1 DEF Plp, Goto, NoStore
  <2>2. DmaTypeOK'
    BY <2>1 DEF DmaInv, DmaTypeOK, Points
  <2>3. StoresStand'
    BY <2>1 DEF StoresStand, Stored
  <2>4. FlagsKept' /\ TableMoves'
    BY <2>1 DEF DmaInv, FlagsKept, TableMoves
  <2> QED BY <2>2, <2>3, <2>4 DEF DmaInv
<1>2. CASE CallPrefight
  <2>1. /\ point = "rtl" /\ point' = "php" /\ flags' \in Flags /\ entered' = flags'
        /\ pushed' = pushed /\ pending' = pending /\ dma' = dma /\ moved' = moved
    BY <1>2 DEF CallPrefight, Goto, NoStore
  <2>2. DmaTypeOK'
    BY <2>1 DEF DmaInv, DmaTypeOK, Points
  <2>3. StoresStand'
    BY <2>1 DEF StoresStand, Stored
  <2>4. FlagsKept' /\ TableMoves'
    BY <2>1 DEF DmaInv, FlagsKept, TableMoves
  <2> QED BY <2>2, <2>3, <2>4 DEF DmaInv
<1> QED BY <1>1, <1>2

\* A frame gets in only where nothing has been stored or nothing is needed.
LEMMA FrameInv == DmaInv /\ (Frame \/ Raise) => DmaInv'
<1> SUFFICES ASSUME DmaInv, Frame \/ Raise PROVE DmaInv'
  OBVIOUS
<1>1. CASE Frame
  <2>1. /\ ~flags.i /\ pending' = FALSE /\ point' = point /\ flags' = flags
        /\ pushed' = pushed /\ moved' = moved /\ entered' = entered
    BY <1>1 DEF Frame
  <2>2. PICK f \in Foreign : dma' = [reg \in Registers |-> f]
    BY <1>1 DEF Frame
  <2>3. dma' \in [Registers -> Values]
    BY <2>2 DEF Values
  <2>4. point \in {"php", "sei", "rtl"}
    BY <2>1 DEF DmaInv, StoresStand
  <2>5. DmaTypeOK'
    BY <2>1, <2>3 DEF DmaInv, DmaTypeOK
  <2>6. StoresStand'
    BY <2>1, <2>4 DEF StoresStand, Stored
  <2>7. FlagsKept' /\ TableMoves'
    BY <2>1 DEF DmaInv, FlagsKept, TableMoves
  <2> QED BY <2>5, <2>6, <2>7 DEF DmaInv
<1>2. CASE Raise
  <2>1. /\ pending' = TRUE /\ point' = point /\ flags' = flags /\ dma' = dma
        /\ pushed' = pushed /\ moved' = moved /\ entered' = entered
    BY <1>2 DEF Raise
  <2>2. DmaTypeOK'
    BY <2>1 DEF DmaInv, DmaTypeOK
  <2>3. StoresStand' /\ FlagsKept' /\ TableMoves'
    BY <2>1 DEF DmaInv, StoresStand, FlagsKept, TableMoves
  <2> QED BY <2>2, <2>3 DEF DmaInv
<1> QED BY <1>1, <1>2

LEMMA DmaStepInv == DmaInv /\ [DmaNext]_dmaVars => DmaInv'
<1> SUFFICES ASSUME DmaInv, [DmaNext]_dmaVars PROVE DmaInv'
  OBVIOUS
<1>1. CASE Php \/ Sei
  BY <1>1, ShutInv
<1>2. CASE WramAddress
  <2>1. Stored("wram bank") \subseteq Stored("wram") \union {"wram"}
    BY DEF Stored
  <2> QED BY <1>2, <2>1, StoreInv DEF WramAddress, Points, Registers
<1>3. CASE WramBank
  <2>1. Stored("parameters") \subseteq Stored("wram bank") \union {"wram bank"}
    BY DEF Stored
  <2> QED BY <1>3, <2>1, StoreInv DEF WramBank, Points, Registers
<1>4. CASE Parameters
  <2>1. Stored("b bus") \subseteq Stored("parameters") \union {"parameters"}
    BY DEF Stored
  <2> QED BY <1>4, <2>1, StoreInv DEF Parameters, Points, Registers
<1>5. CASE BBus
  <2>1. Stored("source bank") \subseteq Stored("b bus") \union {"b bus"}
    BY DEF Stored
  <2> QED BY <1>5, <2>1, StoreInv DEF BBus, Points, Registers
<1>6. CASE SourceBank
  <2>1. Stored("source") \subseteq Stored("source bank") \union {"source bank"}
    BY DEF Stored
  <2> QED BY <1>6, <2>1, StoreInv DEF SourceBank, Points, Registers
<1>7. CASE Source
  <2>1. Stored("length") \subseteq Stored("source") \union {"source"}
    BY DEF Stored
  <2> QED BY <1>7, <2>1, StoreInv DEF Source, Points, Registers
<1>8. CASE Length
  <2>1. Stored("enable") \subseteq Stored("length") \union {"length"}
    BY DEF Stored
  <2> QED BY <1>8, <2>1, StoreInv DEF Length, Points, Registers
<1>9. CASE Enable
  BY <1>9, EnableInv
<1>10. CASE Plp \/ CallPrefight
  BY <1>10, ReturnInv
<1>11. CASE Frame \/ Raise
  BY <1>11, FrameInv
<1>12. CASE UNCHANGED dmaVars
  BY <1>12 DEF dmaVars, DmaInv, DmaTypeOK, StoresStand, FlagsKept, TableMoves
<1> QED
  BY <1>1, <1>2, <1>3, <1>4, <1>5, <1>6, <1>7, <1>8, <1>9, <1>10, <1>11, <1>12
  DEF DmaNext, DmaRoutine

LEMMA DmaInvariance == DmaSpec => []DmaInv
BY DmaInitInv, DmaStepInv, PTL DEF DmaSpec

\* Types of the routine's state, whatever the frame handler leaves behind.
THEOREM PrefightTypes == DmaSpec => []DmaTypeOK
<1>1. DmaInv => DmaTypeOK
  BY DEF DmaInv
<1> QED BY <1>1, DmaInvariance, PTL

\* Every transfer the routine starts is the table's, whenever a frame falls.
THEOREM TableAlwaysMoves == DmaSpec => []TableMoves
<1>1. DmaInv => TableMoves
  BY DEF DmaInv
<1> QED BY <1>1, DmaInvariance, PTL

\* The caller gets its widths and its interrupt state back.
THEOREM CallerFlagsComeBack == DmaSpec => []CallerStateRestored
<1>1. DmaInv => CallerStateRestored
  BY DEF DmaInv, FlagsKept, CallerStateRestored
<1> QED BY <1>1, DmaInvariance, PTL

-----------------------------------------------------------------------------
(* repeat_load.                                                            *)

\* The id has been taken from the engine's stack and not yet zeroed.
Holding == {"magic_low", "magic_high", "marker_id", "skip", "remember",
            "set_low", "set_high"}

BaseInv ==
  /\ LoadTypeOK
  /\ stage \in Holding => kept = id /\ id \in Ids
  /\ saved # NOTHING => \E l \in Ids : saved = ListEnd[l]
  /\ \A c \in Cells : c < saved => aram[c] # GROUP
  /\ stage = "list" => /\ id \in Ids /\ alloc < ListEnd[id]
                    /\ \A c \in Cells : c < alloc => aram[c] = id
  /\ stage = "groups" => alloc >= saved /\ alloc + todo <= Top

\* What the constants say of one list.
LEMMA EndOfList ==
  ASSUME NEW l \in Ids
  PROVE  /\ l \in Nat /\ l # NO_LIST /\ ListEnd[l] \in Nat /\ ListEnd[l] > 0
         /\ Top \in Nat /\ MaxGroup \in Nat
         /\ ListEnd[l] + MaxGroup <= Top
BY IdsAssumption, ListEndAssumption, TopAssumption, RoomAssumption DEF NO_LIST

\* At power-on no list is named and no cell is a group's.
LEMMA BaseInit == LoadInit => BaseInv
<1> SUFFICES ASSUME LoadInit PROVE BaseInv
  OBVIOUS
<1>1. Top \in Nat /\ MaxGroup \in Nat
  BY TopAssumption
<1>2. aram \in [Cells -> Ids \union {NOTHING, GROUP}] /\ \A c \in Cells : aram[c] = NOTHING
  BY DEF LoadInit
<1>3. LoadTypeOK
  BY <1>1, <1>2 DEF LoadInit, LoadTypeOK
<1>4. \A c \in Cells : aram[c] # GROUP
  BY <1>2 DEF NOTHING, GROUP
<1> QED BY <1>3, <1>4 DEF LoadInit, BaseInv, Holding

\* The routine's own steps move nothing but the marker and the id.
LEMMA BaseRoutine == BaseInv /\ Routine => BaseInv'
<1> SUFFICES ASSUME BaseInv, Routine PROVE BaseInv'
  OBVIOUS
<1> USE DEF Holding
<1>1. UNCHANGED <<env, alloc, saved, todo, aram>>
  BY DEF Routine, RepeatLoad, Compare, CompareLow, CompareHigh, CompareId, Skip,
         Remember, SetLow, SetHigh
<1>2. LoadTypeOK' /\ (stage' \in Holding => kept' = id' /\ id' \in Ids)
      /\ stage' # "list" /\ stage' # "groups"
  <2> USE DEF BaseInv, LoadTypeOK, RoutineSteps
  <2>0. MAGIC_LOW \in {MAGIC_LOW, GARBAGE} /\ MAGIC_HIGH \in {MAGIC_HIGH, GARBAGE}
    OBVIOUS
  <2>1. CASE RepeatLoad
    BY <1>1, <2>1 DEF RepeatLoad
  <2>2. CASE CompareLow \/ CompareHigh \/ CompareId
    BY <1>1, <2>2 DEF Compare, CompareLow, CompareHigh, CompareId
  <2>3. CASE Skip
    BY <1>1, <2>3 DEF Skip
  <2>4. CASE Remember
    <3>1. kept \in Ids
      BY <2>4 DEF Remember
    <3>2. marker' \in Markers
      BY <2>4, <3>1 DEF Remember, Markers
    <3> QED BY <1>1, <2>4, <3>2 DEF Remember
  <2>5. CASE SetLow
    <3>1. marker' \in Markers
      BY <2>5 DEF SetLow, Markers
    <3> QED BY <1>1, <2>5, <3>1 DEF SetLow
  <2>6. CASE SetHigh
    <3>1. marker' \in Markers
      BY <2>6 DEF SetHigh, Markers
    <3> QED BY <1>1, <2>6, <3>1 DEF SetHigh
  <2> QED BY <2>1, <2>2, <2>3, <2>4, <2>5, <2>6 DEF Routine
<1> QED BY <1>1, <1>2 DEF BaseInv

\* A call, a reset or a stray write touches neither sound RAM nor the allocator.
LEMMA BaseCall == BaseInv /\ (Call \/ Reset \/ Scribble \/ UNCHANGED loadVars) => BaseInv'
<1> SUFFICES ASSUME BaseInv, Call \/ Reset \/ Scribble \/ UNCHANGED loadVars PROVE BaseInv'
  OBVIOUS
<1>1. UNCHANGED <<env, alloc, saved, aram>>
  BY DEF Call, Reset, Scribble, loadVars
<1>2. CASE Call
  BY <1>1, <1>2 DEF Call, BaseInv, LoadTypeOK, RoutineSteps, Holding
<1>3. CASE Reset
  BY <1>1, <1>3 DEF Reset, BaseInv, LoadTypeOK, Holding
<1>4. CASE Scribble
  <2>1. UNCHANGED <<env, id, kept, stage, alloc, saved, todo, aram>>
    BY <1>4 DEF Scribble
  <2>2. PICK b \in env.scribbled, v \in Ids \union {GARBAGE} :
          (b # "id" => v = GARBAGE) /\ marker' = [marker EXCEPT ![b] = v]
    BY <1>4 DEF Scribble
  <2>3. b \in {"low", "high", "id"}
    BY <2>2, EnvironmentAssumption DEF BaseInv, LoadTypeOK, MarkerBytes
  <2>4. marker' \in Markers
    BY <2>2, <2>3 DEF BaseInv, LoadTypeOK, Markers
  <2>5. LoadTypeOK'
    BY <2>1, <2>4 DEF BaseInv, LoadTypeOK
  <2> QED BY <2>1, <2>5 DEF BaseInv
<1>5. CASE UNCHANGED loadVars
  BY <1>5 DEF loadVars, BaseInv, LoadTypeOK
<1> QED BY <1>2, <1>3, <1>4, <1>5

\* The groups fit above an allocator restored from anywhere.
LEMMA RoomLeft ==
  ASSUME NEW a \in Int, NEW t \in Int, NEW top \in Int, NEW g \in Nat,
         a <= top - g, t <= g
  PROVE  a <= top /\ a + t <= top
OBVIOUS

\* The allocator starts at the bottom, or where the last whole list ended.
LEMMA BaseStart == BaseInv /\ Start => BaseInv'
<1> SUFFICES ASSUME BaseInv, Start PROVE BaseInv'
  OBVIOUS
<1>1. UNCHANGED <<env, marker, id, kept, saved, todo, aram>> /\ stage = "done"
      /\ Top \in Nat /\ MaxGroup \in Nat /\ todo \in 0 .. MaxGroup
      /\ saved \in (0 .. Top) \union {NOTHING}
  BY TopAssumption DEF Start, BaseInv, LoadTypeOK
<1>2. CASE id = NO_LIST
  <2>1. alloc' \in Restored /\ stage' = "groups"
    BY <1>2 DEF Start
  <2>2. alloc' \in 0 .. Top /\ alloc' >= saved /\ alloc' + todo <= Top
    <3>1. CASE saved # NOTHING
      <4>1. PICK l \in Ids : saved = ListEnd[l]
        BY <3>1 DEF BaseInv
      <4>2. alloc' = ListEnd[l] /\ alloc' = saved
        BY <2>1, <3>1, <4>1 DEF Restored
      <4>3. ListEnd[l] \in Nat /\ ListEnd[l] + MaxGroup <= Top
        BY EndOfList
      <4> QED BY <1>1, <4>2, <4>3
    <3>2. CASE saved = NOTHING
      <4>1. alloc' \in 0 .. Top - MaxGroup
        BY <2>1, <3>2 DEF Restored
      <4>2. alloc' \in Int /\ alloc' >= 0 /\ alloc' <= Top - MaxGroup
            /\ todo \in Int /\ todo <= MaxGroup /\ saved \in Int /\ saved <= 0
        BY <1>1, <3>2, <4>1 DEF NOTHING
      <4>3. Top \in Int /\ MaxGroup \in Nat
        BY <1>1
      <4>4. alloc' <= Top /\ alloc' + todo <= Top
        BY <4>2, <4>3, RoomLeft
      <4>5. alloc' \in 0 .. Top /\ alloc' >= saved
        BY <4>2, <4>3, <4>4
      <4> QED BY <4>4, <4>5
    <3> QED BY <3>1, <3>2
  <2> QED BY <1>1, <2>1, <2>2 DEF BaseInv, LoadTypeOK, Holding
<1>3. CASE id # NO_LIST
  <2>1. id \in Ids /\ alloc' = 0 /\ stage' = "list"
    BY <1>3 DEF Start, BaseInv, LoadTypeOK
  <2>2. alloc' \in 0 .. Top /\ alloc' < ListEnd[id]
    BY <1>1, <2>1, EndOfList
  <2>3. \A c \in Cells : ~(c < alloc')
    BY <1>1, <2>1 DEF Cells
  <2> QED BY <1>1, <2>1, <2>2, <2>3 DEF BaseInv, LoadTypeOK, Holding
<1> QED BY <1>2, <1>3

\* A list's bytes fill the cells from the bottom, one after another.
LEMMA ListFills ==
  ASSUME BaseInv, UploadList
  PROVE  /\ id \in Ids /\ alloc \in Cells /\ alloc < ListEnd[id]
         /\ aram' \in [Cells -> Ids \union {NOTHING, GROUP}]
         /\ aram'[alloc] = id
         /\ \A c \in Cells : c # alloc => aram'[c] = aram[c]
         /\ alloc' = alloc + 1 /\ alloc' \in 0 .. Top
         /\ \A c \in Cells : c < alloc' => aram'[c] = id
<1>1. /\ id \in Ids /\ alloc < ListEnd[id] /\ alloc \in 0 .. Top
      /\ aram \in [Cells -> Ids \union {NOTHING, GROUP}]
      /\ \A c \in Cells : c < alloc => aram[c] = id
      /\ aram' = [aram EXCEPT ![alloc] = id] /\ alloc' = alloc + 1
  BY DEF UploadList, BaseInv, LoadTypeOK
<1>2. alloc \in Cells /\ alloc + 1 \in 0 .. Top
  BY <1>1, EndOfList DEF Cells
<1>3. /\ aram' \in [Cells -> Ids \union {NOTHING, GROUP}] /\ aram'[alloc] = id
      /\ \A c \in Cells : c # alloc => aram'[c] = aram[c]
  BY <1>1, <1>2
<1>4. \A c \in Cells : c < alloc' => c < alloc \/ c = alloc
  BY <1>1 DEF Cells
<1> QED BY <1>1, <1>2, <1>3, <1>4

\* A list covers every cell below the mark it leaves.
LEMMA BaseUploadList == BaseInv /\ UploadList => BaseInv'
<1> SUFFICES ASSUME BaseInv, UploadList PROVE BaseInv'
  OBVIOUS
<1>1. /\ id \in Ids /\ id # GROUP /\ alloc \in Cells /\ stage = "list"
      /\ Top \in Nat /\ MaxGroup \in Nat /\ todo \in 0 .. MaxGroup
      /\ UNCHANGED <<env, marker, id, kept, todo>>
  BY ListFills, EndOfList, TopAssumption DEF UploadList, BaseInv, LoadTypeOK, GROUP
<1>2. CASE alloc' < ListEnd[id] /\ UNCHANGED <<stage, saved>>
  <2>1. LoadTypeOK'
    BY <1>1, <1>2, ListFills DEF BaseInv, LoadTypeOK
  <2>2. \A c \in Cells : c < saved => aram'[c] # GROUP
    BY <1>1, ListFills DEF BaseInv
  <2> QED BY <1>1, <1>2, <2>1, <2>2, ListFills DEF BaseInv, Holding
<1>3. CASE alloc' = ListEnd[id] /\ stage' = "groups" /\ saved' = alloc'
  <2>1. LoadTypeOK'
    BY <1>1, <1>3, ListFills DEF BaseInv, LoadTypeOK
  <2>2. \A c \in Cells : c < saved' => aram'[c] # GROUP
    BY <1>1, <1>3, ListFills
  <2>3. alloc' >= saved' /\ alloc' + todo <= Top
    BY <1>1, <1>3, ListFills, EndOfList
  <2> QED BY <1>1, <1>3, <2>1, <2>2, <2>3 DEF BaseInv, Holding
<1> QED BY <1>2, <1>3 DEF UploadList

\* A group lands at or above the mark.
LEMMA BaseUploadGroups == BaseInv /\ UploadGroups => BaseInv'
<1> SUFFICES ASSUME BaseInv, UploadGroups PROVE BaseInv'
  OBVIOUS
<1>1. /\ stage = "groups" /\ alloc >= saved /\ alloc + todo <= Top
      /\ alloc \in 0 .. Top /\ todo \in 0 .. MaxGroup
      /\ Top \in Nat /\ MaxGroup \in Nat
      /\ aram \in [Cells -> Ids \union {NOTHING, GROUP}]
      /\ saved \in (0 .. Top) \union {NOTHING}
      /\ UNCHANGED <<env, marker, id, kept, saved>>
  BY TopAssumption DEF UploadGroups, BaseInv, LoadTypeOK
<1>2. CASE /\ todo > 0 /\ aram' = [aram EXCEPT ![alloc] = GROUP]
           /\ alloc' = alloc + 1 /\ todo' = todo - 1 /\ UNCHANGED stage
  <2>1. alloc' \in 0 .. Top /\ alloc' + todo' <= Top /\ todo' \in 0 .. MaxGroup
    BY <1>1, <1>2
  <2>2. aram' \in [Cells -> Ids \union {NOTHING, GROUP}]
    BY <1>1, <1>2
  <2>3. alloc' >= saved
    BY <1>1, <1>2 DEF NOTHING
  <2>4. \A c \in Cells : c < saved => aram'[c] # GROUP
    <3> SUFFICES ASSUME NEW c \in Cells, c < saved PROVE aram'[c] # GROUP
      OBVIOUS
    <3>1. c # alloc
      BY <1>1 DEF Cells, NOTHING
    <3> QED BY <1>1, <1>2, <3>1 DEF BaseInv
  <2>5. LoadTypeOK'
    BY <1>1, <1>2, <2>1, <2>2 DEF BaseInv, LoadTypeOK
  <2> QED BY <1>1, <1>2, <2>1, <2>3, <2>4, <2>5 DEF BaseInv, Holding
<1>3. CASE todo = 0 /\ stage' = "idle" /\ UNCHANGED <<aram, alloc, todo>>
  BY <1>1, <1>3 DEF BaseInv, LoadTypeOK, Holding
<1> QED BY <1>2, <1>3 DEF UploadGroups

\* So the invariant holds throughout, resets and stray writes included.
LEMMA BaseInvariance == LoadSpec => []BaseInv
<1>1. BaseInv /\ [LoadNext]_loadVars => BaseInv'
  BY BaseRoutine, BaseCall, BaseStart, BaseUploadList, BaseUploadGroups DEF LoadNext
<1> QED BY BaseInit, <1>1, PTL DEF LoadSpec

-----------------------------------------------------------------------------

\* The marker names a list that is all in sound RAM.
Trusted == marker["id"] \in Ids /\ Resident(marker["id"])

(* What the marker is worth at each step.  Once a magic byte has been      *)
(* compared it no longer matters, since a stray write may spoil it before  *)
(* the comparison's result is used.                                        *)
TrustInv ==
  /\ stage \in {"idle", "repeat_load", "magic_low", "groups"} \/ (stage = "done" /\ id = NO_LIST)
       => (MarkerSet => Trusted)
  /\ stage = "magic_high" => (marker["high"] = MAGIC_HIGH => Trusted)
  /\ stage \in {"marker_id", "skip"} => Trusted
  /\ stage = "skip" => marker["id"] = kept
  /\ stage \in {"set_low", "set_high", "list"} \/ (stage = "done" /\ id # NO_LIST)
       => marker["id"] = id

\* Trust survives whatever leaves sound RAM, the allocator's mark and the id
\* alone.
LEMMA TrustKept ==
  ASSUME Trusted, UNCHANGED <<saved, aram>>, marker'["id"] = marker["id"]
  PROVE  Trusted'
BY DEF Trusted, Resident

\* The marker is not set at power-on.
LEMMA TrustInit == LoadInit => TrustInv
BY DEF LoadInit, TrustInv

\* Each comparison carries what is still worth believing over to the next.
LEMMA TrustRoutine == BaseInv /\ TrustInv /\ Routine => TrustInv'
<1> SUFFICES ASSUME BaseInv, TrustInv, Routine PROVE TrustInv'
  OBVIOUS
<1>1. UNCHANGED <<env, alloc, saved, todo, aram>>
  BY DEF Routine, RepeatLoad, Compare, CompareLow, CompareHigh, CompareId, Skip,
         Remember, SetLow, SetHigh
<1>2. stage \in Holding => kept = id /\ id \in Ids /\ id # NO_LIST
  BY EndOfList DEF BaseInv
<1>3. marker \in Markers /\ "id" \in {"low", "high", "id"}
  BY DEF BaseInv, LoadTypeOK
<1> USE DEF Holding
<1>4. CASE RepeatLoad
  <2>1. MarkerSet => Trusted'
    BY <1>1, <1>4, TrustKept DEF RepeatLoad, TrustInv
  <2> QED BY <1>4, <2>1 DEF RepeatLoad, TrustInv, MarkerSet
<1>5. CASE CompareLow
  <2>1. MarkerSet => Trusted'
    BY <1>1, <1>5, TrustKept DEF CompareLow, Compare, TrustInv
  <2> QED BY <1>5, <2>1 DEF CompareLow, Compare, TrustInv, MarkerSet
<1>6. CASE CompareHigh
  <2>1. marker["high"] = MAGIC_HIGH => Trusted'
    BY <1>1, <1>6, TrustKept DEF CompareHigh, Compare, TrustInv
  <2> QED BY <1>6, <2>1 DEF CompareHigh, Compare, TrustInv
<1>7. CASE CompareId
  <2>1. Trusted'
    BY <1>1, <1>7, TrustKept DEF CompareId, Compare, TrustInv
  <2> QED BY <1>7, <2>1 DEF CompareId, Compare, TrustInv
<1>8. CASE Skip
  <2>1. Trusted'
    BY <1>1, <1>8, TrustKept DEF Skip, TrustInv
  <2> QED BY <1>8, <2>1 DEF Skip, TrustInv
<1>9. CASE Remember
  BY <1>2, <1>3, <1>9 DEF Remember, TrustInv, Markers
<1>10. CASE SetLow
  BY <1>2, <1>3, <1>10 DEF SetLow, TrustInv, Markers
<1>11. CASE SetHigh
  BY <1>2, <1>3, <1>11 DEF SetHigh, TrustInv, Markers
<1> QED BY <1>4, <1>5, <1>6, <1>7, <1>8, <1>9, <1>10, <1>11 DEF Routine

\* A stray write to the magic can only spoil it.
LEMMA TrustScribble ==
  BaseInv /\ TrustInv /\ Scribble /\ "id" \notin env.scribbled => TrustInv'
<1> SUFFICES ASSUME BaseInv, TrustInv, Scribble, "id" \notin env.scribbled PROVE TrustInv'
  OBVIOUS
<1>1. UNCHANGED <<env, id, kept, stage, alloc, saved, todo, aram>>
  BY DEF Scribble
<1>2. PICK b \in env.scribbled : b # "id" /\ marker' = [marker EXCEPT ![b] = GARBAGE]
  BY DEF Scribble
<1>3. b \in {"low", "high"} /\ marker \in Markers
  BY <1>2, EnvironmentAssumption DEF MarkerBytes, BaseInv, LoadTypeOK
<1>4. /\ marker'["id"] = marker["id"]
      /\ marker'["high"] = MAGIC_HIGH => marker["high"] = MAGIC_HIGH
      /\ ~MarkerSet'
  BY <1>2, <1>3 DEF Markers, MarkerSet, GARBAGE, MAGIC_LOW, MAGIC_HIGH
<1>5. Trusted => Trusted'
  BY <1>1, <1>4, TrustKept
<1> QED BY <1>1, <1>4, <1>5 DEF TrustInv

\* A skip leads to the groups with the marker still true, an upload to the list it names.
LEMMA TrustStart == BaseInv /\ TrustInv /\ Start => TrustInv'
<1> SUFFICES ASSUME BaseInv, TrustInv, Start PROVE TrustInv'
  OBVIOUS
<1>1. UNCHANGED <<env, marker, id, saved, aram>> /\ stage = "done"
  BY DEF Start
<1>2. Trusted => Trusted'
  BY <1>1, TrustKept
<1> QED BY <1>1, <1>2 DEF Start, TrustInv, MarkerSet

\* A call changes nothing the marker speaks of.
LEMMA TrustCall == TrustInv /\ (Call \/ UNCHANGED loadVars) => TrustInv'
<1> SUFFICES ASSUME TrustInv, Call \/ UNCHANGED loadVars PROVE TrustInv'
  OBVIOUS
<1>1. UNCHANGED <<env, marker, saved, aram>>
  BY DEF Call, loadVars
<1>2. Trusted => Trusted'
  BY <1>1, TrustKept
<1> QED BY <1>1, <1>2 DEF Call, loadVars, TrustInv, MarkerSet

\* When the last byte of a list lands, the marker has named it all along.
LEMMA TrustUploadList == BaseInv /\ TrustInv /\ UploadList => TrustInv'
<1> SUFFICES ASSUME BaseInv, TrustInv, UploadList PROVE TrustInv'
  OBVIOUS
<1>1. stage = "list" /\ UNCHANGED <<env, marker, id, kept>> /\ marker["id"] = id
  BY DEF UploadList, TrustInv
<1>2. CASE alloc' < ListEnd[id] /\ UNCHANGED <<stage, saved>>
  BY <1>1, <1>2 DEF TrustInv
<1>3. CASE alloc' = ListEnd[id] /\ stage' = "groups" /\ saved' = alloc'
  <2>1. id \in Ids /\ \A c \in Cells : c < ListEnd[id] => aram'[c] = id
    BY <1>3, ListFills
  <2>2. \A c \in 0 .. ListEnd[id] - 1 : c \in Cells /\ c < ListEnd[id]
    BY <2>1, EndOfList DEF Cells
  <2>3. Trusted'
    BY <1>1, <1>3, <2>1, <2>2 DEF Trusted, Resident
  <2> QED BY <1>1, <1>3, <2>3 DEF TrustInv
<1> QED BY <1>2, <1>3 DEF UploadList

\* A group lands at or above the mark, so a list that is all in stays all in.
LEMMA TrustUploadGroups == BaseInv /\ TrustInv /\ UploadGroups => TrustInv'
<1> SUFFICES ASSUME BaseInv, TrustInv, UploadGroups PROVE TrustInv'
  OBVIOUS
<1>1. stage = "groups" /\ stage' \in {"groups", "idle"}
      /\ UNCHANGED <<env, marker, id, kept, saved>>
  BY DEF UploadGroups
<1>2. ASSUME Trusted PROVE Trusted'
  <2> DEFINE l == marker["id"]
  <2>1. /\ l \in Ids /\ ListEnd[l] \in Nat /\ Top \in Nat /\ ListEnd[l] <= Top
        /\ saved = ListEnd[l] /\ \A c \in 0 .. ListEnd[l] - 1 : aram[c] = l
    BY <1>2, EndOfList DEF Trusted, Resident
  <2>2. alloc \in Nat /\ alloc >= saved
        /\ aram \in [Cells -> Ids \union {NOTHING, GROUP}]
    BY <1>1 DEF BaseInv, LoadTypeOK
  <2>3. \A c \in 0 .. ListEnd[l] - 1 : c # alloc /\ c \in Cells
    BY <2>1, <2>2 DEF Cells
  <2>4. \A c \in 0 .. ListEnd[l] - 1 : aram'[c] = l
    BY <2>1, <2>2, <2>3 DEF UploadGroups
  <2> QED BY <1>1, <2>1, <2>4 DEF Trusted, Resident
<1> QED BY <1>1, <1>2 DEF TrustInv, MarkerSet

\* On an undisturbed console the marker is worth at each step what TrustInv says.
LEMMA TrustInvariance == LoadSpec => [](BaseInv /\ (Undisturbed => TrustInv))
<1>1. LoadInit => (Undisturbed => TrustInv)
  BY TrustInit
<1>2. BaseInv /\ (Undisturbed => TrustInv) /\ [LoadNext]_loadVars => (Undisturbed => TrustInv)'
  <2> SUFFICES ASSUME BaseInv, Undisturbed => TrustInv, [LoadNext]_loadVars, Undisturbed'
               PROVE  TrustInv'
    OBVIOUS
  <2>1. UNCHANGED env
    BY DEF LoadNext, Call, Routine, RepeatLoad, Compare, CompareLow, CompareHigh, CompareId,
           Skip, Remember, SetLow, SetHigh, Start, UploadList, UploadGroups, Reset,
           Scribble, loadVars
  <2>2. Undisturbed /\ TrustInv
    BY <2>1 DEF Undisturbed
  <2> QED
    BY <2>2, TrustRoutine, TrustScribble, TrustStart, TrustCall, TrustUploadList,
       TrustUploadGroups DEF LoadNext, Reset, Undisturbed
<1> QED BY BaseInvariance, <1>1, <1>2, PTL DEF LoadSpec

-----------------------------------------------------------------------------

\* While nothing else writes the marker: from the moment it is forgotten to
\* the end of the upload it comes to name the list being uploaded.
NamedInv ==
  /\ stage \in {"set_low", "set_high", "list"} \/ (stage = "done" /\ id # NO_LIST)
       => marker["id"] = id
  /\ stage = "set_high" => marker["low"] = MAGIC_LOW
  /\ stage = "list" \/ (stage = "done" /\ id # NO_LIST) => MarkerSet

Unwritten == env.scribbled = {}

\* A reset or a call leaves no upload under way; nothing scribbles.
LEMMA NamedStep == BaseInv /\ NamedInv /\ [LoadNext]_loadVars /\ Unwritten => NamedInv'
<1> SUFFICES ASSUME BaseInv, NamedInv, [LoadNext]_loadVars, Unwritten PROVE NamedInv'
  OBVIOUS
<1>1. /\ marker \in Markers
      /\ stage \in Holding => kept = id /\ id \in Ids
      /\ "id" \in {"low", "high", "id"} /\ "low" # "id" /\ "high" # "low" /\ "high" # "id"
  BY DEF BaseInv, LoadTypeOK
<1> USE DEF NamedInv, Holding
<1>2. CASE Call \/ Reset \/ UNCHANGED loadVars
  BY <1>2 DEF Call, Reset, loadVars, MarkerSet
<1>3. CASE RepeatLoad
  BY <1>3 DEF RepeatLoad
<1>4. CASE CompareLow \/ CompareHigh \/ CompareId
  BY <1>4 DEF CompareLow, CompareHigh, CompareId, Compare
<1>5. CASE Skip
  BY <1>5 DEF Skip
<1>6. CASE Remember
  <2>1. marker'["id"] = id
    BY <1>1, <1>6 DEF Remember, Markers
  <2> QED BY <1>6, <2>1 DEF Remember
<1>7. CASE SetLow
  <2>1. marker'["id"] = marker["id"] /\ marker'["low"] = MAGIC_LOW
    BY <1>1, <1>7 DEF SetLow, Markers
  <2> QED BY <1>7, <2>1 DEF SetLow
<1>8. CASE SetHigh
  <2>1. /\ marker'["id"] = marker["id"] /\ marker'["low"] = marker["low"]
        /\ marker'["high"] = MAGIC_HIGH
    BY <1>1, <1>8 DEF SetHigh, Markers
  <2> QED BY <1>8, <2>1 DEF SetHigh, MarkerSet
<1>9. CASE Start
  BY <1>9 DEF Start, MarkerSet
<1>10. CASE UploadList \/ UploadGroups
  BY <1>10 DEF UploadList, UploadGroups, MarkerSet
<1>11. ~Scribble
  BY DEF Scribble, Unwritten
<1> QED BY <1>2, <1>3, <1>4, <1>5, <1>6, <1>7, <1>8, <1>9, <1>10, <1>11 DEF LoadNext, Routine

\* A list that is all in sound RAM is the one the marker names, or, once the
\* comparisons have failed, not the one about to be uploaded.
RepeatInv ==
  /\ stage \in {"idle", "repeat_load", "magic_low", "magic_high", "marker_id", "skip",
             "groups"} \/ (stage = "done" /\ id = NO_LIST)
       => \A l \in Ids : Resident(l) => MarkerSet /\ marker["id"] = l
  /\ stage \in {"remember", "set_low", "set_high"} \/ (stage = "done" /\ id # NO_LIST)
       => ~Resident(id)

\* The environment is what it was at power-on.
LEMMA SameEnvironment == [LoadNext]_loadVars => UNCHANGED env
BY DEF LoadNext, Call, Routine, RepeatLoad, Compare, CompareLow, CompareHigh, CompareId,
       Skip, Remember, SetLow, SetHigh, Start, UploadList, UploadGroups, Reset,
       Scribble, loadVars

\* No list is in sound RAM at power-on.
LEMMA RepeatInit == LoadInit => RepeatInv
<1> SUFFICES ASSUME LoadInit PROVE RepeatInv
  OBVIOUS
<1>1. saved = NOTHING /\ stage = "idle"
  BY DEF LoadInit
<1>2. ASSUME NEW l \in Ids PROVE ~Resident(l)
  <2>1. ListEnd[l] > 0 /\ ListEnd[l] \in Nat
    BY EndOfList
  <2> QED BY <1>1, <2>1 DEF Resident, NOTHING
<1> QED BY <1>1, <1>2 DEF RepeatInv

\* The routine believes the marker exactly when the list is resident.
LEMMA RepeatRoutine == BaseInv /\ RepeatInv /\ Routine => RepeatInv'
<1> SUFFICES ASSUME BaseInv, RepeatInv, Routine PROVE RepeatInv'
  OBVIOUS
<1>1. UNCHANGED <<saved, aram>>
  BY DEF Routine, RepeatLoad, Compare, CompareLow, CompareHigh, CompareId, Skip,
         Remember, SetLow, SetHigh
<1>2. \A l : Resident(l)' <=> Resident(l)
  BY <1>1 DEF Resident
<1>3. stage \in Holding => kept = id /\ id \in Ids /\ id # NO_LIST
  BY EndOfList DEF BaseInv
<1> USE DEF RepeatInv, Holding
<1>4. CASE RepeatLoad
  BY <1>2, <1>4 DEF RepeatLoad, MarkerSet
<1>5. CASE CompareLow
  <2>1. ~(marker["low"] = MAGIC_LOW) => ~Resident(id)
    BY <1>3, <1>5 DEF CompareLow, Compare, MarkerSet
  <2> QED BY <1>2, <1>5, <2>1 DEF CompareLow, Compare, MarkerSet
<1>6. CASE CompareHigh
  <2>1. ~(marker["high"] = MAGIC_HIGH) => ~Resident(id)
    BY <1>3, <1>6 DEF CompareHigh, Compare, MarkerSet
  <2> QED BY <1>2, <1>6, <2>1 DEF CompareHigh, Compare, MarkerSet
<1>7. CASE CompareId
  <2>1. ~(marker["id"] = kept) => ~Resident(id)
    BY <1>3, <1>7 DEF CompareId, Compare
  <2> QED BY <1>2, <1>7, <2>1 DEF CompareId, Compare, MarkerSet
<1>8. CASE Skip
  BY <1>2, <1>8 DEF Skip, MarkerSet
<1>9. CASE Remember \/ SetLow \/ SetHigh
  <2>1. /\ stage \in {"remember", "set_low", "set_high"} /\ id' = id /\ id # NO_LIST
        /\ stage' \in {"set_low", "set_high", "done"}
    BY <1>3, <1>9 DEF Remember, SetLow, SetHigh
  <2> QED BY <1>2, <2>1
<1> QED BY <1>4, <1>5, <1>6, <1>7, <1>8, <1>9 DEF Routine

\* An upload makes its list the only resident one, and the marker names it.
LEMMA RepeatUpload ==
  BaseInv /\ NamedInv /\ RepeatInv /\ (UploadList \/ UploadGroups) => RepeatInv'
<1> SUFFICES ASSUME BaseInv, NamedInv, RepeatInv, UploadList \/ UploadGroups
             PROVE  RepeatInv'
  OBVIOUS
<1>1. CASE UploadList
  <2>1. stage = "list" /\ UNCHANGED <<marker, id>> /\ MarkerSet /\ marker["id"] = id
    BY <1>1 DEF UploadList, NamedInv
  <2>2. CASE stage' = "list"
    BY <2>2 DEF RepeatInv
  <2>3. CASE stage' # "list"
    <3>1. stage' = "groups" /\ saved' = ListEnd[id] /\ alloc' = ListEnd[id]
      BY <1>1, <2>1, <2>3 DEF UploadList
    <3>2. /\ id \in Ids /\ 0 \in Cells /\ 0 < alloc'
      BY <1>1, <3>1, ListFills, EndOfList DEF Cells
    <3>3. aram'[0] = id
      BY <1>1, <3>2, ListFills
    <3>4. ASSUME NEW l \in Ids, Resident(l)' PROVE l = id
      <4>1. 0 \in 0 .. ListEnd[l] - 1
        BY EndOfList
      <4> QED BY <3>3, <3>4, <4>1 DEF Resident
    <3> QED BY <2>1, <3>1, <3>4 DEF RepeatInv, MarkerSet
  <2> QED BY <2>2, <2>3
<1>2. CASE UploadGroups
  <2>1. /\ stage = "groups" /\ stage' \in {"groups", "idle"}
        /\ UNCHANGED <<marker, id, saved>> /\ alloc >= saved /\ alloc \in Nat
        /\ aram \in [Cells -> Ids \union {NOTHING, GROUP}]
    BY <1>2 DEF UploadGroups, BaseInv, LoadTypeOK
  <2>2. ASSUME NEW l \in Ids, Resident(l)' PROVE Resident(l)
    <3>1. /\ saved = ListEnd[l] /\ ListEnd[l] \in Nat /\ Top \in Nat /\ ListEnd[l] <= Top
      BY <2>1, <2>2, EndOfList DEF Resident
    <3>2. \A c \in 0 .. ListEnd[l] - 1 : c # alloc /\ c \in Cells /\ aram'[c] = l
      BY <2>1, <2>2, <3>1 DEF Resident, Cells
    <3>3. \A c \in Cells : c # alloc => aram'[c] = aram[c]
      BY <1>2, <2>1 DEF UploadGroups
    <3> QED BY <3>1, <3>2, <3>3 DEF Resident
  <2> QED BY <2>1, <2>2 DEF RepeatInv, MarkerSet
<1> QED BY <1>1, <1>2

\* With no reset and no stray write, what is resident is what is named.
LEMMA RepeatStep ==
  BaseInv /\ NamedInv /\ RepeatInv /\ [LoadNext]_loadVars /\ Unwritten /\ ~env.resets
    => RepeatInv'
<1> SUFFICES ASSUME BaseInv, NamedInv, RepeatInv, [LoadNext]_loadVars, Unwritten, ~env.resets
             PROVE  RepeatInv'
  OBVIOUS
<1>1. CASE Call \/ Start \/ UNCHANGED loadVars
  <2>1. UNCHANGED <<marker, saved, aram>>
    BY <1>1 DEF Call, Start, loadVars
  <2>2. (\A l : Resident(l)' <=> Resident(l)) /\ (MarkerSet' <=> MarkerSet)
    BY <2>1 DEF Resident, MarkerSet
  <2> QED BY <1>1, <2>1, <2>2 DEF Call, Start, loadVars, RepeatInv
<1>2. ~Reset /\ ~Scribble
  BY DEF Reset, Scribble, Unwritten
<1> QED BY <1>1, <1>2, RepeatRoutine, RepeatUpload DEF LoadNext

\* So the two hold throughout, each in its own environment.
LEMMA RepeatInvariance ==
  LoadSpec => [](BaseInv /\ (Unwritten => NamedInv)
                     /\ (Unwritten /\ ~env.resets => RepeatInv))
<1>1. LoadInit => (Unwritten => NamedInv) /\ (Unwritten /\ ~env.resets => RepeatInv)
  BY RepeatInit DEF LoadInit, NamedInv
<1>2. BaseInv /\ (Unwritten => NamedInv) /\ (Unwritten /\ ~env.resets => RepeatInv)
        /\ [LoadNext]_loadVars
      => ((Unwritten => NamedInv) /\ (Unwritten /\ ~env.resets => RepeatInv))'
  BY NamedStep, RepeatStep, SameEnvironment DEF Unwritten
<1> QED BY BaseInvariance, <1>1, <1>2, PTL DEF LoadSpec

(* The routine's and the engine's state keeps its types, whatever resets   *)
(* and stray writes it meets.                                              *)
THEOREM RepeatLoadTypes == LoadSpec => []LoadTypeOK
BY BaseInvariance, PTL DEF BaseInv

(* Whatever the lists, the groups, the resets and the stray writes: groups *)
(* are uploaded above the list the allocator was saved after.              *)
THEOREM GroupsStayAbove == LoadSpec => []GroupsAboveList
<1>1. BaseInv => GroupsAboveList
  <2> SUFFICES ASSUME BaseInv, stage = "groups"
               PROVE  alloc >= saved /\ \A c \in 0 .. saved - 1 : aram[c] # GROUP
    BY DEF GroupsAboveList
  <2>1. saved \in (0 .. Top) \union {NOTHING} /\ Top \in Nat
    BY TopAssumption DEF BaseInv, LoadTypeOK
  <2>2. \A c \in 0 .. saved - 1 : c \in Cells /\ c < saved
    BY <2>1 DEF Cells, NOTHING
  <2> QED BY <2>2 DEF BaseInv
<1> QED BY BaseInvariance, <1>1, PTL

(* On a console that is not reset, and whose marker id nothing else writes,*)
(* a marker that would be believed names a list that is all in sound RAM:  *)
(* stray writes to the two magic bytes only ever cost a skip.              *)
THEOREM MarkerIsCorrect == LoadSpec => []MarkerCorrect
<1>1. (Undisturbed => TrustInv) => MarkerCorrect
  BY DEF TrustInv, MarkerCorrect, Trusted
<1> QED BY TrustInvariance, <1>1, PTL

(* And on the same console a list whose upload is skipped is there.        *)
THEOREM SkipsAreSafe == LoadSpec => []SkippedIsResident
<1>1. (Undisturbed => TrustInv) => SkippedIsResident
  BY DEF TrustInv, SkippedIsResident, Trusted
<1> QED BY TrustInvariance, <1>1, PTL

(* Whatever a reset cut short before, an upload that runs to its end leaves*)
(* the marker set, with the id of the list whose bytes are all there.      *)
THEOREM UploadsMakeTheMarkerTrue == LoadSpec => UploadMakesMarkerTrue
<1>1. BaseInv /\ (Unwritten => NamedInv) /\ [LoadNext]_loadVars
      => [env.scribbled = {} /\ stage = "list" /\ stage' = "groups" =>
            MarkerSet' /\ marker'["id"] = id /\ Resident(id)']_loadVars
  <2> SUFFICES ASSUME BaseInv, NamedInv, [LoadNext]_loadVars, stage = "list", stage' = "groups"
               PROVE  MarkerSet' /\ marker'["id"] = id /\ Resident(id)'
    BY DEF Unwritten
  <2>1. UploadList
    BY DEF LoadNext, Call, Routine, RepeatLoad, Compare, CompareLow, CompareHigh, CompareId,
           Skip, Remember, SetLow, SetHigh, Start, UploadGroups, Reset, Scribble, loadVars
  <2>2. UNCHANGED <<marker, id>> /\ saved' = alloc' /\ alloc' = ListEnd[id]
    BY <2>1 DEF UploadList
  <2>3. \A c \in 0 .. ListEnd[id] - 1 : c \in Cells /\ c < alloc'
    BY <2>1, <2>2, ListFills, EndOfList DEF Cells
  <2>4. Resident(id)'
    BY <2>1, <2>2, <2>3, ListFills DEF Resident
  <2> QED BY <2>2, <2>4 DEF NamedInv, MarkerSet
<1> QED BY RepeatInvariance, <1>1, PTL DEF LoadSpec, UploadMakesMarkerTrue

(* And every repeat is recognised: with no reset and no stray write, a list*)
(* that is about to be uploaded is not already resident.                   *)
THEOREM RepeatsAreRecognised == LoadSpec => ResidentIsSkipped
<1>1. BaseInv /\ (Unwritten /\ ~env.resets => RepeatInv)
      => [~env.resets /\ env.scribbled = {} /\ stage = "done" /\ id # NO_LIST =>
            ~Resident(id)]_loadVars
  BY DEF Unwritten, RepeatInv
<1> QED BY RepeatInvariance, <1>1, PTL DEF LoadSpec, ResidentIsSkipped
=============================================================================
