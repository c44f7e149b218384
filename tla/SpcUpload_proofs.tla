-------------------------- MODULE SpcUpload_proofs --------------------------
(***************************************************************************)
(* For every list, every width of the index and every counter jump:        *)
(*   - the registers of both processors keep to their widths, the 65816    *)
(*     reads inside its bank, and no byte is posted with a count of zero   *)
(*     (UploadTypes);                                                      *)
(*   - no port changes under the receiver (PortsAreHeldStill);             *)
(*   - the driver is started on a whole list only (DriverStartsWhole);     *)
(*   - the upload implements SampleTransfer (UploadTransfers).             *)
(* The invariant comes in four parts, each proved from the ones before it: *)
(* IInv, the types; Handshake, which pairs of places the two processors    *)
(* can be in; SenderInv, what the ports carry there; and ReceiverInv,      *)
(* where the receiver's pointers stand and what has arrived below them.    *)
(***************************************************************************)
EXTENDS SpcUpload, FiniteSetTheorems, TLAPS

SendingSteps == CpuSteps \ (HeaderSteps \union {"finished"})
CountedSteps == {"count_low", "byte", "byte_counter", "byte_echo", "first",
                 "second", "third", "counter", "handshake_echo"}
CountSteps == {"count_high", "opening", "opening_echo"}

\* The 65816's half of the types, and what is left to send is never zero
\* while there is something to send.
CpuInv ==
  /\ list \in Lists
  /\ port \in [0 .. 3 -> Nat]
  /\ port[0] \in 0 .. M - 1
  /\ cpu \in CpuSteps
  /\ blk \in Nat \ {0}
  /\ y \in Nat /\ x \in Nat /\ idx \in Nat /\ n \in Nat
  /\ ctr \in 0 .. M - 1
  /\ cpu \in SendingSteps => blk <= Len(list)
  /\ cpu \in CountedSteps => x > 0
  /\ cpu \in CountSteps => n > 0

\* The SPC700's half.
SpcInv ==
  /\ echo \in 0 .. M - 1
  /\ spc \in SpcSteps
  /\ sy \in 0 .. M - 1
  /\ dest \in 0 .. Word - 1 /\ two \in 0 .. Word - 1 /\ three \in 0 .. Word - 1
  /\ kind \in Nat /\ ra \in Nat /\ rx \in Nat
  /\ aram \in [0 .. Word - 1 -> Int]

IInv == CpuInv /\ SpcInv

\* The widths are positive.
LEMMA Widths == M \in Nat /\ M > 0 /\ Word \in Nat /\ Word > 0
<1>1. M \in Nat /\ M >= 4
  BY MAssumption
<1>2. M * M \in Nat /\ M * M > 0
  BY <1>1
<1> QED BY <1>1, <1>2 DEF Word

\* A remainder is a value of the width it is taken by.
LEMMA Reduced ==
  ASSUME NEW v \in Int, NEW w \in Nat, w > 0
  PROVE  v % w \in 0 .. w - 1
OBVIOUS

\* The same at the width of a byte,
LEMMA ReducedToByte ==
  ASSUME NEW v \in Int
  PROVE  v % M \in 0 .. M - 1 /\ v % M \in Nat
BY Widths, Reduced

\* and of a word.
LEMMA ReducedToWord ==
  ASSUME NEW v \in Int
  PROVE  v % Word \in 0 .. Word - 1
BY Widths, Reduced

\* Both bytes of an address can be posted.
LEMMA HighByteFits ==
  ASSUME NEW v \in Nat
  PROVE  HighByte(v) \in Nat
<1>1. v \div M \in Int
  BY Widths
<1> QED BY <1>1, ReducedToByte DEF HighByte

\* (Its low byte fits even the counter's port.)
LEMMA LowByteFits ==
  ASSUME NEW v \in Nat
  PROVE  LowByte(v) \in Nat /\ LowByte(v) \in 0 .. M - 1
BY ReducedToByte DEF LowByte

\* The block being sent is a block of the list.
LEMMA BlockFits ==
  ASSUME CpuInv, NEW k \in 1 .. Len(list)
  PROVE  /\ list[k].kind \in {ONE_BYTE, THREE_BYTE}
         /\ list[k].len \in Nat /\ list[k].len > 0
         /\ list[k].dest \in Nat /\ list[k].src \in Nat
<1>1. list \in Seq(Blocks)
  BY ListsAssumption DEF CpuInv
<1>2. list[k] \in Blocks
  BY <1>1
<1> QED BY <1>2, Widths DEF Blocks

\* What a header announces can be posted, and is a block of the list or its end.
LEMMA AnnouncedFits ==
  ASSUME CpuInv
  PROVE  Announced \in Nat /\ Destination \in Nat
         /\ (Announced # END_OF_LIST => blk \in 1 .. Len(list))
<1>0. list \in Seq(Blocks) /\ blk \in Nat \ {0}
  BY ListsAssumption DEF CpuInv
<1>1. CASE blk <= Len(list)
  <2>1. blk \in 1 .. Len(list)
    BY <1>0, <1>1
  <2> QED BY <2>1, <1>1, BlockFits DEF Announced, Destination, ONE_BYTE, THREE_BYTE
<1>2. CASE ~(blk <= Len(list))
  BY <1>2 DEF Announced, Destination, END_OF_LIST
<1> QED BY <1>1, <1>2

\* Posting a natural number on a port other than the counter's keeps the ports.
LEMMA PostOther ==
  ASSUME CpuInv, NEW p \in 1 .. 3, NEW v \in Nat, Post(p, v)
  PROVE  port' \in [0 .. 3 -> Nat] /\ port'[0] \in 0 .. M - 1
BY DEF CpuInv, Post

\* Posting a byte on the counter's port keeps them too.
LEMMA PostCounterPort ==
  ASSUME CpuInv, NEW v \in 0 .. M - 1, Post(0, v)
  PROVE  port' \in [0 .. 3 -> Nat] /\ port'[0] \in 0 .. M - 1
BY Widths DEF CpuInv, Post

\* Nothing has been sent or received yet.
LEMMA InitInv == Init => IInv
<1> SUFFICES ASSUME Init PROVE IInv
  OBVIOUS
<1>1. list \in Lists /\ list \in Seq(Blocks) /\ WellLaidOut(list)
  BY ListsAssumption DEF Init
<1>2. y \in Nat
  <2>1. CASE list = <<>>
    BY <2>1 DEF Init
  <2>2. CASE list # <<>>
    <3>1. Len(list) > 0 /\ list[1] \in Blocks
      BY <1>1, <2>2
    <3>2. list[1].src \in Nat /\ list[1].src >= RecordHead
      BY <1>1, <3>1, Widths DEF WellLaidOut, Blocks
    <3> QED BY <2>2, <3>2, RecordHeadAssumption DEF Init
  <2> QED BY <2>1, <2>2
<1>3. port = [p \in 0 .. 3 |-> 0] /\ port \in [0 .. 3 -> Nat] /\ port[0] = 0
  BY DEF Init
<1>4. CpuInv
  BY <1>1, <1>2, <1>3, Widths
     DEF Init, CpuInv, CpuSteps, HeaderSteps, SendingSteps, CountedSteps, CountSteps
<1>5. aram \in [0 .. Word - 1 -> Int]
  BY DEF Init, UNWRITTEN
<1>6. SpcInv
  BY <1>5, Widths DEF Init, SpcInv, SpcSteps
<1> QED BY <1>4, <1>6 DEF IInv


\* A step of the 65816 leaves its registers in range.
LEMMA CpuStep == CpuInv /\ CpuNext => CpuInv'
<1> SUFFICES ASSUME CpuInv, CpuNext PROVE CpuInv'
  OBVIOUS
<1> USE DEF CpuSteps, HeaderSteps, ByteSteps, TripleSteps, SendingSteps,
            CountedSteps, CountSteps
<1>0. /\ list \in Lists /\ blk \in Nat \ {0} /\ ctr \in 0 .. M - 1
      /\ y \in Nat /\ x \in Nat /\ idx \in Nat /\ n \in Nat
      /\ port \in [0 .. 3 -> Nat] /\ port[0] \in 0 .. M - 1
  BY DEF CpuInv
<1>1. CASE PostKind
  <2>1. port' \in [0 .. 3 -> Nat] /\ port'[0] \in 0 .. M - 1
    <3>1. Announced \in Nat
      BY <1>0, AnnouncedFits
    <3> QED BY <3>1, <1>1, PostOther DEF PostKind
  <2> QED BY <2>1, <1>1 DEF CpuInv, PostKind, Goto, sent
<1>2. CASE PostDestLow
  <2>1. port' \in [0 .. 3 -> Nat] /\ port'[0] \in 0 .. M - 1
    <3>1. LowByte(Destination) \in Nat
      BY <1>0, AnnouncedFits, LowByteFits
    <3> QED BY <3>1, <1>2, PostOther DEF PostDestLow
  <2> QED BY <2>1, <1>2 DEF CpuInv, PostDestLow, Goto, sent
<1>3. CASE PostDestHigh
  <2>1. port' \in [0 .. 3 -> Nat] /\ port'[0] \in 0 .. M - 1
    <3>1. HighByte(Destination) \in Nat
      BY <1>0, AnnouncedFits, HighByteFits
    <3> QED BY <3>1, <1>3, PostOther DEF PostDestHigh
  <2> QED BY <2>1, <1>3 DEF CpuInv, PostDestHigh, Goto, sent
<1>4. CASE PostHeader
  <2>1. PICK j \in Jumps : ctr' = (ctr + j) % M /\ Post(0, (ctr + j) % M)
    BY <1>4 DEF PostHeader
  <2>2. j \in Int /\ ctr + j \in Int
    BY <1>0, JumpsAssumption, MAssumption
  <2>3. (ctr + j) % M \in 0 .. M - 1
    BY <2>2, ReducedToByte
  <2>4. port' \in [0 .. 3 -> Nat] /\ port'[0] \in 0 .. M - 1
    BY <2>1, <2>3, PostCounterPort
  <2> QED BY <2>1, <2>3, <2>4, <1>4 DEF CpuInv, PostHeader, Goto
<1>5. CASE HeaderEcho
  <2>1. CASE Announced = END_OF_LIST
    BY <1>5, <2>1 DEF CpuInv, HeaderEcho
  <2>2. CASE Announced # END_OF_LIST
    <3>1. blk \in 1 .. Len(list)
      BY <2>2, AnnouncedFits
    <3>2. x' = list[blk].len /\ y' = y + RecordHead /\ idx' = 0
          /\ cpu' \in {"count_low", "byte"}
          /\ UNCHANGED <<list, blk, n, ctr, port>>
      BY <1>5, <2>2 DEF HeaderEcho
    <3>3. x' \in Nat /\ x' > 0 /\ y' \in Nat
      BY <1>0, <3>1, <3>2, BlockFits, RecordHeadAssumption
    <3> QED BY <3>1, <3>2, <3>3, <1>0 DEF CpuInv
  <2> QED BY <2>1, <2>2
<1>6. CASE PostByte
  <2>1. port' \in [0 .. 3 -> Nat] /\ port'[0] \in 0 .. M - 1
    <3>1. y + idx \in Nat
      BY <1>0
    <3> QED BY <3>1, <1>6, PostOther DEF PostByte
  <2> QED BY <2>1, <1>6 DEF CpuInv, PostByte, Goto, sent
<1>7. CASE PostByteCounter
  <2>1. x > 0 /\ blk <= Len(list)
    BY <1>7 DEF CpuInv, PostByteCounter, Goto
  <2>2. LowByte(idx) \in 0 .. M - 1
    BY <1>0, LowByteFits
  <2>3. port' \in [0 .. 3 -> Nat] /\ port'[0] \in 0 .. M - 1
        /\ ctr' \in 0 .. M - 1
    BY <1>7, <2>2, PostCounterPort DEF PostByteCounter
  <2>4. list[blk].len \in Nat /\ list \in Seq(Blocks)
    <3>1. list \in Seq(Blocks)
      BY <1>0, ListsAssumption
    <3>2. blk \in 1 .. Len(list)
      BY <1>0, <2>1, <3>1
    <3> QED BY <3>1, <3>2, BlockFits
  <2>5. /\ idx' = idx + 1 /\ x' = x - 1 /\ UNCHANGED <<list, blk, n>>
        /\ \/ x = 1 /\ cpu' = "block_end" /\ y' = y + list[blk].len
           \/ x # 1 /\ cpu' = "byte_echo" /\ y' = y
    BY <1>7 DEF PostByteCounter
  <2>6. /\ x' \in Nat /\ idx' \in Nat /\ y' \in Nat
        /\ cpu' = "block_end" \/ (cpu' = "byte_echo" /\ x' > 0)
    <3>1. x' \in Nat /\ idx' \in Nat
      BY <1>0, <2>1, <2>5
    <3>2. CASE x = 1
      <4> DEFINE len == list[blk].len
      <4>1. y + len \in Nat
        <5>1. len \in Nat
          BY <2>4
        <5> HIDE DEF len
        <5> QED BY <1>0, <5>1
      <4> QED BY <2>5, <3>1, <3>2, <4>1
    <3>3. CASE x # 1
      <4>1. x - 1 > 0
        BY <1>0, <2>1, <3>3
      <4> QED BY <1>0, <2>5, <3>1, <3>3, <4>1
    <3> QED BY <3>2, <3>3
  <2>7. /\ list' \in Lists /\ blk' \in Nat \ {0} /\ n' \in Nat
        /\ blk' <= Len(list')
    BY <1>0, <2>1, <2>5
  <2>8. cpu' \in CpuSteps /\ cpu' \notin CountSteps /\ (cpu' \in CountedSteps => x' > 0)
    BY <2>6
  <2> QED BY <2>3, <2>6, <2>7, <2>8 DEF CpuInv
<1>8. CASE ByteEcho
  BY <1>8 DEF CpuInv, ByteEcho, Goto, sent
<1>9. CASE PostCountLow
  <2>1. x > 0
    BY <1>9 DEF CpuInv, PostCountLow, Goto
  <2>2. n' = (x + 2) \div 3 /\ Post(2, LowByte(n'))
    BY <1>9 DEF PostCountLow, Handshakes
  <2>3. n' \in Nat /\ n' > 0
    BY <1>0, <2>1, <2>2
  <2>4. port' \in [0 .. 3 -> Nat] /\ port'[0] \in 0 .. M - 1
    BY <2>2, <2>3, LowByteFits, PostOther
  <2> QED BY <2>3, <2>4, <1>9 DEF CpuInv, PostCountLow, Goto
<1>10. CASE PostCountHigh
  <2>1. port' \in [0 .. 3 -> Nat] /\ port'[0] \in 0 .. M - 1
    <3>1. HighByte(n) \in Nat
      BY <1>0, HighByteFits
    <3> QED BY <3>1, <1>10, PostOther DEF PostCountHigh
  <2> QED BY <2>1, <1>10 DEF CpuInv, PostCountHigh, Goto, sent
<1>11. CASE PostOpening
  <2>1. 0 \in 0 .. M - 1
    BY Widths
  <2>2. port' \in [0 .. 3 -> Nat] /\ port'[0] \in 0 .. M - 1
    BY <1>11, <2>1, PostCounterPort DEF PostOpening
  <2> QED BY <2>1, <2>2, <1>11 DEF CpuInv, PostOpening, Goto
<1>12. CASE OpeningEcho
  BY <1>12 DEF CpuInv, OpeningEcho, Goto
<1>13. CASE PostFirst
  <2>1. port' \in [0 .. 3 -> Nat] /\ port'[0] \in 0 .. M - 1
    <3>1. y + idx \in Nat
      BY <1>0
    <3> QED BY <3>1, <1>13, PostOther DEF PostFirst
  <2> QED BY <2>1, <1>13 DEF CpuInv, PostFirst, Goto, sent
<1>14. CASE PostSecond
  <2>1. port' \in [0 .. 3 -> Nat] /\ port'[0] \in 0 .. M - 1
    <3>1. y + n + idx \in Nat
      BY <1>0
    <3> QED BY <3>1, <1>14, PostOther DEF PostSecond
  <2> QED BY <2>1, <1>14 DEF CpuInv, PostSecond, Goto, sent
<1>15. CASE PostThird
  <2>1. port' \in [0 .. 3 -> Nat] /\ port'[0] \in 0 .. M - 1
    <3>1. y + 2 * n + idx \in Nat
      BY <1>0
    <3> QED BY <3>1, <1>15, PostOther DEF PostThird
  <2> QED BY <2>1, <1>15 DEF CpuInv, PostThird, Goto, sent
<1>16. CASE PostCounter
  <2>1. x > 0 /\ blk <= Len(list)
    BY <1>16 DEF CpuInv, PostCounter, Goto
  <2>2. LowByte(idx + 1) \in 0 .. M - 1
    BY <1>0, LowByteFits
  <2>3. port' \in [0 .. 3 -> Nat] /\ port'[0] \in 0 .. M - 1
        /\ ctr' \in 0 .. M - 1
    BY <1>16, <2>2, PostCounterPort DEF PostCounter
  <2>4. list[blk].len \in Nat /\ list \in Seq(Blocks)
    <3>1. list \in Seq(Blocks)
      BY <1>0, ListsAssumption
    <3>2. blk \in 1 .. Len(list)
      BY <1>0, <2>1, <3>1
    <3> QED BY <3>1, <3>2, BlockFits
  <2>5. /\ idx' = idx + 1 /\ x' = x - 1 /\ UNCHANGED <<list, blk, n>>
        /\ \/ x = 1 /\ cpu' = "block_end" /\ y' = y + list[blk].len
           \/ x # 1 /\ cpu' = "handshake_echo" /\ y' = y
    BY <1>16 DEF PostCounter
  <2>6. /\ x' \in Nat /\ idx' \in Nat /\ y' \in Nat
        /\ cpu' = "block_end" \/ (cpu' = "handshake_echo" /\ x' > 0)
    <3>1. x' \in Nat /\ idx' \in Nat
      BY <1>0, <2>1, <2>5
    <3>2. CASE x = 1
      <4> DEFINE len == list[blk].len
      <4>1. y + len \in Nat
        <5>1. len \in Nat
          BY <2>4
        <5> HIDE DEF len
        <5> QED BY <1>0, <5>1
      <4> QED BY <2>5, <3>1, <3>2, <4>1
    <3>3. CASE x # 1
      <4>1. x - 1 > 0
        BY <1>0, <2>1, <3>3
      <4> QED BY <1>0, <2>5, <3>1, <3>3, <4>1
    <3> QED BY <3>2, <3>3
  <2>7. /\ list' \in Lists /\ blk' \in Nat \ {0} /\ n' \in Nat
        /\ blk' <= Len(list')
    BY <1>0, <2>1, <2>5
  <2>8. cpu' \in CpuSteps /\ cpu' \notin CountSteps /\ (cpu' \in CountedSteps => x' > 0)
    BY <2>6
  <2> QED BY <2>3, <2>6, <2>7, <2>8 DEF CpuInv
<1>17. CASE HandshakeEcho
  BY <1>17 DEF CpuInv, HandshakeEcho, Goto, sent
<1>18. CASE BlockEnd
  BY <1>18 DEF CpuInv, BlockEnd, Goto
<1> QED BY <1>1, <1>2, <1>3, <1>4, <1>5, <1>6, <1>7, <1>8, <1>9,
         <1>10, <1>11, <1>12, <1>13, <1>14, <1>15, <1>16, <1>17, <1>18
     DEF CpuNext

\* So does a step of the SPC700: what it reads from a port is in range.
LEMMA SpcStep == IInv /\ SpcNext => SpcInv'
<1> SUFFICES ASSUME IInv, SpcNext PROVE SpcInv'
  OBVIOUS
<1> USE DEF SpcSteps, HeaderReads, ByteReads, SetupReads, TripleReads
<1>0. /\ echo \in 0 .. M - 1 /\ sy \in 0 .. M - 1
      /\ dest \in 0 .. Word - 1 /\ two \in 0 .. Word - 1 /\ three \in 0 .. Word - 1
      /\ kind \in Nat /\ ra \in Nat /\ rx \in Nat
      /\ aram \in [0 .. Word - 1 -> Int]
      /\ port[0] \in 0 .. M - 1 /\ port[1] \in Nat /\ port[2] \in Nat /\ port[3] \in Nat
  BY DEF IInv, SpcInv, CpuInv
<1>a. 0 \in 0 .. M - 1 /\ 1 \in 0 .. M - 1
  BY MAssumption
<1>b. port[3] * M \in Nat
  BY <1>0, Widths
<1>c. (sy + 1) % M \in 0 .. M - 1
  BY <1>0, Widths, ReducedToByte
<1>d. ASSUME NEW base \in 0 .. Word - 1
      PROVE  NextPage(base) \in 0 .. Word - 1
  <2>1. base + M \in Int
    BY Widths
  <2> QED BY <2>1, ReducedToWord DEF NextPage
<1>e. ASSUME NEW base \in 0 .. Word - 1
      PROVE  (base + sy) % Word \in 0 .. Word - 1
  <2>1. base + sy \in Int
    BY <1>0, Widths
  <2> QED BY <2>1, ReducedToWord
<1>f. ASSUME NEW base \in 0 .. Word - 1, NEW v \in Nat
      PROVE  Store(base, v) \in [0 .. Word - 1 -> Int]
  <2> DEFINE a == (base + sy) % Word
  <2>1. a \in 0 .. Word - 1
    BY <1>e
  <2>2. Store(base, v) = [aram EXCEPT ![a] = v]
    BY DEF Store
  <2> HIDE DEF a
  <2> QED BY <1>0, <2>1, <2>2
<1>1. CASE AwaitList
  BY <1>0, <1>1 DEF SpcInv, AwaitList, Step, regs
<1>2. CASE BlockStart
  <2>1. Dispatch \in SpcSteps
    BY DEF Dispatch
  <2> QED BY <1>0, <1>a, <1>2, <2>1 DEF SpcInv, BlockStart
<1>3. CASE ByteLoop
  BY <1>0, <1>3 DEF SpcInv, ByteLoop, Step, regs
<1>4. CASE ByteData
  BY <1>0, <1>4 DEF SpcInv, ByteData, Step, regs
<1>5. CASE ByteEchoed
  BY <1>0, <1>5 DEF SpcInv, ByteEchoed, Step, regs
<1>6. CASE ByteStore
  BY <1>0, <1>c, <1>d, <1>f, <1>6 DEF SpcInv, ByteStore, Step
<1>7. CASE SetupCountLow
  <2>1. dest - 1 \in Int
    BY <1>0, <1>b, Widths
  <2>2. (dest - 1) % Word \in 0 .. Word - 1
    BY <2>1, ReducedToWord
  <2> QED BY <1>0, <1>7, <2>2 DEF SpcInv, SetupCountLow, Step
<1>8. CASE SetupStreamTwo
  <2> DEFINE at == dest + port[3] * M + ra
  <2>1. at \in Int
    BY <1>0, <1>b, Widths
  <2>2. at % Word \in 0 .. Word - 1
    <3> HIDE DEF at
    <3> QED BY <2>1, ReducedToWord
  <2> QED BY <1>0, <1>8, <2>2 DEF SpcInv, SetupStreamTwo, Step
<1>9. CASE SetupCountLowAgain
  BY <1>0, <1>9 DEF SpcInv, SetupCountLowAgain, Step, regs
<1>10. CASE SetupStreamThree
  <2> DEFINE at == two + port[3] * M + ra
  <2>1. at \in Int
    BY <1>0, <1>b, Widths
  <2>2. at % Word \in 0 .. Word - 1
    <3> HIDE DEF at
    <3> QED BY <2>1, ReducedToWord
  <2> QED BY <1>0, <1>10, <2>2 DEF SpcInv, SetupStreamThree, Step
<1>11. CASE SetupEcho
  BY <1>0, <1>11, <1>a DEF SpcInv, SetupEcho, Step, regs
<1>12. CASE TripleLoop
  BY <1>0, <1>12 DEF SpcInv, TripleLoop, Step, regs
<1>13. CASE StoreOne
  BY <1>0, <1>f, <1>13 DEF SpcInv, StoreOne, Step, regs
<1>14. CASE ReadTwo
  BY <1>0, <1>14 DEF SpcInv, ReadTwo, Step, regs
<1>15. CASE ReadThree
  BY <1>0, <1>15 DEF SpcInv, ReadThree, Step, regs
<1>16. CASE TripleEcho
  BY <1>0, <1>16 DEF SpcInv, TripleEcho, Step, regs
<1>17. CASE StoreRest
  <2> DEFINE one == Store(three, ra)
             a == (two + sy) % Word
  <2>1. one \in [0 .. Word - 1 -> Int] /\ a \in 0 .. Word - 1
    BY <1>0, <1>e, <1>f
  <2>2. aram' = [one EXCEPT ![a] = rx]
    BY <1>17 DEF StoreRest
  <2> HIDE DEF one, a
  <2>3. aram' \in [0 .. Word - 1 -> Int]
    BY <1>0, <2>1, <2>2
  <2> QED BY <1>0, <1>c, <1>d, <1>17, <2>3 DEF SpcInv, StoreRest, Step
<1>18. CASE HeaderDestLow
  BY <1>0, <1>18 DEF SpcInv, HeaderDestLow, Step, regs
<1>19. CASE HeaderDestHigh
  <2>1. port[3] * M + ra \in Int
    BY <1>0, <1>b, Widths
  <2>2. (port[3] * M + ra) % Word \in 0 .. Word - 1
    BY <2>1, ReducedToWord
  <2> QED BY <1>0, <1>19, <2>2 DEF SpcInv, HeaderDestHigh, Step
<1>20. CASE HeaderCounter
  BY <1>0, <1>20 DEF SpcInv, HeaderCounter, Step, regs
<1>21. CASE HeaderKind
  BY <1>0, <1>21 DEF SpcInv, HeaderKind, Step, regs
<1>22. CASE HeaderEchoed
  BY <1>0, <1>22 DEF SpcInv, HeaderEchoed, Step, regs
<1> QED BY <1>1, <1>2, <1>3, <1>4, <1>5, <1>6, <1>7, <1>8, <1>9,
         <1>10, <1>11, <1>12, <1>13, <1>14, <1>15, <1>16, <1>17, <1>18, <1>19,
         <1>20, <1>21, <1>22
     DEF SpcNext

\* Neither processor writes the other's variables.
LEMMA Invariance == Spec => []IInv
<1>1. IInv /\ [Next]_vars => IInv'
  <2> SUFFICES ASSUME IInv, [Next]_vars PROVE IInv'
    OBVIOUS
  <2>1. CASE CpuNext
    <3>1. UNCHANGED spcVars
      BY <2>1 DEF CpuNext, PostKind, PostDestLow, PostDestHigh, PostHeader,
           HeaderEcho, PostByte, PostByteCounter, ByteEcho, PostCountLow,
           PostCountHigh, PostOpening, OpeningEcho, PostFirst, PostSecond,
           PostThird, PostCounter, HandshakeEcho, BlockEnd
    <3>2. SpcInv'
      BY <3>1 DEF IInv, SpcInv, spcVars, regs
    <3> QED BY <2>1, <3>2, CpuStep DEF IInv
  <2>2. CASE SpcNext
    <3>1. UNCHANGED cpuVars
      BY <2>2 DEF SpcNext, AwaitList, BlockStart, ByteLoop, ByteData, ByteEchoed,
           ByteStore, SetupCountLow, SetupStreamTwo, SetupCountLowAgain,
           SetupStreamThree, SetupEcho, TripleLoop, StoreOne, ReadTwo, ReadThree,
           TripleEcho, StoreRest, HeaderDestLow, HeaderDestHigh, HeaderCounter,
           HeaderKind, HeaderEchoed
    <3>2. CpuInv'
      BY <3>1 DEF IInv, CpuInv, cpuVars, sent
    <3> QED BY <2>2, <3>2, SpcStep DEF IInv
  <2>3. CASE Uploaded \/ UNCHANGED vars
    BY <2>3 DEF IInv, CpuInv, SpcInv, Uploaded, vars, cpuVars, spcVars, sent, regs
  <2> QED BY <2>1, <2>2, <2>3 DEF Next
<1> QED BY InitInv, <1>1, PTL DEF Spec

\* The counter, or the index, after c.
After(c) == (c + 1) % M

\* With counter c posted, index s is neither it nor ahead of it: a header.
Behind(s, c) == s # c /\ ~((s - c) % M < M \div 2)

\* Remainders that need no division.
LEMMA SmallRemainders ==
  ASSUME NEW w \in Nat, w > 0, NEW v \in Int
  PROVE  /\ 0 <= v /\ v < w => v % w = v
         /\ w <= v /\ v < 2 * w => v % w = v - w
         /\ -w <= v /\ v < 0 => v % w = v + w
<1> DEFINE q == v \div w
           r == v % w
<1>1. q \in Int /\ r \in 0 .. w - 1 /\ v = w * q + r
  OBVIOUS
<1> HIDE DEF q, r
<1>2. q > 0 => w * q >= w
  BY <1>1
<1>3. q > 1 => w * q >= 2 * w
  BY <1>1
<1>4. q < 0 => w * q <= -w
  BY <1>1
<1>5. q < -1 => w * q <= -2 * w
  BY <1>1
<1>6. w * 0 = 0 /\ w * 1 = w /\ w * (-1) = -w
  BY <1>1
<1>7. 0 <= v /\ v < w => q = 0
  BY <1>1, <1>2, <1>4
<1>8. w <= v /\ v < 2 * w => q = 1
  BY <1>1, <1>3, <1>4, <1>6
<1>9. -w <= v /\ v < 0 => q = -1
  BY <1>1, <1>2, <1>5, <1>6
<1>10. /\ 0 <= v /\ v < w => r = v
       /\ w <= v /\ v < 2 * w => r = v - w
       /\ -w <= v /\ v < 0 => r = v + w
  BY <1>1, <1>6, <1>7, <1>8, <1>9
<1> QED BY <1>10 DEF r

\* The width of the index is even, and at least four.
LEMMA Half == M \in Nat /\ M >= 4 /\ M \div 2 \in Nat /\ M = 2 * (M \div 2)
<1>1. M \in Nat /\ M >= 4 /\ M % 2 = 0
  BY MAssumption
<1> QED BY <1>1

\* The next index is another one, and ahead of this one.
LEMMA NextIndex ==
  ASSUME NEW c \in 0 .. M - 1
  PROVE  /\ After(c) \in 0 .. M - 1 /\ After(c) # c
         /\ After(c) = IF c = M - 1 THEN 0 ELSE c + 1
         /\ (After(c) - c) % M < M \div 2
         /\ \A d \in 0 .. M - 1 : After(d) = After(c) => d = c
<1>1. \A d \in 0 .. M - 1 : After(d) = IF d = M - 1 THEN 0 ELSE d + 1
  <2> TAKE d \in 0 .. M - 1
  <2>1. d + 1 \in Int /\ M \in Nat /\ M > 0
    BY Widths
  <2>2. /\ 0 <= d + 1 /\ d + 1 < M => (d + 1) % M = d + 1
        /\ M <= d + 1 /\ d + 1 < 2 * M => (d + 1) % M = d + 1 - M
    BY <2>1, SmallRemainders
  <2> QED BY <2>1, <2>2 DEF After
<1>2. After(c) = IF c = M - 1 THEN 0 ELSE c + 1
  BY <1>1
<1>3. After(c) \in 0 .. M - 1 /\ After(c) # c
  BY <1>2, Half
<1>4. (After(c) - c) % M = 1
  <2>1. CASE c = M - 1
    <3>1. After(c) - c = 1 - M
      BY <1>2, <2>1, Half
    <3>2. 1 - M \in Int /\ -M <= 1 - M /\ 1 - M < 0 /\ M \in Nat /\ M > 0
      BY Half
    <3>3. (1 - M) % M = 1 - M + M
      BY <3>2, SmallRemainders
    <3> QED BY <3>1, <3>3, Half
  <2>2. CASE c # M - 1
    <3>1. After(c) - c = 1 /\ 1 < M /\ M \in Nat /\ M > 0
      BY <1>2, <2>2, Half
    <3>2. 1 % M = 1
      BY <3>1, SmallRemainders
    <3> QED BY <3>1, <3>2
  <2> QED BY <2>1, <2>2
<1>5. ASSUME NEW d \in 0 .. M - 1, After(d) = After(c) PROVE d = c
  <2>1. After(d) = IF d = M - 1 THEN 0 ELSE d + 1
    BY <1>1
  <2> QED BY <1>2, <1>5, <2>1, Half
<1>6. 1 < M \div 2
  BY Half
<1> QED BY <1>2, <1>3, <1>4, <1>5, <1>6

\* A header's counter is new, and both the index answered last and the next
\* are behind it.
LEMMA JumpBehind ==
  ASSUME NEW c \in 0 .. M - 1, NEW j \in Jumps
  PROVE  /\ (c + j) % M \in 0 .. M - 1 /\ (c + j) % M # c
         /\ Behind(After(c), (c + j) % M)
<1> DEFINE d == (c + j) % M
<1>1. j \in Nat /\ 2 <= j /\ j <= M \div 2 + 1
  BY JumpsAssumption, Half
<1>2. c \in Nat /\ c + j \in Int /\ M \in Nat /\ M > 0
  BY <1>1, Half
<1>3. d = IF c + j < M THEN c + j ELSE (c + j) - M
  <2>1. 0 <= c + j /\ c + j < 2 * M
    BY <1>1, Half
  <2>2. CASE c + j < M
    BY <1>2, <2>1, <2>2, SmallRemainders
  <2>3. CASE ~(c + j < M)
    <3>1. M <= c + j
      BY <1>2, <2>3
    <3>2. (c + j) % M = (c + j) - M
      BY <1>2, <2>1, <3>1, SmallRemainders
    <3> QED BY <2>3, <3>2
  <2> QED BY <2>2, <2>3
<1> HIDE DEF d
<1>4. d \in 0 .. M - 1 /\ d # c
  BY <1>1, <1>3, Half
<1>5. After(c) = IF c = M - 1 THEN 0 ELSE c + 1
  BY NextIndex
<1>6. After(c) - d = 1 - j \/ After(c) - d = 1 - j + M
  BY <1>1, <1>2, <1>3, <1>5
<1>7. (1 - j) % M = 1 - j + M /\ (1 - j + M) % M = 1 - j + M
  <2>1. 1 - j \in Int /\ 1 - j + M \in Int /\ 1 - j < 0 /\ 1 - j + M < M
    BY <1>1, Half
  <2>2. -M <= 1 - j /\ 0 <= 1 - j + M
    <3>1. j \in Int /\ M \div 2 \in Int /\ M \div 2 <= M /\ M >= 1
      BY <1>1, Half
    <3> QED BY <1>1, <3>1, Half
  <2> QED BY <1>2, <2>1, <2>2, SmallRemainders
<1>8. (After(c) - d) % M = 1 - j + M
  BY <1>6, <1>7
<1>9. ~(1 - j + M < M \div 2) /\ After(c) # d
  <2>1. ~(1 - j + M < M \div 2)
    BY <1>1, Half
  <2>2. After(c) # d
    BY <1>1, <1>3, <1>5, Half
  <2> QED BY <2>1, <2>2
<1>10. Behind(After(c), d)
  BY <1>8, <1>9 DEF Behind
<1> QED BY <1>4, <1>10 DEF d

\* Counting on in an 8-bit counter is taking the low byte of the next number.
LEMMA LowByteNext ==
  ASSUME NEW i \in Nat
  PROVE  LowByte(i + 1) = After(LowByte(i))
<1> DEFINE q == i \div M
           r == i % M
<1>1. /\ M \in Nat /\ M > 0 /\ q \in Int /\ r \in 0 .. M - 1 /\ i = M * q + r
  BY Widths
<1>2. q + 1 \in Int /\ M * (q + 1) = M * q + M
  BY <1>1
<1>3. After(r) = IF r = M - 1 THEN 0 ELSE r + 1
  BY <1>1, NextIndex
<1> DEFINE t == (i + 1) \div M
           u == (i + 1) % M
<1>4. t \in Int /\ u \in 0 .. M - 1 /\ i + 1 = M * t + u
  BY <1>1
<1>5. LowByte(i + 1) = u /\ LowByte(i) = r
  BY DEF LowByte
<1> HIDE DEF q, r, t, u
<1>6. M * (t - q) = M * t - M * q
  BY <1>1, <1>4
<1>7. M * (t - q) = r + 1 - u
  BY <1>1, <1>4, <1>6
<1>8. t - q = 0 \/ t - q = 1
  <2>1. t - q \in Int
    BY <1>1, <1>4
  <2>2. t - q < 0 => M * (t - q) <= -M
    BY <1>1, <2>1
  <2>3. t - q > 1 => M * (t - q) >= 2 * M
    BY <1>1, <2>1
  <2> QED BY <1>1, <1>4, <1>7, <2>1, <2>2, <2>3
<1>9. u = After(r)
  <2>1. CASE t - q = 0
    BY <1>1, <1>3, <1>4, <1>7, <2>1
  <2>2. CASE t - q = 1
    BY <1>1, <1>3, <1>4, <1>7, <2>2
  <2> QED BY <1>8, <2>1, <2>2
<1> QED BY <1>5, <1>9

-----------------------------------------------------------------------------
(* The handshake: where the receiver can be at each step of the sender.    *)

\* Where the receiver can be: storing what it has echoed, or waiting; and
\* where the sender is between two blocks.
Storing == {"byte_store", "store_rest"}
Waiting == {"byte_loop", "triple_loop"}
Posting == {"kind", "dest_low", "dest_high", "header"}

\* The receiver has echoed the counter posted last.
Answered ==
  /\ echo = ctr
  /\ \/ spc \in Storing /\ sy = ctr
     \/ spc \in Waiting /\ sy = After(ctr)

\* It has not, and is on its way to it.
Due(store, reads) ==
  /\ echo # ctr
  /\ \/ spc = store /\ After(sy) = ctr
     \/ spc \in reads /\ sy = ctr

\* On its way to a byte's counter,
ByteDue == Due("byte_store", {"byte_loop", "byte_data", "byte_echo"})
\* to a triple's.
TripleDue ==
  Due("store_rest", {"triple_loop", "store_one", "read_two", "read_three", "triple_echo"})

\* It has echoed a header and waits for the block's first counter.
AtStart == spc = "block_start" /\ echo = ctr /\ ctr # 0

\* It has not echoed the header posted last.
HeaderDue ==
  /\ echo # ctr
  /\ \/ spc \in {"idle", "dest_low", "dest_high", "header_counter"}
     \/ spc \in Storing /\ Behind(After(sy), ctr)
     \/ spc \in Waiting /\ Behind(sy, ctr)
     \/ spc \in {"header_kind", "header_echo"} /\ sy = ctr

\* It has echoed it, and knows whether a block follows.
HeaderHeard ==
  echo = ctr /\ spc = IF Announced = END_OF_LIST THEN "ready" ELSE "block_start"

\* The sender waits for the last echo of a block of kind k.
LastSent(k) == cpu = "block_end" /\ list[blk].kind = k

\* Where both are while the sender is at a header,
HeaderPair ==
  /\ cpu \in Posting =>
       \/ blk > 1 /\ Answered
       \/ blk = 1 /\ spc = "idle" /\ echo = ctr /\ ctr = 0
  /\ cpu = "header_echo" => /\ ctr # 0
                            /\ HeaderDue \/ HeaderHeard
                            /\ spc = "idle" => blk = 1
  /\ cpu = "finished" => spc = "ready"

\* in a block of kind 1,
BytePair ==
  /\ cpu \in {"byte", "byte_counter"} =>
       \/ idx = 0 /\ AtStart
       \/ idx > 0 /\ ctr = LowByte(idx - 1) /\ Answered
  /\ cpu = "byte_echo" \/ LastSent(ONE_BYTE) =>
       /\ idx > 0 /\ ctr = LowByte(idx - 1)
       /\ \/ Answered \/ ByteDue
          \/ spc = "block_start" /\ idx = 1 /\ echo # ctr

\* in a block of kind 3.
TriplePair ==
  /\ cpu \in {"count_low", "count_high", "opening"} => AtStart
  /\ cpu = "opening_echo" =>
       /\ ctr = 0
       /\ \/ Answered /\ spc = "triple_loop"
          \/ echo # ctr /\ spc \in SetupReads \union {"block_start"}
  /\ cpu \in {"first", "second", "third", "counter"} =>
       ctr = LowByte(idx) /\ Answered
  /\ cpu = "handshake_echo" \/ LastSent(THREE_BYTE) =>
       ctr = LowByte(idx) /\ (Answered \/ TripleDue)

\* The block the receiver is at: behind the sender's while it has not seen
\* the header that follows.
Current == IF cpu \in HeaderSteps /\ Receiving THEN blk - 1 ELSE blk

\* The receiver's steps inside a block.
BlockReads == ByteReads \union SetupReads \union TripleReads \union {"block_start"}

\* The kind each of them acts on is the kind of the block it is at.
KindPair ==
  /\ cpu \in ByteSteps => list[blk].kind = ONE_BYTE
  /\ cpu \in TripleSteps => list[blk].kind = THREE_BYTE
  /\ spc \in BlockReads => Current \in 1 .. Len(list) /\ kind = list[Current].kind
  /\ spc \in ByteReads => kind = ONE_BYTE
  /\ spc \in SetupReads \union TripleReads => kind = THREE_BYTE
  /\ spc = "header_echo" => kind = Announced
  /\ cpu \in HeaderSteps \ {"kind"} => port[1] = Announced

\* All of the handshake: the counter posted is on port 0, and of the pairs of
\* places above the two processors are always in one.
Handshake == port[0] = ctr /\ HeaderPair /\ BytePair /\ TriplePair /\ KindPair

\* It holds before the first header,
LEMMA HandshakeInit == Init => Handshake
BY Widths DEF Init, Handshake, HeaderPair, BytePair, TriplePair, KindPair, Posting,
   LastSent, HeaderSteps, ByteSteps, TripleSteps, BlockReads, ByteReads, SetupReads,
   TripleReads

\* the sender's steps keep it,
LEMMA HandshakeCpu == IInv /\ Handshake /\ CpuNext => Handshake'
<1> SUFFICES ASSUME IInv, Handshake, CpuNext PROVE Handshake'
  OBVIOUS
<1> USE DEF Handshake, HeaderPair, BytePair, TriplePair, KindPair, Posting,
   LastSent, CpuSteps, HeaderSteps, ByteSteps, TripleSteps, BlockReads, ByteReads,
   SetupReads, TripleReads, Receiving, Storing, Waiting, SpcSteps, HeaderReads
<1>0. /\ ctr \in 0 .. M - 1 /\ sy \in 0 .. M - 1 /\ echo \in 0 .. M - 1
      /\ blk \in Nat \ {0} /\ idx \in Nat /\ spc \in SpcSteps
      /\ port \in [0 .. 3 -> Nat]
  BY DEF IInv, CpuInv, SpcInv
<1>1. CASE PostKind
  BY <1>0, <1>1 DEF PostKind, Goto, Post, sent, spcVars, regs, Current, Answered, HeaderHeard,
     HeaderDue, Announced
<1>2. CASE PostDestLow
  BY <1>0, <1>2 DEF PostDestLow, Goto, Post, sent, spcVars, regs, Current, Answered, HeaderHeard,
     HeaderDue, Announced
<1>3. CASE PostDestHigh
  BY <1>0, <1>3 DEF PostDestHigh, Goto, Post, sent, spcVars, regs, Current, Answered,
     HeaderHeard, HeaderDue, Announced
<1>4. CASE PostHeader
  <2>1. PICK j \in Jumps : ctr' = (ctr + j) % M /\ ctr' # 0 /\ Post(0, ctr')
    BY <1>4 DEF PostHeader
  <2>2. cpu = "header" /\ cpu' = "header_echo" /\ UNCHANGED <<list, blk, spc, sy, echo, kind>>
    BY <1>4 DEF PostHeader, Goto, spcVars, regs
  <2>3. ctr' # ctr /\ Behind(After(ctr), ctr') /\ port'[0] = ctr' /\ port'[1] = port[1]
    BY <1>0, <2>1, JumpBehind DEF Post
  <2>4. HeaderPair'
    BY <2>1, <2>2, <2>3 DEF Answered, HeaderDue
  <2>5. BytePair' /\ TriplePair'
    BY <2>2
  <2>6. KindPair'
    BY <2>2, <2>3 DEF Current, Announced
  <2> QED BY <2>3, <2>4, <2>5, <2>6
<1>5. CASE HeaderEcho
  <2>1. /\ cpu = "header_echo" /\ echo = ctr /\ idx' = 0
        /\ UNCHANGED <<list, blk, ctr, port, spc, sy, echo, kind>>
    BY <1>5 DEF HeaderEcho, spcVars, regs
  <2>2. ctr # 0 /\ HeaderHeard
    BY <2>1 DEF HeaderDue
  <2>3. CASE Announced = END_OF_LIST
    <3>1. cpu' = "finished" /\ spc = "ready"
      BY <1>5, <2>2, <2>3 DEF HeaderEcho, HeaderHeard
    <3> QED BY <2>1, <3>1
  <2>4. CASE Announced # END_OF_LIST
    <3>1. spc = "block_start" /\ cpu' = IF Announced = THREE_BYTE THEN "count_low" ELSE "byte"
      BY <1>5, <2>2, <2>4 DEF HeaderEcho, HeaderHeard
    <3>2. blk \in 1 .. Len(list) /\ Announced = list[blk].kind
          /\ list[blk].kind \in {ONE_BYTE, THREE_BYTE}
      BY <2>4, AnnouncedFits, BlockFits DEF Announced, IInv
    <3>3. HeaderPair' /\ BytePair' /\ TriplePair'
      BY <2>1, <2>2, <3>1 DEF AtStart
    <3>4. KindPair'
      BY <2>1, <3>1, <3>2 DEF Current
    <3> QED BY <2>1, <3>3, <3>4
  <2> QED BY <2>3, <2>4
<1>6. CASE PostByte
  BY <1>0, <1>6 DEF PostByte, Goto, Post, sent, spcVars, regs, Current, Answered, AtStart, Announced
<1>7. CASE PostByteCounter
  <2>1. /\ cpu = "byte_counter" /\ cpu' \in {"block_end", "byte_echo"}
        /\ ctr' = LowByte(idx) /\ idx' = idx + 1 /\ Post(0, ctr')
        /\ UNCHANGED <<list, blk, spc, sy, echo, kind>>
    BY <1>7 DEF PostByteCounter, spcVars, regs
  <2>2. port'[0] = ctr' /\ port'[1] = port[1]
    BY <1>0, <2>1 DEF Post
  <2>3. list[blk].kind = ONE_BYTE /\ idx' - 1 = idx /\ idx' > 0
    BY <1>0, <2>1
  <2>4. \/ spc = "block_start" /\ idx' = 1 /\ echo # ctr'
        \/ ByteDue'
    <3>1. CASE idx = 0 /\ AtStart
      <4>1. ctr' = 0
        BY <2>1, <3>1, Half, SmallRemainders DEF LowByte
      <4> QED BY <2>1, <3>1, <4>1 DEF AtStart
    <3>2. CASE idx > 0 /\ ctr = LowByte(idx - 1) /\ Answered
      <4>1. ctr' = After(ctr)
        <5>1. idx - 1 \in Nat /\ (idx - 1) + 1 = idx
          BY <1>0, <3>2
        <5> QED BY <2>1, <3>2, <5>1, LowByteNext
      <4>2. After(ctr) # ctr
        BY <1>0, NextIndex
      <4>3. spc \in {"byte_store", "byte_loop"}
        BY <2>1, <2>3, <3>2 DEF Answered, Current, THREE_BYTE, ONE_BYTE
      <4> QED BY <2>1, <3>2, <4>1, <4>2, <4>3 DEF Answered, ByteDue, Due
    <3> QED BY <2>1, <3>1, <3>2
  <2>5. HeaderPair' /\ TriplePair'
    BY <2>1, <2>3 DEF ONE_BYTE, THREE_BYTE
  <2>6. BytePair'
    BY <2>1, <2>3, <2>4
  <2>7. KindPair'
    BY <2>1, <2>2 DEF Current, Announced
  <2> QED BY <2>2, <2>5, <2>6, <2>7
<1>8. CASE ByteEcho
  BY <1>0, <1>8, NextIndex DEF ByteEcho, Goto, Post, sent, spcVars, regs, Current, Answered,
     AtStart, ByteDue, Due, Announced
<1>9. CASE PostCountLow
  BY <1>0, <1>9 DEF PostCountLow, Goto, Post, sent, spcVars, regs, Current, AtStart, Announced
<1>10. CASE PostCountHigh
  BY <1>0, <1>10 DEF PostCountHigh, Goto, Post, sent, spcVars, regs, Current, AtStart, Announced
<1>11. CASE PostOpening
  BY <1>0, <1>11 DEF PostOpening, Goto, Post, sent, spcVars, regs, Current, AtStart, Announced
<1>12. CASE OpeningEcho
  <2>1. /\ cpu = "opening_echo" /\ cpu' = "first" /\ echo = ctr /\ idx' = 0
        /\ UNCHANGED <<list, blk, ctr, port, spc, sy, echo, kind>>
    BY <1>12 DEF OpeningEcho, Goto, spcVars, regs
  <2>2. LowByte(0) = 0
    BY Half, SmallRemainders DEF LowByte
  <2>3. HeaderPair' /\ BytePair' /\ TriplePair'
    BY <2>1, <2>2 DEF Answered
  <2>4. KindPair'
    BY <2>1 DEF Current, Announced
  <2> QED BY <2>1, <2>3, <2>4
<1>13. CASE PostFirst
  BY <1>0, <1>13 DEF PostFirst, Goto, Post, sent, spcVars, regs, Current, Answered, Announced
<1>14. CASE PostSecond
  BY <1>0, <1>14 DEF PostSecond, Goto, Post, sent, spcVars, regs, Current, Answered, Announced
<1>15. CASE PostThird
  BY <1>0, <1>15 DEF PostThird, Goto, Post, sent, spcVars, regs, Current, Answered, Announced
<1>16. CASE PostCounter
  <2>1. /\ cpu = "counter" /\ cpu' \in {"block_end", "handshake_echo"}
        /\ ctr' = LowByte(idx + 1) /\ idx' = idx + 1 /\ Post(0, ctr')
        /\ UNCHANGED <<list, blk, spc, sy, echo, kind>>
    BY <1>16 DEF PostCounter, spcVars, regs
  <2>2. port'[0] = ctr' /\ port'[1] = port[1]
    BY <1>0, <2>1 DEF Post
  <2>3. list[blk].kind = THREE_BYTE
    BY <2>1
  <2>4. ctr' = After(ctr) /\ After(ctr) # ctr
    BY <1>0, <2>1, LowByteNext, NextIndex
  <2>5. spc \in {"store_rest", "triple_loop"}
    BY <2>1, <2>3 DEF Answered, Current, THREE_BYTE, ONE_BYTE
  <2>6. TripleDue'
    BY <2>1, <2>4, <2>5 DEF Answered, TripleDue, Due
  <2>7. HeaderPair' /\ BytePair'
    BY <2>1, <2>3 DEF ONE_BYTE, THREE_BYTE
  <2>8. TriplePair'
    BY <2>1, <2>3, <2>6
  <2>9. KindPair'
    BY <2>1, <2>2 DEF Current, Announced
  <2> QED BY <2>2, <2>7, <2>8, <2>9
<1>17. CASE HandshakeEcho
  BY <1>0, <1>17, NextIndex DEF HandshakeEcho, Goto, Post, sent, spcVars, regs, Current,
     Answered, TripleDue, Due, Announced
<1>18. CASE BlockEnd
  <2>1. /\ cpu = "block_end" /\ cpu' = "kind" /\ echo = ctr /\ blk' = blk + 1
        /\ UNCHANGED <<list, ctr, port, spc, sy, echo, kind>>
    BY <1>18 DEF BlockEnd, Goto, spcVars, regs
  <2>2. blk <= Len(list) /\ list[blk].kind \in {ONE_BYTE, THREE_BYTE}
    <3>1. blk <= Len(list) /\ list \in Seq(Blocks)
      BY <2>1, ListsAssumption DEF IInv, CpuInv, SendingSteps
    <3>2. blk \in 1 .. Len(list)
      BY <1>0, <3>1
    <3> QED BY <3>1, <3>2, BlockFits DEF IInv
  <2>3. Answered
    BY <2>1, <2>2 DEF ByteDue, TripleDue, Due
  <2>4. HeaderPair' /\ BytePair' /\ TriplePair'
    BY <1>0, <2>1, <2>3 DEF Answered
  <2>5. Receiving /\ Current = blk
    BY <2>1, <2>3 DEF Answered, Current
  <2>6. Current' = blk
    BY <1>0, <2>1, <2>5 DEF Current
  <2>7. KindPair'
    BY <2>1, <2>3, <2>5, <2>6 DEF Answered
  <2> QED BY <2>1, <2>4, <2>7
<1> QED BY <1>1, <1>2, <1>3, <1>4, <1>5, <1>6, <1>7, <1>8, <1>9,
         <1>10, <1>11, <1>12, <1>13, <1>14, <1>15, <1>16, <1>17, <1>18
     DEF CpuNext

\* The receiver's test for a header.
LEMMA HeaderTest ==
  ASSUME IInv, port[0] = ctr
  PROVE  /\ (port[0] # sy /\ ~Ahead) <=> Behind(sy, ctr)
         /\ sy = After(ctr) => ~Behind(sy, ctr) /\ sy # ctr
<1>1. ctr \in 0 .. M - 1
  BY DEF IInv, CpuInv
<1>2. (After(ctr) - ctr) % M < M \div 2 /\ After(ctr) # ctr
  BY <1>1, NextIndex
<1> QED BY <1>2 DEF Ahead, Behind

\* and so do the receiver's.
LEMMA HandshakeSpc == IInv /\ Handshake /\ SpcNext => Handshake'
<1> SUFFICES ASSUME IInv, Handshake, SpcNext PROVE Handshake'
  OBVIOUS
<1> USE DEF Handshake, HeaderPair, BytePair, TriplePair, KindPair, Posting,
   LastSent, CpuSteps, HeaderSteps, ByteSteps, TripleSteps, BlockReads, ByteReads,
   SetupReads, TripleReads, Receiving, Storing, Waiting, SpcSteps, HeaderReads
<1>0. /\ ctr \in 0 .. M - 1 /\ sy \in 0 .. M - 1 /\ echo \in 0 .. M - 1
      /\ blk \in Nat \ {0} /\ idx \in Nat /\ spc \in SpcSteps /\ cpu \in CpuSteps
  BY DEF IInv, CpuInv, SpcInv
<1>a. /\ (port[0] # sy /\ ~Ahead) <=> Behind(sy, ctr)
      /\ sy = After(ctr) => ~Behind(sy, ctr) /\ sy # ctr
  BY HeaderTest
<1>b. ASSUME cpu \in SendingSteps
      PROVE  list[blk].kind \in {ONE_BYTE, THREE_BYTE}
  <2>1. blk <= Len(list) /\ list \in Seq(Blocks)
    BY <1>b, ListsAssumption DEF IInv, CpuInv
  <2>2. blk \in 1 .. Len(list)
    BY <1>0, <2>1
  <2> QED BY <2>1, <2>2, BlockFits DEF IInv
<1> USE DEF SendingSteps, Answered, AtStart, Due, ByteDue, TripleDue, HeaderDue, HeaderHeard,
   Current, Announced
<1>1. CASE AwaitList
  BY <1>0, <1>b, <1>1 DEF AwaitList, Step, cpuVars, sent, regs
<1>2. CASE BlockStart
  <2>1. /\ spc = "block_start" /\ ctr = 0 /\ sy' = 0 /\ spc' = Dispatch
        /\ UNCHANGED <<list, port, cpu, blk, ctr, idx, echo, kind>>
    BY <1>2 DEF BlockStart, cpuVars, sent
  <2>2. /\ cpu \in {"byte_echo", "block_end", "opening_echo"} /\ echo # ctr
        /\ kind = list[blk].kind
    BY <1>0, <1>b, <2>1
  <2>3. CASE kind = ONE_BYTE
    <3>1. spc' = "byte_loop" /\ cpu # "opening_echo"
      BY <2>1, <2>2, <2>3 DEF Dispatch, ONE_BYTE, THREE_BYTE
    <3>2. BytePair'
      BY <2>1, <2>2, <2>3, <3>1
    <3> QED BY <2>1, <2>2, <2>3, <3>1, <3>2 DEF ONE_BYTE, THREE_BYTE
  <2>4. CASE kind # ONE_BYTE
    <3>1. kind = THREE_BYTE /\ cpu = "opening_echo" /\ spc' = "n_low"
      BY <1>b, <2>1, <2>2, <2>4 DEF Dispatch, ONE_BYTE, THREE_BYTE
    <3> QED BY <2>1, <2>2, <3>1
  <2> QED BY <2>3, <2>4
<1>3. CASE ByteLoop
  BY <1>0, <1>a, <1>b, <1>3 DEF ByteLoop, Step, cpuVars, sent, regs
<1>4. CASE ByteData
  BY <1>0, <1>b, <1>4 DEF ByteData, Step, cpuVars, sent, regs
<1>5. CASE ByteEchoed
  BY <1>0, <1>b, <1>5 DEF ByteEchoed, Step, cpuVars, sent, regs
<1>6. CASE ByteStore
  BY <1>0, <1>b, <1>6 DEF ByteStore, Step, cpuVars, sent, regs, After
<1>7. CASE SetupCountLow
  BY <1>0, <1>b, <1>7 DEF SetupCountLow, Step, cpuVars, sent, regs
<1>8. CASE SetupStreamTwo
  BY <1>0, <1>b, <1>8 DEF SetupStreamTwo, Step, cpuVars, sent, regs
<1>9. CASE SetupCountLowAgain
  BY <1>0, <1>b, <1>9 DEF SetupCountLowAgain, Step, cpuVars, sent, regs
<1>10. CASE SetupStreamThree
  BY <1>0, <1>b, <1>10 DEF SetupStreamThree, Step, cpuVars, sent, regs
<1>11. CASE SetupEcho
  BY <1>0, <1>b, <1>11, Half, NextIndex DEF SetupEcho, Step, cpuVars, sent, regs
<1>12. CASE TripleLoop
  BY <1>0, <1>a, <1>b, <1>12 DEF TripleLoop, Step, cpuVars, sent, regs
<1>13. CASE StoreOne
  BY <1>0, <1>b, <1>13 DEF StoreOne, Step, cpuVars, sent, regs
<1>14. CASE ReadTwo
  BY <1>0, <1>b, <1>14 DEF ReadTwo, Step, cpuVars, sent, regs
<1>15. CASE ReadThree
  BY <1>0, <1>b, <1>15 DEF ReadThree, Step, cpuVars, sent, regs
<1>16. CASE TripleEcho
  BY <1>0, <1>b, <1>16 DEF TripleEcho, Step, cpuVars, sent, regs
<1>17. CASE StoreRest
  BY <1>0, <1>b, <1>17 DEF StoreRest, Step, cpuVars, sent, regs, After
<1>18. CASE HeaderDestLow
  BY <1>0, <1>b, <1>18 DEF HeaderDestLow, Step, cpuVars, sent, regs
<1>19. CASE HeaderDestHigh
  BY <1>0, <1>b, <1>19 DEF HeaderDestHigh, Step, cpuVars, sent, regs
<1>20. CASE HeaderCounter
  BY <1>0, <1>b, <1>20 DEF HeaderCounter, Step, cpuVars, sent, regs
<1>21. CASE HeaderKind
  BY <1>0, <1>b, <1>21 DEF HeaderKind, Step, cpuVars, sent, regs
<1>22. CASE HeaderEchoed
  BY <1>0, <1>b, <1>22, AnnouncedFits DEF HeaderEchoed, Step, cpuVars, sent, regs, IInv
<1> QED BY <1>1, <1>2, <1>3, <1>4, <1>5, <1>6, <1>7, <1>8, <1>9,
         <1>10, <1>11, <1>12, <1>13, <1>14, <1>15, <1>16, <1>17, <1>18, <1>19,
         <1>20, <1>21, <1>22
     DEF SpcNext

\* So it always holds.
LEMMA HandshakeInvariance == Spec => [](IInv /\ Handshake)
<1>1. IInv /\ Handshake /\ [Next]_vars => Handshake'
  <2> SUFFICES ASSUME IInv, Handshake, UNCHANGED vars PROVE Handshake'
    BY HandshakeCpu, HandshakeSpc DEF Next, Uploaded
  <2>1. UNCHANGED <<port, ctr, cpu, blk, list, idx, spc, echo, sy, kind>>
    BY DEF vars, cpuVars, spcVars, sent, regs
  <2> QED BY <2>1 DEF Handshake, HeaderPair, BytePair, TriplePair, KindPair, LastSent,
          Answered, AtStart, Due, ByteDue, TripleDue, HeaderDue, HeaderHeard, Current,
          Announced, Receiving
<1> QED BY Invariance, HandshakeInit, <1>1, PTL DEF Spec

\* Whenever the sender is about to post, there is nothing the receiver has
\* still to read.
LEMMA NothingToRead ==
  ASSUME IInv, Handshake, cpu \in CpuSteps,
         cpu \notin {"header_echo", "byte_echo", "opening_echo", "handshake_echo",
                     "block_end", "finished"}
  PROVE  ToRead = {}
<1> USE DEF CpuSteps, HeaderSteps, ByteSteps, TripleSteps
<1>1. \/ Answered
      \/ spc = "idle"
      \/ AtStart
  BY DEF Handshake, HeaderPair, BytePair, TriplePair, Posting
<1>2. spc # "block_start" \/ port[0] # 0
  BY <1>1 DEF Handshake, AtStart, Answered, Storing, Waiting
<1>3. spc \in Waiting => ~Noticed /\ Ahead
  <2> SUFFICES ASSUME spc \in Waiting PROVE ~Noticed /\ Ahead
    OBVIOUS
  <2>1. sy = After(ctr)
    BY <1>1 DEF Answered, AtStart, Storing, Waiting
  <2> QED BY <2>1, HeaderTest DEF Handshake, Noticed, Behind
<1>4. spc \in {"idle", "block_start", "byte_store", "store_rest", "byte_loop", "triple_loop"}
  BY <1>1 DEF Answered, AtStart, Storing, Waiting
<1> QED BY <1>2, <1>3, <1>4 DEF ToRead, Waiting

(* The 65816 never changes a port the receiver has still to read: whatever *)
(* it posts, it posts when there is nothing left to read, so no handshake  *)
(* needs a delay loop.                                                     *)
THEOREM PortsAreHeldStill == Spec => PortsHoldStill
<1>1. IInv /\ Handshake /\ [Next]_vars => [\A p \in ToRead : port'[p] = port[p]]_vars
  <2> SUFFICES ASSUME IInv, Handshake, Next, NEW p \in ToRead PROVE port'[p] = port[p]
    OBVIOUS
  <2>1. CASE cpu \in {"header_echo", "byte_echo", "opening_echo", "handshake_echo",
                      "block_end", "finished"} \/ SpcNext \/ Uploaded
    <3>1. UNCHANGED port
      BY <2>1 DEF Next, CpuNext, PostKind, PostDestLow, PostDestHigh, PostHeader,
           HeaderEcho, PostByte, PostByteCounter, ByteEcho, PostCountLow,
           PostCountHigh, PostOpening, OpeningEcho, PostFirst, PostSecond,
           PostThird, PostCounter, HandshakeEcho, BlockEnd, Goto, Uploaded, vars, cpuVars,
           SpcNext, AwaitList, BlockStart, ByteLoop, ByteData, ByteEchoed,
           ByteStore, SetupCountLow, SetupStreamTwo, SetupCountLowAgain,
           SetupStreamThree, SetupEcho, TripleLoop, StoreOne, ReadTwo, ReadThree,
           TripleEcho, StoreRest, HeaderDestLow, HeaderDestHigh, HeaderCounter,
           HeaderKind, HeaderEchoed
    <3> QED BY <3>1
  <2>2. CASE cpu \notin {"header_echo", "byte_echo", "opening_echo", "handshake_echo",
                         "block_end", "finished"}
    <3>1. cpu \in CpuSteps
      BY DEF IInv, CpuInv
    <3> QED BY <2>2, <3>1, NothingToRead
  <2> QED BY <2>1, <2>2
<1> QED BY HandshakeInvariance, <1>1, PTL DEF Spec, PortsHoldStill

-----------------------------------------------------------------------------
(* The sender: what it still has to send and what it has posted.           *)

\* What a block of the list says, and where the next one lies.
LEMMA BlockLaidOut ==
  ASSUME CpuInv, NEW k \in 1 .. Len(list)
  PROVE  /\ list[k].dest \in Nat /\ list[k].len \in Nat /\ list[k].src \in Nat
         /\ list[k].len > 0 /\ list[k].dest > 0
         /\ list[k].kind \in {ONE_BYTE, THREE_BYTE}
         /\ list[k].dest + list[k].len + 2 <= Word
         /\ k + 1 <= Len(list) =>
              /\ list[k + 1].dest = list[k].dest + list[k].len
              /\ list[k + 1].src = list[k].src + list[k].len + RecordHead
<1>1. list \in Seq(Blocks) /\ WellLaidOut(list)
  BY ListsAssumption DEF CpuInv
<1>2. list[k] \in Blocks
  BY <1>1
<1>3. /\ list[k].dest \in Nat /\ list[k].len \in Nat /\ list[k].src \in Nat
      /\ list[k].len > 0 /\ list[k].dest > 0
      /\ list[k].kind \in {ONE_BYTE, THREE_BYTE}
  BY <1>2, Widths DEF Blocks
<1>4. list[k].dest + list[k].len + 2 <= Word
  BY <1>1 DEF WellLaidOut
<1>5. ASSUME k + 1 <= Len(list)
      PROVE  /\ list[k + 1].dest = list[k].dest + list[k].len
             /\ list[k + 1].src = list[k].src + list[k].len + RecordHead
  <2>1. k \in 1 .. Len(list) - 1
    BY <1>1, <1>5
  <2> QED BY <1>1, <2>1 DEF WellLaidOut
<1> QED BY <1>3, <1>4, <1>5

\* The three streams cover the block and run over it by two bytes at most.
LEMMA StreamsCover ==
  ASSUME NEW len \in Nat, len > 0
  PROVE  /\ Handshakes(len) \in Nat /\ Handshakes(len) > 0 /\ Handshakes(len) <= len
         /\ len <= 3 * Handshakes(len) /\ 3 * Handshakes(len) <= len + 2
BY DEF Handshakes

\* The source pointer is the block's, and what is sent and what is left add
\* up to it.
SentInv ==
  /\ blk <= Len(list) + 1
  /\ cpu \in HeaderSteps /\ blk <= Len(list) => y = list[blk].src - RecordHead
  /\ cpu \in ByteSteps \union TripleSteps => y = list[blk].src
  /\ cpu \in ByteSteps => x + idx = list[blk].len
  /\ cpu = "count_low" => x = list[blk].len
  /\ cpu \in TripleSteps \ {"count_low"} => n = Handshakes(list[blk].len)
  /\ cpu \in {"first", "second", "third", "counter", "handshake_echo"} => x + idx = n
  /\ cpu = "block_end" /\ blk + 1 <= Len(list) => y = list[blk + 1].src - RecordHead
  /\ LastSent(ONE_BYTE) => idx = list[blk].len
  /\ LastSent(THREE_BYTE) => n = Handshakes(list[blk].len) /\ idx = n

\* True of the first block,
LEMMA SentInit == Init => SentInv
<1> SUFFICES ASSUME Init PROVE SentInv
  OBVIOUS
<1>1. /\ cpu = "kind" /\ blk = 1 /\ list \in Seq(Blocks)
      /\ y = IF list = <<>> THEN 0 ELSE list[1].src - RecordHead
  BY ListsAssumption DEF Init
<1>2. blk <= Len(list) => y = list[blk].src - RecordHead
  BY <1>1
<1>3. blk <= Len(list) + 1
  BY <1>1
<1> QED BY <1>1, <1>2, <1>3 DEF SentInv, HeaderSteps, ByteSteps, TripleSteps, LastSent

\* and kept by every step of the sender.
LEMMA SentCpu == IInv /\ Handshake /\ SentInv /\ CpuNext => SentInv'
<1> SUFFICES ASSUME IInv, Handshake, SentInv, CpuNext PROVE SentInv'
  OBVIOUS
<1> USE DEF HeaderSteps, ByteSteps, TripleSteps, LastSent, SentInv
<1>0. /\ blk \in Nat \ {0} /\ x \in Nat /\ y \in Nat /\ idx \in Nat /\ n \in Nat
      /\ list \in Seq(Blocks) /\ RecordHead \in Nat /\ CpuInv
  BY ListsAssumption, RecordHeadAssumption DEF IInv, CpuInv
<1>1. CASE cpu \in {"kind", "dest_low", "dest_high", "header"}
  <2>1. UNCHANGED <<list, blk, y, x, idx, n>> /\ cpu' \in HeaderSteps
    BY <1>1 DEF CpuNext, PostKind, PostDestLow, PostDestHigh, PostHeader,
           HeaderEcho, PostByte, PostByteCounter, ByteEcho, PostCountLow,
           PostCountHigh, PostOpening, OpeningEcho, PostFirst, PostSecond,
           PostThird, PostCounter, HandshakeEcho, BlockEnd, Goto, sent
  <2> QED BY <1>1, <2>1
<1>2. CASE HeaderEcho
  <2>1. CASE Announced = END_OF_LIST
    <3>1. cpu' = "finished" /\ UNCHANGED <<list, blk>>
      BY <1>2, <2>1 DEF HeaderEcho
    <3> QED BY <3>1
  <2>2. CASE Announced # END_OF_LIST
    <3>1. blk \in 1 .. Len(list) /\ Announced = list[blk].kind
      BY <1>0, <2>2, AnnouncedFits DEF Announced
    <3>2. /\ cpu = "header_echo" /\ cpu' \in {"count_low", "byte"}
          /\ idx' = 0 /\ x' = list[blk].len /\ y' = y + RecordHead
          /\ UNCHANGED <<list, blk, n>>
      BY <1>2, <2>2 DEF HeaderEcho
    <3>3. y' = list[blk].src /\ x' + idx' = list[blk].len
      <4>1. list[blk].src \in Nat /\ list[blk].len \in Nat
        BY <1>0, <3>1, BlockLaidOut
      <4>2. y = list[blk].src - RecordHead
        BY <1>0, <3>1, <3>2
      <4>3. y' = list[blk].src
        BY <1>0, <3>2, <4>1, <4>2
      <4>4. x' + idx' = list[blk].len
        BY <3>2, <4>1
      <4> QED BY <4>3, <4>4
    <3> QED BY <1>0, <3>1, <3>2, <3>3
  <2> QED BY <2>1, <2>2
<1>3. CASE PostByte \/ ByteEcho
  <2>1. /\ cpu \in ByteSteps /\ cpu' \in ByteSteps
        /\ UNCHANGED <<list, blk, y, x, idx, n>>
    BY <1>3 DEF PostByte, ByteEcho, Goto, sent
  <2> QED BY <2>1
<1>4. CASE PostByteCounter
  <2>1. blk \in 1 .. Len(list)
    BY <1>0, <1>4 DEF CpuInv, PostByteCounter, SendingSteps, CpuSteps
  <2>2. list[blk].kind = ONE_BYTE
    BY <1>4 DEF PostByteCounter, Handshake, KindPair
  <2>3. /\ cpu = "byte_counter" /\ idx' = idx + 1 /\ x' = x - 1
        /\ UNCHANGED <<list, blk, n>>
        /\ \/ x = 1 /\ cpu' = "block_end" /\ y' = y + list[blk].len
           \/ x # 1 /\ cpu' = "byte_echo" /\ y' = y
    BY <1>4 DEF PostByteCounter
  <2>4. x + idx = list[blk].len /\ y = list[blk].src /\ x' + idx' = list[blk].len
    BY <1>0, <2>3
  <2>5. CASE x = 1
    <3>1. idx' = list[blk].len
      BY <1>0, <2>3, <2>4, <2>5
    <3>2. blk + 1 <= Len(list) => y' = list[blk + 1].src - RecordHead
      <4> DEFINE s == list[blk].src
                 l == list[blk].len
                 t == list[blk + 1].src
      <4>1. s \in Nat /\ l \in Nat /\ (blk + 1 <= Len(list) => t = s + l + RecordHead)
        BY <1>0, <2>1, BlockLaidOut
      <4>2. y' = s + l
        BY <2>3, <2>4, <2>5
      <4> HIDE DEF s, l, t
      <4>3. blk + 1 <= Len(list) => y' = t - RecordHead
        BY <1>0, <4>1, <4>2
      <4> QED BY <4>3 DEF t
    <3> QED BY <1>0, <2>2, <2>3, <2>5, <3>1, <3>2 DEF ONE_BYTE, THREE_BYTE
  <2>6. CASE x # 1
    BY <1>0, <2>3, <2>4, <2>6
  <2> QED BY <2>5, <2>6
<1>5. CASE PostCountLow
  BY <1>0, <1>5 DEF PostCountLow, Goto
<1>6. CASE PostCountHigh \/ PostOpening
  <2>1. /\ cpu \in TripleSteps \ {"count_low"} /\ cpu' \in {"opening", "opening_echo"}
        /\ UNCHANGED <<list, blk, y, x, idx, n>>
    BY <1>6 DEF PostCountHigh, PostOpening, Goto, sent
  <2> QED BY <2>1
<1>7. CASE OpeningEcho
  BY <1>0, <1>7 DEF OpeningEcho, Goto
<1>8. CASE PostFirst \/ PostSecond \/ PostThird \/ HandshakeEcho
  <2>1. /\ cpu \in {"first", "second", "third", "handshake_echo"}
        /\ cpu' \in {"first", "second", "third", "counter"}
        /\ UNCHANGED <<list, blk, y, x, idx, n>>
    BY <1>8 DEF PostFirst, PostSecond, PostThird, HandshakeEcho, Goto, sent
  <2> QED BY <2>1
<1>9. CASE PostCounter
  <2>1. blk \in 1 .. Len(list)
    BY <1>0, <1>9 DEF CpuInv, PostCounter, SendingSteps, CpuSteps
  <2>2. list[blk].kind = THREE_BYTE
    BY <1>9 DEF PostCounter, Handshake, KindPair
  <2>3. /\ cpu = "counter" /\ idx' = idx + 1 /\ x' = x - 1
        /\ UNCHANGED <<list, blk, n>>
        /\ \/ x = 1 /\ cpu' = "block_end" /\ y' = y + list[blk].len
           \/ x # 1 /\ cpu' = "handshake_echo" /\ y' = y
    BY <1>9 DEF PostCounter
  <2>4. x + idx = n /\ y = list[blk].src /\ x' + idx' = n
        /\ n = Handshakes(list[blk].len)
    BY <1>0, <2>3
  <2>5. CASE x = 1
    <3>1. idx' = n
      BY <1>0, <2>3, <2>4, <2>5
    <3>2. blk + 1 <= Len(list) => y' = list[blk + 1].src - RecordHead
      <4> DEFINE s == list[blk].src
                 l == list[blk].len
                 t == list[blk + 1].src
      <4>1. s \in Nat /\ l \in Nat /\ (blk + 1 <= Len(list) => t = s + l + RecordHead)
        BY <1>0, <2>1, BlockLaidOut
      <4>2. y' = s + l
        BY <2>3, <2>4, <2>5
      <4> HIDE DEF s, l, t
      <4>3. blk + 1 <= Len(list) => y' = t - RecordHead
        BY <1>0, <4>1, <4>2
      <4> QED BY <4>3 DEF t
    <3> QED BY <1>0, <2>2, <2>3, <2>4, <2>5, <3>1, <3>2 DEF ONE_BYTE, THREE_BYTE
  <2>6. CASE x # 1
    BY <1>0, <2>3, <2>4, <2>6
  <2> QED BY <2>5, <2>6
<1>10. CASE BlockEnd
  <2>1. /\ cpu = "block_end" /\ cpu' = "kind" /\ blk' = blk + 1
        /\ UNCHANGED <<list, y, x, idx, n>> /\ blk <= Len(list)
    BY <1>0, <1>10 DEF CpuInv, BlockEnd, Goto, SendingSteps, CpuSteps
  <2>2. Len(list) \in Nat
    BY <1>0
  <2> QED BY <1>0, <2>1, <2>2
<1>11. cpu \in {"kind", "dest_low", "dest_high", "header"} \/ HeaderEcho
       \/ PostByte \/ ByteEcho \/ PostByteCounter \/ PostCountLow \/ PostCountHigh
       \/ PostOpening \/ OpeningEcho \/ PostFirst \/ PostSecond \/ PostThird
       \/ HandshakeEcho \/ PostCounter \/ BlockEnd
  BY DEF CpuNext, PostKind, PostDestLow, PostDestHigh, PostHeader, Goto
<1> QED BY <1>1, <1>2, <1>3, <1>4, <1>5, <1>6, <1>7, <1>8, <1>9, <1>10, <1>11

\* The ports carry what the sender's place says they carry.
PostedInv ==
  /\ cpu \in {"dest_high", "header", "header_echo"} => port[2] = LowByte(Destination)
  /\ cpu \in {"header", "header_echo"} => port[3] = HighByte(Destination)
  /\ cpu = "byte_counter" => port[1] = list[blk].src + idx
  /\ cpu = "byte_echo" \/ LastSent(ONE_BYTE) => port[1] = list[blk].src + (idx - 1)
  /\ cpu \in {"count_high", "opening", "opening_echo"} => port[2] = LowByte(n)
  /\ cpu \in {"opening", "opening_echo"} => port[3] = HighByte(n)
  /\ cpu \in {"second", "third", "counter"} => port[1] = list[blk].src + idx
  /\ cpu \in {"third", "counter"} => port[2] = list[blk].src + n + idx
  /\ cpu = "counter" => port[3] = list[blk].src + 2 * n + idx
  /\ cpu = "handshake_echo" \/ LastSent(THREE_BYTE) =>
       /\ port[1] = list[blk].src + (idx - 1)
       /\ port[2] = list[blk].src + n + (idx - 1)
       /\ port[3] = list[blk].src + 2 * n + (idx - 1)

\* Every step of the sender keeps that.
LEMMA PostedCpu == IInv /\ Handshake /\ SentInv /\ PostedInv /\ CpuNext => PostedInv'
<1> SUFFICES ASSUME IInv, Handshake, SentInv, PostedInv, CpuNext PROVE PostedInv'
  OBVIOUS
<1> USE DEF PostedInv, LastSent
<1>0. /\ blk \in Nat \ {0} /\ x \in Nat /\ y \in Nat /\ idx \in Nat /\ n \in Nat
      /\ list \in Seq(Blocks) /\ port \in [0 .. 3 -> Nat] /\ CpuInv
      /\ 0 \in 0 .. 3 /\ 1 \in 0 .. 3 /\ 2 \in 0 .. 3 /\ 3 \in 0 .. 3
  BY ListsAssumption DEF IInv, CpuInv
<1>1. CASE PostKind \/ PostDestLow \/ PostDestHigh \/ PostHeader
  <2>1. UNCHANGED <<list, blk>> /\ Destination' = Destination
    BY <1>1 DEF PostKind, PostDestLow, PostDestHigh, PostHeader, sent, Destination
  <2>2. CASE PostKind
    BY <2>2 DEF PostKind, Goto
  <2>3. CASE PostDestLow
    <3>1. cpu' = "dest_high" /\ port'[2] = LowByte(Destination)
      BY <1>0, <2>3 DEF PostDestLow, Goto, Post
    <3> QED BY <2>1, <3>1
  <2>4. CASE PostDestHigh
    <3>1. /\ cpu = "dest_high" /\ cpu' = "header" /\ port'[3] = HighByte(Destination)
          /\ port'[2] = port[2]
      BY <1>0, <2>4 DEF PostDestHigh, Goto, Post
    <3> QED BY <2>1, <3>1
  <2>5. CASE PostHeader
    <3>1. /\ cpu = "header" /\ cpu' = "header_echo" /\ port'[3] = port[3]
          /\ port'[2] = port[2]
      BY <1>0, <2>5 DEF PostHeader, Goto, Post
    <3> QED BY <2>1, <3>1
  <2> QED BY <1>1, <2>2, <2>3, <2>4, <2>5
<1>2. CASE HeaderEcho
  <2>1. cpu' \in {"finished", "count_low", "byte"}
    BY <1>2 DEF HeaderEcho
  <2> QED BY <2>1
<1>3. CASE PostByte
  <2>1. y = list[blk].src
    BY <1>3 DEF SentInv, PostByte, Goto, ByteSteps
  <2> QED BY <1>0, <1>3, <2>1 DEF PostByte, Goto, Post, sent
<1>4. CASE PostByteCounter
  <2>1. list[blk].kind = ONE_BYTE
    BY <1>4 DEF PostByteCounter, Handshake, KindPair, ByteSteps
  <2>2. /\ port'[1] = list[blk].src + idx /\ UNCHANGED <<list, blk>> /\ idx' - 1 = idx
        /\ cpu' \in {"block_end", "byte_echo"}
    BY <1>0, <1>4 DEF PostByteCounter, Post
  <2> QED BY <2>1, <2>2 DEF ONE_BYTE, THREE_BYTE
<1>5. CASE ByteEcho \/ HandshakeEcho \/ BlockEnd \/ OpeningEcho
  <2>1. cpu' \in {"byte", "first", "kind"}
    BY <1>5 DEF ByteEcho, HandshakeEcho, BlockEnd, OpeningEcho, Goto
  <2> QED BY <2>1
<1>6. CASE PostCountLow \/ PostCountHigh \/ PostOpening
  <2>1. CASE PostCountLow
    <3>1. cpu' = "count_high" /\ port'[2] = LowByte(n')
      BY <1>0, <2>1 DEF PostCountLow, Goto, Post
    <3> QED BY <3>1
  <2>2. CASE PostCountHigh
    <3>1. /\ cpu = "count_high" /\ cpu' = "opening" /\ port'[3] = HighByte(n)
          /\ port'[2] = port[2] /\ n' = n
      BY <1>0, <2>2 DEF PostCountHigh, Goto, Post, sent
    <3> QED BY <3>1
  <2>3. CASE PostOpening
    <3>1. /\ cpu = "opening" /\ cpu' = "opening_echo" /\ port'[3] = port[3]
          /\ port'[2] = port[2] /\ n' = n
      BY <1>0, <2>3 DEF PostOpening, Goto, Post
    <3> QED BY <3>1
  <2> QED BY <1>6, <2>1, <2>2, <2>3
<1>7. CASE PostFirst \/ PostSecond \/ PostThird
  <2>1. y = list[blk].src
    BY <1>7 DEF SentInv, PostFirst, PostSecond, PostThird, Goto, TripleSteps
  <2>2. UNCHANGED <<list, blk, idx, n>>
    BY <1>7 DEF PostFirst, PostSecond, PostThird, sent
  <2>3. CASE PostFirst
    <3>1. cpu' = "second" /\ port'[1] = list[blk].src + idx
      BY <1>0, <2>1, <2>3 DEF PostFirst, Goto, Post
    <3> QED BY <2>2, <3>1
  <2>4. CASE PostSecond
    <3>1. /\ cpu = "second" /\ cpu' = "third" /\ port'[1] = port[1]
          /\ port'[2] = list[blk].src + n + idx
      BY <1>0, <2>1, <2>4 DEF PostSecond, Goto, Post
    <3> QED BY <2>2, <3>1
  <2>5. CASE PostThird
    <3>1. /\ cpu = "third" /\ cpu' = "counter" /\ port'[1] = port[1] /\ port'[2] = port[2]
          /\ port'[3] = list[blk].src + 2 * n + idx
      BY <1>0, <2>1, <2>5 DEF PostThird, Goto, Post
    <3> QED BY <2>2, <3>1
  <2> QED BY <1>7, <2>3, <2>4, <2>5
<1>8. CASE PostCounter
  <2>1. list[blk].kind = THREE_BYTE
    BY <1>8 DEF PostCounter, Handshake, KindPair, TripleSteps
  <2>2. /\ port'[1] = list[blk].src + idx
        /\ port'[2] = list[blk].src + n + idx
        /\ port'[3] = list[blk].src + 2 * n + idx
        /\ UNCHANGED <<list, blk, n>> /\ idx' - 1 = idx
        /\ cpu' \in {"block_end", "handshake_echo"}
    BY <1>0, <1>8 DEF PostCounter, Post
  <2> QED BY <2>1, <2>2 DEF ONE_BYTE, THREE_BYTE
<1> QED BY <1>1, <1>2, <1>3, <1>4, <1>5, <1>6, <1>7, <1>8 DEF CpuNext

\* A block lies above every block before it.
Ordered ==
  \A m \in 1 .. Len(list) :
    m <= blk => \A k \in 1 .. m - 1 : list[k].dest + list[k].len <= list[m].dest

\* The next block lies above the ones before it too.
LEMMA OrderedNext ==
  ASSUME CpuInv, Ordered, blk' = blk + 1, list' = list
  PROVE  Ordered'
<1>1. list \in Seq(Blocks) /\ blk \in Nat \ {0}
  BY ListsAssumption DEF CpuInv
<1> SUFFICES ASSUME NEW m \in 1 .. Len(list), m <= blk + 1, NEW k \in 1 .. m - 1
             PROVE  list[k].dest + list[k].len <= list[m].dest
  BY DEF Ordered
<1>2. CASE m <= blk
  BY <1>2 DEF Ordered
<1>3. CASE ~(m <= blk)
  <2>1. m = blk + 1 /\ blk \in 1 .. Len(list) /\ blk + 1 <= Len(list) /\ k \in 1 .. Len(list)
    BY <1>1, <1>3
  <2> DEFINE b == list[blk].dest
             e == list[blk].len
  <2>2. list[m].dest = b + e /\ b \in Nat /\ e \in Nat
    BY <2>1, BlockLaidOut
  <2>3. CASE k = blk
    BY <2>2, <2>3
  <2>4. CASE k # blk
    <3> DEFINE c == list[k].dest + list[k].len
    <3>1. k \in 1 .. blk - 1
      BY <1>1, <2>1, <2>4
    <3>2. c <= b
      BY <2>1, <3>1 DEF Ordered
    <3>3. c \in Nat
      BY <2>1, BlockLaidOut
    <3>4. c <= b + e
      <4> HIDE DEF b, e, c
      <4> QED BY <2>2, <3>2, <3>3
    <3> QED BY <2>2, <3>4
  <2> QED BY <2>3, <2>4
<1> QED BY <1>2, <1>3

\* The sender's part of the invariant.
SenderInv == SentInv /\ PostedInv /\ Ordered

\* True at the start,
LEMMA SenderInit == Init => SenderInv
<1> SUFFICES ASSUME Init PROVE SenderInv
  OBVIOUS
<1>1. PostedInv
  BY DEF Init, PostedInv, LastSent
<1>2. Ordered
  BY DEF Init, Ordered
<1> QED BY <1>1, <1>2, SentInit DEF SenderInv

\* kept by the sender,
LEMMA SenderCpu == IInv /\ Handshake /\ SenderInv /\ CpuNext => SenderInv'
<1> SUFFICES ASSUME IInv, Handshake, SenderInv, CpuNext PROVE SenderInv'
  OBVIOUS
<1>1. Ordered'
  <2>1. CASE BlockEnd
    BY <2>1, OrderedNext DEF BlockEnd, SenderInv, IInv
  <2>2. CASE ~BlockEnd
    <3>1. UNCHANGED <<list, blk>>
      BY <2>2 DEF CpuNext, PostKind, PostDestLow, PostDestHigh, PostHeader,
         HeaderEcho, PostByte, PostByteCounter, ByteEcho, PostCountLow,
         PostCountHigh, PostOpening, OpeningEcho, PostFirst, PostSecond,
         PostThird, PostCounter, HandshakeEcho, sent
    <3> QED BY <3>1 DEF SenderInv, Ordered
  <2> QED BY <2>1, <2>2
<1> QED BY <1>1, SentCpu, PostedCpu DEF SenderInv

\* and out of the receiver's reach.
LEMMA SenderKept == SenderInv /\ UNCHANGED cpuVars => SenderInv'
<1> SUFFICES ASSUME SenderInv, UNCHANGED cpuVars PROVE SenderInv'
  OBVIOUS
<1>1. UNCHANGED <<cpu, port, list, blk, y, x, idx, n, ctr>>
  BY DEF cpuVars, sent
<1> QED BY <1>1 DEF SenderInv, SentInv, PostedInv, Ordered, LastSent, Destination

-----------------------------------------------------------------------------
(* The receiver: where its pointers stand and what has arrived.            *)

\* How far its first pointer is into the block.
At == (dest + sy) - list[Current].dest

\* The counters posted whose bytes it has not all stored.
Owed ==
  IF spc \in Waiting THEN (IF sy = ctr THEN 1 ELSE 0)
  ELSE IF spc \in Storing /\ After(sy) = ctr THEN 2 ELSE 1

\* The handshakes of its block.
Count == IF kind = ONE_BYTE THEN list[Current].len ELSE n

\* Inside a block the pointer is as far in as the counters answered: behind
\* the sender's index by the ones owed.
Position ==
  spc \in ByteReads \union TripleReads =>
    /\ At >= 0
    /\ At = IF cpu = "opening_echo" THEN 0 ELSE idx - Owed
    /\ cpu \in HeaderSteps => idx = Count

\* The pointers stand where the header, the setup and the stores put them.
\* (The last two of the three may leave sound RAM behind the last handshake.)
PointerInv ==
  /\ spc = "dest_high" => ra = LowByte(Destination)
  /\ spc \in {"header_counter", "header_kind", "header_echo"} => dest = Destination
  /\ spc \in {"block_start", "n_low"} => dest = list[Current].dest
  /\ spc \in SetupReads \ {"n_low"} => dest = list[Current].dest - 1
  /\ spc \in {"n_high", "m_high"} => ra = LowByte(n)
  /\ spc \in {"m_low", "m_high", "triple_open"} => two = dest + n
  /\ spc = "triple_open" => three = dest + 2 * n
  /\ spc \in TripleReads =>
       /\ n = Handshakes(list[Current].len)
       /\ At < n => two = dest + n
       /\ At < n => three = dest + 2 * n

\* What is held in A and X are the bytes of the handshake being received.
HeldInv ==
  /\ spc \in {"byte_echo", "byte_store"} => ra = list[Current].src + At
  /\ spc \in {"read_three", "triple_echo", "store_rest"} =>
       rx = list[Current].src + (n + At)
  /\ spc \in {"triple_echo", "store_rest"} => ra = list[Current].src + (2 * n + At)

\* What has arrived: every block before the one being received, and of that
\* one everything below the pointers.
ArrivedInv ==
  /\ \A k \in 1 .. Len(list) :
       k < Current => \A i \in 0 .. list[k].len - 1 : InPlace(k, i)
  /\ spc \in ByteReads => \A i \in 0 .. At - 1 : InPlace(Current, i)
  /\ spc \in TripleReads =>
       \A i \in 0 .. At - 1 : /\ InPlace(Current, i)
                              /\ InPlace(Current, n + i)
                              /\ InPlace(Current, 2 * n + i)
  /\ spc \in {"read_two", "read_three", "triple_echo", "store_rest"} =>
       InPlace(Current, At)

\* The receiver's part of the invariant.
ReceiverInv ==
  /\ Position /\ PointerInv /\ HeldInv /\ ArrivedInv
  /\ spc = "ready" => blk = Len(list) + 1

\* True before anything arrived.
LEMMA ReceiverInit == Init => ReceiverInv
<1> SUFFICES ASSUME Init PROVE ReceiverInv
  OBVIOUS
<1>1. spc = "idle" /\ cpu = "kind" /\ blk = 1 /\ list \in Seq(Blocks)
  BY ListsAssumption DEF Init
<1> USE DEF ByteReads, TripleReads, SetupReads
<1>2. ~Receiving /\ Current = 1
  BY <1>1 DEF Receiving, Current
<1>3. Position /\ PointerInv /\ HeldInv
  BY <1>1 DEF Position, PointerInv, HeldInv
<1>4. ArrivedInv
  <2>1. \A k \in 1 .. Len(list) : ~(k < Current)
    BY <1>1, <1>2
  <2> QED BY <1>1, <2>1 DEF ArrivedInv
<1> QED BY <1>1, <1>3, <1>4 DEF ReceiverInv

\* The sender leaves a block only once its last handshake has been echoed.
LEMMA EndAnswered ==
  ASSUME IInv, Handshake, BlockEnd
  PROVE  Answered /\ Receiving /\ blk \in 1 .. Len(list)
<1>1. cpu = "block_end" /\ echo = ctr
  BY DEF BlockEnd, Goto
<1>2. blk \in 1 .. Len(list)
  <2>1. blk <= Len(list) /\ blk \in Nat \ {0} /\ list \in Seq(Blocks)
    BY <1>1, ListsAssumption DEF IInv, CpuInv, SendingSteps, CpuSteps, HeaderSteps
  <2> QED BY <2>1
<1>3. list[blk].kind \in {ONE_BYTE, THREE_BYTE}
  BY <1>2, BlockLaidOut DEF IInv
<1>4. Answered
  BY <1>1, <1>3 DEF Handshake, BytePair, TriplePair, LastSent, ByteDue, TripleDue, Due
<1>5. Receiving
  BY <1>4 DEF Answered, Storing, Waiting, Receiving, ByteReads, TripleReads
<1> QED BY <1>2, <1>4, <1>5

\* A step of the sender does not move the receiver to another block.
LEMMA CurrentKept ==
  ASSUME IInv, Handshake, CpuNext
  PROVE  /\ Current' = Current
         /\ UNCHANGED <<list, spc, sy, echo, kind, dest, two, three, ra, rx, aram>>
<1>1. UNCHANGED <<list, spc, sy, echo, kind, dest, two, three, ra, rx, aram>>
  BY DEF CpuNext, PostKind, PostDestLow, PostDestHigh, PostHeader,
         HeaderEcho, PostByte, PostByteCounter, ByteEcho, PostCountLow,
         PostCountHigh, PostOpening, OpeningEcho, PostFirst, PostSecond,
         PostThird, PostCounter, HandshakeEcho, BlockEnd, sent, spcVars, regs
<1> USE DEF Receiving, ByteReads, TripleReads, HeaderSteps
<1>2. blk \in Nat \ {0}
  BY DEF IInv, CpuInv
<1>3. CASE HeaderEcho
  <2>1. cpu = "header_echo" /\ echo = ctr /\ blk' = blk
    BY <1>3 DEF HeaderEcho
  <2>2. spc \in {"ready", "block_start"}
    BY <2>1 DEF Handshake, HeaderPair, HeaderDue, HeaderHeard
  <2> QED BY <1>1, <2>1, <2>2 DEF Current
<1>4. CASE BlockEnd
  <2>1. cpu = "block_end" /\ cpu' = "kind" /\ blk' = blk + 1 /\ echo = ctr
    BY <1>4 DEF BlockEnd, Goto
  <2>2. Receiving
    BY <1>4, EndAnswered
  <2> QED BY <1>1, <1>2, <2>1, <2>2 DEF Current
<1>5. CASE ~HeaderEcho /\ ~BlockEnd
  <2>1. blk' = blk /\ (cpu \in HeaderSteps <=> cpu' \in HeaderSteps)
    BY <1>5 DEF CpuNext, PostKind, PostDestLow, PostDestHigh, PostHeader,
         PostByte, PostByteCounter, ByteEcho, PostCountLow,
         PostCountHigh, PostOpening, OpeningEcho, PostFirst, PostSecond,
         PostThird, PostCounter, HandshakeEcho, Goto, sent
  <2> QED BY <1>1, <2>1 DEF Current
<1> QED BY <1>1, <1>3, <1>4, <1>5

\* The sender's steps keep the receiver's position,
LEMMA PositionCpu ==
  ASSUME IInv, Handshake, SenderInv, Position, CpuNext
  PROVE  Position'
<1> USE DEF ByteReads, TripleReads, HeaderSteps, Storing, Waiting
<1>0. /\ ctr \in 0 .. M - 1 /\ sy \in 0 .. M - 1 /\ idx \in Nat /\ blk \in Nat \ {0}
  BY DEF IInv, CpuInv, SpcInv
<1>1. /\ UNCHANGED <<list, spc, sy, echo, kind, dest>> /\ Current' = Current /\ At' = At
  BY CurrentKept DEF At
<1> SUFFICES ASSUME spc \in ByteReads \union TripleReads
             PROVE  /\ At = IF cpu' = "opening_echo" THEN 0 ELSE idx' - Owed'
                    /\ cpu' \in HeaderSteps => idx' = Count'
  BY <1>1 DEF Position
<1>2. /\ At = IF cpu = "opening_echo" THEN 0 ELSE idx - Owed
      /\ cpu \in HeaderSteps => idx = Count
  BY DEF Position
<1>3. CASE PostHeader
  <2>1. /\ cpu = "header" /\ cpu' = "header_echo" /\ UNCHANGED <<idx, n>>
    BY <1>3 DEF PostHeader, Goto
  <2>2. Answered
    BY <2>1 DEF Handshake, HeaderPair, Posting
  <2>3. Behind(After(ctr), ctr')
    <3>1. PICK j \in Jumps : ctr' = (ctr + j) % M
      BY <1>3 DEF PostHeader
    <3> QED BY <1>0, <3>1, JumpBehind
  <2>4. Owed' = Owed
    BY <1>0, <1>1, <2>2, <2>3, NextIndex DEF Owed, Answered, Behind
  <2> QED BY <1>1, <1>2, <2>1, <2>4 DEF Count
<1>4. CASE PostByteCounter \/ PostCounter
  <2>1. /\ idx' = idx + 1 /\ cpu \in {"byte_counter", "counter"}
        /\ cpu' \in {"block_end", "byte_echo", "handshake_echo"}
    BY <1>4 DEF PostByteCounter, PostCounter
  <2>2. Answered
    BY <2>1 DEF Handshake, BytePair, TriplePair, AtStart
  <2>3. ctr' = After(ctr)
    <3>1. CASE PostCounter
      BY <1>0, <2>1, <3>1, LowByteNext DEF PostCounter, Handshake, TriplePair
    <3>2. CASE PostByteCounter
      <4>1. cpu = "byte_counter" /\ ctr' = LowByte(idx) /\ spc # "block_start"
        BY <3>2 DEF PostByteCounter
      <4>2. idx > 0 /\ ctr = LowByte(idx - 1)
        BY <4>1 DEF Handshake, BytePair, AtStart
      <4>3. idx - 1 \in Nat /\ (idx - 1) + 1 = idx
        BY <1>0, <4>2
      <4> QED BY <4>1, <4>2, <4>3, LowByteNext
    <3> QED BY <1>4, <3>1, <3>2
  <2>4. After(ctr) # ctr
    BY <1>0, NextIndex
  <2>5. spc \in Waiting => Owed = 0 /\ Owed' = 1
    BY <1>1, <2>2, <2>3, <2>4 DEF Answered, Owed
  <2>6. spc \in Storing => Owed = 1 /\ Owed' = 2
    BY <1>1, <2>2, <2>3, <2>4 DEF Answered, Owed
  <2> QED BY <1>0, <1>2, <2>1, <2>2, <2>5, <2>6 DEF Answered
<1>5. CASE OpeningEcho
  <2>1. /\ cpu = "opening_echo" /\ echo = ctr /\ idx' = 0 /\ cpu' = "first" /\ ctr' = ctr
    BY <1>5 DEF OpeningEcho, Goto
  <2>2. Answered /\ spc = "triple_loop"
    BY <2>1 DEF Handshake, TriplePair
  <2>3. sy = After(ctr) /\ After(ctr) # ctr
    BY <1>0, <2>2, NextIndex DEF Answered
  <2>4. Owed' = 0
    BY <1>1, <2>1, <2>2, <2>3 DEF Owed
  <2> QED BY <1>2, <2>1, <2>4
<1>6. CASE HeaderEcho \/ PostOpening
  <2>1. spc \in {"block_start", "ready"}
    BY <1>6 DEF HeaderEcho, PostOpening, Goto, Handshake, HeaderPair, TriplePair, AtStart,
         HeaderDue, HeaderHeard
  <2> QED BY <2>1
<1>7. CASE BlockEnd
  <2>1. /\ cpu = "block_end" /\ cpu' = "kind" /\ UNCHANGED <<ctr, idx, n>>
    BY <1>7 DEF BlockEnd, Goto
  <2>2. Owed' = Owed
    BY <1>1, <2>1 DEF Owed
  <2>3. Current = blk
    BY <2>1 DEF Current
  <2>4. kind = list[blk].kind /\ kind \in {ONE_BYTE, THREE_BYTE}
    BY <2>3 DEF Handshake, KindPair, BlockReads
  <2>5. idx = IF kind = ONE_BYTE THEN list[blk].len ELSE n
    BY <2>1, <2>4 DEF SenderInv, SentInv, LastSent, ONE_BYTE, THREE_BYTE
  <2> QED BY <1>1, <1>2, <2>1, <2>2, <2>3, <2>5 DEF Count
<1>8. CASE PostCountLow
  BY <1>8 DEF PostCountLow, Goto, Handshake, TriplePair, AtStart
<1>9. CASE PostKind \/ PostDestLow \/ PostDestHigh \/ PostByte \/ ByteEcho
           \/ PostCountHigh \/ PostFirst \/ PostSecond \/ PostThird \/ HandshakeEcho
  <2>1. /\ UNCHANGED <<ctr, idx, n>> /\ cpu # "opening_echo" /\ cpu' # "opening_echo"
        /\ cpu' \in HeaderSteps => cpu \in HeaderSteps
    BY <1>9 DEF PostKind, PostDestLow, PostDestHigh, PostByte, ByteEcho, PostCountHigh,
         PostFirst, PostSecond, PostThird, HandshakeEcho, Goto, sent
  <2>2. Owed' = Owed
    BY <1>1, <2>1 DEF Owed
  <2> QED BY <1>1, <1>2, <2>1, <2>2 DEF Count
<1> QED BY <1>3, <1>4, <1>5, <1>6, <1>7, <1>8, <1>9 DEF CpuNext

\* and the rest of its part.
LEMMA ReceiverCpu ==
  ASSUME IInv, Handshake, SenderInv, ReceiverInv, CpuNext
  PROVE  ReceiverInv'
<1>1. /\ UNCHANGED <<list, spc, sy, dest, two, three, ra, rx, aram>>
      /\ Current' = Current /\ At' = At
  BY CurrentKept DEF At
<1>2. Position'
  BY PositionCpu DEF ReceiverInv
<1> USE DEF SetupReads, TripleReads
<1>3. n' = n \/ spc = "block_start"
  <2>1. PostCountLow => spc = "block_start"
    BY DEF PostCountLow, Goto, Handshake, TriplePair, AtStart
  <2>2. ~PostCountLow => n' = n
    BY DEF CpuNext, PostKind, PostDestLow, PostDestHigh, PostHeader,
         HeaderEcho, PostByte, PostByteCounter, ByteEcho, PostCountHigh,
         PostOpening, OpeningEcho, PostFirst, PostSecond,
         PostThird, PostCounter, HandshakeEcho, BlockEnd, sent
  <2> QED BY <2>1, <2>2
<1>4. spc \in {"dest_high", "header_counter", "header_kind", "header_echo", "ready"} =>
        blk' = blk /\ Destination' = Destination
  <2>1. BlockEnd => spc \in Storing \union Waiting
    BY EndAnswered DEF Answered
  <2>2. ~BlockEnd => blk' = blk
    BY DEF CpuNext, PostKind, PostDestLow, PostDestHigh, PostHeader,
         HeaderEcho, PostByte, PostByteCounter, ByteEcho, PostCountLow,
         PostCountHigh, PostOpening, OpeningEcho, PostFirst, PostSecond,
         PostThird, PostCounter, HandshakeEcho, sent
  <2> QED BY <1>1, <2>1, <2>2 DEF Storing, Waiting, Destination
<1>5. PointerInv'
  BY <1>1, <1>3, <1>4 DEF ReceiverInv, PointerInv
<1>6. HeldInv'
  BY <1>1, <1>3 DEF ReceiverInv, HeldInv
<1>7. ArrivedInv'
  BY <1>1, <1>3 DEF ReceiverInv, ArrivedInv, InPlace
<1> QED BY <1>1, <1>2, <1>4, <1>5, <1>6, <1>7 DEF ReceiverInv

\* Both bytes of an address make the address again.
LEMMA BothBytes ==
  ASSUME NEW v \in 0 .. Word - 1
  PROVE  HighByte(v) * M + LowByte(v) = v
<1> DEFINE q == v \div M
           r == v % M
<1>1. /\ M \in Nat /\ M > 0 /\ v \in Nat /\ v < M * M
      /\ q \in Int /\ r \in 0 .. M - 1 /\ v = M * q + r
  BY Widths DEF Word
<1>2. HighByte(v) = q % M /\ LowByte(v) = r
  BY DEF HighByte, LowByte
<1> HIDE DEF q, r
<1>3. q < 0 => M * q <= -M
  BY <1>1
<1>4. q >= M => M * q >= M * M
  BY <1>1
<1> DEFINE w == M * M
           p == M * q
<1>5. v < w /\ v = p + r /\ (q < 0 => p <= -M) /\ (q >= M => p >= w)
      /\ w \in Nat /\ p \in Int
  BY <1>1, <1>3, <1>4
<1>6. q >= 0 /\ q < M
  <2> HIDE DEF w, p
  <2> QED BY <1>1, <1>5
<1>7. q % M = q
  BY <1>1, <1>6, SmallRemainders
<1>8. q * M = M * q
  BY <1>1
<1> QED BY <1>1, <1>2, <1>7, <1>8

\* A value that fits a word is not changed by being cut to one.
LEMMA FitsWord ==
  ASSUME NEW v \in Int, 0 <= v, v < Word
  PROVE  v % Word = v
BY Widths, SmallRemainders

\* The next page is the next index's: a pointer steps over its block without
\* a gap.
LEMMA PointerSteps ==
  ASSUME IInv, NEW base \in 0 .. Word - 1, base + sy + 1 < Word
  PROVE  NextPage(base) + After(sy) = base + sy + 1
<1>1. sy \in 0 .. M - 1 /\ M \in Nat /\ M > 0
  BY Widths DEF IInv, SpcInv
<1>2. After(sy) = IF sy = M - 1 THEN 0 ELSE sy + 1
  BY <1>1, NextIndex
<1>3. CASE sy = M - 1
  <2>1. 0 <= base + M /\ base + M < Word /\ base + M \in Int
    BY <1>1, <1>3
  <2>2. NextPage(base) = base + M
    BY <1>3, <2>1, FitsWord DEF NextPage
  <2> QED BY <1>1, <1>2, <1>3, <2>2
<1>4. CASE sy # M - 1
  BY <1>1, <1>2, <1>4 DEF NextPage
<1> QED BY <1>3, <1>4

\* What the sender is waiting for while the receiver is busy.
LEMMA SenderWaits ==
  ASSUME IInv, Handshake
  PROVE  /\ spc \in {"byte_data", "byte_echo"} =>
              (cpu = "byte_echo" \/ LastSent(ONE_BYTE)) /\ sy = ctr
         /\ spc \in {"store_one", "read_two", "read_three", "triple_echo"} =>
              (cpu = "handshake_echo" \/ LastSent(THREE_BYTE)) /\ sy = ctr
         /\ spc \in SetupReads => cpu = "opening_echo"
         /\ spc \in HeaderReads \ {"idle"} => cpu = "header_echo"
         /\ spc \in Waiting /\ Behind(sy, ctr) => cpu = "header_echo"
<1> USE DEF Handshake, HeaderPair, BytePair, TriplePair, KindPair, Posting,
   LastSent, CpuSteps, HeaderSteps, ByteSteps, TripleSteps, BlockReads, ByteReads,
   SetupReads, TripleReads, Receiving, Storing, Waiting, SpcSteps, HeaderReads,
   SendingSteps, Answered, AtStart, Due, ByteDue, TripleDue, HeaderDue, HeaderHeard
<1>0. /\ ctr \in 0 .. M - 1 /\ sy \in 0 .. M - 1
      /\ blk \in Nat \ {0} /\ spc \in SpcSteps /\ cpu \in CpuSteps
  BY DEF IInv, CpuInv, SpcInv
<1>a. sy = After(ctr) => ~Behind(sy, ctr) /\ sy # ctr
  BY HeaderTest
<1>b. ASSUME cpu \in SendingSteps
      PROVE  list[blk].kind \in {ONE_BYTE, THREE_BYTE}
  <2>1. blk <= Len(list) /\ list \in Seq(Blocks)
    BY <1>b, ListsAssumption DEF IInv, CpuInv
  <2>2. blk \in 1 .. Len(list)
    BY <1>0, <2>1
  <2> QED BY <2>1, <2>2, BlockFits DEF IInv
<1>1. spc \in {"byte_data", "byte_echo"} =>
        (cpu = "byte_echo" \/ LastSent(ONE_BYTE)) /\ sy = ctr
  BY <1>0, <1>b
<1>2. spc \in {"store_one", "read_two", "read_three", "triple_echo"} =>
        (cpu = "handshake_echo" \/ LastSent(THREE_BYTE)) /\ sy = ctr
  BY <1>0, <1>b
<1>3. spc \in SetupReads => cpu = "opening_echo"
  BY <1>0, <1>b
<1>4. spc \in HeaderReads \ {"idle"} => cpu = "header_echo"
  BY <1>0, <1>b
<1>5. spc \in Waiting /\ Behind(sy, ctr) => cpu = "header_echo"
  BY <1>0, <1>a, <1>b DEF Behind
<1> QED BY <1>1, <1>2, <1>3, <1>4, <1>5

\* Inside a block: the pointers never pass its last handshake, and there is
\* room for what a handshake being received carries.
LEMMA Ongoing ==
  ASSUME IInv, Handshake, SenderInv, ReceiverInv, Receiving
  PROVE  /\ Current \in 1 .. Len(list) /\ At \in Nat /\ Count \in Nat /\ At <= Count
         /\ spc \notin Waiting \/ sy = ctr => At < Count
         /\ spc \in ByteReads => Count = list[Current].len
         /\ spc \in TripleReads => Count = n /\ n = Handshakes(list[Current].len)
<1> USE DEF Receiving, ByteReads, TripleReads
<1>1. Current \in 1 .. Len(list) /\ kind = list[Current].kind
      /\ (spc \in ByteReads => kind = ONE_BYTE) /\ (spc \in TripleReads => kind = THREE_BYTE)
  BY DEF Handshake, KindPair, BlockReads
<1>2. /\ spc \in ByteReads => Count = list[Current].len
      /\ spc \in TripleReads => Count = n /\ n = Handshakes(list[Current].len)
  BY <1>1 DEF Count, ReceiverInv, PointerInv, ONE_BYTE, THREE_BYTE
<1>3. Count \in Nat /\ Count > 0
  BY <1>1, <1>2, BlockLaidOut, StreamsCover DEF IInv
<1>4. At >= 0 /\ (At = IF cpu = "opening_echo" THEN 0 ELSE idx - Owed)
      /\ (cpu \in HeaderSteps => idx = Count)
  BY DEF ReceiverInv, Position
<1>5. idx \in Nat /\ x \in Nat /\ n \in Nat /\ cpu \in CpuSteps /\ spc \in SpcSteps
  BY DEF IInv, CpuInv, SpcInv
<1>6. Owed \in {0, 1, 2} /\ (spc \notin Waiting \/ sy = ctr => Owed # 0)
  BY DEF Owed
<1>7. cpu = "opening_echo" \/ idx <= Count
  <2>1. CASE cpu \in HeaderSteps
    BY <1>3, <1>4, <2>1
  <2>2. CASE cpu \notin HeaderSteps
    <3>1. Current = blk
      BY <2>2 DEF Current
    <3>2. cpu \notin {"count_low", "count_high", "opening", "finished"}
      BY DEF Handshake, TriplePair, AtStart, HeaderPair
    <3>3. CASE cpu \in ByteSteps
      <4>1. list[blk].kind = ONE_BYTE /\ x + idx = list[blk].len
        BY <3>3 DEF Handshake, KindPair, SenderInv, SentInv
      <4>2. Count = list[blk].len
        BY <1>1, <3>1, <4>1 DEF Count
      <4> DEFINE b == list[blk].len
      <4>3. x + idx = b /\ Count = b
        BY <4>1, <4>2
      <4> HIDE DEF b
      <4> QED BY <1>3, <1>5, <4>3
    <3>4. CASE cpu \in {"first", "second", "third", "counter", "handshake_echo"}
      <4>1. list[blk].kind = THREE_BYTE /\ x + idx = n
        BY <3>4 DEF Handshake, KindPair, SenderInv, SentInv, TripleSteps
      <4>2. Count = n
        BY <1>1, <3>1, <4>1 DEF Count, ONE_BYTE, THREE_BYTE
      <4> QED BY <1>5, <4>1, <4>2
    <3>5. CASE cpu = "block_end"
      <4>1. list[blk].kind \in {ONE_BYTE, THREE_BYTE}
        BY <1>1, <3>1, BlockLaidOut DEF IInv
      <4>2. idx = Count
        BY <1>1, <3>1, <3>5, <4>1 DEF SenderInv, SentInv, LastSent, Count, ONE_BYTE, THREE_BYTE
      <4> QED BY <1>5, <4>2
    <3> QED BY <1>5, <2>2, <3>2, <3>3, <3>4, <3>5 DEF CpuSteps, TripleSteps
  <2> QED BY <2>1, <2>2
<1>8. At \in Nat /\ At <= Count /\ (spc \notin Waiting \/ sy = ctr => At < Count)
  <2>1. CASE cpu = "opening_echo"
    BY <1>3, <1>4, <2>1
  <2>2. CASE cpu # "opening_echo"
    <3> DEFINE a == At
               c == Count
               o == Owed
    <3>1. a >= 0 /\ a = idx - o /\ idx <= c /\ idx \in Nat /\ c \in Nat
          /\ o \in {0, 1, 2} /\ (spc \notin Waiting \/ sy = ctr => o # 0)
      BY <1>3, <1>4, <1>5, <1>6, <1>7, <2>2
    <3> HIDE DEF a, c, o
    <3>2. a \in Nat /\ a <= c /\ (spc \notin Waiting \/ sy = ctr => a < c)
      BY <3>1
    <3> QED BY <3>2 DEF a, c
  <2> QED BY <2>1, <2>2
<1> QED BY <1>1, <1>2, <1>3, <1>8

\* The steps between a triple's first store and its other two.
Carrying == {"read_two", "read_three", "triple_echo", "store_rest"}

\* A step that stays in a block and moves neither a pointer nor a byte of sound RAM.
LEMMA StepWithin ==
  ASSUME ReceiverInv, UNCHANGED <<cpuVars, sy, kind, dest, two, three, aram>>,
         \/ spc \in ByteReads /\ spc' \in ByteReads
         \/ spc \in TripleReads /\ spc' \in TripleReads,
         Owed' = Owed, spc' \in Carrying => spc \in Carrying, HeldInv'
  PROVE  ReceiverInv'
<1>1. UNCHANGED <<cpu, list, blk, idx, n, ctr>>
  BY DEF cpuVars, sent
<1>2. Receiving /\ Receiving'
  BY DEF Receiving
<1>3. Current' = Current
  BY <1>1, <1>2 DEF Current
<1>4. At' = At /\ Count' = Count
  BY <1>1, <1>3 DEF At, Count
<1> USE DEF ReceiverInv, ByteReads, TripleReads
<1>5. Position'
  BY <1>1, <1>4 DEF Position
<1>6. PointerInv'
  BY <1>1, <1>3, <1>4 DEF PointerInv, SetupReads
<1>7. ArrivedInv'
  BY <1>1, <1>3, <1>4 DEF ArrivedInv, InPlace, Carrying
<1> QED BY <1>5, <1>6, <1>7

\* The receiver notices a counter, reads what goes with it and answers.
LEMMA ReceiverReads ==
  ASSUME IInv, Handshake, SenderInv, ReceiverInv,
         \/ ByteLoop /\ spc' = "byte_data"
         \/ ByteData
         \/ ByteEchoed
         \/ TripleLoop /\ spc' = "store_one"
         \/ ReadTwo
         \/ ReadThree
         \/ TripleEcho
  PROVE  ReceiverInv'
<1> USE DEF Waiting, Storing, ByteReads, TripleReads, Step
<1>0. /\ sy \in 0 .. M - 1 /\ idx \in Nat /\ ctr \in 0 .. M - 1 /\ n \in Nat
      /\ port[0] = ctr
  BY DEF IInv, CpuInv, SpcInv, Handshake
<1>a. After(ctr) # ctr
  BY <1>0, NextIndex
<1>b. Receiving =>
        /\ Current \in 1 .. Len(list) /\ At \in Nat
        /\ list[Current].src \in Nat
  BY Ongoing, BlockFits DEF IInv
<1>c. UNCHANGED <<cpuVars, sy, kind, dest, two, three, aram>>
  BY DEF ByteLoop, ByteData, ByteEchoed, TripleLoop, ReadTwo, ReadThree, TripleEcho, regs
<1>d. UNCHANGED <<cpu, list, blk, idx, n, ctr, port>>
  BY <1>c DEF cpuVars, sent
<1>e. ASSUME spc \in ByteReads \union TripleReads, spc' \in ByteReads \union TripleReads
      PROVE  Current' = Current /\ At' = At
  <2>1. Receiving /\ Receiving'
    BY <1>e DEF Receiving
  <2> QED BY <1>c, <1>d, <2>1 DEF Current, At
<1>1. CASE ByteLoop /\ spc' = "byte_data"
  <2>1. spc = "byte_loop" /\ sy = ctr
    BY <1>0, <1>1 DEF ByteLoop
  <2>2. Owed' = Owed
    BY <1>1, <1>c, <1>d, <2>1 DEF Owed
  <2>3. HeldInv'
    BY <1>1 DEF HeldInv
  <2>4. /\ spc \in ByteReads /\ spc' \in ByteReads
        /\ spc' \in Carrying => spc \in Carrying
    BY <1>1, <2>1 DEF Carrying
  <2> QED BY <1>c, <2>2, <2>3, <2>4, StepWithin
<1>2. CASE ByteData
  <2>1. spc = "byte_data" /\ spc' = "byte_echo" /\ ra' = port[1]
    BY <1>2 DEF ByteData
  <2>2. Owed = 1 /\ Owed' = 1
    BY <2>1 DEF Owed
  <2>3. (cpu = "byte_echo" \/ LastSent(ONE_BYTE)) /\ sy = ctr
    BY <2>1, SenderWaits
  <2>4. port[1] = list[blk].src + (idx - 1)
    BY <2>3 DEF SenderInv, PostedInv
  <2>5. Current = blk /\ cpu # "opening_echo"
    BY <2>3 DEF Current, LastSent, HeaderSteps
  <2>6. At = idx - 1
    BY <2>1, <2>2, <2>5 DEF ReceiverInv, Position
  <2>7. HeldInv'
    BY <1>d, <1>e, <2>1, <2>4, <2>5, <2>6 DEF HeldInv
  <2>8. /\ spc \in ByteReads /\ spc' \in ByteReads
        /\ spc' \in Carrying => spc \in Carrying
    BY <2>1 DEF Carrying
  <2>9. Owed' = Owed
    BY <2>2
  <2> QED BY <1>c, <2>7, <2>8, <2>9, StepWithin
<1>3. CASE ByteEchoed
  <2>1. spc = "byte_echo" /\ spc' = "byte_store" /\ ra' = ra
    BY <1>3 DEF ByteEchoed, regs
  <2>2. sy = ctr
    BY <2>1, SenderWaits
  <2>3. Owed = 1 /\ Owed' = 1
    BY <1>a, <1>c, <1>d, <2>1, <2>2 DEF Owed
  <2>4. HeldInv'
    BY <1>d, <1>e, <2>1 DEF HeldInv, ReceiverInv
  <2>5. /\ spc \in ByteReads /\ spc' \in ByteReads
        /\ spc' \in Carrying => spc \in Carrying
    BY <2>1 DEF Carrying
  <2>6. Owed' = Owed
    BY <2>3
  <2> QED BY <1>c, <2>4, <2>5, <2>6, StepWithin
<1>4. CASE TripleLoop /\ spc' = "store_one"
  <2>1. spc = "triple_loop" /\ sy = ctr
    BY <1>0, <1>4 DEF TripleLoop
  <2>2. Owed' = Owed
    BY <1>4, <1>c, <1>d, <2>1 DEF Owed
  <2>3. HeldInv'
    BY <1>4 DEF HeldInv
  <2> QED BY <1>4, <1>c, <2>1, <2>2, <2>3, StepWithin DEF Carrying
<1>5. ASSUME spc \in {"read_two", "read_three"}
      PROVE  /\ Owed = 1 /\ At = idx - 1 /\ Current = blk
             /\ port[2] = list[Current].src + (n + At)
             /\ port[3] = list[Current].src + (2 * n + At)
  <2>1. Owed = 1
    BY <1>5 DEF Owed
  <2>2. (cpu = "handshake_echo" \/ LastSent(THREE_BYTE)) /\ sy = ctr
    BY <1>5, SenderWaits
  <2>3. Current = blk /\ cpu # "opening_echo"
    BY <2>2 DEF Current, LastSent, HeaderSteps
  <2>4. At = idx - 1
    BY <1>5, <2>1, <2>3 DEF ReceiverInv, Position
  <2>5. /\ port[2] = list[blk].src + n + (idx - 1)
        /\ port[3] = list[blk].src + 2 * n + (idx - 1)
    BY <2>2 DEF SenderInv, PostedInv
  <2> DEFINE s == list[blk].src
  <2>6. s \in Nat
    BY <1>5, <1>b, <2>3 DEF Receiving
  <2>7. /\ s + n + (idx - 1) = s + (n + (idx - 1))
        /\ s + 2 * n + (idx - 1) = s + (2 * n + (idx - 1))
    <3> HIDE DEF s
    <3> QED BY <1>0, <2>6
  <2> QED BY <2>1, <2>3, <2>4, <2>5, <2>7
<1>6. CASE ReadTwo
  <2>1. spc = "read_two" /\ spc' = "read_three" /\ rx' = port[2]
    BY <1>6 DEF ReadTwo
  <2>2. Owed = 1 /\ Owed' = 1
    BY <2>1 DEF Owed
  <2>3. HeldInv'
    BY <1>d, <1>e, <1>5, <2>1 DEF HeldInv
  <2> QED BY <1>c, <2>1, <2>2, <2>3, StepWithin DEF Carrying
<1>7. CASE ReadThree
  <2>1. spc = "read_three" /\ spc' = "triple_echo" /\ ra' = port[3] /\ rx' = rx
    BY <1>7 DEF ReadThree
  <2>2. Owed = 1 /\ Owed' = 1
    BY <2>1 DEF Owed
  <2>3. HeldInv'
    BY <1>d, <1>e, <1>5, <2>1 DEF HeldInv, ReceiverInv
  <2> QED BY <1>c, <2>1, <2>2, <2>3, StepWithin DEF Carrying
<1>8. CASE TripleEcho
  <2>1. spc = "triple_echo" /\ spc' = "store_rest" /\ ra' = ra /\ rx' = rx
    BY <1>8 DEF TripleEcho, regs
  <2>2. sy = ctr
    BY <2>1, SenderWaits
  <2>3. Owed = 1 /\ Owed' = 1
    BY <1>a, <1>c, <1>d, <2>1, <2>2 DEF Owed
  <2>4. HeldInv'
    BY <1>d, <1>e, <2>1 DEF HeldInv, ReceiverInv
  <2> QED BY <1>c, <2>1, <2>3, <2>4, StepWithin DEF Carrying
<1> QED BY <1>1, <1>2, <1>3, <1>4, <1>6, <1>7, <1>8

\* A step outside a block leaves sound RAM and the receiver's place in the list.
LEMMA StepOutside ==
  ASSUME ReceiverInv, UNCHANGED <<cpuVars, aram>>,
         spc \notin ByteReads \union TripleReads, spc' \notin ByteReads \union TripleReads
  PROVE  Current' = Current /\ Position' /\ HeldInv' /\ ArrivedInv'
<1>1. UNCHANGED <<cpu, list, blk>>
  BY DEF cpuVars, sent
<1>2. ~Receiving /\ ~Receiving'
  BY DEF Receiving
<1>3. Current' = Current
  BY <1>1, <1>2 DEF Current
<1> USE DEF ByteReads, TripleReads
<1>4. Position' /\ HeldInv'
  BY DEF Position, HeldInv
<1>5. ArrivedInv'
  BY <1>1, <1>3 DEF ReceiverInv, ArrivedInv, InPlace
<1> QED BY <1>3, <1>4, <1>5

\* The receiver reads a header.
LEMMA ReceiverHeader ==
  ASSUME IInv, Handshake, SenderInv, ReceiverInv,
         \/ AwaitList
         \/ HeaderDestLow
         \/ HeaderDestHigh
         \/ HeaderCounter
         \/ HeaderKind
         \/ HeaderEchoed
  PROVE  ReceiverInv'
<1>0. /\ UNCHANGED <<cpuVars, aram>>
      /\ UNCHANGED <<cpu, list, blk, port>>
      /\ Destination' = Destination
  BY DEF AwaitList, HeaderDestLow, HeaderDestHigh, HeaderCounter, HeaderKind, HeaderEchoed,
     regs, cpuVars, sent, Destination
<1>1. spc \in HeaderReads \union {"idle"}
  BY DEF AwaitList, HeaderDestLow, HeaderDestHigh, HeaderCounter, HeaderKind, HeaderEchoed,
     Step, HeaderReads
<1>2. spc' \in HeaderReads \union {"ready", "block_start"}
  BY DEF AwaitList, HeaderDestLow, HeaderDestHigh, HeaderCounter, HeaderKind, HeaderEchoed,
     Step, HeaderReads
<1>3. Current' = Current /\ Position' /\ HeldInv' /\ ArrivedInv'
  BY <1>0, <1>1, <1>2, StepOutside DEF ByteReads, TripleReads, HeaderReads
<1>4. spc # "idle" => cpu = "header_echo"
  BY <1>1, SenderWaits DEF HeaderReads
<1>5. Destination \in 0 .. Word - 1 /\ blk <= Len(list) + 1 /\ blk \in Nat \ {0}
      /\ list \in Seq(Blocks)
  <2>1. list \in Seq(Blocks) /\ blk \in Nat \ {0}
    BY ListsAssumption DEF IInv, CpuInv
  <2>2. blk <= Len(list) + 1
    BY DEF SenderInv, SentInv
  <2>3. CASE blk <= Len(list)
    <3> DEFINE d == list[blk].dest
               e == list[blk].len
    <3>1. blk \in 1 .. Len(list)
      BY <2>1, <2>3
    <3>2. d \in Nat /\ e \in Nat /\ d + e + 2 <= Word /\ Word \in Nat
      BY <3>1, BlockLaidOut, Widths DEF IInv
    <3>3. Destination = d
      BY <2>3 DEF Destination
    <3> HIDE DEF d, e
    <3> QED BY <2>1, <2>2, <3>2, <3>3
  <2>4. CASE ~(blk <= Len(list))
    <3>1. Destination = 0
      BY <2>4 DEF Destination
    <3> QED BY <2>1, <2>2, <3>1, Widths
  <2> QED BY <2>3, <2>4
<1> USE DEF SetupReads, TripleReads
<1>6. CASE AwaitList
  <2>1. spc' = "dest_low"
    BY <1>6 DEF AwaitList, Step
  <2> QED BY <1>3, <2>1 DEF ReceiverInv, PointerInv
<1>7. CASE HeaderDestLow
  <2>1. spc = "dest_low" /\ spc' = "dest_high" /\ ra' = port[2]
    BY <1>7 DEF HeaderDestLow, Step
  <2>2. ra' = LowByte(Destination)
    BY <1>4, <2>1 DEF SenderInv, PostedInv
  <2> QED BY <1>0, <1>3, <2>1, <2>2 DEF ReceiverInv, PointerInv
<1>8. CASE HeaderDestHigh
  <2>1. spc = "dest_high" /\ spc' = "header_counter" /\ dest' = (port[3] * M + ra) % Word
    BY <1>8 DEF HeaderDestHigh, Step
  <2>2. port[3] = HighByte(Destination) /\ ra = LowByte(Destination)
    BY <1>4, <2>1 DEF SenderInv, PostedInv, ReceiverInv, PointerInv
  <2>3. port[3] * M + ra = Destination
    BY <1>5, <2>2, BothBytes
  <2>4. Destination % Word = Destination
    <3>1. Destination \in Int /\ 0 <= Destination /\ Destination < Word
      BY <1>5, Widths
    <3> QED BY <3>1, FitsWord
  <2>5. dest' = Destination
    BY <2>1, <2>3, <2>4
  <2> QED BY <1>0, <1>3, <2>1, <2>5 DEF ReceiverInv, PointerInv
<1>9. CASE HeaderCounter \/ HeaderKind
  <2>1. /\ spc \in {"header_counter", "header_kind"} /\ dest' = dest
        /\ spc' \in {"header_kind", "header_echo"}
    BY <1>9 DEF HeaderCounter, HeaderKind, Step
  <2> QED BY <1>0, <1>3, <2>1 DEF ReceiverInv, PointerInv
<1>10. CASE HeaderEchoed
  <2>1. /\ spc = "header_echo" /\ dest' = dest
        /\ spc' = IF kind = END_OF_LIST THEN "ready" ELSE "block_start"
    BY <1>10 DEF HeaderEchoed, regs
  <2>2. cpu = "header_echo" /\ kind = Announced /\ dest = Destination
    BY <1>4, <2>1 DEF Handshake, KindPair, ReceiverInv, PointerInv
  <2>3. Announced # END_OF_LIST => blk <= Len(list)
    BY DEF Announced
  <2>4. Announced = END_OF_LIST => blk = Len(list) + 1
    <3> SUFFICES ASSUME Announced = END_OF_LIST, blk <= Len(list) PROVE FALSE
      BY <1>5
    <3>1. list[blk].kind \in {ONE_BYTE, THREE_BYTE}
      BY <1>5, BlockFits DEF IInv
    <3> QED BY <3>1 DEF Announced, END_OF_LIST, ONE_BYTE, THREE_BYTE
  <2>5. CASE kind = END_OF_LIST
    <3>1. spc' = "ready" /\ blk = Len(list) + 1
      BY <2>1, <2>2, <2>4, <2>5
    <3>2. PointerInv'
      BY <3>1 DEF PointerInv
    <3> QED BY <1>0, <1>3, <3>1, <3>2 DEF ReceiverInv
  <2>6. CASE kind # END_OF_LIST
    <3>1. spc' = "block_start" /\ dest' = list[blk].dest
      BY <2>1, <2>2, <2>3, <2>6 DEF Destination
    <3>2. Current = blk
      BY <2>1 DEF Current, Receiving, ByteReads
    <3>3. PointerInv'
      BY <1>0, <1>3, <3>1, <3>2 DEF PointerInv
    <3> QED BY <1>3, <3>1, <3>3 DEF ReceiverInv
  <2> QED BY <2>5, <2>6
<1> QED BY <1>6, <1>7, <1>8, <1>9, <1>10

\* The receiver enters a block with its pointer on the block's first byte.
LEMMA ReceiverEnters ==
  ASSUME IInv, Handshake, SenderInv, ReceiverInv, UNCHANGED <<cpuVars, aram>>,
         spc \in {"block_start", "triple_open"}, spc' \in {"byte_loop", "triple_loop"},
         cpu \notin HeaderSteps, dest' + sy' = list[blk].dest,
         cpu = "opening_echo" \/ idx = Owed',
         spc' = "triple_loop" => PointerInv'
  PROVE  ReceiverInv'
<1> USE DEF ByteReads, TripleReads, SetupReads
<1>1. UNCHANGED <<cpu, list, blk, idx, n, ctr>>
  BY DEF cpuVars, sent
<1>2. Current = blk /\ Current' = blk
  BY <1>1 DEF Current
<1>3. list[blk].dest \in Int /\ idx \in Nat
  <2>1. Current \in 1 .. Len(list)
    BY DEF Handshake, KindPair, BlockReads
  <2> QED BY <1>2, <2>1, BlockFits DEF IInv, CpuInv
<1>4. At' = 0
  <2>1. At' = (dest' + sy') - list[blk].dest
    BY <1>1, <1>2 DEF At
  <2> QED BY <1>3, <2>1
<1>5. Position'
  BY <1>1, <1>3, <1>4 DEF Position
<1>6. PointerInv'
  BY DEF PointerInv
<1>7. HeldInv'
  BY DEF HeldInv
<1>8. ArrivedInv'
  <2>1. \A i : ~(i \in 0 .. At' - 1)
    BY <1>4
  <2> QED BY <1>1, <1>2, <2>1 DEF ReceiverInv, ArrivedInv, InPlace
<1> QED BY <1>5, <1>6, <1>7, <1>8 DEF ReceiverInv

\* It opens a block and, for three streams, sets up their bases.
LEMMA ReceiverOpens ==
  ASSUME IInv, Handshake, SenderInv, ReceiverInv,
         \/ BlockStart
         \/ SetupCountLow
         \/ SetupStreamTwo
         \/ SetupCountLowAgain
         \/ SetupStreamThree
         \/ SetupEcho
  PROVE  ReceiverInv'
<1> USE DEF SetupReads, Step
<1>0. UNCHANGED <<cpuVars, aram>> /\ UNCHANGED <<cpu, list, blk, port, n, ctr, idx>>
  BY DEF BlockStart, SetupCountLow, SetupStreamTwo, SetupCountLowAgain, SetupStreamThree,
     SetupEcho, cpuVars, sent
<1>1. /\ spc \in SetupReads \union {"block_start"}
      /\ ~BlockStart => spc \in SetupReads
      /\ ~BlockStart /\ ~SetupEcho => spc' \in SetupReads
  BY DEF BlockStart, SetupCountLow, SetupStreamTwo, SetupCountLowAgain, SetupStreamThree,
     SetupEcho
<1>2. Current \in 1 .. Len(list) /\ kind = list[Current].kind
  BY <1>1 DEF Handshake, KindPair, BlockReads
<1>3. CASE BlockStart
  <2>1. spc = "block_start" /\ ctr = 0 /\ sy' = 0 /\ dest' = dest /\ spc' = Dispatch
    BY <1>3 DEF BlockStart, Handshake
  <2>2. cpu \notin HeaderSteps
    BY <2>1 DEF Handshake, HeaderPair, Posting, HeaderSteps, Answered, Waiting, Storing
  <2>3. Current = blk /\ dest = list[blk].dest
    BY <2>1, <2>2 DEF Current, ReceiverInv, PointerInv
  <2>4. CASE kind = THREE_BYTE
    <3>1. spc' = "n_low"
      BY <2>1, <2>4 DEF Dispatch
    <3>2. Current' = Current /\ Position' /\ HeldInv' /\ ArrivedInv'
      BY <1>0, <2>1, <3>1, StepOutside DEF ByteReads, TripleReads
    <3>3. PointerInv'
      BY <1>0, <2>1, <2>3, <3>1, <3>2 DEF PointerInv, TripleReads
    <3> QED BY <3>1, <3>2, <3>3 DEF ReceiverInv
  <2>5. CASE kind # THREE_BYTE
    <3>1. spc' = "byte_loop"
      BY <2>1, <2>5 DEF Dispatch
    <3>2. list[blk].kind = ONE_BYTE
      BY <1>2, <2>3, <2>5, BlockFits DEF IInv
    <3>3. cpu # "opening_echo" /\ idx = 1
      <4>1. cpu \notin TripleSteps
        BY <3>2 DEF Handshake, KindPair, ONE_BYTE, THREE_BYTE
      <4>2. cpu \in CpuSteps /\ spc # "ready"
        BY <2>1 DEF IInv, CpuInv
      <4>3. cpu \in ByteSteps \union {"block_end"}
        BY <2>1, <2>2, <4>1, <4>2 DEF CpuSteps, Handshake, HeaderPair
      <4>4. cpu \notin {"byte", "byte_counter"}
        BY <2>1 DEF Handshake, BytePair, AtStart, Answered, Waiting, Storing
      <4>5. cpu = "byte_echo" \/ LastSent(ONE_BYTE)
        BY <3>2, <4>3, <4>4 DEF ByteSteps, LastSent
      <4>6. idx = 1
        BY <2>1, <4>5 DEF Handshake, BytePair, Answered, ByteDue, Due, Waiting, Storing
      <4> QED BY <4>1, <4>6 DEF TripleSteps
    <3>4. Owed' = 1
      BY <1>0, <2>1, <3>1 DEF Owed, Waiting
    <3>5. dest' + sy' = list[blk].dest
      BY <1>2, <2>1, <2>3, BlockFits DEF IInv
    <3> QED BY <1>0, <2>1, <2>2, <3>1, <3>3, <3>4, <3>5, ReceiverEnters
  <2> QED BY <2>4, <2>5
<1>4. ASSUME ~BlockStart
      PROVE  /\ cpu = "opening_echo" /\ Current = blk /\ cpu \notin HeaderSteps
             /\ spc # "n_low" => dest = list[blk].dest - 1
             /\ spc = "n_low" => dest = list[blk].dest
             /\ port[2] = LowByte(n) /\ port[3] = HighByte(n)
             /\ n = Handshakes(list[blk].len)
  <2>1. cpu = "opening_echo"
    BY <1>1, <1>4, SenderWaits
  <2>2. Current = blk /\ cpu \notin HeaderSteps
    BY <2>1 DEF Current, HeaderSteps
  <2> QED BY <1>1, <1>4, <2>1, <2>2 DEF SenderInv, SentInv, PostedInv, ReceiverInv, PointerInv,
       TripleSteps
<1> DEFINE d == list[blk].dest
           e == list[blk].len
<1>5. ASSUME ~BlockStart
      PROVE  /\ d \in Nat /\ e \in Nat /\ d > 0 /\ d + e + 2 <= Word /\ n \in Nat
             /\ n <= e /\ 3 * n <= e + 2 /\ n > 0 /\ Word \in Nat
  BY <1>2, <1>4, <1>5, BlockLaidOut, StreamsCover, Widths DEF IInv
<1>6. ASSUME ~BlockStart
      PROVE  /\ (d - 1) % Word = d - 1 /\ ((d - 1) + n) % Word = (d - 1) + n
             /\ ((d - 1) + 2 * n) % Word = (d - 1) + 2 * n
  <2> DEFINE two_n == 2 * n
  <2>1. /\ d \in Nat /\ e \in Nat /\ d > 0 /\ d + e + 2 <= Word /\ n \in Nat
        /\ n <= e /\ 3 * n <= e + 2 /\ n > 0 /\ Word \in Nat
    BY <1>5, <1>6
  <2> HIDE DEF d, e
  <2>2. d - 1 \in Int /\ 0 <= d - 1 /\ d - 1 < Word
    BY <2>1
  <2>3. (d - 1) + n \in Int /\ 0 <= (d - 1) + n /\ (d - 1) + n < Word
    BY <2>1
  <2>4. (d - 1) + 2 * n \in Int /\ 0 <= (d - 1) + 2 * n /\ (d - 1) + 2 * n < Word
    BY <2>1
  <2> QED BY <2>2, <2>3, <2>4, FitsWord
<1>7. ASSUME ~BlockStart
      PROVE  HighByte(n) * M + LowByte(n) = n
  <2>1. n \in 0 .. Word - 1
    <3>1. /\ d \in Nat /\ e \in Nat /\ d > 0 /\ d + e + 2 <= Word /\ n \in Nat
          /\ n <= e /\ Word \in Nat
      BY <1>5, <1>7
    <3> HIDE DEF d, e
    <3> QED BY <3>1
  <2> QED BY <2>1, BothBytes
<1>8. ASSUME ~BlockStart, ~SetupEcho
      PROVE  Current' = blk /\ Position' /\ HeldInv' /\ ArrivedInv'
  BY <1>0, <1>1, <1>4, <1>8, StepOutside DEF ByteReads, TripleReads
<1>9. ASSUME ~BlockStart, spc \in {"n_high", "m_high"}
      PROVE  port[3] * M + ra = n
  BY <1>4, <1>7, <1>9 DEF ReceiverInv, PointerInv
<1>10. CASE SetupCountLow
  <2>1. /\ spc = "n_low" /\ spc' = "n_high" /\ dest' = (dest - 1) % Word /\ ra' = port[2]
        /\ ~BlockStart /\ ~SetupEcho
    BY <1>10 DEF SetupCountLow, BlockStart, SetupEcho
  <2>2. dest' = d - 1 /\ ra' = LowByte(n)
    BY <1>4, <1>6, <2>1
  <2>3. PointerInv'
    BY <1>0, <1>8, <2>1, <2>2 DEF PointerInv, TripleReads
  <2> QED BY <1>8, <2>1, <2>3 DEF ReceiverInv
<1>11. CASE SetupStreamTwo
  <2>1. /\ spc = "n_high" /\ spc' = "m_low" /\ dest' = dest
        /\ two' = (dest + port[3] * M + ra) % Word
        /\ ~BlockStart /\ ~SetupEcho
    BY <1>11 DEF SetupStreamTwo, BlockStart, SetupEcho
  <2>2. dest = d - 1 /\ port[3] * M + ra = n
    BY <1>4, <1>9, <2>1
  <2>3. dest + port[3] * M + ra = (d - 1) + n
    <3> DEFINE p == port[3] * M
    <3>0. port \in [0 .. 3 -> Nat] /\ ra \in Nat
      BY DEF IInv, CpuInv, SpcInv
    <3>1. port[3] \in Nat /\ ra \in Nat /\ M \in Nat /\ d \in Nat
      BY <1>5, <2>1, <3>0, Widths
    <3>2. p \in Nat
      BY <3>1
    <3>3. dest + p + ra = dest + (p + ra)
      <4> HIDE DEF p, d
      <4> QED BY <2>2, <3>1, <3>2
    <3> QED BY <2>2, <3>3
  <2>4. two' = dest + n
    BY <1>6, <2>1, <2>2, <2>3
  <2>5. PointerInv'
    BY <1>0, <1>8, <2>1, <2>2, <2>4 DEF PointerInv, TripleReads
  <2> QED BY <1>8, <2>1, <2>5 DEF ReceiverInv
<1>12. CASE SetupCountLowAgain
  <2>1. /\ spc = "m_low" /\ spc' = "m_high" /\ dest' = dest /\ two' = two /\ ra' = port[2]
        /\ ~BlockStart /\ ~SetupEcho
    BY <1>12 DEF SetupCountLowAgain, BlockStart, SetupEcho
  <2>2. dest = d - 1 /\ ra' = LowByte(n) /\ two = dest + n
    BY <1>4, <2>1 DEF ReceiverInv, PointerInv
  <2>3. PointerInv'
    BY <1>0, <1>8, <2>1, <2>2 DEF PointerInv, TripleReads
  <2> QED BY <1>8, <2>1, <2>3 DEF ReceiverInv
<1>13. CASE SetupStreamThree
  <2>1. /\ spc = "m_high" /\ spc' = "triple_open" /\ dest' = dest /\ two' = two
        /\ three' = (two + port[3] * M + ra) % Word
        /\ ~BlockStart /\ ~SetupEcho
    BY <1>13 DEF SetupStreamThree, BlockStart, SetupEcho
  <2>2. dest = d - 1 /\ port[3] * M + ra = n /\ two = dest + n
    BY <1>4, <1>9, <2>1 DEF ReceiverInv, PointerInv
  <2>3. two + port[3] * M + ra = (d - 1) + 2 * n
    <3> DEFINE p == port[3] * M
    <3>0. port \in [0 .. 3 -> Nat] /\ ra \in Nat
      BY DEF IInv, CpuInv, SpcInv
    <3>1. port[3] \in Nat /\ ra \in Nat /\ M \in Nat /\ d \in Nat /\ n \in Nat
      BY <1>5, <2>1, <3>0, Widths
    <3>2. p \in Nat /\ p + ra = n
      BY <2>2, <3>1
    <3>3. two + p + ra = (d - 1) + 2 * n
      <4> HIDE DEF p, d
      <4> QED BY <2>2, <3>1, <3>2
    <3> QED BY <3>3
  <2>4. three' = dest + 2 * n
    BY <1>6, <2>1, <2>2, <2>3
  <2>5. PointerInv'
    BY <1>0, <1>8, <2>1, <2>2, <2>4 DEF PointerInv, TripleReads
  <2> QED BY <1>8, <2>1, <2>5 DEF ReceiverInv
<1>14. CASE SetupEcho
  <2>1. /\ spc = "triple_open" /\ spc' = "triple_loop" /\ sy' = 1
        /\ UNCHANGED <<dest, two, three>> /\ ~BlockStart
    BY <1>14 DEF SetupEcho, BlockStart
  <2>2. dest = d - 1 /\ two = dest + n /\ three = dest + 2 * n
    BY <1>4, <2>1 DEF ReceiverInv, PointerInv
  <2>3. dest' + sy' = d
    BY <1>5, <2>1, <2>2
  <2>5. Current' = blk
    BY <1>0, <1>4, <2>1 DEF Current
  <2>6. PointerInv'
    BY <1>0, <1>4, <2>1, <2>2, <2>5 DEF PointerInv
  <2> QED BY <1>0, <1>4, <2>1, <2>3, <2>6, ReceiverEnters
<1> QED BY <1>3, <1>10, <1>11, <1>12, <1>13, <1>14

\* Byte i of block k is in its place in the memory image m; InPlace is this of aram.
Holds(m, k, i) == m[list[k].dest + i] = list[k].src + i

\* An offset inside a block lies below every address from the block's end on.
LEMMA Below ==
  ASSUME NEW b \in Nat, NEW e \in Nat, NEW d \in Nat, NEW i \in Nat, NEW j \in Nat,
         b + e <= d, i < e
  PROVE  b + i < d + j
OBVIOUS

\* From image f to image g byte i of block k lands, and nothing else changes.
Lands(f, g, k, i) ==
  /\ list[k].dest + i \in 0 .. Word - 1
  /\ g \in [0 .. Word - 1 -> Int]
  /\ g[list[k].dest + i] = list[k].src + i
  /\ \A a \in 0 .. Word - 1 : a # list[k].dest + i => g[a] = f[a]

\* A store at its address of the byte that belongs there lands it.
LEMMA StoreLands ==
  ASSUME IInv, NEW k \in 1 .. Len(list), NEW i \in Nat, NEW f \in [0 .. Word - 1 -> Int],
         NEW a \in 0 .. Word - 1, a = list[k].dest + i,
         NEW v, v = list[k].src + i
  PROVE  Lands(f, [f EXCEPT ![a] = v], k, i)
<1>1. v \in Int
  BY BlockFits DEF IInv
<1> DEFINE g == [f EXCEPT ![a] = v]
<1>2. g \in [0 .. Word - 1 -> Int] /\ g[a] = v /\ \A b \in 0 .. Word - 1 : b # a => g[b] = f[b]
  BY <1>1
<1> HIDE DEF g
<1>3. Lands(f, g, k, i)
  BY <1>2 DEF Lands
<1> QED BY <1>3 DEF g

\* One of a block's own bytes landing disturbs no byte in place.
LEMMA StoredRight ==
  ASSUME IInv, SenderInv, NEW c \in 1 .. Len(list), c <= blk, NEW j \in Nat,
         NEW f, NEW g, Lands(f, g, c, j)
  PROVE  /\ \A k \in 1 .. Len(list) : k < c =>
              \A i \in 0 .. list[k].len - 1 : Holds(f, k, i) => Holds(g, k, i)
         /\ \A i \in Nat : list[c].dest + i < Word /\ Holds(f, c, i) => Holds(g, c, i)
         /\ Holds(g, c, j)
<1> DEFINE d == list[c].dest
           s == list[c].src
<1>1. d \in Nat /\ s \in Nat /\ Word \in Nat /\ blk \in Nat
  BY BlockFits, Widths DEF IInv, CpuInv
<1>2. d + j \in 0 .. Word - 1 /\ g[d + j] = s + j
  BY DEF Lands
<1>3. \A a \in 0 .. Word - 1 : a # d + j => g[a] = f[a]
  BY DEF Lands
<1>4. ASSUME NEW k \in 1 .. Len(list), k < c, NEW i \in 0 .. list[k].len - 1, Holds(f, k, i)
      PROVE  Holds(g, k, i)
  <2> DEFINE b == list[k].dest
             e == list[k].len
  <2>1. b \in Nat /\ e \in Nat /\ i \in Nat /\ i < e
    BY <1>4, BlockFits DEF IInv
  <2>2. b + e <= d
    <3>1. k \in 1 .. c - 1
      BY <1>1, <1>4
    <3> QED BY <3>1 DEF SenderInv, Ordered
  <2>3. b + i # d + j /\ b + i \in 0 .. Word - 1
    <3> HIDE DEF b, e, d
    <3>1. b + i < d + j
      BY <1>1, <2>1, <2>2, Below
    <3>2. b + i \in Nat /\ d + j \in Nat
      BY <1>1, <2>1
    <3>3. b + i # d + j
      BY <3>1, <3>2
    <3>4. b + i \in 0 .. Word - 1
      BY <1>1, <1>2, <3>1, <3>2
    <3> QED BY <3>3, <3>4
  <2>4. g[b + i] = f[b + i]
    <3> HIDE DEF b, d
    <3> QED BY <1>3, <2>3
  <2> QED BY <1>4, <2>4 DEF Holds
<1>5. ASSUME NEW i \in Nat, d + i < Word, Holds(f, c, i)
      PROVE  Holds(g, c, i)
  <2>1. CASE i = j
    BY <1>2, <2>1 DEF Holds
  <2>2. CASE i # j
    <3>1. d + i # d + j /\ d + i \in 0 .. Word - 1
      <4> HIDE DEF d
      <4> QED BY <1>1, <1>5, <2>2
    <3>2. g[d + i] = f[d + i]
      BY <1>3, <3>1
    <3> QED BY <1>5, <3>2 DEF Holds
  <2> QED BY <2>1, <2>2
<1>6. Holds(g, c, j)
  BY <1>2 DEF Holds
<1> QED BY <1>4, <1>5, <1>6

\* Storing moves the receiver on by one and settles one counter.
LEMMA PositionStores ==
  ASSUME IInv, Handshake, SenderInv, ReceiverInv, UNCHANGED <<cpuVars, kind>>,
         \/ spc = "byte_store" /\ spc' = "byte_loop"
         \/ spc = "store_rest" /\ spc' = "triple_loop",
         sy' = After(sy), dest' + sy' = dest + sy + 1
  PROVE  Current' = Current /\ At' = At + 1 /\ Position'
<1> USE DEF ByteReads, TripleReads, Waiting, Storing
<1>1. UNCHANGED <<cpu, list, blk, idx, n, ctr>>
  BY DEF cpuVars, sent
<1>2. Receiving /\ Receiving'
  BY DEF Receiving
<1>3. Current' = Current /\ Count' = Count
  BY <1>1, <1>2 DEF Current, Count
<1>4. At \in Nat /\ list[Current].dest \in Nat
  BY <1>2, Ongoing, BlockFits DEF IInv
<1>5. At' = At + 1
  <2> DEFINE d == list[Current].dest
  <2>1. At' = (dest + sy + 1) - d /\ At = (dest + sy) - d
    BY <1>1, <1>3 DEF At
  <2>2. dest \in Nat /\ sy \in Nat /\ d \in Nat
    BY <1>4, Widths DEF IInv, SpcInv
  <2>3. (dest + sy + 1) - d = ((dest + sy) - d) + 1
    <3> HIDE DEF d
    <3> QED BY <2>2
  <2> QED BY <2>1, <2>3
<1>6. Owed = IF After(sy) = ctr THEN 2 ELSE 1
  BY DEF Owed
<1>7. Owed' = IF After(sy) = ctr THEN 1 ELSE 0
  BY <1>1 DEF Owed
<1>8. cpu # "opening_echo"
  BY DEF Handshake, TriplePair, SetupReads
<1>9. At = idx - Owed /\ (cpu \in HeaderSteps => idx = Count) /\ idx \in Nat
  BY <1>8 DEF ReceiverInv, Position, IInv, CpuInv
<1>10. At' = idx - Owed'
  <2> HIDE DEF Waiting, Storing
  <2> QED BY <1>4, <1>5, <1>6, <1>7, <1>9
<1>11. At' >= 0
  BY <1>4, <1>5
<1>12. Position'
  BY <1>1, <1>3, <1>8, <1>9, <1>10, <1>11 DEF Position
<1> QED BY <1>3, <1>5, <1>12

\* Where the receiver's stores land: inside sound RAM, each in its stream's place.
LEMMA WhereStored ==
  ASSUME IInv, Handshake, SenderInv, ReceiverInv, Receiving,
         spc \notin Waiting \/ sy = ctr
  PROVE  /\ Current <= blk
         /\ dest + sy = list[Current].dest + At /\ list[Current].dest + At + 1 < Word
         /\ spc \in TripleReads =>
              /\ two + sy = list[Current].dest + (n + At)
              /\ three + sy = list[Current].dest + (2 * n + At)
              /\ list[Current].dest + (n + At) < Word
              /\ list[Current].dest + (2 * n + At) < Word
              /\ At + 1 < n => /\ list[Current].dest + (n + At) + 1 < Word
                               /\ list[Current].dest + (2 * n + At) + 1 < Word
<1> DEFINE d == list[Current].dest
           e == list[Current].len
           a == At
<1>1. Current \in 1 .. Len(list) /\ a \in Nat /\ a < Count
      /\ (spc \in ByteReads => Count = e)
      /\ (spc \in TripleReads => Count = n /\ n = Handshakes(e))
  BY Ongoing
<1>2. d \in Nat /\ e \in Nat /\ e > 0 /\ d + e + 2 <= Word /\ Word \in Nat
  BY <1>1, BlockLaidOut, Widths DEF IInv
<1>3. /\ dest \in Nat /\ sy \in Nat /\ two \in Nat /\ three \in Nat /\ n \in Nat
      /\ blk \in Nat
  BY Widths DEF IInv, CpuInv, SpcInv
<1>4. Current <= blk
  BY <1>3 DEF Current
<1>5. a = (dest + sy) - d
  BY DEF At
<1>6. spc \in TripleReads => n = Handshakes(e) /\ a < n /\ two = dest + n /\ three = dest + 2 * n
  <2> SUFFICES ASSUME spc \in TripleReads
               PROVE  n = Handshakes(e) /\ a < n /\ two = dest + n /\ three = dest + 2 * n
    OBVIOUS
  <2>1. n = Handshakes(e) /\ At < n
    BY <1>1
  <2> QED BY <2>1 DEF ReceiverInv, PointerInv
<1>7. spc \in TripleReads => n <= e /\ 3 * n <= e + 2
  BY <1>2, <1>6, StreamsCover
<1>8. spc \in ByteReads => a < e
  BY <1>1
<1>9. spc \in ByteReads \/ spc \in TripleReads
  BY DEF Receiving
<1> HIDE DEF d, e, a
<1>10. dest + sy = d + a /\ d + a + 1 < Word
  <2>1. a < e
    BY <1>2, <1>3, <1>1, <1>6, <1>7, <1>8, <1>9
  <2> QED BY <1>1, <1>2, <1>3, <1>5, <2>1
<1>11. ASSUME spc \in TripleReads
       PROVE  /\ two + sy = d + (n + a)
              /\ three + sy = d + (2 * n + a)
              /\ d + (n + a) < Word
              /\ d + (2 * n + a) < Word
              /\ a + 1 < n => /\ d + (n + a) + 1 < Word
                              /\ d + (2 * n + a) + 1 < Word
  <2>1. two = dest + n /\ three = dest + 2 * n /\ a < n /\ 3 * n <= e + 2
    BY <1>6, <1>7, <1>11
  <2>2. two + sy = d + (n + a)
    BY <1>1, <1>2, <1>3, <1>10, <2>1
  <2>3. three + sy = d + (2 * n + a)
    BY <1>1, <1>2, <1>3, <1>10, <2>1
  <2>4. 2 * n + a < e + 2 /\ n + a <= 2 * n + a
    BY <1>1, <1>2, <1>3, <2>1
  <2>5. d + (2 * n + a) < Word /\ d + (n + a) < Word
    BY <1>1, <1>2, <1>3, <2>4
  <2>6. ASSUME a + 1 < n
        PROVE  d + (2 * n + a) + 1 < Word /\ d + (n + a) + 1 < Word
    <3>1. 2 * n + a + 1 < e + 2
      BY <1>1, <1>2, <1>3, <2>1, <2>6
    <3> QED BY <1>1, <1>2, <1>3, <2>4, <3>1
  <2> QED BY <2>2, <2>3, <2>5, <2>6
<1> QED BY <1>4, <1>10, <1>11 DEF a, d

\* Whatever the receiver stores is a byte of its block, and in its place.
LEMMA WhatLands ==
  ASSUME IInv, Handshake, SenderInv, ReceiverInv
  PROVE  /\ ByteStore \/ StoreOne => Lands(aram, aram', Current, At)
         /\ StoreRest => \E m \in [0 .. Word - 1 -> Int] :
                           /\ Lands(aram, m, Current, 2 * n + At)
                           /\ Lands(m, aram', Current, n + At)
<1> USE DEF ByteReads, TripleReads
<1>1. aram \in [0 .. Word - 1 -> Int] /\ n \in Nat /\ Word \in Nat /\ idx \in Nat
      /\ two \in Int /\ three \in Int /\ sy \in Int
  BY Widths DEF IInv, SpcInv, CpuInv
<1>2. ASSUME spc \in {"byte_store", "store_one", "store_rest"}
      PROVE  /\ Receiving /\ spc \notin Waiting
             /\ Current \in 1 .. Len(list) /\ At \in Nat
             /\ list[Current].dest \in Nat /\ list[Current].src \in Nat
  <2>1. Receiving /\ spc \notin Waiting
    BY <1>2 DEF Receiving, Waiting
  <2> QED BY <2>1, Ongoing, BlockLaidOut DEF IInv
<1>3. ASSUME ByteStore \/ StoreOne
      PROVE  Lands(aram, aram', Current, At)
  <2>1. /\ spc \in {"byte_store", "store_one"}
        /\ ByteStore => spc = "byte_store" /\ aram' = [aram EXCEPT ![(dest + sy) % Word] = ra]
        /\ StoreOne => spc = "store_one" /\ aram' = [aram EXCEPT ![(dest + sy) % Word] = port[1]]
    BY <1>3 DEF ByteStore, StoreOne, Step, Store
  <2> DEFINE d == list[Current].dest
             a == At
  <2>2. dest + sy = d + a /\ d + a + 1 < Word /\ d \in Nat /\ a \in Nat
    BY <1>2, <2>1, WhereStored
  <2>3. d + a \in 0 .. Word - 1 /\ (dest + sy) % Word = d + a
    <3>1. 0 <= d + a /\ d + a < Word /\ d + a \in Int
      <4> HIDE DEF d, a
      <4> QED BY <1>1, <2>2
    <3> QED BY <1>1, <2>2, <3>1, FitsWord
  <2>4. CASE ByteStore
    <3>1. ra = list[Current].src + At
      BY <2>1, <2>4 DEF ReceiverInv, HeldInv
    <3>2. Lands(aram, [aram EXCEPT ![d + a] = ra], Current, At)
      BY <1>1, <1>2, <2>1, <2>3, <3>1, StoreLands
    <3> QED BY <2>1, <2>3, <2>4, <3>2
  <2>5. CASE StoreOne
    <3>1. spc = "store_one" /\ (cpu = "handshake_echo" \/ LastSent(THREE_BYTE))
      BY <2>1, <2>5, SenderWaits
    <3>2. Current = blk /\ cpu # "opening_echo"
      BY <3>1 DEF Current, LastSent, HeaderSteps
    <3>3. Owed = 1
      BY <3>1 DEF Owed, Waiting, Storing
    <3>4. At = idx - 1
      BY <3>1, <3>2, <3>3 DEF ReceiverInv, Position
    <3>5. port[1] = list[Current].src + At
      BY <3>1, <3>2, <3>4 DEF SenderInv, PostedInv
    <3>6. Lands(aram, [aram EXCEPT ![d + a] = port[1]], Current, At)
      BY <1>1, <1>2, <2>1, <2>3, <3>5, StoreLands
    <3> QED BY <2>1, <2>3, <2>5, <3>6
  <2> QED BY <1>3, <2>4, <2>5
<1>4. ASSUME StoreRest
      PROVE  \E m \in [0 .. Word - 1 -> Int] :
               /\ Lands(aram, m, Current, 2 * n + At)
               /\ Lands(m, aram', Current, n + At)
  <2>1. /\ spc = "store_rest"
        /\ aram' = [[aram EXCEPT ![(three + sy) % Word] = ra] EXCEPT ![(two + sy) % Word] = rx]
    BY <1>4 DEF StoreRest, Step, Store
  <2> DEFINE d == list[Current].dest
             a == At
             p == d + (n + a)
             q == d + (2 * n + a)
  <2>2. /\ two + sy = p /\ three + sy = q /\ p < Word /\ q < Word
        /\ d \in Nat /\ a \in Nat
    BY <1>2, <2>1, WhereStored
  <2>3. p \in Nat /\ q \in Nat /\ n + a \in Nat /\ 2 * n + a \in Nat
    <3> HIDE DEF d, a
    <3> QED BY <1>1, <2>2
  <2>4. p % Word = p /\ q % Word = q /\ p \in 0 .. Word - 1 /\ q \in 0 .. Word - 1
    <3> HIDE DEF p, q
    <3> QED BY <1>1, <2>2, <2>3, FitsWord
  <2>5. rx = list[Current].src + (n + At) /\ ra = list[Current].src + (2 * n + At)
    BY <2>1 DEF ReceiverInv, HeldInv
  <2> DEFINE m == [aram EXCEPT ![q] = ra]
  <2>6. Lands(aram, m, Current, 2 * n + At)
    BY <1>1, <1>2, <2>1, <2>3, <2>4, <2>5, StoreLands
  <2>7. m \in [0 .. Word - 1 -> Int]
    BY <2>6 DEF Lands
  <2>8. aram' = [m EXCEPT ![p] = rx]
    BY <2>1, <2>2, <2>4
  <2>9. Lands(m, [m EXCEPT ![p] = rx], Current, n + At)
    <3> HIDE DEF m
    <3> QED BY <1>2, <2>1, <2>3, <2>4, <2>5, <2>7, StoreLands
  <2> HIDE DEF m
  <2>10. Lands(m, aram', Current, n + At)
    BY <2>8, <2>9
  <2> QED BY <2>6, <2>7, <2>10
<1> QED BY <1>3, <1>4

\* The byte of kind 1 lands.
LEMMA ByteStored ==
  ASSUME IInv, Handshake, SenderInv, ReceiverInv, ByteStore
  PROVE  ReceiverInv'
<1> USE DEF ByteReads, TripleReads, SetupReads
<1>1. /\ spc = "byte_store" /\ spc' = "byte_loop" /\ sy' = After(sy)
      /\ dest' = NextPage(dest) /\ aram' = [aram EXCEPT ![(dest + sy) % Word] = ra]
      /\ UNCHANGED <<cpuVars, kind>> /\ UNCHANGED <<list, blk, n>>
  BY DEF ByteStore, Step, After, Store, cpuVars, sent
<1>2. Receiving /\ spc \notin Waiting
  BY <1>1 DEF Receiving, Waiting
<1> DEFINE d == list[Current].dest
<1>3. /\ Current \in 1 .. Len(list) /\ At \in Nat /\ d \in Nat /\ list[Current].src \in Nat
      /\ list[Current].len \in Nat /\ Word \in Nat
      /\ At < list[Current].len /\ d + list[Current].len + 2 <= Word
  BY <1>1, <1>2, Ongoing, BlockLaidOut, Widths DEF IInv
<1>4. Current <= blk /\ dest + sy = d + At /\ d + At + 1 < Word
  BY <1>2, WhereStored
<1>5. dest \in 0 .. Word - 1 /\ aram \in [0 .. Word - 1 -> Int]
  BY DEF IInv, SpcInv
<1>6. d + At < Word /\ d + At >= 0 /\ d + At \in Int
  <2> DEFINE a == At
  <2>1. a \in Nat /\ d \in Nat /\ Word \in Nat /\ d + a + 1 < Word
    BY <1>3, <1>4
  <2> HIDE DEF a, d
  <2>2. d + a < Word /\ d + a >= 0 /\ d + a \in Int
    BY <2>1
  <2> QED BY <2>2 DEF a
<1>7. dest' + sy' = dest + sy + 1
  <2>1. dest + sy + 1 < Word
    BY <1>4
  <2> QED BY <1>1, <1>5, <2>1, PointerSteps
<1>8. Current' = Current /\ At' = At + 1 /\ Position'
  BY <1>1, <1>7, PositionStores
<1>10. Lands(aram, aram', Current, At)
  BY WhatLands
<1>11. /\ \A k \in 1 .. Len(list) : k < Current =>
            \A i \in 0 .. list[k].len - 1 : Holds(aram, k, i) => Holds(aram', k, i)
       /\ \A i \in Nat : d + i < Word /\ Holds(aram, Current, i) => Holds(aram', Current, i)
       /\ Holds(aram', Current, At)
  BY <1>3, <1>4, <1>10, StoredRight
<1>12. ASSUME NEW k \in 1 .. Len(list), k < Current, NEW i \in 0 .. list[k].len - 1
       PROVE  Holds(aram', k, i)
  <2>1. Holds(aram, k, i)
    BY <1>12 DEF ReceiverInv, ArrivedInv, InPlace, Holds
  <2> QED BY <1>11, <1>12, <2>1
<1>13. ASSUME NEW i \in 0 .. At
       PROVE  Holds(aram', Current, i)
  <2>1. CASE i = At
    BY <1>11, <2>1
  <2>2. CASE i # At
    <3>1. i \in 0 .. At - 1 /\ i \in Nat /\ i < At
      BY <1>3, <2>2
    <3>2. Holds(aram, Current, i)
      BY <1>1, <3>1 DEF ReceiverInv, ArrivedInv, InPlace, Holds
    <3>3. d + i < Word
      <4> DEFINE a == At
      <4>1. d + a < Word /\ i < a /\ a \in Nat /\ d \in Nat /\ i \in Nat /\ Word \in Nat
        BY <1>3, <1>6, <3>1
      <4> HIDE DEF a, d
      <4> QED BY <4>1
    <3> QED BY <1>11, <3>1, <3>2, <3>3
  <2> QED BY <2>1, <2>2
<1>14. ArrivedInv'
  <2>1. \A i : i \in 0 .. At' - 1 => i \in 0 .. At
    BY <1>3, <1>8
  <2>2. \A k \in 1 .. Len(list)' :
          k < Current' => \A i \in 0 .. list'[k].len - 1 : InPlace(k, i)'
    BY <1>1, <1>8, <1>12 DEF InPlace, Holds
  <2>3. \A i \in 0 .. At' - 1 : InPlace(Current, i)'
    BY <1>1, <1>8, <1>13, <2>1 DEF InPlace, Holds
  <2> QED BY <1>1, <1>8, <2>2, <2>3 DEF ArrivedInv
<1>15. PointerInv' /\ HeldInv'
  BY <1>1 DEF PointerInv, HeldInv
<1> QED BY <1>1, <1>8, <1>14, <1>15 DEF ReceiverInv

\* The first byte of a triple lands before the other two are read.
LEMMA FirstStored ==
  ASSUME IInv, Handshake, SenderInv, ReceiverInv, StoreOne
  PROVE  ReceiverInv'
<1> USE DEF ByteReads, TripleReads, SetupReads
<1>1. /\ spc = "store_one" /\ spc' = "read_two"
      /\ UNCHANGED <<cpuVars, sy, kind, dest, two, three>>
      /\ UNCHANGED <<cpu, list, blk, idx, n, ctr>>
  BY DEF StoreOne, Step, cpuVars, sent, regs
<1>2. Receiving /\ Receiving' /\ spc \notin Waiting
  BY <1>1 DEF Receiving, Waiting
<1>3. Current' = Current
  BY <1>1, <1>2 DEF Current
<1>4. At' = At /\ Count' = Count /\ Owed' = Owed
  BY <1>1, <1>3 DEF At, Count, Owed, Waiting, Storing
<1>5. /\ Current \in 1 .. Len(list) /\ Current <= blk /\ At \in Nat /\ At < n /\ n \in Nat
      /\ Lands(aram, aram', Current, At)
  BY <1>1, <1>2, Ongoing, WhereStored, WhatLands DEF IInv, CpuInv
<1>6. list[Current].dest + (2 * n + At) < Word
  BY <1>1, <1>2, WhereStored
<1>7. /\ \A k \in 1 .. Len(list) : k < Current =>
           \A i \in 0 .. list[k].len - 1 : Holds(aram, k, i) => Holds(aram', k, i)
      /\ \A i \in Nat : list[Current].dest + i < Word /\ Holds(aram, Current, i) =>
           Holds(aram', Current, i)
      /\ Holds(aram', Current, At)
  BY <1>5, StoredRight
<1>8. ASSUME NEW i \in 0 .. At - 1
      PROVE  /\ Holds(aram', Current, i) /\ Holds(aram', Current, n + i)
             /\ Holds(aram', Current, 2 * n + i)
  <2> DEFINE d == list[Current].dest
             a == At
  <2>1. d \in Nat /\ Word \in Nat
    BY <1>5, BlockFits, Widths DEF IInv
  <2>2. /\ d + i < Word /\ d + (n + i) < Word /\ d + (2 * n + i) < Word
        /\ i \in Nat /\ n + i \in Nat /\ 2 * n + i \in Nat
    <3>1. d + (2 * n + a) < Word /\ a \in Nat /\ n \in Nat /\ i \in 0 .. a - 1
      BY <1>5, <1>6
    <3> HIDE DEF d, a
    <3>2. i \in Nat /\ n + i \in Nat /\ 2 * n + i \in Nat /\ i < a
      BY <3>1
    <3>3. d + (2 * n + i) < Word
      BY <2>1, <3>1, <3>2
    <3> QED BY <2>1, <3>1, <3>2, <3>3
  <2>3. Holds(aram, Current, i) /\ Holds(aram, Current, n + i) /\ Holds(aram, Current, 2 * n + i)
    BY <1>1 DEF ReceiverInv, ArrivedInv, InPlace, Holds
  <2> QED BY <1>7, <2>2, <2>3
<1>9. Position'
  BY <1>1, <1>3, <1>4 DEF ReceiverInv, Position
<1>10. PointerInv'
  BY <1>1, <1>3, <1>4 DEF ReceiverInv, PointerInv
<1>11. HeldInv'
  BY <1>1 DEF HeldInv
<1>12. ArrivedInv'
  <2>1. \A k \in 1 .. Len(list)' :
          k < Current' => \A i \in 0 .. list'[k].len - 1 : InPlace(k, i)'
    <3>1. ASSUME NEW k \in 1 .. Len(list), k < Current, NEW i \in 0 .. list[k].len - 1
          PROVE  Holds(aram', k, i)
      <4>1. Holds(aram, k, i)
        BY <3>1 DEF ReceiverInv, ArrivedInv, InPlace, Holds
      <4> QED BY <1>7, <3>1, <4>1
    <3> QED BY <1>1, <1>3, <3>1 DEF InPlace, Holds
  <2>2. \A i \in 0 .. At' - 1 : /\ InPlace(Current, i)'
                                /\ InPlace(Current, n + i)'
                                /\ InPlace(Current, 2 * n + i)'
    BY <1>1, <1>3, <1>4, <1>8 DEF InPlace, Holds
  <2>3. InPlace(Current, At)'
    BY <1>1, <1>3, <1>4, <1>7 DEF InPlace, Holds
  <2> QED BY <1>1, <2>1, <2>2, <2>3 DEF ArrivedInv
<1> QED BY <1>1, <1>9, <1>10, <1>11, <1>12 DEF ReceiverInv

\* The other two bytes land and the three pointers step on.
LEMMA RestStored ==
  ASSUME IInv, Handshake, SenderInv, ReceiverInv, StoreRest
  PROVE  ReceiverInv'
<1> USE DEF ByteReads, TripleReads, SetupReads
<1>1. /\ spc = "store_rest" /\ spc' = "triple_loop" /\ sy' = After(sy)
      /\ dest' = NextPage(dest) /\ two' = NextPage(two) /\ three' = NextPage(three)
      /\ UNCHANGED <<cpuVars, kind>> /\ UNCHANGED <<list, blk, n>>
  BY DEF StoreRest, Step, After, cpuVars, sent
<1>2. Receiving /\ spc \notin Waiting
  BY <1>1 DEF Receiving, Waiting
<1> DEFINE d == list[Current].dest
           a == At
<1>3. /\ Current \in 1 .. Len(list) /\ Current <= blk /\ a \in Nat /\ a < n /\ n \in Nat
      /\ n = Handshakes(list[Current].len) /\ d \in Nat /\ Word \in Nat
  BY <1>1, <1>2, Ongoing, WhereStored, BlockFits, Widths DEF IInv, CpuInv
<1>4. /\ dest + sy = d + a /\ d + a + 1 < Word
      /\ two + sy = d + (n + a) /\ three + sy = d + (2 * n + a)
      /\ d + (2 * n + a) < Word
      /\ a + 1 < n => d + (n + a) + 1 < Word /\ d + (2 * n + a) + 1 < Word
  BY <1>1, <1>2, WhereStored
<1>5. /\ dest \in 0 .. Word - 1 /\ two \in 0 .. Word - 1 /\ three \in 0 .. Word - 1
      /\ sy \in 0 .. M - 1 /\ sy' \in Nat
  <2>1. sy \in 0 .. M - 1
    BY DEF IInv, SpcInv
  <2> QED BY <1>1, <2>1, NextIndex, Widths DEF IInv, SpcInv
<1>6. dest' + sy' = dest + sy + 1
  <2>1. dest + sy + 1 < Word
    BY <1>4
  <2> QED BY <1>1, <1>5, <2>1, PointerSteps
<1>7. Current' = Current /\ At' = a + 1 /\ Position'
  BY <1>1, <1>6, PositionStores
<1>8. a + 1 < n => two' + sy' = two + sy + 1 /\ three' + sy' = three + sy + 1
  <2> SUFFICES ASSUME a + 1 < n
               PROVE  two' + sy' = two + sy + 1 /\ three' + sy' = three + sy + 1
    OBVIOUS
  <2>1. two + sy + 1 < Word /\ three + sy + 1 < Word
    BY <1>4
  <2> QED BY <1>1, <1>5, <2>1, PointerSteps
<1>9. a + 1 < n => two' = dest' + n /\ three' = dest' + 2 * n
  <2> SUFFICES ASSUME a + 1 < n PROVE two' = dest' + n /\ three' = dest' + 2 * n
    OBVIOUS
  <2>1. /\ dest' + sy' = d + a + 1
        /\ two' + sy' = (d + a + 1) + n
        /\ three' + sy' = (d + a + 1) + 2 * n
    <3>1. /\ dest' + sy' = d + a + 1
          /\ two' + sy' = d + (n + a) + 1 /\ three' + sy' = d + (2 * n + a) + 1
      BY <1>4, <1>6, <1>8
    <3>2. /\ d + (n + a) + 1 = (d + a + 1) + n
          /\ d + (2 * n + a) + 1 = (d + a + 1) + 2 * n
      <4> HIDE DEF d, a
      <4> QED BY <1>3
    <3> QED BY <3>1, <3>2
  <2>2. dest' \in Int /\ two' \in Int /\ three' \in Int /\ sy' \in Int
    <3>1. \A b \in 0 .. Word - 1 : NextPage(b) \in Int
      <4> TAKE b \in 0 .. Word - 1
      <4>1. (b + M) % Word \in 0 .. Word - 1
        BY Widths, ReducedToWord
      <4> QED BY <4>1, Widths DEF NextPage
    <3> QED BY <1>1, <1>5, <3>1
  <2>3. d + a + 1 \in Int /\ n \in Int
    <3> HIDE DEF d, a
    <3> QED BY <1>3
  <2> DEFINE b == d + a + 1
             p == dest'
             q == two'
             r == three'
             v == sy'
  <2>4. /\ p \in Int /\ q \in Int /\ r \in Int /\ v \in Int /\ b \in Int /\ n \in Int
        /\ p + v = b /\ q + v = b + n /\ r + v = b + 2 * n
    BY <2>1, <2>2, <2>3
  <2> HIDE DEF b, p, q, r, v
  <2>5. q = p + n /\ r = p + 2 * n
    BY <2>4
  <2> QED BY <2>5 DEF p, q, r
<1>10. PointerInv'
  BY <1>1, <1>3, <1>7, <1>9 DEF PointerInv
<1>11. PICK m \in [0 .. Word - 1 -> Int] :
         Lands(aram, m, Current, 2 * n + a) /\ Lands(m, aram', Current, n + a)
  BY WhatLands
<1>12. n + a \in Nat /\ 2 * n + a \in Nat
  <2> HIDE DEF a
  <2> QED BY <1>3
<1>13. /\ \A k \in 1 .. Len(list) : k < Current =>
            \A i \in 0 .. list[k].len - 1 : Holds(aram, k, i) => Holds(m, k, i)
       /\ \A i \in Nat : d + i < Word /\ Holds(aram, Current, i) => Holds(m, Current, i)
       /\ Holds(m, Current, 2 * n + a)
  BY <1>3, <1>11, <1>12, StoredRight
<1>14. /\ \A k \in 1 .. Len(list) : k < Current =>
            \A i \in 0 .. list[k].len - 1 : Holds(m, k, i) => Holds(aram', k, i)
       /\ \A i \in Nat : d + i < Word /\ Holds(m, Current, i) => Holds(aram', Current, i)
       /\ Holds(aram', Current, n + a)
  BY <1>3, <1>11, <1>12, StoredRight
<1>15. ASSUME NEW k \in 1 .. Len(list), k < Current, NEW i \in 0 .. list[k].len - 1
       PROVE  Holds(aram', k, i)
  <2>1. Holds(aram, k, i)
    BY <1>15 DEF ReceiverInv, ArrivedInv, InPlace, Holds
  <2>2. Holds(m, k, i)
    BY <1>13, <1>15, <2>1
  <2> QED BY <1>14, <1>15, <2>2
<1>16. \A i \in Nat : d + i < Word /\ Holds(aram, Current, i) => Holds(aram', Current, i)
  BY <1>13, <1>14
<1>17. Holds(aram', Current, 2 * n + a)
  BY <1>4, <1>12, <1>13, <1>14
<1>18. Holds(aram', Current, a)
  <2>1. Holds(aram, Current, a)
    BY <1>1 DEF ReceiverInv, ArrivedInv, InPlace, Holds
  <2>2. d + a < Word
    <3> HIDE DEF d, a
    <3> QED BY <1>3, <1>4
  <2> QED BY <1>3, <1>16, <2>1, <2>2
<1>19. ASSUME NEW i \in 0 .. a
       PROVE  /\ Holds(aram', Current, i) /\ Holds(aram', Current, n + i)
              /\ Holds(aram', Current, 2 * n + i)
  <2>1. CASE i = a
    BY <1>14, <1>17, <1>18, <2>1
  <2>2. CASE i # a
    <3>1. i \in 0 .. a - 1
      BY <1>3, <2>2
    <3>2. Holds(aram, Current, i) /\ Holds(aram, Current, n + i) /\ Holds(aram, Current, 2 * n + i)
      BY <1>1, <3>1 DEF ReceiverInv, ArrivedInv, InPlace, Holds
    <3>3. /\ d + i < Word /\ d + (n + i) < Word /\ d + (2 * n + i) < Word
          /\ i \in Nat /\ n + i \in Nat /\ 2 * n + i \in Nat
      <4> HIDE DEF d, a
      <4>0. d \in Nat /\ a \in Nat /\ n \in Nat /\ Word \in Nat /\ d + (2 * n + a) < Word
        BY <1>3, <1>4
      <4>1. i \in Nat /\ n + i \in Nat /\ 2 * n + i \in Nat /\ i < a
        BY <4>0, <3>1
      <4>2. d + (2 * n + i) < Word
        BY <4>0, <4>1
      <4>3. d + i < Word /\ d + (n + i) < Word
        BY <4>0, <4>1, <4>2
      <4> QED BY <4>1, <4>2, <4>3
    <3> QED BY <1>16, <3>2, <3>3
  <2> QED BY <2>1, <2>2
<1>20. ArrivedInv'
  <2>1. \A i : i \in 0 .. At' - 1 => i \in 0 .. a
    BY <1>3, <1>7
  <2>2. \A k \in 1 .. Len(list)' :
          k < Current' => \A i \in 0 .. list'[k].len - 1 : InPlace(k, i)'
    BY <1>1, <1>7, <1>15 DEF InPlace, Holds
  <2>3. \A i \in 0 .. At' - 1 : /\ InPlace(Current, i)'
                                /\ InPlace(Current, n + i)'
                                /\ InPlace(Current, 2 * n + i)'
    BY <1>1, <1>7, <1>19, <2>1 DEF InPlace, Holds
  <2> QED BY <1>1, <2>2, <2>3 DEF ArrivedInv
<1>21. HeldInv'
  BY <1>1 DEF HeldInv
<1> QED BY <1>1, <1>7, <1>10, <1>20, <1>21 DEF ReceiverInv

\* When the receiver sees the next header, the block it leaves is whole.
LEMMA LeftWhole ==
  ASSUME IInv, Handshake, SenderInv, ReceiverInv, ByteLoop \/ TripleLoop, spc' = "dest_low"
  PROVE  /\ cpu = "header_echo" /\ Receiving
         /\ Current = blk - 1 /\ Current \in 1 .. Len(list)
         /\ \A i \in 0 .. list[Current].len - 1 : InPlace(Current, i)
<1> USE DEF ByteReads, TripleReads, Waiting, Storing
<1>1. /\ spc \in {"byte_loop", "triple_loop"}
      /\ port[0] # sy /\ ~Ahead
  BY DEF ByteLoop, TripleLoop
<1>2. Receiving
  BY <1>1 DEF Receiving
<1>3. Behind(sy, ctr) /\ sy # ctr
  BY <1>1, HeaderTest DEF Handshake
<1>4. cpu = "header_echo"
  BY <1>1, <1>3, SenderWaits
<1>5. Current = blk - 1
  BY <1>2, <1>4 DEF Current, HeaderSteps
<1> DEFINE e == list[Current].len
<1>6. /\ Current \in 1 .. Len(list) /\ At \in Nat /\ Count \in Nat
      /\ spc \in ByteReads => Count = e
      /\ spc \in TripleReads => Count = n /\ n = Handshakes(e)
  BY <1>2, Ongoing
<1>7. e \in Nat /\ e > 0 /\ n \in Nat
  BY <1>6, BlockFits DEF IInv, CpuInv
<1>8. Owed = 0
  BY <1>1, <1>3 DEF Owed
<1>9. At = idx - Owed /\ idx = Count
  BY <1>1, <1>4 DEF ReceiverInv, Position, HeaderSteps
<1>10. At = Count
  BY <1>6, <1>8, <1>9
<1>11. ASSUME NEW i \in 0 .. e - 1
       PROVE  InPlace(Current, i)
  <2>1. CASE spc = "byte_loop"
    <3>1. i \in 0 .. At - 1
      BY <1>6, <1>10, <2>1
    <3> QED BY <2>1, <3>1 DEF ReceiverInv, ArrivedInv
  <2>2. CASE spc = "triple_loop"
    <3>1. At = n /\ e <= 3 * n
      BY <1>6, <1>7, <1>10, <2>2, StreamsCover
    <3> HIDE DEF e
    <3>2. \A h \in 0 .. n - 1 : /\ InPlace(Current, h)
                                /\ InPlace(Current, n + h)
                                /\ InPlace(Current, 2 * n + h)
      BY <2>2, <3>1 DEF ReceiverInv, ArrivedInv
    <3>3. CASE i < n
      <4>1. i \in 0 .. n - 1
        BY <1>7, <3>3
      <4> QED BY <3>2, <4>1
    <3>4. CASE n <= i /\ i < 2 * n
      <4>1. i - n \in 0 .. n - 1 /\ n + (i - n) = i
        BY <1>7, <3>4
      <4> QED BY <3>2, <4>1
    <3>5. CASE 2 * n <= i
      <4>1. i - 2 * n \in 0 .. n - 1 /\ 2 * n + (i - 2 * n) = i
        BY <1>7, <3>1, <3>5
      <4> QED BY <3>2, <4>1
    <3> QED BY <1>7, <3>3, <3>4, <3>5
  <2> QED BY <1>1, <2>1, <2>2
<1> QED BY <1>2, <1>4, <1>5, <1>6, <1>11

\* Then it has one block more behind it.
LEMMA ReceiverLeaves ==
  ASSUME IInv, Handshake, SenderInv, ReceiverInv, ByteLoop \/ TripleLoop, spc' = "dest_low"
  PROVE  ReceiverInv'
<1> USE DEF ByteReads, TripleReads, SetupReads
<1>1. UNCHANGED <<cpu, list, blk, aram>>
  BY DEF ByteLoop, TripleLoop, cpuVars, sent
<1>2. /\ Current = blk - 1
      /\ \A i \in 0 .. list[Current].len - 1 : InPlace(Current, i)
  BY LeftWhole
<1>3. Current' = blk
  BY <1>1 DEF Current, Receiving
<1>4. Position' /\ PointerInv' /\ HeldInv'
  BY DEF Position, PointerInv, HeldInv
<1>5. ArrivedInv'
  <2>1. ASSUME NEW k \in 1 .. Len(list), k < blk, NEW i \in 0 .. list[k].len - 1
        PROVE  InPlace(k, i)
    <3>1. k < Current \/ k = Current
      BY <1>2, <2>1 DEF IInv, CpuInv
    <3> QED BY <1>2, <2>1, <3>1 DEF ReceiverInv, ArrivedInv
  <2> QED BY <1>1, <1>3, <2>1 DEF ArrivedInv, InPlace
<1> QED BY <1>4, <1>5 DEF ReceiverInv

\* Every step of the receiver keeps its part of the invariant,
LEMMA ReceiverSpc ==
  ASSUME IInv, Handshake, SenderInv, ReceiverInv, SpcNext
  PROVE  ReceiverInv'
<1>1. CASE ByteLoop \/ TripleLoop
  <2>1. \/ ByteLoop /\ spc' = "byte_data"
        \/ TripleLoop /\ spc' = "store_one"
        \/ spc' = "dest_low"
    BY <1>1 DEF ByteLoop, TripleLoop
  <2> QED BY <1>1, <2>1, ReceiverReads, ReceiverLeaves
<1>2. CASE ByteData \/ ByteEchoed \/ ReadTwo \/ ReadThree \/ TripleEcho
  BY <1>2, ReceiverReads
<1>3. CASE ByteStore \/ StoreOne \/ StoreRest
  BY <1>3, ByteStored, FirstStored, RestStored
<1>4. CASE BlockStart \/ SetupCountLow \/ SetupStreamTwo \/ SetupCountLowAgain
           \/ SetupStreamThree \/ SetupEcho
  BY <1>4, ReceiverOpens
<1>5. CASE AwaitList \/ HeaderDestLow \/ HeaderDestHigh \/ HeaderCounter \/ HeaderKind
           \/ HeaderEchoed
  BY <1>5, ReceiverHeader
<1> QED BY <1>1, <1>2, <1>3, <1>4, <1>5 DEF SpcNext

\* All of the invariant.
UploadInv == IInv /\ Handshake /\ SenderInv /\ ReceiverInv

\* and so does every step,
LEMMA UploadStep == UploadInv /\ [Next]_vars => SenderInv' /\ ReceiverInv'
<1> SUFFICES ASSUME UploadInv, [Next]_vars PROVE SenderInv' /\ ReceiverInv'
  OBVIOUS
<1> USE DEF UploadInv
<1>1. CASE CpuNext
  BY <1>1, SenderCpu, ReceiverCpu
<1>2. CASE SpcNext
  <2>1. UNCHANGED cpuVars
    BY <1>2 DEF SpcNext, AwaitList, BlockStart, ByteLoop, ByteData, ByteEchoed,
         ByteStore, SetupCountLow, SetupStreamTwo, SetupCountLowAgain,
         SetupStreamThree, SetupEcho, TripleLoop, StoreOne, ReadTwo, ReadThree,
         TripleEcho, StoreRest, HeaderDestLow, HeaderDestHigh, HeaderCounter,
         HeaderKind, HeaderEchoed
  <2> QED BY <1>2, <2>1, SenderKept, ReceiverSpc
<1>3. CASE Uploaded \/ UNCHANGED vars
  <2>1. UNCHANGED vars
    BY <1>3 DEF Uploaded
  <2>2. UNCHANGED cpuVars
        /\ UNCHANGED <<list, cpu, blk, idx, n, ctr, spc, sy, kind, dest, two, three, ra, rx, aram>>
    BY <2>1 DEF vars, cpuVars, spcVars, sent, regs
  <2>3. At' = At /\ Current' = Current /\ Owed' = Owed /\ Count' = Count
        /\ Destination' = Destination
    BY <2>2 DEF At, Current, Receiving, Owed, Count, Destination
  <2>4. ReceiverInv'
    BY <2>2, <2>3 DEF ReceiverInv, Position, PointerInv, HeldInv, ArrivedInv, InPlace
  <2> QED BY <2>2, <2>4, SenderKept
<1> QED BY <1>1, <1>2, <1>3 DEF Next

\* which makes the invariant one.
LEMMA UploadInvariance == Spec => []UploadInv
<1>1. Init => SenderInv /\ ReceiverInv
  BY SenderInit, ReceiverInit
<1>2. IInv /\ Handshake /\ IInv' /\ Handshake' /\ SenderInv /\ ReceiverInv /\ [Next]_vars =>
        SenderInv' /\ ReceiverInv'
  BY UploadStep DEF UploadInv
<1> QED BY HandshakeInvariance, <1>1, <1>2, PTL DEF Spec, UploadInv

(* The driver is only started on a list that arrived whole: every byte of  *)
(* every block in its place in sound RAM when spc_dispatch sees the end of *)
(* the list, for every list, index width and counter jump.                 *)
THEOREM DriverStartsWhole == Spec => []ReadyMeansWhole
<1>1. UploadInv => ReadyMeansWhole
  <2> SUFFICES ASSUME UploadInv, spc = "ready",
                      NEW k \in 1 .. Len(list), NEW i \in 0 .. list[k].len - 1
               PROVE  InPlace(k, i)
    BY DEF ReadyMeansWhole
  <2>1. Current = blk /\ blk = Len(list) + 1
    BY DEF Current, Receiving, ByteReads, TripleReads, UploadInv, ReceiverInv
  <2>2. list \in Seq(Blocks)
    BY ListsAssumption DEF UploadInv, IInv, CpuInv
  <2>3. k < Current
    BY <2>1, <2>2
  <2> QED BY <2>3 DEF UploadInv, ReceiverInv, ArrivedInv
<1> QED BY UploadInvariance, <1>1, PTL

-----------------------------------------------------------------------------
(* The widths.  They need all of the above: that a last handshake reads    *)
(* inside the bank follows from what is sent and what is left.             *)

CpuWidths ==
  /\ port \in [0 .. 3 -> 0 .. Word - 1]
  /\ y \in 0 .. Word - 1 /\ x \in 0 .. Word - 1
  /\ idx \in 0 .. Word - 1 /\ n \in 0 .. Word - 1

SpcWidths ==
  /\ kind \in 0 .. M - 1 /\ ra \in 0 .. Word - 1 /\ rx \in 0 .. Word - 1
  /\ aram \in [0 .. Word - 1 -> 0 .. Word - 1 \union {UNWRITTEN}]

\* A byte is a value of a word.
LEMMA ByteIsWord == 0 .. M - 1 \subseteq 0 .. Word - 1 /\ 3 \in 0 .. M - 1
<1>1. M \in Nat /\ M >= 4
  BY MAssumption
<1>2. M <= M * M /\ M * M \in Nat
  BY <1>1
<1> QED BY <1>1, <1>2 DEF Word

\* A block ends inside its bank, two bytes early.
LEMMA BlockInBank ==
  ASSUME CpuInv, NEW k \in 1 .. Len(list)
  PROVE  list[k].src + list[k].len + 2 <= Word
BY ListsAssumption DEF CpuInv, WellLaidOut

\* The offsets a handshake reads from lie in the bank.
LEMMA ReadsInBank ==
  ASSUME NEW w \in Nat, NEW s \in Nat, NEW len \in Nat, s + len + 2 <= w,
         NEW c \in Nat, 3 * c <= len + 2, NEW i \in Nat, i < c
  PROVE  /\ s + i \in 0 .. w - 1
         /\ s + c + i \in 0 .. w - 1
         /\ s + 2 * c + i \in 0 .. w - 1
OBVIOUS

\* A port takes a value of a word.
LEMMA PostWord ==
  ASSUME CpuWidths, NEW p \in 0 .. 3, NEW v \in 0 .. Word - 1, Post(p, v)
  PROVE  port' \in [0 .. 3 -> 0 .. Word - 1]
BY DEF CpuWidths, Post

\* Both bytes of an address are bytes.
LEMMA BytesOfWord ==
  ASSUME NEW v \in Nat
  PROVE  LowByte(v) \in 0 .. Word - 1 /\ HighByte(v) \in 0 .. Word - 1
<1>1. v \div M \in Int
  BY Widths
<1>2. LowByte(v) \in 0 .. M - 1 /\ HighByte(v) \in 0 .. M - 1
  BY <1>1, ReducedToByte DEF LowByte, HighByte
<1> QED BY <1>2, ByteIsWord

\* What a header announces is a byte.
LEMMA AnnouncedByte ==
  ASSUME CpuInv
  PROVE  Announced \in 0 .. M - 1
<1>1. Announced \in {0, 1, 3}
  <2>1. blk <= Len(list) => list[blk].kind \in {1, 3}
    <3>1. list \in Seq(Blocks) /\ blk \in Nat \ {0}
      BY ListsAssumption DEF CpuInv
    <3>2. blk <= Len(list) => blk \in 1 .. Len(list)
      BY <3>1
    <3> QED BY <3>2, BlockFits DEF ONE_BYTE, THREE_BYTE
  <2> QED BY <2>1 DEF Announced, END_OF_LIST
<1> QED BY <1>1, ByteIsWord, MAssumption

\* Nothing is held yet.
LEMMA WidthsInit == Init => CpuWidths /\ SpcWidths
<1> SUFFICES ASSUME Init PROVE CpuWidths /\ SpcWidths
  OBVIOUS
<1>1. list \in Seq(Blocks) /\ WellLaidOut(list) /\ CpuInv /\ y \in Nat
  BY ListsAssumption, InitInv DEF Init, IInv, CpuInv
<1>2. y \in 0 .. Word - 1
  <2>1. CASE list = <<>>
    BY <2>1, Widths DEF Init
  <2>2. CASE list # <<>>
    <3>1. 1 \in 1 .. Len(list) /\ y = list[1].src - RecordHead
      BY <1>1, <2>2 DEF Init
    <3> DEFINE s == list[1].src
               l == list[1].len
    <3>2. s \in Nat /\ l \in Nat /\ s + l + 2 <= Word /\ y = s - RecordHead
      BY <1>1, <3>1, BlockInBank, BlockLaidOut
    <3> HIDE DEF s, l
    <3> QED BY <1>1, <3>2, Widths, RecordHeadAssumption
  <2> QED BY <2>1, <2>2
<1>3. 0 \in 0 .. Word - 1 /\ 0 \in 0 .. M - 1
  BY Widths
<1>4. port \in [0 .. 3 -> 0 .. Word - 1]
  BY <1>3 DEF Init
<1>5. aram \in [0 .. Word - 1 -> 0 .. Word - 1 \union {UNWRITTEN}]
  BY DEF Init
<1> QED BY <1>2, <1>3, <1>4, <1>5 DEF Init, CpuWidths, SpcWidths

\* What a step of the sender inside a block has to count with.
LEMMA Counting ==
  ASSUME IInv, Handshake, SentInv, cpu \in ByteSteps \union TripleSteps
  PROVE  /\ blk \in 1 .. Len(list)
         /\ list[blk].src \in Nat /\ list[blk].len \in Nat /\ list[blk].len > 0
         /\ list[blk].src + list[blk].len + 2 <= Word
         /\ y = list[blk].src
         /\ Handshakes(list[blk].len) \in Nat
         /\ Handshakes(list[blk].len) <= list[blk].len
         /\ 3 * Handshakes(list[blk].len) <= list[blk].len + 2
<1>1. blk \in 1 .. Len(list)
  BY ListsAssumption DEF IInv, CpuInv, SendingSteps, CpuSteps, HeaderSteps, ByteSteps,
     TripleSteps
<1>2. /\ list[blk].src \in Nat /\ list[blk].len \in Nat /\ list[blk].len > 0
      /\ list[blk].src + list[blk].len + 2 <= Word
  BY <1>1, BlockLaidOut, BlockInBank DEF IInv
<1>3. y = list[blk].src
  BY DEF SentInv
<1> QED BY <1>1, <1>2, <1>3, StreamsCover

\* The sender keeps to its widths.
LEMMA WidthsCpu ==
  ASSUME IInv, Handshake, SentInv, CpuWidths, CpuNext
  PROVE  CpuWidths'
<1> DEFINE s == list[blk].src
           l == list[blk].len
<1>0. /\ y \in 0 .. Word - 1 /\ x \in 0 .. Word - 1 /\ idx \in 0 .. Word - 1
      /\ n \in 0 .. Word - 1 /\ port \in [0 .. 3 -> 0 .. Word - 1]
      /\ CpuInv /\ Word \in Nat /\ 0 \in 0 .. Word - 1
  BY Widths DEF CpuWidths, IInv
<1>a. /\ 0 \in 0 .. 3 /\ 1 \in 0 .. 3 /\ 2 \in 0 .. 3 /\ 3 \in 0 .. 3
  OBVIOUS
<1>1. CASE PostKind \/ PostDestLow \/ PostDestHigh
  <2>1. UNCHANGED <<y, x, idx, n>>
    BY <1>1 DEF PostKind, PostDestLow, PostDestHigh, sent
  <2>2. /\ Announced \in 0 .. Word - 1
        /\ LowByte(Destination) \in 0 .. Word - 1 /\ HighByte(Destination) \in 0 .. Word - 1
    BY <1>0, AnnouncedByte, AnnouncedFits, ByteIsWord, BytesOfWord
  <2>3. port' \in [0 .. 3 -> 0 .. Word - 1]
    BY <1>1, <1>a, <2>2, PostWord DEF PostKind, PostDestLow, PostDestHigh
  <2> QED BY <1>0, <2>1, <2>3 DEF CpuWidths
<1>2. CASE PostHeader
  <2>1. UNCHANGED <<y, x, idx, n>>
    BY <1>2 DEF PostHeader
  <2>2. PICK j \in Jumps : Post(0, (ctr + j) % M)
    BY <1>2 DEF PostHeader
  <2>3. j \in Int /\ ctr + j \in Int
    BY JumpsAssumption, MAssumption DEF IInv, CpuInv
  <2>4. (ctr + j) % M \in 0 .. Word - 1
    BY <2>3, ReducedToByte, ByteIsWord
  <2>5. port' \in [0 .. 3 -> 0 .. Word - 1]
    BY <1>a, <2>2, <2>4, PostWord
  <2> QED BY <1>0, <2>1, <2>5 DEF CpuWidths
<1>3. CASE HeaderEcho
  <2>1. idx' = 0 /\ n' = n /\ port' = port
    BY <1>3 DEF HeaderEcho
  <2>2. CASE Announced = END_OF_LIST
    BY <1>0, <1>3, <2>1, <2>2 DEF HeaderEcho, CpuWidths
  <2>3. CASE Announced # END_OF_LIST
    <3>1. blk \in 1 .. Len(list) /\ x' = l /\ y' = y + RecordHead
      BY <1>0, <1>3, <2>3, AnnouncedFits DEF HeaderEcho
    <3>2. s \in Nat /\ l \in Nat /\ s + l + 2 <= Word
      BY <1>0, <3>1, BlockLaidOut, BlockInBank
    <3>3. y = s - RecordHead
      BY <1>3, <3>1 DEF HeaderEcho, SentInv, HeaderSteps
    <3> HIDE DEF s, l
    <3>4. x' \in 0 .. Word - 1 /\ y' \in 0 .. Word - 1
      BY <1>0, <3>1, <3>2, <3>3, RecordHeadAssumption
    <3> QED BY <1>0, <2>1, <3>4 DEF CpuWidths
  <2> QED BY <2>2, <2>3
<1>b. ASSUME cpu \in ByteSteps \union TripleSteps
      PROVE  /\ s \in Nat /\ l \in Nat /\ l > 0 /\ s + l + 2 <= Word /\ y = s
             /\ Handshakes(l) \in Nat /\ Handshakes(l) <= l /\ 3 * Handshakes(l) <= l + 2
  BY <1>b, Counting
<1>c. cpu \in {"byte", "byte_counter"} => x > 0 /\ x + idx = l
  BY DEF IInv, CpuInv, CountedSteps, SentInv, ByteSteps
<1>d. cpu \in {"first", "second", "third", "counter"} =>
        x > 0 /\ x + idx = n /\ n = Handshakes(l)
  BY DEF IInv, CpuInv, CountedSteps, SentInv, TripleSteps
<1> USE DEF ByteSteps, TripleSteps
<1>4. CASE PostByte
  <2>1. cpu = "byte" /\ Post(1, y + idx) /\ UNCHANGED <<y, x, idx, n>>
    BY <1>4 DEF PostByte, Goto, sent
  <2>2. y + idx \in 0 .. Word - 1
    <3> HIDE DEF s, l
    <3> QED BY <1>0, <1>b, <1>c, <2>1
  <2>3. port' \in [0 .. 3 -> 0 .. Word - 1]
    BY <1>a, <2>1, <2>2, PostWord
  <2> QED BY <1>0, <2>1, <2>3 DEF CpuWidths
<1>5. CASE PostByteCounter
  <2>1. /\ cpu = "byte_counter" /\ Post(0, LowByte(idx)) /\ idx' = idx + 1 /\ x' = x - 1
        /\ n' = n /\ y' \in {y, y + l}
    BY <1>5 DEF PostByteCounter
  <2>2. idx' \in 0 .. Word - 1 /\ x' \in 0 .. Word - 1 /\ y' \in 0 .. Word - 1
    <3> HIDE DEF s, l
    <3> QED BY <1>0, <1>b, <1>c, <2>1
  <2>3. port' \in [0 .. 3 -> 0 .. Word - 1]
    BY <1>0, <1>a, <2>1, BytesOfWord, PostWord
  <2> QED BY <1>0, <2>1, <2>2, <2>3 DEF CpuWidths
<1>6. CASE PostCountLow
  <2>1. /\ cpu = "count_low" /\ n' = Handshakes(x) /\ Post(2, LowByte(n'))
        /\ UNCHANGED <<y, x, idx>>
    BY <1>6 DEF PostCountLow, Goto
  <2>2. x = l
    BY <2>1 DEF SentInv
  <2>3. n' \in 0 .. Word - 1 /\ n' \in Nat
    <3>1. n' = Handshakes(l)
      BY <2>1, <2>2
    <3> DEFINE h == Handshakes(l)
    <3>2. h \in Nat /\ h <= l /\ l \in Nat /\ s \in Nat /\ s + l + 2 <= Word /\ n' = h
      BY <1>b, <2>1, <3>1
    <3> HIDE DEF s, l, h
    <3> QED BY <1>0, <3>2
  <2>4. port' \in [0 .. 3 -> 0 .. Word - 1]
    BY <1>a, <2>1, <2>3, BytesOfWord, PostWord
  <2> QED BY <1>0, <2>1, <2>3, <2>4 DEF CpuWidths
<1>7. CASE PostCountHigh \/ PostOpening
  <2>1. UNCHANGED <<y, x, idx, n>>
    BY <1>7 DEF PostCountHigh, PostOpening, sent
  <2>2. n \in Nat
    BY <1>0
  <2>3. port' \in [0 .. 3 -> 0 .. Word - 1]
    BY <1>0, <1>7, <1>a, <2>2, BytesOfWord, PostWord DEF PostCountHigh, PostOpening
  <2> QED BY <1>0, <2>1, <2>3 DEF CpuWidths
<1>8. CASE OpeningEcho
  BY <1>0, <1>8 DEF OpeningEcho, CpuWidths
<1>9. CASE PostFirst \/ PostSecond \/ PostThird
  <2>1. /\ cpu \in {"first", "second", "third"} /\ UNCHANGED <<y, x, idx, n>>
        /\ \/ Post(1, y + idx) \/ Post(2, y + n + idx) \/ Post(3, y + 2 * n + idx)
    BY <1>9 DEF PostFirst, PostSecond, PostThird, Goto, sent
  <2>2. /\ y + idx \in 0 .. Word - 1 /\ y + n + idx \in 0 .. Word - 1
        /\ y + 2 * n + idx \in 0 .. Word - 1
    <3>1. /\ s \in Nat /\ l \in Nat /\ s + l + 2 <= Word /\ y = s
          /\ n \in Nat /\ 3 * n <= l + 2 /\ idx \in Nat /\ x + idx = n /\ x > 0 /\ x \in Nat
      BY <1>0, <1>b, <1>d, <2>1
    <3> HIDE DEF s, l
    <3>2. idx < n
      BY <3>1
    <3> QED BY <1>0, <3>1, <3>2, ReadsInBank
  <2>3. port' \in [0 .. 3 -> 0 .. Word - 1]
    BY <1>a, <2>1, <2>2, PostWord
  <2> QED BY <1>0, <2>1, <2>3 DEF CpuWidths
<1>10. CASE PostCounter
  <2>1. /\ cpu = "counter" /\ Post(0, LowByte(idx + 1)) /\ idx' = idx + 1 /\ x' = x - 1
        /\ n' = n /\ y' \in {y, y + l}
    BY <1>10 DEF PostCounter
  <2>2. idx' \in 0 .. Word - 1 /\ x' \in 0 .. Word - 1 /\ y' \in 0 .. Word - 1
    <3>1. /\ s \in Nat /\ l \in Nat /\ s + l + 2 <= Word /\ y = s
          /\ x + idx = n /\ x > 0
      BY <1>b, <1>d, <2>1
    <3> HIDE DEF s, l
    <3> QED BY <1>0, <2>1, <3>1
  <2>3. idx + 1 \in Nat
    BY <1>0
  <2>4. port' \in [0 .. 3 -> 0 .. Word - 1]
    BY <1>a, <2>1, <2>3, BytesOfWord, PostWord
  <2> QED BY <1>0, <2>1, <2>2, <2>4 DEF CpuWidths
<1>11. CASE ByteEcho \/ HandshakeEcho \/ BlockEnd
  BY <1>0, <1>11 DEF ByteEcho, HandshakeEcho, BlockEnd, sent, CpuWidths
<1> QED BY <1>1, <1>2, <1>3, <1>4, <1>5, <1>6, <1>7, <1>8, <1>9, <1>10, <1>11 DEF CpuNext

\* A store leaves sound RAM holding words.
LEMMA StoreWord ==
  ASSUME SpcWidths, NEW b \in 0 .. Word - 1, NEW v \in 0 .. Word - 1, sy \in 0 .. M - 1
  PROVE  Store(b, v) \in [0 .. Word - 1 -> 0 .. Word - 1 \union {UNWRITTEN}]
BY DEF SpcWidths, Store

\* The receiver keeps to its widths: the kind it takes is the header's.
LEMMA WidthsSpc ==
  ASSUME IInv, Handshake, Handshake', CpuWidths, SpcWidths, SpcNext
  PROVE  SpcWidths'
<1>0. /\ kind \in 0 .. M - 1 /\ ra \in 0 .. Word - 1 /\ rx \in 0 .. Word - 1
      /\ aram \in [0 .. Word - 1 -> 0 .. Word - 1 \union {UNWRITTEN}]
      /\ dest \in 0 .. Word - 1 /\ two \in 0 .. Word - 1 /\ three \in 0 .. Word - 1
      /\ sy \in 0 .. M - 1 /\ CpuInv
  BY DEF SpcWidths, IInv, SpcInv
<1>1. port[1] \in 0 .. Word - 1 /\ port[2] \in 0 .. Word - 1 /\ port[3] \in 0 .. Word - 1
  BY DEF CpuWidths
<1>2. CASE AwaitList \/ BlockStart \/ ByteLoop \/ ByteEchoed \/ SetupStreamTwo
           \/ SetupStreamThree \/ SetupEcho \/ TripleLoop \/ TripleEcho
           \/ HeaderDestHigh \/ HeaderCounter \/ HeaderEchoed
  <2>1. UNCHANGED <<kind, ra, rx, aram>>
    BY <1>2 DEF AwaitList, BlockStart, ByteLoop, ByteEchoed, SetupStreamTwo,
       SetupStreamThree, SetupEcho, TripleLoop, TripleEcho, HeaderDestHigh,
       HeaderCounter, HeaderEchoed, regs
  <2> QED BY <1>0, <2>1 DEF SpcWidths
<1>3. CASE ByteData \/ SetupCountLow \/ SetupCountLowAgain \/ ReadThree \/ HeaderDestLow
  <2>1. UNCHANGED <<kind, rx, aram>> /\ ra' \in {port[1], port[2], port[3]}
    BY <1>3 DEF ByteData, SetupCountLow, SetupCountLowAgain, ReadThree, HeaderDestLow
  <2> QED BY <1>0, <1>1, <2>1 DEF SpcWidths
<1>4. CASE ReadTwo
  BY <1>0, <1>1, <1>4 DEF ReadTwo, SpcWidths
<1>5. CASE ByteStore \/ StoreOne
  <2>1. UNCHANGED <<kind, ra, rx>> /\ (aram' = Store(dest, ra) \/ aram' = Store(dest, port[1]))
    BY <1>5 DEF ByteStore, StoreOne, regs
  <2>2. aram' \in [0 .. Word - 1 -> 0 .. Word - 1 \union {UNWRITTEN}]
    BY <1>0, <1>1, <2>1, StoreWord
  <2> QED BY <1>0, <2>1, <2>2 DEF SpcWidths
<1>6. CASE StoreRest
  <2>1. /\ UNCHANGED <<kind, ra, rx>>
        /\ aram' = [Store(three, ra) EXCEPT ![(two + sy) % Word] = rx]
    BY <1>6 DEF StoreRest
  <2>2. Store(three, ra) \in [0 .. Word - 1 -> 0 .. Word - 1 \union {UNWRITTEN}]
    BY <1>0, StoreWord
  <2>3. aram' \in [0 .. Word - 1 -> 0 .. Word - 1 \union {UNWRITTEN}]
    BY <1>0, <2>1, <2>2
  <2> QED BY <1>0, <2>1, <2>3 DEF SpcWidths
<1>7. CASE HeaderKind
  <2>1. /\ spc' = "header_echo" /\ UNCHANGED <<ra, rx, aram, list, blk>>
    BY <1>7 DEF HeaderKind, Step, cpuVars, sent
  <2>2. kind' = Announced
    BY <2>1 DEF Handshake, KindPair, Announced
  <2>3. kind' \in 0 .. M - 1
    BY <1>0, <2>2, AnnouncedByte
  <2> QED BY <1>0, <2>1, <2>3 DEF SpcWidths
<1> QED BY <1>2, <1>3, <1>4, <1>5, <1>6, <1>7 DEF SpcNext

(* For every list, index width and counter jump, every register of either  *)
(* processor keeps to its width: the offsets the last handshake of a block *)
(* reads from stay inside the bank although its three streams may run two  *)
(* bytes over the block, and no byte is posted with a count of zero.       *)
THEOREM UploadTypes == Spec => []TypeOK
<1>1. Init => CpuWidths /\ SpcWidths
  BY WidthsInit
<1>2. UploadInv /\ UploadInv' /\ CpuWidths /\ SpcWidths /\ [Next]_vars =>
        CpuWidths' /\ SpcWidths'
  <2> SUFFICES ASSUME UploadInv, UploadInv', CpuWidths, SpcWidths, [Next]_vars
               PROVE  CpuWidths' /\ SpcWidths'
    OBVIOUS
  <2>0. IInv /\ Handshake /\ SentInv /\ Handshake'
    BY DEF UploadInv, SenderInv
  <2>1. CASE CpuNext
    <3>1. UNCHANGED <<kind, ra, rx, aram>>
      BY <2>1 DEF CpuNext, PostKind, PostDestLow, PostDestHigh, PostHeader,
         HeaderEcho, PostByte, PostByteCounter, ByteEcho, PostCountLow,
         PostCountHigh, PostOpening, OpeningEcho, PostFirst, PostSecond,
         PostThird, PostCounter, HandshakeEcho, BlockEnd, spcVars, regs
    <3> QED BY <2>0, <2>1, <3>1, WidthsCpu DEF SpcWidths
  <2>2. CASE SpcNext
    <3>1. UNCHANGED <<port, y, x, idx, n>>
      BY <2>2 DEF SpcNext, AwaitList, BlockStart, ByteLoop, ByteData, ByteEchoed,
         ByteStore, SetupCountLow, SetupStreamTwo, SetupCountLowAgain,
         SetupStreamThree, SetupEcho, TripleLoop, StoreOne, ReadTwo, ReadThree,
         TripleEcho, StoreRest, HeaderDestLow, HeaderDestHigh, HeaderCounter,
         HeaderKind, HeaderEchoed, cpuVars, sent
    <3> QED BY <2>0, <2>2, <3>1, WidthsSpc DEF CpuWidths
  <2>3. CASE Uploaded \/ UNCHANGED vars
    BY <2>3 DEF Uploaded, vars, cpuVars, spcVars, sent, regs, CpuWidths, SpcWidths
  <2> QED BY <2>1, <2>2, <2>3 DEF Next
<1>3. UploadInv /\ CpuWidths /\ SpcWidths => TypeOK
  <2> SUFFICES ASSUME UploadInv, CpuWidths, SpcWidths PROVE TypeOK
    OBVIOUS
  <2>1. /\ list \in Lists /\ list \in Seq(Blocks) /\ blk \in Nat \ {0} /\ blk <= Len(list) + 1
    BY ListsAssumption DEF UploadInv, IInv, CpuInv, SenderInv, SentInv
  <2>2. blk \in 1 .. Len(list) + 1
    BY <2>1
  <2>3. cpu \in {"byte", "byte_counter", "first", "second", "third", "counter"} => x > 0
    BY DEF UploadInv, IInv, CpuInv, CountedSteps
  <2> QED BY <2>1, <2>2, <2>3
          DEF TypeOK, UploadInv, IInv, CpuInv, SpcInv, CpuWidths, SpcWidths
<1> QED BY UploadInvariance, <1>1, <1>2, <1>3, PTL DEF Spec

\* The blocks behind both processors are the ones before the receiver's.
DoneInv == Cardinality(Finished) = Current - 1 /\ Current \in Nat /\ Current > 0

\* (It follows from the invariant.)
LEMMA DoneBlocks == UploadInv => DoneInv
<1> SUFFICES ASSUME UploadInv
             PROVE  Cardinality(Finished) = Current - 1 /\ Current \in Nat /\ Current > 0
  BY DEF DoneInv
<1>1. blk \in Nat /\ blk > 0 /\ list \in Seq(Blocks) /\ blk <= Len(list) + 1
  BY ListsAssumption DEF UploadInv, IInv, CpuInv, SenderInv, SentInv
<1>2. Receiving => Current \in 1 .. Len(list)
  BY DEF UploadInv, Handshake, KindPair, BlockReads, Receiving
<1>3. CASE cpu \in HeaderSteps /\ Receiving
  <2>1. Current = blk - 1 /\ Current \in 1 .. Len(list)
    BY <1>2, <1>3 DEF Current
  <2>2. Finished = 1 .. Current - 1
    BY <1>1, <1>3, <2>1 DEF Finished
  <2> QED BY <1>1, <2>1, <2>2, FS_Interval
<1>4. CASE ~(cpu \in HeaderSteps /\ Receiving)
  <2>1. Current = blk
    BY <1>4 DEF Current
  <2>2. Finished = 1 .. Current - 1
    BY <1>1, <1>4, <2>1 DEF Finished
  <2> QED BY <1>1, <2>1, <2>2, FS_Interval
<1> QED BY <1>3, <1>4

\* All that changes from image f to image g is what the transfer allows of block k.
Allowed(f, g, k) ==
  \A a \in 0 .. Word - 1 :
    g[a] # f[a] => a \in Transfer!Window(k) /\ g[a] = Transfer!Right(k, a)

\* Bytes that land in their block are bytes the transfer allows to land,
LEMMA LandsAllowed ==
  ASSUME UploadInv, NEW k \in 1 .. Len(list), NEW j \in Nat, j < list[k].len + 2,
         NEW f, NEW g, Lands(f, g, k, j)
  PROVE  Allowed(f, g, k)
<1> SUFFICES ASSUME NEW a \in 0 .. Word - 1, g[a] # f[a]
             PROVE  a \in Transfer!Window(k) /\ g[a] = Transfer!Right(k, a)
  BY DEF Allowed
<1> DEFINE d == list[k].dest
           e == list[k].len
           s == list[k].src
<1>1. d \in Nat /\ e \in Nat /\ s \in Nat
  BY BlockFits DEF UploadInv, IInv
<1>2. a = d + j /\ g[a] = s + j
  BY DEF Lands
<1>3. a \in d .. d + e - 1 + 2 /\ s + (a - d) = s + j
  <2>1. j < e + 2
    OBVIOUS
  <2>2. a = d + j
    BY <1>2
  <2> HIDE DEF d, e, s
  <2> QED BY <1>1, <2>1, <2>2
<1> QED BY <1>2, <1>3 DEF Transfer!Window, Transfer!Right, Transfer!Overrun

\* one after the other.
LEMMA AllowedTwice ==
  ASSUME NEW f, NEW g, NEW h, NEW k, Allowed(f, g, k), Allowed(g, h, k)
  PROVE  Allowed(f, h, k)
BY DEF Allowed

\* A store is a landing in the receiver's block.
LEMMA StoreIsLand ==
  ASSUME UploadInv, UploadInv', DoneInv, DoneInv', ByteStore \/ StoreOne \/ StoreRest
  PROVE  Transfer!Land
<1> USE DEF ByteReads, TripleReads
<1>1. /\ spc \in {"byte_store", "store_one", "store_rest"}
      /\ ByteStore => spc = "byte_store"
      /\ spc' \in {"byte_loop", "read_two", "triple_loop"}
      /\ UNCHANGED <<cpu, blk, list>>
  BY DEF ByteStore, StoreOne, StoreRest, Step, cpuVars, sent
<1>2. Receiving /\ Receiving' /\ spc \notin Waiting
  BY <1>1 DEF Receiving, Waiting
<1>3. Current' = Current
  BY <1>1, <1>2 DEF Current
<1>4. /\ Cardinality(Finished) = Current - 1
      /\ Cardinality(Finished)' = Current - 1
  BY <1>3 DEF DoneInv
<1> DEFINE e == list[Current].len
           a == At
<1>5. /\ Current \in 1 .. Len(list) /\ a \in Nat /\ n \in Nat /\ e \in Nat /\ e > 0
      /\ spc = "byte_store" => a < e
      /\ spc # "byte_store" => a < n /\ n <= e /\ 3 * n <= e + 2
  <2>1. /\ Current \in 1 .. Len(list) /\ a \in Nat /\ a < Count
        /\ spc \in ByteReads => Count = e
        /\ spc \in TripleReads => Count = n /\ n = Handshakes(e)
    BY <1>2, Ongoing DEF UploadInv
  <2>2. e \in Nat /\ e > 0 /\ n \in Nat
    BY <2>1, BlockFits DEF UploadInv, IInv, CpuInv
  <2> QED BY <1>1, <2>1, <2>2, StreamsCover
<1>6. /\ a < e + 2
      /\ spc # "byte_store" => n + a < e + 2 /\ 2 * n + a < e + 2
      /\ n + a \in Nat /\ 2 * n + a \in Nat
  <2> HIDE DEF e, a
  <2> QED BY <1>5
<1>7. aram' \in [0 .. Word - 1 -> Int]
  BY DEF UploadInv, IInv, SpcInv
<1>8. Allowed(aram, aram', Current)
  <2>1. CASE ByteStore \/ StoreOne
    <3>1. Lands(aram, aram', Current, a)
      BY <2>1, WhatLands DEF UploadInv
    <3> QED BY <1>5, <1>6, <3>1, LandsAllowed
  <2>2. CASE StoreRest
    <3>1. PICK m \in [0 .. Word - 1 -> Int] :
            Lands(aram, m, Current, 2 * n + a) /\ Lands(m, aram', Current, n + a)
      BY <2>2, WhatLands DEF UploadInv
    <3>2. spc # "byte_store"
      BY <2>2 DEF StoreRest, Step
    <3> DEFINE p == n + a
               q == 2 * n + a
    <3>3. /\ p \in Nat /\ q \in Nat /\ p < list[Current].len + 2 /\ q < list[Current].len + 2
          /\ Lands(aram, m, Current, q) /\ Lands(m, aram', Current, p)
      BY <1>6, <3>1, <3>2
    <3> HIDE DEF p, q
    <3>4. Allowed(aram, m, Current) /\ Allowed(m, aram', Current)
      BY <1>5, <3>3, LandsAllowed
    <3> QED BY <3>4, AllowedTwice
  <2> QED BY <2>1, <2>2
<1>9. Cardinality(Finished) < Len(list) /\ Cardinality(Finished) + 1 = Current
  <2>1. list \in Seq(Blocks)
    BY ListsAssumption DEF UploadInv, IInv, CpuInv
  <2> QED BY <1>4, <1>5, <2>1
<1> QED BY <1>1, <1>4, <1>7, <1>8, <1>9 DEF Transfer!Land, Allowed

\* Seeing the next header is the block's completion.
LEMMA LeaveIsComplete ==
  ASSUME UploadInv, UploadInv', DoneInv, DoneInv', ByteLoop \/ TripleLoop, spc' = "dest_low"
  PROVE  Transfer!Complete
<1>1. UNCHANGED <<cpu, list, blk, aram>>
  BY DEF ByteLoop, TripleLoop, cpuVars, sent
<1>2. /\ Current = blk - 1 /\ Current \in 1 .. Len(list)
      /\ \A i \in 0 .. list[Current].len - 1 : InPlace(Current, i)
  BY LeftWhole DEF UploadInv
<1>3. Current' = blk
  BY <1>1 DEF Current, Receiving, ByteReads, TripleReads
<1>4. /\ Cardinality(Finished) = Current - 1
      /\ Cardinality(Finished)' = blk - 1
  BY <1>3 DEF DoneInv
<1>5. list \in Seq(Blocks) /\ blk \in Nat
  BY ListsAssumption DEF UploadInv, IInv, CpuInv
<1>6. /\ Cardinality(Finished) < Len(list) /\ Cardinality(Finished) + 1 = Current
      /\ Cardinality(Finished)' = Cardinality(Finished) + 1
  BY <1>2, <1>4, <1>5
<1>7. Transfer!Whole(Current)
  <2> DEFINE d == list[Current].dest
             e == list[Current].len
             s == list[Current].src
  <2>1. d \in Nat /\ e \in Nat /\ s \in Nat
    BY <1>2, BlockFits DEF UploadInv, IInv
  <2>2. ASSUME NEW a \in d .. d + e - 1
        PROVE  aram[a] = s + (a - d)
    <3>1. a - d \in 0 .. e - 1 /\ d + (a - d) = a
      <4> HIDE DEF d, e
      <4> QED BY <2>1, <2>2
    <3>2. aram[d + (a - d)] = s + (a - d)
      BY <1>2, <3>1 DEF InPlace
    <3> QED BY <3>1, <3>2
  <2> QED BY <2>2 DEF Transfer!Whole, Transfer!Right
<1> QED BY <1>1, <1>6, <1>7 DEF Transfer!Complete

\* Every other step of the upload is none of the transfer.
LEMMA OtherIsStutter ==
  ASSUME UploadInv, UploadInv', DoneInv, DoneInv', [Next]_vars,
         ~(ByteStore \/ StoreOne \/ StoreRest),
         ~((ByteLoop \/ TripleLoop) /\ spc' = "dest_low")
  PROVE  UNCHANGED Transfer!transferVars
<1>1. CASE CpuNext
  <2>1. Current' = Current /\ UNCHANGED <<list, aram>>
    BY <1>1, CurrentKept DEF UploadInv
  <2>2. Cardinality(Finished)' = Cardinality(Finished)
    BY <2>1 DEF DoneInv
  <2> QED BY <2>1, <2>2 DEF Transfer!transferVars
<1>2. CASE SpcNext
  <2>1. UNCHANGED <<cpu, blk, list, aram>>
    BY <1>2 DEF SpcNext, AwaitList, BlockStart, ByteLoop, ByteData, ByteEchoed,
         SetupCountLow, SetupStreamTwo, SetupCountLowAgain,
         SetupStreamThree, SetupEcho, TripleLoop, ReadTwo, ReadThree,
         TripleEcho, HeaderDestLow, HeaderDestHigh, HeaderCounter,
         HeaderKind, HeaderEchoed, cpuVars, sent
  <2>2. Receiving' = Receiving \/ cpu \notin HeaderSteps
    <3>1. CASE BlockStart
      <4>1. spc = "block_start" /\ ctr = 0
        BY <3>1 DEF BlockStart, Step, UploadInv, Handshake
      <4> QED BY <4>1 DEF UploadInv, Handshake, HeaderPair, Posting, HeaderSteps, Answered,
              Waiting, Storing
    <3>2. CASE SetupEcho
      <4>1. cpu = "opening_echo"
        BY <3>2, SenderWaits DEF SetupEcho, Step, SetupReads, UploadInv
      <4> QED BY <4>1 DEF HeaderSteps
    <3>3. CASE ~BlockStart /\ ~SetupEcho
      BY <1>2, <3>3 DEF SpcNext, AwaitList, ByteLoop, ByteData, ByteEchoed,
         SetupCountLow, SetupStreamTwo, SetupCountLowAgain,
         SetupStreamThree, TripleLoop, ReadTwo, ReadThree,
         TripleEcho, HeaderDestLow, HeaderDestHigh, HeaderCounter,
         HeaderKind, HeaderEchoed, Receiving, ByteReads, TripleReads, Step
    <3> QED BY <3>1, <3>2, <3>3
  <2>3. Finished' = Finished
    BY <2>1, <2>2 DEF Finished
  <2> QED BY <2>1, <2>3 DEF Transfer!transferVars
<1>3. CASE Uploaded \/ UNCHANGED vars
  <2>1. UNCHANGED <<cpu, blk, list, aram, spc>>
    BY <1>3 DEF Uploaded, vars, cpuVars, spcVars, sent
  <2>2. Finished' = Finished
    BY <2>1 DEF Finished, Receiving
  <2> QED BY <2>1, <2>2 DEF Transfer!transferVars
<1> QED BY <1>1, <1>2, <1>3 DEF Next

(* The upload implements SampleTransfer: the two processors, the ports and *)
(* the counters come to blocks that arrive whole and in order.             *)
THEOREM UploadTransfers == Spec => TransferSpec
<1>1. Init => Transfer!TransferInit
  <2> SUFFICES ASSUME Init PROVE Transfer!TransferInit
    OBVIOUS
  <2>1. Finished = {}
    BY DEF Init, Finished
  <2>2. Cardinality(Finished) = 0
    BY <2>1, FS_EmptySet
  <2> QED BY <2>2 DEF Init, Transfer!TransferInit
<1>2. UploadInv /\ UploadInv' /\ DoneInv /\ DoneInv' /\ [Next]_vars =>
        [Transfer!TransferNext]_(Transfer!transferVars)
  BY StoreIsLand, LeaveIsComplete, OtherIsStutter DEF Transfer!TransferNext
<1> QED BY UploadInvariance, DoneBlocks, <1>1, <1>2, PTL DEF Spec, TransferSpec, Transfer!Spec
=============================================================================
