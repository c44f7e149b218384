----------------------------- MODULE SpcUpload -----------------------------
(***************************************************************************)
(* The fast sample upload of asm/spc-fast-upload.asm: the 65816 sends the  *)
(* blocks of a sample list to the SPC700 through four latched APU ports,   *)
(* and the SPC700 answers through port 0 alone.  A block's kind byte,      *)
(* carried by its header, selects one byte per handshake (the stock wire   *)
(* protocol, kind 1) or three bytes per handshake (kind 3).                *)
(*                                                                         *)
(* The two processors run on clocks of their own.  A port is one latched   *)
(* byte and an access of it is atomic, so every port access is a step of   *)
(* its own; work that touches no port joins the access next to it, except  *)
(* the stores into sound RAM that follow an echo, which the 65816 overlaps.*)
(* A poll that finds nothing new is a stuttering step.                     *)
(*                                                                         *)
(* A data byte is named by the bank offset it was read from, so a byte     *)
(* that reaches the wrong place is always told apart from the right one.   *)
(***************************************************************************)
EXTENDS Integers, Sequences, FiniteSets

CONSTANTS
  M,           \* values of an 8-bit register; 256 on the machine
  Lists,       \* the sample lists an upload may carry
  Jumps,       \* how far the stock header moves the counter from the last one
  RecordHead   \* bytes of list header the stock walk steps over per block

Word == M * M  \* values of a 16-bit register, and the size of sound RAM

ONE_BYTE == 1
THREE_BYTE == 3
END_OF_LIST == 0

Blocks ==
  [kind : {ONE_BYTE, THREE_BYTE}, len : 1 .. Word - 3, dest : 1 .. Word - 1,
   src : 0 .. Word - 1]

(***************************************************************************)
(* A list is laid out as the engine lays it out: the allocator hands out   *)
(* consecutive destinations and the records follow one another in the bank.*)
(* No block runs off the end of sound RAM or of its bank, not even by the  *)
(* two bytes a last handshake may carry too many.                          *)
(***************************************************************************)
WellLaidOut(l) ==
  /\ \A k \in 1 .. Len(l) : /\ l[k].dest + l[k].len + 2 <= Word
                            /\ l[k].src + l[k].len + 2 <= Word
  /\ \A k \in 1 .. Len(l) - 1 :
       /\ l[k + 1].dest = l[k].dest + l[k].len
       /\ l[k + 1].src = l[k].src + l[k].len + RecordHead
  /\ Len(l) > 0 => l[1].src >= RecordHead

ASSUME MAssumption == M \in Nat /\ M >= 4 /\ M % 2 = 0
ASSUME ListsAssumption == \A l \in Lists : l \in Seq(Blocks) /\ WellLaidOut(l)
(* The header must look like a jump to the receiver: its counter differs   *)
(* from the one the receiver expects next by a negative 8-bit amount.      *)
ASSUME JumpsAssumption == /\ Jumps \subseteq 2 .. (M \div 2 + 1)
                          /\ \E i, j \in Jumps : i # j
ASSUME RecordHeadAssumption == RecordHead \in Nat

VARIABLES
  list,   \* the list being uploaded
  port,   \* ports 0..3 as the SPC700 reads them ($F4..$F7)
  echo,   \* port 0 as the 65816 reads it ($2140)
  cpu,    \* where the 65816 is
  blk,    \* the block of the list it is sending
  y,      \* its source offset: the record walked, then the block's first byte
  x,      \* bytes or handshakes left in the block
  idx,    \* index into the block, or into each of its three streams
  n,      \* handshakes a kind 3 block takes
  ctr,    \* the last counter posted
  spc,    \* where the SPC700 is
  sy,     \* its Y register: the index it expects, which is also the counter
  kind,   \* !KIND, the kind byte of the block
  dest,   \* !DEST_LOW and !DEST_PAGE, base of stream one
  two,    \* !STREAM_TWO
  three,  \* !STREAM_THREE
  ra, rx, \* its A and X registers
  aram    \* sound RAM

sent == <<list, blk, y, x, idx, n, ctr>>
cpuVars == <<cpu, port, sent>>
regs == <<sy, kind, dest, two, three, ra, rx>>
spcVars == <<spc, echo, regs, aram>>
vars == <<cpuVars, spcVars>>

UNWRITTEN == -1

-----------------------------------------------------------------------------
(* The 65816.  The header and the one byte loop are stock code, seen here  *)
(* only through what the patch relies on; cpu_send_triples is the patch.   *)

HeaderSteps == {"kind", "dest_low", "dest_high", "header", "header_echo"}
ByteSteps == {"byte", "byte_counter", "byte_echo"}
TripleSteps == {"count_low", "count_high", "opening", "opening_echo", "first",
                "second", "third", "counter", "handshake_echo"}
CpuSteps == HeaderSteps \union ByteSteps \union TripleSteps
              \union {"block_end", "finished"}

Goto(here, there) == cpu = here /\ cpu' = there
Post(p, v) == port' = [port EXCEPT ![p] = v]

LowByte(v) == v % M
HighByte(v) == (v \div M) % M

\* What the header announces: the block, or the end of the list.
Announced == IF blk <= Len(list) THEN list[blk].kind ELSE END_OF_LIST
Destination == IF blk <= Len(list) THEN list[blk].dest ELSE 0

PostKind ==
  /\ Goto("kind", "dest_low")
  /\ Post(1, Announced)
  /\ UNCHANGED <<sent, spcVars>>

PostDestLow ==
  /\ Goto("dest_low", "dest_high")
  /\ Post(2, LowByte(Destination))
  /\ UNCHANGED <<sent, spcVars>>

PostDestHigh ==
  /\ Goto("dest_high", "header")
  /\ Post(3, HighByte(Destination))
  /\ UNCHANGED <<sent, spcVars>>

\* The counter moves by a jump and skips zero, which opens a data phase.
PostHeader ==
  /\ Goto("header", "header_echo")
  /\ \E j \in Jumps :
       /\ (ctr + j) % M # 0
       /\ ctr' = (ctr + j) % M
       /\ Post(0, (ctr + j) % M)
  /\ UNCHANGED <<list, blk, y, x, idx, n, spcVars>>

HeaderEcho ==
  /\ cpu = "header_echo"
  /\ echo = ctr
  /\ idx' = 0
  /\ \/ /\ Announced = END_OF_LIST
        /\ cpu' = "finished"
        /\ UNCHANGED <<x, y>>
     \/ /\ Announced # END_OF_LIST
        /\ cpu' = IF Announced = THREE_BYTE THEN "count_low" ELSE "byte"
        /\ x' = list[blk].len
        /\ y' = y + RecordHead
  /\ UNCHANGED <<list, blk, n, ctr, port, spcVars>>

\* One byte per handshake, counters 0, 1, 2, ...
PostByte ==
  /\ Goto("byte", "byte_counter")
  /\ Post(1, y + idx)
  /\ UNCHANGED <<sent, spcVars>>

PostByteCounter ==
  /\ cpu = "byte_counter"
  /\ ctr' = LowByte(idx)
  /\ Post(0, LowByte(idx))
  /\ idx' = idx + 1
  /\ x' = x - 1
  /\ \/ x = 1 /\ cpu' = "block_end" /\ y' = y + list[blk].len
     \/ x > 1 /\ cpu' = "byte_echo" /\ UNCHANGED y
  /\ UNCHANGED <<list, blk, n, spcVars>>

ByteEcho ==
  /\ Goto("byte_echo", "byte")
  /\ echo = ctr
  /\ UNCHANGED <<port, sent, spcVars>>

\* The rounding up forgotten.
MutRoundDown(len) == IF len < 3 THEN 1 ELSE len \div 3

\* cpu_send_triples: N handshakes, the length rounded up.  CpuThird models
\* the division and its proofs show it exact.
Handshakes(len) == (len + 2) \div 3

PostCountLow ==
  /\ Goto("count_low", "count_high")
  /\ n' = Handshakes(x)
  /\ Post(2, LowByte(n'))
  /\ UNCHANGED <<list, blk, y, x, idx, ctr, spcVars>>

PostCountHigh ==
  /\ Goto("count_high", "opening")
  /\ Post(3, HighByte(n))
  /\ UNCHANGED <<sent, spcVars>>

PostOpening ==
  /\ Goto("opening", "opening_echo")
  /\ ctr' = 0
  /\ Post(0, 0)
  /\ UNCHANGED <<list, blk, y, x, idx, n, spcVars>>

OpeningEcho ==
  /\ Goto("opening_echo", "first")
  /\ echo = ctr
  /\ x' = n
  /\ idx' = 0
  /\ UNCHANGED <<list, blk, y, n, ctr, port, spcVars>>

PostFirst ==
  /\ Goto("first", "second")
  /\ Post(1, y + idx)
  /\ UNCHANGED <<sent, spcVars>>

PostSecond ==
  /\ Goto("second", "third")
  /\ Post(2, y + n + idx)
  /\ UNCHANGED <<sent, spcVars>>

PostThird ==
  /\ Goto("third", "counter")
  /\ Post(3, y + 2 * n + idx)
  /\ UNCHANGED <<sent, spcVars>>

\* The loop left when X has gone below zero (bmi for beq): a handshake more.
MutOneMore ==
  /\ cpu = "counter"
  /\ ctr' = LowByte(idx + 1)
  /\ Post(0, LowByte(idx + 1))
  /\ idx' = idx + 1
  /\ x' = x - 1
  /\ \/ x = 0 /\ cpu' = "block_end" /\ y' = y + list[blk].len
     \/ x # 0 /\ cpu' = "handshake_echo" /\ UNCHANGED y
  /\ UNCHANGED <<list, blk, n, spcVars>>

PostCounter ==
  /\ cpu = "counter"
  /\ ctr' = LowByte(idx + 1)
  /\ Post(0, LowByte(idx + 1))
  /\ idx' = idx + 1
  /\ x' = x - 1
  /\ \/ x = 1 /\ cpu' = "block_end" /\ y' = y + list[blk].len
     \/ x # 1 /\ cpu' = "handshake_echo" /\ UNCHANGED y
  /\ UNCHANGED <<list, blk, n, spcVars>>

HandshakeEcho ==
  /\ Goto("handshake_echo", "first")
  /\ echo = ctr
  /\ UNCHANGED <<port, sent, spcVars>>

\* !RESUME, the stock end-of-block path, waits for the last echo.  Both kinds
\* of block leave their last handshake to it.
BlockEnd ==
  /\ Goto("block_end", "kind")
  /\ echo = ctr
  /\ blk' = blk + 1
  /\ UNCHANGED <<list, y, x, idx, n, ctr, port, spcVars>>

CpuNext ==
  \/ PostKind \/ PostDestLow \/ PostDestHigh \/ PostHeader \/ HeaderEcho
  \/ PostByte \/ PostByteCounter \/ ByteEcho
  \/ PostCountLow \/ PostCountHigh \/ PostOpening \/ OpeningEcho
  \/ PostFirst \/ PostSecond \/ PostThird \/ PostCounter \/ HandshakeEcho
  \/ BlockEnd

-----------------------------------------------------------------------------
(* The SPC700.                                                             *)

HeaderReads == {"dest_low", "dest_high", "header_counter", "header_kind",
                "header_echo"}
ByteReads == {"byte_loop", "byte_data", "byte_echo", "byte_store"}
SetupReads == {"n_low", "n_high", "m_low", "m_high", "triple_open"}
TripleReads == {"triple_loop", "store_one", "read_two", "read_three",
                "triple_echo", "store_rest"}
SpcSteps == HeaderReads \union ByteReads \union SetupReads \union TripleReads
              \union {"idle", "block_start", "ready"}

Step(here, there) == spc = here /\ spc' = there
Store(base, v) == [aram EXCEPT ![(base + sy) % Word] = v]

\* bpl after cmp y,counter: the index is still ahead of what was posted.
Ahead == (sy - port[0]) % M < M \div 2

\* spc_dispatch
Dispatch == IF kind = THREE_BYTE THEN "n_low" ELSE "byte_loop"

\* The driver's stock code takes the first header of a list.
AwaitList ==
  /\ Step("idle", "dest_low")
  /\ port[0] # 0
  /\ UNCHANGED <<echo, regs, aram, cpuVars>>

BlockStart ==
  /\ spc = "block_start"
  /\ port[0] = 0
  /\ sy' = 0
  /\ spc' = Dispatch
  /\ UNCHANGED <<echo, kind, dest, two, three, ra, rx, aram, cpuVars>>

ByteLoop ==
  /\ spc = "byte_loop"
  /\ \/ port[0] = sy /\ spc' = "byte_data"
     \/ port[0] # sy /\ ~Ahead /\ spc' = "dest_low"
  /\ UNCHANGED <<echo, regs, aram, cpuVars>>

ByteData ==
  /\ Step("byte_data", "byte_echo")
  /\ ra' = port[1]
  /\ UNCHANGED <<echo, sy, kind, dest, two, three, rx, aram, cpuVars>>

ByteEchoed ==
  /\ Step("byte_echo", "byte_store")
  /\ echo' = sy
  /\ UNCHANGED <<regs, aram, cpuVars>>

\* The page carry forgotten.
MutNoPageCarry(base) == base

\* The page byte of a pointer moves on when the 8-bit index wraps.
NextPage(base) == IF sy = M - 1 THEN (base + M) % Word ELSE base

ByteStore ==
  /\ Step("byte_store", "byte_loop")
  /\ aram' = Store(dest, ra)
  /\ sy' = (sy + 1) % M
  /\ dest' = NextPage(dest)
  /\ UNCHANGED <<echo, kind, two, three, ra, rx, cpuVars>>

\* spc_triple_setup: the bases of the three streams, each one below its first
\* byte because the index starts at one.
SetupCountLow ==
  /\ Step("n_low", "n_high")
  /\ dest' = (dest - 1) % Word
  /\ ra' = port[2]
  /\ UNCHANGED <<echo, sy, kind, two, three, rx, aram, cpuVars>>

SetupStreamTwo ==
  /\ Step("n_high", "m_low")
  /\ two' = (dest + port[3] * M + ra) % Word
  /\ UNCHANGED <<echo, sy, kind, dest, three, ra, rx, aram, cpuVars>>

SetupCountLowAgain ==
  /\ Step("m_low", "m_high")
  /\ ra' = port[2]
  /\ UNCHANGED <<echo, sy, kind, dest, two, three, rx, aram, cpuVars>>

SetupStreamThree ==
  /\ Step("m_high", "triple_open")
  /\ three' = (two + port[3] * M + ra) % Word
  /\ UNCHANGED <<echo, sy, kind, dest, two, ra, rx, aram, cpuVars>>

SetupEcho ==
  /\ Step("triple_open", "triple_loop")
  /\ echo' = 0
  /\ sy' = 1
  /\ UNCHANGED <<kind, dest, two, three, ra, rx, aram, cpuVars>>

TripleLoop ==
  /\ spc = "triple_loop"
  /\ \/ port[0] = sy /\ spc' = "store_one"
     \/ port[0] # sy /\ ~Ahead /\ spc' = "dest_low"
  /\ UNCHANGED <<echo, regs, aram, cpuVars>>

\* The echo posted right after the first store, before ports 2 and 3 are read.
MutEchoEarly ==
  /\ Step("store_one", "read_two")
  /\ aram' = Store(dest, port[1])
  /\ echo' = sy
  /\ UNCHANGED <<regs, cpuVars>>

StoreOne ==
  /\ Step("store_one", "read_two")
  /\ aram' = Store(dest, port[1])
  /\ UNCHANGED <<echo, regs, cpuVars>>

ReadTwo ==
  /\ Step("read_two", "read_three")
  /\ rx' = port[2]
  /\ UNCHANGED <<echo, sy, kind, dest, two, three, ra, aram, cpuVars>>

ReadThree ==
  /\ Step("read_three", "triple_echo")
  /\ ra' = port[3]
  /\ UNCHANGED <<echo, sy, kind, dest, two, three, rx, aram, cpuVars>>

TripleEcho ==
  /\ Step("triple_echo", "store_rest")
  /\ echo' = sy
  /\ UNCHANGED <<regs, aram, cpuVars>>

StoreRest ==
  /\ Step("store_rest", "triple_loop")
  /\ aram' = [Store(three, ra) EXCEPT ![(two + sy) % Word] = rx]
  /\ sy' = (sy + 1) % M
  /\ dest' = NextPage(dest)
  /\ two' = NextPage(two)
  /\ three' = NextPage(three)
  /\ UNCHANGED <<echo, kind, ra, rx, cpuVars>>

\* spc_header
HeaderDestLow ==
  /\ Step("dest_low", "dest_high")
  /\ ra' = port[2]
  /\ UNCHANGED <<echo, sy, kind, dest, two, three, rx, aram, cpuVars>>

HeaderDestHigh ==
  /\ Step("dest_high", "header_counter")
  /\ dest' = (port[3] * M + ra) % Word
  /\ UNCHANGED <<echo, sy, kind, two, three, ra, rx, aram, cpuVars>>

HeaderCounter ==
  /\ Step("header_counter", "header_kind")
  /\ sy' = port[0]
  /\ UNCHANGED <<echo, kind, dest, two, three, ra, rx, aram, cpuVars>>

HeaderKind ==
  /\ Step("header_kind", "header_echo")
  /\ kind' = port[1]
  /\ UNCHANGED <<echo, sy, dest, two, three, ra, rx, aram, cpuVars>>

\* The end-of-list kind not looked at: the receiver reads headers for ever.
MutHeaderNeverReady ==
  /\ spc = "header_echo"
  /\ echo' = sy
  /\ spc' = IF kind = END_OF_LIST THEN "dest_low" ELSE "block_start"
  /\ UNCHANGED <<regs, aram, cpuVars>>

HeaderEchoed ==
  /\ spc = "header_echo"
  /\ echo' = sy
  /\ spc' = IF kind = END_OF_LIST THEN "ready" ELSE "block_start"
  /\ UNCHANGED <<regs, aram, cpuVars>>

SpcNext ==
  \/ AwaitList \/ BlockStart
  \/ ByteLoop \/ ByteData \/ ByteEchoed \/ ByteStore
  \/ SetupCountLow \/ SetupStreamTwo \/ SetupCountLowAgain \/ SetupStreamThree
  \/ SetupEcho
  \/ TripleLoop \/ StoreOne \/ ReadTwo \/ ReadThree \/ TripleEcho \/ StoreRest
  \/ HeaderDestLow \/ HeaderDestHigh \/ HeaderCounter \/ HeaderKind
  \/ HeaderEchoed

-----------------------------------------------------------------------------

Init ==
  /\ list \in Lists
  /\ port = [p \in 0 .. 3 |-> 0]
  /\ echo = 0
  /\ cpu = "kind"
  /\ blk = 1
  /\ y = IF list = <<>> THEN 0 ELSE list[1].src - RecordHead
  /\ x = 0 /\ idx = 0 /\ n = 0 /\ ctr = 0
  /\ spc = "idle"
  /\ sy = 0 /\ kind = 0 /\ dest = 0 /\ two = 0 /\ three = 0
  /\ ra = 0 /\ rx = 0
  /\ aram = [a \in 0 .. Word - 1 |-> UNWRITTEN]

\* The list is in place and the driver runs.
Uploaded == cpu = "finished" /\ spc = "ready" /\ UNCHANGED vars

Next == CpuNext \/ SpcNext \/ Uploaded

Spec == Init /\ [][Next]_vars

\* Each processor has a clock of its own and never stops.
FairSpec == Spec /\ WF_vars(CpuNext) /\ WF_vars(SpcNext)

-----------------------------------------------------------------------------
(* What makes an upload correct.                                           *)

(* Every register of either processor keeps to its width.  The offsets the *)
(* 65816 reads from stay inside the bank, those of a last handshake        *)
(* included, the 16-bit counts neither grow past a word nor start a        *)
(* handshake at zero, where dex would go round, and the SPC700's index,    *)
(* counter and kind stay bytes.  (Data is named by its bank offset, so a   *)
(* port, A and X hold a word where they carry data.)                       *)
TypeOK ==
  /\ list \in Lists /\ blk \in 1 .. Len(list) + 1
  /\ cpu \in CpuSteps /\ spc \in SpcSteps
  /\ port \in [0 .. 3 -> 0 .. Word - 1] /\ {port[0], echo} \subseteq 0 .. M - 1
  /\ {y, x, idx, n} \subseteq 0 .. Word - 1 /\ ctr \in 0 .. M - 1
  /\ cpu \in {"byte", "byte_counter", "first", "second", "third", "counter"} => x > 0
  /\ {sy, kind} \subseteq 0 .. M - 1
  /\ {dest, two, three, ra, rx} \subseteq 0 .. Word - 1
  /\ aram \in [0 .. Word - 1 -> 0 .. Word - 1 \union {UNWRITTEN}]

\* The byte of the list that belongs at sound RAM offset i of block k.
InPlace(k, i) == aram[list[k].dest + i] = list[k].src + i

\* A block is behind both processors once the receiver has left its loop.
Receiving == spc \in ByteReads \union TripleReads
Finished ==
  {k \in 1 .. Len(list) :
     k < blk /\ ~(k = blk - 1 /\ cpu \in HeaderSteps /\ Receiving)}

(* The driver is only started on a list that arrived whole.                *)
ReadyMeansWhole ==
  spc = "ready" =>
    \A k \in 1 .. Len(list) : \A i \in 0 .. list[k].len - 1 : InPlace(k, i)

(* The ports whose present value the receiver has still to read.           *)
Noticed == spc \in {"byte_loop", "triple_loop"} /\ port[0] = sy
ToRead ==
  CASE spc = "byte_loop" /\ Noticed -> {0, 1}
    [] spc = "byte_data" -> {1}
    [] spc = "triple_loop" /\ Noticed -> {0, 1, 2, 3}
    [] spc = "store_one" -> {1, 2, 3}
    [] spc = "read_two" -> {2, 3}
    [] spc = "read_three" -> {3}
    [] Receiving /\ spc \in {"byte_loop", "triple_loop"} /\ ~Ahead -> 0 .. 3
    [] spc \in {"dest_low", "dest_high"} -> 0 .. 3
    [] spc = "header_counter" -> {0, 1}
    [] spc = "header_kind" -> {1}
    [] spc = "block_start" /\ port[0] = 0 ->
         IF kind = THREE_BYTE THEN {0, 2, 3} ELSE {0, 1}
    [] spc \in {"n_low", "n_high", "m_low", "m_high"} -> {2, 3}
    [] OTHER -> {}

(* The 65816 never changes a port the receiver has still to read: each     *)
(* handshake's ports hold still from the counter's posting to its echo,    *)
(* which is why the triple echo comes after the third port and no delay    *)
(* loop is needed.                                                         *)
PortsHoldStill == [][\A p \in ToRead : port'[p] = port[p]]_vars

(* The upload implements SampleTransfer: the receiver's own view of how    *)
(* many blocks are complete, and sound RAM as it is.                       *)
Transfer ==
  INSTANCE SampleTransfer WITH
    Addresses <- 0 .. Word - 1, done <- Cardinality(Finished), image <- aram
TransferSpec == Transfer!Spec

(* Every list ends up in sound RAM and both processors move on.            *)
UploadFinishes == <>(cpu = "finished" /\ spc = "ready")
=============================================================================
