--------------------------- MODULE TransferStack ---------------------------
(***************************************************************************)
(* The stacks under cpu_send_triples of asm/spc-fast-upload.asm.  Its      *)
(* caller is one of the game's cooperative tasks, whose stacks are packed  *)
(* close together: the routine leaves one word there and runs on a stack   *)
(* of its own, between live variables, addressing what it has parked       *)
(* relative to the pointer.  The frame interrupt lands on whichever stack  *)
(* is current, between any two instructions, and pushes and pulls its      *)
(* frame.  Registers are 16 bits wide; an instruction that touches memory  *)
(* is a step, together with the register instructions next to it.          *)
(***************************************************************************)
EXTENDS Integers

CONSTANTS
  PRIVATE_STACK, \* its top, $1FE0
  LIVE,          \* the variables the game keeps below it, at $1FC6
  CALLER,        \* the caller's stack pointer
  ROOM,          \* bytes below it before the next task's saved state
  Frames,        \* bytes an interrupt may push
  MaxInterrupts, \* bound: interrupts during one block
  Lengths,       \* lengths of a block
  Sources        \* where its samples may start

Word == 65536
Byte == 0 .. 255
RETURN == 34069  \* what jsr pushes for the step after it
STALE == 165     \* what memory holds before anyone writes it
JUNK == 90       \* what an interrupt leaves behind

Owned == PRIVATE_STACK + 1 .. PRIVATE_STACK + 2
Neighbour == CALLER - ROOM - 1 .. CALLER - ROOM
Above == CALLER + 1 .. CALLER + 2
Address ==
  (UNION {v .. PRIVATE_STACK + 2 : v \in LIVE})
    \union (CALLER - ROOM - 1 .. CALLER + 2)

ASSUME PlacesAssumption ==
  /\ PRIVATE_STACK \in Nat /\ CALLER \in Nat
  /\ ROOM \in Nat /\ ROOM < CALLER
  /\ LIVE # {}
  /\ \A v \in LIVE : v \in Nat /\ CALLER + 2 < v
ASSUME BlocksAssumption ==
  /\ Lengths \subseteq 1 .. Word - 3
  /\ \A l \in Lengths, b \in Sources : b \in Nat /\ b + l + 2 < Word
\* The stock path's four bytes and an interrupt fit above the next task's
\* state; the game runs with them.
ASSUME StockFitsAssumption ==
  \A k \in Frames \union {0} : k \in Nat /\ 4 + k <= ROOM
\* "This stack is clear of both, and by counting": the routine's own six words
\* end above the variables below it (spc-fast-upload.asm:424-428).
ASSUME ClearByCountingAssumption ==
  \A v \in LIVE : v + 12 <= PRIVATE_STACK
\* So does an interrupt's frame on top of the deepest of them.  The source's
\* count has no frame in it: this is a bound on the game's interrupt handler
\* that nothing in the repository states.
ASSUME FrameFitsAssumption ==
  \A v \in LIVE, k \in Frames : v + 12 + k <= PRIVATE_STACK

VARIABLES
  pc,          \* the next instruction
  a, x, y, s,  \* registers
  mem,         \* the bytes of both stacks and their neighbours
  fetched,     \* the three addresses of the last handshake
  posted,      \* N as it went out on the ports
  length,      \* history: the block's length
  source,      \* history: where it starts
  interrupts   \* interrupts taken

regs == <<a, x, y, s>>
block == <<length, source>>
vars == <<pc, regs, mem, fetched, posted, block, interrupts>>

Lo(w) == w % 256
Hi(w) == w \div 256
WordAt(m, at) == m[at] + 256 * m[at + 1]
\* A stack-relative operand, k,s.
At(k) == WordAt(mem, s + k)

Push(w) ==
  /\ mem' = [mem EXCEPT ![s] = Hi(w), ![s - 1] = Lo(w)]
  /\ s' = s - 2

Pull(words) == s' = s + 2 * words /\ UNCHANGED <<mem>>
NoStack == UNCHANGED <<s, mem>>
Goto(from, to) == pc = from /\ pc' = to

-----------------------------------------------------------------------------
(* cpu_send_triples, up to the opening handshake.                          *)

PushLength ==
  /\ Goto("entry", "tsc") /\ Push(x)
  /\ UNCHANGED <<a, x, y, fetched, posted>>

Tsc ==
  /\ Goto("tsc", "txs") /\ a' = s /\ x' = PRIVATE_STACK
  /\ NoStack /\ UNCHANGED <<y, fetched, posted>>

\* The pointers parked on the caller's stack instead.
MutTxs ==
  /\ Goto("txs", "park")
  /\ UNCHANGED <<a, x, y, s, mem, fetched, posted>>

Txs ==
  /\ Goto("txs", "park") /\ s' = x
  /\ UNCHANGED <<a, x, y, mem, fetched, posted>>

ParkPointer ==
  /\ Goto("park", "length") /\ Push(a)
  /\ UNCHANGED <<a, x, y, fetched, posted>>

ReadLength ==
  /\ Goto("length", "parklength")
  /\ x' = At(1) /\ a' = WordAt(mem, At(1) + 1)
  /\ NoStack /\ UNCHANGED <<y, fetched, posted>>

ParkLength ==
  /\ Goto("parklength", "call") /\ Push(a)
  /\ a' = a + 2
  /\ UNCHANGED <<x, y, fetched, posted>>

CallThird ==
  /\ Goto("call", "value") /\ Push(RETURN)
  /\ UNCHANGED <<a, x, y, fetched, posted>>

ParkCount ==
  /\ Goto("count", "third") /\ Push(a)
  /\ UNCHANGED <<a, x, y, fetched, posted>>

ParkThird ==
  /\ Goto("third", "second")
  /\ a' = (y + At(1) + At(1)) % Word /\ Push(a')
  /\ UNCHANGED <<x, y, fetched, posted>>

\* The offset before the third pointer was pushed.
MutParkSecond ==
  /\ Goto("second", "first")
  /\ a' = (y + At(1)) % Word /\ Push(a')
  /\ UNCHANGED <<x, y, fetched, posted>>

ParkSecond ==
  /\ Goto("second", "first")
  /\ a' = (y + At(3)) % Word /\ Push(a')
  /\ UNCHANGED <<x, y, fetched, posted>>

ParkFirst ==
  /\ Goto("first", "open") /\ Push(y)
  /\ UNCHANGED <<a, x, y, fetched, posted>>

-----------------------------------------------------------------------------
(* cpu_third, on the same stack.                                           *)

PushValue ==
  /\ Goto("value", "quotient") /\ Push(a)
  /\ UNCHANGED <<a, x, y, fetched, posted>>

PushQuotient ==
  /\ Goto("quotient", "term")
  /\ a' = a \div 4 /\ Push(a') /\ x' = 6
  /\ UNCHANGED <<y, fetched, posted>>

PushTerm ==
  /\ Goto("term", "add")
  /\ a' = a \div 4 /\ Push(a')
  /\ UNCHANGED <<x, y, fetched, posted>>

Stored(at, w) == [mem EXCEPT ![at] = Lo(w), ![at + 1] = Hi(w)]

\* The term added to the value instead of the quotient.
MutAddTerm ==
  /\ Goto("add", IF x = 1 THEN "correct" ELSE "term")
  /\ mem' = Stored(s + 5, (a + At(5)) % Word)
  /\ a' = At(1) /\ s' = s + 2
  /\ x' = x - 1
  /\ UNCHANGED <<y, fetched, posted>>

AddTerm ==
  /\ Goto("add", IF x = 1 THEN "correct" ELSE "term")
  /\ mem' = Stored(s + 3, (a + At(3)) % Word)
  /\ a' = At(1) /\ s' = s + 2
  /\ x' = x - 1
  /\ UNCHANGED <<y, fetched, posted>>

Remainder == (At(3) - 3 * At(1)) % Word

Correct ==
  /\ pc = "correct"
  /\ IF Remainder < 3
     THEN pc' = "exact" /\ a' = Remainder /\ UNCHANGED mem
     ELSE /\ a' = (At(1) + 1) % Word /\ mem' = Stored(s + 1, a')
          /\ UNCHANGED pc
  /\ UNCHANGED <<x, y, s, fetched, posted>>

Exact ==
  /\ Goto("exact", "return")
  /\ a' = At(1) /\ x' = At(3) /\ Pull(2)
  /\ UNCHANGED <<y, fetched, posted>>

ReturnThird ==
  /\ Goto("return", IF At(1) = RETURN THEN "count" ELSE "lost")
  /\ Pull(1)
  /\ UNCHANGED <<a, x, y, fetched, posted>>

-----------------------------------------------------------------------------
(* The handshakes, as addresses read, and the way back.                    *)

Open ==
  /\ Goto("open", "count down")
  /\ posted' = At(7) /\ a' = 0
  /\ NoStack /\ UNCHANGED <<x, y, fetched>>

CountDown ==
  /\ Goto("count down", "handshake")
  /\ x' = At(7) /\ a' = At(7) /\ y' = 0
  /\ NoStack /\ UNCHANGED <<fetched, posted>>

Handshake ==
  /\ Goto("handshake", IF x = 1 THEN "sent" ELSE "handshake")
  /\ fetched' = <<At(1) + y, At(3) + y, At(5) + y>>
  /\ y' = y + 1 /\ x' = x - 1 /\ a' = y + 1
  /\ NoStack /\ UNCHANGED posted

Sent ==
  /\ Goto("sent", "unwind")
  /\ y' = (At(1) + At(9)) % Word
  /\ a' = At(7) /\ x' = At(7)
  /\ NoStack /\ UNCHANGED <<fetched, posted>>

\* Four words of the five taken off.
MutUnwind ==
  /\ Goto("unwind", "tcs") /\ a' = At(7) /\ Pull(4)
  /\ UNCHANGED <<x, y, fetched, posted>>

Unwind ==
  /\ Goto("unwind", "tcs") /\ a' = At(9) /\ Pull(5)
  /\ UNCHANGED <<x, y, fetched, posted>>

Tcs ==
  /\ Goto("tcs", "drop") /\ a' = At(1) /\ s' = At(1)
  /\ UNCHANGED <<x, y, mem, fetched, posted>>

DropLength ==
  /\ Goto("drop", "resume") /\ Pull(1) /\ a' = x
  /\ UNCHANGED <<x, y, fetched, posted>>

Instruction ==
  \/ PushLength \/ Tsc \/ Txs \/ ParkPointer \/ ReadLength \/ ParkLength
  \/ CallThird \/ PushValue \/ PushQuotient \/ PushTerm \/ AddTerm \/ Correct
  \/ Exact \/ ReturnThird \/ ParkCount \/ ParkThird \/ ParkSecond \/ ParkFirst
  \/ Open \/ CountDown \/ Handshake \/ Sent \/ Unwind \/ Tcs \/ DropLength

Interrupt(k) ==
  /\ pc \notin {"resume", "lost"} /\ interrupts < MaxInterrupts
  /\ interrupts' = interrupts + 1
  /\ mem' = [at \in Address |-> IF at \in s - k + 1 .. s THEN JUNK ELSE mem[at]]
  /\ UNCHANGED <<pc, regs, fetched, posted, block>>

-----------------------------------------------------------------------------
Init ==
  /\ length \in Lengths /\ source \in Sources
  /\ pc = "entry"
  /\ a = 0 /\ x = length /\ y = source /\ s = CALLER
  /\ mem = [at \in Address |-> STALE]
  /\ fetched = <<0, 0, 0>> /\ posted = 0
  /\ interrupts = 0

Step == Instruction /\ UNCHANGED <<block, interrupts>>
Next == Step \/ \E k \in Frames : Interrupt(k)
Spec == Init /\ [][Next]_vars

-----------------------------------------------------------------------------

Handshakes == (length + 2) \div 3

\* Every word the routine reads relative to its stack pointer is the one it
\* parked there, whatever an interrupt wrote below it in between: N goes out
\* rounded up and each handshake reads one byte of each third of the block.
ReadsItsThirds ==
  /\ pc \in {"handshake", "sent", "unwind", "tcs", "drop", "resume"} =>
       posted = Handshakes
  /\ pc \in {"handshake", "sent"} /\ y > 0 =>
       fetched = <<source + y - 1, source + Handshakes + y - 1,
                   source + 2 * Handshakes + y - 1>>

\* The caller gets its stack back as it was, Y behind the block, where the
\* stock walk reads the next record, and A the last counter posted.
CallerGetsItsOwn ==
  /\ pc # "lost"
  /\ pc = "resume" => s = CALLER /\ y = source + length /\ a = Handshakes
  /\ \A at \in Above : mem[at] = STALE

\* The next task's saved state survives an interrupt at any step, no more
\* being left on the caller's stack than the stock path leaves; and the private
\* stack stays between the game's variables at both of its ends, with the frame
\* of an interrupt on top of its deepest word, as long as that frame is no
\* longer than the thirteen bytes StockFits and FrameFits leave it.
OthersUntouched ==
  \A at \in Neighbour \union LIVE \union Owned : mem[at] = STALE

-----------------------------------------------------------------------------
(* The division is CpuThird's: a term is there when it has been pushed.    *)
Value == length + 2
Before == pc \in {"entry", "tsc", "txs", "park", "length", "parklength", "call",
                  "value", "quotient"}
InSeries == pc \in {"term", "add"}
ThirdPc ==
  CASE Before -> "term"
    [] pc = "correct" \/ (pc = "add" /\ x = 1) -> "correct"
    [] pc = "term" \/ (pc = "add" /\ x # 1) -> "term"
    [] OTHER -> "exact"
ThirdQuotient ==
  CASE Before -> Value \div 4
    [] pc = "add" -> (At(3) + a) % Word
    [] pc \in {"term", "correct", "exact"} -> At(1)
    [] pc \in {"return", "count"} -> a
    [] pc = "third" -> At(1)
    [] pc = "second" -> At(3)
    [] pc = "first" -> At(5)
    [] pc \in {"open", "count down", "handshake", "sent", "unwind"} -> At(7)
    [] OTHER -> x
\* A quarter taken seven times, 4 ^ 7.
LastTerm == Value \div 16384
ThirdTerm ==
  IF Before THEN Value \div 4
  ELSE IF InSeries THEN a ELSE LastTerm
ThirdLeft ==
  CASE Before -> 6 [] pc = "term" -> x [] pc = "add" -> x - 1 [] OTHER -> 0

Third ==
  INSTANCE CpuThird WITH Quarters <- 6, pc <- ThirdPc, value <- Value,
                         quo <- ThirdQuotient, term <- ThirdTerm,
                         left <- ThirdLeft

\* On the stack, at its offsets and with interrupts, the division is the one
\* CpuThird describes, and its quotient is what every later offset finds.
ThirdSpec == Third!Spec
=============================================================================
