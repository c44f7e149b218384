------------------------ MODULE TransferStack_proofs ------------------------
(***************************************************************************)
(* For every placement of the stacks the assumptions allow, every block    *)
(* length and start, and any number of interrupts: what cpu_send_triples   *)
(* reads relative to its stack pointer is what it parked there, nothing    *)
(* outside the bytes it owns changes, its caller gets its stack back, and  *)
(* the division it carries out on the stack is the one CpuThird describes. *)
(* The invariant says where the pointer is at every instruction, and what  *)
(* each word above it holds; what is below the pointer belongs to the      *)
(* interrupts.                                                             *)
(***************************************************************************)
EXTENDS TransferStack, TLAPS

\* The i-th word parked on the private stack, and the one on the caller's.
Slot(i) == WordAt(mem, PRIVATE_STACK - 1 - 2 * i)
CallerWord == WordAt(mem, CALLER - 1)

Private ==
  {"park", "length", "parklength", "tcs", "call", "count", "value", "return",
   "third", "quotient", "second", "term", "correct", "exact", "first", "add",
   "open", "count down", "handshake", "sent", "unwind"}
Dividing == {"value", "quotient", "term", "add", "correct", "exact", "return"}
Parking == {"count", "third", "second", "first"}
Sending == {"open", "count down", "handshake", "sent", "unwind"}
Left == {"tcs", "drop", "resume"}

MemOK == mem \in [Address -> Nat]

\* Above the caller's pointer, and outside both stacks, nothing is written.
Untouched ==
  \A at \in Neighbour \union LIVE \union Owned \union Above : mem[at] = STALE

BlockInv == length \in Lengths /\ source \in Sources

\* Where the stack pointer is at each instruction.
Pointer ==
  /\ pc \in {"entry", "tsc", "txs", "drop", "resume"} \union Private
  /\ pc \in {"entry", "resume"} => s = CALLER
  /\ pc \in {"tsc", "txs", "drop"} => s = CALLER - 2
  /\ pc = "park" => s = PRIVATE_STACK
  /\ pc \in {"length", "parklength", "tcs"} => s = PRIVATE_STACK - 2
  /\ pc \in {"call", "count"} => s = PRIVATE_STACK - 4
  /\ pc \in {"value", "return", "third"} => s = PRIVATE_STACK - 6
  /\ pc \in {"quotient", "second"} => s = PRIVATE_STACK - 8
  /\ pc \in {"term", "correct", "exact", "first"} => s = PRIVATE_STACK - 10
  /\ pc \in {"add"} \union Sending => s = PRIVATE_STACK - 12

\* The words above the pointer.
Words ==
  /\ pc \in {"tsc", "txs"} \union (Private \ {"tcs"}) => CallerWord = length
  /\ pc \in Private \ {"park"} => Slot(0) = CALLER - 2
  /\ pc \in {"call"} \union Dividing \union Parking \union Sending => Slot(1) = length
  /\ pc \in Dividing => Slot(2) = RETURN
  /\ pc \in {"quotient", "term", "add", "correct", "exact"} => Slot(3) = Value
  /\ pc \in {"third", "second", "first"} \union Sending => Slot(2) = Handshakes
  /\ pc \in {"second", "first"} \union Sending => Slot(3) = source + 2 * Handshakes
  /\ pc \in {"first"} \union Sending => Slot(4) = source + Handshakes
  /\ pc \in Sending => Slot(5) = source

\* The registers before and after the division and the handshakes.
Registers ==
  /\ pc \in {"entry", "tsc"} => x = length
  /\ pc = "txs" => x = PRIVATE_STACK
  /\ pc \in {"txs", "park"} => a = CALLER - 2
  /\ pc = "parklength" => a = length
  /\ pc \in {"call", "value", "quotient"} => a = Value
  /\ pc \in {"entry", "tsc", "txs", "park", "length", "parklength", "call"}
              \union Dividing \union Parking => y = source
  /\ pc \in {"return", "count"} => a = Handshakes
  /\ pc \in {"unwind"} \union Left => x = Handshakes /\ y = source + length
  /\ pc = "resume" => a = Handshakes

\* The term in A after n further quarters, with X terms to go.
Quartered ==
  /\ x = 6 => a = Value \div 4
  /\ x = 5 => a = Value \div 16
  /\ x = 4 => a = Value \div 64
  /\ x = 3 => a = Value \div 256
  /\ x = 2 => a = Value \div 1024
  /\ x = 1 => a = Value \div 4096
QuarteredOnce ==
  /\ x = 6 => a = Value \div 16
  /\ x = 5 => a = Value \div 64
  /\ x = 4 => a = Value \div 256
  /\ x = 3 => a = Value \div 1024
  /\ x = 2 => a = Value \div 4096
  /\ x = 1 => a = LastTerm

\* The series never overshoots, so the correction stops at the exact third.
Division ==
  /\ pc = "term" => x \in 1 .. 6 /\ Quartered /\ 3 * Slot(4) + a <= Value
  /\ pc = "add" =>
       /\ x \in 1 .. 6 /\ QuarteredOnce /\ Slot(5) = a
       /\ 3 * Slot(4) + 4 * a <= Value
  /\ pc = "correct" => 3 * Slot(4) <= Value
  /\ pc = "exact" => Slot(4) = Handshakes

\* What went out, and what each handshake read.
Traffic ==
  /\ pc \in {"count down", "handshake", "sent", "unwind"} \union Left =>
       posted = Handshakes
  /\ pc = "handshake" => y \in Nat /\ x = Handshakes - y /\ x > 0
  /\ pc \in {"handshake", "sent"} /\ y > 0 =>
       fetched = <<source + y - 1, source + Handshakes + y - 1,
                   source + 2 * Handshakes + y - 1>>

IInv ==
  /\ MemOK /\ Untouched /\ BlockInv
  /\ Pointer /\ Words /\ Registers /\ Division /\ Traffic

-----------------------------------------------------------------------------
(* Places and words.                                                       *)

Kept == Neighbour \union LIVE \union Owned \union Above

\* The private stack's twelve bytes and the caller's word are in the memory,
\* apart from each other and from everything that is to be kept.
LEMMA Ground ==
  /\ PRIVATE_STACK \in Nat /\ CALLER \in Nat /\ ROOM \in Nat
  /\ 4 <= ROOM /\ ROOM < CALLER /\ CALLER + 14 < PRIVATE_STACK
  /\ Kept \subseteq Address
  /\ \A at \in PRIVATE_STACK - 11 .. PRIVATE_STACK : at \in Address \ Kept
  /\ \A at \in CALLER - 1 .. CALLER : at \in Address \ Kept
<1>1. /\ PRIVATE_STACK \in Nat /\ CALLER \in Nat /\ ROOM \in Nat /\ ROOM < CALLER
      /\ LIVE # {} /\ \A v \in LIVE : v \in Nat /\ CALLER + 2 < v
  BY PlacesAssumption
<1>2. 4 <= ROOM
  BY <1>1, StockFitsAssumption
<1>3. \A v \in LIVE : v + 12 <= PRIVATE_STACK
  BY <1>1, ClearByCountingAssumption
<1>4. PICK v \in LIVE : v \in Nat /\ CALLER + 2 < v /\ v + 12 <= PRIVATE_STACK
  BY <1>1, <1>3
<1>5. CALLER + 14 < PRIVATE_STACK
  BY <1>1, <1>4
<1>6. v .. PRIVATE_STACK + 2 \subseteq Address
  BY <1>4 DEF Address
<1>7. Neighbour \subseteq Address /\ Above \subseteq Address
  BY <1>1, <1>2 DEF Address, Neighbour, Above
<1>8. \A l \in LIVE : l \in l .. PRIVATE_STACK + 2
  BY <1>1, <1>3
<1>9. LIVE \subseteq Address
  BY <1>8 DEF Address
<1>10. Owned \subseteq Address
  <2>1. Owned \subseteq v .. PRIVATE_STACK + 2
    BY <1>1, <1>4 DEF Owned
  <2> QED BY <2>1, <1>6
<1>11. ASSUME NEW at \in PRIVATE_STACK - 11 .. PRIVATE_STACK
       PROVE  at \in Address \ Kept
  <2>1. at \in v .. PRIVATE_STACK + 2
    BY <1>1, <1>4
  <2>2. at \notin LIVE
    BY <1>1, <1>3
  <2>3. at \notin Neighbour /\ at \notin Above /\ at \notin Owned
    BY <1>1, <1>5 DEF Neighbour, Above, Owned
  <2> QED BY <2>1, <2>2, <2>3, <1>6 DEF Kept
<1>12. ASSUME NEW at \in CALLER - 1 .. CALLER
       PROVE  at \in Address \ Kept
  <2>1. at \in CALLER - ROOM - 1 .. CALLER + 2
    BY <1>1, <1>2
  <2>2. at \in Address
    BY <2>1 DEF Address
  <2>3. at \notin LIVE
    BY <1>1
  <2>4. at \notin Neighbour /\ at \notin Above /\ at \notin Owned
    BY <1>1, <1>2, <1>5 DEF Neighbour, Above, Owned
  <2> QED BY <2>2, <2>3, <2>4 DEF Kept
<1> QED BY <1>1, <1>2, <1>5, <1>7, <1>9, <1>10, <1>11, <1>12 DEF Kept

\* A word's two bytes make it up.
LEMMA Bytes ==
  ASSUME NEW w \in Nat
  PROVE  Lo(w) \in Nat /\ Hi(w) \in Nat /\ Lo(w) + 256 * Hi(w) = w
BY DEF Lo, Hi

\* A word written at two bytes of the memory reads back, every other byte
\* stays, and nothing kept is touched.
LEMMA WriteWord ==
  ASSUME MemOK, Untouched, NEW at, at \in Int, NEW w \in Nat,
         at \in Address \ Kept, at + 1 \in Address \ Kept,
         mem' = [mem EXCEPT ![at] = Lo(w), ![at + 1] = Hi(w)]
  PROVE  /\ MemOK' /\ Untouched'
         /\ WordAt(mem', at) = w
         /\ \A b \in Address \ {at, at + 1} : mem'[b] = mem[b]
<1>1. Lo(w) \in Nat /\ Hi(w) \in Nat /\ Lo(w) + 256 * Hi(w) = w
  BY Bytes
<1>2. at # at + 1
  OBVIOUS
<1>3. mem'[at] = Lo(w) /\ mem'[at + 1] = Hi(w)
  BY <1>2 DEF MemOK
<1>4. \A b \in Address \ {at, at + 1} : mem'[b] = mem[b]
  BY DEF MemOK
<1>5. MemOK'
  BY <1>1 DEF MemOK
<1>6. \A b \in Kept : b \in Address \ {at, at + 1}
  BY Ground
<1>7. Untouched'
  BY <1>4, <1>6 DEF Untouched, Kept
<1> QED BY <1>1, <1>3, <1>4, <1>5, <1>7 DEF WordAt

\* A push writes the two bytes at the pointer and moves it below them.
LEMMA PushWord ==
  ASSUME MemOK, Untouched, s \in Int, NEW w \in Nat,
         s \in Address \ Kept, s - 1 \in Address \ Kept, Push(w)
  PROVE  /\ MemOK' /\ Untouched' /\ s' = s - 2
         /\ WordAt(mem', s - 1) = w
         /\ \A b \in Address \ {s - 1, s} : mem'[b] = mem[b]
<1> DEFINE at == s - 1
<1>1. at \in Int /\ at + 1 = s /\ at # s
  OBVIOUS
<1>2. mem' = [mem EXCEPT ![s] = Hi(w), ![at] = Lo(w)] /\ s' = s - 2
  BY DEF Push
<1>3. mem' = [mem EXCEPT ![at] = Lo(w), ![s] = Hi(w)]
  BY <1>1, <1>2 DEF MemOK
<1>4. mem' = [mem EXCEPT ![at] = Lo(w), ![at + 1] = Hi(w)]
  BY <1>1, <1>3
<1>5. at \in Address \ Kept /\ at + 1 \in Address \ Kept
  BY <1>1
<1> HIDE DEF at
<1>6. /\ MemOK' /\ Untouched' /\ WordAt(mem', at) = w
      /\ \A b \in Address \ {at, at + 1} : mem'[b] = mem[b]
  BY <1>1, <1>4, <1>5, WriteWord
<1> QED BY <1>1, <1>2, <1>6 DEF at

\* The words of the stack are made of bytes that are apart.
LEMMA Apart ==
  ASSUME NEW i \in 0 .. 5
  PROVE  /\ PRIVATE_STACK - 1 - 2 * i \in Address \ Kept
         /\ PRIVATE_STACK - 1 - 2 * i + 1 \in Address \ Kept
<1> DEFINE at == PRIVATE_STACK - 1 - 2 * i
<1>1. PRIVATE_STACK \in Nat /\ i \in Nat /\ i <= 5
  BY Ground
<1>2. at \in PRIVATE_STACK - 11 .. PRIVATE_STACK /\ at + 1 \in PRIVATE_STACK - 11 .. PRIVATE_STACK
  BY <1>1
<1> HIDE DEF at
<1>3. at \in Address \ Kept /\ at + 1 \in Address \ Kept
  BY <1>2, Ground
<1> QED BY <1>3 DEF at

\* A change confined to the two bytes of slot J leaves the others, and the
\* caller's word, as they were.
LEMMA OtherSlots ==
  ASSUME MemOK, NEW j \in 0 .. 5,
         \A b \in Address \ {PRIVATE_STACK - 1 - 2 * j, PRIVATE_STACK - 2 * j} : mem'[b] = mem[b]
  PROVE  /\ \A i \in 0 .. 5 : i # j => Slot(i)' = Slot(i)
         /\ CallerWord' = CallerWord
<1>1. PRIVATE_STACK \in Nat /\ CALLER \in Nat /\ CALLER + 14 < PRIVATE_STACK
  BY Ground
<1>2. ASSUME NEW i \in 0 .. 5, i # j
      PROVE  Slot(i)' = Slot(i)
  <2> DEFINE at == PRIVATE_STACK - 1 - 2 * i
             u == PRIVATE_STACK - 1 - 2 * j
             w == PRIVATE_STACK - 2 * j
  <2>1. at \in Address /\ at + 1 \in Address
    BY Apart
  <2>2. at # u /\ at # w /\ at + 1 # u /\ at + 1 # w
    BY <1>1, <1>2
  <2> HIDE DEF at, u, w
  <2>3. \A b \in Address \ {u, w} : mem'[b] = mem[b]
    BY DEF u, w
  <2>4. mem'[at] = mem[at] /\ mem'[at + 1] = mem[at + 1]
    BY <2>1, <2>2, <2>3
  <2>5. Slot(i) = mem[at] + 256 * mem[at + 1] /\ Slot(i)' = mem'[at] + 256 * mem'[at + 1]
    BY DEF Slot, WordAt, at
  <2> QED BY <2>4, <2>5
<1>3. CallerWord' = CallerWord
  <2> DEFINE u == PRIVATE_STACK - 1 - 2 * j
             w == PRIVATE_STACK - 2 * j
             at == CALLER - 1
  <2>1. at \in CALLER - 1 .. CALLER /\ at + 1 \in CALLER - 1 .. CALLER
    BY <1>1
  <2>2. at \in Address /\ at + 1 \in Address
    BY <2>1, Ground
  <2>3. at # u /\ at # w /\ at + 1 # u /\ at + 1 # w
    BY <1>1
  <2> HIDE DEF at, u, w
  <2>4. \A b \in Address \ {u, w} : mem'[b] = mem[b]
    BY DEF u, w
  <2>5. mem'[at] = mem[at] /\ mem'[at + 1] = mem[at + 1]
    BY <2>2, <2>3, <2>4
  <2>6. CallerWord = mem[at] + 256 * mem[at + 1] /\ CallerWord' = mem'[at] + 256 * mem'[at + 1]
    BY DEF CallerWord, WordAt, at
  <2> QED BY <2>5, <2>6
<1> QED BY <1>2, <1>3

\* A push at depth D puts its word in slot D.
LEMMA PushSlot ==
  ASSUME MemOK, Untouched, NEW d \in 0 .. 5, s = PRIVATE_STACK - 2 * d,
         NEW w \in Nat, Push(w)
  PROVE  /\ MemOK' /\ Untouched' /\ s' = PRIVATE_STACK - 2 * d - 2
         /\ Slot(d)' = w
         /\ \A i \in 0 .. 5 : i # d => Slot(i)' = Slot(i)
         /\ CallerWord' = CallerWord
<1>1. PRIVATE_STACK \in Nat
  BY Ground
<1>2. s \in Int /\ s - 1 = PRIVATE_STACK - 1 - 2 * d /\ s = PRIVATE_STACK - 1 - 2 * d + 1
  BY <1>1
<1>3. s \in Address \ Kept /\ s - 1 \in Address \ Kept
  BY <1>2, Apart
<1>4. /\ MemOK' /\ Untouched' /\ s' = s - 2 /\ WordAt(mem', s - 1) = w
      /\ \A b \in Address \ {s - 1, s} : mem'[b] = mem[b]
  BY <1>2, <1>3, PushWord
<1>5. Slot(d)' = w
  BY <1>2, <1>4 DEF Slot
<1>6. \A b \in Address \ {PRIVATE_STACK - 1 - 2 * d, PRIVATE_STACK - 2 * d} : mem'[b] = mem[b]
  BY <1>2, <1>4
<1> QED BY <1>1, <1>4, <1>5, <1>6, OtherSlots

\* A word stored in slot J.
LEMMA StoreSlot ==
  ASSUME MemOK, Untouched, NEW j \in 0 .. 5, NEW w \in Nat,
         mem' = Stored(PRIVATE_STACK - 1 - 2 * j, w)
  PROVE  /\ MemOK' /\ Untouched'
         /\ Slot(j)' = w
         /\ \A i \in 0 .. 5 : i # j => Slot(i)' = Slot(i)
         /\ CallerWord' = CallerWord
<1> DEFINE at == PRIVATE_STACK - 1 - 2 * j
<1>1. at \in Int /\ at + 1 = PRIVATE_STACK - 2 * j
  BY Ground
<1>2. at \in Address \ Kept /\ at + 1 \in Address \ Kept
  BY Apart
<1>3. mem' = [mem EXCEPT ![at] = Lo(w), ![at + 1] = Hi(w)]
  BY DEF Stored
<1>4. Slot(j)' = WordAt(mem', at)
  BY DEF Slot
<1> HIDE DEF at
<1>5. /\ MemOK' /\ Untouched' /\ WordAt(mem', at) = w
      /\ \A b \in Address \ {at, at + 1} : mem'[b] = mem[b]
  BY <1>1, <1>2, <1>3, WriteWord
<1>6. \A b \in Address \ {PRIVATE_STACK - 1 - 2 * j, PRIVATE_STACK - 2 * j} : mem'[b] = mem[b]
  BY <1>1, <1>5 DEF at
<1> QED BY <1>4, <1>5, <1>6, OtherSlots

\* A stack-relative operand reads a slot.
LEMMA Operand ==
  ASSUME NEW k \in 1 .. 11, NEW i \in 0 .. 5, s + k = PRIVATE_STACK - 1 - 2 * i
  PROVE  At(k) = Slot(i)
BY DEF At, Slot

\* The numbers of a block stay within the register.
LEMMA Block ==
  ASSUME BlockInv
  PROVE  /\ length \in Nat /\ source \in Nat /\ 1 <= length
         /\ Value \in Nat /\ Value < Word /\ Value = length + 2
         /\ Handshakes \in Nat /\ 1 <= Handshakes
         /\ Handshakes = Value \div 3
         /\ 3 * Handshakes <= Value /\ Value < 3 * Handshakes + 3
         /\ source + Value < Word
<1>1. length \in 1 .. Word - 3 /\ source \in Nat /\ source + length + 2 < Word
  BY BlocksAssumption DEF BlockInv
<1>2. length \in Nat /\ 1 <= length /\ Value = length + 2 /\ Value \in Nat
  <2>1. Word \in Nat
    BY DEF Word
  <2>2. length \in Nat /\ 1 <= length
    BY <1>1, <2>1
  <2> QED BY <2>2 DEF Value
<1>3. Handshakes = Value \div 3
  BY DEF Handshakes, Value
<1>4. /\ Value \div 3 \in Nat /\ 1 <= Value \div 3
      /\ 3 * (Value \div 3) <= Value /\ Value < 3 * (Value \div 3) + 3
  <2> DEFINE v == Value
  <2>1. v \in Nat /\ 3 <= v
    BY <1>2
  <2> HIDE DEF v
  <2>2. v \div 3 \in Nat /\ 3 * (v \div 3) <= v /\ v < 3 * (v \div 3) + 3
    BY <2>1
  <2>3. 1 <= v \div 3
    BY <2>1, <2>2
  <2> QED BY <2>2, <2>3 DEF v
<1>5. source + Value < Word /\ Value < Word
  <2>1. Word \in Nat
    BY DEF Word
  <2> DEFINE w == Word
             v == Value
  <2>2. w \in Nat /\ v \in Nat /\ v = length + 2 /\ source + length + 2 < w
    BY <1>1, <1>2, <2>1
  <2> HIDE DEF w, v
  <2>3. source + v < w /\ v < w
    BY <1>1, <1>2, <2>2
  <2> QED BY <2>3 DEF w, v
<1> QED BY <1>1, <1>2, <1>3, <1>4, <1>5

\* A register's sum that fits does not wrap.
LEMMA Fits ==
  ASSUME NEW v \in Nat, v < Word
  PROVE  v % Word = v
BY DEF Word

-----------------------------------------------------------------------------
(* The initial state and the interrupt.                                    *)

LEMMA InitInv == Init => IInv
<1> SUFFICES ASSUME Init PROVE IInv
  OBVIOUS
<1>1. pc = "entry" /\ x = length /\ y = source /\ s = CALLER
      /\ mem = [at \in Address |-> STALE]
  BY DEF Init
<1>2. MemOK
  BY <1>1 DEF MemOK, STALE
<1>3. Untouched
  BY <1>1, Ground DEF Untouched, Kept
<1>4. BlockInv
  BY DEF Init, BlockInv
<1>5. Pointer
  BY <1>1 DEF Pointer, Private, Sending
<1>6. Words
  BY <1>1 DEF Words, Private, Dividing, Parking, Sending
<1>7. Registers
  BY <1>1 DEF Registers, Dividing, Parking, Left
<1>8. Division /\ Traffic
  BY <1>1 DEF Division, Traffic, Left
<1> QED BY <1>2, <1>3, <1>4, <1>5, <1>6, <1>7, <1>8 DEF IInv

\* A frame that fits lands below the pointer: the slots above it, the caller's
\* word and everything kept stay as they were.
LEMMA FrameLands ==
  ASSUME IInv, NEW k \in Frames, Interrupt(k)
  PROVE  /\ MemOK' /\ Untouched'
         /\ \A i \in 0 .. 5 :
              CALLER < s /\ s <= PRIVATE_STACK - 2 * i - 2 => Slot(i)' = Slot(i)
         /\ s # CALLER => CallerWord' = CallerWord
<1>1. /\ PRIVATE_STACK \in Nat /\ CALLER \in Nat /\ ROOM \in Nat
      /\ 4 <= ROOM /\ ROOM < CALLER /\ CALLER + 14 < PRIVATE_STACK
  BY Ground
<1>2. k \in Nat /\ 4 + k <= ROOM /\ \A v \in LIVE : v \in Nat /\ v + 12 + k <= PRIVATE_STACK
  BY StockFitsAssumption, FrameFitsAssumption, PlacesAssumption
<1>3. \A v \in LIVE : CALLER + 2 < v
  BY PlacesAssumption
<1>4. mem \in [Address -> Nat]
      /\ mem' = [at \in Address |-> IF at \in s - k + 1 .. s THEN JUNK ELSE mem[at]]
  BY DEF Interrupt, IInv, MemOK
<1>5. MemOK'
  BY <1>4 DEF MemOK, JUNK
<1>6. s = CALLER \/ s = CALLER - 2 \/ s \in PRIVATE_STACK - 12 .. PRIVATE_STACK
  <2>1. Pointer
    BY DEF IInv
  <2>2. \/ s = CALLER \/ s = CALLER - 2
        \/ s = PRIVATE_STACK \/ s = PRIVATE_STACK - 2 \/ s = PRIVATE_STACK - 4
        \/ s = PRIVATE_STACK - 6 \/ s = PRIVATE_STACK - 8
        \/ s = PRIVATE_STACK - 10 \/ s = PRIVATE_STACK - 12
    BY <2>1 DEF Pointer, Private, Sending
  <2> QED BY <1>1, <2>2
<1>7. s \in Int
  BY <1>1, <1>6
<1>8. \A b \in Address : b \notin s - k + 1 .. s => mem'[b] = mem[b]
  BY <1>4
<1>9. ASSUME NEW b \in Kept PROVE mem'[b] = mem[b]
  <2>1. b \in Address
    BY Ground
  <2>2. CASE b \in LIVE
    BY <1>1, <1>2, <1>3, <1>6, <1>8, <2>1, <2>2
  <2>3. CASE b \in Neighbour
    BY <1>1, <1>2, <1>6, <1>8, <2>1, <2>3, <1>3, PlacesAssumption DEF Neighbour
  <2>4. CASE b \in Owned \/ b \in Above
    <3>1. LIVE # {}
      BY PlacesAssumption
    <3> QED BY <1>1, <1>2, <1>3, <1>6, <1>8, <2>1, <2>4, <3>1 DEF Owned, Above
  <2> QED BY <2>2, <2>3, <2>4 DEF Kept
<1>10. Untouched'
  BY <1>9 DEF IInv, Untouched, Kept
<1>11. ASSUME NEW i \in 0 .. 5, CALLER < s, s <= PRIVATE_STACK - 2 * i - 2
       PROVE  Slot(i)' = Slot(i)
  <2> DEFINE at == PRIVATE_STACK - 1 - 2 * i
  <2>1. at \in Address /\ at + 1 \in Address
    BY Apart
  <2>2. at \notin s - k + 1 .. s /\ at + 1 \notin s - k + 1 .. s
    BY <1>1, <1>2, <1>7, <1>11
  <2> HIDE DEF at
  <2>3. mem'[at] = mem[at] /\ mem'[at + 1] = mem[at + 1]
    BY <1>8, <2>1, <2>2
  <2>4. Slot(i) = mem[at] + 256 * mem[at + 1] /\ Slot(i)' = mem'[at] + 256 * mem'[at + 1]
    BY DEF Slot, WordAt, at
  <2> QED BY <2>3, <2>4
<1>12. ASSUME s # CALLER PROVE CallerWord' = CallerWord
  <2> DEFINE at == CALLER - 1
  <2>1. at \in CALLER - 1 .. CALLER /\ at + 1 \in CALLER - 1 .. CALLER
    BY <1>1
  <2>2. at \in Address /\ at + 1 \in Address
    BY <2>1, Ground
  <2>3. at \notin s - k + 1 .. s /\ at + 1 \notin s - k + 1 .. s
    <3>1. PICK v \in LIVE : v \in Nat /\ CALLER + 2 < v /\ v + 12 + k <= PRIVATE_STACK
      BY <1>2, <1>3, PlacesAssumption
    <3> QED BY <1>1, <1>2, <1>6, <1>12, <3>1
  <2> HIDE DEF at
  <2>4. mem'[at] = mem[at] /\ mem'[at + 1] = mem[at + 1]
    BY <1>8, <2>2, <2>3
  <2>5. CallerWord = mem[at] + 256 * mem[at + 1] /\ CallerWord' = mem'[at] + 256 * mem'[at + 1]
    BY DEF CallerWord, WordAt, at
  <2> QED BY <2>4, <2>5
<1> QED BY <1>5, <1>10, <1>11, <1>12

\* Wherever a slot's word matters, the pointer is below it.
LEMMA Below ==
  ASSUME Pointer
  PROVE  /\ pc \in Private \ {"park"} => CALLER < s /\ s <= PRIVATE_STACK - 2
         /\ pc \in {"call"} \union Dividing \union Parking \union Sending =>
              CALLER < s /\ s <= PRIVATE_STACK - 4
         /\ pc \in Dividing \union {"third", "second", "first"} \union Sending =>
              CALLER < s /\ s <= PRIVATE_STACK - 6
         /\ pc \in {"quotient", "term", "add", "correct", "exact", "second", "first"}
                     \union Sending =>
              CALLER < s /\ s <= PRIVATE_STACK - 8
         /\ pc \in {"term", "add", "correct", "exact", "first"} \union Sending =>
              CALLER < s /\ s <= PRIVATE_STACK - 10
         /\ pc \in {"add"} \union Sending => CALLER < s /\ s <= PRIVATE_STACK - 12
         /\ pc \in {"tsc", "txs"} \union Private => s # CALLER
<1>1. /\ PRIVATE_STACK \in Nat /\ CALLER \in Nat /\ CALLER + 14 < PRIVATE_STACK
  BY Ground
<1>2. pc = "park" => s = PRIVATE_STACK
  BY DEF Pointer
<1>3. pc \in {"length", "parklength", "tcs"} => s = PRIVATE_STACK - 2
  BY DEF Pointer
<1>4. pc \in {"call", "count"} => s = PRIVATE_STACK - 4
  BY DEF Pointer
<1>5. pc \in {"value", "return", "third"} => s = PRIVATE_STACK - 6
  BY DEF Pointer
<1>6. pc \in {"quotient", "second"} => s = PRIVATE_STACK - 8
  BY DEF Pointer
<1>7. pc \in {"term", "correct", "exact", "first"} => s = PRIVATE_STACK - 10
  BY DEF Pointer
<1>8. pc \in {"add"} \union Sending => s = PRIVATE_STACK - 12
  BY DEF Pointer
<1>9. pc \in {"tsc", "txs"} => s = CALLER - 2
  BY DEF Pointer
<1> DEFINE Deep(n) == CALLER < s /\ s <= PRIVATE_STACK - n
<1>10. pc \in {"add"} \union Sending => Deep(12) /\ Deep(10) /\ Deep(8) /\ Deep(6) /\ Deep(4)
       /\ Deep(2) /\ Deep(0)
  BY <1>1, <1>8
<1>11. pc \in {"term", "correct", "exact", "first"} => Deep(10) /\ Deep(8) /\ Deep(6) /\ Deep(4)
       /\ Deep(2) /\ Deep(0)
  BY <1>1, <1>7
<1>12. pc \in {"quotient", "second"} => Deep(8) /\ Deep(6) /\ Deep(4) /\ Deep(2) /\ Deep(0)
  BY <1>1, <1>6
<1>13. pc \in {"value", "return", "third"} => Deep(6) /\ Deep(4) /\ Deep(2) /\ Deep(0)
  BY <1>1, <1>5
<1>14. pc \in {"call", "count"} => Deep(4) /\ Deep(2) /\ Deep(0)
  BY <1>1, <1>4
<1>15. pc \in {"length", "parklength", "tcs"} => Deep(2) /\ Deep(0)
  BY <1>1, <1>3
<1>16. pc = "park" => Deep(0)
  BY <1>1, <1>2
<1>17. pc \in Private => Deep(0)
  <2> HIDE DEF Deep
  <2> QED BY <1>10, <1>11, <1>12, <1>13, <1>14, <1>15, <1>16 DEF Private, Sending
<1>18. pc \in {"tsc", "txs"} \union Private => s # CALLER
  BY <1>1, <1>9, <1>17
<1> HIDE DEF Deep
<1>19. pc \in Private \ {"park"} => Deep(2)
  BY <1>10, <1>11, <1>12, <1>13, <1>14, <1>15 DEF Private, Sending
<1>20. pc \in {"call"} \union Dividing \union Parking \union Sending => Deep(4)
  BY <1>10, <1>11, <1>12, <1>13, <1>14 DEF Dividing, Parking
<1>21. pc \in Dividing \union {"third", "second", "first"} \union Sending => Deep(6)
  BY <1>10, <1>11, <1>12, <1>13 DEF Dividing
<1>22. pc \in {"quotient", "term", "add", "correct", "exact", "second", "first"}
                \union Sending => Deep(8)
  BY <1>10, <1>11, <1>12
<1>23. pc \in {"term", "add", "correct", "exact", "first"} \union Sending => Deep(10)
  BY <1>10, <1>11
<1> QED BY <1>10, <1>18, <1>19, <1>20, <1>21, <1>22, <1>23 DEF Deep

\* An interrupt changes nothing the routine will read.
LEMMA InterruptInv ==
  ASSUME IInv, NEW k \in Frames, Interrupt(k)
  PROVE  IInv'
<1>1. /\ pc' = pc /\ a' = a /\ x' = x /\ y' = y /\ s' = s
      /\ fetched' = fetched /\ posted' = posted
      /\ length' = length /\ source' = source
  BY DEF Interrupt, regs, block
<1>2. Handshakes' = Handshakes /\ Value' = Value /\ LastTerm' = LastTerm
  BY <1>1 DEF Handshakes, Value, LastTerm
<1>3. MemOK' /\ Untouched'
  BY FrameLands
<1>4. BlockInv' /\ Pointer'
  BY <1>1 DEF IInv, BlockInv, Pointer
<1>5. /\ pc \in {"tsc", "txs"} \union Private => CallerWord' = CallerWord
      /\ pc \in Private \ {"park"} => Slot(0)' = Slot(0)
      /\ pc \in {"call"} \union Dividing \union Parking \union Sending => Slot(1)' = Slot(1)
      /\ pc \in Dividing \union {"third", "second", "first"} \union Sending =>
           Slot(2)' = Slot(2)
      /\ pc \in {"quotient", "term", "add", "correct", "exact", "second", "first"}
                  \union Sending => Slot(3)' = Slot(3)
      /\ pc \in {"term", "add", "correct", "exact", "first"} \union Sending =>
           Slot(4)' = Slot(4)
      /\ pc \in {"add"} \union Sending => Slot(5)' = Slot(5)
  <2>1. /\ CALLER < s /\ s <= PRIVATE_STACK - 2 => Slot(0)' = Slot(0)
        /\ CALLER < s /\ s <= PRIVATE_STACK - 4 => Slot(1)' = Slot(1)
        /\ CALLER < s /\ s <= PRIVATE_STACK - 6 => Slot(2)' = Slot(2)
        /\ CALLER < s /\ s <= PRIVATE_STACK - 8 => Slot(3)' = Slot(3)
        /\ CALLER < s /\ s <= PRIVATE_STACK - 10 => Slot(4)' = Slot(4)
        /\ CALLER < s /\ s <= PRIVATE_STACK - 12 => Slot(5)' = Slot(5)
        /\ s # CALLER => CallerWord' = CallerWord
    <3>1. \A i \in 0 .. 5 :
            CALLER < s /\ s <= PRIVATE_STACK - 2 * i - 2 => Slot(i)' = Slot(i)
      BY FrameLands
    <3>2. s # CALLER => CallerWord' = CallerWord
      BY FrameLands
    <3>3. PRIVATE_STACK \in Nat
      BY Ground
    <3> QED BY <3>1, <3>2, <3>3
  <2>2. Pointer
    BY DEF IInv
  <2> QED BY <2>1, <2>2, Below
<1>6. Words
  BY DEF IInv
<1>7. Words'
  BY <1>1, <1>2, <1>5, <1>6, Ground DEF Words, Dividing, Parking
<1>8. Registers'
  BY <1>1, <1>2 DEF IInv, Registers
<1>9. Division'
  BY <1>1, <1>2, <1>5 DEF IInv, Division, Quartered, QuarteredOnce
<1>10. Traffic'
  BY <1>1, <1>2 DEF IInv, Traffic
<1> QED BY <1>3, <1>4, <1>7, <1>8, <1>9, <1>10 DEF IInv

-----------------------------------------------------------------------------
(* The instructions.                                                       *)

\* The block being sent does not change.
LEMMA SameBlock ==
  ASSUME BlockInv, UNCHANGED block
  PROVE  /\ BlockInv'
         /\ length' = length /\ source' = source
         /\ Handshakes' = Handshakes /\ Value' = Value /\ LastTerm' = LastTerm
BY DEF BlockInv, block, Handshakes, Value, LastTerm

\* An instruction that writes no memory leaves every word.
LEMMA SameMem ==
  ASSUME MemOK, Untouched, mem' = mem
  PROVE  /\ MemOK' /\ Untouched' /\ CallerWord' = CallerWord
         /\ Slot(0)' = Slot(0) /\ Slot(1)' = Slot(1) /\ Slot(2)' = Slot(2)
         /\ Slot(3)' = Slot(3) /\ Slot(4)' = Slot(4) /\ Slot(5)' = Slot(5)
BY DEF MemOK, Untouched, CallerWord, Slot

\* The operands of the handshakes, with all six words on the stack.
LEMMA Operands ==
  ASSUME s = PRIVATE_STACK - 12
  PROVE  /\ At(1) = Slot(5) /\ At(3) = Slot(4) /\ At(5) = Slot(3)
         /\ At(7) = Slot(2) /\ At(9) = Slot(1)
<1>1. s + 1 = PRIVATE_STACK - 1 - 2 * 5 /\ s + 3 = PRIVATE_STACK - 1 - 2 * 4
  BY Ground
<1>2. s + 5 = PRIVATE_STACK - 1 - 2 * 3 /\ s + 7 = PRIVATE_STACK - 1 - 2 * 2
  BY Ground
<1>3. s + 9 = PRIVATE_STACK - 1 - 2 * 1
  BY Ground
<1> QED BY <1>1, <1>2, <1>3, Operand

\* The length goes on the caller's stack.
LEMMA PushLengthInv ==
  ASSUME IInv, PushLength, UNCHANGED block
  PROVE  IInv'
<1>1. /\ pc' = "tsc" /\ a' = a /\ x' = x /\ y' = y /\ Push(x)
      /\ pc = "entry"
  BY DEF PushLength, Goto
<1>2. s = CALLER /\ x = length /\ y = source
  BY <1>1 DEF IInv, Pointer, Registers
<1>3. BlockInv' /\ length' = length /\ source' = source /\ Handshakes' = Handshakes
  BY SameBlock DEF IInv
<1>4. CALLER \in Nat /\ length \in Nat
  BY Ground, Block DEF IInv
<1>5. s \in Int /\ s \in CALLER - 1 .. CALLER /\ s - 1 \in CALLER - 1 .. CALLER
  BY <1>2, <1>4
<1>6. s \in Address \ Kept /\ s - 1 \in Address \ Kept
  BY <1>5, Ground
<1>7. MemOK' /\ Untouched' /\ s' = s - 2 /\ WordAt(mem', s - 1) = x
  BY <1>1, <1>2, <1>4, <1>5, <1>6, PushWord DEF IInv
<1>8. CallerWord' = length /\ s' = CALLER - 2
  BY <1>2, <1>7, Ground DEF CallerWord
<1>9. Pointer'
  BY <1>1, <1>2, <1>3, <1>8 DEF Pointer, Private, Sending
<1>10. Words'
  BY <1>1, <1>2, <1>3, <1>8 DEF Words, Private, Dividing, Parking, Sending
<1>11. Registers'
  BY <1>1, <1>2, <1>3, <1>8 DEF Registers, Dividing, Parking, Left
<1>12. Division'
  BY <1>1, <1>2, <1>3, <1>8 DEF Division
<1>13. Traffic'
  BY <1>1, <1>2, <1>3, <1>8 DEF Traffic, Left
<1> QED BY <1>7, <1>3, <1>9, <1>10, <1>11, <1>12, <1>13 DEF IInv

\* The caller's pointer is taken into A.
LEMMA TscInv ==
  ASSUME IInv, Tsc, UNCHANGED block
  PROVE  IInv'
<1>1. /\ pc = "tsc" /\ pc' = "txs" /\ mem' = mem
      /\ s' = s /\ y' = y
      /\ a' = s /\ x' = PRIVATE_STACK
  BY DEF Tsc, Goto, NoStack, Pull
<1>2. s = CALLER - 2 /\ y = source /\ CallerWord = length
  BY <1>1 DEF IInv, Pointer, Words, Registers, Private, Dividing, Parking, Sending
<1>3. /\ MemOK' /\ Untouched' /\ CallerWord' = CallerWord
      /\ Slot(0)' = Slot(0) /\ Slot(1)' = Slot(1) /\ Slot(2)' = Slot(2)
      /\ Slot(3)' = Slot(3) /\ Slot(4)' = Slot(4) /\ Slot(5)' = Slot(5)
  BY <1>1, SameMem DEF IInv
<1>4. BlockInv' /\ length' = length /\ source' = source /\ Handshakes' = Handshakes
      /\ Value' = Value /\ LastTerm' = LastTerm
  BY SameBlock DEF IInv
<1>5. Pointer'
  BY <1>1, <1>2, <1>3, <1>4 DEF Pointer, Private, Sending
<1>6. Words'
  BY <1>1, <1>2, <1>3, <1>4 DEF Words, Private, Dividing, Parking, Sending
<1>7. Registers'
  BY <1>1, <1>2, <1>3, <1>4 DEF Registers, Dividing, Parking, Left
<1>8. Division'
  BY <1>1, <1>2, <1>3, <1>4 DEF Division
<1>9. Traffic'
  BY <1>1, <1>2, <1>3, <1>4 DEF Traffic, Left
<1> QED BY <1>3, <1>4, <1>5, <1>6, <1>7, <1>8, <1>9 DEF IInv

\* The routine moves to its own stack.
LEMMA TxsInv ==
  ASSUME IInv, Txs, UNCHANGED block
  PROVE  IInv'
<1>1. /\ pc = "txs" /\ pc' = "park" /\ mem' = mem
      /\ a' = a /\ x' = x /\ y' = y
      /\ s' = x
  BY DEF Txs, Goto, NoStack, Pull
<1>2. x = PRIVATE_STACK /\ a = CALLER - 2 /\ y = source /\ CallerWord = length
  BY <1>1 DEF IInv, Pointer, Words, Registers, Private, Dividing, Parking, Sending
<1>3. /\ MemOK' /\ Untouched' /\ CallerWord' = CallerWord
      /\ Slot(0)' = Slot(0) /\ Slot(1)' = Slot(1) /\ Slot(2)' = Slot(2)
      /\ Slot(3)' = Slot(3) /\ Slot(4)' = Slot(4) /\ Slot(5)' = Slot(5)
  BY <1>1, SameMem DEF IInv
<1>4. BlockInv' /\ length' = length /\ source' = source /\ Handshakes' = Handshakes
      /\ Value' = Value /\ LastTerm' = LastTerm
  BY SameBlock DEF IInv
<1>5. Pointer'
  BY <1>1, <1>2, <1>3, <1>4 DEF Pointer, Private, Sending
<1>6. Words'
  BY <1>1, <1>2, <1>3, <1>4 DEF Words, Private, Dividing, Parking, Sending
<1>7. Registers'
  BY <1>1, <1>2, <1>3, <1>4 DEF Registers, Dividing, Parking, Left
<1>8. Division'
  BY <1>1, <1>2, <1>3, <1>4 DEF Division
<1>9. Traffic'
  BY <1>1, <1>2, <1>3, <1>4 DEF Traffic, Left
<1> QED BY <1>3, <1>4, <1>5, <1>6, <1>7, <1>8, <1>9 DEF IInv

\* The caller's pointer is parked in slot 0.
LEMMA ParkPointerInv ==
  ASSUME IInv, ParkPointer, UNCHANGED block
  PROVE  IInv'
<1>1. /\ pc = "park" /\ pc' = "length"
      /\ a' = a /\ x' = x /\ y' = y /\ Push(a)
  BY DEF ParkPointer, Goto
<1>2. s = PRIVATE_STACK /\ a = CALLER - 2 /\ y = source /\ CallerWord = length
  BY <1>1 DEF IInv, Pointer, Words, Registers, Division, Private, Dividing, Parking, Sending
<1>3. BlockInv' /\ length' = length /\ source' = source /\ Handshakes' = Handshakes
      /\ Value' = Value /\ LastTerm' = LastTerm
  BY SameBlock DEF IInv
<1>4. a \in Nat /\ s = PRIVATE_STACK - 2 * 0
  BY <1>1, <1>2, Ground, Block DEF IInv
<1>5. /\ MemOK' /\ Untouched' /\ s' = PRIVATE_STACK - 2 * 0 - 2 /\ Slot(0)' = a
      /\ \A i \in 0 .. 5 : i # 0 => Slot(i)' = Slot(i)
      /\ CallerWord' = CallerWord
  BY <1>1, <1>2, <1>4, PushSlot DEF IInv
<1>6. s' = PRIVATE_STACK - 2
  BY <1>5, Ground
<1>7. Pointer'
  BY <1>1, <1>2, <1>3, <1>4, <1>5, <1>6 DEF Pointer, Private, Sending
<1>8. Words'
  BY <1>1, <1>2, <1>3, <1>4, <1>5, <1>6 DEF Words, Private, Dividing, Parking, Sending
<1>9. Registers'
  BY <1>1, <1>2, <1>3, <1>4, <1>5, <1>6 DEF Registers, Dividing, Parking, Left
<1>10. Division'
  BY <1>1, <1>2, <1>3, <1>4, <1>5, <1>6 DEF Division
<1>11. Traffic'
  BY <1>1, <1>2, <1>3, <1>4, <1>5, <1>6 DEF Traffic, Left
<1> QED BY <1>5, <1>3, <1>7, <1>8, <1>9, <1>10, <1>11 DEF IInv

\* The length is read back through the parked pointer.
LEMMA ReadLengthInv ==
  ASSUME IInv, ReadLength, UNCHANGED block
  PROVE  IInv'
<1>1. /\ pc = "length" /\ pc' = "parklength" /\ mem' = mem
      /\ s' = s /\ y' = y
      /\ x' = At(1) /\ a' = WordAt(mem, At(1) + 1)
  BY DEF ReadLength, Goto, NoStack, Pull
<1>2. s = PRIVATE_STACK - 2 /\ Slot(0) = CALLER - 2 /\ y = source /\ CallerWord = length
  BY <1>1 DEF IInv, Pointer, Words, Registers, Private, Dividing, Parking, Sending
<1>3. /\ MemOK' /\ Untouched' /\ CallerWord' = CallerWord
      /\ Slot(0)' = Slot(0) /\ Slot(1)' = Slot(1) /\ Slot(2)' = Slot(2)
      /\ Slot(3)' = Slot(3) /\ Slot(4)' = Slot(4) /\ Slot(5)' = Slot(5)
  BY <1>1, SameMem DEF IInv
<1>4. BlockInv' /\ length' = length /\ source' = source /\ Handshakes' = Handshakes
      /\ Value' = Value /\ LastTerm' = LastTerm
  BY SameBlock DEF IInv
<1>5. a' = length
  BY <1>1, <1>2, Ground, Operand DEF CallerWord
<1>6. Pointer'
  BY <1>1, <1>2, <1>3, <1>4, <1>5 DEF Pointer, Private, Sending
<1>7. Words'
  BY <1>1, <1>2, <1>3, <1>4, <1>5 DEF Words, Private, Dividing, Parking, Sending
<1>8. Registers'
  BY <1>1, <1>2, <1>3, <1>4, <1>5 DEF Registers, Dividing, Parking, Left
<1>9. Division'
  BY <1>1, <1>2, <1>3, <1>4, <1>5 DEF Division
<1>10. Traffic'
  BY <1>1, <1>2, <1>3, <1>4, <1>5 DEF Traffic, Left
<1> QED BY <1>3, <1>4, <1>6, <1>7, <1>8, <1>9, <1>10 DEF IInv

\* The length is parked in slot 1.
LEMMA ParkLengthInv ==
  ASSUME IInv, ParkLength, UNCHANGED block
  PROVE  IInv'
<1>1. /\ pc = "parklength" /\ pc' = "call"
      /\ x' = x /\ y' = y /\ a' = a + 2 /\ Push(a)
  BY DEF ParkLength, Goto
<1>2. s = PRIVATE_STACK - 2 /\ a = length /\ y = source /\ CallerWord = length
      /\ Slot(0) = CALLER - 2
  BY <1>1 DEF IInv, Pointer, Words, Registers, Division, Private, Dividing, Parking, Sending
<1>3. BlockInv' /\ length' = length /\ source' = source /\ Handshakes' = Handshakes
      /\ Value' = Value /\ LastTerm' = LastTerm
  BY SameBlock DEF IInv
<1>4. a \in Nat /\ s = PRIVATE_STACK - 2 * 1 /\ a' = Value
  BY <1>1, <1>2, Ground, Block DEF IInv
<1>5. /\ MemOK' /\ Untouched' /\ s' = PRIVATE_STACK - 2 * 1 - 2 /\ Slot(1)' = a
      /\ \A i \in 0 .. 5 : i # 1 => Slot(i)' = Slot(i)
      /\ CallerWord' = CallerWord
  BY <1>1, <1>2, <1>4, PushSlot DEF IInv
<1>6. s' = PRIVATE_STACK - 4
  BY <1>5, Ground
<1>7. Pointer'
  BY <1>1, <1>2, <1>3, <1>4, <1>5, <1>6 DEF Pointer, Private, Sending
<1>8. Words'
  BY <1>1, <1>2, <1>3, <1>4, <1>5, <1>6 DEF Words, Private, Dividing, Parking, Sending
<1>9. Registers'
  BY <1>1, <1>2, <1>3, <1>4, <1>5, <1>6 DEF Registers, Dividing, Parking, Left
<1>10. Division'
  BY <1>1, <1>2, <1>3, <1>4, <1>5, <1>6 DEF Division
<1>11. Traffic'
  BY <1>1, <1>2, <1>3, <1>4, <1>5, <1>6 DEF Traffic, Left
<1> QED BY <1>5, <1>3, <1>7, <1>8, <1>9, <1>10, <1>11 DEF IInv

\* The return address takes slot 2.
LEMMA CallThirdInv ==
  ASSUME IInv, CallThird, UNCHANGED block
  PROVE  IInv'
<1>1. /\ pc = "call" /\ pc' = "value"
      /\ a' = a /\ x' = x /\ y' = y /\ Push(RETURN)
  BY DEF CallThird, Goto
<1>2. s = PRIVATE_STACK - 4 /\ a = Value /\ y = source /\ CallerWord = length
      /\ Slot(0) = CALLER - 2 /\ Slot(1) = length
  BY <1>1 DEF IInv, Pointer, Words, Registers, Division, Private, Dividing, Parking, Sending
<1>3. BlockInv' /\ length' = length /\ source' = source /\ Handshakes' = Handshakes
      /\ Value' = Value /\ LastTerm' = LastTerm
  BY SameBlock DEF IInv
<1>4. RETURN \in Nat /\ s = PRIVATE_STACK - 2 * 2
  BY <1>1, <1>2, Ground, Block DEF IInv, RETURN
<1>5. /\ MemOK' /\ Untouched' /\ s' = PRIVATE_STACK - 2 * 2 - 2 /\ Slot(2)' = RETURN
      /\ \A i \in 0 .. 5 : i # 2 => Slot(i)' = Slot(i)
      /\ CallerWord' = CallerWord
  BY <1>1, <1>2, <1>4, PushSlot DEF IInv
<1>6. s' = PRIVATE_STACK - 6
  BY <1>5, Ground
<1>7. Pointer'
  BY <1>1, <1>2, <1>3, <1>4, <1>5, <1>6 DEF Pointer, Private, Sending
<1>8. Words'
  BY <1>1, <1>2, <1>3, <1>4, <1>5, <1>6 DEF Words, Private, Dividing, Parking, Sending
<1>9. Registers'
  BY <1>1, <1>2, <1>3, <1>4, <1>5, <1>6 DEF Registers, Dividing, Parking, Left
<1>10. Division'
  BY <1>1, <1>2, <1>3, <1>4, <1>5, <1>6 DEF Division
<1>11. Traffic'
  BY <1>1, <1>2, <1>3, <1>4, <1>5, <1>6 DEF Traffic, Left
<1> QED BY <1>5, <1>3, <1>7, <1>8, <1>9, <1>10, <1>11 DEF IInv

\* The value takes slot 3.
LEMMA PushValueInv ==
  ASSUME IInv, PushValue, UNCHANGED block
  PROVE  IInv'
<1>1. /\ pc = "value" /\ pc' = "quotient"
      /\ a' = a /\ x' = x /\ y' = y /\ Push(a)
  BY DEF PushValue, Goto
<1>2. s = PRIVATE_STACK - 6 /\ a = Value /\ y = source /\ CallerWord = length
      /\ Slot(0) = CALLER - 2 /\ Slot(1) = length /\ Slot(2) = RETURN
  BY <1>1 DEF IInv, Pointer, Words, Registers, Division, Private, Dividing, Parking, Sending
<1>3. BlockInv' /\ length' = length /\ source' = source /\ Handshakes' = Handshakes
      /\ Value' = Value /\ LastTerm' = LastTerm
  BY SameBlock DEF IInv
<1>4. a \in Nat /\ s = PRIVATE_STACK - 2 * 3
  BY <1>1, <1>2, Ground, Block DEF IInv
<1>5. /\ MemOK' /\ Untouched' /\ s' = PRIVATE_STACK - 2 * 3 - 2 /\ Slot(3)' = a
      /\ \A i \in 0 .. 5 : i # 3 => Slot(i)' = Slot(i)
      /\ CallerWord' = CallerWord
  BY <1>1, <1>2, <1>4, PushSlot DEF IInv
<1>6. s' = PRIVATE_STACK - 8
  BY <1>5, Ground
<1>7. Pointer'
  BY <1>1, <1>2, <1>3, <1>4, <1>5, <1>6 DEF Pointer, Private, Sending
<1>8. Words'
  BY <1>1, <1>2, <1>3, <1>4, <1>5, <1>6 DEF Words, Private, Dividing, Parking, Sending
<1>9. Registers'
  BY <1>1, <1>2, <1>3, <1>4, <1>5, <1>6 DEF Registers, Dividing, Parking, Left
<1>10. Division'
  BY <1>1, <1>2, <1>3, <1>4, <1>5, <1>6 DEF Division
<1>11. Traffic'
  BY <1>1, <1>2, <1>3, <1>4, <1>5, <1>6 DEF Traffic, Left
<1> QED BY <1>5, <1>3, <1>7, <1>8, <1>9, <1>10, <1>11 DEF IInv

-----------------------------------------------------------------------------
(* The division.                                                           *)

\* A quarter is a natural number, no more than a quarter of what it divides.
LEMMA Quarter ==
  ASSUME NEW v \in Nat
  PROVE  v \div 4 \in Nat /\ 4 * (v \div 4) <= v
OBVIOUS

\* Quarters of quarters.
LEMMA Quarters ==
  ASSUME NEW v \in Nat
  PROVE  /\ (v \div 4) \div 4 = v \div 16 /\ (v \div 16) \div 4 = v \div 64
         /\ (v \div 64) \div 4 = v \div 256 /\ (v \div 256) \div 4 = v \div 1024
         /\ (v \div 1024) \div 4 = v \div 4096 /\ (v \div 4096) \div 4 = v \div 16384
<1>1. (v \div 4) \div 4 = v \div 16
  OBVIOUS
<1>2. (v \div 16) \div 4 = v \div 64
  OBVIOUS
<1>3. (v \div 64) \div 4 = v \div 256
  OBVIOUS
<1>4. (v \div 256) \div 4 = v \div 1024
  OBVIOUS
<1>5. (v \div 1024) \div 4 = v \div 4096
  OBVIOUS
<1>6. (v \div 4096) \div 4 = v \div 16384
  OBVIOUS
<1> QED BY <1>1, <1>2, <1>3, <1>4, <1>5, <1>6


\* The first quarter takes slot 4, six more to come.
LEMMA PushQuotientInv ==
  ASSUME IInv, PushQuotient, UNCHANGED block
  PROVE  IInv'
<1>1. /\ pc = "quotient" /\ pc' = "term"
      /\ a' = a \div 4 /\ Push(a') /\ x' = 6 /\ y' = y
  BY DEF PushQuotient, Goto
<1>2. s = PRIVATE_STACK - 8 /\ a = Value /\ Slot(3) = Value /\ CallerWord = length
      /\ Slot(0) = CALLER - 2 /\ Slot(1) = length /\ Slot(2) = RETURN /\ y = source
  BY <1>1 DEF IInv, Pointer, Words, Registers, Division, Private, Dividing, Parking, Sending
<1>3. BlockInv' /\ length' = length /\ source' = source /\ Handshakes' = Handshakes
      /\ Value' = Value /\ LastTerm' = LastTerm
  BY SameBlock DEF IInv
<1>4. a' \in Nat /\ 4 * a' <= Value /\ s = PRIVATE_STACK - 2 * 4
  BY <1>1, <1>2, Ground, Block, Quarter DEF IInv
<1>5. /\ MemOK' /\ Untouched' /\ s' = PRIVATE_STACK - 2 * 4 - 2 /\ Slot(4)' = a'
      /\ \A i \in 0 .. 5 : i # 4 => Slot(i)' = Slot(i)
      /\ CallerWord' = CallerWord
  BY <1>1, <1>2, <1>4, PushSlot DEF IInv
<1>6. s' = PRIVATE_STACK - 10
  BY <1>5, Ground
<1>7. Pointer'
  BY <1>1, <1>2, <1>3, <1>4, <1>5, <1>6 DEF Pointer, Private, Sending
<1>8. Words'
  BY <1>1, <1>2, <1>3, <1>4, <1>5, <1>6 DEF Words, Private, Dividing, Parking, Sending
<1>9. Registers'
  BY <1>1, <1>2, <1>3, <1>4, <1>5, <1>6 DEF Registers, Dividing, Parking, Left
<1>10. Division'
  BY <1>1, <1>2, <1>3, <1>4, <1>5, <1>6 DEF Division, Quartered
<1>11. Traffic'
  BY <1>1, <1>2, <1>3, <1>4, <1>5, <1>6 DEF Traffic, Left
<1> QED BY <1>5, <1>3, <1>7, <1>8, <1>9, <1>10, <1>11 DEF IInv

\* A slot holds a natural number.
LEMMA SlotTypes ==
  ASSUME MemOK, NEW i \in 0 .. 5
  PROVE  Slot(i) \in Nat
<1>1. PRIVATE_STACK - 1 - 2 * i \in Address /\ PRIVATE_STACK - 1 - 2 * i + 1 \in Address
  BY Apart
<1> QED BY <1>1 DEF Slot, WordAt, MemOK

\* The next quarter is taken, and put in slot 5.
LEMMA PushTermInv ==
  ASSUME IInv, PushTerm, UNCHANGED block
  PROVE  IInv'
<1>1. /\ pc = "term" /\ pc' = "add" /\ a' = a \div 4 /\ Push(a')
      /\ x' = x /\ y' = y
  BY DEF PushTerm, Goto
<1>2. /\ s = PRIVATE_STACK - 10 /\ CallerWord = length /\ Slot(0) = CALLER - 2
      /\ Slot(1) = length /\ Slot(2) = RETURN /\ Slot(3) = Value /\ y = source
      /\ x \in 1 .. 6 /\ Quartered /\ 3 * Slot(4) + a <= Value
  BY <1>1 DEF IInv, Pointer, Words, Registers, Division, Private, Dividing
<1>3. /\ BlockInv' /\ length' = length /\ source' = source
      /\ Handshakes' = Handshakes /\ Value' = Value /\ LastTerm' = LastTerm
  BY SameBlock DEF IInv
<1>4. Value \in Nat
  BY Block DEF IInv
<1>5. a \in Nat /\ (x \in 1 .. 6 => QuarteredOnce')
  <2>1. a \in Nat
    BY <1>2, <1>4 DEF Quartered
  <2>2. /\ (x = 6 => a' = Value \div 16) /\ (x = 5 => a' = Value \div 64)
        /\ (x = 4 => a' = Value \div 256) /\ (x = 3 => a' = Value \div 1024)
        /\ (x = 2 => a' = Value \div 4096) /\ (x = 1 => a' = Value \div 16384)
    BY <1>1, <1>2, <1>4, Quarters DEF Quartered
  <2>3. QuarteredOnce'
    BY <1>1, <1>3, <2>2 DEF QuarteredOnce, LastTerm
  <2> QED BY <2>1, <2>3
<1>6. a' \in Nat /\ 4 * a' <= a
  BY <1>1, <1>5, Quarter
<1>7. s = PRIVATE_STACK - 2 * 5
  BY <1>2, Ground
<1>8. /\ MemOK' /\ Untouched' /\ s' = PRIVATE_STACK - 2 * 5 - 2 /\ Slot(5)' = a'
      /\ \A i \in 0 .. 5 : i # 5 => Slot(i)' = Slot(i)
      /\ CallerWord' = CallerWord
  BY <1>1, <1>6, <1>7, PushSlot DEF IInv
<1>9. s' = PRIVATE_STACK - 12
  BY <1>8, Ground
<1>10. Slot(4) \in Nat
  BY SlotTypes DEF IInv
<1>11. 3 * Slot(4) + 4 * a' <= Value
  <2> DEFINE t == a'
             q == Slot(4)
  <2>1. t \in Nat /\ q \in Nat /\ 4 * t <= a /\ 3 * q + a <= Value
    BY <1>2, <1>6, <1>10
  <2> HIDE DEF t, q
  <2>2. 3 * q + 4 * t <= Value
    BY <2>1, <1>4, <1>5
  <2> QED BY <2>2 DEF t, q
<1>12. Division'
  BY <1>1, <1>2, <1>3, <1>5, <1>8, <1>11 DEF Division
<1>13. Pointer'
  BY <1>1, <1>9 DEF Pointer, Private, Sending
<1>14. Words'
  BY <1>1, <1>2, <1>3, <1>8 DEF Words, Private, Dividing, Parking, Sending
<1>15. Registers'
  BY <1>1, <1>2, <1>3 DEF Registers, Dividing, Parking, Left
<1>16. Traffic'
  BY <1>1 DEF Traffic, Left
<1> QED BY <1>3, <1>8, <1>12, <1>13, <1>14, <1>15, <1>16 DEF IInv

\* The term is added to the quotient in slot 4.
LEMMA AddTermInv ==
  ASSUME IInv, AddTerm, UNCHANGED block
  PROVE  IInv'
<1>1. /\ pc = "add" /\ pc' = IF x = 1 THEN "correct" ELSE "term"
      /\ mem' = Stored(s + 3, (a + At(3)) % Word)
      /\ a' = At(1) /\ s' = s + 2 /\ x' = x - 1 /\ y' = y
  BY DEF AddTerm, Goto
<1>2. /\ s = PRIVATE_STACK - 12 /\ CallerWord = length /\ Slot(0) = CALLER - 2
      /\ Slot(1) = length /\ Slot(2) = RETURN /\ Slot(3) = Value /\ y = source
      /\ x \in 1 .. 6 /\ QuarteredOnce /\ Slot(5) = a /\ 3 * Slot(4) + 4 * a <= Value
  BY <1>1 DEF IInv, Pointer, Words, Registers, Division, Private, Dividing
<1>3. /\ BlockInv' /\ length' = length /\ source' = source
      /\ Handshakes' = Handshakes /\ Value' = Value /\ LastTerm' = LastTerm
  BY SameBlock DEF IInv
<1>4. Value \in Nat /\ Value < Word
  BY Block DEF IInv
<1>5. At(3) = Slot(4) /\ At(1) = Slot(5) /\ s + 3 = PRIVATE_STACK - 1 - 2 * 4
  BY <1>2, Ground, Operand
<1>6. Slot(4) \in Nat /\ Slot(5) \in Nat
  BY SlotTypes DEF IInv
<1> DEFINE q == Slot(4)
           t == Slot(5)
<1>7. /\ t + q \in Nat /\ t + q < Word
      /\ 3 * (t + q) + t <= Value /\ 3 * (t + q) <= Value
  <2>1. q \in Nat /\ t \in Nat /\ 3 * q + 4 * t <= Value
    BY <1>2, <1>6
  <2> HIDE DEF q, t
  <2> QED BY <2>1, <1>4 DEF Word
<1>8. mem' = Stored(PRIVATE_STACK - 1 - 2 * 4, t + q) /\ a' = t
  <2>1. (a + At(3)) % Word = t + q
    BY <1>2, <1>5, <1>7, Fits
  <2> QED BY <2>1, <1>1, <1>5
<1> HIDE DEF q, t
<1>9. /\ MemOK' /\ Untouched' /\ Slot(4)' = t + q
      /\ \A i \in 0 .. 5 : i # 4 => Slot(i)' = Slot(i)
      /\ CallerWord' = CallerWord
  BY <1>7, <1>8, StoreSlot DEF IInv
<1>10. s' = PRIVATE_STACK - 10
  BY <1>1, <1>2, Ground
<1>11. pc' = "term" => x' \in 1 .. 6 /\ Quartered'
  BY <1>1, <1>2, <1>3, <1>8 DEF QuarteredOnce, Quartered, t
<1>12. Division'
  <2> DEFINE p == Slot(4)'
             b == a'
             v == Value'
  <2>1. p = t + q /\ b = t /\ v = Value
    BY <1>3, <1>8, <1>9
  <2> HIDE DEF p, b, v
  <2>2. 3 * p + b <= v /\ 3 * p <= v
    BY <1>7, <2>1
  <2>3. 3 * Slot(4)' + a' <= Value' /\ 3 * Slot(4)' <= Value'
    BY <2>2 DEF p, b, v
  <2> QED BY <1>1, <1>11, <2>3 DEF Division
<1>13. Pointer'
  BY <1>1, <1>10 DEF Pointer, Private, Sending
<1>14. Words'
  BY <1>1, <1>2, <1>3, <1>9 DEF Words, Private, Dividing, Parking, Sending
<1>15. Registers'
  BY <1>1, <1>2, <1>3 DEF Registers, Dividing, Parking, Left
<1>16. Traffic'
  BY <1>1 DEF Traffic, Left
<1> QED BY <1>3, <1>9, <1>12, <1>13, <1>14, <1>15, <1>16 DEF IInv

\* The correction stops at the exact third.
LEMMA CorrectInv ==
  ASSUME IInv, Correct, UNCHANGED block
  PROVE  IInv'
<1>1. pc = "correct" /\ x' = x /\ y' = y /\ s' = s
  BY DEF Correct
<1>2. /\ s = PRIVATE_STACK - 10 /\ CallerWord = length /\ Slot(0) = CALLER - 2
      /\ Slot(1) = length /\ Slot(2) = RETURN /\ Slot(3) = Value /\ y = source
      /\ 3 * Slot(4) <= Value
  BY <1>1 DEF IInv, Pointer, Words, Registers, Division, Private, Dividing
<1>3. /\ BlockInv' /\ length' = length /\ source' = source
      /\ Handshakes' = Handshakes /\ Value' = Value /\ LastTerm' = LastTerm
  BY SameBlock DEF IInv
<1>4. Value \in Nat /\ Value < Word /\ Handshakes = Value \div 3
  BY Block DEF IInv
<1>5. At(3) = Slot(3) /\ At(1) = Slot(4) /\ s + 1 = PRIVATE_STACK - 1 - 2 * 4
  BY <1>2, Ground, Operand
<1> DEFINE q == Slot(4)
<1>6. q \in Nat /\ 3 * q <= Value
  BY <1>2, SlotTypes DEF IInv
<1>7. Remainder = Value - 3 * q
  <2>1. Remainder = (Value - 3 * q) % Word
    BY <1>2, <1>5 DEF Remainder
  <2> HIDE DEF q
  <2>2. Value - 3 * q \in Nat /\ Value - 3 * q < Word
    BY <1>4, <1>6 DEF Word
  <2> QED BY <2>1, <2>2, Fits
<1>8. CASE Remainder < 3
  <2>1. pc' = "exact" /\ mem' = mem
    BY <1>1, <1>8 DEF Correct
  <2>2. /\ MemOK' /\ Untouched' /\ CallerWord' = CallerWord
        /\ Slot(0)' = Slot(0) /\ Slot(1)' = Slot(1) /\ Slot(2)' = Slot(2)
        /\ Slot(3)' = Slot(3) /\ Slot(4)' = Slot(4) /\ Slot(5)' = Slot(5)
    BY <2>1, SameMem DEF IInv
  <2>3. Slot(4) = Handshakes
    <3> HIDE DEF q
    <3>1. q = Value \div 3
      BY <1>4, <1>6, <1>7, <1>8
    <3> QED BY <1>4, <3>1 DEF q
  <2>4. Division'
    BY <1>3, <2>1, <2>2, <2>3 DEF Division
  <2>5. Pointer'
    BY <1>1, <1>2, <2>1 DEF Pointer, Private, Sending
  <2>6. Words'
    BY <1>1, <1>2, <1>3, <2>1, <2>2 DEF Words, Private, Dividing, Parking, Sending
  <2>7. Registers'
    BY <1>1, <1>2, <1>3, <2>1 DEF Registers, Dividing, Parking, Left
  <2>8. Traffic'
    BY <2>1 DEF Traffic, Left
  <2> QED BY <1>3, <2>2, <2>4, <2>5, <2>6, <2>7, <2>8 DEF IInv
<1>9. CASE ~(Remainder < 3)
  <2>1. pc' = "correct" /\ a' = (At(1) + 1) % Word /\ mem' = Stored(s + 1, a')
    BY <1>1, <1>9 DEF Correct
  <2>2. q + 1 \in Nat /\ q + 1 < Word /\ 3 * (q + 1) <= Value
    <3> HIDE DEF q
    <3> QED BY <1>4, <1>6, <1>7, <1>9 DEF Word
  <2>3. mem' = Stored(PRIVATE_STACK - 1 - 2 * 4, q + 1)
    <3>1. a' = q + 1
      BY <1>5, <2>1, <2>2, Fits
    <3> QED BY <1>5, <2>1, <3>1
  <2> HIDE DEF q
  <2>4. /\ MemOK' /\ Untouched' /\ Slot(4)' = q + 1
        /\ \A i \in 0 .. 5 : i # 4 => Slot(i)' = Slot(i)
        /\ CallerWord' = CallerWord
    BY <2>2, <2>3, StoreSlot DEF IInv
  <2>5. Division'
    <3>1. 3 * Slot(4)' <= Value'
      BY <1>3, <2>2, <2>4
    <3> QED BY <2>1, <3>1 DEF Division
  <2>6. Pointer'
    BY <1>1, <1>2, <2>1 DEF Pointer, Private, Sending
  <2>7. Words'
    BY <1>1, <1>2, <1>3, <2>1, <2>4 DEF Words, Private, Dividing, Parking, Sending
  <2>8. Registers'
    BY <1>1, <1>2, <1>3, <2>1 DEF Registers, Dividing, Parking, Left
  <2>9. Traffic'
    BY <2>1 DEF Traffic, Left
  <2> QED BY <1>3, <2>4, <2>5, <2>6, <2>7, <2>8, <2>9 DEF IInv
<1> QED BY <1>8, <1>9

\* The quotient is taken into A, and the return address uncovered.
LEMMA ExactInv ==
  ASSUME IInv, Exact, UNCHANGED block
  PROVE  IInv'
<1>1. /\ pc = "exact" /\ pc' = "return" /\ mem' = mem
      /\ y' = y
      /\ a' = At(1) /\ s' = s + 2 * 2
  BY DEF Exact, Goto, NoStack, Pull
<1>2. /\ s = PRIVATE_STACK - 10 /\ CallerWord = length /\ Slot(0) = CALLER - 2
      /\ Slot(1) = length /\ Slot(2) = RETURN /\ Slot(4) = Handshakes /\ y = source
  BY <1>1 DEF IInv, Pointer, Words, Registers, Division, Private, Dividing, Parking, Sending
<1>3. /\ MemOK' /\ Untouched' /\ CallerWord' = CallerWord
      /\ Slot(0)' = Slot(0) /\ Slot(1)' = Slot(1) /\ Slot(2)' = Slot(2)
      /\ Slot(3)' = Slot(3) /\ Slot(4)' = Slot(4) /\ Slot(5)' = Slot(5)
  BY <1>1, SameMem DEF IInv
<1>4. BlockInv' /\ length' = length /\ source' = source /\ Handshakes' = Handshakes
      /\ Value' = Value /\ LastTerm' = LastTerm
  BY SameBlock DEF IInv
<1>5. a' = Handshakes /\ s' = PRIVATE_STACK - 6
  BY <1>1, <1>2, Ground, Operand
<1>6. Pointer'
  BY <1>1, <1>2, <1>3, <1>4, <1>5 DEF Pointer, Private, Sending
<1>7. Words'
  BY <1>1, <1>2, <1>3, <1>4, <1>5 DEF Words, Private, Dividing, Parking, Sending
<1>8. Registers'
  BY <1>1, <1>2, <1>3, <1>4, <1>5 DEF Registers, Dividing, Parking, Left
<1>9. Division'
  BY <1>1, <1>2, <1>3, <1>4, <1>5 DEF Division
<1>10. Traffic'
  BY <1>1, <1>2, <1>3, <1>4, <1>5 DEF Traffic, Left
<1> QED BY <1>3, <1>4, <1>6, <1>7, <1>8, <1>9, <1>10 DEF IInv

\* cpu_third returns to where it was called.
LEMMA ReturnThirdInv ==
  ASSUME IInv, ReturnThird, UNCHANGED block
  PROVE  IInv'
<1>1. /\ pc = "return" /\ pc' = IF At(1) = RETURN THEN "count" ELSE "lost"
      /\ mem' = mem /\ a' = a /\ x' = x /\ y' = y /\ s' = s + 2 * 1
  BY DEF ReturnThird, Goto, Pull
<1>2. /\ s = PRIVATE_STACK - 6 /\ CallerWord = length /\ Slot(0) = CALLER - 2
      /\ Slot(1) = length /\ Slot(2) = RETURN /\ y = source /\ a = Handshakes
  BY <1>1 DEF IInv, Pointer, Words, Registers, Private, Dividing, Parking, Sending
<1>3. /\ MemOK' /\ Untouched' /\ CallerWord' = CallerWord
      /\ Slot(0)' = Slot(0) /\ Slot(1)' = Slot(1) /\ Slot(2)' = Slot(2)
      /\ Slot(3)' = Slot(3) /\ Slot(4)' = Slot(4) /\ Slot(5)' = Slot(5)
  BY <1>1, SameMem DEF IInv
<1>4. BlockInv' /\ length' = length /\ source' = source /\ Handshakes' = Handshakes
      /\ Value' = Value /\ LastTerm' = LastTerm
  BY SameBlock DEF IInv
<1>5. pc' = "count" /\ s' = PRIVATE_STACK - 4
  BY <1>1, <1>2, Ground, Operand
<1>6. Pointer'
  BY <1>1, <1>2, <1>3, <1>4, <1>5 DEF Pointer, Private, Sending
<1>7. Words'
  BY <1>1, <1>2, <1>3, <1>4, <1>5 DEF Words, Private, Dividing, Parking, Sending
<1>8. Registers'
  BY <1>1, <1>2, <1>3, <1>4, <1>5 DEF Registers, Dividing, Parking, Left
<1>9. Division'
  BY <1>1, <1>2, <1>3, <1>4, <1>5 DEF Division
<1>10. Traffic'
  BY <1>1, <1>2, <1>3, <1>4, <1>5 DEF Traffic, Left
<1> QED BY <1>3, <1>4, <1>6, <1>7, <1>8, <1>9, <1>10 DEF IInv

-----------------------------------------------------------------------------
(* Parking the three pointers, and the handshakes.                         *)

\* N is parked in slot 2.
LEMMA ParkCountInv ==
  ASSUME IInv, ParkCount, UNCHANGED block
  PROVE  IInv'
<1>1. /\ pc = "count" /\ pc' = "third"
      /\ a' = a /\ x' = x /\ y' = y /\ Push(a)
  BY DEF ParkCount, Goto
<1>2. /\ s = PRIVATE_STACK - 4 /\ a = Handshakes /\ y = source /\ CallerWord = length
      /\ Slot(0) = CALLER - 2 /\ Slot(1) = length
  BY <1>1 DEF IInv, Pointer, Words, Registers, Division, Private, Dividing, Parking, Sending
<1>3. BlockInv' /\ length' = length /\ source' = source /\ Handshakes' = Handshakes
      /\ Value' = Value /\ LastTerm' = LastTerm
  BY SameBlock DEF IInv
<1>4. a \in Nat /\ s = PRIVATE_STACK - 2 * 2
  BY <1>1, <1>2, Ground, Block DEF IInv
<1>5. /\ MemOK' /\ Untouched' /\ s' = PRIVATE_STACK - 2 * 2 - 2 /\ Slot(2)' = a
      /\ \A i \in 0 .. 5 : i # 2 => Slot(i)' = Slot(i)
      /\ CallerWord' = CallerWord
  BY <1>1, <1>2, <1>4, PushSlot DEF IInv
<1>6. s' = PRIVATE_STACK - 6
  BY <1>5, Ground
<1>7. Pointer'
  BY <1>1, <1>2, <1>3, <1>4, <1>5, <1>6 DEF Pointer, Private, Sending
<1>8. Words'
  BY <1>1, <1>2, <1>3, <1>4, <1>5, <1>6 DEF Words, Private, Dividing, Parking, Sending
<1>9. Registers'
  BY <1>1, <1>2, <1>3, <1>4, <1>5, <1>6 DEF Registers, Dividing, Parking, Left
<1>10. Division'
  BY <1>1, <1>2, <1>3, <1>4, <1>5, <1>6 DEF Division
<1>11. Traffic'
  BY <1>1, <1>2, <1>3, <1>4, <1>5, <1>6 DEF Traffic, Left
<1> QED BY <1>5, <1>3, <1>7, <1>8, <1>9, <1>10, <1>11 DEF IInv

\* The start of the third third is parked in slot 3.
LEMMA ParkThirdInv ==
  ASSUME IInv, ParkThird, UNCHANGED block
  PROVE  IInv'
<1>1. /\ pc = "third" /\ pc' = "second" /\ x' = x /\ y' = y
      /\ a' = (y + At(1) + At(1)) % Word /\ Push(a')
  BY DEF ParkThird, Goto
<1>2. /\ s = PRIVATE_STACK - 6 /\ y = source /\ CallerWord = length
      /\ Slot(0) = CALLER - 2 /\ Slot(1) = length /\ Slot(2) = Handshakes
  BY <1>1 DEF IInv, Pointer, Words, Registers, Private, Dividing, Parking, Sending
<1>3. BlockInv' /\ length' = length /\ source' = source /\ Handshakes' = Handshakes
      /\ Value' = Value /\ LastTerm' = LastTerm
  BY SameBlock DEF IInv
<1>4. At(1) = Handshakes /\ s = PRIVATE_STACK - 2 * 3
  BY <1>2, Ground, Operand
<1>5. a' = source + 2 * Handshakes /\ a' \in Nat
  <2> DEFINE n == Handshakes
             v == Value
  <2>1. /\ n \in Nat /\ source \in Nat /\ v \in Nat
        /\ 3 * n <= v /\ source + v < Word
    BY Block DEF IInv
  <2>2. a' = (source + 2 * n) % Word
    BY <1>1, <1>2, <1>4, <2>1
  <2> HIDE DEF n, v
  <2>3. source + 2 * n \in Nat /\ source + 2 * n < Word
    BY <2>1 DEF Word
  <2>4. a' = source + 2 * n /\ a' \in Nat
    BY <2>2, <2>3, Fits
  <2> QED BY <2>4 DEF n
<1>6. /\ MemOK' /\ Untouched' /\ s' = PRIVATE_STACK - 2 * 3 - 2 /\ Slot(3)' = a'
      /\ \A i \in 0 .. 5 : i # 3 => Slot(i)' = Slot(i)
      /\ CallerWord' = CallerWord
  BY <1>1, <1>4, <1>5, PushSlot DEF IInv
<1>7. s' = PRIVATE_STACK - 8
  BY <1>6, Ground
<1>8. Pointer'
  BY <1>1, <1>2, <1>3, <1>5, <1>6, <1>7 DEF Pointer, Private, Sending
<1>9. Words'
  BY <1>1, <1>2, <1>3, <1>5, <1>6, <1>7 DEF Words, Private, Dividing, Parking, Sending
<1>10. Registers'
  BY <1>1, <1>2, <1>3, <1>5, <1>6, <1>7 DEF Registers, Dividing, Parking, Left
<1>11. Division'
  BY <1>1, <1>2, <1>3, <1>5, <1>6, <1>7 DEF Division
<1>12. Traffic'
  BY <1>1, <1>2, <1>3, <1>5, <1>6, <1>7 DEF Traffic, Left
<1> QED BY <1>6, <1>3, <1>8, <1>9, <1>10, <1>11, <1>12 DEF IInv

\* The start of the second third is parked in slot 4.
LEMMA ParkSecondInv ==
  ASSUME IInv, ParkSecond, UNCHANGED block
  PROVE  IInv'
<1>1. /\ pc = "second" /\ pc' = "first" /\ x' = x /\ y' = y
      /\ a' = (y + At(3)) % Word /\ Push(a')
  BY DEF ParkSecond, Goto
<1>2. /\ s = PRIVATE_STACK - 8 /\ y = source /\ CallerWord = length
      /\ Slot(0) = CALLER - 2 /\ Slot(1) = length /\ Slot(2) = Handshakes
      /\ Slot(3) = source + 2 * Handshakes
  BY <1>1 DEF IInv, Pointer, Words, Registers, Private, Dividing, Parking, Sending
<1>3. BlockInv' /\ length' = length /\ source' = source /\ Handshakes' = Handshakes
      /\ Value' = Value /\ LastTerm' = LastTerm
  BY SameBlock DEF IInv
<1>4. At(3) = Handshakes /\ s = PRIVATE_STACK - 2 * 4
  BY <1>2, Ground, Operand
<1>5. a' = source + Handshakes /\ a' \in Nat
  <2> DEFINE n == Handshakes
             v == Value
  <2>1. /\ n \in Nat /\ source \in Nat /\ v \in Nat
        /\ 3 * n <= v /\ source + v < Word
    BY Block DEF IInv
  <2>2. a' = (source + n) % Word
    BY <1>1, <1>2, <1>4, <2>1
  <2> HIDE DEF n, v
  <2>3. source + n \in Nat /\ source + n < Word
    BY <2>1 DEF Word
  <2>4. a' = source + n /\ a' \in Nat
    BY <2>2, <2>3, Fits
  <2> QED BY <2>4 DEF n
<1>6. /\ MemOK' /\ Untouched' /\ s' = PRIVATE_STACK - 2 * 4 - 2 /\ Slot(4)' = a'
      /\ \A i \in 0 .. 5 : i # 4 => Slot(i)' = Slot(i)
      /\ CallerWord' = CallerWord
  BY <1>1, <1>4, <1>5, PushSlot DEF IInv
<1>7. s' = PRIVATE_STACK - 10
  BY <1>6, Ground
<1>8. Pointer'
  BY <1>1, <1>2, <1>3, <1>5, <1>6, <1>7 DEF Pointer, Private, Sending
<1>9. Words'
  BY <1>1, <1>2, <1>3, <1>5, <1>6, <1>7 DEF Words, Private, Dividing, Parking, Sending
<1>10. Registers'
  BY <1>1, <1>2, <1>3, <1>5, <1>6, <1>7 DEF Registers, Dividing, Parking, Left
<1>11. Division'
  BY <1>1, <1>2, <1>3, <1>5, <1>6, <1>7 DEF Division
<1>12. Traffic'
  BY <1>1, <1>2, <1>3, <1>5, <1>6, <1>7 DEF Traffic, Left
<1> QED BY <1>6, <1>3, <1>8, <1>9, <1>10, <1>11, <1>12 DEF IInv

\* The block's start is parked in slot 5.
LEMMA ParkFirstInv ==
  ASSUME IInv, ParkFirst, UNCHANGED block
  PROVE  IInv'
<1>1. /\ pc = "first" /\ pc' = "open"
      /\ a' = a /\ x' = x /\ y' = y /\ Push(y)
  BY DEF ParkFirst, Goto
<1>2. /\ s = PRIVATE_STACK - 10 /\ y = source /\ CallerWord = length
      /\ Slot(0) = CALLER - 2 /\ Slot(1) = length /\ Slot(2) = Handshakes
      /\ Slot(3) = source + 2 * Handshakes /\ Slot(4) = source + Handshakes
  BY <1>1 DEF IInv, Pointer, Words, Registers, Division, Private, Dividing, Parking, Sending
<1>3. BlockInv' /\ length' = length /\ source' = source /\ Handshakes' = Handshakes
      /\ Value' = Value /\ LastTerm' = LastTerm
  BY SameBlock DEF IInv
<1>4. y \in Nat /\ s = PRIVATE_STACK - 2 * 5
  BY <1>1, <1>2, Ground, Block DEF IInv
<1>5. /\ MemOK' /\ Untouched' /\ s' = PRIVATE_STACK - 2 * 5 - 2 /\ Slot(5)' = y
      /\ \A i \in 0 .. 5 : i # 5 => Slot(i)' = Slot(i)
      /\ CallerWord' = CallerWord
  BY <1>1, <1>2, <1>4, PushSlot DEF IInv
<1>6. s' = PRIVATE_STACK - 12
  BY <1>5, Ground
<1>7. Pointer'
  BY <1>1, <1>2, <1>3, <1>4, <1>5, <1>6 DEF Pointer, Private, Sending
<1>8. Words'
  BY <1>1, <1>2, <1>3, <1>4, <1>5, <1>6 DEF Words, Private, Dividing, Parking, Sending
<1>9. Registers'
  BY <1>1, <1>2, <1>3, <1>4, <1>5, <1>6 DEF Registers, Dividing, Parking, Left
<1>10. Division'
  BY <1>1, <1>2, <1>3, <1>4, <1>5, <1>6 DEF Division
<1>11. Traffic'
  BY <1>1, <1>2, <1>3, <1>4, <1>5, <1>6 DEF Traffic, Left
<1> QED BY <1>5, <1>3, <1>7, <1>8, <1>9, <1>10, <1>11 DEF IInv

\* N goes out.
LEMMA OpenInv ==
  ASSUME IInv, Open, UNCHANGED block
  PROVE  IInv'
<1>1. /\ pc = "open" /\ pc' = "count down" /\ mem' = mem
      /\ x' = x /\ y' = y /\ s' = s /\ fetched' = fetched
      /\ posted' = At(7)
  BY DEF Open, Goto, NoStack, Pull
<1>2. /\ s = PRIVATE_STACK - 12 /\ CallerWord = length
      /\ Slot(0) = CALLER - 2 /\ Slot(1) = length /\ Slot(2) = Handshakes
      /\ Slot(3) = source + 2 * Handshakes /\ Slot(4) = source + Handshakes /\ Slot(5) = source
  BY <1>1 DEF IInv, Pointer, Words, Registers, Private, Dividing, Parking, Sending
<1>3. /\ MemOK' /\ Untouched' /\ CallerWord' = CallerWord
      /\ Slot(0)' = Slot(0) /\ Slot(1)' = Slot(1) /\ Slot(2)' = Slot(2)
      /\ Slot(3)' = Slot(3) /\ Slot(4)' = Slot(4) /\ Slot(5)' = Slot(5)
  BY <1>1, SameMem DEF IInv
<1>4. BlockInv' /\ length' = length /\ source' = source /\ Handshakes' = Handshakes
      /\ Value' = Value /\ LastTerm' = LastTerm
  BY SameBlock DEF IInv
<1>5. posted' = Handshakes
  BY <1>1, <1>2, Operands
<1>6. Pointer'
  BY <1>1, <1>2, <1>3, <1>4, <1>5 DEF Pointer, Private, Sending
<1>7. Words'
  BY <1>1, <1>2, <1>3, <1>4, <1>5 DEF Words, Private, Dividing, Parking, Sending
<1>8. Registers'
  BY <1>1, <1>2, <1>3, <1>4, <1>5 DEF Registers, Dividing, Parking, Left
<1>9. Division'
  BY <1>1, <1>2, <1>3, <1>4, <1>5 DEF Division
<1>10. Traffic'
  BY <1>1, <1>2, <1>3, <1>4, <1>5 DEF Traffic, Left
<1> QED BY <1>3, <1>4, <1>6, <1>7, <1>8, <1>9, <1>10 DEF IInv

\* The counters are set up from the parked N.
LEMMA CountDownInv ==
  ASSUME IInv, CountDown, UNCHANGED block
  PROVE  IInv'
<1>1. /\ pc = "count down" /\ pc' = "handshake" /\ mem' = mem
      /\ s' = s /\ posted' = posted /\ fetched' = fetched
      /\ x' = At(7) /\ a' = At(7) /\ y' = 0
  BY DEF CountDown, Goto, NoStack, Pull
<1>2. /\ s = PRIVATE_STACK - 12 /\ CallerWord = length
      /\ Slot(0) = CALLER - 2 /\ Slot(1) = length /\ Slot(2) = Handshakes
      /\ Slot(3) = source + 2 * Handshakes /\ Slot(4) = source + Handshakes /\ Slot(5) = source
      /\ posted = Handshakes
  BY <1>1 DEF IInv, Pointer, Words, Registers, Traffic, Private, Dividing, Parking, Sending
<1>3. /\ MemOK' /\ Untouched' /\ CallerWord' = CallerWord
      /\ Slot(0)' = Slot(0) /\ Slot(1)' = Slot(1) /\ Slot(2)' = Slot(2)
      /\ Slot(3)' = Slot(3) /\ Slot(4)' = Slot(4) /\ Slot(5)' = Slot(5)
  BY <1>1, SameMem DEF IInv
<1>4. BlockInv' /\ length' = length /\ source' = source /\ Handshakes' = Handshakes
      /\ Value' = Value /\ LastTerm' = LastTerm
  BY SameBlock DEF IInv
<1>5. /\ y' \in Nat /\ x' = Handshakes' - y' /\ x' > 0 /\ ~(y' > 0)
      /\ posted' = Handshakes'
  <2>1. Handshakes \in Nat /\ 1 <= Handshakes /\ Handshakes = Handshakes - 0
    BY Block DEF IInv
  <2>2. x' = Handshakes
    BY <1>1, <1>2, Operands
  <2>3. x' > 0 /\ x' = Handshakes - 0
    BY <2>1, <2>2
  <2>4. y' \in Nat /\ ~(y' > 0)
    <3> DEFINE z == y'
    <3>1. z = 0
      BY <1>1
    <3> HIDE DEF z
    <3>2. z \in Nat /\ ~(z > 0)
      BY <3>1
    <3> QED BY <3>2 DEF z
  <2>5. x' = Handshakes' - y'
    BY <1>1, <1>4, <2>3
  <2>6. posted' = Handshakes'
    BY <1>1, <1>2, <1>4
  <2> QED BY <2>3, <2>4, <2>5, <2>6
<1>6. Pointer'
  BY <1>1, <1>2, <1>3, <1>4, <1>5 DEF Pointer, Private, Sending
<1>7. Words'
  BY <1>1, <1>2, <1>3, <1>4, <1>5 DEF Words, Private, Dividing, Parking, Sending
<1>8. Registers'
  BY <1>1, <1>2, <1>3, <1>4, <1>5 DEF Registers, Dividing, Parking, Left
<1>9. Division'
  BY <1>1, <1>2, <1>3, <1>4, <1>5 DEF Division
<1>10. Traffic'
  BY <1>1, <1>5 DEF Traffic, Left
<1> QED BY <1>3, <1>4, <1>6, <1>7, <1>8, <1>9, <1>10 DEF IInv

\* A handshake reads one byte of each third.
LEMMA HandshakeInv ==
  ASSUME IInv, Handshake, UNCHANGED block
  PROVE  IInv'
<1>1. /\ pc = "handshake" /\ pc' = IF x = 1 THEN "sent" ELSE "handshake"
      /\ mem' = mem /\ s' = s /\ posted' = posted
      /\ fetched' = <<At(1) + y, At(3) + y, At(5) + y>>
      /\ y' = y + 1 /\ x' = x - 1
  BY DEF Handshake, Goto, NoStack
<1>2. /\ s = PRIVATE_STACK - 12 /\ CallerWord = length
      /\ Slot(0) = CALLER - 2 /\ Slot(1) = length /\ Slot(2) = Handshakes
      /\ Slot(3) = source + 2 * Handshakes /\ Slot(4) = source + Handshakes /\ Slot(5) = source
      /\ posted = Handshakes /\ y \in Nat /\ x = Handshakes - y /\ x > 0
  BY <1>1 DEF IInv, Pointer, Words, Traffic, Private, Dividing, Parking, Sending
<1>3. /\ MemOK' /\ Untouched' /\ CallerWord' = CallerWord
      /\ Slot(0)' = Slot(0) /\ Slot(1)' = Slot(1) /\ Slot(2)' = Slot(2)
      /\ Slot(3)' = Slot(3) /\ Slot(4)' = Slot(4) /\ Slot(5)' = Slot(5)
  BY <1>1, SameMem DEF IInv
<1>4. BlockInv' /\ length' = length /\ source' = source /\ Handshakes' = Handshakes
      /\ Value' = Value /\ LastTerm' = LastTerm
  BY SameBlock DEF IInv
<1>5. /\ fetched' = <<source + y, source + Handshakes + y, source + 2 * Handshakes + y>>
      /\ Handshakes \in Nat /\ source \in Nat
  <2>1. At(1) = Slot(5) /\ At(3) = Slot(4) /\ At(5) = Slot(3)
    BY <1>2, Operands
  <2>2. Handshakes \in Nat /\ source \in Nat
    BY Block DEF IInv
  <2> QED BY <1>1, <1>2, <2>1, <2>2
<1>6. Pointer'
  BY <1>1, <1>2 DEF Pointer, Private, Sending
<1>7. Words'
  BY <1>1, <1>2, <1>3, <1>4 DEF Words, Private, Dividing, Parking, Sending
<1>8. Registers' /\ Division'
  BY <1>1 DEF Registers, Division, Dividing, Parking, Left
<1>9. Traffic'
  <2>1. posted' = Handshakes'
    BY <1>1, <1>2, <1>4
  <2>2. y + 1 \in Nat /\ x - 1 = Handshakes - (y + 1) /\ (x # 1 => x - 1 > 0)
    BY <1>2, <1>5
  <2>3. pc' = "handshake" => y' \in Nat /\ x' = Handshakes' - y' /\ x' > 0
    BY <1>1, <1>4, <2>2
  <2>4. fetched' = <<source' + y' - 1, source' + Handshakes' + y' - 1,
                     source' + 2 * Handshakes' + y' - 1>>
    <3>1. /\ source + (y + 1) - 1 = source + y
          /\ source + Handshakes + (y + 1) - 1 = source + Handshakes + y
          /\ source + 2 * Handshakes + (y + 1) - 1 = source + 2 * Handshakes + y
      BY <1>2, <1>5
    <3> QED BY <1>1, <1>4, <1>5, <3>1
  <2> QED BY <1>1, <2>1, <2>3, <2>4 DEF Traffic, Left
<1> QED BY <1>3, <1>4, <1>6, <1>7, <1>8, <1>9 DEF IInv

\* Y is moved behind the block.
LEMMA SentInv ==
  ASSUME IInv, Sent, UNCHANGED block
  PROVE  IInv'
<1>1. /\ pc = "sent" /\ pc' = "unwind" /\ mem' = mem
      /\ s' = s /\ posted' = posted /\ fetched' = fetched
      /\ y' = (At(1) + At(9)) % Word /\ x' = At(7)
  BY DEF Sent, Goto, NoStack, Pull
<1>2. /\ s = PRIVATE_STACK - 12 /\ CallerWord = length
      /\ Slot(0) = CALLER - 2 /\ Slot(1) = length /\ Slot(2) = Handshakes
      /\ Slot(3) = source + 2 * Handshakes /\ Slot(4) = source + Handshakes /\ Slot(5) = source
      /\ posted = Handshakes
  BY <1>1 DEF IInv, Pointer, Words, Registers, Traffic, Private, Dividing, Parking, Sending
<1>3. /\ MemOK' /\ Untouched' /\ CallerWord' = CallerWord
      /\ Slot(0)' = Slot(0) /\ Slot(1)' = Slot(1) /\ Slot(2)' = Slot(2)
      /\ Slot(3)' = Slot(3) /\ Slot(4)' = Slot(4) /\ Slot(5)' = Slot(5)
  BY <1>1, SameMem DEF IInv
<1>4. BlockInv' /\ length' = length /\ source' = source /\ Handshakes' = Handshakes
      /\ Value' = Value /\ LastTerm' = LastTerm
  BY SameBlock DEF IInv
<1>5. x' = Handshakes /\ y' = source + length
  <2>1. At(1) = source /\ At(7) = Handshakes /\ At(9) = length
    BY <1>2, Operands
  <2>2. source + length \in Nat /\ source + length < Word
    BY Block DEF IInv, Word
  <2> QED BY <1>1, <2>1, <2>2, Fits
<1>6. Pointer'
  BY <1>1, <1>2, <1>3, <1>4, <1>5 DEF Pointer, Private, Sending
<1>7. Words'
  BY <1>1, <1>2, <1>3, <1>4, <1>5 DEF Words, Private, Dividing, Parking, Sending
<1>8. Registers'
  BY <1>1, <1>2, <1>3, <1>4, <1>5 DEF Registers, Dividing, Parking, Left
<1>9. Division'
  BY <1>1, <1>2, <1>3, <1>4, <1>5 DEF Division
<1>10. Traffic'
  BY <1>1, <1>2, <1>3, <1>4, <1>5 DEF Traffic, Left
<1> QED BY <1>3, <1>4, <1>6, <1>7, <1>8, <1>9, <1>10 DEF IInv

\* Five words are taken off the private stack.
LEMMA UnwindInv ==
  ASSUME IInv, Unwind, UNCHANGED block
  PROVE  IInv'
<1>1. /\ pc = "unwind" /\ pc' = "tcs" /\ mem' = mem
      /\ x' = x /\ y' = y /\ posted' = posted /\ fetched' = fetched
      /\ s' = s + 2 * 5
  BY DEF Unwind, Goto, NoStack, Pull
<1>2. /\ s = PRIVATE_STACK - 12 /\ CallerWord = length
      /\ Slot(0) = CALLER - 2 /\ Slot(1) = length /\ Slot(2) = Handshakes
      /\ Slot(3) = source + 2 * Handshakes /\ Slot(4) = source + Handshakes /\ Slot(5) = source
      /\ posted = Handshakes /\ x = Handshakes /\ y = source + length
  BY <1>1 DEF IInv, Pointer, Words, Registers, Traffic, Left, Private, Dividing, Parking, Sending
<1>3. /\ MemOK' /\ Untouched' /\ CallerWord' = CallerWord
      /\ Slot(0)' = Slot(0) /\ Slot(1)' = Slot(1) /\ Slot(2)' = Slot(2)
      /\ Slot(3)' = Slot(3) /\ Slot(4)' = Slot(4) /\ Slot(5)' = Slot(5)
  BY <1>1, SameMem DEF IInv
<1>4. BlockInv' /\ length' = length /\ source' = source /\ Handshakes' = Handshakes
      /\ Value' = Value /\ LastTerm' = LastTerm
  BY SameBlock DEF IInv
<1>5. s' = PRIVATE_STACK - 2
  BY <1>1, <1>2, Ground
<1>6. Pointer'
  BY <1>1, <1>2, <1>3, <1>4, <1>5 DEF Pointer, Private, Sending
<1>7. Words'
  BY <1>1, <1>2, <1>3, <1>4, <1>5 DEF Words, Private, Dividing, Parking, Sending
<1>8. Registers'
  BY <1>1, <1>2, <1>3, <1>4, <1>5 DEF Registers, Dividing, Parking, Left
<1>9. Division'
  BY <1>1, <1>2, <1>3, <1>4, <1>5 DEF Division
<1>10. Traffic'
  BY <1>1, <1>2, <1>3, <1>4, <1>5 DEF Traffic, Left
<1> QED BY <1>3, <1>4, <1>6, <1>7, <1>8, <1>9, <1>10 DEF IInv

\* The parked pointer brings back the caller's stack.
LEMMA TcsInv ==
  ASSUME IInv, Tcs, UNCHANGED block
  PROVE  IInv'
<1>1. /\ pc = "tcs" /\ pc' = "drop" /\ mem' = mem
      /\ x' = x /\ y' = y /\ posted' = posted /\ fetched' = fetched
      /\ s' = At(1)
  BY DEF Tcs, Goto, NoStack, Pull
<1>2. /\ s = PRIVATE_STACK - 2 /\ Slot(0) = CALLER - 2
      /\ posted = Handshakes /\ x = Handshakes /\ y = source + length
  BY <1>1 DEF IInv, Pointer, Words, Registers, Traffic, Left, Private, Dividing, Parking, Sending
<1>3. /\ MemOK' /\ Untouched' /\ CallerWord' = CallerWord
      /\ Slot(0)' = Slot(0) /\ Slot(1)' = Slot(1) /\ Slot(2)' = Slot(2)
      /\ Slot(3)' = Slot(3) /\ Slot(4)' = Slot(4) /\ Slot(5)' = Slot(5)
  BY <1>1, SameMem DEF IInv
<1>4. BlockInv' /\ length' = length /\ source' = source /\ Handshakes' = Handshakes
      /\ Value' = Value /\ LastTerm' = LastTerm
  BY SameBlock DEF IInv
<1>5. s' = CALLER - 2
  BY <1>1, <1>2, Ground, Operand
<1>6. Pointer'
  BY <1>1, <1>2, <1>3, <1>4, <1>5 DEF Pointer, Private, Sending
<1>7. Words'
  BY <1>1, <1>2, <1>3, <1>4, <1>5 DEF Words, Private, Dividing, Parking, Sending
<1>8. Registers'
  BY <1>1, <1>2, <1>3, <1>4, <1>5 DEF Registers, Dividing, Parking, Left
<1>9. Division'
  BY <1>1, <1>2, <1>3, <1>4, <1>5 DEF Division
<1>10. Traffic'
  BY <1>1, <1>2, <1>3, <1>4, <1>5 DEF Traffic, Left
<1> QED BY <1>3, <1>4, <1>6, <1>7, <1>8, <1>9, <1>10 DEF IInv

\* The length comes off the caller's stack.
LEMMA DropLengthInv ==
  ASSUME IInv, DropLength, UNCHANGED block
  PROVE  IInv'
<1>1. /\ pc = "drop" /\ pc' = "resume" /\ mem' = mem
      /\ x' = x /\ y' = y /\ posted' = posted /\ fetched' = fetched
      /\ s' = s + 2 * 1 /\ a' = x
  BY DEF DropLength, Goto, NoStack, Pull
<1>2. /\ s = CALLER - 2 /\ posted = Handshakes /\ x = Handshakes /\ y = source + length
  BY <1>1 DEF IInv, Pointer, Words, Registers, Traffic, Left, Private, Dividing, Parking, Sending
<1>3. /\ MemOK' /\ Untouched' /\ CallerWord' = CallerWord
      /\ Slot(0)' = Slot(0) /\ Slot(1)' = Slot(1) /\ Slot(2)' = Slot(2)
      /\ Slot(3)' = Slot(3) /\ Slot(4)' = Slot(4) /\ Slot(5)' = Slot(5)
  BY <1>1, SameMem DEF IInv
<1>4. BlockInv' /\ length' = length /\ source' = source /\ Handshakes' = Handshakes
      /\ Value' = Value /\ LastTerm' = LastTerm
  BY SameBlock DEF IInv
<1>5. s' = CALLER
  BY <1>1, <1>2, Ground
<1>6. Pointer'
  BY <1>1, <1>2, <1>3, <1>4, <1>5 DEF Pointer, Private, Sending
<1>7. Words'
  BY <1>1, <1>2, <1>3, <1>4, <1>5 DEF Words, Private, Dividing, Parking, Sending
<1>8. Registers'
  BY <1>1, <1>2, <1>3, <1>4, <1>5 DEF Registers, Dividing, Parking, Left
<1>9. Division'
  BY <1>1, <1>2, <1>3, <1>4, <1>5 DEF Division
<1>10. Traffic'
  BY <1>1, <1>2, <1>3, <1>4, <1>5 DEF Traffic, Left
<1> QED BY <1>3, <1>4, <1>6, <1>7, <1>8, <1>9, <1>10 DEF IInv

-----------------------------------------------------------------------------
\* Every step of the routine and every interrupt preserves the invariant.
LEMMA NextInv == IInv /\ [Next]_vars => IInv'
<1> SUFFICES ASSUME IInv, [Next]_vars PROVE IInv'
  OBVIOUS
<1>1. CASE UNCHANGED vars
  <2>1. /\ pc' = pc /\ a' = a /\ x' = x /\ y' = y /\ s' = s /\ mem' = mem
        /\ fetched' = fetched /\ posted' = posted /\ UNCHANGED block
    BY <1>1 DEF vars, regs
  <2>2. /\ BlockInv' /\ length' = length /\ source' = source
        /\ Handshakes' = Handshakes /\ Value' = Value /\ LastTerm' = LastTerm
    BY <2>1, SameBlock DEF IInv
  <2>3. /\ MemOK' /\ Untouched' /\ CallerWord' = CallerWord
        /\ Slot(0)' = Slot(0) /\ Slot(1)' = Slot(1) /\ Slot(2)' = Slot(2)
        /\ Slot(3)' = Slot(3) /\ Slot(4)' = Slot(4) /\ Slot(5)' = Slot(5)
    BY <2>1, SameMem DEF IInv
  <2>4. Pointer'
    BY <2>1 DEF IInv, Pointer
  <2>5. Words'
    BY <2>1, <2>2, <2>3 DEF IInv, Words
  <2>6. Registers'
    BY <2>1, <2>2 DEF IInv, Registers
  <2>7. Division'
    BY <2>1, <2>2, <2>3 DEF IInv, Division, Quartered, QuarteredOnce
  <2>8. Traffic'
    BY <2>1, <2>2 DEF IInv, Traffic
  <2> QED BY <2>2, <2>3, <2>4, <2>5, <2>6, <2>7, <2>8 DEF IInv
<1>2. CASE Step
  <2>1. UNCHANGED block /\ Instruction
    BY <1>2 DEF Step
  <2> QED
    BY <2>1, PushLengthInv, TscInv, TxsInv, ParkPointerInv, ReadLengthInv, ParkLengthInv,
       CallThirdInv, PushValueInv, PushQuotientInv, PushTermInv, AddTermInv, CorrectInv,
       ExactInv, ReturnThirdInv, ParkCountInv, ParkThirdInv, ParkSecondInv, ParkFirstInv,
       OpenInv, CountDownInv, HandshakeInv, SentInv, UnwindInv, TcsInv, DropLengthInv
    DEF Instruction
<1>3. CASE \E k \in Frames : Interrupt(k)
  BY <1>3, InterruptInv
<1> QED BY <1>1, <1>2, <1>3 DEF Next

LEMMA Invariance == Spec => []IInv
BY InitInv, NextInv, PTL DEF Spec

\* N goes out rounded up, and each handshake reads one byte of each third,
\* whatever interrupts wrote below the pointer.
THEOREM EveryThirdIsRead == Spec => []ReadsItsThirds
<1>1. IInv => ReadsItsThirds
  BY DEF IInv, Traffic, ReadsItsThirds, Left
<1> QED BY Invariance, <1>1, PTL

\* The caller's stack comes back as it was, with Y behind the block.
THEOREM CallerIsRestored == Spec => []CallerGetsItsOwn
<1>1. IInv => CallerGetsItsOwn
  BY DEF IInv, Pointer, Registers, Untouched, CallerGetsItsOwn, Private, Left
<1> QED BY Invariance, <1>1, PTL

\* The neighbouring task's state and the game's variables around the private
\* stack are never written, for frames that fit twice over: with the stock
\* path's four bytes in the caller's room (StockFitsAssumption), and with the
\* routine's twelve above the variables (FrameFitsAssumption, which is about
\* the game's handler and which the source's own count does not give).
THEOREM NothingElseIsWritten == Spec => []OthersUntouched
<1>1. IInv => OthersUntouched
  BY DEF IInv, Untouched, OthersUntouched
<1> QED BY Invariance, <1>1, PTL

-----------------------------------------------------------------------------
(* The division on the stack implements CpuThird.                          *)

After ==
  pc \in {"exact", "return"} \union Parking \union Sending \union Left

\* What the mapping gives in each part of the routine.
Mapped ==
  /\ Before => /\ ThirdPc = "term" /\ ThirdQuotient = Value \div 4
               /\ ThirdTerm = Value \div 4 /\ ThirdLeft = 6
  /\ pc = "term" => /\ ThirdPc = "term" /\ ThirdQuotient = Slot(4)
                    /\ ThirdTerm = a /\ ThirdLeft = x
  /\ pc = "add" => /\ ThirdPc = IF x = 1 THEN "correct" ELSE "term"
                   /\ ThirdQuotient = (Slot(4) + a) % Word
                   /\ ThirdTerm = a /\ ThirdLeft = x - 1
  /\ pc = "correct" => /\ ThirdPc = "correct" /\ ThirdQuotient = Slot(4)
                       /\ ThirdTerm = LastTerm /\ ThirdLeft = 0
  /\ After => /\ ThirdPc = "exact" /\ ThirdQuotient = Handshakes
              /\ ThirdTerm = LastTerm /\ ThirdLeft = 0

LEMMA Mapping == IInv => Mapped
<1> SUFFICES ASSUME IInv PROVE Mapped
  OBVIOUS
<1>1. Pointer /\ Words /\ Registers /\ Division
  BY DEF IInv
<1>2. Before => /\ ThirdPc = "term" /\ ThirdQuotient = Value \div 4
                /\ ThirdTerm = Value \div 4 /\ ThirdLeft = 6
  <2> SUFFICES ASSUME Before
               PROVE  /\ ThirdPc = "term" /\ ThirdQuotient = Value \div 4
                      /\ ThirdTerm = Value \div 4 /\ ThirdLeft = 6
    OBVIOUS
  <2>1. pc \notin {"term", "add", "correct", "exact", "return", "third", "second", "first"}
        /\ pc \notin {"count", "open", "count down", "handshake", "sent", "unwind"}
    BY DEF Before
  <2>2. ThirdPc = "term"
    BY <2>1 DEF ThirdPc
  <2>3. ThirdQuotient = Value \div 4
    BY <2>1 DEF ThirdQuotient
  <2>4. ThirdTerm = Value \div 4 /\ ThirdLeft = 6
    BY <2>1 DEF ThirdTerm, ThirdLeft
  <2> QED BY <2>2, <2>3, <2>4
<1>3. pc = "term" => /\ ThirdPc = "term" /\ ThirdQuotient = Slot(4)
                     /\ ThirdTerm = a /\ ThirdLeft = x
  <2> SUFFICES ASSUME pc = "term"
               PROVE  /\ ThirdPc = "term" /\ ThirdQuotient = Slot(4)
                      /\ ThirdTerm = a /\ ThirdLeft = x
    OBVIOUS
  <2>1. At(1) = Slot(4)
    BY <1>1, Ground, Operand DEF Pointer
  <2> QED BY <2>1 DEF ThirdPc, ThirdQuotient, ThirdTerm, ThirdLeft, Before, InSeries
<1>4. pc = "add" => /\ ThirdPc = IF x = 1 THEN "correct" ELSE "term"
                    /\ ThirdQuotient = (Slot(4) + a) % Word
                    /\ ThirdTerm = a /\ ThirdLeft = x - 1
  <2> SUFFICES ASSUME pc = "add"
               PROVE  /\ ThirdPc = IF x = 1 THEN "correct" ELSE "term"
                      /\ ThirdQuotient = (Slot(4) + a) % Word
                      /\ ThirdTerm = a /\ ThirdLeft = x - 1
    OBVIOUS
  <2>1. At(3) = Slot(4)
    BY <1>1, Operands DEF Pointer
  <2>2. ~Before /\ InSeries
    BY DEF Before, InSeries
  <2>3. ThirdPc = IF x = 1 THEN "correct" ELSE "term"
    <3>1. CASE x = 1
      BY <2>2, <3>1 DEF ThirdPc
    <3>2. CASE x # 1
      BY <2>2, <3>2 DEF ThirdPc
    <3> QED BY <3>1, <3>2
  <2>4. ThirdQuotient = (Slot(4) + a) % Word
    BY <2>1, <2>2 DEF ThirdQuotient
  <2>5. ThirdTerm = a /\ ThirdLeft = x - 1
    BY <2>2 DEF ThirdTerm, ThirdLeft
  <2> QED BY <2>3, <2>4, <2>5
<1>5. pc = "correct" => /\ ThirdPc = "correct" /\ ThirdQuotient = Slot(4)
                        /\ ThirdTerm = LastTerm /\ ThirdLeft = 0
  <2> SUFFICES ASSUME pc = "correct"
               PROVE  /\ ThirdPc = "correct" /\ ThirdQuotient = Slot(4)
                      /\ ThirdTerm = LastTerm /\ ThirdLeft = 0
    OBVIOUS
  <2>1. At(1) = Slot(4)
    BY <1>1, Ground, Operand DEF Pointer
  <2> QED BY <2>1 DEF ThirdPc, ThirdQuotient, ThirdTerm, ThirdLeft, Before, InSeries
<1>6. After => /\ ThirdPc = "exact" /\ ThirdQuotient = Handshakes
               /\ ThirdTerm = LastTerm /\ ThirdLeft = 0
  <2> SUFFICES ASSUME After
               PROVE  /\ ThirdPc = "exact" /\ ThirdQuotient = Handshakes
                      /\ ThirdTerm = LastTerm /\ ThirdLeft = 0
    OBVIOUS
  <2>1. ThirdPc = "exact" /\ ThirdTerm = LastTerm /\ ThirdLeft = 0
    BY DEF After, Parking, Sending, Left, ThirdPc, ThirdTerm, ThirdLeft, Before, InSeries
  <2>2. CASE pc = "exact"
    <3>1. At(1) = Slot(4) /\ Slot(4) = Handshakes
      BY <1>1, <2>2, Ground, Operand DEF Pointer, Division
    <3> QED BY <2>1, <2>2, <3>1 DEF ThirdQuotient, Before
  <2>3. CASE pc \in {"return", "count"}
    <3>1. a = Handshakes
      BY <1>1, <2>3 DEF Registers
    <3> QED BY <2>1, <2>3, <3>1 DEF ThirdQuotient, Before
  <2>4. CASE pc = "third"
    <3>1. At(1) = Slot(2) /\ Slot(2) = Handshakes
      BY <1>1, <2>4, Ground, Operand DEF Pointer, Words
    <3> QED BY <2>1, <2>4, <3>1 DEF ThirdQuotient, Before
  <2>5. CASE pc = "second"
    <3>1. At(3) = Slot(2) /\ Slot(2) = Handshakes
      BY <1>1, <2>5, Ground, Operand DEF Pointer, Words
    <3> QED BY <2>1, <2>5, <3>1 DEF ThirdQuotient, Before
  <2>6. CASE pc = "first"
    <3>1. At(5) = Slot(2) /\ Slot(2) = Handshakes
      BY <1>1, <2>6, Ground, Operand DEF Pointer, Words
    <3> QED BY <2>1, <2>6, <3>1 DEF ThirdQuotient, Before
  <2>7. CASE pc \in Sending
    <3>1. At(7) = Slot(2) /\ Slot(2) = Handshakes
      BY <1>1, <2>7, Operands DEF Pointer, Words
    <3> QED BY <2>1, <2>7, <3>1 DEF ThirdQuotient, Before, Sending
  <2>8. CASE pc \in Left
    <3>1. x = Handshakes
      BY <1>1, <2>8 DEF Registers
    <3> QED BY <2>1, <2>8, <3>1 DEF ThirdQuotient, Before, Left
  <2> QED BY <2>2, <2>3, <2>4, <2>5, <2>6, <2>7, <2>8 DEF After, Parking
<1> QED BY <1>2, <1>3, <1>4, <1>5, <1>6 DEF Mapped

\* The routine starts before the division's first term.
LEMMA ThirdInit == Init => Third!Init
<1> SUFFICES ASSUME Init PROVE Third!Init
  OBVIOUS
<1>1. IInv
  BY InitInv
<1>2. Before
  BY DEF Init, Before
<1>3. Value \in 0 .. Word - 1
  <2>1. Value \in Nat /\ Value < Word
    BY <1>1, Block DEF IInv
  <2>2. Word \in Nat
    BY DEF Word
  <2> QED BY <2>1, <2>2
<1> QED BY <1>1, <1>2, <1>3, Mapping DEF Mapped, Third!Init

\* The first quarter is the quotient when the series begins.
LEMMA PushQuotientMaps ==
  ASSUME IInv, Mapped, Mapped', PushQuotient, UNCHANGED block
  PROVE  UNCHANGED Third!vars
<1>1. /\ pc = "quotient" /\ pc' = "term" /\ a' = a \div 4 /\ Push(a') /\ x' = 6
  BY DEF PushQuotient, Goto
<1>2. s = PRIVATE_STACK - 2 * 4 /\ a = Value /\ Value \in Nat
  BY <1>1, Ground, Block DEF IInv, Pointer, Registers
<1>3. Value' = Value
  BY SameBlock DEF IInv
<1>4. a' \in Nat
  BY <1>1, <1>2, Quarter
<1>5. Slot(4)' = a'
  BY <1>1, <1>2, <1>4, PushSlot DEF IInv
<1>6. Before
  BY <1>1 DEF Before
<1>7. /\ ThirdPc = "term" /\ ThirdQuotient = Value \div 4
      /\ ThirdTerm = Value \div 4 /\ ThirdLeft = 6
  BY <1>6 DEF Mapped
<1>8. ThirdPc' = "term" /\ ThirdQuotient' = Slot(4)' /\ ThirdTerm' = a' /\ ThirdLeft' = x'
  BY <1>1 DEF Mapped
<1> QED BY <1>1, <1>2, <1>3, <1>5, <1>7, <1>8 DEF Third!vars

\* A term of the series, taken and pushed, is CpuThird's.
LEMMA PushTermMaps ==
  ASSUME IInv, Mapped, Mapped', PushTerm, UNCHANGED block
  PROVE  Third!Term
<1>1. /\ pc = "term" /\ pc' = "add" /\ a' = a \div 4 /\ Push(a') /\ x' = x
  BY DEF PushTerm, Goto
<1>2. /\ s = PRIVATE_STACK - 2 * 5 /\ Value \in Nat /\ x \in 1 .. 6 /\ Quartered
  BY <1>1, Ground, Block DEF IInv, Pointer, Division
<1>3. Value' = Value
  BY SameBlock DEF IInv
<1>4. a \in Nat
  BY <1>2 DEF Quartered
<1>5. a' \in Nat
  BY <1>1, <1>4, Quarter
<1>6. Slot(4)' = Slot(4)
  BY <1>1, <1>2, <1>5, PushSlot DEF IInv
<1>7. ThirdPc = "term" /\ ThirdQuotient = Slot(4) /\ ThirdTerm = a /\ ThirdLeft = x
  BY <1>1 DEF Mapped
<1>8. /\ ThirdPc' = IF x' = 1 THEN "correct" ELSE "term"
      /\ ThirdQuotient' = (Slot(4)' + a') % Word
      /\ ThirdTerm' = a' /\ ThirdLeft' = x' - 1
  BY <1>1 DEF Mapped
<1>9. ThirdTerm' = Third!Quarter(ThirdTerm)
  BY <1>1, <1>7, <1>8 DEF Third!Quarter
<1>10. ThirdQuotient' = (ThirdQuotient + ThirdTerm') % Word
  BY <1>6, <1>7, <1>8
<1>11. ThirdLeft' = ThirdLeft - 1 /\ ThirdPc' = IF ThirdLeft = 1 THEN "correct" ELSE "term"
  BY <1>1, <1>7, <1>8
<1> QED BY <1>3, <1>7, <1>9, <1>10, <1>11 DEF Third!Term

\* Storing the sum is no step of the division.
LEMMA AddTermMaps ==
  ASSUME IInv, Mapped, Mapped', AddTerm, UNCHANGED block
  PROVE  UNCHANGED Third!vars
<1>1. /\ pc = "add" /\ pc' = IF x = 1 THEN "correct" ELSE "term"
      /\ mem' = Stored(s + 3, (a + At(3)) % Word)
      /\ a' = At(1) /\ x' = x - 1
  BY DEF AddTerm, Goto
<1>2. /\ s = PRIVATE_STACK - 12 /\ x \in 1 .. 6 /\ QuarteredOnce
      /\ Slot(5) = a
  BY <1>1 DEF IInv, Pointer, Division, Sending
<1>3. Value' = Value /\ LastTerm' = LastTerm
  BY SameBlock DEF IInv
<1>4. At(3) = Slot(4) /\ At(1) = Slot(5)
  BY <1>2, Operands
<1>5. Slot(4) \in Nat /\ Slot(5) \in Nat
  BY SlotTypes DEF IInv
<1> DEFINE sum == (Slot(4) + a) % Word
<1>6. sum \in Nat /\ (a + Slot(4)) % Word = sum
  <2> DEFINE q == Slot(4)
  <2>1. q \in Nat /\ a \in Nat
    BY <1>2, <1>5
  <2> HIDE DEF q
  <2>2. a + q = q + a /\ (q + a) % 65536 \in Nat
    BY <2>1
  <2>3. Word = 65536
    BY DEF Word
  <2> QED BY <2>2, <2>3 DEF q
<1>7. s + 3 = PRIVATE_STACK - 1 - 2 * 4
  BY <1>2, Ground
<1>8. mem' = Stored(PRIVATE_STACK - 1 - 2 * 4, sum)
  BY <1>1, <1>4, <1>6, <1>7
<1> HIDE DEF sum
<1>9. Slot(4)' = sum
  BY <1>6, <1>8, StoreSlot DEF IInv
<1>10. /\ ThirdPc = IF x = 1 THEN "correct" ELSE "term"
       /\ ThirdQuotient = sum /\ ThirdTerm = a /\ ThirdLeft = x - 1
  BY <1>1 DEF Mapped, sum
<1>11. CASE x = 1
  <2>1. /\ ThirdPc' = "correct" /\ ThirdQuotient' = Slot(4)'
        /\ ThirdTerm' = LastTerm' /\ ThirdLeft' = 0
    BY <1>1, <1>11 DEF Mapped
  <2>2. a = LastTerm
    BY <1>2, <1>11 DEF QuarteredOnce
  <2>3. x - 1 = 0
    BY <1>11
  <2> QED BY <1>3, <1>9, <1>10, <1>11, <2>1, <2>2, <2>3 DEF Third!vars
<1>12. CASE x # 1
  <2>1. ThirdPc' = "term" /\ ThirdQuotient' = Slot(4)' /\ ThirdTerm' = a' /\ ThirdLeft' = x'
    BY <1>1, <1>12 DEF Mapped
  <2> QED BY <1>1, <1>2, <1>3, <1>4, <1>9, <1>10, <1>12, <2>1 DEF Third!vars
<1> QED BY <1>11, <1>12

\* A pass of the correction is CpuThird's.
LEMMA CorrectMaps ==
  ASSUME IInv, IInv', Mapped, Mapped', Correct, UNCHANGED block
  PROVE  Third!Correct
<1>1. pc = "correct"
  BY DEF Correct
<1>2. /\ s = PRIVATE_STACK - 10 /\ Slot(3) = Value
  BY <1>1 DEF IInv, Pointer, Words
<1>3. Value' = Value /\ LastTerm' = LastTerm /\ Value \in Nat
  BY SameBlock, Block DEF IInv
<1>4. At(3) = Slot(3) /\ At(1) = Slot(4) /\ s + 1 = PRIVATE_STACK - 1 - 2 * 4
  BY <1>2, Ground, Operand
<1>5. Slot(4) \in Nat
  BY SlotTypes DEF IInv
<1>6. /\ ThirdPc = "correct" /\ ThirdQuotient = Slot(4)
      /\ ThirdTerm = LastTerm /\ ThirdLeft = 0
  BY <1>1 DEF Mapped
<1>7. Third!Remainder = Remainder /\ Remainder \in Nat
  <2>1. Third!Remainder = Remainder
    BY <1>2, <1>4, <1>6 DEF Third!Remainder, Remainder
  <2> DEFINE q == Slot(4)
             v == Value
  <2>2. Remainder = (v - 3 * q) % Word /\ v \in Nat /\ q \in Nat
    BY <1>2, <1>3, <1>4, <1>5 DEF Remainder
  <2> HIDE DEF q, v
  <2>3. v - 3 * q \in Int
    BY <2>2
  <2>4. (v - 3 * q) % 65536 \in Nat
    BY <2>3
  <2> QED BY <2>1, <2>2, <2>4 DEF Word
<1>8. CASE Remainder < 3
  <2>1. pc' = "exact" /\ mem' = mem
    BY <1>1, <1>8 DEF Correct
  <2>2. Slot(4)' = Slot(4)
    BY <2>1, SameMem DEF IInv
  <2>3. Slot(4)' = Handshakes'
    BY <2>1 DEF IInv, Division
  <2>4. /\ ThirdPc' = "exact" /\ ThirdQuotient' = Handshakes'
        /\ ThirdTerm' = LastTerm' /\ ThirdLeft' = 0
    BY <2>1 DEF Mapped, After
  <2> QED BY <1>3, <1>6, <1>7, <1>8, <2>2, <2>3, <2>4 DEF Third!Correct
<1>9. CASE ~(Remainder < 3)
  <2>1. pc' = "correct" /\ a' = (At(1) + 1) % Word /\ mem' = Stored(s + 1, a')
    BY <1>1, <1>9 DEF Correct
  <2> DEFINE next == (Slot(4) + 1) % Word
  <2>2. next \in Nat
    <3> DEFINE q == Slot(4)
    <3>1. q \in Nat
      BY <1>5
    <3> HIDE DEF q
    <3>2. (q + 1) % 65536 \in Nat
      BY <3>1
    <3> QED BY <3>2 DEF Word, q
  <2>3. mem' = Stored(PRIVATE_STACK - 1 - 2 * 4, next)
    BY <1>4, <2>1
  <2> HIDE DEF next
  <2>4. Slot(4)' = next
    BY <2>2, <2>3, StoreSlot DEF IInv
  <2>5. /\ ThirdPc' = "correct" /\ ThirdQuotient' = Slot(4)'
        /\ ThirdTerm' = LastTerm' /\ ThirdLeft' = 0
    BY <2>1 DEF Mapped
  <2>6. ThirdQuotient' = (ThirdQuotient + 1) % Word
    BY <1>6, <2>4, <2>5 DEF next
  <2>7. Third!Remainder >= 3
    BY <1>7, <1>9
  <2> QED BY <1>3, <1>6, <2>5, <2>6, <2>7 DEF Third!Correct
<1> QED BY <1>8, <1>9

\* An interrupt is no step of the division.
LEMMA InterruptMaps ==
  ASSUME IInv, Mapped, Mapped', NEW k \in Frames, Interrupt(k)
  PROVE  UNCHANGED Third!vars
<1>1. pc' = pc /\ a' = a /\ x' = x /\ UNCHANGED block
  BY DEF Interrupt, regs
<1>2. /\ Value' = Value /\ LastTerm' = LastTerm /\ Handshakes' = Handshakes
  BY <1>1, SameBlock DEF IInv
<1>3. pc \in {"term", "add", "correct"} => Slot(4)' = Slot(4)
  <2>1. CALLER < s /\ s <= PRIVATE_STACK - 2 * 4 - 2 => Slot(4)' = Slot(4)
    BY FrameLands
  <2>2. pc \in {"term", "add", "correct"} => CALLER < s /\ s <= PRIVATE_STACK - 10
    BY Below DEF IInv
  <2> QED BY <2>1, <2>2, Ground
<1>4. Before \/ pc \in {"term", "add", "correct"} \/ After
  BY DEF IInv, Pointer, Private, Before, After, Parking, Sending, Left
<1>5. (Before => Before') /\ (After => After')
  BY <1>1 DEF Before, After
<1>6. CASE Before
  BY <1>2, <1>5, <1>6 DEF Mapped, Third!vars
<1>7. CASE pc = "term"
  BY <1>1, <1>2, <1>3, <1>7 DEF Mapped, Third!vars
<1>8. CASE pc = "add"
  BY <1>1, <1>2, <1>3, <1>8 DEF Mapped, Third!vars
<1>9. CASE pc = "correct"
  BY <1>1, <1>2, <1>3, <1>9 DEF Mapped, Third!vars
<1>10. CASE After
  BY <1>2, <1>5, <1>10 DEF Mapped, Third!vars
<1> QED BY <1>4, <1>6, <1>7, <1>8, <1>9, <1>10

\* Nor is an instruction before the series or after the division.
LEMMA OutsideMaps ==
  ASSUME IInv, IInv', Mapped, Mapped', Instruction, UNCHANGED block,
         ~PushQuotient, ~PushTerm, ~AddTerm, ~Correct
  PROVE  UNCHANGED Third!vars
<1>1. /\ Value' = Value /\ LastTerm' = LastTerm /\ Handshakes' = Handshakes
  BY SameBlock DEF IInv
<1>2. (Before /\ Before') \/ (After /\ After')
  <2>1. CASE \/ PushLength \/ Tsc \/ Txs \/ ParkPointer \/ ReadLength
             \/ ParkLength \/ CallThird \/ PushValue
    BY <2>1 DEF PushLength, Tsc, Txs, ParkPointer, ReadLength, ParkLength, CallThird,
       PushValue, Goto, Before
  <2>2. CASE \/ Exact \/ ParkCount \/ ParkThird \/ ParkSecond \/ ParkFirst
    BY <2>2 DEF Exact, ParkCount, ParkThird, ParkSecond, ParkFirst, Goto, After,
       Parking, Sending
  <2>3. CASE ReturnThird
    <3>1. pc = "return" /\ pc' \in {"count", "lost"}
      BY <2>3 DEF ReturnThird, Goto
    <3>2. pc' # "lost"
      BY DEF IInv, Pointer, Private
    <3> QED BY <3>1, <3>2 DEF After, Parking
  <2>4. CASE \/ Open \/ CountDown \/ Handshake \/ Sent \/ Unwind \/ Tcs \/ DropLength
    BY <2>4 DEF Open, CountDown, Handshake, Sent, Unwind, Tcs, DropLength, Goto, After,
       Sending, Left
  <2> QED BY <2>1, <2>2, <2>3, <2>4 DEF Instruction
<1>3. CASE Before /\ Before'
  BY <1>1, <1>3 DEF Mapped, Third!vars
<1>4. CASE After /\ After'
  BY <1>1, <1>4 DEF Mapped, Third!vars
<1> QED BY <1>2, <1>3, <1>4

\* Every step is one of CpuThird's or changes nothing it sees.
LEMMA ThirdStep ==
  IInv /\ IInv' /\ Mapped /\ Mapped' /\ [Next]_vars => [Third!Next]_Third!vars
<1> SUFFICES ASSUME IInv, IInv', Mapped, Mapped', [Next]_vars
             PROVE  [Third!Next]_Third!vars
  OBVIOUS
<1>1. CASE UNCHANGED vars
  <2>1. /\ pc' = pc /\ a' = a /\ x' = x /\ s' = s /\ mem' = mem
        /\ length' = length /\ source' = source
    BY <1>1 DEF vars, regs, block
  <2>2. UNCHANGED Third!vars
    BY <2>1 DEF Third!vars, ThirdPc, ThirdQuotient, ThirdTerm, ThirdLeft, Value, LastTerm,
       Before, InSeries, At, WordAt
  <2> QED BY <2>2
<1>2. CASE Step
  <2>1. Instruction /\ UNCHANGED block
    BY <1>2 DEF Step
  <2>2. CASE PushQuotient
    BY <2>1, <2>2, PushQuotientMaps
  <2>3. CASE PushTerm
    BY <2>1, <2>3, PushTermMaps DEF Third!Next
  <2>4. CASE AddTerm
    BY <2>1, <2>4, AddTermMaps
  <2>5. CASE Correct
    BY <2>1, <2>5, CorrectMaps DEF Third!Next
  <2>6. CASE ~PushQuotient /\ ~PushTerm /\ ~AddTerm /\ ~Correct
    BY <2>1, <2>6, OutsideMaps
  <2> QED BY <2>2, <2>3, <2>4, <2>5, <2>6
<1>3. CASE \E k \in Frames : Interrupt(k)
  BY <1>3, InterruptMaps
<1> QED BY <1>1, <1>2, <1>3 DEF Next

\* cpu_third, carried out on the stack at its offsets, with interrupts between
\* any two of its instructions, is the division CpuThird describes.
THEOREM DividesOnTheStack == Spec => ThirdSpec
<1>1. Spec => []IInv
  BY Invariance
<1>2. Spec => [](IInv /\ Mapped)
  BY <1>1, Mapping, PTL
<1>3. (IInv /\ Mapped) /\ (IInv /\ Mapped)' /\ [Next]_vars => [Third!Next]_Third!vars
  BY ThirdStep
<1> QED BY <1>2, <1>3, ThirdInit, PTL DEF Spec, ThirdSpec, Third!Spec

=============================================================================
