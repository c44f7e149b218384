----------------------------- MODULE Translate -----------------------------
(***************************************************************************)
(* asm/sdd1-translate.asm: called where the game is about to start a DMA   *)
(* the S-DD1 would decompress, it looks the source up in the key table,    *)
(* replaces it by the stream's destination and makes the transfer an       *)
(* ordinary one.  The macro serves a fixed channel, sdd1_chy the channel   *)
(* in Y.  Bytes are 0 .. RADIX - 1, words two of them, so that what is     *)
(* pushed, pulled and addressed relative to the stack is a byte.  The table*)
(* is the one KeyTable builds, step by step, before the console runs: one  *)
(* slot for each word.                                                     *)
(***************************************************************************)
EXTENDS KeyTable

CONSTANTS
  RADIX,       \* values of a byte; 256
  WINDOW_BASE, \* the first window bank, $C0
  TABLE_BANK,  \* the bank of the key table, $60
  Channels,    \* the DMA channels hooked
  Destination(_), \* where the image has each of them
  Registers    \* what the caller may have in its registers

Word == 0 .. RADIX * RADIX - 1
Byte == 0 .. RADIX - 1
Lo(w) == w % RADIX
Hi(w) == w \div RADIX
Pair(hi, lo) == hi * RADIX + lo

\* What the gate computes for itself from the same streams.
Gated == INSTANCE StreamKeys

ASSUME WordsAssumption == Slots = RADIX * RADIX
ASSUME BanksAssumption ==
  /\ WINDOW_BASE \in Byte \ {0} /\ TABLE_BANK \in Byte
  /\ Banks = WINDOW_BASE .. RADIX - 1 /\ EMPTY = 0
\* A channel is given by the offset of its registers, in an index register; an
\* index register of eight bits holds a byte, and A keeps its upper half.
ASSUME RadixAssumption == RADIX \in Nat /\ RADIX >= 2
ASSUME CallerAssumption ==
  /\ Channels \subseteq Word
  /\ Registers \subseteq [a : Word, x : Word, y : Word, dbr : Byte,
                          m8 : BOOLEAN, x8 : BOOLEAN, c : BOOLEAN]
  /\ \A q \in Registers : q.x8 => q.x \in Byte /\ q.y \in Byte
ASSUME DestinationAssumption ==
  \A l \in KeyLists : \A i \in DOMAIN l :
    Destination(i).bank \in Byte \ {0} /\ Destination(i).addr \in Word

VARIABLES
  r,       \* registers: a, x, y, dbr and the flags m8, x8, c
  stack,   \* the caller's stack from the call on, last pushed last
  dma,     \* each channel's fixed bit and source
  pc,      \* where the routine is
  channel, \* the channel it was called for
  stream,  \* history: the stream asked for
  entry,   \* history: the registers and the channels at the call
  steps    \* history: slots the scan has passed

machine == <<r, stack, dma>>
call == <<channel, stream, entry>>
console == <<machine, pc, call, steps>>
built == vars
all == <<built, console>>

\* The tables in the image: the bank byte of a slot, and where its stream is.
TableKey(s) == table[s]
Held(s) == CHOOSE i \in DOMAIN keys : placed[i] = s
TableLow(s) == Lo(Destination(Held(s)).addr)
TableHigh(s) == Hi(Destination(Held(s)).addr)
TableBank(s) == Destination(Held(s)).bank

\* The flags as the byte php pushes.
Flags(q) == (IF q.m8 THEN 4 ELSE 0) + (IF q.x8 THEN 2 ELSE 0) + (IF q.c THEN 1 ELSE 0)

PushWord(s, w) == s \o <<Hi(w), Lo(w)>>
\* The byte n bytes above the stack pointer, as "lda n,s" reads it.
Above(s, n) == s[Len(s) + 1 - n]
WordAbove(s, n) == Pair(Above(s, n + 1), Above(s, n))
Drop(s, n) == SubSeq(s, 1, Len(s) - n)

\* An image is only made from a placement allocate returned.  A hook site has
\* programmed a channel and calls the routine for it; sdd1_chy is called
\* with the channel's offset in Y.
Call(ch, i, q, which) ==
  /\ pc = "game" /\ phase = "returned"
  /\ which = "chy" => q.y = ch
  /\ pc' = which
  /\ r' = q
  /\ dma' = [dma EXCEPT ![ch] = [fixed |-> TRUE, addr |-> keys[i].addr,
                                 bank |-> keys[i].bank]]
  /\ channel' = ch
  /\ stream' = i
  /\ entry' = [r |-> q, dma |-> dma']
  /\ steps' = 0
  /\ UNCHANGED <<built, stack>>

\* php, phb, rep #$30, pha, phx, phy
Saved ==
  PushWord(PushWord(PushWord(stack \o <<Flags(r), r.dbr>>, r.a), r.x), r.y)

Widened(q) == [q EXCEPT !.m8 = FALSE, !.x8 = FALSE]

\* The macro up to its scan.
EnterMacro ==
  /\ pc = "macro"
  /\ stack' = Saved
  /\ r' = [Widened(r) EXCEPT !.m8 = TRUE, !.y = dma[channel].addr, !.dbr = TABLE_BANK,
             !.a = Pair(Hi(dma[channel].addr), dma[channel].bank)]
  /\ pc' = "scan"
  /\ UNCHANGED <<built, dma, call, steps>>

\* sdd1_chy up to its scan; it parks the channel's offset and reaches the
\* registers through it.
EnterChy ==
  /\ pc = "chy"
  /\ stack' = PushWord(Saved, r.y)
  /\ r' = [Widened(r) EXCEPT !.m8 = TRUE, !.x = r.y, !.y = dma[r.y].addr,
             !.dbr = TABLE_BANK, !.a = Pair(Hi(dma[r.y].addr), dma[r.y].bank)]
  /\ pc' = "scan chy"
  /\ UNCHANGED <<built, dma, call, steps>>

\* The first slot skipped.
MutScanSlot ==
  /\ pc \in {"scan", "scan chy"}
  /\ IF TableKey((r.y + 1) % (RADIX * RADIX)) = Lo(r.a)
     THEN /\ pc' = IF pc = "scan" THEN "found" ELSE "found chy"
          /\ r' = [r EXCEPT !.y = (@ + 1) % (RADIX * RADIX)]
          /\ UNCHANGED steps
     ELSE /\ r' = [r EXCEPT !.y = (@ + 1) % (RADIX * RADIX)]
          /\ steps' = steps + 1
          /\ UNCHANGED pc
  /\ UNCHANGED <<built, stack, dma, call>>

\* cmp $0000,y / beq / iny / bra
ScanSlot ==
  /\ pc \in {"scan", "scan chy"}
  /\ IF TableKey(r.y) = Lo(r.a)
     THEN /\ pc' = IF pc = "scan" THEN "found" ELSE "found chy"
          /\ UNCHANGED <<r, steps>>
     ELSE /\ r' = [r EXCEPT !.y = (@ + 1) % (RADIX * RADIX)]
          /\ steps' = steps + 1
          /\ UNCHANGED pc
  /\ UNCHANGED <<built, stack, dma, call>>

\* The macro's three reads and three writes, and the fixed bit.
Found ==
  /\ pc = "found"
  /\ stack' = PushWord(stack, r.y)
  /\ dma' = [dma EXCEPT ![channel] =
               [fixed |-> FALSE, addr |-> Pair(TableHigh(r.y), TableLow(r.y)),
                bank |-> TableBank(r.y)]]
  /\ r' = [r EXCEPT !.x = r.y, !.a = Pair(Hi(@), TableBank(r.y))]
  /\ pc' = "return"
  /\ UNCHANGED <<built, call, steps>>

\* The destination pushed a byte at a time.
FoundChy ==
  /\ pc = "found chy"
  /\ stack' = stack \o <<TableLow(r.y), TableHigh(r.y), TableBank(r.y)>>
  /\ r' = [r EXCEPT !.x = r.y, !.a = Pair(Hi(@), TableBank(r.y))]
  /\ pc' = "write chy"
  /\ UNCHANGED <<built, dma, call, steps>>

\* The offset looked for one byte too near the top of the stack.
MutParked == WordAbove(stack, 3)

\* The channel's offset, parked below the three destination bytes.
Parked == WordAbove(stack, 4)

\* The offset read back into X, the destination pulled into the registers: the
\* channel's, if that is what was read.
WriteChy ==
  /\ pc = "write chy"
  /\ dma' = [dma EXCEPT ![Parked] =
               [fixed |-> FALSE, addr |-> Pair(Above(stack, 2), Above(stack, 3)),
                bank |-> Above(stack, 1)]]
  /\ r' = [r EXCEPT !.x = Parked, !.a = Pair(Hi(Parked), @ % RADIX), !.dbr = 0]
  /\ stack' = Drop(stack, 3)
  /\ pc' = "return"
  /\ UNCHANGED <<built, call, steps>>

\* The slot or the offset dropped, then ply, plx, pla, plb, plp.
Leave ==
  /\ pc = "return"
  /\ r' = [a |-> WordAbove(stack, 7), x |-> WordAbove(stack, 5),
           y |-> WordAbove(stack, 3), dbr |-> Above(stack, 9),
           m8 |-> Above(stack, 10) \div 4 % 2 = 1,
           x8 |-> Above(stack, 10) \div 2 % 2 = 1, c |-> Above(stack, 10) % 2 = 1]
  /\ stack' = Drop(stack, 10)
  /\ pc' = "game"
  /\ UNCHANGED <<built, dma, call, steps>>

Idle == [fixed |-> FALSE, addr |-> 0, bank |-> 0]

ConsoleInit ==
  /\ r \in Registers
  /\ stack = <<>>
  /\ dma = [ch \in Channels |-> Idle]
  /\ pc = "game"
  /\ channel \in Channels
  /\ stream = 0
  /\ entry = [r |-> r, dma |-> dma]
  /\ steps = 0

Routine ==
  EnterMacro \/ EnterChy \/ ScanSlot \/ Found \/ FoundChy \/ WriteChy \/ Leave

Console ==
  \/ \E ch \in Channels, i \in DOMAIN keys, q \in Registers :
       Call(ch, i, q, "macro") \/ Call(ch, i, q, "chy")
  \/ Routine

ImageNext == Console \/ (Next /\ UNCHANGED console)

ImageInit == Init /\ ConsoleInit
ImageSpec == ImageInit /\ [][ImageNext]_all /\ WF_all(Routine)

-----------------------------------------------------------------------------

(* A scan never passes more slots than worst_scan measures before the image*)
(* is written, on a placement of its own: the gate's budget is a bound on  *)
(* the console, whatever the repair rounds did.                            *)
ScanWithinWorst == steps <= Gated!WorstScan(keys)

Lookup ==
  INSTANCE DmaLookup WITH
    dma <- IF pc = "game" THEN dma ELSE entry.dma,
    caller <- IF pc = "game" THEN [r |-> r, stack |-> stack]
              ELSE [r |-> entry.r, stack |-> <<>>],
    asked <- IF pc = "game" THEN [channel |-> -1, stream |-> 0]
             ELSE [channel |-> channel, stream |-> stream]

(* The routine implements a one-step lookup: the channel asked for a stream*)
(* ends up copying from where that stream was placed, every other channel  *)
(* is as it was, the caller has its registers, flags and stack back, and   *)
(* every call ends although the scan has no bound.                         *)
LookupSpec == Lookup!Spec
=============================================================================
