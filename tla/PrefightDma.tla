---------------------------- MODULE PrefightDma ----------------------------
(***************************************************************************)
(* asm/prefight-table.asm: the finished pre-fight table moved to work RAM  *)
(* by channel zero, which the game's frame interrupt drives too.  Called   *)
(* by jsl with whatever register widths and interrupt state the caller     *)
(* has.  One step per store; an interrupt may land between any two, runs   *)
(* to its end and restores the processor's state but not the registers of  *)
(* the channel, and is held back while the disable flag is set.            *)
(***************************************************************************)
EXTENDS Integers

CONSTANT Foreign \* values the frame handler, or the game before, leaves in one

Registers ==
  {"wram", "wram bank", "parameters", "b bus", "source bank", "source", "length"}

\* The transfer wanted: $5F:0000 to $7E:9440 through $2180, $6080 bytes.
Table ==
  [reg \in Registers |->
     CASE reg = "wram" -> \h9440 [] reg = "b bus" -> \h80
       [] reg = "source bank" -> \h5F [] reg = "length" -> \h6080
       [] OTHER -> 0]

ASSUME ForeignAssumption == \A reg \in Registers : Table[reg] \notin Foreign

VARIABLES
  point,    \* the next instruction
  flags,    \* m, x (8 bits wide) and i (interrupts disabled)
  pushed,   \* the flags php saved
  dma,      \* the work RAM address and channel zero
  pending,  \* an interrupt is waiting
  moved,    \* history: what the transfers started by the routine moved
  entered   \* history: the flags at the call

dmaVars == <<point, flags, pushed, dma, pending, moved, entered>>

Flags == [m : BOOLEAN, x : BOOLEAN, i : BOOLEAN]
Values == Foreign \union {Table[reg] : reg \in Registers}

Goto(from, to) == point = from /\ point' = to
Widen(m8) == flags' = [flags EXCEPT !.m = m8]
NoStore == UNCHANGED <<dma, moved>>

StoreStep(from, to, regs, m8) ==
  /\ Goto(from, to) /\ Widen(m8)
  /\ dma' = [reg \in Registers |-> IF reg \in regs THEN Table[reg] ELSE dma[reg]]
  /\ UNCHANGED <<pushed, pending, moved, entered>>

-----------------------------------------------------------------------------
Php ==
  /\ Goto("php", "sei") /\ pushed' = flags
  /\ NoStore /\ UNCHANGED <<flags, pending, entered>>

\* The disable left out.
MutSei ==
  /\ Goto("sei", "wram") /\ flags' = [flags EXCEPT !.m = FALSE, !.x = FALSE]
  /\ NoStore /\ UNCHANGED <<pushed, pending, entered>>

Sei ==
  /\ Goto("sei", "wram")
  /\ flags' = [flags EXCEPT !.m = FALSE, !.x = FALSE, !.i = TRUE]
  /\ NoStore /\ UNCHANGED <<pushed, pending, entered>>

WramAddress == StoreStep("wram", "wram bank", {"wram"}, TRUE)
WramBank == StoreStep("wram bank", "parameters", {"wram bank"}, TRUE)
Parameters == StoreStep("parameters", "b bus", {"parameters"}, TRUE)
BBus == StoreStep("b bus", "source bank", {"b bus"}, TRUE)
SourceBank == StoreStep("source bank", "source", {"source bank"}, FALSE)
Source == StoreStep("source", "length", {"source"}, FALSE)
Length == StoreStep("length", "enable", {"length"}, TRUE)

\* The processor is halted until the channel is done.
Enable ==
  /\ Goto("enable", "plp")
  /\ moved' = dma
  /\ UNCHANGED <<flags, pushed, dma, pending, entered>>

\* The saved flags dropped instead of restored.
MutPlpDropped ==
  /\ Goto("plp", "rtl")
  /\ NoStore /\ UNCHANGED <<flags, pushed, pending, entered>>

Plp ==
  /\ Goto("plp", "rtl") /\ flags' = pushed
  /\ NoStore /\ UNCHANGED <<pushed, pending, entered>>

DmaRoutine ==
  \/ Php \/ Sei \/ WramAddress \/ WramBank \/ Parameters \/ BBus
  \/ SourceBank \/ Source \/ Length \/ Enable \/ Plp

\* The game calls again before the next fight, from either call site.
CallPrefight ==
  /\ Goto("rtl", "php")
  /\ flags' \in Flags /\ entered' = flags'
  /\ NoStore /\ UNCHANGED <<pushed, pending>>

Raise ==
  /\ pending' = TRUE
  /\ UNCHANGED <<point, flags, pushed, dma, moved, entered>>

\* The frame handler: its own transfers, on channel zero.
Frame ==
  /\ pending /\ ~flags.i
  /\ pending' = FALSE
  /\ \E f \in Foreign : dma' = [reg \in Registers |-> f]
  /\ UNCHANGED <<point, flags, pushed, moved, entered>>

-----------------------------------------------------------------------------
DmaInit ==
  /\ point = "php" /\ flags \in Flags /\ entered = flags
  /\ pushed \in Flags
  /\ \E f \in Foreign : dma = [reg \in Registers |-> f]
  /\ pending = FALSE
  /\ moved = Table

DmaNext == DmaRoutine \/ CallPrefight \/ Raise \/ Frame
DmaSpec == DmaInit /\ [][DmaNext]_dmaVars

\* The processor goes on, and does not for ever pass over an interrupt it is
\* free to take again and again: it looks for one before every instruction.
DmaFairSpec == DmaSpec /\ WF_dmaVars(DmaRoutine) /\ SF_dmaVars(Frame)

-----------------------------------------------------------------------------
Points ==
  {"php", "sei", "wram", "wram bank", "parameters", "b bus", "source bank",
   "source", "length", "enable", "plp", "rtl"}
DmaTypeOK ==
  /\ point \in Points
  /\ flags \in Flags /\ pushed \in Flags /\ entered \in Flags
  /\ dma \in [Registers -> Values] /\ moved \in [Registers -> Values]
  /\ pending \in BOOLEAN

\* Wherever a frame falls, the transfer started is the table's, and nothing of
\* it the frame handler's: "it can land between programming channel zero and
\* starting it, and the frame handler drives channel zero itself".
TableMoves == moved = Table

\* The caller sees the widths and the interrupt state it had, however it was
\* called: an interrupt disabled around the call stays so.
CallerStateRestored == point = "rtl" => flags = entered

\* A frame that waits while the table moves is served, unless the caller
\* itself keeps interrupts off.
FrameServed == (pending /\ ~entered.i) ~> (~pending \/ entered.i)
=============================================================================
