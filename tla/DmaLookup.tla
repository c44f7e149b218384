----------------------------- MODULE DmaLookup -----------------------------
(***************************************************************************)
(* What the translate routine promises its hook sites: a channel programmed*)
(* to decompress a stream is turned, in one step, into an ordinary copy    *)
(* from where that stream was placed, and the caller sees nothing else: its*)
(* branch on carry and its store of the channel mask find the registers,   *)
(* flags and stack as they were.                                           *)
(***************************************************************************)
EXTENDS Integers

CONSTANTS
  Channels,
  Destination(_)  \* where the image has a stream

VARIABLES
  keys,   \* the streams of the image, by the address they are asked for
  dma,    \* each channel's fixed bit and source
  caller, \* its registers and flags, and what the routine left on its stack
  asked   \* the channel and the stream being looked up

vars == <<keys, dma, caller, asked>>

NoRequest == [channel |-> -1, stream |-> 0]

Program(ch, i) ==
  /\ asked = NoRequest
  /\ UNCHANGED keys
  /\ caller'.stack = <<>>
  /\ asked' = [channel |-> ch, stream |-> i]
  /\ dma' = [dma EXCEPT ![ch] = [fixed |-> TRUE, addr |-> keys[i].addr,
                                 bank |-> keys[i].bank]]

Translate ==
  /\ asked # NoRequest
  /\ UNCHANGED <<keys, caller>>
  /\ asked' = NoRequest
  /\ dma' = [dma EXCEPT ![asked.channel] =
               [fixed |-> FALSE, addr |-> Destination(asked.stream).addr,
                bank |-> Destination(asked.stream).bank]]

Init == asked = NoRequest /\ caller.stack = <<>>

Next == Translate \/ \E ch \in Channels, i \in DOMAIN keys : Program(ch, i)

Spec == Init /\ [][Next]_vars /\ WF_vars(Translate)
=============================================================================
