--------------------------- MODULE SampleTransfer ---------------------------
(***************************************************************************)
(* What the sample upload promises the sound driver, with no ports, no     *)
(* counters and no kinds: the blocks of a list reach sound RAM in order,   *)
(* bytes only ever land in the block being received (or in the two bytes   *)
(* after it, which the next block overwrites), every byte that lands is    *)
(* the right one, and a block is complete only with all of its bytes.      *)
(***************************************************************************)
EXTENDS Integers, Sequences

CONSTANTS Lists, Addresses, UNWRITTEN

VARIABLES
  list,   \* the list being transferred
  done,   \* how many of its blocks are complete
  image   \* sound RAM

transferVars == <<list, done, image>>

Overrun == 2

Right(k, a) == list[k].src + (a - list[k].dest)
Window(k) == list[k].dest .. list[k].dest + list[k].len - 1 + Overrun
Whole(k) ==
  \A a \in list[k].dest .. list[k].dest + list[k].len - 1 : image[a] = Right(k, a)

TransferInit ==
  /\ list \in Lists
  /\ done = 0
  /\ image = [a \in Addresses |-> UNWRITTEN]

\* Any of the current block's bytes land.
Land ==
  /\ done < Len(list)
  /\ image' \in [Addresses -> Int]
  /\ \A a \in Addresses :
       image'[a] # image[a] =>
         a \in Window(done + 1) /\ image'[a] = Right(done + 1, a)
  /\ UNCHANGED <<list, done>>

\* The current block is complete.
Complete ==
  /\ done < Len(list)
  /\ Whole(done + 1)
  /\ done' = done + 1
  /\ UNCHANGED <<list, image>>

TransferNext == Land \/ Complete

Spec == TransferInit /\ [][TransferNext]_transferVars
=============================================================================
