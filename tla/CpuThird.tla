------------------------------ MODULE CpuThird ------------------------------
(***************************************************************************)
(* cpu_third of asm/spc-fast-upload.asm: a third of a 16-bit value without *)
(* the console's divider, which the game itself may be in the middle of    *)
(* using.  A quarter, a sixteenth, a sixty-fourth and so on add up to just *)
(* under a third; a correction loop closes the gap.                        *)
(***************************************************************************)
EXTENDS Integers

CONSTANTS
  Word,     \* values of a 16-bit register; 65536 on the machine
  Quarters  \* terms added after the first; 6 in the routine

ASSUME WordAssumption == Word \in Nat /\ Word >= 4
ASSUME QuartersAssumption == Quarters \in Nat \ {0}

VARIABLES
  pc,     \* .term, .correct or .exact
  value,  \* what is divided, kept on the stack for the correction
  quo,    \* the running quotient, on the stack above it
  term,   \* the last term added, in A
  left    \* X, the terms still to add

vars == <<pc, value, quo, term, left>>

Init ==
  /\ pc = "term"
  /\ value \in 0 .. Word - 1
  /\ quo = value \div 4
  /\ term = value \div 4
  /\ left = Quarters

Quarter(v) == v \div 4

Term ==
  /\ pc = "term"
  /\ term' = Quarter(term)
  /\ quo' = (quo + term') % Word
  /\ left' = left - 1
  /\ pc' = IF left = 1 THEN "correct" ELSE "term"
  /\ UNCHANGED value

\* The three subtractions wrap as the register does.
Remainder == (value - 3 * quo) % Word

\* The comparison taken one too high.
MutCorrect ==
  /\ pc = "correct"
  /\ \/ Remainder > 3 /\ quo' = (quo + 1) % Word /\ UNCHANGED pc
     \/ Remainder <= 3 /\ pc' = "exact" /\ UNCHANGED quo
  /\ UNCHANGED <<value, term, left>>

\* The corrected quotient never stored back.
MutCorrectNotStored ==
  /\ pc = "correct"
  /\ Remainder < 3
  /\ pc' = "exact"
  /\ UNCHANGED <<value, quo, term, left>>

Correct ==
  /\ pc = "correct"
  /\ \/ Remainder >= 3 /\ quo' = (quo + 1) % Word /\ UNCHANGED pc
     \/ Remainder < 3 /\ pc' = "exact" /\ UNCHANGED quo
  /\ UNCHANGED <<value, term, left>>

Next == Term \/ Correct

Spec == Init /\ [][Next]_vars

\* Straight-line code of one processor: it keeps going.
FairSpec == Spec /\ WF_vars(Next)

-----------------------------------------------------------------------------

TypeOK ==
  /\ pc \in {"term", "correct", "exact"}
  /\ value \in 0 .. Word - 1
  /\ quo \in 0 .. Word - 1
  /\ term \in 0 .. Word - 1
  /\ left \in 0 .. Quarters

(* The series never overshoots: three times the quotient and the last term *)
(* together stay within the value, so no addition carries out of the       *)
(* register and no subtraction of the correction borrows.                  *)
NeverOver ==
  /\ 3 * quo <= value
  /\ pc = "term" => 3 * quo + term <= value

(* The routine returns the exact third, for every value of the register:   *)
(* "Checked against exact division for all 65,536 values".                 *)
ExactThird == pc = "exact" => quo = value \div 3

(* It always returns. *)
Returns == <>(pc = "exact")
=============================================================================
