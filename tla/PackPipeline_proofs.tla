------------------------- MODULE PackPipeline_proofs -------------------------
(* For any processes, commands, tables, dumps and edits, with every step   *)
(* failing or being the last, and runs overlapping on any regions.  What a *)
(* run keeps to itself is an invariant of that run alone; what it shares   *)
(* with another run of its region holds until the two meet.  What the gate *)
(* passes is shown to serve the game.                                      *)
EXTENDS PackPipeline, FiniteSetTheorems, WellFoundedInduction, TLAPS

Points ==
  {"idle", "load", "gate", "build", "assemble", "asar", "collect", "unlink",
   "open", "fill", "manifest", "lines"}
Codes == {NONE, "0", "1", "2", "gate raised", "raised", "killed"}
Cart == [patches : SUBSET Patches, bypass : BOOLEAN]
AnyTable == UNION {Tables[r] : r \in Regions}
Image == [region : Regions, table : AnyTable, gated : AnyTable, cart : Cart]
Line == Regions \X Releases \X Image
Hands == {NONE, TORN} \union Cart

RunType ==
  [pc : Points, wanted : Seq(STRING), at : Nat, mine : {NONE} \union Copies,
   gates : {NONE} \union Copies, release : {NONE} \union Releases, hand : Hands,
   lines : Seq(Line), exit : Codes, wrote : BOOLEAN]

Typed ==
  /\ tables \in Copies /\ release \in Releases
  /\ asm \in [Regions -> Hands]
  /\ dist \in [Regions \X Releases -> Image \union {NONE, TORN}]
  /\ run \in [Procs -> RunType]

\* Where a run builds, and where it has a region in hand.
Building == {"build", "assemble", "asar", "collect", "unlink", "open", "fill"}
Placed == Building \union {"gate"}
Closing == {"manifest", "lines"}

Regional(w) == \A i \in 1 .. Len(w) : w[i] \in Regions
Injective(w) == \A i, j \in 1 .. Len(w) : w[i] = w[j] => i = j

\* What a run's arguments and place among them are.
Position(u) ==
  /\ u.pc # "idle" =>
       /\ u.exit = NONE /\ Len(u.wanted) > 0 /\ Injective(u.wanted)
       /\ u.mine \in Copies /\ u.release \in Releases
  /\ u.pc \in Placed => u.at \in 1 .. Len(u.wanted) /\ u.gates \in Copies
  /\ u.pc \in Placed \union Closing => Regional(u.wanted)
  /\ u.pc = "load" => u.at = 1
  /\ u.pc \in {"unlink", "open"} => u.hand \in Cart \union {TORN}
  /\ u.pc = "fill" => u.hand \in Cart

\* Nothing is written before the gate has passed every region.
Unwritten(u) ==
  /\ u.pc \in {"load", "gate"} => u.wrote = FALSE /\ u.lines = <<>>
  /\ u.pc = "idle" /\ u.exit \in {NONE, "1", "2", "gate raised"} => u.wrote = FALSE
  /\ u.pc \in {"fill"} \union Closing => u.wrote = TRUE

\* The lines kept name the regions done.
Counted(u) ==
  /\ u.pc \in Building => Len(u.lines) = u.at - 1
  /\ u.pc \in Closing => Len(u.lines) = Len(u.wanted)
  /\ u.pc \in Building \union Closing =>
       \A i \in 1 .. Len(u.lines) : u.lines[i][1] = u.wanted[i]

RunInv(u) == Position(u) /\ Unwritten(u) /\ Counted(u)

IInv == Typed /\ \A p \in Procs : RunInv(run[p])

-----------------------------------------------------------------------------
Others(q) == \A p \in Procs \ {q} : run'[p] = run[p]

\* Run q goes on, with these of its fields as they say.
Went(q, pc, at, gates, hand, lines, wrote, exit) ==
  /\ run' \in [Procs -> RunType] /\ Others(q)
  /\ run'[q].pc = pc /\ run'[q].at = at /\ run'[q].gates = gates
  /\ run'[q].hand = hand /\ run'[q].lines = lines
  /\ run'[q].wrote = wrote /\ run'[q].exit = exit
  /\ run'[q].wanted = run[q].wanted /\ run'[q].mine = run[q].mine
  /\ run'[q].release = run[q].release

\* Run q is over.
Over(q, code) ==
  /\ run' \in [Procs -> RunType] /\ Others(q)
  /\ run'[q].pc = "idle" /\ run'[q].exit = code /\ run'[q].wrote = run[q].wrote

LEMMA Goes ==
  ASSUME run \in [Procs -> RunType], NEW q \in Procs, NEW t \in RunType,
         run' = [run EXCEPT ![q] = t], t.wanted = run[q].wanted, t.mine = run[q].mine,
         t.release = run[q].release
  PROVE  Went(q, t.pc, t.at, t.gates, t.hand, t.lines, t.wrote, t.exit)
<1>1. run' \in [Procs -> RunType] /\ run'[q] = t /\ Others(q)
  BY DEF Others
<1> QED BY <1>1 DEF Went

LEMMA IdleType ==
  ASSUME NEW code \in Codes, NEW wrote \in BOOLEAN
  PROVE  /\ Idle(code, wrote) \in RunType
         /\ Idle(code, wrote).pc = "idle" /\ Idle(code, wrote).exit = code
         /\ Idle(code, wrote).wrote = wrote
<1>1. /\ "idle" \in Points /\ <<>> \in Seq(STRING) /\ <<>> \in Seq(Line) /\ 1 \in Nat
      /\ NONE \in {NONE} \union Copies /\ NONE \in {NONE} \union Releases /\ NONE \in Hands
  BY DEF Points, Hands
<1> QED BY <1>1 DEF Idle, RunType

LEMMA Ends ==
  ASSUME run \in [Procs -> RunType], NEW q \in Procs, NEW code \in Codes, End(q, code)
  PROVE  Over(q, code)
<1> DEFINE t == Idle(code, run[q].wrote)
<1>1. run[q].wrote \in BOOLEAN
  BY DEF RunType
<1>2. t \in RunType /\ t.pc = "idle" /\ t.exit = code /\ t.wrote = run[q].wrote
  BY <1>1, IdleType
<1>3. run' = [run EXCEPT ![q] = t]
  BY DEF End
<1> HIDE DEF t
<1>4. run' \in [Procs -> RunType] /\ run'[q] = t /\ Others(q)
  BY <1>2, <1>3 DEF Others
<1> QED BY <1>2, <1>4 DEF Over

\* What is known of a run, and of one with a region in hand.
LEMMA Busy ==
  ASSUME IInv, NEW p \in Procs
  PROVE  /\ run \in [Procs -> RunType] /\ run[p] \in RunType /\ RunInv(run[p])
         /\ run[p].wanted \in Seq(STRING) /\ Len(run[p].wanted) \in Nat
         /\ run[p].lines \in Seq(Line) /\ run[p].at \in Nat /\ run[p].hand \in Hands
         /\ run[p].gates \in {NONE} \union Copies
         /\ run[p].wrote \in BOOLEAN /\ run[p].exit \in Codes /\ run[p].pc \in Points
         /\ run[p].pc \in Placed =>
              /\ run[p].at \in 1 .. Len(run[p].wanted)
              /\ This(p) \in Regions /\ This(p) = run[p].wanted[run[p].at]
<1>1. run \in [Procs -> RunType] /\ run[p] \in RunType /\ RunInv(run[p])
  BY DEF IInv, Typed
<1>2. /\ run[p].wanted \in Seq(STRING) /\ run[p].lines \in Seq(Line)
      /\ run[p].at \in Nat /\ run[p].wrote \in BOOLEAN /\ run[p].exit \in Codes
      /\ run[p].hand \in Hands /\ run[p].gates \in {NONE} \union Copies
      /\ run[p].pc \in Points
  BY <1>1 DEF RunType
<1>3. Len(run[p].wanted) \in Nat
  BY <1>2
<1>4. ASSUME run[p].pc \in Placed
      PROVE  /\ run[p].at \in 1 .. Len(run[p].wanted)
             /\ This(p) \in Regions /\ This(p) = run[p].wanted[run[p].at]
  <2>1. run[p].at \in 1 .. Len(run[p].wanted) /\ Regional(run[p].wanted)
    BY <1>1, <1>4 DEF RunInv, Position
  <2> QED BY <2>1 DEF Regional, This
<1> QED BY <1>1, <1>2, <1>3, <1>4

-----------------------------------------------------------------------------
(* What each action does to the run that takes it.                         *)
LEMMA CommandTypes ==
  ASSUME NEW p \in Procs, NEW c \in Commands[p]
  PROVE  /\ c \in Seq(STRING) /\ Len(c) > 0 /\ Injective(c)
         /\ ToSet(c) = {c[i] : i \in 1 .. Len(c)}
<1>1. c \in Seq(STRING) /\ c # <<>> /\ IsInjective(c)
  BY CommandsAssumption
<1>2. DOMAIN c = 1 .. Len(c) /\ Len(c) \in Nat
  BY <1>1
<1>3. ToSet(c) = {c[i] : i \in 1 .. Len(c)}
  BY <1>2 DEF ToSet
<1>4. Len(c) > 0
  BY <1>1
<1>5. Injective(c)
  BY <1>1, <1>2 DEF IsInjective, Injective
<1> QED BY <1>1, <1>3, <1>4, <1>5

LEMMA PackMoves ==
  ASSUME IInv, NEW q \in Procs, Pack(q)
  PROVE  \E c \in Commands[q] :
           /\ run[q].pc = "idle" /\ run[q].exit = NONE
           /\ run' \in [Procs -> RunType] /\ Others(q) /\ met' = met \union Shared(q, c)
           /\ run'[q].pc = "load" /\ run'[q].wanted = c /\ run'[q].at = 1
           /\ run'[q].wrote = FALSE /\ run'[q].lines = <<>> /\ run'[q].exit = NONE
           /\ run'[q].mine = tables /\ run'[q].release = release
<1>1. PICK c \in Commands[q] :
        /\ run' = [run EXCEPT ![q] = [Idle(NONE, FALSE) EXCEPT
             !.pc = "load", !.wanted = c, !.mine = tables, !.release = release]]
        /\ met' = met \union Shared(q, c)
  BY DEF Pack
<1> DEFINE b == Idle(NONE, FALSE)
           t == [b EXCEPT !.pc = "load", !.wanted = c, !.mine = tables, !.release = release]
<1>2. c \in Seq(STRING) /\ tables \in Copies /\ release \in Releases
  BY CommandTypes DEF IInv, Typed
<1>3. /\ b \in RunType /\ b.at = 1 /\ b.wrote = FALSE /\ b.lines = <<>> /\ b.exit = NONE
  BY IdleType DEF Codes, Idle
<1> HIDE DEF b
<1>4. t \in RunType
  BY <1>2, <1>3 DEF RunType, Points
<1>5. /\ t.pc = "load" /\ t.wanted = c /\ t.at = 1 /\ t.wrote = FALSE
      /\ t.lines = <<>> /\ t.mine = tables /\ t.release = release /\ t.exit = NONE
  BY <1>3 DEF RunType
<1>6. run' = [run EXCEPT ![q] = t] /\ run \in [Procs -> RunType]
  BY <1>1 DEF b, IInv, Typed
<1> HIDE DEF t
<1>7. run' \in [Procs -> RunType] /\ run'[q] = t /\ Others(q)
  BY <1>4, <1>6 DEF Others
<1>8. run[q].pc = "idle" /\ run[q].exit = NONE
  BY DEF Pack, At
<1> QED BY <1>1, <1>5, <1>7, <1>8

LEMMA LoadGateMoves ==
  ASSUME IInv, NEW q \in Procs, LoadGate(q)
  PROVE  \/ Over(q, "1") \/ Over(q, "2")
         \/ /\ Regional(run[q].wanted)
            /\ Went(q, "gate", run[q].at, tables, run[q].hand, run[q].lines,
                    run[q].wrote, run[q].exit)
<1> DEFINE u == run[q]
<1>u. u \in RunType /\ run \in [Procs -> RunType]
  BY Busy
<1>1. CASE End(q, "2") \/ End(q, "1")
  BY <1>u, <1>1, Ends DEF Codes
<1>2. CASE /\ \A i \in DOMAIN u.wanted : u.wanted[i] \in Regions
           /\ run' = [run EXCEPT ![q].gates = tables, ![q].pc = "gate"]
  <2>1. tables \in Copies
    BY DEF IInv, Typed
  <2>2. Regional(u.wanted)
    <3>1. DOMAIN u.wanted = 1 .. Len(u.wanted)
      BY Busy
    <3> QED BY <1>2, <3>1 DEF Regional
  <2> DEFINE t == [u EXCEPT !.gates = tables, !.pc = "gate"]
  <2>a. t \in RunType
    BY <1>u, <2>1 DEF RunType, Points
  <2>b. run' = [run EXCEPT ![q] = t]
    BY <1>u, <1>2 DEF RunType
  <2>c. /\ t.pc = "gate" /\ t.at = u.at /\ t.gates = tables /\ t.hand = u.hand
       /\ t.lines = u.lines /\ t.wrote = u.wrote /\ t.exit = u.exit
       /\ t.wanted = u.wanted /\ t.mine = u.mine /\ t.release = u.release
    BY <1>u DEF RunType
  <2> HIDE DEF t
  <2>d. Went(q, t.pc, t.at, t.gates, t.hand, t.lines, t.wrote, t.exit)
    BY <1>u, <2>a, <2>b, <2>c, Goes
  <2> QED BY <2>2, <2>c, <2>d
<1> QED BY <1>1, <1>2 DEF LoadGate

\* The verdicts that let a run on are all but the two that end it.
LEMMA GateRegionMoves ==
  ASSUME IInv, NEW q \in Procs, GateRegion(q)
  PROVE  \/ Over(q, "gate raised") \/ Over(q, "1")
         \/ /\ \E produced : GateVerdict(This(q), run[q].gates[This(q)], dumps[This(q)], produced)
                               \notin {"raised", "refused"}
            /\ \/ /\ AtLast(q)
                  /\ Went(q, "build", 1, run[q].gates, run[q].hand, run[q].lines,
                          run[q].wrote, run[q].exit)
               \/ /\ ~AtLast(q)
                  /\ Went(q, "gate", run[q].at + 1, run[q].gates, run[q].hand, run[q].lines,
                          run[q].wrote, run[q].exit)
<1> DEFINE u == run[q]
<1>u. u \in RunType /\ run \in [Procs -> RunType]
  BY Busy
<1>0. u.pc = "gate" /\ u.at + 1 \in Nat
  <2>1. u.at \in Nat
    BY Busy
  <2>2. u.pc = "gate"
    BY DEF GateRegion, At
  <2> QED BY <2>1, <2>2
<1>1. PICK produced :
        LET verdict == GateVerdict(This(q), run[q].gates[This(q)], dumps[This(q)], produced)
        IN IF verdict = "raised" THEN End(q, "gate raised")
           ELSE IF verdict = "refused" THEN End(q, "1")
           ELSE IF AtLast(q) THEN run' = [run EXCEPT ![q].pc = "build", ![q].at = 1]
           ELSE run' = [run EXCEPT ![q].at = @ + 1]
  BY DEF GateRegion
<1> DEFINE verdict == GateVerdict(This(q), run[q].gates[This(q)], dumps[This(q)], produced)
<1>2. CASE End(q, "gate raised") \/ End(q, "1")
  BY <1>u, <1>2, Ends DEF Codes
<1>3. CASE /\ verdict \notin {"raised", "refused"} /\ AtLast(q)
           /\ run' = [run EXCEPT ![q].pc = "build", ![q].at = 1]
  <2> HIDE DEF verdict
  <2> DEFINE t == [u EXCEPT !.pc = "build", !.at = 1]
  <2>a. t \in RunType
    BY <1>u DEF RunType, Points
  <2>b. run' = [run EXCEPT ![q] = t]
    BY <1>u, <1>3 DEF RunType
  <2>c. /\ t.pc = "build" /\ t.at = 1 /\ t.gates = u.gates /\ t.hand = u.hand
       /\ t.lines = u.lines /\ t.wrote = u.wrote /\ t.exit = u.exit
       /\ t.wanted = u.wanted /\ t.mine = u.mine /\ t.release = u.release
    BY <1>u DEF RunType
  <2> HIDE DEF t
  <2>d. Went(q, t.pc, t.at, t.gates, t.hand, t.lines, t.wrote, t.exit)
    BY <1>u, <2>a, <2>b, <2>c, Goes
  <2> QED BY <1>3, <2>c, <2>d DEF verdict
<1>4. CASE /\ verdict \notin {"raised", "refused"} /\ ~AtLast(q)
           /\ run' = [run EXCEPT ![q].at = @ + 1]
  <2> HIDE DEF verdict
  <2>1. u.pc = "gate" /\ u.at + 1 \in Nat
    BY <1>0
  <2>2. run' = [run EXCEPT ![q].at = u.at + 1]
    BY <1>u, <1>4 DEF RunType
  <2> DEFINE k == u.at + 1
  <2> DEFINE t == [u EXCEPT !.at = k]
  <2>3. k \in Nat /\ run' = [run EXCEPT ![q].at = k]
    BY <2>1, <2>2
  <2> HIDE DEF k
  <2>a. t \in RunType
    BY <1>u, <2>3 DEF RunType, Points
  <2>b. run' = [run EXCEPT ![q] = t]
    BY <1>u, <2>3 DEF RunType
  <2>c. /\ t.pc = "gate" /\ t.at = k /\ t.gates = u.gates /\ t.hand = u.hand
       /\ t.lines = u.lines /\ t.wrote = u.wrote /\ t.exit = u.exit
       /\ t.wanted = u.wanted /\ t.mine = u.mine /\ t.release = u.release
    BY <1>u, <2>1 DEF RunType
  <2> HIDE DEF t
  <2>d. Went(q, t.pc, t.at, t.gates, t.hand, t.lines, t.wrote, t.exit)
    BY <1>u, <2>a, <2>b, <2>c, Goes
  <2> QED BY <1>4, <2>c, <2>d DEF verdict, k
<1>5. \/ End(q, "gate raised") \/ End(q, "1")
      \/ /\ verdict \notin {"raised", "refused"} /\ AtLast(q)
         /\ run' = [run EXCEPT ![q].pc = "build", ![q].at = 1]
      \/ /\ verdict \notin {"raised", "refused"} /\ ~AtLast(q)
         /\ run' = [run EXCEPT ![q].at = @ + 1]
  <2>1. verdict = verdict
    OBVIOUS
  <2> HIDE DEF verdict
  <2> QED BY <1>1, Zenon DEF verdict
<1> HIDE DEF verdict
<1> QED BY <1>2, <1>3, <1>4, <1>5

\* The steps of a build that move on and leave the rest of the run alone.
LEMMA Onward ==
  ASSUME IInv, NEW q \in Procs, NEW pc \in Points, run' = [run EXCEPT ![q].pc = pc]
  PROVE  Went(q, pc, run[q].at, run[q].gates, run[q].hand, run[q].lines, run[q].wrote, run[q].exit)
<1> DEFINE u == run[q]
<1>u. u \in RunType /\ run \in [Procs -> RunType]
  BY Busy
<1> DEFINE t == [u EXCEPT !.pc = pc]
<1>a. t \in RunType
  BY <1>u DEF RunType
<1>b. run' = [run EXCEPT ![q] = t]
  BY <1>u DEF RunType
<1>c. /\ t.pc = pc /\ t.at = u.at /\ t.gates = u.gates /\ t.hand = u.hand
     /\ t.lines = u.lines /\ t.wrote = u.wrote /\ t.exit = u.exit
     /\ t.wanted = u.wanted /\ t.mine = u.mine /\ t.release = u.release
  BY <1>u DEF RunType
<1> HIDE DEF t
<1>d. Went(q, t.pc, t.at, t.gates, t.hand, t.lines, t.wrote, t.exit)
  BY <1>u, <1>a, <1>b, <1>c, Goes
<1> QED BY <1>c, <1>d

\* Those that put a cartridge in its hand.
LEMMA Handed ==
  ASSUME IInv, NEW q \in Procs, NEW pc \in Points, NEW h \in Hands,
         run' = [run EXCEPT ![q].pc = pc, ![q].hand = h]
  PROVE  Went(q, pc, run[q].at, run[q].gates, h, run[q].lines, run[q].wrote, run[q].exit)
<1> DEFINE u == run[q]
<1>u. u \in RunType /\ run \in [Procs -> RunType]
  BY Busy
<1> DEFINE t == [u EXCEPT !.pc = pc, !.hand = h]
<1>a. t \in RunType
  BY <1>u DEF RunType
<1>b. run' = [run EXCEPT ![q] = t]
  BY <1>u DEF RunType
<1>c. /\ t.pc = pc /\ t.at = u.at /\ t.gates = u.gates /\ t.hand = h
     /\ t.lines = u.lines /\ t.wrote = u.wrote /\ t.exit = u.exit
     /\ t.wanted = u.wanted /\ t.mine = u.mine /\ t.release = u.release
  BY <1>u DEF RunType
<1> HIDE DEF t
<1>d. Went(q, t.pc, t.at, t.gates, t.hand, t.lines, t.wrote, t.exit)
  BY <1>u, <1>a, <1>b, <1>c, Goes
<1> QED BY <1>c, <1>d

LEMMA CartUpdates ==
  ASSUME NEW a \in Cart, NEW b \in Cart, a.bypass = b.bypass,
         a.patches \union {"prefight"} = b.patches
  PROVE  [a EXCEPT !.patches = @ \union {"prefight"}] = b
BY DEF Cart

\* The cartridges, and what asar and prefight make of them.
LEMMA Carts ==
  /\ Staged \in Cart /\ Assembled \in Cart /\ Whole \in Cart
  /\ [Assembled EXCEPT !.patches = @ \union {"prefight"}] = Whole
  /\ TORN \notin Cart /\ NONE \notin Cart /\ TORN # NONE
  /\ \A h \in Cart : [h EXCEPT !.patches = @ \union {"prefight"}] \in Cart
<1>1. (Patches \ {"prefight"}) \union {"prefight"} = Patches
  BY DEF Patches
<1>2. Staged \in Cart /\ Whole \in Cart
  BY DEF Staged, Whole, Cart
<1>4. Assembled \in Cart
  BY DEF Assembled, Cart
<1>5. [Assembled EXCEPT !.patches = @ \union {"prefight"}] = Whole
  <2>1. Assembled.bypass = Whole.bypass /\ Assembled.patches \union {"prefight"} = Whole.patches
    BY <1>1 DEF Assembled, Whole
  <2> QED BY <1>2, <1>4, <2>1, CartUpdates
<1>6. TORN \notin Cart /\ NONE \notin Cart
  BY ValuesAssumption DEF Cart
<1>7. ASSUME NEW h \in Cart PROVE [h EXCEPT !.patches = @ \union {"prefight"}] \in Cart
  <2>1. h.patches \union {"prefight"} \in SUBSET Patches /\ h.bypass \in BOOLEAN
    BY DEF Cart, Patches
  <2> DEFINE b == [patches |-> h.patches \union {"prefight"}, bypass |-> h.bypass]
  <2>2. b \in Cart /\ b.bypass = h.bypass /\ b.patches = h.patches \union {"prefight"}
    BY <2>1 DEF Cart
  <2> HIDE DEF b
  <2>3. [h EXCEPT !.patches = @ \union {"prefight"}] = b
    BY <2>2, CartUpdates
  <2> QED BY <2>2, <2>3
<1> QED BY <1>2, <1>4, <1>5, <1>6, <1>7, ValuesAssumption

LEMMA ReadCartMoves ==
  ASSUME IInv, NEW q \in Procs, ReadCart(q)
  PROVE  \/ Over(q, "raised")
         \/ Went(q, "assemble", run[q].at, run[q].gates, run[q].hand, run[q].lines,
                 run[q].wrote, run[q].exit)
BY Onward, Ends, Busy DEF ReadCart, Points, Codes

LEMMA StageRomMoves ==
  ASSUME IInv, NEW q \in Procs, StageRom(q)
  PROVE  Went(q, "asar", run[q].at, run[q].gates, run[q].hand, run[q].lines,
              run[q].wrote, run[q].exit)
BY Onward DEF StageRom, Points

LEMMA AsarMoves ==
  ASSUME IInv, NEW q \in Procs, Asar(q)
  PROVE  Went(q, "collect", run[q].at, run[q].gates, run[q].hand, run[q].lines,
              run[q].wrote, run[q].exit)
BY Onward DEF Asar, Points

LEMMA CollectMoves ==
  ASSUME IInv, NEW q \in Procs, Collect(q)
  PROVE  \/ asm[This(q)] = NONE /\ Over(q, "raised")
         \/ /\ asm[This(q)] \in Cart \union {TORN}
            /\ Went(q, "unlink", run[q].at, run[q].gates, asm[This(q)], run[q].lines,
                    run[q].wrote, run[q].exit)
<1>1. asm[This(q)] \in Hands
  BY Busy DEF Collect, At, Placed, Building, IInv, Typed
<1>2. CASE asm[This(q)] = NONE /\ End(q, "raised")
  BY <1>2, Ends, Busy DEF Codes
<1>3. CASE /\ asm[This(q)] # NONE
           /\ run' = [run EXCEPT ![q].pc = "unlink", ![q].hand = asm[This(q)]]
  <2> DEFINE h == asm[This(q)]
  <2>1. h \in Hands /\ run' = [run EXCEPT ![q].pc = "unlink", ![q].hand = h]
    BY <1>1, <1>3
  <2> HIDE DEF h
  <2>2. Went(q, "unlink", run[q].at, run[q].gates, h, run[q].lines, run[q].wrote, run[q].exit)
    BY <2>1, Handed DEF Points
  <2> QED BY <1>1, <1>3, <2>2 DEF h, Hands
<1> QED BY <1>2, <1>3 DEF Collect

LEMMA UnlinkMoves ==
  ASSUME IInv, NEW q \in Procs, Unlink(q)
  PROVE  \/ asm[This(q)] = NONE /\ asm' = asm /\ Over(q, "raised")
         \/ /\ asm[This(q)] # NONE /\ asm' = [asm EXCEPT ![This(q)] = NONE]
            /\ \E h \in Cart \union {TORN} :
                 /\ h = TORN <=> run[q].hand = TORN
                 /\ run[q].hand = Assembled => h = Whole
                 /\ Went(q, "open", run[q].at, run[q].gates, h, run[q].lines,
                         run[q].wrote, run[q].exit)
<1> DEFINE k == run[q].hand
           h == IF k = TORN THEN TORN ELSE [k EXCEPT !.patches = @ \union {"prefight"}]
<1>1. k \in Cart \union {TORN}
  BY Busy DEF Unlink, At, RunInv, Position
<1>2. /\ h \in Cart \union {TORN} /\ (h = TORN <=> k = TORN)
      /\ (k = Assembled => h = Whole)
  <2>1. CASE k = TORN
    BY <2>1, Carts
  <2>2. CASE k # TORN
    <3>1. h = [k EXCEPT !.patches = @ \union {"prefight"}] /\ k \in Cart
      BY <1>1, <2>2
    <3> HIDE DEF k, h
    <3> QED BY <2>2, <3>1, Carts
  <2> QED BY <2>1, <2>2
<1>3. CASE asm[This(q)] = NONE /\ asm' = asm /\ End(q, "raised")
  BY <1>3, Ends, Busy DEF Codes
<1>4. CASE /\ asm[This(q)] # NONE /\ asm' = [asm EXCEPT ![This(q)] = NONE]
           /\ run' = [run EXCEPT ![q].pc = "open", ![q].hand = h]
  <2> HIDE DEF h
  <2>1. h \in Hands
    BY <1>2 DEF Hands
  <2>2. Went(q, "open", run[q].at, run[q].gates, h, run[q].lines, run[q].wrote, run[q].exit)
    BY <1>4, <2>1, Handed DEF Points
  <2> QED BY <1>2, <1>4, <2>2
<1>5. asm[This(q)] # NONE =>
        run' = [run EXCEPT ![q].pc = "open", ![q].hand = h]
  <2>1. run[q] \in RunType /\ run \in [Procs -> RunType]
    BY Busy
  <2>2. asm[This(q)] # NONE =>
          run' = [run EXCEPT ![q].pc = "open", ![q].hand =
            IF @ = TORN THEN TORN ELSE [@ EXCEPT !.patches = @ \union {"prefight"}]]
    BY DEF Unlink
  <2> QED BY <2>1, <2>2 DEF RunType
<1> QED BY <1>3, <1>4, <1>5 DEF Unlink

LEMMA OpenImageMoves ==
  ASSUME IInv, NEW q \in Procs, OpenImage(q)
  PROVE  Went(q, "fill", run[q].at, run[q].gates, run[q].hand, run[q].lines, TRUE, run[q].exit)
<1> DEFINE u == run[q]
<1>u. u \in RunType /\ run \in [Procs -> RunType]
  BY Busy
<1> DEFINE t == [u EXCEPT !.pc = "fill", !.wrote = TRUE]
<1>a. t \in RunType
  BY <1>u DEF RunType, Points
<1>b. run' = [run EXCEPT ![q] = t]
  BY <1>u DEF RunType, OpenImage
<1>c. /\ t.pc = "fill" /\ t.at = u.at /\ t.gates = u.gates /\ t.hand = u.hand
     /\ t.lines = u.lines /\ t.wrote = TRUE /\ t.exit = u.exit
     /\ t.wanted = u.wanted /\ t.mine = u.mine /\ t.release = u.release
  BY <1>u DEF RunType
<1> HIDE DEF t
<1>d. Went(q, t.pc, t.at, t.gates, t.hand, t.lines, t.wrote, t.exit)
  BY <1>u, <1>a, <1>b, <1>c, Goes
<1> QED BY <1>c, <1>d

\* The image and its line.
LineOf(q) == <<This(q), run[q].release, ImageOf(q)>>

LEMMA FillImageMoves ==
  ASSUME IInv, NEW q \in Procs, FillImage(q)
  PROVE  /\ ImageOf(q) \in Image /\ ImageOf(q).cart = run[q].hand
         /\ ImageOf(q).region = This(q) /\ ImageOf(q).table = run[q].mine[This(q)]
         /\ ImageOf(q).gated = run[q].gates[This(q)]
         /\ <<This(q), run[q].release>> \in Regions \X Releases
         /\ LineOf(q) \in Line
         /\ \/ /\ run[q].at = Len(run[q].wanted)
               /\ Went(q, "manifest", run[q].at, run[q].gates, NONE,
                       Append(run[q].lines, LineOf(q)), run[q].wrote, run[q].exit)
            \/ /\ run[q].at # Len(run[q].wanted)
               /\ Went(q, "build", run[q].at + 1, run[q].gates, NONE,
                       Append(run[q].lines, LineOf(q)), run[q].wrote, run[q].exit)
<1> DEFINE u == run[q]
           more == Append(u.lines, LineOf(q))
<1>1. u.pc = "fill"
  BY DEF FillImage, At
<1>2. /\ This(q) \in Regions /\ u.hand \in Cart /\ u.mine \in Copies /\ u.gates \in Copies
      /\ u.release \in Releases
  BY <1>1, Busy DEF RunInv, Position, Placed, Building
<1>3. u.mine[This(q)] \in AnyTable /\ u.gates[This(q)] \in AnyTable
  BY <1>2 DEF Copies, AnyTable
<1>4. /\ ImageOf(q) \in Image /\ ImageOf(q).cart = u.hand
      /\ ImageOf(q).region = This(q) /\ ImageOf(q).table = u.mine[This(q)]
      /\ ImageOf(q).gated = u.gates[This(q)]
  BY <1>2, <1>3 DEF ImageOf, Image
<1>5. LineOf(q) \in Line /\ <<This(q), u.release>> \in Regions \X Releases
  BY <1>2, <1>4 DEF LineOf, Line
<1>6. more \in Seq(Line) /\ NONE \in Hands
  BY <1>5, Busy DEF Hands
<1>u. u \in RunType /\ run \in [Procs -> RunType]
  BY Busy
<1>7. CASE AtLast(q)
  <2>1. run' = [run EXCEPT ![q].hand = NONE, ![q].lines = more, ![q].pc = "manifest"]
    BY <1>7, <1>u DEF FillImage, LineOf, RunType
  <2>2. u.at \in Nat /\ u.at + 1 \in Nat
    BY Busy
  <2>m. more \in Seq(Line)
    BY <1>6
  <2> HIDE DEF more
  <2> DEFINE t == [u EXCEPT !.hand = NONE, !.lines = more, !.pc = "manifest"]
  <2>a. t \in RunType
    BY <1>u, <2>2, <2>m, <1>6 DEF RunType, Points
  <2>b. run' = [run EXCEPT ![q] = t]
    BY <1>u, <2>1 DEF RunType
  <2>c. /\ t.pc = "manifest" /\ t.at = u.at /\ t.gates = u.gates /\ t.hand = NONE
       /\ t.lines = more /\ t.wrote = u.wrote /\ t.exit = u.exit
       /\ t.wanted = u.wanted /\ t.mine = u.mine /\ t.release = u.release
    BY <1>u DEF RunType
  <2> HIDE DEF t
  <2>d. Went(q, t.pc, t.at, t.gates, t.hand, t.lines, t.wrote, t.exit)
    BY <1>u, <2>a, <2>b, <2>c, Goes
  <2> QED BY <1>4, <1>5, <1>7, <2>c, <2>d DEF AtLast, more
<1>8. CASE ~AtLast(q)
  <2>1. run' = [run EXCEPT ![q].hand = NONE, ![q].lines = more, ![q].pc = "build",
                           ![q].at = u.at + 1]
    BY <1>8, <1>u DEF FillImage, LineOf, RunType
  <2>2. u.at \in Nat /\ u.at + 1 \in Nat
    BY Busy
  <2>m. more \in Seq(Line)
    BY <1>6
  <2> HIDE DEF more
  <2> DEFINE t == [u EXCEPT !.hand = NONE, !.lines = more, !.pc = "build", !.at = u.at + 1]
  <2>a. t \in RunType
    BY <1>u, <2>2, <2>m, <1>6 DEF RunType, Points
  <2>b. run' = [run EXCEPT ![q] = t]
    BY <1>u, <2>1 DEF RunType
  <2>c. /\ t.pc = "build" /\ t.at = u.at + 1 /\ t.gates = u.gates /\ t.hand = NONE
       /\ t.lines = more /\ t.wrote = u.wrote /\ t.exit = u.exit
       /\ t.wanted = u.wanted /\ t.mine = u.mine /\ t.release = u.release
    BY <1>u DEF RunType
  <2> HIDE DEF t
  <2>d. Went(q, t.pc, t.at, t.gates, t.hand, t.lines, t.wrote, t.exit)
    BY <1>u, <2>a, <2>b, <2>c, Goes
  <2> QED BY <1>4, <1>5, <1>8, <2>c, <2>d DEF AtLast, more
<1> QED BY <1>7, <1>8

LEMMA ManifestMoves ==
  ASSUME IInv, NEW q \in Procs
  PROVE  /\ OpenManifest(q) =>
              Went(q, "lines", run[q].at, run[q].gates, run[q].hand, run[q].lines,
                   run[q].wrote, run[q].exit)
         /\ WriteManifest(q) =>
              Went(q, "idle", run[q].at, run[q].gates, run[q].hand, run[q].lines,
                   run[q].wrote, "0")
<1> DEFINE u == run[q]
<1>u. u \in RunType /\ run \in [Procs -> RunType]
  BY Busy
<1>1. ASSUME OpenManifest(q)
      PROVE  Went(q, "lines", run[q].at, run[q].gates, run[q].hand, run[q].lines,
                  run[q].wrote, run[q].exit)
  BY <1>1, Onward DEF OpenManifest, Points
<1>2. ASSUME WriteManifest(q)
      PROVE  Went(q, "idle", run[q].at, run[q].gates, run[q].hand, run[q].lines,
                  run[q].wrote, "0")
  <2> DEFINE t == [u EXCEPT !.pc = "idle", !.exit = "0"]
  <2>a. t \in RunType
    BY <1>u DEF RunType, Points, Codes
  <2>b. run' = [run EXCEPT ![q] = t]
    BY <1>u, <1>2 DEF RunType, WriteManifest
  <2>c. /\ t.pc = "idle" /\ t.at = u.at /\ t.gates = u.gates /\ t.hand = u.hand
       /\ t.lines = u.lines /\ t.wrote = u.wrote /\ t.exit = "0"
       /\ t.wanted = u.wanted /\ t.mine = u.mine /\ t.release = u.release
    BY <1>u DEF RunType
  <2> HIDE DEF t
  <2>d. Went(q, t.pc, t.at, t.gates, t.hand, t.lines, t.wrote, t.exit)
    BY <1>u, <2>a, <2>b, <2>c, Goes
  <2> QED BY <2>c, <2>d
<1> QED BY <1>1, <1>2

LEMMA FailureMoves ==
  ASSUME IInv, NEW q \in Procs, AssembleFails(q) \/ BuildRaises(q) \/ Kill(q)
  PROVE  run[q].pc # "idle" /\ (Over(q, "raised") \/ Over(q, "killed"))
<1>1. run[q].pc # "idle" /\ (End(q, "raised") \/ End(q, "killed"))
  BY DEF AssembleFails, BuildRaises, Kill, At
<1> QED BY <1>1, Ends, Busy DEF Codes

LEMMA EditMoves ==
  ASSUME IInv, Edit
  PROVE  run' = run /\ met' = met /\ asm' = asm /\ dist' = dist /\ manifest' = manifest
         /\ tables' \in Copies /\ release' \in Releases
<1>1. run' = run /\ met' = met /\ asm' = asm /\ dist' = dist /\ manifest' = manifest
  BY DEF Edit, built
<1>2. CASE \E r \in Regions : \E t \in Tables[r] \ {tables[r]} :
             tables' = [tables EXCEPT ![r] = t]
  <2>1. PICK r \in Regions : \E t \in Tables[r] : tables' = [tables EXCEPT ![r] = t]
    BY <1>2
  <2>2. PICK t \in Tables[r] : tables' = [tables EXCEPT ![r] = t]
    BY <2>1
  <2>3. tables \in [Regions -> AnyTable] /\ \A s \in Regions : tables[s] \in Tables[s]
    BY DEF IInv, Typed, Copies, AnyTable
  <2>4. t \in AnyTable
    BY DEF AnyTable
  <2>5. tables' \in [Regions -> AnyTable] /\ \A s \in Regions : tables'[s] \in Tables[s]
    BY <2>2, <2>3, <2>4
  <2>6. tables' \in Copies
    BY <2>5 DEF Copies, AnyTable
  <2> QED BY <1>1, <1>2, <2>6 DEF Edit, IInv, Typed
<1>3. CASE tables' = tables
  BY <1>1, <1>3 DEF Edit, IInv, Typed
<1> QED BY <1>1, <1>2, <1>3 DEF Edit
-----------------------------------------------------------------------------
LEMMA InitInv == Init => IInv
<1> SUFFICES ASSUME Init PROVE IInv
  OBVIOUS
<1>1. run \in [Procs -> RunType] /\ \A p \in Procs : run[p] = Idle(NONE, FALSE)
  BY IdleType DEF Init, Codes
<1>2. Typed
  BY <1>1 DEF Init, Typed, Copies, Hands
<1>3. ASSUME NEW p \in Procs PROVE RunInv(run[p])
  <2>1. run[p].pc = "idle" /\ run[p].wrote = FALSE
    BY <1>1, IdleType DEF Codes
  <2> QED BY <2>1 DEF RunInv, Position, Unwritten, Counted, Placed, Building, Closing
<1> QED BY <1>2, <1>3 DEF IInv

\* The invariant holds of every run when it does of the one that moved.
LEMMA Kept ==
  ASSUME IInv, NEW q \in Procs, run' \in [Procs -> RunType], Others(q), RunInv(run[q])',
         UNCHANGED sources, asm' \in [Regions -> Hands],
         dist' \in [Regions \X Releases -> Image \union {NONE, TORN}]
  PROVE  IInv'
<1>1. Typed'
  BY DEF IInv, Typed, sources
<1>2. ASSUME NEW p \in Procs PROVE RunInv(run[p])'
  <2>1. CASE p = q
    BY <2>1
  <2>2. CASE p # q
    <3>1. run'[p] = run[p] /\ RunInv(run[p])
      BY <2>2 DEF Others, IInv
    <3> QED BY <3>1 DEF RunInv, Position, Unwritten, Counted
  <2> QED BY <2>1, <2>2
<1> QED BY <1>1, <1>2 DEF IInv

LEMMA FilesTyped ==
  ASSUME IInv
  PROVE  /\ asm \in [Regions -> Hands]
         /\ dist \in [Regions \X Releases -> Image \union {NONE, TORN}]
BY DEF IInv, Typed

\* A run that is over.
LEMMA OverKept ==
  ASSUME IInv, NEW q \in Procs, NEW code, Over(q, code), run[q].pc # "idle",
         code \in {"1", "2", "gate raised"} => run[q].pc \in {"load", "gate"},
         code # NONE, UNCHANGED sources, asm' \in [Regions -> Hands], dist' = dist
  PROVE  IInv'
<1>1. /\ run'[q].pc = "idle" /\ run'[q].exit = code /\ run'[q].wrote = run[q].wrote
      /\ run' \in [Procs -> RunType] /\ Others(q)
  BY DEF Over
<1>2. run[q].pc \in {"load", "gate"} => run[q].wrote = FALSE
  BY Busy DEF RunInv, Unwritten
<1>3. RunInv(run[q])'
  BY <1>1, <1>2 DEF RunInv, Position, Unwritten, Counted, Placed, Building, Closing
<1> QED BY <1>1, <1>3, Kept, FilesTyped

\* A run that goes on with what it has.
LEMMA WentKept ==
  ASSUME IInv, NEW q \in Procs, NEW pc \in Points, NEW h \in Hands, NEW wrote \in BOOLEAN,
         Went(q, pc, run[q].at, run[q].gates, h, run[q].lines, wrote, run[q].exit),
         run[q].pc \in Building, pc \in Building,
         pc \in {"unlink", "open"} => h \in Cart \union {TORN},
         pc = "fill" => h \in Cart /\ wrote = TRUE,
         UNCHANGED sources, asm' \in [Regions -> Hands],
         dist' \in [Regions \X Releases -> Image \union {NONE, TORN}]
  PROVE  IInv'
<1> DEFINE u == run[q]
           v == run'[q]
<1>1. /\ run' \in [Procs -> RunType] /\ Others(q) /\ v.pc = pc /\ v.at = u.at
      /\ v.gates = u.gates /\ v.hand = h /\ v.lines = u.lines /\ v.wrote = wrote
      /\ v.exit = u.exit /\ v.wanted = u.wanted /\ v.mine = u.mine /\ v.release = u.release
  BY DEF Went
<1>2. RunInv(u)
  BY Busy
<1> HIDE DEF u, v
<1>3. Position(v)
  <2>1. /\ u.pc # "idle" /\ u.pc \in Placed /\ pc # "idle" /\ pc # "load"
    BY DEF Placed, Building, u
  <2> QED BY <1>1, <1>2, <2>1 DEF RunInv, Position
<1>4. Unwritten(v)
  BY <1>1, <1>2 DEF Unwritten, Building, Closing
<1>5. Counted(v)
  BY <1>1, <1>2 DEF RunInv, Counted, Building, Closing, u
<1>6. RunInv(run[q])'
  BY <1>3, <1>4, <1>5 DEF RunInv, v
<1> QED BY <1>1, <1>6, Kept

LEMMA PackKept == ASSUME IInv, NEW q \in Procs, Pack(q) PROVE IInv'
<1>1. PICK c \in Commands[q] :
           /\ run[q].pc = "idle" /\ run[q].exit = NONE
           /\ run' \in [Procs -> RunType] /\ Others(q) /\ met' = met \union Shared(q, c)
           /\ run'[q].pc = "load" /\ run'[q].wanted = c /\ run'[q].at = 1
           /\ run'[q].wrote = FALSE /\ run'[q].lines = <<>> /\ run'[q].exit = NONE
           /\ run'[q].mine = tables /\ run'[q].release = release
  BY PackMoves
<1>2. Len(c) > 0 /\ Injective(c) /\ tables \in Copies /\ release \in Releases
  BY CommandTypes DEF IInv, Typed
<1>3. RunInv(run[q])'
  BY <1>1, <1>2 DEF RunInv, Position, Unwritten, Counted, Placed, Building, Closing
<1>4. UNCHANGED <<sources, asm, dist>>
  BY DEF Pack, built
<1> QED BY <1>1, <1>3, <1>4, Kept, FilesTyped

LEMMA LoadGateKept == ASSUME IInv, NEW q \in Procs, LoadGate(q) PROVE IInv'
<1>1. UNCHANGED <<sources, asm, dist>> /\ run[q].pc = "load"
  BY DEF LoadGate, built, At
<1>2. CASE Over(q, "1") \/ Over(q, "2")
  BY <1>1, <1>2, OverKept, FilesTyped, ValuesAssumption
<1>3. CASE /\ Regional(run[q].wanted)
           /\ Went(q, "gate", run[q].at, tables, run[q].hand, run[q].lines,
                    run[q].wrote, run[q].exit)
  <2> DEFINE u == run[q]
             v == run'[q]
  <2>1. /\ run' \in [Procs -> RunType] /\ Others(q) /\ v.pc = "gate" /\ v.at = u.at
        /\ v.gates = tables /\ v.lines = u.lines /\ v.wrote = u.wrote
        /\ v.exit = u.exit /\ v.wanted = u.wanted /\ v.mine = u.mine /\ v.release = u.release
    BY <1>3 DEF Went
  <2>2. RunInv(u) /\ tables \in Copies /\ Len(u.wanted) \in Nat
    BY Busy DEF IInv, Typed
  <2>3. RunInv(run[q])'
    BY <1>1, <1>3, <2>1, <2>2 DEF RunInv, Position, Unwritten, Counted, Placed, Building, Closing
  <2> QED BY <1>1, <2>1, <2>3, Kept, FilesTyped
<1> QED BY <1>2, <1>3, LoadGateMoves

LEMMA GateRegionKept == ASSUME IInv, NEW q \in Procs, GateRegion(q) PROVE IInv'
<1>1. UNCHANGED <<sources, asm, dist>> /\ run[q].pc = "gate"
  BY DEF GateRegion, built, At
<1>2. CASE Over(q, "gate raised") \/ Over(q, "1")
  BY <1>1, <1>2, OverKept, FilesTyped, ValuesAssumption
<1> DEFINE u == run[q]
           v == run'[q]
<1>3. CASE \/ Went(q, "build", 1, u.gates, u.hand, u.lines, u.wrote, u.exit)
           \/ ~AtLast(q) /\ Went(q, "gate", u.at + 1, u.gates, u.hand, u.lines, u.wrote, u.exit)
  <2>1. /\ RunInv(u) /\ Len(u.wanted) \in Nat /\ u.at \in 1 .. Len(u.wanted)
        /\ u.lines \in Seq(Line)
    BY <1>1, Busy DEF Placed
  <2>2. /\ run' \in [Procs -> RunType] /\ Others(q) /\ v.pc \in {"gate", "build"}
        /\ v.at \in 1 .. Len(u.wanted) /\ (v.pc = "build" => v.at = 1)
        /\ v.gates = u.gates /\ v.lines = u.lines /\ v.wrote = u.wrote
        /\ v.exit = u.exit /\ v.wanted = u.wanted /\ v.mine = u.mine /\ v.release = u.release
    BY <1>3, <2>1 DEF Went, AtLast
  <2>3. u.pc = "gate" /\ u.lines = <<>> /\ u.wrote = FALSE
    BY <1>1, <2>1 DEF RunInv, Unwritten
  <2> HIDE DEF u, v
  <2>4. Position(v)
    <3>1. /\ u.exit = NONE /\ Len(u.wanted) > 0 /\ Injective(u.wanted) /\ u.mine \in Copies
          /\ u.release \in Releases /\ u.gates \in Copies /\ Regional(u.wanted)
      BY <2>1, <2>3 DEF RunInv, Position, Placed
    <3> QED BY <2>2, <3>1 DEF Position
  <2>5. Unwritten(v) /\ Counted(v)
    <3>1. v.lines = <<>> /\ v.wrote = FALSE /\ Len(v.lines) = 0
      BY <2>2, <2>3
    <3>2. Unwritten(v)
      BY <2>2, <3>1 DEF Unwritten, Closing
    <3>3. Counted(v)
      BY <2>2, <3>1 DEF Counted, Building, Closing
    <3> QED BY <3>2, <3>3
  <2>6. RunInv(run[q])'
    BY <2>4, <2>5 DEF RunInv, v
  <2> QED BY <1>1, <2>2, <2>6, Kept, FilesTyped
<1> QED BY <1>2, <1>3, GateRegionMoves

LEMMA BuildKept ==
  ASSUME IInv, NEW q \in Procs,
         \/ ReadCart(q) \/ StageRom(q) \/ Asar(q) \/ AssembleFails(q) \/ Collect(q)
         \/ Unlink(q) \/ BuildRaises(q) \/ OpenImage(q)
  PROVE  IInv'
<1>1. UNCHANGED sources /\ run[q].pc \in Building \ {"fill"}
  BY DEF ReadCart, StageRom, Asar, AssembleFails, Collect, Unlink, BuildRaises, OpenImage,
         At, Building
<1>2. /\ This(q) \in Regions /\ RunInv(run[q]) /\ run[q].hand \in Hands /\ run[q].wrote \in BOOLEAN
      /\ asm \in [Regions -> Hands]
      /\ dist \in [Regions \X Releases -> Image \union {NONE, TORN}]
  BY <1>1, Busy, FilesTyped DEF Placed
<1>3. NONE \in Hands /\ TORN \in Hands /\ Staged \in Hands /\ Assembled \in Hands
  BY Carts DEF Hands
<1>4. ASSUME NEW x \in Hands, asm' = [asm EXCEPT ![This(q)] = x] \/ asm' = asm
      PROVE  asm' \in [Regions -> Hands]
  BY <1>2, <1>4
<1>5. ASSUME Over(q, "raised"), dist' = dist, asm' = asm
      PROVE  IInv'
  BY <1>1, <1>2, <1>5, OverKept, ValuesAssumption DEF Building
<1>6. ASSUME NEW pc \in {"assemble", "asar", "collect"},
              Went(q, pc, run[q].at, run[q].gates, run[q].hand, run[q].lines,
                   run[q].wrote, run[q].exit),
              dist' = dist, asm' \in [Regions -> Hands]
       PROVE  IInv'
  <2>1. pc \in Points /\ pc \in Building /\ pc \notin {"unlink", "open", "fill"}
    BY DEF Points, Building
  <2>2. UNCHANGED sources /\ run[q].pc \in Building
    BY <1>1
  <2> QED BY <1>2, <1>6, <2>1, <2>2, WentKept
<1>7. CASE ReadCart(q)
  <2>1. asm' = asm /\ dist' = dist
    BY <1>7 DEF ReadCart, built
  <2> QED BY <1>2, <1>5, <1>7, <1>6, <2>1, ReadCartMoves
<1>8. CASE StageRom(q)
  <2>1. dist' = dist /\ \E x \in Hands : asm' = [asm EXCEPT ![This(q)] = x]
    BY <1>3, <1>8 DEF StageRom
  <2>2. asm' \in [Regions -> Hands]
    BY <1>4, <2>1
  <2> QED BY <1>8, <1>6, <2>1, <2>2, StageRomMoves
<1>9. CASE Asar(q)
  <2>1. dist' = dist /\ \E x \in Hands : asm' = [asm EXCEPT ![This(q)] = x]
    BY <1>3, <1>9 DEF Asar
  <2>2. asm' \in [Regions -> Hands]
    BY <1>4, <2>1
  <2> QED BY <1>9, <1>6, <2>1, <2>2, AsarMoves
<1>10. CASE AssembleFails(q) \/ BuildRaises(q)
  <2>1. asm' = asm /\ dist' = dist
    BY <1>10 DEF AssembleFails, BuildRaises, built
  <2>2. run[q].pc # "idle" /\ (Over(q, "raised") \/ Over(q, "killed"))
    BY <1>10, FailureMoves
  <2> QED BY <1>1, <1>2, <2>1, <2>2, OverKept, ValuesAssumption
<1>11. CASE Collect(q)
  <2>1. asm' = asm /\ dist' = dist
    BY <1>11 DEF Collect, built
  <2>2. CASE asm[This(q)] = NONE /\ Over(q, "raised")
    BY <1>5, <2>1, <2>2
  <2>3. CASE /\ asm[This(q)] \in Cart \union {TORN}
             /\ Went(q, "unlink", run[q].at, run[q].gates, asm[This(q)], run[q].lines,
                    run[q].wrote, run[q].exit)
    <3>1. asm[This(q)] \in Hands /\ run[q].pc \in Building
      BY <1>1, <2>3 DEF Hands
    <3>2. "unlink" \in Points /\ "unlink" \in Building
      BY DEF Points, Building
    <3>3. /\ asm[This(q)] \in Cart \union {TORN} /\ UNCHANGED sources
          /\ asm' \in [Regions -> Hands] /\ run[q].wrote \in BOOLEAN
          /\ dist' \in [Regions \X Releases -> Image \union {NONE, TORN}]
      BY <1>1, <1>2, <2>1, <2>3
    <3>4. Went(q, "unlink", run[q].at, run[q].gates, asm[This(q)], run[q].lines,
               run[q].wrote, run[q].exit)
      BY <2>3
    <3> QED BY <3>1, <3>2, <3>3, <3>4, WentKept
  <2> QED BY <1>11, <2>2, <2>3, CollectMoves
<1>12. CASE Unlink(q)
  <2>1. dist' = dist
    BY <1>12 DEF Unlink
  <2>2. CASE asm' = asm /\ Over(q, "raised")
    BY <1>5, <2>1, <2>2
  <2>3. CASE /\ asm' = [asm EXCEPT ![This(q)] = NONE]
             /\ \E h \in Cart \union {TORN} :
                   Went(q, "open", run[q].at, run[q].gates, h, run[q].lines,
                        run[q].wrote, run[q].exit)
    <3>1. asm' \in [Regions -> Hands]
      BY <1>3, <1>4, <2>3
    <3>2. "open" \in Points /\ "open" \in Building /\ run[q].pc \in Building
      BY <1>1 DEF Points, Building
    <3>3. PICK h \in Cart \union {TORN} :
            Went(q, "open", run[q].at, run[q].gates, h, run[q].lines,
                 run[q].wrote, run[q].exit)
      BY <2>3
    <3>4. h \in Hands
      BY DEF Hands
    <3> QED BY <1>1, <1>2, <2>1, <3>1, <3>2, <3>3, <3>4, WentKept
  <2> QED BY <1>12, <2>2, <2>3, UnlinkMoves
<1>13. CASE OpenImage(q)
  <2>1. /\ asm' = asm /\ run[q].pc = "open" /\ run[q].hand # TORN
        /\ dist' = [dist EXCEPT ![<<This(q), run[q].release>>] = TORN]
    BY <1>13 DEF OpenImage, At
  <2>2. dist' \in [Regions \X Releases -> Image \union {NONE, TORN}]
    BY <1>2, <2>1
  <2>3. run[q].hand \in Cart
    BY <1>2, <2>1 DEF RunInv, Position
  <2>4. "fill" \in Points /\ "fill" \in Building /\ run[q].pc \in Building
    BY <1>1 DEF Points, Building
  <2>5. Went(q, "fill", run[q].at, run[q].gates, run[q].hand, run[q].lines, TRUE, run[q].exit)
    BY <1>13, OpenImageMoves
  <2> QED BY <1>1, <1>2, <2>1, <2>2, <2>3, <2>4, <2>5, WentKept
<1> QED BY <1>7, <1>8, <1>9, <1>10, <1>11, <1>12, <1>13

LEMMA FillImageKept == ASSUME IInv, NEW q \in Procs, FillImage(q) PROVE IInv'
<1> DEFINE u == run[q]
           v == run'[q]
           more == Append(u.lines, LineOf(q))
<1>1. UNCHANGED <<sources, asm>> /\ u.pc = "fill"
  BY DEF FillImage, At
<1>2. /\ ImageOf(q) \in Image /\ <<This(q), u.release>> \in Regions \X Releases
      /\ LineOf(q) \in Line
  BY FillImageMoves
<1>3. dist' \in [Regions \X Releases -> Image \union {NONE, TORN}]
  <2>1. dist' = [dist EXCEPT ![<<This(q), u.release>>] = ImageOf(q)]
    BY DEF FillImage
  <2> QED BY <1>2, <2>1, FilesTyped
<1>4. /\ RunInv(u) /\ Len(u.wanted) \in Nat /\ u.at \in 1 .. Len(u.wanted)
      /\ u.lines \in Seq(Line) /\ This(q) = u.wanted[u.at]
  BY <1>1, Busy DEF Placed, Building
<1>5. /\ run' \in [Procs -> RunType] /\ Others(q)
      /\ \/ v.pc = "manifest" /\ v.at = u.at /\ u.at = Len(u.wanted)
         \/ v.pc = "build" /\ v.at = u.at + 1 /\ u.at # Len(u.wanted)
      /\ v.gates = u.gates /\ v.lines = more /\ v.wrote = u.wrote
      /\ v.exit = u.exit /\ v.wanted = u.wanted /\ v.mine = u.mine /\ v.release = u.release
  BY FillImageMoves DEF Went
<1>6. Len(more) = u.at /\ \A i \in 1 .. Len(more) : more[i][1] = u.wanted[i]
  <2>1. Len(u.lines) = u.at - 1 /\ \A i \in 1 .. Len(u.lines) : u.lines[i][1] = u.wanted[i]
    BY <1>1, <1>4 DEF RunInv, Counted, Building
  <2>2. LineOf(q)[1] = u.wanted[u.at]
    BY <1>4 DEF LineOf
  <2> DEFINE l == LineOf(q)
             ls == u.lines
  <2> HIDE DEF l, ls
  <2>3. ls \in Seq(Line) /\ l \in Line
    BY <1>2, <1>4 DEF l, ls
  <2>4. Len(Append(ls, l)) = Len(ls) + 1
        /\ \A i \in 1 .. Len(ls) + 1 : Append(ls, l)[i] = IF i = Len(ls) + 1 THEN l ELSE ls[i]
    BY <2>3
  <2>5. Len(ls) + 1 = u.at
    BY <1>4, <2>1 DEF ls
  <2>6. ls = u.lines /\ l[1] = u.wanted[u.at] /\ more = Append(ls, l)
    BY <2>2 DEF l, ls
  <2> HIDE DEF u, more
  <2>7. Len(ls) = u.at - 1 /\ \A i \in 1 .. Len(ls) : ls[i][1] = u.wanted[i]
    BY <2>1, <2>6
  <2>8. u.at \in Nat
    BY <1>4
  <2> QED BY <2>4, <2>5, <2>6, <2>7, <2>8
<1>7. RunInv(run[q])'
  <2> HIDE DEF u, v, more
  <2>1. Position(v)
    BY <1>1, <1>4, <1>5 DEF RunInv, Position, Placed, Building, Closing
  <2>2. Unwritten(v)
    BY <1>1, <1>4, <1>5 DEF RunInv, Unwritten, Building, Closing
  <2>3. Counted(v)
    BY <1>4, <1>5, <1>6 DEF Counted, Building, Closing
  <2> QED BY <2>1, <2>2, <2>3 DEF RunInv, v
<1> QED BY <1>1, <1>3, <1>5, <1>7, Kept, FilesTyped

LEMMA ManifestKept ==
  ASSUME IInv, NEW q \in Procs, OpenManifest(q) \/ WriteManifest(q)
  PROVE  IInv'
<1> DEFINE u == run[q]
           v == run'[q]
<1>1. UNCHANGED <<sources, asm, dist>> /\ u.pc \in Closing
  BY DEF OpenManifest, WriteManifest, At, Closing
<1>2. /\ run' \in [Procs -> RunType] /\ Others(q) /\ v.at = u.at /\ v.gates = u.gates
      /\ v.lines = u.lines /\ v.wrote = u.wrote /\ v.wanted = u.wanted /\ v.mine = u.mine
      /\ v.release = u.release
      /\ (v.pc = "lines" /\ v.exit = u.exit) \/ (v.pc = "idle" /\ v.exit = "0")
  BY ManifestMoves DEF Went
<1>3. RunInv(u)
  BY Busy
<1>4. RunInv(run[q])'
  <2> HIDE DEF u, v
  <2>1. /\ Len(u.wanted) > 0 /\ Injective(u.wanted) /\ u.mine \in Copies
        /\ u.release \in Releases /\ Regional(u.wanted) /\ u.wrote = TRUE
        /\ Len(u.lines) = Len(u.wanted)
        /\ \A i \in 1 .. Len(u.lines) : u.lines[i][1] = u.wanted[i]
        /\ u.exit = NONE
    BY <1>1, <1>3 DEF RunInv, Position, Unwritten, Counted, Placed, Closing
  <2>2. Position(v)
    BY <1>2, <2>1 DEF Position, Placed, Building, Closing
  <2>3. Unwritten(v)
    BY <1>2, <2>1, ValuesAssumption DEF Unwritten, Closing
  <2>4. Counted(v)
    BY <1>2, <2>1 DEF Counted, Building, Closing
  <2> QED BY <2>2, <2>3, <2>4 DEF RunInv, v
<1> QED BY <1>1, <1>2, <1>4, Kept, FilesTyped

LEMMA NextInv == ASSUME IInv, [Next]_vars PROVE IInv'
<1>1. CASE Edit \/ UNCHANGED vars
  <2>1. run' = run /\ asm' = asm /\ dist' = dist /\ tables' \in Copies /\ release' \in Releases
    <3>1. CASE Edit
      BY <3>1, EditMoves
    <3>2. CASE UNCHANGED vars
      BY <3>2 DEF vars, sources, built, IInv, Typed
    <3> QED BY <1>1, <3>1, <3>2
  <2>2. Typed'
    BY <2>1 DEF IInv, Typed
  <2>3. ASSUME NEW p \in Procs PROVE RunInv(run[p])'
    <3>1. RunInv(run[p])
      BY DEF IInv
    <3> QED BY <2>1, <3>1 DEF RunInv, Position, Unwritten, Counted
  <2> QED BY <2>2, <2>3 DEF IInv
<1>2. ASSUME NEW q \in Procs, Kill(q) PROVE IInv'
  <2>1. run[q].pc # "idle" /\ (Over(q, "raised") \/ Over(q, "killed"))
    BY <1>2, FailureMoves
  <2>2. UNCHANGED sources /\ asm' = asm /\ dist' = dist
    BY <1>2 DEF Kill, built
  <2> QED BY <2>1, <2>2, OverKept, FilesTyped, ValuesAssumption
<1> QED
  BY <1>1, <1>2, PackKept, LoadGateKept, GateRegionKept, BuildKept, FillImageKept,
     ManifestKept DEF Next

LEMMA InvAlways == Spec => []IInv
BY InitInv, NextInv, PTL DEF Spec

(* pack.py builds nothing until every wanted region has passed its gate: a *)
(* run that ends refused, or by a gate that raises, has written no image,  *)
(* for any number of regions and processes and whatever else goes on.      *)
THEOREM RefusalsComeFirst == Spec => []RefusedWritesNothing
<1>1. IInv => RefusedWritesNothing
  BY ValuesAssumption DEF IInv, RunInv, Position, Unwritten, RefusedWritesNothing
<1> QED BY <1>1, InvAlways, PTL

-----------------------------------------------------------------------------
(* What a step of any kind does to the runs.                               *)
Move(q) ==
  \/ Pack(q) \/ LoadGate(q) \/ GateRegion(q) \/ ReadCart(q) \/ StageRom(q)
  \/ Asar(q) \/ AssembleFails(q) \/ Collect(q) \/ Unlink(q) \/ BuildRaises(q)
  \/ OpenImage(q) \/ FillImage(q) \/ OpenManifest(q) \/ WriteManifest(q) \/ Kill(q)

\* A run that brought the file of another down with it, or is about to.
Harm(u) ==
  u.exit \in {"raised", "killed"} \/ (u.pc \in {"unlink", "open"} /\ u.hand = TORN)

LEMMA Moves ==
  ASSUME IInv, NEW q \in Procs, Move(q)
  PROVE  /\ Others(q)
         /\ Harm(run[q]) => Harm(run'[q])
         /\ \/ run[q].pc = "idle" /\ \E c \in Commands[q] :
                 run'[q].wanted = c /\ met' = met \union Shared(q, c)
            \/ run[q].pc # "idle" /\ met' = met /\ run'[q].pc = "idle"
            \/ run[q].pc # "idle" /\ met' = met /\ run'[q].wanted = run[q].wanted
<1> USE Busy, ValuesAssumption DEF Harm
<1>1. run[q].pc # "idle" => run[q].exit = NONE
  BY DEF RunInv, Position
<1>2. CASE Pack(q)
  BY <1>2, PackMoves
<1>3. CASE LoadGate(q)
  <2>1. run[q].pc = "load" /\ met' = met
    BY <1>3 DEF LoadGate, At
  <2> QED BY <1>1, <1>3, <2>1, LoadGateMoves DEF Over, Went
<1>4. CASE GateRegion(q)
  <2>1. run[q].pc = "gate" /\ met' = met
    BY <1>4 DEF GateRegion, At
  <2> QED BY <1>1, <1>4, <2>1, GateRegionMoves DEF Over, Went
<1>5. CASE ReadCart(q)
  <2>1. run[q].pc = "build" /\ met' = met
    BY <1>5 DEF ReadCart, At
  <2> QED BY <1>1, <1>5, <2>1, ReadCartMoves DEF Over, Went
<1>6. CASE StageRom(q)
  <2>1. run[q].pc = "assemble" /\ met' = met
    BY <1>6 DEF StageRom, At
  <2> QED BY <1>1, <1>6, <2>1, StageRomMoves DEF Over, Went
<1>7. CASE Asar(q)
  <2>1. run[q].pc = "asar" /\ met' = met
    BY <1>7 DEF Asar, At
  <2> QED BY <1>1, <1>7, <2>1, AsarMoves DEF Over, Went
<1>8. CASE AssembleFails(q) \/ BuildRaises(q) \/ Kill(q)
  <2>1. met' = met
    BY <1>8 DEF AssembleFails, BuildRaises, Kill
  <2> QED BY <1>8, <2>1, FailureMoves DEF Over
<1>9. CASE Collect(q)
  <2>1. run[q].pc = "collect" /\ met' = met
    BY <1>9 DEF Collect, At
  <2> QED BY <1>1, <1>9, <2>1, CollectMoves DEF Over, Went
<1>10. CASE Unlink(q)
  <2>1. run[q].pc = "unlink" /\ met' = met
    BY <1>10 DEF Unlink, At
  <2> QED BY <1>1, <1>10, <2>1, UnlinkMoves DEF Over, Went
<1>11. CASE OpenImage(q)
  <2>1. run[q].pc = "open" /\ met' = met /\ run[q].hand # TORN
    BY <1>11 DEF OpenImage, At
  <2> QED BY <1>1, <1>11, <2>1, OpenImageMoves DEF Over, Went
<1>12. CASE FillImage(q)
  <2>1. run[q].pc = "fill" /\ met' = met
    BY <1>12 DEF FillImage, At
  <2> QED BY <1>1, <1>12, <2>1, FillImageMoves DEF Over, Went
<1>13. CASE OpenManifest(q) \/ WriteManifest(q)
  <2>1. run[q].pc \in Closing /\ met' = met
    BY <1>13 DEF OpenManifest, WriteManifest, At, Closing
  <2> QED BY <1>1, <1>13, <2>1, ManifestMoves DEF Over, Went, Closing
<1> QED
  BY <1>2, <1>3, <1>4, <1>5, <1>6, <1>7, <1>8, <1>9, <1>10, <1>11, <1>12, <1>13 DEF Move

\* Regions two runs are working on at once are recorded.
Wants(u, r) == u.pc # "idle" /\ \E i \in 1 .. Len(u.wanted) : u.wanted[i] = r
MetInv ==
  \A p, q \in Procs : \A r : p # q /\ Wants(run[p], r) /\ Wants(run[q], r) => r \in met

LEMMA MetKept ==
  ASSUME IInv, MetInv, NEW q \in Procs, Move(q)
  PROVE  MetInv' /\ met \subseteq met'
<1>1. Others(q) /\ met \subseteq met'
  BY Moves
<1>2. ASSUME NEW p \in Procs \ {q}, NEW r, Wants(run[p], r), Wants(run'[q], r)
      PROVE  r \in met'
  <2>1. CASE run[q].pc # "idle" /\ run'[q].wanted = run[q].wanted
    <3>1. Wants(run[q], r)
      BY <1>2, <2>1 DEF Wants
    <3> QED BY <1>1, <1>2, <3>1 DEF MetInv
  <2>2. ASSUME NEW c \in Commands[q], run'[q].wanted = c, met' = met \union Shared(q, c)
        PROVE  r \in met'
    <3>1. r \in ToSet(c)
      BY <1>2, <2>2, CommandTypes DEF Wants
    <3>2. r \in ToSet(run[p].wanted) /\ ~At(p, "idle")
      <4>1. DOMAIN run[p].wanted = 1 .. Len(run[p].wanted)
        BY Busy
      <4> QED BY <1>2, <4>1 DEF Wants, ToSet, At
    <3> QED BY <2>2, <3>1, <3>2 DEF Shared
  <2> QED BY <1>2, <2>1, <2>2, Moves DEF Wants
<1>3. \A p \in Procs \ {q} : run'[p] = run[p]
  BY <1>1 DEF Others
<1>4. ASSUME NEW p \in Procs, NEW t \in Procs, NEW r, p # t,
             Wants(run'[p], r), Wants(run'[t], r)
      PROVE  r \in met'
  <2>1. CASE p = q \/ t = q
    BY <1>2, <1>3, <1>4, <2>1
  <2>2. CASE p # q /\ t # q
    BY <1>1, <1>3, <1>4, <2>2 DEF MetInv
  <2> QED BY <2>1, <2>2
<1>5. MetInv'
  BY <1>4 DEF MetInv, Wants
<1> QED BY <1>1, <1>5

\* A run with a region in hand wants it.
LEMMA HandWants ==
  ASSUME IInv, NEW p \in Procs, run[p].pc \in Placed
  PROVE  Wants(run[p], This(p))
<1>1. run[p].at \in 1 .. Len(run[p].wanted) /\ This(p) = run[p].wanted[run[p].at]
  BY Busy
<1> QED BY <1>1 DEF Wants, Placed, Building

\* A file changes, or nothing does.
LEMMA Still ==
  ASSUME IInv, Edit \/ UNCHANGED vars
  PROVE  run' = run /\ met' = met /\ asm' = asm /\ dist' = dist /\ manifest' = manifest
BY EditMoves DEF vars, built

LEMMA Cases ==
  ASSUME [Next]_vars
  PROVE  (Edit \/ UNCHANGED vars) \/ \E q \in Procs : Move(q)
BY DEF Next, Move

LEMMA MetAlways == Spec => [](IInv /\ MetInv)
<1>1. Init => MetInv
  <2> SUFFICES ASSUME Init, NEW p \in Procs PROVE run[p].pc = "idle"
    BY DEF MetInv, Wants
  <2> QED BY DEF Init, Idle
<1>2. IInv /\ MetInv /\ [Next]_vars => MetInv'
  <2> SUFFICES ASSUME IInv, MetInv, [Next]_vars PROVE MetInv'
    OBVIOUS
  <2>1. CASE Edit \/ UNCHANGED vars
    BY <2>1, Still DEF MetInv, Wants
  <2>2. CASE \E q \in Procs : Move(q)
    BY <2>2, MetKept
  <2> QED BY <2>1, <2>2, Cases
<1> QED BY <1>1, <1>2, InitInv, NextInv, PTL DEF Spec

-----------------------------------------------------------------------------
(* The lines a run keeps are those of the files in dist/, where no other   *)
(* run writes them; its manifest is the last one written.                  *)
LineTrue(u, i) ==
  u.lines[i][1] \notin met => dist[<<u.lines[i][1], u.lines[i][2]>>] = u.lines[i][3]
LinesTrue(u) ==
  u.pc \in Building \union Closing => \A i \in 1 .. Len(u.lines) : LineTrue(u, i)
OfRun(u) ==
  /\ u.wrote /\ manifest = u.lines /\ Len(u.lines) = Len(u.wanted)
  /\ \A i \in 1 .. Len(u.lines) : u.lines[i][1] = u.wanted[i] /\ LineTrue(u, i)
ManifestInv ==
  /\ \A p \in Procs : LinesTrue(run[p])
  /\ Settled => manifest = TORN \/ \E p \in Procs : OfRun(run[p])

\* A step of one run that writes no image and does not end it well.
LEMMA QuietLines ==
  ASSUME IInv, ManifestInv, NEW q \in Procs, Others(q), dist' = dist, met \subseteq met',
         manifest' = manifest \/ run[q].wrote,
         run'[q].wrote = run[q].wrote, run[q].wrote => run'[q].exit # "0",
         run'[q].pc \in Building \union Closing =>
           \/ run'[q].lines = <<>>
           \/ run'[q].lines = run[q].lines /\ run[q].pc \in Building \union Closing
  PROVE  ManifestInv'
<1>1. ASSUME NEW p \in Procs PROVE LinesTrue(run[p])'
  <2>1. CASE p # q
    <3>1. run'[p] = run[p] /\ LinesTrue(run[p])
      BY <2>1 DEF Others, ManifestInv
    <3> QED BY <3>1 DEF LinesTrue, LineTrue
  <2>2. CASE p = q
    <3>1. CASE run'[q].lines = <<>>
      BY <2>2, <3>1 DEF LinesTrue
    <3>2. CASE run'[q].lines = run[q].lines /\ run[q].pc \in Building \union Closing
      <4>1. \A i \in 1 .. Len(run[q].lines) : LineTrue(run[q], i)
        BY <3>2 DEF ManifestInv, LinesTrue
      <4> QED BY <2>2, <3>2, <4>1 DEF LinesTrue, LineTrue
    <3> QED BY <2>2, <3>1, <3>2 DEF LinesTrue
  <2> QED BY <2>1, <2>2
<1>2. ASSUME Settled' PROVE manifest' = TORN \/ \E p \in Procs : OfRun(run[p])'
  <2>1. ~run[q].wrote
    BY <1>2 DEF Settled
  <2>2. Settled /\ manifest' = manifest
    BY <1>2, <2>1 DEF Settled, Others
  <2>3. CASE manifest = TORN
    BY <2>2, <2>3
  <2>4. CASE \E p \in Procs : OfRun(run[p])
    <3>1. PICK p \in Procs : OfRun(run[p])
      BY <2>4
    <3>2. run'[p] = run[p]
      BY <2>1, <3>1 DEF OfRun, Others
    <3>3. OfRun(run[p])'
      BY <2>2, <3>1, <3>2 DEF OfRun, LineTrue
    <3> QED BY <3>3
  <2> QED BY <2>2, <2>3, <2>4 DEF ManifestInv
<1> QED BY <1>1, <1>2 DEF ManifestInv

\* No other run has a line of a file this one writes, unless the two have met.
LEMMA ImageLines ==
  ASSUME IInv, MetInv, ManifestInv, NEW q \in Procs, Others(q), met' = met,
         run[q].pc \in Building, NEW x,
         dist' = [dist EXCEPT ![<<This(q), run[q].release>>] = x]
  PROVE  /\ \A p \in Procs \ {q} : LinesTrue(run[p])'
         /\ \A i \in 1 .. Len(run[q].lines) :
              run[q].lines[i][1] \notin met =>
                dist'[<<run[q].lines[i][1], run[q].lines[i][2]>>] = run[q].lines[i][3]
<1> DEFINE r == This(q)
<1>1. /\ dist \in [Regions \X Releases -> Image \union {NONE, TORN}]
      /\ r \in Regions /\ r = run[q].wanted[run[q].at]
      /\ run[q].at \in 1 .. Len(run[q].wanted)
      /\ RunInv(run[q]) /\ run[q].lines \in Seq(Line) /\ run[q].release \in Releases
  BY FilesTyped, Busy DEF Placed, Building, RunInv, Position
<1>2. \A a \in Regions, v \in Releases : a # r => dist'[<<a, v>>] = dist[<<a, v>>]
  BY <1>1
<1>3. ASSUME NEW p \in Procs, NEW i \in 1 .. Len(run[p].lines),
             run[p].pc \in Building \union Closing,
             run[p].lines[i][1] \notin met, run[p].lines[i][1] # r
      PROVE  dist'[<<run[p].lines[i][1], run[p].lines[i][2]>>] = run[p].lines[i][3]
  <2>1. run[p].lines \in Seq(Line)
    BY Busy
  <2>2. run[p].lines[i] \in Line
    BY <2>1
  <2>3. run[p].lines[i][1] \in Regions /\ run[p].lines[i][2] \in Releases
    BY <2>2 DEF Line
  <2>4. dist[<<run[p].lines[i][1], run[p].lines[i][2]>>] = run[p].lines[i][3]
    BY <1>3 DEF ManifestInv, LinesTrue, LineTrue
  <2> QED BY <1>2, <1>3, <2>3, <2>4
<1>4. ASSUME NEW p \in Procs \ {q}, NEW i \in 1 .. Len(run[p].lines),
             run[p].pc \in Building \union Closing, run[p].lines[i][1] \notin met
      PROVE  run[p].lines[i][1] # r
  <2>1. /\ RunInv(run[p]) /\ run[p].at \in Nat /\ Len(run[p].lines) \in Nat
        /\ Len(run[p].wanted) \in Nat
        /\ run[p].pc \in Building => run[p].at \in 1 .. Len(run[p].wanted)
    BY Busy DEF Placed
  <2>2. i \in 1 .. Len(run[p].wanted) /\ run[p].lines[i][1] = run[p].wanted[i]
    <3>1. CASE run[p].pc \in Building
      BY <2>1, <3>1 DEF RunInv, Counted
    <3>2. CASE run[p].pc \in Closing
      BY <2>1, <3>2 DEF RunInv, Counted
    <3> QED BY <1>4, <3>1, <3>2
  <2>3. Wants(run[p], run[p].lines[i][1])
    BY <1>4, <2>2 DEF Wants, Building, Closing
  <2>4. Wants(run[q], r)
    BY HandWants DEF Placed
  <2> QED BY <1>4, <2>3, <2>4 DEF MetInv
<1>5. ASSUME NEW i \in 1 .. Len(run[q].lines) PROVE run[q].lines[i][1] # r
  <2>1. /\ Len(run[q].lines) = run[q].at - 1 /\ run[q].lines[i][1] = run[q].wanted[i]
        /\ Injective(run[q].wanted)
    BY <1>1 DEF RunInv, Counted, Position, Building
  <2>2. i \in 1 .. Len(run[q].wanted) /\ i # run[q].at
    BY <1>1, <2>1, Busy
  <2> QED BY <1>1, <2>1, <2>2 DEF Injective
<1>6. ASSUME NEW p \in Procs \ {q} PROVE LinesTrue(run[p])'
  <2>1. run'[p] = run[p]
    BY DEF Others
  <2> QED BY <1>3, <1>4, <2>1 DEF LinesTrue, LineTrue
<1>7. \A i \in 1 .. Len(run[q].lines) :
        run[q].lines[i][1] \notin met =>
          dist'[<<run[q].lines[i][1], run[q].lines[i][2]>>] = run[q].lines[i][3]
  BY <1>3, <1>5
<1> QED BY <1>6, <1>7

LEMMA OpenImageLines ==
  ASSUME IInv, MetInv, ManifestInv, NEW q \in Procs, OpenImage(q)
  PROVE  ManifestInv'
<1>1. /\ run[q].pc = "open" /\ met' = met
      /\ dist' = [dist EXCEPT ![<<This(q), run[q].release>>] = TORN]
  BY DEF OpenImage, At
<1>2. /\ Others(q) /\ run'[q].lines = run[q].lines /\ run'[q].wrote = TRUE
      /\ run'[q].exit = run[q].exit
  BY OpenImageMoves DEF Went
<1>3. run[q].exit = NONE
  BY <1>1, Busy DEF RunInv, Position
<1>4. ~Settled'
  BY <1>2, <1>3, ValuesAssumption DEF Settled
<1>5. /\ \A p \in Procs \ {q} : LinesTrue(run[p])'
      /\ \A i \in 1 .. Len(run[q].lines) :
           run[q].lines[i][1] \notin met =>
             dist'[<<run[q].lines[i][1], run[q].lines[i][2]>>] = run[q].lines[i][3]
  BY <1>1, <1>2, ImageLines DEF Building
<1>6. LinesTrue(run[q])'
  BY <1>1, <1>2, <1>5 DEF LinesTrue, LineTrue
<1> QED BY <1>4, <1>5, <1>6 DEF ManifestInv

LEMMA FillImageLines ==
  ASSUME IInv, MetInv, ManifestInv, NEW q \in Procs, FillImage(q)
  PROVE  ManifestInv'
<1> DEFINE ls == run[q].lines
           l == LineOf(q)
<1>1. /\ run[q].pc = "fill" /\ met' = met
      /\ dist' = [dist EXCEPT ![<<This(q), run[q].release>>] = ImageOf(q)]
  BY DEF FillImage, At
<1>2. /\ Others(q) /\ run'[q].lines = Append(ls, l) /\ run'[q].wrote = run[q].wrote
      /\ run'[q].exit = run[q].exit
      /\ <<This(q), run[q].release>> \in Regions \X Releases /\ l \in Line
  BY FillImageMoves DEF Went
<1>3. run[q].exit = NONE /\ run[q].wrote = TRUE
  BY <1>1, Busy DEF RunInv, Position, Unwritten
<1>4. ~Settled'
  BY <1>2, <1>3, ValuesAssumption DEF Settled
<1>5. /\ \A p \in Procs \ {q} : LinesTrue(run[p])'
      /\ \A i \in 1 .. Len(ls) : ls[i][1] \notin met => dist'[<<ls[i][1], ls[i][2]>>] = ls[i][3]
  BY <1>1, <1>2, ImageLines DEF Building
<1>6. dist'[<<l[1], l[2]>>] = l[3]
  <2>1. dist'[<<This(q), run[q].release>>] = ImageOf(q)
    BY <1>1, <1>2, FilesTyped
  <2> QED BY <2>1 DEF LineOf
<1>7. ls \in Seq(Line)
  BY Busy
<1> HIDE DEF ls, l
<1>8. \A i \in 1 .. Len(Append(ls, l)) :
        Append(ls, l)[i] = l \/ (i \in 1 .. Len(ls) /\ Append(ls, l)[i] = ls[i])
  BY <1>2, <1>7
<1>9. LinesTrue(run[q])'
  BY <1>1, <1>2, <1>5, <1>6, <1>8 DEF LinesTrue, LineTrue
<1> QED BY <1>4, <1>5, <1>9 DEF ManifestInv

LEMMA WriteManifestLines ==
  ASSUME IInv, ManifestInv, NEW q \in Procs, WriteManifest(q)
  PROVE  ManifestInv'
<1>1. /\ run[q].pc = "lines" /\ met' = met /\ dist' = dist
      /\ manifest' = run[q].lines \/ manifest' = TORN
  BY DEF WriteManifest, At
<1>2. /\ Others(q) /\ run'[q].lines = run[q].lines /\ run'[q].wrote = run[q].wrote
      /\ run'[q].pc = "idle" /\ run'[q].wanted = run[q].wanted
  BY ManifestMoves DEF Went
<1>3. /\ run[q].wrote = TRUE /\ Len(run[q].lines) = Len(run[q].wanted)
      /\ \A i \in 1 .. Len(run[q].lines) :
           run[q].lines[i][1] = run[q].wanted[i] /\ LineTrue(run[q], i)
  BY <1>1, Busy DEF RunInv, Unwritten, Counted, Closing, ManifestInv, LinesTrue
<1>4. ASSUME NEW p \in Procs PROVE LinesTrue(run[p])'
  <2>1. CASE p = q
    BY <1>2, <2>1 DEF LinesTrue, Building, Closing
  <2>2. CASE p # q
    <3>1. run'[p] = run[p] /\ LinesTrue(run[p])
      BY <1>2, <2>2 DEF Others, ManifestInv
    <3> QED BY <1>1, <3>1 DEF LinesTrue, LineTrue
  <2> QED BY <2>1, <2>2
<1>5. manifest' = run[q].lines => OfRun(run[q])'
  BY <1>1, <1>2, <1>3 DEF OfRun, LineTrue
<1> QED BY <1>1, <1>4, <1>5 DEF ManifestInv

\* The steps that write neither an image nor the manifest.
LEMMA OtherLines ==
  ASSUME IInv, MetInv, ManifestInv, NEW q \in Procs, Move(q),
         ~OpenImage(q), ~FillImage(q), ~WriteManifest(q)
  PROVE  ManifestInv'
<1>1. Others(q) /\ met \subseteq met'
  BY Moves, MetKept
<1>2. run[q].pc # "idle" => run[q].exit = NONE
  BY Busy DEF RunInv, Position
<1>3. ASSUME NEW code, Over(q, code), code # "0", dist' = dist, manifest' = manifest
      PROVE  ManifestInv'
  BY <1>1, <1>3, QuietLines DEF Over, Building, Closing
<1>4. ASSUME NEW pc, NEW at, NEW gates, NEW h, run[q].pc # "idle",
             Went(q, pc, at, gates, h, run[q].lines, run[q].wrote, run[q].exit),
             run[q].pc \in Building \union Closing \/ run[q].lines = <<>>,
             dist' = dist, manifest' = manifest \/ run[q].wrote
      PROVE  ManifestInv'
  BY <1>1, <1>2, <1>4, QuietLines, ValuesAssumption DEF Went
<1>5. CASE Pack(q)
  <2>1. dist' = dist /\ manifest' = manifest /\ run[q].pc = "idle" /\ run[q].exit = NONE
    BY <1>5 DEF Pack, built, At
  <2>2. run[q].wrote = FALSE
    BY <2>1, Busy DEF RunInv, Unwritten
  <2> QED BY <1>1, <1>5, <2>1, <2>2, PackMoves, QuietLines, ValuesAssumption DEF Building, Closing
<1>6. CASE LoadGate(q)
  <2>1. dist' = dist /\ manifest' = manifest /\ run[q].pc = "load"
    BY <1>6 DEF LoadGate, built, At
  <2>2. run[q].lines = <<>>
    BY <2>1, Busy DEF RunInv, Unwritten
  <2> QED BY <1>3, <1>4, <1>6, <2>1, <2>2, LoadGateMoves
<1>7. CASE GateRegion(q)
  <2>1. dist' = dist /\ manifest' = manifest /\ run[q].pc = "gate"
    BY <1>7 DEF GateRegion, built, At
  <2>2. run[q].lines = <<>>
    BY <2>1, Busy DEF RunInv, Unwritten
  <2> QED BY <1>3, <1>4, <1>7, <2>1, <2>2, GateRegionMoves
<1>8. CASE ReadCart(q) \/ StageRom(q) \/ Asar(q) \/ Collect(q) \/ Unlink(q)
  <2>1. /\ dist' = dist /\ manifest' = manifest
        /\ run[q].pc \in Building \union Closing /\ run[q].pc # "idle"
    BY <1>8 DEF ReadCart, StageRom, Asar, Collect, Unlink, built, At, Building
  <2> QED
    BY <1>3, <1>4, <1>8, <2>1, ReadCartMoves, StageRomMoves, AsarMoves, CollectMoves, UnlinkMoves
<1>9. CASE AssembleFails(q) \/ BuildRaises(q) \/ Kill(q)
  <2>1. dist' = dist /\ manifest' = manifest
    BY <1>9 DEF AssembleFails, BuildRaises, Kill, built
  <2> QED BY <1>3, <1>9, <2>1, FailureMoves
<1>10. CASE OpenManifest(q)
  <2>1. dist' = dist /\ run[q].pc = "manifest"
    BY <1>10 DEF OpenManifest, At
  <2>2. run[q].wrote = TRUE
    BY <2>1, Busy DEF RunInv, Unwritten, Closing
  <2> QED BY <1>4, <1>10, <2>1, <2>2, ManifestMoves DEF Closing
<1> QED BY <1>5, <1>6, <1>7, <1>8, <1>9, <1>10 DEF Move

LEMMA NextManifest ==
  ASSUME IInv, MetInv, ManifestInv, [Next]_vars
  PROVE  ManifestInv'
<1>1. CASE Edit \/ UNCHANGED vars
  BY <1>1, Still DEF ManifestInv, LinesTrue, OfRun, LineTrue, Settled
<1>2. ASSUME NEW q \in Procs, Move(q) PROVE ManifestInv'
  BY <1>2, OpenImageLines, FillImageLines, WriteManifestLines, OtherLines
<1> QED BY <1>1, <1>2, Cases

(* Once every run that wrote an image has ended well, the manifest is that *)
(* of one of them, and its sums are those of the files in dist/ but for    *)
(* regions two runs met on.  For any number of runs, however they overlap, *)
(* fail or are killed before their first image.                            *)
THEOREM ManifestIsOfTheFiles == Spec => []ManifestMatches
<1>1. Init => ManifestInv
  <2> SUFFICES ASSUME Init, NEW p \in Procs PROVE run[p].pc = "idle" /\ ~run[p].wrote
    BY DEF ManifestInv, LinesTrue, Settled, Building, Closing
  <2> QED BY DEF Init, Idle
<1>2. IInv /\ ManifestInv => ManifestMatches
  <2> SUFFICES ASSUME IInv, ManifestInv, Settled, manifest # TORN
               PROVE  ManifestMatches
    BY DEF ManifestMatches
  <2>1. PICK p \in Procs : OfRun(run[p])
    BY DEF ManifestInv
  <2>2. DOMAIN manifest = 1 .. Len(manifest) /\ manifest = run[p].lines
    BY <2>1, Busy DEF OfRun
  <2>3. /\ run[p].wrote /\ Len(manifest) = Len(run[p].wanted)
        /\ \A i \in DOMAIN manifest : manifest[i][1] = run[p].wanted[i]
    BY <2>1, <2>2 DEF OfRun
  <2>4. \A i \in DOMAIN manifest :
          manifest[i][1] \notin met => dist[<<manifest[i][1], manifest[i][2]>>] = manifest[i][3]
    BY <2>1, <2>2 DEF OfRun, LineTrue
  <2> QED BY <2>3, <2>4 DEF ManifestMatches
<1>3. Spec => []ManifestInv
  BY <1>1, NextManifest, MetAlways, PTL DEF Spec
<1> QED BY <1>2, <1>3, InvAlways, PTL

-----------------------------------------------------------------------------
(* A region's cartridges are whole, or two runs met on it and one of them  *)
(* is lost, or will be: one that has the file in use finds it gone or      *)
(* torn, or another run has it in use as well, and the last of them to     *)
(* remove it finds nothing.                                                *)
Held(u, r) == u.pc \in {"asar", "collect", "unlink"} /\ u.wanted[u.at] = r
Ready(u, r) == u.pc \in {"open", "fill"} /\ u.wanted[u.at] = r

Lost == \E p \in Procs : Harm(run[p])
Excess(r) ==
  \E p \in Procs :
    Held(run[p], r) /\ (asm[r] \notin Cart \/ \E q \in Procs \ {p} : Held(run[q], r))

CleanRun(u, r) ==
  /\ Held(u, r) /\ u.pc = "asar" => asm[r] \in {Staged, Assembled}
  /\ Held(u, r) /\ u.pc = "collect" => asm[r] = Assembled
  /\ Held(u, r) /\ u.pc = "unlink" => u.hand = Assembled
  /\ Ready(u, r) => u.hand = Whole
CleanFiles(r) ==
  \A v \in Releases : dist[<<r, v>>] \notin {NONE, TORN} => dist[<<r, v>>].cart = Whole
Clean(r) == CleanFiles(r) /\ \A p \in Procs : CleanRun(run[p], r)

\* A torn file under asm/ is still being worked on, or has done its harm.
TornKnown(r) ==
  asm[r] = TORN => Lost \/ \E p \in Procs : run[p].pc = "collect" /\ Held(run[p], r)

WholeAt(r) == (Clean(r) \/ (r \in met /\ (Lost \/ Excess(r)))) /\ TornKnown(r)
WholeInv == \A r \in Regions : WholeAt(r)

LEMMA LostStays == ASSUME IInv, NEW q \in Procs, Move(q), Lost PROVE Lost'
<1>1. Others(q) /\ (Harm(run[q]) => Harm(run'[q]))
  BY Moves
<1>2. PICK p \in Procs : Harm(run[p])
  BY DEF Lost
<1>3. Harm(run'[p])
  BY <1>1, <1>2 DEF Others
<1>4. Harm(run[p])'
  BY <1>3 DEF Harm
<1> QED BY <1>4 DEF Lost

\* A step of one run that leaves a region's files alone, and does not take
\* them up: it lets go of them, or had none of them in hand.
LEMMA Bystander ==
  ASSUME IInv, MetInv, NEW q \in Procs, Move(q), NEW r \in Regions, WholeAt(r),
         asm'[r] = asm[r],
         \A v \in Releases : dist'[<<r, v>>] \in {dist[<<r, v>>], TORN},
         ~Held(run[q], r) \/ Lost', ~Held(run'[q], r), ~Ready(run'[q], r)
  PROVE  WholeAt(r)'
<1>1. /\ Others(q) /\ met \subseteq met' /\ (Lost => Lost')
  BY Moves, MetKept, LostStays
<1>2. Clean(r) => Clean(r)'
  <2> SUFFICES ASSUME Clean(r) PROVE Clean(r)'
    OBVIOUS
  <2>1. ASSUME NEW p \in Procs PROVE CleanRun(run[p], r)'
    <3>1. CASE p = q
      BY <3>1 DEF CleanRun, Held, Ready
    <3>2. CASE p # q
      <4>1. run'[p] = run[p] /\ CleanRun(run[p], r)
        BY <1>1, <3>2 DEF Others, Clean
      <4> QED BY <4>1 DEF CleanRun, Held, Ready
    <3> QED BY <3>1, <3>2
  <2>2. CleanFiles(r)'
    BY DEF Clean, CleanFiles
  <2> QED BY <2>1, <2>2 DEF Clean
<1>3. Excess(r) => Lost' \/ Excess(r)'
  <2> SUFFICES ASSUME Excess(r), ~Held(run[q], r) PROVE Excess(r)'
    OBVIOUS
  <2>1. PICK p \in Procs :
          Held(run[p], r) /\ (asm[r] \notin Cart \/ \E t \in Procs \ {p} : Held(run[t], r))
    BY DEF Excess
  <2>2. \A t \in Procs : Held(run[t], r) => Held(run[t], r)'
    BY <1>1 DEF Others, Held
  <2> QED BY <2>1, <2>2 DEF Excess
<1>4. TornKnown(r)'
  <2> SUFFICES ASSUME asm[r] = TORN, ~Lost'
               PROVE  \E p \in Procs : run'[p].pc = "collect" /\ Held(run[p], r)'
    BY DEF TornKnown
  <2>1. PICK p \in Procs : run[p].pc = "collect" /\ Held(run[p], r)
    BY <1>1 DEF WholeAt, TornKnown
  <2>2. run'[p] = run[p]
    BY <1>1, <2>1 DEF Others
  <2> QED BY <2>1, <2>2 DEF Held
<1> QED BY <1>1, <1>2, <1>3, <1>4 DEF WholeAt

\* A step in which a run that has a region in hand keeps it.
LEMMA StillInHand ==
  ASSUME IInv, MetInv, NEW q \in Procs, Move(q), NEW r \in Regions, WholeAt(r),
         Held(run[q], r), Held(run'[q], r), CleanFiles(r) => CleanFiles(r)',
         asm[r] \notin Cart => asm'[r] \notin Cart,
         Clean(r) => /\ CleanRun(run[q], r)'
                     /\ asm'[r] = asm[r] \/ asm'[r] = Assembled,
         asm'[r] = TORN => Lost' \/ run'[q].pc = "collect" \/
           (asm[r] = TORN /\ run[q].pc # "collect")
  PROVE  WholeAt(r)'
<1>1. /\ Others(q) /\ met \subseteq met' /\ (Lost => Lost')
  BY Moves, MetKept, LostStays
<1>2. Clean(r) => Clean(r)'
  <2> SUFFICES ASSUME Clean(r) PROVE Clean(r)'
    OBVIOUS
  <2>1. ASSUME NEW p \in Procs PROVE CleanRun(run[p], r)'
    <3>1. CASE p = q
      BY <3>1 DEF CleanRun, Held, Ready
    <3>2. CASE p # q
      <4>1. run'[p] = run[p] /\ CleanRun(run[p], r)
        BY <1>1, <3>2 DEF Others, Clean
      <4> QED BY <4>1 DEF CleanRun, Held, Ready
    <3> QED BY <3>1, <3>2
  <2>2. CleanFiles(r)'
    BY DEF Clean
  <2> QED BY <2>1, <2>2 DEF Clean
<1>3. \A t \in Procs : Held(run[t], r) => Held(run[t], r)'
  BY <1>1 DEF Others, Held
<1>4. Excess(r) => Excess(r)'
  <2> SUFFICES ASSUME Excess(r) PROVE Excess(r)'
    OBVIOUS
  <2>1. PICK p \in Procs :
          Held(run[p], r) /\ (asm[r] \notin Cart \/ \E t \in Procs \ {p} : Held(run[t], r))
    BY DEF Excess
  <2> QED BY <1>3, <2>1 DEF Excess
<1>5. TornKnown(r)'
  <2> SUFFICES ASSUME asm'[r] = TORN, ~Lost'
               PROVE  \E p \in Procs : run'[p].pc = "collect" /\ Held(run[p], r)'
    BY DEF TornKnown
  <2>1. CASE run'[q].pc = "collect"
    BY <1>3, <2>1
  <2>2. CASE asm[r] = TORN /\ run[q].pc # "collect"
    <3>1. PICK p \in Procs : run[p].pc = "collect" /\ Held(run[p], r)
      BY <1>1, <2>2 DEF WholeAt, TornKnown
    <3>2. run'[p] = run[p]
      BY <1>1, <2>2, <3>1 DEF Others
    <3> QED BY <1>3, <3>1, <3>2
  <2> QED BY <2>1, <2>2
<1> QED BY <1>1, <1>2, <1>4, <1>5 DEF WholeAt

\* Two runs with one region in hand have met on it.
LEMMA HoldersMet ==
  ASSUME IInv, MetInv, NEW p \in Procs, NEW q \in Procs, p # q, NEW r,
         Held(run[p], r), run[q].pc \in Placed, This(q) = r
  PROVE  r \in met
<1>1. Wants(run[p], r)
  BY HandWants DEF Held, This, Placed, Building
<1>2. Wants(run[q], r)
  BY HandWants
<1> QED BY <1>1, <1>2 DEF MetInv

LEMMA Exclusive == ASSUME NEW p \in Procs, NEW r
                   PROVE Held(run[p], r) => run[p].pc \in Building /\ This(p) = r
BY DEF Held, Building, This

\* What each of the steps that touch a region's files does to its own.
LEMMA StageWhole ==
  ASSUME IInv, MetInv, WholeInv, NEW q \in Procs, NEW r \in Regions, r = This(q),
         StageRom(q)
  PROVE  WholeAt(r)'
<1>1. /\ run[q].pc = "assemble" /\ asm' = [asm EXCEPT ![r] = Staged] /\ dist' = dist
      /\ met' = met
  BY DEF StageRom, At
<1>2. /\ r \in Regions /\ r = run[q].wanted[run[q].at] /\ asm \in [Regions -> Hands]
      /\ run[q].pc \in Placed
  BY <1>1, Busy, FilesTyped DEF Placed, Building
<1>3. /\ run'[q].pc = "asar" /\ run'[q].at = run[q].at /\ run'[q].wanted = run[q].wanted
      /\ Others(q)
  BY StageRomMoves DEF Went
<1>4. asm'[r] = Staged /\ Staged # TORN
  BY <1>1, <1>2, Carts
<1>5. Held(run[q], r)' /\ WholeAt(r) /\ (Lost => Lost')
  <2>1. Lost => Lost'
    BY LostStays DEF Move
  <2> QED BY <1>2, <1>3, <2>1 DEF Held, WholeInv
<1>6. CASE \E p \in Procs \ {q} : Held(run[p], r)
  <2>1. PICK p \in Procs \ {q} : Held(run[p], r)
    BY <1>6
  <2>2. Held(run[p], r)'
    BY <1>3, <2>1 DEF Others, Held
  <2>3. Excess(r)'
    BY <1>5, <2>2 DEF Excess
  <2>4. r \in met
    BY <1>2, <2>1, HoldersMet
  <2> QED BY <1>1, <1>4, <2>3, <2>4 DEF WholeAt, TornKnown
<1>7. CASE \A p \in Procs \ {q} : ~Held(run[p], r)
  <2>1. ~Held(run[q], r)
    BY <1>1 DEF Held
  <2>2. ~Excess(r)
    BY <1>7, <2>1 DEF Excess
  <2>3. CASE Lost /\ r \in met
    BY <1>1, <1>4, <1>5, <2>3 DEF WholeAt, TornKnown
  <2>4. CASE Clean(r)
    <3>1. ASSUME NEW p \in Procs PROVE CleanRun(run[p], r)'
      <4>1. CASE p = q
        BY <1>3, <1>4, <4>1 DEF CleanRun, Ready
      <4>2. CASE p # q
        <5>1. run'[p] = run[p] /\ CleanRun(run[p], r) /\ ~Held(run[p], r)
          BY <1>3, <1>7, <2>4, <4>2 DEF Others, Clean
        <5> QED BY <5>1 DEF CleanRun, Held, Ready
      <4> QED BY <4>1, <4>2
    <3>2. Clean(r)'
      BY <1>1, <2>4, <3>1 DEF Clean, CleanFiles
    <3> QED BY <1>4, <3>2 DEF WholeAt, TornKnown
  <2> QED BY <1>5, <2>2, <2>3, <2>4 DEF WholeAt
<1> QED BY <1>6, <1>7

LEMMA AsarWhole ==
  ASSUME IInv, MetInv, WholeInv, NEW q \in Procs, NEW r \in Regions, r = This(q),
         Asar(q)
  PROVE  WholeAt(r)'
<1>1. /\ run[q].pc = "asar" /\ dist' = dist
      /\ asm' = [asm EXCEPT ![r] = IF asm[r] \in {NONE, TORN} THEN TORN ELSE Assembled]
  BY DEF Asar, At
<1>2. r \in Regions /\ r = run[q].wanted[run[q].at] /\ asm \in [Regions -> Hands]
  BY <1>1, Busy, FilesTyped DEF Placed, Building
<1>3. /\ run'[q].pc = "collect" /\ run'[q].at = run[q].at /\ run'[q].wanted = run[q].wanted
  BY AsarMoves DEF Went
<1>4. asm'[r] = IF asm[r] \in {NONE, TORN} THEN TORN ELSE Assembled
  BY <1>1, <1>2
<1>5. Held(run[q], r) /\ Held(run'[q], r) /\ WholeAt(r) /\ Move(q)
  BY <1>1, <1>2, <1>3 DEF Held, WholeInv, Move
<1>6. asm[r] \notin Cart => asm'[r] \notin Cart
  BY <1>2, <1>4, Carts DEF Hands
<1>7. Clean(r) => asm'[r] = Assembled
  <2>1. Clean(r) => asm[r] \in {Staged, Assembled}
    BY <1>1, <1>5 DEF Clean, CleanRun
  <2> QED BY <1>4, <2>1, Carts
<1>8. Clean(r) => CleanRun(run[q], r)'
  BY <1>3, <1>7 DEF CleanRun, Ready
<1>9. CleanFiles(r) => CleanFiles(r)'
  BY <1>1 DEF CleanFiles
<1> QED BY <1>2, <1>3, <1>5, <1>6, <1>7, <1>8, <1>9, StillInHand

LEMMA CollectWhole ==
  ASSUME IInv, MetInv, WholeInv, NEW q \in Procs, NEW r \in Regions, r = This(q),
         Collect(q), asm[r] # NONE
  PROVE  WholeAt(r)'
<1>1. run[q].pc = "collect" /\ dist' = dist /\ asm' = asm
  BY DEF Collect, At, built
<1>2. r \in Regions /\ r = run[q].wanted[run[q].at]
  BY <1>1, Busy DEF Placed, Building
<1>3. /\ run'[q].pc = "unlink" /\ run'[q].at = run[q].at /\ run'[q].wanted = run[q].wanted
      /\ run'[q].hand = asm[r]
  BY CollectMoves, ValuesAssumption DEF Went, Over
<1>4. Held(run[q], r) /\ Held(run'[q], r) /\ WholeAt(r) /\ Move(q)
  BY <1>1, <1>2, <1>3 DEF Held, WholeInv, Move
<1>5. Clean(r) => asm[r] = Assembled
  BY <1>1, <1>4 DEF Clean, CleanRun
<1>6. Clean(r) => CleanRun(run[q], r)'
  BY <1>3, <1>5 DEF CleanRun, Ready
<1>7. asm[r] = TORN => Lost'
  <2>1. asm[r] = TORN => Harm(run'[q])
    BY <1>3 DEF Harm
  <2>2. Harm(run'[q]) => Lost'
    BY DEF Lost, Harm
  <2> QED BY <2>1, <2>2
<1>8. CleanFiles(r) => CleanFiles(r)'
  BY <1>1 DEF CleanFiles
<1> QED BY <1>1, <1>2, <1>4, <1>6, <1>7, <1>8, StillInHand

LEMMA UnlinkWhole ==
  ASSUME IInv, MetInv, WholeInv, NEW q \in Procs, NEW r \in Regions, r = This(q),
         Unlink(q), asm[r] # NONE
  PROVE  WholeAt(r)'
<1> DEFINE h == run'[q].hand
<1>1. run[q].pc = "unlink" /\ dist' = dist /\ met' = met
  BY DEF Unlink, At
<1>2. /\ r \in Regions /\ r = run[q].wanted[run[q].at] /\ asm \in [Regions -> Hands]
      /\ run[q].pc \in Placed
  BY <1>1, Busy, FilesTyped DEF Placed, Building
<1>3. /\ run'[q].pc = "open" /\ run'[q].at = run[q].at /\ run'[q].wanted = run[q].wanted
      /\ Others(q) /\ (run[q].hand = Assembled => h = Whole)
      /\ asm' = [asm EXCEPT ![r] = NONE]
  BY UnlinkMoves DEF Went
<1>4. asm'[r] = NONE /\ NONE \notin Cart /\ NONE # TORN
  BY <1>2, <1>3, Carts
<1>5. WholeAt(r) /\ (Lost => Lost') /\ Held(run[q], r)
  <2>1. Lost => Lost'
    BY LostStays DEF Move
  <2> QED BY <1>1, <1>2, <2>1 DEF WholeInv, Held
<1>6. CASE \E p \in Procs \ {q} : Held(run[p], r)
  <2>1. PICK p \in Procs \ {q} : Held(run[p], r)
    BY <1>6
  <2>2. Held(run[p], r)'
    BY <1>3, <2>1 DEF Others, Held
  <2>3. Excess(r)'
    BY <1>4, <2>2 DEF Excess
  <2>4. r \in met
    BY <1>2, <2>1, HoldersMet
  <2> QED BY <1>1, <1>4, <2>3, <2>4 DEF WholeAt, TornKnown
<1>7. CASE \A p \in Procs \ {q} : ~Held(run[p], r)
  <2>1. CASE Lost /\ r \in met
    BY <1>1, <1>4, <1>5, <2>1 DEF WholeAt, TornKnown
  <2>2. CASE Excess(r) /\ ~Lost
    <3>1. asm[r] \notin Cart
      BY <1>7, <2>2 DEF Excess
    <3>2. asm[r] = TORN
      BY <1>2, <3>1 DEF Hands
    <3>3. PICK p \in Procs : run[p].pc = "collect" /\ Held(run[p], r)
      BY <1>5, <2>2, <3>2 DEF WholeAt, TornKnown
    <3> QED BY <1>1, <1>7, <3>3
  <2>3. CASE Clean(r)
    <3>1. h = Whole
      BY <1>1, <1>3, <1>5, <2>3 DEF Clean, CleanRun
    <3>2. ASSUME NEW p \in Procs PROVE CleanRun(run[p], r)'
      <4>1. CASE p = q
        BY <1>3, <3>1, <4>1 DEF CleanRun, Held, Ready
      <4>2. CASE p # q
        <5>1. run'[p] = run[p] /\ CleanRun(run[p], r) /\ ~Held(run[p], r)
          BY <1>3, <1>7, <2>3, <4>2 DEF Others, Clean
        <5> QED BY <5>1 DEF CleanRun, Held, Ready
      <4> QED BY <4>1, <4>2
    <3>3. Clean(r)'
      BY <1>1, <2>3, <3>2 DEF Clean, CleanFiles
    <3> QED BY <1>4, <3>3 DEF WholeAt, TornKnown
  <2> QED BY <1>5, <2>1, <2>2, <2>3 DEF WholeAt
<1> QED BY <1>6, <1>7

\* The image is begun and filled; nothing under asm/ changes.
LEMMA ImageWhole ==
  ASSUME IInv, MetInv, WholeInv, NEW q \in Procs, NEW r \in Regions, r = This(q),
         OpenImage(q) \/ FillImage(q)
  PROVE  WholeAt(r)'
<1>1. /\ run[q].pc \in {"open", "fill"} /\ asm' = asm /\ met' = met
      /\ dist \in [Regions \X Releases -> Image \union {NONE, TORN}]
  BY FilesTyped DEF OpenImage, FillImage, At
<1>2. /\ r \in Regions /\ r = run[q].wanted[run[q].at]
  BY <1>1, Busy DEF Placed, Building
<1>3. /\ Others(q) /\ run'[q].pc \in {"fill", "build", "manifest"}
      /\ run'[q].pc = "fill" => run'[q].hand = run[q].hand
  BY OpenImageMoves, FillImageMoves DEF Went
<1>4. WholeAt(r) /\ (Lost => Lost') /\ ~Held(run[q], r) /\ ~Held(run'[q], r)
  <2>1. Lost => Lost'
    BY LostStays DEF Move
  <2> QED BY <1>1, <1>2, <1>3, <2>1 DEF WholeInv, Held
<1>5. \A v \in Releases :
        \/ dist'[<<r, v>>] = dist[<<r, v>>] \/ dist'[<<r, v>>] = TORN
        \/ run[q].pc = "fill" /\ dist'[<<r, v>>].cart = run[q].hand
  <2>1. CASE OpenImage(q)
    <3>1. dist' = [dist EXCEPT ![<<r, run[q].release>>] = TORN]
      BY <2>1 DEF OpenImage
    <3> QED BY <1>1, <1>2, <3>1
  <2>2. CASE FillImage(q)
    <3>1. dist' = [dist EXCEPT ![<<r, run[q].release>>] = ImageOf(q)] /\ run[q].pc = "fill"
      BY <2>2 DEF FillImage, At
    <3>2. ImageOf(q).cart = run[q].hand
      BY <2>2, FillImageMoves
    <3> DEFINE im == ImageOf(q)
    <3>3. im.cart = run[q].hand /\ dist' = [dist EXCEPT ![<<r, run[q].release>>] = im]
      BY <3>1, <3>2
    <3> HIDE DEF im
    <3>4. ASSUME NEW v \in Releases
          PROVE  dist'[<<r, v>>] = dist[<<r, v>>] \/ dist'[<<r, v>>] = im
      BY <1>1, <1>2, <3>3
    <3> QED BY <3>1, <3>3, <3>4
  <2> QED BY <2>1, <2>2
<1>6. Clean(r) => Clean(r)'
  <2> SUFFICES ASSUME Clean(r) PROVE Clean(r)'
    OBVIOUS
  <2>1. run[q].hand = Whole
    <3>1. Ready(run[q], r) /\ CleanRun(run[q], r)
      BY <1>1, <1>2 DEF Ready, Clean
    <3> QED BY <3>1 DEF CleanRun
  <2>2. ASSUME NEW p \in Procs PROVE CleanRun(run[p], r)'
    <3>1. CASE p = q
      BY <1>3, <2>1, <3>1 DEF CleanRun, Held, Ready
    <3>2. CASE p # q
      <4>1. run'[p] = run[p] /\ CleanRun(run[p], r)
        BY <1>3, <3>2 DEF Others, Clean
      <4> QED BY <1>1, <4>1 DEF CleanRun, Held, Ready
    <3> QED BY <3>1, <3>2
  <2>3. CleanFiles(r)'
    BY <1>5, <2>1 DEF Clean, CleanFiles
  <2> QED BY <2>2, <2>3 DEF Clean
<1>7. \A p \in Procs : Held(run[p], r) => Held(run[p], r)' /\ run'[p] = run[p]
  BY <1>3, <1>4 DEF Others, Held
<1>8. Excess(r) => Excess(r)'
  <2> SUFFICES ASSUME Excess(r) PROVE Excess(r)'
    OBVIOUS
  <2>1. PICK p \in Procs :
          Held(run[p], r) /\ (asm[r] \notin Cart \/ \E t \in Procs \ {p} : Held(run[t], r))
    BY DEF Excess
  <2> QED BY <1>1, <1>7, <2>1 DEF Excess
<1>9. TornKnown(r)'
  BY <1>1, <1>4, <1>7 DEF WholeAt, TornKnown
<1> QED BY <1>1, <1>4, <1>6, <1>8, <1>9 DEF WholeAt

\* The other regions, and the steps that touch no region's files.
LEMMA Elsewhere ==
  ASSUME IInv, MetInv, WholeInv, NEW q \in Procs, NEW r \in Regions,
         StageRom(q) \/ Asar(q) \/ Collect(q) \/ Unlink(q) \/ OpenImage(q) \/ FillImage(q),
         run'[q].pc # "idle", r # This(q)
  PROVE  WholeAt(r)'
<1>1. /\ run[q].pc \in Building
      /\ asm \in [Regions -> Hands]
      /\ dist \in [Regions \X Releases -> Image \union {NONE, TORN}]
  <2>1. run[q].pc \in {"assemble", "asar", "collect", "unlink", "open", "fill"}
    BY DEF StageRom, Asar, Collect, Unlink, OpenImage, FillImage, At
  <2> QED BY <2>1, FilesTyped DEF Building
<1>2. This(q) \in Regions /\ This(q) = run[q].wanted[run[q].at]
  BY <1>1, Busy DEF Placed, Building
<1>3. \/ run'[q].at = run[q].at /\ run'[q].wanted = run[q].wanted
      \/ run'[q].pc \in {"build", "manifest"}
  BY StageRomMoves, AsarMoves, CollectMoves, UnlinkMoves, OpenImageMoves, FillImageMoves
     DEF Went, Over
<1>4. asm'[r] = asm[r]
  <2>1. \/ asm' = asm \/ \E x : asm' = [asm EXCEPT ![This(q)] = x]
    BY DEF StageRom, Asar, Collect, Unlink, OpenImage, FillImage, built
  <2> QED BY <1>1, <2>1
<1>5. \A v \in Releases : dist'[<<r, v>>] = dist[<<r, v>>]
  <2>1. \/ dist' = dist \/ \E x : dist' = [dist EXCEPT ![<<This(q), run[q].release>>] = x]
    BY DEF StageRom, Asar, Collect, Unlink, OpenImage, FillImage, built
  <2> QED BY <1>1, <2>1
<1>6. ~Held(run[q], r) /\ ~Held(run'[q], r) /\ ~Ready(run'[q], r)
  BY <1>2, <1>3 DEF Held, Ready
<1> QED BY <1>4, <1>5, <1>6, Bystander DEF WholeInv, Move

LEMMA OtherWhole ==
  ASSUME IInv, MetInv, WholeInv, NEW q \in Procs, NEW r \in Regions, Move(q),
         \/ run'[q].pc = "idle"
         \/ ~(StageRom(q) \/ Asar(q) \/ Collect(q) \/ Unlink(q) \/ OpenImage(q) \/ FillImage(q))
  PROVE  WholeAt(r)'
<1>1. /\ ~Held(run'[q], r) /\ ~Ready(run'[q], r) /\ asm' = asm /\ dist' = dist
      /\ ~Held(run[q], r) \/ Lost'
  <2> USE DEF Held, Ready
  <2>1. CASE Pack(q)
    BY <2>1, PackMoves DEF Pack, built
  <2>2. CASE LoadGate(q)
    BY <2>2, LoadGateMoves DEF LoadGate, built, Over, Went, At
  <2>3. CASE GateRegion(q)
    <3>1. run[q].pc = "gate" /\ asm' = asm /\ dist' = dist
      BY <2>3 DEF GateRegion, built, At
    <3> QED BY <2>3, <3>1, GateRegionMoves DEF Over, Went
  <2>4. CASE ReadCart(q)
    BY <2>4, ReadCartMoves DEF ReadCart, built, Over, Went, At
  <2>5. ASSUME Over(q, "raised") \/ Over(q, "killed") PROVE run'[q].pc = "idle" /\ Lost'
    <3>1. run'[q].pc = "idle" /\ Harm(run'[q])
      BY <2>5 DEF Over, Harm
    <3>2. Harm(run[q])'
      BY <3>1 DEF Harm
    <3> QED BY <3>1, <3>2 DEF Lost
  <2>6. CASE AssembleFails(q) \/ BuildRaises(q) \/ Kill(q)
    <3>1. asm' = asm /\ dist' = dist
      BY <2>6 DEF AssembleFails, BuildRaises, Kill, built
    <3> QED BY <2>5, <2>6, <3>1, FailureMoves
  <2>7. CASE OpenManifest(q) \/ WriteManifest(q)
    BY <2>7, ManifestMoves DEF OpenManifest, WriteManifest, Went, At
  <2>8. CASE Collect(q) /\ run'[q].pc = "idle"
    <3>1. asm' = asm /\ dist' = dist
      BY <2>8 DEF Collect, built
    <3>2. Over(q, "raised")
      BY <2>8, CollectMoves DEF Went
    <3> QED BY <2>5, <3>1, <3>2
  <2>9. CASE Unlink(q) /\ run'[q].pc = "idle"
    <3>1. asm' = asm /\ dist' = dist /\ Over(q, "raised")
      BY <2>9, UnlinkMoves DEF Unlink, Went
    <3> QED BY <2>5, <3>1
  <2>10. StageRom(q) \/ Asar(q) \/ OpenImage(q) \/ FillImage(q) => run'[q].pc # "idle"
    BY StageRomMoves, AsarMoves, OpenImageMoves, FillImageMoves DEF Went
  <2> QED BY <2>1, <2>2, <2>3, <2>4, <2>6, <2>7, <2>8, <2>9, <2>10 DEF Move
<1> QED BY <1>1, Bystander DEF WholeInv

LEMMA NextWhole ==
  ASSUME IInv, MetInv, WholeInv, [Next]_vars
  PROVE  WholeInv'
<1>1. CASE Edit \/ UNCHANGED vars
  BY <1>1, Still
     DEF WholeInv, WholeAt, Clean, CleanRun, CleanFiles, Held, Ready, Lost, Harm, Excess, TornKnown
<1>2. ASSUME NEW q \in Procs, Move(q), NEW r \in Regions PROVE WholeAt(r)'
  <2> DEFINE Touches == StageRom(q) \/ Asar(q) \/ Collect(q) \/ Unlink(q) \/ OpenImage(q)
                        \/ FillImage(q)
  <2>1. CASE run'[q].pc = "idle" \/ ~Touches
    BY <1>2, <2>1, OtherWhole
  <2>2. CASE run'[q].pc # "idle" /\ Touches /\ r # This(q)
    BY <2>2, Elsewhere
  <2>3. CASE run'[q].pc # "idle" /\ Touches /\ r = This(q)
    <3>1. ASSUME Collect(q) PROVE asm[This(q)] # NONE
      BY <2>3, <3>1, CollectMoves, Carts DEF Over
    <3>2. ASSUME Unlink(q) PROVE asm[This(q)] # NONE
      BY <2>3, <3>2, UnlinkMoves DEF Over
    <3> QED BY <2>3, <3>1, <3>2, StageWhole, AsarWhole, CollectWhole, UnlinkWhole, ImageWhole
  <2> QED BY <2>1, <2>2, <2>3
<1> QED BY <1>1, <1>2, Cases DEF WholeInv

(* No image goes out with a cartridge that is not whole, patched and every *)
(* site redirected, unless two runs met on its region and one of those     *)
(* under way failed, was killed or has still to fail.  For any runs and    *)
(* any regions, whatever earlier, failed or overlapping runs left or leave *)
(* under asm/.                                                             *)
THEOREM WhatShipsIsWhole == Spec => []ReleasesAreWhole
<1>1. Init => WholeInv
  <2> SUFFICES ASSUME Init, NEW r \in Regions PROVE Clean(r) /\ TornKnown(r)
    BY DEF WholeInv, WholeAt
  <2>1. \A p \in Procs : run[p].pc = "idle"
    BY DEF Init, Idle
  <2> QED BY <2>1, ValuesAssumption
          DEF Init, Clean, CleanRun, CleanFiles, Held, Ready, TornKnown
<1>2. IInv /\ WholeInv => ReleasesAreWhole
  <2> SUFFICES ASSUME IInv, WholeInv, NEW n \in DOMAIN dist, dist[n] \notin {NONE, TORN},
                      n[1] \notin met \/ AllEndedWell
               PROVE  dist[n].cart = Whole
    BY DEF ReleasesAreWhole
  <2>1. n \in Regions \X Releases
    BY FilesTyped
  <2>2. n[1] \in Regions /\ n[2] \in Releases /\ n = <<n[1], n[2]>>
    BY <2>1
  <2>3. AllEndedWell => ~Lost /\ ~Excess(n[1])
    BY ValuesAssumption DEF AllEndedWell, At, Lost, Harm, Excess, Held
  <2>4. Clean(n[1])
    BY <2>2, <2>3 DEF WholeInv, WholeAt
  <2> QED BY <2>2, <2>4 DEF Clean, CleanFiles
<1>3. Spec => []WholeInv
  BY <1>1, NextWhole, MetAlways, PTL DEF Spec
<1> QED BY <1>2, <1>3, InvAlways, PTL

-----------------------------------------------------------------------------
(* What the gate's word is worth.  Its placement of the keys is a function *)
(* of the number of keys placed; what is said of it is said of its least   *)
(* step that fails.                                                        *)
\* A table's slots, and the lists of keys there is room for.
Slot == 0 .. Slots - 1
Key == [bank : Nat, addr : Slot]
KeyLists == {k \in Seq(Key) : Len(k) <= Slots}
After(s, d) == (s + d) % Slots

Body(k, f) ==
  [n \in 0 .. Len(k) |-> IF n = 0 THEN <<>> ELSE G!Keys!WithNext(k, f[n - 1])]
Placement(k) == CHOOSE f : f = Body(k, f)

\* The least number of a set, which the scans stop at.
LEMMA LeastNat ==
  ASSUME NEW T \in SUBSET Nat, T # {}
  PROVE  \E n \in T : \A m \in T : n <= m
<1> DEFINE R == {p \in Nat \X Nat : p[1] < p[2]}
<1>1. IsWellFoundedOn(R, Nat)
  BY NatLessThanWellFounded DEF OpToRel
<1>2. PICK n \in T : \A m \in T : ~ (<<m, n>> \in R)
  <2> HIDE DEF R
  <2> QED BY <1>1, WFMin
<1>3. ASSUME NEW m \in T PROVE n <= m
  <2>1. m \in Nat /\ n \in Nat /\ <<m, n>> \notin R
    BY <1>2
  <2>2. ~(m < n)
    BY <2>1
  <2> QED BY <2>1, <2>2
<1> QED BY <1>3

\* Steps round the table, in whole turns.
LEMMA Turn ==
  ASSUME NEW n \in Nat \ {0}, NEW s \in Int
  PROVE  /\ s % n \in 0 .. n - 1
         /\ s \in 0 .. n - 1 => s % n = s
         /\ s \in n .. 2 * n - 1 => s % n = s - n
         /\ s \in 0 - n .. 0 - 1 => s % n = s + n
<1>1. s % n \in 0 .. n - 1
  OBVIOUS
<1>2. s \in 0 .. n - 1 => s % n = s
  OBVIOUS
<1>3. s \in n .. 2 * n - 1 => s % n = s - n
  OBVIOUS
<1>4. s \in 0 - n .. 0 - 1 => s % n = s + n
  OBVIOUS
<1> QED BY <1>1, <1>2, <1>3, <1>4

LEMMA Wrap ==
  ASSUME NEW n \in Nat \ {0}, NEW a \in 0 .. n - 1, NEW b \in 0 .. n - 1
  PROVE  (a + b) % n = IF a + b < n THEN a + b ELSE a + b - n
<1>1. CASE a + b < n
  <2>1. a + b \in Int /\ a + b \in 0 .. n - 1
    BY <1>1
  <2> QED BY <1>1, <2>1, Turn
<1>2. CASE ~(a + b < n)
  <2> DEFINE t == a + b
  <2>1. t \in Int /\ t \in n .. 2 * n - 1
    BY <1>2
  <2>2. t % n = t - n
    <3> HIDE DEF t
    <3> QED BY <2>1, Turn
  <2> QED BY <1>2, <2>2
<1> QED BY <1>1, <1>2

LEMMA WrapBack ==
  ASSUME NEW n \in Nat \ {0}, NEW a \in 0 .. n - 1, NEW b \in 0 .. n - 1
  PROVE  (a - b) % n = IF a >= b THEN a - b ELSE a - b + n
<1>1. CASE a >= b
  <2>1. a - b \in Int /\ a - b \in 0 .. n - 1
    BY <1>1
  <2> QED BY <1>1, <2>1, Turn
<1>2. CASE ~(a >= b)
  <2>1. a - b \in Int /\ a - b \in 0 - n .. 0 - 1
    BY <1>2
  <2> QED BY <1>2, <2>1, Turn
<1> QED BY <1>1, <1>2

\* Slots are steps round the table.
LEMMA Steps ==
  ASSUME NEW s \in Slot
  PROVE  /\ Slots \in Nat \ {0} /\ Slot = 0 .. Slots - 1
         /\ \A d \in Slot : After(s, d) = IF s + d < Slots THEN s + d ELSE s + d - Slots
         /\ \A u \in Slot : (u - s) % Slots = IF u >= s THEN u - s ELSE u - s + Slots
<1>1. Slots \in Nat \ {0} /\ Slot = 0 .. Slots - 1
  BY LimitsAssumption DEF Slot
<1>2. ASSUME NEW d \in Slot
      PROVE  After(s, d) = IF s + d < Slots THEN s + d ELSE s + d - Slots
  BY <1>1, Wrap DEF After
<1>3. ASSUME NEW u \in Slot
      PROVE  (u - s) % Slots = IF u >= s THEN u - s ELSE u - s + Slots
  BY <1>1, WrapBack
<1> QED BY <1>1, <1>2, <1>3

\* Walking round the table from a slot meets every slot once.
LEMMA Walk ==
  ASSUME NEW s \in Slot
  PROVE  /\ \A d \in Slot : After(s, d) \in Slot
         /\ \A u \in Slot : (u - s) % Slots \in Slot /\ After(s, (u - s) % Slots) = u
         /\ \A d, e \in Slot : After(s, d) = After(s, e) => d = e
<1>1. /\ Slots \in Nat \ {0} /\ Slot = 0 .. Slots - 1
      /\ \A d \in Slot : After(s, d) = IF s + d < Slots THEN s + d ELSE s + d - Slots
      /\ \A u \in Slot : (u - s) % Slots = IF u >= s THEN u - s ELSE u - s + Slots
  BY Steps
<1>2. ASSUME NEW d \in Slot PROVE After(s, d) \in Slot
  BY <1>1
<1>3. ASSUME NEW u \in Slot
      PROVE  (u - s) % Slots \in Slot /\ After(s, (u - s) % Slots) = u
  <2> DEFINE d == (u - s) % Slots
  <2>1. d = IF u >= s THEN u - s ELSE u - s + Slots
    BY <1>1
  <2> HIDE DEF d
  <2>2. d \in Slot
    BY <1>1, <2>1
  <2>3. After(s, d) = u
    BY <1>1, <2>1, <2>2
  <2> QED BY <2>2, <2>3 DEF d
<1>4. ASSUME NEW d \in Slot, NEW e \in Slot, After(s, d) = After(s, e)
      PROVE  d = e
  <2>1. /\ Slots \in Int /\ s \in Int
        /\ d \in Int /\ 0 <= d /\ d < Slots /\ e \in Int /\ 0 <= e /\ e < Slots
    BY <1>1
  <2> DEFINE u == After(s, d)
  <2>2. u = IF s + d < Slots THEN s + d ELSE s + d - Slots
    BY <1>1
  <2>3. u = IF s + e < Slots THEN s + e ELSE s + e - Slots
    BY <1>1, <1>4
  <2> HIDE DEF u
  <2> QED BY <2>1, <2>2, <2>3
<1> QED BY <1>2, <1>3, <1>4

\* What the constants say of one list.
LEMMA ListOfKeys ==
  ASSUME NEW k \in KeyLists
  PROVE  /\ k \in Seq(Key) /\ DOMAIN k = 1 .. Len(k) /\ Len(k) \in Nat /\ Len(k) <= Slots
         /\ IsFiniteSet(DOMAIN k) /\ Cardinality(DOMAIN k) = Len(k)
         /\ \A i \in DOMAIN k : k[i] \in Key /\ k[i].addr \in Slot /\ k[i].bank \in Nat
<1> DEFINE n == Len(k)
<1>1. k \in Seq(Key) /\ n <= Slots
  BY DEF KeyLists
<1>2. DOMAIN k = 1 .. n /\ n \in Nat /\ n \in Int /\ 1 \in Int
  BY <1>1
<1>3. \A i \in DOMAIN k : k[i] \in Key
  BY <1>1, <1>2
<1> HIDE DEF n
<1>4. IsFiniteSet(1 .. n) /\ Cardinality(1 .. n) = IF 1 > n THEN 0 ELSE n - 1 + 1
  BY <1>2, FS_Interval
<1>5. Cardinality(1 .. n) = n
  BY <1>2, <1>4
<1> QED BY <1>1, <1>2, <1>3, <1>4, <1>5 DEF Key, n

\* There is one, whatever the list: each step has the one before it.
LEMMA Exists ==
  ASSUME NEW k, Len(k) \in Nat
  PROVE  \E f : f = Body(k, f)
<1> DEFINE N == Len(k)
           Next1(x) == G!Keys!WithNext(k, x)
           Upto(f, n) == /\ f = [m \in 0 .. N |-> f[m]]
                         /\ \A m \in 0 .. n : f[m] = IF m = 0 THEN <<>> ELSE Next1(f[m - 1])
           T == {n \in 0 .. N : ~\E f : Upto(f, n)}
<1> HIDE DEF Next1
<1>1. T = {}
  <2> SUFFICES ASSUME T # {} PROVE FALSE
    OBVIOUS
  <2>1. T \in SUBSET Nat
    OBVIOUS
  <2>2. PICK n \in T : \A m \in T : n <= m
    <3> HIDE DEF T
    <3> QED BY <2>1, LeastNat
  <2>3. n \in 0 .. N /\ N \in Nat
    OBVIOUS
  <2>4. CASE n = 0
    <3> DEFINE g == [m \in 0 .. N |-> <<>>]
    <3>1. g = [m \in 0 .. N |-> g[m]] /\ g[0] = <<>>
      BY <2>3
    <3>2. Upto(g, 0)
      BY <3>1
    <3> QED BY <2>2, <2>4, <3>2
  <2>5. CASE n > 0
    <3>1. n - 1 \in 0 .. N /\ n - 1 \notin T
      BY <2>2, <2>3, <2>5
    <3>2. PICK f : Upto(f, n - 1)
      BY <3>1
    <3> DEFINE w == Next1(f[n - 1])
               g == [m \in 0 .. N |-> IF m = n THEN w ELSE f[m]]
    <3>3. \A m \in 0 .. N : g[m] = IF m = n THEN w ELSE f[m]
      OBVIOUS
    <3>4. g = [m \in 0 .. N |-> g[m]]
      OBVIOUS
    <3> HIDE DEF w, g
    <3>5. ASSUME NEW m \in 0 .. n PROVE g[m] = IF m = 0 THEN <<>> ELSE Next1(g[m - 1])
      <4>1. CASE m = n
        <5>1. g[n] = w /\ g[n - 1] = f[n - 1]
          BY <2>3, <2>5, <3>1, <3>3
        <5>2. w = Next1(g[n - 1])
          BY <5>1 DEF w
        <5> QED BY <2>5, <4>1, <5>1, <5>2
      <4>2. CASE m # n
        <5>1. m \in 0 .. n - 1 /\ m \in 0 .. N
          BY <2>3, <4>2
        <5>2. g[m] = f[m] /\ (m # 0 => g[m - 1] = f[m - 1])
          BY <2>3, <3>3, <5>1
        <5>3. f[m] = IF m = 0 THEN <<>> ELSE Next1(f[m - 1])
          BY <3>2, <5>1
        <5> QED BY <5>2, <5>3
      <4> QED BY <4>1, <4>2
    <3>6. Upto(g, n)
      BY <3>4, <3>5
    <3> QED BY <2>2, <3>6
  <2> QED BY <2>3, <2>4, <2>5
<1>2. PICK f : Upto(f, N)
  BY <1>1
<1>3. f = Body(k, f)
  <2>1. \A m \in 0 .. N : f[m] = IF m = 0 THEN <<>> ELSE Next1(f[m - 1])
    BY <1>2
  <2>2. f = [m \in 0 .. N |-> f[m]]
    BY <1>2
  <2>3. f = [m \in 0 .. N |-> IF m = 0 THEN <<>> ELSE Next1(f[m - 1])]
    BY <2>1, <2>2
  <2> QED BY <2>3 DEF Body, Next1
<1> QED BY <1>3

LEMMA Placements ==
  ASSUME NEW k, Len(k) \in Nat
  PROVE  /\ G!Keys!FirstFreeSlots(k) = Placement(k)[Len(k)]
         /\ Placement(k)[0] = <<>>
         /\ \A n \in 1 .. Len(k) : Placement(k)[n] = G!Keys!WithNext(k, Placement(k)[n - 1])
<1> DEFINE g == Placement(k)
<1>1. g = Body(k, g)
  BY Exists, Zenon DEF Placement
<1>2. G!Keys!FirstFreeSlots(k) = g[Len(k)]
  BY Zenon DEF G!Keys!FirstFreeSlots, Body, Placement
<1> HIDE DEF g
<1>3. \A n \in 0 .. Len(k) : g[n] = IF n = 0 THEN <<>> ELSE G!Keys!WithNext(k, g[n - 1])
  <2> DEFINE W(x) == G!Keys!WithNext(k, x)
  <2>1. g = [n \in 0 .. Len(k) |-> IF n = 0 THEN <<>> ELSE W(g[n - 1])]
    BY <1>1 DEF Body
  <2> HIDE DEF W
  <2>2. \A n \in 0 .. Len(k) : g[n] = IF n = 0 THEN <<>> ELSE W(g[n - 1])
    BY <2>1
  <2> QED BY <2>2 DEF W
<1>4. g[0] = <<>>
  BY <1>3
<1>5. ASSUME NEW n \in 1 .. Len(k) PROVE g[n] = G!Keys!WithNext(k, g[n - 1])
  <2>1. n \in 0 .. Len(k) /\ n # 0
    OBVIOUS
  <2> QED BY <1>3, <2>1
<1> QED BY <1>2, <1>4, <1>5 DEF g

\* Of any streams one is first, and only one.
LEMMA FirstToPlace ==
  ASSUME NEW k \in KeyLists, NEW left \in SUBSET (DOMAIN k), left # {}
  PROVE  G!Keys!Earliest(k, left) \in left
<1> DEFINE First(i, j) == k[i].addr < k[j].addr \/ (k[i].addr = k[j].addr /\ i <= j)
           A == {k[j].addr : j \in left}
<1>1. \A j \in left : j \in Nat /\ k[j].addr \in Nat
  <2>1. \A j \in left : j \in Nat /\ k[j].addr \in Slot
    BY ListOfKeys
  <2> QED BY <2>1, LimitsAssumption DEF Slot
<1>2. PICK a \in A : \A b \in A : a <= b
  <2>1. A \in SUBSET Nat /\ A # {}
    BY <1>1
  <2> HIDE DEF A
  <2> QED BY <2>1, LeastNat
<1> DEFINE I == {j \in left : k[j].addr = a}
<1>3. PICK i \in I : \A j \in I : i <= j
  <2>1. I \in SUBSET Nat /\ I # {}
    BY <1>1, <1>2
  <2> HIDE DEF I
  <2> QED BY <2>1, LeastNat
<1>4. i \in left /\ k[i].addr = a
  OBVIOUS
<1>5. ASSUME NEW j \in left PROVE First(i, j)
  <2>1. k[j].addr \in A /\ a <= k[j].addr /\ k[j].addr \in Nat /\ a \in Nat
    BY <1>1, <1>2, <1>4
  <2>2. CASE k[j].addr = a
    BY <1>3, <1>4, <2>2
  <2>3. CASE k[j].addr # a
    BY <1>4, <2>1, <2>3
  <2> QED BY <2>2, <2>3
<1>6. i \in left /\ \A j \in left : First(i, j)
  BY <1>4, <1>5
<1>7. G!Keys!Earliest(k, left) = CHOOSE x \in left : \A j \in left : First(x, j)
  BY DEF G!Keys!Earliest
<1> HIDE DEF First
<1> QED BY <1>6, <1>7

\* The steps the gate counts end at the first slot outside the taken ones.
LEMMA Probed ==
  ASSUME NEW a \in Slot, NEW taken, NEW u \in Slot, u \notin taken
  PROVE  /\ G!Keys!Probe(a, taken) \in Slot
         /\ After(a, G!Keys!Probe(a, taken)) \notin taken
         /\ \A e \in 0 .. G!Keys!Probe(a, taken) - 1 : After(a, e) \in taken
<1> DEFINE T == {d \in Slot : After(a, d) \notin taken}
           P(d) == (a + d) % Slots \notin taken /\ \A e \in 0 .. d - 1 : (a + e) % Slots \in taken
<1>1. Slots \in Nat /\ Slot = 0 .. Slots - 1 /\ Slot \subseteq Nat
  BY LimitsAssumption DEF Slot
<1>2. T # {}
  <2>1. (u - a) % Slots \in Slot /\ After(a, (u - a) % Slots) = u
    BY Walk
  <2> QED BY <2>1
<1>3. PICK d \in T : \A e \in T : d <= e
  <2>1. T \in SUBSET Nat
    BY <1>1
  <2> HIDE DEF T
  <2> QED BY <1>2, <2>1, LeastNat
<1>4. d \in 0 .. Slots - 1 /\ P(d)
  <2>1. ASSUME NEW e \in 0 .. d - 1 PROVE After(a, e) \in taken
    <3>1. e \in Slot /\ ~(d <= e)
      BY <1>1, <1>3
    <3> QED BY <1>3, <3>1
  <2> QED BY <1>1, <1>3, <2>1 DEF After
<1> DEFINE c == CHOOSE e \in 0 .. Slots - 1 : P(e)
<1>5. c \in 0 .. Slots - 1 /\ P(c)
  <2> HIDE DEF P
  <2> QED BY <1>4
<1>6. G!Keys!Probe(a, taken) = c
  BY DEF G!Keys!Probe
<1> HIDE DEF c
<1> QED BY <1>1, <1>5, <1>6 DEF After

\* Streams of the list take a slot each, so one is free while any waits.
LEMMA SlotsLeft ==
  ASSUME NEW k \in KeyLists, NEW D \in SUBSET (DOMAIN k), NEW f \in [D -> Slot],
         D # DOMAIN k
  PROVE  \E u \in Slot : u \notin {f[j] : j \in D}
<1>1. Slots \in Nat /\ Slot = 0 .. Slots - 1
  BY LimitsAssumption DEF Slot
<1>2. Len(k) \in Nat /\ Len(k) <= Slots
  BY ListOfKeys
<1>3. IsFiniteSet(DOMAIN k) /\ Cardinality(DOMAIN k) = Len(k)
  BY ListOfKeys
<1>4. IsFiniteSet(D) /\ Cardinality(D) < Len(k)
  <2>1. IsFiniteSet(D) /\ Cardinality(D) <= Cardinality(DOMAIN k)
        /\ (Cardinality(DOMAIN k) = Cardinality(D) => DOMAIN k = D)
    BY <1>3, FS_Subset
  <2>2. Cardinality(D) \in Nat
    BY <2>1, FS_CardinalityType
  <2> QED BY <1>2, <1>3, <2>1, <2>2
<1>5. IsFiniteSet(Slot) /\ Cardinality(Slot) = Slots
  BY <1>1, FS_Interval
<1>6. SUFFICES ASSUME \A u \in Slot : \E j \in D : f[j] = u PROVE FALSE
  OBVIOUS
<1> DEFINE h == [u \in Slot |-> CHOOSE j \in D : f[j] = u]
<1>7. \A u \in Slot : h[u] \in D /\ f[h[u]] = u
  BY <1>6
<1>8. h \in [Slot -> D]
  BY <1>7
<1>9. Cardinality(D) < Cardinality(Slot)
  <2>1. Cardinality(D) \in Nat
    BY <1>4, FS_CardinalityType
  <2> QED BY <1>1, <1>2, <1>4, <1>5, <2>1
<1>10. PICK u, v \in Slot : u # v /\ h[u] = h[v]
  <2> HIDE DEF h
  <2> QED BY <1>4, <1>5, <1>8, <1>9, FS_PigeonHole
<1> QED BY <1>7, <1>10

\* One more stream in a slot of the table.
LEMMA OneMore ==
  ASSUME NEW k \in KeyLists, NEW D \in SUBSET (DOMAIN k), NEW f \in [D -> Slot],
         D # DOMAIN k
  PROVE  \E i \in DOMAIN k \ D : G!Keys!WithNext(k, f) \in [D \union {i} -> Slot]
<1> DEFINE left == DOMAIN k \ D
           i == G!Keys!Earliest(k, left)
           taken == {f[j] : j \in D}
           a == k[i].addr
           u == (a + G!Keys!Probe(a, taken)) % Slots
<1>1. left \in SUBSET (DOMAIN k) /\ left # {}
  OBVIOUS
<1>2. i \in left
  <2> HIDE DEF left
  <2> QED BY <1>1, FirstToPlace
<1>3. a \in Slot
  <2>1. i \in DOMAIN k
    BY <1>2
  <2> HIDE DEF i
  <2> QED BY <2>1, ListOfKeys
<1>4. \E v \in Slot : v \notin taken
  BY SlotsLeft
<1>5. u \in Slot
  <2> HIDE DEF a, taken
  <2>1. G!Keys!Probe(a, taken) \in Slot
    BY <1>3, <1>4, Probed
  <2> QED BY <1>3, <2>1, Walk DEF After
<1>6. DOMAIN f = D
  OBVIOUS
<1>7. G!Keys!WithNext(k, f) = [j \in D \union {i} |-> IF j = i THEN u ELSE f[j]]
  BY <1>6, Zenon DEF G!Keys!WithNext
<1> HIDE DEF i, u, left
<1>8. G!Keys!WithNext(k, f) \in [D \union {i} -> Slot]
  BY <1>5, <1>7
<1> QED BY <1>2, <1>8 DEF left

\* n streams are placed in n steps.
LEMMA PlacementTyped ==
  ASSUME NEW k \in KeyLists, NEW n \in 0 .. Len(k)
  PROVE  \E D \in SUBSET (DOMAIN k) : IsFiniteSet(D) /\ Cardinality(D) = n
                                      /\ Placement(k)[n] \in [D -> Slot]
<1>1. Len(k) \in Nat
  BY ListOfKeys
<1>2. Placement(k)[0] = <<>>
      /\ \A m \in 1 .. Len(k) : Placement(k)[m] = G!Keys!WithNext(k, Placement(k)[m - 1])
  BY <1>1, Placements
<1> DEFINE g == Placement(k)
           N == Len(k)
           Has(m, D) == IsFiniteSet(D) /\ Cardinality(D) = m /\ g[m] \in [D -> Slot]
           T == {m \in 0 .. N : ~\E D \in SUBSET (DOMAIN k) : Has(m, D)}
<1>3. T = {}
  <2> SUFFICES ASSUME T # {} PROVE FALSE
    OBVIOUS
  <2>1. T \in SUBSET Nat
    OBVIOUS
  <2>2. PICK m \in T : \A e \in T : m <= e
    <3> HIDE DEF T
    <3> QED BY <2>1, LeastNat
  <2>3. m \in 0 .. N /\ N \in Nat
    BY <1>1
  <2>4. CASE m = 0
    <3>1. IsFiniteSet({}) /\ Cardinality({}) = 0
      BY FS_EmptySet
    <3>2. g[0] \in [{} -> Slot]
      BY <1>2
    <3>3. Has(0, {})
      BY <3>1, <3>2
    <3> QED BY <2>2, <2>4, <3>3
  <2>5. CASE m > 0
    <3>1. m - 1 \in 0 .. N /\ m - 1 \notin T
      BY <2>2, <2>3, <2>5
    <3>2. PICK D \in SUBSET (DOMAIN k) : Has(m - 1, D)
      BY <3>1
    <3>3. D # DOMAIN k
      <4>1. Cardinality(DOMAIN k) = N
        BY ListOfKeys
      <4> QED BY <2>3, <3>2, <4>1
    <3>4. PICK i \in DOMAIN k \ D : G!Keys!WithNext(k, g[m - 1]) \in [D \union {i} -> Slot]
      <4> DEFINE f == g[m - 1]
      <4>1. f \in [D -> Slot]
        BY <3>2
      <4> HIDE DEF f
      <4>2. \E i \in DOMAIN k \ D : G!Keys!WithNext(k, f) \in [D \union {i} -> Slot]
        BY <3>3, <4>1, OneMore
      <4> QED BY <4>2 DEF f
    <3>5. g[m] = G!Keys!WithNext(k, g[m - 1])
      BY <1>2, <2>3, <2>5
    <3>6. g[m] \in [D \union {i} -> Slot]
      BY <3>4, <3>5
    <3>7. IsFiniteSet(D) /\ Cardinality(D) = m - 1 /\ i \notin D
      BY <3>2, <3>4
    <3>8. IsFiniteSet(D \union {i}) /\ Cardinality(D \union {i}) = m - 1 + 1
      BY <3>7, FS_AddElement
    <3>9. m - 1 + 1 = m
      BY <2>3
    <3>10. Has(m, D \union {i}) /\ D \union {i} \in SUBSET (DOMAIN k)
      BY <3>4, <3>6, <3>8, <3>9
    <3> QED BY <2>2, <3>10
  <2> QED BY <2>3, <2>4, <2>5
<1>4. \E D \in SUBSET (DOMAIN k) : Has(n, D)
  BY <1>3
<1> QED BY <1>4

\* Every stream of a list has a slot, whatever the list.
LEMMA AllHaveSlots ==
  ASSUME NEW k \in KeyLists
  PROVE  G!Keys!FirstFreeSlots(k) \in [DOMAIN k -> Slot]
<1> DEFINE N == Len(k)
<1>1. N \in Nat /\ IsFiniteSet(DOMAIN k) /\ Cardinality(DOMAIN k) = N
  BY ListOfKeys
<1>2. PICK D \in SUBSET (DOMAIN k) : IsFiniteSet(D) /\ Cardinality(D) = N
                                      /\ Placement(k)[N] \in [D -> Slot]
  BY <1>1, PlacementTyped
<1>3. D = DOMAIN k
  <2> HIDE DEF N
  <2> QED BY <1>1, <1>2, FS_Subset
<1>4. G!Keys!FirstFreeSlots(k) = Placement(k)[N]
  BY <1>1, Placements
<1> QED BY <1>2, <1>3, <1>4

\* The worst scan is one of some stream's, and none is longer.
LEMMA WorstBounds ==
  ASSUME NEW k \in KeyLists, NEW i \in DOMAIN k
  PROVE  /\ G!Keys!Distance(k, G!Keys!FirstFreeSlots(k), i) <= G!Keys!WorstScan(k)
         /\ G!Keys!Distance(k, G!Keys!FirstFreeSlots(k), i) \in Nat
         /\ G!Keys!WorstScan(k) \in Nat
<1> DEFINE f == G!Keys!FirstFreeSlots(k)
           away(j) == G!Keys!Distance(k, f, j)
           S == {away(j) : j \in DOMAIN k}
           T == {Slots - 1 - d : d \in S}
           w == CHOOSE d \in S : \A e \in S : e <= d
<1>1. k \in Seq(Key) /\ Slots \in Nat /\ Slot = 0 .. Slots - 1
  BY LimitsAssumption DEF Slot, KeyLists
<1>2. \A j \in DOMAIN k : away(j) \in Slot
  <2> SUFFICES ASSUME NEW j \in DOMAIN k PROVE away(j) \in Slot
    OBVIOUS
  <2> DEFINE p == f[j]
             a == k[j].addr
  <2>1. p \in Slot /\ a \in Slot
    BY AllHaveSlots, ListOfKeys
  <2>2. away(j) = (p - a) % Slots
    BY DEF G!Keys!Distance
  <2> HIDE DEF p, a
  <2>3. (p - a) % Slots \in Slot
    BY <2>1, Walk
  <2> HIDE DEF away
  <2> QED BY <2>2, <2>3
<1>3. k # <<>>
  BY <1>1
<1>4. G!Keys!WorstScan(k) = w
  BY <1>3, Zenon DEF G!Keys!WorstScan
<1> HIDE DEF away
<1>5. S # {} /\ S \subseteq Slot /\ away(i) \in S
  BY <1>2
<1> HIDE DEF S
<1>6. T \in SUBSET Nat /\ T # {}
  <2>1. ASSUME NEW d \in S PROVE Slots - 1 - d \in Nat
    BY <1>1, <1>5
  <2> QED BY <1>5, <2>1
<1>7. PICK t \in T : \A u \in T : t <= u
  <2> HIDE DEF T
  <2> QED BY <1>6, LeastNat
<1>8. PICK d \in S : t = Slots - 1 - d
  OBVIOUS
<1>9. ASSUME NEW e \in S PROVE e <= d
  <2>1. t <= Slots - 1 - e /\ e \in Nat /\ d \in Nat
    BY <1>1, <1>5, <1>7
  <2> QED BY <1>1, <1>8, <2>1
<1>10. w \in S /\ \A e \in S : e <= w
  <2> DEFINE Top(x) == \A e \in S : e <= x
  <2>1. d \in S /\ Top(d)
    BY <1>8, <1>9
  <2>2. w = CHOOSE x \in S : Top(x)
    OBVIOUS
  <2> HIDE DEF Top, w
  <2>3. w \in S /\ Top(w)
    BY <2>1, <2>2
  <2> QED BY <2>3 DEF Top
<1> HIDE DEF w
<1>11. w \in Nat
  BY <1>1, <1>5, <1>10
<1>12. away(i) <= w /\ away(i) \in Nat
  <2> DEFINE d0 == away(i)
  <2>1. d0 \in S /\ d0 \in Slot
    BY <1>5
  <2> HIDE DEF d0
  <2>2. d0 <= w /\ d0 \in Nat
    BY <1>1, <1>10, <2>1
  <2> QED BY <2>2 DEF d0
<1> QED BY <1>4, <1>11, <1>12 DEF away

-----------------------------------------------------------------------------
(* What sorted() returns: the entries of the table, each once, in order.   *)
Entry == Nat \X Nat

\* The entries that stand no later than j, and j's place among them.
Before(t, j) == {i \in DOMAIN t : G!NoLater(t, i, j)}
Place(t, j) == Cardinality(Before(t, j))

LEMMA TableShape ==
  ASSUME NEW t \in Seq(Entry)
  PROVE  /\ DOMAIN t = 1 .. Len(t) /\ Len(t) \in Nat
         /\ IsFiniteSet(DOMAIN t) /\ Cardinality(DOMAIN t) = Len(t)
         /\ \A i \in DOMAIN t : t[i] \in Entry /\ t[i][1] \in Nat /\ t[i][2] \in Nat
<1> DEFINE n == Len(t)
<1>1. DOMAIN t = 1 .. n /\ n \in Nat /\ n \in Int /\ 1 \in Int
  OBVIOUS
<1>2. \A i \in DOMAIN t : t[i] \in Entry
  BY <1>1
<1>3. \A i \in DOMAIN t : t[i][1] \in Nat /\ t[i][2] \in Nat
  BY <1>2 DEF Entry
<1> HIDE DEF n
<1>4. IsFiniteSet(1 .. n) /\ Cardinality(1 .. n) = IF 1 > n THEN 0 ELSE n - 1 + 1
  BY <1>1, FS_Interval
<1>5. Cardinality(1 .. n) = n
  BY <1>1, <1>4
<1> QED BY <1>1, <1>2, <1>3, <1>4, <1>5 DEF n

LEMMA SameCount == \A X : G!Cardinality(X) = Cardinality(X)
BY Zenon DEF G!Cardinality, Cardinality

\* Entries of a table stand in one order, each pair of them.
LEMMA InOrder ==
  ASSUME NEW t \in Seq(Entry), NEW i \in DOMAIN t, NEW j \in DOMAIN t
  PROVE  /\ G!NoLater(t, j, j)
         /\ G!NoLater(t, i, j) \/ G!NoLater(t, j, i)
         /\ G!NoLater(t, i, j) /\ G!NoLater(t, j, i) => i = j
         /\ \A k \in DOMAIN t : G!NoLater(t, k, i) /\ G!NoLater(t, i, j) => G!NoLater(t, k, j)
         /\ G!NoLater(t, i, j) => t[i][1] <= t[j][1]
<1>1. /\ i \in Nat /\ j \in Nat /\ t[i][1] \in Nat /\ t[i][2] \in Nat
      /\ t[j][1] \in Nat /\ t[j][2] \in Nat
  BY TableShape
<1> DEFINE NoLater(k, l) == \/ t[k][1] < t[l][1]
                            \/ t[k][1] = t[l][1] /\ t[k][2] < t[l][2]
                            \/ t[k][1] = t[l][1] /\ t[k][2] = t[l][2] /\ k <= l
<1>2. ASSUME NEW k \in DOMAIN t, NEW l \in DOMAIN t
      PROVE  G!NoLater(t, k, l) <=> NoLater(k, l)
  <2>1. t[k] \in Nat \X Nat /\ t[l] \in Nat \X Nat
    BY TableShape DEF Entry
  <2>2. t[k] = <<t[k][1], t[k][2]>> /\ t[l] = <<t[l][1], t[l][2]>>
    BY <2>1
  <2>3. t[k] = t[l] <=> t[k][1] = t[l][1] /\ t[k][2] = t[l][2]
    BY <2>2
  <2> QED BY <2>3 DEF G!NoLater, G!Before, G!source, G!length
<1>3. G!NoLater(t, j, j)
  BY <1>1, <1>2
<1>4. NoLater(i, j) \/ NoLater(j, i)
  BY <1>1
<1>5. NoLater(i, j) /\ NoLater(j, i) => i = j
  BY <1>1
<1>6. ASSUME NEW k \in DOMAIN t, NoLater(k, i), NoLater(i, j)
      PROVE  NoLater(k, j)
  <2>1. k \in Nat /\ t[k][1] \in Nat /\ t[k][2] \in Nat
    BY TableShape
  <2> QED BY <1>1, <1>6, <2>1
<1>7. NoLater(i, j) => t[i][1] <= t[j][1]
  BY <1>1
<1> HIDE DEF NoLater
<1> QED BY <1>2, <1>3, <1>4, <1>5, <1>6, <1>7

\* A later entry has a greater place, so no two have the same.
LEMMA Places ==
  ASSUME NEW t \in Seq(Entry), NEW j \in DOMAIN t
  PROVE  /\ Place(t, j) \in DOMAIN t
         /\ \A i \in DOMAIN t : G!NoLater(t, i, j) /\ i # j => Place(t, i) < Place(t, j)
         /\ \A i \in DOMAIN t : Place(t, i) = Place(t, j) => i = j
<1>1. ASSUME NEW k \in DOMAIN t
      PROVE  /\ IsFiniteSet(Before(t, k)) /\ Place(t, k) \in Nat /\ Place(t, k) <= Len(t)
  <2>1. Before(t, k) \in SUBSET (DOMAIN t)
    BY DEF Before
  <2>2. IsFiniteSet(Before(t, k)) /\ Cardinality(Before(t, k)) <= Len(t)
    BY <2>1, TableShape, FS_Subset
  <2>3. Cardinality(Before(t, k)) \in Nat
    BY <2>2, FS_CardinalityType
  <2> QED BY <2>2, <2>3 DEF Place
<1>2. ASSUME NEW k \in DOMAIN t, NEW i \in DOMAIN t, G!NoLater(t, i, k), i # k
      PROVE  Place(t, i) < Place(t, k)
  <2>1. k \notin Before(t, i)
    BY <1>2, InOrder DEF Before
  <2>2. Before(t, i) \union {k} \in SUBSET Before(t, k)
    <3>1. k \in Before(t, k)
      BY InOrder DEF Before
    <3>2. ASSUME NEW h \in Before(t, i) PROVE h \in Before(t, k)
      <4>1. h \in DOMAIN t /\ G!NoLater(t, h, i)
        BY DEF Before
      <4>2. G!NoLater(t, h, k)
        BY <1>2, <4>1, InOrder
      <4> QED BY <4>1, <4>2 DEF Before
    <3> QED BY <3>1, <3>2
  <2>3. Cardinality(Before(t, i) \union {k}) = Place(t, i) + 1
    BY <1>1, <2>1, FS_AddElement DEF Place
  <2>4. Cardinality(Before(t, i) \union {k}) <= Place(t, k)
    BY <1>1, <2>2, FS_Subset DEF Place
  <2> QED BY <1>1, <2>3, <2>4
<1>3. Place(t, j) >= 1
  <2>1. j \in Before(t, j)
    BY InOrder DEF Before
  <2>2. Place(t, j) # 0
    BY <1>1, <2>1, FS_EmptySet DEF Place
  <2> QED BY <1>1, <2>2
<1>4. Place(t, j) \in DOMAIN t
  BY <1>1, <1>3, TableShape
<1>5. ASSUME NEW i \in DOMAIN t, Place(t, i) = Place(t, j), i # j PROVE FALSE
  <2>1. G!NoLater(t, i, j) \/ G!NoLater(t, j, i)
    BY InOrder
  <2>2. Place(t, i) < Place(t, j) \/ Place(t, j) < Place(t, i)
    BY <1>2, <1>5, <2>1
  <2> QED BY <1>1, <1>5, <2>2
<1> QED BY <1>2, <1>4, <1>5

\* Each place is some entry's, and sorted() puts that entry there.
LEMMA SortedPlaces ==
  ASSUME NEW t \in Seq(Entry)
  PROVE  /\ G!Sorted(t) \in Seq(Entry) /\ Len(G!Sorted(t)) = Len(t)
         /\ DOMAIN G!Sorted(t) = DOMAIN t
         /\ \A n \in DOMAIN t : \E j \in DOMAIN t : Place(t, j) = n
         /\ \A j \in DOMAIN t : G!Sorted(t)[Place(t, j)] = t[j]
<1> DEFINE N == DOMAIN t
           places == {[of |-> j, place |-> Place(t, j)] : j \in N}
           S == G!Sorted(t)
<1>1. S = [n \in N |-> t[(CHOOSE p \in places : p.place = n).of]]
  <2> DEFINE gplaces == {[of |-> j, place |-> G!Cardinality({i \in N : G!NoLater(t, i, j)})] :
                           j \in N}
  <2>1. S = [n \in N |-> t[(CHOOSE p \in gplaces : p.place = n).of]]
    BY Zenon DEF G!Sorted
  <2>2. gplaces = places
    BY SameCount DEF Place, Before
  <2> HIDE DEF S, places, gplaces
  <2> QED BY <2>1, <2>2
<1>2. \A n \in N : \E j \in N : Place(t, j) = n
  <2> DEFINE f == [j \in N |-> Place(t, j)]
  <2>1. f \in [N -> N] /\ \A i, j \in N : f[i] = f[j] => i = j
    BY Places
  <2> HIDE DEF f
  <2>2. f \in Injection(N, N)
    BY <2>1 DEF Injection, IsInjective
  <2>3. f \in Surjection(N, N)
    BY <2>2, TableShape, FS_Injection
  <2>4. \A n \in N : \E j \in N : f[j] = n
    BY <2>3 DEF Surjection
  <2> QED BY <2>4 DEF f
<1>3. ASSUME NEW j \in N PROVE S[Place(t, j)] = t[j]
  <2> DEFINE n == Place(t, j)
             p == CHOOSE q \in places : q.place = n
  <2>1. n \in N
    BY Places
  <2>2. [of |-> j, place |-> Place(t, j)] \in places
    OBVIOUS
  <2>3. p \in places /\ p.place = n
    BY <2>2
  <2>4. PICK i \in N : p = [of |-> i, place |-> Place(t, i)]
    BY <2>3
  <2>5. p.of = i /\ Place(t, i) = n
    <3> HIDE DEF p, n
    <3> QED BY <2>3, <2>4
  <2>6. i = j
    BY <2>5, Places
  <2> HIDE DEF n, p
  <2>7. S[n] = t[p.of]
    BY <1>1, <2>1 DEF p
  <2> QED BY <2>5, <2>6, <2>7 DEF n
<1>4. ASSUME NEW n \in N PROVE S[n] \in Entry
  <2>1. PICK j \in N : Place(t, j) = n
    BY <1>2
  <2> QED BY <1>3, <2>1, TableShape
<1> HIDE DEF S
<1>5. S = [n \in 1 .. Len(t) |-> S[n]] /\ Len(t) \in Nat
  BY <1>1, TableShape
<1>6. S \in Seq(Entry) /\ Len(S) = Len(t) /\ DOMAIN S = N
  <2> DEFINE m == Len(t)
  <2>1. S \in [1 .. m -> Entry] /\ m \in Nat
    BY <1>4, <1>5, TableShape
  <2>2. DOMAIN S = 1 .. m
    BY <2>1
  <2> HIDE DEF m
  <2>3. S \in Seq(Entry) /\ Len(S) = m
    BY <2>1
  <2> QED BY <2>2, <2>3, TableShape DEF m
<1> QED BY <1>2, <1>3, <1>6 DEF S

\* Where no neighbours have one address, no two entries do.
LEMMA NoRepeats ==
  ASSUME NEW t \in Seq(Entry), G!Duplicates(G!Sorted(t)) = {}
  PROVE  \A i, j \in DOMAIN t : t[i][1] = t[j][1] => i = j
<1> DEFINE S == G!Sorted(t)
<1>1. \A n \in 2 .. Len(S) : S[n - 1][1] # S[n][1]
  BY DEF G!Duplicates, G!source
<1>2. ASSUME NEW i \in DOMAIN t, NEW j \in DOMAIN t, t[i][1] = t[j][1],
             Place(t, i) < Place(t, j)
      PROVE  FALSE
  <2> DEFINE m == Place(t, i)
             n == Place(t, j)
  <2>1. m \in 1 .. Len(t) /\ n \in 1 .. Len(t) /\ Len(t) \in Nat /\ m < n
    BY <1>2, Places, TableShape
  <2> HIDE DEF m, n
  <2>2. n - 1 \in DOMAIN t /\ n \in 2 .. Len(t) /\ m <= n - 1
    BY <2>1, TableShape
  <2>3. PICK k \in DOMAIN t : Place(t, k) = n - 1
    BY <2>2, SortedPlaces
  <2>4. S[n - 1] = t[k] /\ S[n] = t[j]
    BY <2>3, SortedPlaces DEF n
  <2>5. t[i][1] <= t[k][1]
    <3>1. ~(Place(t, k) < Place(t, i))
      BY <2>1, <2>2, <2>3 DEF m
    <3>2. G!NoLater(t, i, k)
      BY <3>1, InOrder, Places
    <3> QED BY <3>2, InOrder
  <2>6. t[k][1] <= t[j][1]
    <3>1. ~(Place(t, j) < Place(t, k))
      BY <2>1, <2>3 DEF n
    <3>2. G!NoLater(t, k, j)
      BY <3>1, InOrder, Places
    <3> QED BY <3>2, InOrder
  <2>7. t[k][1] = t[j][1]
    <3>1. t[k][1] \in Nat /\ t[j][1] \in Nat
      BY TableShape
    <3> QED BY <1>2, <2>5, <2>6, <3>1
  <2>8. Len(S) = Len(t)
    BY SortedPlaces
  <2> QED BY <1>1, <2>2, <2>4, <2>7, <2>8
<1>3. ASSUME NEW i \in DOMAIN t, NEW j \in DOMAIN t, t[i][1] = t[j][1], i # j
      PROVE  FALSE
  <2>1. Place(t, i) \in Nat /\ Place(t, j) \in Nat /\ Place(t, i) # Place(t, j)
    BY <1>3, Places, TableShape
  <2> QED BY <1>2, <1>3, <2>1
<1> QED BY <1>3

\* The entries in order, where no address repeats: sorted(), whichever order
\* they are first put in.
LEMMA EntriesInOrder ==
  ASSUME NEW t \in Seq(Entry), \A i, j \in DOMAIN t : t[i][1] = t[j][1] => i = j
  PROVE  Entries(t) = G!Sorted(t)
<1> DEFINE N == DOMAIN t
           U == {t[i] : i \in N}
           s == SetToSeq(U)
<1>1. \A i, j \in N : t[i] = t[j] => i = j
  OBVIOUS
<1>2. Entries(t) = G!Sorted(s)
  <2>1. {k \in N : \A j \in N : k < j => t[j][1] # t[k][1]} = N
    <3>1. ASSUME NEW k \in N, NEW j \in N, k < j PROVE t[j][1] # t[k][1]
      <4>1. k \in Nat /\ j \in Nat
        BY TableShape
      <4> QED BY <3>1, <4>1
    <3> QED BY <3>1
  <2> QED BY <2>1, Zenon DEF Entries
<1>3. IsFiniteSet(U) /\ Cardinality(U) = Len(t)
  <2> DEFINE f == [i \in N |-> t[i]]
  <2>1. f \in Injection(N, U) /\ f \in Surjection(N, U)
    BY <1>1 DEF Injection, IsInjective, Surjection
  <2>2. ExistsBijection(N, U)
    BY <2>1 DEF ExistsBijection, Bijection
  <2> HIDE DEF U
  <2> QED BY <2>2, TableShape, FS_Bijection
<1>4. s \in [N -> U] /\ IsInjective(s)
  <2>1. ExistsBijection(N, U)
    BY <1>3, FS_CardinalityType, TableShape
  <2>2. PICK f \in [N -> U] : IsInjective(f)
    BY <2>1 DEF ExistsBijection, Bijection, Injection
  <2>3. s = CHOOSE g \in [N -> U] : IsInjective(g)
    BY <1>3, TableShape, Zenon DEF SetToSeq
  <2> HIDE DEF s, U
  <2> QED BY <2>2, <2>3
<1>5. s \in Surjection(N, U)
  <2> HIDE DEF s, U
  <2>1. s \in Injection(N, U)
    BY <1>4 DEF Injection
  <2> QED BY <1>3, <2>1, TableShape, FS_Injection
<1>6. s \in Seq(Entry) /\ DOMAIN s = N /\ Len(s) = Len(t)
  <2>1. U \subseteq Entry
    BY TableShape
  <2> DEFINE m == Len(t)
  <2>2. s \in [1 .. m -> Entry] /\ m \in Nat
    <3> HIDE DEF s, U
    <3> QED BY <1>4, <2>1, TableShape
  <2> HIDE DEF s, m
  <2>3. s \in Seq(Entry) /\ Len(s) = m /\ DOMAIN s = 1 .. m
    BY <2>2
  <2> QED BY <2>3, TableShape DEF m
<1> DEFINE h == [i \in N |-> CHOOSE j \in N : t[j] = s[i]]
<1>7. /\ h \in [N -> N] /\ \A i \in N : t[h[i]] = s[i]
      /\ \A i, j \in N : h[i] = h[j] => i = j
      /\ \A j \in N : \E i \in N : h[i] = j
  <2>1. ASSUME NEW i \in N PROVE h[i] \in N /\ t[h[i]] = s[i]
    <3>1. s[i] \in U
      BY <1>4
    <3> QED BY <3>1
  <2>2. ASSUME NEW i \in N, NEW j \in N, h[i] = h[j] PROVE i = j
    <3> HIDE DEF h, s
    <3>1. s[i] = t[h[i]] /\ s[j] = t[h[j]]
      BY <2>1
    <3>2. s[i] = s[j]
      BY <2>2, <3>1
    <3> QED BY <1>4, <3>2 DEF IsInjective
  <2>3. ASSUME NEW j \in N PROVE \E i \in N : h[i] = j
    <3>1. PICK i \in N : s[i] = t[j]
      BY <1>5 DEF Surjection
    <3>2. t[h[i]] = t[j] /\ h[i] \in N
      BY <2>1, <3>1
    <3> QED BY <1>1, <3>2
  <2>4. h \in [N -> N]
    BY <2>1
  <2> QED BY <2>1, <2>2, <2>3, <2>4
<1> HIDE DEF h, s
<1>8. ASSUME NEW i \in N, NEW j \in N
      PROVE  G!NoLater(s, i, j) <=> G!NoLater(t, h[i], h[j])
  <2>1. s[i] = t[h[i]] /\ s[j] = t[h[j]] /\ h[i] \in N /\ h[j] \in N
    BY <1>7
  <2>2. i \in Nat /\ h[i] \in Nat
    BY <2>1, TableShape
  <2>3. s[i] = s[j] => i = j /\ h[i] = h[j]
    <3>1. t[h[i]] = t[h[j]] => h[i] = h[j]
      BY <1>1, <2>1
    <3>2. h[i] = h[j] => i = j
      BY <1>7
    <3> QED BY <2>1, <3>1, <3>2
  <2>4. (s[i] = s[j] /\ i <= j) <=> (t[h[i]] = t[h[j]] /\ h[i] <= h[j])
    BY <2>1, <2>2, <2>3
  <2> QED BY <2>1, <2>4 DEF G!NoLater
<1>9. ASSUME NEW j \in N PROVE Place(s, j) = Place(t, h[j])
  <2> DEFINE f == [i \in Before(s, j) |-> h[i]]
  <2>1. Before(s, j) \subseteq N /\ Before(t, h[j]) \subseteq N
    BY <1>6 DEF Before
  <2>2. \A i \in Before(s, j) : h[i] \in Before(t, h[j])
    BY <1>6, <1>7, <1>8, <2>1 DEF Before
  <2>3. ASSUME NEW k \in Before(t, h[j]) PROVE \E i \in Before(s, j) : f[i] = k
    <3>1. PICK i \in N : h[i] = k
      BY <1>7, <2>1
    <3>2. i \in Before(s, j)
      BY <1>6, <1>8, <3>1 DEF Before
    <3> QED BY <3>1, <3>2
  <2>4. \A i, k \in Before(s, j) : f[i] = f[k] => i = k
    BY <1>7, <2>1
  <2>5. f \in [Before(s, j) -> Before(t, h[j])]
    BY <2>2
  <2>6. ExistsBijection(Before(s, j), Before(t, h[j]))
    <3>1. DOMAIN f = Before(s, j)
      OBVIOUS
    <3> HIDE DEF f
    <3>2. f \in Injection(Before(s, j), Before(t, h[j]))
      BY <2>4, <2>5, <3>1 DEF Injection, IsInjective
    <3>3. f \in Surjection(Before(s, j), Before(t, h[j]))
      BY <2>3, <2>5 DEF Surjection
    <3> QED BY <3>2, <3>3 DEF ExistsBijection, Bijection
  <2>7. IsFiniteSet(Before(s, j))
    BY <2>1, TableShape, FS_Subset
  <2> QED BY <2>6, <2>7, FS_Bijection DEF Place
<1>10. ASSUME NEW n \in N PROVE G!Sorted(s)[n] = G!Sorted(t)[n]
  <2>1. PICK j \in N : Place(s, j) = n
    <3>1. \A m \in DOMAIN s : \E j \in DOMAIN s : Place(s, j) = m
      BY <1>6, SortedPlaces
    <3> HIDE DEF N
    <3> QED BY <1>6, <3>1
  <2>2. G!Sorted(s)[n] = s[j]
    BY <1>6, <2>1, SortedPlaces
  <2>3. h[j] \in N /\ t[h[j]] = s[j] /\ Place(t, h[j]) = n
    BY <1>7, <1>9, <2>1
  <2>4. G!Sorted(t)[n] = t[h[j]]
    BY <2>3, SortedPlaces
  <2> QED BY <2>2, <2>3, <2>4
<1>11. /\ G!Sorted(s) \in Seq(Entry) /\ G!Sorted(t) \in Seq(Entry)
       /\ DOMAIN G!Sorted(s) = N /\ DOMAIN G!Sorted(t) = N
  BY <1>6, SortedPlaces
<1>12. G!Sorted(s) = G!Sorted(t)
  <2> DEFINE a == G!Sorted(s)
             b == G!Sorted(t)
  <2>1. a = [n \in DOMAIN a |-> a[n]] /\ b = [n \in DOMAIN b |-> b[n]]
    <3> HIDE DEF a, b
    <3>1. a \in Seq(Entry) /\ b \in Seq(Entry)
      BY <1>11 DEF a, b
    <3> QED BY <3>1
  <2> QED BY <1>10, <1>11, <2>1
<1> QED BY <1>2, <1>12

-----------------------------------------------------------------------------
\* What the gate has found of a table it passes, the decoder left aside.
Passed(r, t) ==
  /\ G!Placeable(G!Sorted(t))
  /\ G!Duplicates(G!Sorted(t)) = {}
  /\ G!Uncovered(G!Sorted(t), Recorded[r]) = {}
  /\ G!WorstScan(G!Sorted(t)) <= SCAN_BUDGET

\* The keys of a table are keys, and the slots they get are the table's.
LEMMA KeysTyped ==
  ASSUME NEW t \in Seq(Entry), Len(t) <= Slots
  PROVE  G!KeysOf(t) \in KeyLists /\ DOMAIN G!KeysOf(t) = DOMAIN t
<1> DEFINE m == Len(t)
           k == G!KeysOf(t)
<1>1. k = [i \in 1 .. m |-> G!KeyOf(t[i])] /\ m \in Nat /\ m <= Slots
  BY TableShape DEF G!KeysOf
<1>2. ASSUME NEW i \in 1 .. m PROVE G!KeyOf(t[i]) \in Key
  <2> DEFINE a == t[i][1]
  <2>1. a \in Nat /\ Slots \in Nat \ {0} /\ WINDOW_BASE \in Nat
    BY TableShape, LimitsAssumption
  <2>2. G!KeyOf(t[i]) = [bank |-> WINDOW_BASE + a \div Slots, addr |-> a % Slots]
    BY DEF G!KeyOf, G!source, G!Keys!SourceKey
  <2> HIDE DEF a
  <2>3. a \div Slots \in Nat /\ a % Slots \in 0 .. Slots - 1
    BY <2>1
  <2>4. WINDOW_BASE + a \div Slots \in Nat
    BY <2>1, <2>3
  <2> QED BY <2>2, <2>3, <2>4 DEF Key, Slot
<1> HIDE DEF m, k
<1>3. k \in [1 .. m -> Key]
  BY <1>1, <1>2
<1>4. k \in Seq(Key) /\ Len(k) = m /\ DOMAIN k = 1 .. m
  BY <1>1, <1>3
<1> QED BY <1>1, <1>4, TableShape DEF KeyLists, k, m

\* A table the gate has passed and the build could decode serves the game.
LEMMA GatedServes ==
  ASSUME NEW image, image.region \in Regions, image.table \in Tables[image.region],
         Passed(image.region, image.table), Buildable(image.table)
  PROVE  Serves(image)
<1> DEFINE t == image.table
           wanted == Recorded[image.region]
           S == G!Sorted(t)
           k == G!KeysOf(S)
           f == G!Keys!FirstFreeSlots(k)
<1>1. t \in Seq(Entry) /\ wanted \in Seq(Entry)
  BY TablesAssumption DEF Entry
<1>2. S \in Seq(Entry) /\ DOMAIN S = DOMAIN t /\ Len(S) = Len(t)
  BY <1>1, SortedPlaces
<1>3. Entries(t) = S
  <2>1. G!Duplicates(S) = {}
    BY DEF Passed
  <2>2. \A i, j \in DOMAIN t : t[i][1] = t[j][1] => i = j
    BY <1>1, <2>1, NoRepeats
  <2> QED BY <1>1, <2>2, EntriesInOrder
<1>4. Len(k) <= Slots /\ G!Keys!Unambiguous(k, f)
  BY DEF Passed, G!Placeable
<1>5. k \in KeyLists /\ DOMAIN k = DOMAIN S
  <2>1. Len(k) = Len(S)
    <3> DEFINE m == Len(S)
               g == [i \in 1 .. m |-> G!KeyOf(S[i])]
    <3>1. k = g
      BY <1>2, TableShape DEF G!KeysOf
    <3>2. m \in Nat
      BY <1>2, TableShape
    <3> HIDE DEF m, S
    <3>3. Len(g) = m
      BY <3>2
    <3> QED BY <3>1, <3>3 DEF m
  <2> HIDE DEF S
  <2> QED BY <1>2, <1>4, <2>1, KeysTyped
<1>6. ASSUME NEW i \in DOMAIN k
      PROVE  G!Keys!Distance(k, f, i) <= SCAN_BUDGET /\ Decoded(S[i]) = S[i][2]
  <2>1. G!Keys!Distance(k, f, i) <= SCAN_BUDGET
    <3> DEFINE d == G!Keys!Distance(k, f, i)
               w == G!Keys!WorstScan(k)
    <3>1. d <= w /\ w \in Nat
      <4> HIDE DEF k
      <4> QED BY <1>5, WorstBounds
    <3>2. w <= SCAN_BUDGET
      BY DEF Passed, G!WorstScan
    <3>3. d \in Int
      <4> HIDE DEF k
      <4> QED BY <1>5, WorstBounds
    <3> HIDE DEF d, w
    <3>4. d <= SCAN_BUDGET
      BY <3>1, <3>2, <3>3, LimitsAssumption
    <3> QED BY <3>4 DEF d
  <2>2. Decoded(S[i]) # NONE
    BY <1>3, <1>5 DEF Buildable
  <2>3. PICK j \in DOMAIN t : S[i] = t[j]
    <3>1. PICK j \in DOMAIN t : Place(t, j) = i
      BY <1>1, <1>2, <1>5, SortedPlaces
    <3> QED BY <1>1, <3>1, SortedPlaces
  <2>4. Decoded(t[j]) \in {t[j][2], NONE}
    BY DecoderAssumption
  <2> QED BY <2>1, <2>2, <2>3, <2>4
<1>7. ASSUME NEW n \in DOMAIN wanted
      PROVE  \E i \in DOMAIN S : S[i][1] = wanted[n][1] /\ S[i][2] >= wanted[n][2]
  <2>1. wanted[n] \in ToSet(wanted) /\ wanted[n][2] \in Nat
    BY <1>1, TableShape DEF ToSet
  <2>2. wanted[n] \notin G!Uncovered(S, wanted)
    BY DEF Passed
  <2>3. PICK i \in DOMAIN S : S[i][1] = wanted[n][1] /\ ~(S[i][2] < wanted[n][2])
    BY <2>1, <2>2 DEF G!Uncovered, G!ToSet, ToSet, G!source, G!length
  <2>4. S[i][2] \in Nat
    <3> HIDE DEF S
    <3> QED BY <1>2, TableShape
  <2> QED BY <2>1, <2>3, <2>4
<1> HIDE DEF S, wanted
<1> QED BY <1>3, <1>4, <1>6, <1>7, Zenon DEF Serves, wanted

-----------------------------------------------------------------------------
(* What each run has the gate's word for, and what every image was made    *)
(* of.                                                                     *)
PassedAt(u, i) == Passed(u.wanted[i], u.gates[u.wanted[i]])

Gated(u) ==
  /\ u.pc = "gate" => \A i \in 1 .. Len(u.wanted) : i < u.at => PassedAt(u, i)
  /\ u.pc \in Building => \A i \in 1 .. Len(u.wanted) : PassedAt(u, i)
  /\ u.pc = "fill" => Buildable(u.mine[u.wanted[u.at]])

Sound(image) ==
  /\ image.region \in Regions /\ image.gated \in Tables[image.region]
  /\ Passed(image.region, image.gated) /\ Buildable(image.table)

SInv ==
  /\ \A p \in Procs : Gated(run[p])
  /\ \A n \in Regions \X Releases : dist[n] \notin {NONE, TORN} => Sound(dist[n])

\* A step of one run; an image it writes is sound.
LEMMA SoundKept ==
  ASSUME SInv, NEW q \in Procs, Others(q), Gated(run'[q]),
         \A n \in Regions \X Releases :
           dist'[n] \in {dist[n], TORN} \/ Sound(dist'[n])
  PROVE  SInv'
<1>1. ASSUME NEW p \in Procs PROVE Gated(run[p])'
  <2>1. Gated(run'[p])
    BY DEF Others, SInv
  <2> QED BY <2>1 DEF Gated, PassedAt
<1>2. \A n \in Regions \X Releases : dist'[n] \notin {NONE, TORN} => Sound(dist'[n])
  BY DEF SInv
<1> QED BY <1>1, <1>2 DEF SInv, Sound

LEMMA Verdict ==
  ASSUME NEW r, NEW t, NEW dump, NEW produced,
         GateVerdict(r, t, dump, produced) \notin {"raised", "refused"}
  PROVE  Passed(r, t)
<1> DEFINE S == G!Sorted(t)
           good == /\ G!Duplicates(S) = {}
                   /\ dump # NONE => G!Undecodable(S, produced) = {}
                   /\ G!Uncovered(S, Recorded[r]) = {}
                   /\ G!WorstScan(S) <= SCAN_BUDGET
<1>1. GateVerdict(r, t, dump, produced) =
        IF ~G!Placeable(S) THEN "raised" ELSE IF good THEN "pass" ELSE "refused"
  BY DEF GateVerdict
<1> HIDE DEF S
<1>2. G!Placeable(S) /\ good
  <2> HIDE DEF good
  <2> QED BY <1>1
<1> QED BY <1>2 DEF Passed, S

LEMMA GateRegionSound == ASSUME IInv, SInv, NEW q \in Procs, GateRegion(q) PROVE SInv'
<1> DEFINE u == run[q]
           v == run'[q]
<1>1. u.pc = "gate" /\ dist' = dist /\ Others(q)
  <2>1. u.pc = "gate" /\ dist' = dist
    BY DEF GateRegion, At, built
  <2> QED BY <2>1, GateRegionMoves DEF Over, Went
<1>2. /\ u.at \in 1 .. Len(u.wanted) /\ Len(u.wanted) \in Nat /\ u.at \in Nat
      /\ This(q) = u.wanted[u.at]
      /\ \A i \in 1 .. Len(u.wanted) : i < u.at => PassedAt(u, i)
  BY <1>1, Busy DEF Placed, SInv, Gated
<1>3. CASE v.pc = "idle"
  BY <1>1, <1>3, SoundKept DEF Gated, Building
<1>4. CASE /\ \E produced :
                GateVerdict(This(q), u.gates[This(q)], dumps[This(q)], produced)
                  \notin {"raised", "refused"}
           /\ v.wanted = u.wanted /\ v.gates = u.gates
           /\ \/ v.pc = "build" /\ AtLast(q)
              \/ v.pc = "gate" /\ v.at = u.at + 1
  <2>1. PassedAt(u, u.at)
    BY <1>2, <1>4, Verdict DEF PassedAt
  <2>2. ASSUME NEW i \in 1 .. Len(u.wanted), i < u.at + 1 PROVE PassedAt(v, i)
    <3>1. i = u.at \/ i < u.at
      BY <1>2, <2>2
    <3>2. PassedAt(u, i)
      BY <1>2, <2>1, <3>1
    <3> QED BY <1>4, <3>2 DEF PassedAt
  <2>3. AtLast(q) => \A i \in 1 .. Len(u.wanted) : i < u.at + 1
    BY <1>2 DEF AtLast
  <2> HIDE DEF u, v
  <2>4. Gated(v)
    BY <1>4, <2>2, <2>3 DEF Gated, Building
  <2> QED BY <1>1, <2>4, SoundKept DEF v
<1> QED BY <1>3, <1>4, GateRegionMoves DEF Over, Went

\* Between two steps of a build the gate's word holds on.
LEMMA Onwards ==
  ASSUME SInv, NEW q \in Procs, Others(q), dist' = dist, run[q].pc \in Building,
         run'[q].pc \in Building \ {"fill"},
         run'[q].wanted = run[q].wanted, run'[q].gates = run[q].gates
  PROVE  SInv'
<1>1. \A i \in 1 .. Len(run[q].wanted) : PassedAt(run[q], i)
  BY DEF SInv, Gated
<1>2. Gated(run'[q])
  BY <1>1 DEF Gated, PassedAt, Building
<1> QED BY <1>2, SoundKept

\* rombuild has decoded the streams before the file is opened.
LEMMA OpenSound == ASSUME IInv, SInv, NEW q \in Procs, OpenImage(q) PROVE SInv'
<1> DEFINE u == run[q]
           v == run'[q]
<1>1. /\ u.pc = "open" /\ Buildable(u.mine[u.wanted[u.at]])
      /\ dist' = [dist EXCEPT ![<<This(q), u.release>>] = TORN]
  BY DEF OpenImage, At, This
<1>2. \A i \in 1 .. Len(u.wanted) : PassedAt(u, i)
  BY <1>1 DEF SInv, Gated, Building
<1>3. /\ Others(q) /\ v.pc = "fill" /\ v.at = u.at /\ v.wanted = u.wanted
      /\ v.mine = u.mine /\ v.gates = u.gates
  BY OpenImageMoves DEF Went
<1>4. \A n \in Regions \X Releases : dist'[n] \in {dist[n], TORN}
  <2> DEFINE k == <<This(q), u.release>>
  <2>1. dist' = [dist EXCEPT ![k] = TORN]
    BY <1>1
  <2> HIDE DEF k
  <2> QED BY <2>1, FilesTyped
<1>5. Gated(v)
  <2> HIDE DEF u, v
  <2> QED BY <1>1, <1>2, <1>3 DEF Gated, PassedAt
<1> QED BY <1>3, <1>4, <1>5, SoundKept

\* The image is of a table that decodes, beside the one the gate has passed.
LEMMA FillSound == ASSUME IInv, SInv, NEW q \in Procs, FillImage(q) PROVE SInv'
<1> DEFINE u == run[q]
           v == run'[q]
           im == ImageOf(q)
<1>1. u.pc = "fill" /\ dist' = [dist EXCEPT ![<<This(q), u.release>>] = im]
  BY DEF FillImage, At
<1>2. /\ \A i \in 1 .. Len(u.wanted) : PassedAt(u, i)
      /\ Buildable(u.mine[This(q)])
  BY <1>1 DEF SInv, Gated, Building, This
<1>3. /\ u.at \in 1 .. Len(u.wanted) /\ This(q) \in Regions /\ u.gates \in Copies
      /\ This(q) = u.wanted[u.at]
  BY <1>1, Busy DEF Placed, Building, RunInv, Position
<1>4. Sound(im)
  <2>1. /\ im.region = This(q) /\ im.table = u.mine[This(q)]
        /\ im.gated = u.gates[This(q)]
    BY FillImageMoves
  <2>2. u.gates[This(q)] \in Tables[This(q)]
    BY <1>3 DEF Copies
  <2>3. Passed(This(q), u.gates[This(q)])
    BY <1>2, <1>3 DEF PassedAt
  <2> HIDE DEF im
  <2> QED BY <1>2, <1>3, <2>1, <2>2, <2>3 DEF Sound
<1> HIDE DEF im
<1>5. /\ Others(q) /\ v.pc \in {"manifest", "build"} /\ v.wanted = u.wanted
      /\ v.gates = u.gates
  BY FillImageMoves DEF Went
<1>6. Gated(v)
  <2> HIDE DEF u, v
  <2> QED BY <1>2, <1>5 DEF Gated, PassedAt, Building
<1>7. \A n \in Regions \X Releases : dist'[n] = dist[n] \/ dist'[n] = im
  <2> DEFINE k == <<This(q), u.release>>
  <2>1. dist' = [dist EXCEPT ![k] = im]
    BY <1>1
  <2> HIDE DEF k
  <2> QED BY <2>1, FilesTyped
<1> QED BY <1>4, <1>5, <1>6, <1>7, SoundKept

\* The steps the gate has no say in, or has had.
LEMMA OtherSound ==
  ASSUME IInv, SInv, NEW q \in Procs, Move(q),
         ~GateRegion(q), ~OpenImage(q), ~FillImage(q)
  PROVE  SInv'
<1>1. Others(q)
  BY Moves
<1>2. ASSUME dist' = dist, run'[q].pc \in {"idle", "load", "lines"} PROVE SInv'
  BY <1>1, <1>2, SoundKept DEF Gated, Building
<1>3. CASE Pack(q)
  BY <1>2, <1>3, PackMoves DEF Pack, built
<1>4. CASE LoadGate(q)
  <2>1. dist' = dist /\ run[q].at = 1
    BY <1>4, Busy DEF LoadGate, built, At, RunInv, Position
  <2>2. run'[q].pc = "idle" \/ (run'[q].pc = "gate" /\ run'[q].at = 1)
    BY <1>4, <2>1, LoadGateMoves DEF Over, Went
  <2>3. Gated(run'[q])
    BY <2>2 DEF Gated, Building
  <2> QED BY <1>1, <2>1, <2>3, SoundKept
<1>5. CASE ReadCart(q) \/ StageRom(q) \/ Asar(q) \/ Collect(q) \/ Unlink(q)
  <2>1. dist' = dist /\ run[q].pc \in Building
    BY <1>5 DEF ReadCart, StageRom, Asar, Collect, Unlink, built, At, Building
  <2>2. \/ run'[q].pc = "idle"
        \/ /\ run'[q].pc \in {"assemble", "asar", "collect", "unlink", "open"}
           /\ run'[q].wanted = run[q].wanted /\ run'[q].gates = run[q].gates
    BY <1>5, ReadCartMoves, StageRomMoves, AsarMoves, CollectMoves, UnlinkMoves DEF Over, Went
  <2> QED BY <1>1, <1>2, <2>1, <2>2, Onwards DEF Building
<1>6. CASE AssembleFails(q) \/ BuildRaises(q) \/ Kill(q)
  <2>1. dist' = dist
    BY <1>6 DEF AssembleFails, BuildRaises, Kill, built
  <2> QED BY <1>2, <1>6, <2>1, FailureMoves DEF Over
<1>7. CASE OpenManifest(q) \/ WriteManifest(q)
  <2>1. dist' = dist
    BY <1>7 DEF OpenManifest, WriteManifest
  <2> QED BY <1>2, <1>7, <2>1, ManifestMoves DEF Went
<1> QED BY <1>3, <1>4, <1>5, <1>6, <1>7 DEF Move

LEMMA NextSound == ASSUME IInv, SInv, [Next]_vars PROVE SInv'
<1>1. CASE Edit \/ UNCHANGED vars
  BY <1>1, Still DEF SInv, Gated, PassedAt
<1>2. ASSUME NEW q \in Procs, Move(q) PROVE SInv'
  BY <1>2, GateRegionSound, OpenSound, FillSound, OtherSound
<1> QED BY <1>1, <1>2, Cases

(* Every finished image in dist/ whose run laid out the table its gate had *)
(* seen serves the game: each stream stands where the scan for it stops,   *)
(* within the budget, holds what its entry says, and each recorded request *)
(* finds one long enough.  For any tables, dumps and recordings, whatever  *)
(* is edited and whenever, however runs overlap, fail or are killed.       *)
THEOREM GatedReleasesServe == Spec => []ReleasesServe
<1>1. Init => SInv
  <2> SUFFICES ASSUME Init PROVE SInv
    OBVIOUS
  <2>1. \A p \in Procs : run[p].pc = "idle"
    BY DEF Init, Idle
  <2> QED BY <2>1 DEF Init, SInv, Gated, Building
<1>2. Spec => []SInv
  BY <1>1, NextSound, InvAlways, PTL DEF Spec
<1>3. IInv /\ SInv => ReleasesServe
  <2> SUFFICES ASSUME IInv, SInv, NEW image \in Finished(dist), image.table = image.gated
               PROVE  Serves(image)
    BY DEF ReleasesServe
  <2>1. PICK n \in DOMAIN dist : image = dist[n] /\ dist[n] \notin {NONE, TORN}
    BY DEF Finished
  <2>2. n \in Regions \X Releases
    BY <2>1, FilesTyped
  <2>3. Sound(image)
    BY <2>1, <2>2 DEF SInv
  <2> QED BY <2>3, GatedServes DEF Sound
<1> QED BY <1>2, <1>3, InvAlways, PTL
=============================================================================
