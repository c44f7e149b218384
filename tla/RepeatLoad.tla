----------------------------- MODULE RepeatLoad -----------------------------
(***************************************************************************)
(* asm/repeat-load.asm: skip the upload of a base sample list the sound    *)
(* driver already holds.  The sound engine is called with a list id and    *)
(* groups; it restarts a bump allocator, uploads the list, saves where the *)
(* allocator stands, and uploads the groups above it.  Called with id zero *)
(* it restores the allocator and uploads the groups alone.  repeat_load is *)
(* hooked in where the allocator starts and turns a repeat into that call. *)
(*                                                                         *)
(* The engine around the routine is stock code, known through the comment  *)
(* of the same file; the routine's stores are steps of their own, because  *)
(* what they leave in work RAM outlives a reset.                           *)
(***************************************************************************)
EXTENDS Integers

CONSTANTS
  Ids,        \* list ids other than zero
  ListEnd,    \* where the allocator stands after each list, from its start
  Top,        \* sound RAM the allocator hands out
  MaxGroup,   \* the most the groups of one call take
  Environments \* what the routine may have around it: whether the reset button
               \* is pressed, and the bytes of the marker something else writes

NO_LIST == 0
NOTHING == -1
GROUP == -2
GARBAGE == -3   \* a byte that is neither its magic nor a list's id

MAGIC_LOW == 90
MAGIC_HIGH == 165
MarkerBytes == {"low", "high", "id"}

ASSUME IdsAssumption == Ids \subseteq Nat \ {NO_LIST}
ASSUME ListEndAssumption == ListEnd \in [Ids -> 1 .. Top]
ASSUME TopAssumption == Top \in Nat /\ MaxGroup \in Nat
ASSUME RoomAssumption == \A i \in Ids : ListEnd[i] + MaxGroup <= Top
ASSUME EnvironmentAssumption ==
  Environments \subseteq [resets : BOOLEAN, scribbled : SUBSET MarkerBytes]

VARIABLES
  env,       \* the environment of this console
  marker,    \* two bytes of magic and the id of a list, in work RAM
  id,        \* the id on the engine's stack, which the routine may zero
  kept,      \* the id the routine keeps on top of it
  stage,     \* where the engine or the routine is
  alloc,     \* the bump allocator
  saved,     \* where it stood after the last list, at $7E:2000
  todo,      \* how much of the groups is still to upload
  aram       \* what each cell of sound RAM holds: a list's bytes or a group's

loadVars == <<env, marker, id, kept, stage, alloc, saved, todo, aram>>

Cells == 0 .. Top - 1

\* The engine is called with a list, or with none, and some groups.
Call ==
  /\ stage = "idle"
  /\ id' \in Ids \union {NO_LIST}
  /\ id' = NO_LIST => saved # NOTHING
  /\ todo' \in 0 .. MaxGroup
  /\ stage' = "repeat_load"
  /\ UNCHANGED <<env, marker, kept, alloc, saved, aram>>

RepeatLoad ==
  /\ stage = "repeat_load"
  /\ \/ id = NO_LIST /\ stage' = "done" /\ UNCHANGED kept
     \/ id # NO_LIST /\ stage' = "magic_low" /\ kept' = id
  /\ UNCHANGED <<env, marker, id, alloc, saved, todo, aram>>

\* A comparison of the routine: on to the next, or to .remember.
Compare(here, equal, there) ==
  /\ stage = here
  /\ stage' = IF equal THEN there ELSE "remember"
  /\ UNCHANGED <<env, marker, id, kept, alloc, saved, todo, aram>>

CompareLow == Compare("magic_low", marker["low"] = MAGIC_LOW, "magic_high")

\* The id not looked at.
MutCompareMagicOnly == Compare("magic_high", marker["high"] = MAGIC_HIGH, "skip")

CompareHigh == Compare("magic_high", marker["high"] = MAGIC_HIGH, "marker_id")

CompareId == Compare("marker_id", marker["id"] = kept, "skip")

Skip ==
  /\ stage = "skip"
  /\ id' = NO_LIST
  /\ stage' = "done"
  /\ UNCHANGED <<env, marker, kept, alloc, saved, todo, aram>>

\* The id left as it was.
MutForgetId ==
  /\ stage = "remember"
  /\ stage' = "set_low"
  /\ UNCHANGED <<env, marker, id, kept, alloc, saved, todo, aram>>

\* .remember: the id, then the two bytes that make it count.
Remember ==
  /\ stage = "remember"
  /\ marker' = [marker EXCEPT !["id"] = kept]
  /\ stage' = "set_low"
  /\ UNCHANGED <<env, id, kept, alloc, saved, todo, aram>>

SetLow ==
  /\ stage = "set_low"
  /\ marker' = [marker EXCEPT !["low"] = MAGIC_LOW]
  /\ stage' = "set_high"
  /\ UNCHANGED <<env, id, kept, alloc, saved, todo, aram>>

\* The high magic written over the low one.
MutSetHigh ==
  /\ stage = "set_high"
  /\ marker' = [marker EXCEPT !["low"] = MAGIC_HIGH]
  /\ stage' = "done"
  /\ UNCHANGED <<env, id, kept, alloc, saved, todo, aram>>

SetHigh ==
  /\ stage = "set_high"
  /\ marker' = [marker EXCEPT !["high"] = MAGIC_HIGH]
  /\ stage' = "done"
  /\ UNCHANGED <<env, id, kept, alloc, saved, todo, aram>>

\* The allocator of an id-zero call restarted instead of restored.
MutStart ==
  /\ stage = "done"
  /\ alloc' = 0
  /\ stage' = IF id = NO_LIST THEN "groups" ELSE "list"
  /\ UNCHANGED <<env, marker, id, kept, saved, todo, aram>>

\* What the id-zero path restores the allocator from.  Never written, it is
\* whatever work RAM came up with; only values that leave the groups room are
\* told apart here.
Restored == IF saved # NOTHING THEN {saved} ELSE 0 .. Top - MaxGroup

\* Back in the engine: the allocator starts, or is restored where it stood.
Start ==
  /\ stage = "done"
  /\ \/ id = NO_LIST /\ alloc' \in Restored /\ stage' = "groups"
     \/ id # NO_LIST /\ alloc' = 0 /\ stage' = "list"
  /\ UNCHANGED <<env, marker, id, kept, saved, todo, aram>>

UploadList ==
  /\ stage = "list"
  /\ aram' = [aram EXCEPT ![alloc] = id]
  /\ alloc' = alloc + 1
  /\ \/ alloc' < ListEnd[id] /\ UNCHANGED <<stage, saved>>
     \/ alloc' = ListEnd[id] /\ stage' = "groups" /\ saved' = alloc'
  /\ UNCHANGED <<env, marker, id, kept, todo>>

UploadGroups ==
  /\ stage = "groups"
  /\ \/ todo > 0 /\ aram' = [aram EXCEPT ![alloc] = GROUP] /\ alloc' = alloc + 1
                 /\ todo' = todo - 1 /\ UNCHANGED stage
     \/ todo = 0 /\ stage' = "idle" /\ UNCHANGED <<aram, alloc, todo>>
  /\ UNCHANGED <<env, marker, id, kept, saved>>

\* The reset button: the program starts over, memory keeps what it holds.
Reset ==
  /\ env.resets
  /\ stage' = "idle"
  /\ UNCHANGED <<env, marker, id, kept, alloc, saved, todo, aram>>

\* Something else writes over one byte of the marker.
Scribble ==
  /\ \E b \in env.scribbled :
       \E v \in IF b = "id" THEN Ids \union {GARBAGE} ELSE {GARBAGE} :
         marker' = [marker EXCEPT ![b] = v]
  /\ UNCHANGED <<env, id, kept, stage, alloc, saved, todo, aram>>

Markers == [low : {MAGIC_LOW, GARBAGE}, high : {MAGIC_HIGH, GARBAGE},
            id : Ids \union {GARBAGE}]
MarkerSet == marker["low"] = MAGIC_LOW /\ marker["high"] = MAGIC_HIGH

\* Power-on: work RAM holds anything but the two magic bytes together.
LoadInit ==
  /\ env \in Environments
  /\ marker \in Markers /\ ~MarkerSet
  /\ id = NO_LIST /\ kept = NO_LIST
  /\ stage = "idle"
  /\ alloc = 0 /\ saved = NOTHING /\ todo = 0
  /\ aram = [c \in Cells |-> NOTHING]

Routine == \/ RepeatLoad \/ CompareLow \/ CompareHigh \/ CompareId \/ Skip
           \/ Remember \/ SetLow \/ SetHigh

LoadNext == Call \/ Routine \/ Start \/ UploadList \/ UploadGroups \/ Reset \/ Scribble

LoadSpec == LoadInit /\ [][LoadNext]_loadVars

-----------------------------------------------------------------------------

RoutineSteps == {"repeat_load", "magic_low", "magic_high", "marker_id", "skip",
                 "remember", "set_low", "set_high", "done"}

LoadTypeOK ==
  /\ env \in Environments
  /\ marker \in Markers
  /\ id \in Ids \union {NO_LIST} /\ kept \in Ids \union {NO_LIST}
  /\ stage \in RoutineSteps \union {"idle", "list", "groups"}
  /\ alloc \in 0 .. Top /\ saved \in (0 .. Top) \union {NOTHING}
  /\ todo \in 0 .. MaxGroup
  /\ aram \in [Cells -> Ids \union {NOTHING, GROUP}]

\* Every byte of the list is in sound RAM, and the groups go above it.
Resident(l) == /\ \A c \in 0 .. ListEnd[l] - 1 : aram[c] = l
               /\ saved = ListEnd[l]

\* A console that plays on, with the id of its marker left alone: the state the
\* routine's comment speaks of.
Undisturbed == ~env.resets /\ "id" \notin env.scribbled

(* "After the first real load the marker is always correct": between calls *)
(* of an undisturbed console a marker that would be believed names a list  *)
(* that is all in sound RAM, with the saved allocator just above it.       *)
MarkerCorrect ==
  Undisturbed /\ stage = "idle" /\ MarkerSet =>
    marker["id"] \in Ids /\ Resident(marker["id"])

(* "A corrupt record can only refuse a skip, never invent one": whatever   *)
(* happens to the magic, between two comparisons included, a list whose    *)
(* upload is skipped is resident.                                          *)
SkippedIsResident == Undisturbed /\ stage = "skip" => Resident(kept)

(* Whatever a reset cut short, an upload that runs to its end leaves a     *)
(* marker that is true: the list named is the list just uploaded.          *)
UploadMakesMarkerTrue ==
  [][env.scribbled = {} /\ stage = "list" /\ stage' = "groups" =>
       MarkerSet' /\ marker'["id"] = id /\ Resident(id)']_loadVars

(* No group upload ever writes into the region of the list that is in use, *)
(* on the path the routine takes as on the stock one, with resets and stray*)
(* writes at any step.                                                     *)
GroupsAboveList ==
  stage = "groups" => /\ alloc >= saved
                   /\ \A c \in 0 .. saved - 1 : aram[c] # GROUP

(* Every repeat is recognised: on a console that plays on, with its marker *)
(* left alone, a list is never uploaded again while it is still resident,  *)
(* since nothing but another list overwrites it.                           *)
ResidentIsSkipped ==
  [][~env.resets /\ env.scribbled = {} /\ stage = "done" /\ id # NO_LIST =>
       ~Resident(id)]_loadVars
=============================================================================
