---------------------------- MODULE PackPipeline ----------------------------
(***************************************************************************)
(* pack.py, with the gate it runs first and build.py, the assembler's      *)
(* wrapper.  Files change between any two steps, any step of a run may     *)
(* fail or be the last one, and runs overlap, also for one region: nothing *)
(* in the code keeps two of them apart, and both then use one file under   *)
(* asm/, one image name and one manifest.                                  *)
(***************************************************************************)
EXTENDS Integers, Sequences, FiniteSets, SequencesExt

CONSTANTS
  Slots, WINDOW_BASE, SCAN_BUDGET,  \* of Gate
  Regions,    \* REGIONS
  Tables,     \* for each region, the stream tables its file may hold
  Recorded,   \* for each region, the requests recorded from its cartridge
  Decoded(_), \* the bytes the retail ROM gives for an entry, NONE if it ends first
  Releases,   \* what version.py may say
  Procs,      \* processes, each of which runs pack.py once
  Commands,   \* the arguments each of them may be started with
  Edits,      \* how often files change
  TORN,       \* a file write_bytes has opened and not filled yet
  NONE

G == INSTANCE Gate

Patches == {"spcfast", "shinakuma", "gamefixes", "repeatload", "prefight"}

\* A run is for one region or more, each named once.
ASSUME CommandsAssumption ==
  \A p \in Procs : \A c \in Commands[p] :
    c \in Seq(STRING) /\ c # <<>> /\ IsInjective(c)
ASSUME ValuesAssumption ==
  /\ Regions \subseteq STRING /\ Edits \in Nat
  /\ NONE \notin {"0", "1", "2", "gate raised", "raised", "killed"}
  /\ TORN # NONE /\ {NONE, TORN} \intersect [patches : SUBSET Patches, bypass : BOOLEAN] = {}
ASSUME LimitsAssumption ==
  Slots \in Nat \ {0} /\ WINDOW_BASE \in Nat /\ SCAN_BUDGET \in Nat
\* A table lists addresses with lengths, and so do the recorded requests.
ASSUME TablesAssumption ==
  \A r \in Regions : /\ Tables[r] \subseteq Seq(Nat \X Nat)
                     /\ Recorded[r] \in Seq(Nat \X Nat)
\* decompress gives as many bytes as it is asked for, or raises.
ASSUME DecoderAssumption ==
  \A r \in Regions : \A t \in Tables[r] : \A i \in DOMAIN t :
    Decoded(t[i]) \in {t[i][2], NONE} /\ t[i][2] # NONE

VARIABLES
  tables,    \* jpstreams.py and usastreams.py
  dumps,     \* what roms/ holds for each region: "retail", "foreign" or NONE
  release,   \* version.py
  edits,     \* changes made to these so far
  asm,       \* asm/{region}-bypass.sfc
  dist,      \* the images of dist/, by region and release
  manifest,  \* dist/SHA256SUMS: names paired with the image the sum is of
  run,       \* the runs under way, and how the last ones ended
  met        \* history: regions two runs were working on at once

built == <<asm, dist, manifest>>
sources == <<tables, dumps, release, edits>>
vars == <<sources, built, run, met>>

\* The patches of a cartridge, and whether its seven sites are redirected: as
\* build.py gets it, as asar leaves it, and with its pre-fight table.
Staged == [patches |-> Patches \ {"prefight"}, bypass |-> FALSE]
Assembled == [patches |-> Patches \ {"prefight"}, bypass |-> TRUE]
Whole == [patches |-> Patches, bypass |-> TRUE]

\* What the table files of the regions may hold.
Copies == {t \in [Regions -> UNION {Tables[r] : r \in Regions}] :
             \A r \in Regions : t[r] \in Tables[r]}

\* What the decoder may make of the entries; those of another ROM may happen
\* to decode.
Produced(dump, entries) ==
  IF dump = "foreign"
  THEN {[i \in DOMAIN entries |-> G!length(entries[i])], [i \in DOMAIN entries |-> NONE]}
  ELSE {[i \in DOMAIN entries |-> Decoded(entries[i])]}

\* gate.check without the comparison with the recorded requests.
MutGateVerdict(r, table, dump, produced) ==
  LET entries == G!Sorted(table)
  IN IF ~G!Placeable(entries) THEN "raised"
     ELSE IF /\ G!Duplicates(entries) = {}
             /\ dump # NONE => G!Undecodable(entries, produced) = {}
             /\ G!WorstScan(entries) <= SCAN_BUDGET
          THEN "pass" ELSE "refused"

\* gate.check; worst_scan raises where allocate finds no placement.
GateVerdict(r, table, dump, produced) ==
  LET entries == G!Sorted(table)
  IN IF ~G!Placeable(entries) THEN "raised"
     ELSE IF /\ G!Duplicates(entries) = {}
             /\ dump # NONE => G!Undecodable(entries, produced) = {}
             /\ G!Uncovered(entries, Recorded[r]) = {}
             /\ G!WorstScan(entries) <= SCAN_BUDGET
          THEN "pass" ELSE "refused"

\* entries_for: of the entries of one address the last, in order of address.
Entries(table) ==
  G!Sorted(SetToSeq({table[i] : i \in {k \in DOMAIN table :
             \A j \in DOMAIN table : k < j => table[j][1] # table[k][1]}}))

\* rombuild.build raises at a stream that does not decode, and where allocate
\* finds no placement.
Buildable(table) ==
  /\ \A i \in DOMAIN Entries(table) : Decoded(Entries(table)[i]) # NONE
  /\ G!Placeable(Entries(table))

-----------------------------------------------------------------------------

Idle(code, wrote) ==
  [pc |-> "idle", wanted |-> <<>>, at |-> 1, mine |-> NONE, gates |-> NONE,
   release |-> NONE, hand |-> NONE, lines |-> <<>>, exit |-> code, wrote |-> wrote]

At(p, pc) == run[p].pc = pc
This(p) == run[p].wanted[run[p].at]
AtLast(p) == run[p].at = Len(run[p].wanted)
End(p, code) == run' = [run EXCEPT ![p] = Idle(code, run[p].wrote)]

\* The regions of these that another run is working on.
Shared(p, wanted) ==
  {r \in ToSet(wanted) : \E q \in Procs \ {p} : ~At(q, "idle") /\ r \in ToSet(run[q].wanted)}

\* The modules pack.py imports, its own copies of the tables among them.
Pack(p) ==
  /\ At(p, "idle") /\ run[p].exit = NONE
  /\ \E c \in Commands[p] :
       /\ run' = [run EXCEPT ![p] = [Idle(NONE, FALSE) EXCEPT
            !.pc = "load", !.wanted = c, !.mine = tables, !.release = release]]
       /\ met' = met \union Shared(p, c)
  /\ UNCHANGED <<sources, built>>

\* gate.py imports the tables once more; then the arguments are looked at.
LoadGate(p) ==
  /\ At(p, "load")
  /\ IF \E i \in DOMAIN run[p].wanted : run[p].wanted[i] \notin Regions
     THEN End(p, "2")
     ELSE IF \E i \in DOMAIN run[p].wanted : dumps[run[p].wanted[i]] = NONE
     THEN End(p, "1")
     ELSE run' = [run EXCEPT ![p].gates = tables, ![p].pc = "gate"]
  /\ UNCHANGED <<sources, built, met>>

\* Every wanted region is gated before any is built.
GateRegion(p) ==
  /\ At(p, "gate")
  /\ \E produced \in Produced(dumps[This(p)], G!Sorted(run[p].gates[This(p)])) :
       LET verdict == GateVerdict(This(p), run[p].gates[This(p)], dumps[This(p)], produced)
       IN IF verdict = "raised" THEN End(p, "gate raised")
          ELSE IF verdict = "refused" THEN End(p, "1")
          ELSE IF AtLast(p) THEN run' = [run EXCEPT ![p].pc = "build", ![p].at = 1]
          ELSE run' = [run EXCEPT ![p].at = @ + 1]
  /\ UNCHANGED <<sources, built, met>>

\* The dump is read again; spcfast refuses a foreign one.  The patched cartridge
\* goes through dist/work/, where every run puts the same bytes.
ReadCart(p) ==
  /\ At(p, "build")
  /\ IF dumps[This(p)] # "retail" THEN End(p, "raised")
     ELSE run' = [run EXCEPT ![p].pc = "assemble"]
  /\ UNCHANGED <<sources, built, met>>

\* stage_rom, once the toolchain's image is built: whatever lies there is
\* overwritten.
StageRom(p) ==
  /\ At(p, "assemble")
  /\ asm' = [asm EXCEPT ![This(p)] = Staged]
  /\ run' = [run EXCEPT ![p].pc = "asar"]
  /\ UNCHANGED <<sources, dist, manifest, met>>

\* asar patches the file it finds; where another run has removed it, it makes a
\* new one, which is no cartridge.
Asar(p) ==
  /\ At(p, "asar")
  /\ asm' = [asm EXCEPT ![This(p)] = IF @ \in {NONE, TORN} THEN TORN ELSE Assembled]
  /\ run' = [run EXCEPT ![p].pc = "collect"]
  /\ UNCHANGED <<sources, dist, manifest, met>>

\* build.py exits with an error: no toolchain, or asar refused.
AssembleFails(p) ==
  /\ run[p].pc \in {"assemble", "asar"}
  /\ End(p, "raised")
  /\ UNCHANGED <<sources, built, met>>

\* The assembled cartridge is read; it may be gone.
Collect(p) ==
  /\ At(p, "collect")
  /\ IF asm[This(p)] = NONE THEN End(p, "raised")
     ELSE run' = [run EXCEPT ![p].pc = "unlink", ![p].hand = asm[This(p)]]
  /\ UNCHANGED <<sources, built, met>>

\* A file that is already gone let pass.
MutUnlink(p) ==
  /\ At(p, "unlink")
  /\ asm' = [asm EXCEPT ![This(p)] = NONE]
  /\ run' = [run EXCEPT ![p].pc = "open", ![p].hand =
       IF @ = TORN THEN TORN ELSE [@ EXCEPT !.patches = @ \union {"prefight"}]]
  /\ UNCHANGED <<sources, dist, manifest, met>>

\* It is removed, if another run has not done so, and given its pre-fight table.
Unlink(p) ==
  /\ At(p, "unlink")
  /\ IF asm[This(p)] = NONE THEN End(p, "raised") /\ UNCHANGED asm
     ELSE /\ asm' = [asm EXCEPT ![This(p)] = NONE]
          /\ run' = [run EXCEPT ![p].pc = "open", ![p].hand =
               IF @ = TORN THEN TORN ELSE [@ EXCEPT !.patches = @ \union {"prefight"}]]
  /\ UNCHANGED <<sources, dist, manifest, met>>

\* prefight or rombuild raises, also when the streams find no room.
BuildRaises(p) ==
  /\ At(p, "open")
  /\ End(p, "raised")
  /\ UNCHANGED <<sources, built, met>>

\* rombuild.build wants a cartridge of the original size.
OpenImage(p) ==
  /\ At(p, "open")
  /\ run[p].hand # TORN /\ Buildable(run[p].mine[This(p)])
  /\ dist' = [dist EXCEPT ![<<This(p), run[p].release>>] = TORN]
  /\ run' = [run EXCEPT ![p].pc = "fill", ![p].wrote = TRUE]
  /\ UNCHANGED <<sources, asm, manifest, met>>

\* An image, with the table its run's gate saw kept beside the one laid out.
ImageOf(p) == [region |-> This(p), table |-> run[p].mine[This(p)],
               gated |-> run[p].gates[This(p)], cart |-> run[p].hand]

\* The gate asked again for the next region, after this one is written.
MutFillThenGate(p) ==
  /\ At(p, "fill")
  /\ dist' = [dist EXCEPT ![<<This(p), run[p].release>>] = ImageOf(p)]
  /\ run' = [run EXCEPT ![p].hand = NONE,
       ![p].lines = Append(@, <<This(p), run[p].release, ImageOf(p)>>),
       ![p].pc = IF AtLast(p) THEN "manifest" ELSE "gate",
       ![p].at = IF AtLast(p) THEN @ ELSE @ + 1]
  /\ UNCHANGED <<sources, asm, manifest, met>>

\* The manifest's lines begun again with each region.
MutFillImage(p) ==
  /\ At(p, "fill")
  /\ dist' = [dist EXCEPT ![<<This(p), run[p].release>>] = ImageOf(p)]
  /\ run' = [run EXCEPT ![p].hand = NONE,
       ![p].lines = <<<<This(p), run[p].release, ImageOf(p)>>>>,
       ![p].pc = IF AtLast(p) THEN "manifest" ELSE "build",
       ![p].at = IF AtLast(p) THEN @ ELSE @ + 1]
  /\ UNCHANGED <<sources, asm, manifest, met>>

FillImage(p) ==
  /\ At(p, "fill")
  /\ dist' = [dist EXCEPT ![<<This(p), run[p].release>>] = ImageOf(p)]
  /\ run' = [run EXCEPT ![p].hand = NONE,
       ![p].lines = Append(@, <<This(p), run[p].release, ImageOf(p)>>),
       ![p].pc = IF AtLast(p) THEN "manifest" ELSE "build",
       ![p].at = IF AtLast(p) THEN @ ELSE @ + 1]
  /\ UNCHANGED <<sources, asm, manifest, met>>

\* write_text opens the manifest anew, then fills it.
OpenManifest(p) ==
  /\ At(p, "manifest")
  /\ manifest' = <<>>
  /\ run' = [run EXCEPT ![p].pc = "lines"]
  /\ UNCHANGED <<sources, asm, dist, met>>

\* Over lines another run wrote meanwhile, a longer text shows at the end.
WriteManifest(p) ==
  /\ At(p, "lines")
  /\ \/ manifest' = run[p].lines
     \/ manifest # <<>> /\ manifest' = TORN
  /\ run' = [run EXCEPT ![p].pc = "idle", ![p].exit = "0"]
  /\ UNCHANGED <<sources, asm, dist, met>>

-----------------------------------------------------------------------------

\* The process is stopped; nothing it wrote is undone.
Kill(p) ==
  /\ ~At(p, "idle")
  /\ End(p, "killed")
  /\ UNCHANGED <<sources, built, met>>

\* A file changes.
Edit ==
  /\ edits < Edits
  /\ \/ /\ \E r \in Regions : \E t \in Tables[r] \ {tables[r]} :
             tables' = [tables EXCEPT ![r] = t]
        /\ UNCHANGED <<dumps, release>>
     \/ /\ \E r \in Regions : \E d \in {"retail", "foreign", NONE} \ {dumps[r]} :
             dumps' = [dumps EXCEPT ![r] = d]
        /\ UNCHANGED <<tables, release>>
     \/ /\ release' \in Releases \ {release}
        /\ UNCHANGED <<tables, dumps>>
  /\ edits' = edits + 1
  /\ UNCHANGED <<built, run, met>>

Init ==
  /\ tables \in Copies
  /\ dumps \in [Regions -> {"retail", "foreign", NONE}]
  /\ release \in Releases
  /\ edits = 0
  /\ asm = [r \in Regions |-> NONE]
  /\ dist = [n \in Regions \X Releases |-> NONE]
  /\ manifest = NONE
  /\ run = [p \in Procs |-> Idle(NONE, FALSE)]
  /\ met = {}

Next ==
  \/ Edit
  \/ \E p \in Procs :
       \/ Pack(p) \/ LoadGate(p) \/ GateRegion(p) \/ ReadCart(p) \/ StageRom(p)
       \/ Asar(p) \/ AssembleFails(p) \/ Collect(p) \/ Unlink(p) \/ BuildRaises(p)
       \/ OpenImage(p) \/ FillImage(p) \/ OpenManifest(p) \/ WriteManifest(p) \/ Kill(p)

Spec == Init /\ [][Next]_vars

-----------------------------------------------------------------------------

Finished(files) == {files[n] : n \in DOMAIN files} \ {NONE, TORN}

(* What the console gets from an image: every stream stands where the scan *)
(* for it stops, within the budget, no entry claims more than the stream   *)
(* has, and each recorded request finds a stream long enough.              *)
Serves(image) ==
  LET entries == Entries(image.table)
      keys == G!KeysOf(entries)
      slots == G!Keys!FirstFreeSlots(keys)
  IN /\ G!Keys!Unambiguous(keys, slots)
     /\ \A i \in DOMAIN keys :
          /\ G!Keys!Distance(keys, slots, i) <= SCAN_BUDGET
          /\ Decoded(entries[i]) = entries[i][2]
     /\ \A n \in DOMAIN Recorded[image.region] :
          LET r == Recorded[image.region][n]
          IN \E i \in DOMAIN entries : entries[i][1] = r[1] /\ entries[i][2] >= r[2]

(* README.md: pack.py "runs the build gate first and refuses to write      *)
(* anything if the stream table fails it".  The gate speaks of the tables  *)
(* gate.py imported, pack.py lays out those it imported itself.  Where the *)
(* two agree on a region's, the image serves the game, whatever is edited  *)
(* later, wherever runs stop and however they overlap.  A table edited     *)
(* between the two imports ships without a gate having seen it.            *)
ReleasesServe ==
  \A image \in Finished(dist) : image.table = image.gated => Serves(image)

(* A failing gate of any wanted region, or one that raises, stops the run  *)
(* before its first write, so a refusal never leaves one region new and    *)
(* the other old.                                                          *)
RefusedWritesNothing ==
  \A p \in Procs : run[p].exit \in {"1", "2", "gate raised"} => ~run[p].wrote

\* Every run that began is over, and none was killed or raised while building.
AllEndedWell ==
  \A p \in Procs :
    At(p, "idle") /\ run[p].exit \in {NONE, "0", "1", "2", "gate raised"}

(* Two runs for one region use one file under asm/, and one can collect    *)
(* what the other has just staged: a cartridge whose seven sites still arm *)
(* the chip.  No such image goes out unnoticed: one is made only where two *)
(* runs met on the region, and then not all of them end well, for whoever  *)
(* takes another's file leaves it none to assemble, to read or to remove.  *)
(* What failed, killed or earlier runs left under asm/ never ships.        *)
ReleasesAreWhole ==
  \A n \in DOMAIN dist :
    dist[n] \notin {NONE, TORN} /\ (n[1] \notin met \/ AllEndedWell) =>
      dist[n].cart = Whole

(* Once every run that wrote an image has ended well, the manifest is that *)
(* of one of them, for its regions in order, and its sum is the one of the *)
(* file in dist/, but for regions two runs met on: there the image of one  *)
(* and the sum of the other may stay.  Left out are runs killed after      *)
(* their first write, and two that write the manifest at one moment.       *)
Settled ==
  /\ \E p \in Procs : run[p].wrote
  /\ \A p \in Procs : run[p].wrote => run[p].exit = "0"

ManifestMatches ==
  Settled /\ manifest # TORN =>
    /\ \E p \in Procs :
         /\ run[p].wrote /\ Len(manifest) = Len(run[p].wanted)
         /\ \A i \in DOMAIN manifest : manifest[i][1] = run[p].wanted[i]
    /\ \A i \in DOMAIN manifest :
         manifest[i][1] \notin met =>
           dist[<<manifest[i][1], manifest[i][2]>>] = manifest[i][3]
=============================================================================
