---------------------------- MODULE StreamTable ----------------------------
(***************************************************************************)
(* The search for the Japanese stream table.  harvest_jp.py, converge_jp.py*)
(* and tour_oracle.py drive the game, read from the logs which streams it  *)
(* asked for, and edit the table: harvest rebuilds and reruns the converted*)
(* build and trims neighbours to make room, converge only adds, the tour of*)
(* the retail cartridge adds and restores.  A table maps the address of a  *)
(* stream to its decompressed length; 0 is table.get(source, 0).           *)
(***************************************************************************)
EXTENDS Integers, FiniteSets, FiniteSetsExt

CONSTANTS
  Sources,        \* addresses streams start at
  MaxLength,      \* the longest request
  Roms,           \* for each address and length, where its compressed end is
  RomEnd,         \* past it the decoder raises TruncatedStream
  Tables,         \* the tables a search may start from
  Reports,        \* what a run's log can come to, as a table of requests
  Tools,          \* the tools used, of "harvest", "converge" and "tour"
  HarvestRounds,  \* 24
  ConvergeRounds, \* 20
  Runs            \* runs a round is made of: 4 images, 15 jobs or 6 passes

Table == [Sources -> 0 .. MaxLength]

ASSUME SourcesAssumption == Sources \subseteq Nat /\ IsFiniteSet(Sources)
ASSUME LengthAssumption == MaxLength \in Nat \ {0} /\ RomEnd \in Nat
\* A longer length never ends earlier in the ROM.
ASSUME RomsAssumption ==
  \A r \in Roms :
    /\ r \in [Sources -> [1 .. MaxLength -> Nat]]
    /\ \A s \in Sources : \A m, n \in 1 .. MaxLength :
         m <= n => r[s][m] <= r[s][n]
ASSUME TablesAssumption == Tables \subseteq Table /\ Reports \subseteq Table
ASSUME ToolsAssumption == Tools \subseteq {"harvest", "converge", "tour"}
ASSUME RoundsAssumption ==
  HarvestRounds \in Nat \ {0} /\ ConvergeRounds \in Nat \ {0} /\ Runs \in Nat \ {0}

VARIABLES
  rom,      \* where each stream's compressed bytes end
  shipped,  \* jpstreams.STREAMS
  file,     \* build/harvest/table.txt
  tool,     \* the tool running, or "none"
  table,    \* its working table
  round,    \* its iteration
  runs,     \* runs made this iteration
  wanted,   \* requests read and not handled yet
  added,    \* whether this iteration changed the table
  outcome,  \* how the last tool ended: "none", "converged", "gave up",
            \* "unfinished", "done", "aborted"
  heard,    \* history: what this iteration's runs asked for
  toured,   \* history: decodable requests of the tours that finished since the
            \* file was last harvested
  refused   \* history: the addresses absorb refused in this iteration

work == <<table, round, runs, wanted, added, heard>>
vars == <<rom, shipped, file, tool, work, outcome, toured, refused>>

Nothing == [s \in Sources |-> 0]

\* The larger of two tables' lengths, address by address.
Larger(t, u) == [s \in Sources |-> IF t[s] < u[s] THEN u[s] ELSE t[s]]

\* Whether an address decodes to exactly so many bytes.
Decodes(s, n) == rom[s][n] <= RomEnd

CompressedEnd(s, n) == rom[s][n]

\* The longest length of an interval that ends by the boundary, by halving.
Intervals == (1 .. MaxLength + 1) \X (0 .. MaxLength)

Search(s, boundary) ==
  LET best[i \in Intervals] ==
        LET middle == (i[1] + i[2]) \div 2 IN
        IF i[1] > i[2] THEN 0
        ELSE IF CompressedEnd(s, middle) > boundary THEN best[<<i[1], middle - 1>>]
        ELSE Max({middle, best[<<middle + 1, i[2]>>]})
  IN best

\* shorten_to; 0 is None.
ShortenTo(s, length, boundary) ==
  LET best == Search(s, boundary)[<<1, length>>] IN
  IF best # 0 /\ CompressedEnd(s, best) = boundary THEN best ELSE 0

\* The streams below an address whose compressed bytes run over it.
Overlapping(t, s) ==
  {o \in Sources : t[o] > 0 /\ o < s /\ s < CompressedEnd(o, t[o])}

Untrimmable(t, s) == {o \in Overlapping(t, s) : ShortenTo(o, t[o], s) = 0}

\* Only the nearest neighbour below trimmed.
MutTrimmed(t, s) ==
  [o \in Sources |->
     IF o \in Overlapping(t, s) /\ \A u \in Overlapping(t, s) : u <= o
     THEN ShortenTo(o, t[o], s) ELSE t[o]]

\* The neighbours trimmed before the first one that cannot be.
Trimmed(t, s) ==
  [o \in Sources |->
     IF o \in Overlapping(t, s) /\ \A u \in Untrimmable(t, s) : o < u
     THEN ShortenTo(o, t[o], s) ELSE t[o]]

\* absorb: the table it leaves behind, whether or not it succeeds.
Absorb(t, s, n) ==
  IF Untrimmable(t, s) = {}
  THEN [Trimmed(t, s) EXCEPT ![s] = Max({@, n})]
  ELSE Trimmed(t, s)

-----------------------------------------------------------------------------
Start(name, from) ==
  /\ name \in Tools
  /\ tool = "none"
  /\ tool' = name
  /\ table' = from
  /\ round' = 1
  /\ runs' = 0
  /\ wanted' = Nothing
  /\ added' = FALSE
  /\ heard' = Nothing
  /\ outcome' = "none"
  /\ refused' = {}
  /\ UNCHANGED <<rom, shipped, file, toured>>

StartHarvest == Start("harvest", shipped)
StartConverge == Start("converge", file)
StartTour == Start("tour", file)

\* Whether the requests in hand are being worked through.
Handling == tool = "harvest" \/ runs = Runs

\* The next request, in order of address.
Request(s) ==
  /\ tool # "none"
  /\ Handling
  /\ wanted[s] > 0
  /\ \A q \in Sources : q < s => wanted[q] = 0

\* Only the last run's requests kept.
MutCandidates(w) == [s \in Sources |-> IF table[s] > 0 THEN 0 ELSE w[s]]

\* converge keeps the requests for addresses the table does not have.
Candidates(w) ==
  [s \in Sources |-> IF table[s] > 0 THEN 0 ELSE Larger(wanted, w)[s]]

\* An image is built from the table and run; its log says what it asked for.
\* harvest handles each run's requests before the next image is built, the
\* others gather those of all their runs.
Run(w) ==
  /\ tool # "none"
  /\ runs < Runs
  /\ tool = "harvest" => wanted = Nothing
  /\ runs' = runs + 1
  /\ heard' = Larger(heard, w)
  /\ wanted' = CASE tool = "harvest" -> w
                 [] tool = "converge" -> Candidates(w)
                 [] tool = "tour" -> Larger(wanted, w)
  /\ UNCHANGED <<rom, shipped, file, tool, table, round, added, outcome,
                 toured, refused>>

\* A request the table satisfies, or one that does not decode.
HarvestSkip(s) == table[s] >= wanted[s] \/ ~Decodes(s, wanted[s])

HarvestRequest(s) ==
  /\ tool = "harvest"
  /\ Request(s)
  /\ wanted' = [wanted EXCEPT ![s] = 0]
  /\ IF HarvestSkip(s) THEN UNCHANGED <<table, added, refused>>
     ELSE /\ table' = Absorb(table, s, wanted[s])
          /\ added' = (added \/ Untrimmable(table, s) = {})
          /\ refused' = IF Untrimmable(table, s) = {} THEN refused ELSE refused \union {s}
  /\ UNCHANGED <<rom, shipped, file, tool, round, runs, heard, outcome, toured>>

\* A request that does not decode counted as a change.
MutConvergeRequest(s) ==
  /\ tool = "converge"
  /\ Request(s)
  /\ wanted' = [wanted EXCEPT ![s] = 0]
  /\ added' = TRUE
  /\ table' = IF Decodes(s, wanted[s]) THEN [table EXCEPT ![s] = wanted[s]] ELSE table
  /\ UNCHANGED <<rom, shipped, file, tool, round, runs, heard, outcome,
                 toured, refused>>

ConvergeRequest(s) ==
  /\ tool = "converge"
  /\ Request(s)
  /\ wanted' = [wanted EXCEPT ![s] = 0]
  /\ IF Decodes(s, wanted[s])
     THEN table' = [table EXCEPT ![s] = wanted[s]] /\ added' = TRUE
     ELSE UNCHANGED <<table, added>>
  /\ UNCHANGED <<rom, shipped, file, tool, round, runs, heard, outcome,
                 toured, refused>>

\* A shortened entry left short.
MutTourRequest(s) ==
  /\ tool = "tour"
  /\ Request(s)
  /\ wanted' = [wanted EXCEPT ![s] = 0]
  /\ table' = IF Decodes(s, wanted[s]) /\ table[s] = 0
              THEN [table EXCEPT ![s] = wanted[s]] ELSE table
  /\ UNCHANGED <<rom, shipped, file, tool, round, runs, added, heard, outcome,
                 toured, refused>>

\* An address the table does not have is added, a shorter entry restored.
TourRequest(s) ==
  /\ tool = "tour"
  /\ Request(s)
  /\ wanted' = [wanted EXCEPT ![s] = 0]
  /\ table' = IF Decodes(s, wanted[s]) /\ table[s] < wanted[s]
              THEN [table EXCEPT ![s] = wanted[s]] ELSE table
  /\ UNCHANGED <<rom, shipped, file, tool, round, runs, added, heard, outcome,
                 toured, refused>>

\* Every run made and every request handled.
RoundOver == runs = Runs /\ wanted = Nothing

NextRound ==
  /\ round' = round + 1
  /\ runs' = 0
  /\ added' = FALSE
  /\ heard' = Nothing
  /\ refused' = {}
  /\ UNCHANGED <<rom, shipped, tool, table, wanted, outcome, toured>>

End(how) ==
  /\ tool' = "none"
  /\ outcome' = how
  /\ UNCHANGED <<rom, shipped, work>>

\* The table is written when the loop is left, converged or not.  harvest began
\* from the shipped table: what it writes knows nothing of earlier tours.
HarvestRound ==
  /\ tool = "harvest"
  /\ RoundOver
  /\ \/ added /\ round < HarvestRounds /\ NextRound /\ UNCHANGED file
     \/ /\ ~added \/ round = HarvestRounds
        /\ End(IF added THEN "gave up" ELSE "converged")
        /\ file' = table /\ toured' = Nothing /\ UNCHANGED refused

\* The table is written every iteration, and read back by the next.
ConvergeRound ==
  /\ tool = "converge"
  /\ RoundOver
  /\ file' = table
  /\ \/ added /\ round < ConvergeRounds /\ NextRound
     \/ /\ ~added \/ round = ConvergeRounds
        /\ End(IF added THEN "unfinished" ELSE "converged")
        /\ UNCHANGED <<toured, refused>>

TourRound ==
  /\ tool = "tour"
  /\ RoundOver
  /\ file' = table
  /\ toured' = Larger(toured, [s \in Sources |->
       IF heard[s] > 0 /\ Decodes(s, heard[s]) THEN heard[s] ELSE 0])
  /\ End("done")
  /\ UNCHANGED refused

\* A build that fails, an allocation without room or an interrupted script:
\* the working table is lost, the file is what was last written.
Abort ==
  /\ tool # "none"
  /\ tool' = "none"
  /\ outcome' = "aborted"
  /\ UNCHANGED <<rom, shipped, file, work, toured, refused>>

Init ==
  /\ rom \in Roms
  /\ shipped \in Tables
  /\ file = shipped
  /\ tool = "none"
  /\ table = Nothing
  /\ round = 0
  /\ runs = 0
  /\ wanted = Nothing
  /\ added = FALSE
  /\ outcome = "none"
  /\ heard = Nothing
  /\ toured = Nothing
  /\ refused = {}

Working ==
  \/ \E w \in Reports : Run(w)
  \/ \E s \in Sources : HarvestRequest(s) \/ ConvergeRequest(s) \/ TourRequest(s)
  \/ HarvestRound \/ ConvergeRound \/ TourRound

Next == StartHarvest \/ StartConverge \/ StartTour \/ Working \/ Abort

Spec == Init /\ [][Next]_vars

-----------------------------------------------------------------------------

\* The addresses a table has.
Present(t) == {s \in Sources : t[s] > 0}

Covers(t, u) == \A s \in Sources : u[s] <= t[s]

(* gate.uncovered over the tours: once a tour has finished, the file holds *)
(* every request it decoded at full length, whatever tool adds to it, runs *)
(* again or is aborted after it, until a harvest starts the table over.    *)
ToursStayCovered == Covers(file, toured)

(* A search that says it converged left no address out: every address one  *)
(* of its last iteration's runs asked for is in the file, or does not      *)
(* decode, or is one absorb refused in that iteration (harvest goes on,    *)
(* and says converged with that address still missing).  It says nothing   *)
(* of lengths: an entry may have been trimmed since it was asked for.      *)
ConvergedMeansQuiet ==
  outcome = "converged" =>
    \A s \in Sources :
      heard[s] > 0 => file[s] > 0 \/ ~Decodes(s, heard[s]) \/ s \in refused

(* What harvest adds or lengthens is run over by nothing below it: absorb  *)
(* has trimmed every neighbour that did, however many there were.  What    *)
(* the trimming costs is NeverShortened's question.                        *)
HarvestMakesRoom ==
  [][tool = "harvest" /\ tool' = "harvest" =>
       \A s \in Sources :
         table'[s] > table[s] => Overlapping(table', s) = {}]_vars

(* converge takes an address the table had not in every iteration that     *)
(* goes on: out of iterations, it has as many of them to show for it.      *)
UnfinishedHasAdded ==
  outcome = "unfinished" => Cardinality(Present(file)) >= ConvergeRounds

(* README.md:588-589: "Only two operations on a stream table are safe,     *)
(* adding an address the hardware asks for and raising a length to what it *)
(* asks for.  Shortening an entry is never valid."  So no tool shortens    *)
(* one.  harvest does: absorb trims, on the converted build's word, what   *)
(* jpstreams.py:36-40 says once cost two streams the cartridge needs.      *)
NeverShortened ==
  [][tool # "none" /\ tool' = tool =>
       \A s \in Sources : table[s] <= table'[s]]_vars
=============================================================================
