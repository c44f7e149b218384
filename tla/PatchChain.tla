----------------------------- MODULE PatchChain -----------------------------
(***************************************************************************)
(* The patchers of a cartridge ROM, each a program of its own that reads a *)
(* ROM and writes another: spcfast, shinakuma, gamefixes, repeatload and   *)
(* prefight, and the bypass that build.py has asar assemble into it.       *)
(* pack.build runs them in one order; by hand they run in any order, any   *)
(* number of times, on whatever ROM they are given.  The ROM is the        *)
(* content of its sites, the runs of bytes some patcher reads or writes,   *)
(* at their real file offsets; a write over part of another site leaves    *)
(* that one as nobody expects it.                                          *)
(***************************************************************************)
EXTENDS Integers, Sequences, FiniteSets

CONSTANTS
  Regions,   \* the cartridges patched, of "usa" and "jp"
  Deviations \* how the ROMs given differ from retail: site -> content

(***************************************************************************)
(* A site is a kind and a number: upload runs, the Shin Akuma gate, the    *)
(* fixes, the empty calls (all calls of one routine) and their targets,    *)
(* the allocator hook, the two fillers (the routine, the bytes left over), *)
(* the table builder and its callers, the bypass and the checksum field.   *)
(* A span is <<file offset, length>>; a length of 0 is a place the sources *)
(* find by signature and do not name.                                      *)
(***************************************************************************)
BlankWait(at) == <<at, 8>>

UploadSpans ==
  << BlankWait(\h70222), BlankWait(\h70241), BlankWait(\h7025F),
     BlankWait(\h702B2), BlankWait(\h702D1), BlankWait(\h702EF),
     BlankWait(\h70337), BlankWait(\h70355), BlankWait(\h70373),
     BlankWait(\h703C1), BlankWait(\h703E2), BlankWait(\h70401),
     BlankWait(\h70420), BlankWait(\h7043B), <<\h7046D, 1>>,
     BlankWait(\h70479), <<\h70488, 3>>, BlankWait(\h70498),
     BlankWait(\h704B6), <<\h704EB, 173>>, <<\h72B13, 1>>, <<\h72B15, 9>>,
     <<\h72B1F, 5>>, <<\h72B25, 47>>, <<\h72B55, 1>>, <<\h72B57, 33>>,
     <<\h72B79, 3>> >>

\* Father sprite, four plates of Sodom's name, object table, pose, its index.
FixSpans(g) ==
  << <<\h3EA95E, 28>>, <<\h88C0, 15>>, <<\hD68C, 12>>, <<\h2260, 56>>,
     <<\h1AB82E, 266>>, <<IF g = "usa" THEN \h57537 ELSE \h57546, 16>>,
     <<\h20048, 8>>, <<IF g = "usa" THEN \h1E946 ELSE \h1E95F, 6>> >>

TargetSpans == << <<\h3FFF4D, 1>>, <<\h301EEF, 1>>, <<\h3FFEA1, 1>> >>

ROUTINE == 61
\* A prefight filler one byte too long, into repeatload's.
MutPrefightFiller ==
  << <<\h7F593, ROUTINE>>, <<\h7F593 + ROUTINE, \h7F601 - \h7F593 - ROUTINE>> >>

PrefightFiller ==
  << <<\h7F593, ROUTINE>>, <<\h7F593 + ROUTINE, \h7F600 - \h7F593 - ROUTINE>> >>
RepeatFiller ==
  << <<\h7F600, ROUTINE>>, <<\h7F600 + ROUTINE, \h7F700 - \h7F600 - ROUTINE>> >>

\* Seven calls, and the translate routine in filler.
BypassSpans(g) ==
  IF g = "usa"
  THEN << <<\h482, 7>>, <<\h85A, 7>>, <<\h881, 7>>, <<\h77BF, 7>>,
          <<\h12BBD3, 9>>, <<\h1AE002, 7>>, <<\h1AE131, 7>>, <<\h1ACD84, 321>> >>
  ELSE << <<\h47E, 7>>, <<\h856, 7>>, <<\h87D, 7>>, <<\h77BF, 7>>,
          <<\h12C54A, 9>>, <<\h1AE002, 7>>, <<\h1AE131, 7>>, <<\h1AD700, 321>> >>

Spans(g) ==
  [ upload |-> UploadSpans,
    gate |-> << <<IF g = "usa" THEN \hEC6E ELSE \hECA0, 47>> >>,
    fix |-> FixSpans(g), call |-> << <<0, 0>>, <<0, 0>>, <<0, 0>> >>,
    target |-> TargetSpans, hook |-> << <<\h70069, 3>> >>,
    repeat |-> RepeatFiller, prefight |-> PrefightFiller,
    builder |-> << <<IF g = "usa" THEN \hB606 ELSE \hB60B, 26>> >>,
    caller |-> << <<0, 0>>, <<0, 0>> >>,
    bypass |-> BypassSpans(g), checksum |-> << <<\h7FDC, 4>> >> ]

Numbered(kind, n) == {<<kind, i>> : i \in 1 .. n}
Upload == Numbered("upload", Len(UploadSpans))
Gate == Numbered("gate", 1)
Fixes == Numbered("fix", 8)
Calls == Numbered("call", 3)
Targets == Numbered("target", 3)
Hook == Numbered("hook", 1)
RepeatSites == Numbered("repeat", 2)
PrefightSites == Numbered("prefight", 2)
Builder == Numbered("builder", 1)
CallerSites == Numbered("caller", 2)
BypassSites == Numbered("bypass", 8)
Checksum == Numbered("checksum", 1)
Site ==
  UNION {Upload, Gate, Fixes, Calls, Targets, Hook, RepeatSites, PrefightSites,
         Builder, CallerSites, BypassSites, Checksum}

Span(g, s) == Spans(g)[s[1]][s[2]]
SpansOverlap(a, b) == a[1] < b[1] + b[2] /\ b[1] < a[1] + a[2]
Overlaps(g) ==
  UNION {{{s, t} : t \in {u \in Site \ {s} : SpansOverlap(Span(g, s), Span(g, u))}} :
          s \in Site}
OverlapsUsa == Overlaps("usa")
OverlapsJp == Overlaps("jp")
OverlapsOf(g) == IF g = "usa" THEN OverlapsUsa ELSE OverlapsJp

\* "stock": as the patcher looks for it, "patched": as it leaves it, "twice":
\* more than once in the ROM, "other": none of these.
Content == {"stock", "patched", "other", "twice"}

\* The Japanese ROM has the name already on three plates, and no fourth.
Retail(g) ==
  [s \in Site |->
     IF g = "jp" /\ s \in {<<"fix", i>> : i \in 2 .. 4} THEN "patched"
     ELSE IF g = "jp" /\ s = <<"fix", 5>> THEN "other" ELSE "stock"]

ASSUME RegionsAssumption == Regions \subseteq {"usa", "jp"}
ASSUME DeviationsAssumption ==
  \A d \in Deviations : DOMAIN d \subseteq Site /\ \A s \in DOMAIN d : d[s] \in Content

VARIABLES
  region, \* the cartridge
  start,  \* the ROM first given to a patcher
  rom,    \* the ROM as it stands
  sum,    \* whether its checksum field holds its checksum
  tried,  \* the patchers run on it
  refused \* those that refused it

vars == <<region, start, rom, sum, tried, refused>>

-----------------------------------------------------------------------------
(* What each patcher makes of ROM x of region g.                           *)

All(x, sites, content) == \A s \in sites : x.rom[s] = content
Those(x, sites, content) == {s \in sites : x.rom[s] = content}

Refuse(x) == [x EXCEPT !.outcome = "refused"]
Keep(x) == [x EXCEPT !.outcome = "kept"]

Write(g, x, sites, good) ==
  [ rom |-> [s \in Site |->
      IF s \in sites THEN "patched"
      ELSE IF \E t \in sites : {s, t} \in OverlapsOf(g) THEN "other" ELSE x.rom[s]],
    sum |-> good, outcome |-> "wrote" ]

\* The runs is_stock probes.
StockProbe == {<<"upload", i>> : i \in {1, 15, 21, 22}}

Spcfast(g, x) ==
  IF All(x, Upload, "patched") THEN Keep(x)
  ELSE IF ~All(x, StockProbe, "stock") THEN Refuse(x)
  ELSE Write(g, x, Upload, TRUE)

\* No probe for the gate it has already moved.
MutShinakuma(g, x) ==
  IF All(x, Gate, "stock") THEN Write(g, x, Gate, TRUE) ELSE Refuse(x)

Shinakuma(g, x) ==
  IF All(x, Gate, "patched") THEN Keep(x)
  ELSE IF All(x, Gate, "stock") THEN Write(g, x, Gate, TRUE)
  ELSE Refuse(x)

Entries == Fixes \union Calls
\* A run found twice, or a call whose target is not a bare return.
SurveyRaises(x) ==
  \/ \E s \in Fixes : x.rom[s] = "twice"
  \/ \E i \in DOMAIN TargetSpans :
       x.rom[<<"call", i>>] = "stock" /\ x.rom[<<"target", i>>] # "stock"

Gamefixes(g, x) ==
  IF SurveyRaises(x) \/ All(x, Entries, "other") THEN Refuse(x)
  ELSE IF Those(x, Entries, "stock") = {} THEN Keep(x)
  ELSE Write(g, x, Those(x, Entries, "stock"), TRUE)

RepeatPatch == {<<"hook", 1>>, <<"repeat", 1>>}
\* The filler taken without a look.
MutRepeatload(g, x) ==
  IF All(x, RepeatPatch, "patched") THEN Keep(x)
  ELSE IF ~All(x, Hook, "stock") THEN Refuse(x)
  ELSE Write(g, x, RepeatPatch, TRUE)

Repeatload(g, x) ==
  IF All(x, RepeatPatch, "patched") THEN Keep(x)
  ELSE IF ~All(x, Hook \union RepeatSites, "stock") THEN Refuse(x)
  ELSE Write(g, x, RepeatPatch, TRUE)

Callers(x) ==
  IF All(x, Builder, "stock") THEN Those(x, CallerSites, "stock") ELSE {}
\* The checksum is left as it was.
Prefight(g, x) ==
  IF All(x, Builder, "twice") THEN Refuse(x)
  ELSE IF x.rom[<<"prefight", 1>>] = "patched" /\ Callers(x) = {} THEN Keep(x)
  ELSE IF Callers(x) = {} \/ ~All(x, PrefightSites, "stock") THEN Refuse(x)
  ELSE Write(g, x, Callers(x) \union {<<"prefight", 1>>}, FALSE)

\* asar writes where the source says and stamps the checksum.
Bypass(g, x) == Write(g, x, BypassSites, TRUE)

Patchers == {"spcfast", "shinakuma", "gamefixes", "repeatload", "bypass", "prefight"}
Result(p, g, x) ==
  CASE p = "spcfast" -> Spcfast(g, x) [] p = "shinakuma" -> Shinakuma(g, x)
    [] p = "gamefixes" -> Gamefixes(g, x) [] p = "repeatload" -> Repeatload(g, x)
    [] p = "bypass" -> Bypass(g, x) [] p = "prefight" -> Prefight(g, x)

Given(r, s) == [rom |-> r, sum |-> s, outcome |-> "kept"]

\* The order of pack.build.
Packed(g, r) ==
  LET cart == Gamefixes(g, Shinakuma(g, Spcfast(g, Given(r, TRUE))))
  IN Prefight(g, Bypass(g, Repeatload(g, cart)))

-----------------------------------------------------------------------------
Init ==
  /\ region \in Regions
  /\ \E d \in Deviations :
       start = [s \in Site |-> IF s \in DOMAIN d THEN d[s] ELSE Retail(region)[s]]
  /\ rom = start /\ sum = TRUE
  /\ tried = {} /\ refused = {}

Run(p) ==
  LET x == Result(p, region, Given(rom, sum))
  IN /\ rom' = x.rom /\ sum' = x.sum
     /\ tried' = tried \union {p}
     /\ refused' = IF x.outcome = "refused" THEN refused \union {p} ELSE refused \ {p}
     /\ UNCHANGED <<region, start>>

RunSpcfast == Run("spcfast")
RunShinakuma == Run("shinakuma")
RunGamefixes == Run("gamefixes")
RunRepeatload == Run("repeatload")
RunPrefight == Run("prefight")
RunBypass == Run("bypass")

Next ==
  \/ RunSpcfast \/ RunShinakuma \/ RunGamefixes \/ RunRepeatload
  \/ RunPrefight \/ RunBypass
Spec == Init /\ [][Next]_vars

-----------------------------------------------------------------------------

\* Whatever order the patchers run in, and however often, the ROM that has
\* been through all of them is the one pack.build makes: none of them changes
\* what another looks for, at the real offsets of both cartridges.  And its
\* checksum is right unless prefight, which stamps none, has written to it.
\* README.md:350 says "Order matters.  The sample and unlock patches apply to
\* the retail ROM": of these six it does not, spcfast and shinakuma make the
\* same ROM behind any of the others.
AnyOrderSameRom ==
  /\ tried = Patchers => rom = Packed(region, start).rom
  /\ sum \/ rom[<<"prefight", 1>>] = "patched"

\* A patcher refuses for what the ROM it was first given holds and never for
\* what the others, or an earlier run of its own, have left in it.
RefusalIsTheRoms ==
  refused =
    {p \in tried : Result(p, region, Given(start, TRUE)).outcome = "refused"}

\* The patchers that look before they write leave bytes they do not know
\* alone.  spcfast probes four of its runs and the assembler none.
UnknownBytesSpared ==
  [][\A p \in Patchers \ {"spcfast", "bypass"} :
       Run(p) => \A s \in Site :
                   rom[s] \in {"other", "twice"} => rom'[s] = rom[s]]_vars

=============================================================================
