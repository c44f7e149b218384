-------------------------- MODULE PatchChain_proofs --------------------------
(* For every ROM of either cartridge, however far from retail: each patcher*)
(* reads and writes sites of its own, and running it again changes nothing.*)
(* So the order they run in does not matter, a refusal is the ROM's own,   *)
(* and a patcher that looks before it writes leaves unknown bytes alone.   *)
EXTENDS PatchChain, TLAPS

\* The sites a patcher looks at or writes.
Own(p) ==
  CASE p = "spcfast" -> Upload
    [] p = "shinakuma" -> Gate
    [] p = "gamefixes" -> Entries \union Targets
    [] p = "repeatload" -> Hook \union RepeatSites
    [] p = "bypass" -> BypassSites
    [] p = "prefight" -> PrefightSites \union Builder \union CallerSites

Holds(r, sites, content) == \A s \in sites : r[s] = content
With(r, sites, content) == {s \in sites : r[s] = content}

\* Whether a patcher refuses a ROM.
Refuses(p, r) ==
  CASE p = "spcfast" -> ~Holds(r, Upload, "patched") /\ ~Holds(r, StockProbe, "stock")
    [] p = "shinakuma" -> ~Holds(r, Gate, "patched") /\ ~Holds(r, Gate, "stock")
    [] p = "gamefixes" ->
         \/ \E s \in Fixes : r[s] = "twice"
         \/ \E i \in 1 .. 3 : r[<<"call", i>>] = "stock" /\ r[<<"target", i>>] # "stock"
         \/ Holds(r, Entries, "other")
    [] p = "repeatload" ->
         ~Holds(r, RepeatPatch, "patched") /\ ~Holds(r, Hook \union RepeatSites, "stock")
    [] p = "bypass" -> FALSE
    [] p = "prefight" ->
         \/ Holds(r, Builder, "twice")
         \/ /\ r[<<"prefight", 1>>] # "patched" \/ Callers([rom |-> r]) # {}
            /\ Callers([rom |-> r]) = {} \/ ~Holds(r, PrefightSites, "stock")

\* The sites it writes when it does not.
Written(p, r) ==
  IF Refuses(p, r) THEN {}
  ELSE CASE p = "spcfast" -> IF Holds(r, Upload, "patched") THEN {} ELSE Upload
         [] p = "shinakuma" -> IF Holds(r, Gate, "patched") THEN {} ELSE Gate
         [] p = "gamefixes" -> With(r, Entries, "stock")
         [] p = "repeatload" -> IF Holds(r, RepeatPatch, "patched") THEN {} ELSE RepeatPatch
         [] p = "bypass" -> BypassSites
         [] p = "prefight" ->
              IF r[<<"prefight", 1>>] = "patched" /\ Callers([rom |-> r]) = {} THEN {}
              ELSE Callers([rom |-> r]) \union {<<"prefight", 1>>}

\* The ROM it leaves.
After(p, r) == [s \in Site |-> IF s \in Written(p, r) THEN "patched" ELSE r[s]]

Rom == [Site -> Content]
Record == [rom : Rom, sum : BOOLEAN, outcome : {"refused", "kept", "wrote"}]

-----------------------------------------------------------------------------
(* Sites.                                                                  *)

LEMMA Kinds ==
  ASSUME NEW k, NEW n \in Nat, NEW s \in Numbered(k, n)
  PROVE  /\ s = <<s[1], s[2]>> /\ s[1] = k /\ s[2] \in 1 .. n
BY DEF Numbered

\* How many sites of each kind there are.
LEMMA Counts ==
  /\ Upload = Numbered("upload", 27) /\ DOMAIN UploadSpans = 1 .. 27
  /\ DOMAIN TargetSpans = 1 .. 3
BY SMT DEF Upload, UploadSpans, BlankWait, TargetSpans

\* A site by its kind.
LEMMA SiteKinds ==
  ASSUME NEW s \in Site
  PROVE  /\ s = <<s[1], s[2]>>
         /\ \/ s[1] = "upload" /\ s[2] \in 1 .. 27 /\ s \in Upload
            \/ s[1] = "gate" /\ s[2] \in 1 .. 1 /\ s \in Gate
            \/ s[1] = "fix" /\ s[2] \in 1 .. 8 /\ s \in Fixes
            \/ s[1] = "call" /\ s[2] \in 1 .. 3 /\ s \in Calls
            \/ s[1] = "target" /\ s[2] \in 1 .. 3 /\ s \in Targets
            \/ s[1] = "hook" /\ s[2] \in 1 .. 1 /\ s \in Hook
            \/ s[1] = "repeat" /\ s[2] \in 1 .. 2 /\ s \in RepeatSites
            \/ s[1] = "prefight" /\ s[2] \in 1 .. 2 /\ s \in PrefightSites
            \/ s[1] = "builder" /\ s[2] \in 1 .. 1 /\ s \in Builder
            \/ s[1] = "caller" /\ s[2] \in 1 .. 2 /\ s \in CallerSites
            \/ s[1] = "bypass" /\ s[2] \in 1 .. 8 /\ s \in BypassSites
            \/ s[1] = "checksum" /\ s[2] \in 1 .. 1 /\ s \in Checksum
<1>1. PICK S \in {Upload, Gate, Fixes, Calls, Targets, Hook, RepeatSites, PrefightSites,
                  Builder, CallerSites, BypassSites, Checksum} : s \in S
  BY DEF Site
<1> QED
  BY <1>1, Kinds, Counts, SMTT(30) DEF Gate, Fixes, Calls, Targets, Hook, RepeatSites,
     PrefightSites, Builder, CallerSites, BypassSites, Checksum

\* The places by kind.
LEMMA SpanOf ==
  ASSUME NEW g \in {"usa", "jp"}, NEW s \in Site
  PROVE  /\ s[1] = "upload" => Span(g, s) = UploadSpans[s[2]]
         /\ s[1] = "fix" => Span(g, s) = FixSpans(g)[s[2]]
         /\ s[1] \in {"call", "caller"} => Span(g, s) = <<0, 0>>
         /\ s[1] = "target" => Span(g, s) = TargetSpans[s[2]]
         /\ s[1] = "gate" =>
              Span(g, s) = IF g = "usa" THEN <<\hEC6E, 47>> ELSE <<\hECA0, 47>>
         /\ s[1] = "hook" => Span(g, s) = <<\h70069, 3>>
         /\ s[1] = "repeat" => Span(g, s) = RepeatFiller[s[2]]
         /\ s[1] = "prefight" => Span(g, s) = PrefightFiller[s[2]]
         /\ s[1] = "builder" =>
              Span(g, s) = IF g = "usa" THEN <<\hB606, 26>> ELSE <<\hB60B, 26>>
         /\ s[1] = "bypass" => Span(g, s) = BypassSpans(g)[s[2]]
         /\ s[1] = "checksum" => Span(g, s) = <<\h7FDC, 4>>
<1>1. /\ s[1] = "call" => s[2] \in 1 .. 3
      /\ s[1] = "caller" => s[2] \in 1 .. 2
      /\ s[1] \in {"gate", "hook", "builder", "checksum"} => s[2] = 1
  BY SiteKinds, SMT
<1>2. /\ Spans(g)["upload"] = UploadSpans
      /\ Spans(g)["fix"] = FixSpans(g)
      /\ Spans(g)["call"] = << <<0, 0>>, <<0, 0>>, <<0, 0>> >>
      /\ Spans(g)["caller"] = << <<0, 0>>, <<0, 0>> >>
      /\ Spans(g)["target"] = TargetSpans
      /\ Spans(g)["gate"] = << <<IF g = "usa" THEN \hEC6E ELSE \hECA0, 47>> >>
      /\ Spans(g)["hook"] = << <<\h70069, 3>> >>
      /\ Spans(g)["repeat"] = RepeatFiller
      /\ Spans(g)["prefight"] = PrefightFiller
      /\ Spans(g)["builder"] = << <<IF g = "usa" THEN \hB606 ELSE \hB60B, 26>> >>
      /\ Spans(g)["bypass"] = BypassSpans(g)
      /\ Spans(g)["checksum"] = << <<\h7FDC, 4>> >>
  BY SMT DEF Spans
<1>3. Span(g, s) = Spans(g)[s[1]][s[2]]
  BY DEF Span
<1>4. s[1] \in {"call", "caller"} => Span(g, s) = <<0, 0>>
  BY <1>1, <1>2, <1>3, SMT
<1>5. s[1] = "gate" => Span(g, s) = IF g = "usa" THEN <<\hEC6E, 47>> ELSE <<\hECA0, 47>>
  BY <1>1, <1>2, <1>3, SMT
<1>6. s[1] = "builder" => Span(g, s) = IF g = "usa" THEN <<\hB606, 26>> ELSE <<\hB60B, 26>>
  BY <1>1, <1>2, <1>3, SMT
<1>7. /\ s[1] = "hook" => Span(g, s) = <<\h70069, 3>>
      /\ s[1] = "checksum" => Span(g, s) = <<\h7FDC, 4>>
  BY <1>1, <1>2, <1>3, SMT
<1> QED
  BY <1>2, <1>3, <1>4, <1>5, <1>6, <1>7, SMT

\* The upload's runs lie in order, in a stretch of their own.
LEMMA UploadRuns ==
  ASSUME NEW i \in 1 .. 27
  PROVE  /\ UploadSpans[i][1] \in Nat /\ UploadSpans[i][2] \in Nat
         /\ \h70222 <= UploadSpans[i][1]
         /\ UploadSpans[i][1] + UploadSpans[i][2] <= \h72B7C
BY SMTT(30) DEF UploadSpans, BlankWait

LEMMA UploadInOrder ==
  ASSUME NEW i \in 1 .. 27, NEW j \in 1 .. 27, i < j
  PROVE  UploadSpans[i][1] + UploadSpans[i][2] <= UploadSpans[j][1]
BY SMTT(30) DEF UploadSpans, BlankWait

\* The others lie below it or above it.
Below(a, b) == a[1] + a[2] <= b[1]
LEMMA OtherSpans ==
  ASSUME NEW g \in {"usa", "jp"}, NEW s \in Site, s[1] # "upload"
  PROVE  /\ Span(g, s)[1] \in Nat /\ Span(g, s)[2] \in Nat
         /\ \/ Span(g, s)[1] + Span(g, s)[2] <= \h70222
            \/ \h72B7C <= Span(g, s)[1]
BY SpanOf, SiteKinds, SMTT(100)
   DEF FixSpans, TargetSpans, RepeatFiller, PrefightFiller, BypassSpans, ROUTINE

LEMMA OthersApart ==
  ASSUME NEW g \in {"usa", "jp"}, NEW s \in Site, NEW t \in Site, s # t,
         s[1] # "upload", t[1] # "upload"
  PROVE  ~SpansOverlap(Span(g, s), Span(g, t))
BY SpanOf, SiteKinds, SMTT(120)
   DEF FixSpans, TargetSpans, RepeatFiller, PrefightFiller, BypassSpans, ROUTINE, SpansOverlap
\* No two sites of a cartridge share a byte.
LEMMA SitesApart ==
  ASSUME NEW g \in {"usa", "jp"}, NEW s \in Site, NEW t \in Site, s # t
  PROVE  ~SpansOverlap(Span(g, s), Span(g, t))
<1>1. CASE s[1] # "upload" /\ t[1] # "upload"
  BY <1>1, OthersApart
<1>2. CASE s[1] = "upload" /\ t[1] = "upload"
  <2>1. s[2] \in 1 .. 27 /\ t[2] \in 1 .. 27 /\ s[2] # t[2]
    BY <1>2, SiteKinds, SMT
  <2>2. Span(g, s) = UploadSpans[s[2]] /\ Span(g, t) = UploadSpans[t[2]]
    BY <1>2, SpanOf
  <2>3. /\ Span(g, s)[1] \in Nat /\ Span(g, s)[2] \in Nat
        /\ Span(g, t)[1] \in Nat /\ Span(g, t)[2] \in Nat
    <3>1. UploadSpans[s[2]][1] \in Nat /\ UploadSpans[s[2]][2] \in Nat
      BY <2>1, UploadRuns, SMT
    <3>2. UploadSpans[t[2]][1] \in Nat /\ UploadSpans[t[2]][2] \in Nat
      BY <2>1, UploadRuns, SMT
    <3> QED BY <2>2, <3>1, <3>2
  <2>4. s[2] < t[2] \/ t[2] < s[2]
    BY <2>1, SMT
  <2>5. \/ Span(g, s)[1] + Span(g, s)[2] <= Span(g, t)[1]
        \/ Span(g, t)[1] + Span(g, t)[2] <= Span(g, s)[1]
    <3>1. CASE s[2] < t[2]
      <4>1. UploadSpans[s[2]][1] + UploadSpans[s[2]][2] <= UploadSpans[t[2]][1]
        BY <2>1, <3>1, UploadInOrder
      <4> QED BY <2>2, <4>1
    <3>2. CASE t[2] < s[2]
      <4>1. UploadSpans[t[2]][1] + UploadSpans[t[2]][2] <= UploadSpans[s[2]][1]
        BY <2>1, <3>2, UploadInOrder
      <4> QED BY <2>2, <4>1
    <3> QED BY <2>4, <3>1, <3>2
  <2> QED BY <2>3, <2>5, SMT DEF SpansOverlap
<1>3. ASSUME NEW u \in Site, u[1] = "upload", NEW v \in Site, v[1] # "upload"
      PROVE  ~SpansOverlap(Span(g, u), Span(g, v)) /\ ~SpansOverlap(Span(g, v), Span(g, u))
  <2>1. u[2] \in 1 .. 27 /\ Span(g, u) = UploadSpans[u[2]]
    BY <1>3, SiteKinds, SpanOf, SMT
  <2>2. /\ Span(g, u)[1] \in Nat /\ Span(g, u)[2] \in Nat
        /\ \h70222 <= Span(g, u)[1]
        /\ Span(g, u)[1] + Span(g, u)[2] <= \h72B7C
    BY <2>1, UploadRuns, SMT
  <2>3. /\ Span(g, v)[1] \in Nat /\ Span(g, v)[2] \in Nat
        /\ \/ Span(g, v)[1] + Span(g, v)[2] <= \h70222
           \/ \h72B7C <= Span(g, v)[1]
    BY <1>3, OtherSpans, SMT
  <2> QED BY <2>2, <2>3, SMT DEF SpansOverlap
<1> QED BY <1>1, <1>2, <1>3

LEMMA NoOverlaps ==
  ASSUME NEW g \in {"usa", "jp"}
  PROVE  OverlapsOf(g) = {}
<1>1. ASSUME NEW h \in {"usa", "jp"} PROVE Overlaps(h) = {}
  BY SitesApart DEF Overlaps
<1> QED BY <1>1 DEF OverlapsOf, OverlapsUsa, OverlapsJp

\* A write leaves every other site as it was.
LEMMA WriteSites ==
  ASSUME NEW g \in {"usa", "jp"}, NEW x, NEW sites, NEW good
  PROVE  /\ Write(g, x, sites, good).rom =
              [s \in Site |-> IF s \in sites THEN "patched" ELSE x.rom[s]]
         /\ Write(g, x, sites, good).sum = good
         /\ Write(g, x, sites, good).outcome = "wrote"
BY NoOverlaps DEF Write

-----------------------------------------------------------------------------
(* Each patcher: what it refuses and what it writes.                       *)

LEMMA Unchanged ==
  ASSUME NEW x \in Record
  PROVE  x.rom = [s \in Site |-> IF s \in {} THEN "patched" ELSE x.rom[s]]
<1>1. x.rom \in [Site -> Content]
  BY DEF Record, Rom
<1> QED BY <1>1

LEMMA KeepOrRefuse ==
  ASSUME NEW x \in Record
  PROVE  /\ Keep(x).rom = x.rom /\ Keep(x).sum = x.sum /\ Keep(x).outcome = "kept"
         /\ Refuse(x).rom = x.rom /\ Refuse(x).sum = x.sum
         /\ Refuse(x).outcome = "refused"
BY DEF Keep, Refuse, Record

\* Only prefight leaves a checksum that does not hold, and then with its mark.
Shape(p, x, y) ==
  /\ y.outcome = "refused" <=> Refuses(p, x.rom)
  /\ y.rom = After(p, x.rom)
  /\ y.sum \in BOOLEAN
  /\ y.sum \/ (y.rom = x.rom /\ ~x.sum) \/ <<"prefight", 1>> \in Written(p, x.rom)
  /\ y \in Record

LEMMA RefusedShape ==
  ASSUME NEW p, NEW x \in Record, Refuses(p, x.rom)
  PROVE  Shape(p, x, Refuse(x))
<1>1. Refuse(x) \in Record
  BY DEF Refuse, Record
<1>2. Written(p, x.rom) = {}
  BY DEF Written
<1> QED BY <1>1, <1>2, KeepOrRefuse, Unchanged DEF Shape, After, Record

LEMMA KeptShape ==
  ASSUME NEW p, NEW x \in Record, ~Refuses(p, x.rom), Written(p, x.rom) = {}
  PROVE  Shape(p, x, Keep(x))
<1>1. Keep(x) \in Record
  BY DEF Keep, Record
<1> QED BY <1>1, KeepOrRefuse, Unchanged DEF Shape, After, Record

LEMMA WroteShape ==
  ASSUME NEW p, NEW g \in {"usa", "jp"}, NEW x \in Record, NEW sites, NEW good \in BOOLEAN,
         ~Refuses(p, x.rom), Written(p, x.rom) = sites,
         good \/ <<"prefight", 1>> \in sites
  PROVE  Shape(p, x, Write(g, x, sites, good))
<1> DEFINE y == Write(g, x, sites, good)
<1>1. y.rom = After(p, x.rom) /\ y.sum = good /\ y.outcome = "wrote"
  BY WriteSites DEF After
<1>2. y = [rom |-> y.rom, sum |-> y.sum, outcome |-> y.outcome]
  BY DEF Write
<1>3. x.rom \in [Site -> Content]
  BY DEF Record, Rom
<1>4. After(p, x.rom) \in Rom
  BY <1>3 DEF After, Rom, Content
<1>5. y \in Record
  BY <1>1, <1>2, <1>4 DEF Record
<1> QED BY <1>1, <1>5 DEF Shape

LEMMA SpcfastShape ==
  ASSUME NEW g \in {"usa", "jp"}, NEW x \in Record
  PROVE  Shape("spcfast", x, Spcfast(g, x))
BY RefusedShape, KeptShape, WroteShape, Zenon
   DEF Spcfast, Refuses, Written, Holds, All

LEMMA ShinakumaShape ==
  ASSUME NEW g \in {"usa", "jp"}, NEW x \in Record
  PROVE  Shape("shinakuma", x, Shinakuma(g, x))
<1>1. /\ Refuses("shinakuma", x.rom) <=> ~All(x, Gate, "patched") /\ ~All(x, Gate, "stock")
      /\ Written("shinakuma", x.rom) =
           IF Refuses("shinakuma", x.rom) \/ All(x, Gate, "patched") THEN {} ELSE Gate
  BY DEF Refuses, Written, Holds, All
<1> QED BY <1>1, RefusedShape, KeptShape, WroteShape, Zenon DEF Shinakuma

LEMMA GamefixesShape ==
  ASSUME NEW g \in {"usa", "jp"}, NEW x \in Record
  PROVE  Shape("gamefixes", x, Gamefixes(g, x))
<1>1. Refuses("gamefixes", x.rom) <=> SurveyRaises(x) \/ All(x, Entries, "other")
  BY Counts, Zenon DEF Refuses, SurveyRaises, All, Holds
<1>2. Those(x, Entries, "stock") = With(x.rom, Entries, "stock")
  BY DEF Those, With
<1>3. CASE Refuses("gamefixes", x.rom)
  <2>1. Gamefixes(g, x) = Refuse(x)
    BY <1>1, <1>3 DEF Gamefixes
  <2> QED BY <1>3, <2>1, RefusedShape
<1>4. ASSUME ~Refuses("gamefixes", x.rom)
      PROVE  Written("gamefixes", x.rom) = Those(x, Entries, "stock")
  BY <1>2, <1>4 DEF Written
<1>5. CASE ~Refuses("gamefixes", x.rom) /\ Those(x, Entries, "stock") = {}
  <2>1. Gamefixes(g, x) = Keep(x)
    BY <1>1, <1>5 DEF Gamefixes
  <2> QED BY <1>4, <1>5, <2>1, KeptShape
<1>6. CASE ~Refuses("gamefixes", x.rom) /\ Those(x, Entries, "stock") # {}
  <2>1. Gamefixes(g, x) = Write(g, x, Those(x, Entries, "stock"), TRUE)
    BY <1>1, <1>6 DEF Gamefixes
  <2> QED BY <1>4, <1>6, <2>1, WroteShape
<1> QED BY <1>3, <1>5, <1>6

LEMMA RepeatloadShape ==
  ASSUME NEW g \in {"usa", "jp"}, NEW x \in Record
  PROVE  Shape("repeatload", x, Repeatload(g, x))
BY RefusedShape, KeptShape, WroteShape, Zenon
   DEF Repeatload, Refuses, Written, Holds, All

LEMMA PrefightShape ==
  ASSUME NEW g \in {"usa", "jp"}, NEW x \in Record
  PROVE  Shape("prefight", x, Prefight(g, x))
<1> DEFINE r == x.rom
           c == Callers([rom |-> r])
           marked == r[<<"prefight", 1>>] = "patched"
<1>1. Callers(x) = c
  BY DEF Callers, All, Those
<1>2. /\ All(x, Builder, "twice") <=> Holds(r, Builder, "twice")
      /\ All(x, PrefightSites, "stock") <=> Holds(r, PrefightSites, "stock")
  BY DEF All, Holds
<1> HIDE DEF c
<1>3. Refuses("prefight", r) <=>
        \/ All(x, Builder, "twice")
        \/ ~(marked /\ c = {}) /\ (c = {} \/ ~All(x, PrefightSites, "stock"))
  BY <1>2 DEF Refuses, c
<1>4. ~Refuses("prefight", r) =>
        Written("prefight", r) = IF marked /\ c = {} THEN {} ELSE c \union {<<"prefight", 1>>}
  BY DEF Written, c
<1>5. CASE Refuses("prefight", r)
  <2>1. Prefight(g, x) = Refuse(x)
    BY <1>1, <1>3, <1>5 DEF Prefight
  <2> QED BY <1>5, <2>1, RefusedShape
<1>6. CASE ~Refuses("prefight", r) /\ marked /\ c = {}
  <2>1. Prefight(g, x) = Keep(x)
    BY <1>1, <1>3, <1>6 DEF Prefight
  <2> QED BY <1>4, <1>6, <2>1, KeptShape
<1>7. CASE ~Refuses("prefight", r) /\ ~(marked /\ c = {})
  <2>1. Prefight(g, x) = Write(g, x, c \union {<<"prefight", 1>>}, FALSE)
    BY <1>1, <1>3, <1>7 DEF Prefight
  <2> QED BY <1>4, <1>7, <2>1, WroteShape
<1> QED BY <1>5, <1>6, <1>7

LEMMA BypassShape ==
  ASSUME NEW g \in {"usa", "jp"}, NEW x \in Record
  PROVE  Shape("bypass", x, Bypass(g, x))
BY WroteShape DEF Bypass, Refuses, Written

\* What any patcher makes of a ROM.
LEMMA ResultShape ==
  ASSUME NEW p \in Patchers, NEW g \in {"usa", "jp"}, NEW x \in Record
  PROVE  Shape(p, x, Result(p, g, x))
BY SpcfastShape, ShinakumaShape, GamefixesShape, RepeatloadShape, PrefightShape,
   BypassShape DEF Patchers, Result

-----------------------------------------------------------------------------
(* Each patcher keeps to its own sites.                                    *)

LEMMA OwnSites ==
  ASSUME NEW p \in Patchers
  PROVE  Own(p) \subseteq Site
BY DEF Patchers, Own, Site, Entries

LEMMA OwnApart ==
  ASSUME NEW p \in Patchers, NEW q \in Patchers, p # q
  PROVE  Own(p) \intersect Own(q) = {}
BY SMTT(30) DEF Patchers, Own, Entries, Numbered, Upload, Gate, Fixes, Calls, Targets,
   Hook, RepeatSites, PrefightSites, Builder, CallerSites, BypassSites

LEMMA WrittenOwn ==
  ASSUME NEW p \in Patchers, NEW r
  PROVE  Written(p, r) \subseteq Own(p)
<1>1. RepeatPatch \subseteq Hook \union RepeatSites
  BY SMT DEF RepeatPatch, Hook, RepeatSites, Numbered
<1>2. <<"prefight", 1>> \in PrefightSites
  BY SMT DEF PrefightSites, Numbered
<1> QED BY <1>1, <1>2 DEF Patchers, Written, Own, With, Callers, Those

\* ROMs that agree on its sites look the same to it.
LEMMA Looks ==
  ASSUME NEW p \in Patchers, NEW r, NEW u, \A s \in Own(p) : r[s] = u[s]
  PROVE  (Refuses(p, r) <=> Refuses(p, u)) /\ Written(p, r) = Written(p, u)
<1>1. /\ Gate = {<<"gate", 1>>} /\ Hook = {<<"hook", 1>>} /\ Builder = {<<"builder", 1>>}
      /\ StockProbe \subseteq Upload
      /\ RepeatPatch \subseteq Hook \union RepeatSites
      /\ <<"prefight", 1>> \in PrefightSites
      /\ \A i \in 1 .. 3 : <<"call", i>> \in Calls /\ <<"target", i>> \in Targets
  BY Counts, SMT DEF Gate, Hook, Builder, StockProbe, RepeatPatch, RepeatSites, PrefightSites,
     Calls, Targets, Numbered
<1>2. CASE p = "spcfast"
  BY <1>1, <1>2, Zenon DEF Own, Refuses, Written, Holds
<1>3. CASE p = "shinakuma"
  BY <1>1, <1>3 DEF Own, Refuses, Written, Holds
<1>4. CASE p = "gamefixes"
  <2>1. \A s \in Fixes \union Calls \union Targets : r[s] = u[s]
    BY <1>4 DEF Own, Entries
  <2>2. With(r, Entries, "stock") = With(u, Entries, "stock")
    BY <2>1 DEF With, Entries
  <2>3. Refuses(p, r) <=> Refuses(p, u)
    BY <1>1, <1>4, <2>1 DEF Refuses, Holds, Entries
  <2> QED BY <1>4, <2>2, <2>3 DEF Written
<1>5. CASE p = "repeatload"
  BY <1>1, <1>5 DEF Own, Refuses, Written, Holds
<1>6. CASE p = "bypass"
  BY <1>6 DEF Refuses, Written
<1>7. CASE p = "prefight"
  <2>1. \A s \in PrefightSites \union Builder \union CallerSites : r[s] = u[s]
    BY <1>7 DEF Own
  <2>2. Callers([rom |-> r]) = Callers([rom |-> u])
    BY <2>1 DEF Callers, All, Those
  <2>3. Refuses(p, r) <=> Refuses(p, u)
    BY <1>1, <1>7, <2>1, <2>2 DEF Refuses, Holds
  <2> QED BY <1>1, <1>7, <2>1, <2>2, <2>3 DEF Written
<1> QED BY <1>2, <1>3, <1>4, <1>5, <1>6, <1>7 DEF Patchers

\* Run again on what it left, it refuses when it did and writes nothing new.
LEMMA Again ==
  ASSUME NEW p \in Patchers, NEW r \in Rom
  PROVE  /\ Refuses(p, After(p, r)) <=> Refuses(p, r)
         /\ \A s \in Written(p, After(p, r)) : After(p, r)[s] = "patched"
<1> DEFINE a == After(p, r)
<1>1. CASE Written(p, r) = {}
  <2>1. r = [s \in Site |-> r[s]]
    BY DEF Rom
  <2>2. a = r
    BY <1>1, <2>1 DEF After
  <2> QED BY <1>1, <2>2
<1>2. /\ Written(p, r) \subseteq Own(p) /\ Own(p) \subseteq Site
      /\ \A s \in Site : a[s] = IF s \in Written(p, r) THEN "patched" ELSE r[s]
  BY WrittenOwn, OwnSites DEF After
<1> HIDE DEF a
<1>3. ASSUME Written(p, r) # {} PROVE ~Refuses(p, r)
  BY <1>3 DEF Written
<1>4. CASE p = "spcfast" /\ Written(p, r) # {}
  <2>1. Written(p, r) = Upload
    BY <1>3, <1>4 DEF Written
  <2>2. Holds(a, Upload, "patched")
    BY <1>2, <2>1 DEF Holds
  <2>3. ~Refuses(p, a) /\ Written(p, a) = {}
    BY <1>4, <2>2 DEF Refuses, Written
  <2> QED BY <1>3, <1>4, <2>3 DEF a
<1>5. CASE p = "shinakuma" /\ Written(p, r) # {}
  <2>1. Written(p, r) = Gate
    BY <1>3, <1>5 DEF Written
  <2>2. Holds(a, Gate, "patched")
    BY <1>2, <2>1 DEF Holds
  <2>3. ~Refuses(p, a) /\ Written(p, a) = {}
    BY <1>5, <2>2 DEF Refuses, Written
  <2> QED BY <1>3, <1>5, <2>3 DEF a
<1>6. CASE p = "gamefixes" /\ Written(p, r) # {}
  <2>1. Written(p, r) = With(r, Entries, "stock")
    BY <1>3, <1>6 DEF Written
  <2>2. \A s \in Entries \union Targets : a[s] = IF s \in Written(p, r) THEN "patched" ELSE r[s]
    BY <1>2, <1>6 DEF Own
  <2>3. With(a, Entries, "stock") = {}
    BY <2>1, <2>2 DEF With
  <2>4. \A i \in 1 .. 3 : <<"call", i>> \in Entries
    BY SMT DEF Entries, Calls, Numbered
  <2>5. \A i \in 1 .. 3 : a[<<"call", i>>] # "stock"
    BY <2>3, <2>4 DEF With
  <2>6. \A s \in Fixes : a[s] # "twice"
    BY <1>3, <1>6, <2>2 DEF Refuses, Entries
  <2>7. ~Holds(a, Entries, "other")
    <3>1. PICK s \in Entries : s \in Written(p, r)
      BY <1>6, <2>1 DEF With
    <3>2. a[s] = "patched"
      BY <2>2, <3>1
    <3> QED BY <3>1, <3>2 DEF Holds
  <2>8. ~Refuses(p, a)
    BY <1>6, <2>5, <2>6, <2>7 DEF Refuses
  <2>9. Written(p, a) = {}
    BY <1>6, <2>3, <2>8 DEF Written
  <2> QED BY <1>3, <1>6, <2>8, <2>9 DEF a
<1>7. CASE p = "repeatload" /\ Written(p, r) # {}
  <2>1. Written(p, r) = RepeatPatch
    BY <1>3, <1>7 DEF Written
  <2>2. Holds(a, RepeatPatch, "patched")
    BY <1>2, <2>1 DEF Holds
  <2>3. ~Refuses(p, a) /\ Written(p, a) = {}
    BY <1>7, <2>2 DEF Refuses, Written
  <2> QED BY <1>3, <1>7, <2>3 DEF a
<1>8. CASE p = "bypass"
  <2>1. Written(p, r) = BypassSites /\ Written(p, a) = BypassSites
    BY <1>8 DEF Written, Refuses
  <2>2. \A s \in BypassSites : a[s] = "patched"
    BY <1>2, <2>1
  <2> QED BY <1>8, <2>1, <2>2 DEF a, Refuses
<1>9. CASE p = "prefight" /\ Written(p, r) # {}
  <2> DEFINE c == Callers([rom |-> r])
             mark == <<"prefight", 1>>
  <2>1. Written(p, r) = c \union {mark}
    BY <1>3, <1>9 DEF Written
  <2>2. \A s \in PrefightSites \union Builder \union CallerSites :
          a[s] = IF s \in Written(p, r) THEN "patched" ELSE r[s]
    BY <1>2, <1>9 DEF Own
  <2>3. /\ mark \in PrefightSites /\ mark \notin Builder /\ Builder = {<<"builder", 1>>}
        /\ CallerSites \intersect Builder = {}
    BY SMT DEF PrefightSites, Builder, CallerSites, Numbered
  <2>4. c \subseteq CallerSites
    BY DEF Callers, Those
  <2>5. \A s \in Builder : a[s] = r[s]
    BY <2>1, <2>2, <2>3, <2>4
  <2>6. a[mark] = "patched"
    BY <2>1, <2>2, <2>3
  <2>7. Callers([rom |-> a]) = {}
    <3>1. CASE Holds(r, Builder, "stock")
      <4>1. c = With(r, CallerSites, "stock")
        BY <3>1 DEF Callers, All, Those, Holds, With
      <4>2. With(a, CallerSites, "stock") = {}
        BY <2>1, <2>2, <4>1 DEF With
      <4> QED BY <4>2 DEF Callers, Those, With
    <3>2. CASE ~Holds(r, Builder, "stock")
      <4>1. ~Holds(a, Builder, "stock")
        BY <2>5, <3>2 DEF Holds
      <4> QED BY <4>1 DEF Callers, All, Holds
    <3> QED BY <3>1, <3>2
  <2>8. ~Holds(a, Builder, "twice")
    BY <1>3, <1>9, <2>5 DEF Refuses, Holds
  <2>9. ~Refuses(p, a) /\ Written(p, a) = {}
    BY <1>9, <2>6, <2>7, <2>8 DEF Refuses, Written
  <2> QED BY <1>3, <1>9, <2>9 DEF a
<1> QED BY <1>1, <1>4, <1>5, <1>6, <1>7, <1>8, <1>9 DEF a, Patchers

\* The patchers that look first write only over what they look for.
LEMMA WrittenStock ==
  ASSUME NEW p \in Patchers \ {"spcfast", "bypass"}, NEW r, NEW s \in Written(p, r)
  PROVE  r[s] = "stock"
<1>1. CASE p = "shinakuma"
  BY <1>1 DEF Refuses, Written, Holds
<1>2. CASE p = "gamefixes"
  BY <1>2 DEF Written, With
<1>3. CASE p = "repeatload"
  <2>1. RepeatPatch \subseteq Hook \union RepeatSites
    BY SMT DEF RepeatPatch, Hook, RepeatSites, Numbered
  <2> QED BY <1>3, <2>1 DEF Refuses, Written, Holds
<1>4. CASE p = "prefight"
  <2>1. <<"prefight", 1>> \in PrefightSites
    BY SMT DEF PrefightSites, Numbered
  <2> QED BY <1>4, <2>1 DEF Refuses, Written, Holds, Callers, Those
<1> QED BY <1>1, <1>2, <1>3, <1>4 DEF Patchers

-----------------------------------------------------------------------------
(* A ROM that some of the patchers have been through.                      *)

\* The ROM after a set of patchers, each having seen the one first given.
Through(r, T) ==
  [s \in Site |-> IF \E q \in T : s \in Written(q, r) THEN "patched" ELSE r[s]]

\* One more, or one of them again.
LEMMA OneMore ==
  ASSUME NEW r \in Rom, NEW T \in SUBSET Patchers, NEW p \in Patchers
  PROVE  /\ Refuses(p, Through(r, T)) <=> Refuses(p, r)
         /\ After(p, Through(r, T)) = Through(r, T \union {p})
<1> DEFINE t == Through(r, T)
<1>1. \A s \in Own(p), q \in T : s \in Written(q, r) => q = p
  BY WrittenOwn, OwnApart
<1>2. \A s \in Own(p) : t[s] = IF p \in T /\ s \in Written(p, r) THEN "patched" ELSE r[s]
  BY <1>1, OwnSites DEF Through
<1>3. CASE p \in T
  <2>1. \A s \in Own(p) : t[s] = After(p, r)[s]
    BY <1>2, <1>3, OwnSites DEF After
  <2>2. /\ Refuses(p, t) <=> Refuses(p, r)
        /\ Written(p, t) = Written(p, After(p, r))
    BY <2>1, Looks, Again
  <2>3. \A s \in Written(p, t) : t[s] = "patched"
    BY <2>1, <2>2, Again, WrittenOwn
  <2>4. After(p, t) = [s \in Site |-> t[s]]
    BY <2>3 DEF After
  <2>5. T \union {p} = T
    BY <1>3
  <2> QED BY <2>2, <2>4, <2>5 DEF Through
<1>4. CASE p \notin T
  <2>1. \A s \in Own(p) : t[s] = r[s]
    BY <1>2, <1>4
  <2>2. (Refuses(p, t) <=> Refuses(p, r)) /\ Written(p, t) = Written(p, r)
    BY <2>1, Looks
  <2>3. After(p, t) = Through(r, T \union {p})
    BY <2>2 DEF After, Through
  <2> QED BY <2>2, <2>3
<1> QED BY <1>3, <1>4

\* The same of what a patcher makes of the ROM.
LEMMA ResultThrough ==
  ASSUME NEW g \in {"usa", "jp"}, NEW r \in Rom, NEW T \in SUBSET Patchers,
         NEW p \in Patchers, NEW x \in Record, x.rom = Through(r, T)
  PROVE  /\ Result(p, g, x) \in Record
         /\ Result(p, g, x).rom = Through(r, T \union {p})
         /\ Result(p, g, x).outcome = "refused" <=> Refuses(p, r)
BY ResultShape, OneMore DEF Shape

\* Nothing run yet.
LEMMA ThroughNone ==
  ASSUME NEW r \in Rom
  PROVE  Through(r, {}) = r
BY DEF Through, Rom

LEMMA GivenRecord ==
  ASSUME NEW r \in Rom, NEW s \in BOOLEAN
  PROVE  Given(r, s) \in Record /\ Given(r, s).rom = r /\ Given(r, s).sum = s
BY DEF Given, Record

\* pack.build puts the ROM through all of them.
LEMMA PackedThrough ==
  ASSUME NEW g \in {"usa", "jp"}, NEW r \in Rom
  PROVE  Packed(g, r).rom = Through(r, Patchers)
<1> DEFINE x0 == Given(r, TRUE)
           x1 == Result("spcfast", g, x0)
           x2 == Result("shinakuma", g, x1)
           x3 == Result("gamefixes", g, x2)
           x4 == Result("repeatload", g, x3)
           x5 == Result("bypass", g, x4)
           x6 == Result("prefight", g, x5)
<1>1. Packed(g, r) = x6
  <2>1. \A x : /\ Spcfast(g, x) = Result("spcfast", g, x)
               /\ Shinakuma(g, x) = Result("shinakuma", g, x)
               /\ Gamefixes(g, x) = Result("gamefixes", g, x)
               /\ Repeatload(g, x) = Result("repeatload", g, x)
               /\ Bypass(g, x) = Result("bypass", g, x)
               /\ Prefight(g, x) = Result("prefight", g, x)
    BY DEF Result
  <2>2. /\ x1 = Spcfast(g, x0) /\ x2 = Shinakuma(g, x1) /\ x3 = Gamefixes(g, x2)
        /\ x4 = Repeatload(g, x3) /\ x5 = Bypass(g, x4) /\ x6 = Prefight(g, x5)
    BY <2>1
  <2>3. Packed(g, r) =
          Prefight(g, Bypass(g, Repeatload(g, Gamefixes(g, Shinakuma(g, Spcfast(g, x0))))))
    BY DEF Packed
  <2> HIDE DEF x1, x2, x3, x4, x5, x6
  <2> QED BY <2>2, <2>3
<1> DEFINE Reached(x, T) == T \in SUBSET Patchers /\ x \in Record /\ x.rom = Through(r, T)
<1>2. ASSUME NEW p \in Patchers, NEW x, NEW T, Reached(x, T)
      PROVE  Reached(Result(p, g, x), T \union {p})
  BY <1>2, ResultThrough
<1>3. Reached(x0, {})
  BY GivenRecord, ThroughNone
<1> HIDE DEF x0, x1, x2, x3, x4, x5, x6, Reached
<1>4. Reached(x1, Patchers \ {"shinakuma", "gamefixes", "repeatload", "bypass", "prefight"})
  <2>1. /\ "spcfast" \in Patchers
        /\ ({}) \union {"spcfast"} =
           Patchers \ {"shinakuma", "gamefixes", "repeatload", "bypass", "prefight"}
    BY DEF Patchers
  <2>2. Reached(Result("spcfast", g, x0),
                ({}) \union {"spcfast"})
    BY <1>3, <1>2, <2>1, Zenon
  <2> QED BY <2>1, <2>2 DEF x1
<1>5. Reached(x2, Patchers \ {"gamefixes", "repeatload", "bypass", "prefight"})
  <2>1. /\ "shinakuma" \in Patchers
        /\ (Patchers \ {"shinakuma", "gamefixes", "repeatload", "bypass", "prefight"})
             \union {"shinakuma"} =
           Patchers \ {"gamefixes", "repeatload", "bypass", "prefight"}
    BY DEF Patchers
  <2>2. Reached(Result("shinakuma", g, x1),
                (Patchers \ {"shinakuma", "gamefixes", "repeatload", "bypass", "prefight"})
                  \union {"shinakuma"})
    BY <1>4, <1>2, <2>1, Zenon
  <2> QED BY <2>1, <2>2 DEF x2
<1>6. Reached(x3, Patchers \ {"repeatload", "bypass", "prefight"})
  <2>1. /\ "gamefixes" \in Patchers
        /\ (Patchers \ {"gamefixes", "repeatload", "bypass", "prefight"}) \union {"gamefixes"} =
           Patchers \ {"repeatload", "bypass", "prefight"}
    BY DEF Patchers
  <2>2. Reached(Result("gamefixes", g, x2),
                (Patchers \ {"gamefixes", "repeatload", "bypass", "prefight"}) \union {"gamefixes"})
    BY <1>5, <1>2, <2>1, Zenon
  <2> QED BY <2>1, <2>2 DEF x3
<1>7. Reached(x4, Patchers \ {"bypass", "prefight"})
  <2>1. /\ "repeatload" \in Patchers
        /\ (Patchers \ {"repeatload", "bypass", "prefight"}) \union {"repeatload"} =
           Patchers \ {"bypass", "prefight"}
    BY DEF Patchers
  <2>2. Reached(Result("repeatload", g, x3),
                (Patchers \ {"repeatload", "bypass", "prefight"}) \union {"repeatload"})
    BY <1>6, <1>2, <2>1, Zenon
  <2> QED BY <2>1, <2>2 DEF x4
<1>8. Reached(x5, Patchers \ {"prefight"})
  <2>1. /\ "bypass" \in Patchers
        /\ (Patchers \ {"bypass", "prefight"}) \union {"bypass"} =
           Patchers \ {"prefight"}
    BY DEF Patchers
  <2>2. Reached(Result("bypass", g, x4),
                (Patchers \ {"bypass", "prefight"}) \union {"bypass"})
    BY <1>7, <1>2, <2>1, Zenon
  <2> QED BY <2>1, <2>2 DEF x5
<1>9. Reached(x6, Patchers)
  <2>1. /\ "prefight" \in Patchers
        /\ (Patchers \ {"prefight"}) \union {"prefight"} =
           Patchers
    BY DEF Patchers
  <2>2. Reached(Result("prefight", g, x5),
                (Patchers \ {"prefight"}) \union {"prefight"})
    BY <1>8, <1>2, <2>1, Zenon
  <2> QED BY <2>1, <2>2 DEF x6
<1> QED BY <1>1, <1>9 DEF Reached

-----------------------------------------------------------------------------
(* The invariant.                                                          *)

Mark == <<"prefight", 1>>

IInv ==
  /\ region \in {"usa", "jp"} /\ start \in Rom /\ sum \in BOOLEAN
  /\ tried \in SUBSET Patchers
  /\ rom = Through(start, tried)
  /\ refused = {p \in tried : Refuses(p, start)}
  /\ sum \/ rom[Mark] = "patched"

LEMMA InitInv == Init => IInv
<1> SUFFICES ASSUME Init PROVE IInv
  OBVIOUS
<1>1. PICK d \in Deviations :
        start = [s \in Site |-> IF s \in DOMAIN d THEN d[s] ELSE Retail(region)[s]]
  BY DEF Init
<1>2. region \in {"usa", "jp"}
  BY RegionsAssumption DEF Init
<1>3. \A s \in Site : Retail(region)[s] \in Content
  BY DEF Retail, Content
<1>4. \A s \in DOMAIN d : d[s] \in Content
  BY DeviationsAssumption
<1>5. start \in Rom
  BY <1>1, <1>3, <1>4 DEF Rom
<1> QED BY <1>2, <1>5, ThroughNone DEF Init, IInv

\* A ROM that a set of patchers has been through is a ROM.
LEMMA ThroughRom ==
  ASSUME NEW r \in Rom, NEW T
  PROVE  Through(r, T) \in Rom
BY DEF Through, Rom, Content

LEMMA RunInv ==
  ASSUME IInv, NEW p \in Patchers, Run(p)
  PROVE  IInv'
<1> DEFINE x == Given(rom, sum)
           y == Result(p, region, x)
<1>1. x \in Record /\ x.rom = Through(start, tried) /\ x.sum = sum
  BY ThroughRom, GivenRecord DEF IInv
<1>2. /\ region' = region /\ start' = start /\ rom' = y.rom /\ sum' = y.sum
      /\ tried' = tried \union {p}
      /\ refused' = IF y.outcome = "refused" THEN refused \union {p} ELSE refused \ {p}
  BY DEF Run
<1>3. Shape(p, x, y)
  BY <1>1, ResultShape DEF IInv
<1> HIDE DEF x
<1>4. y.rom = Through(start, tried \union {p}) /\ (y.outcome = "refused" <=> Refuses(p, start))
  <2>1. region \in {"usa", "jp"} /\ start \in Rom /\ tried \in SUBSET Patchers
    BY DEF IInv
  <2>2. /\ Refuses(p, Through(start, tried)) <=> Refuses(p, start)
        /\ After(p, Through(start, tried)) = Through(start, tried \union {p})
    BY <2>1, OneMore
  <2> QED BY <1>1, <1>3, <2>2 DEF Shape
<1> HIDE DEF y
<1>5. refused' = {q \in tried' : Refuses(q, start')}
  BY <1>2, <1>4 DEF IInv
<1>6. sum' \/ rom'[Mark] = "patched"
  <2>1. y.sum \/ (y.rom = x.rom /\ ~x.sum) \/ Mark \in Written(p, x.rom)
    BY <1>3 DEF Shape, Mark
  <2>2. CASE y.rom = x.rom /\ ~x.sum
    BY <1>1, <1>2, <2>2 DEF IInv
  <2>3. CASE Mark \in Written(p, x.rom)
    <3>1. Mark \in Site
      BY <2>3, WrittenOwn, OwnSites
    <3> QED BY <1>2, <1>3, <2>3, <3>1 DEF Shape, After
  <2> QED BY <1>2, <2>1, <2>2, <2>3
<1> QED BY <1>2, <1>3, <1>4, <1>5, <1>6 DEF IInv, Shape

LEMMA NextInv == IInv /\ [Next]_vars => IInv'
<1> SUFFICES ASSUME IInv, [Next]_vars PROVE IInv'
  OBVIOUS
<1>1. ASSUME Next PROVE \E p \in Patchers : Run(p)
  BY <1>1 DEF Next, RunSpcfast, RunShinakuma, RunGamefixes, RunRepeatload, RunPrefight,
     RunBypass, Patchers
<1>2. CASE Next
  BY <1>1, <1>2, RunInv
<1>3. CASE UNCHANGED vars
  BY <1>3 DEF vars, IInv
<1> QED BY <1>2, <1>3

LEMMA InvHolds == Spec => []IInv
BY InitInv, NextInv, PTL DEF Spec

\* Whatever order the patchers run in, and however often, the ROM that has
\* been through all of them is the one pack.build makes, from any ROM given
\* first; and its checksum is right unless prefight has written to it.
THEOREM PatchersCommute == Spec => []AnyOrderSameRom
<1>1. IInv => AnyOrderSameRom
  BY PackedThrough DEF IInv, AnyOrderSameRom, Mark
<1> QED BY <1>1, InvHolds, PTL

\* A patcher refuses a ROM for what it was when first given, never for what
\* the others, or an earlier run of its own, have left in it.
THEOREM RefusalsAreTheRoms == Spec => []RefusalIsTheRoms
<1>1. ASSUME IInv, NEW p \in Patchers
      PROVE  Result(p, region, Given(start, TRUE)).outcome = "refused" <=> Refuses(p, start)
  <2>1. region \in {"usa", "jp"} /\ start \in Rom
    BY <1>1 DEF IInv
  <2>2. Given(start, TRUE) \in Record /\ Given(start, TRUE).rom = start
    BY <2>1, GivenRecord
  <2>3. Shape(p, Given(start, TRUE), Result(p, region, Given(start, TRUE)))
    BY <2>1, <2>2, ResultShape
  <2> QED BY <2>2, <2>3 DEF Shape
<1>2. IInv => RefusalIsTheRoms
  BY <1>1 DEF IInv, RefusalIsTheRoms
<1> QED BY <1>2, InvHolds, PTL

\* The patchers that look before they write leave bytes they do not know alone.
THEOREM UnknownBytesAreSpared == Spec => UnknownBytesSpared
<1>1. ASSUME IInv, NEW p \in Patchers \ {"spcfast", "bypass"}, Run(p), NEW s \in Site,
             rom[s] \in {"other", "twice"}
      PROVE  rom'[s] = rom[s]
  <2>1. Given(rom, sum) \in Record /\ Given(rom, sum).rom = rom
    BY <1>1, ThroughRom, GivenRecord DEF IInv
  <2>2. rom' = After(p, rom)
    BY <1>1, <2>1, ResultShape DEF IInv, Run, Shape
  <2>3. s \notin Written(p, rom)
    BY <1>1, WrittenStock
  <2> QED BY <2>2, <2>3 DEF After
<1>2. IInv => \A p \in Patchers \ {"spcfast", "bypass"} :
                Run(p) => \A s \in Site : rom[s] \in {"other", "twice"} => rom'[s] = rom[s]
  BY <1>1
<1> QED BY <1>2, InvHolds, PTL DEF UnknownBytesSpared
=============================================================================
