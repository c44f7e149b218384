# Formal models of the SFA2 / SFZ2 no-chip project

The repository turns the S-DD1 cartridges of Street Fighter Alpha 2 (USA) and Zero 2 (Japan) into
images without the chip, and makes the game's loads faster on the way. This directory holds TLA+
models of the parts of it that are hard to test, TLC configurations that check them on small
instances, and proofs of what matters most for every instance.

Contents: [the system](#the-system), [the modules](#the-modules), [the runs](#the-runs),
[the proofs](#the-proofs), [findings](#findings),
[where the comments and the code part](#where-the-comments-and-the-code-part), [what is not modelled](#what-is-not-modelled),
[plan](#plan).

## The system

Two kinds of code meet here. Assembly patches run on the console, where two processors with their own
clocks, an interrupt and a reset button make the interleavings. Python tools run on the build machine,
one after another, and their hard cases are layouts, limits and half-finished runs.

### On the console

**Fast sample upload** (`asm/spc-fast-upload.asm`, frozen as bytes in `spcfast.py`). The 65816 sends
the blocks of a sample list to the SPC700, the sound processor. *State*: four latched one-byte ports
towards the SPC700 and one back; on the 65816 the list walk (block, source offset, handshakes left,
running index); on the SPC700 the index, the kind of the block, three stream pointers, sound RAM.
*Operations*: a header (kind, destination, a counter that jumps), then data handshakes whose counter
steps by one. Kind 1 carries one byte per handshake, the stock protocol. Kind 3 splits a block into
three consecutive thirds and carries a byte of each per handshake; it opens with a handshake that
carries the number of handshakes N. *Hard*: every port access of one side falls anywhere between two
of the other; the echo must come late enough that no port is overwritten unread and the stores that
follow it must still land before anyone relies on them; an 8-bit index wraps inside blocks; lengths
need not divide by three; a wrong echo or kind deadlocks both sides. *Correct means*: every block
whole and in place, no byte outside the blocks for longer than the next block takes, both sides agree
on the kind, the list walk goes on from the right record, the upload ends.

**Division by three** (`cpu_third` in the same file). A series of quarters and a correction loop.
*Correct means*: the exact third of every 16-bit value, no overflow, a bounded loop.

**Private stack of the transfer** (same file). The sender keeps six words on a stack of its own at
`$1FE0`, because the caller's belongs to a cooperative task whose neighbours are thirty bytes away.
*State*: the stack pointer, both stacks, registers. *Hard*: an interrupt at any instruction lands on
whichever stack is current; operands are found by counting words pushed; one word off and `rts` goes
somewhere else. *Correct means*: every read finds the word parked for it, the caller's stack comes back
as it was, nobody else's bytes change.

**Repeated load skip** (`asm/repeat-load.asm`, installed by `repeatload.py`). A marker in work RAM,
two magic bytes and a list id, names the base sample list sound RAM holds; when the same list is asked
for again its id on the engine's stack is zeroed, which steers the engine into the path that uploads
the groups alone. *State*: marker, the id, the engine's bump allocator and the place it saves it in,
sound RAM. *Hard*: the marker is a cache of sound RAM that survives resets; it is written before the
upload it announces; the routine reads it byte by byte while other code may write work RAM. *Correct
means*: a skipped list is resident, a resident list is skipped, groups never overwrite the list.

**DMA translation** (`asm/sdd1-translate.asm`, called from `asm/sdd1-bypass*.asm`; `patchrun.py` runs
it in emulation for the tests). Looks the stream a DMA is about to read up in the key table and makes
the channel an ordinary copy from where the stream now lies. *State*: registers and flags, the caller's
stack, the DMA channels. *Hard*: the scan has no bound and trusts the table; the channel's offset is
read back from the stack at a distance that counts the bytes pushed since; two forms, one for a fixed
channel and one for a channel in Y. *Correct means*: the right channel copies from the right place,
and the caller notices nothing.

**Pre-fight table** (`asm/prefight-table.asm`, installed by `prefight.py`). Moves a finished table to
work RAM by channel zero, which the frame interrupt drives too. *Hard*: an interrupt between two of the
stores that program the channel; callers in any register width, with interrupts on or off.

**Shin Akuma, bypass sites** (`asm/shin-akuma*.asm`, `asm/sdd1-bypass*.asm`). Patches to game code that
is not in the repository.

### On the build machine

**Stream key table** (`sdd1tables.py`). Each stream is keyed by the window bank and 16-bit address the
game programs; `allocate` chooses its slot by linear probing and then repairs scans that would stop
at another stream's slot; `verify` checks; `build` emits four byte tables. *Correct means*: table and
placement agree, every scan ends and stops at its own stream, the repair ends.

**Image layout** (`rombuild.py`, `emu/windowed_lorom.cpp`). Free regions are data banks less what
payloads occupy, plus the compressed spans no longer needed; `allocate` places every decompressed
stream by first fit; `build` writes ROM copies, tables, streams and payloads into a 12 MB image whose
banks are split over two planes of the file. *Hard*: read-ahead, spans cut at bank ends, one file byte
seen at several addresses, later writes over earlier ones. *Correct means*: what is free is what
nothing needs, every stream reads back, the game's own view is unchanged, a refusal is honest.

**Gates and packing** (`gate.py`, `mapcheck.py`, `pack.py`, `build.py`). `pack.py` checks everything, then
builds one region after another and writes a manifest last. *State*: the tables, dumps and version a
process read, what the assembler left under `asm/`, `dist/`, the manifest. *Hard*: files read more than
once and edited in between, failures and kills between any two steps, runs that overlap and share
`asm/`, for one region a single file of it. *Correct means*: what passed the gate serves the game, a
refusal writes nothing, no image lacks a patch, the manifest is of the files beside it; and where the
code does not see to that, exactly where. `tools/rebuild_all.py` takes the same steps for the variants
validation runs, without gate or manifest.

**Patchers** (`spcfast.py`, `shinakuma.py`, `gamefixes.py`, `repeatload.py`, `prefight.py`, and the
bypass the assembler applies). Each surveys the bytes it expects, refuses a foreign ROM and is a no-op
on a patched one. *Hard*: neighbouring sites, any order, ROMs that are not retail.

**Stream tables** (`tools/harvest_jp.py`, `tools/converge_jp.py`, `tools/tour_oracle.py`; data in
`jpstreams.py`, `usastreams.py`, `requests_jp.py`). The game is run and the requests the table misses
are added until a run misses nothing. *State*: the table file, the working table, the round. *Hard*:
`harvest` trims neighbours to make room, one of them may be asked for again; aborts between rounds;
three tools that read each other's file. *Correct means*: what a tour saw stays covered, "converged" is
true, no entry is shortened.

**Stream map** (`sdd1map.py`, `sdd1find.py`, `sdd1sites.py`), **decompressor** (`sdd1ref.py`, `ref/`),
**measurement and validation** (the rest of `tools/`, `emu/`, `analyse.py`, `hardware.py`, `version.py`,
`scripts/`). Searches in ROM bytes, harnesses and reports.

### How the parts meet

The console parts meet through memory: the key table and the image are what the build leaves for the
translate routine; the repeated load skip decides whether the sample upload runs at all; the upload's
two halves meet at four ports and its sender's stack lies among the game's variables. On the build
machine the stream tables feed the image layout, which feeds the key table; the gates look at the
tables, not at the image; the patchers run over the same ROM bytes one after another.


## The modules

| module | models | state in the code |
|---|---|---|
| `SpcUpload` | fast sample upload, both processors | `port`, `echo`: `$2140`-`$2143` / `$F4`-`$F7`; `blk`, `y`, `x`, `idx`, `n`, `ctr`: the list walk, Y, X, the running index, N at `$07,s`, the last counter in A; `sy`, `kind`, `dest`, `two`, `three`, `ra`, `rx`: Y, `!KIND`, `!DEST_LOW/PAGE`, `!STREAM_TWO`, `!STREAM_THREE`, A, X |
| `SampleTransfer` | what an upload promises, without ports | `done`, `image` |
| `CpuThird` | `cpu_third` | `value` and `quo`: the two words it pushes; `term`: A; `left`: X |
| `TransferStack` | the stacks of `cpu_send_triples` and `cpu_third` | `a`, `x`, `y`, `s`; `mem`: the bytes of both stacks and their neighbours; `posted`: N on the ports |
| `RepeatLoad` | `repeat_load` and the engine around it | `marker`: the three bytes of the marker; `id`: `3,s`; `kept`: `1,s`; `saved`: `$7E:2000`; `aram`: who each cell of sound RAM belongs to |
| `KeyTable` | `sdd1tables.allocate`, step by step | `table`, `placed`, `broken`; `rounds`: the repair loop's counter |
| `StreamKeys` | `source_key`, `allocate`'s first pass, `scan_distance`, as operators | |
| `Translate` | `sdd1-translate.asm` over the table `KeyTable` has built | `r`: registers and flags; `stack`; `dma`: source and fixed bit of each channel |
| `DmaLookup` | what a lookup promises: one step | `dma`, `caller`, `asked` |
| `RegionAllocator` | `rombuild.allocate` | `free`, `cursor`, `placed` |
| `RomImage` | `rombuild.build`, the windowed map, `verify_image.py` | `entries`, `extra`: its inputs; `slots`: the key table; `image`: the file |
| `Gate` | `gate.py`'s and `mapcheck.py`'s tests, as operators | |
| `ShippedTables` | `gate.main` on the repository's own tables | `held`: the placement so far; `findings`, `exit` |
| `JpStreams`, `UsaStreams`, `JpRequests` | `jpstreams.py`, `usastreams.py`, `requests_jp.py` as data | |
| `PackPipeline` | `pack.py`, `build.py` | `tables`, `dumps`, `release`: the files read; `asm`, `dist`, `manifest`: those written; `run[p]`: a process, with the copies it loaded; `met`: a history, the regions two runs worked on at once |
| `PatchChain` | the six patchers | `rom`: what each site holds; `sum`: whether the checksum is right |
| `PrefightDma` | `asm/prefight-table.asm` and the frame interrupt | `flags`, `pushed`; `dma`: the registers of channel zero |
| `StreamTable` | `harvest_jp.py`, `converge_jp.py`, `tour_oracle.py` | `shipped`, `file`, `table`: `jpstreams.STREAMS`, `build/harvest/table.txt`, the working table; `round`, `runs`, `wanted`; `heard`, `toured`, `refused`: histories |
| `MC*` | the inputs TLC enumerates | |
| `*_proofs` | theorems about the module named; `Routines_proofs` about `CpuThird`, `PrefightDma` and `RepeatLoad`; `RomImage_proofs` also about `RegionAllocator` | |

Composition: `Translate` EXTENDS `KeyTable` and runs on the table it leaves; `RomImage` EXTENDS
`RegionAllocator` and takes its steps between planning and writing; `Gate` is used by `PackPipeline` and
`ShippedTables`, and uses `StreamKeys`, which `Translate` and `RomImage` use too. Refinement: `SpcUpload`
implements `SampleTransfer`, `Translate` implements `DmaLookup`, and `TransferStack` implements
`CpuThird`.

A definition whose name starts with `Mut` is a variant of the one after it with an ordinary bug in it,
which TLC finds with the property it belongs to. They take no part in the specifications.

### `SpcUpload`

One action per port access. A port is one latched byte and an access of it is atomic (the comment at
lines 60-62 says why a second read cannot differ), so accesses are the only points where the two sides
can see each other; work that touches no port joins the access next to it, except that the stores
following an echo are steps of their own (`ByteStore`, `StoreRest`), because there the 65816 really
does run on. A poll that finds nothing new changes nothing and is a stuttering step.

A byte of data is named by the bank offset it was read from, so sound RAM holds names, and a byte in
the wrong place is always told from the right one. Both address spaces have `M * M` bytes: `M` plays
the part of 256, and an index wraps after `M` handshakes. The counter of a header moves by a jump in
`Jumps` and skips zero; the stock code's exact jump is not in the repository, and the assumption on
`Jumps` is what the receiver's `bpl` needs.

The stock header, one-byte loop and end-of-block path are not in the repository's source. They are
modelled from what the patch's comments and contracts say of them and marked external in the map.

### `TransferStack`

Memory is bytes at the real addresses: the private stack under `$1FE0`, the variables at `$1FC6`, the
caller's stack with just the room the stock path needs, and the next task's saved state below it. An
instruction that touches memory is a step, with the register instructions next to it; the loop of
handshakes is cut to the fetches that read parked words. An interrupt may come at any step, pushes its
frame on whichever stack is current and leaves what it pushed behind. A read finds whatever bytes are
there: a parked word lost to an interrupt would be read as junk, not refused.

### `RepeatLoad`

The routine's loads and stores of the marker are steps of their own, since a reset keeps what they
leave and a stray write may fall between them. The engine is external: it restarts a bump allocator,
uploads the list cell by cell, saves where the allocator stands and uploads the groups; called with id
zero it restores the allocator instead. A cell of `aram` holds the id whose bytes are there. Each
console has one of `Environments`: whether it is ever reset, and which bytes of the marker something
else writes over. An allocator restored before it was ever saved is any value.

### `KeyTable` and `StreamKeys`

`Place` is one turn of the placing loop, in the order `sorted` gives (by address, ties in the order
given). A repair round starts by listing the broken streams (`StartRound`), then repairs them one by
one against the table as it then is (`Repair`), as the code does; the list's order is left open. The
tests and the caller never give two streams the same key: sources are unique and `source_key` is one
to one. `StreamKeys` states the first pass as a function of the list (recursive in the number of streams
placed), and whether it leaves every scan unambiguous, which by `RepairsAreIdle` decides whether
`allocate` returns or raises; `AllocateIsTheGates` says that the two placements are one.

### `Translate`

Bytes have `RADIX` values and words `RADIX * RADIX`, so that what is pushed, pulled and read relative to
the stack is a byte, in the order the processor pushes it. `EnterMacro` and `EnterChy` are the two forms
up to their scans; `ScanSlot` is one turn of the loop; `Found`, `FoundChy`, `WriteChy` and `Leave` are
the rest. The DMA registers written are those the routine writes; which transfer the game then starts
is its own affair. A call comes with any stream of the image, any channel, and 8- or 16-bit registers.

### `RegionAllocator` and `RomImage`

`RegionAllocator` has one action per stream placed; the regions are any list `merge` can return. `RomImage`
computes that list from streams and payloads (`Plan`), runs the allocator, keys the streams, and then
writes one thing per step in the order of `build`, each write through the map of `windowed_lorom.cpp`,
so that two addresses of one byte really are one byte. A byte of the file is named by what was written
there. The compressed end of a stream is an input, with the decoder's read-ahead already counted in it,
as `compressed_end` returns it.
`Resolve` reads the finished image as `verify_image.py` does, at most `SCAN_BUDGET` slots past the first:
`EveryStreamReadsBack` says which streams such a lookup must find. That none is further off is not for
`build` to see to but for the gate, in `PackPipeline`.

### `Gate`, `ShippedTables`, `PackPipeline`

`Gate` translates each of the gate's tests once. `Sorted` gives each entry the place that as many
entries stand no later than it, which a proof can expand; `ShippedTables`, whose tables have thousands of
entries, orders them with the library's sorting function and the same comparison. It runs the tests over
every stream and request in the repository, in a checkout without the dumps (the decoding test needs
them and is skipped by the code too).

`PackPipeline` runs them inside `pack.py`: `pack.py` imports the tables (`Pack`), `gate.py` imports
them again (`LoadGate`), every region is gated (`GateRegion`), then for each region the dump is read,
patched, staged, assembled, collected, removed from `asm/`, opened, filled, and the manifest comes last,
opened empty and then filled. Any file may be edited between any two steps, the two imports among them
(`Edit`). `AssembleFails`, `BuildRaises` and `Kill` end a run where they may; nothing is undone. The
decoder is a parameter: `Decoded` gives the bytes the retail ROM makes of an entry, or `NONE` where the
ROM ends first, and on another ROM an entry may happen to decode or not (`Produced`). The build decodes
again, takes the last of the entries that share an address (`Entries`, a dictionary in the code) and
raises unless all decode and the keys find a placement (`Buildable`).

Runs overlap freely, for one region too: nothing in `pack.py:71-90` or `build.py:72` keeps two of them
apart. They then stage into one file under `asm/`, and `Collect` and `Unlink` find what is there: the
run's own cartridge, one the other run has just staged and not assembled (its seven sites still armed),
or nothing, which raises. `asar` on a file the other run removed makes a new one that is no cartridge.
The copy in `dist/work/` is the same bytes whoever writes it, and no state of its own.

What a property can claim depends on which of this happened. An image carries the table its run laid out
beside the one its run's gate saw (`image.gated`); they differ only if the file was edited between the
two imports. `met` remembers the regions two runs worked on at once.

### `PatchChain`

A ROM is the content of its sites, the runs of bytes some patcher reads or writes, at their real file
offsets in both cartridges; a write over part of another site leaves it as nobody expects it. A site
found by signature could be there twice. The bypass is assembled and writes without looking. What a
patcher does to a ROM is a function (`Spcfast`, ... `Prefight`), with its tests in the order the code makes
them, and a run of it an action.

### `PrefightDma`

One step per store. A frame interrupt runs to its end between two of them unless the disable flag is
set, restores the processor's state, and leaves in channel zero whatever its own transfers needed.

### `StreamTable`

A run of an image is one action that returns any table of requests; the requests are then handled one
by one, as each tool does: `harvest` trims the neighbours below a stream with a binary search over
compressed ends (`Search`, a function of the interval left, `ShortenTo`, `Absorb`), the other two only
add. An absorb that meets a neighbour it cannot trim leaves the ones before it trimmed and does not add
the address; `refused` remembers which addresses that happened to in the iteration. The decoder is a
parameter that says where the compressed bytes of each address and length end. Any tool may be aborted
at any step and any tool started next; the table file is what was last written.

`ConvergedMeansQuiet` is about addresses: `harvest` says "converged" when an iteration adds none, so one
it refused may be missing, and an entry trimmed later in the same iteration is shorter than was asked
for. `never_shortened` shows what that comes to.

## The runs

| run | configuration | shows |
|---|---|---|
| `upload_wrap` | `SpcUpload_wrap.cfg` | `SpcUpload` is correct, refines `SampleTransfer` and finishes |
| `third_all` | `CpuThird_all.cfg` | `cpu_third` is exact on all 65,536 values, and returns |
| `stack_interrupts` | `TransferStack_interrupts.cfg` | two stacks survive interrupts at any step; the division on them is `CpuThird` |
| `repeat_all` | `RepeatLoad_all.cfg` | what the marker is worth, with and without resets and stray writes |
| `translate_all` | `Translate_all.cfg` | `allocate` on every list of up to four keys, then lookups through both forms of the routine |
| `image_build` | `RomImage_build.cfg` | regions, allocation, keys and writes of a small image, read back as the game reads it |
| `shipped_gate` | `ShippedTables_gate.cfg` | the tables and requests the repository ships pass the gate |
| `pack_all` | `PackPipeline_all.cfg` | releases under an edit, failures, kills and overlapping runs |
| `patch_any` | `PatchChain_any.cfg` | patchers in any order and number |
| `prefight_frames` | `PrefightDma_frames.cfg` | frame interrupts at any step of the pre-fight routine |
| `streams_all` | `StreamTable_all.cfg` | the three tools in any order, with aborts |
| `never_shortened` | `StreamTable_shorten.cfg` | the finding below |

`upload_wrap` checks `TypeOK` and `ReadyMeansWhole` (the driver is told it may play only when sound RAM
is whole), `PortsHoldStill` (no port is overwritten between the reads of one handshake), `TransferSpec`
and `UploadFinishes`. `stack_interrupts`: `ReadsItsThirds`, `CallerGetsItsOwn`, `OthersUntouched`, and
`ThirdSpec`, the refinement. `repeat_all`: `SkippedIsResident` where the console is neither reset nor its id
byte scribbled on, `ResidentIsSkipped`, `GroupsAboveList`, `UploadMakesMarkerTrue`. `translate_all`:
`TableMatchesPlacement`, `ProbePathTaken` (so the unbounded scan stops), `RepairChangesNothing`,
`ScanWithinWorst` (the gate's figure bounds the console) and `LookupSpec`, a refinement with liveness.
`image_build`: `StreamsApart`, `RefusedMeansFull`, `FreeIsExact`, `EveryStreamReadsBack`, `GameViewIntact`.
`pack_all`: `ReleasesServe`, `RefusedWritesNothing`, `ReleasesAreWhole`, `ManifestMatches`. `patch_any`:
`AnyOrderSameRom`, `RefusalIsTheRoms`, `UnknownBytesSpared`. `streams_all`: `ToursStayCovered`,
`ConvergedMeansQuiet`, `UnfinishedHasAdded`, `HarvestMakesRoom`.

What `pack_all` shows of the three cases above: `ReleasesServe` is of the images whose table is the one
gated; a table edited between the imports ships ungated. `ReleasesAreWhole`: an image without all its
patches is made only where two runs met on its region, and then at least one run is killed or raises, so
someone hears of it. `ManifestMatches`: when every run that wrote ended well, the manifest is one run's
and true of all regions no two runs met on; on the others the image of one run and the sum of the other
may stay. Left out of it are runs killed after their first write, after which an older manifest may
vouch for a torn file, and two that write the manifest at one moment. `RefusedWritesNothing` covers a
gate that refuses and one that raises.

### Bounds, and why they are enough

*`upload_wrap`*. `M = 8`: the index wraps after eight handshakes and sound RAM has 64 bytes. Lengths
1, 2, 12, 24 and 26 with either kind: a block below one handshake, of half a page of handshakes (after
which a jump meets zero and has to skip it), of exactly `M` handshakes and of one more, so that every
stream crosses a page, with remainders 0, 1 and 2. The base address 5 makes the three streams start in
the middle of pages. Two blocks give every change of kind from one block to the next, and the case that
the second block repairs what the first overran; nothing survives from a block to the one after next
but the list walk. Two jumps, so the header's counter is not determined by the last.

*`third_all`*, *`shipped_gate`*. No bound: the register's own range, and the repository's own data with
the source's constants.

*`stack_interrupts`*. The source's addresses. Frames of 4 and 13 bytes, the shortest an interrupt has and
the longest that fits; two interrupts, so that one may undo what hides another. Lengths 1 to 300, on
both sides of a multiple of three and of a byte.

*`repeat_all`*. Three lists, two of them equally long, so that a saved allocator does not identify a
list; two cells of groups; sound RAM as long as the longest list and the groups. Six environments: reset
or not, with nothing, the magic, or all of the marker open to stray writes.

*`translate_all`*. Nine slots, two banks, up to four keys over three addresses with the last slot among
them: enough for a scan stopped by an earlier stream of its bank, for two such streams in one round, and
for a probe path through the wrap. `MaxRepairs = 2` stands for 64: a second round after one that changed
nothing. Two channels, so the wrong one can be written.

*`image_build`*. Three banks a quarter of four bytes each, every list of up to three streams over six
sources (bank starts, middles and ends, neighbours, one address asked for in two banks, so that a slot is
searched for), a lookup that may look one slot past the first (so that a third stream of one address is
past it), lengths 2 and 3, compressed ends at once, two and
six bytes on (past a bank's end), and any payload in the data bank: exact fits, holes at either end and
in the middle of a region, spans that touch, a gap too short to keep, refusals for want of room.

*`pack_all`*. Two processes, two regions, two releases; commands for both regions, for one, and for one
there is not, so that runs overlap on either region or on none. For each region a good table and one that
does not decode; for one region a table too short for the recorded requests and one whose worst scan is
over the budget, for the other one that repeats an address and one a scan of which is misread: between the
two regions each reason the gate has. Four slots, one edit of any file at any step: between the imports,
between gate and build, or between two runs. A third process adds no new pair.

*`patch_any`*. Retail ROMs, each deviation of one site, and each of two sites a decision turns on.
Deviations are independent in the code beyond that: a patcher's decision looks at a conjunction of sites.

*`prefight_frames`*. Every combination of flags; two values of every register that are not the table's.

*`streams_all`*. Three addresses whose streams end steadily, leap over a neighbour's address or jump past
the boundary a trim needs; lengths to three; two runs a round (for 4, 15 and 6), three rounds of converge
and four of harvest (for 20 and 24), so that each runs out of rounds. No property rests on the rounds being
many or few against the addresses: the code's 24 rounds stand against some 2,855 streams, and a harvest may
well end by its bound, which it does not tell from convergence in what it writes. *`never_shortened`* has
the same bounds.

### Fairness

`SpcUpload!FairSpec` has weak fairness of each processor's steps: each has a clock of its own and
never halts, and a step once possible (a poll that would succeed) stays possible until it is taken,
because the other side waits. `CpuThird!FairSpec` and `Translate!ImageSpec` (`WF` of the routine's steps)
are one sequential program each that keeps running. `PrefightDma!DmaFairSpec` adds strong fairness of the
frame handler: the processor looks for an interrupt before every instruction, so it does not pass over
one for ever that it may take again and again. Nothing else assumes fairness.

`CHECK_DEADLOCK FALSE` appears where a routine returns (`third_all`, `stack_interrupts`), or a function
or every process ends (`image_build`, `pack_all`). Everywhere else a deadlock is an error; in
`SpcUpload` only a finished upload may stop.

## The proofs

All proofs are checked by TLAPS. They hold for every value of the constants that satisfies the named
assumptions of the module.

**`Routines_proofs`** holds the three short routines. *`CpuThird`*, for every register width and number
of terms: types, `NeverOver`, `ExactThird`. The invariant is that three quotients and the last term
together never exceed the value (`3 * quo + term <= value`): a quarter `t` of the term has `4 * t <=
term`, so adding it keeps the sum (`TermInv`), no addition wraps, the subtractions of the correction
never borrow (`TrueRemainder`), and the loop stops only on a remainder below three.

*`RepeatLoad`*: `BaseInv` holds whatever resets and stray writes do: no cell below the saved allocator
ever holds a group, because groups start at or above it and a list's upload fills all cells below the
value it saves. That gives `GroupsAboveList` unconditionally. `TrustInv` adds, for a console that is not
reset and whose id byte nobody else writes (`Undisturbed`), what the marker is worth at each step:
before the comparisons a set marker is true; after the first only the second byte still matters; after
both the id is true whatever happens to the magic; between `.remember` and the end of the upload the
marker names the list under way. That gives `MarkerCorrect` and `SkippedIsResident`, for any number of
lists and with stray writes to the magic allowed. Where nothing else writes the marker, `NamedInv` says
that from `.remember` to the end of the upload it comes to name the list under way, resets or not, which
is `UploadMakesMarkerTrue`; where there is no reset either, `RepeatInv` says that a resident list is the
one the marker names, which is `ResidentIsSkipped`.

*`PrefightDma`*: types, `TableMoves` and `CallerStateRestored`, whatever the frame handler
leaves. The invariant is that from `sei` to `plp` interrupts are off and the registers stored so far hold
the table's values (`StoresStand`), and that the flags pushed are those of the call (`FlagsKept`).

**`RomImage_proofs`** is about the allocator and the build that takes its steps. *`allocate`*, for every
list of regions and lengths: types, `StreamsApart`, `InsideFree`, `RefusedMeansFull`. The first two are
not inductive alone: the new stream starts at a cursor, and that it misses the
earlier ones follows from each earlier one lying *below the cursor of some region* (`AllBehind`)
while cursors stay inside their regions (`CursorsInside`). `TakenApart` is the one geometric step:
same region, below the cursor; other region, the regions are disjoint. A refusal is honest because nothing
is wasted: every byte below a cursor was given to a stream (`NothingWasted`), so what a region has left
over is what lies above its cursor, and `allocate` has just found that too short in every region.

*What is free*, for every list of streams and payloads: `FreeIsExact`. Regions are compared by their
bytes. Joining one region behind the others keeps them in order, apart and whole (`JoinStep`), so
merging does (`MergeJoins`); cutting a hole takes its bytes and no others (`CutBytes`, `SubtractBytes`);
the spans the streams consumed have the spent bytes (`ConsumedBytes`), and since joined regions do not
touch, the joined region a spent byte is in is its whole stretch (`StretchIs`), long enough or not.
Merge and subtract are recursive functions; that they exist is shown of the smallest set, or shortest
list, for which they would not. `BuildInv` hands the result to the allocator (`PlanFrees`: what `merge`
returns is a list `allocate` may be given), so `StreamsApart` and `RefusedMeansFull` hold of images too,
whatever is free.

*What is written*: `GameViewIntact` and `EveryStreamReadsBack`. Of the addresses the build uses, no two
are one byte of the file (`FileOnce`: the map takes each to a half bank and an offset in it, and no half
bank is used twice). `WriteInv` says what the file holds after each number of writes (`Holds`); for
every kind of write one lemma (`WritesLorom` to `WritesExtra`) shows that it puts its own contents there
and misses all earlier ones that are still wanted: the tables have a bank to themselves, what is free
lies off the tables and off every byte of the window that is needed (`FreeBanks`, `NeededIsKept`),
streams lie in what is free and apart, and a payload's bytes were cut out of it. `KeyInv` says that an
image is written only if the keys have a slot each and every scan is unambiguous. The table then holds
each stream's entry at its slot (`SlotsHold`), so the first entry of the stream's bank that a scan comes
to is its own (`Lookup`), even if the budget lets it go round the table more than once (`Turns`).

**`Translate_proofs`** has three parts. *`allocate`*, for tables of any length, any keys and any number
of streams: types, `TableMatchesPlacement`, `ProbePathTaken`, `RepairChangesNothing`. The first two need
each other and that no two streams share a slot: a slot taken stays taken, so a probe path once taken
stays so, around the wrap (`Turn`, `Walk`). A repair keeps everything because the first free slot past
the scan's stop is the one just given up: all nearer ones are on the stream's own probe path. That a
scan has a least stop and the search a least free slot rests on the well-foundedness of the naturals
(`LeastNat`).

*The routine*, for any caller's registers, any channels and any place of the streams: `RoutineLooksUp`,
every step of it is a step of `DmaLookup` or none. The invariant has one conjunct for the call (the
channel was programmed with the key of a stream that is placed), one for the stack (`Holds`: under
whatever was pushed since, the bytes of the caller's registers, flags and bank, each at its depth), one
for the scan (no slot passed holds the stream's bank, and none past the stream's own is looked at:
`ReturnedRight` and `TableMatchesPlacement`), one for the transfer (untouched until it is written).
Words pushed byte by byte come back as the words they were (`Halves`, `FlagsBack`).

*The gate's figure*: `AllocateIsTheGates`, `allocate`'s first pass places stream by stream what the gate's
own function does, and `ScansStayInBudget`, no scan of the console is longer than the worst the gate
reports. The gate's placement is a recursive function; that it exists (`Exists`) and gives every stream a
slot of the table (`PlacementTyped`) is shown of the least number of streams for which it would not.

**`PackPipeline_proofs`**. For any regions, tables, processes, commands, overlaps and number of edits:
`RefusedWritesNothing`, `ManifestMatches`, `ReleasesAreWhole`, `ReleasesServe`. Each run under way has an
invariant of its own (`RunInv`): where it is among its regions (`Position`), that nothing is written
before the gate has passed all of them (`Unwritten`), and that it has a line for each region done
(`Counted`). `MetInv` adds that regions two runs are working on at once are in `met`.

`ManifestMatches`: each line a run keeps is true of `dist/` unless its region is in `met` (`LinesTrue`),
since only a run for the same region can write over it, and the manifest is the one of the run that wrote
it last (`ManifestInv`).

`ReleasesAreWhole`: for each region, either all cartridges of it are clean (what is under `asm/` is what
the step of the run that holds it expects, and what is in `dist/` is whole: `Clean`), or two runs have met
on it and one of them is lost (`Lost`: killed, raised, or holding a torn cartridge `rombuild` will refuse)
or must be (`Excess`: it holds a file that is gone or torn, or that another run holds too). An excess
cannot end well: two runs hold one file, `Unlink` removes it once, and the second to come finds nothing.
When all runs have ended well nobody holds anything and nobody is lost, so the region is clean.

`ReleasesServe` has two halves. *What passes serves* (`GatedServes`): a table without repeated neighbours
in sorted order has no repeats at all (`NoRepeats`), so the entries the build takes from its dictionary
are the table's, in the gate's order (`EntriesInOrder`: sorting does not depend on the order one starts
from); their keys have slots (`AllHaveSlots`) and no scan is longer than the worst (`WorstBounds`); the
recorded requests the gate found covered are found; and an entry that decodes has its length. *What is
written has passed* (`Gated`, `Sound`): the regions before the one at the gate have passed, all of them
once it builds, so the copy kept in an image as `gated` is one the gate passed, and the file is opened
only after the streams of the copy laid out were decoded. Where the two copies are the same table, it
serves. Edits do not matter to a copy once imported, and that the gate skips decoding when the dump is
absent (`gate.py:98`) does not either, because the build decodes for itself. The lemmas on placement are
those of `Translate_proofs`, for the keys as the gate names them.

**`SpcUpload_proofs`**. For every list, index width and counter jump: types, `PortsHoldStill`,
`ReadyMeansWhole`, and the safety part of `TransferSpec`. The invariant has four parts, each proved from
the ones before it. `IInv`: where each side is in its list, its indexes, and that no byte is posted with
nothing left to send, because a block has a byte and N is rounded up. `Handshake`: which pairs of places
the two processors can be in (`HeaderPair`, `BytePair`, `TriplePair`); whenever the sender is about to
post, the receiver has nothing left to read (`NothingToRead`), which is `PortsHoldStill`, and a header's
jump is never taken for the next index (`JumpBehind`: the assumption on `Jumps`). `SenderInv`: what the
ports carry at each step, and that what is sent and what is left add up to the block. `ReceiverInv`:
where the three pointers stand, behind the sender's index by the bytes answered but not stored (`Owed`),
and that everything below them has arrived. A store puts a byte of the block in its place or, behind the
last handshake of a length that three does not divide, a byte or two past its end, before the next block
arrives (`WhereStored`); a block is whole when its last echo is seen (`LeftWhole`). `UploadTypes` rests
on all four: that the offsets a byte is read from, and what is on the ports, stay in their widths follows
from what is sent and what is left (`CpuWidths`, `SpcWidths`).

**`TransferStack_proofs`**. For every place of the stacks, every block and any number of interrupts:
`ReadsItsThirds`, `CallerGetsItsOwn`, `OthersUntouched`, and the safety part of `ThirdSpec`. The
invariant gives the stack pointer at each instruction (`Pointer`), the words above it (`Words`), the
registers (`Registers`), how far the division is (`Division`, as for `CpuThird`), and what the ports and
the last handshake carried (`Traffic`). An interrupt writes below the pointer alone (`FrameLands`),
where the invariant says nothing. The routine's own six words end above the game's variables by the count
the source makes (`ClearByCountingAssumption`, `spc-fast-upload.asm:424-428`). That the frame of an
interrupt on top of them does too is an assumption of its own (`FrameFitsAssumption`): it bounds what the
game's handler pushes, the source's count has no frame in it, and nothing in the repository states it. On
the caller's stack a frame fits because it fits under the stock code (`StockFitsAssumption`).

**`PatchChain_proofs`**. For every ROM of either cartridge, however far from retail, and every order and
number of runs: `AnyOrderSameRom`, `RefusalIsTheRoms`, `UnknownBytesSpared`. No two sites share a byte
at their real offsets (`SitesApart`), so a write touches no other site. Each patcher looks at and writes
sites of its own (`Own`), and no two own the same one; what a patcher decides is therefore the same
before and after any of the others, and run again it refuses if and only if it did and writes nothing
new (`Again`). The invariant is that the ROM is the first one with every patcher tried applied to it
(`Through`), whatever the order, and that those refused are those the first ROM makes refuse. The
checksum is right but for a ROM that carries the mark of the pre-fight patch, the one patcher that does
not mend it.

**`StreamTable_proofs`**. For any sources, decoder, reports and numbers of rounds: `ToursStayCovered`,
`ConvergedMeansQuiet`, `UnfinishedHasAdded`, `HarvestMakesRoom`. `ShortenToExact`: the
halving search returns the longest length whose compressed bytes end exactly at the boundary, or none
when there is none. It is a recursive function of an interval; that it exists is shown of the smallest
interval for which it would not (`SearchExists`), and what it finds by the same argument, from ends that
grow with the length (`EndsGrow`). The invariant says that requests waiting were heard
(`WantedWasHeard`), that converge and tour only add (`OnlyAdds`), that what a tour has not worked off is
still in `wanted` (`TourWorksOff`), that what a round heard is in the table, does not decode, or was
refused (`NothingForgotten`), and that a round that ends having added nothing is the last
(`RoundsPaidFor`).

*Checked by TLC alone*: liveness (`UploadFinishes`, `Returns`, `FrameServed`, that of `LookupSpec` and
`TransferSpec`), which TLAPS does not reach; and `ShippedTables`, which is about data.

What the proofs and runs assume of the world outside the code:

- The frame interrupt is maskable (`PrefightDma`). An interrupt's frame fits twice over: in the room the
  stock path leaves on the caller's stack (`StockFitsAssumption`), and above the variables on the private
  one (`FrameFitsAssumption`). Both are 13 bytes at the source's addresses, and about the game's handler.
- The caller of the translate routine has registers of its own widths: an 8-bit index is a byte
  (`CallerAssumption`); a byte has two values at least (`RadixAssumption`).
- A region is named once in a command (`CommandsAssumption` of `PackPipeline`).
- A longer length of a stream never ends earlier in the ROM (`RomsAssumption` of `StreamTable`): the
  decoder reads forward only.
- A payload given to `rombuild.build` ends inside a data bank other than the tables' (`ExtrasAssumption`):
  `build` does not check it, its callers give one payload, the pre-fight table. Streams come sorted by
  source, and the decoder ends past where it starts (`EntriesAssumption`).
- Stream tables and recorded requests list addresses with lengths (`TablesAssumption`); the decoder gives as
  many bytes as it is asked for or raises (`DecoderAssumption`, as `sdd1ref.compare` relies on), and the
  patches leave the streams alone.

## Findings

1. **`harvest` shortens entries** (`never_shortened`). "Only two operations on a stream table are safe,
   adding an address the hardware asks for and raising a length to what it asks for. Shortening an entry is
   never valid" (`README.md:588-589`), and `jpstreams.py:36-40` says that the converted build may never
   change an existing entry, because "doing exactly that once produced a table that truncated two streams
   the cartridge genuinely needs". `absorb` (`harvest_jp.py:156-169`) does exactly that: to make room for an
   address the converted build asks for it trims every stream below that runs over it, and leaves the
   earlier ones trimmed even when it then meets one it cannot trim. In the run's trace one run asks for
   addresses 2 and 3; 2 is added with length 3, and making room for 3 shortens it to 1. What harvest keeps
   to nonetheless is `HarvestMakesRoom`. The shipped tables hold every recorded request at full length
   (`shipped_gate`).

## Where the comments and the code part

Readings met while modelling that no run refutes: they are about code or wording around the model.

- *A reset leaves a believed marker.* The marker is written before the upload
  (`repeat-load.asm:155-159`); a reset in between leaves it set. "After the first real load the marker
  is always correct" (`repeat-load.asm:77-78`) holds on a console that is not reset (`MarkerIsCorrect`),
  as far as work RAM and the driver's sound RAM survive a reset.
- *The magic does not protect the id.* "A corrupt record can only refuse a skip, never invent one"
  (`repeat-load.asm:95`) holds for the two magic bytes (`SkipsAreSafe`), not for a stray write to the id.
- *Where the marker is.* The comment at `repeat-load.asm:115-117` puts it at `$1F3F`-`$1F41`,
  `repeatload.py` writes it at `$7E:9000`. The model does not depend on the address.
- *How deep the private stack goes.* `spc-fast-upload.asm:424-428` counts six words and the local call,
  to `$1FD2`. They are never there together: the deepest is six words, `$1FD4`. An interrupt's frame on
  top is not counted; `OthersUntouched` shows that it stays above `$1FC7` up to 13 bytes.
- *Game fixes on a partial match.* `gamefixes.apply` patches the entries it finds and refuses only if it
  finds none (`gamefixes.py:306-309`), while `README.md:264-266` says a ROM that does not match is
  refused, and `gamefixes.py:169-172` that either pose fix alone is wrong.
- *The order of the patchers.* `README.md:350` says "Order matters. The sample and unlock patches apply to
  the retail ROM". Of the six patchers it does not: `AnyOrderSameRom` shows that `spcfast` and `shinakuma`
  behind any of the others, the bypass included, make the same ROM. The rest of that paragraph, that the
  bypass comes before the re-layout and the header last, is about steps `PatchChain` does not have.
- *The repair rounds never repair.* `sdd1tables.allocate` moves a misread stream to the first free slot past
  the slot its scan found (`sdd1tables.py:60-64`). Every slot between that one and its own is taken, so the
  first free one is the slot just given up. `RepairsAreIdle` proves this for every list: `allocate` either
  needs no repair or raises after 64 rounds that change nothing. A refused build is safe, and the streams
  of both games need no repair (`shipped_gate`).
- *Two runs of `pack.py` for one region.* Nothing keeps them apart (`pack.py:71-90`, `build.py:72`). They
  share `asm/{region}-bypass.sfc`, and one can ship a cartridge with its sites still armed while the other
  fails. `README.md` does not speak of it.
- *A table edited between the two imports* (`pack.py:32-33` and `gate.py:25-26`) is laid out without the gate
  having seen it, against "a gate that refuses to write an image whose stream table does not check out"
  (`README.md:97-98`).
- *A build without a gate.* `rebuild_all.py` asks no gate; `README.md:97-98` and `jpstreams.py:42` speak
  of a gate that refuses to build.
- *A harvest after a tour* starts from the shipped table and drops what the tour added to the file.
  `ToursStayCovered` therefore claims coverage up to the next harvest.

## What is not modelled

- *Stream map* (`sdd1map.py`, `sdd1find.py`, `sdd1sites.py`): pure functions of megabytes of ROM, whose
  hard part is knowledge of the game and not of states; the retail dump fixes their result.
- *Decompressor* (`sdd1ref.py`, `ref/`): an external program and the pipe to it. Where the models need
  it, it is a parameter (`Decoded`, `Roms`, the `end` of an entry).
- *Game code* around `shin-akuma*.asm` and `sdd1-bypass*.asm`: not in the repository. Their installation
  is in `PatchChain`.
- *The pre-fight table's generator*: one pure loop with one result, which the tests compare with the
  game's own.
- *Variants for validation* (`tools/rebuild_all.py`): the steps `PackPipeline` has of `pack.py`, without gate,
  release or manifest, for four variants under names of their own in `build/all/` and `asm/`. It meets
  `pack.py` in no file it writes.
- *Measurement* (`compare_audio.py`, `sample_reuse.py`, `tour_audio.py`, `stage_diff.py`,
  `validate_all.py`, `verify_streams.py`, `identify.py`, `analyse.py`), *emulator hosts* (`main.cpp`,
  `play.cpp`), *metadata* (`hardware.py`, `version.py`, `scripts/`), `freeze_spcfast.py`: they read logs
  or files once and report, or store a tool's output. Nothing they do meets another actor's state.
- *Reports and container commands*: `mapcheck.py`'s listing, the arguments `build.py` gives to the
  container.
- Cycle counts. The models let each processor be arbitrarily slow, so nothing shown rests on timing;
  nothing about speed is shown either.

## Plan

Every component with state of its own is modelled, and the safety properties the runs check of them are
proved for all values of the constants, but for those listed above as checked by TLC alone.
What could still be added is the decoder: as a parameter it is trusted to read forward and to return what
it is asked for.
