----------------------------- MODULE MCRomImage -----------------------------
(* A three bank ROM of four byte banks, streams at chosen sources with     *)
(* every choice of length and compressed end, and payloads of any length   *)
(* in the data banks.                                                      *)
EXTENDS RomImage

CONSTANTS SourceChoices, LengthChoices, EndChoices, MaxEntries

Stream(s) == [source : {s}, length : LengthChoices,
              end : {e \in {s + READ_AHEAD + c : c \in EndChoices} :
                       e <= ORIGINAL_SIZE + READ_AHEAD}]

MCEntryLists ==
  UNION {{l \in [1 .. n -> UNION {Stream(s) : s \in SourceChoices}] :
            \A i, j \in 1 .. n : i < j => l[i].source < l[j].source} :
           n \in 0 .. MaxEntries}

MCExtraLists ==
  {<<>>} \union
  {<<x>> : x \in {p \in [bank : {N}, addr : 0 .. BANK - 1, length : 1 .. BANK] :
                    p.addr + p.length <= BANK}}

\* What the allocator is given: the regions left of each pair of them.
MCFreeLists == {Merge(Regions(l, x)) : l \in MCEntryLists, x \in MCExtraLists}
MCSizeLists == {Sizes(l) : l \in MCEntryLists}
=============================================================================
