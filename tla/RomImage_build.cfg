\* Three banks of four bytes; up to three streams, any payload in the data bank.
CONSTANTS
  N = 3
  BANK = 4
  TABLE_BANK = 4
  WRAM_BANKS = {5}
  MIN_REGION = 2
  SCAN_BUDGET = 1
  SourceChoices = {0, 2, 3, 4, 7, 11}
  LengthChoices = {2, 3}
  EndChoices = {0, 2, 6}
  MaxEntries = 3
  EntryLists <- MCEntryLists
  ExtraLists <- MCExtraLists
  FreeLists <- MCFreeLists
  SizeLists <- MCSizeLists
SPECIFICATION BuildSpec
INVARIANTS StreamsApart RefusedMeansFull EveryStreamReadsBack GameViewIntact FreeIsExact
CHECK_DEADLOCK FALSE
