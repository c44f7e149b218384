\* Nine slots, two window banks, up to four keys at colliding addresses, the
\* last slot among them.
CONSTANTS
  RADIX = 3
  Slots = 9
  WINDOW_BASE = 1
  TABLE_BANK = 1
  EMPTY = 0
  MaxRepairs = 2
  Channels = {0, 1}
  Addresses = {1, 2, 8}
  MaxKeys = 4
  Banks <- MCBanks
  KeyLists <- MCKeyLists
  Destination <- MCDestination
  Registers <- MCRegisters
SPECIFICATION ImageSpec
INVARIANTS TableMatchesPlacement ProbePathTaken ScanWithinWorst
PROPERTIES RepairChangesNothing LookupSpec
