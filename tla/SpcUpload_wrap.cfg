\* An index that wraps after eight handshakes, so every stream crosses pages,
\* and lists of two blocks.
CONSTANTS
  M = 8
  Jumps = {3, 4}
  RecordHead = 2
  MaxBlocks = 2
  Lengths = {1, 2, 12, 24, 26}
  Base = 5
  ListStart = 0
  Lists <- MCLists
SPECIFICATION FairSpec
INVARIANTS TypeOK ReadyMeansWhole
PROPERTIES PortsHoldStill TransferSpec UploadFinishes
