\* gate.py jp usa on the 2,855 and 2,817 streams of the repository.
CONSTANTS
  Slots = 65536
  WINDOW_BASE = 192
  SCAN_BUDGET = 64
SPECIFICATION Spec
INVARIANTS ShippedTablesPass RequestsResolve
