\* Every order and repetition of the six patchers on retail and foreign ROMs.
CONSTANTS
  Regions <- MCRegions
  Deviations <- MCDeviations
SPECIFICATION Spec
INVARIANTS AnyOrderSameRom RefusalIsTheRoms
PROPERTIES UnknownBytesSpared
