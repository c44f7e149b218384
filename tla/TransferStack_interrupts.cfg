\* Up to two interrupts of either size, at any step of a block.
CONSTANTS
  PRIVATE_STACK <- MCPrivateStack
  LIVE <- MCLive
  CALLER <- MCCaller
  ROOM = 17
  Frames <- MCFrames
  MaxInterrupts = 2
  Lengths <- MCLengths
  Sources <- MCSources
SPECIFICATION Spec
INVARIANTS ReadsItsThirds CallerGetsItsOwn OthersUntouched
PROPERTIES ThirdSpec
\* The routine ends by jumping back into the stock path.
CHECK_DEADLOCK FALSE
