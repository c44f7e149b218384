\* Calls with every combination of flags, a frame interrupt at any step.
CONSTANT Foreign = {1, 2}
SPECIFICATION DmaFairSpec
INVARIANTS TableMoves
PROPERTY FrameServed
