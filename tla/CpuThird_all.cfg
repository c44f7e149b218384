\* Every value of the 16-bit register.
CONSTANTS
  Word = 65536
  Quarters = 6
SPECIFICATION FairSpec
INVARIANT ExactThird
PROPERTY Returns
CHECK_DEADLOCK FALSE
