SPECIFICATION Spec
CONSTANTS
  WordBits = 8
  HalfBits = 4
  ByteBits = 2
  GroupBits = 7
  Significand32 = 5
  Significand64 = 11
  ImmMax = 3
  IndexMax = 15
  OffsetMax = 7
  Cases <- MCCases
INVARIANTS
  StackMatchesTypes
  AcceptedAsSpecified
  ComputesAsSpecified
CHECK_DEADLOCK FALSE
