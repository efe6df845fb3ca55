CONSTANTS
  Programs <- MCPrograms
  Mb = 7
  CacheLineSize = 1
  OperandSpace = 65536
SPECIFICATION Spec
INVARIANT ActiveBytes
INVARIANT SelectReadsBoundMask
INVARIANT InstructionIsOneMoment
INVARIANT KeptIsAPrefix
 
INVARIANT CopiesConserve
CHECK_DEADLOCK FALSE
