CONSTANTS
  ToolNum = 1
  NoDbi <- MCNone
  DbiKernels <- MCNone
  Window = 1
  MaxKernels = 1
  MaxWork = 2
  MaxForeign = 0
  MayFail = FALSE
SPECIFICATION FairSpec
PROPERTY DoFinishReturns
CHECK_DEADLOCK FALSE
