CONSTANTS
  ToolNum = 2
  NoDbi <- MCNoDbi
  DbiKernels <- MCDbiKernels
  Window = 2
  MaxKernels = 2
  MaxWork = 4
  MaxForeign = 1
  MayFail = TRUE
SPECIFICATION Spec
INVARIANTS
  VerdictCoversErrors
  BatchUnderItsContext
  SanitizerStateOfKernel
  MarkAfterEarlierWork
  StopDiscardsNothing
CHECK_DEADLOCK FALSE
