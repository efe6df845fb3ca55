CONSTANTS
  a = a
  b = b
  Devices <- MCTwo
  MaxId = 3
  Faults <- MCFaults
SPECIFICATION FairSpec
INVARIANTS AccessSeesOrderedState NoConflictInFlight FinishedMeansChecked
PROPERTIES  FinishReturns
