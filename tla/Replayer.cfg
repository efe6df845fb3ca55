CONSTANTS
  PipeNum = 3
  Join <- NoJoin
  Kernels <- MCKernels
  Shapes <- MCShapes
SPECIFICATION Spec
INVARIANTS AccessesInOrder VerdictIsReference FlagTokens  GetAfterReleases
PROPERTIES ReplayEnds
