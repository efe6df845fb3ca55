CONSTANTS
  PipeNum = 3
  Kernels <- MCKernels
  Shapes <- MCShapes
SPECIFICATION Spec
INVARIANTS OrderIsExact
