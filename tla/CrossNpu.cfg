CONSTANTS
  DeviceNum = 2
  BlockNum = 3
  PipeNum = 2
  Jobs <- MCJobs
  Shapes <- MCShapes
SPECIFICATION Spec
INVARIANTS OrderIsExact KernelsOrdered
