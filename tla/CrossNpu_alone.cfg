CONSTANTS
  DeviceNum = 2
  BlockNum = 3
  PipeNum = 2
  Jobs <- MCAlone
  Shapes <- MCShapes
SPECIFICATION Spec
PROPERTIES ReplayEnds
