CONSTANTS
  Cores = {0, 1}
  Pipes = {"V", "M"}
  FlagIds = {0}
  PhysCores = {0, 1}
  Blocks = {0, 1}
  Registers = {"CTRL", "VECTOR_MASK_0", "QUANT_POST"}
  Unchecked = {"QUANT_POST"}
  MaxKernels = 2
  Values = {0, 1, 2}
  Jobs <- MCJobs
  Pids = {1, 2}
  Devs = {0, 1}
  Sanitizers = {s1, s2}
  Addrs = {7}
  NoPid = NoPid
  Nobody = Nobody
SYMMETRY Symmetry
SPECIFICATION MCSpec
 
INVARIANT ReportsLeftovers
INVARIANT NoDangling
INVARIANT ResetCutsBoth
PROPERTY NewSurvivesOld
CHECK_DEADLOCK FALSE
