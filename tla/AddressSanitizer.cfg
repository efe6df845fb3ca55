CONSTANTS
  Top = 5
  Jobs <- MCJobs
  MaxCount = 2
  MaxRanges = 3
  SmBytes = 2
  LocalMask = 7
  GlobalMask = 31
  IdBits = 2
  CoreIds = {0, 1}
  Host = 15
  ChipSize = 5
  OutOfBoundCheck = TRUE
SPECIFICATION MCSpec
VIEW View
 
INVARIANT CheckExact
PROPERTY ScopeFitsMemory
 

CHECK_DEADLOCK FALSE
