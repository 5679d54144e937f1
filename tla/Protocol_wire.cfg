SPECIFICATION Spec
CONSTANTS
  Algorithms = {"NONE", "LZ4"}
  Pipelined = {"NONE"}
  Sizes <- MCSizes
  InitSize = 5
  Threshold = 3
  MaxCombine = 2
  MaxMsgs = 3
INVARIANTS PayloadFits FrameHolds
PROPERTIES Implements Arrives
CHECK_DEADLOCK FALSE
