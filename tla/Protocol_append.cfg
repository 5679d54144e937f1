SPECIFICATION Spec
CONSTANTS
  Algorithms = {"LZ4"}
  Pipelined = {"LZ4"}
  Sizes <- PipelineSizes
  InitSize = 20
  Threshold = 3
  MaxCombine = 1
  MaxMsgs = 2
INVARIANT AppendsMessage
CHECK_DEADLOCK FALSE
