SPECIFICATION Spec
CONSTANTS
  Packets <- MCPackets
  Fills = {0}
  BufSize = 11
  DataMax = 2
  RegNum = 2
  Cells = {0, 1, 2, 3}
  Vectors = {14}
  KernelBegin = 0
  KernelEnd = 2
  Modulus = 4096
  Unset = {7}
INVARIANT TypeOK
PROPERTIES WritesAsAsked RepliesAsAsked
CHECK_DEADLOCK FALSE
