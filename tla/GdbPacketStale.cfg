\* A read without its separator takes the one an earlier packet left.
SPECIFICATION Spec
CONSTANTS
  Packets <- MCPackets
  Fills = {0}
  BufSize = 11
  DataMax = 2
  RegNum = 2
  Cells = {0, 1, 2, 3}
  Vectors = {14}
  KernelBegin = 0
  KernelEnd = 2
  Modulus = 4096
  Unset = {7}
PROPERTY ReadNeedsSeparator
CHECK_DEADLOCK FALSE
