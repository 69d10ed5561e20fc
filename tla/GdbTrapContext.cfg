CONSTANTS
  GenRegs = {"pc"}
  Vals = {v0, v1}
  Cells = {"data", "bios"}
  Kernel = {"data"}
SPECIFICATION Spec
INVARIANTS
  ContextLive
