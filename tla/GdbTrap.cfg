CONSTANTS
  GenRegs = {"pc"}
  v0 = v0
  v1 = v1
  Vals <- MCVals
  Cells = {"data", "bios"}
  Kernel = {"data"}
SYMMETRY Symmetry
SPECIFICATION Spec
INVARIANTS
  LockFollowsSession
  ContextKept
  ResumeObeyed
  PictureCurrent
PROPERTIES
  HostPictureResumes
