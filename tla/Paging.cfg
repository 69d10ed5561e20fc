CONSTANTS
  PER_TAB = 6
  KDIR = 2
  PGT = 5
  DirFrame = 1
  SelfFrame = 3
  TabFrames = {20, 21, 22}
  DataFrames = {30, 31}
  MadePages <- MCMadePages
SPECIFICATION Spec
INVARIANTS
  SelfMapCoherent
PROPERTIES
  SpaceSpec
