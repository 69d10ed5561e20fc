\* RAM of 57 pages: the frame table reaches into the range of its second table.
CONSTANTS
  PER_TAB = 8
  KDIR = 4
  PGT = 7
  DirFrame = 1
  SelfFrame = 0
  NFrames = 57
  MAX_ORDER = 3
  Blk <- MCBlk
  BootEnd = 8
  DmaEnd = 10
  PAGE = 2
  ADDR = 128
  PER_PAGE = 4
  KernelEnd = 2
  IdentEnd = 1
  Maps <- MCBigMaps
SPECIFICATION Spec
INVARIANTS
  MappedBeforeUse
