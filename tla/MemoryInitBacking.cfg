\* RAM of 24 pages: are the frames behind the page table kept from the pool?
CONSTANTS
  PER_TAB = 8
  KDIR = 4
  PGT = 7
  DirFrame = 1
  SelfFrame = 0
  NFrames = 24
  MAX_ORDER = 3
  Blk <- MCBlk
  BootEnd = 8
  DmaEnd = 10
  PAGE = 2
  ADDR = 128
  PER_PAGE = 4
  KernelEnd = 2
  IdentEnd = 1
  Maps <- MCBigMaps
SPECIFICATION Spec
INVARIANTS
  PageTablesNeverFree
