\* RAM of 55 pages, one less than mm_phy_init() can map: the frame table (14
\* pages, the last one not full) runs beyond the boot mapping and is given two
\* page tables.
CONSTANTS
  PER_TAB = 8
  KDIR = 4
  PGT = 7
  DirFrame = 1
  SelfFrame = 0
  NFrames = 55
  MAX_ORDER = 3
  Blk <- MCBlk
  BootEnd = 8
  DmaEnd = 10
  PAGE = 2
  ADDR = 128
  PER_PAGE = 4
  KernelEnd = 2
  IdentEnd = 1
  Maps <- MCMaps
SPECIFICATION Spec
INVARIANTS
  TypeOK
  TableCoversRam
  MappedBeforeUse
  ReservedNeverFree
  BootImageNeverFree
PROPERTIES
  Returns
