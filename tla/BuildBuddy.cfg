\* Twelve frames, blocks of 1, 2 and 4: a run of the nine normal frames is longer
\* than 1+2+4 and needs a second carving; every set of reserved frames above the boot image.
CONSTANTS
  NFrames = 12
  MAX_ORDER = 3
  Blk <- MCBlk
  BootEnd = 1
  DmaEnd = 3
SPECIFICATION Spec
INVARIANTS
  BlocksUsable
  BlocksDisjoint
  NothingLost
  LoopInvariant
PROPERTIES
  Termination
  PoolSpec
