------------------------------ MODULE FramePool ------------------------------
(***************************************************************************)
(* What memory/manager.c promises once build_buddy() has returned: a pool  *)
(* of free blocks of 2^order frames, kept apart by zone, in which          *)
(*   - a block holds only frames whose flags carry no MM_FRAME_USED bit,   *)
(*   - a block lies inside one zone (DMA or normal),                       *)
(*   - no frame belongs to two blocks, and                                 *)
(*   - when the pool is handed over no usable frame has been left out.     *)
(* How the blocks are found (the scan of the frame table) is BuildBuddy's  *)
(* business; BuildBuddy is shown to implement this module.                 *)
(***************************************************************************)
EXTENDS Integers

CONSTANTS NFrames,     \* mm_frame_num, the entries of the frame table
          MAX_ORDER,   \* number of block orders (11 in manager.c)
          Blk          \* Blk[i] is 1 << i, the frames of a block of order i

Frames == 0 .. NFrames - 1
Orders == 0 .. MAX_ORDER - 1
Zones  == {"dma", "normal"}

VARIABLES flags,   \* the marks of every frame
          pool,    \* the free blocks: [zone, order, first]
          ready    \* build_buddy() has returned

fpVars == <<flags, pool, ready>>

\* MM_FRAME_USED (0xFF) covers RESV, TABLE and KERNEL, and not DMA (1 << 8).
UsedFrame(f) == flags[f] \cap {"RESV", "TABLE", "KERNEL"} # {}
ZoneOf(f)    == IF "DMA" \in flags[f] THEN "dma" ELSE "normal"
Extent(b)    == b.first .. b.first + Blk[b.order] - 1

Init == /\ flags \in [Frames -> SUBSET {"RESV", "TABLE", "KERNEL", "DMA"}]
        /\ pool = {}
        /\ ready = FALSE

Give(b) == /\ ~ready
           /\ Extent(b) \subseteq Frames
           /\ \A f \in Extent(b) : ~UsedFrame(f) /\ ZoneOf(f) = b.zone
           /\ \A c \in pool : Extent(b) \cap Extent(c) = {}
           /\ pool' = pool \cup {b}
           /\ UNCHANGED <<flags, ready>>

HandOver == /\ ~ready
            /\ \A f \in Frames : ~UsedFrame(f) => \E b \in pool : f \in Extent(b)
            /\ ready' = TRUE
            /\ UNCHANGED <<flags, pool>>

Next == \/ \E z \in Zones, o \in Orders, s \in Frames :
              Give([zone |-> z, order |-> o, first |-> s])
        \/ HandOver

Spec == Init /\ [][Next]_fpVars
=============================================================================
