----------------------------- MODULE BuildBuddy -----------------------------
(***************************************************************************)
(* build_buddy() of src/src/kernel/memory/manager.c: one pass over the     *)
(* frame table that finds maximal runs of frames with equal flags, skips   *)
(* the runs that are in use and carves every other run into blocks of      *)
(* 2^order frames, lowest order first, put on the free list of their zone. *)
(* One action per branch of the two loops.                                 *)
(*                                                                         *)
(* Pointers into the frame table are frame numbers; ftable_end is NFrames. *)
(* lk_insert() puts a frame at the head of a singly linked list; a list is *)
(* the sequence of the blocks' first frames, oldest first, so the head of  *)
(* the C list is the last element of the sequence.                         *)
(***************************************************************************)
EXTENDS Integers, Sequences

CONSTANTS NFrames,    \* mm_frame_num: ftable_end - ftable_start
          MAX_ORDER,  \* number of block orders (11)
          Blk,        \* Blk[i] is the C expression 1 << i
          BootEnd,    \* frames below 4 MB, used by the boot image
          DmaEnd      \* frames below 16 MB, the ISA DMA zone

ASSUME BuddyAssumption ==
  /\ NFrames \in Nat
  /\ MAX_ORDER \in Nat \ {0}
  /\ Blk \in [0 .. MAX_ORDER - 1 -> Nat \ {0}]
  /\ Blk[0] = 1
  /\ \A i \in 0 .. MAX_ORDER - 2 : Blk[i + 1] = 2 * Blk[i]
  /\ BootEnd \in Nat
  /\ DmaEnd \in Nat

Frames == 0 .. NFrames - 1
Orders == 0 .. MAX_ORDER - 1
Zones  == {"dma", "normal"}
Marks  == {"RESV", "TABLE", "KERNEL", "DMA"}

VARIABLES flags,    \* mm_frame.flags of every frame, as the set of its marks
          free,     \* dma_area.free[] and normal_area.free[]
          current,  \* current_frame
          last,     \* last_frame
          size,     \* the local size: frames of the run still to be carved
          order,    \* the local i of the carving loop
          pc        \* "scan": while loop, "carve": for loop, "done": returned

locals == <<current, last, size, order, pc>>
buddyVars == <<flags, free, current, last, size, order, pc>>

UsedMarks  == {"RESV", "TABLE", "KERNEL"}      \* MM_FRAME_USED
Used(f)    == flags[f] \cap UsedMarks # {}
ZoneOf(f)  == IF "DMA" \in flags[f] THEN "dma" ELSE "normal"

\* The flags mm_init() leaves when the firmware reserves the frames in resv.
BootFlags(resv) ==
  [f \in Frames |-> (IF f \in resv    THEN {"RESV"}   ELSE {}) \cup
                    (IF f < DmaEnd    THEN {"DMA"}    ELSE {}) \cup
                    (IF f < BootEnd   THEN {"KERNEL"} ELSE {})]

EmptyLists == [z \in Zones |-> [i \in Orders |-> <<>>]]

Start == /\ free = EmptyLists
         /\ current = 0
         /\ last = 0
         /\ size = 0
         /\ order = 0
         /\ pc = "scan"

Init == /\ \E resv \in SUBSET Frames : flags = BootFlags(resv)
        /\ Start

-----------------------------------------------------------------------------
\* Mutant: a run goes on while the frames are equally usable.
SameUse == current < NFrames /\ Used(current) = Used(last)

\* current_frame < ftable_end && current_frame->flags == last_frame->flags
SameRun == current < NFrames /\ flags[current] = flags[last]

ExtendRun == /\ pc = "scan"
             /\ last < NFrames
             /\ SameRun
             /\ current' = current + 1
             /\ UNCHANGED <<flags, free, last, size, order, pc>>

SkipUsed == /\ pc = "scan"
            /\ last < NFrames
            /\ ~SameRun
            /\ Used(last)
            /\ last' = current
            /\ current' = current + 1
            /\ UNCHANGED <<flags, free, size, order, pc>>

StartCarve == /\ pc = "scan"
              /\ last < NFrames
              /\ ~SameRun
              /\ ~Used(last)
              /\ size' = current - last
              /\ order' = 0
              /\ pc' = "carve"
              /\ UNCHANGED <<flags, free, current, last>>

InForLoop == order < MAX_ORDER /\ size > 0

\* Mutant: the last order is not special.
OrderAbsentUnbounded == (size \div Blk[order]) % 2 = 0

\* (size & (1 << i)) == 0 && i < MAX_ORDER - 1
OrderAbsent == (size \div Blk[order]) % 2 = 0 /\ order < MAX_ORDER - 1

SkipOrder == /\ pc = "carve"
             /\ InForLoop
             /\ OrderAbsent
             /\ order' = order + 1
             /\ UNCHANGED <<flags, free, current, last, size, pc>>

\* Mutant: the new head does not point to the old one.
InsertUnlinked(z, i, f) == free' = [free EXCEPT ![z][i] = <<f>>]

\* lk_insert(area.free[i], last_frame->free)
Insert(z, i, f) == free' = [free EXCEPT ![z][i] = Append(@, f)]

\* Mutant: last_frame is advanced after the loop only.
CarveInPlace == /\ pc = "carve"
                /\ InForLoop
                /\ ~OrderAbsent
                /\ Insert(ZoneOf(last), order, last)
                /\ size' = size - Blk[order]
                /\ order' = order + 1
                /\ UNCHANGED <<flags, current, last, pc>>

CarveBlock == /\ pc = "carve"
              /\ InForLoop
              /\ ~OrderAbsent
              /\ Insert(ZoneOf(last), order, last)
              /\ size' = size - Blk[order]
              /\ last' = last + Blk[order]
              /\ order' = order + 1
              /\ UNCHANGED <<flags, current, pc>>

\* Mutant: current_frame moves on although a part of the run is left.
EndCarveAdvance == /\ pc = "carve"
                   /\ ~InForLoop
                   /\ current' = current + 1
                   /\ pc' = "scan"
                   /\ UNCHANGED <<flags, free, last, size, order>>

EndCarve == /\ pc = "carve"
            /\ ~InForLoop
            /\ current' = IF size = 0 THEN current + 1 ELSE current
            /\ pc' = "scan"
            /\ UNCHANGED <<flags, free, last, size, order>>

Return == /\ pc = "scan"
          /\ last >= NFrames
          /\ pc' = "done"
          /\ UNCHANGED <<flags, free, current, last, size, order>>

Step == \/ ExtendRun
        \/ SkipUsed
        \/ StartCarve
        \/ SkipOrder
        \/ CarveBlock
        \/ EndCarve
        \/ Return

Terminated == pc = "done" /\ UNCHANGED buddyVars

Next == Step \/ Terminated

\* build_buddy() runs to completion with interrupts off, nothing preempts it.
Spec == Init /\ [][Next]_buddyVars /\ WF_buddyVars(Step)

-----------------------------------------------------------------------------
\* The handle of a listed block: its zone, its order, its place in the list.
Handles == UNION {{<<z, i, k>> : k \in DOMAIN free[z][i]} : z \in Zones, i \in Orders}
First(h)  == free[h[1]][h[2]][h[3]]
Extent(h) == First(h) .. First(h) + Blk[h[2]] - 1

\* Every variable of build_buddy() stays in range: no frame pointer runs past
\* one beyond the table, and size never wraps below zero.
TypeOK == /\ flags \in [Frames -> SUBSET Marks]
          /\ free \in [Zones -> [Orders -> Seq(Frames)]]
          /\ current \in 0 .. NFrames + 1
          /\ last \in 0 .. NFrames
          /\ size \in 0 .. NFrames
          /\ order \in 0 .. MAX_ORDER
          /\ pc \in {"scan", "carve", "done"}

\* A free block never contains a frame that is reserved, holds a page table
\* or belongs to the kernel, and all its frames are of the list's zone: the
\* carving loop only looks at the flags of a block's first frame.
BlocksUsable == \A h \in Handles : \A f \in Extent(h) :
                   f \in Frames /\ ~Used(f) /\ ZoneOf(f) = h[1]

\* No frame is in two free blocks (of any zone and order): otherwise two
\* allocations would share memory, or a list would run into itself.
BlocksDisjoint == \A g, h \in Handles : g # h => Extent(g) \cap Extent(h) = {}

\* When build_buddy() returns, every frame not in use is in some free block:
\* no run is forgotten, not the one the table ends in, not the part of a run
\* left over when it is longer than all orders together.
NothingLost == pc = "done" =>
                 \A f \in Frames : ~Used(f) => \E h \in Handles : f \in Extent(h)

\* build_buddy() returns, whatever the flags: the branch that keeps
\* current_frame for a second carving of an over-long run makes progress.
Termination == <>(pc = "done")

-----------------------------------------------------------------------------
\* The loop invariant, in named parts.

\* While scanning, last .. current-1 is a run of equal flags inside the table.
ScanRun == pc = "scan" =>
             /\ last <= current
             /\ last < NFrames => current <= NFrames
             /\ \A f \in last .. current - 1 : f < NFrames => flags[f] = flags[last]

\* While carving, last .. current-1 is what is left of a run not in use.
CarveRun == pc = "carve" =>
              /\ current <= NFrames
              /\ size = current - last
              /\ \A f \in last .. current - 1 : flags[f] = flags[last] /\ ~Used(f)

\* The orders below the current one have been carved off: what is left is a
\* multiple of the block size, hence never smaller than the block taken.
CarveOrder == pc = "carve" /\ order < MAX_ORDER => size % Blk[order] = 0

BlocksBehind == \A h \in Handles : Extent(h) \subseteq 0 .. last - 1

CoveredBehind ==
  \A f \in 0 .. last - 1 : ~Used(f) => \E h \in Handles : f \in Extent(h)

ReturnedAtEnd == pc = "done" => last = NFrames

\* Inductive, and implies BlocksUsable, BlocksDisjoint and NothingLost.
LoopInvariant == /\ TypeOK
                 /\ ScanRun
                 /\ CarveRun
                 /\ CarveOrder
                 /\ BlocksBehind
                 /\ BlocksUsable
                 /\ BlocksDisjoint
                 /\ CoveredBehind
                 /\ ReturnedAtEnd

\* What the pool promises (module FramePool).
Blocks == {[zone |-> h[1], order |-> h[2], first |-> First(h)] : h \in Handles}

Pool == INSTANCE FramePool WITH pool <- Blocks, ready <- (pc = "done")
PoolSpec == Pool!Spec
=============================================================================
