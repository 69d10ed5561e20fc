----------------------------- MODULE MemoryInit -----------------------------
(***************************************************************************)
(* mm_init() of src/src/kernel/memory/manager.c with mm_phy_init() and the *)
(* mm_phy_mark() family of phy_mem.c: find the top of RAM, map and clear   *)
(* the frame table, mark the frames in use, and let build_buddy() (module  *)
(* BuildBuddy) fill the free lists.  Tables are written by the operators   *)
(* of PageTables.                                                          *)
(*                                                                         *)
(* Addresses are counted in units of PAGE per page, so that regions need   *)
(* not begin or end at a page; ADDR is the size of the 32-bit space and    *)
(* sums wrap there.  Sizes are scaled, their order is that of the code:    *)
(* IdentEnd < KernelEnd < BootEnd = one table's range < DmaEnd.            *)
(***************************************************************************)
EXTENDS PageTables, Sequences, FiniteSets

CONSTANTS NFrames, MAX_ORDER, Blk, BootEnd, DmaEnd,  \* see BuildBuddy
          PAGE,       \* address units per page (TEOS_PAGE_SIZE)
          ADDR,       \* address units of the 32-bit space (2^32)
          PER_PAGE,   \* struct mm_frame entries per page of the frame table (256)
          KernelEnd,  \* the page of kernel_end, aligned: where the table starts
          IdentEnd,   \* the page of PAGE_IDENT_END
          Maps        \* memory maps: sequences of [type, base, len]; NoMap

NoMap == <<"no map">>   \* multiboot flag 6 is not set

\* The sizes, and what the firmware promises of its map: the whole pages up to
\* the highest end of available memory are NFrames, and a region lies inside
\* the 32-bit space; one that ends with it begins above the available memory.
ASSUME MemoryInitAssumption ==
  /\ NFrames \in Nat /\ BootEnd \in Nat /\ DmaEnd \in Nat
  /\ MAX_ORDER \in Nat \ {0}
  /\ Blk \in [0 .. MAX_ORDER - 1 -> Nat \ {0}]
  /\ Blk[0] = 1
  /\ \A k \in 0 .. MAX_ORDER - 2 : Blk[k + 1] = 2 * Blk[k]
  /\ PAGE \in Nat \ {0} /\ ADDR \in Nat \ {0} /\ PER_PAGE \in Nat \ {0}
  /\ KernelEnd \in Nat /\ IdentEnd \in Nat
  /\ \A map \in Maps \ {NoMap} :
       /\ map \in Seq([type : Nat, base : Nat, len : Nat])
       /\ \E k \in DOMAIN map :
            map[k].type = 1 /\ NFrames * PAGE <= map[k].base + map[k].len
       /\ \A k \in DOMAIN map :
            IF map[k].type = 1
            THEN /\ map[k].base + map[k].len < ADDR
                 /\ map[k].base + map[k].len < (NFrames + 1) * PAGE
            ELSE \/ map[k].base + map[k].len < ADDR
                 \/ map[k].base >= (NFrames + 1) * PAGE

VARIABLES flags, free, current, last, size, order, pc,   \* build_buddy()
          mem,        \* page tables
          ref,        \* mm_frame.ref_num of every frame
          mmap,       \* the firmware's memory map
          step,       \* where mm_init() is
          i,          \* index of the loop mm_init() is in
          max_addr,
          frame_num,  \* mm_frame_num
          stray       \* frame numbers beyond the table that were written

buddy  == <<free, current, last, size, order, pc>>
memVars == <<flags, free, current, last, size, order, pc, mem, ref, mmap, step, i,
             max_addr, frame_num, stray>>

Buddy == INSTANCE BuildBuddy

RamFrames == 0 .. NFrames - 1

-----------------------------------------------------------------------------
\* teos_addralign(n, block) / block
CeilDiv(n, block) == (n + block - 1) \div block

\* Page offsets from TEOS_KERNEL_BASE; the frame table starts at KernelEnd.
KernelPage(p)   == KDIR * PER_TAB + p
EntryPage(f)    == KernelEnd + f \div PER_PAGE       \* of &ftable_start[f]
TablePages      == CeilDiv(frame_num, PER_PAGE)

\* (uint32_t)ftable_end > PAGE_IDENT_END, both counted in table entries
Beyond  == (KernelEnd - IdentEnd) * PER_PAGE + frame_num
pg_cnt  == CeilDiv(Beyond, PER_PAGE)
tab_cnt == CeilDiv(pg_cnt, PER_TAB)

\* A page of the kernel's range is backed by memory the program can rely on.
Mapped(p) == Walk(mem, KernelPage(p)) \notin {Absent, Junk}

\* Frames start/PAGE up to but not including (start+len)/PAGE.
Range(start, len) == start \div PAGE .. (((start + len) % ADDR) \div PAGE) - 1

\* The frames that hold page tables, and what tables remain when the program
\* clears the memory of frame f.
TabFrames == {DirFrame, SelfFrame} \cup {DmaEnd + k * PER_TAB : k \in 0 .. PGT - KDIR - 2}
Clear(m, f) == IF f \in DOMAIN m THEN [m EXCEPT ![f] = [s \in Slots |-> Absent]] ELSE m

-----------------------------------------------------------------------------
Init == /\ flags \in {[f \in RamFrames |-> m] : m \in {{}, {"RESV", "TABLE", "KERNEL", "DMA"}}}
        /\ free = Buddy!EmptyLists      \* .bss: the lists' next pointers are null
        /\ current = 0 /\ last = 0 /\ size = 0 /\ order = 0 /\ pc = "idle"
        /\ mem = BootTables(TabFrames)
        /\ ref = [f \in RamFrames |-> 0]
        /\ mmap \in Maps
        /\ step = "call" /\ i = 1
        /\ max_addr = 0 /\ frame_num = 0 /\ stray = {}

Call == /\ step = "call"
        /\ step' = IF mmap = NoMap THEN "error" ELSE "scan"
        /\ UNCHANGED <<flags, buddy, mem, ref, mmap, i, max_addr, frame_num, stray>>

\* Mutant: the last available region decides, not the highest.
ScanLast ==
  /\ step = "scan"
  /\ i <= Len(mmap)
  /\ max_addr' = IF mmap[i].type = 1 THEN (mmap[i].base + mmap[i].len) % ADDR ELSE max_addr
  /\ i' = i + 1
  /\ UNCHANGED <<flags, buddy, mem, ref, mmap, step, frame_num, stray>>

\* First loop over the map: the highest end of available memory.
ScanEntry ==
  /\ step = "scan"
  /\ i <= Len(mmap)
  /\ LET upper == (mmap[i].base + mmap[i].len) % ADDR IN
       max_addr' = IF mmap[i].type = 1 /\ upper > max_addr THEN upper ELSE max_addr
  /\ i' = i + 1
  /\ UNCHANGED <<flags, buddy, mem, ref, mmap, step, frame_num, stray>>

\* mm_phy_init(): set up the window, place the frame table after the kernel,
\* map more pages if its end lies beyond PAGE_IDENT_END.
PhyInit ==
  /\ step = "scan"
  /\ i > Len(mmap)
  /\ mem' = PageInitSelf(mem)
  /\ frame_num' = max_addr \div PAGE
  /\ i' = 0
  /\ step' = IF Beyond' > 0 THEN "tables" ELSE "clear"
  /\ UNCHANGED <<flags, buddy, ref, mmap, max_addr, stray>>

\* page_make_tab(MM_DMA_END + (i << 22), MM_BOOT_END + (i << 22), ...)
MapTable == /\ step = "tables"
            /\ i < tab_cnt
            /\ mem' = PageMakeTab(mem, DmaEnd + i * PER_TAB,
                                  KernelPage(BootEnd + i * PER_TAB))
            /\ i' = i + 1
            /\ UNCHANGED <<flags, buddy, ref, mmap, step, max_addr, frame_num, stray>>

TablesMapped == /\ step = "tables"
                /\ i >= tab_cnt
                /\ step' = "pages" /\ i' = 0
                /\ UNCHANGED <<flags, buddy, mem, ref, mmap, max_addr, frame_num, stray>>

\* page_make(MM_DMA_END + ((i + tab_cnt) << 12), MM_BOOT_END + (i << 12), ...)
MapPage == /\ step = "pages"
           /\ i < pg_cnt
           /\ mem' = PageMake(mem, DmaEnd + i + tab_cnt, KernelPage(BootEnd + i))
           /\ i' = i + 1
           /\ UNCHANGED <<flags, buddy, ref, mmap, step, max_addr, frame_num, stray>>

-----------------------------------------------------------------------------
\* Mutant: the mark replaces the marks before it.
MarkOnly(range, mark) ==
  /\ flags' = [f \in RamFrames |-> IF f \in range THEN mark ELSE flags[f]]
  /\ stray' = stray \cup {f \in range : f >= frame_num}

\* mm_phy_mark(): or the mark into the flags of every frame of the range.  An
\* entry beyond ftable_end is written like any other.
Mark(range, mark) ==
  /\ flags' = [f \in RamFrames |-> IF f \in range THEN flags[f] \cup mark ELSE flags[f]]
  /\ stray' = stray \cup {f \in range : f >= frame_num}

\* mm_phy_use(): mark, and count one more user.
Use(range, mark) ==
  /\ Mark(range, mark)
  /\ ref' = [f \in RamFrames |-> IF f \in range THEN ref[f] + 1 ELSE ref[f]]

TableRange == DmaEnd .. DmaEnd + tab_cnt - 1
DataRange  == DmaEnd + tab_cnt .. DmaEnd + tab_cnt + pg_cnt - 1

\* Mutant: regions above the top of RAM are reserved as well.
ToReserveAll(e) == e.type # 1

\* Second loop over the map: what mm_phy_reserve() is called for.
ToReserve(e) == e.type # 1 /\ e.base < max_addr

\* The pages of the frame table that mm_init()'s next step reads or writes.
EntryPages(range) == {EntryPage(f) : f \in range}
TouchedPages ==
  CASE step = "pages" /\ i >= pg_cnt       -> EntryPages(TableRange)
    [] step = "usePages"                   -> EntryPages(DataRange)
    [] step = "clear" /\ i < TablePages    -> {KernelEnd + i}
    [] step = "reserve" /\ i <= Len(mmap)  ->
         IF ToReserve(mmap[i]) THEN EntryPages(Range(mmap[i].base, mmap[i].len)) ELSE {}
    [] step = "reserve" /\ i > Len(mmap)   -> EntryPages(0 .. DmaEnd - 1)
    [] step = "boot"                       -> EntryPages(0 .. BootEnd - 1)
    [] step \in {"buddyStart", "buddy"}    -> EntryPages(RamFrames)
    [] OTHER                               -> {}

\* A page fault (vector 14) does not return: the step is never made.
NoFault == \A p \in TouchedPages : Mapped(p)

\* A call of mm_phy_use() at step at, going on to step to.
UseAt(at, to, range, mark) ==
  /\ step = at
  /\ NoFault
  /\ Use(range, mark)
  /\ step' = to /\ i' = 0
  /\ UNCHANGED <<buddy, mem, mmap, max_addr, frame_num>>

UseTables == i >= pg_cnt /\ UseAt("pages", "usePages", TableRange, {"KERNEL", "TABLE"})
UsePages  == UseAt("usePages", "clear", DataRange, {"KERNEL"})

\* teos_zeros(ftable_start, ...), one page of the table at a time: it zeroes the
\* entries of the page, and a page table if one lives in the frame behind it.
ClearPage ==
  /\ step = "clear"
  /\ i < TablePages
  /\ NoFault
  /\ flags' = [f \in RamFrames |-> IF EntryPage(f) = KernelEnd + i THEN {} ELSE flags[f]]
  /\ ref'   = [f \in RamFrames |-> IF EntryPage(f) = KernelEnd + i THEN 0 ELSE ref[f]]
  /\ mem'   = Clear(mem, Walk(mem, KernelPage(KernelEnd + i)))
  /\ i' = i + 1
  /\ UNCHANGED <<buddy, mmap, step, max_addr, frame_num, stray>>

Cleared == /\ step = "clear"
           /\ i >= TablePages
           /\ step' = "reserve" /\ i' = 1
           /\ UNCHANGED <<flags, buddy, mem, ref, mmap, max_addr, frame_num, stray>>

\* Mutant: an available region is skipped with the step to the next entry.
ReserveStuck ==
  /\ step = "reserve"
  /\ i <= Len(mmap)
  /\ NoFault
  /\ LET e == mmap[i] IN
       /\ Mark(IF ToReserve(e) THEN Range(e.base, e.len) ELSE {}, {"RESV"})
       /\ i' = IF ToReserve(e) THEN i + 1 ELSE i
  /\ UNCHANGED <<buddy, mem, ref, mmap, step, max_addr, frame_num>>

ReserveEntry ==
  /\ step = "reserve"
  /\ i <= Len(mmap)
  /\ NoFault
  /\ LET e == mmap[i] IN
       Mark(IF ToReserve(e) THEN Range(e.base, e.len) ELSE {}, {"RESV"})
  /\ i' = i + 1
  /\ UNCHANGED <<buddy, mem, ref, mmap, step, max_addr, frame_num>>

MarkDma == /\ step = "reserve"
           /\ i > Len(mmap)
           /\ NoFault
           /\ Mark(0 .. DmaEnd - 1, {"DMA"})
           /\ step' = "boot"
           /\ UNCHANGED <<buddy, mem, ref, mmap, i, max_addr, frame_num>>

\* Mutant: only the frames of the image itself are taken.
UseImage == UseAt("boot", "buddyStart", 0 .. KernelEnd - 1, {"KERNEL"})

UseBoot == UseAt("boot", "buddyStart", 0 .. BootEnd - 1, {"KERNEL"})

-----------------------------------------------------------------------------
StartBuddy == /\ step = "buddyStart"
              /\ NoFault
              /\ free' = Buddy!EmptyLists
              /\ current' = 0 /\ last' = 0 /\ size' = 0 /\ order' = 0
              /\ pc' = "scan"
              /\ step' = "buddy"
              /\ UNCHANGED <<flags, mem, ref, mmap, i, max_addr, frame_num, stray>>

RunBuddy == /\ step = "buddy"
            /\ NoFault
            /\ Buddy!Step
            /\ UNCHANGED <<mem, ref, mmap, step, i, max_addr, frame_num, stray>>

Return == /\ step = "buddy" /\ pc = "done"
          /\ step' = "done"
          /\ UNCHANGED <<flags, buddy, mem, ref, mmap, i, max_addr, frame_num, stray>>

Advance == \/ Call \/ ScanEntry \/ PhyInit
           \/ MapTable \/ TablesMapped \/ MapPage \/ UseTables \/ UsePages
           \/ ClearPage \/ Cleared \/ ReserveEntry \/ MarkDma \/ UseBoot
           \/ StartBuddy \/ RunBuddy \/ Return

Stopped == step \in {"done", "error"} /\ UNCHANGED memVars

Next == Advance \/ Stopped

\* mm_init() runs to its end: no interrupt is enabled and nothing waits.
Spec == Init /\ [][Next]_memVars /\ WF_memVars(Advance)

-----------------------------------------------------------------------------
Steps == {"call", "scan", "tables", "pages", "usePages", "clear", "reserve", "boot",
          "buddyStart", "buddy", "done", "error"}

\* Loop indices, marks and tables stay in range, and no mark is written behind
\* the end of the frame table.
TypeOK == /\ flags \in [RamFrames -> SUBSET {"RESV", "TABLE", "KERNEL", "DMA"}]
          /\ ref \in [RamFrames -> Nat]
          /\ mem \in [TabFrames -> [Slots -> {Absent, Junk} \cup Nat]]
          /\ mmap \in Maps
          /\ step \in Steps
          /\ i \in Nat /\ max_addr \in 0 .. ADDR - 1 /\ frame_num \in Nat
          /\ stray = {}

Entries == IF mmap = NoMap THEN {} ELSE {mmap[k] : k \in 1 .. Len(mmap)}

\* The frame table has an entry for every whole page of available memory, in
\* whatever order the firmware lists the regions, and none beyond it.
TableCoversRam ==
  step \notin {"call", "scan", "error"} =>
    /\ \A e \in Entries : e.type = 1 => e.base + e.len <= (frame_num + 1) * PAGE - 1
    /\ \E e \in Entries : e.type = 1 /\ frame_num * PAGE <= e.base + e.len

\* mm_init() never touches a page of the frame table that is not mapped.  The
\* comment at phy_mem.c:67 says it of the part beyond the first 4 MB: "map the
\* excess additionally".
MappedBeforeUse == NoFault

\* A page that lies wholly in a region the firmware keeps, or in which such a
\* region begins, is on no free list, although the marks are set by one loop
\* and read by another, with the clearing of the table in the same function.
ReservedNeverFree ==
  \A e \in Entries : e.type # 1 =>
    \A h \in Buddy!Handles :
      Buddy!Extent(h) \cap (e.base \div PAGE .. ((e.base + e.len) \div PAGE) - 1) = {}

\* The boot image's 4 MB (kernel, page directory, page_self_tab, the start of
\* the frame table) are on no free list, and the DMA lists hold exactly the
\* blocks below 16 MB.
BootImageNeverFree ==
  \A h \in Buddy!Handles : \A f \in Buddy!Extent(h) :
    f >= BootEnd /\ (f < DmaEnd <=> h[1] = "dma")

\* mm_init() returns.
Returns == <>(step \in {"done", "error"})

\* phy_mem.c:91 and 93: "mark the frames the mapping tables occupy", "mark the
\* frames the memory management structures occupy": a frame that holds an
\* installed page table is never handed to a free list.
PageTablesNeverFree ==
  \A h \in Buddy!Handles : \A k \in KDIR + 1 .. PGT - 1 :
    mem[DirFrame][k] \notin Buddy!Extent(h)
=============================================================================
