----------------------------- MODULE PageTables -----------------------------
(***************************************************************************)
(* The page tables of src/src/kernel/arch/i386/page.c as pure operators:   *)
(* the walk the i386 MMU makes, and the three functions that write tables  *)
(* through the self-map window at the top of the address space.  Paging    *)
(* and MemoryInit are state machines over these operators.                 *)
(*                                                                         *)
(* A virtual page is a number v; v \div PER_TAB is its directory index and *)
(* v % PER_TAB its table index.  Memory that holds tables is a function    *)
(* from frames to their PER_TAB entries; an entry is Absent, or the number *)
(* of the frame it maps, or Junk: a present entry nobody wrote.            *)
(***************************************************************************)
EXTENDS Integers

CONSTANTS PER_TAB,     \* PAGE_PER_TAB, entries of a directory and of a table (1024)
          KDIR,        \* page_get_dir_idx(TEOS_KERNEL_BASE) (768)
          PGT,         \* page_get_dir_idx(TEOS_KERNEL_PGT) (1023)
          DirFrame,    \* the frame of BootPageDirectory
          SelfFrame    \* the frame of page_self_tab

ASSUME PageTablesAssumption ==
  /\ PER_TAB \in Nat /\ KDIR \in Nat /\ PGT \in Nat
  /\ KDIR < PGT /\ PGT < PER_TAB
  /\ DirFrame \in Nat /\ SelfFrame \in Nat /\ DirFrame # SelfFrame

Absent == -1
Junk   == -2

Slots == 0 .. PER_TAB - 1
DirIdx(v) == v \div PER_TAB        \* page_get_dir_idx
TabIdx(v) == v % PER_TAB           \* page_get_tab_idx

WindowPage(idx) == PGT * PER_TAB + idx       \* &PAGE_TABS[idx]
DirWindow       == WindowPage(KDIR)          \* PAGE_DIR
SelfWindow      == WindowPage(PGT)           \* PAGE_SELF

\* The frame the MMU finds for virtual page v, or Absent for a page fault.
\* The directory entry of the kernel is a 4 MB page (bit PS, boot.S), all
\* others point to tables; a table outside DOMAIN m is unrelated memory.
Walk(m, v) ==
  LET pde == m[DirFrame][DirIdx(v)] IN
  IF pde = Absent THEN Absent
  ELSE IF DirIdx(v) = KDIR THEN pde + TabIdx(v)
  ELSE IF pde \in DOMAIN m THEN m[pde][TabIdx(v)]
  ELSE Junk

\* A store of one entry to slot s of virtual page v; a store that hits memory
\* that holds no table changes no table.
Store(m, v, s, entry) ==
  IF Walk(m, v) \in DOMAIN m THEN [m EXCEPT ![Walk(m, v)][s] = entry] ELSE m

\* page_init_self(): the first two stores go to the tables' link addresses in
\* the 4 MB page, the last one too.
PageInitSelf(m) ==
  [m EXCEPT ![DirFrame][PGT]   = SelfFrame,
            ![SelfFrame][PGT]  = SelfFrame,
            ![SelfFrame][KDIR] = DirFrame]

\* Mutant: the window does not learn of the new table.
PageMakeTabUnseen(m, frame, v) == Store(m, DirWindow, DirIdx(v), frame)

\* page_make_tab(paddr, vaddr, model): the entries are those of the table at
\* paddr as it stands; the table is not cleared.
PageMakeTab(m, frame, v) ==
  Store(Store(m, DirWindow, DirIdx(v), frame), SelfWindow, DirIdx(v), frame)

\* Mutants: the page is written into the directory; with the two indices swapped.
PageMakeInDir(m, frame, v)   == Store(m, DirWindow, TabIdx(v), frame)
PageMakeSwapped(m, frame, v)  == Store(m, WindowPage(TabIdx(v)), DirIdx(v), frame)

\* page_make(paddr, vaddr, model): the assertion that the table is present
\* prints and goes on (int3), so it is not a guard here.
PageMake(m, frame, v) ==
  Store(m, WindowPage(DirIdx(v)), TabIdx(v), frame)

\* The tables boot.S leaves: two 4 MB entries, the lower one cleared again in
\* higher_half_mode, and page_self_tab in .bss; others hold what RAM held.
BootTables(frames) ==
  [f \in frames |->
     IF f = DirFrame  THEN [s \in Slots |-> IF s = KDIR THEN 0 ELSE Absent]
     ELSE IF f = SelfFrame THEN [s \in Slots |-> Absent]
     ELSE [s \in Slots |-> Junk]]
=============================================================================
