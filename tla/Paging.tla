------------------------------- MODULE Paging -------------------------------
(***************************************************************************)
(* page.c driven by any caller that keeps its contract (the only caller is *)
(* mm_phy_init()): page_init_self() first, then page_make_tab() once per   *)
(* directory index with a frame of its own, and page_make() for pages that *)
(* have a table.  Every store goes through the self-map window, so a wrong *)
(* window entry corrupts a table other than the one meant.                 *)
(***************************************************************************)
EXTENDS PageTables, FiniteSets

CONSTANTS TabFrames,   \* frames the caller gives to new tables
          DataFrames,  \* frames the caller maps pages to
          MadePages    \* the virtual pages the caller maps

Tables  == {DirFrame, SelfFrame} \cup TabFrames
VPages  == 0 .. PER_TAB * PER_TAB - 1
Indices == KDIR + 1 .. PGT - 1      \* from MM_BOOT_END up to the window

ASSUME PagingAssumption ==
  /\ MadePages \subseteq {v \in VPages : DirIdx(v) \in Indices}
  /\ TabFrames \cap {DirFrame, SelfFrame} = {}
  /\ TabFrames \cup DataFrames \subseteq Nat

VARIABLES mem,    \* the memory of the frames in Tables
          ready   \* page_init_self() has run

pagingVars == <<mem, ready>>

Init == mem = BootTables(Tables) /\ ready = FALSE

InitSelf == /\ ~ready
            /\ mem' = PageInitSelf(mem)
            /\ ready' = TRUE

HasTable(i) == mem[DirFrame][i] # Absent
Installed   == {i \in Indices : HasTable(i)}
FrameInUse(f) == \E i \in Indices : mem[DirFrame][i] = f

MakeTab(f, i) == /\ ready
                 /\ ~HasTable(i)
                 /\ ~FrameInUse(f)
                 /\ mem' = PageMakeTab(mem, f, i * PER_TAB)
                 /\ UNCHANGED ready

Make(f, v) == /\ ready
              /\ HasTable(DirIdx(v))
              /\ mem' = PageMake(mem, f, v)
              /\ UNCHANGED ready

Next == \/ InitSelf
        \/ \E f \in TabFrames, i \in Indices : MakeTab(f, i)
        \/ \E f \in DataFrames, v \in MadePages : Make(f, v)

Spec == Init /\ [][Next]_pagingVars

-----------------------------------------------------------------------------
\* Tables hold entries, and directory slots nobody sets stay absent.
TypeOK == /\ mem \in [Tables -> [Slots -> {Absent, Junk} \cup Nat]]
          /\ ready \in BOOLEAN
          /\ \A i \in Slots \ (Indices \cup {KDIR, PGT}) : mem[DirFrame][i] = Absent

\* The self-map of page_init_self() and page_make_tab(): the window shows, at
\* the place of every installed table, that table; at the kernel's place the
\* directory itself (PAGE_DIR) and at its own place itself (PAGE_SELF).
\* Every address computation of page.c rests on this.
SelfMapCoherent ==
  ready => /\ \A i \in Installed : Walk(mem, WindowPage(i)) = mem[DirFrame][i]
           /\ Walk(mem, DirWindow) = DirFrame
           /\ Walk(mem, SelfWindow) = SelfFrame

\* The address space the callers see (module AddressSpace), from the moment
\* page_init_self() has set up the window.
Space == INSTANCE AddressSpace
           WITH Pages <- VPages, Window <- WindowPage, Dir <- DirIdx,
                TableFrames <- TabFrames, Given <- DataFrames,
                map <- [v \in VPages |-> Walk(IF ready THEN mem ELSE PageInitSelf(mem), v)],
                tabs <- Installed
SpaceSpec == Space!Spec
=============================================================================
