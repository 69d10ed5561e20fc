---------------------------- MODULE PagingProofs ----------------------------
(***************************************************************************)
(* Proofs about Paging for every size of a table and every place of the    *)
(* kernel and the window: the window shows the tables, and so what callers *)
(* see is an address space in which a page is changed by mapping it only.  *)
(***************************************************************************)
EXTENDS Paging, TLAPS

Entries == {Absent, Junk} \cup Nat

\* The window's own table has the entries of the directory, at the kernel's
\* place the directory, and every table a frame of its own.
WindowInv ==
  /\ mem \in [Tables -> [Slots -> Entries]]
  /\ \A i \in Slots \ (Indices \cup {KDIR, PGT}) : mem[DirFrame][i] = Absent
  /\ \A i \in Indices : mem[DirFrame][i] \in TabFrames \cup {Absent}
  /\ \A i, j \in Indices : i # j /\ HasTable(i) => mem[DirFrame][i] # mem[DirFrame][j]
  /\ ready => /\ mem[DirFrame][PGT] = SelfFrame
              /\ mem[SelfFrame][PGT] = SelfFrame /\ mem[SelfFrame][KDIR] = DirFrame
              /\ \A i \in Indices : HasTable(i) => mem[SelfFrame][i] = mem[DirFrame][i]
  /\ ~ready => \A i \in Indices : mem[DirFrame][i] = Absent

-----------------------------------------------------------------------------
(* Pages and their two indices.                                            *)

\* Quotient and remainder of a number put together from its two digits.
LEMMA Quotient ==
  ASSUME NEW n \in Nat, NEW p \in Nat, NEW i \in Nat, i < n
  PROVE  (p * n + i) \div n = p /\ (p * n + i) % n = i
  OBVIOUS

\* A number below n * n is its two digits to the base n.
LEMMA Parts ==
  ASSUME NEW n \in Nat, n > 0, NEW v \in 0 .. n * n - 1
  PROVE  /\ v = (v \div n) * n + (v % n)
         /\ v % n \in 0 .. n-1
         /\ v \div n \in 0 .. n-1
<1>1. v = (v \div n) * n + (v % n)
  OBVIOUS
<1>2. v % n \in 0 .. n-1
  OBVIOUS
<1>3. v \div n \in Nat
  OBVIOUS
<1>4. ASSUME v \div n >= n PROVE FALSE
  <2>1. (v \div n) * n >= n * n
    BY <1>3, <1>4
  <2>2. n * n \in Nat
    OBVIOUS
  <2> QED
    BY <1>1, <1>2, <1>3, <2>1, <2>2
<1> QED
  BY <1>1, <1>2, <1>3, <1>4

\* The window's page of an index has the window's index and that place.
LEMMA WindowIs ==
  ASSUME NEW i \in Slots
  PROVE  /\ DirIdx(WindowPage(i)) = PGT /\ TabIdx(WindowPage(i)) = i
         /\ WindowPage(i) \in VPages /\ DirIdx(i * PER_TAB) = i
<1>1. PER_TAB \in Nat /\ PGT \in Nat /\ PGT <= PER_TAB - 1 /\ i \in Nat /\ i < PER_TAB /\ 0 < PER_TAB
  BY PageTablesAssumption DEF Slots
<1>2. PGT * PER_TAB \in Nat /\ PGT * PER_TAB <= (PER_TAB - 1) * PER_TAB
  BY <1>1
<1>3. PGT * PER_TAB + i \in 0 .. PER_TAB * PER_TAB - 1
  BY <1>1, <1>2
<1>4. (PGT * PER_TAB + i) \div PER_TAB = PGT /\ (PGT * PER_TAB + i) % PER_TAB = i
  BY <1>1, Quotient
<1>5. (i * PER_TAB + 0) \div PER_TAB = i /\ i * PER_TAB + 0 = i * PER_TAB
  BY <1>1, Quotient
<1> QED
  BY <1>3, <1>4, <1>5 DEF WindowPage, DirIdx, TabIdx, VPages

\* A page is its two indices.
LEMMA PageIs ==
  ASSUME NEW v \in VPages
  PROVE  /\ DirIdx(v) \in Slots /\ TabIdx(v) \in Slots
         /\ v = DirIdx(v) * PER_TAB + TabIdx(v)
<1>1. PER_TAB \in Nat /\ PER_TAB > 0 /\ v \in 0 .. PER_TAB * PER_TAB - 1
  BY PageTablesAssumption DEF VPages
<1> QED
  BY <1>1, Parts DEF DirIdx, TabIdx, Slots

\* Where things are: the kernel, the window and the callers' indices differ.
LEMMA Places ==
  /\ KDIR \in Slots /\ PGT \in Slots /\ KDIR # PGT
  /\ Indices \subseteq Slots \ {KDIR, PGT}
  /\ DirFrame \in Tables /\ SelfFrame \in Tables /\ DirFrame # SelfFrame
  /\ TabFrames \subseteq Tables \ {DirFrame, SelfFrame} /\ Absent \notin TabFrames
  /\ TabFrames \subseteq Nat /\ DataFrames \subseteq Nat /\ Absent # SelfFrame /\ Absent # DirFrame
  BY PageTablesAssumption, PagingAssumption DEF Slots, Indices, Tables, Absent

-----------------------------------------------------------------------------
(* What the three functions of page.c do to the tables.                    *)

\* The walk of a page of the window ends at the window's own table.
LEMMA WalkWindow ==
  ASSUME WindowInv, ready, NEW i \in Slots
  PROVE  Walk(mem, WindowPage(i)) = mem[SelfFrame][i]
  BY WindowIs, Places DEF WindowInv, Walk

\* page_init_self() writes three entries.
LEMMA InitSelfIs ==
  ASSUME WindowInv
  PROVE  /\ PageInitSelf(mem) \in [Tables -> [Slots -> Entries]]
         /\ \A t \in Tables, s \in Slots :
              PageInitSelf(mem)[t][s] =
                IF t = DirFrame /\ s = PGT THEN SelfFrame
                ELSE IF t = SelfFrame /\ s = PGT THEN SelfFrame
                ELSE IF t = SelfFrame /\ s = KDIR THEN DirFrame
                ELSE mem[t][s]
<1>1. DirFrame \in Entries /\ SelfFrame \in Entries
  BY PageTablesAssumption DEF Entries
<1> QED
  BY <1>1, Places DEF WindowInv, PageInitSelf

\* page_make_tab() writes one entry of the directory and one of the window.
LEMMA MakeTabIs ==
  ASSUME WindowInv, NEW f \in TabFrames, NEW i \in Indices, MakeTab(f, i)
  PROVE  /\ mem' \in [Tables -> [Slots -> Entries]]
         /\ \A t \in Tables, s \in Slots :
              mem'[t][s] = IF t \in {DirFrame, SelfFrame} /\ s = i THEN f ELSE mem[t][s]
<1> DEFINE m1 == [mem EXCEPT ![DirFrame][i] = f]
           m2 == [m1 EXCEPT ![SelfFrame][i] = f]
<1>1. ready /\ i \in Slots /\ DirIdx(i * PER_TAB) = i /\ i # PGT /\ i # KDIR /\ f \in Entries
  BY Places, WindowIs DEF MakeTab, Entries
<1>2. Walk(mem, DirWindow) = DirFrame
  BY <1>1, WalkWindow, Places DEF DirWindow, WindowInv
<1>3. DOMAIN mem = Tables
  BY DEF WindowInv
<1>4. Store(mem, DirWindow, i, f) = m1
  BY <1>2, <1>3, Places DEF Store
<1>5. /\ m1 \in [Tables -> [Slots -> Entries]]
      /\ m1[DirFrame][PGT] = SelfFrame /\ m1[SelfFrame][PGT] = SelfFrame
  BY <1>1, Places DEF WindowInv
<1>6. Walk(m1, SelfWindow) = SelfFrame
  <2> HIDE DEF m1
  <2> QED
    BY <1>5, WindowIs, Places DEF SelfWindow, Walk
<1>7. Store(m1, SelfWindow, i, f) = m2
  <2> HIDE DEF m1
  <2> QED
    BY <1>5, <1>6, Places DEF Store
<1>8. mem' = m2
  BY <1>1, <1>4, <1>7 DEF MakeTab, PageMakeTab
<1>9. /\ m1 \in [Tables -> [Slots -> Entries]]
      /\ \A t \in Tables, s \in Slots :
              m1[t][s] = IF t = DirFrame /\ s = i THEN f ELSE mem[t][s]
  BY <1>1, Places DEF WindowInv
<1>10. /\ m2 \in [Tables -> [Slots -> Entries]]
       /\ \A t \in Tables, s \in Slots :
              m2[t][s] = IF t = SelfFrame /\ s = i THEN f ELSE m1[t][s]
  <2> HIDE DEF m1
  <2> QED
    BY <1>1, <1>9, Places
<1> HIDE DEF m1, m2
<1> QED
  BY <1>8, <1>9, <1>10

\* page_make() writes one entry of the page's own table.
LEMMA MakeIs ==
  ASSUME WindowInv, NEW f \in DataFrames, NEW v \in MadePages, Make(f, v)
  PROVE  /\ v \in VPages /\ DirIdx(v) \in Indices /\ mem[DirFrame][DirIdx(v)] \in TabFrames
         /\ mem' \in [Tables -> [Slots -> Entries]]
         /\ \A t \in Tables, s \in Slots :
              mem'[t][s] = IF t = mem[DirFrame][DirIdx(v)] /\ s = TabIdx(v)
                           THEN f ELSE mem[t][s]
<1> DEFINE tab == mem[DirFrame][DirIdx(v)]
<1>1. ready /\ v \in VPages /\ DirIdx(v) \in Indices /\ HasTable(DirIdx(v))
  BY PagingAssumption DEF Make
<1>2. tab \in TabFrames
  BY <1>1 DEF WindowInv, HasTable
<1>3. Walk(mem, WindowPage(DirIdx(v))) = tab
  BY <1>1, WalkWindow, Places DEF WindowInv
<1>4. TabIdx(v) \in Slots /\ f \in Entries /\ tab \in Tables
  BY <1>1, <1>2, PageIs, Places DEF Entries
<1>5. mem' = [mem EXCEPT ![tab][TabIdx(v)] = f]
  BY <1>3, <1>4 DEF Make, PageMake, Store, WindowInv
<1> HIDE DEF tab
<1>6. /\ mem' \in [Tables -> [Slots -> Entries]]
      /\ \A t \in Tables, s \in Slots :
              mem'[t][s] = IF t = tab /\ s = TabIdx(v) THEN f ELSE mem[t][s]
  BY <1>4, <1>5 DEF WindowInv
<1> QED
  BY <1>1, <1>2, <1>6 DEF tab

-----------------------------------------------------------------------------
(* The window shows the tables.                                            *)

\* Nothing is installed at first.
LEMMA InitWindow == Init => WindowInv
<1> SUFFICES ASSUME Init PROVE WindowInv
  OBVIOUS
<1>1. mem = [f \in Tables |->
               IF f = DirFrame  THEN [s \in Slots |-> IF s = KDIR THEN 0 ELSE Absent]
               ELSE IF f = SelfFrame THEN [s \in Slots |-> Absent]
               ELSE [s \in Slots |-> Junk]]
  BY DEF Init, BootTables
<1>2. {0, Absent, Junk} \subseteq Entries
  BY DEF Entries
<1>3. mem \in [Tables -> [Slots -> Entries]]
  BY <1>1, <1>2
<1>4. \A s \in Slots : mem[DirFrame][s] = IF s = KDIR THEN 0 ELSE Absent
  BY <1>1, Places
<1>5. ~ready
  BY Zenon DEF Init
<1> QED
  BY <1>3, <1>4, <1>5, Places DEF WindowInv, HasTable

\* page_init_self() sets the window up.
LEMMA InitSelfWindow ==
  ASSUME WindowInv, InitSelf
  PROVE  WindowInv'
<1>1. mem' = PageInitSelf(mem) /\ ready' /\ ~ready
  BY Zenon DEF InitSelf
<1>2. \A i \in Indices : mem'[DirFrame][i] = Absent
  BY <1>1, InitSelfIs, Places DEF WindowInv
<1>3. mem' \in [Tables -> [Slots -> Entries]]
  BY <1>1, InitSelfIs
<1>4. /\ mem'[DirFrame][PGT] = SelfFrame
      /\ mem'[SelfFrame][PGT] = SelfFrame /\ mem'[SelfFrame][KDIR] = DirFrame
  BY <1>1, InitSelfIs, Places
<1>5. \A i \in Slots \ (Indices \cup {KDIR, PGT}) : mem'[DirFrame][i] = Absent
  BY <1>1, InitSelfIs, Places DEF WindowInv
<1> QED
  BY <1>1, <1>2, <1>3, <1>4, <1>5 DEF WindowInv, HasTable

\* page_make_tab() keeps it: a table comes with its place in the window.
LEMMA MakeTabWindow ==
  ASSUME WindowInv, NEW f \in TabFrames, NEW i \in Indices, MakeTab(f, i)
  PROVE  WindowInv'
<1>1. ready /\ ready' = ready /\ ~HasTable(i) /\ \A j \in Indices : mem[DirFrame][j] # f
  BY Zenon DEF MakeTab, FrameInUse
<1>2. \A j \in Slots : /\ mem'[DirFrame][j] = IF j = i THEN f ELSE mem[DirFrame][j]
                       /\ mem'[SelfFrame][j] = IF j = i THEN f ELSE mem[SelfFrame][j]
  BY MakeTabIs, Places
<1>3. ready'
  BY Zenon, <1>1
<1>4. mem' \in [Tables -> [Slots -> Entries]]
  BY MakeTabIs
<1>5. \A j \in Slots \ (Indices \cup {KDIR, PGT}) : mem'[DirFrame][j] = Absent
  BY <1>2 DEF WindowInv
<1>6. \A j \in Indices : mem'[DirFrame][j] \in TabFrames \cup {Absent}
  BY <1>2, Places DEF WindowInv
<1>7. \A j, k \in Indices : j # k /\ HasTable(j)' => mem'[DirFrame][j] # mem'[DirFrame][k]
  BY <1>1, <1>2, Places DEF WindowInv, HasTable
<1>8. /\ mem'[DirFrame][PGT] = SelfFrame
      /\ mem'[SelfFrame][PGT] = SelfFrame /\ mem'[SelfFrame][KDIR] = DirFrame
      /\ \A j \in Indices : HasTable(j)' => mem'[SelfFrame][j] = mem'[DirFrame][j]
  BY <1>1, <1>2, Places DEF WindowInv, HasTable
<1> QED
  BY <1>3, <1>4, <1>5, <1>6, <1>7, <1>8 DEF WindowInv

\* page_make() writes to a table of its own, not to the directory or the window.
LEMMA MakeWindow ==
  ASSUME WindowInv, NEW f \in DataFrames, NEW v \in MadePages, Make(f, v)
  PROVE  WindowInv'
<1> DEFINE tab == mem[DirFrame][DirIdx(v)]
           idx == TabIdx(v)
<1>0. /\ tab \in TabFrames
      /\ \A t \in Tables, s \in Slots :
           mem'[t][s] = IF t = tab /\ s = idx THEN f ELSE mem[t][s]
  BY MakeIs
<1> HIDE DEF tab, idx
<1>1. \A t \in {DirFrame, SelfFrame}, s \in Slots : mem'[t][s] = mem[t][s]
  <2>1. /\ tab # DirFrame /\ tab # SelfFrame
        /\ DirFrame \in Tables /\ SelfFrame \in Tables
    BY <1>0, Places
  <2> QED
    BY <1>0, <2>1
<1>2. mem' \in [Tables -> [Slots -> Entries]]
  BY MakeIs
<1>3. ready' = ready
  BY Zenon DEF Make
<1>4. Indices \subseteq Slots /\ KDIR \in Slots /\ PGT \in Slots
  BY Places
<1>5. \A j \in Indices : HasTable(j)' <=> HasTable(j)
  BY <1>1, <1>4 DEF HasTable
<1> QED
  BY <1>1, <1>2, <1>3, <1>4, <1>5 DEF WindowInv

\* No step spoils the window.
LEMMA StepWindow == WindowInv /\ [Next]_pagingVars => WindowInv'
<1> SUFFICES ASSUME WindowInv, [Next]_pagingVars PROVE WindowInv'
  OBVIOUS
<1>1. CASE UNCHANGED pagingVars
  BY <1>1 DEF pagingVars, WindowInv, HasTable
<1>2. CASE Next
  BY <1>2, InitSelfWindow, MakeTabWindow, MakeWindow DEF Next
<1> QED
  BY <1>1, <1>2

\* Tables hold entries, and slots nobody sets stay absent.
THEOREM TypeCorrect == Spec => []TypeOK
<1>1. WindowInv /\ ready \in BOOLEAN => TypeOK
  BY DEF WindowInv, TypeOK, Entries
<1>2. Init => ready \in BOOLEAN
  BY Zenon DEF Init
<1>3. ready \in BOOLEAN /\ [Next]_pagingVars => (ready \in BOOLEAN)'
  BY Zenon DEF Next, InitSelf, MakeTab, Make, pagingVars
<1> QED
  BY <1>1, <1>2, <1>3, InitWindow, StepWindow, PTL DEF Spec

\* The window shows every table, the directory and itself.
THEOREM WindowCorrect == Spec => []SelfMapCoherent
<1>1. WindowInv => SelfMapCoherent
  <2> SUFFICES ASSUME WindowInv, ready
               PROVE  /\ \A i \in Installed : Walk(mem, WindowPage(i)) = mem[DirFrame][i]
                      /\ Walk(mem, DirWindow) = DirFrame
                      /\ Walk(mem, SelfWindow) = SelfFrame
    BY Zenon DEF SelfMapCoherent
  <2>1. /\ mem[SelfFrame][KDIR] = DirFrame /\ mem[SelfFrame][PGT] = SelfFrame
        /\ \A i \in Installed : i \in Slots /\ mem[SelfFrame][i] = mem[DirFrame][i]
    BY Places DEF WindowInv, Installed
  <2> QED
    BY <2>1, WalkWindow, Places DEF DirWindow, SelfWindow
<1> QED
  BY <1>1, InitWindow, StepWindow, PTL DEF Spec

-----------------------------------------------------------------------------
(* What the callers see is an address space.                               *)

\* The translation of every page by the tables m.
Translation(m) == [v \in VPages |-> Walk(m, v)]
Seen == Translation(IF ready THEN mem ELSE PageInitSelf(mem))

\* The entry of a page's index and where it can lead: to the window's own
\* table for the window, to a table of the callers' elsewhere.
LEMMA EntryOf ==
  ASSUME WindowInv, ready, NEW d \in Slots, d # KDIR, mem[DirFrame][d] # Absent
  PROVE  \/ d = PGT /\ mem[DirFrame][d] = SelfFrame
         \/ d \in Indices /\ mem[DirFrame][d] \in TabFrames
<1>1. d \in Indices \cup {PGT}
  BY DEF WindowInv
<1> QED
  BY <1>1 DEF WindowInv

\* Installing a table changes its window page and the pages of its range only.
LEMMA MakeTabSeen ==
  ASSUME WindowInv, NEW f \in TabFrames, NEW i \in Indices, MakeTab(f, i)
  PROVE  /\ Translation(mem)'[WindowPage(i)] = f
         /\ \A v \in VPages : DirIdx(v) # i /\ v # WindowPage(i) =>
              Translation(mem)'[v] = Translation(mem)[v]
         /\ i \in Indices \ Installed /\ Installed' = Installed \cup {i}
<1>1. ready /\ ready' /\ ~HasTable(i) /\ i \in Slots /\ i # PGT /\ i # KDIR /\ f # Absent
  BY Places, Zenon DEF MakeTab
<1>2. /\ mem' \in [Tables -> [Slots -> Entries]]
      /\ \A t \in Tables, s \in Slots :
           mem'[t][s] = IF t \in {DirFrame, SelfFrame} /\ s = i THEN f ELSE mem[t][s]
  BY MakeTabIs
<1>3. DOMAIN mem = Tables /\ DOMAIN mem' = Tables
  BY <1>2 DEF WindowInv
<1>4. /\ mem'[DirFrame][PGT] = SelfFrame /\ mem'[SelfFrame][i] = f
      /\ SelfFrame \in Tables /\ SelfFrame # Absent /\ KDIR # PGT
  BY <1>1, <1>2, Places DEF WindowInv
<1>5. Walk(mem', WindowPage(i)) = f
  BY <1>1, <1>3, <1>4, WindowIs DEF Walk
<1>6. ASSUME NEW v \in VPages, DirIdx(v) # i, v # WindowPage(i)
      PROVE  Walk(mem', v) = Walk(mem, v)
  <2> DEFINE d == DirIdx(v)
             s == TabIdx(v)
  <2>1. d \in Slots /\ s \in Slots /\ v = d * PER_TAB + s
    BY PageIs
  <2>2. d = PGT => s # i
    BY <1>6, <2>1 DEF WindowPage
  <2>3. d # i
    BY <1>6
  <2> HIDE DEF d, s
  <2>4. mem'[DirFrame][d] = mem[DirFrame][d]
    BY <1>2, <2>1, <2>3, Places
  <2>5. CASE d = KDIR \/ mem[DirFrame][d] = Absent
    BY <2>4, <2>5 DEF Walk, d, s
  <2>6. CASE d # KDIR /\ mem[DirFrame][d] # Absent
    <3> DEFINE tab == mem[DirFrame][d]
    <3>1. tab \in Tables /\ (tab = SelfFrame => s # i) /\ tab # DirFrame
      BY <1>1, <2>1, <2>2, <2>6, EntryOf, Places
    <3> HIDE DEF tab
    <3>2. mem'[tab][s] = mem[tab][s]
      BY <1>2, <2>1, <3>1
    <3> QED
      BY <1>3, <2>4, <2>6, <3>1, <3>2 DEF Walk, d, s, tab
  <2> QED
    BY <2>5, <2>6
<1>7. WindowPage(i) \in VPages
  BY <1>1, WindowIs
<1>8. \A j \in Indices : mem'[DirFrame][j] = IF j = i THEN f ELSE mem[DirFrame][j]
  BY <1>2, Places
<1>9. Installed' = Installed \cup {i}
  BY <1>1, <1>8 DEF Installed, HasTable
<1>10. i \notin Installed
  BY <1>1 DEF Installed
<1> QED
  BY <1>5, <1>6, <1>7, <1>9, <1>10 DEF Translation

\* Mapping a page changes that page only.
LEMMA MakeSeen ==
  ASSUME WindowInv, NEW f \in DataFrames, NEW v \in MadePages, Make(f, v)
  PROVE  /\ v \in VPages /\ DirIdx(v) \in Installed /\ Installed' = Installed
         /\ Translation(mem)' = [Translation(mem) EXCEPT ![v] = f]
<1> DEFINE d   == DirIdx(v)
           s   == TabIdx(v)
           tab == mem[DirFrame][d]
<1>1. /\ v \in VPages /\ d \in Indices /\ tab \in TabFrames
      /\ mem' \in [Tables -> [Slots -> Entries]]
      /\ \A t \in Tables, k \in Slots :
           mem'[t][k] = IF t = tab /\ k = s THEN f ELSE mem[t][k]
  BY MakeIs
<1>2. ready /\ HasTable(d) /\ d \in Slots /\ d # KDIR /\ s \in Slots
      /\ v = d * PER_TAB + s
  BY <1>1, PageIs, Places DEF Make
<1>3. DOMAIN mem = Tables /\ DOMAIN mem' = Tables
  BY <1>1 DEF WindowInv
<1>4. /\ tab \in Tables /\ tab # DirFrame /\ tab # SelfFrame /\ tab # Absent
      /\ DirFrame \in Tables
  BY <1>1, Places
<1> HIDE DEF tab, d, s
<1>5. \A k \in Slots : mem'[DirFrame][k] = mem[DirFrame][k]
  BY <1>1, <1>4
<1>6. Walk(mem', v) = f
  <2>1. mem'[DirFrame][d] = tab /\ mem'[tab][s] = f
    BY <1>1, <1>2, <1>4, <1>5 DEF tab
  <2> QED
    BY <1>2, <1>3, <1>4, <2>1 DEF Walk, d, s
<1>7. ASSUME NEW w \in VPages, w # v
      PROVE  Walk(mem', w) = Walk(mem, w)
  <2> DEFINE e == DirIdx(w)
             k == TabIdx(w)
  <2>1. e \in Slots /\ k \in Slots /\ w = e * PER_TAB + k
    BY PageIs
  <2>2. e = d => k # s
    BY <1>2, <1>7, <2>1
  <2> HIDE DEF e, k
  <2>3. mem'[DirFrame][e] = mem[DirFrame][e]
    BY <1>5, <2>1
  <2>4. CASE e = KDIR \/ mem[DirFrame][e] = Absent
    BY <2>3, <2>4 DEF Walk, e, k
  <2>5. CASE e # KDIR /\ mem[DirFrame][e] # Absent
    <3> DEFINE other == mem[DirFrame][e]
    <3>1. \/ e = PGT /\ other = SelfFrame
          \/ e \in Indices /\ other \in TabFrames
      BY <1>2, <2>1, <2>5, EntryOf
    <3>2. other = tab => e = d
      BY <1>1, <1>2, <1>4, <3>1 DEF WindowInv, tab
    <3>3. other \in Tables
      BY <3>1, Places
    <3> HIDE DEF other
    <3>4. mem'[other][k] = mem[other][k]
      BY <1>1, <2>1, <2>2, <3>2, <3>3
    <3> QED
      BY <1>3, <2>3, <2>5, <3>3, <3>4 DEF Walk, e, k, other
  <2> QED
    BY <2>4, <2>5
<1>8. Translation(mem)' = [Translation(mem) EXCEPT ![v] = f]
  BY <1>1, <1>6, <1>7 DEF Translation
<1>9. Installed' = Installed
  BY <1>5, Places DEF Installed, HasTable
<1>10. d \in Installed
  BY <1>1, <1>2 DEF Installed
<1> QED
  BY <1>1, <1>8, <1>9, <1>10 DEF d

\* page.c implements the address space its callers see: every step installs a
\* table, maps a page, or changes nothing that can be seen.
THEOREM ImplementsSpace == Spec => SpaceSpec
<1> DEFINE seen == [v \in VPages |-> Walk(IF ready THEN mem ELSE PageInitSelf(mem), v)]
<1>1. ASSUME Init PROVE DOMAIN seen = VPages /\ Installed = {}
  <2>1. \A i \in Indices : mem[DirFrame][i] = Absent
    BY <1>1, Zenon, InitWindow DEF WindowInv, Init
  <2> QED
    BY <2>1 DEF Installed, HasTable
<1>2. ASSUME WindowInv, WindowInv', [Next]_pagingVars
      PROVE  [Space!Next]_(Space!asVars)
  <2>1. CASE UNCHANGED pagingVars
    <3>1. mem' = mem /\ ready' = ready
      BY <2>1 DEF pagingVars
    <3>2. Installed' = Installed /\ seen' = seen
      BY <3>1 DEF Installed, HasTable
    <3> QED
      BY <3>2 DEF Space!asVars
  <2>2. CASE InitSelf
    <3>1. ~ready /\ ready' /\ mem' = PageInitSelf(mem)
      BY <2>2, Zenon DEF InitSelf
    <3>2. seen' = seen
      BY <3>1
    <3>3. \A i \in Indices : mem'[DirFrame][i] = mem[DirFrame][i]
      BY <1>2, <3>1, InitSelfIs, Places
    <3>4. Installed' = Installed
      BY <3>3 DEF Installed, HasTable
    <3> QED
      BY <3>2, <3>4 DEF Space!asVars
  <2>3. ASSUME NEW f \in TabFrames, NEW i \in Indices, MakeTab(f, i)
        PROVE  Space!Next
    <3>1. ready /\ ready'
      BY <2>3, Zenon DEF MakeTab
    <3>2. seen = Translation(mem) /\ seen' = Translation(mem)'
      BY <3>1 DEF Translation
    <3>3. DOMAIN seen' = VPages
      OBVIOUS
    <3> HIDE DEF seen
    <3>4. Space!NewTable(i, f)
      BY <1>2, <2>3, <3>2, <3>3, MakeTabSeen DEF Space!NewTable, seen
    <3> QED
      BY <3>4 DEF Space!Next
  <2>4. ASSUME NEW f \in DataFrames, NEW v \in MadePages, Make(f, v)
        PROVE  Space!Next
    <3>1. ready /\ ready'
      BY <2>4, Zenon DEF Make
    <3>2. seen = Translation(mem) /\ seen' = Translation(mem)'
      BY <3>1 DEF Translation
    <3>3. /\ v \in VPages /\ DirIdx(v) \in Installed /\ Installed' = Installed
          /\ seen' = [seen EXCEPT ![v] = f]
      BY <1>2, <2>4, <3>2, MakeSeen
    <3>4. Space!NewPage(v, f)
      BY <3>3 DEF Space!NewPage
    <3> QED
      BY <3>3, <3>4 DEF Space!Next
  <2> QED
    BY <1>2, <2>1, <2>2, <2>3, <2>4 DEF Next
<1> QED
  BY <1>1, <1>2, InitWindow, StepWindow, PTL DEF Spec, SpaceSpec, Space!Spec
=============================================================================
