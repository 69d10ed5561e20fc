-------------------------- MODULE MemoryInitProofs --------------------------
(***************************************************************************)
(* Proofs about MemoryInit for every memory map the assumption admits and  *)
(* every size of RAM, frame table and page: the table covers RAM, and what *)
(* the firmware keeps and the boot image are on no free list.  The part    *)
(* that build_buddy() plays is taken from BuildBuddyProofs.                *)
(***************************************************************************)
EXTENDS MemoryInit, TLAPS

BP == INSTANCE BuildBuddyProofs

AllMarks == {"RESV", "TABLE", "KERNEL", "DMA"}
End(e)    == e.base + e.len
Region(e) == e.base \div PAGE .. (End(e) \div PAGE) - 1

\* Every frame of the k-th region bears the firmware's mark, if it keeps it.
Kept(k) == mmap[k].type # 1 =>
             \A f \in RamFrames : f \in Region(mmap[k]) => "RESV" \in flags[f]

AfterScan  == Steps \ {"call", "error", "scan"}
AfterClear == {"boot", "buddyStart", "buddy", "done"}

\* The variables the argument is about stay in range.
Typed == /\ step \in Steps /\ i \in Nat
         /\ mmap \in Maps /\ (mmap = NoMap => step \in {"call", "error"})
         /\ max_addr \in Nat
         /\ flags \in [RamFrames -> SUBSET AllMarks]

\* While the map is scanned max_addr is above the regions seen, and never above
\* the assumed top; then it is the top, and the table has NFrames entries.
TopInv ==
  /\ step = "call" => i = 1 /\ max_addr = 0
  /\ step = "scan" => /\ i >= 1 /\ max_addr < (NFrames + 1) * PAGE
                      /\ \A k \in DOMAIN mmap :
                           k < i /\ mmap[k].type = 1 => End(mmap[k]) <= max_addr
  /\ step \in AfterScan => /\ frame_num = NFrames
                           /\ NFrames * PAGE <= max_addr

\* The table is cleared page by page, then the marks are set one loop or call
\* after the other; none is lost on the way to build_buddy().
MarksInv ==
  /\ step = "clear" => \A f \in RamFrames : EntryPage(f) < KernelEnd + i => flags[f] = {}
  /\ step = "reserve" => /\ i >= 1
                         /\ \A f \in RamFrames : flags[f] \subseteq {"RESV"}
                         /\ \A k \in DOMAIN mmap : k < i => Kept(k)
  /\ step \in AfterClear => /\ \A k \in DOMAIN mmap : Kept(k)
                            /\ \A f \in RamFrames : "DMA" \in flags[f] <=> f < DmaEnd
  /\ step \in AfterClear \ {"boot"} =>
       \A f \in RamFrames : f < BootEnd => "KERNEL" \in flags[f]

\* The lists are empty until build_buddy() runs; then its loop invariant holds.
ListsInv == IF step \in {"buddy", "done"} THEN BP!LoopInvariant
                                          ELSE free = Buddy!EmptyLists

Inv == Typed /\ TopInv /\ MarksInv /\ ListsInv

-----------------------------------------------------------------------------
\* The sizes, without what the assumption says of the maps.
LEMMA Sizes ==
  /\ NFrames \in Nat /\ BootEnd \in Nat /\ DmaEnd \in Nat
  /\ PAGE \in Nat \ {0} /\ ADDR \in Nat \ {0} /\ PER_PAGE \in Nat \ {0}
  /\ KernelEnd \in Nat /\ IdentEnd \in Nat
  /\ NFrames * PAGE \in Nat /\ (NFrames + 1) * PAGE = NFrames * PAGE + PAGE
<1>1. NFrames \in Nat /\ PAGE \in Nat
  BY MemoryInitAssumption
<1>2. NFrames * PAGE \in Nat /\ (NFrames + 1) * PAGE = NFrames * PAGE + PAGE
  BY <1>1
<1> QED BY <1>2, MemoryInitAssumption

(* Whole pages.                                                            *)

\* A number between two multiples of p has the lower one's quotient.
LEMMA Quotient ==
  ASSUME NEW p \in Nat \ {0}, NEW n \in Nat, NEW a \in Nat, n * p <= a, a < (n + 1) * p
  PROVE  a \div p = n
<1>1. a = (a \div p) * p + (a % p) /\ a % p \in 0 .. p - 1 /\ a \div p \in Nat
  OBVIOUS
<1> DEFINE q == a \div p
<1>2. q \in Nat /\ q * p <= a /\ a < (q + 1) * p
  BY <1>1
<1> HIDE DEF q
<1>3. ASSUME q < n PROVE FALSE
  <2>1. (q + 1) * p <= n * p
    BY <1>2, <1>3
  <2> QED BY <1>2, <2>1
<1>4. ASSUME n < q PROVE FALSE
  <2>1. (n + 1) * p <= q * p
    BY <1>2, <1>4
  <2> QED BY <1>2, <2>1
<1>5. q = n
  BY <1>2, <1>3, <1>4
<1> QED BY <1>5 DEF q

\* A region that holds a page below page n begins below its end.
LEMMA BeginsBelow ==
  ASSUME NEW p \in Nat \ {0}, NEW n \in Nat, NEW a \in Nat, a \div p < n
  PROVE  a < n * p
<1>1. a = (a \div p) * p + (a % p) /\ a % p \in 0 .. p - 1 /\ a \div p \in Nat
  OBVIOUS
<1> DEFINE q == a \div p
<1>2. q \in Nat /\ q + 1 <= n /\ a < (q + 1) * p
  BY <1>1
<1> HIDE DEF q
<1>3. (q + 1) * p <= n * p
  BY <1>2
<1> QED BY <1>2, <1>3

\* The entry of every frame lies in one of the pages of the table.
LEMMA EntryInTable ==
  ASSUME NEW p \in Nat \ {0}, NEW n \in Nat, NEW f \in 0 .. n - 1
  PROVE  f \div p < (n + p - 1) \div p
<1> DEFINE q == f \div p
           c == (n + p - 1) \div p
<1>1. q \in Nat /\ q * p <= f
  <2>1. f = q * p + (f % p) /\ f % p \in 0 .. p - 1 /\ q \in Nat
    OBVIOUS
  <2> QED BY <2>1
<1>2. c \in Nat /\ n + p - 1 < (c + 1) * p
  <2>1. n + p - 1 \in Nat
    OBVIOUS
  <2>2. n + p - 1 = c * p + ((n + p - 1) % p) /\ (n + p - 1) % p \in 0 .. p - 1 /\ c \in Nat
    BY <2>1
  <2> QED BY <2>2
<1> HIDE DEF q, c
<1>3. q < c
  <2> SUFFICES ASSUME c <= q PROVE FALSE
    BY <1>1, <1>2
  <2>1. (c + 1) * p <= (q + 1) * p
    BY <1>1, <1>2
  <2>2. (q + 1) * p = q * p + p
    BY <1>1
  <2> QED BY <1>1, <1>2, <2>1, <2>2
<1> QED BY <1>3 DEF q, c

\* A sum wraps at the size of the address space, and not below it.
LEMMA Wrap ==
  ASSUME NEW n \in Nat \ {0}, NEW a \in Nat
  PROVE  a % n \in 0 .. n - 1 /\ (a < n => a % n = a)
OBVIOUS

-----------------------------------------------------------------------------
(* What the assumption says of a map.                                      *)

\* The regions of a map are regions, and which of them end where.
LEMMA Regions ==
  ASSUME Typed, mmap # NoMap
  PROVE  /\ \E k \in DOMAIN mmap : mmap[k].type = 1 /\ NFrames * PAGE <= End(mmap[k])
         /\ Len(mmap) \in Nat /\ DOMAIN mmap = 1 .. Len(mmap)
         /\ \A k \in DOMAIN mmap :
              /\ mmap[k].base \in Nat /\ mmap[k].len \in Nat /\ End(mmap[k]) \in Nat
              /\ mmap[k].type = 1 => /\ End(mmap[k]) < ADDR
                                     /\ End(mmap[k]) < (NFrames + 1) * PAGE
              /\ mmap[k].type # 1 => \/ End(mmap[k]) < ADDR
                                     \/ mmap[k].base >= (NFrames + 1) * PAGE
<1>1. mmap \in Maps \ {NoMap}
  BY DEF Typed
<1>2. mmap \in Seq([type : Nat, base : Nat, len : Nat])
  BY <1>1, MemoryInitAssumption
<1> DEFINE Record == [type : Nat, base : Nat, len : Nat]
<1>3. /\ Len(mmap) \in Nat /\ DOMAIN mmap = 1 .. Len(mmap)
      /\ \A k \in DOMAIN mmap : mmap[k] \in Record
  <2>1. mmap \in Seq(Record)
    BY <1>2
  <2> HIDE DEF Record
  <2> QED BY <2>1
<1>4. \A k \in DOMAIN mmap : /\ mmap[k].base \in Nat /\ mmap[k].len \in Nat
                            /\ End(mmap[k]) \in Nat
  BY <1>3 DEF End
<1>5. \A k \in DOMAIN mmap : IF mmap[k].type = 1
            THEN /\ mmap[k].base + mmap[k].len < ADDR
                 /\ mmap[k].base + mmap[k].len < (NFrames + 1) * PAGE
            ELSE \/ mmap[k].base + mmap[k].len < ADDR
                 \/ mmap[k].base >= (NFrames + 1) * PAGE
  BY <1>1, MemoryInitAssumption
<1>6. \E k \in DOMAIN mmap :
            mmap[k].type = 1 /\ NFrames * PAGE <= mmap[k].base + mmap[k].len
  BY <1>1, MemoryInitAssumption
<1> QED BY <1>3, <1>4, <1>5, <1>6 DEF End

\* A frame of a kept region is among those mm_init() reserves for the region.
LEMMA KeptIsReserved ==
  ASSUME Typed, TopInv, step = "reserve", NEW k \in DOMAIN mmap, mmap[k].type # 1,
         NEW f \in RamFrames, f \in Region(mmap[k])
  PROVE  ToReserve(mmap[k]) /\ f \in Range(mmap[k].base, mmap[k].len)
<1> DEFINE b == mmap[k].base
           n == mmap[k].len
<1>1. mmap # NoMap
  BY DEF Typed
<1>2. b \in Nat /\ n \in Nat /\ (b + n < ADDR \/ b >= (NFrames + 1) * PAGE)
  BY <1>1, Regions DEF End
<1>3. PAGE \in Nat \ {0} /\ ADDR \in Nat \ {0} /\ NFrames \in Nat
  BY Sizes
<1>4. f \in Int /\ b \div PAGE <= f /\ f <= ((b + n) \div PAGE) - 1 /\ f < NFrames
  <2>1. b \div PAGE \in Int /\ (b + n) \div PAGE \in Int
    BY <1>2, <1>3
  <2> QED BY <1>3, <2>1 DEF Region, End, RamFrames
<1>5. max_addr \in Nat /\ NFrames * PAGE <= max_addr
  BY DEF Typed, TopInv, AfterScan, Steps
<1> HIDE DEF b, n
<1>6. b < NFrames * PAGE
  <2>1. b \div PAGE < NFrames
    BY <1>2, <1>3, <1>4
  <2> QED BY <1>2, <1>3, <2>1, BeginsBelow
<1>7. b + n < ADDR
  <2>1. (NFrames + 1) * PAGE = NFrames * PAGE + PAGE
    BY <1>3
  <2>2. NFrames * PAGE \in Nat
    BY <1>3
  <2> QED BY <1>2, <1>3, <1>6, <2>1, <2>2
<1>8. (b + n) % ADDR = b + n
  BY <1>2, <1>3, <1>7
<1>9. b < max_addr
  <2>1. NFrames * PAGE \in Nat
    BY <1>3
  <2> QED BY <1>2, <1>5, <1>6, <2>1
<1>10. f \in Range(b, n)
  BY <1>2, <1>3, <1>4, <1>8 DEF Range
<1> QED BY <1>9, <1>10 DEF ToReserve, b, n

\* At the end of the scan the table gets NFrames entries.
LEMMA ScanFindsTop ==
  ASSUME Typed, TopInv, step = "scan", i > Len(mmap)
  PROVE  max_addr \div PAGE = NFrames /\ NFrames * PAGE <= max_addr
<1>1. mmap # NoMap
  BY DEF Typed
<1>2. PAGE \in Nat \ {0} /\ NFrames \in Nat /\ NFrames * PAGE \in Nat
  BY Sizes
<1>3. PICK k \in DOMAIN mmap : mmap[k].type = 1 /\ NFrames * PAGE <= End(mmap[k])
  BY <1>1, Regions
<1>4. k < i /\ End(mmap[k]) \in Nat
  BY <1>1, Regions DEF Typed
<1>5. NFrames * PAGE <= max_addr
  BY <1>2, <1>3, <1>4 DEF TopInv, Typed
<1>6. max_addr \in Nat /\ max_addr < (NFrames + 1) * PAGE
  BY DEF TopInv, Typed
<1> QED BY <1>2, <1>5, <1>6, Quotient

-----------------------------------------------------------------------------
(* Every step keeps the parts.                                             *)

\* mm_init() starts in the invariant.
LEMMA Starts == Init => Inv
BY DEF Init, Inv, Typed, TopInv, MarksInv, ListsInv, Steps, AfterScan, AfterClear, AllMarks

\* Indices, marks and the map stay in range: the sums of the scan wrap.
LEMMA TypedKept ==
  ASSUME Inv, [Next]_memVars
  PROVE  Typed'
<1> USE DEF Inv, Typed, Steps
<1>1. CASE Call
  BY <1>1 DEF Call
<1>2. CASE ScanEntry
  <2>1. mmap # NoMap /\ i \in DOMAIN mmap
    BY <1>2, Regions DEF ScanEntry, TopInv
  <2>2. End(mmap[i]) % ADDR \in Nat
    <3>1. End(mmap[i]) \in Nat
      BY <2>1, Regions
    <3> QED BY <3>1, Sizes, Wrap
  <2> QED BY <1>2, <2>2 DEF ScanEntry, End
<1>3. CASE PhyInit
  BY <1>3 DEF PhyInit
<1>4. CASE MapTable \/ TablesMapped \/ MapPage
  BY <1>4 DEF MapTable, TablesMapped, MapPage
<1>5. CASE UseTables \/ UsePages \/ UseBoot
  BY <1>5 DEF UseTables, UsePages, UseBoot, UseAt, Use, Mark, AllMarks
<1>6. CASE ClearPage \/ Cleared
  BY <1>6 DEF ClearPage, Cleared
<1>7. CASE ReserveEntry \/ MarkDma
  BY <1>7 DEF ReserveEntry, MarkDma, Mark, AllMarks
<1>8. CASE StartBuddy \/ Return
  BY <1>8 DEF StartBuddy, Return
<1>9. CASE RunBuddy
  <2>1. UNCHANGED flags
    BY <1>9 DEF RunBuddy, Buddy!Step, Buddy!ExtendRun, Buddy!SkipUsed, Buddy!StartCarve,
                Buddy!SkipOrder, Buddy!CarveBlock, Buddy!EndCarve, Buddy!Return
  <2> QED BY <1>9, <2>1 DEF RunBuddy
<1>10. CASE UNCHANGED memVars
  BY <1>10 DEF memVars
<1> QED BY <1>1, <1>2, <1>3, <1>4, <1>5, <1>6, <1>7, <1>8, <1>9, <1>10
        DEF Next, Advance, Stopped

\* The scan keeps the highest end, and PhyInit makes a table of it.
LEMMA TopKept ==
  ASSUME Inv, [Next]_memVars
  PROVE  TopInv'
<1> USE DEF Inv, TopInv, AfterScan, Steps
<1>1. CASE Call
  <2>1. /\ i' = 1 /\ max_addr' = 0 /\ UNCHANGED mmap
        /\ step' = IF mmap = NoMap THEN "error" ELSE "scan"
    BY <1>1 DEF Call
  <2>2. 0 < (NFrames + 1) * PAGE
    BY Sizes
  <2>3. mmap # NoMap => \A k \in DOMAIN mmap : ~ (k < 1)
    BY Regions
  <2> QED BY <2>1, <2>2, <2>3
<1>2. CASE ScanEntry
  <2>1. mmap # NoMap /\ i \in DOMAIN mmap /\ i \in Nat
    BY <1>2, Regions DEF ScanEntry, Typed
  <2>2. mmap[i].type = 1 => End(mmap[i]) % ADDR = End(mmap[i])
    <3>1. End(mmap[i]) \in Nat /\ (mmap[i].type = 1 => End(mmap[i]) < ADDR)
      BY <2>1, Regions
    <3> QED BY <3>1, Sizes, Wrap
  <2>3. End(mmap[i]) \in Nat /\ max_addr \in Nat /\ (NFrames + 1) * PAGE \in Nat
    <3>1. End(mmap[i]) \in Nat /\ max_addr \in Nat
      BY <2>1, Regions DEF Typed
    <3> QED BY <3>1, Sizes
  <2>4. max_addr' < (NFrames + 1) * PAGE
    BY <1>2, <2>1, <2>2, <2>3, Regions DEF ScanEntry, End
  <2>5. ASSUME NEW k \in DOMAIN mmap, k < i + 1, mmap[k].type = 1
        PROVE  End(mmap[k]) <= max_addr'
    <3>1. End(mmap[k]) \in Nat /\ k \in Nat
      BY <2>1, Regions DEF Typed
    <3>2. CASE k = i
      BY <1>2, <2>2, <2>3, <2>5, <3>2 DEF ScanEntry, End
    <3>3. CASE k # i
      <4>1. k < i
        BY <2>1, <2>5, <3>1, <3>3
      <4>2. max_addr <= max_addr' /\ max_addr' \in Nat
        BY <1>2, <2>1, <2>2, <2>3 DEF ScanEntry, End
      <4> QED BY <1>2, <2>3, <2>5, <3>1, <4>1, <4>2 DEF ScanEntry
    <3> QED BY <3>2, <3>3
  <2> QED BY <1>2, <2>1, <2>4, <2>5 DEF ScanEntry, End
<1>3. CASE PhyInit
  BY <1>3, ScanFindsTop DEF PhyInit
<1>4. CASE MapTable \/ TablesMapped \/ MapPage
  BY <1>4 DEF MapTable, TablesMapped, MapPage
<1>5. CASE UseTables \/ UsePages \/ UseBoot
  BY <1>5 DEF UseTables, UsePages, UseBoot, UseAt
<1>6. CASE ClearPage \/ Cleared
  BY <1>6 DEF ClearPage, Cleared
<1>7. CASE ReserveEntry \/ MarkDma
  BY <1>7 DEF ReserveEntry, MarkDma
<1>8. CASE StartBuddy \/ RunBuddy \/ Return
  BY <1>8 DEF StartBuddy, RunBuddy, Return
<1>9. CASE UNCHANGED memVars
  BY <1>9 DEF memVars
<1> QED BY <1>1, <1>2, <1>3, <1>4, <1>5, <1>6, <1>7, <1>8, <1>9
        DEF Next, Advance, Stopped

\* A step that keeps flags and map keeps the marks of a region.
LEMMA KeptSame ==
  ASSUME UNCHANGED <<flags, mmap>>
  PROVE  \A k : Kept(k)' <=> Kept(k)
BY DEF Kept, Region, End

\* More marks, and the regions marked before are marked.
LEMMA MarkKeeps ==
  ASSUME Typed, NEW range, NEW mark, Mark(range, mark), UNCHANGED mmap
  PROVE  /\ \A k : Kept(k) => Kept(k)'
         /\ \A f \in RamFrames :
              flags'[f] = IF f \in range THEN flags[f] \cup mark ELSE flags[f]
<1>1. \A f \in RamFrames :
        flags'[f] = IF f \in range THEN flags[f] \cup mark ELSE flags[f]
  BY DEF Mark
<1>2. ASSUME NEW k, Kept(k) PROVE Kept(k)'
  <2> SUFFICES ASSUME mmap[k].type # 1, NEW f \in RamFrames, f \in Region(mmap[k])
               PROVE  "RESV" \in flags'[f]
    BY DEF Kept, Region, End
  <2> QED BY <1>1, <1>2 DEF Kept
<1> QED BY <1>1, <1>2

\* Clearing comes before the marks, and marks are only added.
LEMMA MarksKept ==
  ASSUME Inv, [Next]_memVars
  PROVE  MarksInv'
<1> USE DEF Inv, MarksInv, AfterClear
<1>1. CASE Call \/ ScanEntry \/ MapTable \/ TablesMapped \/ MapPage \/ UseTables
  BY <1>1 DEF Call, ScanEntry, MapTable, TablesMapped, MapPage, UseTables, UseAt
<1>2. CASE PhyInit
  <2>1. i' = 0 /\ step' \in {"tables", "clear"}
    BY <1>2 DEF PhyInit
  <2>2. \A f \in RamFrames : ~ (EntryPage(f) < KernelEnd + 0)
    BY Sizes DEF EntryPage, RamFrames
  <2> QED BY <2>1, <2>2 DEF EntryPage
<1>3. CASE UsePages
  <2>1. i' = 0 /\ step' = "clear"
    BY <1>3 DEF UsePages, UseAt
  <2>2. \A f \in RamFrames : ~ (EntryPage(f) < KernelEnd + 0)
    BY Sizes DEF EntryPage, RamFrames
  <2> QED BY <2>1, <2>2 DEF EntryPage
<1>4. CASE ClearPage
  <2>1. step = "clear" /\ step' = "clear" /\ i' = i + 1 /\ i \in Nat
    BY <1>4 DEF ClearPage, Typed
  <2>2. ASSUME NEW f \in RamFrames, EntryPage(f) < KernelEnd + (i + 1)
        PROVE  flags'[f] = {}
    <3>1. EntryPage(f) \in Nat /\ KernelEnd \in Nat
      BY Sizes DEF EntryPage, RamFrames
    <3>2. CASE EntryPage(f) = KernelEnd + i
      BY <1>4, <3>2 DEF ClearPage
    <3>3. CASE EntryPage(f) # KernelEnd + i
      <4>1. EntryPage(f) < KernelEnd + i
        BY <2>1, <2>2, <3>1, <3>3
      <4> QED BY <1>4, <2>1, <3>3, <4>1 DEF ClearPage
    <3> QED BY <3>2, <3>3
  <2> QED BY <2>1, <2>2 DEF EntryPage
<1>5. CASE Cleared
  <2>1. step = "clear" /\ step' = "reserve" /\ i' = 1 /\ UNCHANGED <<flags, mmap>>
    BY <1>5 DEF Cleared
  <2>2. frame_num = NFrames
    BY <2>1 DEF TopInv, AfterScan, Steps
  <2>3. ASSUME NEW f \in RamFrames PROVE flags[f] = {}
    <3>1. PER_PAGE \in Nat \ {0} /\ NFrames \in Nat /\ KernelEnd \in Nat
          /\ f \in 0 .. NFrames - 1 /\ i \in Nat
      BY Sizes DEF RamFrames, Typed
    <3>2. f \div PER_PAGE < (NFrames + PER_PAGE - 1) \div PER_PAGE
      BY <3>1, EntryInTable
    <3>3. (NFrames + PER_PAGE - 1) \div PER_PAGE <= i
      BY <1>5, <2>2 DEF Cleared, TablePages, CeilDiv
    <3>4. f \div PER_PAGE \in Nat /\ (NFrames + PER_PAGE - 1) \div PER_PAGE \in Int
      BY <3>1
    <3>5. EntryPage(f) < KernelEnd + i
      BY <3>1, <3>2, <3>3, <3>4 DEF EntryPage
    <3> QED BY <2>1, <3>5
  <2>4. \A k \in DOMAIN mmap : ~ (k < 1)
    BY <2>1, Regions DEF Typed
  <2> QED BY <2>1, <2>3, <2>4
<1>6. CASE ReserveEntry
  <2> DEFINE e     == mmap[i]
             range == IF ToReserve(e) THEN Range(e.base, e.len) ELSE {}
  <2>1. /\ step = "reserve" /\ step' = "reserve" /\ i' = i + 1 /\ UNCHANGED mmap
        /\ Mark(range, {"RESV"}) /\ i \in Nat /\ mmap # NoMap
    BY <1>6 DEF ReserveEntry, Typed
  <2> HIDE DEF range
  <2>2. /\ \A k : Kept(k) => Kept(k)'
        /\ \A f \in RamFrames :
             flags'[f] = IF f \in range THEN flags[f] \cup {"RESV"} ELSE flags[f]
    BY <2>1, MarkKeeps
  <2>3. ASSUME NEW k \in DOMAIN mmap, k = i PROVE Kept(k)'
    <3> SUFFICES ASSUME mmap[k].type # 1, NEW f \in RamFrames, f \in Region(mmap[k])
                 PROVE  "RESV" \in flags'[f]
      BY <2>1 DEF Kept, Region, End
    <3>1. f \in range
      BY <2>1, <2>3, KeptIsReserved DEF range
    <3> QED BY <2>2, <3>1
  <2>4. ASSUME NEW k \in DOMAIN mmap, k < i + 1 PROVE Kept(k)'
    <3>1. k \in Nat
      BY <2>1, Regions
    <3>2. k < i \/ k = i
      BY <2>1, <2>4, <3>1
    <3> QED BY <2>1, <2>2, <2>3, <3>2
  <2> QED BY <2>1, <2>2, <2>4
<1>7. CASE MarkDma
  <2>1. /\ step = "reserve" /\ step' = "boot" /\ UNCHANGED mmap
        /\ Mark(0 .. DmaEnd - 1, {"DMA"}) /\ mmap # NoMap /\ i > Len(mmap)
    BY <1>7 DEF MarkDma, Typed
  <2>2. /\ \A k : Kept(k) => Kept(k)'
        /\ \A f \in RamFrames :
             flags'[f] = IF f \in 0 .. DmaEnd - 1 THEN flags[f] \cup {"DMA"} ELSE flags[f]
    BY <2>1, MarkKeeps
  <2>3. \A k \in DOMAIN mmap : k < i
    BY <2>1, Regions DEF Typed
  <2>4. \A f \in RamFrames : f \in 0 .. DmaEnd - 1 <=> f < DmaEnd
    BY Sizes DEF RamFrames
  <2> QED BY <2>1, <2>2, <2>3, <2>4
<1>8. CASE UseBoot
  <2>1. /\ step = "boot" /\ step' = "buddyStart" /\ UNCHANGED mmap
        /\ Mark(0 .. BootEnd - 1, {"KERNEL"})
    BY <1>8 DEF UseBoot, UseAt, Use
  <2>2. /\ \A k : Kept(k) => Kept(k)'
        /\ \A f \in RamFrames :
             flags'[f] = IF f \in 0 .. BootEnd - 1 THEN flags[f] \cup {"KERNEL"} ELSE flags[f]
    BY <2>1, MarkKeeps
  <2>3. \A f \in RamFrames : f < BootEnd => f \in 0 .. BootEnd - 1
    BY Sizes DEF RamFrames
  <2> QED BY <2>1, <2>2, <2>3
<1>9. CASE StartBuddy \/ Return
  <2>1. UNCHANGED <<flags, mmap>>
    BY <1>9 DEF StartBuddy, Return
  <2> QED BY <1>9, <2>1, KeptSame DEF StartBuddy, Return
<1>10. CASE RunBuddy
  <2>1. UNCHANGED <<flags, mmap>>
    BY <1>10 DEF RunBuddy, Buddy!Step, Buddy!ExtendRun, Buddy!SkipUsed, Buddy!StartCarve,
                 Buddy!SkipOrder, Buddy!CarveBlock, Buddy!EndCarve, Buddy!Return
  <2> QED BY <1>10, <2>1, KeptSame DEF RunBuddy
<1>11. CASE UNCHANGED memVars
  <2>1. UNCHANGED <<flags, mmap>>
    BY <1>11 DEF memVars
  <2> QED BY <1>11, <2>1, KeptSame DEF memVars, EntryPage
<1> QED BY <1>1, <1>2, <1>3, <1>4, <1>5, <1>6, <1>7, <1>8, <1>9, <1>10, <1>11
        DEF Next, Advance, Stopped

\* A step of build_buddy() here is one of the steps proved there.
LEMMA StepIsStep == Buddy!Step => BP!Step
BY DEF Buddy!Step, Buddy!ExtendRun, Buddy!SkipUsed, Buddy!StartCarve, Buddy!SkipOrder,
       Buddy!CarveBlock, Buddy!EndCarve, Buddy!Return, Buddy!SameRun, Buddy!Used,
       Buddy!UsedMarks, Buddy!InForLoop, Buddy!OrderAbsent, Buddy!Insert, Buddy!ZoneOf,
       BP!Step, BP!ExtendRun, BP!SkipUsed, BP!StartCarve, BP!SkipOrder,
       BP!CarveBlock, BP!EndCarve, BP!Return, BP!SameRun, BP!Used,
       BP!UsedMarks, BP!InForLoop, BP!OrderAbsent, BP!Insert, BP!ZoneOf

\* The lists are build_buddy()'s: it is entered in its loop invariant and kept in it.
LEMMA ListsKept ==
  ASSUME Inv, [Next]_memVars
  PROVE  ListsInv'
<1> USE DEF Inv, ListsInv
<1>0. /\ NFrames \in Nat /\ BootEnd \in Nat /\ DmaEnd \in Nat
      /\ MAX_ORDER \in Nat \ {0}
      /\ Blk \in [0 .. MAX_ORDER - 1 -> Nat \ {0}]
      /\ Blk[0] = 1
      /\ \A k \in 0 .. MAX_ORDER - 2 : Blk[k + 1] = 2 * Blk[k]
  BY MemoryInitAssumption
<1>1. CASE /\ UNCHANGED free
           /\ step \notin {"buddy", "done"} /\ step' \notin {"buddy", "done"}
  BY <1>1 DEF Buddy!EmptyLists, Buddy!Zones, Buddy!Orders
<1>2. CASE StartBuddy
  <2>1. step' = "buddy"
    BY <1>2 DEF StartBuddy
  <2>2. BP!Start'
    BY <1>2 DEF StartBuddy, BP!Start, BP!EmptyLists, BP!Zones, BP!Orders,
                Buddy!EmptyLists, Buddy!Zones, Buddy!Orders
  <2>3. (flags \in [BP!Frames -> SUBSET BP!Marks])'
    BY <1>2 DEF StartBuddy, Typed, RamFrames, AllMarks, BP!Frames, BP!Marks
  <2> QED BY <1>0, <2>1, <2>2, <2>3, BP!EntersInvariant
<1>3. CASE RunBuddy
  <2>1. BP!LoopInvariant /\ BP!Next /\ step' = "buddy"
    BY <1>3, StepIsStep DEF RunBuddy, BP!Next
  <2> QED BY <1>0, <2>1, BP!NextKeeps
<1>4. CASE step \in {"buddy", "done"} /\ step' \in {"buddy", "done"}
           /\ UNCHANGED <<flags, free, current, last, size, order, pc>>
  <2>1. BP!LoopInvariant /\ UNCHANGED BP!buddyVars
    BY <1>4 DEF BP!buddyVars
  <2> QED BY <1>0, <1>4, <2>1, BP!NextKeeps
<1>5. CASE Call \/ ScanEntry \/ PhyInit \/ MapTable \/ TablesMapped \/ MapPage
           \/ ClearPage \/ Cleared \/ ReserveEntry \/ MarkDma
  BY <1>1, <1>5 DEF Call, ScanEntry, PhyInit, MapTable, TablesMapped, MapPage,
                    ClearPage, Cleared, ReserveEntry, MarkDma, buddy
<1>6. CASE UseTables \/ UsePages \/ UseBoot
  BY <1>1, <1>6 DEF UseTables, UsePages, UseBoot, UseAt, buddy
<1>7. CASE Return
  BY <1>4, <1>7 DEF Return, buddy
<1>8. CASE UNCHANGED memVars
  <2>1. UNCHANGED <<flags, free, current, last, size, order, pc, step>>
    BY <1>8 DEF memVars
  <2> QED BY <1>1, <1>4, <2>1
<1> QED BY <1>2, <1>3, <1>5, <1>6, <1>7, <1>8 DEF Next, Advance, Stopped

-----------------------------------------------------------------------------
\* The invariant holds throughout mm_init().
LEMMA InvHolds == Spec => []Inv
<1>1. Init => Inv
  BY Starts
<1>2. Inv /\ [Next]_memVars => Inv'
  BY TypedKept, TopKept, MarksKept, ListsKept DEF Inv
<1> QED BY <1>1, <1>2, PTL DEF Spec

\* Nothing is listed before build_buddy() runs; then its blocks lie inside the
\* table, hold no used frame and are all of one zone.
LEMMA ListedFrames ==
  ASSUME Inv, NEW h \in Buddy!Handles, NEW f \in Buddy!Extent(h)
  PROVE  /\ step \in {"buddy", "done"} /\ f \in RamFrames
         /\ flags[f] \cap {"RESV", "TABLE", "KERNEL"} = {}
         /\ "DMA" \in flags[f] <=> h[1] = "dma"
<1>1. step \in {"buddy", "done"}
  <2>1. PICK z \in Buddy!Zones, o \in Buddy!Orders : \E k \in DOMAIN free[z][o] : TRUE
    BY DEF Buddy!Handles
  <2>2. free # Buddy!EmptyLists
    BY <2>1 DEF Buddy!EmptyLists
  <2> QED BY <2>2 DEF Inv, ListsInv
<1>2. h \in BP!Handles /\ f \in BP!Extent(h)
  BY DEF Buddy!Handles, Buddy!Extent, Buddy!First, Buddy!Zones, Buddy!Orders,
         BP!Handles, BP!Extent, BP!First, BP!Zones, BP!Orders
<1>3. f \in BP!Frames /\ ~BP!Used(f) /\ BP!ZoneOf(f) = h[1]
  BY <1>1, <1>2 DEF Inv, ListsInv, BP!LoopInvariant, BP!BlocksUsable
<1> QED BY <1>1, <1>3 DEF BP!Frames, RamFrames, BP!Used, BP!UsedMarks, BP!ZoneOf

\* The frame table has an entry for every whole page of available memory and
\* none beyond it, in whatever order the firmware lists the regions.
THEOREM TableCorrect == Spec => []TableCoversRam
<1>1. Inv => TableCoversRam
  <2> SUFFICES ASSUME Inv, step \notin {"call", "scan", "error"}
               PROVE  /\ \A e \in Entries : e.type = 1 =>
                           e.base + e.len <= (frame_num + 1) * PAGE - 1
                      /\ \E e \in Entries : e.type = 1 /\ frame_num * PAGE <= e.base + e.len
    BY DEF TableCoversRam
  <2>1. Typed /\ mmap # NoMap /\ frame_num = NFrames
    BY DEF Inv, Typed, TopInv, AfterScan
  <2>2. Entries = {mmap[k] : k \in DOMAIN mmap}
    BY <2>1, Regions DEF Entries
  <2>3. (NFrames + 1) * PAGE \in Nat
    BY Sizes
  <2>4. ASSUME NEW k \in DOMAIN mmap, mmap[k].type = 1
        PROVE  mmap[k].base + mmap[k].len <= (frame_num + 1) * PAGE - 1
    BY <2>1, <2>3, <2>4, Regions DEF End
  <2>5. \E k \in DOMAIN mmap :
          mmap[k].type = 1 /\ frame_num * PAGE <= mmap[k].base + mmap[k].len
    BY <2>1, Regions DEF End
  <2> QED BY <2>2, <2>4, <2>5
<1> QED BY <1>1, InvHolds, PTL

\* What the firmware keeps is never on a free list: the mark its loop sets is
\* there when build_buddy() reads it, for every map and size.
THEOREM ReservedCorrect == Spec => []ReservedNeverFree
<1>1. Inv => ReservedNeverFree
  <2> SUFFICES ASSUME Inv, NEW e \in Entries, e.type # 1, NEW h \in Buddy!Handles,
                      NEW f \in Buddy!Extent(h), f \in Region(e)
               PROVE  FALSE
    BY DEF ReservedNeverFree, Region, End
  <2>1. step \in {"buddy", "done"} /\ f \in RamFrames /\ "RESV" \notin flags[f]
    BY ListedFrames
  <2>2. Typed /\ mmap # NoMap
    BY <2>1 DEF Inv, Typed
  <2>3. PICK k \in DOMAIN mmap : e = mmap[k]
    BY <2>2, Regions DEF Entries
  <2>4. Kept(k)
    BY <2>1 DEF Inv, MarksInv, AfterClear
  <2> QED BY <2>1, <2>3, <2>4 DEF Kept
<1> QED BY <1>1, InvHolds, PTL

\* The boot image's frames are on no free list, and the DMA lists hold exactly
\* the blocks below the DMA limit, for every layout of the two.
THEOREM BootImageCorrect == Spec => []BootImageNeverFree
<1>1. Inv => BootImageNeverFree
  <2> SUFFICES ASSUME Inv, NEW h \in Buddy!Handles, NEW f \in Buddy!Extent(h)
               PROVE  f >= BootEnd /\ (f < DmaEnd <=> h[1] = "dma")
    BY DEF BootImageNeverFree
  <2>1. /\ step \in {"buddy", "done"} /\ f \in RamFrames /\ "KERNEL" \notin flags[f]
        /\ "DMA" \in flags[f] <=> h[1] = "dma"
    BY ListedFrames
  <2>2. ~ (f < BootEnd) /\ (f < DmaEnd <=> h[1] = "dma")
    BY <2>1 DEF Inv, MarksInv, AfterClear
  <2> QED BY <2>1, <2>2, Sizes DEF RamFrames
<1> QED BY <1>1, InvHolds, PTL
-----------------------------------------------------------------------------
(* The frame table is mapped where it is touched, if one page table is     *)
(* enough for what mm_phy_init() maps: RAM below about 1 GB.  (With more   *)
(* it holds up to the size of the run mm_init_large, where it fails.)      *)

\* The pages mm_phy_init() maps for a table of NFrames entries.
Pages == CeilDiv((KernelEnd - IdentEnd) * PER_PAGE + NFrames, PER_PAGE)

\* The order of the sizes in the code, fewer pages than a page table maps, RAM
\* that holds them, and kept regions that begin in RAM end there.
Fits ==
  /\ IdentEnd < KernelEnd /\ KernelEnd < BootEnd /\ BootEnd = PER_TAB /\ BootEnd < DmaEnd
  /\ DirFrame < KernelEnd /\ SelfFrame < KernelEnd /\ KDIR + 1 < PGT
  /\ Pages < PER_TAB /\ DmaEnd + Pages < NFrames
  /\ \A map \in Maps \ {NoMap} : \A j, k \in DOMAIN map :
       map[j].type = 1 /\ map[k].type # 1 /\ map[k].base < End(map[j])
         => End(map[k]) < (NFrames + 1) * PAGE

NewDir == KDIR + 1      \* the directory entry of the new table

\* The window of page.c works, and shows the new table.
Window(m) ==
  /\ m \in [TabFrames -> [Slots -> {Absent, Junk} \cup Nat]]
  /\ m[DirFrame][KDIR] = 0 /\ m[DirFrame][PGT] = SelfFrame
  /\ m[SelfFrame][PGT] = SelfFrame /\ m[SelfFrame][KDIR] = DirFrame
HasNew(m) == m[DirFrame][NewDir] = DmaEnd /\ m[SelfFrame][NewDir] = DmaEnd
MapsUpTo(m, n) == \A j \in Slots : j < n => m[DmaEnd][j] = DmaEnd + 1 + j

AfterPages == AfterScan \ {"tables", "pages"}

\* mm_phy_init() sets up the window, enters one table and maps page by page;
\* nothing that follows writes into a table.
MemInv ==
  /\ max_addr = 0 \/ \E k \in DOMAIN mmap : mmap[k].type = 1 /\ max_addr = End(mmap[k])
  /\ step \in {"call", "scan"} => mem = BootTables(TabFrames)
  /\ step \in AfterScan => Window(mem) /\ max_addr < (NFrames + 1) * PAGE
  /\ step = "tables" => i <= 1 /\ (i = 1 => HasNew(mem))
  /\ step = "pages" => i <= Pages /\ HasNew(mem) /\ MapsUpTo(mem, i)
  /\ step \in AfterPages => HasNew(mem) /\ MapsUpTo(mem, Pages)

\* The layout in numbers.
LEMMA Layout ==
  ASSUME Fits
  PROVE  /\ PER_TAB \in Nat /\ KDIR \in Nat /\ PGT \in Nat /\ KernelEnd \in Nat
         /\ DmaEnd \in Nat /\ BootEnd = PER_TAB /\ DirFrame \in Nat /\ SelfFrame \in Nat
         /\ KDIR + 1 < PGT /\ PGT < PER_TAB /\ DirFrame # SelfFrame
         /\ DirFrame < KernelEnd /\ SelfFrame < KernelEnd /\ KernelEnd < PER_TAB
         /\ PER_TAB < DmaEnd /\ Pages \in Nat /\ Pages < PER_TAB /\ Pages > 0
         /\ {DirFrame, SelfFrame, DmaEnd} \subseteq TabFrames
         /\ {KDIR, PGT, NewDir} \subseteq Slots /\ NewDir \notin {KDIR, PGT}
<1>1. /\ PER_TAB \in Nat /\ KDIR \in Nat /\ PGT \in Nat /\ DirFrame \in Nat
      /\ SelfFrame \in Nat /\ DirFrame # SelfFrame /\ PGT < PER_TAB
  BY PageTablesAssumption
<1>2. /\ KernelEnd \in Nat /\ DmaEnd \in Nat /\ IdentEnd \in Nat /\ NFrames \in Nat
      /\ PER_PAGE \in Nat \ {0}
  BY Sizes
<1>3. Pages \in Nat /\ Pages > 0
  <2>1. KernelEnd - IdentEnd \in Nat /\ KernelEnd - IdentEnd >= 1
    BY <1>2 DEF Fits
  <2>2. (KernelEnd - IdentEnd) * PER_PAGE \in Nat /\ (KernelEnd - IdentEnd) * PER_PAGE >= PER_PAGE
    BY <1>2, <2>1
  <2> DEFINE a == (KernelEnd - IdentEnd) * PER_PAGE + NFrames + PER_PAGE - 1
  <2>3. a \in Nat /\ a >= PER_PAGE
    BY <1>2, <2>2
  <2> HIDE DEF a
  <2>4. a \div PER_PAGE \in Nat /\ a \div PER_PAGE > 0
    BY <1>2, <2>3
  <2> QED BY <2>4 DEF Pages, CeilDiv, a
<1>4. 0 \in 0 .. PGT - KDIR - 2 /\ DmaEnd = DmaEnd + 0 * PER_TAB
  BY <1>1, <1>2 DEF Fits
<1>5. {DirFrame, SelfFrame, DmaEnd} \subseteq TabFrames
  BY <1>4 DEF TabFrames
<1>6. {KDIR, PGT, NewDir} \subseteq Slots /\ NewDir \notin {KDIR, PGT}
  BY <1>1 DEF Fits, Slots, NewDir
<1> QED BY <1>1, <1>2, <1>3, <1>5, <1>6 DEF Fits

\* Quotient and remainder of a number put together from its two digits.
LEMMA Digits ==
  ASSUME NEW n \in Nat, NEW d \in Nat, NEW j \in Nat, j < n
  PROVE  (d * n + j) \div n = d /\ (d * n + j) % n = j
OBVIOUS

\* Where the pages of the kernel's range have their entries.
LEMMA PlaceOf ==
  ASSUME Fits, NEW j \in Slots
  PROVE  /\ DirIdx(KernelPage(j)) = KDIR /\ TabIdx(KernelPage(j)) = j
         /\ DirIdx(KernelPage(BootEnd + j)) = NewDir /\ TabIdx(KernelPage(BootEnd + j)) = j
         /\ DirIdx(WindowPage(j)) = PGT /\ TabIdx(WindowPage(j)) = j
<1>1. PER_TAB \in Nat /\ KDIR \in Nat /\ PGT \in Nat /\ j \in Nat /\ j < PER_TAB
  BY Layout DEF Slots
<1>2. BootEnd = PER_TAB /\ NewDir \in Nat
  BY <1>1, Layout DEF NewDir
<1>3. KernelPage(BootEnd + j) = NewDir * PER_TAB + j
  BY <1>1, <1>2 DEF KernelPage, NewDir
<1> QED BY <1>1, <1>2, <1>3, Digits DEF DirIdx, TabIdx, KernelPage, WindowPage

\* Through the window the table of an index is the frame its slot names.
LEMMA WindowWalk ==
  ASSUME Fits, NEW m, Window(m), NEW j \in Slots
  PROVE  Walk(m, WindowPage(j)) = m[SelfFrame][j]
<1>1. m[DirFrame][PGT] = SelfFrame /\ SelfFrame # Absent /\ PGT # KDIR
      /\ SelfFrame \in DOMAIN m
  BY Layout DEF Window, Absent
<1> QED BY <1>1, PlaceOf DEF Walk

\* page_make_tab() for the new table, as two stores.
LEMMA TableMade ==
  ASSUME Fits, NEW m, Window(m), NEW v, DirIdx(v) = NewDir
  PROVE  Window(PageMakeTab(m, DmaEnd, v)) /\ HasNew(PageMakeTab(m, DmaEnd, v))
<1> DEFINE m1 == [m EXCEPT ![DirFrame][NewDir] = DmaEnd]
           m2 == [m1 EXCEPT ![SelfFrame][NewDir] = DmaEnd]
<1>1. Store(m, DirWindow, NewDir, DmaEnd) = m1
  <2>1. Walk(m, DirWindow) = DirFrame
    BY WindowWalk, Layout DEF DirWindow, Window
  <2> QED BY <2>1, Layout DEF Store, Window
<1>2. Window(m1) /\ m1[DirFrame][NewDir] = DmaEnd
  BY Layout DEF Window
<1>3. Store(m1, SelfWindow, NewDir, DmaEnd) = m2
  <2> HIDE DEF m1
  <2>1. Walk(m1, SelfWindow) = SelfFrame
    BY <1>2, WindowWalk, Layout DEF SelfWindow, Window
  <2> QED BY <1>2, <2>1, Layout DEF Store, Window
<1>4. Window(m2) /\ HasNew(m2)
  <2> HIDE DEF m1
  <2> QED BY <1>2, Layout DEF Window, HasNew
<1> QED BY <1>1, <1>3, <1>4 DEF PageMakeTab

\* page_make() for the j-th page behind the boot mapping.
LEMMA PageMade ==
  ASSUME Fits, NEW m, Window(m), HasNew(m), NEW j \in Slots, MapsUpTo(m, j),
         NEW n, n = PageMake(m, DmaEnd + 1 + j, KernelPage(BootEnd + j))
  PROVE  Window(n) /\ HasNew(n) /\ MapsUpTo(n, j + 1)
<1>1. n = [m EXCEPT ![DmaEnd][j] = DmaEnd + 1 + j]
  <2>1. Walk(m, WindowPage(NewDir)) = DmaEnd
    BY WindowWalk, Layout DEF HasNew
  <2> QED BY <2>1, PlaceOf, Layout DEF PageMake, Store, Window
<1>2. DmaEnd # DirFrame /\ DmaEnd # SelfFrame /\ DmaEnd + 1 + j \in Nat
  BY Layout DEF Slots
<1>3. Window(n) /\ HasNew(n)
  BY <1>1, <1>2, Layout DEF Window, HasNew
<1>4. ASSUME NEW k \in Slots, k < j + 1 PROVE n[DmaEnd][k] = DmaEnd + 1 + k
  <2>1. k < j \/ k = j
    BY <1>4, Layout DEF Slots
  <2>2. n[DmaEnd][k] = IF k = j THEN DmaEnd + 1 + j ELSE m[DmaEnd][k]
    BY <1>1, Layout DEF Window
  <2> QED BY <2>1, <2>2 DEF MapsUpTo
<1> QED BY <1>3, <1>4 DEF MapsUpTo

\* The pages the table takes, and those behind the boot mapping among them.
LEMMA TableFits ==
  ASSUME Fits, frame_num = NFrames
  PROVE  /\ pg_cnt = Pages /\ tab_cnt = 1 /\ TablePages \in Nat
         /\ KernelEnd + TablePages <= BootEnd + Pages
         /\ Beyond > 0
<1> DEFINE x == KernelEnd - IdentEnd
           p == PER_PAGE
           a == NFrames + p - 1
<1>1. x \in Nat /\ x > 0 /\ p \in Nat \ {0} /\ NFrames \in Nat /\ KernelEnd \in Nat
      /\ IdentEnd \in Nat /\ PER_TAB \in Nat
  BY Sizes, Layout DEF Fits
<1>2. pg_cnt = Pages
  BY DEF pg_cnt, Beyond, Pages
<1>3. tab_cnt = 1
  <2>1. Pages \in Nat /\ Pages > 0 /\ Pages < PER_TAB
    BY Layout
  <2>2. PER_TAB <= Pages + PER_TAB - 1 /\ Pages + PER_TAB - 1 < 2 * PER_TAB
    BY <1>1, <2>1
  <2>3. (Pages + PER_TAB - 1) \div PER_TAB = 1
    <3>1. Pages + PER_TAB - 1 \in Nat /\ PER_TAB \in Nat \ {0} /\ 1 * PER_TAB = PER_TAB
          /\ (1 + 1) * PER_TAB = 2 * PER_TAB
      BY <1>1, <2>1
    <3> QED BY <2>2, <3>1, Quotient
  <2> QED BY <1>2, <2>3 DEF tab_cnt, CeilDiv
<1>4. TablePages = a \div p
  BY DEF TablePages, CeilDiv
<1>5. Pages = (x * p + a) \div p
  <2>1. x * p \in Nat
    BY <1>1
  <2>2. x * p + NFrames + p - 1 = x * p + a
    BY <1>1, <2>1
  <2> QED BY <2>2 DEF Pages, CeilDiv
<1> HIDE DEF x
<1>6. a \in Nat /\ a \div p \in Nat
  BY <1>1
<1> HIDE DEF a, p
<1>7. (x * p + a) \div p = x + a \div p
  <2> DEFINE q == a \div p
  <2>1. q \in Nat /\ a = q * p + (a % p) /\ a % p \in 0 .. p - 1
    BY <1>1, <1>6
  <2> HIDE DEF q
  <2>2. q * p \in Nat /\ x * p \in Nat /\ (x + q) * p = x * p + q * p
        /\ (x + q + 1) * p = x * p + q * p + p /\ x + q \in Nat
    BY <1>1, <2>1
  <2>3. (x + q) * p <= x * p + a /\ x * p + a < (x + q + 1) * p /\ x * p + a \in Nat
    BY <1>1, <1>6, <2>1, <2>2
  <2>4. (x * p + a) \div p = x + q
    BY <1>1, <2>2, <2>3, Quotient
  <2> QED BY <2>4 DEF q
<1>8. TablePages \in Nat /\ Pages = x + TablePages
  BY <1>4, <1>5, <1>6, <1>7
<1>9. KernelEnd + TablePages <= BootEnd + Pages
  <2>1. KernelEnd < BootEnd /\ BootEnd \in Nat
    BY <1>1 DEF Fits
  <2> QED BY <1>1, <1>8, <2>1
<1>10. Beyond > 0
  <2>1. x * PER_PAGE \in Nat /\ x * PER_PAGE > 0
    BY <1>1 DEF p
  <2>2. Beyond = x * PER_PAGE + NFrames
    BY DEF Beyond, x
  <2> QED BY <1>1, <2>1, <2>2
<1> QED BY <1>2, <1>3, <1>8, <1>9, <1>10

\* Once all is mapped, every page of the frame table is, and what is behind it is
\* no page table.
LEMMA AllMapped ==
  ASSUME Fits, Window(mem), HasNew(mem), MapsUpTo(mem, Pages), frame_num = NFrames,
         NEW p \in KernelEnd .. KernelEnd + TablePages - 1
  PROVE  Mapped(p) /\ Walk(mem, KernelPage(p)) \notin TabFrames
<1> DEFINE w == Walk(mem, KernelPage(p))
<1>1. /\ PER_TAB \in Nat /\ KernelEnd \in Nat /\ DmaEnd \in Nat /\ Pages \in Nat
      /\ BootEnd = PER_TAB /\ TablePages \in Nat /\ p \in Nat /\ KernelEnd <= p
      /\ p < PER_TAB + Pages /\ Pages < PER_TAB /\ PER_TAB < DmaEnd
  BY Layout, TableFits
<1>2. CASE p < PER_TAB
  <2>1. p \in Slots
    BY <1>1, <1>2 DEF Slots
  <2>2. w = p
    <3>1. mem[DirFrame][KDIR] = 0 /\ 0 # Absent
      BY DEF Window, Absent
    <3>2. w = 0 + p
      BY <2>1, <3>1, PlaceOf DEF Walk
    <3> QED BY <1>1, <3>2
  <2>3. p # DirFrame /\ p # SelfFrame
    BY <1>1, Layout
  <2>4. ASSUME NEW k \in 0 .. PGT - KDIR - 2 PROVE p # DmaEnd + k * PER_TAB
    <3>1. k \in Nat
      BY Layout
    <3>2. k * PER_TAB \in Nat
      BY <1>1, <3>1
    <3> QED BY <1>1, <1>2, <3>2
  <2> QED BY <1>1, <2>2, <2>3, <2>4 DEF Mapped, TabFrames, Absent, Junk
<1>3. CASE p >= PER_TAB
  <2> DEFINE j == p - PER_TAB
  <2>1. j \in Slots /\ j < Pages /\ p = BootEnd + j /\ j \in Nat
    BY <1>1, <1>3 DEF Slots
  <2> HIDE DEF j
  <2>2. w = DmaEnd + 1 + j
    <3>1. mem[DirFrame][NewDir] = DmaEnd /\ DmaEnd # Absent /\ NewDir # KDIR
          /\ DmaEnd \in DOMAIN mem
      BY Layout DEF HasNew, Absent, Window
    <3>2. DirIdx(KernelPage(p)) = NewDir /\ TabIdx(KernelPage(p)) = j
      BY <2>1, PlaceOf
    <3>3. w = mem[DmaEnd][j]
      BY <3>1, <3>2 DEF Walk
    <3> QED BY <2>1, <3>3 DEF MapsUpTo
  <2>3. w # DirFrame /\ w # SelfFrame
    BY <1>1, <2>1, <2>2, Layout
  <2>4. ASSUME NEW k \in 0 .. PGT - KDIR - 2 PROVE w # DmaEnd + k * PER_TAB
    <3>1. k \in Nat
      BY Layout
    <3>2. CASE k = 0
      <4>1. k * PER_TAB = 0
        BY <1>1, <3>2
      <4> QED BY <1>1, <2>1, <2>2, <4>1
    <3>3. CASE k >= 1
      <4>1. k * PER_TAB \in Nat /\ k * PER_TAB >= PER_TAB
        BY <1>1, <3>1, <3>3
      <4> QED BY <1>1, <2>1, <2>2, <4>1
    <3> QED BY <3>1, <3>2, <3>3
  <2> QED BY <1>1, <2>1, <2>2, <2>3, <2>4 DEF Mapped, TabFrames, Absent, Junk
<1> QED BY <1>1, <1>2, <1>3

\* The entries of frames of RAM lie in the pages of the table.
LEMMA EntriesInTable ==
  ASSUME Fits, frame_num = NFrames, NEW range, range \subseteq RamFrames
  PROVE  EntryPages(range) \subseteq KernelEnd .. KernelEnd + TablePages - 1
<1> SUFFICES ASSUME NEW f \in RamFrames
             PROVE  EntryPage(f) \in KernelEnd .. KernelEnd + TablePages - 1
  BY DEF EntryPages
<1>1. NFrames \in Nat /\ PER_PAGE \in Nat \ {0} /\ KernelEnd \in Nat
      /\ f \in 0 .. NFrames - 1 /\ f \in Nat
  BY Sizes DEF RamFrames
<1>2. f \div PER_PAGE < TablePages
  BY <1>1, EntryInTable DEF TablePages, CeilDiv
<1>3. f \div PER_PAGE \in Nat /\ TablePages \in Nat
  BY <1>1, TableFits
<1> QED BY <1>1, <1>2, <1>3 DEF EntryPage

\* The frames of a region that mm_phy_reserve() is called for lie in RAM.
LEMMA ReservedInRam ==
  ASSUME Fits, Inv, MemInv, step = "reserve", NEW k \in DOMAIN mmap, ToReserve(mmap[k])
  PROVE  Range(mmap[k].base, mmap[k].len) \subseteq RamFrames
<1> DEFINE b == mmap[k].base
           n == mmap[k].len
<1>1. mmap # NoMap /\ mmap \in Maps /\ max_addr \in Nat
  BY DEF Inv, Typed
<1>2. max_addr < (NFrames + 1) * PAGE
  BY DEF MemInv, AfterScan, Steps
<1>3. b \in Nat /\ n \in Nat /\ (b + n < ADDR \/ b >= (NFrames + 1) * PAGE)
  BY <1>1, Regions DEF Inv, ToReserve, End
<1>4. b < (NFrames + 1) * PAGE /\ (NFrames + 1) * PAGE \in Nat
  BY <1>1, <1>2, <1>3, Sizes DEF ToReserve
<1>5. b + n < (NFrames + 1) * PAGE
  <2>1. b < max_addr /\ mmap[k].type # 1
    BY DEF ToReserve
  <2>2. PICK j \in DOMAIN mmap : mmap[j].type = 1 /\ max_addr = End(mmap[j])
    BY <1>3, <2>1 DEF MemInv
  <2>3. End(mmap[k]) < (NFrames + 1) * PAGE
    BY <1>1, <2>1, <2>2 DEF Fits
  <2> QED BY <2>3 DEF End
<1> HIDE DEF b, n
<1>6. (b + n) % ADDR = b + n
  <2>1. b + n \in Nat /\ b + n < ADDR
    BY <1>3, <1>4, Sizes
  <2> QED BY <2>1, Sizes, Wrap
<1>7. (b + n) \div PAGE \in Nat /\ b \div PAGE \in Nat
  BY <1>3, Sizes
<1>8. (b + n) \div PAGE < NFrames + 1
  <2> SUFFICES ASSUME NFrames + 1 <= (b + n) \div PAGE PROVE FALSE
    BY <1>7, Sizes
  <2> DEFINE q == (b + n) \div PAGE
             a == b + n
  <2>1. a \in Nat /\ q \in Nat /\ PAGE \in Nat \ {0} /\ NFrames \in Nat
    <3>1. a \in Nat
      BY <1>3
    <3> QED BY <1>7, <3>1, Sizes
  <2>2. q * PAGE <= a
    <3>1. q = a \div PAGE
      OBVIOUS
    <3> HIDE DEF a
    <3>2. a = (a \div PAGE) * PAGE + (a % PAGE) /\ a % PAGE \in 0 .. PAGE - 1
      BY <2>1
    <3> HIDE DEF q
    <3>3. a = q * PAGE + (a % PAGE)
      BY <3>1, <3>2
    <3>4. q * PAGE \in Nat
      BY <2>1
    <3> QED BY <2>1, <3>2, <3>3, <3>4
  <2> HIDE DEF q
  <2>3. (NFrames + 1) * PAGE <= q * PAGE
    BY <2>1 DEF q
  <2> QED BY <1>4, <1>5, <2>1, <2>2, <2>3
<1>9. Range(b, n) \subseteq RamFrames
  BY <1>6, <1>7, <1>8, Sizes DEF Range, RamFrames
<1> QED BY <1>9 DEF b, n

\* No step touches a page of the frame table that is not mapped.
LEMMA NeverFaults ==
  ASSUME Fits, Inv, MemInv
  PROVE  NoFault
<1>1. CASE step \in AfterPages \/ (step = "pages" /\ i >= pg_cnt)
  <2>1. frame_num = NFrames /\ Window(mem) /\ HasNew(mem)
    BY <1>1 DEF Inv, TopInv, MemInv, AfterPages, AfterScan, Steps
  <2>2. MapsUpTo(mem, Pages)
    <3>1. CASE step = "pages" /\ i >= pg_cnt
      BY <2>1, <3>1, TableFits, Layout DEF MemInv, Inv, Typed, MapsUpTo, Slots
    <3>2. CASE step \in AfterPages
      BY <3>2 DEF MemInv
    <3> QED BY <1>1, <3>1, <3>2
  <2>3. ASSUME NEW p \in KernelEnd .. KernelEnd + TablePages - 1 PROVE Mapped(p)
    BY <2>1, <2>2, AllMapped
  <2>4. /\ NFrames \in Nat /\ DmaEnd \in Nat /\ BootEnd \in Nat /\ Pages \in Nat
        /\ BootEnd < DmaEnd /\ DmaEnd + Pages < NFrames /\ pg_cnt = Pages /\ tab_cnt = 1
        /\ Pages > 0 /\ TablePages \in Nat /\ KernelEnd \in Nat
    BY <2>1, Sizes, Layout, TableFits DEF Fits
  <2>5. /\ TableRange \subseteq RamFrames /\ DataRange \subseteq RamFrames
        /\ 0 .. DmaEnd - 1 \subseteq RamFrames /\ 0 .. BootEnd - 1 \subseteq RamFrames
    BY <2>4 DEF TableRange, DataRange, RamFrames
  <2>6. TouchedPages \subseteq KernelEnd .. KernelEnd + TablePages - 1
    <3>1. CASE step = "pages"
      BY <1>1, <2>1, <2>5, <3>1, EntriesInTable DEF TouchedPages, AfterPages
    <3>2. CASE step = "usePages"
      BY <2>1, <2>5, <3>2, EntriesInTable DEF TouchedPages
    <3>3. CASE step = "clear"
      <4>1. i < TablePages => KernelEnd + i \in KernelEnd .. KernelEnd + TablePages - 1
        BY <2>4 DEF Inv, Typed
      <4> QED BY <3>3, <4>1 DEF TouchedPages
    <3>4. CASE step = "reserve" /\ i <= Len(mmap)
      <4>1. i \in DOMAIN mmap /\ ~ (i > Len(mmap))
        BY <3>4, Regions DEF Inv, Typed, MarksInv
      <4>2. CASE ToReserve(mmap[i])
        <5>1. Range(mmap[i].base, mmap[i].len) \subseteq RamFrames
          BY <3>4, <4>1, <4>2, ReservedInRam
        <5>2. TouchedPages = EntryPages(Range(mmap[i].base, mmap[i].len))
          BY <3>4, <4>1, <4>2 DEF TouchedPages
        <5> QED BY <2>1, <5>1, <5>2, EntriesInTable
      <4>3. CASE ~ToReserve(mmap[i])
        <5>1. TouchedPages = {}
          BY <3>4, <4>1, <4>3 DEF TouchedPages
        <5> QED BY <5>1
      <4> QED BY <4>2, <4>3
    <3>5. CASE step = "reserve" /\ i > Len(mmap)
      <4>1. ~ (i <= Len(mmap))
        BY <3>5, Regions DEF Inv, Typed
      <4> QED BY <2>1, <2>5, <3>5, <4>1, EntriesInTable DEF TouchedPages
    <3>6. CASE step = "boot"
      BY <2>1, <2>5, <3>6, EntriesInTable DEF TouchedPages
    <3>7. CASE step \in {"buddyStart", "buddy"}
      BY <2>1, <3>7, EntriesInTable DEF TouchedPages
    <3>8. CASE step = "done"
      BY <3>8 DEF TouchedPages
    <3>9. step = "reserve" => i <= Len(mmap) \/ i > Len(mmap)
      BY Regions DEF Inv, Typed
    <3> QED BY <1>1, <3>1, <3>2, <3>3, <3>4, <3>5, <3>6, <3>7, <3>8, <3>9
            DEF AfterPages, AfterScan, Steps
  <2> QED BY <2>3, <2>6 DEF NoFault
<1>2. CASE step \in {"call", "error", "scan", "tables"} \/ (step = "pages" /\ ~ (i >= pg_cnt))
  BY <1>2 DEF NoFault, TouchedPages
<1> QED BY <1>1, <1>2 DEF Inv, Typed, AfterPages, AfterScan, Steps

\* The window and the new table are set up in their turn and then left alone.
LEMMA MemKept ==
  ASSUME Fits, Inv, MemInv, [Next]_memVars
  PROVE  MemInv'
<1> USE DEF MemInv, AfterScan, AfterPages, Steps
<1>0. UNCHANGED <<max_addr, mmap>> =>
        (max_addr = 0 \/ \E k \in DOMAIN mmap : mmap[k].type = 1 /\ max_addr = End(mmap[k]))'
  BY DEF End
<1>1. CASE Call \/ ScanEntry
  <2>1. CASE Call
    BY <1>0, <2>1 DEF Call
  <2>2. CASE ScanEntry
    <3>1. mmap # NoMap /\ i \in DOMAIN mmap
      BY <2>2, Regions DEF ScanEntry, TopInv, Inv, Typed
    <3>2. mmap[i].type = 1 => End(mmap[i]) % ADDR = End(mmap[i])
      <4>1. End(mmap[i]) \in Nat /\ (mmap[i].type = 1 => End(mmap[i]) < ADDR)
        BY <3>1, Regions DEF Inv
      <4> QED BY <4>1, Sizes, Wrap
    <3>3. /\ max_addr' = max_addr \/ (mmap[i].type = 1 /\ max_addr' = End(mmap[i]))
          /\ UNCHANGED <<mem, mmap, step>>
      BY <2>2, <3>2 DEF ScanEntry, End
    <3> QED BY <1>0, <2>2, <3>1, <3>3 DEF ScanEntry, End
  <2> QED BY <1>1, <2>1, <2>2
<1>2. CASE PhyInit
  <2>0. UNCHANGED mmap
    BY <1>2 DEF PhyInit
  <2>1. Window(mem')
    <3>1. mem' = PageInitSelf(BootTables(TabFrames))
      BY <1>2 DEF PhyInit
    <3>2. DirFrame \in TabFrames /\ SelfFrame \in TabFrames /\ DirFrame # SelfFrame
          /\ KDIR \in Slots /\ PGT \in Slots /\ KDIR # PGT
          /\ DirFrame \in Nat /\ SelfFrame \in Nat
      BY Layout
    <3>3. BootTables(TabFrames) \in [TabFrames -> [Slots -> {Absent, Junk} \cup Nat]]
          /\ BootTables(TabFrames)[DirFrame][KDIR] = 0
      BY <3>2 DEF BootTables, Absent, Junk
    <3> QED BY <3>1, <3>2, <3>3 DEF PageInitSelf, Window
  <2>2. step' = "tables" /\ i' = 0 /\ max_addr' = max_addr
    <3>1. frame_num' = NFrames /\ (IF Beyond' > 0 THEN step' = "tables" ELSE step' = "clear")
      BY <1>2, ScanFindsTop DEF PhyInit, Inv
    <3>2. Beyond' = (KernelEnd - IdentEnd) * PER_PAGE + NFrames
      BY <3>1 DEF Beyond
    <3>3. (KernelEnd - IdentEnd) * PER_PAGE \in Nat /\ (KernelEnd - IdentEnd) * PER_PAGE > 0
      <4>1. KernelEnd - IdentEnd \in Nat /\ KernelEnd - IdentEnd > 0 /\ PER_PAGE \in Nat \ {0}
        BY Sizes DEF Fits
      <4> QED BY <4>1
    <3> QED BY <1>2, <3>1, <3>2, <3>3, Sizes DEF PhyInit
  <2>3. max_addr < (NFrames + 1) * PAGE
    BY <1>2 DEF PhyInit, Inv, TopInv
  <2> QED BY <1>0, <2>0, <2>1, <2>2, <2>3
<1>3. CASE MapTable
  <2>0. UNCHANGED mmap
    BY <1>3 DEF MapTable
  <2>1. step = "tables" /\ step' = "tables" /\ i = 0 /\ i' = 1 /\ max_addr' = max_addr
    <3>1. tab_cnt = 1
      BY <1>3, TableFits DEF MapTable, Inv, TopInv
    <3> QED BY <1>3, <3>1 DEF MapTable, Inv, Typed
  <2>2. mem' = PageMakeTab(mem, DmaEnd, KernelPage(BootEnd))
    <3>1. DmaEnd + 0 * PER_TAB = DmaEnd /\ BootEnd + 0 * PER_TAB = BootEnd
      BY Layout
    <3> QED BY <1>3, <2>1, <3>1 DEF MapTable
  <2>3. DirIdx(KernelPage(BootEnd)) = NewDir
    <3>1. 0 \in Slots /\ BootEnd + 0 = BootEnd
      BY Layout DEF Slots
    <3> QED BY <3>1, PlaceOf
  <2> QED BY <1>0, <2>0, <2>1, <2>2, <2>3, TableMade
<1>4. CASE TablesMapped
  <2>1. step = "tables" /\ step' = "pages" /\ i' = 0 /\ UNCHANGED <<mem, max_addr, mmap>>
    BY <1>4 DEF TablesMapped
  <2>2. i = 1
    BY <1>4, <2>1, TableFits DEF TablesMapped, Inv, TopInv, Typed
  <2>3. MapsUpTo(mem, 0) /\ 0 <= Pages
    BY Layout DEF MapsUpTo, Slots
  <2> QED BY <1>0, <2>1, <2>2, <2>3 DEF MapsUpTo, HasNew
<1>5. CASE MapPage
  <2>1. /\ step = "pages" /\ step' = "pages" /\ i \in Nat /\ i' = i + 1
        /\ UNCHANGED <<max_addr, mmap>> /\ i < Pages /\ tab_cnt = 1
    BY <1>5, TableFits DEF MapPage, Inv, Typed, TopInv
  <2>2. i \in Slots
    BY <2>1, Layout DEF Slots
  <2>3. PICK j \in Slots : j = i
    BY <2>2
  <2>4. mem' = PageMake(mem, DmaEnd + 1 + j, KernelPage(BootEnd + j))
    <3>1. DmaEnd + i + 1 = DmaEnd + 1 + i
      BY <2>1, Layout
    <3> QED BY <1>5, <2>1, <2>3, <3>1 DEF MapPage
  <2>5. Window(mem) /\ HasNew(mem) /\ MapsUpTo(mem, j)
    BY <2>1, <2>3
  <2>6. Window(mem') /\ HasNew(mem') /\ MapsUpTo(mem', j + 1)
    BY <2>4, <2>5, PageMade
  <2> QED BY <1>0, <2>1, <2>3, <2>6, Layout DEF MapsUpTo, HasNew
<1>6. CASE UseTables
  <2>1. step = "pages" /\ step' = "usePages" /\ UNCHANGED <<mem, max_addr, mmap>> /\ i >= Pages
    BY <1>6, TableFits DEF UseTables, UseAt, Inv, TopInv
  <2>2. MapsUpTo(mem, Pages)
    BY <2>1, Layout DEF MapsUpTo, Slots, Inv, Typed
  <2> QED BY <1>0, <2>1, <2>2 DEF MapsUpTo, HasNew
<1>7. CASE ClearPage
  <2>1. /\ step = "clear" /\ step' = "clear" /\ UNCHANGED <<max_addr, mmap>>
        /\ mem' = Clear(mem, Walk(mem, KernelPage(KernelEnd + i)))
        /\ i \in Nat /\ i < TablePages
    BY <1>7 DEF ClearPage, Inv, Typed
  <2>2. frame_num = NFrames /\ KernelEnd \in Nat /\ TablePages \in Nat
    BY <2>1, TableFits, Sizes DEF Inv, TopInv
  <2>3. PICK p \in KernelEnd .. KernelEnd + TablePages - 1 : p = KernelEnd + i
    BY <2>1, <2>2
  <2>4. Walk(mem, KernelPage(p)) \notin TabFrames
    BY <2>1, <2>2, AllMapped
  <2>5. mem' = mem
    BY <2>1, <2>3, <2>4 DEF Clear, Window
  <2> QED BY <1>0, <2>1, <2>5 DEF MapsUpTo, HasNew
<1>8. CASE \/ UsePages \/ Cleared \/ ReserveEntry \/ MarkDma \/ UseBoot
           \/ StartBuddy \/ RunBuddy \/ Return
  <2>1. step \in AfterPages /\ step' \in AfterPages /\ UNCHANGED <<mem, max_addr, mmap>>
    BY <1>8 DEF UsePages, Cleared, ReserveEntry, MarkDma, UseBoot, UseAt, StartBuddy, RunBuddy,
                Return
  <2> QED BY <1>0, <2>1 DEF MapsUpTo, HasNew
<1>9. CASE UNCHANGED memVars
  BY <1>0, <1>9 DEF memVars, MapsUpTo, HasNew
<1> QED BY <1>1, <1>2, <1>3, <1>4, <1>5, <1>6, <1>7, <1>8, <1>9 DEF Next, Advance, Stopped

\* mm_init() never touches a page of the frame table that is not mapped, for
\* every map and size of RAM for which one page table is enough.
THEOREM MappedCorrect == Fits /\ Spec => []MappedBeforeUse
<1> DEFINE I == Fits /\ Inv /\ MemInv
<1>1. Fits /\ Init => I
  BY Starts DEF Init, MemInv, AfterScan, AfterPages
<1>2. I /\ [Next]_memVars => I'
  BY MemKept, TypedKept, TopKept, MarksKept, ListsKept DEF Inv, Fits, Pages
<1>3. I => MappedBeforeUse
  BY NeverFaults DEF MappedBeforeUse
<1> QED BY <1>1, <1>2, <1>3, PTL DEF Spec

\* What TypeOK says besides Typed.
WellFormed == /\ ref \in [RamFrames -> Nat]
              /\ mem \in [TabFrames -> [Slots -> {Absent, Junk} \cup Nat]]
              /\ max_addr \in 0 .. ADDR - 1 /\ frame_num \in Nat
              /\ stray = {}

\* Marks of frames of RAM go nowhere else.
LEMMA MarkInTable ==
  ASSUME NEW range, NEW mark, range \subseteq RamFrames, frame_num = NFrames,
         stray = {}, Mark(range, mark)
  PROVE  stray' = {}
<1>1. \A f \in RamFrames : ~ (f >= NFrames)
  BY Sizes DEF RamFrames
<1>2. {f \in range : f >= frame_num} = {}
  BY <1>1
<1> QED BY <1>2 DEF Mark

\* Nothing is marked behind the table and tables keep their shape.
LEMMA WellFormedKept ==
  ASSUME Fits, Inv, MemInv, WellFormed, [Next]_memVars
  PROVE  WellFormed'
<1> USE DEF WellFormed
<1>0. frame_num = NFrames => /\ TableRange \subseteq RamFrames /\ DataRange \subseteq RamFrames
                             /\ 0 .. DmaEnd - 1 \subseteq RamFrames
                             /\ 0 .. BootEnd - 1 \subseteq RamFrames
  <2> SUFFICES ASSUME frame_num = NFrames
               PROVE  /\ TableRange \subseteq RamFrames /\ DataRange \subseteq RamFrames
                      /\ 0 .. DmaEnd - 1 \subseteq RamFrames /\ 0 .. BootEnd - 1 \subseteq RamFrames
    OBVIOUS
  <2>1. /\ NFrames \in Nat /\ DmaEnd \in Nat /\ BootEnd \in Nat /\ Pages \in Nat
        /\ BootEnd < DmaEnd /\ DmaEnd + Pages < NFrames /\ pg_cnt = Pages /\ tab_cnt = 1
        /\ Pages > 0
    BY Sizes, Layout, TableFits DEF Fits
  <2> QED BY <2>1 DEF TableRange, DataRange, RamFrames
<1>1. CASE Call
  BY <1>1 DEF Call
<1>2. CASE ScanEntry
  <2>1. mmap # NoMap /\ i \in DOMAIN mmap
    BY <1>2, Regions DEF ScanEntry, TopInv, Inv, Typed
  <2>2. End(mmap[i]) % ADDR \in 0 .. ADDR - 1
    <3>1. End(mmap[i]) \in Nat
      BY <2>1, Regions DEF Inv
    <3> QED BY <3>1, Sizes, Wrap
  <2> QED BY <1>2, <2>2 DEF ScanEntry, End
<1>3. CASE PhyInit
  <2>1. step' \in {"tables", "clear"} /\ frame_num' \in Nat /\ UNCHANGED <<ref, max_addr, stray>>
    BY <1>3, ScanFindsTop, Sizes DEF PhyInit, Inv
  <2>2. Window(mem')
    BY <2>1, MemKept DEF MemInv, AfterScan, Steps
  <2> QED BY <2>1, <2>2 DEF Window
<1>4. CASE MapTable \/ TablesMapped \/ MapPage
  <2>1. step' \in {"tables", "pages"} /\ UNCHANGED <<ref, max_addr, stray, frame_num>>
    BY <1>4 DEF MapTable, TablesMapped, MapPage
  <2>2. Window(mem')
    BY <2>1, MemKept DEF MemInv, AfterScan, Steps
  <2> QED BY <2>1, <2>2 DEF Window
<1>5. ASSUME NEW range, NEW mark, range \subseteq RamFrames, frame_num = NFrames,
             Use(range, mark), UNCHANGED <<mem, max_addr, frame_num>>
      PROVE  WellFormed'
  <2>1. stray' = {}
    BY <1>5, MarkInTable DEF Use
  <2>2. ref' \in [RamFrames -> Nat]
    BY <1>5 DEF Use
  <2> QED BY <1>5, <2>1, <2>2
<1>6. CASE UseTables
  <2>1. step = "pages"
    BY <1>6 DEF UseTables, UseAt
  <2>2. frame_num = NFrames
    BY <2>1 DEF Inv, TopInv, AfterScan, Steps
  <2> QED BY <1>0, <1>5, <1>6, <2>2 DEF UseTables, UseAt
<1>7. CASE UsePages
  <2>1. step = "usePages"
    BY <1>7 DEF UsePages, UseAt
  <2>2. frame_num = NFrames
    BY <2>1 DEF Inv, TopInv, AfterScan, Steps
  <2> QED BY <1>0, <1>5, <1>7, <2>2 DEF UsePages, UseAt
<1>8. CASE UseBoot
  <2>1. step = "boot"
    BY <1>8 DEF UseBoot, UseAt
  <2>2. frame_num = NFrames
    BY <2>1 DEF Inv, TopInv, AfterScan, Steps
  <2> QED BY <1>0, <1>5, <1>8, <2>2 DEF UseBoot, UseAt
<1>9. CASE ClearPage
  <2>1. step' = "clear" /\ UNCHANGED <<max_addr, frame_num, stray>>
        /\ ref' = [f \in RamFrames |-> IF EntryPage(f) = KernelEnd + i THEN 0 ELSE ref[f]]
    BY <1>9 DEF ClearPage
  <2>2. Window(mem')
    BY <2>1, MemKept DEF MemInv, AfterScan, Steps
  <2>3. ref' \in [RamFrames -> Nat]
    BY <2>1
  <2> QED BY <2>1, <2>2, <2>3 DEF Window
<1>10. CASE ReserveEntry
  <2> DEFINE e     == mmap[i]
             range == IF ToReserve(e) THEN Range(e.base, e.len) ELSE {}
  <2>1. /\ step = "reserve" /\ Mark(range, {"RESV"})
        /\ UNCHANGED <<ref, mem, max_addr, frame_num>> /\ i <= Len(mmap)
    BY <1>10 DEF ReserveEntry
  <2>2. i \in DOMAIN mmap /\ frame_num = NFrames
    BY <2>1, Regions DEF Inv, Typed, MarksInv, TopInv, AfterScan, Steps
  <2>3. range \subseteq RamFrames
    <3>1. CASE ToReserve(e)
      BY <2>1, <2>2, <3>1, ReservedInRam
    <3>2. CASE ~ToReserve(e)
      BY <3>2
    <3> QED BY <3>1, <3>2
  <2> HIDE DEF range
  <2> QED BY <2>1, <2>2, <2>3, MarkInTable
<1>11. CASE MarkDma
  <2>1. step = "reserve" /\ Mark(0 .. DmaEnd - 1, {"DMA"})
        /\ UNCHANGED <<ref, mem, max_addr, frame_num>>
    BY <1>11 DEF MarkDma
  <2>2. frame_num = NFrames
    BY <2>1 DEF Inv, TopInv, AfterScan, Steps
  <2> QED BY <1>0, <2>1, <2>2, MarkInTable
<1>12. CASE Cleared \/ StartBuddy \/ RunBuddy \/ Return
  BY <1>12 DEF Cleared, StartBuddy, RunBuddy, Return
<1>13. CASE UNCHANGED memVars
  BY <1>13 DEF memVars
<1> QED BY <1>1, <1>2, <1>3, <1>4, <1>6, <1>7, <1>8, <1>9, <1>10, <1>11, <1>12, <1>13
        DEF Next, Advance, Stopped

\* Indices, counts, marks and page tables stay well formed, and no mark is
\* written behind the end of the frame table, under the same condition.
THEOREM TypeCorrect == Fits /\ Spec => []TypeOK
<1> DEFINE I == Fits /\ Inv /\ MemInv /\ WellFormed
<1>1. Fits /\ Init => I
  <2> SUFFICES ASSUME Fits, Init PROVE I
    OBVIOUS
  <2>1. Inv
    BY Starts
  <2>2. MemInv
    BY DEF Init, MemInv, AfterScan, AfterPages
  <2>3. BootTables(TabFrames) \in [TabFrames -> [Slots -> {Absent, Junk} \cup Nat]]
    BY DEF BootTables
  <2>4. 0 \in 0 .. ADDR - 1
    BY Sizes
  <2> QED BY <2>1, <2>2, <2>3, <2>4 DEF Init, WellFormed
<1>2. I /\ [Next]_memVars => I'
  BY MemKept, WellFormedKept, TypedKept, TopKept, MarksKept, ListsKept DEF Inv, Fits, Pages
<1>3. I => TypeOK
  BY DEF Inv, Typed, WellFormed, TypeOK, AllMarks
<1> QED BY <1>1, <1>2, <1>3, PTL DEF Spec
=============================================================================
