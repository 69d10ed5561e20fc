-------------------------- MODULE BuildBuddyProofs --------------------------
(***************************************************************************)
(* Proofs about BuildBuddy for every frame table, number of orders and     *)
(* boot layout: the loop invariant is inductive, the free blocks are       *)
(* usable, disjoint and complete, and the scan implements FramePool.       *)
(***************************************************************************)
EXTENDS BuildBuddy, TLAPS

\* Carving off bit b of a multiple of b leaves a multiple of 2b: the step of
\* the carving loop of build_buddy() that keeps size from wrapping.
LEMMA MultipleOfBlock ==
  ASSUME NEW s \in Nat, NEW b \in Nat \ {0}, s % b = 0
  PROVE  /\ s > 0 => s >= b
         /\ (s \div b) % 2 = 0 => s % (2 * b) = 0
         /\ (s \div b) % 2 # 0 => s >= b /\ (s - b) % (2 * b) = 0
<1> DEFINE q == s \div b
           r == q \div 2
<1>1. q \in Nat /\ s = q * b
  OBVIOUS
<1>2. r \in Nat /\ q = 2 * r + (q % 2) /\ q % 2 \in {0, 1}
  BY <1>1
<1>3. (r * (2 * b)) % (2 * b) = 0
  <2> DEFINE d == 2 * b
  <2>1. d \in Nat \ {0}
    OBVIOUS
  <2> HIDE DEF d
  <2>2. (r * d) % d = 0
    BY <1>2, <2>1
  <2> QED BY <2>2 DEF d
<1>4. s > 0 => s >= b
  <2> HIDE DEF q
  <2> QED BY <1>1
<1>5. ASSUME q % 2 = 0 PROVE s % (2 * b) = 0
  <2>1. q = 2 * r
    BY <1>2, <1>5
  <2>2. s = r * (2 * b)
    BY <1>1, <1>2, <2>1
  <2> QED BY <1>3, <2>2
<1>6. ASSUME q % 2 # 0 PROVE s >= b /\ (s - b) % (2 * b) = 0
  <2>1. q = 2 * r + 1
    BY <1>2, <1>6
  <2>2. s = r * (2 * b) + b /\ r * (2 * b) \in Nat
    BY <1>1, <1>2, <2>1
  <2>3. s >= b /\ s - b = r * (2 * b)
    BY <2>2
  <2> QED BY <1>3, <2>3
<1> QED BY <1>4, <1>5, <1>6

-----------------------------------------------------------------------------
\* Membership in the set of handles of any pair of zone lists fr.
LEMMA HandleOf ==
  ASSUME NEW fr, NEW h
  PROVE  h \in UNION {{<<z, i, k>> : k \in DOMAIN fr[z][i]} : z \in Zones, i \in Orders}
         <=> \E z \in Zones, i \in Orders : \E k \in DOMAIN fr[z][i] : h = <<z, i, k>>
<1> DEFINE S(z, i) == {<<z, i, k>> : k \in DOMAIN fr[z][i]}
<1>1. \A z, i : h \in S(z, i) <=> \E k \in DOMAIN fr[z][i] : h = <<z, i, k>>
  OBVIOUS
<1> HIDE DEF S
<1>2. h \in UNION {S(z, i) : z \in Zones, i \in Orders}
      <=> \E z \in Zones, i \in Orders : h \in S(z, i)
  OBVIOUS
<1> QED BY <1>1, <1>2 DEF S

\* What a handle is, and where its block lies.
LEMMA HandleType ==
  ASSUME TypeOK, NEW h \in Handles
  PROVE  /\ h = <<h[1], h[2], h[3]>>
         /\ h[1] \in Zones /\ h[2] \in Orders /\ h[3] \in DOMAIN free[h[1]][h[2]]
         /\ First(h) \in Frames
         /\ Blk[h[2]] \in Nat \ {0}
<1>1. PICK z \in Zones, i \in Orders : \E k \in DOMAIN free[z][i] : h = <<z, i, k>>
  BY DEF Handles
<1>2. PICK k \in DOMAIN free[z][i] : h = <<z, i, k>>
  BY <1>1
<1>3. free[z][i] \in Seq(Frames)
  BY DEF TypeOK
<1>4. free[z][i][k] \in Frames
  BY <1>2, <1>3
<1> QED BY <1>2, <1>4, BuddyAssumption DEF First, Orders

\* A step that touches neither the flags nor the lists moves no block.
LEMMA ListsSame ==
  ASSUME UNCHANGED <<flags, free>>
  PROVE  /\ Handles' = Handles
         /\ \A h : First(h)' = First(h) /\ Extent(h)' = Extent(h)
         /\ \A f : Used(f)' = Used(f) /\ ZoneOf(f)' = ZoneOf(f)
BY DEF Handles, First, Extent, Used, ZoneOf

\* The block CarveBlock takes fits into what is left of the run.
LEMMA BlockFits ==
  ASSUME LoopInvariant, CarveBlock
  PROVE  /\ order \in Orders
         /\ Blk[order] \in Nat \ {0}
         /\ size >= Blk[order]
         /\ last + Blk[order] <= current
         /\ last \in Frames
<1>1. order \in Orders /\ size > 0 /\ size \in Nat
  BY BuddyAssumption DEF LoopInvariant, TypeOK, CarveBlock, InForLoop, Orders
<1>2. Blk[order] \in Nat \ {0}
  BY <1>1, BuddyAssumption DEF Orders
<1>3. size % Blk[order] = 0
  BY <1>1 DEF LoopInvariant, CarveOrder, CarveBlock, InForLoop
<1>4. size >= Blk[order]
  BY <1>1, <1>2, <1>3, MultipleOfBlock
<1>5. size = current - last /\ current <= NFrames
  BY DEF LoopInvariant, CarveRun, CarveBlock
<1>6. last \in Nat /\ current \in Nat /\ NFrames \in Nat
  BY BuddyAssumption DEF LoopInvariant, TypeOK
<1> QED BY <1>1, <1>2, <1>4, <1>5, <1>6 DEF Frames

\* CarveBlock lists exactly one new block, the next Blk[order] frames.
LEMMA OneNewBlock ==
  ASSUME LoopInvariant, CarveBlock,
         NEW n, n = <<ZoneOf(last), order, Len(free[ZoneOf(last)][order]) + 1>>
  PROVE  /\ Handles' = Handles \cup {n}
         /\ n \notin Handles
         /\ \A h \in Handles : First(h)' = First(h) /\ Extent(h)' = Extent(h)
         /\ First(n)' = last
         /\ Extent(n)' = last .. last + Blk[order] - 1
         /\ \A f : Used(f)' = Used(f) /\ ZoneOf(f)' = ZoneOf(f)
<1> DEFINE zl == ZoneOf(last)
           old == free[zl][order]
<1>1. zl \in Zones /\ order \in Orders /\ last \in Frames
  BY BlockFits DEF ZoneOf, Zones
<1>2. TypeOK
  BY DEF LoopInvariant
<1>3. old \in Seq(Frames)
  BY <1>1, <1>2 DEF TypeOK
<1>4. free' = [free EXCEPT ![zl][order] = Append(old, last)] /\ flags' = flags
  BY DEF CarveBlock, Insert
<1>5. \A z \in Zones, i \in Orders :
        free'[z][i] = IF z = zl /\ i = order THEN Append(old, last) ELSE free[z][i]
  BY <1>1, <1>2, <1>4 DEF TypeOK
<1> HIDE DEF zl, old
<1>6. /\ DOMAIN Append(old, last) = DOMAIN old \cup {Len(old) + 1}
      /\ Len(old) + 1 \notin DOMAIN old
      /\ \A k \in DOMAIN old : Append(old, last)[k] = old[k]
      /\ Append(old, last)[Len(old) + 1] = last
  BY <1>1, <1>3
<1>7. n = <<zl, order, Len(old) + 1>>
  BY DEF zl, old
<1>8. old = free[zl][order]
  BY DEF old
<1>9. \A h : h \in Handles' <=> \E z \in Zones, i \in Orders : 
                                  \E k \in DOMAIN free'[z][i] : h = <<z, i, k>>
  BY HandleOf DEF Handles
<1>10. \A h : h \in Handles <=> \E z \in Zones, i \in Orders : 
                                  \E k \in DOMAIN free[z][i] : h = <<z, i, k>>
  BY HandleOf DEF Handles
<1>11. Handles' \subseteq Handles \cup {n}
  <2> SUFFICES ASSUME NEW h \in Handles' PROVE h \in Handles \cup {n}
    OBVIOUS
  <2>1. PICK z \in Zones, i \in Orders : \E k \in DOMAIN free'[z][i] : h = <<z, i, k>>
    BY <1>9
  <2>2. PICK k \in DOMAIN free'[z][i] : h = <<z, i, k>>
    BY <2>1
  <2>3. k \in DOMAIN free[z][i] \/ (z = zl /\ i = order /\ k = Len(old) + 1)
    BY <1>5, <1>6, <1>8, <2>2
  <2> QED BY <1>7, <1>10, <2>2, <2>3
<1>12. Handles \subseteq Handles'
  <2> SUFFICES ASSUME NEW h \in Handles PROVE h \in Handles'
    OBVIOUS
  <2>1. PICK z \in Zones, i \in Orders : \E k \in DOMAIN free[z][i] : h = <<z, i, k>>
    BY <1>10
  <2>2. PICK k \in DOMAIN free[z][i] : h = <<z, i, k>>
    BY <2>1
  <2>3. k \in DOMAIN free'[z][i]
    BY <1>5, <1>6, <1>8, <2>2
  <2> QED BY <1>9, <2>2, <2>3
<1>13. n \in Handles'
  <2>1. Len(old) + 1 \in DOMAIN free'[zl][order]
    BY <1>1, <1>5, <1>6
  <2> QED BY <1>1, <1>7, <1>9, <2>1
<1>14. n \notin Handles
  <2> SUFFICES ASSUME n \in Handles PROVE FALSE
    OBVIOUS
  <2>1. PICK z \in Zones, i \in Orders : \E k \in DOMAIN free[z][i] : n = <<z, i, k>>
    BY <1>10
  <2>2. PICK k \in DOMAIN free[z][i] : n = <<z, i, k>>
    BY <2>1
  <2>3. z = zl /\ i = order /\ k = Len(old) + 1
    BY <1>7, <2>2
  <2> QED BY <1>6, <1>8, <2>2, <2>3
<1>15. \A h \in Handles : First(h)' = First(h)
  <2> SUFFICES ASSUME NEW h \in Handles PROVE First(h)' = First(h)
    OBVIOUS
  <2>1. /\ h[1] \in Zones /\ h[2] \in Orders /\ h[3] \in DOMAIN free[h[1]][h[2]]
    BY <1>2, HandleType
  <2>2. free'[h[1]][h[2]][h[3]] = free[h[1]][h[2]][h[3]]
    <3>1. CASE h[1] = zl /\ h[2] = order
      <4>1. h[3] \in DOMAIN old
        BY <1>8, <2>1, <3>1
      <4>2. free'[h[1]][h[2]] = Append(old, last) /\ free[h[1]][h[2]] = old
        BY <1>5, <1>8, <2>1, <3>1
      <4> QED BY <1>6, <4>1, <4>2
    <3>2. CASE ~(h[1] = zl /\ h[2] = order)
      BY <1>5, <2>1, <3>2
    <3> QED BY <3>1, <3>2
  <2> QED BY <2>2 DEF First
<1>16. First(n)' = last
  <2>1. n[1] = zl /\ n[2] = order /\ n[3] = Len(old) + 1
    BY <1>7
  <2> QED BY <1>1, <1>5, <1>6, <2>1 DEF First
<1>17. n[2] = order
  BY <1>7
<1>18. \A h \in Handles : Extent(h)' = Extent(h)
  BY <1>15 DEF Extent
<1>19. Extent(n)' = last .. last + Blk[order] - 1
  BY <1>16, <1>17 DEF Extent
<1>20. \A f : Used(f)' = Used(f) /\ ZoneOf(f)' = ZoneOf(f)
  BY <1>4 DEF Used, ZoneOf
<1> QED BY <1>11, <1>12, <1>13, <1>14, <1>15, <1>16, <1>18, <1>19, <1>20

-----------------------------------------------------------------------------
\* The loop invariant holds where build_buddy() starts, whatever the flags:
\* nothing is listed yet.
LEMMA StartsAnywhere ==
  flags \in [Frames -> SUBSET Marks] /\ Start => LoopInvariant
<1> SUFFICES ASSUME flags \in [Frames -> SUBSET Marks], Start PROVE LoopInvariant
  OBVIOUS
<1>1. free = EmptyLists /\ current = 0 /\ last = 0 /\ size = 0 /\ order = 0 /\ pc = "scan"
  BY DEF Start
<1>2. free \in [Zones -> [Orders -> Seq(Frames)]]
  BY <1>1 DEF EmptyLists
<1>3. TypeOK
  BY <1>1, <1>2, BuddyAssumption DEF TypeOK
<1>4. Handles = {}
  <2>1. \A z \in Zones, i \in Orders : DOMAIN free[z][i] = {}
    BY <1>1 DEF EmptyLists
  <2> QED BY <2>1, HandleOf DEF Handles
<1> QED BY <1>1, <1>3, <1>4, BuddyAssumption
      DEF LoopInvariant, ScanRun, CarveRun, CarveOrder, BlocksBehind,
          BlocksUsable, BlocksDisjoint, CoveredBehind, ReturnedAtEnd

\* The same of a step that enters build_buddy(), for the proofs about mm_init().
LEMMA EntersInvariant ==
  (flags \in [Frames -> SUBSET Marks])' /\ Start' => LoopInvariant'
BY StartsAnywhere, PTL

\* The flags mm_init() leaves are such flags.
LEMMA StartsInInvariant == Init => LoopInvariant
<1> SUFFICES ASSUME Init PROVE LoopInvariant
  OBVIOUS
<1>1. PICK resv \in SUBSET Frames : flags = BootFlags(resv)
  BY DEF Init
<1> QED BY <1>1, StartsAnywhere DEF Init, BootFlags, Marks

\* The run up to current_frame grows by a frame with the same flags.
LEMMA ExtendRunKeeps == LoopInvariant /\ ExtendRun => LoopInvariant'
<1> SUFFICES ASSUME LoopInvariant, ExtendRun PROVE LoopInvariant'
  OBVIOUS
<1> USE DEF ExtendRun
<1>1. UNCHANGED <<flags, free>>
  OBVIOUS
<1>2. TypeOK'
  BY BuddyAssumption DEF LoopInvariant, TypeOK, SameRun
<1>3. ScanRun'
  BY BuddyAssumption DEF LoopInvariant, TypeOK, ScanRun, SameRun
<1>4. CarveRun' /\ CarveOrder' /\ ReturnedAtEnd'
  BY DEF CarveRun, CarveOrder, ReturnedAtEnd
<1>5. BlocksBehind' /\ BlocksUsable' /\ BlocksDisjoint' /\ CoveredBehind'
  BY <1>1, ListsSame DEF LoopInvariant, BlocksBehind, BlocksUsable, BlocksDisjoint,
                         CoveredBehind
<1> QED BY <1>2, <1>3, <1>4, <1>5 DEF LoopInvariant

\* A run in use is left behind: it holds no frame that had to be listed.
LEMMA SkipUsedKeeps == LoopInvariant /\ SkipUsed => LoopInvariant'
<1> SUFFICES ASSUME LoopInvariant, SkipUsed PROVE LoopInvariant'
  OBVIOUS
<1> USE DEF SkipUsed
<1>1. UNCHANGED <<flags, free>>
  OBVIOUS
<1>2. last \in Nat /\ current \in Nat /\ NFrames \in Nat /\ last <= current
      /\ current <= NFrames
  BY BuddyAssumption DEF LoopInvariant, TypeOK, ScanRun
<1>3. TypeOK'
  BY <1>2 DEF LoopInvariant, TypeOK
<1>4. ScanRun'
  <2>1. \A f \in last' .. current' - 1 : f = last'
    BY <1>2
  <2> QED BY <1>2, <2>1 DEF ScanRun
<1>5. CarveRun' /\ CarveOrder' /\ ReturnedAtEnd'
  BY DEF CarveRun, CarveOrder, ReturnedAtEnd
<1>6. BlocksBehind'
  BY <1>1, <1>2, ListsSame DEF LoopInvariant, BlocksBehind
<1>7. BlocksUsable' /\ BlocksDisjoint'
  BY <1>1, ListsSame DEF LoopInvariant, BlocksUsable, BlocksDisjoint
<1>8. \A f \in last .. current - 1 : Used(f)
  BY <1>2 DEF LoopInvariant, ScanRun, Used
<1>9. CoveredBehind'
  <2>1. \A f \in 0 .. last' - 1 : f \in 0 .. last - 1 \/ f \in last .. current - 1
    BY <1>2
  <2> QED BY <1>1, <1>8, <2>1, ListsSame DEF LoopInvariant, CoveredBehind
<1> QED BY <1>3, <1>4, <1>5, <1>6, <1>7, <1>9 DEF LoopInvariant

\* Carving starts with the whole run, at order 0.
LEMMA StartCarveKeeps == LoopInvariant /\ StartCarve => LoopInvariant'
<1> SUFFICES ASSUME LoopInvariant, StartCarve PROVE LoopInvariant'
  OBVIOUS
<1> USE DEF StartCarve
<1>1. UNCHANGED <<flags, free>>
  OBVIOUS
<1>2. last \in Nat /\ current \in Nat /\ NFrames \in Nat /\ last <= current
      /\ current <= NFrames
  BY BuddyAssumption DEF LoopInvariant, TypeOK, ScanRun
<1>3. TypeOK'
  BY <1>2, BuddyAssumption DEF LoopInvariant, TypeOK
<1>4. CarveRun'
  BY <1>2 DEF LoopInvariant, ScanRun, CarveRun, Used
<1>5. CarveOrder'
  BY <1>2, BuddyAssumption DEF CarveOrder
<1>6. ScanRun' /\ ReturnedAtEnd'
  BY DEF ScanRun, ReturnedAtEnd
<1>7. BlocksBehind' /\ BlocksUsable' /\ BlocksDisjoint' /\ CoveredBehind'
  BY <1>1, ListsSame DEF LoopInvariant, BlocksBehind, BlocksUsable, BlocksDisjoint,
                         CoveredBehind
<1> QED BY <1>3, <1>4, <1>5, <1>6, <1>7 DEF LoopInvariant

\* An order whose bit is clear is passed over: what is left stays a multiple.
LEMMA SkipOrderKeeps == LoopInvariant /\ SkipOrder => LoopInvariant'
<1> SUFFICES ASSUME LoopInvariant, SkipOrder PROVE LoopInvariant'
  OBVIOUS
<1> USE DEF SkipOrder
<1>1. UNCHANGED <<flags, free>>
  OBVIOUS
<1>2. TypeOK'
  BY BuddyAssumption DEF LoopInvariant, TypeOK, InForLoop
<1>3. CarveRun'
  BY DEF LoopInvariant, CarveRun, Used
<1>4. CarveOrder'
  <2>1. order \in 0 .. MAX_ORDER - 2 /\ size \in Nat
    BY BuddyAssumption DEF LoopInvariant, TypeOK, OrderAbsent
  <2>2. Blk[order] \in Nat \ {0} /\ Blk[order + 1] = 2 * Blk[order]
    BY <2>1, BuddyAssumption
  <2>3. size % Blk[order] = 0
    BY DEF LoopInvariant, CarveOrder, InForLoop
  <2>4. size % (2 * Blk[order]) = 0
    BY <2>1, <2>2, <2>3, MultipleOfBlock DEF OrderAbsent
  <2> QED BY <2>2, <2>4 DEF CarveOrder
<1>5. ScanRun' /\ ReturnedAtEnd'
  BY DEF ScanRun, ReturnedAtEnd
<1>6. BlocksBehind' /\ BlocksUsable' /\ BlocksDisjoint' /\ CoveredBehind'
  BY <1>1, ListsSame DEF LoopInvariant, BlocksBehind, BlocksUsable, BlocksDisjoint,
                         CoveredBehind
<1> QED BY <1>2, <1>3, <1>4, <1>5, <1>6 DEF LoopInvariant

\* The new block is made of unused frames of one zone, none of them behind
\* last_frame, where all the other blocks lie.
LEMMA CarveBlockKeeps == LoopInvariant /\ CarveBlock => LoopInvariant'
<1> SUFFICES ASSUME LoopInvariant, CarveBlock PROVE LoopInvariant'
  OBVIOUS
<1> DEFINE b == Blk[order]
<1>0. PICK n : n = <<ZoneOf(last), order, Len(free[ZoneOf(last)][order]) + 1>>
  OBVIOUS
<1>1. /\ order \in Orders
      /\ b \in Nat \ {0}
      /\ size >= b
      /\ last + b <= current
      /\ last \in Frames
  BY BlockFits
<1>2. /\ Handles' = Handles \cup {n}
      /\ n \notin Handles
      /\ \A h \in Handles : First(h)' = First(h) /\ Extent(h)' = Extent(h)
      /\ Extent(n)' = last .. last + b - 1
      /\ \A f : Used(f)' = Used(f) /\ ZoneOf(f)' = ZoneOf(f)
  BY <1>0, OneNewBlock
<1>3. /\ last' = last + b /\ size' = size - b /\ order' = order + 1
      /\ UNCHANGED <<flags, current, pc>> /\ pc = "carve"
  BY DEF CarveBlock
<1>4. n[1] = ZoneOf(last) /\ ZoneOf(last) \in Zones
  BY <1>0 DEF ZoneOf, Zones
<1>5. /\ current \in Nat /\ current <= NFrames /\ NFrames \in Nat
      /\ size \in Nat /\ size = current - last
      /\ \A f \in last .. current - 1 : flags[f] = flags[last] /\ ~Used(f)
  BY <1>3, BuddyAssumption DEF LoopInvariant, TypeOK, CarveRun
<1>6. free' \in [Zones -> [Orders -> Seq(Frames)]]
  <2>1. free \in [Zones -> [Orders -> Seq(Frames)]]
    BY DEF LoopInvariant, TypeOK
  <2>2. Append(free[ZoneOf(last)][order], last) \in Seq(Frames)
    BY <1>1, <1>4, <2>1
  <2> QED BY <1>1, <1>4, <2>1, <2>2 DEF CarveBlock, Insert
<1> HIDE DEF b
<1>7. last \in Nat /\ last + b <= NFrames /\ last + b \in Nat
  BY <1>1, <1>5 DEF Frames
<1>8. TypeOK'
  <2>1. order + 1 \in 0 .. MAX_ORDER
    BY <1>1, BuddyAssumption DEF Orders
  <2>2. size - b \in 0 .. NFrames
    BY <1>1, <1>5, <1>7
  <2> QED BY <1>3, <1>5, <1>6, <1>7, <2>1, <2>2 DEF LoopInvariant, TypeOK
<1>9. CarveRun'
  <2>1. \A f \in last' .. current' - 1 : f \in last .. current - 1
    BY <1>1, <1>3, <1>5, <1>7
  <2>2. last' <= current' - 1 => last' \in last .. current - 1
    BY <1>1, <1>3, <1>5, <1>7
  <2>3. size' = current' - last'
    BY <1>1, <1>3, <1>5, <1>7
  <2>4. \A f \in last' .. current' - 1 : last' <= current' - 1
    BY <1>3, <1>5, <1>7
  <2> QED BY <1>2, <1>3, <1>5, <2>1, <2>2, <2>3, <2>4 DEF CarveRun
<1>10. CarveOrder'
  <2> SUFFICES ASSUME order + 1 < MAX_ORDER PROVE (size - b) % Blk[order + 1] = 0
    BY <1>3 DEF CarveOrder
  <2>1. order \in 0 .. MAX_ORDER - 2
    BY <1>1, BuddyAssumption DEF Orders
  <2>2. Blk[order + 1] = 2 * b
    BY <2>1, BuddyAssumption DEF b
  <2>3. size % b = 0
    BY <1>3, <2>1, BuddyAssumption DEF LoopInvariant, CarveOrder, b
  <2>4. (size \div b) % 2 # 0
    BY <2>1, BuddyAssumption DEF CarveBlock, OrderAbsent, b
  <2>5. (size - b) % (2 * b) = 0
    BY <1>1, <1>5, <2>3, <2>4, MultipleOfBlock
  <2> QED BY <2>2, <2>5
<1>11. ScanRun' /\ ReturnedAtEnd'
  BY <1>3 DEF ScanRun, ReturnedAtEnd
<1>12. BlocksBehind'
  <2>1. \A h \in Handles : Extent(h) \subseteq 0 .. last - 1
    BY DEF LoopInvariant, BlocksBehind
  <2>2. 0 .. last - 1 \subseteq 0 .. last' - 1 /\ last .. last + b - 1 \subseteq 0 .. last' - 1
    BY <1>1, <1>3, <1>7
  <2> QED BY <1>2, <2>1, <2>2 DEF BlocksBehind
<1>13. BlocksUsable'
  <2>1. \A f \in last .. last + b - 1 : f \in Frames /\ f \in last .. current - 1
    BY <1>1, <1>5, <1>7 DEF Frames
  <2>2. \A f \in last .. last + b - 1 : f \in Frames /\ ~Used(f) /\ ZoneOf(f) = n[1]
    BY <1>4, <1>5, <2>1 DEF ZoneOf
  <2>3. \A h \in Handles : \A f \in Extent(h) : f \in Frames /\ ~Used(f) /\ ZoneOf(f) = h[1]
    BY DEF LoopInvariant, BlocksUsable
  <2> QED BY <1>2, <2>2, <2>3 DEF BlocksUsable
<1>14. BlocksDisjoint'
  <2>1. \A g, h \in Handles : g # h => Extent(g) \cap Extent(h) = {}
    BY DEF LoopInvariant, BlocksDisjoint
  <2>2. \A h \in Handles : Extent(h) \subseteq 0 .. last - 1
    BY DEF LoopInvariant, BlocksBehind
  <2>3. (0 .. last - 1) \cap (last .. last + b - 1) = {}
    BY <1>1, <1>7
  <2>4. \A h \in Handles : Extent(h)' \cap Extent(n)' = {}
    BY <1>2, <2>2, <2>3
  <2> QED BY <1>2, <2>1, <2>4 DEF BlocksDisjoint
<1>15. CoveredBehind'
  <2>1. \A f \in 0 .. last' - 1 : f \in 0 .. last - 1 \/ f \in last .. last + b - 1
    BY <1>1, <1>3, <1>7
  <2>2. \A f \in 0 .. last - 1 : ~Used(f) => \E h \in Handles : f \in Extent(h)
    BY DEF LoopInvariant, CoveredBehind
  <2> QED BY <1>2, <2>1, <2>2 DEF CoveredBehind
<1> QED BY <1>8, <1>9, <1>10, <1>11, <1>12, <1>13, <1>14, <1>15 DEF LoopInvariant

\* Back to the scan, with the whole of the rest of an over-long run still ahead.
LEMMA EndCarveKeeps == LoopInvariant /\ EndCarve => LoopInvariant'
<1> SUFFICES ASSUME LoopInvariant, EndCarve PROVE LoopInvariant'
  OBVIOUS
<1> USE DEF EndCarve
<1>1. UNCHANGED <<flags, free>>
  OBVIOUS
<1>2. /\ last \in Nat /\ current \in Nat /\ NFrames \in Nat /\ size \in Nat
      /\ last <= current /\ current <= NFrames /\ size = current - last
  BY BuddyAssumption DEF LoopInvariant, TypeOK, CarveRun
<1>3. TypeOK'
  BY <1>2 DEF LoopInvariant, TypeOK
<1>4. ScanRun'
  <2>1. CASE size = 0
    <3>1. current' = current + 1 /\ last' = current
      BY <1>2, <2>1
    <3>2. \A f \in last' .. current' - 1 : f = last'
      BY <1>2, <3>1
    <3>3. last' <= current' /\ (last' < NFrames => current' <= NFrames)
      BY <1>2, <3>1
    <3> QED BY <3>2, <3>3 DEF ScanRun
  <2>2. CASE size # 0
    <3>1. current' = current /\ last' = last
      BY <2>2
    <3>2. \A f \in last .. current - 1 : flags[f] = flags[last]
      BY DEF LoopInvariant, CarveRun
    <3> QED BY <1>2, <3>1, <3>2 DEF ScanRun
  <2> QED BY <2>1, <2>2
<1>5. CarveRun' /\ CarveOrder' /\ ReturnedAtEnd'
  BY DEF CarveRun, CarveOrder, ReturnedAtEnd
<1>6. BlocksBehind' /\ BlocksUsable' /\ BlocksDisjoint' /\ CoveredBehind'
  BY <1>1, ListsSame DEF LoopInvariant, BlocksBehind, BlocksUsable, BlocksDisjoint,
                         CoveredBehind
<1> QED BY <1>3, <1>4, <1>5, <1>6 DEF LoopInvariant

\* build_buddy() returns only at the end of the table.
LEMMA ReturnKeeps == LoopInvariant /\ Return => LoopInvariant'
<1> SUFFICES ASSUME LoopInvariant, Return PROVE LoopInvariant'
  OBVIOUS
<1> USE DEF Return
<1>1. UNCHANGED <<flags, free>>
  OBVIOUS
<1>2. TypeOK'
  BY DEF LoopInvariant, TypeOK
<1>3. ReturnedAtEnd'
  BY BuddyAssumption DEF LoopInvariant, TypeOK, ReturnedAtEnd
<1>4. ScanRun' /\ CarveRun' /\ CarveOrder'
  BY DEF ScanRun, CarveRun, CarveOrder
<1>5. BlocksBehind' /\ BlocksUsable' /\ BlocksDisjoint' /\ CoveredBehind'
  BY <1>1, ListsSame DEF LoopInvariant, BlocksBehind, BlocksUsable, BlocksDisjoint,
                         CoveredBehind
<1> QED BY <1>2, <1>3, <1>4, <1>5 DEF LoopInvariant

\* Stuttering keeps the invariant.
LEMMA StutterKeeps == LoopInvariant /\ UNCHANGED buddyVars => LoopInvariant'
<1> SUFFICES ASSUME LoopInvariant, UNCHANGED buddyVars PROVE LoopInvariant'
  OBVIOUS
<1> USE DEF buddyVars
<1>1. BlocksBehind' /\ BlocksUsable' /\ BlocksDisjoint' /\ CoveredBehind'
  BY ListsSame DEF LoopInvariant, BlocksBehind, BlocksUsable, BlocksDisjoint,
                   CoveredBehind
<1>2. TypeOK' /\ ScanRun' /\ CarveOrder' /\ ReturnedAtEnd'
  BY DEF LoopInvariant, TypeOK, ScanRun, CarveOrder, ReturnedAtEnd
<1>3. CarveRun'
  BY DEF LoopInvariant, CarveRun, Used
<1> QED BY <1>1, <1>2, <1>3 DEF LoopInvariant

\* Every step of build_buddy() keeps the loop invariant.
LEMMA NextKeeps == LoopInvariant /\ [Next]_buddyVars => LoopInvariant'
BY ExtendRunKeeps, SkipUsedKeeps, StartCarveKeeps, SkipOrderKeeps, CarveBlockKeeps,
   EndCarveKeeps, ReturnKeeps, StutterKeeps DEF Next, Step, Terminated

-----------------------------------------------------------------------------
\* Every variable of build_buddy() stays in range, and the loop invariant holds
\* in every reachable state, for every frame table and number of orders.
THEOREM LoopCorrect == Spec => []LoopInvariant
<1>1. Init => LoopInvariant
  BY StartsInInvariant
<1>2. LoopInvariant /\ [Next]_buddyVars => LoopInvariant'
  BY NextKeeps
<1> QED BY <1>1, <1>2, PTL DEF Spec

\* Type correctness: no frame pointer leaves the table, size never wraps.
THEOREM TypeCorrect == Spec => []TypeOK
<1>1. LoopInvariant => TypeOK
  BY DEF LoopInvariant
<1> QED BY <1>1, LoopCorrect, PTL

\* No free block ever contains a frame in use or of the other zone.
THEOREM FreeBlocksUsable == Spec => []BlocksUsable
<1>1. LoopInvariant => BlocksUsable
  BY DEF LoopInvariant
<1> QED BY <1>1, LoopCorrect, PTL

\* No frame is ever in two free blocks.
THEOREM FreeBlocksDisjoint == Spec => []BlocksDisjoint
<1>1. LoopInvariant => BlocksDisjoint
  BY DEF LoopInvariant
<1> QED BY <1>1, LoopCorrect, PTL

\* build_buddy() does not return before every usable frame is in a block.
THEOREM NoFrameLost == Spec => []NothingLost
<1>1. LoopInvariant => NothingLost
  BY BuddyAssumption DEF LoopInvariant, ReturnedAtEnd, CoveredBehind, NothingLost, Frames
<1> QED BY <1>1, LoopCorrect, PTL

-----------------------------------------------------------------------------
\* A step that leaves lists, flags and the return point alone is no step of the
\* pool.
LEMMA PoolStutter ==
  ASSUME UNCHANGED <<flags, free>>, (pc = "done") = (pc' = "done")
  PROVE  UNCHANGED Pool!fpVars
<1>1. Handles' = Handles /\ \A h : First(h)' = First(h)
  BY ListsSame
<1>2. Blocks' = Blocks
  BY <1>1 DEF Blocks
<1> QED BY <1>2 DEF Pool!fpVars

\* Listing a block gives the pool one block it may hold.
LEMMA CarveGives == LoopInvariant /\ LoopInvariant' /\ CarveBlock => Pool!Next
<1> SUFFICES ASSUME LoopInvariant, LoopInvariant', CarveBlock PROVE Pool!Next
  OBVIOUS
<1>1. PICK n : n = <<ZoneOf(last), order, Len(free[ZoneOf(last)][order]) + 1>>
  OBVIOUS
<1>2. PICK g : g = [zone |-> ZoneOf(last), order |-> order, first |-> last]
  OBVIOUS
<1>3. n[1] = ZoneOf(last) /\ n[2] = order
  BY <1>1
<1>4. /\ order \in Orders /\ last \in Frames /\ ZoneOf(last) \in Zones
      /\ pc = "carve" /\ pc' = "carve" /\ flags' = flags
  BY BlockFits DEF ZoneOf, Zones, CarveBlock
<1>5. /\ Handles' = Handles \cup {n}
      /\ n \notin Handles
      /\ \A h \in Handles : First(h)' = First(h) /\ Extent(h)' = Extent(h)
      /\ First(n)' = last
      /\ Extent(n)' = last .. last + Blk[order] - 1
      /\ \A f : Used(f)' = Used(f) /\ ZoneOf(f)' = ZoneOf(f)
  BY <1>1, OneNewBlock
<1>6. Pool!Extent(g) = Extent(n)'
  BY <1>2, <1>5 DEF Pool!Extent
<1>7. \A f \in Extent(n)' : f \in Frames /\ ~Used(f) /\ ZoneOf(f) = g.zone
  BY <1>2, <1>3, <1>5 DEF LoopInvariant, BlocksUsable
<1>8. \A c \in Blocks : Pool!Extent(g) \cap Pool!Extent(c) = {}
  <2> SUFFICES ASSUME NEW c \in Blocks PROVE Extent(n)' \cap Pool!Extent(c) = {}
    BY <1>6
  <2>1. PICK h \in Handles : c = [zone |-> h[1], order |-> h[2], first |-> First(h)]
    BY DEF Blocks
  <2>2. Pool!Extent(c) = Extent(h)
    BY <2>1 DEF Pool!Extent, Extent
  <2>3. h \in Handles' /\ n \in Handles' /\ h # n /\ Extent(h)' = Extent(h)
    BY <1>5
  <2>4. Extent(n)' \cap Extent(h)' = {}
    BY <2>3 DEF LoopInvariant, BlocksDisjoint
  <2> QED BY <2>2, <2>3, <2>4
<1>9. Blocks' = Blocks \cup {g}
  <2>1. g = [zone |-> n[1], order |-> n[2], first |-> First(n)']
    BY <1>2, <1>3, <1>5
  <2>2. Blocks' = {[zone |-> h[1], order |-> h[2], first |-> First(h)'] : h \in Handles'}
    BY DEF Blocks
  <2>3. {[zone |-> h[1], order |-> h[2], first |-> First(h)'] : h \in Handles}
        = {[zone |-> h[1], order |-> h[2], first |-> First(h)] : h \in Handles}
    BY <1>5
  <2> QED BY <1>5, <2>1, <2>2, <2>3 DEF Blocks
<1>10. Pool!Give(g)
  <2>1. Pool!Extent(g) \subseteq Pool!Frames
    BY <1>6, <1>7 DEF Pool!Frames, Frames
  <2>2. \A f \in Pool!Extent(g) : ~Pool!UsedFrame(f) /\ Pool!ZoneOf(f) = g.zone
    BY <1>6, <1>7 DEF Pool!UsedFrame, Pool!ZoneOf, Used, ZoneOf, UsedMarks
  <2>3. pc # "done" /\ pc' # "done"
    BY <1>4
  <2> QED BY <1>4, <1>8, <1>9, <2>1, <2>2, <2>3 DEF Pool!Give
<1> QED BY <1>2, <1>4, <1>10
      DEF Pool!Next, Pool!Zones, Pool!Orders, Pool!Frames, Zones, Orders, Frames

\* Returning hands over a complete pool.
LEMMA ReturnHandsOver == LoopInvariant /\ Return => Pool!Next
<1> SUFFICES ASSUME LoopInvariant, Return PROVE Pool!Next
  OBVIOUS
<1> USE DEF Return
<1>1. last = NFrames
  BY BuddyAssumption DEF LoopInvariant, TypeOK
<1>2. \A f \in Frames : ~Used(f) => \E h \in Handles : f \in Extent(h)
  BY <1>1 DEF LoopInvariant, CoveredBehind, Frames
<1>3. \A f \in Pool!Frames : ~Pool!UsedFrame(f) => \E b \in Blocks : f \in Pool!Extent(b)
  <2> SUFFICES ASSUME NEW f \in Frames, ~Used(f)
               PROVE  \E b \in Blocks : f \in Pool!Extent(b)
    BY DEF Pool!Frames, Frames, Pool!UsedFrame, Used, UsedMarks
  <2>1. PICK h \in Handles : f \in Extent(h)
    BY <1>2
  <2>2. PICK b : b = [zone |-> h[1], order |-> h[2], first |-> First(h)]
    OBVIOUS
  <2>3. b \in Blocks /\ f \in Pool!Extent(b)
    BY <2>1, <2>2 DEF Blocks, Extent, Pool!Extent
  <2> QED BY <2>3
<1>4. Handles' = Handles /\ \A h : First(h)' = First(h)
  BY ListsSame
<1>5. Blocks' = Blocks
  BY <1>4 DEF Blocks
<1> QED BY <1>3, <1>5 DEF Pool!Next, Pool!HandOver

\* build_buddy() implements the pool it promises: every step of the scan is a
\* step of FramePool or invisible there.
THEOREM ImplementsPool == Spec => PoolSpec
<1>1. Init => Pool!Init
  <2> SUFFICES ASSUME Init PROVE Pool!Init
    OBVIOUS
  <2>1. flags \in [Frames -> SUBSET Marks]
    BY StartsInInvariant DEF LoopInvariant, TypeOK
  <2>2. \A z \in Zones, i \in Orders : DOMAIN free[z][i] = {}
    BY DEF Init, Start, EmptyLists
  <2>3. Handles = {}
    BY <2>2, HandleOf DEF Handles
  <2>4. Blocks = {} /\ pc # "done"
    BY <2>3 DEF Blocks, Init, Start
  <2> QED BY <2>1, <2>4 DEF Pool!Init, Pool!Frames, Frames, Marks
<1>2. LoopInvariant /\ LoopInvariant' /\ [Next]_buddyVars => [Pool!Next]_(Pool!fpVars)
  <2> SUFFICES ASSUME LoopInvariant, LoopInvariant', [Next]_buddyVars
               PROVE  Pool!Next \/ UNCHANGED Pool!fpVars
    OBVIOUS
  <2>1. CASE ExtendRun \/ SkipUsed \/ StartCarve \/ SkipOrder \/ EndCarve
    BY <2>1, PoolStutter DEF ExtendRun, SkipUsed, StartCarve, SkipOrder, EndCarve
  <2>2. CASE CarveBlock
    BY <2>2, CarveGives
  <2>3. CASE Return
    BY <2>3, ReturnHandsOver
  <2>4. CASE Terminated \/ UNCHANGED buddyVars
    BY <2>4, PoolStutter DEF Terminated, buddyVars
  <2> QED BY <2>1, <2>2, <2>3, <2>4 DEF Next, Step
<1> QED BY <1>1, <1>2, LoopCorrect, PTL DEF Spec, PoolSpec, Pool!Spec
=============================================================================
