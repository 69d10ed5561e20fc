---------------------------- MODULE GdbPacketProofs ----------------------------
(***************************************************************************)
(* Proofs about GdbPacket, for every size of the buffers and every packet: *)
(* no buffer is overrun; whatever an earlier packet left behind it, a      *)
(* packet changes only what its own characters name; and one that is well  *)
(* formed gets the reply it asks for.                                      *)
(***************************************************************************)
EXTENDS GdbPacket, TLAPS, SequenceTheorems, WellFoundedInduction

-----------------------------------------------------------------------------
(* Induction over a set of numbers, and definitions by recursion.          *)

LEMMA LeastNat ==
  ASSUME NEW T, T \subseteq Nat, T # {}
  PROVE  \E n \in T : \A m \in T : n <= m
<1> DEFINE R == OpToRel(<, Nat)
<1>1. IsWellFoundedOn(R, Nat)
  BY NatLessThanWellFounded
<1>2. PICK n \in T : \A m \in T : ~(<<m, n>> \in R)
  <2> HIDE DEF R
  <2> QED
    BY <1>1, WFMin
<1>3. ASSUME NEW m \in T PROVE n <= m
  <2>1. m \in Nat /\ n \in Nat
    OBVIOUS
  <2>2. ~(m < n)
    BY <1>2, <2>1 DEF OpToRel
  <2> QED
    BY <2>1, <2>2
<1> QED
  BY <1>3

\* A set that holds 0, and each successor of what it holds, holds all.
LEMMA AllNat ==
  ASSUME NEW T, 0 \in T, \A n \in Nat : n \in T => n + 1 \in T
  PROVE  Nat \subseteq T
<1> SUFFICES ASSUME Nat \ T # {} PROVE FALSE
  OBVIOUS
<1>1. PICK n \in Nat \ T : \A m \in Nat \ T : n <= m
  BY LeastNat
<1>2. n - 1 \in Nat /\ n - 1 \notin Nat \ T
  BY <1>1
<1>3. n - 1 + 1 = n
  BY <1>2
<1> QED
  BY <1>1, <1>2, <1>3

\* A function on 0..n may be defined by its value at 0 and by each from the one
\* before it.
HasRecursion(S, n, a, next) ==
  \E f \in [0..n -> S] : f = [k \in 0..n |-> IF k = 0 THEN a ELSE next[f[k - 1], k]]

LEMMA Recursion ==
  ASSUME NEW S, NEW n \in Nat, NEW a \in S, NEW next \in [S \X Nat -> S]
  PROVE  HasRecursion(S, n, a, next)
<1> DEFINE T == {m \in Nat : HasRecursion(S, m, a, next)}
<1>1. 0 \in T
  <2> DEFINE f == [k \in 0..0 |-> a]
  <2>1. f \in [0..0 -> S] /\ f = [k \in 0..0 |-> IF k = 0 THEN a ELSE next[f[k - 1], k]]
    OBVIOUS
  <2> QED
    BY <2>1 DEF HasRecursion
<1>2. ASSUME NEW m \in Nat, m \in T PROVE m + 1 \in T
  <2>1. PICK f \in [0..m -> S] : f = [k \in 0..m |-> IF k = 0 THEN a ELSE next[f[k - 1], k]]
    BY <1>2 DEF HasRecursion
  <2> DEFINE e == next[f[m], m + 1]
             g == [k \in 0..(m + 1) |-> IF k = m + 1 THEN e ELSE f[k]]
  <2>2. e \in S
    <3>1. m \in 0..m /\ m + 1 \in Nat
      OBVIOUS
    <3>2. f[m] \in S
      BY <3>1
    <3>3. \A x \in S : \A k \in Nat : next[<<x, k>>] \in S
      OBVIOUS
    <3> QED
      BY <3>1, <3>2, <3>3
  <2> HIDE DEF e
  <2>3. \A k \in 0..(m + 1) : k # m + 1 => k \in 0..m
    OBVIOUS
  <2>4. g \in [0..(m + 1) -> S]
    BY <2>2, <2>3
  <2>5. ASSUME NEW k \in 0..(m + 1)
        PROVE  g[k] = IF k = 0 THEN a ELSE next[g[k - 1], k]
    <3>1. CASE k = m + 1
      <4>1. k # 0 /\ k - 1 = m /\ m \in 0..(m + 1) /\ m # m + 1
        BY <3>1
      <4> QED
        BY <3>1, <4>1 DEF e
    <3>2. CASE k # m + 1
      <4>1. k \in 0..m
        BY <3>2
      <4>2. k # 0 => k - 1 \in 0..(m + 1) /\ k - 1 # m + 1
        BY <4>1
      <4> QED
        BY <2>1, <3>2, <4>1, <4>2
    <3> QED
      BY <3>1, <3>2
  <2>6. g = [k \in 0..(m + 1) |-> IF k = 0 THEN a ELSE next[g[k - 1], k]]
    BY <2>5
  <2> HIDE DEF g
  <2>7. HasRecursion(S, m + 1, a, next)
    BY <2>4, <2>6 DEF HasRecursion
  <2> QED
    BY <2>7
<1> HIDE DEF T
<1>3. n \in T
  BY <1>1, <1>2, AllNat
<1> QED
  BY <1>3 DEF T

-----------------------------------------------------------------------------
(* The helpers of the parser stay within the buffer and within a byte.     *)

LEMMA SizesAre ==
  /\ BufSize \in Nat /\ DataMax \in Nat /\ RegNum \in Nat /\ Modulus \in Nat
  /\ BufSize >= 4 /\ RegNum > 0 /\ 2 * DataMax <= BufSize /\ 2 * RegNum <= BufSize
  /\ 2 * BufSize < Modulus
  BY GdbPacketAssumption DEF GdbPacketAssumption

LEMMA AtIsByte ==
  ASSUME TypeOK, NEW i
  PROVE  At(i) \in Bytes
BY DEF At, TypeOK, Bytes

LEMMA ValueOfDigit ==
  ASSUME NEW c
  PROVE  /\ gdb_get_val(c) \in -1..15
         /\ IsDigit(c) <=> c \in (48..57) \cup (97..102) \cup (65..70)
         /\ IsDigit(c) => gdb_get_val(c) \in 0..15
<1>1. CASE c \in 48..57
  BY <1>1 DEF gdb_get_val, IsDigit, None
<1>2. CASE c \in 97..102
  BY <1>2 DEF gdb_get_val, IsDigit, None
<1>3. CASE c \in 65..70
  BY <1>3 DEF gdb_get_val, IsDigit, None
<1>4. CASE c \notin (48..57) \cup (97..102) \cup (65..70)
  BY <1>4 DEF gdb_get_val, IsDigit, None
<1> QED
  BY <1>1, <1>2, <1>3, <1>4

\* The two digits of a byte; what a packet must hold for them to come out again.
LEMMA HexIs ==
  ASSUME NEW s \in Seq(Bytes)
  PROVE  /\ Hex(s) \in Seq(Bytes) /\ Len(Hex(s)) = 2 * Len(s)
         /\ \A i \in 1..(2 * Len(s)) : Hex(s)[i] \in Bytes
<1> DEFINE n == Len(s)
           b(i) == s[(i + 1) \div 2]
           digit(i) == gdb_get_digit(IF i % 2 = 1 THEN b(i) \div 16 ELSE b(i) % 16)
<1>1. n \in Nat /\ \A k \in 1..n : s[k] \in Bytes
  OBVIOUS
<1>2. Hex(s) = [i \in 1..(2 * n) |-> digit(i)]
  BY DEF Hex
<1> HIDE DEF n
<1>3. ASSUME NEW i \in 1..(2 * n) PROVE digit(i) \in Bytes
  <2>1. (i + 1) \div 2 \in 1..n
    BY <1>1
  <2>2. b(i) \in Bytes
    BY <1>1, <2>1
  <2> HIDE DEF b
  <2>3. b(i) \div 16 \in 0..15 /\ b(i) % 16 \in 0..15
    <3>1. \A c \in Bytes : c \div 16 \in 0..15 /\ c % 16 \in 0..15
      BY DEF Bytes
    <3> QED
      BY <2>2, <3>1
  <2>4. \A v \in 0..15 : gdb_get_digit(v) \in Bytes
    BY DEF gdb_get_digit, Bytes
  <2> QED
    BY <2>3, <2>4
<1> HIDE DEF digit
<1>4. 2 * n \in Nat
  BY <1>1
<1>5. Hex(s) \in [1..(2 * n) -> Bytes]
  BY <1>2, <1>3
<1>6. Hex(s) \in Seq(Bytes) /\ Len(Hex(s)) = 2 * n
  BY <1>4, <1>5
<1> QED
  BY <1>5, <1>6 DEF n

LEMMA FlipIs == \A c \in Bytes : flip(c) \in Bytes
BY DEF flip, Bytes

\* The digits at p end where there is none.
LEMMA DigitsEndIs ==
  ASSUME NEW p \in Nat \ {0}, NEW stop \in Int, NEW e, e = DigitsEnd(p, stop)
  PROVE  /\ e \in p..(p + BufSize)
         /\ ~(e < stop /\ IsDigit(At(e)))
         /\ \A i \in p..(e - 1) : i < stop /\ IsDigit(At(i))
<1> DEFINE digit(i) == i < stop /\ IsDigit(At(i))
           T == {i \in Nat : p <= i /\ ~digit(i)}
           last == p + BufSize
           end(i) == ~digit(i) /\ \A j \in p..(i - 1) : digit(j)
<1>1. last \in T
  <2>1. last \in Nat /\ p <= last /\ last \notin 1..BufSize
    BY SizesAre
  <2>2. At(last) = 0
    BY <2>1 DEF At
  <2>3. ~IsDigit(At(last))
    BY <2>2, ValueOfDigit
  <2> QED
    BY <2>1, <2>3
<1>2. PICK n \in T : \A m \in T : n <= m
  <2>1. T \subseteq Nat /\ T # {}
    BY <1>1
  <2> HIDE DEF T
  <2> QED
    BY <2>1, LeastNat
<1>3. n \in Nat /\ p <= n /\ ~digit(n)
  BY <1>2
<1>4. n <= last
  BY <1>1, <1>2
<1>5. n \in p..last
  BY <1>3, <1>4, SizesAre
<1>6. ASSUME NEW j \in p..(n - 1) PROVE digit(j)
  <2>1. j \in Nat /\ p <= j /\ j < n
    BY <1>3
  <2>2. j \notin T
    BY <1>2, <2>1
  <2> QED
    BY <2>1, <2>2
<1>7. end(n)
  BY <1>3, <1>6
<1>8. e = CHOOSE i \in p..last : end(i)
  BY DEF DigitsEnd
<1> HIDE DEF digit, end, last
<1>9. e \in p..last /\ end(e)
  BY <1>5, <1>7, <1>8
<1> QED
  BY <1>9 DEF end, digit, last

\* The value of n digits at p, one digit after the other.
HasValue(p, n) ==
  \E value \in [0..n -> 0..(Modulus - 1)] :
    /\ DigitsValue(p, n) = value[n]
    /\ \A k \in 0..n : value[k] = IF k = 0 THEN 0 ELSE
                           (value[k - 1] * 16 + gdb_get_val(At(p + k - 1))) % Modulus

LEMMA DigitsValueIs ==
  ASSUME TypeOK, NEW p \in Int, NEW n \in Nat
  PROVE  HasValue(p, n)
<1> DEFINE Words == 0..(Modulus - 1)
           more(v, k) == (v * 16 + gdb_get_val(At(p + k - 1))) % Modulus
           next == [x \in Words \X Nat |-> more(x[1], x[2])]
           steps(f) == [k \in 0..n |-> IF k = 0 THEN 0 ELSE more(f[k - 1], k)]
           value == CHOOSE f : f = steps(f)
<1>1. 0 \in Words /\ \A w \in Int : w % Modulus \in Words
  BY SizesAre
<1>2. \A v \in Words : \A k \in Nat : more(v, k) \in Words
  <2> SUFFICES ASSUME NEW v \in Words, NEW k \in Nat PROVE more(v, k) \in Words
    OBVIOUS
  <2> DEFINE d == gdb_get_val(At(p + k - 1))
  <2>1. d \in Int /\ v \in Int
    BY ValueOfDigit, SizesAre
  <2> HIDE DEF d
  <2>2. v * 16 + d \in Int
    BY <2>1
  <2> HIDE DEF Words
  <2>3. (v * 16 + d) % Modulus \in Words
    BY <1>1, <2>2
  <2> QED
    BY <2>3 DEF d
<1> HIDE DEF more, Words
<1>3. next \in [Words \X Nat -> Words]
  BY <1>2
<1>4. PICK f \in [0..n -> Words] : f = [k \in 0..n |-> IF k = 0 THEN 0 ELSE next[f[k - 1], k]]
  <2>1. HasRecursion(Words, n, 0, next)
    <3> HIDE DEF next
    <3> QED
      BY <1>1, <1>3, Recursion
  <2> HIDE DEF next
  <2> QED
    BY <2>1 DEF HasRecursion
<1>5. f = steps(f)
  <2>1. ASSUME NEW k \in 0..n, k # 0 PROVE next[f[k - 1], k] = more(f[k - 1], k)
    <3>1. k - 1 \in 0..n /\ k \in Nat
      BY <2>1
    <3>2. f[k - 1] \in Words
      BY <3>1
    <3> QED
      BY <3>1, <3>2
  <2> HIDE DEF next
  <2> QED
    BY <1>4, <2>1
<1>6. value = steps(value)
  <2> HIDE DEF steps
  <2> QED
    BY <1>5
<1>7. DigitsValue(p, n) = value[n]
  BY DEF DigitsValue, more
<1> HIDE DEF value
<1>8. value = [k \in 0..n |-> IF k = 0 THEN 0 ELSE more(value[k - 1], k)]
  BY <1>6
<1>9. \A k \in 0..n : value[k] = IF k = 0 THEN 0 ELSE more(value[k - 1], k)
  BY <1>8
<1>10. \A k \in 0..n : value[k] \in Words
  <2> DEFINE T == {k \in Nat : k <= n => value[k] \in Words}
  <2>1. 0 \in T
    BY <1>1, <1>9
  <2>2. ASSUME NEW k \in Nat, k \in T PROVE k + 1 \in T
    <3> SUFFICES ASSUME k + 1 <= n PROVE value[k + 1] \in Words
      OBVIOUS
    <3>1. k + 1 \in 0..n /\ k + 1 # 0 /\ k + 1 - 1 = k /\ k <= n /\ k + 1 \in Nat
      OBVIOUS
    <3>2. value[k + 1] = more(value[k], k + 1)
      BY <1>9, <3>1
    <3>3. value[k] \in Words
      BY <2>2, <3>1
    <3> QED
      BY <1>2, <3>1, <3>2, <3>3
  <2> HIDE DEF T
  <2>3. Nat \subseteq T
    BY <2>1, <2>2, AllNat
  <2> QED
    BY <2>3 DEF T
<1>11. value \in [0..n -> Words]
  BY <1>8, <1>10
<1> QED
  BY <1>7, <1>9, <1>11 DEF more, Words, HasValue

\* A number is a word, and behind it there is something left of the buffer.
LEMMA NumberIs ==
  ASSUME TypeOK, NEW ptr \in Nat, NEW n, n = Integer(ptr)
  PROVE  n.next \in Nat /\ n.value \in 0..(Modulus - 1)
<1>1. CASE ptr = 0
  BY <1>1, SizesAre DEF Integer
<1>2. CASE ptr # 0
  <2> DEFINE len   == Remaining(ptr)
             first == AfterPrefix(ptr, len)
             next  == DigitsEnd(first, ptr + len)
             value == DigitsValue(first, next - first)
             word  == (IF At(ptr) = Minus THEN -value ELSE value) % Modulus
  <2>1. n = IF len < 1 \/ next = first THEN [next |-> 0, value |-> 0]
            ELSE [next |-> next, value |-> word]
    BY <1>2 DEF Integer, gdb_strtol
  <2>2. len \in Int
    <3>1. pkt_len \in Int
      BY SizesAre DEF TypeOK
    <3> QED
      BY <3>1, SizesAre DEF Remaining
  <2> HIDE DEF len
  <2>3. first \in Nat \ {0}
    BY <1>2 DEF AfterPrefix, AfterSign
  <2> HIDE DEF first
  <2>4. next \in first..(first + BufSize)
    BY <2>2, <2>3, DigitsEndIs
  <2> HIDE DEF next
  <2>5. next \in Nat /\ next - first \in Nat
    BY <2>3, <2>4, SizesAre
  <2>6. value \in 0..(Modulus - 1)
    <3> DEFINE count == next - first
    <3>1. count \in Nat /\ first \in Int
      BY <2>3, <2>5
    <3> HIDE DEF count
    <3>2. HasValue(first, count)
      BY <3>1, DigitsValueIs
    <3>3. PICK f \in [0..count -> 0..(Modulus - 1)] : DigitsValue(first, count) = f[count]
      BY <3>2 DEF HasValue
    <3> QED
      BY <3>1, <3>3 DEF count
  <2> HIDE DEF value
  <2>7. word \in 0..(Modulus - 1)
    BY <2>6, SizesAre
  <2> HIDE DEF word
  <2>8. 0 \in 0..(Modulus - 1)
    BY SizesAre
  <2> QED
    BY <2>1, <2>5, <2>7, <2>8
<1> QED
  BY <1>1, <1>2

LEMMA SeparatorIs ==
  ASSUME NEW n, n.next \in Nat, NEW c
  PROVE  /\ Separator(n, c) \in Nat
         /\ Separator(n, c) # 0 => n.next # 0 /\ At(n.next) = c /\ Separator(n, c) = n.next + 1
BY DEF Separator

\* Hex data: whole bytes up to the first that holds junk.
IsDecoded(ptr, n, d) ==
  /\ d \in Seq(Bytes) /\ Len(d) <= n
  /\ \A k \in 1..Len(d) : /\ IsDigit(At(ptr + 2*k - 2)) /\ IsDigit(At(ptr + 2*k - 1))
                          /\ d[k] = gdb_get_val(At(ptr + 2*k - 2)) * 16
                                     + gdb_get_val(At(ptr + 2*k - 1))
  /\ Len(d) < n => LET k == Len(d) + 1
                   IN  ~(IsDigit(At(ptr + 2*k - 2)) /\ IsDigit(At(ptr + 2*k - 1)))

LEMMA DecodedHexIs ==
  ASSUME NEW ptr \in Nat, NEW n \in Nat, NEW d, d = DecodedHex(ptr, n)
  PROVE  IsDecoded(ptr, n, d)
<1> DEFINE hi(k) == At(ptr + 2*k - 2)
           lo(k) == At(ptr + 2*k - 1)
           good(k) == IsDigit(hi(k)) /\ IsDigit(lo(k))
           upto(c) == (\A k \in 1..c : good(k)) /\ (c = n \/ ~good(c + 1))
           count == CHOOSE c \in 0..n : upto(c)
           T == {c \in Nat : c = n \/ ~good(c + 1)}
           byte(k) == gdb_get_val(hi(k)) * 16 + gdb_get_val(lo(k))
<1>1. n \in T
  OBVIOUS
<1>2. PICK m \in T : \A c \in T : m <= c
  <2>1. T \subseteq Nat /\ T # {}
    BY <1>1
  <2> HIDE DEF T
  <2> QED
    BY <2>1, LeastNat
<1>3. m \in 0..n /\ (m = n \/ ~good(m + 1))
  BY <1>1, <1>2
<1>4. ASSUME NEW k \in 1..m PROVE good(k)
  <2> DEFINE j == k - 1
  <2>1. j \in Nat /\ ~(m <= j) /\ j # n /\ j + 1 = k
    BY <1>3
  <2> HIDE DEF good, j
  <2>2. j \notin T
    BY <1>2, <2>1
  <2>3. good(j + 1)
    BY <2>1, <2>2
  <2> QED
    BY <2>1, <2>3
<1>5. upto(m)
  BY <1>3, <1>4
<1> HIDE DEF upto
<1>6. count \in 0..n /\ upto(count)
  BY <1>3, <1>5
<1>7. d = [k \in 1..count |-> byte(k)]
  BY DEF DecodedHex, upto
<1> HIDE DEF count
<1>8. \A k \in 1..count : good(k)
  BY <1>6 DEF upto
<1>9. \A k \in 1..count : byte(k) \in Bytes
  <2> SUFFICES ASSUME NEW k \in 1..count PROVE byte(k) \in Bytes
    OBVIOUS
  <2>1. IsDigit(hi(k)) /\ IsDigit(lo(k))
    BY <1>8
  <2> HIDE DEF hi, lo
  <2>2. gdb_get_val(hi(k)) \in 0..15 /\ gdb_get_val(lo(k)) \in 0..15
    BY <2>1, ValueOfDigit
  <2> QED
    BY <2>2 DEF Bytes
<1> HIDE DEF byte, good
<1>10. count \in Nat /\ count <= n
  BY <1>6
<1>11. d \in [1..count -> Bytes]
  BY <1>7, <1>9
<1>12. d \in Seq(Bytes) /\ Len(d) = count
  BY <1>10, <1>11
<1>13. \A k \in 1..count : d[k] = byte(k)
  BY <1>7
<1>14. count < n => ~good(count + 1)
  BY <1>6, <1>10 DEF upto
<1> QED
  <2>1. \A k \in 1..Len(d) : good(k) /\ d[k] = byte(k)
    BY <1>8, <1>12, <1>13
  <2>2. Len(d) < n => ~good(Len(d) + 1)
    BY <1>12, <1>14
  <2>3. d \in Seq(Bytes) /\ Len(d) <= n
    BY <1>10, <1>12
  <2> QED
    BY <2>1, <2>2, <2>3 DEF good, byte, IsDecoded

\* A register or a byte that is decoded in place stays one.
LEMMA InPlaceTyped ==
  ASSUME NEW ptr \in Nat, NEW n \in Nat, NEW old \in [1..n -> Bytes]
  PROVE  InPlace(old, ptr, n) \in [1..n -> Bytes]
<1> DEFINE got == DecodedHex(ptr, n)
           hi  == gdb_get_val(At(ptr + 2 * Len(got)))
<1>1. got \in Seq(Bytes) /\ Len(got) <= n
  BY DecodedHexIs DEF IsDecoded
<1>2. hi # None => hi * 16 \in Bytes
  <2>1. hi \in -1..15
    BY ValueOfDigit
  <2> HIDE DEF hi
  <2> QED
    BY <2>1 DEF None, Bytes
<1>3. InPlace(old, ptr, n) = [k \in 1..n |-> IF k <= Len(got) THEN got[k]
                      ELSE IF k = Len(got) + 1 /\ hi # None THEN hi * 16 ELSE old[k]]
  BY DEF InPlace
<1> HIDE DEF got, hi
<1>4. \A k \in 1..n : k <= Len(got) => got[k] \in Bytes
  BY <1>1
<1> QED
  BY <1>2, <1>3, <1>4

\* Binary data: bytes, one more than n when there is no room for them.
Unescaped(i) == IF At(i) = Escape THEN flip(At(i + 1)) ELSE At(i)

IsBinary(ptr, len, n, d) ==
  \E c \in 0..(n + 1) :
    /\ \A k \in 0..(c - 1) : Offset(ptr, k) < len
    /\ c = n + 1 \/ ~(Offset(ptr, c) < len)
    /\ IF c = n + 1 \/ Offset(ptr, c) > len THEN Len(d) = n + 1
       ELSE /\ Len(d) = c
            /\ \A k \in 1..c : d[k] = Unescaped(ptr + Offset(ptr, k - 1))

LEMMA DecodedBinIs ==
  ASSUME TypeOK, NEW ptr \in Nat, NEW len \in Int, NEW n \in Nat,
         NEW d, d = DecodedBin(ptr, len, n)
  PROVE  /\ d \in Seq(Bytes) /\ Len(d) <= n + 1
         /\ Len(d) <= n => \E c \in 0..n : ~(Offset(ptr, c) < len)
         /\ IsBinary(ptr, len, n, d)
<1> DEFINE upto(c) == /\ c = n + 1 \/ ~(Offset(ptr, c) < len)
                      /\ \A k \in 0..(c - 1) : Offset(ptr, k) < len
           count == CHOOSE c \in 0..(n + 1) : upto(c)
           byte(i) == Unescaped(i)
           T == {c \in Nat : c = n + 1 \/ ~(Offset(ptr, c) < len)}
<1>1. n + 1 \in T
  OBVIOUS
<1>2. PICK m \in T : \A c \in T : m <= c
  <2>1. T \subseteq Nat /\ T # {}
    BY <1>1
  <2> HIDE DEF T
  <2> QED
    BY <2>1, LeastNat
<1>3. m \in 0..(n + 1) /\ (m = n + 1 \/ ~(Offset(ptr, m) < len))
  BY <1>1, <1>2
<1>4. ASSUME NEW k \in 0..(m - 1) PROVE Offset(ptr, k) < len
  <2>1. k \in Nat /\ ~(m <= k)
    BY <1>3
  <2>2. k \notin T
    BY <1>2, <2>1
  <2> QED
    BY <2>1, <2>2
<1>5. upto(m)
  BY <1>3, <1>4
<1> HIDE DEF upto
<1>6. count \in 0..(n + 1) /\ upto(count)
  BY <1>3, <1>5
<1>7. d = IF count = n + 1 \/ Offset(ptr, count) > len THEN [k \in 1..(n + 1) |-> 0]
          ELSE [k \in 1..count |-> byte(ptr + Offset(ptr, k - 1))]
  BY DEF DecodedBin, upto, Unescaped
<1> HIDE DEF count
<1>8. \A i : byte(i) \in Bytes
  <2> SUFFICES ASSUME NEW i PROVE byte(i) \in Bytes
    OBVIOUS
  <2>1. At(i) \in Bytes /\ At(i + 1) \in Bytes
    BY AtIsByte
  <2> QED
    BY <2>1, FlipIs DEF Unescaped
<1> HIDE DEF byte
<1>9. CASE count = n + 1 \/ Offset(ptr, count) > len
  <2>1. d \in [1..(n + 1) -> Bytes]
    BY <1>7, <1>9 DEF Bytes
  <2>2. d \in Seq(Bytes) /\ Len(d) = n + 1
    BY <2>1
  <2>3. IsBinary(ptr, len, n, d)
    BY <1>6, <1>9, <2>2 DEF IsBinary, upto
  <2> QED
    BY <2>2, <2>3
<1>10. CASE ~(count = n + 1 \/ Offset(ptr, count) > len)
  <2>1. d \in [1..count -> Bytes]
    BY <1>7, <1>8, <1>10
  <2>2. count \in Nat /\ count <= n + 1 /\ count \in 0..n /\ ~(Offset(ptr, count) < len)
    BY <1>6, <1>10 DEF upto
  <2>3. d \in Seq(Bytes) /\ Len(d) = count
    BY <2>1, <2>2
  <2>4. \A k \in 1..count : d[k] = byte(ptr + Offset(ptr, k - 1))
    BY <1>7, <1>10
  <2>5. IsBinary(ptr, len, n, d)
    BY <1>6, <1>10, <2>3, <2>4 DEF IsBinary, upto, byte
  <2> QED
    BY <2>2, <2>3, <2>5
<1> QED
  BY <1>9, <1>10

-----------------------------------------------------------------------------
(* The state stays well formed: no reply is longer than its buffer, and    *)
(* the commands are read from a packet that is there.                      *)

TypedInv == /\ TypeOK /\ sig \in Bytes
            /\ pkt_len < BufSize /\ (state = "serve" => pkt_len >= 1)

Longest == Max({DataMax, RegNum, 2})

LEMMA LongestIs == Longest \in Nat /\ DataMax <= Longest /\ RegNum <= Longest /\ 2 <= Longest
<1> DEFINE S == {DataMax, RegNum, 2}
<1>1. \E x \in S : \A y \in S : x >= y
  <2>1. CASE DataMax >= RegNum /\ DataMax >= 2
    BY <2>1, SizesAre
  <2>2. CASE RegNum >= DataMax /\ RegNum >= 2
    BY <2>2, SizesAre
  <2>3. CASE 2 >= DataMax /\ 2 >= RegNum
    BY <2>3, SizesAre
  <2> QED
    BY <2>1, <2>2, <2>3, SizesAre
<1>2. Longest = CHOOSE x \in S : \A y \in S : x >= y
  BY DEF Longest, Max
<1> HIDE DEF S
<1>3. Longest \in S /\ \A y \in S : Longest >= y
  BY <1>1, <1>2
<1> QED
  BY <1>3, SizesAre DEF S

LEMMA PutTyped ==
  ASSUME NEW buf \in [1..BufSize -> Bytes], NEW chars \in Seq(Bytes)
  PROVE  Put(buf, chars) \in [1..BufSize -> Bytes]
<1> DEFINE n == Len(chars)
<1>1. n \in Nat /\ \A i \in 1..n : chars[i] \in Bytes
  OBVIOUS
<1>2. Put(buf, chars) = [i \in 1..BufSize |-> IF i <= n THEN chars[i] ELSE buf[i]]
  BY DEF Put
<1> HIDE DEF n
<1>3. \A i \in 1..BufSize : i <= n => i \in 1..n
  BY <1>1, SizesAre
<1> QED
  BY <1>1, <1>2, <1>3

\* A reply that is not too long, wherever it is put together.
Replied == /\ pkt_buf' \in [1..BufSize -> Bytes]
           /\ reply' \in Seq(Bytes) /\ Len(reply') <= 2 * Longest

LEMMA ErrorIs == Error \in Seq(Bytes) /\ Len(Error) = 3 /\ OK \in Seq(Bytes) /\ Len(OK) = 2
                 /\ Nothing \in Seq(Bytes) /\ Len(Nothing) = 0
BY DEF Error, OK, Nothing, Bytes

LEMMA SendTyped ==
  ASSUME TypeOK, NEW chars \in Seq(Bytes), Len(chars) <= 2 * Longest, Send(chars) \/ Say(chars)
  PROVE  Replied
<1>1. pkt_buf \in [1..BufSize -> Bytes]
  BY DEF TypeOK
<1>2. Put(pkt_buf, chars) \in [1..BufSize -> Bytes]
  BY <1>1, PutTyped
<1> QED
  BY <1>1, <1>2 DEF Send, Say, Replied

LEMMA FailTyped ==
  ASSUME TypeOK, Fail
  PROVE  Replied /\ UNCHANGED <<mem, regs>>
<1>1. Len(Error) <= 2 * Longest
  BY ErrorIs, LongestIs
<1> QED
  BY <1>1, ErrorIs, SendTyped DEF Fail

LEMMA OutcomeTyped ==
  ASSUME TypeOK, NEW done, Outcome(done)
  PROVE  Replied /\ (reply' = OK \/ reply' = Error)
<1>1. Len(Error) <= 2 * Longest /\ Len(OK) <= 2 * Longest
  BY ErrorIs, LongestIs
<1>2. CASE done
  <2>1. Say(OK)
    BY <1>2 DEF Outcome
  <2> QED
    BY <1>1, <2>1, ErrorIs, SendTyped DEF Say
<1>3. CASE ~done
  <2>1. Send(Error)
    BY <1>3 DEF Outcome
  <2> QED
    BY <1>1, <2>1, ErrorIs, SendTyped DEF Send
<1> QED
  BY <1>2, <1>3

LEMMA RegBytesTyped ==
  ASSUME TypeOK
  PROVE  /\ RegBytes \in [1..RegNum -> Bytes] /\ RegBytes \in Seq(Bytes) /\ Len(RegBytes) = RegNum
         /\ \A r \in 1..RegNum : RegBytes[r] = regs[r - 1]
<1>1. \A r \in 1..RegNum : r - 1 \in 0..(RegNum - 1)
  BY SizesAre
<1>2. RegBytes \in [1..RegNum -> Bytes]
  BY <1>1 DEF RegBytes, TypeOK
<1>3. RegNum \in Nat
  BY SizesAre
<1> QED
  BY <1>2, <1>3 DEF RegBytes

LEMMA WriteBytesTyped ==
  ASSUME TypeOK, NEW addr \in Int, NEW bytes \in Seq(Bytes), WriteBytes(addr, bytes)
  PROVE  Replied /\ mem' \in [Cells -> Bytes] /\ UNCHANGED regs
<1> DEFINE written == {k \in DOMAIN bytes : \A j \in 1..k : ~Refused(addr + j - 1)}
<1>1. mem' = [a \in Cells |-> IF a - addr + 1 \in written THEN bytes[a - addr + 1] ELSE mem[a]]
  BY DEF WriteBytes
<1>2. Outcome(written = DOMAIN bytes) /\ UNCHANGED regs
  BY DEF WriteBytes
<1>3. \A k \in written : bytes[k] \in Bytes
  OBVIOUS
<1> HIDE DEF written
<1>4. mem' \in [Cells -> Bytes]
  BY <1>1, <1>3 DEF TypeOK
<1> QED
  BY <1>2, <1>4, OutcomeTyped

LEMMA TypedInit == Init => TypedInv
<1> SUFFICES ASSUME Init PROVE TypedInv
  OBVIOUS
<1>1. Fills \subseteq Bytes
  BY GdbPacketAssumption DEF GdbPacketAssumption
<1>2. pkt_buf \in [1..BufSize -> Bytes]
  BY <1>1 DEF Init
<1>3. 0 \in Bytes
  BY DEF Bytes
<1>4. mem \in [Cells -> Bytes] /\ regs \in [0..(RegNum - 1) -> Bytes] /\ sig \in Bytes
  BY <1>3 DEF Init
<1>5. pkt_len \in 0..BufSize /\ pkt_len < BufSize
  BY SizesAre DEF Init
<1>6. reply \in Seq(Bytes) /\ Len(reply) <= 2 * Longest
  BY ErrorIs, LongestIs DEF Init
<1>7. state = "run"
  BY DEF Init
<1> QED
  BY <1>2, <1>4, <1>5, <1>6, <1>7 DEF TypedInv, TypeOK, Longest

LEMMA HexLength ==
  ASSUME NEW s \in Seq(Bytes), Len(s) = 1
  PROVE  Hex(s) \in Seq(Bytes) /\ Len(Hex(s)) = 2
<1>1. Len(Hex(s)) = 2 * Len(s)
  BY HexIs
<1>2. Hex(s) \in Seq(Bytes)
  BY HexIs
<1> HIDE DEF Hex
<1> QED
  BY <1>1, <1>2

LEMMA ThreeLong ==
  ASSUME NEW s \in Seq(Bytes), NEW t \in Seq(Bytes), Len(s) = 1, Len(t) = 2
  PROVE  s \o t \in Seq(Bytes) /\ Len(s \o t) = 3
<1>1. Len(s \o t) = Len(s) + Len(t)
  BY ConcatProperties
<1> QED
  BY <1>1, ConcatProperties

\* The signal of a trap, a letter and two digits.
LEMMA SignalIs ==
  ASSUME NEW v \in Bytes, NEW c \in Bytes, NEW s, s = <<c>> \o Hex(<<v>>)
  PROVE  s \in Seq(Bytes) /\ Len(s) <= 2 * Longest
<1> DEFINE one    == <<v>>
           letter == <<c>>
           digits == Hex(one)
<1>1. one \in Seq(Bytes) /\ Len(one) = 1 /\ letter \in Seq(Bytes) /\ Len(letter) = 1
  OBVIOUS
<1> HIDE DEF one
<1>2. digits \in Seq(Bytes) /\ Len(digits) = 2
  BY <1>1, HexLength
<1> HIDE DEF letter, digits
<1>3. letter \o digits \in Seq(Bytes) /\ Len(letter \o digits) = 3
  BY <1>1, <1>2, ThreeLong
<1>4. s \in Seq(Bytes) /\ Len(s) = 3
  BY <1>3 DEF letter, digits, one
<1>5. \A n \in Nat : n = 3 => n <= 2 * Longest
  BY LongestIs
<1>6. Len(s) <= 2 * Longest
  BY <1>4, <1>5
<1> QED
  BY <1>4, <1>6

LEMMA TrapTyped ==
  ASSUME TypedInv, NEW vec, Trap(vec)
  PROVE  TypedInv'
<1>1. gdb_get_sig(vec) \in Bytes /\ 83 \in Bytes
  BY DEF gdb_get_sig, Bytes
<1>2. reply' \in Seq(Bytes) /\ Len(reply') <= 2 * Longest
  BY <1>1, SignalIs DEF Trap
<1>3. Fills \subseteq Bytes
  BY GdbPacketAssumption DEF GdbPacketAssumption
<1>4. PICK f \in Fills : pkt_buf' = Put([i \in 1..BufSize |-> f], reply')
  BY DEF Trap
<1>5. [i \in 1..BufSize |-> f] \in [1..BufSize -> Bytes]
  BY <1>3
<1>6. pkt_buf' \in [1..BufSize -> Bytes]
  BY <1>2, <1>4, <1>5, PutTyped
<1>7. sig' \in Bytes /\ state' = "wait" /\ UNCHANGED <<pkt_len, mem, regs>>
  BY <1>1 DEF Trap
<1> QED
  BY <1>2, <1>6, <1>7 DEF TypedInv, TypeOK, Longest

LEMMA ReceiveTyped ==
  ASSUME TypedInv, NEW p \in Packets, Receive(p)
  PROVE  TypedInv'
<1>1. p \in Seq(Bytes) /\ Len(p) < BufSize
  BY GdbPacketAssumption DEF GdbPacketAssumption
<1>2. pkt_buf' \in [1..BufSize -> Bytes]
  BY <1>1, PutTyped DEF TypedInv, TypeOK, Receive
<1>3. pkt_len' = Len(p) /\ Len(p) \in Nat /\ reply' = Nothing /\ UNCHANGED <<sig, mem, regs>>
  BY <1>1 DEF Receive
<1>4. state' \in {"wait", "serve"} /\ (state' = "serve" => Len(p) # 0)
  BY DEF Receive
<1>5. pkt_len' \in 0..BufSize /\ pkt_len' < BufSize /\ (state' = "serve" => pkt_len' >= 1)
  BY <1>1, <1>3, <1>4, SizesAre
<1>6. reply' \in Seq(Bytes) /\ Len(reply') <= 2 * Longest
  BY <1>3, ErrorIs, LongestIs
<1> QED
  BY <1>2, <1>3, <1>4, <1>5, <1>6 DEF TypedInv, TypeOK, Longest

\* What is left to show of a command that answers.
LEMMA AnsweredTyped ==
  ASSUME TypedInv, Answered, Replied, mem' \in [Cells -> Bytes],
         regs' \in [0..(RegNum - 1) -> Bytes]
  PROVE  TypedInv'
BY DEF TypedInv, TypeOK, Answered, Replied, Longest

LEMMA FailAnswers ==
  ASSUME TypedInv, Fail, Answered
  PROVE  TypedInv'
<1>1. Replied /\ UNCHANGED <<mem, regs>>
  BY FailTyped DEF TypedInv
<1> QED
  BY <1>1, AnsweredTyped DEF TypedInv, TypeOK

LEMMA ReadRegistersTyped ==
  ASSUME TypedInv, ReadRegisters
  PROVE  TypedInv'
<1>1. RegBytes \in Seq(Bytes) /\ Len(RegBytes) = RegNum
  BY RegBytesTyped DEF TypedInv
<1>2. Hex(RegBytes) \in Seq(Bytes) /\ Len(Hex(RegBytes)) = 2 * RegNum
  BY <1>1, HexIs
<1>3. Len(Hex(RegBytes)) <= 2 * Longest
  BY <1>2, LongestIs, SizesAre
<1>4. Send(Hex(RegBytes)) /\ UNCHANGED <<mem, regs>> /\ Answered
  BY DEF ReadRegisters
<1>5. Replied
  BY <1>2, <1>3, <1>4, SendTyped DEF TypedInv
<1> QED
  BY <1>4, <1>5, AnsweredTyped DEF TypedInv, TypeOK

LEMMA WriteRegistersTyped ==
  ASSUME TypedInv, WriteRegisters
  PROVE  TypedInv'
<1>1. CASE ~HexFits(2, RegNum)
  BY <1>1, FailAnswers DEF WriteRegisters
<1>2. CASE HexFits(2, RegNum)
  <2> DEFINE new == InPlace(RegBytes, 2, RegNum)
             whole == Len(DecodedHex(2, RegNum)) = RegNum
  <2>1. /\ regs' = [r \in 0..(RegNum - 1) |-> new[r + 1]]
        /\ Outcome(whole) /\ UNCHANGED mem /\ Answered
    BY <1>2 DEF WriteRegisters
  <2>2. RegBytes \in [1..RegNum -> Bytes]
    BY RegBytesTyped DEF TypedInv
  <2>3. new \in [1..RegNum -> Bytes]
    BY <2>2, InPlaceTyped, SizesAre
  <2> HIDE DEF new, whole
  <2>4. \A r \in 0..(RegNum - 1) : r + 1 \in 1..RegNum
    BY SizesAre
  <2>5. regs' \in [0..(RegNum - 1) -> Bytes]
    BY <2>1, <2>3, <2>4
  <2>6. Replied
    BY <2>1, OutcomeTyped DEF TypedInv
  <2> QED
    BY <2>1, <2>5, <2>6, AnsweredTyped DEF TypedInv, TypeOK
<1> QED
  BY <1>1, <1>2

LEMMA ReadRegisterTyped ==
  ASSUME TypedInv, ReadRegister
  PROVE  TypedInv'
<1> DEFINE n == Integer(2)
<1>1. CASE n.next = 0 \/ n.value >= RegNum
  BY <1>1, FailAnswers DEF ReadRegister
<1>2. CASE ~(n.next = 0 \/ n.value >= RegNum)
  <2> DEFINE one == <<regs[n.value]>>
  <2>1. Send(Hex(one)) /\ UNCHANGED <<mem, regs>> /\ Answered
    BY <1>2 DEF ReadRegister
  <2>2. n.value \in 0..(Modulus - 1)
    BY NumberIs DEF TypedInv
  <2> HIDE DEF n
  <2>3. n.value \in 0..(RegNum - 1)
    BY <1>2, <2>2, SizesAre
  <2>4. regs[n.value] \in Bytes
    BY <2>3 DEF TypedInv, TypeOK
  <2>5. one \in Seq(Bytes) /\ Len(one) = 1
    BY <2>4
  <2> HIDE DEF one
  <2>6. Hex(one) \in Seq(Bytes) /\ Len(Hex(one)) <= 2 * Longest
    <3>1. Hex(one) \in Seq(Bytes) /\ Len(Hex(one)) = 2
      BY <2>5, HexLength
    <3> QED
      BY <3>1, LongestIs
  <2>7. Replied
    BY <2>1, <2>6, SendTyped DEF TypedInv
  <2> QED
    BY <2>1, <2>7, AnsweredTyped DEF TypedInv, TypeOK
<1> QED
  BY <1>1, <1>2

LEMMA WriteRegisterTyped ==
  ASSUME TypedInv, WriteRegister
  PROVE  TypedInv'
<1> DEFINE n == Integer(2)
           ptr == Separator(n, Equals)
           refused == ptr = 0 \/ n.value >= RegNum \/ ~HexFits(ptr, 1)
<1>1. CASE refused
  BY <1>1, FailAnswers DEF WriteRegister
<1>2. CASE ~refused
  <2> DEFINE one == <<regs[n.value]>>
             new == InPlace(one, ptr, 1)
             whole == Len(DecodedHex(ptr, 1)) = 1
  <2>1. regs' = [regs EXCEPT ![n.value] = new[1]] /\ Outcome(whole) /\ UNCHANGED mem /\ Answered
    BY <1>2 DEF WriteRegister
  <2>2. n.next \in Nat /\ n.value \in 0..(Modulus - 1)
    BY NumberIs DEF TypedInv
  <2> HIDE DEF n
  <2>3. ptr \in Nat
    BY <2>2, SeparatorIs
  <2>4. n.value \in 0..(RegNum - 1)
    BY <1>2, <2>2, SizesAre
  <2>5. regs[n.value] \in Bytes
    BY <2>4 DEF TypedInv, TypeOK
  <2>6. one \in [1..1 -> Bytes]
    BY <2>5
  <2> HIDE DEF ptr, one
  <2>7. new[1] \in Bytes
    <3>1. new \in [1..1 -> Bytes]
      BY <2>3, <2>6, InPlaceTyped
    <3> QED
      BY <3>1
  <2> HIDE DEF new, whole
  <2>8. regs' \in [0..(RegNum - 1) -> Bytes]
    BY <2>1, <2>7 DEF TypedInv, TypeOK
  <2>9. Replied
    BY <2>1, OutcomeTyped DEF TypedInv
  <2> QED
    BY <2>1, <2>8, <2>9, AnsweredTyped DEF TypedInv, TypeOK
<1> QED
  BY <1>1, <1>2

\* The fields of a memory command are numbers and a place behind them.
LEMMA FieldsAre ==
  ASSUME TypeOK, NEW addr, addr = Integer(2),
         NEW length, length = Integer(Separator(addr, Comma)),
         NEW ptr, ptr = Separator(length, Colon)
  PROVE  /\ addr.next \in Nat /\ addr.value \in 0..(Modulus - 1)
         /\ length.next \in Nat /\ length.value \in 0..(Modulus - 1)
         /\ ptr \in Nat
<1>1. addr.next \in Nat /\ addr.value \in 0..(Modulus - 1)
  BY NumberIs
<1>2. Separator(addr, Comma) \in Nat
  BY <1>1, SeparatorIs
<1>3. length.next \in Nat /\ length.value \in 0..(Modulus - 1)
  BY <1>2, NumberIs
<1> QED
  BY <1>1, <1>3, SeparatorIs

LEMMA ReadMemoryTyped ==
  ASSUME TypedInv, ReadMemory
  PROVE  TypedInv'
<1> DEFINE addr   == Integer(2)
           length == Integer(Separator(addr, Comma))
           from(k) == (addr.value + k - 1) % Modulus
           n      == length.value
<1>1. CASE length.next = 0 \/ ~DataFits(n)
  BY <1>1, FailAnswers DEF ReadMemory
<1>2. CASE ~(length.next = 0 \/ ~DataFits(n)) /\ \A k \in 1..n : from(k) \in Cells
  <2> DEFINE read == [k \in 1..n |-> mem[from(k)]]
  <2>1. Send(Hex(read)) /\ UNCHANGED <<mem, regs>> /\ Answered
    BY <1>2 DEF ReadMemory
  <2>2. n \in 0..(Modulus - 1)
    BY FieldsAre DEF TypedInv
  <2>3. n \in Nat /\ n <= DataMax
    BY <1>2, <2>2, SizesAre DEF DataFits
  <2> HIDE DEF n, from
  <2>4. read \in [1..n -> Bytes]
    BY <1>2 DEF TypedInv, TypeOK
  <2>5. read \in Seq(Bytes) /\ Len(read) = n
    BY <2>3, <2>4
  <2> HIDE DEF read
  <2>6. Hex(read) \in Seq(Bytes) /\ Len(Hex(read)) = 2 * Len(read)
    BY <2>5, HexIs
  <2>7. Len(Hex(read)) <= 2 * Longest
    BY <2>3, <2>5, <2>6, LongestIs, SizesAre
  <2>8. Replied
    BY <2>1, <2>6, <2>7, SendTyped DEF TypedInv
  <2> QED
    BY <2>1, <2>8, AnsweredTyped DEF TypedInv, TypeOK
<1>3. CASE ~(length.next = 0 \/ ~DataFits(n)) /\ ~(\A k \in 1..n : from(k) \in Cells)
  <2>1. state' = "hung" /\ UNCHANGED <<pkt_buf, pkt_len, sig, mem, regs, reply>>
    BY <1>3 DEF ReadMemory
  <2> QED
    BY <2>1 DEF TypedInv, TypeOK
<1> QED
  BY <1>1, <1>2, <1>3

LEMMA WriteMemoryTyped ==
  ASSUME TypedInv, WriteMemory
  PROVE  TypedInv'
<1> DEFINE addr   == Integer(2)
           length == Integer(Separator(addr, Comma))
           ptr    == Separator(length, Colon)
           n      == length.value
           bytes  == DecodedHex(ptr, n)
           refused == \/ ptr = 0 \/ ~DataFits(n) \/ ~HexFits(ptr, n)
                      \/ Len(bytes) < n
<1>1. CASE refused
  BY <1>1, FailAnswers DEF WriteMemory
<1>2. CASE ~refused
  <2>1. WriteBytes(addr.value, bytes) /\ Answered
    BY <1>2 DEF WriteMemory
  <2>2. addr.value \in 0..(Modulus - 1) /\ n \in 0..(Modulus - 1) /\ ptr \in Nat
    BY FieldsAre DEF TypedInv
  <2>3. bytes \in Seq(Bytes)
    <3>1. n \in Nat
      BY <2>2, SizesAre
    <3>2. bytes = DecodedHex(ptr, n)
      OBVIOUS
    <3> HIDE DEF n, ptr, bytes
    <3> QED
      BY <2>2, <3>1, <3>2, DecodedHexIs DEF IsDecoded
  <2> HIDE DEF addr, n, ptr, bytes
  <2>4. Replied /\ mem' \in [Cells -> Bytes] /\ UNCHANGED regs
    BY <2>1, <2>2, <2>3, WriteBytesTyped DEF TypedInv
  <2> QED
    BY <2>1, <2>4, AnsweredTyped DEF TypedInv, TypeOK
<1> QED
  BY <1>1, <1>2

LEMMA WriteBinaryTyped ==
  ASSUME TypedInv, WriteBinary
  PROVE  TypedInv'
<1> DEFINE addr   == Integer(2)
           length == Integer(Separator(addr, Comma))
           ptr    == Separator(length, Colon)
           n      == length.value
           got    == DecodedBin(ptr, Remaining(ptr), n)
           bytes(u) == [k \in 1..n |-> IF k <= Len(got) THEN got[k] ELSE u]
           refused == ptr = 0 \/ ~DataFits(n) \/ Len(got) > n
<1>1. CASE refused
  BY <1>1, FailAnswers DEF WriteBinary
<1>2. CASE ~refused
  <2>1. (\E u \in Unset : WriteBytes(addr.value, bytes(u))) /\ Answered
    BY <1>2 DEF WriteBinary
  <2>2. addr.value \in 0..(Modulus - 1) /\ n \in 0..(Modulus - 1) /\ ptr \in Nat
    BY FieldsAre DEF TypedInv
  <2>3. Unset \subseteq Bytes
    BY GdbPacketAssumption DEF GdbPacketAssumption
  <2>4. Remaining(ptr) \in Int
    <3> HIDE DEF ptr
    <3> QED
      BY <2>2, SizesAre DEF Remaining, TypedInv, TypeOK
  <2>5. got \in Seq(Bytes)
    <3> DEFINE len == Remaining(ptr)
    <3>1. n \in Nat /\ len \in Int
      BY <2>2, <2>4, SizesAre
    <3>2. got = DecodedBin(ptr, len, n)
      OBVIOUS
    <3> HIDE DEF n, ptr, len, got
    <3> QED
      BY <2>2, <3>1, <3>2, DecodedBinIs DEF TypedInv
  <2> HIDE DEF addr, n, ptr, got
  <2>6. ASSUME NEW u \in Unset PROVE bytes(u) \in Seq(Bytes)
    <3>1. \A k \in 1..n : k <= Len(got) => got[k] \in Bytes
      BY <2>2, <2>5, SizesAre
    <3>2. bytes(u) \in [1..n -> Bytes] /\ n \in Nat
      BY <2>2, <2>3, <3>1, SizesAre
    <3> QED
      BY <3>2
  <2> HIDE DEF bytes
  <2>7. Replied /\ mem' \in [Cells -> Bytes] /\ UNCHANGED regs
    <3>1. PICK u \in Unset : WriteBytes(addr.value, bytes(u))
      BY <2>1
    <3> QED
      BY <2>2, <2>6, <3>1, WriteBytesTyped DEF TypedInv
  <2> QED
    BY <2>1, <2>7, AnsweredTyped DEF TypedInv, TypeOK
<1> QED
  BY <1>1, <1>2

LEMMA OthersTyped ==
  ASSUME TypedInv, LastSignal \/ Unsupported \/ Leave \/ GiveUp
  PROVE  TypedInv'
<1>1. CASE LastSignal
  <2>1. Send(Signal) /\ UNCHANGED <<mem, regs>> /\ Answered
    BY <1>1 DEF LastSignal
  <2>2. Signal \in Seq(Bytes) /\ Len(Signal) <= 2 * Longest
    <3>1. 83 \in Bytes /\ sig \in Bytes
      BY DEF Bytes, TypedInv
    <3> QED
      BY <3>1, SignalIs DEF Signal
  <2>3. Replied
    BY <2>1, <2>2, SendTyped DEF TypedInv
  <2> QED
    BY <2>1, <2>3, AnsweredTyped DEF TypedInv, TypeOK
<1>2. CASE Unsupported
  <2>1. Say(Nothing) /\ UNCHANGED <<mem, regs>> /\ Answered
    BY <1>2 DEF Unsupported
  <2>2. Nothing \in Seq(Bytes) /\ Len(Nothing) <= 2 * Longest
    BY ErrorIs, LongestIs
  <2>3. Replied
    BY <2>1, <2>2, SendTyped DEF TypedInv
  <2> QED
    BY <2>1, <2>3, AnsweredTyped DEF TypedInv, TypeOK
<1>3. CASE Leave \/ GiveUp
  <2>1. state' = "run" /\ UNCHANGED <<pkt_buf, pkt_len, sig, mem, regs, reply>>
    BY <1>3 DEF Leave, GiveUp
  <2> QED
    BY <2>1 DEF TypedInv, TypeOK
<1> QED
  BY <1>1, <1>2, <1>3

LEMMA TypedStep == TypedInv /\ [Next]_vars => TypedInv'
<1> SUFFICES ASSUME TypedInv, [Next]_vars PROVE TypedInv'
  OBVIOUS
<1>1. CASE UNCHANGED vars
  BY <1>1 DEF TypedInv, TypeOK, vars
<1>2. CASE Serve
  BY <1>2, ReadRegistersTyped, WriteRegistersTyped, ReadRegisterTyped, WriteRegisterTyped,
     ReadMemoryTyped, WriteMemoryTyped, WriteBinaryTyped, OthersTyped DEF Serve
<1>3. CASE GiveUp
  BY <1>3, OthersTyped
<1>4. CASE \E v \in Vectors : Trap(v)
  BY <1>4, TrapTyped
<1>5. CASE \E p \in Packets : Receive(p)
  BY <1>5, ReceiveTyped
<1> QED
  BY <1>1, <1>2, <1>3, <1>4, <1>5 DEF Next

\* pkt_buf, memory and the registers hold bytes, a packet fits the buffer, and
\* no reply is longer than the largest of the areas replies are made from.
THEOREM TypeCorrect == Spec => []TypeOK
<1>1. TypedInv => TypeOK
  BY DEF TypedInv
<1> QED
  BY <1>1, TypedInit, TypedStep, PTL DEF Spec

-----------------------------------------------------------------------------
(* Words: what wraps, and what calculating with remainders may leave out.  *)

LEMMA DivisionIs ==
  ASSUME NEW m \in Nat, m > 0, NEW y \in Int
  PROVE  y = m * (y \div m) + (y % m) /\ y % m \in 0..(m - 1) /\ y \div m \in Int
OBVIOUS

LEMMA SmallMultiple ==
  ASSUME NEW m \in Nat, NEW t \in Int, -m < m * t, m * t < m
  PROVE  t = 0
<1>1. t >= 1 => m * t >= m
  OBVIOUS
<1>2. t <= -1 => m * t <= -m
  OBVIOUS
<1> QED
  BY <1>1, <1>2

LEMMA RemainderIs ==
  ASSUME NEW m \in Nat, m > 0, NEW y \in Int, NEW q \in Int, NEW r \in 0..(m - 1), y = m * q + r
  PROVE  y % m = r
<1> DEFINE k == y \div m
           u == y % m
           t == q - k
<1>1. y = m * k + u /\ u \in 0..(m - 1) /\ k \in Int
  BY DivisionIs
<1> HIDE DEF k, u
<1>2. m * t = u - r
  BY <1>1
<1>3. t \in Int /\ -m < m * t /\ m * t < m
  BY <1>1, <1>2
<1> HIDE DEF t
<1>4. t = 0
  BY <1>3, SmallMultiple
<1>5. r = u
  BY <1>1, <1>2, <1>4
<1> QED
  BY <1>5 DEF u

LEMMA RemainderOfSum ==
  ASSUME NEW m \in Nat, m > 0, NEW y \in Int, NEW q \in Int
  PROVE  (y + m * q) % m = y % m
<1> DEFINE k == y \div m
           u == y % m
           z == y + m * q
           l == k + q
<1>1. y = m * k + u /\ u \in 0..(m - 1) /\ k \in Int
  BY DivisionIs
<1> HIDE DEF k, u
<1>2. z = m * l + u /\ l \in Int /\ z \in Int
  BY <1>1
<1> HIDE DEF z, l
<1>3. z % m = u
  BY <1>1, <1>2, RemainderIs
<1> QED
  BY <1>3 DEF z, u

LEMMA WordOf ==
  ASSUME NEW x \in Int
  PROVE  /\ x \in 0..(Modulus - 1) => x % Modulus = x
         /\ x \in (-Modulus)..-1 => x % Modulus = x + Modulus
         /\ (x % Modulus) % Modulus = x % Modulus
         /\ (-(x % Modulus)) % Modulus = (-x) % Modulus
         /\ \A d \in Int : ((x % Modulus) * 16 + d) % Modulus = (x * 16 + d) % Modulus
<1> DEFINE m == Modulus
           k == x \div m
           u == x % m
<1>1. m \in Nat /\ m > 0
  BY SizesAre
<1> HIDE DEF m
<1>2. x = m * k + u /\ u \in 0..(m - 1) /\ k \in Int /\ u \in Int
  BY <1>1, DivisionIs
<1>3. x \in 0..(m - 1) => x % m = x
  <2> SUFFICES ASSUME x \in 0..(m - 1) PROVE x % m = x
    OBVIOUS
  <2>1. x = m * 0 + x
    BY <1>1
  <2> QED
    BY <1>1, <2>1, RemainderIs
<1>4. x \in (-m)..-1 => x % m = x + m
  <2> SUFFICES ASSUME x \in (-m)..-1 PROVE x % m = x + m
    OBVIOUS
  <2> DEFINE r == x + m
  <2>1. x = m * (-1) + r /\ r \in 0..(m - 1) /\ -1 \in Int
    BY <1>1
  <2> HIDE DEF r
  <2>2. x % m = r
    BY <1>1, <2>1, RemainderIs
  <2> QED
    BY <2>2 DEF r
<1> HIDE DEF k, u
<1>5. u % m = u
  <2>1. u = m * 0 + u
    BY <1>1, <1>2
  <2> QED
    BY <1>1, <1>2, <2>1, RemainderIs
<1>6. (-u) % m = (-x) % m
  <2> DEFINE y == -x
             q == -(-k)
  <2>1. y \in Int /\ q \in Int /\ y + m * q = -u
    BY <1>1, <1>2
  <2> HIDE DEF y, q
  <2>2. (y + m * q) % m = y % m
    BY <1>1, <2>1, RemainderOfSum
  <2> QED
    BY <2>1, <2>2 DEF y
<1>7. ASSUME NEW d \in Int PROVE (u * 16 + d) % m = (x * 16 + d) % m
  <2> DEFINE y == u * 16 + d
             q == 16 * k
             z == x * 16 + d
  <2>1. y \in Int /\ q \in Int /\ y + m * q = z
    BY <1>1, <1>2
  <2> HIDE DEF y, q, z
  <2>2. (y + m * q) % m = y % m
    BY <1>1, <2>1, RemainderOfSum
  <2> QED
    BY <2>1, <2>2 DEF y, z
<1> QED
  BY <1>3, <1>4, <1>5, <1>6, <1>7 DEF u, m

-----------------------------------------------------------------------------
(* What the parser reads is what the characters of the packet say.         *)

LEMMA DigitTells ==
  ASSUME NEW c
  PROVE  /\ Digit(c) <=> IsDigit(c)
         /\ IsDigit(c) => Worth(c) = gdb_get_val(c)
<1>1. ASSUME IsDigit(c)
      PROVE  LET v == gdb_get_val(c)
             IN  v \in 0..15 /\ (c = gdb_get_digit(v) \/ (c = v + 55 /\ v > 9))
  <2>1. CASE c \in 48..57
    BY <2>1 DEF gdb_get_val, gdb_get_digit
  <2>2. CASE c \in 97..102
    BY <2>2 DEF gdb_get_val, gdb_get_digit
  <2>3. CASE c \in 65..70
    BY <2>3 DEF gdb_get_val, gdb_get_digit
  <2> QED
    BY <1>1, <2>1, <2>2, <2>3, ValueOfDigit
<1>2. ASSUME NEW v \in 0..15, c = gdb_get_digit(v) \/ (c = v + 55 /\ v > 9)
      PROVE  IsDigit(c) /\ v = gdb_get_val(c)
  <2>1. CASE c = gdb_get_digit(v) /\ v < 10
    <3>1. c \in 48..57 /\ v = c - 48
      BY <2>1 DEF gdb_get_digit
    <3> QED
      BY <3>1, ValueOfDigit DEF gdb_get_val
  <2>2. CASE c = gdb_get_digit(v) /\ ~(v < 10)
    <3>1. c \in 97..102 /\ v = c - 87
      BY <2>2 DEF gdb_get_digit
    <3> QED
      BY <3>1, ValueOfDigit DEF gdb_get_val
  <2>3. CASE c = v + 55 /\ v > 9
    <3>1. c \in 65..70 /\ v = c - 55
      BY <2>3
    <3> QED
      BY <3>1, ValueOfDigit DEF gdb_get_val
  <2> QED
    BY <1>2, <2>1, <2>2, <2>3
<1>3. Digit(c) <=> IsDigit(c)
  BY <1>1, <1>2 DEF Digit
<1>4. ASSUME IsDigit(c) PROVE Worth(c) = gdb_get_val(c)
  <2> DEFINE of(v) == c = gdb_get_digit(v) \/ (c = v + 55 /\ v > 9)
  <2>1. Worth(c) = CHOOSE v \in 0..15 : of(v)
    BY DEF Worth
  <2>2. \E v \in 0..15 : of(v)
    BY <1>1, <1>4
  <2>3. \A v \in 0..15 : of(v) => v = gdb_get_val(c)
    BY <1>2
  <2> HIDE DEF of
  <2>4. Worth(c) \in 0..15 /\ of(Worth(c))
    BY <2>1, <2>2
  <2> QED
    BY <2>3, <2>4
<1> QED
  BY <1>3, <1>4

LEMMA AskedIs ==
  ASSUME TypedInv
  PROVE  /\ pkt_len \in Nat /\ asked \in Seq(Bytes) /\ Len(asked) = pkt_len
         /\ \A i \in 1..pkt_len : asked[i] = At(i)
<1>1. pkt_len \in Nat /\ pkt_len < BufSize /\ pkt_buf \in [1..BufSize -> Bytes]
  BY SizesAre DEF TypedInv, TypeOK
<1>2. \A i \in 1..pkt_len : i \in 1..BufSize
  BY <1>1, SizesAre
<1>3. \A i \in 1..pkt_len : pkt_buf[i] \in Bytes
  BY <1>1, <1>2
<1>4. /\ SubSeq(pkt_buf, 1, pkt_len) \in Seq(Bytes)
      /\ Len(SubSeq(pkt_buf, 1, pkt_len)) = IF 1 <= pkt_len THEN pkt_len - 1 + 1 ELSE 0
      /\ \A i \in 1..(pkt_len - 1 + 1) : SubSeq(pkt_buf, 1, pkt_len)[i] = pkt_buf[1 + i - 1]
  BY <1>1, <1>3, SubSeqProperties
<1>5. asked \in Seq(Bytes) /\ Len(asked) = pkt_len
  BY <1>1, <1>4 DEF asked
<1>6. ASSUME NEW i \in 1..pkt_len PROVE asked[i] = At(i)
  <2>1. asked[i] = pkt_buf[i]
    BY <1>1, <1>4 DEF asked
  <2> QED
    BY <1>2, <2>1 DEF At
<1> QED
  BY <1>1, <1>5, <1>6

IsPart(i, j, s) ==
  /\ s \in Seq(Bytes) /\ s # <<>> /\ Len(s) = j - i + 1
  /\ \A k \in 1..(j - i + 1) : s[k] = At(i + k - 1)
  /\ i < j => Tail(s) = Part(i + 1, j)
  /\ i + 1 < j => SubSeq(s, 3, Len(s)) = Part(i + 2, j)

LEMMA PartIs ==
  ASSUME TypedInv, NEW i \in Nat \ {0}, NEW j \in Nat, i <= j, j <= pkt_len
  PROVE  IsPart(i, j, Part(i, j))
<1> DEFINE t == asked
           s == Part(i, j)
<1>1. pkt_len \in Nat /\ t \in Seq(Bytes) /\ Len(t) = pkt_len /\ \A k \in 1..pkt_len : t[k] = At(k)
  BY AskedIs
<1>2. s = SubSeq(t, i, j)
  BY DEF Part
<1> HIDE DEF s, t
<1>3. i \in 1..Len(t) /\ j \in i..Len(t)
  BY <1>1
<1>4. \A k \in i..j : t[k] \in Bytes
  BY <1>1, <1>3
<1>5. /\ SubSeq(t, i, j) \in Seq(Bytes)
      /\ Len(SubSeq(t, i, j)) = IF i <= j THEN j - i + 1 ELSE 0
      /\ \A k \in 1..(j - i + 1) : SubSeq(t, i, j)[k] = t[i + k - 1]
  BY <1>4, SubSeqProperties
<1>6. s \in Seq(Bytes) /\ Len(s) = j - i + 1 /\ \A k \in 1..(j - i + 1) : s[k] = t[i + k - 1]
  BY <1>2, <1>5
<1>7. ASSUME NEW k \in 1..(j - i + 1) PROVE s[k] = At(i + k - 1)
  <2>1. i + k - 1 \in 1..pkt_len
    BY <1>1
  <2> QED
    BY <1>1, <1>6, <2>1
<1>8. s # <<>>
  BY <1>6
<1>9. Tail(s) = SubSeq(t, i + 1, j)
  BY <1>1, <1>2, <1>3, HeadTailOfSubSeq
<1>10. ASSUME i + 1 < j PROVE SubSeq(s, 3, Len(s)) = SubSeq(t, i + 2, j)
  <2> DEFINE n == Len(s)
  <2>1. n = j - i + 1 /\ 3 \in 1..(j - i + 1) /\ n \in 1..(j - i + 1) /\ j \in 1..Len(t)
    BY <1>3, <1>6, <1>10
  <2> HIDE DEF n
  <2>2. SubSeq(SubSeq(t, i, j), 3, n) = SubSeq(t, i + 3 - 1, i + n - 1)
    BY <1>1, <1>3, <2>1, SubSeqOfSubSeq
  <2>3. i + 3 - 1 = i + 2 /\ i + n - 1 = j
    BY <2>1
  <2> QED
    BY <1>2, <2>2, <2>3 DEF n
<1> QED
  BY <1>6, <1>7, <1>8, <1>9, <1>10 DEF Part, t, s, IsPart

\* The amount a row of digits stands for, one digit after the other.
HasAmount(s, n) ==
  \E sum \in [0..n -> Nat] :
    /\ Amount(s) = sum[n]
    /\ \A k \in 0..n : sum[k] = IF k = 0 THEN 0 ELSE sum[k - 1] * 16 + Worth(s[k])

LEMMA AmountIs ==
  ASSUME NEW s \in Seq(Bytes), Unsigned(s), NEW n \in Nat, n = Len(s)
  PROVE  HasAmount(s, n)
<1> DEFINE more(v, k) == v * 16 + Worth(s[k])
           step(v, k) == IF k \in 1..n THEN more(v, k) ELSE 0
           next == [x \in Nat \X Nat |-> step(x[1], x[2])]
           steps(f) == [k \in 0..n |-> IF k = 0 THEN 0 ELSE more(f[k - 1], k)]
           sum == CHOOSE f : f = steps(f)
<1>1. \A k \in 1..n : Worth(s[k]) \in 0..15
  <2> SUFFICES ASSUME NEW k \in 1..n PROVE Worth(s[k]) \in 0..15
    OBVIOUS
  <2>1. k \in DOMAIN s
    OBVIOUS
  <2>2. Digit(s[k])
    BY <2>1 DEF Unsigned
  <2>3. IsDigit(s[k]) /\ Worth(s[k]) = gdb_get_val(s[k])
    BY <2>2, DigitTells
  <2> QED
    BY <2>3, ValueOfDigit
<1>2. \A v \in Nat : \A k \in 1..n : more(v, k) \in Nat
  <2> SUFFICES ASSUME NEW v \in Nat, NEW k \in 1..n PROVE more(v, k) \in Nat
    OBVIOUS
  <2> DEFINE w == Worth(s[k])
  <2>1. w \in 0..15
    BY <1>1
  <2> HIDE DEF w
  <2>2. v * 16 + w \in Nat
    BY <2>1
  <2> QED
    BY <2>2 DEF w
<1> HIDE DEF more
<1>3. next \in [Nat \X Nat -> Nat]
  BY <1>2
<1>4. PICK f \in [0..n -> Nat] : f = [k \in 0..n |-> IF k = 0 THEN 0 ELSE next[f[k - 1], k]]
  <2>1. HasRecursion(Nat, n, 0, next)
    <3> HIDE DEF next
    <3> QED
      BY <1>3, Recursion
  <2> HIDE DEF next
  <2> QED
    BY <2>1 DEF HasRecursion
<1>5. f = steps(f)
  <2>1. ASSUME NEW k \in 0..n, k # 0 PROVE next[f[k - 1], k] = more(f[k - 1], k)
    <3>1. k - 1 \in 0..n /\ k \in Nat /\ k \in 1..n
      BY <2>1
    <3>2. f[k - 1] \in Nat
      BY <3>1
    <3> QED
      BY <3>1, <3>2
  <2> HIDE DEF next
  <2> QED
    BY <1>4, <2>1
<1>6. sum = steps(sum)
  <2> HIDE DEF steps
  <2> QED
    BY <1>5
<1>7. Amount(s) = sum[n]
  BY DEF Amount, more
<1> HIDE DEF sum
<1>8. sum = [k \in 0..n |-> IF k = 0 THEN 0 ELSE more(sum[k - 1], k)]
  BY <1>6
<1>9. \A k \in 0..n : sum[k] = IF k = 0 THEN 0 ELSE more(sum[k - 1], k)
  BY <1>8
<1>10. \A k \in 0..n : sum[k] \in Nat
  <2> DEFINE T == {k \in Nat : k <= n => sum[k] \in Nat}
  <2>1. 0 \in T
    BY <1>9
  <2>2. ASSUME NEW k \in Nat, k \in T PROVE k + 1 \in T
    <3> SUFFICES ASSUME k + 1 <= n PROVE sum[k + 1] \in Nat
      OBVIOUS
    <3>1. k + 1 \in 0..n /\ k + 1 # 0 /\ k + 1 - 1 = k /\ k <= n /\ k + 1 \in 1..n
      OBVIOUS
    <3>2. sum[k + 1] = more(sum[k], k + 1)
      BY <1>9, <3>1
    <3>3. sum[k] \in Nat
      BY <2>2, <3>1
    <3> QED
      BY <1>2, <3>1, <3>2, <3>3
  <2> HIDE DEF T
  <2>3. Nat \subseteq T
    BY <2>1, <2>2, AllNat
  <2> QED
    BY <2>3 DEF T
<1>11. sum \in [0..n -> Nat]
  BY <1>8, <1>10
<1> QED
  BY <1>7, <1>9, <1>11 DEF more, HasAmount

\* Digits of the packet: the parser's word is their amount, wrapped.
LEMMA DigitsAre ==
  ASSUME TypedInv, NEW i \in Nat \ {0}, NEW j \in Nat, i <= j, j <= pkt_len,
         \A k \in i..j : IsDigit(At(k)), NEW s, s = Part(i, j)
  PROVE  /\ Unsigned(s) /\ Amount(s) \in Nat
         /\ DigitsValue(i, j - i + 1) = Amount(s) % Modulus
<1> DEFINE n == j - i + 1
<1>1. s \in Seq(Bytes) /\ s # <<>> /\ Len(s) = n /\ \A k \in 1..n : s[k] = At(i + k - 1)
  <2>1. IsPart(i, j, s)
    BY PartIs
  <2> QED
    BY <2>1 DEF IsPart
<1>2. n \in Nat
  OBVIOUS
<1>3. \A k \in 1..n : IsDigit(s[k])
  <2> SUFFICES ASSUME NEW k \in 1..n PROVE IsDigit(s[k])
    OBVIOUS
  <2>1. i + k - 1 \in i..j
    OBVIOUS
  <2> QED
    BY <1>1, <2>1
<1> HIDE DEF n
<1>4. Unsigned(s)
  BY <1>1, <1>3, DigitTells DEF Unsigned
<1>5. PICK sum \in [0..n -> Nat] :
        /\ Amount(s) = sum[n]
        /\ \A k \in 0..n : sum[k] = IF k = 0 THEN 0 ELSE sum[k - 1] * 16 + Worth(s[k])
  <2>1. HasAmount(s, n)
    BY <1>1, <1>2, <1>4, AmountIs
  <2> QED
    BY <2>1 DEF HasAmount
<1>6. PICK value \in [0..n -> 0..(Modulus - 1)] :
        /\ DigitsValue(i, n) = value[n]
        /\ \A k \in 0..n : value[k] = IF k = 0 THEN 0 ELSE
                               (value[k - 1] * 16 + gdb_get_val(At(i + k - 1))) % Modulus
  <2>1. HasValue(i, n)
    BY <1>2, DigitsValueIs DEF TypedInv
  <2> QED
    BY <2>1 DEF HasValue
<1> DEFINE T == {k \in Nat : k <= n => value[k] = sum[k] % Modulus}
<1>7. 0 \in T
  <2>1. 0 \in 0..n /\ 0 \in 0..(Modulus - 1)
    BY <1>2, SizesAre
  <2>2. value[0] = 0 /\ sum[0] = 0
    BY <1>5, <1>6, <2>1
  <2> QED
    BY <2>1, <2>2, WordOf
<1>8. ASSUME NEW k \in Nat, k \in T PROVE k + 1 \in T
  <2> SUFFICES ASSUME k + 1 <= n PROVE value[k + 1] = sum[k + 1] % Modulus
    OBVIOUS
  <2>1. k + 1 \in 0..n /\ k + 1 # 0 /\ k + 1 - 1 = k /\ k <= n /\ k + 1 \in 1..n /\ k \in 0..n
    BY <1>2
  <2> DEFINE d == gdb_get_val(At(i + (k + 1) - 1))
             a == sum[k]
             b == sum[k + 1]
             v == value[k]
             w == value[k + 1]
  <2>2. d \in Int /\ Worth(s[k + 1]) = d
    <3>1. s[k + 1] = At(i + (k + 1) - 1) /\ IsDigit(s[k + 1])
      BY <1>1, <1>3, <2>1
    <3> QED
      BY <3>1, DigitTells, ValueOfDigit
  <2>3. a \in Nat /\ b = a * 16 + Worth(s[k + 1])
    BY <1>5, <2>1
  <2>4. w = (v * 16 + d) % Modulus
    BY <1>6, <2>1
  <2>5. v = a % Modulus
    BY <1>8, <2>1
  <2> HIDE DEF d, a, b, v, w
  <2>6. ((a % Modulus) * 16 + d) % Modulus = (a * 16 + d) % Modulus
    BY <2>2, <2>3, WordOf
  <2>7. w = b % Modulus
    BY <2>2, <2>3, <2>4, <2>5, <2>6
  <2> QED
    BY <2>7 DEF w, b
<1> HIDE DEF T
<1>9. n \in T
  BY <1>2, <1>7, <1>8, AllNat
<1>10. DigitsValue(i, n) = Amount(s) % Modulus
  BY <1>5, <1>6, <1>9 DEF T
<1>11. Amount(s) \in Nat
  BY <1>2, <1>5
<1> QED
  BY <1>4, <1>10, <1>11 DEF n

\* A number that ends within the packet is the one its characters stand for.
LEMMA FieldIs ==
  ASSUME TypedInv, NEW ptr \in Nat \ {0}, NEW n, n = Integer(ptr), n.next # 0, n.next <= pkt_len + 1
  PROVE  /\ n.next \in Nat /\ ptr < n.next
         /\ Number(Part(ptr, n.next - 1)) /\ n.value = Value(Part(ptr, n.next - 1))
<1> DEFINE len   == Remaining(ptr)
           p     == AfterSign(ptr)
           first == AfterPrefix(ptr, len)
           next  == DigitsEnd(first, ptr + len)
           value == DigitsValue(first, next - first)
           word  == (IF At(ptr) = Minus THEN -value ELSE value) % Modulus
           j     == next - 1
           s     == Part(ptr, j)
           body  == IF s[1] \in {Plus, Minus} THEN Tail(s) ELSE s
<1>1. ~(len < 1 \/ next = first) /\ n = [next |-> next, value |-> word]
  BY DEF Integer, gdb_strtol
<1>2. pkt_len \in Nat /\ len \in Int
  <2>1. pkt_len \in Nat
    BY AskedIs
  <2> QED
    BY <2>1, SizesAre DEF Remaining
<1>3. /\ p \in Nat \ {0}
      /\ p = IF At(ptr) \in {Plus, Minus} THEN ptr + 1 ELSE ptr
      /\ first = p \/ (first = p + 2 /\ At(p) = 48 /\ At(p + 1) \in X)
  BY DEF AfterPrefix, AfterSign
<1>4. first \in Nat \ {0}
  BY <1>3
<1> HIDE DEF len, p, first
<1>5. /\ next \in first..(first + BufSize)
      /\ \A i \in first..(next - 1) : i < ptr + len /\ IsDigit(At(i))
  <2> DEFINE stop == ptr + len
  <2>1. stop \in Int /\ next = DigitsEnd(first, stop)
    BY <1>2
  <2> HIDE DEF stop, next
  <2>2. /\ next \in first..(first + BufSize)
        /\ \A i \in first..(next - 1) : i < stop /\ IsDigit(At(i))
    BY <1>4, <2>1, DigitsEndIs
  <2> QED
    BY <2>2 DEF stop
<1> HIDE DEF next
<1>6. next \in Nat /\ first < next /\ next <= pkt_len + 1 /\ p <= first /\ ptr <= p
  BY <1>1, <1>3, <1>4, <1>5, SizesAre
<1>7. j \in Nat /\ ptr <= j /\ p <= j /\ first <= j /\ j <= pkt_len /\ next - first = j - first + 1
  BY <1>2, <1>3, <1>4, <1>6
<1>8. \A i \in first..j : IsDigit(At(i))
  BY <1>5
<1> HIDE DEF j
<1>9. /\ s \in Seq(Bytes) /\ s # <<>> /\ s[1] = At(ptr)
      /\ ptr < j => Tail(s) = Part(ptr + 1, j)
  <2>1. /\ s \in Seq(Bytes) /\ s # <<>> /\ \A k \in 1..(j - ptr + 1) : s[k] = At(ptr + k - 1)
        /\ ptr < j => Tail(s) = Part(ptr + 1, j)
    <3>1. IsPart(ptr, j, s)
      BY <1>7, PartIs
    <3> QED
      BY <3>1 DEF IsPart
  <2>2. 1 \in 1..(j - ptr + 1) /\ ptr + 1 - 1 = ptr
    BY <1>7
  <2> HIDE DEF s
  <2> QED
    BY <2>1, <2>2
<1>10. body = Part(p, j)
  <2>1. CASE At(ptr) \in {Plus, Minus}
    <3>1. p = ptr + 1 /\ ptr < j
      BY <1>3, <1>7, <2>1
    <3> QED
      BY <1>9, <2>1, <3>1
  <2>2. CASE At(ptr) \notin {Plus, Minus}
    BY <1>3, <1>9, <2>2
  <2> QED
    BY <2>1, <2>2
<1>11. Bare(Part(p, j)) = Part(first, j)
  <2> DEFINE b == Part(p, j)
  <2>1. /\ b \in Seq(Bytes) /\ b # <<>> /\ Len(b) = j - p + 1
        /\ \A k \in 1..(j - p + 1) : b[k] = At(p + k - 1)
        /\ p + 1 < j => SubSeq(b, 3, Len(b)) = Part(p + 2, j)
    <3>1. IsPart(p, j, b)
      BY <1>3, <1>7, PartIs
    <3> QED
      BY <3>1 DEF IsPart
  <2>2. Bare(b) = IF Len(b) > 2 /\ b[1] = 48 /\ b[2] \in X THEN SubSeq(b, 3, Len(b)) ELSE b
    BY DEF Bare
  <2>3. first = p => b = Part(first, j)
    OBVIOUS
  <2> HIDE DEF b
  <2>4. CASE first = p + 2
    <3>1. j - p + 1 > 2 /\ p + 1 < j /\ 1 \in 1..(j - p + 1) /\ 2 \in 1..(j - p + 1)
      BY <1>3, <1>7, <2>4
    <3>2. b[1] = At(p) /\ b[2] = At(p + 1)
      BY <1>3, <2>1, <3>1
    <3>3. At(p) = 48 /\ At(p + 1) \in X
      BY <1>3, <2>4
    <3> QED
      BY <2>1, <2>2, <2>4, <3>1, <3>2, <3>3 DEF b
  <2>5. CASE first = p
    <3>1. ASSUME Len(b) > 2 PROVE b[2] \notin X
      <4>1. p + 1 \in first..j /\ 2 \in 1..(j - p + 1) /\ p + 2 - 1 = p + 1
        BY <1>3, <1>7, <2>1, <2>5, <3>1
      <4>2. b[2] = At(p + 1) /\ IsDigit(At(p + 1))
        BY <1>8, <2>1, <4>1
      <4> QED
        BY <4>2, ValueOfDigit DEF X
    <3> QED
      BY <2>2, <2>3, <2>5, <3>1 DEF b
  <2> QED
    BY <1>3, <2>4, <2>5 DEF b
<1> DEFINE bare == Part(first, j)
<1>12. Unsigned(bare) /\ Amount(bare) \in Nat /\ value = Amount(bare) % Modulus
  BY <1>4, <1>7, <1>8, DigitsAre
<1> HIDE DEF s, value
<1>13. Number(s)
  BY <1>9, <1>10, <1>11, <1>12 DEF Number
<1>14. Value(s) = (IF At(ptr) = Minus THEN -Amount(bare) ELSE Amount(bare)) % Modulus
  <2>1. CASE At(ptr) = Minus
    <3>1. Tail(s) = Part(p, j)
      BY <1>9, <1>10, <2>1
    <3> QED
      BY <1>9, <1>11, <2>1, <3>1 DEF Value
  <2>2. CASE At(ptr) # Minus
    <3>1. (IF s[1] = Plus THEN Tail(s) ELSE s) = Part(p, j)
      BY <1>9, <1>10, <2>2
    <3> QED
      BY <1>9, <1>11, <2>2, <3>1 DEF Value
  <2> QED
    BY <2>1, <2>2
<1> DEFINE a == Amount(bare)
<1>15. word = Value(s)
  <2>1. a \in Int /\ value = a % Modulus
    BY <1>12
  <2> HIDE DEF a
  <2>2. (a % Modulus) % Modulus = a % Modulus /\ (-(a % Modulus)) % Modulus = (-a) % Modulus
    BY <2>1, WordOf
  <2> QED
    BY <1>14, <2>1, <2>2 DEF a
<1> HIDE DEF word
<1>16. n.next = next /\ n.value = word
  BY <1>1
<1> QED
  BY <1>3, <1>6, <1>13, <1>15, <1>16 DEF j, s

-----------------------------------------------------------------------------
(* A packet changes what its own characters name.                          *)

LEMMA Located ==
  ASSUME NEW i, At(i) # 0
  PROVE  i \in 1..BufSize
BY DEF At

\* A length that wrapped is longer than any data.
LEMMA RemainingIs ==
  ASSUME TypedInv, NEW ptr \in 1..(BufSize + 1)
  PROVE  /\ ptr - 1 <= pkt_len => Remaining(ptr) = pkt_len - (ptr - 1)
         /\ ptr - 1 > pkt_len => Remaining(ptr) > BufSize
<1> DEFINE x == pkt_len - (ptr - 1)
<1>1. pkt_len \in Nat /\ pkt_len < BufSize /\ ptr \in Nat
  BY AskedIs, SizesAre DEF TypedInv
<1>2. x \in Int /\ Remaining(ptr) = x % Modulus
  BY <1>1 DEF Remaining
<1>3. ASSUME ptr - 1 <= pkt_len PROVE Remaining(ptr) = x
  <2>1. x \in 0..(Modulus - 1)
    BY <1>1, <1>3, SizesAre
  <2> HIDE DEF x
  <2> QED
    BY <1>2, <2>1, WordOf
<1>4. ASSUME ptr - 1 > pkt_len PROVE Remaining(ptr) > BufSize
  <2>1. x \in (-Modulus)..-1 /\ x + Modulus > BufSize
    BY <1>1, <1>4, SizesAre
  <2> HIDE DEF x
  <2> QED
    BY <1>2, <2>1, WordOf
<1> QED
  BY <1>3, <1>4

\* A number of the packet that nothing goes on with is read as that number.
LEMMA NumberEnds ==
  ASSUME TypedInv, NEW ptr \in Nat \ {0}, NEW j \in Nat, ptr <= j, j <= pkt_len,
         Number(Part(ptr, j)), j < pkt_len => ~Digit(At(j + 1)) /\ At(j + 1) \notin X,
         NEW n, n = Integer(ptr)
  PROVE  n.next = j + 1 /\ n.value = Value(Part(ptr, j))
<1> DEFINE len   == Remaining(ptr)
           p     == AfterSign(ptr)
           first == AfterPrefix(ptr, len)
           next  == DigitsEnd(first, ptr + len)
           s     == Part(ptr, j)
           body  == IF s[1] \in {Plus, Minus} THEN Tail(s) ELSE s
<1>1. pkt_len \in Nat /\ pkt_len < BufSize
  BY AskedIs DEF TypedInv
<1>2. len = pkt_len - (ptr - 1) /\ len \in Nat /\ len >= 1 /\ ptr + len = pkt_len + 1
  <2>1. ptr \in 1..(BufSize + 1) /\ ptr - 1 <= pkt_len
    BY <1>1, SizesAre
  <2> HIDE DEF len
  <2>2. len = pkt_len - (ptr - 1)
    BY <2>1, RemainingIs DEF len
  <2> QED
    BY <1>1, <2>2
<1>3. p = IF At(ptr) \in {Plus, Minus} THEN ptr + 1 ELSE ptr
  BY DEF AfterSign
<1>4. first = IF p - ptr + 2 < len /\ At(p) = 48 /\ At(p + 1) \in X THEN p + 2 ELSE p
  BY DEF AfterPrefix
<1>5. n = IF len < 1 \/ next = first THEN [next |-> 0, value |-> 0]
          ELSE [next |-> next,
                value |-> (IF At(ptr) = Minus THEN -DigitsValue(first, next - first)
                           ELSE DigitsValue(first, next - first)) % Modulus]
  BY DEF Integer, gdb_strtol
<1> HIDE DEF len, p, first
<1>6. /\ s \in Seq(Bytes) /\ s # <<>> /\ s[1] = At(ptr)
      /\ Len(s) = j - ptr + 1
      /\ ptr < j => Tail(s) = Part(ptr + 1, j)
  <2>1. /\ s \in Seq(Bytes) /\ s # <<>> /\ \A k \in 1..(j - ptr + 1) : s[k] = At(ptr + k - 1)
        /\ Len(s) = j - ptr + 1
        /\ ptr < j => Tail(s) = Part(ptr + 1, j)
    <3>1. IsPart(ptr, j, s)
      BY PartIs
    <3> QED
      BY <3>1 DEF IsPart
  <2>2. 1 \in 1..(j - ptr + 1) /\ ptr + 1 - 1 = ptr
    OBVIOUS
  <2> HIDE DEF s
  <2> QED
    BY <2>1, <2>2
<1>7. Unsigned(Bare(body))
  <2>1. Number(s)
    OBVIOUS
  <2> QED
    BY <2>1 DEF Number
<1> HIDE DEF s
<1>8. p <= j /\ p \in Nat \ {0} /\ ptr <= p /\ body = Part(p, j)
  <2>1. CASE At(ptr) \in {Plus, Minus} /\ ptr < j
    BY <1>3, <1>6, <2>1
  <2>2. CASE At(ptr) \in {Plus, Minus} /\ ~(ptr < j)
    <3>1. Len(s) = 1
      BY <1>6, <2>2
    <3>2. body = Tail(s) /\ Tail(s) = <<>>
      BY <1>6, <2>2, <3>1
    <3>3. Bare(<<>>) = <<>>
      BY DEF Bare
    <3> QED
      BY <1>7, <3>2, <3>3 DEF Unsigned
  <2>3. CASE At(ptr) \notin {Plus, Minus}
    BY <1>3, <1>6, <2>3 DEF s
  <2> QED
    BY <2>1, <2>2, <2>3
<1> HIDE DEF body
<1>9. /\ body \in Seq(Bytes) /\ Len(body) = j - p + 1
      /\ \A k \in 1..(j - p + 1) : body[k] = At(p + k - 1)
      /\ p + 1 < j => SubSeq(body, 3, Len(body)) = Part(p + 2, j)
  <2>1. IsPart(p, j, body)
    BY <1>8, PartIs
  <2> QED
    BY <2>1 DEF IsPart
<1>10. /\ body[1] = At(p)
       /\ p < j => body[2] = At(p + 1)
  <2>1. /\ 1 \in 1..(j - p + 1) /\ p + 1 - 1 = p /\ p + 2 - 1 = p + 1
        /\ p < j => 2 \in 1..(j - p + 1)
    BY <1>8
  <2> QED
    BY <1>9, <2>1
<1>11. Bare(body) = IF p + 1 < j /\ At(p) = 48 /\ At(p + 1) \in X THEN Part(p + 2, j) ELSE body
  <2>1. Len(body) > 2 <=> p + 1 < j
    BY <1>8, <1>9
  <2>2. p + 1 < j => p < j
    BY <1>8
  <2> QED
    BY <1>9, <1>10, <2>1, <2>2 DEF Bare
<1>12. p < j /\ ~(p + 1 < j) /\ At(p) = 48 => At(p + 1) \notin X
  <2> SUFFICES ASSUME p < j, ~(p + 1 < j) PROVE At(p + 1) \notin X
    OBVIOUS
  <2>1. Bare(body) = body
    BY <1>11
  <2>2. 2 \in DOMAIN body
    BY <1>8, <1>9
  <2>3. Digit(body[2])
    BY <1>7, <2>1, <2>2 DEF Unsigned
  <2>4. IsDigit(At(p + 1))
    BY <1>10, <2>3, DigitTells
  <2> QED
    BY <2>4, ValueOfDigit DEF X
<1>13. p = j /\ At(p + 1) \in X => ~(p - ptr + 2 < len)
  <2> SUFFICES ASSUME p = j, At(p + 1) \in X PROVE ~(p - ptr + 2 < len)
    OBVIOUS
  <2>1. ~(j < pkt_len)
    OBVIOUS
  <2> QED
    BY <1>1, <1>2, <2>1
<1>14. p + 1 < j => p - ptr + 2 < len
  BY <1>1, <1>2, <1>8
<1>15. first = IF p + 1 < j /\ At(p) = 48 /\ At(p + 1) \in X THEN p + 2 ELSE p
  BY <1>4, <1>8, <1>12, <1>13, <1>14
<1>16. first \in Nat \ {0} /\ first <= j /\ Bare(body) = Part(first, j)
  <2>1. CASE p + 1 < j /\ At(p) = 48 /\ At(p + 1) \in X
    <3>1. first = p + 2 /\ Bare(body) = Part(p + 2, j)
      BY <1>11, <1>15, <2>1
    <3>2. p + 2 \in Nat \ {0} /\ p + 2 <= j
      BY <1>8, <2>1
    <3> QED
      BY <3>1, <3>2
  <2>2. CASE ~(p + 1 < j /\ At(p) = 48 /\ At(p + 1) \in X)
    <3>1. first = p /\ Bare(body) = body
      BY <1>11, <1>15, <2>2
    <3> QED
      BY <1>8, <3>1
  <2> QED
    BY <2>1, <2>2
<1>17. \A i \in first..j : IsDigit(At(i))
  <2> DEFINE b == Part(first, j)
  <2>1. /\ b \in Seq(Bytes) /\ Len(b) = j - first + 1
        /\ \A k \in 1..(j - first + 1) : b[k] = At(first + k - 1)
    <3>1. IsPart(first, j, b)
      BY <1>16, PartIs
    <3> QED
      BY <3>1 DEF IsPart
  <2>2. \A k \in DOMAIN b : Digit(b[k])
    BY <1>7, <1>16 DEF Unsigned
  <2> HIDE DEF b
  <2> SUFFICES ASSUME NEW i \in first..j PROVE IsDigit(At(i))
    OBVIOUS
  <2> DEFINE k == i - first + 1
  <2>3. k \in 1..(j - first + 1) /\ first + k - 1 = i
    BY <1>16
  <2> HIDE DEF k
  <2>4. b[k] = At(i) /\ k \in DOMAIN b
    BY <2>1, <2>3
  <2> QED
    BY <2>2, <2>4, DigitTells
<1>18. /\ next \in first..(first + BufSize)
       /\ ~(next < pkt_len + 1 /\ IsDigit(At(next)))
       /\ \A i \in first..(next - 1) : i < pkt_len + 1 /\ IsDigit(At(i))
  <2> DEFINE stop == ptr + len
  <2>1. stop = pkt_len + 1 /\ stop \in Int /\ next = DigitsEnd(first, stop)
    BY <1>1, <1>2
  <2> HIDE DEF stop, next
  <2>2. /\ next \in first..(first + BufSize) /\ ~(next < stop /\ IsDigit(At(next)))
        /\ \A i \in first..(next - 1) : i < stop /\ IsDigit(At(i))
    BY <1>16, <2>1, DigitsEndIs
  <2> QED
    BY <2>1, <2>2
<1> HIDE DEF next
<1>19. next = j + 1
  <2>1. next \in Int
    BY <1>16, <1>18, SizesAre
  <2>2. ASSUME next < j + 1 PROVE FALSE
    <3>1. next \in first..j /\ next < pkt_len + 1
      BY <1>1, <1>16, <1>18, <2>1, <2>2, SizesAre
    <3> QED
      BY <1>17, <1>18, <3>1
  <2>3. ASSUME next > j + 1 PROVE FALSE
    <3>1. j + 1 \in first..(next - 1)
      BY <1>16, <2>1, <2>3
    <3>2. j + 1 < pkt_len + 1 /\ IsDigit(At(j + 1))
      BY <1>18, <3>1
    <3>3. j < pkt_len
      BY <1>1, <3>2
    <3> QED
      BY <3>2, <3>3, DigitTells
  <2> QED
    BY <2>1, <2>2, <2>3
<1>20. n.next = j + 1
  BY <1>2, <1>5, <1>16, <1>19
<1>21. n.next # 0 /\ n.next <= pkt_len + 1 /\ n.next - 1 = j
  BY <1>1, <1>20
<1>22. n.value = Value(Part(ptr, n.next - 1))
  BY <1>21, FieldIs
<1> QED
  BY <1>20, <1>21, <1>22

LEMMA HexFitsIs ==
  ASSUME TypedInv, NEW ptr \in 1..(BufSize + 1), NEW n \in Nat, 2 * n <= BufSize, HexFits(ptr, n)
  PROVE  ptr - 1 <= pkt_len /\ pkt_len - (ptr - 1) = 2 * n
<1>1. Remaining(ptr) = 2 * n
  BY DEF HexFits
<1>2. pkt_len \in Nat /\ BufSize \in Nat
  BY AskedIs, SizesAre
<1>3. ~(Remaining(ptr) > BufSize)
  BY <1>1, <1>2
<1> QED
  BY <1>1, <1>2, <1>3, RemainingIs

\* The characters of the byte that begins o characters behind the first.
Wide(ptr, o) == IF At(ptr + o) = Escape THEN 2 ELSE 1

\* The k-th byte of a binary field is at most 2k characters behind the first.
HasOffset(ptr, n) ==
  \E offset \in [0..n -> Nat] :
    /\ Offset(ptr, n) = offset[n]
    /\ \A k \in 0..n : /\ offset[k] <= 2 * k
                        /\ offset[k] = IF k = 0 THEN 0
                                       ELSE offset[k - 1] + Wide(ptr, offset[k - 1])

LEMMA OffsetsAre ==
  ASSUME NEW ptr \in Nat, NEW n \in Nat
  PROVE  HasOffset(ptr, n)
<1> DEFINE wide(o) == Wide(ptr, o)
           next == [x \in Nat \X Nat |-> x[1] + wide(x[1])]
           steps(f) == [k \in 0..n |-> IF k = 0 THEN 0 ELSE f[k - 1] + wide(f[k - 1])]
           offset == CHOOSE f : f = steps(f)
<1>1. \A o \in Nat : wide(o) \in {1, 2}
  BY DEF Wide
<1> HIDE DEF wide
<1>2. next \in [Nat \X Nat -> Nat]
  BY <1>1
<1>3. PICK f \in [0..n -> Nat] : f = [k \in 0..n |-> IF k = 0 THEN 0 ELSE next[f[k - 1], k]]
  <2>1. HasRecursion(Nat, n, 0, next)
    <3> HIDE DEF next
    <3> QED
      BY <1>2, Recursion
  <2> HIDE DEF next
  <2> QED
    BY <2>1 DEF HasRecursion
<1>4. f = steps(f)
  <2>1. ASSUME NEW k \in 0..n, k # 0 PROVE next[f[k - 1], k] = f[k - 1] + wide(f[k - 1])
    <3>1. k - 1 \in 0..n /\ k \in Nat
      BY <2>1
    <3>2. f[k - 1] \in Nat
      BY <3>1
    <3> QED
      BY <3>1, <3>2
  <2> HIDE DEF next
  <2> QED
    BY <1>3, <2>1
<1>5. offset = steps(offset)
  <2> HIDE DEF steps
  <2> QED
    BY <1>4
<1>6. Offset(ptr, n) = offset[n]
  BY DEF Offset, wide, Wide
<1> HIDE DEF offset
<1>7. offset = [k \in 0..n |-> IF k = 0 THEN 0 ELSE offset[k - 1] + wide(offset[k - 1])]
  BY <1>5
<1>8. \A k \in 0..n : offset[k] = IF k = 0 THEN 0 ELSE offset[k - 1] + wide(offset[k - 1])
  BY <1>7
<1> DEFINE T == {k \in Nat : k <= n => offset[k] \in Nat /\ offset[k] <= 2 * k}
<1>9. 0 \in T
  BY <1>8
<1>10. ASSUME NEW k \in Nat, k \in T PROVE k + 1 \in T
  <2> SUFFICES ASSUME k + 1 <= n PROVE offset[k + 1] \in Nat /\ offset[k + 1] <= 2 * (k + 1)
    OBVIOUS
  <2> DEFINE o == offset[k]
             w == wide(o)
             p == offset[k + 1]
  <2>1. k + 1 \in 0..n /\ k + 1 # 0 /\ k + 1 - 1 = k /\ k <= n
    OBVIOUS
  <2>2. p = o + w
    BY <1>8, <2>1
  <2>3. o \in Nat /\ o <= 2 * k
    BY <1>10, <2>1
  <2> HIDE DEF o, p
  <2>4. w \in {1, 2}
    BY <1>1, <2>3
  <2> HIDE DEF w
  <2>5. p \in Nat /\ p <= 2 * (k + 1)
    BY <2>2, <2>3, <2>4
  <2> QED
    BY <2>5 DEF p
<1> HIDE DEF T
<1>11. \A k \in 0..n : offset[k] \in Nat /\ offset[k] <= 2 * k
  <2>1. Nat \subseteq T
    BY <1>9, <1>10, AllNat
  <2> QED
    BY <2>1 DEF T
<1>12. offset \in [0..n -> Nat]
  BY <1>7, <1>11
<1> QED
  BY <1>6, <1>8, <1>11, <1>12 DEF wide, HasOffset

LEMMA OffsetIs ==
  ASSUME NEW ptr \in Nat, NEW n \in Nat
  PROVE  Offset(ptr, n) \in Nat /\ Offset(ptr, n) <= 2 * n
<1>1. PICK offset \in [0..n -> Nat] :
        Offset(ptr, n) = offset[n] /\ \A k \in 0..n : offset[k] <= 2 * k
  BY OffsetsAre DEF HasOffset
<1> QED
  BY <1>1

\* The next byte stands behind the characters of this one.
LEMMA OffsetSteps ==
  ASSUME NEW ptr \in Nat
  PROVE  /\ Offset(ptr, 0) = 0
         /\ \A n \in Nat : Offset(ptr, n + 1) = Offset(ptr, n) + Wide(ptr, Offset(ptr, n))
<1>1. Offset(ptr, 0) = 0
  <2>1. HasOffset(ptr, 0)
    BY OffsetsAre
  <2> QED
    BY <2>1 DEF HasOffset
<1>2. ASSUME NEW n \in Nat
      PROVE  Offset(ptr, n + 1) = Offset(ptr, n) + Wide(ptr, Offset(ptr, n))
  <2> DEFINE m == n + 1
  <2>1. m \in Nat /\ n \in 0..m /\ m \in 0..m /\ m # 0 /\ m - 1 = n
    OBVIOUS
  <2> HIDE DEF m
  <2>2. PICK f \in [0..n -> Nat] :
          /\ Offset(ptr, n) = f[n]
          /\ \A k \in 0..n : f[k] = IF k = 0 THEN 0 ELSE f[k - 1] + Wide(ptr, f[k - 1])
    <3>1. HasOffset(ptr, n)
      BY OffsetsAre
    <3> QED
      BY <3>1 DEF HasOffset
  <2>3. PICK g \in [0..m -> Nat] :
          /\ Offset(ptr, m) = g[m]
          /\ \A k \in 0..m : g[k] = IF k = 0 THEN 0 ELSE g[k - 1] + Wide(ptr, g[k - 1])
    <3>1. HasOffset(ptr, m)
      BY <2>1, OffsetsAre
    <3> QED
      BY <3>1 DEF HasOffset
  <2> DEFINE T == {k \in Nat : k <= n => f[k] = g[k]}
  <2>4. 0 \in T
    <3>1. 0 \in 0..n /\ 0 \in 0..m
      BY <2>1
    <3> QED
      BY <2>2, <2>3, <3>1
  <2>5. ASSUME NEW k \in Nat, k \in T PROVE k + 1 \in T
    <3> SUFFICES ASSUME k + 1 <= n PROVE f[k + 1] = g[k + 1]
      OBVIOUS
    <3>1. k + 1 \in 0..n /\ k + 1 \in 0..m /\ k + 1 # 0 /\ k + 1 - 1 = k /\ k <= n
      BY <2>1
    <3>2. f[k] = g[k]
      BY <2>5, <3>1
    <3> QED
      BY <2>2, <2>3, <3>1, <3>2
  <2> HIDE DEF T
  <2>6. n \in T
    BY <2>4, <2>5, AllNat
  <2>7. f[n] = g[n]
    BY <2>6 DEF T
  <2>8. g[m] = g[n] + Wide(ptr, g[n])
    BY <2>1, <2>3
  <2> QED
    BY <2>2, <2>3, <2>7, <2>8 DEF m
<1> QED
  BY <1>1, <1>2

LEMMA BinFitsIs ==
  ASSUME TypedInv, NEW ptr \in 1..(BufSize + 1), NEW n \in Nat, 2 * n <= BufSize,
         Len(DecodedBin(ptr, Remaining(ptr), n)) <= n
  PROVE  ptr - 1 <= pkt_len
<1> DEFINE len == Remaining(ptr)
           d   == DecodedBin(ptr, len, n)
<1>1. ptr \in Nat /\ pkt_len \in Nat /\ BufSize \in Nat /\ Modulus \in Nat
  BY AskedIs, SizesAre
<1>2. len \in Int
  BY <1>1, SizesAre DEF Remaining
<1>3. Len(d) <= n
  OBVIOUS
<1>4. d = DecodedBin(ptr, len, n)
  OBVIOUS
<1>5. ptr - 1 > pkt_len => len > BufSize
  BY RemainingIs
<1> HIDE DEF len, d
<1>6. PICK c \in 0..n : ~(Offset(ptr, c) < len)
  BY <1>1, <1>2, <1>3, <1>4, DecodedBinIs DEF TypedInv
<1>7. c \in Nat /\ c <= n
  OBVIOUS
<1>8. Offset(ptr, c) \in Nat /\ Offset(ptr, c) <= 2 * c
  BY <1>1, <1>7, OffsetIs
<1>9. ~(len > BufSize)
  BY <1>1, <1>2, <1>6, <1>7, <1>8
<1> QED
  BY <1>1, <1>5, <1>9

LEMMA SeparatedIs ==
  ASSUME TypedInv, NEW n, n.next \in Nat, NEW c \in {Comma, Colon, Equals},
         NEW ptr, ptr = Separator(n, c), ptr # 0
  PROVE  ptr \in 2..(BufSize + 1) /\ n.next = ptr - 1 /\ At(ptr - 1) = c
<1>1. n.next # 0 /\ At(n.next) = c /\ ptr = n.next + 1
  BY SeparatorIs
<1>2. c # 0
  BY DEF Comma, Colon, Equals
<1>3. n.next \in 1..BufSize
  BY <1>1, <1>2, Located
<1> QED
  BY <1>1, <1>3, SizesAre

\* The three fields of a write that end within the packet.
LEMMA WriteIs ==
  ASSUME TypedInv,
         NEW addr, addr = Integer(2), NEW length, length = Integer(Separator(addr, Comma)),
         NEW ptr, ptr = Separator(length, Colon), ptr # 0, ptr - 1 <= pkt_len
  PROVE  \E w \in Writes : /\ Start(w) = addr.value /\ Count(w) = length.value
                          /\ w.e = ptr - 1
<1> DEFINE q == Separator(addr, Comma)
           c == addr.next
           e == length.next
           w == [c |-> c, e |-> e]
<1>1. addr.next \in Nat /\ length.next \in Nat
  BY FieldsAre DEF TypedInv
<1>2. ptr \in 2..(BufSize + 1) /\ e = ptr - 1 /\ At(e) = Colon
  BY <1>1, SeparatedIs
<1>3. q # 0
  BY <1>2 DEF Integer
<1>4. q \in 2..(BufSize + 1) /\ c = q - 1 /\ At(c) = Comma
  <2> HIDE DEF q
  <2>1. q = Separator(addr, Comma)
    BY DEF q
  <2> QED
    BY <1>1, <1>3, <2>1, SeparatedIs
<1>5. e # 0 /\ e <= pkt_len /\ e <= pkt_len + 1
  <2>1. pkt_len \in Nat
    BY AskedIs
  <2> QED
    BY <1>2, <2>1
<1>6. /\ q < e
      /\ Number(Part(q, e - 1)) /\ length.value = Value(Part(q, e - 1))
  <2>1. q \in Nat \ {0} /\ length = Integer(q)
    BY <1>4, SizesAre
  <2> HIDE DEF q
  <2> QED
    BY <1>5, <2>1, FieldIs
<1>7. pkt_len \in Nat /\ asked \in Seq(Bytes) /\ Len(asked) = pkt_len
      /\ \A i \in 1..pkt_len : asked[i] = At(i)
  BY AskedIs
<1> HIDE DEF q
<1>8. c # 0 /\ c <= pkt_len /\ c <= pkt_len + 1 /\ q = c + 1
  BY <1>1, <1>4, <1>5, <1>6, <1>7
<1>9. Number(Part(2, c - 1)) /\ addr.value = Value(Part(2, c - 1))
  BY <1>8, FieldIs
<1>10. c \in 1..pkt_len /\ e \in 1..pkt_len
  BY <1>1, <1>5, <1>7, <1>8
<1>11. asked[c] = Comma /\ asked[e] = Colon /\ DOMAIN asked = 1..pkt_len
  BY <1>2, <1>4, <1>7, <1>10
<1> HIDE DEF c, e
<1>12. w \in [c : DOMAIN asked, e : DOMAIN asked] /\ w.c = c /\ w.e = e
  BY <1>10, <1>11
<1> HIDE DEF w
<1>13. w \in Writes
  BY <1>6, <1>8, <1>9, <1>11, <1>12 DEF Writes
<1>14. Start(w) = addr.value /\ Count(w) = length.value /\ w.e = ptr - 1
  BY <1>2, <1>6, <1>8, <1>9, <1>12 DEF Start, Count
<1> QED
  BY <1>13, <1>14

\* Only bytes that are let through change, and they are those of the data.
LEMMA WriteBytesChanges ==
  ASSUME NEW addr \in Int, NEW bytes \in Seq(Bytes), NEW n \in Nat, n = Len(bytes),
         WriteBytes(addr, bytes), NEW a \in Cells, mem'[a] # mem[a]
  PROVE  a - addr \in 0..(n - 1) /\ ~Refused(a)
<1> DEFINE written == {k \in DOMAIN bytes : \A j \in 1..k : ~Refused(addr + j - 1)}
           k == a - addr + 1
<1>1. mem' = [x \in Cells |-> IF x - addr + 1 \in written THEN bytes[x - addr + 1] ELSE mem[x]]
  BY DEF WriteBytes
<1>2. k \in written
  <2> HIDE DEF written
  <2> QED
    BY <1>1
<1>3. a \in Int
  BY GdbPacketAssumption, SizesAre DEF GdbPacketAssumption
<1>4. k \in 1..n /\ \A j \in 1..k : ~Refused(addr + j - 1)
  BY <1>2
<1>5. k \in 1..k /\ addr + k - 1 = a
  BY <1>3, <1>4
<1>6. ~Refused(a)
  BY <1>4, <1>5
<1> QED
  BY <1>3, <1>4, <1>6

\* The characters of the packet behind i, when there are n of them and they are
\* digits two by two.
LEMMA HexDataIs ==
  ASSUME TypedInv, NEW ptr \in Nat \ {0}, NEW n \in Nat \ {0}, pkt_len - (ptr - 1) = 2 * n,
         Len(DecodedHex(ptr, n)) = n
  PROVE  IsHexOf(Data(ptr - 1), n)
<1> DEFINE d   == Data(ptr - 1)
           got == DecodedHex(ptr, n)
<1>1. pkt_len \in Nat /\ Len(asked) = pkt_len
  BY AskedIs
<1>2. d = Part(ptr, pkt_len)
  BY <1>1 DEF Data
<1>3. IsPart(ptr, pkt_len, d)
  BY <1>1, <1>2, PartIs
<1>4. \A k \in 1..n : IsDigit(At(ptr + 2*k - 2)) /\ IsDigit(At(ptr + 2*k - 1))
  <2>1. IsDecoded(ptr, n, got) /\ Len(got) = n
    BY DecodedHexIs
  <2> HIDE DEF got
  <2> QED
    BY <2>1 DEF IsDecoded
<1> HIDE DEF d, got
<1>5. d \in Seq(Bytes) /\ Len(d) = 2 * n /\ \A i \in 1..(2 * n) : d[i] = At(ptr + i - 1)
  BY <1>1, <1>3 DEF IsPart
<1>6. ASSUME NEW i \in 1..(2 * n) PROVE Digit(d[i])
  <2> DEFINE k == (i + 1) \div 2
             at == At(ptr + i - 1)
  <2>1. k \in 1..n /\ (ptr + i - 1 = ptr + 2*k - 2 \/ ptr + i - 1 = ptr + 2*k - 1)
    OBVIOUS
  <2> HIDE DEF k
  <2>2. IsDigit(at)
    BY <1>4, <2>1
  <2>3. d[i] = at
    BY <1>5
  <2> QED
    BY <2>2, <2>3, DigitTells
<1> QED
  BY <1>5, <1>6 DEF IsHexOf, d

\* The packet of a command that is served is not empty, and its letter is its own.
LEMMA LetterIs ==
  ASSUME TypedInv, NEW c, Letter(c)
  PROVE  state = "serve" /\ asked[1] = c
<1>1. state = "serve" /\ pkt_buf[1] = c
  BY DEF Letter
<1>2. pkt_len \in Nat /\ pkt_len >= 1 /\ 1 \in 1..BufSize
  BY <1>1, AskedIs, SizesAre DEF TypedInv
<1>3. asked[1] = At(1)
  BY <1>2, AskedIs
<1> QED
  BY <1>1, <1>2, <1>3 DEF At

LEMMA FailChangesNothing == Fail => mem' = mem /\ regs' = regs
BY DEF Fail

WriteIsAsked == /\ mem' # mem \/ regs' # regs => Served
                /\ MemoryAsAsked /\ RegistersAsAsked

LEMMA UnchangedAsAsked ==
  ASSUME mem' = mem, regs' = regs
  PROVE  WriteIsAsked
BY DEF WriteIsAsked, MemoryAsAsked, RegistersAsAsked

LEMMA WriteMemoryAsAsked ==
  ASSUME TypedInv, WriteMemory
  PROVE  WriteIsAsked
<1> DEFINE addr   == Integer(2)
           length == Integer(Separator(addr, Comma))
           ptr    == Separator(length, Colon)
           n      == length.value
           start  == addr.value
           bytes  == DecodedHex(ptr, n)
           refused == \/ ptr = 0 \/ ~DataFits(n) \/ ~HexFits(ptr, n)
                      \/ Len(bytes) < n
<1>1. CASE refused
  <2>1. Fail
    BY <1>1 DEF WriteMemory
  <2> QED
    BY <2>1, FailChangesNothing, UnchangedAsAsked
<1>2. CASE ~refused
  <2>1. WriteBytes(start, bytes) /\ Answered /\ Letter(77)
    BY <1>2 DEF WriteMemory
  <2>2. /\ start \in 0..(Modulus - 1) /\ n \in 0..(Modulus - 1) /\ ptr \in Nat
        /\ length.next \in Nat
    BY FieldsAre DEF TypedInv
  <2>3. n \in Nat /\ start \in Int /\ n <= DataMax /\ 2 * n <= BufSize
    <3>1. n <= DataMax
      BY <1>2 DEF DataFits
    <3> HIDE DEF n, start
    <3> QED
      BY <2>2, <3>1, SizesAre
  <2>4. ptr \in 2..(BufSize + 1)
    <3>1. ptr # 0 /\ ptr = Separator(length, Colon)
      BY <1>2
    <3> HIDE DEF ptr, length
    <3> QED
      BY <2>2, <3>1, SeparatedIs
  <2>5. ptr - 1 <= pkt_len /\ pkt_len - (ptr - 1) = 2 * n
    <3>1. HexFits(ptr, n)
      BY <1>2
    <3> HIDE DEF ptr, n
    <3>2. ptr \in 1..(BufSize + 1)
      BY <2>4
    <3> QED
      BY <2>3, <3>1, <3>2, HexFitsIs
  <2>6. PICK w \in Writes : Start(w) = start /\ Count(w) = n /\ w.e = ptr - 1
    <3>1. ptr # 0
      BY <1>2
    <3>2. addr = Integer(2) /\ length = Integer(Separator(addr, Comma))
          /\ ptr = Separator(length, Colon)
      OBVIOUS
    <3> HIDE DEF addr, length, ptr
    <3> QED
      BY <2>5, <3>1, <3>2, WriteIs
  <2>7. bytes \in Seq(Bytes) /\ Len(bytes) = n
    <3>1. ~(Len(bytes) < n)
      BY <1>2
    <3>2. IsDecoded(ptr, n, bytes)
      <4> HIDE DEF ptr, n
      <4> QED
        BY <2>2, <2>3, DecodedHexIs
    <3> HIDE DEF ptr, n, bytes
    <3> QED
      BY <2>3, <3>1, <3>2 DEF IsDecoded
  <2>8. n # 0 => IsHexOf(Data(w.e), n)
    <3>1. bytes = DecodedHex(ptr, n)
      OBVIOUS
    <3> HIDE DEF ptr, n, bytes
    <3>2. ptr \in Nat \ {0}
      BY <2>4
    <3> QED
      BY <2>3, <2>5, <2>6, <2>7, <3>1, <3>2, HexDataIs
  <2> HIDE DEF start, n, ptr, bytes
  <2>9. state = "serve" /\ asked[1] = 77 /\ state' = "wait" /\ regs' = regs
    BY <2>1, LetterIs DEF Answered, WriteBytes
  <2>10. ASSUME NEW a \in Cells, mem'[a] # mem[a]
         PROVE  a - start \in 0..(n - 1) /\ ~Refused(a) /\ n # 0
    <3>1. a - start \in 0..(n - 1) /\ ~Refused(a)
      BY <2>1, <2>3, <2>7, <2>10, WriteBytesChanges
    <3> QED
      BY <2>3, <3>1
  <2> QED
    BY <2>3, <2>6, <2>8, <2>9, <2>10 DEF WriteIsAsked, MemoryAsAsked, RegistersAsAsked, Served
<1> QED
  BY <1>1, <1>2

LEMMA WriteBinaryAsAsked ==
  ASSUME TypedInv, WriteBinary
  PROVE  WriteIsAsked
<1> DEFINE addr   == Integer(2)
           length == Integer(Separator(addr, Comma))
           ptr    == Separator(length, Colon)
           n      == length.value
           start  == addr.value
           len    == Remaining(ptr)
           got    == DecodedBin(ptr, len, n)
           bytes(u) == [k \in 1..n |-> IF k <= Len(got) THEN got[k] ELSE u]
           refused == ptr = 0 \/ ~DataFits(n) \/ Len(got) > n
<1>1. CASE refused
  <2>1. Fail
    BY <1>1 DEF WriteBinary
  <2> QED
    BY <2>1, FailChangesNothing, UnchangedAsAsked
<1>2. CASE ~refused
  <2>1. (\E u \in Unset : WriteBytes(start, bytes(u))) /\ Answered /\ Letter(88)
    BY <1>2 DEF WriteBinary
  <2>2. /\ start \in 0..(Modulus - 1) /\ n \in 0..(Modulus - 1) /\ ptr \in Nat
        /\ length.next \in Nat
    BY FieldsAre DEF TypedInv
  <2>3. n \in Nat /\ start \in Int /\ n <= DataMax /\ 2 * n <= BufSize
    <3>1. n <= DataMax
      BY <1>2 DEF DataFits
    <3> HIDE DEF n, start
    <3> QED
      BY <2>2, <3>1, SizesAre
  <2>4. ptr \in 2..(BufSize + 1)
    <3>1. ptr # 0 /\ ptr = Separator(length, Colon)
      BY <1>2
    <3> HIDE DEF ptr, length
    <3> QED
      BY <2>2, <3>1, SeparatedIs
  <2>5. got \in Seq(Bytes) /\ Len(got) <= n
    <3>1. ~(Len(got) > n) /\ got = DecodedBin(ptr, len, n)
      BY <1>2
    <3>2. len \in Int
      <4> HIDE DEF ptr
      <4> QED
        BY <2>2, AskedIs, SizesAre DEF Remaining
    <3> HIDE DEF ptr, n, len, got
    <3>3. got \in Seq(Bytes)
      BY <2>2, <2>3, <3>1, <3>2, DecodedBinIs DEF TypedInv
    <3> QED
      BY <2>3, <3>1, <3>3
  <2>6. ptr - 1 <= pkt_len
    <3>1. Len(DecodedBin(ptr, Remaining(ptr), n)) <= n
      BY <2>5
    <3> HIDE DEF ptr, n
    <3>2. ptr \in 1..(BufSize + 1)
      BY <2>4
    <3> QED
      BY <2>3, <3>1, <3>2, BinFitsIs
  <2>7. PICK w \in Writes : Start(w) = start /\ Count(w) = n /\ w.e = ptr - 1
    <3>1. ptr # 0
      BY <1>2
    <3>2. addr = Integer(2) /\ length = Integer(Separator(addr, Comma))
          /\ ptr = Separator(length, Colon)
      OBVIOUS
    <3> HIDE DEF addr, length, ptr
    <3> QED
      BY <2>6, <3>1, <3>2, WriteIs
  <2> HIDE DEF start, n, ptr, len, got
  <2>8. ASSUME NEW u \in Unset PROVE bytes(u) \in Seq(Bytes) /\ Len(bytes(u)) = n
    <3>1. \A k \in 1..n : k <= Len(got) => got[k] \in Bytes
      BY <2>3, <2>5
    <3>2. u \in Bytes
      BY GdbPacketAssumption DEF GdbPacketAssumption
    <3>3. bytes(u) \in [1..n -> Bytes]
      BY <3>1, <3>2
    <3> QED
      BY <2>3, <3>3
  <2>9. PICK u \in Unset : WriteBytes(start, bytes(u))
    BY <2>1
  <2> HIDE DEF bytes
  <2>10. state = "serve" /\ asked[1] = 88 /\ state' = "wait" /\ regs' = regs
    BY <2>1, <2>9, LetterIs DEF Answered, WriteBytes
  <2>11. ASSUME NEW a \in Cells, mem'[a] # mem[a]
         PROVE  a - start \in 0..(n - 1) /\ ~Refused(a)
    BY <2>3, <2>8, <2>9, <2>11, WriteBytesChanges
  <2> QED
    BY <2>3, <2>7, <2>10, <2>11 DEF WriteIsAsked, MemoryAsAsked, RegistersAsAsked, Served
<1> QED
  BY <1>1, <1>2

LEMMA WriteRegistersAsAsked ==
  ASSUME TypedInv, WriteRegisters
  PROVE  WriteIsAsked
<1>1. CASE ~HexFits(2, RegNum)
  <2>1. Fail
    BY <1>1 DEF WriteRegisters
  <2> QED
    BY <2>1, FailChangesNothing, UnchangedAsAsked
<1>2. CASE HexFits(2, RegNum)
  <2>1. mem' = mem /\ Answered /\ Letter(71)
    BY <1>2 DEF WriteRegisters
  <2>2. pkt_len - (2 - 1) = 2 * RegNum
    <3>1. 2 \in 1..(BufSize + 1) /\ RegNum \in Nat /\ 2 * RegNum <= BufSize
      BY SizesAre
    <3> QED
      BY <1>2, <3>1, HexFitsIs
  <2>3. Len(asked) = 1 + 2 * RegNum
    BY <2>2, AskedIs, SizesAre
  <2>4. state = "serve" /\ asked[1] = 71 /\ state' = "wait"
    BY <2>1, LetterIs DEF Answered
  <2> QED
    BY <2>1, <2>3, <2>4 DEF WriteIsAsked, MemoryAsAsked, RegistersAsAsked, Served
<1> QED
  BY <1>1, <1>2

LEMMA WriteRegisterAsAsked ==
  ASSUME TypedInv, WriteRegister
  PROVE  WriteIsAsked
<1> DEFINE n == Integer(2)
           ptr == Separator(n, Equals)
           e == n.next
           refused == ptr = 0 \/ n.value >= RegNum \/ ~HexFits(ptr, 1)
<1>1. CASE refused
  <2>1. Fail
    BY <1>1 DEF WriteRegister
  <2> QED
    BY <2>1, FailChangesNothing, UnchangedAsAsked
<1>2. CASE ~refused
  <2> DEFINE new == InPlace(<<regs[n.value]>>, ptr, 1)
  <2>1. regs' = [regs EXCEPT ![n.value] = new[1]] /\ mem' = mem /\ Answered /\ Letter(80)
    BY <1>2 DEF WriteRegister
  <2>2. e \in Nat
    BY NumberIs DEF TypedInv
  <2>3. ptr \in 2..(BufSize + 1) /\ e = ptr - 1 /\ At(e) = Equals
    <3>1. ptr # 0 /\ ptr = Separator(n, Equals)
      BY <1>2
    <3> HIDE DEF ptr, n
    <3> QED
      BY <2>2, <3>1, SeparatedIs
  <2>4. ptr - 1 <= pkt_len /\ pkt_len - (ptr - 1) = 2 * 1
    <3>1. HexFits(ptr, 1)
      BY <1>2
    <3> HIDE DEF ptr
    <3>2. ptr \in 1..(BufSize + 1) /\ 1 \in Nat /\ 2 * 1 <= BufSize
      BY <2>3, SizesAre
    <3> QED
      BY <3>1, <3>2, HexFitsIs
  <2>5. n = Integer(2)
    OBVIOUS
  <2> HIDE DEF n, ptr, new
  <2>6. e <= pkt_len /\ e <= pkt_len + 1 /\ e # 0 /\ pkt_len = e + 2
    BY <2>2, <2>3, <2>4, AskedIs
  <2>7. 2 < e /\ Number(Part(2, e - 1)) /\ n.value = Value(Part(2, e - 1))
    BY <2>5, <2>6, FieldIs
  <2>8. e \in DOMAIN asked /\ asked[e] = Equals
    <3>1. e \in 1..pkt_len /\ asked \in Seq(Bytes) /\ Len(asked) = pkt_len
      BY <2>2, <2>6, AskedIs
    <3>2. asked[e] = At(e)
      BY <3>1, AskedIs
    <3> QED
      BY <2>3, <3>1, <3>2
  <2>9. e \in Pokes
    BY <2>7, <2>8 DEF Pokes
  <2>10. Len(Data(e)) = 2
    <3>1. e + 1 \in Nat \ {0} /\ pkt_len \in Nat /\ e + 1 <= pkt_len /\ Len(asked) = pkt_len
      BY <2>2, <2>6, AskedIs
    <3>2. IsPart(e + 1, pkt_len, Part(e + 1, pkt_len))
      BY <3>1, PartIs
    <3>3. pkt_len - (e + 1) + 1 = 2
      BY <2>2, <2>6
    <3> QED
      BY <3>1, <3>2, <3>3 DEF IsPart, Data
  <2>11. \A r \in DOMAIN regs : regs'[r] # regs[r] => r = Value(Part(2, e - 1))
    BY <2>1, <2>7 DEF TypedInv, TypeOK
  <2>12. state = "serve" /\ asked[1] = 80 /\ state' = "wait"
    BY <2>1, LetterIs DEF Answered
  <2> HIDE DEF e
  <2> QED
    BY <2>1, <2>9, <2>10, <2>11, <2>12 DEF WriteIsAsked, MemoryAsAsked, RegistersAsAsked, Served
<1> QED
  BY <1>1, <1>2

LEMMA StepAsAsked == TypedInv /\ [Next]_vars => WriteIsAsked
<1> SUFFICES ASSUME TypedInv, [Next]_vars PROVE WriteIsAsked
  OBVIOUS
<1>1. CASE ReadRegisters \/ ReadRegister \/ ReadMemory \/ LastSignal \/ Unsupported \/ Leave
  <2>1. mem' = mem /\ regs' = regs
    <3>1. CASE ReadRegisters
      BY <3>1 DEF ReadRegisters
    <3>2. CASE ReadRegister
      BY <3>2, FailChangesNothing DEF ReadRegister
    <3>3. CASE ReadMemory
      BY <3>3, FailChangesNothing DEF ReadMemory
    <3>4. CASE LastSignal \/ Unsupported \/ Leave
      BY <3>4 DEF LastSignal, Unsupported, Leave
    <3> QED
      BY <1>1, <3>1, <3>2, <3>3, <3>4
  <2> QED
    BY <2>1, UnchangedAsAsked
<1>2. CASE WriteRegisters \/ WriteRegister \/ WriteMemory \/ WriteBinary
  BY <1>2, WriteRegistersAsAsked, WriteRegisterAsAsked, WriteMemoryAsAsked, WriteBinaryAsAsked
<1>3. CASE GiveUp \/ (\E v \in Vectors : Trap(v)) \/ (\E p \in Packets : Receive(p))
  <2>1. mem' = mem /\ regs' = regs
    BY <1>3 DEF GiveUp, Trap, Receive
  <2> QED
    BY <2>1, UnchangedAsAsked
<1>4. CASE UNCHANGED vars
  BY <1>4, UnchangedAsAsked DEF vars
<1> QED
  BY <1>1, <1>2, <1>3, <1>4 DEF Next, Serve

\* A packet changes memory and registers only where its own characters name
\* them, however the rest of pkt_buf reads and however a length wrapped.
THEOREM WritesCorrect == Spec => WritesAsAsked
<1>1. TypedInv /\ [Next]_vars => [WriteIsAsked]_vars
  BY StepAsAsked
<1>2. Spec => [][WriteIsAsked]_vars
  BY <1>1, TypedInit, TypedStep, PTL DEF Spec
<1> QED
  BY <1>2 DEF WritesAsAsked, WriteIsAsked

-----------------------------------------------------------------------------
(* A well-formed packet is read as it is meant.                            *)

Marks == {Comma, Colon, Equals}

LEMMA MarkIs ==
  ASSUME NEW c \in Marks
  PROVE  c # 0 /\ ~Digit(c) /\ c \notin X
<1>1. c \in {44, 58, 61}
  BY DEF Marks, Comma, Colon, Equals
<1>2. ~IsDigit(c)
  BY <1>1, ValueOfDigit
<1> QED
  BY <1>1, <1>2, DigitTells DEF X

\* There is no number without characters.
LEMMA NumberStarts ==
  ASSUME TypedInv, NEW i \in Int, NEW j \in Int, Number(Part(i, j))
  PROVE  i <= j
<1> SUFFICES ASSUME ~(i <= j) PROVE FALSE
  OBVIOUS
<1> DEFINE t == asked
<1>1. \A k \in i..j : t[k] \in Bytes
  OBVIOUS
<1> HIDE DEF t
<1>2. SubSeq(t, i, j) \in Seq(Bytes) /\ Len(SubSeq(t, i, j)) = IF i <= j THEN j - i + 1 ELSE 0
  BY <1>1, SubSeqProperties
<1>3. Part(i, j) = <<>>
  BY <1>2 DEF t, Part
<1> QED
  BY <1>3 DEF Number

\* A number and the mark behind it.
LEMMA MarkedIs ==
  ASSUME TypedInv, NEW i \in Nat \ {0}, NEW c \in DOMAIN asked, NEW m \in Marks, asked[c] = m,
         Number(Part(i, c - 1)), NEW n, n = Integer(i)
  PROVE  /\ c \in i..pkt_len /\ At(c) = m
         /\ n.next = c /\ n.value = Value(Part(i, c - 1)) /\ Separator(n, m) = c + 1
<1> DEFINE j == c - 1
<1>1. pkt_len \in Nat /\ c \in 1..pkt_len /\ At(c) = m
  <2>1. asked \in Seq(Bytes) /\ Len(asked) = pkt_len /\ \A k \in 1..pkt_len : asked[k] = At(k)
        /\ pkt_len \in Nat
    BY AskedIs
  <2> QED
    BY <2>1
<1>2. i <= j /\ j \in Nat /\ j <= pkt_len /\ j + 1 = c
  <2>1. j \in Int /\ i \in Int
    BY <1>1
  <2>2. Number(Part(i, j))
    OBVIOUS
  <2> HIDE DEF j
  <2>3. i <= j
    BY <2>1, <2>2, NumberStarts
  <2> QED
    BY <1>1, <2>3 DEF j
<1>3. ~Digit(At(j + 1)) /\ At(j + 1) \notin X
  BY <1>1, <1>2, MarkIs
<1>4. Number(Part(i, j))
  OBVIOUS
<1> HIDE DEF j
<1>5. n.next = j + 1 /\ n.value = Value(Part(i, j))
  BY <1>2, <1>3, <1>4, NumberEnds
<1> QED
  BY <1>1, <1>2, <1>5 DEF j, Separator

\* The fields of a well-formed read.
LEMMA ReadIs ==
  ASSUME TypedInv, NEW w \in Reads, NEW addr, addr = Integer(2),
         NEW length, length = Integer(Separator(addr, Comma))
  PROVE  /\ addr.value = Start(w)
         /\ length.next # 0 /\ length.value = Value(Part(w.c + 1, w.e))
<1>1. /\ w.c \in DOMAIN asked /\ w.e \in DOMAIN asked /\ asked[w.c] = Comma
      /\ Number(Part(2, w.c - 1)) /\ Number(Part(w.c + 1, w.e))
      /\ w.e < Len(asked) => ~Digit(asked[w.e + 1]) /\ asked[w.e + 1] \notin X
  BY DEF Reads
<1>2. Comma \in Marks
  BY DEF Marks
<1>3. /\ w.c \in 2..pkt_len
      /\ addr.next = w.c /\ addr.value = Start(w) /\ Separator(addr, Comma) = w.c + 1
  BY <1>1, <1>2, MarkedIs DEF Start
<1> DEFINE q == w.c + 1
           e == w.e
<1>4. /\ pkt_len \in Nat /\ asked \in Seq(Bytes) /\ Len(asked) = pkt_len
      /\ \A k \in 1..pkt_len : asked[k] = At(k)
  BY AskedIs
<1>5. q \in Nat \ {0} /\ e \in Nat /\ e <= pkt_len /\ e \in Int /\ q \in Int
  BY <1>1, <1>3, <1>4
<1>6. e < pkt_len => ~Digit(At(e + 1)) /\ At(e + 1) \notin X
  <2> SUFFICES ASSUME e < pkt_len PROVE ~Digit(At(e + 1)) /\ At(e + 1) \notin X
    OBVIOUS
  <2>1. e + 1 \in 1..pkt_len
    BY <1>4, <1>5
  <2>2. asked[e + 1] = At(e + 1)
    BY <1>4, <2>1
  <2> QED
    BY <1>1, <1>4, <2>2
<1>7. Number(Part(q, e)) /\ length = Integer(q)
  BY <1>1, <1>3
<1> HIDE DEF q, e
<1>8. q <= e
  BY <1>5, <1>7, NumberStarts
<1>9. length.next = e + 1 /\ length.value = Value(Part(q, e))
  BY <1>5, <1>6, <1>7, <1>8, NumberEnds
<1> QED
  BY <1>3, <1>5, <1>9 DEF q, e

\* The fields of a well-formed write, and what is left behind them.
LEMMA WriteReads ==
  ASSUME TypedInv, NEW w \in Writes, NEW addr, addr = Integer(2),
         NEW length, length = Integer(Separator(addr, Comma)),
         NEW ptr, ptr = Separator(length, Colon)
  PROVE  /\ addr.value = Start(w) /\ length.value = Count(w)
         /\ ptr = w.e + 1 /\ ptr \in 2..(pkt_len + 1) /\ Remaining(ptr) = pkt_len - w.e
<1>1. /\ w.c \in DOMAIN asked /\ w.e \in DOMAIN asked /\ asked[w.c] = Comma /\ asked[w.e] = Colon
      /\ Number(Part(2, w.c - 1)) /\ Number(Part(w.c + 1, w.e - 1))
  BY DEF Writes
<1>2. Comma \in Marks /\ Colon \in Marks
  BY DEF Marks
<1>3. /\ w.c \in 2..pkt_len
      /\ addr.next = w.c /\ addr.value = Start(w) /\ Separator(addr, Comma) = w.c + 1
  BY <1>1, <1>2, MarkedIs DEF Start
<1> DEFINE q == w.c + 1
           e == w.e
<1>4. q \in Nat \ {0} /\ length = Integer(q) /\ Number(Part(q, e - 1)) /\ e \in DOMAIN asked
      /\ asked[e] = Colon
  BY <1>1, <1>3
<1> HIDE DEF q, e
<1>5. e \in q..pkt_len /\ length.next = e /\ length.value = Value(Part(q, e - 1)) /\ ptr = e + 1
  BY <1>2, <1>4, MarkedIs
<1>6. length.value = Count(w)
  BY <1>5 DEF q, e, Count
<1>7. pkt_len \in Nat /\ pkt_len < BufSize
  BY AskedIs DEF TypedInv
<1>8. ptr \in 1..(BufSize + 1) /\ ptr - 1 <= pkt_len /\ ptr - 1 = e /\ ptr \in 2..(pkt_len + 1)
  BY <1>4, <1>5, <1>7, SizesAre
<1>9. Remaining(ptr) = pkt_len - e
  BY <1>8, RemainingIs
<1> QED
  BY <1>3, <1>5, <1>6, <1>8, <1>9 DEF e

LEMMA DataIs ==
  ASSUME TypedInv, NEW e \in Nat, e <= pkt_len, NEW d, d = Data(e)
  PROVE  /\ d \in Seq(Bytes) /\ Len(d) = pkt_len - e
         /\ \A i \in 1..(pkt_len - e) : d[i] = At(e + i)
<1>1. pkt_len \in Nat /\ Len(asked) = pkt_len
  BY AskedIs
<1>2. d = Part(e + 1, pkt_len)
  BY <1>1 DEF Data
<1>3. CASE e < pkt_len
  <2>1. IsPart(e + 1, pkt_len, d)
    BY <1>1, <1>2, <1>3, PartIs
  <2> DEFINE j == pkt_len - (e + 1) + 1
  <2>2. d \in Seq(Bytes) /\ Len(d) = j /\ \A k \in 1..j : d[k] = At(e + 1 + k - 1)
    BY <2>1 DEF IsPart
  <2>3. j = pkt_len - e
    BY <1>1
  <2> HIDE DEF j
  <2>4. \A k \in 1..j : e + 1 + k - 1 = e + k
    OBVIOUS
  <2> QED
    BY <2>2, <2>3, <2>4
<1>4. CASE e = pkt_len
  <2> DEFINE t == asked
             i == e + 1
  <2>1. \A k \in i..pkt_len : t[k] \in Bytes
    BY <1>1, <1>4
  <2>2. i \in Int /\ ~(i <= pkt_len)
    BY <1>1, <1>4
  <2>3. d = SubSeq(t, i, pkt_len)
    BY <1>2 DEF Part
  <2> HIDE DEF t, i
  <2>4. SubSeq(t, i, pkt_len) \in Seq(Bytes)
        /\ Len(SubSeq(t, i, pkt_len)) = IF i <= pkt_len THEN pkt_len - i + 1 ELSE 0
    BY <1>1, <2>1, <2>2, SubSeqProperties
  <2> QED
    BY <1>1, <1>4, <2>2, <2>3, <2>4
<1> QED
  BY <1>1, <1>3, <1>4

\* Hex data is decoded to its end when all of it is digits, to what they say.
LEMMA HexMeans ==
  ASSUME TypedInv, NEW e \in Nat, e <= pkt_len, NEW n \in Nat, pkt_len - e = 2 * n,
         NEW d, d = Data(e), NEW got, got = DecodedHex(e + 1, n)
  PROVE  /\ got \in Seq(Bytes) /\ Len(got) <= n
         /\ Len(got) = n <=> IsHexOf(d, n)
         /\ Len(got) = n => got = HexRead(d)
<1>1. d \in Seq(Bytes) /\ Len(d) = 2 * n /\ \A i \in 1..(2 * n) : d[i] = At(e + i)
  BY DataIs
<1>2. IsDecoded(e + 1, n, got)
  BY DecodedHexIs
<1>3. \A k \in 1..n : /\ 2*k - 1 \in 1..(2 * n) /\ 2*k \in 1..(2 * n)
                      /\ e + 1 + 2*k - 2 = e + (2*k - 1) /\ e + 1 + 2*k - 1 = e + 2*k
  OBVIOUS
<1>4. \A k \in 1..n : At(e + 1 + 2*k - 2) = d[2*k - 1] /\ At(e + 1 + 2*k - 1) = d[2*k]
  BY <1>1, <1>3
<1>5. got \in Seq(Bytes) /\ Len(got) <= n /\ Len(got) \in Nat
  BY <1>2 DEF IsDecoded
<1>6. \A k \in 1..Len(got) : /\ IsDigit(d[2*k - 1]) /\ IsDigit(d[2*k])
                             /\ got[k] = gdb_get_val(d[2*k - 1]) * 16 + gdb_get_val(d[2*k])
  <2>1. \A k \in 1..Len(got) : k \in 1..n
    BY <1>5
  <2> QED
    BY <1>2, <1>4, <2>1 DEF IsDecoded
<1>7. ASSUME Len(got) = n PROVE IsHexOf(d, n)
  <2>1. ASSUME NEW i \in 1..(2 * n) PROVE Digit(d[i])
    <3> DEFINE k == (i + 1) \div 2
    <3>1. k \in 1..n /\ (i = 2*k - 1 \/ i = 2*k)
      OBVIOUS
    <3> HIDE DEF k
    <3>2. IsDigit(d[2*k - 1]) /\ IsDigit(d[2*k])
      BY <1>6, <1>7, <3>1
    <3> QED
      BY <3>1, <3>2, DigitTells
  <2> QED
    BY <1>1, <2>1 DEF IsHexOf
<1>8. ASSUME IsHexOf(d, n) PROVE Len(got) = n
  <2> SUFFICES ASSUME Len(got) < n PROVE FALSE
    BY <1>5
  <2> DEFINE k == Len(got) + 1
  <2>1. k \in 1..n
    BY <1>5
  <2>2. ~(IsDigit(At(e + 1 + 2*k - 2)) /\ IsDigit(At(e + 1 + 2*k - 1)))
    BY <1>2 DEF IsDecoded
  <2> HIDE DEF k
  <2>3. Digit(d[2*k - 1]) /\ Digit(d[2*k])
    <3>1. \A i \in 1..(2 * n) : Digit(d[i])
      BY <1>1, <1>8 DEF IsHexOf
    <3> QED
      BY <1>3, <2>1, <3>1
  <2> QED
    BY <1>4, <2>1, <2>2, <2>3, DigitTells
<1>9. ASSUME Len(got) = n PROVE got = HexRead(d)
  <2>1. \A k \in 1..n : got[k] = Worth(d[2*k - 1]) * 16 + Worth(d[2*k])
    BY <1>6, <1>9, DigitTells
  <2>2. Len(d) \div 2 = n
    BY <1>1
  <2>3. got = [k \in 1..n |-> got[k]]
    BY <1>5, <1>9
  <2> QED
    BY <2>1, <2>2, <2>3 DEF HexRead
<1> QED
  BY <1>5, <1>7, <1>8, <1>9

LEMMA OutcomeTells == OK # Error
<1>1. Len(OK) = 2 /\ Len(Error) = 3
  BY ErrorIs
<1> QED
  BY <1>1

LEMMA FailTells == Fail => reply' = Error
BY DEF Fail, Send

\* A write is answered OK when every byte is let through, and is then in place.
LEMMA WriteBytesAnswers ==
  ASSUME NEW addr \in Int, NEW bytes \in Seq(Bytes), NEW n \in Nat, n = Len(bytes),
         WriteBytes(addr, bytes)
  PROVE  /\ reply' = OK \/ reply' = Error
         /\ reply' = OK <=> \A k \in 1..n : ~Refused(addr + k - 1)
         /\ reply' = OK => \A k \in 1..n : mem'[addr + k - 1] = bytes[k]
<1> DEFINE written == {k \in DOMAIN bytes : \A j \in 1..k : ~Refused(addr + j - 1)}
<1>1. mem' = [x \in Cells |-> IF x - addr + 1 \in written THEN bytes[x - addr + 1] ELSE mem[x]]
      /\ Outcome(written = DOMAIN bytes)
  BY DEF WriteBytes
<1>2. reply' = IF written = DOMAIN bytes THEN OK ELSE Error
  <2> HIDE DEF written
  <2> QED
    BY <1>1 DEF Outcome, Say, Send
<1>3. written = DOMAIN bytes <=> \A k \in 1..n : ~Refused(addr + k - 1)
  <2>1. ASSUME written = DOMAIN bytes, NEW k \in 1..n PROVE ~Refused(addr + k - 1)
    <3>1. k \in DOMAIN bytes /\ k \in 1..k
      OBVIOUS
    <3>2. k \in written
      <4> HIDE DEF written
      <4> QED
        BY <2>1, <3>1
    <3> QED
      BY <3>1, <3>2
  <2>2. ASSUME \A k \in 1..n : ~Refused(addr + k - 1) PROVE written = DOMAIN bytes
    <3>1. \A k \in 1..n : \A j \in 1..k : j \in 1..n
      OBVIOUS
    <3> QED
      BY <2>2, <3>1
  <2> QED
    BY <2>1, <2>2
<1>4. ASSUME written = DOMAIN bytes, NEW k \in 1..n PROVE mem'[addr + k - 1] = bytes[k]
  <2> DEFINE a == addr + k - 1
  <2>1. a \in Int /\ a - addr + 1 = k /\ k \in DOMAIN bytes
    OBVIOUS
  <2>2. ~Refused(a)
    BY <1>3, <1>4
  <2> HIDE DEF a, written
  <2>3. a \in Cells
    <3>1. KernelBegin \in Int /\ KernelEnd \in Int /\ KernelBegin..KernelEnd \subseteq Cells
      BY GdbPacketAssumption DEF GdbPacketAssumption
    <3>2. a \in KernelBegin..KernelEnd
      BY <2>1, <2>2, <3>1 DEF Refused
    <3> QED
      BY <3>1, <3>2
  <2>4. mem'[a] = bytes[k]
    BY <1>1, <1>4, <2>1, <2>3
  <2> QED
    BY <2>4 DEF a
<1> HIDE DEF written
<1> QED
  BY <1>2, <1>3, <1>4, OutcomeTells

LEMMA ReadAnswered ==
  ASSUME TypedInv, ReadMemory, state' = "wait"
  PROVE  ReadAsAsked
<1> DEFINE addr   == Integer(2)
           length == Integer(Separator(addr, Comma))
           from(k) == (addr.value + k - 1) % Modulus
<1> SUFFICES ASSUME NEW w \in Reads
    PROVE  LET count == Value(Part(w.c + 1, w.e))
           IN  reply' = IF count > DataMax THEN Error
                        ELSE Hex([k \in 1..count |-> mem[(Start(w) + k - 1) % Modulus]])
  BY DEF ReadAsAsked
<1> DEFINE count == Value(Part(w.c + 1, w.e))
<1>1. addr.value = Start(w) /\ length.next # 0 /\ length.value = count
  <2>1. addr = Integer(2) /\ length = Integer(Separator(addr, Comma))
    OBVIOUS
  <2> HIDE DEF addr, length
  <2> QED
    BY <2>1, ReadIs
<1>2. count \in 0..(Modulus - 1)
  <2>1. length.value \in 0..(Modulus - 1)
    BY FieldsAre DEF TypedInv
  <2> HIDE DEF length, count
  <2> QED
    BY <1>1, <2>1
<1>3. IF length.next = 0 \/ ~DataFits(length.value) THEN Fail /\ Answered
      ELSE IF \A k \in 1..length.value : from(k) \in Cells
      THEN /\ Send(Hex([k \in 1..length.value |-> mem[from(k)]]))
           /\ UNCHANGED <<mem, regs>> /\ Answered
      ELSE /\ state' = "hung"
           /\ UNCHANGED <<pkt_buf, pkt_len, sig, mem, regs, reply>>
  BY DEF ReadMemory
<1> HIDE DEF length, count
<1>4. CASE count > DataMax
  <2>1. ~DataFits(length.value)
    BY <1>1, <1>2, <1>4, SizesAre DEF DataFits
  <2> QED
    BY <1>3, <1>4, <2>1, FailTells DEF count
<1>5. CASE ~(count > DataMax)
  <2>1. DataFits(length.value)
    BY <1>1, <1>2, <1>5, SizesAre DEF DataFits
  <2>2. Send(Hex([k \in 1..length.value |-> mem[from(k)]]))
    BY <1>1, <1>3, <2>1
  <2>3. reply' = Hex([k \in 1..count |-> mem[(Start(w) + k - 1) % Modulus]])
    BY <1>1, <2>2 DEF Send
  <2> QED
    BY <1>5, <2>3 DEF count
<1> QED
  BY <1>4, <1>5

LEMMA HexAnswered ==
  ASSUME TypedInv, WriteMemory
  PROVE  HexAsAsked
<1> DEFINE addr   == Integer(2)
           length == Integer(Separator(addr, Comma))
           ptr    == Separator(length, Colon)
           n      == length.value
           got    == DecodedHex(ptr, n)
<1> SUFFICES ASSUME NEW w \in Writes
    PROVE  IF IsHexOf(Data(w.e), Count(w)) /\ Count(w) <= DataMax /\ Writable(w)
           THEN reply' = OK /\ Stored(w) = HexRead(Data(w.e))
           ELSE reply' = Error
  BY DEF HexAsAsked
<1> DEFINE e == w.e
           d == Data(e)
           start == Start(w)
<1>1. /\ addr.value = start /\ n = Count(w) /\ ptr = e + 1 /\ ptr \in 2..(pkt_len + 1)
      /\ Remaining(ptr) = pkt_len - e
  <2>1. /\ addr = Integer(2) /\ length = Integer(Separator(addr, Comma))
        /\ ptr = Separator(length, Colon)
    OBVIOUS
  <2> HIDE DEF addr, length, ptr
  <2> QED
    BY <2>1, WriteReads
<1>2. addr.value \in 0..(Modulus - 1) /\ n \in 0..(Modulus - 1)
  BY FieldsAre DEF TypedInv
<1>3. IF ptr = 0 \/ ~DataFits(n) \/ ~HexFits(ptr, n) THEN Fail
      ELSE IF Len(got) < n THEN Fail ELSE WriteBytes(addr.value, got)
  BY DEF WriteMemory
<1>4. got = DecodedHex(ptr, n)
  OBVIOUS
<1>5. e \in DOMAIN asked
  BY DEF Writes
<1>6. pkt_len \in Nat /\ DOMAIN asked = 1..pkt_len
  BY AskedIs
<1>7. d = Data(e)
  OBVIOUS
<1> HIDE DEF addr, length, ptr, n, got, d, e, start
<1>8. n \in Nat /\ start \in Int /\ e \in Nat /\ e <= pkt_len /\ ptr # 0
  BY <1>1, <1>2, <1>5, <1>6, SizesAre
<1>9. DataFits(n) <=> n <= DataMax
  BY DEF DataFits
<1>10. HexFits(ptr, n) <=> pkt_len - e = 2 * n
  BY <1>1 DEF HexFits
<1>11. Len(d) = pkt_len - e
  BY <1>7, <1>8, DataIs
<1>12. Writable(w) <=> \A k \in 1..n : ~Refused(start + k - 1)
  BY <1>1 DEF Writable, start
<1>13. Stored(w) = [k \in 1..n |-> mem'[start + k - 1]]
  BY <1>1 DEF Stored, start
<1>14. CASE ~(n <= DataMax) \/ ~(pkt_len - e = 2 * n)
  <2>1. reply' = Error
    BY <1>3, <1>9, <1>10, <1>14, FailTells
  <2>2. ~(IsHexOf(d, n) /\ n <= DataMax)
    BY <1>11, <1>14 DEF IsHexOf
  <2> QED
    BY <1>1, <2>1, <2>2 DEF d, e
<1>15. CASE n <= DataMax /\ pkt_len - e = 2 * n
  <2>1. /\ got \in Seq(Bytes) /\ Len(got) <= n
        /\ Len(got) = n <=> IsHexOf(d, n)
        /\ Len(got) = n => got = HexRead(d)
    BY <1>1, <1>4, <1>7, <1>8, <1>15, HexMeans
  <2>2. CASE Len(got) < n
    <3>1. reply' = Error
      BY <1>3, <2>2, FailTells, <1>8, <1>9, <1>10, <1>15
    <3>2. ~IsHexOf(d, n)
      BY <2>1, <2>2
    <3> QED
      BY <1>1, <3>1, <3>2 DEF d, e
  <2>3. CASE Len(got) = n
    <3>1. WriteBytes(start, got)
      BY <1>1, <1>3, <1>8, <1>9, <1>10, <1>15, <2>3
    <3>2. /\ reply' = OK \/ reply' = Error
          /\ reply' = OK <=> \A k \in 1..n : ~Refused(start + k - 1)
          /\ reply' = OK => \A k \in 1..n : mem'[start + k - 1] = got[k]
      BY <1>8, <2>1, <2>3, <3>1, WriteBytesAnswers
    <3>3. got = [k \in 1..n |-> got[k]]
      BY <1>8, <2>1, <2>3
    <3>4. reply' = OK => Stored(w) = HexRead(d)
      BY <1>13, <2>1, <2>3, <3>2, <3>3
    <3>5. IsHexOf(d, n) /\ n <= DataMax
      BY <1>15, <2>1, <2>3
    <3> QED
      BY <1>1, <1>12, <3>2, <3>4, <3>5 DEF d, e
  <2> QED
    BY <1>8, <2>1, <2>2, <2>3
<1> QED
  BY <1>14, <1>15

LEMMA PokeAnswered ==
  ASSUME TypedInv, WriteRegister
  PROVE  PokeAsAsked
<1> DEFINE n   == Integer(2)
           ptr == Separator(n, Equals)
           got == DecodedHex(ptr, 1)
<1> SUFFICES ASSUME NEW e \in Pokes
    PROVE  LET r == Value(Part(2, e - 1))
           IN  IF r < RegNum /\ IsHexOf(Data(e), 1)
               THEN reply' = OK /\ <<regs'[r]>> = HexRead(Data(e))
               ELSE reply' = Error
  BY DEF PokeAsAsked
<1> DEFINE r == Value(Part(2, e - 1))
           d == Data(e)
<1>1. e \in DOMAIN asked /\ asked[e] = Equals /\ Number(Part(2, e - 1)) /\ Equals \in Marks
  BY DEF Pokes, Marks
<1>2. n.value = r /\ ptr = e + 1 /\ e \in 2..pkt_len
  <2>1. n = Integer(2)
    OBVIOUS
  <2> HIDE DEF n
  <2> QED
    BY <1>1, <2>1, MarkedIs
<1>3. n.value \in 0..(Modulus - 1)
  BY NumberIs DEF TypedInv
<1>4. IF ptr = 0 \/ n.value >= RegNum \/ ~HexFits(ptr, 1) THEN Fail
      ELSE /\ regs' = [regs EXCEPT ![n.value] = InPlace(<<@>>, ptr, 1)[1]]
           /\ Outcome(Len(got) = 1)
           /\ UNCHANGED mem
  BY DEF WriteRegister
<1>5. got = DecodedHex(ptr, 1) /\ d = Data(e) /\ r = Value(Part(2, e - 1))
  OBVIOUS
<1> HIDE DEF n, ptr, got, r, d
<1>6. pkt_len \in Nat /\ pkt_len < BufSize /\ regs \in [0..(RegNum - 1) -> Bytes]
  BY AskedIs DEF TypedInv, TypeOK
<1>7. e \in Nat /\ e <= pkt_len /\ r \in Nat /\ ptr \in 1..(BufSize + 1) /\ ptr # 0 /\ ptr - 1 = e
  BY <1>2, <1>3, <1>6, SizesAre
<1>8. Remaining(ptr) = pkt_len - e
  BY <1>7, RemainingIs
<1>9. HexFits(ptr, 1) <=> pkt_len - e = 2 * 1
  BY <1>8 DEF HexFits
<1>10. Len(d) = pkt_len - e
  BY <1>5, <1>7, DataIs
<1>11. CASE r >= RegNum \/ ~(pkt_len - e = 2 * 1)
  <2>1. reply' = Error
    BY <1>2, <1>4, <1>9, <1>11, FailTells
  <2>2. ~(r < RegNum /\ IsHexOf(d, 1))
    BY <1>7, <1>10, <1>11, SizesAre DEF IsHexOf
  <2> QED
    BY <1>5, <2>1, <2>2
<1>12. CASE ~(r >= RegNum) /\ pkt_len - e = 2 * 1
  <2>1. /\ got \in Seq(Bytes) /\ Len(got) <= 1
        /\ Len(got) = 1 <=> IsHexOf(d, 1)
        /\ Len(got) = 1 => got = HexRead(d)
    BY <1>2, <1>5, <1>7, <1>12, HexMeans
  <2>2. regs' = [regs EXCEPT ![r] = InPlace(<<@>>, ptr, 1)[1]] /\ Outcome(Len(got) = 1)
    BY <1>2, <1>4, <1>7, <1>9, <1>12
  <2>3. r \in 0..(RegNum - 1) /\ r < RegNum
    BY <1>7, <1>12, SizesAre
  <2>4. regs'[r] = InPlace(<<regs[r]>>, ptr, 1)[1]
    BY <1>6, <2>2, <2>3
  <2>5. CASE Len(got) = 1
    <3>1. InPlace(<<regs[r]>>, ptr, 1)[1] = got[1]
      BY <1>5, <2>5 DEF InPlace
    <3>2. <<regs'[r]>> = got
      BY <2>1, <2>4, <2>5, <3>1
    <3>3. reply' = OK
      BY <2>2, <2>5 DEF Outcome, Say
    <3> QED
      BY <1>5, <2>1, <2>3, <2>5, <3>2, <3>3
  <2>6. CASE Len(got) # 1
    <3>1. reply' = Error
      BY <2>2, <2>6 DEF Outcome, Send
    <3> QED
      BY <1>5, <2>1, <2>6, <3>1
  <2> QED
    BY <2>5, <2>6
<1> QED
  BY <1>11, <1>12

LEMMA FlipTwice ==
  ASSUME NEW c \in Bytes
  PROVE  flip(flip(c)) = c
<1> DEFINE q == c \div 32
           r == c % 32
<1>1. c = q * 32 + r /\ q \in 0..7 /\ r \in 0..31
  BY DEF Bytes
<1>2. \A v \in 0..7 : \A u \in 0..31 : (v * 32 + u) \div 32 = v
  OBVIOUS
<1> DEFINE low == (q - 1) * 32 + r
           high == (q + 1) * 32 + r
<1>3. CASE q % 2 = 1
  <2>1. q - 1 \in 0..7 /\ (q - 1) % 2 = 0
    BY <1>1, <1>3
  <2>2. flip(c) = low
    BY <1>1, <1>3 DEF flip
  <2>3. low \div 32 = q - 1
    BY <1>1, <1>2, <2>1
  <2>4. low + 32 = c
    BY <1>1
  <2> HIDE DEF low, q
  <2> QED
    BY <2>1, <2>2, <2>3, <2>4 DEF flip
<1>4. CASE ~(q % 2 = 1)
  <2>1. q + 1 \in 0..7 /\ (q + 1) % 2 = 1
    BY <1>1, <1>4
  <2>2. flip(c) = high
    BY <1>1, <1>4 DEF flip
  <2>3. high \div 32 = q + 1
    BY <1>1, <1>2, <2>1
  <2>4. high - 32 = c
    BY <1>1
  <2> HIDE DEF high, q
  <2> QED
    BY <2>1, <2>2, <2>3, <2>4 DEF flip
<1> QED
  BY <1>3, <1>4

LEMMA BinaryIs ==
  ASSUME TypedInv, NEW ptr \in Nat, NEW len \in Nat, NEW n \in Nat,
         NEW got, got = DecodedBin(ptr, len, n)
  PROVE  IsBinary(ptr, len, n, got)
<1>1. TypeOK /\ len \in Int
  BY DEF TypedInv
<1>2. got \in Seq(Bytes) /\ IsBinary(ptr, len, n, got)
  BY <1>1, DecodedBinIs
<1> QED
  BY <1>2

\* A binary field that decodes to its end reads as those bytes.
LEMMA BinaryMeans ==
  ASSUME TypedInv, NEW e \in Nat, e <= pkt_len, NEW n \in Nat, NEW d, d = Data(e),
         NEW got, got = DecodedBin(e + 1, pkt_len - e, n), Len(got) <= n,
         NEW bytes, \A k \in 1..Len(got) : bytes[k] = got[k]
  PROVE  \E m \in 0..n : IsBinaryOf(d, bytes, m)
<1> DEFINE len == pkt_len - e
           ptr == e + 1
           off(k) == Offset(ptr, k)
<1>1. len \in Nat /\ ptr \in Nat /\ pkt_len \in Nat
  BY AskedIs
<1>2. d \in Seq(Bytes) /\ Len(d) = len /\ \A i \in 1..len : d[i] = At(e + i)
  BY DataIs
<1>3. IsBinary(ptr, len, n, got)
  <2>1. got = DecodedBin(ptr, len, n)
    OBVIOUS
  <2> HIDE DEF ptr, len
  <2> QED
    BY <1>1, <2>1, BinaryIs
<1>4. \A k \in Nat : off(k) \in Nat /\ off(k + 1) = off(k) + Wide(ptr, off(k))
  BY <1>1, OffsetIs, OffsetSteps
<1>5. off(0) = 0
  BY <1>1, OffsetSteps
<1> HIDE DEF len, off
<1>6. PICK c \in 0..(n + 1) :
        /\ \A k \in 0..(c - 1) : off(k) < len
        /\ c = n + 1 \/ ~(off(c) < len)
        /\ IF c = n + 1 \/ off(c) > len THEN Len(got) = n + 1
           ELSE /\ Len(got) = c
                /\ \A k \in 1..c : got[k] = Unescaped(ptr + off(k - 1))
  BY <1>3 DEF IsBinary, off
<1>7. c # n + 1 /\ ~(off(c) > len)
  BY <1>6
<1>8. c \in 0..n /\ c \in Nat /\ off(c) = len /\ Len(got) = c
      /\ \A k \in 1..c : got[k] = Unescaped(ptr + off(k - 1))
  <2>1. c \in Nat /\ c <= n
    BY <1>6, <1>7
  <2>2. off(c) \in Nat
    BY <1>4, <2>1
  <2>3. ~(off(c) < len)
    BY <1>6, <1>7
  <2>4. off(c) = len
    BY <1>1, <1>7, <2>2, <2>3
  <2> QED
    BY <1>6, <1>7, <2>1, <2>4
<1> DEFINE end == [k \in 0..c |-> off(k)]
<1>9. \A k \in 0..c : off(k) \in 0..len
  <2> SUFFICES ASSUME NEW k \in 0..c PROVE off(k) \in 0..len
    OBVIOUS
  <2>1. c \in Nat
    BY <1>8
  <2>2. k \in Nat /\ (k \in 0..(c - 1) \/ k = c)
    BY <2>1
  <2>3. off(k) \in Nat
    BY <1>4, <2>2
  <2>4. CASE k \in 0..(c - 1)
    <3>1. off(k) < len
      BY <1>6, <2>4
    <3> QED
      BY <1>1, <2>3, <3>1
  <2>5. CASE k = c
    BY <1>1, <1>8, <2>5
  <2> QED
    BY <2>2, <2>4, <2>5
<1>10. end \in [0..c -> 0..Len(d)] /\ end[0] = 0 /\ end[c] = Len(d)
  BY <1>2, <1>5, <1>8, <1>9
<1>11. ASSUME NEW k \in 1..c
       PROVE  \/ end[k] = end[k - 1] + 1 /\ d[end[k]] = bytes[k] /\ bytes[k] # Escape
              \/ end[k] = end[k - 1] + 2 /\ d[end[k] - 1] = Escape /\ d[end[k]] = flip(bytes[k])
  <2> DEFINE j == k - 1
             i == off(j)
             f == off(k)
  <2>1. j \in Nat /\ j \in 0..c /\ k \in 0..c /\ j + 1 = k
    BY <1>8
  <2>2. end[k] = f /\ end[k - 1] = i
    BY <2>1
  <2>3. i \in 0..len /\ f \in 0..len /\ f = i + Wide(ptr, i)
    BY <1>4, <1>9, <2>1
  <2>4. bytes[k] = Unescaped(ptr + i)
    BY <1>8
  <2> HIDE DEF i, f
  <2>5. ptr + i = e + (i + 1) /\ ptr + i + 1 = e + (i + 2)
    BY <2>3
  <2>6. CASE At(ptr + i) = Escape
    <3>1. f = i + 2
      BY <2>3, <2>6 DEF Wide
    <3>2. i + 1 \in 1..len /\ i + 2 \in 1..len
      BY <1>1, <2>3, <3>1
    <3>3. d[i + 1] = Escape /\ d[i + 2] = At(ptr + i + 1)
      BY <1>2, <2>5, <2>6, <3>2
    <3>4. bytes[k] = flip(d[i + 2])
      BY <2>4, <2>6, <3>3 DEF Unescaped
    <3>5. d[i + 2] \in Bytes
      BY <1>2, <3>2
    <3>6. flip(bytes[k]) = d[i + 2]
      BY <3>4, <3>5, FlipTwice
    <3>7. f - 1 = i + 1
      BY <2>3, <3>1
    <3> QED
      BY <2>2, <3>1, <3>3, <3>6, <3>7
  <2>7. CASE At(ptr + i) # Escape
    <3>1. f = i + 1
      BY <2>3, <2>7 DEF Wide
    <3>2. i + 1 \in 1..len
      BY <1>1, <2>3, <3>1
    <3>3. d[i + 1] = At(ptr + i)
      BY <1>2, <2>5, <3>2
    <3>4. bytes[k] = At(ptr + i)
      BY <2>4, <2>7 DEF Unescaped
    <3> QED
      BY <2>2, <2>7, <3>1, <3>3, <3>4
  <2> QED
    BY <2>6, <2>7
<1> HIDE DEF end
<1>12. IsBinaryOf(d, bytes, c)
  BY <1>10, <1>11 DEF IsBinaryOf
<1> QED
  BY <1>8, <1>12

\* A binary field of at most n bytes is decoded to its end.
LEMMA BinaryDecodes ==
  ASSUME TypedInv, NEW e \in Nat, e <= pkt_len, NEW n \in Nat, NEW d, d = Data(e),
         NEW got, got = DecodedBin(e + 1, pkt_len - e, n),
         NEW bytes, NEW m \in 0..n, IsBinaryOf(d, bytes, m)
  PROVE  Len(got) <= n
<1> DEFINE len == pkt_len - e
           ptr == e + 1
           off(k) == Offset(ptr, k)
<1>1. len \in Nat /\ ptr \in Nat /\ pkt_len \in Nat /\ m \in Nat
  BY AskedIs
<1>2. d \in Seq(Bytes) /\ Len(d) = len /\ \A i \in 1..len : d[i] = At(e + i)
  BY DataIs
<1>3. IsBinary(ptr, len, n, got)
  <2>1. got = DecodedBin(ptr, len, n)
    OBVIOUS
  <2> HIDE DEF ptr, len
  <2> QED
    BY <1>1, <2>1, BinaryIs
<1>4. \A k \in Nat : off(k) \in Nat /\ off(k + 1) = off(k) + Wide(ptr, off(k))
  BY <1>1, OffsetIs, OffsetSteps
<1>5. off(0) = 0
  BY <1>1, OffsetSteps
<1> HIDE DEF len, off
<1>6. PICK c \in 0..(n + 1) :
        /\ \A k \in 0..(c - 1) : off(k) < len
        /\ c = n + 1 \/ ~(off(c) < len)
        /\ IF c = n + 1 \/ off(c) > len THEN Len(got) = n + 1
           ELSE /\ Len(got) = c
                /\ \A k \in 1..c : got[k] = Unescaped(ptr + off(k - 1))
  BY <1>3 DEF IsBinary, off
<1>7. PICK end \in [0..m -> 0..Len(d)] :
        /\ end[0] = 0 /\ end[m] = Len(d)
        /\ \A k \in 1..m :
             \/ end[k] = end[k - 1] + 1 /\ d[end[k]] = bytes[k] /\ bytes[k] # Escape
             \/ end[k] = end[k - 1] + 2 /\ d[end[k] - 1] = Escape /\ d[end[k]] = flip(bytes[k])
  BY DEF IsBinaryOf
<1>8. \A k \in 0..m : end[k] \in Nat /\ end[k] <= len
  BY <1>1, <1>2, <1>7
<1> DEFINE T == {k \in Nat : k <= m => off(k) = end[k]}
<1>9. 0 \in T
  BY <1>5, <1>7
<1>10. ASSUME NEW k \in Nat, k \in T PROVE k + 1 \in T
  <2> SUFFICES ASSUME k + 1 <= m PROVE off(k + 1) = end[k + 1]
    OBVIOUS
  <2> DEFINE i == off(k)
             f == end[k + 1]
  <2>1. k + 1 \in 1..m /\ k \in 0..m /\ k + 1 \in 0..m /\ k + 1 - 1 = k /\ k <= m
    BY <1>1
  <2>2. i = end[k] /\ i \in Nat /\ f \in Nat /\ f <= len
    BY <1>4, <1>8, <1>10, <2>1
  <2>3. \/ f = i + 1 /\ d[f] = bytes[k + 1] /\ bytes[k + 1] # Escape
        \/ f = i + 2 /\ d[f - 1] = Escape
    BY <1>7, <2>1, <2>2
  <2>4. off(k + 1) = i + Wide(ptr, i)
    BY <1>4
  <2> HIDE DEF i, f
  <2>5. i + 1 \in 1..len /\ ptr + i = e + (i + 1) /\ f - 1 \in Int
    <3>1. f = i + 1 \/ f = i + 2
      BY <2>3
    <3>2. i + 1 \in 1..len /\ f - 1 \in Int
      BY <1>1, <2>2, <3>1
    <3>3. ptr + i = e + (i + 1)
      BY <2>2
    <3> QED
      BY <3>2, <3>3
  <2>6. d[i + 1] = At(ptr + i)
    BY <1>2, <2>5
  <2>7. CASE f = i + 1 /\ d[f] = bytes[k + 1] /\ bytes[k + 1] # Escape
    <3>1. Wide(ptr, i) = 1
      BY <2>6, <2>7 DEF Wide
    <3> QED
      BY <2>4, <2>7, <3>1 DEF f
  <2>8. CASE f = i + 2 /\ d[f - 1] = Escape
    <3>1. f - 1 = i + 1
      BY <2>2, <2>8
    <3>2. Wide(ptr, i) = 2
      BY <2>6, <2>8, <3>1 DEF Wide
    <3> QED
      BY <2>4, <2>8, <3>2 DEF f
  <2> QED
    BY <2>3, <2>7, <2>8
<1> HIDE DEF T
<1>11. \A k \in 0..m : off(k) = end[k]
  <2>1. Nat \subseteq T
    BY <1>9, <1>10, AllNat
  <2> QED
    BY <1>1, <2>1 DEF T
<1>12. off(m) = len
  BY <1>1, <1>2, <1>7, <1>11
<1>13. c <= m /\ c \in Nat
  <2>1. ASSUME c > m PROVE FALSE
    <3>1. m \in 0..(c - 1)
      BY <1>1, <2>1
    <3>2. off(m) < len
      BY <1>6, <3>1
    <3> QED
      BY <1>1, <1>12, <3>2
  <2> QED
    BY <1>1, <2>1
<1>14. c # n + 1 /\ c <= n
  BY <1>1, <1>13
<1>15. ~(off(c) > len)
  <2>1. c \in 0..m
    BY <1>1, <1>13
  <2>2. off(c) = end[c] /\ end[c] \in Nat /\ end[c] <= len
    BY <1>8, <1>11, <2>1
  <2> QED
    BY <1>1, <2>2
<1>16. Len(got) = c
  BY <1>6, <1>14, <1>15
<1> QED
  BY <1>14, <1>16

LEMMA BinaryAnswered ==
  ASSUME TypedInv, WriteBinary
  PROVE  BinaryAsAsked
<1> DEFINE addr   == Integer(2)
           length == Integer(Separator(addr, Comma))
           ptr    == Separator(length, Colon)
           n      == length.value
           got    == DecodedBin(ptr, Remaining(ptr), n)
           bytes(u) == [k \in 1..n |-> IF k <= Len(got) THEN got[k] ELSE u]
<1> SUFFICES ASSUME NEW w \in Writes
    PROVE  reply' = OK <=> /\ Count(w) <= DataMax /\ Writable(w)
                           /\ \E m \in 0..Count(w) : IsBinaryOf(Data(w.e), Stored(w), m)
  BY DEF BinaryAsAsked
<1> DEFINE e == w.e
           d == Data(e)
           start == Start(w)
<1>1. /\ addr.value = start /\ n = Count(w) /\ ptr = e + 1 /\ ptr \in 2..(pkt_len + 1)
      /\ Remaining(ptr) = pkt_len - e
  <2>1. /\ addr = Integer(2) /\ length = Integer(Separator(addr, Comma))
        /\ ptr = Separator(length, Colon)
    OBVIOUS
  <2> HIDE DEF addr, length, ptr
  <2> QED
    BY <2>1, WriteReads
<1>2. addr.value \in 0..(Modulus - 1) /\ n \in 0..(Modulus - 1)
  BY FieldsAre DEF TypedInv
<1>3. IF ptr = 0 \/ ~DataFits(n) THEN Fail
      ELSE IF Len(got) > n THEN Fail ELSE \E u \in Unset : WriteBytes(addr.value, bytes(u))
  BY DEF WriteBinary
<1>4. got = DecodedBin(e + 1, pkt_len - e, n)
  <2> HIDE DEF ptr, n
  <2> QED
    BY <1>1
<1>5. e \in DOMAIN asked
  BY DEF Writes
<1>6. pkt_len \in Nat /\ DOMAIN asked = 1..pkt_len
  BY AskedIs
<1>7. d = Data(e)
  OBVIOUS
<1> HIDE DEF addr, length, ptr, n, got, d, e, start
<1>8. n \in Nat /\ start \in Int /\ e \in Nat /\ e <= pkt_len /\ ptr # 0
  BY <1>1, <1>2, <1>5, <1>6, SizesAre
<1>9. DataFits(n) <=> n <= DataMax
  BY DEF DataFits
<1>10. Writable(w) <=> \A k \in 1..n : ~Refused(start + k - 1)
  BY <1>1 DEF Writable, start
<1>11. Stored(w) = [k \in 1..n |-> mem'[start + k - 1]]
  BY <1>1 DEF Stored, start
<1>12. got \in Seq(Bytes) /\ Len(got) \in Nat
  <2>1. pkt_len - e \in Int /\ e + 1 \in Nat
    BY <1>6, <1>8
  <2>2. got \in Seq(Bytes)
    BY <1>4, <1>8, <2>1, DecodedBinIs DEF TypedInv
  <2> QED
    BY <2>2
<1> DEFINE read(m) == IsBinaryOf(d, Stored(w), m)
<1>13. CASE ~(n <= DataMax)
  <2>1. reply' = Error
    BY <1>3, <1>9, <1>13, FailTells
  <2> QED
    BY <1>1, <1>13, <2>1, OutcomeTells
<1>14. CASE n <= DataMax /\ Len(got) > n
  <2>1. reply' = Error
    BY <1>3, <1>14, FailTells
  <2>2. ASSUME NEW m \in 0..n, read(m) PROVE FALSE
    <3>1. Len(got) <= n
      BY <1>4, <1>7, <1>8, <2>2, BinaryDecodes
    <3> QED
      BY <1>8, <1>12, <1>14, <3>1
  <2>3. ~\E m \in 0..n : read(m)
    BY <2>2
  <2> QED
    BY <1>1, <2>1, <2>3, OutcomeTells DEF d, e
<1>15. CASE n <= DataMax /\ ~(Len(got) > n)
  <2>1. PICK u \in Unset : WriteBytes(start, bytes(u))
    BY <1>1, <1>3, <1>8, <1>9, <1>15
  <2>2. u \in Bytes /\ Len(got) <= n
    <3>1. Unset \subseteq Bytes
      BY GdbPacketAssumption DEF GdbPacketAssumption
    <3> QED
      BY <1>8, <1>12, <1>15, <3>1
  <2> DEFINE b == bytes(u)
  <2>3. b \in Seq(Bytes) /\ Len(b) = n /\ \A k \in 1..n : b[k] = IF k <= Len(got) THEN got[k] ELSE u
    <3>1. \A k \in 1..n : k <= Len(got) => got[k] \in Bytes
      BY <1>8, <1>12
    <3>2. b \in [1..n -> Bytes]
      BY <2>2, <3>1
    <3> QED
      BY <1>8, <3>2
  <2>4. WriteBytes(start, b)
    BY <2>1
  <2> HIDE DEF b
  <2>5. /\ reply' = OK <=> \A k \in 1..n : ~Refused(start + k - 1)
        /\ reply' = OK => \A k \in 1..n : mem'[start + k - 1] = b[k]
    BY <1>8, <2>3, <2>4, WriteBytesAnswers
  <2>6. ASSUME reply' = OK PROVE \E m \in 0..n : read(m)
    <3> DEFINE s == Stored(w)
    <3>1. \A k \in 1..Len(got) : k \in 1..n /\ k <= Len(got)
      BY <1>8, <1>12, <2>2
    <3>2. \A k \in 1..Len(got) : s[k] = got[k]
      BY <1>11, <2>3, <2>5, <2>6, <3>1
    <3> HIDE DEF s
    <3>3. \E m \in 0..n : IsBinaryOf(d, s, m)
      BY <1>4, <1>7, <1>8, <2>2, <3>2, BinaryMeans
    <3> QED
      BY <3>3 DEF s
  <2> QED
    BY <1>1, <1>10, <1>15, <2>5, <2>6 DEF d, e
<1> QED
  BY <1>13, <1>14, <1>15

ReplyIsAsked == Served =>
  /\ asked[1] = 109 => ReadAsAsked
  /\ asked[1] = 77 => HexAsAsked
  /\ asked[1] = 88 => BinaryAsAsked
  /\ asked[1] = 80 => PokeAsAsked

\* Which command is served, its letter says.
LEMMA StepAnswered == TypedInv /\ [Next]_vars => ReplyIsAsked
<1> SUFFICES ASSUME TypedInv, [Next]_vars, state = "serve", state' = "wait" PROVE ReplyIsAsked
  BY DEF ReplyIsAsked, Served
<1>1. Serve
  BY DEF Next, vars, GiveUp, Trap, Receive
<1>2. asked[1] = pkt_buf[1]
  <2>1. Letter(pkt_buf[1])
    BY DEF Letter
  <2> QED
    BY <2>1, LetterIs
<1>3. asked[1] = 109 => ReadMemory
  BY <1>1, <1>2 DEF Serve, ReadRegisters, WriteRegisters, ReadRegister, WriteRegister,
    WriteMemory, WriteBinary, LastSignal, Unsupported, Leave, Letter
<1>4. asked[1] = 77 => WriteMemory
  BY <1>1, <1>2 DEF Serve, ReadRegisters, WriteRegisters, ReadRegister, WriteRegister,
    ReadMemory, WriteBinary, LastSignal, Unsupported, Leave, Letter
<1>5. asked[1] = 88 => WriteBinary
  BY <1>1, <1>2 DEF Serve, ReadRegisters, WriteRegisters, ReadRegister, WriteRegister,
    ReadMemory, WriteMemory, LastSignal, Unsupported, Leave, Letter
<1>6. asked[1] = 80 => WriteRegister
  BY <1>1, <1>2 DEF Serve, ReadRegisters, WriteRegisters, ReadRegister,
    ReadMemory, WriteMemory, WriteBinary, LastSignal, Unsupported, Leave, Letter
<1> QED
  BY <1>3, <1>4, <1>5, <1>6, ReadAnswered, HexAnswered, BinaryAnswered, PokeAnswered
  DEF ReplyIsAsked

\* A well-formed read, write or register write gets the reply it asks for, and
\* when that is OK, its data is in place.
THEOREM RepliesCorrect == Spec => RepliesAsAsked
<1>1. TypedInv /\ [Next]_vars => [ReplyIsAsked]_vars
  BY StepAnswered
<1>2. Spec => [][ReplyIsAsked]_vars
  BY <1>1, TypedInit, TypedStep, PTL DEF Spec
<1> QED
  BY <1>2 DEF RepliesAsAsked, ReplyIsAsked

===============================================================================
