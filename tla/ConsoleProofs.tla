----------------------------- MODULE ConsoleProofs -----------------------------
(***************************************************************************)
(* Proofs about Console, for every size of the screen, every format and    *)
(* every argument: the state of the screen and of a call stays well        *)
(* formed, the screen shows the last lines of the text, every va_arg finds *)
(* the argument meant for it, and a call prints what its format means.     *)
(***************************************************************************)
EXTENDS Console, TLAPS, SequenceTheorems, WellFoundedInduction

-----------------------------------------------------------------------------
(* Induction over a set of numbers, and definitions by recursion.          *)

LEMMA LeastNat ==
  ASSUME NEW T, T \subseteq Nat, T # {}
  PROVE  \E n \in T : \A m \in T : n <= m
<1> DEFINE R == OpToRel(<, Nat)
<1>1. IsWellFoundedOn(R, Nat)
  BY NatLessThanWellFounded
<1>2. PICK n \in T : \A m \in T : ~(<<m, n>> \in R)
  <2> HIDE DEF R
  <2> QED
    BY <1>1, WFMin
<1>3. ASSUME NEW m \in T PROVE n <= m
  <2>1. m \in Nat /\ n \in Nat
    OBVIOUS
  <2>2. ~(m < n)
    BY <1>2, <2>1 DEF OpToRel
  <2> QED
    BY <2>1, <2>2
<1> QED
  BY <1>3

\* A set that holds each number all smaller numbers of which it holds, holds all.
LEMMA AllNat ==
  ASSUME NEW T, \A n \in Nat : (\A m \in Nat : m < n => m \in T) => n \in T
  PROVE  Nat \subseteq T
<1> SUFFICES ASSUME Nat \ T # {} PROVE FALSE
  OBVIOUS
<1>1. PICK n \in Nat \ T : \A m \in Nat \ T : n <= m
  BY LeastNat
<1>2. \A m \in Nat : m < n => m \in T
  BY <1>1
<1> QED
  BY <1>1, <1>2

\* A function on the numbers may be defined by what it is at a smaller one: f is
\* first[v] below b, and next of v and of f at p[v] from b on.
At(b, p, first, next, f, v) == IF v < b THEN first[v] ELSE next[f[p[v]], v]
Upto(S, b, p, first, next, n, f) ==
  f \in [0..n -> S] /\ \A v \in 0..n : f[v] = At(b, p, first, next, f, v)

HasRecursion(S, b, p, first, next) ==
  \E f \in [Nat -> S] : \A v \in Nat : f[v] = At(b, p, first, next, f, v)

LEMMA RecursionUpto ==
  ASSUME NEW S, NEW b \in Nat, NEW p \in [Nat -> Nat], \A v \in Nat : b <= v => p[v] < v,
         NEW first \in [Nat -> S], NEW next \in [S \X Nat -> S], NEW n \in Nat
  PROVE  \E f : Upto(S, b, p, first, next, n, f)
<1> DEFINE U(m, f) == Upto(S, b, p, first, next, m, f)
           T == {m \in Nat : \E f : U(m, f)}
<1>1. ASSUME NEW m \in Nat, \A l \in Nat : l < m => l \in T
      PROVE  m \in T
  <2>1. PICK h : h \in [0..(m - 1) -> S] /\
                 \A v \in 0..(m - 1) : h[v] = At(b, p, first, next, h, v)
    <3>1. CASE m = 0
      <4>1. 0..(m - 1) = {}
        BY <3>1
      <4>2. [v \in {} |-> 0] \in [{} -> S]
        OBVIOUS
      <4> QED
        BY <4>1, <4>2
    <3>2. CASE m # 0
      <4>1. m - 1 \in Nat /\ m - 1 < m
        BY <3>2
      <4> QED
        BY <1>1, <4>1 DEF Upto
    <3> QED
      BY <3>1, <3>2
  <2> DEFINE e == At(b, p, first, next, h, m)
             g == [v \in 0..m |-> IF v = m THEN e ELSE h[v]]
  <2>2. \A v \in 0..m : v < b \/ (p[v] \in 0..(m - 1) /\ p[v] # m)
    <3> SUFFICES ASSUME NEW v \in 0..m, ~(v < b) PROVE p[v] \in 0..(m - 1) /\ p[v] # m
      OBVIOUS
    <3>1. v \in Nat /\ v <= m /\ b <= v
      OBVIOUS
    <3>2. p[v] \in Nat /\ p[v] < v
      BY <3>1
    <3> QED
      BY <3>1, <3>2
  <2>3. e \in S
    <3>1. CASE m < b
      BY <3>1 DEF At
    <3>2. CASE ~(m < b)
      <4>1. m \in 0..m
        OBVIOUS
      <4>2. h[p[m]] \in S
        BY <2>1, <2>2, <3>2, <4>1
      <4> QED
        BY <3>2, <4>2 DEF At
    <3> QED
      BY <3>1, <3>2
  <2> HIDE DEF e
  <2>4. g \in [0..m -> S] /\ g[m] = e /\ \A v \in 0..(m - 1) : g[v] = h[v]
    <3>1. \A v \in 0..m : v = m \/ v \in 0..(m - 1)
      OBVIOUS
    <3>2. \A v \in 0..(m - 1) : v \in 0..m /\ v # m
      OBVIOUS
    <3> QED
      BY <2>1, <2>3, <3>1, <3>2
  <2> HIDE DEF g
  <2>5. ASSUME NEW v \in 0..m PROVE g[v] = At(b, p, first, next, g, v)
    <3>1. g[v] = At(b, p, first, next, h, v)
      <4>1. CASE v = m
        BY <2>4, <4>1 DEF e
      <4>2. CASE v # m
        <5>1. v \in 0..(m - 1)
          BY <4>2
        <5> QED
          BY <2>1, <2>4, <5>1
      <4> QED
        BY <4>1, <4>2
    <3>2. v < b \/ g[p[v]] = h[p[v]]
      BY <2>2, <2>4
    <3> QED
      BY <3>1, <3>2 DEF At
  <2>6. U(m, g)
    BY <2>4, <2>5 DEF Upto
  <2> HIDE DEF U
  <2> QED
    BY <2>6
<1> HIDE DEF T
<1>2. n \in T
  BY <1>1, AllNat
<1> QED
  BY <1>2 DEF T

LEMMA RecursionAgrees ==
  ASSUME NEW S, NEW b \in Nat, NEW p \in [Nat -> Nat], \A v \in Nat : b <= v => p[v] < v,
         NEW first, NEW next, NEW n \in Nat, NEW m \in Nat,
         NEW f, Upto(S, b, p, first, next, n, f), NEW g, Upto(S, b, p, first, next, m, g),
         NEW v \in Nat, v <= n, v <= m
  PROVE  f[v] = g[v]
<1> DEFINE T == {u \in Nat : u <= n /\ u <= m => f[u] = g[u]}
<1>1. ASSUME NEW u \in Nat, \A l \in Nat : l < u => l \in T
      PROVE  u \in T
  <2> SUFFICES ASSUME u <= n, u <= m PROVE f[u] = g[u]
    OBVIOUS
  <2>1. f[u] = At(b, p, first, next, f, u) /\ g[u] = At(b, p, first, next, g, u)
    BY DEF Upto
  <2>2. u < b \/ f[p[u]] = g[p[u]]
    <3> SUFFICES ASSUME ~(u < b) PROVE f[p[u]] = g[p[u]]
      OBVIOUS
    <3>1. p[u] \in Nat /\ p[u] < u
      OBVIOUS
    <3>2. p[u] \in T /\ p[u] <= n /\ p[u] <= m
      BY <1>1, <3>1
    <3> QED
      BY <3>2
  <2> QED
    BY <2>1, <2>2 DEF At
<1> HIDE DEF T
<1>2. v \in T
  BY <1>1, AllNat
<1> QED
  BY <1>2 DEF T

LEMMA Recursion ==
  ASSUME NEW S, NEW b \in Nat, NEW p \in [Nat -> Nat], \A v \in Nat : b <= v => p[v] < v,
         NEW first \in [Nat -> S], NEW next \in [S \X Nat -> S]
  PROVE  HasRecursion(S, b, p, first, next)
<1> DEFINE H(n) == CHOOSE g : Upto(S, b, p, first, next, n, g)
           f    == [v \in Nat |-> H(v)[v]]
<1>1. \A n \in Nat : Upto(S, b, p, first, next, n, H(n))
  BY RecursionUpto
<1> HIDE DEF H
<1>2. \A v \in Nat : v \in 0..v /\ H(v)[v] \in S
  BY <1>1 DEF Upto
<1>3. f \in [Nat -> S]
  BY <1>2
<1>4. ASSUME NEW v \in Nat PROVE f[v] = At(b, p, first, next, f, v)
  <2>1. f[v] = At(b, p, first, next, H(v), v)
    BY <1>1, <1>2 DEF Upto
  <2>2. v < b \/ f[p[v]] = H(v)[p[v]]
    <3> SUFFICES ASSUME ~(v < b) PROVE f[p[v]] = H(v)[p[v]]
      OBVIOUS
    <3>1. p[v] \in Nat /\ p[v] < v /\ p[v] <= v /\ p[v] <= p[v]
      OBVIOUS
    <3>2. H(p[v])[p[v]] = H(v)[p[v]]
      <4> DEFINE n == p[v]
                 g == H(n)
                 h == H(v)
      <4>1. /\ Upto(S, b, p, first, next, n, g) /\ Upto(S, b, p, first, next, v, h)
            /\ n \in Nat /\ n <= n /\ n <= v
        BY <1>1, <3>1
      <4> HIDE DEF n, g, h
      <4>2. g[n] = h[n]
        BY <4>1, RecursionAgrees
      <4> QED
        BY <4>2 DEF n, g, h
    <3> QED
      BY <3>1, <3>2
  <2> HIDE DEF f
  <2> QED
    BY <2>1, <2>2 DEF At
<1> HIDE DEF f
<1> QED
  BY <1>3, <1>4 DEF HasRecursion

-----------------------------------------------------------------------------
(* Sequences one behind the other.                                         *)

\* A function on 0..n may be defined by what it is one step before.
HasCount(S, n, z, next) ==
  \E f \in [0..n -> S] : \A k \in 0..n : f[k] = IF k = 0 THEN z ELSE next[f[k - 1], k]

LEMMA Counting ==
  ASSUME NEW S, NEW n \in Nat, NEW z \in S, NEW next \in [S \X Nat -> S]
  PROVE  HasCount(S, n, z, next)
<1> DEFINE p     == [v \in Nat |-> IF v = 0 THEN 0 ELSE v - 1]
           first == [v \in Nat |-> z]
<1>1. p \in [Nat -> Nat] /\ \A v \in Nat : 1 <= v => p[v] < v
  OBVIOUS
<1>2. first \in [Nat -> S] /\ \A v \in Nat : first[v] = z
  OBVIOUS
<1>3. \A v \in Nat : v # 0 => p[v] = v - 1
  OBVIOUS
<1> HIDE DEF p, first
<1>4. PICK f : Upto(S, 1, p, first, next, n, f)
  <2>1. 1 \in Nat
    OBVIOUS
  <2> QED
    BY <1>1, <1>2, <2>1, RecursionUpto
<1>5. f \in [0..n -> S] /\ \A k \in 0..n : f[k] = IF k < 1 THEN first[k] ELSE next[f[p[k]], k]
  BY <1>4 DEF Upto, At
<1>6. \A k \in 0..n : /\ k < 1 => k = 0 /\ first[k] = z
                      /\ ~(k < 1) => k # 0 /\ p[k] = k - 1
  BY <1>2, <1>3
<1>7. \A k \in 0..n : f[k] = IF k = 0 THEN z ELSE next[f[k - 1], k]
  <2> SUFFICES ASSUME NEW k \in 0..n PROVE f[k] = IF k = 0 THEN z ELSE next[f[k - 1], k]
    OBVIOUS
  <2>1. CASE k < 1
    BY <1>5, <1>6, <2>1
  <2>2. CASE ~(k < 1)
    BY <1>5, <1>6, <2>2
  <2> QED
    BY <2>1, <2>2
<1> QED
  BY <1>5, <1>7 DEF HasCount

\* What holds at 0 and at each number up to n after the one before holds to n.
LEMMA CountTo ==
  ASSUME NEW n \in Nat, NEW T, 0 \in T, \A k \in 1..n : k - 1 \in T => k \in T
  PROVE  0..n \subseteq T
<1> DEFINE U == {k \in Nat : k <= n => k \in T}
<1>1. ASSUME NEW k \in Nat, \A m \in Nat : m < k => m \in U PROVE k \in U
  <2>1. CASE k = 0
    BY <2>1
  <2>2. CASE k # 0
    <3> SUFFICES ASSUME k <= n PROVE k \in T
      OBVIOUS
    <3>1. k - 1 \in Nat /\ k - 1 < k /\ k - 1 <= n /\ k \in 1..n
      BY <2>2
    <3>2. k - 1 \in T
      BY <1>1, <3>1
    <3> QED
      BY <3>1, <3>2
  <2> QED
    BY <2>1, <2>2
<1> HIDE DEF U
<1>2. Nat \subseteq U
  BY <1>1, AllNat
<1> QED
  BY <1>2 DEF U

LEMMA JoinedIs ==
  ASSUME NEW S, NEW s \in Seq(Seq(S))
  PROVE  /\ Joined(s, 0) = <<>>
         /\ \A n \in 1..Len(s) : Joined(s, n) = Joined(s, n - 1) \o s[n]
         /\ \A n \in 0..Len(s) : Joined(s, n) \in Seq(S)
<1> DEFINE l == Len(s)
           part == [k \in Nat |-> IF k \in 1..l THEN s[k] ELSE <<>>]
           next == [x \in Seq(S) \X Nat |-> x[1] \o part[x[2]]]
<1>1. l \in Nat /\ \A k \in 1..l : s[k] \in Seq(S)
  BY LenProperties
<1>a. part \in [Nat -> Seq(S)] /\ \A k \in 1..l : part[k] = s[k]
  <2> HIDE DEF l
  <2>1. <<>> \in Seq(S)
    OBVIOUS
  <2> QED
    BY <1>1, <2>1
<1> HIDE DEF part
<1>c. \A t \in Seq(S), k \in Nat : t \o part[k] \in Seq(S)
  BY <1>a, ConcatProperties
<1>2. next \in [Seq(S) \X Nat -> Seq(S)]
  BY <1>c
<1>b. ASSUME NEW t \in Seq(S), NEW k \in 1..l PROVE next[t, k] = t \o s[k]
  <2>1. k \in Nat
    BY <1>1
  <2>2. next[t, k] = t \o part[k]
    BY <2>1
  <2> QED
    BY <1>a, <2>2
<1>3. PICK f \in [0..l -> Seq(S)] :
        \A k \in 0..l : f[k] = IF k = 0 THEN <<>> ELSE next[f[k - 1], k]
  <2> DEFINE z == <<>>
             Q == Seq(S)
  <2>1. z \in Q
    OBVIOUS
  <2>2. next \in [Q \X Nat -> Q]
    BY <1>2
  <2> HIDE DEF l, next, z, Q
  <2>3. HasCount(Q, l, z, next)
    BY <1>1, <2>1, <2>2, Counting
  <2> QED
    BY <2>3 DEF z, Q, HasCount
<1> DEFINE upto[k \in 0..Len(s)] == IF k = 0 THEN <<>> ELSE upto[k - 1] \o s[k]
<1>4. f = [k \in 0..Len(s) |-> IF k = 0 THEN <<>> ELSE f[k - 1] \o s[k]]
  <2>1. ASSUME NEW k \in 0..l, k # 0 PROVE next[f[k - 1], k] = f[k - 1] \o s[k]
    <3>1. k - 1 \in 0..l /\ k \in 1..l
      BY <1>1, <2>1
    <3>2. f[k - 1] \in Seq(S)
      BY <1>3, <3>1
    <3> QED
      BY <1>b, <3>1, <3>2
  <2>2. \A k \in 0..l : f[k] = IF k = 0 THEN <<>> ELSE f[k - 1] \o s[k]
    BY <1>3, <2>1
  <2> QED
    BY <2>2
<1>5. upto = [k \in 0..Len(s) |-> IF k = 0 THEN <<>> ELSE upto[k - 1] \o s[k]]
  BY <1>4 DEF upto
<1>6. \A n : Joined(s, n) = upto[n]
  BY DEF Joined
<1> HIDE DEF upto
<1>7. /\ upto[0] = <<>>
      /\ \A k \in 1..l : upto[k] = upto[k - 1] \o s[k]
  <2>1. 0 \in 0..l /\ \A k \in 1..l : k \in 0..l /\ k # 0
    BY <1>1
  <2> QED
    BY <1>5, <2>1
<1>8. \A n \in 0..l : upto[n] \in Seq(S)
  <2> DEFINE T == {k \in Nat : upto[k] \in Seq(S)}
  <2>1. 0 \in T
    <3>1. <<>> \in Seq(S)
      OBVIOUS
    <3> QED
      BY <1>7, <3>1
  <2>2. ASSUME NEW k \in 1..l, k - 1 \in T PROVE k \in T
    <3> HIDE DEF l
    <3>1. upto[k - 1] \in Seq(S)
      BY <2>2
    <3>2. upto[k - 1] \o s[k] \in Seq(S)
      BY <1>a, <1>c, <1>1, <3>1
    <3>3. k \in Nat
      BY <1>1
    <3>4. upto[k] = upto[k - 1] \o s[k]
      BY <1>7
    <3> QED
      BY <3>2, <3>3, <3>4
  <2> HIDE DEF T, l
  <2>3. 0..l \subseteq T
    BY <1>1, <2>1, <2>2, CountTo
  <2> QED
    BY <2>3 DEF T
<1> QED
  BY <1>6, <1>7, <1>8

\* The n-th sequence stands behind the n - 1 before it.
LEMMA JoinedPlace ==
  ASSUME NEW S, NEW s \in Seq(Seq(S)), NEW n \in 0..Len(s)
  PROVE  /\ Len(Joined(s, n)) \in Nat
         /\ Len(Joined(s, n)) <= Len(Joined(s, Len(s)))
         /\ \A i \in 1..Len(Joined(s, n)) : Joined(s, Len(s))[i] = Joined(s, n)[i]
<1> DEFINE l == Len(s)
           J(k) == Joined(s, k)
           T == {k \in Nat : n + k <= l => /\ Len(J(n)) <= Len(J(n + k))
                                           /\ \A i \in 1..Len(J(n)) : J(n + k)[i] = J(n)[i]}
<1>1. l \in Nat /\ n \in 0..l
  BY LenProperties
<1>2. \A k \in 0..l : J(k) \in Seq(S)
  BY JoinedIs
<1>3. \A k \in 1..l : J(k) = J(k - 1) \o s[k] /\ s[k] \in Seq(S)
  <2>1. \A k \in 1..l : J(k) = J(k - 1) \o s[k]
    BY JoinedIs
  <2>2. \A k \in 1..l : s[k] \in Seq(S)
    BY LenProperties
  <2> QED
    BY <2>1, <2>2
<1> HIDE DEF J, l
<1>4. \A k \in 0..l : Len(J(k)) \in Nat
  BY <1>2, LenProperties
<1>5. 0 \in T
  BY <1>1, <1>4
<1>6. ASSUME NEW k \in 1..(l - n), k - 1 \in T PROVE k \in T
  <2>1. n + k \in 1..l /\ n + k - 1 = n + (k - 1) /\ n + (k - 1) \in 0..l
    BY <1>1
  <2>2. J(n + k) = J(n + (k - 1)) \o s[n + k] /\ s[n + k] \in Seq(S)
    <3>1. PICK m \in 1..l : m = n + k
      BY <2>1
    <3>2. m - 1 = n + (k - 1)
      BY <1>1, <3>1
    <3>3. J(m) = J(m - 1) \o s[m] /\ s[m] \in Seq(S)
      BY <1>3, <3>1
    <3> QED
      BY <3>1, <3>2, <3>3
  <2> DEFINE u == J(n + (k - 1))
             w == s[n + k]
             a == Len(J(n))
             b == Len(u)
  <2>3. u \in Seq(S) /\ w \in Seq(S) /\ J(n + k) = u \o w /\ a \in Nat /\ b \in Nat
    BY <1>1, <1>2, <1>4, <2>1, <2>2
  <2>4. a <= b /\ \A i \in 1..a : u[i] = J(n)[i]
    BY <1>6, <2>1
  <2>5. /\ Len(w) \in Nat /\ Len(u \o w) = b + Len(w)
        /\ \A i \in 1..(b + Len(w)) : (u \o w)[i] = IF i <= b THEN u[i] ELSE w[i - b]
    BY <2>3, ConcatProperties, LenProperties
  <2> HIDE DEF u, w, a, b
  <2>6. a <= b + Len(w) /\ \A i \in 1..a : i \in 1..(b + Len(w)) /\ i <= b
    BY <2>3, <2>4, <2>5
  <2>7. a <= Len(J(n + k)) /\ \A i \in 1..a : J(n + k)[i] = J(n)[i]
    BY <2>3, <2>4, <2>5, <2>6
  <2> QED
    BY <2>7 DEF a
<1>7. l - n \in Nat /\ l - n \in 0..(l - n) /\ n + (l - n) = l
  BY <1>1
<1>8. 0..(l - n) \subseteq T
  <2> DEFINE d == l - n
  <2>1. d \in Nat /\ \A k \in 1..d : k - 1 \in T => k \in T
    BY <1>6, <1>7
  <2> HIDE DEF T, d
  <2>2. 0..d \subseteq T
    BY <1>5, <2>1, CountTo
  <2> QED
    BY <2>2 DEF d
<1>9. Len(J(n)) <= Len(J(l)) /\ \A i \in 1..Len(J(n)) : J(l)[i] = J(n)[i]
  <2>1. PICK k \in T : k = l - n
    BY <1>7, <1>8
  <2>2. n + k = l
    BY <1>1, <2>1
  <2>3. n + k <= l
    BY <1>1, <2>2
  <2> QED
    BY <2>1, <2>2, <2>3
<1> QED
  BY <1>1, <1>4, <1>9 DEF J, l

\* The characters of the n-th sequence stand behind the sequences before it.
LEMMA JoinedAt ==
  ASSUME NEW S, NEW s \in Seq(Seq(S)), NEW n \in 1..Len(s)
  PROVE  /\ Len(Joined(s, n - 1)) \in Nat /\ Len(s[n]) \in Nat
         /\ Len(Joined(s, n)) = Len(Joined(s, n - 1)) + Len(s[n])
         /\ Len(Joined(s, n)) <= Len(Joined(s, Len(s)))
         /\ \A k \in 1..Len(s[n]) :
              Joined(s, Len(s))[Len(Joined(s, n - 1)) + k] = s[n][k]
<1> DEFINE l == Len(s)
           u == Joined(s, n - 1)
           w == s[n]
           t == Joined(s, n)
           a == Len(u)
           b == Len(w)
<1>1. l \in Nat /\ n \in 1..l /\ n - 1 \in 0..l /\ n \in 0..l
  BY LenProperties
<1>2. t = u \o w /\ u \in Seq(S) /\ w \in Seq(S)
  <2>1. w \in Seq(S)
    BY LenProperties
  <2> QED
    BY <1>1, <2>1, JoinedIs
<1>3. Len(t) <= Len(Joined(s, l)) /\ \A i \in 1..Len(t) : Joined(s, l)[i] = t[i]
  BY <1>1, JoinedPlace
<1> HIDE DEF l, u, w, t
<1>4. /\ a \in Nat /\ b \in Nat /\ Len(t) = a + b
      /\ \A i \in 1..(a + b) : t[i] = IF i <= a THEN u[i] ELSE w[i - a]
  BY <1>2, ConcatProperties, LenProperties
<1> HIDE DEF a, b
<1>5. ASSUME NEW k \in 1..b PROVE Joined(s, l)[a + k] = w[k]
  <2>1. PICK i \in 1..(a + b) : i = a + k /\ ~(i <= a) /\ i - a = k
    BY <1>4
  <2> QED
    BY <1>3, <1>4, <2>1
<1> QED
  BY <1>3, <1>4, <1>5 DEF l, u, w, t, a, b

\* Sequences that agree up to n are joined alike up to n.
LEMMA JoinedSame ==
  ASSUME NEW S, NEW s \in Seq(Seq(S)), NEW u \in Seq(Seq(S)), NEW n \in 0..Len(s),
         n <= Len(u), \A k \in 1..n : s[k] = u[k]
  PROVE  Joined(s, n) = Joined(u, n)
<1> DEFINE T == {k \in Nat : k <= n => Joined(s, k) = Joined(u, k)}
           I(k) == Joined(s, k)
           J(k) == Joined(u, k)
<1>1. n \in Nat /\ n <= Len(s) /\ Len(s) \in Nat /\ Len(u) \in Nat
  BY LenProperties
<1>2. /\ I(0) = <<>> /\ J(0) = <<>>
      /\ \A k \in 1..Len(s) : I(k) = I(k - 1) \o s[k]
      /\ \A k \in 1..Len(u) : J(k) = J(k - 1) \o u[k]
  BY JoinedIs
<1> HIDE DEF I, J
<1>3. T = {k \in Nat : k <= n => I(k) = J(k)}
  BY DEF I, J
<1> HIDE DEF T
<1>4. 0 \in T
  BY <1>2, <1>3
<1>5. ASSUME NEW k \in 1..n, k - 1 \in T PROVE k \in T
  <2>1. k \in 1..Len(s) /\ k \in 1..Len(u) /\ k \in Nat /\ k - 1 <= n
    BY <1>1
  <2>2. I(k - 1) = J(k - 1)
    BY <1>3, <1>5, <2>1
  <2>3. I(k) = I(k - 1) \o s[k] /\ J(k) = J(k - 1) \o u[k] /\ s[k] = u[k]
    BY <1>2, <2>1
  <2> QED
    BY <1>3, <2>1, <2>2, <2>3
<1>6. n \in T
  <2>1. 0..n \subseteq T
    BY <1>1, <1>4, <1>5, CountTo
  <2> QED
    BY <1>1, <2>1
<1> QED
  BY <1>1, <1>3, <1>6 DEF I, J

\* What of one character is not the sign of a number.
Bare(c) == IF c = Sign THEN <<>> ELSE <<c>>

LEMMA UnsignedNone == Unsigned(<<>>) = <<>>
<1> DEFINE s == [n \in 1..0 |-> <<>>]
<1>1. s \in Seq(Seq({})) /\ Joined(s, 0) = <<>>
  <2>1. s \in Seq(Seq({}))
    OBVIOUS
  <2> HIDE DEF s
  <2> QED
    BY <2>1, JoinedIs
<1>2. Unsigned(<<>>) = Joined(s, 0)
  BY DEF Unsigned
<1> QED
  BY <1>1, <1>2

LEMMA UnsignedAppend ==
  ASSUME NEW t \in Seq(Glyphs), NEW c \in Glyphs
  PROVE  Unsigned(Append(t, c)) = Unsigned(t) \o Bare(c)
<1> DEFINE n == Len(t)
           r == Append(t, c)
           s == [k \in 1..n |-> Bare(t[k])]
           u == [k \in 1..(n + 1) |-> Bare(r[k])]
<1>1. /\ n \in Nat /\ r \in Seq(Glyphs) /\ Len(r) = n + 1 /\ r[n + 1] = c
      /\ \A k \in 1..n : r[k] = t[k]
  BY AppendProperties, LenProperties
<1>2. \A k \in 1..n : t[k] \in Glyphs
  BY <1>1
<1> HIDE DEF r
<1>3. \A x \in Glyphs : Bare(x) \in Seq(Glyphs)
  <2>1. <<>> \in Seq(Glyphs)
    OBVIOUS
  <2>2. \A x \in Glyphs : <<x>> \in Seq(Glyphs)
    OBVIOUS
  <2> QED
    BY <2>1, <2>2 DEF Bare
<1>4. \A k \in 1..(n + 1) : r[k] \in Glyphs
  BY <1>1
<1> HIDE DEF n
<1>5. s \in Seq(Seq(Glyphs)) /\ Len(s) = n
  BY <1>1, <1>2, <1>3
<1>6. u \in Seq(Seq(Glyphs)) /\ Len(u) = n + 1
  BY <1>1, <1>3, <1>4
<1>7. Unsigned(t) = Joined(s, n)
  <2>1. DOMAIN t = 1..n
    BY DEF n
  <2> QED
    BY <2>1 DEF Unsigned, Bare, n
<1>8. Unsigned(r) = Joined(u, n + 1)
  <2>1. DOMAIN r = 1..(n + 1)
    BY <1>1
  <2> QED
    BY <1>1, <2>1 DEF Unsigned, Bare
<1>9. u[n + 1] = Bare(c)
  <2>1. n + 1 \in 1..(n + 1)
    BY <1>1
  <2> QED
    BY <1>1, <2>1
<1>10. \A k \in 1..n : s[k] = u[k]
  BY <1>1
<1> HIDE DEF s, u
<1>11. Joined(s, n) = Joined(u, n)
  <2>1. n \in 0..Len(s) /\ n <= Len(u)
    BY <1>1, <1>5, <1>6
  <2> QED
    BY <1>5, <1>6, <1>10, <2>1, JoinedSame
<1>12. Joined(u, n + 1) = Joined(u, n) \o u[n + 1]
  <2>1. PICK m \in 1..Len(u) : m = n + 1
    BY <1>1, <1>6
  <2>2. Joined(u, m) = Joined(u, m - 1) \o u[m]
    BY <1>6, JoinedIs
  <2>3. m - 1 = n
    BY <1>1, <2>1
  <2> QED
    BY <2>1, <2>2, <2>3
<1> QED
  BY <1>7, <1>8, <1>9, <1>11, <1>12 DEF r

-----------------------------------------------------------------------------
(* Numerals.                                                               *)

Bases == {8, 10, 16}

LEMMA DivisionIs ==
  ASSUME NEW v \in Nat, NEW b \in Bases
  PROVE  /\ v % b \in 0..(b - 1) /\ v \div b \in Nat /\ v = b * (v \div b) + (v % b)
         /\ b <= v => v \div b < v /\ v \div b > 0
         /\ v < b => v % b = v
<1>1. CASE b = 8
  BY <1>1
<1>2. CASE b = 10
  BY <1>2
<1>3. CASE b = 16
  BY <1>3
<1> QED
  BY <1>1, <1>2, <1>3 DEF Bases

LEMMA DigitIs ==
  ASSUME NEW b \in Bases, NEW D \in [1..16 -> Glyphs], NEW v \in Nat
  PROVE  D[1 + (v % b)] \in Glyphs /\ 1 + (v % b) \in 1..16
<1> DEFINE r == v % b
<1>1. r \in 0..(b - 1) /\ b \in 1..16
  BY DivisionIs DEF Bases
<1> HIDE DEF r
<1>2. 1 + r \in 1..16
  BY <1>1
<1>3. D[1 + r] \in Glyphs
  BY <1>2
<1> QED
  BY <1>2, <1>3 DEF r

\* A digit behind a text.
LEMMA BehindIs ==
  ASSUME NEW s \in Seq(Glyphs), NEW y \in Glyphs
  PROVE  /\ s \o <<y>> \in Seq(Glyphs) /\ Len(s \o <<y>>) = Len(s) + 1
         /\ (s \o <<y>>)[Len(s) + 1] = y
         /\ \A i \in 1..Len(s) : (s \o <<y>>)[i] = s[i]
<1>1. <<y>> \in Seq(Glyphs) /\ Len(<<y>>) = 1 /\ <<y>>[1] = y
  OBVIOUS
<1> DEFINE z == <<y>>
           n == Len(s)
<1>2. n \in Nat /\ z \in Seq(Glyphs) /\ Len(z) = 1 /\ z[1] = y
  BY <1>1
<1> HIDE DEF z
<1>3. /\ s \o z \in Seq(Glyphs) /\ Len(s \o z) = n + 1
      /\ \A i \in 1..(n + 1) : (s \o z)[i] = IF i <= n THEN s[i] ELSE z[i - n]
  <2>1. /\ s \o z \in Seq(Glyphs) /\ Len(s \o z) = n + Len(z)
        /\ \A i \in 1..(n + Len(z)) : (s \o z)[i] = IF i <= n THEN s[i] ELSE z[i - n]
    BY <1>2, ConcatProperties
  <2> QED
    BY <1>2, <2>1
<1>4. (s \o z)[n + 1] = y
  <2> HIDE DEF n
  <2>1. n + 1 \in 1..(n + 1) /\ ~(n + 1 <= n) /\ n + 1 - n = 1
    BY <1>2
  <2> QED
    BY <1>2, <1>3, <2>1
<1>5. \A i \in 1..n : (s \o z)[i] = s[i]
  <2> HIDE DEF n
  <2> QED
    BY <1>2, <1>3
<1> QED
  BY <1>3, <1>4, <1>5 DEF z

LEMMA BehindTells ==
  ASSUME NEW s \in Seq(Glyphs), NEW t \in Seq(Glyphs),
         NEW y \in Glyphs, NEW z \in Glyphs, NEW a, a = s \o <<y>>, a = t \o <<z>>
  PROVE  s = t /\ y = z
<1> DEFINE n == Len(s)
           k == Len(t)
<1>1. /\ n \in Nat /\ Len(a) = n + 1 /\ a[n + 1] = y /\ \A i \in 1..n : a[i] = s[i]
  BY BehindIs
<1>2. /\ k \in Nat /\ Len(a) = k + 1 /\ a[k + 1] = z /\ \A i \in 1..k : a[i] = t[i]
  BY BehindIs
<1>3. n = k
  <2> HIDE DEF n, k
  <2> QED
    BY <1>1, <1>2
<1>4. y = z /\ \A i \in 1..n : s[i] = t[i]
  BY <1>1, <1>2, <1>3
<1> QED
  BY <1>3, <1>4, SeqEqual

\* convert_integer() writes the last digit behind the numeral of the rest.
LEMMA NumeralIs ==
  ASSUME NEW b \in Bases, NEW D \in [1..16 -> Glyphs]
  PROVE  \A v \in Nat :
           /\ convert_integer(v, b, D) \in Seq(Glyphs) \ {<<>>}
           /\ convert_integer(v, b, D) =
                IF v < b THEN <<D[1 + (v % b)]>>
                ELSE convert_integer(v \div b, b, D) \o <<D[1 + (v % b)]>>
<1> DEFINE last(v) == <<D[1 + (v % b)]>>
           S       == Seq(Glyphs) \ {<<>>}
           p       == [v \in Nat |-> v \div b]
           first   == [v \in Nat |-> last(v)]
           next    == [x \in S \X Nat |-> x[1] \o last(x[2])]
<1>1. \A v \in Nat : last(v) \in Seq(Glyphs) /\ Len(last(v)) = 1 /\ last(v) # <<>>
  <2> SUFFICES ASSUME NEW v \in Nat
               PROVE  last(v) \in Seq(Glyphs) /\ Len(last(v)) = 1 /\ last(v) # <<>>
    OBVIOUS
  <2>1. D[1 + (v % b)] \in Glyphs
    BY DigitIs
  <2> QED
    BY <2>1
<1> HIDE DEF last
<1>2. b \in Nat /\ p \in [Nat -> Nat] /\ \A v \in Nat : b <= v => p[v] < v
  <2>1. b \in Nat
    BY DEF Bases
  <2> QED
    BY <2>1, DivisionIs
<1>3. first \in [Nat -> S]
  BY <1>1
<1>4. next \in [S \X Nat -> S]
  <2> SUFFICES ASSUME NEW s \in S, NEW v \in Nat PROVE s \o last(v) \in S
    OBVIOUS
  <2>1. s \in Seq(Glyphs) /\ last(v) \in Seq(Glyphs) /\ Len(last(v)) = 1
    BY <1>1
  <2>2. s \o last(v) \in Seq(Glyphs) /\ Len(s \o last(v)) = Len(s) + 1 /\ Len(s) \in Nat
    BY <2>1, ConcatProperties, LenProperties
  <2>3. Len(s \o last(v)) # 0
    BY <2>2
  <2> QED
    BY <2>2, <2>3, EmptySeq
<1>5. PICK f \in [Nat -> S] : \A v \in Nat : f[v] = At(b, p, first, next, f, v)
  <2>1. HasRecursion(S, b, p, first, next)
    <3> HIDE DEF S, p, first, next
    <3> QED
      BY <1>2, <1>3, <1>4, Recursion
  <2> QED
    BY <2>1 DEF HasRecursion
<1>6. f = [v \in Nat |-> IF v < b THEN last(v) ELSE f[v \div b] \o last(v)]
  <2>1. \A v \in Nat : f[v] = IF v < b THEN last(v) ELSE f[v \div b] \o last(v)
    <3> SUFFICES ASSUME NEW v \in Nat
                 PROVE  f[v] = IF v < b THEN last(v) ELSE f[v \div b] \o last(v)
      OBVIOUS
    <3>1. f[v] = IF v < b THEN first[v] ELSE next[f[p[v]], v]
      BY <1>5 DEF At
    <3>2. first[v] = last(v) /\ p[v] = v \div b /\ v \div b \in Nat
      BY DivisionIs
    <3>3. f[v \div b] \in S
      BY <3>2
    <3>4. next[f[p[v]], v] = f[v \div b] \o last(v)
      BY <3>2, <3>3
    <3> QED
      BY <3>1, <3>2, <3>4
  <2> QED
    BY <2>1
<1> DEFINE numeral[v \in Nat] == IF v < b THEN last(v) ELSE numeral[v \div b] \o last(v)
<1>7. numeral = [v \in Nat |-> IF v < b THEN last(v) ELSE numeral[v \div b] \o last(v)]
  BY <1>6 DEF numeral
<1>8. \A v \in Nat : convert_integer(v, b, D) = numeral[v]
  BY DEF convert_integer, last
<1> HIDE DEF numeral
<1>9. \A v \in Nat : numeral[v] = IF v < b THEN last(v) ELSE numeral[v \div b] \o last(v)
  BY <1>7
<1>10. \A v \in Nat : numeral[v] \in S
  <2> DEFINE T == {v \in Nat : numeral[v] \in S}
  <2>1. ASSUME NEW n \in Nat, \A m \in Nat : m < n => m \in T PROVE n \in T
    <3>1. CASE n < b
      BY <1>1, <1>9, <3>1
    <3>2. CASE ~(n < b)
      <4>1. n \div b \in Nat /\ n \div b < n
        <5>1. b \in Nat /\ b <= n
          BY <1>2, <3>2
        <5> QED
          BY <5>1, DivisionIs
      <4>2. numeral[n \div b] \in S
        BY <2>1, <4>1
      <4>3. next[numeral[n \div b], n] \in S
        BY <1>4, <4>2
      <4> QED
        BY <1>9, <3>2, <4>2, <4>3
    <3> QED
      BY <3>1, <3>2
  <2> HIDE DEF T
  <2>2. Nat \subseteq T
    BY <2>1, AllNat
  <2> QED
    BY <2>2 DEF T
<1>11. \A v \in Nat : v \div b \in Nat
  BY DivisionIs
<1> QED
  BY <1>8, <1>9, <1>10, <1>11 DEF last

\* The longest numeral is what output[] must hold (printf.c:204), and a shorter
\* one would be no numeral: with e the powers of the base, a value has as many
\* digits as it takes, and 0 has one.  (8^22 is more than 2^64, output[] has 24.)
THEOREM NumeralLength ==
  ASSUME NEW b \in Bases, NEW D \in [1..16 -> Glyphs],
         NEW e \in [Nat -> Nat], e[0] = 1, \A n \in Nat : e[n + 1] = b * e[n],
         NEW v \in Nat, NEW n \in Nat, v < e[n + 1], n = 0 \/ e[n] <= v
  PROVE  Len(convert_integer(v, b, D)) = n + 1
<1> DEFINE c(w) == convert_integer(w, b, D)
           T == {k \in Nat : \A w \in Nat : w < e[k + 1] /\ (k = 0 \/ e[k] <= w) =>
                                            Len(c(w)) = k + 1}
<1>1. \A w \in Nat : /\ c(w) \in Seq(Glyphs)
                     /\ c(w) = IF w < b THEN <<D[1 + (w % b)]>>
                               ELSE c(w \div b) \o <<D[1 + (w % b)]>>
  BY NumeralIs
<1> HIDE DEF c
<1>2. \A w \in Nat : D[1 + (w % b)] \in Glyphs
  BY DigitIs
<1>3. ASSUME NEW k \in Nat, \A m \in Nat : m < k => m \in T PROVE k \in T
  <2> SUFFICES ASSUME NEW w \in Nat, w < e[k + 1], k = 0 \/ e[k] <= w
               PROVE  Len(c(w)) = k + 1
    OBVIOUS
  <2>1. CASE k = 0
    <3>1. e[1] = b * e[0] /\ b * 1 = b
      <4>1. e[0 + 1] = b * e[0]
        OBVIOUS
      <4> QED
        BY <4>1 DEF Bases
    <3>2. w < b
      BY <2>1, <3>1
    <3>3. c(w) = <<D[1 + (w % b)]>>
      BY <1>1, <3>2
    <3> QED
      BY <2>1, <3>3
  <2>2. CASE k # 0
    <3> DEFINE m == k - 1
               q == w \div b
               d == <<D[1 + (w % b)]>>
               p == e[m]
    <3>1. m \in Nat /\ m < k /\ m + 1 = k
      BY <2>2
    <3>2. e[k + 1] = b * e[k] /\ e[m + 1] = b * e[m]
      BY <3>1
    <3>3. q \in Nat /\ w % b \in 0..(b - 1) /\ w = b * q + (w % b) /\ b \in Nat /\ b > 0
      BY DivisionIs DEF Bases
    <3>4. e[k] \in Nat /\ p \in Nat /\ e[k] = b * p
      BY <3>1, <3>2
    <3> HIDE DEF p, q, m, d
    <3>5. q < e[m + 1]
      <4>1. w < b * e[k]
        BY <3>2
      <4>2. q < e[k]
        <5> DEFINE r == w % b
                   f == e[k]
        <5>1. q \in Nat /\ r \in 0..(b - 1) /\ w = b * q + r /\ f \in Nat /\ w < b * f
          BY <3>3, <3>4, <4>1
        <5> HIDE DEF r, f
        <5>2. CASE b = 8
          BY <5>1, <5>2
        <5>3. CASE b = 10
          BY <5>1, <5>3
        <5>4. CASE b = 16
          BY <5>1, <5>4
        <5> QED
          BY <5>2, <5>3, <5>4 DEF Bases
      <4> QED
        BY <3>1, <4>2
    <3>6. p <= q
      <4> DEFINE r == w % b
      <4>1. p \in Nat /\ q \in Nat /\ r \in 0..(b - 1) /\ w = b * q + r /\ b * p <= w
        BY <2>2, <3>3, <3>4
      <4> HIDE DEF r
      <4>2. CASE b = 8
        BY <4>1, <4>2
      <4>3. CASE b = 10
        BY <4>1, <4>3
      <4>4. CASE b = 16
        BY <4>1, <4>4
      <4> QED
        BY <4>2, <4>3, <4>4 DEF Bases
    <3>7. Len(c(q)) = m + 1
      BY <1>3, <3>1, <3>3, <3>5, <3>6 DEF p
    <3>8. ~(w < b)
      <4>1. \A j \in Nat : e[j] >= 1
        <5> DEFINE U == {j \in Nat : e[j] >= 1}
        <5>1. ASSUME NEW j \in Nat, \A l \in Nat : l < j => l \in U PROVE j \in U
          <6>1. CASE j = 0
            BY <6>1
          <6>2. CASE j # 0
            <7> DEFINE l == j - 1
                       x == e[l]
            <7>1. l \in Nat /\ l < j /\ l + 1 = j
              BY <6>2
            <7>2. e[j] = b * x /\ x \in Nat /\ x >= 1
              BY <5>1, <7>1
            <7> HIDE DEF x, l
            <7>3. b * x >= 1
              BY <7>2 DEF Bases
            <7> QED
              BY <7>2, <7>3
          <6> QED
            BY <6>1, <6>2
        <5> HIDE DEF U
        <5>2. Nat \subseteq U
          BY <5>1, AllNat
        <5> QED
          BY <5>2 DEF U
      <4>2. p >= 1 /\ b * p <= w
        BY <2>2, <3>1, <3>4, <4>1 DEF p
      <4> DEFINE g == b * p
      <4>3. g >= b /\ g \in Nat
        BY <3>4, <4>2 DEF Bases
      <4>4. g <= w
        BY <4>2
      <4> HIDE DEF g
      <4> QED
        BY <3>3, <4>3, <4>4
    <3>9. c(w) = c(q) \o d
      BY <1>1, <3>8 DEF q, d
    <3>10. c(q) \in Seq(Glyphs) /\ D[1 + (w % b)] \in Glyphs
      BY <1>1, <1>2, <3>3
    <3>11. Len(c(w)) = m + 1 + 1
      <4> DEFINE x == c(q)
                 y == D[1 + (w % b)]
      <4>1. x \in Seq(Glyphs) /\ y \in Glyphs /\ c(w) = x \o <<y>> /\ Len(x) = m + 1
        BY <3>7, <3>9, <3>10 DEF d
      <4> HIDE DEF x, y
      <4> QED
        BY <4>1, BehindIs
    <3> QED
      BY <3>1, <3>11
  <2> QED
    BY <2>1, <2>2
<1> HIDE DEF T
<1>4. n \in T
  BY <1>3, AllNat
<1> QED
  BY <1>4 DEF T, c

\* Different values are printed differently, where the digits are different.
THEOREM NumeralsDiffer ==
  ASSUME NEW b \in Bases, NEW D \in [1..16 -> Glyphs],
         \A i, j \in 1..16 : D[i] = D[j] => i = j,
         NEW v \in Nat, NEW w \in Nat, convert_integer(v, b, D) = convert_integer(w, b, D)
  PROVE  v = w
<1> DEFINE c(u) == convert_integer(u, b, D)
           d(u) == D[1 + (u % b)]
           T == {u \in Nat : \A x \in Nat : c(u) = c(x) => u = x}
<1>1. \A u \in Nat : /\ c(u) \in Seq(Glyphs) \ {<<>>}
                     /\ c(u) = IF u < b THEN <<d(u)>> ELSE c(u \div b) \o <<d(u)>>
  BY NumeralIs
<1>2. \A u \in Nat : d(u) \in Glyphs
  BY DigitIs
<1>3. ASSUME NEW u \in Nat, NEW x \in Nat, d(u) = d(x) PROVE u % b = x % b
  <2> DEFINE r == u % b
             q == x % b
  <2>1. 1 + r \in 1..16 /\ 1 + q \in 1..16
    BY DigitIs
  <2>2. r \in Int /\ q \in Int
    BY DivisionIs DEF Bases
  <2>3. 1 + r = 1 + q
    BY <1>3, <2>1
  <2> HIDE DEF r, q
  <2>4. r = q
    BY <2>2, <2>3
  <2> QED
    BY <2>4 DEF r, q
<1> HIDE DEF c, d
\* The last digit and what stands before it.
<1>4. ASSUME NEW u \in Nat
      PROVE  \E s \in Seq(Glyphs) :
               /\ c(u) = s \o <<d(u)>>
               /\ IF u < b THEN s = <<>> ELSE s = c(u \div b) /\ s # <<>>
  <2>1. CASE u < b
    <3>1. <<>> \in Seq(Glyphs) /\ <<d(u)>> \in Seq(Glyphs)
      BY <1>2
    <3>2. <<>> \o <<d(u)>> = <<d(u)>>
      BY <3>1, ConcatEmptySeq
    <3> QED
      BY <1>1, <2>1, <3>1, <3>2
  <2>2. CASE ~(u < b)
    <3>1. u \div b \in Nat
      BY DivisionIs
    <3> QED
      BY <1>1, <2>2, <3>1
  <2> QED
    BY <2>1, <2>2
<1>5. ASSUME NEW u \in Nat, \A m \in Nat : m < u => m \in T PROVE u \in T
  <2> SUFFICES ASSUME NEW x \in Nat, c(u) = c(x) PROVE u = x
    OBVIOUS
  <2>1. PICK s \in Seq(Glyphs) :
          /\ c(u) = s \o <<d(u)>>
          /\ IF u < b THEN s = <<>> ELSE s = c(u \div b) /\ s # <<>>
    BY <1>4
  <2>2. PICK t \in Seq(Glyphs) :
          /\ c(x) = t \o <<d(x)>>
          /\ IF x < b THEN t = <<>> ELSE t = c(x \div b) /\ t # <<>>
    BY <1>4
  <2>3. s = t /\ d(u) = d(x)
    <3> DEFINE y == d(u)
               z == d(x)
               a == c(u)
    <3>1. y \in Glyphs /\ z \in Glyphs /\ a = s \o <<y>> /\ a = t \o <<z>>
      BY <1>2, <2>1, <2>2
    <3> HIDE DEF y, z, a
    <3>2. s = t /\ y = z
      BY <3>1, BehindTells
    <3> QED
      BY <3>2 DEF y, z
  <2>4. u % b = x % b
    BY <1>3, <2>3 DEF d
  <2>5. CASE u < b
    <3>1. x < b
      BY <2>1, <2>2, <2>3, <2>5
    <3>2. u % b = u /\ x % b = x
      BY <2>5, <3>1, DivisionIs
    <3> QED
      BY <2>4, <3>2
  <2>6. CASE ~(u < b)
    <3>1. ~(x < b) /\ c(u \div b) = c(x \div b)
      BY <2>1, <2>2, <2>3, <2>6
    <3>2. b \in Nat /\ b <= u
      BY <2>6 DEF Bases
    <3>3. u \div b \in Nat /\ u \div b < u /\ x \div b \in Nat
      BY <3>2, DivisionIs
    <3>4. u \div b = x \div b
      BY <1>5, <3>1, <3>3
    <3>5. u = b * (u \div b) + (u % b) /\ x = b * (x \div b) + (x % b)
      BY DivisionIs
    <3> QED
      BY <2>4, <3>4, <3>5
  <2> QED
    BY <2>5, <2>6
<1> HIDE DEF T
<1>6. v \in T
  BY <1>5, AllNat
<1> QED
  BY <1>6 DEF T, c

-----------------------------------------------------------------------------
(* What numerals mean.                                                     *)

Differ(D) == \A i, j \in 1..16 : D[i] = D[j] => i = j
Place(c, b, D) == CHOOSE i \in 0..(b - 1) : D[i + 1] = c
DigitsIn(b, D) == {D[i] : i \in 1..b}

LEMMA PlaceIs ==
  ASSUME NEW b \in Bases, NEW D \in [1..16 -> Characters], Differ(D), NEW c \in DigitsIn(b, D)
  PROVE  Place(c, b, D) \in 0..(b - 1) /\ D[Place(c, b, D) + 1] = c /\ c \in Characters
<1>1. b \in Nat /\ b <= 16
  BY DEF Bases
<1>2. PICK i \in 1..b : c = D[i]
  BY DEF DigitsIn
<1>3. i - 1 \in 0..(b - 1) /\ i - 1 + 1 = i /\ i \in 1..16
  BY <1>1
<1>4. \E j \in 0..(b - 1) : D[j + 1] = c
  BY <1>2, <1>3
<1> QED
  BY <1>2, <1>3, <1>4 DEF Place

LEMMA PlaceOf ==
  ASSUME NEW b \in Bases, NEW D \in [1..16 -> Characters], Differ(D), NEW d \in 0..(b - 1)
  PROVE  D[1 + d] \in DigitsIn(b, D) /\ Place(D[1 + d], b, D) = d
<1>1. b \in Nat /\ b <= 16 /\ 1 + d \in 1..b /\ d \in Nat /\ 1 + d \in 1..16
  BY DEF Bases
<1> DEFINE c == D[1 + d]
           e == Place(c, b, D)
<1>2. c \in DigitsIn(b, D)
  BY <1>1 DEF DigitsIn
<1>3. e \in 0..(b - 1) /\ D[e + 1] = D[1 + d]
  <2> HIDE DEF c
  <2>1. e \in 0..(b - 1) /\ D[e + 1] = c
    BY <1>2, PlaceIs
  <2> QED
    BY <2>1 DEF c
<1> HIDE DEF e
<1>4. e + 1 \in 1..16 /\ e \in Int
  BY <1>1, <1>3
<1>5. e + 1 = 1 + d
  BY <1>1, <1>3, <1>4 DEF Differ
<1>6. e = d
  BY <1>1, <1>4, <1>5
<1> QED
  BY <1>2, <1>6 DEF e, c

LEMMA ScaleIs ==
  ASSUME NEW b \in Bases, NEW v \in Nat, NEW e \in Nat
  PROVE  b * v + e \in Nat
<1>1. CASE b = 8
  BY <1>1
<1>2. CASE b = 10
  BY <1>2
<1>3. CASE b = 16
  BY <1>3
<1> QED
  BY <1>1, <1>2, <1>3 DEF Bases

\* f is what the first k digits of t mean.
Means(f, t, b, D) ==
  /\ f \in [0..Len(t) -> Nat] /\ f[0] = 0
  /\ \A k \in 1..Len(t) : f[k] = b * f[k - 1] + Place(t[k], b, D)

LEMMA DenotedIs ==
  ASSUME NEW b \in Bases, NEW D \in [1..16 -> Characters], Differ(D),
         NEW t \in Seq(DigitsIn(b, D))
  PROVE  \E f : Means(f, t, b, D) /\ Denoted(t, b, D) = f[Len(t)]
<1> DEFINE l == Len(t)
           place == [k \in Nat |-> IF k \in 1..l THEN Place(t[k], b, D) ELSE 0]
           next == [x \in Nat \X Nat |-> b * x[1] + place[x[2]]]
<1>1. l \in Nat /\ b \in Nat /\ \A k \in 1..l : t[k] \in DigitsIn(b, D)
  BY LenProperties DEF Bases
<1>2. \A k \in 1..l : Place(t[k], b, D) \in Nat
  <2> SUFFICES ASSUME NEW k \in 1..l PROVE Place(t[k], b, D) \in Nat
    OBVIOUS
  <2> DEFINE c == t[k]
  <2>1. c \in DigitsIn(b, D)
    BY <1>1
  <2> HIDE DEF c
  <2>2. Place(c, b, D) \in 0..(b - 1)
    BY <2>1, PlaceIs
  <2> QED
    BY <1>1, <2>2 DEF c
<1>3. place \in [Nat -> Nat] /\ \A k \in 1..l : place[k] = Place(t[k], b, D)
  <2> HIDE DEF l
  <2> QED
    BY <1>1, <1>2
<1> HIDE DEF place
<1>4. \A v, k \in Nat : b * v + place[k] \in Nat
  <2> SUFFICES ASSUME NEW v \in Nat, NEW k \in Nat PROVE b * v + place[k] \in Nat
    OBVIOUS
  <2> DEFINE e == place[k]
  <2>1. e \in Nat
    BY <1>3
  <2> HIDE DEF e
  <2>2. b * v + e \in Nat
    BY <2>1, ScaleIs
  <2> QED
    BY <2>2 DEF e
<1>5. next \in [Nat \X Nat -> Nat]
  BY <1>4
<1>6. ASSUME NEW v \in Nat, NEW k \in 1..l PROVE next[v, k] = b * v + Place(t[k], b, D)
  <2>1. k \in Nat
    BY <1>1
  <2>2. next[v, k] = b * v + place[k]
    BY <2>1
  <2> QED
    BY <1>3, <2>2
<1>7. PICK f \in [0..l -> Nat] : \A k \in 0..l : f[k] = IF k = 0 THEN 0 ELSE next[f[k - 1], k]
  <2> HIDE DEF l, next
  <2>1. HasCount(Nat, l, 0, next)
    BY <1>1, <1>5, Counting
  <2> QED
    BY <2>1 DEF HasCount
<1> HIDE DEF next
<1>8. f = [k \in 0..Len(t) |-> IF k = 0 THEN 0 ELSE b * f[k - 1] + Place(t[k], b, D)]
  <2>1. ASSUME NEW k \in 0..l, k # 0
        PROVE  f[k] = b * f[k - 1] + Place(t[k], b, D)
    <3>1. k - 1 \in 0..l /\ k \in 1..l
      BY <1>1, <2>1
    <3>2. f[k - 1] \in Nat
      BY <1>7, <3>1
    <3> QED
      BY <1>6, <1>7, <2>1, <3>1, <3>2
  <2>2. \A k \in 0..l : f[k] = IF k = 0 THEN 0 ELSE b * f[k - 1] + Place(t[k], b, D)
    BY <1>7, <2>1
  <2> QED
    BY <2>2
<1> DEFINE upto[k \in 0..Len(t)] == IF k = 0 THEN 0 ELSE b * upto[k - 1] + Place(t[k], b, D)
<1>9. upto = [k \in 0..Len(t) |-> IF k = 0 THEN 0 ELSE b * upto[k - 1] + Place(t[k], b, D)]
  BY <1>8 DEF upto
<1>10. Denoted(t, b, D) = upto[Len(t)]
  BY DEF Denoted, Place
<1> HIDE DEF upto
<1>11. upto[0] = 0 /\ \A k \in 1..l : upto[k] = b * upto[k - 1] + Place(t[k], b, D)
  <2>1. 0 \in 0..l /\ \A k \in 1..l : k \in 0..l /\ k # 0
    BY <1>1
  <2> QED
    BY <1>9, <2>1
<1>12. \A k \in 0..l : upto[k] \in Nat
  <2> DEFINE T == {k \in Nat : upto[k] \in Nat}
  <2>1. 0 \in T
    BY <1>11
  <2>2. ASSUME NEW k \in 1..l, k - 1 \in T PROVE k \in T
    <3> HIDE DEF l
    <3>1. upto[k - 1] \in Nat /\ Place(t[k], b, D) \in Nat
      BY <1>2, <2>2
    <3>2. b * upto[k - 1] + Place(t[k], b, D) \in Nat
      <4> DEFINE v == upto[k - 1]
                 e == Place(t[k], b, D)
      <4> HIDE DEF v, e
      <4> QED
        BY <3>1, ScaleIs DEF v, e
    <3>3. upto[k] = b * upto[k - 1] + Place(t[k], b, D)
      BY <1>11
    <3>4. k \in Nat
      BY <1>1
    <3> QED
      BY <3>2, <3>3, <3>4
  <2> HIDE DEF T, l
  <2>3. 0..l \subseteq T
    BY <1>1, <2>1, <2>2, CountTo
  <2> QED
    BY <2>3 DEF T
<1>13. upto \in [0..l -> Nat]
  BY <1>9, <1>12
<1> QED
  BY <1>10, <1>11, <1>13 DEF Means

\* A digit behind a numeral.
LEMMA DenotedBehind ==
  ASSUME NEW b \in Bases, NEW D \in [1..16 -> Characters], Differ(D),
         NEW s \in Seq(DigitsIn(b, D)), NEW d \in 0..(b - 1)
  PROVE  /\ s \o <<D[1 + d]>> \in Seq(DigitsIn(b, D)) /\ Denoted(s, b, D) \in Nat
         /\ Denoted(s \o <<D[1 + d]>>, b, D) = b * Denoted(s, b, D) + d
<1> DEFINE y == D[1 + d]
           n == Len(s)
           t == s \o <<y>>
<1>1. y \in DigitsIn(b, D) /\ Place(y, b, D) = d
  BY PlaceOf
<1>2. DigitsIn(b, D) \subseteq Characters /\ b \in Nat
  BY PlaceIs DEF Bases
<1> HIDE DEF y
<1>3. /\ n \in Nat /\ t \in Seq(DigitsIn(b, D)) /\ Len(t) = n + 1 /\ t[n + 1] = y
      /\ \A i \in 1..n : t[i] = s[i]
  <2>1. s \in Seq(Glyphs) /\ y \in Glyphs
    BY <1>1, <1>2 DEF Glyphs
  <2>2. t \in Seq(DigitsIn(b, D)) /\ n \in Nat
    <3>1. <<y>> \in Seq(DigitsIn(b, D))
      BY <1>1
    <3> QED
      BY <3>1, ConcatProperties, LenProperties
  <2> QED
    BY <2>1, <2>2, BehindIs
<1>4. PICK f : Means(f, t, b, D) /\ Denoted(t, b, D) = f[Len(t)]
  <2> HIDE DEF t
  <2> QED
    BY <1>3, DenotedIs
<1>5. PICK g : Means(g, s, b, D) /\ Denoted(s, b, D) = g[n]
  BY DenotedIs
<1> HIDE DEF t, n
<1>6. /\ f[0] = 0 /\ g[0] = 0
      /\ \A k \in 1..(n + 1) : f[k] = b * f[k - 1] + Place(t[k], b, D)
      /\ \A k \in 1..n : g[k] = b * g[k - 1] + Place(s[k], b, D)
      /\ g \in [0..n -> Nat]
  BY <1>3, <1>4, <1>5 DEF Means, n
<1> DEFINE T == {k \in Nat : f[k] = g[k]}
<1>7. 0 \in T
  BY <1>6
<1>8. ASSUME NEW k \in 1..n, k - 1 \in T PROVE k \in T
  <2>1. k \in 1..(n + 1) /\ k \in Nat
    BY <1>3
  <2>2. t[k] = s[k] /\ f[k - 1] = g[k - 1]
    BY <1>3, <1>8
  <2>3. f[k] = b * f[k - 1] + Place(t[k], b, D) /\ g[k] = b * g[k - 1] + Place(s[k], b, D)
    BY <1>6, <2>1
  <2> QED
    BY <2>1, <2>2, <2>3
<1> HIDE DEF T
<1>9. n \in T
  <2>1. 0..n \subseteq T
    BY <1>3, <1>7, <1>8, CountTo
  <2> QED
    BY <1>3, <2>1
<1>10. f[n] = g[n] /\ g[n] \in Nat
  BY <1>3, <1>6, <1>9 DEF T
<1>11. f[n + 1] = b * f[n] + d
  <2>1. n + 1 \in 1..(n + 1) /\ n + 1 - 1 = n
    BY <1>3
  <2>2. PICK k \in 1..(n + 1) : k = n + 1
    BY <2>1
  <2>3. k - 1 = n /\ t[k] = y
    BY <1>3, <2>2
  <2>4. f[k] = b * f[k - 1] + Place(t[k], b, D)
    BY <1>6
  <2> QED
    BY <1>1, <2>2, <2>3, <2>4
<1>12. Denoted(t, b, D) = b * Denoted(s, b, D) + d /\ Denoted(s, b, D) \in Nat
  BY <1>3, <1>4, <1>5, <1>10, <1>11
<1> QED
  BY <1>3, <1>12 DEF t, y

LEMMA DenotedNone ==
  ASSUME NEW b \in Bases, NEW D \in [1..16 -> Characters], Differ(D)
  PROVE  Denoted(<<>>, b, D) = 0
<1> DEFINE t == <<>>
<1>1. t \in Seq(DigitsIn(b, D)) /\ Len(t) = 0
  OBVIOUS
<1> HIDE DEF t
<1>2. PICK f : Means(f, t, b, D) /\ Denoted(t, b, D) = f[Len(t)]
  BY <1>1, DenotedIs
<1> QED
  BY <1>1, <1>2 DEF Means, t

\* A text that is not empty has a last character.
LEMMA LastIs ==
  ASSUME NEW S, NEW t \in Seq(S), t # <<>>
  PROVE  \E s \in Seq(S), y \in S :
           /\ t = s \o <<y>> /\ Len(s) \in Nat /\ Len(t) = Len(s) + 1
           /\ t[Len(s) + 1] = y /\ \A i \in 1..Len(s) : t[i] = s[i]
<1>1. PICK s \in Seq(S), y \in S : t = Append(s, y)
  BY SequenceEmptyOrAppend
<1>2. Append(s, y) = s \o <<y>>
  BY AppendIsConcat
<1>3. /\ Len(s) \in Nat /\ Len(Append(s, y)) = Len(s) + 1 /\ Append(s, y)[Len(s) + 1] = y
      /\ \A i \in 1..Len(s) : Append(s, y)[i] = s[i]
  BY AppendProperties, LenProperties
<1> QED
  BY <1>1, <1>2, <1>3

LEMMA DigitsStand ==
  ASSUME NEW b, NEW D, NEW t \in Seq(DigitsIn(b, D))
  PROVE  \A n \in DOMAIN t : \E i \in 1..b : t[n] = D[i]
<1> DEFINE X == DigitsIn(b, D)
<1>1. t \in Seq(X)
  OBVIOUS
<1> HIDE DEF X
<1>2. \A n \in DOMAIN t : t[n] \in X
  BY <1>1
<1> QED
  BY <1>2 DEF X, DigitsIn

\* The numeral convert_integer() gives means its value and is the shortest.
LEMMA ConvertedMeans ==
  ASSUME NEW b \in Bases, NEW D \in [1..16 -> Characters], Differ(D), NEW v \in Nat
  PROVE  /\ convert_integer(v, b, D) \in Seq(DigitsIn(b, D))
         /\ IsNumeral(convert_integer(v, b, D), v, b, D)
<1> DEFINE c(w) == convert_integer(w, b, D)
           d(w) == w % b
           T == {w \in Nat : c(w) \in Seq(DigitsIn(b, D)) /\ IsNumeral(c(w), w, b, D)}
<1>1. \A w \in Nat : /\ c(w) \in Seq(Glyphs) \ {<<>>}
                     /\ c(w) = IF w < b THEN <<D[1 + d(w)]>> ELSE c(w \div b) \o <<D[1 + d(w)]>>
  <2>1. D \in [1..16 -> Glyphs]
    BY DEF Glyphs
  <2> QED
    BY <2>1, NumeralIs
<1>2. \A w \in Nat : /\ d(w) \in 0..(b - 1) /\ w \div b \in Nat /\ w = b * (w \div b) + d(w)
                     /\ b <= w => w \div b < w /\ w \div b > 0
                     /\ w < b => d(w) = w
  BY DivisionIs
<1> HIDE DEF c, d
<1>3. b \in Nat /\ 1 \in 1..b /\ 0 \in 0..(b - 1)
  BY DEF Bases
<1>4. Denoted(<<>>, b, D) = 0 /\ <<>> \in Seq(DigitsIn(b, D))
  BY DenotedNone
<1>5. \A e \in 0..(b - 1) : /\ <<D[1 + e]>> \in Seq(DigitsIn(b, D))
                            /\ Denoted(<<D[1 + e]>>, b, D) = e
  <2> SUFFICES ASSUME NEW e \in 0..(b - 1)
               PROVE  <<D[1 + e]>> \in Seq(DigitsIn(b, D)) /\ Denoted(<<D[1 + e]>>, b, D) = e
    OBVIOUS
  <2> DEFINE s == <<>>
  <2>1. s \in Seq(DigitsIn(b, D)) /\ Denoted(s, b, D) = 0
    BY <1>4
  <2>2. s \o <<D[1 + e]>> = <<D[1 + e]>>
    OBVIOUS
  <2> HIDE DEF s
  <2>3. /\ s \o <<D[1 + e]>> \in Seq(DigitsIn(b, D))
        /\ Denoted(s \o <<D[1 + e]>>, b, D) = b * Denoted(s, b, D) + e
    BY <2>1, DenotedBehind
  <2>4. b * 0 + e = e
    BY <1>3
  <2> QED
    BY <2>1, <2>2, <2>3, <2>4
<1>6. \A t \in Seq(DigitsIn(b, D)) : \A n \in DOMAIN t : \E i \in 1..b : t[n] = D[i]
  BY DigitsStand
<1>7. ASSUME NEW w \in Nat, \A m \in Nat : m < w => m \in T PROVE w \in T
  <2>1. CASE w < b
    <3>1. c(w) = <<D[1 + w]>> /\ w \in 0..(b - 1)
      BY <1>1, <1>2, <2>1, <1>3
    <3>2. c(w) \in Seq(DigitsIn(b, D)) /\ Denoted(c(w), b, D) = w /\ Len(c(w)) = 1
      BY <1>5, <3>1
    <3> QED
      BY <1>1, <1>6, <3>2 DEF IsNumeral
  <2>2. CASE ~(w < b)
    <3> DEFINE s == c(w \div b)
               y == D[1 + d(w)]
    <3>1. w \div b \in Nat /\ w \div b < w /\ w \div b > 0
      <4>1. b <= w
        BY <1>3, <2>2
      <4> QED
        BY <1>2, <4>1
    <3>2. s \in Seq(DigitsIn(b, D)) /\ IsNumeral(s, w \div b, b, D) /\ s \in Seq(Glyphs)
      BY <1>1, <1>7, <3>1
    <3>3. c(w) = s \o <<y>>
      BY <1>1, <2>2
    <3>4. y \in DigitsIn(b, D) /\ y \in Glyphs
      <4>1. d(w) \in 0..(b - 1)
        BY <1>2
      <4> HIDE DEF d
      <4>2. y \in DigitsIn(b, D)
        BY <4>1, PlaceOf
      <4> QED
        BY <4>2, PlaceIs DEF Glyphs
    <3>5. c(w) \in Seq(DigitsIn(b, D)) /\ Denoted(c(w), b, D) = w
      <4>1. d(w) \in 0..(b - 1) /\ w = b * (w \div b) + d(w)
        BY <1>2
      <4>2. /\ s \o <<y>> \in Seq(DigitsIn(b, D))
            /\ Denoted(s \o <<y>>, b, D) = b * Denoted(s, b, D) + d(w)
        <5> HIDE DEF s
        <5> QED
          BY <3>2, <4>1, DenotedBehind
      <4>3. Denoted(s, b, D) = w \div b
        BY <3>2 DEF IsNumeral
      <4> QED
        BY <3>3, <4>1, <4>2, <4>3
    <3> HIDE DEF s, y
    <3>6. Len(s) \in Nat /\ Len(s) > 0 /\ s[1] # D[1]
      <4>1. s # <<>> /\ Len(s) \in Nat
        BY <3>2, LenProperties DEF IsNumeral
      <4>2. Len(s) > 0
        BY <3>2, <4>1, EmptySeq
      <4>3. ASSUME s[1] = D[1] PROVE FALSE
        <5>1. Len(s) = 1
          BY <3>2, <4>3 DEF IsNumeral
        <5>2. s = <<D[1]>>
          BY <3>2, <4>3, <5>1
        <5>3. Denoted(s, b, D) = 0
          <6>1. D[1 + 0] = D[1] /\ Denoted(<<D[1 + 0]>>, b, D) = 0
            BY <1>3, <1>5
          <6> QED
            BY <5>2, <6>1
        <5> QED
          BY <3>1, <3>2, <5>3 DEF IsNumeral
      <4> QED
        BY <4>1, <4>2, <4>3
    <3>7. c(w)[1] # D[1]
      <4>1. \A i \in 1..Len(s) : (s \o <<y>>)[i] = s[i]
        BY <3>2, <3>4, BehindIs
      <4> QED
        BY <3>3, <3>6, <4>1
    <3> QED
      BY <1>1, <1>6, <3>5, <3>7 DEF IsNumeral
  <2> QED
    BY <2>1, <2>2
<1> HIDE DEF T
<1>8. v \in T
  BY <1>7, AllNat
<1> QED
  BY <1>8 DEF T, c

\* Sixteen digits are enough to tell, and convert_integer() gives the one text
\* that means its value and has no digit too many (printf.c:16).
THEOREM NumeralMeans ==
  ASSUME NEW b \in Bases, NEW D \in [1..16 -> Characters], \A i, j \in 1..16 : D[i] = D[j] => i = j,
         NEW v \in Nat, NEW t \in Seq(Glyphs)
  PROVE  IsNumeral(t, v, b, D) <=> t = convert_integer(v, b, D)
<1> DEFINE c(w) == convert_integer(w, b, D)
           T == {n \in Nat : \A u \in Seq(DigitsIn(b, D)), w \in Nat :
                               Len(u) = n + 1 /\ IsNumeral(u, w, b, D) => u = c(w)}
<1>1. Differ(D)
  BY DEF Differ
<1>2. \A w \in Nat : /\ c(w) \in Seq(Glyphs) \ {<<>>}
                     /\ c(w) = IF w < b THEN <<D[1 + (w % b)]>>
                               ELSE c(w \div b) \o <<D[1 + (w % b)]>>
  <2>1. D \in [1..16 -> Glyphs]
    BY DEF Glyphs
  <2> QED
    BY <2>1, NumeralIs
<1>3. \A w \in Nat : c(w) \in Seq(DigitsIn(b, D)) /\ IsNumeral(c(w), w, b, D)
  BY <1>1, ConvertedMeans
<1>8. \A r \in Seq(DigitsIn(b, D)) : \A k \in DOMAIN r : \E i \in 1..b : r[k] = D[i]
  BY DigitsStand
<1> HIDE DEF c
<1>4. b \in Nat /\ b > 0 /\ 0 \in 0..(b - 1)
  BY DEF Bases
\* A digit behind a numeral of q, or behind nothing.
<1>5. ASSUME NEW q \in Nat, NEW d \in 0..(b - 1)
      PROVE  b * q + d \in Nat /\ (b * q + d) % b = d /\ (b * q + d) \div b = q
             /\ (b * q + d < b <=> q = 0)
  <2>1. CASE b = 8
    BY <1>5, <2>1
  <2>2. CASE b = 10
    BY <1>5, <2>2
  <2>3. CASE b = 16
    BY <1>5, <2>3
  <2> QED
    BY <2>1, <2>2, <2>3 DEF Bases
<1>6. ASSUME NEW n \in Nat, \A m \in Nat : m < n => m \in T PROVE n \in T
  <2> SUFFICES ASSUME NEW u \in Seq(DigitsIn(b, D)), NEW w \in Nat,
                      Len(u) = n + 1, IsNumeral(u, w, b, D)
               PROVE  u = c(w)
    OBVIOUS
  <2> HIDE DEF T
  <2>1. u # <<>> /\ Denoted(u, b, D) = w /\ (u[1] = D[1] => Len(u) = 1)
    BY DEF IsNumeral
  <2>2. PICK s \in Seq(DigitsIn(b, D)), y \in DigitsIn(b, D) :
          /\ u = s \o <<y>> /\ Len(s) \in Nat /\ Len(u) = Len(s) + 1
          /\ u[Len(s) + 1] = y /\ \A i \in 1..Len(s) : u[i] = s[i]
    <3> DEFINE X == DigitsIn(b, D)
    <3>1. u \in Seq(X)
      OBVIOUS
    <3> HIDE DEF X
    <3>2. \E s \in Seq(X), y \in X :
            /\ u = s \o <<y>> /\ Len(s) \in Nat /\ Len(u) = Len(s) + 1
            /\ u[Len(s) + 1] = y /\ \A i \in 1..Len(s) : u[i] = s[i]
      BY <2>1, <3>1, LastIs
    <3> QED
      BY <3>2 DEF X
  <2>3. PICK d \in 0..(b - 1) : y = D[1 + d]
    <3>1. y = D[Place(y, b, D) + 1] /\ Place(y, b, D) \in 0..(b - 1)
      BY <1>1, PlaceIs
    <3>2. Place(y, b, D) + 1 = 1 + Place(y, b, D)
      BY <1>4, <3>1
    <3> QED
      BY <3>1, <3>2
  <2> DEFINE q == Denoted(s, b, D)
  <2>4. q \in Nat /\ w = b * q + d
    BY <1>1, <2>1, <2>2, <2>3, DenotedBehind
  <2> HIDE DEF q
  <2>5. w % b = d /\ w \div b = q /\ (w < b <=> q = 0)
    BY <1>5, <2>4
  <2>6. CASE n = 0
    <3>1. s = <<>>
      BY <2>2, <2>6, EmptySeq
    <3>2. q = 0
      BY <1>1, <3>1, DenotedNone DEF q
    <3>3. u = <<y>>
      BY <2>2, <3>1
    <3> QED
      BY <1>2, <2>3, <2>5, <3>2, <3>3
  <2>7. CASE n # 0
    <3>1. Len(s) = n /\ n > 0 /\ s # <<>>
      <4>1. Len(s) = n /\ n > 0
        BY <2>2, <2>7
      <4>2. Len(<<>>) = 0
        OBVIOUS
      <4> QED
        BY <2>7, <4>1, <4>2
    <3>2. s[1] = u[1] /\ s[1] # D[1]
      BY <2>1, <2>2, <3>1
    <3>3. \A k \in DOMAIN s : \E i \in 1..b : s[k] = D[i]
      <4>1. s \in Seq(DigitsIn(b, D))
        BY <2>2
      <4>2. \A r \in Seq(DigitsIn(b, D)) : \A k \in DOMAIN r : \E i \in 1..b : r[k] = D[i]
        BY <1>8
      <4> QED
        BY <4>1, <4>2
    <3>4. IsNumeral(s, q, b, D)
      BY <3>1, <3>2, <3>3 DEF IsNumeral, q
    <3>5. s = c(q)
      <4>1. n - 1 \in Nat /\ n - 1 < n /\ Len(s) = n - 1 + 1
        BY <3>1
      <4>2. n - 1 \in T
        BY <1>6, <4>1
      <4> QED
        BY <2>4, <3>4, <4>1, <4>2 DEF T
    <3>6. q # 0
      <4>1. ASSUME q = 0 PROVE FALSE
        <5>1. 0 \in Nat /\ 0 < b
          BY <1>4
        <5>2. 0 % b = 0
          BY <5>1, DivisionIs
        <5>3. c(0) = <<D[1 + (0 % b)]>>
          BY <1>2, <5>1
        <5>4. c(q) = <<D[1]>>
          BY <4>1, <5>2, <5>3
        <5> QED
          BY <3>2, <3>5, <5>4
      <4> QED
        BY <4>1
    <3>7. c(w) = c(q) \o <<D[1 + d]>>
      BY <1>2, <2>5, <3>6
    <3> QED
      BY <2>2, <2>3, <3>5, <3>7
  <2> QED
    BY <2>6, <2>7
<1> HIDE DEF T
<1>7. ASSUME IsNumeral(t, v, b, D) PROVE t = c(v)
  <2>1. t # <<>> /\ \A n \in DOMAIN t : \E i \in 1..b : t[n] = D[i]
    BY <1>7 DEF IsNumeral
  <2>2. t \in Seq(DigitsIn(b, D))
    <3>1. \A n \in 1..Len(t) : t[n] \in DigitsIn(b, D)
      BY <2>1 DEF DigitsIn
    <3> QED
      BY <3>1, LenProperties
  <2>3. PICK n \in Nat : Len(t) = n + 1
    <3>1. Len(t) \in Nat /\ Len(t) # 0
      BY <2>1, LenProperties, EmptySeq
    <3>2. Len(t) - 1 \in Nat /\ Len(t) = Len(t) - 1 + 1
      BY <3>1
    <3> QED
      BY <3>2
  <2>4. n \in T
    BY <1>6, AllNat
  <2> QED
    BY <1>7, <2>2, <2>3, <2>4 DEF T
<1> QED
  BY <1>3, <1>7 DEF c

-----------------------------------------------------------------------------
(* The format.                                                             *)

LEMMA GlyphsAre == Seq(Characters) \subseteq Seq(Glyphs)
  BY DEF Glyphs

LEMMA CallsAre ==
  ASSUME NEW r \in Calls \cup Quiet
  PROVE  /\ Len(r.pieces) \in Nat
         /\ \A i \in 1..Len(r.pieces) :
              /\ IsPiece(r, i) /\ r.pieces[i].chars \in Seq(Characters)
              /\ r.pieces[i].args \in Seq(Argument) /\ r.pieces[i].text \in Seq(Glyphs)
              /\ CharsOf(r)[i] = r.pieces[i].chars
              /\ ArgsOf(r)[i] = r.pieces[i].args /\ TextOf(r)[i] = r.pieces[i].text
         /\ CharsOf(r) \in Seq(Seq(Characters)) /\ Len(CharsOf(r)) = Len(r.pieces)
         /\ ArgsOf(r) \in Seq(Seq(Argument)) /\ Len(ArgsOf(r)) = Len(r.pieces)
         /\ TextOf(r) \in Seq(Seq(Glyphs)) /\ Len(TextOf(r)) = Len(r.pieces)
         /\ r.fmt = Joined(CharsOf(r), Len(r.pieces)) /\ r.fmt \in Seq(Characters)
         /\ r.args = Joined(ArgsOf(r), Len(r.pieces)) /\ r.args \in Seq(Argument)
<1> DEFINE P == [chars : Seq(Characters), args : Seq(Argument), text : Seq(Glyphs)]
           ps == r.pieces
           n == Len(ps)
<1>1. /\ ps \in Seq(P) /\ \A i \in DOMAIN ps : IsPiece(r, i)
      /\ r.fmt = Joined(CharsOf(r), n) /\ r.args = Joined(ArgsOf(r), n)
  BY ConsoleAssumption DEF ConsoleAssumption
<1>2. n \in Nat /\ DOMAIN ps = 1..n /\ \A i \in 1..n : ps[i] \in P
  <2> HIDE DEF P, ps
  <2> QED
    BY <1>1, LenProperties
<1>3. \A i \in 1..n : /\ ps[i].chars \in Seq(Characters) /\ ps[i].args \in Seq(Argument)
                      /\ ps[i].text \in Seq(Glyphs)
  <2> HIDE DEF ps, n
  <2> QED
    BY <1>2
<1>4. /\ CharsOf(r) = [i \in 1..n |-> ps[i].chars]
      /\ ArgsOf(r) = [i \in 1..n |-> ps[i].args]
      /\ TextOf(r) = [i \in 1..n |-> ps[i].text]
  BY <1>2 DEF CharsOf, ArgsOf, TextOf
<1> HIDE DEF P, ps, n
<1>5. /\ CharsOf(r) \in Seq(Seq(Characters)) /\ Len(CharsOf(r)) = n
      /\ ArgsOf(r) \in Seq(Seq(Argument)) /\ Len(ArgsOf(r)) = n
      /\ TextOf(r) \in Seq(Seq(Glyphs)) /\ Len(TextOf(r)) = n
  BY <1>2, <1>3, <1>4
<1>6. n \in 0..n
  BY <1>2
<1>7. Joined(CharsOf(r), n) \in Seq(Characters) /\ Joined(ArgsOf(r), n) \in Seq(Argument)
  BY <1>5, <1>6, JoinedIs
<1> QED
  BY <1>1, <1>2, <1>3, <1>4, <1>5, <1>7 DEF ps, n

LEMMA FormatsAreText ==
  ASSUME request \in Calls \cup Quiet \cup {NoRequest}
  PROVE  fmt \in Seq(Glyphs) /\ Len(fmt) \in Nat
<1>1. CASE request \in Calls \cup Quiet
  <2>1. request.fmt \in Seq(Glyphs)
    BY <1>1, CallsAre, GlyphsAre
  <2> QED
    BY <2>1, LenProperties DEF fmt
<1>2. CASE request = NoRequest
  <2>1. fmt = <<>>
    BY <1>2 DEF NoRequest, fmt
  <2> QED
    BY <2>1
<1> QED
  BY <1>1, <1>2

LEMMA RunEndIs ==
  ASSUME fmt \in Seq(Glyphs), NEW p \in 1..Len(fmt)
  PROVE  /\ RunEnd(p) \in (p + 1)..(Len(fmt) + 1)
         /\ \A q \in (p + 1)..(RunEnd(p) - 1) : Char(q) # "%"
         /\ Char(RunEnd(p)) \in {"%", NUL}
<1> DEFINE n == Len(fmt)
           T == {e \in (p + 1)..(n + 1) : Char(e) \in {"%", NUL}}
<1>1. n \in Nat /\ p \in 1..n
  BY LenProperties
<1>2. n + 1 \in T
  <2>1. Char(n + 1) = NUL
    <3>1. ~(n + 1 <= n)
      BY <1>1
    <3> QED
      BY <3>1 DEF Char, CharAt
  <2> HIDE DEF n
  <2> QED
    BY <1>1, <2>1
<1>3. PICK e \in T : \A q \in T : e <= q
  <2>1. T \subseteq Nat
    <3> HIDE DEF n
    <3> QED
      BY <1>1
  <2> HIDE DEF T
  <2> QED
    BY <1>2, <2>1, LeastNat
<1>4. \A q \in (p + 1)..(e - 1) : Char(q) # "%"
  <2> SUFFICES ASSUME NEW q \in (p + 1)..(e - 1), Char(q) = "%" PROVE FALSE
    OBVIOUS
  <2> HIDE DEF n
  <2>1. q \in (p + 1)..(n + 1) /\ ~(e <= q)
    BY <1>1
  <2> QED
    BY <1>3, <2>1
<1>5. \E k \in (p + 1)..(n + 1) : /\ Char(k) \in {"%", NUL}
                                  /\ \A q \in (p + 1)..(k - 1) : Char(q) # "%"
  BY <1>3, <1>4
<1> QED
  BY <1>5 DEF RunEnd

LEMMA ModifierIs ==
  ASSUME NEW p \in Nat
  PROVE  /\ Modifier(p) \in length_modifiers /\ Len(Modifier(p)) \in 0..2
         /\ StandsAt(fmt, p, Modifier(p))
         /\ \A m \in length_modifiers : StandsAt(fmt, p, m) => Len(m) <= Len(Modifier(p))
<1> DEFINE here == {m \in length_modifiers : StandsAt(fmt, p, m)}
<1>1. \A m \in length_modifiers : Len(m) \in 0..2
  BY DEF length_modifiers
<1>2. <<>> \in here /\ Len(<<>>) = 0
  BY DEF length_modifiers, StandsAt
<1>3. \A m \in here : Len(m) \in 0..2
  BY <1>1
<1> HIDE DEF here
<1>4. \E m \in here : \A k \in here : Len(k) <= Len(m)
  <2>1. CASE \E m \in here : Len(m) = 2
    BY <1>3, <2>1
  <2>2. CASE (\A m \in here : Len(m) # 2) /\ \E m \in here : Len(m) = 1
    BY <1>3, <2>2
  <2>3. CASE \A m \in here : Len(m) # 2 /\ Len(m) # 1
    BY <1>2, <1>3, <2>3
  <2> QED
    BY <2>1, <2>2, <2>3
<1>5. Modifier(p) \in here /\ \A m \in here : Len(m) <= Len(Modifier(p))
  <2>1. Modifier(p) = CHOOSE m \in here : \A k \in here : Len(k) <= Len(m)
    BY DEF Modifier, here
  <2> QED
    BY <1>4, <2>1
<1>6. Modifier(p) \in length_modifiers /\ StandsAt(fmt, p, Modifier(p))
  BY <1>5 DEF here
<1>7. \A m \in length_modifiers : StandsAt(fmt, p, m) => Len(m) <= Len(Modifier(p))
  BY <1>5 DEF here
<1> QED
  BY <1>1, <1>6, <1>7

\* A directive that is understood ends within the format.
LEMMA UnderstoodEnds ==
  ASSUME fmt \in Seq(Glyphs), NEW p \in Nat, Understood(p)
  PROVE  Len(Modifier(p)) \in Nat /\ p + Len(Modifier(p)) <= Len(fmt)
<1> DEFINE l == Len(Modifier(p))
           n == Len(fmt)
<1>1. l \in Nat /\ n \in Nat
  BY ModifierIs, LenProperties
<1>2. Char(p + l) # NUL
  BY DEF Understood, Implemented, Conversion, NUL
<1>3. p + l <= n
  BY <1>2 DEF Char, CharAt
<1> QED
  BY <1>1, <1>3

-----------------------------------------------------------------------------
(* Types: between calls the format starts anew.                            *)

TypedInv == TypeOK /\ (call = "none" => pos = 1)

LEMMA SizesAre == Width \in Nat /\ Height \in Nat /\ TabLength \in Nat
                  /\ Width > 0 /\ Height > 0 /\ TabLength > 0
  BY TerminalAssumption DEF TerminalAssumption

LEMMA PutcharTyped ==
  ASSUME ScreenType, NEW c, terminal_putchar(c)
  PROVE  row' \in 0..(Height - 1) /\ column' \in 0..Width /\ cells' \in [Indices -> Inks]
<1>1. NextRow \in 0..(Height - 1)
  BY SizesAre DEF ScreenType, NextRow
<1>2. Scrolled \in [Indices -> Inks]
  BY DEF Scrolled, ScreenType, Ink, Inks
<1>3. NextCells \in [Indices -> Inks]
  BY <1>2 DEF ScreenType, NextCells
<1>4. ASSUME NEW cs \in [Indices -> Inks], NEW x, NEW y
      PROVE  Entry(cs, c, x, y) \in [Indices -> Inks]
  <2>1. Ink(c) \in Inks
    BY DEF Ink, Inks
  <2> QED
    BY <2>1 DEF Entry
<1>5. CASE terminal_newline
  BY <1>1, <1>3, <1>5, SizesAre DEF terminal_newline
<1>6. CASE column' = 0 /\ UNCHANGED <<row, cells>>
  BY <1>6, SizesAre DEF ScreenType
<1>7. CASE PutPlain(c)
  <2>1. CASE column = Width
    BY <1>1, <1>3, <1>4, <1>7, <2>1, SizesAre DEF PutPlain
  <2>2. CASE column # Width
    BY <1>4, <1>7, <2>2, SizesAre DEF PutPlain, ScreenType
  <2> QED
    BY <2>1, <2>2
<1> QED
  BY <1>5, <1>6, <1>7 DEF terminal_putchar

LEMMA TypedInit == Init => TypedInv
<1> SUFFICES ASSUME Init PROVE TypedInv
  OBVIOUS
<1>1. ScreenType
  <2>1. BlankCells \in [Indices -> Inks]
    BY DEF BlankCells, Ink, Inks
  <2> QED
    BY <2>1, SizesAre DEF Init, terminal_initialize, ScreenType
<1>2. pos \in 1..(Len(fmt) + 1)
  <2>1. fmt = <<>>
    BY DEF Init, NoRequest, fmt
  <2> QED
    BY <2>1 DEF Init
<1> QED
  BY <1>1, <1>2 DEF Init, TypedInv, TypeOK

LEMMA TypedStep == TypedInv /\ [Next]_vars => TypedInv'
<1> SUFFICES ASSUME TypedInv, [Next]_vars PROVE TypedInv'
  OBVIOUS
<1> USE DEF TypedInv
<1>1. /\ fmt \in Seq(Glyphs) /\ Len(fmt) \in Nat
      /\ pos \in 1..(Len(fmt) + 1) /\ argp \in Nat
  BY FormatsAreText DEF TypeOK
<1>2. ASSUME NEW p \in Nat, PrintRun(p), p <= Len(fmt), p >= 1,
             call # "none", rejected' \in BOOLEAN
      PROVE  TypedInv'
  <2>1. RunEnd(p) \in (p + 1)..(Len(fmt) + 1)
    BY <1>1, <1>2, RunEndIs
  <2>2. pos' \in 1..(Len(fmt) + 1)
    <3> DEFINE n == Len(fmt)
               e == RunEnd(p)
    <3>1. n \in Nat /\ e \in (p + 1)..(n + 1)
      BY <1>1, <2>1
    <3>2. pos' = e
      BY <1>2 DEF PrintRun
    <3> HIDE DEF n, e
    <3>3. pos' \in 1..(n + 1)
      BY <1>2, <3>1, <3>2
    <3> QED
      BY <3>3 DEF n
  <2> QED
    BY <1>2, <2>2 DEF PrintRun, TypeOK, ScreenType, screen, history, fmt
<1>3. CASE Text
  <2>1. pos <= Len(fmt) /\ call # "none" /\ PrintRun(pos) /\ rejected' \in BOOLEAN
    BY <1>3 DEF Text, Between, TypeOK
  <2> QED
    BY <1>1, <1>2, <2>1
<1>4. CASE PercentSign
  <2>1. call # "none" /\ PrintRun(pos + 1) /\ rejected' \in BOOLEAN
    BY <1>4 DEF PercentSign, Directive, Between, TypeOK
  <2>2. Char(pos + 1) # NUL
    BY <1>4 DEF PercentSign, NUL
  <2>3. pos + 1 <= Len(fmt)
    BY <2>2 DEF Char, CharAt
  <2>4. pos + 1 \in Nat /\ pos + 1 >= 1
    BY <1>1
  <2> HIDE DEF TypedInv
  <2> QED
    BY <1>2, <2>1, <2>3, <2>4
<1>5. CASE Reject
  <2>1. pos <= Len(fmt) /\ call # "none" /\ PrintRun(pos) /\ rejected' \in BOOLEAN
    BY <1>5 DEF Reject, Directive, Between
  <2> QED
    BY <1>1, <1>2, <2>1
<1>6. CASE Convert
  <2>1. pos' \in 1..(Len(fmt) + 1)
    <3> DEFINE n == Len(fmt)
               l == Len(Modifier(pos + 1))
    <3>1. pos + 1 \in Nat /\ n \in Nat /\ pos \in 1..(n + 1)
      BY <1>1
    <3>2. l \in Nat /\ pos + 1 + l <= n
      BY <1>1, <1>6, <3>1, UnderstoodEnds DEF Convert
    <3>3. pos' = pos + 2 + l
      BY <1>6 DEF Convert
    <3> HIDE DEF n, l
    <3>4. pos' \in 1..(n + 1)
      BY <3>1, <3>2, <3>3
    <3> QED
      BY <3>4 DEF n
  <2>2. argp' \in Nat
    <3>1. \A t : WordsOf(t) \in Nat
      BY DEF WordsOf
    <3>2. PICK t : argp' = argp + WordsOf(t)
      BY <1>6 DEF Convert
    <3> QED
      BY <1>1, <3>1, <3>2
  <2>3. misread' \in BOOLEAN
    <3>1. PICK t : misread' = (misread \/ ~Finds(t))
      BY <1>6 DEF Convert
    <3> QED
      BY <3>1
  <2>4. cursor' \in (0..Width) \X (0..(Height - 1))
    BY <1>6 DEF Convert, TypeOK, ScreenType
  <2>5. UNCHANGED <<row, column, cells, call, request, rejected>> /\ call # "none"
    BY <1>6 DEF Convert, Directive, Between
  <2> QED
    BY <2>1, <2>2, <2>3, <2>4, <2>5 DEF TypeOK, ScreenType, fmt
<1>7. CASE WriteChar
  <2>1. ScreenType'
    <3>1. CASE UNCHANGED screen
      BY <3>1 DEF screen, ScreenType, TypeOK
    <3>2. CASE ~(UNCHANGED screen)
      <4>1. /\ terminal_putchar(Head(todo))
            /\ cursor' = <<column', row'>> \/ cursor' = cursor
        BY <1>7, <3>2 DEF WriteChar, terminal_updatecurser
      <4>2. row' \in 0..(Height - 1) /\ column' \in 0..Width /\ cells' \in [Indices -> Inks]
        BY <4>1, PutcharTyped DEF TypeOK
      <4> QED
        BY <4>1, <4>2 DEF ScreenType, TypeOK
    <3> QED
      BY <3>1, <3>2
  <2>2. UNCHANGED <<call, request, pos, argp, rejected, misread>>
    BY <1>7 DEF WriteChar
  <2> QED
    BY <2>1, <2>2 DEF TypeOK, fmt
<1>8. CASE Finish
  <2>1. fmt' = <<>> /\ pos' = 1
    BY <1>8 DEF Finish, fmt, NoRequest
  <2>2. pos' \in 1..(Len(fmt') + 1)
    BY <2>1
  <2> QED
    BY <1>8, <2>2 DEF Finish, TypeOK, ScreenType, screen
<1>9. ASSUME NEW name \in {"tprintf", "printf"}, NEW r \in Calls \cup Quiet, Begin(name, r)
      PROVE  TypedInv'
  <2>1. r.fmt \in Seq(Glyphs)
    BY CallsAre, GlyphsAre
  <2>2. fmt' = r.fmt /\ Len(r.fmt) \in Nat /\ pos' = 1
    BY <1>9, <2>1, LenProperties DEF Begin, fmt
  <2> QED
    BY <1>9, <2>2 DEF Begin, TypeOK, ScreenType, screen
<1>10. CASE UNCHANGED vars
  BY <1>10 DEF vars, screen, TypeOK, ScreenType, fmt
<1> HIDE DEF TypedInv
<1> QED
  BY <1>3, <1>4, <1>5, <1>6, <1>7, <1>8, <1>9, <1>10
  DEF Next, Work, tprintf, printf

\* The next character goes into the buffer and the next read into the format or
\* on its end: row, column, cursor and position keep to their ranges, whatever
\* the formats and the arguments (tty.c:95, printf.c).
THEOREM TypeCorrect == Spec => []TypeOK
<1>1. Spec => []TypedInv
  BY TypedInit, TypedStep, PTL DEF Spec
<1>2. TypedInv => TypeOK
  BY DEF TypedInv
<1> QED
  BY <1>1, <1>2, PTL

-----------------------------------------------------------------------------
(* The screen against the paper.  While the blanks of a tab are written the *)
(* paper is ahead of the screen by those still owed; they start on the line *)
(* the screen wraps to when its own is full.                                *)

Line == [0..(Width - 1) -> Inks]
PaperType(ls) == ls \in Seq(Line) /\ Len(ls) \in 1..Height

RowOf(ls, y) == IF y < Len(ls) THEN ls[y + 1] ELSE BlankLine
Pads(k)      == [n \in 1..k |-> Pad]

\* Row r is the last line on paper, and the cells cs are the paper's.
Shows(ls, r, cs) ==
  /\ r = Len(ls) - 1
  /\ \A y \in 0..(Height - 1), x \in 0..(Width - 1) : cs[Index(x, y)] = RowOf(ls, y)[x]

\* The paper is at a, where the screen at column col will be after k blanks.
Owed(ls, a, r, col, cs, k) ==
  /\ col + k = a /\ a <= Width
  /\ r = Len(ls) - 1
  /\ \A y \in 0..(Height - 1), x \in 0..(Width - 1) :
       IF y = r /\ x \in col..(a - 1) THEN RowOf(ls, y)[x] = " "
       ELSE cs[Index(x, y)] = RowOf(ls, y)[x]

\* Where the next character goes: a full line is left first.
WrapRow    == IF column = Width THEN NextRow ELSE row
WrapColumn == IF column = Width THEN 0 ELSE column
WrapCells  == IF column = Width THEN NextCells ELSE cells

OwedNow(k) == IF k = 0 THEN Owed(paper, at, row, column, cells, 0)
              ELSE Owed(paper, at, WrapRow, WrapColumn, WrapCells, k)

ScreenInv ==
  /\ PaperType(paper) /\ at \in 0..Width
  /\ call = "none" => todo = <<>>
  /\ todo = <<>> => cursor = <<column, row>>
  /\ \E k \in 0..TabLength, rest \in Seq(Glyphs) : todo = Pads(k) \o rest /\ OwedNow(k)

LEMMA IndexIs ==
  ASSUME NEW x \in 0..(Width - 1), NEW y \in 0..(Height - 1)
  PROVE  Index(x, y) \in Indices
<1> DEFINE w == Width
           h == Height
<1>1. w \in Nat /\ h \in Nat /\ x \in 0..(w - 1) /\ y \in 0..(h - 1)
  BY SizesAre
<1> HIDE DEF w, h
<1>2. y * w + x \in 0..(w * h - 1)
  BY <1>1
<1> QED
  BY <1>2 DEF w, h, Index, Indices

LEMMA IndexTells ==
  ASSUME NEW x \in 0..(Width - 1), NEW y \in 0..(Height - 1),
         NEW u \in 0..(Width - 1), NEW v \in 0..(Height - 1), Index(x, y) = Index(u, v)
  PROVE  x = u /\ y = v
<1> DEFINE w == Width
<1>1. /\ w \in Nat /\ x \in 0..(w - 1) /\ y \in Nat /\ u \in 0..(w - 1) /\ v \in Nat
      /\ y * w + x = v * w + u
  BY SizesAre DEF Index
<1> HIDE DEF w
<1>2. y = v
  BY <1>1
<1> QED
  BY <1>1, <1>2

\* The cell one line on.
LEMMA IndexBelow ==
  ASSUME NEW x \in 0..(Width - 1), NEW y \in 0..(Height - 1)
  PROVE  IF y = Height - 1 THEN Index(x, y) + Width \notin Indices
         ELSE y + 1 \in 0..(Height - 1) /\ Index(x, y) + Width = Index(x, y + 1)
<1> DEFINE w == Width
           h == Height
<1>1. w \in Nat /\ h \in Nat /\ x \in 0..(w - 1) /\ y \in 0..(h - 1)
  BY SizesAre
<1> HIDE DEF w, h
<1>2. y = h - 1 => y * w + x + w \notin 0..(w * h - 1)
  BY <1>1
<1>3. y # h - 1 => y + 1 \in 0..(h - 1) /\ y * w + x + w = (y + 1) * w + x
  BY <1>1
<1> QED
  BY <1>2, <1>3 DEF w, h, Index, Indices

LEMMA BlankLineIs ==
  BlankLine \in Line /\ \A x \in 0..(Width - 1) : BlankLine[x] = " "
  BY DEF BlankLine, Line, Ink, Inks

LEMMA AppendIs ==
  ASSUME NEW S, NEW s \in Seq(S), NEW e \in S, NEW n, n = Len(s), NEW t, t = Append(s, e)
  PROVE  /\ t \in Seq(S) /\ Len(t) = n + 1
         /\ \A i \in 1..n : t[i] = s[i]
         /\ t[n + 1] = e
  BY AppendProperties

\* The paper feeds as the screen leaves its line.
LEMMA FeedShows ==
  ASSUME PaperType(paper), Shows(paper, row, cells)
  PROVE  PaperType(Feed(paper)) /\ Shows(Feed(paper), NextRow, NextCells)
<1> DEFINE n == Len(paper)
           fed == Feed(paper)
<1>1. /\ paper \in Seq(Line) /\ n \in 1..Height /\ row = n - 1
      /\ Height \in Nat /\ Width \in Nat
  BY SizesAre DEF PaperType, Shows
<1>2. CASE n < Height
  <2>1. fed = Append(paper, BlankLine)
    BY <1>2 DEF Feed
  <2>2. /\ fed \in Seq(Line) /\ Len(fed) = n + 1
        /\ \A i \in 1..n : fed[i] = paper[i]
        /\ fed[n + 1] = BlankLine
    <3> HIDE DEF n, fed
    <3>1. n = Len(paper) /\ paper \in Seq(Line) /\ BlankLine \in Line
      BY <1>1, BlankLineIs DEF n
    <3> QED
      BY <2>1, <3>1, AppendIs
  <2>3. NextRow = row + 1 /\ NextCells = cells
    BY <1>1, <1>2 DEF NextRow, NextCells
  <2> HIDE DEF fed, n
  <2>4. ASSUME NEW y \in 0..(Height - 1) PROVE RowOf(fed, y) = RowOf(paper, y)
    <3>1. CASE y < n
      <4>1. y + 1 \in 1..n /\ y < n + 1
        BY <1>1, <3>1
      <4> QED
        BY <2>2, <3>1, <4>1 DEF RowOf, n
    <3>2. CASE y = n
      <4>1. y < n + 1 /\ ~(y < n)
        BY <1>1, <3>2
      <4> QED
        BY <2>2, <3>2, <4>1 DEF RowOf, n
    <3>3. CASE y > n
      <4>1. ~(y < n + 1) /\ ~(y < n)
        BY <1>1, <3>3
      <4> QED
        BY <2>2, <4>1 DEF RowOf, n
    <3> QED
      BY <1>1, <3>1, <3>2, <3>3
  <2>5. n + 1 \in 1..Height /\ row + 1 = n + 1 - 1
    BY <1>1, <1>2
  <2>6. PaperType(fed)
    BY <2>2, <2>5 DEF PaperType
  <2>7. Shows(fed, NextRow, NextCells)
    <3>1. NextRow = Len(fed) - 1
      BY <1>1, <2>2, <2>3, <2>5
    <3>2. \A y \in 0..(Height - 1), x \in 0..(Width - 1) :
            cells[Index(x, y)] = RowOf(paper, y)[x]
      BY DEF Shows
    <3> QED
      BY <2>3, <2>4, <3>1, <3>2 DEF Shows
  <2> QED
    BY <2>6, <2>7 DEF fed
<1>3. CASE n = Height
  <2>1. fed = Append(Tail(paper), BlankLine)
    BY <1>1, <1>3 DEF Feed
  <2>2. /\ Tail(paper) \in Seq(Line) /\ Len(Tail(paper)) = n - 1
        /\ \A i \in 1..(n - 1) : Tail(paper)[i] = paper[i + 1]
    <3>1. paper # <<>>
      BY <1>1, EmptySeq
    <3> QED
      BY <1>1, <3>1, HeadTailProperties
  <2>3. /\ fed \in Seq(Line) /\ Len(fed) = n
        /\ \A i \in 1..(n - 1) : fed[i] = paper[i + 1]
        /\ fed[n] = BlankLine
    <3> DEFINE t == Tail(paper)
    <3>1. t \in Seq(Line) /\ Len(t) = n - 1 /\ fed = Append(t, BlankLine) /\ n \in Nat
      BY <1>1, <2>1, <2>2
    <3> HIDE DEF t, fed, n
    <3>2. fed \in Seq(Line) /\ Len(fed) = n /\ (\A i \in 1..(n - 1) : fed[i] = t[i])
          /\ fed[n] = BlankLine
      <4> DEFINE m == n - 1
      <4> HIDE DEF m
      <4>1. /\ fed \in Seq(Line) /\ Len(fed) = m + 1
            /\ \A i \in 1..m : fed[i] = t[i]
            /\ fed[m + 1] = BlankLine
        <5>1. m = Len(t) /\ BlankLine \in Line
          BY <3>1, BlankLineIs DEF m
        <5> QED
          BY <3>1, <5>1, AppendIs
      <4>2. n - 1 + 1 = n
        BY <3>1
      <4> QED
        BY <4>1, <4>2 DEF m
    <3> QED
      BY <2>2, <3>2 DEF t
  <2>4. NextRow = row /\ NextCells = Scrolled
    BY <1>1, <1>3 DEF NextRow, NextCells
  <2> HIDE DEF fed, n
  <2>5. ASSUME NEW y \in 0..(Height - 1), NEW x \in 0..(Width - 1)
        PROVE  Scrolled[Index(x, y)] = RowOf(fed, y)[x]
    <3>1. Index(x, y) \in Indices
      BY IndexIs
    <3>2. CASE y = Height - 1
      <4>1. Scrolled[Index(x, y)] = " "
        BY <3>1, <3>2, IndexBelow DEF Scrolled, Ink
      <4>2. y < n /\ y + 1 = n
        BY <1>1, <1>3, <3>2
      <4> QED
        BY <2>3, <4>1, <4>2, BlankLineIs DEF RowOf
    <3>3. CASE y # Height - 1
      <4>1. y + 1 \in 0..(Height - 1) /\ Index(x, y) + Width = Index(x, y + 1)
        BY <3>3, IndexBelow
      <4>2. Scrolled[Index(x, y)] = cells[Index(x, y + 1)]
        <5>1. Index(x, y + 1) \in Indices
          BY <4>1, IndexIs
        <5> QED
          BY <3>1, <4>1, <5>1 DEF Scrolled
      <4>3. cells[Index(x, y + 1)] = RowOf(paper, y + 1)[x]
        BY <4>1 DEF Shows
      <4>4. y < n /\ y + 1 < n /\ y + 1 \in 1..(n - 1)
        BY <1>1, <1>3, <3>3
      <4> QED
        BY <2>3, <4>2, <4>3, <4>4 DEF RowOf, n
    <3> QED
      BY <3>2, <3>3
  <2> QED
    BY <1>1, <2>3, <2>4, <2>5 DEF PaperType, Shows, fed
<1> QED
  BY <1>1, <1>2, <1>3

\* Ink at column col of the last line, on the screen as on the paper.
LEMMA TypeIs ==
  ASSUME NEW ls, PaperType(ls), NEW c, NEW from, NEW to
  PROVE  /\ PaperType(Type(ls, c, from, to)) /\ Len(Type(ls, c, from, to)) = Len(ls)
         /\ \A y \in 0..(Height - 1) : y # Len(ls) - 1 =>
              RowOf(Type(ls, c, from, to), y) = RowOf(ls, y)
         /\ \A x \in 0..(Width - 1) :
              RowOf(Type(ls, c, from, to), Len(ls) - 1)[x] =
                IF x \in from..(to - 1) THEN Ink(c) ELSE RowOf(ls, Len(ls) - 1)[x]
<1> DEFINE n == Len(ls)
           typed == [x \in DOMAIN ls[n] |-> IF x \in from..(to - 1) THEN Ink(c) ELSE ls[n][x]]
           new == Type(ls, c, from, to)
<1>1. ls \in Seq(Line) /\ n \in Nat /\ n \in 1..n /\ n \in 1..Height /\ ls[n] \in Line
  BY SizesAre DEF PaperType
<1>2. /\ DOMAIN ls[n] = 0..(Width - 1) /\ typed \in Line
      /\ \A x \in 0..(Width - 1) : typed[x] = IF x \in from..(to - 1) THEN Ink(c) ELSE ls[n][x]
  BY <1>1 DEF Line, Ink, Inks
<1>3. new = [ls EXCEPT ![n] = typed]
  BY DEF Type
<1> HIDE DEF typed, new
<1>4. new \in Seq(Line) /\ Len(new) = n /\ \A i \in 1..n : new[i] = IF i = n THEN typed ELSE ls[i]
  BY <1>1, <1>2, <1>3, ExceptSeq
<1>5. PaperType(new)
  BY <1>1, <1>4 DEF PaperType
<1> HIDE DEF n
<1>6. ASSUME NEW y \in 0..(Height - 1), y # n - 1 PROVE RowOf(new, y) = RowOf(ls, y)
  <2>1. CASE y < n
    <3>1. y + 1 \in 1..n /\ y + 1 # n
      BY <1>1, <1>6, <2>1, SizesAre
    <3> QED
      BY <1>4, <2>1, <3>1 DEF RowOf, n
  <2>2. CASE ~(y < n)
    BY <1>4, <2>2 DEF RowOf, n
  <2> QED
    BY <2>1, <2>2
<1>7. RowOf(new, n - 1) = typed /\ RowOf(ls, n - 1) = ls[n]
  <2>1. n - 1 < n /\ n - 1 + 1 = n
    BY <1>1
  <2> QED
    BY <1>1, <1>4, <2>1 DEF RowOf, n
<1>8. Len(new) = Len(ls)
  BY <1>4 DEF n
<1>9. \A x \in 0..(Width - 1) :
        RowOf(new, n - 1)[x] = IF x \in from..(to - 1) THEN Ink(c) ELSE RowOf(ls, n - 1)[x]
  BY <1>2, <1>7
<1> QED
  BY <1>5, <1>6, <1>8, <1>9 DEF new, n

LEMMA EntryIs ==
  ASSUME NEW cs \in [Indices -> Inks], NEW c, NEW u \in 0..(Width - 1), NEW v \in 0..(Height - 1)
  PROVE  \A y \in 0..(Height - 1), x \in 0..(Width - 1) :
           Entry(cs, c, u, v)[Index(x, y)] =
             IF x = u /\ y = v THEN Ink(c) ELSE cs[Index(x, y)]
<1> SUFFICES ASSUME NEW y \in 0..(Height - 1), NEW x \in 0..(Width - 1)
             PROVE  Entry(cs, c, u, v)[Index(x, y)] =
                      IF x = u /\ y = v THEN Ink(c) ELSE cs[Index(x, y)]
  OBVIOUS
<1>1. Index(x, y) \in Indices /\ Index(u, v) \in Indices
  BY IndexIs
<1>2. Index(x, y) = Index(u, v) <=> x = u /\ y = v
  BY IndexTells
<1> QED
  BY <1>1, <1>2 DEF Entry

\* A character typed on paper and put on the screen.
LEMMA TypeShows ==
  ASSUME NEW ls, PaperType(ls), NEW r \in 0..(Height - 1), NEW cs \in [Indices -> Inks],
         Shows(ls, r, cs), NEW c, NEW a \in 0..(Width - 1)
  PROVE  Shows(Type(ls, c, a, a + 1), r, Entry(cs, c, a, r))
<1> DEFINE new == Type(ls, c, a, a + 1)
           n   == Len(ls)
<1>1. /\ Len(new) = n /\ r = n - 1
      /\ \A y \in 0..(Height - 1) : y # n - 1 => RowOf(new, y) = RowOf(ls, y)
      /\ \A x \in 0..(Width - 1) : RowOf(new, n - 1)[x] =
           IF x \in a..(a + 1 - 1) THEN Ink(c) ELSE RowOf(ls, n - 1)[x]
  BY TypeIs DEF Shows
<1>2. \A x \in 0..(Width - 1) : x \in a..(a + 1 - 1) <=> x = a
  BY SizesAre
<1> HIDE DEF new, n
<1>3. ASSUME NEW y \in 0..(Height - 1), NEW x \in 0..(Width - 1)
      PROVE  Entry(cs, c, a, r)[Index(x, y)] = RowOf(new, y)[x]
  <2>1. cs[Index(x, y)] = RowOf(ls, y)[x]
    BY DEF Shows
  <2>2. Entry(cs, c, a, r)[Index(x, y)] = IF x = a /\ y = r THEN Ink(c) ELSE cs[Index(x, y)]
    BY EntryIs
  <2> QED
    BY <1>1, <1>2, <2>1, <2>2
<1>4. Shows(new, r, Entry(cs, c, a, r))
  BY <1>1, <1>3 DEF Shows
<1> QED
  BY <1>4 DEF new

LEMMA OwedNothing ==
  ASSUME NEW ls, NEW a \in Int, NEW r, NEW col \in Int, NEW cs
  PROVE  Owed(ls, a, r, col, cs, 0) <=> col = a /\ a <= Width /\ Shows(ls, r, cs)
<1>1. col + 0 = a <=> col = a
  OBVIOUS
<1>2. col = a => \A x : x \notin col..(a - 1)
  OBVIOUS
<1> QED
  BY <1>1, <1>2 DEF Owed, Shows

\* A tab is on the paper at once.
LEMMA TabOwed ==
  ASSUME NEW ls, PaperType(ls), NEW r, NEW cs, Shows(ls, r, cs),
         NEW col \in Nat, NEW k \in Nat, col + k <= Width
  PROVE  Owed(Type(ls, Blank, col, col + k), col + k, r, col, cs, k)
<1> DEFINE a   == col + k
           new == Type(ls, Blank, col, a)
           n   == Len(ls)
<1>1. /\ Len(new) = n /\ r = n - 1
      /\ \A y \in 0..(Height - 1) : y # n - 1 => RowOf(new, y) = RowOf(ls, y)
      /\ \A x \in 0..(Width - 1) : RowOf(new, n - 1)[x] =
           IF x \in col..(a - 1) THEN Ink(Blank) ELSE RowOf(ls, n - 1)[x]
  BY TypeIs DEF Shows
<1> HIDE DEF new, n
<1>2. Ink(Blank) = " "
  BY DEF Ink
<1>3. ASSUME NEW y \in 0..(Height - 1), NEW x \in 0..(Width - 1)
      PROVE  IF y = r /\ x \in col..(a - 1) THEN RowOf(new, y)[x] = " "
             ELSE cs[Index(x, y)] = RowOf(new, y)[x]
  <2>1. cs[Index(x, y)] = RowOf(ls, y)[x]
    BY DEF Shows
  <2> HIDE DEF a
  <2> QED
    BY <1>1, <1>2, <2>1
<1>4. Owed(new, a, r, col, cs, k)
  BY <1>1, <1>3 DEF Owed
<1> QED
  BY <1>4 DEF new, a

\* One blank of a tab, put on the screen.
LEMMA PadOwed ==
  ASSUME NEW ls, PaperType(ls), NEW r \in 0..(Height - 1), NEW cs \in [Indices -> Inks],
         NEW col \in 0..(Width - 1), NEW a \in Int, NEW k \in Nat, k > 0,
         Owed(ls, a, r, col, cs, k)
  PROVE  Owed(ls, a, r, col + 1, Entry(cs, Pad, col, r), k - 1)
<1>1. Width \in Nat /\ col + k = a /\ a <= Width /\ col \in col..(a - 1)
  <2>1. Width \in Nat /\ col + k = a /\ a <= Width
    BY SizesAre DEF Owed
  <2> QED
    BY <2>1
<1>2. \A x \in 0..(Width - 1) : x # col => (x \in col..(a - 1) <=> x \in (col + 1)..(a - 1))
  BY <1>1
<1>3. col \notin (col + 1)..(a - 1) /\ col + 1 + (k - 1) = a
  BY <1>1
<1>4. ASSUME NEW y \in 0..(Height - 1), NEW x \in 0..(Width - 1)
      PROVE  IF y = r /\ x \in (col + 1)..(a - 1) THEN RowOf(ls, y)[x] = " "
             ELSE Entry(cs, Pad, col, r)[Index(x, y)] = RowOf(ls, y)[x]
  <2>1. IF y = r /\ x \in col..(a - 1) THEN RowOf(ls, y)[x] = " "
        ELSE cs[Index(x, y)] = RowOf(ls, y)[x]
    BY DEF Owed
  <2>2. Entry(cs, Pad, col, r)[Index(x, y)] = IF x = col /\ y = r THEN " " ELSE cs[Index(x, y)]
    <3>1. Ink(Pad) = " "
      BY DEF Ink
    <3>2. Entry(cs, Pad, col, r)[Index(x, y)] =
            IF x = col /\ y = r THEN Ink(Pad) ELSE cs[Index(x, y)]
      BY EntryIs
    <3> QED
      BY <3>1, <3>2
  <2>3. CASE x = col
    BY <1>1, <1>3, <2>1, <2>2, <2>3
  <2>4. CASE x # col
    BY <1>2, <2>1, <2>2, <2>4
  <2> QED
    BY <2>3, <2>4
<1> QED
  BY <1>1, <1>3, <1>4 DEF Owed

LEMMA PaddingIs ==
  ASSUME NEW c \in 0..(Width - 1)
  PROVE  /\ c % TabLength \in 0..(TabLength - 1)
         /\ (c \div TabLength + 1) * TabLength = c + (TabLength - (c % TabLength))
         /\ c + (TabLength - (c % TabLength)) <= Width
<1> DEFINE w == Width
           t == TabLength
           q == c \div t
           m == w \div t
<1>1. w \in Nat /\ t \in Nat /\ t > 0 /\ w % t = 0 /\ c \in 0..(w - 1)
  BY TerminalAssumption DEF TerminalAssumption
<1> HIDE DEF w, t
<1>2. q \in Nat /\ c % t \in 0..(t - 1) /\ c = t * q + (c % t)
  BY <1>1
<1>3. m \in Nat /\ w = t * m
  BY <1>1
<1> HIDE DEF q, m
<1>4. (q + 1) * t = c + (t - (c % t))
  BY <1>1, <1>2
<1>5. q < m
  BY <1>1, <1>2, <1>3
<1>6. (q + 1) * t <= w
  <2>1. q + 1 <= m
    BY <1>2, <1>3, <1>5
  <2> QED
    BY <1>1, <1>2, <1>3, <2>1
<1> QED
  BY <1>2, <1>4, <1>6 DEF w, t, q

\* What is left to write once a blank or a character has been.
LEMMA PadsNone ==
  ASSUME NEW rest \in Seq(Glyphs)
  PROVE  Pads(0) \o rest = rest
<1>1. Pads(0) = <<>>
  BY DEF Pads
<1> QED
  BY <1>1, ConcatEmptySeq

LEMMA PadsThen ==
  ASSUME NEW k \in Nat, k > 0, NEW rest \in Seq(Glyphs)
  PROVE  /\ Pads(k) \o rest # <<>> /\ Head(Pads(k) \o rest) = Pad
         /\ Tail(Pads(k) \o rest) = Pads(k - 1) \o rest
<1>1. Pads(k) = <<Pad>> \o Pads(k - 1) /\ Pads(k - 1) \in Seq({Pad})
  BY DEF Pads
<1> DEFINE S == {Pad} \cup Glyphs
           u == Pads(k - 1) \o rest
<1>2. u \in Seq(S)
  BY <1>1
<1>3. Pads(k) \o rest = <<Pad>> \o u
  BY <1>1
<1> HIDE DEF u, S
<1>4. Head(<<Pad>> \o u) = Pad /\ Tail(<<Pad>> \o u) = u /\ <<Pad>> \o u # <<>>
  BY <1>2
<1> QED
  BY <1>3, <1>4 DEF u

-----------------------------------------------------------------------------
(* What is to write is text.                                               *)

LEMMA DigitsAre ==
  /\ Digits \in [1..16 -> Characters] /\ Capitals \in [1..16 -> Characters]
  /\ Digits \in [1..16 -> Glyphs] /\ Capitals \in [1..16 -> Glyphs]
<1>1. DOMAIN Digits = 1..16 /\ Digits = [i \in 1..16 |-> Digits[i]]
  BY DEF Digits
<1>2. \A i \in 1..16 : Digits[i] \in Characters /\ Capitals[i] \in Characters
  BY <1>1, ConsoleAssumption DEF ConsoleAssumption
<1>3. Digits \in [1..16 -> Characters]
  BY <1>1, <1>2
<1>4. Capitals = [i \in 1..16 |-> Capitals[i]]
  BY <1>1 DEF Capitals
<1>5. Capitals \in [1..16 -> Characters]
  BY <1>2, <1>4
<1> QED
  BY <1>3, <1>5 DEF Glyphs

LEMMA NumeralIsText ==
  ASSUME NEW conv, NEW value \in Int, NEW modifier
  PROVE  Numeral(conv, value, modifier) \in Seq(Glyphs)
<1>1. CASE conv \in {"d", "i"}
  <2> DEFINE sign == IF value < 0 THEN <<Sign>> ELSE <<>>
             size == IF value < 0 THEN -value ELSE value
  <2>1. sign \in Seq(Glyphs)
    <3>1. Sign \in Glyphs
      BY DEF Glyphs
    <3> QED
      BY <3>1
  <2>2. size \in Nat
    OBVIOUS
  <2>3. convert_integer(size, 10, Digits) \in Seq(Glyphs)
    <3> HIDE DEF size
    <3> QED
      BY <2>2, DigitsAre, NumeralIs DEF Bases
  <2>4. Numeral(conv, value, modifier) = sign \o convert_integer(size, 10, Digits)
    BY <1>1 DEF Numeral
  <2> HIDE DEF sign, size
  <2> QED
    BY <2>1, <2>3, <2>4, ConcatProperties
<1>2. CASE conv \notin {"d", "i"}
  <2> DEFINE v == value % Values(modifier)
             b == Base(conv)
             D == DigitsOf(conv)
  <2>1. v \in Nat
    <3> DEFINE m == Values(modifier)
    <3>1. m \in Nat \ {0}
      <4>1. Modulus \in Nat /\ Modulus > 0
        BY ConsoleAssumption DEF ConsoleAssumption
      <4>2. Modulus * Modulus \in Nat /\ Modulus * Modulus > 0
        BY <4>1
      <4> QED
        BY <4>1, <4>2 DEF Values
    <3> HIDE DEF m
    <3>2. value % m \in Nat
      BY <3>1
    <3> QED
      BY <3>2 DEF m
  <2>2. b \in Bases /\ D \in [1..16 -> Glyphs]
    BY DigitsAre DEF Base, Bases, DigitsOf
  <2>3. Numeral(conv, value, modifier) = convert_integer(v, b, D)
    BY <1>2 DEF Numeral
  <2> HIDE DEF v, b, D
  <2> QED
    BY <2>1, <2>2, <2>3, NumeralIs
<1> QED
  BY <1>1, <1>2

LEMMA ConvertWritesText ==
  ASSUME TypeOK, Convert
  PROVE  todo' \in Seq(Glyphs)
<1> DEFINE type == Taken(pos + 1)
           conv == Conversion(pos + 1)
           value == request.args[argp + 1].value
<1>1. CASE ~Finds(type)
  BY <1>1 DEF Convert
<1>2. CASE Finds(type)
  <2>1. /\ argp + 1 \in DOMAIN request.args
        /\ request.args[argp + 1].type = type
        /\ request.args \in Seq(Argument)
        /\ request \in Calls \cup Quiet
    <3>1. WordsOf(type) \in {1, 2} /\ argp \in Nat
      BY DEF WordsOf, TypeOK
    <3>2. argp + WordsOf(type) <= Len(request.args) /\ request.args[argp + 1].type = type
      BY <1>2, <3>1 DEF Finds
    <3>3. request # NoRequest
      <4>1. Len(NoRequest.args) = 0
        BY DEF NoRequest
      <4> QED
        BY <3>1, <3>2, <4>1
    <3>4. request \in Calls \cup Quiet
      BY <3>3 DEF TypeOK
    <3>5. request.args \in Seq(Argument)
      BY <3>4, CallsAre
    <3>6. argp + 1 \in 1..Len(request.args)
      <4> DEFINE n == Len(request.args)
                 w == WordsOf(type)
      <4>1. n \in Nat /\ w \in {1, 2} /\ argp + w <= n
        BY <3>1, <3>2, <3>5, LenProperties
      <4> HIDE DEF n, w
      <4>2. argp + 1 \in 1..n
        BY <3>1, <4>1
      <4> QED
        BY <4>2 DEF n
    <3> QED
      BY <3>2, <3>4, <3>5, <3>6
  <2>2. value \in Int
    <3>1. request.args[argp + 1] \in Argument
      BY <2>1
    <3> QED
      BY <3>1 DEF Argument
  <2>3. todo' = CASE conv = "s" -> Strings[value]
                  [] conv = "c" -> <<LowChar(value)>>
                  [] OTHER -> Numeral(conv, value, Modifier(pos + 1))
    BY <1>2 DEF Convert
  <2>4. CASE conv = "s"
    <3>1. type = "str"
      BY <2>4 DEF Taken, TypeOf
    <3>2. value \in DOMAIN Strings /\ Strings \in Seq(Seq(Characters))
      BY <2>1, <3>1, ConsoleAssumption DEF ConsoleAssumption
    <3>3. Strings[value] \in Seq(Glyphs)
      <4> HIDE DEF value
      <4>1. Strings[value] \in Seq(Characters)
        BY <3>2
      <4> QED
        BY <4>1, GlyphsAre
    <3> QED
      BY <2>3, <2>4, <3>3
  <2>5. CASE conv = "c"
    <3>1. 1 + (value % 16) \in 1..16
      <4> HIDE DEF value
      <4> QED
        BY <2>2
    <3>2. LowChar(value) \in Glyphs
      BY <3>1, DigitsAre DEF LowChar
    <3>3. <<LowChar(value)>> \in Seq(Glyphs)
      BY <3>2
    <3> HIDE DEF conv, value
    <3> QED
      BY <2>3, <2>5, <3>3
  <2>6. CASE conv # "s" /\ conv # "c"
    <3>1. todo' = Numeral(conv, value, Modifier(pos + 1))
      BY <2>3, <2>6
    <3> HIDE DEF conv, value, type
    <3> QED
      BY <2>2, <3>1, NumeralIsText
  <2> QED
    BY <2>4, <2>5, <2>6
<1> QED
  BY <1>1, <1>2

-----------------------------------------------------------------------------
(* What a conversion writes is the text its piece means.                   *)

LEMMA DigitsTell == Differ(Digits) /\ Differ(Capitals)
<1>1. /\ Digits[1] = "0" /\ Digits[2] = "1" /\ Digits[3] = "2" /\ Digits[4] = "3"
      /\ Digits[5] = "4" /\ Digits[6] = "5" /\ Digits[7] = "6" /\ Digits[8] = "7"
      /\ Digits[9] = "8" /\ Digits[10] = "9" /\ Digits[11] = "a" /\ Digits[12] = "b"
      /\ Digits[13] = "c" /\ Digits[14] = "d" /\ Digits[15] = "e" /\ Digits[16] = "f"
      /\ DOMAIN Digits = 1..16
  BY DEF Digits
<1>2. \A i \in 1..16 : Capitals[i] = Capital(Digits[i])
  BY <1>1 DEF Capitals
<1>3. /\ Capitals[1] = "0" /\ Capitals[2] = "1" /\ Capitals[3] = "2" /\ Capitals[4] = "3"
      /\ Capitals[5] = "4" /\ Capitals[6] = "5" /\ Capitals[7] = "6" /\ Capitals[8] = "7"
      /\ Capitals[9] = "8" /\ Capitals[10] = "9" /\ Capitals[11] = "A" /\ Capitals[12] = "B"
      /\ Capitals[13] = "C" /\ Capitals[14] = "D" /\ Capitals[15] = "E" /\ Capitals[16] = "F"
  BY <1>1, <1>2 DEF Capital
<1>4. Differ(Digits)
  BY <1>1 DEF Differ
<1>5. Differ(Capitals)
  BY <1>3 DEF Differ
<1> QED
  BY <1>4, <1>5

LEMMA ValuesAre ==
  ASSUME NEW value \in Int, NEW modifier
  PROVE  value % Values(modifier) \in Nat
<1> DEFINE m == Values(modifier)
<1>1. m \in Nat \ {0}
  <2>1. Modulus \in Nat /\ Modulus > 0
    BY ConsoleAssumption DEF ConsoleAssumption
  <2>2. Modulus * Modulus \in Nat /\ Modulus * Modulus > 0
    BY <2>1
  <2> QED
    BY <2>1, <2>2 DEF Values
<1> HIDE DEF m
<1>2. value % m \in Nat
  BY <1>1
<1> QED
  BY <1>2 DEF m

\* An implemented numeric conversion writes the text that means its value.
LEMMA NumeralText ==
  ASSUME NEW t \in Seq(Glyphs), NEW c \in Conversions, c # "s", c # "c", NEW v \in Int,
         NEW modifier, IsText(t, c, v, modifier)
  PROVE  t = Numeral(c, v, modifier)
<1>1. /\ Digits \in [1..16 -> Characters] /\ Capitals \in [1..16 -> Characters]
      /\ \A i, j \in 1..16 : Digits[i] = Digits[j] => i = j
      /\ \A i, j \in 1..16 : Capitals[i] = Capitals[j] => i = j
  BY DigitsAre, DigitsTell DEF Differ
<1>2. 10 \in Bases /\ Base(c) \in Bases
  BY DEF Bases, Base
<1>3. CASE c \in {"d", "i"} /\ v < 0
  <2>1. t # <<>> /\ Head(t) = Sign /\ IsNumeral(Tail(t), -v, 10, Digits)
    BY <1>3 DEF IsText
  <2>2. Tail(t) \in Seq(Glyphs) /\ -v \in Nat
    BY <1>3, <2>1
  <2>3. Tail(t) = convert_integer(-v, 10, Digits)
    BY <1>1, <1>2, <2>1, <2>2, NumeralMeans
  <2>4. t = <<Head(t)>> \o Tail(t)
    BY <2>1, ConcatProperties
  <2>5. Numeral(c, v, modifier) = <<Sign>> \o convert_integer(-v, 10, Digits)
    BY <1>3 DEF Numeral
  <2> QED
    BY <2>1, <2>3, <2>4, <2>5
<1>4. CASE c \in {"d", "i"} /\ ~(v < 0)
  <2>1. v \in Nat /\ v >= 0
    BY <1>4
  <2>2. IsNumeral(t, v, 10, Digits)
    BY <1>4, <2>1 DEF IsText
  <2>3. t = convert_integer(v, 10, Digits)
    BY <1>1, <1>2, <2>1, <2>2, NumeralMeans
  <2>4. convert_integer(v, 10, Digits) \in Seq(Glyphs)
    BY <2>3
  <2>5. Numeral(c, v, modifier) = <<>> \o convert_integer(v, 10, Digits)
    BY <1>4 DEF Numeral
  <2> QED
    BY <2>3, <2>4, <2>5, ConcatEmptySeq
<1>5. CASE c \notin {"d", "i"}
  <2> DEFINE D == DigitsOf(c)
             w == v % Values(modifier)
  <2>1. w \in Nat
    BY ValuesAre
  <2>2. /\ D \in [1..16 -> Characters]
        /\ \A i, j \in 1..16 : D[i] = D[j] => i = j
    BY <1>1 DEF DigitsOf
  <2>3. IsNumeral(t, w, Base(c), D)
    BY <1>5 DEF IsText
  <2>4. Numeral(c, v, modifier) = convert_integer(w, Base(c), D)
    BY <1>5 DEF Numeral
  <2> HIDE DEF D, w
  <2> QED
    BY <1>2, <2>1, <2>2, <2>3, <2>4, NumeralMeans
<1> QED
  BY <1>3, <1>4, <1>5

LEMMA WrittenIs ==
  ASSUME NEW t \in Seq(Glyphs), NEW c \in Conversions, NEW v \in Int,
         NEW modifier, IsText(t, c, v, modifier)
  PROVE  t = CASE c = "s" -> Strings[v]
               [] c = "c" -> <<LowChar(v)>>
               [] OTHER -> Numeral(c, v, modifier)
<1>1. CASE c = "s"
  BY <1>1 DEF IsText
<1>2. CASE c = "c"
  BY <1>2 DEF IsText
<1>3. CASE c # "s" /\ c # "c"
  BY <1>3, NumeralText
<1> QED
  BY <1>1, <1>2, <1>3

-----------------------------------------------------------------------------
(* The steps of ScreenInv.                                                 *)

\* Typing a character wraps the paper as putting it wraps the screen.
WrapLines == IF at = Width THEN Feed(paper) ELSE paper

LEMMA WrapIs ==
  ASSUME TypeOK
  PROVE  /\ WrapRow \in 0..(Height - 1) /\ WrapColumn \in 0..(Width - 1)
         /\ WrapCells \in [Indices -> Inks] /\ NextRow \in 0..(Height - 1)
<1>1. /\ Width \in Nat /\ Height \in Nat /\ Width > 0 /\ Height > 0
      /\ row \in 0..(Height - 1) /\ column \in 0..Width /\ cells \in [Indices -> Inks]
  BY SizesAre DEF TypeOK, ScreenType
<1>2. NextRow \in 0..(Height - 1)
  BY <1>1 DEF NextRow
<1>3. Scrolled \in [Indices -> Inks]
  BY <1>1 DEF Scrolled, Ink, Inks
<1>4. NextCells \in [Indices -> Inks]
  BY <1>1, <1>3 DEF NextCells
<1>5. WrapColumn \in 0..(Width - 1)
  BY <1>1 DEF WrapColumn
<1> QED
  BY <1>1, <1>2, <1>4, <1>5 DEF WrapRow, WrapCells

LEMMA WrapShows ==
  ASSUME TypeOK, PaperType(paper), column = at, Shows(paper, row, cells)
  PROVE  PaperType(WrapLines) /\ Shows(WrapLines, WrapRow, WrapCells)
<1>1. CASE at = Width
  BY <1>1, FeedShows DEF WrapLines, WrapRow, WrapCells
<1>2. CASE at # Width
  BY <1>2 DEF WrapLines, WrapRow, WrapCells
<1> QED
  BY <1>1, <1>2

LEMMA PutPlainIs ==
  ASSUME NEW c, PutPlain(c), TypeOK
  PROVE  /\ row' = WrapRow /\ column' = WrapColumn + 1
         /\ cells' = Entry(WrapCells, c, WrapColumn, WrapRow)
<1>1. CASE column = Width
  BY <1>1 DEF PutPlain, WrapRow, WrapColumn, WrapCells
<1>2. CASE column # Width
  BY <1>2 DEF PutPlain, WrapRow, WrapColumn, WrapCells
<1> QED
  BY <1>1, <1>2

\* With no blanks owed the next character is one of the text.
LEMMA OwedSettled ==
  ASSUME TypeOK, at \in 0..Width
  PROVE  OwedNow(0) <=> column = at /\ Shows(paper, row, cells)
<1>1. at \in Int /\ column \in Int /\ Width \in Int /\ at <= Width
  BY SizesAre DEF TypeOK, ScreenType
<1>2. Owed(paper, at, row, column, cells, 0)
        <=> column = at /\ at <= Width /\ Shows(paper, row, cells)
  BY <1>1, OwedNothing
<1> QED
  BY <1>1, <1>2 DEF OwedNow

LEMMA BlankStep ==
  ASSUME TypeOK, TypeOK', PaperType(paper), at \in 0..Width, NEW k \in Nat, k > 0, OwedNow(k),
         PutPlain(Pad), UNCHANGED <<paper, at>>
  PROVE  OwedNow(k - 1)'
<1>1. Owed(paper, at, WrapRow, WrapColumn, WrapCells, k)
  BY DEF OwedNow
<1>2. /\ row' = WrapRow /\ column' = WrapColumn + 1
      /\ cells' = Entry(WrapCells, Pad, WrapColumn, WrapRow)
  BY PutPlainIs
<1>3. Owed(paper, at, row', column', cells', k - 1)
  <2>1. at \in Int /\ WrapRow \in 0..(Height - 1) /\ WrapColumn \in 0..(Width - 1)
        /\ WrapCells \in [Indices -> Inks]
    BY WrapIs, SizesAre
  <2>2. Owed(paper, at, WrapRow, WrapColumn + 1, Entry(WrapCells, Pad, WrapColumn, WrapRow), k - 1)
    BY <1>1, <2>1, PadOwed
  <2> QED
    BY <1>2, <2>2
<1>4. Owed(paper', at', row', column', cells', k - 1)
  BY <1>3
<1>5. CASE k = 1
  <2>1. k - 1 = 0
    BY <1>5
  <2> QED
    BY <1>4, <2>1 DEF OwedNow
<1>6. CASE k # 1
  <2>1. column' # Width
    <3>1. column' + (k - 1) = at /\ at <= Width
      BY <1>3 DEF Owed
    <3>2. column' \in Int /\ Width \in Int /\ at \in Int
      BY SizesAre DEF TypeOK, ScreenType
    <3> DEFINE c == column'
    <3>3. k \in Int /\ k - 1 > 0
      BY <1>6
    <3> HIDE DEF c
    <3>4. c # Width
      <4>1. c \in Int /\ c + (k - 1) = at
        BY <3>1, <3>2 DEF c
      <4>2. at \in Int /\ Width \in Int /\ at <= Width
        BY <3>1, <3>2
      <4> QED
        BY <3>3, <4>1, <4>2
    <3> QED
      BY <3>4 DEF c
  <2>2. WrapRow' = row' /\ WrapColumn' = column' /\ WrapCells' = cells'
    BY <2>1 DEF WrapRow, WrapColumn, WrapCells
  <2>3. k - 1 # 0
    BY <1>6
  <2> QED
    BY <1>4, <2>2, <2>3 DEF OwedNow
<1> QED
  BY <1>5, <1>6

LEMMA TabStep ==
  ASSUME TypeOK, PaperType(paper), at \in 0..Width, OwedNow(0), UNCHANGED screen, OnPaper(Tab)
  PROVE  Padding \in 1..TabLength /\ PaperType(paper)' /\ at' \in 0..Width /\ OwedNow(Padding)'
<1> DEFINE from == WrapColumn
           stop == (from \div TabLength + 1) * TabLength
           p    == Padding
<1>1. column = at /\ Shows(paper, row, cells)
  BY OwedSettled
<1>2. /\ PaperType(WrapLines) /\ Shows(WrapLines, WrapRow, WrapCells)
      /\ from \in 0..(Width - 1)
  BY <1>1, WrapShows, WrapIs
<1>3. paper' = Type(WrapLines, Blank, from, stop) /\ at' = stop
  BY <1>1 DEF OnPaper, WrapLines, WrapColumn, Tab, Newline, Return
<1>4. p \in 1..TabLength /\ p = TabLength - (from % TabLength)
  <2>1. column % TabLength = from % TabLength /\ from % TabLength \in 0..(TabLength - 1)
    <3>1. from % TabLength \in 0..(TabLength - 1)
      BY <1>2, PaddingIs
    <3>2. CASE column = Width
      <4>1. from = 0 /\ Width % TabLength = 0 /\ 0 % TabLength = 0
        BY <3>2, SizesAre, TerminalAssumption DEF TerminalAssumption, WrapColumn
      <4> QED
        BY <3>1, <3>2, <4>1
    <3>3. CASE column # Width
      BY <3>1, <3>3 DEF WrapColumn
    <3> QED
      BY <3>2, <3>3
  <2> HIDE DEF from
  <2> QED
    BY <2>1, SizesAre DEF Padding
<1>5. stop = from + p /\ from + p <= Width /\ from \in Nat /\ p \in Nat
  <2>1. stop = from + p /\ from + p <= Width
    BY <1>2, <1>4, PaddingIs
  <2>2. from \in Nat /\ p \in Nat
    BY <1>2, <1>4, SizesAre
  <2> QED
    BY <2>1, <2>2
<1> HIDE DEF stop, p, from
<1>6. Owed(paper', at', WrapRow, from, WrapCells, p)
  BY <1>2, <1>3, <1>5, TabOwed
<1>7. PaperType(paper')
  BY <1>2, <1>3, TypeIs
<1>8. WrapRow' = WrapRow /\ WrapColumn' = WrapColumn /\ WrapCells' = WrapCells
  BY DEF screen, WrapRow, WrapColumn, WrapCells, NextRow, NextCells, Scrolled
<1>9. p # 0
  BY <1>4, SizesAre
<1>10. OwedNow(p)'
  <2>1. Padding' = Padding
    BY DEF Padding, screen
  <2> QED
    BY <1>6, <1>8, <1>9, <2>1 DEF OwedNow, from, p
<1>11. PaperType(paper)' /\ at' \in 0..Width
  BY <1>3, <1>5, <1>7, SizesAre DEF PaperType
<1> QED
  BY <1>4, <1>10, <1>11 DEF p

LEMMA CharStep ==
  ASSUME TypeOK, PaperType(paper), at \in 0..Width, OwedNow(0),
         NEW c, c # Tab, terminal_putchar(c), OnPaper(c), TypeOK'
  PROVE  PaperType(paper)' /\ at' \in 0..Width /\ OwedNow(0)'
<1>1. column = at /\ Shows(paper, row, cells)
  BY OwedSettled
<1>2. ASSUME PaperType(paper'), at' \in 0..Width, column' = at', Shows(paper', row', cells')
      PROVE  PaperType(paper)' /\ at' \in 0..Width /\ OwedNow(0)'
  <2>1. at' \in Int /\ column' \in Int /\ Width \in Int /\ at' <= Width
    BY <1>2, SizesAre DEF TypeOK, ScreenType
  <2>2. Owed(paper', at', row', column', cells', 0)
    BY <1>2, <2>1, OwedNothing
  <2>3. PaperType(paper)'
    BY <1>2 DEF PaperType
  <2> QED
    BY <1>2, <2>2, <2>3 DEF OwedNow
<1>3. CASE c = Newline
  <2>1. row' = NextRow /\ column' = 0 /\ cells' = NextCells /\ paper' = Feed(paper) /\ at' = 0
    BY <1>3 DEF terminal_putchar, terminal_newline, OnPaper, Newline, Return, Tab
  <2>2. PaperType(Feed(paper)) /\ Shows(Feed(paper), NextRow, NextCells)
    BY <1>1, FeedShows
  <2> QED
    BY <1>2, <2>1, <2>2, SizesAre
<1>4. CASE c = Return
  <2>1. row' = row /\ column' = 0 /\ cells' = cells /\ paper' = paper /\ at' = 0
    BY <1>4 DEF terminal_putchar, OnPaper, Newline, Return
  <2> QED
    BY <1>1, <1>2, <2>1, SizesAre
<1>5. CASE c # Newline /\ c # Return
  <2>1. PutPlain(c)
    BY <1>5 DEF terminal_putchar
  <2>2. /\ row' = WrapRow /\ column' = WrapColumn + 1
        /\ cells' = Entry(WrapCells, c, WrapColumn, WrapRow)
    BY <2>1, PutPlainIs
  <2>3. paper' = Type(WrapLines, c, WrapColumn, WrapColumn + 1) /\ at' = WrapColumn + 1
    BY <1>1, <1>5 DEF OnPaper, WrapLines, WrapColumn
  <2>4. /\ WrapRow \in 0..(Height - 1) /\ WrapColumn \in 0..(Width - 1)
        /\ WrapCells \in [Indices -> Inks]
        /\ PaperType(WrapLines) /\ Shows(WrapLines, WrapRow, WrapCells)
    BY <1>1, WrapIs, WrapShows
  <2>5. Shows(paper', row', cells') /\ PaperType(paper')
    <3>1. Shows(Type(WrapLines, c, WrapColumn, WrapColumn + 1), WrapRow,
                Entry(WrapCells, c, WrapColumn, WrapRow))
      BY <2>4, TypeShows
    <3>2. PaperType(Type(WrapLines, c, WrapColumn, WrapColumn + 1))
      BY <2>4, TypeIs
    <3> QED
      BY <2>2, <2>3, <3>1, <3>2
  <2>6. at' \in 0..Width
    BY <2>3, <2>4, SizesAre
  <2> QED
    BY <1>2, <2>2, <2>3, <2>5, <2>6
<1> QED
  BY <1>3, <1>4, <1>5

LEMMA ScreenInit == Init => ScreenInv
<1> SUFFICES ASSUME Init PROVE ScreenInv
  OBVIOUS
<1>1. /\ paper = <<BlankLine>> /\ at = 0 /\ row = 0 /\ column = 0 /\ cells = BlankCells
      /\ todo = <<>> /\ cursor = <<0, 0>>
  BY DEF Init, terminal_initialize
<1>2. PaperType(paper)
  <2> DEFINE b == BlankLine
  <2>1. b \in Line
    BY BlankLineIs
  <2> HIDE DEF b
  <2>2. <<b>> \in Seq(Line) /\ Len(<<b>>) = 1
    BY <2>1
  <2> QED
    BY <1>1, <2>2, SizesAre DEF PaperType, b
<1>3. Shows(paper, row, cells)
  <2>1. ASSUME NEW y \in 0..(Height - 1), NEW x \in 0..(Width - 1)
        PROVE  cells[Index(x, y)] = RowOf(paper, y)[x]
    <3>1. cells[Index(x, y)] = " "
      BY <1>1, IndexIs DEF BlankCells, Ink
    <3>2. RowOf(paper, y) = BlankLine
      BY <1>1, SizesAre DEF RowOf
    <3> QED
      BY <3>1, <3>2, BlankLineIs
  <2> QED
    BY <1>1, <2>1 DEF Shows
<1>4. OwedNow(0)
  <2>1. TypeOK
    BY TypedInit DEF TypedInv
  <2>2. column = at /\ at \in 0..Width
    BY <1>1, SizesAre
  <2> QED
    BY <1>3, <2>1, <2>2, OwedSettled
<1>5. todo = Pads(0) \o <<>> /\ 0 \in 0..TabLength /\ <<>> \in Seq(Glyphs)
  <2>1. <<>> \in Seq(Glyphs)
    OBVIOUS
  <2>2. Pads(0) \o <<>> = <<>>
    <3> DEFINE t == <<>>
    <3>1. t \in Seq(Glyphs)
      BY <2>1
    <3> HIDE DEF t
    <3>2. Pads(0) \o t = t
      BY <3>1, PadsNone
    <3> QED
      BY <3>2 DEF t
  <2> QED
    BY <1>1, <2>1, <2>2, SizesAre
<1>6. \E k \in 0..TabLength, rest \in Seq(Glyphs) : todo = Pads(k) \o rest /\ OwedNow(k)
  BY <1>4, <1>5
<1>7. at \in 0..Width /\ cursor = <<column, row>>
  BY <1>1, SizesAre
<1> QED
  BY <1>1, <1>2, <1>6, <1>7 DEF ScreenInv

\* What is still to write: the blanks owed, then text.
Owing(k, rest) == todo = Pads(k) \o rest /\ OwedNow(k)

LEMMA OwingEnds ==
  ASSUME NEW k \in 0..TabLength, NEW rest \in Seq(Glyphs), Owing(k, rest), todo = <<>>
  PROVE  k = 0
<1>1. k \in Nat
  BY SizesAre
<1>2. k > 0 => Pads(k) \o rest # <<>>
  BY <1>1, PadsThen
<1> QED
  BY <1>1, <1>2 DEF Owing

LEMMA ScreenWrite ==
  ASSUME TypeOK, TypeOK', ScreenInv, WriteChar
  PROVE  ScreenInv'
<1>1. /\ PaperType(paper) /\ at \in 0..Width /\ call' = call /\ todo # <<>> /\ call # "none"
  BY DEF ScreenInv, WriteChar
<1>2. PICK k \in 0..TabLength, rest \in Seq(Glyphs) : Owing(k, rest)
  BY DEF ScreenInv, Owing
<1>3. todo' = <<>> => cursor' = <<column', row'>>
  <2>1. CASE Head(todo) = Tab
    <3>1. todo' = Pads(Padding) \o Tail(todo) /\ todo' # <<>>
      <4>1. OnPaper(Tab) \/ Tab = Pad
        BY <2>1 DEF WriteChar
      <4>2. k = 0
        <5>1. k \in Nat
          BY SizesAre
        <5>2. k > 0 => Head(todo) = Pad
          BY <1>2, <5>1, PadsThen DEF Owing
        <5> QED
          BY <2>1, <5>1, <5>2 DEF Tab, Pad
      <4>3. UNCHANGED screen /\ OnPaper(Tab) /\ OwedNow(0)
        BY <1>2, <2>1, <4>1, <4>2 DEF WriteChar, Owing, Tab, Pad
      <4>4. Padding \in 1..TabLength
        BY <1>1, <4>3, TabStep
      <4>5. Padding \in Nat /\ Padding > 0
        BY <4>4, SizesAre
      <4>6. todo' = Pads(Padding) \o Tail(todo)
        BY <2>1 DEF WriteChar, Pads
      <4>7. Tail(todo) \in Seq(Glyphs)
        <5>1. todo = rest
          BY <1>2, <4>2, PadsNone DEF Owing
        <5> QED
          BY <1>1, <5>1
      <4> QED
        BY <4>5, <4>6, <4>7, PadsThen
    <3> QED
      BY <3>1
  <2>2. CASE Head(todo) # Tab
    BY <2>2 DEF WriteChar, terminal_updatecurser
  <2> QED
    BY <2>1, <2>2
<1>4. ASSUME NEW j \in 0..TabLength, NEW more \in Seq(Glyphs), todo' = Pads(j) \o more,
             OwedNow(j)', PaperType(paper)', at' \in 0..Width
      PROVE  ScreenInv'
  BY <1>1, <1>3, <1>4 DEF ScreenInv
<1>5. CASE k > 0
  <2>1. k \in Nat /\ k - 1 \in 0..TabLength
    BY <1>5, SizesAre
  <2>2. Head(todo) = Pad /\ Tail(todo) = Pads(k - 1) \o rest
    BY <1>2, <1>5, <2>1, PadsThen DEF Owing
  <2>3. /\ todo' = Pads(k - 1) \o rest /\ PutPlain(Pad) /\ UNCHANGED <<paper, at>>
    BY <2>2 DEF WriteChar, terminal_putchar, Tab, Newline, Return, Pad, history
  <2>4. OwedNow(k - 1)'
    BY <1>1, <1>2, <1>5, <2>1, <2>3, BlankStep DEF Owing
  <2>5. PaperType(paper)' /\ at' \in 0..Width
    BY <1>1, <2>3 DEF PaperType
  <2> QED
    BY <1>4, <2>1, <2>3, <2>4, <2>5
<1>6. CASE k = 0
  <2>1. todo = rest /\ OwedNow(0)
    BY <1>2, <1>6, PadsNone DEF Owing
  <2>2. Head(todo) \in Glyphs /\ Tail(todo) \in Seq(Glyphs) /\ Head(todo) # Pad
    <3>1. Head(todo) \in Glyphs /\ Tail(todo) \in Seq(Glyphs)
      BY <1>1, <2>1
    <3> QED
      BY <3>1, ConsoleAssumption DEF ConsoleAssumption, Glyphs, Pad, Sign
  <2>3. OnPaper(Head(todo))
    BY <2>2 DEF WriteChar
  <2>4. CASE Head(todo) = Tab
    <3>1. UNCHANGED screen /\ OnPaper(Tab) /\ todo' = Pads(Padding) \o Tail(todo)
      BY <2>3, <2>4 DEF WriteChar, Pads
    <3>2. /\ Padding \in 1..TabLength /\ PaperType(paper)' /\ at' \in 0..Width
          /\ OwedNow(Padding)'
      BY <1>1, <2>1, <3>1, TabStep
    <3>3. Padding' = Padding
      BY <3>1 DEF Padding, screen
    <3>4. PICK j \in 0..TabLength : j = Padding
      BY <3>2, SizesAre
    <3>5. OwedNow(j)' /\ todo' = Pads(j) \o Tail(todo)
      BY <3>1, <3>2, <3>3, <3>4
    <3> QED
      BY <1>4, <2>2, <3>2, <3>5
  <2>5. CASE Head(todo) # Tab
    <3>1. terminal_putchar(Head(todo)) /\ todo' = Tail(todo)
      BY <2>5 DEF WriteChar
    <3>2. PaperType(paper)' /\ at' \in 0..Width /\ OwedNow(0)'
      BY <1>1, <2>1, <2>3, <2>5, <3>1, CharStep
    <3>3. todo' = Pads(0) \o Tail(todo) /\ 0 \in 0..TabLength
      BY <2>2, <3>1, PadsNone, SizesAre
    <3> QED
      BY <1>4, <2>2, <3>2, <3>3
  <2> QED
    BY <2>4, <2>5
<1> QED
  BY <1>5, <1>6, SizesAre

LEMMA ScreenStep == TypedInv /\ TypedInv' /\ ScreenInv /\ [Next]_vars => ScreenInv'
<1> SUFFICES ASSUME TypedInv, TypedInv', ScreenInv, [Next]_vars PROVE ScreenInv'
  OBVIOUS
<1>1. TypeOK /\ TypeOK'
  BY DEF TypedInv
<1>2. PICK k \in 0..TabLength, rest \in Seq(Glyphs) : Owing(k, rest)
  BY DEF ScreenInv, Owing
<1>3. PaperType(paper) /\ at \in 0..Width
  BY DEF ScreenInv
<1>4. ASSUME UNCHANGED <<row, column, cells, paper, at>>
      PROVE  PaperType(paper)' /\ at' \in 0..Width /\ \A j \in Nat : OwedNow(j) => OwedNow(j)'
  BY <1>3, <1>4 DEF PaperType, OwedNow, WrapRow, WrapColumn, WrapCells, NextRow, NextCells,
                    Scrolled
\* A step that gives text to write, once what there was is written.
<1>5. ASSUME todo = <<>>, todo' \in Seq(Glyphs), UNCHANGED <<row, column, cells, paper, at>>,
             todo' = <<>> => cursor' = <<column, row>>, call' = "none" => todo' = <<>>
      PROVE  ScreenInv'
  <2>1. OwedNow(0)
    BY <1>2, <1>5, OwingEnds DEF Owing
  <2>2. OwedNow(0)' /\ PaperType(paper)' /\ at' \in 0..Width
    BY <1>4, <1>5, <2>1
  <2>3. todo' = Pads(0) \o todo' /\ 0 \in 0..TabLength
    <3> DEFINE t == todo'
    <3>1. t \in Seq(Glyphs)
      BY <1>5
    <3> HIDE DEF t
    <3>2. t = Pads(0) \o t
      BY <3>1, PadsNone
    <3> QED
      BY <3>2, SizesAre DEF t
  <2>4. \E j \in 0..TabLength, more \in Seq(Glyphs) : todo' = Pads(j) \o more /\ OwedNow(j)'
    BY <1>5, <2>2, <2>3
  <2> QED
    BY <1>5, <2>2, <2>4 DEF ScreenInv
<1>6. todo = <<>> => cursor = <<column, row>>
  BY DEF ScreenInv
<1>7. ASSUME NEW p \in Nat, p >= 1, p <= Len(fmt), PrintRun(p), call # "none", todo = <<>>
      PROVE  ScreenInv'
  <2>1. fmt \in Seq(Glyphs) /\ Len(fmt) \in Nat
    BY <1>1, FormatsAreText DEF TypeOK
  <2>2. RunEnd(p) \in (p + 1)..(Len(fmt) + 1)
    BY <1>7, <2>1, RunEndIs
  <2>3. todo' \in Seq(Glyphs)
    <3> DEFINE e == RunEnd(p) - 1
               n == Len(fmt)
    <3>1. p \in 1..(n + 1) /\ e \in (p - 1)..n
      <4> DEFINE r == RunEnd(p)
      <4>1. r \in (p + 1)..(n + 1) /\ n \in Nat /\ p <= n
        BY <1>7, <2>1, <2>2
      <4> HIDE DEF r, n
      <4>2. r - 1 \in (p - 1)..n /\ p \in 1..(n + 1)
        BY <1>7, <4>1
      <4> QED
        BY <4>2 DEF r
    <3>2. SubSeq(fmt, p, e) \in Seq(Glyphs)
      <4> HIDE DEF e
      <4> QED
        BY <2>1, <3>1, SubSeqProperties
    <3> QED
      BY <1>7, <3>2 DEF PrintRun
  <2>4. UNCHANGED <<row, column, cells, cursor, paper, at, call>>
    BY <1>7 DEF PrintRun, screen, history
  <2> QED
    BY <1>5, <1>6, <1>7, <2>3, <2>4
<1>8. CASE Text
  <2>1. pos \in Nat /\ pos >= 1 /\ pos <= Len(fmt) /\ PrintRun(pos) /\ call # "none" /\ todo = <<>>
    BY <1>1, <1>8 DEF Text, Between, TypeOK
  <2> QED
    BY <1>7, <2>1
<1>9. CASE PercentSign
  <2>1. PrintRun(pos + 1) /\ call # "none" /\ todo = <<>> /\ pos \in Nat
    BY <1>1, <1>9 DEF PercentSign, Directive, Between, TypeOK
  <2>2. Char(pos + 1) # NUL
    BY <1>9 DEF PercentSign, NUL
  <2>3. pos + 1 <= Len(fmt)
    BY <2>2 DEF Char, CharAt
  <2>4. pos + 1 \in Nat /\ pos + 1 >= 1
    BY <2>1
  <2> QED
    BY <1>7, <2>1, <2>3, <2>4
<1>10. CASE Reject
  <2>1. pos \in Nat /\ pos >= 1 /\ pos <= Len(fmt) /\ PrintRun(pos) /\ call # "none" /\ todo = <<>>
    BY <1>1, <1>10 DEF Reject, Directive, Between, TypeOK
  <2> QED
    BY <1>7, <2>1
<1>11. CASE Convert
  <2>1. todo' \in Seq(Glyphs)
    BY <1>1, <1>11, ConvertWritesText
  <2>2. /\ UNCHANGED <<row, column, cells, paper, at, call>> /\ call # "none" /\ todo = <<>>
        /\ todo' = <<>> => cursor' = <<column, row>>
    BY <1>11 DEF Convert, Directive, Between, history
  <2> QED
    BY <1>5, <2>1, <2>2
<1>12. CASE WriteChar
  BY <1>1, <1>12, ScreenWrite
<1>13. CASE Finish
  <2>1. UNCHANGED <<row, column, cells, cursor, paper, at, todo>> /\ todo = <<>>
    BY <1>13 DEF Finish, screen
  <2> QED
    BY <1>5, <1>6, <2>1
<1>14. ASSUME NEW name, NEW r, Begin(name, r)
       PROVE  ScreenInv'
  <2>1. UNCHANGED <<row, column, cells, cursor, paper, at, todo>> /\ todo = <<>>
    BY <1>14 DEF Begin, screen, history, ScreenInv
  <2> QED
    BY <1>5, <1>6, <2>1
<1>15. CASE UNCHANGED vars
  <2>1. UNCHANGED <<row, column, cells, cursor, paper, at, todo, call>>
    BY <1>15 DEF vars, screen
  <2>2. OwedNow(k)' /\ PaperType(paper)' /\ at' \in 0..Width
    BY <1>2, <1>4, <2>1, SizesAre DEF Owing
  <2>3. \E j \in 0..TabLength, more \in Seq(Glyphs) : todo' = Pads(j) \o more /\ OwedNow(j)'
    BY <1>2, <2>1, <2>2 DEF Owing
  <2> QED
    BY <2>1, <2>2, <2>3 DEF ScreenInv
<1> QED
  BY <1>8, <1>9, <1>10, <1>11, <1>12, <1>13, <1>14, <1>15 DEF Next, Work, tprintf, printf

\* Whatever is printed, the screen shows the last lines of the text through
\* wraps, tabs at the edge and scrolling, the next character goes where it would
\* on paper, and between calls the cursor stands there (tty.c:65-140).
THEOREM ScreenCorrect == Spec => []ScreenShowsTail
<1>1. TypedInv /\ ScreenInv => ScreenShowsTail
  <2> SUFFICES ASSUME TypedInv, ScreenInv PROVE ScreenShowsTail
    OBVIOUS
  <2>1. PICK k \in 0..TabLength, rest \in Seq(Glyphs) : Owing(k, rest)
    BY DEF ScreenInv, Owing
  <2>2. ASSUME todo = <<>> \/ Head(todo) # Pad PROVE k = 0
    <3>1. k \in Nat /\ (k > 0 => todo # <<>> /\ Head(todo) = Pad)
      BY <2>1, PadsThen, SizesAre DEF Owing
    <3> QED
      BY <2>2, <3>1
  <2>3. ASSUME k = 0 PROVE column = at /\ Shows(paper, row, cells)
    BY <2>1, <2>3, OwedSettled DEF Owing, TypedInv, ScreenInv
  <2>4. \A y : PaperRow(y) = RowOf(paper, y)
    BY DEF PaperRow, RowOf
  <2> QED
    BY <2>2, <2>3, <2>4 DEF ScreenShowsTail, Shows, ScreenInv
<1>2. Spec => [](TypedInv /\ ScreenInv)
  <2>1. Init => TypedInv /\ ScreenInv
    BY TypedInit, ScreenInit
  <2>2. TypedInv /\ ScreenInv /\ [Next]_vars => (TypedInv /\ ScreenInv)'
    BY TypedStep, ScreenStep
  <2> QED
    BY <2>1, <2>2, PTL DEF Spec
<1> QED
  BY <1>1, <1>2, PTL

-----------------------------------------------------------------------------
(* The pieces of a format.                                                 *)

\* Where piece i ends in the format, and the words up to it.
EndOf(r, i)   == Len(Joined(CharsOf(r), i))
WordsTo(r, i) == Len(Joined(ArgsOf(r), i))

LEMMA PieceStands ==
  ASSUME NEW r \in Calls \cup Quiet, NEW i \in 1..Len(r.pieces)
  PROVE  LET p == r.pieces[i]
         IN  /\ EndOf(r, i - 1) \in Nat /\ Len(p.chars) \in Nat
             /\ EndOf(r, i) = EndOf(r, i - 1) + Len(p.chars)
             /\ EndOf(r, i) <= Len(r.fmt)
             /\ \A k \in 1..Len(p.chars) : CharAt(r.fmt, EndOf(r, i - 1) + k) = p.chars[k]
<1> DEFINE s == CharsOf(r)
           cs == r.pieces[i].chars
           a == EndOf(r, i - 1)
<1>1. /\ s \in Seq(Seq(Characters)) /\ i \in 1..Len(s) /\ s[i] = cs
      /\ r.fmt = Joined(s, Len(s))
  BY CallsAre
<1>2. /\ a \in Nat /\ Len(cs) \in Nat /\ EndOf(r, i) = a + Len(cs)
      /\ EndOf(r, i) <= Len(r.fmt)
      /\ \A k \in 1..Len(cs) : r.fmt[a + k] = cs[k]
  <2>1. EndOf(r, i - 1) = Len(Joined(s, i - 1)) /\ EndOf(r, i) = Len(Joined(s, i))
    BY DEF EndOf
  <2> HIDE DEF s, cs
  <2>2. /\ Len(Joined(s, i - 1)) \in Nat /\ Len(s[i]) \in Nat
        /\ Len(Joined(s, i)) = Len(Joined(s, i - 1)) + Len(s[i])
        /\ Len(Joined(s, i)) <= Len(Joined(s, Len(s)))
        /\ \A k \in 1..Len(s[i]) : Joined(s, Len(s))[Len(Joined(s, i - 1)) + k] = s[i][k]
    BY <1>1, JoinedAt
  <2> QED
    BY <1>1, <2>1, <2>2
<1> HIDE DEF a, cs
<1>3. Len(r.fmt) \in Nat
  BY CallsAre, LenProperties
<1>4. \A k \in 1..Len(cs) : CharAt(r.fmt, a + k) = cs[k]
  <2> SUFFICES ASSUME NEW k \in 1..Len(cs) PROVE CharAt(r.fmt, a + k) = cs[k]
    OBVIOUS
  <2>1. a + k <= Len(r.fmt)
    BY <1>2, <1>3
  <2> QED
    BY <1>2, <2>1 DEF CharAt
<1> QED
  BY <1>2, <1>4 DEF a, cs

LEMMA WordsStand ==
  ASSUME NEW r \in Calls \cup Quiet, NEW i \in 1..Len(r.pieces)
  PROVE  LET p == r.pieces[i]
         IN  /\ WordsTo(r, i - 1) \in Nat /\ Len(p.args) \in Nat
             /\ WordsTo(r, i) = WordsTo(r, i - 1) + Len(p.args)
             /\ WordsTo(r, i) <= Len(r.args)
             /\ \A k \in 1..Len(p.args) : r.args[WordsTo(r, i - 1) + k] = p.args[k]
<1> DEFINE s == ArgsOf(r)
           ps == r.pieces[i].args
<1>1. /\ s \in Seq(Seq(Argument)) /\ i \in 1..Len(s) /\ s[i] = ps
      /\ r.args = Joined(s, Len(s))
  BY CallsAre
<1>2. WordsTo(r, i - 1) = Len(Joined(s, i - 1)) /\ WordsTo(r, i) = Len(Joined(s, i))
  BY DEF WordsTo
<1> HIDE DEF s, ps
<1>3. /\ Len(Joined(s, i - 1)) \in Nat /\ Len(s[i]) \in Nat
      /\ Len(Joined(s, i)) = Len(Joined(s, i - 1)) + Len(s[i])
      /\ Len(Joined(s, i)) <= Len(Joined(s, Len(s)))
      /\ \A k \in 1..Len(s[i]) : Joined(s, Len(s))[Len(Joined(s, i - 1)) + k] = s[i][k]
  BY <1>1, JoinedAt
<1> QED
  BY <1>1, <1>2, <1>3 DEF ps

LEMMA TextStands ==
  ASSUME NEW r \in Calls \cup Quiet, NEW i \in 1..Len(r.pieces)
  PROVE  /\ Joined(TextOf(r), i - 1) \in Seq(Glyphs) /\ Joined(TextOf(r), i) \in Seq(Glyphs)
         /\ Joined(TextOf(r), i) = Joined(TextOf(r), i - 1) \o r.pieces[i].text
<1> DEFINE s == TextOf(r)
<1>1. s \in Seq(Seq(Glyphs)) /\ i \in 1..Len(s) /\ s[i] = r.pieces[i].text
  BY CallsAre
<1>2. i - 1 \in 0..Len(s) /\ i \in 0..Len(s)
  BY <1>1, LenProperties
<1> HIDE DEF s
<1> QED
  BY <1>1, <1>2, JoinedIs DEF s

LEMMA NonePlaces ==
  ASSUME NEW r \in Calls \cup Quiet
  PROVE  /\ EndOf(r, 0) = 0 /\ WordsTo(r, 0) = 0 /\ Joined(TextOf(r), 0) = <<>> /\ ~Bad(r, 0)
         /\ EndOf(r, Len(r.pieces)) = Len(r.fmt) /\ Len(r.fmt) \in Nat
<1>1. /\ Joined(CharsOf(r), 0) = <<>> /\ Joined(ArgsOf(r), 0) = <<>>
      /\ Joined(TextOf(r), 0) = <<>>
  <2>1. /\ CharsOf(r) \in Seq(Seq(Characters)) /\ ArgsOf(r) \in Seq(Seq(Argument))
        /\ TextOf(r) \in Seq(Seq(Glyphs))
    BY CallsAre
  <2>2. Joined(CharsOf(r), 0) = <<>>
    BY <2>1, JoinedIs
  <2>3. Joined(ArgsOf(r), 0) = <<>>
    BY <2>1, JoinedIs
  <2>4. Joined(TextOf(r), 0) = <<>>
    BY <2>1, JoinedIs
  <2> QED
    BY <2>2, <2>3, <2>4
<1>2. ~Bad(r, 0)
  BY DEF Bad
<1>3. EndOf(r, Len(r.pieces)) = Len(r.fmt) /\ Len(r.fmt) \in Nat
  BY CallsAre, LenProperties DEF EndOf
<1> QED
  BY <1>1, <1>2, <1>3 DEF EndOf, WordsTo

LEMMA BadThen ==
  ASSUME NEW r, NEW i \in Nat, i > 0
  PROVE  Bad(r, i) <=> Bad(r, i - 1) \/ Single(r.pieces[i])
<1>1. 1..i = (1..(i - 1)) \cup {i}
  OBVIOUS
<1> QED
  BY <1>1 DEF Bad

\* The characters of a directive: one %, and one that is none behind it.
LEMMA DirectiveIs ==
  ASSUME NEW m \in length_modifiers, NEW c \in Conversions, NEW t, t = <<"%">> \o m \o <<c>>
  PROVE  /\ Len(m) \in 0..2 /\ Len(t) = Len(m) + 2 /\ t[1] = "%" /\ t[2] # "%"
         /\ \A k \in 1..Len(m) : t[1 + k] = m[k]
         /\ t[Len(m) + 2] = c
<1> DEFINE S == {"%", "h", "l", "L", "j", "z", "t"} \cup Conversions
<1>1. /\ m \in Seq(S) /\ Len(m) \in 0..2 /\ \A k \in 1..Len(m) : m[k] # "%"
  <2>1. CASE m \in {<<"h", "h">>, <<"l", "l">>}
    BY <2>1
  <2>2. CASE m \in {<<"h">>, <<"l">>, <<"L">>, <<"j">>, <<"z">>, <<"t">>}
    BY <2>2
  <2>3. CASE m = <<>>
    BY <2>3
  <2> QED
    BY <2>1, <2>2, <2>3 DEF length_modifiers
<1>2. c \in S /\ c # "%" /\ "%" \in S
  BY DEF Conversions
<1> HIDE DEF S
<1> DEFINE u == <<"%">> \o m
<1>3. /\ u \in Seq(S) /\ Len(u) = 1 + Len(m) /\ u[1] = "%"
      /\ \A k \in 1..Len(m) : u[1 + k] = m[k]
  BY <1>1, <1>2
<1> HIDE DEF u
<1>4. /\ Len(t) = Len(u) + 1 /\ t[Len(u) + 1] = c
      /\ \A k \in 1..Len(u) : t[k] = u[k]
  <2>1. t = u \o <<c>>
    BY DEF u
  <2> QED
    BY <1>2, <1>3, <2>1
<1>5. Len(t) = Len(m) + 2 /\ t[Len(m) + 2] = c /\ t[1] = "%"
  BY <1>1, <1>3, <1>4
<1>6. \A k \in 1..Len(m) : t[1 + k] = m[k]
  BY <1>1, <1>3, <1>4
<1>7. t[2] # "%"
  <2>1. CASE Len(m) = 0
    BY <1>2, <1>5, <2>1
  <2>2. CASE Len(m) # 0
    BY <1>1, <1>6, <2>2
  <2> QED
    BY <2>1, <2>2
<1> QED
  BY <1>1, <1>5, <1>6, <1>7

LEMMA ModifiersAre ==
  ASSUME NEW m \in length_modifiers
  PROVE  m \in Seq({"h", "l", "L", "j", "z", "t"}) /\ Len(m) \in 0..2
<1> DEFINE S == {"h", "l", "L", "j", "z", "t"}
<1>1. \A x \in S : <<x>> \in Seq(S) /\ <<x, x>> \in Seq(S)
  <2> HIDE DEF S
  <2> QED
    OBVIOUS
<1>2. PICK x \in S : m = <<x>> \/ m = <<x, x>> \/ m = <<>>
  BY DEF length_modifiers
<1> HIDE DEF S
<1>3. m \in Seq(S)
  <2>1. <<>> \in Seq(S)
    OBVIOUS
  <2>2. <<x>> \in Seq(S)
    BY <1>1
  <2>3. <<x, x>> \in Seq(S)
    BY <1>1
  <2> QED
    BY <1>2, <2>1, <2>2, <2>3, Zenon
<1>4. Len(m) \in 0..2
  BY <1>2
<1> QED
  BY <1>3, <1>4 DEF S

LEMMA ModifiersTell ==
  ASSUME NEW m \in length_modifiers, NEW k \in length_modifiers, Len(m) = Len(k),
         \A n \in 1..Len(m) : m[n] = k[n]
  PROVE  m = k
<1> DEFINE S == {"h", "l", "L", "j", "z", "t"}
<1>1. m \in Seq(S) /\ k \in Seq(S)
  BY ModifiersAre
<1> HIDE DEF S
<1> QED
  BY <1>1, SeqEqual

\* A modifier with a conversion behind it is the longest that stands there.
LEMMA ModifierStands ==
  ASSUME NEW q \in Nat, NEW m \in length_modifiers, NEW c \in Conversions,
         StandsAt(fmt, q, m), Char(q + Len(m)) = c
  PROVE  Modifier(q) = m /\ Conversion(q) = c
<1> DEFINE k == Modifier(q)
<1>1. /\ k \in length_modifiers /\ Len(k) \in 0..2 /\ Len(m) <= Len(k)
      /\ \A n \in 1..Len(k) : Char(q + n - 1) = k[n]
  BY ModifierIs DEF StandsAt, Char
<1>2. Len(m) \in 0..2 /\ \A n \in 1..Len(m) : Char(q + n - 1) = m[n]
  <2>1. Len(m) \in 0..2
    BY DEF length_modifiers
  <2> QED
    BY <2>1 DEF StandsAt, Char
<1> HIDE DEF k
<1>3. /\ Len(k) = 2 => k[2] \in {"h", "l"} /\ k[1] \in {"h", "l"}
      /\ Len(k) = 1 => k[1] \in {"h", "l", "L", "j", "z", "t"}
  BY <1>1 DEF length_modifiers
<1>4. c \notin {"h", "l", "L", "j", "z", "t"}
  BY DEF Conversions
<1>5. Len(k) = Len(m)
  <2> SUFFICES ASSUME Len(m) < Len(k) PROVE FALSE
    BY <1>1, <1>2
  <2>1. CASE Len(m) = 0
    <3>1. Char(q) = c /\ Char(q) = k[1]
      <4>1. Char(q + 0) = c /\ Char(q + 1 - 1) = k[1]
        BY <1>1, <2>1
      <4> QED
        BY <4>1
    <3> QED
      BY <1>1, <1>3, <1>4, <2>1, <3>1
  <2>2. CASE Len(m) = 1
    <3>1. Len(k) = 2
      BY <1>1, <2>2
    <3>2. Char(q + 1) = c /\ Char(q + 1) = k[2]
      <4>1. Char(q + 2 - 1) = k[2] /\ q + 2 - 1 = q + 1
        BY <1>1, <3>1
      <4> QED
        BY <2>2, <4>1
    <3> QED
      BY <1>3, <1>4, <3>1, <3>2
  <2> QED
    BY <1>1, <1>2, <2>1, <2>2
<1>6. \A n \in 1..Len(m) : m[n] = k[n]
  BY <1>1, <1>2, <1>5
<1>7. k = m
  BY <1>1, <1>5, <1>6, ModifiersTell
<1> QED
  BY <1>7 DEF k, Conversion

\* What is understood stands there.
LEMMA UnderstoodStands ==
  ASSUME NEW q \in Nat, Understood(q)
  PROVE  /\ Modifier(q) \in length_modifiers /\ Conversion(q) \in Conversions
         /\ Implemented(Modifier(q), Conversion(q))
         /\ StandsAt(fmt, q, Modifier(q) \o <<Conversion(q)>>)
<1> DEFINE m == Modifier(q)
           c == Conversion(q)
           u == m \o <<c>>
           S == {"h", "l", "L", "j", "z", "t"} \cup Conversions
<1>1. /\ m \in length_modifiers /\ Len(m) \in 0..2
      /\ \A n \in 1..Len(m) : Char(q + n - 1) = m[n]
  BY ModifierIs DEF StandsAt, Char
<1>2. Implemented(m, c)
  BY DEF Understood
<1>3. c \in Conversions
  BY <1>2 DEF Implemented, Conversions
<1>4. Char(q + Len(m)) = c
  BY DEF Conversion
<1>5. m \in Seq(S) /\ c \in S
  <2>1. m \in Seq({"h", "l", "L", "j", "z", "t"})
    BY <1>1, ModifiersAre
  <2> QED
    BY <1>3, <2>1
<1> HIDE DEF m, c, S
<1>6. /\ Len(u) = Len(m) + 1 /\ u[Len(m) + 1] = c /\ DOMAIN u = 1..Len(u)
      /\ \A n \in 1..Len(m) : u[n] = m[n]
  BY <1>5
<1> HIDE DEF u
<1>7. ASSUME NEW n \in DOMAIN u PROVE Char(q + n - 1) = u[n]
  <2>1. CASE n \in 1..Len(m)
    BY <1>1, <1>6, <2>1
  <2>2. CASE n = Len(m) + 1
    <3>1. q + n - 1 = q + Len(m)
      BY <1>1, <2>2
    <3> QED
      BY <1>4, <1>6, <2>2, <3>1
  <2> QED
    BY <1>1, <1>6, <2>1, <2>2
<1> QED
  BY <1>1, <1>2, <1>3, <1>7 DEF StandsAt, Char, m, c, u

\* What tprintf() finds at the first character of the request's piece i, and
\* where the piece ends.
Ordinary(i, p, q) == Literal(p) /\ ~Single(p) /\ Char(q) # "%" /\ EndOf(request, i) = q
Doubled(i, p, q) == /\ Percent(p) /\ ~Single(p) /\ Char(q) = "%" /\ Char(q + 1) = "%"
                    /\ EndOf(request, i) = q + 1
Alone(i, p, q)   == /\ Single(p) /\ Char(q) = "%" /\ Char(q + 1) # "%"
                    /\ EndOf(request, i) = q
                    /\ Bad(request, i - 1) \/ ~Understood(q + 1)
Directed(i, p, q) ==
  /\ ~Bad(request, i - 1) /\ ~Single(p) /\ Char(q) = "%" /\ Char(q + 1) # "%"
  /\ EndOf(request, i) = q + 1 + Len(Modifier(q + 1))
  /\ Understood(q + 1) /\ Conversion(q + 1) \in Conversions
  /\ Directs(p, Modifier(q + 1), Conversion(q + 1))

LEMMA PieceIs ==
  ASSUME request \in Calls \cup Quiet, NEW i \in 1..Len(request.pieces),
         NEW p, p = request.pieces[i], NEW q, q = EndOf(request, i - 1) + 1
  PROVE  q \in Nat /\ (Ordinary(i, p, q) \/ Doubled(i, p, q) \/ Alone(i, p, q) \/ Directed(i, p, q))
<1> DEFINE t == p.chars
<1>1. /\ q \in Nat /\ Len(t) \in Nat /\ EndOf(request, i) = q - 1 + Len(t)
      /\ \A k \in 1..Len(t) : Char(q + k - 1) = t[k]
  <2> DEFINE a == EndOf(request, i - 1)
  <2>1. /\ a \in Nat /\ Len(t) \in Nat /\ EndOf(request, i) = a + Len(t)
        /\ \A k \in 1..Len(t) : Char(a + k) = t[k]
    BY PieceStands DEF Char, fmt
  <2>2. q = a + 1
    OBVIOUS
  <2> HIDE DEF a, t
  <2>3. q \in Nat /\ a = q - 1 /\ \A k \in Nat : q + k - 1 = a + k
    <3>1. q \in Nat /\ a = q - 1
      BY <2>1, <2>2
    <3>2. \A k \in Nat : q + k - 1 = a + k
      BY <2>1, <3>1
    <3> QED
      BY <3>1, <3>2
  <2> QED
    BY <2>1, <2>3
<1>2. /\ Len(t) >= 1 => Char(q) = t[1]
      /\ Len(t) >= 2 => Char(q + 1) = t[2]
  <2> HIDE DEF t
  <2>1. q + 1 - 1 = q /\ q + 2 - 1 = q + 1
    BY <1>1
  <2>2. Len(t) >= 1 => 1 \in 1..Len(t)
    BY <1>1
  <2>3. Len(t) >= 2 => 2 \in 1..Len(t)
    BY <1>1
  <2> QED
    BY <1>1, <2>1, <2>2, <2>3
<1>3. t \in Seq(Characters)
  BY CallsAre
<1>4. CASE Literal(p)
  <2>1. Len(t) = 1 /\ t # <<"%">>
    BY <1>4 DEF Literal
  <2>2. t = <<t[1]>>
    <3> HIDE DEF t
    <3> QED
      BY <1>3, <2>1
  <2> HIDE DEF t
  <2>3. Char(q) # "%" /\ EndOf(request, i) = q
    BY <1>1, <1>2, <2>1, <2>2
  <2> QED
    BY <1>1, <1>4, <2>1, <2>3 DEF Ordinary, Single, t
<1>5. CASE Percent(p)
  <2>1. t = <<"%", "%">>
    BY <1>5 DEF Percent
  <2>2. Len(t) = 2 /\ t[1] = "%" /\ t[2] = "%" /\ t # <<"%">>
    BY <2>1
  <2> HIDE DEF t
  <2>3. Char(q) = "%" /\ Char(q + 1) = "%" /\ EndOf(request, i) = q + 1
    BY <1>1, <1>2, <2>2
  <2> QED
    BY <1>1, <1>5, <2>2, <2>3 DEF Doubled, Single, t
<1>6. ASSUME NEW m \in length_modifiers, NEW c \in Conversions, Directs(p, m, c),
             ~Bad(request, i - 1)
      PROVE  Directed(i, p, q)
  <2>1. t = <<"%">> \o m \o <<c>> /\ Implemented(m, c)
    BY <1>6 DEF Directs
  <2> HIDE DEF t
  <2>2. /\ Len(m) \in 0..2 /\ Len(t) = Len(m) + 2 /\ t[1] = "%" /\ t[2] # "%"
        /\ \A k \in 1..Len(m) : t[1 + k] = m[k]
        /\ t[Len(m) + 2] = c
    BY <2>1, DirectiveIs
  <2>3. Char(q) = "%" /\ Char(q + 1) # "%" /\ EndOf(request, i) = q + 1 + Len(m)
    <3>1. Len(t) >= 2 /\ q - 1 + Len(t) = q + 1 + Len(m)
      BY <1>1, <2>2
    <3>2. Char(q) = t[1] /\ Char(q + 1) = t[2]
      BY <1>2, <3>1
    <3> QED
      BY <1>1, <2>2, <3>1, <3>2
  <2>4. Char(q + 1 + Len(m)) = c
    <3>1. PICK k \in 1..Len(t) : k = Len(m) + 2
      BY <2>2
    <3>2. q + k - 1 = q + 1 + Len(m)
      BY <1>1, <2>2, <3>1
    <3> QED
      BY <1>1, <2>2, <3>1, <3>2
  <2>5. StandsAt(fmt, q + 1, m)
    <3> SUFFICES ASSUME NEW n \in 1..Len(m) PROVE Char(q + 1 + n - 1) = m[n]
      <4>1. DOMAIN m = 1..Len(m)
        BY DEF length_modifiers
      <4> QED
        BY <4>1 DEF StandsAt, Char
    <3>1. PICK k \in 1..Len(t) : k = 1 + n
      BY <2>2
    <3>2. q + k - 1 = q + 1 + n - 1
      BY <1>1, <3>1
    <3> QED
      BY <1>1, <2>2, <3>1, <3>2
  <2>6. Modifier(q + 1) = m /\ Conversion(q + 1) = c
    <3>1. PICK e \in Nat : e = q + 1
      BY <1>1
    <3> QED
      BY <2>4, <2>5, <3>1, ModifierStands
  <2>7. ~Single(p)
    <3>1. Len(t) # 1
      BY <2>2
    <3>2. Len(<<"%">>) = 1
      OBVIOUS
    <3> QED
      BY <3>1, <3>2 DEF Single, t
  <2> QED
    BY <1>6, <2>1, <2>3, <2>6, <2>7 DEF Directed, Understood
<1>7. CASE /\ Single(p) /\ CharAt(request.fmt, EndOf(request, i) + 1) # "%"
           /\ Bad(request, i - 1) \/ \A m \in length_modifiers, c \in Conversions :
                Implemented(m, c) => ~StandsAt(request.fmt, EndOf(request, i) + 1, m \o <<c>>)
  <2>1. t = <<"%">>
    BY <1>7 DEF Single
  <2>2. Len(t) = 1 /\ t[1] = "%"
    BY <2>1
  <2> HIDE DEF t
  <2>3. Char(q) = "%" /\ EndOf(request, i) = q
    BY <1>1, <1>2, <2>2
  <2>4. Char(q + 1) # "%"
    BY <1>7, <2>3 DEF Char, fmt
  <2>5. Bad(request, i - 1) \/ ~Understood(q + 1)
    <3> SUFFICES ASSUME Understood(q + 1), ~Bad(request, i - 1) PROVE FALSE
      OBVIOUS
    <3>1. PICK e \in Nat : e = q + 1
      BY <1>1
    <3>2. /\ Modifier(e) \in length_modifiers /\ Conversion(e) \in Conversions
          /\ Implemented(Modifier(e), Conversion(e))
          /\ StandsAt(fmt, e, Modifier(e) \o <<Conversion(e)>>)
      BY <3>1, UnderstoodStands
    <3>3. StandsAt(request.fmt, EndOf(request, i) + 1, Modifier(e) \o <<Conversion(e)>>)
      BY <2>3, <3>1, <3>2 DEF fmt
    <3> QED
      BY <1>7, <3>2, <3>3
  <2> QED
    <3>1. Alone(i, p, q)
      BY <1>7, <2>3, <2>4, <2>5 DEF Alone
    <3> QED
      BY <1>1, <3>1
<1>8. IsPiece(request, i)
  BY CallsAre
<1> QED
  BY <1>1, <1>4, <1>5, <1>6, <1>7, <1>8 DEF IsPiece, EndOf

-----------------------------------------------------------------------------
(* A run of the format: the last character of piece i and characters       *)
(* behind it, which are the text of their pieces.                          *)

\* The format from p to the end of piece j is the text of the pieces from i to
\* j; those behind i have no words and are no single %.
Runs(i, j, p) ==
  /\ Joined(TextOf(request), j) =
       Joined(TextOf(request), i - 1) \o SubSeq(fmt, p, EndOf(request, j))
  /\ WordsTo(request, j) = WordsTo(request, i) /\ (Bad(request, j) <=> Bad(request, i))

Ran(i, p, e) == \E j \in i..Len(request.pieces) : EndOf(request, j) + 1 = e /\ Runs(i, j, p)

LEMMA RunStarts ==
  ASSUME request \in Calls \cup Quiet, NEW i \in 1..Len(request.pieces),
         NEW p, p = EndOf(request, i), p \in 1..Len(fmt),
         request.pieces[i].text = <<Char(p)>>
  PROVE  Runs(i, i, p)
<1>1. fmt \in Seq(Characters) /\ p <= Len(fmt)
  BY CallsAre DEF fmt
<1>2. SubSeq(fmt, p, p) = <<fmt[p]>>
  <2>1. p \in 1..Len(fmt) /\ p \in p..Len(fmt) /\ p - 1 < p /\ p \in Int
    BY <1>1
  <2>2. SubSeq(fmt, p, p) = SubSeq(fmt, p, p - 1) \o <<fmt[p]>>
    BY <1>1, <2>1, SubSeqRecursiveSecond
  <2>3. SubSeq(fmt, p, p - 1) = <<>>
    BY <2>1, SubSeqEmpty
  <2>4. fmt[p] \in Characters
    BY <1>1, <2>1
  <2>5. <<fmt[p]>> \in Seq(Characters)
    BY <2>4
  <2> QED
    BY <2>2, <2>3, <2>5, ConcatEmptySeq
<1>3. Char(p) = fmt[p]
  BY <1>1 DEF Char, CharAt
<1> QED
  BY <1>2, <1>3, TextStands DEF Runs

LEMMA RunGoesOn ==
  ASSUME request \in Calls \cup Quiet, NEW i \in 1..Len(request.pieces),
         NEW j \in i..Len(request.pieces), j < Len(request.pieces),
         NEW p \in 1..EndOf(request, j), Runs(i, j, p), Char(EndOf(request, j) + 1) # "%"
  PROVE  EndOf(request, j + 1) = EndOf(request, j) + 1 /\ Runs(i, j + 1, p)
<1> DEFINE n == Len(request.pieces)
<1>1. n \in Nat /\ Len(fmt) \in Nat /\ fmt \in Seq(Characters)
  BY CallsAre, LenProperties DEF fmt
<1>2. PICK k \in 1..n : k = j + 1
  BY <1>1
<1>3. k - 1 = j /\ j \in 1..n
  BY <1>1, <1>2
<1> DEFINE piece == request.pieces[k]
           q == EndOf(request, j) + 1
<1> HIDE DEF n
<1>4. q \in Nat /\ (Ordinary(k, piece, q) \/ Doubled(k, piece, q) \/ Alone(k, piece, q)
                    \/ Directed(k, piece, q))
  <2>1. q = EndOf(request, k - 1) + 1
    BY <1>3
  <2> HIDE DEF q
  <2> QED
    BY <2>1, PieceIs DEF n
<1>5. Ordinary(k, piece, q)
  BY <1>4 DEF Doubled, Alone, Directed
<1>6. EndOf(request, k) = q
  BY <1>5 DEF Ordinary
<1>7. EndOf(request, j) \in Nat /\ q <= Len(fmt)
  <2>1. EndOf(request, k - 1) \in Nat /\ EndOf(request, k) <= Len(request.fmt)
    BY PieceStands DEF n
  <2> QED
    BY <1>3, <1>6, <2>1 DEF fmt
<1>8. piece.text = <<fmt[q]>>
  <2>1. Len(piece.chars) = 1 /\ piece.text = piece.chars /\ piece.chars \in Seq(Characters)
    BY <1>5, CallsAre DEF Ordinary, Literal, n
  <2>2. piece.chars = <<piece.chars[1]>>
    <3> HIDE DEF piece
    <3> QED
      BY <2>1
  <2>3. CharAt(request.fmt, EndOf(request, k - 1) + 1) = piece.chars[1]
    <3>1. \A x \in 1..Len(piece.chars) :
            CharAt(request.fmt, EndOf(request, k - 1) + x) = piece.chars[x]
      BY PieceStands DEF n
    <3> HIDE DEF piece
    <3> QED
      BY <2>1, <3>1
  <2>4. CharAt(request.fmt, q) = fmt[q]
    BY <1>7 DEF CharAt, fmt
  <2> QED
    BY <1>3, <2>1, <2>2, <2>3, <2>4
<1> HIDE DEF piece
<1>9. SubSeq(fmt, p, q) = SubSeq(fmt, p, EndOf(request, j)) \o <<fmt[q]>>
  <2>1. p \in 1..Len(fmt) /\ q \in p..Len(fmt) /\ q - 1 = EndOf(request, j)
    BY <1>1, <1>7
  <2> HIDE DEF q
  <2>2. SubSeq(fmt, p, q) = SubSeq(fmt, p, q - 1) \o <<fmt[q]>>
    BY <1>1, <2>1, SubSeqRecursiveSecond
  <2> QED
    BY <2>1, <2>2
<1>10. Joined(TextOf(request), k) =
         Joined(TextOf(request), i - 1) \o SubSeq(fmt, p, q)
  <2> DEFINE u == Joined(TextOf(request), i - 1)
             v == SubSeq(fmt, p, EndOf(request, j))
             w == <<fmt[q]>>
  <2>1. u \in Seq(Glyphs)
    BY TextStands
  <2>2. v \in Seq(Glyphs) /\ w \in Seq(Glyphs)
    <3>1. \A x \in 1..Len(fmt) : fmt[x] \in Glyphs
      BY <1>1 DEF Glyphs
    <3>2. EndOf(request, j) <= Len(fmt) /\ p \in Nat /\ q \in 1..Len(fmt)
      BY <1>1, <1>7
    <3>3. \A x \in p..EndOf(request, j) : fmt[x] \in Glyphs
      <4>1. \A x \in p..EndOf(request, j) : x \in 1..Len(fmt)
        BY <1>1, <1>7, <3>2
      <4> QED
        BY <3>1, <4>1
    <3>4. v \in Seq(Glyphs)
      <4> DEFINE b == EndOf(request, j)
      <4>1. b \in Int /\ p \in Int /\ \A x \in p..b : fmt[x] \in Glyphs
        BY <1>7, <3>2, <3>3
      <4> HIDE DEF b
      <4>2. SubSeq(fmt, p, b) \in Seq(Glyphs)
        BY <4>1, SubSeqProperties
      <4> QED
        BY <4>2 DEF b
    <3> QED
      BY <3>1, <3>2, <3>4
  <2>3. Joined(TextOf(request), j) = u \o v
    BY DEF Runs
  <2>4. Joined(TextOf(request), k) = Joined(TextOf(request), k - 1) \o piece.text
    BY TextStands DEF n, piece
  <2>5. SubSeq(fmt, p, q) = v \o w
    BY <1>9
  <2> HIDE DEF u, v, w
  <2>6. (u \o v) \o w = u \o (v \o w)
    BY <2>1, <2>2, ConcatAssociative
  <2>7. Joined(TextOf(request), k) = (u \o v) \o w
    BY <1>3, <1>8, <2>3, <2>4 DEF w
  <2> QED
    BY <2>5, <2>6, <2>7 DEF u
<1>11. WordsTo(request, k) = WordsTo(request, i) /\ (Bad(request, k) <=> Bad(request, i))
  <2>1. WordsTo(request, k) = WordsTo(request, k - 1) + Len(piece.args)
        /\ WordsTo(request, k - 1) \in Nat
    BY WordsStand DEF n, piece
  <2>2. piece.args = <<>> /\ ~Single(piece)
    BY <1>5 DEF Ordinary, Literal, piece
  <2>3. WordsTo(request, k) = WordsTo(request, j)
    <3>1. Len(piece.args) = 0
      BY <2>2
    <3> QED
      BY <1>3, <2>1, <3>1
  <2>4. Bad(request, k) <=> Bad(request, k - 1) \/ Single(piece)
    <3>1. k \in Nat /\ k > 0
      BY <1>1
    <3> QED
      BY <3>1, BadThen DEF piece
  <2> QED
    BY <1>3, <2>2, <2>3, <2>4 DEF Runs
<1> QED
  BY <1>2, <1>6, <1>10, <1>11 DEF Runs

LEMMA RunPieces ==
  ASSUME request \in Calls \cup Quiet, NEW i \in 1..Len(request.pieces),
         NEW p, p = EndOf(request, i), p \in 1..Len(fmt),
         request.pieces[i].text = <<Char(p)>>
  PROVE  Ran(i, p, RunEnd(p))
<1> DEFINE n == Len(request.pieces)
           e == RunEnd(p)
           F(k) == EndOf(request, k)
           T == {k \in Nat : i + k <= n => p <= F(i + k) /\ F(i + k) < e /\ Runs(i, i + k, p)}
<1>1. /\ n \in Nat /\ i \in 1..n /\ Len(fmt) \in Nat /\ F(n) = Len(fmt) /\ fmt \in Seq(Glyphs)
      /\ p \in 1..Len(fmt) /\ F(i) = p
  BY CallsAre, NonePlaces, FormatsAreText DEF fmt
<1>2. /\ e \in (p + 1)..(Len(fmt) + 1)
      /\ \A q \in (p + 1)..(e - 1) : Char(q) # "%"
  BY <1>1, RunEndIs
<1>3. Runs(i, i, p)
  BY RunStarts
<1>4. SUFFICES ASSUME ~Ran(i, p, e) PROVE FALSE
  OBVIOUS
<1> HIDE DEF e, n
<1>5. \A j \in i..n : Runs(i, j, p) => F(j) + 1 # e
  BY <1>4 DEF Ran, n
<1> HIDE DEF F
<1>6. 0 \in T
  <2>1. p < e /\ p <= p
    BY <1>1, <1>2
  <2>2. i + 0 = i
    BY <1>1
  <2> QED
    BY <1>1, <1>3, <2>1, <2>2
<1>7. ASSUME NEW k \in 1..(n - i), k - 1 \in T PROVE k \in T
  <2>1. PICK j \in i..n : j = i + (k - 1) /\ j + 1 = i + k /\ j < n
    BY <1>1
  <2>2. p <= F(j) /\ F(j) < e /\ Runs(i, j, p)
    <3>1. i + (k - 1) <= n
      BY <1>1, <2>1
    <3> QED
      BY <1>7, <2>1, <3>1
  <2>3. F(j) \in Nat
    <3>1. PICK m \in 1..n : m = j + 1 /\ m - 1 = j
      BY <1>1, <2>1
    <3>2. F(m - 1) \in Nat
      BY PieceStands DEF F, n
    <3> QED
      BY <3>1, <3>2
  <2>4. F(j) + 1 \in (p + 1)..(e - 1)
    <3>1. F(j) + 1 # e
      BY <1>5, <2>2
    <3>2. \A x \in Nat : p <= x /\ x < e /\ x + 1 # e => x + 1 \in (p + 1)..(e - 1)
      BY <1>1, <1>2
    <3> QED
      BY <2>2, <2>3, <3>1, <3>2
  <2>5. Char(F(j) + 1) # "%"
    BY <1>2, <2>4
  <2>6. F(j + 1) = F(j) + 1 /\ Runs(i, j + 1, p)
    <3>1. p \in 1..F(j)
      BY <1>1, <2>2, <2>3
    <3> QED
      BY <1>1, <2>1, <2>2, <2>5, <3>1, RunGoesOn DEF F, n
  <2>7. p <= F(j + 1) /\ F(j + 1) < e
    BY <1>1, <1>2, <2>3, <2>4, <2>6
  <2> QED
    BY <1>1, <2>1, <2>6, <2>7
<1>8. n - i \in T
  <2> DEFINE d == n - i
  <2>1. d \in Nat /\ \A k \in 1..d : k - 1 \in T => k \in T
    BY <1>1, <1>7
  <2> HIDE DEF T, d
  <2>2. 0..d \subseteq T
    BY <1>6, <2>1, CountTo
  <2> QED
    BY <2>1, <2>2 DEF d
<1>9. F(n) < e /\ Runs(i, n, p)
  <2>1. i + (n - i) = n /\ n <= n
    BY <1>1
  <2> QED
    BY <1>8, <2>1
<1>10. F(n) + 1 = e /\ n \in i..n
  BY <1>1, <1>2, <1>9
<1> QED
  BY <1>5, <1>9, <1>10

-----------------------------------------------------------------------------
(* What a call has written is what the pieces it has read mean.            *)

\* The call has read i pieces of its format, and the words they take unless one
\* of them was rejected.
Reached(i) == /\ pos = EndOf(request, i) + 1 /\ (rejected <=> Bad(request, i))
              /\ rejected \/ argp = WordsTo(request, i)

\* What it said and has still to write is the text of the pieces.
Saying(i) == \E k \in Nat, rest \in Seq(Glyphs) :
               todo = Pads(k) \o rest /\ said \o rest = Joined(TextOf(request), i)

Midway == /\ request \in Calls \cup Quiet
          /\ \E i \in 0..Len(request.pieces) : Reached(i) /\ Saying(i)

MeantInv ==
  /\ ~misread
  /\ call = "none" => todo = <<>> /\ said = <<>> /\ argp = 0 /\ ~rejected
  /\ call # "none" => Midway
  /\ said \in Seq(Glyphs) /\ heard = IF call = "tprintf" THEN Unsigned(said) ELSE <<>>

LEMMA MeantInit == Init => MeantInv
<1> SUFFICES ASSUME Init PROVE MeantInv
  OBVIOUS
<1>1. <<>> \in Seq(Glyphs)
  OBVIOUS
<1> QED
  BY <1>1 DEF Init, MeantInv

LEMMA PaddingNat == ASSUME ScreenType PROVE Padding \in Nat
<1> DEFINE t == TabLength
           c == column
<1>1. t \in Nat /\ t > 0 /\ c \in Int
  BY SizesAre DEF ScreenType
<1> HIDE DEF t, c
<1>2. c % t \in 0..(t - 1)
  BY <1>1
<1>3. t - (c % t) \in Nat
  BY <1>1, <1>2
<1> QED
  BY <1>3 DEF Padding, t, c

\* What a call says once nothing is left to write.
LEMMA SaidAll ==
  ASSUME NEW i, Saying(i), todo = <<>>, said \in Seq(Glyphs)
  PROVE  said = Joined(TextOf(request), i)
<1>1. PICK k \in Nat, rest \in Seq(Glyphs) :
        todo = Pads(k) \o rest /\ said \o rest = Joined(TextOf(request), i)
  BY DEF Saying
<1>2. k = 0
  <2>1. k > 0 => Pads(k) \o rest # <<>>
    BY PadsThen
  <2>2. ~(k > 0)
    BY <1>1, <2>1, Zenon
  <2> QED
    BY <2>2
<1>3. rest = <<>>
  BY <1>1, <1>2, PadsNone
<1> QED
  BY <1>1, <1>3, ConcatEmptySeq

\* A step that reads up to the end of piece j and leaves its text to write.
LEMMA MeantGoesOn ==
  ASSUME MeantInv, call # "none", UNCHANGED <<call, request, said, heard>>, ~misread',
         NEW j \in 0..Len(request.pieces), pos' = EndOf(request, j) + 1,
         rejected' <=> Bad(request, j), rejected' \/ argp' = WordsTo(request, j),
         NEW rest \in Seq(Glyphs), todo' = rest, said \o rest = Joined(TextOf(request), j)
  PROVE  MeantInv'
<1>1. Reached(j)'
  BY DEF Reached
<1>2. Saying(j)'
  <2>1. todo' = Pads(0) \o rest
    BY PadsNone
  <2>2. said' \o rest = Joined(TextOf(request'), j)
    OBVIOUS
  <2> QED
    BY <2>1, <2>2 DEF Saying
<1>3. Midway'
  <2>1. request' \in Calls \cup Quiet /\ j \in 0..Len(request'.pieces)
    BY DEF MeantInv, Midway
  <2> QED
    BY <1>1, <1>2, <2>1 DEF Midway
<1> QED
  BY <1>3 DEF MeantInv

\* Between two prints the next piece stands at pos.
NextPiece(i) == /\ i \in 1..Len(request.pieces) /\ request \in Calls \cup Quiet
                /\ Reached(i - 1) /\ said = Joined(TextOf(request), i - 1)
                /\ pos = EndOf(request, i - 1) + 1 /\ pos \in Nat
                /\ \/ Ordinary(i, request.pieces[i], pos) \/ Doubled(i, request.pieces[i], pos)
                   \/ Alone(i, request.pieces[i], pos) \/ Directed(i, request.pieces[i], pos)

LEMMA NextPieceIs ==
  ASSUME MeantInv, Between
  PROVE  \E i \in Nat : NextPiece(i)
<1>1. call # "none" /\ todo = <<>> /\ pos <= Len(fmt) /\ request \in Calls \cup Quiet
  BY DEF Between, MeantInv, Midway
<1>2. PICK h \in 0..Len(request.pieces) : Reached(h) /\ Saying(h)
  BY <1>1 DEF MeantInv, Midway
<1>3. said = Joined(TextOf(request), h)
  BY <1>1, <1>2, SaidAll DEF MeantInv
<1>4. EndOf(request, Len(request.pieces)) = Len(fmt) /\ Len(fmt) \in Nat
  BY <1>1, NonePlaces DEF fmt
<1>5. Len(request.pieces) \in Nat
  BY <1>1, CallsAre
<1>6. h # Len(request.pieces)
  <2> SUFFICES ASSUME h = Len(request.pieces) PROVE FALSE
    OBVIOUS
  <2>1. pos = Len(fmt) + 1
    BY <1>2, <1>4 DEF Reached
  <2> QED
    BY <1>1, <1>4, <2>1
<1>7. PICK i \in 1..Len(request.pieces) : i - 1 = h
  <2>1. h + 1 \in 1..Len(request.pieces) /\ h + 1 - 1 = h
    BY <1>5, <1>6
  <2> QED
    BY <2>1
<1>8. pos = EndOf(request, i - 1) + 1
  BY <1>2, <1>7 DEF Reached
<1>9. pos \in Nat /\ (Ordinary(i, request.pieces[i], pos) \/ Doubled(i, request.pieces[i], pos)
        \/ Alone(i, request.pieces[i], pos) \/ Directed(i, request.pieces[i], pos))
  BY <1>1, <1>8, PieceIs
<1>10. NextPiece(i)
  BY <1>1, <1>2, <1>3, <1>7, <1>8, <1>9 DEF NextPiece
<1> QED
  BY <1>5, <1>10

\* print_c: piece i and the characters behind it.
LEMMA PrintMeant ==
  ASSUME MeantInv, Between, NEW i \in Nat, NextPiece(i),
         NEW p, p = EndOf(request, i), p >= pos, PrintRun(p),
         request.pieces[i].text = <<Char(p)>>,
         rejected' <=> Bad(request, i), rejected' \/ argp = WordsTo(request, i)
  PROVE  MeantInv'
<1>1. /\ i \in 1..Len(request.pieces) /\ request \in Calls \cup Quiet /\ pos \in Nat /\ pos >= 1
      /\ said = Joined(TextOf(request), i - 1) /\ call # "none"
  <2>1. EndOf(request, i - 1) \in Nat /\ pos = EndOf(request, i - 1) + 1
    BY PieceStands DEF NextPiece
  <2> QED
    BY <2>1 DEF NextPiece, Between
<1>2. p \in 1..Len(fmt) /\ fmt \in Seq(Characters) /\ fmt \in Seq(Glyphs)
  <2>1. EndOf(request, i - 1) \in Nat /\ EndOf(request, i) <= Len(fmt)
        /\ EndOf(request, i) = EndOf(request, i - 1) + Len(request.pieces[i].chars)
        /\ Len(request.pieces[i].chars) \in Nat /\ Len(fmt) \in Nat
    BY <1>1, PieceStands, NonePlaces DEF fmt
  <2>2. fmt \in Seq(Characters)
    BY <1>1, CallsAre DEF fmt
  <2>3. p \in Nat
    BY <2>1
  <2> QED
    BY <1>1, <2>1, <2>2, <2>3, GlyphsAre
<1>3. PICK j \in i..Len(request.pieces) : EndOf(request, j) + 1 = RunEnd(p) /\ Runs(i, j, p)
  <2>1. Ran(i, p, RunEnd(p))
    BY <1>1, <1>2, RunPieces
  <2> QED
    BY <2>1 DEF Ran
<1> DEFINE e == EndOf(request, j)
           rest == SubSeq(fmt, p, e)
<1>4. e \in Nat /\ e <= Len(fmt) /\ j \in 0..Len(request.pieces) /\ RunEnd(p) - 1 = e
  <2>1. PICK h \in 1..Len(request.pieces) : h = j
    BY <1>1
  <2>2. EndOf(request, h) \in Nat /\ EndOf(request, h) <= Len(fmt)
    <3>1. EndOf(request, h - 1) \in Nat /\ Len(request.pieces[h].chars) \in Nat
          /\ EndOf(request, h) = EndOf(request, h - 1) + Len(request.pieces[h].chars)
          /\ EndOf(request, h) <= Len(fmt)
      BY <1>1, PieceStands DEF fmt
    <3> QED
      BY <3>1
  <2>3. e \in Nat /\ e <= Len(fmt) /\ j \in 0..Len(request.pieces) /\ e + 1 = RunEnd(p)
    BY <1>1, <1>3, <2>1, <2>2
  <2> HIDE DEF e
  <2> QED
    BY <2>3
<1>5. rest \in Seq(Glyphs) /\ todo' = rest
  <2>1. todo' = rest
    BY <1>4 DEF PrintRun
  <2> HIDE DEF e
  <2>2. \A x \in p..e : fmt[x] \in Glyphs
    <3>1. \A x \in p..e : x \in 1..Len(fmt)
      BY <1>2, <1>4
    <3> QED
      BY <1>2, <3>1
  <2>3. SubSeq(fmt, p, e) \in Seq(Glyphs)
    BY <1>2, <1>4, <2>2, SubSeqProperties
  <2> QED
    BY <2>1, <2>3
<1>6. said \o rest = Joined(TextOf(request), j)
  BY <1>1, <1>3 DEF Runs
<1>7. pos' = e + 1 /\ UNCHANGED <<call, request, said, heard>> /\ ~misread' /\ argp' = argp
  BY <1>3 DEF PrintRun, history, MeantInv
<1>8. (rejected' <=> Bad(request, j)) /\ (rejected' \/ argp' = WordsTo(request, j))
  BY <1>3, <1>7 DEF Runs
<1> HIDE DEF rest
<1> QED
  BY <1>1, <1>4, <1>5, <1>6, <1>7, <1>8, MeantGoesOn

LEMMA TextMeant == ASSUME MeantInv, Text PROVE MeantInv'
<1>1. Between /\ Char(pos) # "%" /\ PrintRun(pos) /\ UNCHANGED rejected
  BY DEF Text
<1>2. PICK i \in Nat : NextPiece(i)
  BY <1>1, NextPieceIs
<1> DEFINE p == request.pieces[i]
<1>3. Ordinary(i, p, pos) /\ i \in 1..Len(request.pieces) /\ request \in Calls \cup Quiet
  BY <1>1, <1>2 DEF NextPiece, Doubled, Alone, Directed
<1>4. Literal(p) /\ ~Single(p) /\ EndOf(request, i) = pos
  BY <1>3 DEF Ordinary
<1>5. p.text = <<Char(pos)>>
  <2>1. EndOf(request, i - 1) + 1 = pos
    BY <1>2 DEF NextPiece
  <2>2. Len(p.chars) = 1 /\ p.chars \in Seq(Characters) /\ p.text = p.chars
    BY <1>3, <1>4, CallsAre DEF Literal
  <2>3. \A x \in 1..Len(p.chars) :
          CharAt(request.fmt, EndOf(request, i - 1) + x) = p.chars[x]
    BY <1>3, PieceStands
  <2> HIDE DEF p
  <2>4. Char(pos) = p.chars[1]
    BY <2>1, <2>2, <2>3 DEF Char, fmt
  <2> QED
    BY <2>2, <2>4
<1>6. WordsTo(request, i) = WordsTo(request, i - 1) /\ (Bad(request, i) <=> Bad(request, i - 1))
  <2>1. p.args = <<>>
    BY <1>4 DEF Literal
  <2>2. Len(p.args) = 0
    BY <2>1
  <2>3. /\ WordsTo(request, i - 1) \in Nat
        /\ WordsTo(request, i) = WordsTo(request, i - 1) + Len(p.args)
    BY <1>3, WordsStand
  <2>4. Bad(request, i) <=> Bad(request, i - 1) \/ Single(p)
    BY <1>3, BadThen
  <2> HIDE DEF p
  <2> QED
    BY <1>4, <2>2, <2>3, <2>4
<1>7. (rejected <=> Bad(request, i - 1)) /\ (rejected \/ argp = WordsTo(request, i - 1))
  BY <1>2 DEF NextPiece, Reached
<1>8. (rejected' <=> Bad(request, i)) /\ (rejected' \/ argp = WordsTo(request, i))
  BY <1>1, <1>6, <1>7
<1>9. pos >= pos
  BY <1>2 DEF NextPiece
<1> QED
  BY <1>1, <1>2, <1>4, <1>5, <1>8, <1>9, PrintMeant

LEMMA PercentMeant == ASSUME MeantInv, PercentSign PROVE MeantInv'
<1>1. /\ Between /\ Char(pos) = "%" /\ Char(pos + 1) = "%" /\ PrintRun(pos + 1)
      /\ UNCHANGED rejected
  BY DEF PercentSign, Directive
<1>2. PICK i \in Nat : NextPiece(i)
  BY <1>1, NextPieceIs
<1> DEFINE p == request.pieces[i]
<1>3. Doubled(i, p, pos) /\ i \in 1..Len(request.pieces) /\ request \in Calls \cup Quiet
  BY <1>1, <1>2 DEF NextPiece, Ordinary, Alone, Directed
<1>4. Percent(p) /\ ~Single(p) /\ EndOf(request, i) = pos + 1
  BY <1>3 DEF Doubled
<1>5. p.text = <<Char(pos + 1)>>
  BY <1>1, <1>4 DEF Percent
<1>6. WordsTo(request, i) = WordsTo(request, i - 1) /\ (Bad(request, i) <=> Bad(request, i - 1))
  <2>1. p.args = <<>>
    BY <1>4 DEF Percent
  <2>2. Len(p.args) = 0
    BY <2>1
  <2>3. /\ WordsTo(request, i - 1) \in Nat
        /\ WordsTo(request, i) = WordsTo(request, i - 1) + Len(p.args)
    BY <1>3, WordsStand
  <2>4. Bad(request, i) <=> Bad(request, i - 1) \/ Single(p)
    BY <1>3, BadThen
  <2> HIDE DEF p
  <2> QED
    BY <1>4, <2>2, <2>3, <2>4
<1>7. (rejected <=> Bad(request, i - 1)) /\ (rejected \/ argp = WordsTo(request, i - 1))
  BY <1>2 DEF NextPiece, Reached
<1>8. (rejected' <=> Bad(request, i)) /\ (rejected' \/ argp = WordsTo(request, i))
  BY <1>1, <1>6, <1>7
<1>9. pos + 1 >= pos
  BY <1>2 DEF NextPiece
<1> QED
  BY <1>1, <1>2, <1>4, <1>5, <1>8, <1>9, PrintMeant

LEMMA RejectMeant == ASSUME MeantInv, Reject PROVE MeantInv'
<1>1. /\ Between /\ Char(pos) = "%" /\ Char(pos + 1) # "%" /\ PrintRun(pos)
      /\ rejected \/ ~Understood(pos + 1)
      /\ rejected' = TRUE
  BY DEF Reject, Directive
<1>2. PICK i \in Nat : NextPiece(i)
  BY <1>1, NextPieceIs
<1> DEFINE p == request.pieces[i]
<1>3. rejected <=> Bad(request, i - 1)
  BY <1>2 DEF NextPiece, Reached
<1>4. Alone(i, p, pos) /\ i \in 1..Len(request.pieces) /\ request \in Calls \cup Quiet
  BY <1>1, <1>2, <1>3 DEF NextPiece, Ordinary, Doubled, Directed
<1>5. Single(p) /\ EndOf(request, i) = pos
  BY <1>4 DEF Alone
<1>6. p.text = <<Char(pos)>>
  BY <1>1, <1>5 DEF Single
<1>7. Bad(request, i)
  BY <1>4, <1>5, BadThen
<1>8. pos >= pos
  BY <1>2 DEF NextPiece
<1> QED
  BY <1>1, <1>2, <1>5, <1>6, <1>7, <1>8, PrintMeant

\* The words that stand for a directive are the ones va_arg finds.
LEMMA ConvertMeant == ASSUME TypedInv, MeantInv, Convert PROVE MeantInv'
<1>1. /\ Between /\ Char(pos) = "%" /\ Char(pos + 1) # "%" /\ ~rejected /\ Understood(pos + 1)
  BY DEF Convert, Directive
<1>2. PICK i \in Nat : NextPiece(i)
  BY <1>1, NextPieceIs
<1> DEFINE p == request.pieces[i]
           m == Modifier(pos + 1)
           c == Conversion(pos + 1)
           v == p.args[1].value
           type == TypeOf(m, c)
<1>3. /\ ~Bad(request, i - 1) /\ argp = WordsTo(request, i - 1) /\ pos \in Nat
      /\ said = Joined(TextOf(request), i - 1)
  BY <1>1, <1>2 DEF NextPiece, Reached
<1>4. Directed(i, p, pos) /\ i \in 1..Len(request.pieces) /\ request \in Calls \cup Quiet
  BY <1>1, <1>2, <1>3 DEF NextPiece, Ordinary, Doubled, Alone
<1>5. /\ ~Single(p) /\ EndOf(request, i) = pos + 1 + Len(m)
      /\ c \in Conversions /\ Directs(p, m, c)
  BY <1>4 DEF Directed
<1>6. /\ Implemented(m, c) /\ p.args = Pushed(type, v) /\ IsText(p.text, c, v, m)
      /\ p.text \in Seq(Glyphs) /\ p.args \in Seq(Argument)
  BY <1>4, <1>5, CallsAre DEF Directs
<1>7. Taken(pos + 1) = type
  BY DEF Taken
<1> HIDE DEF m, c, type, v
<1>8. WordsOf(type) \in {1, 2}
  BY DEF WordsOf
<1>9. /\ Len(p.args) = WordsOf(type)
      /\ \A n \in 1..WordsOf(type) :
           p.args[n].type = type /\ p.args[n].word = n /\ p.args[n].value = v
  <2> DEFINE w == WordsOf(type)
  <2>1. p.args = [n \in 1..w |-> [type |-> type, word |-> n, value |-> v]]
    BY <1>6 DEF Pushed
  <2>2. w \in Nat
    BY <1>8
  <2> HIDE DEF w, p
  <2>3. Len(p.args) = w
    BY <2>1, <2>2
  <2>4. \A n \in 1..w : p.args[n].type = type /\ p.args[n].word = n /\ p.args[n].value = v
    BY <2>1
  <2> QED
    BY <2>3, <2>4 DEF w
<1>10. v \in Int
  <2>1. 1 \in 1..Len(p.args)
    BY <1>8, <1>9
  <2>2. p.args[1] \in Argument
    <3> HIDE DEF p
    <3> QED
      BY <1>6, <2>1
  <2> QED
    BY <2>2 DEF Argument, v
<1>11. /\ argp \in Nat /\ WordsTo(request, i) = argp + WordsOf(type)
       /\ argp + WordsOf(type) <= Len(request.args)
       /\ \A n \in 1..WordsOf(type) : request.args[argp + n] = p.args[n]
  <2>1. /\ WordsTo(request, i - 1) \in Nat
        /\ WordsTo(request, i) = WordsTo(request, i - 1) + Len(p.args)
        /\ WordsTo(request, i) <= Len(request.args)
        /\ \A k \in 1..Len(p.args) : request.args[WordsTo(request, i - 1) + k] = p.args[k]
    BY <1>4, WordsStand
  <2> HIDE DEF p
  <2> QED
    BY <1>3, <1>9, <2>1
<1> HIDE DEF p
<1>12. Finds(type)
  BY <1>9, <1>11 DEF Finds
<1>13. request.args[argp + 1].value = v
  <2>1. 1 \in 1..WordsOf(type)
    BY <1>8
  <2> QED
    BY <1>9, <1>11, <2>1
<1>14. /\ todo' = CASE c = "s" -> Strings[v]
                    [] c = "c" -> <<LowChar(v)>>
                    [] OTHER -> Numeral(c, v, m)
       /\ argp' = argp + WordsOf(type) /\ ~misread'
       /\ pos' = pos + 2 + Len(m)
       /\ UNCHANGED <<call, request, rejected, said, heard>>
  <2>1. Taken(pos + 1) = type /\ Finds(type) /\ ~misread
    BY <1>7, <1>12 DEF MeantInv
  <2> QED
    BY <1>13, <2>1 DEF Convert, history, m, c
<1>15. todo' = p.text
  <2>1. p.text = CASE c = "s" -> Strings[v]
                   [] c = "c" -> <<LowChar(v)>>
                   [] OTHER -> Numeral(c, v, m)
    BY <1>5, <1>6, <1>10, WrittenIs
  <2> QED
    BY <1>14, <2>1
<1>16. said \o p.text = Joined(TextOf(request), i)
  BY <1>3, <1>4, TextStands DEF p
<1>17. rejected' <=> Bad(request, i)
  <2>1. Bad(request, i) <=> Bad(request, i - 1) \/ Single(p)
    BY <1>4, BadThen DEF p
  <2>2. ~Single(p)
    BY <1>5 DEF p
  <2> QED
    BY <1>1, <1>3, <1>14, <2>1, <2>2
<1>18. pos' = EndOf(request, i) + 1
  <2>1. Len(m) \in Nat
    BY <1>3, ModifierIs DEF m
  <2> QED
    BY <1>3, <1>5, <1>14, <2>1
<1>19. i \in 0..Len(request.pieces) /\ call # "none"
  BY <1>1, <1>4 DEF Between
<1>20. argp' = WordsTo(request, i)
  BY <1>11, <1>14
<1>21. UNCHANGED <<call, request, said, heard>> /\ ~misread'
  BY <1>14
<1> QED
  BY <1>6, <1>15, <1>16, <1>17, <1>18, <1>19, <1>20, <1>21, MeantGoesOn

LEMMA WriteMeant == ASSUME TypedInv, MeantInv, WriteChar PROVE MeantInv'
<1>1. ScreenType /\ call # "none" /\ request \in Calls \cup Quiet /\ said \in Seq(Glyphs)
  <2>1. call # "none"
    BY DEF WriteChar, MeantInv
  <2> QED
    BY <2>1 DEF TypedInv, TypeOK, MeantInv, Midway
<1>2. PICK i \in 0..Len(request.pieces) : Reached(i) /\ Saying(i)
  BY <1>1 DEF MeantInv, Midway
<1>3. PICK k \in Nat, rest \in Seq(Glyphs) :
        todo = Pads(k) \o rest /\ said \o rest = Joined(TextOf(request), i)
  BY <1>2 DEF Saying
<1>4. UNCHANGED <<call, request, pos, argp, rejected, misread>>
  BY DEF WriteChar
\* A blank of a tab is no character of the text.
<1>5. CASE k > 0
  <2>1. Head(todo) = Pad /\ Tail(todo) = Pads(k - 1) \o rest /\ k - 1 \in Nat
    <3>1. Head(Pads(k) \o rest) = Pad /\ Tail(Pads(k) \o rest) = Pads(k - 1) \o rest
      BY <1>5, PadsThen
    <3>2. k - 1 \in Nat
      BY <1>5
    <3> QED
      BY <1>3, <3>1, <3>2, Zenon
  <2>2. todo' = Pads(k - 1) \o rest /\ UNCHANGED <<said, heard>>
    BY <2>1 DEF WriteChar, Pad, Tab, history
  <2>3. Saying(i)'
    BY <1>3, <1>4, <2>1, <2>2 DEF Saying
  <2>4. Reached(i)'
    BY <1>2, <1>4 DEF Reached
  <2>5. Midway'
    BY <1>1, <1>4, <2>3, <2>4 DEF Midway
  <2> QED
    BY <1>1, <1>4, <2>2, <2>5 DEF MeantInv
<1>6. CASE ~(k > 0)
  <2>1. todo = rest
    BY <1>3, <1>6, PadsNone
  <2> DEFINE c == Head(rest)
             more == Tail(rest)
  <2>2. c \in Glyphs /\ more \in Seq(Glyphs) /\ rest = <<c>> \o more
    <3>1. rest # <<>> /\ rest \in Seq(Glyphs)
      BY <2>1 DEF WriteChar
    <3> QED
      BY <3>1, HeadTailProperties
  <2>3. c # Pad
    BY <2>2, ConsoleAssumption DEF ConsoleAssumption, Glyphs, Pad, Sign
  <2>4. said' = Append(said, c) /\ heard' = heard \o Sent(c)
    BY <2>1, <2>3 DEF WriteChar
  <2>5. PICK j \in Nat : todo' = Pads(j) \o more
    <3>1. CASE c = Tab
      <4>1. todo' = Pads(Padding) \o more
        BY <2>1, <3>1 DEF WriteChar, Pads
      <4> QED
        BY <1>1, <4>1, PaddingNat
    <3>2. CASE c # Tab
      <4>1. todo' = more
        BY <2>1, <3>2 DEF WriteChar
      <4>2. more = Pads(0) \o more
        BY <2>2, PadsNone
      <4> QED
        BY <4>1, <4>2
    <3> QED
      BY <3>1, <3>2
  <2> HIDE DEF c, more
  <2>6. said' \in Seq(Glyphs) /\ said' \o more = Joined(TextOf(request), i)
    <3>1. said' = said \o <<c>> /\ <<c>> \in Seq(Glyphs)
      BY <1>1, <2>2, <2>4, AppendIsConcat
    <3>2. (said \o <<c>>) \o more = said \o (<<c>> \o more)
      BY <1>1, <2>2, <3>1, ConcatAssociative
    <3>3. said \o <<c>> \in Seq(Glyphs)
      BY <1>1, <3>1
    <3> QED
      BY <1>3, <2>2, <3>1, <3>2, <3>3
  <2>7. heard' = IF call' = "tprintf" THEN Unsigned(said') ELSE <<>>
    <3>1. CASE call = "tprintf"
      <4>1. heard = Unsigned(said) /\ Sent(c) = Bare(c)
        BY <3>1 DEF MeantInv, Sent, Bare
      <4>2. Unsigned(Append(said, c)) = Unsigned(said) \o Bare(c)
        BY <1>1, <2>2, UnsignedAppend
      <4> QED
        BY <1>4, <2>4, <3>1, <4>1, <4>2
    <3>2. CASE call # "tprintf"
      <4>1. heard = <<>> /\ Sent(c) = <<>>
        BY <3>2 DEF MeantInv, Sent
      <4>2. heard' = <<>> \o <<>>
        BY <2>4, <4>1
      <4> QED
        BY <1>4, <3>2, <4>2
    <3> QED
      BY <3>1, <3>2
  <2>8. Saying(i)'
    BY <1>4, <2>2, <2>5, <2>6 DEF Saying
  <2>9. Reached(i)'
    BY <1>2, <1>4 DEF Reached
  <2>10. Midway'
    BY <1>1, <1>4, <2>8, <2>9 DEF Midway
  <2> QED
    BY <1>1, <1>4, <2>6, <2>7, <2>10 DEF MeantInv
<1> QED
  BY <1>5, <1>6

LEMMA BeginMeant ==
  ASSUME TypedInv, MeantInv, NEW name \in {"tprintf", "printf"}, NEW r \in Calls \cup Quiet,
         Begin(name, r)
  PROVE  MeantInv'
<1>1. /\ call = "none" /\ call' = name /\ request' = r /\ pos = 1 /\ todo = <<>> /\ said = <<>>
      /\ argp = 0 /\ ~rejected /\ heard = <<>> /\ ~misread
      /\ UNCHANGED <<pos, argp, rejected, todo, misread, said, heard>>
  BY DEF Begin, history, MeantInv, TypedInv
<1>2. /\ EndOf(r, 0) = 0 /\ WordsTo(r, 0) = 0 /\ Joined(TextOf(r), 0) = <<>> /\ ~Bad(r, 0)
      /\ Len(r.pieces) \in Nat
  BY NonePlaces, CallsAre
<1>3. Reached(0)'
  BY <1>1, <1>2 DEF Reached
<1>4. Saying(0)'
  <2>1. <<>> \in Seq(Glyphs)
    OBVIOUS
  <2>2. <<>> = Pads(0) \o <<>>
    BY <2>1, PadsNone
  <2>3. <<>> \o <<>> = <<>>
    OBVIOUS
  <2> QED
    BY <1>1, <1>2, <2>1, <2>2, <2>3 DEF Saying
<1>5. Midway'
  BY <1>1, <1>2, <1>3, <1>4 DEF Midway
<1>6. said' \in Seq(Glyphs) /\ heard' = IF call' = "tprintf" THEN Unsigned(said') ELSE <<>>
  <2>1. <<>> \in Seq(Glyphs)
    OBVIOUS
  <2> QED
    BY <1>1, <2>1, UnsignedNone
<1> QED
  BY <1>1, <1>5, <1>6 DEF MeantInv

LEMMA FinishMeant == ASSUME MeantInv, Finish PROVE MeantInv'
<1>1. <<>> \in Seq(Glyphs)
  OBVIOUS
<1> QED
  BY <1>1 DEF Finish, MeantInv

LEMMA MeantStep == TypedInv /\ MeantInv /\ [Next]_vars => MeantInv'
<1> SUFFICES ASSUME TypedInv, MeantInv, [Next]_vars PROVE MeantInv'
  OBVIOUS
<1>1. CASE Text
  BY <1>1, TextMeant
<1>2. CASE PercentSign
  BY <1>2, PercentMeant
<1>3. CASE Reject
  BY <1>3, RejectMeant
<1>4. CASE Convert
  BY <1>4, ConvertMeant
<1>5. CASE WriteChar
  BY <1>5, WriteMeant
<1>6. CASE Finish
  BY <1>6, FinishMeant
<1>7. CASE \E r \in Calls : tprintf(r)
  BY <1>7, BeginMeant DEF tprintf
<1>8. CASE \E r \in Quiet : printf(r)
  BY <1>8, BeginMeant DEF printf
<1>9. CASE UNCHANGED vars
  BY <1>9 DEF vars, MeantInv, Midway, Reached, Saying
<1> QED
  BY <1>1, <1>2, <1>3, <1>4, <1>5, <1>6, <1>7, <1>8, <1>9 DEF Next, Work

LEMMA MeantAlways == Spec => [](TypedInv /\ MeantInv)
<1>1. Init => TypedInv /\ MeantInv
  BY TypedInit, MeantInit
<1>2. TypedInv /\ MeantInv /\ [Next]_vars => (TypedInv /\ MeantInv)'
  BY TypedStep, MeantStep
<1> QED
  BY <1>1, <1>2, PTL DEF Spec

\* Every va_arg of a call whose caller pushed what its format takes finds an
\* argument of its type, also behind directives that are not implemented and
\* take none: the words of the pieces read are the words taken (printf.c:147-218).
THEOREM ArgumentsCorrect == Spec => []ArgumentsMatch
<1>1. MeantInv => ArgumentsMatch
  BY DEF MeantInv, ArgumentsMatch
<1> QED
  BY <1>1, MeantAlways, PTL

\* A call that returns has printed what the pieces of its format mean, with each
\* number by its shortest numeral, whatever the format; the serial line got the
\* same without the signs of numbers (printf.c:61-230).
THEOREM MeaningCorrect == Spec => []PrintsWhatIsMeant
<1>1. MeantInv => PrintsWhatIsMeant
  <2> SUFFICES ASSUME MeantInv, call # "none", todo = <<>>, pos > Len(fmt)
               PROVE  /\ said = Joined(TextOf(request), Len(request.pieces))
                      /\ heard = IF call = "tprintf" THEN Unsigned(said) ELSE <<>>
    BY DEF PrintsWhatIsMeant
  <2> DEFINE n == Len(request.pieces)
  <2>1. PICK i \in 0..n : Reached(i) /\ Saying(i)
    BY DEF MeantInv, Midway
  <2>2. request \in Calls \cup Quiet /\ n \in Nat /\ Len(fmt) \in Nat
    BY CallsAre, NonePlaces DEF MeantInv, Midway, fmt
  <2>3. i = n
    <3> SUFFICES ASSUME i # n PROVE FALSE
      OBVIOUS
    <3>1. PICK k \in 1..n : k = i + 1 /\ k - 1 = i
      BY <2>2
    <3> DEFINE piece == request.pieces[k]
               q == EndOf(request, k - 1) + 1
    <3>2. /\ EndOf(request, k - 1) \in Nat /\ EndOf(request, k) <= Len(fmt)
          /\ q = EndOf(request, k - 1) + 1 /\ Len(piece.chars) \in Nat
          /\ EndOf(request, k) = EndOf(request, k - 1) + Len(piece.chars)
      BY <2>2, PieceStands DEF fmt
    <3> HIDE DEF q
    <3>3. Ordinary(k, piece, q) \/ Doubled(k, piece, q) \/ Alone(k, piece, q)
          \/ Directed(k, piece, q)
      BY <2>2, <3>2, PieceIs
    <3>4. EndOf(request, k) >= q
      <4>1. q \in Nat
        BY <3>2
      <4>2. CASE Directed(k, piece, q)
        <5>1. PICK e \in Nat : e = q + 1
          BY <4>1
        <5>2. Len(Modifier(e)) \in Nat
          BY ModifierIs
        <5> QED
          BY <4>1, <4>2, <5>1, <5>2 DEF Directed
      <4> QED
        BY <3>3, <4>1, <4>2 DEF Ordinary, Doubled, Alone
    <3>5. pos = q
      BY <2>1, <3>1, <3>2 DEF Reached
    <3> QED
      BY <2>2, <3>2, <3>4, <3>5
  <2>4. said = Joined(TextOf(request), n)
    BY <2>1, <2>3, SaidAll DEF MeantInv
  <2> QED
    BY <2>4 DEF MeantInv
<1> QED
  BY <1>1, MeantAlways, PTL

-----------------------------------------------------------------------------
(* Every format is a sequence of pieces.                                   *)

\* Whatever is pushed for a conversion has a text.
LEMMA TextExists ==
  ASSUME NEW c \in Conversions, NEW v \in Int, c = "s" => v \in DOMAIN Strings,
         NEW modifier
  PROVE  \E t \in Seq(Glyphs) : IsText(t, c, v, modifier)
<1>1. /\ Digits \in [1..16 -> Characters] /\ Capitals \in [1..16 -> Characters]
      /\ Digits \in [1..16 -> Glyphs] /\ Capitals \in [1..16 -> Glyphs]
      /\ \A i, j \in 1..16 : Digits[i] = Digits[j] => i = j
      /\ \A i, j \in 1..16 : Capitals[i] = Capitals[j] => i = j
  BY DigitsAre, DigitsTell DEF Differ
<1>2. 10 \in Bases /\ Base(c) \in Bases
  BY DEF Bases, Base
<1>3. CASE c = "s"
  <2>1. Strings[v] \in Seq(Glyphs)
    <3>1. Strings[v] \in Seq(Characters)
      BY <1>3, ConsoleAssumption DEF ConsoleAssumption
    <3> QED
      BY <3>1, GlyphsAre
  <2> QED
    BY <1>3, <2>1 DEF IsText
<1>4. CASE c = "c"
  <2>1. 1 + (v % 16) \in 1..16
    OBVIOUS
  <2>2. LowChar(v) \in Glyphs
    BY <1>1, <2>1 DEF LowChar
  <2>3. <<LowChar(v)>> \in Seq(Glyphs)
    BY <2>2
  <2> QED
    BY <1>4, <2>3 DEF IsText
<1>5. ASSUME NEW w \in Nat
      PROVE  /\ convert_integer(w, 10, Digits) \in Seq(Glyphs)
             /\ IsNumeral(convert_integer(w, 10, Digits), w, 10, Digits)
  <2>1. convert_integer(w, 10, Digits) \in Seq(Glyphs)
    BY <1>1, <1>2, NumeralIs
  <2> QED
    BY <1>1, <1>2, <2>1, NumeralMeans
<1>6. CASE c \in {"d", "i"} /\ v < 0
  <2> DEFINE u == convert_integer(-v, 10, Digits)
             t == <<Sign>> \o u
  <2>1. u \in Seq(Glyphs) /\ IsNumeral(u, -v, 10, Digits)
    <3>1. -v \in Nat
      BY <1>6
    <3> QED
      BY <1>5, <3>1
  <2>2. Sign \in Glyphs
    BY DEF Glyphs
  <2> HIDE DEF u
  <2>3. t \in Seq(Glyphs) /\ t # <<>> /\ Head(t) = Sign /\ Tail(t) = u
    BY <2>1, <2>2
  <2> HIDE DEF t
  <2>4. IsText(t, c, v, modifier) <=>
          t # <<>> /\ Head(t) = Sign /\ IsNumeral(Tail(t), -v, 10, Digits)
    BY <1>6 DEF IsText
  <2>5. IsNumeral(Tail(t), -v, 10, Digits)
    BY <2>1, <2>3
  <2> QED
    BY <2>3, <2>4, <2>5
<1>7. CASE c \in {"d", "i"} /\ ~(v < 0)
  <2>1. v \in Nat /\ v >= 0
    BY <1>7
  <2> QED
    BY <1>5, <1>7, <2>1 DEF IsText
<1>8. CASE c \notin {"s", "c", "d", "i"}
  <2> DEFINE D == DigitsOf(c)
             w == v % Values(modifier)
             b == Base(c)
             t == convert_integer(w, b, D)
  <2>1. w \in Nat /\ b \in Bases
    BY <1>2, ValuesAre
  <2>2. /\ D \in [1..16 -> Characters] /\ D \in [1..16 -> Glyphs]
        /\ \A i, j \in 1..16 : D[i] = D[j] => i = j
    BY <1>1 DEF DigitsOf
  <2>3. t \in Seq(Glyphs) /\ IsNumeral(t, w, b, D)
    <3> HIDE DEF D, w, b
    <3>1. t \in Seq(Glyphs)
      BY <2>1, <2>2, NumeralIs
    <3> HIDE DEF t
    <3>2. t = convert_integer(w, b, D)
      BY DEF t
    <3> QED
      BY <2>1, <2>2, <3>1, <3>2, NumeralMeans
  <2> QED
    BY <1>8, <2>3 DEF IsText
<1> QED
  BY <1>3, <1>4, <1>6, <1>7, <1>8

APiece == [chars : Seq(Characters), args : Seq(Argument), text : Seq(Glyphs)]
OfPieces(f, ps) == [fmt |-> f, pieces |-> ps]

\* The first e characters of the format f are the pieces ps.
Parsed(f, ps, e) ==
  /\ ps \in Seq(APiece)
  /\ \A i \in DOMAIN ps : IsPiece(OfPieces(f, ps), i)
  /\ Joined(CharsOf(OfPieces(f, ps)), Len(ps)) = SubSeq(f, 1, e)

\* One piece more leaves those before it what they are.
LEMMA OnePieceMore ==
  ASSUME NEW f \in Seq(Characters), NEW e \in 0..Len(f), NEW ps, Parsed(f, ps, e),
         NEW p \in APiece, NEW k \in Nat, e + k <= Len(f), Len(p.chars) = k,
         \A x \in 1..k : p.chars[x] = f[e + x],
         \/ Literal(p) \/ Percent(p)
         \/ /\ ~Bad(OfPieces(f, ps), Len(ps))
            /\ \E m \in length_modifiers, c \in Conversions : Directs(p, m, c)
         \/ /\ Single(p) /\ CharAt(f, e + k + 1) # "%"
            /\ \/ Bad(OfPieces(f, ps), Len(ps))
               \/ \A m \in length_modifiers, c \in Conversions :
                    Implemented(m, c) => ~StandsAt(f, e + k + 1, m \o <<c>>)
  PROVE  Parsed(f, Append(ps, p), e + k)
<1> DEFINE n == Len(ps)
           qs == Append(ps, p)
           r == OfPieces(f, ps)
           s == OfPieces(f, qs)
           C == CharsOf(r)
           D == CharsOf(s)
<1>1. /\ ps \in Seq(APiece) /\ n \in Nat /\ DOMAIN ps = 1..n
      /\ \A i \in 1..n : ps[i] \in APiece
  BY LenProperties DEF Parsed
<1>2. /\ qs \in Seq(APiece) /\ Len(qs) = n + 1 /\ qs[n + 1] = p /\ DOMAIN qs = 1..(n + 1)
      /\ \A i \in 1..n : qs[i] = ps[i]
  BY <1>1, AppendProperties, LenProperties
<1>3. /\ C = [i \in 1..n |-> ps[i].chars] /\ D = [i \in 1..(n + 1) |-> qs[i].chars]
      /\ r.pieces = ps /\ s.pieces = qs /\ r.fmt = f /\ s.fmt = f
  BY <1>1, <1>2 DEF CharsOf, OfPieces
<1> HIDE DEF n, qs, r, s, C, D
<1>4. C \in Seq(Seq(Characters)) /\ Len(C) = n
  <2>1. \A i \in 1..n : ps[i].chars \in Seq(Characters)
    BY <1>1 DEF APiece
  <2> QED
    BY <1>1, <1>3, <2>1
<1>5. /\ D \in Seq(Seq(Characters)) /\ Len(D) = n + 1 /\ \A i \in 1..n : D[i] = C[i]
      /\ D[n + 1] = p.chars
  <2>1. \A i \in 1..(n + 1) : qs[i] \in APiece
    BY <1>1, <1>2
  <2>2. \A i \in 1..(n + 1) : qs[i].chars \in Seq(Characters)
    BY <2>1 DEF APiece
  <2>3. n + 1 \in 1..(n + 1) /\ \A i \in 1..n : i \in 1..(n + 1)
    BY <1>1
  <2>4. D \in Seq(Seq(Characters)) /\ Len(D) = n + 1
    BY <1>1, <1>3, <2>2
  <2> QED
    BY <1>2, <1>3, <2>3, <2>4
<1>6. \A i \in 0..n : Joined(D, i) = Joined(C, i)
  <2> SUFFICES ASSUME NEW i \in 0..n PROVE Joined(D, i) = Joined(C, i)
    OBVIOUS
  <2>1. i \in 0..Len(D) /\ i <= Len(C) /\ \A j \in 1..i : D[j] = C[j]
    BY <1>1, <1>4, <1>5
  <2> QED
    BY <1>4, <1>5, <2>1, JoinedSame
<1>7. \A i \in 0..n : Bad(s, i) <=> Bad(r, i)
  <2> SUFFICES ASSUME NEW i \in 0..n PROVE Bad(s, i) <=> Bad(r, i)
    OBVIOUS
  <2>1. \A j \in 1..i : s.pieces[j] = r.pieces[j]
    BY <1>1, <1>2, <1>3
  <2> QED
    BY <2>1 DEF Bad
<1>8. ASSUME NEW i \in 1..n PROVE IsPiece(s, i)
  <2>1. IsPiece(r, i)
    BY <1>1 DEF Parsed, r
  <2>2. /\ s.pieces[i] = r.pieces[i] /\ s.fmt = r.fmt
        /\ Joined(CharsOf(s), i) = Joined(CharsOf(r), i)
        /\ Bad(s, i - 1) <=> Bad(r, i - 1)
    <3>1. i \in 0..n /\ i - 1 \in 0..n
      BY <1>1
    <3>2. Joined(CharsOf(s), i) = Joined(CharsOf(r), i)
      BY <1>6, <3>1 DEF C, D
    <3> QED
      BY <1>2, <1>3, <1>7, <3>1, <3>2
  <2> QED
    BY <2>1, <2>2 DEF IsPiece
<1> DEFINE a == Joined(C, n)
<1>9. Joined(D, n + 1) = a \o p.chars
  <2>1. PICK l \in 1..Len(D) : l = n + 1 /\ l - 1 = n
    BY <1>1, <1>5
  <2>2. Joined(D, l) = Joined(D, l - 1) \o D[l]
    BY <1>5, JoinedIs
  <2>3. n \in 0..n
    BY <1>1
  <2> QED
    BY <1>5, <1>6, <2>1, <2>2, <2>3
<1>10. a = SubSeq(f, 1, e)
  BY <1>3 DEF Parsed, a, C, r, n
<1>11. p.chars = SubSeq(f, e + 1, e + k)
  <2>1. Len(f) \in Nat /\ \A x \in (e + 1)..(e + k) : f[x] \in Characters
    BY LenProperties
  <2> DEFINE b == e + 1
             d == e + k
             t == SubSeq(f, b, d)
             cs == p.chars
  <2>2. b \in Int /\ d \in Int /\ \A x \in b..d : f[x] \in Characters
    BY <2>1
  <2>3. (b <= d <=> k # 0) /\ d - b + 1 = k /\ \A x \in 1..k : b + x - 1 = e + x
    BY <2>1
  <2> HIDE DEF b, d
  <2>4. /\ t \in Seq(Characters) /\ Len(t) = IF b <= d THEN d - b + 1 ELSE 0
        /\ \A x \in 1..(d - b + 1) : t[x] = f[b + x - 1]
    BY <2>2, SubSeqProperties
  <2> HIDE DEF t
  <2>5. Len(t) = k /\ \A x \in 1..k : t[x] = f[e + x]
    BY <2>3, <2>4
  <2>6. cs \in Seq(Characters)
    BY DEF APiece
  <2>7. Len(cs) = k /\ \A x \in 1..k : cs[x] = t[x]
    BY <2>5
  <2> HIDE DEF cs
  <2>8. cs = t
    BY <2>4, <2>5, <2>6, <2>7, SeqEqual
  <2> QED
    BY <2>8 DEF cs, t, b, d
<1>12. Joined(D, n + 1) = SubSeq(f, 1, e + k)
  <2> DEFINE d == e + k
  <2>1. 1 \in 1..(Len(f) + 1) /\ e \in (1 - 1)..Len(f) /\ d \in e..Len(f)
    BY LenProperties
  <2>2. p.chars = SubSeq(f, e + 1, d)
    BY <1>11
  <2> HIDE DEF d
  <2>3. SubSeq(f, 1, e) \o SubSeq(f, e + 1, d) = SubSeq(f, 1, d)
    BY <2>1, ConcatAdjacentSubSeq
  <2> QED
    BY <1>9, <1>10, <2>2, <2>3 DEF d
<1>13. Len(Joined(D, n + 1)) = e + k
  <2> DEFINE d == e + k
  <2>1. d \in Nat /\ 1 \in Int /\ d \in Int /\ d - 1 + 1 = d /\ d <= Len(f) /\ (1 <= d <=> d # 0)
    BY LenProperties
  <2>2. \A x \in 1..d : f[x] \in Characters
    BY <2>1, LenProperties
  <2> HIDE DEF d
  <2>3. Len(SubSeq(f, 1, d)) = IF 1 <= d THEN d - 1 + 1 ELSE 0
    BY <2>1, <2>2, SubSeqProperties
  <2>4. Len(SubSeq(f, 1, d)) = d
    BY <2>1, <2>3
  <2> QED
    BY <1>12, <2>4 DEF d
<1>14. IsPiece(s, n + 1)
  <2>1. PICK l \in Nat : l = n + 1 /\ l - 1 = n
    BY <1>1
  <2>2. /\ s.pieces[l] = p /\ s.fmt = f /\ Len(Joined(CharsOf(s), l)) + 1 = e + k + 1
        /\ Bad(s, l - 1) <=> Bad(r, n)
    <3>1. n \in 0..n
      BY <1>1
    <3>2. Len(Joined(CharsOf(s), l)) = e + k
      BY <1>13, <2>1 DEF D
    <3> QED
      BY <1>2, <1>3, <1>7, <2>1, <3>1, <3>2
  <2>3. IsPiece(s, l)
    BY <2>2 DEF IsPiece, r, n
  <2> QED
    BY <2>1, <2>3
<1>15. \A i \in DOMAIN qs : IsPiece(s, i)
  <2>1. \A i \in 1..(n + 1) : i \in 1..n \/ i = n + 1
    BY <1>1
  <2> QED
    BY <1>2, <1>8, <1>14, <2>1
<1>16. Joined(CharsOf(s), Len(qs)) = SubSeq(f, 1, e + k)
  BY <1>2, <1>12 DEF D
<1> QED
  BY <1>2, <1>15, <1>16 DEF Parsed, s, qs

\* A directive that is implemented and stands at q has a piece.
LEMMA DirectiveHasPiece ==
  ASSUME Strings # <<>>, NEW f \in Seq(Characters), NEW q \in Nat, q > 0, CharAt(f, q) = "%",
         NEW m \in length_modifiers, NEW c \in Conversions, Implemented(m, c),
         StandsAt(f, q + 1, m \o <<c>>)
  PROVE  \E p \in APiece, k \in Nat :
           /\ k > 0 /\ q + k - 1 <= Len(f) /\ Len(p.chars) = k
           /\ \A x \in 1..k : p.chars[x] = f[q + x - 1]
           /\ Directs(p, m, c)
<1> DEFINE t == <<"%">> \o m \o <<c>>
           k == Len(m) + 2
           type == TypeOf(m, c)
           w == WordsOf(type)
<1>a. t = <<"%">> \o m \o <<c>> /\ k = Len(m) + 2
  OBVIOUS
<1> HIDE DEF t, k
<1>1. /\ Len(m) \in 0..2 /\ Len(t) = k /\ t[1] = "%"
      /\ \A x \in 1..Len(m) : t[1 + x] = m[x]
      /\ t[k] = c
  BY <1>a, DirectiveIs
<1>2. \A x \in 1..(Len(m) + 1) : CharAt(f, q + 1 + x - 1) = (m \o <<c>>)[x]
  <2>1. DOMAIN (m \o <<c>>) = 1..(Len(m) + 1)
    <3> DEFINE S == {"h", "l", "L", "j", "z", "t"} \cup Conversions
    <3>1. m \in Seq(S) /\ c \in S
      <4>1. m \in Seq({"h", "l", "L", "j", "z", "t"})
        BY ModifiersAre
      <4> QED
        BY <4>1
    <3> HIDE DEF S
    <3> QED
      BY <3>1
  <2> QED
    BY <2>1 DEF StandsAt
<1>3. /\ \A x \in 1..Len(m) : (m \o <<c>>)[x] = m[x]
      /\ (m \o <<c>>)[Len(m) + 1] = c
  <2> DEFINE S == {"h", "l", "L", "j", "z", "t"} \cup Conversions
  <2>1. m \in Seq(S) /\ c \in S
    <3>1. m \in Seq({"h", "l", "L", "j", "z", "t"})
      BY ModifiersAre
    <3> QED
      BY <3>1
  <2> HIDE DEF S
  <2> QED
    BY <2>1
<1>4. t \in Seq(Conversions \cup {"%", "h", "l", "L", "j", "z", "t"})
  <2> DEFINE S == Conversions \cup {"%", "h", "l", "L", "j", "z", "t"}
  <2>1. m \in Seq(S) /\ c \in S /\ "%" \in S
    <3>1. m \in Seq({"h", "l", "L", "j", "z", "t"})
      BY ModifiersAre
    <3> QED
      BY <3>1
  <2> HIDE DEF S
  <2>2. t \in Seq(S)
    BY <1>a, <2>1
  <2> QED
    BY <2>2 DEF S
<1>5. \A x \in 1..k : CharAt(f, q + x - 1) = t[x]
  <2> SUFFICES ASSUME NEW x \in 1..k PROVE CharAt(f, q + x - 1) = t[x]
    OBVIOUS
  <2> USE <1>a
  <2>1. CASE x = 1
    <3>1. q + x - 1 = q
      BY <2>1
    <3> QED
      BY <1>1, <2>1, <3>1
  <2>2. CASE x \in 2..(Len(m) + 1)
    <3>1. PICK y \in 1..Len(m) : x = 1 + y /\ y \in 1..(Len(m) + 1) /\ q + 1 + y - 1 = q + x - 1
      BY <1>1, <2>2
    <3> QED
      BY <1>1, <1>2, <1>3, <3>1
  <2>3. CASE x = Len(m) + 2
    <3>1. PICK y \in 1..(Len(m) + 1) : y = Len(m) + 1 /\ q + 1 + y - 1 = q + x - 1
      BY <1>1, <2>3
    <3> QED
      BY <1>1, <1>2, <1>3, <2>3, <3>1
  <2> QED
    BY <1>1, <2>1, <2>2, <2>3
<1>6. Len(f) \in Nat /\ k \in Nat /\ k > 0
  BY <1>a, <1>1, LenProperties
<1>7. q + k - 1 <= Len(f)
  <2>1. CharAt(f, q + k - 1) # NUL
    <3>1. k \in 1..k
      BY <1>6
    <3>2. CharAt(f, q + k - 1) = c
      BY <1>1, <1>5, <3>1
    <3> QED
      BY <3>2 DEF Conversions, NUL
  <2> QED
    BY <2>1 DEF CharAt
<1>8. \A x \in 1..k : t[x] = f[q + x - 1] /\ t[x] \in Characters
  <2> SUFFICES ASSUME NEW x \in 1..k PROVE t[x] = f[q + x - 1] /\ t[x] \in Characters
    OBVIOUS
  <2>1. PICK y \in 1..Len(f) : y = q + x - 1
    BY <1>6, <1>7
  <2>2. t[x] = f[y]
    BY <1>5, <2>1 DEF CharAt
  <2> QED
    BY <2>1, <2>2
<1>9. t \in Seq(Characters)
  <2>1. t = [x \in 1..k |-> t[x]]
    BY <1>1, <1>4
  <2> QED
    BY <1>6, <1>8, <2>1
<1>10. w \in {1, 2} /\ type \in {"int", "ll", "str"}
  BY DEF WordsOf, TypeOf
<1>11. PICK u \in Seq(Glyphs) : IsText(u, c, 1, m)
  <2>1. 1 \in DOMAIN Strings
    <3>1. Strings \in Seq(Seq(Characters))
      BY ConsoleAssumption DEF ConsoleAssumption
    <3> QED
      BY <3>1
  <2>2. 1 \in Int /\ (c = "s" => 1 \in DOMAIN Strings)
    BY <2>1
  <2> QED
    BY <2>2, TextExists
<1> HIDE DEF type
<1> DEFINE args == Pushed(type, 1)
           p == [chars |-> t, args |-> args, text |-> u]
<1>12. args \in Seq(Argument) /\ args[1].value = 1
  <2>1. args = [x \in 1..w |-> [type |-> type, word |-> x, value |-> 1]]
    BY DEF Pushed
  <2>2. w \in Nat /\ 1 \in 1..w /\ \A x \in 1..w : x \in {1, 2}
    BY <1>10
  <2>3. \A x \in 1..w : [type |-> type, word |-> x, value |-> 1] \in Argument
    BY <1>10, <2>2 DEF Argument
  <2> HIDE DEF args, w
  <2> QED
    BY <2>1, <2>2, <2>3
<1>13. p \in APiece
  BY <1>9, <1>12 DEF APiece
<1>14. Directs(p, m, c)
  <2>1. p.args[1].value = 1
    BY <1>12
  <2>2. p.chars = <<"%">> \o m \o <<c>>
    BY <1>a
  <2>3. p.args = Pushed(TypeOf(m, c), 1) /\ IsText(p.text, c, 1, m)
    BY <1>11 DEF type
  <2> HIDE DEF p
  <2> QED
    BY <2>1, <2>2, <2>3 DEF Directs
<1>15. Len(p.chars) = k /\ \A x \in 1..k : p.chars[x] = f[q + x - 1]
  BY <1>1, <1>8
<1> HIDE DEF p
<1> QED
  BY <1>6, <1>7, <1>13, <1>14, <1>15

\* The next piece of a format.
LEMMA PieceFound ==
  ASSUME Strings # <<>>, NEW f \in Seq(Characters), NEW e \in 0..Len(f), e < Len(f),
         NEW ps, Parsed(f, ps, e)
  PROVE  \E d \in Nat : d > e /\ d <= Len(f) /\ \E qs : Parsed(f, qs, d)
<1> DEFINE q == e + 1
           bad == Bad(OfPieces(f, ps), Len(ps))
<1>1. Len(f) \in Nat /\ q \in 1..Len(f) /\ f[q] \in Characters /\ CharAt(f, q) = f[q]
  <2>1. Len(f) \in Nat /\ q \in 1..Len(f)
    BY LenProperties
  <2> QED
    BY <2>1 DEF CharAt
<1> DEFINE one == [chars |-> <<f[q]>>, args |-> <<>>, text |-> <<f[q]>>]
<1>2. one \in APiece /\ Len(one.chars) = 1 /\ \A x \in 1..1 : one.chars[x] = f[e + x]
  <2>1. <<f[q]>> \in Seq(Characters) /\ <<f[q]>> \in Seq(Glyphs) /\ <<>> \in Seq(Argument)
    BY <1>1, GlyphsAre
  <2>2. one \in APiece
    BY <2>1 DEF APiece
  <2> QED
    BY <2>2
<1>3. e + 1 <= Len(f) /\ e + 1 \in Nat /\ e + 1 > e /\ 1 \in Nat
  BY <1>1
<1>4. CASE f[q] # "%"
  <2>1. Literal(one)
    <3>1. <<f[q]>> # <<"%">>
      BY <1>4
    <3> QED
      BY <3>1 DEF Literal
  <2> HIDE DEF one
  <2>2. Parsed(f, Append(ps, one), e + 1)
    BY <1>2, <1>3, <2>1, OnePieceMore
  <2> QED
    BY <1>3, <2>2
<1>5. CASE f[q] = "%" /\ CharAt(f, q + 1) = "%"
  <2> DEFINE two == [chars |-> <<"%", "%">>, args |-> <<>>, text |-> <<"%">>]
  <2>1. "%" \in Characters
    BY <1>1, <1>5
  <2>2. two \in APiece /\ Len(two.chars) = 2 /\ Percent(two)
    <3>1. <<"%", "%">> \in Seq(Characters) /\ <<"%">> \in Seq(Glyphs) /\ <<>> \in Seq(Argument)
      <4>1. \A x \in Characters : <<x, x>> \in Seq(Characters) /\ <<x>> \in Seq(Characters)
        OBVIOUS
      <4>2. <<>> \in Seq(Argument)
        OBVIOUS
      <4> QED
        BY <2>1, <4>1, <4>2, GlyphsAre, Zenon
    <3>2. two \in APiece
      BY <3>1 DEF APiece
    <3> QED
      BY <3>2 DEF Percent
  <2>3. q + 1 <= Len(f) /\ f[q + 1] = "%"
    BY <1>5 DEF CharAt, NUL
  <2>4. \A x \in 1..2 : two.chars[x] = f[e + x]
    <3>1. f[e + 1] = "%" /\ f[e + 2] = "%"
      <4>1. e + 2 = q + 1
        OBVIOUS
      <4> QED
        BY <1>5, <2>3, <4>1
    <3>2. \A x \in 1..2 : x = 1 \/ x = 2
      OBVIOUS
    <3> QED
      BY <3>1, <3>2
  <2>5. e + 2 <= Len(f) /\ e + 2 \in Nat /\ e + 2 > e /\ 2 \in Nat
    BY <1>1, <2>3
  <2> HIDE DEF two
  <2>6. Parsed(f, Append(ps, two), e + 2)
    BY <2>2, <2>4, <2>5, OnePieceMore
  <2> QED
    BY <2>5, <2>6
<1>6. ASSUME NEW m \in length_modifiers, NEW c \in Conversions, Implemented(m, c),
             StandsAt(f, q + 1, m \o <<c>>), f[q] = "%", ~bad
      PROVE  \E d \in Nat : d > e /\ d <= Len(f) /\ \E qs : Parsed(f, qs, d)
  <2>1. q \in Nat /\ q > 0 /\ CharAt(f, q) = "%"
    BY <1>1, <1>6
  <2> HIDE DEF q
  <2>2. PICK p \in APiece, k \in Nat :
          /\ k > 0 /\ q + k - 1 <= Len(f) /\ Len(p.chars) = k
          /\ \A x \in 1..k : p.chars[x] = f[q + x - 1]
          /\ Directs(p, m, c)
    BY <1>6, <2>1, DirectiveHasPiece
  <2>3. e + k <= Len(f) /\ e + k \in Nat /\ e + k > e /\ \A x \in 1..k : p.chars[x] = f[e + x]
    <3>1. \A x \in Nat : q + x - 1 = e + x
      BY DEF q
    <3>2. q + k - 1 = e + k
      BY <3>1
    <3>3. \A x \in 1..k : x \in Nat
      OBVIOUS
    <3>4. e + k \in Nat /\ e + k > e
      BY <1>1, <2>2
    <3> HIDE DEF q
    <3> QED
      BY <2>2, <3>1, <3>2, <3>3, <3>4
  <2>4. Parsed(f, Append(ps, p), e + k)
    BY <1>6, <2>2, <2>3, OnePieceMore
  <2> QED
    BY <2>3, <2>4
<1>7. CASE /\ f[q] = "%" /\ CharAt(f, q + 1) # "%"
           /\ \/ bad
              \/ \A m \in length_modifiers, c \in Conversions :
                   Implemented(m, c) => ~StandsAt(f, q + 1, m \o <<c>>)
  <2>1. Single(one)
    BY <1>7 DEF Single
  <2>2. /\ CharAt(f, e + 1 + 1) # "%"
        /\ \/ Bad(OfPieces(f, ps), Len(ps))
           \/ \A m \in length_modifiers, c \in Conversions :
                Implemented(m, c) => ~StandsAt(f, e + 1 + 1, m \o <<c>>)
    BY <1>7
  <2> HIDE DEF one
  <2>3. Parsed(f, Append(ps, one), e + 1)
    BY <1>2, <1>3, <2>1, <2>2, OnePieceMore
  <2> QED
    BY <1>3, <2>3
<1> QED
  BY <1>4, <1>5, <1>6, <1>7

\* Every text is a format that the assumption on the calls allows: there are
\* pieces for it, the directives that are implemented, %%, characters and what
\* printf() prints as it stands (printf.c:61-225).
THEOREM FormatsHavePieces ==
  ASSUME Strings # <<>>, NEW f \in Seq(Characters)
  PROVE  \E ps \in Seq(APiece) :
           /\ f = Joined(CharsOf(OfPieces(f, ps)), Len(ps))
           /\ \A i \in DOMAIN ps : IsPiece(OfPieces(f, ps), i)
<1> DEFINE l == Len(f)
           T == {d \in Nat : d <= l /\ \E ps : Parsed(f, ps, l - d)}
<1>1. l \in Nat
  BY LenProperties
<1>2. Parsed(f, <<>>, 0)
  <2> DEFINE r == OfPieces(f, <<>>)
  <2>1. <<>> \in Seq(APiece) /\ DOMAIN <<>> = {} /\ Len(<<>>) = 0
    OBVIOUS
  <2>2. CharsOf(r) = <<>>
    BY DEF CharsOf, OfPieces
  <2>3. CharsOf(r) \in Seq(Seq(Characters))
    <3>1. <<>> \in Seq(Seq(Characters))
      OBVIOUS
    <3> QED
      BY <2>2, <3>1, Zenon
  <2> HIDE DEF r
  <2>4. Joined(CharsOf(r), 0) = <<>>
    BY <2>3, JoinedIs
  <2>5. SubSeq(f, 1, 0) = <<>>
    BY SubSeqEmpty
  <2> QED
    BY <2>1, <2>4, <2>5 DEF Parsed, r
<1> HIDE DEF l
<1>3. l \in T
  <2>1. l - l = 0 /\ l <= l
    BY <1>1
  <2> QED
    BY <1>1, <1>2, <2>1
<1>4. PICK d \in T : \A x \in T : d <= x
  <2>1. T \subseteq Nat
    OBVIOUS
  <2> HIDE DEF T
  <2> QED
    BY <1>3, <2>1, LeastNat
<1>5. PICK ps : Parsed(f, ps, l - d)
  OBVIOUS
<1>6. d = 0
  <2> SUFFICES ASSUME d # 0 PROVE FALSE
    OBVIOUS
  <2>1. PICK e \in 0..Len(f) : e = l - d /\ e < Len(f)
    BY <1>1, <1>4 DEF l
  <2>2. PICK a \in Nat : a > e /\ a <= Len(f) /\ \E qs : Parsed(f, qs, a)
    BY <1>5, <2>1, PieceFound
  <2>3. PICK x \in Nat : x = l - a /\ x < d /\ x <= l /\ l - x = a
    <3>1. Len(f) = l
      BY DEF l
    <3> QED
      BY <1>1, <1>4, <2>1, <2>2, <3>1
  <2>4. x \in T
    BY <2>2, <2>3
  <2> QED
    BY <1>4, <2>3, <2>4
<1>7. Parsed(f, ps, Len(f))
  <2>1. l - d = Len(f)
    BY <1>1, <1>6 DEF l
  <2> QED
    BY <1>5, <2>1
<1> QED
  BY <1>7, SubSeqFull DEF Parsed
================================================================================
