---------------------------- MODULE MipOrderProofs ----------------------------
(***************************************************************************)
(* The mixed-integer programs, for any stations, ports, distances and      *)
(* capacity: every order of the stations is the reading of a solution the  *)
(* solver can find and every reading of a solution is such an order, at    *)
(* the same cost, so that what the search reports is exact.                *)
(***************************************************************************)
EXTENDS MipOrder, Sums, SequenceTheorems, TLAPS

-----------------------------------------------------------------------------
(* Minima, injections, walks *)

LEMMA MinOfNumbers ==
  ASSUME NEW D, D \subseteq Nat, D # {}
  PROVE  Min(D) \in D /\ \A d \in D : Min(D) <= d
<1>1. \E m \in D : \A n \in D : m <= n  BY LeastNatural
<1> QED BY <1>1 DEF Min

(* As many different elements as a set has are all of them. *)
LEMMA AllAreMet ==
  ASSUME NEW D, IsFiniteSet(D), NEW w \in [1 .. Cardinality(D) -> D],
         \A i, j \in 1 .. Cardinality(D) : w[i] = w[j] => i = j
  PROVE  \A x \in D : \E k \in 1 .. Cardinality(D) : w[k] = x
<1> DEFINE n == Cardinality(D)
           I == 1 .. n
<1>1. n \in Nat  BY FS_CardinalityType
<1>2. IsFiniteSet(I) /\ Cardinality(I) = n
  <2>1. IsFiniteSet(I) /\ Cardinality(I) = IF 1 > n THEN 0 ELSE n - 1 + 1
    BY <1>1, FS_Interval
  <2> HIDE DEF I, n
  <2> QED BY <1>1, <2>1
<1>3. w \in Injection(I, D)  BY DEF Injection, IsInjective
<1> HIDE DEF I
<1>4. w \in Surjection(I, D)
  <2>1. Cardinality(I) = Cardinality(D)  BY <1>2
  <2> QED BY <1>2, <1>3, <2>1, FS_Injection
<1> QED BY <1>4 DEF Surjection, I

(* w goes from s on as next says. *)
Walks(w, next, s, n) ==
  w = [k \in 1 .. n |-> IF k = 1 THEN s ELSE next[w[k - 1]]]

(* There is such a walk: one that is right up to k is right up to the next *)
(* position when each of its steps is taken once more.                     *)
LEMMA WalkExists ==
  ASSUME NEW next, NEW s, NEW N \in Nat
  PROVE  \E w : Walks(w, next, s, N)
<1> DEFINE Once(f) == [k \in 1 .. N |-> IF k = 1 THEN s ELSE next[f[k - 1]]]
           Right(f, n) == \A k \in 1 .. N : k <= n => f[k] = Once(f)[k]
           T == {n \in Nat : \E f : Right(f, n)}
<1>1. 0 \in T
  <2>1. \A f : Right(f, 0)  OBVIOUS
  <2> HIDE DEF Right
  <2> QED BY <2>1
<1>2. ASSUME NEW n \in Nat, n \in T PROVE n + 1 \in T
  <2>1. PICK f : Right(f, n)  BY <1>2
  <2> DEFINE h == Once(f)
  <2>2. ASSUME NEW k \in 1 .. N, k <= n + 1 PROVE h[k] = Once(h)[k]
    <3>1. CASE k = 1  BY <3>1
    <3>2. CASE k # 1
      <4>1. k - 1 \in 1 .. N /\ k - 1 <= n  BY <2>2, <3>2
      <4>2. f[k - 1] = h[k - 1]  BY <2>1, <4>1
      <4>3. h[k] = next[f[k - 1]]  BY <3>2
      <4>4. Once(h)[k] = next[h[k - 1]]
        <5> HIDE DEF h
        <5> QED BY <3>2
      <4> QED BY <4>2, <4>3, <4>4
    <3> QED BY <3>1, <3>2
  <2>3. Right(h, n + 1)
    <3> HIDE DEF h, Once
    <3> QED BY <2>2
  <2> HIDE DEF Right
  <2> QED BY <2>3
<1>3. N \in T
  <2> HIDE DEF T
  <2> QED BY <1>1, <1>2, EveryNatural
<1>4. PICK g : Right(g, N)
  <2> HIDE DEF Right
  <2> QED BY <1>3
<1> DEFINE h == Once(g)
<1>5. \A k \in 1 .. N : g[k] = h[k]  BY <1>4
<1>6. ASSUME NEW k \in 1 .. N PROVE h[k] = IF k = 1 THEN s ELSE next[h[k - 1]]
  <2>1. CASE k = 1  BY <2>1
  <2>2. CASE k # 1
    <3>1. k - 1 \in 1 .. N  BY <2>2
    <3> QED BY <1>5, <2>2, <3>1
  <2> QED BY <2>1, <2>2
<1>7. h = [k \in 1 .. N |-> h[k]]  OBVIOUS
<1> HIDE DEF h
<1>8. Walks(h, next, s, N)  BY <1>6, <1>7 DEF Walks
<1> QED BY <1>8

(* next leads each element of the finite set D to one of its own. *)
Cycles(next, D) ==
  /\ IsFiniteSet(D) /\ next \in [D -> D]
  /\ \A x, y \in D : next[x] = next[y] => x = y

(* A walk as long as there are elements, and the subtour as a part of it. *)
WalkOf(w, next, s, D) ==
  /\ w \in [1 .. Cardinality(D) -> D] /\ Cardinality(D) \in Nat \ {0}
  /\ w[1] = s
  /\ \A k \in 1 .. Cardinality(D) - 1 : w[k + 1] = next[w[k]]
  /\ Subtour(next, s) =
       SubSeq(w, 1, Min({k \in 1 .. Cardinality(D) : next[w[k]] = s}))

LEMMA SubtourWalk ==
  ASSUME NEW D, NEW next, Cycles(next, D), NEW s \in D
  PROVE  \E w : WalkOf(w, next, s, D)
<1> DEFINE N == Cardinality(D)
<1>1. N \in Nat /\ N # 0 /\ DOMAIN next = D
  BY FS_CardinalityType, FS_EmptySet DEF Cycles
<1> DEFINE w == CHOOSE w : Walks(w, next, s, N)
<1>2. Walks(w, next, s, N)
  <2>1. \E v : Walks(v, next, s, N)  BY <1>1, WalkExists
  <2> QED BY <2>1
<1>3. Subtour(next, s) = SubSeq(w, 1, Min({k \in 1 .. N : next[w[k]] = s}))
  BY <1>1 DEF Subtour, Walks
<1> HIDE DEF w, N
<1>4. w[1] = s  BY <1>1, <1>2 DEF Walks
<1>5. \A k \in 1 .. N - 1 : w[k + 1] = next[w[k]]
  <2> SUFFICES ASSUME NEW k \in 1 .. N - 1 PROVE w[k + 1] = next[w[k]]  OBVIOUS
  <2>1. k + 1 \in 1 .. N /\ k + 1 # 1 /\ (k + 1) - 1 = k  BY <1>1
  <2> QED BY <1>2, <2>1 DEF Walks
<1>6. \A k \in 1 .. N : w[k] \in D
  <2> DEFINE T == {k \in 1 .. N : w[k] \in D}
  <2>1. 1 \in T  BY <1>1, <1>4
  <2>2. \A k \in 1 .. N - 1 : k \in T => k + 1 \in T
    BY <1>1, <1>5 DEF Cycles
  <2>3. \A k \in 1 .. N : k \in T
    <3> HIDE DEF T
    <3> QED BY <1>1, <2>1, <2>2, EveryInInterval
  <2> QED BY <2>3
<1>7. w \in [1 .. N -> D]  BY <1>2, <1>6 DEF Walks
<1>8. WalkOf(w, next, s, D)
  BY <1>1, <1>3, <1>4, <1>5, <1>7 DEF N, WalkOf
<1> QED BY <1>8

(* A walk that has not come back to its start has come to no element twice. *)
Onward(w, n, next, D) ==
  /\ n \in Nat /\ \A k \in 1 .. n : w[k] \in D
  /\ \A k \in 1 .. n - 1 : w[k + 1] = next[w[k]] /\ w[k + 1] # w[1]
Differ(w, n) == \A i, j \in 1 .. n : w[i] = w[j] => i = j

LEMMA NotBackNotTwice ==
  ASSUME NEW D, NEW next, Cycles(next, D), NEW n, NEW w, Onward(w, n, next, D)
  PROVE  Differ(w, n)
<1>0. /\ n \in Nat /\ \A k \in 1 .. n : w[k] \in D
      /\ \A k \in 1 .. n - 1 : w[k + 1] = next[w[k]] /\ w[k + 1] # w[1]
  BY DEF Onward
<1> USE <1>0
<1> DEFINE T == {i \in 1 .. n : \A j \in 1 .. n : i < j => w[i] # w[j]}
<1>1. n >= 1 => 1 \in T
  <2> SUFFICES ASSUME n >= 1, NEW j \in 1 .. n, 1 < j PROVE w[1] # w[j]  OBVIOUS
  <2>1. j - 1 \in 1 .. n - 1 /\ (j - 1) + 1 = j  OBVIOUS
  <2> QED BY <2>1
<1>2. ASSUME NEW i \in 1 .. n - 1, i \in T PROVE i + 1 \in T
  <2> SUFFICES ASSUME NEW j \in 1 .. n, i + 1 < j, w[i + 1] = w[j] PROVE FALSE
    OBVIOUS
  <2>1. /\ j - 1 \in 1 .. n - 1 /\ (j - 1) + 1 = j /\ i < j - 1
        /\ j - 1 \in 1 .. n /\ i \in 1 .. n
    OBVIOUS
  <2>2. next[w[i]] = next[w[j - 1]]  BY <2>1
  <2>3. w[i] = w[j - 1]  BY <2>1, <2>2 DEF Cycles
  <2> QED BY <1>2, <2>1, <2>3
<1>3. \A i \in 1 .. n : i \in T
  <2>1. CASE n = 0  BY <2>1
  <2>2. CASE n # 0
    <3>1. 1 \in T  BY <1>1, <2>2
    <3> HIDE DEF T
    <3> QED BY <1>2, <3>1, EveryInInterval
  <2> QED BY <2>1, <2>2
<1> SUFFICES ASSUME NEW i \in 1 .. n, NEW j \in 1 .. n, w[i] = w[j], i # j
             PROVE  FALSE
  BY DEF Differ
<1>4. CASE i < j  BY <1>3, <1>4
<1>5. CASE j < i  BY <1>3, <1>5
<1> QED BY <1>4, <1>5

(* The subtour of s: a round from s through different elements of D.       *)
Round(t, next, s, D) ==
  /\ t \in Seq(D) /\ Len(t) \in 1 .. Cardinality(D) /\ t[1] = s
  /\ \A k \in 1 .. Len(t) - 1 : t[k + 1] = next[t[k]] /\ t[k + 1] # s
  /\ next[t[Len(t)]] = s
  /\ \A i, j \in 1 .. Len(t) : t[i] = t[j] => i = j

LEMMA SubtourIsRound ==
  ASSUME NEW D, NEW next, Cycles(next, D), NEW s \in D
  PROVE  Round(Subtour(next, s), next, s, D)
<1> DEFINE N == Cardinality(D)
<1>0. PICK w : WalkOf(w, next, s, D)
  BY SubtourWalk
<1>1. /\ w \in [1 .. N -> D] /\ N \in Nat \ {0}
      /\ w[1] = s
      /\ \A k \in 1 .. N - 1 : w[k + 1] = next[w[k]]
      /\ Subtour(next, s) = SubSeq(w, 1, Min({k \in 1 .. N : next[w[k]] = s}))
  BY <1>0 DEF WalkOf
<1> DEFINE K == {k \in 1 .. N : next[w[k]] = s}
<1>2. K # {}
  <2> SUFFICES ASSUME K = {} PROVE FALSE  OBVIOUS
  <2>1. \A k \in 1 .. N : next[w[k]] # s  OBVIOUS
  <2>2. \A k \in 1 .. N - 1 : w[k + 1] = next[w[k]] /\ w[k + 1] # w[1]
    <3>1. \A k \in 1 .. N - 1 : k \in 1 .. N  BY <1>1
    <3> QED BY <1>1, <2>1, <3>1
  <2>3. \A i, j \in 1 .. N : w[i] = w[j] => i = j
    <3>1. N \in Nat /\ \A k \in 1 .. N : w[k] \in D  BY <1>1
    <3> HIDE DEF N
    <3>2. Onward(w, N, next, D)  BY <2>2, <3>1 DEF Onward
    <3>3. Differ(w, N)  BY ONLY Cycles(next, D), <3>2, NotBackNotTwice, Zenon
    <3> QED BY <3>3 DEF Differ
  <2>4. \A x \in D : \E k \in 1 .. N : w[k] = x
    <3>1. IsFiniteSet(D) /\ w \in [1 .. Cardinality(D) -> D]  BY <1>1 DEF Cycles
    <3> QED BY ONLY <3>1, <2>3, AllAreMet, Zenon
  <2>5. PICK j \in 1 .. N : w[j] = next[w[N]]
    <3>1. next[w[N]] \in D  BY <1>1 DEF Cycles
    <3> QED BY <2>4, <3>1
  <2>6. j # 1  BY <1>1, <2>1, <2>5
  <2>7. j - 1 \in 1 .. N - 1 /\ (j - 1) + 1 = j /\ N \in 1 .. N /\ j - 1 # N
        /\ j - 1 \in 1 .. N
    BY <1>1, <2>6
  <2>8. next[w[j - 1]] = next[w[N]]  BY <1>1, <2>5, <2>7
  <2>9. w[j - 1] = w[N]  BY <1>1, <2>7, <2>8 DEF Cycles
  <2> QED BY <2>3, <2>7, <2>9
<1> DEFINE L == Min(K)
           t == Subtour(next, s)
<1>3. L \in K /\ \A k \in K : L <= k
  <2>1. K \subseteq Nat  OBVIOUS
  <2> HIDE DEF K
  <2> QED BY <1>2, <2>1, MinOfNumbers
<1>4. L \in 1 .. N /\ next[w[L]] = s /\ \A k \in 1 .. L - 1 : next[w[k]] # s
  <2> HIDE DEF L
  <2>1. \A k \in 1 .. L - 1 : k \in 1 .. N /\ ~(L <= k)  BY <1>1, <1>3
  <2> QED BY <1>3, <2>1
<1> HIDE DEF K, L, N
<1>5. /\ t \in Seq(D) /\ Len(t) = L /\ \A i \in 1 .. L : t[i] = w[i]
  <2>1. t = SubSeq(w, 1, L)  BY <1>1 DEF L, K
  <2>2. L \in Int /\ 1 \in Int /\ 1 <= L /\ \A i \in 1 .. L : w[i] \in D
    BY <1>1, <1>4
  <2>3. /\ SubSeq(w, 1, L) \in Seq(D)
        /\ Len(SubSeq(w, 1, L)) = IF 1 <= L THEN L - 1 + 1 ELSE 0
        /\ \A i \in 1 .. L - 1 + 1 : SubSeq(w, 1, L)[i] = w[1 + i - 1]
    BY <2>2, SubSeqProperties
  <2> HIDE DEF t
  <2>4. L - 1 + 1 = L /\ \A i \in 1 .. L : 1 + i - 1 = i  BY <2>2
  <2> QED BY <2>1, <2>2, <2>3, <2>4
<1> HIDE DEF t
<1>6. t[1] = s /\ next[t[L]] = s  BY <1>1, <1>4, <1>5
<1>7. ASSUME NEW k \in 1 .. L - 1
      PROVE  t[k + 1] = next[t[k]] /\ t[k + 1] # s
  <2>1. k \in 1 .. L /\ k + 1 \in 1 .. L /\ k \in 1 .. N - 1  BY <1>1, <1>4
  <2> QED BY <1>1, <1>4, <1>5, <2>1
<1>8. \A k \in 1 .. L : t[k] \in D  BY <1>5, ElementOfSeq
<1>9. \A i, j \in 1 .. L : t[i] = t[j] => i = j
  <2>1. L \in Nat  BY <1>1, <1>4
  <2>2. \A k \in 1 .. L - 1 : t[k + 1] = next[t[k]] /\ t[k + 1] # t[1]
    BY <1>6, <1>7
  <2> HIDE DEF L
  <2>3. Onward(t, L, next, D)  BY <1>8, <2>1, <2>2 DEF Onward
  <2>4. Differ(t, L)  BY ONLY Cycles(next, D), <2>3, NotBackNotTwice, Zenon
  <2> QED BY <2>4 DEF Differ
<1> QED BY <1>4, <1>5, <1>6, <1>7, <1>9 DEF Round, t, N

(* There is one such round only. *)
LEMMA OneRound ==
  ASSUME NEW D, NEW next, NEW s, NEW t, NEW u, Cardinality(D) \in Nat,
         Round(t, next, s, D), Round(u, next, s, D)
  PROVE  t = u
<1>1. /\ t \in Seq(D) /\ u \in Seq(D) /\ Len(t) \in Nat /\ Len(u) \in Nat
      /\ Len(t) >= 1 /\ Len(u) >= 1
  BY DEF Round
<1>2. ASSUME NEW a, NEW b, Round(a, next, s, D), Round(b, next, s, D), Len(a) <= Len(b)
      PROVE  Len(a) = Len(b) /\ \A k \in 1 .. Len(a) : a[k] = b[k]
  <2> DEFINE T == {k \in 1 .. Len(a) : a[k] = b[k]}
  <2>0. Len(a) \in Nat /\ Len(b) \in Nat /\ Len(a) >= 1  BY <1>2 DEF Round
  <2>1. 1 \in T  BY <1>2, <2>0 DEF Round
  <2>2. ASSUME NEW k \in 1 .. Len(a) - 1, k \in T PROVE k + 1 \in T
    <3>1. k \in 1 .. Len(b) - 1 /\ k + 1 \in 1 .. Len(a)  BY <1>2, <2>0
    <3>2. a[k + 1] = next[a[k]] /\ b[k + 1] = next[b[k]]  BY <1>2, <3>1 DEF Round
    <3> QED BY <2>2, <3>1, <3>2
  <2>3. \A k \in 1 .. Len(a) : k \in T
    <3> HIDE DEF T
    <3> QED BY <2>0, <2>1, <2>2, EveryInInterval
  <2>4. a[Len(a)] = b[Len(a)]  BY <2>0, <2>3
  <2>5. ASSUME Len(a) # Len(b) PROVE FALSE
    <3>1. Len(a) \in 1 .. Len(b) - 1  BY <1>2, <2>0, <2>5
    <3>2. b[Len(a) + 1] = next[b[Len(a)]] /\ b[Len(a) + 1] # s
      BY <1>2, <3>1 DEF Round
    <3>3. next[a[Len(a)]] = s  BY <1>2 DEF Round
    <3> QED BY <2>4, <3>2, <3>3
  <2> QED BY <2>3, <2>5
<1>3. Len(t) = Len(u) /\ \A k \in 1 .. Len(t) : t[k] = u[k]
  <2>1. CASE Len(t) <= Len(u)  BY <1>2, <2>1
  <2>2. CASE Len(u) <= Len(t)  BY <1>2, <2>2
  <2> QED BY <1>1, <2>1, <2>2
<1> QED BY <1>1, <1>3, SeqEqual

-----------------------------------------------------------------------------
(* Closed sets and the shortest subtour *)

IsClosed(T, next) == \A x \in T : next[x] \in T

LEMMA RoundElements ==
  ASSUME NEW D, NEW next, NEW s, NEW t, Cardinality(D) \in Nat, Round(t, next, s, D)
  PROVE  /\ ToSet(t) = {t[k] : k \in 1 .. Len(t)}
         /\ ToSet(t) \subseteq D /\ s \in ToSet(t)
         /\ IsClosed(ToSet(t), next)
<1>1. t \in Seq(D) /\ Len(t) \in Nat /\ Len(t) >= 1  BY DEF Round
<1>2. DOMAIN t = 1 .. Len(t) /\ \A k \in 1 .. Len(t) : t[k] \in D
  BY <1>1, LenProperties, ElementOfSeq
<1>3. ToSet(t) = {t[k] : k \in 1 .. Len(t)}  BY <1>2 DEF ToSet
<1>4. s \in ToSet(t)
  <2>1. t[1] = s /\ 1 \in 1 .. Len(t)  BY <1>1 DEF Round
  <2> QED BY <1>3, <2>1
<1>5. ASSUME NEW k \in 1 .. Len(t) PROVE next[t[k]] \in ToSet(t)
  <2>1. CASE k = Len(t)  BY <1>4, <2>1 DEF Round
  <2>2. CASE k # Len(t)
    <3>1. k \in 1 .. Len(t) - 1 /\ k + 1 \in 1 .. Len(t)  BY <1>1, <2>2
    <3>2. next[t[k]] = t[k + 1]  BY <3>1 DEF Round
    <3> QED BY <1>3, <3>1, <3>2
  <2> QED BY <2>1, <2>2
<1>6. IsClosed(ToSet(t), next)  BY <1>3, <1>5 DEF IsClosed
<1> QED BY <1>2, <1>3, <1>4, <1>6

(* A round stays in a closed set it starts in. *)
LEMMA RoundStays ==
  ASSUME NEW D, NEW next, NEW s, NEW t, Cardinality(D) \in Nat, Round(t, next, s, D),
         NEW T, IsClosed(T, next), s \in T
  PROVE  ToSet(t) \subseteq T
<1>1. t \in Seq(D) /\ Len(t) \in Nat /\ Len(t) >= 1  BY DEF Round
<1> DEFINE U == {k \in 1 .. Len(t) : t[k] \in T}
<1>2. 1 \in U  BY <1>1 DEF Round
<1>3. ASSUME NEW k \in 1 .. Len(t) - 1, k \in U PROVE k + 1 \in U
  <2>1. t[k + 1] = next[t[k]] /\ k + 1 \in 1 .. Len(t)  BY <1>1 DEF Round
  <2> QED BY <1>3, <2>1 DEF IsClosed
<1>4. \A k \in 1 .. Len(t) : k \in U
  <2> HIDE DEF U
  <2> QED BY <1>1, <1>2, <1>3, EveryInInterval
<1> QED BY <1>4, RoundElements

(* A round of as many elements as there are leaves no closed part out.     *)
LEMMA NothingElseCloses ==
  ASSUME NEW D, NEW next, Cycles(next, D), NEW s, NEW t, Round(t, next, s, D),
         Len(t) = Cardinality(D)
  PROVE  /\ ToSet(t) = D
         /\ \A T \in SUBSET D : T # {} /\ IsClosed(T, next) => T = D
<1>0. Cardinality(D) \in Nat  BY FS_CardinalityType DEF Cycles
<1> DEFINE N == Cardinality(D)
<1>1. /\ t \in Seq(D) /\ Len(t) = N /\ N >= 1 /\ t[1] = s
      /\ \A k \in 1 .. N : t[k] \in D
      /\ \A i, j \in 1 .. N : t[i] = t[j] => i = j
      /\ t \in [1 .. N -> D]
  <2>1. t \in Seq(D) /\ t \in [1 .. N -> D]  BY LenProperties DEF Round
  <2> QED BY <1>0, <2>1 DEF Round
<1>2. ToSet(t) = D
  <2>1. \A x \in D : \E k \in 1 .. N : t[k] = x
    BY <1>1, AllAreMet DEF Cycles
  <2>2. ToSet(t) = {t[k] : k \in 1 .. Len(t)} /\ ToSet(t) \subseteq D
    BY <1>0, RoundElements
  <2> QED BY <1>1, <2>1, <2>2
<1>3. ASSUME NEW T \in SUBSET D, T # {}, IsClosed(T, next)
      PROVE  T = D
  <2>1. PICK x \in T : TRUE  BY <1>3
  <2>2. PICK m \in 1 .. N : t[m] = x
    <3>1. x \in ToSet(t)  BY <1>2, <2>1
    <3> QED BY <1>0, <1>1, <3>1, RoundElements
  <2> DEFINE U == {k \in 1 .. N : k < m \/ t[k] \in T}
  <2>3. 1 \in U  BY <1>0, <1>1, <2>1, <2>2
  <2>4. ASSUME NEW k \in 1 .. N - 1, k \in U PROVE k + 1 \in U
    <3>1. t[k + 1] = next[t[k]] /\ k + 1 \in 1 .. N  BY <1>0, <1>1 DEF Round
    <3>2. CASE k + 1 < m  BY <3>1, <3>2
    <3>3. CASE k + 1 = m  BY <2>1, <2>2, <3>1, <3>3
    <3>4. CASE k + 1 > m
      <4>1. t[k] \in T  BY <1>0, <2>4, <3>4
      <4> QED BY <1>3, <3>1, <4>1 DEF IsClosed
    <3> QED BY <1>0, <3>2, <3>3, <3>4
  <2>5. N \in U
    <3>1. \A k \in 1 .. N : k \in U
      <4> HIDE DEF U, N
      <4> QED BY <1>0, <2>3, <2>4, EveryInInterval DEF N
    <3> QED BY <1>0, <1>1, <3>1
  <2>6. t[N] \in T  BY <1>0, <2>1, <2>2, <2>5
  <2>7. s \in T
    <3>1. next[t[N]] = s  BY <1>1 DEF Round
    <3> QED BY <1>3, <2>6, <3>1 DEF IsClosed
  <2>8. ToSet(t) \subseteq T  BY <1>0, <1>3, <2>7, RoundStays
  <2> QED BY <1>2, <2>8
<1> QED BY <1>2, <1>3

(* findsubtour finds the subtour of some node, and of the lowest of D if   *)
(* it is a round through all of D.                                         *)
LEMMA FoundIsRound ==
  ASSUME NEW D, D \subseteq Nat, D # {}, NEW next, Cycles(next, D)
  PROVE  \E s \in Starts(next) :
           /\ s \in D /\ FindSubtour(next) = Subtour(next, s)
           /\ Round(FindSubtour(next), next, s, D)
           /\ s = Min(ToSet(FindSubtour(next)))
<1> DEFINE RoundLen(s) == Len(Subtour(next, s))
           R == Starts(next)
<1>0. DOMAIN next = D /\ Cardinality(D) \in Nat
  BY FS_CardinalityType DEF Cycles
<1>1. \A s \in D : Round(Subtour(next, s), next, s, D)  BY SubtourIsRound
<1>2. R # {} /\ R \subseteq D
  <2>1. PICK s \in D : TRUE  OBVIOUS
  <2> DEFINE T == ToSet(Subtour(next, s))
  <2>2. T \subseteq D /\ T # {} /\ IsClosed(T, next)
    BY <1>0, <1>1, RoundElements
  <2>3. Min(T) \in T /\ \A d \in T : Min(T) <= d
    <3>1. T \subseteq Nat  BY <2>2
    <3> HIDE DEF T
    <3> QED BY <2>2, <3>1, MinOfNumbers
  <2> DEFINE a == Min(T)
             V == ToSet(Subtour(next, a))
  <2>4. a \in D  BY <2>2, <2>3
  <2> HIDE DEF a
  <2>5. V \subseteq T /\ a \in V
    <3>1. Round(Subtour(next, a), next, a, D)  BY <1>1, <2>4
    <3>2. a \in T  BY <2>3 DEF a
    <3>3. Cardinality(D) \in Nat /\ IsClosed(T, next)  BY <1>0, <2>2
    <3> HIDE DEF T
    <3>4. V \subseteq T  BY ONLY <3>1, <3>2, <3>3, RoundStays
    <3>5. a \in V  BY ONLY <3>1, <3>3, RoundElements
    <3> QED BY <3>4, <3>5
  <2>6. Min(V) \in V /\ \A d \in V : Min(V) <= d
    <3>1. V \subseteq Nat /\ V # {}  BY <2>2, <2>5
    <3> HIDE DEF V
    <3> QED BY <3>1, MinOfNumbers
  <2>7. a = Min(V)
    <3>1. a <= Min(V) /\ Min(V) <= a  BY <2>3, <2>5, <2>6 DEF a
    <3>2. a \in Nat /\ Min(V) \in Nat  BY <2>2, <2>4, <2>5, <2>6
    <3> HIDE DEF V
    <3> QED BY <3>1, <3>2
  <2>8. a \in R  BY <1>0, <2>4, <2>7 DEF Starts
  <2> QED BY <1>0, <2>8 DEF Starts
<1>3. \A s \in R : RoundLen(s) \in Nat  BY <1>0, <1>1, <1>2 DEF Round
<1>4. \E s \in R : \A t \in R : Shorter(next, s, t)
  <2> DEFINE H == {RoundLen(s) : s \in R}
  <2>1. PICK l \in H : \A h \in H : l <= h
    <3>1. H \subseteq Nat /\ H # {}  BY <1>2, <1>3
    <3> HIDE DEF H
    <3> QED BY <3>1, LeastNatural
  <2> DEFINE B == {s \in R : RoundLen(s) = l}
  <2>2. PICK s \in B : \A t \in B : s <= t
    <3>1. B \subseteq Nat /\ B # {}  BY <1>2, <2>1
    <3> HIDE DEF B
    <3> QED BY <3>1, LeastNatural
  <2>3. ASSUME NEW t \in R PROVE Shorter(next, s, t)
    <3>1. RoundLen(s) = l /\ l <= RoundLen(t) /\ RoundLen(t) \in Nat /\ l \in Nat
      BY <1>3, <2>1, <2>2, <2>3
    <3>2. CASE RoundLen(t) = l  BY <2>2, <2>3, <3>1, <3>2 DEF Shorter
    <3>3. CASE RoundLen(t) # l  BY <3>1, <3>3 DEF Shorter
    <3> QED BY <3>2, <3>3
  <2> QED BY <2>2, <2>3
<1> DEFINE s == CHOOSE s \in R : \A t \in R : Shorter(next, s, t)
<1>5. s \in R  BY <1>4
<1>6. FindSubtour(next) = Subtour(next, s)  BY DEF FindSubtour
<1> HIDE DEF s
<1>7. s \in D /\ s = Min(ToSet(Subtour(next, s)))
  BY <1>2, <1>5 DEF Starts
<1> QED BY <1>1, <1>5, <1>6, <1>7

(* If one node's round goes through all of D, so does the one found, and   *)
(* the other way round.                                                    *)
LEMMA FoundIsWhole ==
  ASSUME NEW D, D \subseteq Nat, D # {}, NEW next, Cycles(next, D),
         NEW a \in D, \A d \in D : a <= d
  PROVE  /\ Len(FindSubtour(next)) = Cardinality(D) =>
              /\ Round(FindSubtour(next), next, a, D)
              /\ ToSet(FindSubtour(next)) = D
         /\ \A u : Round(u, next, a, D) /\ Len(u) = Cardinality(D) =>
              FindSubtour(next) = u
<1> DEFINE f == FindSubtour(next)
<1>0. Cardinality(D) \in Nat  BY FS_CardinalityType DEF Cycles
<1>1. PICK s \in D : /\ f = Subtour(next, s) /\ Round(f, next, s, D)
                     /\ s = Min(ToSet(f))
  BY FoundIsRound
<1> HIDE DEF f
<1>2. ASSUME ToSet(f) = D PROVE s = a
  <2>1. s \in D /\ \A d \in D : s <= d  BY <1>1, <1>2, MinOfNumbers
  <2>2. s <= a /\ a <= s /\ s \in Nat /\ a \in Nat  BY <2>1
  <2> QED BY <2>2
<1>3. Len(f) = Cardinality(D) => Round(f, next, a, D) /\ ToSet(f) = D
  BY <1>1, <1>2, NothingElseCloses
<1>4. ASSUME NEW u, Round(u, next, a, D), Len(u) = Cardinality(D)
      PROVE  f = u
  <2>1. ToSet(f) \subseteq D /\ ToSet(f) # {} /\ IsClosed(ToSet(f), next)
    BY <1>0, <1>1, RoundElements
  <2>2. ToSet(f) = D  BY <1>4, <2>1, NothingElseCloses
  <2>3. Round(f, next, a, D)  BY <1>1, <1>2, <2>2
  <2> QED BY <1>0, <1>4, <2>3, OneRound
<1> QED BY <1>3, <1>4 DEF f

(* The cut of a subtour that is not all of D spares every round of all.    *)
LEMMA CutSpares ==
  ASSUME NEW D, D \subseteq Nat, D # {}, NEW next, Cycles(next, D),
         NEW other, Cycles(other, D),
         Len(FindSubtour(other)) < Cardinality(D),
         Len(FindSubtour(next)) = Cardinality(D)
  PROVE  Allowed(next, {ToSet(FindSubtour(other))})
<1> DEFINE f == FindSubtour(next)
           g == FindSubtour(other)
           S == ToSet(g)
           W == {n \in S : next[n] \in S}
<1>0. Cardinality(D) \in Nat /\ IsFiniteSet(D)
  BY FS_CardinalityType DEF Cycles
<1>1. PICK s \in D : Round(f, next, s, D)  BY FoundIsRound
<1>2. PICK r \in D : Round(g, other, r, D)  BY FoundIsRound
<1> HIDE DEF f, g
<1>3. S \subseteq D /\ S # {} /\ S = {g[k] : k \in 1 .. Len(g)} /\ Len(g) \in Nat
  <2>1. Len(g) \in Nat  BY <1>2 DEF Round
  <2> QED BY <1>0, <1>2, <2>1, RoundElements
<1>4. Cardinality(S) <= Len(g)
  <2> DEFINE I == 1 .. Len(g)
  <2>1. IsFiniteSet(I) /\ Cardinality(I) = Len(g)
    <3>1. IsFiniteSet(I) /\ Cardinality(I) = IF 1 > Len(g) THEN 0 ELSE Len(g) - 1 + 1
      BY <1>3, FS_Interval
    <3> HIDE DEF I
    <3> QED BY <1>3, <3>1
  <2>2. [k \in I |-> g[k]] \in Surjection(I, S)
    BY <1>3 DEF Surjection
  <2> HIDE DEF I, S
  <2> QED BY <2>1, <2>2, FS_Surjection
<1>5. S # D
  <2>1. Len(g) < Cardinality(D)  BY DEF g
  <2>2. Cardinality(S) = Cardinality(D) => FALSE
    <3> HIDE DEF S
    <3> QED BY <1>0, <1>3, <1>4, <2>1
  <2> QED BY <2>2
<1>6. ~IsClosed(S, next)
  BY <1>1, <1>3, <1>5, NothingElseCloses DEF f
<1>7. W # S  BY <1>6 DEF IsClosed
<1>8. IsFiniteSet(S) /\ Cardinality(S) \in Nat /\ W \subseteq S
  BY <1>0, <1>3, FS_Subset, FS_CardinalityType
<1>9. Cardinality(W) <= Cardinality(S) - 1
  <2> HIDE DEF W, S
  <2>1. IsFiniteSet(W) /\ Cardinality(W) <= Cardinality(S) /\ Cardinality(W) \in Nat
        /\ Cardinality(W) # Cardinality(S)
    BY <1>7, <1>8, FS_Subset, FS_CardinalityType
  <2> QED BY <1>8, <2>1
<1> QED BY <1>9 DEF Allowed, ArcsWithin, g

-----------------------------------------------------------------------------
(* Cities and nodes *)

M(i) == NumStations(i) + Len(Candidates(i))

LEMMA CandidatesType ==
  ASSUME NEW i \in Instances
  PROVE  Candidates(i) \in Seq(Locations) /\ Len(Candidates(i)) \in Nat
<1> DEFINE home == {k \in DOMAIN i.listed : i.listed[k] = i.dock}
<1>1. i.listed \in Seq(Locations)  BY InstanceAssumption DEF InstanceType
<1>2. CASE i.kind # "fixedport" \/ home = {}
  <2>1. Candidates(i) = i.listed  BY <1>2 DEF Candidates
  <2> QED BY <1>1, <2>1
<1>3. CASE ~(i.kind # "fixedport" \/ home = {})
  <2> DEFINE k == Max(home)
             n == Len(i.listed)
  <2>1. n \in Nat /\ DOMAIN i.listed = 1 .. n  BY <1>1
  <2>2. k \in home
    <3> DEFINE G == {n - h : h \in home}
    <3>1. PICK g \in G : \A h \in G : g <= h
      <4>0. home \subseteq 1 .. n /\ home # {}  BY <1>3, <2>1
      <4>1. G \subseteq Nat /\ G # {}
        <5> HIDE DEF home, n
        <5>1. n \in Nat  BY <2>1
        <5>2. \A h \in home : n - h \in Nat  BY <4>0, <5>1
        <5> QED BY <4>0, <5>2
      <4> HIDE DEF G
      <4> QED BY <4>1, LeastNatural
    <3>2. PICK h \in home : g = n - h  BY <3>1
    <3>3. \A l \in home : h >= l
      <4> TAKE l \in home
      <4>1. n - l \in G  OBVIOUS
      <4>2. h \in Int /\ l \in Int /\ n - h <= n - l  BY <2>1, <3>1, <3>2, <4>1
      <4> HIDE DEF n
      <4> QED BY <2>1, <4>2
    <3>4. \E m \in home : \A l \in home : m >= l  BY <3>3
    <3> HIDE DEF home
    <3> QED BY <3>4 DEF Max
  <2> HIDE DEF k
  <2>3. k \in 1 .. n  BY <2>1, <2>2
  <2>4. Candidates(i) = RemoveAt(i.listed, k)  BY <1>3 DEF Candidates, k
  <2>5. Candidates(i) = SubSeq(i.listed, 1, k - 1) \o SubSeq(i.listed, k + 1, n)
    BY <2>4 DEF RemoveAt
  <2>6. /\ SubSeq(i.listed, 1, k - 1) \in Seq(Locations)
        /\ SubSeq(i.listed, k + 1, n) \in Seq(Locations)
    BY <1>1, <2>1, <2>3, SubSeqProperties
  <2>7. Candidates(i) \in Seq(Locations)  BY <2>5, <2>6, ConcatProperties
  <2> QED BY <2>7
<1> QED BY <1>2, <1>3

LEMMA Shape ==
  ASSUME NEW i \in Instances
  PROVE  /\ M(i) \in Nat /\ M(i) >= 1
         /\ NumStations(i) \in Nat /\ 1 <= NumStations(i) /\ NumStations(i) <= M(i)
         /\ Cities(i) = 0 .. M(i) /\ IsFiniteSet(Cities(i))
         /\ Cardinality(Cities(i)) = M(i) + 1
         /\ Nodes(i) = 0 .. 2 * M(i) + 1 /\ IsFiniteSet(Nodes(i))
         /\ Cardinality(Nodes(i)) = 2 * M(i) + 2
         /\ Nodes(i) \subseteq Nat /\ Nodes(i) # {}
<1>1. NumStations(i) \in Nat /\ 1 <= NumStations(i)
  <2>1. i.start \in Seq(Locations) /\ Len(i.start) >= 1
    BY InstanceAssumption DEF InstanceType
  <2> QED BY <2>1 DEF NumStations
<1>2. Len(Candidates(i)) \in Nat  BY CandidatesType
<1>3. M(i) \in Nat /\ M(i) >= 1 /\ NumStations(i) <= M(i)  BY <1>1, <1>2 DEF M
<1>4. Cities(i) = 0 .. M(i)  BY <1>1, <1>2 DEF Cities, Stations, Ports, M
<1>5. /\ IsFiniteSet(0 .. M(i)) /\ Cardinality(0 .. M(i)) = M(i) + 1
  <2>1. /\ IsFiniteSet(0 .. M(i))
        /\ Cardinality(0 .. M(i)) = IF 0 > M(i) THEN 0 ELSE M(i) - 0 + 1
    BY <1>3, FS_Interval
  <2>2. ~(0 > M(i)) /\ M(i) - 0 + 1 = M(i) + 1  BY <1>3
  <2> QED BY <2>1, <2>2
<1>6. Nodes(i) = 0 .. 2 * M(i) + 1
  <2>1. 2 * (M(i) + 1) - 1 = 2 * M(i) + 1  BY <1>3
  <2> QED BY <1>4, <1>5, <2>1 DEF Nodes
<1>7. IsFiniteSet(0 .. 2 * M(i) + 1) /\ Cardinality(0 .. 2 * M(i) + 1) = 2 * M(i) + 2
  <2> DEFINE b == 2 * M(i) + 1
  <2>1. /\ IsFiniteSet(0 .. b)
        /\ Cardinality(0 .. b) = IF 0 > b THEN 0 ELSE b - 0 + 1
    <3>1. b \in Int  BY <1>3
    <3> HIDE DEF b
    <3> QED BY <3>1, FS_Interval
  <2>2. ~(0 > b) /\ b - 0 + 1 = 2 * M(i) + 2  BY <1>3
  <2> HIDE DEF b
  <2>3. IsFiniteSet(0 .. b) /\ Cardinality(0 .. b) = 2 * M(i) + 2  BY <2>1, <2>2
  <2> QED BY <2>3 DEF b
<1>8. Nodes(i) \subseteq Nat /\ Nodes(i) # {}
  <2>1. 0 \in 0 .. 2 * M(i) + 1  BY <1>3
  <2> QED BY <1>6, <2>1
<1> QED BY <1>1, <1>3, <1>4, <1>5, <1>6, <1>7, <1>8

LEMMA CityOfNode ==
  /\ \A n \in Nat : /\ CityOf(n) \in Nat
                    /\ n = 2 * CityOf(n) \/ n = 2 * CityOf(n) + 1
  /\ \A c \in Nat : CityOf(2 * c) = c /\ CityOf(2 * c + 1) = c
<1>1. ASSUME NEW n \in Nat
      PROVE  n \div 2 \in Nat /\ (n = 2 * (n \div 2) \/ n = 2 * (n \div 2) + 1)
  OBVIOUS
<1>2. ASSUME NEW c \in Nat PROVE (2 * c) \div 2 = c /\ (2 * c + 1) \div 2 = c
  OBVIOUS
<1> QED BY <1>1, <1>2 DEF CityOf

(* The node a city is left by. *)
Out(o, c) == IF o[c] THEN 2 * c ELSE 2 * c + 1

LEMMA CityEnds ==
  ASSUME NEW i \in Instances, NEW o \in [Cities(i) -> BOOLEAN], NEW c \in Cities(i)
  PROVE  /\ In(o, c) \in Nodes(i) /\ Out(o, c) \in Nodes(i) /\ In(o, c) # Out(o, c)
         /\ CityOf(In(o, c)) = c /\ CityOf(Out(o, c)) = c
         /\ {In(o, c), Out(o, c)} = {2 * c, 2 * c + 1}
         /\ Out(o, c) = 4 * c + 1 - In(o, c) /\ c \in Nat
<1>1. c \in 0 .. M(i) /\ M(i) \in Nat /\ Nodes(i) = 0 .. 2 * M(i) + 1  BY Shape
<1>2. c \in Nat /\ 2 * c \in 0 .. 2 * M(i) + 1 /\ 2 * c + 1 \in 0 .. 2 * M(i) + 1
  BY <1>1
<1>3. CityOf(2 * c) = c /\ CityOf(2 * c + 1) = c  BY <1>2, CityOfNode
<1>4. CASE o[c] = TRUE
  <2>1. In(o, c) = 2 * c + 1 /\ Out(o, c) = 2 * c  BY <1>4 DEF In, Out
  <2>2. 2 * c + 1 # 2 * c /\ 2 * c = 4 * c + 1 - (2 * c + 1)  BY <1>2
  <2> QED BY <1>1, <1>2, <1>3, <2>1, <2>2
<1>5. CASE o[c] = FALSE
  <2>1. In(o, c) = 2 * c /\ Out(o, c) = 2 * c + 1  BY <1>5 DEF In, Out
  <2>2. 2 * c + 1 # 2 * c /\ 2 * c + 1 = 4 * c + 1 - 2 * c  BY <1>2
  <2> QED BY <1>1, <1>2, <1>3, <2>1, <2>2
<1> QED BY <1>4, <1>5

LEMMA NodeEnds ==
  ASSUME NEW i \in Instances, NEW o \in [Cities(i) -> BOOLEAN], NEW n \in Nodes(i)
  PROVE  /\ CityOf(n) \in Cities(i)
         /\ n = In(o, CityOf(n)) \/ n = Out(o, CityOf(n))
<1> DEFINE c == CityOf(n)
<1>1. /\ n \in 0 .. 2 * M(i) + 1 /\ n \in Nat /\ M(i) \in Nat
      /\ Cities(i) = 0 .. M(i)
  BY Shape
<1>2. c \in Nat /\ (n = 2 * c \/ n = 2 * c + 1)  BY <1>1, CityOfNode
<1> HIDE DEF c
<1>3. c \in 0 .. M(i)  BY <1>1, <1>2
<1>4. {In(o, c), Out(o, c)} = {2 * c, 2 * c + 1}
  <2>1. c \in Cities(i)  BY <1>1, <1>3
  <2> QED BY <2>1, CityEnds
<1>5. n = In(o, c) \/ n = Out(o, c)  BY <1>2, <1>4
<1> QED BY <1>1, <1>3, <1>5 DEF c

(* The arcs f: o says which cities are come to by their second node, succ  *)
(* which city comes next.                                                  *)
Follows(i, f, o, succ) ==
  /\ o \in [Cities(i) -> BOOLEAN]
  /\ succ \in [Cities(i) -> Cities(i)]
  /\ \A c, d \in Cities(i) : succ[c] = succ[d] => c = d
  /\ \A c \in Cities(i) : succ[c] # c
  /\ f \in [Nodes(i) -> Nodes(i)]
  /\ \A c \in Cities(i) : f[In(o, c)] = Out(o, c) /\ f[Out(o, c)] = In(o, succ[c])

LEMMA ArcsFollow ==
  ASSUME NEW i \in Instances, NEW f \in Assignments(i)
  PROVE  \E o, succ : Follows(i, f, o, succ)
<1>1. PICK o \in [Cities(i) -> BOOLEAN],
           succ \in {p \in Bijection(Cities(i), Cities(i)) :
                       \A c \in Cities(i) : p[c] # c} : f = Arcs(i, o, succ)
  BY DEF Assignments
<1>2. /\ succ \in [Cities(i) -> Cities(i)]
      /\ \A c, d \in Cities(i) : succ[c] = succ[d] => c = d
      /\ \A c \in Cities(i) : succ[c] # c
  BY DEF Bijection, Injection, IsInjective
<1>3. ASSUME NEW c \in Cities(i)
      PROVE  f[In(o, c)] = Out(o, c) /\ f[Out(o, c)] = In(o, succ[c])
  BY <1>1, CityEnds DEF Arcs
<1>4. f \in [Nodes(i) -> Nodes(i)]
  <2>1. ASSUME NEW n \in Nodes(i) PROVE f[n] \in Nodes(i)
    BY <1>2, <1>3, NodeEnds, CityEnds
  <2>2. f = [n \in Nodes(i) |-> f[n]]  BY <1>1 DEF Arcs
  <2> QED BY <2>1, <2>2
<1> QED BY <1>2, <1>3, <1>4 DEF Follows

LEMMA FollowsCycles ==
  ASSUME NEW i \in Instances, NEW f, NEW o, NEW succ, Follows(i, f, o, succ)
  PROVE  Cycles(f, Nodes(i))
<1>1. /\ o \in [Cities(i) -> BOOLEAN] /\ succ \in [Cities(i) -> Cities(i)]
      /\ f \in [Nodes(i) -> Nodes(i)]
      /\ \A c, d \in Cities(i) : succ[c] = succ[d] => c = d
      /\ \A c \in Cities(i) : f[In(o, c)] = Out(o, c) /\ f[Out(o, c)] = In(o, succ[c])
  BY DEF Follows
<1>2. ASSUME NEW x \in Nodes(i), NEW y \in Nodes(i), f[x] = f[y] PROVE x = y
  <2> DEFINE c == CityOf(x)
             d == CityOf(y)
  <2>1. /\ c \in Cities(i) /\ d \in Cities(i)
        /\ x = In(o, c) \/ x = Out(o, c)
        /\ y = In(o, d) \/ y = Out(o, d)
    BY <1>1, NodeEnds
  <2> HIDE DEF c, d
  <2>2. succ[c] \in Cities(i) /\ succ[d] \in Cities(i)  BY <1>1, <2>1
  <2>3. \A e, g \in Cities(i) :
          /\ In(o, e) # Out(o, g)
          /\ In(o, e) = In(o, g) => e = g
          /\ Out(o, e) = Out(o, g) => e = g
    <3> TAKE e, g \in Cities(i)
    <3>1. /\ CityOf(In(o, e)) = e /\ CityOf(Out(o, e)) = e /\ In(o, e) # Out(o, e)
          /\ CityOf(In(o, g)) = g /\ CityOf(Out(o, g)) = g /\ In(o, g) # Out(o, g)
      BY <1>1, CityEnds
    <3> QED BY <3>1
  <2>4. CASE x = In(o, c) /\ y = In(o, d)  BY <1>1, <1>2, <2>1, <2>3, <2>4
  <2>5. CASE x = In(o, c) /\ y = Out(o, d)  BY <1>1, <1>2, <2>1, <2>2, <2>3, <2>5
  <2>6. CASE x = Out(o, c) /\ y = In(o, d)  BY <1>1, <1>2, <2>1, <2>2, <2>3, <2>6
  <2>7. CASE x = Out(o, c) /\ y = Out(o, d)
    BY <1>1, <1>2, <2>1, <2>2, <2>3, <2>7
  <2> QED BY <2>1, <2>4, <2>5, <2>6, <2>7
<1> QED BY <1>1, <1>2, Shape DEF Cycles

-----------------------------------------------------------------------------
(* The tour of all nodes, oriented *)

IsIn(o, n) == n = In(o, CityOf(n))
IsOut(o, n) == n = Out(o, CityOf(n))

LEMMA NodeSteps ==
  ASSUME NEW i \in Instances, NEW f, NEW o, NEW succ, Follows(i, f, o, succ),
         NEW n \in Nodes(i)
  PROVE  /\ f[n] \in Nodes(i) /\ CityOf(n) \in Cities(i)
         /\ IsIn(o, n) \/ IsOut(o, n)
         /\ ~(IsIn(o, n) /\ IsOut(o, n))
         /\ IsIn(o, n) => IsOut(o, f[n]) /\ CityOf(f[n]) = CityOf(n)
         /\ IsOut(o, n) => IsIn(o, f[n]) /\ CityOf(f[n]) = succ[CityOf(n)]
         /\ succ[CityOf(n)] # CityOf(n)
<1> DEFINE c == CityOf(n)
<1>1. /\ o \in [Cities(i) -> BOOLEAN] /\ succ \in [Cities(i) -> Cities(i)]
      /\ f \in [Nodes(i) -> Nodes(i)] /\ \A d \in Cities(i) : succ[d] # d
      /\ \A d \in Cities(i) : f[In(o, d)] = Out(o, d) /\ f[Out(o, d)] = In(o, succ[d])
  BY DEF Follows
<1>2. c \in Cities(i) /\ (n = In(o, c) \/ n = Out(o, c))  BY <1>1, NodeEnds
<1> HIDE DEF c
<1>3. In(o, c) # Out(o, c) /\ CityOf(Out(o, c)) = c  BY <1>1, <1>2, CityEnds
<1>4. succ[c] \in Cities(i) /\ CityOf(In(o, succ[c])) = succ[c] /\ succ[c] # c
  BY <1>1, <1>2, CityEnds
<1>5. n = In(o, c) => f[n] = Out(o, c)  BY <1>1, <1>2
<1>6. n = Out(o, c) => f[n] = In(o, succ[c])  BY <1>1, <1>2
<1> QED BY <1>1, <1>2, <1>3, <1>4, <1>5, <1>6 DEF IsIn, IsOut, c

(* The nodes of the tour are left and come to by turns. *)
LEMMA Alternates ==
  ASSUME NEW i \in Instances, NEW f, NEW o, NEW succ, Follows(i, f, o, succ),
         NEW t, Round(t, f, 0, Nodes(i)), Len(t) = 2 * M(i) + 2
  PROVE  /\ IsOut(o, 0) => \A k \in 1 .. M(i) + 1 :
                             IsOut(o, t[2 * k - 1]) /\ IsIn(o, t[2 * k])
         /\ IsIn(o, 0) => \A k \in 1 .. M(i) + 1 :
                             IsIn(o, t[2 * k - 1]) /\ IsOut(o, t[2 * k])
<1> DEFINE m == M(i)
<1>1. m \in Nat  BY Shape
<1>2. /\ t \in Seq(Nodes(i)) /\ t[1] = 0
      /\ \A k \in 1 .. 2 * m + 1 : t[k + 1] = f[t[k]]
  <2>1. Len(t) = 2 * m + 2  OBVIOUS
  <2>2. Len(t) - 1 = 2 * m + 1
    <3> HIDE DEF m
    <3> QED BY <1>1, <2>1
  <2> QED BY <2>2 DEF Round
<1>3. \A k \in 1 .. 2 * m + 2 : t[k] \in Nodes(i)  BY <1>2, ElementOfSeq
<1>4. ASSUME NEW k \in 1 .. 2 * m + 1
      PROVE  /\ IsOut(o, t[k]) => IsIn(o, t[k + 1])
             /\ IsIn(o, t[k]) => IsOut(o, t[k + 1])
  <2>1. t[k] \in Nodes(i) /\ t[k + 1] = f[t[k]]
    <3>1. k \in 1 .. 2 * m + 2  BY <1>1
    <3> QED BY <1>2, <1>3, <3>1
  <2> QED BY <2>1, NodeSteps
<1> HIDE DEF m
<1>5. /\ 2 * 1 - 1 = 1 /\ m + 1 \in Nat
      /\ \A k \in 1 .. m + 1 : /\ 2 * k - 1 \in 1 .. 2 * m + 1
                               /\ (2 * k - 1) + 1 = 2 * k
      /\ \A k \in 1 .. m + 1 - 1 : /\ 2 * k \in 1 .. 2 * m + 1
                                   /\ 2 * k + 1 = 2 * (k + 1) - 1
                                   /\ k \in 1 .. m + 1
  BY <1>1
<1> DEFINE n == m + 1
<1>6. ASSUME IsOut(o, 0), NEW k \in 1 .. m + 1
      PROVE  IsOut(o, t[2 * k - 1]) /\ IsIn(o, t[2 * k])
  <2> DEFINE T == {j \in 1 .. m + 1 : IsOut(o, t[2 * j - 1])}
  <2>1. 1 \in T
    <3>1. 1 \in 1 .. m + 1 /\ 2 * 1 - 1 = 1  BY <1>1
    <3> QED BY <1>2, <1>6, <3>1
  <2>2. ASSUME NEW j \in 1 .. n - 1, j \in T PROVE j + 1 \in T
    <3>1. IsIn(o, t[2 * j])
      <4>1. j \in 1 .. m + 1  BY <1>5
      <4>2. 2 * j - 1 \in 1 .. 2 * m + 1 /\ (2 * j - 1) + 1 = 2 * j  BY <1>5, <4>1
      <4>3. IsOut(o, t[2 * j - 1])  BY <2>2
      <4> QED BY <1>4, <4>2, <4>3
    <3>2. IsOut(o, t[2 * (j + 1) - 1])
      <4>1. 2 * j \in 1 .. 2 * m + 1 /\ 2 * j + 1 = 2 * (j + 1) - 1
        BY <1>1 DEF n
      <4> QED BY <1>4, <3>1, <4>1
    <3>3. j + 1 \in 1 .. m + 1  BY <1>1
    <3> QED BY <3>2, <3>3
  <2>3. \A j \in 1 .. m + 1 : j \in T
    <3>1. n \in Nat  BY <1>5
    <3> HIDE DEF T, n
    <3>2. \A j \in 1 .. n : j \in T  BY <2>1, <2>2, <3>1, EveryInInterval
    <3> QED BY <3>2 DEF n
  <2>4. 2 * k - 1 \in 1 .. 2 * m + 1 /\ (2 * k - 1) + 1 = 2 * k  BY <1>5
  <2>5. IsOut(o, t[2 * k - 1])  BY <2>3
  <2> QED BY <1>4, <2>4, <2>5
<1>7. ASSUME IsIn(o, 0), NEW k \in 1 .. m + 1
      PROVE  IsIn(o, t[2 * k - 1]) /\ IsOut(o, t[2 * k])
  <2> DEFINE T == {j \in 1 .. m + 1 : IsIn(o, t[2 * j - 1])}
  <2>1. 1 \in T
    <3>1. 1 \in 1 .. m + 1 /\ 2 * 1 - 1 = 1  BY <1>1
    <3> QED BY <1>2, <1>7, <3>1
  <2>2. ASSUME NEW j \in 1 .. n - 1, j \in T PROVE j + 1 \in T
    <3>1. IsOut(o, t[2 * j])
      <4>1. j \in 1 .. m + 1  BY <1>5
      <4>2. 2 * j - 1 \in 1 .. 2 * m + 1 /\ (2 * j - 1) + 1 = 2 * j  BY <1>5, <4>1
      <4>3. IsIn(o, t[2 * j - 1])  BY <2>2
      <4> QED BY <1>4, <4>2, <4>3
    <3>2. IsIn(o, t[2 * (j + 1) - 1])
      <4>1. 2 * j \in 1 .. 2 * m + 1 /\ 2 * j + 1 = 2 * (j + 1) - 1
        BY <1>1 DEF n
      <4> QED BY <1>4, <3>1, <4>1
    <3>3. j + 1 \in 1 .. m + 1  BY <1>1
    <3> QED BY <3>2, <3>3
  <2>3. \A j \in 1 .. m + 1 : j \in T
    <3>1. n \in Nat  BY <1>5
    <3> HIDE DEF T, n
    <3>2. \A j \in 1 .. n : j \in T  BY <2>1, <2>2, <3>1, EveryInInterval
    <3> QED BY <3>2 DEF n
  <2>4. 2 * k - 1 \in 1 .. 2 * m + 1 /\ (2 * k - 1) + 1 = 2 * k  BY <1>5
  <2>5. IsIn(o, t[2 * k - 1])  BY <2>3
  <2> QED BY <1>4, <2>4, <2>5
<1> QED BY <1>6, <1>7 DEF m

(* A way from one end of the dock to the other, that the arcs go along:    *)
(* out of each city to the next one, or the same the other way round.      *)
Forward(i, f, u) ==
  \A k \in 1 .. M(i) + 1 : /\ f[u[2 * k - 1]] = u[2 * k]
                           /\ CityOf(f[u[2 * k]]) = CityOf(u[2 * k])
Backward(i, f, u) ==
  \A k \in 1 .. M(i) + 1 : /\ f[u[2 * k]] = u[2 * k - 1]
                           /\ CityOf(f[u[2 * k - 1]]) = CityOf(u[2 * k - 1])

Paired(i, u) ==
  /\ u \in Seq(Nodes(i)) /\ Len(u) = 2 * M(i) + 2
  /\ u[1] = 0 /\ u[2 * M(i) + 2] = 1
  /\ \A j, k \in 1 .. 2 * M(i) + 2 : u[j] = u[k] => j = k
  /\ \A k \in 1 .. M(i) : CityOf(u[2 * k + 1]) = CityOf(u[2 * k])

Way(i, f, u) == Paired(i, u) /\ (Forward(i, f, u) \/ Backward(i, f, u))

LEMMA StartIsFirst ==
  ASSUME NEW D, NEW t \in Seq(D), Len(t) >= 1, t[1] = 0,
         \A j, k \in 1 .. Len(t) : t[j] = t[k] => j = k
  PROVE  RotatedTo(t, LAMBDA n : n = 0) = t
<1> DEFINE K == {k \in DOMAIN t : t[k] = 0}
<1>1. DOMAIN t = 1 .. Len(t) /\ Len(t) \in Nat  BY LenProperties
<1>2. K = {1}  BY <1>1
<1>3. Min(K) = 1
  <2>1. K \subseteq Nat /\ K # {}  BY <1>2
  <2>2. Min(K) \in K
    <3> HIDE DEF K
    <3> QED BY <2>1, MinOfNumbers
  <2> QED BY <1>2, <2>2
<1>4. RotatedTo(t, LAMBDA n : n = 0) =
        SubSeq(t, Min(K), Len(t)) \o SubSeq(t, 1, Min(K) - 1)
  BY <1>2 DEF RotatedTo
<1> HIDE DEF K
<1>5. RotatedTo(t, LAMBDA n : n = 0) = SubSeq(t, 1, Len(t)) \o SubSeq(t, 1, 0)
  BY <1>3, <1>4
<1>6. SubSeq(t, 1, 0) = << >>  BY <1>1
<1>7. SubSeq(t, 1, Len(t)) = t  BY <1>1
<1>8. t \o << >> = t  OBVIOUS
<1> QED BY <1>5, <1>6, <1>7, <1>8

LEMMA OrientedIsWay ==
  ASSUME NEW i \in Instances, NEW f, NEW o, NEW succ, Follows(i, f, o, succ),
         NEW t, Round(t, f, 0, Nodes(i)), Len(t) = 2 * M(i) + 2
  PROVE  /\ Way(i, f, Oriented(t))
         /\ IsOut(o, 0) => Oriented(t) = t
<1> DEFINE m == M(i)
           N == 2 * m + 2
<1>1. m \in Nat /\ m >= 1 /\ N \in Nat /\ Nodes(i) = 0 .. 2 * m + 1  BY Shape
<1>2. /\ t \in Seq(Nodes(i)) /\ t[1] = 0 /\ Len(t) = N
      /\ \A k \in 1 .. N - 1 : t[k + 1] = f[t[k]]
      /\ f[t[N]] = 0
      /\ \A j, k \in 1 .. N : t[j] = t[k] => j = k
  BY DEF Round
<1>3. \A k \in 1 .. N : t[k] \in Nodes(i)  BY <1>2, ElementOfSeq
<1>4. RotatedTo(t, LAMBDA n : n = 0) = t
  <2>1. Len(t) >= 1  BY <1>1, <1>2
  <2> QED BY <1>2, <2>1, StartIsFirst
<1>5. /\ CityOf(0) = 0 /\ CityOf(1) = 0 /\ 0 \in Cities(i) /\ 0 \in Nodes(i)
      /\ 1 \in Nodes(i)
  <2>1. CityOf(2 * 0) = 0 /\ CityOf(2 * 0 + 1) = 0  BY CityOfNode
  <2>2. Cities(i) = 0 .. m  BY Shape
  <2> QED BY <1>1, <2>1, <2>2
<1>6. {In(o, 0), Out(o, 0)} = {0, 1} /\ In(o, 0) # Out(o, 0)
  <2>1. o \in [Cities(i) -> BOOLEAN]  BY DEF Follows
  <2>2. \A c \in Cities(i) :
          {In(o, c), Out(o, c)} = {2 * c, 2 * c + 1} /\ In(o, c) # Out(o, c)
    BY <2>1, CityEnds
  <2>3. 2 * 0 = 0 /\ 2 * 0 + 1 = 1 /\ 0 \in Cities(i)  BY <1>5
  <2> QED BY <2>2, <2>3
<1>7. IsIn(o, 0) \/ IsOut(o, 0)  BY <1>5, NodeSteps
<1>8. t[2] = f[0]
  <2>1. 1 \in 1 .. N - 1 /\ 1 + 1 = 2  BY <1>1
  <2> QED BY <1>2, <2>1
<1> HIDE DEF N, m
<1>9. CASE IsOut(o, 0)
  <2>1. \A k \in 1 .. m + 1 : IsOut(o, t[2 * k - 1]) /\ IsIn(o, t[2 * k])
    BY <1>9, Alternates DEF m
  <2>2. t[2] # 1
    <3>1. CityOf(f[0]) = succ[CityOf(0)] /\ succ[CityOf(0)] # CityOf(0)
      BY <1>5, <1>9, NodeSteps
    <3> QED BY <1>5, <1>8, <3>1
  <2>3. Oriented(t) = t  BY <1>4, <2>2 DEF Oriented
  <2>4. ASSUME NEW k \in 1 .. m + 1
        PROVE  /\ f[t[2 * k - 1]] = t[2 * k]
               /\ CityOf(f[t[2 * k]]) = CityOf(t[2 * k])
    <3>1. 2 * k - 1 \in 1 .. N - 1 /\ 2 * k \in 1 .. N /\ (2 * k - 1) + 1 = 2 * k
      BY <1>1 DEF N
    <3>2. f[t[2 * k - 1]] = t[2 * k]  BY <1>2, <3>1
    <3>3. t[2 * k] \in Nodes(i) /\ IsIn(o, t[2 * k])  BY <1>3, <2>1, <3>1
    <3> QED BY <3>2, <3>3, NodeSteps
  <2>5. ASSUME NEW k \in 1 .. m
        PROVE  CityOf(t[2 * k + 1]) = CityOf(t[2 * k])
    <3>1. k \in 1 .. m + 1 /\ 2 * k \in 1 .. N - 1  BY <1>1 DEF N
    <3>2. t[2 * k + 1] = f[t[2 * k]]  BY <1>2, <3>1
    <3> QED BY <2>4, <3>1, <3>2
  <2>6. t[N] = 1
    <3>1. m + 1 \in 1 .. m + 1 /\ 2 * (m + 1) = N /\ N \in 1 .. N  BY <1>1 DEF N
    <3>2. IsIn(o, t[N]) /\ CityOf(f[t[N]]) = CityOf(t[N])  BY <2>1, <2>4, <3>1
    <3>3. t[N] = In(o, 0)  BY <1>2, <1>5, <3>2 DEF IsIn
    <3>4. 0 = Out(o, 0)  BY <1>5, <1>9 DEF IsOut
    <3> QED BY <1>6, <3>3, <3>4
  <2>7. Forward(i, f, t)  BY <2>4 DEF Forward, m
  <2>8. Paired(i, t)  BY <1>2, <2>5, <2>6 DEF Paired, m, N
  <2> QED BY <2>3, <2>7, <2>8 DEF Way
<1>10. CASE IsIn(o, 0)
  <2>1. \A k \in 1 .. m + 1 : IsIn(o, t[2 * k - 1]) /\ IsOut(o, t[2 * k])
    BY <1>10, Alternates DEF m
  <2>2. t[2] = 1
    <3>1. IsOut(o, f[0]) /\ CityOf(f[0]) = CityOf(0)  BY <1>5, <1>10, NodeSteps
    <3>2. f[0] = Out(o, 0) /\ 0 = In(o, 0)  BY <1>5, <1>10, <3>1 DEF IsIn, IsOut
    <3> QED BY <1>6, <1>8, <3>2
  <2> DEFINE u == Oriented(t)
  <2>3. u = <<0>> \o Reverse(Tail(t))
    <3>1. Len(t) > 1  BY <1>1, <1>2 DEF N
    <3> QED BY <1>2, <1>4, <2>2, <3>1 DEF Oriented
  <2> HIDE DEF u
  <2>4. /\ u \in Seq(Nodes(i)) /\ Len(u) = N /\ u[1] = 0
        /\ \A k \in 2 .. N : u[k] = t[N + 2 - k]
    <3> DEFINE a == Tail(t)
               r == Reverse(a)
    <3>1. a \in Seq(Nodes(i)) /\ Len(a) = N - 1 /\ \A k \in 1 .. N - 1 : a[k] = t[k + 1]
      <4>1. t # << >>  BY <1>1, <1>2 DEF N
      <4> QED BY <1>2, <4>1, HeadTailProperties
    <3> HIDE DEF a
    <3>2. r = [k \in 1 .. N - 1 |-> a[(N - 1 - k) + 1]]  BY <3>1 DEF Reverse
    <3> HIDE DEF r
    <3>3. N - 1 \in Nat /\ N \in Nat  BY <1>1 DEF N
    <3>4. ASSUME NEW k \in 1 .. N - 1 PROVE r[k] = t[N + 1 - k] /\ r[k] \in Nodes(i)
      <4>1. (N - 1 - k) + 1 \in 1 .. N - 1 /\ ((N - 1 - k) + 1) + 1 = N + 1 - k
            /\ N + 1 - k \in 1 .. N
        BY <3>3
      <4> QED BY <1>3, <3>1, <3>2, <4>1
    <3>5. r \in Seq(Nodes(i)) /\ Len(r) = N - 1
      <4>1. r \in [1 .. N - 1 -> Nodes(i)]  BY <3>2, <3>4
      <4> QED BY <3>3, <4>1
    <3>6. u = <<0>> \o r  BY <2>3 DEF r, a
    <3>7. <<0>> \in Seq(Nodes(i)) /\ Len(<<0>>) = 1  BY <1>5
    <3>8. /\ u \in Seq(Nodes(i)) /\ Len(u) = 1 + (N - 1)
          /\ \A k \in 1 .. 1 + (N - 1) : u[k] = IF k <= 1 THEN <<0>>[k] ELSE r[k - 1]
      BY <3>5, <3>6, <3>7, ConcatProperties
    <3>9. 1 + (N - 1) = N  BY <3>3
    <3>10. u[1] = 0
      <4>1. 1 \in 1 .. N  BY <1>1 DEF N
      <4> QED BY <3>8, <3>9, <4>1
    <3>11. ASSUME NEW k \in 2 .. N PROVE u[k] = t[N + 2 - k]
      <4>1. k \in 1 .. N /\ ~(k <= 1) /\ k - 1 \in 1 .. N - 1 /\ N + 1 - (k - 1) = N + 2 - k
        BY <3>3
      <4> QED BY <3>4, <3>8, <3>9, <4>1
    <3> QED BY <3>8, <3>9, <3>10, <3>11
  <2>5. u[N] = 1
    <3>1. N \in 2 .. N /\ N + 2 - N = 2  BY <1>1 DEF N
    <3> QED BY <2>2, <2>4, <3>1
  <2>6. ASSUME NEW j \in 1 .. N, NEW k \in 1 .. N, u[j] = u[k] PROVE j = k
    <3> DEFINE at(l) == IF l = 1 THEN 1 ELSE N + 2 - l
    <3>1. \A l \in 1 .. N : u[l] = t[at(l)] /\ at(l) \in 1 .. N
      <4> TAKE l \in 1 .. N
      <4>1. CASE l = 1  BY <1>1, <1>2, <2>4, <4>1
      <4>2. CASE l # 1
        <5>1. l \in 2 .. N /\ N + 2 - l \in 1 .. N  BY <1>1, <4>2 DEF N
        <5> QED BY <2>4, <4>2, <5>1
      <4> QED BY <4>1, <4>2
    <3>2. at(j) = at(k)
      <4> HIDE DEF at
      <4>1. /\ t[at(j)] = t[at(k)]
            /\ at(j) \in 1 .. N /\ at(k) \in 1 .. N
        BY <2>6, <3>1
      <4> QED BY <1>2, <4>1
    <3> QED BY <1>1, <3>2 DEF N
  <2>7. ASSUME NEW k \in 1 .. m
        PROVE  CityOf(u[2 * k + 1]) = CityOf(u[2 * k])
    <3>1. /\ 2 * k \in 2 .. N /\ 2 * k + 1 \in 2 .. N
          /\ N + 2 - 2 * k = 2 * (m + 2 - k) /\ N + 2 - (2 * k + 1) = 2 * (m + 2 - k) - 1
          /\ m + 2 - k \in 1 .. m + 1
          /\ 2 * (m + 2 - k) - 1 \in 1 .. N - 1
          /\ (2 * (m + 2 - k) - 1) + 1 = 2 * (m + 2 - k)
      BY <1>1 DEF N
    <3> DEFINE j == m + 2 - k
    <3>2. u[2 * k] = t[2 * j] /\ u[2 * k + 1] = t[2 * j - 1]  BY <2>4, <3>1
    <3>3. t[2 * j] = f[t[2 * j - 1]]
      <4> DEFINE l == 2 * j - 1
      <4>1. l \in 1 .. N - 1 /\ l + 1 = 2 * j  BY <3>1
      <4> HIDE DEF j, l
      <4>2. t[l + 1] = f[t[l]]  BY <1>2, <4>1
      <4>3. t[2 * j] = f[t[l]]  BY <4>1, <4>2
      <4> QED BY <4>3 DEF l
    <3>4. IsIn(o, t[2 * j - 1]) /\ t[2 * j - 1] \in Nodes(i)
      <4>1. 2 * j - 1 \in 1 .. N  BY <1>1 DEF N
      <4> QED BY <1>3, <2>1, <3>1, <4>1
    <3> HIDE DEF j
    <3> QED BY <3>2, <3>3, <3>4, NodeSteps
  <2>8. ASSUME NEW k \in 1 .. m + 1
        PROVE  /\ f[u[2 * k]] = u[2 * k - 1]
               /\ CityOf(f[u[2 * k - 1]]) = CityOf(u[2 * k - 1])
    <3>1. CASE k = 1
      <4>1. 2 * k = 2 /\ 2 * k - 1 = 1 /\ 2 \in 2 .. N /\ N + 2 - 2 = N
        BY <1>1, <3>1 DEF N
      <4>2. u[2] = t[N] /\ u[1] = 0  BY <2>4, <4>1
      <4>3. CityOf(f[0]) = CityOf(0)  BY <1>5, <1>8, <2>2
      <4> QED BY <1>2, <4>1, <4>2, <4>3
    <3>2. CASE k # 1
      <4> DEFINE j == m + 2 - k
      <4>1. /\ 2 * k \in 2 .. N /\ 2 * k - 1 \in 2 .. N
            /\ N + 2 - 2 * k = 2 * j /\ N + 2 - (2 * k - 1) = 2 * j + 1
            /\ 2 * j + 1 = 2 * (j + 1) - 1 /\ j + 1 \in 1 .. m + 1
            /\ 2 * j \in 1 .. N - 1 /\ 2 * j + 1 \in 1 .. N
        BY <1>1, <3>2 DEF N
      <4> HIDE DEF j
      <4>2. u[2 * k] = t[2 * j] /\ u[2 * k - 1] = t[2 * j + 1]  BY <2>4, <4>1
      <4>3. t[2 * j + 1] = f[t[2 * j]]  BY <1>2, <4>1
      <4>4. IsIn(o, t[2 * j + 1]) /\ t[2 * j + 1] \in Nodes(i)  BY <1>3, <2>1, <4>1
      <4> QED BY <4>2, <4>3, <4>4, NodeSteps
    <3> QED BY <3>1, <3>2
  <2>9. Backward(i, f, u)  BY <2>8 DEF Backward, m
  <2>10. Paired(i, u)  BY <2>4, <2>5, <2>6, <2>7 DEF Paired, m, N
  <2>11. ~IsOut(o, 0)  BY <1>5, <1>10, NodeSteps
  <2> QED BY <2>9, <2>10, <2>11 DEF Way, u
<1> QED BY <1>7, <1>9, <1>10

-----------------------------------------------------------------------------
(* The order of the cities *)

(* A city has two nodes. *)
LEMMA TwoOfCity ==
  ASSUME NEW a \in Nat, NEW b \in Nat, NEW c \in Nat,
         CityOf(a) = CityOf(b), CityOf(b) = CityOf(c), a # b, b # c
  PROVE  a = c
<1>1. /\ a = 2 * CityOf(a) \/ a = 2 * CityOf(a) + 1
      /\ b = 2 * CityOf(b) \/ b = 2 * CityOf(b) + 1
      /\ c = 2 * CityOf(c) \/ c = 2 * CityOf(c) + 1
  BY CityOfNode
<1> QED BY <1>1

LEMMA PairedNodes ==
  ASSUME NEW i \in Instances, NEW u, Paired(i, u)
  PROVE  /\ \A k \in 1 .. 2 * M(i) + 2 : u[k] \in Nodes(i) /\ u[k] \in Nat
         /\ \A k \in 1 .. M(i) : /\ CityOf(u[2 * k]) \in 1 .. M(i)
                                 /\ u[2 * k] \in Nodes(i) /\ u[2 * k + 1] \in Nodes(i)
         /\ \A j, k \in 1 .. M(i) : CityOf(u[2 * j]) = CityOf(u[2 * k]) => j = k
         /\ CityOf(0) = 0 /\ CityOf(1) = 0
<1> DEFINE m == M(i)
           N == 2 * m + 2
<1>1. m \in Nat /\ m >= 1 /\ N \in Nat /\ Nodes(i) = 0 .. 2 * m + 1
  BY Shape
<1>2. /\ u \in Seq(Nodes(i)) /\ Len(u) = N
      /\ u[1] = 0 /\ u[N] = 1
      /\ \A j, k \in 1 .. N : u[j] = u[k] => j = k
      /\ \A k \in 1 .. m : CityOf(u[2 * k + 1]) = CityOf(u[2 * k])
  BY DEF Paired
<1>3. CityOf(0) = 0 /\ CityOf(1) = 0
  <2>1. CityOf(2 * 0) = 0 /\ CityOf(2 * 0 + 1) = 0  BY CityOfNode
  <2> QED BY <2>1
<1>4. \A k \in 1 .. N : u[k] \in Nodes(i) /\ u[k] \in Nat
  BY <1>1, <1>2, ElementOfSeq
<1> HIDE DEF m, N
<1>5. \A k \in 1 .. m : 2 * k \in 2 .. N - 1 /\ 2 * k + 1 \in 2 .. N - 1
                        /\ 2 * k \in 1 .. N /\ 2 * k + 1 \in 1 .. N /\ 2 * k + 1 # 2 * k
  BY <1>1 DEF N
<1>6. 1 \in 1 .. N /\ N \in 1 .. N /\ 1 # N  BY <1>1 DEF N
<1>7. ASSUME NEW k \in 1 .. m
      PROVE  CityOf(u[2 * k]) \in 1 .. m
  <2>1. u[2 * k] \in Nodes(i) /\ u[2 * k] \in Nat  BY <1>4, <1>5
  <2>2. CityOf(u[2 * k]) \in Nat /\ CityOf(u[2 * k]) <= m
    <3> DEFINE n == u[2 * k]
    <3>1. /\ n \in 0 .. 2 * m + 1 /\ CityOf(n) \in Nat
          /\ n = 2 * CityOf(n) \/ n = 2 * CityOf(n) + 1
      BY <1>1, <2>1, CityOfNode
    <3> HIDE DEF n
    <3>2. CityOf(n) <= m  BY <1>1, <3>1
    <3> QED BY <3>1, <3>2 DEF n
  <2>3. CityOf(u[2 * k]) # 0
    <3> SUFFICES ASSUME CityOf(u[2 * k]) = 0 PROVE FALSE  OBVIOUS
    <3>1. 2 * k \in 1 .. N /\ 2 * k # 1 /\ 2 * k # N
      <4>1. 2 * k \in 2 .. N - 1  BY <1>5
      <4> QED BY <1>1, <4>1
    <3>2. u[2 * k] # 0 /\ u[2 * k] # 1  BY <1>2, <1>6, <3>1
    <3> QED BY <1>3, <2>1, <3>2, TwoOfCity
  <2> QED BY <1>1, <2>2, <2>3
<1>8. ASSUME NEW j \in 1 .. m, NEW k \in 1 .. m, CityOf(u[2 * j]) = CityOf(u[2 * k])
      PROVE  j = k
  <2> SUFFICES ASSUME j # k PROVE FALSE  OBVIOUS
  <2>1. /\ 2 * j \in 1 .. N /\ 2 * k \in 1 .. N /\ 2 * k + 1 \in 1 .. N
        /\ 2 * j # 2 * k /\ 2 * j # 2 * k + 1 /\ 2 * k + 1 # 2 * k
    <3>1. 2 * j # 2 * k /\ 2 * j # 2 * k + 1  OBVIOUS
    <3> QED BY <1>5, <3>1
  <2>2. u[2 * j] # u[2 * k] /\ u[2 * k] # u[2 * k + 1] /\ u[2 * j] # u[2 * k + 1]
    BY <1>2, <2>1
  <2>3. CityOf(u[2 * k + 1]) = CityOf(u[2 * k])  BY <1>2
  <2>4. u[2 * j] \in Nat /\ u[2 * k] \in Nat /\ u[2 * k + 1] \in Nat  BY <1>4, <2>1
  <2> QED BY <1>8, <2>2, <2>3, <2>4, TwoOfCity
<1> QED BY <1>3, <1>4, <1>5, <1>7, <1>8 DEF m, N

(* The reading of a tour, city by city, as the specification writes it.    *)
Reads(L, u) ==
  L = [k \in 0 .. Len(u) |->
         IF k = 0 THEN << >>
         ELSE IF Seen(L[k - 1], u[k]) THEN L[k - 1]
         ELSE Append(L[k - 1], Visit(u[k]))]

LEMMA ReadingExists ==
  ASSUME NEW u, Len(u) \in Nat
  PROVE  \E L : Reads(L, u) /\ Letour(u) = L[Len(u)]
<1> DEFINE N == Len(u)
           Once(f) == [k \in 0 .. N |->
                         IF k = 0 THEN << >>
                         ELSE IF Seen(f[k - 1], u[k]) THEN f[k - 1]
                         ELSE Append(f[k - 1], Visit(u[k]))]
           Right(f, n) == \A k \in 0 .. N : k <= n => f[k] = Once(f)[k]
           T == {n \in Nat : \E f : Right(f, n)}
<1>0. N \in Nat  OBVIOUS
<1> HIDE DEF N
<1>1. 0 \in T
  <2> DEFINE g == [k \in 0 .. N |-> << >>]
  <2>1. Right(g, 0)  BY <1>0
  <2> HIDE DEF Right, g
  <2> QED BY <2>1
<1>2. ASSUME NEW n \in Nat, n \in T PROVE n + 1 \in T
  <2>1. PICK f : Right(f, n)  BY <1>2
  <2> DEFINE h == Once(f)
  <2>2. ASSUME NEW k \in 0 .. N, k <= n + 1 PROVE h[k] = Once(h)[k]
    <3>1. CASE k = 0  BY <3>1
    <3>2. CASE k # 0
      <4>1. k - 1 \in 0 .. N /\ k - 1 <= n  BY <1>0, <2>2, <3>2
      <4>2. f[k - 1] = h[k - 1]  BY <2>1, <4>1
      <4>3. h[k] = IF Seen(f[k - 1], u[k]) THEN f[k - 1] ELSE Append(f[k - 1], Visit(u[k]))
        BY <3>2
      <4>4. Once(h)[k] = IF Seen(h[k - 1], u[k]) THEN h[k - 1] ELSE Append(h[k - 1], Visit(u[k]))
        <5> HIDE DEF h
        <5> QED BY <3>2
      <4> HIDE DEF h, Once
      <4> QED BY <4>2, <4>3, <4>4
    <3> QED BY <3>1, <3>2
  <2>3. Right(h, n + 1)
    <3> HIDE DEF h, Once
    <3> QED BY <2>2
  <2> HIDE DEF Right
  <2> QED BY <2>3
<1>3. N \in T
  <2> HIDE DEF T
  <2> QED BY <1>0, <1>1, <1>2, EveryNatural
<1>4. PICK g : Right(g, N)
  <2> HIDE DEF Right
  <2> QED BY <1>3
<1> DEFINE h == Once(g)
<1>5. \A k \in 0 .. N : g[k] = h[k]  BY <1>0, <1>4
<1>6. ASSUME NEW k \in 0 .. N
      PROVE  h[k] = IF k = 0 THEN << >>
                    ELSE IF Seen(h[k - 1], u[k]) THEN h[k - 1]
                    ELSE Append(h[k - 1], Visit(u[k]))
  <2>1. CASE k = 0  BY <2>1
  <2>2. CASE k # 0
    <3>1. k - 1 \in 0 .. N  BY <1>0, <2>2
    <3>2. g[k - 1] = h[k - 1]  BY <1>5, <3>1
    <3>3. h[k] = IF Seen(g[k - 1], u[k]) THEN g[k - 1] ELSE Append(g[k - 1], Visit(u[k]))
      BY <2>2
    <3> HIDE DEF h
    <3> QED BY <2>2, <3>2, <3>3
  <2> QED BY <2>1, <2>2
<1>7. h = [k \in 0 .. N |-> h[k]]  OBVIOUS
<1> HIDE DEF h
<1>8. Reads(h, u)  BY <1>6, <1>7 DEF Reads, N
<1> DEFINE L == CHOOSE L : Reads(L, u)
<1>9. Reads(L, u)  BY <1>8
<1>10. Letour(u) = L[Len(u)]  BY DEF Letour, Reads
<1> HIDE DEF L
<1> QED BY <1>9, <1>10

Reading(i, u) == [k \in 1 .. M(i) |-> Visit(u[2 * k])]

(* The dock and the first k cities after it. *)
ReadUpTo(u, k) == [j \in 1 .. k + 1 |-> Visit(IF j = 1 THEN u[1] ELSE u[2 * (j - 1)])]

LEMMA LetourOfPaired ==
  ASSUME NEW i \in Instances, NEW u, Paired(i, u)
  PROVE  Letour(u) = ReadUpTo(u, M(i))
<1> DEFINE m == M(i)
           N == 2 * m + 2
           W(k) == ReadUpTo(u, k)
<1>1. m \in Nat /\ m >= 1 /\ N \in Nat  BY Shape
<1>2. /\ Len(u) = N /\ u[1] = 0 /\ u[N] = 1
      /\ \A k \in 1 .. m : CityOf(u[2 * k + 1]) = CityOf(u[2 * k])
  BY DEF Paired
<1>3. /\ \A k \in 1 .. m : CityOf(u[2 * k]) \in 1 .. m
      /\ \A j, k \in 1 .. m : CityOf(u[2 * j]) = CityOf(u[2 * k]) => j = k
      /\ CityOf(0) = 0 /\ CityOf(1) = 0
  BY PairedNodes
<1> HIDE DEF m, N
<1>4. PICK L : Reads(L, u) /\ Letour(u) = L[Len(u)]
  <2>1. Len(u) \in Nat  BY <1>1, <1>2
  <2> QED BY <2>1, ReadingExists
<1>5. /\ L[0] = << >>
      /\ \A k \in 1 .. N : L[k] = IF Seen(L[k - 1], u[k]) THEN L[k - 1]
                                  ELSE Append(L[k - 1], Visit(u[k]))
  <2>1. /\ 0 \in 0 .. N /\ Len(u) = N
        /\ \A k \in 1 .. N : k \in 0 .. N /\ k # 0
    BY <1>1, <1>2
  <2> QED BY <1>4, <2>1 DEF Reads
(* Whom ReadUpTo has seen. *)
<1>6. ASSUME NEW k \in 0 .. m, NEW n
      PROVE  Seen(W(k), n) <=> \/ CityOf(n) = 0
                               \/ \E j \in 1 .. k : CityOf(u[2 * j]) = CityOf(n)
  <2>1. ToSet(W(k)) = {W(k)[j] : j \in 1 .. k + 1}  BY DEF ToSet, ReadUpTo
  <2>2. \A j \in 1 .. k + 1 :
          W(k)[j].city = CityOf(IF j = 1 THEN u[1] ELSE u[2 * (j - 1)])
    BY DEF ReadUpTo, Visit
  <2>3. Seen(W(k), n) <=> \E j \in 1 .. k + 1 : W(k)[j].city = CityOf(n)
    BY <2>1 DEF Seen
  <2>4. ASSUME NEW j \in 1 .. k + 1, W(k)[j].city = CityOf(n)
        PROVE  CityOf(n) = 0 \/ \E l \in 1 .. k : CityOf(u[2 * l]) = CityOf(n)
    <3>1. CASE j = 1  BY <1>2, <1>3, <2>2, <2>4, <3>1
    <3>2. CASE j # 1
      <4>1. j - 1 \in 1 .. k  BY <3>2
      <4>2. CityOf(u[2 * (j - 1)]) = CityOf(n)  BY <2>2, <2>4, <3>2
      <4> QED BY <4>1, <4>2
    <3> QED BY <3>1, <3>2
  <2>5. ASSUME CityOf(n) = 0 PROVE W(k)[1].city = CityOf(n) /\ 1 \in 1 .. k + 1
    BY <1>2, <1>3, <2>2, <2>5
  <2>6. ASSUME NEW l \in 1 .. k, CityOf(u[2 * l]) = CityOf(n)
        PROVE  W(k)[l + 1].city = CityOf(n) /\ l + 1 \in 1 .. k + 1
    <3>1. l + 1 \in 1 .. k + 1 /\ l + 1 # 1 /\ (l + 1) - 1 = l  OBVIOUS
    <3> QED BY <2>2, <2>6, <3>1
  <2> QED BY <2>3, <2>4, <2>5, <2>6
<1>7. \A n : Append(<< >>, Visit(u[1])) = W(0)
  <2>1. W(0) = [j \in 1 .. 1 |-> Visit(u[1])]
    <3>1. \A j \in 1 .. 0 + 1 : j = 1  OBVIOUS
    <3>2. W(0) = [j \in 1 .. 0 + 1 |-> Visit(u[1])]  BY <3>1 DEF ReadUpTo
    <3> QED BY <3>2
  <2> DEFINE v == Visit(u[1])
  <2> HIDE DEF v
  <2>2. Append(<< >>, v) = [j \in 1 .. 1 |-> v]  OBVIOUS
  <2> QED BY <2>1, <2>2 DEF v
<1>8. ASSUME NEW k \in 0 .. m - 1
      PROVE  Append(W(k), Visit(u[2 * (k + 1)])) = W(k + 1)
  <2> DEFINE V(j) == Visit(IF j = 1 THEN u[1] ELSE u[2 * (j - 1)])
             a == [j \in 1 .. k + 1 |-> V(j)]
  <2>1. W(k) = a  BY DEF ReadUpTo
  <2>2. W(k + 1) = [j \in 1 .. (k + 1) + 1 |-> V(j)]  BY DEF ReadUpTo
  <2>3. V((k + 1) + 1) = Visit(u[2 * (k + 1)])
    <3>1. (k + 1) + 1 # 1 /\ ((k + 1) + 1) - 1 = k + 1  BY <1>1
    <3> QED BY <3>1
  <2> DEFINE v == Visit(u[2 * (k + 1)])
             b == [j \in 1 .. (k + 1) + 1 |-> V(j)]
  <2> HIDE DEF V, v
  <2>4. Append(a, v) = [j \in 1 .. (k + 1) + 1 |-> IF j = (k + 1) + 1 THEN v ELSE a[j]]
    <3> DEFINE S == {V(j) : j \in 1 .. k + 1} \cup {v}
               p == Append(a, v)
    <3>1. a \in Seq(S) /\ Len(a) = k + 1 /\ v \in S  BY <1>1
    <3> HIDE DEF a, S
    <3>2. /\ p \in Seq(S) /\ Len(p) = (k + 1) + 1
          /\ \A j \in 1 .. k + 1 : p[j] = a[j]
          /\ p[(k + 1) + 1] = v
      BY <3>1, AppendProperties
    <3>3. p = [j \in 1 .. (k + 1) + 1 |-> p[j]]
      <4> HIDE DEF p
      <4> QED BY <3>2
    <3> HIDE DEF p
    <3>4. \A j \in 1 .. (k + 1) + 1 : j # (k + 1) + 1 => j \in 1 .. k + 1  BY <1>1
    <3>5. \A j \in 1 .. (k + 1) + 1 : p[j] = IF j = (k + 1) + 1 THEN v ELSE a[j]
      BY <3>2, <3>4
    <3>6. p = [j \in 1 .. (k + 1) + 1 |-> IF j = (k + 1) + 1 THEN v ELSE a[j]]
      BY <3>3, <3>5
    <3> QED BY <3>6 DEF p
  <2>5. \A j \in 1 .. (k + 1) + 1 : j # (k + 1) + 1 => j \in 1 .. k + 1  BY <1>1
  <2>6. \A j \in 1 .. (k + 1) + 1 : b[j] = IF j = (k + 1) + 1 THEN v ELSE a[j]
    BY <2>3, <2>5 DEF v
  <2>7. b = [j \in 1 .. (k + 1) + 1 |-> b[j]]  OBVIOUS
  <2> HIDE DEF a, b
  <2>8. Append(a, v) = b  BY <2>4, <2>6, <2>7
  <2> QED BY <2>1, <2>2, <2>8 DEF b, v
<1> HIDE DEF W
<1> DEFINE T == {k \in 0 .. m : L[2 * k + 1] = W(k)}
<1>9. 0 \in T
  <2>1. 1 \in 1 .. N /\ 1 - 1 = 0 /\ 2 * 0 + 1 = 1 /\ 0 \in 0 .. m  BY <1>1 DEF N
  <2>2. ~Seen(<< >>, u[1])  BY DEF Seen, ToSet
  <2>3. L[1] = Append(<< >>, Visit(u[1]))  BY <1>5, <2>1, <2>2
  <2> QED BY <1>7, <2>1, <2>3
<1>10. ASSUME NEW k \in 0 .. m - 1, k \in T PROVE k + 1 \in T
  <2>1. /\ k + 1 \in 1 .. m /\ k \in 0 .. m /\ k + 1 \in 0 .. m
        /\ 2 * (k + 1) \in 1 .. N /\ 2 * (k + 1) - 1 = 2 * k + 1
        /\ 2 * (k + 1) + 1 \in 1 .. N /\ (2 * (k + 1) + 1) - 1 = 2 * (k + 1)
    BY <1>1 DEF N
  <2>2. L[2 * k + 1] = W(k)  BY <1>10
  <2>3. ~Seen(W(k), u[2 * (k + 1)])
    <3>1. CityOf(u[2 * (k + 1)]) # 0
      <4>1. CityOf(u[2 * (k + 1)]) \in 1 .. m  BY <1>3, <2>1
      <4> QED BY <1>1, <4>1
    <3>2. ASSUME NEW j \in 1 .. k, CityOf(u[2 * j]) = CityOf(u[2 * (k + 1)]) PROVE FALSE
      <4>1. j \in 1 .. m /\ j # k + 1  BY <1>1
      <4> QED BY <1>3, <2>1, <3>2, <4>1
    <3> QED BY <1>6, <2>1, <3>1, <3>2
  <2>4. L[2 * (k + 1)] = W(k + 1)
    <3>1. L[2 * (k + 1)] = Append(W(k), Visit(u[2 * (k + 1)]))
      BY <1>5, <2>1, <2>2, <2>3
    <3> QED BY <1>8, <3>1
  <2>5. Seen(W(k + 1), u[2 * (k + 1) + 1])
    <3>1. CityOf(u[2 * (k + 1)]) = CityOf(u[2 * (k + 1) + 1]) /\ k + 1 \in 1 .. k + 1
      BY <1>2, <2>1
    <3> QED BY <1>6, <2>1, <3>1
  <2>6. L[2 * (k + 1) + 1] = W(k + 1)  BY <1>5, <2>1, <2>4, <2>5
  <2> QED BY <2>1, <2>6
<1>11. m \in T
  <2> DEFINE U == {n \in Nat : n <= m => n \in T}
  <2>1. 0 \in U  BY <1>9
  <2>2. ASSUME NEW n \in Nat, n \in U PROVE n + 1 \in U
    <3> SUFFICES ASSUME n + 1 <= m PROVE n + 1 \in T  OBVIOUS
    <3>1. n \in 0 .. m - 1 /\ n <= m  BY <1>1
    <3> HIDE DEF T
    <3> QED BY <1>10, <2>2, <3>1
  <2>3. m \in U
    <3> HIDE DEF U
    <3> QED BY <1>1, <2>1, <2>2, EveryNatural
  <2> QED BY <1>1, <2>3
<1>12. L[N] = W(m)
  <2>1. N \in 1 .. N /\ N - 1 = 2 * m + 1 /\ m \in 0 .. m  BY <1>1 DEF N
  <2>2. L[N - 1] = W(m)  BY <1>11, <2>1
  <2>3. Seen(W(m), u[N])  BY <1>2, <1>3, <1>6, <2>1
  <2> QED BY <1>5, <2>1, <2>2, <2>3
<1> QED BY <1>2, <1>4, <1>12 DEF m, W

LEMMA OrderOfPaired ==
  ASSUME NEW i \in Instances, NEW u, Paired(i, u)
  PROVE  Tail(CityTour(u)) = Reading(i, u)
<1> DEFINE m == M(i)
           w == ReadUpTo(u, m)
           V(j) == Visit(IF j = 1 THEN u[1] ELSE u[2 * (j - 1)])
           K == {k \in DOMAIN w : w[k].city = 0}
<1>1. m \in Nat /\ m >= 1  BY Shape
<1>2. /\ u[1] = 0 /\ CityOf(0) = 0
      /\ \A k \in 1 .. m : CityOf(u[2 * k]) \in 1 .. m
  BY PairedNodes DEF Paired
<1>3. Letour(u) = w  BY LetourOfPaired
<1>4. w = [j \in 1 .. m + 1 |-> V(j)]  BY DEF ReadUpTo
<1> HIDE DEF m, w
<1>5. /\ w \in Seq({V(j) : j \in 1 .. m + 1}) /\ Len(w) = m + 1
      /\ DOMAIN w = 1 .. m + 1
  <2> HIDE DEF V
  <2> QED BY <1>1, <1>4
<1>6. K = {1}
  <2>1. w[1].city = 0 /\ 1 \in 1 .. m + 1  BY <1>1, <1>2, <1>4 DEF Visit
  <2>2. ASSUME NEW k \in 1 .. m + 1, k # 1 PROVE w[k].city # 0
    <3>1. k - 1 \in 1 .. m  BY <1>1, <2>2
    <3>2. w[k].city = CityOf(u[2 * (k - 1)])  BY <1>4, <2>2 DEF Visit
    <3>3. CityOf(u[2 * (k - 1)]) \in 1 .. m  BY <1>2, <3>1
    <3> QED BY <1>1, <3>2, <3>3
  <2> QED BY <1>5, <2>1, <2>2
<1>7. Min(K) = 1
  <2>1. K \subseteq Nat /\ K # {}  BY <1>6
  <2>2. Min(K) \in K
    <3> HIDE DEF K
    <3> QED BY <2>1, MinOfNumbers
  <2> QED BY <1>6, <2>2
<1>8. CityTour(u) = SubSeq(w, Min(K), Len(w)) \o SubSeq(w, 1, Min(K) - 1)
  BY <1>3, <1>6 DEF CityTour, RotatedTo
<1> HIDE DEF K, V
<1>9. CityTour(u) = w
  <2>1. CityTour(u) = SubSeq(w, 1, Len(w)) \o SubSeq(w, 1, 0)  BY <1>7, <1>8
  <2>2. SubSeq(w, 1, 0) = << >> /\ SubSeq(w, 1, Len(w)) = w  BY <1>5
  <2> QED BY <1>5, <2>1, <2>2
<1>10. Tail(w) = [k \in 1 .. m |-> w[k + 1]]
  <2> DEFINE S == {V(j) : j \in 1 .. m + 1}
             p == Tail(w)
  <2>1. Len(w) - 1 = m /\ w # << >> /\ w \in Seq(S)  BY <1>1, <1>5
  <2> HIDE DEF S
  <2>2. p \in Seq(S) /\ Len(p) = m /\ \A k \in 1 .. m : p[k] = w[k + 1]
    BY <2>1, HeadTailProperties
  <2> HIDE DEF p
  <2>3. p = [k \in 1 .. m |-> p[k]]  BY <2>2
  <2>4. p = [k \in 1 .. m |-> w[k + 1]]  BY <2>2, <2>3
  <2> QED BY <2>4 DEF p
<1>11. \A k \in 1 .. m : w[k + 1] = Visit(u[2 * k])
  <2> TAKE k \in 1 .. m
  <2>1. k + 1 \in 1 .. m + 1 /\ k + 1 # 1 /\ (k + 1) - 1 = k  BY <1>1
  <2>2. w[k + 1] = V(k + 1)  BY <1>4, <2>1
  <2> QED BY <2>1, <2>2 DEF V
<1> QED BY <1>9, <1>10, <1>11 DEF Reading, m

(* A solution that is one tour: its way, and the order read off it.        *)
Whole(i, f) == Len(FindSubtour(f)) = Cardinality(Nodes(i))

LEMMA WholeIsWay ==
  ASSUME NEW i \in Instances, NEW f \in Assignments(i), Whole(i, f)
  PROVE  /\ Way(i, f, Oriented(FindSubtour(f)))
         /\ OrderOf(f) = Reading(i, Oriented(FindSubtour(f)))
<1>1. PICK o, succ : Follows(i, f, o, succ)  BY ArcsFollow
<1>2. Cycles(f, Nodes(i))  BY <1>1, FollowsCycles
<1>3. /\ Nodes(i) \subseteq Nat /\ Nodes(i) # {} /\ 0 \in Nodes(i)
      /\ \A d \in Nodes(i) : 0 <= d
      /\ Cardinality(Nodes(i)) = 2 * M(i) + 2
  BY Shape
<1> DEFINE t == FindSubtour(f)
<1>4. Round(t, f, 0, Nodes(i)) /\ Len(t) = 2 * M(i) + 2
  BY <1>2, <1>3, FoundIsWhole DEF Whole
<1> HIDE DEF t
<1>5. Way(i, f, Oriented(t))  BY <1>1, <1>4, OrientedIsWay
<1>6. Tail(CityTour(Oriented(t))) = Reading(i, Oriented(t))
  BY <1>5, OrderOfPaired DEF Way
<1> QED BY <1>5, <1>6 DEF OrderOf, t

-----------------------------------------------------------------------------
(* What a way costs *)

LEMMA TotalZero ==
  ASSUME NEW f, NEW S, IsFiniteSet(S), \A x \in S : f[x] = 0
  PROVE  Total(f, S) = 0
<1> DEFINE T == {U \in SUBSET S : Total(f, U) = 0}
<1>1. {} \in T  BY TotalEmpty
<1>2. ASSUME NEW U \in SUBSET S, NEW x \in S \ U, U \in T PROVE U \cup {x} \in T
  <2>1. IsFiniteSet(U)  BY FS_Subset
  <2>2. x \notin U /\ \A y \in U \cup {x} : f[y] \in Int  OBVIOUS
  <2>3. Total(f, U \cup {x}) = f[x] + Total(f, U)  BY <2>1, <2>2, TotalAdd
  <2>4. f[x] = 0 /\ Total(f, U) = 0  BY <1>2
  <2> QED BY <2>3, <2>4
<1>3. S \in T
  <2> HIDE DEF T
  <2> QED BY <1>1, <1>2, GrownSubset
<1> QED BY <1>3

(* A sum over the places e leads to, that is zero anywhere else. *)
LEMMA TotalImage ==
  ASSUME NEW I, IsFiniteSet(I), NEW S, IsFiniteSet(S), NEW e \in [I -> S],
         \A j, k \in I : e[j] = e[k] => j = k,
         NEW g, NEW h, \A k \in I : g[k] \in Int /\ h[e[k]] = g[k],
         \A x \in S : x \notin {e[k] : k \in I} => h[x] = 0
  PROVE  Total(h, S) = Total(g, I)
<1> DEFINE Img(U) == {e[k] : k \in U}
           T == {U \in SUBSET I : Total(h, Img(U)) = Total(g, U)}
<1>1. {} \in T
  <2>1. Img({}) = {}  OBVIOUS
  <2> QED BY <2>1, TotalEmpty
<1>2. ASSUME NEW U \in SUBSET I, NEW x \in I \ U, U \in T PROVE U \cup {x} \in T
  <2>1. IsFiniteSet(U) /\ IsFiniteSet(Img(U))
    <3>1. IsFiniteSet(U)  BY FS_Subset
    <3>2. Img(U) \subseteq S  OBVIOUS
    <3> HIDE DEF Img
    <3> QED BY <3>1, <3>2, FS_Subset
  <2>2. Img(U \cup {x}) = Img(U) \cup {e[x]} /\ e[x] \notin Img(U)  OBVIOUS
  <2>3. \A y \in Img(U) \cup {e[x]} : h[y] \in Int  OBVIOUS
  <2>4. \A y \in U \cup {x} : g[y] \in Int  OBVIOUS
  <2>5. Total(g, U \cup {x}) = g[x] + Total(g, U)  BY <2>1, <2>4, TotalAdd
  <2>6. Total(h, Img(U) \cup {e[x]}) = h[e[x]] + Total(h, Img(U))
    <3> HIDE DEF Img
    <3> QED BY <2>1, <2>2, <2>3, TotalAdd
  <2>7. h[e[x]] = g[x]  OBVIOUS
  <2>8. Total(h, Img(U)) = Total(g, U)  BY <1>2
  <2>9. Total(h, Img(U \cup {x})) = Total(g, U \cup {x})
    <3> HIDE DEF Img
    <3> QED BY <2>2, <2>5, <2>6, <2>7, <2>8
  <2>10. U \cup {x} \in SUBSET I  OBVIOUS
  <2> HIDE DEF Img
  <2> QED BY <2>9, <2>10
<1>3. I \in T
  <2> HIDE DEF T
  <2> QED BY <1>1, <1>2, GrownSubset
<1> DEFINE A == Img(I)
           B == S \ A
<1>4. A \subseteq S /\ \A x \in A : h[x] \in Int  OBVIOUS
<1>5. \A x \in B : h[x] = 0  OBVIOUS
<1>6. Total(h, A) = Total(g, I)  BY <1>3
<1> HIDE DEF Img, T
<1>7. IsFiniteSet(A) /\ IsFiniteSet(B)
  <2>1. B \subseteq S  OBVIOUS
  <2> HIDE DEF A, B
  <2> QED BY <1>4, <2>1, FS_Subset
<1>8. A \cap B = {} /\ A \cup B = S /\ \A x \in A \cup B : h[x] \in Int
  <2> HIDE DEF A
  <2>1. \A x \in B : h[x] \in Int  BY <1>5
  <2> QED BY <1>4, <2>1
<1>9. Total(g, I) \in Int
  <2>1. \A k \in I : g[k] \in Int  OBVIOUS
  <2> QED BY <2>1, TotalRemove
<1> HIDE DEF A, B
<1>10. Total(h, B) = 0  BY <1>5, <1>7, TotalZero
<1>11. Total(h, A \cup B) = Total(h, A) + Total(h, B)  BY <1>7, <1>8, TotalUnion
<1>12. Total(h, S) = Total(h, A) + Total(h, B)  BY <1>8, <1>11
<1> QED BY <1>6, <1>9, <1>10, <1>12

LEMMA LocationType ==
  ASSUME NEW i \in Instances, NEW n \in Nodes(i)
  PROVE  Location(i, n) \in Locations
<1> DEFINE c == CityOf(n)
<1>1. /\ NumStations(i) \in Nat /\ M(i) \in Nat /\ n \in 0 .. 2 * M(i) + 1
  BY Shape
<1>2. c \in Nat /\ (n = 2 * c \/ n = 2 * c + 1)  BY <1>1, CityOfNode
<1>3. /\ i.dock \in Locations /\ i.endDock \in Locations
      /\ i.start \in Seq(Locations) /\ i.end \in Seq(Locations)
      /\ Len(i.end) = Len(i.start)
  BY InstanceAssumption DEF InstanceType
<1>4. Candidates(i) \in Seq(Locations) /\ Len(Candidates(i)) \in Nat  BY CandidatesType
<1> HIDE DEF c
<1>5. CASE c = 0
  <2>1. c \notin Stations(i)  BY <1>5 DEF Stations
  <2>2. Location(i, n) = IF n = 0 THEN i.dock ELSE i.endDock
    BY <1>5, <2>1 DEF Location, c
  <2> QED BY <1>3, <2>2
<1>6. CASE c # 0 /\ c \in Stations(i)
  <2>1. c \in 1 .. Len(i.start)  BY <1>6 DEF Stations, NumStations
  <2>2. i.start[c] \in Locations /\ i.end[c] \in Locations
    BY <1>3, <2>1, ElementOfSeq
  <2> QED BY <1>6, <2>2 DEF Location, c
<1>7. CASE c # 0 /\ c \notin Stations(i)
  <2>1. c - NumStations(i) \in 1 .. Len(Candidates(i))
    <3>1. c <= M(i)  BY <1>1, <1>2
    <3>2. M(i) = NumStations(i) + Len(Candidates(i))  BY DEF M
    <3>3. c > NumStations(i)  BY <1>1, <1>2, <1>7 DEF Stations
    <3> QED BY <1>1, <1>2, <1>4, <3>1, <3>2, <3>3
  <2>2. Candidates(i)[c - NumStations(i)] \in Locations  BY <1>4, <2>1, ElementOfSeq
  <2>3. Location(i, n) = Candidates(i)[c - NumStations(i)]  BY <1>7 DEF Location, c
  <2> QED BY <2>2, <2>3
<1> QED BY <1>5, <1>6, <1>7

LEMMA LookupType ==
  ASSUME NEW i \in Instances, NEW a \in Locations, NEW b \in Locations
  PROVE  Lookup(i, a, b) \in Int /\ Lookup(i, a, b) = Lookup(i, b, a)
<1>1. /\ i.miles \in [Locations \X Locations -> Int]
      /\ i.miles[<<a, b>>] = i.miles[<<b, a>>]
  BY InstanceAssumption DEF InstanceType
<1>2. i.miles[<<a, b>>] \in Int  BY <1>1
<1>3. Far \in Int  BY FarAssumption
<1> QED BY <1>1, <1>2, <1>3 DEF Lookup

LEMMA DistType ==
  ASSUME NEW i \in Instances, NEW a \in Nodes(i), NEW b \in Nodes(i)
  PROVE  Dist(i, a, b) \in Int /\ Dist(i, a, b) = Dist(i, b, a)
<1>1. Location(i, a) \in Locations /\ Location(i, b) \in Locations  BY LocationType
<1> QED BY <1>1, LookupType DEF Dist

(* A visit keeps the node it is come to by, and the other node of its city. *)
LEMMA VisitNodes ==
  ASSUME NEW i, NEW a \in Nat, NEW b \in Nat, CityOf(a) = CityOf(b), a # b
  PROVE  /\ EntryOf(i, Visit(a)) = Location(i, a)
         /\ ExitOf(i, Visit(a)) = Location(i, b)
<1> DEFINE c == CityOf(a)
<1>1. /\ c \in Nat /\ (a = 2 * c \/ a = 2 * c + 1) /\ (b = 2 * c \/ b = 2 * c + 1)
  BY CityOfNode
<1>2. Visit(a).city = c /\ Visit(a).back = (a % 2 = 1)  BY DEF Visit
<1> HIDE DEF c
<1>3. CASE a = 2 * c
  <2>1. a % 2 # 1 /\ b = 2 * c + 1  BY <1>1, <1>3
  <2> QED BY <1>2, <1>3, <2>1 DEF EntryOf, ExitOf
<1>4. CASE a = 2 * c + 1
  <2>1. a % 2 = 1 /\ b = 2 * c  BY <1>1, <1>4
  <2> QED BY <1>2, <1>4, <2>1 DEF EntryOf, ExitOf
<1> QED BY <1>1, <1>3, <1>4

LEMMA ReadingType ==
  ASSUME NEW i \in Instances, NEW u
  PROVE  Len(Reading(i, u)) = M(i) /\ DOMAIN Reading(i, u) = 1 .. M(i)
         /\ \A k \in 1 .. M(i) : Reading(i, u)[k] = Visit(u[2 * k])
<1>1. M(i) \in Nat  BY Shape
<1> DEFINE V(k) == Visit(u[2 * k])
           m == M(i)
<1> HIDE DEF V, m
<1>2. m \in Nat /\ Reading(i, u) = [k \in 1 .. m |-> V(k)]
  BY <1>1 DEF Reading, V, m
<1>3. Len(Reading(i, u)) = m /\ DOMAIN Reading(i, u) = 1 .. m
      /\ \A k \in 1 .. m : Reading(i, u)[k] = V(k)
  BY <1>2
<1> QED BY <1>3 DEF V, m

LEMMA TransitsOfReading ==
  ASSUME NEW i \in Instances, NEW u, Paired(i, u)
  PROVE  Transits(i, Reading(i, u)) =
           [k \in 1 .. M(i) + 1 |-> <<Location(i, u[2 * k - 1]), Location(i, u[2 * k])>>]
<1> DEFINE m == M(i)
           o == Reading(i, u)
<1>1. m \in Nat  BY Shape
<1>2. /\ Len(o) = m /\ \A k \in 1 .. m : o[k] = Visit(u[2 * k])  BY ReadingType
<1>3. /\ u[1] = 0 /\ u[2 * m + 2] = 1
      /\ \A j, k \in 1 .. 2 * m + 2 : u[j] = u[k] => j = k
      /\ \A k \in 1 .. m : CityOf(u[2 * k + 1]) = CityOf(u[2 * k])
  BY DEF Paired
<1>4. /\ \A k \in 1 .. 2 * m + 2 : u[k] \in Nat
      /\ CityOf(0) = 0 /\ CityOf(1) = 0
  BY PairedNodes
<1> HIDE DEF m, o
<1>5. Location(i, 0) = i.dock /\ Location(i, 1) = i.endDock
  <2>1. 0 \notin Stations(i)  BY DEF Stations
  <2> QED BY <1>4, <2>1 DEF Location
<1>6. ASSUME NEW k \in 1 .. m
      PROVE  /\ EntryOf(i, o[k]) = Location(i, u[2 * k])
             /\ ExitOf(i, o[k]) = Location(i, u[2 * k + 1])
  <2>1. 2 * k \in 1 .. 2 * m + 2 /\ 2 * k + 1 \in 1 .. 2 * m + 2 /\ 2 * k # 2 * k + 1
    BY <1>1
  <2>2. u[2 * k] \in Nat /\ u[2 * k + 1] \in Nat /\ u[2 * k] # u[2 * k + 1]
    BY <1>3, <1>4, <2>1
  <2> QED BY <1>2, <1>3, <2>2, VisitNodes
<1>7. ASSUME NEW k \in 1 .. m + 1
      PROVE  /\ (IF k = 1 THEN i.dock ELSE ExitOf(i, o[k - 1])) = Location(i, u[2 * k - 1])
             /\ (IF k > m THEN i.endDock ELSE EntryOf(i, o[k])) = Location(i, u[2 * k])
  <2>1. (IF k = 1 THEN i.dock ELSE ExitOf(i, o[k - 1])) = Location(i, u[2 * k - 1])
    <3>1. CASE k = 1
      <4>1. 2 * k - 1 = 1  BY <3>1
      <4> QED BY <1>3, <1>5, <3>1, <4>1
    <3>2. CASE k # 1
      <4>1. k - 1 \in 1 .. m /\ 2 * (k - 1) + 1 = 2 * k - 1  BY <1>1, <3>2
      <4> QED BY <1>6, <3>2, <4>1
    <3> QED BY <3>1, <3>2
  <2>2. (IF k > m THEN i.endDock ELSE EntryOf(i, o[k])) = Location(i, u[2 * k])
    <3>1. CASE k > m
      <4>1. 2 * k = 2 * m + 2  BY <1>1, <3>1
      <4> QED BY <1>3, <1>5, <3>1, <4>1
    <3>2. CASE ~(k > m)
      <4>1. k \in 1 .. m  BY <1>1, <3>2
      <4> QED BY <1>6, <3>2, <4>1
    <3> QED BY <3>1, <3>2
  <2> QED BY <2>1, <2>2
<1>8. Transits(i, o) = [k \in 1 .. m + 1 |-> <<Location(i, u[2 * k - 1]), Location(i, u[2 * k])>>]
  BY <1>2, <1>7 DEF Transits
<1> QED BY <1>8 DEF m, o

(* The legs between cities, one after the other. *)
Hops(i, u) == [k \in 1 .. M(i) + 1 |-> Dist(i, u[2 * k - 1], u[2 * k])]

LEMMA LengthOfReading ==
  ASSUME NEW i \in Instances, NEW u, Paired(i, u)
  PROVE  Length(i, Transits(i, Reading(i, u))) = Total(Hops(i, u), 1 .. M(i) + 1)
<1> DEFINE m == M(i)
           o == Reading(i, u)
<1>1. m \in Nat /\ m >= 1  BY Shape
<1>2. /\ u[1] = 0 /\ u[2 * m + 2] = 1
      /\ \A k \in 1 .. m : CityOf(u[2 * k + 1]) = CityOf(u[2 * k])
  BY DEF Paired
<1>3. /\ \A k \in 1 .. m : CityOf(u[2 * k]) \in 1 .. m
      /\ \A j, k \in 1 .. m : CityOf(u[2 * j]) = CityOf(u[2 * k]) => j = k
      /\ CityOf(0) = 0 /\ CityOf(1) = 0
  BY PairedNodes
<1>4. Transits(i, o) = [k \in 1 .. m + 1 |-> <<Location(i, u[2 * k - 1]), Location(i, u[2 * k])>>]
  BY TransitsOfReading
<1> HIDE DEF m, o
<1>5. ASSUME NEW k \in 1 .. m + 1
      PROVE  CityOf(u[2 * k - 1]) # CityOf(u[2 * k])
  <2>1. CASE k = 1
    <3>1. 2 * k - 1 = 1 /\ k \in 1 .. m  BY <1>1, <2>1
    <3>2. CityOf(u[2 * k]) \in 1 .. m /\ CityOf(u[2 * k - 1]) = 0  BY <1>2, <1>3, <3>1
    <3> QED BY <1>1, <3>2
  <2>2. CASE k # 1
    <3>1. k - 1 \in 1 .. m /\ 2 * (k - 1) + 1 = 2 * k - 1 /\ k - 1 # k  BY <1>1, <2>2
    <3>2. CityOf(u[2 * k - 1]) = CityOf(u[2 * (k - 1)])  BY <1>2, <3>1
    <3>3. CASE k = m + 1
      <4>1. 2 * k = 2 * m + 2  BY <1>1, <3>3
      <4>2. CityOf(u[2 * k]) = 0  BY <1>2, <1>3, <4>1
      <4>3. CityOf(u[2 * (k - 1)]) \in 1 .. m  BY <1>3, <3>1
      <4> QED BY <1>1, <3>2, <4>2, <4>3
    <3>4. CASE k # m + 1
      <4>1. k \in 1 .. m  BY <1>1, <3>4
      <4> QED BY <1>3, <3>1, <3>2, <4>1
    <3> QED BY <3>3, <3>4
  <2> QED BY <2>1, <2>2
<1> DEFINE l == Transits(i, o)
           g == [k \in DOMAIN l |-> Lookup(i, l[k][1], l[k][2])]
<1>6. g = [k \in 1 .. m + 1 |-> Dist(i, u[2 * k - 1], u[2 * k])]
  <2>1. DOMAIN l = 1 .. m + 1  BY <1>4
  <2>2. ASSUME NEW k \in 1 .. m + 1 PROVE g[k] = Dist(i, u[2 * k - 1], u[2 * k])
    <3>1. g[k] = Lookup(i, Location(i, u[2 * k - 1]), Location(i, u[2 * k]))
      BY <1>4, <2>1
    <3> HIDE DEF g
    <3> QED BY <1>5, <3>1 DEF Dist
  <2>3. g = [k \in 1 .. m + 1 |-> g[k]]  BY <2>1
  <2> HIDE DEF g
  <2> QED BY <2>2, <2>3
<1>7. g = Hops(i, u)  BY <1>6 DEF Hops, m
<1>8. Length(i, l) = FoldFunctionOnSet(+, 0, g, DOMAIN g)  BY DEF Length, Sum
<1>9. DOMAIN g = 1 .. m + 1  BY <1>6
<1> HIDE DEF g
<1>10. Length(i, l) = Total(g, 1 .. m + 1)
  BY <1>8, <1>9, FoldOnSetIsTotal
<1> QED BY <1>7, <1>10 DEF o, m

(* The solver's objective adds up these legs, whichever way the arcs go.   *)
LEMMA CostOfWay ==
  ASSUME NEW i \in Instances, NEW f, NEW u, f \in [Nodes(i) -> Nodes(i)], Way(i, f, u)
  PROVE  Cost(i, f) = Length(i, Transits(i, Reading(i, u)))
<1> DEFINE m == M(i)
           I == 1 .. m + 1
           D == Nodes(i)
           g == Hops(i, u)
           h == [n \in D |-> Dist(i, n, f[n])]
<1>1. m \in Nat /\ IsFiniteSet(D) /\ Cardinality(D) = 2 * m + 2  BY Shape
<1>2. Paired(i, u) /\ (Forward(i, f, u) \/ Backward(i, f, u))  BY DEF Way
<1>3. /\ \A j, k \in 1 .. 2 * m + 2 : u[j] = u[k] => j = k
      /\ u \in Seq(D) /\ Len(u) = 2 * m + 2
  BY <1>2 DEF Paired
<1>4. \A k \in 1 .. 2 * m + 2 : u[k] \in D  BY <1>2, PairedNodes
<1>5. Cost(i, f) = Total(h, D)
  <2>1. Cost(i, f) = FoldFunctionOnSet(+, 0, h, DOMAIN h)  BY DEF Cost, Sum
  <2>2. DOMAIN h = D  OBVIOUS
  <2> HIDE DEF h, D
  <2> QED BY <2>1, <2>2, FoldOnSetIsTotal
<1>6. Length(i, Transits(i, Reading(i, u))) = Total(g, I)
  BY <1>2, LengthOfReading
<1>7. IsFiniteSet(I)
  <2>1. m + 1 \in Int  BY <1>1
  <2> QED BY <2>1, FS_Interval
<1>8. \A n \in D : \E k \in 1 .. 2 * m + 2 : u[k] = n
  <2>1. u \in [1 .. 2 * m + 2 -> D]  BY <1>3, LenProperties
  <2> HIDE DEF m, D
  <2> QED BY <1>1, <1>3, <2>1, AllAreMet
<1>9. \A k \in I : g[k] = Dist(i, u[2 * k - 1], u[2 * k])  BY DEF Hops
<1>10. \A n \in D : h[n] = Dist(i, n, f[n])  OBVIOUS
<1> HIDE DEF g, h, D
<1>11. f \in [D -> D]  BY DEF D
<1>12. \A k \in I : /\ 2 * k - 1 \in 1 .. 2 * m + 2 /\ 2 * k \in 1 .. 2 * m + 2
                    /\ u[2 * k - 1] \in D /\ u[2 * k] \in D
  <2> TAKE k \in I
  <2>1. 2 * k - 1 \in 1 .. 2 * m + 2 /\ 2 * k \in 1 .. 2 * m + 2
    <3> HIDE DEF m
    <3> QED BY <1>1
  <2> QED BY <1>4, <2>1
<1>13. \A k \in I : g[k] \in Int /\ g[k] = Dist(i, u[2 * k], u[2 * k - 1])
  BY <1>9, <1>12, DistType DEF D
<1>14. \A j \in 1 .. 2 * m + 2 : \E k \in I : j = 2 * k - 1 \/ j = 2 * k
  <2> TAKE j \in 1 .. 2 * m + 2
  <2> HIDE DEF m
  <2>1. PICK k \in Int : j = 2 * k - 1 \/ j = 2 * k
    <3>1. (j + 1) \div 2 \in Int
          /\ (j = 2 * ((j + 1) \div 2) - 1 \/ j = 2 * ((j + 1) \div 2))
      OBVIOUS
    <3> QED BY <3>1
  <2>2. k \in I  BY <1>1, <2>1
  <2> QED BY <2>1, <2>2
<1>15. \A n \in D : \E k \in I : n = u[2 * k - 1] \/ n = u[2 * k]
  <2> TAKE n \in D
  <2>1. PICK j \in 1 .. 2 * m + 2 : u[j] = n  BY <1>8
  <2>2. PICK k \in I : j = 2 * k - 1 \/ j = 2 * k  BY <1>14
  <2> QED BY <2>1, <2>2
<1>16. \A j, k \in I : /\ u[2 * j] = u[2 * k] => j = k
                       /\ u[2 * j - 1] = u[2 * k - 1] => j = k
  <2> TAKE j, k \in I
  <2>1. /\ u[2 * j] = u[2 * k] => 2 * j = 2 * k
        /\ u[2 * j - 1] = u[2 * k - 1] => 2 * j - 1 = 2 * k - 1
    BY <1>3, <1>12
  <2>2. j \in Int /\ k \in Int  OBVIOUS
  <2> QED BY <2>1, <2>2
<1> HIDE DEF I
<1>17. CASE Forward(i, f, u)
  <2> DEFINE e == [k \in I |-> u[2 * k - 1]]
  <2>1. \A k \in I : f[u[2 * k - 1]] = u[2 * k]
                     /\ CityOf(f[u[2 * k]]) = CityOf(u[2 * k])
    BY <1>17 DEF Forward, I
  <2>2. e \in [I -> D] /\ \A j, k \in I : e[j] = e[k] => j = k  BY <1>12, <1>16
  <2>3. \A k \in I : g[k] \in Int /\ h[e[k]] = g[k]
    BY <1>9, <1>10, <1>12, <1>13, <2>1
  <2>4. \A n \in D : n \notin {e[k] : k \in I} => h[n] = 0
    <3> SUFFICES ASSUME NEW n \in D, n \notin {e[k] : k \in I} PROVE h[n] = 0
      OBVIOUS
    <3>1. PICK k \in I : n = u[2 * k]  BY <1>15
    <3>2. CityOf(f[n]) = CityOf(n)  BY <2>1, <3>1
    <3> QED BY <1>10, <3>2 DEF Dist
  <2> HIDE DEF e
  <2>5. Total(h, D) = Total(g, I)  BY <1>1, <1>7, <2>2, <2>3, <2>4, TotalImage
  <2> QED BY <1>5, <1>6, <2>5
<1>18. CASE Backward(i, f, u)
  <2> DEFINE e == [k \in I |-> u[2 * k]]
  <2>1. \A k \in I : f[u[2 * k]] = u[2 * k - 1]
                     /\ CityOf(f[u[2 * k - 1]]) = CityOf(u[2 * k - 1])
    BY <1>18 DEF Backward, I
  <2>2. e \in [I -> D] /\ \A j, k \in I : e[j] = e[k] => j = k  BY <1>12, <1>16
  <2>3. \A k \in I : g[k] \in Int /\ h[e[k]] = g[k]
    BY <1>10, <1>12, <1>13, <2>1
  <2>4. \A n \in D : n \notin {e[k] : k \in I} => h[n] = 0
    <3> SUFFICES ASSUME NEW n \in D, n \notin {e[k] : k \in I} PROVE h[n] = 0
      OBVIOUS
    <3>1. PICK k \in I : n = u[2 * k - 1]  BY <1>15
    <3>2. CityOf(f[n]) = CityOf(n)  BY <2>1, <3>1
    <3> QED BY <1>10, <3>2 DEF Dist
  <2> HIDE DEF e
  <2>5. Total(h, D) = Total(g, I)  BY <1>1, <1>7, <2>2, <2>3, <2>4, TotalImage
  <2> QED BY <1>5, <1>6, <2>5
<1> QED BY <1>2, <1>17, <1>18

-----------------------------------------------------------------------------
(* The loads along a way *)

LEMMA AllOrdersIs ==
  ASSUME NEW i \in Instances
  PROVE  AllOrders(i) =
           {o \in [1 .. M(i) -> [city : 1 .. M(i), back : BOOLEAN]] :
              \A j, k \in 1 .. M(i) : o[j].city = o[k].city => j = k}
<1> DEFINE m == M(i)
           C == Cities(i) \ {0}
<1>1. m \in Nat /\ Cities(i) = 0 .. m  BY Shape
<1>2. C = 1 .. m /\ Cardinality(C) = m
  <2>1. C = 1 .. m  BY <1>1
  <2>2. Cardinality(1 .. m) = IF 1 > m THEN 0 ELSE m - 1 + 1  BY <1>1, FS_Interval
  <2> HIDE DEF C, m
  <2> QED BY <1>1, <2>1, <2>2
<1>3. AllOrders(i) = {o \in [1 .. Cardinality(C) -> [city : C, back : BOOLEAN]] :
                        \A j, k \in DOMAIN o : o[j].city = o[k].city => j = k}
  BY DEF AllOrders
<1> HIDE DEF C, m
<1>4. AllOrders(i) = {o \in [1 .. m -> [city : 1 .. m, back : BOOLEAN]] :
                        \A j, k \in DOMAIN o : o[j].city = o[k].city => j = k}
  BY <1>2, <1>3
<1>5. AllOrders(i) = {o \in [1 .. m -> [city : 1 .. m, back : BOOLEAN]] :
                        \A j, k \in 1 .. m : o[j].city = o[k].city => j = k}
  BY <1>4
<1> QED BY <1>5 DEF m

LEMMA ReadingIsOrder ==
  ASSUME NEW i \in Instances, NEW u, Paired(i, u)
  PROVE  Reading(i, u) \in AllOrders(i)
<1> DEFINE m == M(i)
           o == Reading(i, u)
<1>1. /\ \A k \in 1 .. m : CityOf(u[2 * k]) \in 1 .. m
      /\ \A j, k \in 1 .. m : CityOf(u[2 * j]) = CityOf(u[2 * k]) => j = k
  BY PairedNodes
<1>2. o = [k \in 1 .. m |-> [city |-> CityOf(u[2 * k]), back |-> u[2 * k] % 2 = 1]]
  BY DEF Reading, Visit
<1> HIDE DEF m, o
<1>3. o \in [1 .. m -> [city : 1 .. m, back : BOOLEAN]]  BY <1>1, <1>2
<1>4. \A j, k \in 1 .. m : o[j].city = o[k].city => j = k  BY <1>1, <1>2
<1>5. o \in {x \in [1 .. m -> [city : 1 .. m, back : BOOLEAN]] :
              \A j, k \in 1 .. m : x[j].city = x[k].city => j = k}
  BY <1>3, <1>4
<1> QED BY <1>5, AllOrdersIs DEF m, o

(* The cities in a cycle from the dock on, as next leads from one to       *)
(* another.                                                                *)
Turn(i, next, r) ==
  /\ next \in [Cities(i) -> Cities(i)]
  /\ r \in [0 .. M(i) -> Cities(i)] /\ r[0] = 0
  /\ \A j, k \in 0 .. M(i) : r[j] = r[k] => j = k
  /\ \A k \in 0 .. M(i) - 1 : next[r[k]] = r[k + 1]
  /\ next[r[M(i)]] = 0

LEMMA TurnMeetsAll ==
  ASSUME NEW i \in Instances, NEW next, NEW r, Turn(i, next, r)
  PROVE  /\ \A c \in Cities(i) : \E k \in 0 .. M(i) : r[k] = c
         /\ Cycles(next, Cities(i))
<1> DEFINE m == M(i)
           D == Cities(i)
           w == [k \in 1 .. m + 1 |-> r[k - 1]]
<1>1. m \in Nat /\ IsFiniteSet(D) /\ Cardinality(D) = m + 1  BY Shape
<1>2. /\ next \in [D -> D] /\ r \in [0 .. m -> D] /\ r[0] = 0
      /\ \A j, k \in 0 .. m : r[j] = r[k] => j = k
      /\ \A k \in 0 .. m - 1 : next[r[k]] = r[k + 1]
      /\ next[r[m]] = 0
  BY DEF Turn
<1> HIDE DEF m, D
<1>3. \A k \in 1 .. m + 1 : k - 1 \in 0 .. m  BY <1>1
<1>4. w \in [1 .. m + 1 -> D]  BY <1>2, <1>3
<1>5. ASSUME NEW j \in 1 .. m + 1, NEW k \in 1 .. m + 1, w[j] = w[k] PROVE j = k
  <2>1. r[j - 1] = r[k - 1]  BY <1>5
  <2>2. j - 1 = k - 1  BY <1>2, <1>3, <2>1
  <2> QED BY <2>2
<1>6. \A c \in D : \E k \in 1 .. m + 1 : w[k] = c
  <2> HIDE DEF w
  <2> QED BY <1>1, <1>4, <1>5, AllAreMet
<1>7. \A c \in D : \E k \in 0 .. m : r[k] = c  BY <1>3, <1>6
<1>8. ASSUME NEW c \in D, NEW d \in D, next[c] = next[d] PROVE c = d
  <2>1. PICK j \in 0 .. m : r[j] = c  BY <1>7
  <2>2. PICK k \in 0 .. m : r[k] = d  BY <1>7
  <2>3. /\ j # m => j \in 0 .. m - 1 /\ j + 1 \in 0 .. m /\ j + 1 # 0
        /\ k # m => k \in 0 .. m - 1 /\ k + 1 \in 0 .. m /\ k + 1 # 0
        /\ 0 \in 0 .. m
    BY <1>1
  <2>4. CASE j = m /\ k = m  BY <2>1, <2>2, <2>4
  <2>5. CASE j = m /\ k # m
    <3>1. r[0] = r[k + 1]  BY <1>2, <1>8, <2>1, <2>2, <2>3, <2>5
    <3> QED BY <1>2, <2>3, <2>5, <3>1
  <2>6. CASE j # m /\ k = m
    <3>1. r[0] = r[j + 1]  BY <1>2, <1>8, <2>1, <2>2, <2>3, <2>6
    <3> QED BY <1>2, <2>3, <2>6, <3>1
  <2>7. CASE j # m /\ k # m
    <3>1. r[j + 1] = r[k + 1]  BY <1>2, <1>8, <2>1, <2>2, <2>3, <2>7
    <3>2. j + 1 = k + 1  BY <1>2, <2>3, <2>7, <3>1
    <3>3. j = k  BY <3>2
    <3> QED BY <2>1, <2>2, <3>3
  <2> QED BY <2>4, <2>5, <2>6, <2>7
<1> QED BY <1>1, <1>2, <1>7, <1>8 DEF Cycles, m, D

(* The same cycle read from its a-th city on. *)
Wrap(i, n) == IF n <= M(i) THEN n ELSE n - (M(i) + 1)

LEMMA SubtourOfTurn ==
  ASSUME NEW i \in Instances, NEW next, NEW r, Turn(i, next, r), NEW a \in 0 .. M(i)
  PROVE  Subtour(next, r[a]) = [k \in 1 .. M(i) + 1 |-> r[Wrap(i, a + k - 1)]]
<1> DEFINE m == M(i)
           D == Cities(i)
           v == [k \in 1 .. m + 1 |-> r[Wrap(i, a + k - 1)]]
<1>1. m \in Nat /\ Cardinality(D) = m + 1  BY Shape
<1>2. /\ r \in [0 .. m -> D] /\ r[0] = 0
      /\ \A j, k \in 0 .. m : r[j] = r[k] => j = k
      /\ \A k \in 0 .. m - 1 : next[r[k]] = r[k + 1]
      /\ next[r[m]] = 0
  BY DEF Turn
<1>3. Cycles(next, D)  BY TurnMeetsAll
<1>4. \A n : Wrap(i, n) = IF n <= m THEN n ELSE n - (m + 1)  BY DEF Wrap
<1>5. a \in 0 .. m  OBVIOUS
<1> HIDE DEF m, D
<1>6. \A k \in 1 .. m + 1 : Wrap(i, a + k - 1) \in 0 .. m  BY <1>1, <1>4, <1>5
<1>7. \A k \in 1 .. m + 1 : v[k] = r[Wrap(i, a + k - 1)]  OBVIOUS
<1>8. v \in Seq(D) /\ Len(v) = m + 1
  <2>1. v \in [1 .. m + 1 -> D]  BY <1>2, <1>6
  <2> HIDE DEF v
  <2> QED BY <1>1, <2>1
<1> HIDE DEF v
<1>9. v[1] = r[a]
  <2>1. 1 \in 1 .. m + 1 /\ Wrap(i, a + 1 - 1) = a  BY <1>1, <1>4, <1>5
  <2> QED BY <1>7, <2>1
<1>10. ASSUME NEW j \in 1 .. m + 1, NEW k \in 1 .. m + 1, v[j] = v[k] PROVE j = k
  <2>1. Wrap(i, a + j - 1) = Wrap(i, a + k - 1)  BY <1>2, <1>6, <1>7, <1>10
  <2> QED BY <1>1, <1>4, <1>5, <2>1
<1>11. ASSUME NEW k \in 1 .. m PROVE v[k + 1] = next[v[k]]
  <2> DEFINE n == Wrap(i, a + k - 1)
  <2>1. /\ n \in 0 .. m /\ k \in 1 .. m + 1 /\ k + 1 \in 1 .. m + 1
        /\ Wrap(i, a + (k + 1) - 1) = IF n = m THEN 0 ELSE n + 1
    BY <1>1, <1>4, <1>5, <1>6
  <2>2. v[k] = r[n] /\ v[k + 1] = r[IF n = m THEN 0 ELSE n + 1]  BY <1>7, <2>1
  <2> HIDE DEF n
  <2>3. CASE n = m  BY <1>2, <2>2, <2>3
  <2>4. CASE n # m
    <3>1. n \in 0 .. m - 1  BY <1>1, <2>1, <2>4
    <3> QED BY <1>2, <2>2, <2>4, <3>1
  <2> QED BY <2>3, <2>4
<1>12. next[v[m + 1]] = r[a]
  <2> DEFINE n == Wrap(i, a + (m + 1) - 1)
  <2>1. m + 1 \in 1 .. m + 1 /\ n = IF a = 0 THEN m ELSE a - 1
    BY <1>1, <1>4, <1>5
  <2>2. v[m + 1] = r[n]  BY <1>7, <2>1
  <2> HIDE DEF n
  <2>3. CASE a = 0  BY <1>2, <2>1, <2>2, <2>3
  <2>4. CASE a # 0
    <3>1. a - 1 \in 0 .. m - 1 /\ (a - 1) + 1 = a  BY <1>1, <1>5, <2>4
    <3> QED BY <1>2, <2>1, <2>2, <2>4, <3>1
  <2> QED BY <2>3, <2>4
<1>13. Round(v, next, r[a], D)
  <2>1. m + 1 \in 1 .. m + 1 /\ (m + 1) - 1 = m  BY <1>1
  <2>2. ASSUME NEW k \in 1 .. m PROVE v[k + 1] # r[a]
    <3>1. k + 1 \in 1 .. m + 1 /\ 1 \in 1 .. m + 1 /\ k + 1 # 1  BY <1>1
    <3> QED BY <1>9, <1>10, <3>1
  <2> QED BY <1>1, <1>8, <1>9, <1>10, <1>11, <1>12, <2>1, <2>2 DEF Round
<1>14. Round(Subtour(next, r[a]), next, r[a], D)
  <2>1. r[a] \in D  BY <1>2, <1>5
  <2> QED BY <1>3, <2>1, SubtourIsRound
<1>15. Subtour(next, r[a]) = v
  <2>1. Cardinality(D) \in Nat  BY <1>1
  <2> QED BY <1>13, <1>14, <2>1, OneRound
<1> QED BY <1>15 DEF v, m

(* Where a cycle stops, and the cities between two stops. *)
StopsOf(i, r) == {0, M(i) + 1} \cup {k \in 1 .. M(i) : r[k] \notin Stations(i)}
Adjacent(a, b, S) ==
  /\ a \in S /\ b \in S /\ a < b
  /\ \A s \in S : s <= a \/ b <= s
Run(r, a, b) == [k \in 1 .. b - a - 1 |-> r[a + k]]
RunsFit(i, r) ==
  \A a, b \in StopsOf(i, r) :
    Adjacent(a, b, StopsOf(i, r)) => CatchOf(i, Run(r, a, b)) <= i.capacity

LEMMA StretchOfTurn ==
  ASSUME NEW i \in Instances, NEW f, NEW r, Turn(i, CityAfter(i, f), r),
         NEW a, NEW b, Adjacent(a, b, StopsOf(i, r))
  PROVE  Stretch(i, f, r[a]) = Run(r, a, b)
<1> DEFINE m == M(i)
           t == Subtour(CityAfter(i, f), r[a])
           P == {k \in 2 .. Len(t) : t[k] \notin Stations(i)}
           Q == P \cup {Len(t) + 1}
<1>1. m \in Nat /\ 0 \notin Stations(i)  BY Shape DEF Stations
<1>2. /\ a \in 0 .. m /\ b \in 1 .. m + 1 /\ a < b
      /\ b # m + 1 => r[b] \notin Stations(i)
      /\ \A k \in 1 .. m : a < k /\ k < b => r[k] \in Stations(i)
  <2>1. \A k \in StopsOf(i, r) : k \in 0 .. m + 1  BY <1>1 DEF StopsOf
  <2>2. a \in StopsOf(i, r) /\ b \in StopsOf(i, r) /\ a < b  BY DEF Adjacent
  <2>3. a \in 0 .. m /\ b \in 1 .. m + 1
    <3>1. a \in 0 .. m + 1 /\ b \in 0 .. m + 1  BY <2>1, <2>2
    <3> HIDE DEF m
    <3> QED BY <1>1, <2>2, <3>1
  <2>4. b # m + 1 => r[b] \notin Stations(i)  BY <2>2, <2>3 DEF StopsOf
  <2>5. ASSUME NEW k \in 1 .. m, a < k, k < b PROVE r[k] \in Stations(i)
    <3> SUFFICES ASSUME r[k] \notin Stations(i) PROVE FALSE  OBVIOUS
    <3>1. k \in StopsOf(i, r)  BY DEF StopsOf
    <3>2. k <= a \/ b <= k  BY <3>1 DEF Adjacent
    <3> QED BY <2>3, <2>5, <3>2
  <2> QED BY <2>2, <2>3, <2>4, <2>5
<1>3. r[0] = 0 /\ r \in [0 .. m -> Cities(i)]  BY DEF Turn
<1>4. t = [k \in 1 .. m + 1 |-> r[Wrap(i, a + k - 1)]]  BY <1>2, SubtourOfTurn
<1>5. \A n : Wrap(i, n) = IF n <= m THEN n ELSE n - (m + 1)  BY DEF Wrap
<1> HIDE DEF m, t
<1>6. \A k \in 1 .. m + 1 : Wrap(i, a + k - 1) \in 0 .. m  BY <1>1, <1>2, <1>5
<1>7. /\ Len(t) = m + 1 /\ t \in Seq(Cities(i))
      /\ \A k \in 1 .. m + 1 : t[k] = r[Wrap(i, a + k - 1)]
  <2>1. t \in [1 .. m + 1 -> Cities(i)]  BY <1>3, <1>4, <1>6
  <2> QED BY <1>1, <1>4, <2>1
<1>8. b - a + 1 \in Q
  <2>1. CASE b - a + 1 = m + 2
    <3>1. Len(t) + 1 = m + 2  BY <1>1, <1>7
    <3> QED BY <2>1, <3>1
  <2>2. CASE b - a + 1 # m + 2
    <3> DEFINE k == b - a + 1
    <3>1. k \in 2 .. m + 1 /\ k \in 1 .. m + 1
          /\ Wrap(i, a + k - 1) = IF b = m + 1 THEN 0 ELSE b
      BY <1>1, <1>2, <1>5, <2>2
    <3>2. t[k] = r[IF b = m + 1 THEN 0 ELSE b]  BY <1>7, <3>1
    <3> HIDE DEF k
    <3>3. t[k] \notin Stations(i)  BY <1>1, <1>2, <1>3, <3>2
    <3>4. k \in Q  BY <1>7, <3>1, <3>3
    <3> QED BY <3>4 DEF k
  <2> QED BY <2>1, <2>2
<1>9. ASSUME NEW k \in Q PROVE b - a + 1 <= k
  <2>1. CASE k = Len(t) + 1  BY <1>1, <1>2, <1>7, <2>1
  <2>2. CASE k # Len(t) + 1
    <3>1. k \in 2 .. m + 1 /\ t[k] \notin Stations(i)  BY <1>7, <2>2
    <3> SUFFICES ASSUME k < b - a + 1 PROVE FALSE  BY <1>2, <3>1
    <3> DEFINE n == a + k - 1
    <3>2. n \in 1 .. m /\ a < n /\ n < b /\ Wrap(i, n) = n /\ k \in 1 .. m + 1
      BY <1>1, <1>2, <1>5, <3>1
    <3>3. t[k] = r[n]  BY <1>7, <3>2
    <3> HIDE DEF n
    <3> QED BY <1>2, <3>1, <3>2, <3>3
  <2> QED BY <2>1, <2>2
<1>10. Min(Q) = b - a + 1
  <2>1. Q \subseteq Nat /\ Q # {}  BY <1>1, <1>7, <1>8
  <2>2. Min(Q) \in Q /\ \A k \in Q : Min(Q) <= k
    <3> HIDE DEF Q
    <3> QED BY <2>1, MinOfNumbers
  <2> DEFINE x == Min(Q)
  <2>3. x <= b - a + 1 /\ b - a + 1 <= x /\ x \in Nat  BY <1>8, <1>9, <2>1, <2>2
  <2> HIDE DEF x
  <2>4. x = b - a + 1  BY <1>2, <2>3
  <2> QED BY <2>4 DEF x
<1>11. Stretch(i, f, r[a]) = SubSeq(t, 2, Min(Q) - 1)  BY DEF Stretch, t
<1> HIDE DEF Q
<1> DEFINE n == b - a - 1
           p == SubSeq(t, 2, b - a)
<1>12. Stretch(i, f, r[a]) = p
  <2>1. (b - a + 1) - 1 = b - a  BY <1>2
  <2> QED BY <1>10, <1>11, <2>1
<1>13. /\ p \in Seq(Cities(i)) /\ Len(p) = n
       /\ \A k \in 1 .. n : p[k] = t[1 + k]
  <2>1. 2 \in Int /\ b - a \in Int /\ \A k \in 2 .. b - a : t[k] \in Cities(i)
    <3>1. b - a \in Int /\ \A k \in 2 .. b - a : k \in 1 .. m + 1  BY <1>1, <1>2
    <3>2. \A k \in 1 .. m + 1 : t[k] \in Cities(i)  BY <1>7, ElementOfSeq
    <3> QED BY <3>1, <3>2
  <2> DEFINE e == b - a
  <2> HIDE DEF e
  <2>2. /\ SubSeq(t, 2, e) \in Seq(Cities(i))
        /\ Len(SubSeq(t, 2, e)) = IF 2 <= e THEN e - 2 + 1 ELSE 0
        /\ \A k \in 1 .. e - 2 + 1 : SubSeq(t, 2, e)[k] = t[2 + k - 1]
    BY <2>1, SubSeqProperties DEF e
  <2> HIDE DEF p
  <2>3. /\ p \in Seq(Cities(i)) /\ Len(p) = IF 2 <= e THEN e - 2 + 1 ELSE 0
        /\ \A k \in 1 .. e - 2 + 1 : p[k] = t[2 + k - 1]
    BY <2>2 DEF p, e
  <2>4. /\ (IF 2 <= e THEN e - 2 + 1 ELSE 0) = n /\ e - 2 + 1 = n
        /\ \A k \in 1 .. n : 2 + k - 1 = 1 + k
    BY <1>2 DEF e
  <2> QED BY <2>3, <2>4
<1>14. ASSUME NEW k \in 1 .. n PROVE p[k] = r[a + k]
  <2>1. 1 + k \in 1 .. m + 1 /\ Wrap(i, a + (1 + k) - 1) = a + k
    BY <1>1, <1>2, <1>5
  <2>2. p[k] = t[1 + k]  BY <1>13
  <2> HIDE DEF p, n
  <2> QED BY <1>7, <2>1, <2>2
<1>15. p = [k \in 1 .. n |-> p[k]]
  <2> HIDE DEF p, n
  <2> QED BY <1>13
<1>16. p = [k \in 1 .. n |-> r[a + k]]
  <2> HIDE DEF p, n
  <2> QED BY <1>14, <1>15
<1> QED BY <1>12, <1>16 DEF Run

(* After each stop comes another. *)
LEMMA NextStop ==
  ASSUME NEW i \in Instances, NEW r, NEW a \in StopsOf(i, r), a # M(i) + 1
  PROVE  \E b : Adjacent(a, b, StopsOf(i, r))
<1> DEFINE m == M(i)
           S == StopsOf(i, r)
           B == {s \in S : a < s}
<1>1. m \in Nat /\ m >= 1  BY Shape
<1>2. S \subseteq 0 .. m + 1 /\ m + 1 \in S  BY <1>1 DEF StopsOf
<1> HIDE DEF m, S
<1>3. a \in 0 .. m  BY <1>1, <1>2 DEF S, m
<1>4. m + 1 \in B /\ B \subseteq Nat
  <2>1. a < m + 1  BY <1>1, <1>3
  <2>2. \A s \in B : s \in 0 .. m + 1  BY <1>2
  <2>3. \A s \in 0 .. m + 1 : s \in Nat  BY <1>1
  <2> QED BY <1>2, <2>1, <2>2, <2>3
<1>5. PICK b \in B : \A s \in B : b <= s
  <2> HIDE DEF B
  <2> QED BY <1>4, LeastNatural
<1>6. \A s \in S : s <= a \/ b <= s  BY <1>2, <1>3, <1>5
<1> QED BY <1>5, <1>6 DEF Adjacent, S

(* The load variables of one tour have values if each run between stops    *)
(* fits.                                                                   *)
LEMMA FlowOfTurn ==
  ASSUME NEW i \in Instances, NEW f, NEW r, Turn(i, CityAfter(i, f), r)
  PROVE  FlowExists(i, f) <=> RunsFit(i, r)
<1> DEFINE m == M(i)
           next == CityAfter(i, f)
<1>1. m \in Nat /\ 0 \notin Stations(i) /\ 0 \in Cities(i) /\ Cities(i) = 0 .. m
  BY Shape DEF Stations
<1>2. /\ r \in [0 .. m -> Cities(i)] /\ r[0] = 0
      /\ \A j, k \in 0 .. m : r[j] = r[k] => j = k
  BY DEF Turn
<1>3. /\ \A c \in Cities(i) : \E k \in 0 .. m : r[k] = c
      /\ Cycles(next, Cities(i))
  BY TurnMeetsAll
<1>4. ASSUME NEW a, NEW b, Adjacent(a, b, StopsOf(i, r))
      PROVE  Stretch(i, f, r[a]) = Run(r, a, b) /\ r[a] \in Cities(i) \ Stations(i)
  <2>1. a \in StopsOf(i, r) /\ b \in StopsOf(i, r) /\ a < b
        /\ \A s \in StopsOf(i, r) : s <= a \/ b <= s
    BY <1>4 DEF Adjacent
  <2>2. a # m + 1
    <3>1. b \in 0 .. m + 1  BY <1>1, <2>1 DEF StopsOf
    <3> HIDE DEF m
    <3> QED BY <1>1, <2>1, <3>1
  <2>3. a \in 0 .. m /\ (a = 0 \/ r[a] \notin Stations(i))
    BY <1>1, <2>1, <2>2 DEF StopsOf
  <2> QED BY <1>1, <1>2, <1>4, <2>3, StretchOfTurn
<1>5. ASSUME FlowExists(i, f) PROVE RunsFit(i, r)
  <2> SUFFICES ASSUME NEW a \in StopsOf(i, r), NEW b \in StopsOf(i, r),
                      Adjacent(a, b, StopsOf(i, r))
               PROVE  CatchOf(i, Run(r, a, b)) <= i.capacity
    BY DEF RunsFit
  <2>1. CatchOf(i, Stretch(i, f, r[a])) <= i.capacity  BY <1>4, <1>5 DEF FlowExists
  <2> QED BY <1>4, <2>1
<1>6. ASSUME RunsFit(i, r), NEW p \in Cities(i) \ Stations(i)
      PROVE  CatchOf(i, Stretch(i, f, p)) <= i.capacity
  <2>1. PICK a \in 0 .. m : r[a] = p  BY <1>3
  <2>2. a \in StopsOf(i, r) /\ a # m + 1  BY <1>1, <1>6, <2>1 DEF StopsOf
  <2>3. PICK b : Adjacent(a, b, StopsOf(i, r))  BY <2>2, NextStop
  <2>4. b \in StopsOf(i, r)  BY <2>3 DEF Adjacent
  <2>5. CatchOf(i, Run(r, a, b)) <= i.capacity  BY <1>6, <2>2, <2>3, <2>4 DEF RunsFit
  <2> QED BY <1>4, <2>1, <2>3, <2>5
<1>7. ASSUME NEW c \in Stations(i)
      PROVE  ~(ToSet(Subtour(next, c)) \subseteq Stations(i))
  <2>0. c \in Cities(i)  BY DEF Cities
  <2>1. PICK a \in 0 .. m : r[a] = c  BY <1>3, <2>0
  <2>2. Subtour(next, c) = [k \in 1 .. m + 1 |-> r[Wrap(i, a + k - 1)]]
    <3>1. Subtour(next, r[a]) = [k \in 1 .. m + 1 |-> r[Wrap(i, a + k - 1)]]
      BY SubtourOfTurn
    <3> QED BY <2>1, <3>1
  <2>3. PICK k \in 1 .. m + 1 : Wrap(i, a + k - 1) = 0
    <3>1. CASE a = 0
      <4>1. 1 \in 1 .. m + 1 /\ Wrap(i, a + 1 - 1) = 0  BY <1>1, <3>1 DEF Wrap
      <4> QED BY <4>1
    <3>2. CASE a # 0
      <4>1. m + 2 - a \in 1 .. m + 1 /\ a + (m + 2 - a) - 1 = m + 1 /\ ~(m + 1 <= m)
            /\ (m + 1) - (m + 1) = 0
        <5> HIDE DEF m
        <5> QED BY <1>1, <3>2
      <4>2. Wrap(i, a + (m + 2 - a) - 1) = 0  BY <4>1 DEF Wrap
      <4> QED BY <4>1, <4>2
    <3> QED BY <3>1, <3>2
  <2>4. Subtour(next, c)[k] = 0 /\ k \in DOMAIN Subtour(next, c)  BY <1>2, <2>2, <2>3
  <2>5. 0 \in ToSet(Subtour(next, c))  BY <2>4 DEF ToSet
  <2> QED BY <1>1, <2>5
<1> QED BY <1>5, <1>6, <1>7 DEF FlowExists

-----------------------------------------------------------------------------
(* Solutions are orders *)

(* The cities of a way in their order, and in the other one. *)
CityAt(i, u) == [k \in 0 .. M(i) |-> IF k = 0 THEN 0 ELSE CityOf(u[2 * k])]
Turned(i, q) == [k \in 0 .. M(i) |-> IF k = 0 THEN 0 ELSE q[M(i) + 1 - k]]

LEMMA LegCities ==
  ASSUME NEW i \in Instances, NEW u, Paired(i, u)
  PROVE  /\ \A k \in 1 .. M(i) + 1 :
              /\ CityOf(u[2 * k - 1]) = CityAt(i, u)[k - 1]
              /\ CityOf(u[2 * k]) = IF k = M(i) + 1 THEN 0 ELSE CityAt(i, u)[k]
              /\ CityOf(u[2 * k - 1]) # CityOf(u[2 * k])
         /\ CityAt(i, u) \in [0 .. M(i) -> Cities(i)] /\ CityAt(i, u)[0] = 0
         /\ \A k \in 1 .. M(i) : CityAt(i, u)[k] \in 1 .. M(i)
         /\ \A j, k \in 0 .. M(i) : CityAt(i, u)[j] = CityAt(i, u)[k] => j = k
<1> DEFINE m == M(i)
           q == CityAt(i, u)
<1>1. m \in Nat /\ m >= 1 /\ Cities(i) = 0 .. m  BY Shape
<1>2. /\ u[1] = 0 /\ u[2 * m + 2] = 1
      /\ \A k \in 1 .. m : CityOf(u[2 * k + 1]) = CityOf(u[2 * k])
  BY DEF Paired
<1>3. /\ \A k \in 1 .. m : CityOf(u[2 * k]) \in 1 .. m
      /\ \A j, k \in 1 .. m : CityOf(u[2 * j]) = CityOf(u[2 * k]) => j = k
      /\ CityOf(0) = 0 /\ CityOf(1) = 0
  BY PairedNodes
<1>4. q = [k \in 0 .. m |-> IF k = 0 THEN 0 ELSE CityOf(u[2 * k])]  BY DEF CityAt
<1> HIDE DEF m, q
<1>5. q[0] = 0 /\ \A k \in 1 .. m : q[k] = CityOf(u[2 * k]) /\ q[k] \in 1 .. m
  <2>1. 0 \in 0 .. m /\ \A k \in 1 .. m : k \in 0 .. m /\ k # 0  BY <1>1
  <2> QED BY <1>3, <1>4, <2>1
<1>6. \A k \in 0 .. m : q[k] \in 0 .. m /\ (q[k] = 0 => k = 0)
  <2> TAKE k \in 0 .. m
  <2>1. CASE k = 0  BY <1>1, <1>5, <2>1
  <2>2. CASE k # 0
    <3>1. k \in 1 .. m  BY <1>1, <2>2
    <3>2. q[k] \in 1 .. m  BY <1>5, <3>1
    <3> QED BY <1>1, <3>2
  <2> QED BY <2>1, <2>2
<1>7. q \in [0 .. m -> Cities(i)]  BY <1>1, <1>4, <1>6
<1>8. ASSUME NEW j \in 0 .. m, NEW k \in 0 .. m, q[j] = q[k] PROVE j = k
  <2>1. CASE j = 0 \/ k = 0  BY <1>5, <1>6, <1>8, <2>1
  <2>2. CASE j # 0 /\ k # 0
    <3>1. j \in 1 .. m /\ k \in 1 .. m  BY <1>1, <2>2
    <3> QED BY <1>3, <1>5, <1>8, <3>1
  <2> QED BY <2>1, <2>2
<1>9. ASSUME NEW k \in 1 .. m + 1
      PROVE  /\ CityOf(u[2 * k - 1]) = q[k - 1]
             /\ CityOf(u[2 * k]) = IF k = m + 1 THEN 0 ELSE q[k]
  <2>1. CityOf(u[2 * k - 1]) = q[k - 1]
    <3>1. CASE k = 1
      <4>1. 2 * k - 1 = 1 /\ k - 1 = 0  BY <3>1
      <4> QED BY <1>2, <1>3, <1>5, <4>1
    <3>2. CASE k # 1
      <4>1. k - 1 \in 1 .. m /\ 2 * (k - 1) + 1 = 2 * k - 1  BY <1>1, <3>2
      <4> QED BY <1>2, <1>5, <4>1
    <3> QED BY <3>1, <3>2
  <2>2. CASE k = m + 1
    <3>1. 2 * k = 2 * m + 2  BY <1>1, <2>2
    <3> QED BY <1>2, <1>3, <2>1, <2>2, <3>1
  <2>3. CASE k # m + 1
    <3>1. k \in 1 .. m  BY <1>1, <2>3
    <3> QED BY <1>5, <2>1, <2>3, <3>1
  <2> QED BY <2>2, <2>3
<1>10. ASSUME NEW k \in 1 .. m + 1
       PROVE  CityOf(u[2 * k - 1]) # CityOf(u[2 * k])
  <2>1. /\ k - 1 \in 0 .. m /\ k - 1 # k
        /\ k = m + 1 => k - 1 # 0
        /\ k # m + 1 => k \in 0 .. m
    BY <1>1
  <2> QED BY <1>6, <1>8, <1>9, <2>1
<1> QED BY <1>5, <1>7, <1>8, <1>9, <1>10 DEF m, q

(* The next city is the one the arcs say. *)
LEMMA AfterIsSuccessor ==
  ASSUME NEW i \in Instances, NEW f, NEW o, NEW succ, Follows(i, f, o, succ)
  PROVE  /\ CityAfter(i, f) = succ
         /\ \A n \in Nodes(i) : CityOf(f[n]) # CityOf(n) =>
                                  succ[CityOf(n)] = CityOf(f[n])
<1>1. /\ o \in [Cities(i) -> BOOLEAN] /\ succ \in [Cities(i) -> Cities(i)]
      /\ \A c \in Cities(i) : succ[c] # c
      /\ \A c \in Cities(i) : f[In(o, c)] = Out(o, c) /\ f[Out(o, c)] = In(o, succ[c])
  BY DEF Follows
<1>2. ASSUME NEW c \in Cities(i)
      PROVE  (CHOOSE d \in {CityOf(f[2 * c]), CityOf(f[2 * c + 1])} : d # c) = succ[c]
  <2> DEFINE D == {CityOf(f[2 * c]), CityOf(f[2 * c + 1])}
  <2>1. {In(o, c), Out(o, c)} = {2 * c, 2 * c + 1} /\ CityOf(Out(o, c)) = c
    <3>1. o \in [Cities(i) -> BOOLEAN]  BY <1>1
    <3>2. CityOf(Out(o, c)) = c  BY <3>1, CityEnds
    <3>3. {In(o, c), Out(o, c)} = {2 * c, 2 * c + 1}  BY <3>1, CityEnds
    <3> QED BY <3>2, <3>3
  <2>2. succ[c] \in Cities(i) /\ CityOf(In(o, succ[c])) = succ[c]
    <3> DEFINE d == succ[c]
    <3>1. d \in Cities(i)  BY <1>1
    <3> HIDE DEF d
    <3>2. CityOf(In(o, d)) = d  BY <1>1, <3>1, CityEnds
    <3> QED BY <3>1, <3>2 DEF d
  <2>3. CityOf(f[In(o, c)]) = c /\ CityOf(f[Out(o, c)]) = succ[c]  BY <1>1, <2>1, <2>2
  <2>4. D = {c, succ[c]}
    <3>1. D = {CityOf(f[In(o, c)]), CityOf(f[Out(o, c)])}
      <4>1. \/ In(o, c) = 2 * c /\ Out(o, c) = 2 * c + 1
            \/ In(o, c) = 2 * c + 1 /\ Out(o, c) = 2 * c
        BY <2>1
      <4> QED BY <4>1
    <3> QED BY <2>3, <3>1
  <2>5. \A d \in D : d # c <=> d = succ[c]  BY <1>1, <2>4
  <2>6. succ[c] \in D  BY <2>4
  <2> HIDE DEF D
  <2>7. (CHOOSE d \in D : d # c) = succ[c]  BY <2>5, <2>6
  <2> QED BY <2>7 DEF D
<1>3. CityAfter(i, f) = succ
  <2>1. CityAfter(i, f) = [c \in Cities(i) |-> succ[c]]  BY <1>2 DEF CityAfter
  <2> QED BY <1>1, <2>1
<1>4. ASSUME NEW n \in Nodes(i), CityOf(f[n]) # CityOf(n)
      PROVE  succ[CityOf(n)] = CityOf(f[n])
  BY <1>4, NodeSteps
<1> QED BY <1>3, <1>4

LEMMA TurnOfWay ==
  ASSUME NEW i \in Instances, NEW f, NEW o, NEW succ, Follows(i, f, o, succ),
         NEW u, Way(i, f, u)
  PROVE  \/ Turn(i, CityAfter(i, f), CityAt(i, u))
         \/ Turn(i, CityAfter(i, f), Turned(i, CityAt(i, u)))
<1> DEFINE m == M(i)
           q == CityAt(i, u)
           r == Turned(i, q)
<1>1. m \in Nat /\ m >= 1 /\ 0 \in Cities(i)  BY Shape
<1>2. Paired(i, u)  BY DEF Way
<1>3. /\ \A k \in 1 .. m + 1 :
            /\ CityOf(u[2 * k - 1]) = q[k - 1]
            /\ CityOf(u[2 * k]) = IF k = m + 1 THEN 0 ELSE q[k]
            /\ CityOf(u[2 * k - 1]) # CityOf(u[2 * k])
      /\ q \in [0 .. m -> Cities(i)] /\ q[0] = 0
      /\ \A k \in 1 .. m : q[k] \in 1 .. m
      /\ \A j, k \in 0 .. m : q[j] = q[k] => j = k
  BY <1>2, LegCities
<1>4. CityAfter(i, f) = succ /\ succ \in [Cities(i) -> Cities(i)]
  BY AfterIsSuccessor DEF Follows
<1>5. \A k \in 1 .. m + 1 : u[2 * k - 1] \in Nodes(i) /\ u[2 * k] \in Nodes(i)
  <2> TAKE k \in 1 .. m + 1
  <2>1. 2 * k - 1 \in 1 .. 2 * m + 2 /\ 2 * k \in 1 .. 2 * m + 2
    <3> HIDE DEF m
    <3> QED BY <1>1
  <2> QED BY <1>2, <2>1, PairedNodes
<1>6. r = [k \in 0 .. m |-> IF k = 0 THEN 0 ELSE q[m + 1 - k]]  BY DEF Turned
<1>7. CASE Forward(i, f, u)
  <2>1. \A k \in 1 .. m + 1 : f[u[2 * k - 1]] = u[2 * k]  BY <1>7 DEF Forward
  <2>2. \A k \in 1 .. m + 1 : succ[CityOf(u[2 * k - 1])] = CityOf(u[2 * k])
    BY <1>3, <1>5, <2>1, AfterIsSuccessor
  <2> HIDE DEF m, q
  <2>3. \A k \in 1 .. m + 1 : succ[q[k - 1]] = IF k = m + 1 THEN 0 ELSE q[k]
    BY <1>3, <2>2
  <2>4. ASSUME NEW k \in 0 .. m - 1 PROVE succ[q[k]] = q[k + 1]
    <3>1. k + 1 \in 1 .. m + 1 /\ (k + 1) - 1 = k /\ k + 1 # m + 1  BY <1>1
    <3> QED BY <2>3, <3>1
  <2>5. succ[q[m]] = 0
    <3>1. m + 1 \in 1 .. m + 1 /\ (m + 1) - 1 = m  BY <1>1
    <3> QED BY <2>3, <3>1
  <2>6. Turn(i, succ, q)  BY <1>3, <1>4, <2>4, <2>5 DEF Turn, m
  <2> QED BY <1>4, <2>6 DEF q
<1>8. CASE Backward(i, f, u)
  <2>1. \A k \in 1 .. m + 1 : f[u[2 * k]] = u[2 * k - 1]  BY <1>8 DEF Backward
  <2>2. ASSUME NEW k \in 1 .. m + 1
        PROVE  succ[CityOf(u[2 * k])] = CityOf(u[2 * k - 1])
    <3> DEFINE n == u[2 * k]
    <3>1. n \in Nodes(i) /\ f[n] = u[2 * k - 1] /\ CityOf(u[2 * k - 1]) # CityOf(n)
      BY <1>3, <1>5, <2>1
    <3> HIDE DEF n
    <3>2. succ[CityOf(n)] = CityOf(f[n])  BY <3>1, AfterIsSuccessor
    <3> QED BY <3>1, <3>2 DEF n
  <2> HIDE DEF m, q, r
  <2>3. \A k \in 1 .. m + 1 : succ[IF k = m + 1 THEN 0 ELSE q[k]] = q[k - 1]
    BY <1>3, <2>2
  <2>4. /\ 0 \in 0 .. m
        /\ \A k \in 1 .. m : m + 1 - k \in 1 .. m /\ k \in 0 .. m /\ m + 1 - k \in 0 .. m
    BY <1>1
  <2>5. r[0] = 0 /\ \A k \in 1 .. m : r[k] = q[m + 1 - k]  BY <1>6, <2>4
  <2>6. r \in [0 .. m -> Cities(i)]
    <3>1. ASSUME NEW k \in 0 .. m
          PROVE  (IF k = 0 THEN 0 ELSE q[m + 1 - k]) \in Cities(i)
      <4>1. 0 \in Cities(i)  BY <1>1
      <4>2. CASE k # 0
        <5>1. k \in 1 .. m  BY <1>1, <4>2
        <5> QED BY <1>3, <2>4, <4>2, <5>1
      <4> QED BY <4>1, <4>2
    <3> QED BY <1>6, <3>1
  <2>7. ASSUME NEW j \in 0 .. m, NEW k \in 0 .. m, r[j] = r[k] PROVE j = k
    <3>1. ASSUME NEW l \in 1 .. m PROVE r[l] \in 1 .. m
      <4>1. r[l] = q[m + 1 - l] /\ m + 1 - l \in 1 .. m  BY <2>4, <2>5
      <4> QED BY <1>3, <4>1
    <3>2. CASE j = 0 \/ k = 0
      <4>1. \A l \in 0 .. m : r[l] = 0 => l = 0
        <5> TAKE l \in 0 .. m
        <5>1. l # 0 => l \in 1 .. m  BY <1>1
        <5> QED BY <1>1, <3>1, <5>1
      <4> QED BY <2>5, <2>7, <3>2, <4>1
    <3>3. CASE j # 0 /\ k # 0
      <4>1. j \in 1 .. m /\ k \in 1 .. m  BY <1>1, <3>3
      <4>2. q[m + 1 - j] = q[m + 1 - k]  BY <2>5, <2>7, <4>1
      <4>3. m + 1 - j = m + 1 - k  BY <1>3, <2>4, <4>1, <4>2
      <4> QED BY <1>1, <4>3
    <3> QED BY <3>2, <3>3
  <2>8. ASSUME NEW k \in 0 .. m - 1 PROVE succ[r[k]] = r[k + 1]
    <3>1. CASE k = 0
      <4>1. /\ m + 1 \in 1 .. m + 1 /\ (m + 1) - 1 = m
            /\ k + 1 \in 1 .. m /\ m + 1 - (k + 1) = m
        BY <1>1, <3>1
      <4>2. succ[0] = q[m]  BY <2>3, <4>1
      <4>3. r[k + 1] = q[m]  BY <2>5, <4>1
      <4> QED BY <2>5, <3>1, <4>2, <4>3
    <3>2. CASE k # 0
      <4> DEFINE j == m + 1 - k
      <4>1. /\ k \in 1 .. m /\ k + 1 \in 1 .. m /\ m + 1 - (k + 1) = j - 1
            /\ j \in 1 .. m + 1 /\ j # m + 1
        BY <1>1, <3>2
      <4>2. succ[q[j]] = q[j - 1]
        <5> HIDE DEF j
        <5> QED BY <2>3, <4>1
      <4> QED BY <2>5, <4>1, <4>2
    <3> QED BY <3>1, <3>2
  <2>9. succ[r[m]] = 0
    <3>1. /\ m \in 1 .. m /\ m + 1 - m = 1 /\ 1 \in 1 .. m + 1 /\ 1 # m + 1
          /\ 1 - 1 = 0
      BY <1>1
    <3>2. r[m] = q[1] /\ succ[q[1]] = q[0]  BY <2>3, <2>5, <3>1
    <3> QED BY <1>3, <3>2
  <2>10. Turn(i, succ, r)  BY <1>4, <2>5, <2>6, <2>7, <2>8, <2>9 DEF Turn, m
  <2> QED BY <1>4, <2>10 DEF r, q
<1> QED BY <1>7, <1>8 DEF Way

(* The order fits if each run between its stops does. *)
LEMMA FitsOfReading ==
  ASSUME NEW i \in Instances, NEW u, Paired(i, u)
  PROVE  Fits(i, Reading(i, u)) <=> RunsFit(i, CityAt(i, u))
<1> DEFINE m == M(i)
           q == CityAt(i, u)
           o == Reading(i, u)
<1>1. m \in Nat /\ NumStations(i) \in Nat  BY Shape
<1>2. /\ \A k \in 1 .. m : q[k] \in 1 .. m
      /\ Len(o) = m /\ DOMAIN o = 1 .. m
  BY LegCities, ReadingType
<1>3. \A k \in 1 .. m : o[k].city = q[k]
  <2> TAKE k \in 1 .. m
  <2>1. o[k] = Visit(u[2 * k])  BY ReadingType
  <2>2. k \in 0 .. m /\ k # 0  BY <1>1
  <2>3. q[k] = CityOf(u[2 * k])  BY <2>2 DEF CityAt
  <2> QED BY <2>1, <2>3 DEF Visit
<1>4. \A c \in 1 .. m : c \in Ports(i) <=> c \notin Stations(i)
  <2>1. Ports(i) = NumStations(i) + 1 .. m  BY DEF Ports, M
  <2> HIDE DEF m
  <2> QED BY <1>1, <2>1 DEF Stations
<1> HIDE DEF q, o
<1>5. Stops(i, o) = StopsOf(i, q)
  <2>1. PortCalls(i, o) = {k \in 1 .. m : q[k] \notin Stations(i)}
    BY <1>2, <1>3, <1>4 DEF PortCalls
  <2> QED BY <1>2, <2>1 DEF Stops, StopsOf
<1>6. ASSUME NEW a \in StopsOf(i, q), NEW b \in StopsOf(i, q)
      PROVE  StationsBetween(o, a, b) = Run(q, a, b)
  <2>1. a \in 0 .. m + 1 /\ b \in 0 .. m + 1  BY <1>1 DEF StopsOf
  <2> HIDE DEF m
  <2>2. \A k \in 1 .. b - a - 1 : a + k \in 1 .. m  BY <1>1, <2>1
  <2>3. \A k \in 1 .. b - a - 1 : o[a + k].city = q[a + k]  BY <1>3, <2>2
  <2> QED BY <2>3 DEF StationsBetween, Run
<1>7. Fits(i, o) <=>
        \A a, b \in StopsOf(i, q) : Adjacent(a, b, StopsOf(i, q)) =>
          CatchOf(i, StationsBetween(o, a, b)) <= i.capacity
  BY <1>5 DEF Fits, Adjacent
<1> QED BY <1>6, <1>7 DEF RunsFit, q, o

LEMMA AmountType ==
  ASSUME NEW i \in Instances, NEW c
  PROVE  Amount(i, c) \in Int
<1>1. i.amount \in Seq(Nat) /\ Len(i.amount) = Len(i.start)
  BY InstanceAssumption DEF InstanceType
<1>2. CASE c \in Stations(i)
  <2>1. c \in 1 .. Len(i.amount)  BY <1>1, <1>2 DEF Stations, NumStations
  <2>2. i.amount[c] \in Nat  BY <1>1, <2>1, ElementOfSeq
  <2> QED BY <1>2, <2>2 DEF Amount
<1>3. CASE c \notin Stations(i)  BY <1>3 DEF Amount
<1> QED BY <1>2, <1>3

LEMMA CatchIsTotal ==
  ASSUME NEW i, NEW n \in Nat, NEW s, DOMAIN s = 1 .. n
  PROVE  CatchOf(i, s) = Total([k \in 1 .. n |-> Amount(i, s[k])], 1 .. n)
<1> DEFINE g == [k \in DOMAIN s |-> Amount(i, s[k])]
<1>1. CatchOf(i, s) = FoldFunctionOnSet(+, 0, g, DOMAIN g)  BY DEF CatchOf, Sum
<1>2. DOMAIN g = 1 .. n /\ g = [k \in 1 .. n |-> Amount(i, s[k])]  OBVIOUS
<1> HIDE DEF g
<1> QED BY <1>1, <1>2, FoldOnSetIsTotal

(* Turning round changes neither the stops nor the loads. *)
LEMMA RunsFitTurned ==
  ASSUME NEW i \in Instances, NEW q, RunsFit(i, q)
  PROVE  RunsFit(i, Turned(i, q))
<1> DEFINE m == M(i)
           r == Turned(i, q)
<1>1. m \in Nat  BY Shape
<1>2. \A k \in 1 .. m : r[k] = q[m + 1 - k]
  <2>1. \A k \in 1 .. m : k \in 0 .. m /\ k # 0  BY <1>1
  <2> QED BY <2>1 DEF Turned
<1>3. /\ \A s \in StopsOf(i, r) : s \in 0 .. m + 1
      /\ \A s \in StopsOf(i, q) : s \in 0 .. m + 1
  BY <1>1 DEF StopsOf
<1>4. \A s \in 0 .. m + 1 : s \in StopsOf(i, r) <=> m + 1 - s \in StopsOf(i, q)
  <2> TAKE s \in 0 .. m + 1
  <2>1. CASE s = 0 \/ s = m + 1
    <3>1. m + 1 - s = m + 1 \/ m + 1 - s = 0  BY <1>1, <2>1
    <3> QED BY <2>1, <3>1 DEF StopsOf
  <2>2. CASE s # 0 /\ s # m + 1
    <3>1. s \in 1 .. m /\ m + 1 - s \in 1 .. m
      <4> HIDE DEF m
      <4> QED BY <1>1, <2>2
    <3>2. s \in StopsOf(i, r) <=> r[s] \notin Stations(i)
      BY <2>2, <3>1 DEF StopsOf
    <3>3. m + 1 - s # 0 /\ m + 1 - s # m + 1  BY <1>1, <3>1
    <3>4. m + 1 - s \in StopsOf(i, q) <=> q[m + 1 - s] \notin Stations(i)
      BY <3>1, <3>3 DEF StopsOf
    <3> QED BY <1>2, <3>1, <3>2, <3>4
  <2> QED BY <2>1, <2>2
<1> HIDE DEF m, r
<1> SUFFICES ASSUME NEW a \in StopsOf(i, r), NEW b \in StopsOf(i, r),
                    Adjacent(a, b, StopsOf(i, r))
             PROVE  CatchOf(i, Run(r, a, b)) <= i.capacity
  BY DEF RunsFit, r
<1> DEFINE x == m + 1 - b
           y == m + 1 - a
           n == b - a - 1
<1>5. /\ a \in 0 .. m + 1 /\ b \in 0 .. m + 1 /\ a < b
      /\ \A s \in StopsOf(i, r) : s <= a \/ b <= s
  BY <1>3 DEF Adjacent
<1>6. x \in StopsOf(i, q) /\ y \in StopsOf(i, q)  BY <1>4, <1>5
<1>7. x < y /\ x \in 0 .. m + 1 /\ y \in 0 .. m + 1 /\ y - x - 1 = n /\ n \in Nat
  BY <1>1, <1>5
<1>8. ASSUME NEW s \in StopsOf(i, q) PROVE s <= x \/ y <= s
  <2>1. s \in 0 .. m + 1  BY <1>3
  <2>2. m + 1 - s \in 0 .. m + 1 /\ m + 1 - (m + 1 - s) = s  BY <1>1, <2>1
  <2>3. m + 1 - s \in StopsOf(i, r)  BY <1>4, <2>2
  <2>4. m + 1 - s <= a \/ b <= m + 1 - s  BY <1>5, <2>3
  <2> QED BY <1>1, <1>5, <2>1, <2>4
<1>9. Adjacent(x, y, StopsOf(i, q))  BY <1>6, <1>7, <1>8 DEF Adjacent
<1>10. CatchOf(i, Run(q, x, y)) <= i.capacity
  <2> HIDE DEF x, y
  <2> QED BY <1>6, <1>9 DEF RunsFit
<1> DEFINE g == [k \in 1 .. n |-> Amount(i, Run(r, a, b)[k])]
           h == [k \in 1 .. n |-> Amount(i, Run(q, x, y)[k])]
           e == [k \in 1 .. n |-> n + 1 - k]
<1>11. /\ CatchOf(i, Run(r, a, b)) = Total(g, 1 .. n)
       /\ CatchOf(i, Run(q, x, y)) = Total(h, 1 .. n)
  <2>1. DOMAIN Run(r, a, b) = 1 .. n /\ DOMAIN Run(q, x, y) = 1 .. n
    <3>1. DOMAIN Run(r, a, b) = 1 .. b - a - 1 /\ DOMAIN Run(q, x, y) = 1 .. y - x - 1
      BY DEF Run
    <3> HIDE DEF x, y
    <3> QED BY <1>7, <3>1 DEF n
  <2>2. n \in Nat  BY <1>7
  <2> HIDE DEF n, x, y
  <2> QED BY <2>1, <2>2, CatchIsTotal
<1>12. ASSUME NEW k \in 1 .. n
       PROVE  /\ n + 1 - k \in 1 .. n
              /\ Run(r, a, b)[k] = r[a + k]
              /\ Run(q, x, y)[n + 1 - k] = r[a + k]
  <2>1. n + 1 - k \in 1 .. n  BY <1>7
  <2>2. Run(r, a, b)[k] = r[a + k]  BY DEF Run
  <2>3. Run(q, x, y)[n + 1 - k] = q[x + (n + 1 - k)]
    <3> DEFINE l == n + 1 - k
    <3>1. l \in 1 .. y - x - 1
      <4> HIDE DEF x, y, n
      <4> QED BY <1>7, <2>1
    <3> HIDE DEF l, x, y
    <3>2. Run(q, x, y)[l] = q[x + l]  BY <3>1 DEF Run
    <3> QED BY <3>2 DEF l
  <2>4. a + k \in 1 .. m /\ x + (n + 1 - k) = m + 1 - (a + k)  BY <1>1, <1>5
  <2>5. r[a + k] = q[m + 1 - (a + k)]  BY <1>2, <2>4
  <2> QED BY <2>1, <2>2, <2>3, <2>4, <2>5
<1> HIDE DEF n, x, y
<1>13. \A k \in 1 .. n : g[k] \in Int /\ h[e[k]] = g[k]  BY <1>12, AmountType
<1>14. e \in [1 .. n -> 1 .. n] /\ \A j, k \in 1 .. n : e[j] = e[k] => j = k
  <2>1. e \in [1 .. n -> 1 .. n]  BY <1>12
  <2>2. ASSUME NEW j \in 1 .. n, NEW k \in 1 .. n, e[j] = e[k] PROVE j = k
    <3>1. n + 1 - j = n + 1 - k  BY <2>2
    <3> QED BY <1>7, <3>1
  <2> QED BY <2>1, <2>2
<1>15. \A l \in 1 .. n : l \notin {e[k] : k \in 1 .. n} => h[l] = 0
  <2> SUFFICES ASSUME NEW l \in 1 .. n PROVE \E k \in 1 .. n : e[k] = l  OBVIOUS
  <2>1. n + 1 - l \in 1 .. n /\ n + 1 - (n + 1 - l) = l  BY <1>7
  <2> QED BY <2>1
<1>16. IsFiniteSet(1 .. n)  BY <1>7, FS_Interval
<1> HIDE DEF g, h, e
<1> DEFINE I == 1 .. n
<1>17. Total(h, I) = Total(g, I)
  <2>1. /\ IsFiniteSet(I) /\ e \in [I -> I] /\ \A j, k \in I : e[j] = e[k] => j = k
        /\ \A k \in I : g[k] \in Int /\ h[e[k]] = g[k]
        /\ \A l \in I : l \notin {e[k] : k \in I} => h[l] = 0
    BY <1>13, <1>14, <1>15, <1>16
  <2> HIDE DEF I
  <2> QED BY <2>1, TotalImage
<1> QED BY <1>10, <1>11, <1>17

LEMMA TurnedTwice ==
  ASSUME NEW i \in Instances, NEW q \in [0 .. M(i) -> Cities(i)], q[0] = 0
  PROVE  Turned(i, Turned(i, q)) = q
<1> DEFINE m == M(i)
           r == Turned(i, q)
           p == Turned(i, r)
<1>1. m \in Nat  BY Shape
<1>2. /\ r = [k \in 0 .. m |-> IF k = 0 THEN 0 ELSE q[m + 1 - k]]
      /\ p = [k \in 0 .. m |-> IF k = 0 THEN 0 ELSE r[m + 1 - k]]
      /\ q = [k \in 0 .. m |-> q[k]]
  BY DEF Turned
<1> HIDE DEF m, r, p
<1>3. ASSUME NEW k \in 0 .. m PROVE p[k] = q[k]
  <2>1. CASE k = 0  BY <1>2, <2>1
  <2>2. CASE k # 0
    <3>1. m + 1 - k \in 0 .. m /\ m + 1 - k # 0 /\ m + 1 - (m + 1 - k) = k
      BY <1>1, <2>2
    <3>2. p[k] = r[m + 1 - k]  BY <1>2, <2>2
    <3>3. r[m + 1 - k] = q[m + 1 - (m + 1 - k)]  BY <1>2, <3>1
    <3> QED BY <3>1, <3>2, <3>3
  <2> QED BY <2>1, <2>2
<1>4. p = [k \in 0 .. m |-> q[k]]  BY <1>2, <1>3
<1> QED BY <1>2, <1>4 DEF p, r

(* A solution that is one tour is worth its order: it costs the order's    *)
(* length, and has loads if the order never overloads the boat.            *)
LEMMA WholeIsOrder ==
  ASSUME NEW i \in Instances, NEW f \in Assignments(i), Whole(i, f)
  PROVE  /\ OrderOf(f) \in AllOrders(i)
         /\ Cost(i, f) = Length(i, Transits(i, OrderOf(f)))
         /\ FlowExists(i, f) <=> Fits(i, OrderOf(f))
<1> DEFINE u == Oriented(FindSubtour(f))
           q == CityAt(i, u)
<1>1. Way(i, f, u) /\ OrderOf(f) = Reading(i, u)  BY WholeIsWay
<1>2. PICK o, succ : Follows(i, f, o, succ)  BY ArcsFollow
<1> HIDE DEF u
<1>3. Paired(i, u)  BY <1>1 DEF Way
<1>4. OrderOf(f) \in AllOrders(i)  BY <1>1, <1>3, ReadingIsOrder
<1>5. Cost(i, f) = Length(i, Transits(i, OrderOf(f)))
  <2>1. f \in [Nodes(i) -> Nodes(i)]  BY <1>2 DEF Follows
  <2> QED BY <1>1, <2>1, CostOfWay
<1>6. q \in [0 .. M(i) -> Cities(i)] /\ q[0] = 0  BY <1>3, LegCities
<1>7. Fits(i, OrderOf(f)) <=> RunsFit(i, q)  BY <1>1, <1>3, FitsOfReading
<1>8. Turn(i, CityAfter(i, f), q) \/ Turn(i, CityAfter(i, f), Turned(i, q))
  BY <1>1, <1>2, TurnOfWay
<1>9. RunsFit(i, q) <=> RunsFit(i, Turned(i, q))
  BY <1>6, RunsFitTurned, TurnedTwice
<1> HIDE DEF q
<1>10. FlowExists(i, f) <=> RunsFit(i, q)  BY <1>8, <1>9, FlowOfTurn
<1> QED BY <1>4, <1>5, <1>7, <1>10

-----------------------------------------------------------------------------
(* Orders are solutions *)

Successions(i) ==
  {p \in Bijection(Cities(i), Cities(i)) : \A c \in Cities(i) : p[c] # c}

LEMMA ArcsAreAssignment ==
  ASSUME NEW i \in Instances, NEW o \in [Cities(i) -> BOOLEAN], NEW succ \in Successions(i)
  PROVE  Arcs(i, o, succ) \in Assignments(i) /\ Follows(i, Arcs(i, o, succ), o, succ)
<1> DEFINE f == Arcs(i, o, succ)
<1>1. f \in Assignments(i)  BY DEF Assignments, Successions
<1>2. /\ succ \in [Cities(i) -> Cities(i)] /\ \A c \in Cities(i) : succ[c] # c
      /\ \A c, d \in Cities(i) : succ[c] = succ[d] => c = d
  BY DEF Successions, Bijection, Injection, IsInjective
<1>3. ASSUME NEW c \in Cities(i)
      PROVE  f[In(o, c)] = Out(o, c) /\ f[Out(o, c)] = In(o, succ[c])
  BY CityEnds DEF Arcs
<1>4. f \in [Nodes(i) -> Nodes(i)]
  <2>1. ASSUME NEW n \in Nodes(i) PROVE f[n] \in Nodes(i)
    BY <1>2, <1>3, NodeEnds, CityEnds
  <2>2. f = [n \in Nodes(i) |-> f[n]]  BY DEF Arcs
  <2> QED BY <2>1, <2>2
<1> QED BY <1>1, <1>2, <1>3, <1>4 DEF Follows

(* The cities of an order of all, with the dock before them. *)
Stations0(i, o) == [k \in 0 .. M(i) |-> IF k = 0 THEN 0 ELSE o[k].city]

(* How an order enters its cities, and which comes next. *)
Place(i, o, c) == CHOOSE k \in 0 .. M(i) : Stations0(i, o)[k] = c
EnteredBack(i, o) ==
  [c \in Cities(i) |-> IF Place(i, o, c) = 0 THEN TRUE ELSE o[Place(i, o, c)].back]
NextCity(i, o) ==
  [c \in Cities(i) |-> IF Place(i, o, c) = M(i) THEN 0
                       ELSE Stations0(i, o)[Place(i, o, c) + 1]]

LEMMA PlacesOfOrder ==
  ASSUME NEW i \in Instances, NEW o \in AllOrders(i)
  PROVE  /\ o \in [1 .. M(i) -> [city : 1 .. M(i), back : BOOLEAN]]
         /\ Stations0(i, o) \in [0 .. M(i) -> Cities(i)] /\ Stations0(i, o)[0] = 0
         /\ \A j, k \in 0 .. M(i) : Stations0(i, o)[j] = Stations0(i, o)[k] => j = k
         /\ \A c \in Cities(i) : /\ Place(i, o, c) \in 0 .. M(i)
                                 /\ Stations0(i, o)[Place(i, o, c)] = c
         /\ \A k \in 0 .. M(i) : Place(i, o, Stations0(i, o)[k]) = k
<1> DEFINE m == M(i)
           q == Stations0(i, o)
           D == Cities(i)
           w == [k \in 1 .. m + 1 |-> q[k - 1]]
<1>1. m \in Nat /\ m >= 1 /\ D = 0 .. m /\ IsFiniteSet(D) /\ Cardinality(D) = m + 1
  BY Shape
<1>2. /\ o \in [1 .. m -> [city : 1 .. m, back : BOOLEAN]]
      /\ \A j, k \in 1 .. m : o[j].city = o[k].city => j = k
  BY AllOrdersIs
<1>3. q = [k \in 0 .. m |-> IF k = 0 THEN 0 ELSE o[k].city]  BY DEF Stations0
<1> HIDE DEF m, q, D
<1>4. \A k \in 1 .. m : o[k].city \in 1 .. m  BY <1>2
<1>5. q[0] = 0 /\ \A k \in 1 .. m : q[k] = o[k].city /\ q[k] \in 1 .. m
  <2>1. 0 \in 0 .. m /\ \A k \in 1 .. m : k \in 0 .. m /\ k # 0  BY <1>1
  <2> QED BY <1>3, <1>4, <2>1
<1>6. \A k \in 0 .. m : q[k] \in 0 .. m /\ (q[k] = 0 => k = 0)
  <2> TAKE k \in 0 .. m
  <2>1. CASE k = 0  BY <1>1, <1>5, <2>1
  <2>2. CASE k # 0
    <3>1. k \in 1 .. m  BY <1>1, <2>2
    <3>2. q[k] \in 1 .. m  BY <1>5, <3>1
    <3> QED BY <1>1, <3>2
  <2> QED BY <2>1, <2>2
<1>7. q \in [0 .. m -> D]  BY <1>1, <1>3, <1>6
<1>8. ASSUME NEW j \in 0 .. m, NEW k \in 0 .. m, q[j] = q[k] PROVE j = k
  <2>1. CASE j = 0 \/ k = 0  BY <1>5, <1>6, <1>8, <2>1
  <2>2. CASE j # 0 /\ k # 0
    <3>1. j \in 1 .. m /\ k \in 1 .. m  BY <1>1, <2>2
    <3>2. o[j].city = o[k].city  BY <1>5, <1>8, <3>1
    <3> QED BY <1>2, <3>1, <3>2
  <2> QED BY <2>1, <2>2
<1>9. \A k \in 1 .. m + 1 : k - 1 \in 0 .. m  BY <1>1
<1>10. w \in [1 .. m + 1 -> D] /\ \A j, k \in 1 .. m + 1 : w[j] = w[k] => j = k
  <2>1. w \in [1 .. m + 1 -> D]  BY <1>7, <1>9
  <2>2. ASSUME NEW j \in 1 .. m + 1, NEW k \in 1 .. m + 1, w[j] = w[k] PROVE j = k
    <3>1. q[j - 1] = q[k - 1]  BY <2>2
    <3>2. j - 1 = k - 1  BY <1>8, <1>9, <3>1
    <3> QED BY <3>2
  <2> QED BY <2>1, <2>2
<1>11. \A c \in D : \E k \in 1 .. m + 1 : w[k] = c
  <2> DEFINE n == Cardinality(D)
  <2>0. IsFiniteSet(D)  BY <1>1
  <2>1. n = m + 1  BY <1>1
  <2> HIDE DEF w
  <2>2. w \in [1 .. n -> D] /\ \A j, k \in 1 .. n : w[j] = w[k] => j = k
    BY <1>10, <2>1
  <2>3. \A c \in D : \E k \in 1 .. n : w[k] = c
    BY ONLY <2>0, <2>2, AllAreMet
  <2> QED BY <2>1, <2>3 DEF w
<1>12. \A c \in D : \E k \in 0 .. m : q[k] = c  BY <1>9, <1>11
<1>13. \A c \in D : Place(i, o, c) \in 0 .. m /\ q[Place(i, o, c)] = c
  BY <1>12 DEF Place, q, m
<1>14. ASSUME NEW k \in 0 .. m PROVE Place(i, o, q[k]) = k
  <2>1. q[k] \in D  BY <1>7
  <2>2. Place(i, o, q[k]) \in 0 .. m /\ q[Place(i, o, q[k])] = q[k]  BY <1>13, <2>1
  <2> QED BY <1>8, <2>2
<1> QED BY <1>2, <1>5, <1>7, <1>8, <1>13, <1>14 DEF m, q, D

LEMMA NextCityOfOrder ==
  ASSUME NEW i \in Instances, NEW o \in AllOrders(i)
  PROVE  /\ NextCity(i, o) \in Successions(i)
         /\ EnteredBack(i, o) \in [Cities(i) -> BOOLEAN]
         /\ EnteredBack(i, o)[0] = TRUE
         /\ \A k \in 1 .. M(i) : EnteredBack(i, o)[Stations0(i, o)[k]] = o[k].back
         /\ \A k \in 0 .. M(i) - 1 :
              NextCity(i, o)[Stations0(i, o)[k]] = Stations0(i, o)[k + 1]
         /\ NextCity(i, o)[Stations0(i, o)[M(i)]] = 0
<1> DEFINE m == M(i)
           q == Stations0(i, o)
           D == Cities(i)
           P(c) == Place(i, o, c)
           next == NextCity(i, o)
           b == EnteredBack(i, o)
<1>1. m \in Nat /\ m >= 1 /\ D = 0 .. m  BY Shape
<1>2. /\ o \in [1 .. m -> [city : 1 .. m, back : BOOLEAN]]
      /\ q \in [0 .. m -> D] /\ q[0] = 0
      /\ \A j, k \in 0 .. m : q[j] = q[k] => j = k
      /\ \A c \in D : P(c) \in 0 .. m /\ q[P(c)] = c
      /\ \A k \in 0 .. m : P(q[k]) = k
  BY PlacesOfOrder
<1>3. /\ next = [c \in D |-> IF P(c) = m THEN 0 ELSE q[P(c) + 1]]
      /\ b = [c \in D |-> IF P(c) = 0 THEN TRUE ELSE o[P(c)].back]
  BY DEF NextCity, EnteredBack
<1> HIDE DEF m, q, D, P, next, b
<1>4. 0 \in 0 .. m /\ m \in 0 .. m /\ 0 \in D
      /\ \A k \in 0 .. m : /\ k # m => k + 1 \in 0 .. m /\ k + 1 # 0 /\ k + 1 # k
                           /\ k # 0 => k \in 1 .. m
  BY <1>1
<1>5. ASSUME NEW c \in D
      PROVE  next[c] \in D /\ next[c] # c
  <2>1. CASE P(c) = m
    <3>1. next[c] = 0  BY <1>3, <2>1
    <3>2. c # 0
      <4>1. P(0) = 0  BY <1>2, <1>4
      <4> QED BY <1>1, <2>1, <4>1
    <3> QED BY <1>4, <3>1, <3>2
  <2>2. CASE P(c) # m
    <3>1. P(c) + 1 \in 0 .. m /\ P(c) + 1 # P(c)  BY <1>2, <1>4, <2>2
    <3>2. next[c] = q[P(c) + 1]  BY <1>3, <2>2
    <3>3. P(next[c]) = P(c) + 1  BY <1>2, <3>1, <3>2
    <3> QED BY <1>2, <3>1, <3>2, <3>3
  <2> QED BY <2>1, <2>2
<1>6. next \in [D -> D]  BY <1>3, <1>5
<1>7. ASSUME NEW c \in D
      PROVE  P(next[c]) = IF P(c) = m THEN 0 ELSE P(c) + 1
  <2>1. CASE P(c) = m  BY <1>2, <1>3, <1>4, <2>1
  <2>2. CASE P(c) # m
    <3>1. P(c) + 1 \in 0 .. m  BY <1>2, <1>4, <2>2
    <3> QED BY <1>2, <1>3, <2>2, <3>1
  <2> QED BY <2>1, <2>2
<1>8. ASSUME NEW c \in D, NEW d \in D, next[c] = next[d] PROVE c = d
  <2>1. P(next[c]) = P(next[d])  BY <1>8
  <2>2. (IF P(c) = m THEN 0 ELSE P(c) + 1) = (IF P(d) = m THEN 0 ELSE P(d) + 1)
    BY <1>7, <2>1
  <2>3. P(c) \in 0 .. m /\ P(d) \in 0 .. m /\ q[P(c)] = c /\ q[P(d)] = d  BY <1>2
  <2>4. P(c) = P(d)
    <3> DEFINE x == P(c)
               y == P(d)
    <3> HIDE DEF x, y
    <3>1. x \in 0 .. m /\ y \in 0 .. m
          /\ (IF x = m THEN 0 ELSE x + 1) = (IF y = m THEN 0 ELSE y + 1)
      BY <2>2, <2>3 DEF x, y
    <3>2. x = y  BY <1>1, <3>1
    <3> QED BY <3>2 DEF x, y
  <2> QED BY <2>3, <2>4
<1>9. ASSUME NEW d \in D PROVE \E c \in D : next[c] = d
  <2>1. P(d) \in 0 .. m /\ q[P(d)] = d  BY <1>2
  <2>2. CASE P(d) = 0
    <3>1. q[m] \in D /\ P(q[m]) = m  BY <1>2, <1>4
    <3>2. next[q[m]] = 0  BY <1>3, <3>1
    <3>3. d = 0  BY <1>2, <2>1, <2>2
    <3> QED BY <3>1, <3>2, <3>3
  <2>3. CASE P(d) # 0
    <3>1. P(d) - 1 \in 0 .. m /\ P(d) - 1 # m /\ (P(d) - 1) + 1 = P(d)
      BY <1>1, <2>1, <2>3
    <3> DEFINE c == q[P(d) - 1]
    <3>2. c \in D /\ P(c) = P(d) - 1  BY <1>2, <3>1
    <3> HIDE DEF c
    <3>3. next[c] = q[P(c) + 1]  BY <1>3, <3>1, <3>2
    <3>4. next[c] = d  BY <2>1, <3>1, <3>2, <3>3
    <3> QED BY <3>2, <3>4
  <2> QED BY <2>2, <2>3
<1>10. next \in Bijection(D, D)
  <2>1. next \in Injection(D, D)  BY <1>6, <1>8 DEF Injection, IsInjective
  <2>2. next \in Surjection(D, D)  BY <1>6, <1>9 DEF Surjection
  <2> QED BY <2>1, <2>2 DEF Bijection
<1>11. next \in Successions(i)  BY <1>5, <1>10 DEF Successions, D
<1>12. b \in [D -> BOOLEAN]
  <2>1. ASSUME NEW c \in D PROVE (IF P(c) = 0 THEN TRUE ELSE o[P(c)].back) \in BOOLEAN
    <3>1. CASE P(c) = 0  BY <3>1
    <3>2. CASE P(c) # 0
      <4>1. P(c) \in 1 .. m  BY <1>2, <1>4, <3>2
      <4>2. o[P(c)].back \in BOOLEAN  BY <1>2, <4>1
      <4> QED BY <3>2, <4>2
    <3> QED BY <3>1, <3>2
  <2> QED BY <1>3, <2>1
<1>13. b[0] = TRUE
  <2>1. P(0) = 0  BY <1>2, <1>4
  <2> QED BY <1>3, <1>4, <2>1
<1>14. ASSUME NEW k \in 1 .. m PROVE b[q[k]] = o[k].back
  <2>1. k \in 0 .. m /\ k # 0  BY <1>1
  <2>2. q[k] \in D /\ P(q[k]) = k  BY <1>2, <2>1
  <2> QED BY <1>3, <2>1, <2>2
<1>15. ASSUME NEW k \in 0 .. m - 1 PROVE next[q[k]] = q[k + 1]
  <2>1. k \in 0 .. m /\ k # m  BY <1>1
  <2>2. q[k] \in D /\ P(q[k]) = k  BY <1>2, <2>1
  <2> QED BY <1>3, <2>1, <2>2
<1>16. next[q[m]] = 0
  <2>1. q[m] \in D /\ P(q[m]) = m  BY <1>2, <1>4
  <2> QED BY <1>3, <2>1
<1> QED BY <1>11, <1>12, <1>13, <1>14, <1>15, <1>16 DEF m, q, D, next, b

(* Each order is read off a solution that is one tour. *)
LEMMA OrderHasSolution ==
  ASSUME NEW i \in Instances, NEW o \in AllOrders(i)
  PROVE  \E f \in Assignments(i) : Whole(i, f) /\ OrderOf(f) = o
<1> DEFINE m == M(i)
           N == 2 * m + 2
           q == Stations0(i, o)
           D == Nodes(i)
           b == EnteredBack(i, o)
           next == NextCity(i, o)
           f == Arcs(i, b, next)
           Q(k) == IF k = m + 1 THEN 0 ELSE q[k]
           u == [j \in 1 .. N |-> IF j % 2 = 1 THEN Out(b, Q(j \div 2)) ELSE In(b, Q(j \div 2))]
<1>1. /\ m \in Nat /\ m >= 1 /\ Cardinality(D) = N /\ D \subseteq Nat /\ D # {}
      /\ 0 \in D /\ \A d \in D : 0 <= d
  BY Shape
<1>2. /\ o \in [1 .. m -> [city : 1 .. m, back : BOOLEAN]]
      /\ q \in [0 .. m -> Cities(i)] /\ q[0] = 0
      /\ \A j, k \in 0 .. m : q[j] = q[k] => j = k
  BY PlacesOfOrder
<1>3. /\ next \in Successions(i) /\ b \in [Cities(i) -> BOOLEAN] /\ b[0] = TRUE
      /\ \A k \in 1 .. m : b[q[k]] = o[k].back
      /\ \A k \in 0 .. m - 1 : next[q[k]] = q[k + 1]
      /\ next[q[m]] = 0
  BY NextCityOfOrder
<1>4. f \in Assignments(i) /\ Follows(i, f, b, next)  BY <1>3, ArcsAreAssignment
<1>5. q = [k \in 0 .. m |-> IF k = 0 THEN 0 ELSE o[k].city]  BY DEF Stations0
<1> HIDE DEF m, q, D, b, next, f
<1>6. /\ Cycles(f, D)
      /\ \A c \in Cities(i) : f[In(b, c)] = Out(b, c) /\ f[Out(b, c)] = In(b, next[c])
      /\ 0 \in Cities(i)
  <2>1. Cycles(f, D)  BY <1>4, FollowsCycles DEF D
  <2>2. 0 \in 0 .. m  BY <1>1
  <2>3. 0 \in Cities(i)  BY <1>2, <2>2
  <2> QED BY <1>4, <2>1, <2>3 DEF Follows
(* The cities on the way: out of Q(k), in to Q(k + 1). *)
<1>7. /\ \A k \in 0 .. m : Q(k) = q[k] /\ Q(k) \in Cities(i)
      /\ Q(m + 1) = 0
      /\ \A k \in 0 .. m : next[Q(k)] = Q(k + 1)
      /\ \A k \in 1 .. m + 1 : Q(k) \in Cities(i)
      /\ \A j, k \in 0 .. m : Q(j) = Q(k) => j = k
      /\ \A j, k \in 1 .. m + 1 : Q(j) = Q(k) => j = k
  <2>1. \A k \in 0 .. m : Q(k) = q[k] /\ Q(k) \in Cities(i)
    <3>1. \A k \in 0 .. m : k # m + 1  BY <1>1
    <3> QED BY <1>2, <3>1
  <2>2. Q(m + 1) = 0  OBVIOUS
  <2>3. ASSUME NEW k \in 0 .. m PROVE next[Q(k)] = Q(k + 1)
    <3>1. Q(k) = q[k]  BY <2>1
    <3>2. CASE k = m  BY <1>3, <3>1, <3>2
    <3>3. CASE k # m
      <4>1. k \in 0 .. m - 1 /\ k + 1 # m + 1  BY <1>1, <3>3
      <4> QED BY <1>3, <3>1, <4>1
    <3> QED BY <3>2, <3>3
  <2>4. \A k \in 1 .. m + 1 : (k = m + 1 \/ k \in 0 .. m) /\ k # 0  BY <1>1
  <2>5. \A k \in 1 .. m + 1 : Q(k) \in Cities(i)  BY <1>6, <2>1, <2>4
  <2>6. \A j, k \in 0 .. m : Q(j) = Q(k) => j = k  BY <1>2, <2>1
  <2>7. \A k \in 0 .. m : Q(k) = 0 => k = 0
    <3>1. 0 \in 0 .. m /\ Q(0) = 0  BY <1>1, <1>2, <2>1
    <3> HIDE DEF Q
    <3> QED BY <2>6, <3>1
  <2>8. ASSUME NEW j \in 1 .. m + 1, NEW k \in 1 .. m + 1, Q(j) = Q(k) PROVE j = k
    <3> HIDE DEF Q
    <3> QED BY <2>2, <2>4, <2>6, <2>7, <2>8
  <2> QED BY <2>1, <2>2, <2>3, <2>5, <2>6, <2>8
<1>8. /\ \A k \in 0 .. m : u[2 * k + 1] = Out(b, Q(k))
      /\ \A k \in 1 .. m + 1 : u[2 * k] = In(b, Q(k))
  <2>1. ASSUME NEW k \in 0 .. m PROVE u[2 * k + 1] = Out(b, Q(k))
    <3>1. /\ 2 * k + 1 \in 1 .. N /\ (2 * k + 1) % 2 = 1 /\ (2 * k + 1) \div 2 = k
      BY <1>1
    <3> HIDE DEF Q
    <3> QED BY <3>1
  <2>2. ASSUME NEW k \in 1 .. m + 1 PROVE u[2 * k] = In(b, Q(k))
    <3>1. /\ 2 * k \in 1 .. N /\ (2 * k) % 2 # 1 /\ (2 * k) \div 2 = k
      BY <1>1
    <3> HIDE DEF Q
    <3> QED BY <3>1
  <2> QED BY <2>1, <2>2
<1> DEFINE Odd(j) == \E k \in 0 .. m : j = 2 * k + 1
           Even(j) == \E k \in 1 .. m + 1 : j = 2 * k
<1>9. \A j \in 1 .. N : Odd(j) \/ Even(j)
  <2> TAKE j \in 1 .. N
  <2>1. j \div 2 \in Int /\ (j = 2 * (j \div 2) \/ j = 2 * (j \div 2) + 1)  OBVIOUS
  <2> DEFINE k == j \div 2
  <2>2. k \in Int /\ (j = 2 * k \/ j = 2 * k + 1)  BY <2>1
  <2> HIDE DEF k
  <2>3. CASE j = 2 * k
    <3>1. k \in 1 .. m + 1  BY <1>1, <2>2, <2>3
    <3> QED BY <2>3, <3>1
  <2>4. CASE j = 2 * k + 1
    <3>1. k \in 0 .. m  BY <1>1, <2>2, <2>4
    <3> QED BY <2>4, <3>1
  <2> QED BY <2>2, <2>3, <2>4
<1>10. DOMAIN u = 1 .. N /\ u = [j \in 1 .. N |-> u[j]]  OBVIOUS
<1> HIDE DEF u, Q
<1>11. \A c \in Cities(i) :
         /\ In(b, c) \in D /\ Out(b, c) \in D /\ In(b, c) # Out(b, c)
         /\ CityOf(In(b, c)) = c /\ CityOf(Out(b, c)) = c
         /\ {In(b, c), Out(b, c)} = {2 * c, 2 * c + 1}
  BY <1>3, CityEnds DEF D
<1>12. \A c, d \in Cities(i) :
         /\ In(b, c) # Out(b, d)
         /\ In(b, c) = In(b, d) => c = d
         /\ Out(b, c) = Out(b, d) => c = d
  <2> TAKE c, d \in Cities(i)
  <2>1. /\ CityOf(In(b, c)) = c /\ CityOf(Out(b, c)) = c /\ In(b, c) # Out(b, c)
        /\ CityOf(In(b, d)) = d /\ CityOf(Out(b, d)) = d
    BY <1>11
  <2> QED BY <2>1
<1>13. \A j \in 1 .. N : u[j] \in D
  <2> TAKE j \in 1 .. N
  <2>1. ASSUME NEW k \in 0 .. m, j = 2 * k + 1 PROVE u[j] \in D
    BY <1>7, <1>8, <1>11, <2>1
  <2>2. ASSUME NEW k \in 1 .. m + 1, j = 2 * k PROVE u[j] \in D
    BY <1>7, <1>8, <1>11, <2>2
  <2> QED BY <1>9, <2>1, <2>2
<1>14. u \in Seq(D) /\ Len(u) = N
  <2>1. u \in [1 .. N -> D] /\ N \in Nat  BY <1>1, <1>10, <1>13
  <2> HIDE DEF N
  <2> QED BY <2>1
<1>15. ASSUME NEW j \in 1 .. N, NEW l \in 1 .. N, u[j] = u[l] PROVE j = l
  <2>1. ASSUME NEW k \in 0 .. m, NEW h \in 0 .. m, j = 2 * k + 1, l = 2 * h + 1
        PROVE  j = l
    <3>1. Out(b, Q(k)) = Out(b, Q(h))  BY <1>8, <1>15, <2>1
    <3>2. Q(k) = Q(h)  BY <1>7, <1>12, <3>1
    <3>3. k = h  BY <1>7, <3>2
    <3> QED BY <2>1, <3>3
  <2>2. ASSUME NEW k \in 1 .. m + 1, NEW h \in 1 .. m + 1, j = 2 * k, l = 2 * h
        PROVE  j = l
    <3>1. In(b, Q(k)) = In(b, Q(h))  BY <1>8, <1>15, <2>2
    <3>2. Q(k) = Q(h)  BY <1>7, <1>12, <3>1
    <3>3. k = h  BY <1>7, <3>2
    <3> QED BY <2>2, <3>3
  <2>3. ASSUME NEW k \in 0 .. m, NEW h \in 1 .. m + 1, j = 2 * k + 1, l = 2 * h
        PROVE  FALSE
    <3>1. Out(b, Q(k)) = In(b, Q(h))  BY <1>8, <1>15, <2>3
    <3> QED BY <1>7, <1>12, <3>1
  <2>4. ASSUME NEW k \in 1 .. m + 1, NEW h \in 0 .. m, j = 2 * k, l = 2 * h + 1
        PROVE  FALSE
    <3>1. In(b, Q(k)) = Out(b, Q(h))  BY <1>8, <1>15, <2>4
    <3> QED BY <1>7, <1>12, <3>1
  <2> QED BY <1>9, <2>1, <2>2, <2>3, <2>4
<1>16. u[1] = 0 /\ Out(b, 0) = 0
  <2>1. Out(b, 0) = 2 * 0  BY <1>3 DEF Out
  <2>2. 0 \in 0 .. m /\ 2 * 0 + 1 = 1  BY <1>1
  <2>3. u[1] = Out(b, Q(0)) /\ Q(0) = 0  BY <1>2, <1>7, <1>8, <2>2
  <2> QED BY <2>1, <2>3
<1>17. ASSUME NEW j \in 1 .. N - 1 PROVE u[j + 1] = f[u[j]]
  <2>0. j \in 1 .. N  BY <1>1
  <2>1. ASSUME NEW k \in 0 .. m, j = 2 * k + 1 PROVE u[j + 1] = f[u[j]]
    <3>1. k + 1 \in 1 .. m + 1 /\ j + 1 = 2 * (k + 1)  BY <1>1, <2>1
    <3>2. u[j] = Out(b, Q(k)) /\ u[j + 1] = In(b, Q(k + 1))  BY <1>8, <2>1, <3>1
    <3>3. f[Out(b, Q(k))] = In(b, next[Q(k)])  BY <1>6, <1>7
    <3> QED BY <1>7, <3>2, <3>3
  <2>2. ASSUME NEW k \in 1 .. m + 1, j = 2 * k PROVE u[j + 1] = f[u[j]]
    <3>1. k \in 0 .. m /\ j + 1 = 2 * k + 1  BY <1>1, <2>2
    <3>2. u[j] = In(b, Q(k)) /\ u[j + 1] = Out(b, Q(k))  BY <1>8, <2>2, <3>1
    <3>3. f[In(b, Q(k))] = Out(b, Q(k))  BY <1>6, <1>7
    <3> QED BY <3>2, <3>3
  <2> QED BY <1>9, <2>0, <2>1, <2>2
<1>18. f[u[N]] = 0
  <2>1. m + 1 \in 1 .. m + 1 /\ N = 2 * (m + 1)  BY <1>1
  <2>2. u[N] = In(b, 0)  BY <1>7, <1>8, <2>1
  <2> QED BY <1>6, <1>16, <2>2
<1>19. Round(u, f, 0, D)
  <2>1. N \in 1 .. N /\ 1 \in 1 .. N /\ \A k \in 1 .. N - 1 : k + 1 \in 1 .. N /\ k + 1 # 1
    BY <1>1
  <2>2. \A k \in 1 .. N - 1 : u[k + 1] # 0  BY <1>15, <1>16, <2>1
  <2> HIDE DEF N
  <2> QED BY <1>1, <1>14, <1>15, <1>16, <1>17, <1>18, <2>1, <2>2 DEF Round
<1>20. FindSubtour(f) = u
  <2> HIDE DEF N
  <2> QED BY <1>1, <1>6, <1>14, <1>19, FoundIsWhole
<1>21. Whole(i, f)  BY <1>1, <1>14, <1>20 DEF Whole, D
<1>22. Oriented(u) = u
  <2>1. IsOut(b, 0)
    <3>1. CityOf(Out(b, 0)) = 0  BY <1>6, <1>11
    <3> QED BY <1>16, <3>1 DEF IsOut
  <2> QED BY <1>4, <1>14, <1>19, <2>1, OrientedIsWay DEF D, m
<1>23. OrderOf(f) = [k \in 1 .. m |-> Visit(u[2 * k])]
  <2>1. OrderOf(f) = Reading(i, Oriented(FindSubtour(f)))
    BY <1>4, <1>21, WholeIsWay
  <2> QED BY <1>20, <1>22, <2>1 DEF Reading, m
<1>24. ASSUME NEW k \in 1 .. m PROVE Visit(u[2 * k]) = o[k]
  <2> DEFINE c == o[k].city
  <2>1. /\ k \in 1 .. m + 1 /\ k \in 0 .. m /\ k # 0  BY <1>1
  <2>2. Q(k) = c /\ c \in Cities(i) /\ c \in Nat /\ o[k].back \in BOOLEAN
    BY <1>2, <1>5, <1>7, <2>1
  <2>3. u[2 * k] = In(b, c) /\ CityOf(In(b, c)) = c  BY <1>8, <1>11, <2>1, <2>2
  <2>4. b[c] = o[k].back  BY <1>3, <1>7, <2>1, <2>2
  <2>5. In(b, c) % 2 = 1 <=> o[k].back
    <3>1. (2 * c) % 2 # 1 /\ (2 * c + 1) % 2 = 1
      <4> HIDE DEF c
      <4> QED BY <2>2
    <3> QED BY <2>4, <3>1 DEF In
  <2>6. o[k] \in [city : 1 .. m, back : BOOLEAN]  BY <1>2
  <2>7. o[k] = [city |-> c, back |-> o[k].back]  BY <2>6
  <2>8. Visit(u[2 * k]) = [city |-> c, back |-> In(b, c) % 2 = 1]  BY <2>3 DEF Visit
  <2>9. (In(b, c) % 2 = 1) = o[k].back  BY <2>2, <2>5
  <2> QED BY <2>7, <2>8, <2>9
<1>25. o = [k \in 1 .. m |-> o[k]]  BY <1>2
<1>26. OrderOf(f) = o  BY <1>23, <1>24, <1>25
<1> QED BY <1>4, <1>21, <1>26

-----------------------------------------------------------------------------
(* The solver's solutions and the orders of the stations *)

Single(p) == Len(p.found) = Cardinality(Nodes(inst))

LEMMA SolutionIs ==
  ASSUME NEW i \in Instances, NEW p \in Solutions[i]
  PROVE  \E f \in Assignments(i) :
           /\ CallsAtPorts(i) => FlowExists(i, f)
           /\ p.next = f /\ p.cost = Cost(i, f)
           /\ p.found = FindSubtour(f) /\ p.order = OrderOf(f)
<1>1. PICK f \in Assignments(i) :
        /\ CallsAtPorts(i) => FlowExists(i, f)
        /\ p = [next |-> f, cost |-> Cost(i, f), found |-> FindSubtour(f),
                order |-> OrderOf(f)]
  BY DEF Solutions
<1> QED BY <1>1

LEMMA FoundLength ==
  ASSUME NEW i \in Instances, NEW f \in Assignments(i)
  PROVE  /\ Cycles(f, Nodes(i)) /\ Cardinality(Nodes(i)) \in Nat
         /\ Len(FindSubtour(f)) \in 1 .. Cardinality(Nodes(i))
<1>1. PICK o, succ : Follows(i, f, o, succ)  BY ArcsFollow
<1>2. Cycles(f, Nodes(i))  BY <1>1, FollowsCycles
<1>3. Nodes(i) \subseteq Nat /\ Nodes(i) # {} /\ Cardinality(Nodes(i)) \in Nat
  BY Shape
<1>4. PICK s \in Nodes(i) : Round(FindSubtour(f), f, s, Nodes(i))
  BY <1>2, <1>3, FoundIsRound
<1> QED BY <1>2, <1>3, <1>4 DEF Round

LEMMA CostType ==
  ASSUME NEW i \in Instances, NEW f \in Assignments(i), Whole(i, f)
  PROVE  Cost(i, f) \in Int
<1> DEFINE u == Oriented(FindSubtour(f))
           I == 1 .. M(i) + 1
           g == Hops(i, u)
<1>1. Paired(i, u)  BY WholeIsWay DEF Way
<1>2. Cost(i, f) = Length(i, Transits(i, Reading(i, u)))
  BY WholeIsOrder, WholeIsWay
<1> HIDE DEF u
<1>3. Length(i, Transits(i, Reading(i, u))) = Total(g, I)  BY <1>1, LengthOfReading
<1>4. M(i) \in Nat  BY Shape
<1>5. IsFiniteSet(I)  BY <1>4, FS_Interval
<1>6. ASSUME NEW k \in I PROVE g[k] \in Int
  <2>1. 2 * k - 1 \in 1 .. 2 * M(i) + 2 /\ 2 * k \in 1 .. 2 * M(i) + 2  BY <1>4
  <2>2. u[2 * k - 1] \in Nodes(i) /\ u[2 * k] \in Nodes(i)
    BY <1>1, <2>1, PairedNodes
  <2>3. g[k] = Dist(i, u[2 * k - 1], u[2 * k])  BY DEF Hops
  <2> QED BY <2>2, <2>3, DistType
<1> HIDE DEF g, I
<1>7. Total(g, I) \in Int  BY <1>5, <1>6, TotalRemove
<1> QED BY <1>2, <1>3, <1>7

(* A solution that is one tour pays for an order it stands for. *)
LEMMA SingleIsOrder ==
  ASSUME inst \in Instances, NEW p \in Solutions[inst], Single(p)
  PROVE  /\ p.order \in Orders[inst] /\ p.cost \in Int
         /\ p.cost = Length(inst, Transits(inst, p.order))
<1>1. PICK f \in Assignments(inst) :
        /\ CallsAtPorts(inst) => FlowExists(inst, f)
        /\ p.next = f /\ p.cost = Cost(inst, f)
        /\ p.found = FindSubtour(f) /\ p.order = OrderOf(f)
  BY SolutionIs
<1>2. Whole(inst, f)  BY <1>1 DEF Single, Whole
<1>3. /\ OrderOf(f) \in AllOrders(inst)
      /\ Cost(inst, f) = Length(inst, Transits(inst, OrderOf(f)))
      /\ FlowExists(inst, f) <=> Fits(inst, OrderOf(f))
  BY <1>2, WholeIsOrder
<1>4. Orders[inst] = {o \in AllOrders(inst) : CallsAtPorts(inst) => Fits(inst, o)}
  BY DEF Orders
<1> QED BY <1>1, <1>2, <1>3, <1>4, CostType

(* There is one for each order. *)
LEMMA OrderIsSingle ==
  ASSUME inst \in Instances, NEW o \in Orders[inst]
  PROVE  \E p \in Solutions[inst] : Single(p) /\ p.order = o
<1>1. o \in AllOrders(inst) /\ (CallsAtPorts(inst) => Fits(inst, o))
  BY DEF Orders
<1>2. PICK f \in Assignments(inst) : Whole(inst, f) /\ OrderOf(f) = o
  BY <1>1, OrderHasSolution
<1>3. CallsAtPorts(inst) => FlowExists(inst, f)  BY <1>1, <1>2, WholeIsOrder
<1> DEFINE p == [next |-> f, cost |-> Cost(inst, f), found |-> FindSubtour(f),
                 order |-> OrderOf(f)]
<1>4. p \in Solutions[inst]  BY <1>3 DEF Solutions
<1>5. Single(p) /\ p.order = o  BY <1>2 DEF Single, Whole
<1> QED BY <1>4, <1>5

(* What is cut off for a subtour leaves every single tour allowed. *)
LEMMA CutSparesSingles ==
  ASSUME inst \in Instances, NEW p \in Solutions[inst], NEW c \in Solutions[inst],
         Single(p), Len(c.found) < Cardinality(Nodes(inst))
  PROVE  Allowed(p.next, {ToSet(c.found)})
<1>1. PICK f \in Assignments(inst) : p.next = f /\ p.found = FindSubtour(f)
  BY SolutionIs
<1>2. PICK g \in Assignments(inst) : c.found = FindSubtour(g)
  BY SolutionIs
<1>3. Cycles(f, Nodes(inst)) /\ Cycles(g, Nodes(inst))  BY FoundLength
<1>4. Nodes(inst) \subseteq Nat /\ Nodes(inst) # {}  BY Shape
<1>5. /\ Len(FindSubtour(f)) = Cardinality(Nodes(inst))
      /\ Len(FindSubtour(g)) < Cardinality(Nodes(inst))
  BY <1>1, <1>2 DEF Single
<1>6. Allowed(f, {ToSet(FindSubtour(g))})  BY <1>3, <1>4, <1>5, CutSpares
<1> QED BY <1>1, <1>2, <1>6

-----------------------------------------------------------------------------
(* The search *)

TypeInv ==
  /\ inst \in Instances
  /\ phase \in {"search", "stopped", "solved", "planned", "open", "done", "failed"}
  /\ status \in {"none", "OPTIMAL", "INFEASIBLE", "TIME_LIMIT", "OTHER"}

(* Each cut was a subtour of a solution; the incumbent is a single tour.   *)
CutsInv ==
  \A S \in cuts : \E c \in Solutions[inst] :
    S = ToSet(c.found) /\ Len(c.found) < Cardinality(Nodes(inst))
BestInv ==
  /\ \A b \in best : b \in Solutions[inst] /\ Single(b)
  /\ \A a, b \in best : a = b

(* What a status says of the solutions that are single tours. *)
StatusInv ==
  /\ phase = "search" => status \in {"none", "TIME_LIMIT"}
  /\ phase # "search" => status # "none"
  /\ status = "OPTIMAL" =>
       /\ best # {}
       /\ \A p \in Solutions[inst] : Single(p) => \A b \in best : b.cost <= p.cost
  /\ status = "INFEASIBLE" => \A p \in Solutions[inst] : ~Single(p)

(* The order comes from the incumbent; without one the program has failed, *)
(* and for want of time only where it does not wait.                       *)
ResultInv ==
  /\ phase \in {"solved", "planned", "open", "done"} =>
       best # {} /\ \A b \in best : order = b.order
  /\ phase = "failed" /\ inst.kind = "fixedport" /\ best = {} =>
       status \in {"OTHER", "INFEASIBLE"}

SearchInv == TypeInv /\ CutsInv /\ BestInv /\ StatusInv /\ ResultInv

LEMMA SinglesAllowed ==
  ASSUME TypeInv, CutsInv, NEW p \in Solutions[inst], Single(p)
  PROVE  Allowed(p.next, cuts) /\ \A S \in cuts : Allowed(p.next, {S})
<1>1. ASSUME NEW S \in cuts PROVE Allowed(p.next, {S})
  <2>1. PICK c \in Solutions[inst] :
          S = ToSet(c.found) /\ Len(c.found) < Cardinality(Nodes(inst))
    BY DEF CutsInv
  <2> QED BY <2>1, CutSparesSingles DEF TypeInv
<1> QED BY <1>1 DEF Allowed

LEMMA SearchStarts == Init => SearchInv
BY DEF Init, SearchInv, TypeInv, CutsInv, BestInv, StatusInv, ResultInv

LEMMA SameSingle ==
  ASSUME inst' = inst
  PROVE  /\ \A p : Single(p)' <=> Single(p)
         /\ Solutions' = Solutions /\ Cardinality(Nodes(inst)') = Cardinality(Nodes(inst))
BY DEF Single

LEMMA SearchStep == SearchInv /\ [Next]_vars => SearchInv'
<1> SUFFICES ASSUME SearchInv, [Next]_vars PROVE SearchInv'
  OBVIOUS
<1>1. TypeInv /\ CutsInv /\ BestInv /\ StatusInv /\ ResultInv  BY DEF SearchInv
<1>2. CASE Propose
  <2>1. PICK p \in Improving : SubtourElim(p)  BY <1>2 DEF Propose
  <2>2. p \in Solutions[inst] /\ inst \in Instances  BY <1>1, <2>1 DEF Improving, TypeInv
  <2>3. /\ phase = "search" /\ phase' = phase /\ status' = status /\ inst' = inst
        /\ order' = order
    BY <1>2 DEF Propose
  <2>4. TypeInv'  BY <1>1, <2>3 DEF TypeInv
  <2>5. CutsInv' /\ BestInv'
    <3>1. CASE Len(p.found) < Cardinality(Nodes(inst))
      <4>1. cuts' = cuts \cup {ToSet(p.found)} /\ best' = best
        BY <2>1, <3>1 DEF SubtourElim
      <4> QED BY <1>1, <2>2, <2>3, <3>1, <4>1 DEF CutsInv, BestInv, Single
    <3>2. CASE ~(Len(p.found) < Cardinality(Nodes(inst)))
      <4>1. best' = {p} /\ cuts' = cuts  BY <2>1, <3>2 DEF SubtourElim
      <4>2. PICK f \in Assignments(inst) : p.found = FindSubtour(f)
        BY <2>2, SolutionIs
      <4>3. Single(p)
        <5>1. /\ Len(p.found) \in 1 .. Cardinality(Nodes(inst))
              /\ Cardinality(Nodes(inst)) \in Nat
          BY <2>2, <4>2, FoundLength
        <5> QED BY <3>2, <5>1 DEF Single
      <4> QED BY <1>1, <2>2, <2>3, <4>1, <4>3 DEF CutsInv, BestInv, Single
    <3> QED BY <3>1, <3>2
  <2>6. StatusInv'  BY <1>1, <2>3 DEF StatusInv
  <2>7. ResultInv'  BY <2>3 DEF ResultInv
  <2> QED BY <2>4, <2>5, <2>6, <2>7 DEF SearchInv
<1>3. CASE Exhausted
  <2>1. /\ phase = "search" /\ Improving = {} /\ phase' = "stopped"
        /\ status' = IF best = {} THEN "INFEASIBLE" ELSE "OPTIMAL"
        /\ inst' = inst /\ cuts' = cuts /\ best' = best /\ order' = order
    BY <1>3 DEF Exhausted, Stop
  <2>2. ASSUME NEW p \in Solutions[inst], Single(p)
        PROVE  best # {} /\ \A b \in best : b.cost <= p.cost
    <3>1. Allowed(p.next, cuts)  BY <1>1, <2>2, SinglesAllowed
    <3>2. PICK b \in best : ~(p.cost < b.cost)  BY <2>1, <3>1 DEF Improving
    <3>3. p.cost \in Int /\ b.cost \in Int
      BY <1>1, <2>2, <3>2, SingleIsOrder DEF TypeInv, BestInv
    <3>4. b.cost <= p.cost  BY <3>2, <3>3
    <3> QED BY <1>1, <3>2, <3>4 DEF BestInv
  <2>3. TypeInv' /\ CutsInv' /\ BestInv'
    BY <1>1, <2>1 DEF TypeInv, CutsInv, BestInv, Single
  <2>4. StatusInv'  BY <2>1, <2>2 DEF StatusInv, Single
  <2>5. ResultInv'  BY <2>1 DEF ResultInv
  <2> QED BY <2>3, <2>4, <2>5 DEF SearchInv
<1>4. CASE TimeLimit \/ SolverError
  <2>1. /\ phase = "search" /\ phase' = "stopped" /\ status' \in {"TIME_LIMIT", "OTHER"}
        /\ inst' = inst /\ cuts' = cuts /\ best' = best /\ order' = order
    BY <1>4 DEF TimeLimit, SolverError, Stop
  <2>2. TypeInv' /\ CutsInv' /\ BestInv'
    BY <1>1, <2>1 DEF TypeInv, CutsInv, BestInv, Single
  <2>3. StatusInv' /\ ResultInv'  BY <2>1 DEF StatusInv, ResultInv
  <2> QED BY <2>2, <2>3 DEF SearchInv
<1>5. CASE OptimizeAgain
  <2>1. /\ phase = "stopped" /\ status = "TIME_LIMIT" /\ phase' = "search"
        /\ inst' = inst /\ cuts' = cuts /\ best' = best /\ order' = order
        /\ status' = status
    BY <1>5 DEF OptimizeAgain, WaitsForFirst
  <2>2. TypeInv' /\ CutsInv' /\ BestInv'
    BY <1>1, <2>1 DEF TypeInv, CutsInv, BestInv, Single
  <2>3. StatusInv' /\ ResultInv'  BY <2>1 DEF StatusInv, ResultInv
  <2> QED BY <2>2, <2>3 DEF SearchInv
<1>6. CASE Extract
  <2>1. /\ phase = "stopped" /\ ~WaitsForFirst
        /\ inst' = inst /\ cuts' = cuts /\ best' = best /\ status' = status
        /\ \/ /\ best # {} /\ phase' = "solved"
              /\ \E b \in best : order' = b.order
           \/ /\ ~(AllowsIncumbent /\ best # {})
              /\ phase' = "failed" /\ order' = order
    BY <1>6 DEF Extract, Fail
  <2>2. TypeInv' /\ CutsInv' /\ BestInv'
    BY <1>1, <2>1 DEF TypeInv, CutsInv, BestInv, Single
  <2>3. StatusInv'  BY <1>1, <2>1 DEF StatusInv, Single
  <2>4. ResultInv'
    <3>1. CASE phase' = "solved"  BY <1>1, <2>1, <3>1 DEF ResultInv, BestInv
    <3>2. CASE phase' # "solved"
      <4>1. /\ phase' = "failed" /\ order' = order
            /\ ~(AllowsIncumbent /\ best # {})
        BY <2>1, <3>2
      <4>2. ASSUME inst.kind = "fixedport", best = {}
            PROVE  status \in {"OTHER", "INFEASIBLE"}
        <5>1. status # "TIME_LIMIT"  BY <2>1, <4>2 DEF WaitsForFirst
        <5>2. status # "none" /\ status # "OPTIMAL"  BY <1>1, <2>1, <4>2 DEF StatusInv
        <5> QED BY <1>1, <5>1, <5>2 DEF TypeInv
      <4> QED BY <2>1, <4>1, <4>2 DEF ResultInv
    <3> QED BY <3>1, <3>2
  <2> QED BY <2>2, <2>3, <2>4 DEF SearchInv
<1>7. CASE Measure \/ Open \/ Write \/ Return \/ WriteFails
  <2>1. /\ phase \in {"solved", "planned", "open"}
        /\ phase' \in {"planned", "open", "done", "failed"}
        /\ inst' = inst /\ cuts' = cuts /\ best' = best /\ status' = status
        /\ order' = order
    BY <1>7 DEF Measure, Open, Write, Return, WriteFails, Fail
  <2>2. TypeInv' /\ CutsInv' /\ BestInv'
    BY <1>1, <2>1 DEF TypeInv, CutsInv, BestInv, Single
  <2>3. StatusInv'  BY <1>1, <2>1 DEF StatusInv, Single
  <2>4. best # {} /\ \A b \in best : order = b.order  BY <1>1, <2>1 DEF ResultInv
  <2>5. ResultInv'  BY <2>1, <2>4 DEF ResultInv
  <2> QED BY <2>2, <2>3, <2>5 DEF SearchInv
<1>8. CASE UNCHANGED vars
  BY <1>1, <1>8 DEF vars, SearchInv, TypeInv, CutsInv, BestInv, StatusInv, ResultInv, Single
<1> QED
  BY <1>2, <1>3, <1>4, <1>5, <1>6, <1>7, <1>8 DEF Next, Work

(* In every state of a solve the cuts are subtours of solutions the solver *)
(* proposed, the incumbent is a single tour, the status says truly whether *)
(* a better one is left, and the order read is the incumbent's: what the   *)
(* callback mip_subtourelim_directed and the solve keep between them.      *)
THEOREM SearchInvAlways == Spec => []SearchInv
<1>1. Init => SearchInv  BY SearchStarts
<1>2. SearchInv /\ [Next]_vars => SearchInv'  BY SearchStep
<1> QED BY <1>1, <1>2, PTL DEF Spec

LEMMA SearchIsExactHolds == SearchInv => SearchIsExact
<1> SUFFICES ASSUME SearchInv PROVE SearchIsExact  OBVIOUS
<1>1. TypeInv /\ CutsInv /\ BestInv /\ StatusInv /\ ResultInv  BY DEF SearchInv
<1>2. inst \in Instances  BY <1>1 DEF TypeInv
<1>3. CutsSpareTours  BY <1>1, SinglesAllowed DEF CutsSpareTours, Single
<1>4. ASSUME status = "INFEASIBLE" PROVE Orders[inst] = {}
  <2> SUFFICES ASSUME NEW o \in Orders[inst] PROVE FALSE  OBVIOUS
  <2>1. PICK p \in Solutions[inst] : Single(p)  BY <1>2, OrderIsSingle
  <2> QED BY <1>1, <1>4, <2>1 DEF StatusInv
<1>5. ASSUME phase \in {"solved", "done"}, status = "OPTIMAL", NEW o \in Orders[inst]
      PROVE  Length(inst, Transits(inst, order)) <= Length(inst, Transits(inst, o))
  <2>1. PICK b \in best : order = b.order  BY <1>1, <1>5 DEF ResultInv
  <2>2. PICK p \in Solutions[inst] : Single(p) /\ p.order = o  BY <1>2, <1>5, OrderIsSingle
  <2>3. b \in Solutions[inst] /\ Single(b)  BY <1>1 DEF BestInv
  <2>4. b.cost <= p.cost  BY <1>1, <1>5, <2>2 DEF StatusInv
  <2>5. b.cost = Length(inst, Transits(inst, b.order))  BY <1>2, <2>3, SingleIsOrder
  <2>6. p.cost = Length(inst, Transits(inst, p.order))  BY <1>2, <2>2, SingleIsOrder
  <2> QED BY <2>1, <2>2, <2>4, <2>5, <2>6
<1>6. OptimalIsBest  BY <1>4, <1>5 DEF OptimalIsBest
<1>7. WaitsForIncumbent  BY <1>1, <1>4 DEF WaitsForIncumbent, ResultInv
<1> QED BY <1>3, <1>6, <1>7 DEF SearchIsExact

(* No cut of the callback takes a single tour away; a solve that ends as   *)
(* optimal returns a shortest order of the stations and ports among those  *)
(* the boat can carry, one that ends as infeasible has none, and the       *)
(* construction with ports gives up for want of time in no other case.     *)
THEOREM SearchAlwaysExact == Spec => []SearchIsExact
BY SearchInvAlways, SearchIsExactHolds, PTL

LEMMA OrderAsPaidHolds == SearchInv => OrderAsPaid
<1> SUFFICES ASSUME SearchInv, phase \in {"solved", "planned", "open", "done"}
             PROVE  /\ order \in Orders[inst]
                    /\ \A b \in best : Length(inst, Transits(inst, order)) = b.cost
  BY DEF OrderAsPaid
<1>1. TypeInv /\ BestInv /\ ResultInv  BY DEF SearchInv
<1>2. inst \in Instances /\ best # {} /\ \A b \in best : order = b.order
  BY <1>1 DEF TypeInv, ResultInv
<1>3. \A b \in best : /\ b.order \in Orders[inst]
                      /\ b.cost = Length(inst, Transits(inst, b.order))
  BY <1>1, <1>2, SingleIsOrder DEF BestInv
<1> QED BY <1>2, <1>3

(* What find_subtour, orient and letour read off the incumbent calls once  *)
(* at each city, fits the boat, and is as long from dock to end dock as    *)
(* the solver's objective, for any two docks.                              *)
THEOREM OrderAlwaysAsPaid == Spec => []OrderAsPaid
BY SearchInvAlways, OrderAsPaidHolds, PTL

-----------------------------------------------------------------------------
(* The segments that are written *)

(* b lists n numbers of S, ascending. *)
Ascends(b, n, S) ==
  /\ b \in [1 .. n -> S]
  /\ \A j, k \in 1 .. n : j < k => b[j] < b[k]

(* A finite set of numbers can be listed in ascending order: each at its   *)
(* rank.                                                                   *)
LEMMA AscendingExists ==
  ASSUME NEW S, S \subseteq Nat, IsFiniteSet(S)
  PROVE  \E b : Ascends(b, Cardinality(S), S)
<1> DEFINE n == Cardinality(S)
           Upto(s) == {r \in S : r <= s}
           rank == [s \in S |-> Cardinality(Upto(s))]
           I == 1 .. n
<1>1. n \in Nat  BY FS_CardinalityType
<1>2. IsFiniteSet(I) /\ Cardinality(I) = n
  <2>1. IsFiniteSet(I) /\ Cardinality(I) = IF 1 > n THEN 0 ELSE n - 1 + 1
    <3> HIDE DEF n
    <3> QED BY <1>1, FS_Interval
  <2> HIDE DEF n, I
  <2> QED BY <1>1, <2>1
<1>3. ASSUME NEW s \in S
      PROVE  IsFiniteSet(Upto(s)) /\ rank[s] \in I
  <2>1. Upto(s) \in SUBSET S /\ Upto(s) # {}  OBVIOUS
  <2> HIDE DEF Upto
  <2>2. IsFiniteSet(Upto(s)) /\ Cardinality(Upto(s)) <= n  BY <2>1, FS_Subset
  <2>3. Cardinality(Upto(s)) \in Nat /\ Cardinality(Upto(s)) # 0
    BY <2>1, <2>2, FS_CardinalityType, FS_EmptySet
  <2>4. rank[s] = Cardinality(Upto(s))  OBVIOUS
  <2> HIDE DEF rank, n
  <2> QED BY <1>1, <2>2, <2>3, <2>4
<1>4. ASSUME NEW r \in S, NEW s \in S, r < s PROVE rank[r] < rank[s]
  <2>1. Upto(r) \in SUBSET Upto(s) /\ s \in Upto(s) /\ s \notin Upto(r)
    <3>1. r \in Nat /\ s \in Nat  OBVIOUS
    <3>2. \A q \in S : q \in Nat /\ (q <= r => q <= s)  BY <1>4, <3>1
    <3>3. s <= s /\ ~(s <= r)  BY <1>4, <3>1
    <3>4. \A q \in Upto(r) : q \in Upto(s)  BY <3>2
    <3>5. s \in Upto(s) /\ s \notin Upto(r)  BY <3>3
    <3> QED BY <3>4, <3>5
  <2>2. IsFiniteSet(Upto(s))  BY <1>3
  <2>3. rank[r] \in I /\ rank[s] \in I  BY <1>3
  <2> HIDE DEF Upto
  <2>4. /\ Cardinality(Upto(r)) <= Cardinality(Upto(s))
        /\ Cardinality(Upto(r)) # Cardinality(Upto(s))
    BY <2>1, <2>2, FS_Subset
  <2>5. rank[r] = Cardinality(Upto(r)) /\ rank[s] = Cardinality(Upto(s))  OBVIOUS
  <2> HIDE DEF rank, n
  <2> QED BY <2>3, <2>4, <2>5
<1> HIDE DEF Upto
<1>5. ASSUME NEW r \in S, NEW s \in S, rank[r] = rank[s] PROVE r = s
  <2>1. rank[r] \in Int /\ rank[s] \in Int
    <3> HIDE DEF rank, n
    <3> QED BY <1>1, <1>3
  <2> HIDE DEF rank
  <2>2. ~(r < s) /\ ~(s < r)  BY <1>4, <1>5, <2>1
  <2> QED BY <2>2
<1>6. \A k \in I : \E s \in S : rank[s] = k
  <2>1. rank \in [S -> I]
    <3>1. rank = [s \in S |-> rank[s]]  OBVIOUS
    <3> HIDE DEF rank, I
    <3> QED BY <1>3, <3>1
  <2> HIDE DEF I
  <2>2. rank \in Injection(S, I)
    <3> HIDE DEF rank
    <3> QED BY <1>5, <2>1 DEF Injection, IsInjective
  <2> HIDE DEF rank
  <2>3. rank \in Surjection(S, I)  BY <1>2, <2>2, FS_Injection
  <2> QED BY <2>3 DEF Surjection
<1> DEFINE b == [k \in I |-> CHOOSE s \in S : rank[s] = k]
<1> HIDE DEF rank, n
<1>7. b \in [I -> S] /\ \A k \in I : rank[b[k]] = k
  <2>1. \A k \in I : b[k] \in S /\ rank[b[k]] = k  BY <1>6
  <2>2. b = [k \in I |-> b[k]]  OBVIOUS
  <2> HIDE DEF b
  <2> QED BY <2>1, <2>2
<1> HIDE DEF b
<1>8. ASSUME NEW j \in I, NEW k \in I, j < k PROVE b[j] < b[k]
  <2>1. b[j] \in S /\ b[k] \in S /\ rank[b[j]] = j /\ rank[b[k]] = k  BY <1>7
  <2>2. b[j] # b[k]  BY <1>1, <1>8, <2>1
  <2>3. ~(b[k] < b[j])
    <3> SUFFICES ASSUME b[k] < b[j] PROVE FALSE  OBVIOUS
    <3>1. rank[b[k]] < rank[b[j]]  BY <1>4, <2>1
    <3> QED BY <1>1, <1>8, <2>1, <3>1
  <2>4. b[j] \in Nat /\ b[k] \in Nat  BY <2>1
  <2> QED BY <2>2, <2>3, <2>4
<1>9. Ascends(b, n, S)  BY <1>7, <1>8 DEF Ascends
<1> QED BY <1>9 DEF n

(* An ascending list of all of a set of numbers from 0 to e begins with 0, *)
(* ends with e, and leaves none of them out between two neighbours.        *)
LEMMA AscendingMeetsAll ==
  ASSUME NEW e \in Nat, NEW S, S \subseteq 0 .. e, 0 \in S, e \in S, e >= 1,
         NEW n \in Nat, Cardinality(S) = n, IsFiniteSet(S), NEW b, Ascends(b, n, S)
  PROVE  /\ n >= 2 /\ b[1] = 0 /\ b[n] = e
         /\ \A k \in 1 .. n : b[k] \in S
         /\ \A k \in 1 .. n - 1 : Adjacent(b[k], b[k + 1], S)
<1>1. /\ b \in [1 .. n -> S]
      /\ \A j, k \in 1 .. n : j < k => b[j] < b[k]
  BY DEF Ascends
<1>2. \A k \in 1 .. n : b[k] \in S /\ b[k] \in 0 .. e  BY <1>1
<1>3. \A s \in S : \E k \in 1 .. n : b[k] = s
  <2>1. \A j, k \in 1 .. n : b[j] = b[k] => j = k
    <3> SUFFICES ASSUME NEW j \in 1 .. n, NEW k \in 1 .. n, b[j] = b[k], j # k
                 PROVE  FALSE
      OBVIOUS
    <3>1. ~(b[j] < b[k]) /\ ~(b[k] < b[j])  BY <1>2
    <3> QED BY <1>1, <3>1
  <2>2. \A s \in S : \E k \in 1 .. Cardinality(S) : b[k] = s
    <3>1. b \in [1 .. Cardinality(S) -> S]
          /\ \A j, k \in 1 .. Cardinality(S) : b[j] = b[k] => j = k
      BY <1>1, <2>1
    <3> QED BY ONLY IsFiniteSet(S), <3>1, AllAreMet
  <2> QED BY <2>2
<1>4. PICK z \in 1 .. n : b[z] = 0  BY <1>3
<1>5. PICK y \in 1 .. n : b[y] = e  BY <1>3
<1>6. n >= 2  BY <1>4, <1>5
<1>7. 1 \in 1 .. n /\ n \in 1 .. n  BY <1>6
<1>8. b[1] = 0
  <2> SUFFICES ASSUME z # 1 PROVE FALSE  BY <1>4
  <2>1. b[1] < b[z]  BY <1>1, <1>7
  <2> QED BY <1>2, <1>4, <1>7, <2>1
<1>9. b[n] = e
  <2> SUFFICES ASSUME y # n PROVE FALSE  BY <1>5
  <2>1. b[y] < b[n]  BY <1>1, <1>7
  <2> QED BY <1>2, <1>5, <1>7, <2>1
<1>10. ASSUME NEW k \in 1 .. n - 1 PROVE Adjacent(b[k], b[k + 1], S)
  <2>1. k \in 1 .. n /\ k + 1 \in 1 .. n /\ k < k + 1  BY <1>6
  <2>2. b[k] \in S /\ b[k + 1] \in S /\ b[k] < b[k + 1]  BY <1>1, <1>2, <2>1
  <2>3. ASSUME NEW s \in S PROVE s <= b[k] \/ b[k + 1] <= s
    <3>1. PICK j \in 1 .. n : b[j] = s  BY <1>3
    <3>2. j = k \/ j = k + 1 \/ j < k \/ k + 1 < j  BY <2>1
    <3>3. b[j] \in 0 .. e /\ b[k] \in 0 .. e /\ b[k + 1] \in 0 .. e  BY <1>2, <2>1
    <3>4. CASE j = k  BY <3>1, <3>3, <3>4
    <3>5. CASE j = k + 1  BY <3>1, <3>3, <3>5
    <3>6. CASE j < k
      <4>1. b[j] < b[k]  BY <1>1, <2>1, <3>6
      <4> QED BY <3>1, <3>3, <4>1
    <3>7. CASE k + 1 < j
      <4>1. b[k + 1] < b[j]  BY <1>1, <2>1, <3>7
      <4> QED BY <3>1, <3>3, <4>1
    <3> QED BY <3>2, <3>4, <3>5, <3>6, <3>7
  <2> QED BY <2>2, <2>3 DEF Adjacent
<1> QED BY <1>2, <1>6, <1>8, <1>9, <1>10

(* An order calls at each city once, and a port call is one at a city that *)
(* is no station.                                                          *)
LEMMA CallsOfOrder ==
  ASSUME NEW i \in Instances, NEW o \in AllOrders(i)
  PROVE  /\ o \in [1 .. M(i) -> [city : 1 .. M(i), back : BOOLEAN]]
         /\ Len(o) = M(i) /\ DOMAIN o = 1 .. M(i)
         /\ \A k \in 1 .. M(i) : o[k].city \in 1 .. M(i)
         /\ \A j, k \in 1 .. M(i) : o[j].city = o[k].city => j = k
         /\ \A c \in 1 .. M(i) : \E k \in 1 .. M(i) : o[k].city = c
         /\ PortCalls(i, o) = {k \in 1 .. M(i) : o[k].city \notin Stations(i)}
<1> DEFINE m == M(i)
<1>1. m \in Nat /\ Cities(i) = 0 .. m /\ NumStations(i) \in Nat  BY Shape
<1>2. /\ o \in [1 .. m -> [city : 1 .. m, back : BOOLEAN]]
      /\ \A j, k \in 1 .. m : o[j].city = o[k].city => j = k
  BY AllOrdersIs
<1>3. Len(o) = m /\ DOMAIN o = 1 .. m
  <2> HIDE DEF m
  <2> QED BY <1>1, <1>2
<1>4. \A k \in 1 .. m : o[k].city \in 1 .. m
  <2> HIDE DEF m
  <2> QED BY <1>2
<1>5. ASSUME NEW c \in 1 .. m PROVE \E k \in 1 .. m : o[k].city = c
  <2> DEFINE k == Place(i, o, c)
  <2>1. c \in Cities(i) /\ c # 0  BY <1>1
  <2>2. k \in 0 .. m /\ Stations0(i, o)[k] = c  BY <2>1, PlacesOfOrder
  <2>3. Stations0(i, o) = [j \in 0 .. m |-> IF j = 0 THEN 0 ELSE o[j].city]
    BY DEF Stations0
  <2> HIDE DEF k, m
  <2>4. k # 0 /\ o[k].city = c  BY <2>1, <2>2, <2>3
  <2>5. k \in 1 .. m  BY <1>1, <2>2, <2>4
  <2> QED BY <2>4, <2>5
<1>6. PortCalls(i, o) = {k \in 1 .. m : o[k].city \notin Stations(i)}
  <2>1. Ports(i) = NumStations(i) + 1 .. m  BY DEF Ports, M
  <2> HIDE DEF m
  <2>2. \A c \in 1 .. m : c \in Ports(i) <=> c \notin Stations(i)
    BY <1>1, <2>1 DEF Stations
  <2> QED BY <1>3, <1>4, <2>2 DEF PortCalls
<1> QED BY <1>2, <1>3, <1>4, <1>5, <1>6

LEMMA NumberOfStops ==
  ASSUME NEW i \in Instances, NEW o \in AllOrders(i)
  PROVE  /\ Cardinality(Ports(i)) \in Nat
         /\ IsFiniteSet(Stops(i, o)) /\ Stops(i, o) \subseteq 0 .. M(i) + 1
         /\ 0 \in Stops(i, o) /\ M(i) + 1 \in Stops(i, o)
         /\ Cardinality(Stops(i, o)) = Cardinality(Ports(i)) + 2
<1> DEFINE m == M(i)
           P == PortCalls(i, o)
           f == [k \in P |-> o[k].city]
<1>1. /\ m \in Nat /\ m >= 1 /\ NumStations(i) \in Nat /\ NumStations(i) <= m
  BY Shape
<1>2. Ports(i) = NumStations(i) + 1 .. m  BY DEF Ports, M
<1>3. /\ Len(o) = m
      /\ \A j, k \in 1 .. m : o[j].city = o[k].city => j = k
      /\ \A c \in 1 .. m : \E k \in 1 .. m : o[k].city = c
      /\ DOMAIN o = 1 .. m
  BY CallsOfOrder
<1>4. P = {k \in 1 .. m : o[k].city \in Ports(i)}  BY <1>3 DEF PortCalls
<1>5. IsFiniteSet(Ports(i)) /\ Cardinality(Ports(i)) \in Nat
  <2>1. NumStations(i) + 1 \in Int /\ m \in Int  BY <1>1
  <2> HIDE DEF m
  <2> QED BY <1>2, <2>1, FS_Interval, FS_CardinalityType
<1> HIDE DEF m, P
<1>6. f \in Injection(P, Ports(i))
  BY <1>3, <1>4 DEF Injection, IsInjective
<1>7. f \in Surjection(P, Ports(i))
  <2>1. ASSUME NEW c \in Ports(i) PROVE \E k \in P : f[k] = c
    <3>1. c \in 1 .. m  BY <1>1, <1>2
    <3>2. PICK k \in 1 .. m : o[k].city = c  BY <1>3, <3>1
    <3>3. k \in P  BY <1>4, <3>2
    <3> QED BY <3>2, <3>3
  <2>2. f \in [P -> Ports(i)]  BY <1>4
  <2> HIDE DEF f
  <2> QED BY <2>1, <2>2 DEF Surjection
<1>8. IsFiniteSet(P) /\ Cardinality(P) = Cardinality(Ports(i))
  <2> HIDE DEF f
  <2> QED BY <1>5, <1>6, <1>7, FS_Injection
<1>9. P \subseteq 1 .. m  BY <1>4
<1>10. Stops(i, o) = (P \cup {0}) \cup {m + 1}  BY <1>3 DEF Stops, P
<1>11. 0 \notin P /\ m + 1 \notin P \cup {0}  BY <1>1, <1>9
<1>12. IsFiniteSet(P \cup {0}) /\ Cardinality(P \cup {0}) = Cardinality(P) + 1
  BY <1>8, <1>11, FS_AddElement
<1>13. /\ IsFiniteSet((P \cup {0}) \cup {m + 1})
       /\ Cardinality((P \cup {0}) \cup {m + 1}) = Cardinality(P \cup {0}) + 1
  BY <1>11, <1>12, FS_AddElement
<1>14. Cardinality(Stops(i, o)) = Cardinality(Ports(i)) + 2
  <2>1. (Cardinality(Ports(i)) + 1) + 1 = Cardinality(Ports(i)) + 2  BY <1>5
  <2> QED BY <1>8, <1>10, <1>12, <1>13, <2>1
<1>15. Stops(i, o) \subseteq 0 .. m + 1 /\ 0 \in Stops(i, o) /\ m + 1 \in Stops(i, o)
  BY <1>1, <1>9, <1>10
<1> QED BY <1>5, <1>10, <1>13, <1>14, <1>15 DEF m

(* The bounds begin at the dock, end at the end, and no stop is between    *)
(* two of them.                                                            *)
LEMMA BoundsOfOrder ==
  ASSUME NEW i \in Instances, NEW o \in AllOrders(i),
         NEW n, n = Cardinality(Ports(i)) + 2
  PROVE  /\ n \in Nat /\ n >= 2 /\ Len(Bounds(i, o)) = n
         /\ Bounds(i, o)[1] = 0 /\ Bounds(i, o)[n] = M(i) + 1
         /\ \A k \in 1 .. n : Bounds(i, o)[k] \in 0 .. M(i) + 1
         /\ Ascends(Bounds(i, o), n, 0 .. M(i) + 1)
         /\ \A k \in 1 .. n - 1 :
              Adjacent(Bounds(i, o)[k], Bounds(i, o)[k + 1], Stops(i, o))
<1> DEFINE b == Bounds(i, o)
           S == Stops(i, o)
           e == M(i) + 1
<1>1. e \in Nat /\ e >= 1  BY Shape
<1>2. /\ S \subseteq 0 .. e /\ 0 \in S /\ e \in S /\ IsFiniteSet(S)
      /\ n \in Nat /\ Cardinality(S) = n
  BY NumberOfStops
<1>3. b = CHOOSE x \in [1 .. Cardinality(S) -> S] :
            \A j, k \in DOMAIN x : j < k => x[j] < x[k]
  BY DEF Bounds
<1> HIDE DEF b, S, e
<1>4. S \subseteq Nat  BY <1>1, <1>2
<1>5. PICK x : Ascends(x, Cardinality(S), S)  BY <1>2, <1>4, AscendingExists
<1>6. /\ x \in [1 .. Cardinality(S) -> S]
      /\ \A j, k \in DOMAIN x : j < k => x[j] < x[k]
  BY <1>5 DEF Ascends
<1>7. /\ b \in [1 .. Cardinality(S) -> S]
      /\ \A j, k \in DOMAIN b : j < k => b[j] < b[k]
  BY <1>3, <1>6
<1>8. Ascends(b, n, S)
  <2>1. b \in [1 .. n -> S] /\ DOMAIN b = 1 .. n  BY <1>2, <1>7
  <2> QED BY <1>7, <2>1 DEF Ascends
<1>9. /\ n >= 2 /\ b[1] = 0 /\ b[n] = e
      /\ \A k \in 1 .. n : b[k] \in S
      /\ \A k \in 1 .. n - 1 : Adjacent(b[k], b[k + 1], S)
  BY <1>1, <1>2, <1>8, AscendingMeetsAll
<1>10. Len(b) = n  BY <1>2, <1>8 DEF Ascends
<1>11. \A k \in 1 .. n : b[k] \in 0 .. e  BY <1>2, <1>9
<1>12. Ascends(b, n, 0 .. e)  BY <1>2, <1>8 DEF Ascends
<1> QED BY <1>2, <1>9, <1>10, <1>11, <1>12 DEF b, S, e

(* Where the legs of an order lead. *)
LEMMA TransitsOfOrder ==
  ASSUME NEW i \in Instances, NEW o \in AllOrders(i)
  PROVE  /\ DOMAIN Transits(i, o) = 1 .. M(i) + 1
         /\ \A k \in 1 .. M(i) + 1 : /\ Transits(i, o)[k][1] \in Locations
                                     /\ Transits(i, o)[k][2] \in Locations
         /\ Transits(i, o)[M(i) + 1][2] = i.endDock
         /\ \A k \in PortCalls(i, o) : Transits(i, o)[k][2] \in ToSet(Candidates(i))
<1> DEFINE m == M(i)
           l == Transits(i, o)
<1>1. m \in Nat /\ m >= 1 /\ NumStations(i) \in Nat  BY Shape
<1>2. /\ o \in [1 .. m -> [city : 1 .. m, back : BOOLEAN]] /\ Len(o) = m
      /\ \A k \in 1 .. m : o[k].city \in 1 .. m
      /\ PortCalls(i, o) = {k \in 1 .. m : o[k].city \notin Stations(i)}
  BY CallsOfOrder
<1>3. /\ i.dock \in Locations /\ i.endDock \in Locations
  BY InstanceAssumption DEF InstanceType
<1>4. Nodes(i) = 0 .. 2 * m + 1  BY Shape
<1>5. ASSUME NEW k \in 1 .. m
      PROVE  EntryOf(i, o[k]) \in Locations /\ ExitOf(i, o[k]) \in Locations
  <2> DEFINE c == o[k].city
  <2>1. 2 * c \in 0 .. 2 * m + 1 /\ 2 * c + 1 \in 0 .. 2 * m + 1
    <3>1. c \in 1 .. m  BY <1>2
    <3> HIDE DEF c, m
    <3> QED BY <1>1, <3>1
  <2>2. Location(i, 2 * c) \in Locations /\ Location(i, 2 * c + 1) \in Locations
    BY <1>4, <2>1, LocationType
  <2> QED BY <2>2 DEF EntryOf, ExitOf
<1>6. l = [k \in 1 .. m + 1 |->
             << IF k = 1 THEN i.dock ELSE ExitOf(i, o[k - 1]),
                IF k > m THEN i.endDock ELSE EntryOf(i, o[k]) >>]
  BY <1>2 DEF Transits
<1> HIDE DEF l, m
<1>7. ASSUME NEW k \in 1 .. m + 1
      PROVE  l[k][1] \in Locations /\ l[k][2] \in Locations
  <2>1. l[k][1] = (IF k = 1 THEN i.dock ELSE ExitOf(i, o[k - 1]))
        /\ l[k][2] = (IF k > m THEN i.endDock ELSE EntryOf(i, o[k]))
    BY <1>6
  <2>2. k # 1 => k - 1 \in 1 .. m  BY <1>1
  <2>3. ~(k > m) => k \in 1 .. m  BY <1>1
  <2> QED BY <1>3, <1>5, <2>1, <2>2, <2>3
<1>8. l[m + 1][2] = i.endDock
  <2>1. m + 1 \in 1 .. m + 1 /\ m + 1 > m  BY <1>1
  <2> QED BY <1>6, <2>1
<1>9. ASSUME NEW k \in PortCalls(i, o) PROVE l[k][2] \in ToSet(Candidates(i))
  <2> DEFINE c == o[k].city
  <2>1. k \in 1 .. m /\ c \notin Stations(i) /\ c \in 1 .. m  BY <1>2
  <2>2. k \in 1 .. m + 1 /\ ~(k > m)  BY <1>1, <2>1
  <2>3. l[k][2] = EntryOf(i, o[k])  BY <1>6, <2>2
  <2>4. /\ CityOf(2 * c) = c /\ CityOf(2 * c + 1) = c /\ c # 0
        /\ c \in Nat
    <3>1. c \in Nat /\ c # 0  BY <1>1, <2>1
    <3> HIDE DEF c
    <3> QED BY <3>1, CityOfNode
  <2>5. /\ Location(i, 2 * c) = Candidates(i)[c - NumStations(i)]
        /\ Location(i, 2 * c + 1) = Candidates(i)[c - NumStations(i)]
    <3> HIDE DEF c
    <3> QED BY <2>1, <2>4 DEF Location
  <2>6. EntryOf(i, o[k]) = Candidates(i)[c - NumStations(i)]
    BY <2>5 DEF EntryOf
  <2>7. c - NumStations(i) \in 1 .. Len(Candidates(i))
    <3>1. m = NumStations(i) + Len(Candidates(i))  BY DEF m, M
    <3>2. Len(Candidates(i)) \in Nat  BY CandidatesType
    <3> HIDE DEF c
    <3> QED BY <1>1, <2>1, <3>1, <3>2 DEF Stations
  <2>8. Candidates(i) \in Seq(Locations)  BY CandidatesType
  <2>9. DOMAIN Candidates(i) = 1 .. Len(Candidates(i))  BY <2>8
  <2> HIDE DEF c
  <2> QED BY <2>3, <2>6, <2>7, <2>9 DEF ToSet
<1>10. DOMAIN l = 1 .. m + 1  BY <1>6
<1> QED BY <1>7, <1>8, <1>9, <1>10 DEF l, m

(* What each leg adds to the length. *)
Leg(i, o) == [k \in 1 .. M(i) + 1 |-> Lookup(i, Transits(i, o)[k][1], Transits(i, o)[k][2])]

LEMMA LegType ==
  ASSUME NEW i \in Instances, NEW o \in AllOrders(i)
  PROVE  \A k \in 1 .. M(i) + 1 :
           /\ Leg(i, o)[k] \in Int
           /\ Leg(i, o)[k] = Lookup(i, Transits(i, o)[k][1], Transits(i, o)[k][2])
<1> TAKE k \in 1 .. M(i) + 1
<1>1. Transits(i, o)[k][1] \in Locations /\ Transits(i, o)[k][2] \in Locations
  BY TransitsOfOrder
<1>2. Leg(i, o)[k] = Lookup(i, Transits(i, o)[k][1], Transits(i, o)[k][2])  BY DEF Leg
<1> QED BY <1>1, <1>2, LookupType

LEMMA LengthOfAll ==
  ASSUME NEW i \in Instances, NEW o \in AllOrders(i)
  PROVE  Length(i, Transits(i, o)) = Total(Leg(i, o), 1 .. M(i) + 1)
<1> DEFINE l == Transits(i, o)
           g == [k \in DOMAIN l |-> Lookup(i, l[k][1], l[k][2])]
<1>1. DOMAIN l = 1 .. M(i) + 1  BY TransitsOfOrder
<1>2. g = Leg(i, o) /\ DOMAIN g = 1 .. M(i) + 1  BY <1>1 DEF Leg
<1>3. Length(i, l) = FoldFunctionOnSet(+, 0, g, DOMAIN g)  BY DEF Length, Sum
<1> HIDE DEF g, l
<1>4. Length(i, l) = Total(g, 1 .. M(i) + 1)  BY <1>2, <1>3, FoldOnSetIsTotal
<1> QED BY <1>2, <1>4 DEF l

(* A segment's transit is the sum of the legs within it. *)
LEMMA LengthOfPart ==
  ASSUME NEW i \in Instances, NEW o \in AllOrders(i),
         NEW a \in 0 .. M(i) + 1, NEW b \in 0 .. M(i) + 1, a < b
  PROVE  Length(i, SubSeq(Transits(i, o), a + 1, b)) = Total(Leg(i, o), a + 1 .. b)
<1> DEFINE m == M(i)
           l == Transits(i, o)
           p == SubSeq(l, a + 1, b)
           n == b - a
           g == [k \in DOMAIN p |-> Lookup(i, p[k][1], p[k][2])]
           h == Leg(i, o)
<1>1. m \in Nat /\ a \in 0 .. m + 1 /\ b \in 0 .. m + 1  BY Shape
<1>2. /\ \A k \in 1 .. m + 1 : h[k] \in Int /\ h[k] = Lookup(i, l[k][1], l[k][2])
  BY LegType
<1>3. p \in Seq({l[k] : k \in 1 .. m + 1}) /\ Len(p) = n
      /\ \A k \in 1 .. n : p[k] = l[a + k]
  <2> DEFINE x == a + 1
             V == {l[k] : k \in 1 .. m + 1}
  <2>1. x \in Int /\ b \in Int /\ \A k \in x .. b : l[k] \in V
    <3>1. \A k \in x .. b : k \in 1 .. m + 1
      <4> HIDE DEF m
      <4> QED BY <1>1
    <3> HIDE DEF l, m
    <3> QED BY <1>1, <3>1
  <2>2. /\ x <= b /\ b - x + 1 = n
        /\ \A k \in 1 .. n : x + k - 1 = a + k
    <3> HIDE DEF m
    <3> QED BY <1>1
  <2> HIDE DEF x, l, V
  <2>3. /\ SubSeq(l, x, b) \in Seq(V)
        /\ Len(SubSeq(l, x, b)) = IF x <= b THEN b - x + 1 ELSE 0
        /\ \A k \in 1 .. b - x + 1 : SubSeq(l, x, b)[k] = l[x + k - 1]
    BY <2>1, SubSeqProperties
  <2>4. p = SubSeq(l, x, b)  BY DEF x
  <2> HIDE DEF p, n
  <2> QED BY <2>2, <2>3, <2>4 DEF V
<1>4. DOMAIN p = 1 .. n
  <2> HIDE DEF p, n, l
  <2> QED BY <1>3
<1>5. n \in Nat /\ \A k \in 1 .. n : a + k \in 1 .. m + 1
  <2> HIDE DEF m
  <2> QED BY <1>1
<1>6. DOMAIN g = 1 .. n /\ \A k \in 1 .. n : g[k] = Lookup(i, p[k][1], p[k][2])
  <2> HIDE DEF p, n
  <2> QED BY <1>4
<1>7. Length(i, p) = FoldFunctionOnSet(+, 0, g, DOMAIN g)
  <2> HIDE DEF p
  <2> QED BY DEF Length, Sum
<1> HIDE DEF g, p, l, h
<1>8. Length(i, p) = Total(g, 1 .. n)  BY <1>6, <1>7, FoldOnSetIsTotal
<1>9. \A k \in 1 .. n : g[k] = h[a + k] /\ h[a + k] \in Int
  <2> HIDE DEF n, m
  <2> QED BY <1>2, <1>3, <1>5, <1>6
<1>10. Total(h, 1 + a .. n + a) = Total(g, 1 .. n)
  <2>1. 1 \in Int /\ n \in Int /\ a \in Int  BY <1>5
  <2>2. \A k \in 1 .. n : g[k] \in Int /\ h[k + a] = g[k]
    <3>1. \A k \in 1 .. n : k + a = a + k  BY <2>1
    <3> QED BY <1>9, <3>1
  <2> DEFINE z == 1
  <2>0. z \in Int /\ n \in Int /\ a \in Int  BY <2>1
  <2>3. \A k \in z .. n : g[k] \in Int /\ h[k + a] = g[k]
    BY <2>1, <2>2
  <2> HIDE DEF n, z
  <2>4. Total(h, z + a .. n + a) = Total(g, z .. n)
    BY ONLY <2>0, <2>3, TotalMoved
  <2> QED BY <2>4 DEF z
<1>11. 1 + a = a + 1 /\ n + a = b  BY <1>1
<1> QED BY <1>8, <1>10, <1>11 DEF p, l, h

(* A number strictly between the ends of an ascending list that is none of *)
(* its numbers lies between two neighbours, and only between these.        *)
OnlyAfter(b, n, x, z) ==
  \A k \in 1 .. n - 1 : (b[k] < x /\ x < b[k + 1]) <=> k = z

LEMMA BetweenNeighbours ==
  ASSUME NEW n \in Nat, NEW e \in Nat, NEW b, Ascends(b, n, 0 .. e),
         n >= 2, b[1] = 0, b[n] = e,
         NEW x \in 1 .. e - 1, \A k \in 1 .. n : b[k] # x
  PROVE  \E z \in 1 .. n - 1 : OnlyAfter(b, n, x, z)
<1>0. /\ b \in [1 .. n -> 0 .. e] /\ \A k \in 1 .. n : b[k] \in 0 .. e
      /\ \A j, k \in 1 .. n : j < k => b[j] < b[k]
  BY DEF Ascends
<1> USE <1>0
<1> DEFINE T == {k \in 1 .. n : x < b[k]}
<1>1. n \in T /\ T \subseteq Nat  OBVIOUS
<1>2. PICK y \in T : \A k \in T : y <= k
  <2> HIDE DEF T
  <2> QED BY <1>1, LeastNatural
<1>3. y \in 1 .. n /\ x < b[y]  OBVIOUS
<1>4. y # 1  BY <1>3
<1> DEFINE z == y - 1
<1>5. z \in 1 .. n - 1 /\ z \in 1 .. n /\ z + 1 = y  BY <1>3, <1>4
<1>6. z \notin T
  <2> HIDE DEF T
  <2>1. ~(y <= z)  BY <1>3
  <2> QED BY <1>2, <2>1
<1>7. b[z] < x
  <2>1. ~(x < b[z])  BY <1>5, <1>6
  <2>2. b[z] \in 0 .. e /\ b[z] # x  BY <1>5
  <2> HIDE DEF z
  <2> QED BY <2>1, <2>2
<1> HIDE DEF T, z
<1>8. ASSUME NEW k \in 1 .. n - 1, b[k] < x, x < b[k + 1] PROVE k = z
  <2>1. k \in 1 .. n /\ k + 1 \in 1 .. n  OBVIOUS
  <2>2. b[k] \in 0 .. e /\ b[k + 1] \in 0 .. e /\ b[z] \in 0 .. e /\ b[y] \in 0 .. e
    BY <1>3, <1>5, <2>1
  <2>3. ~(k + 1 < y)
    <3> SUFFICES ASSUME k + 1 <= z PROVE FALSE  BY <1>5, <2>1
    <3>1. k + 1 = z \/ k + 1 < z  BY <1>5, <2>1
    <3>2. k + 1 < z => b[k + 1] < b[z]  BY <1>5, <2>1
    <3> QED BY <1>7, <1>8, <2>2, <3>1, <3>2
  <2>4. ~(y < k + 1)
    <3> SUFFICES ASSUME y <= k PROVE FALSE  BY <1>5, <2>1
    <3>1. y = k \/ y < k  BY <1>3, <2>1
    <3>2. y < k => b[y] < b[k]  BY <1>3, <2>1
    <3> QED BY <1>3, <1>8, <2>2, <3>1, <3>2
  <2> QED BY <1>3, <1>5, <2>1, <2>3, <2>4
<1>9. x < b[z + 1]  BY <1>3, <1>5
<1>10. OnlyAfter(b, n, x, z)  BY <1>5, <1>7, <1>8, <1>9 DEF OnlyAfter
<1> QED BY <1>5, <1>10

(* Each station is on exactly one segment. *)
LEMMA OneSegmentEach ==
  ASSUME NEW i \in Instances, NEW o \in AllOrders(i), NEW c \in Stations(i),
         NEW n, n = Cardinality(Ports(i)) + 2
  PROVE  \E z \in 1 .. n - 1 : \A k \in 1 .. n - 1 :
           c \in ToSet(StationsBetween(o, Bounds(i, o)[k], Bounds(i, o)[k + 1])) <=> k = z
<1> DEFINE m == M(i)
           b == Bounds(i, o)
<1>1. m \in Nat /\ m >= 1 /\ NumStations(i) \in Nat /\ NumStations(i) <= m
  BY Shape
<1>2. /\ \A k \in 1 .. m : o[k].city \in 1 .. m
      /\ \A j, k \in 1 .. m : o[j].city = o[k].city => j = k
      /\ \A d \in 1 .. m : \E k \in 1 .. m : o[k].city = d
      /\ PortCalls(i, o) = {k \in 1 .. m : o[k].city \notin Stations(i)}
      /\ Len(o) = m
  BY CallsOfOrder
<1>3. /\ n \in Nat /\ n >= 2
      /\ b[1] = 0 /\ b[n] = m + 1 /\ Ascends(b, n, 0 .. m + 1)
      /\ \A k \in 1 .. n : b[k] \in 0 .. m + 1
      /\ \A k \in 1 .. n - 1 : Adjacent(b[k], b[k + 1], Stops(i, o))
  BY BoundsOfOrder
<1> HIDE DEF m, b
<1>4. c \in 1 .. m  BY <1>1 DEF Stations
<1>5. PICK x \in 1 .. m : o[x].city = c  BY <1>2, <1>4
<1>6. x \notin Stops(i, o)
  <2>1. x \notin PortCalls(i, o)  BY <1>2, <1>5
  <2>2. x # 0 /\ x # m + 1  BY <1>1
  <2> QED BY <1>2, <2>1, <2>2 DEF Stops
<1>7. \A k \in 1 .. n : b[k] # x
  <2> TAKE k \in 1 .. n
  <2>1. b[k] \in Stops(i, o)
    <3>1. CASE k = n
      <4>1. n - 1 \in 1 .. n - 1 /\ (n - 1) + 1 = n  BY <1>3
      <4> QED BY <1>3, <3>1, <4>1 DEF Adjacent
    <3>2. CASE k # n
      <4>1. k \in 1 .. n - 1  BY <1>3, <3>2
      <4> QED BY <1>3, <4>1 DEF Adjacent
    <3> QED BY <3>1, <3>2
  <2> QED BY <1>6, <2>1
<1>8. PICK z \in 1 .. n - 1 : OnlyAfter(b, n, x, z)
  <2> DEFINE e == m + 1
  <2>1. /\ e \in Nat /\ b[n] = e /\ x \in 1 .. e - 1
        /\ Ascends(b, n, 0 .. e)
    BY <1>1, <1>3 DEF Ascends
  <2>2. n \in Nat /\ n >= 2 /\ b[1] = 0  BY <1>3
  <2> HIDE DEF e
  <2> QED BY ONLY <1>7, <2>1, <2>2, BetweenNeighbours
<1>9. ASSUME NEW k \in 1 .. n - 1
      PROVE  c \in ToSet(StationsBetween(o, b[k], b[k + 1])) <=> (b[k] < x /\ x < b[k + 1])
  <2> DEFINE s == StationsBetween(o, b[k], b[k + 1])
  <2>1. b[k] \in 0 .. m + 1 /\ b[k + 1] \in 0 .. m + 1
    <3>1. k \in 1 .. n /\ k + 1 \in 1 .. n  BY <1>3
    <3> QED BY <1>3, <3>1
  <2>2. s = [j \in 1 .. b[k + 1] - b[k] - 1 |-> o[b[k] + j].city]
    BY DEF StationsBetween
  <2> HIDE DEF s
  <2>3. c \in ToSet(s) <=> \E j \in 1 .. b[k + 1] - b[k] - 1 : o[b[k] + j].city = c
    BY <2>2 DEF ToSet
  <2>4. ASSUME NEW j \in 1 .. b[k + 1] - b[k] - 1, o[b[k] + j].city = c
        PROVE  b[k] < x /\ x < b[k + 1]
    <3>1. b[k] + j \in 1 .. m /\ b[k] < b[k] + j /\ b[k] + j < b[k + 1]
      BY <1>1, <2>1
    <3> DEFINE y == b[k] + j
    <3>2. y \in 1 .. m /\ o[y].city = c /\ b[k] < y /\ y < b[k + 1]  BY <2>4, <3>1
    <3> HIDE DEF y
    <3>3. y = x
      <4>1. y \in 1 .. m /\ o[y].city = o[x].city  BY <1>5, <3>2
      <4>2. \A p, q \in 1 .. m : o[p].city = o[q].city => p = q  BY <1>2
      <4> QED BY ONLY x \in 1 .. m, <4>1, <4>2
    <3> QED BY <3>2, <3>3
  <2>5. ASSUME b[k] < x, x < b[k + 1]
        PROVE  \E j \in 1 .. b[k + 1] - b[k] - 1 : o[b[k] + j].city = c
    <3>1. x - b[k] \in 1 .. b[k + 1] - b[k] - 1 /\ b[k] + (x - b[k]) = x
      BY <1>1, <2>1, <2>5
    <3> QED BY <1>5, <3>1
  <2> QED BY <2>3, <2>4, <2>5 DEF s
<1> QED BY <1>8, <1>9 DEF b, OnlyAfter

(* What the transits of the segments add up to. *)
SumsBetween(g, h, b, n) ==
  \A k \in 1 .. n - 1 : g[k] = Total(h, b[k] + 1 .. b[k + 1])

LEMMA TransitsAddUp ==
  ASSUME NEW n \in Nat, NEW e \in Nat, NEW b, NEW h, NEW g,
         Ascends(b, n, 0 .. e), n >= 2, b[1] = 0, b[n] = e,
         \A k \in 1 .. e : h[k] \in Int,
         SumsBetween(g, h, b, n)
  PROVE  Total(g, 1 .. n - 1) = Total(h, 1 .. e)
<1>0. /\ \A k \in 1 .. n : b[k] \in 0 .. e
      /\ \A k \in 1 .. n - 1 : b[k] < b[k + 1]
      /\ \A k \in 1 .. n - 1 : g[k] = Total(h, b[k] + 1 .. b[k + 1])
  BY DEF Ascends, SumsBetween
<1> USE <1>0
<1> DEFINE T == {k \in 1 .. n - 1 : Total(g, 1 .. k) = Total(h, 1 .. b[k + 1])}
<1>1. \A k \in 1 .. n - 1 : k \in 1 .. n /\ k + 1 \in 1 .. n  OBVIOUS
<1>2. ASSUME NEW k \in 1 .. n - 1 PROVE g[k] \in Int
  <2> DEFINE S == b[k] + 1 .. b[k + 1]
  <2>1. b[k] \in 0 .. e /\ b[k + 1] \in 0 .. e  BY <1>1
  <2>2. IsFiniteSet(S) /\ \A y \in S : h[y] \in Int
    <3>1. IsFiniteSet(S)
      <4> DEFINE a == b[k] + 1
                 z == b[k + 1]
      <4>1. a \in Int /\ z \in Int  BY <2>1
      <4> HIDE DEF a, z
      <4>2. IsFiniteSet(a .. z)  BY <4>1, FS_Interval
      <4> QED BY <4>2 DEF a, z
    <3>2. \A y \in S : y \in 1 .. e  BY <2>1
    <3> HIDE DEF S
    <3> QED BY <3>1, <3>2
  <2> HIDE DEF S
  <2>3. Total(h, S) \in Int  BY <2>2, TotalRemove
  <2> QED BY <2>3 DEF S
<1>3. 1 \in T
  <2>1. 1 \in 1 .. n - 1 /\ 1 .. 1 = {1} /\ b[1] + 1 = 1  OBVIOUS
  <2>2. Total(g, {1}) = g[1]  BY <1>2, <2>1, TotalSingle
  <2>3. g[1] = Total(h, 1 .. b[1 + 1])  BY <2>1
  <2> QED BY <2>1, <2>2, <2>3
<1>4. ASSUME NEW k \in 1 .. (n - 1) - 1, k \in T PROVE k + 1 \in T
  <2> DEFINE j == k + 1
             x == b[j]
             y == b[j + 1]
  <2>1. j \in 1 .. n - 1 /\ j - 1 = k /\ 1 <= j /\ j \in Int /\ 1 \in Int  OBVIOUS
  <2>2. \A q \in 1 .. j : g[q] \in Int
    <3>1. \A q \in 1 .. j : q \in 1 .. n - 1  BY <2>1
    <3> QED BY <1>2, <3>1
  <2>3. Total(g, 1 .. k) = Total(h, 1 .. x)  BY <1>4
  <2>4. /\ x \in 0 .. e /\ y \in 0 .. e /\ x < y
        /\ g[j] = Total(h, x + 1 .. y)
    BY <1>1, <2>1
  <2> HIDE DEF T, j, x, y
  <2>5. Total(g, 1 .. j) = g[j] + Total(g, 1 .. k)
    <3>1. Total(g, 1 .. j) = g[j] + Total(g, 1 .. j - 1)  BY ONLY <2>1, <2>2, TotalLast
    <3> QED BY <2>1, <3>1
  <2>6. Total(h, 1 .. y) = Total(h, 1 .. x) + Total(h, x + 1 .. y)
    <3> DEFINE R == 1 .. x
               S == x + 1 .. y
    <3>1. R \cup S = 1 .. y /\ R \cap S = {} /\ \A q \in R \cup S : q \in 1 .. e
      BY <2>4
    <3>2. IsFiniteSet(R) /\ IsFiniteSet(S)
      <4>1. 1 \in Int /\ x \in Int /\ x + 1 \in Int /\ y \in Int  BY <2>4
      <4>2. IsFiniteSet(R)  BY <4>1, FS_Interval
      <4> DEFINE a == x + 1
      <4>3. a \in Int  BY <4>1
      <4> HIDE DEF a
      <4>4. IsFiniteSet(a .. y)  BY <4>1, <4>3, FS_Interval
      <4> QED BY <4>2, <4>4 DEF a
    <3> HIDE DEF R, S
    <3>3. Total(h, R \cup S) = Total(h, R) + Total(h, S)
      BY <3>1, <3>2, TotalUnion
    <3> QED BY <3>1, <3>3 DEF R, S
  <2>7. Total(h, x + 1 .. y) \in Int /\ Total(h, 1 .. x) \in Int
    <3>1. g[j] \in Int  BY <1>2, <2>1
    <3>2. Total(h, 1 .. x) \in Int
      <4> DEFINE R == 1 .. x
      <4>1. IsFiniteSet(R)
        <5>1. 1 \in Int /\ x \in Int  BY <2>4
        <5> QED BY <5>1, FS_Interval
      <4>2. \A q \in R : h[q] \in Int
        <5>1. \A q \in R : q \in 1 .. e  BY <2>4
        <5> QED BY <5>1
      <4> HIDE DEF R
      <4>3. Total(h, R) \in Int  BY <4>1, <4>2, TotalRemove
      <4> QED BY <4>3 DEF R
    <3> QED BY <2>4, <3>1, <3>2
  <2>8. Total(g, 1 .. j) = Total(h, 1 .. y)  BY <2>3, <2>4, <2>5, <2>6, <2>7
  <2> QED BY <2>1, <2>8 DEF T, j, y
<1>5. n - 1 \in T
  <2> DEFINE N == n - 1
  <2>1. N \in Nat /\ N \in 1 .. N  OBVIOUS
  <2>2. \A k \in 1 .. N - 1 : k \in T => k + 1 \in T  BY <1>4
  <2> HIDE DEF T, N
  <2>3. \A k \in 1 .. N : k \in T  BY <1>3, <2>1, <2>2, EveryInInterval
  <2> QED BY <2>1, <2>3 DEF N
<1>6. (n - 1) + 1 = n  OBVIOUS
<1> QED BY <1>5, <1>6

LEMMA SegmentsOfOrder ==
  ASSUME NEW i \in Instances, NEW o \in Orders[i]
  PROVE  LET segs == Segments(i, o)
         IN  /\ Len(segs) = Cardinality(Ports(i)) + 1
             /\ \A c \in Stations(i) :
                  Cardinality({k \in DOMAIN segs : c \in ToSet(segs[k].stations)}) = 1
             /\ \A k \in DOMAIN segs : CallsAtPorts(i) => segs[k].catch <= i.capacity
             /\ segs[Len(segs)].dock = i.endDock
             /\ \A k \in 1 .. Len(segs) - 1 : segs[k].dock \in ToSet(Candidates(i))
             /\ Sum([k \in DOMAIN segs |-> segs[k].transit]) = Length(i, Transits(i, o))
<1> DEFINE segs == Segments(i, o)
           m == M(i)
           n == Cardinality(Ports(i)) + 2
           N == n - 1
           b == Bounds(i, o)
           S == Stops(i, o)
<1>1. o \in AllOrders(i) /\ (CallsAtPorts(i) => Fits(i, o))  BY DEF Orders
<1>2. m \in Nat  BY Shape
<1>3. /\ n \in Nat /\ n >= 2 /\ Len(b) = n /\ b[1] = 0 /\ b[n] = m + 1
      /\ \A k \in 1 .. n : b[k] \in 0 .. m + 1
      /\ Ascends(b, n, 0 .. m + 1)
      /\ \A k \in 1 .. n - 1 : Adjacent(b[k], b[k + 1], S)
  BY <1>1, BoundsOfOrder
<1>4. Cardinality(Ports(i)) \in Nat  BY <1>1, NumberOfStops
<1>5. N \in Nat /\ N >= 1 /\ N = Cardinality(Ports(i)) + 1  BY <1>4
<1>6. segs = [k \in 1 .. N |-> Segment(i, o, b[k], b[k + 1])]
  BY <1>3 DEF Segments
<1> HIDE DEF segs, m, n, b, S
<1>7. Len(segs) = N /\ DOMAIN segs = 1 .. N
  <2> HIDE DEF N
  <2> QED BY <1>5, <1>6
<1>8. ASSUME NEW k \in 1 .. N
      PROVE  /\ segs[k].stations = StationsBetween(o, b[k], b[k + 1])
             /\ segs[k].catch = CatchOf(i, StationsBetween(o, b[k], b[k + 1]))
             /\ segs[k].dock = Transits(i, o)[b[k + 1]][2]
             /\ segs[k].transit = Length(i, SubSeq(Transits(i, o), b[k] + 1, b[k + 1]))
  <2>1. segs[k] = Segment(i, o, b[k], b[k + 1])  BY <1>6
  <2> QED BY <2>1 DEF Segment
<1>9. ASSUME NEW k \in 1 .. N
      PROVE  /\ Adjacent(b[k], b[k + 1], S) /\ b[k] < b[k + 1]
             /\ b[k] \in 0 .. m + 1 /\ b[k + 1] \in 0 .. m + 1
             /\ b[k] \in S /\ b[k + 1] \in S
  <2>1. k \in 1 .. n /\ k + 1 \in 1 .. n /\ k \in 1 .. n - 1  BY <1>3, <1>5
  <2> QED BY <1>3, <2>1 DEF Adjacent
<1>10. ASSUME NEW c \in Stations(i)
       PROVE  Cardinality({k \in DOMAIN segs : c \in ToSet(segs[k].stations)}) = 1
  <2>1. PICK z \in 1 .. n - 1 : \A k \in 1 .. n - 1 :
          c \in ToSet(StationsBetween(o, b[k], b[k + 1])) <=> k = z
    BY <1>1, OneSegmentEach DEF n, b
  <2>2. z \in 1 .. N  OBVIOUS
  <2>3. \A k \in 1 .. N : c \in ToSet(segs[k].stations) <=> k = z
    BY <1>8, <2>1
  <2> HIDE DEF N
  <2>4. {k \in DOMAIN segs : c \in ToSet(segs[k].stations)} = {z}
    BY <1>7, <2>2, <2>3
  <2> QED BY <2>4, FS_Singleton
<1>11. ASSUME NEW k \in DOMAIN segs, CallsAtPorts(i)
       PROVE  segs[k].catch <= i.capacity
  <2>1. k \in 1 .. N  BY <1>7
  <2>2. Adjacent(b[k], b[k + 1], S)  BY <1>9, <2>1
  <2>3. CatchOf(i, StationsBetween(o, b[k], b[k + 1])) <= i.capacity
    BY <1>1, <1>11, <2>2 DEF Fits, Adjacent, S
  <2> QED BY <1>8, <2>1, <2>3
<1>12. segs[N].dock = i.endDock
  <2>1. N \in 1 .. N /\ N + 1 = n  BY <1>3, <1>5
  <2>2. segs[N].dock = Transits(i, o)[m + 1][2]
    <3> HIDE DEF N
    <3> QED BY <1>3, <1>8, <2>1
  <2> QED BY <1>1, <2>2, TransitsOfOrder DEF m
<1>13. ASSUME NEW k \in 1 .. N - 1
       PROVE  segs[k].dock \in ToSet(Candidates(i))
  <2>1. k \in 1 .. N /\ k + 1 \in 1 .. N  BY <1>5
  <2>2. /\ b[k + 1] \in S /\ b[k] \in 0 .. m + 1 /\ b[k] < b[k + 1]
        /\ b[k + 1] \in 0 .. m + 1
    BY <1>9, <2>1
  <2>3. b[k + 1] < b[(k + 1) + 1] /\ b[(k + 1) + 1] \in 0 .. m + 1
    <3> DEFINE j == k + 1
    <3>1. j \in 1 .. N  BY <2>1
    <3> HIDE DEF j
    <3>2. b[j] < b[j + 1] /\ b[j + 1] \in 0 .. m + 1  BY <1>9, <3>1
    <3> QED BY <3>2 DEF j
  <2>4. b[k + 1] # 0 /\ b[k + 1] # m + 1  BY <1>2, <2>2, <2>3
  <2>5. Len(o) = m  BY <1>1, CallsOfOrder DEF m
  <2>6. b[k + 1] \in PortCalls(i, o)  BY <2>2, <2>4, <2>5 DEF Stops, S
  <2>7. Transits(i, o)[b[k + 1]][2] \in ToSet(Candidates(i))
    BY <1>1, <2>6, TransitsOfOrder
  <2> QED BY <1>8, <2>1, <2>7
<1>14. Sum([k \in DOMAIN segs |-> segs[k].transit]) = Length(i, Transits(i, o))
  <2> DEFINE g == [k \in DOMAIN segs |-> segs[k].transit]
             h == Leg(i, o)
             e == m + 1
  <2>1. DOMAIN g = 1 .. N /\ \A k \in 1 .. N : g[k] = segs[k].transit  BY <1>7
  <2>2. Sum(g) = FoldFunctionOnSet(+, 0, g, DOMAIN g)  BY DEF Sum
  <2>3. \A k \in 1 .. m + 1 : h[k] \in Int  BY <1>1, LegType DEF m
  <2> HIDE DEF g, h
  <2>4. Sum(g) = Total(g, 1 .. N)  BY <2>1, <2>2, FoldOnSetIsTotal
  <2>5. ASSUME NEW k \in 1 .. N PROVE g[k] = Total(h, b[k] + 1 .. b[k + 1])
    <3>1. b[k] \in 0 .. m + 1 /\ b[k + 1] \in 0 .. m + 1 /\ b[k] < b[k + 1]  BY <1>9
    <3>2. Length(i, SubSeq(Transits(i, o), b[k] + 1, b[k + 1])) =
            Total(h, b[k] + 1 .. b[k + 1])
      BY <1>1, <3>1, LengthOfPart DEF m, h
    <3> QED BY <1>8, <2>1, <3>2
  <2>6. Total(g, 1 .. n - 1) = Total(h, 1 .. e)
    <3>1. e \in Nat /\ b[n] = e /\ \A k \in 1 .. e : h[k] \in Int
      BY <1>2, <1>3, <2>3
    <3>2. Ascends(b, n, 0 .. e)  BY <1>3
    <3>3. SumsBetween(g, h, b, n)  BY <2>5 DEF SumsBetween
    <3>4. n \in Nat /\ n >= 2 /\ b[1] = 0  BY <1>3
    <3> HIDE DEF e
    <3> QED BY ONLY <3>1, <3>2, <3>3, <3>4, TransitsAddUp
  <2>7. Length(i, Transits(i, o)) = Total(h, 1 .. m + 1)
    BY <1>1, LengthOfAll DEF m, h
  <2> QED BY <2>4, <2>6, <2>7 DEF g
<1> HIDE DEF N
<1> QED
  BY <1>5, <1>7, <1>10, <1>11, <1>12, <1>13, <1>14 DEF segs

LEMMA SegmentsFitHolds == SearchInv => SegmentsFit
<1> SUFFICES ASSUME SearchInv, phase \in {"planned", "open", "done"}
             PROVE  LET segs == Segments(inst, order)
                    IN /\ Len(segs) = Cardinality(Ports(inst)) + 1
                       /\ \A c \in Stations(inst) :
                            Cardinality({k \in DOMAIN segs : c \in ToSet(segs[k].stations)}) = 1
                       /\ \A k \in DOMAIN segs :
                            CallsAtPorts(inst) => segs[k].catch <= inst.capacity
                       /\ segs[Len(segs)].dock = inst.endDock
                       /\ \A k \in 1 .. Len(segs) - 1 :
                            segs[k].dock \in ToSet(Candidates(inst))
                       /\ \A b \in best :
                            Sum([k \in DOMAIN segs |-> segs[k].transit]) = b.cost
  BY DEF SegmentsFit
<1>1. inst \in Instances  BY DEF SearchInv, TypeInv
<1>2. /\ order \in Orders[inst]
      /\ \A b \in best : Length(inst, Transits(inst, order)) = b.cost
  BY OrderAsPaidHolds DEF OrderAsPaid
<1> QED BY <1>1, <1>2, SegmentsOfOrder

(* The segments the programs write cut such an order at its ports: one for *)
(* each port and one home, every station on exactly one, none above the    *)
(* capacity, and together as long as the objective.                        *)
THEOREM SegmentsAlwaysFit == Spec => []SegmentsFit
BY SearchInvAlways, SegmentsFitHolds, PTL
===============================================================================
