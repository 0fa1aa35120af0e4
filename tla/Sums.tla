-------------------------------- MODULE Sums --------------------------------
(***************************************************************************)
(* Sums over finite sets, and the induction their facts rest on. The       *)
(* specifications add up with the folds of the community modules, which    *)
(* all come to one recursive function, Total; these lemmas say what it     *)
(* does when an index is added, changed or shifted.                        *)
(*                                                                         *)
(* Induction is stated with sets, not with operators: what is to hold of   *)
(* every number or of every finite set is that a set of them is full.      *)
(***************************************************************************)
EXTENDS Integers, FiniteSetsExt, FiniteSetTheorems, TLAPS

-----------------------------------------------------------------------------
(* Induction *)

(* A non-empty collection of subsets of a finite set has a minimal member. *)
LEMMA MinimalSubset ==
  ASSUME NEW S, IsFiniteSet(S), NEW T, T \subseteq SUBSET S, T # {}
  PROVE  \E m \in T : \A n \in T : n \subseteq m => n = m
<1>1. FiniteSubsetsOf(S) = SUBSET S
  BY FS_FiniteSubsetsOfFinite
<1>2. IsWellFoundedOn(StrictSubsetOrdering(S), SUBSET S)
  BY <1>1, FS_StrictSubsetOrderingWellFounded
<1>3. PICK m \in T : \A n \in T : ~(<<n, m>> \in StrictSubsetOrdering(S))
  BY <1>2, WFMin
<1> QED BY <1>3 DEF StrictSubsetOrdering

(* A non-empty set of natural numbers has a least element: the intervals   *)
(* from zero to its members are subsets of a finite one.                   *)
LEMMA LeastNatural ==
  ASSUME NEW T, T \subseteq Nat, T # {}
  PROVE  \E m \in T : \A n \in T : m <= n
<1>1. PICK k \in T : TRUE  OBVIOUS
<1> DEFINE V == 0 .. k
           U == {0 .. m : m \in {j \in T : j <= k}}
<1>2. IsFiniteSet(V)  BY FS_Interval
<1>3. U \subseteq SUBSET V /\ U # {}  OBVIOUS
<1>4. PICK u \in U : \A v \in U : v \subseteq u => v = u
  <2> HIDE DEF U, V
  <2> QED BY <1>2, <1>3, MinimalSubset
<1>5. PICK m \in T : m <= k /\ u = 0 .. m  OBVIOUS
<1>6. ASSUME NEW n \in T PROVE m <= n
  <2> SUFFICES ASSUME n < m PROVE FALSE  OBVIOUS
  <2>1. 0 .. n \in U  BY <1>5
  <2>2. 0 .. n \subseteq u /\ m \in u /\ m \notin 0 .. n  BY <1>5
  <2> QED BY <2>1, <2>2, <1>4
<1> QED BY <1>6

(* A set with zero and the successor of each member has every number. *)
LEMMA EveryNatural ==
  ASSUME NEW T, 0 \in T, \A n \in Nat : n \in T => n + 1 \in T
  PROVE  \A n \in Nat : n \in T
<1> SUFFICES ASSUME NEW k \in Nat, k \notin T PROVE FALSE  OBVIOUS
<1> DEFINE U == Nat \ T
<1>1. PICK m \in U : \A n \in U : m <= n
  <2>1. U \subseteq Nat /\ U # {}  OBVIOUS
  <2> HIDE DEF U
  <2> QED BY <2>1, LeastNatural
<1>2. m # 0 /\ m - 1 \in Nat /\ m - 1 \in T  BY <1>1
<1> QED BY <1>2, <1>1

(* The same from one on, up to a bound. *)
LEMMA EveryInInterval ==
  ASSUME NEW N \in Nat, NEW T, 1 \in T,
         \A n \in 1 .. N - 1 : n \in T => n + 1 \in T
  PROVE  \A n \in 1 .. N : n \in T
<1> DEFINE U == {n \in Nat : n + 1 \in 1 .. N => n + 1 \in T}
<1>1. 0 \in U  OBVIOUS
<1>2. \A n \in Nat : n \in U => n + 1 \in U
  <2> SUFFICES ASSUME NEW n \in Nat, n \in U, n + 2 \in 1 .. N
               PROVE  n + 2 \in T
    OBVIOUS
  <2>1. n + 1 \in 1 .. N - 1 /\ n + 1 \in T  OBVIOUS
  <2>2. (n + 1) + 1 \in T  BY <2>1
  <2> QED BY <2>2
<1>3. \A n \in Nat : n \in U
  <2> HIDE DEF U
  <2> QED BY <1>1, <1>2, EveryNatural
<1>4. ASSUME NEW n \in 1 .. N PROVE n \in T
  <2>1. n - 1 \in Nat /\ n - 1 \in U  BY <1>3
  <2> QED BY <2>1
<1> QED BY <1>4

(* A collection with the empty set, and with each member grown by one      *)
(* element of S, has the finite set S.                                     *)
LEMMA GrownSubset ==
  ASSUME NEW S, IsFiniteSet(S), NEW T, {} \in T,
         \A U \in SUBSET S : \A x \in S \ U : U \in T => U \cup {x} \in T
  PROVE  S \in T
<1> SUFFICES ASSUME S \notin T PROVE FALSE  OBVIOUS
<1> DEFINE W == (SUBSET S) \ T
<1>1. PICK m \in W : \A n \in W : n \subseteq m => n = m
  <2>1. W \subseteq SUBSET S /\ W # {}  OBVIOUS
  <2> HIDE DEF W
  <2> QED BY <2>1, MinimalSubset
<1>2. PICK x \in m : TRUE  BY <1>1
<1>3. m \ {x} \in T  BY <1>1, <1>2
<1>4. x \in S \ (m \ {x}) /\ m \ {x} \in SUBSET S /\ (m \ {x}) \cup {x} = m
  BY <1>1, <1>2
<1> QED BY <1>1, <1>3, <1>4

-----------------------------------------------------------------------------
(* The sum *)

Pick(s) == CHOOSE x \in s : TRUE

Total(f, S) ==
  LET iter[s \in SUBSET S] ==
        IF s = {} THEN 0 ELSE f[Pick(s)] + iter[s \ {Pick(s)}]
  IN  iter[S]

(* The folds the specifications use are this sum. *)
LEMMA MapThenSumSetIsTotal ==
  ASSUME NEW f, NEW S
  PROVE  MapThenSumSet(LAMBDA x : f[x], S) = Total(f, S)
BY DEF MapThenSumSet, MapThenFoldSet, Total, Pick

LEMMA FoldOnSetIsTotal ==
  ASSUME NEW f, NEW S
  PROVE  FoldFunctionOnSet(+, 0, f, S) = Total(f, S)
BY DEF FoldFunctionOnSet, MapThenFoldSet, Total, Pick

(* g adds up f over the subsets of S. *)
AddsUp(g, f, S) ==
  g = [s \in SUBSET S |->
         IF s = {} THEN 0 ELSE f[Pick(s)] + g[s \ {Pick(s)}]]

(* There is such a function: one that is right for the sets of at most n   *)
(* elements is right for n + 1 when its right-hand side is taken once.     *)
LEMMA TotalExists ==
  ASSUME NEW f, NEW S, IsFiniteSet(S)
  PROVE  \E g : AddsUp(g, f, S) /\ Total(f, S) = g[S]
<1> DEFINE Once(g) == [s \in SUBSET S |->
                         IF s = {} THEN 0 ELSE f[Pick(s)] + g[s \ {Pick(s)}]]
           Right(g, n) == \A s \in SUBSET S : Cardinality(s) <= n => g[s] = Once(g)[s]
           T == {n \in Nat : \E g : Right(g, n)}
<1>1. \A s \in SUBSET S : IsFiniteSet(s) /\ Cardinality(s) \in Nat
  BY FS_Subset, FS_CardinalityType
<1>2. \A s \in SUBSET S : s # {} =>
         /\ Pick(s) \in s /\ s \ {Pick(s)} \in SUBSET S
         /\ Cardinality(s \ {Pick(s)}) = Cardinality(s) - 1
  BY <1>1, FS_RemoveElement DEF Pick
<1>3. \A s \in SUBSET S : Cardinality(s) = 0 <=> s = {}
  BY <1>1, FS_EmptySet
<1>4. 0 \in T
  <2>1. Right([s \in SUBSET S |-> 0], 0)  BY <1>1, <1>3
  <2> QED BY <2>1
<1>5. ASSUME NEW n \in Nat, n \in T PROVE n + 1 \in T
  <2>1. PICK g : Right(g, n)  BY <1>5
  <2> DEFINE h == Once(g)
  <2>2. ASSUME NEW s \in SUBSET S, Cardinality(s) <= n + 1
        PROVE  h[s] = Once(h)[s]
    <3>1. CASE s = {}  BY <3>1
    <3>2. CASE s # {}
      <4> DEFINE r == s \ {Pick(s)}
      <4>1. r \in SUBSET S /\ Cardinality(r) <= n  BY <3>2, <1>1, <1>2, <2>2
      <4>2. g[r] = h[r]  BY <4>1, <2>1
      <4>3. h[s] = f[Pick(s)] + g[r]  BY <3>2
      <4>4. Once(h)[s] = f[Pick(s)] + h[r]
        <5> HIDE DEF h
        <5> QED BY <3>2
      <4> QED BY <4>2, <4>3, <4>4
    <3> QED BY <3>1, <3>2
  <2>3. Right(h, n + 1)
    <3> HIDE DEF h
    <3> QED BY <2>2
  <2> HIDE DEF Right
  <2> QED BY <2>3
<1>6. \A n \in Nat : n \in T
  <2> HIDE DEF T
  <2> QED BY <1>4, <1>5, EveryNatural
<1>7. PICK g : Right(g, Cardinality(S))
  <2>1. Cardinality(S) \in T  BY <1>1, <1>6
  <2> HIDE DEF Right
  <2> QED BY <2>1
<1>8. \E h : AddsUp(h, f, S)
  <2> DEFINE h == Once(g)
  <2>1. \A s \in SUBSET S : g[s] = h[s]
    BY <1>7, FS_Subset
  <2>2. h = Once(h)
    <3>1. ASSUME NEW s \in SUBSET S PROVE h[s] = Once(h)[s]
      <4>1. CASE s = {}  BY <4>1
      <4>2. CASE s # {}
        <5> DEFINE r == s \ {Pick(s)}
        <5>1. g[r] = h[r]  BY <4>2, <1>2, <2>1
        <5>2. h[s] = f[Pick(s)] + g[r]  BY <4>2
        <5>3. Once(h)[s] = f[Pick(s)] + h[r]
          <6> HIDE DEF h
          <6> QED BY <4>2
        <5> QED BY <5>1, <5>2, <5>3
      <4> QED BY <4>1, <4>2
    <3>2. DOMAIN h = SUBSET S /\ h = [s \in SUBSET S |-> h[s]]  OBVIOUS
    <3>3. DOMAIN Once(h) = SUBSET S /\ Once(h) = [s \in SUBSET S |-> Once(h)[s]]
      OBVIOUS
    <3> HIDE DEF h, Once
    <3> QED BY <3>1, <3>2, <3>3
  <2> HIDE DEF h
  <2> QED BY <2>2 DEF AddsUp
<1> DEFINE c == CHOOSE h : AddsUp(h, f, S)
<1>9. Total(f, S) = c[S]  BY DEF Total, AddsUp
<1>10. AddsUp(c, f, S)
  <2> HIDE DEF AddsUp
  <2> QED BY <1>8
<1> QED BY <1>9, <1>10

(* The same number, whatever larger set the function is made for. *)
LEMMA TotalOfSubset ==
  ASSUME NEW f, NEW S, IsFiniteSet(S), NEW g, AddsUp(g, f, S)
  PROVE  \A R \in SUBSET S : g[R] = Total(f, R)
<1> SUFFICES ASSUME NEW R \in SUBSET S PROVE g[R] = Total(f, R)  OBVIOUS
<1>1. IsFiniteSet(R) /\ \A s \in SUBSET R : IsFiniteSet(s) /\ Cardinality(s) \in Nat
  BY FS_Subset, FS_CardinalityType
<1>2. PICK h : AddsUp(h, f, R) /\ Total(f, R) = h[R]
  BY <1>1, TotalExists
<1> DEFINE T == {n \in Nat : \A s \in SUBSET R : Cardinality(s) = n => g[s] = h[s]}
<1>3. 0 \in T
  <2>1. \A s \in SUBSET R : Cardinality(s) = 0 => s = {}  BY <1>1, FS_EmptySet
  <2>2. g[{}] = 0 /\ h[{}] = 0  BY <1>2 DEF AddsUp
  <2> QED BY <2>1, <2>2
<1>4. ASSUME NEW n \in Nat, n \in T PROVE n + 1 \in T
  <2> SUFFICES ASSUME NEW s \in SUBSET R, Cardinality(s) = n + 1
               PROVE  g[s] = h[s]
    OBVIOUS
  <2>1. s # {}  BY FS_EmptySet
  <2>2. Pick(s) \in s  BY <2>1 DEF Pick
  <2> DEFINE r == s \ {Pick(s)}
  <2>3. r \in SUBSET R /\ Cardinality(r) = n
    <3> DEFINE p == Pick(s)
    <3>1. p \in s /\ IsFiniteSet(s)  BY <2>2, <1>1
    <3> HIDE DEF p
    <3>2. Cardinality(s \ {p}) = Cardinality(s) - 1  BY <3>1, FS_RemoveElement
    <3>3. Cardinality(s \ {p}) = n  BY <3>2
    <3> QED BY <3>3 DEF p
  <2>4. g[r] = h[r]  BY <2>3, <1>4
  <2>5. g[s] = f[Pick(s)] + g[r] /\ h[s] = f[Pick(s)] + h[r]
    BY <2>1, <1>2 DEF AddsUp
  <2> QED BY <2>4, <2>5
<1>5. \A n \in Nat : n \in T
  <2> HIDE DEF T
  <2> QED BY <1>3, <1>4, EveryNatural
<1> QED BY <1>1, <1>2, <1>5

LEMMA TotalEmpty ==
  ASSUME NEW f
  PROVE  Total(f, {}) = 0
<1>1. PICK g : AddsUp(g, f, {}) /\ Total(f, {}) = g[{}]  BY TotalExists, FS_EmptySet
<1> QED BY <1>1 DEF AddsUp

(* Any element may be taken last, not only the one CHOOSE picks. *)
LEMMA TotalRemove ==
  ASSUME NEW f, NEW S, IsFiniteSet(S), \A y \in S : f[y] \in Int
  PROVE  /\ Total(f, S) \in Int
         /\ \A x \in S : Total(f, S) = f[x] + Total(f, S \ {x})
<1>1. PICK g : AddsUp(g, f, S) /\ Total(f, S) = g[S]  BY TotalExists
<1>2. \A s \in SUBSET S : IsFiniteSet(s) /\ Cardinality(s) \in Nat
  BY FS_Subset, FS_CardinalityType
<1> DEFINE T == {n \in Nat : \A s \in SUBSET S : Cardinality(s) <= n =>
                   g[s] \in Int /\ \A x \in s : g[s] = f[x] + g[s \ {x}]}
<1>3. 0 \in T
  <2> SUFFICES ASSUME NEW s \in SUBSET S, Cardinality(s) <= 0
               PROVE  g[s] \in Int /\ \A x \in s : g[s] = f[x] + g[s \ {x}]
    OBVIOUS
  <2>1. s = {}  BY <1>2, FS_EmptySet
  <2>2. g[{}] = 0  BY <1>1 DEF AddsUp
  <2> QED BY <2>1, <2>2
<1>4. ASSUME NEW n \in Nat, n \in T PROVE n + 1 \in T
  <2> SUFFICES ASSUME NEW s \in SUBSET S, Cardinality(s) <= n + 1
               PROVE  g[s] \in Int /\ \A x \in s : g[s] = f[x] + g[s \ {x}]
    OBVIOUS
  <2> SUFFICES ASSUME s # {}
               PROVE  g[s] \in Int /\ \A x \in s : g[s] = f[x] + g[s \ {x}]
    <3>1. g[{}] = 0  BY <1>1 DEF AddsUp
    <3> QED BY <3>1
  <2> DEFINE p == Pick(s)
  <2>1. p \in s /\ p \in S  BY DEF Pick
  <2>2. g[s] = f[p] + g[s \ {p}]  BY <1>1 DEF AddsUp
  <2>3. \A x \in s : s \ {x} \in SUBSET S /\ Cardinality(s \ {x}) <= n
    BY <1>2, FS_RemoveElement
  <2>4. \A x \in s : g[s \ {x}] \in Int  BY <2>3, <1>4
  <2>5. ASSUME NEW x \in s, x # p PROVE g[s] = f[x] + g[s \ {x}]
    <3> DEFINE r == (s \ {p}) \ {x}
    <3>1. g[s \ {p}] = f[x] + g[r]  BY <2>1, <2>3, <2>5, <1>4
    <3>2. r = (s \ {x}) \ {p}  OBVIOUS
    <3>3. g[s \ {x}] = f[p] + g[r]
      <4>1. p \in s \ {x}  BY <2>1, <2>5
      <4> HIDE DEF p, r
      <4> QED BY <4>1, <2>3, <1>4, <3>2
    <3>4. r \in SUBSET S /\ Cardinality(r) <= n
      <4>1. Cardinality(r) <= Cardinality(s \ {p})
        BY <1>2, <2>1, <2>3, FS_Subset
      <4> QED BY <4>1, <1>2, <2>1, <2>3
    <3>5. g[r] \in Int  BY <3>4, <1>4
    <3> HIDE DEF p, r
    <3> QED BY <3>1, <3>3, <3>5, <2>1, <2>2
  <2> HIDE DEF p
  <2>6. f[p] \in Int /\ g[s \ {p}] \in Int  BY <2>1, <2>4
  <2>7. g[s] \in Int  BY <2>2, <2>6
  <2>8. ASSUME NEW x \in s PROVE g[s] = f[x] + g[s \ {x}]
    BY <2>2, <2>5
  <2> QED BY <2>7, <2>8
<1>5. \A n \in Nat : n \in T
  <2> HIDE DEF T
  <2> QED BY <1>3, <1>4, EveryNatural
<1>6. ASSUME NEW s \in SUBSET S
      PROVE  g[s] \in Int /\ \A x \in s : g[s] = f[x] + g[s \ {x}]
  BY <1>2, <1>5
<1>7. \A s \in SUBSET S : g[s] = Total(f, s)
  <2>1. IsFiniteSet(S) /\ AddsUp(g, f, S)  BY <1>1
  <2> QED BY ONLY <2>1, TotalOfSubset
<1>8. \A x \in S : S \ {x} \in SUBSET S  OBVIOUS
<1> QED BY <1>6, <1>7, <1>8

(* One index more. *)
LEMMA TotalAdd ==
  ASSUME NEW f, NEW S, IsFiniteSet(S), NEW x, x \notin S,
         \A y \in S \cup {x} : f[y] \in Int
  PROVE  Total(f, S \cup {x}) = f[x] + Total(f, S)
<1> DEFINE U == S \cup {x}
<1>1. IsFiniteSet(U)  BY FS_AddElement
<1>2. x \in U /\ U \ {x} = S  OBVIOUS
<1>3. \A y \in U : f[y] \in Int  OBVIOUS
<1> HIDE DEF U
<1>4. Total(f, U) = f[x] + Total(f, U \ {x})
  BY ONLY <1>1, <1>2, <1>3, TotalRemove
<1> QED BY <1>2, <1>4 DEF U

(* The sum depends on the values at the indices only. *)
LEMMA TotalSame ==
  ASSUME NEW f, NEW g, NEW S, IsFiniteSet(S),
         \A y \in S : f[y] \in Int /\ g[y] = f[y]
  PROVE  Total(g, S) = Total(f, S)
<1> DEFINE T == {U \in SUBSET S : Total(g, U) = Total(f, U)}
<1>1. {} \in T  BY TotalEmpty
<1>2. ASSUME NEW U \in SUBSET S, NEW x \in S \ U, U \in T PROVE U \cup {x} \in T
  <2>1. IsFiniteSet(U)  BY FS_Subset
  <2>2. \A y \in U \cup {x} : f[y] \in Int /\ g[y] \in Int  OBVIOUS
  <2>3. Total(f, U \cup {x}) = f[x] + Total(f, U)  BY <2>1, <2>2, TotalAdd
  <2>4. Total(g, U \cup {x}) = g[x] + Total(g, U)  BY <2>1, <2>2, TotalAdd
  <2>5. Total(g, U) = Total(f, U) /\ g[x] = f[x]  BY <1>2
  <2> QED BY <2>3, <2>4, <2>5
<1>3. S \in T
  <2> HIDE DEF T
  <2> QED BY <1>1, <1>2, GrownSubset
<1> QED BY <1>3

(* One value changed. *)
LEMMA TotalChange ==
  ASSUME NEW f, NEW g, NEW S, IsFiniteSet(S), NEW x \in S,
         \A y \in S : f[y] \in Int /\ g[y] \in Int,
         \A y \in S \ {x} : g[y] = f[y]
  PROVE  Total(g, S) = Total(f, S) + g[x] - f[x]
<1>1. IsFiniteSet(S \ {x})  BY FS_RemoveElement
<1>2. Total(g, S \ {x}) = Total(f, S \ {x})  BY <1>1, TotalSame
<1>3. Total(g, S) = g[x] + Total(g, S \ {x})  BY TotalRemove
<1>4. Total(f, S) = f[x] + Total(f, S \ {x})  BY TotalRemove
<1>5. Total(f, S \ {x}) \in Int  BY <1>1, TotalRemove
<1>6. f[x] \in Int /\ g[x] \in Int  OBVIOUS
<1> QED BY <1>2, <1>3, <1>4, <1>5, <1>6

LEMMA TotalUnion ==
  ASSUME NEW f, NEW R, NEW S, IsFiniteSet(R), IsFiniteSet(S), R \cap S = {},
         \A y \in R \cup S : f[y] \in Int
  PROVE  Total(f, R \cup S) = Total(f, R) + Total(f, S)
<1> DEFINE T == {U \in SUBSET S : Total(f, R \cup U) = Total(f, R) + Total(f, U)}
<1>1. Total(f, R) \in Int  BY TotalRemove
<1>2. {} \in T  BY <1>1, TotalEmpty
<1>3. ASSUME NEW U \in SUBSET S, NEW x \in S \ U, U \in T PROVE U \cup {x} \in T
  <2>1. IsFiniteSet(U) /\ IsFiniteSet(R \cup U)  BY FS_Subset, FS_Union
  <2>2. \A y \in U \cup {x} : f[y] \in Int  OBVIOUS
  <2>3. Total(f, U \cup {x}) = f[x] + Total(f, U)  BY <2>1, <2>2, TotalAdd
  <2> DEFINE W == R \cup U
  <2>4. IsFiniteSet(W) /\ x \notin W /\ \A y \in W \cup {x} : f[y] \in Int  BY <2>1
  <2>5. R \cup (U \cup {x}) = W \cup {x}  OBVIOUS
  <2>6. Total(f, W) = Total(f, R) + Total(f, U)  BY <1>3
  <2> HIDE DEF W
  <2>7. Total(f, W \cup {x}) = f[x] + Total(f, W)  BY ONLY <2>4, TotalAdd
  <2>8. Total(f, U) \in Int /\ f[x] \in Int
    <3>1. \A y \in U : f[y] \in Int  BY <2>2
    <3> QED BY <2>1, <2>2, <3>1, TotalRemove
  <2>9. Total(f, R \cup (U \cup {x})) = Total(f, R) + Total(f, U \cup {x})
    <3> DEFINE a == Total(f, R)
               c == Total(f, U)
               d == f[x]
    <3>1. a \in Int /\ c \in Int /\ d \in Int  BY <1>1, <2>8
    <3> HIDE DEF a, c, d
    <3>2. d + (a + c) = a + (d + c)  BY <3>1
    <3>3. Total(f, W \cup {x}) = d + (a + c)  BY <2>6, <2>7 DEF a, c, d
    <3>4. Total(f, U \cup {x}) = d + c  BY <2>3 DEF c, d
    <3>5. Total(f, W \cup {x}) = a + Total(f, U \cup {x})  BY <3>2, <3>3, <3>4
    <3> QED BY <2>5, <3>5 DEF a
  <2>10. U \cup {x} \in SUBSET S  OBVIOUS
  <2> QED BY <2>9, <2>10
<1>4. S \in T
  <2> HIDE DEF T
  <2> QED BY <1>2, <1>3, GrownSubset
<1> QED BY <1>4

(* A sum of numbers that are at least zero is one, and no term exceeds it. *)
LEMMA TotalNatural ==
  ASSUME NEW f, NEW S, IsFiniteSet(S), \A y \in S : f[y] \in Nat
  PROVE  /\ Total(f, S) \in Nat
         /\ \A x \in S : f[x] <= Total(f, S)
<1> DEFINE T == {U \in SUBSET S : Total(f, U) \in Nat}
<1>1. {} \in T  BY TotalEmpty
<1>2. ASSUME NEW U \in SUBSET S, NEW x \in S \ U, U \in T PROVE U \cup {x} \in T
  <2>1. IsFiniteSet(U)  BY FS_Subset
  <2>2. \A y \in U \cup {x} : f[y] \in Int  OBVIOUS
  <2>3. Total(f, U \cup {x}) = f[x] + Total(f, U)  BY <2>1, <2>2, TotalAdd
  <2> QED BY <2>3, <1>2
<1>3. \A U \in SUBSET S : U \in T
  <2>1. ASSUME NEW V \in SUBSET S PROVE V \in T
    <3>1. IsFiniteSet(V)  BY FS_Subset
    <3>2. \A U \in SUBSET V : \A x \in V \ U : U \in T => U \cup {x} \in T
      BY <1>2
    <3> HIDE DEF T
    <3> QED BY <1>1, <3>1, <3>2, GrownSubset
  <2> QED BY <2>1
<1>4. ASSUME NEW x \in S PROVE f[x] <= Total(f, S)
  <2>1. Total(f, S \ {x}) \in Nat  BY <1>3
  <2>2. Total(f, S) = f[x] + Total(f, S \ {x})  BY TotalRemove
  <2> QED BY <2>1, <2>2
<1> QED BY <1>3, <1>4

LEMMA TotalSingle ==
  ASSUME NEW f, NEW x, f[x] \in Int
  PROVE  Total(f, {x}) = f[x]
<1>1. IsFiniteSet({})  BY FS_EmptySet
<1>2. Total(f, {} \cup {x}) = f[x] + Total(f, {})  BY <1>1, TotalAdd
<1> QED BY <1>2, TotalEmpty

(* Over an interval: its last index, and two intervals of which one is the *)
(* other moved.                                                            *)
LEMMA TotalLast ==
  ASSUME NEW f, NEW m \in Int, NEW n \in Int, m <= n,
         \A i \in m .. n : f[i] \in Int
  PROVE  Total(f, m .. n) = f[n] + Total(f, m .. n - 1)
<1> DEFINE S == m .. n - 1
<1>1. IsFiniteSet(S)  BY FS_Interval
<1>2. n \notin S /\ S \cup {n} = m .. n  OBVIOUS
<1>3. \A y \in S \cup {n} : f[y] \in Int  BY <1>2
<1> HIDE DEF S
<1>4. Total(f, S \cup {n}) = f[n] + Total(f, S)  BY ONLY <1>1, <1>2, <1>3, TotalAdd
<1> QED BY <1>2, <1>4 DEF S

LEMMA TotalMoved ==
  ASSUME NEW f, NEW g, NEW m \in Int, NEW n \in Int, NEW k \in Int,
         \A i \in m .. n : f[i] \in Int /\ g[i + k] = f[i]
  PROVE  Total(g, m + k .. n + k) = Total(f, m .. n)
<1> DEFINE T == {j \in Nat : m + j - 1 <= n =>
                  Total(g, m + k .. m + k + j - 1) = Total(f, m .. m + j - 1)}
<1>1. 0 \in T
  <2>1. m + k .. m + k + 0 - 1 = {} /\ m .. m + 0 - 1 = {}  OBVIOUS
  <2> QED BY <2>1, TotalEmpty
<1>2. ASSUME NEW j \in Nat, j \in T PROVE j + 1 \in T
  <2> SUFFICES ASSUME m + j <= n
               PROVE  Total(g, m + k .. m + k + j) = Total(f, m .. m + j)
    <3>1. m + (j + 1) - 1 = m + j /\ m + k + (j + 1) - 1 = m + k + j  OBVIOUS
    <3> QED BY <3>1
  <2>1. Total(g, m + k .. m + k + j - 1) = Total(f, m .. m + j - 1)  BY <1>2
  <2>2. \A i \in m .. m + j : f[i] \in Int  OBVIOUS
  <2>3. Total(f, m .. m + j) = f[m + j] + Total(f, m .. m + j - 1)
    BY <2>2, TotalLast
  <2>4. \A i \in m + k .. m + k + j : g[i] \in Int
    <3> SUFFICES ASSUME NEW i \in m + k .. m + k + j PROVE g[i] \in Int  OBVIOUS
    <3>1. i - k \in m .. n /\ (i - k) + k = i  OBVIOUS
    <3>2. g[(i - k) + k] \in Int  BY <3>1
    <3> QED BY <3>1, <3>2
  <2>5. Total(g, m + k .. m + k + j)
          = g[m + k + j] + Total(g, m + k .. m + k + j - 1)
    BY <2>4, TotalLast
  <2>6. g[m + k + j] = f[m + j]
    <3>1. m + j \in m .. n /\ (m + j) + k = m + k + j  OBVIOUS
    <3>2. g[(m + j) + k] = f[m + j]  BY <3>1
    <3> QED BY <3>1, <3>2
  <2> QED BY <2>1, <2>3, <2>5, <2>6
<1>3. \A j \in Nat : j \in T
  <2> HIDE DEF T
  <2> QED BY <1>1, <1>2, EveryNatural
<1>4. CASE m <= n
  <2>1. n - m + 1 \in T
    <3>1. n - m + 1 \in Nat  BY <1>4
    <3> HIDE DEF T
    <3> QED BY <3>1, <1>3
  <2>2. m + (n - m + 1) - 1 = n /\ m + k + (n - m + 1) - 1 = n + k  OBVIOUS
  <2> QED BY <2>1, <2>2
<1>5. CASE n < m
  <2>1. m + k .. n + k = {} /\ m .. n = {}  BY <1>5
  <2> QED BY <2>1, TotalEmpty
<1> QED BY <1>4, <1>5

=============================================================================
