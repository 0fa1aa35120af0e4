------------------------ MODULE SegmentationProofs ------------------------
(***************************************************************************)
(* For any stations, catches, ports and constructions: the segments are    *)
(* consecutive pieces of the order with the catch they are said to have,   *)
(* over the capacity only where a single station is; and if stations have  *)
(* some catch and groups some stations, all are reported and no port is    *)
(* wasted.                                                                 *)
(***************************************************************************)
EXTENDS Segmentation, SequenceTheorems, FiniteSetTheorems, TLAPS

LEMMA ToSetElement ==
  ASSUME NEW S, NEW q \in Seq(S)
  PROVE  /\ \A x : x \in ToSet(q) <=> \E i \in 1 .. Len(q) : q[i] = x
         /\ ToSet(q) \subseteq S
BY DEF ToSet

LEMMA FunctionIsSeq ==
  ASSUME NEW S, NEW n \in Nat, NEW q \in [1 .. n -> S]
  PROVE  q \in Seq(S)
<1>1. \E m \in Nat : q \in [1 .. m -> S]
  OBVIOUS
<1>2. q \in UNION {[1 .. m -> S] : m \in Nat}
  BY <1>1
<1> QED BY <1>2, SeqDef, Zenon

(* Station i of group j after the move is station MovedFrom(j, i)[2] of    *)
(* group MovedFrom(j, i)[1] before it.                                     *)
MovedFrom(j, i) ==
  IF j = s + 1 THEN IF i = 1 THEN <<s, Len(groups[s])>> ELSE <<j, i - 1>>
  ELSE <<j, i>>

LEMMA MovedGroups ==
  ASSUME groups \in Seq(Seq(Stations)), s \in Nat \ {0}, RepairMove
  PROVE  /\ groups' \in Seq(Seq(Stations)) /\ Len(groups') = Len(groups)
         /\ \A j \in 1 .. Len(groups) :
              Len(groups'[j]) = IF j = s THEN Len(groups[j]) - 1
                                ELSE IF j = s + 1 THEN Len(groups[j]) + 1
                                ELSE Len(groups[j])
         /\ \A j \in 1 .. Len(groups) : \A i \in 1 .. Len(groups'[j]) :
              groups'[j][i] = groups[MovedFrom(j, i)[1]][MovedFrom(j, i)[2]]
<1> DEFINE n == Len(groups)
           a == groups[s]
           f == SubSeq(a, 1, Len(a) - 1)
           h == <<a[Len(a)]>> \o groups[s + 1]
<1>1. /\ s \in 1 .. n - 1 /\ n \in Nat
      /\ a \in Seq(Stations) /\ groups[s + 1] \in Seq(Stations)
      /\ Len(a) \in Nat /\ Len(a) > 1
  BY DEF RepairMove
<1>2. groups' = [[groups EXCEPT ![s] = f] EXCEPT ![s + 1] = h]
  BY <1>1 DEF RepairMove, MovedOn, Front, Last
<1>3. /\ f \in Seq(Stations) /\ Len(f) = Len(a) - 1
      /\ \A i \in 1 .. Len(f) : f[i] = a[i]
  BY <1>1
<1>4. a[Len(a)] \in Stations
  BY <1>1
<1>5. /\ h \in Seq(Stations) /\ Len(h) = Len(groups[s + 1]) + 1
      /\ h[1] = a[Len(a)]
      /\ \A i \in 2 .. Len(h) : h[i] = groups[s + 1][i - 1]
  BY <1>1, <1>4
<1>6. /\ groups' \in Seq(Seq(Stations)) /\ Len(groups') = n
      /\ groups'[s] = f /\ groups'[s + 1] = h
      /\ \A j \in 1 .. n : j # s /\ j # s + 1 => groups'[j] = groups[j]
  <2> HIDE DEF f, h, a
  <2> QED BY <1>1, <1>2, <1>3, <1>5, SMTT(30)
<1>7. ASSUME NEW j \in 1 .. n
      PROVE  Len(groups'[j]) = IF j = s THEN Len(groups[j]) - 1
                               ELSE IF j = s + 1 THEN Len(groups[j]) + 1
                               ELSE Len(groups[j])
  <2> HIDE DEF f, h
  <2> QED BY <1>1, <1>3, <1>5, <1>6
<1>8. ASSUME NEW j \in 1 .. n, NEW i \in 1 .. Len(groups'[j])
      PROVE  groups'[j][i] = groups[MovedFrom(j, i)[1]][MovedFrom(j, i)[2]]
  <2> HIDE DEF f, h
  <2>1. CASE j = s
    <3>1. MovedFrom(j, i) = <<s, i>>
      BY <2>1, <1>1 DEF MovedFrom
    <3>2. groups'[j][i] = a[i]
      BY <2>1, <1>3, <1>6
    <3> QED BY <3>1, <3>2
  <2>2. CASE j = s + 1 /\ i = 1
    BY <2>2, <1>1, <1>5, <1>6 DEF MovedFrom
  <2>3. CASE j = s + 1 /\ i # 1
    BY <2>3, <1>1, <1>5, <1>6 DEF MovedFrom
  <2>4. CASE j # s /\ j # s + 1
    BY <2>4, <1>1, <1>6 DEF MovedFrom
  <2> QED BY <2>1, <2>2, <2>3, <2>4
<1> QED BY <1>6, <1>7, <1>8

(* Moving the last station of a group to the front of the next leaves the  *)
(* order of all stations as it was.                                        *)
LEMMA MoveKeepsPieces ==
  ASSUME NEW order \in Seq(Stations), s \in Nat \ {0},
         Pieces(order, groups), RepairMove
  PROVE  /\ Pieces(order, groups') /\ Len(groups') = Len(groups)
         /\ (\A j \in 1 .. Len(groups) : groups[j] # <<>>) =>
              \A j \in 1 .. Len(groups) : groups'[j] # <<>>
<1> DEFINE n == Len(groups)
<1>0. groups \in Seq(Seq(Stations)) /\ n \in Nat /\ s \in 1 .. n - 1
      /\ Len(groups[s]) > 1 /\ \A j \in 1 .. n : Len(groups[j]) \in Nat
  BY DEF Pieces, RepairMove
<1>1. /\ groups' \in Seq(Seq(Stations)) /\ Len(groups') = n
      /\ \A j \in 1 .. n :
           Len(groups'[j]) = IF j = s THEN Len(groups[j]) - 1
                             ELSE IF j = s + 1 THEN Len(groups[j]) + 1
                             ELSE Len(groups[j])
      /\ \A j \in 1 .. n : \A i \in 1 .. Len(groups'[j]) :
           groups'[j][i] = groups[MovedFrom(j, i)[1]][MovedFrom(j, i)[2]]
  BY <1>0, MovedGroups
<1>a. \A j \in 1 .. n : /\ groups[j] \in Seq(Stations)
                        /\ groups'[j] \in Seq(Stations)
                        /\ Len(groups'[j]) \in Nat
  BY <1>0, <1>1, SMTT(30)
<1>c. ASSUME NEW j \in 1 .. n, NEW i \in 1 .. Len(groups'[j]), NEW p, NEW q,
             MovedFrom(j, i) = <<p, q>>
      PROVE  groups'[j][i] = groups[p][q]
  <2>1. groups'[j][i] = groups[MovedFrom(j, i)[1]][MovedFrom(j, i)[2]]
    BY <1>1
  <2>2. MovedFrom(j, i)[1] = p /\ MovedFrom(j, i)[2] = q
    BY <1>c
  <2> QED BY <2>1, <2>2
<1>b. ASSUME NEW j \in 1 .. n, NEW i \in 1 .. Len(groups'[j])
      PROVE  \/ j = s + 1 /\ i = 1 /\ MovedFrom(j, i) = <<s, Len(groups[s])>>
             \/ j = s + 1 /\ i > 1 /\ MovedFrom(j, i) = <<j, i - 1>>
             \/ j = s /\ i < Len(groups[s]) /\ MovedFrom(j, i) = <<j, i>>
             \/ j \notin {s, s + 1} /\ MovedFrom(j, i) = <<j, i>>
  <2>1. CASE j = s + 1
    BY <2>1, <1>0, <1>a DEF MovedFrom
  <2>2. CASE j = s
    <3>1. MovedFrom(j, i) = <<j, i>>
      BY <2>2, <1>0 DEF MovedFrom
    <3>2. Len(groups'[j]) = Len(groups[s]) - 1
      BY <2>2, <1>1, <1>0
    <3> QED BY <2>2, <3>1, <3>2, <1>0
  <2>3. CASE j \notin {s, s + 1}
    BY <2>3 DEF MovedFrom
  <2> QED BY <2>1, <2>2, <2>3
<1>2. ASSUME NEW j \in 1 .. n, NEW i \in 1 .. Len(groups'[j])
      PROVE  /\ MovedFrom(j, i)[1] \in 1 .. n
             /\ MovedFrom(j, i)[2] \in 1 .. Len(groups[MovedFrom(j, i)[1]])
  <2> HIDE DEF MovedFrom
  <2>1. CASE j = s + 1 /\ i = 1 /\ MovedFrom(j, i) = <<s, Len(groups[s])>>
    BY <2>1, <1>0
  <2>2. CASE j = s + 1 /\ i > 1 /\ MovedFrom(j, i) = <<j, i - 1>>
    <3>1. Len(groups'[j]) = Len(groups[j]) + 1
      BY <2>2, <1>0, <1>1
    <3> QED BY <2>2, <3>1, <1>0, SMTT(30)
  <2>3. CASE j = s /\ i < Len(groups[s]) /\ MovedFrom(j, i) = <<j, i>>
    BY <2>3, <1>0
  <2>4. CASE j \notin {s, s + 1} /\ MovedFrom(j, i) = <<j, i>>
    <3>1. Len(groups'[j]) = Len(groups[j])
      BY <2>4, <1>0, <1>1
    <3> QED BY <2>4, <3>1
  <2> QED BY <1>b, <2>1, <2>2, <2>3, <2>4
<1>3. ASSUME NEW j \in 1 .. n, NEW i \in 1 .. Len(groups'[j]),
             NEW l \in 1 .. n, NEW k \in 1 .. Len(groups'[l]),
             j < l \/ (j = l /\ i < k)
      PROVE  \/ MovedFrom(j, i)[1] < MovedFrom(l, k)[1]
             \/ /\ MovedFrom(j, i)[1] = MovedFrom(l, k)[1]
                /\ MovedFrom(j, i)[2] < MovedFrom(l, k)[2]
  <2> DEFINE P == MovedFrom(j, i)
             Q == MovedFrom(l, k)
  <2>1. /\ P[1] \in Nat /\ P[2] \in Nat /\ Q[1] \in Nat /\ Q[2] \in Nat
        /\ Len(groups[s]) \in Nat /\ s \in Nat
        /\ j \in Nat /\ i \in Nat \ {0} /\ l \in Nat /\ k \in Nat \ {0}
    <3>1. P[1] \in 1 .. n /\ Q[1] \in 1 .. n
      BY <1>2
    <3>2. P[2] \in 1 .. Len(groups[P[1]]) /\ Q[2] \in 1 .. Len(groups[Q[1]])
      BY <1>2
    <3>3. Len(groups'[j]) \in Nat /\ Len(groups'[l]) \in Nat
      BY <1>a
    <3> HIDE DEF P, Q
    <3>4. \A v \in 1 .. n : Len(groups[v]) \in Nat
      BY <1>0
    <3>5. P[2] \in Nat /\ Q[2] \in Nat
      <4>1. Len(groups[P[1]]) \in Nat /\ Len(groups[Q[1]]) \in Nat
        BY <3>1, <3>4
      <4> QED BY <3>2, <4>1
    <3>a. s \in 1 .. n /\ s \in Nat
      BY <1>0
    <3>b. Len(groups[s]) \in Nat
      BY <3>a, <3>4
    <3>6. /\ j \in Nat /\ l \in Nat /\ P[1] \in Nat /\ Q[1] \in Nat
          /\ Len(groups[s]) \in Nat /\ s \in Nat
      BY <3>1, <3>a, <3>b
    <3>7. i \in Nat \ {0} /\ k \in Nat \ {0}
      BY <3>3
    <3> QED BY <3>5, <3>6, <3>7
  <2>2. \/ j = s + 1 /\ i = 1 /\ P[1] = s /\ P[2] = Len(groups[s])
        \/ j = s + 1 /\ i > 1 /\ P[1] = j /\ P[2] = i - 1
        \/ j = s /\ i < Len(groups[s]) /\ P[1] = j /\ P[2] = i
        \/ j \notin {s, s + 1} /\ P[1] = j /\ P[2] = i
    <3> HIDE DEF MovedFrom
    <3> QED BY <1>b
  <2>3. \/ l = s + 1 /\ k = 1 /\ Q[1] = s /\ Q[2] = Len(groups[s])
        \/ l = s + 1 /\ k > 1 /\ Q[1] = l /\ Q[2] = k - 1
        \/ l = s /\ k < Len(groups[s]) /\ Q[1] = l /\ Q[2] = k
        \/ l \notin {s, s + 1} /\ Q[1] = l /\ Q[2] = k
    <3> HIDE DEF MovedFrom
    <3> QED BY <1>b
  <2> HIDE DEF P, Q
  <2>4. P[1] < Q[1] \/ (P[1] = Q[1] /\ P[2] < Q[2])
    BY <1>3, <2>1, <2>2, <2>3, SMTT(30)
  <2> QED BY <2>4 DEF P, Q
<1>4. ASSUME NEW j \in 1 .. n, NEW i \in 1 .. Len(groups[j])
      PROVE  \E l \in 1 .. n : \E k \in 1 .. Len(groups'[l]) :
               groups'[l][k] = groups[j][i]
  <2>1. CASE j = s /\ i = Len(groups[s])
    <3>1. MovedFrom(s + 1, 1) = <<s, Len(groups[s])>>
      BY <1>0 DEF MovedFrom
    <3>2. s + 1 \in 1 .. n /\ 1 \in 1 .. Len(groups'[s + 1])
      <4>1. Len(groups'[s + 1]) = Len(groups[s + 1]) + 1
        BY <1>0, <1>1
      <4> QED BY <4>1, <1>0
    <3>3. groups'[s + 1][1] = groups[s][Len(groups[s])]
      BY <3>1, <3>2, <1>c
    <3> QED BY <2>1, <3>2, <3>3
  <2>2. CASE j = s + 1
    <3>1. MovedFrom(j, i + 1) = <<j, i>>
      BY <1>0, <2>2 DEF MovedFrom
    <3>2. i + 1 \in 1 .. Len(groups'[j])
      <4>1. Len(groups'[j]) = Len(groups[j]) + 1
        BY <1>0, <1>1, <2>2
      <4> QED BY <4>1, <1>0
    <3>3. groups'[j][i + 1] = groups[j][i]
      BY <3>1, <3>2, <1>c
    <3> QED BY <3>2, <3>3
  <2>3. CASE j # s + 1 /\ ~(j = s /\ i = Len(groups[s]))
    <3>1. MovedFrom(j, i) = <<j, i>>
      BY <2>3 DEF MovedFrom
    <3>2. i \in 1 .. Len(groups'[j])
      BY <1>0, <1>1, <2>3, SMTT(30)
    <3>3. groups'[j][i] = groups[j][i]
      BY <3>1, <3>2, <1>c
    <3> QED BY <3>2, <3>3
  <2> QED BY <2>1, <2>2, <2>3
<1>5. ToSet(order) = UNION {ToSet(groups'[j]) : j \in 1 .. n}
  <2>1. \A j \in 1 .. n : /\ groups[j] \in Seq(Stations)
                          /\ groups'[j] \in Seq(Stations)
    BY <1>0, <1>1
  <2>4. \A x : (\E j \in 1 .. n : x \in ToSet(groups'[j])) <=>
               \E j \in 1 .. n : x \in ToSet(groups[j])
    <3>1. \A j \in 1 .. n : \A i \in 1 .. Len(groups'[j]) :
            \E l \in 1 .. n : \E k \in 1 .. Len(groups[l]) :
              groups[l][k] = groups'[j][i]
      <4> TAKE j \in 1 .. n
      <4> TAKE i \in 1 .. Len(groups'[j])
      <4> DEFINE P == MovedFrom(j, i)
      <4>1. groups'[j][i] = groups[P[1]][P[2]]
        BY <1>1
      <4>2. P[1] \in 1 .. n /\ P[2] \in 1 .. Len(groups[P[1]])
        BY <1>2
      <4> HIDE DEF P
      <4> QED BY <4>1, <4>2
    <3>2. ASSUME NEW x, NEW j \in 1 .. n, x \in ToSet(groups'[j])
          PROVE  \E l \in 1 .. n : x \in ToSet(groups[l])
      <4>1. PICK i \in 1 .. Len(groups'[j]) : groups'[j][i] = x
        BY <2>1, <3>2, ToSetElement
      <4>2. PICK l \in 1 .. n : \E k \in 1 .. Len(groups[l]) :
              groups[l][k] = x
        BY <3>1, <4>1
      <4> QED BY <2>1, <4>2, ToSetElement
    <3>3. ASSUME NEW x, NEW j \in 1 .. n, x \in ToSet(groups[j])
          PROVE  \E l \in 1 .. n : x \in ToSet(groups'[l])
      <4>1. PICK i \in 1 .. Len(groups[j]) : groups[j][i] = x
        BY <2>1, <3>3, ToSetElement
      <4>2. PICK l \in 1 .. n : \E k \in 1 .. Len(groups'[l]) :
              groups'[l][k] = x
        BY <1>4, <4>1
      <4> QED BY <2>1, <4>2, ToSetElement
    <3> QED BY <3>2, <3>3
  <2>5. ToSet(order) = UNION {ToSet(groups[j]) : j \in 1 .. n}
    BY DEF Pieces
  <2> QED BY <2>4, <2>5
<1>6. ASSUME NEW j \in 1 .. n, NEW i \in 1 .. Len(groups'[j]),
             NEW l \in 1 .. n, NEW k \in 1 .. Len(groups'[l]),
             j < l \/ (j = l /\ i < k)
      PROVE  Before(order, groups'[j][i], groups'[l][k])
  <2>1. Before(order, groups[MovedFrom(j, i)[1]][MovedFrom(j, i)[2]],
               groups[MovedFrom(l, k)[1]][MovedFrom(l, k)[2]])
    <3> DEFINE P == MovedFrom(j, i)
               Q == MovedFrom(l, k)
    <3>1. /\ P[1] \in 1 .. n /\ P[2] \in 1 .. Len(groups[P[1]])
          /\ Q[1] \in 1 .. n /\ Q[2] \in 1 .. Len(groups[Q[1]])
          /\ P[1] < Q[1] \/ (P[1] = Q[1] /\ P[2] < Q[2])
      BY <1>2, <1>3, <1>6
    <3> HIDE DEF P, Q
    <3>2. Before(order, groups[P[1]][P[2]], groups[Q[1]][Q[2]])
      BY <3>1 DEF Pieces
    <3> QED BY <3>2 DEF P, Q
  <2> QED BY <2>1, <1>1
<1>7. Pieces(order, groups')
  BY <1>1, <1>5, <1>6 DEF Pieces
<1>8. ASSUME \A j \in 1 .. n : groups[j] # <<>>
      PROVE  \A j \in 1 .. n : groups'[j] # <<>>
  <2>1. \A j \in 1 .. n : Len(groups[j]) > 0
    BY <1>0, <1>8
  <2>2. ASSUME NEW j \in 1 .. n
        PROVE  Len(groups'[j]) > 0
    <3>1. Len(groups[j]) \in Nat /\ Len(groups[j]) > 0 /\ Len(groups[s]) > 1
      BY <1>0, <2>1
    <3>2. Len(groups'[j]) \in {Len(groups[j]), Len(groups[j]) + 1}
          \/ (j = s /\ Len(groups'[j]) = Len(groups[s]) - 1)
      BY <1>1
    <3> QED BY <1>0, <3>1, <3>2
  <2> QED BY <2>2
<1> QED BY <1>1, <1>7, <1>8

-----------------------------------------------------------------------------
(* Until the scan is over, the stations before the cursor are marked with  *)
(* segments in order, up to the open one, whose catch is the load.         *)
Scanned ==
  /\ \A i \in 1 .. ord - 1 : segOf[Order[i]] \in 1 .. Len(segs) + 1
  /\ \A i, k \in 1 .. ord - 1 :
       i < k => segOf[Order[i]] <= segOf[Order[k]]
  /\ \A x \in Stations : segOf[x] # 0 => \E i \in 1 .. ord - 1 : Order[i] = x
  /\ load = Catch[In(Len(segs) + 1)]
  /\ load > Capacity => \E x \in In(Len(segs) + 1) : Amount(x) = load

Grouping == pc \in {"groups", "repair", "preserve"}
Scanning == Grouping \/ pc = "order"

SegmentInv ==
  /\ TypeOK
  /\ input \in Inputs
  /\ Pieces(Order, groups)
  /\ Grouping => ord = 1 /\ segs = <<>>
  /\ pc \in {"repair", "preserve"} => Complete
  /\ Scanning => Scanned /\ out = <<>>
  /\ OrderKept
  /\ CatchesMatch
  /\ OversizeAlone

LEMMA InputFacts ==
  ASSUME input \in Inputs
  PROVE  /\ InputOK(input)
         /\ Order \in Seq(Stations) /\ IsInjective(Order)
         /\ Capacity \in Nat \ {0}
         /\ input.docks \in Seq(Locations)
         /\ \A i \in 1 .. Len(Order) : Order[i] \in Stations
         /\ \A i, k \in 1 .. Len(Order) : Order[i] = Order[k] => i = k
BY InputAssumption DEF InputOK, Order, Capacity, IsInjective

LEMMA CatchFacts ==
  /\ \A S \in SUBSET Stations : Catch[S] \in Nat
  /\ Catch[{}] = 0
  /\ \A x \in Stations : Amount(x) \in Nat
  /\ \A S \in SUBSET Stations : \A x \in Stations \ S :
       Catch[S \cup {x}] = Catch[S] + Amount(x)
BY CatchAssumption DEF Amount

(* What is marked in order is kept in order. *)
LEMMA ScannedInOrder ==
  ASSUME TypeOK, input \in Inputs, Scanned
  PROVE  OrderKept
<1> SUFFICES ASSUME NEW i \in 1 .. Len(Order), NEW k \in 1 .. Len(Order),
                    i < k, segOf[Order[k]] # 0
             PROVE  segOf[Order[i]] \in 1 .. segOf[Order[k]]
  BY DEF OrderKept
<1>1. /\ Order[k] \in Stations /\ Len(Order) \in Nat
      /\ ord \in 1 .. Len(Order) + 1
      /\ \A m \in 1 .. Len(Order) : Order[m] = Order[k] => m = k
  BY InputFacts DEF TypeOK
<1>2. PICK m \in 1 .. ord - 1 : Order[m] = Order[k]
  BY <1>1 DEF Scanned
<1>3. k \in 1 .. ord - 1 /\ i \in 1 .. ord - 1
  BY <1>1, <1>2
<1>4. /\ segOf[Order[i]] \in 1 .. Len(segs) + 1
      /\ segOf[Order[k]] \in 1 .. Len(segs) + 1
      /\ segOf[Order[i]] <= segOf[Order[k]]
  BY <1>3 DEF Scanned
<1>5. Len(segs) \in Nat
  BY DEF TypeOK
<1> QED BY <1>4, <1>5

LEMMA InitSegmentInv == Init => SegmentInv
<1> SUFFICES ASSUME Init PROVE SegmentInv
  OBVIOUS
<1>1. /\ input \in Inputs /\ groups = input.groups /\ pc = "groups"
      /\ s = 1 /\ ord = 1 /\ load = 0 /\ segs = <<>> /\ out = <<>>
      /\ segOf = [x \in Stations |-> 0]
  BY DEF Init
<1>2. InputOK(input) /\ Pieces(Order, groups)
  BY <1>1, InputFacts DEF InputOK, Order
<1>3. groups \in Seq(Seq(Stations))
  BY <1>2 DEF Pieces
<1>4. TypeOK
  <2>1. Len(Order) \in Nat
    BY <1>1, InputFacts
  <2> QED BY <1>1, <1>2, <1>3, <2>1 DEF TypeOK
<1>5. In(1) = {} /\ \A j \in Nat \ {0} : In(j) = {}
  BY <1>1 DEF In
<1>6. Scanned
  <2>1. Len(segs) + 1 = 1 /\ 1 .. ord - 1 = {}
    BY <1>1
  <2>2. load = Catch[In(Len(segs) + 1)]
    BY <1>1, <1>5, <2>1, CatchFacts
  <2>3. ~(load > Capacity)
    BY <1>1, InputFacts
  <2> QED BY <1>1, <2>1, <2>2, <2>3 DEF Scanned
<1>7. CatchesMatch /\ OversizeAlone
  BY <1>1 DEF CatchesMatch, OversizeAlone
<1> QED BY <1>1, <1>2, <1>4, <1>6, <1>7, ScannedInOrder
        DEF SegmentInv, Grouping, Scanning

-----------------------------------------------------------------------------
(* Steps that leave the marks and the segments alone. *)
LEMMA GroupingStep ==
  ASSUME SegmentInv,
         CheckGroups \/ RefuseGroups \/ RepairMove \/ RepairNext \/ Repaired
           \/ RepairFails \/ PreserveFails
  PROVE  SegmentInv'
<1>1. /\ Grouping /\ (pc \in {"groups", "repair"} \/ pc = "preserve")
      /\ pc' \in {"repair", "preserve", "order"}
      /\ UNCHANGED <<input, ord, load, segOf, segs, out>>
      /\ s \in Nat \ {0}
  BY DEF SegmentInv, TypeOK, Grouping, CheckGroups, RefuseGroups, RepairMove,
         RepairNext, Repaired, RepairFails, PreserveFails
<1>2. /\ Pieces(Order, groups') /\ Len(groups') = Len(groups)
      /\ s' \in Nat \ {0}
  <2>1. CASE RepairMove
    <3>1. Order \in Seq(Stations) /\ Pieces(Order, groups)
      BY InputFacts DEF SegmentInv
    <3> QED BY <2>1, <3>1, <1>1, MoveKeepsPieces DEF RepairMove
  <2>2. CASE ~RepairMove
    <3>1. groups' = groups /\ s' \in {s, s + 1}
      BY <2>2 DEF CheckGroups, RefuseGroups, RepairNext, Repaired,
         RepairFails, PreserveFails
    <3> QED BY <1>1, <3>1 DEF SegmentInv
  <2> QED BY <2>1, <2>2
<1>3. Order' = Order /\ Capacity' = Capacity /\ Pieces(Order', groups')
  BY <1>1, <1>2 DEF Order, Capacity
<1>4. TypeOK'
  <2>1. groups' \in Seq(Seq(Stations))
    BY <1>2 DEF Pieces
  <2> QED BY <1>1, <1>2, <1>3, <2>1 DEF SegmentInv, TypeOK
<1>5. \A j : In(j)' = In(j)
  BY <1>1 DEF In
<1>6. Scanned' /\ out' = <<>> /\ (Grouping' => ord' = 1 /\ segs' = <<>>)
  <2>1. Scanned /\ out = <<>> /\ ord = 1 /\ segs = <<>>
    BY <1>1 DEF SegmentInv, Scanning
  <2>2. Scanned'
    BY <1>1, <1>3, <2>1 DEF Scanned, In
  <2> QED BY <1>1, <2>1, <2>2
<1>8. pc' \in {"repair", "preserve"} => Complete'
  BY <1>3 DEF SegmentInv, Complete, CheckGroups, RefuseGroups, RepairMove,
     RepairNext, Repaired, RepairFails, PreserveFails
<1>7. OrderKept' /\ CatchesMatch' /\ OversizeAlone'
  BY <1>1, <1>3 DEF SegmentInv, OrderKept, CatchesMatch, OversizeAlone, In
<1> QED BY <1>1, <1>3, <1>4, <1>6, <1>7, <1>8 DEF SegmentInv, Scanning

(* Each station lies in one of the groups that are kept. *)
LEMMA PiecesDisjoint ==
  ASSUME NEW order \in Seq(Stations), NEW gs, Pieces(order, gs),
         IsInjective(order),
         NEW j \in 1 .. Len(gs), NEW l \in 1 .. Len(gs), NEW x,
         x \in ToSet(gs[j]), x \in ToSet(gs[l])
  PROVE  j = l
<1>1. /\ gs[j] \in Seq(Stations) /\ gs[l] \in Seq(Stations)
      /\ Len(gs) \in Nat
  BY DEF Pieces
<1>2. PICK i \in 1 .. Len(gs[j]) : gs[j][i] = x
  BY <1>1, ToSetElement
<1>3. PICK k \in 1 .. Len(gs[l]) : gs[l][k] = x
  BY <1>1, ToSetElement
<1>4. ~Before(order, x, x)
  BY DEF Before, IsInjective
<1>5. ~(j < l) /\ ~(l < j)
  BY <1>2, <1>3, <1>4 DEF Pieces
<1> QED BY <1>1, <1>5

(* Kept groups are segments in the order of the construction. *)
LEMMA PreserveFacts ==
  ASSUME SegmentInv, Preserve
  PROVE  /\ segOf' \in [Stations -> 1 .. Len(groups)]
         /\ \A x \in Stations : x \in ToSet(groups[segOf'[x]])
         /\ \A j \in 1 .. Len(groups) : In(j)' = ToSet(groups[j])
         /\ \A x \in Stations : x \in ToSet(Order)
<1>1. /\ Order \in Seq(Stations) /\ IsInjective(Order) /\ Pieces(Order, groups)
      /\ groups \in Seq(Seq(Stations))
  BY InputFacts DEF SegmentInv, Pieces
<1>2. Complete
  BY DEF Preserve, SegmentInv
<1>3. ASSUME NEW x \in Stations
      PROVE  \E j \in 1 .. Len(groups) : x \in ToSet(groups[j])
  BY <1>1, <1>2 DEF Complete, Pieces
<1>4. segOf' = [x \in Stations |->
                 CHOOSE j \in 1 .. Len(groups) : x \in ToSet(groups[j])]
  BY DEF Preserve
<1>5. ASSUME NEW x \in Stations
      PROVE  segOf'[x] \in 1 .. Len(groups) /\ x \in ToSet(groups[segOf'[x]])
  BY <1>3, <1>4
<1>6. segOf' \in [Stations -> 1 .. Len(groups)]
  BY <1>4, <1>5
<1>7. ASSUME NEW j \in 1 .. Len(groups)
      PROVE  In(j)' = ToSet(groups[j])
  <2>1. groups[j] \in Seq(Stations) /\ ToSet(groups[j]) \subseteq Stations
    BY <1>1, ToSetElement
  <2>2. ASSUME NEW x \in Stations
        PROVE  segOf'[x] = j <=> x \in ToSet(groups[j])
    BY <1>1, <1>5, PiecesDisjoint
  <2> QED BY <2>1, <2>2 DEF In
<1> QED BY <1>2, <1>5, <1>6, <1>7 DEF Complete

LEMMA PreserveStep ==
  ASSUME SegmentInv, Preserve
  PROVE  SegmentInv'
<1> DEFINE n == Len(groups)
<1>1. /\ pc' = "postopt" /\ s' = 1 /\ Grouping
      /\ UNCHANGED <<input, groups, ord, load, out>>
      /\ Order' = Order /\ Capacity' = Capacity
      /\ Len(input.docks) = n + 1
      /\ segs' = [j \in 1 .. n |->
                    [catch |-> CatchOf(groups[j]), dock |-> input.docks[j + 1]]]
      /\ \A j \in 1 .. n : CatchOf(groups[j]) <= Capacity
  BY DEF Preserve, Grouping, Order, Capacity
<1>2. /\ TypeOK /\ input \in Inputs /\ out = <<>>
      /\ Order \in Seq(Stations) /\ IsInjective(Order) /\ Pieces(Order, groups)
      /\ input.docks \in Seq(Locations)
      /\ groups \in Seq(Seq(Stations)) /\ n \in Nat
  BY <1>1, InputFacts DEF SegmentInv, Pieces, Scanning
<1>3. /\ segOf' \in [Stations -> 1 .. n]
      /\ \A x \in Stations : x \in ToSet(groups[segOf'[x]])
      /\ \A j \in 1 .. n : In(j)' = ToSet(groups[j])
  BY PreserveFacts
<1>4. \A j \in 1 .. n : ToSet(groups[j]) \in SUBSET Stations
  BY <1>2, ToSetElement
<1>5. \A j \in 1 .. n : CatchOf(groups[j]) \in Nat
  BY <1>4, CatchFacts DEF CatchOf
<1>6. \A j \in 1 .. n : input.docks[j + 1] \in Locations
  BY <1>1, <1>2
<1>7. segs' \in Seq([catch : Nat, dock : Locations]) /\ Len(segs') = n
  <2> DEFINE q == [j \in 1 .. n |->
                    [catch |-> CatchOf(groups[j]), dock |-> input.docks[j + 1]]]
  <2>1. q \in [1 .. n -> [catch : Nat, dock : Locations]]
    BY <1>5, <1>6
  <2>2. q \in Seq([catch : Nat, dock : Locations])
    <3> HIDE DEF q
    <3> HIDE DEF n
    <3> QED BY <1>2, <2>1, FunctionIsSeq
  <2> QED BY <1>1, <1>2, <2>2
<1>8. TypeOK'
  <2>1. segOf' \in [Stations -> Nat]
    BY <1>3, <1>2
  <2> QED BY <1>1, <1>2, <1>7, <2>1 DEF TypeOK
<1>9. OrderKept'
  <2> SUFFICES ASSUME NEW i \in 1 .. Len(Order), NEW k \in 1 .. Len(Order),
                      i < k
               PROVE  segOf'[Order[i]] \in 1 .. segOf'[Order[k]]
    BY <1>1 DEF OrderKept
  <2> DEFINE x == Order[i]
             y == Order[k]
             j == segOf'[x]
             l == segOf'[y]
  <2>1. /\ x \in Stations /\ y \in Stations
        /\ j \in 1 .. n /\ l \in 1 .. n
        /\ x \in ToSet(groups[j]) /\ y \in ToSet(groups[l])
    BY <1>2, <1>3, SMTT(30)
  <2>2. ~Before(Order, y, x)
    BY <1>2 DEF Before, IsInjective
  <2>3. ~(l < j)
    <3> HIDE DEF x, y, j, l
    <3>1. /\ groups[j] \in Seq(Stations) /\ groups[l] \in Seq(Stations)
      BY <1>2, <2>1
    <3>2. PICK p \in 1 .. Len(groups[j]) : groups[j][p] = x
      BY <2>1, <3>1, ToSetElement
    <3>3. PICK q \in 1 .. Len(groups[l]) : groups[l][q] = y
      BY <2>1, <3>1, ToSetElement
    <3> QED BY <1>2, <2>1, <2>2, <3>2, <3>3 DEF Pieces
  <2> HIDE DEF x, y, j, l
  <2>4. j \in 1 .. l
    BY <2>1, <2>3, <1>2
  <2> QED BY <2>4 DEF x, y, j, l
<1>10. \A j \in 1 .. n : segs'[j].catch = CatchOf(groups[j])
  BY <1>1
<1>11. CatchesMatch'
  <2>1. \A j \in 1 .. n : Catch[In(j)'] = CatchOf(groups[j])
    BY <1>3 DEF CatchOf
  <2>2. out' = <<>>
    BY <1>1, <1>2
  <2> QED BY <1>7, <1>10, <2>1, <2>2 DEF CatchesMatch
<1>12. OversizeAlone'
  <2>1. Capacity \in Nat
    BY <1>2, InputFacts
  <2>2. \A j \in 1 .. n : ~(segs'[j].catch > Capacity)
    BY <1>1, <1>5, <1>10, <2>1
  <2> QED BY <1>1, <1>7, <2>2 DEF OversizeAlone
<1> QED BY <1>1, <1>2, <1>8, <1>9, <1>11, <1>12
        DEF SegmentInv, Grouping, Scanning

-----------------------------------------------------------------------------
(* The scan: what is known before each of its steps. *)
LEMMA ScanFacts ==
  ASSUME SegmentInv, pc = "order"
  PROVE  /\ Order \in Seq(Stations) /\ Len(Order) \in Nat
         /\ Capacity \in Nat \ {0} /\ Len(segs) \in Nat
         /\ ord \in 1 .. Len(Order) + 1 /\ load \in Nat
         /\ Scanned /\ out = <<>>
         /\ \A y \in Stations : segOf[y] # 0 =>
              segOf[y] \in 1 .. Len(segs) + 1
         /\ In(Len(segs) + 2) = {}
<1>1. /\ Scanned /\ out = <<>> /\ TypeOK /\ input \in Inputs
  BY DEF SegmentInv, Scanning
<1>2. /\ Order \in Seq(Stations) /\ Len(Order) \in Nat
      /\ Capacity \in Nat \ {0} /\ Len(segs) \in Nat
      /\ ord \in 1 .. Len(Order) + 1 /\ load \in Nat
  BY <1>1, InputFacts DEF TypeOK
<1>3. ASSUME NEW y \in Stations, segOf[y] # 0
      PROVE  segOf[y] \in 1 .. Len(segs) + 1
  BY <1>1, <1>3 DEF Scanned
<1>4. In(Len(segs) + 2) = {}
  BY <1>2, <1>3 DEF In
<1> QED BY <1>1, <1>2, <1>3, <1>4

LEMMA VisitMarks ==
  ASSUME SegmentInv, Visit
  PROVE  /\ Order[ord] \in Stations /\ Order[ord] \notin In(Len(segs) + 1)
         /\ segOf' \in [Stations -> Nat]
         /\ \A j \in Nat \ {0} :
              In(j)' = IF j = Len(segs) + 1 THEN In(j) \cup {Order[ord]}
                       ELSE In(j)
         /\ Catch[In(Len(segs) + 1) \cup {Order[ord]}]
              = load + Amount(Order[ord])
         /\ \A i \in 1 .. ord : segOf'[Order[i]] \in 1 .. Len(segs) + 1
         /\ \A i, k \in 1 .. ord :
              i < k => segOf'[Order[i]] <= segOf'[Order[k]]
         /\ \A y \in Stations : segOf'[y] # 0 =>
              \E i \in 1 .. ord : Order[i] = y
<1> DEFINE m == Len(segs) + 1
           x == Order[ord]
<1>1. /\ pc = "order" /\ ord <= Len(Order)
      /\ segOf' = [segOf EXCEPT ![x] = m]
  BY DEF Visit
<1>2. /\ Len(Order) \in Nat /\ Len(segs) \in Nat /\ m \in Nat \ {0}
      /\ ord \in 1 .. Len(Order) /\ Scanned
      /\ segOf \in [Stations -> Nat]
      /\ \A i \in 1 .. Len(Order) : Order[i] \in Stations
      /\ \A i, k \in 1 .. Len(Order) : Order[i] = Order[k] => i = k
  <2>1. input \in Inputs /\ TypeOK
    BY DEF SegmentInv
  <2>2. /\ \A i \in 1 .. Len(Order) : Order[i] \in Stations
        /\ \A i, k \in 1 .. Len(Order) : Order[i] = Order[k] => i = k
    BY <2>1, InputFacts
  <2>3. segOf \in [Stations -> Nat]
    BY <2>1 DEF TypeOK
  <2> QED BY <1>1, <2>2, <2>3, ScanFacts
<1>3. x \in Stations /\ \A i \in 1 .. ord - 1 : Order[i] # x
  BY <1>2
<1>4. segOf[x] = 0
  BY <1>2, <1>3 DEF Scanned
<1> HIDE DEF m
<1>5. /\ segOf' \in [Stations -> Nat] /\ segOf'[x] = m
      /\ \A y \in Stations : y # x => segOf'[y] = segOf[y]
  <2> HIDE DEF x
  <2> QED BY <1>1, <1>2, <1>3
<1>6. \A j \in Nat \ {0} : j # m => {y \in Stations : segOf'[y] = j} = In(j)
  <2> HIDE DEF x
  <2> QED BY <1>3, <1>4, <1>5 DEF In
<1>7. {y \in Stations : segOf'[y] = m} = In(m) \cup {x} /\ x \notin In(m)
  <2> HIDE DEF x
  <2> QED BY <1>2, <1>3, <1>4, <1>5 DEF In
<1>8. Catch[In(m) \cup {x}] = load + Amount(x)
  <2>1. load = Catch[In(m)]
    BY <1>2 DEF Scanned, m
  <2>2. In(m) \in SUBSET Stations
    BY DEF In
  <2> QED BY <2>1, <2>2, <1>3, <1>7, CatchFacts
<1>9. ASSUME NEW i \in 1 .. ord - 1
      PROVE  /\ segOf'[Order[i]] = segOf[Order[i]]
             /\ segOf[Order[i]] \in 1 .. m
  BY <1>2, <1>3, <1>5 DEF Scanned, m
<1>10. \A i \in 1 .. ord : segOf'[Order[i]] \in 1 .. m
  <2>1. \A i \in 1 .. ord : i \in 1 .. ord - 1 \/ i = ord
    BY <1>2
  <2> QED BY <2>1, <1>2, <1>5, <1>9
<1>11. ASSUME NEW i \in 1 .. ord, NEW k \in 1 .. ord, i < k
       PROVE  segOf'[Order[i]] <= segOf'[Order[k]]
  <2>1. i \in 1 .. ord - 1
    BY <1>2, <1>11
  <2>2. CASE k = ord
    BY <2>1, <2>2, <1>5, <1>9, <1>2
  <2>3. CASE k # ord
    <3>1. k \in 1 .. ord - 1
      BY <1>2, <2>3
    <3> QED BY <2>1, <3>1, <1>2, <1>9, <1>11 DEF Scanned
  <2> QED BY <2>2, <2>3
<1>12. ASSUME NEW y \in Stations, segOf'[y] # 0
       PROVE  \E i \in 1 .. ord : Order[i] = y
  BY <1>2, <1>5, <1>12 DEF Scanned
<1>13. \A j : In(j)' = {y \in Stations : segOf'[y] = j}
  BY DEF In
<1>14. \A j \in Nat \ {0} : In(j)' = IF j = m THEN In(j) \cup {x} ELSE In(j)
  BY <1>6, <1>7, <1>13
<1> QED BY <1>3, <1>5, <1>7, <1>8, <1>10, <1>11, <1>12, <1>14 DEF m

(* A segment that ends with the stations of T. *)
LEMMA SegmentClosed ==
  ASSUME segs \in Seq([catch : Nat, dock : Locations]),
         CatchesMatch, OversizeAlone,
         NEW T, NEW d \in Locations, Catch[T] \in Nat,
         Catch[T] > Capacity => \E x \in T : Amount(x) = Catch[T],
         segs' = Closed(Catch[T], d),
         \A j \in Nat \ {0} :
           j <= Len(segs) + 1 => In(j)' = IF j = Len(segs) + 1 THEN T ELSE In(j),
         UNCHANGED <<input, out>>
  PROVE  /\ segs' \in Seq([catch : Nat, dock : Locations])
         /\ Len(segs') = Len(segs) + 1
         /\ segs'[Len(segs) + 1].catch = Catch[T]
         /\ \A j \in 1 .. Len(segs) : segs'[j] = segs[j]
         /\ CatchesMatch' /\ OversizeAlone'
<1> DEFINE n == Len(segs)
           r == [catch |-> Catch[T], dock |-> d]
<1>1. n \in Nat /\ r \in [catch : Nat, dock : Locations] /\ r.catch = Catch[T]
  OBVIOUS
<1>2. segs' = Append(segs, r)
  BY DEF Closed
<1>3. /\ segs' \in Seq([catch : Nat, dock : Locations]) /\ Len(segs') = n + 1
      /\ segs'[n + 1] = r
      /\ \A j \in 1 .. n : segs'[j] = segs[j]
  <2> HIDE DEF r
  <2> QED BY <1>1, <1>2
<1>4. ASSUME NEW j \in 1 .. n + 1
      PROVE  \/ j = n + 1 /\ In(j)' = T /\ segs'[j].catch = Catch[T]
             \/ j \in 1 .. n /\ In(j)' = In(j) /\ segs'[j] = segs[j]
  <2> HIDE DEF r
  <2> QED BY <1>1, <1>3
<1>5. \A j \in 1 .. n : segs[j].catch = Catch[In(j)]
  BY DEF CatchesMatch
<1>6. ASSUME NEW j \in 1 .. n + 1
      PROVE  segs'[j].catch = Catch[In(j)']
  BY <1>4, <1>5
<1>7. CatchesMatch'
  <2> HIDE DEF n, r
  <2>1. \A j \in 1 .. Len(out') : out'[j].catch = Catch[out'[j].stations]
    BY DEF CatchesMatch
  <2> QED BY <1>3, <1>6, <2>1 DEF CatchesMatch
<1>8. Capacity' = Capacity
  BY DEF Capacity
<1>9. ASSUME NEW j \in 1 .. n + 1, segs'[j].catch > Capacity
      PROVE  \E x \in In(j)' : Amount(x) = segs'[j].catch
  BY <1>4, <1>9 DEF OversizeAlone
<1>10. OversizeAlone'
  <2> HIDE DEF n, r
  <2> QED BY <1>3, <1>8, <1>9 DEF OversizeAlone, Amount
<1> QED BY <1>1, <1>3, <1>7, <1>10

LEMMA PortStep ==
  ASSUME SegmentInv, PortBefore
  PROVE  SegmentInv'
<1> DEFINE n == Len(segs)
<1>1. /\ pc = "order" /\ pc' = "order" /\ load' = 0
      /\ UNCHANGED <<input, groups, s, ord, segOf, out>>
      /\ Order' = Order /\ Capacity' = Capacity
  BY DEF PortBefore, LoadAfterPort, Order, Capacity
<1>2. PICK d \in Ports : segs' = Closed(load, d)
  BY DEF PortBefore
<1>3. /\ Order \in Seq(Stations) /\ n \in Nat /\ load \in Nat
      /\ Capacity \in Nat \ {0} /\ Scanned /\ out = <<>>
      /\ In(n + 2) = {} /\ ord \in 1 .. Len(Order) + 1 /\ Len(Order) \in Nat
  BY <1>1, ScanFacts
<1>4. \A j : In(j)' = In(j)
  BY <1>1 DEF In
<1>5. /\ load = Catch[In(n + 1)]
      /\ load > Capacity => \E x \in In(n + 1) : Amount(x) = load
  BY <1>3 DEF Scanned
<1>6. /\ segs' \in Seq([catch : Nat, dock : Locations])
      /\ Len(segs') = n + 1 /\ CatchesMatch' /\ OversizeAlone'
  <2>1. /\ segs \in Seq([catch : Nat, dock : Locations])
        /\ CatchesMatch /\ OversizeAlone /\ d \in Locations
    BY DEF SegmentInv, TypeOK, Locations
  <2> DEFINE T == In(n + 1)
  <2>2. /\ Catch[T] \in Nat /\ segs' = Closed(Catch[T], d)
        /\ Catch[T] > Capacity => \E x \in T : Amount(x) = Catch[T]
    BY <1>2, <1>3, <1>5
  <2>3. \A j \in Nat \ {0} :
          j <= n + 1 => In(j)' = IF j = n + 1 THEN T ELSE In(j)
    BY <1>4
  <2> HIDE DEF T
  <2> QED BY <1>1, <2>1, <2>2, <2>3, SegmentClosed
<1>7. Scanned'
  <2>1. (load = Catch[In(Len(segs) + 1)])' /\ ~(load' > Capacity')
    <3>1. Len(segs') + 1 = n + 2
      BY <1>3, <1>6
    <3>2. In(Len(segs) + 1)' = {}
      BY <1>1, <1>3, <3>1 DEF In
    <3>3. Catch[In(Len(segs) + 1)]' = 0
      BY <3>2, CatchFacts
    <3>4. ~(0 > Capacity)
      BY <1>3
    <3> QED BY <1>1, <3>3, <3>4
  <2>2. \A i \in 1 .. ord - 1 : segOf[Order[i]] \in 1 .. Len(segs') + 1
    BY <1>3, <1>6 DEF Scanned
  <2>3. /\ \A i, k \in 1 .. ord - 1 :
             i < k => segOf[Order[i]] <= segOf[Order[k]]
        /\ \A x \in Stations : segOf[x] # 0 =>
             \E i \in 1 .. ord - 1 : Order[i] = x
    BY <1>3 DEF Scanned
  <2> QED BY <1>1, <2>1, <2>2, <2>3 DEF Scanned
<1>8. TypeOK'
  BY <1>1, <1>6 DEF SegmentInv, TypeOK
<1>9. OrderKept' /\ Pieces(Order, groups)' /\ input' \in Inputs
  BY <1>1 DEF SegmentInv, OrderKept
<1> QED BY <1>1, <1>3, <1>6, <1>7, <1>8, <1>9 DEF SegmentInv, Grouping, Scanning

LEMMA EndStep ==
  ASSUME SegmentInv, EndOrder
  PROVE  SegmentInv'
<1> DEFINE n == Len(segs)
<1>1. /\ pc = "order" /\ pc' = "postopt" /\ s' = 1
      /\ UNCHANGED <<input, groups, ord, load, segOf, out>>
      /\ Order' = Order /\ Capacity' = Capacity
  BY DEF EndOrder, Order, Capacity
<1>2. /\ n \in Nat /\ load \in Nat /\ Capacity \in Nat \ {0}
      /\ Scanned /\ out = <<>>
  BY <1>1, ScanFacts
<1>3. \A j : In(j)' = In(j)
  BY <1>1 DEF In
<1>4. /\ segs' \in Seq([catch : Nat, dock : Locations])
      /\ CatchesMatch' /\ OversizeAlone'
  <2>1. CASE NeedsFlush
    <3> DEFINE T == In(n + 1)
    <3>1. /\ segs \in Seq([catch : Nat, dock : Locations])
          /\ CatchesMatch /\ OversizeAlone /\ Home \in Locations
      BY DEF SegmentInv, TypeOK, Locations
    <3>2. load = Catch[T]
      BY <1>2 DEF Scanned
    <3>3. /\ Catch[T] \in Nat /\ segs' = Closed(Catch[T], Home)
          /\ Catch[T] > Capacity => \E x \in T : Amount(x) = Catch[T]
      BY <1>2, <2>1, <3>2 DEF Scanned, EndOrder
    <3>4. \A j \in Nat \ {0} :
            j <= n + 1 => In(j)' = IF j = n + 1 THEN T ELSE In(j)
      BY <1>3
    <3> HIDE DEF T
    <3> QED BY <1>1, <3>1, <3>3, <3>4, SegmentClosed
  <2>2. CASE ~NeedsFlush
    <3>1. segs' = segs
      BY <2>2 DEF EndOrder
    <3> QED BY <1>1, <1>3, <3>1 DEF SegmentInv, TypeOK, CatchesMatch,
            OversizeAlone, Amount
  <2> QED BY <2>1, <2>2
<1>5. TypeOK'
  BY <1>1, <1>4 DEF SegmentInv, TypeOK
<1>6. OrderKept' /\ Pieces(Order, groups)' /\ input' \in Inputs
  BY <1>1 DEF SegmentInv, OrderKept
<1> QED BY <1>1, <1>4, <1>5, <1>6 DEF SegmentInv, Grouping, Scanning

LEMMA VisitStep ==
  ASSUME SegmentInv, Visit
  PROVE  SegmentInv'
<1> DEFINE m == Len(segs) + 1
           x == Order[ord]
           c == load + Amount(x)
           T == In(m) \cup {x}
<1>1. /\ pc = "order" /\ pc' = "order" /\ ord <= Len(Order) /\ ~Overflows(x)
      /\ UNCHANGED <<input, groups, s, out>> /\ ord' = ord + 1
      /\ Order' = Order /\ Capacity' = Capacity
  BY DEF Visit, Order, Capacity
<1>2. /\ Order \in Seq(Stations) /\ Len(segs) \in Nat /\ load \in Nat
      /\ Capacity \in Nat \ {0} /\ Scanned /\ out = <<>>
      /\ In(m + 1) = {} /\ ord \in 1 .. Len(Order) + 1 /\ Len(Order) \in Nat
  <2>1. m + 1 = Len(segs) + 2
    BY <1>1, ScanFacts
  <2> QED BY <1>1, <2>1, ScanFacts
<1>3. /\ x \in Stations /\ segOf' \in [Stations -> Nat]
      /\ \A j \in Nat \ {0} : In(j)' = IF j = m THEN T ELSE In(j)
      /\ Catch[T] = c
      /\ \A i \in 1 .. ord : segOf'[Order[i]] \in 1 .. m
      /\ \A i, k \in 1 .. ord : i < k => segOf'[Order[i]] <= segOf'[Order[k]]
      /\ \A y \in Stations : segOf'[y] # 0 =>
           \E i \in 1 .. ord : Order[i] = y
  <2>1. \A j \in Nat \ {0} : j = m => In(j) = In(m)
    OBVIOUS
  <2> QED BY <2>1, VisitMarks
<1>4. c \in Nat /\ (c > Capacity => \E y \in T : Amount(y) = c)
  <2>1. Amount(x) \in Nat
    BY <1>3, CatchFacts
  <2>2. load > 0 => c <= Capacity
    BY <1>1, <1>2, <2>1 DEF Overflows
  <2>3. load = 0 => c = Amount(x)
    BY <2>1
  <2>4. load = 0 \/ load > 0
    BY <1>2
  <2> QED BY <1>2, <2>1, <2>2, <2>3, <2>4
<1> HIDE DEF c, x, T
<1>5. ord' - 1 = ord /\ ord' \in 1 .. Len(Order') + 1
  BY <1>1, <1>2
<1>6. Scanned' /\ CatchesMatch' /\ OversizeAlone'
        /\ segs' \in Seq([catch : Nat, dock : Locations]) /\ load' \in Nat
  <2>1. CASE load' = c /\ segs' = segs
    <3>1. In(Len(segs) + 1)' = T
      BY <1>2, <1>3, <2>1
    <3>2. Scanned'
      <4>1. (load = Catch[In(Len(segs) + 1)])'
        BY <1>3, <2>1, <3>1
      <4>2. (load > Capacity => \E y \in In(Len(segs) + 1) : Amount(y) = load)'
        BY <1>1, <1>4, <2>1, <3>1 DEF Amount
      <4> QED BY <1>1, <1>3, <1>5, <2>1, <4>1, <4>2 DEF Scanned
    <3>3. \A j \in 1 .. Len(segs) : In(j)' = In(j)
      BY <1>2, <1>3
    <3>4. CatchesMatch'
      BY <1>1, <2>1, <3>3 DEF SegmentInv, CatchesMatch
    <3>5. OversizeAlone'
      BY <1>1, <2>1, <3>3 DEF SegmentInv, OversizeAlone, Amount
    <3> QED BY <1>4, <2>1, <3>2, <3>4, <3>5 DEF SegmentInv, TypeOK
  <2>2. CASE load' = 0 /\ \E d \in Ports : segs' = Closed(c, d)
    <3>1. PICK d \in Ports : segs' = Closed(c, d)
      BY <2>2
    <3>2. /\ segs' \in Seq([catch : Nat, dock : Locations])
          /\ Len(segs') = m /\ CatchesMatch' /\ OversizeAlone'
      <4>1. /\ segs \in Seq([catch : Nat, dock : Locations])
            /\ CatchesMatch /\ OversizeAlone /\ d \in Locations
        BY DEF SegmentInv, TypeOK, Locations
      <4>2. /\ Catch[T] \in Nat /\ segs' = Closed(Catch[T], d)
            /\ Catch[T] > Capacity => \E y \in T : Amount(y) = Catch[T]
        BY <1>3, <1>4, <3>1
      <4>3. \A j \in Nat \ {0} :
              j <= Len(segs) + 1 =>
                In(j)' = IF j = Len(segs) + 1 THEN T ELSE In(j)
        BY <1>3
      <4> QED BY <1>1, <4>1, <4>2, <4>3, SegmentClosed
    <3>3. In(Len(segs) + 1)' = {}
      <4>1. \A j : j = m + 1 => In(j)' = {}
        BY <1>2, <1>3
      <4>2. {y \in Stations : segOf'[y] = m + 1} = {}
        BY <4>1 DEF In
      <4> QED BY <3>2, <4>2 DEF In
    <3>4. Scanned'
      <4>1. (load = Catch[In(Len(segs) + 1)])'
        <5>1. Catch[In(Len(segs) + 1)]' = 0
          BY <3>3, CatchFacts
        <5> QED BY <2>2, <5>1
      <4>2. ~(load' > Capacity')
        BY <1>1, <1>2, <2>2
      <4>3. \A i \in 1 .. ord : segOf'[Order[i]] \in 1 .. Len(segs') + 1
        BY <1>2, <1>3, <3>2
      <4> QED BY <1>1, <1>3, <1>5, <4>1, <4>2, <4>3 DEF Scanned
    <3> QED BY <2>2, <3>2, <3>4
  <2> QED BY <2>1, <2>2 DEF Visit, LoadAfterPort, c, x
<1>7. TypeOK'
  BY <1>1, <1>3, <1>5, <1>6 DEF SegmentInv, TypeOK
<1>8. Pieces(Order, groups)' /\ input' \in Inputs
  BY <1>1 DEF SegmentInv
<1>9. OrderKept'
  <2>1. (TypeOK /\ input \in Inputs /\ Scanned => OrderKept)'
    BY ScannedInOrder, PTL
  <2> QED BY <1>6, <1>7, <1>8, <2>1
<1> QED BY <1>1, <1>2, <1>6, <1>7, <1>8, <1>9
        DEF SegmentInv, Grouping, Scanning

-----------------------------------------------------------------------------
(* The post-optimisation only copies; the rest changes nothing but pc.     *)
LEMMA PostOptStep ==
  ASSUME SegmentInv,
         SkipEmpty \/ SolveSegment \/ PostOptFails \/ Write \/ OrderFails
  PROVE  SegmentInv'
<1>1. /\ ~Scanning' /\ pc' \in {"postopt", "done", "failed"}
      /\ pc' \notin {"repair", "preserve"}
      /\ UNCHANGED <<input, groups, ord, load, segOf, segs>>
      /\ Order' = Order /\ Capacity' = Capacity
      /\ s \in Nat \ {0} /\ s' \in {s, s + 1}
  BY DEF SegmentInv, TypeOK, SkipEmpty, SolveSegment, PostOptFails, Write,
         OrderFails, Order, Capacity, Scanning, Grouping
<1> DEFINE Reports == [stations : SUBSET Stations, seg : Nat \ {0},
                       from : Locations, to : Locations, catch : Nat]
<1>2. /\ out' \in Seq(Reports)
      /\ \A j \in 1 .. Len(out') : out'[j].catch = Catch[out'[j].stations]
  <2>1. out \in Seq(Reports) /\ Len(out) \in Nat
        /\ \A j \in 1 .. Len(out) : out[j].catch = Catch[out[j].stations]
    BY DEF SegmentInv, TypeOK, CatchesMatch
  <2>2. CASE SolveSegment
    <3>1. /\ s \in 1 .. Len(segs) /\ out' = Append(out, Solved)
          /\ segs \in Seq([catch : Nat, dock : Locations])
      BY <2>2, <1>1 DEF SolveSegment, SegmentInv, TypeOK
    <3>2. /\ segs[s] \in [catch : Nat, dock : Locations]
          /\ s # 1 => segs[s - 1] \in [catch : Nat, dock : Locations]
      <4>1. s # 1 => s - 1 \in 1 .. Len(segs)
        BY <1>1, <3>1
      <4>2. \A j \in 1 .. Len(segs) : segs[j] \in [catch : Nat, dock : Locations]
        <5> DEFINE Segment == [catch : Nat, dock : Locations]
        <5>1. segs \in Seq(Segment)
          BY <3>1
        <5> HIDE DEF Segment
        <5>2. \A j \in 1 .. Len(segs) : segs[j] \in Segment
          BY <5>1
        <5> QED BY <5>2 DEF Segment
      <4> QED BY <3>1, <4>1, <4>2
    <3>3. segs[s].catch = Catch[In(s)]
      BY <3>1 DEF SegmentInv, CatchesMatch
    <3>4. StartDock \in Locations /\ EndDock \in Locations
      BY <3>2 DEF StartDock, EndDock, Locations
    <3>5. In(s) \in SUBSET Stations
      BY DEF In
    <3>6. Solved \in Reports /\ Solved.catch = Catch[Solved.stations]
      BY <1>1, <3>2, <3>3, <3>4, <3>5 DEF Solved
    <3> HIDE DEF Reports
    <3> QED BY <2>1, <3>1, <3>6
  <2>3. CASE ~SolveSegment
    <3>1. out' = out
      BY <2>3 DEF SkipEmpty, PostOptFails, Write, OrderFails
    <3> QED BY <2>1, <3>1
  <2> QED BY <2>2, <2>3
<1>3. TypeOK'
  <2>1. groups' \in Seq(Seq(Stations)) /\ s' \in Nat \ {0}
    BY <1>1 DEF SegmentInv, TypeOK
  <2> QED BY <1>1, <1>2, <2>1 DEF SegmentInv, TypeOK
<1>4. CatchesMatch'
  <2>1. \A j : In(j)' = In(j)
    BY <1>1 DEF In
  <2>2. \A j \in 1 .. Len(segs') : segs'[j].catch = Catch[In(j)']
    BY <1>1, <2>1 DEF SegmentInv, CatchesMatch
  <2> HIDE DEF Reports
  <2> QED BY <1>2, <2>2 DEF CatchesMatch
<1>5. /\ OrderKept' /\ OversizeAlone' /\ Pieces(Order, groups)'
      /\ input' \in Inputs
  BY <1>1 DEF SegmentInv, OrderKept, OversizeAlone, In
<1> QED BY <1>1, <1>3, <1>4, <1>5 DEF SegmentInv, Scanning

THEOREM SegmentInvariance == Spec => []SegmentInv
<1>1. SegmentInv /\ [Next]_vars => SegmentInv'
  <2> SUFFICES ASSUME SegmentInv, [Next]_vars PROVE SegmentInv'
    OBVIOUS
  <2>1. CASE CheckGroups \/ RefuseGroups \/ RepairMove \/ RepairNext
             \/ Repaired \/ RepairFails \/ PreserveFails
    BY <2>1, GroupingStep
  <2>2. CASE Preserve
    BY <2>2, PreserveStep
  <2>3. CASE PortBefore
    BY <2>3, PortStep
  <2>4. CASE Visit
    BY <2>4, VisitStep
  <2>5. CASE EndOrder
    BY <2>5, EndStep
  <2>6. CASE SkipEmpty \/ SolveSegment \/ PostOptFails \/ Write \/ OrderFails
    BY <2>6, PostOptStep
  <2>7. CASE UNCHANGED vars
    <3>1. /\ UNCHANGED <<pc, input, groups, s, ord, load, segOf, segs, out>>
          /\ Order' = Order /\ Capacity' = Capacity
      BY <2>7 DEF vars, Order, Capacity
    <3>2. TypeOK'
      BY <3>1 DEF SegmentInv, TypeOK
    <3>3. (Scanned => Scanned') /\ CatchesMatch'
      BY <3>1 DEF SegmentInv, Scanned, CatchesMatch, In
    <3>4. OrderKept' /\ OversizeAlone'
      BY <3>1 DEF SegmentInv, OrderKept, OversizeAlone, In
    <3> QED BY <3>1, <3>2, <3>3, <3>4
            DEF SegmentInv, Scanning, Grouping, Complete
  <2> QED BY <2>1, <2>2, <2>3, <2>4, <2>5, <2>6, <2>7 DEF Next
<1> QED BY <1>1, InitSegmentInv, PTL DEF Spec

(* Every variable keeps its type, for any constructions. *)
THEOREM SegmentTypes == Spec => []TypeOK
<1>1. SegmentInv => TypeOK
  BY DEF SegmentInv
<1> QED BY <1>1, SegmentInvariance, PTL

(* Repaired and kept, or cut anew: the segments follow the construction.   *)
THEOREM OrderAlwaysKept == Spec => []OrderKept
<1>1. SegmentInv => OrderKept
  BY DEF SegmentInv
<1> QED BY <1>1, SegmentInvariance, PTL

(* segment_catches is the catch of the segment's stations at every moment. *)
THEOREM CatchesAlwaysMatch == Spec => []CatchesMatch
<1>1. SegmentInv => CatchesMatch
  BY DEF SegmentInv
<1> QED BY <1>1, SegmentInvariance, PTL

(* Only a station heavier than the capacity puts a segment over it.        *)
THEOREM OversizeAlwaysAlone == Spec => []OversizeAlone
<1>1. SegmentInv => OversizeAlone
  BY DEF SegmentInv
<1> QED BY <1>1, SegmentInvariance, PTL

-----------------------------------------------------------------------------
(* From here on every station has some catch, and every construction and   *)
(* group some station.  The run SegmentEmptyGroup shows what happens after *)
(* an empty group; stations without catch may be lost at the end.          *)
SomeCatch == \A x \in Stations : Amount(x) > 0

SomeStations ==
  \A d \in Inputs :
    /\ Len(d.order) > 0
    /\ \A j \in 1 .. Len(d.groups) : d.groups[j] # <<>>

(* A port is behind the open segment only if that, or the next station,    *)
(* would not have fit before it.                                           *)
PortNeeded ==
  LET n == Len(segs)
  IN  n > 0 =>
        /\ ord > 1
        /\ \/ load > 0 /\ segs[n].catch + load > Capacity
           \/ /\ load = 0 /\ ord <= Len(Order)
              /\ segs[n].catch + Amount(Order[ord]) > Capacity

DockBefore(j) == IF j = 1 THEN Home ELSE segs[j - 1].dock
DockAfter(j) == IF j = Len(segs) THEN Home ELSE segs[j].dock

(* All segments up to s are solved, each as it was planned. *)
Solving ==
  /\ \A x \in ToSet(Order) : segOf[x] \in 1 .. Len(segs)
  /\ \A x \in Stations : segOf[x] # 0 => x \in ToSet(Order)
  /\ s = Len(out) + 1 /\ s <= Len(segs) + 1
  /\ pc = "done" => s = Len(segs) + 1
  /\ \A j \in 1 .. Len(out) :
       out[j].seg = j /\ out[j].stations = In(j)

(* Solved segments lie between the docks planned for them. *)
Docked ==
  /\ Len(out) <= Len(segs)
  /\ \A j \in 1 .. Len(out) :
       out[j].from = DockBefore(j) /\ out[j].to = DockAfter(j)

RegularInv ==
  /\ \A j \in 1 .. Len(groups) : groups[j] # <<>>
  /\ Scanning => PortNeeded
  /\ NoPortWasted
  /\ NoEmptySegment
  /\ pc \in {"postopt", "done"} => Solving
  /\ Docked

LEMMA NothingSolved ==
  ASSUME segs' \in Seq([catch : Nat, dock : Locations]), out' = <<>>
  PROVE  Docked'
BY DEF Docked

LEMMA RegularInit ==
  ASSUME SomeStations, Init
  PROVE  RegularInv
<1>1. /\ input \in Inputs /\ groups = input.groups /\ pc = "groups"
      /\ segs = <<>> /\ ord = 1 /\ Len(segs) = 0 /\ out = <<>>
  BY DEF Init
<1> QED BY <1>1 DEF RegularInv, SomeStations, PortNeeded, NoPortWasted,
        NoEmptySegment, Docked

LEMMA RegularGrouping ==
  ASSUME SegmentInv, RegularInv,
         CheckGroups \/ RefuseGroups \/ RepairMove \/ RepairNext \/ Repaired
           \/ RepairFails \/ PreserveFails
  PROVE  RegularInv'
<1>1. /\ Grouping /\ pc' \in {"repair", "preserve", "order"}
      /\ UNCHANGED <<input, ord, load, segOf, segs, out>>
  BY DEF SegmentInv, TypeOK, Grouping, CheckGroups, RefuseGroups, RepairMove,
         RepairNext, Repaired, RepairFails, PreserveFails
<1>2. segs = <<>> /\ Len(segs) = 0 /\ ord = 1 /\ out = <<>>
  BY <1>1 DEF SegmentInv, Scanning
<1>3. \A j \in 1 .. Len(groups') : groups'[j] # <<>>
  <2>1. CASE RepairMove
    <3>1. /\ Order \in Seq(Stations) /\ Pieces(Order, groups) /\ s \in Nat \ {0}
      BY InputFacts DEF SegmentInv, TypeOK
    <3>2. \A j \in 1 .. Len(groups) : groups[j] # <<>>
      BY DEF RegularInv
    <3> QED BY <2>1, <3>1, <3>2, MoveKeepsPieces
  <2>2. CASE ~RepairMove
    <3>1. groups' = groups
      BY <2>2 DEF CheckGroups, RefuseGroups, RepairNext, Repaired,
         RepairFails, PreserveFails
    <3> QED BY <3>1 DEF RegularInv
  <2> QED BY <2>1, <2>2
<1> QED BY <1>1, <1>2, <1>3 DEF RegularInv, PortNeeded, NoPortWasted,
        NoEmptySegment, Docked

LEMMA RegularPreserve ==
  ASSUME SegmentInv, RegularInv, Preserve
  PROVE  RegularInv'
<1> DEFINE n == Len(groups)
<1>1. /\ pc' = "postopt" /\ s' = 1 /\ out' = <<>> /\ ord' = 1
      /\ groups' = groups /\ Order' = Order
      /\ segs' = [j \in 1 .. n |->
                    [catch |-> CatchOf(groups[j]), dock |-> input.docks[j + 1]]]
      /\ n \in Nat /\ groups \in Seq(Seq(Stations))
  BY DEF Preserve, Order, SegmentInv, TypeOK, Grouping, Scanning
<1>2. Len(segs') = n
  BY <1>1
<1>3. /\ segOf' \in [Stations -> 1 .. n]
      /\ \A j \in 1 .. n : In(j)' = ToSet(groups[j])
      /\ \A x \in Stations : x \in ToSet(Order)
  BY PreserveFacts
<1>4. NoEmptySegment'
  <2>1. ASSUME NEW j \in 1 .. n
        PROVE  ToSet(groups[j]) # {}
    <3>1. groups[j] \in Seq(Stations) /\ groups[j] # <<>>
      BY <1>1 DEF RegularInv
    <3>2. 1 \in 1 .. Len(groups[j])
      BY <3>1
    <3> QED BY <3>1, <3>2, ToSetElement
  <2> QED BY <1>2, <1>3, <2>1 DEF NoEmptySegment
<1>5. Solving'
  <2>1. Order \in Seq(Stations) /\ ToSet(Order) \subseteq Stations
    BY InputFacts, ToSetElement DEF SegmentInv
  <2> QED BY <1>1, <1>2, <1>3, <2>1 DEF Solving
<1>6. Docked'
  BY <1>1, <1>2 DEF Docked
<1> QED BY <1>1, <1>4, <1>5, <1>6
        DEF RegularInv, NoPortWasted, Scanning, Grouping

(* A segment is closed after those behind it: it is not empty, and with    *)
(* the one before it over the capacity.                                    *)
LEMMA RegularClosed ==
  ASSUME SegmentInv, RegularInv,
         NEW c, Len(segs') = Len(segs) + 1,
         segs'[Len(segs) + 1].catch = c,
         \A j \in 1 .. Len(segs) : segs'[j] = segs[j] /\ In(j) \subseteq In(j)',
         {y \in Stations : segOf'[y] = Len(segs) + 1} # {},
         Len(segs) > 0 => ord > 1 /\ segs[Len(segs)].catch + c > Capacity,
         UNCHANGED input
  PROVE  NoPortWasted' /\ NoEmptySegment'
<1> DEFINE n == Len(segs)
<1>1. n \in Nat /\ Len(segs') = n + 1 /\ Capacity' = Capacity
  BY DEF SegmentInv, TypeOK, Capacity
<1>2. ASSUME NEW j \in 1 .. n + 1
      PROVE  In(j)' # {}
  <2>1. CASE j = n + 1
    BY <2>1 DEF In
  <2>2. CASE j \in 1 .. n
    BY <2>2 DEF RegularInv, NoEmptySegment
  <2> QED BY <1>1, <2>1, <2>2
<1>3. ASSUME NEW j \in 1 .. n
      PROVE  segs'[j].catch + segs'[j + 1].catch > Capacity
  <2>1. CASE j = n
    BY <2>1, <1>1
  <2>2. CASE j # n
    <3>1. j \in 1 .. n - 1 /\ j + 1 \in 1 .. n /\ ord > 1
      BY <1>1, <2>2
    <3>2. segs[j].catch + segs[j + 1].catch > Capacity
      BY <3>1 DEF RegularInv, NoPortWasted
    <3> QED BY <3>1, <3>2
  <2> QED BY <2>1, <2>2
<1>4. NoPortWasted'
  <2>1. Len(segs') - 1 = n
    BY <1>1
  <2> QED BY <1>1, <1>3, <2>1 DEF NoPortWasted
<1>5. NoEmptySegment'
  BY <1>1, <1>2 DEF NoEmptySegment
<1> QED BY <1>4, <1>5

LEMMA RegularPort ==
  ASSUME SegmentInv, RegularInv, PortBefore
  PROVE  RegularInv'
<1> DEFINE n == Len(segs)
           T == In(n + 1)
<1>1. /\ pc = "order" /\ pc' = "order" /\ load' = 0 /\ load > 0
      /\ load + Amount(Order[ord]) > Capacity /\ ord <= Len(Order)
      /\ UNCHANGED <<input, groups, s, ord, segOf, out>>
      /\ Order' = Order /\ Capacity' = Capacity
  BY DEF PortBefore, Overflows, LoadAfterPort, Order, Capacity
<1>2. PICK d \in Ports : segs' = Closed(load, d)
  BY DEF PortBefore
<1>3. /\ n \in Nat /\ load \in Nat /\ load = Catch[T]
      /\ load > Capacity => \E x \in T : Amount(x) = load
  BY <1>1, ScanFacts DEF Scanned
<1>4. \A j : In(j)' = In(j)
  BY <1>1 DEF In
<1>5. /\ Len(segs') = n + 1 /\ segs'[n + 1].catch = load
      /\ \A j \in 1 .. n : segs'[j] = segs[j]
  <2>1. /\ segs \in Seq([catch : Nat, dock : Locations])
        /\ CatchesMatch /\ OversizeAlone /\ d \in Locations
    BY DEF SegmentInv, TypeOK, Locations
  <2>2. /\ Catch[T] \in Nat /\ segs' = Closed(Catch[T], d)
        /\ Catch[T] > Capacity => \E x \in T : Amount(x) = Catch[T]
    BY <1>2, <1>3
  <2>3. \A j \in Nat \ {0} :
          j <= n + 1 => In(j)' = IF j = n + 1 THEN T ELSE In(j)
    BY <1>4
  <2> HIDE DEF T
  <2> QED BY <1>1, <1>3, <2>1, <2>2, <2>3, SegmentClosed
<1>6. T # {}
  <2> SUFFICES ASSUME T = {}
               PROVE  FALSE
    OBVIOUS
  <2>1. Catch[T] = 0
    <3> HIDE DEF T
    <3> QED BY CatchFacts
  <2> QED BY <1>1, <1>3, <2>1
<1>7. {y \in Stations : segOf'[y] = n + 1} # {}
  BY <1>1, <1>6 DEF In
<1>8. n > 0 => ord > 1 /\ segs[n].catch + load > Capacity
  BY <1>1 DEF RegularInv, Scanning, PortNeeded
<1>9. ord > 1
  <2> SUFFICES ASSUME ord = 1
               PROVE  FALSE
    BY <1>1, ScanFacts
  <2>1. \A y \in Stations : segOf[y] = 0
    BY <1>1, ScanFacts DEF Scanned
  <2>2. T = {}
    BY <1>3, <2>1 DEF In
  <2> QED BY <1>6, <2>2
<1>10. NoPortWasted' /\ NoEmptySegment'
  <2> HIDE DEF T
  <2> QED BY <1>1, <1>4, <1>5, <1>7, <1>8, RegularClosed
<1>11. PortNeeded'
  <2>1. (Len(segs) > 0 => ord > 1 /\ load = 0 /\ ord <= Len(Order)
           /\ segs[Len(segs)].catch + Amount(Order[ord]) > Capacity)'
    BY <1>1, <1>5, <1>9 DEF Amount
  <2> QED BY <2>1 DEF PortNeeded
<1>12. Docked'
  BY <1>1, <1>3, <1>5, ScanFacts DEF Docked
<1> QED BY <1>1, <1>10, <1>11, <1>12 DEF RegularInv

LEMMA RegularVisit ==
  ASSUME SomeCatch, SegmentInv, RegularInv, Visit
  PROVE  RegularInv'
<1> DEFINE n == Len(segs)
           x == Order[ord]
           c == load + Amount(x)
           T == In(n + 1) \cup {x}
<1>1. /\ pc = "order" /\ pc' = "order" /\ ord <= Len(Order) /\ ord' = ord + 1
      /\ UNCHANGED <<input, groups, s, out>>
      /\ Order' = Order /\ Capacity' = Capacity
  BY DEF Visit, Order, Capacity
<1>2. /\ n \in Nat /\ load \in Nat /\ ord \in Nat \ {0} /\ Len(Order) \in Nat
      /\ load > Capacity => \E y \in T : Amount(y) = load
      /\ \A i \in 1 .. Len(Order) : Order[i] \in Stations
  BY <1>1, ScanFacts, InputFacts DEF Scanned, SegmentInv
<1>3. /\ x \in Stations /\ Catch[T] = c
      /\ \A j \in Nat \ {0} : In(j)' = IF j = n + 1 THEN T ELSE In(j)
  <2>1. \A j \in Nat \ {0} : j = n + 1 => In(j) = In(n + 1)
    OBVIOUS
  <2> QED BY <2>1, VisitMarks
<1>4. Amount(x) \in Nat /\ Amount(x) > 0 /\ c \in Nat /\ c > 0
  BY <1>2, <1>3, CatchFacts DEF SomeCatch
<1>5. n > 0 => ord > 1 /\ segs[n].catch + c > Capacity
  <2> SUFFICES ASSUME n > 0
               PROVE  ord > 1 /\ segs[n].catch + c > Capacity
    OBVIOUS
  <2>1. /\ segs[n].catch \in Nat /\ Capacity \in Nat
    <3> DEFINE Segment == [catch : Nat, dock : Locations]
    <3>1. segs \in Seq(Segment)
      BY DEF SegmentInv, TypeOK
    <3> HIDE DEF Segment
    <3>2. segs[n] \in Segment
      BY <1>2, <3>1
    <3> QED BY <3>2, <1>1, ScanFacts DEF Segment
  <2>2. /\ ord > 1
        /\ \/ segs[n].catch + load > Capacity
           \/ load = 0 /\ segs[n].catch + Amount(x) > Capacity
    BY <1>1 DEF RegularInv, Scanning, PortNeeded
  <2> QED BY <1>2, <1>4, <2>1, <2>2
<1> HIDE DEF c, x, T
<1>6. NoPortWasted' /\ NoEmptySegment' /\ PortNeeded'
  <2>1. CASE load' = c /\ segs' = segs
    <3>1. NoPortWasted'
      <4>1. CASE n = 0
        BY <2>1, <4>1 DEF NoPortWasted
      <4>2. CASE n > 0
        BY <1>1, <1>5, <2>1, <4>2 DEF RegularInv, NoPortWasted
      <4> QED BY <1>2, <4>1, <4>2
    <3>2. NoEmptySegment'
      BY <1>2, <1>3, <2>1 DEF RegularInv, NoEmptySegment
    <3>3. PortNeeded'
      BY <1>1, <1>2, <1>4, <1>5, <2>1 DEF PortNeeded
    <3> QED BY <3>1, <3>2, <3>3
  <2>2. CASE load' = 0 /\ FullAfter(c) /\ \E d \in Ports : segs' = Closed(c, d)
    <3>1. PICK d \in Ports : segs' = Closed(c, d)
      BY <2>2
    <3>2. /\ Len(segs') = n + 1 /\ segs'[n + 1].catch = c
          /\ \A j \in 1 .. n : segs'[j] = segs[j]
      <4> DEFINE r == [catch |-> c, dock |-> d]
      <4>1. segs' = Append(segs, r) /\ r.catch = c
        BY <3>1 DEF Closed
      <4>2. segs \in Seq([catch : Nat, dock : Locations])
        BY DEF SegmentInv, TypeOK
      <4> HIDE DEF r
      <4> QED BY <4>1, <4>2
    <3>3. {y \in Stations : segOf'[y] = n + 1} # {}
      <4>1. \A j : j = n + 1 => In(j)' # {}
        BY <1>2, <1>3 DEF T
      <4> QED BY <4>1 DEF In
    <3>4. \A j \in 1 .. n : In(j) \subseteq In(j)'
      BY <1>2, <1>3
    <3>5. NoPortWasted' /\ NoEmptySegment'
      BY <1>1, <1>5, <3>2, <3>3, <3>4, RegularClosed
    <3>6. PortNeeded'
      <4>1. ord' <= Len(Order) /\ c >= Capacity /\ Order[ord'] \in Stations
        BY <1>1, <1>2, <2>2 DEF FullAfter
      <4>2. Amount(Order[ord']) \in Nat /\ Amount(Order[ord']) > 0
            /\ Capacity \in Nat
        BY <1>1, <4>1, CatchFacts, ScanFacts DEF SomeCatch
      <4>3. segs'[n + 1].catch + Amount(Order[ord']) > Capacity
        BY <1>4, <3>2, <4>1, <4>2
      <4>4. (Len(segs) > 0 => ord > 1 /\ load = 0 /\ ord <= Len(Order)
               /\ segs[Len(segs)].catch + Amount(Order[ord]) > Capacity)'
        BY <1>1, <1>2, <2>2, <3>2, <4>1, <4>3 DEF Amount
      <4> QED BY <4>4 DEF PortNeeded
    <3> QED BY <3>5, <3>6
  <2> QED BY <2>1, <2>2 DEF Visit, LoadAfterPort, c, x
<1>7. Docked'
  <2>1. SegmentInv'
    BY VisitStep
  <2> QED BY <1>1, <2>1, NothingSolved, ScanFacts DEF SegmentInv, TypeOK
<1> QED BY <1>1, <1>6, <1>7 DEF RegularInv

(* With a catch at every station something is always left to be closed at  *)
(* the end: the load, or everything.                                       *)
LEMMA RegularEnd ==
  ASSUME SomeStations, SegmentInv, RegularInv, EndOrder
  PROVE  RegularInv'
<1> DEFINE n == Len(segs)
           T == In(n + 1)
<1>1. /\ pc = "order" /\ pc' = "postopt" /\ s' = 1 /\ ord > Len(Order)
      /\ UNCHANGED <<input, groups, ord, load, segOf, out>>
      /\ Order' = Order /\ Capacity' = Capacity
  BY DEF EndOrder, Order, Capacity
<1>2. /\ n \in Nat /\ load \in Nat /\ Scanned /\ out = <<>>
      /\ Len(Order) \in Nat /\ ord = Len(Order) + 1 /\ Order \in Seq(Stations)
      /\ Len(Order) > 0
  <2>1. input \in Inputs
    BY DEF SegmentInv
  <2> QED BY <1>1, <2>1, ScanFacts DEF SomeStations, Order
<1>3. \A i \in 1 .. Len(Order) : segOf[Order[i]] \in 1 .. n + 1
  BY <1>2 DEF Scanned
<1>4. n > 0 => load > 0 /\ ord > 1 /\ segs[n].catch + load > Capacity
  BY <1>1, <1>2 DEF RegularInv, Scanning, PortNeeded
<1>5. segs' = Closed(load, Home)
  <2>1. n = 0 => segs = <<>>
    BY DEF SegmentInv, TypeOK
  <2>2. NeedsFlush
    BY <1>2, <1>4, <2>1 DEF NeedsFlush
  <2> QED BY <2>2 DEF EndOrder
<1>6. /\ Len(segs') = n + 1 /\ segs'[n + 1].catch = load
      /\ \A j \in 1 .. n : segs'[j] = segs[j]
  <2> DEFINE r == [catch |-> load, dock |-> Home]
  <2>1. segs' = Append(segs, r) /\ r.catch = load
    BY <1>5 DEF Closed
  <2>2. segs \in Seq([catch : Nat, dock : Locations])
    BY DEF SegmentInv, TypeOK
  <2> HIDE DEF r
  <2> QED BY <2>1, <2>2
<1>7. T # {}
  <2>1. CASE n = 0
    <3>1. segOf[Order[1]] = 1 /\ Order[1] \in Stations
      BY <1>2, <1>3, <2>1
    <3> QED BY <2>1, <3>1 DEF In
  <2>2. CASE n > 0
    <3>1. Catch[T] > 0
      BY <1>2, <1>4, <2>2 DEF Scanned
    <3> SUFFICES ASSUME T = {}
                 PROVE  FALSE
      OBVIOUS
    <3>2. Catch[T] = 0
      <4> HIDE DEF T
      <4> QED BY CatchFacts
    <3> QED BY <3>1, <3>2
  <2> QED BY <1>2, <2>1, <2>2
<1>8. {y \in Stations : segOf'[y] = n + 1} # {}
  BY <1>1, <1>7 DEF In
<1>9. \A j : In(j)' = In(j)
  BY <1>1 DEF In
<1>10. NoPortWasted' /\ NoEmptySegment'
  <2> HIDE DEF T
  <2> QED BY <1>1, <1>4, <1>6, <1>8, <1>9, RegularClosed
<1>11. Solving'
  <2>1. ASSUME NEW y \in ToSet(Order)
        PROVE  segOf[y] \in 1 .. n + 1
    <3>1. PICK i \in 1 .. Len(Order) : Order[i] = y
      BY <1>2, ToSetElement
    <3> QED BY <1>3, <3>1
  <2>2. ASSUME NEW y \in Stations, segOf[y] # 0
        PROVE  y \in ToSet(Order)
    <3>1. PICK i \in 1 .. Len(Order) : Order[i] = y
      BY <1>2, <2>2 DEF Scanned
    <3> QED BY <1>2, <3>1, ToSetElement
  <2> QED BY <1>1, <1>2, <1>6, <2>1, <2>2 DEF Solving
<1>12. Docked'
  BY <1>1, <1>2, <1>6 DEF Docked
<1> QED BY <1>1, <1>10, <1>11, <1>12 DEF RegularInv, Scanning, Grouping

LEMMA RegularPostOpt ==
  ASSUME SegmentInv, RegularInv,
         SkipEmpty \/ SolveSegment \/ PostOptFails \/ Write \/ OrderFails
  PROVE  RegularInv'
<1>1. /\ ~Scanning' /\ pc' \in {"postopt", "done", "failed"}
      /\ UNCHANGED <<input, groups, ord, load, segOf, segs>>
      /\ Order' = Order /\ Capacity' = Capacity
  BY DEF SkipEmpty, SolveSegment, PostOptFails, Write,
         OrderFails, Order, Capacity, Scanning, Grouping
<1>2. \A j : In(j)' = In(j) /\ DockBefore(j)' = DockBefore(j)
               /\ DockAfter(j)' = DockAfter(j)
  BY <1>1 DEF In, DockBefore, DockAfter
<1>3. s \in Nat \ {0} /\ Len(segs) \in Nat
  BY DEF SegmentInv, TypeOK
<1>4. ASSUME pc' # "failed"
      PROVE  Solving' /\ Docked'
  <2>1. pc = "postopt" /\ Solving /\ Docked
    BY <1>4 DEF SkipEmpty, SolveSegment, PostOptFails, Write, OrderFails,
       RegularInv
  <2>2. ~SkipEmpty
    <3>1. s <= Len(segs) => In(s) # {}
      BY <1>3 DEF RegularInv, NoEmptySegment
    <3> QED BY <3>1 DEF SkipEmpty
  <2>3. CASE Write
    BY <1>1, <1>2, <1>3, <2>1, <2>3 DEF Write, Solving, Docked
  <2>4. CASE SolveSegment
    <3>1. /\ s <= Len(segs) /\ out' = Append(out, Solved) /\ s' = s + 1
          /\ pc' = "postopt" /\ s = Len(out) + 1
      BY <2>1, <2>4 DEF SolveSegment, Solving
    <3>2. /\ Solved.seg = s /\ Solved.stations = In(s)
          /\ Solved.from = DockBefore(s) /\ Solved.to = DockAfter(s)
      BY DEF Solved, StartDock, EndDock, DockBefore, DockAfter
    <3> DEFINE Reports == [stations : SUBSET Stations, seg : Nat \ {0},
                           from : Locations, to : Locations, catch : Nat]
               r == Solved
    <3>3. out \in Seq(Reports)
      BY DEF SegmentInv, TypeOK
    <3> HIDE DEF Reports, r
    <3>4. out' = Append(out, r)
      BY <3>1 DEF r
    <3>5. /\ Len(out') = s /\ out'[s] = r
          /\ \A j \in 1 .. s - 1 : out'[j] = out[j]
      BY <3>1, <3>3, <3>4
    <3>6. ASSUME NEW j \in 1 .. Len(out')
          PROVE  /\ out'[j].seg = j /\ out'[j].stations = In(j)
                 /\ out'[j].from = DockBefore(j) /\ out'[j].to = DockAfter(j)
      <4>1. CASE j = s
        BY <3>2, <3>5, <4>1 DEF r
      <4>2. CASE j # s
        <5>1. j \in 1 .. Len(out) /\ out'[j] = out[j]
          BY <1>3, <3>1, <3>5, <4>2
        <5> QED BY <2>1, <5>1 DEF Solving, Docked
      <4> QED BY <4>1, <4>2
    <3>7. /\ \A y \in ToSet(Order) : segOf[y] \in 1 .. Len(segs)
          /\ \A y \in Stations : segOf[y] # 0 => y \in ToSet(Order)
      BY <2>1 DEF Solving
    <3>8. s' = Len(out') + 1 /\ s' <= Len(segs) + 1 /\ Len(out') <= Len(segs)
      BY <1>3, <3>1, <3>5
    <3>9. Solving'
      BY <1>1, <1>2, <3>1, <3>6, <3>7, <3>8 DEF Solving
    <3>10. Docked'
      BY <1>1, <1>2, <3>6, <3>8 DEF Docked
    <3> QED BY <3>9, <3>10
  <2> QED BY <1>4, <2>2, <2>3, <2>4 DEF PostOptFails, OrderFails
<1>5. pc' = "failed" => Docked'
  <2>1. pc' = "failed" => out' = out
    BY DEF SkipEmpty, SolveSegment, PostOptFails, Write, OrderFails
  <2> QED BY <1>1, <1>2, <2>1 DEF RegularInv, Docked
<1> QED BY <1>1, <1>2, <1>4, <1>5
        DEF RegularInv, NoPortWasted, NoEmptySegment

THEOREM RegularInvariance ==
  ASSUME SomeCatch, SomeStations
  PROVE  Spec => []RegularInv
<1>1. ASSUME SegmentInv, RegularInv, [Next]_vars
      PROVE  RegularInv'
  <2>1. CASE CheckGroups \/ RefuseGroups \/ RepairMove \/ RepairNext
             \/ Repaired \/ RepairFails \/ PreserveFails
    BY <1>1, <2>1, RegularGrouping
  <2>2. CASE Preserve
    BY <1>1, <2>2, RegularPreserve
  <2>3. CASE PortBefore
    BY <1>1, <2>3, RegularPort
  <2>4. CASE Visit
    BY <1>1, <2>4, RegularVisit
  <2>5. CASE EndOrder
    BY <1>1, <2>5, RegularEnd
  <2>6. CASE SkipEmpty \/ SolveSegment \/ PostOptFails \/ Write \/ OrderFails
    BY <1>1, <2>6, RegularPostOpt
  <2>7. CASE UNCHANGED vars
    <3>1. /\ UNCHANGED <<pc, input, groups, s, ord, load, segOf, segs, out>>
          /\ Order' = Order /\ Capacity' = Capacity
      BY <2>7 DEF vars, Order, Capacity
    <3>2. Solving' = Solving /\ Docked' = Docked
      BY <3>1 DEF Solving, Docked, In, DockBefore, DockAfter
    <3>3. NoPortWasted' /\ NoEmptySegment'
      BY <1>1, <3>1 DEF RegularInv, NoPortWasted, NoEmptySegment, In
    <3>4. PortNeeded' = PortNeeded
      BY <3>1 DEF PortNeeded, Amount
    <3> QED BY <1>1, <3>1, <3>2, <3>3, <3>4
            DEF RegularInv, Scanning, Grouping
  <2> QED BY <1>1, <2>1, <2>2, <2>3, <2>4, <2>5, <2>6, <2>7 DEF Next
<1>2. Init => RegularInv
  BY RegularInit
<1> QED BY <1>1, <1>2, SegmentInvariance, PTL DEF Spec

(* With a catch at every station no two neighbouring segments of an order  *)
(* that is cut would have fit into one.                                    *)
THEOREM PortsAlwaysNeeded ==
  ASSUME SomeCatch, SomeStations
  PROVE  Spec => []NoPortWasted
<1>1. RegularInv => NoPortWasted
  BY DEF RegularInv
<1> QED BY <1>1, RegularInvariance, PTL

(* No segment is ever empty, so the scan inserts no port twice. *)
THEOREM NeverEmpty ==
  ASSUME SomeCatch, SomeStations
  PROVE  Spec => []NoEmptySegment
<1>1. RegularInv => NoEmptySegment
  BY DEF RegularInv
<1> QED BY <1>1, RegularInvariance, PTL

(* The solved segments join, from home to home. *)
THEOREM AlwaysDockToDock ==
  ASSUME SomeCatch, SomeStations
  PROVE  Spec => []SolvedDockToDock
<1>1. SegmentInv /\ RegularInv => SolvedDockToDock
  <2> SUFFICES ASSUME SegmentInv, RegularInv
               PROVE  SolvedDockToDock
    OBVIOUS
  <2>1. Len(segs) \in Nat /\ Len(out) \in Nat /\ Docked
    BY DEF SegmentInv, TypeOK, RegularInv
  <2>2. ASSUME NEW j \in 1 .. Len(out)
        PROVE  out[j].from = IF j = 1 THEN Home ELSE out[j - 1].to
    <3>1. CASE j = 1
      BY <3>1 DEF Docked, DockBefore, RegularInv
    <3>2. CASE j # 1
      <4>1. j - 1 \in 1 .. Len(out) /\ j - 1 # Len(segs)
        BY <2>1, <3>2 DEF Docked
      <4>2. out[j - 1].to = segs[j - 1].dock
        BY <2>1, <4>1 DEF Docked, DockAfter
      <4>3. out[j].from = segs[j - 1].dock
        BY <2>1, <3>2 DEF Docked, DockBefore
      <4> QED BY <3>2, <4>2, <4>3
    <3> QED BY <3>1, <3>2
  <2>3. ASSUME pc = "done", out # <<>>
        PROVE  Last(out).to = Home
    <3>1. Len(out) = Len(segs) /\ Len(out) \in 1 .. Len(out)
      <4>1. Len(out) # 0
        BY <2>3 DEF SegmentInv, TypeOK
      <4> QED BY <2>1, <2>3, <4>1 DEF RegularInv, Solving
    <3> QED BY <2>1, <3>1 DEF Docked, DockAfter, Last
  <2> QED BY <2>2, <2>3 DEF SolvedDockToDock
<1> QED BY <1>1, SegmentInvariance, RegularInvariance, PTL

(* What is written, once everything is solved. *)
LEMMA WrittenFacts ==
  ASSUME SegmentInv, RegularInv, pc = "done"
  PROVE  /\ Len(out) \in Nat /\ Len(out) = Len(segs)
         /\ ToSet(Order) \subseteq Stations
         /\ \A x \in ToSet(Order) : segOf[x] \in 1 .. Len(out)
         /\ \A j \in 1 .. Len(out) :
              /\ Reported(j) = In(j)
              /\ out[j].catch = Catch[In(j)]
              /\ In(j) \subseteq ToSet(Order)
<1>1. Len(out) \in Nat /\ Len(segs) \in Nat /\ Len(out) = Len(segs)
  BY DEF SegmentInv, TypeOK, RegularInv, Solving
<1>2. ToSet(Order) \subseteq Stations
  <2>1. Order \in Seq(Stations)
    BY InputFacts DEF SegmentInv
  <2> QED BY <2>1, ToSetElement
<1>3. \A x \in ToSet(Order) : segOf[x] \in 1 .. Len(out)
  BY <1>1 DEF RegularInv, Solving
<1> DEFINE Reports == [stations : SUBSET Stations, seg : Nat \ {0},
                       from : Locations, to : Locations, catch : Nat]
<1>4. /\ \A j \in 1 .. Len(out) : out[j].seg = j /\ out[j].stations = In(j)
      /\ out \in Seq(Reports)
  BY DEF SegmentInv, TypeOK, RegularInv, Solving
<1>5. ASSUME NEW j \in 1 .. Len(out)
      PROVE  Reported(j) = In(j)
  <2>1. ToSet(out) = {out[i] : i \in 1 .. Len(out)}
    BY DEF ToSet
  <2>2. {o \in ToSet(out) : o.seg = j} = {out[j]}
    <3> HIDE DEF Reports
    <3> QED BY <1>4, <2>1
  <2>3. Reported(j) = out[j].stations
    BY <2>2 DEF Reported
  <2> QED BY <1>4, <2>3
<1>6. ASSUME NEW j \in 1 .. Len(out)
      PROVE  out[j].catch = Catch[In(j)] /\ In(j) \subseteq ToSet(Order)
  <2>1. out[j].catch = Catch[In(j)]
    BY <1>4 DEF SegmentInv, CatchesMatch
  <2>2. In(j) \subseteq ToSet(Order)
    BY <1>1 DEF In, RegularInv, Solving
  <2> QED BY <2>1, <2>2
<1> QED BY <1>1, <1>2, <1>3, <1>5, <1>6

(* With a catch at every station and no empty group, every station of the  *)
(* construction is in exactly one segment of the output.                   *)
THEOREM AllReported ==
  ASSUME SomeCatch, SomeStations
  PROVE  Spec => []EveryStationReported
<1>1. SegmentInv /\ RegularInv => EveryStationReported
  <2> SUFFICES ASSUME SegmentInv, RegularInv, pc = "done",
                      NEW x \in ToSet(Order)
               PROVE  Cardinality({j \in 1 .. Len(out) : x \in Reported(j)}) = 1
    BY DEF EveryStationReported
  <2>1. x \in Stations /\ segOf[x] \in 1 .. Len(out)
    BY WrittenFacts
  <2>2. \A j \in 1 .. Len(out) : x \in Reported(j) <=> j = segOf[x]
    BY <2>1, WrittenFacts DEF In
  <2>3. {j \in 1 .. Len(out) : x \in Reported(j)} = {segOf[x]}
    BY <2>1, <2>2
  <2> QED BY <2>3, FS_Singleton
<1> QED BY <1>1, SegmentInvariance, RegularInvariance, PTL

LEMMA CatchAtLeast ==
  ASSUME NEW T \in SUBSET Stations, NEW x \in T
  PROVE  Catch[T] >= Amount(x)
<1> DEFINE U == T \ {x}
<1>1. U \in SUBSET Stations /\ x \in Stations \ U /\ T = U \cup {x}
  OBVIOUS
<1> HIDE DEF U
<1>2. Catch[T] = Catch[U] + Amount(x) /\ Catch[U] \in Nat /\ Amount(x) \in Nat
  BY <1>1, CatchFacts
<1> QED BY <1>2

(* is_feasible is false only for want of a bigger boat: some station alone *)
(* is over the capacity.                                                   *)
THEOREM FlagAlwaysHonest ==
  ASSUME SomeCatch, SomeStations
  PROVE  Spec => []FlagHonest
<1>1. SegmentInv /\ RegularInv => FlagHonest
  <2> SUFFICES ASSUME SegmentInv, RegularInv, pc = "done"
               PROVE  Feasible <=> \A x \in ToSet(Order) : Amount(x) <= Capacity
    BY DEF FlagHonest
  <2>1. \A j : In(j) \in SUBSET Stations
    BY DEF In
  <2>2. /\ \A S \in SUBSET Stations : Catch[S] \in Nat
        /\ \A x \in Stations : Amount(x) \in Nat
        /\ Capacity \in Nat
    BY CatchFacts, InputFacts DEF SegmentInv
  <2>3. ASSUME Feasible, NEW x \in ToSet(Order)
        PROVE  Amount(x) <= Capacity
    <3> DEFINE j == segOf[x]
    <3>1. x \in Stations /\ j \in 1 .. Len(out)
      BY WrittenFacts
    <3>2. x \in In(j)
      BY <3>1 DEF In
    <3>3. Catch[In(j)] <= Capacity
      BY <2>3, <3>1, WrittenFacts DEF Feasible
    <3>4. Catch[In(j)] >= Amount(x)
      BY <2>1, <3>2, CatchAtLeast
    <3> QED BY <2>1, <2>2, <3>1, <3>3, <3>4
  <2>4. ASSUME \A x \in ToSet(Order) : Amount(x) <= Capacity,
               NEW j \in 1 .. Len(out)
        PROVE  out[j].catch <= Capacity
    <3> SUFFICES ASSUME ~(out[j].catch <= Capacity)
                 PROVE  FALSE
      OBVIOUS
    <3>1. j \in 1 .. Len(segs) /\ segs[j].catch = out[j].catch
      BY WrittenFacts DEF SegmentInv, CatchesMatch
    <3>2. out[j].catch \in Nat
      BY <2>1, <2>2, WrittenFacts
    <3>3. segs[j].catch > Capacity
      BY <2>2, <3>1, <3>2
    <3>4. PICK x \in In(j) : Amount(x) = segs[j].catch
      BY <3>1, <3>3 DEF SegmentInv, OversizeAlone
    <3>5. x \in ToSet(Order)
      BY <3>4, WrittenFacts
    <3> QED BY <2>2, <2>4, <3>1, <3>2, <3>3, <3>4, <3>5
  <2> QED BY <2>3, <2>4 DEF Feasible
<1> QED BY <1>1, SegmentInvariance, RegularInvariance, PTL
=============================================================================
