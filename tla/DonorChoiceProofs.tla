------------------------- MODULE DonorChoiceProofs -------------------------
(***************************************************************************)
(* The scan of DonorChoice computes an arg min, for any number of          *)
(* segments, any routes and any distances, and the copies made of its      *)
(* choice deal the stations out anew.  The invariant is the promise of     *)
(* ChoiceIsNearest for the positions the scan has left behind, and that    *)
(* the side remembered with the best station has room for it.              *)
(***************************************************************************)
EXTENDS DonorChoice, Sums, SequenceTheorems

(* Position (t, k) lies behind the scan. *)
Behind(t, k) == Before(t, k, s, i)

BestSoFar ==
  IF best.donor = NoDonor
    THEN \A t \in Segments : \A k \in 1 .. Len(order[t]) :
           Behind(t, k) => ~MayDonate(t, k)
    ELSE /\ MayDonate(best.donor, best.pos)
         /\ Behind(best.donor, best.pos)
         /\ best.score = ScoreAt(best.donor, best.pos)
         /\ \A t \in Segments : \A k \in 1 .. Len(order[t]) :
              Behind(t, k) /\ MayDonate(t, k) =>
                \/ best.score < ScoreAt(t, k)
                \/ best.score = ScoreAt(t, k) /\ ~Before(t, k, best.donor, best.pos)

(* The side that is to have the best station. *)
SideHasRoom ==
  best.donor # NoDonor => RoomIn(IF best.nearerLeft THEN left ELSE Right, Chosen)

CopiesMade ==
  pc = "retry" => copies = [left |-> WithExtra(left, best.nearerLeft),
                            right |-> WithExtra(Right, ~best.nearerLeft),
                            donor |-> WithoutStation]

(* Once the scan is over, every position is behind it. *)
ScanInv ==
  /\ TypeOK
  /\ BestSoFar
  /\ SideHasRoom
  /\ CopiesMade
  /\ pc # "scan" => s = N
  /\ pc \in {"copy", "retry"} => best.donor # NoDonor

-----------------------------------------------------------------------------
(* Adding a station to a segment or taking one out yields a segment. *)
LEMMA CopyTypes ==
  ASSUME NEW q \in Seq(Stations), NEW n \in 1 .. Len(q), NEW x \in Stations
  PROVE  /\ Append(q, x) \in Seq(Stations)
         /\ RemoveAt(q, n) \in Seq(Stations)
<1>1. SubSeq(q, 1, n - 1) \in Seq(Stations)
  OBVIOUS
<1>2. SubSeq(q, n + 1, Len(q)) \in Seq(Stations)
  OBVIOUS
<1> QED
  BY <1>1, <1>2 DEF RemoveAt

(* The least of a set of numbers. *)
LEMMA MinOfNaturals ==
  ASSUME NEW D, D \subseteq Nat, D # {}
  PROVE  Min(D) \in D /\ \A d \in D : Min(D) <= d
<1>1. \E m \in D : \A n \in D : m <= n
  BY LeastNatural
<1> QED
  BY <1>1 DEF Min

(* Distances and scores are numbers. *)
LEMMA PointTypes ==
  ASSUME NEW o \in Orders, NEW t \in Segments
  PROVE  Points(o, t) \subseteq Locations /\ Dock[t] \in Points(o, t)
<1>1. Pred(t) \in Segments
  BY OrderAssumption DEF Pred, Segments
<1>2. ToSet(o[t]) \subseteq Stations
  BY OrderAssumption DEF ToSet
<1> QED
  BY <1>1, <1>2, DistanceAssumption DEF Points

LEMMA LocTypes ==
  ASSUME NEW x \in Stations, NEW loc \in Locations
  PROVE  /\ Miles[<<Start[x], loc>>] \in Nat /\ Miles[<<End[x], loc>>] \in Nat
         /\ StationToLoc(x, loc) \in Nat
<1> DEFINE d1 == Miles[<<Start[x], loc>>]
           d2 == Miles[<<End[x], loc>>]
<1>1. d1 \in Nat /\ d2 \in Nat
  BY DistanceAssumption
<1>2. Min({d1, d2}) \in {d1, d2}
  <2>1. {d1, d2} \subseteq Nat /\ {d1, d2} # {}
    BY <1>1
  <2> HIDE DEF d1, d2
  <2> QED
    BY <2>1, MinOfNaturals
<1> QED
  BY <1>1, <1>2 DEF StationToLoc

LEMMA SegmentDistance ==
  ASSUME NEW o \in Orders, NEW t \in Segments, NEW x \in Stations
  PROVE  /\ StationToSegment(o, x, t) \in Nat
         /\ \E loc \in Points(o, t) : StationToSegment(o, x, t) = StationToLoc(x, loc)
         /\ \A loc \in Points(o, t) : StationToSegment(o, x, t) <= StationToLoc(x, loc)
<1> DEFINE D == {StationToLoc(x, loc) : loc \in Points(o, t)}
<1>1. D \subseteq Nat /\ D # {}
  BY PointTypes, LocTypes
<1>2. Min(D) \in D /\ \A d \in D : Min(D) <= d
  <2> HIDE DEF D
  <2> QED
    BY <1>1, MinOfNaturals
<1>3. StationToSegment(o, x, t) = Min(D)
  BY DEF StationToSegment
<1> QED
  BY <1>1, <1>2, <1>3

LEMMA ScoreTypes ==
  ASSUME NEW o \in Orders, NEW l \in Segments, NEW x \in Stations
  PROVE  /\ Score(o, l, x) \in Nat
         /\ \E loc \in Points(o, l) \cup Points(o, Succ(l)) :
              Score(o, l, x) = StationToLoc(x, loc)
         /\ \A loc \in Points(o, l) \cup Points(o, Succ(l)) :
              Score(o, l, x) <= StationToLoc(x, loc)
<1> DEFINE D == {StationToLoc(x, Dock[l]), StationToSegment(o, x, l),
                 StationToSegment(o, x, Succ(l))}
<1>1. Succ(l) \in Segments
  BY OrderAssumption DEF Succ, Segments
<1>2. Dock[l] \in Points(o, l) /\ Points(o, l) \subseteq Locations
      /\ Points(o, Succ(l)) \subseteq Locations
  BY <1>1, PointTypes
<1>3. D \subseteq Nat /\ D # {}
  BY <1>1, <1>2, LocTypes, SegmentDistance
<1>4. Min(D) \in D /\ \A d \in D : Min(D) <= d
  <2> HIDE DEF D
  <2> QED
    BY <1>3, MinOfNaturals
<1>5. Score(o, l, x) = Min(D)
  BY DEF Score
<1>6. \E loc \in Points(o, l) \cup Points(o, Succ(l)) :
        Score(o, l, x) = StationToLoc(x, loc)
  BY <1>1, <1>2, <1>4, <1>5, SegmentDistance
<1>7. ASSUME NEW loc \in Points(o, l) \cup Points(o, Succ(l))
      PROVE  Score(o, l, x) <= StationToLoc(x, loc)
  <2>1. PICK t \in {l, Succ(l)} : loc \in Points(o, t)
    OBVIOUS
  <2>2. /\ StationToSegment(o, x, t) \in Nat /\ StationToLoc(x, loc) \in Nat
        /\ StationToSegment(o, x, t) <= StationToLoc(x, loc)
    BY <1>1, <1>2, <2>1, SegmentDistance, LocTypes
  <2>3. StationToSegment(o, x, t) \in D
    BY <2>1
  <2>4. Score(o, l, x) <= StationToSegment(o, x, t) /\ Score(o, l, x) \in Nat
    BY <1>3, <1>4, <1>5, <2>3
  <2> QED
    BY <2>2, <2>4
<1> QED
  BY <1>3, <1>4, <1>5, <1>6, <1>7

(* The position under the scan, in a segment that is scanned. *)
LEMMA AtCursor ==
  ASSUME TypeOK, s < N, i <= Len(order[s])
  PROVE  /\ s \in Segments
         /\ i \in 1 .. Len(order[s])
         /\ order[s][i] \in Stations
         /\ ScoreAt(s, i) \in Int
<1>1. s \in Segments /\ N \in Nat
  BY OrderAssumption DEF TypeOK, Segments
<1>2. order[s] \in Seq(Stations) /\ order \in Orders
  BY <1>1, OrderAssumption DEF TypeOK
<1>3. i \in 1 .. Len(order[s]) /\ order[s][i] \in Stations
  BY <1>2 DEF TypeOK
<1>4. ScoreAt(s, i) \in Int
  <2>1. left \in Segments
    BY DEF TypeOK
  <2>2. Score(order, left, order[s][i]) \in Int
    BY <1>2, <1>3, <2>1, ScoreTypes
  <2> QED
    BY <2>2 DEF ScoreAt
<1> QED
  BY <1>1, <1>3, <1>4

(* What the cursor of the scan leaves behind as it moves on: the position  *)
(* it stood on, or the rest of the segment it stood in.                    *)
LEMMA CursorMoves ==
  ASSUME NEW ss \in Nat, NEW ii \in Nat, NEW t \in Nat, NEW k \in Nat \ {0}
  PROVE  /\ Before(t, k, ss, ii + 1) <=> Before(t, k, ss, ii) \/ (t = ss /\ k = ii)
         /\ Before(t, k, ss + 1, 1) <=> Before(t, k, ss, ii) \/ (t = ss /\ k >= ii)
         /\ ~Before(ss, ii, ss, ii)
         /\ Before(t, k, ss, ii) => ~Before(ss, ii, t, k)
BY DEF Before

(* What may be donated, and how near it is, depends on the route alone. *)
LEMMA SameRoute ==
  ASSUME order' = order, left' = left
  PROVE  \A t, k : MayDonate(t, k)' = MayDonate(t, k)
                    /\ ScoreAt(t, k)' = ScoreAt(t, k)
BY DEF MayDonate, ScoreAt, Excluded, RoomIn, CatchOf, Right

LEMMA CursorMovesOn ==
  ASSUME TypeOK, s' = s, i' = i + 1
  PROVE  \A t \in Segments : \A k \in 1 .. Len(order[t]) :
           Behind(t, k)' <=> Behind(t, k) \/ (t = s /\ k = i)
<1> SUFFICES ASSUME NEW t \in Segments, NEW k \in 1 .. Len(order[t])
             PROVE  Behind(t, k)' <=> Behind(t, k) \/ (t = s /\ k = i)
  OBVIOUS
<1>1. s \in Nat /\ i \in Nat /\ t \in Nat /\ k \in Nat \ {0}
  BY OrderAssumption DEF Segments, TypeOK
<1>2. Before(t, k, s, i + 1) <=> Before(t, k, s, i) \/ (t = s /\ k = i)
  BY <1>1, CursorMoves
<1>3. Behind(t, k)' <=> Before(t, k, s, i + 1)
  BY DEF Behind, Before
<1>4. Behind(t, k) <=> Before(t, k, s, i)
  BY DEF Behind
<1> QED
  BY <1>2, <1>3, <1>4

(* The comparisons of the scan are between numbers. *)
LEMMA ComparisonTypes ==
  ASSUME TypeOK, NEW x \in Stations
  PROVE  /\ NearerLeft(x) \in BOOLEAN
         /\ \A t \in Segments : RoomIn(t, x) \in BOOLEAN
<1>1. Right \in Segments /\ left \in Segments /\ order \in Orders
  BY OrderAssumption DEF TypeOK, Right, Succ, Segments
<1>2. \A t \in Segments : RoomIn(t, x) \in BOOLEAN
  <2> SUFFICES ASSUME NEW t \in Segments PROVE RoomIn(t, x) \in BOOLEAN
    OBVIOUS
  <2>1. order[t] \in Seq(Stations)
    BY <1>1, OrderAssumption
  <2>2. ToSet(order[t]) \in SUBSET Stations
    BY <2>1 DEF ToSet
  <2>3. CatchOf(t) \in Nat /\ Catch[{x}] \in Nat
    BY <2>2, OrderAssumption DEF CatchOf
  <2> QED
    BY <2>3, OrderAssumption DEF RoomIn
<1>3. /\ StationToSegment(order, x, left) \in Int
      /\ StationToSegment(order, x, Right) \in Int
  BY <1>1, SegmentDistance
<1>4. (StationToSegment(order, x, left) <= StationToSegment(order, x, Right))
        \in BOOLEAN
  BY <1>3
<1> QED
  BY <1>1, <1>2, <1>4 DEF NearerLeft

LEMMA InitInv == Init => ScanInv
<1> SUFFICES ASSUME Init PROVE ScanInv
  OBVIOUS
<1>1. TypeOK
  BY OrderAssumption DEF Init, TypeOK, NoBest, NoCopies, NoDonor
<1>2. \A t \in Segments : \A k \in 1 .. Len(order[t]) : ~Behind(t, k)
  BY DEF Init, Behind, Before, Segments
<1> QED
  BY <1>1, <1>2 DEF ScanInv, BestSoFar, SideHasRoom, CopiesMade, Init, NoBest

LEMMA TypeStep ==
  ASSUME ScanInv, [Next]_vars
  PROVE  TypeOK'
<1> USE DEF ScanInv
<1>0. N \in Nat /\ s \in 0 .. N /\ i \in Nat \ {0}
  BY OrderAssumption DEF TypeOK
<1>1. CASE NextSegment
  BY <1>0, <1>1 DEF NextSegment, TypeOK
<1>2. CASE PassOver
  BY <1>0, <1>2 DEF PassOver, TypeOK
<1>3. CASE Consider
  <2>1. i <= Len(order[s]) /\ s < N
    BY <1>3 DEF Consider
  <2>2. s \in Segments /\ ScoreAt(s, i) \in Int
    BY <2>1, AtCursor
  <2>3. NearerLeft(order[s][i]) \in BOOLEAN
    BY <2>1, AtCursor, ComparisonTypes
  <2> DEFINE found == [donor |-> s, pos |-> i, score |-> ScoreAt(s, i),
                       nearerLeft |-> NearerLeft(order[s][i])]
  <2>4. found \in [donor : Segments \cup {NoDonor}, pos : Nat, score : Int,
                   nearerLeft : BOOLEAN]
    BY <1>0, <2>2, <2>3
  <2>5. best' = found \/ best' = best
    BY <1>3 DEF Consider, ScoreAt
  <2>6. /\ pc' = pc /\ order' = order /\ left' = left /\ s' = s
        /\ copies' = copies /\ i' = i + 1
    BY <1>3 DEF Consider
  <2> HIDE DEF found
  <2> QED
    BY <1>0, <2>4, <2>5, <2>6 DEF TypeOK
<1>4. CASE EndScan
  BY <1>4 DEF EndScan, TypeOK
<1>5. CASE Copy
  <2>1. pc = "copy" /\ best.donor # NoDonor
    BY <1>5 DEF Copy
  <2>2. best.donor \in Segments /\ best.pos \in 1 .. Len(order[best.donor])
    BY <2>1 DEF BestSoFar, MayDonate
  <2>3. Right \in Segments /\ left \in Segments /\ order \in Orders
    BY OrderAssumption DEF TypeOK, Right, Succ, Segments
  <2>4. \A t \in Segments : order[t] \in Seq(Stations)
    BY <2>3, OrderAssumption
  <2>5. Chosen \in Stations
    BY <2>2, <2>4 DEF Chosen
  <2>6. /\ \A t \in Segments : \A take : WithExtra(t, take) \in Seq(Stations)
        /\ WithoutStation \in Seq(Stations)
    BY <2>2, <2>4, <2>5, CopyTypes DEF WithExtra, WithoutStation
  <2>7. copies' \in [left : Seq(Stations), right : Seq(Stations),
                     donor : Seq(Stations)]
    BY <1>5, <2>3, <2>6 DEF Copy
  <2>8. pc' = "retry" /\ UNCHANGED <<order, left, s, i, best>>
    BY <1>5 DEF Copy
  <2> QED
    BY <2>7, <2>8 DEF TypeOK
<1>6. CASE CopyFails
  BY <1>6 DEF CopyFails, TypeOK
<1>7. CASE UNCHANGED vars
  BY <1>7 DEF vars, TypeOK
<1> QED
  BY <1>1, <1>2, <1>3, <1>4, <1>5, <1>6, <1>7 DEF Next
(* What Consider leaves as the best so far, if it was one before: the      *)
(* position under the scan if it beats the best, else the best it had.     *)
LEMMA ConsiderStep ==
  ASSUME ScanInv, Consider
  PROVE  BestSoFar'
<1>0. /\ s < N /\ ~Excluded(s) /\ i <= Len(order[s])
      /\ RoomIn(left, order[s][i]) \/ RoomIn(Right, order[s][i])
      /\ order' = order /\ left' = left /\ s' = s /\ i' = i + 1
      /\ best' = IF Beats(ScoreAt(s, i))
                   THEN [donor |-> s, pos |-> i, score |-> ScoreAt(s, i),
                         nearerLeft |-> NearerLeft(order[s][i])]
                   ELSE best
  BY DEF Consider, ScoreAt
<1>1. TypeOK /\ BestSoFar
  BY DEF ScanInv
<1>2. s \in Segments /\ i \in 1 .. Len(order[s]) /\ ScoreAt(s, i) \in Int
  BY <1>0, <1>1, AtCursor
<1>3. MayDonate(s, i)
  BY <1>0, <1>2 DEF MayDonate
<1>4. /\ s # NoDonor
      /\ \A t \in Segments : t \in Int /\ t # NoDonor
      /\ \A t \in Segments : \A k \in 1 .. Len(order[t]) :
           Behind(t, k)' <=> Behind(t, k) \/ (t = s /\ k = i)
  <2>1. s # NoDonor /\ \A t \in Segments : t \in Int /\ t # NoDonor
    BY <1>2 DEF Segments, NoDonor
  <2> QED
    BY <1>0, <1>1, <2>1, CursorMovesOn
<1>5. \A t, k : MayDonate(t, k)' = MayDonate(t, k) /\ ScoreAt(t, k)' = ScoreAt(t, k)
  BY <1>0, SameRoute
<1>6. \A t \in Segments : \A k \in 1 .. Len(order[t]) : ScoreAt(t, k) \in Int
  <2> SUFFICES ASSUME NEW t \in Segments, NEW k \in 1 .. Len(order[t])
               PROVE  ScoreAt(t, k) \in Int
    OBVIOUS
  <2>1. order \in Orders /\ left \in Segments /\ order[t] \in Seq(Stations)
    BY <1>1, OrderAssumption DEF TypeOK
  <2> QED
    BY <2>1, ScoreTypes DEF ScoreAt
<1>7. CASE Beats(ScoreAt(s, i))
  <2>1. /\ best'.donor = s /\ best'.pos = i /\ best'.score = ScoreAt(s, i)
    BY <1>0, <1>7
  <2>2. \A t \in Segments : \A k \in 1 .. Len(order[t]) :
          Behind(t, k) /\ MayDonate(t, k) => ScoreAt(s, i) < ScoreAt(t, k)
    <3>1. CASE best.donor = NoDonor
      BY <1>1, <3>1 DEF BestSoFar
    <3>2. CASE best.donor # NoDonor
      <4>1. ScoreAt(s, i) < best.score /\ best.score \in Int
        BY <1>1, <1>7, <3>2 DEF Beats, TypeOK
      <4>2. \A t \in Segments : \A k \in 1 .. Len(order[t]) :
              Behind(t, k) /\ MayDonate(t, k) => best.score <= ScoreAt(t, k)
        BY <1>1, <1>6, <3>2, <4>1 DEF BestSoFar
      <4> QED
        BY <1>2, <1>6, <4>1, <4>2
    <3> QED
      BY <3>1, <3>2
  <2>3. ~Before(s, i, s, i)
    <3>1. s \in Nat /\ i \in Nat
      BY <1>1, <1>2 DEF Segments, TypeOK
    <3> QED
      BY <3>1 DEF Before
  <2> QED
    BY <1>0, <1>2, <1>3, <1>4, <1>5, <2>1, <2>2, <2>3 DEF BestSoFar
<1>8. CASE ~Beats(ScoreAt(s, i))
  <2>1. best' = best /\ best.donor # NoDonor /\ best.score <= ScoreAt(s, i)
    BY <1>0, <1>1, <1>2, <1>8 DEF Beats, TypeOK
  <2>2. /\ MayDonate(best.donor, best.pos) /\ Behind(best.donor, best.pos)
        /\ best.score = ScoreAt(best.donor, best.pos)
        /\ best.donor \in Segments /\ best.pos \in 1 .. Len(order[best.donor])
    BY <1>1, <2>1 DEF BestSoFar, MayDonate
  <2>3. ~Before(s, i, best.donor, best.pos)
    BY <1>1, <1>2, <2>2 DEF Behind, Before, Segments, TypeOK
  <2>4. best.score < ScoreAt(s, i) \/ best.score = ScoreAt(s, i)
    BY <1>2, <1>6, <2>1, <2>2
  <2>5. \A t \in Segments : \A k \in 1 .. Len(order[t]) :
          Behind(t, k) /\ MayDonate(t, k) =>
            \/ best.score < ScoreAt(t, k)
            \/ /\ best.score = ScoreAt(t, k)
               /\ ~Before(t, k, best.donor, best.pos)
    BY <1>1, <2>1 DEF BestSoFar
  <2> QED
    BY <1>0, <1>4, <1>5, <2>1, <2>2, <2>3, <2>4, <2>5 DEF BestSoFar, Before
<1> QED
  BY <1>7, <1>8

LEMMA BestStep ==
  ASSUME ScanInv, [Next]_vars
  PROVE  BestSoFar'
<1>0. TypeOK /\ BestSoFar
  BY DEF ScanInv
<1>1. CASE NextSegment
  <2>1. /\ s < N /\ order' = order /\ left' = left /\ best' = best
        /\ s' = s + 1 /\ i' = 1
        /\ Excluded(s) \/ i > Len(order[s])
    BY <1>1 DEF NextSegment
  <2>2. \A t \in Segments : \A k \in 1 .. Len(order[t]) :
          MayDonate(t, k) => (Behind(t, k)' <=> Behind(t, k))
    <3> SUFFICES ASSUME NEW t \in Segments, NEW k \in 1 .. Len(order[t]),
                        MayDonate(t, k)
                 PROVE  Behind(t, k)' <=> Behind(t, k)
      OBVIOUS
    <3>1. s \in Nat /\ i \in Nat /\ t \in Nat /\ k \in Nat \ {0}
      BY <1>0, OrderAssumption DEF Segments, TypeOK
    <3>2. ~(t = s /\ k >= i)
      BY <2>1, <3>1 DEF MayDonate
    <3>3. Before(t, k, s + 1, 1) <=> Before(t, k, s, i) \/ (t = s /\ k >= i)
      BY <3>1, CursorMoves
    <3>4. Behind(t, k)' <=> Before(t, k, s + 1, 1)
      BY <2>1 DEF Behind, Before
    <3>5. Behind(t, k) <=> Before(t, k, s, i)
      BY DEF Behind
    <3> QED
      BY <3>2, <3>3, <3>4, <3>5
  <2>3. \A t, k : MayDonate(t, k)' = MayDonate(t, k)
                   /\ ScoreAt(t, k)' = ScoreAt(t, k)
    BY <2>1, SameRoute
  <2>4. best.donor # NoDonor => /\ best.donor \in Segments
                                /\ best.pos \in 1 .. Len(order[best.donor])
    BY <1>0 DEF BestSoFar, MayDonate
  <2> QED
    BY <1>0, <2>1, <2>2, <2>3, <2>4 DEF BestSoFar, Before
<1>2. CASE PassOver
  <2>1. /\ s < N /\ order' = order /\ left' = left /\ best' = best
        /\ s' = s /\ i' = i + 1
        /\ ~MayDonate(s, i)
    BY <1>2 DEF PassOver, MayDonate
  <2>2. \A t \in Segments : \A k \in 1 .. Len(order[t]) :
          MayDonate(t, k) => (Behind(t, k)' <=> Behind(t, k))
    <3>1. \A t \in Segments : \A k \in 1 .. Len(order[t]) :
            Behind(t, k)' <=> Behind(t, k) \/ (t = s /\ k = i)
      BY <1>0, <2>1, CursorMovesOn
    <3> QED
      BY <2>1, <3>1
  <2>3. \A t, k : MayDonate(t, k)' = MayDonate(t, k)
                   /\ ScoreAt(t, k)' = ScoreAt(t, k)
    BY <2>1, SameRoute
  <2>4. best.donor # NoDonor => /\ best.donor \in Segments
                                /\ best.pos \in 1 .. Len(order[best.donor])
    BY <1>0 DEF BestSoFar, MayDonate
  <2> QED
    BY <1>0, <2>1, <2>2, <2>3, <2>4 DEF BestSoFar, Before
<1>3. CASE Consider
  BY <1>3, ConsiderStep
<1>4. CASE EndScan \/ Copy \/ CopyFails \/ UNCHANGED vars
  <2>1. UNCHANGED <<order, left, s, i, best>>
    BY <1>4 DEF EndScan, Copy, CopyFails, vars
  <2>2. \A t, k : /\ MayDonate(t, k)' = MayDonate(t, k)
                  /\ ScoreAt(t, k)' = ScoreAt(t, k)
    BY <2>1, SameRoute
  <2> QED
    BY <1>0, <2>1, <2>2 DEF BestSoFar, Behind, Before
<1> QED
  BY <1>1, <1>2, <1>3, <1>4 DEF Next

LEMMA SideStep ==
  ASSUME ScanInv, [Next]_vars
  PROVE  SideHasRoom'
<1>1. CASE Consider
  <2> DEFINE x == order[s][i]
             found == [donor |-> s, pos |-> i, score |-> Score(order, left, x),
                       nearerLeft |-> NearerLeft(x)]
  <2>1. /\ UNCHANGED <<order, left>>
        /\ best' = found \/ best' = best
        /\ RoomIn(left, x) \/ RoomIn(Right, x)
    BY <1>1 DEF Consider
  <2> HIDE DEF found, x
  <2>2. \A t, y : RoomIn(t, y)' = RoomIn(t, y)
    BY <2>1 DEF RoomIn, CatchOf
  <2>3. Right' = Right
    BY <2>1 DEF Right
  <2>4. CASE best' = best
    BY <2>1, <2>2, <2>3, <2>4 DEF ScanInv, SideHasRoom, Chosen
  <2>5. CASE best' = found
    <3>1. Chosen' = x /\ best'.nearerLeft = NearerLeft(x)
      BY <2>1, <2>5 DEF Chosen, found, x
    <3>2. RoomIn(IF NearerLeft(x) THEN left ELSE Right, x)
      BY <2>1 DEF NearerLeft
    <3> QED
      BY <2>1, <2>2, <2>3, <3>1, <3>2 DEF SideHasRoom
  <2> QED
    BY <2>1, <2>4, <2>5
<1>2. CASE ~Consider
  <2>1. UNCHANGED <<order, left, best>>
    BY <1>2 DEF Next, NextSegment, PassOver, EndScan, Copy, CopyFails, vars
  <2> QED
    BY <2>1 DEF ScanInv, SideHasRoom, Chosen, RoomIn, CatchOf, Right
<1> QED
  BY <1>1, <1>2

LEMMA CopiesStep ==
  ASSUME ScanInv, [Next]_vars
  PROVE  CopiesMade'
<1>1. CASE Copy
  BY <1>1 DEF Copy, CopiesMade, WithExtra, WithoutStation, Chosen, Right
<1>2. CASE UNCHANGED vars
  BY <1>2 DEF vars, ScanInv, CopiesMade, WithExtra, WithoutStation, Chosen, Right
<1>3. CASE ~Copy /\ ~UNCHANGED vars
  <2>1. pc' # "retry"
    BY <1>3 DEF Next, NextSegment, PassOver, Consider, EndScan, CopyFails
  <2> QED
    BY <2>1 DEF CopiesMade
<1> QED
  BY <1>1, <1>2, <1>3

LEMMA InvStep ==
  ASSUME ScanInv, [Next]_vars
  PROVE  ScanInv'
<1>1. TypeOK' /\ BestSoFar'
  BY TypeStep, BestStep
<1>2. SideHasRoom' /\ CopiesMade'
  BY SideStep, CopiesStep
<1>3. /\ pc' # "scan" => s' = N
      /\ pc' \in {"copy", "retry"} => best'.donor # NoDonor
  BY DEF ScanInv, Next, NextSegment, PassOver, Consider, EndScan, Copy,
         CopyFails, vars
<1> QED
  BY <1>1, <1>2, <1>3 DEF ScanInv

LEMMA Invariance == Spec => []ScanInv
<1>1. ScanInv /\ [Next]_vars => ScanInv'
  BY InvStep
<1> QED
  BY InitInv, <1>1, PTL DEF Spec

-----------------------------------------------------------------------------
(* Every variable of the scan keeps its type. *)
THEOREM ScanTypes == Spec => []TypeOK
<1>1. ScanInv => TypeOK
  BY DEF ScanInv
<1> QED
  BY Invariance, <1>1, PTL

(* The scan ends with the first of the nearest stations that may be        *)
(* donated, and with none only if there is none.                           *)
THEOREM ScanFindsNearest == Spec => []ChoiceIsNearest
<1>1. ASSUME ScanInv PROVE ChoiceIsNearest
  <2> SUFFICES ASSUME pc # "scan" PROVE ChoiceIsNearest
    BY DEF ChoiceIsNearest
  <2>1. \A t \in Segments : \A k \in 1 .. Len(order[t]) : Behind(t, k)
    BY <1>1, OrderAssumption DEF ScanInv, Behind, Before, Segments
  <2> QED
    BY <1>1, <2>1 DEF ScanInv, BestSoFar, ChoiceIsNearest
<1>2. ScanInv => ChoiceIsNearest
  BY <1>1
<1> QED
  BY Invariance, <1>2, PTL

(* Taking the element at a position out and putting it back there.         *)
LEMMA PutBack ==
  ASSUME NEW q \in Seq(Stations), NEW k \in 1 .. Len(q)
  PROVE  /\ q = InsertAt(RemoveAt(q, k), k, q[k])
         /\ Len(RemoveAt(q, k)) = Len(q) - 1
         /\ \A j \in 1 .. Len(q) - 1 :
              RemoveAt(q, k)[j] = IF j < k THEN q[j] ELSE q[j + 1]
<1> DEFINE a == SubSeq(q, 1, k - 1)
           b == SubSeq(q, k + 1, Len(q))
           r == a \o b
<1>1. /\ a \in Seq(Stations) /\ b \in Seq(Stations)
      /\ Len(a) = k - 1 /\ Len(b) = Len(q) - k
      /\ \A j \in 1 .. k - 1 : a[j] = q[j]
      /\ \A j \in 1 .. Len(q) - k : b[j] = q[k + j]
  OBVIOUS
<1>2. /\ r \in Seq(Stations) /\ Len(r) = Len(q) - 1
      /\ \A j \in 1 .. Len(q) - 1 : r[j] = IF j < k THEN q[j] ELSE q[j + 1]
  <2> HIDE DEF a, b
  <2>1. /\ r \in Seq(Stations) /\ Len(r) = Len(a) + Len(b)
        /\ \A j \in 1 .. Len(a) + Len(b) :
             r[j] = IF j <= Len(a) THEN a[j] ELSE b[j - Len(a)]
    BY <1>1, ConcatProperties
  <2>2. Len(q) \in Nat /\ k \in Nat /\ 1 <= k /\ k <= Len(q)
    BY LenProperties
  <2>3. Len(a) + Len(b) = Len(q) - 1
    BY <1>1, <2>2
  <2> HIDE DEF r
  <2>4. ASSUME NEW j \in 1 .. Len(q) - 1
        PROVE  r[j] = IF j < k THEN q[j] ELSE q[j + 1]
    <3>1. j <= Len(a) <=> j < k
      BY <1>1, <2>2
    <3>2. CASE j < k
      <4>1. j \in 1 .. k - 1 /\ j \in 1 .. Len(a) + Len(b)
        BY <2>2, <2>3, <3>2
      <4>2. r[j] = a[j]
        BY <2>1, <3>1, <3>2, <4>1
      <4> QED
        BY <1>1, <3>2, <4>1, <4>2
    <3>3. CASE ~(j < k)
      <4>1. j - Len(a) \in 1 .. Len(q) - k /\ k + (j - Len(a)) = j + 1
        BY <1>1, <2>2, <3>3
      <4> QED
        BY <1>1, <2>1, <2>3, <3>1, <3>3, <4>1
    <3> QED
      BY <3>2, <3>3
  <2> QED
    BY <2>1, <2>3, <2>4
<1>3. RemoveAt(q, k) = r
  BY DEF RemoveAt
<1> HIDE DEF r
<1> DEFINE c == SubSeq(r, 1, k - 1)
           d == SubSeq(r, k, Len(r))
           p == c \o <<q[k]>> \o d
<1>4. /\ c \in Seq(Stations) /\ d \in Seq(Stations)
      /\ Len(c) = k - 1 /\ Len(d) = Len(q) - k
      /\ \A j \in 1 .. k - 1 : c[j] = q[j]
      /\ \A j \in 1 .. Len(q) - k : d[j] = q[k + j]
  <2>1. /\ c \in Seq(Stations) /\ d \in Seq(Stations)
        /\ Len(c) = k - 1 /\ Len(d) = Len(q) - k
        /\ \A j \in 1 .. k - 1 : c[j] = r[j]
        /\ \A j \in 1 .. Len(q) - k : d[j] = r[k - 1 + j]
    BY <1>2
  <2> HIDE DEF c, d
  <2>2. \A j \in 1 .. k - 1 : r[j] = q[j]
    BY <1>2
  <2>3. ASSUME NEW j \in 1 .. Len(q) - k PROVE r[k - 1 + j] = q[k + j]
    <3>1. k - 1 + j \in 1 .. Len(q) - 1 /\ ~(k - 1 + j < k)
          /\ (k - 1 + j) + 1 = k + j
      BY LenProperties
    <3> QED
      BY <1>2, <3>1
  <2> QED
    BY <2>1, <2>2, <2>3
<1>5. p \in Seq(Stations) /\ Len(p) = Len(q) /\ \A j \in 1 .. Len(q) : p[j] = q[j]
  <2> HIDE DEF c, d
  <2>1. q[k] \in Stations
    OBVIOUS
  <2>0. Len(q) \in Nat /\ k \in Nat /\ 1 <= k /\ k <= Len(q)
    BY LenProperties
  <2> DEFINE m == <<q[k]>>
             e == c \o m
  <2>2. m \in Seq(Stations) /\ Len(m) = 1 /\ m[1] = q[k]
    BY <2>1
  <2>3. /\ e \in Seq(Stations) /\ Len(e) = k /\ \A j \in 1 .. k : e[j] = q[j]
    <3> HIDE DEF m
    <3>1. /\ e \in Seq(Stations) /\ Len(e) = Len(c) + Len(m)
          /\ \A j \in 1 .. Len(c) + Len(m) :
               e[j] = IF j <= Len(c) THEN c[j] ELSE m[j - Len(c)]
      BY <1>4, <2>2, ConcatProperties
    <3> HIDE DEF e
    <3>2. ASSUME NEW j \in 1 .. k PROVE e[j] = q[j]
      <4>1. CASE j < k
        <5>1. j <= Len(c) /\ j \in 1 .. k - 1 /\ j \in 1 .. Len(c) + Len(m)
          BY <1>4, <2>0, <2>2, <4>1
        <5> QED
          BY <1>4, <3>1, <5>1
      <4>2. CASE j = k
        <5>1. ~(j <= Len(c)) /\ j - Len(c) = 1 /\ j \in 1 .. Len(c) + Len(m)
          BY <1>4, <2>0, <2>2, <4>2
        <5> QED
          BY <2>2, <3>1, <4>2, <5>1
      <4> QED
        BY <2>0, <4>1, <4>2
    <3> QED
      BY <1>4, <2>0, <2>2, <3>1, <3>2
  <2>4. p = e \o d
    OBVIOUS
  <2> HIDE DEF e, m, p
  <2>5. /\ p \in Seq(Stations) /\ Len(p) = Len(e) + Len(d)
        /\ \A j \in 1 .. Len(e) + Len(d) :
             p[j] = IF j <= Len(e) THEN e[j] ELSE d[j - Len(e)]
    <3>1. e \in Seq(Stations) /\ d \in Seq(Stations)
      BY <1>4, <2>3
    <3>2. /\ e \o d \in Seq(Stations) /\ Len(e \o d) = Len(e) + Len(d)
          /\ \A j \in 1 .. Len(e) + Len(d) :
               (e \o d)[j] = IF j <= Len(e) THEN e[j] ELSE d[j - Len(e)]
      BY ONLY <3>1, ConcatProperties
    <3> QED
      BY <2>4, <3>2
  <2>6. ASSUME NEW j \in 1 .. Len(q) PROVE p[j] = q[j]
    <3>1. CASE j <= k
      BY <1>4, <2>0, <2>3, <2>5, <3>1
    <3>2. CASE ~(j <= k)
      <4>1. /\ j - Len(e) \in 1 .. Len(q) - k /\ k + (j - Len(e)) = j
            /\ ~(j <= Len(e)) /\ j \in 1 .. Len(e) + Len(d)
        BY <1>4, <2>0, <2>3, <3>2
      <4> QED
        BY <1>4, <2>5, <4>1
    <3> QED
      BY <3>1, <3>2
  <2> QED
    BY <1>4, <2>0, <2>3, <2>5, <2>6
<1>6. p = q
  <2> HIDE DEF p
  <2> QED
    BY <1>5, SeqEqual
<1> QED
  BY <1>2, <1>3, <1>6 DEF InsertAt

(* What is on a side after the station is added to it.                     *)
LEMMA AddedCatch ==
  ASSUME TypeOK, NEW t \in Segments, NEW u \in Segments, t # u,
         NEW k \in 1 .. Len(order[u])
  PROVE  Catch[ToSet(Append(order[t], order[u][k]))]
           = CatchOf(t) + Catch[{order[u][k]}]
<1> DEFINE x == order[u][k]
           q == order[t]
<1>1. q \in Seq(Stations) /\ order[u] \in Seq(Stations) /\ order \in Orders
  BY OrderAssumption DEF TypeOK
<1>2. x \in Stations /\ x \notin ToSet(q) /\ ToSet(q) \subseteq Stations
  BY <1>1, OnceAssumption DEF ToSet
<1>3. ToSet(Append(q, x)) = ToSet(q) \cup {x}
  <2>1. /\ DOMAIN Append(q, x) = 1 .. Len(q) + 1 /\ DOMAIN q = 1 .. Len(q)
        /\ Len(q) \in Nat
        /\ \A j \in 1 .. Len(q) + 1 :
             Append(q, x)[j] = IF j <= Len(q) THEN q[j] ELSE x
    BY <1>1, <1>2
  <2> QED
    BY <2>1 DEF ToSet
<1> QED
  BY <1>2, <1>3, CatchAssumption DEF CatchOf

LEMMA SoundCopies == ScanInv => CopiesSound
<1> SUFFICES ASSUME ScanInv, pc = "retry" PROVE CopiesSound
  BY DEF CopiesSound
<1> DEFINE q == order[best.donor]
           k == best.pos
<1>1. TypeOK /\ MayDonate(best.donor, k) /\ best.donor # NoDonor
  BY DEF ScanInv, BestSoFar
<1>2. /\ best.donor \in Segments /\ k \in 1 .. Len(q) /\ Len(q) > 1
      /\ best.donor # left /\ best.donor # Right
  BY <1>1, OrderAssumption DEF MayDonate, Excluded, TypeOK
<1>3. left \in Segments /\ Right \in Segments /\ left # Right
  BY OrderAssumption, <1>1 DEF TypeOK, Right, Succ, Segments
<1>4. q \in Seq(Stations) /\ order \in Orders
  BY <1>1, <1>2, OrderAssumption DEF TypeOK
<1>5. copies = [left |-> WithExtra(left, best.nearerLeft),
                right |-> WithExtra(Right, ~best.nearerLeft),
                donor |-> RemoveAt(q, k)]
  BY DEF ScanInv, CopiesMade, WithoutStation
<1>6. /\ q = InsertAt(copies.donor, k, Chosen) /\ copies.donor # <<>>
      /\ DOMAIN copies.donor = 1 .. Len(q) - 1
      /\ \A j \in 1 .. Len(q) - 1 :
           copies.donor[j] = IF j < k THEN q[j] ELSE q[j + 1]
  <2>1. copies.donor = RemoveAt(q, k) /\ Chosen = q[k]
    BY <1>5 DEF Chosen
  <2>2. copies.donor \in Seq(Stations)
    BY <1>1 DEF TypeOK
  <2> HIDE DEF q, k
  <2>3. /\ q = InsertAt(RemoveAt(q, k), k, q[k])
        /\ Len(RemoveAt(q, k)) = Len(q) - 1
        /\ \A j \in 1 .. Len(q) - 1 :
             RemoveAt(q, k)[j] = IF j < k THEN q[j] ELSE q[j + 1]
    BY <1>2, <1>4, PutBack
  <2> DEFINE r == RemoveAt(q, k)
  <2> HIDE DEF r
  <2>4. /\ r \in Seq(Stations) /\ Len(r) = Len(q) - 1 /\ Len(q) \in Nat
    BY <1>4, <2>1, <2>2, <2>3 DEF r
  <2>5. DOMAIN r = 1 .. Len(q) - 1 /\ r # <<>>
    BY <1>2, <2>4
  <2> QED
    BY <2>1, <2>3, <2>5 DEF r
<1>7. Chosen \notin ToSet(copies.donor)
  <2>1. \A j \in 1 .. Len(q) : q[j] = q[k] => j = k
    BY <1>2, <1>4, OnceAssumption
  <2>2. ASSUME NEW j \in 1 .. Len(q) - 1, copies.donor[j] = q[k] PROVE FALSE
    <3>1. j < k => q[j] = q[k]
      BY <1>6, <2>2
    <3>2. j >= k => q[j + 1] = q[k]
      BY <1>2, <1>6, <2>2
    <3> QED
      BY <1>2, <2>1, <3>1, <3>2
  <2> QED
    BY <1>6, <2>2 DEF ToSet, Chosen
<1>8. \A t \in {left, Right} :
        RoomIn(t, Chosen) => Catch[ToSet(Append(order[t], Chosen))] <= Capacity
  <2> SUFFICES ASSUME NEW t \in {left, Right}, RoomIn(t, Chosen)
               PROVE  Catch[ToSet(Append(order[t], Chosen))] <= Capacity
    OBVIOUS
  <2>1. t \in Segments /\ t # best.donor /\ Chosen = order[best.donor][best.pos]
    BY <1>2, <1>3 DEF Chosen
  <2>2. Catch[ToSet(Append(order[t], Chosen))] = CatchOf(t) + Catch[{Chosen}]
    BY <1>1, <1>2, <2>1, AddedCatch
  <2> QED
    BY <2>2 DEF RoomIn
<1>9. RoomIn(IF best.nearerLeft THEN left ELSE Right, Chosen)
  BY <1>1 DEF ScanInv, SideHasRoom
<1>10. CASE best.nearerLeft
  BY <1>2, <1>5, <1>6, <1>7, <1>8, <1>9, <1>10 DEF CopiesSound, WithExtra
<1>11. CASE ~best.nearerLeft
  BY <1>2, <1>5, <1>6, <1>7, <1>8, <1>9, <1>11 DEF CopiesSound, WithExtra
<1> QED
  BY <1>10, <1>11

(* The copies to retry a boundary with hold the stations of the three      *)
(* segments, each once: the donor lacks the chosen one and nothing else,   *)
(* and the side that has it in addition has room for it.                   *)
THEOREM CopiesAlwaysSound == Spec => []CopiesSound
<1>1. ScanInv => CopiesSound
  BY SoundCopies
<1> QED
  BY Invariance, <1>1, PTL

-----------------------------------------------------------------------------
(* No station has an end where a side has a point that is not its own: a   *)
(* distance of zero counts as missing.                                     *)
Apart ==
  \A o \in Orders, l \in Segments, x \in Stations :
    x \notin ToSet(o[l]) \cup ToSet(o[Succ(l)]) =>
      \A loc \in Points(o, l) \cup Points(o, Succ(l)) :
        Miles[<<Start[x], loc>>] > 0 /\ Miles[<<End[x], loc>>] > 0

LEMMA ScoreIsNearness ==
  ASSUME Apart, TypeOK, NEW x \in Stations,
         x \notin ToSet(order[left]) \cup ToSet(order[Right])
  PROVE  Nearness(x) = Score(order, left, x) /\ Nearness(x) \in Nat
<1> DEFINE P == Points(order, left) \cup Points(order, Right)
           D == {Miles[<<e, loc>>] : e \in {Start[x], End[x]}, loc \in P}
           from(loc) == Miles[<<Start[x], loc>>]
           to(loc) == Miles[<<End[x], loc>>]
<1>1. order \in Orders /\ left \in Segments /\ Right = Succ(left) /\ Right \in Segments
  BY OrderAssumption DEF TypeOK, Right, Succ, Segments
<1>2. P \subseteq Locations /\ P # {}
  BY <1>1, PointTypes
<1>3. \A loc \in P : from(loc) > 0 /\ to(loc) > 0
  BY <1>1 DEF Apart
<1>4. \A loc \in P : /\ from(loc) \in Nat /\ to(loc) \in Nat
                      /\ StationToLoc(x, loc) \in Nat
  BY <1>2, LocTypes
<1>5. /\ Score(order, left, x) \in Nat
      /\ \E loc \in P : Score(order, left, x) = StationToLoc(x, loc)
      /\ \A loc \in P : Score(order, left, x) <= StationToLoc(x, loc)
  BY <1>1, ScoreTypes
<1>6. Nearness(x) = Min(D)
  BY DEF Nearness
<1> HIDE DEF P
<1>7. \A d : d \in D <=> \E loc \in P : d = from(loc) \/ d = to(loc)
  <2>1. \A d : d \in D <=> \E e \in {Start[x], End[x]} : \E loc \in P :
                              d = Miles[<<e, loc>>]
    OBVIOUS
  <2> HIDE DEF D
  <2> QED
    BY <2>1
<1>8. ASSUME NEW loc \in P
      PROVE  /\ StationToLoc(x, loc) \in {from(loc), to(loc)}
             /\ StationToLoc(x, loc) <= from(loc) /\ StationToLoc(x, loc) <= to(loc)
  <2> DEFINE d1 == from(loc)
             d2 == to(loc)
  <2>1. {d1, d2} \subseteq Nat /\ {d1, d2} # {} /\ d1 > 0 /\ d2 > 0
    BY <1>3, <1>4
  <2>2. StationToLoc(x, loc) = Min({d1, d2})
    BY <2>1 DEF StationToLoc
  <2> HIDE DEF d1, d2
  <2>3. Min({d1, d2}) \in {d1, d2} /\ \A d \in {d1, d2} : Min({d1, d2}) <= d
    BY <2>1, MinOfNaturals
  <2>4. StationToLoc(x, loc) \in {d1, d2} /\ StationToLoc(x, loc) <= d1
        /\ StationToLoc(x, loc) <= d2
    BY <2>2, <2>3
  <2> QED
    BY <2>4 DEF d1, d2
<1> HIDE DEF D, from, to
<1>9. D \subseteq Nat /\ D # {}
  BY <1>2, <1>4, <1>7
<1>10. Min(D) \in D /\ \A d \in D : Min(D) <= d
  BY <1>9, MinOfNaturals
<1>11. Min(D) <= Score(order, left, x)
  BY <1>5, <1>7, <1>8, <1>10
<1>12. Score(order, left, x) <= Min(D)
  <2>1. PICK loc \in P : Min(D) \in {from(loc), to(loc)}
    BY <1>7, <1>10
  <2>2. StationToLoc(x, loc) <= Min(D) /\ StationToLoc(x, loc) \in Nat
        /\ Score(order, left, x) <= StationToLoc(x, loc)
    BY <1>4, <1>5, <1>8, <2>1
  <2>3. Min(D) \in Nat
    BY <1>9, <1>10
  <2> QED
    BY <1>5, <2>2, <2>3
<1>13. Min(D) \in Nat
  BY <1>9, <1>10
<1> QED
  BY <1>5, <1>6, <1>11, <1>12, <1>13

(* Where all points are apart, the station chosen is the one that the      *)
(* document describes: none that may be donated is nearer, whichever ends  *)
(* of tows and docks are compared.                                         *)
THEOREM ChoiceAsDocumented ==
  ASSUME Apart
  PROVE  Spec => []NearestAsDocumented
<1>1. ScanInv => NearestAsDocumented
  <2> SUFFICES ASSUME ScanInv, pc = "retry",
                      NEW t \in Segments, NEW k \in 1 .. Len(order[t]), MayDonate(t, k)
               PROVE  Nearness(Chosen) <= Nearness(order[t][k])
    BY DEF NearestAsDocumented
  <2>1. TypeOK /\ best.donor # NoDonor /\ s = N
    BY DEF ScanInv
  <2>2. Behind(t, k)
    BY <2>1, OrderAssumption DEF Behind, Before, Segments
  <2>3. /\ MayDonate(best.donor, best.pos)
        /\ best.score = ScoreAt(best.donor, best.pos)
        /\ best.score < ScoreAt(t, k) \/ best.score = ScoreAt(t, k)
    BY <2>1, <2>2 DEF ScanInv, BestSoFar
  <2>4. ASSUME NEW u, NEW j, MayDonate(u, j)
        PROVE  /\ ScoreAt(u, j) = Nearness(order[u][j])
               /\ ScoreAt(u, j) \in Nat
    <3>1. /\ u \in Segments /\ j \in 1 .. Len(order[u])
          /\ u # left /\ u # Right
      BY <2>4 DEF MayDonate, Excluded
    <3>2. order \in Orders /\ left \in Segments /\ Right \in Segments
      BY <2>1, OrderAssumption DEF TypeOK, Right, Succ, Segments
    <3>3. order[u] \in Seq(Stations) /\ order[left] \in Seq(Stations)
          /\ order[Right] \in Seq(Stations)
      BY <3>1, <3>2, OrderAssumption
    <3>4. order[u][j] \in Stations
      BY <3>1, <3>3
    <3>5. order[u][j] \notin ToSet(order[left]) \cup ToSet(order[Right])
      BY <3>1, <3>2, <3>3, OnceAssumption DEF ToSet
    <3> QED
      BY <2>1, <3>4, <3>5, ScoreIsNearness DEF ScoreAt
  <2> QED
    BY <2>3, <2>4 DEF Chosen
<1> QED
  BY Invariance, <1>1, PTL
=============================================================================
