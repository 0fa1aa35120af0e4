---------------------------- MODULE SweepProofs ----------------------------
(***************************************************************************)
(* Proofs about the boundary sweep, for any number of segments, any        *)
(* stations and catches, any tour lengths and any limits: types and route, *)
(* the refinement of the local search, what a quiet sweep and the report   *)
(* say, what an attempt may cost, and the sums of the report.              *)
(***************************************************************************)
EXTENDS Sweep, Sums, SequenceTheorems, FiniteSetTheorems, TLAPS

-----------------------------------------------------------------------------
(* Facts about the constants and the operators of the sweep. *)

(* The neighbours of a segment are segments. *)
LEMMA Neighbours ==
  ASSUME NEW i \in Segments
  PROVE  /\ Succ(i) \in Segments /\ Pred(i) \in Segments
         /\ Succ(i) # i /\ Pred(i) # i
         /\ Pred(Succ(i)) = i /\ Succ(Pred(i)) = i
BY RouteAssumption DEF Succ, Pred, Segments

(* A tour reported by a solver has a length. *)
LEMMA TourLengthType ==
  ASSUME NEW i \in Segments, NEW S \in SUBSET Stations,
         NEW d \in TourLengths[<<i, S>>]
  PROVE  d \in Nat
<1>1. <<i, S>> \in Segments \X SUBSET Stations
  OBVIOUS
<1>2. TourLengths[<<i, S>>] \in SUBSET Nat
  BY <1>1, LengthAssumption
<1> QED
  BY <1>2

(* The time a solve may take is a number, and never negative for limits    *)
(* that are not exceeded.                                                  *)
LEMMA BudgetType ==
  ASSUME startedAt \in Nat, NEW limit \in Nat
  PROVE  Budget(limit) \in Int
BY ConfigAssumption DEF Budget

(* Time only moves forward. *)
LEMMA ElapsesType ==
  ASSUME NEW most \in Int, clock \in Nat, Elapses(most)
  PROVE  clock' \in Nat /\ clock' >= clock
BY DEF Elapses

-----------------------------------------------------------------------------
(* Type correctness. *)

LEMMA InitTypeOK == Init => TypeOK
<1> SUFFICES ASSUME Init PROVE TypeOK
  OBVIOUS
<1>1. stations \in [Segments -> SUBSET Stations]
  BY RouteAssumption DEF Init
<1>2. load \in [Segments -> Nat]
  BY <1>1, CatchAssumption DEF Init
<1>3. dist \in [Segments -> Nat]
  <2>1. \A i \in Segments : dist[i] \in Nat
    <3> TAKE i \in Segments
    <3>1. dist[i] \in TourLengths[<<i, stations[i]>>]
      BY DEF Init
    <3> QED
      BY <1>1, <3>1, TourLengthType
  <2>2. dist = [i \in Segments |-> dist[i]]
    BY DEF Init
  <2> QED
    BY <2>1, <2>2
<1>4. EmptyTally \in Counter
  BY DEF EmptyTally, Counter
<1>5. cand \in Candidate
  BY DEF Init, Candidate, EmptyCand
<1>6. clock \in Nat /\ startedAt \in Nat /\ passIndex \in Nat
  BY ConfigAssumption DEF Init
<1>7. snaps \in Seq(PassRecord)
  <2>1. Feasible \in BOOLEAN
    BY DEF Feasible, WithinCapacity, NoStationTwice
  <2>2. Snapshot(0, EmptyTally) \in PassRecord
    BY <1>3, <1>4, <2>1 DEF Snapshot, PassRecord
  <2> QED
    BY <2>2 DEF Init
<1>8. b \in 0 .. N /\ pc = "pass"
  BY RouteAssumption DEF Init
<1>9. totals \in RunCounter
  BY DEF Init, EmptyTotals, RunCounter
<1>10. file \in [status : {"none", "running", "complete"}, passes : Nat]
  BY ConfigAssumption DEF Init
<1> QED
  BY <1>1, <1>2, <1>3, <1>4, <1>5, <1>6, <1>7, <1>8, <1>9, <1>10
     DEF Init, TypeOK

(* Counting keeps the counters of a pass well typed. *)
LEMMA CountAttempt ==
  ASSUME NEW t \in Counter
  PROVE  [t EXCEPT !.attempts = @ + 1] \in Counter
BY DEF Counter

LEMMA CountFailure ==
  ASSUME NEW t \in Counter
  PROVE  [t EXCEPT !.solves = @ + 1] \in Counter
BY DEF Counter

LEMMA CountSolve ==
  ASSUME NEW t \in Counter, NEW m \in Nat, NEW n \in Nat
  PROVE  [t EXCEPT !.solves = @ + 1, !.splits = @ + m, !.tsps = @ + n]
           \in Counter
<1> DEFINE u == [t EXCEPT !.solves = @ + 1]
           v == [u EXCEPT !.splits = @ + m]
           w == [v EXCEPT !.tsps = @ + n]
<1>1. w = [t EXCEPT !.solves = @ + 1, !.splits = @ + m, !.tsps = @ + n]
  OBVIOUS
<1>2. u \in Counter
  BY DEF Counter
<1> HIDE DEF u
<1>3. v \in Counter
  BY <1>2 DEF Counter
<1> HIDE DEF v
<1>4. w \in Counter
  BY <1>3 DEF Counter
<1> QED
  BY <1>1, <1>4

LEMMA CountGain ==
  ASSUME NEW t \in Counter, NEW m \in Nat, NEW i \in Segments, NEW g \in Int
  PROVE  [t EXCEPT !.changed = TRUE, !.changes = @ + 1, !.fallbacks = @ + m,
                   !.gain = [@ EXCEPT ![i] = g]] \in Counter
<1> DEFINE u == [t EXCEPT !.changed = TRUE]
           v == [u EXCEPT !.changes = @ + 1]
           w == [v EXCEPT !.fallbacks = @ + m]
           x == [w EXCEPT !.gain = [@ EXCEPT ![i] = g]]
<1>1. x = [t EXCEPT !.changed = TRUE, !.changes = @ + 1, !.fallbacks = @ + m,
                    !.gain = [@ EXCEPT ![i] = g]]
  OBVIOUS
<1>2. u \in Counter
  BY DEF Counter
<1> HIDE DEF u
<1>3. v \in Counter
  BY <1>2 DEF Counter
<1> HIDE DEF v
<1>4. w \in Counter
  BY <1>3 DEF Counter
<1> HIDE DEF w
<1>5. x \in Counter
  BY <1>4 DEF Counter
<1> QED
  BY <1>1, <1>5

LEMMA CountTotals ==
  ASSUME NEW t \in RunCounter, NEW m \in Nat
  PROVE  /\ [t EXCEPT !.attempts = @ + 1] \in RunCounter
         /\ [t EXCEPT !.solves = @ + m] \in RunCounter
         /\ [t EXCEPT !.changes = @ + 1, !.fallbacks = @ + m] \in RunCounter
<1>1. [t EXCEPT !.attempts = @ + 1] \in RunCounter
  BY DEF RunCounter
<1>2. [t EXCEPT !.solves = @ + m] \in RunCounter
  BY DEF RunCounter
<1>3. [t EXCEPT !.changes = @ + 1, !.fallbacks = @ + m] \in RunCounter
  <2> DEFINE u == [t EXCEPT !.changes = @ + 1]
             v == [u EXCEPT !.fallbacks = @ + m]
  <2>1. v = [t EXCEPT !.changes = @ + 1, !.fallbacks = @ + m]
    OBVIOUS
  <2>2. u \in RunCounter
    BY DEF RunCounter
  <2> HIDE DEF u
  <2>3. v \in RunCounter
    BY <2>2 DEF RunCounter
  <2> QED
    BY <2>1, <2>3
<1> QED
  BY <1>1, <1>2, <1>3

LEMMA CountedType ==
  ASSUME tally \in Counter, NEW kind, Counted(kind)
  PROVE  tally' \in Counter
<1> DEFINE m == IF kind = "split" THEN 1 ELSE 0
           n == IF kind = "tsp" THEN 1 ELSE 0
<1>1. m \in Nat /\ n \in Nat
  OBVIOUS
<1>2. tally' = [tally EXCEPT !.solves = @ + 1, !.splits = @ + m,
                             !.tsps = @ + n]
  BY DEF Counted
<1> HIDE DEF m, n
<1> QED
  BY <1>1, <1>2, CountSolve

(* Leaving a boundary clears the candidate and moves the cursor on. *)
LEMMA EmptyCandType == EmptyCand \in Candidate
BY DEF EmptyCand, Candidate

LEMMA NextBoundaryType ==
  ASSUME NextBoundary, b \in Segments
  PROVE  /\ pc' = "boundary" /\ b' \in 0 .. N
         /\ cand' \in Candidate /\ startedAt' \in Nat
BY RouteAssumption, EmptyCandType DEF NextBoundary, Segments

LEMMA GiveUpType ==
  ASSUME GiveUp, b \in Segments, cand \in Candidate, startedAt \in Nat
  PROVE  /\ pc' \in {"fallback", "boundary"} /\ b' \in 0 .. N
         /\ pc' = "fallback" => b' \in Segments
         /\ cand' \in Candidate /\ startedAt' \in Nat
BY RouteAssumption, NextBoundaryType DEF GiveUp, Segments

(* While an attempt is in progress the candidate is sound: a donor touches *)
(* neither side and keeps a station, and a split deals out exactly the     *)
(* stations of both sides and the one moved.  The inductive part of the    *)
(* invariants below.                                                       *)
Attempting == pc \in {"split", "left", "right", "fallback", "donor", "decide"}

DonorSound ==
  IF cand.donor = NoDonor
    THEN cand.moved = {}
    ELSE /\ cand.donor \notin {L, R}
         /\ \E x \in stations[cand.donor] : cand.moved = {x}
         /\ Remaining # {}

SplitSound == SplitFits(cand.left) /\ cand.right = Pool \ cand.left
              /\ cand.left \subseteq Pool

CandidateSound ==
  /\ ~Attempting => cand = EmptyCand
  /\ DonorSound
  /\ pc = "fallback" => cand.donor = NoDonor
  /\ pc = "donor" => cand.donor # NoDonor
  /\ pc \in {"left", "right", "donor", "decide"} => SplitSound

(* An accepted candidate gives the segments stations, loads and lengths.   *)
LEMMA AcceptRouteType ==
  ASSUME TypeOK, CandidateSound, Accept
  PROVE  /\ stations' \in [Segments -> SUBSET Stations]
         /\ load' \in [Segments -> Nat]
         /\ dist' \in [Segments -> Nat]
<1>1. /\ stations \in [Segments -> SUBSET Stations]
      /\ load \in [Segments -> Nat] /\ dist \in [Segments -> Nat]
      /\ cand.left \in SUBSET Stations /\ cand.right \in SUBSET Stations
      /\ cand.leftDist \in Nat /\ cand.rightDist \in Nat
      /\ cand.donorDist \in Nat
      /\ cand.donor \in Segments \cup {NoDonor}
  BY DEF TypeOK, Candidate
<1>2. /\ Catch[cand.left] \in Nat /\ Catch[cand.right] \in Nat
      /\ cand.donor # NoDonor => /\ Remaining \in SUBSET Stations
                                 /\ Catch[Remaining] \in Nat
  BY <1>1, CatchAssumption DEF Remaining
<1>3. CASE ReplaceSides
  BY <1>1, <1>2, <1>3 DEF ReplaceSides, Sides
<1>4. CASE cand.donor # NoDonor /\ ReplaceSidesAndDonor
  <2>1. /\ Sides(stations, cand.left, cand.right)
             \in [Segments -> SUBSET Stations]
        /\ Sides(load, Catch[cand.left], Catch[cand.right])
             \in [Segments -> Nat]
        /\ Sides(dist, cand.leftDist, cand.rightDist) \in [Segments -> Nat]
    BY <1>1, <1>2 DEF Sides
  <2> QED
    BY <1>1, <1>2, <1>4, <2>1 DEF ReplaceSidesAndDonor
<1> QED
  BY <1>3, <1>4 DEF Accept

LEMMA NextTypeOK == TypeOK /\ CandidateSound /\ [Next]_vars => TypeOK'
<1> SUFFICES ASSUME TypeOK, CandidateSound, [Next]_vars PROVE TypeOK'
  OBVIOUS
<1>0. /\ N \in Nat /\ N >= 2
      /\ Overhead \in Nat /\ L1Limit \in Nat /\ L2Limit \in Nat
      /\ clock \in Nat /\ startedAt \in Nat
      /\ tally \in Counter /\ totals \in RunCounter
  BY RouteAssumption, ConfigAssumption DEF TypeOK
<1>1. CASE StartPass
  <2>1. clock' \in Nat
    BY <1>0, <1>1, ElapsesType DEF StartPass
  <2>2. EmptyTally \in Counter
    BY DEF EmptyTally, Counter
  <2> QED
    BY <1>0, <1>1, <2>1, <2>2 DEF StartPass, ResetTally, TypeOK, route
<1>2. CASE StopSweep
  BY <1>2 DEF StopSweep, TypeOK, route
<1>3. CASE SkipInactive
  BY <1>0, <1>3 DEF SkipInactive, TypeOK, route
<1>4. CASE Attempt
  <2>1. b \in Segments
    BY <1>0, <1>4 DEF Attempt, TypeOK, Segments
  <2>2. tally' \in Counter
    BY <1>0, <1>4, CountAttempt DEF Attempt
  <2>3. active' \in [Segments -> BOOLEAN]
    BY <1>4, <2>1 DEF Attempt, Deactivate, TypeOK
  <2>4. totals' \in RunCounter
    BY <1>0, <1>4, CountTotals DEF Attempt
  <2> QED
    BY <1>0, <1>4, <2>1, <2>2, <2>3, <2>4 DEF Attempt, TypeOK, route
<1>5. CASE SolveSplit
  <2>1. clock' \in Nat
    BY <1>0, <1>5, ElapsesType, BudgetType DEF SolveSplit
  <2>2. tally' \in Counter
    BY <1>0, <1>5, CountedType DEF SolveSplit
  <2>3. Pool \subseteq Stations
    BY <1>5, Neighbours DEF SolveSplit, Pool, L, R, TypeOK, Candidate
  <2>4. cand' \in Candidate
    <3>1. PICK left \in SUBSET Pool :
            cand' = [cand EXCEPT !.left = left, !.right = Pool \ left]
      BY <1>5 DEF SolveSplit
    <3>2. cand \in Candidate
      BY DEF TypeOK
    <3>3. left \in SUBSET Stations /\ Pool \ left \in SUBSET Stations
      BY <2>3
    <3>4. [cand EXCEPT !.left = left] \in Candidate
      BY <3>2, <3>3 DEF Candidate
    <3>5. [[cand EXCEPT !.left = left] EXCEPT !.right = Pool \ left]
            \in Candidate
      BY <3>3, <3>4 DEF Candidate
    <3> QED
      BY <3>1, <3>5
  <2> QED
    BY <1>5, <2>1, <2>2, <2>4 DEF SolveSplit, TypeOK, route
<1>6. CASE SolveLeft
  <2>1. clock' \in Nat
    BY <1>0, <1>6, ElapsesType, BudgetType DEF SolveLeft
  <2>2. tally' \in Counter
    BY <1>0, <1>6, CountedType DEF SolveLeft
  <2>3. L \in Segments /\ cand.left \in SUBSET Stations
    BY <1>6 DEF SolveLeft, L, TypeOK, Candidate
  <2>4. PICK d \in TourLengths[<<L, cand.left>>] :
          cand' = [cand EXCEPT !.leftDist = d]
    BY <1>6 DEF SolveLeft
  <2>5. d \in Nat
    BY <2>3, TourLengthType
  <2>6. cand' \in Candidate
    BY <2>4, <2>5 DEF TypeOK, Candidate
  <2> QED
    BY <1>6, <2>1, <2>2, <2>6 DEF SolveLeft, TypeOK, route
<1>7. CASE SolveRight
  <2>1. clock' \in Nat
    BY <1>0, <1>7, ElapsesType, BudgetType DEF SolveRight
  <2>2. tally' \in Counter
    BY <1>0, <1>7, CountedType DEF SolveRight
  <2>3. R \in Segments /\ cand.right \in SUBSET Stations
    BY <1>7, Neighbours DEF SolveRight, R, TypeOK, Candidate
  <2>4. PICK d \in TourLengths[<<R, cand.right>>] :
          cand' = [cand EXCEPT !.rightDist = d]
    BY <1>7 DEF SolveRight
  <2>5. d \in Nat
    BY <2>3, TourLengthType
  <2>6. cand' \in Candidate
    BY <2>4, <2>5 DEF TypeOK, Candidate
  <2> QED
    BY <1>7, <2>1, <2>2, <2>6 DEF SolveRight, TypeOK, route
<1>8. CASE SolveDonor
  <2>1. clock' \in Nat
    BY <1>0, <1>8, ElapsesType, BudgetType DEF SolveDonor
  <2>2. tally' \in Counter
    BY <1>0, <1>8, CountedType DEF SolveDonor
  <2>3. cand.donor \in Segments
    BY <1>8 DEF SolveDonor, CandidateSound, TypeOK, Candidate
  <2>4. stations[cand.donor] \ cand.moved \in SUBSET Stations
    BY <2>3 DEF TypeOK
  <2>5. PICK d \in TourLengths[<<cand.donor,
                               stations[cand.donor] \ cand.moved>>] :
          cand' = [cand EXCEPT !.donorDist = d]
    BY <1>8 DEF SolveDonor
  <2>6. d \in Nat
    BY <2>3, <2>4, <2>5, TourLengthType
  <2>7. cand' \in Candidate
    BY <2>5, <2>6 DEF TypeOK, Candidate
  <2> QED
    BY <1>8, <2>1, <2>2, <2>7 DEF SolveDonor, TypeOK, route
<1>9. CASE SolveFails
  <2>1. clock' \in Nat
    BY <1>0, <1>9, ElapsesType, BudgetType DEF SolveFails
  <2>2. tally' \in Counter
    BY <1>0, <1>9, CountFailure DEF SolveFails
  <2>3. b \in Segments /\ cand \in Candidate
    BY <1>9 DEF SolveFails, TypeOK
  <2>4. GiveUp
    BY <1>9 DEF SolveFails
  <2> QED
    BY <1>0, <1>9, <2>1, <2>2, <2>3, <2>4, GiveUpType
       DEF SolveFails, TypeOK, route
<1>10. CASE SelectDonor
  <2>1. PICK m \in DonorMoves :
          cand' = [EmptyCand EXCEPT !.donor = m[1], !.moved = {m[2]}]
    BY <1>10 DEF SelectDonor
  <2>2. m[1] \in Segments /\ {m[2]} \in SUBSET Stations
    BY DEF DonorMoves, DonorSegments
  <2>3. cand' = [donor |-> m[1], moved |-> {m[2]}, left |-> {}, right |-> {},
                 leftDist |-> 0, rightDist |-> 0, donorDist |-> 0]
    BY <2>1 DEF EmptyCand
  <2>4. cand' \in Candidate
    BY <2>2, <2>3 DEF Candidate
  <2> QED
    BY <1>10, <2>4 DEF SelectDonor, TypeOK, route
<1>11. CASE NoDonorFound
  <2>1. b \in Segments /\ NextBoundary
    BY <1>11 DEF NoDonorFound, TypeOK
  <2> QED
    BY <1>11, <2>1, NextBoundaryType DEF NoDonorFound, TypeOK, route
<1>12. CASE Accept
  <2>1. L \in Segments /\ R \in Segments /\ b \in Segments
    BY <1>12, Neighbours DEF Accept, TypeOK, L, R
  <2>2. cand \in Candidate /\ cand.donor \in Segments \cup {NoDonor}
    BY DEF TypeOK, Candidate
  <2>3. /\ stations' \in [Segments -> SUBSET Stations]
        /\ load' \in [Segments -> Nat] /\ dist' \in [Segments -> Nat]
    BY <1>12, AcceptRouteType
  <2>4. active' \in [Segments -> BOOLEAN]
    BY <1>12 DEF Accept, Reactivated, TypeOK
  <2>5. Gain \in Int
    <3>1. /\ dist[L] \in Nat /\ dist[R] \in Nat
          /\ cand.donor # NoDonor => dist[cand.donor] \in Nat
      BY <2>1, <2>2 DEF TypeOK
    <3>2. /\ cand.leftDist \in Nat /\ cand.rightDist \in Nat
          /\ cand.donorDist \in Nat
      BY <2>2 DEF Candidate
    <3> QED
      BY <3>1, <3>2 DEF Gain
  <2>6. tally' \in Counter /\ totals' \in RunCounter
    <3> DEFINE m == IF cand.donor = NoDonor THEN 0 ELSE 1
    <3>1. m \in Nat
      OBVIOUS
    <3>2. /\ tally' = [tally EXCEPT !.changed = TRUE, !.changes = @ + 1,
                                    !.fallbacks = @ + m,
                                    !.gain = [@ EXCEPT ![b] = Gain]]
          /\ totals' = [totals EXCEPT !.changes = @ + 1, !.fallbacks = @ + m]
      BY <1>12 DEF Accept, CountChange
    <3> HIDE DEF m
    <3> QED
      BY <1>0, <2>1, <2>5, <3>1, <3>2, CountGain, CountTotals
  <2>7. NextBoundary
    BY <1>12 DEF Accept
  <2> QED
    BY <1>12, <2>1, <2>3, <2>4, <2>6, <2>7, NextBoundaryType
       DEF Accept, TypeOK, route
<1>13. CASE Reject
  <2>1. b \in Segments /\ cand \in Candidate /\ GiveUp
    BY <1>13 DEF Reject, TypeOK
  <2> QED
    BY <1>0, <1>13, <2>1, GiveUpType DEF Reject, TypeOK, route
<1>14. CASE RecordPass
  <2>1. clock' \in Nat
    BY <1>0, <1>14, ElapsesType DEF RecordPass
  <2>2. Feasible \in BOOLEAN
    BY DEF Feasible, WithinCapacity, NoStationTwice
  <2>3. Snapshot(passIndex, tally) \in PassRecord
    BY <1>0, <2>2 DEF Snapshot, PassRecord, TypeOK
  <2>4. snaps' \in Seq(PassRecord) /\ Len(snaps) \in Nat
    BY <1>14, <2>3 DEF RecordPass, TypeOK
  <2>5. file' \in [status : {"none", "running", "complete"}, passes : Nat]
    BY <1>14, <2>4 DEF RecordPass, DebugWrite, TypeOK
  <2>6. tally.solves \in Nat
    BY <1>0 DEF Counter
  <2>7. totals' \in RunCounter
    BY <1>0, <1>14, <2>6, CountTotals DEF RecordPass
  <2>8. pc' \in {"write", "pass"}
    BY <1>14 DEF RecordPass
  <2> QED
    BY <1>14, <2>1, <2>4, <2>5, <2>7, <2>8 DEF RecordPass, TypeOK, route
<1>15. CASE WriteFinal
  BY <1>15 DEF WriteFinal, TypeOK, route
<1>16. CASE Abort
  BY <1>16 DEF Abort, TypeOK, route
<1>17. CASE UNCHANGED vars
  BY <1>17 DEF vars, route, TypeOK
<1> QED
  BY <1>1, <1>2, <1>3, <1>4, <1>5, <1>6, <1>7, <1>8, <1>9, <1>10, <1>11,
     <1>12, <1>13, <1>14, <1>15, <1>16, <1>17 DEF Next

-----------------------------------------------------------------------------
(* The candidate stays sound.                                              *)

LEMMA InitCandidateSound == Init => CandidateSound
BY DEF Init, CandidateSound, DonorSound, Attempting, EmptyCand

(* What only moves on, or gives up, keeps the candidate sound. *)
LEMMA NextBoundarySound == NextBoundary => CandidateSound'
BY DEF NextBoundary, CandidateSound, DonorSound, Attempting, EmptyCand

LEMMA NextCandidateSound ==
  TypeOK /\ CandidateSound /\ [Next]_vars => CandidateSound'
<1> SUFFICES ASSUME TypeOK, CandidateSound, [Next]_vars
             PROVE  CandidateSound'
  OBVIOUS
<1>0. cand \in Candidate
  BY DEF TypeOK
<1>1. CASE StartPass \/ StopSweep \/ SkipInactive \/ RecordPass
           \/ WriteFinal \/ Abort
  <2>1. ~Attempting /\ ~Attempting' /\ cand' = cand
    BY <1>1 DEF StartPass, StopSweep, SkipInactive, RecordPass, PassOver,
                WriteFinal, Abort, Attempting
  <2> QED
    BY <2>1 DEF CandidateSound, DonorSound, Attempting, EmptyCand
<1>2. CASE Attempt
  BY <1>2 DEF Attempt, CandidateSound, DonorSound, Attempting, EmptyCand
<1>3. CASE SolveSplit
  <2>1. PICK left \in SUBSET Pool :
          /\ SplitFits(left)
          /\ cand' = [cand EXCEPT !.left = left, !.right = Pool \ left]
    BY <1>3 DEF SolveSplit
  <2>2. /\ cand'.left = left /\ cand'.right = Pool \ left
        /\ cand'.donor = cand.donor /\ cand'.moved = cand.moved
    BY <1>0, <2>1 DEF Candidate
  <2>3. UNCHANGED <<stations, b>> /\ pc' = "left" /\ Pool' = Pool
    BY <1>3, <2>2 DEF SolveSplit, route, Pool, L, R
  <2>4. SplitSound'
    BY <2>1, <2>2, <2>3 DEF SplitSound, SplitFits
  <2>5. DonorSound'
    BY <2>2, <2>3 DEF CandidateSound, DonorSound, Remaining, L, R
  <2> QED
    BY <2>3, <2>4, <2>5 DEF CandidateSound, Attempting
<1>4. CASE SolveLeft \/ SolveRight \/ SolveDonor
  <2>1. /\ cand'.left = cand.left /\ cand'.right = cand.right
        /\ cand'.donor = cand.donor /\ cand'.moved = cand.moved
    BY <1>0, <1>4 DEF SolveLeft, SolveRight, SolveDonor, Candidate
  <2>2. /\ UNCHANGED <<stations, b>>
        /\ pc \in {"left", "right", "donor"}
        /\ pc' \in {"right", "donor", "decide"}
        /\ pc' = "donor" => cand.donor # NoDonor
    BY <1>4 DEF SolveLeft, SolveRight, SolveDonor, route
  <2>3. SplitSound'
    BY <2>1, <2>2 DEF CandidateSound, SplitSound, SplitFits, Pool, L, R
  <2>4. DonorSound'
    BY <2>1, <2>2 DEF CandidateSound, DonorSound, Remaining, L, R
  <2> QED
    BY <2>1, <2>2, <2>3, <2>4 DEF CandidateSound, Attempting
<1>5. CASE SolveFails \/ Reject
  <2>1. UNCHANGED stations /\ GiveUp
    BY <1>5 DEF SolveFails, Reject, route
  <2>2. CASE EnableFallback /\ cand.donor = NoDonor
    BY <2>1, <2>2 DEF GiveUp, CandidateSound, DonorSound, Attempting
  <2>3. CASE ~(EnableFallback /\ cand.donor = NoDonor)
    BY <2>1, <2>3, NextBoundarySound DEF GiveUp
  <2> QED
    BY <2>2, <2>3
<1>6. CASE SelectDonor
  <2>1. PICK m \in DonorMoves :
          cand' = [EmptyCand EXCEPT !.donor = m[1], !.moved = {m[2]}]
    BY <1>6 DEF SelectDonor
  <2>2. cand'.donor = m[1] /\ cand'.moved = {m[2]}
    BY <2>1 DEF EmptyCand
  <2>3. UNCHANGED <<stations, b>> /\ pc' = "split"
    BY <1>6 DEF SelectDonor, route
  <2>4. /\ m[1] \in Segments /\ m[1] \notin {L, R}
        /\ m[2] \in stations[m[1]] /\ Cardinality(stations[m[1]]) > 1
    BY DEF DonorMoves, DonorSegments
  <2>5. stations[m[1]] \ {m[2]} # {}
    <3>1. stations[m[1]] # {m[2]}
      BY <2>4, FS_Singleton
    <3> QED
      BY <2>4, <3>1
  <2>6. DonorSound'
    BY <2>2, <2>3, <2>4, <2>5
       DEF DonorSound, Remaining, L, R, NoDonor, Segments
  <2> QED
    BY <2>3, <2>6 DEF CandidateSound, Attempting
<1>7. CASE NoDonorFound \/ Accept
  BY <1>7, NextBoundarySound DEF NoDonorFound, Accept
<1>8. CASE UNCHANGED vars
  BY <1>8 DEF vars, route, CandidateSound, DonorSound, SplitSound, SplitFits,
              Attempting, Pool, Remaining, L, R
<1> QED
  BY <1>1, <1>2, <1>3, <1>4, <1>5, <1>6, <1>7, <1>8 DEF Next

LEMMA TypeCorrect == Spec => [](TypeOK /\ CandidateSound)
<1>1. Init => TypeOK /\ CandidateSound
  BY InitTypeOK, InitCandidateSound
<1>2. TypeOK /\ CandidateSound /\ [Next]_vars => (TypeOK /\ CandidateSound)'
  BY NextTypeOK, NextCandidateSound
<1> QED
  BY <1>1, <1>2, PTL DEF Spec

(* Every variable keeps its type in every behaviour of the sweep.          *)
THEOREM TypeInvariance == Spec => []TypeOK
BY TypeCorrect, PTL

-----------------------------------------------------------------------------
(* What an accepted candidate does to the route.                           *)

LEMMA AcceptPointwise ==
  ASSUME TypeOK, CandidateSound, Accept
  PROVE  /\ L \in Segments /\ R \in Segments /\ L # R
         /\ stations'[L] = cand.left /\ stations'[R] = cand.right
         /\ load'[L] = Catch[cand.left] /\ load'[R] = Catch[cand.right]
         /\ dist'[L] = cand.leftDist /\ dist'[R] = cand.rightDist
         /\ cand.donor # NoDonor =>
              /\ cand.donor \in Segments \ {L, R}
              /\ stations'[cand.donor] = Remaining
              /\ load'[cand.donor] = Catch[Remaining]
              /\ dist'[cand.donor] = cand.donorDist
         /\ \A i \in Segments \ {L, R, cand.donor} :
              /\ stations'[i] = stations[i]
              /\ load'[i] = load[i] /\ dist'[i] = dist[i]
<1>1. /\ stations \in [Segments -> SUBSET Stations]
      /\ load \in [Segments -> Nat] /\ dist \in [Segments -> Nat]
  BY DEF TypeOK
<1>2. L \in Segments /\ R \in Segments /\ L # R
  BY Neighbours DEF Accept, TypeOK, L, R
<1>3. cand.donor # NoDonor => cand.donor \in Segments \ {L, R}
  BY DEF TypeOK, Candidate, CandidateSound, DonorSound
<1>4. CASE cand.donor = NoDonor
  <2>1. ReplaceSides
    BY <1>4 DEF Accept
  <2> QED
    BY <1>1, <1>2, <1>4, <2>1 DEF ReplaceSides, Sides
<1>5. CASE cand.donor # NoDonor
  <2>1. ReplaceSidesAndDonor
    BY <1>5 DEF Accept
  <2>2. /\ stations' = [[stations EXCEPT ![L] = cand.left, ![R] = cand.right]
                          EXCEPT ![cand.donor] = Remaining]
        /\ load' = [[load EXCEPT ![L] = Catch[cand.left],
                                 ![R] = Catch[cand.right]]
                      EXCEPT ![cand.donor] = Catch[Remaining]]
        /\ dist' = [[dist EXCEPT ![L] = cand.leftDist, ![R] = cand.rightDist]
                      EXCEPT ![cand.donor] = cand.donorDist]
    BY <2>1 DEF ReplaceSidesAndDonor, Sides
  <2> QED
    BY <1>1, <1>2, <1>3, <1>5, <2>2
<1> QED
  BY <1>4, <1>5

(* The segments an accepted candidate rewrites.                            *)
Rewritten == IF cand.donor = NoDonor THEN {L, R} ELSE {L, R, cand.donor}

LEMMA OthersUntouched ==
  ASSUME TypeOK, CandidateSound, Accept, NEW i \in Segments \ Rewritten
  PROVE  /\ stations'[i] = stations[i]
         /\ load'[i] = load[i] /\ dist'[i] = dist[i]
<1>1. i # NoDonor
  BY RouteAssumption DEF NoDonor, Segments
<1>2. i \in Segments \ {L, R, cand.donor}
  BY <1>1 DEF Rewritten
<1> QED
  BY <1>2, AcceptPointwise

(* Stations dealt out anew among some segments stay in one segment each,   *)
(* and none is lost, whichever segments they are.                          *)
LEMMA DealtOut ==
  ASSUME stations \in [Segments -> SUBSET Stations],
         stations' \in [Segments -> SUBSET Stations],
         NEW C \in SUBSET Segments,
         \A i \in Segments \ C : stations'[i] = stations[i],
         UNION {stations'[i] : i \in C} = UNION {stations[i] : i \in C},
         \A i, j \in C : i # j => stations'[i] \cap stations'[j] = {},
         \A i, j \in Segments : i # j => stations[i] \cap stations[j] = {}
  PROVE  /\ \A i, j \in Segments :
              i # j => stations'[i] \cap stations'[j] = {}
         /\ UNION {stations'[i] : i \in Segments}
              = UNION {stations[i] : i \in Segments}
<1>1. ASSUME NEW i \in C, NEW j \in Segments \ C
      PROVE  stations'[i] \cap stations'[j] = {}
  <2> SUFFICES ASSUME NEW x \in stations'[i], x \in stations'[j] PROVE FALSE
    OBVIOUS
  <2>1. x \in UNION {stations[k] : k \in C}
    OBVIOUS
  <2>2. PICK k \in C : x \in stations[k]
    BY <2>1
  <2> QED
    BY <2>2
<1>2. \A i, j \in Segments : i # j => stations'[i] \cap stations'[j] = {}
  BY <1>1
<1>3. ASSUME NEW x PROVE (\E i \in Segments : x \in stations'[i])
                          <=> (\E i \in Segments : x \in stations[i])
  <2>1. (\E i \in C : x \in stations'[i]) <=> (\E i \in C : x \in stations[i])
    OBVIOUS
  <2> QED
    BY <2>1
<1>4. UNION {stations'[i] : i \in Segments}
        = UNION {stations[i] : i \in Segments}
  BY <1>3
<1> QED
  BY <1>2, <1>4

(* An accepted candidate deals out the stations of the segments it         *)
(* rewrites among them, leaves none of them empty and overloads none.      *)
LEMMA AcceptDealsOut ==
  ASSUME TypeOK, CandidateSound, NoStationTwice, Accept
  PROVE  /\ Rewritten \in SUBSET Segments
         /\ UNION {stations'[i] : i \in Rewritten}
              = UNION {stations[i] : i \in Rewritten}
         /\ \A i, j \in Rewritten :
              i # j => stations'[i] \cap stations'[j] = {}
         /\ \A i \in Rewritten :
              /\ stations'[i] # {}
              /\ \/ Catch[stations'[i]] <= Capacity
                 \/ stations'[i] \subseteq stations[i]
<1>1. SplitSound /\ DonorSound
  BY DEF Accept, CandidateSound
<1>2. /\ cand.left # {} /\ cand.right # {}
      /\ Catch[cand.left] <= Capacity /\ Catch[cand.right] <= Capacity
      /\ cand.left \cap cand.right = {}
      /\ cand.left \cup cand.right
           = stations[L] \cup stations[R] \cup cand.moved
  BY <1>1 DEF SplitSound, SplitFits, Pool
<1>3. CASE cand.donor = NoDonor
  <2>1. Rewritten = {L, R} /\ cand.moved = {}
    BY <1>1, <1>3 DEF Rewritten, DonorSound
  <2>2. UNION {stations'[i] : i \in {L, R}} = stations'[L] \cup stations'[R]
    OBVIOUS
  <2>3. UNION {stations[i] : i \in {L, R}} = stations[L] \cup stations[R]
    OBVIOUS
  <2> QED
    BY <1>2, <2>1, <2>2, <2>3, AcceptPointwise
<1>4. CASE cand.donor # NoDonor
  <2> DEFINE D == cand.donor
  <2>1. Rewritten = {L, R, D} /\ D \in Segments \ {L, R}
    BY <1>4, AcceptPointwise DEF Rewritten
  <2>2. Remaining = stations[D] \ cand.moved /\ Remaining # {}
        /\ cand.moved \subseteq stations[D]
    BY <1>1, <1>4 DEF DonorSound, Remaining
  <2>3. /\ stations[D] \cap stations[L] = {}
        /\ stations[D] \cap stations[R] = {}
    BY <2>1, AcceptPointwise DEF NoStationTwice
  <2>4. /\ stations'[L] = cand.left /\ stations'[R] = cand.right
        /\ stations'[D] = Remaining
    BY <1>4, AcceptPointwise
  <2>5. /\ stations'[D] \cap stations'[L] = {}
        /\ stations'[D] \cap stations'[R] = {}
    BY <1>2, <2>2, <2>3, <2>4
  <2>6. UNION {stations'[i] : i \in {L, R, D}}
          = stations'[L] \cup stations'[R] \cup stations'[D]
    OBVIOUS
  <2>7. UNION {stations[i] : i \in {L, R, D}}
          = stations[L] \cup stations[R] \cup stations[D]
    OBVIOUS
  <2>8. stations'[L] \cup stations'[R] \cup stations'[D]
          = stations[L] \cup stations[R] \cup stations[D]
    BY <1>2, <2>2, <2>4
  <2>9. L \in Segments /\ R \in Segments
    BY AcceptPointwise
  <2> HIDE DEF D
  <2>10. Rewritten \in SUBSET Segments
    BY <2>1, <2>9
  <2>11. \A i, j \in Rewritten :
           i # j => stations'[i] \cap stations'[j] = {}
    BY <1>2, <2>1, <2>4, <2>5
  <2>12. \A i \in Rewritten :
           /\ stations'[i] # {}
           /\ \/ Catch[stations'[i]] <= Capacity
              \/ stations'[i] \subseteq stations[i]
    BY <1>2, <2>1, <2>2, <2>4
  <2> QED
    BY <2>1, <2>6, <2>7, <2>8, <2>10, <2>11, <2>12
<1> QED
  BY <1>3, <1>4

-----------------------------------------------------------------------------
(* The route: only Accept changes it.                                      *)

LEMMA OnlyAcceptMovesStations ==
  ASSUME [Next]_vars, ~Accept
  PROVE  UNCHANGED route
BY DEF Next, vars, route, StartPass, StopSweep, SkipInactive, Attempt,
       SolveSplit, SolveLeft, SolveRight, SolveDonor, SolveFails, SelectDonor,
       NoDonorFound, Reject, RecordPass, WriteFinal, Abort

LEMMA AcceptKeepsStations ==
  ASSUME TypeOK, CandidateSound, NoStationTwice, Accept
  PROVE  NoStationTwice' /\ Routed' = Routed
<1>1. /\ stations \in [Segments -> SUBSET Stations]
      /\ stations' \in [Segments -> SUBSET Stations]
  BY AcceptRouteType DEF TypeOK
<1>2. \A i \in Segments \ Rewritten : stations'[i] = stations[i]
  BY OthersUntouched
<1>3. /\ Rewritten \in SUBSET Segments
      /\ UNION {stations'[i] : i \in Rewritten}
           = UNION {stations[i] : i \in Rewritten}
      /\ \A i, j \in Rewritten : i # j => stations'[i] \cap stations'[j] = {}
  BY AcceptDealsOut
<1>4. \A i, j \in Segments : i # j => stations[i] \cap stations[j] = {}
  BY DEF NoStationTwice
<1> HIDE DEF Rewritten
<1>5. /\ \A i, j \in Segments : i # j => stations'[i] \cap stations'[j] = {}
      /\ UNION {stations'[i] : i \in Segments}
           = UNION {stations[i] : i \in Segments}
  BY <1>1, <1>2, <1>3, <1>4, DealtOut
<1> QED
  BY <1>5 DEF NoStationTwice, Routed

LEMMA AcceptKeepsLoads ==
  ASSUME TypeOK, CandidateSound, LoadIsCatch, Accept
  PROVE  LoadIsCatch'
<1> SUFFICES ASSUME NEW i \in Segments
             PROVE  load'[i] = Catch[stations'[i]]
  BY DEF LoadIsCatch
<1>1. CASE i \in Rewritten
  BY <1>1, AcceptPointwise DEF Rewritten
<1>2. CASE i \notin Rewritten
  BY <1>2, OthersUntouched DEF LoadIsCatch
<1> QED
  BY <1>1, <1>2

(* The inductive invariant of the theorems below.                          *)
RouteInv == TypeOK /\ CandidateSound /\ NoStationTwice /\ LoadIsCatch

LEMMA NextRouteInv == RouteInv /\ [Next]_vars => RouteInv'
<1> SUFFICES ASSUME RouteInv, [Next]_vars PROVE RouteInv'
  OBVIOUS
<1>1. TypeOK' /\ CandidateSound'
  BY NextTypeOK, NextCandidateSound DEF RouteInv
<1>2. CASE Accept
  BY <1>1, <1>2, AcceptKeepsStations, AcceptKeepsLoads DEF RouteInv
<1>3. CASE ~Accept
  BY <1>1, <1>3, OnlyAcceptMovesStations
     DEF RouteInv, NoStationTwice, LoadIsCatch, route
<1> QED
  BY <1>2, <1>3

LEMMA RouteInvariance == Spec => []RouteInv
<1>1. Init => RouteInv
  BY InitTypeOK, InitCandidateSound, RouteAssumption
     DEF Init, RouteInv, NoStationTwice, LoadIsCatch
<1> QED
  BY <1>1, NextRouteInv, PTL DEF Spec

(* No station is ever in two segments.                                     *)
THEOREM StationsDisjoint == Spec => []NoStationTwice
<1>1. RouteInv => NoStationTwice
  BY DEF RouteInv
<1> QED
  BY <1>1, RouteInvariance, PTL

(* The catch kept with a segment is always that of its stations.           *)
THEOREM LoadsCorrect == Spec => []LoadIsCatch
<1>1. RouteInv => LoadIsCatch
  BY DEF RouteInv
<1> QED
  BY <1>1, RouteInvariance, PTL

(* No step loses a station of the route, or adds one.                      *)
THEOREM StationsKept == Spec => NoStationLost
<1>1. RouteInv /\ [Next]_vars => [Routed' = Routed]_vars
  <2> SUFFICES ASSUME RouteInv, [Next]_vars PROVE Routed' = Routed
    OBVIOUS
  <2>1. CASE Accept
    BY <2>1, AcceptKeepsStations DEF RouteInv
  <2>2. CASE ~Accept
    BY <2>2, OnlyAcceptMovesStations DEF Routed, route
  <2> QED
    BY <2>1, <2>2
<1> QED
  BY <1>1, RouteInvariance, PTL DEF Spec, NoStationLost

(* Whoever rewrites a segment leaves both its boundaries active.           *)
THEOREM ChangesReactivate == Spec => ChangeReactivates
<1> DEFINE Wakes == \A i \in Segments :
                      stations'[i] # stations[i] \/ dist'[i] # dist[i]
                        => active'[i] /\ active'[Pred(i)]
<1>1. RouteInv /\ [Next]_vars => Wakes
  <2> SUFFICES ASSUME RouteInv, [Next]_vars, NEW i \in Segments,
                      stations'[i] # stations[i] \/ dist'[i] # dist[i]
               PROVE  active'[i] /\ active'[Pred(i)]
    OBVIOUS
  <2>1. Accept /\ TypeOK /\ CandidateSound
    BY OnlyAcceptMovesStations DEF RouteInv, route
  <2>2. i \in {L, R} \/ (i = cand.donor /\ cand.donor # NoDonor)
    <3>1. i \in Rewritten
      BY <2>1, OthersUntouched
    <3>2. CASE cand.donor = NoDonor
      BY <3>1, <3>2 DEF Rewritten
    <3>3. CASE cand.donor # NoDonor
      BY <3>1, <3>3 DEF Rewritten
    <3> QED
      BY <3>2, <3>3
  <2>3. /\ i \in Segments /\ Pred(i) \in Segments
        /\ L \in Segments /\ Pred(R) = L
    BY <2>1, Neighbours DEF Accept, TypeOK, L, R
  <2>4. active' = Reactivated
    BY <2>1 DEF Accept
  <2> QED
    BY <2>2, <2>3, <2>4 DEF Reactivated
<1>2. RouteInv /\ [Next]_vars => [Wakes]_vars
  BY <1>1
<1> QED
  BY <1>2, RouteInvariance, PTL DEF Spec, ChangeReactivates

(* A donor that gives a station away gets lighter.                         *)
LEMMA DonorGetsLighter ==
  ASSUME TypeOK, CandidateSound, cand.donor # NoDonor
  PROVE  Catch[Remaining] <= Catch[stations[cand.donor]]
<1>1. PICK x \in stations[cand.donor] : cand.moved = {x}
  BY DEF CandidateSound, DonorSound
<1>2. /\ stations[cand.donor] \in SUBSET Stations
      /\ Remaining \in SUBSET Stations /\ {x} \in SUBSET Stations
      /\ x \in Stations \ Remaining
      /\ stations[cand.donor] = Remaining \cup {x}
  BY <1>1 DEF TypeOK, Candidate, Remaining
<1>3. Catch[Remaining \cup {x}] = Catch[Remaining] + Catch[{x}]
  BY <1>2, CatchAssumption
<1>4. Catch[Remaining] \in Nat /\ Catch[{x}] \in Nat
  BY <1>2, CatchAssumption
<1> QED
  BY <1>2, <1>3, <1>4

(* No step overloads a segment that fits in the boat, or empties one.      *)
LEMMA AcceptKeepsSound ==
  ASSUME RouteInv, Accept, NEW i \in Segments
  PROVE  /\ load[i] <= Capacity => load'[i] <= Capacity
         /\ stations[i] # {} => stations'[i] # {}
<1>1. TypeOK /\ CandidateSound /\ LoadIsCatch /\ NoStationTwice
  BY DEF RouteInv
<1>2. CASE i \notin Rewritten
  BY <1>1, <1>2, OthersUntouched
<1>3. CASE i \in Rewritten
  <2>1. stations'[i] # {}
    BY <1>1, <1>3, AcceptDealsOut
  <2>2. SplitSound /\ cand.left # {} /\ cand.right # {}
        /\ Catch[cand.left] <= Capacity /\ Catch[cand.right] <= Capacity
    BY <1>1 DEF Accept, CandidateSound, SplitSound, SplitFits
  <2>3. CASE i \in {L, R}
    BY <1>1, <2>1, <2>2, <2>3, AcceptPointwise
  <2>4. CASE i \notin {L, R}
    <3>1. i = cand.donor /\ cand.donor # NoDonor
      BY <1>3, <2>4 DEF Rewritten
    <3>2. load'[i] = Catch[Remaining] /\ load[i] = Catch[stations[i]]
      BY <1>1, <3>1, AcceptPointwise DEF LoadIsCatch
    <3>3. Catch[Remaining] <= load[i]
      BY <1>1, <3>1, <3>2, DonorGetsLighter
    <3>4. /\ Catch[Remaining] \in Nat /\ load[i] \in Nat
          /\ Capacity \in Nat
      BY <1>1, <3>1, <3>2, CatchAssumption, RouteAssumption
         DEF TypeOK, Remaining
    <3> QED
      BY <2>1, <3>2, <3>3, <3>4
  <2> QED
    BY <2>3, <2>4
<1> QED
  BY <1>2, <1>3

(* No behaviour overloads a segment that fits, or empties one.            *)
THEOREM SegmentsSound == Spec => SegmentsStaySound
<1> DEFINE Sound == \A i \in Segments :
                      /\ load[i] <= Capacity => load'[i] <= Capacity
                      /\ stations[i] # {} => stations'[i] # {}
<1>1. RouteInv /\ [Next]_vars => [Sound]_vars
  <2> SUFFICES ASSUME RouteInv, [Next]_vars, NEW i \in Segments
               PROVE  /\ load[i] <= Capacity => load'[i] <= Capacity
                      /\ stations[i] # {} => stations'[i] # {}
    OBVIOUS
  <2>1. CASE Accept
    BY <2>1, AcceptKeepsSound
  <2>2. CASE ~Accept
    BY <2>2, OnlyAcceptMovesStations DEF route
  <2> QED
    BY <2>1, <2>2
<1> QED
  BY <1>1, RouteInvariance, PTL DEF Spec, SegmentsStaySound

-----------------------------------------------------------------------------
(* The sweep implements the local search.                                  *)

LEMMA InitSearch == Init => Search!Init
<1> SUFFICES ASSUME Init PROVE Search!Init
  OBVIOUS
<1>1. TypeOK
  BY InitTypeOK
<1> QED
  BY <1>1, RouteAssumption DEF Init, TypeOK, Search!Init

LEMMA AcceptRedistributes ==
  ASSUME RouteInv, Accept
  PROVE  Search!Redistribute(Rewritten)
<1>1. /\ stations' \in [Segments -> SUBSET Stations]
      /\ dist' \in [Segments -> Nat]
  BY AcceptRouteType DEF RouteInv
<1>2. \A i \in Segments \ Rewritten :
        stations'[i] = stations[i] /\ dist'[i] = dist[i]
  BY OthersUntouched DEF RouteInv
<1> QED
  BY <1>1, <1>2, AcceptDealsOut
     DEF RouteInv, Search!Redistribute, Search!NotOverloaded

LEMMA AcceptImproves ==
  ASSUME RouteInv, Accept
  PROVE  Search!Exchange \/ Search!Donate
<1>1. TypeOK /\ CandidateSound /\ Improves
  BY DEF RouteInv, Accept
<1>2. CASE cand.donor = NoDonor
  <2>1. Search!Redistribute({L, R})
    BY <1>2, AcceptRedistributes DEF Rewritten
  <2>2. dist'[L] + dist'[R] + Eps < dist[L] + dist[R]
    BY <1>1, <1>2, AcceptPointwise DEF Improves
  <2>3. L \in Segments /\ R \in Segments /\ L # R
    BY <1>1, AcceptPointwise
  <2> QED
    BY <2>1, <2>2, <2>3 DEF Search!Exchange
<1>3. CASE cand.donor # NoDonor
  <2>1. Search!Redistribute({L, R, cand.donor})
    BY <1>3, AcceptRedistributes DEF Rewritten
  <2>2. dist'[L] + dist'[R] + dist'[cand.donor] + Eps
          < dist[L] + dist[R] + dist[cand.donor]
    BY <1>1, <1>3, AcceptPointwise DEF Improves
  <2>3. /\ L \in Segments /\ R \in Segments /\ L # R
        /\ cand.donor \in Segments \ {L, R}
    BY <1>1, <1>3, AcceptPointwise
  <2> QED
    BY <2>1, <2>2, <2>3 DEF Search!Donate
<1> QED
  BY <1>2, <1>3

LEMMA NextSearch == RouteInv /\ [Next]_vars => [Search!Next]_Search!vars
<1> SUFFICES ASSUME RouteInv, [Next]_vars PROVE [Search!Next]_Search!vars
  OBVIOUS
<1>1. CASE Accept
  <2>1. pc = "decide" /\ pc' = "boundary"
    BY <1>1 DEF Accept, NextBoundary
  <2> QED
    BY <1>1, <2>1, AcceptImproves DEF Search!Next, Search!Improve
<1>2. CASE ~Accept
  <2>1. UNCHANGED <<stations, dist>>
    BY <1>2, OnlyAcceptMovesStations DEF route
  <2>2. pc \in {"write", "done"} => pc' \in {"write", "done"}
    BY DEF Next, vars, route, StartPass, StopSweep, SkipInactive, Attempt,
           SolveSplit, SolveLeft, SolveRight, SolveDonor, SolveFails,
           SelectDonor, NoDonorFound, Accept, Reject, RecordPass, PassOver,
           WriteFinal, Abort
  <2> QED
    BY <2>1, <2>2 DEF Search!Next, Search!Finish, Search!vars
<1> QED
  BY <1>1, <1>2

(* Every behaviour of the sweep is one of the local search.                *)
THEOREM Refinement == Spec => ImplementsSearch
BY InitSearch, NextSearch, RouteInvariance, PTL
   DEF Spec, ImplementsSearch, Search!Spec

-----------------------------------------------------------------------------
(* What the sweep concludes and reports. *)

(* The inductive invariant of SweepProofs, with the types of the steps.    *)
LEMMA StepTypes ==
  ASSUME RouteInv, [Next]_vars
  PROVE  /\ TypeOK /\ CandidateSound /\ TypeOK'
BY NextTypeOK DEF RouteInv

(* The snapshots after a pass was recorded. *)
LEMMA RecordedSnaps ==
  ASSUME TypeOK, RecordPass
  PROVE  /\ Len(snaps) \in Nat /\ Len(snaps') = Len(snaps) + 1
         /\ snaps'[Len(snaps')] = Snapshot(passIndex, tally)
         /\ \A k \in 1 .. Len(snaps) : snaps'[k] = snaps[k]
<1>1. snaps \in Seq(PassRecord)
  BY DEF TypeOK
<1>2. Snapshot(passIndex, tally) \in PassRecord
  BY DEF TypeOK, Snapshot, PassRecord, Feasible, WithinCapacity,
         NoStationTwice
<1> QED
  BY <1>1, <1>2 DEF RecordPass

(* A pass goes on in the same snapshots. *)
LEMMA OtherStepsKeepSnaps ==
  ASSUME [Next]_vars, ~RecordPass
  PROVE  UNCHANGED <<snaps, passIndex>>
BY DEF Next, vars, route, StartPass, StopSweep, SkipInactive, Attempt,
       SolveSplit, SolveLeft, SolveRight, SolveDonor, SolveFails, SelectDonor,
       NoDonorFound, Accept, Reject, WriteFinal, Abort

-----------------------------------------------------------------------------
(* A quiet sweep has tried every boundary.                                 *)

(* While nothing has changed in a pass, the boundaries behind the cursor   *)
(* are inactive; after a pass that changed nothing there is no other.      *)
QuietInv ==
  /\ passIndex >= 1 /\ Len(snaps) >= 1
  /\ pc = "pass" => passIndex = 1 \/ LastSnap.tally.changed
  /\ pc = "boundary" /\ ~tally.changed
       => \A i \in Segments : i < b => ~active[i]
  /\ Attempting /\ ~tally.changed
       => \A i \in Segments : i <= b => ~active[i]
  /\ QuietMeansExhausted

LEMMA InitQuiet == Init => QuietInv
BY DEF Init, QuietInv, QuietMeansExhausted, Attempting, Segments

LEMMA NextQuiet == RouteInv /\ QuietInv /\ [Next]_vars => QuietInv'
<1> SUFFICES ASSUME RouteInv, QuietInv, [Next]_vars PROVE QuietInv'
  OBVIOUS
<1>0. /\ TypeOK /\ N \in Nat /\ clock \in Nat /\ GlobalTimeLimit \in Nat
      /\ Overhead \in Nat /\ passIndex \in Nat /\ MaxIterations \in Nat
      /\ Segments \subseteq Int /\ b \in 0 .. N
  BY RouteAssumption, ConfigAssumption, SMTT(30) DEF RouteInv, TypeOK, Segments
<1>1. CASE StartPass
  <2>1. /\ UNCHANGED <<snaps, passIndex>> /\ b' = 0 /\ pc' = "boundary"
    BY <1>1 DEF StartPass
  <2> QED
    BY <1>0, <2>1 DEF QuietInv, QuietMeansExhausted, Attempting, Segments,
                      LastSnap
<1>2. CASE StopSweep
  <2>1. /\ UNCHANGED <<snaps, passIndex, clock>> /\ pc = "pass"
        /\ pc' = "write"
    BY <1>2 DEF StopSweep
  <2>2. GlobalLimitReached \/ LastSnap.tally.changed
    BY <1>0, <1>2 DEF StopSweep, IterationsSpent, QuietInv
  <2> QED
    BY <1>0, <2>1, <2>2 DEF QuietInv, QuietMeansExhausted, Attempting,
                            LastSnap, GlobalLimitReached
<1>3. CASE SkipInactive
  <2>1. /\ UNCHANGED <<snaps, passIndex, active, tally>>
        /\ pc = "boundary" /\ pc' = "boundary" /\ b' = b + 1 /\ ~active[b]
    BY <1>3 DEF SkipInactive
  <2> QED
    BY <1>0, <2>1 DEF QuietInv, QuietMeansExhausted, Attempting, LastSnap
<1>4. CASE Attempt
  <2>1. /\ UNCHANGED <<snaps, passIndex, b>> /\ b \in Segments
        /\ pc = "boundary" /\ pc' = "split"
        /\ tally'.changed = tally.changed
        /\ active' = [active EXCEPT ![b] = FALSE]
        /\ active \in [Segments -> BOOLEAN]
    BY <1>0, <1>4, SMTT(30) DEF Attempt, Deactivate, TypeOK, Segments, Counter
  <2> QED
    BY <1>0, <2>1 DEF QuietInv, QuietMeansExhausted, Attempting, LastSnap
<1>5. CASE SolveSplit \/ SolveLeft \/ SolveRight \/ SolveDonor \/ SelectDonor
  <2>1. /\ UNCHANGED <<snaps, passIndex, active, b>>
        /\ Attempting /\ Attempting'
    BY <1>5 DEF SolveSplit, SolveLeft, SolveRight, SolveDonor, SelectDonor,
                Attempting
  <2>2. tally'.changed = tally.changed
    BY <1>0, <1>5 DEF SolveSplit, SolveLeft, SolveRight, SolveDonor,
                      SelectDonor, Counted, TypeOK, Counter
  <2> QED
    BY <1>0, <2>1, <2>2 DEF QuietInv, QuietMeansExhausted, Attempting, LastSnap
<1>6. CASE SolveFails \/ Reject \/ NoDonorFound
  <2>1. /\ UNCHANGED <<snaps, passIndex, active>> /\ Attempting
        /\ \/ Attempting' /\ b' = b
           \/ pc' = "boundary" /\ b' = b + 1
    BY <1>6 DEF SolveFails, Reject, NoDonorFound, GiveUp, NextBoundary,
                Attempting
  <2>2. tally'.changed = tally.changed
    BY <1>0, <1>6 DEF SolveFails, Reject, NoDonorFound, TypeOK, Counter
  <2>3. pc' \notin {"pass", "write"}
    BY <2>1 DEF Attempting
  <2> QED
    BY <1>0, <2>1, <2>2, <2>3
       DEF QuietInv, QuietMeansExhausted, Attempting, LastSnap
<1>7. CASE Accept
  <2>1. /\ UNCHANGED <<snaps, passIndex>> /\ pc' = "boundary"
        /\ tally'.changed = TRUE
    BY <1>0, <1>7 DEF Accept, CountChange, NextBoundary, TypeOK, Counter
  <2> QED
    BY <2>1 DEF QuietInv, QuietMeansExhausted, Attempting, LastSnap
<1>8. CASE RecordPass
  <2>1. /\ Len(snaps') = Len(snaps) + 1 /\ Len(snaps) \in Nat
        /\ LastSnap' = Snapshot(passIndex, tally)
    BY <1>0, <1>8, RecordedSnaps DEF LastSnap
  <2>2. LastSnap'.tally = tally
    BY <2>1 DEF Snapshot
  <2>3. /\ pc = "boundary" /\ pc' \in {"write", "pass"}
        /\ pc' = "pass" => tally.changed
        /\ UNCHANGED <<active, b>> /\ passIndex' = passIndex + 1
        /\ b = N \/ GlobalLimitReached
    BY <1>8 DEF RecordPass, PassOver, SweepOver
  <2>4. clock' \in Nat /\ clock' >= clock
    BY <1>0, <1>8, ElapsesType DEF RecordPass
  <2>5. GlobalLimitReached => GlobalLimitReached'
    BY <1>0, <2>4 DEF GlobalLimitReached
  <2>6. b = N => \A i \in Segments : i < b
    BY <1>0 DEF Segments
  <2> QED
    BY <1>0, <2>1, <2>2, <2>3, <2>5, <2>6
       DEF QuietInv, QuietMeansExhausted, Attempting
<1>9. CASE WriteFinal \/ Abort
  <2>1. UNCHANGED <<snaps, passIndex>> /\ pc' = "done"
    BY <1>9 DEF WriteFinal, Abort
  <2> QED
    BY <2>1 DEF QuietInv, QuietMeansExhausted, Attempting, LastSnap
<1>10. CASE UNCHANGED vars
  BY <1>10 DEF vars, route, QuietInv, QuietMeansExhausted, Attempting,
               LastSnap, GlobalLimitReached
<1> QED
  BY <1>1, <1>2, <1>3, <1>4, <1>5, <1>6, <1>7, <1>8, <1>9, <1>10 DEF Next

(* A sweep that stops because a pass changed nothing leaves no boundary    *)
(* active: each was tried on the segments as they are.                     *)
THEOREM QuietSweepExhausted == Spec => []QuietMeansExhausted
<1>1. QuietInv => QuietMeansExhausted
  BY DEF QuietInv
<1> QED
  BY <1>1, InitQuiet, NextQuiet, RouteInvariance, PTL DEF Spec

-----------------------------------------------------------------------------
(* Feasible once, feasible for ever.                                       *)

LEMMA AcceptKeepsFeasible ==
  ASSUME RouteInv, Accept, Feasible
  PROVE  Feasible'
<1>1. NoStationTwice' /\ Routed' = Routed
  BY AcceptKeepsStations DEF RouteInv
<1>2. WithinCapacity'
  BY AcceptKeepsSound DEF Feasible, WithinCapacity
<1> QED
  BY <1>1, <1>2 DEF Feasible

(* A route recorded as feasible is still feasible when the next pass ends. *)
FeasibleInv ==
  /\ Len(snaps) >= 1
  /\ LastSnap.feasible => Feasible
  /\ FeasibilityKept

LEMMA InitFeasible == Init => FeasibleInv
BY DEF Init, FeasibleInv, FeasibilityKept, LastSnap, Snapshot

LEMMA NextFeasible == RouteInv /\ FeasibleInv /\ [Next]_vars => FeasibleInv'
<1> SUFFICES ASSUME RouteInv, FeasibleInv, [Next]_vars PROVE FeasibleInv'
  OBVIOUS
<1>1. CASE RecordPass
  <2>1. UNCHANGED route /\ (Feasible' <=> Feasible)
    BY <1>1 DEF RecordPass, route, Feasible, WithinCapacity, NoStationTwice,
                Routed
  <2>2. /\ Len(snaps) \in Nat /\ Len(snaps') = Len(snaps) + 1
        /\ LastSnap' = Snapshot(passIndex, tally)
        /\ \A k \in 1 .. Len(snaps) : snaps'[k] = snaps[k]
    BY <1>1, RecordedSnaps DEF RouteInv, LastSnap
  <2>3. LastSnap'.feasible <=> Feasible
    BY <2>2 DEF Snapshot, Feasible, WithinCapacity, NoStationTwice
  <2>4. ASSUME NEW k \in 2 .. Len(snaps'), snaps'[k - 1].feasible
        PROVE  snaps'[k].feasible
    <3>1. CASE k = Len(snaps')
      <4>1. snaps'[k - 1] = LastSnap
        BY <2>2, <3>1 DEF FeasibleInv, LastSnap
      <4>2. Feasible
        BY <2>4, <4>1 DEF FeasibleInv
      <4> QED
        BY <2>3, <3>1, <4>2 DEF LastSnap
    <3>2. CASE k # Len(snaps')
      <4>1. k \in 2 .. Len(snaps) /\ k - 1 \in 1 .. Len(snaps)
        BY <2>2, <3>2
      <4>2. snaps'[k] = snaps[k] /\ snaps'[k - 1] = snaps[k - 1]
        BY <2>2, <4>1
      <4> QED
        BY <2>4, <4>1, <4>2 DEF FeasibleInv, FeasibilityKept
    <3> QED
      BY <3>1, <3>2
  <2> QED
    BY <2>1, <2>2, <2>3, <2>4 DEF FeasibleInv, FeasibilityKept
<1>2. CASE Accept
  <2>1. UNCHANGED snaps
    BY <1>2 DEF Accept
  <2>2. Feasible => Feasible'
    BY <1>2, AcceptKeepsFeasible
  <2> QED
    BY <2>1, <2>2 DEF FeasibleInv, FeasibilityKept, LastSnap
<1>3. CASE ~RecordPass /\ ~Accept
  BY <1>3, OnlyAcceptMovesStations, OtherStepsKeepSnaps
     DEF FeasibleInv, FeasibilityKept, LastSnap, route, Feasible,
         WithinCapacity, NoStationTwice, Routed
<1> QED
  BY <1>1, <1>2, <1>3

(* A route recorded as feasible is never followed by an infeasible one.    *)
THEOREM FeasibilityNeverLost == Spec => []FeasibilityKept
<1>1. FeasibleInv => FeasibilityKept
  BY DEF FeasibleInv
<1> QED
  BY <1>1, InitFeasible, NextFeasible, RouteInvariance, PTL DEF Spec

-----------------------------------------------------------------------------
(* The file on disk.                                                       *)

LEMMA InitReport == Init => ReportFaithful
BY DEF Init, ReportFaithful

LEMMA NextReport ==
  TypeOK /\ ReportFaithful /\ [Next]_vars => ReportFaithful'
<1> SUFFICES ASSUME TypeOK, ReportFaithful, [Next]_vars PROVE ReportFaithful'
  OBVIOUS
<1>1. CASE RecordPass
  <2>1. /\ pc = "boundary" /\ pc' # "done" /\ rc' = rc
        /\ file' = IF DebugMode
                     THEN [status |-> "running", passes |-> Len(snaps) + 1]
                     ELSE file
    BY <1>1 DEF RecordPass, PassOver, DebugWrite
  <2>2. Len(snaps') = Len(snaps) + 1
    BY <1>1, RecordedSnaps
  <2> QED
    BY <2>1, <2>2 DEF ReportFaithful
<1>2. CASE WriteFinal
  <2>1. /\ file' = [status |-> "complete", passes |-> Len(snaps)]
        /\ rc' = 0 /\ pc' = "done" /\ snaps' = snaps
    BY <1>2 DEF WriteFinal
  <2> QED
    BY <2>1 DEF ReportFaithful
<1>3. CASE ~RecordPass /\ ~WriteFinal
  <2>1. /\ UNCHANGED <<snaps, file, rc>>
        /\ pc = "done" => pc' = "done"
        /\ pc' = "pass" => pc = "pass"
    BY <1>3 DEF Next, vars, route, StartPass, StopSweep, SkipInactive, Attempt,
           SolveSplit, SolveLeft, SolveRight, SolveDonor, SolveFails,
           SelectDonor, NoDonorFound, Accept, Reject, GiveUp, NextBoundary,
           Abort
  <2> QED
    BY <2>1 DEF ReportFaithful
<1> QED
  BY <1>1, <1>2, <1>3

(* Complete in the file means success of the program and every pass in it. *)
THEOREM ReportAlwaysFaithful == Spec => []ReportFaithful
<1>1. RouteInv => TypeOK
  BY DEF RouteInv
<1> QED
  BY <1>1, InitReport, NextReport, RouteInvariance, PTL DEF Spec

-----------------------------------------------------------------------------
(* What an attempt may cost. *)

(* The most solves an attempt has behind it, by how far it got.            *)
Behind ==
  LET before == IF cand.donor = NoDonor THEN 0 ELSE 3
  IN  CASE pc = "split"    -> before
        [] pc = "left"     -> before + 1
        [] pc = "right"    -> before + 2
        [] pc = "donor"    -> 6
        [] pc = "decide"   -> IF cand.donor = NoDonor THEN 3 ELSE 7
        [] pc = "fallback" -> 3
        [] OTHER           -> 0

(* Each solve of a candidate adds one. *)
LEMMA SolveAdvances ==
  ASSUME cand \in Candidate, CandidateSound,
         SolveSplit \/ SolveLeft \/ SolveRight \/ SolveDonor
  PROVE  Behind' = Behind + 1 /\ Behind \in 0 .. 6
<1>1. CASE SolveSplit
  <2>1. /\ pc = "split" /\ pc' = "left" /\ cand'.donor = cand.donor
    BY <1>1 DEF SolveSplit, Candidate
  <2> QED
    BY <2>1 DEF Behind
<1>2. CASE SolveLeft
  <2>1. /\ pc = "left" /\ pc' = "right" /\ cand'.donor = cand.donor
    BY <1>2 DEF SolveLeft, Candidate
  <2> QED
    BY <2>1 DEF Behind
<1>3. CASE SolveRight
  <2>1. /\ pc = "right" /\ cand'.donor = cand.donor
        /\ pc' = IF cand.donor = NoDonor THEN "decide" ELSE "donor"
    BY <1>3 DEF SolveRight, Candidate
  <2>2. CASE cand.donor = NoDonor
    BY <2>1, <2>2 DEF Behind
  <2>3. CASE cand.donor # NoDonor
    BY <2>1, <2>3 DEF Behind
  <2> QED
    BY <2>2, <2>3
<1>4. CASE SolveDonor
  <2>1. /\ pc = "donor" /\ pc' = "decide" /\ cand'.donor = cand.donor
        /\ cand.donor # NoDonor
    BY <1>4 DEF SolveDonor, Candidate, CandidateSound
  <2> QED
    BY <2>1 DEF Behind
<1> QED
  BY <1>1, <1>2, <1>3, <1>4

(* Only the fallback has a donor. *)
FallbackOnly ==
  pc = "fallback" \/ cand.donor # NoDonor => EnableFallback

LEMMA InitFallbackOnly == Init => FallbackOnly
BY DEF Init, FallbackOnly, EmptyCand

LEMMA NextFallbackOnly ==
  TypeOK /\ FallbackOnly /\ [Next]_vars => FallbackOnly'
<1> SUFFICES ASSUME TypeOK, FallbackOnly, [Next]_vars PROVE FallbackOnly'
  OBVIOUS
<1>0. cand \in Candidate
  BY DEF TypeOK
<1>1. CASE SolveSplit \/ SolveLeft \/ SolveRight \/ SolveDonor
  BY <1>0, <1>1 DEF SolveSplit, SolveLeft, SolveRight, SolveDonor,
                    FallbackOnly, Candidate
<1>2. CASE SelectDonor
  BY <1>2 DEF SelectDonor, FallbackOnly
<1>3. CASE SolveFails \/ Reject \/ NoDonorFound \/ Accept
  BY <1>3 DEF SolveFails, Reject, NoDonorFound, Accept, GiveUp, NextBoundary,
              FallbackOnly, EmptyCand
<1>4. CASE StartPass \/ StopSweep \/ SkipInactive \/ Attempt \/ RecordPass
           \/ WriteFinal \/ Abort \/ UNCHANGED vars
  BY <1>4 DEF StartPass, StopSweep, SkipInactive, Attempt, RecordPass,
              WriteFinal, Abort, vars, FallbackOnly
<1> QED
  BY <1>1, <1>2, <1>3, <1>4 DEF Next

-----------------------------------------------------------------------------
(* Time. *)

(* With a global limit, no solve gets more than what was left of it. *)
LEMMA BudgetBound ==
  ASSUME startedAt \in Nat, startedAt < GlobalTimeLimit,
         NEW limit \in Nat
  PROVE  /\ Budget(limit) \in Int
         /\ Budget(limit) <= GlobalTimeLimit - startedAt
BY ConfigAssumption DEF Budget

LEMMA ElapsesWithin ==
  ASSUME startedAt \in Nat, startedAt < GlobalTimeLimit, clock \in Nat,
         NEW limit \in Nat, Elapses(Budget(limit))
  PROVE  \E d \in Int : /\ d <= GlobalTimeLimit - startedAt
                        /\ clock' = clock + d
<1>1. PICK d \in 0 .. Budget(limit) : clock' = clock + d
  BY DEF Elapses
<1>2. d \in Int /\ d <= GlobalTimeLimit - startedAt
  BY <1>1, BudgetBound, ConfigAssumption
<1> QED
  BY <1>1, <1>2

(* Fewer solves take less time. *)
LEMMA FewerTakeLess ==
  ASSUME NEW x \in Nat
  PROVE  /\ \A k \in 0 .. 3 : k * x <= 3 * x
         /\ \A k \in 0 .. 7 : k * x <= 7 * x
<1>1. ASSUME NEW k \in 0 .. 3 PROVE k * x <= 3 * x
  <2>1. k = 0 \/ k = 1 \/ k = 2 \/ k = 3
    OBVIOUS
  <2> QED
    BY <2>1
<1>2. ASSUME NEW k \in 0 .. 7 PROVE k * x <= 7 * x
  <2>1. \/ k = 0 \/ k = 1 \/ k = 2 \/ k = 3
        \/ k = 4 \/ k = 5 \/ k = 6 \/ k = 7
    OBVIOUS
  <2> QED
    BY <2>1
<1> QED
  BY <1>1, <1>2

(* Each solve behind took at most what was left when the attempt began.    *)
TimeInv ==
  GlobalTimeLimit > 0 /\ Attempting
    => /\ startedAt < GlobalTimeLimit
       /\ clock - startedAt <= Behind * (GlobalTimeLimit - startedAt)

LEMMA InitTime == Init => TimeInv
BY DEF Init, TimeInv, Attempting

LEMMA NextTime ==
  RouteInv /\ FallbackOnly /\ TimeInv /\ [Next]_vars => TimeInv'
<1> SUFFICES ASSUME RouteInv, FallbackOnly, TimeInv, [Next]_vars,
                    GlobalTimeLimit > 0, Attempting'
             PROVE  /\ startedAt' < GlobalTimeLimit
                    /\ clock' - startedAt'
                         <= Behind' * (GlobalTimeLimit - startedAt')
  BY DEF TimeInv
<1> DEFINE left == GlobalTimeLimit - startedAt
<1>0. /\ clock \in Nat /\ startedAt \in Nat /\ GlobalTimeLimit \in Nat
      /\ L1Limit \in Nat /\ L2Limit \in Nat /\ left \in Int
      /\ cand \in Candidate /\ CandidateSound
  BY ConfigAssumption DEF RouteInv, TypeOK
<1>1. CASE Attempt
  <2>1. /\ startedAt' = clock /\ clock' = clock /\ pc' = "split"
        /\ pc = "boundary" /\ cand' = cand /\ clock < GlobalTimeLimit
    BY <1>0, <1>1 DEF Attempt, GlobalLimitReached
  <2>2. cand' = EmptyCand
    BY <1>0, <2>1 DEF CandidateSound, Attempting
  <2>3. Behind' = 0
    BY <2>1, <2>2 DEF Behind, EmptyCand
  <2> QED
    BY <1>0, <2>1, <2>3
<1>2. CASE SolveSplit \/ SolveLeft \/ SolveRight \/ SolveDonor
  <2>1. Attempting /\ startedAt' = startedAt /\ startedAt < GlobalTimeLimit
    BY <1>2 DEF SolveSplit, SolveLeft, SolveRight, SolveDonor, Attempting,
                TimeInv
  <2>2. \E d \in Int : d <= left /\ clock' = clock + d
    <3>1. CASE SolveSplit
      BY <1>0, <2>1, <3>1, ElapsesWithin DEF SolveSplit
    <3>2. CASE SolveLeft \/ SolveRight \/ SolveDonor
      BY <1>0, <2>1, <3>2, ElapsesWithin DEF SolveLeft, SolveRight, SolveDonor
    <3> QED
      BY <1>2, <3>1, <3>2
  <2>3. Behind' = Behind + 1 /\ Behind \in 0 .. 6
    BY <1>0, <1>2, SolveAdvances
  <2>4. (Behind + 1) * left = Behind * left + left
    BY <1>0, <2>3
  <2> QED
    BY <1>0, <2>1, <2>2, <2>3, <2>4 DEF TimeInv
<1>3. CASE SolveFails
  <2>1. /\ startedAt < GlobalTimeLimit
        /\ clock - startedAt <= Behind * left
    BY <1>3 DEF SolveFails, Attempting, TimeInv
  <2>2. /\ pc' = "fallback" /\ UNCHANGED <<cand, startedAt>>
        /\ cand.donor = NoDonor /\ pc \in {"split", "left", "right"}
    BY <1>0, <1>3 DEF SolveFails, GiveUp, NextBoundary, Attempting,
                      CandidateSound
  <2>3. PICK d \in Int : d <= left /\ clock' = clock + d
    BY <1>0, <1>3, <2>1, BudgetBound DEF SolveFails, Elapses
  <2>4. Behind \in 0 .. 2 /\ Behind' = 3
    BY <2>2 DEF Behind
  <2>5. (Behind + 1) * left = Behind * left + left
    BY <1>0, <2>4
  <2>6. (Behind + 1) * left <= 3 * left
    BY <1>0, <2>1, <2>4
  <2> QED
    BY <1>0, <2>1, <2>2, <2>3, <2>4, <2>5, <2>6
<1>4. CASE SelectDonor \/ Reject
  <2>1. /\ startedAt < GlobalTimeLimit /\ UNCHANGED <<clock, startedAt>>
        /\ clock - startedAt <= Behind * left
    BY <1>4 DEF SelectDonor, Reject, GiveUp, NextBoundary, Attempting, TimeInv
  <2>2. Behind = 3
    BY <1>0, <1>4 DEF SelectDonor, Reject, GiveUp, NextBoundary, Attempting,
                      Behind
  <2>3. Behind' = 3
    <3>1. CASE SelectDonor
      <4>1. PICK m \in DonorMoves :
              cand' = [EmptyCand EXCEPT !.donor = m[1], !.moved = {m[2]}]
        BY <3>1 DEF SelectDonor
      <4>2. cand'.donor = m[1] /\ pc' = "split"
        BY <3>1, <4>1 DEF SelectDonor, EmptyCand
      <4>3. m[1] \in Segments
        BY DEF DonorMoves, DonorSegments
      <4>4. m[1] # NoDonor
        BY <4>3, RouteAssumption DEF NoDonor, Segments
      <4> QED
        BY <4>2, <4>4 DEF Behind
    <3>2. CASE Reject
      BY <3>2 DEF Reject, GiveUp, NextBoundary, Attempting, Behind
    <3> QED
      BY <1>4, <3>1, <3>2
  <2> QED
    BY <2>1, <2>2, <2>3
<1>5. CASE NoDonorFound \/ Accept \/ StartPass \/ StopSweep \/ SkipInactive
           \/ RecordPass \/ WriteFinal \/ Abort
  BY <1>5 DEF NoDonorFound, Accept, StartPass, StopSweep, SkipInactive,
              RecordPass, WriteFinal, Abort, NextBoundary, Attempting
<1>6. CASE UNCHANGED vars
  BY <1>6 DEF vars, TimeInv, Attempting, Behind
<1> QED
  BY <1>1, <1>2, <1>3, <1>4, <1>5, <1>6 DEF Next

(* Without the fallback an attempt has three solves, with it seven.        *)
LEMMA BehindBound ==
  ASSUME TypeOK, CandidateSound, FallbackOnly
  PROVE  Behind \in 0 .. 7 /\ (~EnableFallback => Behind \in 0 .. 3)
<1>1. Behind \in 0 .. 7
  BY DEF Behind
<1>2. ASSUME ~EnableFallback PROVE Behind \in 0 .. 3
  <2>1. pc # "fallback" /\ cand.donor = NoDonor /\ pc # "donor"
    BY <1>2 DEF FallbackOnly, CandidateSound
  <2> QED
    BY <2>1 DEF Behind
<1> QED
  BY <1>1, <1>2

LEMMA TimeWithinBound ==
  TypeOK /\ CandidateSound /\ FallbackOnly /\ TimeInv => OverrunBounded
<1> SUFFICES ASSUME TypeOK, CandidateSound, FallbackOnly, TimeInv,
                    GlobalTimeLimit > 0, Attempting
             PROVE  /\ startedAt < GlobalTimeLimit
                    /\ clock - startedAt <= (IF EnableFallback THEN 7 ELSE 3)
                                              * (GlobalTimeLimit - startedAt)
  BY DEF OverrunBounded, Attempting
<1> DEFINE left == GlobalTimeLimit - startedAt
<1>1. /\ startedAt < GlobalTimeLimit /\ clock - startedAt <= Behind * left
      /\ left \in Nat /\ clock - startedAt \in Int
  BY ConfigAssumption DEF TimeInv, TypeOK
<1> HIDE DEF left
<1>2. CASE EnableFallback
  <2>1. Behind \in Int /\ Behind * left <= 7 * left
    BY <1>1, BehindBound, FewerTakeLess
  <2> QED
    BY <1>1, <1>2, <2>1 DEF left
<1>3. CASE ~EnableFallback
  <2>1. Behind \in Int /\ Behind * left <= 3 * left
    BY <1>1, <1>3, BehindBound, FewerTakeLess
  <2> QED
    BY <1>1, <1>3, <2>1 DEF left
<1> QED
  BY <1>2, <1>3

(* The overrun of the global limit is bounded by the solves of one attempt.*)
THEOREM OverrunIsBounded == Spec => []OverrunBounded
<1>1. Init => FallbackOnly /\ TimeInv
  BY InitFallbackOnly, InitTime
<1>2. RouteInv /\ FallbackOnly /\ TimeInv /\ [Next]_vars
        => (FallbackOnly /\ TimeInv)'
  BY NextFallbackOnly, NextTime DEF RouteInv
<1>3. RouteInv /\ FallbackOnly /\ TimeInv => OverrunBounded
  BY TimeWithinBound DEF RouteInv
<1> QED
  BY <1>1, <1>2, <1>3, RouteInvariance, PTL DEF Spec

-----------------------------------------------------------------------------
(* Counters. *)

(* The split, and the tours, the candidate in progress has to its credit.  *)
SplitDone == IF pc \in {"left", "right", "donor", "decide"} THEN 1 ELSE 0
ToursDone ==
  CASE pc = "right"  -> 1
    [] pc = "donor"  -> 2
    [] pc = "decide" -> IF cand.donor = NoDonor THEN 2 ELSE 3
    [] OTHER         -> 0
InProgress == IF Attempting THEN 1 ELSE 0

(* The counters, less what the attempt in progress may still account for.  *)
CountInv ==
  /\ tally.attempts <= b + InProgress
  /\ tally.changes + InProgress <= tally.attempts
  /\ tally.fallbacks <= tally.changes
  /\ tally.changes + SplitDone <= tally.splits
  /\ 2 * tally.changes + tally.fallbacks + ToursDone <= tally.tsps
  /\ EnableFallback
       => tally.solves <= 7 * (tally.attempts - InProgress) + Behind
  /\ ~EnableFallback
       => tally.solves <= 3 * (tally.attempts - InProgress) + Behind
  /\ tally.splits + tally.tsps <= tally.solves
  /\ ~AllocMayFail => tally.splits + tally.tsps = tally.solves

LEMMA InitCount == Init => CountInv
BY RouteAssumption
   DEF Init, CountInv, EmptyTally, EmptyCand, Attempting, InProgress,
       SplitDone, ToursDone, Behind

(* The counters are numbers. *)
LEMMA TallyNumbers ==
  ASSUME NEW t \in Counter
  PROVE  /\ t.attempts \in Nat /\ t.changes \in Nat /\ t.fallbacks \in Nat
         /\ t.solves \in Nat /\ t.splits \in Nat /\ t.tsps \in Nat
BY DEF Counter

LEMMA CountedFields ==
  ASSUME tally \in Counter, NEW kind \in {"split", "tsp"}, Counted(kind)
  PROVE  /\ tally'.attempts = tally.attempts
         /\ tally'.changes = tally.changes
         /\ tally'.fallbacks = tally.fallbacks
         /\ tally'.solves = tally.solves + 1
         /\ tally'.splits = tally.splits + (IF kind = "split" THEN 1 ELSE 0)
         /\ tally'.tsps = tally.tsps + (IF kind = "tsp" THEN 1 ELSE 0)
BY DEF Counted, Counter

LEMMA NextCount ==
  RouteInv /\ FallbackOnly /\ CountInv /\ [Next]_vars => CountInv'
<1> SUFFICES ASSUME RouteInv, FallbackOnly, CountInv, [Next]_vars
             PROVE  CountInv'
  OBVIOUS
<1>0. /\ TypeOK /\ CandidateSound /\ cand \in Candidate
      /\ tally \in Counter /\ b \in Nat
  BY RouteAssumption DEF RouteInv, TypeOK
<1>a. /\ tally.attempts \in Nat /\ tally.changes \in Nat
      /\ tally.fallbacks \in Nat /\ tally.solves \in Nat
      /\ tally.splits \in Nat /\ tally.tsps \in Nat
  BY <1>0, TallyNumbers
<1>b. Behind \in 0 .. 7 /\ (~EnableFallback => Behind \in 0 .. 3)
  BY <1>0, BehindBound
<1>1. CASE StartPass
  <2>1. tally' = EmptyTally /\ b' = 0 /\ pc' = "boundary"
    BY <1>1 DEF StartPass, ResetTally
  <2> QED
    BY <2>1 DEF CountInv, EmptyTally, Attempting, InProgress, SplitDone,
                ToursDone, Behind
<1>2. CASE SkipInactive
  <2>1. /\ tally' = tally /\ b' = b + 1 /\ pc = "boundary"
        /\ pc' = "boundary"
    BY <1>2 DEF SkipInactive
  <2> QED
    BY <1>0, <1>a, <2>1 DEF CountInv, Attempting, InProgress, SplitDone,
                            ToursDone, Behind
<1>3. CASE Attempt
  <2>1. /\ tally'.attempts = tally.attempts + 1
        /\ tally'.changes = tally.changes
        /\ tally'.fallbacks = tally.fallbacks
        /\ tally'.solves = tally.solves
        /\ tally'.splits = tally.splits /\ tally'.tsps = tally.tsps
    BY <1>0, <1>3 DEF Attempt, Counter
  <2>2. b' = b /\ pc = "boundary" /\ pc' = "split" /\ cand' = cand
    BY <1>3 DEF Attempt
  <2>3. cand'.donor = NoDonor
    BY <1>0, <2>2 DEF CandidateSound, Attempting, EmptyCand
  <2>4. /\ InProgress = 0 /\ SplitDone = 0 /\ ToursDone = 0 /\ Behind = 0
        /\ InProgress' = 1 /\ SplitDone' = 0 /\ ToursDone' = 0
        /\ Behind' = 0
    BY <2>2, <2>3 DEF Attempting, InProgress, SplitDone, ToursDone, Behind
  <2> QED
    BY <1>0, <1>a, <2>1, <2>2, <2>4 DEF CountInv
<1>4. CASE SolveSplit \/ SolveLeft \/ SolveRight \/ SolveDonor
  <2>1. Behind' = Behind + 1 /\ Behind \in 0 .. 6
    BY <1>0, <1>4, SolveAdvances
  <2>2. b' = b /\ InProgress = 1 /\ InProgress' = 1
    BY <1>4 DEF SolveSplit, SolveLeft, SolveRight, SolveDonor, InProgress,
                Attempting
  <2>3. CASE SolveSplit
    <3>1. Counted("split") /\ pc = "split" /\ pc' = "left"
      BY <2>3 DEF SolveSplit
    <3>2. /\ SplitDone = 0 /\ ToursDone = 0
          /\ SplitDone' = 1 /\ ToursDone' = 0
      BY <3>1 DEF SplitDone, ToursDone
    <3> QED
      BY <1>0, <1>a, <2>1, <2>2, <3>1, <3>2, CountedFields DEF CountInv
  <2>4. CASE SolveLeft \/ SolveRight \/ SolveDonor
    <3>1. Counted("tsp") /\ SplitDone = 1 /\ SplitDone' = 1
      BY <2>4 DEF SolveLeft, SolveRight, SolveDonor, SplitDone
    <3>2. cand'.donor = cand.donor
      BY <1>0, <2>4 DEF SolveLeft, SolveRight, SolveDonor, Candidate
    <3>3. ToursDone' = ToursDone + 1 /\ ToursDone \in Nat
      <4>1. CASE SolveLeft
        BY <4>1 DEF SolveLeft, ToursDone
      <4>2. CASE SolveRight
        BY <3>2, <4>2 DEF SolveRight, ToursDone
      <4>3. CASE SolveDonor
        BY <1>0, <3>2, <4>3 DEF SolveDonor, ToursDone, CandidateSound
      <4> QED
        BY <2>4, <4>1, <4>2, <4>3
    <3>4. /\ tally'.attempts = tally.attempts
          /\ tally'.changes = tally.changes
          /\ tally'.fallbacks = tally.fallbacks
          /\ tally'.solves = tally.solves + 1
          /\ tally'.splits = tally.splits
          /\ tally'.tsps = tally.tsps + 1
      BY <1>0, <1>a, <3>1, CountedFields
    <3> QED
      BY <1>a, <2>1, <2>2, <3>1, <3>3, <3>4 DEF CountInv
  <2> QED
    BY <1>4, <2>3, <2>4
<1>5. CASE SolveFails
  <2>1. /\ tally'.attempts = tally.attempts
        /\ tally'.changes = tally.changes
        /\ tally'.fallbacks = tally.fallbacks
        /\ tally'.splits = tally.splits /\ tally'.tsps = tally.tsps
        /\ \/ tally'.solves = tally.solves
           \/ AllocMayFail /\ tally'.solves = tally.solves + 1
    BY <1>0, <1>5 DEF SolveFails, Counter
  <2>2. /\ Attempting /\ pc \in {"split", "left", "right", "donor"}
        /\ GiveUp
    BY <1>5 DEF SolveFails, Attempting
  <2>3. SplitDone \in Nat /\ ToursDone \in Nat /\ InProgress = 1
    BY <2>2 DEF SplitDone, ToursDone, InProgress
  <2>4. CASE EnableFallback /\ cand.donor = NoDonor
    <3>1. pc' = "fallback" /\ UNCHANGED <<b, cand>>
      BY <2>2, <2>4 DEF GiveUp
    <3>2. /\ SplitDone' = 0 /\ ToursDone' = 0 /\ InProgress' = 1
          /\ Behind' = 3
      BY <3>1 DEF SplitDone, ToursDone, InProgress, Attempting, Behind
    <3>3. Behind \in 0 .. 2
      BY <1>0, <2>2, <2>4 DEF Behind, CandidateSound
    <3> QED
      BY <1>0, <1>a, <2>1, <2>3, <2>4, <3>1, <3>2, <3>3 DEF CountInv
  <2>5. CASE ~(EnableFallback /\ cand.donor = NoDonor)
    <3>1. pc' = "boundary" /\ b' = b + 1
      BY <2>2, <2>5 DEF GiveUp, NextBoundary
    <3>2. /\ SplitDone' = 0 /\ ToursDone' = 0 /\ InProgress' = 0
          /\ Behind' = 0
      BY <3>1 DEF SplitDone, ToursDone, InProgress, Attempting, Behind
    <3>3. Behind \in 0 .. 6 /\ (~EnableFallback => Behind \in 0 .. 2)
      BY <1>0, <2>2 DEF Behind, FallbackOnly, CandidateSound
    <3> QED
      BY <1>0, <1>a, <2>1, <2>3, <3>1, <3>2, <3>3 DEF CountInv
  <2> QED
    BY <2>4, <2>5
<1>6. CASE SelectDonor
  <2>1. /\ UNCHANGED <<tally, b>> /\ pc = "fallback" /\ pc' = "split"
    BY <1>6 DEF SelectDonor
  <2>2. /\ SplitDone = 0 /\ ToursDone = 0 /\ InProgress = 1 /\ Behind = 3
        /\ SplitDone' = 0 /\ ToursDone' = 0 /\ InProgress' = 1
    BY <2>1 DEF SplitDone, ToursDone, InProgress, Attempting, Behind
  <2>3. EnableFallback
    BY <2>1 DEF FallbackOnly
  <2>4. Behind' = 3
    <3>1. PICK m \in DonorMoves :
            cand' = [EmptyCand EXCEPT !.donor = m[1], !.moved = {m[2]}]
      BY <1>6 DEF SelectDonor
    <3>2. cand'.donor = m[1]
      BY <3>1 DEF EmptyCand
    <3>3. m[1] \in Segments
      BY DEF DonorMoves, DonorSegments
    <3>4. m[1] # NoDonor
      BY <3>3, RouteAssumption DEF NoDonor, Segments
    <3> QED
      BY <2>1, <3>2, <3>4 DEF Behind
  <2> QED
    BY <1>0, <1>a, <2>1, <2>2, <2>3, <2>4 DEF CountInv
<1>7. CASE NoDonorFound
  <2>1. /\ UNCHANGED tally /\ pc = "fallback" /\ pc' = "boundary"
        /\ b' = b + 1 /\ EnableFallback
    BY <1>7 DEF NoDonorFound, NextBoundary, FallbackOnly
  <2>2. /\ SplitDone = 0 /\ ToursDone = 0 /\ InProgress = 1 /\ Behind = 3
        /\ SplitDone' = 0 /\ ToursDone' = 0 /\ InProgress' = 0
        /\ Behind' = 0
    BY <2>1 DEF SplitDone, ToursDone, InProgress, Attempting, Behind
  <2> QED
    BY <1>0, <1>a, <2>1, <2>2 DEF CountInv
<1>8. CASE Accept
  <2> DEFINE m == IF cand.donor = NoDonor THEN 0 ELSE 1
  <2>1. pc = "decide" /\ pc' = "boundary" /\ b' = b + 1
    BY <1>8 DEF Accept, NextBoundary
  <2>2. /\ SplitDone = 1 /\ ToursDone = 2 + m /\ InProgress = 1
        /\ SplitDone' = 0 /\ ToursDone' = 0 /\ InProgress' = 0
        /\ Behind' = 0 /\ m \in {0, 1}
    BY <2>1 DEF SplitDone, ToursDone, InProgress, Attempting, Behind
  <2>3. tally' = [tally EXCEPT !.changed = TRUE, !.changes = @ + 1,
                               !.fallbacks = @ + m,
                               !.gain = [@ EXCEPT ![b] = Gain]]
    BY <1>8 DEF Accept, CountChange
  <2> HIDE DEF m
  <2>4. /\ tally'.attempts = tally.attempts
        /\ tally'.changes = tally.changes + 1
        /\ tally'.fallbacks = tally.fallbacks + m
        /\ tally'.solves = tally.solves
        /\ tally'.splits = tally.splits /\ tally'.tsps = tally.tsps
    BY <1>0, <2>3 DEF Counter
  <2> QED
    BY <1>0, <1>a, <1>b, <2>1, <2>2, <2>4 DEF CountInv
<1>9. CASE Reject
  <2>1. pc = "decide" /\ UNCHANGED tally /\ GiveUp
    BY <1>9 DEF Reject
  <2>2. SplitDone \in Nat /\ ToursDone \in Nat /\ InProgress = 1
    BY <2>1 DEF SplitDone, ToursDone, InProgress, Attempting
  <2>3. SplitDone' = 0 /\ ToursDone' = 0
    BY <2>1 DEF GiveUp, NextBoundary, SplitDone, ToursDone
  <2>4. CASE EnableFallback /\ cand.donor = NoDonor
    <3>1. pc' = "fallback" /\ b' = b
      BY <2>1, <2>4 DEF GiveUp
    <3>2. InProgress' = 1 /\ Behind' = 3 /\ Behind = 3
      BY <2>1, <2>4, <3>1 DEF InProgress, Attempting, Behind
    <3> QED
      BY <1>0, <1>a, <2>1, <2>2, <2>3, <3>1, <3>2 DEF CountInv
  <2>5. CASE ~(EnableFallback /\ cand.donor = NoDonor)
    <3>1. pc' = "boundary" /\ b' = b + 1
      BY <2>1, <2>5 DEF GiveUp, NextBoundary
    <3>2. InProgress' = 0 /\ Behind' = 0
      BY <3>1 DEF InProgress, Attempting, Behind
    <3> QED
      BY <1>0, <1>a, <1>b, <2>1, <2>2, <2>3, <3>1, <3>2 DEF CountInv
  <2> QED
    BY <2>4, <2>5
<1>10. CASE StopSweep \/ RecordPass \/ WriteFinal \/ Abort
  <2>1. UNCHANGED <<tally, b>> /\ ~Attempting /\ ~Attempting'
    BY <1>10 DEF StopSweep, RecordPass, PassOver, WriteFinal, Abort, Attempting
  <2>2. /\ SplitDone = 0 /\ ToursDone = 0 /\ InProgress = 0 /\ Behind = 0
        /\ SplitDone' = 0 /\ ToursDone' = 0 /\ InProgress' = 0
        /\ Behind' = 0
    BY <2>1 DEF SplitDone, ToursDone, InProgress, Attempting, Behind
  <2> QED
    BY <2>1, <2>2 DEF CountInv
<1>11. CASE UNCHANGED vars
  BY <1>11 DEF vars, CountInv, SplitDone, ToursDone, InProgress, Attempting,
               Behind
<1> QED
  BY <1>1, <1>2, <1>3, <1>4, <1>5, <1>6, <1>7, <1>8, <1>9, <1>10, <1>11
     DEF Next

LEMMA CountsMatch ==
  TypeOK /\ CandidateSound /\ FallbackOnly /\ CountInv => SolvesMatchAttempts
<1> SUFFICES ASSUME TypeOK, CandidateSound, FallbackOnly, CountInv
             PROVE  SolvesMatchAttempts
  OBVIOUS
<1>1. /\ tally.attempts \in Nat /\ tally.changes \in Nat
      /\ tally.fallbacks \in Nat /\ tally.solves \in Nat
      /\ tally.splits \in Nat /\ tally.tsps \in Nat
  BY TallyNumbers DEF TypeOK
<1>2. Behind \in 0 .. 7 /\ (~EnableFallback => Behind \in 0 .. 3)
  BY BehindBound
<1>3. /\ b \in Nat /\ N \in Nat /\ b + InProgress <= N
      /\ InProgress \in {0, 1}
  BY RouteAssumption DEF TypeOK, Attempting, InProgress, Segments
<1>4. /\ SplitDone \in Nat /\ ToursDone \in Nat
      /\ InProgress = 0 => Behind = 0
  BY DEF SplitDone, ToursDone, InProgress, Attempting, Behind
<1> QED
  BY <1>1, <1>2, <1>3, <1>4 DEF CountInv, SolvesMatchAttempts

(* The counters of a pass match its attempts and its solves.               *)
THEOREM SolvesAlwaysMatch == Spec => []SolvesMatchAttempts
<1>1. Init => FallbackOnly /\ CountInv
  BY InitFallbackOnly, InitCount
<1>2. RouteInv /\ FallbackOnly /\ CountInv /\ [Next]_vars
        => (FallbackOnly /\ CountInv)'
  BY NextFallbackOnly, NextCount DEF RouteInv
<1>3. RouteInv /\ FallbackOnly /\ CountInv => SolvesMatchAttempts
  BY CountsMatch DEF RouteInv
<1> QED
  BY <1>1, <1>2, <1>3, RouteInvariance, PTL DEF Spec

-----------------------------------------------------------------------------
(* The sums of the reports. *)
LEMMA SumIsTotal ==
  ASSUME NEW f
  PROVE  Sum(f) = Total(f, DOMAIN f)
BY MapThenSumSetIsTotal DEF Sum

LEMMA SumIsNumber ==
  ASSUME NEW S, IsFiniteSet(S), NEW f \in [S -> Int]
  PROVE  Sum(f) \in Int
<1>1. DOMAIN f = S /\ \A i \in S : f[i] \in Int  OBVIOUS
<1> QED BY <1>1, SumIsTotal, TotalRemove

(* One record more. *)
LEMMA SumAppended ==
  ASSUME NEW n \in Nat, NEW f, NEW g, DOMAIN f = 1 .. n, DOMAIN g = 1 .. n + 1,
         \A k \in 1 .. n : f[k] \in Int /\ g[k] = f[k], g[n + 1] \in Int
  PROVE  Sum(f) \in Int /\ Sum(g) = Sum(f) + g[n + 1]
<1>1. IsFiniteSet(1 .. n)  BY FS_Interval
<1>2. Total(g, 1 .. n) = Total(f, 1 .. n) /\ Total(f, 1 .. n) \in Int
  BY <1>1, TotalSame, TotalRemove
<1>3. Total(g, 1 .. n + 1) = g[n + 1] + Total(g, 1 .. n)
  <2>1. \A k \in 1 .. n + 1 : g[k] \in Int
    <3> SUFFICES ASSUME NEW k \in 1 .. n + 1 PROVE g[k] \in Int  OBVIOUS
    <3>1. k \in 1 .. n \/ k = n + 1  OBVIOUS
    <3> QED BY <3>1
  <2>2. Total(g, 1 .. n + 1) = g[n + 1] + Total(g, 1 .. (n + 1) - 1)
    BY <2>1, TotalLast
  <2>3. (n + 1) - 1 = n  OBVIOUS
  <2> QED BY <2>2, <2>3
<1> QED BY <1>2, <1>3, SumIsTotal

-----------------------------------------------------------------------------
(* The totals of the run. *)

Counts == {"attempts", "changes", "fallbacks", "solves"}

(* The pass in progress counts towards the totals already, its solves      *)
(* excepted.                                                               *)
Running(count) ==
  IF count # "solves" /\ (pc = "boundary" \/ Attempting)
    THEN tally[count] ELSE 0

TotalsInv ==
  /\ Len(snaps) >= 1
  /\ pc # "done" =>
       \A count \in Counts : totals[count] = Recorded(count) + Running(count)

(* The records of the passes are well typed, and one is appended. *)
LEMMA RecordedTypes ==
  ASSUME TypeOK
  PROVE  /\ Len(snaps) \in Nat /\ DOMAIN snaps = 1 .. Len(snaps)
         /\ \A k \in 1 .. Len(snaps) :
              /\ snaps[k].tally \in Counter
              /\ snaps[k].dist \in [Segments -> Nat]
         /\ IsFiniteSet(Segments)
<1>1. snaps \in Seq(PassRecord)  BY DEF TypeOK
<1>2. \A k \in 1 .. Len(snaps) : snaps[k] \in PassRecord
  BY <1>1, ElementOfSeq
<1>3. IsFiniteSet(Segments)  BY RouteAssumption, FS_Interval DEF Segments
<1> QED BY <1>1, <1>2, <1>3, LenProperties DEF PassRecord

LEMMA CountsAreNumbers ==
  ASSUME NEW count \in Counts
  PROVE  /\ \A t \in Counter : t[count] \in Nat
         /\ \A t \in RunCounter : t[count] \in Nat
BY DEF Counts, Counter, RunCounter

LEMMA RecordedGrows ==
  ASSUME TypeOK, TypeOK', RecordPass, NEW count \in Counts
  PROVE  /\ Recorded(count) \in Int
         /\ Recorded(count)' = Recorded(count) + tally[count]
<1> DEFINE n == Len(snaps)
<1>1. /\ n \in Nat /\ DOMAIN snaps = 1 .. n /\ DOMAIN snaps' = 1 .. n + 1
      /\ \A k \in 1 .. n : snaps'[k] = snaps[k] /\ snaps[k].tally \in Counter
      /\ snaps'[n + 1].tally = tally /\ tally \in Counter
  <2>1. Len(snaps') = n + 1 /\ snaps'[n + 1] = Snapshot(passIndex, tally)
        /\ \A k \in 1 .. n : snaps'[k] = snaps[k]
    BY RecordedSnaps
  <2>2. snaps' \in Seq(PassRecord)  BY DEF TypeOK
  <2>3. DOMAIN snaps' = 1 .. n + 1  BY <2>1, <2>2, LenProperties
  <2> QED BY <2>1, <2>3, RecordedTypes, SMTT(30) DEF TypeOK, Snapshot
<1> HIDE DEF n
<1> DEFINE A(s) == [k \in DOMAIN s |-> s[k].tally[count]]
<1>2. Sum(A(snaps)) \in Int /\ Sum(A(snaps')) = Sum(A(snaps)) + tally[count]
  <2>1. /\ DOMAIN A(snaps) = 1 .. n /\ DOMAIN A(snaps') = 1 .. n + 1
        /\ \A k \in 1 .. n : A(snaps)[k] \in Int /\ A(snaps')[k] = A(snaps)[k]
        /\ A(snaps')[n + 1] = tally[count] /\ tally[count] \in Int
    BY <1>1, CountsAreNumbers
  <2> HIDE DEF A
  <2> QED BY <1>1, <2>1, SumAppended
<1>3. Recorded(count) = Sum(A(snaps))
  BY DEF Recorded
<1>4. Recorded(count)' = Sum(A(snaps'))
  BY DEF Recorded
<1> HIDE DEF A
<1> QED BY <1>2, <1>3, <1>4

LEMMA RecordedSame ==
  ASSUME UNCHANGED snaps
  PROVE  \A count : Recorded(count)' = Recorded(count)
BY DEF Recorded

LEMMA InitTotals == Init => TotalsInv
<1> SUFFICES ASSUME Init PROVE TotalsInv  OBVIOUS
<1>1. TypeOK  BY InitTypeOK
<1>2. Len(snaps) = 1 /\ DOMAIN snaps = {1} /\ snaps[1].tally = EmptyTally
  BY DEF Init, Snapshot
<1>3. ASSUME NEW count \in Counts PROVE Recorded(count) = 0
  <2> DEFINE f == [k \in DOMAIN snaps |-> snaps[k].tally[count]]
  <2>1. DOMAIN f = {1} /\ f[1] = 0
    BY <1>2 DEF EmptyTally, Counts
  <2>2. Recorded(count) = Sum(f)  BY DEF Recorded
  <2> HIDE DEF f
  <2> QED BY <2>1, <2>2, SumIsTotal, TotalSingle
<1>4. \A count \in Counts : totals[count] = 0 /\ Running(count) = 0
  BY DEF Init, EmptyTotals, Counts, Running, Attempting
<1> QED BY <1>2, <1>3, <1>4 DEF TotalsInv

LEMMA RecordedIsNumber ==
  ASSUME TypeOK, NEW count \in Counts
  PROVE  Recorded(count) \in Int
<1> DEFINE f == [k \in DOMAIN snaps |-> snaps[k].tally[count]]
<1>1. DOMAIN f = 1 .. Len(snaps) /\ \A k \in 1 .. Len(snaps) : f[k] \in Int
      BY RecordedTypes, CountsAreNumbers
<1>2. IsFiniteSet(1 .. Len(snaps))  BY RecordedTypes, FS_Interval
<1>3. Recorded(count) = Sum(f)  BY DEF Recorded
<1> HIDE DEF f
<1> QED BY <1>1, <1>2, <1>3, SumIsTotal, TotalRemove

(* Where the passes stay as they are, the totals move with the tally.      *)
LEMMA TotalsFollow ==
  ASSUME TypeOK, TypeOK', TotalsInv, UNCHANGED snaps, pc # "done",
         \A count \in Counts :
           totals'[count] - Running(count)' = totals[count] - Running(count)
  PROVE  TotalsInv'
<1>1. ASSUME NEW count \in Counts
      PROVE  totals'[count] = Recorded(count)' + Running(count)'
  <2>1. totals[count] = Recorded(count) + Running(count)
    BY DEF TotalsInv
  <2>2. Recorded(count)' = Recorded(count) BY RecordedSame
  <2>3. Recorded(count) \in Int  BY RecordedIsNumber
  <2>4. /\ totals[count] \in Int /\ totals'[count] \in Int
        /\ Running(count) \in Int /\ Running(count)' \in Int
    BY CountsAreNumbers DEF TypeOK, Running
  <2>5. totals'[count] - Running(count)' = totals[count] - Running(count)
    OBVIOUS
  <2> QED BY <2>1, <2>2, <2>3, <2>4, <2>5
<1> QED BY <1>1 DEF TotalsInv

PassOpen == pc = "boundary" \/ Attempting

LEMMA NextTotals == RouteInv /\ TotalsInv /\ [Next]_vars => TotalsInv'
<1> SUFFICES ASSUME RouteInv, TotalsInv, [Next]_vars PROVE TotalsInv'
  OBVIOUS
<1>0. /\ TypeOK /\ TypeOK' /\ tally \in Counter /\ tally' \in Counter
      /\ totals \in RunCounter
  BY StepTypes DEF TypeOK
<1>1. CASE RecordPass
  <2>1. pc = "boundary" /\ pc' \in {"pass", "write"} /\ pc # "done"
    BY <1>1 DEF RecordPass, PassOver
  <2>2. ASSUME NEW count \in Counts
        PROVE  totals'[count] = Recorded(count)' + Running(count)'
    <3>1. totals[count] = Recorded(count) + Running(count)
      BY <2>1 DEF TotalsInv
    <3>2. /\ Recorded(count) \in Int
          /\ Recorded(count)' = Recorded(count) + tally[count]
      BY <1>0, <1>1, RecordedGrows
    <3>3. Running(count)' = 0
      BY <2>1 DEF Running, Attempting
    <3>4. totals' = [totals EXCEPT !.solves = @ + tally.solves]
      BY <1>1 DEF RecordPass
    <3>5. CASE count = "solves"
      <4>1. Running(count) = 0  BY <3>5 DEF Running
      <4>2. totals'[count] = totals[count] + tally[count]
        BY <1>0, <3>4, <3>5 DEF RunCounter
      <4> QED BY <3>1, <3>2, <3>3, <4>1, <4>2, <1>0, CountsAreNumbers
    <3>6. CASE count # "solves"
      <4>1. Running(count) = tally[count]  BY <2>1, <3>6 DEF Running
      <4>2. totals'[count] = totals[count]
        BY <1>0, <3>4, <3>6 DEF RunCounter, Counts
      <4> QED BY <3>1, <3>2, <3>3, <4>1, <4>2, <1>0, CountsAreNumbers
    <3> QED BY <3>5, <3>6
  <2>3. Len(snaps') >= 1  BY <1>0, <1>1, RecordedSnaps
  <2> QED BY <2>2, <2>3 DEF TotalsInv
<1>2. CASE WriteFinal \/ Abort
  <2>1. pc' = "done" /\ UNCHANGED snaps
    BY <1>2 DEF WriteFinal, Abort
  <2> QED BY <2>1 DEF TotalsInv
<1>3. CASE pc = "done"
  <2>1. UNCHANGED <<pc, snaps>>
    BY <1>3 DEF Next, vars, StartPass, StopSweep, SkipInactive, Attempt,
                SolveSplit, SolveLeft, SolveRight, SolveDonor, SolveFails,
                SelectDonor, NoDonorFound, Accept, Reject, RecordPass,
                PassOver, WriteFinal, Abort
  <2> QED BY <1>3, <2>1 DEF TotalsInv
<1>4. ASSUME ~RecordPass, pc # "done",
             \A count \in Counts :
               totals'[count] - Running(count)' = totals[count] - Running(count)
      PROVE  TotalsInv'
  <2>1. UNCHANGED snaps  BY <1>4, OtherStepsKeepSnaps
  <2> QED BY <1>0, <1>4, <2>1, TotalsFollow
<1> DEFINE Follows == \A count \in Counts :
               totals'[count] - Running(count)' = totals[count] - Running(count)
<1>5. CASE StartPass \/ StopSweep
  <2>1. /\ pc = "pass" /\ totals' = totals
        /\ pc' = "write" \/ (pc' = "boundary" /\ tally' = EmptyTally)
    <3>1. CASE StartPass
      BY <3>1 DEF StartPass, ResetTally
    <3>2. CASE StopSweep
      BY <3>2 DEF StopSweep
    <3> QED BY <1>5, <3>1, <3>2
  <2>2. \A count \in Counts : Running(count) = 0 /\ Running(count)' = 0
    BY <2>1 DEF Running, Attempting, EmptyTally, Counts
  <2>3. Follows  BY <2>1, <2>2
  <2>4. ~RecordPass  BY <2>1 DEF RecordPass, PassOver
  <2> QED BY <1>4, <2>1, <2>3, <2>4
<1>6. ASSUME PassOpen, PassOpen',
             \A count \in {"attempts", "changes", "fallbacks"} :
               totals'[count] - tally'[count] = totals[count] - tally[count],
             totals'.solves = totals.solves, ~RecordPass
      PROVE  TotalsInv'
  <2>1. ASSUME NEW count \in Counts
        PROVE  totals'[count] - Running(count)' = totals[count] - Running(count)
    <3>1. CASE count = "solves"
      <4>1. Running(count) = 0 /\ Running(count)' = 0
        BY <3>1 DEF Running
      <4> QED BY <1>6, <3>1, <4>1
    <3>2. CASE count # "solves"
      <4>1. Running(count) = tally[count] /\ Running(count)' = tally'[count]
        BY <1>6, <3>2 DEF Running, PassOpen
      <4>2. count \in {"attempts", "changes", "fallbacks"}
        BY <3>2 DEF Counts
      <4> QED BY <1>6, <4>1, <4>2
    <3> QED BY <3>1, <3>2
  <2>2. pc # "done"  BY <1>6 DEF PassOpen, Attempting
  <2> QED BY <1>4, <1>6, <2>1, <2>2
<1>7. CASE Attempt
  <2>1. PassOpen /\ PassOpen' /\ ~RecordPass
    BY <1>7 DEF Attempt, PassOpen, Attempting, RecordPass, PassOver
  <2>2. /\ tally' = [tally EXCEPT !.attempts = @ + 1]
        /\ totals' = [totals EXCEPT !.attempts = @ + 1]
    BY <1>7 DEF Attempt
  <2>3. /\ tally'.attempts = tally.attempts + 1
        /\ tally'.changes = tally.changes /\ tally'.fallbacks = tally.fallbacks
        /\ totals'.attempts = totals.attempts + 1
        /\ totals'.changes = totals.changes
        /\ totals'.fallbacks = totals.fallbacks
        /\ totals'.solves = totals.solves
    BY <1>0, <2>2 DEF Counter, RunCounter
  <2>4. tally.attempts \in Int /\ totals.attempts \in Int
    BY <1>0 DEF Counter, RunCounter
  <2>5. \A count \in {"attempts", "changes", "fallbacks"} :
               totals'[count] - tally'[count] = totals[count] - tally[count]
    BY <2>3, <2>4
  <2> QED BY <1>6, <2>1, <2>3, <2>5
<1>8. CASE Accept
  <2>1. PassOpen /\ PassOpen' /\ ~RecordPass
    BY <1>8 DEF Accept, NextBoundary, PassOpen, Attempting, RecordPass, PassOver
  <2> DEFINE moved == IF cand.donor = NoDonor THEN 0 ELSE 1
  <2>2. /\ tally' = [tally EXCEPT !.changed = TRUE, !.changes = @ + 1,
                                  !.fallbacks = @ + moved,
                                  !.gain = [@ EXCEPT ![b] = Gain]]
        /\ totals' = [totals EXCEPT !.changes = @ + 1, !.fallbacks = @ + moved]
        /\ moved \in Int
    BY <1>8 DEF Accept, CountChange
  <2> HIDE DEF moved
  <2>3. /\ tally'.attempts = tally.attempts
        /\ tally'.changes = tally.changes + 1
        /\ tally'.fallbacks = tally.fallbacks + moved
    <3> HIDE DEF Gain
    <3> QED BY <1>0, <2>2 DEF Counter
  <2>31. /\ totals'.attempts = totals.attempts
        /\ totals'.changes = totals.changes + 1
        /\ totals'.fallbacks = totals.fallbacks + moved
        /\ totals'.solves = totals.solves
    BY <1>0, <2>2 DEF RunCounter
  <2>4. /\ tally.changes \in Int /\ totals.changes \in Int
        /\ tally.fallbacks \in Int /\ totals.fallbacks \in Int
    BY <1>0 DEF Counter, RunCounter
  <2>5. \A count \in {"attempts", "changes", "fallbacks"} :
               totals'[count] - tally'[count] = totals[count] - tally[count]
    <3>1. /\ (totals.changes + 1) - (tally.changes + 1)
               = totals.changes - tally.changes
          /\ (totals.fallbacks + moved) - (tally.fallbacks + moved)
               = totals.fallbacks - tally.fallbacks
      BY <2>2, <2>4
    <3> QED BY <2>3, <2>31, <3>1
  <2> QED BY <1>6, <2>1, <2>31, <2>5
<1>9. ASSUME PassOpen, PassOpen', totals' = totals, ~RecordPass,
             /\ tally'.attempts = tally.attempts
             /\ tally'.changes = tally.changes
             /\ tally'.fallbacks = tally.fallbacks
      PROVE  TotalsInv'
  <2>1. \A count \in {"attempts", "changes", "fallbacks"} :
               totals'[count] - tally'[count] = totals[count] - tally[count]
    BY <1>9
  <2> QED BY <1>6, <1>9, <2>1
<1>10. CASE SolveSplit \/ SolveLeft \/ SolveRight \/ SolveDonor
  <2>1. PassOpen /\ PassOpen' /\ totals' = totals /\ ~RecordPass
        /\ \E kind \in {"split", "tsp"} : Counted(kind)
    BY <1>10 DEF SolveSplit, SolveLeft, SolveRight, SolveDonor, PassOpen,
                 Attempting, RecordPass, PassOver
  <2> QED BY <1>0, <1>9, <2>1, CountedFields
<1>11. CASE SolveFails
  <2>1. PassOpen /\ PassOpen' /\ totals' = totals /\ ~RecordPass
    BY <1>11 DEF SolveFails, GiveUp, NextBoundary, PassOpen, Attempting,
                 RecordPass, PassOver
  <2>2. tally' = tally \/ tally' = [tally EXCEPT !.solves = @ + 1]
    BY <1>11 DEF SolveFails
  <2>3. /\ tally'.attempts = tally.attempts
        /\ tally'.changes = tally.changes
        /\ tally'.fallbacks = tally.fallbacks
    BY <1>0, <2>2 DEF Counter
  <2> QED BY <1>9, <2>1, <2>3
<1>12. CASE SkipInactive \/ SelectDonor \/ NoDonorFound \/ Reject
  <2>1. PassOpen /\ PassOpen' /\ totals' = totals /\ ~RecordPass /\ tally' = tally
    <3>1. CASE SkipInactive
      BY <3>1 DEF SkipInactive, PassOpen, RecordPass, PassOver
    <3>2. CASE SelectDonor \/ NoDonorFound \/ Reject
      BY <3>2 DEF SelectDonor, NoDonorFound, Reject, GiveUp,
                NextBoundary, PassOpen, Attempting, RecordPass, PassOver
    <3> QED BY <1>12, <3>1, <3>2
  <2> QED BY <1>9, <2>1
<1>13. CASE UNCHANGED vars
  <2>1. UNCHANGED <<pc, snaps, totals, tally>>  BY <1>13 DEF vars
  <2>2. Len(snaps)' = Len(snaps)
        /\ \A count \in Counts : Recorded(count)' = Recorded(count)
    BY <2>1, RecordedSame
  <2>3. \A count \in Counts : Running(count)' = Running(count)
    BY <2>1 DEF Running, Attempting
  <2> QED BY <2>1, <2>2, <2>3 DEF TotalsInv
<1> QED BY <1>1, <1>2, <1>5, <1>7, <1>8, <1>10, <1>11, <1>12, <1>13 DEF Next

(* The totals of the summary are the sums over the passes of the file.     *)
THEOREM TotalsAlwaysAddUp == Spec => []TotalsAddUp
<1>1. ASSUME TypeOK, TotalsInv PROVE TotalsAddUp
  <2> SUFFICES ASSUME pc = "write", NEW count \in Counts
               PROVE  totals[count] = Recorded(count)
    BY DEF TotalsAddUp, Counts
  <2>1. totals[count] = Recorded(count) + Running(count) /\ Running(count) = 0
    BY <1>1 DEF TotalsInv, Running, Attempting
  <2>2. Recorded(count) \in Int  BY <1>1, RecordedIsNumber
  <2> QED BY <2>1, <2>2
<1>2. Init => TotalsInv  BY InitTotals
<1>3. RouteInv /\ TotalsInv /\ [Next]_vars => TotalsInv'  BY NextTotals
<1>4. RouteInv => TypeOK  BY DEF RouteInv
<1> QED BY <1>1, <1>2, <1>3, <1>4, RouteInvariance, PTL DEF Spec

-----------------------------------------------------------------------------
(* The gains. *)

GainsInv ==
  /\ Len(snaps) >= 1
  /\ pc \in {"pass", "write"} => dist = LastSnap.dist
  /\ PassOpen =>
       /\ Explains(tally, LastSnap.dist, dist)
       /\ \A i \in Segments : i >= b => tally.gain[i] = 0
  /\ GainsExplainTrajectory

(* A route that did not change is explained by no gain. *)
LEMMA NothingExplained ==
  ASSUME NEW d \in [Segments -> Nat]
  PROVE  Explains(EmptyTally, d, d)
<1>1. IsFiniteSet(Segments)  BY RouteAssumption, FS_Interval DEF Segments
<1> DEFINE g == EmptyTally.gain
           improved == {i \in Segments : g[i] # 0}
<1>2. g \in [Segments -> Int] /\ \A i \in Segments : g[i] = 0
  BY DEF EmptyTally
<1>3. improved = {}  BY <1>2
<1>4. Cardinality(improved) = 0  BY <1>3, FS_EmptySet
<1>5. /\ EmptyTally.changes = 0 /\ EmptyTally.changed = FALSE
  BY DEF EmptyTally
<1>6. Sum(g) = 0
  <2> DEFINE T == {U \in SUBSET Segments : Total(g, U) = 0}
  <2>1. {} \in T  BY TotalEmpty
  <2>2. ASSUME NEW U \in SUBSET Segments, NEW x \in Segments \ U, U \in T
        PROVE  U \cup {x} \in T
    <3>1. IsFiniteSet(U)  BY <1>1, FS_Subset
    <3>2. \A y \in U \cup {x} : g[y] \in Int  BY <1>2
    <3> HIDE DEF g
    <3>3. Total(g, U \cup {x}) = g[x] + Total(g, U)  BY <3>1, <3>2, TotalAdd
    <3>4. Total(g, U) = 0 /\ g[x] = 0  BY <1>2, <2>2
    <3> QED BY <3>3, <3>4
  <2>3. Segments \in T
    <3> HIDE DEF T
    <3> QED BY <1>1, <2>1, <2>2, GrownSubset
  <2>4. DOMAIN g = Segments  BY <1>2
  <2> HIDE DEF g
  <2> QED BY <2>3, <2>4, SumIsTotal
<1>7. Sum(d) \in Int
  <2>1. d \in [Segments -> Int]  OBVIOUS
  <2> QED BY <1>1, <2>1, SumIsNumber
<1> HIDE DEF g
<1>8. Sum(d) - Sum(g) = Sum(d)  BY <1>6, <1>7
<1> QED BY <1>3, <1>4, <1>5, <1>8 DEF Explains, g

(* Only the changes and their gains matter. *)
LEMMA ExplainsSame ==
  ASSUME NEW t, NEW u, NEW x, NEW y, u.gain = t.gain, u.changes = t.changes,
         u.changed = t.changed, Explains(t, x, y)
  PROVE  Explains(u, x, y)
BY DEF Explains

(* The sum of the lengths loses the gain of an accepted candidate.         *)
LEMMA AcceptShortens ==
  ASSUME TypeOK, CandidateSound, Accept
  PROVE  /\ Gain \in Int /\ Gain > Eps
         /\ Sum(dist) \in Int /\ Sum(dist') = Sum(dist) - Gain
<1> DEFINE l == cand.leftDist
           r == cand.rightDist
           e == cand.donorDist
           D == cand.donor
           x == dist[L]
           y == dist[R]
           z == dist[D]
<1>1. /\ dist \in [Segments -> Nat] /\ dist' \in [Segments -> Nat]
      /\ l \in Nat /\ r \in Nat /\ e \in Nat /\ Eps \in Nat
      /\ L \in Segments /\ R \in Segments /\ L # R
      /\ IsFiniteSet(Segments)
  <2>1. cand \in Candidate /\ Eps \in Nat /\ dist \in [Segments -> Nat]
    BY RouteAssumption DEF TypeOK
  <2>2. l \in Nat /\ r \in Nat /\ e \in Nat  BY <2>1 DEF Candidate
  <2>3. IsFiniteSet(Segments)  BY RouteAssumption, FS_Interval DEF Segments
  <2>4. dist' \in [Segments -> Nat] /\ L \in Segments /\ R \in Segments /\ L # R
    BY AcceptPointwise, AcceptRouteType
  <2> QED BY <2>1, <2>2, <2>3, <2>4
<1>2. /\ dist'[L] = l /\ dist'[R] = r
      /\ \A i \in Segments \ {L, R, D} : dist'[i] = dist[i]
  BY AcceptPointwise
<1>3. D # NoDonor => D \in Segments \ {L, R} /\ dist'[D] = e
  BY AcceptPointwise
<1>4. D = NoDonor => D \notin Segments
  BY RouteAssumption DEF NoDonor, Segments
<1>5. IF D = NoDonor THEN l + r + Eps < x + y /\ Gain = x + y - (l + r)
      ELSE l + r + e + Eps < x + y + z /\ Gain = x + y + z - (l + r + e)
  BY DEF Accept, Improves, Gain
<1>6. x \in Nat /\ y \in Nat /\ (D # NoDonor => z \in Nat)
  BY <1>1, <1>3
<1>7. Gain \in Int /\ Gain > Eps
  <2>1. CASE D = NoDonor
    <3> HIDE DEF l, r, e, D, x, y, z
    <3> QED BY <1>1, <1>5, <1>6, <2>1
  <2>2. CASE D # NoDonor
    <3> HIDE DEF l, r, e, D, x, y, z
    <3> QED BY <1>1, <1>5, <1>6, <2>2
  <2> QED BY <2>1, <2>2
<1> DEFINE d1 == [dist EXCEPT ![L] = l]
           d2 == [d1 EXCEPT ![R] = r]
<1>8. /\ d1 \in [Segments -> Int] /\ d1[L] = l
      /\ \A i \in Segments \ {L} : d1[i] = dist[i]
  BY <1>1
<1>9. /\ d2 \in [Segments -> Int] /\ d2[L] = l /\ d2[R] = r
      /\ \A i \in Segments \ {R} : d2[i] = d1[i]
      /\ \A i \in Segments \ {L, R} : d2[i] = dist[i]
  BY <1>1
<1> HIDE DEF d1, d2
<1>10. dist \in [Segments -> Int] /\ dist' \in [Segments -> Int]
  BY <1>1
<1>11. Total(d1, Segments) = Total(dist, Segments) + l - x
  BY <1>1, <1>8, <1>10, TotalChange
<1>12. Total(d2, Segments) = Total(d1, Segments) + r - y
  <2>1. d1[R] = y  BY <1>1, <1>8
  <2>2. Total(d2, Segments) = Total(d1, Segments) + d2[R] - d1[R]
    <3>1. /\ R \in Segments /\ IsFiniteSet(Segments)
          /\ \A i \in Segments : d1[i] \in Int /\ d2[i] \in Int
          /\ \A i \in Segments \ {R} : d2[i] = d1[i]
      BY <1>1, <1>8, <1>9
    <3> QED BY ONLY <3>1, TotalChange
  <2> QED BY <2>1, <2>2, <1>9
<1>13. Total(dist, Segments) \in Int
  BY <1>1, <1>10, TotalRemove
<1>14. Total(dist', Segments) = Total(dist, Segments) - Gain
  <2>1. CASE D = NoDonor
    <3>1. \A i \in Segments : dist'[i] = d2[i] /\ d2[i] \in Int
      BY <1>1, <1>2, <1>4, <1>9, <2>1
    <3>2. Total(dist', Segments) = Total(d2, Segments)
      BY ONLY <1>1, <3>1, TotalSame
    <3> HIDE DEF l, r, e, D, x, y, z
    <3> QED BY <1>1, <1>5, <1>6, <1>11, <1>12, <1>13, <2>1, <3>2
  <2>2. CASE D # NoDonor
    <3>1. /\ D \in Segments \ {L, R} /\ dist'[D] = e /\ d2[D] = z
          /\ \A i \in Segments \ {D} : dist'[i] = d2[i]
          /\ \A i \in Segments : dist'[i] \in Int /\ d2[i] \in Int
      BY <1>1, <1>2, <1>3, <1>9, <2>2
    <3>2. Total(dist', Segments) = Total(d2, Segments) + dist'[D] - d2[D]
      <4>1. D \in Segments  BY <3>1
      <4> HIDE DEF D
      <4> QED BY ONLY <1>1, <3>1, <4>1, TotalChange
    <3>3. Total(dist', Segments) = Total(d2, Segments) + e - z
      BY <3>1, <3>2
    <3> HIDE DEF l, r, e, D, x, y, z
    <3> QED BY <1>1, <1>5, <1>6, <1>11, <1>12, <1>13, <2>2, <3>3
  <2> QED BY <2>1, <2>2
<1>15. DOMAIN dist = Segments /\ DOMAIN dist' = Segments
  BY <1>1
<1> QED BY <1>7, <1>13, <1>14, <1>15, SumIsTotal

(* The gain of the boundary is entered where there was none. *)
LEMMA AcceptExplained ==
  ASSUME TypeOK, TypeOK', CandidateSound, Accept, NEW before,
         Sum(before) \in Int, Explains(tally, before, dist), tally.gain[b] = 0
  PROVE  /\ Explains(tally', before, dist')
         /\ \A i \in Segments \ {b} : tally'.gain[i] = tally.gain[i]
<1> DEFINE g == tally.gain
           h == tally'.gain
           old == {i \in Segments : g[i] # 0}
           new == {i \in Segments : h[i] # 0}
<1>1. /\ tally \in Counter /\ b \in Segments /\ IsFiniteSet(Segments)
  BY RouteAssumption, FS_Interval DEF TypeOK, Accept, Segments
<1>2. /\ Gain \in Int /\ Gain > Eps /\ Eps \in Nat
      /\ Sum(dist) \in Int /\ Sum(dist') = Sum(dist) - Gain
  BY AcceptShortens, RouteAssumption
<1>3. tally' = [tally EXCEPT !.changed = TRUE, !.changes = @ + 1,
                             !.fallbacks = @ + IF cand.donor = NoDonor THEN 0 ELSE 1,
                             !.gain = [@ EXCEPT ![b] = Gain]]
  BY DEF Accept, CountChange
<1> HIDE DEF Gain
<1>4. /\ tally'.changed = TRUE /\ tally'.changes = tally.changes + 1
      /\ h = [g EXCEPT ![b] = Gain] /\ g \in [Segments -> Int]
      /\ tally.changes \in Nat
  BY <1>1, <1>3 DEF Counter
<1>5. /\ h \in [Segments -> Int] /\ h[b] = Gain
      /\ \A i \in Segments \ {b} : h[i] = g[i]
  BY <1>1, <1>2, <1>4
<1>6. /\ Sum(before) - Sum(g) = Sum(dist)
      /\ \A i \in old : g[i] > Eps
      /\ Cardinality(old) = tally.changes
  BY DEF Explains
<1>7. g[b] = 0  OBVIOUS
<1> HIDE DEF g, h
<1>8. Sum(g) \in Int /\ Sum(h) = Sum(g) + Gain
  <2>1. Total(h, Segments) = Total(g, Segments) + h[b] - g[b]
    <3>1. /\ IsFiniteSet(Segments) /\ b \in Segments
          /\ \A i \in Segments : g[i] \in Int /\ h[i] \in Int
          /\ \A i \in Segments \ {b} : h[i] = g[i]
      BY <1>1, <1>4, <1>5
    <3> QED BY ONLY <3>1, TotalChange
  <2>2. Sum(g) = Total(g, Segments) /\ Sum(h) = Total(h, Segments)
    BY <1>4, <1>5, SumIsTotal
  <2>3. Sum(g) \in Int  BY <1>1, <1>4, SumIsNumber
  <2> QED BY <1>2, <1>5, <1>7, <2>1, <2>2, <2>3
<1>9. Sum(before) - Sum(h) = Sum(dist')
  BY <1>2, <1>6, <1>8
<1>10. new = old \cup {b} /\ b \notin old
  BY <1>1, <1>2, <1>5, <1>7
<1>11. \A i \in new : h[i] > Eps
  BY <1>2, <1>5, <1>6, <1>10
<1>12. Cardinality(new) = tally'.changes
  <2>1. IsFiniteSet(old)  BY <1>1, FS_Subset
  <2>2. Cardinality(old \cup {b}) = Cardinality(old) + 1
    <3> HIDE DEF old
    <3> QED BY <1>10, <2>1, FS_AddElement
  <2> QED BY <1>4, <1>6, <1>10, <2>2
<1>13. new # {}  BY <1>10
<1> QED BY <1>4, <1>5, <1>9, <1>11, <1>12, <1>13 DEF Explains, g, h

LEMMA InitGains == Init => GainsInv
<1> SUFFICES ASSUME Init PROVE GainsInv  OBVIOUS
<1>1. Len(snaps) = 1 /\ LastSnap.dist = dist /\ pc = "pass"
  BY DEF Init, Snapshot, LastSnap
<1> QED BY <1>1 DEF GainsInv, PassOpen, Attempting, GainsExplainTrajectory

LEMMA NextGains == RouteInv /\ GainsInv /\ [Next]_vars => GainsInv'
<1> SUFFICES ASSUME RouteInv, GainsInv, [Next]_vars PROVE GainsInv'
  OBVIOUS
<1>0. /\ TypeOK /\ TypeOK' /\ CandidateSound /\ tally \in Counter
      /\ tally' \in Counter /\ b \in 0 .. N /\ b' \in 0 .. N
      /\ dist \in [Segments -> Nat]
  BY StepTypes DEF TypeOK
<1>1. CASE RecordPass
  <2>1. /\ PassOpen /\ pc' \in {"pass", "write"} /\ dist' = dist
    BY <1>1 DEF RecordPass, PassOver, PassOpen, route
  <2>2. /\ Len(snaps) \in Nat /\ Len(snaps') = Len(snaps) + 1
        /\ snaps'[Len(snaps')] = Snapshot(passIndex, tally)
        /\ \A k \in 1 .. Len(snaps) : snaps'[k] = snaps[k]
        /\ Len(snaps) >= 1
    BY <1>0, <1>1, RecordedSnaps DEF GainsInv
  <2>3. LastSnap'.dist = dist'
    BY <2>1, <2>2 DEF LastSnap, Snapshot
  <2>4. ASSUME NEW k \in 2 .. Len(snaps')
        PROVE  Explains(snaps'[k].tally, snaps'[k - 1].dist, snaps'[k].dist)
    <3>1. CASE k = Len(snaps')
      <4>1. k - 1 = Len(snaps) /\ snaps'[k - 1] = snaps[Len(snaps)]
        BY <2>2, <3>1
      <4>2. snaps'[k].tally = tally /\ snaps'[k].dist = dist
        BY <2>2, <3>1 DEF Snapshot
      <4>3. Explains(tally, LastSnap.dist, dist)
        BY <2>1 DEF GainsInv
      <4> QED BY <4>1, <4>2, <4>3 DEF LastSnap
    <3>2. CASE k # Len(snaps')
      <4>1. k \in 2 .. Len(snaps) /\ k \in 1 .. Len(snaps)
            /\ k - 1 \in 1 .. Len(snaps)
        BY <2>2, <3>2
      <4>2. snaps'[k] = snaps[k] /\ snaps'[k - 1] = snaps[k - 1]
        BY <2>2, <4>1
      <4>3. Explains(snaps[k].tally, snaps[k - 1].dist, snaps[k].dist)
        BY <4>1 DEF GainsInv, GainsExplainTrajectory
      <4> QED BY <4>2, <4>3
    <3> QED BY <3>1, <3>2
  <2>5. GainsExplainTrajectory'
    <3>1. GainsExplainTrajectory' <=>
            \A k \in 2 .. Len(snaps') :
              Explains(snaps'[k].tally, snaps'[k - 1].dist, snaps'[k].dist)
      BY DEF GainsExplainTrajectory
    <3> QED BY <2>4, <3>1
  <2>6. ~PassOpen'  BY <2>1 DEF PassOpen, Attempting
  <2>7. Len(snaps') >= 1  BY <2>2
  <2> QED BY <2>3, <2>5, <2>6, <2>7 DEF GainsInv
<1>2. CASE ~RecordPass
  <2>1. UNCHANGED snaps  BY <1>2, OtherStepsKeepSnaps
  <2>2. Len(snaps') >= 1 /\ LastSnap' = LastSnap
    BY <2>1 DEF GainsInv, LastSnap
  <2>3. GainsExplainTrajectory'
    BY <2>1 DEF GainsInv, GainsExplainTrajectory
  <2>4. CASE StartPass
    <3>1. /\ pc = "pass" /\ pc' = "boundary" /\ dist' = dist
          /\ tally' = EmptyTally
      BY <2>4 DEF StartPass, route, ResetTally
    <3>2. LastSnap.dist = dist  BY <3>1 DEF GainsInv
    <3>3. Explains(EmptyTally, dist, dist)  BY <1>0, NothingExplained
    <3>4. \A i \in Segments : EmptyTally.gain[i] = 0  BY DEF EmptyTally
    <3>5. Explains(tally', LastSnap'.dist, dist')  BY <2>2, <3>1, <3>2, <3>3
    <3> QED BY <2>2, <2>3, <3>1, <3>4, <3>5 DEF GainsInv
  <2>5. CASE Accept
    <3>1. PassOpen /\ pc' = "boundary" /\ b' = b + 1
      BY <2>5 DEF Accept, NextBoundary, PassOpen, Attempting
    <3>2. /\ Explains(tally, LastSnap.dist, dist) /\ b \in Segments
          /\ \A i \in Segments : i >= b => tally.gain[i] = 0
      BY <1>0, <2>5, <3>1, AcceptPointwise DEF GainsInv, L
    <3>3. b >= b /\ tally.gain[b] = 0  BY <1>0, <3>2
    <3>4. Sum(LastSnap.dist) \in Int
      <4>1. LastSnap.dist \in [Segments -> Nat] /\ IsFiniteSet(Segments)
        BY <1>0, RecordedTypes DEF GainsInv, LastSnap
      <4>2. LastSnap.dist \in [Segments -> Int]  BY <4>1
      <4> QED BY <4>1, <4>2, SumIsNumber
    <3>5. /\ Explains(tally', LastSnap.dist, dist')
          /\ \A i \in Segments \ {b} : tally'.gain[i] = tally.gain[i]
      BY <1>0, <2>5, <3>2, <3>3, <3>4, AcceptExplained
    <3>6. \A i \in Segments : i >= b' => tally'.gain[i] = 0
      BY <1>0, <3>1, <3>2, <3>5 DEF Segments
    <3> QED BY <2>2, <2>3, <3>1, <3>5, <3>6 DEF GainsInv
  <2>6. ASSUME dist' = dist, PassOpen, PassOpen', b' >= b,
               tally'.gain = tally.gain, tally'.changes = tally.changes,
               tally'.changed = tally.changed
        PROVE  GainsInv'
    <3>1. /\ Explains(tally, LastSnap.dist, dist)
          /\ \A i \in Segments : i >= b => tally.gain[i] = 0
      BY <2>6 DEF GainsInv
    <3>2. Explains(tally', LastSnap'.dist, dist')
      BY <2>2, <2>6, <3>1, ExplainsSame
    <3>3. \A i \in Segments : i >= b' => tally'.gain[i] = 0
      BY <1>0, <2>6, <3>1 DEF Segments
    <3>4. pc' \notin {"pass", "write"}  BY <2>6 DEF PassOpen, Attempting
    <3> QED BY <2>2, <2>3, <3>2, <3>3, <3>4 DEF GainsInv
  <2>7. CASE StopSweep \/ WriteFinal \/ Abort
    <3>1. /\ dist' = dist /\ pc' \in {"write", "done"}
          /\ pc' = "write" => pc = "pass"
      BY <2>7 DEF StopSweep, WriteFinal, Abort, route
    <3>2. pc' = "write" => dist' = LastSnap'.dist
      BY <2>2, <3>1 DEF GainsInv
    <3>3. ~PassOpen'  BY <3>1 DEF PassOpen, Attempting
    <3> QED BY <2>2, <2>3, <3>1, <3>2, <3>3 DEF GainsInv
  <2>8. CASE SolveSplit \/ SolveLeft \/ SolveRight \/ SolveDonor
    <3>1. PassOpen /\ PassOpen' /\ dist' = dist /\ b' = b
          /\ \E kind \in {"split", "tsp"} : Counted(kind)
      BY <2>8 DEF SolveSplit, SolveLeft, SolveRight, SolveDonor, PassOpen,
                  Attempting, route
    <3>2. /\ tally'.gain = tally.gain /\ tally'.changes = tally.changes
          /\ tally'.changed = tally.changed
      BY <1>0, <3>1 DEF Counted, Counter
    <3> QED BY <1>0, <2>6, <3>1, <3>2
  <2>9. CASE SolveFails
    <3>1. PassOpen /\ PassOpen' /\ dist' = dist /\ b' >= b
      BY <1>0, <2>9 DEF SolveFails, GiveUp, NextBoundary, PassOpen,
                  Attempting, route
    <3>2. /\ tally'.gain = tally.gain /\ tally'.changes = tally.changes
          /\ tally'.changed = tally.changed
      BY <1>0, <2>9 DEF SolveFails, Counter
    <3> QED BY <2>6, <3>1, <3>2
  <2>10. CASE SkipInactive \/ SelectDonor \/ NoDonorFound \/ Reject
    <3>1. PassOpen /\ PassOpen' /\ dist' = dist /\ b' >= b /\ tally' = tally
      <4>1. CASE SkipInactive
        BY <1>0, <4>1 DEF SkipInactive, PassOpen, route
      <4>2. CASE SelectDonor
        BY <1>0, <4>2 DEF SelectDonor, PassOpen, Attempting, route
      <4>3. CASE NoDonorFound
        BY <1>0, <4>3 DEF NoDonorFound, NextBoundary, PassOpen, Attempting,
                          route
      <4>4. CASE Reject
        BY <1>0, <4>4 DEF Reject, GiveUp, NextBoundary, PassOpen, Attempting,
                          route
      <4> QED BY <2>10, <4>1, <4>2, <4>3, <4>4
    <3> QED BY <2>6, <3>1
  <2>11. CASE Attempt
    <3>1. PassOpen /\ PassOpen' /\ dist' = dist /\ b' = b
      BY <2>11 DEF Attempt, PassOpen, Attempting, route
    <3>2. /\ tally'.gain = tally.gain /\ tally'.changes = tally.changes
          /\ tally'.changed = tally.changed
      BY <1>0, <2>11 DEF Attempt, Counter
    <3> QED BY <1>0, <2>6, <3>1, <3>2
  <2>12. CASE UNCHANGED vars
    <3>1. UNCHANGED <<pc, dist, b, tally>>  BY <2>12 DEF vars, route
    <3>2. PassOpen' = PassOpen  BY <3>1 DEF PassOpen, Attempting
    <3> QED BY <2>2, <2>3, <3>1, <3>2 DEF GainsInv
  <2> QED BY <1>2, <2>4, <2>5, <2>7, <2>8, <2>9, <2>10, <2>11, <2>12 DEF Next
<1> QED BY <1>1, <1>2

(* Pass by pass, the gains reported are what the route lost in length.     *)
THEOREM GainsAlwaysExplain == Spec => []GainsExplainTrajectory
<1>1. GainsInv => GainsExplainTrajectory  BY DEF GainsInv
<1> QED BY <1>1, InitGains, NextGains, RouteInvariance, PTL DEF Spec
=============================================================================
