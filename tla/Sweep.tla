------------------------------- MODULE Sweep -------------------------------
(***************************************************************************)
(* The boundary sweep of the refinement stage (mode_refinement): a route   *)
(* is a circular list of segments, each from one dock to the next and      *)
(* serving a set of stations.  A pass walks the boundaries between         *)
(* neighbouring segments; at an active boundary the stations of the two    *)
(* segments are split anew by a MIP, each side is routed by a directed     *)
(* TSP, and the result replaces the two segments only if it is shorter.    *)
(* When that fails, the fallback tries once more with one station taken    *)
(* from a donor segment.                                                   *)
(*                                                                         *)
(* The solvers are external: TourLengths says which lengths a TSP solve    *)
(* (optimal, or the incumbent at its time limit) may report; a split may   *)
(* be any that respects the constraints of the model.  The order of the    *)
(* stations inside a segment is abstracted to the set and the length.      *)
(***************************************************************************)
EXTENDS Integers, Sequences, FiniteSets, FiniteSetsExt

CONSTANTS
  N,               \* segment_count: segments and boundaries are 0 .. N-1
  Stations,        \* station ids of the instance
  Catch,           \* expected catch of a set of stations
  Capacity,        \* boat_capacity
  TourLengths,     \* lengths of tours through a set of stations of a segment
  Eps,             \* SWEEP_EPS, in units of distance
  InitialRoutes,   \* the assignments of stations to segments of the input
  EnableFallback,  \* sweep.enable_fallback
  MaxIterations,   \* sweep.max_iterations, 0: unlimited
  GlobalTimeLimit, \* global_time_limit_seconds, 0: unlimited
  TimeLimit,       \* --time-limit, 0: unlimited
  L1Limit, L2Limit,\* Gurobi limits of a one- and a two-segment solve, 0: none
  MaxSolveTime,    \* bound: the longest an unlimited solve runs
  Overhead,        \* bound: seconds spent at a time outside the solvers
  DebugMode,       \* --debug: write the JSON after every pass
  AllocMayFail     \* malloc, calloc and fopen may fail

Segments == 0 .. N - 1

ASSUME RouteAssumption ==
  /\ N \in Nat /\ N >= 2
  /\ Capacity \in Nat /\ Eps \in Nat
  /\ InitialRoutes \subseteq [Segments -> SUBSET Stations]
  /\ \A r \in InitialRoutes : \A i, j \in Segments :
       i # j => r[i] \cap r[j] = {}

(* Catches add up and are never negative. *)
ASSUME CatchAssumption ==
  /\ Catch \in [SUBSET Stations -> Nat]
  /\ \A S \in SUBSET Stations : \A x \in Stations \ S :
       Catch[S \cup {x}] = Catch[S] + Catch[{x}]

ASSUME LengthAssumption ==
  TourLengths \in [Segments \X SUBSET Stations -> SUBSET Nat]

ASSUME ConfigAssumption ==
  /\ {EnableFallback, DebugMode, AllocMayFail} \subseteq BOOLEAN
  /\ {MaxIterations, GlobalTimeLimit, TimeLimit, L1Limit, L2Limit,
      MaxSolveTime, Overhead} \subseteq Nat

VARIABLES
  pc,         \* where mode_refinement is
  stations,   \* segments[i].signed_station_ids, as a set
  load,       \* segments[i].catch_amount
  dist,       \* segments[i].distance_nm
  active,     \* active[b]
  b,          \* the boundary under the cursor
  passIndex,  \* pass_index
  cand,       \* the candidate of the attempt in progress
  tally,      \* counters of the pass in progress
  totals,     \* counters of the run
  snaps,      \* snapshots, the initial one first
  file,       \* what the output file says
  rc,         \* exit status
  clock,      \* seconds since t_start
  startedAt   \* clock when the attempt in progress began

route == <<stations, load, dist>>
vars == <<pc, stations, load, dist, active, b, passIndex, cand, tally, totals,
          snaps, file, rc, clock, startedAt>>

-----------------------------------------------------------------------------
(* Circular neighbours: (i + 1) % segment_count, (i - 1 + ...) % ... *)
Succ(i) == IF i = N - 1 THEN 0 ELSE i + 1
Pred(i) == IF i = 0 THEN N - 1 ELSE i - 1

L == b
R == Succ(b)

NoDonor == -1
EmptyCand == [donor |-> NoDonor, moved |-> {}, left |-> {}, right |-> {},
              leftDist |-> 0, rightDist |-> 0, donorDist |-> 0]
EmptyTally == [changed |-> FALSE, attempts |-> 0, changes |-> 0,
               fallbacks |-> 0, solves |-> 0, splits |-> 0, tsps |-> 0,
               gain |-> [i \in Segments |-> 0]]
EmptyTotals == [attempts |-> 0, changes |-> 0, fallbacks |-> 0, solves |-> 0]

Routed == UNION {stations[i] : i \in Segments}
NoStationTwice ==
  \A i, j \in Segments : i # j => stations[i] \cap stations[j] = {}
WithinCapacity == \A i \in Segments : load[i] <= Capacity

(* solution_is_feasible: within capacity, unique and complete. *)
Feasible == WithinCapacity /\ NoStationTwice /\ Routed = Stations

GlobalLimitReached == GlobalTimeLimit > 0 /\ clock >= GlobalTimeLimit

(* Mutant of Budget: the solves ignore what is left of the global limit.   *)
UnclippedBudget(limit) == IF limit = 0 THEN MaxSolveTime ELSE limit

(* The limit a solve of this attempt gets: what was left of the global     *)
(* limit when the attempt began, if that is less than its own limit.       *)
Budget(limit) ==
  LET remaining == GlobalTimeLimit - startedAt
  IN  IF GlobalTimeLimit > 0
        THEN IF limit = 0 \/ remaining < limit THEN remaining ELSE limit
        ELSE IF limit = 0 THEN MaxSolveTime ELSE limit

Elapses(most) == \E d \in 0 .. most : clock' = clock + d

-----------------------------------------------------------------------------
Snapshot(index, t) ==
  [index |-> index, dist |-> dist, feasible |-> Feasible, tally |-> t]

(* The input lists the locations of each segment; its length is that of    *)
(* some tour through the stations.                                         *)
InputLengths == UNION {TourLengths[<<i, stations[i]>>] : i \in Segments}

Init ==
  /\ pc = "pass"
  /\ stations \in InitialRoutes
  /\ load = [i \in Segments |-> Catch[stations[i]]]
  /\ dist \in {d \in [Segments -> InputLengths] :
                \A i \in Segments : d[i] \in TourLengths[<<i, stations[i]>>]}
  /\ active = [i \in Segments |-> TRUE]
  /\ b = 0
  /\ passIndex = 1
  /\ cand = EmptyCand
  /\ tally = EmptyTally
  /\ totals = EmptyTotals
  /\ snaps = <<Snapshot(0, EmptyTally)>>
  /\ file = [status |-> IF DebugMode THEN "running" ELSE "none",
             passes |-> IF DebugMode THEN 1 ELSE 0]
  /\ rc = 1
  /\ clock \in 0 .. Overhead
  /\ startedAt = 0

-----------------------------------------------------------------------------
(* The while loop of mode_refinement. *)

IterationsSpent == MaxIterations > 0 /\ passIndex > MaxIterations

(* Mutant of ResetTally: the attempts of the last pass are kept.           *)
KeepAttempts == tally' = [EmptyTally EXCEPT !.attempts = tally.attempts]

ResetTally == tally' = EmptyTally

StartPass ==
  /\ pc = "pass"
  /\ ~GlobalLimitReached /\ ~IterationsSpent
  /\ b' = 0
  /\ ResetTally
  /\ Elapses(Overhead)
  /\ pc' = "boundary"
  /\ UNCHANGED <<route, active, passIndex, cand, totals, snaps, file, rc,
                 startedAt>>

StopSweep ==
  /\ pc = "pass"
  /\ GlobalLimitReached \/ IterationsSpent
  /\ pc' = "write"
  /\ UNCHANGED <<route, active, b, passIndex, cand, tally, totals, snaps,
                 file, rc, clock, startedAt>>

(* Mutant of SkipInactive: the cursor does not advance.                    *)
SkipForever ==
  /\ pc = "boundary" /\ b < N /\ ~GlobalLimitReached
  /\ ~active[b]
  /\ UNCHANGED vars

SkipInactive ==
  /\ pc = "boundary" /\ b < N /\ ~GlobalLimitReached
  /\ ~active[b]
  /\ b' = b + 1
  /\ UNCHANGED <<route, pc, active, passIndex, cand, tally, totals, snaps,
                 file, rc, clock, startedAt>>

(* Mutant of Deactivate: the boundary stays active.                        *)
StayActive == UNCHANGED active

Deactivate == active' = [active EXCEPT ![b] = FALSE]

Attempt ==
  /\ pc = "boundary" /\ b < N /\ ~GlobalLimitReached
  /\ active[b]
  /\ Deactivate
  /\ tally' = [tally EXCEPT !.attempts = @ + 1]
  /\ totals' = [totals EXCEPT !.attempts = @ + 1]
  /\ startedAt' = clock
  /\ pc' = "split"
  /\ UNCHANGED <<route, b, passIndex, cand, snaps, file, rc, clock>>

(* Mutant of NextBoundary: the cursor is advanced twice.                   *)
SkipOneBoundary ==
  /\ pc' = "boundary"
  /\ b' = b + 2
  /\ cand' = EmptyCand
  /\ startedAt' = 0

(* The locals of the attempt end with it. *)
NextBoundary ==
  /\ pc' = "boundary"
  /\ b' = b + 1
  /\ cand' = EmptyCand
  /\ startedAt' = 0

-----------------------------------------------------------------------------
(* optimize_boundary_candidate: the split, then a tour of each side.  A    *)
(* solve is counted when it returns; its detail record is appended right   *)
(* after, and the candidate fails if there is no memory for it.            *)

(* Mutant of Counted: a split is not counted as a solve.                   *)
CountedTours(kind) ==
  tally' = [tally EXCEPT !.solves = @ + (IF kind = "tsp" THEN 1 ELSE 0),
                         !.splits = @ + (IF kind = "split" THEN 1 ELSE 0),
                         !.tsps = @ + (IF kind = "tsp" THEN 1 ELSE 0)]

Counted(kind) ==
  tally' = [tally EXCEPT !.solves = @ + 1,
                         !.splits = @ + (IF kind = "split" THEN 1 ELSE 0),
                         !.tsps = @ + (IF kind = "tsp" THEN 1 ELSE 0)]

Pool == stations[L] \cup stations[R] \cup cand.moved

(* Mutant of SplitFits: the load after the port is not bounded.            *)
LeftFits(left) == left # {} /\ Pool \ left # {} /\ Catch[left] <= Capacity

(* Both sides of the port serve a station and fit in the boat. *)
SplitFits(left) ==
  /\ left # {} /\ Pool \ left # {}
  /\ Catch[left] <= Capacity /\ Catch[Pool \ left] <= Capacity

SolveSplit ==
  /\ pc = "split"
  /\ \E left \in SUBSET Pool :
       /\ SplitFits(left)
       /\ cand' = [cand EXCEPT !.left = left, !.right = Pool \ left]
  /\ Elapses(Budget(L2Limit))
  /\ Counted("split")
  /\ pc' = "left"
  /\ UNCHANGED <<route, active, b, passIndex, totals, snaps, file, rc,
                 startedAt>>

SolveLeft ==
  /\ pc = "left"
  /\ \E d \in TourLengths[<<L, cand.left>>] :
       cand' = [cand EXCEPT !.leftDist = d]
  /\ Elapses(Budget(L1Limit))
  /\ Counted("tsp")
  /\ pc' = "right"
  /\ UNCHANGED <<route, active, b, passIndex, totals, snaps, file, rc,
                 startedAt>>

SolveRight ==
  /\ pc = "right"
  /\ \E d \in TourLengths[<<R, cand.right>>] :
       cand' = [cand EXCEPT !.rightDist = d]
  /\ Elapses(Budget(L1Limit))
  /\ Counted("tsp")
  /\ pc' = IF cand.donor = NoDonor THEN "decide" ELSE "donor"
  /\ UNCHANGED <<route, active, b, passIndex, totals, snaps, file, rc,
                 startedAt>>

(* reoptimize_candidate_segment, on the donor without its station. *)
SolveDonor ==
  /\ pc = "donor"
  /\ \E d \in TourLengths[<<cand.donor, stations[cand.donor] \ cand.moved>>] :
       cand' = [cand EXCEPT !.donorDist = d]
  /\ Elapses(Budget(L1Limit))
  /\ Counted("tsp")
  /\ pc' = "decide"
  /\ UNCHANGED <<route, active, b, passIndex, totals, snaps, file, rc,
                 startedAt>>

(* A candidate that failed or did not improve: the fallback, if this was   *)
(* not it, and else no change.                                             *)
GiveUp ==
  IF EnableFallback /\ cand.donor = NoDonor
    THEN pc' = "fallback" /\ UNCHANGED <<b, cand, startedAt>>
    ELSE NextBoundary

(* No incumbent, an infeasible split, or no memory for the detail record   *)
(* of a solve already counted.                                             *)
SolveFails ==
  /\ pc \in {"split", "left", "right", "donor"}
  /\ Elapses(Budget(IF pc = "split" THEN L2Limit ELSE L1Limit))
  /\ \/ UNCHANGED tally
     \/ AllocMayFail /\ tally' = [tally EXCEPT !.solves = @ + 1]
  /\ GiveUp
  /\ UNCHANGED <<route, active, passIndex, totals, snaps, file, rc>>

-----------------------------------------------------------------------------
(* select_fallback_donor: a station of a segment that touches neither side *)
(* and keeps at least one, if either side has room for it.  Which of these *)
(* is nearest is the business of module DonorChoice.                       *)

DonorSegments ==
  {d \in Segments \ {L, R, Pred(L), Succ(R)} : Cardinality(stations[d]) > 1}

HasRoomFor(x) ==
  \/ load[L] + Catch[{x}] <= Capacity
  \/ load[R] + Catch[{x}] <= Capacity

DonorMoves ==
  {m \in DonorSegments \X Stations :
     m[2] \in stations[m[1]] /\ HasRoomFor(m[2])}

SelectDonor ==
  /\ pc = "fallback"
  /\ \E m \in DonorMoves :
       cand' = [EmptyCand EXCEPT !.donor = m[1], !.moved = {m[2]}]
  /\ pc' = "split"
  /\ UNCHANGED <<route, active, b, passIndex, tally, totals, snaps, file, rc,
                 clock, startedAt>>

NoDonorFound ==
  /\ pc = "fallback"
  /\ DonorMoves = {}
  /\ NextBoundary
  /\ UNCHANGED <<route, active, passIndex, tally, totals, snaps, file, rc,
                 clock>>

-----------------------------------------------------------------------------
(* Acceptance, and what the caller does about it. *)

(* Mutant of Improves: what the donor still has to sail is forgotten.      *)
SparesDonor ==
  cand.leftDist + cand.rightDist + Eps
    < dist[L] + dist[R] + (IF cand.donor = NoDonor THEN 0 ELSE dist[cand.donor])

Improves ==
  IF cand.donor = NoDonor
    THEN cand.leftDist + cand.rightDist + Eps < dist[L] + dist[R]
    ELSE cand.leftDist + cand.rightDist + cand.donorDist + Eps
           < dist[L] + dist[R] + dist[cand.donor]

(* Mutant of Gain: what the donor saved is not counted.                    *)
GainOfSides == dist[L] + dist[R] - (cand.leftDist + cand.rightDist)

Gain ==
  IF cand.donor = NoDonor
    THEN dist[L] + dist[R] - (cand.leftDist + cand.rightDist)
    ELSE dist[L] + dist[R] + dist[cand.donor]
           - (cand.leftDist + cand.rightDist + cand.donorDist)

Remaining == stations[cand.donor] \ cand.moved

(* A function on segments with the values of the two sides replaced. *)
Sides(f, left, right) == [f EXCEPT ![L] = left, ![R] = right]

(* Mutant of Reactivated: only the boundary after the donor wakes up.      *)
ReactivatedAfterDonor ==
  [i \in Segments |-> active[i] \/ i \in {Pred(L), L, R, cand.donor}]

Reactivated ==
  LET touched == {Pred(L), L, R} \cup
                 (IF cand.donor = NoDonor THEN {}
                    ELSE {Pred(cand.donor), cand.donor})
  IN  [i \in Segments |-> active[i] \/ i \in touched]

CountChange ==
  LET moved == IF cand.donor = NoDonor THEN 0 ELSE 1
  IN  /\ tally' = [tally EXCEPT !.changed = TRUE,
                                !.changes = @ + 1,
                                !.fallbacks = @ + moved,
                                !.gain = [@ EXCEPT ![b] = Gain]]
      /\ totals' = [totals EXCEPT !.changes = @ + 1, !.fallbacks = @ + moved]

ReplaceSides ==
  /\ stations' = Sides(stations, cand.left, cand.right)
  /\ load' = Sides(load, Catch[cand.left], Catch[cand.right])
  /\ dist' = Sides(dist, cand.leftDist, cand.rightDist)

(* Mutant of ReplaceSidesAndDonor: the donor keeps its station.            *)
ReplaceAndKeep == ReplaceSides

(* Mutant of ReplaceSidesAndDonor: the catch of the donor is stale.        *)
ReplaceStaleLoad ==
  /\ stations' = [Sides(stations, cand.left, cand.right)
                    EXCEPT ![cand.donor] = Remaining]
  /\ load' = Sides(load, Catch[cand.left], Catch[cand.right])
  /\ dist' = [Sides(dist, cand.leftDist, cand.rightDist)
                EXCEPT ![cand.donor] = cand.donorDist]

ReplaceSidesAndDonor ==
  /\ stations' = [Sides(stations, cand.left, cand.right)
                    EXCEPT ![cand.donor] = Remaining]
  /\ load' = [Sides(load, Catch[cand.left], Catch[cand.right])
                EXCEPT ![cand.donor] = Catch[Remaining]]
  /\ dist' = [Sides(dist, cand.leftDist, cand.rightDist)
                EXCEPT ![cand.donor] = cand.donorDist]

Accept ==
  /\ pc = "decide"
  /\ Improves
  /\ IF cand.donor = NoDonor THEN ReplaceSides ELSE ReplaceSidesAndDonor
  /\ active' = Reactivated
  /\ CountChange
  /\ NextBoundary
  /\ UNCHANGED <<passIndex, snaps, file, rc, clock>>

Reject ==
  /\ pc = "decide"
  /\ ~Improves
  /\ GiveUp
  /\ UNCHANGED <<route, active, passIndex, tally, totals, snaps, file, rc,
                 clock>>

-----------------------------------------------------------------------------
(* After the boundaries of a pass, or when the global limit cuts it short, *)
(* the route is recorded; debug mode also writes it out.                   *)

PassOver == pc = "boundary" /\ (b = N \/ GlobalLimitReached)

SweepOver ==
  \/ ~tally.changed
  \/ GlobalLimitReached
  \/ TimeLimit > 0 /\ clock >= TimeLimit

(* Mutant of DebugWrite: written before the snapshot is appended.          *)
EarlyWrite ==
  file' = IF DebugMode THEN [status |-> "running", passes |-> Len(snaps)]
                       ELSE file

DebugWrite ==
  file' = IF DebugMode THEN [status |-> "running", passes |-> Len(snaps) + 1]
                       ELSE file

RecordPass ==
  /\ PassOver
  /\ snaps' = Append(snaps, Snapshot(passIndex, tally))
  /\ totals' = [totals EXCEPT !.solves = @ + tally.solves]
  /\ DebugWrite
  /\ passIndex' = passIndex + 1
  /\ pc' = IF SweepOver THEN "write" ELSE "pass"
  /\ Elapses(Overhead)
  /\ UNCHANGED <<route, active, b, cand, tally, rc, startedAt>>

WriteFinal ==
  /\ pc = "write"
  /\ file' = [status |-> "complete", passes |-> Len(snaps)]
  /\ rc' = 0
  /\ pc' = "done"
  /\ UNCHANGED <<route, active, b, passIndex, cand, tally, totals, snaps,
                 clock, startedAt>>

(* goto cleanup: no memory for the pass, for the copies taken before an    *)
(* attempt or for the snapshot, or no output file to open.                 *)
Abort ==
  /\ AllocMayFail
  /\ pc \in {"pass", "boundary", "write"}
  /\ pc' = "done"
  /\ UNCHANGED <<route, active, b, passIndex, cand, tally, totals, snaps,
                 file, rc, clock, startedAt>>

Next ==
  \/ StartPass \/ StopSweep
  \/ SkipInactive \/ Attempt
  \/ SolveSplit \/ SolveLeft \/ SolveRight \/ SolveDonor \/ SolveFails
  \/ SelectDonor \/ NoDonorFound
  \/ Accept \/ Reject
  \/ RecordPass \/ WriteFinal \/ Abort

Spec == Init /\ [][Next]_vars

(* One thread runs the loop, and each solve returns by its limit; the      *)
(* sweep does not need a lack of memory to end.                            *)
FairSpec == Spec /\ WF_vars(Next /\ ~Abort)

-----------------------------------------------------------------------------
(* Types. *)

Counter == [changed : BOOLEAN, attempts : Nat, changes : Nat,
            fallbacks : Nat, solves : Nat, splits : Nat, tsps : Nat,
            gain : [Segments -> Int]]

RunCounter == [attempts : Nat, changes : Nat, fallbacks : Nat, solves : Nat]

Candidate == [donor : Segments \cup {NoDonor}, moved : SUBSET Stations,
              left : SUBSET Stations, right : SUBSET Stations,
              leftDist : Nat, rightDist : Nat, donorDist : Nat]

PassRecord == [index : Nat, dist : [Segments -> Nat], feasible : BOOLEAN,
               tally : Counter]

(* Every variable has its type; the cursor stands on a boundary while an   *)
(* attempt is in progress.                                                 *)
TypeOK ==
  /\ pc \in {"pass", "boundary", "split", "left", "right", "fallback",
             "donor", "decide", "write", "done"}
  /\ stations \in [Segments -> SUBSET Stations]
  /\ load \in [Segments -> Nat]
  /\ dist \in [Segments -> Nat]
  /\ active \in [Segments -> BOOLEAN]
  /\ b \in 0 .. N
  /\ pc \in {"split", "left", "right", "fallback", "donor", "decide"}
       => b \in Segments
  /\ passIndex \in Nat
  /\ cand \in Candidate
  /\ tally \in Counter
  /\ totals \in RunCounter
  /\ snaps \in Seq(PassRecord)
  /\ file \in [status : {"none", "running", "complete"}, passes : Nat]
  /\ rc \in {0, 1}
  /\ clock \in Nat
  /\ startedAt \in Nat

-----------------------------------------------------------------------------
(* Safety. *)

Sum(f) == MapThenSumSet(LAMBDA i : f[i], DOMAIN f)

(* The catch kept with a segment, which the donor filter trusts, is that   *)
(* of the stations in it, whichever of its three rewrites set it last.     *)
LoadIsCatch == \A i \in Segments : load[i] = Catch[stations[i]]

(* No split, tour or donor move ever drops a station of the route.  With   *)
(* NoStationTwice: stations only change segments.                          *)
NoStationLost == [][Routed' = Routed]_vars

(* A segment within the capacity stays within it, and one that serves      *)
(* stations keeps at least one: neither a re-split nor a donation overloads*)
(* or empties a segment.                                                   *)
SegmentsStaySound ==
  [][\A i \in Segments :
       /\ load[i] <= Capacity => load'[i] <= Capacity
       /\ stations[i] # {} => stations'[i] # {}]_vars

(* Whoever changes a segment leaves both boundaries of it active, so that  *)
(* no boundary rests on a verdict about segments that are gone.            *)
ChangeReactivates ==
  [][\A i \in Segments :
       stations'[i] # stations[i] \/ dist'[i] # dist[i]
         => active'[i] /\ active'[Pred(i)]]_vars

LastSnap == snaps[Len(snaps)]

(* A sweep that ends because a pass changed nothing has tried every        *)
(* boundary on its final segments: none is left active.                    *)
QuietMeansExhausted ==
  pc = "write" /\ ~GlobalLimitReached /\ ~LastSnap.tally.changed
    => \A i \in Segments : ~active[i]

(* The gains of a pass, one per changed boundary and each above Eps, are   *)
(* exactly what the total distance lost between two routes.                *)
Explains(t, before, after) ==
  LET improved == {i \in Segments : t.gain[i] # 0}
  IN  /\ Sum(before) - Sum(t.gain) = Sum(after)
      /\ \A i \in improved : t.gain[i] > Eps
      /\ Cardinality(improved) = t.changes
      /\ t.changed <=> improved # {}

(* The snapshots tell the truth about the trajectory: the gains reported   *)
(* for a pass explain its effect on the route, donor included.             *)
GainsExplainTrajectory ==
  \A k \in 2 .. Len(snaps) :
    Explains(snaps[k].tally, snaps[k - 1].dist, snaps[k].dist)

(* A route found feasible is never followed by one reported infeasible.    *)
FeasibilityKept ==
  \A k \in 2 .. Len(snaps) : snaps[k - 1].feasible => snaps[k].feasible

Recorded(count) == Sum([k \in DOMAIN snaps |-> snaps[k].tally[count]])

(* The totals of the summary are the sums over the passes in the same file.*)
TotalsAddUp ==
  pc = "write" =>
    \A count \in {"attempts", "changes", "fallbacks", "solves"} :
      totals[count] = Recorded(count)

(* A boundary is attempted at most once in a pass; a change rests on one   *)
(* split and a tour for each segment it rewrites; an attempt costs at most *)
(* three solves and four more for the fallback; every solve that was       *)
(* counted has its detail record unless memory ran out.                    *)
SolvesMatchAttempts ==
  /\ tally.attempts <= b + 1 /\ tally.attempts <= N
  /\ tally.fallbacks <= tally.changes /\ tally.changes <= tally.attempts
  /\ tally.changes <= tally.splits
  /\ 2 * tally.changes + tally.fallbacks <= tally.tsps
  /\ tally.solves <= (IF EnableFallback THEN 7 ELSE 3) * tally.attempts
  /\ tally.splits + tally.tsps <= tally.solves
  /\ ~AllocMayFail => tally.splits + tally.tsps = tally.solves

(* The file says complete exactly when the program exits with success, and *)
(* then holds every pass; in debug mode it never lags behind the sweep.    *)
ReportFaithful ==
  /\ file.status = "complete" <=> rc = 0
  /\ rc = 0 => pc = "done" /\ file.passes = Len(snaps)
  /\ DebugMode /\ pc = "pass" => file.passes = Len(snaps)

(* Each solve fits in what was left when its attempt began, so the overrun *)
(* of the global limit is bounded by the solves of one attempt.            *)
OverrunBounded ==
  GlobalTimeLimit > 0 /\ pc \in {"split", "left", "right", "fallback",
                                 "donor", "decide"}
    => /\ startedAt < GlobalTimeLimit
       /\ clock - startedAt <= (IF EnableFallback THEN 7 ELSE 3)
                                 * (GlobalTimeLimit - startedAt)

(* The sweep implements the local search: whatever the order of boundaries,*)
(* the failures of the solvers and the limits, the route only moves from a *)
(* plan to a shorter one with the same stations, and not once it is final. *)
Search == INSTANCE LocalSearch WITH
            plan <- stations, length <- dist,
            finished <- pc \in {"write", "done"}

ImplementsSearch == Search!Spec

-----------------------------------------------------------------------------
(* Liveness: every accepted change saves more than Eps, so the sweep ends, *)
(* even without any limit.                                                 *)
Termination == <>(pc = "done")
=============================================================================
