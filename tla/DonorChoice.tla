---------------------------- MODULE DonorChoice ----------------------------
(***************************************************************************)
(* select_fallback_donor and the copies made of its choice: when boundary  *)
(* `left' brought no improvement, the segments are scanned for the station *)
(* nearest to the boundary or to its two sides that one of the sides has   *)
(* room for.  Sweep takes any such station (its DonorMoves); this module   *)
(* says which one the code takes, and what is copied where.                *)
(***************************************************************************)
EXTENDS Integers, FiniteSetsExt, SequencesExt

CONSTANTS
  N,            \* segment_count
  Stations,     \* station ids
  Catch,        \* expected catch of a set of stations
  Capacity,     \* boat_capacity
  Locations,    \* loc_ids
  Start, End,   \* start_loc_id and end_loc_id of a station
  Dock,         \* end_loc_id of a segment, start_loc_id of the next
  Miles,        \* distances[from][to]
  Orders        \* the routes: signed_station_ids of each segment

Segments == 0 .. N - 1
Succ(t) == IF t = N - 1 THEN 0 ELSE t + 1
Pred(t) == IF t = 0 THEN N - 1 ELSE t - 1

ASSUME OrderAssumption ==
  /\ N \in Nat /\ N >= 2
  /\ Capacity \in Nat /\ Catch \in [SUBSET Stations -> Nat]
  /\ Orders \subseteq [Segments -> Seq(Stations)]

(* A route has a station at one place only. *)
ASSUME OnceAssumption ==
  \A o \in Orders, t, u \in Segments :
    \A j \in DOMAIN o[t], k \in DOMAIN o[u] : o[t][j] = o[u][k] => t = u /\ j = k

(* The catch of stations is the sum of theirs. *)
ASSUME CatchAssumption ==
  \A S \in SUBSET Stations : \A x \in Stations \ S :
    Catch[S \cup {x}] = Catch[S] + Catch[{x}]

ASSUME DistanceAssumption ==
  /\ Start \in [Stations -> Locations] /\ End \in [Stations -> Locations]
  /\ Dock \in [Segments -> Locations]
  /\ Miles \in [Locations \X Locations -> Nat]

-----------------------------------------------------------------------------
(* Distances.  A distance that is not positive counts as missing.          *)

(* Mutant of StationToLoc: only the start of the tow is looked at.         *)
StartToLoc(x, loc) == Miles[<<Start[x], loc>>]

StationToLoc(x, loc) ==
  LET d1 == Miles[<<Start[x], loc>>]
      d2 == Miles[<<End[x], loc>>]
  IN  IF d1 <= 0 THEN d2 ELSE IF d2 <= 0 THEN d1 ELSE Min({d1, d2})

(* The point set of segment t in route o: its docks and its tows. *)
Points(o, t) ==
  {Dock[Pred(t)], Dock[t]} \cup {Start[y] : y \in ToSet(o[t])}
                           \cup {End[y] : y \in ToSet(o[t])}

StationToSegment(o, x, t) == Min({StationToLoc(x, loc) : loc \in Points(o, t)})

(* The score of station x at boundary l of route o: to the port or to      *)
(* either side, whichever is nearest.                                      *)
Score(o, l, x) ==
  Min({StationToLoc(x, Dock[l]), StationToSegment(o, x, l),
       StationToSegment(o, x, Succ(l))})

-----------------------------------------------------------------------------
VARIABLES
  pc,      \* scan, copy, or how it ended: retry, none
  order,   \* segments[t].signed_station_ids
  left,    \* left_idx, the boundary
  s, i,    \* the scan: segment and position in it
  best,    \* best_donor, best_pos, best_score, best_left
  copies   \* fallback_left, fallback_right, fallback_donor

vars == <<pc, order, left, s, i, best, copies>>

NoDonor == -1
NoBest == [donor |-> NoDonor, pos |-> 0, score |-> 0, nearerLeft |-> TRUE]
NoCopies == [left |-> <<>>, right |-> <<>>, donor |-> <<>>]

Right == Succ(left)

CatchOf(t) == Catch[ToSet(order[t])]
RoomIn(t, x) == CatchOf(t) + Catch[{x}] <= Capacity

Excluded(t) ==
  \/ t \in {left, Right, Pred(left), Succ(Right)}
  \/ Len(order[t]) <= 1

Init ==
  /\ pc = "scan"
  /\ order \in Orders
  /\ left \in Segments
  /\ s = 0 /\ i = 1
  /\ best = NoBest
  /\ copies = NoCopies

(* A segment that may not donate, or the end of one that may. *)
NextSegment ==
  /\ pc = "scan" /\ s < N
  /\ Excluded(s) \/ i > Len(order[s])
  /\ s' = s + 1 /\ i' = 1
  /\ UNCHANGED <<pc, order, left, best, copies>>

(* Neither side has room for the station. *)
PassOver ==
  /\ pc = "scan" /\ s < N /\ ~Excluded(s) /\ i <= Len(order[s])
  /\ ~RoomIn(left, order[s][i]) /\ ~RoomIn(Right, order[s][i])
  /\ i' = i + 1
  /\ UNCHANGED <<pc, order, left, s, best, copies>>

(* Mutant of NearerLeft: the nearer side, room or not.                     *)
NearerOnly(x) ==
  StationToSegment(order, x, left) <= StationToSegment(order, x, Right)

(* The nearer side if both have room, else the one that has. *)
NearerLeft(x) ==
  IF RoomIn(left, x) /\ RoomIn(Right, x)
    THEN StationToSegment(order, x, left) <= StationToSegment(order, x, Right)
    ELSE RoomIn(left, x)

(* Mutant of Beats: of two as near, the last is kept.                      *)
BeatsOrTies(d) == best.donor = NoDonor \/ d <= best.score

(* best_score starts above every distance. *)
Beats(d) == best.donor = NoDonor \/ d < best.score

Consider ==
  /\ pc = "scan" /\ s < N /\ ~Excluded(s) /\ i <= Len(order[s])
  /\ LET x == order[s][i]
         d == Score(order, left, x)
     IN  /\ RoomIn(left, x) \/ RoomIn(Right, x)
         /\ best' = IF Beats(d)
                      THEN [donor |-> s, pos |-> i, score |-> d,
                            nearerLeft |-> NearerLeft(x)]
                      ELSE best
  /\ i' = i + 1
  /\ UNCHANGED <<pc, order, left, s, copies>>

EndScan ==
  /\ pc = "scan" /\ s = N
  /\ pc' = IF best.donor = NoDonor THEN "none" ELSE "copy"
  /\ UNCHANGED <<order, left, s, i, best, copies>>

-----------------------------------------------------------------------------
Chosen == order[best.donor][best.pos]

(* copy_segment_with_extra_station *)
WithExtra(t, take) == IF take THEN Append(order[t], Chosen) ELSE order[t]

(* copy_segment_without_station *)
WithoutStation == RemoveAt(order[best.donor], best.pos)

(* The segments to retry the boundary with. *)
Copy ==
  /\ pc = "copy"
  /\ copies' = [left |-> WithExtra(left, best.nearerLeft),
                right |-> WithExtra(Right, ~best.nearerLeft),
                donor |-> WithoutStation]
  /\ pc' = "retry"
  /\ UNCHANGED <<order, left, s, i, best>>

(* No memory for one of the copies. *)
CopyFails ==
  /\ pc = "copy"
  /\ pc' = "none"
  /\ UNCHANGED <<order, left, s, i, best, copies>>

Next == NextSegment \/ PassOver \/ Consider \/ EndScan \/ Copy \/ CopyFails

Spec == Init /\ [][Next]_vars

-----------------------------------------------------------------------------
(* Every variable has its type; what was found lies behind the scan.       *)
TypeOK ==
  /\ pc \in {"scan", "copy", "retry", "none"}
  /\ order \in Orders /\ left \in Segments
  /\ s \in 0 .. N /\ i \in Nat \ {0}
  /\ best \in [donor : Segments \cup {NoDonor}, pos : Nat, score : Int,
               nearerLeft : BOOLEAN]
  /\ copies \in [left : Seq(Stations), right : Seq(Stations),
                 donor : Seq(Stations)]

(* Station k of segment t may be donated: the DonorMoves of Sweep. *)
MayDonate(t, k) ==
  /\ t \in Segments /\ k \in 1 .. Len(order[t])
  /\ ~Excluded(t)
  /\ RoomIn(left, order[t][k]) \/ RoomIn(Right, order[t][k])

ScoreAt(t, k) == Score(order, left, order[t][k])

(* Position (t, k) is scanned before (u, m). *)
Before(t, k, u, m) == t < u \/ (t = u /\ k < m)

(* The scan of all segments ends with the station that may be donated and  *)
(* is nearest, the first in scan order of those as near, and with none     *)
(* only if no station may be donated: a filter, a running minimum and an   *)
(* early continue together compute an arg min over the eligible stations.  *)
ChoiceIsNearest ==
  pc # "scan" =>
    IF best.donor = NoDonor
      THEN \A t \in Segments : \A k \in 1 .. Len(order[t]) : ~MayDonate(t, k)
      ELSE /\ MayDonate(best.donor, best.pos)
           /\ \A t \in Segments : \A k \in 1 .. Len(order[t]) :
                MayDonate(t, k) =>
                  \/ ScoreAt(best.donor, best.pos) < ScoreAt(t, k)
                  \/ /\ ScoreAt(best.donor, best.pos) = ScoreAt(t, k)
                     /\ ~Before(t, k, best.donor, best.pos)

(* The copies deal out the stations of the three segments anew: the donor  *)
(* keeps its others in their order and is not emptied, one side has the    *)
(* chosen station in addition, and it has room for it.                     *)
CopiesSound ==
  pc = "retry" =>
    /\ Chosen \notin ToSet(copies.donor)
    /\ \E k \in 1 .. Len(order[best.donor]) :
         order[best.donor] = InsertAt(copies.donor, k, Chosen)
    /\ copies.donor # <<>>
    /\ \/ /\ copies.left = Append(order[left], Chosen)
          /\ copies.right = order[Right]
          /\ Catch[ToSet(copies.left)] <= Capacity
       \/ /\ copies.left = order[left]
          /\ copies.right = Append(order[Right], Chosen)
          /\ Catch[ToSet(copies.right)] <= Capacity

(* The documented nearness of a station: the least distance from its tow   *)
(* to the port and the points of both sides.                               *)
Nearness(x) ==
  Min({Miles[<<e, loc>>] : e \in {Start[x], End[x]},
                           loc \in Points(order, left) \cup Points(order, Right)})

(* docs/algorithms/sweep-subroutine.md: the chosen station is the one of   *)
(* least nearness, in the sense of the whole distance matrix.              *)
NearestAsDocumented ==
  pc = "retry" =>
    \A t \in Segments : \A k \in 1 .. Len(order[t]) :
      MayDonate(t, k) => Nearness(Chosen) <= Nearness(order[t][k])

=============================================================================
