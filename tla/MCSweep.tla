------------------------------ MODULE MCSweep ------------------------------
(***************************************************************************)
(* Small instances of the sweep.  Docks and stations are points on a line; *)
(* a tour from one dock to the next through a set of stations covers the   *)
(* interval they span, in one direction or the other.  A solver reports    *)
(* the optimum or, for segment 1, an incumbent that is Slack worse.        *)
(***************************************************************************)
EXTENDS Sweep, Functions

CONSTANTS DockAt, StationAt, Slack

Abs(x) == IF x < 0 THEN -x ELSE x

Optimum(i, S) ==
  LET from == DockAt[i + 1]
      to   == DockAt[i + 2]
      lo   == Min({StationAt[x] : x \in S})
      hi   == Max({StationAt[x] : x \in S})
  IN  IF S = {} THEN Abs(from - to)
      ELSE hi - lo + Min({Abs(from - lo) + Abs(hi - to),
                          Abs(from - hi) + Abs(lo - to)})

LineTours ==
  [a \in Segments \X SUBSET Stations |->
     {Optimum(a[1], a[2]) + d : d \in {0, IF a[1] = 1 THEN Slack ELSE 0}}]

(* Station x catches 1, the last one 2. *)
UnevenCatch ==
  [S \in SUBSET Stations |->
     Cardinality(S) + (IF Cardinality(Stations) \in S THEN 1 ELSE 0)]

(* Three segments, three stations; the first route is infeasible, and both *)
(* have an empty segment.                                                  *)
Docks3 == <<0, 4, 8, 0>>
Line3 == <<1, 3, 6>>
Routes3 == {<<{3, 1}, {2}, {}>>, <<{}, {1, 2}, {3}>>}
Zero3 == {[i \in 0 .. 2 |-> r[i + 1]] : r \in Routes3}

(* Five segments, six stations: the least that has donors. *)
Docks5 == <<0, 2, 6, 9, 5, 0>>
Line6 == <<1, 5, 7, 2, 4, 8>>
Routes5 == {<<{1}, {2}, {3, 4}, {5}, {6}>>}
Zero5 == {[i \in 0 .. 4 |-> r[i + 1]] : r \in Routes5}
=============================================================================
