--------------------------- MODULE MCConstruction ---------------------------
(***************************************************************************)
(* Instances for TLC: tows and ports at points of a grid, every assignment *)
(* of the tows to the stations; with the whole matrix, with rows missing,  *)
(* and with a tow that starts in a port.                                   *)
(***************************************************************************)
EXTENDS Construction

CONSTANTS
  Amounts,      \* assignments of a catch to each station
  Boats         \* pairs of capacity and target

(* Location 0 is the dock, 1 and 2 are ports, tow k leads from location    *)
(* 2 k + 1 to 2 k + 2; the last is a point.                                *)
MCLocations == 0 .. 2 * NumStations + 2
Points ==
  << <<0, 1>>, <<9, 2>>,
     <<1, 0>>, <<2, 1>>, <<3, 3>>, <<5, 3>>, <<6, 0>>, <<7, 1>>,
     <<4, 5>>, <<4, 6>>, <<8, 5>>, <<9, 6>> >>
PointOf(l) == IF l = 0 THEN <<0, 0>> ELSE Points[l]

Abs(i) == IF i < 0 THEN -i ELSE i
GridMiles(a, b) ==
  Abs(PointOf(a)[1] - PointOf(b)[1]) + Abs(PointOf(a)[2] - PointOf(b)[2])

WholeMatrix == [p \in MCLocations \X MCLocations |-> GridMiles(p[1], p[2])]

(* No rows between a port and the last tow, or between two of the tows. *)
PortUnknown ==
  [p \in MCLocations \X MCLocations |->
     IF {p[1], p[2]} \cap {1, 2} # {} /\ {p[1], p[2]} \cap {9, 10} # {}
       THEN -1 ELSE GridMiles(p[1], p[2])]
TowsUnknown ==
  [p \in MCLocations \X MCLocations |->
     IF {p[1], p[2]} \cap {3, 4} # {} /\ {p[1], p[2]} \cap {7, 8} # {}
       THEN -1 ELSE GridMiles(p[1], p[2])]

TowStart(t, port) == IF port /\ t = 2 THEN 1 ELSE 2 * t + 1
TowEnd(t) == IF t = NumStations THEN 2 * t + 1 ELSE 2 * t + 2

Tows(f, port) ==
  [boat |-> 0, amount |-> ByIndex, capacity |-> 0, target |-> 0,
   start |-> [n \in Nodes |-> IF n \in Ports THEN n - NumStations
                              ELSE TowStart(f[n], port)],
   end |-> [n \in Nodes |-> IF n \in Ports THEN n - NumStations
                            ELSE TowEnd(f[n])],
   miles |-> WholeMatrix]

Layouts ==
  {Tows(f, FALSE) : f \in SetToSeqs(Stations)} \cup {Tows(ByIndex, TRUE)}

MCInstances ==
  {[t EXCEPT !.amount = a, !.capacity = b[1], !.target = b[2], !.miles = m] :
     a \in Amounts, t \in Layouts, b \in Boats,
     m \in {WholeMatrix, PortUnknown, TowsUnknown}}

(* All stations with catch, and one of them without. *)
Uneven == {<<2, 1, 3, 1>>, <<2, 0, 3, 1>>}
TwoBoats == {<<4, 4>>, <<3, 2>>}
=============================================================================
