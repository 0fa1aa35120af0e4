----------------------------- MODULE MCMipOrder -----------------------------
(***************************************************************************)
(* Instances for TLC of a dock and three cities: three stations, or two    *)
(* stations and a port, at points of a grid.                               *)
(***************************************************************************)
EXTENDS MipOrder

(* 0 is the boat's dock, 1 a port, 2 to 5 are ends of tows, 6 is a point. *)
MCLocations == 0 .. 6
Points == << <<6, 1>>, <<1, 1>>, <<1, 4>>, <<3, 0>>, <<5, 3>>, <<2, 6>> >>
PointOf(l) == IF l = 0 THEN <<0, 0>> ELSE Points[l]
Abs(i) == IF i < 0 THEN -i ELSE i
Grid ==
  [p \in MCLocations \X MCLocations |->
     Abs(PointOf(p[1])[1] - PointOf(p[2])[1])
       + Abs(PointOf(p[1])[2] - PointOf(p[2])[2])]

(* No rows between the dock and any tow but the first. *)
Gaps ==
  [p \in MCLocations \X MCLocations |->
     IF 0 \in {p[1], p[2]} /\ {p[1], p[2]} \cap {4, 5, 6} # {} THEN -1 ELSE Grid[p]]

Problem(kind, endDock, listed, n, capacity, miles, timed) ==
  [kind |-> kind, dock |-> 0, endDock |-> endDock, listed |-> listed,
   start |-> SubSeq(<<2, 4, 6>>, 1, n), end |-> SubSeq(<<3, 5, 6>>, 1, n),
   amount |-> SubSeq(<<2, 3, 1>>, 1, n), capacity |-> capacity,
   miles |-> miles, limited |-> timed]

MCInstances ==
  {Problem("segment", 1, <<>>, 3, 0, Grid, TRUE),
   Problem("noport", 0, <<>>, 3, 6, Grid, TRUE),
   Problem("noport", 0, <<>>, 3, 5, Gaps, FALSE),
   Problem("split", 1, <<1>>, 2, 2, Grid, TRUE),
   Problem("split", 1, <<1>>, 2, 3, Grid, TRUE),
   Problem("split", 1, <<1>>, 2, 5, Gaps, TRUE),
   Problem("fixedport", 0, <<0, 1>>, 2, 5, Gaps, TRUE),
   Problem("fixedport", 0, <<1>>, 2, 4, Gaps, FALSE)}
  \cup {Problem("fixedport", 0, l, 2, c, Grid, TRUE) :
          l \in {<<1>>, <<0, 1>>, <<0, 0>>}, c \in {2, 4}}
=============================================================================
