--------------------------- MODULE MCDonorChoice ---------------------------
(***************************************************************************)
(* Six segments (the least with two donors) on a line of places; a tow     *)
(* goes from one place to another.                                         *)
(***************************************************************************)
EXTENDS DonorChoice

CONSTANTS From, To, Ports

Abs(x) == IF x < 0 THEN -x ELSE x

Places == ToSet(From) \cup ToSet(To) \cup ToSet(Ports)

LineMiles == [p \in Places \X Places |-> Abs(p[1] - p[2])]
LineStart == [x \in Stations |-> From[x]]
LineEnd == [x \in Stations |-> To[x]]
LineDock == [t \in Segments |-> Ports[t + 1]]

(* A station catches 1, the last but one 2 and the last 3. *)
Catches == [x \in Stations |-> CASE x = 8 -> 3 [] x = 7 -> 2 [] OTHER -> 1]
CatchSums == [S \in SUBSET Stations |-> MapThenSumSet(LAMBDA x : Catches[x], S)]

(* In the last route both sides of boundary 0 are full. *)
Routes ==
  {<< <<1, 2>>, <<3>>, <<4, 5>>, <<6>>, <<7>>, <<8>> >>,
   << <<8>>, <<2, 3>>, <<4>>, <<5, 6>>, <<1>>, <<7>> >>,
   << <<6, 5, 4>>, <<2>>, <<8>>, <<3>>, <<7>>, <<1>> >>,
   << <<1>>, <<7>>, <<3, 2>>, <<8>>, <<4>>, <<5, 6>> >>,
   << <<7, 1>>, <<8>>, <<2>>, <<3, 4>>, <<5>>, <<6>> >>}

SixOrders == {[t \in 0 .. 5 |-> r[t + 1]] : r \in Routes}

(* Tows and ports apart from each other. *)
Ports6 == <<0, 40, 80, 44, 20, 60>>
Froms == <<3, 33, 51, 72, 88, 12, 26, 65>>
Tos == <<7, 37, 57, 76, 84, 16, 22, 69>>
=============================================================================
