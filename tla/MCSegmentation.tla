--------------------------- MODULE MCSegmentation ---------------------------
(***************************************************************************)
(* Constructions for TLC: every order of the stations, cut into groups in  *)
(* every way, with the docks of the groups or without.                     *)
(***************************************************************************)
EXTENDS Segmentation

CONSTANTS
  Amounts,      \* catch of each station
  Capacities,   \* boats
  MaxEmpty      \* most groups without a station

CatchSums ==
  [S \in SUBSET Stations |-> MapThenSumSet(LAMBDA x : Amounts[x], S)]

(* The ways to cut an order of n stations into consecutive groups. *)
Cuts(n) ==
  UNION {{c \in [1 .. k -> 0 .. n] :
            /\ FoldFunction(+, 0, c) = n
            /\ Cardinality({j \in 1 .. k : c[j] = 0}) <= MaxEmpty} :
         k \in 1 .. n + MaxEmpty}

Before1(c, j) == FoldFunctionOnSet(+, 0, c, 1 .. j - 1)

Grouped(order, c) ==
  [j \in 1 .. Len(c) |->
     SubSeq(order, Before1(c, j) + 1, Before1(c, j) + c[j])]

(* The boat starts and ends at home; ports alternate between the groups. *)
PortOf(j) == SetToSeq(Ports)[1 + (j % Cardinality(Ports))]
DocksFor(n) ==
  [j \in 1 .. n + 1 |-> IF j \in {1, n + 1} THEN Home ELSE PortOf(j)]

Constructions(served) ==
  {[order |-> o, groups |-> Grouped(o, c), docks |-> d, capacity |-> k] :
     o \in SetToSeqs(served), c \in Cuts(Cardinality(served)),
     d \in {<<>>}, k \in Capacities}

WithDocks(d) == [d EXCEPT !.docks = DocksFor(Len(d.groups))]

(* All stations, or all but the last. *)
AllInputs ==
  LET without == Constructions(Stations) \cup
                 Constructions(1 .. Cardinality(Stations) - 1)
  IN  without \cup {WithDocks(d) : d \in without}

Uneven == <<2, 3, 1, 4>>
WithZero == <<2, 3, 0, 4>>
=============================================================================
