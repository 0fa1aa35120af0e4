----------------------------- MODULE PairedTour -----------------------------
(***************************************************************************)
(* Tours through pairs of nodes, as the solver's callback and its callers  *)
(* read them off a solution. City c has the nodes 2 c and 2 c + 1; a       *)
(* solution gives each node its successor. City 0 is the dock, where the   *)
(* route starts at node 0 and ends at node 1.                              *)
(***************************************************************************)
EXTENDS Integers, Sequences, FiniteSets, FiniteSetsExt, SequencesExt

CityOf(n) == n \div 2

(* The nodes on the subtour of s, in the order they are come to. *)
Subtour(next, s) ==
  LET N == Cardinality(DOMAIN next)
      walk[k \in 1 .. N] == IF k = 1 THEN s ELSE next[walk[k - 1]]
  IN  SubSeq(walk, 1, Min({k \in 1 .. N : next[walk[k]] = s}))

(* findsubtour: the shortest subtour, of several the one with the lowest   *)
(* node, starting there.                                                   *)
Starts(next) == {s \in DOMAIN next : s = Min(ToSet(Subtour(next, s)))}
Shorter(next, s, t) ==
  \/ Len(Subtour(next, s)) < Len(Subtour(next, t))
  \/ Len(Subtour(next, s)) = Len(Subtour(next, t)) /\ s <= t
FindSubtour(next) ==
  Subtour(next, CHOOSE s \in Starts(next) :
                  \A t \in Starts(next) : Shorter(next, s, t))

(* The cycle s from its first element with the property P on. *)
RotatedTo(s, P(_)) ==
  LET K == {k \in DOMAIN s : P(s[k])}
      k == Min(K)
  IN  IF K = {} THEN s ELSE SubSeq(s, k, Len(s)) \o SubSeq(s, 1, k - 1)

(* Mutant of Oriented: a tour that leaves at the end dock is kept so. *)
NotTurned(tour) == RotatedTo(tour, LAMBDA n : n = 0)

(* orient: from node 0 on, and node 1 last, if need be by turning round.   *)
Oriented(tour) ==
  LET t == RotatedTo(tour, LAMBDA n : n = 0)
  IN  IF Len(t) > 1 /\ t[2] = 1 THEN <<t[1]>> \o Reverse(Tail(t)) ELSE t

(* letour: each city where it is come to first, and whether by its end;    *)
(* the dock comes first.                                                   *)
Visit(n) == [city |-> CityOf(n), back |-> n % 2 = 1]
Seen(letour, n) == \E v \in ToSet(letour) : v.city = CityOf(n)
Letour(tour) ==
  LET letour[k \in 0 .. Len(tour)] ==
        IF k = 0 THEN <<>>
        ELSE IF Seen(letour[k - 1], tour[k]) THEN letour[k - 1]
        ELSE Append(letour[k - 1], Visit(tour[k]))
  IN  letour[Len(tour)]

CityTour(tour) == RotatedTo(Letour(tour), LAMBDA v : v.city = 0)

(* Arcs of a solution within a set of nodes: the sum a cut bounds. *)
ArcsWithin(next, S) == Cardinality({n \in S : next[n] \in S})

(* Mutant of Allowed: the bound one too large. *)
AllowedLoose(next, cuts) ==
  \A S \in cuts : ArcsWithin(next, S) <= Cardinality(S)

(* The callback bounds the arcs within a subtour it finds.                 *)
Allowed(next, cuts) == \A S \in cuts : ArcsWithin(next, S) <= Cardinality(S) - 1

=============================================================================
