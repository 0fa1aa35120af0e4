-------------------------- MODULE ConstructionProofs --------------------------
(***************************************************************************)
(* The construction heuristics, for any survey, boat and distance matrix:  *)
(* each route visits every station once, greedy edge always closes its     *)
(* cycle, and every insertion into a cycle is a cheapest one. The segments *)
(* cut the tour and add up to its length and catch, and only a station     *)
(* that is too heavy by itself is ever over the target.                    *)
(***************************************************************************)
EXTENDS Construction, Sums, SequenceTheorems, FiniteSetTheorems, TLAPS

(* Types *)

VisitRecord == [station : Stations, seg : Nat]
SegmentRecord == [first : Nat, last : Nat, catch : Nat, miles : Nat]

RouteType ==
  [at : Locations, anchor : Nodes \cup {NoNode}, load : Nat, leg : Nat,
   tour : Seq(Locations), visits : Seq(VisitRecord),
   segs : Seq(SegmentRecord), first : Nat, total : Nat]

(* The instance of a run. *)
LEMMA InstanceTypes ==
  ASSUME inst \in Instances
  PROVE  /\ inst.boat \in Locations
         /\ \A n \in Nodes : inst.start[n] \in Locations /\ inst.end[n] \in Locations
         /\ \A p \in Ports : inst.start[p] = inst.end[p]
         /\ \A a, b \in Locations : Miles(a, b) \in Int
         /\ \A x \in Stations : inst.amount[x] \in Nat
         /\ inst.capacity \in Nat \ {0} /\ inst.target \in Nat \ {0}
<1>1. inst \in InstanceType  BY InstanceAssumption
<1> QED BY <1>1, InstanceAssumption DEF InstanceType, Miles

LEMMA NodeTypes ==
  /\ Stations \subseteq Nodes /\ Ports \subseteq Nodes
  /\ Stations \cap Ports = {} /\ NoNode \notin Nodes
  /\ Stations \subseteq Nat /\ Nodes \subseteq Nat
  /\ IsFiniteSet(Stations) /\ Cardinality(Stations) = NumStations
  /\ NumStations \in Nat /\ NumStations >= 1
<1>1. NumStations \in Nat /\ NumStations >= 1 /\ NumPorts \in Nat
  BY SizeAssumption
<1>2. IsFiniteSet(Stations) /\ Cardinality(Stations) = NumStations
  BY <1>1, FS_Interval DEF Stations
<1> QED BY <1>1, <1>2 DEF Stations, Ports, Nodes, NoNode

LEMMA EmptyRouteType ==
  ASSUME inst \in Instances
  PROVE  /\ EmptyRoute \in RouteType /\ EmptyRoute.at = inst.boat
         /\ EmptyRoute.anchor = NoNode /\ EmptyRoute.load = 0
         /\ EmptyRoute.leg = 0
         /\ EmptyRoute.visits = <<>> /\ EmptyRoute.tour = <<>>
         /\ EmptyRoute.segs = <<>> /\ EmptyRoute.first = 1
BY InstanceTypes DEF EmptyRoute, RouteType

(* A traversal leaves the tow at the other end. *)
LEMMA TraverseType ==
  ASSUME inst \in Instances, NEW l \in Locations, NEW x \in Stations,
         CanTraverse(l, x)
  PROVE  /\ Traverse(l, x).entry \in EndsOf(x)
         /\ Traverse(l, x).exit \in EndsOf(x)
         /\ Traverse(l, x).entry \in Locations /\ Traverse(l, x).exit \in Locations
         /\ Traverse(l, x).added \in Nat
         /\ Traverse(l, x).added =
              IF Traverse(l, x).entry = Traverse(l, x).exit
                THEN Miles(l, Traverse(l, x).entry)
                ELSE Miles(l, Traverse(l, x).entry)
                       + Miles(Traverse(l, x).entry, Traverse(l, x).exit)
<1> DEFINE s == inst.start[x]
           e == inst.end[x]
<1>1. s \in Locations /\ e \in Locations /\ EndsOf(x) = {s, e}
  BY InstanceTypes, NodeTypes DEF EndsOf
<1>2. /\ Miles(l, s) \in Int /\ Miles(l, e) \in Int
      /\ Miles(s, e) \in Int /\ Miles(e, s) \in Int
  BY <1>1, InstanceTypes
<1> DEFINE Via(a, b) == IF Miles(l, a) > 0 /\ Miles(a, b) > 0
                     THEN Miles(l, a) + Miles(a, b) ELSE Missing
           forth == [entry |-> s, exit |-> e,
                added |-> IF s # e THEN Via(s, e)
                          ELSE IF Miles(l, s) > 0 THEN Miles(l, s) ELSE Missing]
           back == [entry |-> e, exit |-> s, added |-> Via(e, s)]
<1>3. \/ Traverse(l, x) = forth
      \/ Traverse(l, x) = back /\ s # e /\ back.added > 0
  BY DEF Traverse
<1>4. CASE Traverse(l, x) = forth
  <2>1. forth.added > 0  BY <1>4 DEF CanTraverse
  <2>2. forth.entry = s /\ forth.exit = e
        /\ forth.added = IF s # e THEN Via(s, e)
                         ELSE IF Miles(l, s) > 0 THEN Miles(l, s) ELSE Missing
    OBVIOUS
  <2> HIDE DEF forth, s, e
  <2> QED BY <1>1, <1>2, <1>4, <2>1, <2>2 DEF Missing
<1>5. CASE Traverse(l, x) = back /\ s # e
  <2>1. back.added > 0  BY <1>5 DEF CanTraverse
  <2>2. back.entry = e /\ back.exit = s /\ back.added = Via(e, s)
    OBVIOUS
  <2> HIDE DEF back, s, e
  <2> QED BY <1>1, <1>2, <1>5, <2>1, <2>2 DEF Missing
<1> HIDE DEF forth, back
<1> QED BY <1>3, <1>4, <1>5

(* What the steps of a route do to it. *)
LEMMA EmitRoute ==
  ASSUME inst \in Instances, NEW r \in RouteType, NEW x \in Stations,
         CanTraverse(r.at, x)
  PROVE  LET t == Traverse(r.at, x)
             v == Emit(r, x)
         IN  /\ v \in RouteType
             /\ v.at = t.exit /\ v.anchor = x /\ v.leg = r.leg + t.added
             /\ v.load = r.load + inst.amount[x]
             /\ v.tour = r.tour \o (IF t.entry = t.exit THEN <<t.entry>>
                                    ELSE <<t.entry, t.exit>>)
             /\ v.visits = Append(r.visits, [station |-> x, seg |-> Len(r.segs) + 1])
             /\ v.segs = r.segs /\ v.first = r.first /\ v.total = r.total
<1> DEFINE t == Traverse(r.at, x)
           v == Emit(r, x)
           piece == IF t.entry = t.exit THEN <<t.entry>> ELSE <<t.entry, t.exit>>
<1>1. /\ r.at \in Locations /\ r.leg \in Nat /\ r.load \in Nat
      /\ r.tour \in Seq(Locations) /\ r.visits \in Seq(VisitRecord)
      /\ r.segs \in Seq(SegmentRecord) /\ r.first \in Nat /\ r.total \in Nat
  BY DEF RouteType
<1>2. t.entry \in Locations /\ t.exit \in Locations /\ t.added \in Nat
  BY <1>1, TraverseType
<1>3. v = [r EXCEPT !.at = t.exit, !.anchor = x, !.leg = @ + t.added,
                    !.load = @ + inst.amount[x], !.tour = @ \o piece,
                    !.visits = Append(@, [station |-> x, seg |-> Len(r.segs) + 1])]
  BY DEF Emit
<1>4. piece \in Seq(Locations)  BY <1>2
<1>5. r.tour \o piece \in Seq(Locations)  BY <1>1, <1>4, ConcatProperties
<1>6. /\ [station |-> x, seg |-> Len(r.segs) + 1] \in VisitRecord
      /\ Append(r.visits, [station |-> x, seg |-> Len(r.segs) + 1]) \in Seq(VisitRecord)
  BY <1>1, LenProperties, AppendProperties DEF VisitRecord
<1>7. x \in Nodes /\ inst.amount[x] \in Nat  BY NodeTypes, InstanceTypes
<1> HIDE DEF t, piece, v
<1>8. /\ v.at = t.exit /\ v.anchor = x /\ v.leg = r.leg + t.added
      /\ v.load = r.load + inst.amount[x] /\ v.tour = r.tour \o piece
      /\ v.visits = Append(r.visits, [station |-> x, seg |-> Len(r.segs) + 1])
      /\ v.segs = r.segs /\ v.first = r.first /\ v.total = r.total
  BY <1>3 DEF RouteType
<1>9. v \in RouteType
  <2> DEFINE u == [r EXCEPT !.at = t.exit, !.anchor = x, !.leg = @ + t.added,
                            !.load = @ + inst.amount[x]]
             tour == r.tour \o piece
             visits == Append(r.visits, [station |-> x, seg |-> Len(r.segs) + 1])
  <2>1. u \in RouteType /\ u.tour = r.tour /\ u.visits = r.visits
    <3> DEFINE leg == r.leg + t.added
               load == r.load + inst.amount[x]
    <3>0. /\ r.leg \in Nat /\ t.added \in Nat
          /\ r.load \in Nat /\ inst.amount[x] \in Nat
      BY <1>1, <1>2, <1>7
    <3>1. leg \in Nat /\ load \in Nat  BY ONLY <3>0
    <3>2. u = [r EXCEPT !.at = t.exit, !.anchor = x, !.leg = leg, !.load = load]
      BY <1>1 DEF RouteType
    <3> HIDE DEF leg, load, u
    <3>3. u \in RouteType  BY <1>2, <1>7, <3>1, <3>2 DEF RouteType
    <3> QED BY <3>2, <3>3 DEF RouteType
  <2>2. v = [u EXCEPT !.tour = tour, !.visits = visits]
    BY <1>1, <1>3, <2>1
  <2>3. tour \in Seq(Locations) /\ visits \in Seq(VisitRecord)
    BY <1>5, <1>6
  <2> HIDE DEF u, tour, visits
  <2> QED BY <2>1, <2>2, <2>3 DEF RouteType
<1> QED BY <1>8, <1>9 DEF t, piece, v

LEMMA CloseSegmentRoute ==
  ASSUME NEW r \in RouteType
  PROVE  LET v == CloseSegment(r)
         IN  /\ v \in RouteType
             /\ v = [r EXCEPT !.segs = v.segs]
             /\ v.segs = Append(r.segs, [first |-> r.first, last |-> Len(r.tour),
                                         catch |-> r.load, miles |-> r.leg])
<1> DEFINE s == [first |-> r.first, last |-> Len(r.tour),
                 catch |-> r.load, miles |-> r.leg]
           q == Append(r.segs, s)
<1>1. s \in SegmentRecord  BY LenProperties DEF RouteType, SegmentRecord
<1>2. q \in Seq(SegmentRecord)
  BY <1>1, AppendProperties DEF RouteType
<1>3. CloseSegment(r) = [r EXCEPT !.segs = q]
  BY DEF CloseSegment
<1> HIDE DEF q
<1>4. [r EXCEPT !.segs = q] \in RouteType /\ [r EXCEPT !.segs = q].segs = q
  BY <1>2 DEF RouteType
<1> QED BY <1>3, <1>4 DEF q

LEMMA InsertPortRoute ==
  ASSUME inst \in Instances, NEW r \in RouteType, NEW p \in Ports
  PROVE  LET d == Miles(r.at, inst.start[p])
             v == InsertPort(r, p)
             leg == IF d > 0 THEN r.leg + d ELSE r.leg
         IN  /\ v \in RouteType
             /\ v.at = inst.start[p] /\ v.anchor = p /\ v.load = 0 /\ v.leg = 0
             /\ v.tour = Append(r.tour, inst.start[p])
             /\ v.visits = r.visits
             /\ v.segs = Append(r.segs, [first |-> r.first, last |-> Len(r.tour) + 1,
                                         catch |-> r.load, miles |-> leg])
             /\ v.first = Len(r.tour) + 2 /\ v.total = r.total
<1> DEFINE l == inst.start[p]
           d == Miles(r.at, l)
           v == InsertPort(r, p)
           leg == IF d > 0 THEN r.leg + d ELSE r.leg
           tour == Append(r.tour, l)
           arrived == [r EXCEPT !.leg = leg, !.tour = tour]
<1>1. /\ r.at \in Locations /\ r.leg \in Nat /\ r.load \in Nat
      /\ r.tour \in Seq(Locations) /\ l \in Locations /\ p \in Nodes
  BY InstanceTypes, NodeTypes DEF RouteType
<1>2. leg \in Nat
  <2>1. d \in Int  BY <1>1, InstanceTypes
  <2> HIDE DEF d
  <2> QED BY <1>1, <2>1
<1>3. tour \in Seq(Locations) /\ Len(tour) = Len(r.tour) + 1 /\ Len(r.tour) \in Nat
  BY <1>1, AppendProperties, LenProperties
<1>4. /\ arrived \in RouteType /\ arrived.leg = leg /\ arrived.tour = tour
      /\ arrived.segs = r.segs /\ arrived.visits = r.visits
      /\ arrived.first = r.first /\ arrived.load = r.load
      /\ arrived.total = r.total
  <2> HIDE DEF leg, tour
  <2> QED BY <1>2, <1>3 DEF RouteType
<1>5. v = [CloseSegment(arrived) EXCEPT !.at = l, !.anchor = p, !.load = 0,
                                       !.leg = 0, !.first = Len(arrived.tour) + 1]
  BY DEF InsertPort
<1> HIDE DEF arrived
<1> DEFINE c == CloseSegment(arrived)
<1>6. /\ c \in RouteType
      /\ c = [arrived EXCEPT !.segs = c.segs]
      /\ c.segs = Append(r.segs, [first |-> r.first, last |-> Len(r.tour) + 1,
                                  catch |-> r.load, miles |-> leg])
  <2> HIDE DEF leg, tour
  <2>1. /\ c \in RouteType
        /\ c = [arrived EXCEPT !.segs = c.segs]
        /\ c.segs = Append(arrived.segs, [first |-> arrived.first,
                              last |-> Len(arrived.tour),
                              catch |-> arrived.load, miles |-> arrived.leg])
    BY <1>4, CloseSegmentRoute
  <2> HIDE DEF c
  <2> QED BY <1>3, <1>4, <2>1
<1>7. c.visits = r.visits /\ c.tour = tour /\ c.total = r.total
  BY <1>4, <1>6 DEF RouteType
<1> HIDE DEF c, v
<1>8. v = [c EXCEPT !.at = l, !.anchor = p, !.load = 0,
                    !.leg = 0, !.first = Len(tour) + 1]
  BY <1>4, <1>5 DEF c
<1>9. /\ v.at = l /\ v.anchor = p /\ v.load = 0 /\ v.leg = 0
      /\ v.tour = c.tour /\ v.visits = c.visits /\ v.segs = c.segs
      /\ v.first = Len(tour) + 1 /\ v.total = c.total
  BY <1>6, <1>8 DEF RouteType
<1>10. Len(tour) + 1 = Len(r.tour) + 2 /\ Len(tour) + 1 \in Nat  BY <1>3
<1>11. v \in RouteType
  BY <1>1, <1>6, <1>8, <1>10 DEF RouteType
<1> QED BY <1>6, <1>7, <1>9, <1>10, <1>11 DEF v

-----------------------------------------------------------------------------
(* The folds of the module are sums. *)

LEMMA FoldOfLengths ==
  ASSUME NEW f, IsFiniteSet(DOMAIN f)
  PROVE  FoldFunction(LAMBDA a, sum : Len(a) + sum, 0, f)
           = Total([x \in DOMAIN f |-> Len(f[x])], DOMAIN f)
<1> DEFINE S == DOMAIN f
           g == [x \in S |-> Len(f[x])]
           Adds(h) == h = [s \in SUBSET S |-> IF s = {} THEN 0
                             ELSE Len(f[Pick(s)]) + h[s \ {Pick(s)}]]
           c == CHOOSE h : Adds(h)
<1>1. FoldFunction(LAMBDA a, sum : Len(a) + sum, 0, f) = c[S]
  BY DEF FoldFunction, FoldFunctionOnSet, MapThenFoldSet, Pick
<1>2. \A s \in SUBSET S : s # {} => Len(f[Pick(s)]) = g[Pick(s)]
  BY DEF Pick
<1>3. ASSUME NEW h PROVE Adds(h) <=> AddsUp(h, g, S)
  <2> DEFINE u == [s \in SUBSET S |-> IF s = {} THEN 0
                             ELSE Len(f[Pick(s)]) + h[s \ {Pick(s)}]]
             v == [s \in SUBSET S |-> IF s = {} THEN 0
                             ELSE g[Pick(s)] + h[s \ {Pick(s)}]]
  <2>1. u = v  BY <1>2
  <2>2. Adds(h) <=> h = u  OBVIOUS
  <2>3. AddsUp(h, g, S) <=> h = v  BY DEF AddsUp
  <2> QED BY <2>1, <2>2, <2>3
<1>4. \E h : Adds(h)
  <2>1. \E h : AddsUp(h, g, S)  BY TotalExists
  <2> HIDE DEF Adds, g
  <2> QED BY <2>1, <1>3
<1>5. AddsUp(c, g, S)
  <2> HIDE DEF Adds, g
  <2>1. Adds(c)  BY <1>4
  <2> QED BY <2>1, <1>3
<1>6. c[S] = Total(g, S)
  <2>1. IsFiniteSet(S) /\ AddsUp(c, g, S) /\ S \in SUBSET S  BY <1>5
  <2> HIDE DEF c, g, S
  <2>2. \A R \in SUBSET S : c[R] = Total(g, R)  BY ONLY <2>1, TotalOfSubset
  <2> QED BY <2>1, <2>2
<1> QED BY <1>1, <1>6

LEMMA FoldOfMiles ==
  ASSUME NEW f, IsFiniteSet(DOMAIN f)
  PROVE  FoldFunction(LAMBDA s, sum : s.miles + sum, 0, f)
           = Total([x \in DOMAIN f |-> f[x].miles], DOMAIN f)
<1> DEFINE S == DOMAIN f
           g == [x \in S |-> f[x].miles]
           Adds(h) == h = [s \in SUBSET S |-> IF s = {} THEN 0
                             ELSE f[Pick(s)].miles + h[s \ {Pick(s)}]]
           c == CHOOSE h : Adds(h)
<1>1. FoldFunction(LAMBDA s, sum : s.miles + sum, 0, f) = c[S]
  BY DEF FoldFunction, FoldFunctionOnSet, MapThenFoldSet, Pick
<1>2. \A s \in SUBSET S : s # {} => f[Pick(s)].miles = g[Pick(s)]
  BY DEF Pick
<1>3. ASSUME NEW h PROVE Adds(h) <=> AddsUp(h, g, S)
  <2> DEFINE u == [s \in SUBSET S |-> IF s = {} THEN 0
                             ELSE f[Pick(s)].miles + h[s \ {Pick(s)}]]
             v == [s \in SUBSET S |-> IF s = {} THEN 0
                             ELSE g[Pick(s)] + h[s \ {Pick(s)}]]
  <2>1. u = v  BY <1>2
  <2>2. Adds(h) <=> h = u  OBVIOUS
  <2>3. AddsUp(h, g, S) <=> h = v  BY DEF AddsUp
  <2> QED BY <2>1, <2>2, <2>3
<1>4. \E h : Adds(h)
  <2>1. \E h : AddsUp(h, g, S)  BY TotalExists
  <2> HIDE DEF Adds, g
  <2> QED BY <2>1, <1>3
<1>5. AddsUp(c, g, S)
  <2> HIDE DEF Adds, g
  <2>1. Adds(c)  BY <1>4
  <2> QED BY <2>1, <1>3
<1>6. c[S] = Total(g, S)
  <2>1. IsFiniteSet(S) /\ AddsUp(c, g, S) /\ S \in SUBSET S  BY <1>5
  <2> HIDE DEF c, g, S
  <2>2. \A R \in SUBSET S : c[R] = Total(g, R)  BY ONLY <2>1, TotalOfSubset
  <2> QED BY <2>1, <2>2
<1> QED BY <1>1, <1>6

(* The last steps of a route. *)
LEMMA ReturnType ==
  ASSUME inst \in Instances, NEW r \in RouteType
  PROVE  Return(r) \in Nat
BY InstanceTypes DEF Return, RouteType

LEMMA WithTotalRoute ==
  ASSUME inst \in Instances, NEW r \in RouteType
  PROVE  LET v == WithTotal(r)
         IN  /\ v \in RouteType /\ v.visits = r.visits /\ v.segs = r.segs
             /\ v.tour = r.tour /\ v.at = r.at /\ v.load = r.load
             /\ v.total = Return(r) + Total([k \in DOMAIN r.segs |-> r.segs[k].miles],
                                            DOMAIN r.segs)
<1> DEFINE S == DOMAIN r.segs
           g == [k \in S |-> r.segs[k].miles]
           n == Return(r) + Total(g, S)
<1>1. r.segs \in Seq(SegmentRecord)  BY DEF RouteType
<1>2. S = 1 .. Len(r.segs) /\ Len(r.segs) \in Nat  BY <1>1, LenProperties
<1>3. IsFiniteSet(S)  BY <1>2, FS_Interval
<1>4. \A k \in S : g[k] \in Nat
  <2> SUFFICES ASSUME NEW k \in S PROVE r.segs[k].miles \in Nat  OBVIOUS
  <2>1. r.segs[k] \in SegmentRecord  BY <1>1, <1>2, ElementOfSeq
  <2> QED BY <2>1 DEF SegmentRecord
<1>5. Total(g, S) \in Nat
  <2> HIDE DEF g
  <2> QED BY <1>3, <1>4, TotalNatural
<1>6. n \in Nat  BY <1>5, ReturnType
<1>7. WithTotal(r) = [r EXCEPT !.total = n]
  BY <1>3, FoldOfMiles DEF WithTotal
<1> HIDE DEF n
<1>8. LET v == [r EXCEPT !.total = n]
      IN  /\ v \in RouteType /\ v.visits = r.visits /\ v.segs = r.segs
          /\ v.tour = r.tour /\ v.at = r.at /\ v.load = r.load /\ v.total = n
  BY <1>6 DEF RouteType
<1> QED BY <1>7, <1>8 DEF n

LEMMA OneSegmentRoute ==
  ASSUME inst \in Instances, NEW r \in RouteType
  PROVE  LET v == OneSegment(r)
         IN  /\ v \in RouteType /\ v.visits = r.visits /\ v.tour = r.tour
             /\ v.at = r.at /\ v.total = r.leg + Return(r)
             /\ v.segs = Append(r.segs, [first |-> r.first, last |-> Len(r.tour),
                                  catch |-> r.load, miles |-> r.leg + Return(r)])
<1> DEFINE n == r.leg + Return(r)
           back == [r EXCEPT !.leg = n]
<1>1. n \in Nat  BY ReturnType DEF RouteType
<1>2. OneSegment(r) = [CloseSegment(back) EXCEPT !.total = back.leg]
  BY DEF OneSegment, RouteType
<1> HIDE DEF n
<1>3. /\ back \in RouteType /\ back.leg = n /\ back.visits = r.visits
      /\ back.tour = r.tour /\ back.at = r.at /\ back.segs = r.segs
      /\ back.first = r.first /\ back.load = r.load
  BY <1>1 DEF RouteType
<1> HIDE DEF back
<1> DEFINE c == CloseSegment(back)
<1>4. /\ c \in RouteType /\ c = [back EXCEPT !.segs = c.segs]
      /\ c.segs = Append(r.segs, [first |-> r.first, last |-> Len(r.tour),
                                  catch |-> r.load, miles |-> n])
  BY <1>3, CloseSegmentRoute
<1>5. c.visits = r.visits /\ c.tour = r.tour /\ c.at = r.at
  BY <1>3, <1>4 DEF RouteType
<1> HIDE DEF c
<1>6. LET v == [c EXCEPT !.total = n]
      IN  /\ v \in RouteType /\ v.visits = c.visits /\ v.tour = c.tour
          /\ v.at = c.at /\ v.segs = c.segs /\ v.total = n
  BY <1>1, <1>4 DEF RouteType
<1> QED BY <1>2, <1>3, <1>4, <1>5, <1>6 DEF n, c

-----------------------------------------------------------------------------
(* The graph of greedy edge. *)

Pairs == {p \in Stations \X Stations : p[1] < p[2]}

GraphType ==
  /\ inst \in Instances
  /\ rest \in SUBSET Pairs
  /\ adj \in [Stations -> Seq(Stations)]
  /\ comp \in [Stations -> Stations]

Linked(x, y) == y \in Range(adj[x])
Degree == [x \in Stations |-> Len(adj[x])]
Components == {comp[x] : x \in Stations}

(* Links go both ways, lead to another station of the same component, are  *)
(* made once, and at most two at a station.                                *)
LinksSound ==
  /\ \A x \in Stations : Degree[x] <= 2
  /\ \A x, y \in Stations : Linked(x, y) => Linked(y, x) /\ comp[x] = comp[y]
  /\ \A x \in Stations : ~Linked(x, x)
  /\ \A x \in Stations : Degree[x] = 2 => adj[x][1] # adj[x][2]
  /\ \A x, y \in Stations : x < y /\ Linked(x, y) => <<x, y>> \notin rest

(* A component holds together: no part of it is without a link out of it.  *)
Closed(S) == \A x \in S, y \in Stations : Linked(x, y) => y \in S
Connected ==
  \A S \in SUBSET Stations :
    Closed(S) => \A x \in S, y \in Stations : comp[y] = comp[x] => y \in S

(* Every link but the last joins two components. *)
LinksCounted ==
  /\ Total(Degree, Stations) = 2 * Used
  /\ Used \in 0 .. NumStations
  /\ Used < NumStations => Cardinality(Components) = NumStations - Used
  /\ Used = NumStations => Cardinality(Components) = 1

GraphInv == GraphType /\ LinksSound /\ Connected /\ LinksCounted

LEMMA DegreeType ==
  ASSUME GraphType
  PROVE  /\ Degree \in [Stations -> Nat]
         /\ \A x \in Stations : adj[x] \in Seq(Stations) /\ DOMAIN adj[x] = 1 .. Degree[x]
         /\ \A x \in Stations : \A k \in 1 .. Degree[x] :
              adj[x][k] \in Stations /\ Linked(x, adj[x][k])
         /\ \A x, y \in Stations : Linked(x, y) <=> \E k \in 1 .. Degree[x] : y = adj[x][k]
<1>1. \A x \in Stations : adj[x] \in Seq(Stations) /\ DOMAIN adj[x] = 1 .. Len(adj[x])
                           /\ Len(adj[x]) \in Nat
  BY LenProperties DEF GraphType
<1>2. \A x \in Stations : \A k \in 1 .. Len(adj[x]) : adj[x][k] \in Stations
  BY <1>1, ElementOfSeq
<1> QED BY <1>1, <1>2 DEF Degree, Linked, Range

LEMMA UsedIsHalf == GraphType => Used = Total(Degree, Stations) \div 2
<1> SUFFICES ASSUME GraphType PROVE Used = Total(Degree, Stations) \div 2
  OBVIOUS
<1>1. DOMAIN adj = Stations  BY DEF GraphType
<1> QED BY <1>1, FoldOfLengths, NodeTypes DEF Used, Degree

LEMMA InitGraph == Init => GraphInv
<1> SUFFICES ASSUME Init PROVE GraphInv  OBVIOUS
<1>1. GraphType  BY DEF Init, GraphType, Pairs
<1>2. \A x \in Stations : adj[x] = <<>> /\ comp[x] = x /\ Range(adj[x]) = {}
  BY DEF Init, Range
<1>3. \A x \in Stations : Degree[x] = 0  BY <1>2 DEF Degree
<1>4. LinksSound
  <2>1. \A x, y \in Stations : ~Linked(x, y)  BY <1>2 DEF Linked
  <2>2. \A x \in Stations : Degree[x] <= 2 /\ Degree[x] # 2  BY <1>3
  <2> QED BY <2>1, <2>2 DEF LinksSound
<1>5. Connected  BY <1>2 DEF Connected
<1>6. Total(Degree, Stations) = 0
  <2> DEFINE zero == [x \in Stations |-> 0]
             T == {U \in SUBSET Stations : Total(zero, U) = 0}
  <2>1. {} \in T  BY TotalEmpty
  <2>2. ASSUME NEW U \in SUBSET Stations, NEW x \in Stations \ U, U \in T
        PROVE  U \cup {x} \in T
    <3>1. IsFiniteSet(U) /\ \A y \in U \cup {x} : zero[y] \in Int
      <4>1. IsFiniteSet(U)  BY NodeTypes, FS_Subset
      <4>2. \A y \in Stations : zero[y] = 0  OBVIOUS
      <4> QED BY <4>1, <4>2
    <3>2. zero[x] = 0 /\ Total(zero, U) = 0  BY <2>2
    <3> HIDE DEF zero
    <3>3. Total(zero, U \cup {x}) = zero[x] + Total(zero, U)  BY <3>1, TotalAdd
    <3> QED BY <3>2, <3>3
  <2>3. Stations \in T
    <3> HIDE DEF T
    <3> QED BY <2>1, <2>2, NodeTypes, GrownSubset
  <2>4. Degree = zero  BY <1>3 DEF Degree
  <2> QED BY <2>3, <2>4
<1>7. Used = 0  BY <1>1, <1>6, UsedIsHalf
<1>8. Components = Stations  BY <1>2 DEF Components
<1>9. LinksCounted  BY <1>6, <1>7, <1>8, NodeTypes DEF LinksCounted
<1> QED BY <1>1, <1>4, <1>5, <1>9 DEF GraphInv

-----------------------------------------------------------------------------
(* A pair is linked. *)

Link(u, v) ==
  /\ adj' = [adj EXCEPT ![u] = Append(@, v), ![v] = Append(@, u)]
  /\ comp' = [x \in Stations |-> IF comp[x] = comp[v] THEN comp[u] ELSE comp[x]]
  /\ rest' = rest \ {<<u, v>>}
  /\ inst' = inst

LEMMA LinkType ==
  ASSUME GraphType, NEW u \in Stations, NEW v \in Stations, u # v, Link(u, v)
  PROVE  /\ GraphType'
         /\ \A x, y \in Stations :
              Linked(x, y)' <=> \/ Linked(x, y)
                                \/ x = u /\ y = v
                                \/ x = v /\ y = u
         /\ \A x \in Stations : Degree'[x] =
              IF x \in {u, v} THEN Degree[x] + 1 ELSE Degree[x]
         /\ \A x \in Stations : x \notin {u, v} => adj'[x] = adj[x]
         /\ \A x \in {u, v} : \A k \in 1 .. Degree[x] : adj'[x][k] = adj[x][k]
         /\ adj'[u][Degree[u] + 1] = v /\ adj'[v][Degree[v] + 1] = u
<1>1. /\ adj'[u] = Append(adj[u], v) /\ adj'[v] = Append(adj[v], u)
      /\ \A x \in Stations \ {u, v} : adj'[x] = adj[x]
      /\ DOMAIN adj' = Stations
  BY DEF Link, GraphType
<1>2. /\ adj'[u] \in Seq(Stations) /\ adj'[v] \in Seq(Stations)
      /\ Len(adj'[u]) = Degree[u] + 1 /\ Len(adj'[v]) = Degree[v] + 1
      /\ \A k \in 1 .. Degree[u] : adj'[u][k] = adj[u][k]
      /\ \A k \in 1 .. Degree[v] : adj'[v][k] = adj[v][k]
      /\ adj'[u][Degree[u] + 1] = v /\ adj'[v][Degree[v] + 1] = u
  BY <1>1, DegreeType, AppendProperties DEF Degree, GraphType
<1>3. adj' \in [Stations -> Seq(Stations)]
  <2>1. \A x \in Stations : adj'[x] \in Seq(Stations)
    BY <1>1, <1>2 DEF GraphType
  <2>2. adj' = [x \in Stations |-> adj'[x]]
    BY DEF Link, GraphType
  <2> QED BY <2>1, <2>2
<1>4. GraphType'
  <2>1. comp' \in [Stations -> Stations]  BY DEF Link, GraphType
  <2>2. rest' \in SUBSET Pairs  BY DEF Link, GraphType
  <2> QED BY <1>3, <2>1, <2>2 DEF Link, GraphType
<1>5. \A x \in Stations : Degree'[x] =
              IF x \in {u, v} THEN Degree[x] + 1 ELSE Degree[x]
  BY <1>1, <1>2 DEF Degree
<1>6. ASSUME NEW x \in Stations, NEW y \in Stations
      PROVE  Linked(x, y)' <=> Linked(x, y) \/ (x = u /\ y = v) \/ (x = v /\ y = u)
  <2>0. Linked(x, y)' <=> y \in Range(adj'[x])  BY DEF Linked
  <2>1. CASE x \notin {u, v}
    BY <1>1, <2>0, <2>1 DEF Linked
  <2>2. ASSUME NEW w \in Stations, adj'[x] = Append(adj[x], w)
        PROVE  y \in Range(adj'[x]) <=> Linked(x, y) \/ y = w
    <3>1. /\ Len(adj'[x]) = Degree[x] + 1 /\ adj'[x] \in Seq(Stations)
          /\ \A k \in 1 .. Degree[x] : adj'[x][k] = adj[x][k]
          /\ adj'[x][Degree[x] + 1] = w /\ Degree[x] \in Nat
      BY <2>2, DegreeType, AppendProperties DEF Degree
    <3>2. DOMAIN adj'[x] = 1 .. Degree[x] + 1  BY <3>1, LenProperties
    <3>3. Linked(x, y) <=> \E k \in 1 .. Degree[x] : y = adj[x][k]
      BY DegreeType
    <3>4. y \in Range(adj'[x]) <=> \E k \in 1 .. Degree[x] + 1 : y = adj'[x][k]
      BY <3>2 DEF Range
    <3>5. \A k : k \in 1 .. Degree[x] + 1 <=> k \in 1 .. Degree[x] \/ k = Degree[x] + 1
      BY <3>1
    <3> HIDE DEF Degree
    <3> QED BY <3>1, <3>3, <3>4, <3>5
  <2>3. CASE x = u  BY <1>1, <2>0, <2>2, <2>3
  <2>4. CASE x = v  BY <1>1, <2>0, <2>2, <2>4
  <2> QED BY <2>1, <2>3, <2>4
<1>7. \A x, y \in Stations :
        Linked(x, y)' <=> Linked(x, y) \/ (x = u /\ y = v) \/ (x = v /\ y = u)
  BY <1>6
<1>8. /\ \A x \in Stations : x \notin {u, v} => adj'[x] = adj[x]
      /\ \A x \in {u, v} : \A k \in 1 .. Degree[x] : adj'[x][k] = adj[x][k]
      /\ adj'[u][Degree[u] + 1] = v /\ adj'[v][Degree[v] + 1] = u
  <2>1. \A x \in Stations : x \notin {u, v} => adj'[x] = adj[x]  BY <1>1
  <2>2. \A x \in {u, v} : \A k \in 1 .. Degree[x] : adj'[x][k] = adj[x][k]
    BY <1>2
  <2> QED BY <1>2, <2>1, <2>2
<1> QED BY <1>4, <1>5, <1>7, <1>8

(* The pair may be linked. *)
MayLink(u, v) ==
  /\ u \in Stations /\ v \in Stations /\ u < v /\ <<u, v>> \in rest
  /\ Degree[u] < 2 /\ Degree[v] < 2
  /\ Used < NumStations
  /\ comp[u] = comp[v] => Used = NumStations - 1

LEMMA LinkComponents ==
  ASSUME GraphType, NEW u \in Stations, NEW v \in Stations, Link(u, v)
  PROVE  \A x \in Stations :
           comp'[x] = IF comp[x] = comp[v] THEN comp[u] ELSE comp[x]
BY DEF Link, GraphType

LEMMA LinkKeepsSound ==
  ASSUME GraphInv, NEW u, NEW v, MayLink(u, v), Link(u, v)
  PROVE  LinksSound'
<1>0. /\ GraphType /\ LinksSound /\ u \in Stations /\ v \in Stations /\ u # v
      /\ u < v /\ ~(v < u) /\ <<u, v>> \in rest
      /\ Degree[u] < 2 /\ Degree[v] < 2
  BY NodeTypes DEF GraphInv, MayLink
<1>1. /\ \A x, y \in Stations :
              Linked(x, y)' <=> \/ Linked(x, y)
                                \/ x = u /\ y = v
                                \/ x = v /\ y = u
      /\ \A x \in Stations : Degree'[x] =
              IF x \in {u, v} THEN Degree[x] + 1 ELSE Degree[x]
      /\ \A x \in Stations : x \notin {u, v} => adj'[x] = adj[x]
      /\ \A x \in {u, v} : \A k \in 1 .. Degree[x] : adj'[x][k] = adj[x][k]
      /\ adj'[u][Degree[u] + 1] = v /\ adj'[v][Degree[v] + 1] = u
  BY <1>0, LinkType
<1>2. \A x \in Stations :
           comp'[x] = IF comp[x] = comp[v] THEN comp[u] ELSE comp[x]
  BY <1>0, LinkComponents
<1>3. Degree \in [Stations -> Nat]  BY <1>0, DegreeType
<1>4. ~Linked(u, v) /\ ~Linked(v, u)
  BY <1>0 DEF LinksSound
<1>5. \A x \in Stations : Degree'[x] <= 2
  BY <1>0, <1>1, <1>3 DEF LinksSound
<1>6. \A x, y \in Stations : Linked(x, y)' => Linked(y, x)' /\ comp'[x] = comp'[y]
  BY <1>0, <1>1, <1>2 DEF LinksSound
<1>7. \A x \in Stations : ~Linked(x, x)'
  BY <1>0, <1>1 DEF LinksSound
<1>8. ASSUME NEW x \in Stations, Degree'[x] = 2
      PROVE  adj'[x][1] # adj'[x][2]
  <2>1. CASE x \notin {u, v}
    BY <1>0, <1>1, <1>8, <2>1 DEF LinksSound
  <2>2. CASE x = u
    <3>1. Degree[u] = 1  BY <1>0, <1>1, <1>3, <1>8, <2>2
    <3>2. adj'[u][1] = adj[u][1] /\ adj'[u][2] = v  BY <1>1, <3>1
    <3>3. Linked(u, adj[u][1]) /\ adj[u][1] \in Stations  BY <1>0, <3>1, DegreeType
    <3> QED BY <1>4, <2>2, <3>2, <3>3
  <2>3. CASE x = v
    <3>1. Degree[v] = 1  BY <1>0, <1>1, <1>3, <1>8, <2>3
    <3>2. adj'[v][1] = adj[v][1] /\ adj'[v][2] = u  BY <1>1, <3>1
    <3>3. Linked(v, adj[v][1]) /\ adj[v][1] \in Stations  BY <1>0, <3>1, DegreeType
    <3> QED BY <1>4, <2>3, <3>2, <3>3
  <2> QED BY <2>1, <2>2, <2>3
<1>9. ASSUME NEW x \in Stations, NEW y \in Stations, x < y, Linked(x, y)'
      PROVE  <<x, y>> \notin rest'
  <2>1. rest' = rest \ {<<u, v>>}  BY DEF Link
  <2>2. Linked(x, y) \/ (x = u /\ y = v)
    BY <1>0, <1>1, <1>9
  <2> QED BY <1>0, <1>9, <2>1, <2>2 DEF LinksSound
<1> QED BY <1>5, <1>6, <1>7, <1>8, <1>9 DEF LinksSound

LEMMA LinkKeepsConnected ==
  ASSUME GraphInv, NEW u, NEW v, MayLink(u, v), Link(u, v)
  PROVE  Connected'
<1>0. /\ GraphType /\ Connected /\ u \in Stations /\ v \in Stations /\ u # v
  BY NodeTypes DEF GraphInv, MayLink
<1>1. \A x, y \in Stations :
              Linked(x, y)' <=> \/ Linked(x, y)
                                \/ x = u /\ y = v
                                \/ x = v /\ y = u
  BY <1>0, LinkType
<1>2. \A x \in Stations :
           comp'[x] = IF comp[x] = comp[v] THEN comp[u] ELSE comp[x]
  BY <1>0, LinkComponents
<1>3. ASSUME NEW S \in SUBSET Stations, Closed(S)',
             NEW x \in S, NEW y \in Stations, comp'[y] = comp'[x]
      PROVE  y \in S
  <2>1. Closed(S) /\ (u \in S <=> v \in S)
    BY <1>0, <1>1, <1>3 DEF Closed
  <2>2. \A a \in S, z \in Stations : comp[z] = comp[a] => z \in S
    BY <1>0, <2>1 DEF Connected
  <2>3. CASE comp[x] = comp[y]  BY <2>2, <2>3
  <2>4. CASE comp[x] = comp[u] /\ comp[y] = comp[v]
    <3>1. u \in S  BY <1>0, <2>2, <2>4
    <3>2. v \in S  BY <2>1, <3>1
    <3> QED BY <2>2, <2>4, <3>2
  <2>5. CASE comp[x] = comp[v] /\ comp[y] = comp[u]
    <3>1. v \in S  BY <1>0, <2>2, <2>5
    <3>2. u \in S  BY <2>1, <3>1
    <3> QED BY <2>2, <2>5, <3>2
  <2> QED BY <1>2, <1>3, <2>3, <2>4, <2>5
<1> QED BY <1>3 DEF Connected

(* Components of the state, and after one swallowed another. *)
LEMMA ComponentsType ==
  ASSUME GraphType
  PROVE  /\ IsFiniteSet(Components) /\ Cardinality(Components) \in Nat
         /\ Components \subseteq Stations
<1>1. Components \subseteq Stations  BY DEF GraphType, Components
<1> QED BY <1>1, NodeTypes, FS_Subset, FS_CardinalityType

LEMMA LinkKeepsCounted ==
  ASSUME GraphInv, NEW u, NEW v, MayLink(u, v), Link(u, v)
  PROVE  LinksCounted' /\ Used' = Used + 1
<1>0. /\ GraphType /\ LinksCounted /\ u \in Stations /\ v \in Stations /\ u # v
      /\ Used \in 0 .. NumStations /\ Used < NumStations
      /\ comp[u] = comp[v] => Used = NumStations - 1
      /\ NumStations \in Nat
  BY NodeTypes DEF GraphInv, MayLink, LinksCounted
<1>1. GraphType' /\ \A x \in Stations : Degree'[x] =
              IF x \in {u, v} THEN Degree[x] + 1 ELSE Degree[x]
  BY <1>0, LinkType
<1>2. Degree \in [Stations -> Nat] /\ Degree' \in [Stations -> Nat]
  <2>1. Degree' = [x \in Stations |-> Degree'[x]]  BY DEF Degree
  <2>2. Degree \in [Stations -> Nat]  BY <1>0, DegreeType
  <2>3. \A x \in Stations : Degree'[x] \in Nat  BY <1>1, <2>2
  <2> QED BY <2>1, <2>2, <2>3
<1>3. Total(Degree', Stations) = Total(Degree, Stations) + 2
  <2> DEFINE d == [Degree EXCEPT ![u] = @ + 1]
             D == Degree
             E == Degree'
  <2>1. /\ d \in [Stations -> Nat] /\ d[u] = D[u] + 1
        /\ \A x \in Stations \ {u} : d[x] = D[x]
    BY <1>0, <1>2
  <2>2. /\ E[v] = d[v] + 1
        /\ \A x \in Stations \ {v} : E[x] = d[x]
    BY <1>0, <1>1, <1>2, <2>1
  <2>3. \A x \in Stations : D[x] \in Int /\ d[x] \in Int /\ E[x] \in Int
    BY <1>2, <2>1
  <2>4. IsFiniteSet(Stations)  BY NodeTypes
  <2> HIDE DEF d, D, E
  <2>5. Total(d, Stations) = Total(D, Stations) + d[u] - D[u]
    BY ONLY <1>0, <2>1, <2>3, <2>4, TotalChange
  <2>6. Total(E, Stations) = Total(d, Stations) + E[v] - d[v]
    BY ONLY <1>0, <2>2, <2>3, <2>4, TotalChange
  <2>7. Total(D, Stations) \in Int /\ Total(d, Stations) \in Int
    BY <2>3, <2>4, TotalRemove
  <2>8. D[u] \in Int /\ d[v] \in Int  BY <1>0, <2>3
  <2>9. Total(E, Stations) = Total(D, Stations) + 2
    BY <2>1, <2>2, <2>5, <2>6, <2>7, <2>8
  <2> QED BY <2>9 DEF D, E
<1>4. Used' = Used + 1 /\ Total(Degree, Stations)' = 2 * Used'
  <2>1. Total(Degree, Stations)' = Total(Degree', Stations)  OBVIOUS
  <2>2. (GraphType => Used = Total(Degree, Stations) \div 2)'
    BY UsedIsHalf, PTL
  <2>3. Total(Degree, Stations) = 2 * Used  BY <1>0 DEF LinksCounted
  <2>4. Total(Degree', Stations) = 2 * (Used + 1)  BY <1>0, <1>3, <2>3
  <2> QED BY <1>0, <1>1, <2>1, <2>2, <2>4
<1>5. \A x \in Stations :
           comp'[x] = IF comp[x] = comp[v] THEN comp[u] ELSE comp[x]
  BY <1>0, LinkComponents
<1>6. CASE comp[u] = comp[v]
  <2>1. Components' = Components  BY <1>5, <1>6 DEF Components
  <2>2. Cardinality(Components) = 1  BY <1>0, <1>6 DEF LinksCounted
  <2> QED BY <1>0, <1>4, <1>6, <2>1, <2>2 DEF LinksCounted
<1>7. CASE comp[u] # comp[v]
  <2>1. Components' = Components \ {comp[v]} /\ comp[v] \in Components /\ comp[u] \in Components
    BY <1>0, <1>5, <1>7 DEF Components
  <2>2. Cardinality(Components') = Cardinality(Components) - 1
    BY <1>0, <2>1, ComponentsType, FS_RemoveElement
  <2>3. Cardinality(Components) = NumStations - Used  BY <1>0 DEF LinksCounted
  <2>4. Used # NumStations - 1
    <3> SUFFICES ASSUME Cardinality(Components) = 1 PROVE FALSE
      BY <1>0, <2>3
    <3>1. PICK c : Components = {c}  BY <1>0, ComponentsType, FS_Singleton
    <3> QED BY <1>7, <2>1, <3>1
  <2> QED BY <1>0, <1>4, <2>2, <2>3, <2>4 DEF LinksCounted
<1> QED BY <1>4, <1>6, <1>7

-----------------------------------------------------------------------------
(* The walk along the links. *)

Turn(here) ==
  [prev |-> here.cur,
   cur |-> IF adj[here.cur][1] # here.prev
             THEN adj[here.cur][1] ELSE adj[here.cur][2]]

Steps(f) ==
  f = [k \in 1 .. NumStations |->
         IF k = 1 THEN [cur |-> 1, prev |-> NoNode] ELSE Turn(f[k - 1])]

(* There is such a function: one that is right up to n is right up to the  *)
(* next when each of its values is turned once more.                       *)
LEMMA StepsExist ==
  \E f : Steps(f) /\ Walk = [k \in 1 .. NumStations |-> f[k].cur]
<1> DEFINE N == NumStations
           Once(f) == [k \in 1 .. N |->
                         IF k = 1 THEN [cur |-> 1, prev |-> NoNode] ELSE Turn(f[k - 1])]
           Right(f, n) == \A k \in 1 .. N : k <= n => f[k] = Once(f)[k]
           T == {n \in Nat : \E f : Right(f, n)}
<1>0. N \in Nat  BY SizeAssumption
<1>1. 0 \in T
  <2>1. \A f : Right(f, 0)  BY <1>0
  <2> HIDE DEF Right
  <2> QED BY <2>1
<1>2. ASSUME NEW n \in Nat, n \in T PROVE n + 1 \in T
  <2>1. PICK f : Right(f, n)  BY <1>2
  <2> DEFINE h == Once(f)
  <2>2. ASSUME NEW k \in 1 .. N, k <= n + 1 PROVE h[k] = Once(h)[k]
    <3>1. CASE k = 1  BY <3>1
    <3>2. CASE k # 1
      <4>1. k - 1 \in 1 .. N /\ k - 1 <= n  BY <1>0, <2>2, <3>2
      <4>2. f[k - 1] = h[k - 1]  BY <2>1, <4>1
      <4>3. h[k] = Turn(f[k - 1])  BY <3>2
      <4>4. Once(h)[k] = Turn(h[k - 1])
        <5> HIDE DEF h
        <5> QED BY <3>2
      <4> QED BY <4>2, <4>3, <4>4
    <3> QED BY <3>1, <3>2
  <2>3. Right(h, n + 1)
    <3> HIDE DEF h, Once
    <3> QED BY <2>2
  <2> HIDE DEF Right
  <2> QED BY <2>3
<1>3. \A n \in Nat : n \in T
  <2> HIDE DEF T
  <2> QED BY <1>1, <1>2, EveryNatural
<1>4. PICK g : Right(g, N)
  <2>1. N \in T
    <3> HIDE DEF T
    <3> QED BY <1>0, <1>3
  <2> HIDE DEF Right
  <2> QED BY <2>1
<1>5. \E h : Steps(h)
  <2> DEFINE h == Once(g)
  <2>1. \A k \in 1 .. N : g[k] = h[k]  BY <1>0, <1>4
  <2>2. ASSUME NEW k \in 1 .. N PROVE h[k] = Once(h)[k]
    <3>1. CASE k = 1  BY <3>1
    <3>2. CASE k # 1
      <4>1. k - 1 \in 1 .. N  BY <1>0, <2>2, <3>2
      <4>2. g[k - 1] = h[k - 1]  BY <2>1, <4>1
      <4>3. h[k] = Turn(g[k - 1])  BY <3>2
      <4>4. Once(h)[k] = Turn(h[k - 1])
        <5> HIDE DEF h
        <5> QED BY <3>2
      <4> QED BY <4>2, <4>3, <4>4
    <3> QED BY <3>1, <3>2
  <2>3. h = [k \in 1 .. N |-> h[k]]  OBVIOUS
  <2>4. Once(h) = [k \in 1 .. N |-> Once(h)[k]]  OBVIOUS
  <2>5. h = Once(h)
    <3> HIDE DEF h, Once
    <3> QED BY <2>2, <2>3, <2>4
  <2> HIDE DEF h
  <2> QED BY <2>5 DEF Steps
<1> DEFINE c == CHOOSE f : Steps(f)
<1>6. Walk = [k \in 1 .. NumStations |-> c[k].cur]
  BY DEF Walk, Steps, Turn
<1>7. Steps(c)
  <2> HIDE DEF Steps
  <2> QED BY <1>5
<1> HIDE DEF c
<1> QED BY <1>6, <1>7

(* Where every station has two links, the walk goes on to the one it did   *)
(* not come from.                                                          *)
Before(k) == IF k = 1 THEN NoNode ELSE Walk[k - 1]
Onward(k) == IF adj[Walk[k]][1] # Before(k) THEN adj[Walk[k]][1] ELSE adj[Walk[k]][2]

LEMMA WalkSteps ==
  ASSUME GraphType, \A x \in Stations : Degree[x] = 2
  PROVE  /\ Walk \in [1 .. NumStations -> Stations]
         /\ Walk[1] = 1
         /\ \A k \in 1 .. NumStations - 1 : Walk[k + 1] = Onward(k)
         /\ \A k \in 1 .. NumStations : Onward(k) \in Stations
<1> DEFINE N == NumStations
<1>0. N \in Nat /\ N >= 1 /\ 1 \in Stations  BY SizeAssumption DEF Stations
<1>1. \A x \in Stations : adj[x][1] \in Stations /\ adj[x][2] \in Stations
  BY DegreeType
<1>2. PICK f : Steps(f) /\ Walk = [k \in 1 .. N |-> f[k].cur]
  BY StepsExist
<1>3. f[1] = [cur |-> 1, prev |-> NoNode]
      /\ \A k \in 1 .. N - 1 : f[k + 1] = Turn(f[k])
  <2>1. f[1] = [cur |-> 1, prev |-> NoNode]  BY <1>0, <1>2 DEF Steps
  <2>2. ASSUME NEW k \in 1 .. N - 1 PROVE f[k + 1] = Turn(f[k])
    <3>1. k + 1 \in 1 .. N /\ k + 1 # 1 /\ (k + 1) - 1 = k  BY <1>0
    <3> QED BY <1>2, <3>1 DEF Steps
  <2> QED BY <2>1, <2>2
<1>4. \A k \in 1 .. N : Walk[k] = f[k].cur  BY <1>2
<1>5. \A k \in 1 .. N : f[k].prev = Before(k)
  <2> SUFFICES ASSUME NEW k \in 1 .. N PROVE f[k].prev = Before(k)  OBVIOUS
  <2>1. CASE k = 1  BY <1>3, <2>1 DEF Before
  <2>2. CASE k # 1
    <3>1. k - 1 \in 1 .. N - 1 /\ (k - 1) + 1 = k /\ k - 1 \in 1 .. N  BY <1>0, <2>2
    <3>2. f[k] = Turn(f[k - 1])  BY <1>3, <3>1
    <3> QED BY <1>4, <2>2, <3>1, <3>2 DEF Before, Turn
  <2> QED BY <2>1, <2>2
<1>6. ASSUME NEW k \in 1 .. N - 1 PROVE Walk[k + 1] = Onward(k)
  <2>1. k \in 1 .. N /\ k + 1 \in 1 .. N  BY <1>0
  <2>2. Walk[k + 1] = Turn(f[k]).cur  BY <1>3, <1>4, <2>1
  <2>3. Turn(f[k]).cur = IF adj[f[k].cur][1] # f[k].prev
             THEN adj[f[k].cur][1] ELSE adj[f[k].cur][2]  BY DEF Turn
  <2> QED BY <1>4, <1>5, <2>1, <2>2, <2>3 DEF Onward
<1>7. Walk[1] = 1  BY <1>0, <1>3, <1>4
<1>8. \A k \in 1 .. N : Walk[k] \in Stations
  <2> DEFINE T == {k \in 1 .. N : Walk[k] \in Stations}
  <2>1. 1 \in T  BY <1>0, <1>7
  <2>2. ASSUME NEW k \in 1 .. N - 1, k \in T PROVE k + 1 \in T
    <3>1. Walk[k + 1] = Onward(k) /\ k + 1 \in 1 .. N  BY <1>0, <1>6
    <3> QED BY <1>1, <2>2, <3>1 DEF Onward
  <2>3. \A k \in 1 .. N : k \in T
    <3> HIDE DEF T
    <3> QED BY <1>0, <2>1, <2>2, EveryInInterval
  <2> QED BY <2>3
<1>9. Walk = [k \in 1 .. N |-> Walk[k]]  BY <1>2
<1>10. \A k \in 1 .. N : Onward(k) \in Stations  BY <1>1, <1>8 DEF Onward
<1> QED BY <1>6, <1>7, <1>8, <1>9, <1>10

-----------------------------------------------------------------------------
(* Where all links are made, the walk is a tour of all stations. *)

TwoLinks == GraphType /\ LinksSound /\ \A x \in Stations : Degree[x] = 2

(* Behind the first station, the two links of a station on the walk lead   *)
(* back and on.                                                            *)
LEMMA WalkNeighbours ==
  ASSUME TwoLinks
  PROVE  /\ \A k \in 1 .. NumStations :
              Linked(Walk[k], Onward(k)) /\ Onward(k) # Before(k)
         /\ \A k \in 2 .. NumStations :
              \A y \in Stations : Linked(Walk[k], y) => y \in {Walk[k - 1], Onward(k)}
         /\ \A x, a, b \in Stations : Linked(x, a) /\ Linked(x, b) /\ a # b =>
              \A y \in Stations : Linked(x, y) => y \in {a, b}
<1> DEFINE N == NumStations
<1>0. N \in Nat /\ N >= 1 /\ NoNode \notin Stations
  BY NodeTypes
<1>1. GraphType /\ LinksSound /\ \A x \in Stations : Degree[x] = 2
  BY DEF TwoLinks
<1>2. ASSUME NEW x \in Stations
      PROVE  /\ adj[x][1] \in Stations /\ adj[x][2] \in Stations
             /\ adj[x][1] # adj[x][2]
             /\ \A y \in Stations : Linked(x, y) <=> y \in {adj[x][1], adj[x][2]}
  <2>1. /\ \A k \in 1 .. 2 : adj[x][k] \in Stations
        /\ \A y \in Stations : Linked(x, y) <=> \E k \in 1 .. 2 : y = adj[x][k]
    BY <1>1, DegreeType
  <2>2. \A k : k \in 1 .. 2 <=> k = 1 \/ k = 2  OBVIOUS
  <2> QED BY <1>1, <2>1, <2>2 DEF LinksSound
<1>3. /\ \A k \in 1 .. N : Walk[k] \in Stations /\ Onward(k) \in Stations
      /\ \A k \in 1 .. N - 1 : Walk[k + 1] = Onward(k)
  BY <1>1, WalkSteps
<1>4. ASSUME NEW k \in 1 .. N
      PROVE  Linked(Walk[k], Onward(k)) /\ Onward(k) # Before(k)
  BY <1>2, <1>3 DEF Onward
<1>5. \A x, a, b \in Stations : Linked(x, a) /\ Linked(x, b) /\ a # b =>
              \A y \in Stations : Linked(x, y) => y \in {a, b}
  <2> SUFFICES ASSUME NEW x \in Stations, NEW a \in Stations, NEW b \in Stations,
                      Linked(x, a), Linked(x, b), a # b, NEW y \in Stations, Linked(x, y)
               PROVE  y \in {a, b}
    OBVIOUS
  <2> QED BY <1>2
<1>6. ASSUME NEW k \in 2 .. N, NEW y \in Stations, Linked(Walk[k], y)
      PROVE  y \in {Walk[k - 1], Onward(k)}
  <2>1. k - 1 \in 1 .. N - 1 /\ (k - 1) + 1 = k /\ k \in 1 .. N /\ k - 1 \in 1 .. N /\ k # 1
    BY <1>0
  <2>2. Walk[k] = Onward(k - 1) /\ Walk[k - 1] \in Stations /\ Walk[k] \in Stations
        /\ Onward(k) \in Stations
    BY <1>3, <2>1
  <2>3. Linked(Walk[k - 1], Walk[k])  BY <1>4, <2>1, <2>2
  <2>4. Linked(Walk[k], Walk[k - 1])  BY <1>1, <2>2, <2>3 DEF LinksSound
  <2>5. Linked(Walk[k], Onward(k)) /\ Onward(k) # Walk[k - 1]
    BY <1>4, <2>1 DEF Before
  <2> QED BY <1>5, <1>6, <2>2, <2>4, <2>5
<1> QED BY <1>4, <1>5, <1>6

NewUpTo(k) == \A i, j \in 1 .. k : Walk[i] = Walk[j] => i = j

(* The walk comes back to where it was at its start only. *)
LEMMA WalkReturns ==
  ASSUME TwoLinks, NEW k \in 1 .. NumStations, NewUpTo(k),
         NEW j \in 1 .. k, Onward(k) = Walk[j]
  PROVE  j = 1 /\ k >= 3
<1> DEFINE N == NumStations
<1>0. N \in Nat /\ k \in Nat /\ j \in Nat /\ j <= k /\ k <= N /\ j \in 1 .. N
  BY NodeTypes
<1>1. GraphType /\ LinksSound /\ \A x \in Stations : Degree[x] = 2
  BY DEF TwoLinks
<1>2. /\ \A i \in 1 .. N : Walk[i] \in Stations /\ Onward(i) \in Stations
      /\ \A i \in 1 .. N - 1 : Walk[i + 1] = Onward(i)
  BY <1>1, WalkSteps
<1>3. /\ \A i \in 1 .. N : Linked(Walk[i], Onward(i)) /\ Onward(i) # Before(i)
      /\ \A i \in 2 .. N :
              \A y \in Stations : Linked(Walk[i], y) => y \in {Walk[i - 1], Onward(i)}
  BY WalkNeighbours
<1>4. j # k
  <2> SUFFICES ASSUME j = k PROVE FALSE  OBVIOUS
  <2>1. Linked(Walk[k], Walk[k])  BY <1>3
  <2> QED BY <1>1, <1>2, <2>1 DEF LinksSound
<1>5. j # k - 1
  <2> SUFFICES ASSUME j = k - 1 PROVE FALSE  OBVIOUS
  <2>1. k # 1  BY <1>0
  <2>2. Before(k) = Walk[j]  BY <2>1 DEF Before
  <2> QED BY <1>3, <2>2
<1>6. j < k - 1  BY <1>0, <1>4, <1>5
<1>7. j = 1
  <2> SUFFICES ASSUME j # 1 PROVE FALSE  OBVIOUS
  <2>1. j \in 2 .. N /\ j \in 1 .. N - 1 /\ j - 1 \in 1 .. k /\ j + 1 \in 1 .. k
        /\ k # j - 1 /\ k # j + 1 /\ k \in 1 .. k
    BY <1>0, <1>6
  <2>2. Linked(Walk[k], Walk[j])  BY <1>3
  <2>3. Linked(Walk[j], Walk[k])  BY <1>0, <1>1, <1>2, <2>2 DEF LinksSound
  <2>4. Walk[k] \in {Walk[j - 1], Onward(j)}  BY <1>2, <1>3, <2>1, <2>3
  <2>5. Walk[k] \in {Walk[j - 1], Walk[j + 1]}  BY <1>2, <2>1, <2>4
  <2> QED BY <2>1, <2>5 DEF NewUpTo
<1> QED BY <1>0, <1>6, <1>7

(* When it does, it has been everywhere. *)
LEMMA WalkCloses ==
  ASSUME TwoLinks, NEW k \in 3 .. NumStations, NewUpTo(k), Onward(k) = Walk[1]
  PROVE  Closed({Walk[i] : i \in 1 .. k})
<1> DEFINE N == NumStations
           S == {Walk[i] : i \in 1 .. k}
<1>0. N \in Nat /\ k \in Nat /\ k <= N /\ k >= 3 /\ 1 \in 1 .. k /\ 2 \in 1 .. k
      /\ k \in 1 .. k
  BY NodeTypes
<1>1. GraphType /\ LinksSound  BY DEF TwoLinks
<1>2. /\ \A i \in 1 .. N : Walk[i] \in Stations /\ Onward(i) \in Stations
      /\ \A i \in 1 .. N - 1 : Walk[i + 1] = Onward(i)
  BY <1>1, WalkSteps DEF TwoLinks
<1>3. /\ \A i \in 1 .. N : Linked(Walk[i], Onward(i)) /\ Onward(i) # Before(i)
      /\ \A i \in 2 .. N :
              \A y \in Stations : Linked(Walk[i], y) => y \in {Walk[i - 1], Onward(i)}
  BY WalkNeighbours
<1>4. ASSUME NEW i \in 1 .. k, NEW y \in Stations, Linked(Walk[i], y)
      PROVE  y \in S
  <2>1. CASE i = 1
    <3>1. Linked(Walk[k], Walk[1]) /\ Walk[k] \in Stations /\ Walk[1] \in Stations
          /\ Walk[2] \in Stations
      BY <1>0, <1>2, <1>3
    <3>2. Linked(Walk[1], Walk[k])  BY <1>1, <3>1 DEF LinksSound
    <3>3. Walk[2] = Onward(1)
      <4>1. 1 \in 1 .. N - 1 /\ 1 + 1 = 2  BY <1>0
      <4> QED BY <1>2, <4>1
    <3>4. Linked(Walk[1], Walk[2])
      <4>1. 1 \in 1 .. N  BY <1>0
      <4> QED BY <1>3, <3>3, <4>1
    <3>5. Walk[k] # Walk[2]  BY <1>0 DEF NewUpTo
    <3>6. \A x, a, b \in Stations : Linked(x, a) /\ Linked(x, b) /\ a # b =>
              \A z \in Stations : Linked(x, z) => z \in {a, b}
      BY WalkNeighbours
    <3>7. y \in {Walk[2], Walk[k]}  BY <1>4, <2>1, <3>1, <3>2, <3>4, <3>5, <3>6
    <3> QED BY <1>0, <3>7
  <2>2. CASE i # 1 /\ i # k
    <3>1. i \in 2 .. N /\ i \in 1 .. N - 1 /\ i - 1 \in 1 .. k /\ i + 1 \in 1 .. k
      BY <1>0, <2>2
    <3>2. y \in {Walk[i - 1], Walk[i + 1]}  BY <1>2, <1>3, <1>4, <3>1
    <3> QED BY <3>1, <3>2
  <2>3. CASE i = k
    <3>1. i \in 2 .. N /\ i - 1 \in 1 .. k  BY <1>0, <2>3
    <3>2. y \in {Walk[i - 1], Walk[1]}  BY <1>3, <1>4, <2>3, <3>1
    <3> QED BY <1>0, <3>1, <3>2
  <2> QED BY <2>1, <2>2, <2>3
<1> QED BY <1>4 DEF Closed

LEMMA WalkIsTour ==
  ASSUME GraphInv, Cycled
  PROVE  /\ Walk \in [1 .. NumStations -> Stations]
         /\ NewUpTo(NumStations)
         /\ \A x \in Stations : \E k \in 1 .. NumStations : Walk[k] = x
         /\ Onward(NumStations) = Walk[1]
<1> DEFINE N == NumStations
<1>0. /\ N \in Nat /\ N >= 1 /\ 1 \in Stations
      /\ IsFiniteSet(Stations) /\ Cardinality(Stations) = N
  BY NodeTypes DEF Stations
<1>1. TwoLinks
  BY DEF GraphInv, Cycled, TwoLinks, Degree
<1>2. /\ Walk \in [1 .. N -> Stations]
      /\ \A k \in 1 .. N - 1 : Walk[k + 1] = Onward(k)
      /\ \A k \in 1 .. N : Onward(k) \in Stations
  BY <1>1, WalkSteps DEF TwoLinks
<1>3. ASSUME NEW S \in SUBSET Stations, S # {}, Closed(S)
      PROVE  S = Stations
  <2>1. PICK c : Components = {c}
    <3>1. Cardinality(Components) = 1
      BY DEF GraphInv, LinksCounted, Cycled
    <3> QED BY <3>1, ComponentsType, FS_Singleton DEF GraphInv
  <2>2. \A x, y \in Stations : comp[x] = comp[y]  BY <2>1 DEF Components
  <2> QED BY <1>3, <2>2 DEF GraphInv, Connected
<1>4. ASSUME NEW k \in 1 .. N, k < N
      PROVE  {Walk[i] : i \in 1 .. k} # Stations
  <2> DEFINE f == [i \in 1 .. k |-> Walk[i]]
  <2>1. IsFiniteSet(1 .. k) /\ Cardinality(1 .. k) = k
    BY <1>0, FS_Interval
  <2> SUFFICES ASSUME {Walk[i] : i \in 1 .. k} = Stations PROVE FALSE
    OBVIOUS
  <2>2. f \in Surjection(1 .. k, Stations)
    BY DEF Surjection
  <2>3. Cardinality(Stations) <= Cardinality(1 .. k)
    BY <2>1, <2>2, FS_Surjection
  <2> QED BY <1>0, <1>4, <2>1, <2>3
<1>5. ASSUME NEW k \in 1 .. N - 1, NewUpTo(k)
      PROVE  \A j \in 1 .. k : Onward(k) # Walk[j]
  <2> SUFFICES ASSUME NEW j \in 1 .. k, Onward(k) = Walk[j] PROVE FALSE
    OBVIOUS
  <2>1. k \in 1 .. N /\ k < N  BY <1>0
  <2>2. j = 1 /\ k >= 3  BY <1>1, <1>5, <2>1, WalkReturns
  <2>3. k \in 3 .. N  BY <2>1, <2>2
  <2> DEFINE S == {Walk[i] : i \in 1 .. k}
  <2>4. Closed(S)  BY <1>1, <1>5, <2>2, <2>3, WalkCloses
  <2>5. S \in SUBSET Stations /\ S # {}
    <3>1. 1 \in 1 .. k /\ \A i \in 1 .. k : i \in 1 .. N  BY <1>0, <2>1
    <3>2. \A i \in 1 .. k : Walk[i] \in Stations  BY <1>2, <3>1
    <3> QED BY <3>1, <3>2
  <2> HIDE DEF S
  <2>6. S = Stations  BY <1>3, <2>4, <2>5
  <2> QED BY <1>4, <2>1, <2>6 DEF S
<1>6. \A k \in 1 .. N : NewUpTo(k)
  <2> DEFINE T == {k \in 1 .. N : NewUpTo(k)}
  <2>1. 1 \in T  BY <1>0 DEF NewUpTo
  <2>2. ASSUME NEW k \in 1 .. N - 1, k \in T PROVE k + 1 \in T
    <3>1. k + 1 \in 1 .. N /\ NewUpTo(k)  BY <1>0, <2>2
    <3>2. \A j \in 1 .. k : Walk[k + 1] # Walk[j]  BY <1>2, <1>5, <3>1
    <3>3. \A i : i \in 1 .. k + 1 <=> i \in 1 .. k \/ i = k + 1  BY <1>0
    <3>4. NewUpTo(k + 1)  BY <3>1, <3>2, <3>3 DEF NewUpTo
    <3> QED BY <3>1, <3>4
  <2> HIDE DEF T
  <2>3. \A k \in 1 .. N : k \in T  BY <1>0, <2>1, <2>2, EveryInInterval
  <2> QED BY <2>3 DEF T
<1>7. NewUpTo(N)  BY <1>0, <1>6
<1>8. \A x \in Stations : \E k \in 1 .. N : Walk[k] = x
  <2>1. Walk \in Injection(1 .. N, Stations)
    BY <1>2, <1>7 DEF Injection, IsInjective, NewUpTo
  <2>2. IsFiniteSet(1 .. N) /\ Cardinality(1 .. N) = N
    BY <1>0, FS_Interval
  <2>3. Walk \in Surjection(1 .. N, Stations)
    BY <1>0, <2>1, <2>2, FS_Injection DEF Injection
  <2> QED BY <2>3 DEF Surjection
<1>9. Onward(N) = Walk[1]
  <2>1. N \in 1 .. N /\ Onward(N) \in Stations  BY <1>0, <1>2
  <2>2. PICK j \in 1 .. N : Onward(N) = Walk[j]  BY <1>8, <2>1
  <2> QED BY <1>1, <1>7, <2>1, <2>2, WalkReturns
<1> QED BY <1>2, <1>7, <1>8, <1>9

-----------------------------------------------------------------------------
(* What is chosen exists. *)

(* A least key, the first of several. *)
LEMMA LeastOf ==
  ASSUME NEW S, S \subseteq Nat, S # {}, NEW f, \A x \in S : f[x] \in Nat
  PROVE  \E x \in S : \A y \in S : f[x] < f[y] \/ (f[x] = f[y] /\ x <= y)
<1> DEFINE K == {f[x] : x \in S}
<1>1. PICK m \in K : \A n \in K : m <= n
  <2>1. K \subseteq Nat /\ K # {}  OBVIOUS
  <2> HIDE DEF K
  <2> QED BY <2>1, LeastNatural
<1> DEFINE L == {x \in S : f[x] = m}
<1>2. PICK x \in L : \A y \in L : x <= y
  <2>1. L \subseteq Nat /\ L # {}  BY <1>1
  <2> HIDE DEF L
  <2> QED BY <2>1, LeastNatural
<1>3. ASSUME NEW y \in S PROVE f[x] < f[y] \/ (f[x] = f[y] /\ x <= y)
  <2>1. m <= f[y] /\ f[x] = m /\ m \in Nat /\ f[y] \in Nat  BY <1>1, <1>2
  <2>2. CASE f[y] = m  BY <1>2, <2>1, <2>2
  <2>3. CASE f[y] # m  BY <2>1, <2>3
  <2> QED BY <2>2, <2>3
<1> QED BY <1>2, <1>3

LEMMA LeastIn ==
  ASSUME NEW D, D \subseteq Nat, D # {}
  PROVE  Min(D) \in D /\ \A d \in D : Min(D) <= d
<1>1. \E m \in D : \A n \in D : m <= n  BY LeastNatural
<1> QED BY <1>1 DEF Min

LEMMA EndsType ==
  ASSUME inst \in Instances, NEW n \in Nodes
  PROVE  EndsOf(n) \subseteq Locations /\ EndsOf(n) # {}
BY InstanceTypes DEF EndsOf

LEMMA MinPairType ==
  ASSUME inst \in Instances, NEW a \in Nodes, NEW b \in Nodes
  PROVE  /\ MinPair(a, b) \in Int
         /\ MinPair(a, b) = Missing \/ MinPair(a, b) > 0
         /\ (\A x \in EndsOf(a), y \in EndsOf(b) : Miles(x, y) > 0) => MinPair(a, b) > 0
         /\ \A x \in EndsOf(a), y \in EndsOf(b) :
              Miles(x, y) > 0 => MinPair(a, b) > 0 /\ MinPair(a, b) <= Miles(x, y)
<1> DEFINE D == {d \in {Miles(x, y) : x \in EndsOf(a), y \in EndsOf(b)} : d > 0}
<1>1. \A x \in EndsOf(a), y \in EndsOf(b) : Miles(x, y) \in Int
  BY EndsType, InstanceTypes
<1>2. D \subseteq Nat /\ \A d \in D : d > 0  BY <1>1
<1>3. MinPair(a, b) = IF D = {} THEN Missing ELSE Min(D)
  BY DEF MinPair
<1>4. D # {} => Min(D) \in D /\ \A d \in D : Min(D) <= d
  <2> HIDE DEF D
  <2> QED BY <1>2, LeastIn
<1>5. (\A x \in EndsOf(a), y \in EndsOf(b) : Miles(x, y) > 0) => D # {}
  BY EndsType
<1>6. \A x \in EndsOf(a), y \in EndsOf(b) : Miles(x, y) > 0 => Miles(x, y) \in D
  OBVIOUS
<1> HIDE DEF D
<1>7. D # {} => MinPair(a, b) \in D /\ \A d \in D : MinPair(a, b) <= d
  BY <1>3, <1>4
<1>8. D = {} => MinPair(a, b) = Missing  BY <1>3
<1>9. D # {} => MinPair(a, b) > 0 /\ MinPair(a, b) \in Nat  BY <1>2, <1>7
<1>10. Missing \in Int /\ ~(Missing > 0)  BY DEF Missing
<1>11. MinPair(a, b) \in Int /\ (MinPair(a, b) = Missing \/ MinPair(a, b) > 0)
  BY <1>8, <1>9, <1>10
<1>12. (\A x \in EndsOf(a), y \in EndsOf(b) : Miles(x, y) > 0) => MinPair(a, b) > 0
  BY <1>5, <1>9
<1>13. \A x \in EndsOf(a), y \in EndsOf(b) :
              Miles(x, y) > 0 => MinPair(a, b) > 0 /\ MinPair(a, b) <= Miles(x, y)
  BY <1>6, <1>7, <1>9
<1> QED BY <1>11, <1>12, <1>13

(* With a complete matrix every pair has a distance. *)
LEMMA CompletePairs ==
  ASSUME inst \in Instances, Complete, NEW x \in Stations, NEW n \in Nodes \ {x}
  PROVE  MinPair(x, n) > 0 /\ MinPair(n, x) > 0
<1>1. x \in Nodes /\ n \in Nodes  BY NodeTypes
<1>2. \A a \in EndsOf(x), b \in EndsOf(n) : Miles(a, b) > 0 /\ Miles(b, a) > 0
  BY DEF Complete
<1> QED BY <1>1, <1>2, MinPairType

LEMMA CompleteFromBoat ==
  ASSUME inst \in Instances, Complete, NEW x \in Stations
  PROVE  FromLocation(inst.boat, x) > 0
<1> DEFINE D == {d \in {Miles(inst.boat, y) : y \in EndsOf(x)} : d >= 0}
<1>1. \A y \in EndsOf(x) : Miles(inst.boat, y) > 0 /\ Miles(inst.boat, y) \in Int
  <2>1. x \in Nodes  BY NodeTypes
  <2> QED BY <2>1, EndsType, InstanceTypes DEF Complete
<1>2. EndsOf(x) # {}  BY EndsType, NodeTypes
<1>3. D \subseteq Nat /\ D # {} /\ \A d \in D : d > 0  BY <1>1, <1>2
<1>4. FromLocation(inst.boat, x) = IF D = {} THEN Miles(inst.boat, inst.end[x]) ELSE Min(D)
  BY DEF FromLocation
<1> HIDE DEF D
<1>5. Min(D) \in D  BY <1>3, LeastIn
<1> QED BY <1>3, <1>4, <1>5

LEMMA NearestPortType ==
  ASSUME inst \in Instances, NEW l \in Locations
  PROVE  /\ NearestPort(l) \in Ports \cup {NoNode}
         /\ (\E p \in Ports : Miles(l, inst.start[p]) > 0) => NearestPort(l) \in Ports
<1> DEFINE P == {p \in Ports : Miles(l, inst.start[p]) > 0}
           f == [p \in P |-> Miles(l, inst.start[p])]
<1>1. NearestPort(l) = IF P = {} THEN NoNode
         ELSE CHOOSE x \in P : \A y \in P :
                Miles(l, inst.start[x]) < Miles(l, inst.start[y])
                  \/ (Miles(l, inst.start[x]) = Miles(l, inst.start[y]) /\ x <= y)
  BY DEF NearestPort, PortNear, First
<1>2. \A p \in P : f[p] = Miles(l, inst.start[p]) /\ f[p] \in Nat
  BY NodeTypes, InstanceTypes
<1>3. P \subseteq Nat  BY NodeTypes
<1>4. P # {} => \E x \in P : \A y \in P : f[x] < f[y] \/ (f[x] = f[y] /\ x <= y)
  <2> HIDE DEF P, f
  <2> QED BY <1>2, <1>3, LeastOf
<1>5. P # {} => \E x \in P : \A y \in P :
                Miles(l, inst.start[x]) < Miles(l, inst.start[y])
                  \/ (Miles(l, inst.start[x]) = Miles(l, inst.start[y]) /\ x <= y)
  <2> HIDE DEF f
  <2> QED BY <1>2, <1>4
<1>6. P # {} => NearestPort(l) \in P  BY <1>1, <1>5
<1>7. P # {} => NearestPort(l) \in Ports
  BY <1>6
<1>8. P = {} => NearestPort(l) = NoNode  BY <1>1
<1>9. (\E p \in Ports : Miles(l, inst.start[p]) > 0) => P # {}  OBVIOUS
<1> HIDE DEF P
<1> QED BY <1>7, <1>8, <1>9

LEMMA NearestPortOfType ==
  ASSUME inst \in Instances, NEW n \in Nodes
  PROVE  /\ NearestPortOf(n) \in Ports \cup {NoNode}
         /\ (\E p \in Ports : MinPair(n, p) > 0) => NearestPortOf(n) \in Ports
<1> DEFINE P == {p \in Ports : MinPair(n, p) > 0}
           f == [p \in P |-> MinPair(n, p)]
<1>1. NearestPortOf(n) = IF P = {} THEN NoNode
         ELSE CHOOSE x \in P : \A y \in P :
                MinPair(n, x) < MinPair(n, y)
                  \/ (MinPair(n, x) = MinPair(n, y) /\ x <= y)
  BY DEF NearestPortOf, PortNear, First
<1>2. \A p \in P : f[p] = MinPair(n, p) /\ f[p] \in Nat
  BY NodeTypes, MinPairType
<1>3. P \subseteq Nat  BY NodeTypes
<1>4. P # {} => \E x \in P : \A y \in P : f[x] < f[y] \/ (f[x] = f[y] /\ x <= y)
  <2> HIDE DEF P, f
  <2> QED BY <1>2, <1>3, LeastOf
<1>5. P # {} => \E x \in P : \A y \in P :
                MinPair(n, x) < MinPair(n, y)
                  \/ (MinPair(n, x) = MinPair(n, y) /\ x <= y)
  <2> HIDE DEF f
  <2> QED BY <1>2, <1>4
<1>6. P # {} => NearestPortOf(n) \in P  BY <1>1, <1>5
<1>7. P # {} => NearestPortOf(n) \in Ports
  BY <1>6
<1>8. P = {} => NearestPortOf(n) = NoNode  BY <1>1
<1>9. (\E p \in Ports : MinPair(n, p) > 0) => P # {}  OBVIOUS
<1> HIDE DEF P
<1> QED BY <1>7, <1>8, <1>9

LEMMA ClosestPairType ==
  ASSUME inst \in Instances, NumStations # 1
  PROVE  /\ ClosestPair \in Seq(Stations) /\ Len(ClosestPair) = 2
         /\ ClosestPair[1] < ClosestPair[2]
<1> DEFINE P == {p \in Pairs : MinPair(p[1], p[2]) > 0}
           W == {MinPair(p[1], p[2]) : p \in P}
<1>0. NumStations \in Nat /\ NumStations >= 2 /\ Stations \subseteq Nat
      /\ Stations \subseteq Nodes
  BY NodeTypes
<1>1. ClosestPair = IF P = {} THEN <<1, 2>>
                    ELSE CHOOSE p \in P : \A q \in P \ {p} : Lighter(p, q)
  <2> DEFINE R == {p \in Stations \X Stations :
                     p[1] < p[2] /\ MinPair(p[1], p[2]) > 0}
  <2>1. R = P  BY DEF Pairs
  <2>2. ClosestPair = IF R = {} THEN <<1, 2>>
                      ELSE CHOOSE p \in R : \A q \in R \ {p} : Lighter(p, q)
    BY DEF ClosestPair
  <2> HIDE DEF P, R
  <2> QED BY <2>1, <2>2
<1>2. ASSUME NEW p \in Pairs
      PROVE  /\ p[1] \in Stations /\ p[2] \in Stations /\ p[1] < p[2]
             /\ p = <<p[1], p[2]>>
             /\ p[1] \in Nat /\ p[2] \in Nat
             /\ MinPair(p[1], p[2]) \in Int
  <2>1. p[1] \in Stations /\ p[2] \in Stations /\ p[1] < p[2] /\ p = <<p[1], p[2]>>
    BY DEF Pairs
  <2>2. MinPair(p[1], p[2]) \in Int  BY <1>0, <2>1, MinPairType
  <2> QED BY <1>0, <2>1, <2>2
<1>3. ASSUME NEW p \in Pairs
      PROVE  p \in Seq(Stations) /\ Len(p) = 2
  <2>1. \A a, b \in Stations : <<a, b>> \in Seq(Stations) /\ Len(<<a, b>>) = 2
    OBVIOUS
  <2> QED BY <1>2, <2>1
<1>4. ASSUME P # {}
      PROVE  \E p \in P : \A q \in P \ {p} : Lighter(p, q)
  <2>1. PICK w \in W : \A z \in W : w <= z
    <3>1. W \subseteq Nat /\ W # {}  BY <1>2, <1>4
    <3> HIDE DEF W
    <3> QED BY <3>1, LeastNatural
  <2> DEFINE Q == {p \in P : MinPair(p[1], p[2]) = w}
             A == {p[1] : p \in Q}
  <2>2. PICK a \in A : \A c \in A : a <= c
    <3>1. A \subseteq Nat /\ A # {}  BY <1>2, <2>1
    <3> HIDE DEF A
    <3> QED BY <3>1, LeastNatural
  <2> DEFINE B == {p[2] : p \in {q \in Q : q[1] = a}}
  <2>3. PICK b \in B : \A c \in B : b <= c
    <3>1. B \subseteq Nat /\ B # {}  BY <1>2, <2>2
    <3> HIDE DEF B
    <3> QED BY <3>1, LeastNatural
  <2>4. PICK p \in Q : p[1] = a /\ p[2] = b  BY <2>3
  <2>5. ASSUME NEW q \in P \ {p} PROVE Lighter(p, q)
    <3>1. p \in Pairs /\ q \in Pairs /\ q # p  OBVIOUS
    <3>2. MinPair(q[1], q[2]) \in W /\ MinPair(p[1], p[2]) = w  BY <2>4
    <3>3. w <= MinPair(q[1], q[2])  BY <2>1, <3>2
    <3>4. w \in Int /\ MinPair(q[1], q[2]) \in Int  BY <1>2, <3>1, <3>2
    <3>5. CASE MinPair(q[1], q[2]) # w
      BY <3>2, <3>3, <3>4, <3>5 DEF Lighter
    <3>6. CASE MinPair(q[1], q[2]) = w
      <4>1. q \in Q /\ q[1] \in A  BY <3>6
      <4>2. a <= q[1]  BY <2>2, <4>1
      <4>3. CASE q[1] # a
        BY <1>2, <2>4, <3>1, <3>2, <3>6, <4>2, <4>3 DEF Lighter
      <4>4. CASE q[1] = a
        <5>1. q[2] \in B  BY <4>1, <4>4
        <5>2. b <= q[2]  BY <2>3, <5>1
        <5>3. q[2] # b  BY <1>2, <2>4, <3>1, <4>4
        <5> QED BY <1>2, <2>4, <3>1, <3>2, <3>6, <4>4, <5>2, <5>3 DEF Lighter
      <4> QED BY <4>3, <4>4
    <3> QED BY <3>5, <3>6
  <2> QED BY <2>4, <2>5
<1>5. CASE P = {}
  <2>1. 1 \in Stations /\ 2 \in Stations  BY <1>0 DEF Stations
  <2> QED BY <1>1, <1>5, <2>1
<1>6. CASE P # {}
  <2>1. ClosestPair \in P  BY <1>1, <1>4, <1>6
  <2>2. ClosestPair \in Pairs  BY <2>1
  <2> QED BY <1>2, <1>3, <2>2
<1> QED BY <1>5, <1>6

(* A station put before a place, or at the end. *)
LEMMA InsertedProperties ==
  ASSUME NEW s \in Seq(Stations), NEW k \in 1 .. Len(s) + 1, NEW u \in Stations
  PROVE  /\ Inserted(s, k, u) \in Seq(Stations)
         /\ Len(Inserted(s, k, u)) = Len(s) + 1
         /\ \A i \in 1 .. Len(s) + 1 : Inserted(s, k, u)[i] =
              IF i < k THEN s[i] ELSE IF i = k THEN u ELSE s[i - 1]
<1> DEFINE n == Len(s)
           a == SubSeq(s, 1, k - 1)
           c == SubSeq(s, k, n)
<1>0. n \in Nat /\ k \in Nat /\ k >= 1 /\ k <= n + 1
      /\ \A i \in 1 .. n : s[i] \in Stations
  BY LenProperties, ElementOfSeq
<1>1. /\ a \in Seq(Stations) /\ Len(a) = k - 1
      /\ \A i \in 1 .. k - 1 : a[i] = s[i]
  <2>1. \A i \in 1 .. k - 1 : s[i] \in Stations  BY <1>0
  <2>2. 1 \in Int /\ k - 1 \in Int  BY <1>0
  <2>3. /\ a \in Seq(Stations) /\ Len(a) = IF 1 <= k - 1 THEN (k - 1) - 1 + 1 ELSE 0
        /\ \A i \in 1 .. (k - 1) - 1 + 1 : a[i] = s[1 + i - 1]
    BY <2>1, <2>2, SubSeqProperties
  <2> QED BY <1>0, <2>3
<1>2. /\ c \in Seq(Stations) /\ Len(c) = n - k + 1
      /\ \A i \in 1 .. n - k + 1 : c[i] = s[k + i - 1]
  <2>1. \A i \in k .. n : s[i] \in Stations  BY <1>0
  <2>3. /\ c \in Seq(Stations) /\ Len(c) = IF k <= n THEN n - k + 1 ELSE 0
        /\ \A i \in 1 .. n - k + 1 : c[i] = s[k + i - 1]
    BY <1>0, <2>1, SubSeqProperties
  <2> QED BY <1>0, <2>3
<1> HIDE DEF a, c
<1> DEFINE b == a \o <<u>>
<1>3. <<u>> \in Seq(Stations) /\ Len(<<u>>) = 1 /\ <<u>>[1] = u
  OBVIOUS
<1>4. /\ b \in Seq(Stations) /\ Len(b) = k
      /\ \A i \in 1 .. k : b[i] = IF i <= k - 1 THEN a[i] ELSE <<u>>[i - (k - 1)]
  <2>1. Len(a) + Len(<<u>>) = k  BY <1>0, <1>1, <1>3
  <2> QED BY <1>1, <1>3, <2>1, ConcatProperties
<1>41. b \o c = Inserted(s, k, u)  BY DEF Inserted, a, c
<1> HIDE DEF b
<1>5. \A i \in 1 .. k : b[i] = IF i < k THEN s[i] ELSE u
  <2> SUFFICES ASSUME NEW i \in 1 .. k PROVE b[i] = IF i < k THEN s[i] ELSE u
    OBVIOUS
  <2>1. CASE i < k
    <3>1. i \in 1 .. k - 1 /\ i <= k - 1  BY <1>0, <2>1
    <3> QED BY <1>1, <1>4, <2>1, <3>1
  <2>2. CASE i = k
    <3>1. ~(i <= k - 1) /\ i - (k - 1) = 1  BY <1>0, <2>2
    <3> QED BY <1>3, <1>4, <2>2, <3>1
  <2>3. i < k \/ i = k  BY <1>0
  <2> QED BY <2>1, <2>2, <2>3
<1>7. /\ b \o c \in Seq(Stations) /\ Len(b \o c) = n + 1
      /\ \A i \in 1 .. n + 1 : (b \o c)[i] = IF i <= k THEN b[i] ELSE c[i - k]
  <2>1. Len(b) + Len(c) = n + 1  BY <1>0, <1>2, <1>4
  <2>2. /\ b \o c \in Seq(Stations) /\ Len(b \o c) = Len(b) + Len(c)
        /\ \A i \in 1 .. Len(b) + Len(c) :
             (b \o c)[i] = IF i <= Len(b) THEN b[i] ELSE c[i - Len(b)]
    BY <1>2, <1>4, ConcatProperties
  <2> QED BY <1>4, <2>1, <2>2
<1>8. ASSUME NEW i \in 1 .. n + 1
      PROVE  (b \o c)[i] = IF i < k THEN s[i] ELSE IF i = k THEN u ELSE s[i - 1]
  <2>1. CASE i <= k
    <3>1. i \in 1 .. k  BY <1>0, <2>1
    <3> QED BY <1>0, <1>5, <1>7, <2>1, <3>1
  <2>2. CASE i > k
    <3>1. i - k \in 1 .. n - k + 1 /\ k + (i - k) - 1 = i - 1 /\ ~(i <= k) /\ ~(i < k) /\ i # k
      BY <1>0, <2>2
    <3> QED BY <1>2, <1>7, <3>1
  <2>3. i <= k \/ i > k  BY <1>0
  <2> QED BY <2>1, <2>2, <2>3
<1> QED BY <1>41, <1>7, <1>8

-----------------------------------------------------------------------------
(* The invariant *)

TypeOK ==
  /\ method \in {"nn", "ge", "ci"}
  /\ output \in {"construction", "segment"}
  /\ pc \in {"roam", "nearest", "edges", "insert", "build", "emit", "check",
             "done", "failed"}
  /\ order \in Seq(Stations)
  /\ GraphType
  /\ route \in RouteType
  /\ verdict \in {"none", "error", "order", "feasible", "infeasible"}

(* The order has every station once; the visits so far are its first ones. *)
Everyone == Len(order) = NumStations /\ IsInjective(order)
Follows(r) ==
  /\ Len(r.visits) <= Len(order)
  /\ \A k \in 1 .. Len(r.visits) : r.visits[k].station = order[k]

VisitsOnce(r) == IsInjective([k \in DOMAIN r.visits |-> r.visits[k].station])

PhaseInv ==
  /\ pc = "roam" => Roams(method, output)
  /\ pc \in {"nearest", "edges", "insert", "build", "emit"} => ~Roams(method, output)
  /\ pc = "nearest" => method = "nn"
  /\ pc = "edges" => method = "ge"
  /\ pc = "insert" => method = "ci"
  /\ pc = "emit" => output = "segment"
  /\ pc \in {"nearest", "edges", "insert"} => route.visits = <<>>
  /\ pc \in {"nearest", "insert"} => IsInjective(order) /\ Len(order) <= NumStations
  /\ pc = "nearest" => Len(order) < NumStations
  /\ pc \in {"build", "emit"} => Everyone /\ Follows(route)

(* With a complete matrix a boat that roams finds a way on: at sea it is   *)
(* empty at first and behind a port.                                       *)
RoamInv == pc = "roam" /\ route.anchor \notin Stations => route.load = 0

VisitInv ==
  /\ VisitsOnce(route)
  /\ Solved /\ ~Roams(method, output) =>
       Everyone /\ Follows(route) /\ Len(route.visits) = Len(order)
  /\ Solved /\ Roams(method, output) /\ Complete => Waiting(route) = {}

Inv == TypeOK /\ GraphInv /\ PhaseInv /\ RoamInv /\ VisitInv

-----------------------------------------------------------------------------
(* Orders and visits *)

LEMMA VisitsType ==
  ASSUME NEW r \in RouteType
  PROVE  /\ r.visits \in Seq(VisitRecord) /\ Len(r.visits) \in Nat
         /\ DOMAIN r.visits = 1 .. Len(r.visits)
         /\ \A k \in 1 .. Len(r.visits) : r.visits[k].station \in Stations
                                          /\ r.visits[k].seg \in Nat
         /\ Served(r) \subseteq Stations
<1>1. r.visits \in Seq(VisitRecord)  BY DEF RouteType
<1>2. Len(r.visits) \in Nat /\ DOMAIN r.visits = 1 .. Len(r.visits)
  BY <1>1, LenProperties
<1>3. \A k \in 1 .. Len(r.visits) : r.visits[k] \in VisitRecord
  BY <1>1, ElementOfSeq
<1>4. \A k \in 1 .. Len(r.visits) : r.visits[k].station \in Stations
                                          /\ r.visits[k].seg \in Nat
  BY <1>3 DEF VisitRecord
<1> QED BY <1>1, <1>2, <1>4 DEF Served

LEMMA OrderType ==
  ASSUME NEW s \in Seq(Stations)
  PROVE  /\ Len(s) \in Nat /\ DOMAIN s = 1 .. Len(s)
         /\ \A k \in 1 .. Len(s) : s[k] \in Stations
         /\ s \in [1 .. Len(s) -> Stations]
BY LenProperties, ElementOfSeq

LEMMA EmptyVisits ==
  ASSUME NEW r, r.visits = <<>>, order \in Seq(Stations)
  PROVE  Follows(r) /\ VisitsOnce(r)
<1>1. Len(r.visits) = 0 /\ Len(order) \in Nat /\ DOMAIN r.visits = {}
  BY OrderType
<1> QED BY <1>1 DEF Follows, VisitsOnce, IsInjective

LEMMA FollowsOn ==
  ASSUME order \in Seq(Stations), NEW r \in RouteType, NEW v \in RouteType,
         Follows(r), Len(r.visits) < Len(order), NEW n,
         v.visits = Append(r.visits, [station |-> order[Len(r.visits) + 1], seg |-> n])
  PROVE  Follows(v) /\ Len(v.visits) = Len(r.visits) + 1
<1> DEFINE m == Len(r.visits)
           e == [station |-> order[m + 1], seg |-> n]
<1>1. m \in Nat /\ Len(order) \in Nat /\ m + 1 \in 1 .. Len(order)
  BY VisitsType, OrderType
<1>2. /\ v.visits = Append(r.visits, e) /\ e.station = order[m + 1]
  OBVIOUS
<1>3. /\ Len(v.visits) = m + 1
      /\ \A k \in 1 .. m : v.visits[k] = r.visits[k]
      /\ v.visits[m + 1] = e
  BY VisitsType DEF RouteType
<1> HIDE DEF e
<1>4. ASSUME NEW k \in 1 .. m + 1 PROVE v.visits[k].station = order[k]
  <2>1. CASE k \in 1 .. m  BY <1>3, <2>1 DEF Follows
  <2>2. CASE k = m + 1  BY <1>2, <1>3, <2>2
  <2> QED BY <1>1, <2>1, <2>2
<1> QED BY <1>1, <1>3, <1>4 DEF Follows

LEMMA FollowsOnce ==
  ASSUME order \in Seq(Stations), IsInjective(order), NEW r \in RouteType, Follows(r)
  PROVE  VisitsOnce(r)
<1>1. /\ DOMAIN r.visits = 1 .. Len(r.visits) /\ DOMAIN order = 1 .. Len(order)
      /\ Len(r.visits) \in Nat /\ Len(order) \in Nat
  BY VisitsType, OrderType
<1>2. \A k \in 1 .. Len(r.visits) : k \in DOMAIN order /\ r.visits[k].station = order[k]
  BY <1>1 DEF Follows
<1> QED BY <1>1, <1>2 DEF VisitsOnce, IsInjective

LEMMA OnceMeans ==
  ASSUME NEW r \in RouteType
  PROVE  VisitsOnce(r) <=>
           \A a, b \in 1 .. Len(r.visits) :
             r.visits[a].station = r.visits[b].station => a = b
<1>1. DOMAIN r.visits = 1 .. Len(r.visits)  BY VisitsType
<1> QED BY <1>1 DEF VisitsOnce, IsInjective

LEMMA VisitsGrow ==
  ASSUME NEW r \in RouteType, NEW v \in RouteType, VisitsOnce(r),
         NEW x \in Stations, x \notin Served(r), NEW n,
         v.visits = Append(r.visits, [station |-> x, seg |-> n])
  PROVE  VisitsOnce(v)
<1> DEFINE m == Len(r.visits)
           e == [station |-> x, seg |-> n]
<1>1. m \in Nat /\ DOMAIN r.visits = 1 .. m
  BY VisitsType
<1>2. v.visits = Append(r.visits, e) /\ e.station = x
  OBVIOUS
<1>3. /\ Len(v.visits) = m + 1
      /\ \A k \in 1 .. m : v.visits[k] = r.visits[k]
      /\ v.visits[m + 1] = e
  BY VisitsType DEF RouteType
<1> HIDE DEF e
<1>4. DOMAIN v.visits = 1 .. m + 1  BY <1>3, VisitsType
<1>5. \A k : k \in 1 .. m + 1 <=> k \in 1 .. m \/ k = m + 1  BY <1>1
<1>6. \A k \in 1 .. m : r.visits[k].station # x  BY <1>1 DEF Served
<1>7. \A a, b \in 1 .. m : r.visits[a].station = r.visits[b].station => a = b
  BY <1>1, OnceMeans
<1>8. \A k \in 1 .. m : v.visits[k].station = r.visits[k].station
  BY <1>3
<1>9. v.visits[m + 1].station = x  BY <1>2, <1>3
<1>10. \A a, b \in 1 .. m + 1 : v.visits[a].station = v.visits[b].station => a = b
  BY <1>5, <1>6, <1>7, <1>8, <1>9
<1> QED BY <1>3, <1>10, OnceMeans

(* Every station has its place in such an order. *)
LEMMA EveryoneOrdered ==
  ASSUME order \in Seq(Stations), Everyone
  PROVE  \A x \in Stations : \E k \in 1 .. Len(order) : order[k] = x
<1> DEFINE n == NumStations
<1>1. n \in Nat /\ IsFiniteSet(Stations) /\ Cardinality(Stations) = n
  BY NodeTypes
<1>2. order \in [1 .. n -> Stations] /\ DOMAIN order = 1 .. n
  BY OrderType DEF Everyone
<1>3. order \in Injection(1 .. n, Stations)
  BY <1>2 DEF Everyone, Injection, IsInjective
<1>4. IsFiniteSet(1 .. n) /\ Cardinality(1 .. n) = n  BY <1>1, FS_Interval
<1>5. order \in Surjection(1 .. n, Stations)
  BY <1>1, <1>3, <1>4, FS_Injection
<1> QED BY <1>5 DEF Surjection, Everyone

LEMMA AllServed ==
  ASSUME order \in Seq(Stations), Everyone, NEW r \in RouteType, Follows(r),
         Len(r.visits) = Len(order)
  PROVE  Served(r) = Stations
<1>1. \A x \in Stations : \E k \in 1 .. Len(order) : order[k] = x
  BY EveryoneOrdered
<1>2. \A k \in 1 .. Len(order) : k \in DOMAIN r.visits /\ r.visits[k].station = order[k]
  BY VisitsType DEF Follows
<1>3. Stations \subseteq Served(r)  BY <1>1, <1>2 DEF Served
<1> QED BY <1>3, VisitsType

LEMMA WalkIsOrder ==
  ASSUME GraphInv, Cycled
  PROVE  Walk \in Seq(Stations) /\ Len(Walk) = NumStations /\ IsInjective(Walk)
<1>1. /\ Walk \in [1 .. NumStations -> Stations]
      /\ NewUpTo(NumStations) /\ NumStations \in Nat
  BY WalkIsTour, NodeTypes
<1>2. Walk \in Seq(Stations) /\ Len(Walk) = NumStations
  BY <1>1, SeqDef
<1> QED BY <1>1 DEF NewUpTo, IsInjective

LEMMA ByIndexIsOrder ==
  ByIndex \in Seq(Stations) /\ Len(ByIndex) = NumStations /\ IsInjective(ByIndex)
<1>1. NumStations \in Nat /\ ByIndex \in [1 .. NumStations -> Stations]
  BY NodeTypes DEF ByIndex, Stations
<1>2. ByIndex \in Seq(Stations) /\ Len(ByIndex) = NumStations
  BY <1>1
<1> QED BY <1>1 DEF ByIndex, IsInjective

(* A visit between ports. *)
LEMMA PortsFromType ==
  ASSUME inst \in Instances, NEW l \in Locations
  PROVE  PortsFrom(l) \subseteq Ports
BY NearestPortType DEF PortsFrom

LEMMA ReadyType ==
  ASSUME inst \in Instances, route \in RouteType, NEW r \in Ready
  PROVE  /\ r \in RouteType /\ r.visits = route.visits
         /\ r = route \/ \E p \in Ports : r = InsertPort(route, p)
<1>1. r = route \/ \E p \in Ports : r = InsertPort(route, p)
  <2>1. route.at \in Locations  BY DEF RouteType
  <2> QED BY <2>1, PortsFromType DEF Ready
<1>2. \A p \in Ports : InsertPort(route, p) \in RouteType
                       /\ InsertPort(route, p).visits = route.visits
  BY InsertPortRoute
<1> QED BY <1>1, <1>2

LEMMA PortAfterType ==
  ASSUME inst \in Instances, NEW r \in RouteType, NEW v \in PortAfter(r)
  PROVE  /\ v \in RouteType /\ v.visits = r.visits
         /\ v = r \/ \E p \in Ports : v = InsertPort(r, p)
<1>1. v = r \/ \E p \in Ports : v = InsertPort(r, p)
  <2>1. r.at \in Locations  BY DEF RouteType
  <2> QED BY <2>1, PortsFromType DEF PortAfter
<1>2. \A p \in Ports : InsertPort(r, p) \in RouteType
                       /\ InsertPort(r, p).visits = r.visits
  BY InsertPortRoute
<1> QED BY <1>1, <1>2

LEMMA VisitFromType ==
  ASSUME inst \in Instances, order \in Seq(Stations), NEW r \in RouteType,
         MoreToVisit(r), VisitFrom(r)
  PROVE  \/ Fail
         \/ /\ UNCHANGED <<given, pc, order, graph, verdict>>
            /\ Next1(r) \in Stations /\ CanTraverse(r.at, Next1(r))
            /\ route' \in PortAfter(Emit(r, Next1(r)))
            /\ route' \in RouteType
            /\ route'.visits = Append(r.visits, [station |-> Next1(r), seg |-> Len(r.segs) + 1])
<1>1. Next1(r) \in Stations
  BY VisitsType, OrderType DEF Next1, MoreToVisit
<1>2. CASE ~CanTraverse(r.at, Next1(r))  BY <1>2 DEF VisitFrom
<1>3. CASE CanTraverse(r.at, Next1(r))
  <2> DEFINE e == Emit(r, Next1(r))
  <2>1. /\ route' \in PortAfter(e)
        /\ UNCHANGED <<given, pc, order, graph, verdict>>
    BY <1>3 DEF VisitFrom
  <2>2. /\ e \in RouteType
        /\ e.visits = Append(r.visits, [station |-> Next1(r), seg |-> Len(r.segs) + 1])
    BY <1>1, <1>3, EmitRoute
  <2> HIDE DEF e
  <2>3. route' \in RouteType /\ route'.visits = e.visits
    BY <2>1, <2>2, PortAfterType
  <2> QED BY <1>1, <1>3, <2>1, <2>2, <2>3 DEF e
<1> QED BY <1>2, <1>3

LEMMA FlushedType ==
  ASSUME NEW r \in RouteType
  PROVE  /\ Flushed(r) \in RouteType /\ Flushed(r).visits = r.visits
         /\ Flushed(r) = r \/ Flushed(r) = CloseSegment(r)
<1>1. Flushed(r) = r \/ Flushed(r) = CloseSegment(r)  BY DEF Flushed
<1>2. CloseSegment(r) \in RouteType /\ CloseSegment(r).visits = r.visits
  <2> DEFINE v == CloseSegment(r)
  <2>1. v \in RouteType /\ v = [r EXCEPT !.segs = v.segs]
    BY CloseSegmentRoute
  <2> HIDE DEF v
  <2>2. v.visits = r.visits  BY <2>1 DEF RouteType
  <2> QED BY <2>1, <2>2 DEF v
<1> QED BY <1>1, <1>2

LEMMA FlushType ==
  ASSUME inst \in Instances, NEW r \in RouteType
  PROVE  /\ WithTotal(Flushed(r)) \in RouteType
         /\ WithTotal(Flushed(r)).visits = r.visits
<1>1. Flushed(r) \in RouteType /\ Flushed(r).visits = r.visits  BY FlushedType
<1> QED BY <1>1, WithTotalRoute

-----------------------------------------------------------------------------
(* The steps keep the invariant. *)

LEMMA GraphSame ==
  ASSUME GraphInv, inst' = inst, rest' \subseteq rest, adj' = adj, comp' = comp
  PROVE  GraphInv' /\ Used' = Used
<1>0. GraphType /\ LinksSound /\ Connected /\ LinksCounted  BY DEF GraphInv
<1>1. GraphType'  BY <1>0 DEF GraphType
<1>2. Degree' = Degree  BY DEF Degree
<1>3. \A x, y \in Stations : Linked(x, y)' <=> Linked(x, y)  BY DEF Linked
<1>4. Used' = Used
  <2>1. (GraphType => Used = Total(Degree, Stations) \div 2)'
    BY UsedIsHalf, PTL
  <2>2. Total(Degree, Stations)' = Total(Degree', Stations)  OBVIOUS
  <2> QED BY <1>0, <1>1, <1>2, <2>1, <2>2, UsedIsHalf
<1>5. Total(Degree, Stations)' = Total(Degree, Stations)
  <2>1. Total(Degree, Stations)' = Total(Degree', Stations)  OBVIOUS
  <2> QED BY <1>2, <2>1
<1>6. Components' = Components  BY DEF Components
<1>7. LinksSound'
  <2>1. /\ \A x \in Stations : Degree'[x] <= 2
        /\ \A x \in Stations : Degree'[x] = 2 => adj'[x][1] # adj'[x][2]
    BY <1>0, <1>2 DEF LinksSound
  <2>2. \A x, y \in Stations : x < y /\ Linked(x, y)' => <<x, y>> \notin rest'
    BY <1>0, <1>3 DEF LinksSound
  <2>3. /\ \A x, y \in Stations : Linked(x, y)' => Linked(y, x)' /\ comp'[x] = comp'[y]
        /\ \A x \in Stations : ~Linked(x, x)'
    BY <1>0, <1>3 DEF LinksSound
  <2> QED BY <2>1, <2>2, <2>3 DEF LinksSound
<1>8. Connected'
  <2> SUFFICES ASSUME NEW S \in SUBSET Stations, Closed(S)',
                      NEW x \in S, NEW y \in Stations, comp'[y] = comp'[x]
               PROVE  y \in S
    BY DEF Connected
  <2>1. Closed(S)  BY <1>3 DEF Closed
  <2> QED BY <1>0, <2>1 DEF Connected
<1>9. LinksCounted'
  BY <1>0, <1>4, <1>5, <1>6 DEF LinksCounted
<1> QED BY <1>1, <1>4, <1>7, <1>8, <1>9 DEF GraphInv

LEMMA GraphUnchanged ==
  ASSUME GraphInv, UNCHANGED given, UNCHANGED graph
  PROVE  GraphInv'
BY GraphSame DEF given, graph

(* Greedy edge links or passes over the lightest pair that is left. *)
LEMMA ScanLinks ==
  ASSUME GraphInv, ScanPair
  PROVE  \E p \in rest :
           /\ p[1] \in Stations /\ p[2] \in Stations /\ p[1] < p[2]
           /\ p = <<p[1], p[2]>>
           /\ \/ Linkable(p[1], p[2]) /\ MayLink(p[1], p[2]) /\ Link(p[1], p[2])
              \/ /\ ~Linkable(p[1], p[2])
                 /\ inst' = inst /\ rest' = rest \ {p} /\ adj' = adj /\ comp' = comp
<1>1. GraphType  BY DEF GraphInv
<1>2. PICK p \in rest :
       /\ rest' = rest \ {p}
       /\ LET u == p[1]
              v == p[2]
          IN  IF Linkable(u, v)
                THEN /\ adj' = [adj EXCEPT ![u] = Append(@, v), ![v] = Append(@, u)]
                     /\ comp' = [x \in Stations |->
                                   IF comp[x] = comp[v] THEN comp[u] ELSE comp[x]]
                ELSE UNCHANGED <<adj, comp>>
  BY DEF ScanPair
<1>3. p[1] \in Stations /\ p[2] \in Stations /\ p[1] < p[2] /\ p = <<p[1], p[2]>>
  BY <1>1 DEF GraphType, Pairs
<1>4. inst' = inst /\ Used < NumStations  BY DEF ScanPair, given
<1>5. CASE Linkable(p[1], p[2])
  <2>1. Link(p[1], p[2])  BY <1>2, <1>3, <1>4, <1>5 DEF Link
  <2>2. MayLink(p[1], p[2])
    BY <1>2, <1>3, <1>4, <1>5 DEF MayLink, Linkable, Degree
  <2> QED BY <1>3, <1>5, <2>1, <2>2
<1>6. CASE ~Linkable(p[1], p[2])
  BY <1>2, <1>3, <1>4, <1>6
<1> QED BY <1>5, <1>6

LEMMA ScanKeepsGraph ==
  ASSUME GraphInv, ScanPair
  PROVE  GraphInv'
<1>1. PICK p \in rest :
           /\ p[1] \in Stations /\ p[2] \in Stations /\ p[1] < p[2]
           /\ p = <<p[1], p[2]>>
           /\ \/ Linkable(p[1], p[2]) /\ MayLink(p[1], p[2]) /\ Link(p[1], p[2])
              \/ /\ ~Linkable(p[1], p[2])
                 /\ inst' = inst /\ rest' = rest \ {p} /\ adj' = adj /\ comp' = comp
  BY ScanLinks
<1>2. CASE MayLink(p[1], p[2]) /\ Link(p[1], p[2])
  <2>1. LinksSound'  BY <1>2, LinkKeepsSound
  <2>2. Connected'  BY <1>2, LinkKeepsConnected
  <2>3. LinksCounted'  BY <1>2, LinkKeepsCounted
  <2>4. GraphType'
    <3>1. GraphType /\ p[1] # p[2]  BY <1>1, NodeTypes DEF GraphInv
    <3> QED BY <1>1, <1>2, <3>1, LinkType
  <2> QED BY <2>1, <2>2, <2>3, <2>4 DEF GraphInv
<1>3. CASE inst' = inst /\ rest' = rest \ {p} /\ adj' = adj /\ comp' = comp
  <2>1. rest' \subseteq rest  BY <1>3
  <2> QED BY <1>3, <2>1, GraphSame
<1> QED BY <1>1, <1>2, <1>3

(* Complete does not change. *)
LEMMA CompleteSame ==
  ASSUME inst' = inst
  PROVE  Complete' <=> Complete
BY DEF Complete, CanTraverse, Traverse, Miles, EndsOf

LEMMA InitBegins ==
  ASSUME Init
  PROVE  /\ Roams(method, output) => pc = "roam"
         /\ ~Roams(method, output) => pc \in {"nearest", "edges", "insert"}
         /\ pc = "nearest" => method = "nn"
         /\ pc = "edges" => method = "ge"
         /\ pc = "insert" => method = "ci"
         /\ pc # "emit"
<1>1. /\ method \in {"nn", "ge", "ci"} /\ pc = Begin  BY DEF Init
<1>2. CASE Roams(method, output)
  <2>1. method = "nn"  BY <1>2 DEF Roams
  <2>2. Begin = "roam"  BY <1>2, <2>1 DEF Begin
  <2> QED BY <1>1, <1>2, <2>2
<1>3. CASE method = "nn" /\ ~Roams(method, output)
  <2>1. Begin = "nearest"  BY <1>3 DEF Begin
  <2> QED BY <1>1, <1>3, <2>1
<1>4. CASE method = "ge"
  <2>1. ~Roams(method, output)  BY <1>4 DEF Roams
  <2>2. Begin = "edges"  BY <1>4, <2>1 DEF Begin
  <2> QED BY <1>1, <1>4, <2>1, <2>2
<1>5. CASE method = "ci"
  <2>1. ~Roams(method, output)  BY <1>5 DEF Roams
  <2>2. Begin = "insert"  BY <1>5, <2>1 DEF Begin
  <2> QED BY <1>1, <1>5, <2>1, <2>2
<1> QED BY <1>1, <1>2, <1>3, <1>4, <1>5

LEMMA InitInv == Init => Inv
<1> SUFFICES ASSUME Init PROVE Inv  OBVIOUS
<1>1. /\ inst \in Instances /\ method \in {"nn", "ge", "ci"}
      /\ output \in {"construction", "segment"} /\ order = <<>>
      /\ route = EmptyRoute /\ verdict = "none"
  BY DEF Init
<1>2. GraphInv /\ GraphType  BY InitGraph DEF GraphInv
<1>3. /\ route \in RouteType /\ route.visits = <<>> /\ route.load = 0
  BY <1>1, EmptyRouteType
<1>4. /\ order \in Seq(Stations) /\ Len(order) = 0 /\ IsInjective(order)
      /\ NumStations \in Nat /\ NumStations >= 1
  BY <1>1, NodeTypes DEF IsInjective
<1>5. /\ Roams(method, output) => pc = "roam"
      /\ ~Roams(method, output) => pc \in {"nearest", "edges", "insert"}
      /\ pc = "nearest" => method = "nn"
      /\ pc = "edges" => method = "ge"
      /\ pc = "insert" => method = "ci"
      /\ pc # "emit"
  BY InitBegins
<1>6. TypeOK  BY <1>1, <1>2, <1>3, <1>4, <1>5 DEF TypeOK
<1>7. PhaseInv  BY <1>3, <1>4, <1>5 DEF PhaseInv
<1>8. RoamInv  BY <1>3 DEF RoamInv
<1>9. VisitInv
  <2>1. VisitsOnce(route)  BY <1>3, <1>4, EmptyVisits
  <2>2. ~Solved  BY <1>5 DEF Solved
  <2> QED BY <2>1, <2>2 DEF VisitInv
<1> QED BY <1>2, <1>6, <1>7, <1>8, <1>9 DEF Inv

LEMMA FailKeepsInv ==
  ASSUME Inv, Fail
  PROVE  Inv'
<1>1. GraphInv' /\ GraphType'
  BY GraphUnchanged DEF Fail, Inv, GraphInv
<1>2. TypeOK'  BY <1>1 DEF Fail, Inv, TypeOK, given
<1>3. PhaseInv' /\ RoamInv'  BY DEF Fail, PhaseInv, RoamInv
<1>4. VisitInv'
  BY DEF Fail, Inv, VisitInv, Solved, VisitsOnce
<1> QED BY <1>1, <1>2, <1>3, <1>4 DEF Inv

LEMMA StutterKeepsInv ==
  ASSUME Inv, UNCHANGED vars
  PROVE  Inv'
<1>1. GraphInv' /\ GraphType'
  BY GraphUnchanged DEF vars, given, graph, Inv, GraphInv
<1>2. TypeOK'  BY <1>1 DEF vars, Inv, TypeOK
<1>3. PhaseInv' /\ RoamInv'
  BY DEF vars, Inv, PhaseInv, RoamInv, Everyone, Follows
<1>4. VisitInv'
  <2>1. Complete' <=> Complete  BY CompleteSame DEF vars
  <2>2. VisitsOnce(route)' /\ (Waiting(route)' = Waiting(route))
    BY DEF vars, Inv, VisitInv, VisitsOnce, Waiting, Served
  <2>3. Everyone' <=> Everyone  BY DEF vars, Everyone
  <2>4. Follows(route)' <=> Follows(route)  BY DEF vars, Follows
  <2> QED BY <2>1, <2>2, <2>3, <2>4 DEF vars, Inv, VisitInv, Solved
<1> QED BY <1>1, <1>2, <1>3, <1>4 DEF Inv

(* An order is built. *)
LEMMA NearestKeepsInv ==
  ASSUME Inv, NextNearest
  PROVE  Inv'
<1>1. CASE Fail  BY <1>1, FailKeepsInv
<1>2. ASSUME ~Fail PROVE Inv'
  <2>1. PICK best \in Stations \ Ordered :
              /\ order' = Append(order, best)
              /\ route' = IF Len(order') = NumStations THEN EmptyRoute
                          ELSE [route EXCEPT !.at = Traverse(route.at, best).exit]
              /\ pc' = IF Len(order') = NumStations THEN "build" ELSE "nearest"
              /\ CanTraverse(route.at, best)
              /\ UNCHANGED <<given, graph, verdict>>
    BY <1>2 DEF NextNearest
  <2>2. /\ pc = "nearest" /\ order \in Seq(Stations) /\ IsInjective(order)
        /\ Len(order) < NumStations /\ NumStations \in Nat /\ Len(order) \in Nat
        /\ inst \in Instances /\ route \in RouteType /\ route.visits = <<>>
        /\ ~Roams(method, output) /\ method = "nn"
        /\ UNCHANGED given
    BY <2>1, NodeTypes, LenProperties DEF NextNearest, Inv, TypeOK, PhaseInv, GraphType
  <2>3. /\ order' \in Seq(Stations) /\ Len(order') = Len(order) + 1
        /\ \A k \in 1 .. Len(order) : order'[k] = order[k]
        /\ order'[Len(order) + 1] = best
    BY <2>1, <2>2
  <2>4. IsInjective(order')
    <3>1. DOMAIN order = 1 .. Len(order) /\ DOMAIN order' = 1 .. Len(order) + 1
      BY <2>2, <2>3, LenProperties
    <3>2. \A k \in 1 .. Len(order) : order[k] # best  BY <2>1, <3>1 DEF Ordered
    <3>3. \A k : k \in 1 .. Len(order) + 1 <=> k \in 1 .. Len(order) \/ k = Len(order) + 1
      BY <2>2
    <3> QED BY <2>2, <2>3, <3>1, <3>2, <3>3 DEF IsInjective
  <2>5. route' \in RouteType /\ route'.visits = <<>>
    <3>1. EmptyRoute \in RouteType /\ EmptyRoute.visits = <<>>
      BY <2>2, EmptyRouteType
    <3>2. [route EXCEPT !.at = Traverse(route.at, best).exit] \in RouteType
          /\ [route EXCEPT !.at = Traverse(route.at, best).exit].visits = <<>>
      <4> DEFINE l == Traverse(route.at, best).exit
      <4>1. l \in Locations
        BY <2>1, <2>2, TraverseType DEF RouteType
      <4> HIDE DEF l
      <4>2. [route EXCEPT !.at = l] \in RouteType /\ [route EXCEPT !.at = l].visits = <<>>
        BY <2>2, <4>1 DEF RouteType
      <4> QED BY <4>2 DEF l
    <3> QED BY <2>1, <3>1, <3>2
  <2>6. GraphInv' /\ GraphType'
    BY <2>1, GraphUnchanged DEF Inv, GraphInv
  <2>7. TypeOK'  BY <2>1, <2>3, <2>5, <2>6 DEF Inv, TypeOK, given
  <2>8. Follows(route)' /\ VisitsOnce(route)'
    <3>1. Len(order') \in Nat /\ Len(route'.visits) = 0 /\ DOMAIN route'.visits = {}
      BY <2>2, <2>3, <2>5
    <3> QED BY <3>1 DEF Follows, VisitsOnce, IsInjective
  <2>9. Roams(method, output)' = FALSE  BY <2>2 DEF given, Roams
  <2>10. PhaseInv'
    <3>1. CASE Len(order') = NumStations
      BY <2>1, <2>3, <2>4, <2>5, <2>8, <2>9, <3>1 DEF PhaseInv, Everyone
    <3>2. CASE Len(order') # NumStations
      <4>1. Len(order') < NumStations /\ Len(order') <= NumStations
        BY <2>2, <2>3, <3>2
      <4>2. method' = "nn"  BY <2>2 DEF given
      <4> QED BY <2>1, <2>4, <2>5, <2>9, <3>2, <4>1, <4>2 DEF PhaseInv
    <3> QED BY <3>1, <3>2
  <2>11. RoamInv' /\ VisitInv'
    BY <2>1, <2>8 DEF RoamInv, VisitInv, Solved
  <2> QED BY <2>6, <2>7, <2>10, <2>11 DEF Inv
<1> QED BY <1>1, <1>2

(* An order is ready: the route begins. *)
LEMMA BuildBegins ==
  ASSUME Inv, pc' = "build", ~Roams(method, output), UNCHANGED <<given, graph, verdict>>,
         order' \in Seq(Stations), Len(order') = NumStations, IsInjective(order'),
         route' = route, route.visits = <<>>
  PROVE  Inv'
<1>1. GraphInv' /\ GraphType'
  BY GraphUnchanged DEF Inv, GraphInv
<1>2. TypeOK'  BY <1>1 DEF Inv, TypeOK, given
<1>3. Follows(route)' /\ VisitsOnce(route)'
  <2>1. Len(order') \in Nat /\ Len(route'.visits) = 0 /\ DOMAIN route'.visits = {}
    BY LenProperties
  <2> QED BY <2>1 DEF Follows, VisitsOnce, IsInjective
<1>4. PhaseInv'  BY <1>3 DEF PhaseInv, Everyone, Roams, given
<1>5. RoamInv' /\ VisitInv'  BY <1>3 DEF RoamInv, VisitInv, Solved
<1> QED BY <1>1, <1>2, <1>4, <1>5 DEF Inv

LEMMA ScanKeepsInv ==
  ASSUME Inv, ScanPair
  PROVE  Inv'
<1>1. GraphInv' /\ GraphType'  BY ScanKeepsGraph DEF Inv, GraphInv
<1>2. pc = "edges" /\ UNCHANGED <<given, pc, order, route, verdict>>  BY DEF ScanPair
<1>3. TypeOK'  BY <1>1, <1>2 DEF Inv, TypeOK, given
<1>4. PhaseInv' /\ RoamInv' /\ VisitInv'
  BY <1>2 DEF Inv, PhaseInv, RoamInv, VisitInv, VisitsOnce, Solved, given, Roams
<1> QED BY <1>1, <1>3, <1>4 DEF Inv

LEMMA EndEdgesKeepsInv ==
  ASSUME Inv, EndEdges
  PROVE  Inv'
<1>1. /\ GraphInv /\ pc' = "build" /\ UNCHANGED <<given, graph, route, verdict>>
      /\ order' = IF NumStations > 1 /\ Cycled THEN Walk ELSE ByIndex
  BY DEF EndEdges, Inv
<1>2. order' \in Seq(Stations) /\ Len(order') = NumStations /\ IsInjective(order')
  BY <1>1, WalkIsOrder, ByIndexIsOrder
<1>3. ~Roams(method, output) /\ route.visits = <<>>
  BY DEF EndEdges, Inv, PhaseInv
<1> QED BY <1>1, <1>2, <1>3, BuildBegins

LEMMA EndInsertKeepsInv ==
  ASSUME Inv, EndInsert
  PROVE  Inv'
<1>1. /\ pc' = "build" /\ UNCHANGED <<given, graph, verdict>> /\ route' = route
      /\ order' \in Seq(Stations) /\ Len(order') = NumStations
      /\ IsInjective(order') /\ ~Roams(method, output) /\ route.visits = <<>>
  BY DEF EndInsert, Inv, PhaseInv, TypeOK
<1> QED BY <1>1, BuildBegins

(* The cycle of cheapest insertion keeps distinct stations. *)
LEMMA CycleKeepsInv ==
  ASSUME Inv, pc = "insert", UNCHANGED <<given, pc, graph, route, verdict>>,
         order' \in Seq(Stations), IsInjective(order'), Len(order') <= NumStations
  PROVE  Inv'
<1>1. GraphInv' /\ GraphType'
  BY GraphUnchanged DEF Inv, GraphInv
<1>2. TypeOK'  BY <1>1 DEF Inv, TypeOK, given
<1>3. PhaseInv' /\ RoamInv' /\ VisitInv'
  BY DEF Inv, PhaseInv, RoamInv, VisitInv, VisitsOnce, Solved, given, Roams
<1> QED BY <1>1, <1>2, <1>3 DEF Inv

LEMMA StartCycleKeepsInv ==
  ASSUME Inv, StartCycle
  PROVE  Inv'
<1>1. /\ pc = "insert" /\ UNCHANGED <<given, pc, graph, route, verdict>>
      /\ order' = IF NumStations = 1 THEN <<1>> ELSE ClosestPair
      /\ inst \in Instances /\ NumStations \in Nat /\ NumStations >= 1
      /\ 1 \in Stations
  BY NodeTypes DEF StartCycle, Inv, GraphInv, GraphType, Stations
<1>2. CASE NumStations = 1
  <2>1. order' \in Seq(Stations) /\ Len(order') <= NumStations /\ IsInjective(order')
    BY <1>1, <1>2 DEF IsInjective
  <2> QED BY <1>1, <2>1, CycleKeepsInv
<1>3. CASE NumStations # 1
  <2>1. /\ order' \in Seq(Stations) /\ Len(order') = 2
        /\ order'[1] < order'[2]
    BY <1>1, <1>3, ClosestPairType
  <2>2. DOMAIN order' = {1, 2} /\ order'[1] \in Nat /\ order'[2] \in Nat
    <3>1. DOMAIN order' = 1 .. 2  BY <2>1, LenProperties
    <3>2. 1 .. 2 = {1, 2}  OBVIOUS
    <3>3. order'[1] \in Stations /\ order'[2] \in Stations  BY <2>1, <3>1, <3>2, ElementOfSeq
    <3> QED BY <3>1, <3>2, <3>3, NodeTypes
  <2>3. IsInjective(order')  BY <2>1, <2>2 DEF IsInjective
  <2> QED BY <1>1, <1>3, <2>1, <2>3, CycleKeepsInv
<1> QED BY <1>2, <1>3

(* A station that is not in a sequence of distinct ones, put into it. *)
LEMMA InsertedOnce ==
  ASSUME NEW s \in Seq(Stations), IsInjective(s), NEW k \in 1 .. Len(s) + 1,
         NEW u \in Stations, \A i \in 1 .. Len(s) : s[i] # u
  PROVE  IsInjective(Inserted(s, k, u))
<1> DEFINE v == Inserted(s, k, u)
           n == Len(s)
<1>1. /\ v \in Seq(Stations) /\ Len(v) = n + 1
      /\ \A i \in 1 .. n + 1 : v[i] =
              IF i < k THEN s[i] ELSE IF i = k THEN u ELSE s[i - 1]
  <2> SUFFICES /\ Inserted(s, k, u) \in Seq(Stations)
               /\ Len(Inserted(s, k, u)) = Len(s) + 1
               /\ \A i \in 1 .. Len(s) + 1 : Inserted(s, k, u)[i] =
                    IF i < k THEN s[i] ELSE IF i = k THEN u ELSE s[i - 1]
    OBVIOUS
  <2> QED BY ONLY InsertedProperties, s \in Seq(Stations), k \in 1 .. Len(s) + 1,
                  u \in Stations, ZenonT(30)
<1>2. n \in Nat /\ DOMAIN s = 1 .. n /\ k \in Nat /\ k >= 1  BY LenProperties
<1>3. DOMAIN v = 1 .. n + 1  BY <1>1, LenProperties
<1> HIDE DEF v
<1> SUFFICES ASSUME NEW i \in 1 .. n + 1, NEW j \in 1 .. n + 1, v[i] = v[j]
             PROVE  i = j
  BY <1>3 DEF IsInjective, v
<1>4. \A a, b \in 1 .. n : s[a] = s[b] => a = b  BY <1>2 DEF IsInjective
<1>5. \A a \in 1 .. n : a < k => a \in 1 .. n + 1 /\ v[a] = s[a]
  BY <1>1, <1>2
<1>6. /\ i < k => i \in 1 .. n /\ v[i] = s[i]
      /\ i > k => i - 1 \in 1 .. n /\ v[i] = s[i - 1]
      /\ i = k => v[i] = u
  BY <1>1, <1>2
<1>7. /\ j < k => j \in 1 .. n /\ v[j] = s[j]
      /\ j > k => j - 1 \in 1 .. n /\ v[j] = s[j - 1]
      /\ j = k => v[j] = u
  BY <1>1, <1>2
<1>8. i < k \/ i = k \/ i > k  BY <1>2
<1>9. j < k \/ j = k \/ j > k  BY <1>2
<1>10. CASE i = k /\ j = k  BY <1>10
<1>11. CASE i = k /\ j # k  BY <1>6, <1>7, <1>9, <1>11
<1>12. CASE i # k /\ j = k  BY <1>6, <1>7, <1>8, <1>12
<1>13. CASE i < k /\ j < k  BY <1>4, <1>6, <1>7, <1>13
<1>14. CASE i > k /\ j > k
  <2>1. i - 1 = j - 1  BY <1>4, <1>6, <1>7, <1>14
  <2> QED BY <2>1
<1>15. CASE i < k /\ j > k
  <2>1. i = j - 1  BY <1>4, <1>6, <1>7, <1>15
  <2> QED BY <1>2, <1>15, <2>1
<1>16. CASE i > k /\ j < k
  <2>1. i - 1 = j  BY <1>4, <1>6, <1>7, <1>16
  <2> QED BY <1>2, <1>16, <2>1
<1> QED BY <1>8, <1>9, <1>10, <1>11, <1>12, <1>13, <1>14, <1>15, <1>16

LEMMA AfterType ==
  ASSUME order \in Seq(Stations), NEW k \in DOMAIN order
  PROVE  /\ After(k) \in 1 .. Len(order)
         /\ After(k) = IF k = Len(order) THEN 1 ELSE k + 1
<1> DEFINE n == Len(order)
<1>1. n \in Nat /\ k \in 1 .. n /\ k \in Nat /\ n >= 1  BY LenProperties
<1>2. k % n = IF k = n THEN 0 ELSE k  BY <1>1
<1> QED BY <1>1, <1>2 DEF After

LEMMA InsertKeepsInv ==
  ASSUME Inv, InsertCheapest
  PROVE  Inv'
<1>1. CASE Fail  BY <1>1, FailKeepsInv
<1>2. ASSUME ~Fail PROVE Inv'
  <2>1. PICK c \in Insertions :
          /\ order' = Inserted(order, After(c[2]), c[1])
          /\ UNCHANGED <<given, pc, graph, route, verdict>>
    BY <1>2 DEF InsertCheapest
  <2>2. /\ pc = "insert" /\ order \in Seq(Stations) /\ IsInjective(order)
        /\ Len(order) \in Nat /\ Len(order) <= NumStations - 1 /\ NumStations \in Nat
    BY NodeTypes, LenProperties DEF InsertCheapest, Inv, PhaseInv, TypeOK
  <2>3. c[1] \in Stations /\ c[1] \notin Ordered /\ c[2] \in DOMAIN order
    BY DEF Insertions
  <2>4. After(c[2]) \in 1 .. Len(order) + 1  BY <2>2, <2>3, AfterType
  <2>5. \A i \in 1 .. Len(order) : order[i] # c[1]
    BY <2>2, <2>3, LenProperties DEF Ordered
  <2>6. order' \in Seq(Stations) /\ Len(order') <= NumStations
    BY <2>1, <2>2, <2>3, <2>4, InsertedProperties
  <2>7. IsInjective(order')
    BY <2>1, <2>2, <2>3, <2>4, <2>5, InsertedOnce
  <2> QED BY <2>1, <2>2, <2>6, <2>7, CycleKeepsInv
<1> QED BY <1>1, <1>2

(* The stations in order. *)
LEMMA VisitKeepsInv ==
  ASSUME Inv, pc \in {"build", "emit"}, UNCHANGED <<given, pc, order, graph, verdict>>,
         NEW n, Len(route.visits) < Len(order), route' \in RouteType,
         route'.visits = Append(route.visits, [station |-> order[Len(route.visits) + 1],
                                               seg |-> n])
  PROVE  Inv'
<1>1. GraphInv' /\ GraphType'
  BY GraphUnchanged DEF Inv, GraphInv
<1>2. TypeOK'  BY <1>1 DEF Inv, TypeOK, given
<1>3. /\ order \in Seq(Stations) /\ Everyone /\ Follows(route) /\ route \in RouteType
      /\ ~Roams(method, output)
  BY DEF Inv, TypeOK, PhaseInv
<1>4. Follows(route')  BY <1>3, FollowsOn
<1>5. VisitsOnce(route')  BY <1>3, <1>4, FollowsOnce DEF Everyone
<1>6. Follows(route)' /\ VisitsOnce(route)'  BY <1>4, <1>5 DEF Follows, VisitsOnce
<1>7. PhaseInv' /\ RoamInv' /\ VisitInv'
  BY <1>3, <1>6 DEF Inv, PhaseInv, RoamInv, VisitInv, Solved, given, Roams, Everyone
<1> QED BY <1>1, <1>2, <1>7 DEF Inv

LEMMA FollowKeepsInv ==
  ASSUME Inv, FollowNext
  PROVE  Inv'
<1>1. CASE Fail  BY <1>1, FailKeepsInv
<1>2. ASSUME ~Fail PROVE Inv'
  <2>1. /\ pc = "build" /\ Len(route.visits) < Len(order)
        /\ CanTraverse(route.at, Next1(route))
        /\ route' = Emit(route, Next1(route))
        /\ UNCHANGED <<given, pc, order, graph, verdict>>
    BY <1>2 DEF FollowNext, MoreToVisit
  <2>2. inst \in Instances /\ route \in RouteType /\ order \in Seq(Stations)
    BY DEF Inv, TypeOK, GraphType
  <2>3. Next1(route) \in Stations
    BY <2>1, <2>2, VisitsType, OrderType DEF Next1
  <2>4. /\ route' \in RouteType
        /\ route'.visits = Append(route.visits, [station |-> Next1(route),
                                                 seg |-> Len(route.segs) + 1])
    BY <2>1, <2>2, <2>3, EmitRoute
  <2> QED BY <2>1, <2>4, VisitKeepsInv DEF Next1
<1> QED BY <1>1, <1>2

LEMMA EmitKeepsInv ==
  ASSUME Inv, pc = "emit", MoreToVisit(route), NEW r \in RouteType,
         r.visits = route.visits, VisitFrom(r)
  PROVE  Inv'
<1>1. CASE Fail  BY <1>1, FailKeepsInv
<1>2. ASSUME ~Fail PROVE Inv'
  <2>1. inst \in Instances /\ route \in RouteType /\ order \in Seq(Stations)
    BY DEF Inv, TypeOK, GraphType
  <2>2. MoreToVisit(r) /\ Next1(r) = Next1(route) /\ Len(route.visits) < Len(order)
    BY DEF MoreToVisit, Next1
  <2>3. /\ UNCHANGED <<given, pc, order, graph, verdict>>
        /\ route' \in RouteType
        /\ route'.visits = Append(r.visits, [station |-> Next1(r), seg |-> Len(r.segs) + 1])
    BY <1>2, <2>1, <2>2, VisitFromType
  <2> QED BY <2>2, <2>3, VisitKeepsInv DEF Next1
<1> QED BY <1>1, <1>2

LEMMA EmitGEKeepsInv ==
  ASSUME Inv, EmitGE
  PROVE  Inv'
<1>1. CASE Fail  BY <1>1, FailKeepsInv
<1>2. ASSUME ~Fail PROVE Inv'
  <2>1. inst \in Instances /\ route \in RouteType  BY DEF Inv, TypeOK, GraphType
  <2>2. pc = "emit" /\ MoreToVisit(route)  BY DEF EmitGE
  <2>3. PICK r \in Ready : VisitFrom(r)  BY <1>2 DEF EmitGE
  <2>4. r \in RouteType /\ r.visits = route.visits  BY <2>1, ReadyType
  <2> QED BY <2>2, <2>3, <2>4, EmitKeepsInv
<1> QED BY <1>1, <1>2

LEMMA EmitCIKeepsInv ==
  ASSUME Inv, EmitCI
  PROVE  Inv'
<1>1. inst \in Instances /\ route \in RouteType  BY DEF Inv, TypeOK, GraphType
<1>2. pc = "emit" /\ MoreToVisit(route)  BY DEF EmitCI
<1>3. PICK r \in IF Ready = {} THEN {route} ELSE Ready : VisitFrom(r)  BY DEF EmitCI
<1>4. r \in RouteType /\ r.visits = route.visits  BY <1>1, ReadyType
<1> QED BY <1>2, <1>3, <1>4, EmitKeepsInv

(* The route is complete. *)
LEMMA SolvedKeepsInv ==
  ASSUME Inv, pc \in {"build", "emit"}, ~MoreToVisit(route), pc' = "check",
         UNCHANGED <<given, order, graph, verdict>>, route' \in RouteType,
         route'.visits = route.visits
  PROVE  Inv'
<1>1. GraphInv' /\ GraphType'
  BY GraphUnchanged DEF Inv, GraphInv
<1>2. TypeOK'  BY <1>1 DEF Inv, TypeOK, given
<1>3. /\ Everyone /\ Follows(route) /\ ~Roams(method, output) /\ VisitsOnce(route)
  BY DEF Inv, PhaseInv, VisitInv
<1>4. Len(route.visits) = Len(order)
  <2>1. Len(route.visits) \in Nat /\ Len(order) \in Nat
    BY VisitsType, OrderType DEF Inv, TypeOK
  <2> QED BY <1>3, <2>1 DEF MoreToVisit, Follows
<1>5. Follows(route)' /\ VisitsOnce(route)' /\ Everyone'
  BY <1>3 DEF Follows, VisitsOnce, Everyone
<1>6. PhaseInv' /\ RoamInv' /\ VisitInv'
  BY <1>3, <1>4, <1>5 DEF PhaseInv, RoamInv, VisitInv, given, Roams
<1> QED BY <1>1, <1>2, <1>6 DEF Inv

LEMMA EndFollowKeepsInv ==
  ASSUME Inv, EndFollow
  PROVE  Inv'
<1>1. /\ inst \in Instances /\ route \in RouteType /\ order \in Seq(Stations)
      /\ Everyone /\ Follows(route) /\ ~Roams(method, output)
      /\ pc = "build" /\ ~MoreToVisit(route)
      /\ UNCHANGED <<given, order, graph, verdict>>
  BY DEF Inv, TypeOK, GraphType, PhaseInv, EndFollow
<1>2. CASE output = "construction"
  <2>1. pc' = "check" /\ route' = OneSegment(route)  BY <1>2 DEF EndFollow
  <2>2. route' \in RouteType /\ route'.visits = route.visits
    BY <1>1, <2>1, OneSegmentRoute
  <2> QED BY <1>1, <2>1, <2>2, SolvedKeepsInv
<1>3. CASE output # "construction"
  <2>1. pc' = "emit" /\ route' = EmptyRoute  BY <1>3 DEF EndFollow
  <2>2. route' \in RouteType /\ route'.visits = <<>>
    BY <1>1, <2>1, EmptyRouteType
  <2>3. GraphInv' /\ GraphType'
    BY <1>1, GraphUnchanged DEF Inv, GraphInv
  <2>4. TypeOK'  BY <1>1, <2>1, <2>2, <2>3 DEF Inv, TypeOK, given
  <2>5. Follows(route') /\ VisitsOnce(route')  BY <1>1, <2>2, EmptyVisits
  <2>6. Follows(route)' /\ VisitsOnce(route)'
    BY <1>1, <2>5 DEF Follows, VisitsOnce
  <2>7. output' = "segment"  BY <1>1, <1>3 DEF Inv, TypeOK, given
  <2>8. PhaseInv' /\ RoamInv' /\ VisitInv'
    BY <1>1, <2>1, <2>6, <2>7 DEF PhaseInv, RoamInv, VisitInv, Solved, given, Roams, Everyone
  <2> QED BY <2>3, <2>4, <2>8 DEF Inv
<1> QED BY <1>2, <1>3

LEMMA FlushKeepsInv ==
  ASSUME Inv, FlushGE \/ FlushCI
  PROVE  Inv'
<1>1. /\ pc = "emit" /\ ~MoreToVisit(route) /\ pc' = "check"
      /\ route' = WithTotal(Flushed(route))
      /\ UNCHANGED <<given, order, graph, verdict>>
      /\ inst \in Instances /\ route \in RouteType
  BY DEF Inv, TypeOK, GraphType, FlushGE, FlushCI
<1>2. route' \in RouteType /\ route'.visits = route.visits
  BY <1>1, FlushType
<1> QED BY <1>1, <1>2, SolvedKeepsInv

LEMMA CheckKeepsInv ==
  ASSUME Inv, Check
  PROVE  Inv'
<1>1. /\ pc = "check" /\ pc' = "done" /\ UNCHANGED <<given, order, graph, route>>
      /\ verdict' \in {"order", "feasible", "infeasible"}
  BY DEF Check
<1>2. GraphInv' /\ GraphType'
  BY <1>1, GraphUnchanged DEF Inv, GraphInv
<1>3. TypeOK'  BY <1>1, <1>2 DEF Inv, TypeOK, given
<1>4. Complete' <=> Complete  BY <1>1, CompleteSame DEF given
<1>5. PhaseInv' /\ RoamInv'  BY <1>1 DEF PhaseInv, RoamInv
<1>6. VisitInv'
  BY <1>1, <1>4 DEF Inv, VisitInv, VisitsOnce, Solved, given, Roams, Everyone, Follows,
                    Waiting, Served
<1> QED BY <1>2, <1>3, <1>5, <1>6 DEF Inv

(* Nearest neighbour with ports. *)
LEMMA RoamStep ==
  ASSUME Inv, pc = "roam", pc' = "roam", UNCHANGED <<given, order, graph, verdict>>,
         route' \in RouteType, VisitsOnce(route'),
         route'.anchor \in Stations \/ route'.load = 0
  PROVE  Inv'
<1>1. GraphInv' /\ GraphType'  BY GraphUnchanged DEF Inv, GraphInv
<1>2. TypeOK'  BY <1>1 DEF Inv, TypeOK, given
<1>3. VisitsOnce(route)'  BY DEF VisitsOnce
<1>4. PhaseInv' /\ RoamInv' /\ VisitInv'
  BY <1>3 DEF Inv, PhaseInv, RoamInv, VisitInv, Solved, given, Roams
<1> QED BY <1>1, <1>2, <1>4 DEF Inv

LEMMA PortWhenFullType ==
  ASSUME inst \in Instances, NEW r \in RouteType, r.anchor \in Stations
  PROVE  /\ PortWhenFull(r) \in RouteType /\ PortWhenFull(r).visits = r.visits
         /\ \/ PortWhenFull(r) = r
            \/ \E p \in Ports : PortWhenFull(r) = InsertPort(r, p)
         /\ PortWhenFull(r).anchor \in Stations \/ PortWhenFull(r).load = 0
<1>1. \/ PortWhenFull(r) = r
      \/ \E p \in Ports : PortWhenFull(r) = InsertPort(r, p)
  BY NodeTypes, NearestPortOfType DEF PortWhenFull
<1>2. \A p \in Ports : /\ InsertPort(r, p) \in RouteType
                       /\ InsertPort(r, p).visits = r.visits
                       /\ InsertPort(r, p).load = 0
  BY InsertPortRoute
<1> QED BY <1>1, <1>2

LEMMA RoamVisitKeepsInv ==
  ASSUME Inv, RoamVisit
  PROVE  Inv'
<1>1. CASE Fail  BY <1>1, FailKeepsInv
<1>2. ASSUME ~Fail PROVE Inv'
  <2>1. PICK x \in Fitting :
          /\ CanTraverse(route.at, x)
          /\ route' = PortWhenFull(Emit(route, x))
          /\ UNCHANGED <<given, pc, order, graph, verdict>>
    BY <1>2 DEF RoamVisit
  <2>2. /\ pc = "roam" /\ inst \in Instances /\ route \in RouteType /\ VisitsOnce(route)
    BY DEF RoamVisit, Inv, TypeOK, GraphType, VisitInv
  <2>3. x \in Stations /\ x \notin Served(route)  BY DEF Fitting, Waiting
  <2> DEFINE e == Emit(route, x)
  <2>4. /\ e \in RouteType /\ e.anchor = x
        /\ e.visits = Append(route.visits, [station |-> x, seg |-> Len(route.segs) + 1])
    BY <2>1, <2>2, <2>3, EmitRoute
  <2>5. route' = PortWhenFull(e)  BY <2>1
  <2> HIDE DEF e
  <2>6. VisitsOnce(e)  BY <2>2, <2>3, <2>4, VisitsGrow
  <2>7. /\ route' \in RouteType /\ route'.visits = e.visits
        /\ route'.anchor \in Stations \/ route'.load = 0
    BY <2>2, <2>3, <2>4, <2>5, PortWhenFullType
  <2>8. VisitsOnce(route')  BY <2>6, <2>7 DEF VisitsOnce
  <2> QED BY <2>1, <2>2, <2>7, <2>8, RoamStep
<1> QED BY <1>1, <1>2

LEMMA RoamPortKeepsInv ==
  ASSUME Inv, RoamPort
  PROVE  Inv'
<1>1. /\ pc = "roam" /\ inst \in Instances /\ route \in RouteType /\ VisitsOnce(route)
      /\ PortNext # NoNode /\ route' = InsertPort(route, PortNext)
      /\ UNCHANGED <<given, pc, order, graph, verdict>>
  BY DEF RoamPort, Inv, TypeOK, GraphType, VisitInv
<1>2. PortNext \in Ports
  <2>1. route.anchor \in Nodes \cup {NoNode}  BY <1>1 DEF RouteType
  <2> QED BY <1>1, <2>1, NearestPortOfType DEF PortNext
<1>3. /\ route' \in RouteType /\ route'.visits = route.visits /\ route'.load = 0
  BY <1>1, <1>2, InsertPortRoute
<1>4. VisitsOnce(route')  BY <1>1, <1>3 DEF VisitsOnce
<1> QED BY <1>1, <1>3, <1>4, RoamStep

(* With a complete matrix a boat at sea has nothing on board and any       *)
(* station fits: it is at a station that a port is looked for.             *)
LEMMA StuckAtStation ==
  ASSUME Inv, Complete, pc = "roam", Waiting(route) # {}, Fitting = {}
  PROVE  route.anchor \in Stations
<1> SUFFICES ASSUME route.anchor \notin Stations PROVE FALSE  OBVIOUS
<1>1. /\ inst \in Instances /\ route \in RouteType /\ route.load = 0
  BY DEF Inv, TypeOK, GraphType, RoamInv
<1>2. PICK x \in Stations : x \in Waiting(route)  BY DEF Waiting
<1>3. route.anchor \in Nodes \cup {NoNode}  BY <1>1 DEF RouteType
<1>4. ~Overfills(route, x)  BY <1>1 DEF Overfills
<1>5. Reach(x) > 0
  <2>1. CASE route.anchor = NoNode  BY <1>1, <2>1, CompleteFromBoat DEF Reach
  <2>2. CASE route.anchor # NoNode
    <3>1. route.anchor \in Nodes \ {x}  BY <1>3, <2>2
    <3> QED BY <1>1, <2>2, <3>1, CompletePairs DEF Reach
  <2> QED BY <2>1, <2>2
<1>6. x \in Fitting  BY <1>2, <1>4, <1>5 DEF Fitting
<1> QED BY <1>6

(* From there one is known, so it does not end early.                      *)
LEMMA RoamEndsServed ==
  ASSUME Inv, Complete, RoamEnd
  PROVE  Waiting(route) = {}
<1> SUFFICES ASSUME Waiting(route) # {}, Fitting = {}, PortNext = NoNode
             PROVE  FALSE
  BY DEF RoamEnd
<1>1. inst \in Instances /\ pc = "roam"
  BY DEF RoamEnd, Inv, TypeOK, GraphType
<1>2. route.anchor \in Stations  BY <1>1, StuckAtStation
<1>3. PICK p \in Ports : TRUE  BY DEF Complete
<1>4. route.anchor \in Nodes /\ p \in Nodes \ {route.anchor} /\ route.anchor # NoNode
  BY <1>2, NodeTypes
<1>5. MinPair(route.anchor, p) > 0  BY <1>1, <1>2, <1>4, CompletePairs
<1>6. NearestPortOf(route.anchor) \in Ports  BY <1>1, <1>4, <1>5, NearestPortOfType
<1> QED BY <1>4, <1>6, NodeTypes DEF PortNext

LEMMA RoamEndKeepsInv ==
  ASSUME Inv, RoamEnd
  PROVE  Inv'
<1>1. /\ pc = "roam" /\ inst \in Instances /\ route \in RouteType /\ VisitsOnce(route)
      /\ route' = WithTotal(Flushed(route)) /\ pc' = "check"
      /\ UNCHANGED <<given, order, graph, verdict>> /\ Roams(method, output)
  BY DEF RoamEnd, Inv, TypeOK, GraphType, VisitInv, PhaseInv
<1>2. route' \in RouteType /\ route'.visits = route.visits
  BY <1>1, FlushType
<1>3. GraphInv' /\ GraphType'  BY <1>1, GraphUnchanged DEF Inv, GraphInv
<1>4. TypeOK'  BY <1>1, <1>2, <1>3 DEF Inv, TypeOK, given
<1>5. Complete' <=> Complete  BY <1>1, CompleteSame DEF given
<1>6. VisitsOnce(route)' /\ Waiting(route)' = Waiting(route)
  BY <1>1, <1>2 DEF VisitsOnce, Waiting, Served
<1>7. Roams(method, output)'  BY <1>1 DEF Roams, given
<1>8. PhaseInv' /\ RoamInv'  BY <1>1, <1>7 DEF PhaseInv, RoamInv
<1>9. VisitInv'
  BY <1>5, <1>6, <1>7, RoamEndsServed DEF VisitInv
<1> QED BY <1>3, <1>4, <1>8, <1>9 DEF Inv

LEMMA NextInv ==
  ASSUME Inv, [Next]_vars
  PROVE  Inv'
<1>1. CASE Fail  BY <1>1, FailKeepsInv
<1>2. CASE OutOfMemory \/ PostOptFails
  BY <1>2, FailKeepsInv DEF OutOfMemory, PostOptFails
<1>3. CASE NextNearest  BY <1>3, NearestKeepsInv
<1>4. CASE ScanPair  BY <1>4, ScanKeepsInv
<1>5. CASE EndEdges  BY <1>5, EndEdgesKeepsInv
<1>6. CASE StartCycle  BY <1>6, StartCycleKeepsInv
<1>7. CASE InsertCheapest  BY <1>7, InsertKeepsInv
<1>8. CASE EndInsert  BY <1>8, EndInsertKeepsInv
<1>9. CASE Follow \/ FollowGE \/ FollowCI
  BY <1>9, FollowKeepsInv DEF Follow, FollowGE, FollowCI
<1>10. CASE EndFollow  BY <1>10, EndFollowKeepsInv
<1>11. CASE EmitGE  BY <1>11, EmitGEKeepsInv
<1>12. CASE EmitCI  BY <1>12, EmitCIKeepsInv
<1>13. CASE FlushGE \/ FlushCI  BY <1>13, FlushKeepsInv
<1>14. CASE RoamVisit  BY <1>14, RoamVisitKeepsInv
<1>15. CASE RoamPort  BY <1>15, RoamPortKeepsInv
<1>16. CASE RoamEnd  BY <1>16, RoamEndKeepsInv
<1>17. CASE Check  BY <1>17, CheckKeepsInv
<1>18. CASE UNCHANGED vars  BY <1>18, StutterKeepsInv
<1> QED BY <1>1, <1>2, <1>3, <1>4, <1>5, <1>6, <1>7, <1>8, <1>9, <1>10, <1>11, <1>12,
           <1>13, <1>14, <1>15, <1>16, <1>17, <1>18 DEF Next, Work

(* At every step of every heuristic the data have their types, the links   *)
(* and fragments of greedy edge describe a graph, an order holds a station *)
(* once, and the visits of a route follow the order that is laid out.      *)
THEOREM InvAlways == Spec => []Inv
<1>1. Init => Inv  BY InitInv
<1>2. Inv /\ [Next]_vars => Inv'  BY NextInv
<1> QED BY <1>1, <1>2, PTL DEF Spec

LEMMA InvVisits == Inv => VisitedOnce
<1> SUFFICES ASSUME Inv PROVE VisitedOnce  OBVIOUS
<1>1. route \in RouteType /\ order \in Seq(Stations)  BY DEF Inv, TypeOK
<1>2. IsInjective([k \in DOMAIN route.visits |-> route.visits[k].station])
  BY DEF Inv, VisitInv, VisitsOnce
<1>3. Solved /\ ~Roams(method, output) => Served(route) = Stations
  BY <1>1, AllServed DEF Inv, VisitInv
<1>4. Solved /\ Complete => Served(route) = Stations
  <2>1. Served(route) \subseteq Stations  BY <1>1, VisitsType
  <2> QED BY <1>3, <2>1 DEF Inv, VisitInv, Waiting
<1> QED BY <1>2, <1>3, <1>4 DEF VisitedOnce

(* No route ever visits a station twice. One that is solved along an order *)
(* visits them all, and so does nearest neighbour with ports where the     *)
(* matrix is complete.                                                     *)
THEOREM AllVisitedOnce == Spec => []VisitedOnce
<1>1. Inv => VisitedOnce  BY InvVisits
<1> QED BY InvAlways, PTL, <1>1

-----------------------------------------------------------------------------
(* The length of the cycle of cheapest insertion. *)

Around(s, k) == 1 + (k % Len(s))
Hops(s) == [k \in DOMAIN s |-> MinPair(s[k], s[Around(s, k)])]

LEMMA AroundType ==
  ASSUME NEW s \in Seq(Stations), NEW k \in 1 .. Len(s)
  PROVE  /\ Around(s, k) \in 1 .. Len(s)
         /\ Around(s, k) = IF k = Len(s) THEN 1 ELSE k + 1
<1> DEFINE n == Len(s)
<1>1. n \in Nat /\ k \in Nat /\ n >= 1  BY LenProperties
<1>2. k % n = IF k = n THEN 0 ELSE k  BY <1>1
<1> QED BY <1>1, <1>2 DEF Around

LEMMA CycleMilesIsTotal ==
  ASSUME inst \in Instances, NEW s \in Seq(Stations)
  PROVE  /\ CycleMiles(s) = Total(Hops(s), 1 .. Len(s))
         /\ \A k \in 1 .. Len(s) : /\ Hops(s)[k] = MinPair(s[k], s[Around(s, k)])
                                   /\ Hops(s)[k] \in Int
<1>1. DOMAIN s = 1 .. Len(s) /\ \A k \in 1 .. Len(s) : s[k] \in Nodes
  BY OrderType, NodeTypes
<1>2. CycleMiles(s) = Total(Hops(s), 1 .. Len(s))
  BY <1>1, FoldOnSetIsTotal DEF CycleMiles, Hops, Around
<1>3. \A k \in 1 .. Len(s) : Hops(s)[k] = MinPair(s[k], s[Around(s, k)])
  BY <1>1 DEF Hops
<1>4. ASSUME NEW k \in 1 .. Len(s) PROVE Hops(s)[k] \in Int
  <2>1. Around(s, k) \in 1 .. Len(s)  BY AroundType
  <2> QED BY <1>1, <1>3, <2>1, MinPairType
<1> QED BY <1>2, <1>3, <1>4

LEMMA TotalSplit ==
  ASSUME NEW f, NEW m \in Int, NEW n \in Int, NEW k \in Int, m - 1 <= k, k <= n,
         \A i \in m .. n : f[i] \in Int
  PROVE  /\ Total(f, m .. n) = Total(f, m .. k) + Total(f, k + 1 .. n)
         /\ Total(f, m .. k) \in Int /\ Total(f, k + 1 .. n) \in Int
<1> DEFINE R == m .. k
           S == k + 1 .. n
<1>1. IsFiniteSet(R) /\ IsFiniteSet(S)  BY FS_Interval
<1>2. R \cup S = m .. n /\ R \cap S = {}  OBVIOUS
<1>3. \A i \in R \cup S : f[i] \in Int  BY <1>2
<1> HIDE DEF R, S
<1>4. Total(f, R \cup S) = Total(f, R) + Total(f, S)
  BY <1>1, <1>2, <1>3, TotalUnion
<1>5. Total(f, R) \in Int /\ Total(f, S) \in Int
  BY <1>1, <1>3, TotalRemove
<1> QED BY <1>2, <1>4, <1>5 DEF R, S

LEMMA TotalFirst ==
  ASSUME NEW f, NEW n \in Nat, n >= 1, \A i \in 1 .. n : f[i] \in Int
  PROVE  Total(f, 1 .. n) = f[1] + Total(f, 2 .. n) /\ Total(f, 2 .. n) \in Int
<1> DEFINE S == 1 .. n
<1>0. IsFiniteSet(S)  BY FS_Interval
<1>1. IsFiniteSet(S) /\ 1 \in S /\ S \ {1} = 2 .. n /\ \A i \in S : f[i] \in Int
  BY <1>0
<1> HIDE DEF S
<1>2. Total(f, S) = f[1] + Total(f, S \ {1})  BY <1>1, TotalRemove
<1>3. Total(f, S \ {1}) \in Int
  <2>1. IsFiniteSet(S \ {1}) /\ \A i \in S \ {1} : f[i] \in Int
    BY <1>1, FS_RemoveElement
  <2> QED BY <2>1, TotalRemove
<1> QED BY <1>1, <1>2, <1>3 DEF S

LEMMA TotalMovedOn ==
  ASSUME NEW f, NEW g, NEW m \in Int, NEW n \in Int, NEW a, NEW b, a = m + 1, b = n + 1,
         \A i \in m .. n : f[i] \in Int /\ g[i + 1] = f[i]
  PROVE  Total(g, a .. b) = Total(f, m .. n)
<1> DEFINE k == 1
<1>1. k \in Int /\ a = m + k /\ b = n + k
      /\ \A i \in m .. n : f[i] \in Int /\ g[i + k] = f[i]
  OBVIOUS
<1> HIDE DEF k
<1>2. Total(g, m + k .. n + k) = Total(f, m .. n)
  BY <1>1, TotalMoved
<1> QED BY <1>1, <1>2

(* One value of f is replaced by two of g, the others stay as they are. *)
LEMMA TotalReplaced ==
  ASSUME NEW f, NEW g, NEW n \in Nat, NEW j \in 1 .. n,
         \A i \in 1 .. n : f[i] \in Int,
         \A i \in 1 .. n + 1 : g[i] \in Int,
         \A i \in 1 .. j - 1 : g[i] = f[i],
         \A i \in j + 1 .. n : g[i + 1] = f[i]
  PROVE  Total(g, 1 .. n + 1) = Total(f, 1 .. n) - f[j] + g[j] + g[j + 1]
<1>0. j \in Int /\ n \in Int /\ 1 <= j /\ j <= n  OBVIOUS
<1>1. /\ Total(f, 1 .. n) = Total(f, 1 .. j) + Total(f, j + 1 .. n)
      /\ Total(f, 1 .. j) \in Int /\ Total(f, j + 1 .. n) \in Int
  BY <1>0, TotalSplit
<1>2. Total(f, 1 .. j) = f[j] + Total(f, 1 .. j - 1)
  <2>1. \A i \in 1 .. j : f[i] \in Int  BY <1>0
  <2> QED BY <1>0, <2>1, TotalLast
<1>3. /\ Total(g, 1 .. n + 1) = Total(g, 1 .. j + 1) + Total(g, (j + 1) + 1 .. n + 1)
      /\ Total(g, 1 .. j + 1) \in Int /\ Total(g, (j + 1) + 1 .. n + 1) \in Int
  <2>1. n + 1 \in Int /\ j + 1 \in Int /\ 1 - 1 <= j + 1 /\ j + 1 <= n + 1  BY <1>0
  <2> QED BY <2>1, TotalSplit
<1>4. Total(g, 1 .. j + 1) = g[j + 1] + Total(g, 1 .. j)
  <2>1. \A i \in 1 .. j + 1 : g[i] \in Int  BY <1>0
  <2>2. Total(g, 1 .. j + 1) = g[j + 1] + Total(g, 1 .. (j + 1) - 1)
    BY <1>0, <2>1, TotalLast
  <2>3. (j + 1) - 1 = j  BY <1>0
  <2> QED BY <2>2, <2>3
<1>5. Total(g, 1 .. j) = g[j] + Total(g, 1 .. j - 1)
  <2>1. \A i \in 1 .. j : g[i] \in Int  BY <1>0
  <2> QED BY <1>0, <2>1, TotalLast
<1>6. Total(g, 1 .. j - 1) = Total(f, 1 .. j - 1) /\ Total(f, 1 .. j - 1) \in Int
  <2>1. IsFiniteSet(1 .. j - 1)  BY <1>0, FS_Interval
  <2>2. \A i \in 1 .. j - 1 : f[i] \in Int /\ g[i] = f[i]  BY <1>0
  <2> QED BY <2>1, <2>2, TotalSame, TotalRemove
<1>7. Total(g, (j + 1) + 1 .. n + 1) = Total(f, j + 1 .. n)
  <2>1. \A i \in j + 1 .. n : f[i] \in Int /\ g[i + 1] = f[i]  BY <1>0
  <2>2. PICK p \in Int : p = j + 1  BY <1>0
  <2>3. PICK a \in Int : a = p + 1  OBVIOUS
  <2>4. PICK b \in Int : b = n + 1  BY <1>0
  <2>5. \A i \in p .. n : f[i] \in Int /\ g[i + 1] = f[i]
    BY <2>1, <2>2
  <2>7. n \in Int /\ a = p + 1 /\ b = n + 1  BY <1>0, <2>3, <2>4
  <2>6. Total(g, a .. b) = Total(f, p .. n)
    BY <2>5, <2>7, TotalMovedOn
  <2> QED BY <2>2, <2>3, <2>4, <2>6
<1>8. f[j] \in Int /\ g[j] \in Int /\ g[j + 1] \in Int  BY <1>0
<1> DEFINE F == Total(f, 1 .. n)
           G == Total(g, 1 .. n + 1)
           F1 == Total(f, 1 .. j - 1)
           F2 == Total(f, j + 1 .. n)
           x == f[j]
           y == g[j]
           z == g[j + 1]
<1>9. F = (x + F1) + F2 /\ G = (z + (y + F1)) + F2
  BY <1>1, <1>2, <1>3, <1>4, <1>5, <1>6, <1>7
<1>10. F1 \in Int /\ F2 \in Int /\ x \in Int /\ y \in Int /\ z \in Int
  BY <1>1, <1>6, <1>8
<1>11. G = F - x + y + z
  <2> HIDE DEF F, G, F1, F2, x, y, z
  <2> QED BY <1>9, <1>10
<1> QED BY <1>11

(* What an insertion adds. *)
Between(s, k) == IF k = 1 THEN Len(s) ELSE k - 1
Added(s, u, j) ==
  MinPair(s[j], u) + MinPair(u, s[Around(s, j)]) - MinPair(s[j], s[Around(s, j)])

LEMMA InsertedMiles ==
  ASSUME inst \in Instances, NEW s \in Seq(Stations), Len(s) >= 1,
         NEW k \in 1 .. Len(s) + 1, NEW u \in Stations
  PROVE  /\ CycleMiles(Inserted(s, k, u)) = CycleMiles(s) + Added(s, u, Between(s, k))
         /\ CycleMiles(s) \in Int
<1> DEFINE n == Len(s)
           t == Inserted(s, k, u)
           j == Between(s, k)
           f == Hops(s)
           g == Hops(t)
<1>0. n \in Nat /\ n >= 1 /\ k \in Nat /\ k >= 1 /\ k <= n + 1
  BY LenProperties
<1>1. /\ t \in Seq(Stations) /\ Len(t) = n + 1
      /\ \A i \in 1 .. n + 1 : t[i] =
              IF i < k THEN s[i] ELSE IF i = k THEN u ELSE s[i - 1]
  <2> SUFFICES /\ Inserted(s, k, u) \in Seq(Stations)
               /\ Len(Inserted(s, k, u)) = Len(s) + 1
               /\ \A i \in 1 .. Len(s) + 1 : Inserted(s, k, u)[i] =
                    IF i < k THEN s[i] ELSE IF i = k THEN u ELSE s[i - 1]
    OBVIOUS
  <2> QED BY ONLY InsertedProperties, s \in Seq(Stations), k \in 1 .. Len(s) + 1,
                  u \in Stations, ZenonT(30)
<1>2. j \in 1 .. n /\ j \in Nat /\ j = IF k = 1 THEN n ELSE k - 1
  BY <1>0 DEF Between
<1>3. /\ CycleMiles(s) = Total(f, 1 .. n)
      /\ \A i \in 1 .. n : f[i] = MinPair(s[i], s[Around(s, i)]) /\ f[i] \in Int
  BY CycleMilesIsTotal
<1>4. /\ CycleMiles(t) = Total(g, 1 .. n + 1)
      /\ \A i \in 1 .. n + 1 : g[i] = MinPair(t[i], t[Around(t, i)]) /\ g[i] \in Int
  <2> HIDE DEF t
  <2> QED BY <1>1, CycleMilesIsTotal
<1>5. \A i \in 1 .. n : Around(s, i) = (IF i = n THEN 1 ELSE i + 1)
                        /\ Around(s, i) \in 1 .. n
  BY AroundType
<1>6. \A i \in 1 .. n + 1 : Around(t, i) = IF i = n + 1 THEN 1 ELSE i + 1
  <2> HIDE DEF t
  <2> QED BY <1>1, AroundType
<1>7. Total(f, 1 .. n) \in Int /\ f[j] \in Int
  <2>1. IsFiniteSet(1 .. n)  BY <1>0, FS_Interval
  <2>2. \A i \in 1 .. n : f[i] \in Int  BY <1>3
  <2> HIDE DEF f, j
  <2> QED BY <1>2, <2>1, <2>2, TotalRemove
<1> DEFINE a == MinPair(s[j], u)
           b == MinPair(u, s[Around(s, j)])
<1>8. a \in Int /\ b \in Int
  <2>1. s[j] \in Nodes /\ s[Around(s, j)] \in Nodes /\ u \in Nodes
    BY <1>2, <1>5, OrderType, NodeTypes
  <2> QED BY <2>1, MinPairType
<1> HIDE DEF t, f, g
<1>9. Total(g, 1 .. n + 1) = Total(f, 1 .. n) - f[j] + a + b
  <2>1. CASE k = 1
    <3>0. j = n /\ Around(s, n) = 1  BY <1>0, <1>2, <1>5, <2>1
    <3>1. /\ t[1] = u
          /\ \A i \in 1 .. n : t[i + 1] = s[i]
      <4>1. 1 \in 1 .. n + 1 /\ \A i \in 1 .. n :
              i + 1 \in 1 .. n + 1 /\ ~(i + 1 < 1) /\ i + 1 # 1 /\ (i + 1) - 1 = i
        BY <1>0
      <4> QED BY <1>1, <2>1, <4>1
    <3>2. g[1] = b
      <4>1. 1 \in 1 .. n + 1 /\ 1 # n + 1 /\ 1 \in 1 .. n  BY <1>0
      <4>2. Around(t, 1) = 1 + 1  BY <1>6, <4>1
      <4> QED BY <1>4, <3>0, <3>1, <4>1, <4>2
    <3>3. g[n + 1] = a
      <4>1. n + 1 \in 1 .. n + 1 /\ n \in 1 .. n  BY <1>0
      <4>2. Around(t, n + 1) = 1  BY <1>6, <4>1
      <4> QED BY <1>4, <3>0, <3>1, <4>1, <4>2
    <3>4. ASSUME NEW i \in 1 .. n - 1 PROVE g[i + 1] = f[i]
      <4>1. i \in 1 .. n /\ i # n /\ i + 1 \in 1 .. n + 1 /\ i + 1 # n + 1 /\ i + 1 \in 1 .. n
        BY <1>0
      <4>2. Around(t, i + 1) = (i + 1) + 1 /\ Around(s, i) = i + 1
        BY <1>5, <1>6, <4>1
      <4>3. t[i + 1] = s[i] /\ t[(i + 1) + 1] = s[i + 1]  BY <3>1, <4>1
      <4> QED BY <1>3, <1>4, <4>1, <4>2, <4>3
    <3>5. Total(g, 1 .. n + 1) = g[n + 1] + Total(g, 1 .. n)
      <4>1. Total(g, 1 .. n + 1) = g[n + 1] + Total(g, 1 .. (n + 1) - 1)
        <5>1. n + 1 \in Int /\ 1 <= n + 1 /\ \A i \in 1 .. n + 1 : g[i] \in Int
          BY <1>0, <1>4
        <5> QED BY <5>1, TotalLast
      <4>2. (n + 1) - 1 = n  BY <1>0
      <4> QED BY <4>1, <4>2
    <3>6. Total(g, 1 .. n) = g[1] + Total(g, 2 .. n) /\ Total(g, 2 .. n) \in Int
      <4>1. \A i \in 1 .. n : g[i] \in Int  BY <1>0, <1>4
      <4> QED BY <1>0, <4>1, TotalFirst
    <3>8. Total(g, 2 .. n) = Total(f, 1 .. n - 1)
      <4> DEFINE p == n - 1
      <4>1. p \in Int /\ 2 = 1 + 1 /\ n = p + 1 /\ 1 \in Int
            /\ \A i \in 1 .. p : f[i] \in Int /\ g[i + 1] = f[i]
        BY <1>0, <1>3, <3>4
      <4> HIDE DEF p, f, g, n
      <4>2. Total(g, 2 .. n) = Total(f, 1 .. p)
        BY ONLY <4>1, TotalMovedOn
      <4> QED BY <4>2 DEF p
    <3>9. Total(f, 1 .. n) = f[n] + Total(f, 1 .. n - 1)
      BY <1>0, <1>3, TotalLast
    <3> DEFINE F == Total(f, 1 .. n)
               G == Total(g, 1 .. n + 1)
               H == Total(g, 2 .. n)
               x == f[j]
    <3>10. G = a + (b + H) /\ F = x + H
      BY <3>0, <3>2, <3>3, <3>5, <3>6, <3>8, <3>9
    <3>11. H \in Int /\ x \in Int /\ F \in Int  BY <1>7, <3>6
    <3>13. a \in Int /\ b \in Int  BY <1>8
    <3> HIDE DEF a, b, F, G, H, x
    <3>12. G = F - x + a + b  BY ONLY <3>10, <3>11, <3>13
    <3> QED BY <3>12 DEF F, G, x
  <2>2. CASE k # 1
    <3>0. j = k - 1 /\ k = j + 1 /\ j \in 1 .. n  BY <1>0, <1>2, <2>2
    <3>1. /\ \A i \in 1 .. j : t[i] = s[i]
          /\ t[j + 1] = u
          /\ \A i \in j + 1 .. n : t[i + 1] = s[i]
      <4>1. \A i \in 1 .. j : i \in 1 .. n + 1 /\ i < k  BY <1>0, <3>0
      <4>2. j + 1 \in 1 .. n + 1 /\ ~(j + 1 < k) /\ j + 1 = k  BY <1>0, <3>0
      <4>3. \A i \in j + 1 .. n : i + 1 \in 1 .. n + 1 /\ ~(i + 1 < k) /\ i + 1 # k
                                  /\ (i + 1) - 1 = i
        BY <1>0, <3>0
      <4> HIDE DEF j
      <4> QED BY <1>1, <4>1, <4>2, <4>3
    <3>2. t[1] = s[1]  BY <1>2, <3>1
    <3>3. ASSUME NEW i \in 1 .. j - 1 PROVE g[i] = f[i]
      <4>1. i \in 1 .. n /\ i # n /\ i \in 1 .. n + 1 /\ i # n + 1 /\ i \in 1 .. j
            /\ i + 1 \in 1 .. j
        BY <1>0, <1>2
      <4>2. Around(t, i) = i + 1 /\ Around(s, i) = i + 1  BY <1>5, <1>6, <4>1
      <4>3. t[i] = s[i] /\ t[i + 1] = s[i + 1]  BY <3>1, <4>1
      <4> QED BY <1>3, <1>4, <4>1, <4>2, <4>3
    <3>4. g[j] = a
      <4>1. j \in 1 .. n + 1 /\ j # n + 1 /\ j \in 1 .. j  BY <1>0, <1>2
      <4>2. Around(t, j) = j + 1  BY <1>6, <4>1
      <4> QED BY <1>4, <3>1, <4>1, <4>2
    <3>5. g[j + 1] = b
      <4>1. CASE j = n
        <5>1. j + 1 \in 1 .. n + 1 /\ j + 1 = n + 1 /\ n \in 1 .. n  BY <1>0, <4>1
        <5>2. Around(t, j + 1) = 1 /\ Around(s, j) = 1  BY <1>5, <1>6, <4>1, <5>1
        <5> QED BY <1>4, <3>1, <3>2, <5>1, <5>2
      <4>2. CASE j # n
        <5>1. /\ j + 1 \in 1 .. n + 1 /\ j + 1 # n + 1 /\ j + 1 \in j + 1 .. n
          BY <1>0, <1>2, <4>2
        <5>2. Around(t, j + 1) = (j + 1) + 1 /\ Around(s, j) = j + 1
          BY <1>2, <1>5, <1>6, <4>2, <5>1
        <5>3. t[(j + 1) + 1] = s[j + 1]  BY <3>1, <5>1
        <5> QED BY <1>4, <3>1, <5>1, <5>2, <5>3
      <4> QED BY <4>1, <4>2
    <3>6. ASSUME NEW i \in j + 1 .. n PROVE g[i + 1] = f[i]
      <4>1. i \in 1 .. n /\ i + 1 \in 1 .. n + 1 /\ t[i + 1] = s[i]
        BY <1>0, <1>2, <3>1
      <4>2. CASE i = n
        <5>1. Around(t, i + 1) = 1 /\ Around(s, i) = 1  BY <1>5, <1>6, <4>1, <4>2
        <5> QED BY <1>3, <1>4, <3>2, <4>1, <5>1
      <4>3. CASE i # n
        <5>1. i + 1 # n + 1 /\ i + 1 \in j + 1 .. n  BY <1>0, <1>2, <4>3
        <5>2. Around(t, i + 1) = (i + 1) + 1 /\ Around(s, i) = i + 1
          BY <1>5, <1>6, <4>1, <4>3, <5>1
        <5>3. t[(i + 1) + 1] = s[i + 1]  BY <3>1, <5>1
        <5> QED BY <1>3, <1>4, <4>1, <5>2, <5>3
      <4> QED BY <4>2, <4>3
    <3>7. \A i \in 1 .. n : f[i] \in Int  BY <1>3
    <3>8. \A i \in 1 .. n + 1 : g[i] \in Int  BY <1>4
    <3>9. Total(g, 1 .. n + 1) = Total(f, 1 .. n) - f[j] + g[j] + g[j + 1]
      <4>1. /\ n \in Nat /\ j \in 1 .. n
            /\ \A i \in 1 .. n : f[i] \in Int
            /\ \A i \in 1 .. n + 1 : g[i] \in Int
            /\ \A i \in 1 .. j - 1 : g[i] = f[i]
            /\ \A i \in j + 1 .. n : g[i + 1] = f[i]
        BY <1>0, <1>2, <3>3, <3>6, <3>7, <3>8
      <4> HIDE DEF j, n, f, g
      <4> QED BY ONLY <4>1, TotalReplaced, SMTT(60)
    <3> QED BY <3>4, <3>5, <3>9
  <2> QED BY <2>1, <2>2
<1>10. Added(s, u, j) = a + b - f[j]
  BY <1>2, <1>3 DEF Added
<1> HIDE DEF a, b, j
<1>11. CycleMiles(t) = CycleMiles(s) + Added(s, u, j)
  BY <1>3, <1>4, <1>7, <1>8, <1>9, <1>10
<1> QED BY <1>3, <1>7, <1>11 DEF t, j

LEMMA LongerInsertion ==
  ASSUME Inv, [Next]_vars, pc = "insert", order # <<>>, Len(order') > Len(order)
  PROVE  \E c \in Insertions :
           Cheapest(c) /\ order' = Inserted(order, After(c[2]), c[1])
<1>1. order' # order
  <2>1. Len(order) \in Nat  BY LenProperties DEF Inv, TypeOK
  <2> QED BY <2>1
<1>2. ~Fail  BY <1>1 DEF Fail
<1>3. InsertCheapest
  <2>1. ~NextNearest /\ ~ScanPair /\ ~EndEdges
    BY DEF NextNearest, ScanPair, EndEdges
  <2>2. ~Follow /\ ~FollowGE /\ ~FollowCI /\ ~EndFollow
    BY DEF Follow, FollowGE, FollowCI, FollowNext, EndFollow
  <2>3. ~EmitGE /\ ~EmitCI /\ ~FlushGE /\ ~FlushCI
    BY DEF EmitGE, EmitCI, FlushGE, FlushCI
  <2>4. ~RoamVisit /\ ~RoamPort /\ ~RoamEnd /\ ~Check
    BY DEF RoamVisit, RoamPort, RoamEnd, Check
  <2>5. ~StartCycle /\ ~EndInsert /\ ~OutOfMemory /\ ~PostOptFails
    BY <1>1, <1>2 DEF StartCycle, EndInsert, OutOfMemory, PostOptFails
  <2>6. ~UNCHANGED vars  BY <1>1 DEF vars
  <2> QED BY <2>1, <2>2, <2>3, <2>4, <2>5, <2>6 DEF Next, Work
<1> QED BY <1>2, <1>3 DEF InsertCheapest

LEMMA MaxOfPositive ==
  ASSUME NEW m \in Int, m > 0
  PROVE  Max({m, 0}) = m
<1>1. \E x \in {m, 0} : \A y \in {m, 0} : x >= y  OBVIOUS
<1>2. Max({m, 0}) \in {m, 0} /\ \A y \in {m, 0} : Max({m, 0}) >= y
  BY <1>1 DEF Max
<1> QED BY <1>2

(* With a complete matrix what the code computes is what an insertion adds. *)
LEMMA DeltaIsAdded ==
  ASSUME Inv, Complete, pc = "insert", Len(order) >= 2,
         NEW u \in Stations \ Ordered, NEW j \in DOMAIN order
  PROVE  /\ <<u, j>> \in Insertions
         /\ Delta(u, j) = Added(order, u, j)
         /\ Delta(u, j) \in Int
<1>1. /\ inst \in Instances /\ order \in Seq(Stations) /\ IsInjective(order)
      /\ Len(order) \in Nat /\ DOMAIN order = 1 .. Len(order)
  BY LenProperties DEF Inv, TypeOK, GraphType, PhaseInv
<1>2. /\ After(j) = Around(order, j) /\ After(j) \in DOMAIN order /\ After(j) # j
  <2>1. After(j) \in 1 .. Len(order) /\ After(j) = IF j = Len(order) THEN 1 ELSE j + 1
    BY <1>1, AfterType
  <2> QED BY <1>1, <2>1 DEF After, Around
<1>3. /\ order[j] \in Stations /\ order[After(j)] \in Stations
      /\ order[j] # order[After(j)] /\ order[j] # u /\ order[After(j)] # u
      /\ u \in Stations
  BY <1>1, <1>2, OrderType DEF IsInjective, Ordered
<1>4. /\ u \in Nodes /\ order[j] \in Nodes /\ order[After(j)] \in Nodes
  BY <1>3, NodeTypes
<1>5. /\ MinPair(order[j], u) > 0 /\ MinPair(u, order[After(j)]) > 0
      /\ MinPair(order[j], order[After(j)]) > 0
  BY <1>1, <1>3, <1>4, CompletePairs
<1>6. /\ MinPair(order[j], u) \in Int /\ MinPair(u, order[After(j)]) \in Int
      /\ MinPair(order[j], order[After(j)]) \in Int
  BY <1>1, <1>4, MinPairType
<1>7. Max({MinPair(order[j], order[After(j)]), 0}) = MinPair(order[j], order[After(j)])
  BY <1>5, <1>6, MaxOfPositive
<1>8. <<u, j>> \in Insertions
  BY <1>5, <1>6 DEF Insertions
<1> QED BY <1>2, <1>6, <1>7, <1>8 DEF Delta, Added

LEMMA InsertionIsCheapest ==
  ASSUME Inv, [Next]_vars, pc = "insert", Len(order) >= 2, Len(order') > Len(order),
         Complete, NEW u \in Stations \ Ordered, NEW k \in 1 .. Len(order) + 1
  PROVE  CycleMiles(order') <= CycleMiles(Inserted(order, k, u))
<1>1. /\ inst \in Instances /\ order \in Seq(Stations)
      /\ Len(order) \in Nat /\ DOMAIN order = 1 .. Len(order)
  BY LenProperties DEF Inv, TypeOK, GraphType
<1>2. PICK c \in Insertions :
           Cheapest(c) /\ order' = Inserted(order, After(c[2]), c[1])
  <2>1. order # <<>>  BY <1>1
  <2> QED BY <2>1, LongerInsertion
<1>3. c[1] \in Stations \ Ordered /\ c[2] \in DOMAIN order /\ c = <<c[1], c[2]>>
  BY DEF Insertions
<1> DEFINE p == After(c[2])
           j == Between(order, k)
<1>4. p \in 1 .. Len(order) + 1 /\ Between(order, p) = c[2]
  <2>1. p \in 1 .. Len(order) /\ p = IF c[2] = Len(order) THEN 1 ELSE c[2] + 1
    BY <1>1, <1>3, AfterType
  <2>2. c[2] \in 1 .. Len(order)  BY <1>1, <1>3
  <2> HIDE DEF p
  <2> QED BY <1>1, <2>1, <2>2 DEF Between
<1>5. j \in DOMAIN order  BY <1>1 DEF Between
<1>6. /\ CycleMiles(order') = CycleMiles(order) + Added(order, c[1], c[2])
      /\ CycleMiles(order) \in Int
  <2>1. Len(order) >= 1 /\ c[1] \in Stations  BY <1>1, <1>3
  <2> HIDE DEF p
  <2>2. CycleMiles(Inserted(order, p, c[1])) = CycleMiles(order) + Added(order, c[1], Between(order, p))
        /\ CycleMiles(order) \in Int
    BY <1>1, <1>4, <2>1, InsertedMiles
  <2> QED BY <1>2, <1>4, <2>2 DEF p
<1>7. CycleMiles(Inserted(order, k, u)) = CycleMiles(order) + Added(order, u, j)
  <2>1. Len(order) >= 1 /\ u \in Stations  BY <1>1
  <2> QED BY <1>1, <2>1, InsertedMiles
<1> HIDE DEF j, p
<1>8. /\ Delta(c[1], c[2]) = Added(order, c[1], c[2]) /\ Delta(c[1], c[2]) \in Int
  BY <1>3, DeltaIsAdded
<1>9. /\ <<u, j>> \in Insertions
      /\ Delta(u, j) = Added(order, u, j) /\ Delta(u, j) \in Int
  BY <1>5, DeltaIsAdded
<1>10. Delta(c[1], c[2]) <= Delta(u, j)
  <2>1. CASE <<u, j>> = c
    <3>1. c[1] = u /\ c[2] = j  BY <1>3, <2>1
    <3> QED BY <1>8, <3>1
  <2>2. CASE <<u, j>> # c
    <3>1. LET d == <<u, j>>
          IN  \/ Delta(c[1], c[2]) < Delta(d[1], d[2])
              \/ /\ Delta(c[1], c[2]) = Delta(d[1], d[2])
                 /\ c[1] < d[1] \/ (c[1] = d[1] /\ c[2] < d[2])
      BY <1>2, <1>9, <2>2 DEF Cheapest
    <3> QED BY <1>8, <1>9, <3>1
  <2> QED BY <2>1, <2>2
<1> QED BY <1>6, <1>7, <1>8, <1>9, <1>10

(* Each insertion into the cycle makes it longer by no more than any other *)
(* station at any other place would.                                       *)
THEOREM InsertsAlwaysCheapest == Spec => InsertsCheapest
<1>1. ASSUME Inv, [Next]_vars
      PROVE  [pc = "insert" /\ Len(order) >= 2 /\ Len(order') > Len(order) /\ Complete =>
                \A u \in Stations \ Ordered, k \in 1 .. Len(order) + 1 :
                  CycleMiles(order') <= CycleMiles(Inserted(order, k, u))]_order
  BY <1>1, InsertionIsCheapest
<1> QED BY <1>1, InvAlways, PTL DEF Spec, InsertsCheapest

-----------------------------------------------------------------------------
(* Greedy edge closes the cycle. *)

Ends2(c, u, v) ==
  /\ comp[u] = c /\ comp[v] = c
  /\ \A y \in Stations : comp[y] = c =>
       Degree[y] = 2 - (IF y = u THEN 1 ELSE 0) - (IF y = v THEN 1 ELSE 0)

(* As long as a link is missing every component is a path, with two ends   *)
(* that are one when it has no link.                                       *)
PathEnds ==
  Used < NumStations =>
    \A c \in Components : \E u, v \in Stations : Ends2(c, u, v)

(* A pair is passed over when one of its stations has its two links, or    *)
(* when it would close a cycle too early; by the time it would not, one of *)
(* its stations has got its second link.                                   *)
PassedOver ==
  Used < NumStations =>
    \A u, v \in Stations : u < v /\ <<u, v>> \notin rest =>
      \/ Linked(u, v)
      \/ Degree[u] = 2
      \/ Degree[v] = 2
      \/ comp[u] = comp[v] /\ Used < NumStations - 1

GreedyInv == PathEnds /\ (Complete => PassedOver)

LEMMA OpenEnds ==
  ASSUME GraphInv, NEW c, NEW u \in Stations, NEW v \in Stations, Ends2(c, u, v)
  PROVE  /\ \A y \in Stations : comp[y] = c => (Degree[y] < 2 <=> y \in {u, v})
         /\ u # v => Degree[u] = 1 /\ Degree[v] = 1
         /\ u = v => Degree[u] = 0
<1>1. comp[u] = c /\ comp[v] = c  BY DEF Ends2
<1>2. \A y \in Stations : comp[y] = c =>
       Degree[y] = 2 - (IF y = u THEN 1 ELSE 0) - (IF y = v THEN 1 ELSE 0)
  BY DEF Ends2
<1>3. ASSUME NEW y \in Stations, comp[y] = c PROVE Degree[y] < 2 <=> y \in {u, v}
  <2>1. Degree[y] = 2 - (IF y = u THEN 1 ELSE 0) - (IF y = v THEN 1 ELSE 0)
    BY <1>2, <1>3
  <2> QED BY <2>1
<1>4. u # v => Degree[u] = 1 /\ Degree[v] = 1  BY <1>1, <1>2
<1>5. u = v => Degree[u] = 0  BY <1>1, <1>2
<1> QED BY <1>3, <1>4, <1>5

LEMMA LinkJoins ==
  ASSUME GraphInv, NEW u, NEW v, MayLink(u, v), Link(u, v), Used' < NumStations
  PROVE  /\ comp[u] # comp[v] /\ Used' = Used + 1 /\ Used < NumStations - 1
         /\ GraphType' /\ LinksSound'
         /\ u \in Stations /\ v \in Stations /\ u # v /\ u < v
         /\ Degree[u] < 2 /\ Degree[v] < 2
         /\ \A x \in Stations : Degree[x] \in 0 .. 2 /\ Degree'[x] \in 0 .. 2
         /\ \A x \in Stations : Degree'[x] =
              IF x \in {u, v} THEN Degree[x] + 1 ELSE Degree[x]
         /\ \A x \in Stations :
              comp'[x] = IF comp[x] = comp[v] THEN comp[u] ELSE comp[x]
         /\ \A x, y \in Stations :
              Linked(x, y)' <=> \/ Linked(x, y)
                                \/ x = u /\ y = v
                                \/ x = v /\ y = u
<1>1. /\ GraphType /\ LinksSound /\ u \in Stations /\ v \in Stations /\ u < v /\ u # v
      /\ Degree[u] < 2 /\ Degree[v] < 2 /\ NumStations \in Nat /\ Used \in Nat
      /\ comp[u] = comp[v] => Used = NumStations - 1
  BY NodeTypes DEF GraphInv, MayLink, LinksCounted
<1>2. Used' = Used + 1  BY LinkKeepsCounted
<1>3. comp[u] # comp[v] /\ Used < NumStations - 1  BY <1>1, <1>2
<1>4. LinksSound'  BY LinkKeepsSound
<1>5. /\ GraphType'
      /\ \A x \in Stations : Degree'[x] =
              IF x \in {u, v} THEN Degree[x] + 1 ELSE Degree[x]
      /\ \A x, y \in Stations :
              Linked(x, y)' <=> \/ Linked(x, y)
                                \/ x = u /\ y = v
                                \/ x = v /\ y = u
  BY <1>1, LinkType
<1>6. \A x \in Stations :
              comp'[x] = IF comp[x] = comp[v] THEN comp[u] ELSE comp[x]
  BY <1>1, LinkComponents
<1>7. \A x \in Stations : Degree[x] \in 0 .. 2 /\ Degree'[x] \in 0 .. 2
  <2>1. \A x \in Stations : Degree[x] <= 2 /\ Degree'[x] <= 2
    BY <1>1, <1>4 DEF LinksSound
  <2>2. \A x \in Stations : Degree[x] \in Nat  BY <1>1, DegreeType
  <2>3. \A x \in Stations : Degree'[x] \in Nat  BY <1>5, <2>2
  <2> QED BY <2>1, <2>2, <2>3
<1> QED BY <1>1, <1>2, <1>3, <1>4, <1>5, <1>6, <1>7

(* The ends of two paths that are joined: those that were not linked. *)
LEMMA LinkKeepsEnds ==
  ASSUME GraphInv, PathEnds, NEW u, NEW v, MayLink(u, v), Link(u, v)
  PROVE  PathEnds'
<1> SUFFICES ASSUME Used' < NumStations, NEW c \in Components'
             PROVE  \E a, b \in Stations : Ends2(c, a, b)'
  BY DEF PathEnds
<1>1. /\ comp[u] # comp[v] /\ Used < NumStations - 1
      /\ u \in Stations /\ v \in Stations /\ u # v
      /\ Degree[u] < 2 /\ Degree[v] < 2
      /\ \A x \in Stations : Degree[x] \in 0 .. 2 /\ Degree'[x] \in 0 .. 2
      /\ \A x \in Stations : Degree'[x] =
              IF x \in {u, v} THEN Degree[x] + 1 ELSE Degree[x]
      /\ \A x \in Stations :
              comp'[x] = IF comp[x] = comp[v] THEN comp[u] ELSE comp[x]
  BY LinkJoins
<1>2. NumStations \in Nat /\ Used \in Nat  BY NodeTypes DEF GraphInv, LinksCounted
<1>3. \A d \in Components : \E a, b \in Stations : Ends2(d, a, b)
  BY <1>1, <1>2 DEF PathEnds
<1>4. comp[u] \in Components /\ comp[v] \in Components  BY <1>1 DEF Components
<1>5. PICK z \in Stations : c = comp'[z]  BY DEF Components
<1>6. CASE c = comp[u]
  <2>1. ASSUME NEW d, NEW x \in Stations, comp[x] = d, Degree[x] < 2,
               \E a, b \in Stations : Ends2(d, a, b)
        PROVE  \E a \in Stations : Ends2(d, x, a)
    <3>1. PICK a, b \in Stations : Ends2(d, a, b)  BY <2>1
    <3>2. x \in {a, b}  BY <2>1, <3>1, OpenEnds
    <3>3. CASE x = a  BY <3>1, <3>3
    <3>4. CASE x = b
      <4>1. Ends2(d, b, a)
        <5>1. \A y \in Stations : comp[y] = d =>
               Degree[y] = 2 - (IF y = a THEN 1 ELSE 0) - (IF y = b THEN 1 ELSE 0)
          BY <3>1 DEF Ends2
        <5>2. \A y \in Stations : comp[y] = d =>
               Degree[y] = 2 - (IF y = b THEN 1 ELSE 0) - (IF y = a THEN 1 ELSE 0)
          BY <5>1
        <5> QED BY <3>1, <5>2 DEF Ends2
      <4> QED BY <3>4, <4>1
    <3> QED BY <3>2, <3>3, <3>4
  <2>2. PICK a \in Stations : Ends2(comp[u], u, a)  BY <1>1, <1>3, <1>4, <2>1
  <2>3. PICK b \in Stations : Ends2(comp[v], v, b)  BY <1>1, <1>3, <1>4, <2>1
  <2>4. /\ comp[a] = comp[u] /\ comp[b] = comp[v]
        /\ \A y \in Stations : comp[y] = comp[u] =>
             Degree[y] = 2 - (IF y = u THEN 1 ELSE 0) - (IF y = a THEN 1 ELSE 0)
        /\ \A y \in Stations : comp[y] = comp[v] =>
             Degree[y] = 2 - (IF y = v THEN 1 ELSE 0) - (IF y = b THEN 1 ELSE 0)
    BY <2>2, <2>3 DEF Ends2
  <2>5. comp'[a] = c /\ comp'[b] = c  BY <1>1, <1>6, <2>4
  <2>6. ASSUME NEW y \in Stations, comp'[y] = c
        PROVE  Degree'[y] = 2 - (IF y = a THEN 1 ELSE 0) - (IF y = b THEN 1 ELSE 0)
    <3>1. comp[y] = comp[u] \/ comp[y] = comp[v]  BY <1>1, <1>6, <2>6
    <3>2. CASE comp[y] = comp[u]
      <4>1. y # b /\ y # v  BY <1>1, <2>4, <3>2
      <4>2. Degree[y] = 2 - (IF y = u THEN 1 ELSE 0) - (IF y = a THEN 1 ELSE 0)
        BY <2>4, <3>2
      <4>3. Degree'[y] = IF y = u THEN Degree[y] + 1 ELSE Degree[y]
        BY <1>1, <4>1
      <4> QED BY <4>1, <4>2, <4>3
    <3>3. CASE comp[y] = comp[v]
      <4>1. y # a /\ y # u  BY <1>1, <2>4, <3>3
      <4>2. Degree[y] = 2 - (IF y = v THEN 1 ELSE 0) - (IF y = b THEN 1 ELSE 0)
        BY <2>4, <3>3
      <4>3. Degree'[y] = IF y = v THEN Degree[y] + 1 ELSE Degree[y]
        BY <1>1, <4>1
      <4> QED BY <4>1, <4>2, <4>3
    <3> QED BY <3>1, <3>2, <3>3
  <2> QED BY <2>5, <2>6 DEF Ends2
<1>7. CASE c # comp[u]
  <2>1. c = comp[z] /\ c # comp[v]  BY <1>1, <1>5, <1>7
  <2>2. PICK a, b \in Stations : Ends2(c, a, b)
    <3>1. c \in Components  BY <2>1 DEF Components
    <3> QED BY <1>3, <3>1
  <2>3. \A y \in Stations : comp'[y] = c <=> comp[y] = c
    BY <1>1, <1>7, <2>1
  <2>4. \A y \in Stations : comp[y] = c => Degree'[y] = Degree[y]
    BY <1>1, <1>7, <2>1
  <2>5. Ends2(c, a, b)'  BY <2>2, <2>3, <2>4 DEF Ends2
  <2> QED BY <2>5
<1> QED BY <1>6, <1>7

(* Three components are more than two. *)
LEMMA NoThird ==
  ASSUME NEW S, IsFiniteSet(S), Cardinality(S) = 2, NEW a \in S, NEW b \in S, a # b,
         NEW c \in S
  PROVE  c \in {a, b}
<1> SUFFICES ASSUME c \notin {a, b} PROVE FALSE  OBVIOUS
<1> DEFINE R == {a} \cup {b}
           Q == R \cup {c}
<1>1. IsFiniteSet({a}) /\ Cardinality({a}) = 1  BY FS_Singleton
<1>2. IsFiniteSet(R) /\ Cardinality(R) = 2
  <2>1. b \notin {a}  OBVIOUS
  <2> QED BY <1>1, <2>1, FS_AddElement
<1>3. IsFiniteSet(Q) /\ Cardinality(Q) = 3
  <2>1. c \notin R  OBVIOUS
  <2> HIDE DEF R
  <2>2. Cardinality(R \cup {c}) = Cardinality(R) + 1
    BY <1>2, <2>1, FS_AddElement
  <2> QED BY <1>2, <2>2, FS_AddElement
<1>4. Q \subseteq S  OBVIOUS
<1> HIDE DEF Q
<1>5. Cardinality(Q) <= Cardinality(S)  BY <1>4, FS_Subset
<1> QED BY <1>3, <1>5

LEMMA LinkKeepsPassed ==
  ASSUME GraphInv, PathEnds, PassedOver, NEW a, NEW b, MayLink(a, b), Link(a, b)
  PROVE  PassedOver'
<1> SUFFICES ASSUME Used' < NumStations,
                    NEW u \in Stations, NEW v \in Stations, u < v, <<u, v>> \notin rest',
                    ~Linked(u, v)', Degree'[u] # 2, Degree'[v] # 2
             PROVE  comp'[u] = comp'[v] /\ Used' < NumStations - 1
  BY DEF PassedOver
<1>1. /\ comp[a] # comp[b] /\ Used < NumStations - 1 /\ Used' = Used + 1
      /\ a \in Stations /\ b \in Stations /\ a # b
      /\ Degree[a] < 2 /\ Degree[b] < 2
      /\ \A x \in Stations : Degree[x] \in 0 .. 2 /\ Degree'[x] \in 0 .. 2
      /\ \A x \in Stations : Degree'[x] =
              IF x \in {a, b} THEN Degree[x] + 1 ELSE Degree[x]
      /\ \A x \in Stations :
              comp'[x] = IF comp[x] = comp[b] THEN comp[a] ELSE comp[x]
      /\ \A x, y \in Stations :
              Linked(x, y)' <=> \/ Linked(x, y)
                                \/ x = a /\ y = b
                                \/ x = b /\ y = a
  BY LinkJoins
<1>2. NumStations \in Nat /\ Used \in Nat  BY NodeTypes DEF GraphInv, LinksCounted
<1>3. u # v  BY NodeTypes
<1>4. <<u, v>> \notin rest
  <2>1. rest' = rest \ {<<a, b>>}  BY DEF Link
  <2>2. <<u, v>> # <<a, b>>  BY <1>1
  <2> QED BY <2>1, <2>2
<1>5. ~Linked(u, v) /\ Degree[u] < 2 /\ Degree[v] < 2
  BY <1>1
<1>6. comp[u] = comp[v]
  BY <1>1, <1>2, <1>4, <1>5 DEF PassedOver
<1>7. comp'[u] = comp'[v]  BY <1>1, <1>6
<1>8. Used' < NumStations - 1
  <2> SUFFICES ASSUME Used = NumStations - 2 PROVE FALSE
    BY <1>1, <1>2
  <2>1. comp[u] \in {comp[a], comp[b]}
    <3>1. Cardinality(Components) = 2 /\ IsFiniteSet(Components)
      <4>1. Cardinality(Components) = NumStations - Used
        BY <1>1, <1>2 DEF GraphInv, LinksCounted
      <4> QED BY <1>2, <4>1, ComponentsType DEF GraphInv
    <3>2. comp[a] \in Components /\ comp[b] \in Components /\ comp[u] \in Components
      BY <1>1 DEF Components
    <3> QED BY <1>1, <3>1, <3>2, NoThird
  <2>2. ASSUME NEW w \in {a, b}, comp[u] = comp[w] PROVE FALSE
    <3>1. PICK x, y \in Stations : Ends2(comp[u], x, y)
      <4>1. comp[u] \in Components  BY DEF Components
      <4> QED BY <1>1, <1>2, <4>1 DEF PathEnds
    <3>2. w \in Stations /\ Degree[w] < 2  BY <1>1
    <3>3. u \in {x, y} /\ v \in {x, y} /\ w \in {x, y}
      BY <1>5, <1>6, <2>2, <3>1, <3>2, OpenEnds
    <3>4. x # y /\ Degree[x] = 1 /\ Degree[y] = 1
      BY <1>3, <3>1, <3>3, OpenEnds
    <3>5. w = u \/ w = v  BY <1>3, <3>3
    <3>6. Degree[w] = 1  BY <3>3, <3>4
    <3>7. Degree'[w] = 2  BY <1>1, <3>2, <3>6
    <3> QED BY <3>5, <3>7
  <2> QED BY <2>1, <2>2
<1> QED BY <1>7, <1>8

LEMMA PassKeepsPassed ==
  ASSUME GraphInv, Complete, PassedOver, NEW p \in rest,
         p[1] \in Stations, p[2] \in Stations, p[1] < p[2], p = <<p[1], p[2]>>,
         ~Linkable(p[1], p[2]), inst' = inst, rest' = rest \ {p}, adj' = adj, comp' = comp
  PROVE  PassedOver'
<1>1. Used' = Used
  <2>1. rest' \subseteq rest  OBVIOUS
  <2> QED BY <2>1, GraphSame
<1>2. \A x, y \in Stations : Linked(x, y)' <=> Linked(x, y)  BY DEF Linked
<1>3. Degree' = Degree  BY DEF Degree
<1> SUFFICES ASSUME Used < NumStations,
                    NEW u \in Stations, NEW v \in Stations, u < v, <<u, v>> \notin rest'
             PROVE  \/ Linked(u, v)
                    \/ Degree[u] = 2
                    \/ Degree[v] = 2
                    \/ comp[u] = comp[v] /\ Used < NumStations - 1
  BY <1>1, <1>2, <1>3 DEF PassedOver
<1>4. CASE <<u, v>> \notin rest  BY <1>4 DEF PassedOver
<1>5. CASE <<u, v>> \in rest
  <2>1. u = p[1] /\ v = p[2]  BY <1>5
  <2>2. MinPair(u, v) > 0 /\ MinPair(u, v) \in Int
    <3>1. inst \in Instances /\ v \in Nodes \ {u} /\ u \in Nodes
      BY NodeTypes DEF GraphInv, GraphType
    <3> QED BY <3>1, CompletePairs, MinPairType
  <2>3. /\ Degree[u] \in Nat /\ Degree[v] \in Nat /\ Degree[u] <= 2 /\ Degree[v] <= 2
        /\ Used \in Nat /\ NumStations \in Nat
    BY DegreeType, NodeTypes DEF GraphInv, LinksSound, LinksCounted
  <2>4. \/ Degree[u] >= 2 \/ Degree[v] >= 2
        \/ comp[u] = comp[v] /\ Used # NumStations - 1
    BY <2>1, <2>2, <2>3 DEF Linkable, Degree
  <2> QED BY <2>3, <2>4
<1> QED BY <1>4, <1>5

LEMMA ScanKeepsGreedy ==
  ASSUME GraphInv, GreedyInv, ScanPair
  PROVE  GreedyInv'
<1>1. PICK p \in rest :
           /\ p[1] \in Stations /\ p[2] \in Stations /\ p[1] < p[2]
           /\ p = <<p[1], p[2]>>
           /\ \/ Linkable(p[1], p[2]) /\ MayLink(p[1], p[2]) /\ Link(p[1], p[2])
              \/ /\ ~Linkable(p[1], p[2])
                 /\ inst' = inst /\ rest' = rest \ {p} /\ adj' = adj /\ comp' = comp
  BY ScanLinks
<1>2. CASE MayLink(p[1], p[2]) /\ Link(p[1], p[2])
  <2>1. PathEnds'  BY <1>2, LinkKeepsEnds DEF GreedyInv
  <2>2. Complete' <=> Complete  BY <1>2, CompleteSame DEF Link
  <2>3. Complete => PassedOver'  BY <1>2, LinkKeepsPassed DEF GreedyInv
  <2> QED BY <2>1, <2>2, <2>3 DEF GreedyInv
<1>3. CASE /\ ~Linkable(p[1], p[2])
           /\ inst' = inst /\ rest' = rest \ {p} /\ adj' = adj /\ comp' = comp
  <2>1. Used' = Used
    <3>1. rest' \subseteq rest  BY <1>3
    <3> QED BY <1>3, <3>1, GraphSame
  <2>2. PathEnds'
    <3>1. Degree' = Degree /\ Components' = Components  BY <1>3 DEF Degree, Components
    <3> QED BY <1>3, <2>1, <3>1 DEF GreedyInv, PathEnds, Ends2
  <2>3. Complete' <=> Complete  BY <1>3, CompleteSame
  <2>4. Complete => PassedOver'  BY <1>1, <1>3, PassKeepsPassed DEF GreedyInv
  <2> QED BY <2>2, <2>3, <2>4 DEF GreedyInv
<1> QED BY <1>1, <1>2, <1>3

LEMMA GreedySame ==
  ASSUME GraphInv, GreedyInv, UNCHANGED given, UNCHANGED graph
  PROVE  GreedyInv'
<1>1. Used' = Used /\ inst' = inst /\ rest' = rest /\ adj' = adj /\ comp' = comp
  BY GraphSame DEF given, graph
<1>2. Degree' = Degree /\ Components' = Components  BY <1>1 DEF Degree, Components
<1>3. PathEnds'  BY <1>1, <1>2 DEF GreedyInv, PathEnds, Ends2
<1>4. Complete' <=> Complete  BY <1>1, CompleteSame
<1>5. PassedOver => PassedOver'
  BY <1>1, <1>2 DEF PassedOver, Linked
<1> QED BY <1>3, <1>4, <1>5 DEF GreedyInv

LEMMA InitGreedy == Init => GreedyInv
<1> SUFFICES ASSUME Init PROVE GreedyInv  OBVIOUS
<1>1. \A x \in Stations : adj[x] = <<>> /\ comp[x] = x  BY DEF Init
<1>2. \A x \in Stations : Degree[x] = 0  BY <1>1 DEF Degree
<1>3. Components = Stations  BY <1>1 DEF Components
<1>4. \A x \in Stations : Ends2(x, x, x)  BY <1>1, <1>2 DEF Ends2
<1>5. PathEnds  BY <1>3, <1>4 DEF PathEnds
<1>6. PassedOver
  <2>1. \A u, v \in Stations : u < v => <<u, v>> \in rest  BY DEF Init
  <2> QED BY <2>1 DEF PassedOver
<1> QED BY <1>5, <1>6 DEF GreedyInv

(* With all pairs scanned no link is missing. *)
LEMMA ScannedIsLinked ==
  ASSUME GraphInv, GreedyInv, Complete, NumStations >= 3, rest = {}
  PROVE  Used = NumStations
<1> SUFFICES ASSUME Used # NumStations PROVE FALSE  OBVIOUS
<1>1. /\ GraphType /\ LinksSound /\ Connected /\ NumStations \in Nat /\ Used \in Nat
      /\ Used < NumStations /\ Cardinality(Components) = NumStations - Used
      /\ IsFiniteSet(Components)
  BY NodeTypes, ComponentsType DEF GraphInv, LinksCounted
<1>2. \A c \in Components : \E u, v \in Stations : Ends2(c, u, v)
  BY <1>1 DEF GreedyInv, PathEnds
<1>3. ASSUME NEW x \in Stations, NEW y \in Stations, x # y, Degree[x] < 2, Degree[y] < 2,
             ~Linked(x, y)
      PROVE  comp[x] = comp[y] /\ Used < NumStations - 1
  <2>1. x \in Nat /\ y \in Nat /\ ~Linked(y, x)
    BY <1>1, <1>3, NodeTypes DEF LinksSound
  <2>2. \A u, v \in Stations : u < v =>
          \/ Linked(u, v) \/ Degree[u] = 2 \/ Degree[v] = 2
          \/ comp[u] = comp[v] /\ Used < NumStations - 1
    BY <1>1 DEF GreedyInv, PassedOver
  <2>3. Degree[x] # 2 /\ Degree[y] # 2  BY <1>3
  <2>4. CASE x < y  BY <1>3, <2>2, <2>3, <2>4
  <2>5. CASE y < x  BY <2>1, <2>2, <2>3, <2>5
  <2> QED BY <1>3, <2>1, <2>4, <2>5
<1>4. ASSUME NEW x \in Stations PROVE \E u \in Stations : comp[u] = comp[x] /\ Degree[u] < 2
  <2>1. comp[x] \in Components  BY DEF Components
  <2>2. PICK u, v \in Stations : Ends2(comp[x], u, v)  BY <1>2, <2>1
  <2>3. comp[u] = comp[x]  BY <2>2 DEF Ends2
  <2> QED BY <2>2, <2>3, OpenEnds
<1>5. \A x, y \in Stations : comp[x] = comp[y]
  <2> SUFFICES ASSUME NEW x \in Stations, NEW y \in Stations, comp[x] # comp[y] PROVE FALSE
    OBVIOUS
  <2>1. PICK u \in Stations : comp[u] = comp[x] /\ Degree[u] < 2  BY <1>4
  <2>2. PICK v \in Stations : comp[v] = comp[y] /\ Degree[v] < 2  BY <1>4
  <2>3. u # v /\ ~Linked(u, v)  BY <1>1, <2>1, <2>2 DEF LinksSound
  <2> QED BY <1>3, <2>1, <2>2, <2>3
<1>6. 1 \in Stations /\ 2 \in Stations /\ 3 \in Stations  BY <1>1 DEF Stations
<1>7. Used = NumStations - 1
  <2>1. Components = {comp[1]}  BY <1>5, <1>6 DEF Components
  <2>2. Cardinality(Components) = 1  BY <2>1, FS_Singleton
  <2> QED BY <1>1, <2>2
<1>8. ASSUME NEW S \in SUBSET Stations, S # {}, Closed(S) PROVE S = Stations
  BY <1>1, <1>5, <1>8 DEF Connected
<1>9. PICK u, v \in Stations : Ends2(comp[1], u, v)
  <2>1. comp[1] \in Components  BY <1>6 DEF Components
  <2> QED BY <1>2, <2>1
<1>10. \A x \in Stations : \A k \in 1 .. Degree[x] : adj[x][k] \in Stations
  BY <1>1, DegreeType
<1>11. \A x, y \in Stations : Linked(x, y) <=> \E k \in 1 .. Degree[x] : y = adj[x][k]
  BY <1>1, DegreeType
<1>12. CASE u = v
  <2>1. Degree[u] = 0  BY <1>9, <1>12, OpenEnds
  <2>2. \A y \in Stations : ~Linked(u, y)  BY <1>11, <2>1
  <2>3. Closed({u})  BY <2>2 DEF Closed
  <2>4. {u} = Stations  BY <1>8, <2>3
  <2> QED BY <1>6, <2>4
<1>13. CASE u # v
  <2>1. Degree[u] = 1 /\ Degree[v] = 1  BY <1>9, <1>13, OpenEnds
  <2>2. Linked(u, v) /\ Linked(v, u)
    BY <1>1, <1>3, <1>7, <1>13, <2>1 DEF LinksSound
  <2>3. ASSUME NEW x \in Stations, Degree[x] = 1, NEW y \in Stations, NEW z \in Stations,
               Linked(x, y), Linked(x, z)
        PROVE  y = z
    BY <1>11, <2>3
  <2>4. Closed({u, v})
    <3> SUFFICES ASSUME NEW x \in {u, v}, NEW y \in Stations, Linked(x, y)
                 PROVE  y \in {u, v}
      BY DEF Closed
    <3>1. CASE x = u  BY <2>1, <2>2, <2>3, <3>1
    <3>2. CASE x = v  BY <2>1, <2>2, <2>3, <3>2
    <3> QED BY <3>1, <3>2
  <2>5. {u, v} = Stations  BY <1>8, <2>4
  <2> QED BY <1>6, <2>5
<1> QED BY <1>12, <1>13

(* Two links for every station on average, and never more, are two each. *)
LEMMA AllTwo ==
  ASSUME GraphInv, Used = NumStations
  PROVE  \A x \in Stations : Degree[x] = 2
<1>1. /\ Degree \in [Stations -> Nat] /\ \A x \in Stations : Degree[x] <= 2
      /\ Total(Degree, Stations) = 2 * NumStations /\ NumStations \in Nat
      /\ IsFiniteSet(Stations) /\ Cardinality(Stations) = NumStations
  BY DegreeType, NodeTypes DEF GraphInv, LinksSound, LinksCounted
<1> DEFINE Full2(U) == /\ Total(Degree, U) <= 2 * Cardinality(U)
                       /\ (\E x \in U : Degree[x] # 2) => Total(Degree, U) < 2 * Cardinality(U)
           T == {U \in SUBSET Stations : Full2(U)}
<1>2. {} \in T
  <2>1. Total(Degree, {}) = 0 /\ Cardinality({}) = 0  BY TotalEmpty, FS_EmptySet
  <2> QED BY <2>1
<1>3. ASSUME NEW U \in SUBSET Stations, NEW x \in Stations \ U, U \in T
      PROVE  U \cup {x} \in T
  <2>1. IsFiniteSet(U) /\ Cardinality(U) \in Nat
    BY <1>1, FS_Subset, FS_CardinalityType
  <2>2. Cardinality(U \cup {x}) = Cardinality(U) + 1  BY <2>1, FS_AddElement
  <2>3. Total(Degree, U \cup {x}) = Degree[x] + Total(Degree, U)
    <3>1. \A y \in U \cup {x} : Degree[y] \in Int  BY <1>1
    <3> QED BY <2>1, <3>1, TotalAdd
  <2>4. Total(Degree, U) \in Nat
    <3>1. \A y \in U : Degree[y] \in Nat  BY <1>1
    <3> QED BY <2>1, <3>1, TotalNatural
  <2>5. Full2(U)  BY <1>3
  <2>6. Degree[x] \in Nat /\ Degree[x] <= 2  BY <1>1
  <2> DEFINE c == Cardinality(U)
             d == Degree[x]
             t == Total(Degree, U)
  <2>7. d + t <= 2 * (c + 1)
    <3>1. t <= 2 * c  BY <2>5
    <3> HIDE DEF c, d, t
    <3> QED BY <2>1, <2>4, <2>6, <3>1 DEF c, d, t
  <2>8. ASSUME NEW y \in U \cup {x}, Degree[y] # 2 PROVE d + t < 2 * (c + 1)
    <3>1. CASE y = x
      <4>1. t <= 2 * c /\ d # 2  BY <2>5, <2>8, <3>1
      <4>2. t \in Nat /\ c \in Nat /\ d \in Nat /\ d <= 2  BY <2>1, <2>4, <2>6
      <4> HIDE DEF c, d, t
      <4> QED BY <4>1, <4>2
    <3>2. CASE y # x
      <4>1. t < 2 * c  BY <2>5, <2>8, <3>2
      <4>2. t \in Nat /\ c \in Nat /\ d \in Nat /\ d <= 2  BY <2>1, <2>4, <2>6
      <4> HIDE DEF c, d, t
      <4> QED BY <4>1, <4>2
    <3> QED BY <3>1, <3>2
  <2>9. Full2(U \cup {x})  BY <2>2, <2>3, <2>7, <2>8
  <2> QED BY <2>9
<1>4. Stations \in T
  <2> HIDE DEF T
  <2> QED BY <1>1, <1>2, <1>3, GrownSubset
<1> QED BY <1>1, <1>4

LEMMA EdgesEndCycled ==
  ASSUME Inv, GreedyInv, EndEdges, Complete, NumStations >= 3
  PROVE  Cycled
<1>1. GraphInv /\ NumStations \in Nat  BY NodeTypes DEF Inv
<1>2. Used = NumStations
  <2>1. rest = {} \/ Used = NumStations  BY <1>1 DEF EndEdges
  <2> QED BY <1>1, <2>1, ScannedIsLinked
<1> QED BY <1>1, <1>2, AllTwo DEF Cycled, Degree

(* The walk goes along the links, the last of which leads back. *)
LEMMA WalkFollowsLinks ==
  ASSUME GraphInv, Cycled
  PROVE  \A k \in 1 .. NumStations :
           Linked(Walk[k], Walk[IF k = NumStations THEN 1 ELSE k + 1])
<1>1. TwoLinks  BY DEF GraphInv, Cycled, TwoLinks, Degree
<1>2. \A k \in 1 .. NumStations : Linked(Walk[k], Onward(k))
  BY <1>1, WalkNeighbours
<1>3. \A k \in 1 .. NumStations - 1 : Walk[k + 1] = Onward(k)
  BY <1>1, WalkSteps DEF TwoLinks
<1>4. Onward(NumStations) = Walk[1]  BY WalkIsTour
<1>5. ASSUME NEW k \in 1 .. NumStations
      PROVE  Linked(Walk[k], Walk[IF k = NumStations THEN 1 ELSE k + 1])
  <2>1. CASE k = NumStations  BY <1>2, <1>4, <2>1
  <2>2. CASE k # NumStations
    <3>1. k \in 1 .. NumStations - 1  BY <2>2, NodeTypes
    <3> QED BY <1>2, <1>3, <2>2, <3>1
  <2> QED BY <2>1, <2>2
<1> QED BY <1>5

LEMMA EndEdgesCloses ==
  ASSUME Inv, GreedyInv, EndEdges
  PROVE  GreedyCloses'
<1> SUFFICES ASSUME Complete, NumStations >= 3, NEW k \in DOMAIN order'
             PROVE  order'[After(k)'] \in Range(adj'[order'[k]])
  <2>1. Complete' <=> Complete  BY CompleteSame DEF EndEdges, given
  <2> QED BY <2>1 DEF GreedyCloses
<1>1. Cycled /\ GraphInv /\ NumStations \in Nat
  BY EdgesEndCycled, NodeTypes DEF Inv
<1>2. order' = Walk /\ adj' = adj  BY <1>1 DEF EndEdges, graph
<1>3. Walk \in Seq(Stations) /\ Len(Walk) = NumStations  BY <1>1, WalkIsOrder
<1>4. k \in 1 .. NumStations  BY <1>2, <1>3, LenProperties
<1>5. After(k)' = IF k = NumStations THEN 1 ELSE k + 1
  <2>1. After(k)' = 1 + (k % NumStations)  BY <1>2, <1>3 DEF After
  <2>2. k % NumStations = IF k = NumStations THEN 0 ELSE k  BY <1>1, <1>4
  <2> QED BY <1>4, <2>1, <2>2
<1>6. Linked(Walk[k], Walk[IF k = NumStations THEN 1 ELSE k + 1])
  BY <1>1, <1>4, WalkFollowsLinks
<1> QED BY <1>2, <1>5, <1>6 DEF Linked

(* Nothing but the end of the links leads to a building of ge, and nothing *)
(* then changes the order.                                                 *)
LEMMA NextGreedy ==
  ASSUME Inv, GreedyInv, GreedyCloses, [Next]_vars
  PROVE  GreedyInv' /\ GreedyCloses'
<1>1. GraphInv  BY DEF Inv
<1>2. CASE ScanPair
  <2>1. GreedyInv'  BY <1>1, <1>2, ScanKeepsGreedy
  <2>2. pc' = "edges"  BY <1>2 DEF ScanPair
  <2> QED BY <2>1, <2>2 DEF GreedyCloses
<1>3. CASE EndEdges
  <2>1. GreedyInv'  BY <1>1, <1>3, GreedySame DEF EndEdges
  <2> QED BY <1>3, <2>1, EndEdgesCloses
<1>4. ASSUME ~ScanPair, ~EndEdges
      PROVE  /\ UNCHANGED given /\ UNCHANGED graph
             /\ pc' = "build" /\ method' = "ge" => pc = "build" /\ order' = order
  <2>1. CASE Fail  BY <2>1 DEF Fail
  <2>2. CASE NextNearest /\ ~Fail
    <3>1. method = "nn"  BY <2>2 DEF NextNearest, Inv, PhaseInv
    <3>2. UNCHANGED <<given, graph>>  BY <2>2 DEF NextNearest
    <3> QED BY <3>1, <3>2 DEF given
  <2>3. CASE StartCycle \/ (InsertCheapest /\ ~Fail) \/ EndInsert
    <3>1. method = "ci"  BY <2>3 DEF StartCycle, InsertCheapest, EndInsert, Inv, PhaseInv
    <3>2. UNCHANGED <<given, graph>>
      BY <2>3 DEF StartCycle, InsertCheapest, EndInsert
    <3> QED BY <3>1, <3>2 DEF given
  <2>4. CASE (Follow \/ FollowGE \/ FollowCI) /\ ~Fail
    BY <2>4 DEF Follow, FollowGE, FollowCI, FollowNext
  <2>5. CASE EndFollow  BY <2>5 DEF EndFollow
  <2>6. CASE (EmitGE \/ EmitCI) /\ ~Fail
    <3>1. PICK r : VisitFrom(r)
      <4>1. CASE EmitGE  BY <2>6, <4>1 DEF EmitGE
      <4>2. CASE EmitCI  BY <4>2 DEF EmitCI
      <4> QED BY <2>6, <4>1, <4>2
    <3>2. pc = "emit"  BY <2>6 DEF EmitGE, EmitCI
    <3> QED BY <2>6, <3>1, <3>2 DEF VisitFrom
  <2>7. CASE FlushGE \/ FlushCI  BY <2>7 DEF FlushGE, FlushCI
  <2>8. CASE RoamVisit /\ ~Fail  BY <2>8 DEF RoamVisit
  <2>9. CASE RoamPort \/ RoamEnd  BY <2>9 DEF RoamPort, RoamEnd
  <2>10. CASE Check  BY <2>10 DEF Check
  <2>11. CASE OutOfMemory \/ PostOptFails
    BY <2>1, <2>11 DEF OutOfMemory, PostOptFails
  <2>12. CASE UNCHANGED vars  BY <2>12 DEF vars, given, graph
  <2> QED BY <1>4, <2>1, <2>2, <2>3, <2>4, <2>5, <2>6, <2>7, <2>8, <2>9, <2>10, <2>11,
             <2>12 DEF Next, Work
<1>5. ASSUME ~ScanPair, ~EndEdges PROVE GreedyInv' /\ GreedyCloses'
  <2>1. /\ UNCHANGED given /\ UNCHANGED graph
        /\ pc' = "build" /\ method' = "ge" => pc = "build" /\ order' = order
    BY <1>4, <1>5
  <2>2. GreedyInv'  BY <1>1, <2>1, GreedySame
  <2>3. Complete' <=> Complete  BY <2>1, CompleteSame DEF given
  <2>4. GreedyCloses'
    <3> SUFFICES ASSUME pc' = "build", method' = "ge", Complete', NumStations >= 3
                 PROVE  \A k \in DOMAIN order' : order'[After(k)'] \in Range(adj'[order'[k]])
      BY DEF GreedyCloses
    <3>1. /\ pc = "build" /\ method = "ge" /\ order' = order /\ adj' = adj /\ Complete
      BY <2>1, <2>3 DEF given, graph
    <3>2. \A k \in DOMAIN order : order[After(k)] \in Range(adj[order[k]])
      BY <3>1 DEF GreedyCloses
    <3> QED BY <3>1, <3>2 DEF After
  <2> QED BY <2>2, <2>4
<1> QED BY <1>2, <1>3, <1>5

(* Over a complete matrix greedy edge never runs out of pairs before the   *)
(* links are a cycle, and its walk ends with every station in the order.   *)
THEOREM GreedyAlwaysCloses == Spec => []GreedyCloses
<1>1. Init => GreedyInv /\ GreedyCloses
  <2>1. Init => pc # "build"
    <3> SUFFICES ASSUME Init PROVE pc # "build"  OBVIOUS
    <3>1. Roams(method, output) \/ ~Roams(method, output)  OBVIOUS
    <3> QED BY <3>1, InitBegins
  <2> QED BY <2>1, InitGreedy DEF GreedyCloses
<1>2. Inv /\ GreedyInv /\ GreedyCloses /\ [Next]_vars => GreedyInv' /\ GreedyCloses'
  BY NextGreedy
<1> QED BY <1>1, <1>2, InvAlways, PTL DEF Spec

-----------------------------------------------------------------------------
(* The route *)

MembersOf(r, k) ==
  {x \in Stations : \E v \in DOMAIN r.visits :
                      r.visits[v].station = x /\ r.visits[v].seg = k}
Open(r) == Len(r.segs) + 1

LegsOf(s) ==
  [i \in 1 .. Len(s) |-> Miles(IF i = 1 THEN inst.boat ELSE s[i - 1], s[i])]
MilesOf(r) == [k \in DOMAIN r.segs |-> r.segs[k].miles]

(* The segments that are closed, and the open one, cut the tour; each has  *)
(* the catch of its stations.                                              *)
Cut(r) ==
  /\ \A k \in 1 .. Len(r.segs) :
       /\ r.segs[k].first = IF k = 1 THEN 1 ELSE r.segs[k - 1].last + 1
       /\ r.segs[k].catch = Total(inst.amount, MembersOf(r, k))
  /\ r.first = IF r.segs = <<>> THEN 1 ELSE r.segs[Len(r.segs)].last + 1
  /\ r.load = Total(inst.amount, MembersOf(r, Open(r)))
  /\ \A v \in 1 .. Len(r.visits) : r.visits[v].seg \in 1 .. Open(r)
  /\ MembersOf(r, Open(r)) = {} => r.first = Len(r.tour) + 1 /\ r.leg = 0

(* Where the boat is, and with what. *)
Placed(r) ==
  /\ r.at = IF r.tour = <<>> THEN inst.boat ELSE r.tour[Len(r.tour)]
  /\ r.anchor = NoNode => r.visits = <<>>
  /\ r.anchor \in Ports => r.at = inst.start[r.anchor]
  /\ r.anchor \in Stations => /\ r.at \in EndsOf(r.anchor)
                              /\ r.anchor \in MembersOf(r, Open(r))
  /\ r.anchor \notin Stations => r.load = 0

Measured(r) ==
  r.leg + Total(MilesOf(r), DOMAIN r.segs) = Total(LegsOf(r.tour), 1 .. Len(r.tour))

Laid(r) == Cut(r) /\ Placed(r) /\ (Complete => Measured(r))

(* Segments over the target have the catch of one station.                 *)
Light(r) ==
  /\ \A k \in 1 .. Len(r.segs) : r.segs[k].catch > inst.target =>
       \E x \in MembersOf(r, k) : r.segs[k].catch = inst.amount[x]
  /\ r.load > inst.target => \E x \in MembersOf(r, Open(r)) : r.load = inst.amount[x]

(* Those that are closed end in ports, none is without stations.           *)
Harboured(r) ==
  \A k \in 1 .. Len(r.segs) : /\ r.segs[k].last \in 1 .. Len(r.tour)
                              /\ r.tour[r.segs[k].last] \in PortLocations
                              /\ MembersOf(r, k) # {}

RouteInv ==
  /\ pc \in {"edges", "insert"} => route = EmptyRoute
  /\ pc \in {"roam", "build", "emit"} => Laid(route)
  /\ pc = "build" => route.segs = <<>>
  /\ pc \in {"roam", "emit"} /\ Complete => Light(route) /\ Harboured(route)
  /\ pc = "emit" /\ ~MoreToVisit(route) => route.anchor \in Stations

(* A route that is solved: its length, its segments, those over the target *)
(* and what the checks of the driver find in it.                           *)
TourMiles(s) == Total(LegsOf(s), 1 .. Len(s))
LastOf(s) == IF s = <<>> THEN inst.boat ELSE s[Len(s)]

HasItsLength(r) == r.total = TourMiles(r.tour) + Miles(LastOf(r.tour), inst.boat)
CutsItsTour(r) ==
  /\ \A k \in 1 .. Len(r.segs) :
       /\ r.segs[k].first = IF k = 1 THEN 1 ELSE r.segs[k - 1].last + 1
       /\ k = Len(r.segs) => r.segs[k].last = Len(r.tour)
       /\ r.segs[k].catch = Total(inst.amount, MembersOf(r, k))
  /\ \A v \in 1 .. Len(r.visits) : r.visits[v].seg \in 1 .. Len(r.segs)
GiantsAlone(r) ==
  \A k \in 1 .. Len(r.segs) : r.segs[k].catch > inst.target =>
    \E x \in MembersOf(r, k) : r.segs[k].catch = inst.amount[x]
InOrder(r) ==
  /\ Len(r.visits) = NumStations
  /\ r.segs # <<>>
  /\ \A k \in 1 .. Len(r.segs) : MembersOf(r, k) # {}
  /\ \A k \in 1 .. Len(r.segs) - 1 : r.tour[r.segs[k].last] \in PortLocations

ResultInv ==
  Solved =>
    /\ Complete /\ (SomeCatch \/ method = "ge" \/ output = "construction") =>
         HasItsLength(route)
    /\ SomeCatch /\ route.tour # <<>> => CutsItsTour(route)
    /\ Complete /\ output = "segment" => GiantsAlone(route)
    /\ Complete /\ SomeCatch /\ output = "segment" => InOrder(route)

-----------------------------------------------------------------------------
(* A route of the right type. *)
LEMMA RouteParts ==
  ASSUME NEW r \in RouteType
  PROVE  /\ r.at \in Locations /\ r.anchor \in Nodes \cup {NoNode}
         /\ r.load \in Nat /\ r.leg \in Nat /\ r.first \in Nat /\ r.total \in Nat
         /\ r.tour \in Seq(Locations) /\ Len(r.tour) \in Nat
         /\ DOMAIN r.tour = 1 .. Len(r.tour)
         /\ r.segs \in Seq(SegmentRecord) /\ Len(r.segs) \in Nat
         /\ DOMAIN r.segs = 1 .. Len(r.segs)
         /\ \A k \in 1 .. Len(r.segs) : r.segs[k] \in SegmentRecord
         /\ Open(r) \in Nat /\ Open(r) >= 1
BY LenProperties, ElementOfSeq DEF RouteType, Open

LEMMA MembersType ==
  ASSUME inst \in Instances, NEW r, NEW k
  PROVE  /\ IsFiniteSet(MembersOf(r, k)) /\ MembersOf(r, k) \subseteq Stations
         /\ \A x \in MembersOf(r, k) : inst.amount[x] \in Nat
<1>1. MembersOf(r, k) \subseteq Stations  BY DEF MembersOf
<1>2. IsFiniteSet(MembersOf(r, k))  BY <1>1, NodeTypes, FS_Subset
<1> QED BY <1>1, <1>2, InstanceTypes

(* The empty route. *)
LEMMA EmptyLaid ==
  ASSUME inst \in Instances
  PROVE  /\ Laid(EmptyRoute) /\ Light(EmptyRoute) /\ Harboured(EmptyRoute)
         /\ EmptyRoute.segs = <<>>
<1> DEFINE r == EmptyRoute
<1>1. /\ r \in RouteType /\ r.at = inst.boat
      /\ r.anchor = NoNode /\ r.load = 0 /\ r.leg = 0
      /\ r.visits = <<>> /\ r.tour = <<>> /\ r.segs = <<>> /\ r.first = 1
  BY EmptyRouteType
<1> HIDE DEF r
<1>2. \A k : MembersOf(r, k) = {}
  <2>1. DOMAIN r.visits = {}  BY <1>1
  <2> QED BY <2>1 DEF MembersOf
<1>3. \A f : Total(f, {}) = 0  BY TotalEmpty
<1>4. Len(r.segs) = 0 /\ Len(r.visits) = 0 /\ Len(r.tour) = 0 /\ DOMAIN r.segs = {}
      /\ 1 .. 0 = {}
  BY <1>1
<1>5. Cut(r)
  <2>1. \A k \in 1 .. Len(r.segs) : FALSE  BY <1>4
  <2>2. \A k \in 1 .. Len(r.visits) : FALSE  BY <1>4
  <2>3. Total(inst.amount, MembersOf(r, Open(r))) = 0  BY <1>2, <1>3
  <2>4. r.first = Len(r.tour) + 1  BY <1>1, <1>4
  <2> QED BY <1>1, <2>1, <2>2, <2>3, <2>4 DEF Cut
<1>6. Placed(r)  BY <1>1, NodeTypes DEF Placed
<1>7. Measured(r)  BY <1>1, <1>3, <1>4 DEF Measured
<1>8. Light(r) /\ Harboured(r)
  <2>1. inst.target \in Nat  BY InstanceTypes
  <2> QED BY <1>1, <1>4, <2>1 DEF Light, Harboured
<1> QED BY <1>1, <1>5, <1>6, <1>7, <1>8 DEF Laid, r

(* A visit adds its station to those of the open segment. *)
LEMMA EmitMembers ==
  ASSUME inst \in Instances, NEW r \in RouteType, NEW x \in Stations,
         CanTraverse(r.at, x)
  PROVE  /\ Open(Emit(r, x)) = Open(r)
         /\ MembersOf(Emit(r, x), Open(r)) = MembersOf(r, Open(r)) \cup {x}
         /\ \A k \in Nat : k # Open(r) => MembersOf(Emit(r, x), k) = MembersOf(r, k)
<1> DEFINE v == Emit(r, x)
           n == Len(r.visits)
           e == [station |-> x, seg |-> Open(r)]
<1>1. v \in RouteType /\ v.segs = r.segs /\ v.visits = Append(r.visits, e)
  BY EmitRoute DEF Open
<1>2. e.station = x /\ e.seg = Open(r)  OBVIOUS
<1> HIDE DEF v, e
<1>3. /\ n \in Nat /\ DOMAIN r.visits = 1 .. n /\ DOMAIN v.visits = 1 .. n + 1
      /\ \A i \in 1 .. n : v.visits[i] = r.visits[i]
      /\ v.visits[n + 1] = e
  BY <1>1, VisitsType, SMTT(30) DEF RouteType
<1>4. \A i : i \in 1 .. n + 1 <=> i \in 1 .. n \/ i = n + 1  BY <1>3
<1>5. \A k : \A y \in Stations :
        y \in MembersOf(v, k) <=> y \in MembersOf(r, k) \/ (y = x /\ k = Open(r))
  BY <1>2, <1>3, <1>4 DEF MembersOf
<1>6. \A k : MembersOf(v, k) \subseteq Stations /\ MembersOf(r, k) \subseteq Stations
  BY DEF MembersOf
<1>7. Open(v) = Open(r)  BY <1>1 DEF Open
<1> QED BY <1>5, <1>6, <1>7 DEF v

LEMMA UnservedMembers ==
  ASSUME NEW r \in RouteType, NEW x \in Stations, x \notin Served(r)
  PROVE  \A k : x \notin MembersOf(r, k)
BY DEF MembersOf, Served

LEMMA EmitKeepsCut ==
  ASSUME inst \in Instances, NEW r \in RouteType, NEW x \in Stations,
         CanTraverse(r.at, x), x \notin Served(r), Cut(r)
  PROVE  Cut(Emit(r, x))
<1> DEFINE v == Emit(r, x)
           o == Open(r)
<1>1. /\ v \in RouteType /\ v.segs = r.segs /\ v.first = r.first
      /\ v.load = r.load + inst.amount[x]
      /\ v.visits = Append(r.visits, [station |-> x, seg |-> o])
  BY EmitRoute DEF Open
<1>2. /\ Open(v) = o
      /\ MembersOf(v, o) = MembersOf(r, o) \cup {x}
      /\ \A k \in Nat : k # o => MembersOf(v, k) = MembersOf(r, k)
  BY EmitMembers
<1>3. x \notin MembersOf(r, o)  BY UnservedMembers
<1> HIDE DEF v
<1>4. \A k \in 1 .. Len(r.segs) : k \in Nat /\ k # o
  BY RouteParts DEF Open
<1>5. Total(inst.amount, MembersOf(v, o)) = inst.amount[x] + Total(inst.amount, MembersOf(r, o))
  <2> DEFINE f == inst.amount
             S == MembersOf(r, o)
  <2>1. IsFiniteSet(S) /\ \A y \in S \cup {x} : f[y] \in Int
    BY MembersType, InstanceTypes
  <2>2. Total(f, S \cup {x}) = f[x] + Total(f, S)
    <3> HIDE DEF f, S
    <3> QED BY <1>3, <2>1, TotalAdd DEF S
  <2> QED BY <1>2, <2>2
<1>6. v.load = Total(inst.amount, MembersOf(v, Open(v)))
  <2>1. r.load = Total(inst.amount, MembersOf(r, o))  BY DEF Cut
  <2>2. r.load \in Nat /\ inst.amount[x] \in Nat  BY RouteParts, InstanceTypes
  <2> QED BY <1>1, <1>2, <1>5, <2>1, <2>2
<1>7. ASSUME NEW i \in 1 .. Len(v.visits) PROVE v.visits[i].seg \in 1 .. Open(v)
  <2> DEFINE n == Len(r.visits)
             e == [station |-> x, seg |-> o]
  <2>1. v.visits = Append(r.visits, e) /\ e.seg = o  BY <1>1
  <2> HIDE DEF e
  <2>2. /\ n \in Nat /\ Len(v.visits) = n + 1
        /\ \A j \in 1 .. n : v.visits[j] = r.visits[j]
        /\ v.visits[n + 1] = e
    BY <2>1, VisitsType DEF RouteType
  <2>3. i \in 1 .. n \/ i = n + 1  BY <1>7, <2>2
  <2>4. o \in Nat /\ o >= 1  BY RouteParts
  <2> QED BY <1>2, <2>1, <2>2, <2>3, <2>4 DEF Cut
<1>8. MembersOf(v, Open(v)) # {}  BY <1>2
<1>9. \A k \in 1 .. Len(v.segs) :
       /\ v.segs[k].first = IF k = 1 THEN 1 ELSE v.segs[k - 1].last + 1
       /\ v.segs[k].catch = Total(inst.amount, MembersOf(v, k))
  BY <1>1, <1>2, <1>4 DEF Cut
<1>10. v.first = IF v.segs = <<>> THEN 1 ELSE v.segs[Len(v.segs)].last + 1
  BY <1>1 DEF Cut
<1> QED BY <1>6, <1>7, <1>8, <1>9, <1>10 DEF Cut, v

(* The length of a tour that goes on to one more location.                 *)
LEMMA LegsType ==
  ASSUME inst \in Instances, NEW s \in Seq(Locations)
  PROVE  /\ Len(s) \in Nat /\ LastOf(s) \in Locations
         /\ \A i \in 1 .. Len(s) : LegsOf(s)[i] \in Int
         /\ TourMiles(s) \in Int
<1> DEFINE f == LegsOf(s)
           n == Len(s)
<1>1. /\ n \in Nat /\ \A i \in 1 .. n : s[i] \in Locations
      /\ s = <<>> <=> n = 0
  BY LenProperties, ElementOfSeq, EmptySeq
<1>2. inst.boat \in Locations  BY InstanceTypes
<1>3. ASSUME NEW i \in 1 .. n PROVE f[i] \in Int
  <2> DEFINE a == IF i = 1 THEN inst.boat ELSE s[i - 1]
  <2>1. f[i] = Miles(a, s[i])  BY DEF LegsOf
  <2>2. i # 1 => i - 1 \in 1 .. n  BY <1>1
  <2>3. a \in Locations  BY <1>1, <1>2, <2>2
  <2> HIDE DEF a
  <2> QED BY <1>1, <2>1, <2>3, InstanceTypes
<1>4. LastOf(s) \in Locations
  <2>1. s # <<>> => n \in 1 .. n  BY <1>1
  <2> QED BY <1>1, <1>2, <2>1 DEF LastOf
<1>5. TourMiles(s) \in Int
  <2>1. IsFiniteSet(1 .. n)  BY <1>1, FS_Interval
  <2> HIDE DEF f
  <2> QED BY <1>3, <2>1, TotalRemove DEF TourMiles, f
<1> QED BY <1>1, <1>3, <1>4, <1>5

LEMMA OneLegMore ==
  ASSUME inst \in Instances, NEW s \in Seq(Locations), NEW l \in Locations
  PROVE  /\ TourMiles(Append(s, l)) = TourMiles(s) + Miles(LastOf(s), l)
         /\ LastOf(Append(s, l)) = l
<1> DEFINE t == Append(s, l)
           n == Len(s)
           f == LegsOf(s)
           g == LegsOf(t)
<1>1. /\ n \in Nat /\ t \in Seq(Locations) /\ Len(t) = n + 1
      /\ \A i \in 1 .. n : t[i] = s[i]
      /\ t[n + 1] = l
      /\ s = <<>> <=> n = 0
  BY LenProperties, AppendProperties, EmptySeq
<1> HIDE DEF t
<1>2. /\ \A i \in 1 .. n + 1 : g[i] = Miles(IF i = 1 THEN inst.boat ELSE t[i - 1], t[i])
      /\ \A i \in 1 .. n : f[i] = Miles(IF i = 1 THEN inst.boat ELSE s[i - 1], s[i])
  BY <1>1 DEF LegsOf
<1>3. ASSUME NEW i \in 1 .. n PROVE g[i] = f[i]
  <2>1. i \in 1 .. n + 1 /\ (i # 1 => i - 1 \in 1 .. n)  BY <1>1
  <2> QED BY <1>1, <1>2, <2>1
<1>4. g[n + 1] = Miles(LastOf(s), l)
  <2>1. n + 1 \in 1 .. n + 1 /\ (n + 1) - 1 = n /\ (n # 0 => n \in 1 .. n)
    BY <1>1
  <2>2. g[n + 1] = Miles(IF n + 1 = 1 THEN inst.boat ELSE t[n], t[n + 1])
    BY <1>2, <2>1
  <2>3. CASE n = 0  BY <1>1, <2>2, <2>3 DEF LastOf
  <2>4. CASE n # 0
    <3>1. t[n] = s[n] /\ n + 1 # 1 /\ s # <<>>  BY <1>1, <2>1, <2>4
    <3> QED BY <1>1, <2>2, <3>1 DEF LastOf
  <2> QED BY <2>3, <2>4
<1>5. \A i \in 1 .. n : f[i] \in Int  BY LegsType
<1>6. \A i \in 1 .. n + 1 : g[i] \in Int  BY <1>1, LegsType
<1> HIDE DEF f, g
<1>7. Total(g, 1 .. n + 1) = g[n + 1] + Total(g, 1 .. n)
  <2> DEFINE m == n + 1
  <2>1. m \in Int /\ 1 \in Int /\ 1 <= m /\ m - 1 = n  BY <1>1
  <2>2. \A i \in 1 .. m : g[i] \in Int  BY <1>6
  <2> HIDE DEF m
  <2>3. Total(g, 1 .. m) = g[m] + Total(g, 1 .. m - 1)  BY <2>1, <2>2, TotalLast
  <2> QED BY <2>1, <2>3 DEF m
<1>8. Total(g, 1 .. n) = Total(f, 1 .. n)
  <2>1. IsFiniteSet(1 .. n)  BY <1>1, FS_Interval
  <2> QED BY <2>1, <1>3, <1>5, TotalSame
<1>9. TourMiles(t) = g[n + 1] + TourMiles(s)
  BY <1>1, <1>7, <1>8 DEF TourMiles, f, g
<1>10. TourMiles(s) \in Int /\ Miles(LastOf(s), l) \in Int
  BY LegsType, InstanceTypes
<1>11. LastOf(t) = l
  <2>1. t # <<>>  BY <1>1, EmptySeq
  <2> QED BY <1>1, <2>1 DEF LastOf
<1> QED BY <1>4, <1>9, <1>10, <1>11 DEF t

(* A visit leads on from where the boat is. *)
LEMMA EmitTour ==
  ASSUME inst \in Instances, NEW r \in RouteType, NEW x \in Stations,
         CanTraverse(r.at, x), r.at = LastOf(r.tour)
  PROVE  /\ TourMiles(Emit(r, x).tour) = TourMiles(r.tour) + Traverse(r.at, x).added
         /\ LastOf(Emit(r, x).tour) = Traverse(r.at, x).exit
         /\ Len(Emit(r, x).tour) \in Nat /\ Len(Emit(r, x).tour) >= Len(r.tour)
         /\ \A i \in 1 .. Len(r.tour) : Emit(r, x).tour[i] = r.tour[i]
<1> DEFINE s == r.tour
           t == Traverse(r.at, x)
           v == Emit(r, x)
<1>1. s \in Seq(Locations) /\ r.at \in Locations  BY RouteParts
<1>2. /\ t.entry \in Locations /\ t.exit \in Locations /\ t.added \in Nat
      /\ t.added = IF t.entry = t.exit THEN Miles(r.at, t.entry)
                   ELSE Miles(r.at, t.entry) + Miles(t.entry, t.exit)
  BY <1>1, TraverseType
<1>3. v.tour = s \o (IF t.entry = t.exit THEN <<t.entry>> ELSE <<t.entry, t.exit>>)
  BY EmitRoute
<1> HIDE DEF s, t, v
<1> DEFINE a == t.entry
           b == t.exit
           u == Append(s, a)
<1>4. u \in Seq(Locations) /\ Len(u) = Len(s) + 1 /\ Len(s) \in Nat
      /\ \A i \in 1 .. Len(s) : u[i] = s[i]
  BY <1>1, <1>2, LenProperties, AppendProperties
<1>5. TourMiles(u) = TourMiles(s) + Miles(LastOf(s), a) /\ LastOf(u) = a
  BY <1>1, <1>2, OneLegMore
<1>6. LastOf(s) = r.at  BY DEF s
<1>7. CASE a = b
  <2>1. v.tour = s \o <<a>>  BY <1>3, <1>7
  <2>2. s \o <<a>> = u  BY <1>1, <1>2
  <2>3. v.tour = u  BY <2>1, <2>2
  <2>4. t.added = Miles(r.at, a)  BY <1>2, <1>7
  <2> HIDE DEF u
  <2> QED BY <1>4, <1>5, <1>6, <1>7, <2>3, <2>4 DEF s, t, v
<1>8. CASE a # b
  <2> DEFINE w == Append(u, b)
  <2>1. v.tour = s \o <<a, b>>  BY <1>3, <1>8
  <2>2. s \o <<a, b>> = w  BY <1>1, <1>2
  <2>3. v.tour = w  BY <2>1, <2>2
  <2>4. t.added = Miles(r.at, a) + Miles(a, b)  BY <1>2, <1>8
  <2> HIDE DEF u
  <2>5. TourMiles(w) = TourMiles(u) + Miles(LastOf(u), b) /\ LastOf(w) = b
    BY <1>2, <1>4, OneLegMore
  <2>6. Len(w) = Len(s) + 2 /\ \A i \in 1 .. Len(s) : w[i] = s[i]
    <3>1. Len(w) = Len(u) + 1 /\ \A i \in 1 .. Len(u) : w[i] = u[i]
      BY <1>2, <1>4, AppendProperties
    <3> HIDE DEF w
    <3> QED BY <1>4, <3>1
  <2> HIDE DEF w
  <2>7. /\ TourMiles(s) \in Int /\ Miles(r.at, a) \in Int /\ Miles(a, b) \in Int
    BY <1>1, <1>2, LegsType, InstanceTypes
  <2>8. TourMiles(w) = TourMiles(s) + t.added  BY <1>5, <1>6, <2>4, <2>5, <2>7
  <2> QED BY <1>4, <2>3, <2>5, <2>6, <2>8 DEF s, t, v
<1> QED BY <1>7, <1>8

LEMMA PlacedLast ==
  ASSUME NEW r, Placed(r)
  PROVE  r.at = LastOf(r.tour)
BY DEF Placed, LastOf

LEMMA MilesType ==
  ASSUME NEW r \in RouteType
  PROVE  /\ \A k \in DOMAIN r.segs : MilesOf(r)[k] = r.segs[k].miles /\ MilesOf(r)[k] \in Nat
         /\ Total(MilesOf(r), DOMAIN r.segs) \in Int
<1> DEFINE f == MilesOf(r)
           S == DOMAIN r.segs
<1>1. IsFiniteSet(S)  BY RouteParts, FS_Interval
<1>2. \A k \in S : r.segs[k] \in SegmentRecord  BY RouteParts
<1>3. \A k \in S : r.segs[k].miles \in Nat  BY <1>2 DEF SegmentRecord
<1>4. \A k \in S : f[k] = r.segs[k].miles  BY DEF MilesOf
<1> HIDE DEF f, S
<1>5. \A k \in S : f[k] \in Int  BY <1>3, <1>4
<1>6. Total(f, S) \in Int  BY <1>1, <1>5, TotalRemove
<1> QED BY <1>3, <1>4, <1>6 DEF f, S

LEMMA EmitKeepsLaid ==
  ASSUME inst \in Instances, NEW r \in RouteType, NEW x \in Stations,
         CanTraverse(r.at, x), x \notin Served(r), Laid(r)
  PROVE  Laid(Emit(r, x))
<1> DEFINE v == Emit(r, x)
           t == Traverse(r.at, x)
<1>1. /\ v \in RouteType /\ v.at = t.exit /\ v.anchor = x /\ v.leg = r.leg + t.added
      /\ v.segs = r.segs
  BY EmitRoute
<1>2. Cut(v)  BY EmitKeepsCut DEF Laid
<1>3. t.exit \in EndsOf(x) /\ t.added \in Nat /\ r.leg \in Nat /\ r.tour \in Seq(Locations)
  BY RouteParts, TraverseType
<1>4. r.at = LastOf(r.tour)  BY PlacedLast DEF Laid
<1>5. /\ TourMiles(v.tour) = TourMiles(r.tour) + t.added
      /\ LastOf(v.tour) = t.exit
  BY <1>4, EmitTour
<1>6. x \in MembersOf(v, Open(v))  BY EmitMembers
<1> HIDE DEF v, t
<1>7. Placed(v)
  <2>1. x \notin Ports /\ x # NoNode  BY NodeTypes
  <2> QED BY <1>1, <1>3, <1>5, <1>6, <2>1 DEF Placed, LastOf
<1>8. ASSUME Complete PROVE Measured(v)
  <2> DEFINE m == Total(MilesOf(r), DOMAIN r.segs)
  <2>1. r.leg + m = TourMiles(r.tour)  BY <1>8 DEF Laid, Measured, TourMiles
  <2>2. Total(MilesOf(v), DOMAIN v.segs) = m  BY <1>1 DEF MilesOf
  <2>3. m \in Int  BY MilesType
  <2> HIDE DEF m
  <2> QED BY <1>1, <1>3, <1>5, <2>1, <2>2, <2>3 DEF Measured, TourMiles
<1> QED BY <1>2, <1>7, <1>8 DEF Laid, v

(* What is on board is the catch of one station, or fits.                  *)
LEMMA EmitKeepsLight ==
  ASSUME inst \in Instances, NEW r \in RouteType, NEW x \in Stations,
         CanTraverse(r.at, x), Light(r), ~Overfills(r, x)
  PROVE  Light(Emit(r, x))
<1> DEFINE v == Emit(r, x)
           o == Open(r)
<1>1. /\ v \in RouteType /\ v.segs = r.segs /\ v.load = r.load + inst.amount[x]
  BY EmitRoute
<1>2. /\ Open(v) = o
      /\ MembersOf(v, o) = MembersOf(r, o) \cup {x}
      /\ \A k \in Nat : k # o => MembersOf(v, k) = MembersOf(r, k)
  BY EmitMembers
<1>3. \A k \in 1 .. Len(r.segs) : k \in Nat /\ k # o
  BY RouteParts DEF Open
<1>4. r.load \in Nat /\ inst.amount[x] \in Nat /\ inst.target \in Nat
  BY RouteParts, InstanceTypes
<1> HIDE DEF v
<1>5. ASSUME v.load > inst.target PROVE \E y \in MembersOf(v, Open(v)) : v.load = inst.amount[y]
  <2>1. r.load = 0  BY <1>1, <1>4, <1>5 DEF Overfills
  <2> QED BY <1>1, <1>2, <1>4, <2>1
<1>6. \A k \in 1 .. Len(v.segs) : v.segs[k].catch > inst.target =>
         \E y \in MembersOf(v, k) : v.segs[k].catch = inst.amount[y]
  BY <1>1, <1>2, <1>3 DEF Light
<1> QED BY <1>5, <1>6 DEF Light, v

LEMMA EmitKeepsHarboured ==
  ASSUME inst \in Instances, NEW r \in RouteType, NEW x \in Stations,
         CanTraverse(r.at, x), r.at = LastOf(r.tour), Harboured(r)
  PROVE  Harboured(Emit(r, x))
<1> DEFINE v == Emit(r, x)
<1>1. v.segs = r.segs  BY EmitRoute
<1>2. /\ \A k \in Nat : k # Open(r) => MembersOf(v, k) = MembersOf(r, k)
  BY EmitMembers
<1>3. \A k \in 1 .. Len(r.segs) : k \in Nat /\ k # Open(r)
  BY RouteParts DEF Open
<1>4. /\ Len(v.tour) \in Nat /\ Len(v.tour) >= Len(r.tour) /\ Len(r.tour) \in Nat
      /\ \A i \in 1 .. Len(r.tour) : v.tour[i] = r.tour[i]
  BY EmitTour, RouteParts
<1> HIDE DEF v
<1>5. \A i \in 1 .. Len(r.tour) : i \in 1 .. Len(v.tour)  BY <1>4
<1> QED BY <1>1, <1>2, <1>3, <1>4, <1>5 DEF Harboured, v

(* A segment is closed: the stations keep theirs, and those of the open    *)
(* one are now those of the last.                                          *)
LEMMA SegsGrow ==
  ASSUME NEW r \in RouteType, NEW v \in RouteType, NEW s,
         v.segs = Append(r.segs, s)
  PROVE  /\ Len(v.segs) = Open(r) /\ Open(v) = Open(r) + 1 /\ v.segs # <<>>
         /\ Open(r) \in 1 .. Open(r)
         /\ \A k \in 1 .. Len(r.segs) : v.segs[k] = r.segs[k] /\ k \in 1 .. Open(r)
         /\ v.segs[Open(r)] = s
         /\ \A k \in 1 .. Open(r) : k \in 1 .. Len(r.segs) \/ k = Open(r)
<1> DEFINE n == Len(r.segs)
           q == Append(r.segs, s)
<1>1. n \in Nat /\ Open(r) = n + 1 /\ r.segs \in Seq(SegmentRecord)
  BY RouteParts DEF Open
<1>2. s \in SegmentRecord
  <2>1. Len(q) = n + 1 /\ q[n + 1] = s
    BY <1>1
  <2>2. n + 1 \in 1 .. Len(v.segs)  BY <1>1, <2>1
  <2> QED BY <2>1, <2>2, RouteParts
<1>3. Len(q) = n + 1 /\ q[n + 1] = s /\ \A k \in 1 .. n : q[k] = r.segs[k]
  BY <1>1, <1>2, AppendProperties
<1>4. q # <<>>
  <2>1. Len(q) # 0  BY <1>1, <1>3
  <2>2. Len(<<>>) = 0  OBVIOUS
  <2> HIDE DEF q
  <2> QED BY <2>1, <2>2
<1> HIDE DEF q
<1>5. v.segs = q  BY DEF q
<1> QED BY <1>1, <1>3, <1>4, <1>5 DEF Open

LEMMA SameMembers ==
  ASSUME NEW r, NEW v, v.visits = r.visits
  PROVE  \A k : MembersOf(v, k) = MembersOf(r, k)
BY DEF MembersOf

LEMMA NoneBeyond ==
  ASSUME NEW r \in RouteType, Cut(r)
  PROVE  MembersOf(r, Open(r) + 1) = {}
<1> SUFFICES ASSUME NEW x \in MembersOf(r, Open(r) + 1) PROVE FALSE  OBVIOUS
<1>1. PICK i \in 1 .. Len(r.visits) : r.visits[i].seg = Open(r) + 1
  BY VisitsType DEF MembersOf
<1>2. Open(r) \in Nat  BY RouteParts
<1> QED BY <1>1, <1>2 DEF Cut

(* The sum of the miles goes on by those of the segment.                   *)
LEMMA MilesGrow ==
  ASSUME NEW r \in RouteType, NEW v \in RouteType, NEW s,
         v.segs = Append(r.segs, s)
  PROVE  /\ Total(MilesOf(v), DOMAIN v.segs) = Total(MilesOf(r), DOMAIN r.segs) + s.miles
         /\ s.miles \in Nat
<1> DEFINE f == MilesOf(r)
           g == MilesOf(v)
           n == Len(r.segs)
           m == Open(r)
<1>1. /\ n \in Nat /\ m = n + 1 /\ DOMAIN r.segs = 1 .. n /\ DOMAIN v.segs = 1 .. m
      /\ v.segs[m] = s /\ \A k \in 1 .. n : v.segs[k] = r.segs[k]
  BY SegsGrow, RouteParts DEF Open
<1>2. /\ \A k \in 1 .. n : f[k] = r.segs[k].miles /\ f[k] \in Nat
      /\ \A k \in 1 .. m : g[k] = v.segs[k].miles /\ g[k] \in Nat
  BY <1>1, MilesType
<1> HIDE DEF f, g
<1>3. Total(g, 1 .. m) = g[m] + Total(g, 1 .. m - 1)
  <2>1. m \in Int /\ 1 \in Int /\ 1 <= m  BY <1>1
  <2>2. \A k \in 1 .. m : g[k] \in Int  BY <1>2
  <2> HIDE DEF m
  <2> QED BY <2>1, <2>2, TotalLast
<1>4. Total(g, 1 .. n) = Total(f, 1 .. n)
  <2>1. IsFiniteSet(1 .. n)  BY <1>1, FS_Interval
  <2>2. \A k \in 1 .. n : k \in 1 .. m  BY <1>1
  <2>3. \A k \in 1 .. n : f[k] \in Int /\ g[k] = f[k]  BY <1>1, <1>2, <2>2
  <2> QED BY <2>1, <2>3, TotalSame
<1>5. Total(f, 1 .. n) \in Int  BY <1>1, MilesType DEF f
<1>6. m \in 1 .. m /\ m - 1 = n  BY <1>1
<1>7. g[m] = s.miles /\ s.miles \in Nat  BY <1>1, <1>2, <1>6
<1> QED BY <1>1, <1>3, <1>4, <1>5, <1>6, <1>7 DEF f, g

LEMMA InsertKeepsCut ==
  ASSUME inst \in Instances, NEW r \in RouteType, NEW p \in Ports, Cut(r)
  PROVE  Cut(InsertPort(r, p))
<1> DEFINE v == InsertPort(r, p)
           n == Len(r.segs)
           o == Open(r)
           s == [first |-> r.first, last |-> Len(r.tour) + 1, catch |-> r.load,
                 miles |-> IF Miles(r.at, inst.start[p]) > 0
                             THEN r.leg + Miles(r.at, inst.start[p]) ELSE r.leg]
<1>1. /\ v \in RouteType /\ v.load = 0 /\ v.leg = 0 /\ v.visits = r.visits
      /\ v.segs = Append(r.segs, s) /\ v.first = Len(r.tour) + 2
      /\ Len(v.tour) = Len(r.tour) + 1
  <2>1. Len(Append(r.tour, inst.start[p])) = Len(r.tour) + 1
    BY RouteParts
  <2> QED BY <2>1, InsertPortRoute
<1>2. s.first = r.first /\ s.last = Len(r.tour) + 1 /\ s.catch = r.load
  OBVIOUS
<1> HIDE DEF v, s
<1>3. /\ n \in Nat /\ o = n + 1 /\ Len(r.tour) \in Nat  BY RouteParts DEF Open
<1>4. /\ Len(v.segs) = o /\ Open(v) = o + 1 /\ v.segs # <<>>
      /\ \A k \in 1 .. n : v.segs[k] = r.segs[k] /\ k \in 1 .. o
      /\ v.segs[o] = s
      /\ \A k \in 1 .. o : k \in 1 .. n \/ k = o
  BY <1>1, SegsGrow
<1>5. \A k : MembersOf(v, k) = MembersOf(r, k)  BY <1>1, SameMembers
<1>6. MembersOf(v, Open(v)) = {}  BY <1>4, <1>5, NoneBeyond
<1>7. v.load = Total(inst.amount, MembersOf(v, Open(v)))
  BY <1>1, <1>6, TotalEmpty
<1>8. v.first = v.segs[Len(v.segs)].last + 1  BY <1>1, <1>2, <1>3, <1>4
<1>9. v.first = Len(v.tour) + 1  BY <1>1, <1>3
<1>10. ASSUME NEW k \in 1 .. Len(v.segs)
       PROVE  /\ v.segs[k].first = IF k = 1 THEN 1 ELSE v.segs[k - 1].last + 1
              /\ v.segs[k].catch = Total(inst.amount, MembersOf(v, k))
  <2>1. CASE k \in 1 .. n
    <3>1. k # 1 => k - 1 \in 1 .. n  BY <1>3, <2>1
    <3>2. v.segs[k] = r.segs[k] /\ (k # 1 => v.segs[k - 1] = r.segs[k - 1])
      BY <1>4, <2>1, <3>1
    <3> QED BY <1>5, <2>1, <3>1, <3>2 DEF Cut
  <2>2. CASE k = o
    <3>1. r.segs = <<>> <=> n = 0  BY RouteParts, EmptySeq
    <3>2. n # 0 => n \in 1 .. n /\ v.segs[n] = r.segs[n] /\ o - 1 = n  BY <1>3, <1>4
    <3>3. r.first = IF o = 1 THEN 1 ELSE v.segs[o - 1].last + 1
      BY <1>3, <3>1, <3>2 DEF Cut
    <3>4. r.load = Total(inst.amount, MembersOf(r, o))  BY DEF Cut
    <3> QED BY <1>2, <1>4, <1>5, <2>2, <3>3, <3>4
  <2> QED BY <1>4, <2>1, <2>2
<1>11. \A i \in 1 .. Len(v.visits) : v.visits[i].seg \in 1 .. Open(v)
  <2>1. \A k \in 1 .. o : k \in 1 .. o + 1  BY <1>3
  <2> QED BY <1>1, <1>4, <2>1 DEF Cut
<1> QED BY <1>1, <1>4, <1>7, <1>8, <1>9, <1>10, <1>11 DEF Cut, v

(* From a station the way to the port is known.                            *)
LEMMA InsertKeepsLaid ==
  ASSUME inst \in Instances, NEW r \in RouteType, NEW p \in Ports, Laid(r),
         Complete => r.anchor \in Stations
  PROVE  Laid(InsertPort(r, p))
<1> DEFINE v == InsertPort(r, p)
           l == inst.start[p]
           d == Miles(r.at, l)
           leg == IF d > 0 THEN r.leg + d ELSE r.leg
           s == [first |-> r.first, last |-> Len(r.tour) + 1, catch |-> r.load,
                 miles |-> leg]
<1>1. /\ v \in RouteType /\ v.at = l /\ v.anchor = p /\ v.load = 0 /\ v.leg = 0
      /\ v.tour = Append(r.tour, l) /\ v.segs = Append(r.segs, s)
  BY InsertPortRoute
<1>2. s.miles = leg  OBVIOUS
<1>3. Cut(v)  BY InsertKeepsCut DEF Laid
<1>4. l \in Locations /\ p \notin Stations /\ p # NoNode /\ p \in Nodes
  BY NodeTypes, InstanceTypes
<1>5. r.tour \in Seq(Locations) /\ r.leg \in Nat /\ r.at \in Locations  BY RouteParts
<1>6. r.at = LastOf(r.tour) /\ Placed(r)  BY PlacedLast DEF Laid
<1>7. TourMiles(v.tour) = TourMiles(r.tour) + d /\ LastOf(v.tour) = l
  BY <1>1, <1>4, <1>5, <1>6, OneLegMore
<1> HIDE DEF v, s
<1>8. Placed(v)
  BY <1>1, <1>4, <1>7 DEF Placed, LastOf
<1>9. ASSUME Complete PROVE Measured(v)
  <2>1. r.anchor \in Stations /\ r.at \in EndsOf(r.anchor)
    BY <1>6, <1>9 DEF Placed
  <2>2. d > 0
    <3>1. p \in Nodes \ {r.anchor} /\ l \in EndsOf(p)  BY <1>4, <2>1 DEF EndsOf
    <3> QED BY <1>9, <2>1, <3>1 DEF Complete
  <2>3. leg = r.leg + d  BY <2>2
  <2>4. r.leg + Total(MilesOf(r), DOMAIN r.segs) = TourMiles(r.tour)
    BY <1>9 DEF Laid, Measured, TourMiles
  <2>5. Total(MilesOf(v), DOMAIN v.segs) = Total(MilesOf(r), DOMAIN r.segs) + s.miles
    BY <1>1, MilesGrow
  <2>6. /\ Total(MilesOf(r), DOMAIN r.segs) \in Int /\ d \in Int /\ TourMiles(r.tour) \in Int
    BY <1>4, <1>5, MilesType, InstanceTypes, LegsType
  <2> HIDE DEF d, leg
  <2> QED BY <1>1, <1>2, <1>5, <1>7, <2>3, <2>4, <2>5, <2>6 DEF Measured, TourMiles
<1> QED BY <1>3, <1>8, <1>9 DEF Laid, v

LEMMA InsertKeepsLight ==
  ASSUME inst \in Instances, NEW r \in RouteType, NEW p \in Ports, Light(r)
  PROVE  Light(InsertPort(r, p))
<1> DEFINE v == InsertPort(r, p)
           s == [first |-> r.first, last |-> Len(r.tour) + 1, catch |-> r.load,
                 miles |-> IF Miles(r.at, inst.start[p]) > 0
                             THEN r.leg + Miles(r.at, inst.start[p]) ELSE r.leg]
<1>1. /\ v \in RouteType /\ v.load = 0 /\ v.visits = r.visits
      /\ v.segs = Append(r.segs, s)
  BY InsertPortRoute
<1>2. s.catch = r.load  OBVIOUS
<1> HIDE DEF v, s
<1>3. /\ Len(v.segs) = Open(r)
      /\ \A k \in 1 .. Len(r.segs) : v.segs[k] = r.segs[k]
      /\ v.segs[Open(r)] = s
      /\ \A k \in 1 .. Open(r) : k \in 1 .. Len(r.segs) \/ k = Open(r)
  BY <1>1, SegsGrow
<1>4. \A k : MembersOf(v, k) = MembersOf(r, k)  BY <1>1, SameMembers
<1>5. ~(v.load > inst.target)  BY <1>1, InstanceTypes
<1>6. \A k \in 1 .. Len(v.segs) : v.segs[k].catch > inst.target =>
         \E y \in MembersOf(v, k) : v.segs[k].catch = inst.amount[y]
  BY <1>2, <1>3, <1>4 DEF Light
<1> QED BY <1>5, <1>6 DEF Light, v

LEMMA InsertKeepsHarboured ==
  ASSUME inst \in Instances, NEW r \in RouteType, NEW p \in Ports, Harboured(r),
         Placed(r), r.anchor \in Stations
  PROVE  Harboured(InsertPort(r, p))
<1> DEFINE v == InsertPort(r, p)
           l == inst.start[p]
           n == Len(r.tour)
           s == [first |-> r.first, last |-> Len(r.tour) + 1, catch |-> r.load,
                 miles |-> IF Miles(r.at, inst.start[p]) > 0
                             THEN r.leg + Miles(r.at, inst.start[p]) ELSE r.leg]
<1>1. /\ v \in RouteType /\ v.visits = r.visits /\ v.tour = Append(r.tour, l)
      /\ v.segs = Append(r.segs, s)
  BY InsertPortRoute
<1>2. s.last = n + 1  OBVIOUS
<1> HIDE DEF v, s
<1>3. /\ Len(v.segs) = Open(r)
      /\ \A k \in 1 .. Len(r.segs) : v.segs[k] = r.segs[k]
      /\ v.segs[Open(r)] = s
      /\ \A k \in 1 .. Open(r) : k \in 1 .. Len(r.segs) \/ k = Open(r)
  BY ONLY <1>1, r \in RouteType, SegsGrow, SMTT(30)
<1>4. \A k : MembersOf(v, k) = MembersOf(r, k)  BY <1>1, SameMembers
<1>5. /\ n \in Nat /\ Len(v.tour) = n + 1 /\ v.tour[n + 1] = l
      /\ \A i \in 1 .. n : v.tour[i] = r.tour[i]
  <2>1. r.tour \in Seq(Locations) /\ l \in Locations /\ n \in Nat
    BY RouteParts, InstanceTypes, NodeTypes
  <2> DEFINE q == Append(r.tour, l)
  <2>2. Len(q) = n + 1 /\ q[n + 1] = l /\ \A i \in 1 .. n : q[i] = r.tour[i]
    BY <2>1, AppendProperties
  <2> HIDE DEF q
  <2>3. v.tour = q  BY <1>1 DEF q
  <2> QED BY <2>1, <2>2, <2>3
<1>6. l \in PortLocations  BY DEF PortLocations
<1>7. r.anchor \in MembersOf(r, Open(r))  BY DEF Placed
<1>8. ASSUME NEW k \in 1 .. Len(r.segs)
      PROVE  /\ v.segs[k].last \in 1 .. Len(v.tour)
             /\ v.tour[v.segs[k].last] \in PortLocations
             /\ MembersOf(v, k) # {}
  <2>1. r.segs[k].last \in 1 .. n  BY <1>8 DEF Harboured
  <2>2. r.segs[k].last \in 1 .. n + 1 /\ v.tour[r.segs[k].last] = r.tour[r.segs[k].last]
    BY <1>5, <2>1
  <2> QED BY <1>3, <1>4, <1>5, <1>8, <2>2 DEF Harboured
<1>9. /\ s.last \in 1 .. Len(v.tour)
      /\ v.tour[s.last] \in PortLocations
      /\ MembersOf(v, Open(r)) # {}
  <2>1. n + 1 \in 1 .. n + 1  BY <1>5
  <2> QED BY <1>2, <1>4, <1>5, <1>6, <1>7, <2>1
<1> QED BY <1>3, <1>8, <1>9 DEF Harboured, v

(* The instance does not change. *)
LEMMA LaidSame ==
  ASSUME inst' = inst
  PROVE  /\ Laid(route)' <=> Laid(route')
         /\ Light(route)' <=> Light(route')
         /\ Harboured(route)' <=> Harboured(route')
         /\ (Complete' <=> Complete) /\ EmptyRoute' = EmptyRoute
<1>1. Complete' <=> Complete  BY CompleteSame
<1>2. Cut(route)' <=> Cut(route')  BY DEF Cut, MembersOf, Open
<1>3. Placed(route)' <=> Placed(route')  BY DEF Placed, MembersOf, Open, EndsOf
<1>4. Measured(route)' <=> Measured(route')  BY DEF Measured, MilesOf, LegsOf, Miles
<1>5. Light(route)' <=> Light(route')  BY DEF Light, MembersOf, Open
<1>6. Harboured(route)' <=> Harboured(route')  BY DEF Harboured, MembersOf, PortLocations
<1>7. EmptyRoute' = EmptyRoute  BY DEF EmptyRoute
<1> QED BY <1>1, <1>2, <1>3, <1>4, <1>5, <1>6, <1>7 DEF Laid

(* The next station in order has not been visited. *)
LEMMA NextUnserved ==
  ASSUME order \in Seq(Stations), Everyone, NEW r \in RouteType, Follows(r), MoreToVisit(r)
  PROVE  Next1(r) \in Stations /\ Next1(r) \notin Served(r)
<1> DEFINE n == Len(r.visits)
<1>1. /\ n \in Nat /\ DOMAIN r.visits = 1 .. n
      /\ Len(order) \in Nat /\ DOMAIN order = 1 .. Len(order)
      /\ \A k \in 1 .. Len(order) : order[k] \in Stations
  BY VisitsType, OrderType
<1>2. n + 1 \in 1 .. Len(order) /\ \A k \in 1 .. n : k \in 1 .. Len(order) /\ k # n + 1
  BY <1>1 DEF MoreToVisit
<1>3. \A k \in 1 .. n : r.visits[k].station = order[k]  BY DEF Follows
<1>4. \A k \in 1 .. n : order[k] # order[n + 1]
  BY <1>1, <1>2 DEF Everyone, IsInjective
<1> QED BY <1>1, <1>2, <1>3, <1>4 DEF Next1, Served

(* A visit, and the port after it if there is one. *)
LEMMA VisitKeepsRoute ==
  ASSUME inst \in Instances, NEW r \in RouteType, NEW x \in Stations,
         CanTraverse(r.at, x), x \notin Served(r), Laid(r), NEW v,
         v = Emit(r, x) \/ \E p \in Ports : v = InsertPort(Emit(r, x), p)
  PROVE  /\ v \in RouteType /\ Laid(v)
         /\ Light(r) /\ ~Overfills(r, x) => Light(v)
         /\ Harboured(r) => Harboured(v)
<1> DEFINE e == Emit(r, x)
<1>1. e \in RouteType /\ e.anchor \in Stations /\ Laid(e)
  BY EmitRoute, EmitKeepsLaid
<1>2. r.at = LastOf(r.tour)  BY PlacedLast DEF Laid
<1>3. Light(r) /\ ~Overfills(r, x) => Light(e)  BY EmitKeepsLight
<1>4. Harboured(r) => Harboured(e)  BY <1>2, EmitKeepsHarboured
<1>5. v = e \/ \E p \in Ports : v = InsertPort(e, p)  OBVIOUS
<1> HIDE DEF e
<1>6. ASSUME NEW p \in Ports
      PROVE  /\ InsertPort(e, p) \in RouteType /\ Laid(InsertPort(e, p))
             /\ Light(e) => Light(InsertPort(e, p))
             /\ Harboured(e) => Harboured(InsertPort(e, p))
  <2>1. InsertPort(e, p) \in RouteType /\ Laid(InsertPort(e, p))
    BY <1>1, InsertPortRoute, InsertKeepsLaid
  <2>2. Light(e) => Light(InsertPort(e, p))  BY <1>1, InsertKeepsLight
  <2>3. Harboured(e) => Harboured(InsertPort(e, p))
    BY <1>1, InsertKeepsHarboured DEF Laid
  <2> QED BY <2>1, <2>2, <2>3
<1> QED BY <1>1, <1>3, <1>4, <1>5, <1>6

(* What is ready for the next station is empty or has room for it: with a  *)
(* complete matrix a port is known from every station.                     *)
LEMMA ReadyKeepsRoute ==
  ASSUME inst \in Instances, route \in RouteType, Laid(route),
         NEW r \in IF Ready = {} THEN {route} ELSE Ready, MoreToVisit(route)
  PROVE  /\ r \in RouteType /\ r.visits = route.visits /\ Laid(r)
         /\ Complete => ~Overfills(r, Next1(r))
         /\ Complete /\ Light(route) => Light(r)
         /\ Complete /\ Harboured(route) => Harboured(r)
<1>1. CASE r = route /\ ~Overfills(route, Next1(route))  BY <1>1
<1>2. CASE \E p \in PortsFrom(route.at) : r = InsertPort(route, p) /\ Overfills(route, Next1(route))
  <2>1. PICK p \in Ports : r = InsertPort(route, p)
    BY <1>2, PortsFromType, RouteParts
  <2>2. route.anchor \in Stations /\ Placed(route)
    <3>1. route.load # 0  BY <1>2, RouteParts DEF Overfills
    <3> QED BY <3>1 DEF Laid, Placed
  <2>3. r \in RouteType /\ r.visits = route.visits /\ r.load = 0
    BY <2>1, InsertPortRoute
  <2>4. Laid(r) /\ (Light(route) => Light(r)) /\ (Harboured(route) => Harboured(r))
    BY <2>1, <2>2, InsertKeepsLaid, InsertKeepsLight, InsertKeepsHarboured
  <2>5. ~Overfills(r, Next1(r))  BY <2>3 DEF Overfills
  <2> QED BY <2>3, <2>4, <2>5
<1>3. CASE Ready = {} /\ r = route
  <2>1. Overfills(route, Next1(route)) /\ PortsFrom(route.at) = {}
    BY <1>3 DEF Ready
  <2>2. ~Complete
    <3> SUFFICES ASSUME Complete PROVE FALSE  OBVIOUS
    <3>1. route.load # 0  BY <2>1, RouteParts DEF Overfills
    <3>2. route.anchor \in Stations /\ route.at \in EndsOf(route.anchor)
      BY <3>1 DEF Laid, Placed
    <3>3. PICK p \in Ports : TRUE  BY DEF Complete
    <3>4. p \in Nodes \ {route.anchor} /\ inst.start[p] \in EndsOf(p)
      BY <3>2, NodeTypes DEF EndsOf
    <3>5. Miles(route.at, inst.start[p]) > 0
      BY <3>2, <3>4 DEF Complete
    <3>6. NearestPort(route.at) \in Ports
      BY <3>5, RouteParts, NearestPortType
    <3> QED BY <2>1, <3>6, NodeTypes DEF PortsFrom
  <2> QED BY <1>3, <2>2
<1> QED BY <1>1, <1>2, <1>3 DEF Ready

(* The initial states and the steps before the route. *)
LEMMA RouteInit == Init => RouteInv
<1> SUFFICES ASSUME Init PROVE RouteInv  OBVIOUS
<1>1. inst \in Instances /\ route = EmptyRoute /\ pc \in {"roam", "nearest", "edges", "insert"}
  BY DEF Init, Begin, Roams
<1> QED BY <1>1, EmptyLaid DEF RouteInv

LEMMA EmptyKeepsRoute ==
  ASSUME inst \in Instances, UNCHANGED <<given>>, pc' \in {"build", "emit", "edges", "insert"},
         route' = EmptyRoute, pc' = "emit" => MoreToVisit(route)'
  PROVE  RouteInv'
<1>1. inst' = inst  BY DEF given
<1>2. Laid(route') /\ Light(route') /\ Harboured(route') /\ route'.segs = <<>>
  BY EmptyLaid
<1>3. Laid(route)' /\ Light(route)' /\ Harboured(route)' /\ route' = EmptyRoute'
  BY <1>1, <1>2, LaidSame
<1> QED BY <1>2, <1>3 DEF RouteInv

(* Nothing is said of the route when it is not being built. *)
LEMMA OtherKeepsRoute ==
  ASSUME pc' \in {"nearest", "check", "done", "failed"}
  PROVE  RouteInv'
BY DEF RouteInv

LEMMA RouteStep ==
  ASSUME UNCHANGED given, pc' \in {"roam", "emit"}, Laid(route'),
         Complete => Light(route') /\ Harboured(route'),
         pc' = "emit" => MoreToVisit(route)' \/ route'.anchor \in Stations
  PROVE  RouteInv'
<1>1. inst' = inst  BY DEF given
<1>2. /\ Laid(route)'
      /\ Complete' => Light(route)' /\ Harboured(route)'
  BY <1>1, LaidSame
<1> QED BY <1>2 DEF RouteInv

LEMMA FollowKeepsRoute ==
  ASSUME Inv, RouteInv, FollowNext
  PROVE  RouteInv'
<1>1. CASE Fail  BY <1>1, OtherKeepsRoute DEF Fail
<1>2. ASSUME ~Fail PROVE RouteInv'
  <2>1. /\ pc = "build" /\ MoreToVisit(route)
        /\ CanTraverse(route.at, Next1(route))
        /\ route' = Emit(route, Next1(route))
        /\ UNCHANGED <<given, pc, order, graph, verdict>>
    BY <1>2 DEF FollowNext
  <2>2. /\ inst \in Instances /\ route \in RouteType /\ order \in Seq(Stations)
        /\ Everyone /\ Follows(route) /\ Laid(route) /\ route.segs = <<>>
    BY <2>1 DEF Inv, TypeOK, GraphType, PhaseInv, RouteInv
  <2>3. Next1(route) \in Stations /\ Next1(route) \notin Served(route)
    BY <2>1, <2>2, NextUnserved
  <2>4. Laid(route')  BY <2>1, <2>2, <2>3, EmitKeepsLaid
  <2>5. route'.segs = <<>>  BY <2>1, <2>2, <2>3, EmitRoute
  <2>6. Laid(route)' /\ pc' = "build"  BY <2>1, <2>4, LaidSame DEF given
  <2> QED BY <2>5, <2>6 DEF RouteInv
<1> QED BY <1>1, <1>2

LEMMA EndFollowKeepsRoute ==
  ASSUME Inv, EndFollow
  PROVE  RouteInv'
<1>1. CASE output = "construction"
  BY <1>1, OtherKeepsRoute DEF EndFollow
<1>2. CASE output # "construction"
  <2>1. /\ pc' = "emit" /\ route' = EmptyRoute /\ UNCHANGED <<given, order, graph, verdict>>
        /\ inst \in Instances /\ Everyone
    BY <1>2 DEF EndFollow, Inv, TypeOK, GraphType, PhaseInv
  <2>2. route'.visits = <<>>  BY <2>1, EmptyRouteType
  <2>3. MoreToVisit(route)'
    <3>1. Len(route'.visits) = 0 /\ Len(order') = NumStations /\ NumStations \in Nat /\ NumStations >= 1
      BY <2>1, <2>2, NodeTypes DEF Everyone
    <3> QED BY <3>1 DEF MoreToVisit
  <2> QED BY <2>1, <2>3, EmptyKeepsRoute
<1> QED BY <1>1, <1>2

LEMMA EmitKeepsRoute ==
  ASSUME Inv, RouteInv, pc = "emit", MoreToVisit(route),
         NEW r \in IF Ready = {} THEN {route} ELSE Ready, VisitFrom(r)
  PROVE  RouteInv'
<1>1. CASE Fail  BY <1>1, OtherKeepsRoute DEF Fail
<1>2. ASSUME ~Fail PROVE RouteInv'
  <2>1. /\ inst \in Instances /\ route \in RouteType /\ order \in Seq(Stations)
        /\ Everyone /\ Follows(route) /\ Laid(route)
        /\ Complete => Light(route) /\ Harboured(route)
    BY DEF Inv, TypeOK, GraphType, PhaseInv, RouteInv
  <2>2. /\ r \in RouteType /\ r.visits = route.visits /\ Laid(r)
        /\ Complete => /\ ~Overfills(r, Next1(r)) /\ Light(r) /\ Harboured(r)
    BY <2>1, ReadyKeepsRoute
  <2>3. MoreToVisit(r) /\ Follows(r)  BY <2>1, <2>2 DEF MoreToVisit, Follows
  <2> DEFINE x == Next1(r)
             e == Emit(r, x)
  <2>4. x \in Stations /\ x \notin Served(r)
    BY <2>1, <2>2, <2>3, NextUnserved
  <2>5. /\ UNCHANGED <<given, pc, order, graph, verdict>>
        /\ CanTraverse(r.at, x) /\ route' \in PortAfter(e)
    BY <1>2 DEF VisitFrom
  <2>6. e \in RouteType /\ e.anchor = x
    <3> HIDE DEF x
    <3> QED BY <2>1, <2>2, <2>4, <2>5, EmitRoute
  <2>7. route' = e \/ \E p \in Ports : route' = InsertPort(e, p)
    <3> HIDE DEF e
    <3> QED BY <2>1, <2>5, <2>6, PortAfterType
  <2>8. /\ Laid(route')
        /\ Complete => Light(route') /\ Harboured(route')
    <3> HIDE DEF x
    <3> QED BY <2>1, <2>2, <2>4, <2>5, <2>7, VisitKeepsRoute DEF x
  <2>9. MoreToVisit(route)' \/ route'.anchor \in Stations
    <3> HIDE DEF e
    <3>1. CASE route' = e  BY <2>4, <2>6, <3>1
    <3>2. CASE route' # e
      <4>1. MoreToVisit(e)  BY <2>5, <3>2 DEF PortAfter
      <4>2. route'.visits = e.visits  BY <2>1, <2>5, <2>6, PortAfterType
      <4> QED BY <2>5, <4>1, <4>2 DEF MoreToVisit
    <3> QED BY <3>1, <3>2
  <2> QED BY <2>5, <2>8, <2>9, RouteStep
<1> QED BY <1>1, <1>2

LEMMA EmitActionsKeepRoute ==
  ASSUME Inv, RouteInv, EmitGE \/ EmitCI
  PROVE  RouteInv'
<1>1. CASE EmitGE
  <2>1. CASE Fail  BY <2>1, OtherKeepsRoute DEF Fail
  <2>2. CASE ~Fail
    <3>1. /\ pc = "emit" /\ MoreToVisit(route) /\ Ready # {}
          /\ \E r \in Ready : VisitFrom(r)
      BY <1>1, <2>2 DEF EmitGE
    <3>2. PICK r \in IF Ready = {} THEN {route} ELSE Ready : VisitFrom(r)  BY <3>1
    <3> QED BY <3>1, <3>2, EmitKeepsRoute
  <2> QED BY <2>1, <2>2
<1>2. CASE EmitCI
  <2>1. pc = "emit" /\ MoreToVisit(route)  BY <1>2 DEF EmitCI
  <2>2. PICK r \in IF Ready = {} THEN {route} ELSE Ready : VisitFrom(r)
    BY <1>2 DEF EmitCI
  <2> QED BY <2>1, <2>2, EmitKeepsRoute
<1> QED BY <1>1, <1>2

LEMMA RoamVisitKeepsRoute ==
  ASSUME Inv, RouteInv, RoamVisit
  PROVE  RouteInv'
<1>1. CASE Fail  BY <1>1, OtherKeepsRoute DEF Fail
<1>2. ASSUME ~Fail PROVE RouteInv'
  <2>1. PICK x \in Fitting :
          /\ CanTraverse(route.at, x)
          /\ route' = PortWhenFull(Emit(route, x))
          /\ UNCHANGED <<given, pc, order, graph, verdict>>
    BY <1>2 DEF RoamVisit
  <2>2. /\ pc = "roam" /\ inst \in Instances /\ route \in RouteType /\ Laid(route)
        /\ Complete => Light(route) /\ Harboured(route)
    BY DEF RoamVisit, Inv, TypeOK, GraphType, RouteInv
  <2>3. x \in Stations /\ x \notin Served(route) /\ ~Overfills(route, x)
    BY DEF Fitting, Waiting
  <2> DEFINE e == Emit(route, x)
  <2>4. e \in RouteType /\ e.anchor = x  BY <2>1, <2>2, <2>3, EmitRoute
  <2>5. route' = PortWhenFull(e)  BY <2>1
  <2>6. route' = e \/ \E p \in Ports : route' = InsertPort(e, p)
    <3> HIDE DEF e
    <3> QED BY <2>2, <2>3, <2>4, <2>5, PortWhenFullType
  <2>7. /\ Laid(route')
        /\ Complete => Light(route') /\ Harboured(route')
    BY <2>1, <2>2, <2>3, <2>6, VisitKeepsRoute
  <2> QED BY <2>1, <2>2, <2>7, RouteStep
<1> QED BY <1>1, <1>2

LEMMA RoamPortKeepsRoute ==
  ASSUME Inv, RouteInv, RoamPort
  PROVE  RouteInv'
<1>1. /\ pc = "roam" /\ inst \in Instances /\ route \in RouteType
      /\ Waiting(route) # {} /\ Fitting = {}
      /\ PortNext # NoNode /\ route' = InsertPort(route, PortNext)
      /\ UNCHANGED <<given, pc, order, graph, verdict>>
      /\ Laid(route) /\ (Complete => Light(route) /\ Harboured(route))
  BY DEF RoamPort, Inv, TypeOK, GraphType, RouteInv
<1>2. PortNext \in Ports
  <2>1. route.anchor \in Nodes \cup {NoNode}  BY <1>1 DEF RouteType
  <2> QED BY <1>1, <2>1, NearestPortOfType DEF PortNext
<1>3. Complete => route.anchor \in Stations  BY <1>1, StuckAtStation
<1>4. Laid(route')  BY <1>1, <1>2, <1>3, InsertKeepsLaid
<1>5. Complete => Light(route')  BY <1>1, <1>2, InsertKeepsLight
<1>6. Complete => Harboured(route')
  BY <1>1, <1>2, <1>3, InsertKeepsHarboured DEF Laid
<1> QED BY <1>1, <1>4, <1>5, <1>6, RouteStep

LEMMA NextRouteInv ==
  ASSUME Inv, RouteInv, [Next]_vars
  PROVE  RouteInv'
<1>0. inst \in Instances  BY DEF Inv, TypeOK, GraphType
<1>1. CASE Fail  BY <1>1, OtherKeepsRoute DEF Fail
<1>2. CASE OutOfMemory \/ PostOptFails
  BY <1>2, OtherKeepsRoute DEF OutOfMemory, PostOptFails, Fail
<1>3. CASE NextNearest
  <2>1. CASE Fail  BY <1>1, <2>1
  <2>2. CASE ~Fail
    <3>1. /\ UNCHANGED <<given, graph, verdict>>
          /\ \/ pc' = "build" /\ route' = EmptyRoute
             \/ pc' = "nearest"
      BY <1>3, <2>2 DEF NextNearest
    <3> QED BY <1>0, <3>1, EmptyKeepsRoute, OtherKeepsRoute
  <2> QED BY <2>1, <2>2
<1>4. CASE ScanPair \/ StartCycle
  BY <1>0, <1>4, EmptyKeepsRoute DEF ScanPair, StartCycle, RouteInv
<1>5. CASE EndEdges \/ EndInsert
  BY <1>0, <1>5, EmptyKeepsRoute DEF EndEdges, EndInsert, RouteInv
<1>6. CASE InsertCheapest
  <2>1. CASE Fail  BY <1>1, <2>1
  <2>2. CASE ~Fail
    BY <1>0, <1>6, <2>2, EmptyKeepsRoute DEF InsertCheapest, RouteInv
  <2> QED BY <2>1, <2>2
<1>7. CASE Follow \/ FollowGE \/ FollowCI
  BY <1>7, FollowKeepsRoute DEF Follow, FollowGE, FollowCI
<1>8. CASE EndFollow  BY <1>8, EndFollowKeepsRoute
<1>9. CASE EmitGE \/ EmitCI  BY <1>9, EmitActionsKeepRoute
<1>10. CASE FlushGE \/ FlushCI \/ RoamEnd \/ Check
  BY <1>10, OtherKeepsRoute DEF FlushGE, FlushCI, RoamEnd, Check
<1>11. CASE RoamVisit  BY <1>11, RoamVisitKeepsRoute
<1>12. CASE RoamPort  BY <1>12, RoamPortKeepsRoute
<1>13. CASE UNCHANGED vars
  <2>1. inst' = inst /\ pc' = pc /\ route' = route /\ order' = order
    BY <1>13 DEF vars
  <2>2. MoreToVisit(route)' <=> MoreToVisit(route)  BY <2>1 DEF MoreToVisit
  <2> QED BY <2>1, <2>2, LaidSame DEF RouteInv
<1> QED BY <1>1, <1>2, <1>3, <1>4, <1>5, <1>6, <1>7, <1>8, <1>9, <1>10, <1>11, <1>12,
           <1>13 DEF Next, Work

(* The path of a tour has the legs of the tour and the way home.           *)
LEMMA PathIsTour ==
  ASSUME inst \in Instances, NEW r, r.tour \in Seq(Locations)
  PROVE  PathMiles(Path(r)) = TourMiles(r.tour) + Miles(LastOf(r.tour), inst.boat)
<1> DEFINE s == r.tour
           b == inst.boat
           n == Len(s)
           t == Append(s, b)
           p == <<b>> \o s \o <<b>>
           f == LegsOf(t)
           g == [k \in 1 .. Len(p) - 1 |-> Miles(p[k], p[k + 1])]
<1>1. b \in Locations /\ s \in Seq(Locations)  BY InstanceTypes
<1> HIDE DEF b, s
<1>2. /\ n \in Nat /\ Len(t) = n + 1 /\ t \in Seq(Locations)
      /\ \A i \in 1 .. n : t[i] = s[i]
      /\ t[n + 1] = b
  BY <1>1, LenProperties, AppendProperties
<1>3. /\ Len(p) = n + 2
      /\ p[1] = b
      /\ \A i \in 2 .. n + 1 : p[i] = s[i - 1]
      /\ p[n + 2] = b
  BY <1>1
<1> HIDE DEF t, p
<1>4. ASSUME NEW i \in 1 .. n + 1 PROVE g[i] = f[i] /\ f[i] \in Int
  <2>1. g[i] = Miles(p[i], p[i + 1])  BY <1>2, <1>3
  <2>2. f[i] = Miles(IF i = 1 THEN b ELSE t[i - 1], t[i])  BY <1>2 DEF LegsOf, b
  <2>3. p[i + 1] = t[i]
    <3>1. CASE i = n + 1
      <4>1. i + 1 = n + 2  BY <1>2, <3>1
      <4> QED BY <1>2, <1>3, <3>1, <4>1
    <3>2. CASE i # n + 1
      <4>1. i \in 1 .. n /\ i + 1 \in 2 .. n + 1 /\ (i + 1) - 1 = i  BY <1>2, <3>2
      <4> QED BY <1>2, <1>3, <4>1
    <3> QED BY <3>1, <3>2
  <2>4. p[i] = IF i = 1 THEN b ELSE t[i - 1]
    <3>1. CASE i = 1  BY <1>3, <3>1
    <3>2. CASE i # 1
      <4>1. i \in 2 .. n + 1 /\ i - 1 \in 1 .. n  BY <1>2, <3>2
      <4> QED BY <1>2, <1>3, <3>2, <4>1
    <3> QED BY <3>1, <3>2
  <2>5. f[i] \in Int  BY <1>2, LegsType
  <2> QED BY <2>1, <2>2, <2>3, <2>4, <2>5
<1>5. Len(p) - 1 = n + 1  BY <1>2, <1>3
<1>6. PathMiles(p) = Total(g, 1 .. n + 1)
  <2>1. PathMiles(p) = FoldFunctionOnSet(+, 0, g, 1 .. Len(p) - 1)  BY DEF PathMiles
  <2> HIDE DEF g
  <2> QED BY <1>5, <2>1, FoldOnSetIsTotal
<1>7. Total(g, 1 .. n + 1) = Total(f, 1 .. n + 1)
  <2>1. IsFiniteSet(1 .. n + 1)  BY <1>2, FS_Interval
  <2> HIDE DEF f, g
  <2> QED BY <1>4, <2>1, TotalSame
<1>8. Total(f, 1 .. n + 1) = TourMiles(t)  BY <1>2 DEF TourMiles
<1>9. TourMiles(t) = TourMiles(s) + Miles(LastOf(s), b)
  BY <1>1, OneLegMore DEF t
<1>10. Path(r) = p  BY DEF Path, p, s, b
<1> QED BY <1>6, <1>7, <1>8, <1>9, <1>10 DEF s, b

LEMMA ReturnIsLast ==
  ASSUME inst \in Instances, Complete, NEW r \in RouteType, Placed(r), r.anchor # NoNode
  PROVE  Return(r) = Miles(LastOf(r.tour), inst.boat)
<1>1. r.at = LastOf(r.tour)  BY PlacedLast
<1>2. r.anchor \in Stations \/ r.anchor \in Ports  BY RouteParts DEF Nodes
<1>3. Miles(r.at, inst.boat) \in Int  BY RouteParts, InstanceTypes
<1>4. Miles(r.at, inst.boat) >= 0
  <2>1. CASE r.anchor \in Stations
    <3>1. r.at \in EndsOf(r.anchor)  BY <2>1 DEF Placed
    <3>2. Miles(r.at, inst.boat) > 0  BY <2>1, <3>1 DEF Complete
    <3> QED BY <1>3, <3>2
  <2>2. CASE r.anchor \in Ports  BY <2>2 DEF Placed, Complete
  <2> QED BY <1>2, <2>1, <2>2
<1> QED BY <1>1, <1>3, <1>4 DEF Return

(* The last segment is closed, or there are others and nothing is on board. *)
LEMMA FlushRoute ==
  ASSUME inst \in Instances, NEW r \in RouteType
  PROVE  LET v == WithTotal(Flushed(r))
         IN  /\ v \in RouteType /\ v.visits = r.visits /\ v.tour = r.tour
             /\ v.total = Return(r) + Total(MilesOf(v), DOMAIN v.segs)
             /\ \/ v.segs = Append(r.segs, [first |-> r.first, last |-> Len(r.tour),
                                            catch |-> r.load, miles |-> r.leg])
                   /\ (method = "ge" \/ r.load > 0 \/ r.segs = <<>>)
                \/ v.segs = r.segs /\ r.segs # <<>> /\ r.load = 0 /\ method # "ge"
<1> DEFINE s == [first |-> r.first, last |-> Len(r.tour), catch |-> r.load, miles |-> r.leg]
           c == CloseSegment(r)
           u == Flushed(r)
           v == WithTotal(u)
<1>1. /\ c \in RouteType /\ c = [r EXCEPT !.segs = c.segs]
      /\ c.segs = Append(r.segs, s)
  BY CloseSegmentRoute
<1> HIDE DEF c, s
<1>2. c.visits = r.visits /\ c.tour = r.tour /\ c.at = r.at
  BY <1>1 DEF RouteType
<1>3. \/ u = c /\ (method = "ge" \/ r.load > 0 \/ r.segs = <<>>)
      \/ u = r /\ ~(method = "ge" \/ r.load > 0 \/ r.segs = <<>>)
  BY DEF Flushed, c
<1> HIDE DEF u
<1>4. u \in RouteType /\ u.visits = r.visits /\ u.tour = r.tour /\ u.at = r.at
  BY <1>1, <1>2, <1>3
<1>5. /\ v \in RouteType /\ v.visits = u.visits /\ v.segs = u.segs /\ v.tour = u.tour
      /\ v.total = Return(u) + Total([k \in DOMAIN u.segs |-> u.segs[k].miles], DOMAIN u.segs)
  BY <1>4, WithTotalRoute
<1> HIDE DEF v
<1>6. Return(u) = Return(r)  BY <1>4 DEF Return
<1>7. v.total = Return(r) + Total(MilesOf(v), DOMAIN v.segs)
  BY <1>5, <1>6 DEF MilesOf
<1>8. r.load \in Nat  BY RouteParts
<1>9. \/ v.segs = Append(r.segs, s) /\ (method = "ge" \/ r.load > 0 \/ r.segs = <<>>)
      \/ v.segs = r.segs /\ r.segs # <<>> /\ r.load = 0 /\ method # "ge"
  BY <1>1, <1>3, <1>5, <1>8
<1> QED BY <1>4, <1>5, <1>7, <1>9 DEF u, v, s

(* When every station has catch, those on board are seen by their catch.   *)
LEMMA EmptyHold ==
  ASSUME inst \in Instances, NEW r \in RouteType, Cut(r), SomeCatch, r.load = 0
  PROVE  MembersOf(r, Open(r)) = {} /\ r.leg = 0 /\ r.first = Len(r.tour) + 1
<1> DEFINE S == MembersOf(r, Open(r))
           f == inst.amount
<1>1. IsFiniteSet(S) /\ S \subseteq Stations /\ \A x \in S : f[x] \in Nat
  BY MembersType
<1>2. \A x \in S : f[x] <= Total(f, S)
  <2> HIDE DEF S, f
  <2> QED BY <1>1, TotalNatural
<1>3. Total(f, S) = 0  BY DEF Cut
<1>4. \A x \in S : f[x] > 0  BY <1>1 DEF SomeCatch
<1>5. S = {}
  <2> HIDE DEF S, f
  <2> QED BY <1>1, <1>2, <1>3, <1>4
<1> QED BY <1>5 DEF Cut

(* Whom the boat has visited, once each, are as many as the visits.        *)
LEMMA VisitsCounted ==
  ASSUME NEW r \in RouteType, VisitsOnce(r), Served(r) = Stations
  PROVE  Len(r.visits) = NumStations
<1> DEFINE n == Len(r.visits)
           f == [k \in 1 .. n |-> r.visits[k].station]
<1>1. n \in Nat /\ DOMAIN r.visits = 1 .. n
      /\ \A k \in 1 .. n : r.visits[k].station \in Stations
  BY VisitsType
<1>2. f \in [1 .. n -> Stations]  BY <1>1
<1>3. \A a, b \in 1 .. n : f[a] = f[b] => a = b  BY OnceMeans
<1>4. \A x \in Stations : \E k \in 1 .. n : f[k] = x  BY <1>1 DEF Served
<1>5. f \in Bijection(1 .. n, Stations)
  <2> HIDE DEF f
  <2>1. f \in Injection(1 .. n, Stations)  BY <1>2, <1>3 DEF Injection, IsInjective
  <2>2. f \in Surjection(1 .. n, Stations)  BY <1>2, <1>4 DEF Surjection
  <2> QED BY <2>1, <2>2 DEF Bijection
<1>6. IsFiniteSet(1 .. n) /\ Cardinality(1 .. n) = n  BY <1>1, FS_Interval
<1>7. Cardinality(Stations) = NumStations  BY NodeTypes
<1>8. Cardinality(1 .. n) = Cardinality(Stations)
  <2>1. ExistsBijection(1 .. n, Stations)  BY <1>5 DEF ExistsBijection
  <2> QED BY <1>6, <2>1, FS_Bijection
<1> QED BY <1>6, <1>7, <1>8

LEMMA SomeVisit ==
  ASSUME inst \in Instances, NEW r \in RouteType, Cut(r), Placed(r), Served(r) = Stations
  PROVE  /\ r.anchor # NoNode
         /\ r.segs = <<>> => MembersOf(r, Open(r)) # {}
<1>1. 1 \in Stations  BY NodeTypes DEF Stations
<1>2. PICK k \in 1 .. Len(r.visits) : r.visits[k].station = 1
  BY <1>1, VisitsType DEF Served
<1>3. r.visits # <<>> /\ k \in DOMAIN r.visits  BY <1>2, VisitsType
<1>4. r.visits[k].seg \in 1 .. Open(r)  BY <1>2 DEF Cut
<1>5. ASSUME r.segs = <<>> PROVE 1 \in MembersOf(r, Open(r))
  <2>1. Open(r) = 1  BY <1>5 DEF Open
  <2>2. r.visits[k].seg = 1  BY <1>4, <2>1
  <2> QED BY <1>1, <1>2, <1>3, <2>1, <2>2 DEF MembersOf
<1> QED BY <1>3, <1>5 DEF Placed

(* The route is flushed. *)
LEMMA FlushedLength ==
  ASSUME inst \in Instances, NEW r \in RouteType, Laid(r), Complete,
         Served(r) = Stations, SomeCatch \/ method = "ge"
  PROVE  HasItsLength(WithTotal(Flushed(r)))
<1> DEFINE v == WithTotal(Flushed(r))
           s == [first |-> r.first, last |-> Len(r.tour), catch |-> r.load, miles |-> r.leg]
           m == Total(MilesOf(r), DOMAIN r.segs)
<1>1. /\ v \in RouteType /\ v.tour = r.tour
      /\ v.total = Return(r) + Total(MilesOf(v), DOMAIN v.segs)
      /\ \/ v.segs = Append(r.segs, s)
         \/ v.segs = r.segs /\ r.load = 0 /\ method # "ge"
  BY FlushRoute
<1>2. s.miles = r.leg  OBVIOUS
<1> HIDE DEF v, s
<1>3. r.leg + m = TourMiles(r.tour)  BY DEF Laid, Measured, TourMiles
<1>4. Return(r) = Miles(LastOf(r.tour), inst.boat) /\ Return(r) \in Nat
  BY SomeVisit, ReturnIsLast, ReturnType DEF Laid
<1>5. m \in Int /\ r.leg \in Nat  BY MilesType, RouteParts
<1>6. Total(MilesOf(v), DOMAIN v.segs) = m + r.leg
  <2>1. CASE v.segs = Append(r.segs, s)
    BY <1>1, <1>2, <2>1, MilesGrow
  <2>2. CASE v.segs = r.segs /\ r.load = 0 /\ method # "ge"
    <3>1. r.leg = 0  BY <2>2, EmptyHold DEF Laid
    <3>2. MilesOf(v) = MilesOf(r)  BY <2>2 DEF MilesOf
    <3> QED BY <1>5, <2>2, <3>1, <3>2
  <2> QED BY <1>1, <2>1, <2>2
<1> HIDE DEF m
<1>7. v.total = TourMiles(v.tour) + Miles(LastOf(v.tour), inst.boat)
  BY <1>1, <1>3, <1>4, <1>5, <1>6
<1> QED BY <1>7 DEF HasItsLength, v

(* The segments of a route of which the last one is closed, or empty.      *)
LEMMA ClosedCuts ==
  ASSUME inst \in Instances, NEW r \in RouteType, Cut(r), SomeCatch,
         NEW v \in RouteType, v.visits = r.visits, v.tour = r.tour,
         NEW s, s.first = r.first, s.last = Len(r.tour), s.catch = r.load,
         v.segs = Append(r.segs, s) \/ (v.segs = r.segs /\ r.segs # <<>> /\ r.load = 0)
  PROVE  CutsItsTour(v)
<1> DEFINE n == Len(r.segs)
           o == Open(r)
<1>1. n \in Nat /\ o = n + 1 /\ Len(r.tour) \in Nat  BY RouteParts DEF Open
<1>2. \A k : MembersOf(v, k) = MembersOf(r, k)  BY SameMembers
<1>3. r.segs = <<>> <=> n = 0  BY RouteParts, EmptySeq
<1>4. CASE v.segs = Append(r.segs, s)
  <2>0. v.segs = Append(r.segs, s)  BY <1>4
  <2>1. /\ Len(v.segs) = Open(r) /\ Open(v) = Open(r) + 1 /\ v.segs # <<>>
        /\ Open(r) \in 1 .. Open(r)
        /\ \A k \in 1 .. Len(r.segs) : v.segs[k] = r.segs[k] /\ k \in 1 .. Open(r)
        /\ v.segs[Open(r)] = s
        /\ \A k \in 1 .. Open(r) : k \in 1 .. Len(r.segs) \/ k = Open(r)
    BY ONLY <2>0, r \in RouteType, v \in RouteType, SegsGrow
  <2>2. ASSUME NEW k \in 1 .. n
        PROVE  /\ v.segs[k].first = IF k = 1 THEN 1 ELSE v.segs[k - 1].last + 1
               /\ v.segs[k].catch = Total(inst.amount, MembersOf(v, k))
               /\ k # o
    <3>1. (k # 1 => k - 1 \in 1 .. n) /\ k # o  BY <1>1, <2>2
    <3>2. v.segs[k] = r.segs[k] /\ (k # 1 => v.segs[k - 1] = r.segs[k - 1])
      BY <2>1, <3>1
    <3> QED BY <1>2, <3>1, <3>2 DEF Cut
  <2>3. /\ v.segs[o].first = IF o = 1 THEN 1 ELSE v.segs[o - 1].last + 1
        /\ v.segs[o].last = Len(v.tour)
        /\ v.segs[o].catch = Total(inst.amount, MembersOf(v, o))
    <3>1. n # 0 => n \in 1 .. n /\ v.segs[n] = r.segs[n] /\ o - 1 = n  BY <1>1, <2>1
    <3>2. r.first = IF o = 1 THEN 1 ELSE v.segs[o - 1].last + 1
      BY <1>1, <1>3, <3>1 DEF Cut
    <3>3. r.load = Total(inst.amount, MembersOf(r, o))  BY DEF Cut
    <3> QED BY <1>2, <2>1, <3>2, <3>3
  <2>4. \A i \in 1 .. Len(v.visits) : v.visits[i].seg \in 1 .. Len(v.segs)
    BY <2>1 DEF Cut
  <2> QED BY <2>1, <2>2, <2>3, <2>4 DEF CutsItsTour
<1>5. CASE v.segs = r.segs /\ r.segs # <<>> /\ r.load = 0
  <2>1. MembersOf(r, o) = {} /\ r.first = Len(r.tour) + 1  BY <1>5, EmptyHold
  <2>2. ASSUME NEW i \in 1 .. Len(r.visits) PROVE r.visits[i].seg \in 1 .. n
    <3>1. r.visits[i].seg \in 1 .. o  BY DEF Cut
    <3>2. r.visits[i].seg # o
      <4>1. i \in DOMAIN r.visits /\ r.visits[i].station \in Stations  BY VisitsType
      <4> QED BY <2>1, <4>1 DEF MembersOf
    <3> QED BY <1>1, <3>1, <3>2
  <2>3. r.segs[n].last = Len(r.tour)
    <3>1. n \in 1 .. n  BY <1>1, <1>3, <1>5
    <3>2. r.segs[n].last \in Nat
      <4>1. r.segs[n] \in SegmentRecord  BY <3>1, RouteParts
      <4> QED BY <4>1 DEF SegmentRecord
    <3>3. r.first = r.segs[n].last + 1  BY <1>5 DEF Cut
    <3> QED BY <1>1, <2>1, <3>2, <3>3
  <2>4. \A k \in 1 .. n :
          /\ r.segs[k].first = IF k = 1 THEN 1 ELSE r.segs[k - 1].last + 1
          /\ r.segs[k].catch = Total(inst.amount, MembersOf(v, k))
    BY <1>2 DEF Cut
  <2> QED BY <1>5, <2>2, <2>3, <2>4 DEF CutsItsTour
<1> QED BY <1>4, <1>5

LEMMA FlushedCuts ==
  ASSUME inst \in Instances, NEW r \in RouteType, Cut(r), SomeCatch
  PROVE  CutsItsTour(WithTotal(Flushed(r)))
<1> DEFINE v == WithTotal(Flushed(r))
           s == [first |-> r.first, last |-> Len(r.tour), catch |-> r.load, miles |-> r.leg]
<1>1. /\ v \in RouteType /\ v.visits = r.visits /\ v.tour = r.tour
      /\ \/ v.segs = Append(r.segs, s)
         \/ v.segs = r.segs /\ r.segs # <<>> /\ r.load = 0
  <2>1. /\ v \in RouteType /\ v.visits = r.visits /\ v.tour = r.tour
        /\ \/ v.segs = Append(r.segs, s)
              /\ (method = "ge" \/ r.load > 0 \/ r.segs = <<>>)
           \/ v.segs = r.segs /\ r.segs # <<>> /\ r.load = 0 /\ method # "ge"
    BY FlushRoute
  <2> HIDE DEF v, s
  <2> QED BY <2>1
<1>2. s.first = r.first /\ s.last = Len(r.tour) /\ s.catch = r.load  OBVIOUS
<1> HIDE DEF v, s
<1>3. CutsItsTour(v)  BY <1>1, <1>2, ClosedCuts
<1> QED BY <1>3 DEF v

LEMMA FlushedAlone ==
  ASSUME inst \in Instances, NEW r \in RouteType, Light(r)
  PROVE  GiantsAlone(WithTotal(Flushed(r)))
<1> DEFINE v == WithTotal(Flushed(r))
           s == [first |-> r.first, last |-> Len(r.tour), catch |-> r.load, miles |-> r.leg]
<1>1. /\ v \in RouteType /\ v.visits = r.visits
      /\ v.segs = Append(r.segs, s) \/ v.segs = r.segs
  BY FlushRoute
<1>2. s.catch = r.load  OBVIOUS
<1> HIDE DEF v, s
<1>3. \A k : MembersOf(v, k) = MembersOf(r, k)  BY <1>1, SameMembers
<1>4. CASE v.segs = Append(r.segs, s)
  <2>1. /\ Len(v.segs) = Open(r)
        /\ \A k \in 1 .. Len(r.segs) : v.segs[k] = r.segs[k]
        /\ v.segs[Open(r)] = s
        /\ \A k \in 1 .. Open(r) : k \in 1 .. Len(r.segs) \/ k = Open(r)
    BY <1>1, <1>4, SegsGrow
  <2>2. GiantsAlone(v)  BY <1>2, <1>3, <2>1 DEF Light, GiantsAlone
  <2> QED BY <2>2 DEF v
<1>5. CASE v.segs = r.segs
  <2>1. GiantsAlone(v)  BY <1>3, <1>5 DEF Light, GiantsAlone
  <2> QED BY <2>1 DEF v
<1> QED BY <1>1, <1>4, <1>5

LEMMA FlushedInOrder ==
  ASSUME inst \in Instances, NEW r \in RouteType, Laid(r), Harboured(r),
         VisitsOnce(r), Served(r) = Stations, method = "ge" => r.anchor \in Stations
  PROVE  InOrder(WithTotal(Flushed(r)))
<1> DEFINE v == WithTotal(Flushed(r))
           s == [first |-> r.first, last |-> Len(r.tour), catch |-> r.load, miles |-> r.leg]
           n == Len(r.segs)
<1>1. /\ v \in RouteType /\ v.visits = r.visits /\ v.tour = r.tour
      /\ \/ v.segs = Append(r.segs, s) /\ (method = "ge" \/ r.load > 0 \/ r.segs = <<>>)
         \/ v.segs = r.segs /\ r.segs # <<>>
  BY FlushRoute
<1> HIDE DEF v, s
<1>2. \A k : MembersOf(v, k) = MembersOf(r, k)  BY <1>1, SameMembers
<1>3. Len(v.visits) = NumStations  BY <1>1, VisitsCounted
<1>4. n \in Nat /\ Open(r) = n + 1 /\ r.load \in Nat  BY RouteParts DEF Open
<1>5. CASE v.segs = Append(r.segs, s) /\ (method = "ge" \/ r.load > 0 \/ r.segs = <<>>)
  <2>0. v.segs = Append(r.segs, s) /\ v \in RouteType  BY <1>1, <1>5
  <2>1. /\ Len(v.segs) = Open(r) /\ Open(v) = Open(r) + 1 /\ v.segs # <<>>
        /\ Open(r) \in 1 .. Open(r)
        /\ \A k \in 1 .. Len(r.segs) : v.segs[k] = r.segs[k] /\ k \in 1 .. Open(r)
        /\ v.segs[Open(r)] = s
        /\ \A k \in 1 .. Open(r) : k \in 1 .. Len(r.segs) \/ k = Open(r)
    BY ONLY <2>0, r \in RouteType, SegsGrow
  <2>2. MembersOf(r, Open(r)) # {}
    <3>1. r.anchor \in Stations \/ r.segs = <<>>
      <4>1. r.load > 0 => r.anchor \in Stations  BY <1>4 DEF Laid, Placed
      <4> QED BY <1>5, <4>1
    <3>2. r.anchor \in Stations => r.anchor \in MembersOf(r, Open(r))
      BY DEF Laid, Placed
    <3> QED BY <3>1, <3>2, SomeVisit DEF Laid
  <2>3. \A k \in 1 .. Len(v.segs) : MembersOf(v, k) # {}
    BY <1>2, <2>1, <2>2 DEF Harboured
  <2>4. \A k \in 1 .. Len(v.segs) - 1 : v.tour[v.segs[k].last] \in PortLocations
    <3>1. \A k \in 1 .. Len(v.segs) - 1 : k \in 1 .. n  BY <1>4, <2>1
    <3> QED BY <1>1, <2>1, <3>1 DEF Harboured
  <2>5. InOrder(v)  BY <1>3, <2>1, <2>3, <2>4 DEF InOrder
  <2> QED BY <2>5 DEF v
<1>6. CASE v.segs = r.segs /\ r.segs # <<>>
  <2>1. \A k \in 1 .. n - 1 : k \in 1 .. n  BY <1>4
  <2>2. InOrder(v)  BY <1>1, <1>2, <1>3, <1>6, <2>1 DEF InOrder, Harboured
  <2> QED BY <2>2 DEF v
<1> QED BY <1>1, <1>5, <1>6

(* The order alone is one segment. *)
LEMMA OneSegmentResult ==
  ASSUME inst \in Instances, NEW r \in RouteType, Laid(r), r.segs = <<>>
  PROVE  /\ Complete /\ Served(r) = Stations => HasItsLength(OneSegment(r))
         /\ SomeCatch => CutsItsTour(OneSegment(r))
<1> DEFINE v == OneSegment(r)
           s == [first |-> r.first, last |-> Len(r.tour), catch |-> r.load,
                 miles |-> r.leg + Return(r)]
<1>1. /\ v \in RouteType /\ v.visits = r.visits /\ v.tour = r.tour
      /\ v.total = r.leg + Return(r) /\ v.segs = Append(r.segs, s)
  BY OneSegmentRoute
<1>2. s.first = r.first /\ s.last = Len(r.tour) /\ s.catch = r.load  OBVIOUS
<1> HIDE DEF v, s
<1>3. ASSUME Complete, Served(r) = Stations PROVE HasItsLength(v)
  <2>1. r.leg + Total(MilesOf(r), DOMAIN r.segs) = TourMiles(r.tour)
    BY <1>3 DEF Laid, Measured, TourMiles
  <2>2. Total(MilesOf(r), DOMAIN r.segs) = 0
    <3>1. DOMAIN r.segs = {}  OBVIOUS
    <3> QED BY <3>1, TotalEmpty
  <2>3. Return(r) = Miles(LastOf(r.tour), inst.boat) /\ Return(r) \in Nat /\ r.leg \in Nat
    BY <1>3, SomeVisit, ReturnIsLast, ReturnType, RouteParts DEF Laid
  <2> QED BY <1>1, <2>1, <2>2, <2>3 DEF HasItsLength
<1>4. ASSUME SomeCatch PROVE CutsItsTour(v)
  BY <1>1, <1>2, <1>4, ClosedCuts DEF Laid
<1> QED BY <1>3, <1>4 DEF v

-----------------------------------------------------------------------------
(* The steps *)

LEMMA ResultSame ==
  ASSUME UNCHANGED given
  PROVE  /\ HasItsLength(route)' <=> HasItsLength(route')
         /\ CutsItsTour(route)' <=> CutsItsTour(route')
         /\ GiantsAlone(route)' <=> GiantsAlone(route')
         /\ InOrder(route)' <=> InOrder(route')
         /\ (Complete' <=> Complete) /\ (SomeCatch' <=> SomeCatch)
         /\ method' = method /\ output' = output
<1>0. inst' = inst /\ method' = method /\ output' = output  BY DEF given
<1>1. Complete' <=> Complete  BY <1>0, CompleteSame
<1>2. HasItsLength(route)' <=> HasItsLength(route')
  BY <1>0 DEF HasItsLength, TourMiles, LastOf, LegsOf, Miles
<1>3. CutsItsTour(route)' <=> CutsItsTour(route')  BY <1>0 DEF CutsItsTour, MembersOf
<1>4. GiantsAlone(route)' <=> GiantsAlone(route')  BY <1>0 DEF GiantsAlone, MembersOf
<1>5. InOrder(route)' <=> InOrder(route')  BY <1>0 DEF InOrder, MembersOf, PortLocations
<1>6. SomeCatch' <=> SomeCatch  BY <1>0 DEF SomeCatch
<1> QED BY <1>0, <1>1, <1>2, <1>3, <1>4, <1>5, <1>6

LEMMA FlushResult ==
  ASSUME Inv, RouteInv, pc \in {"roam", "emit"}, UNCHANGED given,
         route' = WithTotal(Flushed(route)),
         Complete => Served(route) = Stations,
         method = "ge" => route.anchor \in Stations
  PROVE  ResultInv'
<1>1. /\ inst \in Instances /\ route \in RouteType /\ Laid(route) /\ VisitsOnce(route)
      /\ Complete => Light(route) /\ Harboured(route)
  BY DEF Inv, TypeOK, GraphType, VisitInv, RouteInv
<1>2. output = "segment"  BY DEF Inv, PhaseInv, Roams
<1>3. Complete /\ (SomeCatch \/ method = "ge") => HasItsLength(route')
  BY <1>1, FlushedLength
<1>4. SomeCatch => CutsItsTour(route')  BY <1>1, FlushedCuts DEF Laid
<1>5. Complete => GiantsAlone(route')  BY <1>1, FlushedAlone
<1>6. Complete => InOrder(route')  BY <1>1, FlushedInOrder
<1> QED BY <1>2, <1>3, <1>4, <1>5, <1>6, ResultSame DEF ResultInv

LEMMA NextResultInv ==
  ASSUME Inv, RouteInv, ResultInv, [Next]_vars
  PROVE  ResultInv'
<1>0. /\ inst \in Instances /\ route \in RouteType /\ order \in Seq(Stations)
  BY DEF Inv, TypeOK, GraphType
<1>1. CASE pc' \notin {"check", "done"}  BY <1>1 DEF ResultInv, Solved
<1>2. CASE Fail  BY <1>1, <1>2 DEF Fail
<1>3. CASE OutOfMemory \/ PostOptFails
  BY <1>2, <1>3 DEF OutOfMemory, PostOptFails
<1>4. ASSUME pc \in {"build", "emit"}, ~MoreToVisit(route) PROVE Served(route) = Stations
  <2>1. Everyone /\ Follows(route)  BY <1>4 DEF Inv, PhaseInv
  <2>2. Len(route.visits) = Len(order)
    <3>1. Len(route.visits) \in Nat /\ Len(order) \in Nat
      BY <1>0, VisitsType, OrderType
    <3> QED BY <1>4, <2>1, <3>1 DEF MoreToVisit, Follows
  <2> QED BY <1>0, <2>1, <2>2, AllServed
<1>5. CASE FlushGE \/ FlushCI
  <2>1. /\ pc = "emit" /\ ~MoreToVisit(route) /\ UNCHANGED given
        /\ route' = WithTotal(Flushed(route))
    BY <1>5 DEF FlushGE, FlushCI
  <2>2. route.anchor \in Stations  BY <2>1 DEF RouteInv
  <2> QED BY <1>4, <2>1, <2>2, FlushResult
<1>6. CASE RoamEnd
  <2>1. /\ pc = "roam" /\ UNCHANGED given /\ route' = WithTotal(Flushed(route))
    BY <1>6 DEF RoamEnd
  <2>2. method # "ge"  BY <2>1 DEF Inv, PhaseInv, Roams
  <2>3. Complete => Served(route) = Stations
    BY <1>0, <1>6, RoamEndsServed, VisitsType DEF Waiting
  <2> QED BY <2>1, <2>2, <2>3, FlushResult
<1>7. CASE EndFollow
  <2>1. CASE output = "construction"
    <3>1. /\ pc = "build" /\ ~MoreToVisit(route) /\ UNCHANGED given
          /\ route' = OneSegment(route)
      BY <1>7, <2>1 DEF EndFollow
    <3>2. Laid(route) /\ route.segs = <<>>  BY <3>1 DEF RouteInv
    <3>3. Served(route) = Stations  BY <1>4, <3>1
    <3>4. /\ Complete => HasItsLength(route')
          /\ SomeCatch => CutsItsTour(route')
      BY <1>0, <3>1, <3>2, <3>3, OneSegmentResult
    <3> QED BY <2>1, <3>1, <3>4, ResultSame DEF ResultInv
  <2>2. CASE output # "construction"
    BY <1>1, <1>7, <2>2 DEF EndFollow
  <2> QED BY <2>1, <2>2
<1>8. CASE Check
  <2>1. /\ pc = "check" /\ UNCHANGED given /\ route' = route  BY <1>8 DEF Check
  <2> QED BY <2>1, ResultSame DEF ResultInv, Solved
<1>9. CASE UNCHANGED vars
  <2>1. /\ pc' = pc /\ UNCHANGED given /\ route' = route  BY <1>9 DEF vars, given
  <2> QED BY <2>1, ResultSame DEF ResultInv, Solved
<1>10. CASE NextNearest
  BY <1>1, <1>2, <1>10 DEF NextNearest
<1>11. CASE ScanPair \/ EndEdges \/ StartCycle \/ EndInsert
  BY <1>1, <1>11 DEF ScanPair, EndEdges, StartCycle, EndInsert
<1>12. CASE InsertCheapest
  BY <1>1, <1>2, <1>12 DEF InsertCheapest
<1>13. CASE Follow \/ FollowGE \/ FollowCI
  BY <1>1, <1>2, <1>13 DEF Follow, FollowGE, FollowCI, FollowNext
<1>14. CASE EmitGE
  BY <1>1, <1>2, <1>14 DEF EmitGE, VisitFrom
<1>15. CASE EmitCI
  BY <1>1, <1>2, <1>15 DEF EmitCI, VisitFrom
<1>16. CASE RoamVisit
  BY <1>1, <1>2, <1>16 DEF RoamVisit
<1>17. CASE RoamPort
  BY <1>1, <1>17 DEF RoamPort
<1> QED BY <1>2, <1>3, <1>5, <1>6, <1>7, <1>8, <1>9, <1>10, <1>11, <1>12, <1>13, <1>14,
           <1>15, <1>16, <1>17 DEF Next, Work

LEMMA InitResult == Init => ResultInv
<1> SUFFICES ASSUME Init PROVE ResultInv  OBVIOUS
<1>1. pc \in {"roam", "nearest", "edges", "insert"}  BY DEF Init, Begin, Roams
<1> QED BY <1>1 DEF ResultInv, Solved

SolvedInv == Inv /\ RouteInv /\ ResultInv

(* While a route is laid out its open and closed segments cut the tour,    *)
(* carry the catch of their own stations and are as long as the legs are;  *)
(* and a solved route keeps that to its result.                            *)
THEOREM SolvedInvAlways == Spec => []SolvedInv
<1>1. Init => SolvedInv  BY InitInv, RouteInit, InitResult DEF SolvedInv
<1>2. SolvedInv /\ [Next]_vars => SolvedInv'
  BY NextInv, NextRouteInv, NextResultInv DEF SolvedInv
<1> QED BY <1>1, <1>2, PTL DEF Spec

LEMMA ResultsAddUp == SolvedInv => SegmentsAddUp
<1> SUFFICES ASSUME SolvedInv PROVE SegmentsAddUp  OBVIOUS
<1>1. inst \in Instances /\ route \in RouteType  BY DEF SolvedInv, Inv, TypeOK, GraphType
<1>2. LengthsAddUp
  <2> SUFFICES ASSUME Solved, Complete,
                      SomeCatch \/ method = "ge" \/ output = "construction"
               PROVE  route.total = PathMiles(Path(route))
    BY DEF LengthsAddUp
  <2>1. HasItsLength(route)  BY DEF SolvedInv, ResultInv
  <2> QED BY <1>1, <2>1, RouteParts, PathIsTour DEF HasItsLength
<1>3. SegmentsCutTour
  <2> SUFFICES ASSUME Solved, SomeCatch, route.tour # <<>>
               PROVE  LET n == Len(route.segs)
                      IN  /\ \A k \in 1 .. n :
                               /\ route.segs[k].first = IF k = 1 THEN 1 ELSE route.segs[k - 1].last + 1
                               /\ k = n => route.segs[k].last = Len(route.tour)
                               /\ route.segs[k].catch = MapThenSumSet(LAMBDA x : inst.amount[x], Members(k))
                          /\ \A v \in DOMAIN route.visits : route.visits[v].seg \in 1 .. n
    BY DEF SegmentsCutTour
  <2>1. CutsItsTour(route)  BY DEF SolvedInv, ResultInv
  <2>2. \A k : MapThenSumSet(LAMBDA x : inst.amount[x], Members(k)) = Total(inst.amount, Members(k))
    <3> TAKE k
    <3> DEFINE f == inst.amount
    <3>1. MapThenSumSet(LAMBDA x : f[x], Members(k)) = Total(f, Members(k))
      BY MapThenSumSetIsTotal
    <3> QED BY <3>1
  <2>3. \A k : Members(k) = MembersOf(route, k)  BY DEF Members, MembersOf
  <2>4. DOMAIN route.visits = 1 .. Len(route.visits)  BY <1>1, VisitsType
  <2> QED BY <2>1, <2>2, <2>3, <2>4 DEF CutsItsTour
<1> QED BY <1>2, <1>3 DEF SegmentsAddUp

(* What is written of a solved route accounts for it: the total distance is *)
(* the length of the tour, and the segments cut it into pieces, each with  *)
(* the catch of its stations.                                              *)
THEOREM SegmentsAlwaysAddUp == Spec => []SegmentsAddUp
<1>1. SolvedInv => SegmentsAddUp  BY ResultsAddUp
<1> QED BY <1>1, SolvedInvAlways, PTL

(* Segments over the target. *)
LEMMA GiantsFound == SolvedInv => OversizeAlone
<1> SUFFICES ASSUME SolvedInv, Solved, Complete, output = "segment"
             PROVE  \A k \in DOMAIN route.segs :
                      route.segs[k].catch > inst.target =>
                        \E x \in Members(k) : route.segs[k].catch = inst.amount[x]
  BY DEF OversizeAlone
<1>1. GiantsAlone(route) /\ route \in RouteType
  BY DEF SolvedInv, ResultInv, Inv, TypeOK
<1>2. DOMAIN route.segs = 1 .. Len(route.segs)  BY <1>1, RouteParts
<1>3. \A k : Members(k) = MembersOf(route, k)  BY DEF Members, MembersOf
<1> QED BY <1>1, <1>2, <1>3 DEF GiantsAlone

(* A survey without such stations passes the driver's checks.              *)
Ordinary ==
  /\ output = "segment"
  /\ Complete
  /\ SomeCatch
  /\ \A x \in Stations : inst.amount[x] <= inst.target
  /\ inst.target <= inst.capacity

LEMMA NoTowInPort ==
  ASSUME inst \in Instances, Complete, NEW k
  PROVE  InPort(k) = {}
<1> SUFFICES ASSUME NEW p \in Ports, NEW x \in Stations, inst.start[p] \in EndsOf(x)
             PROVE  FALSE
  BY DEF InPort, PortLocations, Members
<1>1. p \in Nodes \ {x} /\ inst.start[p] \in EndsOf(p)  BY NodeTypes DEF EndsOf
<1> QED BY <1>1 DEF Complete

LEMMA CheckFinds ==
  ASSUME SolvedInv, Ordinary, Check
  PROVE  verdict' = "feasible"
<1>1. /\ pc = "check" /\ inst \in Instances /\ route \in RouteType
      /\ Solved /\ VisitsOnce(route)
  BY DEF Check, SolvedInv, Inv, TypeOK, GraphType, VisitInv, Solved
<1>2. InOrder(route) /\ GiantsAlone(route)
  BY <1>1 DEF SolvedInv, ResultInv, Ordinary
<1>3. /\ DOMAIN route.segs = 1 .. Len(route.segs) /\ Len(route.segs) \in Nat
      /\ \A k \in 1 .. Len(route.segs) : route.segs[k].catch \in Nat
  <2>1. \A k \in 1 .. Len(route.segs) : route.segs[k] \in SegmentRecord
    BY <1>1, RouteParts
  <2> QED BY <1>1, <2>1, RouteParts DEF SegmentRecord
<1>4. \A k : Members(k) = MembersOf(route, k)  BY DEF Members, MembersOf
<1>5. Kept = 1 .. Len(route.segs)
  BY <1>2, <1>3, <1>4 DEF Kept, InOrder
<1>6. WithinCapacity
  <2> SUFFICES ASSUME NEW k \in 1 .. Len(route.segs)
               PROVE  route.segs[k].catch <= inst.capacity
    BY <1>5 DEF WithinCapacity
  <2>1. inst.target \in Nat /\ inst.capacity \in Nat /\ route.segs[k].catch \in Nat
    BY <1>1, <1>3, InstanceTypes
  <2>2. \A x \in MembersOf(route, k) : inst.amount[x] \in Nat /\ inst.amount[x] <= inst.target
    BY <1>1, MembersType DEF Ordinary
  <2>3. ~(route.segs[k].catch > inst.target)
    <3> SUFFICES ASSUME route.segs[k].catch > inst.target PROVE FALSE  OBVIOUS
    <3>1. PICK x \in MembersOf(route, k) : route.segs[k].catch = inst.amount[x]
      BY <1>2 DEF GiantsAlone
    <3> QED BY <2>1, <2>2, <3>1
  <2> QED BY <2>1, <2>3 DEF Ordinary
<1>7. UniqueAndComplete(route)
  BY <1>1, <1>2 DEF UniqueAndComplete, VisitsOnce, InOrder
<1>8. ValidBoundaries({})
  <2>1. Kept # {}
    <3>1. Len(route.segs) # 0  BY <1>1, <1>2, RouteParts, EmptySeq DEF InOrder
    <3>2. 1 \in 1 .. Len(route.segs)  BY <1>3, <3>1
    <3> QED BY <1>5, <3>2
  <2>2. ASSUME NEW k \in Kept, NEW later \in Kept, later > k PROVE EndsInPort(k)
    <3>1. k \in 1 .. Len(route.segs) - 1  BY <1>3, <1>5, <2>2
    <3> QED BY <1>2, <3>1 DEF InOrder, EndsInPort
  <2> QED BY <2>1, <2>2 DEF ValidBoundaries
<1>9. \A k : InPort(k) = {}  BY <1>1, NoTowInPort DEF Ordinary
<1>10. PICK P \in SUBSET {k \in Kept : InPort(k) # {}} :
         verdict' = IF output = "construction" THEN "order"
                    ELSE IF /\ WithinCapacity
                            /\ UniqueAndComplete(route)
                            /\ ValidBoundaries(P) THEN "feasible"
                    ELSE "infeasible"
  BY DEF Check
<1>11. P = {}  BY <1>9, <1>10
<1> QED BY <1>6, <1>7, <1>8, <1>10, <1>11 DEF Ordinary

VerdictInv == pc = "done" /\ Ordinary => verdict = "feasible"

LEMMA NextVerdictInv ==
  ASSUME SolvedInv, VerdictInv, [Next]_vars
  PROVE  VerdictInv'
<1>1. UNCHANGED given => (Ordinary' <=> Ordinary)
  <2> SUFFICES ASSUME UNCHANGED given PROVE Ordinary' <=> Ordinary  OBVIOUS
  <2>1. inst' = inst /\ output' = output  BY DEF given
  <2>2. Complete' <=> Complete  BY <2>1, CompleteSame
  <2> QED BY <2>1, <2>2 DEF Ordinary, SomeCatch
<1>2. CASE pc' # "done"  BY <1>2 DEF VerdictInv
<1>3. CASE Check
  <2>1. UNCHANGED given  BY <1>3 DEF Check
  <2> QED BY <1>1, <1>3, <2>1, CheckFinds DEF VerdictInv
<1>4. CASE UNCHANGED vars
  <2>1. UNCHANGED given /\ pc' = pc /\ verdict' = verdict  BY <1>4 DEF vars, given
  <2> QED BY <1>1, <2>1 DEF VerdictInv
<1>5. CASE Fail  BY <1>2, <1>5 DEF Fail
<1>6. CASE OutOfMemory \/ PostOptFails
  BY <1>5, <1>6 DEF OutOfMemory, PostOptFails
<1>7. CASE NextNearest \/ InsertCheapest
  BY <1>2, <1>5, <1>7 DEF NextNearest, InsertCheapest, SolvedInv, Inv, PhaseInv
<1>8. CASE ScanPair \/ EndEdges \/ StartCycle \/ EndInsert
  BY <1>2, <1>8 DEF ScanPair, EndEdges, StartCycle, EndInsert
<1>9. CASE Follow \/ FollowGE \/ FollowCI
  BY <1>2, <1>5, <1>9 DEF Follow, FollowGE, FollowCI, FollowNext
<1>10. CASE EndFollow  BY <1>2, <1>10 DEF EndFollow
<1>11. CASE EmitGE \/ EmitCI
  BY <1>2, <1>5, <1>11 DEF EmitGE, EmitCI, VisitFrom
<1>12. CASE RoamVisit \/ RoamPort \/ RoamEnd
  BY <1>2, <1>5, <1>12 DEF RoamVisit, RoamPort, RoamEnd
<1>13. CASE FlushGE \/ FlushCI  BY <1>2, <1>13 DEF FlushGE, FlushCI
<1> QED BY <1>3, <1>4, <1>5, <1>6, <1>7, <1>8, <1>9, <1>10, <1>11, <1>12, <1>13
        DEF Next, Work

(* Only a station that is too heavy by itself is over the target, and a    *)
(* survey without one, whose matrix is complete, is found feasible.        *)
THEOREM OnlyGiantsEverOverload == Spec => []OnlyGiantsOverload
<1>1. Init => VerdictInv
  <2> SUFFICES ASSUME Init PROVE VerdictInv  OBVIOUS
  <2>1. pc \in {"roam", "nearest", "edges", "insert"}  BY DEF Init, Begin, Roams
  <2> QED BY <2>1 DEF VerdictInv
<1>2. SolvedInv /\ VerdictInv /\ [Next]_vars => VerdictInv'  BY NextVerdictInv
<1>3. SolvedInv /\ VerdictInv => OnlyGiantsOverload
  BY GiantsFound DEF VerdictInv, Ordinary, OnlyGiantsOverload, OrdinaryIsFeasible
<1> QED BY <1>1, <1>2, <1>3, SolvedInvAlways, PTL DEF Spec
=============================================================================
