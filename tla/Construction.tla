---------------------------- MODULE Construction ----------------------------
(***************************************************************************)
(* The construction heuristics of the init mode: nearest neighbour (nn),   *)
(* greedy edge (ge) and cheapest insertion (ci), each either as an order   *)
(* of the stations only (output "construction") or with visits to ports    *)
(* when the boat is full (output "segment"), and the driver's verdict on   *)
(* the result, which it writes as "feasible".                              *)
(*                                                                         *)
(* Nodes are the stations 1 .. NumStations and the ports after them; a     *)
(* tow leads from one location to another, a port is one location. A       *)
(* distance that is not positive counts as missing, as in the code.        *)
(***************************************************************************)
EXTENDS Integers, Sequences, FiniteSets, FiniteSetsExt, Functions, SequencesExt

CONSTANTS
  NumStations,  \* stations in the database, at least one
  NumPorts,     \* ports in the database
  Locations,    \* of boat, tows and ports
  Instances,    \* the data of a run: see InstanceType
  MaxSegments   \* bound on port visits: nn may insert ports for ever

Stations == 1 .. NumStations
Ports == NumStations + 1 .. NumStations + NumPorts
Nodes == Stations \cup Ports
NoNode == 0

(* boat: where it starts and ends; start, end: the two ends of each node's *)
(* tow; miles: the matrix, -1 where the database has no row; amount: the   *)
(* expected catch; capacity: of the boat; target: less the slack.          *)
InstanceType ==
  [boat : Locations, start : [Nodes -> Locations], end : [Nodes -> Locations],
   miles : [Locations \X Locations -> Int], amount : [Stations -> Nat],
   capacity : Nat \ {0}, target : Nat \ {0}]

ASSUME SizeAssumption ==
  /\ NumStations \in Nat \ {0}
  /\ NumPorts \in Nat
  /\ MaxSegments \in Nat

ASSUME InstanceAssumption ==
  /\ Instances \subseteq InstanceType
  /\ \A i \in Instances : \A p \in Ports : i.start[p] = i.end[p]

VARIABLES
  inst,     \* the instance
  method,   \* strategy: "nn", "ge" or "ci"
  output,   \* by the name of the output file: "construction" or "segment"
  pc,
  order,    \* station order; during ci the cycle built so far
  rest,     \* ge: pairs not yet scanned
  adj,      \* ge: the neighbours of each station, in the order they were linked
  comp,     \* ge: a representative of the component of each station
  route,    \* the solution under construction
  verdict   \* what is returned or written: "none", "error" or the flags

vars == <<inst, method, output, pc, order, rest, adj, comp, route, verdict>>

-----------------------------------------------------------------------------
(* Distances *)

Miles(a, b) == inst.miles[<<a, b>>]
EndsOf(n) == {inst.start[n], inst.end[n]}

(* The element of S with the least key, the first of several. *)
First(S, key(_)) ==
  CHOOSE x \in S : \A y \in S : key(x) < key(y) \/ (key(x) = key(y) /\ x <= y)

Missing == -1

MinPair(a, b) ==
  LET D == {d \in {Miles(x, y) : x \in EndsOf(a), y \in EndsOf(b)} : d > 0}
  IN  IF D = {} THEN Missing ELSE Min(D)

(* A distance of zero wins here, though it makes the station ineligible. *)
FromLocation(l, x) ==
  LET D == {d \in {Miles(l, y) : y \in EndsOf(x)} : d >= 0}
  IN  IF D = {} THEN Miles(l, inst.end[x]) ELSE Min(D)

PortNear(reach(_)) ==
  LET P == {p \in Ports : reach(p) > 0}
  IN  IF P = {} THEN NoNode ELSE First(P, reach)

NearestPort(l) == PortNear(LAMBDA p : Miles(l, inst.start[p]))
NearestPortOf(n) == PortNear(LAMBDA p : MinPair(n, p))

(* How to traverse station x when coming from l: added is what it takes to *)
(* reach and to tow it, Missing if that is not possible.                   *)
Traverse(l, x) ==
  LET s == inst.start[x]
      e == inst.end[x]
      Via(a, b) == IF Miles(l, a) > 0 /\ Miles(a, b) > 0
                     THEN Miles(l, a) + Miles(a, b) ELSE Missing
      forth == [entry |-> s, exit |-> e,
                added |-> IF s # e THEN Via(s, e)
                          ELSE IF Miles(l, s) > 0 THEN Miles(l, s) ELSE Missing]
      back == [entry |-> e, exit |-> s, added |-> Via(e, s)]
  IN  IF /\ s # e
         /\ back.added > 0
         /\ (forth.added < 0 \/ back.added < forth.added)
        THEN back ELSE forth

CanTraverse(l, x) == Traverse(l, x).added > 0

-----------------------------------------------------------------------------
(* The solution under construction. A segment is an interval of the tour.  *)

EmptyRoute ==
  [at |-> inst.boat, anchor |-> NoNode, load |-> 0, leg |-> 0, tour |-> <<>>,
   visits |-> <<>>, segs |-> <<>>, first |-> 1, total |-> 0]

Served(r) == {r.visits[k].station : k \in DOMAIN r.visits}
Waiting(r) == Stations \ Served(r)

Emit(r, x) ==
  LET t == Traverse(r.at, x)
  IN  [r EXCEPT !.at = t.exit, !.anchor = x, !.leg = @ + t.added,
                !.load = @ + inst.amount[x],
                !.tour = @ \o (IF t.entry = t.exit THEN <<t.entry>>
                               ELSE <<t.entry, t.exit>>),
                !.visits = Append(@, [station |-> x, seg |-> Len(r.segs) + 1])]

(* Close the open segment at its present end. *)
CloseSegment(r) ==
  [r EXCEPT !.segs = Append(@, [first |-> r.first, last |-> Len(r.tour),
                                catch |-> r.load, miles |-> r.leg])]

(* Mutants of InsertPort: the next segment begins with the port; the boat   *)
(* leaves laden.                                                            *)
InsertPortAgain(r, p) ==
  LET d == Miles(r.at, inst.start[p])
      arrived == [r EXCEPT !.leg = IF d > 0 THEN @ + d ELSE @,
                           !.tour = Append(@, inst.start[p])]
  IN  [CloseSegment(arrived) EXCEPT
         !.at = inst.start[p], !.anchor = p, !.load = 0, !.leg = 0,
         !.first = Len(arrived.tour)]
InsertPortLaden(r, p) ==
  LET arrived == [r EXCEPT !.tour = Append(@, inst.start[p])]
  IN  [CloseSegment(arrived) EXCEPT
         !.at = inst.start[p], !.anchor = p, !.leg = 0,
         !.first = Len(arrived.tour) + 1]

InsertPort(r, p) ==
  LET l == inst.start[p]
      d == Miles(r.at, l)
      arrived == [r EXCEPT !.leg = IF d > 0 THEN @ + d ELSE @,
                           !.tour = Append(@, l)]
  IN  [CloseSegment(arrived) EXCEPT !.at = l, !.anchor = p, !.load = 0,
                                    !.leg = 0, !.first = Len(arrived.tour) + 1]

Return(r) ==
  LET d == Miles(r.at, inst.boat) IN IF d > 0 THEN d ELSE 0

WithTotal(r) ==
  [r EXCEPT !.total = Return(r) +
     FoldFunction(LAMBDA s, sum : s.miles + sum, 0, r.segs)]

Full(r) == r.load >= inst.target
Overfills(r, x) == r.load > 0 /\ r.load + inst.amount[x] > inst.target

-----------------------------------------------------------------------------
(* Start: what is asked for decides what is built first. *)

Roams(m, o) == m = "nn" /\ o = "segment"

Begin ==
  CASE Roams(method, output) -> "roam"
    [] method = "nn" /\ ~Roams(method, output) -> "nearest"
    [] method = "ge" -> "edges"
    [] method = "ci" -> "insert"

Init ==
  /\ inst \in Instances
  /\ method \in {"nn", "ge", "ci"}
  /\ output \in {"construction", "segment"}
  /\ pc = Begin
  /\ order = <<>>
  /\ rest = {p \in Stations \X Stations : p[1] < p[2]}
  /\ adj = [x \in Stations |-> <<>>]
  /\ comp = [x \in Stations |-> x]
  /\ route = EmptyRoute
  /\ verdict = "none"

given == <<inst, method, output>>
graph == <<rest, adj, comp>>

Fail ==
  /\ pc' = "failed"
  /\ verdict' = "error"
  /\ UNCHANGED <<given, order, graph, route>>

-----------------------------------------------------------------------------
(* build_nn_station_order: the next station is the nearest, counting the   *)
(* tow itself.                                                             *)

Ordered == {order[k] : k \in DOMAIN order}

NextNearest ==
  /\ pc = "nearest"
  /\ LET near == {x \in Stations \ Ordered : CanTraverse(route.at, x)}
     IN  IF near = {} THEN Fail
         ELSE \E best \in near :
              /\ best = First(near, LAMBDA x : Traverse(route.at, x).added)
              /\ order' = Append(order, best)
              /\ route' = IF Len(order') = NumStations THEN EmptyRoute
                          ELSE [route EXCEPT !.at = Traverse(route.at, best).exit]
              /\ pc' = IF Len(order') = NumStations THEN "build" ELSE "nearest"
              /\ UNCHANGED <<given, graph, verdict>>

-----------------------------------------------------------------------------
(* build_station_order of ge: link the closest pairs that leave every      *)
(* station with at most two neighbours and close no cycle but the last.    *)

Used == FoldFunction(LAMBDA a, sum : Len(a) + sum, 0, adj) \div 2

Lighter(p, q) ==
  LET w == MinPair(p[1], p[2])
      z == MinPair(q[1], q[2])
  IN  \/ w < z
      \/ w = z /\ (p[1] < q[1] \/ (p[1] = q[1] /\ p[2] < q[2]))

(* Mutant of Linkable: a cycle may be closed only when nothing is missing. *)
LinkableLate(u, v) ==
  /\ MinPair(u, v) >= 0
  /\ Len(adj[u]) < 2
  /\ Len(adj[v]) < 2
  /\ comp[u] = comp[v] => Used = NumStations

Linkable(u, v) ==
  /\ MinPair(u, v) >= 0
  /\ Len(adj[u]) < 2
  /\ Len(adj[v]) < 2
  /\ comp[u] = comp[v] => Used = NumStations - 1

ScanPair ==
  /\ pc = "edges"
  /\ NumStations > 1
  /\ rest # {}
  /\ Used < NumStations
  /\ \E p \in rest :
       /\ \A q \in rest \ {p} : Lighter(p, q)
       /\ rest' = rest \ {p}
       /\ LET u == p[1]
              v == p[2]
          IN  IF Linkable(u, v)
                THEN /\ adj' = [adj EXCEPT ![u] = Append(@, v), ![v] = Append(@, u)]
                     /\ comp' = [x \in Stations |->
                                   IF comp[x] = comp[v] THEN comp[u] ELSE comp[x]]
                ELSE UNCHANGED <<adj, comp>>
  /\ UNCHANGED <<given, pc, order, route, verdict>>

(* Mutant of Walk: always to the neighbour linked first. *)
WalkForward ==
  LET step[k \in 1 .. NumStations] ==
        IF k = 1 THEN 1 ELSE adj[step[k - 1]][1]
  IN  step

(* From the first station on, always to the neighbour not come from. *)
Walk ==
  LET step[k \in 1 .. NumStations] ==
        IF k = 1 THEN [cur |-> 1, prev |-> NoNode]
        ELSE LET here == step[k - 1]
             IN  [prev |-> here.cur,
                  cur |-> IF adj[here.cur][1] # here.prev
                            THEN adj[here.cur][1] ELSE adj[here.cur][2]]
  IN  [k \in 1 .. NumStations |-> step[k].cur]

Cycled == Used = NumStations /\ \A x \in Stations : Len(adj[x]) = 2

ByIndex == [k \in 1 .. NumStations |-> k]

EndEdges ==
  /\ pc = "edges"
  /\ NumStations = 1 \/ rest = {} \/ Used = NumStations
  /\ order' = IF NumStations > 1 /\ Cycled THEN Walk ELSE ByIndex
  /\ pc' = "build"
  /\ UNCHANGED <<given, graph, route, verdict>>

-----------------------------------------------------------------------------
(* build_station_order_ci: start from the closest pair, then insert the    *)
(* station and at the place that lengthen the cycle least.                 *)

ClosestPair ==
  LET P == {p \in Stations \X Stations :
              p[1] < p[2] /\ MinPair(p[1], p[2]) > 0}
  IN  IF P = {} THEN <<1, 2>>
      ELSE CHOOSE p \in P : \A q \in P \ {p} : Lighter(p, q)

After(k) == 1 + (k % Len(order))

(* Mutant of Delta: the way on from the station is not counted. *)
DeltaOfOne(u, k) ==
  MinPair(order[k], u) - Max({MinPair(order[k], order[After(k)]), 0})

Delta(u, k) ==
  MinPair(order[k], u) + MinPair(u, order[After(k)])
    - Max({MinPair(order[k], order[After(k)]), 0})

Insertions ==
  {c \in (Stations \ Ordered) \X DOMAIN order :
     /\ MinPair(order[c[2]], c[1]) >= 0
     /\ MinPair(c[1], order[After(c[2])]) >= 0}

Cheapest(c) ==
  \A d \in Insertions \ {c} :
    \/ Delta(c[1], c[2]) < Delta(d[1], d[2])
    \/ /\ Delta(c[1], c[2]) = Delta(d[1], d[2])
       /\ c[1] < d[1] \/ (c[1] = d[1] /\ c[2] < d[2])

Inserted(s, place, u) ==
  SubSeq(s, 1, place - 1) \o <<u>> \o SubSeq(s, place, Len(s))

StartCycle ==
  /\ pc = "insert"
  /\ order = <<>>
  /\ order' = IF NumStations = 1 THEN <<1>> ELSE ClosestPair
  /\ UNCHANGED <<given, pc, graph, route, verdict>>

InsertCheapest ==
  /\ pc = "insert"
  /\ Len(order) \in 1 .. NumStations - 1
  /\ IF Insertions = {} THEN Fail
     ELSE \E c \in Insertions :
          /\ Cheapest(c)
          /\ order' = Inserted(order, After(c[2]), c[1])
          /\ UNCHANGED <<given, pc, graph, route, verdict>>

EndInsert ==
  /\ pc = "insert"
  /\ Len(order) = NumStations
  /\ pc' = "build"
  /\ UNCHANGED <<given, order, graph, route, verdict>>

-----------------------------------------------------------------------------
(* The order as one segment without ports. With output "construction" that *)
(* is the solution; greedy edge and cheapest insertion with output         *)
(* "segment" keep it beside (pre_capacity_sol) and go on, each with a copy *)
(* of its own of the steps.                                                *)

Next1(r) == order[Len(r.visits) + 1]
MoreToVisit(r) == Len(r.visits) < Len(order)

FollowNext ==
  /\ pc = "build"
  /\ MoreToVisit(route)
  /\ IF CanTraverse(route.at, Next1(route))
       THEN /\ route' = Emit(route, Next1(route))
            /\ UNCHANGED <<given, pc, order, graph, verdict>>
       ELSE Fail

Follow == output = "construction" /\ FollowNext
FollowGE == output = "segment" /\ method = "ge" /\ FollowNext
FollowCI == output = "segment" /\ method = "ci" /\ FollowNext

OneSegment(r) ==
  LET back == [r EXCEPT !.leg = @ + Return(r)]
  IN  [CloseSegment(back) EXCEPT !.total = back.leg]

EndFollow ==
  /\ pc = "build"
  /\ ~MoreToVisit(route)
  /\ IF output = "construction"
       THEN pc' = "check" /\ route' = OneSegment(route)
       ELSE pc' = "emit" /\ route' = EmptyRoute
  /\ UNCHANGED <<given, order, graph, verdict>>

-----------------------------------------------------------------------------
(* gi_solve and ci_solve: the stations in order, with a port before one    *)
(* that does not fit and after one that fills the boat.                    *)

PortsFrom(l) == {NearestPort(l)} \ {NoNode}

(* The ways to be ready for the next station: none if it does not fit and  *)
(* no port can be reached.                                                 *)
Ready ==
  IF Overfills(route, Next1(route))
    THEN {InsertPort(route, p) : p \in PortsFrom(route.at)} ELSE {route}

PortAfter(r) ==
  IF Full(r) /\ MoreToVisit(r) /\ PortsFrom(r.at) # {}
    THEN {InsertPort(r, p) : p \in PortsFrom(r.at)} ELSE {r}

VisitFrom(r) ==
  IF CanTraverse(r.at, Next1(r))
    THEN /\ \E visited \in {Emit(r, Next1(r))} : route' \in PortAfter(visited)
         /\ UNCHANGED <<given, pc, order, graph, verdict>>
    ELSE Fail

(* Greedy edge gives up when a port is needed and none can be reached. *)
EmitGE ==
  /\ pc = "emit"
  /\ method = "ge"
  /\ MoreToVisit(route)
  /\ IF Ready = {} THEN Fail ELSE \E r \in Ready : VisitFrom(r)

(* Cheapest insertion goes on without the port. *)
EmitCI ==
  /\ pc = "emit"
  /\ method = "ci"
  /\ MoreToVisit(route)
  /\ \E r \in IF Ready = {} THEN {route} ELSE Ready : VisitFrom(r)

(* The last segment: always written by ge, by the others when it has catch *)
(* or would be the only one.                                               *)
Flushed(r) ==
  IF method = "ge" \/ r.load > 0 \/ r.segs = <<>> THEN CloseSegment(r) ELSE r

FlushGE ==
  /\ pc = "emit"
  /\ method = "ge"
  /\ ~MoreToVisit(route)
  /\ route' = WithTotal(Flushed(route))
  /\ pc' = "check"
  /\ UNCHANGED <<given, order, graph, verdict>>

FlushCI ==
  /\ pc = "emit"
  /\ method = "ci"
  /\ ~MoreToVisit(route)
  /\ route' = WithTotal(Flushed(route))
  /\ pc' = "check"
  /\ UNCHANGED <<given, order, graph, verdict>>

-----------------------------------------------------------------------------
(* nn_solve: no order first; go to the nearest station that fits, to the   *)
(* nearest port when there is none.                                        *)

Reach(x) ==
  IF route.anchor = NoNode THEN FromLocation(inst.boat, x)
                           ELSE MinPair(route.anchor, x)

Fitting == {x \in Waiting(route) : ~Overfills(route, x) /\ Reach(x) > 0}

PortWhenFull(r) ==
  IF Full(r) /\ Waiting(r) # {} /\ NearestPortOf(r.anchor) # NoNode
    THEN InsertPort(r, NearestPortOf(r.anchor)) ELSE r

RoamVisit ==
  /\ pc = "roam"
  /\ \E x \in Fitting :
       /\ x = First(Fitting, Reach)
       /\ IF CanTraverse(route.at, x)
            THEN /\ \E r \in {Emit(route, x)} : route' = PortWhenFull(r)
                 /\ UNCHANGED <<given, pc, order, graph, verdict>>
            ELSE Fail

PortNext ==
  IF route.anchor = NoNode THEN NoNode ELSE NearestPortOf(route.anchor)

(* The bound is not in the code: without it the boat may go from port to   *)
(* port for ever, when no port reaches a station that is left.             *)
RoamPort ==
  /\ pc = "roam"
  /\ Waiting(route) # {}
  /\ Fitting = {}
  /\ PortNext # NoNode
  /\ Len(route.segs) < MaxSegments
  /\ route' = InsertPort(route, PortNext)
  /\ UNCHANGED <<given, pc, order, graph, verdict>>

(* All served, or no way on. *)
RoamEnd ==
  /\ pc = "roam"
  /\ Waiting(route) = {} \/ (Fitting = {} /\ PortNext = NoNode)
  /\ route' = WithTotal(Flushed(route))
  /\ pc' = "check"
  /\ UNCHANGED <<given, order, graph, verdict>>

-----------------------------------------------------------------------------
(* Any of the heuristics may run out of memory. *)
OutOfMemory ==
  /\ pc \notin {"check", "done", "failed"}
  /\ Fail

(* The driver's checks. *)
PortLocations == {inst.start[p] : p \in Ports}

UniqueAndComplete(r) ==
  /\ Len(r.visits) = NumStations
  /\ IsInjective([k \in DOMAIN r.visits |-> r.visits[k].station])

Members(k) ==
  {x \in Stations : \E v \in DOMAIN route.visits :
                      route.visits[v].station = x /\ route.visits[v].seg = k}

(* The post-optimisation before the checks leaves out segments without     *)
(* stations and puts the stations of each in an order of its own           *)
(* (Segmentation): what the checks see of it is which segments start in a  *)
(* port, because a tow of theirs does.                                     *)
Kept == {k \in DOMAIN route.segs : Members(k) # {}}
InPort(k) == {a \in PortLocations : \E x \in Members(k) : a \in EndsOf(x)}
AtSea(k) == {a \in Locations \ PortLocations : \E x \in Members(k) : a \in EndsOf(x)}

EndsInPort(k) == route.tour[route.segs[k].last] \in PortLocations

(* Mutant of ValidBoundaries: the last segment, too, must end in a port. *)
PortsOnly(startsInPort) ==
  /\ startsInPort = {}
  /\ \A k \in Kept : EndsInPort(k)

ValidBoundaries(startsInPort) ==
  /\ Kept # {}
  /\ startsInPort = {}
  /\ \A k \in Kept : (\E later \in Kept : later > k) => EndsInPort(k)

WithinCapacity == \A k \in Kept : route.segs[k].catch <= inst.capacity

(* The order alone is not classified. *)
Check ==
  /\ pc = "check"
  /\ \E P \in SUBSET {k \in Kept : InPort(k) # {}} :
       /\ \A k \in Kept \ P : AtSea(k) # {}
       /\ verdict' = IF output = "construction" THEN "order"
                     ELSE IF /\ WithinCapacity
                             /\ UniqueAndComplete(route)
                             /\ ValidBoundaries(P) THEN "feasible"
                     ELSE "infeasible"
  /\ pc' = "done"
  /\ UNCHANGED <<given, order, graph, route>>

PostOptFails ==
  /\ pc = "check"
  /\ output = "segment"
  /\ Fail

Work ==
  \/ NextNearest
  \/ ScanPair \/ EndEdges
  \/ StartCycle \/ InsertCheapest \/ EndInsert
  \/ Follow \/ FollowGE \/ FollowCI \/ EndFollow
  \/ EmitGE \/ FlushGE \/ EmitCI \/ FlushCI
  \/ RoamVisit \/ RoamPort \/ RoamEnd
  \/ Check

Next == OutOfMemory \/ PostOptFails \/ Work

Spec == Init /\ [][Next]_vars

(* The process runs on; that memory runs out is not what ends it. *)
FairSpec == Spec /\ WF_vars(Work)

-----------------------------------------------------------------------------
(* Properties *)

Solved == pc \in {"check", "done"}

(* Every station has a known distance to the dock, to every other station  *)
(* and to every port, and no two places coincide, but a port and the dock: *)
(* what the database of a survey holds.                                    *)
Complete ==
  /\ Ports # {}
  /\ \A x \in Stations : CanTraverse(inst.boat, x)
  /\ \A x \in Stations : \A a \in EndsOf(x) :
       Miles(inst.boat, a) > 0 /\ Miles(a, inst.boat) > 0
  /\ \A p \in Ports : Miles(inst.start[p], inst.boat) >= 0
  /\ \A x \in Stations : \A n \in Nodes \ {x} :
       \A a \in EndsOf(x), b \in EndsOf(n) :
         a # b /\ Miles(a, b) > 0 /\ Miles(b, a) > 0

(* Whatever is missing in the matrix, what ge and ci return, and nn for    *)
(* an order, visits each station exactly once; nn with ports may leave     *)
(* stations out, but visits none twice. The walk along the links of greedy *)
(* edge and the shifts of cheapest insertion are what could break it.      *)
VisitedOnce ==
  /\ IsInjective([k \in DOMAIN route.visits |-> route.visits[k].station])
  /\ Solved /\ ~Roams(method, output) => Served(route) = Stations
  /\ Solved /\ Complete => Served(route) = Stations

(* Greedy edge, when no distance is missing, always closes a cycle through *)
(* all of three or more stations: the pair that closes it is never among   *)
(* those it has passed over. The order follows that cycle.                 *)
GreedyCloses ==
  method = "ge" /\ pc = "build" /\ Complete /\ NumStations >= 3 =>
    \A k \in DOMAIN order : order[After(k)] \in Range(adj[order[k]])

CycleMiles(s) ==
  FoldFunctionOnSet(+, 0, [k \in DOMAIN s |-> MinPair(s[k], s[1 + (k % Len(s))])],
                    DOMAIN s)

(* Each insertion makes the cycle no longer than any other station put at  *)
(* any other place would: the delta is the true one, and the station lands *)
(* between the two it was computed for, the wrap-around included.          *)
InsertsCheapest ==
  [][pc = "insert" /\ Len(order) >= 2 /\ Len(order') > Len(order) /\ Complete =>
       \A u \in Stations \ Ordered, k \in 1 .. Len(order) + 1 :
         CycleMiles(order') <= CycleMiles(Inserted(order, k, u))]_order

Path(r) == <<inst.boat>> \o r.tour \o <<inst.boat>>
PathMiles(p) ==
  FoldFunctionOnSet(+, 0, [k \in 1 .. Len(p) - 1 |-> Miles(p[k], p[k + 1])],
                    1 .. Len(p) - 1)

(* No station is without catch. *)
SomeCatch == \A x \in Stations : inst.amount[x] > 0

(* The total distance, added up leg by leg in the open segment and then    *)
(* over the segments, is the length of the tour from the dock and back: no *)
(* leg to or from a port is lost or counted twice. (Only greedy edge keeps *)
(* the way to stations without catch behind the last port.)                *)
LengthsAddUp ==
  Solved /\ Complete /\ (SomeCatch \/ method = "ge" \/ output = "construction") =>
    route.total = PathMiles(Path(route))

(* The segments written cut the tour into consecutive pieces, one after    *)
(* each port; each holds the catch of the stations marked with it, and no  *)
(* station is marked with a segment that does not exist. (Stations without *)
(* catch at the end do get lost by nn and ci, hence the condition.)        *)
SegmentsCutTour ==
  Solved /\ SomeCatch /\ route.tour # <<>> =>
    LET n == Len(route.segs)
    IN  /\ \A k \in 1 .. n :
             /\ route.segs[k].first = IF k = 1 THEN 1 ELSE route.segs[k - 1].last + 1
             /\ k = n => route.segs[k].last = Len(route.tour)
             /\ route.segs[k].catch = MapThenSumSet(LAMBDA x : inst.amount[x], Members(k))
        /\ \A v \in DOMAIN route.visits : route.visits[v].seg \in 1 .. n

(* The segments written account for the tour: its length, its stations and *)
(* their catch.                                                            *)
SegmentsAddUp == LengthsAddUp /\ SegmentsCutTour

(* With ports in reach no segment is over the target unless a station by   *)
(* itself is: all that is on board then is its catch.                      *)
OversizeAlone ==
  Solved /\ Complete /\ output = "segment" =>
    \A k \in DOMAIN route.segs :
      route.segs[k].catch > inst.target =>
        \E x \in Members(k) : route.segs[k].catch = inst.amount[x]

(* The verdict is "feasible" whenever no station alone exceeds the target, *)
(* none is without catch, no tow starts or ends in a port, and the matrix  *)
(* is complete, for all three heuristics.                                  *)
OrdinaryIsFeasible ==
  /\ pc = "done"
  /\ output = "segment"
  /\ Complete
  /\ SomeCatch
  /\ \A x \in Stations : inst.amount[x] <= inst.target
  /\ inst.target <= inst.capacity
  => verdict = "feasible"

(* Only a station that is too heavy by itself spoils a survey.             *)
OnlyGiantsOverload == OversizeAlone /\ OrdinaryIsFeasible

(* Every heuristic ends: with a complete matrix nearest neighbour never    *)
(* goes from port to port.                                                 *)
Ends == Complete => <>(pc \in {"done", "failed"})
=============================================================================
