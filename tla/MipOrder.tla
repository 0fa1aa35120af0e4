------------------------------ MODULE MipOrder ------------------------------
(***************************************************************************)
(* The mixed-integer programs that order stations: the directed tour of a  *)
(* segment or of all stations (solve_mip_endpaired_tsp, solve_mip_noport)  *)
(* and the tour that also calls at given ports and never overloads the     *)
(* boat (solve_mip_fixedport); and the two programs that write such an     *)
(* order of all stations. The solver is external: it proposes any better   *)
(* solution of the constraints, asks the callback, and may stop any time.  *)
(***************************************************************************)
EXTENDS PairedTour

CONSTANTS
  Locations,
  Instances,   \* see InstanceType
  Far          \* 1e12: the distance of locations the database has no row for

Kinds == {"segment", "noport", "split", "fixedport"}

(* dock, endDock: where the route starts and ends; listed: ports to call   *)
(* at; start, end, amount: of each station; miles: -1 if there is no row.  *)
InstanceType ==
  [kind : Kinds, dock : Locations, endDock : Locations, listed : Seq(Locations),
   start : Seq(Locations), end : Seq(Locations), amount : Seq(Nat),
   capacity : Nat, miles : [Locations \X Locations -> Int], limited : BOOLEAN]

(* A survey has a station (all callers but noport refuse without one), and *)
(* the database has each distance in both directions.                      *)
ASSUME InstanceAssumption ==
  \A i \in Instances :
    /\ i \in InstanceType
    /\ Len(i.start) >= 1
    /\ Len(i.end) = Len(i.start) /\ Len(i.amount) = Len(i.start)
    /\ \A a, b \in Locations : i.miles[<<a, b>>] = i.miles[<<b, a>>]
ASSUME FarAssumption == Far \in Nat

VARIABLES
  inst,
  phase,    \* from "search" to "done" or "failed"
  limited,  \* is there a time limit?
  cuts,     \* node sets of the subtours cut off so far
  best,     \* the incumbent: none, or one solution with its cost
  status,   \* why the solver stopped
  order,    \* signed_station_ids or signed_visit_ids
  file      \* "old", "empty" or "complete"

vars == <<inst, phase, limited, cuts, best, status, order, file>>

-----------------------------------------------------------------------------
(* The constraints *)

Sum(f) == FoldFunctionOnSet(+, 0, f, DOMAIN f)

CallsAtPorts(i) == i.kind \in {"split", "fixedport"}

(* Of the candidates the program drops one at the boat's own dock, where   *)
(* the route ends anyway: the last.                                        *)
Candidates(i) ==
  LET home == {k \in DOMAIN i.listed : i.listed[k] = i.dock}
  IN  IF i.kind # "fixedport" \/ home = {} THEN i.listed
      ELSE RemoveAt(i.listed, Max(home))

NumStations(i) == Len(i.start)
Stations(i) == 1 .. NumStations(i)
Ports(i) == NumStations(i) + 1 .. NumStations(i) + Len(Candidates(i))
Cities(i) == {0} \cup Stations(i) \cup Ports(i)
Nodes(i) == 0 .. 2 * Cardinality(Cities(i)) - 1

Location(i, n) ==
  LET c == CityOf(n)
  IN  CASE c = 0 -> IF n = 0 THEN i.dock ELSE i.endDock
        [] c \in Stations(i) -> IF n % 2 = 0 THEN i.start[c] ELSE i.end[c]
        [] OTHER -> Candidates(i)[c - NumStations(i)]

Lookup(i, a, b) ==
  IF a = b THEN 0 ELSE IF i.miles[<<a, b>>] >= 0 THEN i.miles[<<a, b>>] ELSE Far

(* Mutant of Dist: the distances between the first nodes of cities. *)
DistOfStarts(i, m, n) ==
  Lookup(i, Location(i, 2 * CityOf(m)), Location(i, 2 * CityOf(n)))

Dist(i, m, n) ==
  IF CityOf(m) = CityOf(n) THEN 0 ELSE Lookup(i, Location(i, m), Location(i, n))

(* Every node has one successor and one predecessor, none itself; one arc  *)
(* joins the two nodes of a city.                                          *)
In(o, c) == IF o[c] THEN 2 * c + 1 ELSE 2 * c
Arcs(i, o, succ) ==
  [n \in Nodes(i) |->
     IF n = In(o, CityOf(n)) THEN 4 * CityOf(n) + 1 - n
                             ELSE In(o, succ[CityOf(n)])]
Assignments(i) ==
  LET Successions == {p \in Bijection(Cities(i), Cities(i)) :
                        \A c \in Cities(i) : p[c] # c}
  IN  {Arcs(i, o, succ) : o \in [Cities(i) -> BOOLEAN], succ \in Successions}

(* The next city, and the stations between a port and the next port.       *)
CityAfter(i, next) ==
  [c \in Cities(i) |->
     CHOOSE d \in {CityOf(next[2 * c]), CityOf(next[2 * c + 1])} : d # c]

Stretch(i, next, p) ==
  LET t == Subtour(CityAfter(i, next), p)
      ports == {k \in 2 .. Len(t) : t[k] \notin Stations(i)}
  IN  SubSeq(t, 2, Min(ports \cup {Len(t) + 1}) - 1)

Amount(i, c) == IF c \in Stations(i) THEN i.amount[c] ELSE 0
CatchOf(i, s) == Sum([k \in DOMAIN s |-> Amount(i, s[k])])

(* Mutant of FlowExists: the load is bounded at each station alone. *)
EachFits(i, next) == \A c \in Stations(i) : i.amount[c] <= i.capacity

(* The load variables: empty out of a port, each station adds its catch,   *)
(* never above the capacity. They have values if no stretch between ports  *)
(* is too heavy and no stations with catch go round without a port.        *)
FlowExists(i, next) ==
  /\ \A p \in Cities(i) \ Stations(i) :
       CatchOf(i, Stretch(i, next, p)) <= i.capacity
  /\ \A c \in Stations(i) :
       LET round == Subtour(CityAfter(i, next), c)
       IN  CatchOf(i, round) > 0 => ~(ToSet(round) \subseteq Stations(i))

OrderOf(next) == Tail(CityTour(Oriented(FindSubtour(next))))

Cost(i, next) == Sum([n \in Nodes(i) |-> Dist(i, n, next[n])])

(* What the solver can propose: the arcs taken, the objective, the subtour *)
(* that is found in them and the order of cities read off it, without dock. *)
Solutions ==
  [i \in Instances |->
     {[next |-> f, cost |-> Cost(i, f), found |-> FindSubtour(f),
       order |-> OrderOf(f)] :
        f \in {f \in Assignments(i) : CallsAtPorts(i) => FlowExists(i, f)}}]

-----------------------------------------------------------------------------
(* Solving *)

Init ==
  /\ inst \in Instances
  /\ phase = "search"
  /\ limited = inst.limited
  /\ cuts = {}
  /\ best = {}
  /\ status = "none"
  /\ order = <<>>
  /\ file = "old"

Improving ==
  {p \in Solutions[inst] :
     Allowed(p.next, cuts) /\ \A b \in best : p.cost < b.cost}

(* mip_subtourelim_directed: a solution that falls into subtours is cut    *)
(* off, any other is the new incumbent.                                    *)
SubtourElim(p) ==
  IF Len(p.found) < Cardinality(Nodes(inst))
    THEN cuts' = cuts \cup {ToSet(p.found)} /\ UNCHANGED best
    ELSE best' = {p} /\ UNCHANGED cuts

Propose ==
  /\ phase = "search"
  /\ \E p \in Improving : SubtourElim(p)
  /\ UNCHANGED <<inst, phase, limited, status, order, file>>

Stop(why) ==
  /\ phase' = "stopped"
  /\ status' = why
  /\ UNCHANGED <<inst, limited, cuts, best, order, file>>

Exhausted ==
  /\ phase = "search"
  /\ Improving = {}
  /\ Stop(IF best = {} THEN "INFEASIBLE" ELSE "OPTIMAL")

(* A time limit, or any other stop that leaves the incumbent usable. *)
TimeLimit == phase = "search" /\ limited /\ Stop("TIME_LIMIT")

(* An error of the solver, or a status no incumbent is taken with. *)
SolverError == phase = "search" /\ Stop("OTHER")

WaitsForFirst == inst.kind = "fixedport" /\ status = "TIME_LIMIT" /\ best = {}

(* The whole construction goes on without a limit until there is something. *)
OptimizeAgain ==
  /\ phase = "stopped"
  /\ WaitsForFirst
  /\ limited' = FALSE
  /\ phase' = "search"
  /\ UNCHANGED <<inst, cuts, best, status, order, file>>

Fail ==
  /\ phase' = "failed"
  /\ UNCHANGED <<inst, limited, cuts, best, status, order, file>>

AllowsIncumbent == status \in {"OPTIMAL", "TIME_LIMIT"}

(* Read the incumbent. *)
Extract ==
  /\ phase = "stopped"
  /\ ~WaitsForFirst
  /\ IF AllowsIncumbent /\ best # {}
       THEN \E b \in best :
              /\ order' = b.order
              /\ phase' = "solved"
              /\ UNCHANGED <<inst, limited, cuts, best, status, file>>
       ELSE Fail

-----------------------------------------------------------------------------
(* The programs: the order as segments, each up to a port or home *)

EntryOf(i, v) == Location(i, IF v.back THEN 2 * v.city + 1 ELSE 2 * v.city)
ExitOf(i, v) == Location(i, IF v.back THEN 2 * v.city ELSE 2 * v.city + 1)

(* The locations a route calls at from its start to its end, in pairs.     *)
Transits(i, o) ==
  [k \in 1 .. Len(o) + 1 |->
     << IF k = 1 THEN i.dock ELSE ExitOf(i, o[k - 1]),
        IF k > Len(o) THEN i.endDock ELSE EntryOf(i, o[k]) >>]

Known(i, leg) == leg[1] = leg[2] \/ i.miles[leg] >= 0
LegsKnown(i, o) ==
  /\ \A k \in DOMAIN Transits(i, o) : Known(i, Transits(i, o)[k])
  /\ \A c \in Stations(i) : Known(i, <<i.start[c], i.end[c]>>)

Length(i, legs) ==
  Sum([k \in DOMAIN legs |-> Lookup(i, legs[k][1], legs[k][2])])

PortCalls(i, o) == {k \in DOMAIN o : o[k].city \in Ports(i)}

(* Where segments begin and end: at the dock, at each port, at the end.    *)
Stops(i, o) == {0, Len(o) + 1} \cup PortCalls(i, o)
StationsBetween(o, from, to) == [k \in 1 .. to - from - 1 |-> o[from + k].city]

(* The stops in their order. *)
Bounds(i, o) ==
  CHOOSE b \in [1 .. Cardinality(Stops(i, o)) -> Stops(i, o)] :
    \A j, k \in DOMAIN b : j < k => b[j] < b[k]

Segment(i, o, from, to) ==
  LET stations == StationsBetween(o, from, to)
  IN  [stations |-> stations, catch |-> CatchOf(i, stations),
       dock |-> Transits(i, o)[to][2],
       transit |-> Length(i, SubSeq(Transits(i, o), from + 1, to))]

Segments(i, o) ==
  LET b == Bounds(i, o)
  IN  [k \in 1 .. Len(b) - 1 |-> Segment(i, o, b[k], b[k + 1])]

Writes == inst.kind \in {"noport", "fixedport"}

(* Both measure the route before they open the file and give up when a     *)
(* distance is missing.                                                    *)
Measure ==
  /\ phase = "solved"
  /\ Writes
  /\ IF LegsKnown(inst, order)
       THEN /\ phase' = "planned"
            /\ UNCHANGED <<inst, limited, cuts, best, status, order, file>>
       ELSE Fail

Open ==
  /\ phase = "planned"
  /\ phase' = "open"
  /\ file' = "empty"
  /\ UNCHANGED <<inst, limited, cuts, best, status, order>>

(* noport allocates once more with the file open, fixedport before. *)
WriteFails ==
  /\ phase \in IF inst.kind = "noport" THEN {"planned", "open"} ELSE {"planned"}
  /\ Fail

Write ==
  /\ phase = "open"
  /\ file' = "complete"
  /\ phase' = "done"
  /\ UNCHANGED <<inst, limited, cuts, best, status, order>>

(* A segment's order goes back to the caller. *)
Return ==
  /\ phase = "solved"
  /\ ~Writes
  /\ phase' = "done"
  /\ UNCHANGED <<inst, limited, cuts, best, status, order, file>>

Work ==
  \/ Propose \/ Exhausted
  \/ OptimizeAgain \/ Extract
  \/ Measure \/ Open \/ Write \/ Return

Next == Work \/ TimeLimit \/ SolverError \/ WriteFails

Spec == Init /\ [][Next]_vars

(* The solver keeps searching and the program runs on; neither a time      *)
(* limit nor an error has to come.                                         *)
FairSpec == Spec /\ WF_vars(Work)

-----------------------------------------------------------------------------
(* Properties *)

(* Every way to call at the stations and ports, in any order and           *)
(* direction, and those that never overload the boat; the reference.       *)
AllOrders(i) ==
  LET cities == Cities(i) \ {0}
  IN  {o \in [1 .. Cardinality(cities) -> [city : cities, back : BOOLEAN]] :
         \A j, k \in DOMAIN o : o[j].city = o[k].city => j = k}
Fits(i, o) ==
  \A from, to \in Stops(i, o) :
    from < to /\ (\A s \in Stops(i, o) : s <= from \/ to <= s) =>
      CatchOf(i, StationsBetween(o, from, to)) <= i.capacity
Orders ==
  [i \in Instances |-> {o \in AllOrders(i) : CallsAtPorts(i) => Fits(i, o)}]

(* What the callback forbids, no single tour is among: a cut takes subtours *)
(* away and nothing else, in both directions at once.                       *)
CutsSpareTours ==
  \A S \in cuts : \A p \in Solutions[inst] :
    Len(p.found) = Cardinality(Nodes(inst)) => Allowed(p.next, {S})

(* When the solver calls it optimal, no order of the stations and ports    *)
(* that respects the capacity is shorter; when infeasible, there is none.  *)
OptimalIsBest ==
  /\ phase \in {"solved", "done"} /\ status = "OPTIMAL" =>
       \A o \in Orders[inst] :
         Length(inst, Transits(inst, order)) <= Length(inst, Transits(inst, o))
  /\ status = "INFEASIBLE" => Orders[inst] = {}

(* The order read off a solution is one of all cities, each once, and the  *)
(* way from the dock along it to the end dock is what the solver counted:  *)
(* directions and signs are right also where the two docks differ.         *)
OrderAsPaid ==
  phase \in {"solved", "planned", "open", "done"} =>
    /\ order \in Orders[inst]
    /\ \A b \in best : Length(inst, Transits(inst, order)) = b.cost

(* The segments written deal out the stations, one segment for each port   *)
(* and one for the way home; each ends where the next begins and is within *)
(* the capacity, and together they are as long as the objective says.      *)
SegmentsFit ==
  Writes /\ phase \in {"planned", "open", "done"} =>
   LET segs == Segments(inst, order)
   IN
    /\ Len(segs) = Cardinality(Ports(inst)) + 1
    /\ \A c \in Stations(inst) :
         Cardinality({k \in DOMAIN segs : c \in ToSet(segs[k].stations)}) = 1
    /\ \A k \in DOMAIN segs :
         CallsAtPorts(inst) => segs[k].catch <= inst.capacity
    /\ segs[Len(segs)].dock = inst.endDock
    /\ \A k \in 1 .. Len(segs) - 1 : segs[k].dock \in ToSet(Candidates(inst))
    /\ \A b \in best :
         Sum([k \in DOMAIN segs |-> segs[k].transit]) = b.cost

(* The construction with ports gives up for want of a solution only when   *)
(* there is none, whatever the time limit.                                 *)
WaitsForIncumbent ==
  phase = "failed" /\ inst.kind = "fixedport" /\ best = {} /\ status # "OTHER"
    => Orders[inst] = {}

(* What the search tells its caller is true, whatever it cut off, and      *)
(* whenever it was stopped and resumed.                                    *)
SearchIsExact == CutsSpareTours /\ OptimalIsBest /\ WaitsForIncumbent

(* The search ends: a solution that was cut off is not proposed again.     *)
Terminates == <>(phase \in {"done", "failed"})
=============================================================================
