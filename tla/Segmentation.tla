---------------------------- MODULE Segmentation ----------------------------
(***************************************************************************)
(* The segmentation program: a construction, an order of stations that may *)
(* already be cut into groups, becomes a route of segments from dock to    *)
(* dock.  Groups that cover every station are repaired, by moving stations *)
(* that do not fit to the next group, and kept; otherwise the order is     *)
(* scanned and ports are inserted where the boat is full.  At last each    *)
(* segment is solved as a tour of its own and the result is written.       *)
(***************************************************************************)
EXTENDS Integers, FiniteSets, SequencesExt

CONSTANTS
  Stations,   \* table ids of the stations
  Catch,      \* expected catch of a set of stations
  Ports,      \* locations of the ports
  Home,       \* location of the boat
  Inputs      \* constructions and boats: [order, groups, docks, capacity]

Locations == Ports \cup {Home}

ASSUME CatchAssumption ==
  /\ Catch \in [SUBSET Stations -> Nat] /\ Catch[{}] = 0
  /\ \A S \in SUBSET Stations : \A x \in Stations \ S :
       Catch[S \cup {x}] = Catch[S] + Catch[{x}]

Before(order, x, y) ==
  \E i, k \in 1 .. Len(order) : i < k /\ order[i] = x /\ order[k] = y

(* The groups are consecutive pieces of the order.                         *)
Pieces(order, gs) ==
  /\ gs \in Seq(Seq(Stations))
  /\ ToSet(order) = UNION {ToSet(gs[j]) : j \in 1 .. Len(gs)}
  /\ \A j, l \in 1 .. Len(gs) :
       \A i \in 1 .. Len(gs[j]), k \in 1 .. Len(gs[l]) :
         j < l \/ (j = l /\ i < k) => Before(order, gs[j][i], gs[l][k])

(* Order and groups are read from the same text; no station comes twice.   *)
InputOK(d) ==
  /\ d.order \in Seq(Stations) /\ IsInjective(d.order)
  /\ Pieces(d.order, d.groups)
  /\ d.docks \in Seq(Locations)
  /\ d.capacity \in Nat \ {0}

ASSUME InputAssumption == \A d \in Inputs : InputOK(d)

VARIABLES
  pc,      \* groups, repair, preserve, order, postopt, done, failed
  input,   \* the construction and the boat, never changed
  groups,  \* station_segments
  s,       \* the segment being repaired or solved
  ord,     \* position in the order
  load,    \* current_load
  segOf,   \* visit_station_segment of each station, 0 if not visited
  segs,    \* the segments: catch and the dock they end at
  out      \* the solved segments: stations, the number s kept with them,
           \* the docks and the catch

vars == <<pc, input, groups, s, ord, load, segOf, segs, out>>

Capacity == input.capacity
Order == input.order                  \* station_order
CatchOf(g) == Catch[ToSet(g)]
Amount(x) == Catch[{x}]

In(j) == {x \in Stations : segOf[x] = j}

Init ==
  /\ pc = "groups"
  /\ input \in Inputs
  /\ groups = input.groups
  /\ s = 1 /\ ord = 1 /\ load = 0
  /\ segOf = [x \in Stations |-> 0]
  /\ segs = <<>> /\ out = <<>>

-----------------------------------------------------------------------------
(* Groups that are kept. *)

(* stations_are_unique_and_complete *)
Complete == ToSet(Order) = Stations

CheckGroups ==
  /\ pc = "groups" /\ Len(groups) > 1 /\ Complete
  /\ pc' = "repair"
  /\ UNCHANGED <<input, groups, s, ord, load, segOf, segs, out>>

(* One group, stations left out, or no memory. *)
RefuseGroups ==
  /\ pc = "groups"
  /\ pc' = "order"
  /\ UNCHANGED <<input, groups, s, ord, load, segOf, segs, out>>

TooHeavy == CatchOf(groups[s]) > Capacity

(* Mutant of MovedOn: the station is put behind the next group.            *)
MovedBehind ==
  [groups EXCEPT ![s] = Front(@), ![s + 1] = Append(@, Last(groups[s]))]

(* The last station of group s goes to the front of the next. *)
MovedOn ==
  [groups EXCEPT ![s] = Front(@), ![s + 1] = <<Last(groups[s])>> \o @]

RepairMove ==
  /\ pc = "repair" /\ s < Len(groups)
  /\ TooHeavy /\ Len(groups[s]) > 1
  /\ groups' = MovedOn
  /\ UNCHANGED <<pc, input, s, ord, load, segOf, segs, out>>

RepairNext ==
  /\ pc = "repair" /\ s <= Len(groups) /\ ~TooHeavy
  /\ s' = s + 1
  /\ UNCHANGED <<pc, input, groups, ord, load, segOf, segs, out>>

Repaired ==
  /\ pc = "repair" /\ s > Len(groups)
  /\ pc' = "preserve"
  /\ UNCHANGED <<input, groups, s, ord, load, segOf, segs, out>>

(* The last group, a single station, or no memory. *)
RepairFails ==
  /\ pc = "repair" /\ s <= Len(groups) /\ TooHeavy
  /\ pc' = "order"
  /\ UNCHANGED <<input, groups, s, ord, load, segOf, segs, out>>

(* segment_from_segmented_input *)
Preserve ==
  /\ pc = "preserve"
  /\ Len(input.docks) = Len(groups) + 1
  /\ \A j \in 1 .. Len(groups) : CatchOf(groups[j]) <= Capacity
  /\ segOf' = [x \in Stations |->
                 CHOOSE j \in 1 .. Len(groups) : x \in ToSet(groups[j])]
  /\ segs' = [j \in 1 .. Len(groups) |->
                [catch |-> CatchOf(groups[j]), dock |-> input.docks[j + 1]]]
  /\ pc' = "postopt" /\ s' = 1
  /\ UNCHANGED <<input, groups, ord, load, out>>

(* Docks are missing, or memory is. *)
PreserveFails ==
  /\ pc = "preserve"
  /\ pc' = "order"
  /\ UNCHANGED <<input, groups, s, ord, load, segOf, segs, out>>

-----------------------------------------------------------------------------
(* segment_from_order: the order is scanned. *)

(* insert_port_segment and flush_final_segment: the segment ends here. *)
Closed(c, dock) == Append(segs, [catch |-> c, dock |-> dock])

(* Mutant of LoadAfterPort: the catch stays on board.                      *)
StillLoaded == load

LoadAfterPort == 0

(* Mutants of Overflows: a segment that is just full is too heavy; the     *)
(* load is compared without the station.                                   *)
OverflowsWhenFull(x) == load > 0 /\ load + Amount(x) >= Capacity
OverflowsTooLate(x) == load > 0 /\ load > Capacity

Overflows(x) == load > 0 /\ load + Amount(x) > Capacity

(* Had the boat been full, it would be in port already if one were within  *)
(* reach (Visit).                                                          *)
PortBefore ==
  /\ pc = "order" /\ ord <= Len(Order) /\ Overflows(Order[ord])
  /\ load < Capacity
  /\ \E port \in Ports : segs' = Closed(load, port)
  /\ load' = LoadAfterPort
  /\ UNCHANGED <<pc, input, groups, s, ord, segOf, out>>

(* The boat is full and there is more to do. *)
FullAfter(c) == c >= Capacity /\ ord < Len(Order)

(* The next station, and a port after it if there is one within reach. *)
Visit ==
  /\ pc = "order" /\ ord <= Len(Order) /\ ~Overflows(Order[ord])
  /\ segOf' = [segOf EXCEPT ![Order[ord]] = Len(segs) + 1]
  /\ ord' = ord + 1
  /\ LET c == load + Amount(Order[ord])
     IN  \/ /\ FullAfter(c)
            /\ \E port \in Ports : segs' = Closed(c, port)
            /\ load' = LoadAfterPort
         \/ /\ load' = c
            /\ UNCHANGED segs
  /\ UNCHANGED <<pc, input, groups, s, out>>

(* Mutant of NeedsFlush: the open segment is left out.                     *)
NeverFlush == segs = <<>>

NeedsFlush == load > 0 \/ segs = <<>>

EndOrder ==
  /\ pc = "order" /\ ord > Len(Order)
  /\ segs' = IF NeedsFlush THEN Closed(load, Home) ELSE segs
  /\ pc' = "postopt" /\ s' = 1
  /\ UNCHANGED <<input, groups, ord, load, segOf, out>>

(* No port, a station that cannot be reached, or no memory. *)
OrderFails ==
  /\ pc = "order"
  /\ pc' = "failed"
  /\ UNCHANGED <<input, groups, s, ord, load, segOf, segs, out>>

-----------------------------------------------------------------------------
(* segment_apply_local_postopt *)

(* Mutant of StartDock: the dock this segment ends at.                     *)
OwnDock == IF s = 1 THEN Home ELSE segs[s].dock

StartDock == IF s = 1 THEN Home ELSE segs[s - 1].dock

EndDock == IF s = Len(segs) THEN Home ELSE segs[s].dock

SkipEmpty ==
  /\ pc = "postopt" /\ s <= Len(segs) /\ In(s) = {}
  /\ s' = s + 1
  /\ UNCHANGED <<pc, input, groups, ord, load, segOf, segs, out>>

Solved ==
  [stations |-> In(s), seg |-> s,
   from |-> StartDock, to |-> EndDock, catch |-> segs[s].catch]

SolveSegment ==
  /\ pc = "postopt" /\ s <= Len(segs) /\ In(s) # {}
  /\ out' = Append(out, Solved)
  /\ s' = s + 1
  /\ UNCHANGED <<pc, input, groups, ord, load, segOf, segs>>

PostOptFails ==
  /\ pc = "postopt"
  /\ pc' = "failed"
  /\ UNCHANGED <<input, groups, s, ord, load, segOf, segs, out>>

(* Mutant of Feasible: a boat that comes home full is overloaded.          *)
StaysBelow == \A j \in 1 .. Len(out) : out[j].catch < Capacity

(* is_feasible, in the output *)
Feasible == \A j \in 1 .. Len(out) : out[j].catch <= Capacity

(* Whatever is numbered otherwise is not in the output.                    *)
Reported(j) == UNION {o.stations : o \in {o \in ToSet(out) : o.seg = j}}

Write ==
  /\ pc = "postopt" /\ s > Len(segs)
  /\ pc' = "done"
  /\ UNCHANGED <<input, groups, s, ord, load, segOf, segs, out>>

Next ==
  \/ CheckGroups \/ RefuseGroups
  \/ RepairMove \/ RepairNext \/ Repaired \/ RepairFails
  \/ Preserve \/ PreserveFails
  \/ PortBefore \/ Visit \/ EndOrder \/ OrderFails
  \/ SkipEmpty \/ SolveSegment \/ PostOptFails \/ Write

Spec == Init /\ [][Next]_vars

-----------------------------------------------------------------------------
(* Properties. *)

TypeOK ==
  /\ pc \in {"groups", "repair", "preserve", "order", "postopt", "done",
             "failed"}
  /\ InputOK(input)
  /\ groups \in Seq(Seq(Stations)) /\ Len(groups) = Len(input.groups)
  /\ s \in Nat \ {0} /\ ord \in 1 .. Len(Order) + 1 /\ load \in Nat
  /\ segOf \in [Stations -> Nat]
  /\ segs \in Seq([catch : Nat, dock : Locations])
  /\ out \in Seq([stations : SUBSET Stations, seg : Nat \ {0},
                  from : Locations, to : Locations, catch : Nat])

(* When the output is written every station of the construction is in one  *)
(* of its segments: none is lost when a port falls at the end of the scan, *)
(* when groups are repaired, or when segments are solved and renumbered.   *)
EveryStationReported ==
  pc = "done" =>
    \A x \in ToSet(Order) :
      Cardinality({j \in 1 .. Len(out) : x \in Reported(j)}) = 1

(* Whether the groups are repaired and kept or the order is cut anew, the  *)
(* segments are consecutive pieces of the construction's order.            *)
OrderKept ==
  \A i, k \in 1 .. Len(Order) :
    i < k /\ segOf[Order[k]] # 0 =>
      segOf[Order[i]] \in 1 .. segOf[Order[k]]

(* segment_catches, added up on the way and copied by the post-opt, is at  *)
(* every moment the catch of the stations marked with that segment.        *)
CatchesMatch ==
  /\ \A j \in 1 .. Len(segs) : segs[j].catch = Catch[In(j)]
  /\ \A j \in 1 .. Len(out) : out[j].catch = Catch[out[j].stations]

(* A segment is over the capacity only if a single station is: that one    *)
(* then travels with none that has any catch.                              *)
OversizeAlone ==
  \A j \in 1 .. Len(segs) :
    segs[j].catch > Capacity =>
      \E x \in In(j) : Amount(x) = segs[j].catch

(* The output says infeasible exactly if some station alone exceeds the    *)
(* capacity: any other construction can be cut to fit, and is.             *)
FlagHonest ==
  pc = "done" => (Feasible <=> \A x \in ToSet(Order) : Amount(x) <= Capacity)

(* Cutting the order wastes no port: two consecutive segments together     *)
(* exceed the capacity, so there are less than twice as many as needed.    *)
NoPortWasted ==
  ord > 1 => \A j \in 1 .. Len(segs) - 1 :
               segs[j].catch + segs[j + 1].catch > Capacity

(* No port is inserted right after another, which for a station heavier    *)
(* than the capacity would go on for ever.                                 *)
NoEmptySegment == \A j \in 1 .. Len(segs) : In(j) # {}

(* Each segment is solved from the dock where the one before it ends, from *)
(* home to home: the output, which links the ends, is the tour solved.     *)
SolvedDockToDock ==
  /\ \A j \in 1 .. Len(out) :
       out[j].from = IF j = 1 THEN Home ELSE out[j - 1].to
  /\ pc = "done" /\ out # <<>> => Last(out).to = Home
=============================================================================
