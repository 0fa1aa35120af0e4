---------------------------- MODULE LocalSearch ----------------------------
(***************************************************************************)
(* What the boundary sweep promises, without boundaries, passes, solvers   *)
(* or limits: a plan assigns stations to the segments of a route, and the  *)
(* only thing that ever happens to it, until the search is finished, is an *)
(* exchange of stations among two or three segments that makes them        *)
(* shorter together, empties none and overloads none.                      *)
(***************************************************************************)
EXTENDS Integers

CONSTANTS Segments, Stations, Catch, Capacity, Eps

VARIABLES plan, length, finished

vars == <<plan, length, finished>>

Init ==
  /\ plan \in [Segments -> SUBSET Stations]
  /\ length \in [Segments -> Nat]
  /\ \A i, j \in Segments : i # j => plan[i] \cap plan[j] = {}
  /\ finished = FALSE

(* Segment i fits in the boat, or only gave stations away. *)
NotOverloaded(i) == Catch[plan'[i]] <= Capacity \/ plan'[i] \subseteq plan[i]

(* The stations of the segments in C are dealt out anew among them. *)
Redistribute(C) ==
  /\ plan' \in [Segments -> SUBSET Stations]
  /\ length' \in [Segments -> Nat]
  /\ \A i \in Segments \ C : plan'[i] = plan[i] /\ length'[i] = length[i]
  /\ UNION {plan'[i] : i \in C} = UNION {plan[i] : i \in C}
  /\ \A i, j \in C : i # j => plan'[i] \cap plan'[j] = {}
  /\ \A i \in C : plan'[i] # {} /\ NotOverloaded(i)

Exchange ==
  \E l, r \in Segments :
    /\ l # r
    /\ Redistribute({l, r})
    /\ length'[l] + length'[r] + Eps < length[l] + length[r]

Donate ==
  \E l, r, d \in Segments :
    /\ l # r /\ l # d /\ r # d
    /\ Redistribute({l, r, d})
    /\ length'[l] + length'[r] + length'[d] + Eps
         < length[l] + length[r] + length[d]

Improve == ~finished /\ (Exchange \/ Donate) /\ UNCHANGED finished

Finish == finished' = TRUE /\ UNCHANGED <<plan, length>>

Next == Improve \/ Finish

Spec == Init /\ [][Next]_vars
=============================================================================
