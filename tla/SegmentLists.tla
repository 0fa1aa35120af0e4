---------------------------- MODULE SegmentLists ----------------------------
(***************************************************************************)
(* Who owns the lists of station ids during a sweep.  A segment points to  *)
(* a list on the heap; an attempt at a boundary allocates copies, work     *)
(* lists and tours, any of which may fail, and an accepted candidate hands *)
(* its tours over to the segments and frees the lists they had.  The lists *)
(* are freed when the program ends.  Contents are left to Sweep.           *)
(***************************************************************************)
EXTENDS Integers

CONSTANTS
  N,              \* segment_count
  EnableFallback, \* sweep.enable_fallback
  MaxAttempts     \* bound: attempts made before the sweep ends

Null == 0

ASSUME ListAssumption == N \in Nat /\ N >= 1 /\ MaxAttempts \in Nat

Segments == 0 .. N - 1
Succ(t) == IF t = N - 1 THEN 0 ELSE t + 1
Pred(t) == IF t = 0 THEN N - 1 ELSE t - 1

(* The pointers of mode_refinement (before), of optimize_boundary_candidate*)
(* (split, abs), of its callers (best) and of the fallback (fb).           *)
Locals == {"beforeL", "beforeR", "splitL", "splitR", "absL", "absR",
           "bestL", "bestR", "fbL", "fbR", "fbD"}
Work == {"splitL", "splitR", "absL", "absR"}
Best == {"bestL", "bestR"}
Fallback == {"fbL", "fbR", "fbD"}
Before == {"beforeL", "beforeR"}

VARIABLES
  pc,       \* where the sweep is
  b,        \* the boundary being attempted
  donor,    \* donor_idx, or NoDonor while the fallback is not tried
  seg,      \* segments[i].signed_station_ids
  loc,      \* the local pointers
  live,     \* blocks allocated and not freed
  fresh,    \* blocks from here on were never allocated
  misuse,   \* a block was freed that was not allocated
  attempts  \* attempts made

vars == <<pc, b, donor, seg, loc, live, fresh, misuse, attempts>>

NoDonor == -1
L == b
R == Succ(b)

-----------------------------------------------------------------------------
(* malloc and free.  A block stands for an allocation, not for an address: *)
(* it is never allocated again, so that a stale pointer stays recognisable.*)

(* The lists of the pointers in DOMAIN f are allocated, f[v] (0, 1 or 2)   *)
(* tells them apart.                                                       *)
Malloc(f) ==
  /\ loc' = [v \in Locals |-> IF v \in DOMAIN f THEN fresh + f[v] ELSE loc[v]]
  /\ live' = live \cup {fresh + f[v] : v \in DOMAIN f}
  /\ fresh' = fresh + 3
  /\ UNCHANGED misuse

(* The values in the function f are passed to free, in any order. *)
FreeValues(f) ==
  /\ live' = live \ {f[k] : k \in DOMAIN f}
  /\ misuse' = \/ misuse
               \/ \E k \in DOMAIN f : f[k] # Null /\ f[k] \notin live
               \/ \E k, m \in DOMAIN f : k # m /\ f[k] # Null /\ f[k] = f[m]
  /\ UNCHANGED fresh

Cleared(V) == [v \in Locals |-> IF v \in V THEN Null ELSE loc[v]]

(* The lists of the pointers in V are freed and the pointers die. *)
Release(V) ==
  /\ FreeValues([v \in V |-> loc[v]])
  /\ loc' = Cleared(V)

NoHeapChange == UNCHANGED <<loc, live, fresh, misuse>>

-----------------------------------------------------------------------------
Init ==
  /\ pc = "idle"
  /\ b = 0
  /\ donor = NoDonor
  /\ seg = [t \in Segments |-> t + 1]
  /\ loc = [v \in Locals |-> Null]
  /\ live = 1 .. N
  /\ fresh = N + 1
  /\ misuse = FALSE
  /\ attempts = 0

(* The copies left_before and right_before. *)
Attempt ==
  /\ pc = "idle" /\ attempts < MaxAttempts
  /\ attempts' = attempts + 1
  /\ b' \in Segments
  /\ Malloc([beforeL |-> 0, beforeR |-> 1])
  /\ pc' = "split"
  /\ UNCHANGED <<donor, seg>>

(* The sweep is over, or there is no memory for the copies. *)
Leave ==
  /\ pc = "idle"
  /\ pc' = "cleanup"
  /\ UNCHANGED <<b, donor, seg, attempts>> /\ NoHeapChange

(* free_segments *)
Exit ==
  /\ pc = "cleanup"
  /\ FreeValues(seg)
  /\ seg' = [t \in Segments |-> Null]
  /\ pc' = "done"
  /\ UNCHANGED <<b, donor, loc, attempts>>

-----------------------------------------------------------------------------
(* optimize_boundary_candidate. *)

Split ==
  /\ pc = "split"
  /\ Malloc([splitL |-> 0, splitR |-> 1])
  /\ pc' = "abs"
  /\ UNCHANGED <<b, donor, seg, attempts>>

MallocAbs ==
  /\ pc = "abs"
  /\ Malloc([absL |-> 0, absR |-> 1])
  /\ pc' = "left"
  /\ UNCHANGED <<b, donor, seg, attempts>>

LeftTour ==
  /\ pc = "left"
  /\ Malloc([bestL |-> 0])
  /\ pc' = "right"
  /\ UNCHANGED <<b, donor, seg, attempts>>

RightTour ==
  /\ pc = "right"
  /\ Malloc([bestR |-> 0])
  /\ pc' = "tidy"
  /\ UNCHANGED <<b, donor, seg, attempts>>

(* Mutant of ReleaseWork: the lists made for the solver are kept.          *)
ReleaseSplit == Release({"splitL", "splitR"})

ReleaseWork == Release(Work)

CandidateReady ==
  /\ pc = "tidy"
  /\ ReleaseWork
  /\ pc' = IF donor = NoDonor THEN "judge" ELSE "donorTour"
  /\ UNCHANGED <<b, donor, seg, attempts>>

(* Where a candidate that failed or did not improve leaves the attempt. *)
AfterFailure ==
  IF donor = NoDonor /\ EnableFallback THEN "fallback" ELSE "attempted"

(* A solve, an allocation or a detail record fails: goto cleanup, and the  *)
(* caller's own cleanup if it is the fallback.  The first four allocations *)
(* of solve_boundary_capacity_mip are taken to succeed: without them it    *)
(* frees a solution it has not initialised.                                *)
CandidateFails ==
  /\ pc \in {"split", "abs", "left", "right", "tidy"}
  /\ Release(Work \cup Best \cup (IF donor = NoDonor THEN {} ELSE Fallback))
  /\ pc' = AfterFailure
  /\ UNCHANGED <<b, donor, seg, attempts>>

-----------------------------------------------------------------------------
(* gsp_sweep_try_donor_fallback. *)

Donors == Segments \ {L, R, Pred(L), Succ(R)}

(* The copies of the two sides, one with the extra station, and of the     *)
(* donor without it.                                                       *)
CopySegments ==
  /\ pc = "fallback"
  /\ donor' \in Donors
  /\ Malloc([fbL |-> 0, fbR |-> 1, fbD |-> 2])
  /\ pc' = "split"
  /\ UNCHANGED <<b, seg, attempts>>

(* No donor, or no memory for the copies: those made are freed again. *)
NoFallback ==
  /\ pc = "fallback"
  /\ pc' = "attempted"
  /\ UNCHANGED <<b, donor, seg, attempts>> /\ NoHeapChange

(* reoptimize_candidate_segment replaces the list of the donor's copy. *)
DonorTour ==
  /\ pc = "donorTour"
  /\ loc' = [loc EXCEPT !["fbD"] = fresh]
  /\ live' = (live \ {loc["fbD"]}) \cup {fresh}
  /\ fresh' = fresh + 3
  /\ misuse' = (misuse \/ loc["fbD"] \notin live)
  /\ pc' = "judge"
  /\ UNCHANGED <<b, donor, seg, attempts>>

DonorTourFails ==
  /\ pc = "donorTour"
  /\ Release(Best \cup Fallback)
  /\ pc' = "attempted"
  /\ UNCHANGED <<b, donor, seg, attempts>>

-----------------------------------------------------------------------------
(* Acceptance hands the tours over. *)

(* left and right get the tours; with one segment they are one object.     *)
TakeSides == [seg EXCEPT ![L] = loc["bestL"], ![R] = loc["bestR"]]

Accept ==
  /\ pc = "judge" /\ donor = NoDonor
  /\ FreeValues([k \in 1 .. 2 |-> IF k = 1 THEN seg[L] ELSE seg[R]])
  /\ seg' = TakeSides
  /\ loc' = Cleared(Best)
  /\ pc' = "attempted"
  /\ UNCHANGED <<b, donor, attempts>>

(* Mutant of FreedWithDonor: the donor's new list is freed as well.        *)
FreedWithCopy ==
  [k \in {"left", "right", "donor", "fbL", "fbR", "fbD"} |->
     CASE k = "left" -> seg[L] [] k = "right" -> seg[R]
       [] k = "donor" -> seg[donor] [] OTHER -> loc[k]]

(* What accepting a donor frees: the lists of three segments, then at      *)
(* cleanup the copies of the two sides.                                    *)
FreedWithDonor ==
  [k \in {"left", "right", "donor", "fbL", "fbR"} |->
     CASE k = "left" -> seg[L] [] k = "right" -> seg[R]
       [] k = "donor" -> seg[donor] [] OTHER -> loc[k]]

AcceptDonor ==
  /\ pc = "judge" /\ donor # NoDonor
  /\ FreeValues(FreedWithDonor)
  /\ seg' = [TakeSides EXCEPT ![donor] = loc["fbD"]]
  /\ loc' = Cleared(Best \cup Fallback)
  /\ pc' = "attempted"
  /\ UNCHANGED <<b, donor, attempts>>

Reject ==
  /\ pc = "judge"
  /\ Release(Best \cup Fallback)
  /\ pc' = AfterFailure
  /\ UNCHANGED <<b, donor, seg, attempts>>

(* The copies taken before the attempt are freed. *)
Attempted ==
  /\ pc = "attempted"
  /\ Release(Before)
  /\ donor' = NoDonor
  /\ pc' = "idle"
  /\ UNCHANGED <<b, seg, attempts>>

Next ==
  \/ Attempt \/ Leave \/ Exit
  \/ Split \/ MallocAbs \/ LeftTour \/ RightTour
  \/ CandidateReady \/ CandidateFails
  \/ CopySegments \/ NoFallback \/ DonorTour \/ DonorTourFails
  \/ Accept \/ AcceptDonor \/ Reject \/ Attempted

Spec == Init /\ [][Next]_vars

-----------------------------------------------------------------------------
TypeOK ==
  /\ pc \in {"idle", "split", "abs", "left", "right", "tidy", "fallback",
             "donorTour", "judge", "attempted", "cleanup", "done"}
  /\ b \in Segments
  /\ donor \in Segments \cup {NoDonor}
  /\ seg \in [Segments -> Nat]
  /\ loc \in [Locals -> Nat]
  /\ fresh \in Nat \ {0}
  /\ live \subseteq 1 .. fresh - 1
  /\ misuse \in BOOLEAN
  /\ attempts \in Nat

(* No list is freed twice and nothing that malloc did not return is freed. *)
NoMisuse == ~misuse

(* Until they are freed the segments have a list each, of their own and    *)
(* allocated: whatever an attempt shared with them is handed over or kept, *)
(* never both.                                                             *)
SegmentsOwnLists ==
  pc # "done" =>
    /\ \A t \in Segments : seg[t] \in live
    /\ \A t, u \in Segments : t # u => seg[t] # seg[u]
    /\ \A t \in Segments, v \in Locals : loc[v] # seg[t]

(* Nothing leaks: between attempts only the lists of the segments are      *)
(* allocated, and in the end nothing is.                                   *)
NothingLeaks ==
  /\ pc \in {"idle", "cleanup"} => live = {seg[t] : t \in Segments}
  /\ pc = "done" => live = {}

-----------------------------------------------------------------------------
(* What the program says and does not do. *)

(* The log counts the boundaries of a route as zero if it has one segment: *)
(* then there is nothing a sweep may change.                               *)
OneSegmentUnchanged ==
  [][N = 1 /\ pc # "cleanup" => seg' = seg]_vars
=============================================================================
