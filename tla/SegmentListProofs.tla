------------------------- MODULE SegmentListProofs -------------------------
(***************************************************************************)
(* With two or more segments, and any number of attempts, the lists of a   *)
(* sweep are neither freed twice nor shared nor leaked.  The invariant     *)
(* says at each place of an attempt which local pointers hold a list, and  *)
(* that the live blocks are exactly those of the segments and of them.     *)
(***************************************************************************)
EXTENDS SegmentLists, TLAPS

(* With the segments, the local pointers in H own the live blocks. *)
Owned(H) ==
  /\ seg \in [Segments -> Nat] /\ loc \in [Locals -> Nat]
  /\ fresh \in Nat \ {0} /\ live \subseteq 1 .. fresh - 1
  /\ live = {seg[t] : t \in Segments} \cup {loc[v] : v \in H}
  /\ \A t, u \in Segments : t # u => seg[t] # seg[u]
  /\ \A v, w \in H : v # w => loc[v] # loc[w]
  /\ \A t \in Segments : \A v \in H : loc[v] # seg[t]
  /\ \A v \in Locals \ H : loc[v] = Null

(* The pointers of the fallback, once it has copied its segments. *)
HeldByFallback == IF donor = NoDonor THEN {} ELSE Fallback

Held ==
  CASE pc \in {"idle", "cleanup"} -> {}
    [] pc \in {"fallback", "attempted"} -> Before
    [] pc = "split" -> Before \cup HeldByFallback
    [] pc = "abs" -> Before \cup HeldByFallback \cup {"splitL", "splitR"}
    [] pc = "left" -> Before \cup HeldByFallback \cup Work
    [] pc = "right" -> Before \cup HeldByFallback \cup Work \cup {"bestL"}
    [] pc = "tidy" -> Before \cup HeldByFallback \cup Work \cup Best
    [] OTHER -> Before \cup HeldByFallback \cup Best

Control ==
  /\ pc \in {"idle", "split", "abs", "left", "right", "tidy", "fallback",
             "donorTour", "judge", "attempted", "cleanup", "done"}
  /\ b \in Segments /\ attempts \in Nat
  /\ donor \in {NoDonor} \cup (Segments \ {L, R})
  /\ pc \in {"idle", "fallback", "cleanup"} => donor = NoDonor
  /\ pc = "donorTour" => donor # NoDonor

ListInv ==
  /\ Control
  /\ misuse = FALSE
  /\ pc # "done" => Owned(Held)
  /\ pc = "done" => /\ live = {} /\ fresh \in Nat \ {0}
                    /\ seg \in [Segments -> Nat] /\ loc \in [Locals -> Nat]

-----------------------------------------------------------------------------
(* New lists belong to the pointers they were allocated for. *)
LEMMA MallocOwned ==
  ASSUME NEW H \in SUBSET Locals, NEW D \in SUBSET Locals, D \cap H = {},
         NEW f \in [D -> 0 .. 2],
         \A v, w \in D : v # w => f[v] # f[w],
         Owned(H), Malloc(f), seg' = seg
  PROVE  Owned(H \cup D)' /\ misuse' = misuse
<1>1. /\ \A v \in D : loc'[v] = fresh + f[v]
      /\ \A v \in Locals \ D : loc'[v] = loc[v]
      /\ loc' \in [Locals -> Nat]
      /\ fresh' = fresh + 3 /\ fresh \in Nat \ {0}
      /\ live' = live \cup {fresh + f[v] : v \in D}
      /\ misuse' = misuse
  BY DEF Malloc, Owned
<1>2. \A x \in live : x \in 1 .. fresh - 1
  BY DEF Owned
<1>3. /\ \A t \in Segments : seg[t] \in 1 .. fresh - 1
      /\ \A v \in H : loc[v] \in 1 .. fresh - 1
  BY <1>2 DEF Owned
<1>4. live' \subseteq 1 .. fresh' - 1
  BY <1>1, <1>2
<1>5. live' = {seg'[t] : t \in Segments} \cup {loc'[v] : v \in H \cup D}
  <2>1. \A v \in H : loc'[v] = loc[v]
    BY <1>1
  <2>2. live = {seg[t] : t \in Segments} \cup {loc[v] : v \in H}
    BY DEF Owned
  <2> QED
    BY <1>1, <2>1, <2>2
<1>6. \A v, w \in H \cup D : v # w => loc'[v] # loc'[w]
  <2> SUFFICES ASSUME NEW v \in H \cup D, NEW w \in H \cup D, v # w
               PROVE  loc'[v] # loc'[w]
    OBVIOUS
  <2>1. CASE v \in D /\ w \in D
    BY <1>1, <2>1
  <2>2. CASE v \in D /\ w \in H
    BY <1>1, <1>3, <2>2
  <2>3. CASE v \in H /\ w \in D
    BY <1>1, <1>3, <2>3
  <2>4. CASE v \in H /\ w \in H
    BY <1>1, <2>4 DEF Owned
  <2> QED
    BY <2>1, <2>2, <2>3, <2>4
<1>7. \A t \in Segments : \A v \in H \cup D : loc'[v] # seg[t]
  BY <1>1, <1>3 DEF Owned
<1>8. \A v \in Locals \ (H \cup D) : loc'[v] = Null
  BY <1>1 DEF Owned
<1> QED
  BY <1>1, <1>4, <1>5, <1>6, <1>7, <1>8 DEF Owned

(* Released pointers hold nothing, and nothing was freed twice. *)
LEMMA ReleaseOwned ==
  ASSUME NEW H \in SUBSET Locals, NEW V \in SUBSET Locals,
         Owned(H), Release(V), seg' = seg, misuse = FALSE
  PROVE  Owned(H \ V)' /\ misuse' = FALSE
<1>1. /\ live' = live \ {loc[v] : v \in V}
      /\ fresh' = fresh
      /\ \A v \in V : loc'[v] = Null
      /\ \A v \in Locals \ V : loc'[v] = loc[v]
      /\ loc' \in [Locals -> Nat]
  BY DEF Release, FreeValues, Cleared, Owned, Null
<1>2. misuse' = FALSE
  <2>1. \A v \in V : loc[v] # Null => loc[v] \in live
    BY DEF Owned
  <2>2. \A v, w \in V : v # w /\ loc[v] # Null => loc[v] # loc[w]
    BY DEF Owned
  <2>3. misuse' = \/ misuse
                  \/ \E k \in V : loc[k] # Null /\ loc[k] \notin live
                  \/ \E k, m \in V : k # m /\ loc[k] # Null /\ loc[k] = loc[m]
    BY DEF Release, FreeValues
  <2> QED
    BY <2>1, <2>2, <2>3
<1>3. live' = {seg'[t] : t \in Segments} \cup {loc'[v] : v \in H \ V}
  <2>1. live = {seg[t] : t \in Segments} \cup {loc[v] : v \in H}
    BY DEF Owned
  <2>2. \A t \in Segments : \A v \in V : loc[v] # seg[t]
    BY DEF Owned, Null
  <2>3. \A v \in H \ V : \A w \in V : loc[v] # loc[w]
    BY DEF Owned, Null
  <2> QED
    BY <1>1, <2>1, <2>2, <2>3
<1>4. live' \subseteq 1 .. fresh' - 1
  BY <1>1 DEF Owned
<1> QED
  BY <1>1, <1>2, <1>3, <1>4 DEF Owned
(* What the pointers of optimize_boundary_candidate and of the fallback    *)
(* are, as sets of pointers.                                               *)
LEMMA LocalSets ==
  /\ Work \subseteq Locals /\ Best \subseteq Locals
  /\ Fallback \subseteq Locals /\ Before \subseteq Locals
  /\ HeldByFallback \subseteq Fallback
BY DEF Work, Best, Fallback, Before, Locals, HeldByFallback

LEMMA Neighbours ==
  ASSUME N >= 2, Control
  PROVE  L \in Segments /\ R \in Segments /\ L # R /\ NoDonor \notin Segments
BY ListAssumption DEF Control, L, R, Succ, Segments, NoDonor

LEMMA InitInv == Init => ListInv
<1> SUFFICES ASSUME Init PROVE ListInv
  OBVIOUS
<1>1. Control /\ misuse = FALSE
  BY ListAssumption DEF Init, Control, Segments, NoDonor
<1>2. Held = {}
  BY DEF Init, Held
<1>3. /\ seg \in [Segments -> Nat] /\ loc \in [Locals -> Nat]
      /\ fresh \in Nat \ {0} /\ live \subseteq 1 .. fresh - 1
      /\ \A t, u \in Segments : t # u => seg[t] # seg[u]
      /\ \A v \in Locals : loc[v] = Null
  BY ListAssumption DEF Init, Segments, Null
<1>4. live = {seg[t] : t \in Segments}
  <2>1. ASSUME NEW x \in 1 .. N PROVE \E t \in Segments : seg[t] = x
    <3>1. x - 1 \in Segments /\ seg[x - 1] = x
      BY ListAssumption DEF Init, Segments
    <3> QED
      BY <3>1
  <2>2. \A t \in Segments : seg[t] \in 1 .. N
    BY ListAssumption DEF Init, Segments
  <2> QED
    BY <2>1, <2>2 DEF Init
<1>5. Owned({})
  BY <1>3, <1>4 DEF Owned
<1> QED
  BY <1>1, <1>2, <1>5 DEF ListInv, Init

-----------------------------------------------------------------------------
(* Accepting a candidate: the segments give up their lists for the tours.  *)
LEMMA AcceptOwned ==
  ASSUME N >= 2, Control, misuse = FALSE, Owned(Before \cup Best), Accept
  PROVE  Owned(Before)' /\ misuse' = FALSE
<1>1. L \in Segments /\ R \in Segments /\ L # R
  BY Neighbours
<1>2. /\ live' = live \ {seg[L], seg[R]}
      /\ fresh' = fresh
      /\ seg' = [seg EXCEPT ![L] = loc["bestL"], ![R] = loc["bestR"]]
      /\ loc' = [v \in Locals |-> IF v \in Best THEN Null ELSE loc[v]]
  <2> DEFINE freed == [k \in 1 .. 2 |-> IF k = 1 THEN seg[L] ELSE seg[R]]
  <2>1. {freed[k] : k \in DOMAIN freed} = {seg[L], seg[R]}
    OBVIOUS
  <2> QED
    BY <2>1 DEF Accept, FreeValues, TakeSides, Cleared
<1>3. misuse' = FALSE
  <2> DEFINE freed == [k \in 1 .. 2 |-> IF k = 1 THEN seg[L] ELSE seg[R]]
  <2>1. seg[L] \in live /\ seg[R] \in live /\ seg[L] # seg[R]
    BY <1>1 DEF Owned
  <2>2. FreeValues(freed)
    BY DEF Accept
  <2>3. /\ \A k \in DOMAIN freed : freed[k] \in live
        /\ \A k, m \in DOMAIN freed : k # m => freed[k] # freed[m]
    BY <2>1
  <2> HIDE DEF freed
  <2> QED
    BY <2>2, <2>3 DEF FreeValues
<1>4. /\ Before \subseteq Locals /\ Best \subseteq Locals
      /\ "bestL" \in Best /\ "bestR" \in Best /\ "bestL" # "bestR"
      /\ Before \cap Best = {} /\ Best = {"bestL", "bestR"}
  BY DEF Before, Best, Locals
<1>5. /\ loc["bestL"] \in Nat /\ loc["bestR"] \in Nat
      /\ loc["bestL"] # loc["bestR"]
      /\ \A t \in Segments : loc["bestL"] # seg[t] /\ loc["bestR"] # seg[t]
      /\ \A v \in Before : loc[v] # loc["bestL"] /\ loc[v] # loc["bestR"]
  BY <1>4 DEF Owned
<1>6. /\ seg'[L] = loc["bestL"] /\ seg'[R] = loc["bestR"]
      /\ \A t \in Segments \ {L, R} : seg'[t] = seg[t]
      /\ seg' \in [Segments -> Nat]
  BY <1>1, <1>2, <1>5 DEF Owned
<1>7. /\ \A v \in Before : loc'[v] = loc[v]
      /\ \A v \in Locals \ Before : loc'[v] = Null
      /\ loc' \in [Locals -> Nat]
  BY <1>2, <1>4 DEF Owned, Null
<1>8. live' = {seg'[t] : t \in Segments} \cup {loc'[v] : v \in Before}
  <2>1. live = {seg[t] : t \in Segments} \cup {loc[v] : v \in Before}
                  \cup {loc["bestL"], loc["bestR"]}
    BY <1>4 DEF Owned
  <2>2. \A t \in Segments \ {L, R} : seg[t] # seg[L] /\ seg[t] # seg[R]
    BY <1>1 DEF Owned
  <2>3. \A v \in Before : loc[v] # seg[L] /\ loc[v] # seg[R]
    BY <1>1 DEF Owned
  <2>4. live' = {seg[t] : t \in Segments \ {L, R}} \cup {loc[v] : v \in Before}
                  \cup {loc["bestL"], loc["bestR"]}
    BY <1>1, <1>2, <1>5, <2>1, <2>2, <2>3
  <2>5. {seg'[t] : t \in Segments} = {seg[t] : t \in Segments \ {L, R}}
                                        \cup {loc["bestL"], loc["bestR"]}
    BY <1>1, <1>6
  <2>6. {loc'[v] : v \in Before} = {loc[v] : v \in Before}
    BY <1>7
  <2> QED
    BY <2>4, <2>5, <2>6
<1>9. live' \subseteq 1 .. fresh' - 1
  BY <1>2 DEF Owned
<1>10. \A t, u \in Segments : t # u => seg'[t] # seg'[u]
  BY <1>5, <1>6 DEF Owned
<1>11. \A t \in Segments : \A v \in Before : loc'[v] # seg'[t]
  BY <1>5, <1>6, <1>7 DEF Owned
<1>12. \A v, w \in Before : v # w => loc'[v] # loc'[w]
  BY <1>7 DEF Owned
<1> QED
  BY <1>2, <1>3, <1>6, <1>7, <1>8, <1>9, <1>10, <1>11, <1>12 DEF Owned
(* The same with a donor: three segments are handed the tours, and what is *)
(* left of the fallback's copies is freed.                                 *)
LEMMA AcceptDonorOwned ==
  ASSUME N >= 2, Control, misuse = FALSE,
         Owned(Before \cup Fallback \cup Best), AcceptDonor
  PROVE  Owned(Before)' /\ misuse' = FALSE
<1>1. /\ L \in Segments /\ R \in Segments /\ L # R
      /\ donor \in Segments /\ donor # L /\ donor # R
  BY Neighbours DEF AcceptDonor, Control
<1> DEFINE given == {seg[L], seg[R], seg[donor], loc["fbL"], loc["fbR"]}
           tours == {loc["bestL"], loc["bestR"], loc["fbD"]}
           kept == Segments \ {L, R, donor}
<1>a. /\ DOMAIN FreedWithDonor = {"left", "right", "donor", "fbL", "fbR"}
      /\ FreedWithDonor["left"] = seg[L] /\ FreedWithDonor["right"] = seg[R]
      /\ FreedWithDonor["donor"] = seg[donor]
      /\ FreedWithDonor["fbL"] = loc["fbL"] /\ FreedWithDonor["fbR"] = loc["fbR"]
  BY DEF FreedWithDonor
<1>b. /\ Best = {"bestL", "bestR"} /\ Fallback = {"fbL", "fbR", "fbD"}
      /\ Before \subseteq Locals /\ Best \subseteq Locals /\ Fallback \subseteq Locals
      /\ Before \cap Best = {} /\ Before \cap Fallback = {}
  BY DEF Before, Best, Fallback, Locals
<1>c. /\ \A t \in Segments : seg[t] \in live
      /\ \A v \in Before \cup Fallback \cup Best : loc[v] \in live
      /\ \A t, u \in Segments : t # u => seg[t] # seg[u]
      /\ \A v, w \in Before \cup Fallback \cup Best : v # w => loc[v] # loc[w]
      /\ \A t \in Segments : \A v \in Before \cup Fallback \cup Best : loc[v] # seg[t]
  BY DEF Owned
<1>d. \A x \in tours : /\ x \in Nat /\ x \notin given
                      /\ \A t \in Segments : x # seg[t]
                      /\ \A v \in Before : x # loc[v]
  BY <1>1, <1>b, <1>c DEF Owned
<1>e. loc["bestL"] # loc["bestR"] /\ loc["bestL"] # loc["fbD"] /\ loc["bestR"] # loc["fbD"]
  BY <1>b, <1>c
<1>2. /\ live' = live \ given
      /\ fresh' = fresh
      /\ seg' = [[seg EXCEPT ![L] = loc["bestL"], ![R] = loc["bestR"]]
                  EXCEPT ![donor] = loc["fbD"]]
      /\ loc' = [v \in Locals |-> IF v \in Best \cup Fallback THEN Null ELSE loc[v]]
  <2>1. {FreedWithDonor[k] : k \in DOMAIN FreedWithDonor} = given
    BY <1>a
  <2> QED
    BY <2>1 DEF AcceptDonor, FreeValues, TakeSides, Cleared
<1>3. misuse' = FALSE
  <2>1. FreeValues(FreedWithDonor)
    BY DEF AcceptDonor
  <2>2. \A k \in DOMAIN FreedWithDonor : FreedWithDonor[k] \in live
    BY <1>1, <1>a, <1>b, <1>c
  <2>3. \A k, m \in DOMAIN FreedWithDonor :
          k # m => FreedWithDonor[k] # FreedWithDonor[m]
    BY <1>1, <1>a, <1>b, <1>c
  <2> QED
    BY <2>1, <2>2, <2>3 DEF FreeValues
<1>6. /\ seg'[L] = loc["bestL"] /\ seg'[R] = loc["bestR"]
      /\ seg'[donor] = loc["fbD"]
      /\ \A t \in kept : seg'[t] = seg[t]
      /\ seg' \in [Segments -> Nat]
  BY <1>1, <1>2, <1>d DEF Owned
<1>7. /\ \A v \in Before : loc'[v] = loc[v]
      /\ \A v \in Locals \ Before : loc'[v] = Null
      /\ loc' \in [Locals -> Nat]
  BY <1>2, <1>b DEF Owned, Null
<1>8. live' = {seg'[t] : t \in Segments} \cup {loc'[v] : v \in Before}
  <2>1. live = {seg[t] : t \in kept} \cup {loc[v] : v \in Before} \cup given \cup tours
    BY <1>1, <1>b DEF Owned
  <2>2. \A t \in kept : seg[t] \notin given
    BY <1>1, <1>b, <1>c
  <2>3. \A v \in Before : loc[v] \notin given
    BY <1>1, <1>b, <1>c
  <2>4. live' = {seg[t] : t \in kept} \cup {loc[v] : v \in Before} \cup tours
    BY <1>2, <1>d, <2>1, <2>2, <2>3
  <2>5. {seg'[t] : t \in Segments} = {seg[t] : t \in kept} \cup tours
    BY <1>1, <1>6
  <2>6. {loc'[v] : v \in Before} = {loc[v] : v \in Before}
    BY <1>7
  <2> QED
    BY <2>4, <2>5, <2>6
<1>9. live' \subseteq 1 .. fresh' - 1
  BY <1>2 DEF Owned
<1>10. \A t, u \in Segments : t # u => seg'[t] # seg'[u]
  BY <1>6, <1>c, <1>d, <1>e
<1>11. \A t \in Segments : \A v \in Before : loc'[v] # seg'[t]
  BY <1>6, <1>7, <1>c, <1>d
<1>12. \A v, w \in Before : v # w => loc'[v] # loc'[w]
  BY <1>7, <1>c
<1> QED
  BY <1>2, <1>3, <1>6, <1>7, <1>8, <1>9, <1>10, <1>11, <1>12 DEF Owned
(* The tour of the donor replaces the list of the donor's copy. *)
LEMMA DonorTourOwned ==
  ASSUME NEW H \in SUBSET Locals, "fbD" \in H, misuse = FALSE, Owned(H),
         DonorTour
  PROVE  Owned(H)' /\ misuse' = FALSE
<1>1. /\ loc' = [loc EXCEPT !["fbD"] = fresh]
      /\ live' = (live \ {loc["fbD"]}) \cup {fresh}
      /\ fresh' = fresh + 3 /\ seg' = seg
      /\ misuse' = (misuse \/ loc["fbD"] \notin live)
  BY DEF DonorTour
<1>2. /\ \A t \in Segments : seg[t] \in live
      /\ \A v \in H : loc[v] \in live
      /\ \A x \in live : x # fresh /\ x \in 1 .. fresh - 1
      /\ fresh \in Nat \ {0}
  BY DEF Owned
<1>3. /\ loc'["fbD"] = fresh /\ loc' \in [Locals -> Nat]
      /\ \A v \in Locals \ {"fbD"} : loc'[v] = loc[v]
  BY <1>1, <1>2 DEF Owned
<1>4. live' = {seg[t] : t \in Segments} \cup {loc'[v] : v \in H}
  <2>1. live = {seg[t] : t \in Segments} \cup {loc[v] : v \in H}
    BY DEF Owned
  <2>2. \A v \in H \ {"fbD"} : loc[v] # loc["fbD"]
    BY DEF Owned
  <2>3. \A t \in Segments : seg[t] # loc["fbD"]
    BY DEF Owned
  <2> QED
    BY <1>1, <1>3, <2>1, <2>2, <2>3
<1>5. live' \subseteq 1 .. fresh' - 1
  BY <1>1, <1>2
<1>6. /\ \A v, w \in H : v # w => loc'[v] # loc'[w]
      /\ \A t \in Segments : \A v \in H : loc'[v] # seg[t]
  BY <1>2, <1>3 DEF Owned
<1>7. \A v \in Locals \ H : loc'[v] = Null
  BY <1>3 DEF Owned
<1>8. misuse' = FALSE
  BY <1>1, <1>2
<1>9. seg' = seg /\ seg \in [Segments -> Nat] /\ fresh' \in Nat \ {0}
      /\ \A t, u \in Segments : t # u => seg[t] # seg[u]
  BY <1>1, <1>2 DEF Owned
<1> QED
  BY <1>3, <1>4, <1>5, <1>6, <1>7, <1>8, <1>9 DEF Owned

(* Nothing on the heap or in the pointers changes. *)
LEMMA SameHeapOwned ==
  ASSUME NEW H \in SUBSET Locals, Owned(H), NoHeapChange, seg' = seg
  PROVE  Owned(H)' /\ misuse' = misuse
BY DEF Owned, NoHeapChange

-----------------------------------------------------------------------------
LEMMA ControlStep ==
  ASSUME N >= 2, Control, [Next]_vars
  PROVE  Control'
<1>0. attempts \in Nat /\ attempts + 1 \in Nat
  BY DEF Control
<1>1. CASE Attempt
  BY <1>0, <1>1 DEF Attempt, Control, Malloc, L, R
<1>2. CASE CopySegments
  BY <1>0, <1>2 DEF CopySegments, Control, Malloc, Donors, L, R
<1>3. CASE CandidateReady
  BY <1>0, <1>3 DEF CandidateReady, Control, L, R
<1>4. CASE CandidateFails
  BY <1>0, <1>4 DEF CandidateFails, AfterFailure, Control, L, R
<1>5. CASE Reject
  BY <1>0, <1>5 DEF Reject, AfterFailure, Control, L, R
<1>6. CASE Leave \/ Exit \/ NoFallback \/ Attempted
  BY <1>0, <1>6 DEF Leave, Exit, NoFallback, Attempted, Control, L, R
<1>7. CASE Split \/ MallocAbs \/ LeftTour \/ RightTour
  BY <1>0, <1>7 DEF Split, MallocAbs, LeftTour, RightTour, Control, L, R
<1>8. CASE DonorTour \/ DonorTourFails \/ Accept \/ AcceptDonor
  BY <1>0, <1>8 DEF DonorTour, DonorTourFails, Accept, AcceptDonor, Control, L, R
<1>9. CASE UNCHANGED vars
  BY <1>0, <1>9 DEF vars, Control, L, R
<1> QED
  BY <1>1, <1>2, <1>3, <1>4, <1>5, <1>6, <1>7, <1>8, <1>9 DEF Next

(* The steps that allocate. *)
LEMMA MallocStep ==
  ASSUME N >= 2, ListInv,
         Attempt \/ Split \/ MallocAbs \/ LeftTour \/ RightTour \/ CopySegments
  PROVE  Owned(Held)' /\ misuse' = FALSE /\ pc' # "done"
<1> USE DEF Before, Fallback, Work, Best
<1>0. misuse = FALSE /\ Control
  BY DEF ListInv
<1>1. CASE Attempt
  <2> DEFINE f == [beforeL |-> 0, beforeR |-> 1]
  <2>1. Owned({}) /\ donor = NoDonor
    BY <1>0, <1>1 DEF ListInv, Held, Attempt, Control
  <2>2. Malloc(f) /\ seg' = seg /\ pc' = "split" /\ donor' = donor
    BY <1>1 DEF Attempt
  <2>3. f \in [Before -> 0 .. 2] /\ \A v, w \in Before : v # w => f[v] # f[w]
    OBVIOUS
  <2> HIDE DEF f
  <2>4. Owned({} \cup Before)' /\ misuse' = misuse
    BY <2>1, <2>2, <2>3, MallocOwned, LocalSets
  <2>5. Held' = {} \cup Before
    BY <2>1, <2>2 DEF Held, HeldByFallback
  <2> QED
    BY <1>0, <2>2, <2>4, <2>5
<1>2. CASE Split
  <2> DEFINE f == [splitL |-> 0, splitR |-> 1]
             D == {"splitL", "splitR"}
  <2>1. PICK H \in SUBSET Locals : H = Before \cup HeldByFallback
    BY LocalSets DEF Locals
  <2>2. Owned(H) /\ donor' = donor
    BY <1>0, <1>2, <2>1 DEF ListInv, Held, Split
  <2>3. Malloc(f) /\ seg' = seg /\ pc' = "abs"
    BY <1>2 DEF Split
  <2>4. /\ f \in [D -> 0 .. 2] /\ \A v, w \in D : v # w => f[v] # f[w]
        /\ D \in SUBSET Locals
    BY DEF Locals
  <2>5. D \cap H = {}
    BY <2>1 DEF HeldByFallback
  <2> HIDE DEF f, D
  <2>6. Owned(H \cup D)' /\ misuse' = misuse
    BY <2>2, <2>3, <2>4, <2>5, MallocOwned
  <2>7. Held' = H \cup D
    BY <2>1, <2>2, <2>3 DEF Held, HeldByFallback, D
  <2> QED
    BY <1>0, <2>3, <2>6, <2>7
<1>3. CASE MallocAbs
  <2> DEFINE f == [absL |-> 0, absR |-> 1]
             D == {"absL", "absR"}
  <2>1. PICK H \in SUBSET Locals : H = Before \cup HeldByFallback \cup {"splitL", "splitR"}
    BY LocalSets DEF Locals
  <2>2. Owned(H) /\ donor' = donor
    BY <1>0, <1>3, <2>1 DEF ListInv, Held, MallocAbs
  <2>3. Malloc(f) /\ seg' = seg /\ pc' = "left"
    BY <1>3 DEF MallocAbs
  <2>4. /\ f \in [D -> 0 .. 2] /\ \A v, w \in D : v # w => f[v] # f[w]
        /\ D \in SUBSET Locals
    BY DEF Locals
  <2>5. D \cap H = {}
    BY <2>1 DEF HeldByFallback
  <2> HIDE DEF f, D
  <2>6. Owned(H \cup D)' /\ misuse' = misuse
    BY <2>2, <2>3, <2>4, <2>5, MallocOwned
  <2>7. Held' = H \cup D
    BY <2>1, <2>2, <2>3 DEF Held, HeldByFallback, D
  <2> QED
    BY <1>0, <2>3, <2>6, <2>7
<1>4. CASE LeftTour
  <2> DEFINE f == [bestL |-> 0]
             D == {"bestL"}
  <2>1. PICK H \in SUBSET Locals : H = Before \cup HeldByFallback \cup Work
    BY LocalSets DEF Locals
  <2>2. Owned(H) /\ donor' = donor
    BY <1>0, <1>4, <2>1 DEF ListInv, Held, LeftTour
  <2>3. Malloc(f) /\ seg' = seg /\ pc' = "right"
    BY <1>4 DEF LeftTour
  <2>4. /\ f \in [D -> 0 .. 2] /\ \A v, w \in D : v # w => f[v] # f[w]
        /\ D \in SUBSET Locals
    BY DEF Locals
  <2>5. D \cap H = {}
    BY <2>1 DEF HeldByFallback
  <2> HIDE DEF f, D
  <2>6. Owned(H \cup D)' /\ misuse' = misuse
    BY <2>2, <2>3, <2>4, <2>5, MallocOwned
  <2>7. Held' = H \cup D
    BY <2>1, <2>2, <2>3 DEF Held, HeldByFallback, D
  <2> QED
    BY <1>0, <2>3, <2>6, <2>7
<1>5. CASE RightTour
  <2> DEFINE f == [bestR |-> 0]
             D == {"bestR"}
  <2>1. PICK H \in SUBSET Locals : H = Before \cup HeldByFallback \cup Work \cup {"bestL"}
    BY LocalSets DEF Locals
  <2>2. Owned(H) /\ donor' = donor
    BY <1>0, <1>5, <2>1 DEF ListInv, Held, RightTour
  <2>3. Malloc(f) /\ seg' = seg /\ pc' = "tidy"
    BY <1>5 DEF RightTour
  <2>4. /\ f \in [D -> 0 .. 2] /\ \A v, w \in D : v # w => f[v] # f[w]
        /\ D \in SUBSET Locals
    BY DEF Locals
  <2>5. D \cap H = {}
    BY <2>1 DEF HeldByFallback
  <2> HIDE DEF f, D
  <2>6. Owned(H \cup D)' /\ misuse' = misuse
    BY <2>2, <2>3, <2>4, <2>5, MallocOwned
  <2>7. Held' = H \cup D
    BY <2>1, <2>2, <2>3 DEF Held, HeldByFallback, D
  <2> QED
    BY <1>0, <2>3, <2>6, <2>7
<1>6. CASE CopySegments
  <2> DEFINE f == [fbL |-> 0, fbR |-> 1, fbD |-> 2]
  <2>1. Owned(Before)
    BY <1>0, <1>6 DEF ListInv, Held, CopySegments
  <2>2. Malloc(f) /\ seg' = seg /\ pc' = "split"
    BY <1>6 DEF CopySegments
  <2>3. donor' # NoDonor
    BY <1>0, <1>6, Neighbours DEF CopySegments, Donors
  <2>4. f \in [Fallback -> 0 .. 2] /\ \A v, w \in Fallback : v # w => f[v] # f[w]
    OBVIOUS
  <2> HIDE DEF f
  <2>5. Before \cap Fallback = {}
    OBVIOUS
  <2>6. Owned(Before \cup Fallback)' /\ misuse' = misuse
    BY <2>1, <2>2, <2>4, <2>5, MallocOwned, LocalSets
  <2>7. Held' = Before \cup Fallback
    BY <2>2, <2>3 DEF Held, HeldByFallback
  <2> QED
    BY <1>0, <2>2, <2>6, <2>7
<1> QED
  BY <1>1, <1>2, <1>3, <1>4, <1>5, <1>6
(* The steps that free local lists. *)
LEMMA ReleaseStep ==
  ASSUME N >= 2, ListInv,
         CandidateReady \/ CandidateFails \/ DonorTourFails \/ Reject \/ Attempted
  PROVE  Owned(Held)' /\ misuse' = FALSE /\ pc' # "done"
<1> USE DEF Before, Fallback, Work, Best
<1>0. misuse = FALSE /\ Control
  BY DEF ListInv
<1>a. PICK H \in SUBSET Locals : H = Held
  BY LocalSets DEF Held, Locals
<1>1. CASE CandidateReady
  <2>1. /\ Owned(H) /\ H = Before \cup HeldByFallback \cup Work \cup Best
        /\ Release(Work) /\ seg' = seg /\ donor' = donor
        /\ pc' \in {"judge", "donorTour"}
    BY <1>0, <1>1, <1>a DEF ListInv, Held, CandidateReady, ReleaseWork
  <2>2. Owned(H \ Work)' /\ misuse' = FALSE
    BY <1>0, <2>1, ReleaseOwned, LocalSets
  <2>3. Held' = H \ Work
    BY <2>1 DEF Held, HeldByFallback
  <2> QED
    BY <2>1, <2>2, <2>3
<1>2. CASE CandidateFails
  <2>1. PICK V \in SUBSET Locals :
          V = Work \cup Best \cup (IF donor = NoDonor THEN {} ELSE Fallback)
    BY LocalSets DEF Locals
  <2>2. /\ Owned(H) /\ H \subseteq Before \cup V /\ Before \subseteq H
        /\ Before \cap V = {}
        /\ Release(V) /\ seg' = seg /\ pc' \in {"fallback", "attempted"}
    BY <1>0, <1>2, <1>a, <2>1
       DEF ListInv, Held, HeldByFallback, CandidateFails, AfterFailure
  <2>3. Owned(H \ V)' /\ misuse' = FALSE
    BY <1>0, <2>2, ReleaseOwned
  <2>4. Held' = H \ V
    BY <2>2 DEF Held
  <2> QED
    BY <2>2, <2>3, <2>4
<1>3. CASE DonorTourFails
  <2>1. /\ Owned(H) /\ H = Before \cup Fallback \cup Best
        /\ Release(Best \cup Fallback) /\ seg' = seg /\ pc' = "attempted"
    BY <1>0, <1>3, <1>a DEF ListInv, Held, HeldByFallback, DonorTourFails, Control
  <2>2. Owned(H \ (Best \cup Fallback))' /\ misuse' = FALSE
    BY <1>0, <2>1, ReleaseOwned, LocalSets
  <2>3. Held' = H \ (Best \cup Fallback)
    BY <2>1 DEF Held
  <2> QED
    BY <2>1, <2>2, <2>3
<1>4. CASE Reject
  <2>1. /\ Owned(H) /\ H \subseteq Before \cup Fallback \cup Best
        /\ Before \subseteq H
        /\ Release(Best \cup Fallback) /\ seg' = seg
        /\ pc' \in {"fallback", "attempted"}
    BY <1>0, <1>4, <1>a DEF ListInv, Held, HeldByFallback, Reject, AfterFailure
  <2>2. Owned(H \ (Best \cup Fallback))' /\ misuse' = FALSE
    BY <1>0, <2>1, ReleaseOwned, LocalSets
  <2>3. Held' = H \ (Best \cup Fallback)
    BY <2>1 DEF Held
  <2> QED
    BY <2>1, <2>2, <2>3
<1>5. CASE Attempted
  <2>1. /\ Owned(H) /\ H = Before
        /\ Release(Before) /\ seg' = seg /\ pc' = "idle"
    BY <1>0, <1>5, <1>a DEF ListInv, Held, Attempted
  <2>2. Owned(H \ Before)' /\ misuse' = FALSE
    BY <1>0, <2>1, ReleaseOwned, LocalSets
  <2>3. Held' = H \ Before
    BY <2>1 DEF Held
  <2> QED
    BY <2>1, <2>2, <2>3
<1> QED
  BY <1>1, <1>2, <1>3, <1>4, <1>5

(* Freeing the segments at the end frees everything that is left. *)
LEMMA ExitStep ==
  ASSUME ListInv, Exit
  PROVE  /\ misuse' = FALSE /\ live' = {} /\ fresh' \in Nat \ {0}
         /\ seg' \in [Segments -> Nat] /\ loc' \in [Locals -> Nat]
<1>1. Owned({}) /\ misuse = FALSE
  BY DEF ListInv, Held, Exit
<1>2. /\ seg \in [Segments -> Nat]
      /\ live = {seg[t] : t \in Segments}
      /\ \A t, u \in Segments : t # u => seg[t] # seg[u]
      /\ fresh \in Nat \ {0} /\ loc \in [Locals -> Nat]
  BY <1>1 DEF Owned
<1>3. DOMAIN seg = Segments
  BY <1>2
<1>4. misuse' = FALSE /\ live' = {} /\ fresh' = fresh
  BY <1>1, <1>2, <1>3 DEF Exit, FreeValues
<1>5. seg' \in [Segments -> Nat] /\ loc' = loc
  BY DEF Exit, Null
<1> QED
  BY <1>2, <1>4, <1>5

LEMMA InvStep ==
  ASSUME N >= 2, ListInv, [Next]_vars
  PROVE  ListInv'
<1>0. misuse = FALSE /\ Control /\ Control'
  BY ControlStep DEF ListInv
<1>1. CASE Attempt \/ Split \/ MallocAbs \/ LeftTour \/ RightTour \/ CopySegments
  BY <1>0, <1>1, MallocStep DEF ListInv
<1>2. CASE CandidateReady \/ CandidateFails \/ DonorTourFails \/ Reject \/ Attempted
  BY <1>0, <1>2, ReleaseStep DEF ListInv
<1>3. CASE Exit
  <2>1. pc' = "done"
    BY <1>3 DEF Exit
  <2> QED
    BY <1>0, <1>3, <2>1, ExitStep DEF ListInv
<1>4. CASE Leave
  <2>1. Owned({}) /\ NoHeapChange /\ seg' = seg /\ pc' = "cleanup"
    BY <1>4 DEF ListInv, Held, Leave
  <2>2. Owned({})' /\ misuse' = FALSE
    BY <1>0, <2>1, SameHeapOwned
  <2>3. Held' = {}
    BY <2>1 DEF Held
  <2> QED
    BY <1>0, <2>1, <2>2, <2>3 DEF ListInv
<1>5. CASE NoFallback
  <2>1. Owned(Before) /\ NoHeapChange /\ seg' = seg /\ pc' = "attempted"
    BY <1>5 DEF ListInv, Held, NoFallback
  <2>2. Owned(Before)' /\ misuse' = FALSE
    BY <1>0, <2>1, SameHeapOwned, LocalSets
  <2>3. Held' = Before
    BY <2>1 DEF Held, Before
  <2> QED
    BY <1>0, <2>1, <2>2, <2>3 DEF ListInv
<1>6. CASE DonorTour
  <2>1. /\ Held = Before \cup Fallback \cup Best /\ Owned(Held)
        /\ pc' = "judge" /\ donor' = donor /\ donor # NoDonor
    BY <1>0, <1>6 DEF ListInv, Held, HeldByFallback, DonorTour, Control
  <2>2. /\ Before \cup Fallback \cup Best \in SUBSET Locals
        /\ "fbD" \in Before \cup Fallback \cup Best
    BY DEF Before, Fallback, Best, Locals
  <2>3. Owned(Before \cup Fallback \cup Best)' /\ misuse' = FALSE
    BY <1>0, <1>6, <2>1, <2>2, DonorTourOwned
  <2>4. Held' = Before \cup Fallback \cup Best
    BY <2>1 DEF Held, HeldByFallback, Before, Fallback, Best
  <2> QED
    BY <1>0, <2>1, <2>3, <2>4 DEF ListInv
<1>7. CASE Accept
  <2>1. Owned(Before \cup Best) /\ pc' = "attempted"
    <3>1. pc = "judge" /\ Held = Before \cup Best
      BY <1>7 DEF Held, HeldByFallback, Accept
    <3> QED
      BY <1>7, <3>1 DEF ListInv, Accept
  <2>2. Owned(Before)' /\ misuse' = FALSE
    BY <1>0, <1>7, <2>1, AcceptOwned
  <2>3. Held' = Before
    BY <2>1 DEF Held, Before
  <2> QED
    BY <1>0, <2>1, <2>2, <2>3 DEF ListInv
<1>8. CASE AcceptDonor
  <2>1. Owned(Before \cup Fallback \cup Best) /\ pc' = "attempted"
    <3>1. pc = "judge" /\ Held = Before \cup Fallback \cup Best
      BY <1>8 DEF Held, HeldByFallback, AcceptDonor
    <3> QED
      BY <1>8, <3>1 DEF ListInv, AcceptDonor
  <2>2. Owned(Before)' /\ misuse' = FALSE
    BY <1>0, <1>8, <2>1, AcceptDonorOwned
  <2>3. Held' = Before
    BY <2>1 DEF Held, Before
  <2> QED
    BY <1>0, <2>1, <2>2, <2>3 DEF ListInv
<1>9. CASE UNCHANGED vars
  <2>1. /\ UNCHANGED <<pc, donor, seg, loc, live, fresh, misuse>>
    BY <1>9 DEF vars
  <2>2. Held' = Held
    BY <2>1 DEF Held, HeldByFallback
  <2>3. pc # "done" => Owned(Held)'
    BY <2>1, <2>2 DEF ListInv, Owned
  <2> QED
    BY <1>0, <2>1, <2>3 DEF ListInv
<1> QED
  BY <1>1, <1>2, <1>3, <1>4, <1>5, <1>6, <1>7, <1>8, <1>9 DEF Next

LEMMA Invariance ==
  ASSUME N >= 2
  PROVE  Spec => []ListInv
<1>1. ListInv /\ [Next]_vars => ListInv'
  BY InvStep
<1> QED
  BY InitInv, <1>1, PTL DEF Spec

-----------------------------------------------------------------------------
(* With two or more segments every variable has its type. *)
THEOREM ListTypes ==
  ASSUME N >= 2
  PROVE  Spec => []TypeOK
<1>1. ASSUME ListInv PROVE TypeOK
  BY <1>1 DEF ListInv, Control, Owned, TypeOK
<1>2. ListInv => TypeOK
  BY <1>1
<1> QED
  BY Invariance, <1>2, PTL

(* With two or more segments no list is freed twice. *)
THEOREM NothingFreedTwice ==
  ASSUME N >= 2
  PROVE  Spec => []NoMisuse
<1>1. ListInv => NoMisuse
  BY DEF ListInv, NoMisuse
<1> QED
  BY Invariance, <1>1, PTL

(* With two or more segments each keeps a list of its own. *)
THEOREM ListsOwned ==
  ASSUME N >= 2
  PROVE  Spec => []SegmentsOwnLists
<1>1. ASSUME ListInv, pc # "done" PROVE SegmentsOwnLists
  <2>1. Owned(Held) /\ Held \subseteq Locals
    BY <1>1, LocalSets DEF ListInv, Held, Locals
  <2>2. \A t \in Segments : seg[t] \in live /\ seg[t] # Null
    BY <2>1 DEF Owned, Null
  <2>3. \A t \in Segments, v \in Locals : loc[v] # seg[t]
    BY <2>1, <2>2 DEF Owned
  <2> QED
    BY <2>1, <2>2, <2>3 DEF SegmentsOwnLists, Owned
<1>2. ListInv => SegmentsOwnLists
  BY <1>1 DEF SegmentsOwnLists
<1> QED
  BY Invariance, <1>2, PTL

(* With two or more segments no list is lost. *)
THEOREM NoListLost ==
  ASSUME N >= 2
  PROVE  Spec => []NothingLeaks
<1>1. ASSUME ListInv PROVE NothingLeaks
  BY <1>1 DEF ListInv, NothingLeaks, Held, Owned
<1>2. ListInv => NothingLeaks
  BY <1>1
<1> QED
  BY Invariance, <1>2, PTL
=============================================================================
