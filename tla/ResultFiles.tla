----------------------------- MODULE ResultFiles -----------------------------
(***************************************************************************)
(* The result files and the make rules that keep them up to date.          *)
(*                                                                         *)
(* data -> gsp.db -> construction.json -> segment.json -> refinement*.json *)
(*                                                                         *)
(* make compares time stamps and runs one program per file.  A program     *)
(* reads its input, computes, truncates its output in place and writes it  *)
(* from front to back without looking at the result of a write, so a kill, *)
(* a full disk or a failure half way leaves a file that is cut off.  Only  *)
(* gsp.db is written aside and renamed.  The next program looks for keys   *)
(* in the text of its input, and finds them in some cut-off files too.     *)
(***************************************************************************)
EXTENDS Naturals, FiniteSets, Sequences, SequencesExt

CONSTANTS
  Methods,     \* METHOD: nn, ge, ci, noport, fixedport
  Refined,     \* VALID_REFINEMENT_METHODS
  Variants,    \* l2seg_variants: the time limits of refinement_<limit>.json
  Defaults,    \* the limits the configuration may give refinement.json
  Goals,       \* what make is asked for: [file, phony]
  Passes,      \* bound: how many passes a refinement may make
  MaxCalls,    \* bound: calls of make, with a change by the user between two
  MaxMishaps   \* bound: programs cut off

ASSUME RefinedAssumption == Refined \subseteq Methods
ASSUME PassesAssumption == Passes \subseteq 0 .. 2
ASSUME VariantsAssumption == Variants \subseteq Nat \ {0}

File(method, phase, limit) == [method |-> method, phase |-> phase, limit |-> limit]
Data == File("any", "data", 0)            \* island, waypoints, ports, boats, stations
Config == File("any", "config", 0)        \* gsp_solver.yaml
Routing == File("any", "routing", 0)      \* gsp.db
Construction(m) == File(m, "construction", 0)
Segment(m) == File(m, "segmentation", 0)
Refinements == {File(m, "refinement", l) : m \in Refined, l \in Variants \cup {0}}

Results ==
  {Construction(m) : m \in Methods} \cup {Segment(m) : m \in Methods} \cup Refinements
Files == {Data, Config, Routing} \cup Results

ASSUME GoalsAssumption == Goals \subseteq [file : Results, phony : BOOLEAN]

(* How much of a result has been written, as far as its readers tell:      *)
(* nothing they can use; an unfinished list of stations; the first         *)
(* solution but no summary; the name of the final solution but not the     *)
(* end; all of it.                                                         *)
Parts == {"empty", "cut", "routes", "named", "whole"}
ConstructionParts == <<"empty", "cut", "routes", "named", "whole">>
SegmentParts == <<"empty", "routes", "named", "whole">>
RefinementParts == <<"empty", "whole">>

PartsOf(f) ==
  CASE f.phase = "construction" -> ConstructionParts
    [] f.phase = "segmentation" -> SegmentParts
    [] OTHER -> RefinementParts

(* The solution in the file: of all stations and from the final solution   *)
(* of its input ("right"), of some stations only, or from another          *)
(* solution than the final one of its input.                               *)
Routes == {"right", "short", "other"}

(* of: the inputs whose content is still what the file was made from.      *)
Content(route, original, passes, limit, of) ==
  [part |-> "empty", route |-> route, original |-> original,
   passes |-> passes, limit |-> limit, of |-> of]
Whole(c) == [c EXCEPT !.part = "whole"]
Absent == [Content("right", FALSE, 0, 0, {}) EXCEPT !.part = "absent"]
NoJob == Data
NoGoal == [file |-> Data, phony |-> FALSE]

VARIABLES
  disk,      \* the files
  older,     \* of each file, the files with an earlier time stamp
  goal,      \* what make was asked for last
  outcome,   \* none, making, done, failed
  job,       \* the file a program is writing
  calls,     \* calls of make so far
  mishaps    \* programs cut off so far

makeVars == <<disk, older, goal, outcome, job, calls, mishaps>>

MakeInit ==
  /\ disk = [f \in Files |->
               IF f \in {Data, Config} THEN Whole(Content("right", FALSE, 0, 0, {}))
               ELSE Absent]
  /\ older = [f \in Files |-> IF f = Config THEN {Data} ELSE {}]
  /\ goal = NoGoal /\ outcome = "none" /\ job = NoJob
  /\ calls = 0 /\ mishaps = 0
-----------------------------------------------------------------------------
Present(f) == disk[f].part # "absent"
Newer(f, g) == g \in older[f]

Prerequisites(f) ==
  CASE f.phase = "routing" -> {Data}
    [] f.phase = "construction" -> {Routing}
    [] f.phase = "segmentation" -> {Construction(f.method)}
    [] f.phase = "refinement" ->
         {Segment(f.method)} \cup (IF f.limit # 0 THEN {Config} ELSE {})
    [] OTHER -> {}

(* The configuration apart, what the program that makes the file reads.    *)
Reads(f) ==
  (Prerequisites(f) \ {Config}) \cup (IF f \in Results THEN {Routing} ELSE {})

Chain(f) ==
  CASE f.phase = "construction" -> <<Routing, f>>
    [] f.phase = "segmentation" -> <<Routing, Construction(f.method), f>>
    [] f.phase = "refinement" ->
         <<Routing, Construction(f.method), Segment(f.method), f>>

Wanted == Chain(goal.file)

(* Mutant: a prerequisite after the bar, whose time stamp is not looked at. *)
StaleIfMissing(f) == ~Present(f)

Stale(f) == ~Present(f) \/ \E g \in Prerequisites(f) : Newer(g, f)

(* refinement_l2seg depends on the segmentation and names no file.         *)
Due ==
  {i \in DOMAIN Wanted : Stale(Wanted[i]) /\ ~(goal.phony /\ Wanted[i] = goal.file)}

(* make remakes the prerequisites of a file before the file.               *)
IsNext(f) ==
  /\ outcome = "making" /\ job = NoJob
  /\ \/ \E i \in Due : f = Wanted[i] /\ \A k \in Due : i <= k
     \/ Due = {} /\ goal.phony /\ f = goal.file /\ ~Present(f)

(* Mutant: the output keeps an older time stamp.                            *)
StampedOld(f) == [g \in Files |-> IF g = f THEN {} ELSE older[g] \cup {f}]

(* The file gets a new content and the newest time stamp.                  *)
Stamped(f) ==
  [g \in Files |->
     IF g = f THEN {h \in Files \ {f} : Present(h)} ELSE older[g] \ {f}]

Changed(f, c) ==
  [g \in Files |-> IF g = f THEN c ELSE [disk[g] EXCEPT !.of = @ \ {f}]]
-----------------------------------------------------------------------------
Ask(g) ==
  /\ outcome # "making" /\ calls < MaxCalls
  /\ goal' = g /\ outcome' = "making" /\ calls' = calls + 1
  /\ UNCHANGED <<disk, older, job, mishaps>>

(* Nothing is stale; refinement_l2seg also ends where the file exists.     *)
Finish ==
  /\ outcome = "making" /\ job = NoJob /\ Due = {}
  /\ goal.phony => Present(goal.file)
  /\ outcome' = "done"
  /\ UNCHANGED <<disk, older, goal, job, calls, mishaps>>

Fail ==
  /\ outcome' = "failed" /\ goal' = NoGoal /\ job' = NoJob
  /\ UNCHANGED calls

CutOff == mishaps < MaxMishaps /\ mishaps' = mishaps + 1

(* gsp.db.tmp is removed, written and renamed.                             *)
Prepare ==
  /\ IsNext(Routing)
  /\ disk' = Changed(Routing, Whole(Content("right", FALSE, 0, 0, {Data})))
  /\ older' = Stamped(Routing)
  /\ UNCHANGED <<goal, outcome, job, calls, mishaps>>

(* A program reads its input, computes and truncates its output.           *)
Open(f, c) ==
  /\ IsNext(f)
  /\ disk' = Changed(f, c) /\ older' = Stamped(f)
  /\ job' = f
  /\ UNCHANGED <<goal, outcome, calls, mishaps>>

Construct(m) ==
  Open(Construction(m), Content("right", FALSE, 0, 0, {Routing}))

(* The order is read up to where the text ends.                            *)
OrderRead(input) == IF input.part = "cut" THEN "short" ELSE "right"

(* The final solution is copied only when the summary that names it is     *)
(* there.                                                                  *)
FinalCopied(input) == input.part \in {"named", "whole"}

SegmentOrder(m) ==
  LET input == disk[Construction(m)] IN
  /\ input.part # "empty"
  /\ Open(Segment(m), Content(OrderRead(input), FinalCopied(input), 0, 0,
                              Reads(Segment(m))))

(* Without a summary the first solution in the text is taken: the          *)
(* construction, or the segments as they were before they were improved.   *)
LoadedRoute(input) ==
  IF input.part = "routes" /\ input.route = "right" THEN "other" ELSE input.route

(* --l2seg-limit, or the configuration for refinement.json of its rule.    *)
LimitGiven(f) ==
  IF goal.phony \/ f.limit # 0 THEN f.limit ELSE disk[Config].limit

Refine(f, passes) ==
  LET input == disk[Segment(f.method)] IN
  /\ input.part # "empty"
  /\ Open(f, Content(LoadedRoute(input), FALSE, passes, LimitGiven(f), Reads(f)))

(* The list of stations is not found, ends inside, or in half a number.    *)
Unreadable(input) == input.part \in {"empty", "cut"}

RefuseInput(f) ==
  /\ IsNext(f)
  /\ \E g \in Prerequisites(f) \cap Results : Unreadable(disk[g])
  /\ Fail
  /\ UNCHANGED <<disk, older, mishaps>>

Write ==
  /\ job # NoJob
  /\ \E i \in 1 .. Len(PartsOf(job)) - 1 :
       /\ disk[job].part = PartsOf(job)[i]
       /\ disk' = [disk EXCEPT ![job].part = PartsOf(job)[i + 1]]
  /\ UNCHANGED <<older, goal, outcome, job, calls, mishaps>>

(* The program returns 0 after its last write, and after one that failed.  *)
Close ==
  /\ job # NoJob /\ disk[job].part = "whole"
  /\ job' = NoJob
  /\ UNCHANGED <<disk, older, goal, outcome, calls, mishaps>>

EndsEarly ==
  /\ job # NoJob /\ disk[job].part # "whole"
  /\ job' = NoJob /\ CutOff
  /\ UNCHANGED <<disk, older, goal, outcome, calls>>

(* A program fails before it opens its output.                             *)
FailsBefore ==
  /\ outcome = "making" /\ job = NoJob /\ Due # {}
  /\ Fail
  /\ UNCHANGED <<disk, older, mishaps>>

(* A program is killed, or fails, with its output open.                    *)
Dies == job # NoJob /\ Fail /\ CutOff /\ UNCHANGED <<disk, older>>

(* make is interrupted and deletes the target its recipe has changed.      *)
Removed(f) ==
  /\ disk' = [disk EXCEPT ![f] = Absent]
  /\ older' = [g \in Files |-> IF g = f THEN {} ELSE older[g] \ {f}]

Interrupt ==
  /\ job # NoJob /\ ~(goal.phony /\ job = goal.file)
  /\ Removed(job) /\ Fail /\ CutOff

(* Between two calls of make the user edits the data or the limit, or      *)
(* removes a file to force its program to run again.                       *)
UserChange ==
  /\ outcome \in {"done", "failed"} /\ calls < MaxCalls
  /\ outcome' = "none" /\ goal' = NoGoal
  /\ UNCHANGED <<job, calls, mishaps>>

Edit(f, limit) ==
  /\ UserChange
  /\ disk' = Changed(f, [disk[f] EXCEPT !.limit = limit]) /\ older' = Stamped(f)

Delete(f) == UserChange /\ Present(f) /\ Removed(f)

Program ==
  \/ Finish \/ Prepare \/ Write \/ Close
  \/ \E m \in Methods : Construct(m) \/ SegmentOrder(m)
  \/ \E f \in Refinements, p \in Passes : Refine(f, p)
  \/ \E f \in Results : RefuseInput(f)

Mishap == FailsBefore \/ EndsEarly \/ Dies \/ Interrupt

User ==
  \/ \E g \in Goals : Ask(g)
  \/ Edit(Data, 0)
  \/ \E l \in Defaults : Edit(Config, l)
  \/ \E f \in {Routing} \cup Results : Delete(f)

MakeNext == Program \/ Mishap \/ User

MakeSpec == MakeInit /\ [][MakeNext]_makeVars
-----------------------------------------------------------------------------
(* Where make finds nothing to do and every file of a chain is whole, the  *)
(* chain is right: each file was made from what its inputs hold now, from  *)
(* all stations and from the final solution before it.  A wrong result is  *)
(* never without a cut-off or a stale file somewhere before it.            *)
UpToDateIsRight ==
  \A f \in Results :
    LET chain == ToSet(Chain(f)) IN
    (\A g \in chain : disk[g].part = "whole" /\ ~Stale(g)) =>
      \A g \in chain : disk[g].route = "right" /\ disk[g].of = Reads(g)

(* A program that starts leaves nothing to do at its file or before it, so *)
(* that a call of make runs no program twice and ends.                     *)
NothingRemade ==
  [][job = NoJob /\ outcome = "making" /\ outcome' = "making" =>
       \A k \in Due', i \in DOMAIN Wanted : IsNext(Wanted[i]) => k > i]_makeVars

(* "completed runs are skipped automatically", "Already complete": where   *)
(* make has nothing left to do, the file it was asked for is complete.     *)
SkippedIsComplete == outcome = "done" => disk[goal.file].part = "whole"
=============================================================================
