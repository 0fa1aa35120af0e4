# Formal model of the groundfish single-vessel routing solver

The repository plans the route of one research vessel through the stations of
a groundfish survey. A route is a circular list of *segments*: from a dock
(home or port) to the next, serving some stations, with a total expected catch
no larger than the capacity of the boat. The program is a pipeline of
sequential C programs that hand over JSON files and SQLite databases; the
heuristic that improves the route, the *refinement sweep*, is its core. Before it
come the *construction* of an order of stations, by one of three heuristics or one of
two mixed-integer programs, and the *segmentation* that turns an order into the
segments the sweep starts from; make runs them one after the other, and an export
collects the results in a database.

This directory holds TLA+ modules that model these stages and the files between
them, TLC configurations that check them on small instances, and TLAPS proofs for
all instances of the sweep and the segmentation. Three views of the sweep are
modelled, each in a module of its own: what it does to the route (`Sweep`), which
station the fallback moves (`DonorChoice`), and who owns the heap lists the route is
stored in (`SegmentLists`). `Segmentation` models the segmentation with its
post-optimisation, `Construction` the heuristics, `PairedTour` and `MipOrder` the
mixed-integer programs, `ResultFiles` and `SolutionDb` make, the files and the export.

## 1. Inventory

Paths are relative to the repository.

| Component | Source | State it keeps | Operations |
|---|---|---|---|
| Refinement sweep | `src/sweep/gsp_sweep_mode.c` | segments (stations, catch, distance), `active[]`, pass counters, run totals, snapshots, output file | pass loop, boundary attempt, acceptance, snapshot, JSON report |
| Donor fallback | `src/sweep/gsp_sweep_fallback.c` | none of its own; rewrites three segments | choose a donor station, retry the boundary with it, accept |
| Feasibility | `src/common/feasibility.c` | none | capacity, unique, complete |
| Two-segment capacity MIP | `src/mip/fixedport.c` | Gurobi model | split the stations of two segments around their port |
| Directed segment TSP | `src/mip/endpaired_tsp.c`, `mip_common.c` | Gurobi model | shortest tour of one segment |
| Subtour callback | `src/mip/mip_paired_tour.c` | none | find, orient and cut subtours |
| No-port and fixed-port orders | `src/mip/noport.c`, `src/init/noport_order_main.c`, `fixedport_order_main.c` | Gurobi model, JSON | station order by MIP |
| Construction heuristics | `src/init/construction_{nn,ge,ci}.c`, `init_utils.h` | visited flags, load, partial tours | nearest neighbour, greedy edge, cheapest insertion |
| Construction driver | `src/init/gsp_init_mode.c`, `src/gsp.c` | instance, solutions | run strategies, validate, write JSON |
| Segmentation | `src/init/segment_from_order.c` | load, open segment | insert ports, parse segmented input, repair overloaded segments |
| Post-optimisation | `src/init/segment_postopt.c` | none | one TSP per segment |
| Distances and coastline | `src/common/distance.c`, `coastline_db.c`, `src/tools/distance_builder.c` | distance matrix, waypoint graph | geodesic and around-land distances |
| Survey data | `src/common/dat_parser.c`, `src/tools/*import*`, `*bootstrap*`, `export_*` | SQLite tables | import, export |
| Result files | `src/Makefile` | files and time stamps | rules that run the programs, skip, interrupt |
| Solution database | `src/tools/solution_db_export.c` | SQLite tables | load JSON solutions, join them to their parents, summarise |
| Utilities | `src/common/json_utils.c`, `sql_utils.c`, `mip_report.c` | buffers | text and growth of arrays |
| Plots and tables | `R/*.R` | none | read results |

Interaction: `prepare-routing-data` fills `dat/gsp.db`; construction writes
`construction.json`; segmentation turns the order into `segment.json`;
refinement reads that and writes `refinement.json`; the export fills
`dat/solution.db`, which the plots read. Inside refinement, `mode_refinement`
calls `optimize_boundary`, which calls `optimize_boundary_candidate` and, through
function pointers, the fallback calls that again together with
`reoptimize_candidate_segment`. All of it runs in one thread; the solvers are
synchronous calls that may take any time up to their limit and may return an
optimum, an incumbent or nothing.

What is hard inside the programs is therefore not concurrency but *long sequences
of legal steps*: a boundary's verdict is cached in `active[]` and must be invalidated by
changes made elsewhere on the circle; three segments are rewritten from copies
taken before up to seven solves, any of which may fail; counters of three
scopes (attempt, pass, run) end up in one report; limits on time cut in at
three places; and nothing but the acceptance test makes an unlimited sweep end.
Between the programs it is *files*: they are rewritten in place, compared by time
stamp only, searched as text by programs that do not notice where it breaks off, and
collected by an export that may run meanwhile.

What makes each component correct:

- *Sweep and fallback*: stations only move between segments; no segment is
  overloaded or emptied; the route only gets shorter; every change wakes the
  boundaries it affects; a quiet pass means every boundary was tried; the
  report agrees with what happened; the sweep ends. All of these are checked,
  most are proved.
- *Segmentation*: every station in one segment, in order; each segment within
  the capacity unless a station alone exceeds it; no segment lost at the end, and
  no port that was not needed. All of these are checked and proved.
- *Post-optimisation*: same stations per segment, indices still aligned; checked
  and proved for segments that are not empty.
- *Construction*: each order visits each station once, the cycles are what the
  heuristic promises, segments and lengths add up, an ordinary survey gets a feasible
  route, and the loop ends. Checked, and all but the last proved.
- *Mixed-integer programs*: cuts remove subtours and nothing else; optimal means
  shortest of all orders within the capacity; the order read off the solution is the
  one paid for. Checked.
- *Result files and solution database*: a file that make leaves alone is right if it
  is whole; no rows of half a walk; no broken lineage. Checked and proved.
- *Data*: repeated import leaves the same tables.

## 2. Modules

| Module | What it is |
|---|---|
| `Sweep` | `mode_refinement`, `optimize_boundary` and the donor fallback as a transition system; its mutants and properties |
| `LocalSearch` | the abstract specification: a plan that only changes by shorter redistributions among two or three segments |
| `DonorChoice` | `select_fallback_donor`, its distances, and the copies made of its choice |
| `SegmentLists` | allocation, hand-over and freeing of the station lists during a sweep |
| `Segmentation` | `segment_from_order.c` from the parsed construction on, and `segment_apply_local_postopt` |
| `Construction` | nearest neighbour, greedy edge, cheapest insertion, and the driver's verdict |
| `PairedTour` | the subtours of a solution, its orientation, its order of cities, the cuts: operators |
| `MipOrder` | the search of the solver with the callback, and the two programs that write such an order; extends `PairedTour` |
| `ResultFiles` | the chain of files, the make rules, programs that are cut off, the user |
| `SolutionDb` | `ResultFiles` with `solution_db_export` beside it |
| `MCSegmentation` | every order of a few stations, cut into groups in every way |
| `MCSweep` | instances for TLC: docks and stations on a line, tours computed from the geometry |
| `MCDonorChoice` | six segments on a line, tows from place to place |
| `MCConstruction` | four tows and two ports on a grid, every assignment of tows to stations, gaps in the matrix |
| `MCMipOrder` | a dock and three cities on a grid, for each use of the solver |
| `MCSolutionDb` | one method with two refinement files |
| `Sums` | what sums over finite sets are, by induction over subsets; least elements and induction over intervals |
| `SweepProofs` | types, the inductive invariant, the route, reactivation, the refinement; the quiet verdict, the feasible flag, the output file; time beyond the global limit, counters, totals and gains |
| `DonorChoiceProofs` | that the scan finds the nearest, in the sense of the document, and what is copied |
| `SegmentListProofs` | ownership: nothing freed twice, shared or leaked |
| `ConstructionProofs` | the orders: every station once, the cycle of greedy edge, the cheapest insertions; the routes laid out along them: segments, catches, lengths, the verdict |
| `MipOrderProofs` | that the solver's solutions without a subtour are the orders of the cities, at the same length; that the search is exact; the segments written |
| `SolutionDbProofs` | what make leaves alone is right, and nothing is made twice; beside it, the rows of an export appear at once, their lineage is closed, and when it fails |
| `SegmentationProofs` | the order, the catches and the overloads for any construction; the output for constructions with a catch at every station |

### How `Sweep` corresponds to the code

`pc` is the place in `mode_refinement`:

| `pc` | place in the code | actions |
|---|---|---|
| `pass` | top of the `while` loop | `StartPass`, `StopSweep` |
| `boundary` | top of the `for` loop over boundaries, or just after it | `SkipInactive`, `Attempt`, `RecordPass` |
| `split` | before `solve_boundary_capacity_mip` | `SolveSplit`, `SolveFails` |
| `left`, `right` | before the segment TSP of that side | `SolveLeft`, `SolveRight`, `SolveFails` |
| `donor` | before `reoptimize_candidate_segment` | `SolveDonor`, `SolveFails` |
| `decide` | at the acceptance test, of two segments or of three | `Accept`, `Reject` |
| `fallback` | entry of `gsp_sweep_try_donor_fallback` | `SelectDonor`, `NoDonorFound` |
| `write` | after the loop | `WriteFinal` |
| `done` | the program has exited with `rc` | none |

The steps between solves are separate actions because each may fail after the
earlier ones were counted and, with a limit, after they took time. `Abort` is
every `goto cleanup` inside or after the loop. In debug mode a rewrite that
cannot open its file leaves the previous file and status 1; that is `Abort` from
`boundary`, before the pass is recorded, since nothing else of the pass survives
the exit.

`cand` is the attempt in progress: the locals of `optimize_boundary` and of the
fallback. `cand.donor = NoDonor` is the plain attempt. `tally` holds the counters
reset at each pass, `totals` those of the run. `splits` and `tsps` count the
detail records appended, `solves` the solves counted; the code counts first and
appends after, and the append may fail.

What is abstracted:

- The order and the direction of stations in a segment: a segment is the set of
  its stations, its catch and its length. No decision of the sweep reads the
  order except the distance ranking of donors.
- The solvers. A split is any that respects the constraints of the capacity MIP
  and the caller's own check (each station once, one visit to the port, both
  sides non-empty and within the capacity). A tour has any length in
  `TourLengths[<<segment, stations>>]`: an optimum or an incumbent.
- Which donor is *nearest*: `SelectDonor` takes any eligible one, `DonorChoice`
  says which. To which side it is copied does not matter here, since the MIP pools
  both sides.
- Distances are integers and `Eps` one unit of them; in the code they are
  doubles and `SWEEP_EPS` is 1e-6. Rounding is not modelled.
- Time passes in the solvers, up to the limit each one got, and up to
  `Overhead` before the sweep, at the start of a pass and when one is recorded.
- Arguments, YAML and JSON parsing, and the first debug write (assumed to
  succeed: the program stops at once if it does not).
- The one-segment route. There `(b + 1) % segment_count = b`: left and right are
  the same object. `SegmentLists` has that aliasing.

`LocalSearch` sees `stations` as the plan, `dist` as its lengths, and `pc` in
`write` or `done` as finished. Each `Accept` is an `Exchange` or a `Donate`;
entering `write`, or `done` by `Abort`, is `Finish`; everything else stutters.

### How `DonorChoice` corresponds to the code

The double loop of `select_fallback_donor` is a scan with cursor `s`, `i` (from 1)
and its running best. One step of the scan is `PassOver` (the early `continue`
for lack of room) or `Consider`; `NextSegment` leaves a segment that may not
donate, or that is exhausted. `Copy` is the three `copy_segment_*` calls. The
function keeps no state of its own, so the steps only make its order visible;
what is checked of it is its result. Routes are sequences here, because the scan
order decides ties and the copies must keep the order. `Miles` is the matrix of
the instance with the code's convention that what is not positive is missing:
`StationToLoc` falls back to the other end of the tow. `Beats` stands for the
start value 1e100, larger than any distance. `MayDonate` is the condition that
`Sweep` lets `SelectDonor` choose by (`DonorMoves`), so `ChoiceIsNearest` ties the
two modules together: the station found is one of those.

### How `SegmentLists` corresponds to the code

The variables of `seg` and `loc` are pointers: `segments[i].signed_station_ids`
and the locals of the four functions that handle lists. `pc` is the place in
`optimize_boundary_candidate` (`split`, `abs`, `left`, `right`, `tidy`), its
callers (`judge`, `donorTour`, `fallback`) or `mode_refinement` (`idle`,
`attempted`, `cleanup`). A block is a number that is never used again after it is
freed, so a stale pointer is recognised; `misuse` records a `free` of a block that
is not allocated. The contents of lists, the arrays for detail records and the
report are left out, and boundaries may be attempted in any order (a superset of
what `active` allows). The program may go to its cleanup between any two attempts.
Each step that allocates may fail instead, with one exception: if one of the first
four allocations of `solve_boundary_capacity_mip` fails, it frees a solution it has
not initialised, and what happens then is not modelled (it is listed as a hazard).

### How `Segmentation` corresponds to the code

`pc` is the place in `main` of `segment_from_order.c` and the functions it calls:

| `pc` | place in the code | actions |
|---|---|---|
| `groups` | before the four conditions under which groups are kept | `CheckGroups`, `RefuseGroups` |
| `repair` | the loops of `repair_segmented_station_groups_capacity`, at group `s` | `RepairMove`, `RepairNext`, `Repaired`, `RepairFails` |
| `preserve` | `segment_from_segmented_input` | `Preserve`, `PreserveFails` |
| `order` | top of the loop of `segment_from_order`, at station `ord`, or just after it | `PortBefore`, `Visit`, `EndOrder`, `OrderFails` |
| `postopt` | top of the loop of `segment_apply_local_postopt`, at segment `s`, or just after it | `SkipEmpty`, `SolveSegment`, `PostOptFails`, `Write` |
| `done`, `failed` | the program has written its output, or exited with status 1 | none |

One iteration of the scan is a `Visit`, with the port after it if the boat is
full, and before it a `PortBefore` if the station does not fit. `segOf`
is `visit_station_segment`, counted from 1, and `segs` the segment arrays; an
entry of `out` holds the number `s` its stations keep, while its place is the
number the segment gets. The output lists for each segment the stations that keep
its number (`Reported`).

What is abstracted:

- Which port is nearest: any, or none within reach where the code has a branch
  for that. When the boat is full and the scan goes on without a port, there was
  none, so the next station finds none either from the same place: this is
  `load < Capacity` in `PortBefore`.
- A function that runs out of memory, or does not find a station in the database,
  fails: `RefuseGroups`, `RepairFails`, `PreserveFails`, `OrderFails` and
  `PostOptFails` may happen where it could, whatever the data.
- Directions of stations, distances, the list of locations, and the tour within a
  segment: no decision here reads them. The tour of a segment visits
  its stations, which is what the solver's constraints say.
- The post-optimisation is the one built with Gurobi. Built without, it copies.
- The input is parsed: no station comes twice (the constructions visit each
  once: `VisitedOnce` of `Construction`), and groups are pieces of the order, as both are read from one list. The
  output file is assumed to be written.

### How `Construction` corresponds to the code

`pc` is the place in `run_construction_strategy` and what it calls:

| `pc` | place in the code | actions |
|---|---|---|
| `nearest` | loop of `build_nn_station_order` | `NextNearest` |
| `edges` | loop over the sorted pairs in `build_station_order` of greedy edge | `ScanPair`, `EndEdges` |
| `insert` | `build_station_order_ci` | `StartCycle`, `InsertCheapest`, `EndInsert` |
| `build` | `build_ordered_solution_from_station_order`, `build_noport_solution_ge`, `build_noport_solution_ci` | `Follow`, `FollowGE`, `FollowCI`, `EndFollow` |
| `emit` | loops of `gi_solve` and `ci_solve` | `EmitGE`, `EmitCI`, `FlushGE`, `FlushCI` |
| `roam` | loop of `nn_solve` | `RoamVisit`, `RoamPort`, `RoamEnd` |
| `check` | post-optimisation and checks of `mode_construction` | `Check`, `PostOptFails` |
| `done`, `failed` | a verdict is written, or the error returned | none |

A distance that is not positive counts as missing, as in the code, and the matrix of
an instance may have gaps. `First` takes the first of equals, as a scan with `<` does.
`route` is the solution under construction: place, load and length of the open
segment, the tour, the stations with their segment numbers, the closed segments. Left
out: arguments and database, the direction field of the visits, the growth of arrays
(`OutOfMemory` may end any heuristic), the message of a verdict. `MaxSegments` is the one bound that is
not in the code: without it nearest neighbour may go from port to port for ever.
`Check` does not solve the segments again (that is `Segmentation`); where
the checks depend on the order found inside a segment, any is possible.

What the model shows of the code beyond its properties:

- The second phase of `nn_solve` (take a station although it does not fit) is never
  reached with a candidate: with an empty load the first phase leaves none out.
- When no port reaches a station that is left, `nn_solve` goes from port to port
  without end; with a complete matrix never (`Ends`). When there is no port within
  reach it stops and leaves stations out, greedy edge fails, cheapest insertion goes
  on with a boat that is too full.
- `nn_solve` and `ci_solve` close the last segment only for a load above zero:
  stations without catch behind the last port get the number of a segment that is not
  there, and the way to them is missing in the total distance. Greedy edge looks
  for stations instead, and keeps both. Hence `SomeCatch` (no station without
  catch) in `SegmentsCutTour` and `LengthsAddUp`, the parts of `SegmentsAddUp`.
- A station without catch may share a segment with one over the target: `OversizeAlone`
  says that all of the catch is one station's, not that it is alone on board.
- A distance of zero makes a station ineligible, also from the dock; with two stations
  greedy edge always falls back to the order of the database; a tow that starts or
  ends in a port may make a verdict infeasible.

`Complete` is the condition of a whole matrix under which the properties promise more:
a way between any two different locations, both ways, also from the boat and back to
it. That different nodes have no location in common, the boat's included, is part of
it, since the code takes the distance zero for a missing one: from a boat at the end
of a tow nearest neighbour never finds that station.

### How `PairedTour` and `MipOrder` correspond to the code

`PairedTour` holds the functions of `mip_paired_tour.c` as operators on a successor
function: `FindSubtour`, `Oriented`, `CityTour`, and `Allowed`, the cut the callback
adds for a subtour. `MipOrder` is one solve, of any of four kinds:

| `kind` | in the code |
|---|---|
| `segment` | `solve_mip_endpaired_tsp`, the tour of one segment between two docks |
| `noport` | `solve_mip_noport` and `noport_order_main.c` |
| `split` | `solve_mip_fixedport` for two segments and the port between them |
| `fixedport` | `solve_mip_fixedport` and `fixedport_order_main.c`, candidate ports given |

The solver is external. `Propose` is its call of the callback with any
solution of the constraints that respects the cuts and improves the incumbent:
`SubtourElim` then cuts or accepts. It stops when nothing better is left
(`Exhausted`), at a time limit or any other stop with a usable incumbent
(`TimeLimit`), or with an error (`SolverError`). `OptimizeAgain` is the second
`GRBoptimize` of `fixedport.c`. The constraints are modelled by the solutions they
admit: `Assignments` for the arcs and `FlowExists` for the load variables, which have
values exactly if no stretch between two ports or docks is too heavy. `Orders`, in
contrast, is the reference: every sequence of the cities in every direction, of which
`Fits` asks that no station sequence between two stops is too heavy. That
the two agree is what `SearchIsExact` and `OrderAsPaid` say. The module assumes of an
instance (`InstanceAssumption`) its type, that there is a station (the callers refuse
without one: `gsp_sweep_mode.c:989`, `gsp_sweep_mode.c:1309`, `segment_postopt.c:172`,
`fixedport_order_main.c:527`; only `noport_order_main.c` has no such guard, and a survey
database without a single station is left out), and that miles are the same both ways, as the database holds them (`distance.c:614`): without that a tour that is
turned round would not cost what was paid for it. An optimal status is taken at its
word: no caller sets a gap, and the solver calls a solution optimal within its default
relative gap of 1e-4, which is abstracted. The programs measure
the route before they open the file and give up on a missing distance (`Measure`);
`noport_order_main.c` allocates once more with the file open, which is why
`WriteFails` may leave it empty there. Left out: the warm start (no caller gives
one), other parameters of the solver, YAML, SQL and the layout of the JSON.

### How `ResultFiles` and `SolutionDb` correspond to the code

`disk` is what the files hold and `older` says of each which others have an earlier time stamp. Of a result
the model keeps how much is written (`part`: what its readers find in the text of an
unfinished file), whether its solution is of all stations and from the final solution
of its input (`route`), its passes and its limit, and in `of` the inputs that have not
changed since it was made. `of` and `route` are what `UpToDateIsRight` is about; no
program reads them.

A call of make (`Ask`) remakes what is stale along `Chain`, the rules of the Makefile,
first things first (`IsNext`); `refinement_l2seg` names no file and instead looks
whether its file exists. `Prepare`, `Construct`, `SegmentOrder` and `Refine` are the
recipes up to the point where the output is truncated, `Write` one step of writing, `Close`
the end of the program. A program may fail before (`FailsBefore`, `RefuseInput`), be
killed or fail with the output open (`Dies`), or stop writing and return success
(`EndsEarly`: no write is checked, and `write_construction_json` returns nothing). Not
modelled is that this function also returns, and the program succeeds, when it cannot open its
output (`gsp_init_mode.c:926`): here every failure before the output is opened is a failed
call of make, and `NothingRemade` is about programs that open theirs. An
interrupted make deletes its target (`Interrupt`). The user changes the survey or the
limit, or removes a file (`Edit`, `Delete`), between calls.

What an unfinished file does, from the code of its readers: a construction cut off
inside its list of stations is read as a shorter one, and its segmentation is called
feasible all the same; a segmentation without its summary makes the refinement start
from the first solution in the text, the construction; a refinement is only read by
the export, which skips whatever is no JSON text. `UpToDateIsRight` says that such a
result never stands on a chain of whole files.

`SolutionDb` runs the export beside this. `table` is what a reader of `solution.db`
sees, `runs` the rows of the transaction. Files are visited in any order. `ReadDir` is
`readdir` giving a name that is there at that moment (several may be given before the first is read);
a file that is absent when its turn comes is passed by (`PassBy`). `OpenResult` is
`read_file` up to `ftell`, `Ingest` its `fread` and the rows that follow. What make does
between two of these steps is followed by `FollowOpened`: a file that grows is read up to
the size it had, which is a piece of a text; one that is removed keeps its text for the
reader; one that is truncated by its program may be too short (`ShortRead`), give a
piece, or be whole again. A text that is part old and part new counts as a piece, and a
piece is no JSON and adds nothing (`RowsRead`). The export fails (`Abort`) for a short
read, for a named file that is gone when it is opened (`IsGone`) and for a run that is
there already (`ClaimsTwice`); that it is killed, or that memory, the disk or SQLite fail, is
`ExportDies`. `FailsOnlyOnClash` says that among the files themselves only two
refinements of a method with the same limit make it fail.

The lineage is guessed from names (`ParentGuess`) and corrected at the end
(`FixLineage`): the guess says `capacity-infeasible`, which is the key of the no-port
order only and so wrong for the other four methods. `LineageClosed` says what a reader
of the table may rely on: the one parent of a run is the pass before or the final run of the phase
before, and it is missing only if that phase has no run of the method in the table, because its
result was absent or cut off when the walk came to it. Then the lineage ends there; no run of an earlier phase
is linked past the gap. The export removes the old database first, so
a failed or killed one leaves none, or tables without rows; `AllAtOnce` says never a part
of the rows.

Abstracted: the data inside solutions, the tables derived from runs, multi-vessel
solutions, time stamps that are equal, changes by the user while a program runs, and
a configuration that changes more than a limit (construction and segmentation read
the configuration, too, but their rules do not name it, so make leaves them alone;
`UpToDateIsRight` counts the configuration out).

## 3. Runs

Instances put the docks and stations on a line (`MCSweep`); a tour covers the
interval its stations span, in either direction, and an incumbent may be `Slack`
longer. Catches are uneven (one station weighs two), so that capacity and
cardinality differ. All runs allow the system to stop (`done`), hence no check
for deadlock; that it does not stop elsewhere is `Termination`.

| Run | Instance | Shows |
|---|---|---|
| `SweepLimits` | 3 segments, 3 stations; initial routes in which a crossing pair can be exchanged, with an overloaded or an empty segment; global limit 2, time limit 1, solver limits 1 and 2, each solve taking any time up to its budget, overhead 1; debug mode; solves may fail and memory may run out anywhere | `TypeOK`, `QuietMeansExhausted`, `FeasibilityKept`, `OverrunBounded`, `TotalsAddUp`, `SolvesMatchAttempts`, `ReportFaithful`, `Termination` |
| `SweepDonor` | 5 segments, 6 stations, fallback, one pass | `NoStationTwice`, `LoadIsCatch`, `GainsExplainTrajectory`, `ChangeReactivates`, `ImplementsSearch` |
| `DonorScan` | 6 segments, 8 stations, 5 routes, every boundary; one station catches three and one two, so that the room differs between the sides | `ChoiceIsNearest`, `CopiesSound`, `NearestAsDocumented` |
| `ListsFallback` | 5 segments, 2 attempts at any boundary, any failure | `NoMisuse`, `NothingLeaks` |
| `SegmentRoutes` | all orders of 4 stations, or of the first 3, cut into groups in every way, with docks and without; catches 2, 3, 1, 4, boats of 3 and 5 | `EveryStationReported`, `FlagHonest`, `NoPortWasted`, `SolvedDockToDock` |
| `SegmentLoose` | as `SegmentRoutes`, but the third station has no catch and one group may be empty | `OrderKept`, `CatchesMatch`, `OversizeAlone` |
| `SegmentEmptyGroup` | 3 stations, each with a catch, one empty group | violates `EveryStationReported` |
| `Constructions` | 4 stations, 2 ports; 24 placements and one with a tow that starts in a port; catches 2, 1, 3, 1 and 2, 0, 3, 1; boats of 4, and of 3 with target 2; whole matrix, no rows between the ports and a tow, none between two tows | `SegmentsAddUp`, `OnlyGiantsOverload`, `VisitedOnce`, `GreedyCloses`, `InsertsCheapest`, `Ends` |
| `MipOrders` | 14 problems with a dock and three cities: a segment, all stations, two segments and their port, the whole route with a candidate port (and one or two at the dock); with and without limit, with gaps; capacities that fit all, fit each alone, or not even that | `SearchIsExact`, `OrderAsPaid`, `SegmentsFit`, `Terminates` |
| `Pipeline` | 1 method with two refinement files, 2 calls of make with a change by the user between them, 1 program cut off, 1 export at any time, its steps between those of make | `UpToDateIsRight`, `LineageClosed`, `NothingRemade`, `AllAtOnce`, `FailsOnlyOnClash` |
| `ListsOneSegment` | 1 segment, 1 attempt | violates `OneSegmentUnchanged` |
| `SkipTorn` | as `Pipeline` | violates `SkippedIsComplete` |

Why these bounds are enough to meet the interesting cases: three segments are
the least with a boundary that neither side of a change is part of, so that
stale and fresh verdicts differ; five are the least with a donor (left, right and
their outer neighbours are excluded), and there the first pass already contains
plain and donor changes at every boundary. In `SweepLimits` the number of passes is
not limited: the distances bound it. A clock that is allowed to stand still makes
the behaviours in which no limit is ever reached part of the same run, so
that a sweep ended by its limits and one ended by a quiet pass are both there; a
global limit of 2 and solver limits of 1 and 2 let the remainder be the tighter bound
in one solve and not in the next. `N = 3` with `Slack = 1` for incumbents of the first
segment is the largest instance that stays within minutes with all of this at once.

Six segments are the least with two donors, so that the scan has something to
choose between segments as well as within one; in the
five routes the heavy station is on a side, on a side's outer neighbour or among
the segments that have nothing to give, and in the last both sides are full. Two attempts are the
least in which a list taken over by one acceptance is replaced by the next, or
stays behind a failed one; the state between attempts does not depend on their
number.

In the runs of `Segmentation` the boat of 5 is filled exactly by two of the pairs
of stations and overfilled by others, so a repair shifts one station or several,
through one group or all, and may fail at the last; the boat of 3 is too small for
the fourth station, as the
smallest boats are for the heaviest station of the shipped survey. Four stations
are the least with two ports and a segment of two stations. Without the fourth
station groups are incomplete and must be refused.

Four stations are the least for which greedy edge can close a cycle too early and
cheapest insertion can insert at the wrap-around, and with two ports and a boat of 2
the load reaches the target exactly, exceeds it and is exceeded by one station. A
dock and three cities are the least with a subtour (two cities and two): all 96
solutions of each problem may be proposed in any order that improves. Two calls of make
are the least in which a file is left alone, one change by the user the least after
which it must not be; a second program cut off, or a second export, meets only states
that the first could have left. While the export walks, the call of make in progress
goes on but no other begins.

`SegmentsAddUp`, `OnlyGiantsOverload`, `SearchIsExact` and `LineageClosed` are
conjunctions of named parts. Some properties are proved and not in a run, since
others there imply them or because they are only types: `NoStationLost` and
`SegmentsStaySound` follow from `ImplementsSearch` with `LoadIsCatch`; a list that is not
owned would be freed twice later (`NoMisuse`); an empty segment would mostly fit into
its neighbour (`NoPortWasted`).

Every property has a mutant, a plausible bug in one definition, under which the
same run fails (`PROJECT.json`, `mutants`).

Fairness: `FairSpec` of `Sweep` adds weak fairness of `Next` without `Abort`, those
of `Construction` and `MipOrder` weak fairness of `Work`. Each is one thread that
never waits for anything but a solver, and each solve returns: with a limit by its
limit, without one because a MIP over a few stations is finite. What must not be
needed for the end is left out of the fairness: that memory runs out, that the
solver fails or reaches a limit. No fairness of single actions is assumed; a solver
may fail for ever and the sweep still ends. `ResultFiles` and `SolutionDb` state no
fairness, since user, kills and interruptions are free; that a call of make ends is
stated as a step property (`NothingRemade`: every program that starts makes the list
of what is to do shorter, or leaves what is left further down the chain).

### Disagreements between the program and what it says

- `max_iterations` is described in `config/README.md` as a bound on iterations
  that each "improve one adjacent segment pair"; the code bounds passes, as
  `StopSweep` shows without a run.
- `global_time_limit_seconds` is described there as a wall-clock cap; the code
  computes the remainder once per boundary and gives all of it to every solve of
  the attempt. How far it can run over is `OverrunBounded`.
- `docs/algorithms/sweep-subroutine.md` defines nearness by the minimum over the
  distance matrix; the code takes the distance zero, of two tows that share a
  location, for a missing one and uses the other end of the tow.
  `NearestAsDocumented` holds in `DonorScan`, where no two tows meet, and fails
  where they do.
- A route with one segment has no boundaries according to the log line that opens
  a pass; the loop still attempts one, with left and right the same object. If the
  candidate is accepted, one list is freed twice, the left tour is lost and the
  segment keeps the right one (`ListsOneSegment`). `Sweep` and `DonorChoice` and
  all theorems about the sweep are about two or more segments.
- `docs/04-capacity-aware-mip.md` says that all stations must be visited exactly
  once. After an empty group,
  which the fixed-port construction writes when its tour visits two ports in a row,
  the post-optimisation numbers the segments anew but not their stations, and
  stations are missing in the output (`SegmentEmptyGroup`). Stations without
  catch behind the last port are lost, too: they are marked with a segment that is
  never closed. No run is kept for that, since no station of the shipped data has a
  catch of zero (but the amount is not checked when it is read); `SegmentRoutes`
  with the catches `WithZero` finds it.
- The Makefile says that completed runs are skipped, and of a file it skips that it
  is "Already complete". A program that is killed at its output, or fails with it
  open, leaves an unfinished file that is newer than its inputs, and make skips that,
  too (`SkipTorn`). `UpToDateIsRight` says what is left of the promise: where every
  file of the chain is whole and none is stale, all are right.

## 4. Proofs

The theorems about `Sweep` hold for all values of the constants that satisfy its
assumptions: at least two segments; initial routes without a station in two
segments; catches that are natural numbers and add up; tour lengths that are
natural numbers; limits that are natural numbers. Nothing is assumed of the
tour lengths (no triangle inequality, no optimality), of the feasibility of the
input, or of the solvers' success.

The core is the inductive invariant `RouteInv`: types, `NoStationTwice`,
`LoadIsCatch` and `CandidateSound`. The last is the strengthening: while an
attempt is in progress its donor is neither side, the moved station is one of the
donor's, the donor keeps another, and after the split the two sides partition the
pool within the capacity. Without it nothing says that what `Accept` writes many
steps after the copies were taken still fits the route. Only `Accept` changes
the route; `AcceptPointwise` says what it writes, `DealtOut` that dealing out
stations among any set of segments keeps them disjoint and complete.

| Theorem | Property | Argument |
|---|---|---|
| `TypeInvariance` | `TypeOK` | with `CandidateSound` |
| `StationsDisjoint`, `LoadsCorrect` | `NoStationTwice`, `LoadIsCatch` | `RouteInv` |
| `StationsKept` | `NoStationLost` | `DealtOut` |
| `SegmentsSound` | `SegmentsStaySound` | the split fits; a donor gets lighter because catches add up |
| `ChangesReactivate` | `ChangeReactivates` | the neighbours on the circle |
| `Refinement` | `ImplementsSearch` | initial states and steps map to `LocalSearch` |
| `QuietSweepExhausted` | `QuietMeansExhausted` | `QuietInv`: in a pass without changes all boundaries behind the cursor are inactive |
| `FeasibilityNeverLost` | `FeasibilityKept` | `FeasibleInv`: the last recorded flag still holds |
| `ReportAlwaysFaithful` | `ReportFaithful` | inductive as it stands |
| `OverrunIsBounded` | `OverrunBounded` | `TimeInv`: each solve behind took at most the remainder |
| `SolvesAlwaysMatch` | `SolvesMatchAttempts` | `CountInv`: the counters less what the attempt in progress still accounts for |
| `TotalsAlwaysAddUp` | `TotalsAddUp` | a sum over one snapshot more is larger by its count (`Sums`) |
| `GainsAlwaysExplain` | `GainsExplainTrajectory` | the changes of the pass under way explain the distance from its start until now; an acceptance changes the sum over all segments by the sum over those it rewrites |
| `ScanTypes`, `ScanFindsNearest` | `TypeOK`, `ChoiceIsNearest` of `DonorChoice` | every station before the cursor is refused or no nearer than the best |
| `CopiesAlwaysSound` | `CopiesSound` of `DonorChoice` | the side remembered with the best station has room for it; taken out and put back, a station leaves the sequence as it was |
| `ChoiceAsDocumented` | `NearestAsDocumented` of `DonorChoice` | where points are apart (`Apart`), the least of the scores is the least of all distances |
| `InvAlways`, `AllVisitedOnce` | `VisitedOnce` of `Construction` | `Inv`, below |
| `GreedyAlwaysCloses` | `GreedyCloses` of `Construction` | `GreedyInv`: each fragment is a path with two ends; a pair that was passed over has an end with two links, or both in one fragment while more than one link is missing |
| `InsertsAlwaysCheapest` | `InsertsCheapest` of `Construction` | what the code minimises is the difference of the two sums around the cycle, at the wrap-around, too |
| `SolvedInvAlways`, `SegmentsAlwaysAddUp` | `SegmentsAddUp` of `Construction` | `RouteInv` while a route is laid out, `ResultInv` once it is solved |
| `OnlyGiantsEverOverload` | `OnlyGiantsOverload` of `Construction` | the same: a closed segment over the target has the catch of one station; none but the last ends at sea |
| `SearchInvAlways` | | `SearchInv`, below |
| `SearchAlwaysExact` | `SearchIsExact` of `MipOrder` | every solution without a subtour is an order (`WholeIsOrder`) and every order has such a solution (`OrderHasSolution`), as long and within the capacity; a cut spares all of them (`CutSpares`) |
| `OrderAlwaysAsPaid` | `OrderAsPaid` of `MipOrder` | `WholeIsOrder` |
| `SegmentsAlwaysFit` | `SegmentsFit` of `MipOrder` | between neighbouring stops a station lies once; transits telescope (`TransitsAddUp`) |
| `ListTypes` | `TypeOK` of `SegmentLists` | types, and no block from `fresh` on is allocated |
| `NothingFreedTwice`, `ListsOwned`, `NoListLost` | `NoMisuse`, `SegmentsOwnLists`, `NothingLeaks` | `ListInv`: at each place the blocks of the segments and of the pointers held there are different and all that is allocated |
| `SegmentTypes`, `OrderAlwaysKept`, `CatchesAlwaysMatch`, `OversizeAlwaysAlone` | `TypeOK`, `OrderKept`, `CatchesMatch`, `OversizeAlone` of `Segmentation` | `SegmentInv`: groups stay pieces of the order, and up to the cursor the order is marked |
| `UpToDateAlwaysRight` | `UpToDateIsRight` of `ResultFiles` | `MakeInv`: time stamps are an order; an input a file was not made from is newer than it; a wrong route comes from a flawed input |
| `NothingIsRemade` | `NothingRemade` of `ResultFiles` | a new output is newer than its prerequisites, and a prerequisite of later files only |
| `ExportOnlyReads` | | the export is a stutter of make: `Spec` of `SolutionDb` implements `MakeSpec` |
| `RowsAllAtOnce` | `AllAtOnce` of `SolutionDb` | `NoRowsYet`: between removal and commit a reader sees no row; the lineage fix changes no id |
| `LineageAlwaysClosed`, `ClashOnlyOfLimits` | `LineageClosed`, `FailsOnlyOnClash` of `SolutionDb` | `LineageInv`: all rows come from different files (`Origin`), each read once; an open file has not been read and holds the rows of one text or none (`OpenInv`); the solutions of a file have different keys (`KeysDistinct`) |
| `AllReported`, `PortsAlwaysNeeded`, `NeverEmpty`, `AlwaysDockToDock`, `FlagAlwaysHonest` | `EveryStationReported`, `NoPortWasted`, `NoEmptySegment`, `SolvedDockToDock`, `FlagHonest` | `RegularInv`, for constructions with a catch at every station |

The theorems of `DonorChoiceProofs` assume that distances are natural numbers (a
missing one is zero), that a route has a station at one place only (which
`StationsDisjoint` proves of the routes `Sweep` hands over) and that catches add up.
`ChoiceAsDocumented` has the hypothesis `Apart` besides: no station has an end where
a side it may be copied to has a point. That is what the disagreement above is about;
the instance of `DonorScan` satisfies it. Those of `SegmentListProofs` assume `N >= 2`; the run
`ListsOneSegment` shows why. There the strengthening is
`Owned(Held)`: the set of pointers that hold a block is a function of `pc` and
`donor`, and the pointers in it together with the segments are in bijection with
the allocated blocks. `SegmentsOwnLists` alone does not survive `Accept`, which
needs that the two tours are blocks of their own.

The theorems of `SegmentationProofs` assume that catches are natural numbers and
add up, that no station comes twice in an order, and that groups are pieces of it;
nothing of the number of stations, of their weights against the
boat, or of the docks. `OrderKept` and `CatchesMatch` need two facts the properties do not
mention: while groups are repaired they stay pieces of the order
(`MoveKeepsPieces`: the station moved is the last of one group and becomes the
first of the next), and during the scan the stations before the cursor are marked
in order, with the open segment holding exactly the load (`Scanned`). The last five
theorems assume besides that every station has a catch and no group is empty
(`SomeCatch`, `SomeStations`); neither can be
dropped for `AllReported`, as the disagreements above show. Their strengthening is `PortNeeded`: the last port was
inserted because the load on board now, or the station that comes next, would not
have fit before it. It gives `NoPortWasted` when a segment is closed, and at the
end that something is on board to be closed. From there on `Solving` ties the solved
segments to the planned ones.

The theorems about `Construction` hold for any number of stations and ports, any tows,
amounts, boats and matrices, with whatever gaps; `Complete` and `SomeCatch` stand in
the properties, where they say what the code does only under a condition. The
invariant `Inv` has, besides types, three parts. `GraphInv` says that the links of
greedy edge are a graph of degree at most two, whose connected fragments are as `comp`
says: a link joins two of them, so that there are as many as links are missing, until
the last closes the cycle. That the walk along `adj` then returns after as many steps as there are
stations, and not before, is `WalkIsTour`: a walk that turned back or returned
early would be a fragment of its own. `PhaseInv` says what order and route are at
each place (an order with every station once, visits that are its first ones), and
`RoamInv` why nearest neighbour with ports leaves no one out over a complete matrix:
where it is not at a station it is empty, so that whoever is left fits next or is
reached from a port.

`RouteInv` is about an unfinished route: the closed segments and the open one are
consecutive pieces of the tour (`Cut`), load and catches are those of the stations
with their number, the boat is where the tour ends (`Placed`), and the lengths of the
closed segments with that of the open one are the length of the tour so far
(`Measured`). `Light` and `Harboured` are what `OnlyGiantsOverload` needs: over the
target is only what one station brings, and closed segments end in ports. TLC checked
`RouteInv` and `ResultInv` as invariants of `Constructions` before they were proved.
They changed the model in three places: the attempt showed that `Complete` was too
weak, that lengths do not add up without catches, and that a giant need not be alone
on board (see `Construction` above).

The theorems about `MipOrder` hold for any number of stations and ports, any
distances that are the same both ways, amounts, capacity and two docks, under the assumptions named
above. Two facts carry them. One is about the search: `SearchInv` says that
each cut is a subtour of some solution, that the incumbent is a single tour, and what
each status says of the solutions not yet found; it needs that a single tour has
fewer arcs than nodes within any other solution's subtour (`CutSpares`), for what is
closed under a tour is all of it. The other is that two descriptions of a route
agree, the solver's and the reader's. A successor function in which the shortest
subtour has all nodes is one round (`FoundIsWhole`), and turned so that it
leaves the dock at node 0 it comes to both nodes of each city in a row and ends at
node 1 (`OrientedIsWay`), whether it follows the arcs or runs against them. What `Letour` reads off
such a way is an order with the same legs (`LetourOfPaired`, `CostOfWay`), and the
loads bounded by `FlowExists` are those between its stops (`FlowOfTurn`).
Conversely every order is a way, and its arcs are a solution (`OrderHasSolution`).
That an optimal status means a shortest order needs both directions. `SegmentsFit`
follows from `OrderAsPaid` and the ascending list of the stops, which exists because each
stop has a rank (`AscendingExists`).

`Sums` has the induction that these proofs need. The library states induction with an
operator as parameter, which the provers cannot use; here it is restated for sets: of
the subsets of a finite set with some fault one is minimal (`MinimalSubset`), a set of
numbers that has zero and each successor has all (`EveryNatural`). From there it is
shown that the recursive function by which the community modules define folds exists,
and what a sum over a union, one more element, or a changed element is.

The theorems about `ResultFiles` and `SolutionDb` assume that refinements
exist for some of the methods, that limits are positive, that make is asked for
results, and that a refinement has at most two passes (`PassesAssumption`, a bound of
the model: the names of the passes are written out). They hold for any methods,
limits and goals and for any number of calls, mishaps and exports.
`UpToDateIsRight` needs what it does not mention: that time stamps order the files
(`OrderInv`), for the database is an input of every result and a prerequisite only of
the construction, so that it is older than a refinement only by way of the chain
(`NotNewer`); and that a program writes to a file nothing was made from (`JobInv`).
`SettledRouting` to `SettledRefinement` go up the chain.

Only model-checked: `Termination`, `Ends` and `Terminates`, which are liveness
properties under fairness and out of the prover's reach; and, by its nature, what the
three runs with an expected violation show. All other properties of the passing runs are
stated by a theorem.

## 5. Not modelled, and the plan

Left to do, most important first:

1. An abstract partition of the stations that construction, segmentation and sweep
   all implement, as a specification and proved step by step.
2. `Pipeline` with two methods and a refinement with three passes, if its states can be
   reduced (the methods only meet in the export).
3. The tables of `SolutionDb` with one row per segment and per move.

Out of reach or of little use: floating-point geometry and GEOS calls
(`distance.c`, `coastline_db.c`), the solver, the import and export of survey data
(sequential reading and writing of rows, with `gsp.db` written aside and renamed),
formatting of JSON and SQL, the R scripts. `PROJECT.json` lists every component with its status and
the hazards of the code, those no property covers yet included.
