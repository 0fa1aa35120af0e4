----------------------------- MODULE SolutionDb -----------------------------
(***************************************************************************)
(* solution_db_export beside the make rules: it removes solution.db,       *)
(* creates the tables, and in one transaction walks the directory of       *)
(* results in the order the file system lists it, adds the solutions of    *)
(* every file as runs, joins the runs to their parents and summarises the  *)
(* refinements.  A program may be writing a result meanwhile, and make may *)
(* remove one.  A file that is no JSON text adds nothing; two files that   *)
(* claim one run, a file that is gone when it is opened, or one that is    *)
(* shorter when it is read than it was before, end the export.             *)
(***************************************************************************)
EXTENDS ResultFiles

CONSTANTS
  MaxExports   \* bound: exports of a behaviour

VARIABLES
  table,    \* solution.db as a reader sees it: [state, runs, summary]
  export,   \* idle, removed, walking, failed
  runs,     \* the rows of the open transaction
  named,    \* files whose names the directory gave, not yet read
  opened,   \* the file that is open, if any: see Handle
  visited,  \* the files the walk has passed
  exports   \* exports so far

exportVars == <<table, export, runs, named, opened, visited, exports>>
vars == <<makeVars, exportVars>>

(* Of an open file: the runs reading it would add; was it truncated since  *)
(* its size was taken? is it still in the directory?                       *)
Handle(f, rows, truncated, linked) ==
  [file |-> f, rows |-> rows, truncated |-> truncated, linked |-> linked]
NotOpen == Handle(NoJob, {}, FALSE, FALSE)

NoTable == [state |-> "none", runs |-> {}, summary |-> {}]
EmptyTable == [NoTable EXCEPT !.state = "empty"]

(* l2seg: from the name of the file, else from its metadata.               *)
LimitOf(f, c) == IF f.limit # 0 THEN f.limit ELSE c.limit

(* Mutant: the phase is no part of the run.                                 *)
RunIdWithoutPhase(f, c, key) ==
  [method |-> f.method, phase |-> "any", key |-> key, limit |-> LimitOf(f, c)]

(* run_id: method:phase:key, and for refinements method:phase:limit:key.   *)
RunId(f, c, key) ==
  [method |-> f.method, phase |-> f.phase, key |-> key,
   limit |-> IF f.phase = "refinement" THEN LimitOf(f, c) ELSE 0]

ConstructionKey(m) ==
  CASE m = "noport" -> "capacity-infeasible"
    [] m = "fixedport" -> "fixedport-capacity-feasible"
    [] OTHER -> "construction"

SegmentKeys == <<"baseline-capacity-feasible", "capacity-feasible">>
PassKeys == <<"init", "pass1", "pass2">>

(* The solutions of a file as they are read: init, pass1, pass2, ...       *)
Keys(f, c) ==
  CASE f.phase = "construction" -> <<ConstructionKey(f.method)>>
    [] f.phase = "segmentation" ->
         IF c.original THEN <<ConstructionKey(f.method)>> \o SegmentKeys
         ELSE SegmentKeys
    [] f.phase = "refinement" -> [i \in 1 .. c.passes + 1 |-> PassKeys[i]]

(* summary.status.final names the last solution.                           *)
FinalKey(f, c) == Last(Keys(f, c))

(* The parent is guessed, or the solution before in the file.              *)
ParentGuess(f, c, i) ==
  CASE f.phase = "segmentation" ->
         {RunId(Construction(f.method), Absent, "capacity-infeasible")}
    [] f.phase = "refinement" ->
         {IF i = 1 THEN RunId(Segment(f.method), Absent, "capacity-feasible")
          ELSE RunId(f, c, Keys(f, c)[i - 1])}
    [] OTHER -> {}

(* runs, and for refinements the row of refinement_passes.                 *)
Run(f, c, i) ==
  [id |-> RunId(f, c, Keys(f, c)[i]), parent |-> ParentGuess(f, c, i),
   final |-> Keys(f, c)[i] = FinalKey(f, c), pass |-> i - 1]

RunsOf(f, c) == {Run(f, c, i) : i \in DOMAIN Keys(f, c)}

(* What the text of a file adds: nothing, unless it is JSON to its end.     *)
RowsRead(f, c) == IF c.part = "whole" THEN RunsOf(f, c) ELSE {}

Ids(rs) == {r.id : r \in rs}
Clash(rs) == Ids(rs) \cap Ids(runs) # {}
FinalOf(rs, method, phase) ==
  {r.id : r \in {q \in rs : q.id.method = method /\ q.id.phase = phase /\ q.final}}

(* Mutant: the parents stay as they were guessed.                           *)
KeepGuess(rs, r) == r

(* fix_lineage *)
FixParent(rs, r) ==
  CASE r.id.phase = "segmentation" ->
         [r EXCEPT !.parent = FinalOf(rs, r.id.method, "construction")]
    [] r.id.phase = "refinement" /\ r.id.key = "init" ->
         [r EXCEPT !.parent = FinalOf(rs, r.id.method, "segmentation")]
    [] OTHER -> r

FixLineage(rs) == {FixParent(rs, r) : r \in rs}

(* refinement_summary: the run of pass 0 and the run of the last pass.     *)
SameRefinement(a, b) ==
  /\ a.id.method = b.id.method
  /\ a.id.phase = b.id.phase /\ a.id.limit = b.id.limit

LastPass(rs, r) == \A q \in rs : SameRefinement(q, r) => q.pass <= r.pass

Summary(rs) ==
  {[init |-> p[1].id, final |-> p[2].id] :
     p \in {q \in rs \X rs :
        /\ q[1].id.phase = "refinement" /\ SameRefinement(q[1], q[2])
        /\ q[1].pass = 0 /\ LastPass(rs, q[2])}}

(* A table exported earlier, from results that have been removed since.    *)
EarlierTables ==
  {[state |-> "committed", runs |-> RunsOf(Construction(m), Absent), summary |-> {}] :
      m \in Methods}

Init ==
  /\ MakeInit
  /\ table \in {NoTable} \cup EarlierTables /\ export = "idle"
  /\ runs = {} /\ named = {} /\ opened = NotOpen /\ visited = {} /\ exports = 0
-----------------------------------------------------------------------------
WalkEnds == runs' = {} /\ named' = {} /\ opened' = NotOpen /\ visited' = {}

RemoveTable ==
  /\ export \in {"idle", "failed"} /\ exports < MaxExports
  /\ table' = NoTable /\ export' = "removed" /\ exports' = exports + 1
  /\ WalkEnds
  /\ UNCHANGED makeVars

CreateSchema ==
  /\ export = "removed"
  /\ table' = EmptyTable /\ export' = "walking"
  /\ UNCHANGED <<makeVars, runs, named, opened, visited, exports>>

(* Between two files.                                                       *)
Visits(f) == export = "walking" /\ opened = NotOpen /\ f \in Results \ visited

(* readdir gives the names that are there when it looks, several at once.  *)
ReadDir(f) ==
  /\ Visits(f) /\ f \notin named /\ Present(f)
  /\ named' = named \cup {f}
  /\ UNCHANGED <<makeVars, table, export, runs, opened, visited, exports>>

PassBy(f) ==
  /\ Visits(f) /\ f \notin named /\ ~Present(f)
  /\ visited' = visited \cup {f}
  /\ UNCHANGED <<makeVars, table, export, runs, named, opened, exports>>

(* read_file opens the file and takes its size.                            *)
OpenResult(f) ==
  /\ Visits(f) /\ f \in named /\ Present(f)
  /\ opened' = Handle(f, RowsRead(f, disk[f]), FALSE, TRUE)
  /\ UNCHANGED <<makeVars, table, export, runs, named, visited, exports>>

(* It then reads as many bytes as that: what was there when the size was   *)
(* taken; after a truncation what the file holds now, or a piece of it.    *)
TextRead == {opened.rows} \cup (IF opened.truncated THEN {{}} ELSE {})

Ingest ==
  /\ opened # NotOpen
  /\ \E rs \in TextRead : ~Clash(rs) /\ runs' = runs \cup rs
  /\ named' = named \ {opened.file} /\ visited' = visited \cup {opened.file}
  /\ opened' = NotOpen
  /\ UNCHANGED <<makeVars, table, export, exports>>

IsGone(f) == Visits(f) /\ f \in named /\ ~Present(f)
ShortRead == opened.truncated
ClaimsTwice == opened # NotOpen /\ Clash(opened.rows)

(* ROLLBACK: the tables stay, without a row. *)
Abort ==
  /\ (\E f \in Results : IsGone(f)) \/ ShortRead \/ ClaimsTwice
  /\ export' = "failed" /\ WalkEnds
  /\ UNCHANGED <<makeVars, table, exports>>

(* Mutant: the walk ends after the first directory.                         *)
FirstVisited == visited # {}

Walked == visited = Results

Commit ==
  /\ export = "walking" /\ Walked
  /\ table' = [state |-> "committed", runs |-> FixLineage(runs),
               summary |-> Summary(FixLineage(runs))]
  /\ export' = "idle" /\ WalkEnds
  /\ UNCHANGED <<makeVars, exports>>

(* The export is killed, or memory, the disk or SQLite fails under it: an  *)
(* open transaction is rolled back.                                        *)
ExportDies ==
  /\ export \in {"removed", "walking"}
  /\ export' = "idle" /\ WalkEnds
  /\ UNCHANGED <<makeVars, table, exports>>

ExportStep ==
  \/ CreateSchema \/ Commit \/ Ingest \/ Abort
  \/ \E f \in Results : ReadDir(f) \/ PassBy(f) \/ OpenResult(f)

(* What make does to the file that is open: a program truncates it in      *)
(* place and writes it anew, or make takes it out of the directory, which  *)
(* leaves its text to the reader.                                          *)
FollowOpened ==
  LET f == opened.file
      truncated == opened.truncated \/ (job # f /\ job' = f)
  IN  opened' =
        IF ~opened.linked THEN opened
        ELSE IF disk'[f].part = "absent"
             THEN Handle(f, opened.rows, opened.truncated, FALSE)
        ELSE IF truncated THEN Handle(f, RowsRead(f, disk'[f]), TRUE, TRUE)
        ELSE opened

(* Bound: while the directory is walked one call of make goes on, at most. *)
MakeStep ==
  /\ MakeNext /\ FollowOpened
  /\ export = "walking" => outcome = "making"
  /\ UNCHANGED <<table, export, runs, named, visited, exports>>

Next ==
  \/ MakeStep
  \/ RemoveTable \/ ExportStep \/ ExportDies

Spec == Init /\ [][Next]_vars
-----------------------------------------------------------------------------
(* Whatever was cut off, rewritten or missing while the directory was      *)
(* walked: every parent in the table is a run of the table and the final   *)
(* one of the phase before, or the pass before; a run is without a parent  *)
(* only if it is a construction, or begins its phase and the phase before  *)
(* has no run of the method in the table; each file has one final run.     *)
NextPhase == {<<"construction", "segmentation">>, <<"segmentation", "refinement">>}
Precedes(q, r) ==
  q.id.method = r.id.method /\ <<q.id.phase, r.id.phase>> \in NextPhase

FollowsPass(r) == r.id.phase = "refinement" /\ r.pass > 0
PassBefore(q, r) == q.pass = r.pass - 1 /\ SameRefinement(q, r)

ParentsInTable ==
  \A r \in table.runs :
    /\ \A p \in r.parent : \E q \in table.runs :
         /\ q.id = p
         /\ IF FollowsPass(r) THEN PassBefore(q, r) ELSE q.final /\ Precedes(q, r)
    /\ r.parent = {} => ~FollowsPass(r) /\ \A q \in table.runs : ~Precedes(q, r)
    /\ Cardinality(r.parent) <= 1
    /\ Cardinality({q \in table.runs : q.final /\ SameRefinement(q, r)}) = 1

(* A refinement's summary leads from its first run to its final one.       *)
SummaryNamesEnds ==
  \A r \in table.runs :
    r.id.phase = "refinement" =>
      \E s \in table.summary, first \in table.runs :
        /\ SameRefinement(first, r) /\ first.id.key = "init" /\ s.init = first.id
        /\ \A q \in table.runs : SameRefinement(q, r) /\ q.final => s.final = q.id
        /\ \A t \in table.summary : t.init = s.init => t = s

(* A reader can follow every run back pass by pass and phase by phase, as  *)
(* far as the results of the phases before are in the table: to its        *)
(* construction, or to a phase whose result before was missing or cut off  *)
(* when the directory was walked.                                          *)
LineageClosed == ParentsInTable /\ SummaryNamesEnds

(* Rows appear in solution.db all at once, after the whole walk, and a     *)
(* reader never sees the rows of an export that fails or is killed.        *)
AllAtOnce ==
  [][table'.runs # table.runs =>
       \/ table'.runs = {}
       \/ table.runs = {} /\ visited = Results /\ Ids(table'.runs) = Ids(runs)]_vars

(* What the results do to an export: unless one is removed between its     *)
(* name and its opening, or truncated between its size and its reading, an *)
(* export fails only when two refinements of a method have one limit. Two  *)
(* constructions, two segmentations or two solutions of a file never claim *)
(* the same run, whenever they were written.                               *)
FailsOnlyOnClash ==
  [][export' = "failed" /\ export # "failed" =>
       \/ opened = NotOpen /\ \E f \in named : ~Present(f)
       \/ opened.truncated
       \/ /\ opened.file \in Refinements
          /\ \E r \in runs, q \in opened.rows : SameRefinement(r, q)]_vars
=============================================================================
