-------------------------- MODULE SolutionDbProofs --------------------------
(***************************************************************************)
(* What make leaves alone is right, and make runs no program twice, for    *)
(* any methods, limits and goals and any number of mishaps. Beside it, the *)
(* export never shows a part of its rows and always a closed lineage,      *)
(* whatever make, the user and mishaps do meanwhile: all rows come from    *)
(* different files, each read once, and the solutions of one file have     *)
(* different keys.                                                         *)
(***************************************************************************)
EXTENDS SolutionDb, FiniteSetTheorems, TLAPS

(* What a file holds.                                                      *)
Contents ==
  [part : Parts \cup {"absent"}, route : Routes, original : BOOLEAN,
   passes : 0 .. 2, limit : Variants \cup Defaults \cup {0}, of : SUBSET Files]

DiskTyped == disk \in [Files -> Contents]

-----------------------------------------------------------------------------
(* The files *)

LEMMA ResultPhases ==
  ASSUME NEW f \in Results
  PROVE  \/ f = Construction(f.method) /\ f.phase = "construction"
         \/ f = Segment(f.method) /\ f.phase = "segmentation"
         \/ /\ f = File(f.method, "refinement", f.limit) /\ f.phase = "refinement"
            /\ f \in Refinements
<1>1. CASE \E m \in Methods : f \in {Construction(m), Segment(m)}
  BY <1>1 DEF Construction, Segment, File
<1>2. CASE f \in Refinements
  BY <1>2 DEF Refinements, File
<1>3. (\E m \in Methods : f \in {Construction(m), Segment(m)}) \/ f \in Refinements
  BY DEF Results
<1>4. QED
  BY <1>1, <1>2, <1>3

LEMMA AbsentTyped == Absent \in Contents
<1> DEFINE c == Content("right", FALSE, 0, 0, {})
<1>1. c \in Contents
  BY DEF Content, Contents, Parts, Routes
<1>2. [c EXCEPT !.part = "absent"] \in Contents
  <2> HIDE DEF c
  <2>1. QED
    BY <1>1 DEF Contents
<1>3. QED
  BY <1>2 DEF Absent

LEMMA ChangedTyped ==
  ASSUME DiskTyped, NEW f \in Files, NEW c \in Contents
  PROVE  Changed(f, c) \in [Files -> Contents]
<1>1. \A g \in Files : [disk[g] EXCEPT !.of = @ \ {f}] \in Contents
  BY DEF DiskTyped, Contents
<1>2. QED
  BY <1>1 DEF Changed

LEMMA RemovedTyped ==
  ASSUME DiskTyped, NEW f, Removed(f)
  PROVE  DiskTyped'
  BY AbsentTyped DEF DiskTyped, Removed

LEMMA NewContent ==
  ASSUME NEW route \in Routes, NEW original \in BOOLEAN, NEW passes \in 0 .. 2,
         NEW limit \in Variants \cup Defaults \cup {0}, NEW of \in SUBSET Files
  PROVE  /\ Content(route, original, passes, limit, of) \in Contents
         /\ Whole(Content(route, original, passes, limit, of)) \in Contents
  BY DEF Content, Whole, Contents, Parts

LEMMA NewFile ==
  ASSUME NEW of \in SUBSET Files
  PROVE  /\ Content("right", FALSE, 0, 0, of) \in Contents
         /\ Whole(Content("right", FALSE, 0, 0, of)) \in Contents
<1>1. /\ "right" \in Routes /\ FALSE \in BOOLEAN /\ 0 \in 0 .. 2
      /\ 0 \in Variants \cup Defaults \cup {0}
  BY DEF Routes
<1>2. QED
  BY <1>1, NewContent

LEMMA FilesOfMethod ==
  ASSUME NEW m \in Methods
  PROVE  /\ Construction(m) \in Files /\ Segment(m) \in Files
         /\ Construction(m).phase = "construction" /\ Segment(m).phase = "segmentation"
         /\ Construction(m).method = m /\ Segment(m).method = m
         /\ Construction(m).limit = 0 /\ Segment(m).limit = 0
  BY DEF Files, Results, Construction, Segment, File

LEMMA RefinementFacts ==
  ASSUME NEW f \in Refinements
  PROVE  /\ f \in Files /\ f.phase = "refinement"
         /\ f.method \in Methods /\ f.limit \in Variants \cup {0}
  BY RefinedAssumption DEF Files, Results, Refinements, File

LEMMA ReadsFiles ==
  ASSUME NEW f, f \in Refinements \/ \E m \in Methods : f = Segment(m)
  PROVE  Reads(f) \subseteq Files
<1>1. Routing \in Files
  BY DEF Files
<1>2. CASE f \in Refinements
  <2>1. Segment(f.method) \in Files
    BY <1>2, RefinementFacts, FilesOfMethod
  <2>2. Prerequisites(f) \ {Config} \subseteq {Segment(f.method)}
    BY <1>2, RefinementFacts DEF Prerequisites
  <2>3. QED
    BY <1>1, <2>1, <2>2 DEF Reads
<1>3. ASSUME NEW m \in Methods, f = Segment(m)
      PROVE  Reads(f) \subseteq Files
  <2>1. Prerequisites(f) = {Construction(m)}
    BY <1>3, FilesOfMethod DEF Prerequisites
  <2>2. QED
    BY <1>1, <2>1, FilesOfMethod DEF Reads
<1>4. QED
  BY <1>2, <1>3

LEMMA WriteTyped ==
  ASSUME DiskTyped, Write
  PROVE  DiskTyped'
<1>1. PICK i \in 1 .. Len(PartsOf(job)) - 1 :
        disk' = [disk EXCEPT ![job].part = PartsOf(job)[i + 1]]
  BY DEF Write
<1>2. PartsOf(job)[i + 1] \in Parts
  BY DEF PartsOf, ConstructionParts, SegmentParts, RefinementParts, Parts
<1>3. job \in Files => [disk[job] EXCEPT !.part = PartsOf(job)[i + 1]] \in Contents
  BY <1>2 DEF DiskTyped, Contents
<1>4. disk' = [disk EXCEPT ![job] = [disk[job] EXCEPT !.part = PartsOf(job)[i + 1]]]
  BY <1>1
<1>5. QED
  BY <1>3, <1>4 DEF DiskTyped

LEMMA OpenTyped ==
  ASSUME DiskTyped, NEW f \in Files, NEW c \in Contents, Open(f, c)
  PROVE  DiskTyped'
  BY ChangedTyped DEF Open, DiskTyped

LEMMA DiskInit == MakeInit => DiskTyped
<1>1. Whole(Content("right", FALSE, 0, 0, {})) \in Contents
  BY NewFile
<1>2. QED
  BY <1>1, AbsentTyped DEF MakeInit, DiskTyped

LEMMA DiskStep == DiskTyped /\ [MakeNext]_makeVars => DiskTyped'
<1> SUFFICES ASSUME DiskTyped, [MakeNext]_makeVars PROVE DiskTyped'
  OBVIOUS
<1>1. CASE UNCHANGED disk
  BY <1>1 DEF DiskTyped
<1>2. CASE Prepare
  <2>1. Routing \in Files /\ Data \in Files
    BY DEF Files
  <2>2. QED
    BY <1>2, <2>1, ChangedTyped, NewFile DEF Prepare, DiskTyped
<1>3. ASSUME NEW m \in Methods, Construct(m)
      PROVE  DiskTyped'
  <2>1. {Routing} \in SUBSET Files
    BY DEF Files
  <2>2. QED
    BY <1>3, <2>1, FilesOfMethod, NewFile, OpenTyped DEF Construct
<1>4. ASSUME NEW m \in Methods, SegmentOrder(m)
      PROVE  DiskTyped'
  <2>1. Reads(Segment(m)) \in SUBSET Files
    BY ReadsFiles
  <2>2. OrderRead(disk[Construction(m)]) \in Routes
    BY DEF OrderRead, Routes
  <2>3. FinalCopied(disk[Construction(m)]) \in BOOLEAN
    BY DEF FinalCopied
  <2>4. QED
    BY <1>4, <2>1, <2>2, <2>3, FilesOfMethod, NewContent, OpenTyped DEF SegmentOrder
<1>5. ASSUME NEW f \in Refinements, NEW p \in Passes, Refine(f, p)
      PROVE  DiskTyped'
  <2>1. Reads(f) \in SUBSET Files
    BY ReadsFiles
  <2>2. disk[Segment(f.method)] \in Contents /\ disk[Config] \in Contents
    BY RefinementFacts, FilesOfMethod DEF DiskTyped, Files
  <2>3. LoadedRoute(disk[Segment(f.method)]) \in Routes
    BY <2>2 DEF LoadedRoute, Contents, Routes
  <2>4. LimitGiven(f) \in Variants \cup Defaults \cup {0}
    BY <2>2, RefinementFacts DEF LimitGiven, Contents
  <2>5. p \in 0 .. 2
    BY PassesAssumption
  <2>6. QED
    BY <1>5, <2>1, <2>3, <2>4, <2>5, RefinementFacts, NewContent, OpenTyped DEF Refine
<1>6. CASE Write
  BY <1>6, WriteTyped
<1>7. CASE Interrupt
  BY <1>7, RemovedTyped DEF Interrupt
<1>8. ASSUME NEW f, Delete(f)
      PROVE  DiskTyped'
  BY <1>8, RemovedTyped DEF Delete
<1>9. ASSUME NEW f \in {Data, Config}, NEW l \in Defaults \cup {0}, Edit(f, l)
      PROVE  DiskTyped'
  <2>1. f \in Files
    BY DEF Files
  <2>2. [disk[f] EXCEPT !.limit = l] \in Contents
    BY <2>1 DEF DiskTyped, Contents
  <2>3. QED
    BY <1>9, <2>1, <2>2, ChangedTyped DEF Edit, DiskTyped
<1>10. CASE Program
  <2>1. Finish \/ Close \/ (\E f \in Results : RefuseInput(f)) => UNCHANGED disk
    BY DEF Finish, Close, RefuseInput
  <2>2. QED
    BY <1>10, <2>1, <1>1, <1>2, <1>3, <1>4, <1>5, <1>6 DEF Program
<1>11. CASE Mishap
  <2>1. FailsBefore \/ EndsEarly \/ Dies => UNCHANGED disk
    BY DEF FailsBefore, EndsEarly, Dies
  <2>2. QED
    BY <1>11, <2>1, <1>1, <1>7 DEF Mishap
<1>12. CASE User
  <2>1. (\E g \in Goals : Ask(g)) => UNCHANGED disk
    BY DEF Ask
  <2>2. QED
    BY <1>12, <2>1, <1>1, <1>8, <1>9 DEF User
<1>13. QED
  BY <1>1, <1>10, <1>11, <1>12 DEF MakeNext, makeVars

-----------------------------------------------------------------------------
(* What is made of what *)

Made == Results \cup {Routing}

LEMMA ReadsOf ==
  /\ Reads(Routing) = {Data} /\ Prerequisites(Routing) = {Data}
  /\ \A m \in Methods :
       /\ Reads(Construction(m)) = {Routing}
       /\ Prerequisites(Construction(m)) = {Routing}
       /\ Reads(Segment(m)) = {Construction(m), Routing}
       /\ Prerequisites(Segment(m)) = {Construction(m)}
  /\ \A f \in Refinements :
       /\ Reads(f) = {Segment(f.method), Routing}
       /\ Prerequisites(f) \subseteq {Segment(f.method), Config}
       /\ Segment(f.method) \in Prerequisites(f)
<1>1. Routing.phase = "routing" /\ Data.phase = "data" /\ Config.phase = "config"
  BY DEF Routing, Data, Config, File
<1>2. \A f \in Results : f.phase \in {"construction", "segmentation", "refinement"}
  BY ResultPhases
<1>3. Prerequisites(Routing) = {Data}
  BY <1>1 DEF Prerequisites
<1>4. Reads(Routing) = {Data}
  BY <1>1, <1>2, <1>3 DEF Reads
<1>5. ASSUME NEW m \in Methods
      PROVE  /\ Reads(Construction(m)) = {Routing}
             /\ Prerequisites(Construction(m)) = {Routing}
             /\ Reads(Segment(m)) = {Construction(m), Routing}
             /\ Prerequisites(Segment(m)) = {Construction(m)}
  <2>1. Construction(m) \in Results /\ Segment(m) \in Results
    BY DEF Results
  <2>2. Prerequisites(Construction(m)) = {Routing}
    BY FilesOfMethod DEF Prerequisites
  <2>3. Prerequisites(Segment(m)) = {Construction(m)}
    BY FilesOfMethod DEF Prerequisites
  <2>4. Config # Routing /\ Config # Construction(m)
    BY <1>1, FilesOfMethod
  <2>5. QED
    BY <2>1, <2>2, <2>3, <2>4 DEF Reads
<1>6. ASSUME NEW f \in Refinements
      PROVE  /\ Reads(f) = {Segment(f.method), Routing}
             /\ Prerequisites(f) \subseteq {Segment(f.method), Config}
             /\ Segment(f.method) \in Prerequisites(f)
  <2>1. f \in Results
    BY DEF Results
  <2>2. Prerequisites(f) =
          {Segment(f.method)} \cup (IF f.limit # 0 THEN {Config} ELSE {})
    BY RefinementFacts DEF Prerequisites
  <2>3. Config # Segment(f.method)
    BY <1>1, RefinementFacts, FilesOfMethod
  <2>4. QED
    BY <2>1, <2>2, <2>3 DEF Reads
<1>7. QED
  BY <1>3, <1>4, <1>5, <1>6

LEMMA MadeFiles ==
  /\ Made \subseteq Files /\ Data \in Files \ Made /\ Config \in Files \ Made
  /\ Routing \notin Results /\ Data # Config
  /\ \A f \in Made : f \notin Reads(f) /\ Reads(f) \subseteq Files
  /\ \A f \in Made : f \notin Prerequisites(f)
<1>1. Routing.phase = "routing" /\ Data.phase = "data" /\ Config.phase = "config"
  BY DEF Routing, Data, Config, File
<1>2. \A f \in Results : f.phase \in {"construction", "segmentation", "refinement"}
  BY ResultPhases
<1>3. Made \subseteq Files /\ Data \in Files /\ Config \in Files /\ Routing \in Files
  BY DEF Made, Files
<1>4. ASSUME NEW f \in Made
      PROVE  /\ f \notin Reads(f) /\ Reads(f) \subseteq Files
             /\ f \notin Prerequisites(f)
  <2>1. CASE f = Routing
    BY <1>1, <1>3, <2>1, ReadsOf
  <2>2. CASE \E m \in Methods : f = Construction(m) \/ f = Segment(m)
    BY <1>1, <1>3, <2>2, ReadsOf, FilesOfMethod
  <2>3. CASE f \in Refinements
    BY <1>1, <1>3, <2>3, ReadsOf, FilesOfMethod, RefinementFacts
  <2>4. QED
    BY <2>1, <2>2, <2>3 DEF Made, Results
<1>5. QED
  BY <1>1, <1>2, <1>3, <1>4 DEF Made

-----------------------------------------------------------------------------
(* What a step does to the files: a program opens its output, the user     *)
(* edits a file, a program writes, a file is removed, or nothing.          *)
Flawed(f) == disk[f].part # "whole" \/ disk[f].route # "right"

Opens(f, c) ==
  /\ f \in Made /\ c \in Contents /\ c.part # "absent" /\ c.of = Reads(f)
  /\ c.route # "right" => \E g \in Reads(f) \cap Results : Flawed(g)
  /\ disk' = Changed(f, c) /\ older' = Stamped(f)
  /\ IsNext(f) /\ job' \in {NoJob, f} /\ (f = Routing => job' = NoJob)
  /\ UNCHANGED goal

Edits(f, c) ==
  /\ f \in {Data, Config} /\ c \in Contents
  /\ c.part = disk[f].part /\ c.of = disk[f].of
  /\ disk' = Changed(f, c) /\ older' = Stamped(f) /\ UNCHANGED job
  /\ outcome' # "making"

Removes(f) ==
  f \in Made /\ Removed(f) /\ job' \in {job, NoJob} /\ outcome' # "making"

Keeps ==
  /\ UNCHANGED <<disk, older>> /\ job' \in {job, NoJob}
  /\ job = NoJob /\ outcome = "making" /\ outcome' = "making" => UNCHANGED makeVars

LEMMA StepKinds ==
  ASSUME DiskTyped, job # NoJob => job \in Results, [MakeNext]_makeVars
  PROVE  \/ \E f, c : Opens(f, c) \/ Edits(f, c)
         \/ Write
         \/ \E f : Removes(f)
         \/ Keeps
<1> DEFINE Goal == \/ \E f, c : Opens(f, c) \/ Edits(f, c)
                   \/ Write
                   \/ \E f : Removes(f)
                   \/ Keeps
<1>1. CASE Prepare
  <2> DEFINE c == Whole(Content("right", FALSE, 0, 0, {Data}))
  <2>1. c \in Contents
    BY NewFile, MadeFiles
  <2>2. c.part = "whole" /\ c.of = Reads(Routing) /\ c.route = "right"
    <3> DEFINE d == Content("right", FALSE, 0, 0, {Data})
    <3>1. d.of = {Data} /\ d.route = "right"
      BY DEF Content
    <3>2. d \in Contents
      BY NewFile, MadeFiles
    <3> HIDE DEF d
    <3>3. [d EXCEPT !.part = "whole"].of = d.of /\ [d EXCEPT !.part = "whole"].route = d.route
            /\ [d EXCEPT !.part = "whole"].part = "whole"
      BY <3>2 DEF Contents
    <3>4. c = [d EXCEPT !.part = "whole"]
      BY DEF Whole, d
    <3> HIDE DEF c
    <3>5. QED
      BY <3>1, <3>3, <3>4, ReadsOf
  <2>3. disk' = Changed(Routing, c) /\ older' = Stamped(Routing)
          /\ IsNext(Routing) /\ job' = NoJob /\ goal' = goal
    BY <1>1 DEF Prepare, IsNext
  <2> HIDE DEF c
  <2>4. Opens(Routing, c)
    BY <2>1, <2>2, <2>3 DEF Opens, Made
  <2>5. QED
    BY <2>4
<1>2. ASSUME NEW m \in Methods, Construct(m)
      PROVE  Goal
  <2> DEFINE c == Content("right", FALSE, 0, 0, {Routing})
             f == Construction(m)
  <2>1. c \in Contents
    BY NewFile DEF Files
  <2>2. c.part = "empty" /\ c.of = Reads(f) /\ c.route = "right"
    BY ReadsOf DEF Content
  <2>3. disk' = Changed(f, c) /\ older' = Stamped(f)
          /\ IsNext(f) /\ job' = f /\ goal' = goal
    BY <1>2 DEF Construct, Open
  <2>4. f \in Made /\ f # Routing
    BY MadeFiles DEF Made, Results
  <2> HIDE DEF c, f
  <2>5. Opens(f, c)
    BY <2>1, <2>2, <2>3, <2>4 DEF Opens
  <2>6. QED
    BY <2>5
<1>3. ASSUME NEW m \in Methods, SegmentOrder(m)
      PROVE  Goal
  <2> DEFINE f == Segment(m)
             g == Construction(m)
             c == Content(OrderRead(disk[g]), FinalCopied(disk[g]), 0, 0, Reads(f))
  <2>1. f \in Made /\ f # Routing /\ g \in Reads(f) \cap Results
    BY MadeFiles, ReadsOf DEF Made, Results
  <2>2. c \in Contents
    <3>1. OrderRead(disk[g]) \in Routes /\ FinalCopied(disk[g]) \in BOOLEAN
      BY DEF OrderRead, Routes, FinalCopied
    <3>2. QED
      BY <2>1, <3>1, MadeFiles, NewContent
  <2>3. c.part = "empty" /\ c.of = Reads(f) /\ c.route = OrderRead(disk[g])
    BY DEF Content
  <2>4. c.route # "right" => Flawed(g)
    BY <2>3 DEF OrderRead, Flawed
  <2>5. disk' = Changed(f, c) /\ older' = Stamped(f)
          /\ IsNext(f) /\ job' = f /\ goal' = goal
    BY <1>3 DEF SegmentOrder, Open
  <2> HIDE DEF c, f, g
  <2>6. Opens(f, c)
    BY <2>1, <2>2, <2>3, <2>4, <2>5 DEF Opens
  <2>7. QED
    BY <2>6
<1>4. ASSUME NEW f \in Refinements, NEW p \in Passes, Refine(f, p)
      PROVE  Goal
  <2> DEFINE g == Segment(f.method)
             c == Content(LoadedRoute(disk[g]), FALSE, p, LimitGiven(f), Reads(f))
  <2>1. f \in Made /\ f # Routing /\ g \in Reads(f) \cap Results
    BY MadeFiles, ReadsOf, RefinementFacts DEF Made, Results
  <2>2. disk[g] \in Contents /\ disk[Config] \in Contents
    BY <2>1, MadeFiles DEF DiskTyped, Files
  <2>3. c \in Contents
    <3>1. LoadedRoute(disk[g]) \in Routes
      BY <2>2 DEF LoadedRoute, Contents, Routes
    <3>2. LimitGiven(f) \in Variants \cup Defaults \cup {0}
      BY <2>2, RefinementFacts DEF LimitGiven, Contents
    <3>3. p \in 0 .. 2
      BY PassesAssumption
    <3>4. QED
      BY <2>1, <3>1, <3>2, <3>3, MadeFiles, NewContent
  <2>4. c.part = "empty" /\ c.of = Reads(f) /\ c.route = LoadedRoute(disk[g])
    BY DEF Content
  <2>5. c.route # "right" => Flawed(g)
    BY <2>4 DEF LoadedRoute, Flawed
  <2>6. disk' = Changed(f, c) /\ older' = Stamped(f)
          /\ IsNext(f) /\ job' = f /\ goal' = goal
    BY <1>4 DEF Refine, Open
  <2> HIDE DEF c, g
  <2>7. Opens(f, c)
    BY <2>1, <2>3, <2>4, <2>5, <2>6 DEF Opens
  <2>8. QED
    BY <2>7
<1>5. ASSUME NEW f \in {Data, Config}, NEW l \in Defaults \cup {0}, Edit(f, l)
      PROVE  Goal
  <2> DEFINE c == [disk[f] EXCEPT !.limit = l]
  <2>1. disk[f] \in Contents
    BY MadeFiles DEF DiskTyped
  <2>2. c \in Contents /\ c.part = disk[f].part /\ c.of = disk[f].of
    BY <2>1 DEF Contents
  <2>3. disk' = Changed(f, c) /\ older' = Stamped(f) /\ UNCHANGED job
          /\ outcome' # "making"
    BY <1>5 DEF Edit, UserChange
  <2> HIDE DEF c
  <2>4. Edits(f, c)
    BY <2>2, <2>3 DEF Edits
  <2>5. QED
    BY <2>4
<1>6. ASSUME NEW f \in {Routing} \cup Results, Delete(f)
      PROVE  Goal
  BY <1>6 DEF Delete, UserChange, Removes, Made
<1>7. CASE Interrupt
  BY <1>7 DEF Interrupt, Fail, Removes, Made
<1>8. CASE Program
  <2>1. Finish \/ Close \/ (\E f \in Results : RefuseInput(f)) => Keeps
    BY DEF Finish, Close, RefuseInput, Fail, Keeps
  <2>2. QED
    BY <1>8, <2>1, <1>1, <1>2, <1>3, <1>4 DEF Program
<1>9. CASE Mishap
  <2>1. FailsBefore \/ EndsEarly \/ Dies => Keeps
    BY DEF FailsBefore, EndsEarly, Dies, Fail, Keeps
  <2>2. QED
    BY <1>9, <2>1, <1>7 DEF Mishap
<1>10. CASE User
  <2>1. (\E g \in Goals : Ask(g)) => Keeps
    BY DEF Ask, Keeps
  <2>2. QED
    BY <1>10, <2>1, <1>5, <1>6 DEF User
<1>11. CASE UNCHANGED makeVars
  BY <1>11 DEF makeVars, Keeps
<1>12. QED
  BY <1>8, <1>9, <1>10, <1>11 DEF MakeNext

-----------------------------------------------------------------------------
(* The invariant *)

(* Time stamps order the files there are.                                  *)
OrderInv ==
  /\ older \in [Files -> SUBSET Files]
  /\ \A f \in Files : f \notin older[f]
  /\ \A f, g \in Files : g \in older[f] => Present(f) /\ Present(g)
  /\ \A f, g \in Files : \A h \in older[g] : g \in older[f] => h \in older[f]
  /\ \A f, g \in Files :
       Present(f) /\ Present(g) /\ f # g => g \in older[f] \/ f \in older[g]

(* No file was made from what a program is writing now.                    *)
JobInv ==
  job # NoJob => job \in Results /\ \A f \in Files : job \notin disk[f].of

(* An input that is no longer what a file was made from is newer than it,  *)
(* and a solution that is not right was made from a flawed input.          *)
MadeInv ==
  /\ Present(Data) /\ Present(Config)
  /\ \A f \in Made : Present(f) =>
       /\ \A g \in Reads(f) \ disk[f].of : Present(g) => Newer(g, f)
       /\ disk[f].of \subseteq Reads(f)
       /\ disk[f].route # "right" /\ disk[f].of = Reads(f) =>
            \E g \in Reads(f) \cap Results : Flawed(g)

MakeInv == DiskTyped /\ OrderInv /\ JobInv /\ MadeInv

LEMMA PartFacts ==
  /\ Absent.part = "absent"
  /\ \A of \in SUBSET Files : Whole(Content("right", FALSE, 0, 0, of)).part = "whole"
<1>1. ASSUME NEW c \in Contents, NEW p
      PROVE  [c EXCEPT !.part = p].part = p
  BY DEF Contents
<1>2. \A of \in SUBSET Files : Content("right", FALSE, 0, 0, of) \in Contents
  BY NewFile
<1>3. QED
  BY <1>1, <1>2 DEF Absent, Whole

LEMMA MakeInvInit == MakeInit => MakeInv
<1> SUFFICES ASSUME MakeInit PROVE MakeInv
  OBVIOUS
<1>1. DiskTyped
  BY DiskInit
<1>2. Present(Data) /\ Present(Config)
  <2>1. Whole(Content("right", FALSE, 0, 0, {})).part # "absent"
    BY PartFacts
  <2>2. QED
    BY <2>1, MadeFiles DEF MakeInit, Present
<1>3. \A f \in Files \ {Data, Config} : ~Present(f)
  BY PartFacts DEF MakeInit, Present
<1>4. OrderInv
  BY <1>2, <1>3, MadeFiles DEF MakeInit, OrderInv
<1>5. MadeInv
  BY <1>2, <1>3, MadeFiles DEF MadeInv
<1>6. JobInv
  BY DEF MakeInit, JobInv
<1>7. QED
  BY <1>1, <1>4, <1>5, <1>6 DEF MakeInv

(* A file that gets a new content is the newest, and what was made from    *)
(* its old content was not made from the new one.                          *)
LEMMA ChangeFacts ==
  ASSUME DiskTyped, OrderInv, NEW f \in Files, NEW c \in Contents,
         disk' = Changed(f, c), older' = Stamped(f), c.part # "absent"
  PROVE  /\ disk'[f] = c
         /\ \A g \in Files \ {f} :
              /\ disk'[g].part = disk[g].part /\ disk'[g].route = disk[g].route
              /\ disk'[g].of = disk[g].of \ {f}
              /\ Present(g)' <=> Present(g)
              /\ Flawed(g) => Flawed(g)'
         /\ Present(f)'
         /\ older'[f] = {g \in Files \ {f} : Present(g)}
         /\ \A g \in Files \ {f} : older'[g] = older[g] \ {f}
         /\ OrderInv'
<1>1. disk'[f] = c /\ \A g \in Files \ {f} : disk'[g] = [disk[g] EXCEPT !.of = @ \ {f}]
  BY DEF Changed
<1>2. \A g \in Files : disk[g] \in Contents
  BY DEF DiskTyped
<1>3. \A g \in Files \ {f} :
        /\ disk'[g].part = disk[g].part /\ disk'[g].route = disk[g].route
        /\ disk'[g].of = disk[g].of \ {f}
  BY <1>1, <1>2 DEF Contents
<1>4. \A g \in Files \ {f} : (Present(g)' <=> Present(g)) /\ (Flawed(g) => Flawed(g)')
  BY <1>3 DEF Present, Flawed
<1>5. Present(f)'
  BY <1>1 DEF Present
<1>6. /\ older'[f] = {g \in Files \ {f} : Present(g)}
      /\ \A g \in Files \ {f} : older'[g] = older[g] \ {f}
      /\ older' \in [Files -> SUBSET Files]
  BY DEF Stamped, OrderInv
<1>7. OrderInv'
  <2>1. \A g \in Files : g \notin older'[g]
    BY <1>6 DEF OrderInv
  <2>2. \A g, h \in Files : h \in older'[g] => Present(g)' /\ Present(h)'
    BY <1>4, <1>5, <1>6 DEF OrderInv
  <2>3. \A g, h \in Files : \A k \in older'[h] : h \in older'[g] => k \in older'[g]
    BY <1>6 DEF OrderInv
  <2>4. \A g, h \in Files :
          Present(g)' /\ Present(h)' /\ g # h => h \in older'[g] \/ g \in older'[h]
    BY <1>4, <1>6 DEF OrderInv
  <2>5. QED
    BY <1>6, <2>1, <2>2, <2>3, <2>4 DEF OrderInv
<1>8. QED
  BY <1>1, <1>3, <1>4, <1>5, <1>6, <1>7

(* What was made before another file changes stays as MadeInv says.        *)
LEMMA ChangeKeepsMade ==
  ASSUME MakeInv, NEW f \in Files, NEW c \in Contents,
         disk' = Changed(f, c), older' = Stamped(f), c.part # "absent",
         NEW h \in Made \ {f}, Present(h)'
  PROVE  /\ \A g \in Reads(h) \ disk'[h].of : Present(g)' => Newer(g, h)'
         /\ disk'[h].of \subseteq Reads(h)
         /\ disk'[h].route # "right" /\ disk'[h].of = Reads(h) =>
              \E g \in Reads(h) \cap Results : Flawed(g)'
<1>1. DiskTyped /\ OrderInv
  BY DEF MakeInv
<1>2. h \in Files /\ Reads(h) \subseteq Files /\ Present(h)
  BY <1>1, ChangeFacts, MadeFiles
<1>3. /\ \A g \in Reads(h) \ disk[h].of : Present(g) => h \in older[g]
      /\ disk[h].of \subseteq Reads(h)
      /\ disk[h].route # "right" /\ disk[h].of = Reads(h) =>
           \E g \in Reads(h) \cap Results : Flawed(g)
  BY <1>2 DEF MakeInv, MadeInv, Newer
<1>4. disk'[h].of = disk[h].of \ {f} /\ disk'[h].route = disk[h].route
  BY <1>1, <1>2, ChangeFacts
<1>5. ASSUME NEW g \in Reads(h) \ disk'[h].of, Present(g)'
      PROVE  Newer(g, h)'
  <2>1. CASE g = f
    <3>1. h \in older'[f]
      BY <1>1, <1>2, ChangeFacts
    <3>2. QED
      BY <2>1, <3>1 DEF Newer
  <2>2. CASE g # f
    <3>1. g \in Files \ {f} /\ Present(g) /\ g \notin disk[h].of
      BY <1>1, <1>2, <1>4, <1>5, <2>2, ChangeFacts
    <3>2. h \in older[g]
      BY <1>3, <3>1
    <3>3. older'[g] = older[g] \ {f}
      BY <1>1, <3>1, ChangeFacts
    <3>4. QED
      BY <3>2, <3>3 DEF Newer
  <2>3. QED
    BY <2>1, <2>2
<1>6. ASSUME disk'[h].route # "right", disk'[h].of = Reads(h)
      PROVE  \E g \in Reads(h) \cap Results : Flawed(g)'
  <2>1. f \notin Reads(h) /\ disk[h].of = Reads(h)
    BY <1>3, <1>4, <1>6
  <2>2. PICK g \in Reads(h) \cap Results : Flawed(g)
    BY <1>3, <1>4, <1>6, <2>1
  <2>3. g \in Files \ {f}
    BY <1>2, <2>1, <2>2
  <2>4. Flawed(g)'
    BY <1>1, <2>2, <2>3, ChangeFacts
  <2>5. QED
    BY <2>2, <2>4
<1>7. QED
  BY <1>3, <1>4, <1>5, <1>6

LEMMA OpensKeeps ==
  ASSUME MakeInv, NEW f, NEW c, Opens(f, c)
  PROVE  OrderInv' /\ JobInv' /\ MadeInv'
<1>1. f \in Files \ {Data, Config} /\ f \in Made /\ f \notin Reads(f) /\ Reads(f) \subseteq Files
  BY MadeFiles DEF Opens
<1>2. /\ c \in Contents /\ c.part # "absent" /\ c.of = Reads(f)
      /\ disk' = Changed(f, c) /\ older' = Stamped(f)
  BY DEF Opens
<1>3. OrderInv'
  BY <1>1, <1>2, ChangeFacts DEF MakeInv
<1>4. JobInv'
  <2>1. CASE job' = f /\ f # Routing
    <3>1. f \in Results
      BY <1>1, <2>1 DEF Made
    <3>2. disk'[f].of = Reads(f) /\ \A g \in Files \ {f} : disk'[g].of = disk[g].of \ {f}
      BY <1>1, <1>2, ChangeFacts DEF MakeInv
    <3>3. QED
      BY <1>1, <2>1, <3>1, <3>2 DEF JobInv
  <2>2. CASE job' = NoJob
    BY <2>2 DEF JobInv
  <2>3. QED
    BY <2>1, <2>2 DEF Opens
<1>5. MadeInv'
  <2>1. Present(Data)' /\ Present(Config)'
    BY <1>1, <1>2, MadeFiles, ChangeFacts DEF MakeInv, MadeInv
  <2>2. ASSUME NEW h \in Made, Present(h)'
        PROVE  /\ \A g \in Reads(h) \ disk'[h].of : Present(g)' => Newer(g, h)'
               /\ disk'[h].of \subseteq Reads(h)
               /\ disk'[h].route # "right" /\ disk'[h].of = Reads(h) =>
                    \E g \in Reads(h) \cap Results : Flawed(g)'
    <3>1. CASE h # f
      BY <1>1, <1>2, <2>2, <3>1, ChangeKeepsMade
    <3>2. CASE h = f
      <4>1. disk'[h].of = Reads(h) /\ disk'[h].route = c.route
        BY <1>1, <1>2, <3>2, ChangeFacts DEF MakeInv
      <4>2. ASSUME c.route # "right"
            PROVE  \E g \in Reads(h) \cap Results : Flawed(g)'
        <5>1. PICK g \in Reads(f) \cap Results : Flawed(g)
          BY <4>2 DEF Opens
        <5>2. Flawed(g)'
          BY <1>1, <1>2, <5>1, ChangeFacts DEF MakeInv
        <5>3. QED
          BY <3>2, <5>1, <5>2
      <4>3. QED
        BY <4>1, <4>2
    <3>3. QED
      BY <3>1, <3>2
  <2>3. QED
    BY <2>1, <2>2 DEF MadeInv
<1>6. QED
  BY <1>3, <1>4, <1>5

LEMMA EditsKeeps ==
  ASSUME MakeInv, NEW f, NEW c, Edits(f, c)
  PROVE  OrderInv' /\ JobInv' /\ MadeInv'
<1>1. f \in Files \ Made /\ f \in {Data, Config}
  BY MadeFiles DEF Edits
<1>2. /\ c \in Contents /\ c.part # "absent" /\ c.of = disk[f].of
      /\ disk' = Changed(f, c) /\ older' = Stamped(f) /\ job' = job
  BY DEF Edits, Present, MakeInv, MadeInv
<1>3. OrderInv'
  BY <1>1, <1>2, ChangeFacts DEF MakeInv
<1>4. JobInv'
  <2>1. \A g \in Files : disk'[g].of \subseteq disk[g].of
    BY <1>1, <1>2, ChangeFacts DEF MakeInv
  <2>2. QED
    BY <1>2, <2>1 DEF MakeInv, JobInv
<1>5. MadeInv'
  <2>1. Present(Data)' /\ Present(Config)'
    BY <1>1, <1>2, MadeFiles, ChangeFacts DEF MakeInv, MadeInv
  <2>2. ASSUME NEW h \in Made, Present(h)'
        PROVE  /\ \A g \in Reads(h) \ disk'[h].of : Present(g)' => Newer(g, h)'
               /\ disk'[h].of \subseteq Reads(h)
               /\ disk'[h].route # "right" /\ disk'[h].of = Reads(h) =>
                    \E g \in Reads(h) \cap Results : Flawed(g)'
    BY <1>1, <1>2, <2>2, ChangeKeepsMade
  <2>3. QED
    BY <2>1, <2>2 DEF MadeInv
<1>6. QED
  BY <1>3, <1>4, <1>5

LEMMA WriteKeeps ==
  ASSUME MakeInv, Write
  PROVE  OrderInv' /\ JobInv' /\ MadeInv'
<1>1. PICK i \in 1 .. Len(PartsOf(job)) - 1 :
        /\ disk[job].part = PartsOf(job)[i]
        /\ disk' = [disk EXCEPT ![job].part = PartsOf(job)[i + 1]]
  BY DEF Write
<1>2. job \in Made /\ \A f \in Files : job \notin disk[f].of
  BY DEF Write, MakeInv, JobInv, Made
<1>3. job \in Files /\ disk \in [Files -> Contents]
  BY <1>2, MadeFiles DEF MakeInv, DiskTyped
<1>4. /\ \A f \in Files \ {job} : disk'[f] = disk[f]
      /\ disk'[job] = [disk[job] EXCEPT !.part = PartsOf(job)[i + 1]]
  BY <1>1, <1>3
<1>5. disk'[job].of = disk[job].of /\ disk'[job].route = disk[job].route
        /\ disk'[job].part = PartsOf(job)[i + 1]
  BY <1>3, <1>4 DEF Contents
<1>6. PartsOf(job)[i] # "absent" /\ PartsOf(job)[i + 1] # "absent"
  BY DEF PartsOf, ConstructionParts, SegmentParts, RefinementParts
<1>7. \A f \in Files : Present(f)' <=> Present(f)
  BY <1>1, <1>4, <1>5, <1>6 DEF Present
<1>8. older' = older /\ job' = job
  BY DEF Write
<1>9. OrderInv'
  BY <1>7, <1>8 DEF MakeInv, OrderInv
<1>10. \A f \in Files : disk'[f].of = disk[f].of /\ disk'[f].route = disk[f].route
  BY <1>4, <1>5
<1>11. JobInv'
  BY <1>8, <1>10 DEF MakeInv, JobInv
<1>12. MadeInv'
  <2>1. Present(Data)' /\ Present(Config)'
    BY <1>7, MadeFiles DEF MakeInv, MadeInv
  <2>2. ASSUME NEW f \in Made, Present(f)'
        PROVE  /\ \A g \in Reads(f) \ disk'[f].of : Present(g)' => Newer(g, f)'
               /\ disk'[f].of \subseteq Reads(f)
               /\ disk'[f].route # "right" /\ disk'[f].of = Reads(f) =>
                    \E g \in Reads(f) \cap Results : Flawed(g)'
    <3>1. f \in Files /\ Reads(f) \subseteq Files /\ Present(f)
      BY <1>7, <2>2, MadeFiles
    <3>2. /\ \A g \in Reads(f) \ disk[f].of : Present(g) => Newer(g, f)
          /\ disk[f].of \subseteq Reads(f)
          /\ disk[f].route # "right" /\ disk[f].of = Reads(f) =>
               \E g \in Reads(f) \cap Results : Flawed(g)
      BY <2>2, <3>1 DEF MakeInv, MadeInv
    <3>3. \A g \in Reads(f) \ disk'[f].of : Present(g)' => Newer(g, f)'
      BY <1>7, <1>8, <1>10, <3>1, <3>2 DEF Newer
    <3>4. ASSUME disk'[f].route # "right", disk'[f].of = Reads(f)
          PROVE  \E g \in Reads(f) \cap Results : Flawed(g)'
      <4>1. job \notin Reads(f)
        BY <1>2, <1>10, <3>1, <3>4
      <4>2. PICK g \in Reads(f) \cap Results : Flawed(g)
        BY <1>10, <3>1, <3>2, <3>4
      <4>3. disk'[g] = disk[g]
        BY <1>4, <3>1, <4>1, <4>2
      <4>4. QED
        BY <4>2, <4>3 DEF Flawed
    <3>5. QED
      BY <1>10, <3>1, <3>2, <3>3, <3>4
  <2>3. QED
    BY <2>1, <2>2 DEF MadeInv
<1>13. QED
  BY <1>9, <1>11, <1>12

LEMMA RemovesKeeps ==
  ASSUME MakeInv, NEW f, Removes(f)
  PROVE  OrderInv' /\ JobInv' /\ MadeInv'
<1>1. f \in Files \ {Data, Config} /\ f \in Made
  BY MadeFiles DEF Removes
<1>2. /\ disk' = [disk EXCEPT ![f] = Absent]
      /\ older' = [g \in Files |-> IF g = f THEN {} ELSE older[g] \ {f}]
      /\ job' \in {job, NoJob}
  BY DEF Removes, Removed
<1>3. disk \in [Files -> Contents]
  BY DEF MakeInv, DiskTyped
<1>4. disk'[f] = Absent /\ \A g \in Files \ {f} : disk'[g] = disk[g]
  BY <1>1, <1>2, <1>3
<1>5. ~Present(f)' /\ Flawed(f)'
  BY <1>4, PartFacts DEF Present, Flawed
<1>6. \A g \in Files \ {f} : (Present(g)' <=> Present(g)) /\ (Flawed(g)' <=> Flawed(g))
  BY <1>4 DEF Present, Flawed
<1>7. older'[f] = {} /\ \A g \in Files \ {f} : older'[g] = older[g] \ {f}
  BY <1>1, <1>2
<1>8. OrderInv'
  <2>1. older' \in [Files -> SUBSET Files]
    BY <1>2 DEF MakeInv, OrderInv
  <2>2. \A g \in Files : g \notin older'[g]
    BY <1>7 DEF MakeInv, OrderInv
  <2>3. \A g, h \in Files : h \in older'[g] => Present(g)' /\ Present(h)'
    BY <1>6, <1>7 DEF MakeInv, OrderInv
  <2>4. \A g, h \in Files : \A k \in older'[h] : h \in older'[g] => k \in older'[g]
    BY <1>7 DEF MakeInv, OrderInv
  <2>5. \A g, h \in Files :
          Present(g)' /\ Present(h)' /\ g # h => h \in older'[g] \/ g \in older'[h]
    BY <1>5, <1>6, <1>7 DEF MakeInv, OrderInv
  <2>6. QED
    BY <2>1, <2>2, <2>3, <2>4, <2>5 DEF OrderInv
<1>9. JobInv'
  <2>1. Absent.of = {}
    <3> DEFINE c == Content("right", FALSE, 0, 0, {})
    <3>1. c.of = {}
      BY DEF Content
    <3>2. c \in Contents
      BY NewFile
    <3> HIDE DEF c
    <3>3. [c EXCEPT !.part = "absent"].of = {}
      BY <3>1, <3>2 DEF Contents
    <3>4. QED
      BY <3>3 DEF Absent, c
  <2>2. QED
    BY <1>2, <1>4, <2>1 DEF MakeInv, JobInv
<1>10. MadeInv'
  <2>1. Present(Data)' /\ Present(Config)'
    BY <1>1, <1>6, MadeFiles DEF MakeInv, MadeInv
  <2>2. ASSUME NEW h \in Made, Present(h)'
        PROVE  /\ \A g \in Reads(h) \ disk'[h].of : Present(g)' => Newer(g, h)'
               /\ disk'[h].of \subseteq Reads(h)
               /\ disk'[h].route # "right" /\ disk'[h].of = Reads(h) =>
                    \E g \in Reads(h) \cap Results : Flawed(g)'
    <3>1. h \in Files \ {f} /\ Reads(h) \subseteq Files /\ Present(h) /\ disk'[h] = disk[h]
      BY <1>4, <1>5, <1>6, <2>2, MadeFiles
    <3>2. /\ \A g \in Reads(h) \ disk[h].of : Present(g) => h \in older[g]
          /\ disk[h].of \subseteq Reads(h)
          /\ disk[h].route # "right" /\ disk[h].of = Reads(h) =>
               \E g \in Reads(h) \cap Results : Flawed(g)
      BY <3>1 DEF MakeInv, MadeInv, Newer
    <3>3. \A g \in Reads(h) \ disk'[h].of : Present(g)' => h \in older'[g]
      BY <1>5, <1>6, <1>7, <3>1, <3>2
    <3>4. \A g \in Files : Flawed(g) => Flawed(g)'
      BY <1>5, <1>6
    <3>5. QED
      BY <3>1, <3>2, <3>3, <3>4 DEF Newer
  <2>3. QED
    BY <2>1, <2>2 DEF MadeInv
<1>11. QED
  BY <1>8, <1>9, <1>10

LEMMA MakeInvStep == MakeInv /\ [MakeNext]_makeVars => MakeInv'
<1> SUFFICES ASSUME MakeInv, [MakeNext]_makeVars
             PROVE  OrderInv' /\ JobInv' /\ MadeInv'
  BY DiskStep DEF MakeInv
<1>1. CASE Keeps
  <2>1. OrderInv' /\ MadeInv'
    BY <1>1 DEF Keeps, MakeInv, OrderInv, MadeInv, Present, Newer, Flawed
  <2>2. JobInv'
    BY <1>1 DEF Keeps, MakeInv, JobInv
  <2>3. QED
    BY <2>1, <2>2
<1>2. DiskTyped /\ (job # NoJob => job \in Results)
  BY DEF MakeInv, JobInv
<1>3. QED
  BY <1>1, <1>2, StepKinds, OpensKeeps, EditsKeeps, WriteKeeps, RemovesKeeps

LEMMA MakeInvariance == MakeSpec => []MakeInv
  BY MakeInvInit, MakeInvStep, PTL DEF MakeSpec

-----------------------------------------------------------------------------
(* A chain without anything to do *)

Settled(f) == disk[f].part = "whole" /\ ~Stale(f)

LEMMA SettledPresent ==
  ASSUME NEW f, Settled(f)
  PROVE  Present(f) /\ \A g \in Prerequisites(f) : ~Newer(g, f)
  BY DEF Settled, Stale, Present

(* What a settled file was made from it still holds, if its inputs are     *)
(* not newer.                                                              *)
LEMMA SettledIsOf ==
  ASSUME MakeInv, NEW f \in Made, Settled(f),
         \A g \in Reads(f) : Present(g) /\ ~Newer(g, f)
  PROVE  disk[f].of = Reads(f)
  BY SettledPresent DEF MakeInv, MadeInv

(* ... and is right, if all results among its inputs are settled and right. *)
LEMMA SettledIsRight ==
  ASSUME MakeInv, NEW f \in Made, Settled(f), disk[f].of = Reads(f),
         \A g \in Reads(f) \cap Results : Settled(g) /\ disk[g].route = "right"
  PROVE  disk[f].route = "right"
  BY SettledPresent DEF MakeInv, MadeInv, Flawed, Settled

(* A file that is not newer than another is older, and so is all that is   *)
(* not newer than it.                                                      *)
LEMMA NotNewer ==
  ASSUME MakeInv, NEW f \in Files, NEW g \in Files, NEW h \in Files,
         Present(f), Present(g), Present(h), f # g, g # h, f # h,
         ~Newer(f, g), ~Newer(g, h)
  PROVE  ~Newer(f, h)
  BY DEF MakeInv, OrderInv, Newer

LEMMA ChainOf ==
  /\ \A m \in Methods :
       /\ ToSet(Chain(Construction(m))) = {Routing, Construction(m)}
       /\ ToSet(Chain(Segment(m))) = {Routing, Construction(m), Segment(m)}
  /\ \A f \in Refinements :
       ToSet(Chain(f)) = {Routing, Construction(f.method), Segment(f.method), f}
<1>1. ASSUME NEW m \in Methods
      PROVE  ToSet(Chain(Construction(m))) = {Routing, Construction(m)}
  <2>1. Chain(Construction(m)) = <<Routing, Construction(m)>>
    BY FilesOfMethod DEF Chain
  <2>2. QED
    BY <2>1 DEF ToSet
<1>2. ASSUME NEW m \in Methods
      PROVE  ToSet(Chain(Segment(m))) = {Routing, Construction(m), Segment(m)}
  <2>1. Chain(Segment(m)) = <<Routing, Construction(m), Segment(m)>>
    BY FilesOfMethod DEF Chain
  <2>2. QED
    BY <2>1 DEF ToSet
<1>3. ASSUME NEW f \in Refinements
      PROVE  ToSet(Chain(f)) =
               {Routing, Construction(f.method), Segment(f.method), f}
  <2>1. Chain(f) = <<Routing, Construction(f.method), Segment(f.method), f>>
    BY RefinementFacts DEF Chain
  <2>2. QED
    BY <2>1 DEF ToSet
<1>4. QED
  BY <1>1, <1>2, <1>3

LEMMA Distinct ==
  /\ Data \in Files /\ Routing \in Files /\ Data # Routing
  /\ \A m \in Methods :
       /\ Construction(m) # Routing /\ Segment(m) # Routing
       /\ Construction(m) # Segment(m)
  /\ \A f \in Refinements : \A m \in Methods :
       f # Routing /\ f # Construction(m) /\ f # Segment(m)
<1>1. Routing.phase = "routing" /\ Data.phase = "data"
  BY DEF Routing, Data, File
<1>2. QED
  BY <1>1, FilesOfMethod, RefinementFacts DEF Files

LEMMA SettledRouting ==
  ASSUME MakeInv, Settled(Routing)
  PROVE  disk[Routing].of = Reads(Routing) /\ disk[Routing].route = "right"
<1>1. Routing \in Made
  BY DEF Made
<1>2. Present(Data) /\ ~Newer(Data, Routing)
  BY SettledPresent, ReadsOf DEF MakeInv, MadeInv
<1>3. disk[Routing].of = Reads(Routing)
  BY <1>1, <1>2, SettledIsOf, ReadsOf
<1>4. Reads(Routing) \cap Results = {}
  BY ReadsOf, MadeFiles DEF Made
<1>5. QED
  BY <1>1, <1>3, <1>4, SettledIsRight

LEMMA SettledConstruction ==
  ASSUME MakeInv, NEW m \in Methods, Settled(Routing), Settled(Construction(m))
  PROVE  /\ disk[Construction(m)].of = Reads(Construction(m))
         /\ disk[Construction(m)].route = "right"
<1> DEFINE c == Construction(m)
<1>1. c \in Made
  BY DEF Made, Results
<1>2. Present(Routing) /\ ~Newer(Routing, c)
  BY SettledPresent, ReadsOf
<1>3. disk[c].of = Reads(c)
  BY <1>1, <1>2, SettledIsOf, ReadsOf
<1>4. Reads(c) \cap Results = {}
  BY ReadsOf, MadeFiles
<1>5. QED
  BY <1>1, <1>3, <1>4, SettledIsRight

LEMMA SettledSegment ==
  ASSUME MakeInv, NEW m \in Methods,
         Settled(Routing), Settled(Construction(m)), Settled(Segment(m))
  PROVE  /\ disk[Segment(m)].of = Reads(Segment(m))
         /\ disk[Segment(m)].route = "right"
         /\ ~Newer(Routing, Segment(m))
<1> DEFINE c == Construction(m)
           g == Segment(m)
<1>1. g \in Made /\ c \in Results
  BY DEF Made, Results
<1>2. Present(Routing) /\ Present(c) /\ Present(g) /\ ~Newer(Routing, c) /\ ~Newer(c, g)
  BY SettledPresent, ReadsOf
<1>3. ~Newer(Routing, g)
  BY <1>2, NotNewer, Distinct, FilesOfMethod
<1>4. disk[g].of = Reads(g)
  BY <1>1, <1>2, <1>3, SettledIsOf, ReadsOf
<1>5. Reads(g) \cap Results = {c}
  BY <1>1, ReadsOf, MadeFiles
<1>6. disk[g].route = "right"
  BY <1>1, <1>4, <1>5, SettledIsRight, SettledConstruction
<1>7. QED
  BY <1>3, <1>4, <1>6

LEMMA SettledRefinement ==
  ASSUME MakeInv, NEW f \in Refinements, Settled(Routing), Settled(f),
         Settled(Construction(f.method)), Settled(Segment(f.method))
  PROVE  disk[f].of = Reads(f) /\ disk[f].route = "right"
<1> DEFINE g == Segment(f.method)
<1>1. f \in Made /\ f \in Files /\ f.method \in Methods
  BY RefinementFacts DEF Made, Results
<1>2. g \in Results /\ g \in Files
  BY <1>1, FilesOfMethod DEF Results
<1>3. ~Newer(Routing, g) /\ disk[g].route = "right"
  BY <1>1, SettledSegment
<1>4. Present(Routing) /\ Present(g) /\ Present(f) /\ ~Newer(g, f)
  BY SettledPresent, ReadsOf
<1>5. ~Newer(Routing, f)
  BY <1>1, <1>2, <1>3, <1>4, NotNewer, Distinct
<1>6. disk[f].of = Reads(f)
  BY <1>1, <1>4, <1>5, SettledIsOf, ReadsOf
<1>7. Reads(f) \cap Results = {g}
  BY <1>2, ReadsOf, MadeFiles
<1>8. QED
  BY <1>1, <1>3, <1>6, <1>7, SettledIsRight

(* Where make has nothing to do and every file is whole, each was made     *)
(* from what its inputs hold now, from all stations and from the final     *)
(* solution (the prerequisites of the Makefile are the files the programs  *)
(* read, but for the database, which is an input of all).                  *)
THEOREM UpToDateAlwaysRight == MakeSpec => []UpToDateIsRight
<1>1. MakeInv => UpToDateIsRight
  <2> SUFFICES ASSUME MakeInv, NEW f \in Results,
                      \A g \in ToSet(Chain(f)) : Settled(g)
               PROVE  \A g \in ToSet(Chain(f)) :
                        disk[g].route = "right" /\ disk[g].of = Reads(g)
    BY DEF UpToDateIsRight, Settled
  <2>1. CASE f \in Refinements
    BY <2>1, ChainOf, RefinementFacts, SettledRouting, SettledConstruction,
       SettledSegment, SettledRefinement
  <2>2. ASSUME NEW m \in Methods, f = Segment(m)
        PROVE  \A g \in ToSet(Chain(f)) :
                 disk[g].route = "right" /\ disk[g].of = Reads(g)
    BY <2>2, ChainOf, SettledRouting, SettledConstruction, SettledSegment
  <2>3. ASSUME NEW m \in Methods, f = Construction(m)
        PROVE  \A g \in ToSet(Chain(f)) :
                 disk[g].route = "right" /\ disk[g].of = Reads(g)
    BY <2>3, ChainOf, SettledRouting, SettledConstruction
  <2>4. QED
    BY <2>1, <2>2, <2>3 DEF Results
<1>2. QED
  BY <1>1, MakeInvariance, PTL

-----------------------------------------------------------------------------
(* A call of make *)

GoalInv == outcome = "making" => goal.file \in Results

LEMMA GoalInvariance == MakeSpec => []GoalInv
<1>1. MakeInit => GoalInv
  BY DEF MakeInit, GoalInv
<1>2. GoalInv /\ [MakeNext]_makeVars => GoalInv'
  <2> SUFFICES ASSUME GoalInv, [MakeNext]_makeVars PROVE GoalInv'
    OBVIOUS
  <2> USE DEF GoalInv
  <2>1. ASSUME NEW g \in Goals, Ask(g) PROVE GoalInv'
    BY <2>1, GoalsAssumption DEF Ask
  <2>2. (\E f, l : Edit(f, l)) \/ (\E f : Delete(f)) => GoalInv'
    BY DEF Edit, Delete, UserChange
  <2>3. CASE User
    BY <2>1, <2>2, <2>3 DEF User
  <2>4. CASE Mishap
    BY <2>4 DEF Mishap, FailsBefore, EndsEarly, Dies, Interrupt, Fail
  <2>5. CASE Program
    <3>1. Finish \/ Prepare \/ Write \/ Close => GoalInv'
      BY DEF Finish, Prepare, Write, Close
    <3>2. (\E m \in Methods : Construct(m) \/ SegmentOrder(m)) => GoalInv'
      BY DEF Construct, SegmentOrder, Open
    <3>3. (\E f \in Refinements, p \in Passes : Refine(f, p)) => GoalInv'
      BY DEF Refine, Open
    <3>4. (\E f \in Results : RefuseInput(f)) => GoalInv'
      BY DEF RefuseInput, Fail
    <3>5. QED
      BY <2>5, <3>1, <3>2, <3>3, <3>4 DEF Program
  <2>6. CASE UNCHANGED makeVars
    BY <2>6 DEF makeVars
  <2>7. QED
    BY <2>3, <2>4, <2>5, <2>6 DEF MakeNext
<1>3. QED
  BY <1>1, <1>2, PTL DEF MakeSpec

(* The files of a chain are different, each made from those before it.     *)
LEMMA ChainFacts ==
  ASSUME NEW f \in Results
  PROVE  /\ DOMAIN Chain(f) \subseteq Nat
         /\ \A i \in DOMAIN Chain(f) : Chain(f)[i] \in Made
         /\ \A i, k \in DOMAIN Chain(f) : Chain(f)[i] = Chain(f)[k] => i = k
         /\ \A i, k \in DOMAIN Chain(f) :
              i <= k => Chain(f)[k] \notin Prerequisites(Chain(f)[i])
         /\ \A i, k \in DOMAIN Chain(f) : Chain(f)[i] = f => k <= i
         /\ \E i \in DOMAIN Chain(f) : Chain(f)[i] = f
<1> DEFINE C == Chain(f)
<1>1. Data \notin Made /\ Config \notin Made /\ Routing \in Made
  BY MadeFiles DEF Made
<1>2. ASSUME NEW m \in Methods, f = Construction(m)
      PROVE  C = <<Routing, f>> /\ f \in Made /\ f # Routing
             /\ Prerequisites(Routing) = {Data} /\ Prerequisites(f) = {Routing}
  BY <1>2, FilesOfMethod, ReadsOf, Distinct DEF Chain, Made
<1>3. ASSUME NEW m \in Methods, f = Segment(m)
      PROVE  /\ C = <<Routing, Construction(m), f>>
             /\ f \in Made /\ Construction(m) \in Made
             /\ f # Routing /\ Construction(m) # Routing /\ f # Construction(m)
             /\ Prerequisites(Routing) = {Data}
             /\ Prerequisites(Construction(m)) = {Routing}
             /\ Prerequisites(f) = {Construction(m)}
  BY <1>3, FilesOfMethod, ReadsOf, Distinct DEF Chain, Made, Results
<1>4. ASSUME f \in Refinements
      PROVE  LET m == f.method IN
             /\ C = <<Routing, Construction(m), Segment(m), f>>
             /\ f \in Made /\ Construction(m) \in Made /\ Segment(m) \in Made
             /\ f # Routing /\ f # Construction(m) /\ f # Segment(m)
             /\ Construction(m) # Routing /\ Segment(m) # Routing
             /\ Segment(m) # Construction(m)
             /\ Prerequisites(Routing) = {Data}
             /\ Prerequisites(Construction(m)) = {Routing}
             /\ Prerequisites(Segment(m)) = {Construction(m)}
             /\ Prerequisites(f) \subseteq {Segment(m), Config}
  BY <1>4, RefinementFacts, FilesOfMethod, ReadsOf, Distinct DEF Chain, Made, Results
<1> HIDE DEF C
<1> DEFINE Good == /\ DOMAIN C \subseteq Nat
                   /\ \A i \in DOMAIN C : C[i] \in Made
                   /\ \A i, k \in DOMAIN C : C[i] = C[k] => i = k
                   /\ \A i, k \in DOMAIN C :
                        i <= k => C[k] \notin Prerequisites(C[i])
                   /\ \A i, k \in DOMAIN C : C[i] = f => k <= i
                   /\ \E i \in DOMAIN C : C[i] = f
<1>5. (\E m \in Methods : f = Construction(m)) => Good
  BY <1>1, <1>2
<1>6. (\E m \in Methods : f = Segment(m)) => Good
  BY <1>1, <1>3
<1>7. f \in Refinements => Good
  BY <1>1, <1>4
<1>8. Good
  BY <1>5, <1>6, <1>7 DEF Results
<1>9. QED
  BY <1>8 DEF C

(* What a program has made is not stale, nor is what comes before it.      *)
LEMMA MadeIsNotDue ==
  ASSUME MakeInv, GoalInv, NEW f \in Made, NEW c \in Contents, IsNext(f),
         disk' = Changed(f, c), older' = Stamped(f), c.part # "absent", goal' = goal,
         NEW i \in DOMAIN Wanted, IsNext(Wanted[i]), NEW k \in Due'
  PROVE  k > i
<1>0. PICK g : g = goal.file
  OBVIOUS
<1> DEFINE C == Chain(g)
<1>1. g \in Results
  BY <1>0 DEF GoalInv, IsNext
<1>2. Wanted = C /\ Wanted' = C
  BY <1>0 DEF Wanted
<1>3. /\ DOMAIN C \subseteq Nat /\ \A j \in DOMAIN C : C[j] \in Made
      /\ \A j, l \in DOMAIN C : C[j] = C[l] => j = l
      /\ \A j, l \in DOMAIN C : j <= l => C[l] \notin Prerequisites(C[j])
      /\ \A j, l \in DOMAIN C : C[j] = g => l <= j
      /\ \E j \in DOMAIN C : C[j] = g
  BY <1>1, ChainFacts
<1>4. /\ Due = {j \in DOMAIN C : Stale(C[j]) /\ ~(goal.phony /\ C[j] = g)}
      /\ Due' = {j \in DOMAIN C : Stale(C[j])' /\ ~(goal.phony /\ C[j] = g)}
  BY <1>0, <1>2 DEF Due
<1> HIDE DEF C
<1>5. i \in DOMAIN C /\ k \in DOMAIN C
  BY <1>2, <1>4
<1>6. f = C[i] /\ \A j \in DOMAIN C : j < i => j \notin Due
  <2>1. ASSUME NEW h, IsNext(h)
        PROVE  \/ \E j \in Due : h = C[j] /\ \A l \in Due : j <= l
               \/ Due = {} /\ h = g
    BY <1>0, <1>2, <2>1 DEF IsNext
  <2>2. CASE Due = {}
    BY <1>2, <2>1, <2>2
  <2>3. CASE Due # {}
    <3>1. PICK j \in Due : f = C[j] /\ \A l \in Due : j <= l
      BY <2>1, <2>3
    <3>2. PICK l \in Due : C[i] = C[l] /\ \A n \in Due : l <= n
      BY <1>2, <2>1, <2>3
    <3>3. j = l /\ l = i
      BY <1>3, <1>4, <1>5, <3>1, <3>2
    <3>4. QED
      BY <1>3, <1>4, <3>1, <3>3
  <2>4. QED
    BY <2>2, <2>3
<1>7. SUFFICES ASSUME k <= i PROVE FALSE
  BY <1>3, <1>5
<1> DEFINE w == C[k]
<1>8. w \in Made /\ w \in Files /\ f \in Files
  BY <1>3, <1>5, MadeFiles
<1>9. f \notin Prerequisites(w)
  BY <1>3, <1>5, <1>6, <1>7
<1>10. Stale(w)' /\ ~(goal.phony /\ w = g)
  BY <1>4
<1> HIDE DEF w
<1>11. /\ Present(f)' /\ \A h \in Files \ {f} : Present(h)' <=> Present(h)
       /\ \A h \in Files \ {f} : older'[h] = older[h] \ {f}
  BY <1>8, ChangeFacts DEF MakeInv
<1>12. \A h \in Prerequisites(w) : h \in Files
  <2>1. Prerequisites(w) \subseteq Reads(w) \cup {Config}
    BY DEF Reads
  <2>2. QED
    BY <1>8, <2>1, MadeFiles
<1>13. CASE k = i
  <2>1. w = f
    BY <1>6, <1>13 DEF w
  <2>2. PICK h \in Prerequisites(w) : Newer(h, w)'
    BY <1>10, <1>11, <2>1 DEF Stale
  <2>3. QED
    BY <1>9, <1>11, <1>12, <2>1, <2>2 DEF Newer
<1>14. CASE k < i
  <2>1. k \notin Due
    BY <1>5, <1>6, <1>14
  <2>2. ~Stale(w)
    BY <1>4, <1>5, <1>10, <2>1 DEF w
  <2>3. w # f
    BY <1>3, <1>5, <1>6, <1>14 DEF w
  <2>4. Present(w) /\ Present(w)'
    BY <1>8, <1>11, <2>2, <2>3 DEF Stale
  <2>5. PICK h \in Prerequisites(w) : Newer(h, w)'
    BY <1>10, <2>4 DEF Stale
  <2>6. Newer(h, w)
    BY <1>9, <1>11, <1>12, <2>5 DEF Newer
  <2>7. QED
    BY <2>2, <2>6 DEF Stale
<1>15. QED
  BY <1>3, <1>5, <1>7, <1>13, <1>14

(* A program that starts leaves nothing to do at its file or before it in  *)
(* the chain: its output is newer than all its prerequisites, and it is a  *)
(* prerequisite only of later files (make remakes each target once).       *)
THEOREM NothingIsRemade == MakeSpec => NothingRemade
<1> DEFINE A == job = NoJob /\ outcome = "making" /\ outcome' = "making" =>
                  \A k \in Due', i \in DOMAIN Wanted : IsNext(Wanted[i]) => k > i
<1>1. MakeInv /\ GoalInv /\ [MakeNext]_makeVars => [A]_makeVars
  <2> SUFFICES ASSUME MakeInv, GoalInv, [MakeNext]_makeVars, ~UNCHANGED makeVars,
                      job = NoJob, outcome = "making", outcome' = "making",
                      NEW k \in Due', NEW i \in DOMAIN Wanted, IsNext(Wanted[i])
               PROVE  k > i
    OBVIOUS
  <2>1. DiskTyped /\ (job # NoJob => job \in Results)
    BY DEF MakeInv, JobInv
  <2>2. \E f, c : Opens(f, c)
    BY <2>1, StepKinds DEF Edits, Removes, Keeps, Write
  <2>3. PICK f, c : Opens(f, c)
    BY <2>2
  <2>4. /\ f \in Made /\ c \in Contents /\ IsNext(f)
        /\ disk' = Changed(f, c) /\ older' = Stamped(f)
        /\ c.part # "absent" /\ goal' = goal
    BY <2>3 DEF Opens
  <2>5. QED
    BY <2>4, MadeIsNotDue
<1>2. QED
  BY <1>1, MakeInvariance, GoalInvariance, PTL DEF MakeSpec, NothingRemade

-----------------------------------------------------------------------------
(* The export beside make *)

LEMMA MakeStepOrStutter == [Next]_vars => [MakeNext]_makeVars
<1> SUFFICES ASSUME [Next]_vars PROVE MakeNext \/ UNCHANGED makeVars
  OBVIOUS
<1>1. MakeStep => MakeNext
  BY DEF MakeStep
<1>2. RemoveTable \/ ExportDies \/ CreateSchema \/ Commit \/ Ingest \/ Abort
        => UNCHANGED makeVars
  BY DEF RemoveTable, ExportDies, CreateSchema, Commit, Ingest, Abort
<1>3. \A f \in Results : ReadDir(f) \/ PassBy(f) \/ OpenResult(f) => UNCHANGED makeVars
  BY DEF ReadDir, PassBy, OpenResult
<1>4. UNCHANGED vars => UNCHANGED makeVars
  BY DEF vars
<1>5. QED
  BY <1>1, <1>2, <1>3, <1>4 DEF Next, ExportStep

(* The export changes nothing that make sees, so that whatever holds of    *)
(* make alone holds beside an export (the walk opens results to read).     *)
THEOREM ExportOnlyReads == Spec => MakeSpec
<1>1. Init => MakeInit
  BY DEF Init
<1>2. QED
  BY <1>1, MakeStepOrStutter, PTL DEF Spec, MakeSpec

-----------------------------------------------------------------------------
(* From the moment the old tables are removed until the transaction is     *)
(* committed a reader sees no rows.                                        *)
NoRowsYet == export \in {"removed", "walking"} => table.runs = {}

-----------------------------------------------------------------------------
(* What the export adds and corrects *)

LEMMA RunsHaveIds ==
  ASSUME NEW f, NEW c, NEW r \in RunsOf(f, c)
  PROVE  "id" \in DOMAIN r
  BY DEF RunsOf, Run

(* fix_lineage changes no run but its parent.                              *)
LEMMA FixKeepsId ==
  ASSUME NEW rs, NEW r, "id" \in DOMAIN r
  PROVE  FixParent(rs, r).id = r.id
<1>1. ASSUME NEW p PROVE [r EXCEPT !.parent = p].id = r.id
  OBVIOUS
<1>2. QED
  BY <1>1 DEF FixParent

LEMMA FixKeepsIds ==
  ASSUME NEW rs, \A r \in rs : "id" \in DOMAIN r
  PROVE  Ids(FixLineage(rs)) = Ids(rs)
<1>1. \A r \in rs : FixParent(rs, r).id = r.id
  BY FixKeepsId
<1>2. QED
  BY <1>1 DEF Ids, FixLineage

-----------------------------------------------------------------------------
LEMMA NoRowsInit == Init => NoRowsYet
  BY DEF Init, NoRowsYet

LEMMA NoRowsStep == NoRowsYet /\ [Next]_vars => NoRowsYet'
<1> SUFFICES ASSUME NoRowsYet, [Next]_vars PROVE NoRowsYet'
  OBVIOUS
<1> USE DEF NoRowsYet
<1>1. CASE MakeStep
  BY <1>1 DEF MakeStep
<1>2. CASE RemoveTable
  BY <1>2 DEF RemoveTable, NoTable
<1>3. CASE CreateSchema
  <2>1. table'.runs = {}
    BY <1>3 DEF CreateSchema, EmptyTable, NoTable
  <2>2. QED
    BY <2>1
<1>4. CASE Commit
  BY <1>4 DEF Commit
<1>5. ASSUME NEW f \in Results, ReadDir(f) \/ PassBy(f) \/ OpenResult(f)
      PROVE  NoRowsYet'
  BY <1>5 DEF ReadDir, PassBy, OpenResult
<1>6. CASE Ingest
  BY <1>6 DEF Ingest
<1>7. CASE Abort
  BY <1>7 DEF Abort
<1>8. CASE ExportDies
  BY <1>8 DEF ExportDies
<1>9. CASE UNCHANGED vars
  BY <1>9 DEF vars, exportVars
<1>10. QED
  BY <1>1, <1>2, <1>3, <1>4, <1>5, <1>6, <1>7, <1>8, <1>9 DEF Next, ExportStep

LEMMA NoRowsInvariance == Spec => []NoRowsYet
  BY NoRowsInit, NoRowsStep, PTL DEF Spec

-----------------------------------------------------------------------------
(* The solutions of one file *)

LEMMA Triple ==
  ASSUME NEW S, NEW x \in S, NEW a \in S, NEW b \in S
  PROVE  <<x>> \o <<a, b>> = <<x, a, b>>
<1>1. <<x>> \in Seq(S) /\ <<a, b>> \in Seq(S) /\ <<x, a, b>> \in Seq(S)
  OBVIOUS
<1> DEFINE t == <<x>> \o <<a, b>>
<1>2. t \in Seq(S) /\ Len(t) = 3 /\ t[1] = x /\ t[2] = a /\ t[3] = b
  BY <1>1
<1> HIDE DEF t
<1>3. t = <<x, a, b>>
  BY <1>1, <1>2
<1>4. QED
  BY <1>3 DEF t

(* They have different keys, the last of them is final, and the first of a *)
(* refinement is "init".                                                   *)
LEMMA KeysDistinct ==
  ASSUME NEW f \in Results, NEW c \in Contents
  PROVE  /\ Len(Keys(f, c)) \in Nat \ {0}
         /\ DOMAIN Keys(f, c) = 1 .. Len(Keys(f, c))
         /\ FinalKey(f, c) = Keys(f, c)[Len(Keys(f, c))]
         /\ \A i, k \in DOMAIN Keys(f, c) :
              Keys(f, c)[i] = Keys(f, c)[k] => i = k
         /\ f.phase = "refinement" => Keys(f, c)[1] = "init"
<1> DEFINE K == Keys(f, c)
<1>1. FinalKey(f, c) = K[Len(K)]
  BY DEF FinalKey, Last
<1>2. CASE f.phase = "construction"
  <2>1. K = <<ConstructionKey(f.method)>>
    BY <1>2 DEF Keys
  <2>2. QED
    BY <1>1, <1>2, <2>1
<1>3. CASE f.phase = "segmentation"
  <2>1. CASE c.original
    <3> DEFINE x == ConstructionKey(f.method)
    <3>a. x = "capacity-infeasible" \/ x = "fixedport-capacity-feasible"
            \/ x = "construction"
      BY DEF ConstructionKey
    <3>b. K = <<x>> \o SegmentKeys
      BY <1>3, <2>1 DEF Keys
    <3> HIDE DEF x
    <3> DEFINE S == {x, "baseline-capacity-feasible", "capacity-feasible"}
    <3>1. x \in S /\ "baseline-capacity-feasible" \in S /\ "capacity-feasible" \in S
      OBVIOUS
    <3> HIDE DEF S
    <3>2. K = <<x, "baseline-capacity-feasible", "capacity-feasible">>
      BY <3>b, <3>1, Triple DEF SegmentKeys
    <3>3. x \notin {"baseline-capacity-feasible", "capacity-feasible"}
      BY <3>a
    <3>4. QED
      BY <1>1, <1>3, <3>2, <3>3
  <2>2. CASE ~c.original
    <3>1. K = <<"baseline-capacity-feasible", "capacity-feasible">>
      BY <1>3, <2>2 DEF Keys, SegmentKeys
    <3>2. QED
      BY <1>1, <1>3, <3>1
  <2>3. QED
    BY <2>1, <2>2
<1>4. CASE f.phase = "refinement"
  <2>1. K = [i \in 1 .. c.passes + 1 |-> <<"init", "pass1", "pass2">>[i]]
    BY <1>4 DEF Keys, PassKeys
  <2>2. c.passes + 1 \in 1 .. 3
    BY DEF Contents
  <2>3. Len(K) = c.passes + 1 /\ DOMAIN K = 1 .. c.passes + 1
    BY <2>1, <2>2
  <2>4. \A i \in DOMAIN K : K[i] = <<"init", "pass1", "pass2">>[i]
    BY <2>1, <2>3
  <2>5. \A i, k \in 1 .. 3 :
          <<"init", "pass1", "pass2">>[i] = <<"init", "pass1", "pass2">>[k] => i = k
    OBVIOUS
  <2>6. QED
    BY <1>1, <2>2, <2>3, <2>4, <2>5
<1>5. QED
  BY <1>2, <1>3, <1>4, ResultPhases

-----------------------------------------------------------------------------
(* The rows of several files *)

(* The rows rs are those of the files in the domain of src, as they were   *)
(* when they were read, and no two files claim one run.                    *)
Origin(rs, src) ==
  /\ DOMAIN src \subseteq Results
  /\ \A f \in DOMAIN src : src[f] \in Contents
  /\ rs = UNION {RunsOf(f, src[f]) : f \in DOMAIN src}
  /\ \A f, g \in DOMAIN src :
       f # g => Ids(RunsOf(f, src[f])) \cap Ids(RunsOf(g, src[g])) = {}

(* Row number i of file f, as it is committed.                             *)
Row(rs, src, f, i) == FixParent(rs, Run(f, src[f], i))
Solutions(src, f) == 1 .. Len(Keys(f, src[f]))

LEMMA RowFacts ==
  ASSUME NEW rs, NEW src, Origin(rs, src),
         NEW f \in DOMAIN src, NEW i \in Solutions(src, f)
  PROVE  /\ Run(f, src[f], i) \in rs
         /\ Row(rs, src, f, i) \in FixLineage(rs)
         /\ Row(rs, src, f, i).id = RunId(f, src[f], Keys(f, src[f])[i])
         /\ Row(rs, src, f, i).pass = i - 1
         /\ Row(rs, src, f, i).final <=> i = Len(Keys(f, src[f]))
         /\ Run(f, src[f], i).id = RunId(f, src[f], Keys(f, src[f])[i])
         /\ Run(f, src[f], i).final <=> i = Len(Keys(f, src[f]))
         /\ Row(rs, src, f, i).parent =
              CASE f.phase = "segmentation" -> FinalOf(rs, f.method, "construction")
                [] f.phase = "refinement" /\ i = 1 ->
                     FinalOf(rs, f.method, "segmentation")
                [] OTHER -> ParentGuess(f, src[f], i)
<1> DEFINE c == src[f]
           K == Keys(f, c)
           r == Run(f, c, i)
<1>1. f \in Results /\ c \in Contents
  BY DEF Origin
<1>2. i \in DOMAIN K /\ Len(K) \in DOMAIN K /\ (K[i] = FinalKey(f, c) <=> i = Len(K))
  BY <1>1, KeysDistinct DEF Solutions
<1>3. r \in rs
  BY <1>2 DEF Origin, RunsOf
<1>4. r = [id |-> RunId(f, c, K[i]), parent |-> ParentGuess(f, c, i),
           final |-> K[i] = FinalKey(f, c), pass |-> i - 1]
  BY DEF Run
<1> HIDE DEF r
<1>5. /\ r.id = RunId(f, c, K[i]) /\ r.parent = ParentGuess(f, c, i)
      /\ r.pass = i - 1 /\ r.final = (K[i] = FinalKey(f, c))
  BY <1>4, Zenon
<1>6. r.id.phase = f.phase /\ r.id.method = f.method /\ r.id.key = K[i]
  BY <1>5 DEF RunId
<1>7. f.phase = "refinement" => (r.id.key = "init" <=> i = 1)
  BY <1>1, <1>2, <1>6, KeysDistinct DEF Solutions
<1>8. \A p : /\ [r EXCEPT !.parent = p].id = r.id
             /\ [r EXCEPT !.parent = p].pass = r.pass
             /\ [r EXCEPT !.parent = p].final = r.final
             /\ [r EXCEPT !.parent = p].parent = p
  BY <1>4
<1>9. /\ FixParent(rs, r).id = r.id /\ FixParent(rs, r).pass = r.pass
      /\ FixParent(rs, r).final = r.final
  BY <1>8 DEF FixParent
<1>10. FixParent(rs, r).parent =
         CASE f.phase = "segmentation" -> FinalOf(rs, f.method, "construction")
           [] f.phase = "refinement" /\ i = 1 -> FinalOf(rs, f.method, "segmentation")
           [] OTHER -> ParentGuess(f, c, i)
  BY <1>5, <1>6, <1>7, <1>8 DEF FixParent
<1>11. FixParent(rs, r) \in FixLineage(rs)
  BY <1>3 DEF FixLineage
<1>12. QED
  <2>1. Row(rs, src, f, i) = FixParent(rs, r) /\ Run(f, src[f], i) = r
    BY DEF Row, r
  <2>2. r.final <=> i = Len(K)
    BY <1>2, <1>5
  <2>3. QED
    BY <1>3, <1>5, <1>9, <1>10, <1>11, <2>1, <2>2

LEMMA SolutionRange ==
  ASSUME NEW rs, NEW src, Origin(rs, src), NEW f \in DOMAIN src
  PROVE  /\ Solutions(src, f) = DOMAIN Keys(f, src[f])
         /\ Len(Keys(f, src[f])) \in Solutions(src, f) /\ 1 \in Solutions(src, f)
         /\ \A i \in Solutions(src, f) :
              /\ i \in Nat \ {0} /\ i <= Len(Keys(f, src[f]))
              /\ i # 1 => i - 1 \in Solutions(src, f)
<1> DEFINE n == Len(Keys(f, src[f]))
<1>1. f \in Results /\ src[f] \in Contents
  BY DEF Origin
<1>2. n \in Nat \ {0} /\ DOMAIN Keys(f, src[f]) = 1 .. n
  BY <1>1, KeysDistinct
<1> HIDE DEF n
<1>3. /\ n \in 1 .. n /\ 1 \in 1 .. n
      /\ \A i \in 1 .. n : i \in Nat \ {0} /\ i <= n /\ (i # 1 => i - 1 \in 1 .. n)
  BY <1>2
<1>4. QED
  BY <1>2, <1>3 DEF Solutions, n

LEMMA RowsOnly ==
  ASSUME NEW rs, NEW src, Origin(rs, src), NEW q \in FixLineage(rs)
  PROVE  \E f \in DOMAIN src, i \in Nat :
           i \in Solutions(src, f) /\ q = Row(rs, src, f, i)
<1>1. PICK r \in rs : q = FixParent(rs, r)
  BY DEF FixLineage
<1>2. PICK f \in DOMAIN src : r \in RunsOf(f, src[f])
  BY DEF Origin
<1>3. PICK i \in DOMAIN Keys(f, src[f]) : r = Run(f, src[f], i)
  BY <1>2 DEF RunsOf
<1>4. i \in Solutions(src, f) /\ i \in Nat
  BY SolutionRange
<1>5. q = Row(rs, src, f, i)
  BY <1>1, <1>3 DEF Row
<1>6. QED
  BY <1>4, <1>5

(* Up to its key a run tells its file.                                     *)
LEMMA SameFile ==
  ASSUME NEW rs, NEW src, Origin(rs, src),
         NEW f \in DOMAIN src, NEW g \in DOMAIN src,
         f.method = g.method, f.phase = g.phase,
         f.phase = "refinement" => LimitOf(f, src[f]) = LimitOf(g, src[g])
  PROVE  f = g
<1>1. f \in Results /\ g \in Results /\ src[f] \in Contents /\ src[g] \in Contents
  BY DEF Origin
<1>3. CASE f.phase = "refinement"
  <2>1. RunId(f, src[f], "init") = RunId(g, src[g], "init")
    BY <1>3 DEF RunId
  <2>2. \A h \in {f, g} : RunId(h, src[h], "init") \in Ids(RunsOf(h, src[h]))
    <3> SUFFICES ASSUME NEW h \in {f, g}
                 PROVE  RunId(h, src[h], "init") \in Ids(RunsOf(h, src[h]))
      OBVIOUS
    <3>a. h \in Results /\ src[h] \in Contents /\ h.phase = "refinement" /\ h \in DOMAIN src
      BY <1>1, <1>3
    <3>1. Keys(h, src[h])[1] = "init" /\ 1 \in DOMAIN Keys(h, src[h])
      <4>1. Keys(h, src[h])[1] = "init"
        BY <3>a, KeysDistinct
      <4>2. 1 \in DOMAIN Keys(h, src[h])
        BY <3>a, SolutionRange
      <4>3. QED
        BY <4>1, <4>2
    <3>2. Run(h, src[h], 1) \in RunsOf(h, src[h])
      BY <3>1 DEF RunsOf
    <3>3. Run(h, src[h], 1).id = RunId(h, src[h], "init")
      BY <3>1 DEF Run
    <3>4. QED
      BY <3>2, <3>3 DEF Ids
  <2>3. QED
    BY <2>1, <2>2 DEF Origin
<1>4. CASE f.phase # "refinement"
  <2>1. f = Construction(f.method) \/ f = Segment(f.method)
    BY <1>1, <1>4, ResultPhases
  <2>2. g = Construction(f.method) \/ g = Segment(f.method)
    BY <1>1, <1>4, ResultPhases
  <2>3. QED
    BY <2>1, <2>2 DEF Construction, Segment, File
<1>5. QED
  BY <1>3, <1>4

LEMMA SameRows ==
  ASSUME NEW rs, NEW src, Origin(rs, src),
         NEW f \in DOMAIN src, NEW i \in Solutions(src, f),
         NEW g \in DOMAIN src, NEW k \in Solutions(src, g)
  PROVE  SameRefinement(Row(rs, src, f, i), Row(rs, src, g, k)) <=> f = g
<1>1. /\ Row(rs, src, f, i).id = RunId(f, src[f], Keys(f, src[f])[i])
      /\ Row(rs, src, g, k).id = RunId(g, src[g], Keys(g, src[g])[k])
  BY RowFacts
<1>2. /\ Row(rs, src, f, i).id.method = f.method /\ Row(rs, src, f, i).id.phase = f.phase
      /\ Row(rs, src, g, k).id.method = g.method /\ Row(rs, src, g, k).id.phase = g.phase
      /\ f.phase = "refinement" =>
           Row(rs, src, f, i).id.limit = LimitOf(f, src[f])
      /\ g.phase = "refinement" =>
           Row(rs, src, g, k).id.limit = LimitOf(g, src[g])
  BY <1>1 DEF RunId
<1>3. f = g => Row(rs, src, f, i).id.limit = Row(rs, src, g, k).id.limit
  BY <1>1 DEF RunId
<1>4. QED
  BY <1>2, <1>3, SameFile DEF SameRefinement

LEMMA FinalRow ==
  ASSUME NEW rs, NEW src, Origin(rs, src), NEW m, NEW ph,
         NEW p \in FinalOf(rs, m, ph)
  PROVE  \E f \in DOMAIN src : \E i \in Solutions(src, f) :
           /\ f.method = m /\ f.phase = ph
           /\ p = Row(rs, src, f, i).id /\ Row(rs, src, f, i).final
<1>1. PICK r \in rs : p = r.id /\ r.id.method = m /\ r.id.phase = ph /\ r.final
  BY DEF FinalOf
<1>2. PICK f \in DOMAIN src : r \in RunsOf(f, src[f])
  BY DEF Origin
<1>3. PICK i \in DOMAIN Keys(f, src[f]) : r = Run(f, src[f], i)
  BY <1>2 DEF RunsOf
<1>4. i \in Solutions(src, f)
  BY SolutionRange
<1>5. r.id = RunId(f, src[f], Keys(f, src[f])[i]) /\ (r.final <=> i = Len(Keys(f, src[f])))
  BY <1>3, <1>4, RowFacts
<1>6. f.method = m /\ f.phase = ph
  BY <1>1, <1>5 DEF RunId
<1>7. Row(rs, src, f, i).id = r.id /\ Row(rs, src, f, i).final
  BY <1>1, <1>4, <1>5, RowFacts
<1>8. QED
  BY <1>1, <1>4, <1>6, <1>7

-----------------------------------------------------------------------------
(* Their lineage *)

LEMMA AtMostOne ==
  ASSUME NEW S, \A p, q \in S : p = q
  PROVE  Cardinality(S) <= 1
<1>1. CASE S = {}
  BY <1>1, FS_EmptySet
<1>2. ASSUME NEW p \in S
      PROVE  Cardinality(S) <= 1
  <2>1. S = {p}
    BY <1>2
  <2>2. Cardinality({p}) = 1
    BY FS_Singleton, Zenon
  <2>3. QED
    BY <2>1, <2>2
<1>3. QED
  BY <1>1, <1>2

LEMMA OneFinal ==
  ASSUME NEW rs, NEW src, Origin(rs, src), NEW r \in FixLineage(rs)
  PROVE  Cardinality({q \in FixLineage(rs) : q.final /\ SameRefinement(q, r)}) = 1
<1>1. PICK f \in DOMAIN src, i \in Nat :
        i \in Solutions(src, f) /\ r = Row(rs, src, f, i)
  BY RowsOnly
<1> DEFINE n == Len(Keys(f, src[f]))
           last == Row(rs, src, f, n)
           F == {q \in FixLineage(rs) : q.final /\ SameRefinement(q, r)}
<1>2. n \in Solutions(src, f)
  BY SolutionRange
<1>3. last \in F
  BY <1>1, <1>2, RowFacts, SameRows
<1>4. ASSUME NEW q \in F
      PROVE  q = last
  <2>1. PICK g \in DOMAIN src, k \in Nat :
          k \in Solutions(src, g) /\ q = Row(rs, src, g, k)
    BY RowsOnly
  <2>2. g = f
    BY <1>1, <2>1, SameRows
  <2>3. k = n
    BY <2>1, <2>2, RowFacts
  <2>4. QED
    BY <2>1, <2>2, <2>3
<1>5. F = {last}
  BY <1>3, <1>4
<1>6. QED
  BY <1>5, FS_Singleton

LEMMA ParentsClosed ==
  ASSUME NEW rs, NEW src, Origin(rs, src), table.runs = FixLineage(rs)
  PROVE  ParentsInTable
<1> SUFFICES ASSUME NEW r \in table.runs
             PROVE  /\ \A p \in r.parent : \E q \in table.runs :
                         /\ q.id = p
                         /\ IF FollowsPass(r) THEN PassBefore(q, r)
                            ELSE q.final /\ Precedes(q, r)
                    /\ r.parent = {} =>
                         ~FollowsPass(r) /\ \A q \in table.runs : ~Precedes(q, r)
                    /\ Cardinality(r.parent) <= 1
  BY OneFinal DEF ParentsInTable
<1>1. PICK f \in DOMAIN src, i \in Nat :
        i \in Solutions(src, f) /\ r = Row(rs, src, f, i)
  BY RowsOnly
<1> DEFINE c == src[f]
           K == Keys(f, c)
<1>2. /\ r.id = RunId(f, c, K[i]) /\ r.pass = i - 1 /\ i \in Nat \ {0}
      /\ r.id.phase = f.phase /\ r.id.method = f.method
  <2>1. r.id = RunId(f, c, K[i]) /\ r.pass = i - 1
    BY <1>1, RowFacts
  <2>2. i \in Nat \ {0}
    BY <1>1, SolutionRange
  <2>3. QED
    BY <2>1, <2>2 DEF RunId
<1>3. r.parent =
        CASE f.phase = "segmentation" -> FinalOf(rs, f.method, "construction")
          [] f.phase = "refinement" /\ i = 1 -> FinalOf(rs, f.method, "segmentation")
          [] OTHER -> ParentGuess(f, c, i)
  BY <1>1, RowFacts
<1>4. f.phase \in {"construction", "segmentation", "refinement"}
  BY ResultPhases DEF Origin
<1>5. ASSUME NEW ph, ph # "refinement", r.parent = FinalOf(rs, f.method, ph),
             <<ph, f.phase>> \in NextPhase, ~FollowsPass(r)
      PROVE  /\ \A p \in r.parent : \E q \in table.runs :
                  q.id = p /\ q.final /\ Precedes(q, r)
             /\ r.parent = {} => \A q \in table.runs : ~Precedes(q, r)
             /\ Cardinality(r.parent) <= 1
  <2>1. ASSUME NEW p \in r.parent
        PROVE  \E q \in table.runs : q.id = p /\ q.final /\ Precedes(q, r)
    <3>1. PICK g \in DOMAIN src : \E k \in Solutions(src, g) :
                /\ g.method = f.method /\ g.phase = ph
                /\ p = Row(rs, src, g, k).id /\ Row(rs, src, g, k).final
      BY <1>5, <2>1, FinalRow
    <3>2. PICK k \in Solutions(src, g) :
                /\ g.method = f.method /\ g.phase = ph
                /\ p = Row(rs, src, g, k).id /\ Row(rs, src, g, k).final
      BY <3>1
    <3>3. Row(rs, src, g, k) \in table.runs /\ p = RunId(g, src[g], Keys(g, src[g])[k])
      BY <3>2, RowFacts
    <3>4. p.method = f.method /\ p.phase = ph
      BY <3>2, <3>3 DEF RunId
    <3>5. QED
      BY <1>2, <1>5, <3>2, <3>3, <3>4 DEF Precedes
  <2>2. ASSUME NEW q \in table.runs, Precedes(q, r)
        PROVE  r.parent # {}
    <3>1. PICK g \in DOMAIN src, k \in Nat :
            k \in Solutions(src, g) /\ q = Row(rs, src, g, k)
      BY RowsOnly
    <3>2. q.id = RunId(g, src[g], Keys(g, src[g])[k])
      BY <3>1, RowFacts
    <3>3. q.id.method = f.method /\ q.id.phase = ph
      BY <1>2, <1>4, <1>5, <2>2 DEF Precedes, NextPhase
    <3>4. g.method = f.method /\ g.phase = ph
      BY <3>2, <3>3 DEF RunId
    <3> DEFINE n == Len(Keys(g, src[g]))
               last == Run(g, src[g], n)
    <3>5. n \in Solutions(src, g)
      BY SolutionRange
    <3>6. last \in rs /\ last.final /\ last.id = RunId(g, src[g], Keys(g, src[g])[n])
      BY <3>5, RowFacts
    <3>7. last.id.method = f.method /\ last.id.phase = ph
      BY <3>4, <3>6 DEF RunId
    <3> HIDE DEF last
    <3>8. last.id \in FinalOf(rs, f.method, ph)
      BY <3>6, <3>7 DEF FinalOf
    <3>9. QED
      BY <1>5, <3>8
  <2>3. ASSUME NEW p \in r.parent, NEW q \in r.parent
        PROVE  p = q
    <3>1. PICK g \in DOMAIN src : \E k \in Solutions(src, g) :
                /\ g.method = f.method /\ g.phase = ph
                /\ p = Row(rs, src, g, k).id /\ Row(rs, src, g, k).final
      BY <1>5, <2>3, FinalRow
    <3>2. PICK h \in DOMAIN src : \E k \in Solutions(src, h) :
                /\ h.method = f.method /\ h.phase = ph
                /\ q = Row(rs, src, h, k).id /\ Row(rs, src, h, k).final
      BY <1>5, <2>3, FinalRow
    <3>3. g = h
      BY <1>5, <3>1, <3>2, SameFile
    <3>4. PICK k \in Solutions(src, g) :
                p = Row(rs, src, g, k).id /\ Row(rs, src, g, k).final
      BY <3>1
    <3>5. PICK l \in Solutions(src, g) :
                q = Row(rs, src, g, l).id /\ Row(rs, src, g, l).final
      BY <3>2, <3>3
    <3>6. k = l
      BY <3>4, <3>5, RowFacts
    <3>7. QED
      BY <3>4, <3>5, <3>6
  <2>4. Cardinality(r.parent) <= 1
    BY <2>3, AtMostOne
  <2>5. QED
    BY <2>1, <2>2, <2>4
<1>6. CASE f.phase = "construction"
  <2>1. r.parent = {}
    BY <1>3, <1>6 DEF ParentGuess
  <2>2. \A q \in table.runs : ~Precedes(q, r)
    BY <1>2, <1>6 DEF Precedes, NextPhase
  <2>3. ~FollowsPass(r)
    BY <1>2, <1>6 DEF FollowsPass
  <2>4. Cardinality(r.parent) <= 1
    BY <2>1, AtMostOne
  <2>5. QED
    BY <2>1, <2>2, <2>3, <2>4
<1>7. CASE f.phase = "segmentation"
  <2>1. r.parent = FinalOf(rs, f.method, "construction")
    BY <1>3, <1>7
  <2>2. ~FollowsPass(r) /\ <<"construction", f.phase>> \in NextPhase
    BY <1>2, <1>7 DEF FollowsPass, NextPhase
  <2>3. QED
    BY <1>5, <2>1, <2>2
<1>8. CASE f.phase = "refinement" /\ i = 1
  <2>1. r.parent = FinalOf(rs, f.method, "segmentation")
    BY <1>3, <1>8
  <2>2. ~FollowsPass(r) /\ <<"segmentation", f.phase>> \in NextPhase
    BY <1>2, <1>8 DEF FollowsPass, NextPhase
  <2>3. QED
    BY <1>5, <2>1, <2>2
<1>9. CASE f.phase = "refinement" /\ i # 1
  <2> DEFINE q == Row(rs, src, f, i - 1)
  <2>1. r.parent = {RunId(f, c, K[i - 1])}
    BY <1>3, <1>9 DEF ParentGuess
  <2>2. i - 1 \in Solutions(src, f)
    BY <1>1, <1>9, SolutionRange
  <2>3. q \in table.runs /\ q.id = RunId(f, c, K[i - 1]) /\ q.pass = i - 2
    BY <2>2, RowFacts
  <2>4. SameRefinement(q, r)
    BY <1>1, <2>2, SameRows
  <2>5. FollowsPass(r) /\ PassBefore(q, r)
    BY <1>2, <1>9, <2>3, <2>4 DEF FollowsPass, PassBefore
  <2>6. Cardinality(r.parent) <= 1
    BY <2>1, AtMostOne
  <2> HIDE DEF q
  <2>7. QED
    BY <2>1, <2>3, <2>5, <2>6
<1>10. QED
  BY <1>4, <1>6, <1>7, <1>8, <1>9

LEMMA EndsSummarised ==
  ASSUME NEW rs, NEW src, Origin(rs, src), table.runs = FixLineage(rs),
         table.summary = Summary(table.runs)
  PROVE  SummaryNamesEnds
<1> SUFFICES ASSUME NEW r \in table.runs, r.id.phase = "refinement"
             PROVE  \E s \in table.summary, first \in table.runs :
                      /\ SameRefinement(first, r) /\ first.id.key = "init"
                      /\ s.init = first.id
                      /\ \A q \in table.runs :
                           SameRefinement(q, r) /\ q.final => s.final = q.id
                      /\ \A t \in table.summary : t.init = s.init => t = s
  BY DEF SummaryNamesEnds
<1>1. PICK f \in DOMAIN src, i \in Nat :
        i \in Solutions(src, f) /\ r = Row(rs, src, f, i)
  BY RowsOnly
<1> DEFINE c == src[f]
           K == Keys(f, c)
           n == Len(K)
           first == Row(rs, src, f, 1)
           last == Row(rs, src, f, n)
           s == [init |-> first.id, final |-> last.id]
<1>2. f \in Results /\ c \in Contents
  BY DEF Origin
<1>3. r.id = RunId(f, c, K[i]) /\ f.phase = "refinement"
  <2>1. r.id = RunId(f, c, K[i])
    BY <1>1, RowFacts
  <2>2. QED
    BY <2>1 DEF RunId
<1>4. n \in Nat \ {0} /\ 1 \in Solutions(src, f) /\ n \in Solutions(src, f) /\ K[1] = "init"
  BY <1>2, <1>3, KeysDistinct, SolutionRange
<1>5. /\ first \in table.runs /\ first.id = RunId(f, c, "init") /\ first.pass = 0
      /\ last \in table.runs /\ last.pass = n - 1
  BY <1>4, RowFacts
<1>6. first.id.phase = "refinement" /\ first.id.key = "init"
  BY <1>3, <1>5 DEF RunId
<1>7. ASSUME NEW q \in table.runs, SameRefinement(q, r) \/ SameRefinement(q, last)
      PROVE  \E k \in Solutions(src, f) : q = Row(rs, src, f, k)
  <2>1. PICK g \in DOMAIN src, k \in Nat :
          k \in Solutions(src, g) /\ q = Row(rs, src, g, k)
    BY RowsOnly
  <2>2. g = f
    BY <1>1, <1>4, <1>7, <2>1, SameRows
  <2>3. QED
    BY <2>1, <2>2
<1>8. \A k \in Solutions(src, f) : k \in Nat /\ k <= n /\ Row(rs, src, f, k).pass = k - 1
  BY SolutionRange, RowFacts
<1>9. SameRefinement(first, last) /\ LastPass(table.runs, last)
  <2>1. SameRefinement(first, last)
    BY <1>4, SameRows
  <2>2. QED
    BY <2>1, <1>4, <1>5, <1>7, <1>8 DEF LastPass
<1>10. s \in table.summary
  <2> DEFINE p == <<first, last>>
  <2>1. p \in table.runs \X table.runs /\ p[1] = first /\ p[2] = last
    BY <1>5
  <2>2. /\ p[1].id.phase = "refinement" /\ SameRefinement(p[1], p[2])
        /\ p[1].pass = 0 /\ LastPass(table.runs, p[2])
        /\ s = [init |-> p[1].id, final |-> p[2].id]
    BY <2>1, <1>5, <1>6, <1>9
  <2> HIDE DEF p, s
  <2>3. QED
    BY <2>1, <2>2 DEF Summary
<1>11. ASSUME NEW q \in table.runs, SameRefinement(q, r), q.final
       PROVE  s.final = q.id
  <2>1. PICK k \in Solutions(src, f) : q = Row(rs, src, f, k)
    BY <1>7, <1>11
  <2>2. k = n
    BY <1>11, <2>1, RowFacts
  <2>3. QED
    BY <2>1, <2>2
<1>12. ASSUME NEW t \in table.summary, t.init = s.init
       PROVE  t = s
  <2>1. PICK p \in table.runs \X table.runs :
          /\ t = [init |-> p[1].id, final |-> p[2].id]
          /\ SameRefinement(p[1], p[2]) /\ LastPass(table.runs, p[2])
    BY DEF Summary
  <2>2. p[1] \in table.runs /\ p[2] \in table.runs /\ p[1].id = first.id
    BY <1>12, <2>1
  <2>3. SameRefinement(p[2], last) /\ SameRefinement(last, p[2])
    BY <1>9, <2>1, <2>2 DEF SameRefinement
  <2>4. PICK k \in Solutions(src, f) : p[2] = Row(rs, src, f, k)
    BY <1>7, <2>2, <2>3
  <2>5. n - 1 <= k - 1
    BY <1>5, <1>8, <2>1, <2>3, <2>4 DEF LastPass
  <2>6. k = n
    BY <1>4, <1>8, <2>5
  <2>7. QED
    BY <2>1, <2>2, <2>4, <2>6
<1>13. SameRefinement(first, r)
  BY <1>1, <1>4, SameRows
<1>14. QED
  BY <1>5, <1>6, <1>10, <1>11, <1>12, <1>13

-----------------------------------------------------------------------------
(* The invariant: the rows of the transaction come from files the walk has *)
(* passed, and those of the table from an earlier walk.                    *)
RunsInv == \E src : Origin(runs, src) /\ DOMAIN src \subseteq visited

TableInv ==
  \E rs, src : /\ Origin(rs, src)
               /\ table.runs = FixLineage(rs) /\ table.summary = Summary(table.runs)

(* An open file has not been passed, and reading it adds the rows of one   *)
(* text or none.                                                           *)
RowsOf(f) == {{}} \cup {RunsOf(f, c) : c \in Contents}
OpenInv ==
  \/ opened = NotOpen
  \/ \E f \in Results \ visited : \E rs \in RowsOf(f), t, l \in BOOLEAN :
        opened = Handle(f, rs, t, l)

LineageInv == DiskTyped /\ OpenInv /\ RunsInv /\ TableInv

LEMMA NoOrigin ==
  /\ \E src : Origin({}, src) /\ DOMAIN src = {}
  /\ FixLineage({}) = {} /\ Summary({}) = {}
<1> DEFINE src == [f \in {} |-> Absent]
<1>1. DOMAIN src = {} /\ Origin({}, src)
  BY DEF Origin
<1>2. QED
  BY <1>1 DEF FixLineage, Summary

LEMMA EarlierTablesSound ==
  ASSUME NEW m \in Methods, table \in EarlierTables
  PROVE  TableInv
<1>1. PICK d \in Methods : table = [state |-> "committed",
        runs |-> RunsOf(Construction(d), Absent), summary |-> {}]
  BY DEF EarlierTables
<1> DEFINE f == Construction(d)
           rs == RunsOf(f, Absent)
           src == [g \in {f} |-> Absent]
<1>2. f \in Results /\ f.phase = "construction"
  BY FilesOfMethod DEF Results
<1>3. DOMAIN src = {f} /\ src[f] = Absent
  OBVIOUS
<1>4. rs = UNION {RunsOf(g, src[g]) : g \in DOMAIN src}
  BY <1>3
<1>5. Origin(rs, src)
  BY <1>2, <1>3, <1>4, AbsentTyped DEF Origin
<1>6. \A r \in rs : r.id.phase = "construction"
  BY <1>2 DEF RunsOf, Run, RunId
<1> HIDE DEF f, rs, src
<1>7. \A r \in rs : FixParent(rs, r) = r
  BY <1>6 DEF FixParent
<1>8. FixLineage(rs) = rs
  BY <1>7 DEF FixLineage
<1>9. Summary(rs) = {}
  BY <1>6 DEF Summary
<1>10. table.runs = rs /\ table.summary = {}
  BY <1>1 DEF rs, f
<1>11. QED
  BY <1>5, <1>8, <1>9, <1>10 DEF TableInv

LEMMA LineageInit == Init => LineageInv
<1> SUFFICES ASSUME Init PROVE LineageInv
  OBVIOUS
<1>1. DiskTyped
  BY DiskInit DEF Init
<1>2. RunsInv
  BY NoOrigin DEF Init, RunsInv
<1>3. TableInv
  <2>1. CASE table = NoTable
    BY <2>1, NoOrigin DEF NoTable, TableInv
  <2>2. CASE table \in EarlierTables
    BY <2>2, EarlierTablesSound DEF EarlierTables
  <2>3. QED
    BY <2>1, <2>2 DEF Init
<1>4. OpenInv
  BY DEF Init, OpenInv
<1>5. QED
  BY <1>1, <1>2, <1>3, <1>4 DEF LineageInv

LEMMA HandleFields ==
  ASSUME NEW f, NEW rs, NEW t, NEW l
  PROVE  /\ Handle(f, rs, t, l).file = f /\ Handle(f, rs, t, l).rows = rs
         /\ Handle(f, rs, t, l).truncated = t /\ Handle(f, rs, t, l).linked = l
  BY DEF Handle

LEMMA NotOpenFields == ~NotOpen.linked
  BY DEF NotOpen, Handle

LEMMA TextRows ==
  ASSUME NEW f, NEW c \in Contents
  PROVE  RowsRead(f, c) \in RowsOf(f)
  BY DEF RowsRead, RowsOf

(* Whatever make does to the file that is open.                            *)
LEMMA FollowedOpen ==
  ASSUME DiskTyped', OpenInv, FollowOpened, UNCHANGED visited
  PROVE  OpenInv'
<1>1. CASE opened = NotOpen
  <2>1. opened' = opened
    BY <1>1, NotOpenFields DEF FollowOpened
  <2>2. QED
    BY <1>1, <2>1 DEF OpenInv
<1>2. ASSUME NEW f \in Results \ visited, NEW rs \in RowsOf(f),
             NEW t \in BOOLEAN, NEW l \in BOOLEAN, opened = Handle(f, rs, t, l)
      PROVE  OpenInv'
  <2>1. opened.file = f /\ opened.rows = rs /\ opened.truncated = t
    BY <1>2, HandleFields
  <2>2. \/ opened' = opened
        \/ opened' = Handle(f, rs, t, FALSE)
        \/ opened' = Handle(f, RowsRead(f, disk'[f]), TRUE, TRUE)
    BY <2>1 DEF FollowOpened
  <2>3. RowsRead(f, disk'[f]) \in RowsOf(f)
    BY TextRows DEF DiskTyped, Files
  <2>4. QED
    BY <1>2, <2>2, <2>3 DEF OpenInv
<1>3. QED
  BY <1>1, <1>2 DEF OpenInv

LEMMA OpenStep ==
  ASSUME DiskTyped, DiskTyped', OpenInv, [Next]_vars
  PROVE  OpenInv'
<1>1. CASE MakeStep
  BY <1>1, FollowedOpen DEF MakeStep
<1>2. opened' = NotOpen => OpenInv'
  BY DEF OpenInv
<1>3. UNCHANGED <<opened, visited>> => OpenInv'
  BY DEF OpenInv
<1>4. CASE RemoveTable \/ Commit \/ ExportDies \/ Ingest \/ Abort
  BY <1>2, <1>4 DEF RemoveTable, Commit, ExportDies, Ingest, Abort, WalkEnds
<1>5. CASE CreateSchema
  BY <1>3, <1>5 DEF CreateSchema
<1>6. ASSUME NEW f \in Results, ReadDir(f)
      PROVE  OpenInv'
  BY <1>3, <1>6 DEF ReadDir
<1>7. ASSUME NEW f \in Results, PassBy(f)
      PROVE  OpenInv'
  BY <1>2, <1>7 DEF PassBy, Visits
<1>8. ASSUME NEW f \in Results, OpenResult(f)
      PROVE  OpenInv'
  <2>1. opened' = Handle(f, RowsRead(f, disk[f]), FALSE, TRUE)
    BY <1>8 DEF OpenResult
  <2>2. RowsRead(f, disk[f]) \in RowsOf(f)
    BY TextRows DEF DiskTyped, Files
  <2>3. f \in Results \ visited'
    BY <1>8 DEF OpenResult, Visits
  <2>4. QED
    BY <2>1, <2>2, <2>3 DEF OpenInv
<1>9. CASE UNCHANGED vars
  BY <1>3, <1>9 DEF vars, exportVars
<1>10. QED
  BY <1>1, <1>4, <1>5, <1>6, <1>7, <1>8, <1>9 DEF Next, ExportStep

LEMMA OpenedFile ==
  ASSUME OpenInv, opened # NotOpen
  PROVE  opened.file \in Results \ visited /\ opened.rows \in RowsOf(opened.file)
<1>1. PICK f \in Results \ visited :
        \E rs \in RowsOf(f), t, l \in BOOLEAN : opened = Handle(f, rs, t, l)
  BY DEF OpenInv
<1>2. PICK rs \in RowsOf(f), t \in BOOLEAN, l \in BOOLEAN : opened = Handle(f, rs, t, l)
  BY <1>1
<1>3. QED
  BY <1>2, HandleFields

LEMMA IngestKeepsOrigin ==
  ASSUME OpenInv, RunsInv, Ingest
  PROVE  RunsInv'
<1>1. PICK src : Origin(runs, src) /\ DOMAIN src \subseteq visited
  BY DEF RunsInv
<1> DEFINE f == opened.file
           rs == opened.rows
<1>2. f \in Results \ visited /\ rs \in RowsOf(f)
  BY OpenedFile DEF Ingest
<1> HIDE DEF f, rs
<1>3. PICK new \in {{}, rs} : ~Clash(new) /\ runs' = runs \cup new
  BY DEF Ingest, TextRead, rs
<1>4. f \notin visited /\ visited' = visited \cup {f}
  BY <1>2 DEF Ingest, f
<1>5. CASE new = {}
  <2>1. runs' = runs
    BY <1>3, <1>5
  <2>2. Origin(runs', src) /\ DOMAIN src \subseteq visited'
    BY <1>1, <1>4, <2>1
  <2>3. QED
    BY <2>2 DEF RunsInv
<1>6. CASE new # {}
  <2>1. PICK c \in Contents : new = RunsOf(f, c)
    BY <1>2, <1>3, <1>6 DEF RowsOf
  <2> DEFINE read == [g \in DOMAIN src \cup {f} |-> IF g = f THEN c ELSE src[g]]
  <2>2. f \notin DOMAIN src
    BY <1>1, <1>4
  <2>3. runs' = runs \cup RunsOf(f, c) /\ Ids(RunsOf(f, c)) \cap Ids(runs) = {}
    BY <1>3, <2>1 DEF Clash
  <2>4. /\ DOMAIN read = DOMAIN src \cup {f} /\ read[f] = c
        /\ \A g \in DOMAIN src : read[g] = src[g]
    BY <2>2
  <2> HIDE DEF read
  <2>5. DOMAIN read \subseteq Results /\ \A g \in DOMAIN read : read[g] \in Contents
    BY <1>1, <1>2, <2>1, <2>4 DEF Origin
  <2>6. runs' = UNION {RunsOf(g, read[g]) : g \in DOMAIN read}
    <3>1. runs = UNION {RunsOf(g, src[g]) : g \in DOMAIN src}
      BY <1>1 DEF Origin
    <3>2. QED
      BY <2>3, <2>4, <3>1
  <2>7. \A g \in DOMAIN src : Ids(RunsOf(g, src[g])) \subseteq Ids(runs)
    BY <1>1 DEF Origin, Ids
  <2>8. \A g, h \in DOMAIN read :
          g # h => Ids(RunsOf(g, read[g])) \cap Ids(RunsOf(h, read[h])) = {}
    <3> SUFFICES ASSUME NEW g \in DOMAIN read, NEW h \in DOMAIN read, g # h
                 PROVE  Ids(RunsOf(g, read[g])) \cap Ids(RunsOf(h, read[h])) = {}
      OBVIOUS
    <3>1. CASE g = f
      BY <2>3, <2>4, <2>7, <3>1
    <3>2. CASE h = f
      BY <2>3, <2>4, <2>7, <3>2
    <3>3. CASE g # f /\ h # f
      BY <1>1, <2>4, <3>3 DEF Origin
    <3>4. QED
      BY <3>1, <3>2, <3>3
  <2>9. Origin(runs', read)
    BY <2>5, <2>6, <2>8 DEF Origin
  <2>10. DOMAIN read \subseteq visited'
    BY <1>1, <1>4, <2>4
  <2>11. QED
    BY <2>9, <2>10 DEF RunsInv
<1>7. QED
  BY <1>5, <1>6

LEMMA LineageStep == LineageInv /\ [Next]_vars => LineageInv'
<1> SUFFICES ASSUME LineageInv, [Next]_vars PROVE RunsInv' /\ TableInv'
  BY DiskStep, MakeStepOrStutter, OpenStep DEF LineageInv
<1>1. UNCHANGED <<runs, visited>> => RunsInv'
  BY DEF LineageInv, RunsInv
<1>2. runs' = {} => RunsInv'
  BY NoOrigin DEF RunsInv
<1>3. UNCHANGED table => TableInv'
  BY DEF LineageInv, TableInv
<1>4. table'.runs = {} /\ table'.summary = {} => TableInv'
  BY NoOrigin DEF TableInv
<1>5. CASE MakeStep
  BY <1>1, <1>3, <1>5 DEF MakeStep
<1>6. CASE RemoveTable
  BY <1>2, <1>4, <1>6 DEF RemoveTable, NoTable, WalkEnds
<1>7. CASE CreateSchema
  <2>1. table'.runs = {} /\ table'.summary = {}
    BY <1>7 DEF CreateSchema, EmptyTable, NoTable
  <2>2. QED
    BY <1>1, <1>4, <1>7, <2>1 DEF CreateSchema
<1>8. CASE Commit
  <2>1. PICK src : Origin(runs, src)
    BY DEF LineageInv, RunsInv
  <2>2. table'.runs = FixLineage(runs) /\ table'.summary = Summary(table'.runs)
    BY <1>8 DEF Commit
  <2>3. TableInv'
    BY <2>1, <2>2 DEF TableInv
  <2>4. QED
    BY <1>2, <1>8, <2>3 DEF Commit, WalkEnds
<1>9. ASSUME NEW f \in Results, PassBy(f)
      PROVE  RunsInv' /\ TableInv'
  <2>1. RunsInv'
    BY <1>9 DEF LineageInv, RunsInv, PassBy
  <2>2. QED
    BY <1>3, <1>9, <2>1 DEF PassBy
<1>10. ASSUME NEW f \in Results, ReadDir(f) \/ OpenResult(f)
       PROVE  RunsInv' /\ TableInv'
  BY <1>1, <1>3, <1>10 DEF ReadDir, OpenResult
<1>11. CASE Ingest
  BY <1>3, <1>11, IngestKeepsOrigin DEF LineageInv, Ingest
<1>12. CASE Abort \/ ExportDies
  BY <1>2, <1>3, <1>12 DEF Abort, ExportDies, WalkEnds
<1>13. CASE UNCHANGED vars
  BY <1>1, <1>3, <1>13 DEF vars, exportVars
<1>14. QED
  BY <1>5, <1>6, <1>7, <1>8, <1>9, <1>10, <1>11, <1>12, <1>13 DEF Next, ExportStep

LEMMA LineageInvariance == Spec => []LineageInv
  BY LineageInit, LineageStep, PTL DEF Spec

-----------------------------------------------------------------------------
(* Every table a reader sees has a closed lineage: the parent of a run is  *)
(* the final run of the phase before or the pass before, and missing only  *)
(* where the phase before has no run; each file has one final run, and a   *)
(* summary leads from a refinement's first run to its final one            *)
(* (fix_lineage, populate_refinement_move_tables).                         *)
THEOREM LineageAlwaysClosed == Spec => []LineageClosed
<1>1. LineageInv => LineageClosed
  BY ParentsClosed, EndsSummarised DEF LineageInv, TableInv, LineageClosed
<1>2. QED
  BY <1>1, LineageInit, LineageStep, PTL DEF Spec

(* Rows appear all at once, after the walk over all results, and a failed  *)
(* or killed export shows none (walk_sol, BEGIN and COMMIT in main).       *)
THEOREM RowsAllAtOnce == Spec => AllAtOnce
<1> DEFINE A == table'.runs # table.runs =>
                  \/ table'.runs = {}
                  \/ /\ table.runs = {}
                     /\ visited = Results
                     /\ Ids(table'.runs) = Ids(runs)
<1>1. NoRowsYet /\ RunsInv /\ [Next]_vars => [A]_vars
  <2> SUFFICES ASSUME NoRowsYet, RunsInv, [Next]_vars PROVE A
    OBVIOUS
  <2>1. CASE RemoveTable
    BY <2>1 DEF RemoveTable, NoTable
  <2>2. CASE CreateSchema
    <3>1. table'.runs = {}
      BY <2>2 DEF CreateSchema, EmptyTable, NoTable
    <3>2. QED
      BY <3>1
  <2>3. CASE Commit
    <3>1. table'.runs = FixLineage(runs)
      BY <2>3 DEF Commit
    <3>2. \A r \in runs : "id" \in DOMAIN r
      BY RunsHaveIds DEF RunsInv, Origin
    <3>3. Ids(table'.runs) = Ids(runs)
      BY <3>1, <3>2, FixKeepsIds
    <3>4. table.runs = {} /\ visited = Results
      BY <2>3 DEF Commit, Walked, NoRowsYet
    <3>5. QED
      BY <3>3, <3>4
  <2>4. CASE UNCHANGED table
    BY <2>4
  <2>5. QED
    <3>1. MakeStep => UNCHANGED table
      BY DEF MakeStep
    <3>2. \A f \in Results : ReadDir(f) \/ PassBy(f) \/ OpenResult(f) => UNCHANGED table
      BY DEF ReadDir, PassBy, OpenResult
    <3>3. Ingest \/ Abort \/ ExportDies \/ UNCHANGED vars => UNCHANGED table
      BY DEF Ingest, Abort, ExportDies, vars, exportVars
    <3>4. QED
      BY <2>1, <2>2, <2>3, <2>4, <3>1, <3>2, <3>3 DEF Next, ExportStep
<1>2. LineageInv => RunsInv
  BY DEF LineageInv
<1>3. QED
  BY <1>1, <1>2, NoRowsInvariance, LineageInvariance, PTL DEF Spec, AllAtOnce

(* A file that claims a run of a file read before is a refinement, and has *)
(* the method and the limit of that file.                                  *)
LEMMA ClashOfRefinements ==
  ASSUME OpenInv, RunsInv, ClaimsTwice
  PROVE  /\ opened.file \in Refinements
         /\ \E r \in runs, q \in opened.rows : SameRefinement(r, q)
<1>1. PICK src : Origin(runs, src) /\ DOMAIN src \subseteq visited
  BY DEF RunsInv
<1> DEFINE f == opened.file
           rs == opened.rows
<1>2. f \in Results \ visited /\ rs \in RowsOf(f)
  BY OpenedFile DEF ClaimsTwice
<1> HIDE DEF f, rs
<1>3. PICK r \in runs, q \in rs : r.id = q.id
  BY DEF ClaimsTwice, Clash, Ids, rs
<1>4. PICK c \in Contents : rs = RunsOf(f, c)
  BY <1>2, <1>3 DEF RowsOf
<1>5. PICK i \in DOMAIN Keys(f, c) : q.id = RunId(f, c, Keys(f, c)[i])
  BY <1>3, <1>4 DEF RunsOf, Run
<1>6. PICK g \in DOMAIN src : r \in RunsOf(g, src[g])
  BY <1>1 DEF Origin
<1>7. PICK k \in DOMAIN Keys(g, src[g]) : r.id = RunId(g, src[g], Keys(g, src[g])[k])
  BY <1>6 DEF RunsOf, Run
<1>8. f.method = g.method /\ f.phase = g.phase
  BY <1>3, <1>5, <1>7 DEF RunId
<1>9. f # g /\ g \in Results
  BY <1>1, <1>2 DEF Origin
<1>10. f.phase = "refinement"
  <2> SUFFICES ASSUME f.phase # "refinement" PROVE FALSE
    OBVIOUS
  <2>1. f = Construction(f.method) \/ f = Segment(f.method)
    BY <1>2, ResultPhases
  <2>2. g = Construction(f.method) \/ g = Segment(f.method)
    BY <1>8, <1>9, ResultPhases
  <2>3. QED
    BY <1>8, <1>9, <2>1, <2>2 DEF Construction, Segment, File
<1>11. f \in Refinements
  BY <1>2, <1>10, ResultPhases
<1>12. SameRefinement(r, q)
  BY <1>3 DEF SameRefinement
<1>13. QED
  BY <1>3, <1>11, <1>12 DEF f, rs

(* Unless a result is removed between its name and its opening or cut off  *)
(* between its size and its reading, an export fails only when two         *)
(* refinements of a method have one limit (read_file, the primary key of   *)
(* runs): no other two files, and no two solutions of a file, ever claim   *)
(* the same run.                                                           *)
THEOREM ClashOnlyOfLimits == Spec => FailsOnlyOnClash
<1> DEFINE A == export' = "failed" /\ export # "failed" =>
                  \/ opened = NotOpen /\ \E f \in named : ~Present(f)
                  \/ opened.truncated
                  \/ /\ opened.file \in Refinements
                     /\ \E r \in runs, q \in opened.rows : SameRefinement(r, q)
<1>1. LineageInv /\ [Next]_vars => [A]_vars
  <2> SUFFICES ASSUME LineageInv, [Next]_vars, export' = "failed", export # "failed"
               PROVE  A
    OBVIOUS
  <2>1. Abort
    <3>1. ~MakeStep /\ ~RemoveTable /\ ~ExportDies /\ ~UNCHANGED vars
      BY DEF MakeStep, RemoveTable, ExportDies, vars, exportVars
    <3>2. ~CreateSchema /\ ~Commit /\ ~Ingest
      BY DEF CreateSchema, Commit, Ingest
    <3>3. \A f \in Results : ~ReadDir(f) /\ ~PassBy(f) /\ ~OpenResult(f)
      BY DEF ReadDir, PassBy, OpenResult
    <3>4. QED
      BY <3>1, <3>2, <3>3 DEF Next, ExportStep
  <2>2. CASE \E f \in Results : IsGone(f)
    BY <2>2 DEF IsGone, Visits
  <2>3. CASE ShortRead
    BY <2>3 DEF ShortRead
  <2>4. CASE ClaimsTwice
    BY <2>4, ClashOfRefinements DEF LineageInv
  <2>5. QED
    BY <2>1, <2>2, <2>3, <2>4 DEF Abort
<1>2. QED
  BY <1>1, LineageInvariance, PTL DEF Spec, FailsOnlyOnClash
=============================================================================
