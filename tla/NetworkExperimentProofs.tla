----------------------- MODULE NetworkExperimentProofs -----------------------
(***************************************************************************)
(* Proofs about the offline network experiment: the plan and the run agree *)
(* on what goes through the gates, what a computed manifest says is what   *)
(* its run left in the directory, and a reused manifest is of the inputs   *)
(* the gates have just found.                                              *)
(***************************************************************************)
EXTENDS NetworkExperiment, SequenceTheorems, TLAPS

-----------------------------------------------------------------------------
(* The inductive invariant.                                                 *)
Early == {"admit", "gate", "blocking", "blocked", "static", "dry"}
Reporting == {"metrics", "validation", "residuals", "experiments", "experiments rows",
              "matrix", "matrix rows", "eligibility", "comparison", "manifest"}
WithMetrics == Reporting \ {"metrics"}
WithResiduals == WithMetrics \ {"validation", "residuals"}
WithMatrix == {"eligibility", "comparison", "manifest"}

Pairs == Stations \X Stations
Fields == {"manifest", "validation", "metrics", "static", "baseline", "residuals"}
BaselineFiles == [solution : [by : Nat, good : BOOLEAN], epochs : Nat, metrics : Nat]

\* A directory has its six files, and one directory of a baseline for each pair of stations.
Shaped ==
  /\ DOMAIN dir = Ids
  /\ \A i \in Ids : /\ DOMAIN dir[i] = Fields
                    /\ dir[i].baseline \in [Pairs -> BaselineFiles]

Placed ==
  /\ pc \in {"idle", "pool"} \cup Early \cup Reporting
  /\ job.def \in Definitions
  /\ runs \in Nat
  /\ pc # "idle" => runs # 0
  /\ pc # "pool" => taken = {} /\ finished = << >>

\* No baseline's metrics are of a run to come, nor of this one before its pool.
Past ==
  \A i \in Ids, p \in Pairs :
    /\ dir[i].baseline[p].metrics <= runs
    /\ pc \in Early => dir[i].baseline[p].metrics < runs

\* What an outcome says of the baseline's directory.
Tells(outcome, files, run) ==
  /\ outcome = "COMPLETE" <=> files.metrics = run
  /\ outcome = "COMPLETE" => files.epochs = files.solution.by /\ files.epochs # 0

Entries == [ref : Stations, outcome : Outcomes]

\* Each baseline ends once, and those that have not ended wrote no metrics in this run.
PoolInv ==
  pc = "pool" =>
    /\ taken \subseteq References(def)
    /\ finished \in Seq(Entries)
    /\ \A k \in DOMAIN finished : finished[k].ref \in taken
    /\ \A k, l \in DOMAIN finished : finished[k].ref = finished[l].ref => k = l
    /\ \A k \in DOMAIN finished, r \in References(def) :
         finished[k].ref = r => Tells(finished[k].outcome, Baseline(r), runs)
    /\ \A r \in References(def) \ Ended : Baseline(r).metrics < runs

OwnRows(rows) == {row \in rows : row.id = def.id}
RowsOf(outcomes) ==
  {[id |-> def.id, baseline |-> r, test |-> def.test, outcome |-> outcomes[r]] : r \in References(def)}

\* What is written after the pool, each file from the phase that follows it on.
ReportInv ==
  /\ pc \in Reporting =>
       /\ results \in [References(def) -> Outcomes]
       /\ \A r \in References(def) : Tells(results[r], Baseline(r), runs)
  /\ pc \in WithMetrics => Directory.metrics = [by |-> runs, complete |-> Complete]
  /\ pc \in WithResiduals => Directory.residuals = ResidualRows
  /\ pc = "matrix rows" => OwnRows(held) = RowsOf(results)
  /\ pc \in WithMatrix => OwnRows(matrix) = RowsOf(results)
  /\ answer.kind = "computed" => pc = "idle"

OutputInv == Placed /\ Shaped /\ Past /\ PoolInv /\ ReportInv /\ OutputsFollow

\* The print of an experiment that went through its gates determines what they found.
Determines(fp, admission, distances, w, d) ==
  /\ fp.admission = admission /\ fp.matrix = distances
  /\ fp.overlap = <<w.start, w.end, w.expected>>
  /\ fp.definition.refs = References(d) /\ fp.definition.test = d.test
  /\ DOMAIN fp # {"blocked", "id"}
  /\ w = [ok |-> TRUE, reason |-> "", start |-> w.start, end |-> w.end, expected |-> w.expected]

Stands(m) ==
  \/ m = NoFile
  \/ m.status = "BLOCKED" /\ DOMAIN m.print = {"blocked", "id"}
  \/ m.status # "BLOCKED" /\ Determines(m.print, m.admission, m.matrix, m.window, m.definition)

Computing == {"static", "dry", "pool"} \cup Reporting

ReuseInv ==
  /\ \A i \in Ids : Stands(dir[i].manifest)
  /\ pc \in {"blocking", "blocked"} => DOMAIN print = {"blocked", "id"}
  /\ pc \in Computing =>
       Determines(print, AdmissionFingerprint(adm), geo.matrix, window, def)
  /\ answer.kind = "reused" => pc = "idle"

CacheInv == Placed /\ Shaped /\ ReuseInv /\ ReuseCurrent
-----------------------------------------------------------------------------
(* The gates, written twice.                                                *)

\* What lets a definition through the run's gates, reason by reason.
LEMMA GoIs ==
  ASSUME NEW d, NEW a, NEW present, NEW rows, NEW nav
  PROVE  RunGate(d, a, present, rows, nav) = "go" <=>
           /\ Problems(d) = {}
           /\ Wanted(d) \subseteq Admitted(a)
           /\ ~(Len(d.refs) < d.min)
           /\ Geometry(d, present, rows).ok
           /\ CommonWindow(Restricted(a.sessions, Wanted(d))).ok
           /\ nav # {}
  BY DEF RunGate

LEMMA ValidatedIs ==
  ASSUME NEW d, NEW day, NEW present, NEW rows
  PROVE  ValidateExperiment(d, day, present, rows) = "VALIDATED" <=>
           /\ Problems(d) = {}
           /\ Wanted(d) \subseteq Admitted(AdmitDay(day, d.diagnostic)) \/ d.diagnostic
           /\ ~(Len(d.refs) < d.min)
           /\ Geometry(d, present, rows).ok
           /\ CommonWindow(Restricted(AdmitDay(day, d.diagnostic).sessions, Wanted(d))).ok
  BY DEF ValidateExperiment, PlanExperiment

LEMMA NamesNavigation ==
  ASSUME NEW d, Problems(d) = {}
  PROVE  d.nav # {}
<1> SUFFICES ASSUME d.nav = {}
             PROVE  "navigation" \in Problems(d)
  OBVIOUS
<1> QED
  BY DEF Problems

\* validate_experiment and run_experiment write the gates twice, and agree: a run
\* goes through only what is validated, and what is validated, unless diagnostic,
\* runs once the navigation files it names are there (runner.py).
THEOREM PlanAndRunAgree == Spec => []PlanPredictsRun
<1>1. PlanPredictsRun
  <2> SUFFICES ASSUME NEW d \in Definitions
               PROVE  LET verdict == ValidateExperiment(d, qc, coords.present, coords.rows)
                          gate == RunGate(d, AdmitDay(qc, d.diagnostic), coords.present,
                                          coords.rows, d.nav)
                      IN  /\ gate = "go" => verdict = "VALIDATED"
                          /\ verdict = "VALIDATED" /\ ~d.diagnostic => gate = "go"
    BY DEF PlanPredictsRun
  <2> DEFINE a == AdmitDay(qc, d.diagnostic)
             gate == RunGate(d, a, coords.present, coords.rows, d.nav)
             verdict == ValidateExperiment(d, qc, coords.present, coords.rows)
  <2>1. gate = "go" => verdict = "VALIDATED"
    BY GoIs, ValidatedIs
  <2>2. verdict = "VALIDATED" /\ ~d.diagnostic => gate = "go"
    BY GoIs, ValidatedIs, NamesNavigation
  <2> QED
    BY <2>1, <2>2
<1> QED
  BY <1>1, PTL

-----------------------------------------------------------------------------
(* What a step leaves of the directories.                                   *)

LEMMA DefinitionTyped ==
  ASSUME NEW d \in Definitions
  PROVE  /\ d.id \in Ids /\ d.test \in Stations
         /\ References(d) \subseteq Stations
         /\ \A r \in References(d) : <<r, d.test>> \in Pairs
<1>1. d.refs \in Seq(Stations) /\ d.test \in Stations
  BY ExperimentAssumption
<1>2. d.id \in Ids
  BY DEF Ids
<1>3. References(d) \subseteq Stations
  BY <1>1 DEF References
<1> QED
  BY <1>1, <1>2, <1>3 DEF Pairs

\* One file of the experiment's directory is replaced, no baseline's.
LEMMA WriteOne ==
  ASSUME Placed, Shaped,
         NEW file \in Fields \ {"baseline"}, NEW value, Write(file, value)
  PROVE  /\ Shaped'
         /\ dir'[def.id][file] = value
         /\ \A f \in Fields \ {file} : dir'[def.id][f] = dir[def.id][f]
         /\ \A i \in Ids \ {def.id} : dir'[i] = dir[i]
         /\ \A i \in Ids : dir'[i].baseline = dir[i].baseline
<1>1. def.id \in Ids
  BY DefinitionTyped DEF Placed, def
<1>2. /\ DOMAIN dir' = Ids
      /\ \A i \in Ids \ {def.id} : dir'[i] = dir[i]
      /\ dir'[def.id] = [dir[def.id] EXCEPT ![file] = value]
  BY <1>1 DEF Write, Shaped
<1>3. DOMAIN dir[def.id] = Fields
  BY <1>1 DEF Shaped
<1>4. /\ DOMAIN dir'[def.id] = Fields
      /\ dir'[def.id][file] = value
      /\ \A f \in Fields \ {file} : dir'[def.id][f] = dir[def.id][f]
  BY <1>2, <1>3
<1>5. dir'[def.id].baseline = dir[def.id].baseline
  BY <1>4 DEF Fields
<1>6. \A i \in Ids : dir'[i].baseline = dir[i].baseline
  BY <1>2, <1>5
<1>7. Shaped'
  BY <1>2, <1>4, <1>6 DEF Shaped
<1> QED
  BY <1>2, <1>4, <1>6, <1>7

LEMMA PlacedStep ==
  ASSUME Placed, [Next]_vars
  PROVE  Placed'
<1>1. CASE \E d \in Definitions, dry \in BOOLEAN : Begin(d, dry)
  BY <1>1 DEF Placed, Begin, Return, Early, pool
<1>2. CASE Admit \/ Gate \/ BlockNotes \/ BlockManifest
  BY <1>2 DEF Placed, Admit, Gate, BlockNotes, BlockManifest, Return, Early, pool, bounds
<1>3. CASE WriteStatic \/ DryRun
  BY <1>3 DEF Placed, WriteStatic, DryRun, Return, Early, pool, bounds
<1>4. CASE (\E r \in Stations : Take(r)) \/ (\E r \in Stations, a \in ToolAnswers : Execute(r, a))
  BY <1>4 DEF Placed, Take, Execute, bounds
<1>5. CASE Join \/ WriteMetrics \/ WriteValidation \/ WriteResiduals
  BY <1>5 DEF Placed, Join, WriteMetrics, WriteValidation, WriteResiduals, Reporting, pool, bounds
<1>6. CASE OpenExperiments \/ WriteExperiments \/ OpenMatrix \/ WriteMatrix
  BY <1>6 DEF Placed, OpenExperiments, WriteExperiments, OpenMatrix, WriteMatrix, Reporting, pool,
              bounds
<1>7. CASE WriteEligibility \/ AppendComparison \/ WriteManifest
  BY <1>7 DEF Placed, WriteEligibility, AppendComparison, WriteManifest, Return, Reporting, pool,
              bounds
<1>8. CASE Crash
  BY <1>8 DEF Placed, Crash
<1>9. CASE Change
  BY <1>9 DEF Placed, Change, pool
<1>10. CASE UNCHANGED vars
  BY <1>10 DEF Placed, vars, pool, bounds
<1> QED
  BY <1>1, <1>2, <1>3, <1>4, <1>5, <1>6, <1>7, <1>8, <1>9, <1>10 DEF Next

\* What a baseline's process leaves: metrics of this run exactly when it completed.
LEMMA LeavesTyped ==
  ASSUME Placed, Shaped, NEW r \in Stations, NEW a \in ToolAnswers,
         <<r, def.test>> \in Pairs, runs \in Nat \ {0}
  PROVE  LET solution == Solution(a, r)
             outcome == BaselineOutcome(a, solution)
             left == Leaves(r, solution, outcome)
         IN  /\ left \in BaselineFiles /\ outcome \in Outcomes
             /\ outcome = "COMPLETE" => /\ left.metrics = runs
                                        /\ left.epochs = left.solution.by /\ left.epochs # 0
             /\ outcome # "COMPLETE" => left.metrics = Baseline(r).metrics
<1> DEFINE solution == Solution(a, r)
           outcome == BaselineOutcome(a, solution)
           left == Leaves(r, solution, outcome)
<1>1. Baseline(r) \in BaselineFiles
  BY DefinitionTyped DEF Placed, Shaped, Baseline, Directory, def
<1>2. solution \in [by : Nat, good : BOOLEAN]
  <2>1. a.leaves \in {"solution", "unusable", "untouched"}
    BY DEF ToolAnswers
  <2>2. CASE a.leaves = "solution"
    BY <2>2 DEF Solution
  <2>3. CASE a.leaves = "unusable"
    BY <2>3 DEF Solution
  <2>4. CASE a.leaves = "untouched"
    BY <1>1, <2>4 DEF Solution, BaselineFiles
  <2> QED
    BY <2>1, <2>2, <2>3, <2>4
<1>3. outcome \in Outcomes
  BY DEF BaselineOutcome, Outcomes
<1>4. outcome = "COMPLETE" => solution.by # 0
  BY DEF BaselineOutcome, Parsed
<1>5. CASE outcome = "COMPLETE"
  <2>1. left = [solution |-> solution, epochs |-> solution.by, metrics |-> runs]
    BY <1>5 DEF Leaves
  <2> QED
    BY <1>2, <1>3, <1>4, <1>5, <2>1 DEF BaselineFiles
<1>6. CASE outcome # "COMPLETE"
  <2>1. left = [Baseline(r) EXCEPT !.solution = solution]
    BY <1>6 DEF Leaves
  <2> QED
    BY <1>1, <1>2, <1>3, <1>6, <2>1 DEF BaselineFiles
<1> QED
  BY <1>5, <1>6

LEMMA ExecuteOne ==
  ASSUME Placed, Shaped, NEW r \in Stations, NEW a \in ToolAnswers, Execute(r, a),
         r \in References(def), runs # 0
  PROVE  LET outcome == BaselineOutcome(a, Solution(a, r))
         IN  /\ Shaped'
             /\ \A i \in Ids, f \in Fields \ {"baseline"} : dir'[i][f] = dir[i][f]
             /\ \A i \in Ids, p \in Pairs :
                  i # def.id \/ p # <<r, def.test>> => dir'[i].baseline[p] = dir[i].baseline[p]
             /\ dir'[def.id].baseline[<<r, def.test>>] = Leaves(r, Solution(a, r), outcome)
<1> DEFINE left == Leaves(r, Solution(a, r), BaselineOutcome(a, Solution(a, r)))
           pair == <<r, def.test>>
<1>1. def.id \in Ids /\ pair \in Pairs /\ def \in Definitions
  BY DefinitionTyped DEF Placed, def
<1>2. left \in BaselineFiles
  BY <1>1, LeavesTyped DEF Placed
<1>3. /\ DOMAIN dir' = Ids
      /\ \A i \in Ids \ {def.id} : dir'[i] = dir[i]
      /\ dir'[def.id] = [dir[def.id] EXCEPT !.baseline[pair] = left]
  BY <1>1 DEF Execute, Shaped
<1>4. DOMAIN dir[def.id] = Fields /\ dir[def.id].baseline \in [Pairs -> BaselineFiles]
  BY <1>1 DEF Shaped
<1>5. /\ DOMAIN dir'[def.id] = Fields
      /\ dir'[def.id].baseline = [dir[def.id].baseline EXCEPT ![pair] = left]
      /\ \A f \in Fields \ {"baseline"} : dir'[def.id][f] = dir[def.id][f]
  BY <1>3, <1>4 DEF Fields
<1>6. /\ dir'[def.id].baseline \in [Pairs -> BaselineFiles]
      /\ dir'[def.id].baseline[pair] = left
      /\ \A p \in Pairs \ {pair} : dir'[def.id].baseline[p] = dir[def.id].baseline[p]
  BY <1>1, <1>2, <1>4, <1>5
<1>7. Shaped'
  BY <1>3, <1>5, <1>6 DEF Shaped
<1> QED
  BY <1>3, <1>5, <1>6, <1>7

\* A kill may leave solutions behind, and touches nothing else.
LEMMA CrashKeeps ==
  ASSUME Placed, Shaped, Crash
  PROVE  /\ Shaped'
         /\ \A i \in Ids, f \in Fields \ {"baseline"} : dir'[i][f] = dir[i][f]
         /\ \A i \in Ids, p \in Pairs : dir'[i].baseline[p].metrics = dir[i].baseline[p].metrics
<1>1. def.id \in Ids /\ runs \in Nat
  BY DefinitionTyped DEF Placed, def
<1>2. PICK left \in SUBSET (IF pc = "pool" THEN Running ELSE {}), good \in BOOLEAN :
        dir' = [dir EXCEPT ![def.id].baseline =
                  [p \in DOMAIN @ |->
                     IF p \in left \X {def.test}
                     THEN [@[p] EXCEPT !.solution = [by |-> runs, good |-> good]] ELSE @[p]]]
  BY DEF Crash
<1> DEFINE old == dir[def.id].baseline
           new == [p \in DOMAIN old |->
                     IF p \in left \X {def.test}
                     THEN [old[p] EXCEPT !.solution = [by |-> runs, good |-> good]] ELSE old[p]]
<1>3. /\ DOMAIN dir' = Ids
      /\ \A i \in Ids \ {def.id} : dir'[i] = dir[i]
      /\ dir'[def.id] = [dir[def.id] EXCEPT !.baseline = new]
  BY <1>1, <1>2 DEF Shaped
<1>4. DOMAIN dir[def.id] = Fields /\ old \in [Pairs -> BaselineFiles]
  BY <1>1 DEF Shaped
<1>5. \A p \in Pairs : new[p] \in BaselineFiles /\ new[p].metrics = old[p].metrics
  <2> SUFFICES ASSUME NEW p \in Pairs
               PROVE  new[p] \in BaselineFiles /\ new[p].metrics = old[p].metrics
    OBVIOUS
  <2>1. old[p] \in BaselineFiles
    BY <1>4
  <2>2. [old[p] EXCEPT !.solution = [by |-> runs, good |-> good]] \in BaselineFiles
    BY <1>1, <2>1 DEF BaselineFiles
  <2>3. [old[p] EXCEPT !.solution = [by |-> runs, good |-> good]].metrics = old[p].metrics
    BY <2>1 DEF BaselineFiles
  <2> QED
    BY <1>4, <2>1, <2>2, <2>3
<1>6. new \in [Pairs -> BaselineFiles]
  BY <1>4, <1>5
<1>7. /\ DOMAIN dir'[def.id] = Fields /\ dir'[def.id].baseline = new
      /\ \A f \in Fields \ {"baseline"} : dir'[def.id][f] = dir[def.id][f]
  BY <1>3, <1>4 DEF Fields
<1>8. Shaped'
  BY <1>3, <1>6, <1>7 DEF Shaped
<1>9. \A i \in Ids, f \in Fields \ {"baseline"} : dir'[i][f] = dir[i][f]
  BY <1>3, <1>7
<1>10. \A p \in Pairs : dir'[def.id].baseline[p].metrics = old[p].metrics
  BY <1>5, <1>7
<1>11. \A i \in Ids, p \in Pairs : dir'[i].baseline[p].metrics = dir[i].baseline[p].metrics
  BY <1>3, <1>10
<1> QED
  BY <1>8, <1>9, <1>11

\* No other step touches a baseline's directory.
LEMMA BaselinesStep ==
  ASSUME Placed, Shaped, [Next]_vars
  PROVE  \/ Shaped' /\ \A i \in Ids : dir'[i].baseline = dir[i].baseline
         \/ \E r \in Stations, a \in ToolAnswers : Execute(r, a)
         \/ Crash
<1> DEFINE Kept == Shaped' /\ \A i \in Ids : dir'[i].baseline = dir[i].baseline
<1>1. ASSUME dir' = dir
      PROVE  Kept
  BY <1>1 DEF Shaped
<1>2. ASSUME NEW file \in Fields \ {"baseline"}, NEW value, Write(file, value)
      PROVE  Kept
  BY <1>2, WriteOne
<1>3. CASE \E d \in Definitions, dry \in BOOLEAN : Begin(d, dry)
  BY <1>1, <1>3 DEF Begin
<1>4. CASE Admit \/ Gate
  BY <1>1, <1>4 DEF Admit, Gate
<1>5. CASE BlockNotes
  BY <1>2, <1>5 DEF BlockNotes, Fields
<1>6. CASE BlockManifest
  BY <1>2, <1>6 DEF BlockManifest, Fields
<1>7. CASE WriteStatic
  BY <1>2, <1>7 DEF WriteStatic, Fields
<1>8. CASE DryRun
  <2>1. def.id \in Ids
    BY DefinitionTyped DEF Placed, def
  <2>2. /\ DOMAIN dir' = Ids
        /\ \A i \in Ids \ {def.id} : dir'[i] = dir[i]
        /\ DOMAIN dir'[def.id] = DOMAIN dir[def.id]
    BY <1>8, <2>1 DEF DryRun, Shaped
  <2>3. dir'[def.id].baseline = dir[def.id].baseline
    BY <1>8, <2>1 DEF DryRun, Shaped, Fields
  <2> QED
    BY <2>1, <2>2, <2>3 DEF Shaped
<1>9. CASE \E r \in Stations : Take(r)
  BY <1>1, <1>9 DEF Take
<1>10. CASE Join
  BY <1>1, <1>10 DEF Join
<1>11. CASE WriteMetrics
  BY <1>2, <1>11 DEF WriteMetrics, Fields
<1>12. CASE WriteValidation
  BY <1>2, <1>12 DEF WriteValidation, Fields
<1>13. CASE WriteResiduals
  BY <1>2, <1>13 DEF WriteResiduals, Fields
<1>14. CASE OpenExperiments \/ WriteExperiments \/ OpenMatrix \/ WriteMatrix
  BY <1>1, <1>14 DEF OpenExperiments, WriteExperiments, OpenMatrix, WriteMatrix
<1>15. CASE WriteEligibility \/ AppendComparison
  BY <1>1, <1>15 DEF WriteEligibility, AppendComparison
<1>16. CASE WriteManifest
  BY <1>2, <1>16 DEF WriteManifest, Fields
<1>17. CASE Change \/ UNCHANGED vars
  BY <1>1, <1>17 DEF Change, vars
<1> QED
  BY <1>3, <1>4, <1>5, <1>6, <1>7, <1>8, <1>9, <1>10, <1>11, <1>12, <1>13, <1>14, <1>15,
     <1>16, <1>17 DEF Next

\* A run is numbered when it begins, and its early phases follow from each other.
LEMMA PhaseStep ==
  ASSUME Placed, [Next]_vars
  PROVE  \/ \E d \in Definitions, dry \in BOOLEAN : Begin(d, dry)
         \/ runs' = runs /\ (pc' \in Early => pc \in Early)
<1>1. CASE Admit \/ Gate \/ BlockNotes \/ BlockManifest \/ WriteStatic \/ DryRun
  BY <1>1 DEF Admit, Gate, BlockNotes, BlockManifest, WriteStatic, DryRun, Return, Early, bounds
<1>2. CASE (\E r \in Stations : Take(r)) \/ (\E r \in Stations, a \in ToolAnswers : Execute(r, a))
  BY <1>2 DEF Take, Execute, bounds
<1>3. CASE Join \/ WriteMetrics \/ WriteValidation \/ WriteResiduals
  BY <1>3 DEF Join, WriteMetrics, WriteValidation, WriteResiduals, Early, bounds
<1>4. CASE OpenExperiments \/ WriteExperiments \/ OpenMatrix \/ WriteMatrix
  BY <1>4 DEF OpenExperiments, WriteExperiments, OpenMatrix, WriteMatrix, Early, bounds
<1>5. CASE WriteEligibility \/ AppendComparison \/ WriteManifest
  BY <1>5 DEF WriteEligibility, AppendComparison, WriteManifest, Return, Early, bounds
<1>6. CASE Crash \/ Change \/ UNCHANGED vars
  BY <1>6 DEF Crash, Change, vars, bounds, Early
<1> QED
  BY <1>1, <1>2, <1>3, <1>4, <1>5, <1>6 DEF Next

\* The pool knows its requests, and hands out what the definition names.
LEMMA Requested ==
  ASSUME Placed, PoolInv, NEW r \in Stations, NEW a \in ToolAnswers, Execute(r, a)
  PROVE  pc = "pool" /\ r \in References(def) /\ r \in Running /\ runs # 0
  BY DEF Placed, PoolInv, Execute, Running

LEMMA ShapedStep ==
  ASSUME Placed, Shaped, PoolInv, [Next]_vars
  PROVE  Shaped'
<1>1. ASSUME NEW r \in Stations, NEW a \in ToolAnswers, Execute(r, a)
      PROVE  Shaped'
  BY <1>1, Requested, ExecuteOne
<1> QED
  BY <1>1, BaselinesStep, CrashKeeps

LEMMA PastStep ==
  ASSUME Placed, Shaped, Past, PoolInv, [Next]_vars
  PROVE  Past'
<1>1. runs \in Nat /\ \A i \in Ids, p \in Pairs : dir[i].baseline[p].metrics \in Nat
  BY DEF Placed, Shaped, BaselineFiles
<1>2. CASE \E d \in Definitions, dry \in BOOLEAN : Begin(d, dry)
  BY <1>1, <1>2 DEF Begin, Past
<1>3. ASSUME NEW r \in Stations, NEW a \in ToolAnswers, Execute(r, a)
      PROVE  Past'
  <2> DEFINE outcome == BaselineOutcome(a, Solution(a, r))
             left == Leaves(r, Solution(a, r), outcome)
  <2>1. pc' = pc /\ runs' = runs /\ pc = "pool" /\ runs \in Nat \ {0} /\ r \in References(def)
    BY <1>1, <1>3, Requested DEF Execute
  <2>2. def.id \in Ids /\ <<r, def.test>> \in Pairs
    BY <2>1, DefinitionTyped DEF Placed, def
  <2>3. left.metrics = runs \/ left.metrics = Baseline(r).metrics
    BY <2>1, <2>2, LeavesTyped
  <2>4. left.metrics <= runs
    BY <1>1, <2>2, <2>3 DEF Past, Baseline, Directory
  <2>5. \A i \in Ids, p \in Pairs : dir'[i].baseline[p].metrics <= runs
    <3>1. dir'[def.id].baseline[<<r, def.test>>] = left
      BY <1>3, <2>1, ExecuteOne
    <3>2. \A i \in Ids, p \in Pairs :
            i # def.id \/ p # <<r, def.test>> => dir'[i].baseline[p] = dir[i].baseline[p]
      BY <1>3, <2>1, ExecuteOne
    <3> QED
      BY <2>1, <2>4, <3>1, <3>2 DEF Past
  <2> QED
    BY <2>1, <2>5 DEF Past, Early
<1>4. CASE Crash
  <2>1. pc' = "idle" /\ runs' = runs
    BY <1>4 DEF Crash
  <2> QED
    BY <1>4, <2>1, CrashKeeps DEF Past, Early
<1>5. CASE /\ \A i \in Ids : dir'[i].baseline = dir[i].baseline
           /\ runs' = runs /\ (pc' \in Early => pc \in Early)
  BY <1>5 DEF Past
<1> QED
  BY <1>2, <1>3, <1>4, <1>5, BaselinesStep, PhaseStep

-----------------------------------------------------------------------------
(* The pool, and what is reported of it.                                    *)

\* A file of the experiment's directory other than those of its baselines.
LEMMA SameBaselines ==
  ASSUME Placed, job' = job, \A i \in Ids : dir'[i].baseline = dir[i].baseline,
         NEW r \in References(def)
  PROVE  Baseline(r)' = Baseline(r)
<1>1. def.id \in Ids /\ def' = def
  BY DefinitionTyped DEF Placed, def
<1> QED
  BY <1>1 DEF Baseline, Directory

LEMMA EntryTyped ==
  ASSUME PoolInv, pc = "pool", NEW k \in DOMAIN finished
  PROVE  /\ finished[k].ref \in taken /\ finished[k].outcome \in Outcomes
         /\ finished[k].ref \in References(def)
<1>1. finished[k] \in Entries
  BY DEF PoolInv
<1> QED
  BY <1>1 DEF PoolInv, Entries

\* One more baseline ends.
LEMMA EndsPool ==
  ASSUME Placed, PoolInv, pc = "pool", pc' = "pool", job' = job, runs' = runs,
         taken \subseteq taken', taken' \subseteq References(def),
         NEW r \in Stations, r \in taken', r \notin Ended,
         NEW outcome \in Outcomes, Ends(r, outcome), Tells(outcome, Baseline(r)', runs),
         \A s \in References(def) \ {r} : Baseline(s)' = Baseline(s)
  PROVE  PoolInv'
<1> DEFINE n == Len(finished) + 1
           entry == [ref |-> r, outcome |-> outcome]
<1>1. finished \in Seq(Entries) /\ entry \in Entries /\ finished' = Append(finished, entry)
  BY DEF PoolInv, Entries, Ends
<1>2. /\ finished' \in Seq(Entries)
      /\ DOMAIN finished' = DOMAIN finished \cup {n} /\ n \notin DOMAIN finished
      /\ finished'[n] = entry
      /\ \A k \in DOMAIN finished : finished'[k] = finished[k]
  BY <1>1
<1>3. \A k \in DOMAIN finished : finished[k].ref # r
  BY DEF Ended
<1>4. def' = def /\ References(def)' = References(def)
  BY DEF def, References
<1>5. \A k \in DOMAIN finished' : finished'[k].ref \in taken'
  BY <1>2, EntryTyped
<1>6. \A k, l \in DOMAIN finished' : finished'[k].ref = finished'[l].ref => k = l
  BY <1>2, <1>3 DEF PoolInv
<1>7. \A k \in DOMAIN finished', s \in References(def) :
        finished'[k].ref = s => Tells(finished'[k].outcome, Baseline(s)', runs)
  <2> SUFFICES ASSUME NEW k \in DOMAIN finished', NEW s \in References(def), finished'[k].ref = s
               PROVE  Tells(finished'[k].outcome, Baseline(s)', runs)
    OBVIOUS
  <2>1. CASE k = n
    BY <1>2, <2>1
  <2>2. CASE k \in DOMAIN finished
    <3>1. s # r /\ finished'[k] = finished[k] /\ Tells(finished[k].outcome, Baseline(s), runs)
      BY <1>2, <1>3, <2>2 DEF PoolInv
    <3>2. Baseline(s)' = Baseline(s)
      BY <3>1
    <3> QED
      BY <3>1, <3>2
  <2> QED
    BY <1>2, <2>1, <2>2
<1>8. r \in Ended' /\ Ended \subseteq Ended'
  BY <1>2 DEF Ended
<1>9. \A s \in References(def)' \ Ended' : Baseline(s)'.metrics < runs'
  BY <1>4, <1>8 DEF PoolInv
<1> QED
  BY <1>2, <1>4, <1>5, <1>6, <1>7, <1>9 DEF PoolInv

LEMMA TakePool ==
  ASSUME Placed, Shaped, PoolInv, NEW r \in Stations, Take(r)
  PROVE  PoolInv'
<1>1. /\ pc = "pool" /\ pc' = "pool" /\ job' = job /\ dir' = dir /\ runs' = runs
      /\ taken' = taken \cup {r} /\ r \in References(def) \ taken
      /\ finished' = finished \/ Ends(r, "BLOCKED")
  BY DEF Take, NextRequest, bounds
<1>2. taken \subseteq taken' /\ taken' \subseteq References(def) /\ def' = def
  BY <1>1 DEF PoolInv, def
<1>3. r \notin Ended
  BY <1>1, EntryTyped DEF Ended
<1>4. \A s \in References(def) : Baseline(s)' = Baseline(s)
  BY <1>1, SameBaselines
<1>5. CASE finished' = finished
  <2>1. Ended' = Ended /\ References(def)' = References(def)
    BY <1>2, <1>5 DEF Ended
  <2>2. \A k \in DOMAIN finished', s \in References(def) :
          finished'[k].ref = s => Tells(finished'[k].outcome, Baseline(s)', runs)
    BY <1>1, <1>4, <1>5 DEF PoolInv
  <2>3. \A k \in DOMAIN finished' : finished'[k].ref \in taken'
    BY <1>1, <1>2, <1>5, EntryTyped
  <2>4. \A s \in References(def)' \ Ended' : Baseline(s)'.metrics < runs'
    BY <1>1, <1>4, <2>1 DEF PoolInv
  <2> QED
    BY <1>1, <1>2, <1>5, <2>1, <2>2, <2>3, <2>4 DEF PoolInv
<1>6. CASE Ends(r, "BLOCKED")
  <2>1. Baseline(r) \in BaselineFiles /\ Baseline(r).metrics < runs /\ runs \in Nat
    BY <1>1, <1>3, DefinitionTyped DEF PoolInv, Placed, Shaped, Baseline, Directory, def
  <2>2. Tells("BLOCKED", Baseline(r)', runs)
    BY <1>1, <1>4, <2>1 DEF Tells, BaselineFiles
  <2> QED
    BY <1>1, <1>2, <1>3, <1>4, <1>6, <2>2, EndsPool DEF Outcomes
<1> QED
  BY <1>1, <1>5, <1>6

LEMMA ExecutePool ==
  ASSUME Placed, Shaped, PoolInv, NEW r \in Stations, NEW a \in ToolAnswers, Execute(r, a)
  PROVE  PoolInv'
<1> DEFINE outcome == BaselineOutcome(a, Solution(a, r))
           left == Leaves(r, Solution(a, r), outcome)
<1>1. /\ pc = "pool" /\ pc' = "pool" /\ job' = job /\ runs' = runs /\ taken' = taken
      /\ runs \in Nat \ {0} /\ r \in References(def) /\ r \in taken /\ r \notin Ended
      /\ Ends(r, outcome)
  BY Requested DEF Execute, Running, Placed
<1>2. /\ def' = def /\ def.id \in Ids /\ <<r, def.test>> \in Pairs
      /\ taken \subseteq References(def)
  BY <1>1, DefinitionTyped DEF def, Placed, PoolInv
<1>3. Baseline(r)' = left
  <2>1. dir'[def.id].baseline[<<r, def.test>>] = left
    BY <1>1, ExecuteOne
  <2> QED
    BY <1>2, <2>1 DEF Baseline, Directory
<1>4. \A s \in References(def) \ {r} : Baseline(s)' = Baseline(s)
  <2>1. \A p \in Pairs : p # <<r, def.test>> => dir'[def.id].baseline[p] = dir[def.id].baseline[p]
    BY <1>1, <1>2, ExecuteOne
  <2>2. \A s \in References(def) \ {r} : <<s, def.test>> \in Pairs /\ <<s, def.test>> # <<r, def.test>>
    BY DefinitionTyped DEF Placed, def
  <2> QED
    BY <1>2, <2>1, <2>2 DEF Baseline, Directory
<1>5. Baseline(r) \in BaselineFiles /\ Baseline(r).metrics < runs
  BY <1>1, <1>2 DEF PoolInv, Shaped, Baseline, Directory
<1>6. /\ outcome \in Outcomes
      /\ outcome = "COMPLETE" => left.metrics = runs /\ left.epochs = left.solution.by /\ left.epochs # 0
      /\ outcome # "COMPLETE" => left.metrics = Baseline(r).metrics
  BY <1>1, <1>2, LeavesTyped
<1>7. Tells(outcome, left, runs)
  BY <1>1, <1>5, <1>6 DEF Tells, BaselineFiles
<1> QED
  BY <1>1, <1>2, <1>3, <1>4, <1>6, <1>7, EndsPool

LEMMA PoolStep ==
  ASSUME Placed, Shaped, Past, PoolInv, [Next]_vars
  PROVE  PoolInv'
<1>1. CASE \E d \in Definitions, dry \in BOOLEAN : Begin(d, dry)
  BY <1>1 DEF Begin, Return, PoolInv
<1>2. CASE Admit \/ Gate \/ BlockNotes \/ BlockManifest \/ DryRun
  BY <1>2 DEF Admit, Gate, BlockNotes, BlockManifest, DryRun, Return, PoolInv
<1>3. CASE WriteStatic
  <2>1. /\ pc = "static" /\ job' = job /\ runs' = runs /\ taken' = {} /\ finished' = << >>
        /\ def' = def /\ def.id \in Ids
    BY <1>3, DefinitionTyped DEF WriteStatic, Placed, pool, bounds, def
  <2>2. \A i \in Ids : dir'[i].baseline = dir[i].baseline
    BY <1>3, WriteOne DEF WriteStatic, Fields
  <2>3. \A r \in References(def) : <<r, def.test>> \in Pairs
    BY DefinitionTyped DEF Placed, def
  <2>4. \A r \in References(def) : Baseline(r).metrics < runs
    BY <2>1, <2>3 DEF Past, Early, Baseline, Directory
  <2>5. \A r \in References(def) : Baseline(r)' = Baseline(r)
    BY <2>1, <2>2, SameBaselines
  <2> QED
    BY <2>1, <2>4, <2>5 DEF PoolInv
<1>4. CASE \E r \in Stations : Take(r)
  BY <1>4, TakePool
<1>5. CASE \E r \in Stations, a \in ToolAnswers : Execute(r, a)
  BY <1>5, ExecutePool
<1>6. CASE Join \/ WriteMetrics \/ WriteValidation \/ WriteResiduals
  BY <1>6 DEF Join, WriteMetrics, WriteValidation, WriteResiduals, PoolInv
<1>7. CASE OpenExperiments \/ WriteExperiments \/ OpenMatrix \/ WriteMatrix
  BY <1>7 DEF OpenExperiments, WriteExperiments, OpenMatrix, WriteMatrix, PoolInv
<1>8. CASE WriteEligibility \/ AppendComparison \/ WriteManifest \/ Crash
  BY <1>8 DEF WriteEligibility, AppendComparison, WriteManifest, Crash, Return, PoolInv
<1>9. CASE Change \/ UNCHANGED vars
  BY <1>9 DEF Change, vars, pool, bounds, PoolInv, Ended, Baseline, Directory, def
<1> QED
  BY <1>1, <1>2, <1>3, <1>4, <1>5, <1>6, <1>7, <1>8, <1>9 DEF Next

\* The pool is joined: each outcome is the one its baseline ended with.
LEMMA JoinReports ==
  ASSUME Placed, Shaped, PoolInv, ReportInv, Join
  PROVE  ReportInv'
<1>1. /\ pc = "pool" /\ pc' = "metrics" /\ job' = job /\ runs' = runs /\ dir' = dir
      /\ answer' = answer /\ Ended = References(def) /\ results' = Collected
      /\ def' = def /\ References(def)' = References(def)
  BY DEF Join, bounds, def, References
<1>2. \A r \in References(def) :
        /\ results'[r] \in Outcomes
        /\ Tells(results'[r], Baseline(r), runs)
  <2> SUFFICES ASSUME NEW r \in References(def)
               PROVE  results'[r] \in Outcomes /\ Tells(results'[r], Baseline(r), runs)
    OBVIOUS
  <2> DEFINE k == CHOOSE j \in DOMAIN finished : finished[j].ref = r
  <2>1. \E j \in DOMAIN finished : finished[j].ref = r
    BY <1>1 DEF Ended
  <2>2. k \in DOMAIN finished /\ finished[k].ref = r
    BY <2>1
  <2>3. results'[r] = finished[k].outcome
    BY <1>1 DEF Collected
  <2> HIDE DEF k
  <2> QED
    BY <1>1, <2>2, <2>3, EntryTyped DEF PoolInv
<1>3. results' \in [References(def) -> Outcomes]
  <2>1. results' = [r \in References(def) |-> results'[r]]
    BY <1>1 DEF Collected
  <2> QED
    BY <1>2, <2>1
<1>4. \A r \in References(def) : Baseline(r)' = Baseline(r)
  BY <1>1 DEF Baseline, Directory, def
<1> QED
  BY <1>1, <1>2, <1>3, <1>4 DEF ReportInv, WithMetrics, WithResiduals, WithMatrix, Reporting

\* While the files are written, what is reported of the baselines stays true.
LEMMA StillReported ==
  ASSUME Placed, Shaped, ReportInv, pc \in Reporting,
         results' = results, job' = job, runs' = runs,
         \A i \in Ids : dir'[i].baseline = dir[i].baseline
  PROVE  /\ results' \in [References(def)' -> Outcomes]
         /\ \A r \in References(def)' : Tells(results'[r], Baseline(r)', runs')
         /\ def' = def /\ References(def)' = References(def) /\ Complete' = Complete
         /\ ResidualRows' = ResidualRows /\ RowsOf(results)' = RowsOf(results)
<1>1. def' = def /\ References(def)' = References(def)
  BY DEF def, References
<1>2. \A r \in References(def) : Baseline(r)' = Baseline(r)
  BY SameBaselines
<1>3. ResidualRows' = ResidualRows
  BY <1>1, <1>2 DEF ResidualRows
<1>4. Complete' = Complete /\ RowsOf(results)' = RowsOf(results)
  BY <1>1 DEF Complete, RowsOf
<1> QED
  BY <1>1, <1>2, <1>3, <1>4 DEF ReportInv

\* Everything a file of the report says is true of what is there when it is written.
LEMMA FileReports ==
  ASSUME Placed, Shaped, ReportInv,
         \/ WriteMetrics \/ WriteValidation \/ WriteResiduals
         \/ WriteEligibility \/ AppendComparison
  PROVE  ReportInv'
<1>1. /\ pc \in Reporting /\ pc' \in Reporting /\ pc' \notin {"metrics", "matrix rows"}
      /\ results' = results /\ job' = job /\ runs' = runs /\ matrix' = matrix /\ answer' = answer
  BY DEF WriteMetrics, WriteValidation, WriteResiduals, WriteEligibility, AppendComparison,
         Reporting, bounds, pool, summaries
<1>2. \A i \in Ids : dir'[i].baseline = dir[i].baseline
  BY WriteOne DEF WriteMetrics, WriteValidation, WriteResiduals, WriteEligibility,
                  AppendComparison, Fields
<1>3. def' = def /\ Complete' = Complete /\ ResidualRows' = ResidualRows
  BY <1>1, <1>2, StillReported
<1>4. CASE WriteMetrics
  <2>1. pc' = "validation" /\ Write("metrics", [by |-> runs, complete |-> Complete])
    BY <1>4 DEF WriteMetrics
  <2>2. Directory.metrics' = [by |-> runs, complete |-> Complete]
    BY <1>3, <2>1, WriteOne DEF Directory, Fields
  <2> QED
    BY <1>1, <1>2, <1>3, <2>1, <2>2, StillReported
    DEF ReportInv, WithMetrics, WithResiduals, WithMatrix, Reporting
<1>5. CASE WriteValidation
  <2>1. /\ pc = "validation" /\ pc' = "residuals"
        /\ Write("validation", [by |-> runs, verdict |-> Status])
    BY <1>5 DEF WriteValidation
  <2>2. Directory.metrics' = Directory.metrics
    BY <1>3, <2>1, WriteOne DEF Directory, Fields
  <2> QED
    BY <1>1, <1>2, <1>3, <2>1, <2>2, StillReported
    DEF ReportInv, WithMetrics, WithResiduals, WithMatrix, Reporting
<1>6. CASE WriteResiduals
  <2>1. pc = "residuals" /\ pc' = "experiments" /\ Write("residuals", ResidualRows)
    BY <1>6 DEF WriteResiduals
  <2>2. Directory.metrics' = Directory.metrics /\ Directory.residuals' = ResidualRows
    BY <1>3, <2>1, WriteOne DEF Directory, Fields
  <2> QED
    BY <1>1, <1>2, <1>3, <2>1, <2>2, StillReported
    DEF ReportInv, WithMetrics, WithResiduals, WithMatrix, Reporting
<1>7. CASE WriteEligibility \/ AppendComparison
  <2>1. /\ dir' = dir /\ pc \in WithMatrix /\ pc' \in WithMatrix
    BY <1>7 DEF WriteEligibility, AppendComparison, WithMatrix
  <2>2. Directory' = Directory /\ OwnRows(matrix)' = OwnRows(matrix)
    BY <1>1, <1>3, <2>1 DEF Directory, OwnRows
  <2> QED
    BY <1>1, <1>2, <1>3, <2>1, <2>2, StillReported
    DEF ReportInv, WithMetrics, WithResiduals, WithMatrix, Reporting
<1> QED
  BY <1>4, <1>5, <1>6, <1>7

\* The summaries are rewritten without the experiment's old rows.
LEMMA SummaryReports ==
  ASSUME Placed, Shaped, ReportInv,
         OpenExperiments \/ WriteExperiments \/ OpenMatrix \/ WriteMatrix
  PROVE  ReportInv'
<1>1. /\ pc \in Reporting /\ pc' \in Reporting /\ dir' = dir
      /\ pc \in WithResiduals /\ pc' \in WithResiduals
      /\ results' = results /\ job' = job /\ runs' = runs
      /\ answer' = answer /\ answer.kind # "computed"
  BY DEF OpenExperiments, WriteExperiments, OpenMatrix, WriteMatrix, WithResiduals, WithMetrics,
         Reporting, bounds, pool, ReportInv
<1>2. def' = def /\ Complete' = Complete /\ ResidualRows' = ResidualRows /\ Directory' = Directory
      /\ RowsOf(results)' = RowsOf(results)
  BY <1>1, StillReported DEF Directory
<1>3. CASE OpenExperiments \/ WriteExperiments
  <2>1. pc' \in {"experiments rows", "matrix"}
    BY <1>3 DEF OpenExperiments, WriteExperiments
  <2> QED
    BY <1>1, <1>2, <2>1, StillReported DEF ReportInv, WithMetrics, WithResiduals, WithMatrix
<1>4. CASE OpenMatrix
  <2>1. pc' = "matrix rows" /\ held' = Others(matrix) \cup RowsOf(results)
    BY <1>4 DEF OpenMatrix, MatrixRows, RowsOf
  <2>2. \A row \in RowsOf(results) : row.id = def.id
    BY DEF RowsOf
  <2>3. OwnRows(held)' = RowsOf(results)
    BY <1>2, <2>1, <2>2 DEF OwnRows, Others
  <2> QED
    BY <1>1, <1>2, <2>1, <2>3, StillReported DEF ReportInv, WithMetrics, WithResiduals, WithMatrix
<1>5. CASE WriteMatrix
  <2>1. pc = "matrix rows" /\ pc' = "eligibility" /\ matrix' = held
    BY <1>5 DEF WriteMatrix
  <2>2. OwnRows(matrix)' = RowsOf(results)
    BY <1>2, <2>1 DEF OwnRows, ReportInv
  <2> QED
    BY <1>1, <1>2, <2>1, <2>2, StillReported DEF ReportInv, WithMetrics, WithResiduals, WithMatrix
<1> QED
  BY <1>3, <1>4, <1>5

LEMMA NoAnswerKind == NoAnswer.kind = "none"
  BY DEF NoAnswer

LEMMA ReportStep ==
  ASSUME Placed, Shaped, PoolInv, ReportInv, [Next]_vars
  PROVE  ReportInv'
<1> USE DEF WithMetrics, WithResiduals, WithMatrix
<1>1. CASE \E d \in Definitions, dry \in BOOLEAN : Begin(d, dry)
  <2>1. PICK d \in Definitions, dry \in BOOLEAN : Begin(d, dry)
    BY <1>1
  <2>2. \/ pc' = "idle" /\ answer' = [kind |-> "raised", status |-> "invalid"]
        \/ pc' = "admit" /\ answer' = NoAnswer
    BY <2>1 DEF Begin, Return
  <2>3. pc' \in {"idle", "admit"} /\ answer'.kind # "computed"
    BY <2>2, NoAnswerKind
  <2> QED
    BY <2>3 DEF ReportInv, Reporting
<1>2. CASE Admit \/ Gate \/ BlockNotes \/ BlockManifest \/ WriteStatic \/ DryRun
  BY <1>2 DEF Admit, Gate, BlockNotes, BlockManifest, WriteStatic, DryRun, Return, ReportInv,
              Reporting
<1>3. CASE (\E r \in Stations : Take(r)) \/ (\E r \in Stations, a \in ToolAnswers : Execute(r, a))
  BY <1>3 DEF Take, Execute, ReportInv, Reporting
<1>4. CASE Join
  BY <1>4, JoinReports
<1>5. CASE WriteMetrics \/ WriteValidation \/ WriteResiduals \/ WriteEligibility \/ AppendComparison
  BY <1>5, FileReports
<1>6. CASE OpenExperiments \/ WriteExperiments \/ OpenMatrix \/ WriteMatrix
  BY <1>6, SummaryReports
<1>7. CASE WriteManifest \/ Crash
  BY <1>7 DEF WriteManifest, Crash, Return, NoAnswer, ReportInv, Reporting
<1>8. CASE Change \/ UNCHANGED vars
  <2>1. UNCHANGED <<pc, job, pool, dir, matrix, held, answer, runs>>
    BY <1>8 DEF Change, vars, summaries, bounds
  <2>2. /\ def' = def /\ References(def)' = References(def) /\ Directory' = Directory
        /\ \A r \in References(def) : Baseline(r)' = Baseline(r)
    BY <2>1 DEF Baseline, Directory, def, References
  <2>3. /\ Complete' = Complete /\ ResidualRows' = ResidualRows
        /\ RowsOf(results)' = RowsOf(results)
        /\ OwnRows(held)' = OwnRows(held) /\ OwnRows(matrix)' = OwnRows(matrix)
    BY <2>1, <2>2 DEF Complete, ResidualRows, RowsOf, OwnRows, pool
  <2> QED
    BY <2>1, <2>2, <2>3 DEF ReportInv, pool
<1> QED
  BY <1>1, <1>2, <1>3, <1>4, <1>5, <1>6, <1>7, <1>8 DEF Next

\* The gate raises, blocks, reuses, or lets the run go on.
LEMMA GateAnswers ==
  ASSUME Gate
  PROVE  /\ pc = "gate"
         /\ answer' = answer \/ answer'.kind \in {"raised", "reused"}
<1> DEFINE present == def.nav \cap navigation
           reason == RunGate(def, adm, coords.present, coords.rows, present)
<1> HIDE DEF reason
<1>1. CASE reason = "missing"
  <2>1. pc = "gate" /\ answer' = [kind |-> "raised", status |-> "missing"]
    BY <1>1 DEF Gate, Return, reason
  <2> QED
    BY <2>1
<1>2. CASE reason \notin {"go", "missing"}
  BY <1>2 DEF Gate, Return, reason
<1>3. CASE reason = "go"
  BY <1>3 DEF Gate, Return, reason
<1> QED
  BY <1>1, <1>2, <1>3

\* An answer stands until the next run begins.
LEMMA AnswerStep ==
  ASSUME ReportInv, ReuseInv, [Next]_vars
  PROVE  /\ answer'.kind = "computed" =>
              \/ WriteManifest
              \/ /\ answer' = answer /\ pc = "idle" /\ pc' = "idle"
                 /\ UNCHANGED <<job, dir, matrix, runs, adm, geo, window>>
         /\ answer'.kind = "reused" =>
              \/ Gate
              \/ /\ answer' = answer /\ pc = "idle" /\ pc' = "idle"
                 /\ UNCHANGED <<job, dir, matrix, runs, adm, geo, window>>
<1> DEFINE Same == UNCHANGED <<job, dir, matrix, runs, adm, geo, window>>
<1>1. answer.kind \in {"computed", "reused"} => pc = "idle"
  BY DEF ReportInv, ReuseInv
<1>2. CASE \E d \in Definitions, dry \in BOOLEAN : Begin(d, dry)
  <2>1. \/ answer' = [kind |-> "raised", status |-> "invalid"]
        \/ answer' = NoAnswer
    BY <1>2 DEF Begin, Return
  <2> QED
    BY <2>1, NoAnswerKind
<1>3. CASE Gate
  <2>1. pc = "gate" /\ \/ answer' = answer
                       \/ answer'.kind \in {"raised", "reused"}
    BY <1>3, GateAnswers
  <2> QED
    BY <1>1, <1>3, <2>1
<1>11. CASE WriteManifest
  BY <1>11 DEF WriteManifest, Return
<1>12. CASE Crash
  BY <1>12, NoAnswerKind DEF Crash
<1>4. CASE BlockManifest \/ DryRun
  BY <1>4 DEF BlockManifest, DryRun, Return
<1>5. CASE Admit \/ BlockNotes \/ WriteStatic
  BY <1>1, <1>5 DEF Admit, BlockNotes, WriteStatic
<1>6. CASE (\E r \in Stations : Take(r)) \/ (\E r \in Stations, a \in ToolAnswers : Execute(r, a))
  BY <1>1, <1>6 DEF Take, Execute
<1>7. CASE Join \/ WriteMetrics \/ WriteValidation \/ WriteResiduals
  BY <1>1, <1>7 DEF Join, WriteMetrics, WriteValidation, WriteResiduals
<1>8. CASE OpenExperiments \/ WriteExperiments \/ OpenMatrix \/ WriteMatrix
  BY <1>1, <1>8 DEF OpenExperiments, WriteExperiments, OpenMatrix, WriteMatrix
<1>9. CASE WriteEligibility \/ AppendComparison
  BY <1>1, <1>9 DEF WriteEligibility, AppendComparison
<1>10. CASE Change \/ UNCHANGED vars
  <2>1. answer' = answer /\ pc' = pc /\ Same
    BY <1>10 DEF Change, vars, gates, summaries, bounds
  <2> QED
    BY <1>1, <2>1
<1> QED
  BY <1>2, <1>3, <1>4, <1>5, <1>6, <1>7, <1>8, <1>9, <1>10, <1>11, <1>12 DEF Next

\* The rows of a baseline in the residual data set are those of its last epochs.
LEMMA ResidualsOf ==
  ASSUME NEW r \in References(def), Baseline(r).epochs # 0
  PROVE  {row \in ResidualRows : row.baseline = r} = {[baseline |-> r, of |-> Baseline(r).epochs]}
  BY DEF ResidualRows

LEMMA ManifestFollows ==
  ASSUME Placed, Shaped, ReportInv, WriteManifest
  PROVE  OutputsFollow'
<1> DEFINE m == [by |-> runs, status |-> Status, print |-> print, outcomes |-> results,
                 admission |-> AdmissionFingerprint(adm), matrix |-> geo.matrix,
                 window |-> window, definition |-> def]
<1>1. /\ pc = "manifest" /\ job' = job /\ runs' = runs /\ matrix' = matrix /\ Write("manifest", m)
      /\ def' = def /\ References(def)' = References(def)
  BY DEF WriteManifest, bounds, summaries, def, References
<1>2. /\ Directory'.manifest = m
      /\ Directory'.metrics = Directory.metrics /\ Directory'.residuals = Directory.residuals
  BY <1>1, WriteOne DEF Directory, Fields
<1>3. \A r \in References(def) : Baseline(r)' = Baseline(r)
  BY <1>1, WriteOne, SameBaselines DEF Fields
<1>4. /\ results \in [References(def) -> Outcomes]
      /\ \A r \in References(def) : Tells(results[r], Baseline(r), runs)
      /\ Directory.metrics = [by |-> runs, complete |-> Complete]
      /\ Directory.residuals = ResidualRows
      /\ OwnRows(matrix) = RowsOf(results)
  BY <1>1 DEF ReportInv, Reporting, WithMetrics, WithResiduals, WithMatrix
<1>5. m.by = runs /\ m.outcomes = results
  OBVIOUS
<1>6. Complete = {r \in References(def) : results[r] = "COMPLETE"}
  BY <1>4 DEF Complete
<1> HIDE DEF m
<1>7. ASSUME NEW r \in References(def)
      PROVE  /\ results[r] = "COMPLETE" <=> Baseline(r).metrics = runs
             /\ results[r] = "COMPLETE" =>
                  {row \in Directory.residuals : row.baseline = r}
                    = {[baseline |-> r, of |-> Baseline(r).solution.by]}
  BY <1>4, ResidualsOf DEF Tells
<1>8. {row \in matrix : row.id = def.id}
        = {[id |-> def.id, baseline |-> r, test |-> def.test, outcome |-> results[r]] :
             r \in References(def)}
  BY <1>4 DEF OwnRows, RowsOf
<1> QED
  BY <1>1, <1>2, <1>3, <1>4, <1>5, <1>6, <1>7, <1>8 DEF OutputsFollow

LEMMA OutputsStep ==
  ASSUME Placed, Shaped, ReportInv, ReuseInv, OutputsFollow, [Next]_vars
  PROVE  OutputsFollow'
<1>1. CASE WriteManifest
  BY <1>1, ManifestFollows
<1>2. CASE answer'.kind # "computed"
  BY <1>2 DEF OutputsFollow
<1>3. CASE answer' = answer /\ UNCHANGED <<job, dir, matrix, runs>>
  <2>1. def' = def /\ References(def)' = References(def) /\ Directory' = Directory
    BY <1>3 DEF Directory, def, References
  <2>2. \A r \in References(def) : Baseline(r)' = Baseline(r)
    BY <2>1 DEF Baseline
  <2> QED
    BY <1>3, <2>1, <2>2 DEF OutputsFollow
<1> QED
  BY <1>1, <1>2, <1>3, AnswerStep

-----------------------------------------------------------------------------
(* Reuse.                                                                   *)

\* A window that is found is all start, end and expected epochs.
LEMMA WindowFound ==
  ASSUME NEW sessions, CommonWindow(sessions).ok
  PROVE  LET w == CommonWindow(sessions)
         IN  w = [ok |-> TRUE, reason |-> "", start |-> w.start, end |-> w.end,
                  expected |-> w.expected]
  BY DEF CommonWindow, Blocked

LEMMA DeterminesIs ==
  ASSUME NEW g, NEW w, w = [ok |-> TRUE, reason |-> "", start |-> w.start, end |-> w.end,
                            expected |-> w.expected]
  PROVE  Determines(Fingerprint(g, w), AdmissionFingerprint(adm), g.matrix, w, def)
  BY DEF Determines, Fingerprint

\* Two things one print determines are the same.
LEMMA DeterminesOne ==
  ASSUME NEW fp, NEW a1, NEW a2, NEW m1, NEW m2, NEW w1, NEW w2, NEW d1, NEW d2,
         Determines(fp, a1, m1, w1, d1), Determines(fp, a2, m2, w2, d2)
  PROVE  /\ a1 = a2 /\ m1 = m2 /\ w1 = w2
         /\ References(d1) = References(d2) /\ d1.test = d2.test
<1>1. <<w1.start, w1.end, w1.expected>> = <<w2.start, w2.end, w2.expected>>
  BY DEF Determines
<1>2. w1.start = w2.start /\ w1.end = w2.end /\ w1.expected = w2.expected
  BY <1>1
<1>3. w1 = w2
  BY <1>2 DEF Determines
<1> QED
  BY <1>3 DEF Determines

\* What the gate decides.
LEMMA GateDecides ==
  ASSUME Gate
  PROVE  /\ pc = "gate" /\ UNCHANGED <<job, adm, dir>>
         /\ \/ pc' = "idle" /\ answer'.kind = "raised"
            \/ pc' = "blocking" /\ answer' = answer /\ DOMAIN print' = {"blocked", "id"}
            \/ /\ Determines(print', AdmissionFingerprint(adm), geo'.matrix, window', def)
               /\ \/ pc' = "static" /\ answer' = answer
                  \/ pc' = "idle" /\ answer'.kind = "reused" /\ Cached(print')
<1> DEFINE present == def.nav \cap navigation
           reason == RunGate(def, adm, coords.present, coords.rows, present)
           g == Geometry(def, coords.present, coords.rows)
           w == CommonWindow(Restricted(adm.sessions, Wanted(def)))
<1>1. pc = "gate" /\ UNCHANGED <<job, adm, dir>>
  BY DEF Gate
<1>2. reason = "go" => w.ok
  BY GoIs
<1>3. w.ok => w = [ok |-> TRUE, reason |-> "", start |-> w.start, end |-> w.end,
                   expected |-> w.expected]
  BY WindowFound
<1> HIDE DEF reason, g, w
<1>4. CASE reason = "missing"
  <2>1. pc' = "idle" /\ answer' = [kind |-> "raised", status |-> "missing"]
    BY <1>4 DEF Gate, Return, reason
  <2> QED
    BY <1>1, <2>1
<1>5. CASE reason \notin {"go", "missing"}
  <2>1. pc' = "blocking" /\ answer' = answer /\ print' = [blocked |-> reason, id |-> def.id]
    BY <1>5 DEF Gate, reason
  <2> QED
    BY <1>1, <2>1
<1>6. CASE reason = "go"
  <2>1. geo' = g /\ window' = w /\ print' = Fingerprint(g, w)
    BY <1>6 DEF Gate, reason, g, w
  <2>2. Determines(print', AdmissionFingerprint(adm), geo'.matrix, window', def)
    BY <1>2, <1>3, <1>6, <2>1, DeterminesIs
  <2>3. IF Cached(print')
        THEN pc' = "idle" /\ answer' = [kind |-> "reused", status |-> Directory.manifest.status]
        ELSE pc' = "static" /\ answer' = answer
    BY <1>6 DEF Gate, reason, Return
  <2>4. CASE Cached(print')
    <3>1. pc' = "idle" /\ answer' = [kind |-> "reused", status |-> Directory.manifest.status]
      BY <2>3, <2>4
    <3>2. answer'.kind = "reused"
      BY <3>1
    <3> QED
      BY <1>1, <2>2, <2>4, <3>1, <3>2
  <2>5. CASE ~Cached(print')
    BY <1>1, <2>2, <2>3, <2>5
  <2> QED
    BY <2>4, <2>5
<1> QED
  BY <1>4, <1>5, <1>6

\* Only the two manifest steps write a manifest.
LEMMA ManifestsStep ==
  ASSUME Placed, Shaped, PoolInv, [Next]_vars
  PROVE  \/ BlockManifest \/ WriteManifest
         \/ \A i \in Ids : dir'[i].manifest = dir[i].manifest
<1> DEFINE Kept == \A i \in Ids : dir'[i].manifest = dir[i].manifest
<1>1. ASSUME dir' = dir
      PROVE  Kept
  BY <1>1
<1>2. ASSUME NEW file \in Fields \ {"baseline", "manifest"}, NEW value, Write(file, value)
      PROVE  Kept
  <2>1. /\ \A i \in Ids \ {def.id} : dir'[i] = dir[i]
        /\ \A f \in Fields \ {file} : dir'[def.id][f] = dir[def.id][f]
    BY <1>2, WriteOne
  <2> QED
    BY <2>1 DEF Fields
<1>3. CASE \E d \in Definitions, dry \in BOOLEAN : Begin(d, dry)
  BY <1>1, <1>3 DEF Begin
<1>4. CASE Admit \/ Gate
  BY <1>1, <1>4 DEF Admit, Gate
<1>5. CASE BlockNotes
  BY <1>2, <1>5 DEF BlockNotes, Fields
<1>6. CASE WriteStatic
  BY <1>2, <1>6 DEF WriteStatic, Fields
<1>7. CASE DryRun
  <2>1. def.id \in Ids
    BY DefinitionTyped DEF Placed, def
  <2> QED
    BY <1>7, <2>1 DEF DryRun, Shaped, Fields
<1>8. CASE \E r \in Stations : Take(r)
  BY <1>1, <1>8 DEF Take
<1>9. ASSUME NEW r \in Stations, NEW a \in ToolAnswers, Execute(r, a)
      PROVE  Kept
  BY <1>9, Requested, ExecuteOne DEF Fields
<1>10. CASE Join
  BY <1>1, <1>10 DEF Join
<1>11. CASE WriteMetrics
  BY <1>2, <1>11 DEF WriteMetrics, Fields
<1>12. CASE WriteValidation
  BY <1>2, <1>12 DEF WriteValidation, Fields
<1>13. CASE WriteResiduals
  BY <1>2, <1>13 DEF WriteResiduals, Fields
<1>14. CASE OpenExperiments \/ WriteExperiments \/ OpenMatrix \/ WriteMatrix
  BY <1>1, <1>14 DEF OpenExperiments, WriteExperiments, OpenMatrix, WriteMatrix
<1>15. CASE WriteEligibility \/ AppendComparison
  BY <1>1, <1>15 DEF WriteEligibility, AppendComparison
<1>16. CASE Crash
  BY <1>16, CrashKeeps DEF Fields
<1>17. CASE Change \/ UNCHANGED vars
  BY <1>1, <1>17 DEF Change, vars
<1> QED
  BY <1>3, <1>4, <1>5, <1>6, <1>7, <1>8, <1>9, <1>10, <1>11, <1>12, <1>13, <1>14, <1>15,
     <1>16, <1>17 DEF Next

\* Past the gate, what it found stays with the run.
LEMMA ComputingStep ==
  ASSUME Placed, [Next]_vars
  PROVE  /\ pc' \in Computing =>
              Gate \/ (pc \in Computing /\ UNCHANGED <<job, adm, geo, window, print>>)
         /\ pc' \in {"blocking", "blocked"} =>
              Gate \/ (pc \in {"blocking", "blocked"} /\ print' = print)
<1> USE DEF Computing, Reporting
<1>1. CASE \E d \in Definitions, dry \in BOOLEAN : Begin(d, dry)
  BY <1>1 DEF Begin, Return
<1>2. CASE Admit \/ BlockNotes \/ BlockManifest \/ WriteStatic \/ DryRun
  BY <1>2 DEF Admit, BlockNotes, BlockManifest, WriteStatic, DryRun, Return, gates
<1>3. CASE (\E r \in Stations : Take(r)) \/ (\E r \in Stations, a \in ToolAnswers : Execute(r, a))
  BY <1>3 DEF Take, Execute, gates
<1>4. CASE Join \/ WriteMetrics \/ WriteValidation \/ WriteResiduals
  BY <1>4 DEF Join, WriteMetrics, WriteValidation, WriteResiduals, gates
<1>5. CASE OpenExperiments \/ WriteExperiments \/ OpenMatrix \/ WriteMatrix
  BY <1>5 DEF OpenExperiments, WriteExperiments, OpenMatrix, WriteMatrix, gates
<1>6. CASE WriteEligibility \/ AppendComparison \/ WriteManifest \/ Crash
  BY <1>6 DEF WriteEligibility, AppendComparison, WriteManifest, Crash, Return, gates
<1>7. CASE Change \/ UNCHANGED vars
  BY <1>7 DEF Change, vars, gates
<1>8. CASE Gate
  BY <1>8
<1> QED
  BY <1>1, <1>2, <1>3, <1>4, <1>5, <1>6, <1>7, <1>8 DEF Next

LEMMA ReuseStep ==
  ASSUME Placed, Shaped, PoolInv, ReportInv, ReuseInv, [Next]_vars
  PROVE  ReuseInv'
<1>1. \A i \in Ids : Stands(dir'[i].manifest)
  <2>1. CASE BlockManifest
    <3> DEFINE m == [by |-> runs, status |-> "BLOCKED", print |-> print]
    <3>1. pc = "blocked" /\ Write("manifest", m)
      BY <2>1 DEF BlockManifest
    <3>2. Stands(m)
      BY <3>1 DEF ReuseInv, Stands
    <3> HIDE DEF m
    <3> QED
      BY <3>1, <3>2, WriteOne DEF ReuseInv, Fields
  <2>2. CASE WriteManifest
    <3> DEFINE m == [by |-> runs, status |-> Status, print |-> print, outcomes |-> results,
                     admission |-> AdmissionFingerprint(adm), matrix |-> geo.matrix,
                     window |-> window, definition |-> def]
    <3>1. pc = "manifest" /\ Write("manifest", m)
      BY <2>2 DEF WriteManifest
    <3>2. Determines(print, AdmissionFingerprint(adm), geo.matrix, window, def)
      BY <3>1 DEF ReuseInv, Computing, Reporting
    <3>3. Status # "BLOCKED"
      BY DEF Status
    <3>4. Stands(m)
      BY <3>2, <3>3 DEF Stands
    <3> HIDE DEF m
    <3> QED
      BY <3>1, <3>4, WriteOne DEF ReuseInv, Fields
  <2>3. CASE \A i \in Ids : dir'[i].manifest = dir[i].manifest
    BY <2>3 DEF ReuseInv
  <2> QED
    BY <2>1, <2>2, <2>3, ManifestsStep
<1>2. pc' \in {"blocking", "blocked"} => DOMAIN print' = {"blocked", "id"}
  <2>1. CASE Gate
    BY <2>1, GateDecides
  <2> QED
    BY <2>1, ComputingStep DEF ReuseInv
<1>3. pc' \in Computing =>
        Determines(print', AdmissionFingerprint(adm'), geo'.matrix, window', def')
  <2>1. CASE Gate
    BY <2>1, GateDecides DEF Computing, Reporting, def
  <2>2. CASE pc \in Computing /\ UNCHANGED <<job, adm, geo, window, print>>
    BY <2>2 DEF ReuseInv, def
  <2> QED
    BY <2>1, <2>2, ComputingStep
<1>4. answer'.kind = "reused" => pc' = "idle"
  <2>1. CASE Gate
    BY <2>1, GateDecides DEF ReuseInv
  <2> QED
    BY <2>1, AnswerStep
<1> QED
  BY <1>1, <1>2, <1>3, <1>4 DEF ReuseInv

LEMMA CurrentStep ==
  ASSUME Placed, Shaped, ReportInv, ReuseInv, ReuseCurrent, [Next]_vars
  PROVE  ReuseCurrent'
<1>1. CASE Gate /\ answer'.kind = "reused"
  <2> DEFINE m == Directory.manifest
  <2>1. /\ Determines(print', AdmissionFingerprint(adm), geo'.matrix, window', def)
        /\ Cached(print') /\ UNCHANGED <<job, adm, dir>>
    BY <1>1, GateDecides DEF ReuseInv
  <2>2. def' = def /\ Directory' = Directory /\ def.id \in Ids
    BY <2>1, DefinitionTyped DEF Directory, def, Placed
  <2>3. m # NoFile /\ m.print = print' /\ Stands(m)
    BY <2>1, <2>2 DEF Cached, ReuseInv, Directory
  <2>4. /\ m.status # "BLOCKED"
        /\ Determines(print', m.admission, m.matrix, m.window, m.definition)
    BY <2>1, <2>3 DEF Stands, Determines
  <2> HIDE DEF m
  <2>5. /\ m.admission = AdmissionFingerprint(adm) /\ m.matrix = geo'.matrix
        /\ m.window = window' /\ References(m.definition) = References(def)
        /\ m.definition.test = def.test
    BY <2>1, <2>4, DeterminesOne
  <2>6. m = Directory'.manifest /\ AdmissionFingerprint(adm)' = AdmissionFingerprint(adm)
    BY <2>1, <2>2 DEF m
  <2> QED
    BY <2>2, <2>4, <2>5, <2>6 DEF ReuseCurrent
<1>2. CASE answer'.kind # "reused"
  BY <1>2 DEF ReuseCurrent
<1>3. CASE answer' = answer /\ UNCHANGED <<job, dir, adm, geo, window>>
  <2>1. def' = def /\ Directory' = Directory
    BY <1>3 DEF Directory, def
  <2> QED
    BY <1>3, <2>1 DEF ReuseCurrent
<1> QED
  BY <1>1, <1>2, <1>3, AnswerStep

-----------------------------------------------------------------------------
ExperimentInv == Placed /\ Shaped /\ Past /\ PoolInv /\ ReportInv /\ ReuseInv

LEMMA InitExperiment ==
  ASSUME Init
  PROVE  ExperimentInv /\ OutputsFollow /\ ReuseCurrent
<1>1. pc = "idle" /\ answer.kind = "none"
  BY NoAnswerKind DEF Init
<1>2. Placed
  BY ExperimentAssumption DEF Init, Placed
<1>3. Shaped
  BY DEF Init, Shaped, EmptyDirectory, NoBaseline, BaselineFiles, Fields, Pairs
<1>4. Past
  <2>1. /\ runs = 0 /\ dir = [i \in Ids |-> EmptyDirectory]
        /\ EmptyDirectory.baseline = [p \in Pairs |-> NoBaseline]
    BY DEF Init, EmptyDirectory, Pairs
  <2>2. NoBaseline.metrics = 0
    BY DEF NoBaseline
  <2>3. \A i \in Ids, p \in Pairs : dir[i].baseline[p].metrics = 0
    BY <2>1, <2>2
  <2> QED
    BY <1>1, <2>1, <2>3 DEF Past, Early
<1>5. PoolInv /\ ReportInv
  BY <1>1 DEF PoolInv, ReportInv, Reporting, WithMetrics, WithResiduals, WithMatrix
<1>6. ReuseInv
  <2>1. \A i \in Ids : dir[i].manifest = NoFile
    BY DEF Init, EmptyDirectory
  <2> QED
    BY <1>1, <2>1 DEF ReuseInv, Stands, Computing, Reporting
<1> QED
  BY <1>1, <1>2, <1>3, <1>4, <1>5, <1>6 DEF ExperimentInv, OutputsFollow, ReuseCurrent

\* Where the process is, what its directories hold and how its fingerprint was made.
THEOREM ExperimentHolds == Spec => []ExperimentInv
<1>1. ExperimentInv /\ [Next]_vars => ExperimentInv'
  BY PlacedStep, ShapedStep, PastStep, PoolStep, ReportStep, ReuseStep DEF ExperimentInv
<1> QED
  BY <1>1, InitExperiment, PTL DEF Spec

\* Whatever order the workers finish in, whichever of them fail and wherever an
\* earlier run was killed, the manifest a run returns says of each baseline what its
\* own directory holds, and the shared baseline matrix has exactly this run's
\* outcomes (run_experiment, execute_baseline, _update_baseline_matrix).
THEOREM ComputedIsReported == Spec => []OutputsFollow
<1>1. ExperimentInv /\ OutputsFollow /\ [Next]_vars => OutputsFollow'
  BY OutputsStep DEF ExperimentInv
<1> QED
  BY <1>1, InitExperiment, ExperimentHolds, PTL DEF Spec

\* A manifest is reused only for the admission, the geometry, the window and the
\* stations the gates have just found, and a blocked one never.
THEOREM ReusedIsCurrent == Spec => []ReuseCurrent
<1>1. ExperimentInv /\ ReuseCurrent /\ [Next]_vars => ReuseCurrent'
  BY CurrentStep DEF ExperimentInv
<1> QED
  BY <1>1, InitExperiment, ExperimentHolds, PTL DEF Spec

=============================================================================
