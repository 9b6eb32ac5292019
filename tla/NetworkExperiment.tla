-------------------------- MODULE NetworkExperiment --------------------------
(***************************************************************************)
(* The offline network experiment: run_experiment of                       *)
(* research/network_rtk/.../runner.py and what it calls, from the gates of *)
(* NetworkGate through a bounded pool of workers, one RTKLIB process per   *)
(* baseline, to the files of the experiment's directory, the shared        *)
(* summaries and, last of all, the manifest a later run may reuse.         *)
(*                                                                         *)
(* One operator runs one experiment after another.  The quality-control    *)
(* results, the coordinates, the navigation files and the converted        *)
(* observations change under the runs, and a run may be killed at any      *)
(* step.  A file is known by the run that wrote it, runs being numbered    *)
(* from 1.                                                                 *)
(***************************************************************************)
EXTENDS NetworkGate

CONSTANTS
  Definitions,   \* the experiment definitions the operator runs; two may share an id
  Workers,       \* --workers, as bounded by the pool
  QcResults,     \* the quality-control results a station may get
  Coordinates,   \* the coordinate files, as [present, rows]
  FirstQc, FirstCoordinates,   \* both, before the first run
  MaxRuns, MaxChanges, MaxFaults   \* bounds of the exploration

ASSUME ExperimentAssumption ==
  /\ Definitions # {}
  /\ \A d \in Definitions : d.refs \in Seq(Stations) /\ d.test \in Stations
  /\ Workers \in 1..8
  /\ MaxRuns \in Nat /\ MaxChanges \in Nat /\ MaxFaults \in Nat

VARIABLES
  qc, coords, navigation, observations,   \* the inputs, as the other phases leave them
  pc, job,               \* where the process is, and the definition and dry_run it was given
  adm, paths, geo, window, print,   \* what its gates found, and the experiment's fingerprint
  taken, finished,       \* baselines handed to the pool, and their results as they finish
  results,               \* the outcome of each baseline, once the pool is joined
  dir,                   \* the directory of each experiment
  matrix, experiments, eligible, comparison,   \* the shared summaries
  held,                  \* rows of the summary being rewritten, in memory
  answer,                \* what the last run_experiment returned
  runs, changes, faults  \* counters of the bounds

inputs == <<qc, coords, navigation, observations>>
gates == <<adm, paths, geo, window, print>>
pool == <<taken, finished, results>>
summaries == <<matrix, experiments, eligible, comparison, held>>
bounds == <<runs, changes, faults>>
vars == <<inputs, pc, job, gates, pool, dir, summaries, answer, bounds>>

Ids == {d.id : d \in Definitions}
Products == UNION {d.nav : d \in Definitions}
Outcomes == {"COMPLETE", "BLOCKED", "FAILED_RTKLB", "FAILED_OUTPUT", "FAILED_UNEXPECTED"}

NoFile == [by |-> 0]
NoAnswer == [kind |-> "none", status |-> ""]

\* A baseline's directory: solution.pos, the solution epochs.csv was written from, metrics.json.
NoBaseline == [solution |-> [by |-> 0, good |-> FALSE], epochs |-> 0, metrics |-> 0]

EmptyDirectory ==
  [manifest |-> NoFile, validation |-> NoFile, metrics |-> NoFile, static |-> 0,
   baseline |-> [p \in Stations \X Stations |-> NoBaseline], residuals |-> {}]

\* What a process knows before its gates.
NotAdmitted == AdmitDay([s \in Stations |-> [kind |-> "absent"]], FALSE)
Forget ==
  /\ adm' = NotAdmitted /\ paths' = {}
  /\ geo' = NoGeometry("") /\ window' = Blocked("") /\ print' = NoFile

def == job.def
Directory == dir[def.id]
Baseline(r) == Directory.baseline[<<r, def.test>>]
Write(file, value) == dir' = [dir EXCEPT ![def.id][file] = value]

Init ==
  /\ qc = FirstQc /\ coords = FirstCoordinates
  /\ navigation = Products /\ observations = Stations
  /\ pc = "idle" /\ job = [def |-> CHOOSE d \in Definitions : TRUE, dry |-> FALSE]
  /\ adm = NotAdmitted /\ paths = {}
  /\ geo = NoGeometry("") /\ window = Blocked("") /\ print = NoFile
  /\ taken = {} /\ finished = << >> /\ results = << >>
  /\ dir = [i \in Ids |-> EmptyDirectory]
  /\ matrix = {} /\ experiments = {} /\ eligible = << >> /\ comparison = << >> /\ held = {}
  /\ answer = NoAnswer
  /\ runs = 0 /\ changes = 0 /\ faults = 0

-----------------------------------------------------------------------------
(* The gates.                                                               *)
Return(kind, status) ==
  /\ pc' = "idle"
  /\ answer' = [kind |-> kind, status |-> status]

\* A definition that does not validate raises before anything is read or created.
Begin(d, dry) ==
  /\ pc = "idle" /\ runs < MaxRuns
  /\ runs' = runs + 1
  /\ job' = [def |-> d, dry |-> dry]
  /\ IF Problems(d) # {} THEN Return("raised", "invalid")
     ELSE pc' = "admit" /\ answer' = NoAnswer
  /\ Forget
  /\ UNCHANGED <<inputs, pool, dir, summaries, changes, faults>>

Admit ==
  /\ pc = "admit"
  /\ adm' = AdmitDay(qc, def.diagnostic)
  /\ pc' = "gate"
  /\ UNCHANGED <<inputs, job, paths, geo, window, print, pool, dir, summaries, answer, bounds>>

\* Mutant: the sessions admitted are left out of the fingerprint.
FingerprintUnadmitted(g, w) ==
  [definition |-> [id |-> def.id, refs |-> References(def), test |-> def.test,
                   nav |-> def.nav, min |-> def.min, diagnostic |-> def.diagnostic],
   matrix |-> g.matrix, overlap |-> <<w.start, w.end, w.expected>>,
   configs |-> Configurations(def, coords.rows)]

\* What tells two experiments apart: not the contents of the navigation products, of the
\* observations or of anything else the baselines read.
Fingerprint(g, w) ==
  [definition |-> [id |-> def.id, refs |-> References(def), test |-> def.test,
                   nav |-> def.nav, min |-> def.min, diagnostic |-> def.diagnostic],
   admission |-> AdmissionFingerprint(adm),
   matrix |-> g.matrix,
   overlap |-> <<w.start, w.end, w.expected>>,
   configs |-> Configurations(def, coords.rows)]

Cached(fp) ==
  /\ Directory.manifest # NoFile
  /\ Directory.manifest.print = fp

Gate ==
  /\ pc = "gate"
  /\ LET present == def.nav \cap navigation
         reason == RunGate(def, adm, coords.present, coords.rows, present)
         g == Geometry(def, coords.present, coords.rows)
         w == CommonWindow(Restricted(adm.sessions, Wanted(def)))
     IN  CASE reason = "missing" ->
                /\ Return("raised", "missing")
                /\ UNCHANGED <<paths, geo, window, print>>
           [] reason \notin {"go", "missing"} ->
                /\ print' = [blocked |-> reason, id |-> def.id]
                /\ pc' = "blocking"
                /\ UNCHANGED <<paths, geo, window, answer>>
           [] reason = "go" ->
                /\ paths' = present /\ geo' = g /\ window' = w
                /\ print' = Fingerprint(g, w)
                /\ IF Cached(print') THEN Return("reused", Directory.manifest.status)
                   ELSE pc' = "static" /\ UNCHANGED answer
  /\ UNCHANGED <<inputs, job, adm, pool, dir, summaries, bounds>>

\* _blocked_manifest: the reasons first, the manifest last.
BlockNotes ==
  /\ pc = "blocking"
  /\ pc' = "blocked"
  /\ Write("validation", [by |-> runs, verdict |-> "BLOCKED"])
  /\ UNCHANGED <<inputs, job, gates, pool, summaries, answer, bounds>>

BlockManifest ==
  /\ pc = "blocked"
  /\ Write("manifest", [by |-> runs, status |-> "BLOCKED", print |-> print])
  /\ Return("blocked", "BLOCKED")
  /\ UNCHANGED <<inputs, job, gates, pool, summaries, bounds>>

-----------------------------------------------------------------------------
(* The baselines.                                                           *)
WriteStatic ==
  /\ pc = "static"
  /\ Write("static", runs)
  /\ pc' = IF job.dry THEN "dry" ELSE "pool"
  /\ UNCHANGED <<inputs, job, gates, pool, summaries, answer, bounds>>

\* The dry run writes its verdict and empty metrics, and no manifest.
DryRun ==
  /\ pc = "dry"
  /\ dir' = [dir EXCEPT ![def.id].validation = [by |-> runs, verdict |-> "DRY_RUN"],
                        ![def.id].metrics = [by |-> runs, complete |-> {}]]
  /\ Return("planned", "PLANNED")
  /\ UNCHANGED <<inputs, job, gates, pool, summaries, bounds>>

Ended == {finished[k].ref : k \in DOMAIN finished}
Running == taken \ Ended
Ends(r, outcome) == finished' = Append(finished, [ref |-> r, outcome |-> outcome])

\* The requests are in the order of their names; a free worker takes the next one, and
\* the inputs it checks are those of now, not those of the gates.
NextRequest(r) ==
  /\ r \in References(def) \ taken
  /\ \A o \in References(def) \ taken : r <= o

InputsThere(r) == {r, def.test} \subseteq observations /\ paths \subseteq navigation

Take(r) ==
  /\ pc = "pool"
  /\ Cardinality(Running) < Workers
  /\ NextRequest(r)
  /\ taken' = taken \cup {r}
  /\ IF InputsThere(r) THEN UNCHANGED finished ELSE Ends(r, "BLOCKED")
  /\ UNCHANGED <<inputs, pc, job, gates, results, dir, summaries, answer, bounds>>

(* rnx2rtkp leaves a solution, something the parser refuses, nothing at all *)
(* while still exiting with 0, a failing exit code, or is cut off by the    *)
(* timeout; whatever is in solution.pos after an exit with 0 is parsed.     *)
ToolAnswers ==
  {[exit |-> e, leaves |-> l] : e \in {"zero", "nonzero", "timeout"},
                                l \in {"solution", "unusable", "untouched"}}
  \ {[exit |-> e, leaves |-> "solution"] : e \in {"nonzero", "timeout"}}

Solution(a, r) ==
  CASE a.leaves = "solution" -> [by |-> runs, good |-> TRUE]
    [] a.leaves = "unusable" -> [by |-> runs, good |-> FALSE]
    [] a.leaves = "untouched" -> Baseline(r).solution

\* Parsed strictly, and at least one epoch.
Parsed(solution) == solution.by # 0 /\ solution.good

BaselineOutcome(a, solution) ==
  CASE a.exit = "timeout" -> "FAILED_UNEXPECTED"
    [] a.exit = "nonzero" -> "FAILED_RTKLB"
    [] ~Parsed(solution) -> "FAILED_OUTPUT"
    [] OTHER -> "COMPLETE"

\* What execute_baseline leaves in the directory: only a complete one rewrites its epochs.
Leaves(r, solution, outcome) ==
  IF outcome = "COMPLETE"
  THEN [solution |-> solution, epochs |-> solution.by, metrics |-> runs]
  ELSE [Baseline(r) EXCEPT !.solution = solution]

Execute(r, a) ==
  /\ pc = "pool" /\ r \in Running
  /\ LET solution == Solution(a, r)
         outcome == BaselineOutcome(a, solution)
     IN  /\ dir' = [dir EXCEPT ![def.id].baseline[<<r, def.test>>] = Leaves(r, solution, outcome)]
         /\ Ends(r, outcome)
  /\ IF a.leaves = "solution" THEN UNCHANGED faults
     ELSE faults < MaxFaults /\ faults' = faults + 1
  /\ UNCHANGED <<inputs, pc, job, gates, taken, results, summaries, answer, runs, changes>>

-----------------------------------------------------------------------------
(* What is written once every baseline has ended.  The pool hands its       *)
(* results over in the order of the requests, whatever order they came in.  *)
\* Mutant: the results are taken as they come and given to the requests in that order.
CollectedAsFinished ==
  [r \in References(def) |->
     finished[Cardinality({o \in References(def) : o <= r})].outcome]

Collected ==
  [r \in References(def) |->
     finished[CHOOSE k \in DOMAIN finished : finished[k].ref = r].outcome]

Join ==
  /\ pc = "pool" /\ Ended = References(def)
  /\ results' = Collected
  /\ taken' = {} /\ finished' = << >>
  /\ pc' = "metrics"
  /\ UNCHANGED <<inputs, job, gates, dir, summaries, answer, bounds>>

Complete == {r \in DOMAIN results : results[r] = "COMPLETE"}

Status == IF \E r \in DOMAIN results : results[r] = "FAILED_UNEXPECTED"
          THEN "FAILED_UNEXPECTED" ELSE "COMPLETE"

WriteMetrics ==
  /\ pc = "metrics"
  /\ Write("metrics", [by |-> runs, complete |-> Complete])
  /\ pc' = "validation"
  /\ UNCHANGED <<inputs, job, gates, pool, summaries, answer, bounds>>

WriteValidation ==
  /\ pc = "validation"
  /\ Write("validation", [by |-> runs, verdict |-> Status])
  /\ pc' = "residuals"
  /\ UNCHANGED <<inputs, job, gates, pool, summaries, answer, bounds>>

\* Every result's epochs.csv is read, whatever its outcome and whichever run wrote it.
ResidualRows == {[baseline |-> r, of |-> Baseline(r).epochs] :
                   r \in {s \in References(def) : Baseline(s).epochs # 0}}

WriteResiduals ==
  /\ pc = "residuals"
  /\ Write("residuals", ResidualRows)
  /\ pc' = "experiments"
  /\ UNCHANGED <<inputs, job, gates, pool, summaries, answer, bounds>>

(* Three of the summaries are read, truncated and written again, so that a  *)
(* kill between the last two loses their rows; the fourth is appended to.   *)

Others(rows) == {row \in rows : row.id # def.id}

OpenExperiments ==
  /\ pc = "experiments"
  /\ held' = Others(experiments) \cup {[id |-> def.id, status |-> "COMPLETE"]}
  /\ experiments' = {}
  /\ pc' = "experiments rows"
  /\ UNCHANGED <<inputs, job, gates, pool, dir, matrix, eligible, comparison, answer, bounds>>

WriteExperiments ==
  /\ pc = "experiments rows"
  /\ experiments' = held /\ held' = {}
  /\ pc' = "matrix"
  /\ UNCHANGED <<inputs, job, gates, pool, dir, matrix, eligible, comparison, answer, bounds>>

MatrixRows ==
  Others(matrix) \cup {[id |-> def.id, baseline |-> r, test |-> def.test, outcome |-> results[r]] :
                         r \in References(def)}

OpenMatrix ==
  /\ pc = "matrix"
  /\ held' = MatrixRows
  /\ matrix' = {}
  /\ pc' = "matrix rows"
  /\ UNCHANGED <<inputs, job, gates, pool, dir, experiments, eligible, comparison, answer, bounds>>

WriteMatrix ==
  /\ pc = "matrix rows"
  /\ matrix' = held /\ held' = {}
  /\ pc' = "eligibility"
  /\ UNCHANGED <<inputs, job, gates, pool, dir, experiments, eligible, comparison, answer, bounds>>

\* The rows of the day are replaced; every definition here is of the same day.
WriteEligibility ==
  /\ pc = "eligibility"
  /\ eligible' = adm.decisions
  /\ pc' = "comparison"
  /\ UNCHANGED <<inputs, job, gates, pool, dir, matrix, experiments, comparison, held, answer, bounds>>

\* The nearest reference alone, against the baselines that completed.
ComparisonRow == [id |-> def.id, nearest |-> geo.nearest, complete |-> Complete]

AppendComparison ==
  /\ pc = "comparison"
  /\ comparison' = Append(comparison, ComparisonRow)
  /\ pc' = "manifest"
  /\ UNCHANGED <<inputs, job, gates, pool, dir, matrix, experiments, eligible, held, answer, bounds>>

WriteManifest ==
  /\ pc = "manifest"
  /\ Write("manifest", [by |-> runs, status |-> Status, print |-> print, outcomes |-> results,
                        admission |-> AdmissionFingerprint(adm), matrix |-> geo.matrix,
                        window |-> window, definition |-> def])
  /\ results' = << >>
  /\ Return("computed", Status)
  /\ UNCHANGED <<inputs, job, gates, taken, finished, summaries, bounds>>

-----------------------------------------------------------------------------
(* A kill: an RTKLIB process still running may leave its solution behind.   *)
Crash ==
  /\ pc # "idle"
  /\ faults < MaxFaults /\ faults' = faults + 1
  /\ pc' = "idle" /\ answer' = NoAnswer /\ held' = {}
  /\ \E left \in SUBSET (IF pc = "pool" THEN Running ELSE {}), good \in BOOLEAN :
       dir' = [dir EXCEPT ![def.id].baseline =
                 [p \in DOMAIN @ |->
                    IF p \in left \X {def.test}
                    THEN [@[p] EXCEPT !.solution = [by |-> runs, good |-> good]] ELSE @[p]]]
  /\ taken' = {} /\ finished' = << >> /\ results' = << >>
  /\ Forget
  /\ UNCHANGED <<inputs, job, matrix, experiments, eligible, comparison, runs, changes>>

(* The other phases: quality control, the coordinates, the products, the    *)
(* conversion.  An input changes before the step that reads it next.        *)
Change ==
  /\ changes < MaxChanges /\ changes' = changes + 1
  /\ \/ /\ pc = "idle"
        /\ \E s \in Stations, q \in QcResults : qc' = [qc EXCEPT ![s] = q]
        /\ UNCHANGED <<coords, navigation, observations>>
     \/ /\ pc \in {"idle", "gate"}
        /\ coords' \in Coordinates
        /\ UNCHANGED <<qc, navigation, observations>>
     \/ /\ pc \in {"idle", "gate", "pool"}
        /\ navigation' \in SUBSET Products
        /\ UNCHANGED <<qc, coords, observations>>
     \/ /\ pc \in {"idle", "pool"}
        /\ \E s \in Stations : observations' = observations \ {s}
        /\ UNCHANGED <<qc, coords, navigation>>
  /\ inputs' # inputs
  /\ UNCHANGED <<pc, job, gates, pool, dir, summaries, answer, runs, faults>>

Next ==
  \/ \E d \in Definitions, dry \in BOOLEAN : Begin(d, dry)
  \/ Admit \/ Gate \/ BlockNotes \/ BlockManifest
  \/ WriteStatic \/ DryRun
  \/ \E r \in Stations : Take(r)
  \/ \E r \in Stations, a \in ToolAnswers : Execute(r, a)
  \/ Join \/ WriteMetrics \/ WriteValidation \/ WriteResiduals
  \/ OpenExperiments \/ WriteExperiments \/ OpenMatrix \/ WriteMatrix
  \/ WriteEligibility \/ AppendComparison \/ WriteManifest
  \/ Crash \/ Change

Spec == Init /\ [][Next]_vars

-----------------------------------------------------------------------------
(* Type invariant: where the process is, what each of its files may hold.   *)
TypeOK ==
  /\ observations \subseteq Stations /\ navigation \subseteq Products
  /\ job.def \in Definitions /\ job.dry \in BOOLEAN
  /\ taken \subseteq Stations /\ Ended \subseteq taken
  /\ \A k \in DOMAIN finished : finished[k].outcome \in Outcomes
  /\ Cardinality(Running) <= Workers
  /\ \A i \in Ids : /\ dir[i].manifest.by \in 0..runs
                    /\ \A row \in dir[i].residuals : row.of \in 1..runs
  /\ runs \in 0..MaxRuns /\ changes \in 0..MaxChanges /\ faults \in 0..MaxFaults

(* validate_experiment and run_experiment go through the same gates in code *)
(* written twice: what a run would execute is validated, and a validated    *)
(* definition, unless diagnostic, runs as soon as its navigation is there.  *)
PlanPredictsRun ==
  \A d \in Definitions :
    LET verdict == ValidateExperiment(d, qc, coords.present, coords.rows)
        gate == RunGate(d, AdmitDay(qc, d.diagnostic), coords.present, coords.rows, d.nav)
    IN  /\ gate = "go" => verdict = "VALIDATED"
        /\ verdict = "VALIDATED" /\ ~d.diagnostic => gate = "go"

(* In whatever order the workers finish and whichever of them fail, the     *)
(* manifest a run returns says of each baseline what its own directory      *)
(* holds: complete exactly where this run wrote the metrics, with this      *)
(* solution's residuals in the data set.  The shared baseline matrix has    *)
(* exactly the outcomes of that run: no row of an earlier one is left over. *)
OutputsFollow ==
  answer.kind = "computed" =>
    LET m == Directory.manifest
        completed(r) == m.outcomes[r] = "COMPLETE"
    IN  /\ m.by = runs
        /\ \A r \in References(def) :
             /\ completed(r) <=> Baseline(r).metrics = runs
             /\ completed(r) =>
                  {row \in Directory.residuals : row.baseline = r}
                    = {[baseline |-> r, of |-> Baseline(r).solution.by]}
        /\ Directory.metrics = [by |-> runs, complete |-> {r \in References(def) : completed(r)}]
        /\ {row \in matrix : row.id = def.id}
             = {[id |-> def.id, baseline |-> r, test |-> def.test, outcome |-> m.outcomes[r]] :
                  r \in References(def)}

(* A manifest is reused only for the admission, the geometry and the window *)
(* the gates have just found, and a blocked one never: when the missing     *)
(* input arrives, the next run computes.                                    *)
ReuseCurrent ==
  answer.kind = "reused" =>
    LET m == Directory.manifest
    IN  /\ m.status # "BLOCKED"
        /\ m.admission = AdmissionFingerprint(adm)
        /\ m.matrix = geo.matrix
        /\ m.window = window
        /\ References(m.definition) = References(def) /\ m.definition.test = def.test
=============================================================================
