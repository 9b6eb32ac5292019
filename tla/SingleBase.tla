----------------------------- MODULE SingleBase -----------------------------
(***************************************************************************)
(* Phase 3, single-base RTK: run_phase3 of research/single_base_rtk/.../   *)
(* runner.py, which resolves a day, assembles the Phase 2 gate and runs    *)
(* one experiment per rover, and prepare_or_run_experiment of pipeline.py, *)
(* which scripts/run_single_base_rtk.py also runs on a definition of its   *)
(* own.  Every experiment keeps a directory under its id: what the tool    *)
(* left, the results, and last the manifest that tells what they are.      *)
(*                                                                         *)
(* One operator starts one process after another.  The inputs of the other *)
(* phases change under a run, RTKLIB may fail, hang or leave nothing, and  *)
(* the process may be killed at any step.  A file's contents, and the      *)
(* SHA-256 that stands for them, are a number; 0 is no file, or no hash.   *)
(***************************************************************************)
EXTENDS SolutionMetrics

CONSTANTS
  Stations,     \* CANONICAL_STATIONS, numbered
  FullWindow,   \* FULL_WINDOW_STATIONS
  Jobs,         \* what the operator starts: a phase, or one definition
  Experiments,  \* the ids of their experiments
  Outputs,      \* the solution files RTKLIB may leave, as [header, malformed, epochs]
  FirstInputs, OtherInputs,     \* the inputs before the first process, and later ones
  MaxRuns, MaxChanges, MaxFaults \* bounds of the exploration

Elements(s) == {s[k] : k \in DOMAIN s}

ASSUME SingleBaseAssumption ==
  /\ FullWindow \in Seq(Stations) /\ Len(FullWindow) >= 2
  /\ \A k, l \in DOMAIN FullWindow : FullWindow[k] = FullWindow[l] => k = l
  /\ MaxRuns \in Nat /\ MaxChanges \in Nat /\ MaxFaults \in Nat

\* Experiments names every experiment of the jobs; a definition's window is of epochs.
ASSUME JobsAssumption ==
  /\ Jobs # {}
  /\ \A j \in Jobs :
       IF j.phase
       THEN /\ j.gaps \in Seq(Stations)
            /\ j.base \in Elements(FullWindow) =>
                 \A s \in (Elements(FullWindow) \ {j.base}) \cup Elements(j.gaps) : <<j.base, s>> \in Experiments
       ELSE LET d == j.definition
            IN  d.id \in Experiments /\ {d.start, d.end, d.step} \subseteq Int

ASSUME OutputsAssumption ==
  \A o \in Outputs : o.epochs \in Seq([t : Int, q : Int, at : Int])

ASSUME InputsAssumption ==
  \A i \in OtherInputs \cup {FirstInputs}, s \in Stations :
    LET q == i.session[s]
    IN  i.coordinate[s].at \in Int /\ {q.first, q.last, q.step} \subseteq Int

VARIABLES
  inputs,        \* what the other phases left, see Inputs below
  pc, job,       \* where the process is, and what it was started for
  plan, registry, gate,   \* what a phase resolved, loaded and verified
  queue,         \* the definitions still to prepare, the current one first
  executed,      \* the ids of the phase's experiments
  measured, print,   \* the input manifest and the fingerprint of the current one
  manifest,      \* manifest.json of each experiment
  files,         \* what else its directory holds
  audit,         \* the gate the audit record lists
  analysis, aggregates,   \* the two tables of the phase
  answer,        \* how the last process ended
  runs, changes, faults   \* counters of the bounds

process == <<plan, registry, gate, queue, executed, measured, print>>
disk == <<manifest, files, audit, analysis, aggregates>>
bounds == <<runs, changes, faults>>
vars == <<inputs, pc, job, process, disk, answer, bounds>>

\* The fields of Phase2Gate.
Conditions ==
  {"base_station_verified", "rover_station_verified", "coordinates_verified",
   "reference_frame_verified", "coordinate_epoch_verified", "equipment_interval_verified",
   "real_observations_present", "navigation_present", "overlapping_interval_verified",
   "sampling_interval_verified", "file_provenance_verified", "hashes_verified",
   "phase2_audit_approved"}

(* inputs: have, the artefacts that are files; observation, the converted   *)
(* RINEX of each station; recorded, its hash in the conversion manifest;    *)
(* navigation; coordinate, the registry's entries; session, the day's rows  *)
(* of the quality-control table; rtklib, the binary on the PATH.            *)
Artefacts == {"headers", "canonical_manifest", "anomalies", "sessions", "conversions", "coordinates"}
Present == inputs.have \cup (IF inputs.navigation # 0 THEN {"navigation"} ELSE {})

NoEcef == -2
NoManifest == [by |-> 0]
NoFiles == [staged |-> 0, solution |-> NoSolution,
            epochs |-> [by |-> 0, list |-> << >>], residuals |-> 0, metrics |-> 0]
NoMetrics == [solutions |-> 0, expected |-> 0, fixes |-> 0, ttff |-> NoFix, residuals |-> << >>]
NoPlan == [recorded |-> << >>, navigation |-> 0]
NoPrint == [stations |-> << >>]
NothingMeasured == [rtklib |-> "", inputs |-> << >>]
NoTable == [by |-> 0]

Idle ==
  /\ plan = NoPlan /\ registry = << >> /\ gate = {} /\ queue = << >> /\ executed = {}
  /\ measured = NothingMeasured /\ print = NoPrint

Forget ==
  /\ plan' = NoPlan /\ registry' = << >> /\ gate' = {} /\ queue' = << >> /\ executed' = {}
  /\ measured' = NothingMeasured /\ print' = NoPrint

Init ==
  /\ inputs = FirstInputs
  /\ pc = "idle" /\ job = CHOOSE j \in Jobs : TRUE
  /\ Idle
  /\ manifest = [e \in Experiments |-> NoManifest]
  /\ files = [e \in Experiments |-> NoFiles]
  /\ audit = {} /\ analysis = NoTable /\ aggregates = NoTable
  /\ answer = "none"
  /\ runs = 0 /\ changes = 0 /\ faults = 0

\* The process is over, and what it knew is gone.
Return(how) == pc' = "idle" /\ answer' = how /\ Forget
Raise == Return("raised")

-----------------------------------------------------------------------------
(* run_phase3: the plan, the gate and the definitions.                      *)
Begin(j) ==
  /\ pc = "idle" /\ runs < MaxRuns
  /\ runs' = runs + 1
  /\ job' = j /\ answer' = "none"
  /\ pc' = IF j.phase THEN "resolve" ELSE "measure"
  /\ queue' = IF j.phase THEN << >> ELSE <<j.definition>>
  /\ UNCHANGED <<inputs, plan, registry, gate, executed, measured, print, disk, changes, faults>>

Least(S) == CHOOSE x \in S : \A y \in S : x <= y
Greatest(S) == CHOOSE x \in S : \A y \in S : x >= y

\* common_overlap_window: over the whole-window stations alone, and with the first one's step.
\* The table is refused as a whole when one of its rows has no epochs.
CommonWindow(session, stations) ==
  LET start == Greatest({session[s].first : s \in stations})
      end == Least({session[s].last : s \in stations})
  IN  [ok |-> /\ \A s \in DOMAIN session : session[s].status # "error"
              /\ \A s \in stations : session[s].status = "parsed" /\ session[s].gaps = 0
              /\ start < end,
       start |-> start, end |-> end, step |-> session[FullWindow[1]].step]

Resolvable(j) ==
  LET wanted == Elements(FullWindow) \cup Elements(j.gaps)
  IN  /\ {"coordinates", "conversions", "sessions", "navigation"} \subseteq Present
      /\ \E s \in Stations : inputs.coordinate[s].known
      /\ j.base \in Elements(FullWindow)
      /\ \A s \in wanted : inputs.observation[s] # 0 /\ inputs.recorded[s] # 0
      /\ CommonWindow(inputs.session, Elements(FullWindow)).ok

Resolve ==
  /\ pc = "resolve"
  /\ IF Resolvable(job)
     THEN /\ plan' = [window |-> CommonWindow(inputs.session, Elements(FullWindow)),
                      recorded |-> inputs.recorded, navigation |-> inputs.navigation]
          /\ pc' = "audit"
          /\ UNCHANGED <<registry, gate, queue, executed, measured, print, answer>>
     ELSE Raise
  /\ UNCHANGED <<inputs, job, disk, bounds>>

\* The artefacts each condition rests on; the audit's own rests on a review.
Evidence ==
  [c \in Conditions |->
     CASE c \in {"base_station_verified", "rover_station_verified",
                 "equipment_interval_verified"} -> {"headers"}
       [] c \in {"coordinates_verified", "reference_frame_verified",
                 "coordinate_epoch_verified"} -> {"coordinates"}
       [] c = "real_observations_present" -> {"canonical_manifest", "conversions"}
       [] c = "navigation_present" -> {"navigation"}
       [] c = "overlapping_interval_verified" -> {"sessions"}
       [] c = "sampling_interval_verified" -> {"sessions", "headers"}
       [] c = "file_provenance_verified" -> {"canonical_manifest", "anomalies"}
       [] c = "hashes_verified" -> {"canonical_manifest", "conversions", "navigation"}
       [] c = "phase2_audit_approved" -> {}]

Gate(reviewed) ==
  {c \in Conditions : Evidence[c] \subseteq Present /\ (c = "phase2_audit_approved" => reviewed)}

\* The record is written before the gate is asserted, open or not.
Audit ==
  /\ pc = "audit"
  /\ IF "conversions" \in Present
     THEN /\ audit' = IF job.reviewed THEN Gate(TRUE) ELSE audit
          /\ IF Gate(job.reviewed) = Conditions
             THEN /\ gate' = Gate(job.reviewed)
                  /\ registry' = inputs.coordinate
                  /\ pc' = "define"
                  /\ UNCHANGED <<plan, queue, executed, measured, print, answer>>
             ELSE Raise
     ELSE Raise /\ UNCHANGED audit
  /\ UNCHANGED <<inputs, job, manifest, files, analysis, aggregates, bounds>>

\* The stations of the whole window without the base, then those with gaps.
Rovers ==
  LET b == CHOOSE k \in DOMAIN FullWindow : FullWindow[k] = job.base
  IN  SubSeq(FullWindow, 1, b - 1) \o SubSeq(FullWindow, b + 1, Len(FullWindow)) \o job.gaps

\* Loaded before the gate; whether a solution is usable is read from PRIDE's own file now.
Usable(s) == registry[s].known /\ inputs.coordinate[s].usable

StationInput(s) ==
  [station |-> s, ecef |-> registry[s].at, geodetic |-> registry[s].at,
   frame |-> registry[s].frame, recorded |-> plan.recorded[s]]

Definition(rover) ==
  [id |-> <<job.base, rover>>, base |-> StationInput(job.base), rover |-> StationInput(rover),
   navigation |-> <<plan.navigation>>, start |-> plan.window.start, end |-> plan.window.end,
   step |-> plan.window.step, gate |-> gate]

Define ==
  /\ pc = "define"
  /\ IF \A s \in Elements(Rovers) \cup {job.base} : Usable(s)
     THEN /\ queue' = [k \in DOMAIN Rovers |-> Definition(Rovers[k])]
          /\ executed' = {<<job.base, s>> : s \in Elements(Rovers)}
          /\ pc' = "measure"
          /\ UNCHANGED <<plan, registry, gate, measured, print, answer>>
     ELSE Raise
  /\ UNCHANGED <<inputs, job, disk, bounds>>

-----------------------------------------------------------------------------
(* prepare_or_run_experiment, on the definition at the head of the queue.   *)
def == Head(queue)
id == def.id

\* The next definition, or the tables, or the end of the process.
Proceed ==
  IF Len(queue) > 1
  THEN /\ queue' = Tail(queue) /\ pc' = "measure"
       /\ UNCHANGED <<plan, registry, gate, executed, measured, print, answer>>
  ELSE IF job.phase /\ ~job.dry
       THEN pc' = "finalise" /\ UNCHANGED <<process, answer>>
       ELSE Return("done")

InputObjects ==
  <<[recorded |-> def.base.recorded, observed |-> inputs.observation[def.base.station]],
    [recorded |-> def.rover.recorded, observed |-> inputs.observation[def.rover.station]]>>
  \o [k \in DOMAIN def.navigation |->
        [recorded |-> def.navigation[k], observed |-> inputs.navigation]]

Located == {"coordinates_verified", "reference_frame_verified", "coordinate_epoch_verified"}

\* The configuration holds the base's coordinate, or says which part of it is missing.
Config == IF Located \subseteq def.gate THEN def.base.ecef ELSE Unavailable

\* Mutant: the contents of the inputs are left out.
FingerprintOfNames(objects) ==
  [stations |-> <<def.base.station, def.rover.station>>, start |-> def.start, end |-> def.end,
   config |-> Config]

\* _material_fingerprint: not the rover's coordinate, which the residuals are taken against.
Fingerprint(objects) ==
  [stations |-> <<def.base.station, def.rover.station>>, start |-> def.start, end |-> def.end,
   observed |-> [k \in DOMAIN objects |-> objects[k].observed], config |-> Config]

Measure ==
  /\ pc = "measure"
  /\ LET fp == Fingerprint(InputObjects)
     IN  IF \/ inputs.rtklib = "absent"
            \/ manifest[id] # NoManifest /\ manifest[id].print # fp
         THEN Raise
         ELSE /\ measured' = [rtklib |-> inputs.rtklib, inputs |-> InputObjects]
              /\ print' = fp
              /\ pc' = "stage"
              /\ UNCHANGED <<plan, registry, gate, queue, executed, answer>>
  /\ UNCHANGED <<inputs, job, disk, bounds>>

Write(file, value) == files' = [files EXCEPT ![id][file] = value]

\* The directories, the configuration and the input manifest.
Stage ==
  /\ pc = "stage"
  /\ Write("staged", runs)
  /\ pc' = "check"
  /\ UNCHANGED <<inputs, job, process, manifest, audit, analysis, aggregates, answer, bounds>>

Distance ==
  IF Located \subseteq def.gate /\ def.base.ecef # NoEcef /\ def.rover.ecef # NoEcef
  THEN IF def.base.ecef > def.rover.ecef THEN def.base.ecef - def.rover.ecef
       ELSE def.rover.ecef - def.base.ecef
  ELSE Unavailable

Manifest(status, metrics) ==
  [by |-> runs, status |-> status, print |-> print, inputs |-> measured.inputs,
   gate |-> def.gate, frames |-> {def.base.frame, def.rover.frame},
   base |-> def.base.station, base_ecef |-> def.base.ecef, rover |-> def.rover.station,
   start |-> def.start, end |-> def.end, distance |-> Distance, metrics |-> metrics]

Conclude(status, metrics) == manifest' = [manifest EXCEPT ![id] = Manifest(status, metrics)]

\* Mutant: an input without a recorded hash is not compared, and not refused.
InputsVerifiedIfRecorded(objects, verified) ==
  \A k \in DOMAIN objects :
    /\ objects[k].observed # 0
    /\ objects[k].recorded # 0 => objects[k].recorded = objects[k].observed

InputsVerified(objects, verified) ==
  \A k \in DOMAIN objects :
    /\ objects[k].observed # 0
    /\ "hashes_verified" \in verified => objects[k].recorded # 0
    /\ objects[k].recorded # 0 => objects[k].recorded = objects[k].observed

CoordinatesConsistent ==
  "coordinates_verified" \in def.gate =>
    \A s \in {def.base, def.rover} :
      s.ecef # NoEcef /\ (s.geodetic # NoEcef => s.geodetic = s.ecef)

Runnable ==
  /\ def.navigation # << >>
  /\ InputsVerified(measured.inputs, def.gate)
  /\ CoordinatesConsistent
  /\ def.gate = Conditions
  /\ def.base.frame = def.rover.frame

\* A blocked experiment is recorded, and then stops the process unless nothing was to run.
\* A binary that is not the recorded one stops it without a record.
Block ==
  /\ pc = "check" /\ ~Runnable
  /\ Conclude("blocked", NoMetrics)
  /\ IF job.dry THEN Proceed ELSE Raise
  /\ UNCHANGED <<inputs, job, files, audit, analysis, aggregates, bounds>>

Drift ==
  /\ pc = "check" /\ Runnable /\ measured.rtklib # "recorded"
  /\ Raise
  /\ UNCHANGED <<inputs, job, disk, bounds>>

DryRun ==
  /\ pc = "check" /\ Runnable /\ measured.rtklib = "recorded" /\ job.dry
  /\ Conclude("dry_run_ready", NoMetrics)
  /\ Proceed
  /\ UNCHANGED <<inputs, job, files, audit, analysis, aggregates, bounds>>

Launch ==
  /\ pc = "check" /\ Runnable /\ measured.rtklib = "recorded" /\ ~job.dry
  /\ pc' = "run"
  /\ UNCHANGED <<inputs, job, process, disk, answer, bounds>>

(* rnx2rtkp.  It leaves a solution, or the file as it was, and exits with   *)
(* zero or not; after 300 seconds it is killed and the process with it.     *)
Solutions == {[by |-> runs, header |-> o.header, malformed |-> o.malformed, epochs |-> o.epochs] :
                o \in Outputs}

Left == IF pc = "run" THEN Solutions \cup {files[id].solution} ELSE {}

Run(exit, solution) ==
  /\ pc = "run"
  /\ Write("solution", solution)
  /\ IF exit = "zero" /\ solution \in Solutions THEN UNCHANGED faults
     ELSE faults < MaxFaults /\ faults' = faults + 1
  /\ CASE exit = "zero" -> pc' = "parse" /\ UNCHANGED <<process, manifest, answer>>
       [] exit = "nonzero" -> Conclude("failed_rtklib", NoMetrics) /\ Proceed
       [] exit = "timeout" -> Raise /\ UNCHANGED manifest
  /\ UNCHANGED <<inputs, job, audit, analysis, aggregates, runs, changes>>

solved == files[id].solution

Readable == ParsesStrictly(solved) /\ WithinWindow(solved.epochs, def.start, def.end)

\* Where there is no file to parse, nothing is caught.  Where there are epochs but the
\* sampling rate is not positive, expected_epochs raises.
Parse ==
  /\ pc = "parse"
  /\ \/ /\ solved.by = 0 \/ (Readable /\ solved.epochs # << >> /\ def.step <= 0)
        /\ Raise /\ UNCHANGED manifest
     \/ /\ solved.by # 0 /\ ~Readable
        /\ Conclude("failed_output_format", NoMetrics) /\ Proceed
     \/ /\ solved.by # 0 /\ Readable /\ solved.epochs = << >>
        /\ Conclude("failed_no_solution", NoMetrics) /\ Proceed
     \/ /\ solved.by # 0 /\ Readable /\ solved.epochs # << >> /\ def.step > 0
        /\ pc' = "epochs" /\ UNCHANGED <<process, manifest, answer>>
  /\ UNCHANGED <<inputs, job, files, audit, analysis, aggregates, bounds>>

WriteEpochs ==
  /\ pc = "epochs"
  /\ Write("epochs", [by |-> runs, list |-> solved.epochs])
  /\ pc' = IF def.rover.geodetic = NoEcef THEN "metrics" ELSE "residuals"
  /\ UNCHANGED <<inputs, job, process, manifest, audit, analysis, aggregates, answer, bounds>>

WriteResiduals ==
  /\ pc = "residuals"
  /\ Write("residuals", runs)
  /\ pc' = "metrics"
  /\ UNCHANGED <<inputs, job, process, manifest, audit, analysis, aggregates, answer, bounds>>

Metrics ==
  LET state == SolutionStateMetrics(solved.epochs, def.start, def.end, def.step)
  IN  [solutions |-> state.solutions, expected |-> state.expected, fixes |-> state.fixes,
       ttff |-> state.ttff,
       residuals |-> IF def.rover.geodetic = NoEcef THEN << >>
                     ELSE Residuals(solved.epochs, def.rover.geodetic)]

\* metrics.json, and summary.json which repeats it.
WriteMetrics ==
  /\ pc = "metrics"
  /\ Write("metrics", runs)
  /\ pc' = "complete"
  /\ UNCHANGED <<inputs, job, process, manifest, audit, analysis, aggregates, answer, bounds>>

Complete ==
  /\ pc = "complete"
  /\ Conclude("complete", Metrics)
  /\ Proceed
  /\ UNCHANGED <<inputs, job, files, audit, analysis, aggregates, bounds>>

-----------------------------------------------------------------------------
(* _finalise_analysis, reached only when no experiment stopped the phase.   *)
Rows == AnalysisRows([e \in executed |-> manifest[e]])

WriteAnalysis ==
  /\ pc = "finalise"
  /\ analysis' = [by |-> runs, rows |-> Rows]
  /\ pc' = "aggregate"
  /\ UNCHANGED <<inputs, job, process, manifest, files, audit, aggregates, answer, bounds>>

WriteAggregates ==
  /\ pc = "aggregate"
  /\ aggregates' = [by |-> runs, groups |-> PerBaselineAggregates(analysis.rows)]
  /\ Return("summarised")
  /\ UNCHANGED <<inputs, job, manifest, files, audit, analysis, bounds>>

-----------------------------------------------------------------------------
Crash ==
  /\ pc # "idle"
  /\ faults < MaxFaults /\ faults' = faults + 1
  /\ Return("killed")
  /\ UNCHANGED <<inputs, job, disk, runs, changes>>

(* The other phases write their outputs again.  An input changes between    *)
(* two processes, or before a step of this one that reads it.               *)
Change ==
  /\ pc \in {"idle", "audit", "define", "measure"}
  /\ changes < MaxChanges /\ changes' = changes + 1
  /\ inputs' \in OtherInputs \ {inputs}
  /\ UNCHANGED <<pc, job, process, disk, answer, runs, faults>>

Next ==
  \/ \E j \in Jobs : Begin(j)
  \/ Resolve \/ Audit \/ Define
  \/ Measure \/ Stage \/ Block \/ Drift \/ DryRun \/ Launch
  \/ \E s \in Left, exit \in {"zero", "nonzero", "timeout"} : Run(exit, s)
  \/ Parse \/ WriteEpochs \/ WriteResiduals \/ WriteMetrics \/ Complete
  \/ WriteAnalysis \/ WriteAggregates
  \/ Crash \/ Change

Spec == Init /\ [][Next]_vars

-----------------------------------------------------------------------------
(* Type invariant: every file is by some run, and the process knows only    *)
(* what its step needs.                                                     *)
TypeOK ==
  /\ inputs \in OtherInputs \cup {FirstInputs}
  /\ job \in Jobs
  /\ gate \subseteq Conditions /\ audit \subseteq Conditions
  /\ executed \subseteq Experiments
  /\ \A k \in DOMAIN queue : queue[k].id \in Experiments
  /\ \A e \in Experiments :
       manifest[e].by \in 0..runs /\ files[e].solution.by \in 0..runs
  /\ pc = "idle" => Idle
  /\ runs \in 0..MaxRuns /\ changes \in 0..MaxChanges /\ faults \in 0..MaxFaults

Ran == {"failed_rtklib", "failed_output_format", "failed_no_solution", "complete"}

(* RTKLIB has never been run on behalf of an experiment, whoever wrote its  *)
(* definition and whatever changed since, unless the whole Phase 2 gate was *)
(* open, every input was there with the contents its recorded hash names,   *)
(* and base and rover were in one reference frame.                          *)
GatedRun ==
  \A e \in Experiments :
    LET m == manifest[e]
    IN  m # NoManifest /\ m.status \in Ran =>
          /\ m.gate = Conditions
          /\ \A k \in DOMAIN m.inputs :
               m.inputs[k].observed # 0 /\ m.inputs[k].recorded = m.inputs[k].observed
          /\ Cardinality(m.frames) = 1

Material(m) ==
  [stations |-> <<m.base, m.rover>>, start |-> m.start, end |-> m.end,
   contents |-> [k \in DOMAIN m.inputs |-> m.inputs[k].observed]]

(* Once an id has a manifest it stands for one pair of stations, one window *)
(* and the same input contents for good, and every execution under it for   *)
(* one base coordinate: no rerun, dry run or foreign definition with the    *)
(* same id puts others in its place.                                        *)
IdKeepsInputs ==
  [][\A e \in Experiments :
       manifest[e] # NoManifest =>
         /\ manifest'[e] # NoManifest
         /\ Material(manifest'[e]) = Material(manifest[e])
         /\ {manifest[e].status, manifest'[e].status} \subseteq Ran => manifest'[e].base_ecef = manifest[e].base_ecef]_vars

(* What a complete experiment reports was measured: its epochs are all in   *)
(* its window, also when a later run of it was killed while rewriting them, *)
(* no more of them are counted than the window can hold, and the first fix  *)
(* is one of them.                                                          *)
CompleteMeasured ==
  \A e \in Experiments :
    LET m == manifest[e]
    IN  m # NoManifest /\ m.status = "complete" =>
          /\ files[e].epochs.list # << >>
          /\ \A k \in DOMAIN files[e].epochs.list : files[e].epochs.list[k].t \in m.start..m.end
          /\ m.metrics.fixes <= m.metrics.solutions
          /\ m.metrics.solutions \in 1..m.metrics.expected
          /\ m.metrics.ttff # NoFix <=> m.metrics.fixes > 0
          /\ m.metrics.ttff <= m.end - m.start

(* The tables a phase returns are of its own experiments only, one row for  *)
(* each whatever became of it, and the mean fix rate of a baseline is taken *)
(* over exactly those that completed: a failure is neither lost nor         *)
(* averaged in, and an earlier run's result never stands in for it.         *)
TablesOfRun ==
  answer = "summarised" =>
    LET own == {e \in Experiments : manifest[e].by = runs}
        complete == {e \in own : manifest[e].status = "complete"}
        rate(e) == <<e, manifest[e].metrics.fixes, manifest[e].metrics.solutions>>
    IN  /\ analysis.by = runs /\ aggregates.by = runs
        /\ {row.id : row \in analysis.rows} = own
        /\ UNION {aggregates.groups[p].rates : p \in DOMAIN aggregates.groups} = {rate(e) : e \in complete}
=============================================================================
