-------------------------- MODULE SingleBaseProofs --------------------------
(***************************************************************************)
(* RTKLIB runs only behind the whole gate, an experiment's identifier keeps *)
(* its inputs, and the tables of a phase are of its own experiments: for    *)
(* every set of jobs, stations, solutions and input changes.                *)
(***************************************************************************)
EXTENDS SingleBase, FiniteSetTheorems, WellFoundedInduction, SequenceTheorems, TLAPS

\* From the measurement of its inputs to its last manifest.
Preparing ==
  {"stage", "check", "run", "parse", "epochs", "residuals", "metrics", "complete"}
Launched == Preparing \ {"stage", "check"}

\* What the gate of a run leaves in its manifest.
Gated(m) ==
  /\ m.gate = Conditions
  /\ \A k \in DOMAIN m.inputs :
       m.inputs[k].observed # 0 /\ m.inputs[k].recorded = m.inputs[k].observed
  /\ Cardinality(m.frames) = 1

\* A manifest's fingerprint is the one of what it says, and who ran was gated.
Faithful(m) ==
  /\ m.print = [stations |-> <<m.base, m.rover>>, start |-> m.start, end |-> m.end,
                observed |-> [k \in DOMAIN m.inputs |-> m.inputs[k].observed],
                config |-> IF Located \subseteq m.gate THEN m.base_ecef ELSE Unavailable]
  /\ m.status \in Ran => Gated(m)

\* The current experiment was fingerprinted, and its identifier was free or had
\* that fingerprint; nobody else writes manifests.
Current ==
  /\ print = Fingerprint(measured.inputs)
  /\ manifest[id] = NoManifest \/ manifest[id].print = print

PrintInv ==
  /\ DOMAIN manifest = Experiments
  /\ runs \in Nat
  /\ pc # "idle" => runs # 0
  /\ \A e \in Experiments : manifest[e] # NoManifest => Faithful(manifest[e])
  /\ pc \in Preparing /\ id \in Experiments => Current
  /\ pc \in Launched => Runnable

\* What a manifest stands for can be read off its fingerprint.
LEMMA MaterialOfPrint ==
  ASSUME NEW m, Faithful(m)
  PROVE  /\ Material(m) = [stations |-> m.print.stations, start |-> m.print.start,
                           end |-> m.print.end, contents |-> m.print.observed]
         /\ m.status \in Ran => m.print.config = m.base_ecef
<1>1. Located \subseteq Conditions
  BY DEF Located, Conditions
<1>2. QED
  BY <1>1 DEF Faithful, Material, Gated

\* What the check lets through is gated: with every condition met each input has a
\* recorded hash, and it is the one observed.
LEMMA RunnableIsGated ==
  ASSUME Runnable, NEW status, NEW metrics
  PROVE  Gated(Manifest(status, metrics))
<1> DEFINE m == Manifest(status, metrics)
<1>1. m.gate = Conditions /\ m.inputs = measured.inputs /\ m.frames = {def.base.frame}
  BY DEF Runnable, Manifest
<1>2. "hashes_verified" \in def.gate
  BY DEF Runnable, Conditions
<1>3. ASSUME NEW k \in DOMAIN measured.inputs
      PROVE  measured.inputs[k].observed # 0 /\ measured.inputs[k].recorded = measured.inputs[k].observed
  BY <1>2 DEF Runnable, InputsVerified
<1>4. Cardinality(m.frames) = 1
  BY <1>1, FS_Singleton
<1>5. QED
  BY <1>1, <1>3, <1>4 DEF Gated

\* The manifest that the process writes is faithful if its run was gated.
LEMMA ManifestFaithful ==
  ASSUME print = Fingerprint(measured.inputs), NEW status, NEW metrics,
         status \in Ran => Runnable
  PROVE  /\ Faithful(Manifest(status, metrics))
         /\ Manifest(status, metrics).print = print
         /\ Manifest(status, metrics).by = runs
<1>1. status \in Ran => Gated(Manifest(status, metrics))
  BY RunnableIsGated
<1>2. Manifest(status, metrics).status = status
  BY DEF Manifest
<1>3. QED
  BY <1>1, <1>2 DEF Faithful, Manifest, Fingerprint, Config

\* A step writes no manifest, or one of the current experiment.
Writes ==
  \E status, metrics :
    /\ pc \in Preparing
    /\ status \in Ran => Runnable
    /\ Conclude(status, metrics)

LEMMA OnlyConclusions ==
  ASSUME PrintInv, [Next]_vars
  PROVE  manifest' = manifest \/ Writes
<1>1. CASE Block \/ DryRun
  <2>1. pc \in Preparing
    BY <1>1 DEF Block, DryRun, Preparing
  <2>2. {"blocked", "dry_run_ready"} \cap Ran = {}
    BY DEF Ran
  <2>3. QED
    BY <1>1, <2>1, <2>2 DEF Block, DryRun, Writes
<1>2. CASE Parse \/ Complete \/ \E s \in Left, exit \in {"zero", "nonzero", "timeout"} : Run(exit, s)
  <2>1. pc \in Preparing /\ Runnable
    BY <1>2 DEF Parse, Complete, Run, Preparing, Launched, PrintInv
  <2>2. QED
    BY <1>2, <2>1 DEF Parse, Complete, Run, Writes
<1>3. CASE \/ \E j \in Jobs : Begin(j)
           \/ Resolve \/ Audit \/ Define \/ Measure \/ Stage \/ Drift \/ Launch
           \/ WriteEpochs \/ WriteResiduals \/ WriteMetrics
           \/ WriteAnalysis \/ WriteAggregates \/ Crash \/ Change \/ UNCHANGED vars
  BY <1>3 DEF Begin, Resolve, Audit, Define, Measure, Stage, Drift, Launch,
     WriteEpochs, WriteResiduals, WriteMetrics, WriteAnalysis, WriteAggregates,
     Crash, Change, vars, disk
<1>4. QED
  BY <1>1, <1>2, <1>3 DEF Next

\* What a conclusion does to the manifests.
LEMMA Concluded ==
  ASSUME PrintInv, Writes, NEW e \in Experiments
  PROVE  \/ manifest'[e] = manifest[e]
         \/ /\ e = id
            /\ manifest'[e] # NoManifest
            /\ Faithful(manifest'[e])
            /\ manifest'[e].print = print
            /\ manifest[e] = NoManifest \/ manifest[e].print = print
<1> SUFFICES ASSUME manifest'[e] # manifest[e]
             PROVE  /\ e = id
                    /\ manifest'[e] # NoManifest
                    /\ Faithful(manifest'[e])
                    /\ manifest'[e].print = print
                    /\ manifest[e] = NoManifest \/ manifest[e].print = print
  OBVIOUS
<1>1. PICK status, metrics :
        /\ pc \in Preparing
        /\ status \in Ran => Runnable
        /\ manifest' = [manifest EXCEPT ![id] = Manifest(status, metrics)]
  BY DEF Writes, Conclude
<1>2. e = id /\ manifest'[e] = Manifest(status, metrics)
  BY <1>1 DEF PrintInv
<1>3. Current
  BY <1>1, <1>2 DEF PrintInv
<1>4. /\ Faithful(Manifest(status, metrics))
      /\ Manifest(status, metrics).print = print
      /\ Manifest(status, metrics).by = runs
  BY <1>1, <1>3, ManifestFaithful DEF Current
<1>5. runs # 0
  BY <1>1 DEF PrintInv, Preparing
<1>6. Manifest(status, metrics) # NoManifest
  BY <1>4, <1>5 DEF NoManifest
<1>7. QED
  BY <1>2, <1>3, <1>4, <1>6 DEF Current

\* Where a step leads that is about the same definition as before.
LEMMA SameDefinition ==
  ASSUME PrintInv, [Next]_vars
  PROVE  \/ pc' \notin Preparing
         \/ Measure
         \/ /\ pc \in Preparing
            /\ UNCHANGED <<queue, measured, print>>
            /\ manifest' = manifest
            /\ pc' \in Launched => Runnable
<1>1. CASE \E j \in Jobs : Begin(j)
  BY <1>1 DEF Begin, Preparing
<1>2. CASE Resolve \/ Audit \/ Define
  BY <1>2 DEF Resolve, Audit, Define, Raise, Return, Preparing
<1>3. CASE Stage \/ Launch
  BY <1>3 DEF Stage, Launch, Preparing, Launched, process, disk
<1>4. CASE Drift \/ WriteAnalysis \/ WriteAggregates \/ Crash
  BY <1>4 DEF Drift, WriteAnalysis, WriteAggregates, Crash, Raise, Return, Preparing
<1>5. CASE Block \/ DryRun \/ Complete
  BY <1>5 DEF Block, DryRun, Complete, Proceed, Raise, Return, Preparing
<1>6. CASE \E s \in Left, exit \in {"zero", "nonzero", "timeout"} : Run(exit, s)
  BY <1>6 DEF Run, Proceed, Raise, Return, Preparing, Launched, PrintInv, process
<1>7. CASE Parse
  BY <1>7 DEF Parse, Proceed, Raise, Return, Preparing, Launched, PrintInv, process
<1>8. CASE WriteEpochs \/ WriteResiduals \/ WriteMetrics
  BY <1>8 DEF WriteEpochs, WriteResiduals, WriteMetrics, Preparing, Launched, PrintInv, process
<1>9. CASE Change
  BY <1>9 DEF Change, Preparing
<1>10. CASE UNCHANGED vars
  BY <1>10 DEF vars, process, disk, PrintInv
<1>11. QED
  BY <1>1, <1>2, <1>3, <1>4, <1>5, <1>6, <1>7, <1>8, <1>9, <1>10 DEF Next

LEMMA PrintInit == Init => PrintInv
  BY DEF Init, PrintInv, NoManifest, Preparing, Launched

LEMMA PrintStep == PrintInv /\ [Next]_vars => PrintInv'
<1> SUFFICES ASSUME PrintInv, [Next]_vars
             PROVE  PrintInv'
  OBVIOUS
<1>1. DOMAIN manifest' = Experiments
  BY OnlyConclusions DEF PrintInv, Writes, Conclude
<1>2. runs' \in Nat /\ (pc' # "idle" => runs' # 0)
  <2>1. CASE \E j \in Jobs : Begin(j)
    BY <2>1 DEF Begin, PrintInv
  <2>2. CASE Resolve \/ Audit \/ Define \/ Measure \/ Stage \/ Block \/ Drift \/ DryRun \/ Launch
    BY <2>2 DEF Resolve, Audit, Define, Measure, Stage, Block, Drift, DryRun, Launch,
       PrintInv, bounds
  <2>3. CASE \E s \in Left, exit \in {"zero", "nonzero", "timeout"} : Run(exit, s)
    BY <2>3 DEF Run, PrintInv
  <2>4. CASE Parse \/ WriteEpochs \/ WriteResiduals \/ WriteMetrics \/ Complete
             \/ WriteAnalysis \/ WriteAggregates
    BY <2>4 DEF Parse, WriteEpochs, WriteResiduals, WriteMetrics, Complete, WriteAnalysis,
       WriteAggregates, PrintInv, bounds
  <2>5. CASE Crash \/ Change \/ UNCHANGED vars
    BY <2>5 DEF Crash, Change, Return, vars, bounds, PrintInv
  <2>6. QED
    BY <2>1, <2>2, <2>3, <2>4, <2>5 DEF Next
<1>3. ASSUME NEW e \in Experiments, manifest'[e] # NoManifest
      PROVE  Faithful(manifest'[e])
  BY <1>3, OnlyConclusions, Concluded DEF PrintInv
<1>4. (pc \in Preparing /\ id \in Experiments => Current)'
  <2>1. CASE Measure
    BY <2>1 DEF Measure, Raise, Return, Preparing, Current, Fingerprint, Config, def, id, disk
  <2>2. CASE pc \in Preparing /\ UNCHANGED <<queue, measured, print>> /\ manifest' = manifest
    BY <2>2 DEF PrintInv, Current, Fingerprint, Config, def, id
  <2>3. QED
    BY <2>1, <2>2, SameDefinition
<1>5. (pc \in Launched => Runnable)'
  <2>1. CASE Measure
    BY <2>1 DEF Measure, Raise, Return, Preparing, Launched
  <2>2. CASE UNCHANGED <<queue, measured>> /\ (pc' \in Launched => Runnable)
    BY <2>2 DEF Runnable, InputsVerified, CoordinatesConsistent, def
  <2>3. CASE pc' \notin Preparing
    BY <2>3 DEF Launched
  <2>4. QED
    BY <2>1, <2>2, <2>3, SameDefinition
<1>6. QED
  BY <1>1, <1>2, <1>3, <1>4, <1>5 DEF PrintInv

\* RTKLIB runs for nobody unless the whole gate was open, every input there with the
\* contents its recorded hash names, and base and rover in one reference frame.
THEOREM RunsAreGated == Spec => []GatedRun
<1>1. PrintInv => GatedRun
  BY DEF PrintInv, Faithful, Gated, GatedRun
<1>2. QED
  BY PrintInit, PrintStep, <1>1, PTL DEF Spec

\* Whoever reruns it, dry or not, or gives its identifier to a definition of
\* their own: an experiment keeps its stations, window and input contents, and
\* its executions keep the base's coordinate (prepare_or_run_experiment).
THEOREM IdentifierKeepsInputs == Spec => IdKeepsInputs
<1> DEFINE Keeps ==
      \A e \in Experiments :
        manifest[e] # NoManifest =>
          /\ manifest'[e] # NoManifest
          /\ Material(manifest'[e]) = Material(manifest[e])
          /\ {manifest[e].status, manifest'[e].status} \subseteq Ran
               => manifest'[e].base_ecef = manifest[e].base_ecef
<1>1. PrintInv /\ [Next]_vars => Keeps
  <2> SUFFICES ASSUME PrintInv, [Next]_vars, NEW e \in Experiments, manifest[e] # NoManifest
               PROVE  /\ manifest'[e] # NoManifest
                      /\ Material(manifest'[e]) = Material(manifest[e])
                      /\ {manifest[e].status, manifest'[e].status} \subseteq Ran
                           => manifest'[e].base_ecef = manifest[e].base_ecef
    OBVIOUS
  <2>1. CASE manifest'[e] = manifest[e]
    BY <2>1
  <2>2. CASE /\ manifest'[e] # NoManifest /\ Faithful(manifest'[e])
             /\ manifest'[e].print = print /\ manifest[e].print = print
    BY <2>2, MaterialOfPrint DEF PrintInv
  <2>3. QED
    BY <2>1, <2>2, OnlyConclusions, Concluded
<1>2. Keeps => [Keeps]_vars
  OBVIOUS
<1>3. QED
  BY PrintInit, PrintStep, <1>1, PTL DEF Spec, IdKeepsInputs

-----------------------------------------------------------------------------
(* Numbers: the ends of a common window exist, and a window holds no more   *)
(* spaced rows than ExpectedEpochs says.                                    *)
LEMMA LeastNat ==
  ASSUME NEW N, N \subseteq Nat, N # {}
  PROVE  \E n \in N : \A m \in N : n <= m
<1> DEFINE R == OpToRel(<, Nat)
<1>1. IsWellFoundedOn(R, Nat)
  BY NatLessThanWellFounded, Zenon
<1>2. \A i, j \in Nat : i < j => <<i, j>> \in R
  BY DEF OpToRel
<1> HIDE DEF R
<1>3. PICK n \in N : \A m \in N : ~(<<m, n>> \in R)
  BY <1>1, WFMin, Zenon
<1>4. n \in Nat /\ \A m \in N : m \in Nat /\ ~(m < n)
  BY <1>2, <1>3
<1>5. QED
  BY <1>4

LEMMA HasLargest ==
  ASSUME NEW n \in Nat \ {0}, NEW f \in [1..n -> Int]
  PROVE  \E i \in 1..n : \A j \in 1..n : f[j] <= f[i]
<1> DEFINE Holds(m) == \E i \in 1..m : \A j \in 1..m : f[j] <= f[i]
           N == {m \in 1..n : ~Holds(m)}
<1>1. ASSUME N # {} PROVE FALSE
  <2>1. PICK m \in N : \A k \in N : m <= k
    BY <1>1, LeastNat, N \subseteq Nat
  <2>2. m \in 1..n /\ ~Holds(m) /\ m # 1
    BY <2>1
  <2>3. m - 1 \in 1..n /\ ~(m <= m - 1)
    BY <2>2
  <2>4. Holds(m - 1)
    BY <2>1, <2>3
  <2>5. PICK i \in 1..(m - 1) : \A j \in 1..(m - 1) : f[j] <= f[i]
    BY <2>4
  <2>6. \A j \in 1..m : f[j] \in Int /\ (j = m \/ j \in 1..(m - 1))
    BY <2>2
  <2>7. CASE f[m] <= f[i]
    BY <2>2, <2>3, <2>5, <2>6, <2>7
  <2>8. CASE f[i] <= f[m]
    BY <2>2, <2>3, <2>5, <2>6, <2>8
  <2>9. QED
    BY <2>2, <2>5, <2>6, <2>7, <2>8
<1>2. n \in 1..n
  OBVIOUS
<1>3. Holds(n)
  BY <1>1, <1>2
<1>4. QED
  BY <1>3

\* Rows at least d apart.
Spaced(epochs, d) == \A k \in 1..(Len(epochs) - 1) : epochs[k + 1].t - epochs[k].t >= d

SolutionRows == Seq([t : Int, q : Int, at : Int])

LEMMA SpacedFromFirst ==
  ASSUME NEW epochs \in SolutionRows, NEW d \in Nat, Spaced(epochs, d),
         NEW n \in 1..Len(epochs)
  PROVE  epochs[n].t >= epochs[1].t + d * (n - 1)
<1> DEFINE t(k) == epochs[k].t
           N == {m \in 1..Len(epochs) : ~(t(m) >= t(1) + d * (m - 1))}
<1>1. /\ Len(epochs) \in Nat
      /\ \A k \in 1..Len(epochs) : t(k) \in Int
  <2>1. Len(epochs) \in Nat
    BY LenProperties DEF SolutionRows
  <2>2. ASSUME NEW k \in 1..Len(epochs) PROVE epochs[k] \in [t : Int, q : Int, at : Int]
    BY <2>1, ElementOfSeq DEF SolutionRows
  <2>3. QED
    BY <2>1, <2>2
<1>2. \A k \in 1..(Len(epochs) - 1) : t(k + 1) - t(k) >= d
  BY DEF Spaced
<1> HIDE DEF t
<1>3. ASSUME N # {} PROVE FALSE
  <2>1. PICK m \in N : \A k \in N : m <= k
    BY <1>1, <1>3, LeastNat, N \subseteq Nat
  <2>2. m \in 1..Len(epochs) /\ ~(t(m) >= t(1) + d * (m - 1))
    BY <2>1
  <2>3. m # 1
    BY <1>1, <2>2
  <2>4. m - 1 \in 1..(Len(epochs) - 1) /\ m - 1 \in 1..Len(epochs) /\ ~(m <= m - 1)
    BY <1>1, <2>2, <2>3
  <2>5. t(m - 1) >= t(1) + d * ((m - 1) - 1)
    BY <2>1, <2>4
  <2>6. t(m) - t(m - 1) >= d
    BY <1>2, <2>2, <2>4
  <2>7. t(m) \in Int /\ t(m - 1) \in Int /\ t(1) \in Int
    BY <1>1, <2>2, <2>4
  <2>8. d * ((m - 1) - 1) + d = d * (m - 1) /\ d * ((m - 1) - 1) \in Int /\ d * (m - 1) \in Int
    BY <2>2, <1>1
  <2>9. QED
    BY <2>2, <2>5, <2>6, <2>7, <2>8
<1>4. t(n) >= t(1) + d * (n - 1)
  BY <1>3
<1>5. QED
  BY <1>4 DEF t

LEMMA WindowHolds ==
  ASSUME NEW n \in Nat \ {0}, NEW d \in Nat \ {0}, NEW D \in Int, d * (n - 1) <= D
  PROVE  n <= D \div d + 1
<1> DEFINE q == D \div d
<1>1. q \in Int /\ D < d * (q + 1)
  OBVIOUS
<1>2. ASSUME q + 1 <= n - 1 PROVE FALSE
  <2>1. d * (q + 1) <= d * (n - 1)
    BY <1>1, <1>2
  <2>2. d * (q + 1) \in Int /\ d * (n - 1) \in Int
    BY <1>1
  <2>3. QED
    BY <1>1, <2>1, <2>2
<1>3. QED
  BY <1>1, <1>2

\* What the metrics of a solution say when its rows are in the window and as far
\* apart as the data.
Reported(m, list) ==
  /\ list # << >>
  /\ \A k \in DOMAIN list : list[k].t \in m.start..m.end
  /\ m.metrics.fixes <= m.metrics.solutions
  /\ m.metrics.solutions \in 1..m.metrics.expected
  /\ m.metrics.ttff # NoFix <=> m.metrics.fixes > 0
  /\ m.metrics.ttff <= m.end - m.start

LEMMA MetricsSound ==
  ASSUME NEW epochs \in SolutionRows, epochs # << >>, NEW start \in Int, NEW end \in Int,
         NEW step \in Nat \ {0}, WithinWindow(epochs, start, end), Spaced(epochs, step),
         NEW m, m.start = start, m.end = end,
         m.metrics.solutions = Len(epochs), m.metrics.expected = ExpectedEpochs(start, end, step),
         m.metrics.fixes = Cardinality(Fixed(epochs)), m.metrics.ttff = TtffSeconds(epochs)
  PROVE  Reported(m, epochs)
<1> DEFINE n == Len(epochs)
           F == Fixed(epochs)
<1>1. n \in Nat \ {0} /\ DOMAIN epochs = 1..n
  <2>1. n \in Nat /\ DOMAIN epochs = 1..n
    BY LenProperties DEF SolutionRows
  <2>2. n # 0
    BY EmptySeq DEF SolutionRows
  <2>3. QED
    BY <2>1, <2>2
<1>2. \A k \in 1..n : epochs[k].t \in Int /\ start <= epochs[k].t /\ epochs[k].t <= end
  BY <1>1 DEF WithinWindow
<1> HIDE DEF n
<1>3. IsFiniteSet(F) /\ Cardinality(F) \in Nat /\ Cardinality(F) <= n
  <2>1. F \subseteq 1..n
    BY <1>1 DEF Fixed
  <2>2. IsFiniteSet(1..n) /\ Cardinality(1..n) = n
    BY <1>1, FS_Interval
  <2>3. QED
    BY <2>1, <2>2, FS_Subset, FS_CardinalityType
<1>4. n <= ExpectedEpochs(start, end, step)
  <2>1. epochs[n].t >= epochs[1].t + step * (n - 1)
    BY <1>1, SpacedFromFirst DEF n
  <2>2. step * (n - 1) \in Int
    BY <1>1
  <2>3. step * (n - 1) <= end - start
    BY <1>1, <1>2, <2>1, <2>2
  <2>4. QED
    <3> DEFINE D == end - start
    <3>1. D \in Int /\ step * (n - 1) <= D
      BY <2>3
    <3> HIDE DEF D
    <3>2. n <= D \div step + 1
      BY <1>1, <3>1, WindowHolds
    <3>3. QED
      BY <3>2 DEF ExpectedEpochs, D
<1>5. /\ TtffSeconds(epochs) # NoFix <=> Cardinality(F) > 0
      /\ TtffSeconds(epochs) <= end - start
  <2>1. CASE F = {}
    <3>1. Cardinality(F) = 0
      BY <2>1, FS_EmptySet
    <3>2. TtffSeconds(epochs) = -1
      BY <2>1 DEF TtffSeconds, NoFix
    <3>3. start <= end
      BY <1>1, <1>2
    <3>4. QED
      BY <3>1, <3>2, <3>3 DEF NoFix
  <2>2. CASE F # {}
    <3>1. Cardinality(F) > 0
      BY <1>3, <2>2, FS_EmptySet
    <3>2. F \subseteq 1..n
      BY <1>1 DEF Fixed
    <3>3. \E k \in F : \A j \in F : k <= j
      BY <2>2, <3>2, LeastNat, 1..n \subseteq Nat
    <3> DEFINE first == CHOOSE k \in F : \A j \in F : k <= j
    <3>4. first \in 1..n
      BY <3>2, <3>3
    <3>5. TtffSeconds(epochs) = epochs[first].t - epochs[1].t
      BY <2>2 DEF TtffSeconds
    <3> HIDE DEF first
    <3>6. epochs[first].t >= epochs[1].t
      <4>1. epochs[first].t >= epochs[1].t + step * (first - 1)
        BY <3>4, SpacedFromFirst DEF n
      <4>2. step * (first - 1) \in Nat
        BY <3>4
      <4>3. QED
        <5>1. epochs[first].t \in Int /\ epochs[1].t \in Int
          BY <1>1, <1>2, <3>4
        <5>2. QED
          BY <4>1, <4>2, <5>1
    <3>7. QED
      BY <1>1, <1>2, <3>1, <3>4, <3>5, <3>6 DEF NoFix
  <2>3. QED
    BY <2>1, <2>2
<1>6. Cardinality(F) \in Nat /\ ExpectedEpochs(start, end, step) \in Int
  BY <1>3 DEF ExpectedEpochs
<1>7. QED
  BY <1>1, <1>2, <1>3, <1>4, <1>5, <1>6 DEF Reported, n

-----------------------------------------------------------------------------
(* The queue: every definition in it names an experiment and has a window.  *)
Working == Preparing \cup {"measure"}

AnyInputs == OtherInputs \cup {FirstInputs}

\* The steps between epochs that a definition may ask for.
Steps ==
  {j.definition.step : j \in {i \in Jobs : ~i.phase}} \cup
  {i.session[FullWindow[1]].step : i \in AnyInputs}

Sound(d) ==
  /\ d.id \in Experiments
  /\ d.start \in Int /\ d.end \in Int /\ d.step \in Steps
  /\ job.phase => d.base.ecef \in Int /\ d.rover.ecef \in Int

IsQueue(q) == q # << >> /\ \E S : q \in Seq(S) /\ \A d \in S : Sound(d)

IsWindow(w) == w.start \in Int /\ w.end \in Int /\ w.step \in Steps

QueueInv ==
  /\ inputs \in AnyInputs
  /\ job \in Jobs
  /\ pc \in {"resolve", "audit", "define", "finalise", "aggregate"} => job.phase
  /\ pc \in {"audit", "define"} => job.base \in Elements(FullWindow) /\ IsWindow(plan.window)
  /\ pc = "define" => \A s \in Stations : registry[s].at \in Int
  /\ pc \in Working => IsQueue(queue)

LEMMA StepsAreInts == Steps \subseteq Int
<1>1. FullWindow[1] \in Stations
  BY SingleBaseAssumption
<1>2. QED
  BY <1>1, JobsAssumption, InputsAssumption DEF Steps, AnyInputs

LEMMA QueueHead ==
  ASSUME NEW q, IsQueue(q)
  PROVE  Sound(Head(q)) /\ Len(q) \in Nat \ {0}
<1>1. PICK S : q \in Seq(S) /\ q # << >> /\ \A d \in S : Sound(d)
  BY DEF IsQueue
<1>2. Head(q) \in S /\ Len(q) \in Nat \ {0}
  BY <1>1, HeadTailProperties, EmptySeq, LenProperties
<1>3. QED
  BY <1>1, <1>2

LEMMA QueueTail ==
  ASSUME NEW q, IsQueue(q), Len(q) > 1
  PROVE  IsQueue(Tail(q))
<1>1. PICK S : q \in Seq(S) /\ q # << >> /\ \A d \in S : Sound(d)
  BY DEF IsQueue
<1>2. Tail(q) \in Seq(S) /\ Len(Tail(q)) = Len(q) - 1
  BY <1>1, HeadTailProperties
<1>3. Tail(q) # << >>
  <2>1. Len(q) \in Nat
    BY <1>1, LenProperties
  <2>2. Len(Tail(q)) # 0
    BY <1>2, <2>1
  <2>3. QED
    BY <1>2, <2>2, EmptySeq
<1>4. QED
  BY <1>1, <1>2, <1>3 DEF IsQueue

\* Where a step leads, seen from the queue.
LEMMA QueueMoves ==
  ASSUME [Next]_vars
  PROVE  \/ pc' \notin Working
         \/ \E j \in Jobs : Begin(j)
         \/ Define
         \/ /\ pc \in Working /\ job' = job
            /\ queue' = queue \/ (Len(queue) > 1 /\ queue' = Tail(queue) /\ pc' = "measure")
<1>1. CASE Resolve \/ Audit
  BY <1>1 DEF Resolve, Audit, Raise, Return, Working, Preparing
<1>2. CASE Measure \/ Stage \/ Launch
  BY <1>2 DEF Measure, Stage, Launch, Raise, Return, Working, Preparing, process
<1>3. CASE Drift \/ Crash
  BY <1>3 DEF Drift, Crash, Raise, Return, Working, Preparing
<1>4. CASE Block \/ DryRun \/ Complete
  BY <1>4 DEF Block, DryRun, Complete, Proceed, Raise, Return, Working, Preparing, process
<1>5. CASE \E s \in Left, exit \in {"zero", "nonzero", "timeout"} : Run(exit, s)
  BY <1>5 DEF Run, Proceed, Raise, Return, Working, Preparing, process
<1>6. CASE Parse
  BY <1>6 DEF Parse, Proceed, Raise, Return, Working, Preparing, process
<1>7. CASE WriteEpochs \/ WriteResiduals \/ WriteMetrics
  BY <1>7 DEF WriteEpochs, WriteResiduals, WriteMetrics, Working, Preparing, process
<1>8. CASE Change \/ UNCHANGED vars
  BY <1>8 DEF Change, vars, process
<1>9. CASE WriteAnalysis \/ WriteAggregates
  BY <1>9 DEF WriteAnalysis, WriteAggregates, Return, Working, Preparing
<1>10. QED
  BY <1>1, <1>2, <1>3, <1>4, <1>5, <1>6, <1>7, <1>8, <1>9 DEF Next

\* The common window of any inputs has ends.
LEMMA WindowHasEnds ==
  ASSUME NEW i \in AnyInputs
  PROVE  IsWindow(CommonWindow(i.session, Elements(FullWindow)))
<1> DEFINE n == Len(FullWindow)
           E == Elements(FullWindow)
           first == [k \in 1..n |-> i.session[FullWindow[k]].first]
           minusLast == [k \in 1..n |-> -i.session[FullWindow[k]].last]
           G == {i.session[s].first : s \in E}
           L == {i.session[s].last : s \in E}
<1>1. n \in Nat \ {0} /\ DOMAIN FullWindow = 1..n /\ \A k \in 1..n : FullWindow[k] \in Stations
  BY SingleBaseAssumption, LenProperties, ElementOfSeq
<1>2. \A k \in 1..n : /\ i.session[FullWindow[k]].first \in Int
                       /\ i.session[FullWindow[k]].last \in Int
  BY <1>1, InputsAssumption DEF AnyInputs
<1> HIDE DEF n
<1>3. Greatest(G) \in Int
  <2>1. first \in [1..n -> Int]
    BY <1>2
  <2>2. PICK k \in 1..n : \A j \in 1..n : first[j] <= first[k]
    BY <1>1, <2>1, HasLargest
  <2>3. first[k] \in G /\ \A y \in G : first[k] >= y
    BY <1>1, <1>2, <2>2 DEF Elements
  <2>4. Greatest(G) \in G
    BY <2>3 DEF Greatest
  <2>5. G \subseteq Int
    BY <1>1, <1>2 DEF Elements
  <2>6. QED
    BY <2>4, <2>5
<1>4. Least(L) \in Int
  <2>1. minusLast \in [1..n -> Int]
    BY <1>2
  <2>2. PICK k \in 1..n : \A j \in 1..n : minusLast[j] <= minusLast[k]
    BY <1>1, <2>1, HasLargest
  <2>3. \A j \in 1..n : i.session[FullWindow[k]].last <= i.session[FullWindow[j]].last
    BY <1>2, <2>2
  <2>4. i.session[FullWindow[k]].last \in L /\ \A y \in L : i.session[FullWindow[k]].last <= y
    BY <1>1, <2>3 DEF Elements
  <2>5. Least(L) \in L
    BY <2>4 DEF Least
  <2>6. L \subseteq Int
    BY <1>1, <1>2 DEF Elements
  <2>7. QED
    BY <2>5, <2>6
<1>5. i.session[FullWindow[1]].step \in Steps
  BY DEF Steps
<1>6. QED
  BY <1>3, <1>4, <1>5 DEF IsWindow, CommonWindow

LEMMA Slice ==
  ASSUME NEW S, NEW q \in Seq(S), NEW m \in Int, NEW l \in Int,
         1 <= m, m <= l + 1, l <= Len(q)
  PROVE  /\ SubSeq(q, m, l) \in Seq(S) /\ Len(SubSeq(q, m, l)) = l - m + 1
         /\ \A k \in 1..(l - m + 1) : SubSeq(q, m, l)[k] = q[m + k - 1]
<1>1. Len(q) \in Nat
  BY LenProperties
<1>2. \A k \in m..l : q[k] \in S
  BY <1>1, ElementOfSeq
<1>3. /\ SubSeq(q, m, l) \in Seq(S)
      /\ Len(SubSeq(q, m, l)) = IF m <= l THEN l - m + 1 ELSE 0
      /\ \A k \in 1..(l - m + 1) : SubSeq(q, m, l)[k] = q[m + k - 1]
  BY <1>2, SubSeqProperties
<1>4. QED
  BY <1>3

\* A phase's definitions name its experiments.
LEMMA RoversKnown ==
  ASSUME job \in Jobs, job.phase, job.base \in Elements(FullWindow)
  PROVE  /\ Rovers \in Seq(Stations)
         /\ Rovers # << >>
         /\ \A s \in Elements(Rovers) : <<job.base, s>> \in Experiments
<1> DEFINE n == Len(FullWindow)
           b == CHOOSE k \in DOMAIN FullWindow : FullWindow[k] = job.base
           before == SubSeq(FullWindow, 1, b - 1)
           after == SubSeq(FullWindow, b + 1, n)
           others == before \o after
           E == Elements(FullWindow)
<1>1. n \in Nat /\ n >= 2 /\ DOMAIN FullWindow = 1..n /\ \A k \in 1..n : FullWindow[k] \in Stations
  BY SingleBaseAssumption, LenProperties, ElementOfSeq
<1>2. b \in 1..n /\ FullWindow[b] = job.base /\ \A k \in 1..n : FullWindow[k] = job.base => k = b
  BY <1>1, SingleBaseAssumption DEF Elements
<1>3. Rovers = others \o job.gaps /\ job.gaps \in Seq(Stations)
  BY JobsAssumption DEF Rovers
<1> HIDE DEF b, n
<1>4. /\ before \in Seq(Stations) /\ Len(before) = b - 1
      /\ \A k \in 1..(b - 1) : before[k] = FullWindow[k]
  <2>1. b - 1 \in Int /\ 1 <= (b - 1) + 1 /\ b - 1 <= n /\ (b - 1) - 1 + 1 = b - 1
    BY <1>1, <1>2
  <2>2. /\ before \in Seq(Stations) /\ Len(before) = (b - 1) - 1 + 1
        /\ \A k \in 1..((b - 1) - 1 + 1) : before[k] = FullWindow[1 + k - 1]
    BY <1>1, <2>1, SingleBaseAssumption, Slice DEF n
  <2>3. \A k \in 1..(b - 1) : 1 + k - 1 = k
    BY <1>1, <1>2
  <2>4. QED
    BY <2>1, <2>2, <2>3
<1>5. /\ after \in Seq(Stations) /\ Len(after) = n - b
      /\ \A k \in 1..(n - b) : after[k] = FullWindow[b + k]
  <2>1. b + 1 \in Int /\ 1 <= b + 1 /\ b + 1 <= n + 1 /\ n - (b + 1) + 1 = n - b
    BY <1>1, <1>2
  <2>2. /\ after \in Seq(Stations) /\ Len(after) = n - (b + 1) + 1
        /\ \A k \in 1..(n - (b + 1) + 1) : after[k] = FullWindow[(b + 1) + k - 1]
    BY <1>1, <2>1, SingleBaseAssumption, Slice DEF n
  <2>3. \A k \in 1..(n - b) : (b + 1) + k - 1 = b + k
    BY <1>1, <1>2
  <2>4. QED
    BY <2>1, <2>2, <2>3
<1> HIDE DEF before, after
<1>6. others \in Seq(Stations) /\ Len(others) = n - 1
  BY <1>1, <1>2, <1>4, <1>5, ConcatProperties
<1>7. \A k \in 1..(n - 1) : others[k] \in E \ {job.base}
  <2>1. ASSUME NEW k \in 1..(n - 1), k <= b - 1 PROVE others[k] = FullWindow[k]
    BY <1>1, <1>2, <1>4, <1>5, <2>1, ConcatProperties
  <2>2. ASSUME NEW k \in 1..(n - 1), k > b - 1 PROVE others[k] = FullWindow[k + 1]
    <3>1. others[k] = after[k - (b - 1)]
      BY <1>1, <1>2, <1>4, <1>5, <2>2, ConcatProperties
    <3>2. k - (b - 1) \in 1..(n - b) /\ b + (k - (b - 1)) = k + 1
      BY <1>1, <1>2, <2>2
    <3>3. QED
      BY <1>5, <3>1, <3>2
  <2>3. ASSUME NEW k \in 1..n, k # b PROVE FullWindow[k] \in E \ {job.base}
    BY <1>1, <1>2, <2>3 DEF Elements
  <2>4. ASSUME NEW k \in 1..(n - 1) PROVE others[k] \in E \ {job.base}
    <3>1. k \in 1..n /\ k + 1 \in 1..n /\ (k <= b - 1 => k # b) /\ (k > b - 1 => k + 1 # b)
      BY <1>1, <1>2
    <3>2. k <= b - 1 \/ k > b - 1
      BY <1>2
    <3>3. QED
      BY <2>1, <2>2, <2>3, <3>1, <3>2
  <2>5. QED
    BY <2>4
<1> HIDE DEF others
<1>8. Rovers \in Seq(Stations) /\ Len(Rovers) = Len(others) + Len(job.gaps)
  BY <1>3, <1>6, ConcatProperties
<1>9. Rovers # << >>
  <2>1. Len(job.gaps) \in Nat
    BY <1>3, LenProperties
  <2>2. QED
    BY <1>1, <1>6, <1>8, <2>1, EmptySeq
<1>10. ASSUME NEW s \in Elements(Rovers) PROVE s \in (E \ {job.base}) \cup Elements(job.gaps)
  <2>1. PICK k \in DOMAIN Rovers : s = Rovers[k]
    BY DEF Elements
  <2>2. k \in 1..(Len(others) + Len(job.gaps)) /\ Len(others) \in Nat /\ Len(job.gaps) \in Nat
    BY <1>3, <1>6, <1>8, <2>1, LenProperties
  <2>3. CASE k <= Len(others)
    <3>1. s = others[k]
      BY <1>3, <1>6, <2>1, <2>2, <2>3, ConcatProperties
    <3>2. QED
      BY <1>6, <1>7, <2>2, <2>3, <3>1
  <2>4. CASE k > Len(others)
    <3>1. s = job.gaps[k - Len(others)]
      BY <1>3, <1>6, <2>1, <2>2, <2>4, ConcatProperties
    <3>2. k - Len(others) \in DOMAIN job.gaps
      BY <1>3, <2>2, <2>4, LenProperties
    <3>3. QED
      BY <3>1, <3>2 DEF Elements
  <2>5. QED
    BY <2>2, <2>3, <2>4
<1>11. \A s \in (E \ {job.base}) \cup Elements(job.gaps) : <<job.base, s>> \in Experiments
  BY JobsAssumption
<1>12. QED
  BY <1>8, <1>9, <1>10, <1>11

\* The steps that read or write what only a phase has.
LEMMA PhaseMoves ==
  ASSUME [Next]_vars
  PROVE  /\ pc' = "resolve" => (\E j \in Jobs : Begin(j)) \/ UNCHANGED <<pc, job>>
         /\ pc' = "audit" => Resolve \/ (pc = "audit" /\ UNCHANGED <<job, plan>>)
         /\ pc' = "define" => Audit \/ (pc = "define" /\ UNCHANGED <<job, plan, registry>>)
         /\ pc' = "finalise" => job' = job /\ (pc = "finalise" \/ (pc \in Working /\ job.phase))
         /\ pc' = "aggregate" => job' = job /\ pc \in {"finalise", "aggregate"}
<1>1. CASE \E j \in Jobs : Begin(j)
  BY <1>1 DEF Begin
<1>2. CASE Resolve \/ Audit \/ Define
  BY <1>2 DEF Resolve, Audit, Define, Raise, Return
<1>3. CASE Measure \/ Stage \/ Launch \/ Drift \/ Crash
  BY <1>3 DEF Measure, Stage, Launch, Drift, Crash, Raise, Return
<1>4. CASE Block \/ DryRun \/ Complete
  BY <1>4 DEF Block, DryRun, Complete, Proceed, Raise, Return, Working, Preparing
<1>5. CASE \E s \in Left, exit \in {"zero", "nonzero", "timeout"} : Run(exit, s)
  BY <1>5 DEF Run, Proceed, Raise, Return, Working, Preparing
<1>6. CASE Parse
  BY <1>6 DEF Parse, Proceed, Raise, Return, Working, Preparing
<1>7. CASE WriteEpochs \/ WriteResiduals \/ WriteMetrics \/ WriteAnalysis \/ WriteAggregates
  BY <1>7 DEF WriteEpochs, WriteResiduals, WriteMetrics, WriteAnalysis, WriteAggregates, Return
<1>8. CASE Change \/ UNCHANGED vars
  BY <1>8 DEF Change, vars, process
<1>9. QED
  BY <1>1, <1>2, <1>3, <1>4, <1>5, <1>6, <1>7, <1>8 DEF Next

LEMMA InputsAndJob ==
  ASSUME [Next]_vars
  PROVE  /\ inputs' = inputs \/ inputs' \in OtherInputs
         /\ job' = job \/ \E j \in Jobs : Begin(j)
<1>1. CASE \/ \E j \in Jobs : Begin(j)
           \/ Resolve \/ Audit \/ Define \/ Measure \/ Stage \/ Block \/ Drift \/ DryRun \/ Launch
  BY <1>1 DEF Begin, Resolve, Audit, Define, Measure, Stage, Block, Drift, DryRun, Launch
<1>2. CASE \/ \E s \in Left, exit \in {"zero", "nonzero", "timeout"} : Run(exit, s)
           \/ Parse \/ WriteEpochs \/ WriteResiduals \/ WriteMetrics \/ Complete
           \/ WriteAnalysis \/ WriteAggregates \/ Crash \/ Change \/ UNCHANGED vars
  BY <1>2 DEF Run, Parse, WriteEpochs, WriteResiduals, WriteMetrics, Complete,
     WriteAnalysis, WriteAggregates, Crash, Change, vars
<1>3. QED
  BY <1>1, <1>2 DEF Next

\* What a job of the operator puts in the queue by itself.
LEMMA OwnQueue ==
  ASSUME NEW j \in Jobs, Begin(j), pc' \in Working
  PROVE  IsQueue(queue)'
<1>1. ~j.phase /\ queue' = <<j.definition>> /\ job' = j
  BY DEF Begin, Working, Preparing
<1>2. Sound(j.definition)'
  BY <1>1, JobsAssumption DEF Sound, Steps
<1>3. queue' \in Seq({j.definition}) /\ queue' # << >>
  BY <1>1
<1>4. QED
  BY <1>2, <1>3 DEF IsQueue

LEMMA DefinedQueue ==
  ASSUME QueueInv, Define, pc' \in Working
  PROVE  IsQueue(queue)'
<1> DEFINE R == Rovers
           D == {Definition(R[k]) : k \in DOMAIN R}
<1>1. /\ job' = job /\ job.phase /\ pc = "define"
      /\ queue' = [k \in DOMAIN R |-> Definition(R[k])]
  BY DEF Define, Raise, Return, Working, Preparing, QueueInv
<1>2. /\ R \in Seq(Stations) /\ R # << >>
      /\ \A s \in Elements(R) : <<job.base, s>> \in Experiments
  BY <1>1, RoversKnown DEF QueueInv
<1> HIDE DEF R
<1>3. Len(R) \in Nat \ {0} /\ DOMAIN R = 1..Len(R) /\ \A k \in DOMAIN R : R[k] \in Stations
  BY <1>2, LenProperties, ElementOfSeq, EmptySeq
<1>4. ASSUME NEW k \in DOMAIN R PROVE Sound(Definition(R[k]))
  <2>1. Definition(R[k]).id \in Experiments
    BY <1>2 DEF Definition, Elements
  <2>2. registry[job.base].at \in Int /\ registry[R[k]].at \in Int
    <3>1. job.base \in Stations
      BY <1>1, SingleBaseAssumption DEF QueueInv, Elements
    <3>2. QED
      BY <1>1, <1>3, <3>1 DEF QueueInv
  <2>3. IsWindow(plan.window)
    BY <1>1 DEF QueueInv
  <2>4. QED
    BY <2>1, <2>2, <2>3 DEF Sound, Definition, StationInput, IsWindow
<1>5. queue' \in Seq(D) /\ queue' # << >>
  <2>1. queue' \in Seq(D) /\ Len(queue') = Len(R)
    BY <1>1, <1>3, IsASeq
  <2>2. QED
    BY <1>3, <2>1, EmptySeq
<1>6. \A d \in D : Sound(d)'
  BY <1>1, <1>4 DEF Sound
<1>7. QED
  BY <1>5, <1>6 DEF IsQueue

LEMMA QueueInit == Init => QueueInv
  BY JobsAssumption DEF Init, QueueInv, AnyInputs, Working, Preparing

LEMMA QueueStep == QueueInv /\ [Next]_vars => QueueInv'
<1> SUFFICES ASSUME QueueInv, [Next]_vars
             PROVE  QueueInv'
  OBVIOUS
<1>1. (inputs \in AnyInputs)'
  BY InputsAndJob DEF QueueInv, AnyInputs
<1>2. (job \in Jobs)'
  BY InputsAndJob DEF QueueInv, Begin
<1>3. (pc \in {"resolve", "audit", "define", "finalise", "aggregate"} => job.phase)'
  <2>1. CASE \E j \in Jobs : Begin(j)
    BY <2>1 DEF Begin
  <2>2. CASE Resolve \/ Audit
    BY <2>2 DEF Resolve, Audit, QueueInv
  <2>3. CASE UNCHANGED job
    BY <2>3, PhaseMoves DEF QueueInv, Begin, Resolve, Audit
  <2>4. QED
    BY <2>1, <2>2, <2>3, InputsAndJob
<1>4. (pc \in {"audit", "define"} => job.base \in Elements(FullWindow) /\ IsWindow(plan.window))'
  <2>1. CASE Resolve /\ pc' = "audit"
    BY <2>1, WindowHasEnds DEF Resolve, Resolvable, Raise, Return, QueueInv
  <2>2. CASE Audit /\ pc' = "define"
    BY <2>2 DEF Audit, Raise, Return, QueueInv, IsWindow
  <2>3. CASE pc \in {"audit", "define"} /\ UNCHANGED <<job, plan>>
    BY <2>3 DEF QueueInv, IsWindow
  <2>4. QED
    BY <2>1, <2>2, <2>3, PhaseMoves
<1>5. (pc = "define" => \A s \in Stations : registry[s].at \in Int)'
  <2>1. CASE Audit /\ pc' = "define"
    BY <2>1, InputsAssumption DEF Audit, Raise, Return, QueueInv, AnyInputs
  <2>2. CASE pc = "define" /\ UNCHANGED <<job, plan, registry>>
    BY <2>2 DEF QueueInv
  <2>3. QED
    BY <2>1, <2>2, PhaseMoves
<1>6. (pc \in Working => IsQueue(queue))'
  <2>1. CASE pc' \in Working /\ pc \in Working /\ job' = job /\ queue' = queue
    BY <2>1 DEF QueueInv, IsQueue, Sound
  <2>2. CASE pc \in Working /\ job' = job /\ Len(queue) > 1 /\ queue' = Tail(queue)
    <3>1. IsQueue(Tail(queue))
      BY <2>2, QueueTail DEF QueueInv
    <3>2. QED
      BY <2>2, <3>1 DEF IsQueue, Sound
  <2>3. QED
    BY <2>1, <2>2, QueueMoves, OwnQueue, DefinedQueue
<1>7. QED
  BY <1>1, <1>2, <1>3, <1>4, <1>5, <1>6 DEF QueueInv

-----------------------------------------------------------------------------
(* The solution that is read, and what is written of it.                    *)
Reading == {"epochs", "residuals", "metrics", "complete"}

FileNames == {"staged", "solution", "epochs", "residuals", "metrics"}

\* From the parse on, the solution has rows, all in the window; once written, the
\* epochs are that solution's.
ReadInv ==
  /\ DOMAIN files = Experiments
  /\ \A e \in Experiments :
       DOMAIN files[e] = FileNames /\ files[e].solution.epochs \in SolutionRows
  /\ pc \in Reading => /\ solved.epochs # << >> /\ WithinWindow(solved.epochs, def.start, def.end)
                       /\ def.step > 0
  /\ pc \in Reading \ {"epochs"} => files[id].epochs.list = solved.epochs

\* The only files written are the current experiment's: rnx2rtkp's solution, then the
\* epochs of it, or others that nothing is read from.
LEMMA FileMoves ==
  ASSUME [Next]_vars
  PROVE  \/ files' = files
         \/ \E s \in Left : Write("solution", s) /\ pc = "run" /\ pc' \notin Reading
         \/ WriteEpochs
         \/ \E n \in {"staged", "residuals", "metrics"} :
              /\ Write(n, runs) /\ pc \in Preparing /\ queue' = queue
              /\ pc' \in Reading => pc \in Reading \ {"epochs"}
<1>1. CASE \E s \in Left, exit \in {"zero", "nonzero", "timeout"} : Run(exit, s)
  BY <1>1 DEF Run, Proceed, Raise, Return, Reading
<1>2. CASE Stage \/ WriteResiduals \/ WriteMetrics
  BY <1>2 DEF Stage, WriteResiduals, WriteMetrics, Preparing, Reading, process
<1>3. CASE \/ \E j \in Jobs : Begin(j)
           \/ Resolve \/ Audit \/ Define \/ Measure \/ Block \/ Drift \/ DryRun \/ Launch
           \/ Parse \/ Complete \/ WriteAnalysis \/ WriteAggregates \/ Crash \/ Change
           \/ UNCHANGED vars
  BY <1>3 DEF Begin, Resolve, Audit, Define, Measure, Block, Drift, DryRun, Launch,
     Parse, Complete, WriteAnalysis, WriteAggregates, Crash, Change, vars, disk
<1>4. QED
  BY <1>1, <1>2, <1>3 DEF Next

LEMMA ReadingMoves ==
  ASSUME [Next]_vars, pc' \in Reading
  PROVE  \/ /\ Parse /\ pc' = "epochs" /\ UNCHANGED <<queue, files>>
            /\ Readable /\ solved.epochs # << >> /\ def.step > 0
         \/ /\ pc \in Reading /\ queue' = queue
            /\ WriteEpochs \/ (pc' \in Reading \ {"epochs"} => pc \in Reading \ {"epochs"})
<1>1. CASE \E j \in Jobs : Begin(j)
  BY <1>1 DEF Begin, Reading
<1>2. CASE Resolve \/ Audit \/ Define \/ Measure \/ Stage \/ Launch
  BY <1>2 DEF Resolve, Audit, Define, Measure, Stage, Launch, Raise, Return, Reading
<1>3. CASE Block \/ DryRun \/ Complete
  BY <1>3 DEF Block, DryRun, Complete, Proceed, Raise, Return, Reading
<1>4. CASE \E s \in Left, exit \in {"zero", "nonzero", "timeout"} : Run(exit, s)
  BY <1>4 DEF Run, Proceed, Raise, Return, Reading
<1>5. CASE Parse
  BY <1>5 DEF Parse, Proceed, Raise, Return, Reading, process
<1>6. CASE WriteEpochs \/ WriteResiduals \/ WriteMetrics
  BY <1>6 DEF WriteEpochs, WriteResiduals, WriteMetrics, Reading, process
<1>7. CASE Drift \/ WriteAnalysis \/ WriteAggregates \/ Crash
  BY <1>7 DEF Drift, WriteAnalysis, WriteAggregates, Crash, Raise, Return, Reading
<1>8. CASE Change \/ UNCHANGED vars
  BY <1>8 DEF Change, vars, process, Reading
<1>9. QED
  BY <1>1, <1>2, <1>3, <1>4, <1>5, <1>6, <1>7, <1>8 DEF Next

LEMMA Written ==
  ASSUME ReadInv, NEW n \in FileNames, NEW v, Write(n, v), NEW e \in Experiments
  PROVE  /\ DOMAIN files' = Experiments /\ DOMAIN files'[e] = FileNames
         /\ e # id => files'[e] = files[e]
         /\ e = id => files'[e][n] = v /\ \A l \in FileNames \ {n} : files'[e][l] = files[e][l]
  BY DEF ReadInv, Write

LEMMA LeftHasRows ==
  ASSUME ReadInv, id \in Experiments, NEW s \in Left
  PROVE  s.epochs \in SolutionRows
<1>1. CASE s \in Solutions
  BY <1>1, OutputsAssumption DEF Solutions, SolutionRows
<1>2. CASE s = files[id].solution
  BY <1>2 DEF ReadInv
<1>3. QED
  BY <1>1, <1>2 DEF Left

LEMMA ReadInit == Init => ReadInv
<1>1. NoSolution.epochs \in SolutionRows
  BY DEF NoSolution, SolutionRows
<1>2. QED
  BY <1>1 DEF Init, ReadInv, NoFiles, FileNames, Reading

LEMMA CurrentIsKnown ==
  ASSUME QueueInv, pc \in Working
  PROVE  id \in Experiments
  BY QueueHead DEF QueueInv, Sound, def, id

LEMMA ReadStep == QueueInv /\ ReadInv /\ [Next]_vars => ReadInv'
<1> SUFFICES ASSUME QueueInv, ReadInv, [Next]_vars
             PROVE  ReadInv'
  OBVIOUS
<1>1. pc \in Preparing => id \in Experiments
  BY CurrentIsKnown DEF Working
<1>2. CASE files' = files
  <2>1. /\ pc' \in Reading => /\ solved'.epochs # << >>
                              /\ WithinWindow(solved'.epochs, def'.start, def'.end) /\ def'.step > 0
        /\ pc' \in Reading \ {"epochs"} => files'[id'].epochs.list = solved'.epochs
    <3>1. CASE WriteEpochs
      <4>1. id \in Experiments /\ files' = [files EXCEPT ![id]["epochs"] = [by |-> runs, list |-> solved.epochs]]
        BY <1>1, <3>1 DEF WriteEpochs, Write, Preparing
      <4>2. files'[id].epochs.list = solved.epochs
        BY <4>1 DEF ReadInv, FileNames
      <4>3. QED
        BY <1>2, <3>1, <4>2 DEF WriteEpochs, ReadInv, Reading, process, def, id, solved
    <3>2. CASE ~WriteEpochs
      BY <1>2, <3>2, ReadingMoves DEF ReadInv, Reading, Readable, def, id, solved
    <3>3. QED
      BY <3>1, <3>2
  <2>2. QED
    BY <1>2, <2>1 DEF ReadInv
<1>3. CASE \E s \in Left : Write("solution", s) /\ pc = "run" /\ pc' \notin Reading
  <2>1. PICK s \in Left : Write("solution", s) /\ pc = "run" /\ pc' \notin Reading
    BY <1>3
  <2>2. s.epochs \in SolutionRows
    BY <1>1, <2>1, LeftHasRows DEF Preparing
  <2>3. \A e \in Experiments : /\ DOMAIN files'[e] = FileNames
                               /\ files'[e].solution = s \/ files'[e].solution = files[e].solution
    BY <2>1, Written DEF FileNames
  <2>4. DOMAIN files' = Experiments
    BY <1>1, <2>1, Written DEF Preparing, FileNames
  <2>5. QED
    BY <2>1, <2>2, <2>3, <2>4 DEF ReadInv
<1>4. CASE WriteEpochs
  <2> DEFINE v == [by |-> runs, list |-> solved.epochs]
  <2>1. /\ Write("epochs", v) /\ pc = "epochs" /\ queue' = queue /\ id \in Experiments
        /\ "epochs" \in FileNames
    BY <1>1, <1>4 DEF WriteEpochs, process, Preparing, FileNames
  <2>2. \A e \in Experiments : /\ DOMAIN files'[e] = FileNames
                               /\ files'[e].solution = files[e].solution
    BY <2>1, Written DEF FileNames
  <2>3. files'[id].epochs = v /\ DOMAIN files' = Experiments
    BY <2>1, Written
  <2>4. id' = id /\ def' = def /\ solved' = solved
    BY <2>1, <2>2 DEF id, def, solved
  <2>5. QED
    BY <2>1, <2>2, <2>3, <2>4 DEF ReadInv, Reading
<1>5. CASE \E n \in {"staged", "residuals", "metrics"} :
             /\ Write(n, runs) /\ pc \in Preparing /\ queue' = queue
             /\ pc' \in Reading => pc \in Reading \ {"epochs"}
  <2>1. PICK n \in {"staged", "residuals", "metrics"} :
          /\ Write(n, runs) /\ pc \in Preparing /\ queue' = queue
          /\ pc' \in Reading => pc \in Reading \ {"epochs"}
    BY <1>5
  <2>2. id \in Experiments /\ n \in FileNames /\ n \notin {"solution", "epochs"}
    BY <1>1, <2>1 DEF FileNames
  <2>3. \A e \in Experiments : /\ DOMAIN files'[e] = FileNames
                               /\ files'[e].solution = files[e].solution
                               /\ files'[e].epochs = files[e].epochs
    BY <2>1, <2>2, Written DEF FileNames
  <2>4. DOMAIN files' = Experiments
    BY <2>1, <2>2, Written
  <2>5. id' = id /\ def' = def /\ solved' = solved
    BY <2>1, <2>2, <2>3 DEF id, def, solved
  <2>6. QED
    BY <2>1, <2>2, <2>3, <2>4, <2>5 DEF ReadInv
<1>6. QED
  BY <1>2, <1>3, <1>4, <1>5, FileMoves

-----------------------------------------------------------------------------
(* The tables of a phase.                                                   *)
Own == {e \in Experiments : manifest[e].by = runs}

Queued == {queue[k].id : k \in DOMAIN queue}

\* What a phase that is not dry leaves of an experiment has a row, with a fix rate
\* exactly if it completed.
HasRow(m) == m.distance # Unavailable /\ (m.status = "complete" <=> m.metrics.solutions # 0)

\* The phase's experiments are those it concluded and those in its queue.
TableInv ==
  /\ \A e \in Experiments : manifest[e].by \in Nat /\ manifest[e].by <= runs
  /\ pc \in {"resolve", "audit", "define"} => Own = {}
  /\ job.phase /\ pc \in Working => executed = Own \cup Queued
  /\ pc \in {"finalise", "aggregate"} => executed = Own /\ ~job.dry
  /\ job.phase /\ ~job.dry /\ pc \in Working \cup {"finalise", "aggregate"} =>
       \A e \in Own : HasRow(manifest[e])
  /\ pc = "aggregate" => analysis = [by |-> runs, rows |-> Rows]
  /\ answer = "summarised" => pc = "idle" /\ TablesOfRun

\* The current experiment is concluded, and the next one is prepared, the tables are
\* made or the process is over.
Concludes(status, metrics) ==
  /\ pc \in Preparing /\ Conclude(status, metrics)
  /\ status \in Ran => Runnable
  /\ IF status = "complete" THEN pc = "complete" /\ metrics = Metrics /\ UNCHANGED files
     ELSE metrics = NoMetrics
  /\ UNCHANGED <<job, runs>>
  /\ (Proceed /\ (status \in Ran \/ job.dry)) \/ Raise

GoesOn ==
  /\ pc \in Working /\ pc' \in Working
  /\ UNCHANGED <<manifest, queue, executed, job, runs, answer>>

Quits == pc' = "idle" /\ answer' # "summarised" /\ UNCHANGED <<manifest, runs>>

Waits == UNCHANGED <<pc, job, manifest, queue, executed, runs, answer, analysis, aggregates>>

LEMMA Kinds ==
  ASSUME PrintInv, [Next]_vars
  PROVE  \/ \E j \in Jobs : Begin(j)
         \/ Resolve \/ Audit \/ Define
         \/ \E status, metrics : Concludes(status, metrics)
         \/ GoesOn \/ Quits
         \/ WriteAnalysis \/ WriteAggregates
         \/ Waits
<1>1. CASE Block
  <2>1. Concludes("blocked", NoMetrics)
    BY <1>1 DEF Block, Concludes, Preparing, Ran, bounds
  <2>2. QED
    BY <2>1
<1>2. CASE DryRun
  <2>1. Concludes("dry_run_ready", NoMetrics)
    BY <1>2 DEF DryRun, Concludes, Preparing, Ran, bounds
  <2>2. QED
    BY <2>1
<1>3. CASE Complete
  <2>1. Concludes("complete", Metrics)
    BY <1>3 DEF Complete, Concludes, Preparing, Launched, Ran, bounds, PrintInv
  <2>2. QED
    BY <2>1
<1>4. CASE \E s \in Left, exit \in {"zero", "nonzero", "timeout"} : Run(exit, s)
  <2>1. PICK s \in Left, exit \in {"zero", "nonzero", "timeout"} : Run(exit, s)
    BY <1>4
  <2>2. CASE exit = "nonzero"
    <3>1. Concludes("failed_rtklib", NoMetrics)
      BY <2>1, <2>2 DEF Run, Concludes, Preparing, Launched, Ran, PrintInv
    <3>2. QED
      BY <3>1
  <2>3. CASE exit = "zero"
    BY <2>1, <2>3 DEF Run, GoesOn, Working, Preparing, process
  <2>4. CASE exit = "timeout"
    BY <2>1, <2>4 DEF Run, Quits, Raise, Return
  <2>5. QED
    BY <2>1, <2>2, <2>3, <2>4
<1>5. CASE Parse
  <2>1. Parse => pc = "parse" /\ Runnable /\ UNCHANGED <<job, runs>>
    BY DEF Parse, PrintInv, Launched, Preparing, bounds
  <2>2. \/ Raise /\ UNCHANGED manifest
        \/ Conclude("failed_output_format", NoMetrics) /\ Proceed
        \/ Conclude("failed_no_solution", NoMetrics) /\ Proceed
        \/ pc' = "epochs" /\ UNCHANGED <<process, manifest, answer>>
    BY <1>5 DEF Parse
  <2>3. CASE Raise /\ UNCHANGED manifest
    BY <1>5, <2>1, <2>3 DEF Quits, Raise, Return
  <2>4. CASE Conclude("failed_output_format", NoMetrics) /\ Proceed
    <3>1. Concludes("failed_output_format", NoMetrics)
      BY <1>5, <2>1, <2>4 DEF Concludes, Preparing, Ran
    <3>2. QED
      BY <3>1
  <2>5. CASE Conclude("failed_no_solution", NoMetrics) /\ Proceed
    <3>1. Concludes("failed_no_solution", NoMetrics)
      BY <1>5, <2>1, <2>5 DEF Concludes, Preparing, Ran
    <3>2. QED
      BY <3>1
  <2>6. CASE pc' = "epochs" /\ UNCHANGED <<process, manifest, answer>>
    BY <1>5, <2>1, <2>6 DEF GoesOn, Working, Preparing, process
  <2>7. QED
    BY <2>2, <2>3, <2>4, <2>5, <2>6
<1>6. CASE Measure
  BY <1>6 DEF Measure, Raise, Return, Quits, GoesOn, Working, Preparing, disk, bounds
<1>7. CASE Stage \/ Launch \/ WriteEpochs \/ WriteResiduals \/ WriteMetrics
  BY <1>7 DEF Stage, Launch, WriteEpochs, WriteResiduals, WriteMetrics, GoesOn, Working,
     Preparing, process, disk, bounds
<1>8. CASE Drift \/ Crash
  BY <1>8 DEF Drift, Crash, Raise, Return, Quits, disk, bounds
<1>9. CASE Change \/ UNCHANGED vars
  BY <1>9 DEF Change, vars, process, disk, bounds, Waits
<1>10. QED
  BY <1>1, <1>2, <1>3, <1>4, <1>5, <1>6, <1>7, <1>8, <1>9 DEF Next

\* The check lets no experiment of a phase through without both coordinates.
LEMMA ConclusionHasRow ==
  ASSUME QueueInv, ReadInv, job.phase, NEW status, NEW metrics,
         Concludes(status, metrics), status \in Ran
  PROVE  HasRow(Manifest(status, metrics))
<1>1. id \in Experiments /\ Sound(def) /\ Runnable
  BY QueueHead DEF QueueInv, Concludes, Working, Sound, def, id
<1>2. def.gate = Conditions /\ Located \subseteq def.gate /\ "coordinates_verified" \in def.gate
  BY <1>1 DEF Runnable, Conditions, Located
<1>3. def.base.ecef \in Int /\ def.rover.ecef \in Int
  BY <1>1 DEF Sound
<1>4. def.base.ecef # NoEcef /\ def.rover.ecef # NoEcef
  BY <1>1, <1>2 DEF Runnable, CoordinatesConsistent
<1>5. Distance # Unavailable
  BY <1>2, <1>3, <1>4 DEF Distance, Unavailable
<1>6. CASE status = "complete"
  <2>1. metrics = Metrics /\ solved.epochs # << >> /\ solved.epochs \in SolutionRows
    BY <1>1, <1>6 DEF Concludes, ReadInv, Reading, solved
  <2>2. Len(solved.epochs) # 0
    BY <2>1, EmptySeq DEF SolutionRows
  <2>3. metrics.solutions # 0
    BY <2>1, <2>2 DEF Metrics, SolutionStateMetrics
  <2>4. QED
    BY <1>5, <1>6, <2>3 DEF HasRow, Manifest
<1>7. CASE status # "complete"
  BY <1>5, <1>7 DEF HasRow, Manifest, Concludes, NoMetrics
<1>8. QED
  BY <1>6, <1>7

\* Where every experiment of the phase has a row, the tables are of exactly those.
LEMMA TablesAreExact ==
  ASSUME executed = Own, \A e \in Own : HasRow(manifest[e])
  PROVE  /\ {row.id : row \in Rows} = Own
         /\ LET groups == PerBaselineAggregates(Rows)
            IN  UNION {groups[p].rates : p \in DOMAIN groups} =
                  {<<e, manifest[e].metrics.fixes, manifest[e].metrics.solutions>> :
                     e \in {o \in Own : manifest[o].status = "complete"}}
<1> DEFINE Row(e) == AnalysisRow(e, manifest[e])
           rate(e) == <<e, manifest[e].metrics.fixes, manifest[e].metrics.solutions>>
           groups == PerBaselineAggregates(Rows)
           complete == {e \in Own : manifest[e].status = "complete"}
           Group(p) == {row \in Rows : row.pair = p}
<1>1. Rows = {Row(e) : e \in Own}
  BY DEF Rows, AnalysisRows, HasRow
<1>2. \A e \in Own : /\ Row(e).id = e
                     /\ <<Row(e).id, Row(e).fixes, Row(e).solutions>> = rate(e)
                     /\ Row(e).measured <=> e \in complete
  BY DEF AnalysisRow, HasRow
<1>3. {row.id : row \in Rows} = Own
  BY <1>1, <1>2
<1>4. DOMAIN groups = {row.pair : row \in Rows} /\ \A p \in DOMAIN groups : groups[p].rates = Rates(Group(p))
  BY DEF PerBaselineAggregates
<1> HIDE DEF Row, rate, groups, complete
<1>5. ASSUME NEW p \in DOMAIN groups, NEW r \in groups[p].rates
      PROVE  r \in {rate(e) : e \in complete}
  <2>1. PICK row \in Group(p) : row.measured /\ r = <<row.id, row.fixes, row.solutions>>
    BY <1>4, <1>5 DEF Rates
  <2>2. PICK e \in Own : row = Row(e)
    BY <1>1, <2>1
  <2>3. QED
    BY <1>2, <2>1, <2>2
<1>6. ASSUME NEW e \in complete
      PROVE  \E p \in DOMAIN groups : rate(e) \in groups[p].rates
  <2>1. e \in Own /\ Row(e) \in Rows /\ Row(e).measured
    BY <1>1, <1>2, <1>6 DEF complete
  <2> DEFINE p == Row(e).pair
  <2>2. p \in DOMAIN groups /\ Row(e) \in Group(p)
    BY <1>4, <2>1
  <2>3. <<Row(e).id, Row(e).fixes, Row(e).solutions>> \in Rates(Group(p))
    BY <2>1, <2>2 DEF Rates
  <2>4. QED
    BY <1>2, <1>4, <2>1, <2>2, <2>3
<1>7. UNION {groups[p].rates : p \in DOMAIN groups} = {rate(e) : e \in complete}
  BY <1>5, <1>6
<1>8. QED
  BY <1>3, <1>7 DEF rate, groups, complete

LEMMA TableInit == Init => TableInv
  BY DEF Init, TableInv, NoManifest, Own, Working, Preparing

\* What a conclusion does to the manifests of the run.
LEMMA OwnConcluded ==
  ASSUME PrintInv, QueueInv, TableInv, NEW status, NEW metrics, Concludes(status, metrics)
  PROVE  /\ id \in Experiments
         /\ manifest'[id] = Manifest(status, metrics)
         /\ \A e \in Experiments : e # id => manifest'[e] = manifest[e]
         /\ \A e \in Experiments : manifest'[e].by \in Nat /\ manifest'[e].by <= runs
         /\ Own' = Own \cup {id}
<1>1. id \in Experiments
  BY CurrentIsKnown DEF Concludes, Working
<1>2. manifest' = [manifest EXCEPT ![id] = Manifest(status, metrics)] /\ runs' = runs
  BY DEF Concludes, Conclude
<1>3. /\ manifest'[id] = Manifest(status, metrics)
      /\ \A e \in Experiments : e # id => manifest'[e] = manifest[e]
  BY <1>1, <1>2 DEF PrintInv
<1>4. Manifest(status, metrics).by = runs /\ runs \in Nat
  BY DEF Manifest, PrintInv
<1>5. QED
  BY <1>1, <1>2, <1>3, <1>4 DEF Own, TableInv

LEMMA HeadAndTail ==
  ASSUME NEW q, IsQueue(q)
  PROVE  /\ Len(q) = 1 => {q[k].id : k \in DOMAIN q} = {Head(q).id}
         /\ Len(q) > 1 => {q[k].id : k \in DOMAIN q} =
                            {Head(q).id} \cup {Tail(q)[k].id : k \in DOMAIN Tail(q)}
<1>1. PICK S : q \in Seq(S) /\ q # << >>
  BY DEF IsQueue
<1>2. /\ Len(q) \in Nat \ {0} /\ DOMAIN q = 1..Len(q) /\ Head(q) = q[1]
  BY <1>1, LenProperties, EmptySeq, HeadTailProperties
<1>3. /\ Tail(q) \in Seq(S) /\ Len(Tail(q)) = Len(q) - 1
      /\ \A k \in 1..(Len(q) - 1) : Tail(q)[k] = q[k + 1]
  BY <1>1, HeadTailProperties
<1>4. DOMAIN Tail(q) = 1..(Len(q) - 1)
  BY <1>3, LenProperties
<1>5. ASSUME NEW k \in DOMAIN q, k # 1
      PROVE  k - 1 \in DOMAIN Tail(q) /\ q[k] = Tail(q)[k - 1]
  BY <1>2, <1>3, <1>4, <1>5
<1>6. ASSUME NEW k \in DOMAIN Tail(q)
      PROVE  k + 1 \in DOMAIN q /\ q[k + 1] = Tail(q)[k]
  BY <1>2, <1>3, <1>4
<1>7. 1 \in DOMAIN q /\ (Len(q) = 1 => DOMAIN q = {1})
  BY <1>2
<1>8. {q[k].id : k \in DOMAIN q} = {Head(q).id} \cup {Tail(q)[k].id : k \in DOMAIN Tail(q)}
  <2>1. ASSUME NEW k \in DOMAIN q
        PROVE  q[k].id \in {Head(q).id} \cup {Tail(q)[l].id : l \in DOMAIN Tail(q)}
    <3>1. CASE k = 1
      BY <1>2, <3>1
    <3>2. CASE k # 1
      <4>1. k - 1 \in DOMAIN Tail(q) /\ q[k].id = Tail(q)[k - 1].id
        BY <1>5, <3>2
      <4>2. QED
        BY <4>1
    <3>3. QED
      BY <3>1, <3>2
  <2>2. ASSUME NEW k \in DOMAIN Tail(q) PROVE Tail(q)[k].id \in {q[l].id : l \in DOMAIN q}
    <3>1. k + 1 \in DOMAIN q /\ Tail(q)[k].id = q[k + 1].id
      BY <1>6
    <3>2. QED
      BY <3>1
  <2>3. QED
    BY <1>2, <1>7, <2>1, <2>2
<1>9. QED
  BY <1>2, <1>7, <1>8

LEMMA ConcludesKeepsTables ==
  ASSUME PrintInv, QueueInv, ReadInv, TableInv, NEW status, NEW metrics,
         Concludes(status, metrics)
  PROVE  TableInv'
<1>1. /\ id \in Experiments
      /\ manifest'[id] = Manifest(status, metrics)
      /\ \A e \in Experiments : e # id => manifest'[e] = manifest[e]
      /\ \A e \in Experiments : manifest'[e].by \in Nat /\ manifest'[e].by <= runs
      /\ Own' = Own \cup {id}
  BY OwnConcluded
<1>2. pc \in Working /\ job' = job /\ runs' = runs /\ IsQueue(queue)
  BY DEF Concludes, Working, QueueInv
<1>3. CASE Raise
  BY <1>1, <1>2, <1>3 DEF Raise, Return, TableInv, Working, Preparing
<1>4. CASE Proceed /\ (status \in Ran \/ job.dry)
  <2>1. job.phase /\ ~job.dry => \A e \in Own' : HasRow(manifest'[e])
    <3>1. job.phase /\ ~job.dry => HasRow(Manifest(status, metrics))
      BY <1>4, ConclusionHasRow
    <3>2. QED
      BY <1>1, <1>2, <3>1 DEF TableInv, Own
  <2>2. answer # "summarised"
    BY <1>2 DEF TableInv, Working, Preparing
  <2>3. CASE Len(queue) > 1
    <3>1. queue' = Tail(queue) /\ pc' = "measure" /\ executed' = executed /\ answer' = answer
      BY <1>4, <2>3 DEF Proceed
    <3>2. Queued = {id} \cup Queued'
      BY <1>2, <2>3, <3>1, HeadAndTail DEF Queued, id, def
    <3>3. job.phase => executed' = Own' \cup Queued'
      BY <1>1, <1>2, <3>1, <3>2 DEF TableInv
    <3>4. QED
      BY <1>1, <1>2, <2>1, <2>2, <3>1, <3>3 DEF TableInv
  <2>4. CASE ~(Len(queue) > 1) /\ job.phase /\ ~job.dry
    <3>1. pc' = "finalise" /\ executed' = executed /\ answer' = answer
      BY <1>4, <2>4 DEF Proceed, process
    <3>2. Queued = {id}
      BY <1>2, <2>4, QueueHead, HeadAndTail DEF Queued, id, def
    <3>3. executed' = Own'
      BY <1>1, <1>2, <2>4, <3>1, <3>2 DEF TableInv
    <3>4. QED
      BY <1>1, <1>2, <2>1, <2>2, <2>4, <3>1, <3>3 DEF TableInv, Working, Preparing
  <2>5. CASE ~(Len(queue) > 1) /\ ~(job.phase /\ ~job.dry)
    <3>1. pc' = "idle" /\ answer' = "done"
      BY <1>4, <2>5 DEF Proceed, Return
    <3>2. QED
      BY <1>1, <1>2, <3>1 DEF TableInv, Working, Preparing
  <2>6. QED
    BY <2>3, <2>4, <2>5
<1>5. QED
  BY <1>3, <1>4 DEF Concludes

LEMMA TableStep == PrintInv /\ QueueInv /\ ReadInv /\ TableInv /\ [Next]_vars => TableInv'
<1> SUFFICES ASSUME PrintInv, QueueInv, ReadInv, TableInv, [Next]_vars
             PROVE  TableInv'
  OBVIOUS
<1>1. ASSUME NEW j \in Jobs, Begin(j) PROVE TableInv'
  <2>1. /\ pc' = (IF j.phase THEN "resolve" ELSE "measure") /\ job' = j /\ answer' = "none"
        /\ manifest' = manifest /\ runs' = runs + 1
    BY <1>1 DEF Begin, disk
  <2>2. \A e \in Experiments : manifest'[e].by \in Nat /\ manifest'[e].by <= runs /\ runs \in Nat
    BY <2>1 DEF TableInv, PrintInv
  <2>3. Own' = {}
    BY <2>1, <2>2 DEF Own
  <2>4. QED
    BY <2>1, <2>2, <2>3 DEF TableInv, Working, Preparing
<1>2. CASE Resolve \/ Audit
  <2>1. /\ UNCHANGED <<job, manifest, runs>> /\ pc \in {"resolve", "audit"}
        /\ (pc' \in {"audit", "define"} /\ answer' = answer) \/ (pc' = "idle" /\ answer' = "raised")
    BY <1>2 DEF Resolve, Audit, Raise, Return, disk, bounds
  <2>2. QED
    BY <2>1 DEF TableInv, Own, Working, Preparing
<1>3. CASE Define
  <2>1. UNCHANGED <<job, manifest, runs>> /\ pc = "define"
    BY <1>3 DEF Define, disk, bounds
  <2>2. Own' = {} /\ answer # "summarised"
    BY <2>1 DEF TableInv, Own
  <2>3. CASE pc' = "measure"
    <3>1. /\ queue' = [k \in DOMAIN Rovers |-> Definition(Rovers[k])] /\ answer' = answer
          /\ executed' = {<<job.base, s>> : s \in Elements(Rovers)}
      BY <1>3, <2>3 DEF Define, Raise, Return
    <3>2. Queued' = executed'
      BY <3>1 DEF Queued, Definition, Elements
    <3>3. QED
      BY <2>1, <2>2, <2>3, <3>1, <3>2 DEF TableInv
  <2>4. CASE pc' # "measure"
    <3>1. pc' = "idle" /\ answer' = "raised"
      BY <1>3, <2>4 DEF Define, Raise, Return
    <3>2. QED
      BY <2>1, <2>2, <3>1 DEF TableInv, Working, Preparing
  <2>5. QED
    BY <2>3, <2>4
<1>4. CASE GoesOn
  BY <1>4 DEF GoesOn, TableInv, Own, Queued, Working, Preparing
<1>5. CASE Quits
  BY <1>5 DEF Quits, TableInv, Own, Working, Preparing
<1>6. CASE Waits
  <2>1. TablesOfRun => TablesOfRun'
    BY <1>6 DEF Waits, TablesOfRun
  <2>2. Own' = Own /\ Rows' = Rows /\ Queued' = Queued
    BY <1>6 DEF Waits, Own, Rows, Queued
  <2>3. QED
    BY <1>6, <2>1, <2>2 DEF Waits, TableInv
<1>7. CASE WriteAnalysis
  <2>1. /\ UNCHANGED <<job, manifest, runs, executed, answer>> /\ pc = "finalise" /\ pc' = "aggregate"
        /\ analysis' = [by |-> runs, rows |-> Rows]
    BY <1>7 DEF WriteAnalysis, process, bounds
  <2>2. Own' = Own /\ Rows' = Rows
    BY <2>1 DEF Own, Rows
  <2>3. QED
    BY <2>1, <2>2 DEF TableInv, Working, Preparing
<1>8. CASE WriteAggregates
  <2>1. /\ UNCHANGED <<job, manifest, runs, analysis>> /\ pc = "aggregate" /\ pc' = "idle"
        /\ aggregates' = [by |-> runs, groups |-> PerBaselineAggregates(analysis.rows)]
        /\ answer' = "summarised"
    BY <1>8 DEF WriteAggregates, Return, bounds
  <2>2. /\ executed = Own /\ \A e \in Own : HasRow(manifest[e])
        /\ analysis.by = runs /\ analysis.rows = Rows
    BY <2>1 DEF TableInv, QueueInv
  <2>3. TablesOfRun'
    BY <2>1, <2>2, TablesAreExact DEF TablesOfRun, Own
  <2>4. QED
    BY <2>1, <2>3 DEF TableInv, Own, Working, Preparing
<1>9. QED
  BY <1>1, <1>2, <1>3, <1>4, <1>5, <1>6, <1>7, <1>8, Kinds, ConcludesKeepsTables

\* The tables of a phase are of its own experiments only, one row for each, and its fix
\* rates are of exactly those that completed (_finalise_analysis, analysis.py).
THEOREM TablesAreOfTheRun == Spec => []TablesOfRun
<1>1. Init => PrintInv /\ QueueInv /\ ReadInv /\ TableInv
  BY PrintInit, QueueInit, ReadInit, TableInit
<1>2. PrintInv /\ QueueInv /\ ReadInv /\ TableInv /\ [Next]_vars
        => (PrintInv /\ QueueInv /\ ReadInv /\ TableInv)'
  BY PrintStep, QueueStep, ReadStep, TableStep
<1>3. TableInv => TablesOfRun
  BY DEF TableInv, TablesOfRun
<1>4. QED
  BY <1>1, <1>2, <1>3, PTL DEF Spec

-----------------------------------------------------------------------------
(* What is reported of a complete experiment.                               *)
\* rnx2rtkp solves an epoch of the data at most once, and in order.
RowsKeepStep == \A o \in Outputs, d \in Steps : d > 0 => Spaced(o.epochs, d)

\* Complete experiments, also while one is run again under the same identifier.
MeasureInv ==
  /\ \A e \in Experiments, d \in Steps : d > 0 => Spaced(files[e].solution.epochs, d)
  /\ \A e \in Experiments :
       manifest[e] # NoManifest /\ manifest[e].status = "complete" =>
         Reported(manifest[e], files[e].epochs.list)

LEMMA MeasureInit == Init => MeasureInv
  BY DEF Init, MeasureInv, NoFiles, NoSolution, Spaced

LEMMA FilesKept ==
  ASSUME ReadInv, [Next]_vars, NEW e \in Experiments
  PROVE  files'[e].epochs = files[e].epochs \/ WriteEpochs
<1>1. CASE \E s \in Left : Write("solution", s)
  BY <1>1, Written DEF FileNames
<1>2. CASE \E n \in {"staged", "residuals", "metrics"} : Write(n, runs)
  BY <1>2, Written DEF FileNames
<1>3. QED
  BY <1>1, <1>2, FileMoves

LEMMA SolutionsKeepStep ==
  ASSUME RowsKeepStep, QueueInv, ReadInv, MeasureInv, [Next]_vars,
         NEW e \in Experiments, NEW d \in Steps, d > 0
  PROVE  Spaced(files'[e].solution.epochs, d)
<1>1. CASE \E s \in Left : Write("solution", s) /\ pc = "run" /\ pc' \notin Reading
  <2>1. PICK s \in Left : Write("solution", s) /\ pc = "run"
    BY <1>1
  <2>2. id \in Experiments
    BY <2>1, CurrentIsKnown DEF Working, Preparing
  <2>3. Spaced(s.epochs, d)
    <3>1. CASE s \in Solutions
      BY <3>1 DEF Solutions, RowsKeepStep
    <3>2. CASE s = files[id].solution
      BY <2>2, <3>2 DEF MeasureInv
    <3>3. QED
      BY <3>1, <3>2 DEF Left
  <2>4. files'[e].solution = s \/ files'[e].solution = files[e].solution
    BY <2>1, Written DEF FileNames
  <2>5. QED
    BY <2>3, <2>4 DEF MeasureInv
<1>2. CASE WriteEpochs
  <2>1. Write("epochs", [by |-> runs, list |-> solved.epochs])
    BY <1>2 DEF WriteEpochs
  <2>2. files'[e].solution = files[e].solution
    BY <2>1, Written DEF FileNames
  <2>3. QED
    BY <2>2 DEF MeasureInv
<1>3. CASE \E n \in {"staged", "residuals", "metrics"} : Write(n, runs)
  <2>1. files'[e].solution = files[e].solution
    BY <1>3, Written DEF FileNames
  <2>2. QED
    BY <2>1 DEF MeasureInv
<1>4. QED
  BY <1>1, <1>2, <1>3, FileMoves DEF MeasureInv

LEMMA CompleteIsReported ==
  ASSUME QueueInv, ReadInv, MeasureInv, NEW metrics, Concludes("complete", metrics)
  PROVE  id \in Experiments /\ Reported(Manifest("complete", metrics), files[id].epochs.list)
<1> DEFINE m == Manifest("complete", metrics)
<1>1. pc = "complete" /\ metrics = Metrics /\ pc \in Reading \ {"epochs"} /\ pc \in Working
  BY DEF Concludes, Reading, Working, Preparing
<1>2. id \in Experiments /\ Sound(def)
  BY <1>1, CurrentIsKnown, QueueHead DEF QueueInv, def
<1>3. /\ solved.epochs \in SolutionRows /\ solved.epochs # << >>
      /\ WithinWindow(solved.epochs, def.start, def.end)
      /\ files[id].epochs.list = solved.epochs /\ def.step > 0
  BY <1>1, <1>2 DEF ReadInv, solved
<1>4. /\ def.start \in Int /\ def.end \in Int /\ def.step \in Nat \ {0}
      /\ Spaced(solved.epochs, def.step)
  <2>1. def.start \in Int /\ def.end \in Int /\ def.step \in Steps
    BY <1>2 DEF Sound
  <2>2. Spaced(files[id].solution.epochs, def.step)
    BY <1>2, <1>3, <2>1 DEF MeasureInv
  <2>3. def.step \in Int
    BY <2>1, StepsAreInts
  <2>4. QED
    BY <1>3, <2>1, <2>2, <2>3 DEF solved
<1>5. /\ m.start = def.start /\ m.end = def.end
      /\ m.metrics.solutions = Len(solved.epochs)
      /\ m.metrics.expected = ExpectedEpochs(def.start, def.end, def.step)
      /\ m.metrics.fixes = Cardinality(Fixed(solved.epochs))
      /\ m.metrics.ttff = TtffSeconds(solved.epochs)
  BY <1>1 DEF Manifest, Metrics, SolutionStateMetrics
<1> HIDE DEF m
<1>6. Reported(m, solved.epochs)
  BY <1>3, <1>4, <1>5, MetricsSound
<1>7. QED
  BY <1>2, <1>3, <1>6 DEF m

LEMMA MeasureStep ==
  RowsKeepStep /\ PrintInv /\ QueueInv /\ ReadInv /\ MeasureInv /\ [Next]_vars => MeasureInv'
<1> SUFFICES ASSUME RowsKeepStep, PrintInv, QueueInv, ReadInv, MeasureInv, [Next]_vars
             PROVE  MeasureInv'
  OBVIOUS
<1>1. ASSUME NEW e \in Experiments, NEW d \in Steps, d > 0
      PROVE  Spaced(files'[e].solution.epochs, d)
  BY <1>1, SolutionsKeepStep
<1>2. ASSUME NEW e \in Experiments, manifest'[e] # NoManifest, manifest'[e].status = "complete"
      PROVE  Reported(manifest'[e], files'[e].epochs.list)
  <2>1. CASE WriteEpochs
    <3>1. /\ manifest' = manifest /\ Write("epochs", [by |-> runs, list |-> solved.epochs])
          /\ pc = "epochs" /\ pc \in Reading /\ pc \in Preparing
      BY <2>1 DEF WriteEpochs, Reading, Preparing
    <3>2. Reported(manifest[e], files[e].epochs.list)
      BY <1>2, <3>1 DEF MeasureInv
    <3>3. CASE e # id
      BY <3>1, <3>2, <3>3, Written DEF FileNames
    <3>4. CASE e = id
      <4>1. files'[e].epochs.list = solved.epochs
        BY <3>1, <3>4, Written DEF FileNames
      <4>2. manifest[e].start = def.start /\ manifest[e].end = def.end
        <5>1. /\ Faithful(manifest[e]) /\ manifest[e].print = print
              /\ print = Fingerprint(measured.inputs)
          BY <1>2, <3>1, <3>4 DEF PrintInv, Current
        <5>2. manifest[e].print.start = manifest[e].start /\ manifest[e].print.end = manifest[e].end
          BY <5>1 DEF Faithful
        <5>3. print.start = def.start /\ print.end = def.end
          BY <5>1 DEF Fingerprint
        <5>4. QED
          BY <5>1, <5>2, <5>3
      <4>3. solved.epochs # << >> /\ WithinWindow(solved.epochs, def.start, def.end)
        BY <3>1 DEF ReadInv
      <4>4. QED
        BY <3>1, <3>2, <4>1, <4>2, <4>3 DEF Reported, WithinWindow
    <3>5. QED
      BY <3>3, <3>4
  <2>2. CASE files'[e].epochs = files[e].epochs /\ manifest'[e] = manifest[e]
    BY <1>2, <2>2 DEF MeasureInv
  <2>3. CASE files'[e].epochs = files[e].epochs /\ \E status, metrics : Concludes(status, metrics)
    <3>1. PICK status, metrics : Concludes(status, metrics)
      BY <2>3
    <3>2. manifest'[e] = manifest[e] \/ (e = id /\ manifest'[e] = Manifest(status, metrics))
      BY <3>1 DEF Concludes, Conclude, PrintInv
    <3>3. CASE e = id /\ manifest'[e] = Manifest(status, metrics)
      <4>1. status = "complete"
        BY <1>2, <3>3 DEF Manifest
      <4>2. QED
        BY <2>3, <3>1, <3>3, <4>1, CompleteIsReported
    <3>4. QED
      BY <2>2, <2>3, <3>2, <3>3
  <2>4. manifest' = manifest \/ \E status, metrics : Concludes(status, metrics)
    BY Kinds DEF Begin, Resolve, Audit, Define, GoesOn, Quits, WriteAnalysis, WriteAggregates,
       Waits, disk
  <2>5. files'[e].epochs = files[e].epochs \/ WriteEpochs
    BY FilesKept
  <2>6. QED
    BY <2>1, <2>2, <2>3, <2>4, <2>5
<1>3. QED
  BY <1>1, <1>2 DEF MeasureInv

\* What a complete experiment reports was measured (prepare_or_run_experiment,
\* solution.py), if rnx2rtkp solves an epoch of the data at most once and in order.
THEOREM ReportsAreMeasured == ASSUME RowsKeepStep PROVE Spec => []CompleteMeasured
<1>1. Init => PrintInv /\ QueueInv /\ ReadInv /\ MeasureInv
  BY PrintInit, QueueInit, ReadInit, MeasureInit
<1>2. PrintInv /\ QueueInv /\ ReadInv /\ MeasureInv /\ [Next]_vars
        => (PrintInv /\ QueueInv /\ ReadInv /\ MeasureInv)'
  BY PrintStep, QueueStep, ReadStep, MeasureStep
<1>3. MeasureInv => CompleteMeasured
  BY DEF MeasureInv, CompleteMeasured, Reported
<1>4. QED
  BY <1>1, <1>2, <1>3, PTL DEF Spec
=============================================================================
