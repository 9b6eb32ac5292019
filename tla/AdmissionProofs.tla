---------------------------- MODULE AdmissionProofs ----------------------------
(***************************************************************************)
(* What is let through, and by whom.  QualityControl: what its workers     *)
(* classify, reuse, count and account for, whatever changes between two    *)
(* runs and wherever a run dies.  HybridDecision: what the engine answers, *)
(* for any stations, policies, requests, upstream assessments and results, *)
(* and however the files it reads are rewritten while it reads them.       *)
(***************************************************************************)
EXTENDS HybridDecision, QualityControl, FiniteSetTheorems, SequenceTheorems,
        WellFoundedInduction, TLAPS

-----------------------------------------------------------------------------
(* The inductive invariant of quality control.                              *)

WorkingFiles == {"plain", "rinex", "record"}

\* What is on the disk, and what the run says of itself.
StoreInv ==
    /\ source \in [Sessions -> MaybeFile] /\ manifest \in [Sessions -> MaybeFile]
    /\ DOMAIN working = Sessions
    /\ \A s \in Sessions :
          /\ DOMAIN working[s] = WorkingFiles
          /\ working[s].record # None => working[s].record.rinex = working[s].record.sha
    /\ DOMAIN results = Profiles /\ \A p \in Profiles : DOMAIN results[p] = Sessions
    /\ run = None \/ run \in Runs
    /\ DOMAIN worker = Workers
    /\ reported \in [Sessions -> {None, "reused", "measured"}]
    /\ budget \in [changes : Nat, runs : Nat, deaths : Nat]

Busy == {w \in Workers : worker[w].pc # "idle"}

\* Each session that was selected is in the queue, with one worker, or reported,
\* and only in one of these places.
HandedInv ==
    /\ run = None => Busy = {}
    /\ run # None =>
          /\ \A i, j \in DOMAIN run.queue : run.queue[i] = run.queue[j] => i = j
          /\ \A i \in DOMAIN run.queue :
                run.queue[i] \in run.selected /\ reported[run.queue[i]] = None
          /\ \A w \in Busy :
                /\ Of(w) \in run.selected /\ reported[Of(w)] = None
                /\ \A i \in DOMAIN run.queue : run.queue[i] # Of(w)
          /\ \A w, v \in Busy : Of(w) = Of(v) => w = v
          /\ \A s \in run.selected :
                \/ reported[s] # None
                \/ \E i \in DOMAIN run.queue : run.queue[i] = s
                \/ \E w \in Busy : Of(w) = s

\* What a worker has in its hands, of a session whose file holds source, whose hash
\* in the manifest is sha, and whose converted file is rinex.
Honest(at, file, sha, rinex) ==
    /\ at.pc \in {"convert", "stream", "movePlain", "moveRinex", "record", "analyse"} =>
          file = sha /\ file # None
    /\ at.pc \in {"movePlain", "moveRinex"} =>
          DOMAIN at = {"pc", "session", "text"} /\ at.text = file
    /\ at.pc = "record" => rinex = file /\ at.record.rinex = at.record.sha
    /\ at.pc = "analyse" => at.text = file
    /\ at.pc \in {"result", "tables"} =>
          /\ DOMAIN at = {"pc", "session", "left", "outcome"}
          /\ at.left \in Seq(Profiles) /\ at.left # <<>>
          /\ at.outcome.text # None =>
                at.outcome.text = file /\ at.outcome.observed = file /\ file = sha

HonestInv ==
    \A w \in Busy :
        Honest(worker[w], source[Of(w)], manifest[Of(w)], working[Of(w)].rinex)

QcInv == StoreInv /\ HandedInv /\ HonestInv
-----------------------------------------------------------------------------
(* The pool.                                                                *)

LEMMA ProfilesListed == ProfileNames \in Seq(Profiles) /\ ProfileNames # <<>>
  BY QcAssumption DEF Profiles

LEMMA BusyTyped ==
  ASSUME StoreInv, HandedInv, NEW w \in Busy
  PROVE  /\ w \in Workers /\ run # None /\ run \in Runs
         /\ Of(w) \in Sessions /\ Of(w) \in run.selected /\ reported[Of(w)] = None
         /\ working[Of(w)].record # None =>
              working[Of(w)].record.rinex = working[Of(w)].record.sha
<1>1. w \in Workers /\ run # None
  BY DEF Busy, HandedInv
<1>2. run \in Runs /\ Of(w) \in run.selected /\ reported[Of(w)] = None
  BY <1>1 DEF StoreInv, HandedInv
<1>3. Of(w) \in Sessions
  BY <1>2 DEF Runs
<1> QED
  BY <1>1, <1>2, <1>3 DEF StoreInv

\* A step of a worker goes on with its session, or reports it.
Continues(w, next) ==
    /\ Go(w, next) /\ next.pc # "idle" /\ next.session = Of(w)
    /\ reported' = reported

Finishes(w, how) ==
    /\ Go(w, Idle)
    /\ reported' = [reported EXCEPT ![Of(w)] = how]

LEMMA NextProfileIs ==
  ASSUME StoreInv, NEW w \in Workers, NextProfile(w),
         DOMAIN worker[w] = {"pc", "session", "left", "outcome"},
         worker[w].left \in Seq(Profiles), worker[w].left # <<>>
  PROVE  \/ /\ Continues(w, [worker[w] EXCEPT !.pc = "result", !.left = Tail(@)])
            /\ Tail(worker[w].left) \in Seq(Profiles) /\ Tail(worker[w].left) # <<>>
         \/ Finishes(w, "measured")
<1>1. CASE Len(worker[w].left) > 1
  <2>1. Tail(worker[w].left) \in Seq(Profiles) /\ Tail(worker[w].left) # <<>>
    BY <1>1
  <2> DEFINE next == [worker[w] EXCEPT !.pc = "result", !.left = Tail(@)]
  <2>2. next.pc = "result" /\ next.session = Of(w)
    BY DEF Of
  <2> QED
    BY <1>1, <2>1, <2>2 DEF NextProfile, Continues
<1>2. CASE ~(Len(worker[w].left) > 1)
  BY <1>2 DEF NextProfile, Finishes
<1> QED
  BY <1>1, <1>2

LEMMA StepIs ==
  ASSUME StoreInv, HandedInv, HonestInv, NEW w \in Workers, Step(w)
  PROVE  /\ w \in Busy /\ UNCHANGED <<source, manifest, run, budget>>
         /\ \/ \E next : Continues(w, next)
            \/ \E how \in {"reused", "measured"} : Finishes(w, how)
<1> DEFINE Goal == /\ w \in Busy /\ UNCHANGED <<source, manifest, run, budget>>
                   /\ \/ \E next : Continues(w, next)
                      \/ \E how \in {"reused", "measured"} : Finishes(w, how)
<1>1. CASE Verify(w)
  BY <1>1 DEF Verify, At, Busy, Continues, Finishes, Failed, Writing, Reading, evidence
<1>2. CASE Convert(w)
  BY <1>2 DEF Convert, At, Busy, Continues, Reading, evidence
<1>3. CASE MovePlain(w)
  <2>1. w \in Busy /\ worker[w].pc = "movePlain"
    BY <1>3 DEF MovePlain, At, Busy
  <2>2. DOMAIN worker[w] = {"pc", "session", "text"}
    BY <2>1 DEF HonestInv, Honest
  <2> DEFINE next == [worker[w] EXCEPT !.pc = "moveRinex"]
  <2>3. next.pc = "moveRinex" /\ next.session = Of(w)
    BY <2>2 DEF Of
  <2>4. Go(w, next) /\ reported' = reported /\ UNCHANGED <<source, manifest, run, budget>>
    BY <1>3 DEF MovePlain, evidence
  <2> QED
    BY <2>1, <2>3, <2>4 DEF Continues
<1>4. CASE MoveRinex(w)
  BY <1>4 DEF MoveRinex, At, Busy, Continues, evidence
<1>5. CASE Record(w)
  BY <1>5 DEF Record, At, Busy, Continues, evidence
<1>6. CASE Stream(w)
  BY <1>6 DEF Stream, At, Busy, Continues, Reading, evidence
<1>7. CASE ToolFails(w)
  BY <1>7 DEF ToolFails, At, Busy, Continues, Failed, Writing, Reading, evidence
<1>8. CASE Classify(w)
  BY <1>8 DEF Classify, At, Busy, Continues, Failed, Writing, Reading, evidence
<1>9. CASE WriteResult(w) \/ WriteTables(w)
  <2>1. w \in Busy /\ worker[w].pc \in {"result", "tables"}
    BY <1>9 DEF WriteResult, WriteTables, At, Busy
  <2>2. /\ DOMAIN worker[w] = {"pc", "session", "left", "outcome"}
        /\ worker[w].left \in Seq(Profiles) /\ worker[w].left # <<>>
    BY <2>1 DEF HonestInv, Honest
  <2>3. UNCHANGED <<source, manifest, run, budget>>
    BY <1>9 DEF WriteResult, WriteTables, evidence
  <2>4. CASE NextProfile(w)
    BY <2>1, <2>2, <2>3, <2>4, NextProfileIs
  <2>5. CASE Go(w, [worker[w] EXCEPT !.pc = "tables"]) /\ UNCHANGED reported
    <3> DEFINE next == [worker[w] EXCEPT !.pc = "tables"]
    <3>1. next.pc = "tables" /\ next.session = Of(w)
      BY <2>2 DEF Of
    <3> QED
      BY <2>1, <2>3, <2>5, <3>1 DEF Continues
  <2> QED
    BY <1>9, <2>4, <2>5 DEF WriteResult, WriteTables
<1> QED
  BY <1>1, <1>2, <1>3, <1>4, <1>5, <1>6, <1>7, <1>8, <1>9 DEF Step

LEMMA ContinuesHanded ==
  ASSUME StoreInv, HandedInv, NEW w \in Busy, NEW next, Continues(w, next), run' = run
  PROVE  HandedInv'
<1>1. /\ w \in Workers /\ DOMAIN worker = Workers /\ worker' = [worker EXCEPT ![w] = next]
      /\ next.pc # "idle" /\ next.session = Of(w) /\ reported' = reported /\ run # None
  BY BusyTyped DEF Continues, Go, StoreInv
<1>2. worker'[w] = next /\ \A v \in Workers \ {w} : worker'[v] = worker[v]
  BY <1>1
<1>3. Busy' = Busy
  BY <1>1, <1>2 DEF Busy
<1>4. \A v \in Busy : Of(v)' = Of(v)
  BY <1>1, <1>2 DEF Busy, Of
<1> QED
  BY <1>1, <1>3, <1>4 DEF HandedInv

LEMMA FinishesHanded ==
  ASSUME StoreInv, HandedInv, NEW w \in Busy, NEW how \in {"reused", "measured"},
         Finishes(w, how), run' = run
  PROVE  HandedInv'
<1> DEFINE done == Of(w)
<1>1. /\ w \in Workers /\ DOMAIN worker = Workers /\ worker' = [worker EXCEPT ![w] = Idle]
      /\ done \in Sessions /\ run # None /\ run \in Runs
      /\ reported' = [reported EXCEPT ![done] = how] /\ DOMAIN reported = Sessions
  BY BusyTyped DEF Finishes, Go, StoreInv
<1>2. worker'[w].pc = "idle" /\ \A v \in Workers \ {w} : worker'[v] = worker[v]
  BY <1>1 DEF Idle
<1>3. Busy' = Busy \ {w}
  BY <1>2 DEF Busy
<1>4. \A v \in Busy \ {w} : Of(v)' = Of(v) /\ Of(v) # done
  BY <1>1, <1>2 DEF Busy, Of, HandedInv
<1>5. reported'[done] # None /\ \A s \in Sessions \ {done} : reported'[s] = reported[s]
  BY <1>1, QcAssumption
<1>6. \A i \in DOMAIN run.queue : run.queue[i] # done /\ run.queue[i] \in Sessions
  BY <1>1 DEF HandedInv, Runs
<1> HIDE DEF done
<1>7. \A i \in DOMAIN run.queue : run.queue[i] \in run.selected /\ reported'[run.queue[i]] = None
  BY <1>1, <1>5, <1>6 DEF HandedInv
<1>8. \A v \in Busy' : /\ Of(v)' \in run.selected /\ reported'[Of(v)'] = None
                       /\ \A i \in DOMAIN run.queue : run.queue[i] # Of(v)'
  BY <1>1, <1>3, <1>4, <1>5, BusyTyped DEF HandedInv
<1>9. \A v, u \in Busy' : Of(v)' = Of(u)' => v = u
  BY <1>1, <1>3, <1>4 DEF HandedInv
<1>10. ASSUME NEW s \in run.selected
       PROVE  \/ reported'[s] # None
              \/ \E i \in DOMAIN run.queue : run.queue[i] = s
              \/ \E v \in Busy' : Of(v)' = s
  <2>0. s \in Sessions
    BY <1>1 DEF Runs
  <2>1. CASE s = done
    BY <1>5, <2>1
  <2>2. CASE s # done
    <3>1. reported'[s] = reported[s]
      BY <1>5, <2>0, <2>2
    <3>2. ASSUME NEW v \in Busy, Of(v) = s
          PROVE  v \in Busy' /\ Of(v)' = s
      BY <1>3, <1>4, <2>2, <3>2 DEF done
    <3>3. \/ reported[s] # None
          \/ \E i \in DOMAIN run.queue : run.queue[i] = s
          \/ \E v \in Busy : Of(v) = s
      BY <1>1 DEF HandedInv
    <3> QED
      BY <3>1, <3>2, <3>3
  <2> QED
    BY <2>1, <2>2
<1> QED
  BY <1>1, <1>7, <1>8, <1>9, <1>10 DEF HandedInv

LEMMA TakeHanded ==
  ASSUME StoreInv, HandedInv, NEW w \in Workers, Take(w)
  PROVE  HandedInv' /\ run' \in Runs
<1> DEFINE q == run.queue
           s == Head(q)
<1>1. /\ run # None /\ run \in Runs /\ w \notin Busy /\ q # <<>> /\ q \in Seq(Sessions)
      /\ worker' = [worker EXCEPT ![w] = [pc |-> "verify", session |-> s]]
      /\ DOMAIN worker = Workers /\ run' = [run EXCEPT !.queue = Tail(q)]
      /\ reported' = reported
  BY DEF Take, StoreInv, Busy, Runs
<1>2. /\ run' \in Runs /\ run'.queue = Tail(q) /\ run'.selected = run.selected
      /\ run' # None
  <2>1. /\ run = [queue |-> q, convert |-> run.convert, selected |-> run.selected]
        /\ run.convert \in BOOLEAN /\ run.selected \in SUBSET Sessions
    BY <1>1 DEF Runs
  <2>2. Tail(q) \in Seq(Sessions)
    BY <1>1
  <2>3. run' = [queue |-> Tail(q), convert |-> run.convert, selected |-> run.selected]
    BY <1>1, <2>1
  <2>4. run' \in Runs
    BY <2>1, <2>2, <2>3 DEF Runs
  <2> QED
    BY <2>3, <2>4, QcAssumption
<1>3. /\ DOMAIN q = 1 .. Len(q) /\ Len(q) \in Nat \ {0} /\ s = q[1] /\ 1 \in DOMAIN q
      /\ DOMAIN Tail(q) = 1 .. Len(q) - 1
      /\ \A i \in DOMAIN Tail(q) : i + 1 \in DOMAIN q /\ Tail(q)[i] = q[i + 1] /\ i + 1 # 1
  BY <1>1
<1>4. /\ worker'[w] = [pc |-> "verify", session |-> s]
      /\ \A v \in Workers \ {w} : worker'[v] = worker[v]
  BY <1>1
<1>5. Busy' = Busy \cup {w} /\ Of(w)' = s /\ \A v \in Busy : Of(v)' = Of(v) /\ v # w
  <2>1. worker'[w].pc = "verify" /\ worker'[w].session = s
    BY <1>4
  <2> QED
    BY <1>1, <1>4, <2>1 DEF Busy, Of
<1>6. /\ \A i, j \in DOMAIN q : q[i] = q[j] => i = j
      /\ \A i \in DOMAIN q : q[i] \in run.selected /\ reported[q[i]] = None
      /\ \A v \in Busy : /\ Of(v) \in run.selected /\ reported[Of(v)] = None
                         /\ \A i \in DOMAIN q : q[i] # Of(v)
      /\ \A v, u \in Busy : Of(v) = Of(u) => v = u
      /\ \A t \in run.selected : \/ reported[t] # None
                                 \/ \E i \in DOMAIN q : q[i] = t
                                 \/ \E v \in Busy : Of(v) = t
  BY <1>1 DEF HandedInv
<1> HIDE DEF q, s
<1>7. \A i, j \in DOMAIN Tail(q) : Tail(q)[i] = Tail(q)[j] => i = j
  <2> SUFFICES ASSUME NEW i \in DOMAIN Tail(q), NEW j \in DOMAIN Tail(q), Tail(q)[i] = Tail(q)[j]
               PROVE  i = j
    OBVIOUS
  <2>1. i + 1 = j + 1 /\ i \in Nat /\ j \in Nat
    BY <1>3, <1>6
  <2> QED
    BY <2>1
<1>8. \A i \in DOMAIN Tail(q) :
        Tail(q)[i] \in run.selected /\ reported[Tail(q)[i]] = None /\ Tail(q)[i] # s
  BY <1>3, <1>6
<1>9. \A v \in Busy' : /\ Of(v)' \in run.selected /\ reported[Of(v)'] = None
                       /\ \A i \in DOMAIN Tail(q) : Tail(q)[i] # Of(v)'
  BY <1>3, <1>5, <1>6, <1>8
<1>10. \A v, u \in Busy' : Of(v)' = Of(u)' => v = u
  BY <1>3, <1>5, <1>6
<1>11. ASSUME NEW t \in run.selected
       PROVE  \/ reported[t] # None
              \/ \E i \in DOMAIN Tail(q) : Tail(q)[i] = t
              \/ \E v \in Busy' : Of(v)' = t
  <2>1. ASSUME NEW i \in DOMAIN q, q[i] = t, i # 1
        PROVE  \E k \in DOMAIN Tail(q) : Tail(q)[k] = t
    <3>1. i - 1 \in DOMAIN Tail(q) /\ Tail(q)[i - 1] = q[(i - 1) + 1] /\ (i - 1) + 1 = i
      BY <1>3, <2>1
    <3> QED
      BY <2>1, <3>1
  <2> QED
    BY <1>3, <1>5, <1>6, <2>1
<1> QED
  BY <1>1, <1>2, <1>7, <1>8, <1>9, <1>10, <1>11 DEF HandedInv

LEMMA StartHanded ==
  ASSUME StoreInv, HandedInv, Start
  PROVE  HandedInv' /\ run' \in Runs
<1>1. PICK queue \in Selections, convert \in BOOLEAN :
        run' = [queue |-> queue, convert |-> convert, selected |-> ToSet(queue)]
  BY DEF Start
<1>2. PICK chosen \in SUBSET Sessions : queue \in Sorted(chosen)
  BY DEF Selections
<1>3. Cardinality(chosen) \in Nat
  BY QcAssumption, FS_Subset, FS_CardinalityType
<1>4. /\ queue \in [1..Cardinality(chosen) -> chosen]
      /\ \A i, j \in DOMAIN queue : i < j => Before(queue[i], queue[j])
  BY <1>2 DEF Sorted
<1>5. queue \in Seq(Sessions) /\ DOMAIN queue = 1..Cardinality(chosen)
  BY <1>3, <1>4
<1>6. \A i, j \in DOMAIN queue : queue[i] = queue[j] => i = j
  <2> SUFFICES ASSUME NEW i \in DOMAIN queue, NEW j \in DOMAIN queue,
                      queue[i] = queue[j], i < j
               PROVE  FALSE
    BY <1>3, <1>5
  <2>1. queue[i] \in Sessions /\ Before(queue[i], queue[i])
    BY <1>4, <1>5
  <2> QED
    BY <2>1, QcAssumption DEF Before
<1>7. ToSet(queue) = {queue[i] : i \in DOMAIN queue}
  BY DEF ToSet
<1>8. ToSet(queue) \subseteq Sessions
  BY <1>4, <1>7
<1>9. /\ run'.queue = queue /\ run'.selected = ToSet(queue)
      /\ run' \in Runs /\ run' # None
  <2>1. run' \in Runs
    BY <1>1, <1>5, <1>8 DEF Runs
  <2> QED
    BY <1>1, <2>1, QcAssumption
<1>10. /\ Busy = {} /\ Busy' = {} /\ \A s \in Sessions : reported'[s] = None
  BY DEF Start, HandedInv, Busy
<1> QED
  BY <1>5, <1>6, <1>7, <1>8, <1>9, <1>10 DEF HandedInv

\* The steps that end a run, or that are taken between two of them.
LEMMA RestHanded ==
  ASSUME StoreInv, HandedInv, Between \/ End \/ Die \/ Summarize
  PROVE  HandedInv' /\ (run' = None \/ run' = run)
<1>1. CASE Between \/ Summarize
  BY <1>1 DEF Between, Summarize, HandedInv, Busy
<1>2. CASE End
  BY <1>2 DEF End, HandedInv, Busy, StoreInv
<1>3. CASE Die
  BY <1>3 DEF Die, HandedInv, Busy, Idle
<1> QED
  BY <1>1, <1>2, <1>3

LEMMA HandedStep ==
  ASSUME StoreInv, HandedInv, HonestInv, [QcNext]_qcVars
  PROVE  HandedInv' /\ (run' = None \/ run' \in Runs)
<1>1. CASE UNCHANGED qcVars
  BY <1>1 DEF qcVars, HandedInv, Busy, Of, StoreInv
<1>2. CASE FileChanges \/ ArchiveRebuilt \/ EvidenceChanges \/ End \/ Die \/ Summarize
  BY <1>2, RestHanded DEF FileChanges, ArchiveRebuilt, EvidenceChanges, StoreInv
<1>3. CASE Start
  BY <1>3, StartHanded
<1>4. ASSUME NEW w \in Workers, Take(w)
      PROVE  HandedInv' /\ run' \in Runs
  BY <1>4, TakeHanded
<1>5. ASSUME NEW w \in Workers, Step(w)
      PROVE  HandedInv' /\ run' = run
  BY <1>5, StepIs, ContinuesHanded, FinishesHanded
<1> QED
  BY <1>1, <1>2, <1>3, <1>4, <1>5 DEF QcNext, StoreInv

-----------------------------------------------------------------------------
(* What the workers have in their hands.                                    *)

\* A step of the worker w leaves the working directory of the other sessions alone,
\* and what it goes on with is honest again.
WorkingKept(w) ==
    /\ DOMAIN working' = Sessions
    /\ \A s \in Sessions :
          /\ DOMAIN working'[s] = WorkingFiles
          /\ working'[s].record # None => working'[s].record.rinex = working'[s].record.sha
          /\ s # Of(w) => working'[s] = working[s]

HonestAfter(w) ==
    worker'[w].pc # "idle" =>
        Honest(worker'[w], source[Of(w)], manifest[Of(w)], working'[Of(w)].rinex)

LEMMA WorkingIs ==
  ASSUME StoreInv, NEW w, working' = working
  PROVE  WorkingKept(w)
  BY DEF StoreInv, WorkingKept

\* One of the three files of a session is written.
LEMMA WorkingWritten ==
  ASSUME StoreInv, NEW w, Of(w) \in Sessions, NEW part \in WorkingFiles, NEW what,
         working' = [working EXCEPT ![Of(w)] = [working[Of(w)] EXCEPT ![part] = what]],
         part # "record" \/ what.rinex = what.sha
  PROVE  /\ WorkingKept(w)
         /\ working'[Of(w)].rinex = IF part = "rinex" THEN what ELSE working[Of(w)].rinex
<1> DEFINE done == Of(w)
           kept == [working[Of(w)] EXCEPT ![part] = what]
<1>1. /\ DOMAIN working = Sessions /\ DOMAIN working[done] = WorkingFiles
      /\ working[done].record # None =>
            working[done].record.rinex = working[done].record.sha
  BY DEF StoreInv
<1>2. /\ DOMAIN kept = WorkingFiles
      /\ kept.record # None => kept.record.rinex = kept.record.sha
      /\ kept.rinex = IF part = "rinex" THEN what ELSE working[Of(w)].rinex
  BY <1>1 DEF WorkingFiles
<1>3. /\ DOMAIN working' = Sessions /\ working'[done] = kept
      /\ \A s \in Sessions \ {done} : working'[s] = working[s]
  BY <1>1
<1> HIDE DEF kept
<1> QED
  BY <1>2, <1>3 DEF StoreInv, WorkingKept

\* A worker that sits down to write results, with or without a body measured.
LEMMA WritingHonest ==
  ASSUME NEW s, NEW observed, NEW text, NEW code, NEW file, NEW sha, NEW rinex,
         text # None => text = file /\ observed = file /\ file = sha
  PROVE  Honest(Writing(s, observed, text, code), file, sha, rinex)
  BY ProfilesListed DEF Honest, Writing

LEMMA StepHonest ==
  ASSUME QcInv, NEW w \in Workers, Step(w)
  PROVE  WorkingKept(w) /\ HonestAfter(w)
<1> DEFINE s == Of(w)
<1>1. /\ w \in Busy /\ s \in Sessions /\ DOMAIN worker = Workers
      /\ Honest(worker[w], source[s], manifest[s], working[s].rinex)
      /\ working[s].record # None => working[s].record.rinex = working[s].record.sha
      /\ \A next : Go(w, next) => worker'[w] = next
  BY StepIs, BusyTyped DEF QcInv, HonestInv, StoreInv, Go
<1> HIDE DEF s
<1>2. CASE Verify(w)
  <2>1. WorkingKept(w)
    BY <1>2, WorkingIs DEF Verify, Reading, disk, QcInv
  <2>2. \/ worker'[w] = Failed(s, "SOURCE_FILE_UNAVAILABLE")
        \/ worker'[w] = Idle
        \/ worker'[w] = Writing(s, source[s], None, "HASH_MISMATCH")
        \/ /\ worker'[w] = [pc |-> IF run.convert THEN "convert" ELSE "stream", session |-> s]
           /\ source[s] = manifest[s] /\ source[s] # None
    BY <1>1, <1>2 DEF Verify, s
  <2>3. CASE worker'[w] = Writing(s, None, None, "SOURCE_FILE_UNAVAILABLE")
             \/ worker'[w] = Writing(s, source[s], None, "HASH_MISMATCH")
    BY <2>1, <2>3, WritingHonest DEF HonestAfter
  <2>4. CASE worker'[w] = Idle
    BY <2>1, <2>4 DEF HonestAfter, Idle
  <2>5. CASE /\ worker'[w] = [pc |-> IF run.convert THEN "convert" ELSE "stream", session |-> s]
             /\ source[s] = manifest[s] /\ source[s] # None
    BY <2>1, <2>5 DEF HonestAfter, Honest, s
  <2> QED
    BY <2>2, <2>3, <2>4, <2>5 DEF Failed
<1>3. CASE Convert(w)
  <2>1. /\ WorkingKept(w) /\ working' = working
        /\ source[s] = manifest[s] /\ source[s] # None
    BY <1>1, <1>3, WorkingIs DEF Convert, At, Honest, Reading, disk, QcInv
  <2>2. CASE Reusable(s) /\ worker'[w] = [pc |-> "record", session |-> s,
                                          text |-> working[s].rinex,
                                          record |-> working[s].record]
    BY <1>1, <2>1, <2>2 DEF HonestAfter, Honest, Reusable, s
  <2>3. CASE worker'[w] = [pc |-> "movePlain", session |-> s, text |-> source[s]]
    BY <2>1, <2>3 DEF HonestAfter, Honest, s
  <2> QED
    BY <1>1, <1>3, <2>1, <2>2, <2>3 DEF Convert, s
<1>4. CASE MovePlain(w)
  <2>1. /\ WorkingKept(w) /\ worker[w].pc = "movePlain"
        /\ worker'[w] = [worker[w] EXCEPT !.pc = "moveRinex"]
    BY <1>1, <1>4, WorkingWritten DEF MovePlain, At, QcInv, WorkingFiles, s
  <2>2. HonestAfter(w)
    BY <1>1, <2>1 DEF HonestAfter, Honest, s
  <2> QED
    BY <2>1, <2>2
<1>5. CASE MoveRinex(w)
  <2> DEFINE text == worker[w].text
  <2>1. /\ WorkingKept(w) /\ working'[s].rinex = text
        /\ worker[w].pc = "moveRinex"
        /\ worker'[w] = [pc |-> "record", session |-> s, text |-> text,
                         record |-> [sha |-> text, plain |-> text, rinex |-> text]]
    <3>1. working' = [working EXCEPT ![Of(w)] = [working[Of(w)] EXCEPT !["rinex"] = text]]
      BY <1>5 DEF MoveRinex
    <3>2. WorkingKept(w) /\ working'[Of(w)].rinex = text
      <4>1. "rinex" \in WorkingFiles /\ Of(w) \in Sessions /\ StoreInv
        BY <1>1 DEF WorkingFiles, QcInv, s
      <4> HIDE DEF text
      <4> QED
        BY <3>1, <4>1, WorkingWritten
    <3>3. worker[w].pc = "moveRinex"
      BY <1>5 DEF MoveRinex, At
    <3>4. worker'[w] = [pc |-> "record", session |-> s, text |-> text,
                        record |-> [sha |-> text, plain |-> text, rinex |-> text]]
      BY <1>1, <1>5 DEF MoveRinex, s
    <3> QED
      BY <3>2, <3>3, <3>4 DEF s
  <2>2. text = source[s] /\ source[s] = manifest[s] /\ source[s] # None
    BY <1>1, <2>1 DEF Honest
  <2> HIDE DEF text
  <2>3. HonestAfter(w)
    BY <2>1, <2>2 DEF HonestAfter, Honest, s
  <2> QED
    BY <2>1, <2>3
<1>6. CASE Record(w)
  <2>1. /\ working[s].rinex = source[s] /\ source[s] = manifest[s] /\ source[s] # None
        /\ worker[w].record.rinex = worker[w].record.sha
    BY <1>1, <1>6 DEF Record, At, Honest
  <2>2. /\ WorkingKept(w) /\ working'[s].rinex = working[s].rinex
        /\ worker'[w] = [pc |-> "analyse", session |-> s, text |-> working[s].rinex]
    BY <1>1, <1>6, <2>1, WorkingWritten DEF Record, QcInv, WorkingFiles, s
  <2>3. HonestAfter(w)
    BY <2>1, <2>2 DEF HonestAfter, Honest, s
  <2> QED
    BY <2>2, <2>3
<1>7. CASE Stream(w)
  <2>1. WorkingKept(w)
    BY <1>7, WorkingIs DEF Stream, Reading, disk, QcInv
  <2>2. /\ source[s] = manifest[s] /\ source[s] # None
        /\ worker'[w] = [pc |-> "analyse", session |-> s, text |-> source[s]]
    BY <1>1, <1>7 DEF Stream, At, Honest, s
  <2>3. HonestAfter(w)
    BY <2>2 DEF HonestAfter, Honest, s
  <2> QED
    BY <2>1, <2>3
<1>8. CASE ToolFails(w)
  <2>1. WorkingKept(w)
    BY <1>8, WorkingIs DEF ToolFails, Reading, disk, QcInv
  <2>2. HonestAfter(w)
    BY <1>1, <1>8, WritingHonest DEF ToolFails, HonestAfter, Failed
  <2> QED
    BY <2>1, <2>2
<1>9. CASE Classify(w)
  <2>1. WorkingKept(w)
    BY <1>9, WorkingIs DEF Classify, Reading, disk, QcInv
  <2>2. /\ worker[w].text = source[s] /\ source[s] = manifest[s]
        /\ \/ worker'[w] = Failed(s, "SESSION_PROCESSING_FAILED")
           \/ worker'[w] = Writing(s, source[s], worker[w].text, None)
    BY <1>1, <1>9 DEF Classify, At, Honest, s
  <2>3. HonestAfter(w)
    BY <2>2, WritingHonest DEF HonestAfter, Failed, s
  <2> QED
    BY <2>1, <2>3
<1>10. CASE WriteResult(w) \/ WriteTables(w)
  <2>1. WorkingKept(w)
    BY <1>10, WorkingIs DEF WriteResult, WriteTables, disk, QcInv
  <2>2. /\ DOMAIN worker[w] = {"pc", "session", "left", "outcome"}
        /\ worker[w].left \in Seq(Profiles) /\ worker[w].left # <<>>
        /\ worker[w].outcome.text # None =>
              /\ worker[w].outcome.text = source[s] /\ worker[w].outcome.observed = source[s]
              /\ source[s] = manifest[s]
    BY <1>1, <1>10 DEF WriteResult, WriteTables, At, Honest
  <2>3. CASE NextProfile(w)
    <3>1. CASE Finishes(w, "measured")
      <4>1. worker'[w] = Idle
        BY <1>1, <3>1 DEF Finishes
      <4> QED
        BY <2>1, <4>1 DEF HonestAfter, Idle
    <3>2. CASE /\ worker'[w] = [worker[w] EXCEPT !.pc = "result", !.left = Tail(@)]
               /\ Tail(worker[w].left) \in Seq(Profiles) /\ Tail(worker[w].left) # <<>>
      <4>1. /\ DOMAIN worker'[w] = DOMAIN worker[w]
            /\ worker'[w].pc = "result" /\ worker'[w].left = Tail(worker[w].left)
            /\ worker'[w].outcome = worker[w].outcome
        BY <2>2, <3>2
      <4> QED
        BY <2>1, <2>2, <3>2, <4>1 DEF HonestAfter, Honest, s
    <3> QED
      BY <1>1, <2>2, <2>3, <3>1, <3>2, NextProfileIs DEF QcInv, Continues
  <2>4. CASE worker'[w] = [worker[w] EXCEPT !.pc = "tables"]
    <3>1. /\ DOMAIN worker'[w] = DOMAIN worker[w]
          /\ worker'[w].pc = "tables" /\ worker'[w].left = worker[w].left
          /\ worker'[w].outcome = worker[w].outcome
      BY <2>2, <2>4
    <3> QED
      BY <2>1, <2>2, <3>1 DEF HonestAfter, Honest, s
  <2>5. HonestAfter(w)
    BY <1>1, <1>10, <2>3, <2>4 DEF WriteResult, WriteTables
  <2> QED
    BY <2>1, <2>5
<1> QED
  BY <1>2, <1>3, <1>4, <1>5, <1>6, <1>7, <1>8, <1>9, <1>10 DEF Step

LEMMA HonestStep ==
  ASSUME QcInv, [QcNext]_qcVars
  PROVE  HonestInv'
<1>1. CASE UNCHANGED qcVars
  BY <1>1 DEF qcVars, QcInv, HonestInv, Busy, Of
<1>2. CASE FileChanges \/ ArchiveRebuilt \/ EvidenceChanges \/ Start \/ End \/ Die \/ Summarize
  <2>1. Busy' = {}
    BY <1>2 DEF QcInv, HandedInv, Busy, FileChanges, ArchiveRebuilt, EvidenceChanges, Between,
                Start, End, Die, Summarize, Idle
  <2> QED
    BY <2>1 DEF HonestInv
<1>3. ASSUME NEW w \in Workers, Take(w)
      PROVE  HonestInv'
  <2>1. /\ worker' = [worker EXCEPT ![w] = [pc |-> "verify", session |-> Head(run.queue)]]
        /\ UNCHANGED <<source, manifest, working>> /\ DOMAIN worker = Workers
    BY <1>3 DEF Take, evidence, disk, QcInv, StoreInv
  <2>2. worker'[w].pc = "verify" /\ \A v \in Workers \ {w} : worker'[v] = worker[v]
    BY <2>1
  <2>3. Honest(worker'[w], source'[Of(w)'], manifest'[Of(w)'], working'[Of(w)'].rinex)
    BY <2>2 DEF Honest
  <2> QED
    BY <2>1, <2>2, <2>3 DEF QcInv, HonestInv, Busy, Of
<1>4. ASSUME NEW w \in Workers, Step(w)
      PROVE  HonestInv'
  <2>1. /\ w \in Busy /\ UNCHANGED <<source, manifest>> /\ DOMAIN worker = Workers
        /\ \E next : Go(w, next) /\ (next.pc # "idle" => next.session = Of(w))
    BY <1>4, StepIs DEF QcInv, StoreInv, Continues, Finishes, Idle
  <2>2. /\ worker'[w].pc # "idle" => Of(w)' = Of(w)
        /\ \A v \in Workers \ {w} : worker'[v] = worker[v]
    BY <2>1 DEF Go, Of
  <2>3. WorkingKept(w) /\ HonestAfter(w)
    BY <1>4, StepHonest
  <2>4. SUFFICES ASSUME NEW v \in Busy'
                 PROVE  Honest(worker'[v], source[Of(v)'], manifest[Of(v)'],
                               working'[Of(v)'].rinex)
    BY <2>1 DEF HonestInv
  <2>5. v \in Workers /\ worker'[v].pc # "idle"
    BY DEF Busy
  <2>6. CASE v = w
    BY <2>2, <2>3, <2>5, <2>6 DEF HonestAfter
  <2>7. CASE v # w
    <3>1. worker'[v] = worker[v] /\ v \in Busy /\ Of(v)' = Of(v)
      BY <2>2, <2>5, <2>7 DEF Busy, Of
    <3>2. Of(v) # Of(w) /\ Of(v) \in Sessions
      BY <2>1, <2>7, <3>1, BusyTyped DEF QcInv, HandedInv
    <3>3. working'[Of(v)] = working[Of(v)]
      BY <2>3, <3>2 DEF WorkingKept
    <3> QED
      BY <3>1, <3>3 DEF QcInv, HonestInv
  <2> QED
    BY <2>6, <2>7
<1> QED
  BY <1>1, <1>2, <1>3, <1>4 DEF QcNext

-----------------------------------------------------------------------------
(* What is on the disk.                                                     *)

LEMMA ResultsKept ==
  ASSUME StoreInv, NEW w \in Workers, WriteResult(w)
  PROVE  DOMAIN results' = Profiles /\ \A p \in Profiles : DOMAIN results'[p] = Sessions
<1> DEFINE p == Head(worker[w].left)
<1>1. results' = [results EXCEPT ![p] =
                    [results[p] EXCEPT ![Of(w)] = Result(Of(w), worker[w].outcome, p)]]
  BY DEF WriteResult
<1> HIDE DEF p
<1> QED
  BY <1>1 DEF StoreInv

LEMMA StoreStep ==
  ASSUME QcInv, [QcNext]_qcVars
  PROVE  StoreInv'
<1>1. CASE UNCHANGED qcVars
  BY <1>1 DEF qcVars, QcInv, StoreInv
<1>2. run' = None \/ run' \in Runs
  BY HandedStep DEF QcInv
<1>3. CASE FileChanges \/ ArchiveRebuilt \/ EvidenceChanges
  <2>1. /\ UNCHANGED <<working, results, run, worker>>
        /\ budget' = [budget EXCEPT !.changes = @ - 1] /\ budget.changes > 0
        /\ reported' = [s \in Sessions |-> None]
    BY <1>3 DEF FileChanges, ArchiveRebuilt, EvidenceChanges, Between, disk
  <2>2. budget' \in [changes : Nat, runs : Nat, deaths : Nat]
    BY <2>1 DEF QcInv, StoreInv
  <2>3. source' \in [Sessions -> MaybeFile] /\ manifest' \in [Sessions -> MaybeFile]
    <3>1. \/ UNCHANGED source
          \/ \E s \in Sessions, body \in MaybeFile : source' = [source EXCEPT ![s] = body]
      BY <1>3, QcAssumption DEF FileChanges, ArchiveRebuilt, EvidenceChanges, MaybeFile
    <3>2. \/ UNCHANGED manifest
          \/ \E s \in Sessions, body \in MaybeFile : manifest' = [manifest EXCEPT ![s] = body]
      BY <1>3, QcAssumption DEF FileChanges, ArchiveRebuilt, EvidenceChanges, MaybeFile
    <3> QED
      BY <3>1, <3>2 DEF QcInv, StoreInv
  <2> QED
    BY <2>1, <2>2, <2>3 DEF QcInv, StoreInv
<1>4. CASE Start \/ Die
  <2>1. /\ UNCHANGED <<source, manifest, working, results>> /\ DOMAIN worker' = Workers
        /\ reported' = [s \in Sessions |-> None]
    BY <1>4 DEF Start, Die, evidence, disk, QcInv, StoreInv
  <2>2. \/ budget.runs > 0 /\ budget' = [budget EXCEPT !.runs = @ - 1]
        \/ budget.deaths > 0 /\ budget' = [budget EXCEPT !.deaths = @ - 1]
    BY <1>4 DEF Start, Die
  <2>3. budget' \in [changes : Nat, runs : Nat, deaths : Nat]
    BY <2>2 DEF QcInv, StoreInv
  <2> QED
    BY <1>2, <2>1, <2>3 DEF QcInv, StoreInv
<1>5. CASE End \/ Summarize \/ \E w \in Workers : Take(w)
  <2>1. UNCHANGED <<source, manifest, working, results, reported, budget>>
    BY <1>5 DEF End, Summarize, Take, evidence, disk
  <2>2. DOMAIN worker' = Workers
    BY <1>5 DEF End, Summarize, Take, QcInv, StoreInv
  <2> QED
    BY <1>2, <2>1, <2>2 DEF QcInv, StoreInv
<1>6. ASSUME NEW w \in Workers, Step(w)
      PROVE  StoreInv'
  <2>1. /\ w \in Busy /\ UNCHANGED <<source, manifest, run, budget>>
        /\ Of(w) \in Sessions /\ WorkingKept(w)
    BY <1>6, StepIs, BusyTyped, StepHonest DEF QcInv
  <2>2. /\ \E next : Go(w, next)
        /\ reported' = reported
              \/ \E how \in {"reused", "measured"} : reported' = [reported EXCEPT ![Of(w)] = how]
    BY <1>6, StepIs DEF QcInv, Continues, Finishes
  <2>3. DOMAIN worker' = Workers /\ reported' \in [Sessions -> {None, "reused", "measured"}]
    BY <2>1, <2>2 DEF Go, QcInv, StoreInv
  <2>4. results' = results \/ WriteResult(w)
    BY <1>6 DEF Step, Verify, Convert, MovePlain, MoveRinex, Record, Stream, ToolFails,
                Classify, WriteTables, Reading, disk
  <2>5. DOMAIN results' = Profiles /\ \A p \in Profiles : DOMAIN results'[p] = Sessions
    BY <2>4, ResultsKept DEF QcInv, StoreInv
  <2> QED
    BY <2>1, <2>3, <2>5 DEF QcInv, StoreInv, WorkingKept
<1> QED
  BY <1>1, <1>3, <1>4, <1>5, <1>6 DEF QcNext

LEMMA QcInvInit ==
  ASSUME QcInit
  PROVE  QcInv
<1>1. \A w \in Workers : worker[w].pc = "idle"
  BY DEF QcInit, Idle
<1>2. HandedInv /\ HonestInv
  BY <1>1 DEF QcInit, HandedInv, HonestInv, Busy
<1>3. /\ source \in [Sessions -> MaybeFile]
      /\ budget \in [changes : Nat, runs : Nat, deaths : Nat]
  BY QcAssumption DEF QcInit, MaybeFile
<1>4. StoreInv
  BY <1>3 DEF QcInit, StoreInv, WorkingFiles
<1> QED
  BY <1>2, <1>4 DEF QcInv

\* What the store, the workers and the run of quality control hold at every moment.
THEOREM QcInvHolds == QcSpec => []QcInv
<1>1. QcInv /\ [QcNext]_qcVars => QcInv'
  BY StoreStep, HandedStep, HonestStep DEF QcInv
<1> QED
  BY QcInvInit, <1>1, PTL DEF QcSpec

-----------------------------------------------------------------------------
(* What is let through, what is reused, and what a run accounts for.        *)

\* A failure is a rejection, or blocks the session.
LEMMA FailureShuts ==
  ASSUME NEW code
  PROVE  Overall(FailureFindings(code)) \in {"REJECT", "BLOCKED"}
<1>1. FailureFindings(code) \in {{Found("BLOCKED", code)}, {Found("REJECT", code)}}
  BY DEF FailureFindings
<1>2. \/ {finding.severity : finding \in FailureFindings(code)} = {"BLOCKED"}
      \/ {finding.severity : finding \in FailureFindings(code)} = {"REJECT"}
  <2>1. CASE FailureFindings(code) = {Found("BLOCKED", code)}
    BY <2>1 DEF Found
  <2>2. CASE FailureFindings(code) = {Found("REJECT", code)}
    BY <2>2 DEF Found
  <2> QED
    BY <1>1, <2>1, <2>2
<1> QED
  BY <1>2 DEF Overall

LetThrough(result) == result # None /\ result.class \in {"ACCEPT", "WARN"}

\* What WriteResult stores for a session, and where.
LEMMA WriteResultIs ==
  ASSUME QcInv, NEW w \in Workers, WriteResult(w)
  PROVE  \E p \in Profiles : \E result :
            /\ results' = [results EXCEPT ![p] = [results[p] EXCEPT ![Of(w)] = result]]
            /\ LetThrough(result) =>
                  result.analysed = result.observed /\ result.observed = result.sha
<1> DEFINE s == Of(w)
           p == Head(worker[w].left)
           outcome == worker[w].outcome
           result == Result(s, outcome, p)
<1>1. w \in Busy /\ worker[w].pc = "result"
  BY DEF WriteResult, At, Busy
<1>2. /\ worker[w].left \in Seq(Profiles) /\ worker[w].left # <<>>
      /\ outcome.text # None =>
            outcome.text = source[s] /\ outcome.observed = source[s] /\ source[s] = manifest[s]
  BY <1>1 DEF QcInv, HonestInv, Honest
<1>3. p \in Profiles
  BY <1>2
<1>4. /\ result.analysed = outcome.text /\ result.observed = outcome.observed
      /\ result.sha = manifest[s]
      /\ outcome.text = None => result.class = Overall(FailureFindings(outcome.code))
  BY DEF Result
<1>5. results' = [results EXCEPT ![p] = [results[p] EXCEPT ![s] = result]]
  BY DEF WriteResult
<1> HIDE DEF p, result, outcome
<1>6. LetThrough(result) => outcome.text # None
  BY <1>4, FailureShuts DEF LetThrough
<1> QED
  BY <1>2, <1>3, <1>4, <1>5, <1>6

LEMMA ResultsChange ==
  ASSUME [QcNext]_qcVars
  PROVE  results' = results \/ \E w \in Workers : WriteResult(w)
<1>1. ASSUME NEW w \in Workers, Step(w)
      PROVE  results' = results \/ WriteResult(w)
  BY <1>1 DEF Step, Verify, Convert, MovePlain, MoveRinex, Record, Stream, ToolFails,
              Classify, WriteTables, Reading, disk
<1>2. CASE FileChanges \/ ArchiveRebuilt \/ EvidenceChanges \/ Start \/ End \/ Die \/ Summarize
  BY <1>2 DEF FileChanges, ArchiveRebuilt, EvidenceChanges, Between, Start, End, Die, Summarize,
              disk
<1>3. CASE \E w \in Workers : Take(w)
  BY <1>3 DEF Take, disk
<1> QED
  BY <1>1, <1>2, <1>3 DEF QcNext, qcVars

\* AdmissionHonest holds in every state of quality control.
THEOREM AdmissionHolds == QcSpec => []AdmissionHonest
<1>1. QcInit => AdmissionHonest
  BY DEF QcInit, AdmissionHonest
<1>2. ASSUME QcInv, AdmissionHonest, [QcNext]_qcVars
      PROVE  AdmissionHonest'
  <2>1. CASE results' = results
    BY <1>2, <2>1 DEF AdmissionHonest
  <2>2. ASSUME NEW w \in Workers, WriteResult(w)
        PROVE  AdmissionHonest'
    <3>1. PICK p \in Profiles : \E result :
            /\ results' = [results EXCEPT ![p] = [results[p] EXCEPT ![Of(w)] = result]]
            /\ LetThrough(result) =>
                  result.analysed = result.observed /\ result.observed = result.sha
      BY <1>2, <2>2, WriteResultIs
    <3>2. PICK result :
            /\ results' = [results EXCEPT ![p] = [results[p] EXCEPT ![Of(w)] = result]]
            /\ LetThrough(result) =>
                  result.analysed = result.observed /\ result.observed = result.sha
      BY <3>1
    <3>3. \A q \in Profiles, s \in Sessions :
            results'[q][s] = results[q][s] \/ results'[q][s] = result
      BY <1>2, <3>2 DEF QcInv, StoreInv
    <3> QED
      BY <1>2, <3>2, <3>3 DEF AdmissionHonest, LetThrough
  <2> QED
    BY <1>2, <2>1, <2>2, ResultsChange
<1> QED
  BY <1>1, <1>2, QcInvHolds, PTL DEF QcSpec

\* What Verify leaves in reported, when it takes a session from the store.
LEMMA VerifyReuses ==
  ASSUME QcInv, AdmissionHonest, NEW w \in Workers, Step(w), Finishes(w, "reused")
  PROVE  results' = results
         /\ \A p \in Profiles :
               LET result == results[p][Of(w)] IN
               /\ result.observed = source[Of(w)] /\ result.sha = manifest[Of(w)]
               /\ result.class \in {"ACCEPT", "WARN"} => result.analysed = source[Of(w)]
<1>1. w \in Busy /\ Of(w) \in Sessions /\ reported[Of(w)] = None
  BY StepIs, BusyTyped DEF QcInv
<1>2. reported'[Of(w)] = "reused" /\ DOMAIN reported = Sessions
  BY <1>1 DEF Finishes, QcInv, StoreInv
<1>3. CASE Verify(w)
  <2>1. LoadCached(Of(w)) /\ results' = results
    BY <1>1, <1>2, <1>3, QcAssumption DEF Verify, Reading, disk
  <2> QED
    BY <1>1, <2>1 DEF LoadCached, Cached, Fingerprint, AdmissionHonest
<1>4. CASE WriteResult(w) \/ WriteTables(w)
  <2>1. reported' = reported \/ reported' = [reported EXCEPT ![Of(w)] = "measured"]
    BY <1>4 DEF WriteResult, WriteTables, NextProfile
  <2> QED
    BY <1>1, <1>2, <2>1, QcAssumption
<1>5. CASE ~Verify(w) /\ ~WriteResult(w) /\ ~WriteTables(w)
  <2>1. reported' = reported
    BY <1>5 DEF Step, Convert, MovePlain, MoveRinex, Record, Stream, ToolFails, Classify, Reading
  <2> QED
    BY <1>1, <1>2, <2>1, QcAssumption
<1> QED
  BY <1>3, <1>4, <1>5

\* ReuseStands holds in every state of quality control.
THEOREM ReuseHolds == QcSpec => []ReuseStands
<1>1. QcInit => ReuseStands
  BY QcAssumption DEF QcInit, ReuseStands
<1>2. ASSUME QcInv, AdmissionHonest, ReuseStands, [QcNext]_qcVars
      PROVE  ReuseStands'
  <2>1. CASE UNCHANGED <<source, manifest, results, reported>>
    BY <1>2, <2>1 DEF ReuseStands
  <2>2. CASE reported' = [s \in Sessions |-> None]
    BY <2>2, QcAssumption DEF ReuseStands
  <2>3. ASSUME NEW w \in Workers, Step(w)
        PROVE  ReuseStands'
    <3>1. /\ w \in Busy /\ UNCHANGED <<source, manifest>>
          /\ Of(w) \in Sessions /\ reported[Of(w)] = None /\ DOMAIN reported = Sessions
      BY <1>2, <2>3, StepIs, BusyTyped DEF QcInv, StoreInv
    <3>2. \A p \in Profiles, s \in Sessions \ {Of(w)} : results'[p][s] = results[p][s]
      <4>1. CASE results' = results
        BY <4>1
      <4>2. CASE WriteResult(w)
        <5>1. PICK q \in Profiles : \E result :
                results' = [results EXCEPT ![q] = [results[q] EXCEPT ![Of(w)] = result]]
          BY <1>2, <4>2, WriteResultIs
        <5>2. PICK result :
                results' = [results EXCEPT ![q] = [results[q] EXCEPT ![Of(w)] = result]]
          BY <5>1
        <5> QED
          BY <1>2, <5>2 DEF QcInv, StoreInv
      <4> QED
        BY <2>3, <4>1, <4>2
        DEF Step, Verify, Convert, MovePlain, MoveRinex, Record, Stream, ToolFails, Classify,
            WriteTables, Reading, disk
    <3>3. \A s \in Sessions \ {Of(w)} : reported'[s] = reported[s]
      BY <1>2, <2>3, <3>1, StepIs DEF QcInv, Continues, Finishes
    <3>4. ASSUME reported'[Of(w)] = "reused"
          PROVE  Finishes(w, "reused")
      BY <1>2, <2>3, <3>1, <3>4, StepIs, QcAssumption DEF QcInv, Continues, Finishes
    <3>5. ASSUME NEW s \in Sessions, reported'[s] = "reused", NEW p \in Profiles
          PROVE  /\ results'[p][s].observed = source[s] /\ results'[p][s].sha = manifest[s]
                 /\ results'[p][s].class \in {"ACCEPT", "WARN"} =>
                       results'[p][s].analysed = source[s]
      <4>1. CASE s = Of(w)
        BY <1>2, <2>3, <3>4, <3>5, <4>1, VerifyReuses
      <4>2. CASE s # Of(w)
        BY <1>2, <3>2, <3>3, <3>5, <4>2 DEF ReuseStands
      <4> QED
        BY <4>1, <4>2
    <3> QED
      BY <3>1, <3>5 DEF ReuseStands
  <2> QED
    BY <1>2, <2>1, <2>2, <2>3
    DEF QcNext, qcVars, FileChanges, ArchiveRebuilt, EvidenceChanges, Between, Start, End, Die,
        Summarize, Take, evidence, disk
<1> QED
  BY <1>1, <1>2, QcInvHolds, AdmissionHolds, PTL DEF QcSpec

\* RunAccounts holds of every step of quality control.
THEOREM RunHolds == QcSpec => RunAccounts
<1>1. ASSUME QcInv, [QcNext]_qcVars
      PROVE  [(run # None /\ run' = None /\ budget' = budget)
                => \A s \in run.selected : reported[s] # None]_qcVars
  <2> SUFFICES ASSUME run # None, run' = None, budget' = budget, QcNext
               PROVE  \A s \in run.selected : reported[s] # None
    BY <1>1 DEF qcVars
  <2>1. CASE End
    BY <1>1, <2>1 DEF End, QcInv, HandedInv, Busy
  <2>2. CASE Die
    <3>1. budget.deaths \in Nat /\ budget.deaths = budget.deaths - 1
      BY <1>1, <2>2 DEF Die, QcInv, StoreInv
    <3> QED
      BY <3>1
  <2>3. ASSUME NEW w \in Workers, Take(w) \/ Step(w)
        PROVE  FALSE
    BY <1>1, <2>3, StepIs, TakeHanded, QcAssumption DEF QcInv
  <2> QED
    BY <2>1, <2>2, <2>3
    DEF QcNext, FileChanges, ArchiveRebuilt, EvidenceChanges, Between, Start, Summarize
<1> QED
  BY <1>1, QcInvHolds, PTL DEF QcSpec, RunAccounts

-----------------------------------------------------------------------------
(* What is counted: the windows of the summary.                             *)

LEMMA LeastNat ==
  ASSUME NEW N, N \subseteq Nat, N # {}
  PROVE  \E n \in N : \A m \in N : n <= m
<1> DEFINE R == OpToRel(<, Nat)
<1>1. IsWellFoundedOn(R, Nat)
  BY NatLessThanWellFounded, Zenon
<1>2. \A i, j \in Nat : i < j => <<i, j>> \in R
  BY DEF OpToRel
<1> HIDE DEF R
<1>3. PICK n \in N : \A m \in N : ~(<<m, n>> \in R)
  BY <1>1, WFMin, Zenon
<1>4. n \in Nat /\ \A m \in N : m \in Nat /\ ~(m < n)
  BY <1>2, <1>3
<1>5. \A m \in N : n <= m
  BY <1>4
<1>6. QED
  BY <1>5

\* A fold over the subsets of a finite set is well defined, whatever it folds.
Chooses(c, G) == \A s \in SUBSET G : s # {} => c[s] \in s

Folds(it, G, base, c, h) ==
  \A s \in SUBSET G : it[s] = IF s = {} THEN base ELSE h[<<c[s], it[s \ {c[s]}]>>]

LEMMA FoldIsDefined ==
  ASSUME NEW G, IsFiniteSet(G), NEW V, NEW base \in V,
         NEW c, Chooses(c, G), NEW h \in [G \X V -> V]
  PROVE  \E it \in [SUBSET G -> V] : Folds(it, G, base, c, h)
<1> DEFINE Following(it, s) == IF s = {} THEN base ELSE h[<<c[s], it[s \ {c[s]}]>>]
           Good(n) == \E it \in [SUBSET G -> V] :
                         \A s \in SUBSET G : Cardinality(s) <= n => it[s] = Following(it, s)
           N == {n \in Nat : ~Good(n)}
<1>1. \A s \in SUBSET G : IsFiniteSet(s) /\ Cardinality(s) \in Nat
  BY FS_Subset, FS_CardinalityType
<1>2. \A s \in SUBSET G : s # {} => /\ c[s] \in G /\ s \ {c[s]} \in SUBSET G
                                    /\ Cardinality(s \ {c[s]}) = Cardinality(s) - 1
  BY <1>1, FS_RemoveElement DEF Chooses
<1>3. \A it \in [SUBSET G -> V], s \in SUBSET G : Following(it, s) \in V
  <2>1. ASSUME NEW it \in [SUBSET G -> V], NEW s \in SUBSET G, s # {}
        PROVE  h[<<c[s], it[s \ {c[s]}]>>] \in V
    <3>1. it[s \ {c[s]}] \in V /\ c[s] \in G
      BY <1>2, <2>1
    <3>2. <<c[s], it[s \ {c[s]}]>> \in G \X V
      BY <3>1
    <3>3. QED
      BY <3>2
  <2>2. QED
    BY <2>1
<1>4. Good(0)
  <2> DEFINE it == [s \in SUBSET G |-> base]
  <2>1. it \in [SUBSET G -> V]
    OBVIOUS
  <2>2. \A s \in SUBSET G : Cardinality(s) <= 0 => s = {}
    BY <1>1, FS_EmptySet
  <2>3. QED
    BY <2>1, <2>2
<1>5. ASSUME N # {} PROVE FALSE
  <2>1. PICK n \in N : \A m \in N : n <= m
    BY <1>5, LeastNat
  <2>2. n \in Nat /\ n # 0 /\ ~Good(n)
    <3> HIDE DEF Good
    <3>1. QED
      BY <1>4, <2>1
  <2>3. Good(n - 1)
    <3>1. n - 1 \in Nat /\ ~(n <= n - 1)
      BY <2>2
    <3> HIDE DEF Good
    <3>2. QED
      BY <2>1, <3>1
  <2>4. PICK it \in [SUBSET G -> V] :
            \A s \in SUBSET G : Cardinality(s) <= n - 1 => it[s] = Following(it, s)
    BY <2>3
  <2> DEFINE jt == [s \in SUBSET G |-> Following(it, s)]
  <2> HIDE DEF Following
  <2>5. jt \in [SUBSET G -> V]
    BY <1>3
  <2>6. \A s \in SUBSET G : Cardinality(s) <= n - 1 => jt[s] = it[s]
    BY <2>4
  <2>7. ASSUME NEW s \in SUBSET G, Cardinality(s) <= n PROVE jt[s] = Following(jt, s)
    <3>1. CASE s = {}
      BY <3>1 DEF Following
    <3>2. CASE s # {}
      <4>1. s \ {c[s]} \in SUBSET G /\ Cardinality(s \ {c[s]}) <= n - 1
        BY <1>1, <1>2, <2>2, <2>7, <3>2
      <4>2. jt[s \ {c[s]}] = it[s \ {c[s]}]
        BY <2>6, <4>1
      <4>3. jt[s] = Following(it, s)
        OBVIOUS
      <4> HIDE DEF jt
      <4>4. QED
        BY <4>2, <4>3 DEF Following
    <3>3. QED
      BY <3>1, <3>2
  <2>8. QED
    BY <2>2, <2>5, <2>7
<1>6. Good(Cardinality(G))
  <2> HIDE DEF Good
  <2>1. QED
    BY <1>1, <1>5
<1>7. \A s \in SUBSET G : Cardinality(s) <= Cardinality(G)
  BY FS_Subset
<1>8. QED
  BY <1>6, <1>7 DEF Folds
-----------------------------------------------------------------------------
(* The windows of the summary.                                              *)

\* A day on which at least k stations were accepted.
Enough(rows, k, d) == d \in 1..LastDay /\ Health!Cardinality(Health!Qualified(rows, d)) >= k

LEMMA LastOf ==
  ASSUME NEW n \in Nat, NEW s \in SUBSET (1..n), s # {}
  PROVE  /\ Health!Max(s) \in s /\ \A d \in s : d <= Health!Max(s)
<1> DEFINE N == {n - d : d \in s}
<1>1. N \subseteq Nat
  OBVIOUS
<1> PICK some \in s : TRUE
  OBVIOUS
<1>0. n - some \in N
  OBVIOUS
<1>2. PICK m \in N : \A l \in N : m <= l
  BY <1>0, <1>1, LeastNat
<1>3. PICK x \in s : m = n - x
  BY <1>2
<1>4. \A d \in s : x >= d
  <2>1. TAKE d \in s
  <2>2. m <= n - d
    BY <1>2
  <2>3. QED
    BY <1>3, <2>2
<1>5. \E y \in s : \A d \in s : y >= d
  BY <1>4
<1>6. Health!Max(s) \in s /\ \A d \in s : Health!Max(s) >= d
  BY <1>5 DEF Health!Max
<1>7. QED
  BY <1>6

LEMMA LastOfFirst ==
  ASSUME NEW n \in Nat, NEW m \in 1..n
  PROVE  /\ 1..m \in SUBSET (1..n) /\ 1..m # {}
         /\ Health!Max(1..m) = m /\ (1..m) \ {m} = 1..(m - 1)
<1>1. 1..m \in SUBSET (1..n) /\ 1..m # {} /\ m \in 1..m /\ (1..m) \ {m} = 1..(m - 1)
  OBVIOUS
<1>2. Health!Max(1..m) \in 1..m /\ m <= Health!Max(1..m)
  BY <1>1, LastOf
<1>3. QED
  BY <1>1, <1>2

Opened == [start |-> None, closed |-> {}]
Closed(k) == [minimum : {k}, start : Int \cup {None}, end : Int]
Scans(k) == [start : Int \cup {None}, closed : SUBSET Closed(k)]

LEMMA DayIs ==
  ASSUME NEW rows, NEW k, NEW scan, NEW d \in Nat
  PROVE  Health!WindowStep(rows, k, scan, d) =
           IF Enough(rows, k, d) /\ scan.start = None THEN [scan EXCEPT !.start = d]
           ELSE IF ~Enough(rows, k, d) /\ scan.start # None
           THEN [start |-> None,
                 closed |-> scan.closed \cup {[minimum |-> k, start |-> scan.start, end |-> d - 1]}]
           ELSE scan
  BY DEF Health!WindowStep, Enough, Health!AllDays

LEMMA DayTyped ==
  ASSUME NEW rows, NEW k, NEW scan \in Scans(k), NEW d \in Nat
  PROVE  Health!WindowStep(rows, k, scan, d) \in Scans(k)
  BY DayIs DEF Scans, Closed

\* The pass over the days, day by day.
LEMMA ScanIs ==
  ASSUME NEW rows, NEW k, LastDay \in Nat
  PROVE  \E F \in [0..(LastDay + 1) -> Scans(k)] :
            /\ F[0] = Opened
            /\ \A d \in 1..(LastDay + 1) : F[d] = Health!WindowStep(rows, k, F[d - 1], d)
            /\ Health!WindowsOf(rows, k) = F[LastDay + 1].closed
<1> DEFINE n == LastDay + 1
           G == 1..n
           c == [s \in SUBSET G |-> Health!Max(s)]
           seq == [d \in 1..n |-> d]
           h == [p \in G \X Scans(k) |-> Health!WindowStep(rows, k, p[2], p[1])]
           Eq(it) == it = [s \in SUBSET DOMAIN seq |->
                             IF s = {} THEN Opened
                             ELSE Health!WindowStep(rows, k, it[s \ {Health!Max(s)}],
                                                    seq[Health!Max(s)])]
<1>1. Health!WindowsOf(rows, k) = (CHOOSE it : Eq(it))[DOMAIN seq].closed
  BY DEF Health!WindowsOf, Health!FoldLeft, Health!MapThenFoldSet, Opened
<1>2. n \in Nat /\ n # 0 /\ IsFiniteSet(G) /\ DOMAIN seq = G /\ \A d \in G : seq[d] = d
  BY FS_Interval
<1>3. \A s \in SUBSET G : s # {} => c[s] \in s
  <2> HIDE DEF n
  <2>1. QED
    BY <1>2, LastOf
<1>4. Opened \in Scans(k)
  BY DEF Opened, Scans
<1>5. h \in [G \X Scans(k) -> Scans(k)]
  BY <1>2, DayTyped
<1>6. PICK it \in [SUBSET G -> Scans(k)] :
          \A s \in SUBSET G : it[s] = IF s = {} THEN Opened ELSE h[<<c[s], it[s \ {c[s]}]>>]
  <2>1. IsFiniteSet(G)
    BY <1>2
  <2> DEFINE V == Scans(k)
  <2>2. Opened \in V /\ h \in [G \X V -> V]
    BY <1>4, <1>5
  <2> HIDE DEF G, c, h, V
  <2>3. Chooses(c, G)
    BY <1>3 DEF Chooses
  <2>4. \E it \in [SUBSET G -> V] : Folds(it, G, Opened, c, h)
    BY <2>1, <2>2, <2>3, FoldIsDefined
  <2>5. QED
    BY <2>4 DEF V, Folds
<1> HIDE DEF n
<1>7. ASSUME NEW s \in SUBSET G, s # {}
      PROVE  h[<<c[s], it[s \ {c[s]}]>>]
               = Health!WindowStep(rows, k, it[s \ {Health!Max(s)}], seq[Health!Max(s)])
  <2>1. c[s] \in G /\ it[s \ {c[s]}] \in Scans(k)
    BY <1>3, <1>7
  <2>2. <<c[s], it[s \ {c[s]}]>> \in G \X Scans(k)
    BY <2>1
  <2>3. h[<<c[s], it[s \ {c[s]}]>>] = Health!WindowStep(rows, k, it[s \ {c[s]}], c[s])
    BY <2>2
  <2>4. c[s] = Health!Max(s) /\ seq[c[s]] = c[s]
    BY <1>2, <2>1
  <2>5. QED
    BY <2>3, <2>4
<1>8. Eq(it)
  <2> HIDE DEF G, c, h, seq
  <2>1. QED
    BY <1>2, <1>6, <1>7
<1> DEFINE jt == CHOOSE jt : Eq(jt)
<1>9. Eq(jt)
  <2> HIDE DEF Eq
  <2>1. QED
    BY <1>8
<1> HIDE DEF jt
<1>10. \A s \in SUBSET G : jt[s] = IF s = {} THEN Opened
                                   ELSE Health!WindowStep(rows, k, jt[s \ {Health!Max(s)}],
                                                          Health!Max(s))
  <2> SUFFICES ASSUME NEW s \in SUBSET G
               PROVE  jt[s] = IF s = {} THEN Opened
                              ELSE Health!WindowStep(rows, k, jt[s \ {Health!Max(s)}],
                                                     Health!Max(s))
    OBVIOUS
  <2>1. s # {} => seq[Health!Max(s)] = Health!Max(s)
    BY <1>2, <1>3
  <2>2. QED
    BY <1>2, <1>9, <2>1
<1> DEFINE F == [d \in 0..n |-> jt[1..d]]
<1>11. F[0] = Opened
  <2>1. 1..0 = {} /\ {} \in SUBSET G /\ 0 \in 0..n
    BY <1>2
  <2>2. QED
    BY <1>10, <2>1
<1>12. \A d \in 1..n : F[d] = Health!WindowStep(rows, k, F[d - 1], d)
  <2>1. TAKE d \in 1..n
  <2>2. d \in 0..n /\ d - 1 \in 0..n
    BY <1>2
  <2>3. /\ 1..d \in SUBSET G /\ 1..d # {} /\ Health!Max(1..d) = d
        /\ (1..d) \ {Health!Max(1..d)} = 1..(d - 1)
    BY <1>2, LastOfFirst
  <2>4. jt[1..d] = Health!WindowStep(rows, k, jt[1..(d - 1)], d)
    BY <1>10, <2>3
  <2>5. QED
    BY <2>2, <2>4
<1> HIDE DEF F
<1>13. \A d \in 0..n : F[d] \in Scans(k)
  <2> DEFINE N == {d \in 0..n : F[d] \notin Scans(k)}
  <2>1. ASSUME N # {} PROVE FALSE
    <3>0. N \subseteq Nat
      BY <1>2
    <3>1. PICK d \in N : \A e \in N : d <= e
      BY <2>1, <3>0, LeastNat
    <3>2. d \in 1..n /\ d - 1 \in 0..n /\ ~(d <= d - 1)
      BY <1>2, <1>4, <1>11, <3>1
    <3>3. F[d - 1] \in Scans(k)
      BY <3>1, <3>2
    <3>4. F[d] \in Scans(k)
      BY <1>2, <1>12, <3>2, <3>3, DayTyped
    <3>5. QED
      BY <3>1, <3>4
  <2>2. QED
    BY <2>1
<1>14. Health!WindowsOf(rows, k) = F[n].closed
  <2>1. F[n] = jt[1..n]
    BY <1>2 DEF F
  <2>2. QED
    BY <1>1, <1>2, <2>1 DEF jt
<1>15. F \in [0..n -> Scans(k)]
  BY <1>13 DEF F
<1>16. QED
  BY <1>11, <1>12, <1>14, <1>15 DEF n

Spans(k) == [minimum : {k}, start : 1..LastDay, end : 1..LastDay]

\* The windows that ended before day m.
Ended(rows, k, m) == {w \in Spans(k) : Health!IsWindow(rows, w) /\ w.end < m}

\* What the pass knows after day m: the windows that ended, and where one is open.
ScanInv(rows, k, scan, m) ==
  /\ scan.closed = Ended(rows, k, m)
  /\ \/ scan.start = None /\ ~Enough(rows, k, m)
     \/ /\ scan.start \in 1..m /\ ~Enough(rows, k, scan.start - 1)
        /\ \A d \in scan.start..m : Enough(rows, k, d)

LEMMA WindowIs ==
  ASSUME NEW rows, NEW k, NEW w \in Spans(k)
  PROVE  /\ w.minimum = k /\ w.start \in 1..LastDay /\ w.end \in 1..LastDay
         /\ w = [minimum |-> k, start |-> w.start, end |-> w.end]
         /\ Health!IsWindow(rows, w) <=>
              /\ w.start <= w.end
              /\ \A d \in w.start..w.end : Enough(rows, k, d)
              /\ ~Enough(rows, k, w.start - 1) /\ ~Enough(rows, k, w.end + 1)
<1>1. /\ w.minimum = k /\ w.start \in 1..LastDay /\ w.end \in 1..LastDay
      /\ w = [minimum |-> k, start |-> w.start, end |-> w.end]
  BY DEF Spans
<1>2. Health!IsWindow(rows, w) <=>
              /\ w.start <= w.end
              /\ \A d \in w.start..w.end : Enough(rows, k, d)
              /\ ~Enough(rows, k, w.start - 1) /\ ~Enough(rows, k, w.end + 1)
  BY <1>1 DEF Health!IsWindow, Enough, Health!AllDays
<1>3. QED
  BY <1>1, <1>2

\* A day that does not end an open window leaves the windows that ended as they are.
LEMMA NoneEnds ==
  ASSUME NEW rows, NEW k, LastDay \in Nat, NEW m \in 1..(LastDay + 1),
         ~Enough(rows, k, m - 1) \/ Enough(rows, k, m)
  PROVE  Ended(rows, k, m) = Ended(rows, k, m - 1)
<1>1. ASSUME NEW w \in Spans(k), Health!IsWindow(rows, w), w.end < m PROVE w.end < m - 1
  <2>1. /\ w.start \in 1..LastDay /\ w.end \in 1..LastDay /\ w.start <= w.end
        /\ Enough(rows, k, w.end) /\ ~Enough(rows, k, w.end + 1)
    BY <1>1, WindowIs
  <2>2. w.end # m - 1
    BY <2>1
  <2>3. QED
    BY <1>1, <2>1, <2>2
<1>2. \A w \in Spans(k) : w.end < m - 1 => w.end < m
  BY DEF Spans
<1>3. QED
  BY <1>1, <1>2 DEF Ended

\* A day that does adds the one that was open.
LEMMA OneEnds ==
  ASSUME NEW rows, NEW k, LastDay \in Nat, NEW m \in 1..(LastDay + 1), ~Enough(rows, k, m),
         NEW s \in 1..(m - 1), ~Enough(rows, k, s - 1), \A d \in s..(m - 1) : Enough(rows, k, d)
  PROVE  Ended(rows, k, m) =
           Ended(rows, k, m - 1) \cup {[minimum |-> k, start |-> s, end |-> m - 1]}
<1> DEFINE v == [minimum |-> k, start |-> s, end |-> m - 1]
<1>1. v \in Spans(k) /\ v.start = s /\ v.end = m - 1 /\ m - 1 \in Int /\ (m - 1) + 1 = m
  BY DEF Spans
<1>2. Health!IsWindow(rows, v)
  <2> HIDE DEF v
  <2>1. QED
    BY <1>1, WindowIs
<1> HIDE DEF v
<1>3. v.end < m
  BY <1>1
<1>4. ASSUME NEW w \in Spans(k), Health!IsWindow(rows, w), w.end < m, ~(w.end < m - 1)
      PROVE  w = v
  <2>1. /\ w.start \in 1..LastDay /\ w.end \in 1..LastDay /\ w.start <= w.end
        /\ w = [minimum |-> k, start |-> w.start, end |-> w.end]
        /\ \A d \in w.start..w.end : Enough(rows, k, d)
        /\ ~Enough(rows, k, w.start - 1)
    BY <1>4, WindowIs
  <2>2. w.end = m - 1
    BY <1>4, <2>1
  <2>3. ~(w.start < s)
    <3>1. w.start < s => s - 1 \in w.start..w.end
      BY <2>1, <2>2
    <3>2. QED
      BY <2>1, <3>1
  <2>4. ~(s < w.start)
    <3>1. s < w.start => w.start - 1 \in s..(m - 1)
      BY <2>1, <2>2
    <3>2. QED
      BY <2>1, <3>1
  <2>5. w.start = s
    BY <2>1, <2>3, <2>4
  <2>6. QED
    BY <2>1, <2>2, <2>5 DEF v
<1>5. \A w \in Spans(k) : w.end < m - 1 => w.end < m
  BY DEF Spans
<1>6. QED
  BY <1>1, <1>2, <1>3, <1>4, <1>5 DEF Ended, v

LEMMA ScanStep ==
  ASSUME NEW rows, NEW k, LastDay \in Nat, None \notin 1..LastDay,
         NEW m \in 1..(LastDay + 1), NEW scan \in Scans(k), ScanInv(rows, k, scan, m - 1)
  PROVE  ScanInv(rows, k, Health!WindowStep(rows, k, scan, m), m)
<1> DEFINE next == Health!WindowStep(rows, k, scan, m)
           open == /\ scan.start \in 1..(m - 1) /\ ~Enough(rows, k, scan.start - 1)
                   /\ \A d \in scan.start..(m - 1) : Enough(rows, k, d)
<1>1. /\ scan = [start |-> scan.start, closed |-> scan.closed]
      /\ scan.closed = Ended(rows, k, m - 1)
      /\ (scan.start = None /\ ~Enough(rows, k, m - 1)) \/ open
  BY DEF ScanInv, Scans
<1>2. open => scan.start # None /\ Enough(rows, k, m - 1)
  <2>1. open => scan.start \in 1..LastDay /\ m - 1 \in scan.start..(m - 1)
    OBVIOUS
  <2>2. QED
    BY <2>1
<1>3. next = IF Enough(rows, k, m) /\ scan.start = None THEN [scan EXCEPT !.start = m]
             ELSE IF ~Enough(rows, k, m) /\ scan.start # None
             THEN [start |-> None,
                   closed |-> scan.closed
                                \cup {[minimum |-> k, start |-> scan.start, end |-> m - 1]}]
             ELSE scan
  BY DayIs
<1> HIDE DEF next
<1>4. CASE ~open /\ ~Enough(rows, k, m)
  <2>1. next = scan /\ scan.start = None
    BY <1>1, <1>3, <1>4
  <2>2. Ended(rows, k, m) = Ended(rows, k, m - 1)
    BY <1>1, <1>4, NoneEnds
  <2>3. QED
    BY <1>1, <1>4, <2>1, <2>2 DEF ScanInv, next
<1>5. CASE ~open /\ Enough(rows, k, m)
  <2>1. next.start = m /\ next.closed = scan.closed
    BY <1>1, <1>3, <1>5
  <2>2. Ended(rows, k, m) = Ended(rows, k, m - 1)
    BY <1>1, <1>5, NoneEnds
  <2>3. ~Enough(rows, k, next.start - 1) /\ \A d \in next.start..m : Enough(rows, k, d)
    BY <1>1, <1>5, <2>1
  <2>4. QED
    BY <1>1, <2>1, <2>2, <2>3 DEF ScanInv, next
<1>6. CASE open /\ ~Enough(rows, k, m)
  <2>1. next = [start |-> None,
                closed |-> scan.closed
                             \cup {[minimum |-> k, start |-> scan.start, end |-> m - 1]}]
    BY <1>2, <1>3, <1>6
  <2>2. Ended(rows, k, m) = Ended(rows, k, m - 1)
                              \cup {[minimum |-> k, start |-> scan.start, end |-> m - 1]}
    BY <1>6, OneEnds
  <2>3. QED
    BY <1>1, <1>6, <2>1, <2>2 DEF ScanInv, next
<1>7. CASE open /\ Enough(rows, k, m)
  <2>1. next = scan
    BY <1>2, <1>3, <1>7
  <2>2. Ended(rows, k, m) = Ended(rows, k, m - 1)
    BY <1>7, NoneEnds
  <2>3. scan.start \in 1..m /\ \A d \in scan.start..m : Enough(rows, k, d)
    <3>1. \A d \in scan.start..m : d \in scan.start..(m - 1) \/ d = m
      BY <1>7
    <3>2. QED
      BY <1>7, <3>1
  <2>4. QED
    BY <1>1, <1>7, <2>1, <2>2, <2>3 DEF ScanInv, next
<1>8. QED
  BY <1>4, <1>5, <1>6, <1>7

\* The windows of one minimum are the longest runs of days with enough stations.
LEMMA WindowsAre ==
  ASSUME NEW rows, NEW k, LastDay \in Nat, None \notin 1..LastDay
  PROVE  Health!WindowsOf(rows, k) = {w \in Spans(k) : Health!IsWindow(rows, w)}
<1> DEFINE n == LastDay + 1
<1>1. PICK F \in [0..n -> Scans(k)] :
          /\ F[0] = Opened
          /\ \A d \in 1..n : F[d] = Health!WindowStep(rows, k, F[d - 1], d)
          /\ Health!WindowsOf(rows, k) = F[n].closed
  BY ScanIs
<1>2. ScanInv(rows, k, F[0], 0)
  <2>1. Ended(rows, k, 0) = {}
    <3>1. \A w \in Spans(k) : ~(w.end < 0)
      BY DEF Spans
    <3>2. QED
      BY <3>1 DEF Ended
  <2>2. ~Enough(rows, k, 0)
    BY DEF Enough
  <2>3. QED
    BY <1>1, <2>1, <2>2 DEF ScanInv, Opened
<1> DEFINE N == {d \in 0..n : ~ScanInv(rows, k, F[d], d)}
<1>3. ASSUME N # {} PROVE FALSE
  <2>1. N \subseteq Nat
    OBVIOUS
  <2>2. PICK d \in N : \A e \in N : d <= e
    BY <1>3, <2>1, LeastNat
  <2>3. d \in 1..n /\ d - 1 \in 0..n /\ ~(d <= d - 1)
    BY <1>2, <2>2
  <2>4. ScanInv(rows, k, F[d - 1], d - 1) /\ F[d - 1] \in Scans(k)
    BY <2>2, <2>3
  <2>5. ScanInv(rows, k, Health!WindowStep(rows, k, F[d - 1], d), d)
    BY <2>3, <2>4, ScanStep
  <2>6. QED
    BY <1>1, <2>2, <2>3, <2>5
<1>4. n \in 0..n
  OBVIOUS
<1>5. F[n].closed = Ended(rows, k, n)
  <2>1. ScanInv(rows, k, F[n], n)
    BY <1>3, <1>4
  <2>2. QED
    BY <2>1 DEF ScanInv
<1>6. \A w \in Spans(k) : w.end < n
  BY DEF Spans
<1>7. QED
  BY <1>1, <1>5, <1>6 DEF Ended

LEMMA WindowsAreMaximal ==
  ASSUME NEW rows
  PROVE  Health!Windows(rows, 1..2) = Health!MaximalRuns(rows, 1..2)
<1>1. \A k \in 1..2 : Health!WindowsOf(rows, k) = {w \in Spans(k) : Health!IsWindow(rows, w)}
  BY QcAssumption, WindowsAre
<1>2. \A w : w \in [minimum : 1..2, start : 1..LastDay, end : 1..LastDay]
               <=> \E k \in 1..2 : w \in Spans(k)
  BY DEF Spans
<1>3. Health!Windows(rows, 1..2) = UNION {Health!WindowsOf(rows, k) : k \in 1..2}
  BY DEF Health!Windows
<1>4. Health!MaximalRuns(rows, 1..2) =
        {w \in [minimum : 1..2, start : 1..LastDay, end : 1..LastDay] : Health!IsWindow(rows, w)}
  BY Zenon DEF Health!MaximalRuns, Health!AllDays
<1>5. QED
  BY <1>1, <1>2, <1>3, <1>4

LEMMA SummaryStep ==
  WindowsMaximal /\ [QcNext]_qcVars => WindowsMaximal'
<1> SUFFICES ASSUME WindowsMaximal, [QcNext]_qcVars PROVE WindowsMaximal'
  OBVIOUS
<1>1. \A rows : Health!MaximalRuns(rows, 1..2)' = Health!MaximalRuns(rows, 1..2)
  OBVIOUS
<1>2. CASE summary' = summary
  BY <1>2 DEF WindowsMaximal
<1>3. CASE summary' = None
  BY <1>3 DEF WindowsMaximal
<1>4. CASE Summarize
  <2>1. PICK p \in Profiles : 
           summary' = [profile |-> p, rows |-> Rows(p),
                         health |-> {Health!Health(Rows(p), s.station) : s \in Sessions},
                         windows |-> Health!Windows(Rows(p), 1..2),
                         transitions |-> Health!Transitions(Rows(p))]
    BY <1>4 DEF Summarize
  <2>2. summary'.rows = Rows(p) /\ summary'.windows = Health!Windows(Rows(p), 1..2)
    BY <2>1
  <2>3. Health!Windows(Rows(p), 1..2) = Health!MaximalRuns(Rows(p), 1..2)
    BY WindowsAreMaximal
  <2>4. summary'.windows = Health!MaximalRuns(summary'.rows, 1..2)
    BY <2>2, <2>3
  <2>5. QED
    BY <2>4 DEF WindowsMaximal
<1>5. QED
  BY <1>2, <1>3, <1>4
     DEF QcNext, qcVars, FileChanges, ArchiveRebuilt, EvidenceChanges, Between, Start, End, Die,
         Take, Step, Verify, Convert, MovePlain, MoveRinex, Record, Stream, ToolFails, Classify,
         WriteResult, WriteTables, Reading

-----------------------------------------------------------------------------
(* The recursion of the folds over finite sets, for a sum of sizes.         *)
Folded(g, G, it) ==
  it = [s \in SUBSET G |->
          IF s = {} THEN 0
          ELSE g[CHOOSE x \in s : TRUE] + it[s \ {CHOOSE x \in s : TRUE}]]

Together(A, s) == UNION {A[i] : i \in s}

LEMMA TogetherTyped ==
  ASSUME NEW G, IsFiniteSet(G), NEW A, \A i \in G : IsFiniteSet(A[i]), NEW s \in SUBSET G
  PROVE  IsFiniteSet(Together(A, s)) /\ Cardinality(Together(A, s)) \in Nat
<1>1. IsFiniteSet(s)
  BY FS_Subset
<1> DEFINE R == {A[i] : i \in s}
<1>2. IsFiniteSet(R)
  <2> DEFINE f == [i \in s |-> A[i]]
  <2>1. f \in Surjection(s, R)
    BY DEF Surjection
  <2>2. QED
    BY <1>1, <2>1, FS_Surjection
<1>3. IsFiniteSet(UNION R)
  <2>1. \A T \in R : IsFiniteSet(T)
    OBVIOUS
  <2>2. QED
    BY <1>2, <2>1, FS_UNION
<1>4. QED
  BY <1>3, FS_CardinalityType DEF Together

LEMMA OneMore ==
  ASSUME NEW G, IsFiniteSet(G), NEW A, \A i \in G : IsFiniteSet(A[i]),
         \A i, j \in G : i # j => A[i] \cap A[j] = {},
         NEW s \in SUBSET G, NEW x \in s
  PROVE  Cardinality(Together(A, s)) = Cardinality(A[x]) + Cardinality(Together(A, s \ {x}))
<1> DEFINE r == s \ {x}
           W == Together(A, r)
<1>1. r \in SUBSET G /\ x \in G
  OBVIOUS
<1>2. IsFiniteSet(W) /\ Cardinality(W) \in Nat /\ IsFiniteSet(A[x])
  BY <1>1, TogetherTyped
<1>3. Together(A, s) = A[x] \cup W
  BY DEF Together
<1>4. A[x] \cap W = {}
  BY <1>1 DEF Together
<1>5. Cardinality(A[x]) \in Nat
  BY <1>2, FS_CardinalityType
<1>6. W = Together(A, s \ {x})
  OBVIOUS
<1> HIDE DEF W
<1>7. Cardinality(A[x] \cup W) = Cardinality(A[x]) + Cardinality(W) - Cardinality(A[x] \cap W)
  BY <1>2, FS_Union
<1>8. Cardinality(A[x] \cap W) = 0
  BY <1>4, FS_EmptySet
<1>9. Cardinality(A[x] \cup W) = Cardinality(A[x]) + Cardinality(W)
  BY <1>2, <1>5, <1>7, <1>8
<1>10. QED
  BY <1>3, <1>6, <1>9

LEMMA FoldExists ==
  ASSUME NEW G, IsFiniteSet(G), NEW A, \A i \in G : IsFiniteSet(A[i]),
         \A i, j \in G : i # j => A[i] \cap A[j] = {},
         NEW g, \A i \in G : g[i] = Cardinality(A[i])
  PROVE  Folded(g, G, [s \in SUBSET G |-> Cardinality(Together(A, s))])
<1> DEFINE it == [s \in SUBSET G |-> Cardinality(Together(A, s))]
           First(s) == CHOOSE x \in s : TRUE
<1>1. ASSUME NEW s \in SUBSET G
      PROVE  it[s] = IF s = {} THEN 0 ELSE g[First(s)] + it[s \ {First(s)}]
  <2>1. CASE s = {}
    <3>1. Together(A, {}) = {}
      BY DEF Together
    <3>2. QED
      BY <2>1, <3>1, FS_EmptySet
  <2>2. CASE s # {}
    <3>1. First(s) \in s /\ First(s) \in G /\ s \ {First(s)} \in SUBSET G
      BY <2>2
    <3> HIDE DEF First
    <3>2. Cardinality(Together(A, s)) =
            Cardinality(A[First(s)]) + Cardinality(Together(A, s \ {First(s)}))
      BY <3>1, OneMore
    <3>3. QED
      BY <2>2, <3>1, <3>2
  <2>3. QED
    BY <2>1, <2>2
<1>2. QED
  BY <1>1 DEF Folded

LEMMA FoldIs ==
  ASSUME NEW G, IsFiniteSet(G), NEW A, \A i \in G : IsFiniteSet(A[i]),
         \A i, j \in G : i # j => A[i] \cap A[j] = {},
         NEW g, \A i \in G : g[i] = Cardinality(A[i]),
         NEW it, Folded(g, G, it)
  PROVE  it[G] = Cardinality(Together(A, G))
<1> DEFINE Wrong(n) == \E s \in SUBSET G : Cardinality(s) = n /\ it[s] # Cardinality(Together(A, s))
           N == {n \in Nat : Wrong(n)}
           First(s) == CHOOSE x \in s : TRUE
<1>1. ASSUME NEW s \in SUBSET G
      PROVE  /\ it[s] = IF s = {} THEN 0 ELSE g[First(s)] + it[s \ {First(s)}]
             /\ IsFiniteSet(s) /\ Cardinality(s) \in Nat
  <2>1. IsFiniteSet(s) /\ Cardinality(s) \in Nat
    BY FS_Subset, FS_CardinalityType
  <2>2. QED
    BY <2>1 DEF Folded
<1>2. ASSUME N # {} PROVE FALSE
  <2>1. PICK n \in N : \A m \in N : n <= m
    BY <1>2, LeastNat
  <2>2. PICK s \in SUBSET G : Cardinality(s) = n /\ it[s] # Cardinality(Together(A, s))
    BY <2>1
  <2>3. s # {}
    <3>1. Together(A, {}) = {}
      BY DEF Together
    <3>2. QED
      BY <1>1, <2>2, <3>1, FS_EmptySet
  <2>4. First(s) \in s /\ First(s) \in G /\ s \ {First(s)} \in SUBSET G
    BY <2>3
  <2>5. it[s] = g[First(s)] + it[s \ {First(s)}]
    BY <1>1, <2>3
  <2> HIDE DEF First
  <2>6. Cardinality(s \ {First(s)}) = n - 1 /\ n \in Nat
    BY <1>1, <2>1, <2>2, <2>4, FS_RemoveElement
  <2>7. n - 1 \in Nat
    BY <1>1, <2>4, <2>6
  <2>8. ~Wrong(n - 1)
    BY <2>1, <2>6, <2>7
  <2>9. it[s \ {First(s)}] = Cardinality(Together(A, s \ {First(s)}))
    BY <2>4, <2>6, <2>8
  <2>10. Cardinality(Together(A, s)) =
            Cardinality(A[First(s)]) + Cardinality(Together(A, s \ {First(s)}))
    BY <2>4, OneMore
  <2>11. QED
    BY <2>2, <2>4, <2>5, <2>9, <2>10
<1>3. IsFiniteSet(G) /\ Cardinality(G) \in Nat
  BY FS_CardinalityType
<1>4. QED
  BY <1>2, <1>3

\* A sum of the sizes of disjoint sets is the size of their union.
LEMMA SumIs ==
  ASSUME NEW G, IsFiniteSet(G), NEW A, \A i \in G : IsFiniteSet(A[i]),
         \A i, j \in G : i # j => A[i] \cap A[j] = {},
         \A i \in G : i.missing = Cardinality(A[i])
  PROVE  MapThenSumSet(LAMBDA gap : gap.missing, G) = Cardinality(Together(A, G))
<1> DEFINE Eq(it) == it = [s \in SUBSET G |->
               IF s = {} THEN 0
               ELSE (CHOOSE x \in s : TRUE).missing + it[s \ {CHOOSE x \in s : TRUE}]]
           g == [i \in G |-> i.missing]
<1>1. MapThenSumSet(LAMBDA gap : gap.missing, G) = (CHOOSE it : Eq(it))[G]
  BY DEF MapThenSumSet, MapThenFoldSet
<1>2. ASSUME NEW it PROVE Eq(it) <=> Folded(g, G, it)
  <2>1. \A s \in SUBSET G : s # {} => g[CHOOSE x \in s : TRUE] = (CHOOSE x \in s : TRUE).missing
    OBVIOUS
  <2>2. QED
    BY <2>1 DEF Folded
<1> HIDE DEF Eq
<1>3. \A i \in G : g[i] = Cardinality(A[i])
  OBVIOUS
<1> HIDE DEF g
<1>4. \E it : Eq(it)
  BY <1>2, <1>3, FoldExists
<1>5. Eq(CHOOSE it : Eq(it))
  BY <1>4
<1>6. (CHOOSE it : Eq(it))[G] = Cardinality(Together(A, G))
  BY <1>2, <1>3, <1>5, FoldIs
<1>7. QED
  BY <1>1, <1>6

-----------------------------------------------------------------------------
(* The places of a grid.                                                    *)
LEMMA SizeUpTo ==
  ASSUME NEW n \in Nat
  PROVE  /\ IsFiniteSet(1..n) /\ Cardinality(1..n) = n
         /\ IsFiniteSet(0..n) /\ Cardinality(0..n) = n + 1
<1>1. IsFiniteSet(1..n) /\ Cardinality(1..n) = IF 1 > n THEN 0 ELSE n - 1 + 1
  BY FS_Interval
<1>2. IsFiniteSet(0..n) /\ Cardinality(0..n) = IF 0 > n THEN 0 ELSE n - 0 + 1
  BY FS_Interval
<1>3. QED
  BY <1>1, <1>2

LEMMA Distributes ==
  ASSUME NEW a \in Int, NEW b \in Int, NEW c \in Int
  PROVE  /\ a * c \in Int
         /\ (a + b) * c = a * c + b * c
         /\ (a - b) * c = a * c - b * c
  OBVIOUS

LEMMA Multiple ==
  ASSUME NEW a \in Int, NEW b \in Nat \ {0}, a % b = 0
  PROVE  a \div b \in Int /\ a = (a \div b) * b
  OBVIOUS

LEMMA Quotient ==
  ASSUME NEW q \in Int, NEW b \in Nat \ {0}
  PROVE  (q * b) \div b = q /\ (q * b) % b = 0
  OBVIOUS

LEMMA InOrder ==
  ASSUME NEW q \in Int, NEW p \in Int, NEW b \in Nat \ {0}
  PROVE  (p * b < q * b <=> p < q) /\ (p * b = q * b <=> p = q)
  OBVIOUS

LEMMA RatioOfMultiple ==
  ASSUME NEW q \in Int, NEW b \in Nat \ {0}
  PROVE  RoundedRatio(q * b, b) = q
<1>1. (q * b) \div b = q /\ (q * b) % b = 0
  BY Quotient
<1>2. QED
  BY <1>1 DEF RoundedRatio

Increasing(q, n) == \A i \in 1..(n - 1) : q[i] < q[i + 1]

LEMMA Grows ==
  ASSUME NEW n \in Nat, NEW q \in [1..n -> Int], Increasing(q, n),
         NEW i \in 1..n, NEW j \in 1..n, i < j
  PROVE  q[i] < q[j]
<1> DEFINE N == {k \in 1..n : i < k /\ ~(q[i] < q[k])}
<1>1. N \subseteq Nat
  OBVIOUS
<1>2. ASSUME N # {} PROVE FALSE
  <2>1. PICK k \in N : \A l \in N : k <= l
    BY <1>1, <1>2, LeastNat
  <2>2. k \in 1..n /\ i < k /\ ~(q[i] < q[k])
    BY <2>1
  <2>3. k - 1 \in 1..(n - 1) /\ k - 1 \in 1..n /\ ~(k <= k - 1)
    BY <2>2
  <2>4. q[k - 1] < q[k]
    BY <2>2, <2>3 DEF Increasing
  <2>5. k - 1 = i \/ q[i] < q[k - 1]
    BY <2>1, <2>2, <2>3
  <2>6. q[i] \in Int /\ q[k] \in Int /\ q[k - 1] \in Int
    BY <2>2, <2>3
  <2>7. QED
    BY <2>2, <2>4, <2>5, <2>6
<1>3. QED
  BY <1>2

\* The places between one epoch and the next.
Skipped(q, n) == [i \in 1..(n - 1) |-> (q[i] + 1)..(q[i + 1] - 1)]

LEMMA SkippedIs ==
  ASSUME NEW n \in Nat, NEW q \in [1..n -> Int], Increasing(q, n)
  PROVE  /\ \A i \in 1..(n - 1) :
              /\ IsFiniteSet(Skipped(q, n)[i])
              /\ Cardinality(Skipped(q, n)[i]) = q[i + 1] - q[i] - 1
         /\ \A i, j \in 1..(n - 1) : i # j => Skipped(q, n)[i] \cap Skipped(q, n)[j] = {}
         /\ \A i \in 1..(n - 1), k \in 1..n : q[k] \notin Skipped(q, n)[i]
<1> DEFINE A == Skipped(q, n)
<1>1. \A i \in 1..(n - 1) : /\ i \in 1..n /\ i + 1 \in 1..n /\ q[i] \in Int /\ q[i + 1] \in Int
                            /\ q[i] < q[i + 1] /\ A[i] = (q[i] + 1)..(q[i + 1] - 1)
  BY DEF Increasing, Skipped
<1> HIDE DEF A
<1>2. \A i \in 1..(n - 1) : \A x \in A[i] : x \in Int /\ q[i] < x /\ x < q[i + 1]
  BY <1>1
<1>3. ASSUME NEW i \in 1..(n - 1)
      PROVE  IsFiniteSet(A[i]) /\ Cardinality(A[i]) = q[i + 1] - q[i] - 1
  <2> DEFINE a == q[i] + 1
             b == q[i + 1] - 1
  <2>0. q[i] \in Int /\ q[i + 1] \in Int /\ q[i] < q[i + 1] /\ A[i] = a..b
    BY <1>1
  <2>1. a \in Int /\ b \in Int /\ b - a + 1 = q[i + 1] - q[i] - 1 /\ b - a + 1 >= 0
    <3>1. ASSUME NEW u \in Int, NEW v \in Int, u < v
          PROVE  /\ u + 1 \in Int /\ v - 1 \in Int
                 /\ (v - 1) - (u + 1) + 1 = v - u - 1 /\ (v - 1) - (u + 1) + 1 >= 0
      BY <3>1
    <3> QED
      BY <2>0, <3>1, Zenon
  <2> HIDE DEF a, b
  <2>2. IsFiniteSet(a..b) /\ Cardinality(a..b) = IF a > b THEN 0 ELSE b - a + 1
    BY <2>1, FS_Interval
  <2>3. Cardinality(a..b) = b - a + 1
    BY <2>1, <2>2
  <2>4. QED
    BY <2>0, <2>1, <2>2, <2>3
<1>4. \A i, j \in 1..n : q[i] \in Int /\ (i <= j => q[i] <= q[j])
  <2>1. \A i, j \in 1..n : i < j => q[i] < q[j]
    BY Grows
  <2>2. \A i \in 1..n : q[i] \in Int
    OBVIOUS
  <2>3. QED
    BY <2>1, <2>2
<1>5. ASSUME NEW i \in 1..(n - 1), NEW k \in 1..n PROVE q[k] \notin A[i]
  <2>1. k <= i \/ i + 1 <= k
    OBVIOUS
  <2>2. q[k] <= q[i] \/ q[i + 1] <= q[k]
    BY <1>1, <1>4, <2>1
  <2>3. q[k] \in Int
    OBVIOUS
  <2>4. QED
    BY <1>1, <1>2, <2>2, <2>3
<1>6. ASSUME NEW i \in 1..(n - 1), NEW j \in 1..(n - 1), i < j PROVE A[i] \cap A[j] = {}
  <2>1. q[i + 1] <= q[j]
    BY <1>1, <1>4, <1>6
  <2>2. \A x \in A[i] : x \in Int /\ x < q[i + 1] /\ q[i + 1] \in Int
    BY <1>1, <1>2
  <2>3. \A x \in A[j] : x \in Int /\ q[j] < x /\ q[j] \in Int
    BY <1>1, <1>2
  <2>4. QED
    BY <2>1, <2>2, <2>3
<1>7. ASSUME NEW i \in 1..(n - 1), NEW j \in 1..(n - 1), i # j PROVE A[i] \cap A[j] = {}
  <2>1. CASE i < j
    BY <1>6, <2>1
  <2>2. CASE j < i
    <3>1. A[j] \cap A[i] = {}
      BY <1>6, <2>2
    <3>2. QED
      BY <3>1, Zenon
  <2>3. i < j \/ j < i
    BY <1>7
  <2>4. QED
    BY <2>1, <2>2, <2>3, Zenon
<1>8. QED
  BY <1>3, <1>5, <1>7 DEF A

LEMMA EveryPlace ==
  ASSUME NEW n \in Nat \ {0}, NEW q \in [1..n -> Int], Increasing(q, n),
         NEW x \in q[1]..q[n]
  PROVE  (\E k \in 1..n : x = q[k]) \/ \E i \in 1..(n - 1) : x \in Skipped(q, n)[i]
<1> DEFINE N == {k \in 1..n : x <= q[k]}
<1>1. q[n] \in Int /\ n \in N /\ N \subseteq Nat
  OBVIOUS
<1>2. PICK k \in N : \A l \in N : k <= l
  BY <1>1, LeastNat
<1>3. k \in 1..n /\ x <= q[k] /\ q[k] \in Int
  BY <1>2
<1>4. CASE x = q[k]
  BY <1>3, <1>4
<1>5. CASE x # q[k]
  <2>1. k # 1
    BY <1>3, <1>5
  <2>2. k - 1 \in 1..(n - 1) /\ k - 1 \in 1..n /\ ~(k <= k - 1) /\ (k - 1) + 1 = k
    BY <1>3, <2>1
  <2>3. ~(x <= q[k - 1]) /\ q[k - 1] \in Int
    BY <1>2, <2>2
  <2>4. x \in (q[k - 1] + 1)..(q[k] - 1)
    BY <1>3, <1>5, <2>3
  <2>5. x \in Skipped(q, n)[k - 1]
    BY <2>2, <2>4 DEF Skipped
  <2>6. QED
    BY <2>2, <2>5
<1>6. QED
  BY <1>4, <1>5

LEMMA AsManyPlaces ==
  ASSUME NEW n \in Nat, NEW q \in [1..n -> Int], Increasing(q, n)
  PROVE  LET Q == {q[k] : k \in 1..n} IN IsFiniteSet(Q) /\ Cardinality(Q) = n
<1> DEFINE Q == {q[k] : k \in 1..n}
<1>1. q \in [1..n -> Q] /\ q \in Surjection(1..n, Q)
  BY DEF Surjection
<1>2. \A k, l \in 1..n : k # l => q[k] # q[l]
  <2>1. TAKE k, l \in 1..n
  <2>2. q[k] \in Int /\ q[l] \in Int
    OBVIOUS
  <2>3. k < l => q[k] < q[l]
    BY Grows
  <2>4. l < k => q[l] < q[k]
    BY Grows
  <2>5. QED
    BY <2>2, <2>3, <2>4
<1> HIDE DEF Q
<1>3. q \in Injection(1..n, Q)
  BY <1>1, <1>2 DEF Injection, IsInjective
<1>4. ExistsBijection(1..n, Q)
  BY <1>1, <1>3 DEF Bijection, ExistsBijection
<1>5. IsFiniteSet(1..n) /\ Cardinality(1..n) = n
  BY SizeUpTo
<1>6. IsFiniteSet(Q) /\ Cardinality(Q) = n
  BY <1>4, <1>5, FS_Bijection
<1>7. QED
  BY <1>6 DEF Q

LEMMA PlacesAreCounted ==
  ASSUME NEW n \in Nat \ {0}, NEW q \in [1..n -> Int], Increasing(q, n),
         NEW G, G = {i \in 1..(n - 1) : q[i + 1] - q[i] > 1}
  PROVE  n + Cardinality(Together(Skipped(q, n), G)) = q[n] - q[1] + 1
<1> DEFINE A == Skipped(q, n)
           W == Together(A, G)
           Q == {q[k] : k \in 1..n}
<1>1. \A k \in 1..n : q[k] \in q[1]..q[n]
  <2>1. TAKE k \in 1..n
  <2>2. q[k] \in Int /\ q[1] \in Int /\ q[n] \in Int /\ 1 \in 1..n /\ n \in 1..n
    OBVIOUS
  <2>3. q[1] <= q[k]
    BY <2>2, Grows
  <2>4. q[k] <= q[n]
    BY <2>2, Grows
  <2>5. QED
    BY <2>2, <2>3, <2>4
<1>2. \A i \in 1..(n - 1) : /\ q[i] \in q[1]..q[n] /\ q[i + 1] \in q[1]..q[n] /\ q[n] \in Int
                            /\ A[i] = (q[i] + 1)..(q[i + 1] - 1)
  BY <1>1 DEF Skipped
<1>3. W \subseteq q[1]..q[n]
  <2>1. \A i \in 1..(n - 1) : A[i] \subseteq q[1]..q[n]
    <3> SUFFICES ASSUME NEW i \in 1..(n - 1) PROVE A[i] \subseteq q[1]..q[n]
      OBVIOUS
    <3> HIDE DEF A
    <3>1. /\ A[i] = (q[i] + 1)..(q[i + 1] - 1) /\ q[1] \in Int /\ q[n] \in Int
          /\ q[i] \in q[1]..q[n] /\ q[i + 1] \in q[1]..q[n]
      <4>1. 1 \in 1..n /\ n \in 1..n
        OBVIOUS
      <4>2. q[1] \in Int /\ q[n] \in Int
        BY <4>1
      <4> QED
        BY <1>2, <4>2
    <3>2. q[i] \in Int /\ q[i + 1] \in Int /\ q[1] <= q[i] /\ q[i + 1] <= q[n]
      BY <3>1
    <3>3. \A x \in A[i] : x \in Int /\ q[1] <= x /\ x <= q[n]
      BY <3>1, <3>2
    <3> QED
      BY <3>1, <3>3
  <2> HIDE DEF A
  <2>2. QED
    BY <2>1 DEF Together
<1>4. W \cap Q = {}
  <2>1. \A i \in 1..(n - 1), k \in 1..n : q[k] \notin A[i]
    BY SkippedIs
  <2>2. ASSUME NEW x \in W PROVE \E i \in 1..(n - 1) : x \in A[i]
    <3> HIDE DEF A
    <3> QED
      BY DEF Together
  <2> HIDE DEF A, W
  <2>3. QED
    BY <2>1, <2>2
<1>5. ASSUME NEW x \in q[1]..q[n] PROVE x \in W \cup Q
  <2>1. CASE \E k \in 1..n : x = q[k]
    BY <2>1
  <2>2. ASSUME NEW i \in 1..(n - 1), x \in A[i] PROVE x \in W
    <3>1. i \in G
      BY <1>2, <2>2
    <3> HIDE DEF A
    <3>2. QED
      BY <2>2, <3>1 DEF Together
  <2>3. QED
    BY <2>1, <2>2, EveryPlace
<1>6. Q \subseteq q[1]..q[n]
  BY <1>1
<1>7. IsFiniteSet(Q) /\ Cardinality(Q) = n
  BY AsManyPlaces
<1> HIDE DEF W, Q, A
<1>8. /\ q[1] \in Int /\ q[n] \in Int /\ IsFiniteSet(q[1]..q[n])
      /\ Cardinality(q[1]..q[n]) = q[n] - q[1] + 1
  <2>1. q[1] \in Int /\ q[n] \in Int /\ q[1] <= q[n]
    BY <1>1
  <2>2. QED
    BY <2>1, FS_Interval
<1>9. IsFiniteSet(W) /\ Cardinality(W) \in Nat
  BY <1>3, <1>8, FS_Subset, FS_CardinalityType
<1>10. W \cup Q = q[1]..q[n]
  BY <1>3, <1>5, <1>6
<1>11. Cardinality(W \cup Q) = Cardinality(W) + Cardinality(Q) - Cardinality(W \cap Q)
  BY <1>7, <1>9, FS_Union
<1>12. Cardinality(W \cap Q) = 0
  BY <1>4, FS_EmptySet
<1>13. q[n] - q[1] + 1 = Cardinality(W) + n - 0
  BY <1>7, <1>8, <1>10, <1>11, <1>12
<1>14. q[n] - q[1] + 1 = n + Cardinality(W)
  BY <1>8, <1>9, <1>13
<1>15. QED
  BY <1>14 DEF W, A

LEMMA NotNegative ==
  ASSUME NEW x \in Int, x >= 0
  PROVE  Max({x, 0}) = x
<1>1. \A y \in {x, 0} : (\A z \in {x, 0} : y >= z) <=> y = x
  OBVIOUS
<1>2. (CHOOSE y \in {x, 0} : \A z \in {x, 0} : y >= z) = x
  BY <1>1
<1>3. QED
  BY <1>2 DEF Max

-----------------------------------------------------------------------------
(* The epochs of one converted file.                                        *)

\* Among finitely many values one is greatest.
LEMMA Greatest ==
  ASSUME NEW n \in Nat, NEW S, S \subseteq 1..n, S # {}, NEW v, \A i \in S : v[i] \in Int
  PROVE  \E i \in S : \A j \in S : v[j] <= v[i]
<1> DEFINE T(m) == {i \in S : i <= m}
           Has(m) == \E i \in T(m) : \A j \in T(m) : v[j] <= v[i]
           N == {m \in 0..n : T(m) # {} /\ ~Has(m)}
<1>0. \A i \in S : i \in Nat /\ 1 <= i /\ i <= n
  OBVIOUS
<1>1. N \subseteq Nat
  OBVIOUS
<1>2. ASSUME N # {} PROVE FALSE
  <2> HIDE DEF N
  <2>1. PICK m \in N : \A l \in N : m <= l
    BY <1>1, <1>2, LeastNat
  <2>2. m \in 0..n /\ T(m) # {} /\ ~Has(m)
    BY <2>1 DEF N
  <2>3. m # 0
    <3>1. PICK i \in T(m) : TRUE
      BY <2>2
    <3>2. QED
      BY <1>0, <3>1
  <2>4. m - 1 \in 0..n /\ ~(m <= m - 1)
    BY <2>2, <2>3
  <2>5. T(m - 1) = {} \/ Has(m - 1)
    <3> HIDE DEF T, Has
    <3>1. QED
      BY <2>1, <2>4 DEF N
  <2>6. \A i \in T(m) : i \in T(m - 1) \/ i = m
    <3> SUFFICES ASSUME NEW i \in S, i <= m, i # m PROVE i <= m - 1
      OBVIOUS
    <3>1. i \in Nat /\ m \in Nat
      BY <1>0, <2>2
    <3>2. QED
      BY <3>1
  <2>7. T(m - 1) \subseteq T(m)
    <3> SUFFICES ASSUME NEW i \in S, i <= m - 1 PROVE i <= m
      OBVIOUS
    <3>1. i \in Nat /\ m \in Nat
      BY <1>0, <2>2
    <3>2. QED
      BY <3>1
  <2>8. CASE m \notin S
    <3>1. T(m) = T(m - 1)
      BY <2>6, <2>7, <2>8
    <3> HIDE DEF T
    <3>2. QED
      BY <2>2, <2>5, <3>1
  <2>9. CASE m \in S
    <3>1. m \in T(m) /\ v[m] \in Int
      BY <2>2, <2>9
    <3>2. CASE T(m - 1) = {}
      <4>1. \A j \in T(m) : j = m
        BY <2>6, <3>2
      <4>2. Has(m)
        <5> HIDE DEF T
        <5>1. \A j \in T(m) : v[j] <= v[m]
          BY <3>1, <4>1
        <5>2. QED
          BY <3>1, <5>1
      <4>3. QED
        BY <2>2, <4>2
    <3>3. CASE Has(m - 1)
      <4>1. PICK i \in T(m - 1) : \A j \in T(m - 1) : v[j] <= v[i]
        BY <3>3
      <4>2. i \in T(m) /\ v[i] \in Int
        BY <2>7, <4>1
      <4> HIDE DEF T
      <4>3. CASE v[m] <= v[i]
        <5>1. \A j \in T(m) : v[j] <= v[i]
          BY <2>6, <4>1, <4>3
        <5>2. QED
          BY <2>2, <4>2, <5>1
      <4>4. CASE ~(v[m] <= v[i])
        <5>1. \A j \in T(m) : v[j] \in Int
          BY DEF T
        <5>2. \A j \in T(m) : v[j] <= v[m]
          BY <2>6, <2>7, <3>1, <4>1, <4>2, <4>4, <5>1
        <5>3. QED
          BY <2>2, <3>1, <5>2
      <4>5. QED
        BY <4>3, <4>4
    <3>4. QED
      BY <2>5, <3>2, <3>3
  <2>10. QED
    BY <2>8, <2>9
<1>3. T(n) = S
  BY <1>0
<1>4. Has(n)
  <2> HIDE DEF T, Has
  <2>1. n \in 0..n
    OBVIOUS
  <2>2. QED
    BY <1>2, <1>3, <2>1
<1>5. QED
  BY <1>3, <1>4

LEMMA RankedTyped ==
  ASSUME NEW n \in Nat, NEW S, S \subseteq 1..n, S # {},
         NEW v, \A i \in S : v[i] \in Nat \ {0}, NEW k \in 1..Cardinality(S)
  PROVE  Ranked(v, S, k) \in Nat \ {0}
<1> DEFINE Upto(j) == {l \in S : v[l] <= v[j]}
           R == {v[i] : i \in {j \in S : Cardinality(Upto(j)) >= k}}
<1>1. Ranked(v, S, k) = CHOOSE x \in R : \A y \in R : x <= y
  BY DEF Ranked, Min
<1>2. R \subseteq Nat /\ \A x \in R : x \in Nat \ {0}
  OBVIOUS
<1>3. IsFiniteSet(S) /\ Cardinality(S) \in Nat
  BY SizeUpTo, FS_Subset, FS_CardinalityType
<1>4. R # {}
  <2>1. PICK i \in S : \A j \in S : v[j] <= v[i]
    <3>1. \A i \in S : v[i] \in Int
      OBVIOUS
    <3>2. QED
      BY <3>1, Greatest
  <2>2. Upto(i) = S
    BY <2>1
  <2> HIDE DEF Upto
  <2>3. Cardinality(Upto(i)) >= k
    BY <1>3, <2>2
  <2>4. v[i] \in R
    BY <2>3
  <2>5. QED
    BY <2>4
<1> HIDE DEF R
<1>5. \E x \in R : \A y \in R : x <= y
  BY <1>2, <1>4, LeastNat
<1>6. (CHOOSE x \in R : \A y \in R : x <= y) \in R
  BY <1>5
<1>7. QED
  BY <1>1, <1>2, <1>6

LEMMA MedianTyped ==
  ASSUME NEW n \in Nat, NEW S, S \subseteq 1..n, S # {}, NEW v, \A i \in S : v[i] \in Nat \ {0}
  PROVE  Median(v, S) \in Nat \ {0}
<1> DEFINE count == Cardinality(S)
           half == count \div 2
<1>1. IsFiniteSet(S) /\ count \in Nat
  BY SizeUpTo, FS_Subset, FS_CardinalityType
<1>2. count # 0
  BY <1>1, FS_EmptySet
<1> HIDE DEF count
<1>3. /\ half + 1 \in 1..count \/ (count % 2 = 0 /\ half \in 1..count)
      /\ count % 2 = 1 => half + 1 \in 1..count
      /\ count % 2 # 1 => half \in 1..count /\ half + 1 \in 1..count
  BY <1>1, <1>2
<1> HIDE DEF half
<1>4. CASE count % 2 = 1
  <2>1. Ranked(v, S, half + 1) \in Nat \ {0}
    BY <1>3, <1>4, RankedTyped DEF count
  <2>2. QED
    BY <1>4, <2>1 DEF Median, count, half
<1>5. CASE count % 2 # 1
  <2> DEFINE x == Ranked(v, S, half)
             y == Ranked(v, S, half + 1)
  <2>1. x \in Nat \ {0} /\ y \in Nat \ {0}
    BY <1>3, <1>5, RankedTyped DEF count
  <2>2. Median(v, S) = (x + y) \div 2
    BY <1>5 DEF Median, count, half
  <2> HIDE DEF x, y
  <2>3. (x + y) \div 2 \in Nat \ {0}
    BY <2>1
  <2>4. QED
    BY <2>2, <2>3
<1>6. QED
  BY <1>4, <1>5

Parsed(body) ==
  /\ body.epochs \in Seq(Int) /\ body.epochs # <<>>
  /\ body.declared \in (Nat \ {0}) \cup {None}

LEMMA StepsAre ==
  ASSUME NEW e \in Seq(Int), e # <<>>
  PROVE  /\ Len(e) \in Nat \ {0} /\ e \in [1..Len(e) -> Int] /\ DOMAIN e = 1..Len(e)
         /\ DOMAIN Steps(e) = 1..(Len(e) - 1)
         /\ \A i \in 1..(Len(e) - 1) : /\ i \in 1..Len(e) /\ i + 1 \in 1..Len(e)
                                       /\ Steps(e)[i] = e[i + 1] - e[i] /\ Steps(e)[i] \in Int
<1>1. Len(e) \in Nat \ {0} /\ e \in [1..Len(e) -> Int] /\ DOMAIN e = 1..Len(e)
  BY EmptySeq, LenProperties
<1>2. DOMAIN Steps(e) = 1..(Len(e) - 1)
  BY DEF Steps
<1>3. \A i \in 1..(Len(e) - 1) : i \in 1..Len(e) /\ i + 1 \in 1..Len(e)
  BY <1>1
<1>4. \A i \in 1..(Len(e) - 1) : Steps(e)[i] = e[i + 1] - e[i] /\ Steps(e)[i] \in Int
  BY <1>1, <1>3 DEF Steps
<1>5. QED
  BY <1>1, <1>2, <1>3, <1>4

LEMMA KnownInterval ==
  ASSUME NEW body, Parsed(body), Analysis(body).interval # None
  PROVE  Analysis(body).interval \in Nat \ {0}
<1> DEFINE e == body.epochs
           S == {i \in DOMAIN Steps(e) : Steps(e)[i] > 0}
<1>1. Empirical(body) = IF S = {} THEN None ELSE Median(Steps(e), S)
  BY DEF Empirical
<1>2. Analysis(body).interval = IF body.declared # None THEN body.declared ELSE Empirical(body)
  BY DEF Analysis
<1>3. Len(e) - 1 \in Nat /\ S \subseteq 1..(Len(e) - 1) /\ \A i \in S : Steps(e)[i] \in Nat \ {0}
  <2>1. /\ Len(e) \in Nat \ {0} /\ DOMAIN Steps(e) = 1..(Len(e) - 1)
        /\ \A i \in 1..(Len(e) - 1) : Steps(e)[i] \in Int
    BY StepsAre DEF Parsed
  <2> HIDE DEF e
  <2> QED
    BY <2>1
<1> HIDE DEF S
<1>4. S # {} => Median(Steps(e), S) \in Nat \ {0}
  BY <1>3, MedianTyped
<1>5. QED
  BY <1>1, <1>2, <1>4 DEF Parsed

\* The epochs reported missing are those of the grid that are not there.
LEMMA MissingIs ==
  ASSUME NEW body, Parsed(body), Day \in Nat, OnGrid(body, Analysis(body).interval)
  PROVE  Analysis(body).missing
           = Cardinality(Grid(Analysis(body).interval) \ ToSet(body.epochs))
<1> DEFINE e == body.epochs
           b == Analysis(body).interval
           n == Len(e)
           m == Day \div b
           q == [k \in 1..n |-> e[k] \div b]
           G == Gaps(e, b)
           D == {i \in 1..(n - 1) : q[i + 1] - q[i] > 1}
           P == Skipped(q, n)
           A == [gap \in G |-> P[gap.at]]
<1>1. b # None /\ b \in Nat \ {0}
  BY KnownInterval DEF OnGrid
<1>2. /\ Day % b = 0 /\ \A k \in DOMAIN e : e[k] \in Grid(b)
      /\ \A i \in DOMAIN Steps(e) : Steps(e)[i] > 0
  BY DEF OnGrid
<1>3. Analysis(body).missing = MissingEpochs(e, b)
  BY <1>1 DEF Analysis
<1>4. /\ e \in Seq(Int) /\ n \in Nat \ {0} /\ e \in [1..n -> Int] /\ DOMAIN e = 1..n
      /\ DOMAIN Steps(e) = 1..(n - 1)
      /\ \A i \in 1..(n - 1) : /\ i \in 1..n /\ i + 1 \in 1..n
                               /\ Steps(e)[i] = e[i + 1] - e[i] /\ Steps(e)[i] \in Int
  BY StepsAre DEF Parsed
<1> HIDE DEF e, b
<1>5. m \in Nat /\ Day = m * b
  <2>1. m \in Int /\ Day = m * b
    BY <1>1, <1>2, Multiple
  <2>2. m >= 0
    BY <1>1, <2>1
  <2>3. QED
    BY <2>1, <2>2
<1>6. \A k \in 1..n : e[k] \in Int /\ q[k] \in 0..(m - 1) /\ e[k] = q[k] * b
  <2> SUFFICES ASSUME NEW k \in 1..n
               PROVE  e[k] \in Int /\ q[k] \in 0..(m - 1) /\ e[k] = q[k] * b
    OBVIOUS
  <2>1. PICK p \in 0..(m - 1) : e[k] = p * b
    BY <1>2, <1>4 DEF Grid
  <2>2. p \in Int /\ (p * b) \div b = p
    BY <1>1, <1>5, <2>1, Quotient
  <2>3. QED
    BY <1>4, <2>1, <2>2
<1> HIDE DEF m
<1>7. q \in [1..n -> Int]
  BY <1>5, <1>6
<1> HIDE DEF q, n
<1>8. \A i \in 1..(n - 1) : /\ q[i] \in Int /\ q[i + 1] \in Int
                            /\ Steps(e)[i] = (q[i + 1] - q[i]) * b
  <2> SUFFICES ASSUME NEW i \in 1..(n - 1)
               PROVE  /\ q[i] \in Int /\ q[i + 1] \in Int
                      /\ Steps(e)[i] = (q[i + 1] - q[i]) * b
    OBVIOUS
  <2>1. i \in 1..n /\ i + 1 \in 1..n
    BY <1>4
  <2>2. q[i] \in Int /\ q[i + 1] \in Int /\ e[i] = q[i] * b /\ e[i + 1] = q[i + 1] * b
    BY <1>6, <1>7, <2>1
  <2>3. (q[i + 1] - q[i]) * b = q[i + 1] * b - q[i] * b
    BY <1>1, <2>2, Distributes
  <2>4. QED
    BY <1>4, <2>2, <2>3
<1>9. \A i \in 1..(n - 1) : q[i] < q[i + 1] /\ (Steps(e)[i] > b <=> q[i + 1] - q[i] > 1)
  <2> SUFFICES ASSUME NEW i \in 1..(n - 1)
               PROVE  q[i] < q[i + 1] /\ (Steps(e)[i] > b <=> q[i + 1] - q[i] > 1)
    OBVIOUS
  <2> DEFINE d == q[i + 1] - q[i]
  <2>1. d \in Int /\ Steps(e)[i] = d * b /\ Steps(e)[i] > 0
    <3>1. d \in Int /\ Steps(e)[i] = d * b
      BY <1>8
    <3>2. i \in DOMAIN Steps(e)
      BY <1>4
    <3>3. Steps(e)[i] > 0
      BY <1>2, <3>2
    <3>4. QED
      BY <3>1, <3>3
  <2> HIDE DEF d
  <2>2. (0 * b < d * b <=> 0 < d) /\ (1 * b < d * b <=> 1 < d) /\ 0 * b = 0 /\ 1 * b = b
    BY <1>1, <2>1, InOrder
  <2>3. d > 0 /\ (Steps(e)[i] > b <=> d > 1)
    BY <1>1, <2>1, <2>2
  <2>4. QED
    BY <1>8, <2>3 DEF d
<1>10. Increasing(q, n)
  BY <1>9 DEF Increasing
<1> DEFINE gap(i) == [at |-> i, elapsed |-> Steps(e)[i],
                      missing |-> Max({RoundedRatio(Steps(e)[i], b) - 1, 0})]
<1>11. G = {gap(i) : i \in D}
  <2>1. {i \in DOMAIN Steps(e) : Steps(e)[i] > b} = D
    BY <1>4, <1>9
  <2>2. QED
    BY <2>1 DEF Gaps
<1>12. \A i \in D : gap(i).at = i /\ gap(i).missing = q[i + 1] - q[i] - 1
  <2> SUFFICES ASSUME NEW i \in D PROVE gap(i).missing = q[i + 1] - q[i] - 1
    OBVIOUS
  <2> DEFINE d == q[i + 1] - q[i]
  <2>1. d \in Int /\ d > 1 /\ Steps(e)[i] = d * b
    BY <1>8
  <2> HIDE DEF d
  <2>2. RoundedRatio(d * b, b) = d
    BY <1>1, <2>1, RatioOfMultiple
  <2>3. Max({d - 1, 0}) = d - 1
    BY <2>1, NotNegative
  <2>4. QED
    BY <2>1, <2>2, <2>3 DEF d
<1> HIDE DEF gap, G, D
<1>13. D \subseteq 1..(n - 1) /\ IsFiniteSet(D)
  <2>1. D \subseteq 1..(n - 1) /\ IsFiniteSet(1..(n - 1))
    BY <1>4, FS_Interval DEF D
  <2>2. QED
    BY <2>1, FS_Subset
<1>14. IsFiniteSet(G)
  <2> DEFINE f == [i \in D |-> gap(i)]
  <2>1. f \in Surjection(D, G)
    BY <1>11 DEF Surjection
  <2>2. QED
    BY <1>13, <2>1, FS_Surjection
<1>15. /\ \A i \in 1..(n - 1) : IsFiniteSet(P[i]) /\ Cardinality(P[i]) = q[i + 1] - q[i] - 1
       /\ \A i, j \in 1..(n - 1) : i # j => P[i] \cap P[j] = {}
  BY <1>4, <1>7, <1>10, SkippedIs
<1> HIDE DEF P
<1>16. /\ \A g \in G : IsFiniteSet(A[g]) /\ g.missing = Cardinality(A[g])
       /\ \A g, h \in G : g # h => A[g] \cap A[h] = {}
  <2>1. \A g \in G : g.at \in D /\ g = gap(g.at) /\ A[g] = P[g.at]
    BY <1>11, <1>12
  <2> HIDE DEF A
  <2>2. ASSUME NEW g \in G PROVE IsFiniteSet(A[g]) /\ g.missing = Cardinality(A[g])
    <3> DEFINE i == g.at
    <3>1. i \in D /\ g = gap(i) /\ A[g] = P[i]
      BY <2>1
    <3> HIDE DEF i
    <3>2. g.missing = q[i + 1] - q[i] - 1
      BY <1>12, <3>1
    <3>3. IsFiniteSet(P[i]) /\ Cardinality(P[i]) = q[i + 1] - q[i] - 1
      BY <1>13, <1>15, <3>1
    <3>4. QED
      BY <3>1, <3>2, <3>3
  <2>3. \A g, h \in G : g # h => g.at # h.at /\ g.at \in 1..(n - 1) /\ h.at \in 1..(n - 1)
    BY <1>13, <2>1
  <2>4. \A g, h \in G : g # h => A[g] \cap A[h] = {}
    BY <1>15, <2>1, <2>3
  <2>5. QED
    BY <2>2, <2>4
<1>17. Together(A, G) = Together(P, D)
  <2>1. \A g \in G : g.at \in D /\ A[g] = P[g.at]
    BY <1>11, <1>12
  <2>2. \A i \in D : gap(i) \in G /\ A[gap(i)] = P[i]
    BY <1>11, <1>12
  <2> HIDE DEF A
  <2>3. QED
    BY <2>1, <2>2 DEF Together
<1> HIDE DEF A
<1>18. MapThenSumSet(LAMBDA g : g.missing, G) = Cardinality(Together(P, D))
  BY <1>14, <1>16, <1>17, SumIs
<1>19. n + Cardinality(Together(P, D)) = q[n] - q[1] + 1
  BY <1>4, <1>7, <1>10, PlacesAreCounted DEF P, D
<1>20. Max({RoundedRatio(Head(e), b), 0}) = q[1] /\ q[1] \in 0..(m - 1)
  <2>1. 1 \in 1..n /\ Head(e) = e[1]
    BY <1>4 DEF n
  <2>2. q[1] \in 0..(m - 1) /\ q[1] \in Int /\ q[1] >= 0 /\ e[1] = q[1] * b
    BY <1>5, <1>6, <2>1
  <2>3. QED
    BY <1>1, <2>1, <2>2, RatioOfMultiple, NotNegative
<1>21. Max({RoundedRatio(Day - b - Last(e), b), 0}) = m - 1 - q[n] /\ q[n] \in 0..(m - 1)
  <2>1. n \in 1..n /\ Last(e) = e[n]
    BY <1>4 DEF n, Last
  <2>2. q[n] \in 0..(m - 1) /\ q[n] \in Int /\ e[n] = q[n] * b
    BY <1>5, <1>6, <2>1
  <2> DEFINE t == m - 1 - q[n]
  <2>3. t \in Int /\ t >= 0
    BY <1>5, <2>2
  <2>4. Day - b - e[n] = t * b
    <3>0. \A x, y \in Int : (x - y) * b = x * b - y * b
      BY <1>1, Distributes
    <3>1. t * b = (m - 1) * b - q[n] * b /\ (m - 1) * b = m * b - 1 * b /\ 1 * b = b
      <4>1. m \in Int /\ m - 1 \in Int /\ q[n] \in Int /\ 1 \in Int
        BY <1>5, <2>2
      <4>2. (m - 1) * b = m * b - 1 * b
        BY <3>0, <4>1
      <4>3. t * b = (m - 1) * b - q[n] * b
        BY <3>0, <4>1
      <4>4. QED
        BY <1>1, <4>2, <4>3
    <3>2. m * b \in Int /\ q[n] * b \in Int
      BY <1>1, <1>5, <2>2, Distributes
    <3> HIDE DEF t
    <3>3. QED
      BY <1>1, <1>5, <2>2, <3>1, <3>2
  <2> HIDE DEF t
  <2>5. RoundedRatio(t * b, b) = t /\ Max({t, 0}) = t
    BY <1>1, <2>3, RatioOfMultiple, NotNegative
  <2>6. QED
    BY <2>1, <2>2, <2>4, <2>5 DEF t
<1>22. MissingEpochs(e, b) = q[1] + Cardinality(Together(P, D)) + (m - 1 - q[n])
  BY <1>18, <1>20, <1>21 DEF MissingEpochs, G
<1>23. MissingEpochs(e, b) = m - n
  <2> DEFINE c == Cardinality(Together(P, D))
  <2>1. c \in Nat
    <3>1. \A i \in D : IsFiniteSet(P[i])
      BY <1>13, <1>15
    <3>2. QED
      BY <1>13, <3>1, TogetherTyped
  <2> HIDE DEF c
  <2>2. n + c = q[n] - q[1] + 1 /\ MissingEpochs(e, b) = q[1] + c + (m - 1 - q[n])
    BY <1>19, <1>22 DEF c
  <2>3. q[1] \in Int /\ q[n] \in Int /\ n \in Int /\ m \in Int
    BY <1>4, <1>5, <1>20, <1>21
  <2>4. QED
    BY <2>1, <2>2, <2>3
<1>24. IsFiniteSet(ToSet(e)) /\ Cardinality(ToSet(e)) = n /\ ToSet(e) \subseteq Grid(b)
  <2>1. ToSet(e) = {e[k] : k \in 1..n} /\ ToSet(e) \subseteq Grid(b)
    BY <1>2, <1>4 DEF ToSet
  <2>2. Increasing(e, n)
    <3> SUFFICES ASSUME NEW i \in 1..(n - 1) PROVE e[i] < e[i + 1]
      BY DEF Increasing
    <3>1. i \in DOMAIN Steps(e) /\ i \in 1..n /\ i + 1 \in 1..n /\ Steps(e)[i] = e[i + 1] - e[i]
      BY <1>4
    <3>2. Steps(e)[i] > 0 /\ e[i] \in Int /\ e[i + 1] \in Int
      BY <1>2, <1>6, <3>1
    <3>3. QED
      BY <3>1, <3>2
  <2>3. QED
    BY <1>4, <2>1, <2>2, AsManyPlaces
<1>25. IsFiniteSet(Grid(b)) /\ Cardinality(Grid(b)) = m
  <2> DEFINE r == [k \in 1..m |-> (k - 1) * b]
  <2>1. r \in [1..m -> Int]
    BY <1>1, <1>5
  <2>2. Increasing(r, m)
    <3> SUFFICES ASSUME NEW i \in 1..(m - 1) PROVE r[i] < r[i + 1]
      BY DEF Increasing
    <3>1. r[i] = (i - 1) * b /\ r[i + 1] = i * b /\ i - 1 \in Int /\ i \in Int /\ i - 1 < i
      BY <1>5
    <3> HIDE DEF r
    <3>2. (i - 1) * b < i * b
      BY <1>1, <3>1, InOrder
    <3>3. QED
      BY <3>1, <3>2
  <2>3. Grid(b) = {r[k] : k \in 1..m}
    <3>1. Grid(b) = {k * b : k \in 0..(m - 1)}
      BY DEF Grid, m
    <3>2. \A k \in 0..(m - 1) : k + 1 \in 1..m /\ r[k + 1] = k * b
      BY <1>5
    <3>3. \A k \in 1..m : k - 1 \in 0..(m - 1) /\ r[k] = (k - 1) * b
      BY <1>5
    <3> HIDE DEF r
    <3>4. QED
      BY <3>1, <3>2, <3>3
  <2> HIDE DEF r
  <2>4. QED
    BY <1>5, <2>1, <2>2, <2>3, AsManyPlaces
<1>26. Cardinality(Grid(b) \ ToSet(e)) = m - n
  <2>1. Grid(b) \cap ToSet(e) = ToSet(e)
    BY <1>24
  <2>2. Cardinality(Grid(b) \ ToSet(e)) = Cardinality(Grid(b)) - Cardinality(Grid(b) \cap ToSet(e))
    BY <1>25, FS_Difference
  <2>3. QED
    BY <1>24, <1>25, <2>1, <2>2
<1>27. QED
  BY <1>3, <1>23, <1>26 DEF e, b

-----------------------------------------------------------------------------
(* What the workers count.                                                  *)

\* A worker that analyses has the text of a file.
LEMMA AnalysedIsFile ==
  ASSUME QcInv, NEW w \in Workers, worker[w].pc = "analyse"
  PROVE  worker[w].text \in Files
<1>1. w \in Busy
  BY DEF Busy
<1>2. Of(w) \in Sessions /\ Honest(worker[w], source[Of(w)], manifest[Of(w)], working[Of(w)].rinex)
  BY <1>1, BusyTyped DEF QcInv, HonestInv
<1>3. worker[w].text = source[Of(w)] /\ source[Of(w)] # None
  BY <1>2 DEF Honest
<1> QED
  BY <1>2, <1>3 DEF QcInv, StoreInv, MaybeFile

LEMMA MissingCounted == QcInv => MissingExact
<1> SUFFICES ASSUME QcInv, NEW w \in Workers, worker[w].pc = "analyse",
                    Analysable(BodyOf(worker[w].text)),
                    OnGrid(BodyOf(worker[w].text), Analysis(BodyOf(worker[w].text)).interval)
             PROVE  Analysis(BodyOf(worker[w].text)).missing
                      = Cardinality(Grid(Analysis(BodyOf(worker[w].text)).interval)
                                      \ ToSet(BodyOf(worker[w].text).epochs))
  BY DEF MissingExact
<1> DEFINE body == BodyOf(worker[w].text)
<1>1. Parsed(body) /\ Day \in Nat
  BY AnalysedIsFile, QcAssumption DEF Parsed, Analysable
<1>2. OnGrid(body, Analysis(body).interval)
  OBVIOUS
<1> HIDE DEF body
<1>3. Analysis(body).missing = Cardinality(Grid(Analysis(body).interval) \ ToSet(body.epochs))
  BY <1>1, <1>2, MissingIs
<1> QED
  BY <1>3 DEF body

\* What quality control counts is there, whatever the files hold and in whatever
\* order the runs and the summaries come: the windows of the summary are the longest
\* runs of days with enough accepted stations (_network_overlap), and the epochs that an
\* analysis reports missing are those of the grid that the file does not hold (_analysis).
THEOREM CountsAreExact == QcSpec => []CountsExact
<1>1. QcInit => WindowsMaximal
  BY DEF QcInit, WindowsMaximal
<1>2. WindowsMaximal /\ [QcNext]_qcVars => WindowsMaximal'
  BY SummaryStep
<1> QED
  BY <1>1, <1>2, QcInvHolds, MissingCounted, PTL DEF QcSpec, CountsExact

-----------------------------------------------------------------------------
(* The hybrid decision engine: its inductive invariant.                     *)

\* Distances to the target, also of stations that are not verified.
Position == Nat \union {Unverified}

\* What has been read is of the stations, and a candidate is verified when its
\* distance is known.
ReadsInv ==
  /\ request \in Requests /\ policy \in Policies /\ upstream \in Upstreams
  /\ known \in BOOLEAN
  /\ coords = Damaged \/ coords \in [Stations -> Position]
  /\ verified \in [Stations -> Position]
  /\ DOMAIN candidates \subseteq Stations /\ DOMAIN singleMap \subseteq Stations
  /\ \A s \in DOMAIN candidates :
       /\ candidates[s].qc \in QCStatuses /\ candidates[s].nav \in BOOLEAN
       /\ candidates[s].distance \in Position
       /\ candidates[s].verified => candidates[s].distance \in Nat

RecordInv ==
  /\ \E S : recorded \in Seq(S)
  /\ Len(recorded) <= MaxDecisions
  /\ pc \notin {"idle", "decided", "blocked"} => Len(recorded) < MaxDecisions
  /\ pc = "decided" => recorded # <<>>

DecisionInv == ReadsInv /\ RecordInv

---------------------------------------------------------------------------
(* What is read.                                                           *)

LEMMA CandidateRead ==
  ASSUME NEW network, NEW single, NEW distance \in Position
  PROVE  LET c == Candidate(network, single, distance)
         IN  /\ c.qc \in QCStatuses /\ c.nav \in BOOLEAN
             /\ c.distance = distance
             /\ c.verified => distance \in Nat
<1> DEFINE c == Candidate(network, single, distance)
<1>1. QcStatus(network) \in QCStatuses /\ QcStatus(single) \in QCStatuses
  BY DEF QcStatus, Readable, QCStatuses
<1>2. \A a, b \in QCStatuses : BetterStatus(a, b) \in QCStatuses
  BY DEF BetterStatus
<1>3. /\ c.qc = BetterStatus(QcStatus(network), QcStatus(single))
      /\ c.nav \in BOOLEAN /\ c.distance = distance
      /\ c.verified = (distance # Unverified)
  BY DEF Candidate
<1>4. QED
  BY <1>1, <1>2, <1>3 DEF Position

LEMMA ReadsStep == ReadsInv /\ [Next]_vars => ReadsInv'
<1> SUFFICES ASSUME ReadsInv, [Next]_vars PROVE ReadsInv'
  OBVIOUS
<1>1. CASE ResolveTarget
  BY <1>1 DEF ResolveTarget, ReadsInv, inputs, files, ByStationOnly, RoverVerified
<1>2. CASE LoadCoordinates
  BY <1>2 DEF LoadCoordinates, ReadsInv, inputs, files, ByStationOnly, RoverVerified
<1>3. CASE CoordinatesMissing \/ HashCoordinates \/ DecideFull \/ Again
  BY <1>3 DEF CoordinatesMissing, HashCoordinates, DecideFull, Again, ReadsInv, inputs,
              files, reads
<1>4. CASE ReadResults
  <2>1. /\ UNCHANGED <<request, policy, upstream, coords, verified, known, singleMap>>
        /\ candidates' = [s \in {t \in Stations : Exists(networkQc[t]) \/ Exists(singleQc[t])}
                            |-> Candidate(networkQc[s], singleQc[s], verified[s])]
    BY <1>4 DEF ReadResults, inputs, files
  <2>2. ASSUME NEW s \in DOMAIN candidates'
        PROVE  /\ candidates'[s].qc \in QCStatuses /\ candidates'[s].nav \in BOOLEAN
               /\ candidates'[s].distance \in Position
               /\ candidates'[s].verified => candidates'[s].distance \in Nat
    <3>1. s \in Stations /\ candidates'[s] = Candidate(networkQc[s], singleQc[s], verified[s])
      BY <2>1
    <3>2. verified[s] \in Position
      BY <3>1 DEF ReadsInv
    <3>3. QED
      BY <3>1, <3>2, CandidateRead
  <2>3. DOMAIN candidates' \subseteq Stations
    BY <2>1
  <2>4. QED
    BY <2>1, <2>2, <2>3 DEF ReadsInv
<1>5. CASE ReadSingleMap
  <2>1. /\ UNCHANGED <<request, policy, upstream, coords, verified, known, candidates>>
        /\ DOMAIN singleMap' \subseteq Stations
    BY <1>5 DEF ReadSingleMap, inputs, files
  <2>2. QED
    BY <2>1 DEF ReadsInv
<1>6. CASE RewriteNetworkQc \/ RewriteSingleQc
  BY <1>6 DEF RewriteNetworkQc, RewriteSingleQc, ReadsInv, inputs, reads
<1>7. CASE RewriteCoordinates
  <2>1. UNCHANGED <<request, policy, upstream, verified, known, candidates, singleMap>>
    BY <1>7 DEF RewriteCoordinates, inputs, reads
  <2>2. coords' = Damaged \/ coords' \in [Stations -> Position]
    <3>1. CASE coords' = Damaged
      BY <3>1
    <3>2. CASE coords' # Damaged
      <4>1. PICK s \in Stations :
              \E d \in {Unverified} \union (IF s = Rover THEN {0} ELSE Distances) :
                coords' = [coords EXCEPT ![s] = d]
        BY <1>7, <3>2 DEF RewriteCoordinates
      <4>2. PICK d \in {Unverified} \union (IF s = Rover THEN {0} ELSE Distances) :
              coords' = [coords EXCEPT ![s] = d]
        BY <4>1
      <4>3. d \in Position
        <5>1. Distances \subseteq Nat
          BY DecisionAssumption
        <5>2. d \in {Unverified} \/ d \in {0} \/ d \in Distances
          BY <4>2
        <5>3. Unverified \in Position /\ Nat \subseteq Position /\ 0 \in Nat
          BY DEF Position
        <5>4. QED
          BY <5>1, <5>2, <5>3
      <4>4. coords \in [Stations -> Position]
        BY <1>7 DEF RewriteCoordinates, ReadsInv
      <4>5. QED
        BY <4>2, <4>3, <4>4
    <3>3. QED
      BY <3>1, <3>2
  <2>3. QED
    BY <2>1, <2>2 DEF ReadsInv
<1>8. CASE UNCHANGED vars
  BY <1>8 DEF vars, inputs, files, reads, ReadsInv
<1>9. QED
  BY <1>1, <1>2, <1>3, <1>4, <1>5, <1>6, <1>7, <1>8 DEF Next

LEMMA RecordStep == RecordInv /\ [Next]_vars => RecordInv'
<1> SUFFICES ASSUME RecordInv, [Next]_vars PROVE RecordInv'
  OBVIOUS
<1>1. CASE DecideFull
  <2> DEFINE answer == [material |-> Material, decision |-> Decision(candidates)]
  <2>1. pc = "decide" /\ pc' = "decided" /\ recorded' = Append(recorded, answer)
    BY <1>1 DEF DecideFull
  <2> HIDE DEF answer
  <2>2. PICK S : recorded \in Seq(S)
    BY DEF RecordInv
  <2>3. recorded \in Seq(S \union {answer})
    BY <2>2, SeqMonotonic
  <2>4. /\ recorded' \in Seq(S \union {answer})
        /\ recorded' # <<>> /\ Len(recorded') = Len(recorded) + 1
    BY <2>1, <2>3, AppendProperties
  <2>5. Len(recorded) \in Nat /\ Len(recorded) < MaxDecisions /\ MaxDecisions \in Nat
    BY <2>1, <2>2, LenProperties, DecisionAssumption DEF RecordInv
  <2>6. QED
    BY <2>1, <2>4, <2>5 DEF RecordInv
<1>2. CASE CoordinatesMissing
  BY <1>2 DEF CoordinatesMissing, RecordInv
<1>3. CASE \/ ResolveTarget \/ LoadCoordinates \/ ReadResults \/ HashCoordinates
           \/ ReadSingleMap \/ Again
  BY <1>3 DEF ResolveTarget, LoadCoordinates, ReadResults, HashCoordinates, ReadSingleMap,
              Again, RecordInv
<1>4. CASE RewriteNetworkQc \/ RewriteSingleQc \/ RewriteCoordinates
  BY <1>4 DEF RewriteNetworkQc, RewriteSingleQc, RewriteCoordinates, RecordInv
<1>5. CASE UNCHANGED vars
  BY <1>5 DEF vars, RecordInv
<1>6. QED
  BY <1>1, <1>2, <1>3, <1>4, <1>5 DEF Next

LEMMA InitInv == Init => DecisionInv
<1> SUFFICES ASSUME Init PROVE DecisionInv
  OBVIOUS
<1>1. PICK e \in Evidence : coords = e.coords
  BY DEF Init
<1>2. coords = Damaged \/ coords \in [Stations -> Position]
  BY <1>1, DecisionAssumption DEF Position
<1>3. verified \in [Stations -> Position] /\ DOMAIN candidates = {} /\ DOMAIN singleMap = {}
  BY DEF Init, Position
<1>4. ReadsInv
  BY <1>2, <1>3 DEF Init, ReadsInv
<1>5. recorded = <<>> /\ recorded \in Seq({}) /\ Len(recorded) = 0
  BY EmptySeq DEF Init
<1>6. MaxDecisions \in Nat /\ pc = "idle"
  BY DecisionAssumption DEF Init
<1>7. RecordInv
  BY <1>5, <1>6 DEF RecordInv
<1>8. QED
  BY <1>4, <1>7 DEF DecisionInv

---------------------------------------------------------------------------
(* The VRS gates.                                                          *)

LEMMA NoCorrectionIsNone ==
  ASSUME NEW c, NEW reason
  PROVE  /\ NoCorrection(reason).mode = "NO_CORRECTION"
         /\ Preview(c).mode = "NO_CORRECTION"
         /\ Refusal(c, reason).mode = "NO_CORRECTION"
<1>1. \A r : NoCorrection(r).mode = "NO_CORRECTION"
  BY DEF NoCorrection
<1>2. Preview(c).mode = "NO_CORRECTION"
  BY DEF Preview, NoCorrection
<1>3. QED
  BY <1>1, <1>2 DEF Refusal

\* A decision is one of three answers, and each has passed its conditions.
LEMMA Answers ==
  ASSUME NEW c, request.mode \in Modes
  PROVE  LET d == Decision(c)
         IN  \/ /\ d = UseVrs(c) /\ d.mode = "VRS"
                /\ known /\ request.mode # "SINGLE_BASE_ONLY" /\ Selectable(c)
             \/ /\ \E warned : d = UseSingleBase(c, warned)
                /\ d.mode = "SINGLE_BASE"
                /\ known /\ request.mode # "VRS_ONLY" /\ Available(c)
             \/ /\ d.mode = "NO_CORRECTION"
                /\ \/ ~known \/ request.mode = "VRS_ONLY"
                   \/ request.mode = "AUTO" /\ ~(request.fallback /\ policy.fallback)
                   \/ request.mode = "AUTO" /\ NoneAccepted(c)
                   \/ \A s \in DOMAIN c : ~c[s].nav
                   \/ ~Available(c)
<1> DEFINE d == Decision(c)
<1>1. UseVrs(c).mode = "VRS" /\ \A warned : UseSingleBase(c, warned).mode = "SINGLE_BASE"
  BY DEF UseVrs, UseSingleBase
<1>2. \A r : /\ NoCorrection(r).mode = "NO_CORRECTION"
             /\ Preview(c).mode = "NO_CORRECTION"
             /\ Refusal(c, r).mode = "NO_CORRECTION"
  BY NoCorrectionIsNone
<1>3. CASE ~known
  BY <1>2, <1>3 DEF Decision
<1>4. CASE known /\ request.mode = "AUTO"
  <2>1. d = DecideAuto(c)
    BY <1>4 DEF Decision
  <2>2. CASE NoneAccepted(c) \/ \A s \in DOMAIN c : ~c[s].nav
    BY <1>2, <1>4, <2>1, <2>2 DEF DecideAuto
  <2>3. CASE ~NoneAccepted(c) /\ ~(\A s \in DOMAIN c : ~c[s].nav) /\ Selectable(c)
    BY <1>1, <1>4, <2>1, <2>3 DEF DecideAuto
  <2>4. CASE /\ ~NoneAccepted(c) /\ ~(\A s \in DOMAIN c : ~c[s].nav) /\ ~Selectable(c)
             /\ policy.fallback /\ request.fallback /\ Available(c)
    <3>1. d = UseSingleBase(c, PrintsMissing)
      BY <2>1, <2>4 DEF DecideAuto
    <3>2. QED
      BY <1>1, <1>4, <2>4, <3>1
  <2>5. CASE /\ ~NoneAccepted(c) /\ ~(\A s \in DOMAIN c : ~c[s].nav) /\ ~Selectable(c)
             /\ ~(policy.fallback /\ request.fallback /\ Available(c))
    <3>1. d = Refusal(c, NoCorrectionCode(c))
      BY <2>1, <2>5 DEF DecideAuto
    <3>2. QED
      BY <1>2, <1>4, <2>5, <3>1
  <2>6. QED
    BY <2>2, <2>3, <2>4, <2>5
<1>5. CASE known /\ request.mode = "VRS_ONLY"
  <2>1. d = DecideVrsOnly(c)
    BY <1>5 DEF Decision
  <2>2. \/ d.mode = "NO_CORRECTION"
        \/ d = UseVrs(c) /\ Selectable(c)
    BY <1>2, <2>1 DEF DecideVrsOnly
  <2>3. QED
    BY <1>1, <1>5, <2>2
<1>6. CASE known /\ request.mode = "SINGLE_BASE_ONLY"
  <2>1. d = DecideSingleOnly(c)
    BY <1>6 DEF Decision
  <2>2. CASE Available(c)
    <3>1. d = UseSingleBase(c, FALSE)
      BY <2>1, <2>2 DEF DecideSingleOnly
    <3>2. QED
      BY <1>1, <1>6, <2>2, <3>1
  <2>3. CASE ~Available(c)
    <3>1. d.mode = "NO_CORRECTION"
      BY <1>2, <2>1, <2>3 DEF DecideSingleOnly
    <3>2. QED
      BY <1>6, <2>3, <3>1
  <2>4. QED
    BY <2>2, <2>3
<1>7. QED
  BY <1>3, <1>4, <1>5, <1>6 DEF Modes

LEMMA DistanceType ==
  ASSUME ReadsInv, NEW s \in DOMAIN candidates, candidates[s].verified
  PROVE  Distance(s) \in Nat
  BY DEF ReadsInv, Distance

LEMMA VrsPasses ==
  ASSUME ReadsInv, NEW d, d = UseVrs(candidates), known,
         request.mode # "SINGLE_BASE_ONLY", Selectable(candidates)
  PROVE  GatesPassed(d)
<1> DEFINE c == candidates
<1>1. d.network = Admitted(c)
  BY DEF UseVrs
<1>2. /\ Admitted(c) = Accepted(c) /\ Cardinality(Admitted(c)) >= policy.minimum
      /\ Geometry(c) = "PASS" /\ UpstreamApproved
  BY DEF Selectable, Eligible
<1>3. Accepted(c) = {s \in DOMAIN c : /\ c[s].qc = "ACCEPT"
                                      /\ ~(request.byStation /\ s = Rover)}
  BY DEF Accepted, Pool
<1>4. \A s \in Admitted(c) : s \in DOMAIN c /\ c[s].nav /\ c[s].verified
  BY <1>2, <1>3 DEF Admitted
<1>5. ~Extrapolated(c)
  <2>1. Admitted(c) \subseteq Stations /\ IsFiniteSet(Stations)
    BY DecisionAssumption DEF Admitted, Accepted, Pool, ReadsInv
  <2>2. Cardinality(Admitted(c)) \in Nat
    BY <2>1, FS_Subset, FS_CardinalityType
  <2>3. QED
    BY <1>2, <2>2 DEF Geometry
<1>6. ASSUME NEW s \in Admitted(c)
      PROVE  \/ Distance(s) <= ContainedUpTo
             \/ \A t \in Admitted(c) : Distance(s) <= 2 * Distance(t)
  <2>1. \A t \in Admitted(c) : Distance(t) \in Nat
    BY <1>4, DistanceType
  <2>2. ContainedUpTo \in Nat
    BY DecisionAssumption
  <2>3. \A t \in Admitted(c) :
          ~(Distance(s) > 2 * Distance(t) /\ Distance(s) > ContainedUpTo)
    BY <1>5 DEF Extrapolated, Distance
  <2>4. QED
    BY <2>1, <2>2, <2>3
<1>7. /\ policy.needModel => upstream.spatial = "APPROVED"
      /\ policy.needVrs => upstream.vrs = "APPROVED"
      /\ upstream.spatialPrint /\ upstream.vrsPrint
      /\ upstream.override = "PASS"
         \/ (upstream.override = "NONE" /\ upstream.leakage = "PASS")
  BY <1>2 DEF UpstreamApproved, Leakage, PrintsMissing
<1>8. QED
  BY <1>1, <1>2, <1>3, <1>4, <1>6, <1>7 DEF GatesPassed

---------------------------------------------------------------------------
(* The single base.                                                        *)

LEMMA SurvivorsAreAdmissible ==
  ASSUME ReadsInv
  PROVE  /\ Survivors(candidates) = Admissible
         /\ Admissible \subseteq Nat
         /\ \A s \in Admissible : Distance(s) \in Nat
<1>1. Survivors(candidates) = Admissible
  BY DEF Survivors, Admissible, Pool, SingleStatus
<1>2. \A s \in Admissible : s \in DOMAIN candidates /\ candidates[s].verified
  BY DEF Admissible
<1>3. DOMAIN candidates \subseteq Stations /\ Stations \subseteq Nat
  BY DecisionAssumption DEF ReadsInv
<1>4. QED
  BY <1>1, <1>2, <1>3, DistanceType

\* Among any survivors one is nearest, by the order that takes the lower
\* station of two at the same distance and puts zero last.
LEMMA OneIsNearest ==
  ASSUME ReadsInv, Survivors(candidates) # {}
  PROVE  \E s \in Survivors(candidates) :
           \A t \in Survivors(candidates) : Nearer(candidates, s, t)
<1> DEFINE A == Admissible
           Away == {Distance(s) : s \in {t \in A : Distance(t) > 0}}
<1>1. /\ Survivors(candidates) = A /\ A # {} /\ A \subseteq Nat
      /\ \A s \in A : Distance(s) \in Nat
  BY SurvivorsAreAdmissible
<1>2. \A s, t : Nearer(candidates, s, t) <=>
                  \/ 0 < Distance(s) /\ (Distance(s) < Distance(t) \/ Distance(t) = 0)
                  \/ Distance(s) = Distance(t) /\ s <= t
  BY DEF Nearer, Distance
<1>3. PICK m : /\ Away # {} => m > 0 /\ m \in Away /\ \A n \in Away : m <= n
               /\ Away = {} => m = 0
  <2>1. CASE Away = {}
    BY <2>1
  <2>2. CASE Away # {}
    <3>1. Away \subseteq Nat /\ \A n \in Away : n > 0
      BY <1>1
    <3> HIDE DEF Away
    <3>2. QED
      BY <2>2, <3>1, LeastNat
  <2>3. QED
    BY <2>1, <2>2
<1> DEFINE Nearest == {s \in A : Distance(s) = m}
<1>4. Nearest # {} /\ Nearest \subseteq Nat
  <2>1. CASE Away = {}
    <3>1. PICK s \in A : TRUE
      BY <1>1
    <3>2. ~(Distance(s) > 0) /\ Distance(s) \in Nat
      BY <1>1, <2>1
    <3>3. Distance(s) = m
      BY <1>3, <2>1, <3>2
    <3>4. QED
      BY <1>1, <3>1, <3>3
  <2>2. CASE Away # {}
    <3>1. PICK s \in A : Distance(s) = m
      BY <1>3, <2>2
    <3>2. QED
      BY <1>1, <3>1
  <2>3. QED
    BY <2>1, <2>2
<1>5. PICK s \in Nearest : \A t \in Nearest : s <= t
  <2> HIDE DEF Nearest
  <2>1. QED
    BY <1>4, LeastNat
<1>6. ASSUME NEW t \in A
      PROVE  Nearer(candidates, s, t)
  <2>1. Distance(t) \in Nat /\ Distance(s) = m /\ m \in Nat /\ s \in A
    BY <1>1, <1>5
  <2>2. CASE Distance(t) = m
    <3>1. s <= t
      BY <1>5, <2>2
    <3>2. QED
      BY <1>2, <2>1, <2>2, <3>1
  <2>3. CASE Distance(t) # m /\ Away = {}
    <3>1. ~(Distance(t) > 0)
      BY <2>3
    <3>2. QED
      BY <1>3, <2>1, <2>3, <3>1
  <2>4. CASE Distance(t) # m /\ Away # {}
    <3>1. m > 0
      BY <1>3, <2>4
    <3>2. Distance(t) = 0 \/ m < Distance(t)
      <4>1. CASE Distance(t) > 0
        <5>1. Distance(t) \in Away
          BY <4>1
        <5>2. m <= Distance(t)
          BY <1>3, <2>4, <5>1
        <5>3. QED
          BY <2>1, <2>4, <5>2
      <4>2. QED
        BY <2>1, <4>1
    <3>3. QED
      BY <1>2, <2>1, <3>1, <3>2
  <2>5. QED
    BY <2>2, <2>3, <2>4
<1>7. QED
  BY <1>1, <1>5, <1>6

LEMMA SelectedIsNearest ==
  ASSUME ReadsInv, Survivors(candidates) # {}
  PROVE  LET b == Selected(candidates)
         IN  /\ b \in Admissible /\ Distance(b) \in Nat
             /\ \A s \in Admissible : Distance(s) > 0 => Distance(b) <= Distance(s)
<1> DEFINE b == Selected(candidates)
<1>1. b \in Survivors(candidates) /\ \A t \in Survivors(candidates) : Nearer(candidates, b, t)
  BY OneIsNearest, Zenon DEF Selected
<1> HIDE DEF b
<1>2. /\ Survivors(candidates) = Admissible
      /\ \A s \in Admissible : Distance(s) \in Nat
  BY SurvivorsAreAdmissible
<1>3. ASSUME NEW s \in Admissible, Distance(s) > 0
      PROVE  Distance(b) <= Distance(s)
  <2>1. \/ 0 < Distance(b) /\ (Distance(b) < Distance(s) \/ Distance(s) = 0)
        \/ Distance(b) = Distance(s) /\ b <= s
    BY <1>1, <1>2 DEF Nearer, Distance
  <2>2. Distance(b) \in Nat /\ Distance(s) \in Nat
    BY <1>1, <1>2
  <2>3. QED
    BY <1>3, <2>1, <2>2
<1>4. QED
  BY <1>1, <1>2, <1>3 DEF b

LEMMA BandOf ==
  ASSUME ReadsInv, NEW x \in Nat
  PROVE  /\ Band(x) # "beyond_maximum" <=> x <= policy.maximum
         /\ Band(x) = "preferred" => x <= policy.preferred
<1>1. /\ policy.preferred \in Nat /\ policy.degraded \in Nat /\ policy.maximum \in Nat
      /\ policy.preferred <= policy.degraded /\ policy.degraded <= policy.maximum
  BY DecisionAssumption DEF ReadsInv
<1>2. CASE x <= policy.preferred
  BY <1>1, <1>2 DEF Band
<1>3. CASE x > policy.preferred /\ x <= policy.degraded
  BY <1>1, <1>3 DEF Band
<1>4. CASE x > policy.degraded /\ x <= policy.maximum
  BY <1>1, <1>4 DEF Band
<1>5. CASE x > policy.maximum
  BY <1>1, <1>5 DEF Band
<1>6. QED
  BY <1>1, <1>2, <1>3, <1>4, <1>5

LEMMA SingleBaseIsBest ==
  ASSUME ReadsInv, NEW d, NEW warned, d = UseSingleBase(candidates, warned),
         known, request.mode # "VRS_ONLY", Available(candidates)
  PROVE  NoneBetter(d)
<1> DEFINE b == Selected(candidates)
<1>1. /\ Survivors(candidates) # {}
      /\ Band(Distance(b)) # "beyond_maximum"
  BY DEF Available, SelectedBand, Distance
<1>2. /\ b \in Admissible /\ Distance(b) \in Nat
      /\ \A s \in Admissible : Distance(s) > 0 => Distance(b) <= Distance(s)
  BY <1>1, SelectedIsNearest
<1>3. /\ d.reference = b
      /\ d.status = StatusOf(Band(Distance(b)) # "preferred")
  BY DEF UseSingleBase, SelectedBand, Distance
<1>4. d.status = "OK" => Band(Distance(b)) = "preferred"
  BY <1>3 DEF StatusOf
<1> HIDE DEF b
<1>5. Distance(b) <= policy.maximum /\ (d.status = "OK" => Distance(b) <= policy.preferred)
  BY <1>1, <1>2, <1>4, BandOf
<1>6. QED
  BY <1>2, <1>3, <1>5 DEF NoneBetter

LEMMA RefusedForNothingInReach ==
  ASSUME ReadsInv,
         \/ request.mode = "VRS_ONLY"
         \/ request.mode = "AUTO" /\ ~(request.fallback /\ policy.fallback)
         \/ request.mode = "AUTO" /\ NoneAccepted(candidates)
         \/ \A s \in DOMAIN candidates : ~candidates[s].nav
         \/ ~Available(candidates)
  PROVE  NothingInReach
<1> DEFINE b == Selected(candidates)
<1>1. CASE ~Available(candidates)
  <2>1. CASE Survivors(candidates) = {}
    BY <2>1, SurvivorsAreAdmissible DEF NothingInReach
  <2>2. CASE Survivors(candidates) # {}
    <3>1. Band(Distance(b)) = "beyond_maximum"
      BY <1>1, <2>2 DEF Available, SelectedBand, Distance
    <3>2. /\ Distance(b) \in Nat
          /\ \A s \in Admissible : Distance(s) > 0 => Distance(b) <= Distance(s)
      BY <2>2, SelectedIsNearest
    <3> HIDE DEF b
    <3>3. ~(Distance(b) <= policy.maximum) /\ policy.maximum \in Nat
      BY <3>1, <3>2, BandOf, DecisionAssumption DEF ReadsInv
    <3>4. \A s \in Admissible : Distance(s) = 0 \/ Distance(s) > policy.maximum
      BY <3>2, <3>3, SurvivorsAreAdmissible
    <3>5. QED
      BY <3>4 DEF NothingInReach
  <2>3. QED
    BY <2>1, <2>2
<1>2. CASE \A s \in DOMAIN candidates : ~candidates[s].nav
  <2>1. Admissible = {}
    BY <1>2 DEF Admissible
  <2>2. QED
    BY <2>1 DEF NothingInReach
<1>3. QED
  BY <1>1, <1>2 DEF NothingInReach, NoneAccepted

---------------------------------------------------------------------------
(* The theorems.                                                           *)

LEMMA DecisionInvariant == Spec => []DecisionInv
<1>1. Init => DecisionInv
  BY InitInv
<1>2. DecisionInv /\ [Next]_vars => DecisionInv'
  BY ReadsStep, RecordStep DEF DecisionInv
<1>3. QED
  BY <1>1, <1>2, PTL DEF Spec

\* The answer just recorded is the one the gates give for what was read.
LEMMA AnswerRecorded ==
  ASSUME DecisionInv, DecideFull
  PROVE  /\ Answer' = Decision(candidates)
         /\ UNCHANGED <<inputs, known, candidates, singleMap>>
<1> DEFINE answer == [material |-> Material, decision |-> Decision(candidates)]
<1>1. recorded' = Append(recorded, answer) /\ answer.decision = Decision(candidates)
  BY DEF DecideFull
<1>2. UNCHANGED <<inputs, known, candidates, singleMap>>
  BY DEF DecideFull, reads
<1> HIDE DEF answer
<1>3. PICK S : recorded \in Seq(S)
  BY DEF DecisionInv, RecordInv
<1>4. recorded \in Seq(S \union {answer})
  BY <1>3, SeqMonotonic
<1>5. recorded'[Len(recorded')] = answer
  BY <1>1, <1>4, AppendProperties
<1>6. QED
  BY <1>1, <1>2, <1>5 DEF Answer

\* Whatever is decided stays as it is until the command is run again.
LEMMA DecidedLater ==
  ASSUME [Next]_vars, Decided'
  PROVE  DecideFull \/ (Decided /\ UNCHANGED <<inputs, known, candidates, singleMap, recorded>>)
<1>1. CASE \/ ResolveTarget \/ LoadCoordinates \/ CoordinatesMissing \/ ReadResults
           \/ HashCoordinates \/ ReadSingleMap \/ Again
  BY <1>1 DEF Decided, ResolveTarget, LoadCoordinates, CoordinatesMissing, ReadResults,
              HashCoordinates, ReadSingleMap, Again
<1>2. CASE RewriteNetworkQc \/ RewriteSingleQc \/ RewriteCoordinates
  BY <1>2 DEF Decided, RewriteNetworkQc, RewriteSingleQc, RewriteCoordinates, Rewriting
<1>3. CASE UNCHANGED vars
  BY <1>3 DEF Decided, vars, reads
<1>4. QED
  BY <1>1, <1>2, <1>3 DEF Next

\* A decision that gives VRS has passed all gates, over what was read for it.
THEOREM VrsIsGated == Spec => []VrsGated
<1>1. Init => VrsGated
  BY DEF Init, VrsGated, Decided
<1>2. DecisionInv /\ VrsGated /\ [Next]_vars => VrsGated'
  <2> SUFFICES ASSUME DecisionInv, VrsGated, [Next]_vars, Decided', Answer'.mode = "VRS"
               PROVE  GatesPassed(Answer)'
    BY DEF VrsGated
  <2>1. CASE DecideFull
    <3>1. /\ Answer' = Decision(candidates)
          /\ UNCHANGED <<inputs, known, candidates, singleMap>>
      BY <2>1, AnswerRecorded
    <3>2. request.mode \in Modes
      BY DecisionAssumption DEF DecisionInv, ReadsInv
    <3>3. GatesPassed(Decision(candidates))
      BY <3>1, <3>2, Answers, VrsPasses DEF DecisionInv
    <3>4. QED
      BY <3>1, <3>3 DEF GatesPassed, Distance, inputs
  <2>2. CASE Decided /\ UNCHANGED <<inputs, known, candidates, singleMap, recorded>>
    <3>1. Answer' = Answer
      BY <2>2 DEF Answer
    <3>2. GatesPassed(Answer)
      BY <2>2, <3>1 DEF VrsGated
    <3>3. QED
      BY <2>2, <3>1, <3>2 DEF GatesPassed, Distance, inputs
  <2>3. QED
    BY <2>1, <2>2, DecidedLater
<1>3. QED
  BY <1>1, <1>2, DecisionInvariant, PTL DEF Spec

\* A decision that gives a single base gives the best there is, and one that
\* refuses a correction had none to give.
THEOREM BestIsGiven == Spec => []BestReference
<1>1. Init => BestReference
  BY DEF Init, BestReference, Decided
<1>2. DecisionInv /\ BestReference /\ [Next]_vars => BestReference'
  <2> SUFFICES ASSUME DecisionInv, BestReference, [Next]_vars, Decided'
               PROVE  /\ Answer'.mode = "SINGLE_BASE" => NoneBetter(Answer)'
                      /\ (Answer'.mode = "NO_CORRECTION" /\ known') => NothingInReach'
    BY DEF BestReference
  <2>1. CASE DecideFull
    <3> DEFINE d == Decision(candidates)
    <3>1. Answer' = d /\ UNCHANGED <<inputs, known, candidates, singleMap>>
      BY <2>1, AnswerRecorded
    <3>2. request.mode \in Modes /\ ReadsInv
      BY DecisionAssumption DEF DecisionInv, ReadsInv
    <3>3. d.mode = "SINGLE_BASE" => NoneBetter(d)
      BY <3>2, Answers, SingleBaseIsBest
    <3>4. (d.mode = "NO_CORRECTION" /\ known) => NothingInReach
      BY <3>2, Answers, RefusedForNothingInReach
    <3> HIDE DEF d
    <3>5. QED
      BY <3>1, <3>3, <3>4 DEF NoneBetter, NothingInReach, Admissible, Distance, inputs
  <2>2. CASE Decided /\ UNCHANGED <<inputs, known, candidates, singleMap, recorded>>
    <3>1. Answer' = Answer
      BY <2>2 DEF Answer
    <3>2. /\ Answer.mode = "SINGLE_BASE" => NoneBetter(Answer)
          /\ (Answer.mode = "NO_CORRECTION" /\ known) => NothingInReach
      BY <2>2 DEF BestReference
    <3>3. QED
      BY <2>2, <3>1, <3>2 DEF NoneBetter, NothingInReach, Admissible, Distance, inputs
  <2>3. QED
    BY <2>1, <2>2, DecidedLater
<1>3. QED
  BY <1>1, <1>2, DecisionInvariant, PTL DEF Spec

---------------------------------------------------------------------------
(* Types.                                                                  *)

ControlInv ==
  /\ pc \in {"idle", "load", "results", "hash", "single", "decide", "decided", "blocked"}
  /\ rewrites \in 0 .. MaxRewrites

LEMMA ControlStep == ControlInv /\ [Next]_vars => ControlInv'
<1> SUFFICES ASSUME ControlInv, [Next]_vars PROVE ControlInv'
  OBVIOUS
<1>1. CASE \/ ResolveTarget \/ LoadCoordinates \/ CoordinatesMissing \/ ReadResults
           \/ HashCoordinates \/ ReadSingleMap \/ DecideFull \/ Again
  BY <1>1 DEF ResolveTarget, LoadCoordinates, CoordinatesMissing, ReadResults,
              HashCoordinates, ReadSingleMap, DecideFull, Again, ControlInv
<1>2. CASE RewriteNetworkQc \/ RewriteSingleQc \/ RewriteCoordinates
  <2>1. pc' = pc /\ rewrites < MaxRewrites /\ rewrites' = rewrites + 1 /\ MaxRewrites \in Nat
    BY <1>2, DecisionAssumption
       DEF RewriteNetworkQc, RewriteSingleQc, RewriteCoordinates, Rewriting
  <2>2. QED
    BY <2>1 DEF ControlInv
<1>3. CASE UNCHANGED vars
  BY <1>3 DEF vars, ControlInv
<1>4. QED
  BY <1>1, <1>2, <1>3 DEF Next

AnswerTyped(d) ==
  /\ d.mode \in {"VRS", "SINGLE_BASE", "NO_CORRECTION"}
  /\ d.network \subseteq Stations
  /\ d.reference \in Stations \union {NoStation}

LEMMA DecisionTyped ==
  ASSUME ReadsInv
  PROVE  AnswerTyped(Decision(candidates))
<1> DEFINE c == candidates
<1>1. Admitted(c) \subseteq Stations
  BY DEF Admitted, Accepted, Pool, ReadsInv
<1>2. \A r : AnswerTyped(NoCorrection(r)) /\ AnswerTyped(Preview(c)) /\ AnswerTyped(Refusal(c, r))
  <2>1. \A r : AnswerTyped(NoCorrection(r))
    BY DEF AnswerTyped, NoCorrection
  <2>2. AnswerTyped(Preview(c))
    BY <1>1 DEF AnswerTyped, Preview, NoCorrection
  <2>3. QED
    BY <2>1, <2>2 DEF Refusal
<1>3. AnswerTyped(UseVrs(c))
  BY <1>1 DEF AnswerTyped, UseVrs
<1>4. ASSUME NEW warned, Available(c)
      PROVE  AnswerTyped(UseSingleBase(c, warned))
  <2>1. Selected(c) \in Admissible
    BY <1>4, SelectedIsNearest DEF Available
  <2>2. Selected(c) \in Stations
    BY <2>1 DEF Admissible, ReadsInv
  <2>3. QED
    BY <1>1, <2>2 DEF AnswerTyped, UseSingleBase
<1>5. AnswerTyped(DecideAuto(c))
  BY <1>2, <1>3, <1>4 DEF DecideAuto
<1>6. AnswerTyped(DecideVrsOnly(c))
  BY <1>2, <1>3 DEF DecideVrsOnly
<1>7. AnswerTyped(DecideSingleOnly(c))
  BY <1>2, <1>4 DEF DecideSingleOnly
<1>8. request.mode \in Modes
  BY DecisionAssumption DEF ReadsInv
<1>9. QED
  BY <1>2, <1>5, <1>6, <1>7, <1>8 DEF Decision, Modes

\* Whatever is rewritten meanwhile, every variable keeps its type, and an answer
\* is one of three and names stations only.
THEOREM TypeCorrect == Spec => []TypeOK
<1> DEFINE Typed == ControlInv /\ (Decided => AnswerTyped(Answer))
<1>1. Init => Typed
  BY DecisionAssumption DEF Init, ControlInv, Decided
<1>2. DecisionInv /\ Typed /\ [Next]_vars => Typed'
  <2> SUFFICES ASSUME DecisionInv, Typed, [Next]_vars PROVE Typed'
    OBVIOUS
  <2>1. ControlInv'
    BY ControlStep
  <2>2. ASSUME Decided' PROVE AnswerTyped(Answer)'
    <3>1. CASE DecideFull
      <4>1. Answer' = Decision(candidates) /\ AnswerTyped(Decision(candidates))
        BY <3>1, AnswerRecorded, DecisionTyped DEF DecisionInv
      <4>2. QED
        BY <4>1 DEF AnswerTyped
    <3>2. CASE Decided /\ UNCHANGED <<inputs, known, candidates, singleMap, recorded>>
      <4>1. Answer' = Answer
        BY <3>2 DEF Answer
      <4>2. QED
        BY <3>2, <4>1 DEF AnswerTyped
    <3>3. QED
      BY <2>2, <3>1, <3>2, DecidedLater
  <2>3. QED
    BY <2>1, <2>2
<1>3. DecisionInv /\ Typed => TypeOK
  BY DEF DecisionInv, ReadsInv, RecordInv, ControlInv, AnswerTyped, TypeOK
<1>4. QED
  BY <1>1, <1>2, <1>3, DecisionInvariant, PTL DEF Spec
=============================================================================
