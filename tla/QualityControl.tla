---------------------------- MODULE QualityControl ----------------------------
(***************************************************************************)
(* Phase 4 (research/gnss_qc): a run takes the sessions of the canonical   *)
(* manifest, verifies, converts and measures each in a pool of workers,    *)
(* classifies it under every profile and stores one result for each.       *)
(* Results whose fingerprint and source hash still agree are reused.  A    *)
(* run may die at any step; between runs the archive, the navigation       *)
(* catalogue and the admitted coordinates may change.                      *)
(*                                                                         *)
(* A file is the hash of the body it holds; decompressing and converting   *)
(* keep the body, and so the hash.  The software version and the profile set do  *)
(* not change here, so a fingerprint is the manifest's hash and the mode.  *)
(***************************************************************************)
EXTENDS RinexSession

CONSTANTS
    Sessions,       \* records [station, day, named, duplicate] of the manifest
    Files,          \* hashes of observation files
    BodyOf(_),      \* what the file of a hash holds
    Replacements,   \* the hashes of what a later change may put there
    ProfileNames,   \* the profiles of a run, a sequence
    ProfileOf,      \* their settings
    Products,       \* navigation files: [n, start, end, proven], end exclusive
    Coordinates,    \* what derived-coordinates.json says of a station-day
    Workers,
    Archives,       \* the initial archives: [sources, budget]
    LastDay

ASSUME ProfilesStand == \A p \in ToSet(ProfileNames) : ProfileStands(ProfileOf[p])

Runs == [queue : Seq(Sessions), convert : BOOLEAN, selected : SUBSET Sessions]

\* A station has one session a day; load_profiles refuses an empty set; times are whole
\* numbers of units; None is nothing that a field may hold.
ASSUME QcAssumption ==
    /\ IsFiniteSet(Sessions) /\ \A s \in Sessions : s.station \in Nat /\ s.day \in Nat
    /\ ProfileNames \in Seq(ToSet(ProfileNames)) /\ ProfileNames # <<>>
    /\ Day \in Nat
    /\ \A file \in Files :
          /\ BodyOf(file).epochs \in Seq(Int)
          /\ BodyOf(file).declared \in (Nat \ {0}) \cup {None}
    /\ Replacements \subseteq Files
    /\ \A archive \in Archives :
          /\ archive.sources \in [Sessions -> Files \cup {None}]
          /\ archive.budget \in [changes : Nat, runs : Nat, deaths : Nat]
    /\ None \notin Files /\ None \notin {"reused", "measured"} /\ None \notin Runs
    /\ LastDay \in Nat /\ None \notin 1..LastDay

VARIABLES
    source,         \* bytes at the canonical path, None if there are none
    manifest,       \* the hash canonical-raw-archive-2024.json records
    products,       \* external-products/
    coordinate,     \* derived-coordinates.json
    working,        \* working/qc-converted: two files and their manifest
    results,        \* qc-result.json of a profile and a session
    tables,         \* gaps.csv and satellite-summary.csv: the body they tell of
    run,            \* the run in progress: its mode, and what is still queued
    worker,         \* what each thread of the pool is doing
    reported,       \* how the run came by the rows it returns for a session
    summary,        \* what the last summarize wrote
    budget          \* changes, runs and deaths that are left (bound)

qcVars == <<source, manifest, products, coordinate, working, results, tables, run, worker,
          reported, summary, budget>>
disk == <<working, results, tables>>
evidence == <<source, manifest, products, coordinate>>

Health == INSTANCE StationHealth

Profiles == ToSet(ProfileNames)
Idle == [pc |-> "idle"]

Fingerprint(s, convert) == [sha |-> manifest[s], convert |-> convert]

\* navigation_for_session: the first product, by path, that covers midnight.
NavigationFor(s) ==
    LET covering == {p \in products : p.start <= s.day * Day /\ s.day * Day < p.end}
    IN  IF covering = {} THEN None
        ELSE CHOOSE p \in covering : \A q \in covering : p.n <= q.n

QcInit ==
    /\ \E archive \in Archives :
          /\ source = archive.sources
          /\ budget = archive.budget
    /\ manifest = source
    /\ products = {}
    /\ coordinate = "eligible"
    /\ working = [s \in Sessions |-> [plain |-> None, rinex |-> None, record |-> None]]
    /\ results = [p \in Profiles |-> [s \in Sessions |-> None]]
    /\ tables = [p \in Profiles |-> [s \in Sessions |-> None]]
    /\ run = None
    /\ worker = [w \in Workers |-> Idle]
    /\ reported = [s \in Sessions |-> None]
    /\ summary = None
-----------------------------------------------------------------------------
(* Between runs.                                                           *)

Between == /\ run = None /\ budget.changes > 0
           /\ budget' = [budget EXCEPT !.changes = @ - 1]
           /\ reported' = [s \in Sessions |-> None]
           /\ summary' = None
           /\ UNCHANGED <<disk, run, worker>>

\* The file is lost or damaged, or put back; the manifest is not rebuilt.
FileChanges ==
    /\ Between
    /\ \E s \in Sessions, body \in Replacements \cup {None} :
          manifest[s] # None /\ source' = [source EXCEPT ![s] = body]
    /\ UNCHANGED <<manifest, products, coordinate>>

\* The delivery was corrected and the canonical archive built anew.
ArchiveRebuilt ==
    /\ Between
    /\ \E s \in Sessions, body \in Replacements :
          /\ manifest[s] # None
          /\ source' = [source EXCEPT ![s] = body]
          /\ manifest' = [manifest EXCEPT ![s] = body]
    /\ UNCHANGED <<products, coordinate>>

\* A navigation product arrives, or a coordinate is admitted or withdrawn.
EvidenceChanges ==
    /\ Between
    /\ \/ \E p \in Products : products' = products \cup {p} /\ UNCHANGED coordinate
       \/ coordinate' \in Coordinates /\ UNCHANGED products
    /\ UNCHANGED <<source, manifest>>
-----------------------------------------------------------------------------
(* run_gnss_qc.py and run_dataset.                                         *)

\* load_session_inputs sorts by day and station, and select_sessions keeps the order.
Before(a, b) == a.day < b.day \/ (a.day = b.day /\ a.station < b.station)

Sorted(chosen) ==
    {queue \in [1..Cardinality(chosen) -> chosen] :
        \A i, j \in DOMAIN queue : i < j => Before(queue[i], queue[j])}

\* The commands session, station, date-range and dataset.
Selections ==
    LET known == {s \in Sessions : manifest[s] # None}
    IN  UNION {Sorted(chosen) :
            chosen \in ({known} \cup {{s \in known : s.station = t.station} : t \in known}
                                \cup {{s \in known : s.day = t.day} : t \in known}) \ {{}}}

Start ==
    /\ run = None /\ budget.runs > 0
    /\ budget' = [budget EXCEPT !.runs = @ - 1]
    /\ \E queue \in Selections, convert \in BOOLEAN :
          run' = [queue |-> queue, convert |-> convert, selected |-> ToSet(queue)]
    /\ reported' = [s \in Sessions |-> None]
    /\ summary' = None
    /\ UNCHANGED <<evidence, disk, worker>>

\* executor.map hands the sessions out in their order.
Take(w) ==
    /\ run # None /\ worker[w].pc = "idle" /\ run.queue # <<>>
    /\ worker' = [worker EXCEPT ![w] = [pc |-> "verify", session |-> Head(run.queue)]]
    /\ run' = [run EXCEPT !.queue = Tail(@)]
    /\ UNCHANGED <<evidence, disk, reported, summary, budget>>

End ==
    /\ run # None /\ run.queue = <<>> /\ \A w \in Workers : worker[w].pc = "idle"
    /\ run' = None
    /\ UNCHANGED <<evidence, disk, worker, reported, summary, budget>>

\* The process is killed; what is on the disk stays.
Die ==
    /\ run # None /\ budget.deaths > 0
    /\ budget' = [budget EXCEPT !.deaths = @ - 1]
    /\ run' = None
    /\ worker' = [w \in Workers |-> Idle]
    /\ reported' = [s \in Sessions |-> None]
    /\ UNCHANGED <<evidence, disk, summary>>

\* summarize_profile reads every stored result of the profile, of this run
\* or of an earlier one.
Rows(p) ==
    {[station |-> s.station, day |-> s.day, class |-> results[p][s].class,
      covered |-> results[p][s].covered,
      receiver |-> IF results[p][s].analysed = None THEN None
                   ELSE BodyOf(results[p][s].analysed).receiver] :
         s \in {t \in Sessions : results[p][t] # None}}

Summarize ==
    /\ run = None /\ summary = None
    /\ \E p \in Profiles :
          /\ Rows(p) # {}
          /\ summary' = [profile |-> p, rows |-> Rows(p),
                         health |-> {Health!Health(Rows(p), s.station) : s \in Sessions},
                         windows |-> Health!Windows(Rows(p), 1..2),
                         transitions |-> Health!Transitions(Rows(p))]
    /\ UNCHANGED <<evidence, disk, run, worker, reported, budget>>
-----------------------------------------------------------------------------
(* process_session, in the thread w.                                       *)

At(w, pc) == run # None /\ worker[w].pc = pc
Of(w) == worker[w].session

Go(w, next) == worker' = [worker EXCEPT ![w] = next]
Reading == UNCHANGED <<evidence, disk, run, reported, summary, budget>>

CachedBySource(result, s) ==    \* mutant: a result of the manifest's hash is enough
    result # None /\ [sha |-> result.sha, convert |-> result.convert] = Fingerprint(s, run.convert)

Cached(result, s) ==
    /\ result # None
    /\ [sha |-> result.sha, convert |-> result.convert] = Fingerprint(s, run.convert)
    /\ result.observed = source[s]

\* Every profile of the run has a result that stands, or none is reused.
LoadCached(s) == \A p \in Profiles : Cached(results[p][s], s)

Measured(s, text, p) ==
    LET body == BodyOf(text)
    IN  ClassifySession(body, Analysis(body), ProfileOf[p], Identity(s.named, body),
                        s.duplicate, NavigationFor(s), coordinate)

\* The analysis, or the identity of the station, raises.
Raises(s, text) == ~Analysable(BodyOf(text)) \/ Identity(s.named, BodyOf(text)) = None

\* The result of a profile: measured, or with the one finding of a failure.
Result(s, outcome, p) ==
    [sha |-> manifest[s], convert |-> run.convert, observed |-> outcome.observed,
     analysed |-> outcome.text,
     class |-> Overall(IF outcome.text # None THEN Measured(s, outcome.text, p)
                       ELSE FailureFindings(outcome.code)),
     covered |-> outcome.text # None /\ NavigationFor(s) # None]

Writing(s, observed, text, code) ==
    [pc |-> "result", session |-> s, left |-> ProfileNames,
     outcome |-> [observed |-> observed, text |-> text, code |-> code]]

\* Any exception ends here; a FileNotFoundError is taken for a missing source.
Failed(s, code) == Writing(s, None, None, code)

Verify(w) ==
    /\ At(w, "verify")
    /\ LET s == Of(w)
       IN  \/ /\ source[s] = None
              /\ Go(w, Failed(s, "SOURCE_FILE_UNAVAILABLE"))
              /\ Reading
           \/ /\ source[s] # None /\ LoadCached(s)
              /\ Go(w, Idle)
              /\ reported' = [reported EXCEPT ![s] = "reused"]
              /\ UNCHANGED <<evidence, disk, run, summary, budget>>
           \/ /\ source[s] # None /\ ~LoadCached(s) /\ source[s] # manifest[s]
              /\ Go(w, Writing(s, source[s], None, "HASH_MISMATCH"))
              /\ Reading
           \/ /\ source[s] # None /\ ~LoadCached(s) /\ source[s] = manifest[s]
              /\ Go(w, [pc |-> IF run.convert THEN "convert" ELSE "stream", session |-> s])
              /\ Reading

ReusableUnhashed(s) ==  \* mutant: the record is believed, the files are not hashed
    working[s].record # None /\ working[s].record.sha = manifest[s]

\* _convert_verified: the record is of this source and of these two files.
Reusable(s) ==
    /\ working[s].record # None
    /\ working[s].record.sha = manifest[s]
    /\ working[s].plain = working[s].record.plain
    /\ working[s].rinex = working[s].record.rinex

\* The tools run in a directory of their own; what they make is moved over
\* the old files one by one.
Convert(w) ==
    /\ At(w, "convert")
    /\ \/ Reusable(Of(w)) /\ Go(w, [pc |-> "record", session |-> Of(w),
                                    text |-> working[Of(w)].rinex,
                                    record |-> working[Of(w)].record])
       \/ ~Reusable(Of(w)) /\ Go(w, [pc |-> "movePlain", session |-> Of(w),
                                     text |-> source[Of(w)]])
    /\ Reading

MovePlain(w) ==
    /\ At(w, "movePlain")
    /\ working' = [working EXCEPT ![Of(w)].plain = worker[w].text]
    /\ Go(w, [worker[w] EXCEPT !.pc = "moveRinex"])
    /\ UNCHANGED <<evidence, results, tables, run, reported, summary, budget>>

MoveRinex(w) ==
    /\ At(w, "moveRinex")
    /\ working' = [working EXCEPT ![Of(w)].rinex = worker[w].text]
    /\ LET text == worker[w].text
       IN  Go(w, [pc |-> "record", session |-> Of(w), text |-> text,
                  record |-> [sha |-> text, plain |-> text, rinex |-> text]])
    /\ UNCHANGED <<evidence, results, tables, run, reported, summary, budget>>

\* conversion-manifest.json of the working directory.

Record(w) ==
    /\ At(w, "record")
    /\ working' = [working EXCEPT ![Of(w)].record = worker[w].record]
    /\ Go(w, [pc |-> "analyse", session |-> Of(w), text |-> working[Of(w)].rinex])
    /\ UNCHANGED <<evidence, results, tables, run, reported, summary, budget>>

\* _stream_converted: nothing is kept.
Stream(w) ==
    /\ At(w, "stream")
    /\ Go(w, [pc |-> "analyse", session |-> Of(w), text |-> source[Of(w)]])
    /\ Reading

\* A tool fails, or is not there (which is a FileNotFoundError, too).
ToolFails(w) ==
    /\ At(w, "stream") \/ (At(w, "convert") /\ ~Reusable(Of(w)))
    /\ \E code \in {"SESSION_PROCESSING_FAILED", "SOURCE_FILE_UNAVAILABLE"} :
          Go(w, Failed(Of(w), code))
    /\ Reading

Classify(w) ==
    /\ At(w, "analyse")
    /\ LET s == Of(w)
           text == worker[w].text
       IN  Go(w, IF Raises(s, text) THEN Failed(s, "SESSION_PROCESSING_FAILED")
                 ELSE Writing(s, source[s], text, None))
    /\ Reading

NextOfMeasured(w) ==    \* mutant: a session that failed returns no rows
    IF Len(worker[w].left) > 1
    THEN /\ Go(w, [worker[w] EXCEPT !.pc = "result", !.left = Tail(@)])
         /\ UNCHANGED reported
    ELSE /\ Go(w, Idle)
         /\ reported' = IF worker[w].outcome.text = None THEN reported
                        ELSE [reported EXCEPT ![Of(w)] = "measured"]

\* The next profile, or the end of the session, whose rows are returned.
NextProfile(w) ==
    IF Len(worker[w].left) > 1
    THEN /\ Go(w, [worker[w] EXCEPT !.pc = "result", !.left = Tail(@)])
         /\ UNCHANGED reported
    ELSE /\ Go(w, Idle)
         /\ reported' = [reported EXCEPT ![Of(w)] = "measured"]

\* _write_session_outputs: the result first, then what it measured, if any.
WriteResult(w) ==
    /\ At(w, "result")
    /\ LET p == Head(worker[w].left)
       IN  results' = [results EXCEPT ![p][Of(w)] = Result(Of(w), worker[w].outcome, p)]
    /\ IF worker[w].outcome.text = None THEN NextProfile(w)
       ELSE Go(w, [worker[w] EXCEPT !.pc = "tables"]) /\ UNCHANGED reported
    /\ UNCHANGED <<evidence, working, tables, run, summary, budget>>

WriteTables(w) ==
    /\ At(w, "tables")
    /\ LET p == Head(worker[w].left)
       IN  tables' = [tables EXCEPT ![p][Of(w)] = worker[w].outcome.text]
    /\ NextProfile(w)
    /\ UNCHANGED <<evidence, working, results, run, summary, budget>>

Step(w) ==
    \/ Verify(w) \/ Convert(w) \/ MovePlain(w) \/ MoveRinex(w) \/ Record(w) \/ Stream(w)
    \/ ToolFails(w) \/ Classify(w) \/ WriteResult(w) \/ WriteTables(w)

QcNext ==
    \/ FileChanges \/ ArchiveRebuilt \/ EvidenceChanges
    \/ Start \/ End \/ Die \/ Summarize
    \/ \E w \in Workers : Take(w) \/ Step(w)

QcSpec == QcInit /\ [][QcNext]_qcVars
-----------------------------------------------------------------------------
MaybeFile == Files \cup {None}

QcTypeOK ==
    /\ source \in [Sessions -> MaybeFile]
    /\ manifest \in [Sessions -> MaybeFile]
    /\ products \subseteq Products /\ coordinate \in Coordinates \cup {"eligible"}
    /\ \A s \in Sessions :
          /\ working[s].plain \in MaybeFile /\ working[s].rinex \in MaybeFile
          /\ working[s].record # None => working[s].record.rinex = working[s].record.sha
    /\ \A p \in Profiles, s \in Sessions :
          /\ results[p][s] # None => results[p][s].class \in Classes
          /\ tables[p][s] \in MaybeFile
    /\ \A w \in Workers : worker[w].pc # "idle" => run # None /\ Of(w) \in run.selected

\* A session that is let through was measured on the bytes whose hash the
\* result records, and these are the bytes of the manifest: whatever was left
\* in the working directory by a run that died or by another archive
\* (_convert_verified, process_session).
AdmissionHonest ==
    \A p \in Profiles, s \in Sessions :
        (results[p][s] # None /\ results[p][s].class \in {"ACCEPT", "WARN"})
            => /\ results[p][s].analysed = results[p][s].observed
               /\ results[p][s].observed = results[p][s].sha

\* A row that is returned without being measured again is of the file that is
\* there now, and a session that failed is never taken from the store.
ReuseStands ==
    \A s \in Sessions :
        reported[s] = "reused" =>
            \A p \in Profiles :
                /\ results[p][s].observed = source[s]
                /\ results[p][s].sha = manifest[s]
                /\ results[p][s].class \in {"ACCEPT", "WARN"} =>
                      results[p][s].analysed = source[s]

\* What quality control counts is there.  The windows of the summary are the
\* longest runs of days on which enough stations were accepted, the last day
\* of the year included; and for a day whose epochs lie on the grid of the
\* interval, the epochs reported missing, each rounded gap added up, are those
\* of the grid that the file does not hold.
WindowsMaximal ==
    summary # None =>
        summary.windows = Health!MaximalRuns(summary.rows, 1..2)
MissingExact ==
    \A w \in Workers :
        LET body == BodyOf(worker[w].text) IN
        (worker[w].pc = "analyse" /\ Analysable(body)) =>
            LET a == Analysis(body) IN
            OnGrid(body, a.interval) =>
                a.missing = Cardinality(Grid(a.interval) \ ToSet(body.epochs))
CountsExact == WindowsMaximal /\ MissingExact

\* A run that is not killed returns the rows of every session that was
\* selected, whatever is wrong with its file or with the tools (run_dataset).
RunAccounts ==
    [][(run # None /\ run' = None /\ budget' = budget)
          => \A s \in run.selected : reported[s] # None]_qcVars
=============================================================================
