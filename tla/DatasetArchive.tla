---------------------------- MODULE DatasetArchive ----------------------------
(***************************************************************************)
(* scripts/phase2/process_preserved_2024_dataset.py: it inventories a      *)
(* delivery, copies every distinct file to its canonical path, which is    *)
(* never written again, analyses the archived observation files and writes *)
(* the manifest, the tables, the reports and one registry import package   *)
(* per station.  It may die anywhere and be run again, on a delivery that  *)
(* has changed in the meantime.                                            *)
(*                                                                         *)
(* A content is what the analysis reads in a file (SessionQuality) and     *)
(* stands for its bytes and for their digest.  A file that is being        *)
(* written has the content Torn.                                           *)
(***************************************************************************)
EXTENDS SessionQuality

CONSTANTS
    Delivered,      \* the paths of the delivery: [n, target, copy, known]
    Contents,       \* what a file may contain
    Deliveries,     \* initial deliveries: records of the files, [Delivered ->
                    \* Contents \cup {None}], and of the bounds: edits (files
                    \* replaced, added or removed) and runs of the script
    Replacements,   \* bound: the contents that files are replaced by
    Torn            \* a file that was opened and not completely written

\* Paths are numbered in their order; a delivery has contents only, whose times
\* and intervals are numbers of units.
ASSUME DeliveredAssumption ==
    /\ Day \in Nat
    /\ \A c \in Contents :
          c.epochs \in Seq(Int) /\ (c.interval = None \/ c.interval \in Int)
    /\ \A d \in Delivered : d.n \in Nat /\ d.copy \in BOOLEAN /\ d.target.n \in Nat
    /\ \A start \in Deliveries : start.files \in [Delivered -> Contents \cup {None}]
    /\ Replacements \subseteq Contents
    /\ Torn \notin Contents \cup {None}

Targets == {d.target : d \in Delivered}
Stations == {t.station : t \in Targets}

\* Files in the order they are written; the packages come last.
Tables == <<"manifest", "registry", "sessions", "gaps", "missing", "baselines", "overlap",
            "summary", "report">>

VARIABLES
    delivery,       \* [Delivered -> Contents \cup {None}]
    raw,            \* [Targets -> Contents \cup {None, Torn}]: the archive
    temps,          \* temporary files: records [target, content, by]
    tables,         \* what each of Tables holds
    packages,       \* [Stations -> the station's import package, or what is there]
    run,            \* the running script
    edits, runs     \* how many edits of the delivery and runs are left

vars == <<delivery, raw, temps, tables, packages, run, edits, runs>>

Idle == [pc |-> "idle", outcome |-> "none"]

NoPackage == [state |-> "absent"]
TornPackage == [state |-> "torn"]
-----------------------------------------------------------------------------
\* discover_delivery and the grouping by canonical path.
Present(seen) == {d \in Delivered : seen[d] # None}
Candidates(seen, t) == {d \in Present(seen) : d.target = t}
Collides(seen, t) == \E d, e \in Candidates(seen, t) : seen[d] # seen[e]

\* The file whose name has no copy suffix, then the first by path.
RetainedFirst(seen, t) ==       \* mutant: the first by path, copy or not
    CHOOSE d \in Candidates(seen, t) : \A e \in Candidates(seen, t) : d.n <= e.n

Retained(seen, t) ==
    CHOOSE d \in Candidates(seen, t) : \A e \in Candidates(seen, t) :
        (~d.copy /\ e.copy) \/ (d.copy = e.copy /\ d.n <= e.n)

\* The next target in the order of paths.
Todo == {t \in {d.target : d \in Present(run.seen)} : t \notin run.archived}
Current == CHOOSE t \in Todo : \A u \in Todo : t.n <= u.n

Records ==
    {[target |-> t, source |-> Retained(run.seen, t), sha |-> run.seen[Retained(run.seen, t)]] :
        t \in run.archived}

Duplicates ==
    {[excluded |-> d, retained |-> Retained(run.seen, d.target)] :
        d \in {e \in Present(run.seen) : e # Retained(run.seen, e.target)}}

Manifest == [records |-> Records, duplicates |-> Duplicates]
-----------------------------------------------------------------------------
Init ==
    /\ \E start \in Deliveries :
          delivery = start.files /\ edits = start.edits /\ runs = start.runs
    /\ raw = [t \in Targets |-> None]
    /\ temps = {}
    /\ tables = [i \in DOMAIN Tables |-> None]
    /\ packages = [st \in Stations |-> NoPackage]
    /\ run = Idle

Stop(outcome) == run' = [run EXCEPT !.pc = "idle", !.outcome = outcome]

\* Inventory of the delivery: one file that it cannot classify is an error.
Discover(verifyOnly) ==
    /\ run.pc = "idle" /\ runs > 0
    /\ runs' = runs - 1
    /\ run' = IF \A d \in Present(delivery) : d.known
              THEN [pc |-> "archive", outcome |-> "none", verifyOnly |-> verifyOnly,
                    seen |-> delivery, archived |-> {}, sessions |-> {}, at |-> 1, packed |-> {}]
              ELSE [pc |-> "idle", outcome |-> "failed"]
    /\ UNCHANGED <<delivery, raw, temps, tables, packages, edits>>

Archived == run' = [run EXCEPT !.archived = @ \cup {Current}]

\* One canonical path: two deliveries of it must be the same, and so must
\* what is there already.
CheckTarget ==
    /\ run.pc = "archive" /\ Todo # {}
    /\ LET t == Current
           sha == run.seen[Retained(run.seen, t)]
       IN  \/ /\ Collides(run.seen, t) \/ raw[t] \notin {None, sha}
              /\ Stop("failed")
           \/ /\ ~Collides(run.seen, t) /\ raw[t] = sha
              /\ Archived
           \/ /\ ~Collides(run.seen, t) /\ raw[t] = None
              /\ IF run.verifyOnly THEN Archived ELSE run' = [run EXCEPT !.pc = "copy"]
    /\ UNCHANGED <<delivery, raw, temps, tables, packages, edits, runs>>

\* mkstemp and copyfile: what is copied is the delivered file as it is now.
CopyDirect(t, content) ==       \* mutant: copied to its place and verified there
    /\ raw' = [raw EXCEPT ![t] = content]
    /\ temps' = temps \cup {[target |-> t, content |-> content, by |-> runs]}

CopyTo(t, content) ==
    /\ temps' = temps \cup {[target |-> t, content |-> content, by |-> runs]}
    /\ UNCHANGED raw

Copy ==
    /\ run.pc = "copy"
    /\ LET source == Retained(run.seen, Current)
       IN  IF delivery[source] = None
           THEN Stop("failed") /\ UNCHANGED <<raw, temps>>
           ELSE /\ CopyTo(Current, delivery[source])
                /\ run' = [run EXCEPT !.pc = "verify"]
    /\ UNCHANGED <<delivery, tables, packages, edits, runs>>

\* The copy is hashed, made read-only and renamed to its place, or removed.
Verify ==
    /\ run.pc = "verify"
    /\ LET copy == CHOOSE f \in temps : f.target = Current /\ f.by = runs
           sha == run.seen[Retained(run.seen, Current)]
       IN  /\ temps' = temps \ {copy}
           /\ IF copy.content = sha
              THEN /\ raw' = [raw EXCEPT ![Current] = sha]
                   /\ run' = [run EXCEPT !.archived = @ \cup {Current}, !.pc = "archive"]
              ELSE Stop("failed") /\ UNCHANGED raw
    /\ UNCHANGED <<delivery, tables, packages, edits, runs>>

\* A file that is not there makes uncompress fail, which is a session in error.
Unreadable ==
    [code |-> 1, header |-> FALSE, interval |-> None, stated |-> FALSE, position |-> None,
     epochs |-> <<>>]

Analyse ==
    /\ run.pc = "archive" /\ Todo = {}
    /\ run' = [run EXCEPT !.pc = "write",
                  !.sessions = {Session(r.target, r.sha,
                                        IF raw[r.target] # None THEN raw[r.target]
                                                                ELSE Unreadable) :
                                   r \in {x \in Records : x.target.kind = "observation"}}]
    /\ UNCHANGED <<delivery, raw, temps, tables, packages, edits, runs>>

\* _summary: the totals over all sessions.
Summary ==
    LET count(P(_)) == Cardinality({s \in run.sessions : P(s)})
    IN  [files |-> Cardinality(Records), excluded |-> Cardinality(Duplicates),
         stations |-> Cardinality(StationsOf(run.sessions)),
         total |-> Cardinality(run.sessions),
         parsed |-> count(LAMBDA s : s.status # "error"),
         complete |-> count(LAMBDA s : s.completeness = "complete"),
         incomplete |-> count(LAMBDA s : s.completeness = "incomplete"),
         unknown |-> count(LAMBDA s : s.completeness = "not_computable"),
         missing |-> MapThenSumSet(LAMBDA s : s.missing, run.sessions)]

TableOf(name) ==
    CASE name = "manifest"  -> Manifest
      [] name = "registry"  -> Registry(run.sessions)
      [] name = "missing"   -> MissingDays(run.sessions)
      [] name = "baselines" -> BaselinePairs(run.sessions)
      [] name = "overlap"   -> Overlaps(run.sessions)
      [] name \in {"summary", "report"} -> Summary
      [] OTHER              -> run.sessions

\* write_text truncates the file before it writes it.
OpenTable ==
    /\ run.pc = "write" /\ run.at \in DOMAIN Tables
    /\ tables' = [tables EXCEPT ![run.at] = Torn]
    /\ run' = [run EXCEPT !.pc = "fill"]
    /\ UNCHANGED <<delivery, raw, temps, packages, edits, runs>>

FillTable ==
    /\ run.pc = "fill" /\ run.at \in DOMAIN Tables
    /\ tables' = [tables EXCEPT ![run.at] = TableOf(Tables[run.at])]
    /\ run' = [run EXCEPT !.pc = "write", !.at = @ + 1]
    /\ UNCHANGED <<delivery, raw, temps, packages, edits, runs>>

\* _write_station_import_packages: in the order of stations; the first
\* readable session of a station stands for it, and there must be one.
Unpacked == StationsOf(run.sessions) \ run.packed
NextStation ==
    CHOOSE st \in Unpacked : \E t \in Targets :
        t.station = st /\ \A u \in Targets : u.station \in Unpacked => t.n <= u.n
Packing == run.pc = "write" /\ run.at > Len(Tables) /\ Unpacked # {}

RepresentativeOfAll(station) ==     \* mutant: a session in error may stand for it
    LET rows == Of(run.sessions, station)
    IN  CHOOSE s \in rows : \A other \in rows : s.target.n <= other.target.n

Representative(station) ==
    LET rows == Usable(Of(run.sessions, station))
    IN  CHOOSE s \in rows : \A other \in rows : s.target.n <= other.target.n

\* The manifest is hashed once, before the first package.
Package(station) ==
    [state |-> "whole", manifest |-> tables[1], header |-> Representative(station).target,
     sha |-> Representative(station).sha,
     span |-> [first |-> RegistryRow(run.sessions, station).first,
               last |-> RegistryRow(run.sessions, station).last]]

WritePackage ==
    /\ Packing
    /\ IF Usable(Of(run.sessions, NextStation)) = {}
       THEN Stop("failed") /\ UNCHANGED packages      \* IndexError, uncaught
       ELSE /\ packages' = [packages EXCEPT ![NextStation] = Package(NextStation)]
            /\ run' = [run EXCEPT !.packed = @ \cup {NextStation}]
    /\ UNCHANGED <<delivery, raw, temps, tables, edits, runs>>

Finish ==
    /\ run.pc = "write" /\ run.at > Len(Tables) /\ Unpacked = {}
    /\ Stop("done")
    /\ UNCHANGED <<delivery, raw, temps, tables, packages, edits, runs>>

\* The process dies: a copy under way is left behind, complete or not, and so
\* is a package under way.

LeftBehind(t) ==
    /\ temps' = temps \cup {[target |-> t, content |-> Torn, by |-> runs]}
    /\ UNCHANGED raw

Crash ==
    /\ run.pc # "idle"
    /\ Stop("died")
    /\ \/ /\ run.pc = "copy" /\ LeftBehind(Current)
          /\ UNCHANGED packages
       \/ /\ Packing
          /\ packages' = [packages EXCEPT ![NextStation] = TornPackage]
          /\ UNCHANGED <<raw, temps>>
       \/ UNCHANGED <<raw, temps, packages>>
    /\ UNCHANGED <<delivery, tables, edits, runs>>

\* The provider or the operator changes a file of the delivery.
Redeliver(d) ==
    /\ edits > 0
    /\ edits' = edits - 1
    /\ \E c \in Replacements \cup {None} : delivery' = [delivery EXCEPT ![d] = c]
    /\ UNCHANGED <<raw, temps, tables, packages, run, runs>>

Step ==
    \/ CheckTarget \/ Copy \/ Verify \/ Analyse \/ OpenTable \/ FillTable \/ WritePackage \/ Finish

Next ==
    \/ \E verifyOnly \in BOOLEAN : Discover(verifyOnly)
    \/ Step
    \/ Crash
    \/ \E d \in Delivered : Redeliver(d)

Spec == Init /\ [][Next]_vars
-----------------------------------------------------------------------------
(* Correctness.                                                            *)

\* No incomplete file is ever at a canonical path, wherever a run died.
NothingTorn == raw \in [Targets -> Contents \cup {None}]

\* Type invariant.
TypeOK ==
    /\ delivery \in [Delivered -> Contents \cup {None}]
    /\ NothingTorn
    /\ \A f \in temps : f.target \in Targets /\ f.content \in Contents \cup {Torn}
    /\ DOMAIN tables = DOMAIN Tables
    /\ DOMAIN packages = Stations
    /\ run.pc \in {"idle", "archive", "copy", "verify", "write", "fill"}
    /\ edits \in Nat /\ runs \in Nat

\* The archive is immutable: once a canonical path has a file, no run, with
\* whatever delivery, after whatever crash, replaces, changes or removes it,
\* and what appears there is a whole delivered file of that path.
RawWriteOnce ==
    [][\A t \in Targets :
          raw'[t] # raw[t] => /\ raw[t] = None
                              /\ run.pc = "verify"
                              /\ raw'[t] \in {run.seen[d] : d \in Candidates(run.seen, t)}]_vars

\* A run that was not told to verify only and that reports success has every
\* delivered file in the archive, under its digest, or as a duplicate of one
\* that is; its manifest lists them, and never a copy beside its original.
ManifestComplete ==
    run.outcome = "done" =>
        LET listed == tables[1].records
        IN  /\ \A d \in Present(run.seen) :
                  \E r \in listed :
                     /\ r.target = d.target /\ r.sha = run.seen[d]
                     /\ (r.source.copy => \A e \in Present(run.seen) :
                                             e.target = r.target => e.copy)
                     /\ r.source = d \/ [excluded |-> d, retained |-> r.source]
                                           \in tables[1].duplicates
            /\ ~run.verifyOnly => \A r \in listed : raw[r.target] = r.sha

\* The import package of a station cites a manifest and an observation file
\* by digest.  After a run that reports success the importer will verify
\* both for every station of the registry, and the station's span of
\* observations is the one in the registry table.
PackagesVerify ==
    run.outcome = "done" =>
        \A row \in tables[2] :
            LET p == packages[row.station]
            IN  /\ p.state = "whole"
                /\ p.manifest = tables[1]
                /\ raw[p.header] = p.sha
                /\ p.span = [first |-> row.first, last |-> row.last]

\* A day is called complete exactly when its epochs are the day's, each once
\* and in order; and on a regular grid the epochs counted as missing are
\* those that are missing between the first and the last.
CompleteIsExact ==
    \A s \in IF run.pc \in {"write", "fill"} THEN run.sessions ELSE {} :
        LET f == raw[s.target]
        IN  /\ s.status # "error" /\ s.interval # None /\ Divides(s.interval)
                 => (s.completeness = "complete" <=> f.epochs = Grid(s.interval))
            /\ (/\ s.status # "error" /\ s.interval # None
                /\ \A i \in Pairs(f.epochs) :
                      /\ f.epochs[i] < f.epochs[i + 1]
                      /\ (f.epochs[i + 1] - f.epochs[i]) % s.interval = 0)
                 => Len(f.epochs) + s.missing = (s.last - s.first) \div s.interval + 1
=============================================================================
