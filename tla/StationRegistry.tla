--------------------------- MODULE StationRegistry ---------------------------
(***************************************************************************)
(* The station registry: scripts/phase2/import_station_metadata.py loads   *)
(* and validates one JSON package, hashes the provenance files it cites,   *)
(* and imports it in one PostgreSQL transaction of SELECT and INSERT       *)
(* statements (station_metadata/repository.py).  Several operators may     *)
(* import at once.  The isolation level is the default, READ COMMITTED: a  *)
(* SELECT sees what is committed at that moment and what its own           *)
(* transaction inserted, an INSERT waits for an uncommitted row with the   *)
(* same unique key, and a cycle of such waits costs one transaction its    *)
(* life.  Only the constraints of the migrations are unique: a source file *)
(* with its digest, a provider code, a station code of a provider.         *)
(* Nothing in the database keeps two coordinate histories of one station   *)
(* apart.                                                                  *)
(***************************************************************************)
EXTENDS Integers, FiniteSets, Sequences

CONSTANTS
    Importers,      \* processes that run the import script
    Packages,       \* the import packages (records) an operator may give
    Idents,         \* source identities: type, reference and path
    Contents,       \* what a source file may contain, as a digest
    None,           \* null in a package; the content of a missing file
    MaxImports,     \* bound: imports begun
    MaxRewrites     \* bound: times a source file is replaced or removed

\* The lists of a package are lists; times are counted from some beginning, and
\* values in whole tenths of a digit.
ASSUME PackagesAssumption ==
    \A pkg \in Packages :
        /\ Len(pkg.sources) \in Nat /\ DOMAIN pkg.sources = 1..Len(pkg.sources)
        /\ pkg.zoned \in BOOLEAN
        /\ \A rows \in {pkg.coordinates, pkg.equipment} :
              /\ Len(rows) \in Nat /\ DOMAIN rows = 1..Len(rows)
              /\ \A i \in DOMAIN rows : /\ rows[i].value \in Int /\ rows[i].from \in Nat
                                        /\ rows[i].to \in Nat \cup {None}

VARIABLES
    file,           \* [Idents -> Contents \cup {None}]: the data root
    registry,       \* the committed rows
    run,            \* [Importers -> the state of its import]
    reports,        \* history: the imports that reported success
    imports,        \* number of imports begun
    rewrites        \* number of files replaced

vars == <<file, registry, run, reports, imports, rewrites>>
-----------------------------------------------------------------------------
(* The package and its validation.                                         *)

SourceKeys(pkg) == {pkg.sources[i].key : i \in DOMAIN pkg.sources}

\* The rows are sorted by valid_from, equal ones in the order of the list, and
\* only neighbours are compared.
Before(rows, i, j) ==
    rows[i].from < rows[j].from \/ (rows[i].from = rows[j].from /\ i < j)

Adjacent(rows) ==
    {ij \in (DOMAIN rows) \X (DOMAIN rows) :
        /\ Before(rows, ij[1], ij[2])
        /\ ~\E k \in DOMAIN rows : Before(rows, ij[1], k) /\ Before(rows, k, ij[2])}

NoOverlapOpenEnded(rows) ==     \* mutant: an open interval overlaps nothing
    \A ij \in Adjacent(rows) :
        rows[ij[1]].to # None => rows[ij[2]].from >= rows[ij[1]].to

NoOverlap(rows) ==
    \A ij \in Adjacent(rows) :
        rows[ij[1]].to # None /\ rows[ij[2]].from >= rows[ij[1]].to

ValidInterval(row) == row.to # None => row.to > row.from

\* A latitude and a longitude or none of them, three ECEF axes or none, one
\* of the two at least, and the angles on the globe.
ValidCoordinate(c, keys) ==
    /\ c.source \in keys
    /\ c.geodetic \in {{}, {"lat", "lon"}}
    /\ c.ecef \in {{}, {"x", "y", "z"}}
    /\ c.geodetic \cup c.ecef # {}
    /\ c.inRange
    /\ ValidInterval(c)

\* At least one receiver or antenna field, no negative antenna height.
ValidEquipment(e, keys) ==
    /\ e.source \in keys
    /\ e.described
    /\ e.value >= 0
    /\ ValidInterval(e)

ValidPackage(pkg) ==
    LET keys == SourceKeys(pkg)
    IN  /\ pkg.schema = "1.0"
        /\ pkg.sources # <<>>
        /\ Cardinality(keys) = Len(pkg.sources)
        /\ {pkg.provider.source, pkg.station.source} \subseteq keys
        /\ \A i \in DOMAIN pkg.coordinates : ValidCoordinate(pkg.coordinates[i], keys)
        /\ \A i \in DOMAIN pkg.equipment : ValidEquipment(pkg.equipment[i], keys)
        /\ NoOverlap(pkg.coordinates)
        /\ NoOverlap(pkg.equipment)
-----------------------------------------------------------------------------
(* The rows.  A row that PostgreSQL keeps unique is found by its key; a    *)
(* row of a history has the import that wrote it in its key.  Identity     *)
(* numbers are replaced by the keys they stand for.                        *)

Source(pkg, key) ==
    CHOOSE s \in {pkg.sources[i] : i \in DOMAIN pkg.sources} : s.key = key

SourceId(pkg, shas, key) == <<Source(pkg, key).ident, shas[key]>>

SourceRow(pkg, shas, s) ==
    [table |-> "source", key |-> <<s.ident, shas[s.key]>>, data |-> None]

ProviderRow(pkg, shas) ==
    [table |-> "provider", key |-> <<pkg.provider.code>>,
     data |-> [meta |-> pkg.provider.meta,
               source |-> SourceId(pkg, shas, pkg.provider.source)]]

StationKey(pkg) == <<pkg.provider.code, pkg.station.code>>

StationRow(pkg, shas, zoned) ==
    [table |-> "station", key |-> StationKey(pkg),
     data |-> [meta |-> pkg.station.meta,
               zoned |-> pkg.station.span => zoned,
               source |-> SourceId(pkg, shas, pkg.station.source)]]

\* A NUMERIC column keeps so many digits: values are counted in tenths of
\* its last digit, and are rounded to a whole one half away from zero.
Stored(v) == IF v >= 0 THEN ((v + 5) \div 10) * 10 ELSE -(((-v + 5) \div 10) * 10)

\* What the package says of a history row, and what the columns keep of it:
\* TIMESTAMPTZ always has a zone, a timestamp of a package need not.
HistoryData(pkg, shas, row, value, zoned) ==
    [from |-> row.from, to |-> row.to, value |-> value, zoned |-> zoned,
     source |-> SourceId(pkg, shas, row.source)]

Expected(pkg, shas, row) == HistoryData(pkg, shas, row, row.value, pkg.zoned)

Kept(pkg, shas, row) == HistoryData(pkg, shas, row, Stored(row.value), TRUE)

HistoryRows(p, table, rows) ==
    LET r == run[p]
    IN  {[table |-> table, key |-> <<StationKey(r.pkg), r.serial, i>>,
          data |-> Kept(r.pkg, r.shas, rows[i])] : i \in DOMAIN rows}
-----------------------------------------------------------------------------
(* One import.  A run is at the source it hashes next ("resolve"), or at   *)
(* one statement of its transaction ("select", "insert"): one per source,  *)
(* then provider, station, coordinates and equipment.                      *)

Idle == [phase |-> "idle"]

InTransaction(p) == run[p].phase \in {"select", "insert"}
Pending(p) == IF InTransaction(p) THEN run[p].pending ELSE {}
Visible(p) == registry \cup Pending(p)

Statement(p) ==
    LET n == Len(run[p].pkg.sources)
        at == run[p].at
    IN  IF at <= n THEN "source"
        ELSE <<"provider", "station", "coordinate", "equipment", "commit">>[at - n]

\* The row a keyed statement looks for and may insert.
Row(p) ==
    LET r == run[p]
    IN  CASE Statement(p) = "source"   -> SourceRow(r.pkg, r.shas, r.pkg.sources[r.at])
          [] Statement(p) = "provider" -> ProviderRow(r.pkg, r.shas)
          [] Statement(p) = "station"  -> StationRow(r.pkg, r.shas, TRUE)

\* A source is looked for by its identity, whatever digest it has.
Found(p) ==
    LET row == Row(p)
    IN  {other \in Visible(p) :
            /\ other.table = row.table
            /\ IF row.table = "source" THEN other.key[1] = row.key[1]
                                       ELSE other.key = row.key}

AgreesByCode(p, found) ==      \* mutant: a station is taken for its code alone
    /\ found.table = "source" => found.key = Row(p).key
    /\ found.table = "provider" => found.data = Row(p).data

\* _ensure_source compares digests, the others every column that they wrote.
Agrees(p, found) ==
    /\ found.table = "source" => found.key = Row(p).key
    /\ found.table = "provider" => found.data = Row(p).data
    /\ found.table = "station" =>
          found.data = StationRow(run[p].pkg, run[p].shas, run[p].pkg.zoned).data

History(p) ==
    IF Statement(p) = "coordinate" THEN run[p].pkg.coordinates ELSE run[p].pkg.equipment

Existing(p) ==
    {row \in Visible(p) :
        row.table = Statement(p) /\ row.key[1] = StationKey(run[p].pkg)}

\* ORDER BY valid_from: the registry's rows come sorted, the package's as
\* they were written.
Selected(rows) == \A i, j \in DOMAIN rows : i < j => rows[i].from < rows[j].from

SameHistory(p) ==
    LET rows == History(p)
        r == run[p]
    IN  /\ Cardinality(Existing(p)) = Len(rows)
        /\ Selected(rows)
        /\ {row.data : row \in Existing(p)}
             = {Expected(r.pkg, r.shas, rows[i]) : i \in DOMAIN rows}
-----------------------------------------------------------------------------
Init ==
    /\ file \in [Idents -> Contents]
    /\ registry = {}
    /\ run = [p \in Importers |-> Idle]
    /\ reports = {}
    /\ imports = 0
    /\ rewrites = 0

End(p, outcome) ==
    run' = [run EXCEPT ![p] =
               [phase |-> "ended", outcome |-> outcome, pkg |-> run[p].pkg,
                shas |-> run[p].shas, before |-> run[p].before]]

\* load_station_import_package: nothing is written and nothing is read again.
Load(p, pkg) ==
    /\ run[p].phase \in {"idle", "ended"}
    /\ imports < MaxImports
    /\ imports' = imports + 1
    /\ run' = [run EXCEPT ![p] =
                  IF ValidPackage(pkg)
                  THEN [phase |-> "resolve", pkg |-> pkg, at |-> 1, shas |-> <<>>,
                        pending |-> {}, serial |-> imports, before |-> reports]
                  ELSE [phase |-> "ended", outcome |-> "invalid", pkg |-> pkg,
                        shas |-> <<>>, before |-> reports]]
    /\ UNCHANGED <<file, registry, reports, rewrites>>

\* The data root or the database is not there, or the process dies: whatever
\* the transaction wrote is rolled back.
Fail(p) ==
    /\ run[p].phase \in {"resolve", "select", "insert"}
    /\ End(p, "failed")
    /\ UNCHANGED <<file, registry, reports, imports, rewrites>>

\* resolve_metadata_source: the file exists and has the digest it should have.
Verified(s) == file[s.ident] # None /\ (s.expected # None => file[s.ident] = s.expected)

Resolve(p) ==
    /\ run[p].phase = "resolve"
    /\ LET r == run[p]
           s == r.pkg.sources[r.at]
           shas == [k \in DOMAIN r.shas \cup {s.key} |->
                       IF k = s.key THEN file[s.ident] ELSE r.shas[k]]
       IN  IF ~Verified(s)
           THEN End(p, "provenance")
           ELSE run' = [run EXCEPT ![p].shas = shas,
                                   ![p].at = IF @ = Len(r.pkg.sources) THEN 1 ELSE @ + 1,
                                   ![p].phase = IF r.at = Len(r.pkg.sources)
                                                THEN "select" ELSE @]
    /\ UNCHANGED <<file, registry, reports, imports, rewrites>>

Advance(p) == run' = [run EXCEPT ![p].at = @ + 1, ![p].phase = "select"]

\* _ensure_source, _ensure_provider, _ensure_station: their SELECT.
SelectRow(p) ==
    /\ run[p].phase = "select"
    /\ Statement(p) \in {"source", "provider", "station"}
    /\ \/ /\ Found(p) = {}
          /\ run' = [run EXCEPT ![p].phase = "insert"]
       \/ \E found \in Found(p) :      \* no ORDER BY: any of several rows
             IF Agrees(p, found) THEN Advance(p) ELSE End(p, "conflict")
    /\ UNCHANGED <<file, registry, reports, imports, rewrites>>

\* _ensure_coordinates, _ensure_equipment: their SELECT.
SelectHistory(p) ==
    /\ run[p].phase = "select"
    /\ Statement(p) \in {"coordinate", "equipment"}
    /\ \/ Existing(p) = {} /\ run' = [run EXCEPT ![p].phase = "insert"]
       \/ Existing(p) # {} /\ SameHistory(p) /\ Advance(p)
       \/ Existing(p) # {} /\ ~SameHistory(p) /\ End(p, "conflict")
    /\ UNCHANGED <<file, registry, reports, imports, rewrites>>

SameKey(row, other) == row.table = other.table /\ row.key = other.key

\* p cannot insert its row before q, which inserted the same key, has ended.
Waits(p, q) ==
    /\ run[p].phase = "insert" /\ p # q
    /\ Statement(p) \in {"source", "provider", "station"}
    /\ \E row \in Pending(q) : SameKey(row, Row(p))

WriteThrough(p, rows) ==        \* mutant: every statement commits
    /\ run' = [run EXCEPT ![p].at = @ + 1, ![p].phase = "select"]
    /\ registry' = registry \cup rows

Write(p, rows) ==
    /\ run' = [run EXCEPT ![p].pending = @ \cup rows, ![p].at = @ + 1, ![p].phase = "select"]
    /\ UNCHANGED registry

InsertRow(p) ==
    /\ run[p].phase = "insert"
    /\ Statement(p) \in {"source", "provider", "station"}
    /\ \A q \in Importers : ~Waits(p, q)
    /\ IF \E row \in registry : SameKey(row, Row(p))
       THEN End(p, "unique") /\ UNCHANGED registry
       ELSE Write(p, {Row(p)})
    /\ UNCHANGED <<file, reports, imports, rewrites>>

InsertHistory(p) ==
    /\ run[p].phase = "insert"
    /\ Statement(p) \in {"coordinate", "equipment"}
    /\ Write(p, HistoryRows(p, Statement(p), History(p)))
    /\ UNCHANGED <<file, reports, imports, rewrites>>

NoVictim(p) == FALSE            \* mutant: nobody looks for deadlocks

\* PostgreSQL ends one transaction of a cycle of waits.
Victim(p) ==
    \E S \in SUBSET Importers :
        /\ p \in S
        /\ \A q \in S : (\E r \in S : Waits(q, r)) /\ (\E r \in S : Waits(r, q))

AbortDeadlock(p) ==
    /\ Victim(p)
    /\ End(p, "deadlock")
    /\ UNCHANGED <<file, registry, reports, imports, rewrites>>

Commit(p) ==
    /\ run[p].phase = "select"
    /\ Statement(p) = "commit"
    /\ registry' = registry \cup run[p].pending
    /\ reports' = reports \cup {[pkg |-> run[p].pkg, shas |-> run[p].shas]}
    /\ End(p, "done")
    /\ UNCHANGED <<file, imports, rewrites>>

\* Somebody replaces or removes a source file of the data root.
Rewrite(i) ==
    /\ rewrites < MaxRewrites
    /\ rewrites' = rewrites + 1
    /\ \E c \in Contents \cup {None} : file' = [file EXCEPT ![i] = c]
    /\ UNCHANGED <<registry, run, reports, imports>>

Step(p) ==
    \/ Resolve(p)   \/ SelectRow(p)     \/ SelectHistory(p)
    \/ InsertRow(p) \/ InsertHistory(p) \/ AbortDeadlock(p)
    \/ Commit(p)

Next ==
    \/ \E p \in Importers : Step(p) \/ Fail(p) \/ \E pkg \in Packages : Load(p, pkg)
    \/ \E i \in Idents : Rewrite(i)

Spec == Init /\ [][Next]_vars /\ \A p \in Importers : WF_vars(Step(p))
-----------------------------------------------------------------------------
(* Correctness.                                                            *)

\* Type invariant.
TypeOK ==
    /\ file \in [Idents -> Contents \cup {None}]
    /\ \A row \in registry :
          row.table \in {"source", "provider", "station", "coordinate", "equipment"}
    /\ \A p \in Importers :
          /\ run[p].phase \in {"idle", "resolve", "select", "insert", "ended"}
          /\ run[p].phase \in {"select", "insert"}
                => DOMAIN run[p].shas = SourceKeys(run[p].pkg)
    /\ reports \subseteq [pkg : Packages, shas : {rep.shas : rep \in reports}]
    /\ imports \in 0..MaxImports
    /\ rewrites \in 0..MaxRewrites

\* Everything a package says is in the registry, as the columns keep it.
Registered(pkg, shas) ==
    /\ \A i \in DOMAIN pkg.sources : SourceRow(pkg, shas, pkg.sources[i]) \in registry
    /\ ProviderRow(pkg, shas) \in registry
    /\ StationRow(pkg, shas, TRUE) \in registry
    /\ \A i \in DOMAIN pkg.coordinates : \E row \in registry :
          /\ row.table = "coordinate" /\ row.key[1] = StationKey(pkg)
          /\ row.data = Kept(pkg, shas, pkg.coordinates[i])
    /\ \A i \in DOMAIN pkg.equipment : \E row \in registry :
          /\ row.table = "equipment" /\ row.key[1] = StationKey(pkg)
          /\ row.data = Kept(pkg, shas, pkg.equipment[i])

\* "Partial imports are not acceptable": whenever the registry changes, it
\* only grows, and by one import that is complete (import_package in one
\* transaction, whoever else reads, waits, dies or is aborted meanwhile).
ImportsWhole ==
    [][registry' # registry
        => /\ registry \subseteq registry'
           /\ \E p \in Importers :
                 InTransaction(p) /\ Registered(run[p].pkg, run[p].shas)']_vars

Overlap(a, b) ==
    /\ b.to = None \/ a.from < b.to
    /\ a.to = None \/ b.from < a.to

\* Two rows of one station's history that one import wrote never overlap:
\* comparing neighbours after the sort by valid_from is enough.
OneImportDisjoint ==
    \A row, other \in registry :
        /\ row.table \in {"coordinate", "equipment"} /\ other.table = row.table
        /\ row # other
        /\ row.key[1] = other.key[1] /\ row.key[2] = other.key[2]
        => ~Overlap(row.data, other.data)

\* A package whose histories the registry keeps as they are written.
Canonical(pkg) ==
    \A rows \in {pkg.coordinates, pkg.equipment} :
        /\ rows # <<>> => pkg.zoned
        /\ \A i, j \in DOMAIN rows : i < j => rows[i].from < rows[j].from
        /\ \A i \in DOMAIN rows : rows[i].value % 10 = 0

\* Whatever was reported as imported stays registered with the values and
\* the file digests it was imported with: no later or concurrent import
\* overwrites it, and none is reported against data it disagrees with.
ReportsRegistered == \A rep \in reports : Registered(rep.pkg, rep.shas)

\* Importing is idempotent: a canonical package that was imported before, from
\* the same files, is in conflict only if something else was imported as well,
\* or the same package twice at once.
AgainAccepted ==
    \A p \in Importers :
        LET r == run[p]
        IN  /\ r.phase = "ended" /\ r.outcome = "conflict"
            /\ Canonical(r.pkg) /\ (r.pkg.station.span => r.pkg.zoned)
            /\ [pkg |-> r.pkg, shas |-> r.shas] \in r.before
            => \/ \E rep \in reports : rep.pkg # r.pkg \/ rep.shas # r.shas
               \/ \E row, other \in registry :
                     /\ row.table = other.table /\ row.table \in {"coordinate", "equipment"}
                     /\ row # other /\ row.data = other.data

\* A report can be relied on: what it names stays registered (ReportsRegistered),
\* and importing it again is no conflict (AgainAccepted).
ReportedStands == ReportsRegistered /\ AgainAccepted

\* Every import ends, however the waits for unique keys are entangled.
ImportEnds ==
    \A p \in Importers :
        run[p].phase \in {"resolve", "select", "insert"} ~> run[p].phase = "ended"

\* "Coordinate validity intervals for the same station must not overlap."
\* Two imports that both find the station without coordinates both insert.
HistoriesDisjoint ==
    \A row, other \in registry :
        /\ row.table = "coordinate" /\ other.table = "coordinate"
        /\ row # other /\ row.key[1] = other.key[1]
        => ~Overlap(row.data, other.data)
=============================================================================
