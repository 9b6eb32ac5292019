------------------------ MODULE StationRegistryProofs ------------------------
(***************************************************************************)
(* Imports are whole, what they reported stays registered and can be       *)
(* relied on, and the histories one import writes do not overlap, for any  *)
(* number of importers, any packages and any changes of the source files.  *)
(***************************************************************************)
EXTENDS StationRegistry, FiniteSetTheorems, WellFoundedInduction, TLAPS

\* An import that has begun and has not ended.
Active(r) == r.phase \in {"resolve", "select", "insert"}

Running(r) ==
    /\ r = [phase |-> r.phase, pkg |-> r.pkg, at |-> r.at, shas |-> r.shas,
            pending |-> r.pending, serial |-> r.serial, before |-> r.before]
    /\ r.pkg \in Packages
    /\ r.at \in Nat \ {0}
    /\ r.phase # "resolve" => r.at <= Len(r.pkg.sources) + 5
    /\ r.phase = "resolve" => r.pending = {}

\* What the columns make of a row: the rest of it follows from the key or is
\* compared when it is read.
ColumnsKeep(row) ==
    /\ row.table \in {"source", "provider", "station"} =>
          row = [table |-> row.table, key |-> row.key, data |-> row.data]
    /\ row.table = "source" => row.data = None
    /\ row.table \in {"station", "coordinate", "equipment"} => row.data.zoned = TRUE
    /\ row.table \in {"coordinate", "equipment"} => row.data.value = Stored(row.data.value)

KeptIn(pkg, shas, table, rows, V) ==
    \A i \in DOMAIN rows : \E row \in V :
        /\ row.table = table /\ row.key[1] = StationKey(pkg)
        /\ row.data = Kept(pkg, shas, rows[i])

\* Every statement before the current one has left its rows in V.
Done(pkg, shas, at, V) ==
    LET n == Len(pkg.sources)
    IN  /\ \A i \in DOMAIN pkg.sources : i < at => SourceRow(pkg, shas, pkg.sources[i]) \in V
        /\ at > n + 1 => ProviderRow(pkg, shas) \in V
        /\ at > n + 2 => StationRow(pkg, shas, TRUE) \in V
        /\ at > n + 3 => KeptIn(pkg, shas, "coordinate", pkg.coordinates, V)
        /\ at > n + 4 => KeptIn(pkg, shas, "equipment", pkg.equipment, V)

DoneBy(r, V) == Done(r.pkg, r.shas, r.at, V)

ImportInvAt(p) ==
    /\ Active(run[p]) => Running(run[p])
    /\ InTransaction(p) => DoneBy(run[p], Visible(p))
    /\ \A row \in Pending(p) : ColumnsKeep(row)

ImportInv ==
    /\ DOMAIN run = Importers
    /\ \A row \in registry : ColumnsKeep(row)
    /\ \A p \in Importers : ImportInvAt(p)

-----------------------------------------------------------------------------
LEMMA StoredTwice == \A v \in Int : Stored(Stored(v)) = Stored(v) /\ Stored(v) \in Int
<1> SUFFICES ASSUME NEW v \in Int
             PROVE  Stored(Stored(v)) = Stored(v) /\ Stored(v) \in Int
  OBVIOUS
<1>1. ASSUME NEW q \in Int PROVE (q * 10 + 5) \div 10 = q
  OBVIOUS
<1>2. CASE v >= 0
  <2>1. PICK q \in Int : q = (v + 5) \div 10
    OBVIOUS
  <2>2. q >= 0 /\ Stored(v) = q * 10
    BY <1>2, <2>1 DEF Stored
  <2>3. QED
    BY <2>2, <1>1 DEF Stored
<1>3. CASE ~(v >= 0)
  <2>1. PICK q \in Int : q = (-v + 5) \div 10
    OBVIOUS
  <2>2. q >= 0 /\ Stored(v) = -(q * 10)
    BY <1>3, <2>1 DEF Stored
  <2>3. CASE q = 0
    BY <2>2, <2>3, <1>1 DEF Stored
  <2>4. CASE q > 0
    <3>1. Stored(Stored(v)) = -(((q * 10 + 5) \div 10) * 10)
      BY <2>2, <2>4 DEF Stored
    <3>2. QED
      BY <3>1, <2>2, <1>1
  <2>5. QED
    BY <2>2, <2>3, <2>4
<1>4. QED
  BY <1>2, <1>3

\* Rows are only added, so what is done stays done.
LEMMA DoneGrows ==
  ASSUME NEW pkg, NEW shas, NEW at, NEW V, NEW W, V \subseteq W, Done(pkg, shas, at, V)
  PROVE  Done(pkg, shas, at, W)
BY DEF Done, KeptIn

\* Where an import is tells which statement is next.
LEMMA StatementAt ==
  ASSUME ImportInv, NEW p \in Importers, InTransaction(p)
  PROVE  LET n == Len(run[p].pkg.sources)
             at == run[p].at
         IN  /\ n \in Nat /\ at \in Nat \ {0}
             /\ DOMAIN run[p].pkg.sources = 1..n
             /\ Statement(p) = "source" <=> at <= n
             /\ Statement(p) = "provider" <=> at = n + 1
             /\ Statement(p) = "station" <=> at = n + 2
             /\ Statement(p) = "coordinate" <=> at = n + 3
             /\ Statement(p) = "equipment" <=> at = n + 4
             /\ Statement(p) = "commit" <=> at > n + 4
<1>1. Running(run[p])
  BY DEF ImportInv, ImportInvAt, InTransaction, Active
<1>2. /\ Len(run[p].pkg.sources) \in Nat /\ run[p].at \in 1..(Len(run[p].pkg.sources) + 5)
      /\ DOMAIN run[p].pkg.sources = 1..Len(run[p].pkg.sources)
  BY <1>1, PackagesAssumption DEF Running, InTransaction
<1> DEFINE n == Len(run[p].pkg.sources)
           at == run[p].at
           later == <<"provider", "station", "coordinate", "equipment", "commit">>
<1>3. /\ later[1] = "provider" /\ later[2] = "station" /\ later[3] = "coordinate"
      /\ later[4] = "equipment" /\ later[5] = "commit"
  OBVIOUS
<1>4. Statement(p) = IF at <= n THEN "source" ELSE later[at - n]
  BY DEF Statement
<1> HIDE DEF n, at, later
<1>5. n \in Nat /\ at \in 1..(n + 5)
  BY <1>2 DEF n, at
<1>6. at <= n => Statement(p) = "source"
  BY <1>4
<1>7. /\ at = n + 1 => at - n = 1 /\ ~(at <= n)
      /\ at = n + 2 => at - n = 2 /\ ~(at <= n)
      /\ at = n + 3 => at - n = 3 /\ ~(at <= n)
      /\ at = n + 4 => at - n = 4 /\ ~(at <= n)
      /\ at = n + 5 => at - n = 5 /\ ~(at <= n)
      /\ at <= n \/ at = n + 1 \/ at = n + 2 \/ at = n + 3 \/ at = n + 4 \/ at = n + 5
  BY <1>5
<1>8. /\ at = n + 1 => Statement(p) = "provider"
      /\ at = n + 2 => Statement(p) = "station"
      /\ at = n + 3 => Statement(p) = "coordinate"
      /\ at = n + 4 => Statement(p) = "equipment"
      /\ at = n + 5 => Statement(p) = "commit"
  BY <1>3, <1>4, <1>7
<1>9. /\ n \in Nat /\ at \in Nat \ {0}
      /\ Statement(p) = "source" <=> at <= n
      /\ Statement(p) = "provider" <=> at = n + 1
      /\ Statement(p) = "station" <=> at = n + 2
      /\ Statement(p) = "coordinate" <=> at = n + 3
      /\ Statement(p) = "equipment" <=> at = n + 4
      /\ Statement(p) = "commit" <=> at > n + 4
  BY <1>5, <1>6, <1>7, <1>8
<1>10. QED
  BY <1>2, <1>9 DEF n, at

\* A keyed row that is visible or inserted completes its statement.
LEMMA RowDone ==
  ASSUME ImportInv, NEW p \in Importers, InTransaction(p),
         Statement(p) \in {"source", "provider", "station"},
         NEW V, Visible(p) \subseteq V, Row(p) \in V
  PROVE  Done(run[p].pkg, run[p].shas, run[p].at + 1, V)
<1> DEFINE pkg == run[p].pkg
           shas == run[p].shas
           at == run[p].at
           n == Len(pkg.sources)
<1>1. Done(pkg, shas, at, V)
  BY DoneGrows DEF ImportInv, ImportInvAt, DoneBy
<1>2. /\ n \in Nat /\ at \in Nat \ {0}
      /\ Statement(p) = "source" <=> at <= n
      /\ Statement(p) = "provider" <=> at = n + 1
      /\ Statement(p) = "station" <=> at = n + 2
      /\ DOMAIN pkg.sources = 1..n
  BY StatementAt
<1>3. /\ at <= n => Row(p) = SourceRow(pkg, shas, pkg.sources[at])
      /\ at = n + 1 => Row(p) = ProviderRow(pkg, shas)
      /\ at = n + 2 => Row(p) = StationRow(pkg, shas, TRUE)
  BY <1>2 DEF Row
<1> HIDE DEF pkg, shas, at
<1>4. at <= n + 2
  BY <1>2
<1>5. \A i \in DOMAIN pkg.sources : i < at + 1 => SourceRow(pkg, shas, pkg.sources[i]) \in V
  BY <1>1, <1>2, <1>3 DEF Done
<1>6. at + 1 > n + 1 => ProviderRow(pkg, shas) \in V
  BY <1>1, <1>2, <1>3 DEF Done
<1>7. at + 1 > n + 2 => StationRow(pkg, shas, TRUE) \in V
  <2>1. at + 1 > n + 2 => at = n + 2
    BY <1>2, <1>4
  <2>2. QED
    BY <2>1, <1>3, Zenon
<1>8. ~(at + 1 > n + 3) /\ ~(at + 1 > n + 4)
  BY <1>2, <1>4
<1>9. Done(pkg, shas, at + 1, V)
  BY <1>5, <1>6, <1>7, <1>8 DEF Done
<1>10. QED
  BY <1>9 DEF pkg, shas, at

\* So does a history whose rows are all there.
LEMMA HistoryDone ==
  ASSUME ImportInv, NEW p \in Importers, InTransaction(p),
         Statement(p) \in {"coordinate", "equipment"},
         NEW V, Visible(p) \subseteq V,
         KeptIn(run[p].pkg, run[p].shas, Statement(p), History(p), V)
  PROVE  Done(run[p].pkg, run[p].shas, run[p].at + 1, V)
<1> DEFINE pkg == run[p].pkg
           shas == run[p].shas
           at == run[p].at
           n == Len(pkg.sources)
<1>1. Done(pkg, shas, at, V)
  BY DoneGrows DEF ImportInv, ImportInvAt, DoneBy
<1>2. /\ n \in Nat /\ at \in Nat \ {0}
      /\ Statement(p) = "coordinate" <=> at = n + 3
      /\ Statement(p) = "equipment" <=> at = n + 4
      /\ DOMAIN pkg.sources = 1..n
  BY StatementAt
<1>3. /\ at = n + 3 => KeptIn(pkg, shas, "coordinate", pkg.coordinates, V)
      /\ at = n + 4 => KeptIn(pkg, shas, "equipment", pkg.equipment, V)
  BY <1>2 DEF History
<1> HIDE DEF pkg, shas, at
<1>4. at = n + 3 \/ at = n + 4
  BY <1>2
<1>5. \A i \in DOMAIN pkg.sources : i < at + 1 => SourceRow(pkg, shas, pkg.sources[i]) \in V
  BY <1>1, <1>2, <1>4 DEF Done
<1>6. ProviderRow(pkg, shas) \in V /\ StationRow(pkg, shas, TRUE) \in V
  <2>1. at > n + 1 /\ at > n + 2
    BY <1>2, <1>4
  <2>2. QED
    BY <1>1, <2>1, Zenon DEF Done
<1>7. /\ KeptIn(pkg, shas, "coordinate", pkg.coordinates, V)
      /\ at + 1 > n + 4 => KeptIn(pkg, shas, "equipment", pkg.equipment, V)
  BY <1>1, <1>2, <1>3, <1>4 DEF Done
<1>8. Done(pkg, shas, at + 1, V)
  BY <1>5, <1>6, <1>7 DEF Done
<1>9. QED
  BY <1>8 DEF pkg, shas, at

-----------------------------------------------------------------------------
\* A row that agrees with the package is the row the package would insert.
LEMMA AgreedRow ==
  ASSUME ImportInv, NEW p \in Importers, InTransaction(p),
         Statement(p) \in {"source", "provider", "station"},
         NEW found \in Found(p), Agrees(p, found)
  PROVE  Row(p) \in Visible(p)
<1>1. found \in Visible(p) /\ found.table = Row(p).table /\ ColumnsKeep(found)
  BY DEF Found, ImportInv, ImportInvAt, Visible
<1>2. CASE Statement(p) = "source"
  <2>1. Row(p) = [table |-> "source", key |-> Row(p).key, data |-> None]
    BY <1>2 DEF Row, SourceRow
  <2>2. found.key = Row(p).key
    BY <1>1, <2>1 DEF Agrees
  <2>3. found = [table |-> "source", key |-> found.key, data |-> None]
    BY <1>1, <2>1 DEF ColumnsKeep
  <2>4. QED
    BY <1>1, <2>1, <2>2, <2>3
<1>3. CASE Statement(p) = "provider"
  <2>1. Row(p) = [table |-> "provider", key |-> Row(p).key, data |-> Row(p).data]
    BY <1>3 DEF Row, ProviderRow
  <2>2. found.key = Row(p).key /\ found.data = Row(p).data
    BY <1>1, <2>1 DEF Agrees, Found
  <2>3. found = [table |-> "provider", key |-> found.key, data |-> found.data]
    BY <1>1, <2>1 DEF ColumnsKeep
  <2>4. QED
    BY <1>1, <2>1, <2>2, <2>3
<1>4. CASE Statement(p) = "station"
  <2>1. Row(p) = StationRow(run[p].pkg, run[p].shas, TRUE)
    BY <1>4 DEF Row
  <2>2. Row(p).table = "station"
    BY <2>1 DEF StationRow
  <2>3. /\ found.key = Row(p).key
        /\ found.data = StationRow(run[p].pkg, run[p].shas, run[p].pkg.zoned).data
    BY <1>1, <2>2 DEF Agrees, Found
  <2>4. /\ found = [table |-> "station", key |-> found.key, data |-> found.data]
        /\ found.data.zoned = TRUE
    BY <1>1, <2>2 DEF ColumnsKeep
  <2>5. (run[p].pkg.station.span => run[p].pkg.zoned) = TRUE
    <3>1. StationRow(run[p].pkg, run[p].shas, run[p].pkg.zoned).data.zoned
            = (run[p].pkg.station.span => run[p].pkg.zoned)
      BY DEF StationRow
    <3>2. QED
      BY <2>3, <2>4, <3>1, Zenon
  <2>6. found.data = Row(p).data
    BY <2>1, <2>3, <2>5 DEF StationRow
  <2>7. QED
    BY <1>1, <2>1, <2>3, <2>4, <2>6 DEF StationRow
<1>5. QED
  BY <1>2, <1>3, <1>4

\* A history that is the same in the registry is the one the columns keep.
LEMMA SameHistoryKept ==
  ASSUME ImportInv, NEW p \in Importers, InTransaction(p),
         Statement(p) \in {"coordinate", "equipment"}, SameHistory(p)
  PROVE  KeptIn(run[p].pkg, run[p].shas, Statement(p), History(p), Visible(p))
<1> SUFFICES ASSUME NEW i \in DOMAIN History(p)
             PROVE  \E row \in Visible(p) :
                      /\ row.table = Statement(p) /\ row.key[1] = StationKey(run[p].pkg)
                      /\ row.data = Kept(run[p].pkg, run[p].shas, History(p)[i])
  BY DEF KeptIn
<1>1. PICK row \in Existing(p) : row.data = Expected(run[p].pkg, run[p].shas, History(p)[i])
  BY DEF SameHistory
<1>2. row \in Visible(p) /\ row.table = Statement(p) /\ row.key[1] = StationKey(run[p].pkg)
  BY DEF Existing
<1>3. row.data.zoned = TRUE /\ row.data.value = Stored(row.data.value)
  BY <1>2 DEF ImportInv, ImportInvAt, Visible, ColumnsKeep
<1>4. Expected(run[p].pkg, run[p].shas, History(p)[i])
        = Kept(run[p].pkg, run[p].shas, History(p)[i])
  <2> DEFINE r == History(p)[i]
             e == Expected(run[p].pkg, run[p].shas, r)
  <2>1. /\ e = [from |-> r.from, to |-> r.to, value |-> r.value, zoned |-> run[p].pkg.zoned,
                source |-> SourceId(run[p].pkg, run[p].shas, r.source)]
        /\ e.zoned = TRUE /\ e.value = Stored(e.value)
    <3>1. e.zoned = TRUE /\ e.value = Stored(e.value)
      BY <1>1, <1>3
    <3> QED
      BY <3>1 DEF Expected, HistoryData
  <2>2. r.value = Stored(r.value) /\ run[p].pkg.zoned = TRUE
    <3>1. e.value = r.value /\ e.zoned = run[p].pkg.zoned
      BY DEF Expected, HistoryData
    <3> HIDE DEF e
    <3> QED
      BY <2>1, <3>1
  <2>3. QED
    BY <2>1, <2>2 DEF Kept, HistoryData
<1>5. QED
  BY <1>1, <1>2, <1>4

\* The rows that are inserted are what the columns keep of them.
LEMMA InsertedRow ==
  ASSUME NEW p, Statement(p) \in {"source", "provider", "station"}
  PROVE  ColumnsKeep(Row(p))
BY DEF Row, SourceRow, ProviderRow, StationRow, ColumnsKeep

LEMMA InsertedHistory ==
  ASSUME ImportInv, NEW p \in Importers, InTransaction(p),
         Statement(p) \in {"coordinate", "equipment"}
  PROVE  /\ \A row \in HistoryRows(p, Statement(p), History(p)) : ColumnsKeep(row)
         /\ KeptIn(run[p].pkg, run[p].shas, Statement(p), History(p),
                   HistoryRows(p, Statement(p), History(p)))
<1>1. \A i \in DOMAIN History(p) : History(p)[i].value \in Int
  BY PackagesAssumption DEF ImportInv, ImportInvAt, InTransaction, Active, Running, History
<1>2. ASSUME NEW i \in DOMAIN History(p)
      PROVE  LET data == Kept(run[p].pkg, run[p].shas, History(p)[i])
             IN  data.zoned = TRUE /\ data.value = Stored(data.value)
  BY <1>1, StoredTwice DEF Kept, HistoryData
<1> DEFINE table == Statement(p)
           rows == History(p)
           Inserted(i) == [table |-> table, key |-> <<StationKey(run[p].pkg), run[p].serial, i>>,
                           data |-> Kept(run[p].pkg, run[p].shas, rows[i])]
<1>3. HistoryRows(p, table, rows) = {Inserted(i) : i \in DOMAIN rows}
  BY DEF HistoryRows
<1>4. \A i \in DOMAIN rows : ColumnsKeep(Inserted(i))
  BY <1>2 DEF ColumnsKeep
<1>5. \A i \in DOMAIN rows : Inserted(i).table = table
                             /\ Inserted(i).key[1] = StationKey(run[p].pkg)
                             /\ Inserted(i).data = Kept(run[p].pkg, run[p].shas, rows[i])
  OBVIOUS
<1> HIDE DEF table, rows, Inserted
<1>6. KeptIn(run[p].pkg, run[p].shas, table, rows, {Inserted(i) : i \in DOMAIN rows})
  BY <1>5 DEF KeptIn
<1>7. QED
  BY <1>3, <1>4, <1>6 DEF table, rows

-----------------------------------------------------------------------------
\* Of a step that moves p alone and only adds rows to the registry, what
\* remains to be shown is about p.
LEMMA OneMoves ==
  ASSUME ImportInv, NEW p \in Importers,
         DOMAIN run' = Importers, \A q \in Importers \ {p} : run'[q] = run[q],
         registry \subseteq registry', \A row \in registry' : ColumnsKeep(row),
         ImportInvAt(p)'
  PROVE  ImportInv'
<1> SUFFICES ASSUME NEW q \in Importers, q # p
             PROVE  ImportInvAt(q)'
  BY DEF ImportInv
<1>1. ImportInvAt(q) /\ run'[q] = run[q]
  BY DEF ImportInv
<1>2. (InTransaction(q)' <=> InTransaction(q)) /\ Pending(q)' = Pending(q)
  BY <1>1 DEF InTransaction, Pending
<1>3. Visible(q) \subseteq Visible(q)'
  BY <1>2 DEF Visible
<1>4. InTransaction(q) => DoneBy(run[q], Visible(q)')
  BY <1>1, <1>3, DoneGrows DEF ImportInvAt, DoneBy
<1>5. QED
  BY <1>1, <1>2, <1>4 DEF ImportInvAt

\* An import that ends holds nothing.
LEMMA Ended ==
  ASSUME ImportInv, NEW p \in Importers, NEW outcome, End(p, outcome),
         registry \subseteq registry', \A row \in registry' : ColumnsKeep(row)
  PROVE  ImportInv'
<1>1. DOMAIN run' = Importers /\ \A q \in Importers \ {p} : run'[q] = run[q]
  BY DEF ImportInv, End
<1>2. run'[p].phase = "ended"
  BY DEF ImportInv, End
<1>3. ImportInvAt(p)'
  BY <1>2 DEF ImportInvAt, Active, InTransaction, Pending
<1>4. QED
  BY <1>1, <1>3, OneMoves

\* A statement that finds or inserts what it needs moves its import on.
LEMMA MovedOn ==
  ASSUME ImportInv, NEW p \in Importers, InTransaction(p), Statement(p) # "commit",
         NEW rows, \A row \in rows : ColumnsKeep(row),
         DOMAIN run' = Importers, \A q \in Importers \ {p} : run'[q] = run[q],
         run'[p] = [phase |-> "select", pkg |-> run[p].pkg, at |-> run[p].at + 1,
                    shas |-> run[p].shas, pending |-> run[p].pending \cup rows,
                    serial |-> run[p].serial, before |-> run[p].before],
         registry' = registry,
         Done(run[p].pkg, run[p].shas, run[p].at + 1, Visible(p) \cup rows)
  PROVE  ImportInv'
<1>1. Running(run[p]) /\ \A row \in run[p].pending : ColumnsKeep(row)
  BY DEF ImportInv, ImportInvAt, InTransaction, Active, Pending
<1>2. run[p].at \in Nat \ {0} /\ run[p].at <= Len(run[p].pkg.sources) + 4
  BY StatementAt
<1>3. Running(run'[p])
  BY <1>1, <1>2, PackagesAssumption DEF Running
<1>4. Pending(p)' = run[p].pending \cup rows /\ Visible(p)' = Visible(p) \cup rows
  BY DEF Pending, Visible, InTransaction
<1>5. DoneBy(run'[p], Visible(p)')
  BY <1>4 DEF DoneBy
<1>6. ImportInvAt(p)'
  BY <1>1, <1>3, <1>4, <1>5 DEF ImportInvAt
<1>7. \A row \in registry' : ColumnsKeep(row)
  BY DEF ImportInv
<1>8. QED
  BY <1>6, <1>7, OneMoves

\* One that finds nothing will insert.
LEMMA Inserts ==
  ASSUME ImportInv, NEW p \in Importers, run[p].phase = "select",
         run' = [run EXCEPT ![p].phase = "insert"], registry' = registry
  PROVE  ImportInv'
<1>1. Running(run[p]) /\ InTransaction(p) /\ ImportInvAt(p)
  BY DEF ImportInv, ImportInvAt, InTransaction, Active
<1>2. DOMAIN run' = Importers /\ \A q \in Importers \ {p} : run'[q] = run[q]
  BY DEF ImportInv
<1>3. run'[p] = [phase |-> "insert", pkg |-> run[p].pkg, at |-> run[p].at,
                 shas |-> run[p].shas, pending |-> run[p].pending,
                 serial |-> run[p].serial, before |-> run[p].before]
  BY <1>1 DEF ImportInv, Running
<1>4. Running(run'[p])
  BY <1>1, <1>3 DEF Running
<1>5. Pending(p)' = Pending(p) /\ Visible(p)' = Visible(p)
  BY <1>1, <1>3 DEF Pending, Visible, InTransaction
<1>6. DoneBy(run'[p], Visible(p)')
  BY <1>1, <1>3, <1>5 DEF DoneBy, ImportInvAt
<1>7. ImportInvAt(p)'
  BY <1>1, <1>4, <1>5, <1>6 DEF ImportInvAt
<1>8. QED
  BY <1>2, <1>7, OneMoves DEF ImportInv

-----------------------------------------------------------------------------
LEMMA LoadKeeps ==
  ASSUME ImportInv, NEW p \in Importers, NEW pkg \in Packages, Load(p, pkg)
  PROVE  ImportInv'
<1>1. DOMAIN run' = Importers /\ \A q \in Importers \ {p} : run'[q] = run[q]
  BY DEF ImportInv, Load
<1>2. \/ run'[p] = [phase |-> "resolve", pkg |-> pkg, at |-> 1, shas |-> <<>>,
                    pending |-> {}, serial |-> imports, before |-> reports]
      \/ run'[p].phase = "ended"
  BY DEF ImportInv, Load
<1>3. ImportInvAt(p)'
  BY <1>2 DEF ImportInvAt, Active, InTransaction, Pending, Running
<1>4. registry' = registry
  BY DEF Load
<1>5. QED
  BY <1>1, <1>3, <1>4, OneMoves DEF ImportInv

LEMMA ResolveKeeps ==
  ASSUME ImportInv, NEW p \in Importers, Resolve(p)
  PROVE  ImportInv'
<1>1. registry' = registry
  BY Zenon DEF Resolve
<1>2. CASE ~Verified(run[p].pkg.sources[run[p].at])
  <2>1. End(p, "provenance")
    BY <1>2 DEF Resolve
  <2>2. QED
    BY <1>1, <2>1, Ended DEF ImportInv
<1>3. CASE Verified(run[p].pkg.sources[run[p].at])
  <2>1. Running(run[p]) /\ run[p].pending = {} /\ run[p].phase = "resolve"
    BY Zenon DEF Resolve, ImportInv, ImportInvAt, Active, Running
  <2> DEFINE n == Len(run[p].pkg.sources)
  <2>2. n \in Nat /\ run[p].at \in Nat \ {0}
    BY <2>1, PackagesAssumption DEF Running
  <2>3. PICK shas :
          run' = [run EXCEPT ![p].shas = shas,
                             ![p].at = IF @ = n THEN 1 ELSE @ + 1,
                             ![p].phase = IF run[p].at = n THEN "select" ELSE @]
    BY <1>3, Zenon DEF Resolve
  <2>4. DOMAIN run' = Importers /\ \A q \in Importers \ {p} : run'[q] = run[q]
    BY <2>3 DEF ImportInv
  <2>5. run'[p] = [phase |-> IF run[p].at = n THEN "select" ELSE "resolve",
                   pkg |-> run[p].pkg, at |-> IF run[p].at = n THEN 1 ELSE run[p].at + 1,
                   shas |-> shas, pending |-> {}, serial |-> run[p].serial,
                   before |-> run[p].before]
    BY <2>1, <2>3 DEF ImportInv, Running
  <2>6. Running(run'[p]) /\ Pending(p)' = {}
    BY <2>1, <2>2, <2>5 DEF Running, Pending, InTransaction
  <2>7. InTransaction(p)' => DoneBy(run'[p], Visible(p)')
    <3>1. ASSUME NEW V PROVE Done(run[p].pkg, shas, 1, V)
      <4>1. DOMAIN run[p].pkg.sources = 1..n
        BY <2>1, PackagesAssumption DEF Running
      <4>2. \A i \in DOMAIN run[p].pkg.sources : ~(i < 1)
        BY <4>1
      <4>3. ~(1 > n + 1) /\ ~(1 > n + 2) /\ ~(1 > n + 3) /\ ~(1 > n + 4)
        BY <2>2
      <4>4. QED
        BY <4>2, <4>3, Zenon DEF Done
    <3>2. InTransaction(p)' => run'[p].at = 1 /\ run'[p].pkg = run[p].pkg /\ run'[p].shas = shas
      BY <2>5 DEF InTransaction
    <3>3. QED
      BY <3>1, <3>2 DEF DoneBy
  <2>8. ImportInvAt(p)'
    BY <2>6, <2>7 DEF ImportInvAt
  <2>9. QED
    BY <1>1, <2>4, <2>8, OneMoves DEF ImportInv
<1>4. QED
  BY <1>2, <1>3

\* Moving on without a row of one's own.
LEMMA AdvancedTo ==
  ASSUME ImportInv, NEW p \in Importers, InTransaction(p), Statement(p) # "commit",
         Advance(p), registry' = registry,
         Done(run[p].pkg, run[p].shas, run[p].at + 1, Visible(p))
  PROVE  ImportInv'
<1>1. Running(run[p])
  BY DEF ImportInv, ImportInvAt, InTransaction, Active
<1>2. DOMAIN run' = Importers /\ \A q \in Importers \ {p} : run'[q] = run[q]
  BY DEF ImportInv, Advance
<1> DEFINE none == {}
<1>3. /\ \A row \in none : ColumnsKeep(row)
      /\ Visible(p) \cup none = Visible(p) /\ run[p].pending \cup none = run[p].pending
  OBVIOUS
<1> HIDE DEF none
<1>4. run'[p] = [phase |-> "select", pkg |-> run[p].pkg, at |-> run[p].at + 1,
                 shas |-> run[p].shas, pending |-> run[p].pending \cup none,
                 serial |-> run[p].serial, before |-> run[p].before]
  BY <1>1, <1>3 DEF ImportInv, Advance, Running
<1>5. QED
  BY <1>2, <1>3, <1>4, MovedOn

LEMMA Written ==
  ASSUME ImportInv, NEW p \in Importers, InTransaction(p), Statement(p) # "commit",
         NEW rows, \A row \in rows : ColumnsKeep(row), Write(p, rows),
         Done(run[p].pkg, run[p].shas, run[p].at + 1, Visible(p) \cup rows)
  PROVE  ImportInv'
<1>1. Running(run[p])
  BY DEF ImportInv, ImportInvAt, InTransaction, Active
<1>2. DOMAIN run' = Importers /\ \A q \in Importers \ {p} : run'[q] = run[q]
  BY DEF ImportInv, Write
<1>3. run'[p] = [phase |-> "select", pkg |-> run[p].pkg, at |-> run[p].at + 1,
                 shas |-> run[p].shas, pending |-> run[p].pending \cup rows,
                 serial |-> run[p].serial, before |-> run[p].before]
  BY <1>1 DEF ImportInv, Write, Running
<1>4. registry' = registry
  BY DEF Write
<1>5. QED
  BY <1>2, <1>3, <1>4, MovedOn

LEMMA SelectRowKeeps ==
  ASSUME ImportInv, NEW p \in Importers, SelectRow(p)
  PROVE  ImportInv'
<1>1. /\ InTransaction(p) /\ run[p].phase = "select" /\ registry' = registry
      /\ Statement(p) \in {"source", "provider", "station"}
  BY DEF SelectRow, InTransaction
<1>2. CASE run' = [run EXCEPT ![p].phase = "insert"]
  BY <1>1, <1>2, Inserts
<1>3. CASE End(p, "conflict")
  BY <1>1, <1>3, Ended DEF ImportInv
<1>4. ASSUME NEW found \in Found(p), Agrees(p, found), Advance(p)
      PROVE  ImportInv'
  <2>1. Row(p) \in Visible(p)
    BY <1>1, <1>4, AgreedRow
  <2>2. Done(run[p].pkg, run[p].shas, run[p].at + 1, Visible(p))
    BY <1>1, <2>1, RowDone
  <2>3. QED
    BY <1>1, <1>4, <2>2, AdvancedTo
<1>5. QED
  BY <1>2, <1>3, <1>4 DEF SelectRow

LEMMA SelectHistoryKeeps ==
  ASSUME ImportInv, NEW p \in Importers, SelectHistory(p)
  PROVE  ImportInv'
<1>1. /\ InTransaction(p) /\ run[p].phase = "select" /\ registry' = registry
      /\ Statement(p) \in {"coordinate", "equipment"}
  BY DEF SelectHistory, InTransaction
<1>2. CASE run' = [run EXCEPT ![p].phase = "insert"]
  BY <1>1, <1>2, Inserts
<1>3. CASE End(p, "conflict")
  BY <1>1, <1>3, Ended DEF ImportInv
<1>4. CASE SameHistory(p) /\ Advance(p)
  <2>1. KeptIn(run[p].pkg, run[p].shas, Statement(p), History(p), Visible(p))
    BY <1>1, <1>4, SameHistoryKept
  <2>2. Done(run[p].pkg, run[p].shas, run[p].at + 1, Visible(p))
    BY <1>1, <2>1, HistoryDone
  <2>3. QED
    BY <1>1, <1>4, <2>2, AdvancedTo
<1>5. QED
  BY <1>2, <1>3, <1>4 DEF SelectHistory

LEMMA InsertRowKeeps ==
  ASSUME ImportInv, NEW p \in Importers, InsertRow(p)
  PROVE  ImportInv'
<1>1. /\ InTransaction(p)
      /\ Statement(p) \in {"source", "provider", "station"}
  BY DEF InsertRow, InTransaction
<1>2. CASE End(p, "unique") /\ registry' = registry
  BY <1>2, Ended DEF ImportInv
<1>3. CASE Write(p, {Row(p)})
  <2>1. ColumnsKeep(Row(p))
    BY <1>1, InsertedRow
  <2>2. Done(run[p].pkg, run[p].shas, run[p].at + 1, Visible(p) \cup {Row(p)})
    BY <1>1, RowDone
  <2>3. QED
    BY <1>1, <1>3, <2>1, <2>2, Written
<1>4. QED
  BY <1>2, <1>3 DEF InsertRow

LEMMA InsertHistoryKeeps ==
  ASSUME ImportInv, NEW p \in Importers, InsertHistory(p)
  PROVE  ImportInv'
<1> DEFINE rows == HistoryRows(p, Statement(p), History(p))
<1>1. /\ InTransaction(p) /\ Write(p, rows)
      /\ Statement(p) \in {"coordinate", "equipment"}
  BY DEF InsertHistory, InTransaction
<1>2. /\ \A row \in rows : ColumnsKeep(row)
      /\ KeptIn(run[p].pkg, run[p].shas, Statement(p), History(p), rows)
  BY <1>1, InsertedHistory
<1> HIDE DEF rows
<1>3. KeptIn(run[p].pkg, run[p].shas, Statement(p), History(p), Visible(p) \cup rows)
  BY <1>2 DEF KeptIn
<1>4. Done(run[p].pkg, run[p].shas, run[p].at + 1, Visible(p) \cup rows)
  BY <1>1, <1>3, HistoryDone
<1>5. QED
  BY <1>1, <1>2, <1>4, Written

\* A commit adds what p has inserted.
LEMMA CommitKeeps ==
  ASSUME ImportInv, NEW p \in Importers, Commit(p)
  PROVE  ImportInv' /\ registry' = Visible(p) /\ InTransaction(p)
<1>1. InTransaction(p) /\ Pending(p) = run[p].pending /\ registry' = Visible(p)
  BY DEF Commit, InTransaction, Pending, Visible
<1>2. registry \subseteq registry' /\ \A row \in registry' : ColumnsKeep(row)
  BY <1>1 DEF ImportInv, ImportInvAt, Visible
<1>3. End(p, "done")
  BY DEF Commit
<1>4. QED
  BY <1>1, <1>2, <1>3, Ended

-----------------------------------------------------------------------------
LEMMA ImportInvInit == Init => ImportInv
<1> SUFFICES ASSUME Init
             PROVE  ImportInv
  OBVIOUS
<1>1. registry = {} /\ DOMAIN run = Importers /\ \A p \in Importers : run[p].phase = "idle"
  BY DEF Init, Idle
<1>2. QED
  BY <1>1 DEF ImportInv, ImportInvAt, Active, InTransaction, Pending

LEMMA ImportInvStep == ImportInv /\ [Next]_vars => ImportInv'
<1> SUFFICES ASSUME ImportInv, [Next]_vars
             PROVE  ImportInv'
  OBVIOUS
<1>1. ASSUME NEW p \in Importers, NEW pkg \in Packages, Load(p, pkg)
      PROVE  ImportInv'
  BY <1>1, LoadKeeps
<1>2. ASSUME NEW p \in Importers, Fail(p)
      PROVE  ImportInv'
  BY <1>2, Ended DEF Fail, ImportInv
<1>3. ASSUME NEW p \in Importers, Resolve(p)
      PROVE  ImportInv'
  BY <1>3, ResolveKeeps
<1>4. ASSUME NEW p \in Importers, SelectRow(p)
      PROVE  ImportInv'
  BY <1>4, SelectRowKeeps
<1>5. ASSUME NEW p \in Importers, SelectHistory(p)
      PROVE  ImportInv'
  BY <1>5, SelectHistoryKeeps
<1>6. ASSUME NEW p \in Importers, InsertRow(p)
      PROVE  ImportInv'
  BY <1>6, InsertRowKeeps
<1>7. ASSUME NEW p \in Importers, InsertHistory(p)
      PROVE  ImportInv'
  BY <1>7, InsertHistoryKeeps
<1>8. ASSUME NEW p \in Importers, AbortDeadlock(p)
      PROVE  ImportInv'
  BY <1>8, Ended DEF AbortDeadlock, ImportInv
<1>9. ASSUME NEW p \in Importers, Commit(p)
      PROVE  ImportInv'
  BY <1>9, CommitKeeps
<1>10. CASE UNCHANGED <<registry, run>>
  BY <1>10 DEF ImportInv, ImportInvAt, InTransaction, Pending, Visible
<1>11. QED
  BY <1>1, <1>2, <1>3, <1>4, <1>5, <1>6, <1>7, <1>8, <1>9, <1>10
     DEF Next, Step, Rewrite, vars

\* Only a commit touches the registry.
LEMMA OnlyCommits ==
  ASSUME ImportInv, [Next]_vars
  PROVE  registry' = registry \/ \E p \in Importers : Commit(p)
BY Zenon DEF Next, Step, Load, Fail, Resolve, SelectRow, SelectHistory, InsertRow, InsertHistory,
       Write, AbortDeadlock, Rewrite, vars

LEMMA CommitsAreWhole ==
  ASSUME ImportInv, NEW p \in Importers, Commit(p)
  PROVE  /\ registry \subseteq registry' /\ InTransaction(p)
         /\ Registered(run[p].pkg, run[p].shas)'
<1>1. registry' = Visible(p) /\ InTransaction(p)
  BY CommitKeeps
<1>2. DoneBy(run[p], registry') /\ Running(run[p])
  BY <1>1 DEF ImportInv, ImportInvAt, InTransaction, Active
<1>3. run[p].pkg \in Packages /\ run[p].at \in Nat /\ run[p].at > Len(run[p].pkg.sources) + 4
  BY <1>1, <1>2, StatementAt DEF Commit, Running
<1>4. run'[p].pkg = run[p].pkg /\ run'[p].shas = run[p].shas
  BY DEF Commit, End, ImportInv
<1>5. Done(run[p].pkg, run[p].shas, run[p].at, registry')
  BY <1>2 DEF DoneBy
<1>6. ASSUME NEW pkg \in Packages, NEW shas, NEW at \in Nat, at > Len(pkg.sources) + 4,
             Done(pkg, shas, at, registry')
      PROVE  Registered(pkg, shas)'
  <2>1. /\ \A i \in DOMAIN pkg.sources : i < at
        /\ at > Len(pkg.sources) + 1 /\ at > Len(pkg.sources) + 2 /\ at > Len(pkg.sources) + 3
    BY <1>6, PackagesAssumption
  <2>2. QED
    BY <1>6, <2>1 DEF Done, KeptIn, Registered
<1>7. QED
  BY <1>1, <1>3, <1>4, <1>5, <1>6 DEF Visible

-----------------------------------------------------------------------------
LEMMA ImportInvHolds == Spec => []ImportInv
<1>1. Init => ImportInv
  BY ImportInvInit
<1>2. ImportInv /\ [Next]_vars => ImportInv'
  BY ImportInvStep
<1>3. QED
  BY <1>1, <1>2, PTL DEF Spec

\* import_package: whoever else imports, waits, dies or is aborted, the registry
\* changes only by adding everything that one package says.
THEOREM ImportsAreWhole == Spec => ImportsWhole
<1> DEFINE Whole ==
      registry' # registry
        => /\ registry \subseteq registry'
           /\ \E p \in Importers :
                 InTransaction(p) /\ Registered(run[p].pkg, run[p].shas)'
<1>1. ImportInv /\ [Next]_vars => Whole
  BY OnlyCommits, CommitsAreWhole
<1>2. Whole => [Whole]_vars
  OBVIOUS
<1>3. QED
  BY ImportInvHolds, <1>1, <1>2, PTL DEF Spec, ImportsWhole

\* What an import reported stays registered with the values and digests it had,
\* whatever is imported later or at the same time.
THEOREM ReportsStand == Spec => []ReportsRegistered
<1>1. Init => ReportsRegistered
  BY DEF Init, ReportsRegistered
<1>2. ImportInv /\ ReportsRegistered /\ [Next]_vars => ReportsRegistered'
  <2> SUFFICES ASSUME ImportInv, ReportsRegistered, [Next]_vars
               PROVE  ReportsRegistered'
    OBVIOUS
  <2>1. registry \subseteq registry'
    BY OnlyCommits, CommitsAreWhole
  <2>2. \A rep \in reports : Registered(rep.pkg, rep.shas)'
    <3>1. TAKE rep \in reports
    <3>2. Registered(rep.pkg, rep.shas)
      BY DEF ReportsRegistered
    <3> DEFINE pkg == rep.pkg
               shas == rep.shas
    <3> HIDE DEF pkg, shas
    <3>3. /\ \A i \in DOMAIN pkg.sources : SourceRow(pkg, shas, pkg.sources[i]) \in registry'
          /\ ProviderRow(pkg, shas) \in registry'
          /\ StationRow(pkg, shas, TRUE) \in registry'
      BY <2>1, <3>2 DEF Registered, pkg, shas
    <3>4. \A i \in DOMAIN pkg.coordinates : \E row2 \in registry' :
             /\ row2.table = "coordinate" /\ row2.key[1] = StationKey(pkg)
             /\ row2.data = Kept(pkg, shas, pkg.coordinates[i])
      BY <2>1, <3>2 DEF Registered, pkg, shas
    <3>5. \A i \in DOMAIN pkg.equipment : \E row2 \in registry' :
             /\ row2.table = "equipment" /\ row2.key[1] = StationKey(pkg)
             /\ row2.data = Kept(pkg, shas, pkg.equipment[i])
      BY <2>1, <3>2 DEF Registered, pkg, shas
    <3> QED
      BY <3>3, <3>4, <3>5 DEF Registered, pkg, shas
  <2>3. CASE reports' = reports
    BY <2>2, <2>3 DEF ReportsRegistered
  <2>4. ASSUME NEW p \in Importers, Commit(p)
        PROVE  ReportsRegistered'
    <3>1. PICK pkg, shas : /\ pkg = run[p].pkg /\ pkg = run'[p].pkg
                           /\ shas = run[p].shas /\ shas = run'[p].shas
      BY <2>4 DEF Commit, End, ImportInv
    <3>2. reports' = reports \cup {[pkg |-> pkg, shas |-> shas]}
      BY <2>4, <3>1 DEF Commit
    <3>3. Registered(pkg, shas)'
      BY <2>4, <3>1, CommitsAreWhole
    <3>4. \A rep \in reports' : Registered(rep.pkg, rep.shas)'
      BY <2>2, <3>2, <3>3
    <3>5. QED
      BY <3>4 DEF ReportsRegistered
  <2>5. QED
    BY <2>3, <2>4, Zenon DEF Next, Step, Load, Fail, Resolve, SelectRow, SelectHistory, InsertRow,
          InsertHistory, AbortDeadlock, Rewrite, vars
<1>3. QED
  BY <1>1, <1>2, ImportInvHolds, PTL DEF Spec

-----------------------------------------------------------------------------
(* Where the rows of the registry come from.                                *)
HistoryTables == {"coordinate", "equipment"}

ListOf(pkg, table) == IF table = "coordinate" THEN pkg.coordinates ELSE pkg.equipment

HistoryRow(pkg, shas, n, table, i) ==
    [table |-> table, key |-> <<StationKey(pkg), n, i>>,
     data |-> Kept(pkg, shas, ListOf(pkg, table)[i])]

\* A row that the n-th import writes when it imports pkg.
From(pkg, shas, n, row) ==
    \/ \E i \in DOMAIN pkg.sources : row = SourceRow(pkg, shas, pkg.sources[i])
    \/ row = ProviderRow(pkg, shas)
    \/ row = StationRow(pkg, shas, TRUE)
    \/ \E table \in HistoryTables : \E i \in DOMAIN ListOf(pkg, table) :
          row = HistoryRow(pkg, shas, n, table, i)

\* No two imports have the same number, so the rows of one are all of one package.
OriginInv ==
    /\ imports \in Nat
    /\ \A p \in Importers : Active(run[p]) =>
          /\ run[p].serial \in Nat /\ run[p].serial < imports
          /\ ValidPackage(run[p].pkg)
          /\ \A q \in Importers : Active(run[q]) /\ p # q => run[q].serial # run[p].serial
          /\ \A row \in registry : row.table \in HistoryTables => row.key[2] # run[p].serial
    /\ \A p \in Importers : \A row \in Pending(p) :
          From(run[p].pkg, run[p].shas, run[p].serial, row)
    /\ \A row \in registry : row.table \in HistoryTables =>
          row.key[2] \in Nat /\ row.key[2] < imports
    /\ OneImportDisjoint

-----------------------------------------------------------------------------
\* A set of numbers has a least one.
LEMMA LeastNumber ==
  ASSUME NEW N, N \subseteq Nat, N # {}
  PROVE  \E n \in N : \A m \in N : n <= m
<1> DEFINE R == OpToRel(<, Nat)
<1>1. IsWellFoundedOn(R, Nat)
  BY NatLessThanWellFounded, Zenon
<1>2. \A i, j \in Nat : i < j => <<i, j>> \in R
  BY DEF OpToRel
<1> HIDE DEF R
<1>3. \E n \in N : \A m \in N : ~(<<m, n>> \in R)
  BY <1>1, WFMin, Zenon
<1>4. PICK n \in N : \A m \in N : ~(<<m, n>> \in R)
  BY <1>3
<1>5. n \in Nat /\ \A m \in N : m \in Nat /\ ~(m < n)
  BY <1>2, <1>4
<1>6. QED
  BY <1>4, <1>5

Intervals(rows) ==
    /\ Len(rows) \in Nat /\ DOMAIN rows = 1..Len(rows)
    /\ \A i \in DOMAIN rows : rows[i].from \in Nat /\ rows[i].to \in Nat \cup {None}

\* Whatever comes after a row has a neighbour of the row at or before it.
LEMMA NextIn ==
  ASSUME NEW rows, Intervals(rows), NEW i \in DOMAIN rows, NEW j \in DOMAIN rows,
         Before(rows, i, j)
  PROVE  \E k \in DOMAIN rows : <<i, k>> \in Adjacent(rows) /\ rows[k].from <= rows[j].from
<1> DEFINE later == {k \in DOMAIN rows : Before(rows, i, k)}
           starts == {rows[k].from : k \in later}
           first == {k \in later : \A l \in later : rows[k].from <= rows[l].from}
<1>1. \A k \in DOMAIN rows : k \in Nat /\ rows[k].from \in Nat
  BY DEF Intervals
<1>2. j \in later
  OBVIOUS
<1>3. starts \subseteq Nat /\ starts # {}
  BY <1>1, <1>2
<1>4. PICK start \in starts : \A other \in starts : start <= other
  <2> HIDE DEF starts
  <2>1. QED
    BY <1>3, LeastNumber
<1>5. first \subseteq Nat /\ first # {}
  BY <1>1, <1>4
<1>6. PICK k \in first : \A l \in first : k <= l
  <2> HIDE DEF first
  <2>1. QED
    BY <1>5, LeastNumber
<1>7. ~\E l \in DOMAIN rows : Before(rows, i, l) /\ Before(rows, l, k)
  <2> SUFFICES ASSUME NEW l \in DOMAIN rows, l \in later, Before(rows, l, k)
               PROVE  FALSE
    OBVIOUS
  <2>1. rows[k].from <= rows[l].from /\ rows[k].from \in Nat /\ rows[l].from \in Nat
        /\ k \in Nat /\ l \in Nat
    BY <1>1
  <2>2. rows[l].from = rows[k].from /\ l < k
    BY <2>1 DEF Before
  <2>3. l \in first
    BY <2>2
  <2>4. QED
    BY <1>6, <2>1, <2>2, <2>3
<1>8. QED
  BY <1>2, <1>7 DEF Adjacent

\* Comparing neighbours is enough (_reject_overlapping_intervals).
LEMMA NeighboursAreEnough ==
  ASSUME NEW rows, Intervals(rows), NoOverlap(rows),
         NEW i \in DOMAIN rows, NEW j \in DOMAIN rows, i # j
  PROVE  ~Overlap(rows[i], rows[j])
<1>1. ASSUME NEW a \in DOMAIN rows, NEW b \in DOMAIN rows, Before(rows, a, b)
      PROVE  rows[a].to # None /\ ~(rows[b].from < rows[a].to)
  <2>1. PICK k \in DOMAIN rows : <<a, k>> \in Adjacent(rows) /\ rows[k].from <= rows[b].from
    BY <1>1, NextIn
  <2>2. rows[a].to # None /\ rows[k].from >= rows[a].to
    BY <2>1 DEF NoOverlap
  <2>3. rows[a].to \in Nat /\ rows[k].from \in Nat /\ rows[b].from \in Nat
    BY <2>2 DEF Intervals
  <2>4. QED
    BY <2>1, <2>2, <2>3
<1>2. /\ i \in Nat /\ j \in Nat /\ rows[i].from \in Nat /\ rows[j].from \in Nat
  BY DEF Intervals
<1>3. Before(rows, i, j) \/ Before(rows, j, i)
  BY <1>2 DEF Before
<1>4. QED
  BY <1>1, <1>3 DEF Overlap

LEMMA ListsOf ==
  ASSUME NEW pkg \in Packages, NEW table
  PROVE  /\ Intervals(ListOf(pkg, table))
         /\ \A i \in DOMAIN ListOf(pkg, table) : ListOf(pkg, table)[i].value \in Int
         /\ ValidPackage(pkg) => NoOverlap(ListOf(pkg, table))
  BY PackagesAssumption DEF ListOf, Intervals, ValidPackage

-----------------------------------------------------------------------------
LEMMA FromHistory ==
  ASSUME NEW pkg, NEW shas, NEW n, NEW row, From(pkg, shas, n, row), row.table \in HistoryTables
  PROVE  /\ \E i \in DOMAIN ListOf(pkg, row.table) :
               row = HistoryRow(pkg, shas, n, row.table, i)
         /\ row.key[1] = StationKey(pkg) /\ row.key[2] = n
<1>1. PICK table \in HistoryTables :
        \E i \in DOMAIN ListOf(pkg, table) : row = HistoryRow(pkg, shas, n, table, i)
  BY DEF From, SourceRow, ProviderRow, StationRow, HistoryTables
<1>2. PICK i \in DOMAIN ListOf(pkg, table) : row = HistoryRow(pkg, shas, n, table, i)
  BY <1>1
<1>3. row.table = table /\ row.key[1] = StationKey(pkg) /\ row.key[2] = n
  BY <1>2 DEF HistoryRow
<1>4. QED
  BY <1>2, <1>3

\* The rows that one import writes of a history are disjoint.
LEMMA FromDisjoint ==
  ASSUME NEW pkg \in Packages, ValidPackage(pkg), NEW shas, NEW n,
         NEW row, From(pkg, shas, n, row), NEW other, From(pkg, shas, n, other),
         row.table \in HistoryTables, other.table = row.table, row # other
  PROVE  ~Overlap(row.data, other.data)
<1> DEFINE rows == ListOf(pkg, row.table)
<1>1. PICK i \in DOMAIN rows : row = HistoryRow(pkg, shas, n, row.table, i)
  BY FromHistory
<1>2. PICK j \in DOMAIN rows : other = HistoryRow(pkg, shas, n, row.table, j)
  BY FromHistory
<1>3. i # j
  BY <1>1, <1>2
<1>4. ~Overlap(rows[i], rows[j])
  BY <1>3, ListsOf, NeighboursAreEnough
<1>5. /\ row.data = Kept(pkg, shas, rows[i]) /\ other.data = Kept(pkg, shas, rows[j])
  BY <1>1, <1>2 DEF HistoryRow
<1>6. /\ row.data.from = rows[i].from /\ row.data.to = rows[i].to
      /\ other.data.from = rows[j].from /\ other.data.to = rows[j].to
  BY <1>5 DEF Kept, HistoryData
<1>7. QED
  BY <1>4, <1>6 DEF Overlap

LEMMA RowIsFrom ==
  ASSUME ImportInv, NEW p \in Importers, InTransaction(p),
         Statement(p) \in {"source", "provider", "station"}
  PROVE  From(run[p].pkg, run[p].shas, run[p].serial, Row(p))
<1>1. /\ Statement(p) = "source" <=> run[p].at <= Len(run[p].pkg.sources)
      /\ run[p].at \in Nat \ {0} /\ Len(run[p].pkg.sources) \in Nat
      /\ DOMAIN run[p].pkg.sources = 1..Len(run[p].pkg.sources)
  BY StatementAt
<1>2. Statement(p) = "source" => run[p].at \in DOMAIN run[p].pkg.sources
  BY <1>1
<1>3. QED
  BY <1>2 DEF Row, From

LEMMA HistoryIsFrom ==
  ASSUME NEW p, Statement(p) \in {"coordinate", "equipment"},
         NEW row \in HistoryRows(p, Statement(p), History(p))
  PROVE  From(run[p].pkg, run[p].shas, run[p].serial, row)
<1> DEFINE table == Statement(p)
<1>1. History(p) = ListOf(run[p].pkg, table) /\ table \in HistoryTables
  BY DEF History, ListOf, HistoryTables
<1> HIDE DEF table
<1>2. PICK i \in DOMAIN ListOf(run[p].pkg, table) :
        row = HistoryRow(run[p].pkg, run[p].shas, run[p].serial, table, i)
  BY <1>1 DEF HistoryRows, HistoryRow, table
<1>3. QED
  BY <1>1, <1>2 DEF From

-----------------------------------------------------------------------------
\* A step ends its import, or takes it on: it has its package and number, and
\* in its transaction its digests and what it has written as well.
GoesOn(p) ==
    /\ Active(run[p]) /\ Active(run'[p])
    /\ run'[p].pkg = run[p].pkg /\ run'[p].serial = run[p].serial
    /\ run'[p].before = run[p].before
    /\ UNCHANGED <<registry, reports, imports>>

\* What a statement adds to the rows of its transaction.
Keyed(p) == Statement(p) \in {"source", "provider", "station"}

Adds(p, rows) ==
    \/ /\ rows = {} /\ run'[p].phase = "insert" /\ run'[p].at = run[p].at
       /\ Keyed(p) => Found(p) = {}
    \/ rows = {} /\ run'[p].phase = "select" /\ run'[p].at = run[p].at + 1
    \/ /\ rows = {Row(p)} /\ Keyed(p) /\ run[p].phase = "insert"
       /\ run'[p].phase = "select" /\ run'[p].at = run[p].at + 1
    \/ /\ rows = HistoryRows(p, Statement(p), History(p))
       /\ Statement(p) \in {"coordinate", "equipment"}
       /\ run'[p].phase = "select" /\ run'[p].at = run[p].at + 1

WritesOn(p) ==
    /\ GoesOn(p) /\ InTransaction(p) /\ InTransaction(p)'
    /\ run'[p].shas = run[p].shas
    /\ \E rows : /\ Pending(p)' = Pending(p) \cup rows /\ Adds(p, rows)
                 /\ \A row \in rows : From(run[p].pkg, run[p].shas, run[p].serial, row)

LEMMA StepForm ==
  ASSUME ImportInv, NEW p \in Importers, Step(p) \/ Fail(p)
  PROVE  /\ DOMAIN run' = Importers /\ \A q \in Importers \ {p} : run'[q] = run[q]
         /\ imports' = imports /\ Active(run[p])
         /\ \/ \E outcome : End(p, outcome)
            \/ GoesOn(p) /\ run'[p].phase \in {"resolve", "select"} /\ Pending(p)' = {}
            \/ WritesOn(p)
<1>0. Active(run[p])
  BY Zenon DEF Step, Fail, Resolve, SelectRow, SelectHistory, InsertRow, InsertHistory,
         AbortDeadlock, Victim, Waits, Commit, Active
<1>1. CASE \E outcome : End(p, outcome)
  <2>1. imports' = imports
    BY Zenon DEF Step, Fail, Resolve, SelectRow, SelectHistory, InsertRow, InsertHistory,
           AbortDeadlock, Commit
  <2>2. QED
    BY <1>0, <1>1, <2>1, Zenon DEF End, ImportInv
<1>2. CASE Resolve(p) /\ ~\E outcome : End(p, outcome)
  <2>1. Running(run[p]) /\ run[p].pending = {} /\ run[p].phase = "resolve" /\ Active(run[p])
    BY <1>2, Zenon DEF Resolve, ImportInv, ImportInvAt, Active, Running
  <2>2. PICK shas, at, phase :
          /\ run' = [run EXCEPT ![p].shas = shas, ![p].at = at, ![p].phase = phase]
          /\ phase \in {"resolve", "select"}
    <3>1. PICK shas :
          run' = [run EXCEPT ![p].shas = shas,
                             ![p].at = IF @ = Len(run[p].pkg.sources) THEN 1 ELSE @ + 1,
                             ![p].phase = IF run[p].at = Len(run[p].pkg.sources)
                                          THEN "select" ELSE @]
      BY <1>2, Zenon DEF Resolve
    <3>2. run' = [run EXCEPT ![p].shas = shas,
                  ![p].at = IF run[p].at = Len(run[p].pkg.sources) THEN 1 ELSE run[p].at + 1,
                  ![p].phase = IF run[p].at = Len(run[p].pkg.sources)
                               THEN "select" ELSE run[p].phase]
      BY <3>1, <2>1 DEF Running, ImportInv
    <3>3. QED
      BY <3>2, <2>1, Zenon
  <2>3. DOMAIN run' = Importers /\ \A q \in Importers \ {p} : run'[q] = run[q]
    BY <2>2 DEF ImportInv
  <2>4. run'[p] = [phase |-> phase, pkg |-> run[p].pkg, at |-> at, shas |-> shas,
                   pending |-> {}, serial |-> run[p].serial, before |-> run[p].before]
    BY <2>1, <2>2, Zenon DEF ImportInv, Running
  <2>5. GoesOn(p)
    <3>1. UNCHANGED <<registry, reports, imports>>
      BY <1>2, Zenon DEF Resolve
    <3>2. Active(run'[p])
      BY <2>2, <2>4 DEF Active
    <3>3. QED
      BY <2>1, <2>4, <3>1, <3>2 DEF GoesOn
  <2>6. Pending(p)' = {}
    BY <2>4 DEF Pending
  <2>7. run'[p].phase \in {"resolve", "select"}
    BY <2>2, <2>4
  <2>8. imports' = imports
    BY <1>2, Zenon DEF Resolve
  <2>9. QED
    BY <1>0, <2>3, <2>5, <2>6, <2>7, <2>8
<1>3. ASSUME InTransaction(p), NEW rows, NEW at, NEW phase \in {"select", "insert"},
             DOMAIN run' = Importers, \A q \in Importers \ {p} : run'[q] = run[q],
             run'[p] = [phase |-> phase, pkg |-> run[p].pkg, at |-> at, shas |-> run[p].shas,
                        pending |-> run[p].pending \cup rows, serial |-> run[p].serial,
                        before |-> run[p].before],
             UNCHANGED <<registry, reports, imports>>, Adds(p, rows),
             \A row \in rows : From(run[p].pkg, run[p].shas, run[p].serial, row)
      PROVE  WritesOn(p)
  <2>1. Active(run[p]) /\ Active(run'[p]) /\ InTransaction(p)'
    BY <1>3 DEF Active, InTransaction
  <2>2. Pending(p) = run[p].pending /\ Pending(p)' = run[p].pending \cup rows
    BY <1>3, <2>1 DEF Pending
  <2>3. QED
    <3>1. GoesOn(p)
      BY <1>3, <2>1 DEF GoesOn
    <3>2. Pending(p)' = Pending(p) \cup rows
      BY <2>2
    <3>3. QED
      BY <1>3, <2>1, <3>1, <3>2 DEF WritesOn
<1>4. CASE InTransaction(p) /\ run' = [run EXCEPT ![p].phase = "insert"]
           /\ UNCHANGED <<registry, reports, imports>> /\ (Keyed(p) => Found(p) = {})
  <2>1. Running(run[p])
    BY <1>4 DEF ImportInv, ImportInvAt, InTransaction, Active
  <2>2. DOMAIN run' = Importers /\ \A q \in Importers \ {p} : run'[q] = run[q]
    BY <1>4 DEF ImportInv
  <2> DEFINE none == {}
  <2>3. run[p].pending \cup none = run[p].pending /\ none = {} /\ \A row \in none : FALSE
    OBVIOUS
  <2> HIDE DEF none
  <2>4. run'[p] = [phase |-> "insert", pkg |-> run[p].pkg, at |-> run[p].at,
                   shas |-> run[p].shas, pending |-> run[p].pending \cup none,
                   serial |-> run[p].serial, before |-> run[p].before]
    BY <1>4, <2>1, <2>3 DEF ImportInv, Running
  <2>5. Adds(p, none)
    BY <1>4, <2>3, <2>4 DEF Adds
  <2>6. QED
    BY <1>0, <1>3, <1>4, <2>2, <2>3, <2>4, <2>5
<1>5. CASE InTransaction(p) /\ Advance(p) /\ UNCHANGED <<registry, reports, imports>>
  <2>1. Running(run[p])
    BY <1>5 DEF ImportInv, ImportInvAt, InTransaction, Active
  <2>2. DOMAIN run' = Importers /\ \A q \in Importers \ {p} : run'[q] = run[q]
    BY <1>5 DEF ImportInv, Advance
  <2> DEFINE none == {}
  <2>3. run[p].pending \cup none = run[p].pending /\ none = {} /\ \A row \in none : FALSE
    OBVIOUS
  <2> HIDE DEF none
  <2>4. run'[p] = [phase |-> "select", pkg |-> run[p].pkg, at |-> run[p].at + 1,
                   shas |-> run[p].shas, pending |-> run[p].pending \cup none,
                   serial |-> run[p].serial, before |-> run[p].before]
    BY <1>5, <2>1, <2>3 DEF ImportInv, Advance, Running
  <2>5. Adds(p, none)
    BY <2>3, <2>4 DEF Adds
  <2>6. QED
    BY <1>0, <1>3, <1>5, <2>2, <2>3, <2>4, <2>5
<1>6. ASSUME InTransaction(p), NEW rows, Write(p, rows), UNCHANGED <<reports, imports>>,
             \/ Keyed(p) /\ run[p].phase = "insert" /\ rows = {Row(p)}
             \/ /\ Statement(p) \in {"coordinate", "equipment"}
                /\ rows = HistoryRows(p, Statement(p), History(p)),
             \A row \in rows : From(run[p].pkg, run[p].shas, run[p].serial, row)
      PROVE  /\ DOMAIN run' = Importers /\ \A q \in Importers \ {p} : run'[q] = run[q]
             /\ WritesOn(p)
  <2>1. Running(run[p])
    BY <1>6 DEF ImportInv, ImportInvAt, InTransaction, Active
  <2>2. DOMAIN run' = Importers /\ \A q \in Importers \ {p} : run'[q] = run[q]
    BY <1>6 DEF ImportInv, Write
  <2>3. run'[p] = [phase |-> "select", pkg |-> run[p].pkg, at |-> run[p].at + 1,
                   shas |-> run[p].shas, pending |-> run[p].pending \cup rows,
                   serial |-> run[p].serial, before |-> run[p].before]
    BY <1>6, <2>1 DEF ImportInv, Write, Running
  <2>4. registry' = registry
    BY <1>6 DEF Write
  <2>5. Adds(p, rows)
    BY <1>6, <2>3 DEF Adds
  <2>6. QED
    BY <1>3, <1>6, <2>2, <2>3, <2>4, <2>5
<1>7. CASE SelectRow(p) \/ SelectHistory(p)
  <2>1. InTransaction(p) /\ UNCHANGED <<registry, reports, imports>>
    BY <1>7 DEF SelectRow, SelectHistory, InTransaction
  <2>2. \/ run' = [run EXCEPT ![p].phase = "insert"] /\ (Keyed(p) => Found(p) = {})
        \/ Advance(p)
        \/ \E outcome : End(p, outcome)
    BY <1>7 DEF SelectRow, SelectHistory, Keyed
  <2>3. QED
    BY <1>1, <1>4, <1>5, <2>1, <2>2
<1>8. CASE InsertRow(p)
  <2> DEFINE rows == {Row(p)}
  <2>1. /\ InTransaction(p) /\ UNCHANGED <<reports, imports>>
        /\ Keyed(p) /\ run[p].phase = "insert"
        /\ Write(p, rows) \/ \E outcome : End(p, outcome)
    BY <1>8 DEF InsertRow, InTransaction, Keyed
  <2>2. \A row \in rows : From(run[p].pkg, run[p].shas, run[p].serial, row)
    BY <2>1, RowIsFrom DEF Keyed
  <2>3. CASE Write(p, rows)
    <3>1. rows = {Row(p)} /\ imports' = imports
      BY <2>1
    <3> HIDE DEF rows
    <3>2. QED
      BY <1>0, <1>6, <2>1, <2>2, <2>3, <3>1
  <2>4. QED
    BY <1>1, <2>1, <2>3
<1>9. CASE InsertHistory(p)
  <2> DEFINE rows == HistoryRows(p, Statement(p), History(p))
  <2>1. /\ InTransaction(p) /\ UNCHANGED <<reports, imports>> /\ Write(p, rows)
        /\ Statement(p) \in {"coordinate", "equipment"}
    BY <1>9 DEF InsertHistory, InTransaction
  <2>2. \A row \in rows : From(run[p].pkg, run[p].shas, run[p].serial, row)
    BY <2>1, HistoryIsFrom
  <2>3. rows = HistoryRows(p, Statement(p), History(p)) /\ imports' = imports
    BY <2>1
  <2> HIDE DEF rows
  <2>4. QED
    BY <1>0, <1>6, <2>1, <2>2, <2>3
<1>10. Fail(p) \/ AbortDeadlock(p) \/ Commit(p) => \E outcome : End(p, outcome)
  BY DEF Fail, AbortDeadlock, Commit
<1>11. QED
  BY <1>0, <1>1, <1>2, <1>7, <1>8, <1>9, <1>10 DEF Step

-----------------------------------------------------------------------------
LEMMA OriginInvInit == Init => OriginInv
<1> SUFFICES ASSUME Init
             PROVE  OriginInv
  OBVIOUS
<1>1. registry = {} /\ imports = 0 /\ \A p \in Importers : run[p].phase = "idle"
  BY DEF Init, Idle
<1>2. QED
  BY <1>1 DEF OriginInv, Active, InTransaction, Pending, OneImportDisjoint

\* A step that leaves the registry alone and takes no import up.
LEMMA OriginKept ==
  ASSUME OriginInv, NEW p \in Importers, imports' = imports, registry' = registry,
         \A q \in Importers \ {p} : run'[q] = run[q],
         Active(run'[p]) => /\ Active(run[p]) /\ run'[p].serial = run[p].serial
                            /\ run'[p].pkg = run[p].pkg,
         \A row \in Pending(p)' : From(run'[p].pkg, run'[p].shas, run'[p].serial, row)
  PROVE  OriginInv'
<1>1. OneImportDisjoint'
  BY DEF OriginInv, OneImportDisjoint
<1>2. \A q \in Importers : Active(run'[q]) =>
        Active(run[q]) /\ run'[q].serial = run[q].serial /\ run'[q].pkg = run[q].pkg
  OBVIOUS
<1>3. ASSUME NEW q \in Importers, NEW row \in Pending(q)'
      PROVE  From(run'[q].pkg, run'[q].shas, run'[q].serial, row)
  <2>1. CASE q # p
    <3>1. run'[q] = run[q] /\ Pending(q)' = Pending(q)
      BY <2>1 DEF Pending, InTransaction
    <3>2. QED
      BY <1>3, <3>1 DEF OriginInv
  <2>2. QED
    BY <1>3, <2>1
<1>4. \A q \in Importers : Active(run'[q]) =>
          /\ run'[q].serial \in Nat /\ run'[q].serial < imports'
          /\ ValidPackage(run'[q].pkg)
          /\ \A o \in Importers : Active(run'[o]) /\ q # o => run'[o].serial # run'[q].serial
          /\ \A row \in registry' : row.table \in HistoryTables => row.key[2] # run'[q].serial
  BY <1>2 DEF OriginInv
<1>5. QED
  BY <1>1, <1>3, <1>4 DEF OriginInv

LEMMA OriginCommit ==
  ASSUME ImportInv, OriginInv, NEW p \in Importers, Commit(p)
  PROVE  OriginInv'
<1> DEFINE pkg == run[p].pkg
           n == run[p].serial
<1>1. /\ registry' = registry \cup Pending(p) /\ InTransaction(p) /\ imports' = imports
      /\ Active(run[p]) /\ run[p].pkg \in Packages
      /\ \A q \in Importers \ {p} : run'[q] = run[q]
      /\ run'[p].phase = "ended"
  BY CommitKeeps DEF Visible, Commit, End, ImportInv, ImportInvAt, Running, InTransaction, Active
<1>2. ~Active(run'[p]) /\ Pending(p)' = {}
  BY <1>1 DEF Active, Pending, InTransaction
<1>3. \A row \in Pending(p) : From(pkg, run[p].shas, n, row)
  BY DEF OriginInv
<1>4. n \in Nat /\ n < imports /\ ValidPackage(pkg)
  BY <1>1 DEF OriginInv
<1>5. \A row \in Pending(p) : row.table \in HistoryTables =>
        row.key[1] = StationKey(pkg) /\ row.key[2] = n
  BY <1>3, FromHistory
<1>6. OneImportDisjoint'
  <2> SUFFICES ASSUME NEW row \in registry', NEW other \in registry',
                      row.table \in HistoryTables, other.table = row.table, row # other,
                      row.key[1] = other.key[1], row.key[2] = other.key[2]
               PROVE  ~Overlap(row.data, other.data)
    BY DEF OneImportDisjoint, HistoryTables
  <2>1. CASE row \in registry /\ other \in registry
    BY <2>1 DEF OriginInv, OneImportDisjoint, HistoryTables
  <2>2. CASE row \in Pending(p) /\ other \in Pending(p)
    BY <1>1, <1>3, <1>4, <2>2, FromDisjoint
  <2>3. CASE row \in registry /\ other \in Pending(p)
    BY <1>1, <1>5, <2>3 DEF OriginInv
  <2>4. CASE row \in Pending(p) /\ other \in registry
    BY <1>1, <1>5, <2>4 DEF OriginInv
  <2>5. QED
    BY <1>1, <2>1, <2>2, <2>3, <2>4
<1>7. \A row \in registry' : row.table \in HistoryTables =>
          row.key[2] \in Nat /\ row.key[2] < imports'
  BY <1>1, <1>4, <1>5 DEF OriginInv
<1>8. ASSUME NEW q \in Importers, Active(run'[q])
      PROVE  /\ run'[q].serial \in Nat /\ run'[q].serial < imports'
             /\ ValidPackage(run'[q].pkg)
             /\ \A o \in Importers : Active(run'[o]) /\ q # o => run'[o].serial # run'[q].serial
             /\ \A row \in registry' : row.table \in HistoryTables =>
                                           row.key[2] # run'[q].serial
  <2>1. q # p /\ run'[q] = run[q] /\ Active(run[q])
    BY <1>1, <1>2, <1>8
  <2>2. \A o \in Importers : Active(run'[o]) => o # p /\ run'[o] = run[o]
    BY <1>1, <1>2
  <2>3. \A row \in Pending(p) : row.table \in HistoryTables => row.key[2] # run[q].serial
    BY <1>1, <1>5, <2>1 DEF OriginInv
  <2>4. QED
    BY <1>1, <2>1, <2>2, <2>3 DEF OriginInv
<1>9. ASSUME NEW q \in Importers, NEW row \in Pending(q)'
      PROVE  From(run'[q].pkg, run'[q].shas, run'[q].serial, row)
  <2>1. q # p /\ run'[q] = run[q] /\ Pending(q)' = Pending(q)
    BY <1>1, <1>2, <1>9 DEF Pending, InTransaction
  <2>2. QED
    BY <1>9, <2>1 DEF OriginInv
<1>10. QED
  BY <1>1, <1>6, <1>7, <1>8, <1>9 DEF OriginInv

LEMMA OriginLoad ==
  ASSUME ImportInv, OriginInv, NEW p \in Importers, NEW pkg \in Packages, Load(p, pkg)
  PROVE  OriginInv'
<1>1. /\ \A q \in Importers \ {p} : run'[q] = run[q]
      /\ registry' = registry /\ imports' = imports + 1 /\ imports \in Nat
  BY DEF Load, OriginInv
<1>2. \/ /\ run'[p].phase = "resolve" /\ run'[p].serial = imports
          /\ ValidPackage(pkg) /\ run'[p].pkg = pkg
      \/ run'[p].phase = "ended"
  BY DEF Load, ImportInv
<1>3. Pending(p)' = {}
  BY <1>2 DEF Pending, InTransaction
<1>4. OneImportDisjoint'
  BY <1>1 DEF OriginInv, OneImportDisjoint
<1>5. \A row \in registry' : row.table \in HistoryTables =>
        row.key[2] \in Nat /\ row.key[2] < imports /\ row.key[2] < imports'
  BY <1>1 DEF OriginInv
<1>6. \A q \in Importers \ {p} : Active(run'[q]) => Active(run[q]) /\ run'[q].serial = run[q].serial
                                                   /\ run[q].serial \in Nat /\ run[q].serial < imports
  BY <1>1 DEF OriginInv
<1>7. Active(run'[p]) => run'[p].serial = imports /\ ValidPackage(run'[p].pkg)
  BY <1>2 DEF Active
<1>8. ASSUME NEW q \in Importers, Active(run'[q])
      PROVE  /\ run'[q].serial \in Nat /\ run'[q].serial < imports'
             /\ ValidPackage(run'[q].pkg)
             /\ \A o \in Importers : Active(run'[o]) /\ q # o => run'[o].serial # run'[q].serial
             /\ \A row \in registry' : row.table \in HistoryTables =>
                                           row.key[2] # run'[q].serial
  <2>1. CASE q = p
    BY <1>1, <1>5, <1>6, <1>7, <1>8, <2>1
  <2>2. CASE q # p
    <3>1. \A o \in Importers : Active(run'[o]) /\ q # o => run'[o].serial # run'[q].serial
      BY <1>1, <1>6, <1>7, <1>8, <2>2 DEF OriginInv
    <3>2. QED
      BY <1>1, <1>6, <1>8, <2>2, <3>1 DEF OriginInv
  <2>3. QED
    BY <2>1, <2>2
<1>9. ASSUME NEW q \in Importers, NEW row \in Pending(q)'
      PROVE  From(run'[q].pkg, run'[q].shas, run'[q].serial, row)
  <2>1. q # p /\ run'[q] = run[q] /\ Pending(q)' = Pending(q)
    BY <1>1, <1>3, <1>9 DEF Pending, InTransaction
  <2>2. QED
    BY <1>9, <2>1 DEF OriginInv
<1>10. QED
  BY <1>1, <1>4, <1>5, <1>8, <1>9 DEF OriginInv

\* A step of the environment.
LEMMA OthersWait ==
  ASSUME OriginInv, UNCHANGED <<run, registry, imports>>
  PROVE  OriginInv'
<1>1. \A p \in Importers : Pending(p)' = Pending(p)
  BY DEF Pending, InTransaction
<1>2. OneImportDisjoint'
  BY DEF OriginInv, OneImportDisjoint
<1>3. QED
  BY <1>1, <1>2 DEF OriginInv

LEMMA OriginInvStep == ImportInv /\ OriginInv /\ [Next]_vars => OriginInv'
<1> SUFFICES ASSUME ImportInv, OriginInv, [Next]_vars
             PROVE  OriginInv'
  OBVIOUS
<1>1. ASSUME NEW p \in Importers, Step(p) \/ Fail(p), ~Commit(p)
      PROVE  OriginInv'
  <2>1. registry' = registry
    BY <1>1, Zenon DEF Step, Fail, Resolve, SelectRow, SelectHistory, InsertRow, InsertHistory,
                Write, AbortDeadlock
  <2>2. /\ \A q \in Importers \ {p} : run'[q] = run[q]
        /\ imports' = imports
    BY <1>1, StepForm
  <2>3. ASSUME NEW outcome, End(p, outcome)
        PROVE  OriginInv'
    <3>1. run'[p].phase = "ended"
      BY <2>3 DEF End, ImportInv
    <3>2. ~Active(run'[p]) /\ Pending(p)' = {}
      BY <3>1 DEF Active, Pending, InTransaction
    <3>3. QED
      BY <2>1, <2>2, <3>2, OriginKept
  <2>4. CASE GoesOn(p) /\ Pending(p)' = {}
    BY <2>1, <2>2, <2>4, OriginKept DEF GoesOn
  <2>5. CASE WritesOn(p)
    <3>1. \A row \in Pending(p)' : From(run'[p].pkg, run'[p].shas, run'[p].serial, row)
      BY <2>5 DEF OriginInv, GoesOn, WritesOn
    <3>2. QED
      BY <2>1, <2>2, <2>5, <3>1, OriginKept DEF GoesOn, WritesOn
  <2>6. QED
    BY <1>1, <2>3, <2>4, <2>5, StepForm
<1>2. CASE UNCHANGED vars \/ \E i \in Idents : Rewrite(i)
  BY <1>2, OthersWait DEF vars, Rewrite
<1>3. QED
  BY <1>1, <1>2, OriginCommit, OriginLoad DEF Next, Step

LEMMA OriginInvHolds == Spec => []OriginInv
<1>1. ImportInv /\ OriginInv /\ [Next]_vars => OriginInv'
  BY OriginInvStep
<1>2. QED
  BY <1>1, OriginInvInit, ImportInvHolds, PTL DEF Spec

\* Comparing the neighbours of the sorted rows keeps all rows of one import's
\* history of a station apart (_reject_overlapping_intervals), whatever else is
\* imported.
THEOREM OneImportIsDisjoint == Spec => []OneImportDisjoint
<1>1. OriginInv => OneImportDisjoint
  BY DEF OriginInv
<1>2. QED
  BY <1>1, OriginInvHolds, PTL

-----------------------------------------------------------------------------
(* Why a second import of the same is accepted.                              *)

\* Of every source the rows have one digest.
OneDigest(V) ==
    \A a, b \in V :
        a.table = "source" /\ b.table = "source" /\ a.key[1] = b.key[1] => a.key = b.key

OneReport == \A rep, other \in reports : rep.pkg = other.pkg /\ rep.shas = other.shas

\* A transaction has inserted rows of its earlier statements only, and where
\* nothing is committed one digest of a source.
LaterRows(p) ==
    \A row \in Pending(p) :
        LET n == Len(run[p].pkg.sources)
        IN  /\ row.table = "coordinate" => run[p].at > n + 3
            /\ row.table = "equipment" => run[p].at > n + 4

FirstRows(p) ==
    /\ OneDigest(Pending(p))
    /\ run[p].phase = "insert" /\ Statement(p) = "source" => Found(p) = {}

\* An import that AgainAccepted is about, and what excuses its conflict.
Refused(r) ==
    /\ r.phase = "ended" /\ r.outcome = "conflict"
    /\ Canonical(r.pkg) /\ (r.pkg.station.span => r.pkg.zoned)
    /\ [pkg |-> r.pkg, shas |-> r.shas] \in r.before

Excused(r) ==
    \/ \E rep \in reports : rep.pkg # r.pkg \/ rep.shas # r.shas
    \/ \E row, other \in registry :
          /\ row.table = other.table /\ row.table \in {"coordinate", "equipment"}
          /\ row # other /\ row.data = other.data

\* Every row of the registry is of a report; and while only one thing was
\* reported, a source has one digest there.
AcceptInv ==
    /\ \A p \in Importers : run[p].phase # "idle" => run[p].before \subseteq reports
    /\ \A row \in registry : \E rep \in reports : From(rep.pkg, rep.shas, row.key[2], row)
    /\ OneReport => OneDigest(registry)
    /\ \A p \in Importers : LaterRows(p)
    /\ registry = {} => \A p \in Importers : FirstRows(p)
    /\ \A p \in Importers : Refused(run[p]) => Excused(run[p])

-----------------------------------------------------------------------------
LEMMA FromKeyed ==
  ASSUME NEW pkg, NEW shas, NEW n, NEW row, From(pkg, shas, n, row)
  PROVE  /\ row.table = "provider" => row = ProviderRow(pkg, shas)
         /\ row.table = "station" => row = StationRow(pkg, shas, TRUE)
<1>1. CASE \E i \in DOMAIN pkg.sources : row = SourceRow(pkg, shas, pkg.sources[i])
  BY <1>1 DEF SourceRow
<1>2. CASE row = ProviderRow(pkg, shas)
  BY <1>2 DEF ProviderRow
<1>3. CASE row = StationRow(pkg, shas, TRUE)
  BY <1>3 DEF StationRow
<1>4. CASE \E table \in HistoryTables : \E i \in DOMAIN ListOf(pkg, table) :
             row = HistoryRow(pkg, shas, n, table, i)
  <2>1. row.table \in HistoryTables
    BY <1>4 DEF HistoryRow
  <2>2. QED
    BY <2>1 DEF HistoryTables
<1>5. QED
  BY <1>1, <1>2, <1>3, <1>4 DEF From

LEMMA FromSource ==
  ASSUME NEW pkg, NEW shas, NEW n, NEW row, From(pkg, shas, n, row), row.table = "source"
  PROVE  \E i \in DOMAIN pkg.sources : row = SourceRow(pkg, shas, pkg.sources[i])
<1>1. row # ProviderRow(pkg, shas) /\ row # StationRow(pkg, shas, TRUE)
  BY DEF ProviderRow, StationRow
<1>2. ~\E table \in HistoryTables : \E i \in DOMAIN ListOf(pkg, table) :
         row = HistoryRow(pkg, shas, n, table, i)
  BY DEF HistoryRow, HistoryTables
<1>3. QED
  BY <1>1, <1>2 DEF From

\* Only of a history does the number of the import matter.
LEMMA FromItsKey ==
  ASSUME NEW pkg, NEW shas, NEW n, NEW row, From(pkg, shas, n, row)
  PROVE  From(pkg, shas, row.key[2], row)
<1>1. CASE row.table \in HistoryTables
  <2>1. PICK i \in DOMAIN ListOf(pkg, row.table) :
          row = HistoryRow(pkg, shas, n, row.table, i)
    BY <1>1, FromHistory
  <2>2. n = row.key[2]
    BY <1>1, FromHistory
  <2>3. row = HistoryRow(pkg, shas, row.key[2], row.table, i)
    BY <2>1, <2>2
  <2>4. QED
    BY <1>1, <2>3 DEF From
<1>2. CASE row.table \notin HistoryTables
  <2>1. ~\E table \in HistoryTables : \E i \in DOMAIN ListOf(pkg, table) :
           row = HistoryRow(pkg, shas, n, table, i)
    BY <1>2 DEF HistoryRow
  <2>2. QED
    BY <2>1 DEF From
<1>3. QED
  BY <1>1, <1>2

LEMMA StoredWhole ==
  ASSUME NEW v \in Int, v % 10 = 0
  PROVE  Stored(v) = v
<1>1. PICK q \in Int : v = q * 10
  <2>1. v = (v \div 10) * 10 + (v % 10) /\ v \div 10 \in Int
    OBVIOUS
  <2>2. QED
    BY <2>1
<1>2. ASSUME NEW k \in Int PROVE (k * 10 + 5) \div 10 = k
  OBVIOUS
<1>3. CASE v >= 0
  BY <1>1, <1>2, <1>3 DEF Stored
<1>4. CASE ~(v >= 0)
  <2>1. -v = (-q) * 10 /\ -q \in Int
    BY <1>1
  <2>2. (-v + 5) \div 10 = -q
    BY <1>2, <2>1
  <2>3. QED
    BY <1>1, <1>4, <2>2 DEF Stored
<1>5. QED
  BY <1>3, <1>4

\* A set that a sequence lists, each element once, has the length of the sequence.
LEMMA Listed ==
  ASSUME NEW n \in Nat, NEW S, NEW f \in [1..n -> S],
         \A i, j \in 1..n : f[i] = f[j] => i = j,
         \A x \in S : \E i \in 1..n : f[i] = x
  PROVE  Cardinality(S) = n
<1>1. f \in Bijection(1..n, S)
  BY DEF Bijection, Injection, Surjection, IsInjective
<1>2. ExistsBijection(1..n, S)
  BY <1>1 DEF ExistsBijection
<1>3. QED
  BY <1>2, FS_CountingElements, Zenon

-----------------------------------------------------------------------------
\* Where a package is in conflict that was imported before.
Again(p) ==
    /\ InTransaction(p)
    /\ [pkg |-> run[p].pkg, shas |-> run[p].shas] \in run[p].before

\* If nothing but this was ever reported, all that is seen is of it, and all of
\* it is there.
LEMMA SeenAgain ==
  ASSUME ImportInv, OriginInv, AcceptInv, ReportsRegistered, NEW p \in Importers, Again(p),
         ~\E rep \in reports : rep.pkg # run[p].pkg \/ rep.shas # run[p].shas
  PROVE  /\ \A row \in Visible(p) : \E n : From(run[p].pkg, run[p].shas, n, row)
         /\ Registered(run[p].pkg, run[p].shas)
         /\ OneDigest(registry)
<1>1. \A row \in Pending(p) : From(run[p].pkg, run[p].shas, run[p].serial, row)
  BY DEF OriginInv
<1>2. \A row \in registry : From(run[p].pkg, run[p].shas, row.key[2], row)
  BY DEF AcceptInv
<1>3. \A row \in Visible(p) : \E n : From(run[p].pkg, run[p].shas, n, row)
  BY <1>1, <1>2 DEF Visible
<1>4. [pkg |-> run[p].pkg, shas |-> run[p].shas] \in reports
  BY DEF Again, AcceptInv, InTransaction
<1>5. Registered(run[p].pkg, run[p].shas)
  BY <1>4 DEF ReportsRegistered
<1>6. OneDigest(registry)
  BY DEF AcceptInv, OneReport
<1>7. QED
  BY <1>3, <1>5, <1>6

LEMMA KeyedConflict ==
  ASSUME ImportInv, OriginInv, AcceptInv, ReportsRegistered, NEW p \in Importers, Again(p),
         Statement(p) \in {"source", "provider", "station"},
         run[p].pkg.station.span => run[p].pkg.zoned,
         NEW found \in Found(p), ~Agrees(p, found)
  PROVE  \E rep \in reports : rep.pkg # run[p].pkg \/ rep.shas # run[p].shas
<1> SUFFICES ASSUME ~\E rep \in reports : rep.pkg # run[p].pkg \/ rep.shas # run[p].shas
             PROVE  FALSE
  OBVIOUS
<1> DEFINE pkg == run[p].pkg
           shas == run[p].shas
<1>1. InTransaction(p) /\ found \in Visible(p) /\ found.table = Row(p).table
  BY DEF Again, Found
<1>2. PICK n : From(pkg, shas, n, found)
  BY <1>1, SeenAgain
<1>3. From(pkg, shas, run[p].serial, Row(p))
  BY <1>1, RowIsFrom
<1>4. CASE found.table = "source"
  <2> HIDE DEF pkg, shas
  <2>1. PICK i \in DOMAIN pkg.sources : found = SourceRow(pkg, shas, pkg.sources[i])
    BY <1>2, <1>4, FromSource
  <2> DEFINE row == Row(p)
  <2> HIDE DEF row
  <2>2. PICK j \in DOMAIN pkg.sources : row = SourceRow(pkg, shas, pkg.sources[j])
    <3>1. row.table = "source" /\ From(pkg, shas, run[p].serial, row)
      BY <1>1, <1>3, <1>4 DEF row
    <3>2. QED
      BY <3>1, FromSource
  <2>3. found \in registry /\ row \in registry /\ OneDigest(registry)
    BY <2>1, <2>2, SeenAgain DEF Registered, pkg, shas
  <2>4. row.table = "source" /\ found.key[1] = row.key[1]
    BY <1>1, <1>4 DEF Found, row
  <2>5. found.key = row.key
    BY <1>4, <2>3, <2>4 DEF OneDigest
  <2>6. QED
    BY <1>4, <2>5 DEF Agrees, row
<1>5. CASE found.table = "provider"
  <2> HIDE DEF pkg, shas
  <2>1. found = ProviderRow(pkg, shas) /\ Row(p) = ProviderRow(pkg, shas)
    BY <1>1, <1>2, <1>3, <1>5, FromKeyed
  <2>2. QED
    BY <1>5, <2>1 DEF Agrees
<1>6. CASE found.table = "station"
  <2>1. found = StationRow(pkg, shas, TRUE)
    BY <1>2, <1>6, FromKeyed
  <2>2. (pkg.station.span => pkg.zoned) = (pkg.station.span => TRUE)
    OBVIOUS
  <2>3. found.data = StationRow(pkg, shas, pkg.zoned).data
    BY <2>1, <2>2 DEF StationRow
  <2>4. QED
    BY <1>6, <2>3 DEF Agrees
<1>7. Row(p).table \in {"source", "provider", "station"}
  BY DEF Row, SourceRow, ProviderRow, StationRow
<1>8. QED
  BY <1>1, <1>4, <1>5, <1>6, <1>7

LEMMA HistoryConflict ==
  ASSUME ImportInv, OriginInv, AcceptInv, ReportsRegistered, NEW p \in Importers, Again(p),
         Statement(p) \in {"coordinate", "equipment"}, Canonical(run[p].pkg), ~SameHistory(p)
  PROVE  \/ \E rep \in reports : rep.pkg # run[p].pkg \/ rep.shas # run[p].shas
         \/ \E row, other \in registry :
               /\ row.table = other.table /\ row.table \in {"coordinate", "equipment"}
               /\ row # other /\ row.data = other.data
<1> SUFFICES ASSUME ~\E rep \in reports : rep.pkg # run[p].pkg \/ rep.shas # run[p].shas,
                    \A row, other \in registry :
                       row.table = other.table /\ row.table \in {"coordinate", "equipment"}
                       /\ row.data = other.data => row = other
             PROVE  FALSE
  OBVIOUS
<1> DEFINE pkg == run[p].pkg
           shas == run[p].shas
           table == Statement(p)
           rows == History(p)
           E == Existing(p)
<1>1. InTransaction(p) /\ pkg \in Packages /\ table \in HistoryTables /\ rows = ListOf(pkg, table)
  BY DEF Again, ImportInv, ImportInvAt, Running, InTransaction, Active, HistoryTables, History,
         ListOf
<1>2. /\ Len(rows) \in Nat /\ DOMAIN rows = 1..Len(rows)
      /\ \A i \in DOMAIN rows : rows[i].from \in Nat /\ rows[i].value \in Int
  BY <1>1, ListsOf DEF Intervals
<1>3. /\ \A i, j \in DOMAIN rows : i < j => rows[i].from < rows[j].from
      /\ \A i \in DOMAIN rows : rows[i].value % 10 = 0
      /\ rows # <<>> => pkg.zoned
  BY <1>1 DEF Canonical, ListOf
<1>4. \A i \in DOMAIN rows : Kept(pkg, shas, rows[i]) = Expected(pkg, shas, rows[i])
  <2> SUFFICES ASSUME NEW i \in DOMAIN rows
               PROVE  Kept(pkg, shas, rows[i]) = Expected(pkg, shas, rows[i])
    OBVIOUS
  <2>1. Stored(rows[i].value) = rows[i].value
    BY <1>2, <1>3, StoredWhole
  <2>2. pkg.zoned = TRUE
    <3>1. rows # <<>>
      BY <1>2
    <3>2. pkg.zoned /\ pkg.zoned \in BOOLEAN
      BY <1>1, <1>3, <3>1, PackagesAssumption
    <3>3. QED
      BY <3>2
  <2>3. QED
    BY <2>1, <2>2 DEF Kept, Expected
<1>5. E \subseteq registry /\ \A row \in E : row.table = table /\ row.key[1] = StationKey(pkg)
  <2>1. \A row \in Pending(p) : row.table # table
    BY <1>1, StatementAt DEF AcceptInv, LaterRows, HistoryTables
  <2>2. QED
    BY <2>1 DEF Existing, Visible
<1>6. \A row \in E : \E i \in DOMAIN rows : row.data = Kept(pkg, shas, rows[i])
  <2> SUFFICES ASSUME NEW row \in E
               PROVE  \E i \in DOMAIN rows : row.data = Kept(pkg, shas, rows[i])
    OBVIOUS
  <2>1. PICK n : From(pkg, shas, n, row)
    BY <1>5, SeenAgain DEF Visible
  <2>2. PICK i \in DOMAIN ListOf(pkg, table) : row = HistoryRow(pkg, shas, n, table, i)
    BY <1>1, <1>5, <2>1, FromHistory
  <2>3. QED
    BY <1>1, <2>2 DEF HistoryRow
<1>7. \A i \in DOMAIN rows : \E row \in E : row.data = Kept(pkg, shas, rows[i])
  <2>1. Registered(pkg, shas)
    BY SeenAgain
  <2>2. \A i \in DOMAIN rows : \E row \in registry :
          row.table = table /\ row.key[1] = StationKey(pkg)
          /\ row.data = Kept(pkg, shas, rows[i])
    BY <2>1 DEF Registered, History
  <2>3. QED
    BY <2>2 DEF Existing, Visible
<1>8. \A i, j \in DOMAIN rows : Kept(pkg, shas, rows[i]) = Kept(pkg, shas, rows[j]) => i = j
  <2> SUFFICES ASSUME NEW i \in DOMAIN rows, NEW j \in DOMAIN rows,
                      Kept(pkg, shas, rows[i]) = Kept(pkg, shas, rows[j])
               PROVE  i = j
    OBVIOUS
  <2>1. rows[i].from = rows[j].from
    BY DEF Kept, HistoryData
  <2>2. QED
    BY <1>2, <1>3, <2>1
<1>9. \A row, other \in E : row.data = other.data => row = other
  BY <1>1, <1>5 DEF HistoryTables
<1> DEFINE kept(i) == Kept(pkg, shas, rows[i])
           expected(i) == Expected(pkg, shas, rows[i])
           n == Len(rows)
           f == [i \in 1..n |-> CHOOSE row \in E : row.data = kept(i)]
<1>10. Cardinality(E) = n
  <2> HIDE DEF E, rows, kept
  <2>1. \A i \in 1..n : f[i] \in E /\ f[i].data = kept(i)
    BY <1>2, <1>7 DEF kept
  <2>2. f \in [1..n -> E]
    BY <2>1
  <2>3. \A i, j \in 1..n : f[i] = f[j] => i = j
    BY <1>2, <1>8, <2>1 DEF kept
  <2>4. \A x \in E : \E i \in 1..n : f[i] = x
    BY <1>2, <1>6, <1>9, <2>1 DEF kept
  <2> HIDE DEF f
  <2>5. n \in Nat
    BY <1>2
  <2>6. QED
    BY <2>2, <2>3, <2>4, <2>5, Listed
<1>11. {row.data : row \in E} = {expected(i) : i \in DOMAIN rows}
  BY <1>4, <1>6, <1>7
<1>12. Selected(rows)
  BY <1>3 DEF Selected
<1>13. QED
  BY <1>10, <1>11, <1>12 DEF SameHistory

-----------------------------------------------------------------------------
LEMMA AcceptInvInit == Init => AcceptInv
<1> SUFFICES ASSUME Init
             PROVE  AcceptInv
  OBVIOUS
<1>1. registry = {} /\ reports = {} /\ \A p \in Importers : run[p].phase = "idle"
  BY DEF Init, Idle
<1>2. \A p \in Importers : Pending(p) = {}
  BY <1>1 DEF Pending, InTransaction
<1>3. \A p \in Importers : LaterRows(p) /\ FirstRows(p) /\ ~Refused(run[p])
  BY <1>1, <1>2 DEF LaterRows, FirstRows, OneDigest, Refused
<1>4. QED
  BY <1>1, <1>3 DEF AcceptInv, OneDigest

\* What is there of an import that does not move.
LEMMA Stays ==
  ASSUME NEW q, run'[q] = run[q], registry \subseteq registry', reports \subseteq reports'
  PROVE  /\ LaterRows(q) => LaterRows(q)'
         /\ registry' = registry => (FirstRows(q) => FirstRows(q)')
         /\ Refused(run[q]) /\ Excused(run[q]) => Excused(run[q])'
<1>1. Pending(q)' = Pending(q) /\ Statement(q)' = Statement(q)
  BY DEF Pending, InTransaction, Statement
<1>2. LaterRows(q) => LaterRows(q)'
  BY <1>1 DEF LaterRows
<1>3. registry' = registry => Found(q)' = Found(q)
  BY <1>1 DEF Found, Visible, Row
<1>4. registry' = registry => (FirstRows(q) => FirstRows(q)')
  BY <1>1, <1>3 DEF FirstRows, OneDigest
<1>5. Excused(run[q]) => Excused(run[q])'
  BY DEF Excused
<1>6. QED
  BY <1>2, <1>4, <1>5

\* Of a step of p that leaves the registry alone, what remains is about p.
LEMMA AcceptMoves ==
  ASSUME AcceptInv, NEW p \in Importers, registry' = registry, reports' = reports,
         \A q \in Importers \ {p} : run'[q] = run[q],
         run'[p].phase # "idle" => run'[p].before \subseteq reports,
         LaterRows(p)', registry = {} => FirstRows(p)',
         Refused(run[p])' => Excused(run'[p])
  PROVE  AcceptInv'
<1>1. \A q \in Importers : run'[q].phase # "idle" => run'[q].before \subseteq reports'
  BY DEF AcceptInv
<1>2. \A row \in registry' : \E rep \in reports' : From(rep.pkg, rep.shas, row.key[2], row)
  BY DEF AcceptInv
<1>3. OneReport' => OneDigest(registry')
  BY DEF AcceptInv, OneReport
<1>4. ASSUME NEW q \in Importers
      PROVE  /\ LaterRows(q)'
             /\ registry' = {} => FirstRows(q)'
             /\ Refused(run[q])' => Excused(run[q])'
  <2>1. Excused(run'[p]) => Excused(run[p])'
    BY DEF Excused
  <2>2. CASE q # p
    BY <2>2, Stays DEF AcceptInv
  <2>3. QED
    BY <2>1, <2>2
<1>5. QED
  BY <1>1, <1>2, <1>3, <1>4 DEF AcceptInv

LEMMA AcceptLoad ==
  ASSUME ImportInv, AcceptInv, NEW p \in Importers, NEW pkg \in Packages, Load(p, pkg)
  PROVE  AcceptInv'
<1>1. /\ \A q \in Importers \ {p} : run'[q] = run[q]
      /\ registry' = registry /\ reports' = reports
  BY DEF Load
<1>2. /\ run'[p].before = reports
      /\ \/ run'[p].phase = "resolve"
         \/ run'[p].phase = "ended" /\ run'[p].outcome = "invalid"
  BY DEF Load, ImportInv
<1>3. Pending(p)' = {} /\ ~Refused(run[p])' /\ run'[p].phase # "insert"
  BY <1>2 DEF Pending, InTransaction, Refused
<1>4. LaterRows(p)' /\ FirstRows(p)'
  BY <1>3 DEF LaterRows, FirstRows, OneDigest
<1>5. QED
  BY <1>1, <1>2, <1>3, <1>4, AcceptMoves

\* Why an import that was accepted before is in conflict now.
LEMMA ConflictExcused ==
  ASSUME ImportInv, OriginInv, AcceptInv, ReportsRegistered, NEW p \in Importers,
         Step(p) \/ Fail(p), Refused(run[p])'
  PROVE  Excused(run'[p])
<1>1. SelectRow(p) \/ SelectHistory(p)
  <2>1. ASSUME NEW outcome, End(p, outcome)
        PROVE  run'[p].outcome = outcome
    BY <2>1 DEF End, ImportInv
  <2>2. Fail(p) \/ AbortDeadlock(p) \/ Commit(p) => run'[p].outcome # "conflict"
    BY <2>1 DEF Fail, AbortDeadlock, Commit
  <2>3. Resolve(p) => run'[p].outcome # "conflict" \/ run'[p].phase # "ended"
    <3>1. CASE Resolve(p) /\ End(p, "provenance")
      BY <2>1, <3>1
    <3>2. CASE Resolve(p) /\ ~End(p, "provenance")
      <4>1. Running(run[p]) /\ run[p].phase = "resolve"
        BY <3>2, Zenon DEF Resolve, ImportInv, ImportInvAt, Active
      <4>2. PICK shas, at, phase :
              /\ run' = [run EXCEPT ![p].shas = shas, ![p].at = at, ![p].phase = phase]
              /\ phase \in {"resolve", "select"}
        <5>1. PICK shas :
              run' = [run EXCEPT ![p].shas = shas,
                                 ![p].at = IF @ = Len(run[p].pkg.sources) THEN 1 ELSE @ + 1,
                                 ![p].phase = IF run[p].at = Len(run[p].pkg.sources)
                                              THEN "select" ELSE @]
          BY <3>2, Zenon DEF Resolve
        <5>2. run' = [run EXCEPT ![p].shas = shas,
                  ![p].at = IF run[p].at = Len(run[p].pkg.sources) THEN 1 ELSE run[p].at + 1,
                  ![p].phase = IF run[p].at = Len(run[p].pkg.sources)
                               THEN "select" ELSE run[p].phase]
          BY <5>1, <4>1 DEF Running, ImportInv
        <5>3. QED
          BY <5>2, <4>1, Zenon
      <4>3. run'[p].phase = phase
        BY <4>1, <4>2 DEF ImportInv, Running
      <4>4. QED
        BY <4>2, <4>3
    <3>3. QED
      BY <3>1, <3>2
  <2>4. InsertRow(p) => run'[p].outcome # "conflict" \/ run'[p].phase # "ended"
    <3>1. CASE InsertRow(p) /\ End(p, "unique")
      BY <2>1, <3>1
    <3>2. CASE InsertRow(p) /\ Write(p, {Row(p)})
      BY <3>2 DEF Write, ImportInv
    <3>3. QED
      BY <3>1, <3>2 DEF InsertRow
  <2>5. InsertHistory(p) => run'[p].phase # "ended"
    BY DEF InsertHistory, Write, ImportInv
  <2>6. QED
    BY <2>2, <2>3, <2>4, <2>5 DEF Refused, Step
<1>2. End(p, "conflict") /\ InTransaction(p)
  <2>1. InTransaction(p)
    BY <1>1 DEF SelectRow, SelectHistory, InTransaction
  <2>2. Running(run[p])
    BY <2>1 DEF ImportInv, ImportInvAt, InTransaction, Active
  <2>3. ~Advance(p) /\ run' # [run EXCEPT ![p].phase = "insert"]
    BY <2>2 DEF Advance, Refused, ImportInv, Running
  <2>4. QED
    BY <1>1, <2>1, <2>3 DEF SelectRow, SelectHistory
<1>3. /\ run'[p].pkg = run[p].pkg /\ run'[p].shas = run[p].shas
      /\ run'[p].before = run[p].before
  BY <1>2 DEF End, ImportInv
<1>4. Again(p) /\ Canonical(run[p].pkg) /\ (run[p].pkg.station.span => run[p].pkg.zoned)
  BY <1>2, <1>3 DEF Again, Refused
<1>5. ~Advance(p) /\ run' # [run EXCEPT ![p].phase = "insert"]
  <2>1. Running(run[p])
    BY <1>2 DEF ImportInv, ImportInvAt, InTransaction, Active
  <2>2. QED
    BY <2>1 DEF Advance, Refused, ImportInv, Running
<1>6. CASE SelectRow(p)
  <2>1. PICK found \in Found(p) : ~Agrees(p, found)
    BY <1>5, <1>6 DEF SelectRow
  <2>2. \E rep \in reports : rep.pkg # run[p].pkg \/ rep.shas # run[p].shas
    BY <1>4, <1>6, <2>1, KeyedConflict DEF SelectRow
  <2>3. QED
    BY <1>3, <2>2 DEF Excused
<1>7. CASE SelectHistory(p)
  <2>1. ~SameHistory(p) /\ Statement(p) \in {"coordinate", "equipment"}
    BY <1>5, <1>7 DEF SelectHistory
  <2>2. Excused(run[p])
    BY <1>4, <2>1, HistoryConflict DEF Excused
  <2>3. QED
    BY <1>3, <2>2 DEF Excused
<1>8. QED
  BY <1>1, <1>6, <1>7

-----------------------------------------------------------------------------
LEMMA LaterOn ==
  ASSUME ImportInv, AcceptInv, NEW p \in Importers, WritesOn(p)
  PROVE  LaterRows(p)'
<1> DEFINE n == Len(run[p].pkg.sources)
<1>1. /\ InTransaction(p) /\ run'[p].pkg = run[p].pkg
  BY DEF WritesOn, GoesOn
<1>2. /\ n \in Nat /\ run[p].at \in Nat
      /\ Statement(p) = "coordinate" => run[p].at = n + 3
      /\ Statement(p) = "equipment" => run[p].at = n + 4
  BY <1>1, StatementAt
<1>3. PICK rows : Pending(p)' = Pending(p) \cup rows /\ Adds(p, rows)
  BY DEF WritesOn
<1>4. run'[p].at \in Nat /\ run'[p].at >= run[p].at
  BY <1>2, <1>3 DEF Adds
<1>5. ASSUME NEW row \in rows
      PROVE  /\ row.table = "coordinate" => run'[p].at > n + 3
             /\ row.table = "equipment" => run'[p].at > n + 4
  <2>1. CASE rows = {Row(p)} /\ Keyed(p)
    <3>1. row.table \in {"source", "provider", "station"}
      BY <1>5, <2>1 DEF Keyed, Row, SourceRow, ProviderRow, StationRow
    <3>2. QED
      BY <3>1
  <2>2. CASE /\ rows = HistoryRows(p, Statement(p), History(p))
             /\ Statement(p) \in {"coordinate", "equipment"}
             /\ run'[p].at = run[p].at + 1
    <3>1. row.table = Statement(p)
      BY <1>5, <2>2 DEF HistoryRows
    <3>2. QED
      BY <1>2, <2>2, <3>1
  <2>3. QED
    BY <1>3, <1>5, <2>1, <2>2 DEF Adds
<1>6. \A row \in Pending(p) :
        /\ row.table = "coordinate" => run[p].at > n + 3
        /\ row.table = "equipment" => run[p].at > n + 4
  BY DEF AcceptInv, LaterRows
<1>7. \A row \in Pending(p)' :
        /\ row.table = "coordinate" => run'[p].at > n + 3
        /\ row.table = "equipment" => run'[p].at > n + 4
  <2> SUFFICES ASSUME NEW row \in Pending(p)'
               PROVE  /\ row.table = "coordinate" => run'[p].at > n + 3
                      /\ row.table = "equipment" => run'[p].at > n + 4
    OBVIOUS
  <2>1. CASE row \in Pending(p)
    BY <1>2, <1>4, <1>6, <2>1
  <2>2. CASE row \in rows
    BY <1>5, <2>2
  <2>3. QED
    BY <1>3, <2>1, <2>2
<1>8. QED
  BY <1>1, <1>7 DEF LaterRows

LEMMA FirstOn ==
  ASSUME ImportInv, AcceptInv, NEW p \in Importers, WritesOn(p), registry = {}
  PROVE  FirstRows(p)'
<1>1. /\ InTransaction(p) /\ registry' = registry /\ run'[p].pkg = run[p].pkg
      /\ run'[p].shas = run[p].shas /\ OneDigest(Pending(p))
      /\ run[p].phase = "insert" /\ Statement(p) = "source" => Found(p) = {}
  BY DEF WritesOn, GoesOn, AcceptInv, FirstRows
<1>2. PICK rows : Pending(p)' = Pending(p) \cup rows /\ Adds(p, rows)
  BY DEF WritesOn
<1>3. ASSUME NEW a \in Pending(p)', NEW b \in Pending(p)', a.table = "source",
             b.table = "source", a.key[1] = b.key[1]
      PROVE  a.key = b.key
  <2>1. CASE rows = {Row(p)} /\ Keyed(p) /\ run[p].phase = "insert"
    <3> DEFINE row == Row(p)
    <3>1. ASSUME row.table = "source" PROVE Found(p) = {}
      <4>1. Statement(p) = "source"
        BY <2>1, <3>1 DEF Keyed, Row, ProviderRow, StationRow
      <4>2. QED
        BY <1>1, <2>1, <4>1
    <3>2. ASSUME row.table = "source", NEW c \in Pending(p), c.table = "source"
          PROVE  c.key[1] # row.key[1]
      BY <3>1, <3>2 DEF Found, Visible
    <3> HIDE DEF row
    <3>3. rows = {row}
      BY <2>1 DEF row
    <3>4. QED
      BY <1>1, <1>2, <1>3, <3>2, <3>3 DEF OneDigest
  <2>2. CASE /\ rows = HistoryRows(p, Statement(p), History(p))
             /\ Statement(p) \in {"coordinate", "equipment"}
    <3>1. \A row \in rows : row.table # "source"
      BY <2>2 DEF HistoryRows
    <3>2. QED
      BY <1>1, <1>2, <1>3, <3>1 DEF OneDigest
  <2>3. CASE rows = {}
    BY <1>1, <1>2, <1>3, <2>3 DEF OneDigest
  <2>4. QED
    BY <1>2, <2>1, <2>2, <2>3 DEF Adds
<1>4. ASSUME run'[p].phase = "insert", Statement(p)' = "source"
      PROVE  Found(p)' = {}
  <2>1. rows = {} /\ run'[p].at = run[p].at /\ (Keyed(p) => Found(p) = {})
    BY <1>2, <1>4 DEF Adds
  <2>2. Statement(p)' = Statement(p)
    BY <1>1, <2>1 DEF Statement
  <2>3. Row(p)' = Row(p)
    BY <1>1, <2>1, <2>2 DEF Row
  <2>4. Visible(p)' = Visible(p)
    BY <1>1, <1>2, <2>1 DEF Visible
  <2>5. Found(p)' = Found(p)
    BY <2>3, <2>4 DEF Found
  <2>6. QED
    BY <1>4, <2>1, <2>2, <2>5 DEF Keyed
<1>5. QED
  BY <1>3, <1>4 DEF FirstRows, OneDigest

LEMMA AcceptOn ==
  ASSUME ImportInv, OriginInv, AcceptInv, ReportsRegistered, NEW p \in Importers,
         Step(p) \/ Fail(p), ~Commit(p)
  PROVE  AcceptInv'
<1>1. registry' = registry /\ reports' = reports
  BY Zenon DEF Step, Fail, Resolve, SelectRow, SelectHistory, InsertRow, InsertHistory,
         Write, AbortDeadlock
<1>2. \A q \in Importers \ {p} : run'[q] = run[q]
  BY StepForm
<1>3. run[p].before \subseteq reports
  BY StepForm DEF AcceptInv, Active
<1>4. Refused(run[p])' => Excused(run'[p])
  BY ConflictExcused
<1>5. ASSUME Pending(p)' = {}, run'[p].before = run[p].before,
             run'[p].phase \in {"ended", "resolve", "select"}
      PROVE  AcceptInv'
  <2>1. LaterRows(p)' /\ FirstRows(p)'
    BY <1>5 DEF LaterRows, FirstRows, OneDigest
  <2>2. QED
    BY <1>1, <1>2, <1>3, <1>4, <1>5, <2>1, AcceptMoves
<1>6. ASSUME NEW outcome, End(p, outcome)
      PROVE  AcceptInv'
  <2>1. run'[p].phase = "ended" /\ run'[p].before = run[p].before
    BY <1>6 DEF End, ImportInv
  <2>2. Pending(p)' = {}
    BY <2>1 DEF Pending, InTransaction
  <2>3. QED
    BY <1>5, <2>1, <2>2
<1>7. CASE WritesOn(p)
  <2>1. run'[p].before = run[p].before
    BY <1>7 DEF WritesOn, GoesOn
  <2>2. QED
    BY <1>1, <1>2, <1>3, <1>4, <1>7, <2>1, LaterOn, FirstOn, AcceptMoves
<1>8. CASE GoesOn(p) /\ run'[p].phase \in {"resolve", "select"} /\ Pending(p)' = {}
  BY <1>5, <1>8 DEF GoesOn
<1>9. QED
  BY <1>6, <1>7, <1>8, StepForm

\* What is committed is of one more report; and if nothing else was reported,
\* it is either the first or all there already.
LEMMA AcceptCommit ==
  ASSUME ImportInv, OriginInv, AcceptInv, ReportsRegistered, NEW p \in Importers, Commit(p)
  PROVE  AcceptInv'
<1> DEFINE pkg == run[p].pkg
           shas == run[p].shas
<1>1. /\ registry' = registry \cup Pending(p) /\ InTransaction(p) /\ Active(run[p])
      /\ reports' = reports \cup {[pkg |-> pkg, shas |-> shas]}
      /\ \A q \in Importers \ {p} : run'[q] = run[q]
  BY CommitKeeps DEF Visible, Commit, End, ImportInv, InTransaction, Active
<1>2. /\ run'[p].phase = "ended" /\ run'[p].before = run[p].before
      /\ run'[p].outcome = "done" /\ Pending(p)' = {}
  BY DEF Commit, End, ImportInv, Pending, InTransaction
<1>3. \A row \in Pending(p) : From(pkg, shas, run[p].serial, row)
  BY DEF OriginInv
<1>4. \A q \in Importers : run'[q].phase # "idle" => run'[q].before \subseteq reports'
  BY <1>1, <1>2 DEF AcceptInv, Active
<1>5. \A row \in registry' : \E rep \in reports' : From(rep.pkg, rep.shas, row.key[2], row)
  <2>1. ASSUME NEW row \in registry
        PROVE  \E rep \in reports' : From(rep.pkg, rep.shas, row.key[2], row)
    BY <1>1 DEF AcceptInv
  <2>2. ASSUME NEW row \in Pending(p)
        PROVE  \E rep \in reports' : From(rep.pkg, rep.shas, row.key[2], row)
    <3>1. From(pkg, shas, row.key[2], row)
      BY <1>3, FromItsKey
    <3> DEFINE rep == [pkg |-> pkg, shas |-> shas]
    <3>2. rep \in reports' /\ rep.pkg = pkg /\ rep.shas = shas
      BY <1>1
    <3> HIDE DEF rep
    <3>3. QED
      BY <3>1, <3>2
  <2>3. QED
    BY <1>1, <2>1, <2>2
<1>6. OneReport' => OneDigest(registry')
  <2> SUFFICES ASSUME OneReport'
               PROVE  OneDigest(registry')
    OBVIOUS
  <2>1. \A rep \in reports : rep.pkg = pkg /\ rep.shas = shas
    <3> DEFINE last == [pkg |-> pkg, shas |-> shas]
    <3>1. last \in reports' /\ last.pkg = pkg /\ last.shas = shas /\ reports \subseteq reports'
      BY <1>1
    <3> HIDE DEF last
    <3>2. QED
      BY <3>1 DEF OneReport
  <2>2. OneDigest(registry)
    BY <1>1 DEF AcceptInv, OneReport
  <2>3. CASE reports = {}
    <3>1. registry = {}
      BY <2>3 DEF AcceptInv
    <3>2. OneDigest(Pending(p)) /\ registry' = Pending(p)
      BY <1>1, <3>1 DEF AcceptInv, FirstRows
    <3>3. QED
      BY <3>2
  <2>4. CASE reports # {}
    <3>1. Registered(pkg, shas)
      <4>1. PICK rep \in reports : TRUE
        BY <2>4
      <4>2. rep.pkg = pkg /\ rep.shas = shas /\ Registered(rep.pkg, rep.shas)
        BY <2>1 DEF ReportsRegistered
      <4>3. QED
        BY <4>2
    <3>2. ASSUME NEW row \in Pending(p), row.table = "source"
          PROVE  row \in registry
      <4>1. PICK i \in DOMAIN pkg.sources : row = SourceRow(pkg, shas, pkg.sources[i])
        BY <1>3, <3>2, FromSource
      <4>2. QED
        BY <3>1, <4>1 DEF Registered
    <3>3. QED
      BY <1>1, <2>2, <3>2 DEF OneDigest
  <2>5. QED
    BY <2>3, <2>4
<1>7. registry \subseteq registry' /\ reports \subseteq reports'
  BY <1>1
<1>8. ASSUME NEW q \in Importers
      PROVE  /\ LaterRows(q)'
             /\ registry' = {} => FirstRows(q)'
             /\ Refused(run[q])' => Excused(run[q])'
  <2>1. CASE q = p
    <3>1. LaterRows(p)' /\ FirstRows(p)' /\ ~Refused(run[p])'
      BY <1>2 DEF LaterRows, FirstRows, OneDigest, Refused
    <3>2. QED
      BY <2>1, <3>1
  <2>2. CASE q # p
    <3>1. run'[q] = run[q]
      BY <1>1, <2>2
    <3>2. LaterRows(q) /\ (Refused(run[q]) => Excused(run[q]))
      BY DEF AcceptInv
    <3>3. LaterRows(q)' /\ (Refused(run[q]) /\ Excused(run[q]) => Excused(run[q])')
      BY <1>7, <3>1, <3>2, Stays
    <3>4. Refused(run[q])' <=> Refused(run[q])
      BY <3>1 DEF Refused
    <3>5. registry' = {} => FirstRows(q)'
      <4>1. registry' = {} => registry = {} /\ registry' = registry
        BY <1>7
      <4>2. QED
        BY <1>7, <3>1, <4>1, Stays DEF AcceptInv
    <3>6. QED
      BY <3>2, <3>3, <3>4, <3>5
  <2>3. QED
    BY <2>1, <2>2
<1>9. QED
  BY <1>4, <1>5, <1>6, <1>8 DEF AcceptInv

LEMMA AcceptInvStep ==
  ImportInv /\ OriginInv /\ ReportsRegistered /\ AcceptInv /\ [Next]_vars => AcceptInv'
<1> SUFFICES ASSUME ImportInv, OriginInv, ReportsRegistered, AcceptInv, [Next]_vars
             PROVE  AcceptInv'
  OBVIOUS
<1>1. CASE UNCHANGED <<run, registry, reports>>
  <2>1. ASSUME NEW q \in Importers
        PROVE  /\ LaterRows(q)'
               /\ registry' = {} => FirstRows(q)'
               /\ Refused(run[q])' => Excused(run[q])'
    <3>1. run'[q] = run[q] /\ (Refused(run[q])' <=> Refused(run[q]))
      BY <1>1 DEF Refused
    <3>2. QED
      BY <1>1, <3>1, Stays DEF AcceptInv
  <2>2. (OneReport' <=> OneReport) /\ (OneDigest(registry') <=> OneDigest(registry))
    BY <1>1 DEF OneReport, OneDigest
  <2>3. QED
    BY <1>1, <2>1, <2>2 DEF AcceptInv
<1>2. QED
  BY <1>1, AcceptOn, AcceptCommit, AcceptLoad DEF Next, Step, Rewrite, vars

LEMMA AcceptInvHolds == Spec => []AcceptInv
<1>1. ImportInv /\ OriginInv /\ ReportsRegistered /\ AcceptInv /\ [Next]_vars => AcceptInv'
  BY AcceptInvStep
<1>2. QED
  BY <1>1, AcceptInvInit, ImportInvHolds, OriginInvHolds, ReportsStand, PTL DEF Spec

\* Importing again what was imported before, from the same files, is a conflict
\* only if something else was reported as well or the same rows were written
\* twice at once (the repository's _ensure_ functions); and what was reported
\* stays.
THEOREM ReportsCanBeReliedOn == Spec => []ReportedStands
<1>1. ReportsRegistered /\ AcceptInv => ReportedStands
  BY DEF ReportedStands, AgainAccepted, AcceptInv, Refused, Excused
<1>2. QED
  BY <1>1, ReportsStand, AcceptInvHolds, PTL
=============================================================================
