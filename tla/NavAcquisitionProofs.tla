------------------------- MODULE NavAcquisitionProofs -------------------------
(***************************************************************************)
(* Whatever the server sends and whenever commands are killed or products  *)
(* damaged: only sound navigation is admitted, none is ever replaced, and  *)
(* verify-nav leaves the inventory exact.  Whatever they read of sessions  *)
(* and coordinates, the commands that apply the gates agree.               *)
(***************************************************************************)
EXTENDS ExpansionSurvey, FiniteSetTheorems, TLAPS

Contents == Payloads \cup Damages \cup {NoFile}

\* An accepted row names sound bytes.
RowsSound(rows) == \A d \in DOMAIN rows : rows[d].status = "ACCEPTED" => Sound(rows[d].sha)
\* The rows admit the days whose product is sound now.
RowsExact(rows) ==
  \A d \in DOMAIN rows :
    (rows[d].status = "ACCEPTED" /\ rows[d].sha = file[d]) <=> Sound(file[d])

Typed ==
  /\ file \in [Days -> Contents]
  /\ plan.days \subseteq Days /\ queue \subseteq Days /\ targets \subseteq Days
  /\ DOMAIN products \subseteq Days /\ DOMAIN results \subseteq Days
  /\ deaths \in Nat /\ damages \in Nat

\* What the command has found out still holds when it acts on it: damage makes
\* products unsound, and nobody else stores one.
CommandInv ==
  /\ pc = "idle" => DOMAIN results = {}
  /\ pc = "download" => \A d \in queue : Current(d) => ~Sound(file[d])
  /\ pc = "check" => \A d \in queue : Current(d) /\ Sound(file[d]) => hashed = file[d]
  /\ (pc \in {"fetch", "download"} /\ targets # {}) =>
        queue \subseteq targets /\ DOMAIN results \subseteq targets
  /\ (pc = "write" /\ targets # {} /\ ledger # "absent") =>
        \A d \in DOMAIN products \ targets :
          d \in DOMAIN results /\ results[d] = products[d]

VerifyInv ==
  /\ pc \in {"hash", "check", "write verified"} =>
        DOMAIN results \cup queue = plan.days /\ RowsExact(results)
  /\ pc = "write verified" => queue = {}
  /\ verified => ledger = "whole" /\ DOMAIN products = plan.days /\ RowsExact(products)

NavInv ==
  /\ Typed
  /\ RowsSound(products) /\ RowsSound(results)
  /\ CommandInv /\ VerifyInv

-----------------------------------------------------------------------------
LEMMA OneCurrent ==
  ASSUME Typed, NEW d \in Days, NEW e \in Days, Current(d), Current(e)
  PROVE  d = e
BY CatalogAssumption DEF Typed, Current

\* A sound product is no empty file, so fetch-nav takes it for a cached one.
LEMMA SoundIsCached ==
  ASSUME Typed, NEW d \in Days, Sound(file[d])
  PROVE  Cached(d) /\ file[d] # NoFile /\ file[d] \notin Damages
<1>1. ~Sound(NoFile)
  BY DEF Sound, Exists, NoFile
<1>2. file[d] \in Payloads
  BY <1>1, NavAssumption DEF Typed, Contents
<1>3. file[d].bytes \in Nat /\ file[d].bytes # 0 /\ Exists(file[d])
  BY <1>2, NavAssumption DEF Sound
<1>4. file[d].bytes > 0
  BY <1>3
<1>5. QED
  BY <1>1, <1>3, <1>4, NavAssumption DEF Cached

-----------------------------------------------------------------------------
LEMMA InitNavInv == Init => NavInv
BY DEF Init, NavInv, Typed, Contents, RowsSound, RowsExact, NoRows, CommandInv, VerifyInv

LEMMA PlanDaysTyped ==
  ASSUME NEW count PROVE PlanDays(count, Least) \subseteq Days
BY DEF PlanDays

\* A command starts with no rows and on days that exist.
LEMMA StartKeeps ==
  ASSUME NavInv, NEW days \in SUBSET Days, NEW doys \in SUBSET Days,
         NEW step \in {"plan", "fetch", "hash"}, Start(step, days, doys),
         step = "fetch" /\ doys # {} => days \subseteq doys,
         step = "hash" => days = plan.days
  PROVE  NavInv'
BY DEF Start, disk, NavInv, Typed, RowsSound, RowsExact, CommandInv, VerifyInv, Current

\* A row made for the current day joins those made before.
LEMMA RecordKeeps ==
  ASSUME NavInv, NEW d \in Days, NEW row, d \in queue, Record(d, row)
  PROVE  /\ queue' = queue \ {d} /\ queue' \subseteq Days
         /\ DOMAIN results' = DOMAIN results \cup {d}
         /\ DOMAIN results' \subseteq Days
         /\ results'[d] = row
         /\ \A e \in DOMAIN results \ {d} : results'[e] = results[e]
         /\ (row.status = "ACCEPTED" => Sound(row.sha)) => RowsSound(results')
BY DEF Record, NavInv, Typed, RowsSound

-----------------------------------------------------------------------------
(* fetch-nav                                                               *)

LEMMA KeepCachedKeeps == ASSUME NavInv, KeepCached PROVE NavInv'
<1>1. PICK d \in Days : Current(d) /\ Cached(d) /\ Record(d, Row(file[d], "UNVALIDATED"))
  BY DEF KeepCached
<1>2. d \in queue /\ Row(file[d], "UNVALIDATED").status # "ACCEPTED"
  BY <1>1 DEF Current, Row
<1>3. /\ queue' = queue \ {d} /\ DOMAIN results' = DOMAIN results \cup {d}
      /\ queue' \subseteq Days /\ DOMAIN results' \subseteq Days
      /\ \A e \in DOMAIN results \ {d} : results'[e] = results[e]
      /\ RowsSound(results')
  BY <1>1, <1>2, RecordKeeps, Zenon
<1>4. QED
  BY <1>1, <1>2, <1>3
  DEF KeepCached, disk, bounds, NavInv, Typed, RowsSound, RowsExact, CommandInv, VerifyInv

LEMMA BeginDownloadKeeps == ASSUME NavInv, BeginDownload PROVE NavInv'
<1>1. \A d \in queue : Current(d) => ~Sound(file[d])
  BY OneCurrent, SoundIsCached DEF BeginDownload, NavInv, Typed
<1>2. QED
  BY <1>1
  DEF BeginDownload, disk, bounds, NavInv, Typed, RowsSound, RowsExact, CommandInv,
      VerifyInv, Current

LEMMA RejectPayloadKeeps == ASSUME NavInv, RejectPayload PROVE NavInv'
<1>1. PICK d \in Days : Current(d) /\ Downloaded(d, Row(NoFile, "REJECTED"))
  BY DEF RejectPayload
<1>2. /\ d \in queue /\ Row(NoFile, "REJECTED").status # "ACCEPTED"
      /\ Record(d, Row(NoFile, "REJECTED"))
  BY <1>1 DEF Current, Row, Downloaded
<1>3. /\ queue' = queue \ {d} /\ DOMAIN results' = DOMAIN results \cup {d}
      /\ queue' \subseteq Days /\ DOMAIN results' \subseteq Days
      /\ \A e \in DOMAIN results \ {d} : results'[e] = results[e]
      /\ RowsSound(results')
  BY <1>2, RecordKeeps, Zenon
<1>4. QED
  BY <1>1, <1>2, <1>3
  DEF RejectPayload, Attempting, Downloaded, disk, bounds, NavInv, Typed, RowsSound,
      RowsExact, CommandInv, VerifyInv

LEMMA GiveUpKeeps == ASSUME NavInv, GiveUp PROVE NavInv'
<1>1. PICK d \in Days : Current(d) /\ Downloaded(d, Row(NoFile, "BLOCKED"))
  BY DEF GiveUp
<1>2. /\ d \in queue /\ Row(NoFile, "BLOCKED").status # "ACCEPTED"
      /\ Record(d, Row(NoFile, "BLOCKED"))
  BY <1>1 DEF Current, Row, Downloaded
<1>3. /\ queue' = queue \ {d} /\ DOMAIN results' = DOMAIN results \cup {d}
      /\ queue' \subseteq Days /\ DOMAIN results' \subseteq Days
      /\ \A e \in DOMAIN results \ {d} : results'[e] = results[e]
      /\ RowsSound(results')
  BY <1>2, RecordKeeps, Zenon
<1>4. QED
  BY <1>1, <1>2, <1>3
  DEF GiveUp, Downloaded, disk, bounds, NavInv, Typed, RowsSound,
      RowsExact, CommandInv, VerifyInv

LEMMA StorePayloadKeeps == ASSUME NavInv, StorePayload PROVE NavInv'
<1>1. PICK d \in Days, c \in Payloads :
        /\ Current(d) /\ file' = [file EXCEPT ![d] = c]
        /\ Downloaded(d, Row(c, "UNVALIDATED"))
  BY DEF StorePayload
<1>2. /\ d \in queue /\ Row(c, "UNVALIDATED").status # "ACCEPTED"
      /\ Record(d, Row(c, "UNVALIDATED"))
  BY <1>1 DEF Current, Row, Downloaded
<1>3. file' \in [Days -> Contents]
  BY <1>1 DEF NavInv, Typed, Contents
<1>4. /\ queue' = queue \ {d} /\ DOMAIN results' = DOMAIN results \cup {d}
      /\ queue' \subseteq Days /\ DOMAIN results' \subseteq Days
      /\ \A e \in DOMAIN results \ {d} : results'[e] = results[e]
      /\ RowsSound(results')
  BY <1>2, RecordKeeps, Zenon
<1>5. QED
  BY <1>1, <1>2, <1>3, <1>4
  DEF StorePayload, Attempting, Downloaded, bounds, NavInv, Typed, RowsSound,
      CommandInv, VerifyInv

LEMMA AttemptFailsKeeps == ASSUME NavInv, AttemptFails PROVE NavInv'
BY DEF AttemptFails, Attempting, disk, bounds, NavInv, Typed, RowsSound, RowsExact,
       CommandInv, VerifyInv, Current

LEMMA FetchDoneKeeps == ASSUME NavInv, FetchDone PROVE NavInv'
<1> DEFINE merges == targets # {} /\ ledger # "absent"
<1>1. CASE merges
  <2>1. results' = Merged(results)
    BY <1>1 DEF FetchDone
  <2>2. /\ DOMAIN results' = DOMAIN results \cup DOMAIN products
        /\ \A d \in DOMAIN results : results'[d] = results[d]
        /\ \A d \in DOMAIN products \ DOMAIN results : results'[d] = products[d]
    BY <2>1 DEF Merged
  <2>3. DOMAIN results \subseteq targets
    BY <1>1 DEF FetchDone, NavInv, CommandInv
  <2>4. QED
    BY <2>2, <2>3
    DEF FetchDone, disk, bounds, NavInv, Typed, RowsSound, RowsExact, CommandInv, VerifyInv
<1>2. CASE ~merges
  BY <1>2
  DEF FetchDone, disk, bounds, NavInv, Typed, RowsSound, RowsExact, CommandInv, VerifyInv
<1>3. QED
  BY <1>1, <1>2

-----------------------------------------------------------------------------
(* verify-nav                                                              *)

LEMMA VerifyMissingKeeps == ASSUME NavInv, VerifyMissing PROVE NavInv'
<1>1. PICK d \in Days :
        Current(d) /\ ~Exists(file[d]) /\ Record(d, Row(Recorded(d), "REJECTED"))
  BY DEF VerifyMissing
<1>2. d \in queue /\ Row(Recorded(d), "REJECTED").status # "ACCEPTED" /\ ~Sound(file[d])
  BY <1>1 DEF Current, Row, Sound
<1> DEFINE row == Row(Recorded(d), "REJECTED")
<1>3. /\ queue' = queue \ {d} /\ DOMAIN results' = DOMAIN results \cup {d}
      /\ queue' \subseteq Days /\ DOMAIN results' \subseteq Days
      /\ results'[d] = row /\ \A e \in DOMAIN results \ {d} : results'[e] = results[e]
      /\ RowsSound(results')
  BY <1>1, <1>2, RecordKeeps, Zenon
<1>4. row.status # "ACCEPTED"
  BY <1>2
<1> HIDE DEF row
<1>5. RowsExact(results')
  BY <1>2, <1>3, <1>4 DEF VerifyMissing, disk, NavInv, VerifyInv, RowsExact
<1>6. QED
  BY <1>2, <1>3, <1>5
  DEF VerifyMissing, disk, bounds, NavInv, Typed, RowsSound, RowsExact, CommandInv, VerifyInv

LEMMA HashProductKeeps == ASSUME NavInv, HashProduct PROVE NavInv'
<1>1. PICK d \in Days : Current(d) /\ hashed' = file[d]
  BY DEF HashProduct
<1>2. \A e \in queue : Current(e) => hashed' = file[e]
  BY <1>1, OneCurrent DEF NavInv, Typed
<1>3. QED
  BY <1>2
  DEF HashProduct, disk, bounds, NavInv, Typed, RowsSound, RowsExact, CommandInv,
      VerifyInv, Current

LEMMA CheckProductKeeps == ASSUME NavInv, CheckProduct PROVE NavInv'
<1>1. PICK d \in Days :
        /\ Current(d)
        /\ Record(d, Row(hashed, IF Sound(file[d]) THEN "ACCEPTED" ELSE "REJECTED"))
  BY DEF CheckProduct
<1> DEFINE row == Row(hashed, IF Sound(file[d]) THEN "ACCEPTED" ELSE "REJECTED")
<1>2. d \in queue /\ (Sound(file[d]) => hashed = file[d])
  BY <1>1 DEF CheckProduct, Current, NavInv, CommandInv
<1>3. /\ row.sha = hashed
      /\ row.status = "ACCEPTED" <=> Sound(file[d])
  BY DEF Row
<1>4. row.status = "ACCEPTED" => Sound(row.sha)
  BY <1>2, <1>3
<1> HIDE DEF row
<1>5. /\ queue' = queue \ {d} /\ DOMAIN results' = DOMAIN results \cup {d}
      /\ queue' \subseteq Days /\ DOMAIN results' \subseteq Days
      /\ results'[d] = row /\ \A e \in DOMAIN results \ {d} : results'[e] = results[e]
      /\ RowsSound(results')
  BY <1>1, <1>2, <1>4, RecordKeeps DEF row
<1>6. RowsExact(results')
  BY <1>2, <1>3, <1>5 DEF CheckProduct, NavInv, VerifyInv, RowsExact
<1>7. QED
  BY <1>2, <1>5, <1>6
  DEF CheckProduct, disk, bounds, NavInv, Typed, RowsSound, RowsExact, CommandInv, VerifyInv

LEMMA WriteProductsKeeps == ASSUME NavInv, WriteProducts PROVE NavInv'
BY DEF WriteProducts, Idle, NoRows, bounds, NavInv, Typed, RowsSound, RowsExact,
       CommandInv, VerifyInv

-----------------------------------------------------------------------------
(* Deaths and damage                                                       *)

LEMMA IdleKeeps ==
  ASSUME NavInv, Idle, UNCHANGED <<disk, verified>>, deaths' \in Nat, damages' \in Nat
  PROVE  NavInv'
BY DEF Idle, NoRows, disk, NavInv, Typed, RowsSound, RowsExact, CommandInv, VerifyInv

LEMMA PlanWritten ==
  ASSUME NavInv, Idle, verified' = FALSE, plan'.days \subseteq Days,
         UNCHANGED <<file, products, ledger>>, deaths' \in Nat, damages' \in Nat
  PROVE  NavInv'
BY DEF Idle, NoRows, NavInv, Typed, RowsSound, RowsExact, CommandInv, VerifyInv

LEMMA DieWritingKeeps == ASSUME NavInv, DieWriting PROVE NavInv'
<1>1. PICK d \in Days, tail \in {"none", "blank", "torn", "cut"} :
        products' = [e \in {f \in DOMAIN results : f < d \/ (f = d /\ tail = "cut")} |->
                       IF e < d THEN results[e] ELSE Row(NoFile, "UNVALIDATED")]
  BY DEF DieWriting
<1>2. Row(NoFile, "UNVALIDATED").status # "ACCEPTED"
  BY DEF Row
<1>3. RowsSound(products') /\ DOMAIN products' \subseteq Days
  BY <1>1, <1>2 DEF NavInv, Typed, RowsSound
<1>4. deaths' \in Nat /\ damages' \in Nat
  <2>1. deaths' = deaths + 1 /\ damages' = damages
    BY Zenon DEF DieWriting
  <2>2. QED
    BY <2>1 DEF NavInv, Typed
<1>5. UNCHANGED <<file, plan>> /\ verified' = FALSE
  BY DEF DieWriting
<1>6. pc' = "idle" /\ targets' = {} /\ queue' = {} /\ DOMAIN results' = {}
  BY DEF DieWriting, Idle, NoRows
<1>7. QED
  BY <1>3, <1>4, <1>5, <1>6
  DEF NavInv, Typed, RowsSound, CommandInv, VerifyInv

\* Damage leaves exact rows exact: the new bytes are not sound, so they are not
\* those that any row accepted.
LEMMA DamageKeeps == ASSUME NavInv, Damage PROVE NavInv'
<1>1. PICK d \in Days, c \in Damages : file' = [file EXCEPT ![d] = c]
  BY DEF Damage
<1>2. ~Sound(c)
  BY NavAssumption
<1>3. file' \in [Days -> Contents] /\ file'[d] = c /\ \A e \in Days \ {d} : file'[e] = file[e]
  BY <1>1 DEF NavInv, Typed, Contents
<1>4. ASSUME NEW rows, DOMAIN rows \subseteq Days, RowsSound(rows), RowsExact(rows)
      PROVE  \A e \in DOMAIN rows :
               (rows[e].status = "ACCEPTED" /\ rows[e].sha = file'[e]) <=> Sound(file'[e])
  BY <1>2, <1>3, <1>4 DEF RowsSound, RowsExact
<1>5. UNCHANGED <<plan, products, ledger, command, verified, deaths>> /\ damages' \in Nat
  BY DEF Damage, NavInv, Typed
<1>6. Typed' /\ RowsSound(products)' /\ RowsSound(results)'
  BY <1>3, <1>5 DEF NavInv, Typed, RowsSound, command
<1>7. CommandInv'
  BY <1>2, <1>3, <1>5 DEF NavInv, Typed, CommandInv, command, Current
<1>8. VerifyInv'
  <2>1. ASSUME pc \in {"hash", "check", "write verified"}
        PROVE  RowsExact(results)'
    <3>1. DOMAIN results \subseteq Days /\ RowsSound(results) /\ RowsExact(results)
      BY <2>1 DEF NavInv, Typed, VerifyInv
    <3>2. \A e \in DOMAIN results :
             (results[e].status = "ACCEPTED" /\ results[e].sha = file'[e]) <=> Sound(file'[e])
      BY <3>1, <1>4
    <3>3. results' = results
      BY <1>5 DEF command
    <3>4. QED
      BY <3>2, <3>3 DEF RowsExact
  <2>2. ASSUME verified
        PROVE  RowsExact(products)'
    <3>1. DOMAIN products \subseteq Days /\ RowsSound(products) /\ RowsExact(products)
      BY <2>2 DEF NavInv, Typed, VerifyInv
    <3>2. \A e \in DOMAIN products :
             (products[e].status = "ACCEPTED" /\ products[e].sha = file'[e]) <=> Sound(file'[e])
      BY <3>1, <1>4
    <3>3. products' = products
      BY <1>5
    <3>4. QED
      BY <3>2, <3>3 DEF RowsExact
  <2>3. QED
    BY <1>5, <2>1, <2>2 DEF NavInv, VerifyInv, command
<1>9. QED
  BY <1>6, <1>7, <1>8 DEF NavInv

LEMMA StutterKeeps == ASSUME NavInv, UNCHANGED vars PROVE NavInv'
BY DEF vars, disk, command, bounds, NavInv, Typed, RowsSound, RowsExact, CommandInv,
       VerifyInv, Current

LEMMA NextNavInv == ASSUME NavInv, [Next]_vars PROVE NavInv'
<1>1. CASE PlanNav
  BY <1>1, StartKeeps, PlanDaysTyped DEF PlanNav
<1>2. CASE FetchNav
  <2>1. PICK limit \in Limits, doys \in SUBSET Days : Start("fetch", Wanted(limit, doys), doys)
    BY <1>2 DEF FetchNav
  <2>2. Wanted(limit, doys) \subseteq Days /\ (doys # {} => Wanted(limit, doys) \subseteq doys)
    BY DEF Wanted, NavInv, Typed
  <2>3. QED
    BY <2>1, <2>2, StartKeeps
<1>3. CASE VerifyNav
  BY <1>3, StartKeeps DEF VerifyNav, VerifiedDays, NavInv, Typed
<1>4. CASE WritePlan
  BY <1>4, PlanWritten DEF WritePlan, bounds, NavInv, Typed
<1>5. CASE KeepCached \/ BeginDownload \/ RejectPayload \/ StorePayload
  BY <1>5, KeepCachedKeeps, BeginDownloadKeeps, RejectPayloadKeeps, StorePayloadKeeps
<1>6. CASE AttemptFails \/ GiveUp \/ FetchDone
  BY <1>6, AttemptFailsKeeps, GiveUpKeeps, FetchDoneKeeps
<1>7. CASE MergeRaises
  BY <1>7, IdleKeeps DEF MergeRaises, bounds, NavInv, Typed
<1>8. CASE VerifyMissing \/ HashProduct \/ CheckProduct \/ WriteProducts
  BY <1>8, VerifyMissingKeeps, HashProductKeeps, CheckProductKeeps, WriteProductsKeeps
<1>9. CASE VerifyDone
  BY <1>9
  DEF VerifyDone, disk, bounds, NavInv, Typed, RowsSound, RowsExact, CommandInv, VerifyInv
<1>10. CASE Die
  BY <1>10, IdleKeeps DEF Die, NavInv, Typed
<1>11. CASE DiePlanning
  <2>1. plan'.days \subseteq Days
    BY <1>11 DEF DiePlanning, NavInv, Typed
  <2>2. deaths' \in Nat /\ damages' \in Nat
    BY <1>11 DEF DiePlanning, NavInv, Typed
  <2>3. Idle /\ verified' = FALSE /\ UNCHANGED <<file, products, ledger>>
    BY <1>11 DEF DiePlanning
  <2>4. QED
    BY <2>1, <2>2, <2>3, PlanWritten, Zenon
<1>12. CASE DieWriting \/ Damage
  BY <1>12, DieWritingKeeps, DamageKeeps
<1>13. QED
  BY <1>1, <1>2, <1>3, <1>4, <1>5, <1>6, <1>7, <1>8, <1>9, <1>10, <1>11, <1>12,
     StutterKeeps DEF Next, Step

THEOREM InvariantHolds == Spec => []NavInv
<1>1. Init => NavInv
  BY InitNavInv
<1>2. NavInv /\ [Next]_vars => NavInv'
  BY NextNavInv
<1>3. QED
  BY <1>1, <1>2, PTL DEF Spec

-----------------------------------------------------------------------------
\* Once an inventory exists, navigation is admitted only while the stored
\* product passes verification (nav_inventory_by_day).
THEOREM AdmissionSound == Spec => []AdmittedSound
<1>1. NavInv => AdmittedSound
  BY DEF NavInv, RowsSound, AdmittedSound, NavDays, Admitted
<1>2. QED
  BY <1>1, InvariantHolds, PTL

\* After verify-nav the inventory has the planned days, and admits exactly
\* those whose product is sound, whatever becomes of the products.
THEOREM VerificationExact == Spec => []VerifiedExact
<1>1. NavInv => VerifiedExact
  <2> SUFFICES ASSUME NavInv, verified
               PROVE  /\ DOMAIN products = plan.days
                      /\ NavDays = {d \in plan.days : Sound(file[d])}
    BY DEF VerifiedExact
  <2>1. ledger # "absent" /\ DOMAIN products = plan.days /\ plan.days \subseteq Days
    BY DEF NavInv, Typed, VerifyInv
  <2>2. \A d \in plan.days : Admitted(d) <=> Sound(file[d])
    BY <2>1 DEF NavInv, VerifyInv, RowsExact, Admitted, Sound
  <2>3. NavDays = {d \in Days : Admitted(d)}
    BY <2>1 DEF NavDays
  <2>4. \A d \in Days : Admitted(d) => d \in plan.days
    BY <2>1 DEF Admitted
  <2>5. QED
    BY <2>1, <2>2, <2>3, <2>4
<1>2. QED
  BY <1>1, InvariantHolds, PTL

\* No command replaces a sound product: _fetch_one keeps what passes
\* verification, and only damage ends that.
THEOREM SoundNeverLost == Spec => SoundKept
<1> DEFINE Kept == \A d \in Days :
      (Sound(file[d]) /\ file'[d] # file[d]) => damages' = damages + 1
<1>1. NavInv /\ [Next]_vars => Kept
  <2> SUFFICES ASSUME NavInv, [Next]_vars PROVE Kept
    OBVIOUS
  <2>1. CASE StorePayload
    <3>1. PICK e \in Days, c \in Payloads : Current(e) /\ file' = [file EXCEPT ![e] = c]
      BY <2>1 DEF StorePayload
    <3>2. ~Sound(file[e])
      BY <2>1, <3>1 DEF StorePayload, Attempting, Current, NavInv, CommandInv
    <3>3. QED
      BY <3>1, <3>2 DEF NavInv, Typed
  <2>2. CASE Damage
    BY <2>2 DEF Damage
  <2>3. CASE ~StorePayload /\ ~Damage
    <3>1. UNCHANGED file
      BY <2>3
      DEF Next, Step, PlanNav, FetchNav, VerifyNav, Start, WritePlan, KeepCached,
          BeginDownload, RejectPayload, AttemptFails, GiveUp, FetchDone, MergeRaises,
          VerifyMissing, HashProduct, CheckProduct, VerifyDone, WriteProducts, Die,
          DiePlanning, DieWriting, vars, disk
    <3>2. QED
      BY <3>1
  <2>4. QED
    BY <2>1, <2>2, <2>3
<1>2. NavInv /\ [Next]_vars => [Kept]_vars
  BY <1>1
<1>3. QED
  BY <1>2, InvariantHolds, PTL DEF Spec, SoundKept

\* A completed targeted fetch keeps the rows of the days it was not asked for
\* (the merge in cmd_fetch_nav).
THEOREM OthersStay == Spec => OthersKept
<1> DEFINE Kept ==
      (pc = "write" /\ targets # {} /\ ledger # "absent" /\ pc' = "idle" /\ deaths' = deaths)
        => \A d \in DOMAIN products \ targets :
             d \in DOMAIN products' /\ products'[d] = products[d]
<1>1. NavInv /\ [Next]_vars => Kept
  <2> SUFFICES ASSUME NavInv, [Next]_vars, pc = "write", targets # {},
                      ledger # "absent", pc' = "idle", deaths' = deaths
               PROVE  \A d \in DOMAIN products \ targets :
                        d \in DOMAIN products' /\ products'[d] = products[d]
    OBVIOUS
  <2>1. products' = results \/ products' = products
    BY DEF Next, Step, PlanNav, FetchNav, VerifyNav, Start, WritePlan, KeepCached,
           BeginDownload, RejectPayload, StorePayload, Attempting, AttemptFails, GiveUp,
           FetchDone, MergeRaises, VerifyMissing, HashProduct, CheckProduct, VerifyDone,
           WriteProducts, Die, DiePlanning, DieWriting, Damage, NavInv, Typed, vars, disk
  <2>2. QED
    BY <2>1 DEF NavInv, CommandInv
<1>2. NavInv /\ [Next]_vars => [Kept]_vars
  BY <1>1
<1>3. QED
  BY <1>2, InvariantHolds, PTL DEF Spec, OthersKept

---------------------------------------------------------------------------
(* The gates of the scientific expansion.                                  *)

\* One station's cell passes both functions' gates or neither, when each finds
\* the station placed.
LEMMA SameGate ==
  ASSUME NEW nav, NEW d, NEW s,
         d \in CoverageCoordinates(registry)[s] <=> d \in CatalogCoordinates(registry)[s]
  PROVE  LET cell == Cell(sessions, nav, CatalogCoordinates(registry), s, d) IN
         Processable(Cell(sessions, nav, CoverageCoordinates(registry), s, d)) <=>
           /\ cell.classification = "ACCEPT" /\ FULL \in cell.findings
           /\ cell.navigation /\ cell.coordinate
  BY DEF Processable, Cell

\* A day that can be solved once it has navigation has stations enough to be
\* planned.
LEMMA ServedIsPlanned ==
  ASSUME Least <= 2, NEW d \in Days, NEW nav, NEW coordinates,
         SingleBasePossible(Eligible(sessions, nav, coordinates, d))
  PROVE  d \in planned
<1> DEFINE served == Eligible(sessions, nav, coordinates, d)
           full == Overlap(sessions, d, TRUE, TRUE)
<1>1. served \subseteq full /\ full \subseteq Stations
  BY DEF Eligible, Overlap, ObservedOn, Cell
<1>2. IsFiniteSet(full) /\ Cardinality(full) \in Nat
  BY <1>1, CatalogAssumption, FS_Subset, FS_CardinalityType
<1>3. Cardinality(served) <= Cardinality(full)
  BY <1>1, <1>2, FS_Subset
<1>4. Cardinality(served) \in Nat /\ Cardinality(served) >= 2
  BY <1>1, <1>2, FS_Subset, FS_CardinalityType DEF SingleBasePossible
<1>5. Cardinality(full) > 0 /\ Cardinality(full) >= Least
  <2>1. Least \in Nat
    BY NavAssumption
  <2> HIDE DEF served, full
  <2> QED
    BY <1>2, <1>3, <1>4, <2>1
<1> QED
  BY <1>5 DEF planned, PlanDays

\* A day the catalogue cannot solve, and could with navigation, has none.
LEMMA LacksNavigation ==
  ASSUME NEW d, NEW nav, NEW coordinates,
         SingleBasePossible(Eligible(sessions, nav \cup {d}, coordinates, d)),
         ~SingleBasePossible(Eligible(sessions, nav, coordinates, d))
  PROVE  "BLOCKED_NAVIGATION" \in BlockedReasons(sessions, nav, coordinates, d)
<1>1. d \notin nav
  <2> SUFFICES ASSUME d \in nav PROVE FALSE
    OBVIOUS
  <2>1. nav \cup {d} = nav
    OBVIOUS
  <2> QED
    BY <2>1
<1> QED
  BY <1>1 DEF BlockedReasons

\* Coverage, plan-nav and the catalogue apply the same gates to whatever they
\* read, with any stations and days, as long as --min-stations asks for no more
\* than the two stations a single base needs (its default).
THEOREM GatesAlwaysAgree == ASSUME Least <= 2 PROVE GatesAgree
<1> SUFFICES ASSUME NEW d \in DOMAIN catalog
             PROVE
    /\ (\A s \in Stations : registry[s].valid => registry[s].epoch = CoordinateDay) =>
         catalog[d].stations =
           {s \in ObservedOn(sessions, d) \cap Coordinated : Processable(coverage(s, d))}
    /\ LET served == Eligible(sessions, NavDays \cup {d}, CatalogCoordinates(registry), d) IN
       (SingleBasePossible(served) /\ ~SingleBasePossible(catalog[d].stations)) =>
         d \in planned /\ "BLOCKED_NAVIGATION" \in catalog[d].reasons
  BY DEF GatesAgree
<1>1. /\ d \in Days
      /\ catalog[d].stations = Eligible(sessions, NavDays, CatalogCoordinates(registry), d)
      /\ catalog[d].reasons = BlockedReasons(sessions, NavDays, CatalogCoordinates(registry), d)
  BY DEF catalog, CatalogOf
<1>2. ASSUME \A s \in Stations : registry[s].valid => registry[s].epoch = CoordinateDay
      PROVE  catalog[d].stations =
               {s \in ObservedOn(sessions, d) \cap Coordinated : Processable(coverage(s, d))}
  <2>1. \A s \in Stations :
          d \in CoverageCoordinates(registry)[s] <=> d \in CatalogCoordinates(registry)[s]
    BY <1>2 DEF CoverageCoordinates, CatalogCoordinates
  <2>2. ObservedOn(sessions, d) \subseteq Stations
    BY DEF ObservedOn
  <2> QED
    BY <1>1, <2>1, <2>2, SameGate DEF Eligible, coverage
<1>3. ASSUME SingleBasePossible(Eligible(sessions, NavDays \cup {d}, CatalogCoordinates(registry), d)),
             ~SingleBasePossible(catalog[d].stations)
      PROVE  d \in planned /\ "BLOCKED_NAVIGATION" \in catalog[d].reasons
  BY <1>1, <1>3, ServedIsPlanned, LacksNavigation
<1> QED
  BY <1>2, <1>3
=============================================================================
