---------------------------- MODULE NavAcquisition ----------------------------
(***************************************************************************)
(* Broadcast navigation for the scientific expansion: the commands         *)
(* plan-nav, fetch-nav and verify-nav of run_scientific_expansion.py over  *)
(* nav_acquisition.py, and the inventory that coverage and catalog admit   *)
(* navigation from (nav_inventory_by_day).                                 *)
(*                                                                         *)
(* One operator runs one command after another.  The server may send       *)
(* anything, a stored product may be damaged or removed at any time, and a *)
(* command may be killed at any step, also while it writes a CSV file.     *)
(* A product's bytes, and the SHA-256 that stands for them, are the record *)
(* of what a reader finds in them.  Provenance columns and the temporary   *)
(* files that a broken download leaves behind are left out.                *)
(***************************************************************************)
EXTENDS ExpansionCatalog

CONSTANTS
  Payloads,    \* what the server may send as a complete response
  Damages,     \* what may become of a stored product
  StationCounts, \* what overlap-coordinated-full.csv may say: [Days -> Nat]
  Least,       \* --min-stations
  Limits,      \* --limit, 0 for none
  MaxRetries,  \* --retries
  MaxRuns, MaxDamages, MaxDeaths   \* bounds of the exploration

VARIABLES
  file,        \* the product of each day in external-products/brdc/2024
  plan,        \* navigation-plan.csv
  products,    \* the rows of navigation-products.csv, by day
  ledger,      \* the state of that file
  pc,          \* what the running command does next
  targets,     \* --doy of a fetch, {} for none
  queue,       \* days the command has still to see to
  attempts, hashed,   \* attempts at, or digest of, the current product
  results,     \* the rows the command has made
  verified,    \* nothing but damage has happened since the last verify-nav
  runs, damages, deaths   \* counters of the bounds

disk == <<file, plan, products, ledger>>
command == <<pc, targets, queue, attempts, hashed, results>>
bounds == <<runs, damages, deaths>>
vars == <<disk, command, verified, bounds>>

NoRows == [d \in {} |-> 0]
NoFile == [bytes |-> -1, page |-> FALSE, whole |-> FALSE, header |-> FALSE,
           own |-> 0, other |-> 0]

Exists(c) == c.bytes >= 0

\* verify_product: the archive is whole, the header is RINEX, there are
\* ephemerides, and at most half of them are of another day.
Sound(c) ==
  /\ Exists(c) /\ c.whole /\ c.header
  /\ c.own + c.other > 0
  /\ c.other <= (c.own + c.other) \div 2

ASSUME NavAssumption ==
  /\ MaxRetries \in Nat /\ Least \in Nat /\ Limits \subseteq Nat
  /\ \A c \in Payloads : c.bytes \in Nat /\ (c.bytes = 0 => ~Sound(c))
  /\ \A c \in Damages : ~Sound(c)
  /\ \A count \in StationCounts : count \in [Days -> Nat]

Row(sha, status) == [sha |-> sha, status |-> status]

Init ==
  /\ file = [d \in Days |-> NoFile]
  /\ plan = [state |-> "absent", days |-> {}]
  /\ products = NoRows /\ ledger = "absent"
  /\ pc = "idle" /\ targets = {} /\ queue = {}
  /\ attempts = 0 /\ hashed = NoFile /\ results = NoRows
  /\ verified = FALSE
  /\ runs = 0 /\ damages = 0 /\ deaths = 0

Idle ==
  /\ pc' = "idle" /\ targets' = {} /\ queue' = {}
  /\ attempts' = 0 /\ hashed' = NoFile /\ results' = NoRows

\* A command starts on the days it found.
Start(step, days, doys) ==
  /\ pc = "idle" /\ runs < MaxRuns
  /\ runs' = runs + 1
  /\ pc' = step /\ queue' = days /\ targets' = doys
  /\ UNCHANGED <<disk, attempts, hashed, results, verified, damages, deaths>>

\* Rows are made in the order of the days.
Current(d) == d \in queue /\ \A e \in queue : d <= e
Record(d, row) ==
  /\ results' = [e \in DOMAIN results \cup {d} |-> IF e = d THEN row ELSE results[e]]
  /\ queue' = queue \ {d}

---------------------------------------------------------------------------
(* plan-nav                                                                *)

PlanNav == \E count \in StationCounts : Start("plan", PlanDays(count, Least), {})

WritePlan ==
  /\ pc = "plan"
  /\ plan' = [state |-> "whole", days |-> queue]
  /\ verified' = FALSE
  /\ Idle
  /\ UNCHANGED <<file, products, ledger, bounds>>

---------------------------------------------------------------------------
(* fetch-nav.  A plan that ends in a torn row cannot be read.              *)

Wanted(limit, doys) ==
  {d \in plan.days :
     /\ limit > 0 => Cardinality({e \in plan.days : e < d}) < limit
     /\ doys # {} => d \in doys}

FetchNav ==
  /\ plan.state = "whole"
  /\ \E limit \in Limits, doys \in SUBSET Days :
       Start("fetch", Wanted(limit, doys), doys)

Cached(d) == Exists(file[d]) /\ file[d].bytes > 0 /\ Sound(file[d])

\* _fetch_one: a stored product that passes verification is kept.
KeepCached ==
  /\ pc = "fetch"
  /\ \E d \in Days :
       /\ Current(d) /\ Cached(d)
       /\ Record(d, Row(file[d], "UNVALIDATED"))
  /\ UNCHANGED <<disk, pc, targets, attempts, hashed, verified, bounds>>

BeginDownload ==
  /\ pc = "fetch"
  /\ \E d \in Days : Current(d) /\ ~Cached(d)
  /\ pc' = "download" /\ attempts' = 0
  /\ UNCHANGED <<disk, targets, queue, hashed, results, verified, bounds>>

Attempting == pc = "download" /\ attempts < MaxRetries
Downloaded(d, row) ==
  /\ Record(d, row)
  /\ pc' = "fetch" /\ attempts' = 0
  /\ UNCHANGED <<targets, hashed>>

\* An empty response or an error page is final; the stored bytes are kept.
RejectPayload ==
  /\ Attempting
  /\ \E d \in Days, c \in Payloads :
       /\ Current(d) /\ (c.bytes = 0 \/ c.page)
       /\ Downloaded(d, Row(NoFile, "REJECTED"))
  /\ UNCHANGED <<disk, verified, bounds>>

\* Anything else is renamed over the product, and verified by verify-nav only.
StorePayload ==
  /\ Attempting
  /\ \E d \in Days, c \in Payloads :
       /\ Current(d) /\ c.bytes > 0 /\ ~c.page
       /\ file' = [file EXCEPT ![d] = c]
       /\ Downloaded(d, Row(c, "UNVALIDATED"))
  /\ verified' = FALSE
  /\ UNCHANGED <<plan, products, ledger, bounds>>

AttemptFails ==
  /\ Attempting
  /\ attempts' = attempts + 1
  /\ UNCHANGED <<disk, pc, targets, queue, hashed, results, verified, bounds>>

GiveUp ==
  /\ pc = "download" /\ attempts = MaxRetries
  /\ \E d \in Days : Current(d) /\ Downloaded(d, Row(NoFile, "BLOCKED"))
  /\ UNCHANGED <<disk, verified, bounds>>

\* A targeted fetch keeps the rows of the days it did not fetch.
Merged(rows) ==
  [d \in DOMAIN rows \cup DOMAIN products |->
     IF d \in DOMAIN rows THEN rows[d] ELSE products[d]]

FetchDone ==
  /\ pc = "fetch" /\ queue = {}
  /\ LET merges == targets # {} /\ ledger # "absent" IN
     /\ merges => ledger = "whole"
     /\ results' = IF merges THEN Merged(results) ELSE results
  /\ pc' = "write"
  /\ UNCHANGED <<disk, targets, queue, attempts, hashed, verified, bounds>>

\* int(row["doy"]) raises on the torn row of an earlier death.
MergeRaises ==
  /\ pc = "fetch" /\ queue = {} /\ targets # {} /\ ledger \in {"blank", "torn"}
  /\ Idle
  /\ UNCHANGED <<disk, verified, bounds>>

---------------------------------------------------------------------------
(* verify-nav.  It skips a row whose day is blank, but not a shorter one.  *)

VerifiedDaysKnown == plan.days \cap DOMAIN products
VerifiedDays == plan.days

VerifyNav ==
  /\ plan.state = "whole" /\ ledger # "torn"
  /\ Start("hash", VerifiedDays, {})

Recorded(d) == IF d \in DOMAIN products THEN products[d].sha ELSE NoFile

VerifyMissing ==
  /\ pc = "hash"
  /\ \E d \in Days :
       /\ Current(d) /\ ~Exists(file[d])
       /\ Record(d, Row(Recorded(d), "REJECTED"))
  /\ UNCHANGED <<disk, pc, targets, attempts, hashed, verified, bounds>>

HashProduct ==
  /\ pc = "hash"
  /\ \E d \in Days : Current(d) /\ Exists(file[d]) /\ hashed' = file[d]
  /\ pc' = "check"
  /\ UNCHANGED <<disk, targets, queue, attempts, results, verified, bounds>>

CheckProduct ==
  /\ pc = "check"
  /\ \E d \in Days :
       /\ Current(d)
       /\ Record(d, Row(hashed, IF Sound(file[d]) THEN "ACCEPTED" ELSE "REJECTED"))
  /\ pc' = "hash" /\ hashed' = NoFile
  /\ UNCHANGED <<disk, targets, attempts, verified, bounds>>

VerifyDone ==
  /\ pc = "hash" /\ queue = {}
  /\ pc' = "write verified"
  /\ UNCHANGED <<disk, targets, queue, attempts, hashed, results, verified, bounds>>

WriteProducts ==
  /\ pc \in {"write", "write verified"}
  /\ products' = results /\ ledger' = "whole"
  /\ verified' = (pc = "write verified")
  /\ Idle
  /\ UNCHANGED <<file, plan, bounds>>

---------------------------------------------------------------------------
(* Deaths and damage                                                       *)

Die ==
  /\ pc # "idle" /\ deaths < MaxDeaths
  /\ deaths' = deaths + 1
  /\ Idle
  /\ UNCHANGED <<disk, verified, runs, damages>>

\* The file was truncated when it was opened: the rows of the first days are
\* there, and perhaps a piece of the next one, which may end before its day
\* ("torn"), just after it ("blank"), or in a later column ("cut").
DiePlanning ==
  /\ pc = "plan" /\ deaths < MaxDeaths
  /\ deaths' = deaths + 1
  /\ \E d \in Days, state \in {"whole", "torn"} :
       plan' = [state |-> state, days |-> {e \in queue : e < d}]
  /\ verified' = FALSE
  /\ Idle
  /\ UNCHANGED <<file, products, ledger, runs, damages>>

DieWriting ==
  /\ pc \in {"write", "write verified"} /\ deaths < MaxDeaths
  /\ deaths' = deaths + 1
  /\ \E d \in Days, tail \in {"none", "blank", "torn", "cut"} :
       /\ products' = [e \in {f \in DOMAIN results : f < d \/ (f = d /\ tail = "cut")} |->
                         IF e < d THEN results[e] ELSE Row(NoFile, "UNVALIDATED")]
       /\ ledger' = IF tail \in {"blank", "torn"} THEN tail ELSE "whole"
  /\ verified' = FALSE
  /\ Idle
  /\ UNCHANGED <<file, plan, runs, damages>>

Damage ==
  /\ damages < MaxDamages
  /\ \E d \in Days, c \in Damages :
       /\ Exists(file[d]) /\ c # file[d]
       /\ file' = [file EXCEPT ![d] = c]
  /\ damages' = damages + 1
  /\ UNCHANGED <<plan, products, ledger, command, verified, runs, deaths>>

Step ==
  \/ WritePlan \/ KeepCached \/ BeginDownload \/ RejectPayload \/ StorePayload
  \/ AttemptFails \/ GiveUp \/ FetchDone \/ MergeRaises
  \/ VerifyMissing \/ HashProduct \/ CheckProduct \/ VerifyDone \/ WriteProducts
Next ==
  \/ PlanNav \/ FetchNav \/ VerifyNav \/ Step
  \/ Die \/ DiePlanning \/ DieWriting \/ Damage
Spec == Init /\ [][Next]_vars

---------------------------------------------------------------------------
(* nav_inventory_by_day: the days whose navigation is admitted             *)

AdmittedUnhashed(d) ==
  /\ d \in DOMAIN products /\ products[d].status = "ACCEPTED"
  /\ Exists(file[d])
Admitted(d) ==
  /\ d \in DOMAIN products /\ products[d].status = "ACCEPTED"
  /\ Exists(file[d]) /\ products[d].sha = file[d]

NavDays ==
  IF ledger # "absent" THEN {d \in Days : Admitted(d)}
  ELSE {d \in Days : file[d].bytes > 0}

---------------------------------------------------------------------------
\* Once an inventory exists, coverage and catalog admit navigation for a day
\* only while its stored product passes verification for that day: not after
\* damage, not by a row that an earlier command, a merge or a torn file left.
AdmittedSound == ledger # "absent" => \A d \in NavDays : Sound(file[d])

\* From the end of verify-nav on, whatever deaths and partial fetches left the
\* inventory with, it has a row for every planned day and admits exactly the
\* planned days whose product is sound, until a command changes plan, products
\* or inventory.
VerifiedExact ==
  verified =>
    /\ DOMAIN products = plan.days
    /\ NavDays = {d \in plan.days : Sound(file[d])}

\* No command ever replaces a sound product, so repeated, partial or killed
\* fetches never lose a day that was won.
SoundKept ==
  [][\A d \in Days :
       (Sound(file[d]) /\ file'[d] # file[d]) => damages' = damages + 1]_vars

\* A targeted fetch that completes leaves the rows of all other days as they
\* were, planned or not.
OthersKept ==
  [][(pc = "write" /\ targets # {} /\ ledger # "absent" /\ pc' = "idle" /\ deaths' = deaths)
       => \A d \in DOMAIN products \ targets :
            d \in DOMAIN products' /\ products'[d] = products[d]]_vars
=============================================================================
