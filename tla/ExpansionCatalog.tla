--------------------------- MODULE ExpansionCatalog ---------------------------
(***************************************************************************)
(* The pure part of the scientific expansion: coverage.py, overlap.py and  *)
(* catalog.py of research/scientific_expansion, and the readings of the    *)
(* coordinate registry by two commands of run_scientific_expansion.py.     *)
(*                                                                         *)
(* sessions[s][d] is what the archive manifest and the quality-control     *)
(* table say of station s on day d: whether it was observed, the           *)
(* classification and the finding codes.  registry[s] is the coordinate of *)
(* station s: whether it is scientifically valid, and the day of its epoch.*)
(***************************************************************************)
EXTENDS Integers, FiniteSets

CONSTANTS
  Stations,      \* _CANONICAL_STATIONS
  Coordinated,   \* COORDINATED_STATIONS
  Days,          \* days of the year
  CoordinateDay  \* the day both commands admit coordinates for, 26

ASSUME CatalogAssumption ==
  /\ Coordinated \subseteq Stations /\ IsFiniteSet(Stations)
  /\ Days \subseteq Nat /\ CoordinateDay \in Days /\ IsFiniteSet(Days)

FULL == "FULL_SESSION"

---------------------------------------------------------------------------
(* coverage.py: one cell for each observed station and day                 *)

\* cmd_coverage compares the epoch, cmd_catalog does not.
CoverageCoordinates(registry) ==
  [s \in Stations |->
     IF registry[s].valid /\ registry[s].epoch = CoordinateDay
     THEN {CoordinateDay} ELSE {}]
CatalogCoordinates(registry) ==
  [s \in Stations |-> IF registry[s].valid THEN {CoordinateDay} ELSE {}]

ObservedOn(sessions, d) == {s \in Stations : sessions[s][d].observed}

Cell(sessions, nav, coordinateDays, s, d) ==
  [classification |-> sessions[s][d].classification,
   findings |-> sessions[s][d].findings,
   navigation |-> d \in nav,
   coordinate |-> d \in coordinateDays[s]]

ProcessableUnnavigated(cell) ==
  cell.classification = "ACCEPT" /\ cell.coordinate /\ FULL \in cell.findings
Processable(cell) ==
  /\ cell.classification = "ACCEPT"
  /\ cell.navigation /\ cell.coordinate
  /\ FULL \in cell.findings

---------------------------------------------------------------------------
(* overlap.py                                                              *)

Overlap(sessions, d, coordinatedOnly, requireFull) ==
  {s \in ObservedOn(sessions, d) :
     /\ coordinatedOnly => s \in Coordinated
     /\ requireFull => FULL \in sessions[s][d].findings}

\* cmd_plan_nav: the days of overlap-coordinated-full.csv with enough stations.
PlanDays(count, least) == {d \in Days : count[d] > 0 /\ count[d] >= least}

---------------------------------------------------------------------------
(* catalog.py: build_processable_catalog                                   *)

Eligible(sessions, nav, coordinateDays, d) ==
  {s \in ObservedOn(sessions, d) \cap Coordinated :
     LET cell == Cell(sessions, nav, coordinateDays, s, d) IN
     /\ cell.classification = "ACCEPT" /\ FULL \in cell.findings
     /\ cell.navigation /\ cell.coordinate}

SingleBasePossible(stations) == Cardinality(stations) >= 2

BlockedReasons(sessions, nav, coordinateDays, d) ==
  LET observed == ObservedOn(sessions, d)
      placed == {s \in observed : d \in coordinateDays[s]}
      accepted == {s \in observed : /\ sessions[s][d].classification = "ACCEPT"
                                    /\ FULL \in sessions[s][d].findings}
      reasons == (IF Cardinality(observed) < 2 THEN {"INSUFFICIENT_OVERLAP"} ELSE {})
            \cup (IF d \notin nav THEN {"BLOCKED_NAVIGATION"} ELSE {})
            \cup (IF Cardinality(placed) < 2 THEN {"BLOCKED_COORDINATE_INTERVAL"} ELSE {})
            \cup (IF Cardinality(accepted) < 2 THEN {"BLOCKED_QC"} ELSE {})
  IN IF SingleBasePossible(Eligible(sessions, nav, coordinateDays, d)) THEN {}
     ELSE IF reasons = {} THEN {"BLOCKED_UNKNOWN"} ELSE reasons

CatalogOf(sessions, nav, coordinateDays) ==
  [d \in {e \in Days : ObservedOn(sessions, e) # {}} |->
     [stations |-> Eligible(sessions, nav, coordinateDays, d),
      reasons |-> BlockedReasons(sessions, nav, coordinateDays, d)]]
=============================================================================
