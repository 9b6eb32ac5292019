--------------------------- MODULE MCHybridDecision ---------------------------
(* Small instances of HybridDecision: three stations and the rover's, each  *)
(* starting in one of a few conditions.                                      *)
EXTENDS HybridDecision

MCStations == 1 .. 4

Result(status, nav, interval) ==
  [status |-> status, nav |-> nav, interval |-> interval]
Good == Result("ACCEPT", TRUE, TRUE)
NoNav == Result("ACCEPT", FALSE, TRUE)
Warned == Result("WARN", TRUE, TRUE)
Unreadable == Result("UNREADABLE", FALSE, FALSE)
MCResults == {Good, Warned, Unreadable}

\* The conditions of a station: results of both profiles and its distance.
Station(network, single, distance) ==
  [network |-> network, single |-> single, distance |-> distance]
Conditions ==
  {Station(Good, Good, 1), Station(Good, Good, 3), Station(Good, Good, 9),
   Station(Good, NoResult, 4), Station(Warned, Good, 2),
   Station(Good, Warned, 1), Station(NoNav, Good, 1),
   Station(Good, Good, Unverified)}

From(conditions) ==
  [network |-> [s \in MCStations |-> conditions[s].network],
   single |-> [s \in MCStations |-> conditions[s].single],
   coords |-> [s \in MCStations |-> conditions[s].distance]]
MCEvidence ==
  {From(<<a, b, Station(Good, Good, 3), Station(Good, Good, 0)>>) :
     a \in Conditions, b \in {Station(Good, Good, 2), Station(Good, Warned, 7)}}
MCDistances == {9}

AllRequests ==
  [mode: Modes, fallback: BOOLEAN, diagnostic: BOOLEAN,
   byStation: BOOLEAN, byPosition: BOOLEAN]
MCRequests ==
  {r \in AllRequests :
    /\ r.fallback \/ (r.mode = "AUTO" /\ ~r.diagnostic)
    /\ r.diagnostic => r.byStation /\ ~r.byPosition
    /\ r.byStation \/ r.byPosition \/ r.mode = "AUTO"}

Default ==
  [minimum |-> 3, extrapolation |-> FALSE, fallback |-> TRUE, preview |-> TRUE,
   needModel |-> TRUE, needVrs |-> TRUE,
   preferred |-> 1, degraded |-> 3, maximum |-> 6]
MCPolicies ==
  {Default, [Default EXCEPT !.fallback = FALSE, !.preview = FALSE],
   [Default EXCEPT !.extrapolation = TRUE, !.needModel = FALSE]}

Approved ==
  [spatial |-> "APPROVED", vrs |-> "APPROVED", leakage |-> "PASS",
   override |-> "NONE", spatialPrint |-> TRUE, vrsPrint |-> TRUE]
MCUpstreams ==
  {Approved, [Approved EXCEPT !.spatial = "REJECTED"],
   [Approved EXCEPT !.vrs = "NOT_VALIDATED"],
   [Approved EXCEPT !.leakage = "UNASSESSED", !.spatialPrint = FALSE],
   [Approved EXCEPT !.override = "FAIL"]}

=============================================================================
