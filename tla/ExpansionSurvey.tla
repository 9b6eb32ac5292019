---------------------------- MODULE ExpansionSurvey ----------------------------
(***************************************************************************)
(* One archive as the commands of run_scientific_expansion.py read it:     *)
(* cmd_coverage, cmd_plan_nav and cmd_catalog apply the gates of the       *)
(* scientific expansion to the same sessions and the same coordinates.     *)
(***************************************************************************)
EXTENDS NavAcquisition

VARIABLES
  sessions,   \* what manifest and quality control say of each station and day
  registry    \* the coordinate of each station

inputs == <<sessions, registry>>

coverage(s, d) == Cell(sessions, NavDays, CoverageCoordinates(registry), s, d)
catalog == CatalogOf(sessions, NavDays, CatalogCoordinates(registry))
planned ==
  PlanDays([d \in Days |-> Cardinality(Overlap(sessions, d, TRUE, TRUE))], Least)

\* Three functions apply the same gates.  When every valid coordinate is of
\* the day, the catalogue admits the coordinated stations that the coverage
\* matrix calls processable; and a day that lacks nothing but navigation says
\* so in the catalogue and has its product planned by plan-nav, which looks at
\* the sessions alone.
GatesAgree ==
  \A d \in DOMAIN catalog :
    /\ (\A s \in Stations : registry[s].valid => registry[s].epoch = CoordinateDay) =>
         catalog[d].stations =
           {s \in ObservedOn(sessions, d) \cap Coordinated : Processable(coverage(s, d))}
    /\ LET served == Eligible(sessions, NavDays \cup {d}, CatalogCoordinates(registry), d) IN
       (SingleBasePossible(served) /\ ~SingleBasePossible(catalog[d].stations)) =>
         d \in planned /\ "BLOCKED_NAVIGATION" \in catalog[d].reasons
=============================================================================
