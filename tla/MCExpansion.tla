----------------------------- MODULE MCExpansion -----------------------------
(* The scientific expansion on two days: every run of the navigation        *)
(* commands over the responses that verification, caching and the           *)
(* error-page test tell apart; and every small archive, surveyed in one     *)
(* step, whose navigation is what the inventory then admits.                *)
EXTENDS ExpansionSurvey

Bytes(page, whole, header, own, other) ==
  [bytes |-> 1, page |-> page, whole |-> whole, header |-> header,
   own |-> own, other |-> other]

Good == Bytes(FALSE, TRUE, TRUE, 2, 0)
Edge == Bytes(FALSE, TRUE, TRUE, 1, 1)    \* half of the ephemerides are of the day
Foreign == Bytes(FALSE, TRUE, TRUE, 1, 2)
Cut == Bytes(FALSE, FALSE, TRUE, 1, 0)
ErrorPage == Bytes(TRUE, FALSE, FALSE, 0, 0)
Empty == [NoFile EXCEPT !.bytes = 0]

MCPayloads == {Good, Edge, Foreign, Empty, ErrorPage}
MCDamages == {Cut, NoFile}
MCStationCounts == {[d \in Days |-> IF d = CoordinateDay THEN 1 ELSE 2], [d \in Days |-> 2]}

---------------------------------------------------------------------------
Unobserved == [observed |-> FALSE, classification |-> "UNKNOWN", findings |-> {}]
Session(classification, findings) ==
  [observed |-> TRUE, classification |-> classification, findings |-> findings]
Ready == Session("ACCEPT", {FULL})
\* What classify_session may leave of a session: only a full one is accepted.
Sessions ==
  {Unobserved, Ready, Session("WARN", {"PARTIAL_SESSION"}),
   Session("BLOCKED", {FULL, "NAVIGATION_PRODUCT_MISSING"})}
Coordinate(valid, epoch) == [valid |-> valid, epoch |-> epoch]
Coordinates ==
  {Coordinate(TRUE, CoordinateDay), Coordinate(TRUE, CoordinateDay + 1),
   Coordinate(FALSE, CoordinateDay)}

MCInit ==
  /\ Init
  /\ sessions = [s \in Stations |-> [d \in Days |-> Unobserved]]
  /\ registry = [s \in Stations |-> Coordinate(FALSE, CoordinateDay)]

\* An archive as it may be when the catalogue is made, after the last command.
Survey ==
  /\ pc = "idle" /\ runs = 0
  /\ \E found \in [Stations -> Sessions], coordinates \in [Stations -> Coordinates] :
       /\ sessions' = [s \in Stations |-> [sessions[s] EXCEPT ![CoordinateDay] = found[s]]]
       /\ registry' = coordinates
  /\ \E product \in {NoFile, Good}, status \in {"UNVALIDATED", "ACCEPTED"} :
       /\ file' = [file EXCEPT ![CoordinateDay] = product]
       /\ products' = [d \in {CoordinateDay} |-> Row(product, status)]
  /\ ledger' = "whole"
  /\ runs' = MaxRuns /\ damages' = MaxDamages
  /\ UNCHANGED <<plan, command, verified, deaths>>

MCNext == Survey \/ (Next /\ UNCHANGED inputs)
MCSpec == MCInit /\ [][MCNext]_<<vars, inputs>>
=============================================================================
