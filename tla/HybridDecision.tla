--------------------------- MODULE HybridDecision ---------------------------
(***************************************************************************)
(* The hybrid decision engine, from the command that starts it to the      *)
(* decision it records: it reads the verified coordinates and the quality  *)
(* results of every station, some of them twice and none under a lock,     *)
(* passes them through the network, single-base and VRS gates, and answers *)
(* VRS, SINGLE_BASE or NO_CORRECTION.  Meanwhile quality control and       *)
(* coordinate derivation may rewrite what it reads.                        *)
(*                                                                         *)
(* A position is represented by its distance to the target; a file's       *)
(* fingerprint by the file.                                                *)
(***************************************************************************)
EXTENDS Integers, FiniteSets, Sequences

CONSTANTS
  Stations,      \* station identifiers, numbered in their order
  Rover,         \* the station the rover stands at
  Requests,      \* desired_mode, allow_fallback, diagnostic, and whether the
                 \* target is named by its station and whether by target_ecef
  Policies,      \* the DecisionPolicy fields that decide something
  Upstreams,     \* Phase 6 and 7 assessments and the leakage flag
  Results,       \* contents a qc-result.json may be given
  Distances,     \* distances of a verified station
  ContainedUpTo, \* farthest reference that never counts as extrapolation
  Evidence,      \* files a behaviour may start with
  MaxRewrites,   \* bound: files rewritten
  MaxDecisions   \* bound: decisions made

QCStatuses == {"ACCEPT", "WARN", "REJECT", "BLOCKED", "MISSING"}
Modes == {"AUTO", "VRS_ONLY", "SINGLE_BASE_ONLY"}
Unverified == -1
NoStation == 0
Damaged == << >>   \* a derived-coordinates.json that cannot be loaded

ASSUME DecisionAssumption ==
  /\ Stations \subseteq Nat \ {NoStation} /\ Rover \in Stations
  /\ IsFiniteSet(Stations)
  /\ Requests \subseteq [mode: Modes, fallback: BOOLEAN, diagnostic: BOOLEAN,
                         byStation: BOOLEAN, byPosition: BOOLEAN]
  /\ Policies \subseteq [minimum: Nat, extrapolation: BOOLEAN,
                         fallback: BOOLEAN, preview: BOOLEAN,
                         needModel: BOOLEAN, needVrs: BOOLEAN,
                         preferred: Nat, degraded: Nat, maximum: Nat]
  /\ \A p \in Policies :
       p.minimum >= 3 /\ p.preferred <= p.degraded /\ p.degraded <= p.maximum
  /\ Distances \subseteq Nat /\ ContainedUpTo \in Nat
  /\ \A e \in Evidence :
       e.coords = Damaged \/ e.coords \in [Stations -> Nat \union {Unverified}]
  /\ MaxRewrites \in Nat /\ MaxDecisions \in Nat

VARIABLES
  pc,          \* what the command does next
  request, policy, upstream,
  networkQc,   \* networkQc[s]: the qc-result.json of profile network_rtk
  singleQc,    \* singleQc[s]: the one of profile single_base_rtk
  coords,      \* derived-coordinates.json
  verified,    \* the coordinates discovery loaded
  known,       \* is the target's position resolved?
  candidates,  \* discovery.candidates, by station
  digest,      \* verified_coordinates_fingerprint
  singleMap,   \* single_qc: the single_base_rtk outcomes, read again
  recorded,    \* decisions made, each with what its fingerprint covers
  rewrites     \* files rewritten so far

files == <<networkQc, singleQc, coords>>
inputs == <<request, policy, upstream>>
reads == <<verified, known, candidates, digest, singleMap>>
vars == <<pc, inputs, files, reads, recorded, rewrites>>

Readable(r) == r.status \in QCStatuses
NoResult == [status |-> "ABSENT", nav |-> FALSE, interval |-> FALSE]
Exists(r) == r.status # "ABSENT"

Init ==
  /\ pc = "idle"
  /\ request \in Requests /\ policy \in Policies /\ upstream \in Upstreams
  /\ \E e \in Evidence :
       networkQc = e.network /\ singleQc = e.single /\ coords = e.coords
  /\ verified = [s \in Stations |-> Unverified] /\ known = FALSE
  /\ candidates = << >> /\ digest = << >> /\ singleMap = << >>
  /\ recorded = << >> /\ rewrites = 0

---------------------------------------------------------------------------
(* Discovery.                                                              *)

ByStationOnly == request.byStation /\ ~request.byPosition
RoverVerified == coords # Damaged /\ coords[Rover] # Unverified

\* load_request: a target named by its station only gets the position of
\* that station, if it is verified now.  A latitude and a longitude make a
\* request valid, but no step ever turns them into a position.
ResolveTarget ==
  /\ pc = "idle" /\ Len(recorded) < MaxDecisions
  /\ ByStationOnly => coords # Damaged
  /\ known' = (request.byPosition \/ (ByStationOnly /\ RoverVerified))
  /\ pc' = "load"
  /\ UNCHANGED <<inputs, files, verified, candidates, digest, singleMap,
                 recorded, rewrites>>

\* discover_candidates loads the coordinates again and, if need be, resolves
\* the target again.
LoadCoordinates ==
  /\ pc = "load" /\ coords # Damaged
  /\ verified' = coords
  /\ known' = (known \/ (ByStationOnly /\ RoverVerified))
  /\ pc' = "results"
  /\ UNCHANGED <<inputs, files, candidates, digest, singleMap, recorded,
                 rewrites>>

\* DecisionBlocked: without coordinates the command ends undecided.
CoordinatesMissing ==
  /\ coords = Damaged
  /\ \/ pc = "idle" /\ ByStationOnly /\ Len(recorded) < MaxDecisions
     \/ pc = "load"
  /\ pc' = "blocked"
  /\ UNCHANGED <<inputs, files, reads, recorded, rewrites>>

QcStatus(r) == IF Readable(r) THEN r.status ELSE "MISSING"

Rank ==
  [ACCEPT |-> 0, WARN |-> 1, REJECT |-> 2, BLOCKED |-> 3, MISSING |-> 4]
BetterStatus(a, b) == IF Rank[a] <= Rank[b] THEN a ELSE b

\* One candidate from two results: the better status of the two, everything
\* else from the network result whenever there is one.
Candidate(network, single, distance) ==
  LET primary == IF Readable(network) THEN network ELSE single
      read == Readable(primary)
  IN [qc |-> BetterStatus(QcStatus(network), QcStatus(single)),
      nav |-> read /\ primary.nav,
      interval |-> read /\ primary.interval,
      verified |-> distance # Unverified,
      distance |-> distance,
      print |-> IF read THEN primary ELSE NoResult]

ReadResults ==
  /\ pc = "results"
  /\ candidates' =
       [s \in {t \in Stations : Exists(networkQc[t]) \/ Exists(singleQc[t])}
          |-> Candidate(networkQc[s], singleQc[s], verified[s])]
  /\ pc' = "hash"
  /\ UNCHANGED <<inputs, files, verified, known, digest, singleMap, recorded,
                 rewrites>>

\* _coordinates_fingerprint opens the coordinates a third time, and adds the
\* stations that were verified the second time.
HashCoordinates ==
  /\ pc = "hash"
  /\ digest' = <<coords, {s \in Stations : verified[s] # Unverified}>>
  /\ pc' = "single"
  /\ UNCHANGED <<inputs, files, verified, known, candidates, singleMap,
                 recorded, rewrites>>

\* _single_base_qc_map reads the single-base results a second time.
ReadSingleMap ==
  /\ pc = "single"
  /\ singleMap' =
       [s \in {t \in Stations : Exists(singleQc[t])}
          |-> IF Readable(singleQc[s]) THEN singleQc[s].status ELSE "BLOCKED"]
  /\ pc' = "decide"
  /\ UNCHANGED <<inputs, files, verified, known, candidates, digest, recorded,
                 rewrites>>

---------------------------------------------------------------------------
(* The gates, over any set of candidates c.                                *)

Pool(c) == {s \in DOMAIN c : ~(request.byStation /\ s = Rover)}

\* assess_network
Accepted(c) == {s \in Pool(c) : c[s].qc = "ACCEPT"}
Admitted(c) == {s \in Accepted(c) : c[s].verified /\ c[s].nav}

Extrapolated(c) ==
  \E far, near \in Admitted(c) :
    /\ c[far].distance > 2 * c[near].distance
    /\ c[far].distance > ContainedUpTo

Geometry(c) ==
  CASE Cardinality(Admitted(c)) < 3 -> "INSUFFICIENT"
    [] Cardinality(Admitted(c)) >= 3 /\ Extrapolated(c) -> "EXTRAPOLATION"
    [] OTHER -> "PASS"

\* An accepted station that cannot be admitted blocks the whole network.
Eligible(c) ==
  /\ Admitted(c) = Accepted(c)
  /\ Cardinality(Admitted(c)) >= policy.minimum
  /\ policy.extrapolation \/ ~Extrapolated(c)

\* assess_single_base
SingleStatusCandidate(c, s) == c[s].qc
SingleStatus(c, s) == IF s \in DOMAIN singleMap THEN singleMap[s] ELSE c[s].qc

Survivors(c) ==
  {s \in Pool(c) : /\ SingleStatus(c, s) = "ACCEPT"
                   /\ c[s].nav /\ c[s].verified /\ c[s].interval}

\* "distance_m or inf" puts a distance of zero behind every other.
Nearer(c, s, t) ==
  LET ds == c[s].distance
      dt == c[t].distance
  IN \/ 0 < ds /\ (ds < dt \/ dt = 0)
     \/ ds = dt /\ s <= t

Selected(c) == CHOOSE s \in Survivors(c) :
                 \A t \in Survivors(c) : Nearer(c, s, t)

Band(d) ==
  CASE d <= policy.preferred -> "preferred"
    [] d > policy.preferred /\ d <= policy.degraded -> "degraded"
    [] d > policy.degraded /\ d <= policy.maximum -> "maximum"
    [] OTHER -> "beyond_maximum"
SelectedBand(c) == Band(c[Selected(c)].distance)

Available(c) == Survivors(c) # {} /\ SelectedBand(c) # "beyond_maximum"

\* assess_vrs
Leakage ==
  IF upstream.override # "NONE" THEN upstream.override ELSE upstream.leakage
PrintsMissing == ~upstream.spatialPrint \/ ~upstream.vrsPrint

UpstreamEither ==
  /\ policy.needModel /\ policy.needVrs =>
       upstream.spatial = "APPROVED" \/ upstream.vrs = "APPROVED"
  /\ Leakage = "PASS"
  /\ ~PrintsMissing
UpstreamApproved ==
  /\ policy.needModel => upstream.spatial = "APPROVED"
  /\ policy.needVrs => upstream.vrs = "APPROVED"
  /\ Leakage = "PASS"
  /\ ~PrintsMissing

Selectable(c) == Eligible(c) /\ Geometry(c) = "PASS" /\ UpstreamApproved

BlockedCode(c) ==
  IF upstream.vrs \in {"NOT_VALIDATED", "PROVISIONAL", "UNAVAILABLE"}
    THEN "VRS_UPSTREAM_REVIEW_PENDING"
  ELSE IF upstream.spatial # "APPROVED" THEN "VRS_MODEL_NOT_VALIDATED"
  ELSE IF upstream.vrs # "BLOCKED"
          /\ ~(Eligible(c) /\ Geometry(c) = "PASS")
    THEN "VRS_GEOMETRY_INSUFFICIENT"
  ELSE "VRS_UPSTREAM_REVIEW_PENDING"

---------------------------------------------------------------------------
(* decide                                                                  *)

NoCorrection(reason) ==
  [mode |-> "NO_CORRECTION",
   status |-> IF request.diagnostic THEN "DIAGNOSTIC_ONLY" ELSE "BLOCKED",
   reason |-> reason, reference |-> NoStation, network |-> {},
   integrity |-> "BLOCKED"]

Preview(c) ==
  [NoCorrection("DIAGNOSTIC_PREVIEW") EXCEPT !.network = Admitted(c)]

\* A refusal under AUTO, which the policy lets preview.
Refusal(c, reason) ==
  IF request.diagnostic /\ policy.preview THEN Preview(c)
  ELSE NoCorrection(reason)

\* derive_integrity, for the decisions that give a correction.
Integrity(status, warned) ==
  IF status # "OK" \/ warned THEN "DEGRADED" ELSE "PASS"

StatusOf(degraded) ==
  CASE request.diagnostic -> "DIAGNOSTIC_ONLY"
    [] ~request.diagnostic /\ degraded -> "DEGRADED"
    [] OTHER -> "OK"

UseVrs(c) ==
  [mode |-> "VRS", status |-> StatusOf(FALSE), reason |-> "VRS_APPROVED",
   reference |-> NoStation, network |-> Admitted(c),
   integrity |-> Integrity(StatusOf(FALSE), FALSE)]

UseSingleBase(c, warned) ==
  LET degraded == SelectedBand(c) # "preferred"
  IN [mode |-> "SINGLE_BASE", status |-> StatusOf(degraded),
      reason |-> "SINGLE_BASE_SELECTED", reference |-> Selected(c),
      network |-> Admitted(c),
      integrity |-> Integrity(StatusOf(degraded), warned \/ degraded)]

\* _no_correction_code looks for words in the reasons of every rejected
\* station, so a station without navigation speaks for all.
NoCorrectionCode(c) ==
  LET ok(s) == SingleStatus(c, s) = "ACCEPT" IN
  IF \E s \in Pool(c) : ok(s) /\ ~c[s].nav
    THEN "SINGLE_BASE_NAVIGATION_MISSING"
  ELSE IF Survivors(c) # {} /\ ~Available(c) THEN "SINGLE_BASE_TOO_DISTANT"
  ELSE IF \E s \in Pool(c) : ~ok(s) THEN "SINGLE_BASE_QC_REJECTED"
  ELSE IF DOMAIN c # {} /\ \A s \in DOMAIN c : ~c[s].nav
    THEN "NO_NAVIGATION_PRODUCT"
  ELSE "NO_ACCEPTABLE_CORRECTION_SOURCE"

NoneAccepted(c) == \A s \in DOMAIN c : c[s].qc # "ACCEPT"

DecideAuto(c) ==
  IF NoneAccepted(c) THEN Refusal(c, "NO_QC_ADMITTED_STATIONS")
  ELSE IF \A s \in DOMAIN c : ~c[s].nav
    THEN Refusal(c, "NO_NAVIGATION_PRODUCT")
  ELSE IF Selectable(c) THEN UseVrs(c)
  ELSE IF policy.fallback /\ request.fallback /\ Available(c)
    THEN UseSingleBase(c, PrintsMissing)
  ELSE Refusal(c, NoCorrectionCode(c))

DecideVrsOnly(c) ==
  IF request.diagnostic THEN Preview(c)
  ELSE IF NoneAccepted(c) THEN NoCorrection("NO_QC_ADMITTED_STATIONS")
  ELSE IF Selectable(c) THEN UseVrs(c)
  ELSE NoCorrection(BlockedCode(c))

DecideSingleOnly(c) ==
  IF Available(c) THEN UseSingleBase(c, FALSE)
  ELSE IF request.diagnostic THEN Preview(c)
  ELSE NoCorrection(NoCorrectionCode(c))

Decision(c) ==
  IF ~known THEN NoCorrection("INVALID_TARGET_COORDINATE")
  ELSE CASE request.mode = "AUTO" -> DecideAuto(c)
         [] request.mode = "VRS_ONLY" -> DecideVrsOnly(c)
         [] request.mode = "SINGLE_BASE_ONLY" -> DecideSingleOnly(c)

\* decision_material: what the decision's fingerprint covers.
Material ==
  [request |-> request, policy |-> policy, known |-> known,
   prints |-> [s \in DOMAIN candidates |-> candidates[s].print],
   coordinates |-> digest,
   upstream |-> [upstream EXCEPT !.leakage = "-", !.override = "-"]]

DecideFull ==
  /\ pc = "decide"
  /\ recorded' = Append(recorded, [material |-> Material,
                                   decision |-> Decision(candidates)])
  /\ pc' = "decided"
  /\ UNCHANGED <<inputs, files, reads, rewrites>>

\* The command is run again with the same request.
Again ==
  /\ pc = "decided" /\ Len(recorded) < MaxDecisions
  /\ pc' = "idle"
  /\ UNCHANGED <<inputs, files, reads, recorded, rewrites>>

---------------------------------------------------------------------------
(* The environment: earlier phases write their results.                    *)

Rewriting ==
  /\ pc \notin {"decided", "blocked"} /\ rewrites < MaxRewrites
  /\ rewrites' = rewrites + 1

RewriteNetworkQc ==
  /\ Rewriting
  /\ \E s \in Stations, r \in Results :
       networkQc' = [networkQc EXCEPT ![s] = r]
  /\ UNCHANGED <<pc, inputs, singleQc, coords, reads, recorded>>

RewriteSingleQc ==
  /\ Rewriting
  /\ \E s \in Stations, r \in Results :
       singleQc' = [singleQc EXCEPT ![s] = r]
  /\ UNCHANGED <<pc, inputs, networkQc, coords, reads, recorded>>

RewriteCoordinates ==
  /\ Rewriting
  /\ coords # Damaged
  /\ \/ coords' = Damaged
     \/ \E s \in Stations :
          \E d \in {Unverified} \union (IF s = Rover THEN {0} ELSE Distances) :
            coords' = [coords EXCEPT ![s] = d]
  /\ UNCHANGED <<pc, inputs, networkQc, singleQc, reads, recorded>>

Next ==
  \/ ResolveTarget \/ LoadCoordinates \/ CoordinatesMissing \/ ReadResults \/ HashCoordinates
  \/ ReadSingleMap \/ DecideFull \/ Again
  \/ RewriteNetworkQc \/ RewriteSingleQc \/ RewriteCoordinates

Spec == Init /\ [][Next]_vars

---------------------------------------------------------------------------
(* Properties.                                                             *)

Decided == pc = "decided"
Answer == recorded[Len(recorded)].decision
Distance(s) == candidates[s].distance

TypeOK ==
  /\ pc \in {"idle", "load", "results", "hash", "single", "decide", "decided",
             "blocked"}
  /\ request \in Requests /\ policy \in Policies /\ upstream \in Upstreams
  /\ known \in BOOLEAN /\ rewrites \in 0 .. MaxRewrites
  /\ DOMAIN candidates \subseteq Stations /\ DOMAIN singleMap \subseteq Stations
  /\ \A s \in DOMAIN candidates :
       candidates[s].qc \in QCStatuses /\ candidates[s].nav \in BOOLEAN
  /\ Len(recorded) <= MaxDecisions
  /\ Decided => /\ Answer.mode \in {"VRS", "SINGLE_BASE", "NO_CORRECTION"}
                /\ Answer.network \subseteq Stations
                /\ Answer.reference \in Stations \union {NoStation}

GatesPassed(d) ==
  /\ known /\ request.mode # "SINGLE_BASE_ONLY"
  /\ Cardinality(d.network) >= policy.minimum
  /\ d.network =
       {s \in DOMAIN candidates : /\ candidates[s].qc = "ACCEPT"
                                  /\ ~(request.byStation /\ s = Rover)}
  /\ \A s \in d.network :
       /\ candidates[s].nav /\ candidates[s].verified
       /\ \/ Distance(s) <= ContainedUpTo
          \/ \A t \in d.network : Distance(s) <= 2 * Distance(t)
  /\ policy.needModel => upstream.spatial = "APPROVED"
  /\ policy.needVrs => upstream.vrs = "APPROVED"
  /\ upstream.spatialPrint /\ upstream.vrsPrint
  /\ upstream.override = "PASS"
     \/ (upstream.override = "NONE" /\ upstream.leakage = "PASS")

\* A VRS answer passed every gate at once: enough accepted, verified
\* references with navigation around a known target, none of them the named
\* rover, no accepted station left out because it lacked something, no
\* reference both far away and out of proportion, and the approvals of
\* Phases 6 and 7 that the policy asks for with their fingerprints.
VrsGated == (Decided /\ Answer.mode = "VRS") => GatesPassed(Answer)

\* The stations that could serve as a single base, from what was read.
Admissible ==
  {s \in DOMAIN candidates :
    /\ ~(request.byStation /\ s = Rover)
    /\ IF s \in DOMAIN singleMap THEN singleMap[s] = "ACCEPT"
       ELSE candidates[s].qc = "ACCEPT"
    /\ candidates[s].nav /\ candidates[s].interval /\ candidates[s].verified}

NoneBetter(d) ==
  /\ known /\ request.mode # "VRS_ONLY"
  /\ d.reference \in Admissible
  /\ Distance(d.reference) <= policy.maximum
  /\ \A s \in Admissible : Distance(s) > 0 => Distance(d.reference) <= Distance(s)
  /\ d.status = "OK" => Distance(d.reference) <= policy.preferred
NothingInReach ==
  \/ request.mode = "VRS_ONLY"
  \/ request.mode = "AUTO" /\ ~(request.fallback /\ policy.fallback)
  \/ request.mode = "AUTO" /\ (\A s \in DOMAIN candidates : candidates[s].qc # "ACCEPT")
  \/ \A s \in Admissible : Distance(s) = 0 \/ Distance(s) > policy.maximum

\* A single base is admissible by the second reading of its results, within
\* the maximum distance, no farther than any other that is not at distance
\* zero, and beyond the preferred distance it is never reported OK.  A
\* correction is refused for a known target only when no such base is in reach
\* or the request or the policy rules a single base out.
BestReference ==
  Decided =>
    /\ Answer.mode = "SINGLE_BASE" => NoneBetter(Answer)
    /\ (Answer.mode = "NO_CORRECTION" /\ known) => NothingInReach

=============================================================================
