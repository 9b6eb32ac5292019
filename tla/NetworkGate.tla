----------------------------- MODULE NetworkGate -----------------------------
(***************************************************************************)
(* The gates of the offline network experiment, as pure operators: the     *)
(* structural validation of a definition (models.py), the admission of the *)
(* day's quality-control results (admission.py), the common window of the  *)
(* admitted sessions (overlap.py), the geometry of the verified            *)
(* coordinates (geometry.py), and the handlers that go through them:       *)
(* plan_experiment and validate_experiment, which predict, and             *)
(* run_experiment, which decides (runner.py).  Distances are taken on a line: a matrix tells two sets of *)
(* positions apart, which is all the program does with it.                 *)
(***************************************************************************)
EXTENDS Integers, FiniteSets, Sequences

CONSTANTS
  Stations,       \* station identifiers: positive integers, in the order of their names
  LeastNetwork,   \* reference stations a network needs (minimum_required = 3)
  LeastDuration   \* shortest common window (minimum_duration_seconds = 3600)

ASSUME GateAssumption ==
  /\ Stations \subseteq Nat \ {0}
  /\ LeastNetwork \in Nat \ {0}
  /\ LeastDuration \in Nat

Latest(S) == CHOOSE x \in S : \A y \in S : y <= x
Earliest(S) == CHOOSE x \in S : \A y \in S : x <= y

References(d) == {d.refs[k] : k \in DOMAIN d.refs}
Wanted(d) == References(d) \cup {d.test}

-----------------------------------------------------------------------------
(* The structure of a definition.  "sound" stands for the fields no gate    *)
(* relates to another: identifier, question, day, mode, sampling interval,  *)
(* frame and profile.                                                       *)
Problems(d) ==
  {p \in {"fields", "rover among references", "duplicates", "minimum", "too few", "navigation"} :
     CASE p = "fields" -> ~d.sound
       [] p = "rover among references" -> d.test \in References(d)
       [] p = "duplicates" -> Cardinality(References(d)) # Len(d.refs)
       [] p = "minimum" -> d.min < LeastNetwork
       [] p = "too few" -> Len(d.refs) < d.min
       [] p = "navigation" -> d.nav = {}}

-----------------------------------------------------------------------------
(* Admission.  A quality-control result is a file in one of four shapes:    *)
(* absent, unreadable, malformed (its admission raises) or a result.        *)
Passing(q, diagnostic) == q.status = "ACCEPT" \/ diagnostic

Decision(q, diagnostic) ==
  CASE q.kind = "unreadable" -> "BLOCKED"
    [] ~Passing(q, diagnostic) -> IF q.status = "BLOCKED" THEN "BLOCKED" ELSE "REJECT"
    [] q.kind = "malformed" -> "BLOCKED"
    [] OTHER -> "ADMITTED"

\* What later phases keep of a result: its status, its fingerprint and its time coverage.
AdmittedSession(q) ==
  [status |-> q.status, fp |-> q.fp, first |-> q.first, last |-> q.last, interval |-> q.interval]

AdmitDay(qc, diagnostic) ==
  LET found == {s \in Stations : qc[s].kind # "absent"}
      admitted == {s \in found : Decision(qc[s], diagnostic) = "ADMITTED"}
  IN  [sessions |-> [s \in admitted |-> AdmittedSession(qc[s])],
       decisions |-> [s \in found |-> Decision(qc[s], diagnostic)],
       diagnostic |-> diagnostic]

Admitted(adm) == DOMAIN adm.sessions

\* What the admission puts into a fingerprint: who, and which quality-control result.
AdmissionFingerprint(adm) ==
  [diagnostic |-> adm.diagnostic,
   admitted |-> {<<s, adm.sessions[s].fp>> : s \in Admitted(adm)}]

-----------------------------------------------------------------------------
(* The common window of a set of sessions, with the reason it is refused.   *)
Blocked(reason) == [ok |-> FALSE, reason |-> reason, start |-> 0, end |-> 0, expected |-> 0]

CommonWindow(sessions) ==
  LET who == DOMAIN sessions
      start == Latest({sessions[s].first : s \in who})
      end == Earliest({sessions[s].last : s \in who})
      intervals == {sessions[s].interval : s \in who}
  IN  CASE Cardinality(who) < 2 -> Blocked("fewer than two sessions")
        [] 0 \in intervals -> Blocked("no measured coverage")
        [] \E s \in who : sessions[s].last <= sessions[s].first -> Blocked("empty window")
        [] end <= start -> Blocked("no common window")
        [] Cardinality(intervals) # 1 -> Blocked("mixed intervals")
        [] end - start < LeastDuration -> Blocked("short window")
        [] OTHER -> [ok |-> TRUE, reason |-> "", start |-> start, end |-> end,
                     expected |-> (end - start) \div (CHOOSE i \in intervals : TRUE) + 1]

-----------------------------------------------------------------------------
(* The geometry of the stations a definition names.  coords is the file of  *)
(* derived coordinates: who has a row, and of a row whether it is           *)
(* scientifically valid, its position and its frame.                        *)
Verified(coords) == {s \in DOMAIN coords : coords[s].valid}

Distance(coords, a, b) ==
  IF coords[a].at < coords[b].at THEN coords[b].at - coords[a].at
                                 ELSE coords[a].at - coords[b].at

NoGeometry(reason) == [ok |-> FALSE, reason |-> reason, matrix |-> << >>, nearest |-> 0]

Geometry(d, present, coords) ==
  CASE ~present -> NoGeometry("no coordinates file")
    [] ~(Wanted(d) \subseteq Verified(coords)) -> NoGeometry("no verified coordinate")
    [] Cardinality({coords[s].frame : s \in Wanted(d)}) # 1 -> NoGeometry("mixed frames")
    [] OTHER ->
       [ok |-> TRUE, reason |-> "",
        matrix |-> [p \in Wanted(d) \X Wanted(d) |-> Distance(coords, p[1], p[2])],
        nearest |-> CHOOSE r \in References(d) :
                      \A o \in References(d) :
                        \/ Distance(coords, r, d.test) < Distance(coords, o, d.test)
                        \/ /\ Distance(coords, r, d.test) = Distance(coords, o, d.test)
                           /\ r <= o]

\* The positions each baseline's configuration carries (ant2-pos1..3).
Configurations(d, coords) == [r \in References(d) |-> coords[r].at]

-----------------------------------------------------------------------------
(* The two handlers.  The plan reads the same files as the run, but takes   *)
(* the common window of the wanted stations that were admitted, where the   *)
(* run indexes all of them, and never looks for the navigation files.       *)
Restricted(sessions, who) == [s \in (DOMAIN sessions) \cap who |-> sessions[s]]

PlanExperiment(d, qc, present, coords) ==
  LET adm == AdmitDay(qc, d.diagnostic)
      refused == \/ Problems(d) # {}
                 \/ ~(Wanted(d) \subseteq Admitted(adm)) /\ ~d.diagnostic
                 \/ Len(d.refs) < d.min
                 \/ ~Geometry(d, present, coords).ok
                 \/ ~CommonWindow(Restricted(adm.sessions, Wanted(d))).ok
  IN  IF refused THEN "BLOCKED" ELSE "PLANNED"

ValidateExperiment(d, qc, present, coords) ==
  IF PlanExperiment(d, qc, present, coords) = "PLANNED" THEN "VALIDATED" ELSE "BLOCKED"

\* Mutant: the run goes on with a common window that is too short or empty.
RunGateAnyWindow(d, adm, present, coords, navigation) ==
  CASE Problems(d) # {} -> "invalid"
    [] ~(Wanted(d) \subseteq Admitted(adm)) /\ ~d.diagnostic -> "admission"
    [] ~Geometry(d, present, coords).ok -> "geometry"
    [] ~(Wanted(d) \subseteq Admitted(adm)) -> "missing"
    [] navigation = {} -> "navigation"
    [] OTHER -> "go"

\* The first gate a run stops at: "invalid" and "missing" raise (the second is the
\* KeyError of a diagnostic run whose station was not admitted), the others block.
RunGate(d, adm, present, coords, navigation) ==
  CASE Problems(d) # {} -> "invalid"
    [] ~(Wanted(d) \subseteq Admitted(adm)) /\ ~d.diagnostic -> "admission"
    [] Len(d.refs) < d.min -> "references"
    [] ~Geometry(d, present, coords).ok -> "geometry"
    [] ~(Wanted(d) \subseteq Admitted(adm)) -> "missing"
    [] ~CommonWindow(Restricted(adm.sessions, Wanted(d))).ok -> "overlap"
    [] navigation = {} -> "navigation"
    [] OTHER -> "go"
=============================================================================
