----------------------------- MODULE RinexSession -----------------------------
(***************************************************************************)
(* The measurements phase 4 takes of one converted observation file        *)
(* (gnss_qc/rinex.py) and the findings a profile makes of them             *)
(* (classify.py, models.py, profiles.py).  A body is a record:             *)
(*   sound       the text parses as RINEX 2 from header to last record     *)
(*   marker      marker name of the header: the station's own four letters,*)
(*               a registered alias of it, or anything else                *)
(*   receiver    the equipment lines of the header                         *)
(*   declared    INTERVAL of the header, None if absent or not positive    *)
(*   frequencies number of frequencies with a carrier-phase observable     *)
(*   odd         the parser left a warning                                 *)
(*   epochs      times of the epoch records with flag 0 or 1, in units     *)
(*               after midnight of the day of the session                  *)
(* Times are even numbers of units, so that a median of two is whole.      *)
(***************************************************************************)
EXTENDS Integers, Sequences, FiniteSets, FiniteSetsExt, SequencesExt

CONSTANTS Day, None

Classes == {"ACCEPT", "WARN", "REJECT", "BLOCKED"}

\* round(a / b) of Python, b positive: the even neighbour of a half.
RoundedRatio(a, b) ==
    LET q == a \div b
        r == 2 * (a % b)
    IN  IF r > b \/ (r = b /\ q % 2 = 1) THEN q + 1 ELSE q

Steps(epochs) == [i \in 1..(Len(epochs) - 1) |-> epochs[i + 1] - epochs[i]]

\* The k-th smallest of the values at some places.
Ranked(values, places, k) ==
    Min({values[i] : i \in {j \in places :
                              Cardinality({l \in places : values[l] <= values[j]}) >= k}})

Median(values, places) ==
    LET count == Cardinality(places)
        half == count \div 2
    IN  IF count % 2 = 1 THEN Ranked(values, places, half + 1)
        ELSE (Ranked(values, places, half) + Ranked(values, places, half + 1)) \div 2

Empirical(body) ==
    LET steps == Steps(body.epochs)
        forward == {i \in DOMAIN steps : steps[i] > 0}
    IN  IF forward = {} THEN None ELSE Median(steps, forward)

\* The steps longer than the interval, with the epochs missing in each.
Gaps(epochs, interval) ==
    {[at |-> i, elapsed |-> Steps(epochs)[i],
      missing |-> Max({RoundedRatio(Steps(epochs)[i], interval) - 1, 0})] :
         i \in {j \in DOMAIN Steps(epochs) : Steps(epochs)[j] > interval}}

MissingInsideOnly(epochs, interval) ==  \* mutant: the ends of the day are not looked at
    MapThenSumSet(LAMBDA gap : gap.missing, Gaps(epochs, interval))

MissingEpochs(epochs, interval) ==
    Max({RoundedRatio(Head(epochs), interval), 0})
        + MapThenSumSet(LAMBDA gap : gap.missing, Gaps(epochs, interval))
        + Max({RoundedRatio(Day - interval - Last(epochs), interval), 0})

\* analyse_rinex2: the interval of the header, else the median of the steps;
\* without one there are no gaps and nothing is missing or expected.
Analysis(body) ==
    LET empirical == Empirical(body)
        interval == IF body.declared # None THEN body.declared ELSE empirical
        known == interval # None
    IN  [interval |-> interval, empirical |-> empirical,
         expected |-> IF known THEN RoundedRatio(Day, interval) ELSE 0,
         unique |-> Cardinality(ToSet(body.epochs)),
         missing |-> IF known THEN MissingEpochs(body.epochs, interval) ELSE None,
         gaps |-> IF known THEN Gaps(body.epochs, interval) ELSE {},
         disorder |-> {i \in DOMAIN Steps(body.epochs) : Steps(body.epochs)[i] <= 0}]

\* fraction < percent / 100, where no expected epochs make the fraction 0.
Below(analysis, percent) ==
    IF analysis.expected = 0 THEN percent > 0
    ELSE 100 * analysis.unique < percent * analysis.expected

\* analyse_rinex2 raises for a text that does not parse or has no epoch.
Analysable(body) == body.sound /\ body.epochs # <<>>
-----------------------------------------------------------------------------
(* classify_session.  A finding is a severity and a code.                  *)

Found(severity, code) == [severity |-> severity, code |-> code]
If(condition, severity, code) == IF condition THEN {Found(severity, code)} ELSE {}

SamplingFindings(analysis, profile) ==
    If(analysis.disorder # {}, "REJECT", "MALFORMED_EPOCH_SEQUENCE")
    \cup If(/\ profile.interval # None /\ analysis.empirical # None
           /\ analysis.empirical # profile.interval,
           "REJECT", "UNEXPECTED_SAMPLING_INTERVAL")

CompletenessFindings(analysis, profile) ==
    IF Below(analysis, profile.rejectBelow) THEN {Found("REJECT", "SEVERE_SESSION_TRUNCATION")}
    ELSE If(Below(analysis, profile.accept), "WARN", "PARTIAL_SESSION")

GapFindings(analysis, profile) ==
    LET longest == Max({gap.elapsed : gap \in analysis.gaps} \cup {0})
    IN  If(longest > profile.maximumGap, "REJECT", "MAJOR_OBSERVATION_GAP")
        \cup If(longest <= profile.maximumGap /\ analysis.gaps # {}, "WARN", "OBSERVATION_GAPS")

\* product: None, or a catalogued product with or without its provenance.
NavigationFindings(product) ==
    IF product = None THEN {Found("BLOCKED", "NAVIGATION_PRODUCT_MISSING")}
    ELSE If(~product.proven, "WARN", "NAVIGATION_PROVENANCE_MISSING")

\* coordinate: "absent", "invalid", "other_day" or "eligible".
CoordinateFindings(coordinate) ==
    CASE coordinate = "absent" -> {Found("BLOCKED", "COORDINATE_METADATA_MISSING")}
      [] coordinate = "invalid" -> {Found("BLOCKED", "COORDINATE_NOT_SCIENTIFICALLY_VALID")}
      [] coordinate = "other_day" -> {Found("BLOCKED", "COORDINATE_INTERVAL_UNVERIFIED")}
      [] OTHER -> {Found("PASS", "COORDINATE_ELIGIBLE")}

ClassifySession(body, analysis, profile, identity, duplicate, product, coordinate) ==
    If(duplicate, "WARN", "EXACT_DUPLICATE")
    \cup If(identity = "KNOWN_ALIAS", "WARN", "KNOWN_ALIAS")
    \cup SamplingFindings(analysis, profile)
    \cup CompletenessFindings(analysis, profile)
    \cup GapFindings(analysis, profile)
    \cup If(profile.external /\ body.frequencies < 2, "REJECT", "REQUIRED_PHASE_OBSERVABLE_MISSING")
    \cup If(body.odd, "WARN", "PARSER_WARNING")
    \cup (IF profile.external
          THEN NavigationFindings(product) \cup CoordinateFindings(coordinate) ELSE {})

\* A file that did not get as far as classify_session has this one finding.
FailureFindings(code) ==
    {Found(IF code = "SOURCE_FILE_UNAVAILABLE" THEN "BLOCKED" ELSE "REJECT", code)}

Overall(findings) ==
    LET severities == {finding.severity : finding \in findings}
    IN  CASE "REJECT" \in severities -> "REJECT"
          [] "REJECT" \notin severities /\ "BLOCKED" \in severities -> "BLOCKED"
          [] severities \cap {"REJECT", "BLOCKED"} = {} /\ "WARN" \in severities -> "WARN"
          [] OTHER -> "ACCEPT"

\* resolve_identity fails closed: no marker outside the registered ones.
Identity(named, body) ==
    CASE named = "unknown" \/ body.marker = "unknown" -> None
      [] named = "canonical" /\ body.marker = "canonical" -> "CANONICAL_MATCH"
      [] OTHER -> "KNOWN_ALIAS"

\* load_profiles refuses a set whose thresholds are not in order.
ProfileStands(profile) ==
    /\ profile.accept \in 0..100 /\ profile.rejectBelow \in 0..profile.accept
    /\ profile.interval = None \/ profile.interval > 0
    /\ profile.maximumGap >= 0
-----------------------------------------------------------------------------
(* Reference: the epochs of the day are the multiples of the interval.     *)

Grid(interval) == {k * interval : k \in 0..(Day \div interval - 1)}

OnGrid(body, interval) ==
    /\ interval # None
    /\ Day % interval = 0
    /\ \A i \in DOMAIN body.epochs : body.epochs[i] \in Grid(interval)
    /\ \A i \in DOMAIN Steps(body.epochs) : Steps(body.epochs)[i] > 0
=============================================================================
