---------------------------- MODULE SessionQuality ----------------------------
(***************************************************************************)
(* What phase2_dataset.py computes from one daily observation file and     *)
(* from all of them: continuity of the epochs and completeness of the day  *)
(* (analyse_rinex_lines, analyse_crinex_file), the station registry, the   *)
(* missing days, the common windows of two stations.  A file is a record:  *)
(*   code      exit code of uncompress, or of CRX2RNX when that one is 0   *)
(*   header    END OF HEADER was found                                     *)
(*   interval  INTERVAL of the header, or None                             *)
(*   stated    marker name and approximate position are in the header      *)
(*   position  that position, a member of a small set, or None             *)
(*   epochs    times of the epoch records, in units after midnight of the  *)
(*             day in the file's name; the day has Day units               *)
(***************************************************************************)
EXTENDS Integers, Sequences, FiniteSets, FiniteSetsExt

CONSTANTS Day, None

Pairs(s) == {i \in 1..Len(s) : i + 1 \in DOMAIN s}

\* round() of Python: the even neighbour of a half.
Rounded(a, b) ==
    LET q == a \div b
        r == 2 * (a % b)
    IN  IF r > b \/ (r = b /\ q % 2 = 1) THEN q + 1 ELSE q

Steps(epochs) == [i \in Pairs(epochs) |-> epochs[i + 1] - epochs[i]]
Forward(epochs) == {i \in Pairs(epochs) : Steps(epochs)[i] > 0}

\* Counter(...).most_common(1): the first among the most frequent steps forward.
Mode(epochs) ==
    LET steps == Steps(epochs)
        count(i) == Cardinality({j \in Forward(epochs) : steps[j] = steps[i]})
    IN  steps[CHOOSE i \in Forward(epochs) : \A j \in Forward(epochs) :
                  count(j) < count(i) \/ (count(j) = count(i) /\ i <= j)]

\* The header's interval, else the most frequent step; none if not positive.
Interval(f) ==
    LET stated == IF f.interval = None /\ Forward(f.epochs) # {}
                  THEN Mode(f.epochs) ELSE f.interval
    IN  IF stated = None THEN None ELSE IF stated <= 0 THEN None ELSE stated

Warned(f) ==
    \/ ~f.header \/ ~f.stated
    \/ f.interval # Interval(f)
    \/ f.epochs # <<>> /\ f.epochs[1] \notin 0..(Day - 1)

GapsAt(f) ==
    IF Interval(f) = None THEN {}
    ELSE {i \in Pairs(f.epochs) : Steps(f.epochs)[i] > Interval(f)}

MissingIn(f, i) == Max({Rounded(Steps(f.epochs)[i], Interval(f)) - 1, 0})

\* The repetitions and the steps back, counted only with an interval.
Disorder(f) ==
    IF Interval(f) = None THEN {} ELSE {i \in Pairs(f.epochs) : Steps(f.epochs)[i] <= 0}

ExpectedEpochs(f) == Rounded(Day, Interval(f))

\* analyse_rinex_lines is not told the exit code: only analyse_crinex_file
\* looks at it, and turns everything but 0 and 2 into an error.
Converted(f) == f.code \in {0, 2}

Status(f) ==
    CASE ~Converted(f) \/ ~f.header \/ f.epochs = <<>> -> "error"
      [] OTHER -> IF Warned(f) THEN "warning" ELSE "parsed"

CompletenessByCount(f) ==       \* mutant: enough epochs and both ends are enough
    CASE Status(f) = "error" \/ Interval(f) = None -> "not_computable"
      [] /\ f.epochs[1] = 0
         /\ f.epochs[Len(f.epochs)] = Day - Interval(f)
         /\ Len(f.epochs) = ExpectedEpochs(f) -> "complete"
      [] OTHER -> "incomplete"

Completeness(f) ==
    CASE Status(f) = "error" \/ Interval(f) = None -> "not_computable"
      [] /\ f.epochs[1] = 0
         /\ f.epochs[Len(f.epochs)] = Day - Interval(f)
         /\ GapsAt(f) = {} /\ Disorder(f) = {}
         /\ Len(f.epochs) = ExpectedEpochs(f) -> "complete"
      [] OTHER -> "incomplete"

\* A session is the row of sessions.csv and its rows of epoch-gaps.csv.
Session(target, content, f) ==
    [target |-> target, sha |-> content, status |-> Status(f),
     completeness |-> Completeness(f), position |-> f.position, interval |-> Interval(f),
     first |-> IF f.epochs = <<>> THEN None ELSE f.epochs[1],
     last |-> IF f.epochs = <<>> THEN None ELSE f.epochs[Len(f.epochs)],
     gaps |-> Cardinality(GapsAt(f)),
     missing |-> MapThenSumSet(LAMBDA i : MissingIn(f, i), GapsAt(f))]
-----------------------------------------------------------------------------
(* The tables made of all sessions.                                        *)

StationsOf(sessions) == {s.target.station : s \in sessions}
Of(sessions, station) == {s \in sessions : s.target.station = station}
Usable(sessions) == {s \in sessions : s.status # "error"}

At(s, epoch) == s.target.day * Day + epoch

\* _tuple_variants: the position of most sessions, the least among equals.
ModalPosition(rows) ==
    LET stated == {s \in rows : s.position # None}
        count(v) == Cardinality({s \in stated : s.position = v})
    IN  IF stated = {} THEN None
        ELSE LET values == {s.position : s \in stated}
             IN  CHOOSE v \in values : \A w \in values :
                    count(w) < count(v) \/ (count(w) = count(v) /\ v <= w)

\* build_station_registry
RegistryRow(sessions, station) ==
    LET rows == Of(sessions, station)
        parsed == {s \in Usable(rows) : s.first # None}
    IN  [station |-> station, count |-> Cardinality(rows),
         parsed |-> Cardinality(Usable(rows)),
         complete |-> Cardinality({s \in rows : s.completeness = "complete"}),
         first |-> IF parsed = {} THEN None ELSE Min({At(s, s.first) : s \in parsed}),
         last |-> IF parsed = {} THEN None ELSE Max({At(s, s.last) : s \in parsed}),
         position |-> ModalPosition(Usable(rows))]

Registry(sessions) == {RegistryRow(sessions, st) : st \in StationsOf(sessions)}

\* missing_days_by_station: a file that cannot be read is a day that is there.
MissingDays(sessions) ==
    {LET days == {s.target.day : s \in Of(sessions, st)}
     IN  [station |-> st, days |-> (Min(days)..Max(days)) \ days] : st \in StationsOf(sessions)}

\* calculate_baselines: one distance for each two stations with a position.
BaselinePairs(sessions) ==
    {pair \in SUBSET {row.station : row \in {r \in Registry(sessions) : r.position # None}} :
        Cardinality(pair) = 2}

\* calculate_pairwise_overlap: of several sessions of a day the last in the
\* order of paths counts; the files that are in error count as well.
DayOf(sessions, station, day) ==
    LET rows == {s \in Of(sessions, station) : s.first # None /\ s.target.day = day}
    IN  CHOOSE s \in rows : \A other \in rows : other.target.n <= s.target.n

DaysOf(sessions, station) ==
    {s.target.day : s \in {r \in Of(sessions, station) : r.first # None}}

OverlapOn(sessions, a, b, day) ==
    LET l == DayOf(sessions, a, day)
        r == DayOf(sessions, b, day)
        start == Max({l.first, r.first})
        end == Min({l.last, r.last})
        intervals == {l.interval, r.interval} \ {None}
    IN  IF end < start THEN 0
        ELSE end - start + (IF intervals = {} THEN 0 ELSE Min(intervals))

OverlapTotal(sessions, a, b) ==
    MapThenSumSet(LAMBDA day : OverlapOn(sessions, a, b, day),
                  DaysOf(sessions, a) \cap DaysOf(sessions, b))

Overlaps(sessions) ==
    LET stations == {s.target.station : s \in {r \in sessions : r.first # None}}
    IN  {[pair |-> {p[1], p[2]}, total |-> OverlapTotal(sessions, p[1], p[2])] :
            p \in {q \in stations \X stations : q[1] # q[2]}}
-----------------------------------------------------------------------------
(* Reference: the epochs of a whole day are these and no others.           *)

Grid(interval) == [k \in 1..(Day \div interval) |-> (k - 1) * interval]

Divides(interval) == interval > 0 /\ Day % interval = 0
=============================================================================
