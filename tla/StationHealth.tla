----------------------------- MODULE StationHealth -----------------------------
(***************************************************************************)
(* What gnss_qc/aggregate.py makes of the stored results of a profile.  A  *)
(* result here is a record with the fields station, day, class, covered    *)
(* (a navigation product was catalogued) and receiver (the equipment of    *)
(* the header, or None when the session was not measured).                 *)
(***************************************************************************)
EXTENDS Integers, Sequences, FiniteSets, FiniteSetsExt, SequencesExt

CONSTANTS LastDay, None

AllDays == 1..LastDay

\* _station_health, the counts of a station.
Health(rows, station) ==
    LET own == {row \in rows : row.station = station}
        days(class) == Cardinality({row \in own : row.class = class})
    IN  [station |-> station, available |-> Cardinality(own), accepted |-> days("ACCEPT"),
         warned |-> days("WARN"), rejected |-> days("REJECT"), blocked |-> days("BLOCKED"),
         covered |-> Cardinality({row \in own : row.covered})]

\* _network_overlap: the stations whose day counts for the network.
Qualified(rows, day) ==
    {row.station : row \in {r \in rows : r.day = day /\ r.class = "ACCEPT"}}

\* One pass over the days and one day more, which closes what is open.
WindowStep(rows, minimum, scan, day) ==
    LET qualifies == day \in AllDays /\ Cardinality(Qualified(rows, day)) >= minimum
    IN  CASE qualifies /\ scan.start = None -> [scan EXCEPT !.start = day]
          [] ~qualifies /\ scan.start # None ->
                 [start |-> None,
                  closed |-> scan.closed \cup {[minimum |-> minimum, start |-> scan.start,
                                                end |-> day - 1]}]
          [] OTHER -> scan

WindowsOf(rows, minimum) ==
    FoldLeft(LAMBDA scan, day : WindowStep(rows, minimum, scan, day),
             [start |-> None, closed |-> {}], [d \in 1..(LastDay + 1) |-> d]).closed

Windows(rows, minimums) == UNION {WindowsOf(rows, k) : k \in minimums}

\* _equipment_history: a session that was not measured has no equipment, and
\* that is a segment of its own.
Segments(rows, station) ==
    LET own == SetToSortSeq({row \in rows : row.station = station},
                            LAMBDA a, b : a.day < b.day)
        step(done, row) ==
            IF done # <<>> /\ Last(done).equipment = row.receiver
            THEN [done EXCEPT ![Len(done)].end = row.day]
            ELSE Append(done, [equipment |-> row.receiver, start |-> row.day,
                               end |-> row.day])
    IN  FoldLeft(step, <<>>, own)

Transitions(rows) ==
    SumSet({Len(Segments(rows, station)) - 1 : station \in {row.station : row \in rows}})
-----------------------------------------------------------------------------
(* Reference: a window is a run of days that qualify and cannot be longer. *)

IsWindow(rows, window) ==
    LET enough(day) == day \in AllDays /\ Cardinality(Qualified(rows, day)) >= window.minimum
    IN  /\ window.start <= window.end
        /\ \A day \in window.start..window.end : enough(day)
        /\ ~enough(window.start - 1) /\ ~enough(window.end + 1)

MaximalRuns(rows, minimums) ==
    {window \in [minimum : minimums, start : AllDays, end : AllDays] : IsWindow(rows, window)}
=============================================================================
