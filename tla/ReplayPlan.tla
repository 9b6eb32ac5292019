----------------------------- MODULE ReplayPlan -----------------------------
(***************************************************************************)
(* The pure part of the replay engine: build_timeline, apply_plan, the     *)
(* cycle of each planned event and its scheduled delay.  A timestamp is    *)
(* kept as build_timeline keeps it, the decimal text of a number of        *)
(* milliseconds, so that a time slice compares what the code compares.     *)
(***************************************************************************)
EXTENDS Integers, Sequences, SequencesExt

None == -1   \* a bound of the configuration that was not given

---------------------------------------------------------------------------
(* Decimal text                                                            *)

Digits[n \in Nat] ==
  IF n < 10 THEN <<n>> ELSE Append(Digits[n \div 10], n % 10)

\* Python's order of two strings of digits.
TextLeq(a, b) ==
  \/ IsPrefix(a, b)
  \/ \E k \in 1 .. Len(a) :
       /\ k <= Len(b) /\ a[k] < b[k]
       /\ \A j \in 1 .. k - 1 : a[j] = b[j]

---------------------------------------------------------------------------
(* build_timeline: frames is a sequence of [ok, number] records, arrival   *)
(* their arrival times.                                                    *)

Eligible(frames) ==
  SelectSeq([k \in 1 .. Len(frames) |-> k], LAMBDA k : frames[k].ok)

StampBySequence(eligible, arrival, k) == arrival[k]
Stamp(eligible, arrival, k) == arrival[eligible[k]]

Timeline(frames, arrival) ==
  LET eligible == Eligible(frames)
      stamp(k) == Stamp(eligible, arrival, k)
  IN [k \in 1 .. Len(eligible) |->
        [sequence |-> k - 1, frame |-> eligible[k],
         number |-> frames[eligible[k]].number,
         text |-> Digits[stamp(k)],
         relative |-> stamp(k) - stamp(1)]]

---------------------------------------------------------------------------
(* apply_plan                                                              *)

InSequenceRange(e, config) ==
  /\ config.startSequence = None \/ e.sequence >= config.startSequence
  /\ config.endSequence = None \/ e.sequence <= config.endSequence

InTimeRange(e, config) ==
  /\ config.startTime = None \/ TextLeq(Digits[config.startTime], e.text)
  /\ config.endTime = None \/ TextLeq(e.text, Digits[config.endTime])

Wanted(e, config) ==
  config.messageFilter = {} \/ e.number \in config.messageFilter

Selected(timeline, config) ==
  SelectSeq(timeline, LAMBDA e : /\ InSequenceRange(e, config)
                                 /\ InTimeRange(e, config)
                                 /\ Wanted(e, config))

\* A plan that is too long is refused.
Admissible(timeline, config) == Len(Selected(timeline, config)) <= config.maxEvents

Expanded(timeline, config) ==
  LET selected == Selected(timeline, config) IN
  FlattenSeq([copy \in 1 .. config.loopCycles |-> selected])

\* _assign_cycles, from the number of events alone.
Cycle(count, loops, k) ==
  IF loops <= 1 THEN 0
  ELSE LET base == count \div loops IN
       IF k > base * loops THEN loops - 1 ELSE (k - 1) \div base

\* The plan as it is played: each event with its cycle.
ApplyPlan(timeline, config) ==
  LET events == Expanded(timeline, config) IN
  [k \in 1 .. Len(events) |->
     [event |-> events[k],
      cycle |-> Cycle(Len(events), config.loopCycles, k)]]

---------------------------------------------------------------------------
(* scheduled_delay_ms, for a whole speed factor                            *)

Delay(delta, speed) ==
  IF speed = 0 \/ delta < 0 THEN 0 ELSE delta \div speed

\* The delays of a plan played from its first event.
Delays(p, speed) ==
  [k \in 1 .. Len(p) |->
     IF k = 1 THEN 0
     ELSE Delay(p[k].event.relative - p[k - 1].event.relative, speed)]
=============================================================================
