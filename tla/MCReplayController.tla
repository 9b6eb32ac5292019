------------------------- MODULE MCReplayController -------------------------
(* Replay, planned and played.  The controller plays the plans ReplayPlan   *)
(* makes of one recording under two configurations: inputs "all" and        *)
(* "loop", the whole timeline once and its first event twice.  Apart from   *)
(* that, every small recording is planned under every configuration: a      *)
(* state is one call, chosen frame by frame and then configured.            *)
EXTENDS ReplayController

CONSTANTS
  MaxFrames,   \* longest recording
  Gaps,        \* times between two frames
  FirstStamp,  \* arrival time of the first frame
  Times,       \* bounds a time slice may have
  Speeds, Loops

VARIABLES frames, arrival, config   \* the call that is planned

call == <<frames, arrival, config>>

RP == INSTANCE ReplayPlan

MCInputs == {"all", "loop"}
MCSources == {"src"}
MCConfigs == {"cfg-all", "cfg-loop"}
MCPrint ==
  [i \in MCInputs |->
     [source |-> "src",
      config |-> IF i = "loop" THEN "cfg-loop" ELSE "cfg-all"]]

Whole ==
  [startSequence |-> RP!None, endSequence |-> RP!None,
   startTime |-> RP!None, endTime |-> RP!None,
   messageFilter |-> {}, loopCycles |-> 1, maxEvents |-> 9, speed |-> 0]
Recording ==
  RP!Timeline([k \in 1 .. 3 |-> [ok |-> TRUE, number |-> 1077]], <<7, 8, 13>>)
PlanOf(configuration) ==
  LET p == RP!ApplyPlan(Recording, configuration) IN
  [k \in 1 .. Len(p) |-> [sequence |-> p[k].event.sequence, cycle |-> p[k].cycle]]

E(seq, copy) == [sequence |-> seq, cycle |-> copy]
MCPlan ==
  [all  |-> <<E(0, 0), E(1, 0), E(2, 0)>>,
   loop |-> <<E(0, 0), E(0, 1)>>]
ASSUME PlansOfRecording ==
  /\ MCPlan.all = PlanOf(Whole)
  /\ MCPlan.loop = PlanOf([Whole EXCEPT !.endSequence = 0, !.loopCycles = 2])

MCEvents == {E(seq, copy) : seq \in 0 .. 2, copy \in 0 .. 1}

MCNoFaults == {[truncateAfter |-> 9, stallAfter |-> 9]}
MCFaultPlans == MCNoFaults \union
  {[truncateAfter |-> 1, stallAfter |-> 9],
   [truncateAfter |-> 9, stallAfter |-> 1]}

---------------------------------------------------------------------------
Numbers == {1005, 1077}
NoConfig == [maxEvents |-> 0]
AllConfigs ==
  [startSequence: {RP!None, 1}, endSequence: {RP!None, 1},
   startTime: {RP!None} \union Times, endTime: {RP!None} \union Times,
   messageFilter: {{}, {1077}}, loopCycles: Loops, maxEvents: {2, 9},
   speed: Speeds]

MCInit == Init /\ frames = <<>> /\ arrival = <<>> /\ config = NoConfig

\* Planning starts in one state before the first process.
Unplayed ==
  /\ pc = "off" /\ troubles = 0 /\ input = "all" /\ faults \in MCNoFaults
  /\ config = NoConfig

Record ==
  /\ Unplayed /\ Len(frames) < MaxFrames
  /\ \E ok \in BOOLEAN, number \in Numbers, gap \in Gaps :
       /\ frames' = Append(frames, [ok |-> ok, number |-> number])
       /\ arrival' = Append(arrival, IF arrival = <<>> THEN FirstStamp
                                     ELSE arrival[Len(arrival)] + gap)
  /\ UNCHANGED <<config, vars>>

Configure ==
  /\ Unplayed
  /\ config' \in AllConfigs
  /\ UNCHANGED <<frames, arrival, vars>>

Play == frames = <<>> /\ config = NoConfig /\ Next /\ UNCHANGED call

MCNext == Record \/ Configure \/ Play
MCSpec ==
  /\ MCInit /\ [][MCNext]_<<vars, call>>
  /\ WF_vars(Running)

timeline == RP!Timeline(frames, arrival)
planned == RP!ApplyPlan(timeline, config)
Configured == config # NoConfig /\ RP!Admissible(timeline, config)

---------------------------------------------------------------------------
\* A planned event can be told from every other one by its cycle and its
\* sequence, and they are played in the order of both: a repetition is never
\* taken for captured data.  Integer pacing never runs ahead of the recording
\* and falls behind by less than a millisecond an event, in every cycle; a
\* loop restart takes no time, and no delay is negative, as the clock refuses
\* to go back.
CyclesOrdered ==
  Configured =>
    /\ \A k \in 2 .. Len(planned) :
         \/ /\ planned[k - 1].cycle = planned[k].cycle
            /\ planned[k - 1].event.sequence < planned[k].event.sequence
         \/ planned[k - 1].cycle + 1 = planned[k].cycle
    /\ LET delays == RP!Delays(planned, config.speed)
           recorded(j, k) == planned[k].event.relative - planned[j].event.relative
           paced(j, k) == RP!FoldSeq(+, 0, SubSeq(delays, j + 1, k))
       IN /\ \A k \in 1 .. Len(planned) : delays[k] >= 0
          /\ \A j, k \in 1 .. Len(planned) :
               (config.speed > 0 /\ j < k /\ planned[j].cycle = planned[k].cycle) =>
                 /\ config.speed * paced(j, k) <= recorded(j, k)
                 /\ recorded(j, k) < config.speed * (paced(j, k) + k - j)

Number(text) == RP!FoldLeft(LAMBDA n, d : 10 * n + d, 0, text)
InInterval(e) ==
  /\ config.startTime = RP!None \/ Number(e.text) >= config.startTime
  /\ config.endTime = RP!None \/ Number(e.text) <= config.endTime
SameWidth ==
  \A k \in 1 .. Len(timeline), t \in {config.startTime, config.endTime} :
    t # RP!None => Len(timeline[k].text) = Len(RP!Digits[t])

\* Frames quarantined by the CRC do not shift the timing of those that
\* follow: two events are as far apart as their frames arrived.  Between
\* timestamps of as many digits, though they are compared as text, a time
\* slice is the closed interval it names.
TimingKept ==
  Configured =>
    /\ \A j, k \in 1 .. Len(timeline) :
         timeline[k].relative - timeline[j].relative
           = arrival[timeline[k].frame] - arrival[timeline[j].frame]
    /\ SameWidth =>
         \A k \in 1 .. Len(timeline) :
           RP!InTimeRange(timeline[k], config) <=> InInterval(timeline[k])

\* What apply_plan and the pacing make of a recording keeps its order, cycle
\* after cycle, and its timing, whatever was quarantined, cut out or filtered.
PlanKept == CyclesOrdered /\ TimingKept
=============================================================================
