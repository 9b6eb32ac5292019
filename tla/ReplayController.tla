-------------------------- MODULE ReplayController --------------------------
(***************************************************************************)
(* ReplayController and the checkpoint file: one process at a time plays a *)
(* planned list of events to a consumer, is paused, stopped, killed or     *)
(* failed by its consumer between any two steps, and is resumed from the   *)
(* checkpoint by another process.  pause(), resume(), stop() come from the *)
(* consumer's callback or from another thread.  Pacing and the selection   *)
(* of events are ReplayPlan's subject; a frame is the event it was read    *)
(* from.                                                                   *)
(***************************************************************************)
EXTENDS Integers, Sequences, FiniteSets

CONSTANTS
  Inputs,        \* source, configuration and schedule a process starts with
  Sources,       \* source fingerprints
  Configs,       \* configuration fingerprints
  Fingerprint,   \* Fingerprint[i]: what admission computes for input i
  Events,        \* planned events: sequence and cycle
  Plan,          \* Plan[i]: what apply_plan returns for input i
  Capacity,      \* config.buffer_capacity
  DropNewest,    \* is the policy DROP_NEWEST_EXPLICIT?
  FaultPlans,    \* the fault plans a replay may be given
  ConsumerRaises,\* may the consumer raise after it took a frame?
  MaxTroubles    \* bound: starts of a process and raises of its consumer

Prints == [source: Sources, config: Configs]

ASSUME ReplayAssumption ==
  /\ Fingerprint \in [Inputs -> Prints]
  /\ Events \subseteq [sequence: Nat, cycle: Nat]
  /\ Plan \in [Inputs -> Seq(Events)]
  /\ Capacity \in Nat \ {0}
  /\ DropNewest \in BOOLEAN
  /\ FaultPlans \subseteq [truncateAfter: Nat, stallAfter: Nat]
  /\ ConsumerRaises \in BOOLEAN
  /\ MaxTroubles \in Nat

VARIABLES
  pc,              \* "off": no process; otherwise where run() is
  input,           \* what this process was started with
  faults,          \* _faults
  position,        \* _position: events emitted
  resumedAt,       \* the position this process started at
  paused,          \* _paused
  stopped,         \* _stopped
  queue,           \* _buffer
  pending,         \* the frames drained and not yet consumed
  consumerFrames,  \* _consumer_frames
  dropped,         \* _frames_dropped
  disk,            \* checkpoint.json
  mine,            \* events this process handed to the consumer
  heard,           \* heard[p]: events any process handed over under p
  troubles         \* starts and raises so far

controlVars == <<paused, stopped>>
emitVars == <<position, queue, pending, consumerFrames, dropped>>
processVars == <<input, faults, resumedAt>>
historyVars == <<mine, heard>>
vars == <<pc, controlVars, emitVars, processVars, historyVars, disk, troubles>>

Places == {"off", "idle", "loop", "consuming", "consumed"}

\* A checkpoint, or none: a file that is absent or cannot be parsed.
NoCheckpoint == [valid |-> FALSE]
Checkpoints == [valid: {TRUE}, print: Prints, last: Int]

plan == Plan[input]
Event == plan[position + 1]

Init ==
  /\ pc = "off" /\ input \in Inputs /\ faults \in FaultPlans
  /\ position = 0 /\ resumedAt = 0
  /\ paused = FALSE /\ stopped = FALSE
  /\ queue = <<>> /\ pending = <<>> /\ consumerFrames = 0 /\ dropped = 0
  /\ disk = NoCheckpoint
  /\ mine = <<>> /\ heard = [p \in Prints |-> <<>>]
  /\ troubles = 0

---------------------------------------------------------------------------
(* A process: replay, resume, checkpoint, death.                           *)

\* A new controller for input i that will emit event at + 1 first.
NewController(i, at) ==
  /\ pc = "off" /\ troubles < MaxTroubles
  /\ pc' = "idle" /\ input' = i /\ position' = at /\ resumedAt' = at
  /\ faults' \in FaultPlans
  /\ paused' = FALSE /\ stopped' = FALSE
  /\ queue' = <<>> /\ pending' = <<>> /\ consumerFrames' = 0 /\ dropped' = 0
  /\ mine' = <<>>
  /\ troubles' = troubles + 1
  /\ UNCHANGED <<disk, heard>>

Replay(i) == NewController(i, 0)

\* validate_checkpoint against what this process would replay.
ValidSourceOnly(i) == disk.print.source = Fingerprint[i].source
Valid(i) == disk.print = Fingerprint[i]

Target == disk.last + 1

Resume(i) ==
  /\ disk # NoCheckpoint
  /\ Valid(i)
  /\ Target >= 0 /\ Target <= Len(Plan[i])
  /\ NewController(i, Target)

\* make_checkpoint and write_json, from the caller of run() or from within
\* the consumer's callback.
SaveCheckpoint ==
  /\ pc \in {"idle", "consumed"}
  /\ disk' = [valid |-> TRUE, print |-> Fingerprint[input],
              last |-> position - 1]
  /\ UNCHANGED <<pc, controlVars, emitVars, processVars, historyVars, troubles>>

\* The process ends or is killed; while write_json runs, it leaves a file
\* nobody can parse.
Die ==
  /\ pc # "off"
  /\ pc' = "off"
  /\ \/ disk' = disk
     \/ pc \in {"idle", "consumed"} /\ disk' = NoCheckpoint
  /\ UNCHANGED <<controlVars, emitVars, processVars, historyVars, troubles>>

---------------------------------------------------------------------------
(* pause, resume, stop                                                     *)

Pause ==
  /\ pc # "off"
  /\ paused' = TRUE
  /\ UNCHANGED <<pc, stopped, emitVars, processVars, historyVars, disk, troubles>>

Continue ==
  /\ pc # "off"
  /\ paused' = FALSE
  /\ UNCHANGED <<pc, stopped, emitVars, processVars, historyVars, disk, troubles>>

Stop ==
  /\ pc # "off"
  /\ stopped' = TRUE
  /\ UNCHANGED <<pc, paused, emitVars, processVars, historyVars, disk, troubles>>

---------------------------------------------------------------------------
(* run                                                                     *)

\* run() calls start().
Run ==
  /\ pc = "idle"
  /\ pc' = "loop" /\ paused' = FALSE /\ stopped' = FALSE
  /\ UNCHANGED <<emitVars, processVars, historyVars, disk, troubles>>

Finished == position >= Len(plan)

Return ==
  /\ pc = "loop"
  /\ Finished \/ paused \/ stopped
  /\ pc' = "idle"
  /\ UNCHANGED <<controlVars, emitVars, processVars, historyVars, disk, troubles>>

Emitting == pc = "loop" /\ ~Finished /\ ~paused /\ ~stopped

\* max_steps, any number the caller chose, is used up.
StepsSpent ==
  /\ Emitting
  /\ pc' = "idle" /\ paused' = TRUE
  /\ UNCHANGED <<stopped, emitVars, processVars, historyVars, disk, troubles>>

Truncated == Event.sequence > faults.truncateAfter

FaultTruncation ==
  /\ Emitting /\ Truncated
  /\ stopped' = TRUE
  /\ UNCHANGED <<pc, paused, emitVars, processVars, historyVars, disk, troubles>>

\* BoundedBuffer.drain
DrainKeeping(q) == q
DrainAll(q) == <<>>

\* try_put, then drain.  A full buffer drops the frame or waits a
\* millisecond and leaves the retry to the loop.
Emit ==
  /\ Emitting /\ ~Truncated
  /\ IF Len(queue) < Capacity
     THEN /\ pending' = Append(queue, Event)
          /\ queue' = DrainAll(pending')
          /\ pc' = "consuming"
          /\ UNCHANGED <<position, dropped>>
     ELSE /\ IF DropNewest
             THEN position' = position + 1 /\ dropped' = dropped + 1
             ELSE UNCHANGED <<position, dropped>>
          /\ UNCHANGED <<pc, queue, pending>>
  /\ UNCHANGED <<consumerFrames, controlVars, processVars, historyVars, disk, troubles>>

Stalled == consumerFrames >= faults.stallAfter

\* ConsumerStalled leaves run(); what was drained is gone.
PositionAfterStallLost == position + 1
PositionAfterStall == position

FaultConsumerStall ==
  /\ pc = "consuming" /\ pending # <<>> /\ Stalled
  /\ pc' = "idle" /\ pending' = <<>> /\ position' = PositionAfterStall
  /\ UNCHANGED <<queue, consumerFrames, dropped, controlVars, processVars,
                 historyVars, disk, troubles>>

\* The consumer has taken the frame and is still inside its callback.
Consume ==
  /\ pc = "consuming" /\ pending # <<>> /\ ~Stalled
  /\ pc' = "consumed"
  /\ mine' = Append(mine, Head(pending))
  /\ heard' = [heard EXCEPT ![Fingerprint[input]] = Append(@, Head(pending))]
  /\ pending' = Tail(pending)
  /\ UNCHANGED <<position, queue, consumerFrames, dropped, controlVars,
                 processVars, disk, troubles>>

ConsumerRaise ==
  /\ pc = "consumed" /\ ConsumerRaises
  /\ troubles < MaxTroubles /\ troubles' = troubles + 1
  /\ pc' = "idle" /\ pending' = <<>>
  /\ UNCHANGED <<position, queue, consumerFrames, dropped, controlVars,
                 processVars, historyVars, disk>>

Moved == position + 1

\* The callback returns; the position moves when nothing drained is left.
Advance ==
  /\ pc = "consumed"
  /\ consumerFrames' = consumerFrames + 1
  /\ IF pending = <<>>
     THEN pc' = "loop" /\ position' = Moved
     ELSE pc' = "consuming" /\ position' = position
  /\ UNCHANGED <<queue, pending, dropped, controlVars, processVars,
                 historyVars, disk, troubles>>

---------------------------------------------------------------------------
RunStep ==
  \/ Return \/ StepsSpent \/ FaultTruncation \/ Emit
  \/ FaultConsumerStall \/ Consume \/ ConsumerRaise \/ Advance

Next ==
  \/ \E i \in Inputs : Replay(i) \/ Resume(i)
  \/ SaveCheckpoint \/ Die
  \/ Pause \/ Continue \/ Stop \/ Run
  \/ RunStep

Spec == Init /\ [][Next]_vars

\* run() is one thread that keeps running; its consumer returns.
Running == Return \/ FaultTruncation \/ Emit
             \/ FaultConsumerStall \/ Consume \/ Advance
FairSpec == Spec /\ WF_vars(Running)

---------------------------------------------------------------------------
(* Properties                                                              *)

TypeOK ==
  /\ pc \in Places
  /\ input \in Inputs /\ faults \in FaultPlans
  /\ position \in 0 .. Len(plan) /\ resumedAt \in 0 .. Len(plan)
  /\ paused \in BOOLEAN /\ stopped \in BOOLEAN
  /\ queue \in Seq(Events) /\ pending \in Seq(Events)
  /\ consumerFrames \in Nat /\ dropped \in Nat
  /\ disk \in Checkpoints \union {NoCheckpoint}
  /\ mine \in Seq(Events) /\ heard \in [Prints -> Seq(Events)]
  /\ troubles \in Nat

\* run() never meets a full buffer, under any policy and after any
\* exception: the paths that drop a frame, or wait for a drain that nobody
\* would perform, are dead.
NeverRefused == Emitting => Len(queue) < Capacity

\* How many of the first k frames are not a repetition of the one before.
Fresh(frames, k) ==
  Cardinality({j \in 1 .. k : j = 1 \/ frames[j] # frames[j - 1]})

\* However a process was paused, stopped, restarted or stalled, what it gave
\* to the consumer is the stretch of the plan from where it started to where
\* it is: none left out, none out of place, and none given again but the one
\* whose consumer raised, once for each time it did.
ExactStretch ==
  LET given == Fresh(mine, Len(mine))
  IN  pc # "off" =>
        /\ \A k \in DOMAIN mine : mine[k] = plan[resumedAt + Fresh(mine, k)]
        /\ resumedAt + given - position
             \in IF pc = "consumed" THEN {1} ELSE IF ConsumerRaises THEN {0, 1} ELSE {0}
        /\ Len(mine) - given <= IF ConsumerRaises THEN troubles - 1 ELSE 0

\* The metrics add up whenever they can be read: producer_frames counts the
\* resumed part as well, consumer_frames only what this process delivered.
CountsAgree ==
  pc \in {"idle", "loop"} => position = resumedAt + consumerFrames + dropped

\* A checkpoint never points past what was handed over: no event is skipped
\* by dying and resuming, whatever the process was doing.
Promise == INSTANCE Playback
ImplementsPlayback == Promise!Spec

\* run() returns unless its process dies.
RunReturns == pc = "loop" ~> pc \in {"idle", "off"}
=============================================================================
