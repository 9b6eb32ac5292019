----------------------- MODULE ReplayControllerProofs -----------------------
(***************************************************************************)
(* Proofs about ReplayController for all plans, capacities, policies and   *)
(* fault plans, any number of processes, pauses, failures and deaths.      *)
(***************************************************************************)
EXTENDS ReplayController, SequenceTheorems, FiniteSetTheorems, TLAPS

(***************************************************************************)
(* The inductive invariant.  ControlInv says where run() is: the buffer is *)
(* empty between two statements of _emit_one, so nothing is ever refused,  *)
(* and the frame under way is the next event of the plan.                  *)
(***************************************************************************)
ControlInv ==
  /\ queue = <<>> /\ dropped = 0
  /\ pc = "consuming" => position < Len(plan) /\ pending = <<Event>>
  /\ pc = "consumed" => position < Len(plan) /\ pending = <<>>
  /\ position = resumedAt + consumerFrames

Inv == TypeOK /\ ControlInv

Quiet == Pause \/ Continue \/ Stop \/ Run \/ Return \/ StepsSpent
         \/ FaultTruncation

---------------------------------------------------------------------------
\* The plan of a process is a sequence of events.
LEMMA PlanType ==
  ASSUME TypeOK
  PROVE  /\ plan \in Seq(Events) /\ Len(plan) \in Nat
         /\ \A n \in 1 .. Len(plan) : plan[n] \in Events
<1>1. plan \in Seq(Events)
  BY ReplayAssumption DEF TypeOK, plan
<1>2. QED
  BY <1>1, LenProperties, ElementOfSeq

\* What a step of run() or of a callback that moves no frame leaves alone.
LEMMA QuietStep ==
  ASSUME Inv, Quiet
  PROVE  /\ UNCHANGED <<emitVars, processVars, historyVars, disk, troubles>>
         /\ UNCHANGED <<plan, Event>>
         /\ pc' \in Places
         /\ pc' = pc \/ pc' \in {"idle", "loop"}
         /\ pc # "off"
         /\ paused' \in BOOLEAN /\ stopped' \in BOOLEAN
<1>1. CASE Pause
  BY <1>1 DEF Pause, Inv, TypeOK, plan, Event, emitVars, processVars,
              historyVars
<1>2. CASE Continue
  BY <1>2 DEF Continue, Inv, TypeOK, plan, Event, emitVars, processVars,
              historyVars
<1>3. CASE Stop
  BY <1>3 DEF Stop, Inv, TypeOK, plan, Event, emitVars, processVars,
              historyVars
<1>4. CASE Run
  BY <1>4 DEF Run, Inv, TypeOK, plan, Event, emitVars, processVars,
              historyVars, Places
<1>5. CASE Return
  BY <1>5 DEF Return, Inv, TypeOK, plan, Event, emitVars, processVars,
              historyVars, controlVars, Places
<1>6. CASE StepsSpent
  BY <1>6 DEF StepsSpent, Emitting, Inv, TypeOK, plan, Event, emitVars,
              processVars, historyVars, Places
<1>7. CASE FaultTruncation
  BY <1>7 DEF FaultTruncation, Emitting, Inv, TypeOK, plan, Event, emitVars,
              processVars, historyVars
<1>8. QED
  BY <1>1, <1>2, <1>3, <1>4, <1>5, <1>6, <1>7 DEF Quiet

\* A controller starts with an empty buffer at the position it was given.
LEMMA NewControllerInv ==
  ASSUME Inv, NEW i \in Inputs, NEW at \in 0 .. Len(Plan[i]),
         NewController(i, at)
  PROVE  Inv'
<1>1. /\ pc' = "idle" /\ input' = i /\ position' = at /\ resumedAt' = at
      /\ faults' \in FaultPlans
      /\ paused' = FALSE /\ stopped' = FALSE
      /\ queue' = <<>> /\ pending' = <<>> /\ consumerFrames' = 0
      /\ dropped' = 0 /\ mine' = <<>> /\ troubles' = troubles + 1
      /\ UNCHANGED <<disk, heard>>
  BY DEF NewController
<1>2. TypeOK'
  <2>1. /\ pc' \in Places /\ input' \in Inputs /\ faults' \in FaultPlans
        /\ paused' \in BOOLEAN /\ stopped' \in BOOLEAN
    BY <1>1, Zenon DEF Places
  <2>2. position' \in 0 .. Len(plan') /\ resumedAt' \in 0 .. Len(plan')
    BY <1>1 DEF plan
  <2>3. /\ queue' \in Seq(Events) /\ pending' \in Seq(Events)
        /\ mine' \in Seq(Events)
    BY <1>1, EmptySeq
  <2>4. consumerFrames' \in Nat /\ dropped' \in Nat /\ troubles' \in Nat
    BY <1>1 DEF Inv, TypeOK
  <2>5. disk' \in Checkpoints \union {NoCheckpoint}
        /\ heard' \in [Prints -> Seq(Events)]
    BY <1>1 DEF Inv, TypeOK
  <2>6. QED
    BY <2>1, <2>2, <2>3, <2>4, <2>5 DEF TypeOK
<1>3. ControlInv'
  BY <1>1 DEF ControlInv
<1>4. QED
  BY <1>2, <1>3 DEF Inv

LEMMA ResumeStarts ==
  ASSUME Inv, NEW i \in Inputs, Resume(i)
  PROVE  /\ disk \in Checkpoints /\ disk.last \in Int
         /\ disk.print = Fingerprint[i]
         /\ Target = disk.last + 1
         /\ Target \in 0 .. Len(Plan[i]) /\ NewController(i, Target)
<1>1. disk \in Checkpoints
  BY DEF Resume, Inv, TypeOK
<1>2. disk.last \in Int
  BY <1>1 DEF Checkpoints
<1>3. Len(Plan[i]) \in Nat
  BY ReplayAssumption, LenProperties
<1>4. QED
  BY <1>1, <1>2, <1>3 DEF Resume, Valid, Target

\* The buffer is empty when _emit_one reaches it: the event is accepted,
\* drained and about to be consumed.
LEMMA EmitEffect ==
  ASSUME Inv, Emit
  PROVE  /\ pc = "loop" /\ pc' = "consuming"
         /\ position < Len(plan) /\ Event \in Events
         /\ pending' = <<Event>> /\ queue' = <<>>
         /\ UNCHANGED <<position, dropped, consumerFrames, controlVars,
                        processVars, historyVars, disk, troubles>>
<1>1. Len(queue) < Capacity
  BY EmptySeq, ReplayAssumption DEF Inv, ControlInv
<1>2. /\ pc = "loop" /\ pc' = "consuming"
      /\ pending' = Append(queue, Event) /\ queue' = <<>>
      /\ UNCHANGED <<position, dropped, consumerFrames, controlVars,
                     processVars, historyVars, disk, troubles>>
  BY <1>1 DEF Emit, Emitting, DrainAll
<1>3. position \in Nat /\ position < Len(plan)
  BY PlanType DEF Emit, Emitting, Finished, Inv, TypeOK
<1>4. Event \in Events
  <2>1. position + 1 \in 1 .. Len(plan)
    BY <1>3, PlanType DEF Inv
  <2>2. QED
    BY <2>1, PlanType DEF Event, Inv
<1>5. pending' = <<Event>>
  BY <1>2 DEF Inv, ControlInv
<1>6. QED
  BY <1>2, <1>3, <1>4, <1>5

LEMMA EmitInv ==
  ASSUME Inv, Emit
  PROVE  Inv'
<1> USE EmitEffect
<1>1. UNCHANGED <<plan, Event>>
  BY DEF plan, Event, processVars
<1>2. <<Event>> \in Seq(Events) /\ <<>> \in Seq(Events)
  BY EmptySeq
<1>3. TypeOK'
  <2>1. pending' \in Seq(Events) /\ queue' \in Seq(Events)
    BY <1>2
  <2>2. UNCHANGED <<position, dropped, consumerFrames, paused, stopped, input,
                    faults, resumedAt, mine, heard, disk, troubles>>
    BY DEF controlVars, processVars, historyVars
  <2>3. pc' \in Places
    BY DEF Places
  <2> HIDE EmitEffect
  <2>4. QED
    BY <1>1, <2>1, <2>2, <2>3 DEF Inv, TypeOK
<1>4. ControlInv'
  BY <1>1 DEF Inv, ControlInv, processVars
<1>5. QED
  BY <1>3, <1>4 DEF Inv

\* The consumer is handed the next event of the plan.
LEMMA ConsumeEffect ==
  ASSUME Inv, Consume
  PROVE  /\ pc = "consuming" /\ pc' = "consumed"
         /\ position < Len(plan) /\ Event \in Events
         /\ mine' = Append(mine, Event)
         /\ heard' = [heard EXCEPT ![Fingerprint[input]] = Append(@, Event)]
         /\ pending' = <<>>
         /\ UNCHANGED <<position, queue, dropped, consumerFrames, controlVars,
                        processVars, disk, troubles>>
<1>1. /\ pc = "consuming" /\ pending = <<Event>> /\ position < Len(plan)
  BY DEF Consume, Inv, ControlInv
<1>2. position + 1 \in 1 .. Len(plan)
  BY <1>1, PlanType DEF Inv, TypeOK
<1>3. Event \in Events
  BY <1>2, PlanType DEF Event, Inv
<1>4. Head(pending) = Event /\ Tail(pending) = <<>>
  BY <1>1
<1>5. QED
  BY <1>1, <1>3, <1>4 DEF Consume

LEMMA ConsumeInv ==
  ASSUME Inv, Consume
  PROVE  Inv'
<1> USE ConsumeEffect
<1>1. UNCHANGED <<plan, Event>>
  BY DEF plan, Event, processVars
<1>2. mine' \in Seq(Events) /\ <<>> \in Seq(Events)
  <2>1. mine \in Seq(Events)
    BY DEF Inv, TypeOK
  <2>2. Event \in Events /\ mine' = Append(mine, Event)
    OBVIOUS
  <2>3. <<>> \in Seq(Events)
    BY EmptySeq
  <2> HIDE ConsumeEffect
  <2>4. mine' \in Seq(Events)
    BY <2>1, <2>2, AppendProperties
  <2>5. QED
    BY <2>3, <2>4
<1>3. heard' \in [Prints -> Seq(Events)]
  <2>1. Fingerprint[input] \in Prints
    BY ReplayAssumption DEF Inv, TypeOK
  <2>2. Append(heard[Fingerprint[input]], Event) \in Seq(Events)
    BY <2>1, AppendProperties DEF Inv, TypeOK
  <2>3. QED
    BY <2>2 DEF Inv, TypeOK
<1>4. TypeOK'
  BY <1>1, <1>2, <1>3 DEF Inv, TypeOK, Places, controlVars, processVars
<1>5. ControlInv'
  BY <1>1 DEF Inv, ControlInv, processVars
<1>6. QED
  BY <1>4, <1>5 DEF Inv

LEMMA AdvanceEffect ==
  ASSUME Inv, Advance
  PROVE  /\ pc = "consumed" /\ pc' = "loop"
         /\ position < Len(plan) /\ position' = position + 1
         /\ consumerFrames' = consumerFrames + 1
         /\ UNCHANGED <<queue, pending, dropped, controlVars, processVars,
                        historyVars, disk, troubles>>
<1>1. pc = "consumed" /\ pending = <<>> /\ position < Len(plan)
  BY DEF Advance, Inv, ControlInv
<1>2. QED
  BY <1>1 DEF Advance, Moved

LEMMA AdvanceInv ==
  ASSUME Inv, Advance
  PROVE  Inv'
<1> USE AdvanceEffect
<1>1. UNCHANGED plan
  BY DEF plan, processVars
<1>2. position' \in 0 .. Len(plan')
  BY <1>1, PlanType DEF Inv, TypeOK
<1>3. TypeOK'
  BY <1>1, <1>2 DEF Inv, TypeOK, Places, controlVars, processVars, historyVars
<1>4. ControlInv'
  <2>1. resumedAt' = resumedAt /\ resumedAt \in Nat /\ consumerFrames \in Nat
    BY PlanType DEF Inv, TypeOK, processVars
  <2>2. position' = resumedAt' + consumerFrames'
    BY <2>1 DEF Inv, ControlInv
  <2>3. QED
    BY <2>2 DEF Inv, ControlInv
<1>5. QED
  BY <1>3, <1>4 DEF Inv

LEMMA RaiseInv ==
  ASSUME Inv, FaultConsumerStall \/ ConsumerRaise
  PROVE  Inv'
<1>1. /\ pc' = "idle" /\ pending' = <<>> /\ position' = position
      /\ troubles' \in Nat
      /\ UNCHANGED <<queue, consumerFrames, dropped, controlVars, processVars,
                     historyVars, disk>>
  BY DEF FaultConsumerStall, ConsumerRaise, PositionAfterStall, Inv, TypeOK
<1>2. UNCHANGED plan
  BY <1>1 DEF plan, processVars
<1>3. TypeOK'
  BY <1>1, <1>2, EmptySeq
     DEF Inv, TypeOK, Places, controlVars, processVars, historyVars
<1>4. ControlInv'
  BY <1>1 DEF Inv, ControlInv, processVars
<1>5. QED
  BY <1>3, <1>4 DEF Inv

LEMMA SaveInv ==
  ASSUME Inv, SaveCheckpoint
  PROVE  Inv'
<1>1. UNCHANGED <<pc, controlVars, emitVars, processVars, historyVars, troubles>>
  BY DEF SaveCheckpoint
<1>2. disk' \in Checkpoints
  <2>1. Fingerprint[input] \in Prints /\ position - 1 \in Int
    BY ReplayAssumption, PlanType DEF Inv, TypeOK
  <2>2. QED
    BY <2>1 DEF SaveCheckpoint, Checkpoints
<1>3. QED
  BY <1>1, <1>2 DEF Inv, TypeOK, ControlInv, plan, Event, controlVars, emitVars,
                    processVars, historyVars

LEMMA DieInv ==
  ASSUME Inv, Die
  PROVE  Inv'
<1>1. /\ UNCHANGED <<controlVars, emitVars, processVars, historyVars, troubles>>
      /\ pc' = "off"
      /\ disk' = disk \/ disk' = NoCheckpoint
  BY DEF Die
<1>2. QED
  BY <1>1 DEF Inv, TypeOK, ControlInv, Places, plan, Event, controlVars,
              emitVars, processVars, historyVars

LEMMA StepInv == Inv /\ [Next]_vars => Inv'
<1> SUFFICES ASSUME Inv, [Next]_vars PROVE Inv'
  OBVIOUS
<1>1. ASSUME NEW i \in Inputs, Replay(i) PROVE Inv'
  <2>1. 0 \in 0 .. Len(Plan[i])
    BY ReplayAssumption, LenProperties
  <2>2. QED
    BY <1>1, <2>1, NewControllerInv DEF Replay
<1>2. ASSUME NEW i \in Inputs, Resume(i) PROVE Inv'
  BY <1>2, ResumeStarts, NewControllerInv
<1>3. CASE Quiet
  <2>1. TypeOK'
    BY <1>3, QuietStep DEF Inv, TypeOK, emitVars, processVars, historyVars
  <2>2. ControlInv'
    BY <1>3, QuietStep DEF Inv, ControlInv, emitVars, processVars
  <2>3. QED
    BY <2>1, <2>2 DEF Inv
<1>4. CASE SaveCheckpoint
  BY <1>4, SaveInv
<1>5. CASE Die
  BY <1>5, DieInv
<1>6. CASE Emit
  BY <1>6, EmitInv
<1>7. CASE Consume
  BY <1>7, ConsumeInv
<1>8. CASE Advance
  BY <1>8, AdvanceInv
<1>9. CASE FaultConsumerStall \/ ConsumerRaise
  BY <1>9, RaiseInv
<1>10. CASE UNCHANGED vars
  BY <1>10 DEF vars, Inv, TypeOK, ControlInv, plan, Event, controlVars,
               emitVars, processVars, historyVars
<1>11. QED
  BY <1>1, <1>2, <1>3, <1>4, <1>5, <1>6, <1>7, <1>8, <1>9, <1>10
     DEF Next, RunStep, Quiet

LEMMA InitInv == Init => Inv
<1> SUFFICES ASSUME Init PROVE Inv
  OBVIOUS
<1>1. Len(plan) \in Nat
  BY ReplayAssumption, LenProperties DEF Init, plan
<1>2. TypeOK
  <2>1. <<>> \in Seq(Events)
    BY EmptySeq
  <2>2. heard \in [Prints -> Seq(Events)]
    BY <2>1 DEF Init
  <2>3. pc \in Places /\ disk \in Checkpoints \union {NoCheckpoint}
    BY DEF Init, Places
  <2>4. position \in 0 .. Len(plan) /\ resumedAt \in 0 .. Len(plan)
    BY <1>1 DEF Init
  <2>5. QED
    BY <2>1, <2>2, <2>3, <2>4 DEF Init, TypeOK
<1>3. ControlInv
  BY DEF Init, ControlInv
<1>4. QED
  BY <1>2, <1>3 DEF Inv

LEMMA Invariant == Spec => []Inv
<1>1. QED
  BY InitInv, StepInv, PTL DEF Spec

---------------------------------------------------------------------------
(* The theorems.                                                           *)

\* The controller's variables keep their types, and its position stays
\* within the plan, whatever plan it resumes.
THEOREM TypeCorrect == Spec => []TypeOK
<1>1. Inv => TypeOK
  BY DEF Inv
<1>2. QED
  BY <1>1, Invariant, PTL

\* No frame is ever refused by the bounded buffer of a replay: its drop and
\* wait paths are unreachable for every capacity and policy.
THEOREM BufferNeverFull == Spec => []NeverRefused
<1>1. Inv => NeverRefused
  BY EmptySeq, ReplayAssumption DEF Inv, ControlInv, NeverRefused
<1>2. QED
  BY <1>1, Invariant, PTL

\* The counters of ReplayMetrics add up whenever run() is not in the middle
\* of a frame.
THEOREM CountsCorrect == Spec => []CountsAgree
<1>1. Inv => CountsAgree
  <2> SUFFICES ASSUME Inv PROVE CountsAgree
    OBVIOUS
  <2>1. consumerFrames \in Nat /\ resumedAt \in Nat
    BY PlanType DEF Inv, TypeOK
  <2>2. QED
    BY <2>1 DEF Inv, ControlInv, CountsAgree
<1>2. QED
  BY <1>1, Invariant, PTL

---------------------------------------------------------------------------
(***************************************************************************)
(* What the consumer has heard.  HeardInv: a process never stands past     *)
(* what was handed over under its fingerprints, and neither does a         *)
(* checkpoint.  It needs fingerprints that tell plans apart.               *)
(***************************************************************************)
FingerprintsFaithful ==
  \A i, j \in Inputs : Fingerprint[i] = Fingerprint[j] => Plan[i] = Plan[j]

HeardSet(p) == {heard[p][k] : k \in 1 .. Len(heard[p])}

HeardInv ==
  /\ pc # "off" =>
       \A m \in 1 .. position : plan[m] \in HeardSet(Fingerprint[input])
  /\ pc = "consumed" => plan[position + 1] \in HeardSet(Fingerprint[input])
  /\ disk # NoCheckpoint =>
       \A i \in Inputs : \A m \in 1 .. Len(Plan[i]) :
         Fingerprint[i] = disk.print /\ m <= disk.last + 1
           => Plan[i][m] \in HeardSet(disk.print)

\* Handing an event over adds it to what was heard under one fingerprint.
LEMMA HeardGrows ==
  ASSUME Inv, NEW p \in Prints, NEW e \in Events,
         heard' = [heard EXCEPT ![p] = Append(@, e)]
  PROVE  /\ \A q \in Prints : HeardSet(q) \subseteq HeardSet(q)'
         /\ e \in HeardSet(p)'
<1>1. \A q \in Prints : heard[q] \in Seq(Events)
  BY DEF Inv, TypeOK
<1>2. heard'[p] = Append(heard[p], e)
  BY DEF Inv, TypeOK
<1>3. \A q \in Prints : q # p => heard'[q] = heard[q]
  BY DEF Inv, TypeOK
<1>4. /\ Len(heard'[p]) = Len(heard[p]) + 1 /\ Len(heard[p]) \in Nat
      /\ \A k \in 1 .. Len(heard[p]) : heard'[p][k] = heard[p][k]
      /\ heard'[p][Len(heard[p]) + 1] = e
  BY <1>1, <1>2, AppendProperties, LenProperties
<1>5. HeardSet(p) \subseteq HeardSet(p)'
  <2>1. \A k \in 1 .. Len(heard[p]) :
          k \in 1 .. Len(heard'[p]) /\ heard'[p][k] = heard[p][k]
    BY <1>4
  <2>2. QED
    BY <2>1, Zenon DEF HeardSet
<1>6. e \in HeardSet(p)'
  <2>1. Len(heard[p]) + 1 \in 1 .. Len(heard'[p])
    BY <1>4
  <2>2. QED
    BY <1>4, <2>1, Zenon DEF HeardSet
<1>7. \A q \in Prints : q # p => HeardSet(q) = HeardSet(q)'
  BY <1>3, Zenon DEF HeardSet
<1>8. QED
  BY <1>5, <1>6, <1>7

LEMMA HeardSame ==
  ASSUME heard' = heard
  PROVE  \A q : HeardSet(q)' = HeardSet(q)
<1>1. QED
  BY Zenon DEF HeardSet

LEMMA HeardStep ==
  FingerprintsFaithful /\ Inv /\ HeardInv /\ [Next]_vars => HeardInv'
<1> SUFFICES ASSUME FingerprintsFaithful, Inv, HeardInv, [Next]_vars
             PROVE  HeardInv'
  OBVIOUS
<1>1. Fingerprint[input] \in Prints /\ position \in Nat /\ Len(plan) \in Nat
  BY ReplayAssumption, PlanType DEF Inv, TypeOK
<1>2. ASSUME NEW i \in Inputs, Replay(i) PROVE HeardInv'
  <2>1. /\ pc' = "idle" /\ position' = 0 /\ UNCHANGED <<disk, heard>>
    BY <1>2 DEF Replay, NewController
  <2>2. QED
    BY <2>1, HeardSame DEF HeardInv
<1>3. ASSUME NEW i \in Inputs, Resume(i) PROVE HeardInv'
  <2>1. /\ pc' = "idle" /\ input' = i /\ position' = disk.last + 1
        /\ UNCHANGED <<disk, heard>>
        /\ disk.print = Fingerprint[i] /\ disk # NoCheckpoint
        /\ disk.last \in Int /\ disk.last + 1 \in 0 .. Len(Plan[i])
    BY <1>3, ResumeStarts DEF Resume, NewController
  <2>2. \A m \in 1 .. disk.last + 1 : Plan[i][m] \in HeardSet(Fingerprint[i])
    BY <2>1, ReplayAssumption, LenProperties DEF HeardInv
  <2>3. QED
    BY <2>1, <2>2, HeardSame DEF HeardInv, plan
<1>4. CASE Quiet
  <2>1. /\ UNCHANGED <<position, input, heard, disk, plan>>
        /\ pc # "off" /\ (pc' = pc \/ pc' \in {"idle", "loop"})
    BY <1>4, QuietStep DEF emitVars, processVars, historyVars
  <2>2. QED
    BY <2>1, HeardSame DEF HeardInv
<1>5. CASE SaveCheckpoint
  <2>1. /\ UNCHANGED <<pc, position, input, heard>>
        /\ disk' = [valid |-> TRUE, print |-> Fingerprint[input],
                    last |-> position - 1]
        /\ pc # "off"
    BY <1>5 DEF SaveCheckpoint, emitVars, processVars, historyVars
  <2>2. UNCHANGED plan
    BY <2>1 DEF plan
  <2>3. disk'.print = Fingerprint[input] /\ disk'.last + 1 = position
    BY <1>1, <2>1
  <2>4. ASSUME NEW i \in Inputs, NEW m \in 1 .. Len(Plan[i]),
               Fingerprint[i] = disk'.print, m <= disk'.last + 1
        PROVE  Plan[i][m] \in HeardSet(disk'.print)
    <3>1. Plan[i] = plan
      BY <2>3, <2>4 DEF FingerprintsFaithful, plan, Inv, TypeOK
    <3>2. m \in 1 .. position
      BY <1>1, <2>3, <2>4, <3>1
    <3>3. QED
      BY <2>1, <2>3, <3>1, <3>2 DEF HeardInv
  <2>5. QED
    BY <2>1, <2>2, <2>4, HeardSame DEF HeardInv
<1>6. CASE Die
  <2>1. /\ pc' = "off" /\ heard' = heard
        /\ disk' = disk \/ disk' = NoCheckpoint
    BY <1>6 DEF Die, historyVars
  <2>2. QED
    BY <2>1, HeardSame DEF HeardInv
<1>7. CASE Emit
  <2>1. /\ pc # "off" /\ pc' = "consuming"
        /\ UNCHANGED <<position, input, heard, disk>>
    BY <1>7, EmitEffect DEF processVars, historyVars
  <2>2. QED
    BY <2>1, HeardSame DEF HeardInv, plan
<1>8. CASE Consume
  <2>1. /\ pc # "off" /\ pc' = "consumed" /\ Event \in Events
        /\ UNCHANGED <<position, input, disk>>
        /\ heard' = [heard EXCEPT ![Fingerprint[input]] = Append(@, Event)]
    BY <1>8, ConsumeEffect DEF processVars
  <2>2. /\ \A q \in Prints : HeardSet(q) \subseteq HeardSet(q)'
        /\ Event \in HeardSet(Fingerprint[input])'
    BY <1>1, <2>1, HeardGrows
  <2>3. UNCHANGED <<plan, Event>>
    BY <2>1 DEF plan, Event
  <2>4. \A m \in 1 .. position : plan[m] \in HeardSet(Fingerprint[input])'
    BY <1>1, <2>1, <2>2 DEF HeardInv
  <2>5. disk # NoCheckpoint => disk.print \in Prints
    BY DEF Inv, TypeOK, Checkpoints
  <2>6. QED
    BY <2>1, <2>2, <2>3, <2>4, <2>5 DEF HeardInv, Event
<1>9. CASE Advance
  <2>1. /\ pc = "consumed" /\ pc' = "loop" /\ position' = position + 1
        /\ UNCHANGED <<input, heard, disk>>
    BY <1>9, AdvanceEffect DEF processVars, historyVars
  <2>2. ASSUME NEW m \in 1 .. position + 1
        PROVE  plan[m] \in HeardSet(Fingerprint[input])
    <3>1. m \in 1 .. position \/ m = position + 1
      BY <1>1
    <3>2. QED
      BY <2>1, <3>1 DEF HeardInv
  <2>3. QED
    BY <2>1, <2>2, HeardSame DEF HeardInv, plan
<1>10. CASE FaultConsumerStall \/ ConsumerRaise
  <2>1. /\ pc # "off" /\ pc' = "idle"
        /\ UNCHANGED <<position, input, heard, disk>>
    BY <1>10 DEF FaultConsumerStall, ConsumerRaise, PositionAfterStall,
                 processVars, historyVars
  <2>2. QED
    BY <2>1, HeardSame DEF HeardInv, plan
<1>11. CASE UNCHANGED vars
  <2>1. UNCHANGED <<pc, position, input, heard, disk>>
    BY <1>11 DEF vars, emitVars, processVars, historyVars
  <2>2. QED
    BY <2>1, HeardSame DEF HeardInv, plan
<1>12. QED
  BY <1>2, <1>3, <1>4, <1>5, <1>6, <1>7, <1>8, <1>9, <1>10, <1>11
     DEF Next, RunStep, Quiet

\* A step of the controller hands over the next event of its plan, or
\* nothing.
LEMMA PlaybackStep ==
  Inv /\ HeardInv /\ [Next]_vars => [Promise!Next]_heard
<1> SUFFICES ASSUME Inv, HeardInv, [Next]_vars, heard' # heard
             PROVE  Promise!Next
  OBVIOUS
<1>1. CASE Consume
  <2>1. /\ pc # "off" /\ position \in Nat /\ position < Len(plan)
        /\ heard' = [heard EXCEPT ![Fingerprint[input]] = Append(@, Event)]
        /\ Len(plan) \in Nat /\ input \in Inputs
    BY <1>1, ConsumeEffect, PlanType DEF Inv, TypeOK
  <2>2. position + 1 \in 1 .. Len(Plan[input])
    BY <2>1 DEF plan
  <2>3. Promise!HandOver(input, position + 1)
    <3>1. \A m \in 1 .. position + 1 - 1 :
            Plan[input][m] \in HeardSet(Fingerprint[input])
      BY <2>1 DEF HeardInv, plan
    <3>2. QED
      BY <2>1, <3>1 DEF Promise!HandOver, Promise!Heard, HeardSet, Event, plan
  <2>4. QED
    BY <2>1, <2>2, <2>3 DEF Promise!Next
<1>2. CASE ~Consume
  BY <1>2, QuietStep, EmitEffect, AdvanceEffect
     DEF Next, RunStep, Quiet, Replay, Resume, NewController, SaveCheckpoint,
         Die, FaultConsumerStall, ConsumerRaise, historyVars, vars
<1>3. QED
  BY <1>1, <1>2

\* As long as equal fingerprints mean equal plans, no event is ever skipped:
\* an event is handed over only after every event planned before it, by
\* whatever sequence of processes, deaths and resumptions.
THEOREM ReplayImplementsPlayback ==
  ASSUME FingerprintsFaithful
  PROVE  Spec => ImplementsPlayback
<1>1. Init => HeardInv
  BY DEF Init, HeardInv
<1>2. Inv /\ HeardInv /\ [Next]_vars => HeardInv'
  BY HeardStep
<1>3. Init => Promise!Init
  BY DEF Init, Promise!Init
<1>4. QED
  BY <1>1, <1>2, <1>3, PlaybackStep, Invariant, PTL
     DEF Spec, ImplementsPlayback, Promise!Spec

---------------------------------------------------------------------------
(***************************************************************************)
(* What one process gives.  Ahead is 1 while the last frame given is not   *)
(* yet counted by the position: its callback is running, or raised, and    *)
(* the frame is given again.  Every repetition, and the one still owed,    *)
(* has its raise.                                                          *)
(***************************************************************************)
Given == Fresh(mine, Len(mine))
Ahead == resumedAt + Given - position
Owed == IF pc = "consumed" THEN 0 ELSE Ahead

StretchInv ==
  pc # "off" =>
    /\ \A k \in 1 .. Len(mine) : mine[k] = plan[resumedAt + Fresh(mine, k)]
    /\ Ahead \in {0, 1}
    /\ pc = "consumed" => Ahead = 1
    /\ Len(mine) - Given + Owed <= troubles - 1
    /\ ~ConsumerRaises => Owed = 0 /\ Len(mine) = Given

\* No planned event follows itself: apply_plan numbers them by cycle and
\* sequence.
PlansMove ==
  \A i \in Inputs : \A n \in 1 .. Len(Plan[i]) - 1 : Plan[i][n] # Plan[i][n + 1]

\* One frame more is fresh or repeats the last one.
LEMMA FreshStep ==
  ASSUME NEW f, NEW k \in Nat
  PROVE  /\ Fresh(f, k) \in Nat
         /\ k > 0 => Fresh(f, k) > 0
         /\ Fresh(f, k + 1) = Fresh(f, k)
                              + (IF k = 0 \/ f[k + 1] # f[k] THEN 1 ELSE 0)
<1> DEFINE F(n) == {j \in 1 .. n : j = 1 \/ f[j] # f[j - 1]}
<1>0. \A n : Fresh(f, n) = Cardinality(F(n))
  BY DEF Fresh
<1>1. \A n \in Nat : IsFiniteSet(F(n)) /\ Cardinality(F(n)) \in Nat
  <2> TAKE n \in Nat
  <2>1. IsFiniteSet(1 .. n)
    BY FS_Interval
  <2>2. F(n) \in SUBSET (1 .. n)
    OBVIOUS
  <2> HIDE DEF F
  <2> QED
    BY <2>1, <2>2, FS_Subset, FS_CardinalityType
<1>2. k > 0 => 1 \in F(k)
  OBVIOUS
<1>3. k > 0 => Cardinality(F(k)) > 0
  <2>1. k > 0 => F(k) # {}
    BY <1>2
  <2> HIDE DEF F
  <2>2. k > 0 => Cardinality(F(k)) # 0
    BY <1>1, <2>1, FS_EmptySet
  <2> QED
    BY <1>1, <2>2
<1>4. k + 1 \notin F(k)
  OBVIOUS
<1>5. CASE k = 0 \/ f[k + 1] # f[k]
  <2>1. F(k + 1) = F(k) \cup {k + 1}
    BY <1>5
  <2> HIDE DEF F
  <2>2. Cardinality(F(k + 1)) = Cardinality(F(k)) + 1
    BY <1>1, <1>4, <2>1, FS_AddElement
  <2> QED
    BY <1>0, <1>1, <1>3, <1>5, <2>2
<1>6. CASE ~(k = 0 \/ f[k + 1] # f[k])
  <2>1. F(k + 1) = F(k)
    BY <1>6
  <2> HIDE DEF F
  <2> QED
    BY <1>0, <1>1, <1>3, <1>6, <2>1
<1> QED
  BY <1>5, <1>6

LEMMA FreshPrefix ==
  ASSUME NEW f, NEW g, NEW k \in Nat, \A j \in 1 .. k : f[j] = g[j]
  PROVE  Fresh(f, k) = Fresh(g, k)
<1>1. {j \in 1 .. k : j = 1 \/ f[j] # f[j - 1]}
        = {j \in 1 .. k : j = 1 \/ g[j] # g[j - 1]}
  <2>1. \A j \in 1 .. k : j # 1 => j - 1 \in 1 .. k
    OBVIOUS
  <2> QED
    BY <2>1
<1> QED
  BY <1>1 DEF Fresh

LEMMA GivenType ==
  ASSUME Inv
  PROVE  /\ mine \in Seq(Events) /\ Len(mine) \in Nat /\ Given \in Nat
         /\ resumedAt \in Nat /\ position \in Nat /\ troubles \in Nat
         /\ Len(mine) = 0 => Given = 0
         /\ Len(mine) > 0 => Given > 0
<1>1. /\ mine \in Seq(Events) /\ Len(mine) \in Nat
      /\ resumedAt \in Nat /\ position \in Nat /\ troubles \in Nat
  BY PlanType, LenProperties DEF Inv, TypeOK
<1>2. Fresh(mine, 0) = 0
  <2>1. {j \in 1 .. 0 : j = 1 \/ mine[j] # mine[j - 1]} = {}
    OBVIOUS
  <2> QED
    BY <2>1, FS_EmptySet DEF Fresh
<1> QED
  BY <1>1, <1>2, FreshStep DEF Given

\* The next frame given is the one at Ahead: the next of the plan, or again
\* the one that is not counted yet.
LEMMA ConsumeStretch ==
  ASSUME PlansMove, Inv, StretchInv, Consume
  PROVE  StretchInv'
<1>1. /\ pc = "consuming" /\ pc' = "consumed" /\ position < Len(plan)
      /\ mine' = Append(mine, Event) /\ Event \in Events
      /\ UNCHANGED <<position, input, resumedAt, troubles, plan>>
  BY ConsumeEffect DEF processVars, plan
<1> DEFINE n == Len(mine)
<1>2. /\ n \in Nat /\ Given \in Nat /\ resumedAt \in Nat /\ position \in Nat
      /\ troubles \in Nat /\ Len(plan) \in Nat
      /\ n > 0 => Given > 0
      /\ n = 0 => Given = 0
  BY GivenType, PlanType DEF Inv
<1>3. /\ Len(mine') = n + 1 /\ mine'[n + 1] = Event
      /\ \A j \in 1 .. n : mine'[j] = mine[j]
  BY <1>1, GivenType, AppendProperties
<1>4. /\ \A k \in 1 .. n : mine[k] = plan[resumedAt + Fresh(mine, k)]
      /\ Ahead \in {0, 1} /\ n - Given + Ahead <= troubles - 1
      /\ ~ConsumerRaises => Ahead = 0 /\ n = Given
  BY <1>1 DEF StretchInv, Owed
<1>5. \A k \in 1 .. n : Fresh(mine', k) = Fresh(mine, k)
  <2> TAKE k \in 1 .. n
  <2>1. k \in Nat /\ \A j \in 1 .. k : mine'[j] = mine[j]
    BY <1>2, <1>3
  <2> QED
    BY <2>1, FreshPrefix
<1>6. Fresh(mine', n) = Given
  BY <1>2, <1>3, FreshPrefix DEF Given
<1>7. Given' = Given + (IF n = 0 \/ mine'[n + 1] # mine'[n] THEN 1 ELSE 0)
  <2>1. Given' = Fresh(mine', n + 1)
    BY <1>3 DEF Given
  <2>2. Fresh(mine', n + 1) = Fresh(mine', n)
          + (IF n = 0 \/ mine'[n + 1] # mine'[n] THEN 1 ELSE 0)
    BY <1>2, FreshStep
  <2> QED
    BY <1>6, <2>1, <2>2
<1>8. n > 0 => mine'[n] = plan[resumedAt + Given] /\ n \in 1 .. n
  BY <1>2, <1>3, <1>4 DEF Given
<1>9. Event = plan[position + 1]
  BY DEF Event
<1>10. /\ Given' = Given + (1 - Ahead)
  <2>1. CASE n = 0
    BY <1>2, <1>4, <1>7, <2>1 DEF Ahead, Inv, ControlInv, TypeOK
  <2>2. CASE n > 0 /\ Ahead = 1
    <3>1. resumedAt + Given = position + 1
      BY <1>2, <2>2 DEF Ahead
    <3> QED
      BY <1>2, <1>3, <1>7, <1>8, <1>9, <2>2, <3>1
  <2>3. CASE n > 0 /\ Ahead = 0
    <3>1. resumedAt + Given = position /\ position \in 1 .. Len(plan) - 1
      BY <1>1, <1>2, <2>3 DEF Ahead
    <3>2. plan[position] # plan[position + 1]
      BY <3>1 DEF PlansMove, plan, Inv, TypeOK
    <3> QED
      BY <1>2, <1>3, <1>7, <1>8, <1>9, <2>3, <3>1, <3>2
  <2> QED
    BY <1>2, <1>4, <2>1, <2>2, <2>3
<1>11. Ahead' = 1 /\ resumedAt + Given' = position + 1
  BY <1>1, <1>2, <1>4, <1>10 DEF Ahead
<1>12. \A k \in 1 .. n + 1 : mine'[k] = plan[resumedAt + Fresh(mine', k)]
  <2> TAKE k \in 1 .. n + 1
  <2>1. CASE k \in 1 .. n
    BY <1>3, <1>4, <1>5, <2>1
  <2>2. CASE k = n + 1
    BY <1>3, <1>9, <1>11, <2>2 DEF Given
  <2> QED
    BY <1>2, <2>1, <2>2
<1>13. Len(mine') - Given' = n - Given + Ahead
  BY <1>2, <1>3, <1>4, <1>10
<1>14. \A k \in 1 .. Len(mine') : mine'[k] = plan'[resumedAt' + Fresh(mine', k)]
  BY <1>1, <1>3, <1>12
<1>15. Owed' = 0 /\ Len(mine') - Given' + 0 <= troubles' - 1
  BY <1>1, <1>2, <1>4, <1>13 DEF Owed
<1>16. ~ConsumerRaises => Len(mine') = Given'
  BY <1>2, <1>3, <1>4, <1>10
<1> QED
  BY <1>1, <1>11, <1>14, <1>15, <1>16 DEF StretchInv

LEMMA StretchStep ==
  PlansMove /\ Inv /\ StretchInv /\ [Next]_vars => StretchInv'
<1> SUFFICES ASSUME PlansMove, Inv, StretchInv, [Next]_vars
             PROVE  StretchInv'
  OBVIOUS
<1>1. ASSUME UNCHANGED <<mine, position, resumedAt, input, troubles>>,
             pc # "off", pc' = pc \/ (pc # "consumed" /\ pc' # "consumed")
      PROVE  StretchInv'
  BY <1>1 DEF StretchInv, Owed, Ahead, Given, plan
<1>2. ASSUME NEW i \in Inputs, NEW at \in Int, NewController(i, at), Inv'
      PROVE  StretchInv'
  <2>1. /\ pc' = "idle" /\ position' = at /\ resumedAt' = at /\ mine' = <<>>
        /\ troubles' = troubles + 1
    BY <1>2 DEF NewController
  <2>2. Len(mine') = 0 /\ Given' = 0
    <3>1. Len(mine') = 0
      BY <2>1
    <3>2. {j \in 1 .. 0 : j = 1 \/ mine'[j] # mine'[j - 1]} = {}
      OBVIOUS
    <3> QED
      BY <3>1, <3>2, FS_EmptySet DEF Given, Fresh
  <2>3. Ahead' = 0 /\ troubles \in Nat
    BY <1>2, <2>1, <2>2, GivenType DEF Ahead
  <2> QED
    BY <2>1, <2>2, <2>3 DEF StretchInv, Owed
<1>3. ASSUME NEW i \in Inputs, Replay(i) \/ Resume(i) PROVE StretchInv'
  <2>1. Inv'
    BY <1>3, StepInv DEF Next
  <2>2. CASE Replay(i)
    BY <1>2, <2>1, <2>2 DEF Replay
  <2>3. CASE Resume(i)
    <3>1. Target \in Int
      BY <2>3, ResumeStarts
    <3> QED
      BY <1>2, <2>1, <2>3, <3>1 DEF Resume
  <2> QED
    BY <1>3, <2>2, <2>3
<1>4. CASE Quiet
  <2>1. /\ UNCHANGED <<mine, position, resumedAt, input, troubles>>
        /\ pc # "off"
    BY <1>4, QuietStep DEF emitVars, processVars, historyVars
  <2>2. pc' = pc \/ (pc # "consumed" /\ pc' # "consumed")
    BY <1>4 DEF Quiet, Pause, Continue, Stop, Run, Return, StepsSpent,
                FaultTruncation, Emitting
  <2> QED
    BY <1>1, <2>1, <2>2
<1>5. CASE SaveCheckpoint
  BY <1>1, <1>5 DEF SaveCheckpoint, emitVars, processVars, historyVars
<1>6. CASE Die
  BY <1>6 DEF Die, StretchInv
<1>7. CASE Emit
  BY <1>1, <1>7, EmitEffect DEF processVars, historyVars
<1>8. CASE Consume
  BY <1>8, ConsumeStretch
<1>9. CASE Advance
  <2>1. /\ pc = "consumed" /\ pc' = "loop" /\ position' = position + 1
        /\ UNCHANGED <<mine, resumedAt, input, troubles, plan>>
    BY <1>9, AdvanceEffect DEF processVars, historyVars, plan
  <2>2. Given' = Given /\ Given \in Nat /\ resumedAt \in Nat /\ position \in Nat
    BY <2>1, GivenType DEF Given
  <2>3. Ahead = 1 /\ Ahead' = 0
    BY <2>1, <2>2 DEF StretchInv, Ahead
  <2> QED
    BY <2>1, <2>2, <2>3 DEF StretchInv, Owed
<1>10. CASE FaultConsumerStall
  BY <1>1, <1>10 DEF FaultConsumerStall, PositionAfterStall, processVars, historyVars
<1>11. CASE ConsumerRaise
  <2>1. /\ pc = "consumed" /\ pc' = "idle" /\ troubles' = troubles + 1
        /\ ConsumerRaises
        /\ UNCHANGED <<mine, position, resumedAt, input, plan>>
    BY <1>11 DEF ConsumerRaise, processVars, historyVars, plan
  <2>2. Given' = Given /\ Ahead' = Ahead /\ Ahead = 1
    BY <2>1 DEF Given, Ahead, StretchInv
  <2>3. Len(mine) \in Nat /\ Given \in Nat /\ troubles \in Nat
    BY GivenType
  <2> QED
    BY <2>1, <2>2, <2>3 DEF StretchInv, Owed
<1>12. CASE UNCHANGED vars
  BY <1>1, <1>12 DEF vars, emitVars, processVars, historyVars, StretchInv
<1> QED
  BY <1>3, <1>4, <1>5, <1>6, <1>7, <1>8, <1>9, <1>10, <1>11, <1>12
     DEF Next, RunStep, Quiet

\* For every plan in which no event follows itself, and however the process
\* is paused, stopped, stalled or failed: it gives its consumer the stretch
\* of the plan from where it started to where it is, and gives a frame again
\* only for a callback that raised.
THEOREM StretchIsExact ==
  ASSUME PlansMove
  PROVE  Spec => []ExactStretch
<1>1. Init => StretchInv
  BY DEF Init, StretchInv
<1>2. PlansMove /\ Inv /\ StretchInv /\ [Next]_vars => StretchInv'
  BY StretchStep
<1>3. Inv /\ StretchInv => ExactStretch
  <2> SUFFICES ASSUME Inv, StretchInv, pc # "off" PROVE ExactStretch
    BY DEF ExactStretch
  <2>1. DOMAIN mine = 1 .. Len(mine)
    BY GivenType
  <2>2. Len(mine) \in Nat /\ Given \in Nat /\ troubles \in Nat
    BY GivenType
  <2>3. Len(mine) - Given <= IF ConsumerRaises THEN troubles - 1 ELSE 0
    BY <2>2 DEF StretchInv, Owed
  <2>4. Ahead \in IF pc = "consumed" THEN {1} ELSE IF ConsumerRaises THEN {0, 1} ELSE {0}
    BY DEF StretchInv, Owed
  <2> QED
    BY <2>1, <2>3, <2>4 DEF ExactStretch, StretchInv, Ahead, Given
<1> QED
  BY <1>1, <1>2, <1>3, Invariant, PTL DEF Spec
=============================================================================
