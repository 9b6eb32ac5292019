--------------------------- MODULE NtripCapture ---------------------------
(***************************************************************************)
(* NtripClient.capture_stream: dial, handshake, stream, reconnect with a   *)
(* bounded number of attempts, budgets, the bounded buffer between framer  *)
(* and consumer, and request_shutdown called from a signal handler between *)
(* any two steps.  A frame stands for its bytes (one unit of the byte      *)
(* budget); how bytes become frames is NtripFramer's subject, what reaches *)
(* the disk CaptureStore's.  The environment is the caster, the network    *)
(* and the clock; Faults names what they may do wrong.                     *)
(***************************************************************************)
EXTENDS Integers, Sequences

CONSTANTS
  MaxReconnects,   \* config.max_reconnects, the policy's max_attempts
  Capacity,        \* config.buffer_capacity
  ByteBudget,      \* max_bytes, in frames
  ChunkMax,        \* most frames one recv completes
  CasterFrames,    \* bound: frames the caster sends in all
  Faults,          \* what the caster and the network may do wrong
  Signals          \* may the operator request a shutdown?

FaultKinds == {"dial",      \* the connection is refused or times out
               "silence",   \* no byte before a deadline
               "reset",     \* the connection is reset
               "eof",       \* the caster closes the stream
               "refusal",   \* 401, 403 or 404
               "content"}   \* an empty, malformed or non-RTCM answer

ASSUME CaptureAssumption ==
  /\ MaxReconnects \in Nat
  /\ Capacity \in Nat \ {0}
  /\ ByteBudget \in Nat \ {0}
  /\ ChunkMax \in Nat \ {0}
  /\ CasterFrames \in Nat
  /\ Faults \subseteq FaultKinds
  /\ Signals \in BOOLEAN

VARIABLES
  pc,          \* where capture_stream is
  attempts,    \* attempts
  reconnects,  \* reconnects
  sock,        \* the socket of this connection
  answer,      \* the kind of response head read on this connection
  data,        \* frames of rest + first not yet fed to the framer
  chunk,       \* frames of the current chunk not yet handled
  sent,        \* frames the caster has sent
  written,     \* frames in the capture, in order
  buf,         \* BoundedBuffer._queue
  consumed,    \* the frames `forwarded' counts, in order
  stalled,     \* stalled
  idleEvents,  \* idle_events
  metrics,     \* the counters of StreamMetrics
  connState,   \* NtripClient.state
  status,      \* final_status
  stopReq,     \* _shutdown_requested
  expired      \* the duration budget is spent

envVars == <<sent, expired, stopReq>>
frameVars == <<written, buf, consumed>>
connVars == <<answer, data, chunk, stalled>>
tallyVars == <<attempts, reconnects, idleEvents, metrics>>
captureVars == <<pc, sock, connState, status, envVars, frameVars, connVars, tallyVars>>

Places == {"top", "dial", "handshake", "first", "stream", "frame", "ended",
           "sleep", "drain", "done", "escaped"}
ConnectionStates == {"DISCONNECTED", "CONNECTING", "AUTHENTICATING",
                     "STREAMING", "RECONNECTING", "BLOCKED", "STOPPED"}

\* TERMINAL_FAILURES, for the answers a caster can give: "auth" stands for
\* 401 and 403, "missing" for 404.
Terminal == {"auth", "missing"}
Refusals == {"auth", "missing"}
Answers == {"ok"} \union (IF "refusal" \in Faults THEN Refusals ELSE {})
                  \union (IF "content" \in Faults THEN {"content"} ELSE {})

Arrival == [id: Nat, ok: BOOLEAN]
Frame == [id: Nat, conn: Nat, seq: Nat, ok: BOOLEAN]
Counters == [attempted: Nat, successful: Nat, authFailures: Nat, valid: Nat,
             invalid: Nat]

\* The next n frames of the caster, any of them damaged on the way.
Arriving(n) ==
  {[i \in 1 .. n |-> [id |-> sent + i, ok |-> good[i]]] :
     good \in [1 .. n -> BOOLEAN]}
MayArrive(least) == {n \in least .. ChunkMax : sent + n <= CasterFrames}

CaptureInit ==
  /\ pc = "top" /\ attempts = 0 /\ reconnects = 0
  /\ sock = "none" /\ answer = "none" /\ data = <<>> /\ chunk = <<>>
  /\ sent = 0 /\ written = <<>> /\ buf = <<>> /\ consumed = <<>>
  /\ stalled = FALSE /\ idleEvents = 0
  /\ metrics = [attempted |-> 0, successful |-> 0, authFailures |-> 0,
                valid |-> 0, invalid |-> 0]
  /\ connState = "DISCONNECTED" /\ status = "COMPLETE"
  /\ stopReq = FALSE /\ expired = FALSE

---------------------------------------------------------------------------
(* Decisions shared by the branches of the loop.                           *)

BudgetUntimed == Len(written) >= ByteBudget
BudgetSpent == expired \/ Len(written) >= ByteBudget

\* ReconnectPolicy.attempts_exhausted
ExhaustedLate == attempts > MaxReconnects
Exhausted == attempts >= MaxReconnects

EvidenceSwapped == IF written = <<>> THEN "PARTIAL" ELSE "FAILED"
Evidence == IF written # <<>> THEN "PARTIAL" ELSE "FAILED"

\* Leaving the outer loop: the finally clause drops the socket.
Finish(finalStatus) ==
  /\ pc' = "drain" /\ sock' = "none" /\ status' = finalStatus

\* An exception that capture_stream does not catch: the finally clause
\* drops the socket, nobody closes the capture.
Escape ==
  /\ pc' = "escaped" /\ sock' = "none"
  /\ UNCHANGED <<connState, status, envVars, frameVars, connVars, tallyVars>>

\* A transient failure: give up with finalStatus or sleep before a retry,
\* the socket still open.
RetryOr(finalStatus) ==
  /\ connState' = "RECONNECTING"
  /\ \/ Exhausted /\ Finish(finalStatus)
     \/ ~Exhausted /\ pc' = "sleep" /\ UNCHANGED <<sock, status>>

---------------------------------------------------------------------------
(* The top of the loop, the dial and the wait before a retry.              *)

TopStop ==
  /\ pc = "top" /\ stopReq
  /\ Finish(Evidence)
  /\ UNCHANGED <<connState, envVars, frameVars, connVars, tallyVars>>

TopBudget ==
  /\ pc = "top" /\ ~stopReq /\ BudgetSpent
  /\ Finish(status)
  /\ UNCHANGED <<connState, envVars, frameVars, connVars, tallyVars>>

\* StreamMetrics is frozen: every update rebuilds it field by field.
CountDial == [metrics EXCEPT !.attempted = @ + 1]

TopDial ==
  /\ pc = "top" /\ ~stopReq /\ ~BudgetSpent
  /\ pc' = "dial"
  /\ attempts' = attempts + 1
  /\ metrics' = CountDial
  /\ connState' = "CONNECTING"
  /\ answer' = "none" /\ data' = <<>> /\ chunk' = <<>> /\ stalled' = FALSE
  /\ UNCHANGED <<sock, status, envVars, frameVars, reconnects, idleEvents>>

DialConnects ==
  /\ pc = "dial"
  /\ pc' = "handshake" /\ sock' = "open" /\ connState' = "AUTHENTICATING"
  /\ UNCHANGED <<status, envVars, frameVars, connVars, tallyVars>>

DialFails ==
  /\ pc = "dial" /\ "dial" \in Faults
  /\ RetryOr("FAILED")
  /\ UNCHANGED <<envVars, frameVars, connVars, tallyVars>>

Wake ==
  /\ pc = "sleep"
  /\ pc' = "top" /\ sock' = "none"
  /\ reconnects' = reconnects + 1
  /\ UNCHANGED <<connState, status, envVars, frameVars, connVars, attempts,
                 idleEvents, metrics>>

---------------------------------------------------------------------------
(* The handshake: read the head, then one recv, then validate the answer.  *)

\* The head may arrive with the first frames behind it.
HeadArrives ==
  /\ pc = "handshake" /\ sock = "open"
  /\ \E kind \in Answers, n \in MayArrive(0) :
       /\ kind # "ok" => n = 0
       /\ answer' = kind
       /\ data' \in Arriving(n)
       /\ sent' = sent + n
  /\ pc' = "first"
  /\ UNCHANGED <<sock, connState, status, stopReq, expired, frameVars, chunk,
                 stalled, tallyVars>>

\* No head before handshake_timeout_s, or one too long to be a head.
HeadMissing ==
  /\ pc = "handshake" /\ sock = "open"
  /\ Faults \intersect {"silence", "content"} # {}
  /\ RetryOr("FAILED")
  /\ UNCHANGED <<envVars, frameVars, connVars, tallyVars>>

\* An OSError other than a timeout, from a reset or a closed socket.
Broken == sock = "closed" \/ "reset" \in Faults

HandshakeBreaks ==
  /\ pc \in {"handshake", "first"} /\ Broken
  /\ Escape

\* The recv after the head times out, before the answer is validated.
FirstTimesOut ==
  /\ pc = "first" /\ sock = "open" /\ "silence" \in Faults
  /\ idleEvents' = idleEvents + 1
  /\ RetryOr(Evidence)
  /\ UNCHANGED <<envVars, frameVars, connVars, attempts, reconnects, metrics>>

FirstRefused ==
  /\ pc = "first" /\ sock = "open" /\ answer \in Terminal
  /\ Finish(Evidence)
  /\ connState' = "BLOCKED"
  /\ metrics' = IF answer = "auth"
                THEN [attempted |-> metrics.attempted, successful |-> 0,
                      authFailures |-> metrics.authFailures + 1,
                      valid |-> 0, invalid |-> 0]
                ELSE metrics
  /\ UNCHANGED <<envVars, frameVars, connVars, attempts, reconnects,
                 idleEvents>>

FirstUnusable ==
  /\ pc = "first" /\ sock = "open" /\ answer \notin Terminal \union {"ok"}
  /\ RetryOr(Evidence)
  /\ UNCHANGED <<envVars, frameVars, connVars, tallyVars>>

FirstStreams ==
  /\ pc = "first" /\ sock = "open" /\ answer = "ok"
  /\ \E n \in MayArrive(0) : \E more \in Arriving(n) :
       data' = data \o more /\ sent' = sent + n
  /\ pc' = "stream" /\ connState' = "STREAMING" /\ stalled' = FALSE
  /\ metrics' = [metrics EXCEPT !.successful = @ + 1]
  /\ UNCHANGED <<sock, status, stopReq, expired, frameVars, answer, chunk,
                 attempts, reconnects, idleEvents>>

---------------------------------------------------------------------------
(* The streaming loop.                                                     *)

StreamBudget ==
  /\ pc = "stream" /\ BudgetSpent
  /\ pc' = "ended"
  /\ UNCHANGED <<sock, connState, status, envVars, frameVars, connVars,
                 tallyVars>>

\* Nothing arrived for idle_timeout_s.
StreamStalls ==
  /\ pc = "stream" /\ ~BudgetSpent /\ data = <<>> /\ "silence" \in Faults
  /\ idleEvents' = idleEvents + 1
  /\ stalled' = TRUE /\ connState' = "RECONNECTING" /\ pc' = "ended"
  /\ UNCHANGED <<sock, status, envVars, frameVars, answer, data, chunk,
                 attempts, reconnects, metrics>>

\* What came with the handshake is fed first, 4096 bytes at a time.
StreamFeedsRest ==
  /\ pc = "stream" /\ ~BudgetSpent /\ data # <<>>
  /\ \E k \in 1 .. Len(data) :
       /\ k <= ChunkMax
       /\ chunk' = SubSeq(data, 1, k)
       /\ data' = SubSeq(data, k + 1, Len(data))
  /\ pc' = "frame"
  /\ UNCHANGED <<sock, connState, status, envVars, frameVars, answer, stalled,
                 tallyVars>>

StreamReceives ==
  /\ pc = "stream" /\ ~BudgetSpent /\ data = <<>> /\ sock = "open"
  /\ \E n \in MayArrive(1) : chunk' \in Arriving(n) /\ sent' = sent + n
  /\ pc' = "frame"
  /\ UNCHANGED <<sock, connState, status, stopReq, expired, frameVars, answer,
                 data, stalled, tallyVars>>

StreamEnds ==
  /\ pc = "stream" /\ ~BudgetSpent /\ data = <<>>
  /\ sock = "open" /\ "eof" \in Faults
  /\ pc' = "ended"
  /\ UNCHANGED <<sock, connState, status, envVars, frameVars, connVars,
                 tallyVars>>

\* recv raises: expected after a shutdown request, otherwise nobody's.
StreamStopped ==
  /\ pc = "stream" /\ ~BudgetSpent /\ data = <<>> /\ Broken /\ stopReq
  /\ pc' = "ended" /\ status' = Evidence
  /\ UNCHANGED <<sock, connState, envVars, frameVars, connVars, tallyVars>>

StreamBreaks ==
  /\ pc = "stream" /\ ~BudgetSpent /\ data = <<>> /\ Broken /\ ~stopReq
  /\ Escape

\* BoundedBuffer under BLOCK: a full buffer first hands its head over.
OfferDropping(f) ==
  /\ buf' = IF Len(buf) < Capacity THEN Append(buf, f) ELSE buf
  /\ UNCHANGED consumed
Offer(f) ==
  \/ /\ Len(buf) < Capacity
     /\ buf' = Append(buf, f) /\ UNCHANGED consumed
  \/ /\ Len(buf) >= Capacity
     /\ consumed' = Append(consumed, Head(buf))
     /\ buf' = Append(Tail(buf), f)

\* ArrivalRecorder restarts per connection; _with_global_sequence re-stamps.
StampLocal(f) ==
  [id |-> f.id, conn |-> attempts, ok |-> f.ok,
   seq |-> Len(SelectSeq(written, LAMBDA g : g.conn = attempts))]
Stamp(f) == [id |-> f.id, conn |-> attempts, ok |-> f.ok, seq |-> Len(written)]

\* Every frame is captured and counted; only a frame whose CRC holds goes on.
HandleFrame ==
  LET f == Stamp(Head(chunk)) IN
  /\ pc = "frame" /\ chunk # <<>>
  /\ written' = Append(written, f)
  /\ \/ f.ok /\ Offer(f)
     \/ ~f.ok /\ UNCHANGED <<buf, consumed>>
  /\ metrics' = IF f.ok THEN [metrics EXCEPT !.valid = @ + 1]
                        ELSE [metrics EXCEPT !.invalid = @ + 1]
  /\ chunk' = Tail(chunk)
  /\ UNCHANGED <<pc, sock, connState, status, envVars, answer, data, stalled,
                 attempts, reconnects, idleEvents>>

FramesHandled ==
  /\ pc = "frame" /\ chunk = <<>>
  /\ pc' = "stream"
  /\ UNCHANGED <<sock, connState, status, envVars, frameVars, connVars,
                 tallyVars>>

---------------------------------------------------------------------------
(* After the streaming loop.                                               *)

EndedBudget ==
  /\ pc = "ended" /\ BudgetSpent
  /\ Finish(status)
  /\ UNCHANGED <<connState, envVars, frameVars, connVars, tallyVars>>

EndedExhausted ==
  /\ pc = "ended" /\ ~BudgetSpent /\ Exhausted
  /\ Finish(IF stalled \/ written = <<>> THEN Evidence ELSE status)
  /\ UNCHANGED <<connState, envVars, frameVars, connVars, tallyVars>>

EndedRetry ==
  /\ pc = "ended" /\ ~BudgetSpent /\ ~Exhausted
  /\ pc' = "sleep" /\ connState' = "RECONNECTING"
  /\ UNCHANGED <<sock, status, envVars, frameVars, connVars, tallyVars>>

DrainOne ==
  /\ pc = "drain" /\ buf # <<>>
  /\ consumed' = Append(consumed, Head(buf))
  /\ buf' = Tail(buf)
  /\ UNCHANGED <<pc, sock, connState, status, envVars, written, connVars,
                 tallyVars>>

Close ==
  /\ pc = "drain" /\ buf = <<>>
  /\ pc' = "done" /\ connState' = "STOPPED"
  /\ UNCHANGED <<sock, status, envVars, frameVars, connVars, tallyVars>>

---------------------------------------------------------------------------
(* The environment.                                                        *)

\* The signal handler calls request_shutdown: before the dial returns there
\* is no active socket to close.
RequestShutdown ==
  /\ Signals /\ ~stopReq /\ pc \notin {"done", "escaped"}
  /\ stopReq' = TRUE /\ connState' = "STOPPED"
  /\ sock' = IF sock = "open" THEN "closed" ELSE sock
  /\ UNCHANGED <<pc, status, sent, expired, frameVars, connVars, tallyVars>>

TimeExpires ==
  /\ ~expired /\ pc \notin {"drain", "done", "escaped"}
  /\ expired' = TRUE
  /\ UNCHANGED <<pc, sock, connState, status, sent, stopReq, frameVars,
                 connVars, tallyVars>>

---------------------------------------------------------------------------
\* Steps the client takes by itself once they are possible.
Progress ==
  \/ TopStop \/ TopBudget \/ TopDial \/ DialConnects \/ Wake
  \/ HeadArrives \/ FirstRefused \/ FirstUnusable \/ FirstStreams
  \/ HandshakeBreaks /\ sock = "closed"
  \/ StreamBudget \/ StreamFeedsRest \/ StreamReceives
  \/ StreamStopped /\ sock = "closed"
  \/ HandleFrame \/ FramesHandled
  \/ EndedBudget \/ EndedExhausted \/ EndedRetry \/ DrainOne \/ Close

\* Steps that need something to go wrong.
Failure ==
  \/ DialFails \/ HeadMissing \/ HandshakeBreaks \/ FirstTimesOut
  \/ StreamStalls \/ StreamEnds \/ StreamStopped \/ StreamBreaks

CaptureNext == Progress \/ Failure \/ RequestShutdown \/ TimeExpires

CaptureSpec == CaptureInit /\ [][CaptureNext]_captureVars

\* The client runs whenever it can; nothing forces time to pass.
CaptureFairSpec == CaptureSpec /\ WF_captureVars(Progress)

---------------------------------------------------------------------------
(* Properties                                                              *)

Over == pc \in {"done", "escaped"}

CaptureTypeOK ==
  /\ pc \in Places /\ attempts \in Nat /\ reconnects \in Nat
  /\ sock \in {"none", "open", "closed"}
  /\ answer \in {"none", "ok", "content"} \union Refusals
  /\ data \in Seq(Arrival) /\ chunk \in Seq(Arrival)
  /\ sent \in Nat
  /\ written \in Seq(Frame) /\ consumed \in Seq(Frame)
  /\ buf \in Seq(Frame) /\ Len(buf) <= Capacity
  /\ stalled \in BOOLEAN /\ idleEvents \in Nat
  /\ metrics \in Counters
  /\ connState \in ConnectionStates
  /\ status \in {"COMPLETE", "PARTIAL", "FAILED"}
  /\ stopReq \in BOOLEAN /\ expired \in BOOLEAN

\* Whatever fails in whatever order, no limit is overrun by more than its
\* granularity: the byte budget is checked per chunk and max_reconnects counts
\* connections, of which there is always one.
LimitsKept ==
  /\ Len(written) + Len(chunk) <= ByteBudget + ChunkMax - 1
  /\ attempts <= (IF MaxReconnects = 0 THEN 1 ELSE MaxReconnects)
  /\ reconnects <= attempts

\* A frame keeps its place: the capture-wide sequence has no gap and no
\* repetition, across any number of connections, and the frames of one
\* connection stay together and in the order the caster sent them.
SequenceContinuous ==
  \A i \in 1 .. Len(written) :
    /\ written[i].seq = i - 1
    /\ i > 1 => /\ written[i - 1].conn <= written[i].conn
                /\ written[i - 1].id < written[i].id

\* Every frame is accounted for once, in the sequence and in the frozen
\* metrics rebuilt at every update, unless the caster refuses the credentials.
FramesAccounted ==
  /\ SequenceContinuous
  /\ metrics.authFailures = 0 =>
       /\ metrics.attempted = attempts
       /\ metrics.valid + metrics.invalid = Len(written)

\* The status a closed capture carries is backed by what happened: PARTIAL
\* means evidence, COMPLETE means a spent budget or evidence from a stream
\* that ended on its last connection.
StatusHonest ==
  pc = "done" =>
    /\ status = "PARTIAL" => written # <<>>
    /\ status = "COMPLETE" => BudgetSpent \/ (Exhausted /\ written # <<>>)

\* The frames whose CRC holds, in order.
Passed(frames) ==
  LET passed[n \in 0 .. Len(frames)] ==
        IF n = 0 THEN <<>>
        ELSE IF frames[n].ok THEN Append(passed[n - 1], frames[n])
        ELSE passed[n - 1]
  IN  passed[Len(frames)]

\* The frames that pass their CRC reach the consumer path in order, none
\* lost to the bounded buffer and none left when the capture closes.
Relay == INSTANCE LosslessRelay
  WITH Backlog <- Capacity,
       accepted <- Passed(written),
       delivered <- consumed,
       closed <- pc = "done"
ImplementsRelay == Relay!Spec

\* An answer that was validated and refused is final: the client never sleeps
\* to try the same credentials or mountpoint again.
RefusedIsFinal ==
  [][pc = "first" /\ answer \in Refusals /\ idleEvents' = idleEvents
       => pc' \in {"first", "drain", "escaped"}]_captureVars

\* A capture whose duration budget is spent ends, wherever the loop is and
\* whatever the caster does or does not send; one asked to shut down ends
\* without the help of the clock; one that was refused does not try again.
CaptureEnds ==
  /\ expired ~> Over
  /\ (stopReq /\ sock = "closed") ~> Over
  /\ RefusedIsFinal

===========================================================================
