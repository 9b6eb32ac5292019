---------------------------- MODULE NtripFramer ----------------------------
(***************************************************************************)
(* StreamingFramer: RTCM 3 frames out of arbitrary TCP chunks.  One action *)
(* per branch of the loop in feed(); the reference it is held to is        *)
(* parse_stream, the batch parser of the replay package, over the same     *)
(* bytes.  Lengths and the alphabet are parameters: only the preamble, the *)
(* length read from a header and the verdict of the CRC matter here.       *)
(***************************************************************************)
EXTENDS Integers, Sequences

CONSTANTS
  Bytes,             \* byte values
  PREAMBLE,          \* the byte every frame starts with
  HEADER_LENGTH,     \* preamble and length bytes
  CRC_LENGTH,        \* trailing CRC bytes
  MaxFrameLength,    \* _max_frame_length
  PayloadLength,     \* PayloadLength[h]: the length field of header h
  CrcValid,          \* the raw frames whose CRC matches
  Chunks,            \* the chunks a recv may return
  WireMax            \* bound: bytes received in all

ASSUME FramerAssumption ==
  /\ PREAMBLE \in Bytes
  /\ HEADER_LENGTH \in Nat \ {0} /\ CRC_LENGTH \in Nat
  /\ MaxFrameLength \in Nat \ {0}
  /\ PayloadLength \in [[1 .. HEADER_LENGTH -> Bytes] -> Nat]
  /\ Chunks \subseteq Seq(Bytes)
  /\ WireMax \in Nat

VARIABLES
  wire,          \* every byte received on this connection
  buffer,        \* _buffer
  byteOffset,    \* _byte_offset
  skipped,       \* the local variable of feed()
  pendingStray,  \* _pending_stray
  strayBytes,    \* stray_bytes
  frames,        \* the frames returned so far
  feeding        \* is feed() running?

framerVars == <<wire, buffer, byteOffset, skipped, pendingStray, strayBytes, frames,
          feeding>>

FramerInit ==
  /\ wire = <<>> /\ buffer = <<>> /\ byteOffset = 0
  /\ skipped = 0 /\ pendingStray = 0 /\ strayBytes = 0
  /\ frames = <<>> /\ feeding = FALSE

Feed(chunk) ==
  /\ ~feeding
  /\ Len(wire) + Len(chunk) <= WireMax
  /\ wire' = wire \o chunk
  /\ buffer' = buffer \o chunk
  /\ skipped' = pendingStray /\ pendingStray' = 0
  /\ feeding' = TRUE
  /\ UNCHANGED <<byteOffset, strayBytes, frames>>

StreamedFrame == [offset: Nat, raw: Seq(Bytes), ok: BOOLEAN]

HasHeader == Len(buffer) >= HEADER_LENGTH
Length == PayloadLength[SubSeq(buffer, 1, HEADER_LENGTH)]
NeedNoCrc == HEADER_LENGTH + Length
Need == HEADER_LENGTH + Length + CRC_LENGTH

AtPreamble == buffer # <<>> /\ buffer[1] = PREAMBLE
OversizedLate == Length > MaxFrameLength + 1
Oversized == Length > MaxFrameLength

SkipByte ==
  /\ skipped' = skipped + 1
  /\ buffer' = Tail(buffer)
  /\ byteOffset' = byteOffset + 1
  /\ UNCHANGED <<wire, pendingStray, strayBytes, frames, feeding>>

SkipStray == feeding /\ buffer # <<>> /\ ~AtPreamble /\ SkipByte

SkipOversizedStuck ==
  feeding /\ AtPreamble /\ HasHeader /\ Oversized /\ UNCHANGED framerVars
\* A preamble with an impossible length is stray as well.
SkipOversized == feeding /\ AtPreamble /\ HasHeader /\ Oversized /\ SkipByte

FrameOf(raw) == [offset |-> byteOffset, raw |-> raw, ok |-> raw \in CrcValid]

\* Stray bytes are reported before the frame that ends them.
Emit ==
  /\ feeding /\ AtPreamble /\ HasHeader /\ ~Oversized /\ Len(buffer) >= Need
  /\ frames' = Append(frames, FrameOf(SubSeq(buffer, 1, Need)))
  /\ strayBytes' = strayBytes + skipped /\ skipped' = 0
  /\ buffer' = SubSeq(buffer, Need + 1, Len(buffer))
  /\ byteOffset' = byteOffset + Need
  /\ UNCHANGED <<wire, pendingStray, feeding>>

\* What feed() does after the loop, whichever way it left it.
Return == feeding' = FALSE /\ strayBytes' = strayBytes + skipped

\* The buffer is empty or holds the start of a header.
WaitHeader ==
  /\ feeding
  /\ buffer = <<>> \/ (AtPreamble /\ ~HasHeader)
  /\ Return
  /\ UNCHANGED <<wire, buffer, byteOffset, skipped, pendingStray, frames>>

\* The buffer holds the start of a frame: skipped is kept for the next feed.
WaitBody ==
  /\ feeding /\ AtPreamble /\ HasHeader /\ ~Oversized /\ Len(buffer) < Need
  /\ pendingStray' = skipped
  /\ Return
  /\ UNCHANGED <<wire, buffer, byteOffset, skipped, frames>>

FramerNext ==
  \/ \E chunk \in Chunks : Feed(chunk)
  \/ SkipStray \/ SkipOversized \/ Emit \/ WaitHeader \/ WaitBody

FramerSpec == FramerInit /\ [][FramerNext]_framerVars
FairFramerSpec ==
  /\ FramerSpec
  /\ WF_framerVars(SkipStray \/ SkipOversized \/ Emit \/ WaitHeader \/ WaitBody)

---------------------------------------------------------------------------
(* parse_stream: the frames of a whole byte string.                        *)

HeaderAt(w, p) == SubSeq(w, p, p + HEADER_LENGTH - 1)
FrameEnd(w, p) == p + HEADER_LENGTH + PayloadLength[HeaderAt(w, p)] + CRC_LENGTH

HeaderWithin(w, p) == w[p] = PREAMBLE /\ p + HEADER_LENGTH - 1 <= Len(w)
TooLong(w, p) == PayloadLength[HeaderAt(w, p)] > MaxFrameLength

StrayAt(w, p) == w[p] # PREAMBLE \/ (HeaderWithin(w, p) /\ TooLong(w, p))
FrameWithin(w, p) ==
  HeaderWithin(w, p) /\ ~TooLong(w, p) /\ FrameEnd(w, p) - 1 <= Len(w)

ParsedFrame(w, p) ==
  LET raw == SubSeq(w, p, FrameEnd(w, p) - 1)
  IN [offset |-> p - 1, raw |-> raw, ok |-> raw \in CrcValid]

\* The frames from position p on, given those from every later position.
ParseAt(w, from, p) ==
  IF p > Len(w) THEN <<>>
  ELSE IF StrayAt(w, p) THEN from[p + 1]
  ELSE IF FrameWithin(w, p) THEN <<ParsedFrame(w, p)>> \o from[FrameEnd(w, p)]
  ELSE <<>>

ParseFrom(w) ==
  LET from[p \in 1 .. Len(w) + 1] == ParseAt(w, from, p) IN from

BatchFrames(w) == ParseFrom(w)[1]

---------------------------------------------------------------------------
(* Properties                                                              *)

FramerTypeOK ==
  /\ wire \in Seq(Bytes) /\ buffer \in Seq(Bytes)
  /\ byteOffset \in Nat /\ skipped \in Nat
  /\ pendingStray \in Nat /\ strayBytes \in Nat
  /\ frames \in Seq(StreamedFrame)
  /\ feeding \in BOOLEAN

\* Every byte is accounted for: the buffer is exactly what the offset says
\* is left of the connection's bytes.
BufferIsSuffix ==
  /\ byteOffset + Len(buffer) = Len(wire)
  /\ buffer = SubSeq(wire, byteOffset + 1, Len(wire))

\* A frame is the bytes at its offset, and frames do not overlap.
FramesAreSlices ==
  \A i \in 1 .. Len(frames) :
    LET f == frames[i] IN
    /\ f.offset + Len(f.raw) <=
         (IF i < Len(frames) THEN frames[i + 1].offset ELSE byteOffset)
    /\ f.raw = SubSeq(wire, f.offset + 1, f.offset + Len(f.raw))

\* Memory is bounded by one frame, however the bytes arrive.
PendingBounded ==
  ~feeding =>
    Len(buffer) < HEADER_LENGTH + MaxFrameLength + CRC_LENGTH

\* How the bytes are cut into chunks changes nothing: the frames are those
\* the batch parser finds in the same bytes.
ChunkIndependent == ~feeding => frames = BatchFrames(wire)

\* feed() returns.
FeedReturns == feeding ~> ~feeding
============================================================================
