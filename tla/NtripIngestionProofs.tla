------------------------- MODULE NtripIngestionProofs -------------------------
(***************************************************************************)
(* What comes into a capture and what is kept of it.  CaptureStore, for    *)
(* every set of captures and frames, every rotation policy, any number of  *)
(* crashes and recoveries; then NtripFramer, for every alphabet, header,   *)
(* CRC and frame length and every way of cutting the wire into chunks; and *)
(* NtripCapture, the loop that connects, reads and reconnects.             *)
(***************************************************************************)
EXTENDS CaptureStore, NtripFramer, NtripCapture, SequenceTheorems, WellFoundedInduction, TLAPS

(***************************************************************************)
(* A shared lemma.                                                         *)

\* A set of natural numbers that is not empty has a least one.
LEMMA LeastNat ==
  ASSUME NEW N, N \subseteq Nat, N # {}
  PROVE  \E n \in N : \A m \in N : n <= m
<1> DEFINE R == OpToRel(<, Nat)
<1>1. IsWellFoundedOn(R, Nat)
  BY NatLessThanWellFounded, Zenon
<1>2. \A i, j \in Nat : i < j => <<i, j>> \in R
  BY DEF OpToRel
<1> HIDE DEF R
<1>3. PICK n \in N : \A m \in N : ~(<<m, n>> \in R)
  BY <1>1, WFMin, Zenon
<1>4. n \in Nat /\ \A m \in N : m \in Nat /\ ~(m < n)
  BY <1>2, <1>3
<1>5. \A m \in N : n <= m
  BY <1>4
<1> QED
  BY <1>5

(***************************************************************************)
(* The inductive invariant.  WriterInv follows one writer through its      *)
(* files: what it has streamed, hashed, counted and indexed agree up to    *)
(* the one frame in flight.  It holds whatever the operator does.          *)
(***************************************************************************)
Settled == {"ready", "closing", "meta_torn", "meta_whole", "sums_torn", "done"}

AllButLast(s) == SubSeq(s, 1, Len(s) - 1)

WriterInvAt(c) ==
  /\ c \notin dirs => stream[c] = <<>> /\ index[c] = <<>> /\ c \notin hasStream
  /\ writer[c] = "none" <=> c \notin dirs
  /\ writer[c] \in {"made", "opened"} => stream[c] = <<>> /\ index[c] = <<>>
  /\ writer[c] \in Settled => index[c] = stream[c] /\ hashed[c] = stream[c]
  /\ writer[c] = "streamed" =>
       /\ stream[c] # <<>>
       /\ index[c] = AllButLast(stream[c])
       /\ hashed[c] = index[c]
  /\ writer[c] \in Settled \union {"streamed"} =>
       valid[c] + invalid[c] = Len(hashed[c])
  /\ writer[c] = "dead" =>
       \/ index[c] = stream[c]
       \/ stream[c] # <<>> /\ index[c] = AllButLast(stream[c])

WriterInv == \A c \in Captures : WriterInvAt(c)

(***************************************************************************)
(* OwnerInv: when live captures are left alone, exactly one process owns   *)
(* the manifests of a capture, and what it has put there so far is true.   *)
(***************************************************************************)
TrueManifest(c) ==
  /\ meta[c].stream = stream[c]
  /\ meta[c].counted =>
       index[c] = stream[c] /\ meta[c].valid + meta[c].invalid = Len(stream[c])
  /\ ~meta[c].counted => meta[c].status = "PARTIAL"

Unmanifested(c) == metaFile[c] = "absent" /\ sumsFile[c] = "absent"

OwnerInvAt(c) ==
  /\ recovery[c] # "idle" => writer[c] = "dead"
  /\ writer[c] \in {"none", "made", "opened", "ready", "streamed", "closing"}
       => Unmanifested(c)
  /\ writer[c] = "meta_torn" => metaFile[c] = "torn" /\ sumsFile[c] = "absent"
  /\ writer[c] \in {"meta_whole", "sums_torn", "done"} => metaFile[c] = "whole"
  /\ recovery[c] = "hashed" => Unmanifested(c) /\ digest[c] = stream[c]
  /\ recovery[c] = "meta_torn" =>
       metaFile[c] = "torn" /\ sumsFile[c] = "absent" /\ digest[c] = stream[c]
  /\ recovery[c] \in {"meta_whole", "sums_torn"} => metaFile[c] = "whole"
  /\ writer[c] = "sums_torn" \/ recovery[c] = "sums_torn"
       => sums[c] = OnDisk(c)
  /\ metaFile[c] = "whole" => TrueManifest(c)
  /\ metaFile[c] # "whole" => sumsFile[c] = "absent"
  /\ sumsFile[c] = "whole" => sums[c] = OnDisk(c)

OwnerInv == \A c \in Captures : OwnerInvAt(c)

---------------------------------------------------------------------------
\* Appending and then dropping the last frame gives the old sequence back.
LEMMA AppendThenFront ==
  ASSUME NEW S, NEW s \in Seq(S), NEW e \in S
  PROVE  /\ Append(s, e) \in Seq(S) /\ Append(s, e) # <<>>
         /\ Len(Append(s, e)) = Len(s) + 1
         /\ AllButLast(Append(s, e)) = s
<1>1. /\ Append(s, e) \in Seq(S) /\ Append(s, e) # <<>>
      /\ Len(Append(s, e)) = Len(s) + 1
      /\ \A i \in 1 .. Len(s) : Append(s, e)[i] = s[i]
  BY AppendProperties
<1>2. Len(s) \in Nat /\ \A i \in 1 .. Len(s) : s[i] \in S
  BY LenProperties, ElementOfSeq
<1> DEFINE front == SubSeq(Append(s, e), 1, Len(s))
<1>3. /\ front \in Seq(S)
      /\ Len(front) = Len(s)
      /\ \A i \in 1 .. Len(s) : front[i] = s[i]
  <2>1. \A i \in 1 .. Len(s) : Append(s, e)[i] \in S
    BY <1>1, <1>2
  <2>2. /\ front \in Seq(S)
        /\ Len(front) = IF 1 <= Len(s) THEN Len(s) - 1 + 1 ELSE 0
        /\ \A i \in 1 .. Len(s) - 1 + 1 : front[i] = Append(s, e)[1 + i - 1]
    BY <1>2, <2>1, SubSeqProperties
  <2>3. QED
    BY <1>1, <1>2, <2>2
<1>4. front = s
  BY <1>3, SeqEqual
<1>5. QED
  BY <1>1, <1>2, <1>4 DEF AllButLast

\* Appending the last frame to all the others gives the sequence back.
LEMMA FrontThenAppend ==
  ASSUME NEW S, NEW s \in Seq(S), s # <<>>
  PROVE  /\ s[Len(s)] \in S
         /\ AllButLast(s) \in Seq(S)
         /\ Append(AllButLast(s), s[Len(s)]) = s
         /\ Len(AllButLast(s)) + 1 = Len(s)
<1>1. PICK t \in Seq(S), e \in S : s = Append(t, e)
  BY SequenceEmptyOrAppend
<1>2. Len(s) = Len(t) + 1 /\ s[Len(t) + 1] = e /\ Len(t) \in Nat
  BY <1>1, AppendProperties, LenProperties
<1>3. AllButLast(s) = t
  BY <1>1, AppendThenFront
<1>4. QED
  BY <1>1, <1>2, <1>3

---------------------------------------------------------------------------
(* The writer's bookkeeping.                                               *)

LEMMA InitWriter == Init => TypeOK /\ WriterInv
  BY StoreAssumption
  DEF Init, TypeOK, FileStates, Live, Metadata, NoMeta, Manifest, NoSums,
      Statuses, WriterInv, WriterInvAt, Settled

\* What WriteIndexRow does under the invariant: the index and the hasher
\* catch up with the stream.
LEMMA IndexRowEffect ==
  ASSUME TypeOK, WriterInv, NEW c \in Captures, WriteIndexRow(c)
  PROVE  /\ stream[c][Len(stream[c])] \in Frames
         /\ stream[c] \in Seq(Frames) /\ stream[c] # <<>>
         /\ index' = [index EXCEPT ![c] = stream[c]]
         /\ hashed' = [hashed EXCEPT ![c] = stream[c]]
         /\ valid[c] + invalid[c] + 1 = Len(stream[c])
<1>1. /\ stream[c] \in Seq(Frames) /\ stream[c] # <<>>
      /\ index[c] = AllButLast(stream[c]) /\ hashed[c] = index[c]
      /\ valid[c] + invalid[c] = Len(hashed[c])
  BY DEF TypeOK, WriterInv, WriterInvAt, WriteIndexRow
<1>2. /\ stream[c][Len(stream[c])] \in Frames
      /\ Append(AllButLast(stream[c]), stream[c][Len(stream[c])]) = stream[c]
      /\ Len(AllButLast(stream[c])) + 1 = Len(stream[c])
  BY <1>1, FrontThenAppend
<1>3. /\ index' = [index EXCEPT ![c] = stream[c]]
      /\ hashed' = [hashed EXCEPT ![c] = stream[c]]
  BY <1>1, <1>2 DEF WriteIndexRow, Row, Hash
<1>4. QED
  BY <1>1, <1>2, <1>3

\* Every step keeps the state well typed.
LEMMA StepType == TypeOK /\ WriterInv /\ [Next]_vars => TypeOK'
  <2> SUFFICES ASSUME TypeOK, WriterInv, [Next]_vars PROVE TypeOK'
    OBVIOUS
  <2> USE StoreAssumption DEF TypeOK, FileStates, Live, Statuses, countVars,
        recoveryVars, fileVars
  <2>1. ASSUME NEW c \in Captures, MakeDirectory(c)
        PROVE  TypeOK'
    BY <2>1 DEF MakeDirectory, MayCreate
  <2>2. ASSUME NEW c \in Captures, OpenStream(c)
        PROVE  TypeOK'
    BY <2>2 DEF OpenStream
  <2>3. ASSUME NEW c \in Captures, OpenIndex(c)
        PROVE  TypeOK'
    BY <2>3 DEF OpenIndex
  <2>4. ASSUME NEW c \in Captures, NEW f \in Frames, WriteStream(c, f)
        PROVE  TypeOK'
    BY <2>4 DEF WriteStream
  <2>5. ASSUME NEW c \in Captures, WriteIndexRow(c)
        PROVE  TypeOK'
    <3>1. /\ bytes[c] + Size[stream[c][Len(stream[c])]] \in Nat
          /\ valid[c] + 1 \in Nat /\ invalid[c] + 1 \in Nat
      <4>1. stream[c][Len(stream[c])] \in Frames
        BY <2>5, IndexRowEffect
      <4>2. bytes[c] \in Nat /\ valid[c] \in Nat /\ invalid[c] \in Nat
        OBVIOUS
      <4>3. Size[stream[c][Len(stream[c])]] \in Nat
        BY <4>1
      <4> HIDE DEF TypeOK
      <4>4. QED
        BY <4>2, <4>3
    <3>2. /\ index' \in [Captures -> Seq(Frames)]
          /\ hashed' \in [Captures -> Seq(Frames)]
      BY <2>5, IndexRowEffect
    <3>3. /\ bytes' \in [Captures -> Nat]
          /\ valid' \in [Captures -> Nat] /\ invalid' \in [Captures -> Nat]
      BY <2>5, <3>1 DEF WriteIndexRow
    <3>4. QED
      BY <2>5, <3>2, <3>3 DEF WriteIndexRow
  <2>6. ASSUME NEW c \in Captures,
               NEW final \in Statuses, CloseFiles(c, final)
        PROVE  TypeOK'
    BY <2>6 DEF CloseFiles
  <2>7. ASSUME NEW c \in Captures, OpenMeta(c)
        PROVE  TypeOK'
    BY <2>7 DEF OpenMeta
  <2>8. ASSUME NEW c \in Captures, FillMeta(c)
        PROVE  TypeOK'
    BY <2>8 DEF FillMeta, Metadata
  <2>9. ASSUME NEW c \in Captures, OpenSums(c)
        PROVE  TypeOK'
    BY <2>9 DEF OpenSums, Digests, OnDisk, Manifest
  <2>10. ASSUME NEW c \in Captures, FillSums(c)
        PROVE  TypeOK'
    BY <2>10 DEF FillSums
  <2>11. ASSUME NEW c \in Captures, Crash(c)
        PROVE  TypeOK'
    BY <2>11 DEF Crash
  <2>12. ASSUME NEW c \in Captures, RecoverStart(c)
        PROVE  TypeOK'
    BY <2>12 DEF RecoverStart
  <2>13. ASSUME NEW c \in Captures, RecoverOpenMeta(c)
        PROVE  TypeOK'
    BY <2>13 DEF RecoverOpenMeta
  <2>14. ASSUME NEW c \in Captures, RecoverFillMeta(c)
        PROVE  TypeOK'
    BY <2>14 DEF RecoverFillMeta, Metadata
  <2>15. ASSUME NEW c \in Captures, RecoverOpenSums(c)
        PROVE  TypeOK'
    BY <2>15 DEF RecoverOpenSums, Digests, OnDisk, Manifest
  <2>16. ASSUME NEW c \in Captures, RecoverFillSums(c)
        PROVE  TypeOK'
    BY <2>16 DEF RecoverFillSums
  <2>17. ASSUME NEW c \in Captures, RecoverCrash(c)
        PROVE  TypeOK'
    BY <2>17 DEF RecoverCrash
  <2>18. CASE UNCHANGED vars
    BY <2>18 DEF vars
  <2>19. QED
    BY <2>1, <2>2, <2>3, <2>4, <2>5, <2>6, <2>7, <2>8, <2>9, <2>10, <2>11,
       <2>12, <2>13, <2>14, <2>15, <2>16, <2>17, <2>18
    DEF Next, WriterStep, RecoveryStep

\* The bookkeeping of a capture nobody touched is what it was.
LEMMA WriterKept ==
  ASSUME NEW d \in Captures, WriterInvAt(d), dirs' = dirs,
         hasStream' = hasStream,
         stream'[d] = stream[d], index'[d] = index[d],
         hashed'[d] = hashed[d], writer'[d] = writer[d],
         valid'[d] = valid[d], invalid'[d] = invalid[d]
  PROVE  WriterInvAt(d)'
  BY DEF WriterInvAt

\* The stream bytes of a frame go first: the index is then one frame behind.
LEMMA StreamWriter ==
  ASSUME TypeOK, WriterInv, NEW c \in Captures, NEW f \in Frames,
         WriteStream(c, f)
  PROVE  WriterInv'
<1>1. /\ writer[c] = "ready"
      /\ dirs' = dirs /\ hasStream' = hasStream /\ index' = index
      /\ hashed' = hashed /\ valid' = valid /\ invalid' = invalid
      /\ stream' = [stream EXCEPT ![c] = Append(@, f)]
      /\ writer' = [writer EXCEPT ![c] = "streamed"]
  BY DEF WriteStream, countVars
<1>2. /\ stream \in [Captures -> Seq(Frames)] /\ DOMAIN writer = Captures
      /\ stream[c] \in Seq(Frames)
  BY DEF TypeOK
<1>3. /\ index[c] = stream[c] /\ hashed[c] = stream[c] /\ c \in dirs
      /\ valid[c] + invalid[c] = Len(hashed[c])
  BY <1>1 DEF WriterInv, WriterInvAt, Settled
<1>4. WriterInvAt(c)'
  <2>1. writer'[c] = "streamed" /\ stream'[c] = Append(stream[c], f)
    BY <1>1, <1>2
  <2>2. stream'[c] # <<>> /\ AllButLast(stream'[c]) = stream[c]
    BY <1>2, <2>1, AppendThenFront
  <2>3. QED
    BY <1>1, <1>3, <2>1, <2>2 DEF WriterInvAt, Settled
<1>5. ASSUME NEW d \in Captures, d # c
      PROVE  WriterInvAt(d)'
  <2>1. stream'[d] = stream[d] /\ writer'[d] = writer[d]
    BY <1>1, <1>2, <1>5
  <2>2. WriterInvAt(d)
    BY DEF WriterInv
  <2>3. QED
    BY <1>1, <2>1, <2>2, WriterKept
<1>6. QED
  BY <1>4, <1>5 DEF WriterInv

\* An index row leaves every capture's bookkeeping in order: the capture of
\* the row is settled again, the others are untouched.
LEMMA IndexRowWriter ==
  ASSUME TypeOK, WriterInv, NEW c \in Captures, WriteIndexRow(c)
  PROVE  WriterInv'
<1>1. /\ writer[c] = "streamed"
      /\ dirs' = dirs /\ hasStream' = hasStream /\ stream' = stream
      /\ valid' = [valid EXCEPT ![c] = IF stream[c][Len(stream[c])] \in Passing
                                         THEN @ + 1 ELSE @]
      /\ invalid' = [invalid EXCEPT ![c] =
                       IF stream[c][Len(stream[c])] \in Passing
                         THEN @ ELSE @ + 1]
      /\ writer' = [writer EXCEPT ![c] = "ready"]
  BY DEF WriteIndexRow
<1>2. /\ index' = [index EXCEPT ![c] = stream[c]]
      /\ hashed' = [hashed EXCEPT ![c] = stream[c]]
      /\ stream[c] # <<>>
      /\ valid[c] + invalid[c] + 1 = Len(stream[c])
  BY IndexRowEffect
<1>3. /\ index \in [Captures -> Seq(Frames)]
      /\ hashed \in [Captures -> Seq(Frames)]
      /\ valid \in [Captures -> Nat] /\ invalid \in [Captures -> Nat]
      /\ DOMAIN writer = Captures
  BY DEF TypeOK
<1>4. c \in dirs
  BY <1>1 DEF WriterInv, WriterInvAt
<1>5. WriterInvAt(c)'
  <2>1. /\ index'[c] = stream[c] /\ hashed'[c] = stream[c]
        /\ writer'[c] = "ready"
    BY <1>1, <1>2, <1>3
  <2>2. valid'[c] + invalid'[c] = valid[c] + invalid[c] + 1
    BY <1>1, <1>3
  <2>3. QED
    BY <1>1, <1>2, <1>4, <2>1, <2>2 DEF WriterInvAt, Settled
<1>6. ASSUME NEW d \in Captures, d # c
      PROVE  WriterInvAt(d)'
  <2>1. /\ index'[d] = index[d] /\ hashed'[d] = hashed[d]
        /\ writer'[d] = writer[d]
        /\ valid'[d] = valid[d] /\ invalid'[d] = invalid[d]
    BY <1>1, <1>2, <1>3, <1>6
  <2>2. WriterInvAt(d)
    BY DEF WriterInv
  <2>3. QED
    BY <1>1, <2>1, <2>2, WriterKept
<1>7. QED
  BY <1>5, <1>6 DEF WriterInv

\* Every step keeps the writer's bookkeeping.
LEMMA StepWriter == TypeOK /\ WriterInv /\ [Next]_vars => WriterInv'
  <2> SUFFICES ASSUME TypeOK, WriterInv, [Next]_vars PROVE WriterInv'
    OBVIOUS
  <2> USE StoreAssumption DEF TypeOK, Live, Statuses, countVars,
        recoveryVars, fileVars, WriterInv, WriterInvAt, Settled
  <2>1. ASSUME NEW c \in Captures, MakeDirectory(c)
        PROVE  WriterInv'
    BY <2>1 DEF MakeDirectory, MayCreate
  <2>2. ASSUME NEW c \in Captures, OpenStream(c)
        PROVE  WriterInv'
    BY <2>2 DEF OpenStream
  <2>3. ASSUME NEW c \in Captures, OpenIndex(c)
        PROVE  WriterInv'
    BY <2>3 DEF OpenIndex
  <2>4. ASSUME NEW c \in Captures, NEW f \in Frames, WriteStream(c, f)
        PROVE  WriterInv'
    BY <2>4, StreamWriter
  <2>5. ASSUME NEW c \in Captures, WriteIndexRow(c)
        PROVE  WriterInv'
    BY <2>5, IndexRowWriter
  <2>6. ASSUME NEW c \in Captures,
               NEW final \in Statuses, CloseFiles(c, final)
        PROVE  WriterInv'
    BY <2>6 DEF CloseFiles
  <2>7. ASSUME NEW c \in Captures, OpenMeta(c)
        PROVE  WriterInv'
    BY <2>7 DEF OpenMeta
  <2>8. ASSUME NEW c \in Captures, FillMeta(c)
        PROVE  WriterInv'
    BY <2>8 DEF FillMeta, Metadata
  <2>9. ASSUME NEW c \in Captures, OpenSums(c)
        PROVE  WriterInv'
    BY <2>9 DEF OpenSums, Digests, OnDisk, Manifest
  <2>10. ASSUME NEW c \in Captures, FillSums(c)
        PROVE  WriterInv'
    BY <2>10 DEF FillSums
  <2>11. ASSUME NEW c \in Captures, Crash(c)
        PROVE  WriterInv'
    BY <2>11 DEF Crash
  <2>12. ASSUME NEW c \in Captures, RecoverStart(c)
        PROVE  WriterInv'
    BY <2>12 DEF RecoverStart
  <2>13. ASSUME NEW c \in Captures, RecoverOpenMeta(c)
        PROVE  WriterInv'
    BY <2>13 DEF RecoverOpenMeta
  <2>14. ASSUME NEW c \in Captures, RecoverFillMeta(c)
        PROVE  WriterInv'
    BY <2>14 DEF RecoverFillMeta, Metadata
  <2>15. ASSUME NEW c \in Captures, RecoverOpenSums(c)
        PROVE  WriterInv'
    BY <2>15 DEF RecoverOpenSums, Digests, OnDisk, Manifest
  <2>16. ASSUME NEW c \in Captures, RecoverFillSums(c)
        PROVE  WriterInv'
    BY <2>16 DEF RecoverFillSums
  <2>17. ASSUME NEW c \in Captures, RecoverCrash(c)
        PROVE  WriterInv'
    BY <2>17 DEF RecoverCrash
  <2>18. CASE UNCHANGED vars
    BY <2>18 DEF vars
  <2>19. QED
    BY <2>1, <2>2, <2>3, <2>4, <2>5, <2>6, <2>7, <2>8, <2>9, <2>10, <2>11,
       <2>12, <2>13, <2>14, <2>15, <2>16, <2>17, <2>18
    DEF Next, WriterStep, RecoveryStep

LEMMA WriterInvariant == Spec => [](TypeOK /\ WriterInv)
<1>1. TypeOK /\ WriterInv /\ [Next]_vars => TypeOK' /\ WriterInv'
  BY StepType, StepWriter
<1>2. QED
  BY InitWriter, <1>1, PTL DEF Spec

---------------------------------------------------------------------------
\* The state is well typed in every reachable state: every file of a
\* capture holds what write_frame, close and recovery may have put there.
THEOREM TypeCorrect == Spec => []TypeOK
BY WriterInvariant, PTL

\* Whatever dies and whoever recovers, arrival-index.csv is the raw stream
\* or misses exactly the frame in flight (write_frame).
THEOREM IndexCorrect == Spec => []IndexTracksStream
<1>1. TypeOK /\ WriterInv => IndexTracksStream
  BY DEF TypeOK, WriterInv, WriterInvAt, IndexTracksStream, Settled, Live,
         AllButLast
<1>2. QED
  BY WriterInvariant, <1>1, PTL

\* No step of the writer, of the recovery or of a crash shortens or rewrites
\* raw evidence, even when a live capture is recovered.
THEOREM RawOnlyGrows == Spec => RawAppendOnly
<1> DEFINE Grows ==
      \A c \in Captures :
        /\ Len(stream[c]) <= Len(stream'[c])
        /\ SubSeq(stream'[c], 1, Len(stream[c])) = stream[c]
<1>1. ASSUME TypeOK, WriterInv, Next
      PROVE  \A c \in Captures :
               \/ stream'[c] = stream[c]
               \/ \E f \in Frames : stream'[c] = Append(stream[c], f)
  <2>1. ASSUME NEW c \in Captures, OpenStream(c)
        PROVE  stream' = stream
    BY <2>1, <1>1 DEF OpenStream, WriterInv, WriterInvAt, TypeOK
  <2>2. ASSUME NEW c \in Captures, NEW f \in Frames, WriteStream(c, f)
        PROVE  stream' = [stream EXCEPT ![c] = Append(@, f)]
    BY <2>2 DEF WriteStream
  <2>3. ASSUME ~ \E c \in Captures : OpenStream(c),
               ~ \E c \in Captures : \E f \in Frames : WriteStream(c, f)
        PROVE  stream' = stream
    BY <2>3, <1>1
    DEF Next, WriterStep, RecoveryStep, MakeDirectory, OpenIndex,
        WriteIndexRow, CloseFiles, OpenMeta, FillMeta, OpenSums, FillSums,
        Crash, RecoverStart, RecoverOpenMeta, RecoverFillMeta,
        RecoverOpenSums, RecoverFillSums, RecoverCrash, fileVars
  <2>4. QED
    BY <1>1, <2>1, <2>2, <2>3 DEF TypeOK
<1>2. ASSUME NEW c \in Captures, TypeOK,
             \/ stream'[c] = stream[c]
             \/ \E f \in Frames : stream'[c] = Append(stream[c], f)
      PROVE  /\ Len(stream[c]) <= Len(stream'[c])
             /\ SubSeq(stream'[c], 1, Len(stream[c])) = stream[c]
  <2>1. stream[c] \in Seq(Frames) /\ Len(stream[c]) \in Nat
    BY <1>2, LenProperties DEF TypeOK
  <2>2. CASE stream'[c] = stream[c]
    BY <2>1, <2>2, SubSeqFull
  <2>3. ASSUME NEW f \in Frames, stream'[c] = Append(stream[c], f)
        PROVE  /\ Len(stream[c]) <= Len(stream'[c])
               /\ SubSeq(stream'[c], 1, Len(stream[c])) = stream[c]
    <3>1. /\ Len(stream'[c]) = Len(stream[c]) + 1
          /\ AllButLast(stream'[c]) = stream[c]
      BY <2>1, <2>3, AppendThenFront
    <3>2. Len(stream'[c]) - 1 = Len(stream[c])
      BY <2>1, <3>1
    <3>3. QED
      BY <2>1, <3>1, <3>2 DEF AllButLast
  <2>4. QED
    BY <1>2, <2>2, <2>3
<1>3. TypeOK /\ WriterInv /\ [Next]_vars => [Grows]_vars
  BY <1>1, <1>2
<1>4. QED
  BY WriterInvariant, <1>3, PTL DEF Spec, RawAppendOnly

---------------------------------------------------------------------------
(* The ownership of the manifests, when live captures are left alone.      *)

LEMMA InitOwner == Init => OwnerInv
<1> SUFFICES ASSUME Init, NEW c \in Captures PROVE OwnerInvAt(c)
  BY DEF OwnerInv
<1>1. /\ writer[c] = "none" /\ recovery[c] = "idle"
      /\ metaFile[c] = "absent" /\ sumsFile[c] = "absent"
  BY DEF Init
<1>2. QED
  BY <1>1 DEF OwnerInvAt, Unmanifested

\* Nothing that happens to other captures disturbs the manifests of d.
LEMMA OwnerKept ==
  ASSUME NEW d \in Captures, OwnerInvAt(d),
         stream'[d] = stream[d], index'[d] = index[d], meta'[d] = meta[d],
         metaFile'[d] = metaFile[d], sums'[d] = sums[d],
         sumsFile'[d] = sumsFile[d], writer'[d] = writer[d],
         recovery'[d] = recovery[d], digest'[d] = digest[d]
  PROVE  OwnerInvAt(d)'
<1>1. OnDisk(d)' = OnDisk(d)
  BY DEF OnDisk
<1>2. TrueManifest(d)' = TrueManifest(d)
  BY DEF TrueManifest
<1>3. Unmanifested(d)' = Unmanifested(d)
  BY DEF Unmanifested
<1>4. QED
  BY <1>1, <1>2, <1>3 DEF OwnerInvAt

\* close() fills capture.json with what the writer counted and hashed.
LEMMA FillMetaOwner ==
  ASSUME ~RecoverLive, TypeOK, WriterInv, OwnerInv, NEW c \in Captures, FillMeta(c)
  PROVE  OwnerInv'
<1>1. /\ writer[c] = "meta_torn"
      /\ stream' = stream /\ index' = index /\ sumsFile' = sumsFile
      /\ sums' = sums /\ recovery' = recovery /\ digest' = digest
      /\ metaFile' = [metaFile EXCEPT ![c] = "whole"]
      /\ writer' = [writer EXCEPT ![c] = "meta_whole"]
  BY DEF FillMeta, countVars, recoveryVars
<1>2. meta' = [meta EXCEPT ![c] =
                [status |-> closeStatus[c], stream |-> hashed[c],
                 counted |-> TRUE, valid |-> valid[c],
                 invalid |-> invalid[c]]]
  BY DEF FillMeta
<1>3. /\ DOMAIN meta = Captures /\ DOMAIN metaFile = Captures
      /\ DOMAIN writer = Captures
  BY DEF TypeOK
<1>4. ASSUME NEW d \in Captures, d # c
      PROVE  OwnerInvAt(d)'
  <2>1. /\ meta'[d] = meta[d] /\ metaFile'[d] = metaFile[d]
        /\ writer'[d] = writer[d]
    BY <1>1, <1>2, <1>3, <1>4
  <2>2. OwnerInvAt(d)
    BY DEF OwnerInv
  <2>3. QED
    BY <1>1, <2>1, <2>2, OwnerKept
<1>5. OwnerInvAt(c)'
  <2>1. /\ hashed[c] = stream[c] /\ index[c] = stream[c]
        /\ valid[c] + invalid[c] = Len(stream[c])
    BY <1>1 DEF WriterInv, WriterInvAt, Settled
  <2>2. sumsFile[c] = "absent" /\ recovery[c] = "idle"
    BY <1>1 DEF OwnerInv, OwnerInvAt
  <2>3. writer'[c] = "meta_whole" /\ metaFile'[c] = "whole"
    BY <1>1, <1>3
  <2>4. meta'[c] = [status |-> closeStatus[c], stream |-> hashed[c],
                    counted |-> TRUE, valid |-> valid[c],
                    invalid |-> invalid[c]]
    BY <1>2, <1>3
  <2>5. TrueManifest(c)'
    BY <1>1, <2>1, <2>4 DEF TrueManifest
  <2>6. QED
    BY <1>1, <2>2, <2>3, <2>5 DEF OwnerInvAt
<1>6. QED
  BY <1>4, <1>5 DEF OwnerInv

\* Recovery fills capture.json with the stream it hashed.
LEMMA RecoverFillMetaOwner ==
  ASSUME ~RecoverLive, TypeOK, WriterInv, OwnerInv, NEW c \in Captures, RecoverFillMeta(c)
  PROVE  OwnerInv'
<1>1. /\ recovery[c] = "meta_torn"
      /\ stream' = stream /\ index' = index /\ sumsFile' = sumsFile
      /\ sums' = sums /\ writer' = writer /\ digest' = digest
      /\ metaFile' = [metaFile EXCEPT ![c] = "whole"]
      /\ recovery' = [recovery EXCEPT ![c] = "meta_whole"]
  BY DEF RecoverFillMeta, countVars, recoveryVars
<1>2. meta' = [meta EXCEPT ![c] =
                [status |-> "PARTIAL", stream |-> digest[c],
                 counted |-> FALSE, valid |-> 0, invalid |-> 0]]
  BY DEF RecoverFillMeta
<1>3. /\ DOMAIN meta = Captures /\ DOMAIN metaFile = Captures
      /\ DOMAIN recovery = Captures
  BY DEF TypeOK
<1>4. ASSUME NEW d \in Captures, d # c
      PROVE  OwnerInvAt(d)'
  <2>1. /\ meta'[d] = meta[d] /\ metaFile'[d] = metaFile[d]
        /\ recovery'[d] = recovery[d]
    BY <1>1, <1>2, <1>3, <1>4
  <2>2. OwnerInvAt(d)
    BY DEF OwnerInv
  <2>3. QED
    BY <1>1, <2>1, <2>2, OwnerKept
<1>5. OwnerInvAt(c)'
  <2>1. /\ digest[c] = stream[c] /\ sumsFile[c] = "absent"
        /\ writer[c] = "dead"
    BY <1>1 DEF OwnerInv, OwnerInvAt
  <2>2. recovery'[c] = "meta_whole" /\ metaFile'[c] = "whole"
    BY <1>1, <1>3
  <2>3. meta'[c] = [status |-> "PARTIAL", stream |-> digest[c],
                    counted |-> FALSE, valid |-> 0, invalid |-> 0]
    BY <1>2, <1>3
  <2>4. TrueManifest(c)'
    BY <1>1, <2>1, <2>3 DEF TrueManifest
  <2>5. QED
    BY <1>1, <2>1, <2>2, <2>4 DEF OwnerInvAt
<1>6. QED
  BY <1>4, <1>5 DEF OwnerInv

\* An index row is written before the capture has any manifest, so no
\* manifest is made false by it.
LEMMA IndexRowOwner ==
  ASSUME TypeOK, OwnerInv, NEW c \in Captures, WriteIndexRow(c)
  PROVE  OwnerInv'
<1>1. /\ writer[c] = "streamed"
      /\ stream' = stream /\ metaFile' = metaFile /\ meta' = meta
      /\ sumsFile' = sumsFile /\ sums' = sums
      /\ recovery' = recovery /\ digest' = digest
      /\ writer' = [writer EXCEPT ![c] = "ready"]
      /\ \A d \in Captures : d # c => index'[d] = index[d]
  BY DEF WriteIndexRow, recoveryVars, TypeOK
<1>2. DOMAIN writer = Captures
  BY DEF TypeOK
<1>3. ASSUME NEW d \in Captures, d # c
      PROVE  OwnerInvAt(d)'
  <2>1. writer'[d] = writer[d] /\ index'[d] = index[d]
    BY <1>1, <1>2, <1>3
  <2>2. OwnerInvAt(d)
    BY DEF OwnerInv
  <2>3. QED
    BY <1>1, <2>1, <2>2, OwnerKept
<1>4. OwnerInvAt(c)'
  <2>1. writer'[c] = "ready"
    BY <1>1, <1>2
  <2>2. OwnerInvAt(c)
    BY DEF OwnerInv
  <2>3. metaFile[c] = "absent" /\ sumsFile[c] = "absent" /\ recovery[c] = "idle"
    BY <1>1, <2>2 DEF OwnerInvAt, Unmanifested
  <2>4. QED
    BY <1>1, <2>1, <2>3 DEF OwnerInvAt, Unmanifested
<1>5. QED
  BY <1>3, <1>4 DEF OwnerInv

\* Every step keeps the manifests owned and true.
LEMMA StepOwner ==
  ~RecoverLive /\ TypeOK /\ WriterInv /\ OwnerInv /\ [Next]_vars => OwnerInv'
  <2> SUFFICES ASSUME ~RecoverLive, TypeOK, WriterInv, OwnerInv, [Next]_vars
               PROVE  OwnerInv'
    OBVIOUS
  <2> USE StoreAssumption DEF TypeOK, Live, countVars, recoveryVars, fileVars,
        WriterInv, WriterInvAt, Settled, OwnerInv, OwnerInvAt, TrueManifest,
        Unmanifested, Digests, OnDisk
  <2>1. ASSUME NEW c \in Captures, MakeDirectory(c)
        PROVE  OwnerInv'
    BY <2>1 DEF MakeDirectory, MayCreate
  <2>2. ASSUME NEW c \in Captures, OpenStream(c)
        PROVE  OwnerInv'
    <3>1. /\ UNCHANGED <<stream, index, metaFile, meta, sumsFile, sums,
                        recovery, digest>>
          /\ writer[c] = "made"
          /\ writer' = [writer EXCEPT ![c] = "opened"]
      BY <2>2 DEF OpenStream
    <3>2. QED
      BY <3>1
  <2>3. ASSUME NEW c \in Captures, OpenIndex(c)
        PROVE  OwnerInv'
    BY <2>3 DEF OpenIndex
  <2>4. ASSUME NEW c \in Captures, NEW f \in Frames, WriteStream(c, f)
        PROVE  OwnerInv'
    <3>1. Unmanifested(c) /\ recovery[c] = "idle"
      BY <2>4 DEF WriteStream
    <3>2. ASSUME NEW d \in Captures, d # c
          PROVE  OwnerInvAt(d)'
      BY <2>4, <3>2 DEF WriteStream
    <3>3. OwnerInvAt(c)'
      BY <2>4, <3>1 DEF WriteStream
    <3> HIDE DEF OwnerInvAt
    <3>4. QED
      BY <3>2, <3>3
  <2>5. ASSUME NEW c \in Captures, WriteIndexRow(c)
        PROVE  OwnerInv'
    BY <2>5, IndexRowOwner
  <2>6. ASSUME NEW c \in Captures,
               NEW final \in Statuses, CloseFiles(c, final)
        PROVE  OwnerInv'
    BY <2>6 DEF CloseFiles
  <2>7. ASSUME NEW c \in Captures, OpenMeta(c)
        PROVE  OwnerInv'
    BY <2>7 DEF OpenMeta
  <2>8. ASSUME NEW c \in Captures, FillMeta(c)
        PROVE  OwnerInv'
    BY <2>8, FillMetaOwner
  <2>9. ASSUME NEW c \in Captures, OpenSums(c)
        PROVE  OwnerInv'
    BY <2>9 DEF OpenSums
  <2>10. ASSUME NEW c \in Captures, FillSums(c)
        PROVE  OwnerInv'
    BY <2>10 DEF FillSums
  <2>11. ASSUME NEW c \in Captures, Crash(c)
        PROVE  OwnerInv'
    BY <2>11 DEF Crash
  <2>12. ASSUME NEW c \in Captures, RecoverStart(c)
        PROVE  OwnerInv'
    BY <2>12 DEF RecoverStart, Incomplete
  <2>13. ASSUME NEW c \in Captures, RecoverOpenMeta(c)
        PROVE  OwnerInv'
    BY <2>13 DEF RecoverOpenMeta
  <2>14. ASSUME NEW c \in Captures, RecoverFillMeta(c)
        PROVE  OwnerInv'
    BY <2>14, RecoverFillMetaOwner
  <2>15. ASSUME NEW c \in Captures, RecoverOpenSums(c)
        PROVE  OwnerInv'
    BY <2>15 DEF RecoverOpenSums
  <2>16. ASSUME NEW c \in Captures, RecoverFillSums(c)
        PROVE  OwnerInv'
    BY <2>16 DEF RecoverFillSums
  <2>17. ASSUME NEW c \in Captures, RecoverCrash(c)
        PROVE  OwnerInv'
    BY <2>17 DEF RecoverCrash
  <2>18. CASE UNCHANGED vars
    BY <2>18 DEF vars
  <2>19. QED
    BY <2>1, <2>2, <2>3, <2>4, <2>5, <2>6, <2>7, <2>8, <2>9, <2>10, <2>11,
       <2>12, <2>13, <2>14, <2>15, <2>16, <2>17, <2>18
    DEF Next, WriterStep, RecoveryStep

LEMMA OwnerInvariant ==
  ASSUME ~RecoverLive
  PROVE  Spec => [](TypeOK /\ WriterInv /\ OwnerInv)
<1>1. TypeOK /\ WriterInv /\ OwnerInv /\ [Next]_vars
        => TypeOK' /\ WriterInv' /\ OwnerInv'
  BY StepType, StepWriter, StepOwner
<1>2. QED
  BY InitWriter, InitOwner, <1>1, PTL DEF Spec

---------------------------------------------------------------------------
\* Left to its writer, or recovered only after the writer is gone, a
\* capture's readable capture.json describes exactly the bytes on disk.
THEOREM ManifestCorrect ==
  ASSUME ~RecoverLive
  PROVE  Spec => []ManifestTruthful
<1>1. OwnerInv => ManifestTruthful
  BY DEF OwnerInv, OwnerInvAt, TrueManifest, ManifestTruthful
<1>2. QED
  BY OwnerInvariant, <1>1, PTL

\* Under the same condition every digest of a readable SHA256SUMS.txt
\* verifies, from the moment it is written and for ever after.
THEOREM SumsCorrect ==
  ASSUME ~RecoverLive
  PROVE  Spec => []SumsVerify
<1>1. OwnerInv => SumsVerify
  BY DEF OwnerInv, OwnerInvAt, SumsVerify
<1>2. QED
  BY OwnerInvariant, <1>1, PTL

\* What one step does to the raw files and the manifest of each capture: it
\* leaves them, extends the stream or the index of a capture without a
\* manifest, opens the manifest or completes it.
LEMMA CaptureStep ==
  ASSUME TypeOK, WriterInv, OwnerInv, ~RecoverLive, Next
  PROVE  \E c \in Captures :
           /\ \A d \in Captures \ {c} :
                UNCHANGED <<stream[d], index[d], metaFile[d], meta[d]>>
           /\ \/ UNCHANGED <<stream, index, metaFile, meta>>
              \/ /\ metaFile[c] = "absent"
                 /\ UNCHANGED <<metaFile, meta>>
                 /\ \/ stream' = stream
                    \/ \E f \in Frames :
                         stream' = [stream EXCEPT ![c] = Append(@, f)]
              \/ /\ metaFile[c] = "absent"
                 /\ metaFile' = [metaFile EXCEPT ![c] = "torn"]
                 /\ UNCHANGED <<stream, index, meta>>
              \/ /\ metaFile[c] = "torn"
                 /\ metaFile' = [metaFile EXCEPT ![c] = "whole"]
                 /\ UNCHANGED <<stream, index>>
<1> DEFINE Goal(c) ==
           /\ \A d \in Captures \ {c} :
                UNCHANGED <<stream[d], index[d], metaFile[d], meta[d]>>
           /\ \/ UNCHANGED <<stream, index, metaFile, meta>>
              \/ /\ metaFile[c] = "absent"
                 /\ UNCHANGED <<metaFile, meta>>
                 /\ \/ stream' = stream
                    \/ \E f \in Frames :
                         stream' = [stream EXCEPT ![c] = Append(@, f)]
              \/ /\ metaFile[c] = "absent"
                 /\ metaFile' = [metaFile EXCEPT ![c] = "torn"]
                 /\ UNCHANGED <<stream, index, meta>>
              \/ /\ metaFile[c] = "torn"
                 /\ metaFile' = [metaFile EXCEPT ![c] = "whole"]
                 /\ UNCHANGED <<stream, index>>
<1>1. PICK c \in Captures :
        WriterStep(c) \/ Crash(c) \/ RecoveryStep(c) \/ RecoverCrash(c)
  BY DEF Next
<1> USE DEF TypeOK, OwnerInv, OwnerInvAt, Unmanifested, fileVars, recoveryVars,
        countVars
<1>2. ASSUME \/ MakeDirectory(c) \/ Crash(c) \/ RecoverCrash(c)
             \/ RecoverStart(c) \/ OpenSums(c) \/ FillSums(c)
             \/ RecoverOpenSums(c) \/ RecoverFillSums(c)
             \/ \E final \in Statuses : CloseFiles(c, final)
      PROVE  UNCHANGED <<stream, index, metaFile, meta>>
  BY <1>2
  DEF MakeDirectory, Crash, RecoverCrash, RecoverStart, OpenSums, FillSums,
      RecoverOpenSums, RecoverFillSums, CloseFiles
<1>3. CASE OpenStream(c)
  <2>1. stream' = stream /\ UNCHANGED <<index, metaFile, meta>>
    BY <1>3 DEF OpenStream, WriterInv, WriterInvAt
  <2>2. Goal(c)
    BY <2>1
  <2>3. QED
    BY <2>2
<1>4. CASE OpenIndex(c) \/ WriteIndexRow(c)
  <2>1. /\ metaFile[c] = "absent"
        /\ UNCHANGED <<stream, metaFile, meta>>
        /\ \A d \in Captures \ {c} : index'[d] = index[d]
    BY <1>4 DEF OpenIndex, WriteIndexRow
  <2>2. Goal(c)
    BY <2>1
  <2>3. QED
    BY <2>2
<1>5. ASSUME NEW f \in Frames, WriteStream(c, f)
      PROVE  Goal(c)
  <2>1. /\ metaFile[c] = "absent"
        /\ UNCHANGED <<index, metaFile, meta>>
        /\ stream' = [stream EXCEPT ![c] = Append(@, f)]
    BY <1>5 DEF WriteStream
  <2>2. QED
    BY <2>1
<1>6. CASE OpenMeta(c) \/ RecoverOpenMeta(c)
  <2>1. /\ metaFile[c] = "absent"
        /\ metaFile' = [metaFile EXCEPT ![c] = "torn"]
        /\ UNCHANGED <<stream, index, meta>>
    BY <1>6 DEF OpenMeta, RecoverOpenMeta
  <2>2. Goal(c)
    BY <2>1
  <2>3. QED
    BY <2>2
<1>7. CASE FillMeta(c) \/ RecoverFillMeta(c)
  <2>1. /\ metaFile[c] = "torn"
        /\ metaFile' = [metaFile EXCEPT ![c] = "whole"]
        /\ UNCHANGED <<stream, index>>
        /\ \A d \in Captures \ {c} : meta'[d] = meta[d]
    BY <1>7 DEF FillMeta, RecoverFillMeta
  <2>2. Goal(c)
    BY <2>1
  <2>3. QED
    BY <2>2
<1>8. QED
  BY <1>1, <1>2, <1>3, <1>4, <1>5, <1>6, <1>7 DEF WriterStep, RecoveryStep

\* A capture with a complete capture.json is never touched again: no later
\* writer, recovery or crash changes its raw files or its manifest.
THEOREM SealedStaysFrozen ==
  ASSUME ~RecoverLive
  PROVE  Spec => SealedFrozen
<1> DEFINE Frozen ==
      \A c \in Captures :
        metaFile[c] = "whole" =>
          UNCHANGED <<stream[c], index[c], metaFile[c], meta[c]>>
<1>1. TypeOK /\ WriterInv /\ OwnerInv /\ [Next]_vars => [Frozen]_vars
  <2>1. TypeOK /\ WriterInv /\ OwnerInv /\ Next => Frozen
    BY CaptureStep
  <2>2. QED
    BY <2>1
<1>2. QED
  BY OwnerInvariant, <1>1, PTL DEF Spec, SealedFrozen

\* The files, the two processes and their crashes implement the abstract
\* append-only archive: completing a manifest seals the log, writing stream
\* bytes appends to it, and everything else is invisible.
THEOREM StoreImplementsArchive ==
  ASSUME ~RecoverLive
  PROVE  Spec => ImplementsArchive
<1> DEFINE sealed == [c \in Captures |-> metaFile[c] = "whole"]
<1>1. Init => Archive!Init
  BY DEF Init, Archive!Init
<1>2. TypeOK /\ WriterInv /\ OwnerInv /\ [Next]_vars
        => [Archive!Next]_(Archive!archiveVars)
  <2> SUFFICES ASSUME TypeOK, WriterInv, OwnerInv, [Next]_vars
               PROVE  Archive!Next \/ UNCHANGED <<stream, sealed>>
    BY DEF Archive!archiveVars
  <2>1. CASE Next
    <3>1. PICK c \in Captures :
            \/ UNCHANGED <<stream, metaFile>>
            \/ /\ metaFile[c] = "absent"
               /\ UNCHANGED metaFile
               /\ \/ stream' = stream
                  \/ \E f \in Frames :
                       stream' = [stream EXCEPT ![c] = Append(@, f)]
            \/ /\ metaFile[c] = "absent"
               /\ metaFile' = [metaFile EXCEPT ![c] = "torn"]
               /\ UNCHANGED stream
            \/ /\ metaFile[c] = "torn"
               /\ metaFile' = [metaFile EXCEPT ![c] = "whole"]
               /\ UNCHANGED stream
      BY <2>1, CaptureStep
    <3>2. CASE UNCHANGED <<stream, metaFile>>
      BY <3>2
    <3>3. ASSUME NEW f \in Frames, metaFile[c] = "absent", UNCHANGED metaFile,
                 stream' = [stream EXCEPT ![c] = Append(@, f)]
          PROVE  Archive!AppendFrame(c, f)
      BY <3>3 DEF Archive!AppendFrame
    <3>4. CASE /\ metaFile[c] = "absent"
               /\ metaFile' = [metaFile EXCEPT ![c] = "torn"]
               /\ UNCHANGED stream
      <4>1. sealed' = sealed
        BY <3>4 DEF TypeOK
      <4>2. QED
        BY <3>4, <4>1
    <3>5. CASE /\ metaFile[c] = "torn"
               /\ metaFile' = [metaFile EXCEPT ![c] = "whole"]
               /\ UNCHANGED stream
      <4>1. sealed' = [sealed EXCEPT ![c] = TRUE] /\ ~sealed[c]
        BY <3>5 DEF TypeOK
      <4>2. QED
        BY <3>5, <4>1 DEF Archive!Next, Archive!Seal
    <3>6. QED
      BY <3>1, <3>2, <3>3, <3>4, <3>5 DEF Archive!Next
  <2>2. CASE UNCHANGED vars
    BY <2>2 DEF vars, fileVars
  <2>3. QED
    BY <2>1, <2>2
<1>3. QED
  BY OwnerInvariant, <1>1, <1>2, PTL DEF Spec, ImplementsArchive, Archive!Spec

-----------------------------------------------------------------------------
(***************************************************************************)
(* The streaming framer.                                                   *)
(***************************************************************************)

FrameSize(f) == Len(f.raw)

\* Frames end at or before the bytes not yet consumed.
FramesBehind ==
  \A i \in 1 .. Len(frames) : frames[i].offset + FrameSize(frames[i]) <= byteOffset

\* The inductive invariant.
FramerInv == FramerTypeOK /\ BufferIsSuffix /\ FramesAreSlices /\ FramesBehind

---------------------------------------------------------------------------
\* Dropping a prefix of a suffix gives the shorter suffix.
LEMMA SuffixOfSuffix ==
  ASSUME NEW S, NEW w \in Seq(S), NEW k \in Nat, NEW n \in Nat,
         k + n <= Len(w),
         NEW b, b = SubSeq(w, k + 1, Len(w))
  PROVE  /\ b \in Seq(S) /\ Len(b) = Len(w) - k
         /\ SubSeq(b, n + 1, Len(b)) = SubSeq(w, k + n + 1, Len(w))
         /\ SubSeq(b, n + 1, Len(b)) \in Seq(S)
         /\ Len(SubSeq(b, n + 1, Len(b))) = Len(w) - k - n
         /\ SubSeq(b, 1, n) = SubSeq(w, k + 1, k + n)
         /\ SubSeq(b, 1, n) \in Seq(S) /\ Len(SubSeq(b, 1, n)) = n
<1>0. Len(w) \in Nat /\ \A i \in 1 .. Len(w) : w[i] \in S
  BY LenProperties, ElementOfSeq
<1>1. /\ b \in Seq(S) /\ Len(b) = Len(w) - k
      /\ \A i \in 1 .. Len(b) : b[i] = w[k + i]
  <2>1. \A i \in k + 1 .. Len(w) : w[i] \in S
    BY <1>0
  <2>2. /\ b \in Seq(S)
        /\ Len(b) = IF k + 1 <= Len(w) THEN Len(w) - (k + 1) + 1 ELSE 0
        /\ \A i \in 1 .. Len(w) - (k + 1) + 1 : b[i] = w[k + 1 + i - 1]
    BY <1>0, <2>1, SubSeqProperties
  <2>3. QED
    BY <1>0, <2>2
<1>2. \A i \in 1 .. Len(b) : b[i] \in S
  BY <1>1, ElementOfSeq
<1>3. /\ SubSeq(b, n + 1, Len(b)) \in Seq(S)
      /\ Len(SubSeq(b, n + 1, Len(b))) = Len(w) - k - n
      /\ \A i \in 1 .. Len(w) - k - n :
           SubSeq(b, n + 1, Len(b))[i] = w[k + n + i]
  <2> DEFINE s == SubSeq(b, n + 1, Len(b))
  <2>1. /\ s \in Seq(S)
        /\ Len(s) = IF n + 1 <= Len(b) THEN Len(b) - (n + 1) + 1 ELSE 0
        /\ \A i \in 1 .. Len(b) - (n + 1) + 1 : s[i] = b[n + 1 + i - 1]
    <3>1. \A i \in n + 1 .. Len(b) : b[i] \in S
      BY <1>0, <1>1, <1>2
    <3>2. QED
      BY <1>0, <1>1, <3>1, SubSeqProperties
  <2>2. Len(b) = Len(w) - k /\ Len(w) \in Nat
    BY <1>0, <1>1
  <2> HIDE DEF s
  <2>3. Len(s) = Len(w) - k - n
    BY <2>1, <2>2
  <2>4. ASSUME NEW i \in 1 .. Len(w) - k - n
        PROVE  s[i] = w[k + n + i]
    <3>1. s[i] = b[n + i] /\ n + i \in 1 .. Len(b)
      <4>1. i \in 1 .. Len(b) - (n + 1) + 1 /\ n + 1 + i - 1 = n + i /\ n + i \in 1 .. Len(b)
        BY <2>2
      <4>2. s[i] = b[n + 1 + i - 1]
        BY <2>1, <4>1
      <4>3. QED
        BY <4>1, <4>2
    <3>2. b[n + i] = w[k + (n + i)]
      BY <1>1, <3>1
    <3>3. k + (n + i) = k + n + i
      BY <2>2
    <3>4. QED
      BY <3>1, <3>2, <3>3
  <2>5. QED
    BY <2>1, <2>3, <2>4 DEF s
<1>4. /\ SubSeq(w, k + n + 1, Len(w)) \in Seq(S)
      /\ Len(SubSeq(w, k + n + 1, Len(w))) = Len(w) - k - n
      /\ \A i \in 1 .. Len(w) - k - n :
           SubSeq(w, k + n + 1, Len(w))[i] = w[k + n + i]
  <2>1. \A i \in k + n + 1 .. Len(w) : w[i] \in S
    BY <1>0
  <2>2. /\ SubSeq(w, k + n + 1, Len(w)) \in Seq(S)
        /\ Len(SubSeq(w, k + n + 1, Len(w))) =
             IF k + n + 1 <= Len(w) THEN Len(w) - (k + n + 1) + 1 ELSE 0
        /\ \A i \in 1 .. Len(w) - (k + n + 1) + 1 :
             SubSeq(w, k + n + 1, Len(w))[i] = w[k + n + 1 + i - 1]
    BY <1>0, <2>1, SubSeqProperties
  <2>3. QED
    BY <1>0, <2>2
<1>5. /\ SubSeq(b, 1, n) \in Seq(S) /\ Len(SubSeq(b, 1, n)) = n
      /\ \A i \in 1 .. n : SubSeq(b, 1, n)[i] = w[k + i]
  <2>1. \A i \in 1 .. n : b[i] \in S
    BY <1>0, <1>1, <1>2
  <2>2. /\ SubSeq(b, 1, n) \in Seq(S)
        /\ Len(SubSeq(b, 1, n)) = IF 1 <= n THEN n - 1 + 1 ELSE 0
        /\ \A i \in 1 .. n - 1 + 1 : SubSeq(b, 1, n)[i] = b[1 + i - 1]
    BY <2>1, SubSeqProperties
  <2>3. QED
    BY <1>0, <1>1, <2>2
<1>6. /\ SubSeq(w, k + 1, k + n) \in Seq(S)
      /\ Len(SubSeq(w, k + 1, k + n)) = n
      /\ \A i \in 1 .. n : SubSeq(w, k + 1, k + n)[i] = w[k + i]
  <2>1. \A i \in k + 1 .. k + n : w[i] \in S
    BY <1>0
  <2>2. /\ SubSeq(w, k + 1, k + n) \in Seq(S)
        /\ Len(SubSeq(w, k + 1, k + n)) =
             IF k + 1 <= k + n THEN k + n - (k + 1) + 1 ELSE 0
        /\ \A i \in 1 .. k + n - (k + 1) + 1 :
             SubSeq(w, k + 1, k + n)[i] = w[k + 1 + i - 1]
    BY <2>1, SubSeqProperties
  <2>3. QED
    BY <2>2
<1>7. SubSeq(b, n + 1, Len(b)) = SubSeq(w, k + n + 1, Len(w))
  <2> DEFINE s == SubSeq(b, n + 1, Len(b))
             t == SubSeq(w, k + n + 1, Len(w))
  <2>1. /\ s \in Seq(S) /\ Len(s) = Len(w) - k - n
        /\ \A i \in 1 .. Len(w) - k - n : s[i] = w[k + n + i]
    BY <1>3
  <2>2. /\ t \in Seq(S) /\ Len(t) = Len(w) - k - n
        /\ \A i \in 1 .. Len(w) - k - n : t[i] = w[k + n + i]
    BY <1>4
  <2> HIDE DEF s, t
  <2>3. s = t
    BY <2>1, <2>2, SeqEqual
  <2>4. QED
    BY <2>3 DEF s, t
<1>8. SubSeq(b, 1, n) = SubSeq(w, k + 1, k + n)
  BY <1>5, <1>6, SeqEqual
<1>9. QED
  BY <1>1, <1>3, <1>5, <1>7, <1>8

\* What was received before a chunk arrives is still there afterwards.
LEMMA SliceOfLonger ==
  ASSUME NEW S, NEW w \in Seq(S), NEW c \in Seq(S), NEW k \in Nat,
         NEW n \in Nat, k + n <= Len(w)
  PROVE  SubSeq(w \o c, k + 1, k + n) = SubSeq(w, k + 1, k + n)
<1>1. /\ w \o c \in Seq(S) /\ Len(w \o c) = Len(w) + Len(c)
      /\ \A i \in 1 .. Len(w) : (w \o c)[i] = w[i]
      /\ Len(w) \in Nat /\ Len(c) \in Nat
  BY ConcatProperties, LenProperties
<1> HIDE <1>1
<1> DEFINE x == w \o c
<1>2. \A i \in k + 1 .. k + n : w[i] \in S /\ x[i] \in S /\ x[i] = w[i]
  <2>1. \A i \in 1 .. Len(w) : w[i] \in S
    BY ElementOfSeq
  <2>2. QED
    BY <1>1, <2>1
<1> HIDE DEF x
<1>3. /\ SubSeq(x, k + 1, k + n) \in Seq(S)
      /\ Len(SubSeq(x, k + 1, k + n)) =
           IF k + 1 <= k + n THEN k + n - (k + 1) + 1 ELSE 0
      /\ \A i \in 1 .. k + n - (k + 1) + 1 :
           SubSeq(x, k + 1, k + n)[i] = x[k + 1 + i - 1]
  BY <1>2, SubSeqProperties
<1>4. /\ SubSeq(w, k + 1, k + n) \in Seq(S)
      /\ Len(SubSeq(w, k + 1, k + n)) =
           IF k + 1 <= k + n THEN k + n - (k + 1) + 1 ELSE 0
      /\ \A i \in 1 .. k + n - (k + 1) + 1 :
           SubSeq(w, k + 1, k + n)[i] = w[k + 1 + i - 1]
  BY <1>2, SubSeqProperties
<1>5. ASSUME NEW i \in 1 .. n
      PROVE  SubSeq(x, k + 1, k + n)[i] = SubSeq(w, k + 1, k + n)[i]
  <2>1. /\ i \in 1 .. k + n - (k + 1) + 1
        /\ k + 1 + i - 1 \in k + 1 .. k + n
    OBVIOUS
  <2>2. /\ SubSeq(x, k + 1, k + n)[i] = x[k + 1 + i - 1]
        /\ SubSeq(w, k + 1, k + n)[i] = w[k + 1 + i - 1]
    BY <1>3, <1>4, <2>1
  <2>3. x[k + 1 + i - 1] = w[k + 1 + i - 1]
    BY <1>2, <2>1
  <2>4. QED
    BY <2>2, <2>3
<1>6. SubSeq(x, k + 1, k + n) = SubSeq(w, k + 1, k + n)
  <2> DEFINE p == SubSeq(x, k + 1, k + n)
             q == SubSeq(w, k + 1, k + n)
  <2>1. p \in Seq(S) /\ q \in Seq(S) /\ Len(p) = n /\ Len(q) = n
    BY <1>3, <1>4
  <2>2. \A i \in 1 .. n : p[i] = q[i]
    BY <1>5
  <2> HIDE DEF p, q
  <2>3. p = q
    BY <2>1, <2>2, SeqEqual
  <2>4. QED
    BY <2>3 DEF p, q
<1>7. QED
  BY <1>6 DEF x

\* Appending a chunk to the wire and to a suffix of it keeps it the suffix.
LEMMA SuffixOfLonger ==
  ASSUME NEW S, NEW w \in Seq(S), NEW c \in Seq(S), NEW k \in Nat,
         k <= Len(w)
  PROVE  SubSeq(w \o c, k + 1, Len(w) + Len(c))
           = SubSeq(w, k + 1, Len(w)) \o c
<1>1. /\ w \o c \in Seq(S) /\ Len(w \o c) = Len(w) + Len(c)
      /\ Len(w) \in Nat /\ Len(c) \in Nat
      /\ \A i \in 1 .. Len(w) + Len(c) :
           (w \o c)[i] = IF i <= Len(w) THEN w[i] ELSE c[i - Len(w)]
  BY ConcatProperties, LenProperties
<1> DEFINE x == w \o c
           l == SubSeq(x, k + 1, Len(w) + Len(c))
           b == SubSeq(w, k + 1, Len(w))
<1>2. \A i \in k + 1 .. Len(w) + Len(c) : x[i] \in S
  <2>1. \A i \in 1 .. Len(x) : x[i] \in S
    BY <1>1, ElementOfSeq
  <2>2. QED
    BY <1>1, <2>1
<1>3. /\ l \in Seq(S) /\ Len(l) = Len(w) + Len(c) - k
      /\ \A i \in 1 .. Len(w) + Len(c) - k : l[i] = x[k + i]
  <2> HIDE DEF x
  <2>1. /\ l \in Seq(S)
        /\ Len(l) = IF k + 1 <= Len(w) + Len(c)
                    THEN Len(w) + Len(c) - (k + 1) + 1 ELSE 0
        /\ \A i \in 1 .. Len(w) + Len(c) - (k + 1) + 1 : l[i] = x[k + 1 + i - 1]
    BY <1>1, <1>2, SubSeqProperties
  <2>2. QED
    BY <1>1, <2>1
<1>4. /\ b \in Seq(S) /\ Len(b) = Len(w) - k
      /\ \A i \in 1 .. Len(w) - k : b[i] = w[k + i]
  <2>1. \A i \in 1 .. Len(w) : w[i] \in S
    BY ElementOfSeq
  <2>2. \A i \in k + 1 .. Len(w) : w[i] \in S
    BY <1>1, <2>1
  <2>3. /\ b \in Seq(S)
        /\ Len(b) = IF k + 1 <= Len(w) THEN Len(w) - (k + 1) + 1 ELSE 0
        /\ \A i \in 1 .. Len(w) - (k + 1) + 1 : b[i] = w[k + 1 + i - 1]
    BY <1>1, <2>2, SubSeqProperties
  <2>4. QED
    BY <1>1, <2>3
<1> HIDE DEF l, b
<1>5. /\ b \o c \in Seq(S) /\ Len(b \o c) = Len(w) + Len(c) - k
      /\ \A i \in 1 .. Len(b) + Len(c) :
           (b \o c)[i] = IF i <= Len(b) THEN b[i] ELSE c[i - Len(b)]
  <2>1. /\ b \o c \in Seq(S) /\ Len(b \o c) = Len(b) + Len(c)
        /\ \A i \in 1 .. Len(b) + Len(c) :
             (b \o c)[i] = IF i <= Len(b) THEN b[i] ELSE c[i - Len(b)]
    BY <1>4, ConcatProperties
  <2>2. Len(b) + Len(c) = Len(w) + Len(c) - k
    BY <1>1, <1>4
  <2>3. QED
    BY <2>1, <2>2
<1>6. ASSUME NEW i \in 1 .. Len(w) + Len(c) - k
      PROVE  l[i] = (b \o c)[i]
  <2>1. k + i \in 1 .. Len(w) + Len(c) /\ l[i] = x[k + i]
    BY <1>1, <1>3
  <2>2. CASE i <= Len(w) - k
    BY <1>1, <1>4, <1>5, <2>1, <2>2
  <2>3. CASE i > Len(w) - k
    <3>1. x[k + i] = c[k + i - Len(w)]
      BY <1>1, <2>1, <2>3
    <3>2. (b \o c)[i] = c[i - Len(b)] /\ i - Len(b) = k + i - Len(w)
      BY <1>1, <1>4, <1>5, <2>3
    <3>3. QED
      BY <2>1, <3>1, <3>2
  <2>4. i <= Len(w) - k \/ i > Len(w) - k
    BY <1>1
  <2>5. QED
    BY <2>2, <2>3, <2>4, Zenon
<1>7. l = b \o c
  BY <1>1, <1>3, <1>5, <1>6, SeqEqual
<1>8. QED
  BY <1>7 DEF l, b

---------------------------------------------------------------------------
(* The steps.                                                              *)

LEMMA FramerInitInv == FramerInit => FramerInv
<1> SUFFICES ASSUME FramerInit PROVE FramerInv
  OBVIOUS
<1>1. FramerTypeOK
  BY EmptySeq DEF FramerInit, FramerTypeOK
<1>2. FramesAreSlices /\ FramesBehind
  <2>1. frames = <<>> /\ Len(frames) = 0
    BY EmptySeq DEF FramerInit
  <2>2. QED
    BY <2>1 DEF FramesAreSlices, FramesBehind
<1>3. BufferIsSuffix
  BY SubSeqEmpty DEF FramerInit, BufferIsSuffix
<1>4. QED
  BY <1>1, <1>2, <1>3 DEF FramerInv

\* What the type invariant says of one frame.
LEMMA FrameType ==
  ASSUME FramerInv, NEW i \in 1 .. Len(frames)
  PROVE  /\ frames[i].offset \in Nat /\ frames[i].raw \in Seq(Bytes)
         /\ Len(frames[i].raw) \in Nat
<1>1. frames[i] \in StreamedFrame
  BY ElementOfSeq DEF FramerInv, FramerTypeOK
<1>2. frames[i].offset \in Nat /\ frames[i].raw \in Seq(Bytes)
  BY <1>1 DEF StreamedFrame
<1>3. QED
  BY <1>2, LenProperties

LEMMA FeedInv ==
  ASSUME FramerInv, NEW piece \in Chunks, Feed(piece)
  PROVE  FramerInv'
<1> USE FramerAssumption
<1>1. piece \in Seq(Bytes) /\ wire \in Seq(Bytes) /\ buffer \in Seq(Bytes)
  BY DEF FramerInv, FramerTypeOK
<1>2. /\ wire' \in Seq(Bytes) /\ buffer' \in Seq(Bytes)
      /\ Len(wire') = Len(wire) + Len(piece)
      /\ Len(buffer') = Len(buffer) + Len(piece)
      /\ Len(wire) \in Nat /\ Len(buffer) \in Nat /\ Len(piece) \in Nat
  BY <1>1, ConcatProperties, LenProperties DEF Feed
<1>3. byteOffset \in Nat /\ byteOffset <= Len(wire)
  BY <1>2 DEF FramerInv, FramerTypeOK, BufferIsSuffix
<1>4. FramerTypeOK'
  BY <1>2 DEF Feed, FramerInv, FramerTypeOK
<1>5. BufferIsSuffix'
  <2>1. buffer' = SubSeq(wire', byteOffset' + 1, Len(wire) + Len(piece))
    <3>1. SubSeq(wire \o piece, byteOffset + 1, Len(wire) + Len(piece))
            = SubSeq(wire, byteOffset + 1, Len(wire)) \o piece
      BY <1>1, <1>3, SuffixOfLonger
    <3>2. /\ wire' = wire \o piece /\ buffer' = buffer \o piece
          /\ byteOffset' = byteOffset
      BY DEF Feed
    <3>3. buffer = SubSeq(wire, byteOffset + 1, Len(wire))
      BY DEF FramerInv, BufferIsSuffix
    <3>4. QED
      BY <3>1, <3>2, <3>3, Zenon
  <2>2. byteOffset' + Len(buffer') = Len(wire')
    <3>1. byteOffset' = byteOffset
      BY DEF Feed
    <3>2. byteOffset + Len(buffer) = Len(wire)
      BY DEF FramerInv, BufferIsSuffix
    <3> DEFINE m == Len(buffer')
               l == Len(wire')
    <3>3. m = Len(buffer) + Len(piece) /\ l = Len(wire) + Len(piece)
      BY <1>2
    <3> HIDE DEF m, l
    <3>4. byteOffset + m = l
      BY <1>2, <1>3, <3>2, <3>3
    <3>5. QED
      BY <3>1, <3>4 DEF m, l
  <2>3. QED
    BY <1>2, <2>1, <2>2 DEF BufferIsSuffix
<1>6. FramesAreSlices'
  <2>1. ASSUME NEW i \in 1 .. Len(frames)
        PROVE  frames[i].raw = SubSeq(wire', frames[i].offset + 1,
                                      frames[i].offset + Len(frames[i].raw))
    <3>1. /\ frames[i].offset \in Nat /\ frames[i].raw \in Seq(Bytes)
          /\ Len(frames[i].raw) \in Nat
      BY FrameType
    <3>2. frames[i].offset + Len(frames[i].raw) <= Len(wire)
      BY <1>2, <1>3, <3>1 DEF FramerInv, FramesBehind, FrameSize
    <3> DEFINE k == frames[i].offset
               n == Len(frames[i].raw)
    <3>3. k \in Nat /\ n \in Nat /\ k + n <= Len(wire)
      BY <3>1, <3>2
    <3> HIDE DEF k, n
    <3>4. SubSeq(wire \o piece, k + 1, k + n) = SubSeq(wire, k + 1, k + n)
      BY <1>1, <3>3, SliceOfLonger
    <3>5. QED
      BY <3>4 DEF Feed, FramerInv, FramesAreSlices, k, n
  <2>2. frames' = frames /\ byteOffset' = byteOffset
    BY DEF Feed
  <2>3. QED
    BY <2>1, <2>2 DEF FramerInv, FramesAreSlices
<1>7. FramesBehind'
  BY DEF Feed, FramerInv, FramesBehind, FrameSize
<1>8. QED
  BY <1>4, <1>5, <1>6, <1>7 DEF FramerInv

LEMMA SkipInv ==
  ASSUME FramerInv, buffer # <<>>, SkipByte
  PROVE  FramerInv'
<1>1. /\ wire \in Seq(Bytes) /\ buffer \in Seq(Bytes)
      /\ byteOffset \in Nat /\ Len(wire) \in Nat /\ Len(buffer) \in Nat \ {0}
      /\ byteOffset + Len(buffer) = Len(wire)
  BY EmptySeq, LenProperties DEF FramerInv, FramerTypeOK, BufferIsSuffix
<1>2. /\ buffer' = SubSeq(buffer, 2, Len(buffer))
      /\ buffer' \in Seq(Bytes) /\ Len(buffer') = Len(buffer) - 1
  BY <1>1, HeadTailProperties, TailIsSubSeq DEF SkipByte
<1>3. buffer' = SubSeq(wire, byteOffset + 1 + 1, Len(wire))
  <2>1. byteOffset + 1 <= Len(wire) /\ 1 \in Nat
    BY <1>1
  <2>2. buffer = SubSeq(wire, byteOffset + 1, Len(wire))
    BY DEF FramerInv, BufferIsSuffix
  <2> DEFINE n == 1
  <2>3. SubSeq(buffer, n + 1, Len(buffer))
          = SubSeq(wire, byteOffset + n + 1, Len(wire))
    <3>1. n \in Nat /\ byteOffset + n <= Len(wire)
      BY <2>1
    <3> HIDE DEF n
    <3>2. QED
      BY <1>1, <2>2, <3>1, SuffixOfSuffix
  <2>4. 1 + 1 = 2
    OBVIOUS
  <2>5. QED
    BY <1>2, <2>3, <2>4
<1>4. FramerTypeOK'
  BY <1>1, <1>2 DEF SkipByte, FramerInv, FramerTypeOK
<1>5. BufferIsSuffix'
  <2>1. wire' = wire /\ byteOffset' = byteOffset + 1
    BY DEF SkipByte
  <2>2. byteOffset' + Len(buffer') = Len(wire')
    <3> DEFINE m == Len(buffer')
    <3>1. m = Len(buffer) - 1
      BY <1>2
    <3> HIDE DEF m
    <3>2. byteOffset + 1 + m = Len(wire)
      BY <1>1, <3>1
    <3>3. QED
      BY <2>1, <3>2 DEF m
  <2>3. QED
    BY <1>3, <2>1, <2>2 DEF BufferIsSuffix
<1>6. FramesBehind' /\ FramesAreSlices'
  <2>1. \A i \in 1 .. Len(frames) :
          frames[i].offset \in Nat /\ Len(frames[i].raw) \in Nat
    BY FrameType
  <2>2. FramesBehind'
    BY <1>1, <2>1 DEF SkipByte, FramerInv, FramesBehind, FrameSize
  <2>3. FramesAreSlices'
    <3>1. UNCHANGED <<wire, frames>> /\ byteOffset' = byteOffset + 1
      BY DEF SkipByte
    <3>2. QED
      BY <1>1, <2>1, <3>1 DEF FramerInv, FramesAreSlices
  <2>4. QED
    BY <2>2, <2>3
<1>7. QED
  BY <1>4, <1>5, <1>6 DEF FramerInv

\* A complete header holds a length.
LEMMA LengthType ==
  ASSUME FramerInv, HasHeader
  PROVE  Length \in Nat /\ Need \in Nat \ {0}
<1> USE FramerAssumption
<1> DEFINE h == SubSeq(buffer, 1, HEADER_LENGTH)
<1>1. /\ buffer \in Seq(Bytes) /\ Len(buffer) \in Nat
      /\ HEADER_LENGTH <= Len(buffer)
  BY LenProperties DEF FramerInv, FramerTypeOK, HasHeader
<1>2. \A i \in 1 .. HEADER_LENGTH : buffer[i] \in Bytes
  <2>1. \A i \in 1 .. Len(buffer) : buffer[i] \in Bytes
    BY <1>1, ElementOfSeq
  <2>2. QED
    BY <1>1, <2>1
<1>3. h \in Seq(Bytes) /\ Len(h) = HEADER_LENGTH
  BY <1>2, SubSeqProperties
<1> HIDE DEF h
<1>4. h \in [1 .. HEADER_LENGTH -> Bytes]
  BY <1>3, LenProperties
<1>5. Length \in Nat
  BY <1>4 DEF Length, h
<1>6. QED
  BY <1>5 DEF Need

LEMMA EmitInv ==
  ASSUME FramerInv, Emit
  PROVE  FramerInv'
<1> DEFINE n == Need
           raw == SubSeq(buffer, 1, n)
           g == FrameOf(raw)
<1>1. /\ wire \in Seq(Bytes) /\ byteOffset \in Nat /\ Len(wire) \in Nat
      /\ Len(buffer) \in Nat /\ frames \in Seq(StreamedFrame)
      /\ byteOffset + Len(buffer) = Len(wire)
      /\ buffer = SubSeq(wire, byteOffset + 1, Len(wire))
  BY LenProperties DEF FramerInv, FramerTypeOK, BufferIsSuffix
<1>2. n \in Nat /\ n <= Len(buffer)
  BY LengthType DEF Emit
<1>3. /\ wire' = wire /\ byteOffset' = byteOffset + n
      /\ buffer' = SubSeq(buffer, n + 1, Len(buffer))
      /\ frames' = Append(frames, g)
  BY DEF Emit
<1>4. /\ strayBytes' = strayBytes + skipped /\ skipped' = 0
      /\ UNCHANGED <<pendingStray, feeding>>
  BY DEF Emit
<1> HIDE DEF n
<1>5. byteOffset + n <= Len(wire)
  BY <1>1, <1>2
<1>6. /\ buffer' = SubSeq(wire, byteOffset + n + 1, Len(wire))
      /\ buffer' \in Seq(Bytes)
      /\ Len(buffer') = Len(wire) - byteOffset - n
      /\ raw = SubSeq(wire, byteOffset + 1, byteOffset + n)
      /\ raw \in Seq(Bytes) /\ Len(raw) = n
  <2>1. /\ SubSeq(buffer, n + 1, Len(buffer))
             = SubSeq(wire, byteOffset + n + 1, Len(wire))
        /\ SubSeq(buffer, n + 1, Len(buffer)) \in Seq(Bytes)
        /\ Len(SubSeq(buffer, n + 1, Len(buffer))) = Len(wire) - byteOffset - n
        /\ SubSeq(buffer, 1, n) = SubSeq(wire, byteOffset + 1, byteOffset + n)
        /\ SubSeq(buffer, 1, n) \in Seq(Bytes)
        /\ Len(SubSeq(buffer, 1, n)) = n
    <3> HIDE <1>3
    <3>1. buffer = SubSeq(wire, byteOffset + 1, Len(wire))
      BY <1>1
    <3>2. QED
      BY <1>1, <1>2, <1>5, <3>1, SuffixOfSuffix
  <2>2. QED
    BY <1>3, <2>1, Zenon
<1>7. g \in StreamedFrame /\ g.offset = byteOffset /\ g.raw = raw
  <2>1. raw \in Seq(Bytes) /\ byteOffset \in Nat
    BY <1>1, <1>6
  <2> HIDE DEF raw
  <2>2. QED
    BY <2>1 DEF FrameOf, StreamedFrame
<1> HIDE DEF g
<1>8. /\ frames' \in Seq(StreamedFrame)
      /\ Len(frames') = Len(frames) + 1 /\ Len(frames) \in Nat
      /\ \A i \in 1 .. Len(frames) : frames'[i] = frames[i]
      /\ frames'[Len(frames) + 1] = g
  BY <1>1, <1>3, <1>7, AppendProperties, LenProperties
<1>9. FramerTypeOK'
  <2>1. byteOffset' \in Nat /\ strayBytes' \in Nat /\ skipped' \in Nat
    BY <1>1, <1>2, <1>3, <1>4 DEF FramerInv, FramerTypeOK
  <2>2. pendingStray' \in Nat /\ feeding' \in BOOLEAN
    BY <1>4 DEF FramerInv, FramerTypeOK
  <2>3. wire' \in Seq(Bytes)
    BY <1>1, <1>3
  <2>4. QED
    BY <1>6, <1>8, <2>1, <2>2, <2>3 DEF FramerTypeOK
<1>10. BufferIsSuffix'
  <2>1. byteOffset' + Len(buffer') = Len(wire')
    <3> DEFINE m == Len(buffer')
    <3>1. m = Len(wire) - byteOffset - n
      BY <1>6
    <3> HIDE DEF m
    <3>2. byteOffset + n + m = Len(wire)
      BY <1>1, <1>2, <3>1
    <3>3. QED
      BY <1>3, <3>2 DEF m
  <2>2. QED
    BY <1>3, <1>6, <2>1 DEF BufferIsSuffix
<1>11. FramesBehind'
  <2>1. ASSUME NEW i \in 1 .. Len(frames)
        PROVE  frames[i].offset + FrameSize(frames[i]) <= byteOffset + n
    BY <1>1, <1>2, FrameType DEF FramerInv, FramesBehind, FrameSize
  <2>2. g.offset + FrameSize(g) = byteOffset + n
    BY <1>6, <1>7 DEF FrameSize
  <2>3. ASSUME NEW i \in 1 .. Len(frames) + 1
        PROVE  frames'[i].offset + FrameSize(frames'[i]) <= byteOffset + n
    <3>1. CASE i = Len(frames) + 1
      BY <1>1, <1>2, <1>8, <2>2, <3>1
    <3>2. CASE i # Len(frames) + 1
      <4>1. i \in 1 .. Len(frames)
        BY <1>8, <3>2
      <4>2. QED
        BY <1>8, <2>1, <4>1
    <3>3. QED
      BY <3>1, <3>2
  <2>4. QED
    BY <1>3, <1>8, <2>3 DEF FramesBehind, FrameSize
<1>12. FramesAreSlices'
  <2> DEFINE l == Len(frames)
             Limit(i) == IF i < l + 1 THEN frames'[i + 1].offset ELSE byteOffset'
  <2>1. ASSUME NEW i \in 1 .. l + 1
        PROVE  /\ frames'[i].offset + Len(frames'[i].raw) <= Limit(i)
               /\ frames'[i].raw =
                    SubSeq(wire', frames'[i].offset + 1,
                           frames'[i].offset + Len(frames'[i].raw))
    <3>1. CASE i = l + 1
      <4>1. frames'[i] = g /\ Limit(i) = byteOffset + n
        BY <1>3, <1>8, <3>1
      <4>2. g.offset + Len(g.raw) = byteOffset + n
        BY <1>6, <1>7
      <4>3. g.raw = SubSeq(wire, g.offset + 1, g.offset + Len(g.raw))
        <5>1. g.raw = SubSeq(wire, byteOffset + 1, byteOffset + n)
          BY <1>6, <1>7
        <5>2. g.offset = byteOffset
          BY <1>7
        <5> HIDE <1>6, <1>7
        <5>3. QED
          BY <4>2, <5>1, <5>2
      <4>4. g.offset + Len(g.raw) <= byteOffset + n
        BY <1>1, <1>2, <4>2
      <4> HIDE DEF Limit
      <4>5. QED
        BY <1>3, <4>1, <4>3, <4>4
    <3>2. CASE i # l + 1
      <4>1. i \in 1 .. l /\ frames'[i] = frames[i]
        BY <1>8, <3>2
      <4>2. /\ frames[i].offset + Len(frames[i].raw) <=
                 (IF i < l THEN frames[i + 1].offset ELSE byteOffset)
            /\ frames[i].raw = SubSeq(wire, frames[i].offset + 1,
                                 frames[i].offset + Len(frames[i].raw))
        BY <4>1 DEF FramerInv, FramesAreSlices
      <4>3. Limit(i) = IF i < l THEN frames[i + 1].offset ELSE byteOffset
        <5>1. CASE i < l
          <6>1. i + 1 \in 1 .. l /\ i < l + 1
            BY <1>8, <4>1, <5>1
          <6>2. QED
            BY <1>8, <5>1, <6>1
        <5>2. CASE ~(i < l)
          <6>1. i = l /\ i < l + 1
            BY <1>8, <4>1, <5>2
          <6>2. Limit(i) = g.offset
            BY <1>8, <6>1
          <6>3. QED
            BY <1>7, <5>2, <6>2
        <5>3. QED
          BY <5>1, <5>2
      <4> HIDE DEF Limit
      <4>4. QED
        BY <1>3, <4>1, <4>2, <4>3
    <3>3. QED
      BY <3>1, <3>2
  <2>2. QED
    BY <1>8, <2>1 DEF FramesAreSlices
<1>13. QED
  BY <1>9, <1>10, <1>11, <1>12 DEF FramerInv

\* Returning from feed() moves no byte.
LEMMA WaitInv ==
  ASSUME FramerInv, WaitHeader \/ WaitBody
  PROVE  FramerInv'
<1>1. UNCHANGED <<wire, buffer, byteOffset, skipped, frames>>
  BY DEF WaitHeader, WaitBody
<1>2. feeding' \in BOOLEAN /\ pendingStray' \in Nat /\ strayBytes' \in Nat
  <2>1. skipped \in Nat /\ strayBytes \in Nat /\ pendingStray \in Nat
    BY DEF FramerInv, FramerTypeOK
  <2>2. feeding' = FALSE /\ strayBytes' = strayBytes + skipped
    BY DEF WaitHeader, WaitBody, Return
  <2>3. pendingStray' = pendingStray \/ pendingStray' = skipped
    BY DEF WaitHeader, WaitBody
  <2>4. feeding' \in BOOLEAN
    BY <2>2, Zenon
  <2>5. pendingStray' \in Nat
    BY <2>1, <2>3
  <2>6. strayBytes' \in Nat
    BY <2>1, <2>2
  <2>7. QED
    BY <2>4, <2>5, <2>6, Zenon
<1>3. FramerTypeOK'
  BY <1>1, <1>2 DEF FramerInv, FramerTypeOK
<1>4. BufferIsSuffix' /\ FramesAreSlices' /\ FramesBehind'
  BY <1>1 DEF FramerInv, BufferIsSuffix, FramesAreSlices, FramesBehind, FrameSize
<1>5. QED
  BY <1>3, <1>4 DEF FramerInv

LEMMA FramerStepInv == FramerInv /\ [FramerNext]_framerVars => FramerInv'
<1> SUFFICES ASSUME FramerInv, [FramerNext]_framerVars PROVE FramerInv'
  OBVIOUS
<1>1. ASSUME NEW piece \in Chunks, Feed(piece) PROVE FramerInv'
  BY <1>1, FeedInv
<1>2. CASE SkipStray \/ SkipOversized
  BY <1>2, SkipInv DEF SkipStray, SkipOversized, AtPreamble
<1>3. CASE Emit
  BY <1>3, EmitInv
<1>4. CASE WaitHeader \/ WaitBody
  BY <1>4, WaitInv
<1>5. CASE UNCHANGED framerVars
  BY <1>5 DEF framerVars, FramerInv, FramerTypeOK, BufferIsSuffix, FramesAreSlices,
              FramesBehind, FrameSize
<1>6. QED
  BY <1>1, <1>2, <1>3, <1>4, <1>5 DEF FramerNext

LEMMA FramerInvariant == FramerSpec => []FramerInv
<1>1. QED
  BY FramerInitInv, FramerStepInv, PTL DEF FramerSpec

---------------------------------------------------------------------------
(* The theorems.                                                           *)

\* The framer's variables keep their types whatever arrives.
THEOREM FramerTypeCorrect == FramerSpec => []FramerTypeOK
<1>1. FramerInv => FramerTypeOK
  BY DEF FramerInv
<1>2. QED
  BY <1>1, FramerInvariant, PTL

\* StreamingFramer loses and invents no byte: its buffer is the unconsumed
\* suffix of what the connection delivered.
THEOREM SuffixCorrect == FramerSpec => []BufferIsSuffix
<1>1. FramerInv => BufferIsSuffix
  BY DEF FramerInv
<1>2. QED
  BY <1>1, FramerInvariant, PTL

\* Every frame the framer returns is the slice of the wire at its byte
\* offset, and no byte belongs to two frames.
THEOREM SlicesCorrect == FramerSpec => []FramesAreSlices
<1>1. FramerInv => FramesAreSlices
  BY DEF FramerInv
<1>2. QED
  BY <1>1, FramerInvariant, PTL

\* Whatever arrives in whatever chunks, less than one maximal frame waits
\* in the buffer between two feeds.
THEOREM MemoryBounded == FramerSpec => []PendingBounded
<1> USE FramerAssumption
<1>1. FramerInit => PendingBounded
  <2>1. FramerInit => Len(buffer) = 0
    BY EmptySeq DEF FramerInit
  <2>2. QED
    BY <2>1 DEF PendingBounded
<1>2. FramerInv /\ PendingBounded /\ [FramerNext]_framerVars => PendingBounded'
  <2> SUFFICES ASSUME FramerInv, PendingBounded, [FramerNext]_framerVars PROVE PendingBounded'
    OBVIOUS
  <2>1. ASSUME NEW piece \in Chunks, Feed(piece) PROVE PendingBounded'
    BY <2>1 DEF Feed, PendingBounded
  <2>2. CASE SkipStray \/ SkipOversized \/ Emit
    BY <2>2 DEF SkipStray, SkipOversized, SkipByte, Emit, PendingBounded
  <2>3. CASE WaitHeader
    <3>1. buffer' = buffer
      BY <2>3 DEF WaitHeader
    <3>2. Len(buffer) < HEADER_LENGTH
      BY <2>3, EmptySeq, LenProperties DEF WaitHeader, HasHeader, FramerInv, FramerTypeOK
    <3>3. Len(buffer) \in Nat
      BY LenProperties DEF FramerInv, FramerTypeOK
    <3>4. QED
      BY <3>1, <3>2, <3>3 DEF PendingBounded
  <2>4. CASE WaitBody
    <3>1. buffer' = buffer /\ Len(buffer) < Need /\ ~(Length > MaxFrameLength)
      BY <2>4 DEF WaitBody, Oversized
    <3>2. Length \in Nat
      BY <2>4, LengthType DEF WaitBody
    <3>3. Len(buffer) \in Nat
      BY LenProperties DEF FramerInv, FramerTypeOK
    <3>4. QED
      BY <3>1, <3>2, <3>3 DEF Need, PendingBounded
  <2>5. CASE UNCHANGED framerVars
    BY <2>5 DEF framerVars, PendingBounded
  <2>6. QED
    BY <2>1, <2>2, <2>3, <2>4, <2>5 DEF FramerNext
<1>3. QED
  BY <1>1, <1>2, FramerInvariant, PTL DEF FramerSpec

---------------------------------------------------------------------------
(* The batch parser, one position at a time.  Its recursive function       *)
(* exists, because what it makes of a position depends on later ones only. *)

\* What holds of a position when it holds of all later ones holds everywhere.
LEMMA FromTheEnd ==
  ASSUME NEW n \in Nat, NEW S,
         \A k \in 1 .. n : (\A q \in k + 1 .. n : q \in S) => k \in S
  PROVE  \A k \in 1 .. n : k \in S
<1> DEFINE N == {m \in Nat : m < n /\ n - m \notin S}
<1> SUFFICES ASSUME NEW k \in 1 .. n, k \notin S PROVE FALSE
  OBVIOUS
<1>1. n - k \in N /\ N \subseteq Nat
  <2>1. n - k \in Nat /\ n - k < n /\ n - (n - k) = k
    OBVIOUS
  <2>2. QED
    BY <2>1
<1>2. PICK m \in N : \A j \in N : m <= j
  <2> HIDE DEF N
  <2>1. QED
    BY <1>1, LeastNat
<1>3. m \in Nat /\ m < n /\ n - m \notin S
  BY <1>2
<1>4. ASSUME NEW q \in n - m + 1 .. n
      PROVE  q \in S
  <2>1. n - q \in Nat /\ n - q < m /\ n - (n - q) = q
    BY <1>3
  <2>2. n - q \notin N
    BY <1>2, <1>3, <2>1
  <2>3. QED
    BY <1>3, <2>1, <2>2
<1>5. QED
  BY <1>3, <1>4

LEMMA HeaderLength ==
  ASSUME NEW w \in Seq(Bytes), NEW p \in Nat \ {0}, HeaderWithin(w, p)
  PROVE  /\ PayloadLength[HeaderAt(w, p)] \in Nat
         /\ FrameEnd(w, p) \in Nat /\ FrameEnd(w, p) > p
<1>1. HEADER_LENGTH \in Nat \ {0} /\ CRC_LENGTH \in Nat
  BY FramerAssumption
<1>2. Len(w) \in Nat /\ \A i \in 1 .. Len(w) : w[i] \in Bytes
  BY LenProperties, ElementOfSeq
<1>3. \A i \in p .. p + HEADER_LENGTH - 1 : w[i] \in Bytes
  BY <1>1, <1>2 DEF HeaderWithin
<1>4. /\ HeaderAt(w, p) \in Seq(Bytes)
      /\ Len(HeaderAt(w, p)) = HEADER_LENGTH
  <2>1. /\ HeaderAt(w, p) \in Seq(Bytes)
        /\ Len(HeaderAt(w, p)) = IF p <= p + HEADER_LENGTH - 1
                                 THEN p + HEADER_LENGTH - 1 - p + 1 ELSE 0
    BY <1>1, <1>3, SubSeqProperties DEF HeaderAt
  <2>2. QED
    BY <1>1, <2>1
<1>5. HeaderAt(w, p) \in [1 .. HEADER_LENGTH -> Bytes]
  BY <1>4, LenProperties
<1>6. PayloadLength[HeaderAt(w, p)] \in Nat
  BY <1>5, FramerAssumption
<1>7. QED
  BY <1>1, <1>6 DEF FrameEnd

LEMMA ParsedFrameType ==
  ASSUME NEW w \in Seq(Bytes), NEW p \in Nat \ {0}, FrameWithin(w, p)
  PROVE  ParsedFrame(w, p) \in StreamedFrame
<1> DEFINE raw == SubSeq(w, p, FrameEnd(w, p) - 1)
<1>1. FrameEnd(w, p) \in Nat /\ FrameEnd(w, p) > p
  BY HeaderLength DEF FrameWithin
<1>2. Len(w) \in Nat /\ \A i \in 1 .. Len(w) : w[i] \in Bytes
  BY LenProperties, ElementOfSeq
<1>3. \A i \in p .. FrameEnd(w, p) - 1 : w[i] \in Bytes
  BY <1>1, <1>2 DEF FrameWithin
<1>4. raw \in Seq(Bytes)
  BY <1>1, <1>3, SubSeqProperties
<1>5. p - 1 \in Nat /\ (raw \in CrcValid) \in BOOLEAN
  OBVIOUS
<1> HIDE DEF raw
<1>6. [offset |-> p - 1, raw |-> raw, ok |-> raw \in CrcValid] \in StreamedFrame
  BY <1>4, <1>5 DEF StreamedFrame
<1>7. QED
  BY <1>6 DEF ParsedFrame, raw

LEMMA LaterOnly ==
  ASSUME NEW w \in Seq(Bytes), NEW f, NEW g, NEW p \in 1 .. Len(w) + 1,
         \A q \in p + 1 .. Len(w) + 1 : f[q] = g[q]
  PROVE  ParseAt(w, f, p) = ParseAt(w, g, p)
<1>1. Len(w) \in Nat
  BY LenProperties
<1>2. CASE p > Len(w)
  BY <1>2 DEF ParseAt
<1>3. CASE ~(p > Len(w)) /\ StrayAt(w, p)
  <2>1. f[p + 1] = g[p + 1]
    BY <1>1, <1>3
  <2>2. QED
    BY <1>3, <2>1 DEF ParseAt
<1>4. CASE ~(p > Len(w)) /\ ~StrayAt(w, p) /\ FrameWithin(w, p)
  <2>1. FrameEnd(w, p) \in p + 1 .. Len(w) + 1
    BY <1>1, <1>4, HeaderLength DEF FrameWithin
  <2>2. f[FrameEnd(w, p)] = g[FrameEnd(w, p)]
    BY <2>1
  <2>3. QED
    BY <1>4, <2>2 DEF ParseAt
<1>5. CASE ~(p > Len(w)) /\ ~StrayAt(w, p) /\ ~FrameWithin(w, p)
  BY <1>5 DEF ParseAt
<1>6. QED
  BY <1>2, <1>3, <1>4, <1>5

LEMMA Parsable ==
  ASSUME NEW w \in Seq(Bytes)
  PROVE  \E f : f = [p \in 1 .. Len(w) + 1 |-> ParseAt(w, f, p)]
<1> DEFINE n == Len(w) + 1
           T == {k \in 1 .. n : \E f : f = [p \in k .. n |-> ParseAt(w, f, p)]}
<1>1. Len(w) \in Nat /\ n \in Nat /\ 1 \in 1 .. n
  BY LenProperties
<1>2. ASSUME NEW k \in 1 .. n, \A q \in k + 1 .. n : q \in T
      PROVE  k \in T
  <2>1. \E g : \A q \in k + 1 .. n : g[q] = ParseAt(w, g, q)
    <3>1. CASE k = n
      BY <1>1, <3>1
    <3>2. CASE k # n
      <4>1. k + 1 \in k + 1 .. n
        BY <1>1, <3>2
      <4>2. PICK g : g = [p \in k + 1 .. n |-> ParseAt(w, g, p)]
        BY <1>2, <4>1
      <4>3. \A q \in k + 1 .. n : g[q] = ParseAt(w, g, q)
        <5> DEFINE H == [p \in k + 1 .. n |-> ParseAt(w, g, p)]
        <5>1. \A q \in k + 1 .. n : H[q] = ParseAt(w, g, q)
          OBVIOUS
        <5>2. g = H
          BY <4>2
        <5> HIDE DEF H
        <5>3. QED
          BY <5>1, <5>2, Zenon
      <4>4. QED
        BY <4>3
    <3>3. QED
      BY <3>1, <3>2
  <2>2. PICK g : \A q \in k + 1 .. n : g[q] = ParseAt(w, g, q)
    BY <2>1
  <2> DEFINE f == [p \in k .. n |-> IF p = k THEN ParseAt(w, g, k) ELSE g[p]]
  <2>3. /\ f[k] = ParseAt(w, g, k)
        /\ \A q \in k + 1 .. n : f[q] = g[q]
    BY <1>1
  <2>4. f = [p \in k .. n |-> f[p]]
    OBVIOUS
  <2> HIDE DEF f
  <2>5. ASSUME NEW p \in k .. n
        PROVE  f[p] = ParseAt(w, f, p)
    <3>1. p \in 1 .. Len(w) + 1 /\ \A q \in p + 1 .. Len(w) + 1 : f[q] = g[q]
      BY <1>1, <2>3
    <3>2. ParseAt(w, f, p) = ParseAt(w, g, p)
      BY <3>1, LaterOnly
    <3>3. f[p] = ParseAt(w, g, p)
      BY <1>1, <2>2, <2>3
    <3>4. QED
      BY <3>2, <3>3
  <2>6. f = [p \in k .. n |-> ParseAt(w, f, p)]
    BY <2>4, <2>5
  <2>7. QED
    BY <2>6
<1>3. 1 \in T
  <2> HIDE DEF T
  <2>1. QED
    BY <1>1, <1>2, FromTheEnd
<1>4. QED
  BY <1>3

LEMMA ParseUnfolds ==
  ASSUME NEW w \in Seq(Bytes), NEW p \in 1 .. Len(w) + 1
  PROVE  ParseFrom(w)[p] = ParseAt(w, ParseFrom(w), p)
<1> DEFINE H(f) == [q \in 1 .. Len(w) + 1 |-> ParseAt(w, f, q)]
<1>1. ParseFrom(w) = CHOOSE f : f = H(f)
  BY DEF ParseFrom
<1>2. \E f : f = H(f)
  BY Parsable
<1>3. \A f : H(f)[p] = ParseAt(w, f, p)
  OBVIOUS
<1> HIDE DEF H
<1>4. ParseFrom(w) = H(ParseFrom(w))
  BY <1>1, <1>2, Zenon
<1>5. QED
  BY <1>3, <1>4, Zenon

LEMMA ParseType ==
  ASSUME NEW w \in Seq(Bytes), NEW p \in 1 .. Len(w) + 1
  PROVE  ParseFrom(w)[p] \in Seq(StreamedFrame)
<1> DEFINE from == ParseFrom(w)
           T == {k \in 1 .. Len(w) + 1 : from[k] \in Seq(StreamedFrame)}
<1>1. Len(w) \in Nat /\ <<>> \in Seq(StreamedFrame)
  BY LenProperties, EmptySeq
<1>2. \A k \in 1 .. Len(w) + 1 : from[k] = ParseAt(w, from, k)
  BY ParseUnfolds
<1> HIDE DEF from
<1>3. ASSUME NEW k \in 1 .. Len(w) + 1, \A q \in k + 1 .. Len(w) + 1 : q \in T
      PROVE  k \in T
  <2>1. \A q \in k + 1 .. Len(w) + 1 : from[q] \in Seq(StreamedFrame)
    BY <1>3
  <2>2. CASE k > Len(w)
    BY <1>1, <1>2, <2>2 DEF ParseAt
  <2>3. CASE ~(k > Len(w)) /\ StrayAt(w, k)
    <3>1. k + 1 \in k + 1 .. Len(w) + 1
      BY <1>1, <2>3
    <3>2. from[k] = from[k + 1]
      BY <1>2, <2>3 DEF ParseAt
    <3>3. QED
      BY <2>1, <3>1, <3>2
  <2>4. CASE ~(k > Len(w)) /\ ~StrayAt(w, k) /\ FrameWithin(w, k)
    <3>1. FrameEnd(w, k) \in k + 1 .. Len(w) + 1
      BY <1>1, <2>4, HeaderLength DEF FrameWithin
    <3>2. ParsedFrame(w, k) \in StreamedFrame
      BY <2>4, ParsedFrameType
    <3>3. <<ParsedFrame(w, k)>> \in Seq(StreamedFrame)
      BY <3>2
    <3>4. from[k] = <<ParsedFrame(w, k)>> \o from[FrameEnd(w, k)]
      BY <1>2, <2>4 DEF ParseAt
    <3>5. from[k] \in Seq(StreamedFrame)
      BY <2>1, <3>1, <3>3, <3>4, ConcatProperties
    <3>6. QED
      BY <3>5
  <2>5. CASE ~(k > Len(w)) /\ ~StrayAt(w, k) /\ ~FrameWithin(w, k)
    BY <1>1, <1>2, <2>5 DEF ParseAt
  <2>6. QED
    BY <2>2, <2>3, <2>4, <2>5
<1>4. p \in T
  <2>1. Len(w) + 1 \in Nat
    BY <1>1
  <2> HIDE DEF T
  <2>2. QED
    BY <1>3, <2>1, FromTheEnd
<1>5. QED
  BY <1>4 DEF from

---------------------------------------------------------------------------
(* The framer against the batch parser.                                    *)

\* Whatever arrives after this, the batch parser will find the frames found so
\* far and then go on where the framer is.
ParsedInv ==
  \A c \in Seq(Bytes) :
    BatchFrames(wire \o c) = frames \o ParseFrom(wire \o c)[byteOffset + 1]

\* Between two feeds nothing in the buffer can be told yet.
UndecidedInv ==
  \/ feeding \/ buffer = <<>> \/ (AtPreamble /\ ~HasHeader)
  \/ (AtPreamble /\ HasHeader /\ ~Oversized /\ Len(buffer) < Need)

\* The next bytes of the wire, whatever follows, are those of the buffer.
LEMMA BufferAhead ==
  ASSUME FramerInv, NEW c \in Seq(Bytes), NEW n \in Nat, n <= Len(buffer)
  PROVE  SubSeq(wire \o c, byteOffset + 1, byteOffset + n) = SubSeq(buffer, 1, n)
<1>1. /\ wire \in Seq(Bytes) /\ byteOffset \in Nat /\ Len(wire) \in Nat
      /\ Len(buffer) \in Nat /\ byteOffset + Len(buffer) = Len(wire)
      /\ buffer = SubSeq(wire, byteOffset + 1, Len(wire))
  BY LenProperties DEF FramerInv, FramerTypeOK, BufferIsSuffix
<1>2. byteOffset + n <= Len(wire)
  BY <1>1
<1>3. SubSeq(buffer, 1, n) = SubSeq(wire, byteOffset + 1, byteOffset + n)
  BY <1>1, <1>2, SuffixOfSuffix
<1>4. QED
  BY <1>1, <1>2, <1>3, SliceOfLonger

LEMMA FirstAhead ==
  ASSUME FramerInv, NEW c \in Seq(Bytes), buffer # <<>>
  PROVE  (wire \o c)[byteOffset + 1] = buffer[1]
<1>1. /\ wire \in Seq(Bytes) /\ byteOffset \in Nat /\ Len(wire) \in Nat
      /\ buffer \in Seq(Bytes) /\ Len(buffer) \in Nat
      /\ byteOffset + Len(buffer) = Len(wire)
      /\ buffer = SubSeq(wire, byteOffset + 1, Len(wire))
  BY LenProperties DEF FramerInv, FramerTypeOK, BufferIsSuffix
<1>2. Len(buffer) \in Nat \ {0}
  BY <1>1, EmptySeq
<1>3. \A i \in byteOffset + 1 .. Len(wire) : wire[i] \in Bytes
  BY <1>1, ElementOfSeq
<1>4. \A i \in 1 .. Len(wire) - (byteOffset + 1) + 1 :
        SubSeq(wire, byteOffset + 1, Len(wire))[i] = wire[byteOffset + 1 + i - 1]
  BY <1>1, <1>3, SubSeqProperties
<1>5. 1 \in 1 .. Len(wire) - (byteOffset + 1) + 1 /\ byteOffset + 1 + 1 - 1 = byteOffset + 1
  BY <1>1, <1>2
<1>6. buffer[1] = wire[byteOffset + 1]
  BY <1>1, <1>4, <1>5
<1>7. byteOffset + 1 \in 1 .. Len(wire)
  BY <1>1, <1>2
<1>8. (wire \o c)[byteOffset + 1] = wire[byteOffset + 1]
  BY <1>1, <1>7, ConcatProperties, LenProperties
<1>9. QED
  BY <1>6, <1>8

\* So the framer and the batch parser see the same header at the same place.
LEMMA HeaderAhead ==
  ASSUME FramerInv, NEW c \in Seq(Bytes), HasHeader
  PROVE  /\ HeaderAt(wire \o c, byteOffset + 1) = SubSeq(buffer, 1, HEADER_LENGTH)
         /\ TooLong(wire \o c, byteOffset + 1) <=> Oversized
         /\ FrameEnd(wire \o c, byteOffset + 1) = byteOffset + 1 + Need
<1>1. HEADER_LENGTH \in Nat /\ CRC_LENGTH \in Nat /\ byteOffset \in Nat
  BY FramerAssumption DEF FramerInv, FramerTypeOK
<1>2. byteOffset + 1 + HEADER_LENGTH - 1 = byteOffset + HEADER_LENGTH
  BY <1>1
<1>3. HeaderAt(wire \o c, byteOffset + 1) = SubSeq(buffer, 1, HEADER_LENGTH)
  BY <1>1, <1>2, BufferAhead DEF HeaderAt, HasHeader
<1>4. PayloadLength[HeaderAt(wire \o c, byteOffset + 1)] = Length
  BY <1>3 DEF Length
<1>5. Length \in Nat
  BY LengthType
<1>6. FrameEnd(wire \o c, byteOffset + 1) = byteOffset + 1 + Need
  BY <1>1, <1>4, <1>5 DEF FrameEnd, Need
<1>7. QED
  BY <1>3, <1>4, <1>6 DEF TooLong, Oversized

LEMMA Lengths ==
  ASSUME FramerInv, NEW c \in Seq(Bytes)
  PROVE  /\ wire \o c \in Seq(Bytes) /\ byteOffset \in Nat
         /\ Len(wire \o c) \in Nat /\ Len(buffer) \in Nat
         /\ byteOffset + Len(buffer) = Len(wire)
         /\ Len(wire \o c) >= Len(wire)
         /\ (buffer = <<>> => Len(buffer) = 0) /\ (Len(buffer) = 0 => buffer = <<>>)
<1>1. /\ wire \in Seq(Bytes) /\ byteOffset \in Nat /\ Len(wire) \in Nat
      /\ buffer \in Seq(Bytes) /\ Len(buffer) \in Nat
      /\ byteOffset + Len(buffer) = Len(wire)
  BY LenProperties DEF FramerInv, FramerTypeOK, BufferIsSuffix
<1>2. wire \o c \in Seq(Bytes) /\ Len(wire \o c) = Len(wire) + Len(c) /\ Len(c) \in Nat
  BY <1>1, ConcatProperties, LenProperties
<1>3. (buffer = <<>> => Len(buffer) = 0) /\ (Len(buffer) = 0 => buffer = <<>>)
  BY <1>1, EmptySeq
<1>4. QED
  BY <1>1, <1>2, <1>3

LEMMA FeedParsed ==
  ASSUME FramerInv, ParsedInv, NEW piece \in Chunks, Feed(piece)
  PROVE  ParsedInv'
<1>1. /\ wire' = wire \o piece /\ frames' = frames /\ byteOffset' = byteOffset
      /\ wire \in Seq(Bytes) /\ piece \in Seq(Bytes)
  BY FramerAssumption DEF Feed, FramerInv, FramerTypeOK
<1>2. ASSUME NEW c \in Seq(Bytes)
      PROVE  BatchFrames(wire' \o c) = frames' \o ParseFrom(wire' \o c)[byteOffset' + 1]
  <2>1. piece \o c \in Seq(Bytes) /\ wire' \o c = wire \o (piece \o c)
    BY <1>1, ConcatProperties, ConcatAssociative
  <2>2. QED
    BY <1>1, <2>1 DEF ParsedInv
<1>3. QED
  BY <1>2 DEF ParsedInv

LEMMA SkipParsed ==
  ASSUME FramerInv, ParsedInv, SkipStray \/ SkipOversized
  PROVE  ParsedInv'
<1>1. wire' = wire /\ frames' = frames /\ byteOffset' = byteOffset + 1 /\ buffer # <<>>
  BY DEF SkipStray, SkipOversized, SkipByte, AtPreamble
<1>2. ASSUME NEW c \in Seq(Bytes)
      PROVE  BatchFrames(wire \o c) = frames \o ParseFrom(wire \o c)[byteOffset + 1 + 1]
  <2> DEFINE w == wire \o c
             p == byteOffset + 1
  <2>1. w \in Seq(Bytes) /\ p \in 1 .. Len(w) + 1 /\ ~(p > Len(w))
    BY <1>1, Lengths
  <2>2. w[p] = buffer[1]
    BY <1>1, FirstAhead
  <2>3. StrayAt(w, p)
    <3>1. CASE SkipStray
      BY <1>1, <2>2, <3>1 DEF SkipStray, AtPreamble, StrayAt
    <3>2. CASE SkipOversized
      <4>1. HasHeader /\ Oversized /\ buffer[1] = PREAMBLE
        BY <3>2 DEF SkipOversized, AtPreamble
      <4>2. TooLong(w, p)
        BY <4>1, HeaderAhead
      <4>3. p + HEADER_LENGTH - 1 <= Len(w)
        BY <4>1, Lengths, FramerAssumption DEF HasHeader
      <4>4. QED
        BY <2>2, <4>1, <4>2, <4>3 DEF StrayAt, HeaderWithin
    <3>3. QED
      BY <3>1, <3>2
  <2>4. ParseFrom(w)[p] = ParseAt(w, ParseFrom(w), p)
    BY <2>1, ParseUnfolds
  <2>5. ParseAt(w, ParseFrom(w), p) = ParseFrom(w)[p + 1]
    BY <2>1, <2>3 DEF ParseAt
  <2>6. QED
    BY <2>4, <2>5 DEF ParsedInv
<1>3. QED
  BY <1>1, <1>2 DEF ParsedInv

LEMMA EmitParsed ==
  ASSUME FramerInv, ParsedInv, Emit
  PROVE  ParsedInv'
<1> DEFINE raw == SubSeq(buffer, 1, Need)
<1>1. /\ wire' = wire /\ frames' = Append(frames, FrameOf(raw))
      /\ byteOffset' = byteOffset + Need
      /\ buffer # <<>> /\ buffer[1] = PREAMBLE /\ HasHeader /\ ~Oversized
      /\ Need <= Len(buffer) /\ Need \in Nat \ {0} /\ Length \in Nat
  BY LengthType, Lengths, EmptySeq DEF Emit, AtPreamble
<1>2. ASSUME NEW c \in Seq(Bytes)
      PROVE  BatchFrames(wire \o c) =
               Append(frames, FrameOf(raw)) \o ParseFrom(wire \o c)[byteOffset + Need + 1]
  <2> DEFINE w == wire \o c
             p == byteOffset + 1
             rest == ParseFrom(w)[FrameEnd(w, p)]
  <2>0. /\ w \in Seq(Bytes) /\ byteOffset \in Nat /\ Len(w) \in Nat
        /\ byteOffset + Need <= Len(w) /\ Need \in Nat \ {0}
    BY <1>1, Lengths
  <2>1. /\ w \in Seq(Bytes) /\ p \in 1 .. Len(w) + 1 /\ ~(p > Len(w)) /\ p - 1 = byteOffset
        /\ byteOffset \in Nat /\ p + Need - 1 <= Len(w)
    BY <2>0
  <2>2. w[p] = PREAMBLE
    BY <1>1, FirstAhead
  <2>3. /\ ~TooLong(w, p) /\ FrameEnd(w, p) = p + Need
        /\ FrameEnd(w, p) - 1 = byteOffset + Need /\ FrameEnd(w, p) = byteOffset + Need + 1
    <3>1. ~TooLong(w, p) /\ FrameEnd(w, p) = byteOffset + 1 + Need
      BY <1>1, HeaderAhead
    <3> QED
      BY <2>0, <3>1
  <2>4. p + HEADER_LENGTH - 1 <= Len(w)
    BY <1>1, Lengths, FramerAssumption DEF HasHeader
  <2>5. ~StrayAt(w, p) /\ FrameWithin(w, p)
    <3>1. FrameEnd(w, p) - 1 <= Len(w)
      BY <1>1, <2>1, <2>3
    <3>2. HeaderWithin(w, p)
      BY <2>2, <2>4 DEF HeaderWithin
    <3> HIDE DEF w, p
    <3>3. QED
      BY <2>2, <2>3, <3>1, <3>2, Zenon DEF StrayAt, FrameWithin
  <2>6. ParsedFrame(w, p) = FrameOf(raw)
    <3>1. SubSeq(w, p, FrameEnd(w, p) - 1) = raw
      BY <1>1, <2>3, BufferAhead
    <3>2. QED
      BY <2>1, <3>1 DEF ParsedFrame, FrameOf
  <2>7. ParseFrom(w)[p] = <<FrameOf(raw)>> \o rest
    <3>1. ParseFrom(w)[p] = ParseAt(w, ParseFrom(w), p)
      BY <2>1, ParseUnfolds
    <3>2. QED
      BY <2>1, <2>5, <2>6, <3>1 DEF ParseAt
  <2>8. /\ frames \in Seq(StreamedFrame) /\ FrameOf(raw) \in StreamedFrame
        /\ rest \in Seq(StreamedFrame)
    <3>1. FrameOf(raw) \in StreamedFrame
      <4>1. p \in Nat \ {0}
        BY <2>1
      <4>2. ParsedFrame(w, p) \in StreamedFrame
        BY <2>1, <2>5, <4>1, ParsedFrameType
      <4>3. QED
        BY <2>6, <4>2
    <3>2. FrameEnd(w, p) \in 1 .. Len(w) + 1
      BY <1>1, <2>1, <2>3
    <3>3. rest \in Seq(StreamedFrame)
      BY <2>1, <3>2, ParseType
    <3>4. QED
      BY <3>1, <3>3 DEF FramerInv, FramerTypeOK
  <2>9. frames \o (<<FrameOf(raw)>> \o rest) = Append(frames, FrameOf(raw)) \o rest
    <3> HIDE DEF raw, rest
    <3>1. /\ <<FrameOf(raw)>> \in Seq(StreamedFrame)
          /\ Append(frames, FrameOf(raw)) = frames \o <<FrameOf(raw)>>
      BY <2>8, AppendIsConcat
    <3>2. QED
      BY <2>8, <3>1, ConcatAssociative
  <2>10. BatchFrames(w) = frames \o (<<FrameOf(raw)>> \o rest)
    BY <2>7 DEF ParsedInv
  <2>11. QED
    BY <2>3, <2>9, <2>10
<1>3. QED
  BY <1>1, <1>2 DEF ParsedInv

LEMMA InitParsed == FramerInit => ParsedInv /\ UndecidedInv
<1> SUFFICES ASSUME FramerInit PROVE ParsedInv /\ UndecidedInv
  OBVIOUS
<1>1. wire = <<>> /\ frames = <<>> /\ byteOffset + 1 = 1 /\ buffer = <<>>
  BY DEF FramerInit
<1>2. ASSUME NEW c \in Seq(Bytes)
      PROVE  BatchFrames(wire \o c) = frames \o ParseFrom(wire \o c)[byteOffset + 1]
  <2>1. wire \o c = c
    BY <1>1, ConcatEmptySeq
  <2>2. 1 \in 1 .. Len(c) + 1
    BY LenProperties
  <2>3. ParseFrom(c)[1] \in Seq(StreamedFrame)
    BY <2>2, ParseType
  <2>4. frames \o ParseFrom(c)[1] = ParseFrom(c)[1]
    BY <1>1, <2>3, ConcatEmptySeq
  <2>5. QED
    BY <1>1, <2>1, <2>4 DEF BatchFrames
<1>3. QED
  BY <1>1, <1>2 DEF ParsedInv, UndecidedInv

LEMMA StepParsed ==
  FramerInv /\ ParsedInv /\ UndecidedInv /\ [FramerNext]_framerVars
    => ParsedInv' /\ UndecidedInv'
<1> SUFFICES ASSUME FramerInv, ParsedInv, UndecidedInv, [FramerNext]_framerVars
             PROVE  ParsedInv' /\ UndecidedInv'
  OBVIOUS
<1>1. ASSUME NEW piece \in Chunks, Feed(piece) PROVE ParsedInv' /\ UndecidedInv'
  <2>1. feeding'
    BY <1>1 DEF Feed
  <2>2. QED
    BY <1>1, <2>1, FeedParsed DEF UndecidedInv
<1>2. CASE SkipStray \/ SkipOversized
  <2>1. feeding'
    BY <1>2 DEF SkipStray, SkipOversized, SkipByte
  <2>2. QED
    BY <1>2, <2>1, SkipParsed DEF UndecidedInv
<1>3. CASE Emit
  <2>1. feeding'
    BY <1>3 DEF Emit
  <2>2. QED
    BY <1>3, <2>1, EmitParsed DEF UndecidedInv
<1>4. CASE WaitHeader
  BY <1>4 DEF WaitHeader, ParsedInv, UndecidedInv, AtPreamble, HasHeader
<1>5. CASE WaitBody
  BY <1>5 DEF WaitBody, ParsedInv, UndecidedInv, AtPreamble, HasHeader, Oversized,
              Length, Need
<1>6. CASE UNCHANGED framerVars
  BY <1>6 DEF framerVars, ParsedInv, UndecidedInv, AtPreamble, HasHeader, Oversized, Length,
              Need
<1>7. QED
  BY <1>1, <1>2, <1>3, <1>4, <1>5, <1>6 DEF FramerNext

LEMMA NothingMore ==
  ASSUME FramerInv, ParsedInv, UndecidedInv
  PROVE  ChunkIndependent
<1> SUFFICES ASSUME ~feeding PROVE frames = BatchFrames(wire)
  BY DEF ChunkIndependent
<1> DEFINE w == wire \o <<>>
           p == byteOffset + 1
<1>1. <<>> \in Seq(Bytes) /\ w = wire
  BY EmptySeq, ConcatEmptySeq DEF FramerInv, FramerTypeOK
<1>2. /\ w \in Seq(Bytes) /\ p \in 1 .. Len(w) + 1 /\ Len(w) \in Nat /\ byteOffset \in Nat
      /\ byteOffset + Len(buffer) = Len(w) /\ Len(buffer) \in Nat
      /\ (buffer = <<>> => Len(buffer) = 0)
  <2>1. /\ w \in Seq(Bytes) /\ byteOffset \in Nat /\ Len(w) \in Nat /\ Len(buffer) \in Nat
        /\ byteOffset + Len(buffer) = Len(wire)
        /\ (buffer = <<>> => Len(buffer) = 0)
    BY <1>1, Lengths
  <2>2. Len(w) = Len(wire)
    BY <1>1
  <2> HIDE DEF w
  <2>3. QED
    BY <2>1, <2>2
<1>3. ParseFrom(w)[p] = ParseAt(w, ParseFrom(w), p)
  BY <1>2, ParseUnfolds
<1>4. ParseAt(w, ParseFrom(w), p) = <<>>
  <2>1. CASE buffer = <<>>
    BY <1>2, <2>1 DEF ParseAt
  <2>2. CASE AtPreamble /\ ~HasHeader
    <3>1. w[p] = PREAMBLE
      BY <1>1, <2>2, FirstAhead DEF AtPreamble
    <3>2. ~(p + HEADER_LENGTH - 1 <= Len(w))
      BY <1>2, <2>2, FramerAssumption DEF HasHeader
    <3>3. QED
      BY <3>1, <3>2 DEF ParseAt, StrayAt, FrameWithin, HeaderWithin
  <2>3. CASE AtPreamble /\ HasHeader /\ ~Oversized /\ Len(buffer) < Need
    <3>1. w[p] = PREAMBLE
      BY <1>1, <2>3, FirstAhead DEF AtPreamble
    <3>2. ~TooLong(w, p) /\ FrameEnd(w, p) = p + Need /\ Need \in Nat
      BY <1>1, <2>3, HeaderAhead, LengthType
    <3>3. ~(FrameEnd(w, p) - 1 <= Len(w))
      BY <1>2, <2>3, <3>2
    <3>4. QED
      BY <3>1, <3>2, <3>3 DEF ParseAt, StrayAt, FrameWithin, HeaderWithin
  <2>4. QED
    BY <2>1, <2>2, <2>3 DEF UndecidedInv
<1>5. frames \o <<>> = frames
  BY ConcatEmptySeq DEF FramerInv, FramerTypeOK
<1>6. BatchFrames(w) = frames \o ParseFrom(w)[p]
  BY <1>1 DEF ParsedInv
<1>7. QED
  BY <1>1, <1>3, <1>4, <1>5, <1>6

\* StreamingFramer finds exactly the frames parse_stream finds in the same
\* bytes, however they are cut into chunks.
THEOREM ChunkingIsIrrelevant == FramerSpec => []ChunkIndependent
<1>1. QED
  BY InitParsed, StepParsed, NothingMore, FramerInvariant, PTL DEF FramerSpec

(***************************************************************************)
(* What the live capture keeps for every number of reconnects, buffer      *)
(* capacity and budget, whatever the caster, the network, the clock and    *)
(* the operator do between any two steps.                                  *)
(***************************************************************************)

\* A connection is being made, used or given up.
Connected == {"dial", "handshake", "first", "stream", "frame", "ended", "sleep"}

\* The loop comes back to its top with an attempt left, and a chunk exists
\* only while its frames are handled.
LimitInv ==
  /\ LimitsKept
  /\ pc # "frame" => chunk = <<>>
  /\ pc \in {"top", "sleep"} => attempts = 0 \/ ~Exhausted
  /\ pc \in Connected => reconnects < attempts

Ascending(s) == \A i, j \in 1 .. Len(s) : i < j => s[i].id < s[j].id
Before(s, t) == \A i \in 1 .. Len(s), j \in 1 .. Len(t) : s[i].id < t[j].id
UpTo(s, n) == \A i \in 1 .. Len(s) : s[i].id <= n

\* Unless the caster refused the credentials, the counters tell the whole.
Tallied ==
  metrics.authFailures = 0 =>
    metrics.attempted = attempts /\ metrics.valid + metrics.invalid = Len(written)

\* What waits in the chunk and behind it continues what is written.
Queued ==
  /\ Ascending(chunk) /\ Ascending(data)
  /\ Before(written, chunk) /\ Before(written, data) /\ Before(chunk, data)
  /\ UpTo(written, sent) /\ UpTo(chunk, sent) /\ UpTo(data, sent)

ConnsMade == \A i \in 1 .. Len(written) : written[i].conn <= attempts

FrameInv == SequenceContinuous /\ Tallied /\ ConnsMade /\ Queued

StatusInv ==
  /\ status = "PARTIAL" => written # <<>>
  /\ pc \in {"drain", "done"} /\ status = "COMPLETE"
       => BudgetSpent \/ (Exhausted /\ written # <<>>)

\* The consumer has been handed everything that is not in the buffer.
RelayInv == Passed(written) = consumed \o buf

CaptureInv == CaptureTypeOK /\ LimitInv /\ FrameInv /\ StatusInv /\ RelayInv
-----------------------------------------------------------------------------
(* Passed, the only recursive function of the model, computed one frame    *)
(* at a time: it exists, it is unique, and a frame adds at most itself.    *)

\* f is what Passed computes over the first n frames of w.
Computes(f, w, n) ==
  f = [i \in 0 .. n |-> IF i = 0 THEN <<>>
                        ELSE IF w[i].ok THEN Append(f[i - 1], w[i])
                        ELSE f[i - 1]]

LEMMA ComputesStep ==
  ASSUME NEW f, NEW w, NEW n \in Nat, Computes(f, w, n)
  PROVE  /\ f[0] = <<>>
         /\ \A i \in 1 .. n : f[i] = IF w[i].ok THEN Append(f[i - 1], w[i])
                                     ELSE f[i - 1]
<1> DEFINE H == [i \in 0 .. n |-> IF i = 0 THEN <<>>
                        ELSE IF w[i].ok THEN Append(f[i - 1], w[i])
                        ELSE f[i - 1]]
<1>1. f = H
  BY Zenon DEF Computes
<1>2. H[0] = <<>>
  OBVIOUS
<1>3. \A i \in 1 .. n : H[i] = IF w[i].ok THEN Append(f[i - 1], w[i]) ELSE f[i - 1]
  OBVIOUS
<1> HIDE DEF H
<1> QED
  BY <1>1, <1>2, <1>3, Zenon

LEMMA ComputesExists ==
  ASSUME NEW w, NEW n \in Nat
  PROVE  \E f : Computes(f, w, n)
<1> DEFINE N == {m \in Nat : ~\E f : Computes(f, w, m)}
<1> SUFFICES ASSUME N # {} PROVE FALSE
  OBVIOUS
<1>1. PICK m \in N : \A k \in N : m <= k
  BY LeastNat, N \subseteq Nat
<1>2. m \in Nat /\ ~\E f : Computes(f, w, m)
  BY <1>1
<1>3. CASE m = 0
  <2>1. Computes([i \in 0 .. 0 |-> <<>>], w, 0)
    BY DEF Computes
  <2> QED
    BY <1>2, <1>3, <2>1
<1>4. CASE m # 0
  <2>1. m - 1 \in Nat /\ m - 1 \notin N
    BY <1>1, <1>2, <1>4
  <2>2. PICK g : Computes(g, w, m - 1)
    BY <2>1
  <2> DEFINE last == IF w[m].ok THEN Append(g[m - 1], w[m]) ELSE g[m - 1]
             f == [i \in 0 .. m |-> IF i = m THEN last ELSE g[i]]
  <2>3. /\ g[0] = <<>>
        /\ \A i \in 1 .. m - 1 :
             g[i] = IF w[i].ok THEN Append(g[i - 1], w[i]) ELSE g[i - 1]
    BY <2>1, <2>2, ComputesStep
  <2>4. \A i \in 0 .. m - 1 : f[i] = g[i]
    BY <1>2
  <2>5. f[m] = last
    BY <1>2
  <2>6. \A i \in 0 .. m : f[i] = IF i = 0 THEN <<>>
                                 ELSE IF w[i].ok THEN Append(f[i - 1], w[i])
                                 ELSE f[i - 1]
    <3> TAKE i \in 0 .. m
    <3>1. CASE i = 0
      BY <1>2, <1>4, <2>3, <2>4, <3>1
    <3>2. CASE i = m
      BY <1>2, <1>4, <2>4, <2>5, <3>2
    <3>3. CASE i # 0 /\ i # m
      BY <1>2, <2>3, <2>4, <3>3
    <3> QED
      BY <3>1, <3>2, <3>3
  <2>7. f = [i \in 0 .. m |-> f[i]]
    OBVIOUS
  <2> HIDE DEF f
  <2>8. Computes(f, w, m)
    BY <2>6, <2>7 DEF Computes
  <2> QED
    BY <1>2, <2>8
<1> QED
  BY <1>3, <1>4

\* Two computations agree as far as the frames do.
LEMMA ComputesAgree ==
  ASSUME NEW m \in Nat, NEW n \in Nat, m <= n, NEW f, NEW g, NEW v, NEW w,
         Computes(f, v, m), Computes(g, w, n),
         \A i \in 1 .. m : v[i] = w[i]
  PROVE  f[m] = g[m]
<1> DEFINE N == {i \in 0 .. m : f[i] # g[i]}
<1> SUFFICES ASSUME N # {} PROVE FALSE
  OBVIOUS
<1>1. PICK i \in N : \A k \in N : i <= k
  BY LeastNat, N \subseteq Nat
<1>2. i \in 0 .. m /\ f[i] # g[i]
  BY <1>1
<1>3. /\ f[0] = <<>>
      /\ \A k \in 1 .. m : f[k] = IF v[k].ok THEN Append(f[k - 1], v[k]) ELSE f[k - 1]
  BY ComputesStep
<1>4. /\ g[0] = <<>>
      /\ \A k \in 1 .. n : g[k] = IF w[k].ok THEN Append(g[k - 1], w[k]) ELSE g[k - 1]
  BY ComputesStep
<1>5. i # 0
  BY <1>2, <1>3, <1>4
<1>6. i - 1 \in 0 .. m /\ i - 1 \notin N
  BY <1>1, <1>2, <1>5
<1>7. f[i - 1] = g[i - 1]
  BY <1>6
<1>8. i \in 1 .. m /\ i \in 1 .. n
  BY <1>2, <1>5
<1>9. f[i] = g[i]
  BY <1>3, <1>4, <1>7, <1>8
<1> QED
  BY <1>2, <1>9

LEMMA PassedIsComputed ==
  ASSUME NEW w, Len(w) \in Nat, NEW f, Computes(f, w, Len(w))
  PROVE  Passed(w) = f[Len(w)]
<1> DEFINE g == CHOOSE h : Computes(h, w, Len(w))
<1>1. Passed(w) = g[Len(w)]
  BY DEF Passed, Computes
<1>2. Computes(g, w, Len(w))
  OBVIOUS
<1> HIDE DEF g
<1> QED
  BY <1>1, <1>2, ComputesAgree

\* What is captured passes or not by itself: the frames before it keep theirs.
LEMMA PassedAppend ==
  ASSUME NEW S, NEW w \in Seq(S), NEW x \in S
  PROVE  Passed(Append(w, x)) = IF x.ok THEN Append(Passed(w), x) ELSE Passed(w)
<1> DEFINE n == Len(w)
           v == Append(w, x)
<1>1. n \in Nat /\ Len(v) = n + 1 /\ v[n + 1] = x /\ \A i \in 1 .. n : v[i] = w[i]
  BY AppendProperties, LenProperties
<1> HIDE DEF n, v
<1>2. PICK f : Computes(f, w, n)
  BY <1>1, ComputesExists
<1>3. PICK g : Computes(g, v, n + 1)
  <2>1. n + 1 \in Nat
    BY <1>1
  <2> QED
    BY <2>1, ComputesExists
<1>4. Passed(w) = f[n] /\ Passed(v) = g[n + 1]
  <2>1. Passed(w) = f[n]
    BY <1>1, <1>2, PassedIsComputed DEF n
  <2>2. Passed(v) = g[Len(v)]
    BY <1>1, <1>3, PassedIsComputed
  <2> QED
    BY <1>1, <2>1, <2>2
<1>5. f[n] = g[n]
  <2>1. n + 1 \in Nat /\ n <= n + 1
    BY <1>1
  <2>2. \A i \in 1 .. n : w[i] = v[i]
    BY <1>1
  <2>3. n \in Nat
    BY <1>1
  <2>4. \A h, k : Computes(h, w, n) /\ Computes(k, v, n + 1) => h[n] = k[n]
    BY <2>1, <2>2, <2>3, ComputesAgree
  <2> QED
    BY <1>2, <1>3, <2>4
<1>6. g[n + 1] = IF v[n + 1].ok THEN Append(g[n], v[n + 1]) ELSE g[n]
  BY <1>1, <1>3, ComputesStep
<1> QED
  BY <1>1, <1>4, <1>5, <1>6 DEF v

LEMMA PassedEmpty == Passed(<<>>) = <<>>
<1>1. PICK f : Computes(f, <<>>, 0)
  BY ComputesExists
<1>2. f[0] = <<>>
  BY <1>1, ComputesStep
<1>3. Len(<<>>) = 0
  OBVIOUS
<1> QED
  BY <1>1, <1>2, <1>3, PassedIsComputed
-----------------------------------------------------------------------------
(* What arrives: numbered where the caster is, damaged or not.             *)

LEMMA ArrivingIs ==
  ASSUME sent \in Nat, NEW n \in Nat, NEW s \in Arriving(n)
  PROVE  /\ s \in Seq(Arrival) /\ Len(s) = n
         /\ \A i \in 1 .. Len(s) : s[i].id = sent + i
<1>1. PICK good \in [1 .. n -> BOOLEAN] :
        s = [i \in 1 .. n |-> [id |-> sent + i, ok |-> good[i]]]
  BY DEF Arriving
<1>2. \A i \in 1 .. n : s[i] \in Arrival /\ s[i].id = sent + i
  BY <1>1 DEF Arrival
<1>3. s \in [1 .. n -> Arrival]
  BY <1>1, <1>2
<1>4. s \in Seq(Arrival) /\ Len(s) = n
  BY <1>3, IsASeq, LenProperties
<1> QED
  BY <1>2, <1>4

\* What is left when a sequence is cut in two.
LEMMA CutSeq ==
  ASSUME NEW S, NEW s \in Seq(S), NEW k \in 1 .. Len(s)
  PROVE  /\ SubSeq(s, 1, k) \in Seq(S) /\ SubSeq(s, k + 1, Len(s)) \in Seq(S)
         /\ Len(SubSeq(s, 1, k)) = k
         /\ Len(SubSeq(s, k + 1, Len(s))) = Len(s) - k
         /\ \A i \in 1 .. k : SubSeq(s, 1, k)[i] = s[i]
         /\ \A i \in 1 .. Len(s) - k : SubSeq(s, k + 1, Len(s))[i] = s[k + i]
<1>1. Len(s) \in Nat /\ k \in Nat /\ 1 <= k /\ k <= Len(s)
  BY LenProperties
<1>2. \A i \in 1 .. Len(s) : s[i] \in S
  BY ElementOfSeq
<1>3. /\ SubSeq(s, 1, k) \in Seq(S) /\ Len(SubSeq(s, 1, k)) = k
      /\ \A i \in 1 .. k : SubSeq(s, 1, k)[i] = s[i]
  <2>1. 1 \in Int /\ k \in Int /\ \A i \in 1 .. k : s[i] \in S
    BY <1>1, <1>2
  <2>2. /\ SubSeq(s, 1, k) \in Seq(S)
        /\ Len(SubSeq(s, 1, k)) = IF 1 <= k THEN k - 1 + 1 ELSE 0
        /\ \A i \in 1 .. k - 1 + 1 : SubSeq(s, 1, k)[i] = s[1 + i - 1]
    BY <2>1, SubSeqProperties
  <2> QED
    BY <1>1, <2>2
<1>4. /\ SubSeq(s, k + 1, Len(s)) \in Seq(S)
      /\ Len(SubSeq(s, k + 1, Len(s))) = Len(s) - k
      /\ \A i \in 1 .. Len(s) - k : SubSeq(s, k + 1, Len(s))[i] = s[k + i]
  <2> DEFINE m == k + 1
             n == Len(s)
  <2>1. m \in Int /\ n \in Int /\ \A i \in m .. n : s[i] \in S
    BY <1>1, <1>2
  <2> HIDE DEF m, n
  <2>2. /\ SubSeq(s, m, n) \in Seq(S)
        /\ Len(SubSeq(s, m, n)) = IF m <= n THEN n - m + 1 ELSE 0
        /\ \A i \in 1 .. n - m + 1 : SubSeq(s, m, n)[i] = s[m + i - 1]
    BY <2>1, SubSeqProperties
  <2> QED
    BY <1>1, <2>2 DEF m, n
<1> QED
  BY <1>3, <1>4

LEMMA MayArriveIs ==
  ASSUME NEW least \in Nat, NEW n \in MayArrive(least)
  PROVE  n \in Nat /\ least <= n /\ n <= ChunkMax
BY CaptureAssumption DEF MayArrive

\* One counter goes up, the others stay.
LEMMA CountersStep ==
  ASSUME NEW m \in Counters
  PROVE  /\ [m EXCEPT !.attempted = @ + 1] \in Counters
         /\ [m EXCEPT !.attempted = @ + 1].attempted = m.attempted + 1
         /\ [m EXCEPT !.attempted = @ + 1].authFailures = m.authFailures
         /\ [m EXCEPT !.attempted = @ + 1].valid = m.valid
         /\ [m EXCEPT !.attempted = @ + 1].invalid = m.invalid
         /\ [m EXCEPT !.successful = @ + 1] \in Counters
         /\ [m EXCEPT !.successful = @ + 1].attempted = m.attempted
         /\ [m EXCEPT !.successful = @ + 1].authFailures = m.authFailures
         /\ [m EXCEPT !.successful = @ + 1].valid = m.valid
         /\ [m EXCEPT !.successful = @ + 1].invalid = m.invalid
         /\ [m EXCEPT !.valid = @ + 1] \in Counters
         /\ [m EXCEPT !.valid = @ + 1].attempted = m.attempted
         /\ [m EXCEPT !.valid = @ + 1].authFailures = m.authFailures
         /\ [m EXCEPT !.valid = @ + 1].valid = m.valid + 1
         /\ [m EXCEPT !.valid = @ + 1].invalid = m.invalid
         /\ [m EXCEPT !.invalid = @ + 1] \in Counters
         /\ [m EXCEPT !.invalid = @ + 1].attempted = m.attempted
         /\ [m EXCEPT !.invalid = @ + 1].authFailures = m.authFailures
         /\ [m EXCEPT !.invalid = @ + 1].valid = m.valid
         /\ [m EXCEPT !.invalid = @ + 1].invalid = m.invalid + 1
BY DEF Counters

LEMMA CaptureTypeInit == CaptureInit => CaptureTypeOK
<1> SUFFICES ASSUME CaptureInit PROVE CaptureTypeOK
  OBVIOUS
<1>1. metrics \in Counters
  BY DEF CaptureInit, Counters
<1>2. /\ data \in Seq(Arrival) /\ chunk \in Seq(Arrival)
      /\ written \in Seq(Frame) /\ consumed \in Seq(Frame)
      /\ buf \in Seq(Frame) /\ Len(buf) <= Capacity
  BY CaptureAssumption DEF CaptureInit
<1> QED
  BY <1>1, <1>2 DEF CaptureInit, CaptureTypeOK, Places, ConnectionStates

LEMMA CaptureTypeStep == CaptureTypeOK /\ [CaptureNext]_captureVars => CaptureTypeOK'
<1> SUFFICES ASSUME CaptureTypeOK, [CaptureNext]_captureVars PROVE CaptureTypeOK'
  OBVIOUS
<1> USE DEF CaptureTypeOK, envVars, frameVars, connVars, tallyVars, Places, ConnectionStates
<1>1. CASE UNCHANGED captureVars
  BY <1>1 DEF captureVars
<1>2. CASE TopStop
  BY <1>2 DEF TopStop, Finish, Evidence
<1>3. CASE TopBudget
  BY <1>3 DEF TopBudget, Finish
<1>4. CASE TopDial
  <2>1. metrics' \in Counters
    BY <1>4, CountersStep DEF TopDial, CountDial
  <2>2. /\ pc' = "dial" /\ attempts' = attempts + 1 /\ connState' = "CONNECTING"
        /\ answer' = "none" /\ data' = <<>> /\ chunk' = <<>> /\ stalled' = FALSE
        /\ UNCHANGED <<sock, status, envVars, frameVars, reconnects, idleEvents>>
    BY <1>4 DEF TopDial
  <2>3. stalled' \in BOOLEAN
    BY <2>2, Zenon
  <2> QED
    BY <2>1, <2>2, <2>3
<1>5. CASE DialConnects
  BY <1>5 DEF DialConnects
<1>6. CASE DialFails
  BY <1>6 DEF DialFails, RetryOr, Finish
<1>7. CASE Wake
  BY <1>7 DEF Wake
<1>8. CASE HeadMissing
  BY <1>8 DEF HeadMissing, RetryOr, Finish
<1>9. CASE HandshakeBreaks
  BY <1>9 DEF HandshakeBreaks, Escape
<1>10. CASE FirstTimesOut
  BY <1>10 DEF FirstTimesOut, RetryOr, Finish, Evidence
<1>11. CASE FirstRefused
  <2>1. metrics' \in Counters
    BY <1>11 DEF FirstRefused, Counters
  <2> QED
    BY <1>11, <2>1 DEF FirstRefused, Finish, Evidence
<1>12. CASE FirstUnusable
  BY <1>12 DEF FirstUnusable, RetryOr, Finish, Evidence
<1>13. CASE StreamBudget
  BY <1>13 DEF StreamBudget
<1>14. CASE StreamStalls
  BY <1>14 DEF StreamStalls
<1>15. CASE StreamEnds
  BY <1>15 DEF StreamEnds
<1>16. CASE StreamStopped
  BY <1>16 DEF StreamStopped, Evidence
<1>17. CASE StreamBreaks
  BY <1>17 DEF StreamBreaks, Escape
<1>18. CASE FramesHandled
  BY <1>18 DEF FramesHandled
<1>19. CASE EndedBudget
  BY <1>19 DEF EndedBudget, Finish
<1>20. CASE EndedExhausted
  BY <1>20 DEF EndedExhausted, Finish, Evidence
<1>21. CASE EndedRetry
  BY <1>21 DEF EndedRetry
<1>22. CASE Close
  BY <1>22 DEF Close
<1>23. CASE RequestShutdown
  BY <1>23 DEF RequestShutdown
<1>24. CASE TimeExpires
  BY <1>24 DEF TimeExpires
<1>25. CASE HeadArrives
  <2>1. PICK kind \in Answers, m \in MayArrive(0) :
          answer' = kind /\ data' \in Arriving(m) /\ sent' = sent + m
    BY <1>25 DEF HeadArrives
  <2>2. m \in Nat /\ data' \in Seq(Arrival)
    BY <2>1, MayArriveIs, ArrivingIs
  <2> QED
    BY <1>25, <2>1, <2>2 DEF HeadArrives, Answers
<1>26. CASE FirstStreams
  <2>1. PICK m \in MayArrive(0) : \E more \in Arriving(m) :
          data' = data \o more /\ sent' = sent + m
    BY <1>26 DEF FirstStreams
  <2>2. m \in Nat /\ data' \in Seq(Arrival)
    BY <2>1, MayArriveIs, ArrivingIs, ConcatProperties
  <2>3. metrics' \in Counters
    BY <1>26, CountersStep DEF FirstStreams
  <2>4. /\ pc' = "stream" /\ connState' = "STREAMING" /\ stalled' = FALSE
        /\ UNCHANGED <<sock, status, stopReq, expired, frameVars, answer, chunk,
                       attempts, reconnects, idleEvents>>
    BY <1>26 DEF FirstStreams
  <2>5. stalled' \in BOOLEAN
    BY <2>4, Zenon
  <2> QED
    BY <2>1, <2>2, <2>3, <2>4, <2>5
<1>27. CASE StreamFeedsRest
  <2>1. PICK k \in 1 .. Len(data) :
          chunk' = SubSeq(data, 1, k) /\ data' = SubSeq(data, k + 1, Len(data))
    BY <1>27 DEF StreamFeedsRest
  <2>2. chunk' \in Seq(Arrival) /\ data' \in Seq(Arrival)
    BY <2>1, CutSeq
  <2> QED
    BY <1>27, <2>2 DEF StreamFeedsRest
<1>28. CASE StreamReceives
  <2>1. PICK m \in MayArrive(1) : chunk' \in Arriving(m) /\ sent' = sent + m
    BY <1>28 DEF StreamReceives
  <2>2. m \in Nat /\ chunk' \in Seq(Arrival)
    BY <2>1, MayArriveIs, ArrivingIs
  <2> QED
    BY <1>28, <2>1, <2>2 DEF StreamReceives
<1>29. CASE HandleFrame
  <2> DEFINE f == Stamp(Head(chunk))
  <2>1. Head(chunk) \in Arrival /\ Tail(chunk) \in Seq(Arrival)
    BY <1>29, HeadTailProperties DEF HandleFrame
  <2>2. f \in Frame
    BY <2>1, LenProperties DEF Stamp, Frame, Arrival
  <2> HIDE DEF f
  <2>3. written' = Append(written, f) /\ chunk' = Tail(chunk)
        /\ (Offer(f) \/ UNCHANGED <<buf, consumed>>)
    BY <1>29 DEF HandleFrame, f
  <2>4. written' \in Seq(Frame)
    BY <2>2, <2>3, AppendProperties
  <2>5. buf' \in Seq(Frame) /\ Len(buf') <= Capacity /\ consumed' \in Seq(Frame)
    <3>1. CASE UNCHANGED <<buf, consumed>>
      BY <3>1
    <3>2. CASE Len(buf) < Capacity /\ buf' = Append(buf, f) /\ UNCHANGED consumed
      BY <2>2, <3>2, CaptureAssumption, AppendProperties
    <3>3. CASE /\ Len(buf) >= Capacity
               /\ consumed' = Append(consumed, Head(buf))
               /\ buf' = Append(Tail(buf), f)
      <4>1. buf # <<>> /\ Len(buf) \in Nat
        BY <3>3, CaptureAssumption
      <4>2. Head(buf) \in Frame /\ Tail(buf) \in Seq(Frame) /\ Len(Tail(buf)) = Len(buf) - 1
        BY <4>1, HeadTailProperties
      <4>3. buf' \in Seq(Frame) /\ Len(buf') = Len(buf)
        BY <2>2, <3>3, <4>1, <4>2, AppendProperties
      <4>4. consumed' \in Seq(Frame)
        BY <3>3, <4>2, AppendProperties
      <4> QED
        BY <4>3, <4>4
    <3> QED
      BY <2>3, <3>1, <3>2, <3>3 DEF Offer
  <2>6. metrics' \in Counters
    <3>1. \/ metrics' = [metrics EXCEPT !.valid = @ + 1]
          \/ metrics' = [metrics EXCEPT !.invalid = @ + 1]
      BY <1>29 DEF HandleFrame
    <3> QED
      BY <3>1, CountersStep
  <2>7. /\ chunk' \in Seq(Arrival)
        /\ UNCHANGED <<pc, sock, connState, status, envVars, answer, data,
                       stalled, attempts, reconnects, idleEvents>>
    BY <1>29, <2>1, <2>3 DEF HandleFrame
  <2> QED
    BY <2>4, <2>5, <2>6, <2>7
<1>30. CASE DrainOne
  <2>1. Head(buf) \in Frame /\ Tail(buf) \in Seq(Frame) /\ Len(Tail(buf)) = Len(buf) - 1
    BY <1>30, HeadTailProperties DEF DrainOne
  <2>2. buf' \in Seq(Frame) /\ Len(buf') <= Capacity /\ consumed' \in Seq(Frame)
    BY <1>30, <2>1, CaptureAssumption, AppendProperties DEF DrainOne
  <2> QED
    BY <1>30, <2>2 DEF DrainOne
<1> QED
  BY <1>1, <1>2, <1>3, <1>4, <1>5, <1>6, <1>7, <1>8, <1>9, <1>10, <1>11,
     <1>12, <1>13, <1>14, <1>15, <1>16, <1>17, <1>18, <1>19, <1>20, <1>21,
     <1>22, <1>23, <1>24, <1>25, <1>26, <1>27, <1>28, <1>29, <1>30
     DEF CaptureNext, Progress, Failure
-----------------------------------------------------------------------------
(* The limits.                                                             *)

LEMMA LimitInit == CaptureInit => LimitInv
BY CaptureAssumption DEF CaptureInit, LimitInv, LimitsKept, Connected

LEMMA LimitStep ==
  CaptureTypeOK /\ CaptureTypeOK' /\ LimitInv /\ [CaptureNext]_captureVars => LimitInv'
<1> SUFFICES ASSUME CaptureTypeOK, CaptureTypeOK', LimitInv, [CaptureNext]_captureVars
             PROVE  LimitInv'
  OBVIOUS
<1> USE DEF LimitInv, LimitsKept, Exhausted, Connected,
            envVars, frameVars, connVars, tallyVars
<1>0. /\ attempts \in Nat /\ reconnects \in Nat
      /\ Len(written) \in Nat /\ Len(<<>>) = 0
      /\ MaxReconnects \in Nat /\ ByteBudget \in Nat /\ ChunkMax \in Nat \ {0}
  BY CaptureAssumption, LenProperties DEF CaptureTypeOK
<1>1. CASE UNCHANGED captureVars
  BY <1>1 DEF captureVars
<1>2. CASE TopStop
  BY <1>2, <1>0 DEF TopStop, Finish, Evidence
<1>3. CASE TopBudget
  BY <1>3, <1>0 DEF TopBudget, Finish
<1>4. CASE TopDial
  BY <1>4, <1>0, EmptySeq DEF TopDial
<1>5. CASE DialConnects
  BY <1>5, <1>0 DEF DialConnects
<1>6. CASE DialFails
  BY <1>6, <1>0 DEF DialFails, RetryOr, Finish
<1>7. CASE Wake
  BY <1>7, <1>0 DEF Wake
<1>8. CASE HeadArrives
  BY <1>8, <1>0 DEF HeadArrives
<1>9. CASE HeadMissing
  BY <1>9, <1>0 DEF HeadMissing, RetryOr, Finish
<1>10. CASE HandshakeBreaks
  BY <1>10, <1>0 DEF HandshakeBreaks, Escape
<1>11. CASE FirstTimesOut
  BY <1>11, <1>0 DEF FirstTimesOut, RetryOr, Finish, Evidence
<1>12. CASE FirstRefused
  BY <1>12, <1>0 DEF FirstRefused, Finish, Evidence
<1>13. CASE FirstUnusable
  BY <1>13, <1>0 DEF FirstUnusable, RetryOr, Finish, Evidence
<1>14. CASE FirstStreams
  BY <1>14, <1>0 DEF FirstStreams
<1>15. CASE StreamBudget
  BY <1>15, <1>0 DEF StreamBudget
<1>16. CASE StreamStalls
  BY <1>16, <1>0 DEF StreamStalls
<1>17. CASE StreamFeedsRest
  <2>1. PICK k \in 1 .. Len(data) : k <= ChunkMax /\ chunk' = SubSeq(data, 1, k)
    BY <1>17 DEF StreamFeedsRest
  <2>2. Len(data) \in Nat /\ Len(chunk') = k
    BY <2>1, SubSeqProperties, LenProperties DEF CaptureTypeOK
  <2> QED
    BY <1>17, <1>0, <2>1, <2>2 DEF StreamFeedsRest, BudgetSpent
<1>18. CASE StreamReceives
  <2>1. PICK m \in MayArrive(1) : chunk' \in Arriving(m)
    BY <1>18 DEF StreamReceives
  <2>2. Len(chunk') = m /\ m \in Nat /\ m <= ChunkMax
    BY <2>1, ArrivingIs, MayArriveIs DEF CaptureTypeOK
  <2> QED
    BY <1>18, <1>0, <2>2 DEF StreamReceives, BudgetSpent
<1>19. CASE StreamEnds
  BY <1>19, <1>0 DEF StreamEnds
<1>20. CASE StreamStopped
  BY <1>20, <1>0 DEF StreamStopped, Evidence
<1>21. CASE StreamBreaks
  BY <1>21, <1>0 DEF StreamBreaks, Escape
<1>22. CASE HandleFrame
  <2>1. written' = Append(written, Stamp(Head(chunk)))
    BY <1>22 DEF HandleFrame
  <2>2. Len(written') = Len(written) + 1
    BY <2>1, <1>22, CaptureTypeOK' DEF CaptureTypeOK
  <2>3. Len(chunk') = Len(chunk) - 1 /\ Len(chunk) \in Nat
    BY <1>22, HeadTailProperties, LenProperties DEF HandleFrame, CaptureTypeOK
  <2> QED
    BY <1>22, <1>0, <2>2, <2>3 DEF HandleFrame
<1>23. CASE FramesHandled
  BY <1>23, <1>0 DEF FramesHandled
<1>24. CASE EndedBudget
  BY <1>24, <1>0 DEF EndedBudget, Finish
<1>25. CASE EndedExhausted
  BY <1>25, <1>0 DEF EndedExhausted, Finish, Evidence
<1>26. CASE EndedRetry
  BY <1>26, <1>0 DEF EndedRetry
<1>27. CASE DrainOne
  BY <1>27, <1>0 DEF DrainOne
<1>28. CASE Close
  BY <1>28, <1>0 DEF Close
<1>29. CASE RequestShutdown
  BY <1>29, <1>0 DEF RequestShutdown
<1>30. CASE TimeExpires
  BY <1>30, <1>0 DEF TimeExpires
<1> QED
  BY <1>1, <1>2, <1>3, <1>4, <1>5, <1>6, <1>7, <1>8, <1>9, <1>10, <1>11,
     <1>12, <1>13, <1>14, <1>15, <1>16, <1>17, <1>18, <1>19, <1>20, <1>21,
     <1>22, <1>23, <1>24, <1>25, <1>26, <1>27, <1>28, <1>29, <1>30
     DEF CaptureNext, Progress, Failure
-----------------------------------------------------------------------------
(* The frames.                                                             *)

\* A stretch of a sequence keeps the order of the whole.
LEMMA StretchOrdered ==
  ASSUME NEW s, NEW t, NEW skip \in Nat, Len(s) \in Nat, Len(t) \in Nat,
         skip + Len(t) <= Len(s), \A i \in 1 .. Len(t) : t[i] = s[skip + i]
  PROVE  /\ Ascending(s) => Ascending(t)
         /\ \A n : UpTo(s, n) => UpTo(t, n)
         /\ \A w : Before(w, s) => Before(w, t)
         /\ \A w : Before(s, w) => Before(t, w)
<1>1. \A i \in 1 .. Len(t) : skip + i \in 1 .. Len(s) /\ t[i] = s[skip + i]
  OBVIOUS
<1>2. ASSUME Ascending(s) PROVE Ascending(t)
  <2> SUFFICES ASSUME NEW i \in 1 .. Len(t), NEW j \in 1 .. Len(t), i < j
               PROVE  t[i].id < t[j].id
    BY DEF Ascending
  <2>1. skip + i < skip + j
    OBVIOUS
  <2> QED
    BY <1>1, <1>2, <2>1 DEF Ascending
<1>3. \A n : UpTo(s, n) => UpTo(t, n)
  BY <1>1 DEF UpTo
<1>4. \A w : Before(w, s) => Before(w, t)
  BY <1>1 DEF Before
<1>5. \A w : Before(s, w) => Before(t, w)
  BY <1>1 DEF Before
<1> QED
  BY <1>2, <1>3, <1>4, <1>5

\* The head of what is before another sequence moves to its end.
LEMMA AppendOrdered ==
  ASSUME NEW s, NEW t, NEW x, Len(s) \in Nat, Len(t) = Len(s) + 1,
         t[Len(s) + 1] = x, \A i \in 1 .. Len(s) : t[i] = s[i]
  PROVE  /\ \A n : UpTo(s, n) /\ x.id <= n => UpTo(t, n)
         /\ \A w : Before(s, w) /\ (\A j \in 1 .. Len(w) : x.id < w[j].id)
                     => Before(t, w)
<1>1. \A i \in 1 .. Len(t) : i \in 1 .. Len(s) \/ i = Len(s) + 1
  OBVIOUS
<1>2. \A n : UpTo(s, n) /\ x.id <= n => UpTo(t, n)
  BY <1>1 DEF UpTo
<1>3. \A w : Before(s, w) /\ (\A j \in 1 .. Len(w) : x.id < w[j].id) => Before(t, w)
  BY <1>1 DEF Before
<1> QED
  BY <1>2, <1>3

LEMMA FrameInit == CaptureInit => FrameInv
<1> SUFFICES ASSUME CaptureInit PROVE FrameInv
  OBVIOUS
<1>1. /\ Len(written) = 0 /\ Len(chunk) = 0 /\ Len(data) = 0
      /\ metrics.valid = 0 /\ metrics.invalid = 0
      /\ metrics.attempted = 0 /\ attempts = 0
  BY DEF CaptureInit
<1> QED
  BY <1>1 DEF FrameInv, Tallied, SequenceContinuous, ConnsMade, Queued,
              Ascending, Before, UpTo

LEMMA FrameStep ==
  CaptureTypeOK /\ CaptureTypeOK' /\ LimitInv /\ FrameInv /\ [CaptureNext]_captureVars
    => FrameInv'
<1> SUFFICES ASSUME CaptureTypeOK, CaptureTypeOK', LimitInv, FrameInv, [CaptureNext]_captureVars
             PROVE  FrameInv'
  OBVIOUS
<1> USE DEF envVars, frameVars, connVars, tallyVars
<1>q. UNCHANGED <<written, chunk, data, sent, metrics, attempts>> => FrameInv'
  BY DEF FrameInv, Tallied, SequenceContinuous, ConnsMade, Queued
<1>0. /\ attempts \in Nat /\ sent \in Nat
      /\ Len(written) \in Nat /\ Len(chunk) \in Nat /\ Len(data) \in Nat
      /\ metrics.valid \in Nat /\ metrics.invalid \in Nat
      /\ metrics.attempted \in Nat /\ metrics.authFailures \in Nat
      /\ \A i \in 1 .. Len(written) : written[i].id \in Nat /\ written[i].conn \in Nat
      /\ \A i \in 1 .. Len(chunk) : chunk[i].id \in Nat
      /\ \A i \in 1 .. Len(data) : data[i].id \in Nat
  <2>1. /\ \A i \in 1 .. Len(written) : written[i] \in Frame
        /\ \A i \in 1 .. Len(chunk) : chunk[i] \in Arrival
        /\ \A i \in 1 .. Len(data) : data[i] \in Arrival
    BY ElementOfSeq DEF CaptureTypeOK
  <2>2. /\ \A i \in 1 .. Len(written) : written[i].id \in Nat /\ written[i].conn \in Nat
        /\ \A i \in 1 .. Len(chunk) : chunk[i].id \in Nat
        /\ \A i \in 1 .. Len(data) : data[i].id \in Nat
    BY <2>1 DEF Frame, Arrival
  <2>3. /\ metrics.valid \in Nat /\ metrics.invalid \in Nat
        /\ metrics.attempted \in Nat /\ metrics.authFailures \in Nat
    BY DEF CaptureTypeOK, Counters
  <2> QED
    BY <2>2, <2>3, LenProperties DEF CaptureTypeOK
<1>1. CASE UNCHANGED captureVars
  BY <1>q, <1>1 DEF captureVars
<1>2. CASE TopStop
  BY <1>2, <1>q DEF TopStop, Finish, Evidence
<1>3. CASE TopBudget
  BY <1>3, <1>q DEF TopBudget, Finish
<1>4. CASE TopDial
  <2>1. /\ data' = <<>> /\ chunk' = <<>> /\ attempts' = attempts + 1
        /\ written' = written /\ sent' = sent /\ metrics' = CountDial
    BY <1>4 DEF TopDial
  <2>2. /\ metrics'.attempted = metrics.attempted + 1
        /\ metrics'.authFailures = metrics.authFailures
        /\ metrics'.valid = metrics.valid /\ metrics'.invalid = metrics.invalid
    BY <2>1, CountersStep DEF CountDial, CaptureTypeOK
  <2>3. Len(data') = 0 /\ Len(chunk') = 0
    BY <2>1
  <2>4. Tallied'
    BY <1>0, <2>1, <2>2 DEF FrameInv, Tallied
  <2>5. ConnsMade'
    BY <1>0, <2>1 DEF FrameInv, ConnsMade
  <2>6. Queued'
    BY <2>1, <2>3 DEF FrameInv, Queued, Ascending, UpTo, Before
  <2> QED
    BY <2>1, <2>4, <2>5, <2>6 DEF FrameInv, SequenceContinuous
<1>5. CASE DialConnects
  BY <1>5, <1>q DEF DialConnects
<1>6. CASE DialFails
  BY <1>6, <1>q DEF DialFails, RetryOr, Finish
<1>7. CASE Wake
  BY <1>7, <1>q DEF Wake
<1>8. CASE HeadArrives
  <2>1. PICK m \in MayArrive(0) : data' \in Arriving(m) /\ sent' = sent + m
    BY <1>8 DEF HeadArrives
  <2>2. UNCHANGED <<written, chunk, metrics, attempts>> /\ Len(chunk) = 0
    BY <1>8 DEF HeadArrives, LimitInv
  <2>3. /\ m \in Nat /\ Len(data') = m
        /\ \A i \in 1 .. Len(data') : data'[i].id = sent + i
    BY <2>1, MayArriveIs, ArrivingIs DEF CaptureTypeOK
  <2>4. Ascending(data') /\ UpTo(data', sent')
    BY <1>0, <2>1, <2>3 DEF Ascending, UpTo
  <2>5. Before(written', data') /\ UpTo(written', sent')
    <3>1. \A i \in 1 .. Len(written) : written[i].id \in Nat /\ written[i].id <= sent
      BY <1>0 DEF FrameInv, Queued, UpTo
    <3>2. \A i \in 1 .. Len(data') : sent < data'[i].id
      BY <1>0, <2>3
    <3>3. \A i \in 1 .. Len(data') : data'[i].id \in Nat
      BY <1>0, <2>3
    <3>4. Before(written', data')
      BY <1>0, <2>2, <3>1, <3>2, <3>3 DEF Before
    <3>5. sent <= sent' /\ sent' \in Nat
      BY <1>0, <2>1, <2>3
    <3>6. UpTo(written', sent')
      BY <1>0, <2>2, <3>1, <3>5 DEF UpTo
    <3> QED
      BY <3>4, <3>6
  <2>6. /\ Ascending(chunk') /\ UpTo(chunk', sent')
        /\ Before(written', chunk') /\ Before(chunk', data')
    BY <2>2 DEF Ascending, UpTo, Before
  <2> QED
    BY <2>2, <2>4, <2>5, <2>6 DEF FrameInv, Queued, SequenceContinuous, ConnsMade, Tallied
<1>9. CASE HeadMissing
  BY <1>9, <1>q DEF HeadMissing, RetryOr, Finish
<1>10. CASE HandshakeBreaks
  BY <1>10, <1>q DEF HandshakeBreaks, Escape
<1>11. CASE FirstTimesOut
  BY <1>11, <1>q DEF FirstTimesOut, RetryOr, Finish, Evidence
<1>12. CASE FirstRefused
  <2>1. UNCHANGED <<written, chunk, data, sent, attempts>>
    BY <1>12 DEF FirstRefused, Finish
  <2>2. metrics' = metrics \/ metrics'.authFailures # 0
    BY <1>12, <1>0 DEF FirstRefused
  <2>3. Tallied'
    BY <2>1, <2>2 DEF FrameInv, Tallied
  <2> QED
    BY <2>1, <2>3 DEF FrameInv, SequenceContinuous, ConnsMade, Queued
<1>13. CASE FirstUnusable
  BY <1>13, <1>q DEF FirstUnusable, RetryOr, Finish, Evidence
<1>14. CASE FirstStreams
  <2>1. PICK m \in MayArrive(0) : \E more \in Arriving(m) :
          data' = data \o more /\ sent' = sent + m
    BY <1>14 DEF FirstStreams
  <2>2. PICK more \in Arriving(m) : data' = data \o more /\ sent' = sent + m
    BY <2>1
  <2>3. UNCHANGED <<written, chunk, attempts>> /\ Len(chunk) = 0
    BY <1>14 DEF FirstStreams, LimitInv
  <2>4. /\ m \in Nat /\ Len(more) = m /\ more \in Seq(Arrival)
        /\ \A i \in 1 .. Len(more) : more[i].id = sent + i
    BY <2>1, <2>2, MayArriveIs, ArrivingIs DEF CaptureTypeOK
  <2>5. /\ Len(data') = Len(data) + m
        /\ \A i \in 1 .. Len(data') :
             data'[i].id = IF i <= Len(data) THEN data[i].id
                                             ELSE sent + (i - Len(data))
    <3>1. /\ Len(data') = Len(data) + Len(more)
          /\ \A i \in 1 .. Len(data) + Len(more) :
               data'[i] = IF i <= Len(data) THEN data[i] ELSE more[i - Len(data)]
      BY <2>2, <2>4, ConcatProperties DEF CaptureTypeOK
    <3>2. ASSUME NEW i \in 1 .. Len(data')
          PROVE  data'[i].id = IF i <= Len(data) THEN data[i].id
                                                ELSE sent + (i - Len(data))
      <4>1. CASE i <= Len(data)
        BY <1>0, <2>4, <3>1, <4>1
      <4>2. CASE i > Len(data)
        <5>1. i - Len(data) \in 1 .. Len(more) /\ data'[i] = more[i - Len(data)]
          BY <1>0, <2>4, <3>1, <4>2
        <5> QED
          BY <1>0, <2>4, <4>2, <5>1
      <4> QED
        BY <1>0, <4>1, <4>2
    <3> QED
      BY <2>4, <3>1, <3>2
  <2>6. Queued'
    <3>0. ASSUME NEW i \in 1 .. Len(data')
          PROVE  \/ i \in 1 .. Len(data) /\ data'[i].id = data[i].id
                 \/ i > Len(data) /\ data'[i].id = sent + (i - Len(data))
      BY <1>0, <2>4, <2>5
    <3>1. Ascending(data')
      <4> SUFFICES ASSUME NEW i \in 1 .. Len(data'), NEW j \in 1 .. Len(data'), i < j
                   PROVE  data'[i].id < data'[j].id
        BY DEF Ascending
      <4>1. \A n \in 1 .. Len(data) : data[n].id <= sent
        BY DEF FrameInv, Queued, UpTo
      <4>2. CASE j \in 1 .. Len(data)
        <5>1. i \in 1 .. Len(data)
          BY <1>0, <2>4, <2>5, <4>2
        <5>2. data[i].id < data[j].id
          BY <4>2, <5>1 DEF FrameInv, Queued, Ascending
        <5>3. data'[i].id = data[i].id /\ data'[j].id = data[j].id
          BY <1>0, <3>0, <4>2, <5>1
        <5> QED
          BY <5>2, <5>3
      <4>3. CASE j > Len(data)
        <5>1. data'[j].id = sent + (j - Len(data)) /\ j - Len(data) \in Nat \ {0}
          BY <1>0, <2>4, <2>5, <3>0, <4>3
        <5>2. CASE i \in 1 .. Len(data)
          <6>1. data'[i].id = data[i].id /\ data[i].id <= sent /\ data[i].id \in Nat
            BY <1>0, <3>0, <4>1, <5>2
          <6> QED
            BY <1>0, <5>1, <6>1
        <5>3. CASE i > Len(data)
          BY <1>0, <2>4, <2>5, <3>0, <4>3, <5>3
        <5> QED
          BY <3>0, <5>2, <5>3
      <4> QED
        BY <1>0, <3>0, <4>2, <4>3
    <3>2. Before(written', data')
      <4> SUFFICES ASSUME NEW i \in 1 .. Len(written), NEW j \in 1 .. Len(data')
                   PROVE  written[i].id < data'[j].id
        BY <2>3 DEF Before
      <4>1. written[i].id <= sent /\ written[i].id \in Nat
        BY <1>0 DEF FrameInv, Queued, UpTo
      <4>0. Len(data) \in Nat /\ sent \in Nat
        BY <1>0
      <4>2. CASE j \in 1 .. Len(data)
        <5>1. written[i].id < data[j].id
          BY <4>2 DEF FrameInv, Queued, Before
        <5>2. data'[j].id = data[j].id
          BY <3>0, <4>0, <4>2
        <5> QED
          BY <5>1, <5>2
      <4>3. CASE j > Len(data)
        <5>1. data'[j].id = sent + (j - Len(data)) /\ j \in Nat
          BY <3>0, <4>0, <4>3
        <5> QED
          BY <4>0, <4>1, <4>3, <5>1
      <4> QED
        BY <3>0, <4>2, <4>3
    <3>3. UpTo(data', sent')
      <4> SUFFICES ASSUME NEW i \in 1 .. Len(data')
                   PROVE  data'[i].id <= sent + m
        BY <2>2 DEF UpTo
      <4>1. CASE i \in 1 .. Len(data)
        <5>1. data[i].id <= sent
          BY <4>1 DEF FrameInv, Queued, UpTo
        <5>2. ~(i > Len(data)) /\ data[i].id \in Nat
          BY <1>0, <4>1
        <5>3. data'[i].id = data[i].id
          BY <3>0, <5>2
        <5> QED
          BY <1>0, <2>4, <5>1, <5>2, <5>3
      <4>2. CASE i > Len(data)
        BY <1>0, <2>4, <2>5, <3>0, <4>2
      <4> QED
        BY <3>0, <4>1, <4>2
    <3>4. UpTo(written', sent')
      BY <1>0, <2>2, <2>3, <2>4 DEF FrameInv, Queued, UpTo
    <3>5. /\ Ascending(chunk') /\ Before(written', chunk')
          /\ Before(chunk', data') /\ UpTo(chunk', sent')
      BY <2>3 DEF Ascending, Before, UpTo
    <3> QED
      BY <3>1, <3>2, <3>3, <3>4, <3>5 DEF Queued
  <2>7. metrics' = [metrics EXCEPT !.successful = @ + 1]
    BY <1>14 DEF FirstStreams
  <2>8. Tallied'
    BY <2>3, <2>7, CountersStep DEF FrameInv, Tallied, CaptureTypeOK
  <2> QED
    BY <2>3, <2>6, <2>8 DEF FrameInv, SequenceContinuous, ConnsMade
<1>15. CASE StreamBudget
  BY <1>15, <1>q DEF StreamBudget
<1>16. CASE StreamStalls
  BY <1>16, <1>q DEF StreamStalls
<1>17. CASE StreamFeedsRest
  <2>1. PICK k \in 1 .. Len(data) :
          chunk' = SubSeq(data, 1, k) /\ data' = SubSeq(data, k + 1, Len(data))
    BY <1>17 DEF StreamFeedsRest
  <2>2. UNCHANGED <<written, sent, metrics, attempts>>
    BY <1>17 DEF StreamFeedsRest
  <2>3. /\ Len(chunk') = k /\ Len(data') = Len(data) - k
        /\ \A i \in 1 .. k : chunk'[i] = data[i]
        /\ \A i \in 1 .. Len(data) - k : data'[i] = data[k + i]
    BY <2>1, CutSeq DEF CaptureTypeOK
  <2>4. Queued'
    <3>1. Ascending(data) /\ Before(written, data) /\ UpTo(data, sent) /\ UpTo(written, sent)
      BY DEF FrameInv, Queued
    <3>2. /\ Ascending(chunk') /\ UpTo(chunk', sent) /\ Before(written, chunk')
      <4>1. /\ 0 + Len(chunk') <= Len(data) /\ Len(chunk') \in Nat /\ 0 \in Nat
            /\ \A i \in 1 .. Len(chunk') : chunk'[i] = data[0 + i]
        BY <1>0, <2>3
      <4> QED
        BY <1>0, <3>1, <4>1, StretchOrdered
    <3>3. /\ Ascending(data') /\ UpTo(data', sent) /\ Before(written, data')
      <4>1. /\ k + Len(data') <= Len(data) /\ Len(data') \in Nat /\ k \in Nat
            /\ \A i \in 1 .. Len(data') : data'[i] = data[k + i]
        BY <1>0, <2>3
      <4> QED
        BY <1>0, <3>1, <4>1, StretchOrdered
    <3>4. Before(chunk', data')
      <4> SUFFICES ASSUME NEW i \in 1 .. Len(chunk'), NEW j \in 1 .. Len(data')
                   PROVE  chunk'[i].id < data'[j].id
        BY DEF Before
      <4>1. /\ i \in 1 .. Len(data) /\ k + j \in 1 .. Len(data) /\ i < k + j
            /\ chunk'[i] = data[i] /\ data'[j] = data[k + j]
        BY <1>0, <2>3
      <4> QED
        BY <3>1, <4>1 DEF Ascending
    <3> QED
      BY <2>2, <3>1, <3>2, <3>3, <3>4 DEF Queued
  <2> QED
    BY <2>2, <2>4 DEF FrameInv, SequenceContinuous, ConnsMade, Tallied
<1>18. CASE StreamReceives
  <2>1. PICK m \in MayArrive(1) : chunk' \in Arriving(m) /\ sent' = sent + m
    BY <1>18 DEF StreamReceives
  <2>2. UNCHANGED <<written, data, metrics, attempts>> /\ Len(data) = 0
    BY <1>18 DEF StreamReceives
  <2>3. /\ m \in Nat /\ Len(chunk') = m
        /\ \A i \in 1 .. Len(chunk') : chunk'[i].id = sent + i
    BY <2>1, MayArriveIs, ArrivingIs DEF CaptureTypeOK
  <2>4. Queued'
    BY <1>0, <2>1, <2>2, <2>3 DEF FrameInv, Queued, Ascending, UpTo, Before
  <2> QED
    BY <2>2, <2>4 DEF FrameInv, SequenceContinuous, ConnsMade, Tallied
<1>19. CASE StreamEnds
  BY <1>19, <1>q DEF StreamEnds
<1>20. CASE StreamStopped
  BY <1>20, <1>q DEF StreamStopped, Evidence
<1>21. CASE StreamBreaks
  BY <1>21, <1>q DEF StreamBreaks, Escape
<1>22. CASE HandleFrame
  <2> DEFINE f == Stamp(Head(chunk))
  <2>1. /\ written' = Append(written, f) /\ chunk' = Tail(chunk)
        /\ UNCHANGED <<data, sent, attempts>>
    BY <1>22 DEF HandleFrame
  <2>2. /\ Len(chunk) > 0 /\ f.id = chunk[1].id
        /\ f.conn = attempts /\ f.seq = Len(written)
    BY <1>22 DEF HandleFrame, Stamp
  <2> HIDE DEF f
  <2>3. /\ Len(written') = Len(written) + 1 /\ written'[Len(written) + 1] = f
        /\ \A i \in 1 .. Len(written) : written'[i] = written[i]
    <3>1. f \in Frame
      <4>1. Head(chunk) \in Arrival
        BY <1>22, HeadTailProperties DEF HandleFrame, CaptureTypeOK
      <4> QED
        BY <1>0, <4>1 DEF f, Stamp, Frame, Arrival
    <3> QED
      BY <2>1, <3>1, AppendProperties DEF CaptureTypeOK
  <2>4. /\ Len(chunk') = Len(chunk) - 1
        /\ \A i \in 1 .. Len(chunk) - 1 : chunk'[i] = chunk[1 + i]
    BY <1>22, <2>1, HeadTailProperties DEF HandleFrame, CaptureTypeOK
  <2>5. Queued'
    <3>1. Queued
      BY DEF FrameInv
    <3>2. /\ Ascending(chunk') /\ UpTo(chunk', sent) /\ Before(written, chunk')
          /\ Before(chunk', data)
      <4>1. Len(chunk') = Len(chunk) - 1
        BY <2>4
      <4>2. 1 + Len(chunk') <= Len(chunk) /\ Len(chunk') \in Nat /\ 1 \in Nat
        BY <1>0, <2>2, <4>1
      <4>3. \A i \in 1 .. Len(chunk') : chunk'[i] = chunk[1 + i]
        BY <2>4
      <4> QED
        BY <1>0, <3>1, <4>2, <4>3, StretchOrdered DEF Queued
    <3>3. \A j \in 1 .. Len(chunk') : f.id < chunk'[j].id
      <4>1. \A j \in 1 .. Len(chunk') :
              1 + j \in 1 .. Len(chunk) /\ 1 < 1 + j /\ chunk'[j] = chunk[1 + j]
        BY <1>0, <2>4
      <4>2. 1 \in 1 .. Len(chunk)
        BY <1>0, <2>2
      <4> QED
        BY <2>2, <3>1, <4>1, <4>2 DEF Queued, Ascending
    <3>4. (\A j \in 1 .. Len(data) : f.id < data[j].id) /\ f.id <= sent
      <4>1. 1 \in 1 .. Len(chunk)
        BY <1>0, <2>2
      <4> QED
        BY <2>2, <3>1, <4>1 DEF Queued, Before, UpTo
    <3>5. UpTo(written', sent) /\ Before(written', chunk') /\ Before(written', data)
      BY <1>0, <2>3, <3>1, <3>2, <3>3, <3>4, AppendOrdered DEF Queued
    <3> QED
      BY <2>1, <3>1, <3>2, <3>5 DEF Queued
  <2>6. SequenceContinuous'
    <3> SUFFICES ASSUME NEW i \in 1 .. Len(written')
                 PROVE  /\ written'[i].seq = i - 1
                        /\ i > 1 => /\ written'[i - 1].conn <= written'[i].conn
                                    /\ written'[i - 1].id < written'[i].id
      BY DEF SequenceContinuous
    <3>2. CASE i \in 1 .. Len(written)
      <4>1. /\ written[i].seq = i - 1
            /\ i > 1 => /\ written[i - 1].conn <= written[i].conn
                        /\ written[i - 1].id < written[i].id
        BY <3>2 DEF FrameInv, SequenceContinuous
      <4>2. i > 1 => i - 1 \in 1 .. Len(written)
        BY <1>0, <3>2
      <4> QED
        BY <2>3, <3>2, <4>1, <4>2
    <3>3. CASE i = Len(written) + 1
      <4>1. written'[i].seq = i - 1
        BY <1>0, <2>2, <2>3, <3>3
      <4>2. ASSUME i > 1
            PROVE  /\ written'[i - 1].conn <= written'[i].conn
                   /\ written'[i - 1].id < written'[i].id
        <5>1. i - 1 \in 1 .. Len(written) /\ written'[i - 1] = written[i - 1]
          BY <1>0, <2>3, <3>3, <4>2
        <5>2. written[i - 1].conn <= attempts
          BY <5>1 DEF FrameInv, ConnsMade
        <5>3. 1 \in 1 .. Len(chunk) /\ written[i - 1].id < chunk[1].id
          <6>1. 1 \in 1 .. Len(chunk)
            BY <1>0, <2>2
          <6>2. Before(written, chunk)
            BY DEF FrameInv, Queued
          <6> QED
            BY <5>1, <6>1, <6>2 DEF Before
        <5>4. written'[i] = f
          BY <2>3, <3>3
        <5>5. f.conn = attempts /\ f.id = chunk[1].id
          BY <2>2
        <5> QED
          BY <5>1, <5>2, <5>3, <5>4, <5>5
      <4> QED
        BY <4>1, <4>2
    <3> QED
      BY <1>0, <2>3, <3>2, <3>3
  <2>7. ConnsMade'
    BY <1>0, <2>1, <2>2, <2>3 DEF FrameInv, ConnsMade
  <2>8. Tallied'
    <3>1. /\ metrics'.attempted = metrics.attempted
          /\ metrics'.authFailures = metrics.authFailures
          /\ metrics'.valid + metrics'.invalid = metrics.valid + metrics.invalid + 1
      <4>1. \/ metrics' = [metrics EXCEPT !.valid = @ + 1]
            \/ metrics' = [metrics EXCEPT !.invalid = @ + 1]
        BY <1>22 DEF HandleFrame
      <4>2. metrics \in Counters
        BY DEF CaptureTypeOK
      <4>3. CASE metrics' = [metrics EXCEPT !.valid = @ + 1]
        <5>1. /\ metrics'.attempted = metrics.attempted
              /\ metrics'.authFailures = metrics.authFailures
              /\ metrics'.valid = metrics.valid + 1
              /\ metrics'.invalid = metrics.invalid
          BY <4>2, <4>3, CountersStep
        <5> QED
          BY <1>0, <5>1
      <4>4. CASE metrics' = [metrics EXCEPT !.invalid = @ + 1]
        <5>1. /\ metrics'.attempted = metrics.attempted
              /\ metrics'.authFailures = metrics.authFailures
              /\ metrics'.valid = metrics.valid
              /\ metrics'.invalid = metrics.invalid + 1
          BY <4>2, <4>4, CountersStep
        <5> QED
          BY <1>0, <5>1
      <4> QED
        BY <4>1, <4>3, <4>4
    <3> QED
      BY <1>0, <2>1, <2>3, <3>1 DEF FrameInv, Tallied
  <2> QED
    BY <2>5, <2>6, <2>7, <2>8 DEF FrameInv
<1>23. CASE FramesHandled
  BY <1>23, <1>q DEF FramesHandled
<1>24. CASE EndedBudget
  BY <1>24, <1>q DEF EndedBudget, Finish
<1>25. CASE EndedExhausted
  BY <1>25, <1>q DEF EndedExhausted, Finish, Evidence
<1>26. CASE EndedRetry
  BY <1>26, <1>q DEF EndedRetry
<1>27. CASE DrainOne
  BY <1>27, <1>q DEF DrainOne
<1>28. CASE Close
  BY <1>28, <1>q DEF Close
<1>29. CASE RequestShutdown
  BY <1>29, <1>q DEF RequestShutdown
<1>30. CASE TimeExpires
  BY <1>30, <1>q DEF TimeExpires
<1> QED
  BY <1>1, <1>2, <1>3, <1>4, <1>5, <1>6, <1>7, <1>8, <1>9, <1>10, <1>11,
     <1>12, <1>13, <1>14, <1>15, <1>16, <1>17, <1>18, <1>19, <1>20, <1>21,
     <1>22, <1>23, <1>24, <1>25, <1>26, <1>27, <1>28, <1>29, <1>30
     DEF CaptureNext, Progress, Failure
-----------------------------------------------------------------------------
(* The status.                                                             *)

LEMMA StatusStep ==
  CaptureTypeOK /\ CaptureTypeOK' /\ StatusInv /\ [CaptureNext]_captureVars => StatusInv'
<1> SUFFICES ASSUME CaptureTypeOK, CaptureTypeOK', StatusInv, [CaptureNext]_captureVars
             PROVE  StatusInv'
  OBVIOUS
<1> USE DEF StatusInv, BudgetSpent, Exhausted,
            envVars, frameVars, connVars, tallyVars
<1>1. CASE UNCHANGED captureVars
  BY <1>1 DEF captureVars
<1>2. CASE TopStop
  BY <1>2 DEF TopStop, Finish, Evidence
<1>3. CASE TopBudget
  BY <1>3 DEF TopBudget, Finish
<1>4. CASE TopDial
  BY <1>4 DEF TopDial, CountDial
<1>5. CASE DialConnects
  BY <1>5 DEF DialConnects
<1>6. CASE DialFails
  BY <1>6 DEF DialFails, RetryOr, Finish
<1>7. CASE Wake
  BY <1>7 DEF Wake
<1>8. CASE HeadArrives
  BY <1>8 DEF HeadArrives
<1>9. CASE HeadMissing
  BY <1>9 DEF HeadMissing, RetryOr, Finish
<1>10. CASE HandshakeBreaks
  BY <1>10 DEF HandshakeBreaks, Escape
<1>11. CASE FirstTimesOut
  BY <1>11 DEF FirstTimesOut, RetryOr, Finish, Evidence
<1>12. CASE FirstRefused
  BY <1>12 DEF FirstRefused, Finish, Evidence
<1>13. CASE FirstUnusable
  BY <1>13 DEF FirstUnusable, RetryOr, Finish, Evidence
<1>14. CASE FirstStreams
  BY <1>14 DEF FirstStreams
<1>15. CASE StreamBudget
  BY <1>15 DEF StreamBudget
<1>16. CASE StreamStalls
  BY <1>16 DEF StreamStalls
<1>17. CASE StreamFeedsRest
  BY <1>17 DEF StreamFeedsRest
<1>18. CASE StreamReceives
  BY <1>18 DEF StreamReceives
<1>19. CASE StreamEnds
  BY <1>19 DEF StreamEnds
<1>20. CASE StreamStopped
  BY <1>20 DEF StreamStopped, Evidence
<1>21. CASE StreamBreaks
  BY <1>21 DEF StreamBreaks, Escape
<1>22. CASE HandleFrame
  <2>1. pc = "frame" /\ pc' = pc /\ status' = status
    BY <1>22 DEF HandleFrame
  <2>2. written' # <<>>
    <3>1. written' = Append(written, Stamp(Head(chunk)))
      BY <1>22 DEF HandleFrame
    <3>2. Len(written') = Len(written) + 1
      BY <3>1, <1>22, CaptureTypeOK' DEF CaptureTypeOK
    <3> QED
      BY <3>2, LenProperties DEF CaptureTypeOK
  <2> QED
    BY <2>1, <2>2
<1>23. CASE FramesHandled
  BY <1>23 DEF FramesHandled
<1>24. CASE EndedBudget
  BY <1>24 DEF EndedBudget, Finish
<1>25. CASE EndedExhausted
  BY <1>25 DEF EndedExhausted, Finish, Evidence
<1>26. CASE EndedRetry
  BY <1>26 DEF EndedRetry
<1>27. CASE DrainOne
  BY <1>27 DEF DrainOne
<1>28. CASE Close
  BY <1>28 DEF Close
<1>29. CASE RequestShutdown
  BY <1>29 DEF RequestShutdown
<1>30. CASE TimeExpires
  BY <1>30 DEF TimeExpires
<1> QED
  BY <1>1, <1>2, <1>3, <1>4, <1>5, <1>6, <1>7, <1>8, <1>9, <1>10, <1>11,
     <1>12, <1>13, <1>14, <1>15, <1>16, <1>17, <1>18, <1>19, <1>20, <1>21,
     <1>22, <1>23, <1>24, <1>25, <1>26, <1>27, <1>28, <1>29, <1>30
     DEF CaptureNext, Progress, Failure

-----------------------------------------------------------------------------
(* The bounded buffer.                                                     *)

LEMMA AppendToQueue ==
  ASSUME NEW S, NEW c \in Seq(S), NEW b \in Seq(S), NEW x \in S
  PROVE  c \o Append(b, x) = Append(c \o b, x)
<1>1. Append(b, x) = b \o <<x>> /\ <<x>> \in Seq(S)
  BY AppendIsConcat
<1>2. c \o b \in Seq(S) /\ Append(c \o b, x) = (c \o b) \o <<x>>
  BY ConcatProperties, AppendIsConcat
<1> QED
  BY <1>1, <1>2, ConcatAssociative

\* Handing the head of the queue over changes nothing in the whole.
LEMMA HeadMoves ==
  ASSUME NEW S, NEW c \in Seq(S), NEW b \in Seq(S), b # <<>>
  PROVE  /\ Append(c, Head(b)) \o Tail(b) = c \o b
         /\ Append(c, Head(b)) \in Seq(S) /\ Tail(b) \in Seq(S)
<1>1. Head(b) \in S /\ Tail(b) \in Seq(S)
  BY HeadTailProperties
<1>2. b = <<Head(b)>> \o Tail(b) /\ <<Head(b)>> \in Seq(S)
  BY <1>1
<1>3. Append(c, Head(b)) = c \o <<Head(b)>>
  BY <1>1, AppendIsConcat
<1>4. Append(c, Head(b)) \in Seq(S)
  BY <1>1, AppendProperties
<1> QED
  BY <1>1, <1>2, <1>3, <1>4, ConcatAssociative

LEMMA RelayInit == CaptureInit => RelayInv
<1> SUFFICES ASSUME CaptureInit PROVE RelayInv
  OBVIOUS
<1>1. Passed(written) = <<>>
  BY PassedEmpty DEF CaptureInit
<1>2. consumed \o buf = <<>>
  BY DEF CaptureInit
<1> QED
  BY <1>1, <1>2 DEF RelayInv

LEMMA RelayInvStep ==
  CaptureTypeOK /\ RelayInv /\ [CaptureNext]_captureVars => RelayInv'
<1> SUFFICES ASSUME CaptureTypeOK, RelayInv, [CaptureNext]_captureVars PROVE RelayInv'
  OBVIOUS
<1> USE DEF RelayInv, envVars, frameVars, connVars, tallyVars
<1>1. CASE UNCHANGED captureVars
  BY <1>1 DEF captureVars
<1>2. CASE TopStop
  BY <1>2 DEF TopStop, Finish, Evidence
<1>3. CASE TopBudget
  BY <1>3 DEF TopBudget, Finish
<1>4. CASE TopDial
  BY <1>4 DEF TopDial, CountDial
<1>5. CASE DialConnects
  BY <1>5 DEF DialConnects
<1>6. CASE DialFails
  BY <1>6 DEF DialFails, RetryOr, Finish
<1>7. CASE Wake
  BY <1>7 DEF Wake
<1>8. CASE HeadArrives
  BY <1>8 DEF HeadArrives
<1>9. CASE HeadMissing
  BY <1>9 DEF HeadMissing, RetryOr, Finish
<1>10. CASE HandshakeBreaks
  BY <1>10 DEF HandshakeBreaks, Escape
<1>11. CASE FirstTimesOut
  BY <1>11 DEF FirstTimesOut, RetryOr, Finish, Evidence
<1>12. CASE FirstRefused
  BY <1>12 DEF FirstRefused, Finish, Evidence
<1>13. CASE FirstUnusable
  BY <1>13 DEF FirstUnusable, RetryOr, Finish, Evidence
<1>14. CASE FirstStreams
  BY <1>14 DEF FirstStreams
<1>15. CASE StreamBudget
  BY <1>15 DEF StreamBudget
<1>16. CASE StreamStalls
  BY <1>16 DEF StreamStalls
<1>17. CASE StreamFeedsRest
  BY <1>17 DEF StreamFeedsRest
<1>18. CASE StreamReceives
  BY <1>18 DEF StreamReceives
<1>19. CASE StreamEnds
  BY <1>19 DEF StreamEnds
<1>20. CASE StreamStopped
  BY <1>20 DEF StreamStopped, Evidence
<1>21. CASE StreamBreaks
  BY <1>21 DEF StreamBreaks, Escape
<1>22. CASE HandleFrame
  <2> DEFINE f == Stamp(Head(chunk))
  <2>1. f \in Frame
    <3>1. Head(chunk) \in Arrival
      BY <1>22, HeadTailProperties DEF HandleFrame, CaptureTypeOK
    <3> QED
      BY <3>1, LenProperties DEF CaptureTypeOK, Stamp, Frame, Arrival
  <2> HIDE DEF f
  <2>2. /\ written' = Append(written, f)
        /\ \/ f.ok /\ Offer(f)
           \/ ~f.ok /\ UNCHANGED <<buf, consumed>>
    BY <1>22 DEF HandleFrame, f
  <2>3. Passed(written') = IF f.ok THEN Append(Passed(written), f) ELSE Passed(written)
    BY <2>1, <2>2, PassedAppend DEF CaptureTypeOK
  <2>4. CASE f.ok /\ Len(buf) < Capacity /\ buf' = Append(buf, f) /\ UNCHANGED consumed
    <3>1. consumed \o Append(buf, f) = Append(consumed \o buf, f)
      BY <2>1, AppendToQueue DEF CaptureTypeOK
    <3> QED
      BY <2>3, <2>4, <3>1
  <2>5. CASE /\ f.ok /\ Len(buf) >= Capacity
             /\ consumed' = Append(consumed, Head(buf))
             /\ buf' = Append(Tail(buf), f)
    <3>1. buf # <<>>
      BY <2>5, CaptureAssumption
    <3>2. /\ Append(consumed, Head(buf)) \o Tail(buf) = consumed \o buf
          /\ Append(consumed, Head(buf)) \in Seq(Frame) /\ Tail(buf) \in Seq(Frame)
      BY <3>1, HeadMoves DEF CaptureTypeOK
    <3>3. Append(consumed, Head(buf)) \o Append(Tail(buf), f)
            = Append(Append(consumed, Head(buf)) \o Tail(buf), f)
      BY <2>1, <3>2, AppendToQueue
    <3> QED
      BY <2>3, <2>5, <3>2, <3>3
  <2>6. CASE ~f.ok /\ UNCHANGED <<buf, consumed>>
    BY <2>3, <2>6
  <2> QED
    BY <2>2, <2>4, <2>5, <2>6 DEF Offer
<1>23. CASE FramesHandled
  BY <1>23 DEF FramesHandled
<1>24. CASE EndedBudget
  BY <1>24 DEF EndedBudget, Finish
<1>25. CASE EndedExhausted
  BY <1>25 DEF EndedExhausted, Finish, Evidence
<1>26. CASE EndedRetry
  BY <1>26 DEF EndedRetry
<1>27. CASE DrainOne
  <2>1. /\ buf # <<>> /\ UNCHANGED written
        /\ consumed' = Append(consumed, Head(buf)) /\ buf' = Tail(buf)
    BY <1>27 DEF DrainOne
  <2>2. Append(consumed, Head(buf)) \o Tail(buf) = consumed \o buf
    BY <2>1, HeadMoves DEF CaptureTypeOK
  <2> QED
    BY <2>1, <2>2
<1>28. CASE Close
  BY <1>28 DEF Close
<1>29. CASE RequestShutdown
  BY <1>29 DEF RequestShutdown
<1>30. CASE TimeExpires
  BY <1>30 DEF TimeExpires
<1> QED
  BY <1>1, <1>2, <1>3, <1>4, <1>5, <1>6, <1>7, <1>8, <1>9, <1>10, <1>11,
     <1>12, <1>13, <1>14, <1>15, <1>16, <1>17, <1>18, <1>19, <1>20, <1>21,
     <1>22, <1>23, <1>24, <1>25, <1>26, <1>27, <1>28, <1>29, <1>30
     DEF CaptureNext, Progress, Failure

LEMMA SubSeqOfAppend ==
  ASSUME NEW S, NEW s \in Seq(S), NEW x \in S
  PROVE  Len(Append(s, x)) = Len(s) + 1 /\ SubSeq(Append(s, x), 1, Len(s)) = s
<1>1. /\ Append(s, x) \in Seq(S) /\ Len(Append(s, x)) = Len(s) + 1
      /\ \A i \in 1 .. Len(s) : Append(s, x)[i] = s[i]
  BY AppendProperties
<1>2. Len(s) \in Nat
  BY LenProperties
<1> DEFINE t == SubSeq(Append(s, x), 1, Len(s))
<1>3. /\ t \in Seq(S) /\ Len(t) = Len(s)
      /\ \A i \in 1 .. Len(s) : t[i] = Append(s, x)[i]
  BY <1>1, <1>2, SubSeqProperties
<1>4. t = s
  BY <1>1, <1>2, <1>3, SeqEqual
<1> QED
  BY <1>1, <1>4

\* The outstanding frames are the buffer.
LEMMA Outstanding ==
  ASSUME CaptureTypeOK, RelayInv
  PROVE  /\ Passed(written) \in Seq(Frame) /\ consumed \in Seq(Frame)
         /\ Len(consumed) \in Nat
         /\ Len(Passed(written)) = Len(consumed) + Len(buf)
         /\ Len(buf) \in Nat /\ Len(buf) <= Capacity
         /\ buf # <<>> => /\ Len(consumed) < Len(Passed(written))
                          /\ Head(buf) = Passed(written)[Len(consumed) + 1]
<1>1. /\ Passed(written) = consumed \o buf
      /\ consumed \in Seq(Frame) /\ buf \in Seq(Frame) /\ Len(buf) <= Capacity
  BY DEF CaptureTypeOK, RelayInv
<1>2. /\ Passed(written) \in Seq(Frame)
      /\ Len(Passed(written)) = Len(consumed) + Len(buf)
      /\ Len(consumed) \in Nat /\ Len(buf) \in Nat
  BY <1>1, ConcatProperties, LenProperties
<1>3. ASSUME buf # <<>>
      PROVE  /\ Len(consumed) < Len(Passed(written))
             /\ Head(buf) = Passed(written)[Len(consumed) + 1]
  <2>1. Len(buf) > 0 /\ Head(buf) = buf[1]
    BY <1>1, <1>2, <1>3, EmptySeq
  <2>2. (consumed \o buf)[Len(consumed) + 1] = buf[1]
    BY <1>1, <1>2, <2>1
  <2> QED
    BY <1>1, <1>2, <2>1, <2>2
<1> QED
  BY <1>1, <1>2, <1>3

LEMMA RelayStep ==
  /\ CaptureTypeOK /\ CaptureTypeOK' /\ RelayInv /\ RelayInv' /\ [CaptureNext]_captureVars
  => [Relay!Next]_(Relay!relayVars)
<1> SUFFICES ASSUME CaptureTypeOK, CaptureTypeOK', RelayInv, RelayInv', [CaptureNext]_captureVars
             PROVE  [Relay!Next]_(Relay!relayVars)
  OBVIOUS
<1> USE DEF envVars, frameVars, connVars, tallyVars
<1>0. /\ Passed(written) \in Seq(Frame) /\ consumed \in Seq(Frame)
      /\ Len(consumed) \in Nat
      /\ Len(Passed(written)) = Len(consumed) + Len(buf)
      /\ Len(buf) \in Nat /\ Len(buf) <= Capacity
      /\ buf # <<>> => /\ Len(consumed) < Len(Passed(written))
                       /\ Head(buf) = Passed(written)[Len(consumed) + 1]
  BY Outstanding
<1>2. /\ Len(consumed') \in Nat /\ Len(buf') \in Nat /\ Len(buf') <= Capacity
      /\ Len(Passed(written')) = Len(consumed') + Len(buf')
      /\ Capacity \in Nat
  BY ConcatProperties, LenProperties, CaptureAssumption DEF CaptureTypeOK, RelayInv
<1>q. ASSUME written' = written, consumed' = consumed, pc # "done", pc' # "done"
      PROVE  UNCHANGED Relay!relayVars
  BY <1>q DEF Relay!relayVars
<1>1. CASE UNCHANGED captureVars
  BY <1>1 DEF captureVars, Relay!relayVars
<1>3. CASE TopStop
  BY <1>3, <1>q DEF TopStop, Finish, Evidence
<1>4. CASE TopBudget
  BY <1>4, <1>q DEF TopBudget, Finish
<1>5. CASE TopDial
  BY <1>5, <1>q DEF TopDial, CountDial
<1>6. CASE DialConnects
  BY <1>6, <1>q DEF DialConnects
<1>7. CASE DialFails
  BY <1>7, <1>q DEF DialFails, RetryOr, Finish
<1>8. CASE Wake
  BY <1>8, <1>q DEF Wake
<1>9. CASE HeadArrives
  BY <1>9, <1>q DEF HeadArrives
<1>10. CASE HeadMissing
  BY <1>10, <1>q DEF HeadMissing, RetryOr, Finish
<1>11. CASE HandshakeBreaks
  BY <1>11, <1>q DEF HandshakeBreaks, Escape
<1>12. CASE FirstTimesOut
  BY <1>12, <1>q DEF FirstTimesOut, RetryOr, Finish, Evidence
<1>13. CASE FirstRefused
  BY <1>13, <1>q DEF FirstRefused, Finish, Evidence
<1>14. CASE FirstUnusable
  BY <1>14, <1>q DEF FirstUnusable, RetryOr, Finish, Evidence
<1>15. CASE FirstStreams
  BY <1>15, <1>q DEF FirstStreams
<1>16. CASE StreamBudget
  BY <1>16, <1>q DEF StreamBudget
<1>17. CASE StreamStalls
  BY <1>17, <1>q DEF StreamStalls
<1>18. CASE StreamFeedsRest
  BY <1>18, <1>q DEF StreamFeedsRest
<1>19. CASE StreamReceives
  BY <1>19, <1>q DEF StreamReceives
<1>20. CASE StreamEnds
  BY <1>20, <1>q DEF StreamEnds
<1>21. CASE StreamStopped
  BY <1>21, <1>q DEF StreamStopped, Evidence
<1>22. CASE StreamBreaks
  BY <1>22, <1>q DEF StreamBreaks, Escape
<1>23. CASE HandleFrame
  <2> DEFINE f == Stamp(Head(chunk))
  <2>1. f \in Frame
    <3>1. Head(chunk) \in Arrival
      BY <1>23, HeadTailProperties DEF HandleFrame, CaptureTypeOK
    <3> QED
      BY <3>1, LenProperties DEF CaptureTypeOK, Stamp, Frame, Arrival
  <2> HIDE DEF f
  <2>2. /\ pc = "frame" /\ pc' = "frame" /\ written' = Append(written, f)
        /\ \/ f.ok /\ Offer(f)
           \/ ~f.ok /\ UNCHANGED <<buf, consumed>>
    BY <1>23 DEF HandleFrame, f
  <2>3. Passed(written') = IF f.ok THEN Append(Passed(written), f) ELSE Passed(written)
    BY <2>1, <2>2, PassedAppend DEF CaptureTypeOK
  <2>4. CASE ~f.ok /\ UNCHANGED <<buf, consumed>>
    BY <2>2, <2>3, <2>4 DEF Relay!relayVars
  <2>5. CASE f.ok /\ Offer(f)
    <3>1. /\ Passed(written') = Append(Passed(written), f)
          /\ Passed(written) \in Seq(Frame)
      BY <1>0, <2>3, <2>5
    <3>2. /\ Len(Passed(written')) = Len(Passed(written)) + 1
          /\ SubSeq(Passed(written'), 1, Len(Passed(written))) = Passed(written)
      BY <2>1, <3>1, SubSeqOfAppend
    <3>3. Len(Passed(written')) - Len(consumed') <= Capacity
      BY <1>0, <1>2
    <3>4. \/ consumed' = consumed
          \/ /\ Len(consumed) < Len(Passed(written))
             /\ consumed' = Append(consumed, Passed(written)[Len(consumed) + 1])
      <4>1. CASE Len(buf) >= Capacity /\ consumed' = Append(consumed, Head(buf))
        <5>1. buf # <<>>
          BY <4>1, CaptureAssumption
        <5> QED
          BY <1>0, <4>1, <5>1
      <4> QED
        BY <2>5, <4>1 DEF Offer
    <3>5. Relay!Advance
      BY <3>3, <3>4 DEF Relay!Advance
    <3>6. (pc = "done") = FALSE /\ (pc' = "done") = FALSE
      BY <2>2
    <3> QED
      BY <3>2, <3>5, <3>6 DEF Relay!Next, Relay!Accept
  <2> QED
    BY <2>2, <2>4, <2>5
<1>24. CASE FramesHandled
  BY <1>24, <1>q DEF FramesHandled
<1>25. CASE EndedBudget
  BY <1>25, <1>q DEF EndedBudget, Finish
<1>26. CASE EndedExhausted
  BY <1>26, <1>q DEF EndedExhausted, Finish, Evidence
<1>27. CASE EndedRetry
  BY <1>27, <1>q DEF EndedRetry
<1>28. CASE DrainOne
  <2>1. /\ pc = "drain" /\ pc' = "drain" /\ buf # <<>> /\ written' = written
        /\ consumed' = Append(consumed, Head(buf))
    BY <1>28 DEF DrainOne
  <2>2. /\ Len(consumed) < Len(Passed(written))
        /\ consumed' = Append(consumed, Passed(written)[Len(consumed) + 1])
    BY <1>0, <2>1
  <2>3. Len(Passed(written')) - Len(consumed') <= Capacity
    BY <1>0, <1>2
  <2>4. Relay!Advance
    BY <2>2, <2>3 DEF Relay!Advance
  <2>5. (pc = "done") = FALSE /\ (pc' = "done") = FALSE
    BY <2>1
  <2> QED
    BY <2>1, <2>4, <2>5 DEF Relay!Next, Relay!Deliver
<1>29. CASE Close
  <2>1. /\ pc = "drain" /\ pc' = "done" /\ buf = <<>>
        /\ written' = written /\ consumed' = consumed
    BY <1>29 DEF Close
  <2>2. consumed = Passed(written)
    BY <2>1, ConcatEmptySeq DEF RelayInv, CaptureTypeOK
  <2>3. (pc = "done") = FALSE /\ (pc' = "done") = TRUE
    BY <2>1
  <2> QED
    BY <2>1, <2>2, <2>3 DEF Relay!Next, Relay!Close
<1>30. CASE RequestShutdown
  BY <1>30, <1>q DEF RequestShutdown
<1>31. CASE TimeExpires
  BY <1>31, <1>q DEF TimeExpires
<1> QED
  BY <1>1, <1>2, <1>3, <1>4, <1>5, <1>6, <1>7, <1>8, <1>9, <1>10, <1>11,
     <1>12, <1>13, <1>14, <1>15, <1>16, <1>17, <1>18, <1>19, <1>20, <1>21,
     <1>22, <1>23, <1>24, <1>25, <1>26, <1>27, <1>28, <1>29, <1>30, <1>31
     DEF CaptureNext, Progress, Failure

-----------------------------------------------------------------------------
(* What the capture keeps for ever.                                        *)

LEMMA CaptureInvariant == CaptureSpec => []CaptureInv
<1>1. CaptureInit => CaptureInv
  <2> SUFFICES ASSUME CaptureInit PROVE CaptureInv
    OBVIOUS
  <2>1. StatusInv
    BY DEF CaptureInit, StatusInv
  <2> QED
    BY <2>1, CaptureTypeInit, LimitInit, FrameInit, RelayInit DEF CaptureInv
<1>2. CaptureInv /\ [CaptureNext]_captureVars => CaptureInv'
  BY CaptureTypeStep, LimitStep, FrameStep, StatusStep, RelayInvStep DEF CaptureInv
<1> QED
  BY <1>1, <1>2, PTL DEF CaptureSpec

\* Every variable keeps its type; the buffer never holds more than its capacity.
THEOREM CaptureTypeCorrect == CaptureSpec => []CaptureTypeOK
<1>1. CaptureInv => CaptureTypeOK
  BY DEF CaptureInv
<1> QED
  BY <1>1, CaptureInvariant, PTL

\* For every number of reconnects, budget and chunk size, and whatever fails
\* when: the byte budget is overrun by less than a chunk and the connections
\* stay within max_reconnects (capture_stream).
THEOREM LimitsAreKept == CaptureSpec => []LimitsKept
<1>1. CaptureInv => LimitsKept
  BY DEF CaptureInv, LimitInv
<1> QED
  BY <1>1, CaptureInvariant, PTL

\* The capture-wide sequence has no gap and no repetition across any number
\* of connections, and the frozen metrics count every frame and every dial.
THEOREM FramesAreAccounted == CaptureSpec => []FramesAccounted
<1>1. CaptureInv => FramesAccounted
  BY DEF CaptureInv, FrameInv, Tallied, FramesAccounted
<1> QED
  BY <1>1, CaptureInvariant, PTL

\* The final status of a closed capture is backed by what was captured.
THEOREM StatusIsHonest == CaptureSpec => []StatusHonest
<1>1. CaptureInv => StatusHonest
  BY DEF CaptureInv, StatusInv, StatusHonest
<1> QED
  BY <1>1, CaptureInvariant, PTL

\* The capture loop with its bounded buffer implements the lossless relay,
\* for every capacity: each frame whose CRC holds is handed over once and in
\* order, and the capture closes only when none is outstanding.
THEOREM CaptureImplementsRelay == CaptureSpec => ImplementsRelay
<1>1. CaptureInit => Relay!Init
  <2> SUFFICES ASSUME CaptureInit PROVE Relay!Init
    OBVIOUS
  <2>1. Passed(written) = <<>>
    BY PassedEmpty DEF CaptureInit
  <2> QED
    BY <2>1 DEF CaptureInit, Relay!Init
<1>2. CaptureInv /\ CaptureInv' /\ [CaptureNext]_captureVars => [Relay!Next]_(Relay!relayVars)
  BY RelayStep DEF CaptureInv
<1> QED
  BY <1>1, <1>2, CaptureInvariant, PTL DEF CaptureSpec, ImplementsRelay, Relay!Spec

\* A refused answer is final: from it the client goes to the drain or out,
\* never to the sleep before another attempt.
THEOREM RefusalIsFinal == CaptureSpec => RefusedIsFinal
<1>1. CaptureTypeOK /\ [CaptureNext]_captureVars =>
        [pc = "first" /\ answer \in Refusals /\ idleEvents' = idleEvents
           => pc' \in {"first", "drain", "escaped"}]_captureVars
  <2> SUFFICES ASSUME CaptureTypeOK, CaptureNext, pc = "first", answer \in Refusals,
                      idleEvents' = idleEvents
               PROVE  pc' \in {"first", "drain", "escaped"}
    OBVIOUS
  <2>1. idleEvents \in Nat
    BY DEF CaptureTypeOK
  <2> QED
    BY <2>1 DEF CaptureNext, Progress, Failure, Refusals, Terminal,
       TopStop, TopBudget, TopDial, DialConnects, DialFails, Wake, HeadArrives,
       HeadMissing, HandshakeBreaks, FirstTimesOut, FirstRefused, FirstUnusable,
       FirstStreams, StreamBudget, StreamStalls, StreamFeedsRest,
       StreamReceives, StreamEnds, StreamStopped, StreamBreaks, HandleFrame,
       FramesHandled, EndedBudget, EndedExhausted, EndedRetry, DrainOne, Close,
       RequestShutdown, TimeExpires, Escape, Finish
<1> QED
  BY <1>1, CaptureTypeCorrect, PTL DEF CaptureSpec, RefusedIsFinal
===============================================================================
