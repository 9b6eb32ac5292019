--------------------------- MODULE CaptureStore ---------------------------
(***************************************************************************)
(* The on-disk life of a capture directory: CaptureWriter (create, write,  *)
(* close) and recover_incomplete_capture, with a crash of either process   *)
(* possible between any two file operations.  A digest is modelled by the  *)
(* content it is the digest of, a file by its content and by whether it is *)
(* absent, torn (truncated by open and not yet filled) or whole.           *)
(***************************************************************************)
EXTENDS Integers, Sequences

CONSTANTS
  Captures,      \* capture directories, named by capture_id
  Frames,        \* raw RTCM frames
  Passing,       \* the frames whose CRC is correct
  Size,          \* Size[f]: bytes of frame f
  MaxBytes,      \* CaptureRotationPolicy.max_bytes
  MaxFrames,     \* CaptureRotationPolicy.max_frames
  RecoverLive    \* may the operator recover a capture still being written?

ASSUME StoreAssumption ==
  /\ Passing \subseteq Frames
  /\ Size \in [Frames -> Nat]
  /\ MaxBytes \in Nat
  /\ MaxFrames \in Nat
  /\ RecoverLive \in BOOLEAN

VARIABLES
  (* files of capture c *)
  dirs,          \* the directories that exist
  hasStream,     \* the directories that hold stream.rtcm3
  stream,        \* stream[c]: frames in stream.rtcm3
  index,         \* index[c]: frames with a row in arrival-index.csv
  metaFile,      \* metaFile[c]: state of capture.json
  meta,          \* meta[c]: content of capture.json
  sumsFile,      \* sumsFile[c]: state of SHA256SUMS.txt
  sums,          \* sums[c]: contents whose digests SHA256SUMS.txt lists
  (* memory of the writer of c *)
  writer,        \* writer[c]: where the writer of c is
  hashed,        \* hashed[c]: frames the incremental hasher has consumed
  bytes,         \* bytes[c]: _bytes
  valid,         \* valid[c]: _valid
  invalid,       \* invalid[c]: _invalid
  closeStatus,   \* closeStatus[c]: the argument of close()
  (* memory of the recovery of c *)
  recovery,      \* recovery[c]: where recover_incomplete_capture is
  digest         \* digest[c]: what recovery hashed

fileVars == <<dirs, hasStream, stream, index, metaFile, meta, sumsFile, sums>>
countVars == <<hashed, bytes, valid, invalid>>
recoveryVars == <<recovery, digest>>
vars == <<fileVars, writer, countVars, closeStatus, recoveryVars>>

Statuses == {"COMPLETE", "PARTIAL", "FAILED"}
FileStates == {"absent", "torn", "whole"}
Live == {"made", "opened", "ready", "streamed", "closing", "meta_torn",
         "meta_whole", "sums_torn"}

\* capture.json: counted is FALSE in a recovery manifest, whose frame
\* counts are null.
Metadata == [status: Statuses, stream: Seq(Frames), counted: BOOLEAN,
             valid: Nat, invalid: Nat]
NoMeta == [status |-> "FAILED", stream |-> <<>>, counted |-> FALSE,
           valid |-> 0, invalid |-> 0]
Manifest == [stream: Seq(Frames), index: Seq(Frames), meta: Metadata]
NoSums == [stream |-> <<>>, index |-> <<>>, meta |-> NoMeta]

\* What a digest run over the files of c sees now.
OnDisk(c) == [stream |-> stream[c], index |-> index[c], meta |-> meta[c]]

\* The digests SHA256SUMS.txt lists: every file of the directory but itself.
Digests(c) == OnDisk(c)

Init ==
  /\ dirs = {} /\ hasStream = {}
  /\ stream = [c \in Captures |-> <<>>]
  /\ index = [c \in Captures |-> <<>>]
  /\ metaFile = [c \in Captures |-> "absent"]
  /\ meta = [c \in Captures |-> NoMeta]
  /\ sumsFile = [c \in Captures |-> "absent"]
  /\ sums = [c \in Captures |-> NoSums]
  /\ writer = [c \in Captures |-> "none"]
  /\ hashed = [c \in Captures |-> <<>>]
  /\ bytes = [c \in Captures |-> 0]
  /\ valid = [c \in Captures |-> 0]
  /\ invalid = [c \in Captures |-> 0]
  /\ closeStatus = [c \in Captures |-> "FAILED"]
  /\ recovery = [c \in Captures |-> "idle"]
  /\ digest = [c \in Captures |-> <<>>]

---------------------------------------------------------------------------
(* CaptureWriter.__init__                                                  *)

\* mkdir(exist_ok=False) refuses a directory an earlier process left.
MayCreateAgain(c) == TRUE
MayCreate(c) == c \notin dirs

MakeDirectory(c) ==
  /\ writer[c] \notin Live
  /\ MayCreate(c)
  /\ dirs' = dirs \union {c}
  /\ writer' = [writer EXCEPT ![c] = "made"]
  /\ UNCHANGED <<hasStream, stream, index, metaFile, meta, sumsFile, sums,
                 countVars, closeStatus, recoveryVars>>

\* open("stream.rtcm3", "wb") truncates.
OpenStream(c) ==
  /\ writer[c] = "made"
  /\ hasStream' = hasStream \union {c}
  /\ stream' = [stream EXCEPT ![c] = <<>>]
  /\ writer' = [writer EXCEPT ![c] = "opened"]
  /\ UNCHANGED <<dirs, index, metaFile, meta, sumsFile, sums, countVars,
                 closeStatus, recoveryVars>>

OpenIndex(c) ==
  /\ writer[c] = "opened"
  /\ index' = [index EXCEPT ![c] = <<>>]
  /\ hashed' = [hashed EXCEPT ![c] = <<>>]
  /\ bytes' = [bytes EXCEPT ![c] = 0]
  /\ valid' = [valid EXCEPT ![c] = 0]
  /\ invalid' = [invalid EXCEPT ![c] = 0]
  /\ writer' = [writer EXCEPT ![c] = "ready"]
  /\ UNCHANGED <<dirs, hasStream, stream, metaFile, meta, sumsFile, sums,
                 closeStatus, recoveryVars>>

---------------------------------------------------------------------------
(* CaptureWriter.write_frame: the stream bytes first, then the index row.  *)

RequiresRotation(curBytes, curFrames, nextBytes) ==
  \/ curBytes + nextBytes > MaxBytes
  \/ curFrames >= MaxFrames

\* A refused frame raises CaptureLimitExceeded before anything is written.
WriteStream(c, f) ==
  /\ writer[c] = "ready"
  /\ ~RequiresRotation(bytes[c], valid[c] + invalid[c], Size[f])
  /\ stream' = [stream EXCEPT ![c] = Append(@, f)]
  /\ writer' = [writer EXCEPT ![c] = "streamed"]
  /\ UNCHANGED <<dirs, hasStream, index, metaFile, meta, sumsFile, sums,
                 countVars, closeStatus, recoveryVars>>

RowIfPassing(rows, f) == IF f \in Passing THEN Append(rows, f) ELSE rows
Row(rows, f) == Append(rows, f)

HashIfPassing(fed, f) == IF f \in Passing THEN Append(fed, f) ELSE fed
Hash(fed, f) == Append(fed, f)

WriteIndexRow(c) ==
  LET f == stream[c][Len(stream[c])] IN
  /\ writer[c] = "streamed"
  /\ index' = [index EXCEPT ![c] = Row(@, f)]
  /\ hashed' = [hashed EXCEPT ![c] = Hash(@, f)]
  /\ bytes' = [bytes EXCEPT ![c] = @ + Size[f]]
  /\ valid' = [valid EXCEPT ![c] = IF f \in Passing THEN @ + 1 ELSE @]
  /\ invalid' = [invalid EXCEPT ![c] = IF f \in Passing THEN @ ELSE @ + 1]
  /\ writer' = [writer EXCEPT ![c] = "ready"]
  /\ UNCHANGED <<dirs, hasStream, stream, metaFile, meta, sumsFile, sums,
                 closeStatus, recoveryVars>>

---------------------------------------------------------------------------
(* CaptureWriter.close                                                     *)

CloseFiles(c, status) ==
  /\ writer[c] = "ready"
  /\ closeStatus' = [closeStatus EXCEPT ![c] = status]
  /\ writer' = [writer EXCEPT ![c] = "closing"]
  /\ UNCHANGED <<fileVars, countVars, recoveryVars>>

\* write_text opens (and truncates) the file, then fills it.
OpenMeta(c) ==
  /\ writer[c] = "closing"
  /\ metaFile' = [metaFile EXCEPT ![c] = "torn"]
  /\ writer' = [writer EXCEPT ![c] = "meta_torn"]
  /\ UNCHANGED <<dirs, hasStream, stream, index, meta, sumsFile, sums,
                 countVars, closeStatus, recoveryVars>>

FillMeta(c) ==
  /\ writer[c] = "meta_torn"
  /\ metaFile' = [metaFile EXCEPT ![c] = "whole"]
  /\ meta' = [meta EXCEPT ![c] =
                [status |-> closeStatus[c], stream |-> hashed[c],
                 counted |-> TRUE, valid |-> valid[c],
                 invalid |-> invalid[c]]]
  /\ writer' = [writer EXCEPT ![c] = "meta_whole"]
  /\ UNCHANGED <<dirs, hasStream, stream, index, sumsFile, sums, countVars,
                 closeStatus, recoveryVars>>

\* Every file is read back and hashed, then SHA256SUMS.txt is opened.
OpenSums(c) ==
  /\ writer[c] = "meta_whole"
  /\ sumsFile' = [sumsFile EXCEPT ![c] = "torn"]
  /\ sums' = [sums EXCEPT ![c] = Digests(c)]
  /\ writer' = [writer EXCEPT ![c] = "sums_torn"]
  /\ UNCHANGED <<dirs, hasStream, stream, index, metaFile, meta, countVars,
                 closeStatus, recoveryVars>>

FillSums(c) ==
  /\ writer[c] = "sums_torn"
  /\ sumsFile' = [sumsFile EXCEPT ![c] = "whole"]
  /\ writer' = [writer EXCEPT ![c] = "done"]
  /\ UNCHANGED <<dirs, hasStream, stream, index, metaFile, meta, sums,
                 countVars, closeStatus, recoveryVars>>

\* The process dies, or an exception leaves the writer unclosed.
Crash(c) ==
  /\ writer[c] \in Live
  /\ writer' = [writer EXCEPT ![c] = "dead"]
  /\ UNCHANGED <<fileVars, countVars, closeStatus, recoveryVars>>

---------------------------------------------------------------------------
(* find_incomplete_captures and recover_incomplete_capture                 *)

IncompleteIndexed(c) ==
  c \in hasStream /\ metaFile[c] = "absent" /\ index[c] # <<>>
Incomplete(c) == c \in hasStream /\ metaFile[c] = "absent"

\* The runbook has the operator recover interrupted captures; nothing in
\* the directory tells a live writer from a dead one.
RecoverStart(c) ==
  /\ recovery[c] = "idle"
  /\ Incomplete(c)
  /\ RecoverLive \/ writer[c] \notin Live
  /\ digest' = [digest EXCEPT ![c] = stream[c]]
  /\ recovery' = [recovery EXCEPT ![c] = "hashed"]
  /\ UNCHANGED <<fileVars, writer, countVars, closeStatus>>

RecoverOpenMeta(c) ==
  /\ recovery[c] = "hashed"
  /\ metaFile' = [metaFile EXCEPT ![c] = "torn"]
  /\ recovery' = [recovery EXCEPT ![c] = "meta_torn"]
  /\ UNCHANGED <<dirs, hasStream, stream, index, meta, sumsFile, sums,
                 writer, countVars, closeStatus, digest>>

RecoverFillMeta(c) ==
  /\ recovery[c] = "meta_torn"
  /\ metaFile' = [metaFile EXCEPT ![c] = "whole"]
  /\ meta' = [meta EXCEPT ![c] =
                [status |-> "PARTIAL", stream |-> digest[c],
                 counted |-> FALSE, valid |-> 0, invalid |-> 0]]
  /\ recovery' = [recovery EXCEPT ![c] = "meta_whole"]
  /\ UNCHANGED <<dirs, hasStream, stream, index, sumsFile, sums, writer,
                 countVars, closeStatus, digest>>

RecoverOpenSums(c) ==
  /\ recovery[c] = "meta_whole"
  /\ sumsFile' = [sumsFile EXCEPT ![c] = "torn"]
  /\ sums' = [sums EXCEPT ![c] = Digests(c)]
  /\ recovery' = [recovery EXCEPT ![c] = "sums_torn"]
  /\ UNCHANGED <<dirs, hasStream, stream, index, metaFile, meta, writer,
                 countVars, closeStatus, digest>>

RecoverFillSums(c) ==
  /\ recovery[c] = "sums_torn"
  /\ sumsFile' = [sumsFile EXCEPT ![c] = "whole"]
  /\ recovery' = [recovery EXCEPT ![c] = "idle"]
  /\ UNCHANGED <<dirs, hasStream, stream, index, metaFile, meta, sums,
                 writer, countVars, closeStatus, digest>>

RecoverCrash(c) ==
  /\ recovery[c] # "idle"
  /\ recovery' = [recovery EXCEPT ![c] = "idle"]
  /\ UNCHANGED <<fileVars, writer, countVars, closeStatus, digest>>

---------------------------------------------------------------------------
WriterStep(c) ==
  \/ MakeDirectory(c) \/ OpenStream(c) \/ OpenIndex(c)
  \/ \E f \in Frames : WriteStream(c, f)
  \/ WriteIndexRow(c)
  \/ \E status \in Statuses : CloseFiles(c, status)
  \/ OpenMeta(c) \/ FillMeta(c) \/ OpenSums(c) \/ FillSums(c)

RecoveryStep(c) ==
  \/ RecoverStart(c) \/ RecoverOpenMeta(c) \/ RecoverFillMeta(c)
  \/ RecoverOpenSums(c) \/ RecoverFillSums(c)

Next ==
  \E c \in Captures :
    WriterStep(c) \/ Crash(c) \/ RecoveryStep(c) \/ RecoverCrash(c)

Spec == Init /\ [][Next]_vars

---------------------------------------------------------------------------
(* Properties                                                              *)

TypeOK ==
  /\ dirs \subseteq Captures /\ hasStream \subseteq Captures
  /\ stream \in [Captures -> Seq(Frames)]
  /\ index \in [Captures -> Seq(Frames)]
  /\ metaFile \in [Captures -> FileStates]
  /\ meta \in [Captures -> Metadata]
  /\ sumsFile \in [Captures -> FileStates]
  /\ sums \in [Captures -> Manifest]
  /\ writer \in [Captures -> Live \union {"none", "done", "dead"}]
  /\ hashed \in [Captures -> Seq(Frames)]
  /\ bytes \in [Captures -> Nat]
  /\ valid \in [Captures -> Nat]
  /\ invalid \in [Captures -> Nat]
  /\ closeStatus \in [Captures -> Statuses]
  /\ recovery \in [Captures -> {"idle", "hashed", "meta_torn", "meta_whole",
                                "sums_torn"}]
  /\ digest \in [Captures -> Seq(Frames)]

\* The arrival index never runs ahead of the raw stream and misses at most
\* the frame in flight, whenever the process dies (write_frame).
IndexTracksStream ==
  \A c \in Captures :
    \/ index[c] = stream[c]
    \/ stream[c] # <<>> /\ index[c] = SubSeq(stream[c], 1, Len(stream[c]) - 1)

\* A capture.json that can be read describes the very bytes on disk, with
\* every frame counted and indexed unless it is a recovery manifest (close,
\* recover_incomplete_capture), as long as nobody recovers a live capture.
ManifestTruthful ==
  \A c \in Captures :
    metaFile[c] = "whole" =>
      /\ meta[c].stream = stream[c]
      /\ meta[c].counted =>
           /\ index[c] = stream[c]
           /\ meta[c].valid + meta[c].invalid = Len(stream[c])
      /\ ~meta[c].counted => meta[c].status = "PARTIAL"

\* Whenever SHA256SUMS.txt can be read, every digest in it verifies.
SumsVerify ==
  \A c \in Captures : sumsFile[c] = "whole" => sums[c] = OnDisk(c)

\* Raw evidence is only ever extended: no create, close, crash or recovery
\* rewrites or shortens a stream file.
RawAppendOnly ==
  [][\A c \in Captures :
       /\ Len(stream[c]) <= Len(stream'[c])
       /\ SubSeq(stream'[c], 1, Len(stream[c])) = stream[c]]_vars

\* A capture whose capture.json is complete is immutable: neither its raw
\* files nor its manifest ever change again.
SealedFrozen ==
  [][\A c \in Captures :
       metaFile[c] = "whole" =>
         UNCHANGED <<stream[c], index[c], metaFile[c], meta[c]>>]_vars

\* The abstract promise: an append-only log frozen once sealed.
Archive == INSTANCE CaptureArchive
  WITH log <- stream, sealed <- [c \in Captures |-> metaFile[c] = "whole"]
ImplementsArchive == Archive!Spec

---------------------------------------------------------------------------
(* The writer runs until it is killed; the operator keeps running the      *)
(* recovery helper, which is not killed for ever before it opens the       *)
(* manifest.                                                               *)
Fairness ==
  \A c \in Captures :
    /\ WF_vars(WriterStep(c))
    /\ WF_vars(RecoveryStep(c))
    /\ SF_vars(RecoverOpenMeta(c))

FairSpec == Spec /\ Fairness

\* Every raw stream eventually gets a capture.json, from its writer or from
\* the recovery of what a crash left behind.
StreamGetsManifest ==
  \A c \in Captures : c \in hasStream ~> metaFile[c] # "absent"
===========================================================================
