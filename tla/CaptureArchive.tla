-------------------------- MODULE CaptureArchive --------------------------
(***************************************************************************)
(* What the capture writer promises to the rest of the platform: per       *)
(* capture an append-only log of raw frames that is frozen for ever once   *)
(* the capture is sealed.  No files, no processes and no crashes here:     *)
(* CaptureStore shows how directories, two writers and recovery implement  *)
(* it.                                                                     *)
(***************************************************************************)
EXTENDS Sequences

CONSTANTS
  Captures,  \* capture identifiers
  Frames     \* raw RTCM frames

VARIABLES
  log,       \* log[c]: the frames of capture c, in arrival order
  sealed     \* sealed[c]: the capture is finalised and immutable

archiveVars == <<log, sealed>>

Init ==
  /\ log = [c \in Captures |-> <<>>]
  /\ sealed = [c \in Captures |-> FALSE]

AppendFrame(c, f) ==
  /\ ~sealed[c]
  /\ log' = [log EXCEPT ![c] = Append(@, f)]
  /\ UNCHANGED sealed

Seal(c) ==
  /\ ~sealed[c]
  /\ sealed' = [sealed EXCEPT ![c] = TRUE]
  /\ UNCHANGED log

Next ==
  \E c \in Captures :
    \/ \E f \in Frames : AppendFrame(c, f)
    \/ Seal(c)

Spec == Init /\ [][Next]_archiveVars
===========================================================================
