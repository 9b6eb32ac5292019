--------------------------- MODULE LosslessRelay ---------------------------
(***************************************************************************)
(* What a live capture promises its consumer: the frames accepted for      *)
(* forwarding are handed over in order, none lost, none twice, never more  *)
(* than Backlog of them outstanding, and all of them before the relay      *)
(* closes.  NtripCapture shows how the capture loop implements it.         *)
(***************************************************************************)
EXTENDS Integers, Sequences

CONSTANT Backlog   \* most frames accepted and not yet delivered

VARIABLES
  accepted,   \* frames accepted, in order
  delivered,  \* frames handed over, in order
  closed      \* nothing happens any more

relayVars == <<accepted, delivered, closed>>

Init == accepted = <<>> /\ delivered = <<>> /\ closed = FALSE

\* At most the next outstanding frame is handed over.
Advance ==
  /\ \/ delivered' = delivered
     \/ /\ Len(delivered) < Len(accepted)
        /\ delivered' = Append(delivered, accepted[Len(delivered) + 1])
  /\ Len(accepted') - Len(delivered') <= Backlog

Accept ==
  /\ ~closed
  /\ Len(accepted') = Len(accepted) + 1
  /\ SubSeq(accepted', 1, Len(accepted)) = accepted
  /\ Advance
  /\ UNCHANGED closed

Deliver == ~closed /\ UNCHANGED <<accepted, closed>> /\ Advance

Close ==
  /\ ~closed /\ delivered = accepted
  /\ closed' = TRUE
  /\ UNCHANGED <<accepted, delivered>>

Next == Accept \/ Deliver \/ Close

Spec == Init /\ [][Next]_relayVars
===========================================================================
