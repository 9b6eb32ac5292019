-------------------------- MODULE MCCaptureStore --------------------------
(* CaptureStore on small captures: frames f1 and f2 pass the CRC check and *)
(* take 1 and 2 bytes, f3 fails it and takes 1.                            *)
EXTENDS CaptureStore, SequencesExt

CONSTANTS c1, f1, f2, f3

MCOneCapture == {c1}
MCFrames == {f1, f2, f3}
MCPassing == {f1, f2}
MCSize == [f \in MCFrames |-> IF f = f2 THEN 2 ELSE 1]

===========================================================================
