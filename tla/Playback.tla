------------------------------ MODULE Playback ------------------------------
(***************************************************************************)
(* What a replay promises to whoever listens: a planned event is handed    *)
(* over only when every event planned before it has been, over any number  *)
(* of processes, pauses, failures and resumptions.  ReplayController shows *)
(* how a position, a bounded buffer and a checkpoint implement it.         *)
(***************************************************************************)
EXTENDS Integers, Sequences

CONSTANTS
  Inputs,       \* what a replay may be started with
  Prints,       \* fingerprints of a source and a configuration
  Fingerprint,        \* Fingerprint[i]: the fingerprint of input i
  Plan          \* Plan[i]: the planned events of input i

VARIABLE heard  \* heard[p]: events handed over so far under fingerprint p

Init == heard = [p \in Prints |-> <<>>]

Heard(p) == {heard[p][k] : k \in 1 .. Len(heard[p])}

HandOver(i, n) ==
  /\ \A m \in 1 .. n - 1 : Plan[i][m] \in Heard(Fingerprint[i])
  /\ heard' = [heard EXCEPT ![Fingerprint[i]] = Append(@, Plan[i][n])]

Next == \E i \in Inputs : \E n \in 1 .. Len(Plan[i]) : HandOver(i, n)

Spec == Init /\ [][Next]_heard
=============================================================================
