------------------------ MODULE DatasetArchiveProofs ------------------------
(***************************************************************************)
(* The raw archive is written once, by any number of runs that die         *)
(* anywhere, over any deliveries that change at any time; and a run that   *)
(* reports success leaves a manifest that lists the whole delivery and     *)
(* packages that can be verified against it.                               *)
(***************************************************************************)
EXTENDS DatasetArchive, FiniteSetTheorems, SequenceTheorems, WellFoundedInduction, TLAPS

\* What a run that has begun carries along.
Begun ==
  /\ run = [pc |-> run.pc, outcome |-> run.outcome, verifyOnly |-> run.verifyOnly,
            seen |-> run.seen, archived |-> run.archived, sessions |-> run.sessions,
            at |-> run.at, packed |-> run.packed]
  /\ run.seen \in [Delivered -> Contents \cup {None}]

\* From the check of a target to the rename of its copy the target is the
\* same, and it is still free: nobody else writes the archive.
ArchiveInv ==
  /\ delivery \in [Delivered -> Contents \cup {None}]
  /\ raw \in [Targets -> Contents \cup {None}]
  /\ "pc" \in DOMAIN run
  /\ run.pc # "idle" => Begun
  /\ run.pc \in {"copy", "verify"} => Todo # {} /\ raw[Current] = None

-----------------------------------------------------------------------------
LEMMA LeastNat ==
  ASSUME NEW N, N \subseteq Nat, N # {}
  PROVE  \E n \in N : \A m \in N : n <= m
<1> DEFINE R == OpToRel(<, Nat)
<1>1. IsWellFoundedOn(R, Nat)
  BY NatLessThanWellFounded, Zenon
<1>2. \A i, j \in Nat : i < j => <<i, j>> \in R
  BY DEF OpToRel
<1> HIDE DEF R
<1>3. PICK n \in N : \A m \in N : ~(<<m, n>> \in R)
  BY <1>1, WFMin, Zenon
<1>4. n \in Nat /\ \A m \in N : m \in Nat /\ ~(m < n)
  BY <1>2, <1>3
<1>5. QED
  BY <1>4

\* A set of numbered things has a first one.
LEMMA LeastOf ==
  ASSUME NEW S, S # {}, \A x \in S : x.n \in Nat
  PROVE  \E x \in S : \A y \in S : x.n <= y.n
<1> DEFINE N == {x.n : x \in S}
<1>1. N \subseteq Nat /\ N # {}
  OBVIOUS
<1> HIDE DEF N
<1>2. PICK n \in N : \A m \in N : n <= m
  BY <1>1, LeastNat
<1>3. QED
  BY <1>2 DEF N

LEMMA CurrentIsTodo ==
  ASSUME Todo # {}
  PROVE  Current \in Todo /\ Current \in Targets /\ Candidates(run.seen, Current) # {}
<1>1. \A t \in Todo : t \in Targets /\ t.n \in Nat /\ Candidates(run.seen, t) # {}
  BY DeliveredAssumption DEF Todo, Targets, Present, Candidates
<1>2. \E t \in Todo : \A u \in Todo : t.n <= u.n
  BY <1>1, LeastOf
<1>3. Current \in Todo
  BY <1>2 DEF Current
<1>4. QED
  BY <1>1, <1>3

\* The retained file is one of the candidates: an original if there is one.
LEMMA RetainedIsCandidate ==
  ASSUME NEW seen, NEW t, Candidates(seen, t) # {}
  PROVE  Retained(seen, t) \in Candidates(seen, t)
<1> DEFINE C == Candidates(seen, t)
           originals == {d \in C : ~d.copy}
           best == IF originals # {} THEN originals ELSE C
<1>1. \A d \in C : d.n \in Nat /\ d.copy \in BOOLEAN
  BY DeliveredAssumption DEF Candidates, Present
<1>2. best # {} /\ \A d \in best : d.n \in Nat
  BY <1>1
<1>3. PICK d \in best : \A e \in best : d.n <= e.n
  BY <1>2, LeastOf
<1>4. \A e \in C : (~d.copy /\ e.copy) \/ (d.copy = e.copy /\ d.n <= e.n)
  BY <1>1, <1>3
<1>5. d \in C
  BY <1>3
<1>6. QED
  BY <1>4, <1>5 DEF Retained

\* The digest that the current target is to have is the one of a delivered file.
LEMMA CurrentContent ==
  ASSUME Begun, Todo # {}
  PROVE  /\ Current \in Targets
         /\ Retained(run.seen, Current) \in Candidates(run.seen, Current)
         /\ run.seen[Retained(run.seen, Current)] \in Contents
<1>1. Current \in Targets /\ Retained(run.seen, Current) \in Candidates(run.seen, Current)
  BY CurrentIsTodo, RetainedIsCandidate
<1>2. QED
  BY <1>1 DEF Begun, Candidates, Present

LEMMA SameTarget ==
  ASSUME run'.seen = run.seen, run'.archived = run.archived
  PROVE  Todo' = Todo /\ Current' = Current
<1>1. Todo' = Todo
  BY DEF Todo, Present
<1>2. QED
  BY <1>1 DEF Current

\* A step that stops the run or leaves the archive's part of it.
LEMMA Stopped ==
  ASSUME ArchiveInv, NEW outcome, Stop(outcome), delivery' = delivery,
         raw' \in [Targets -> Contents \cup {None}]
  PROVE  ArchiveInv'
<1>1. "pc" \in DOMAIN run' /\ run'.pc = "idle"
  BY DEF ArchiveInv, Stop
<1>2. QED
  BY <1>1 DEF ArchiveInv

LEMMA MovesOn ==
  ASSUME ArchiveInv, Begun', run'.pc \notin {"copy", "verify"}, delivery' = delivery,
         raw' \in [Targets -> Contents \cup {None}]
  PROVE  ArchiveInv'
<1>1. "pc" \in DOMAIN run'
  BY DEF Begun
<1>2. QED
  BY <1>1 DEF ArchiveInv

-----------------------------------------------------------------------------
LEMMA ArchiveInvInit == Init => ArchiveInv
BY DeliveredAssumption DEF Init, ArchiveInv, Idle

LEMMA CheckTargetKeeps ==
  ASSUME ArchiveInv, CheckTarget
  PROVE  ArchiveInv' /\ raw' = raw
<1>1. Begun /\ Todo # {} /\ raw' = raw /\ delivery' = delivery /\ run.pc = "archive"
  BY DEF ArchiveInv, CheckTarget
<1>2. CASE Stop("failed")
  BY <1>1, <1>2, Stopped DEF ArchiveInv
<1>3. CASE Archived
  <2>1. Begun' /\ run'.pc = "archive"
    BY <1>1, <1>3 DEF Archived, Begun
  <2>2. QED
    BY <1>1, <2>1, MovesOn DEF ArchiveInv
<1>4. CASE raw[Current] = None /\ run' = [run EXCEPT !.pc = "copy"]
  <2>1. /\ Begun' /\ run'.pc = "copy" /\ "pc" \in DOMAIN run'
        /\ run'.seen = run.seen /\ run'.archived = run.archived
    BY <1>1, <1>4 DEF Begun
  <2>2. Todo' = Todo /\ Current' = Current
    BY <2>1, SameTarget
  <2>3. QED
    BY <1>1, <1>4, <2>1, <2>2 DEF ArchiveInv
<1>5. QED
  BY <1>1, <1>2, <1>3, <1>4 DEF CheckTarget

LEMMA CopyKeeps ==
  ASSUME ArchiveInv, Copy
  PROVE  ArchiveInv' /\ raw' = raw
<1>1. Begun /\ Todo # {} /\ raw' = raw /\ delivery' = delivery /\ run.pc = "copy"
  BY DEF ArchiveInv, Copy, CopyTo
<1>2. CASE Stop("failed")
  BY <1>1, <1>2, Stopped DEF ArchiveInv
<1>3. CASE run' = [run EXCEPT !.pc = "verify"]
  <2>1. /\ Begun' /\ run'.pc = "verify" /\ "pc" \in DOMAIN run'
        /\ run'.seen = run.seen /\ run'.archived = run.archived
    BY <1>1, <1>3 DEF Begun
  <2>2. Todo' = Todo /\ Current' = Current
    BY <2>1, SameTarget
  <2>3. QED
    BY <1>1, <2>1, <2>2 DEF ArchiveInv
<1>4. QED
  BY <1>2, <1>3 DEF Copy

\* The one step that writes the archive: a free path, and the whole content
\* of a delivered file.
LEMMA VerifyKeeps ==
  ASSUME ArchiveInv, Verify
  PROVE  /\ ArchiveInv'
         /\ \A t \in Targets :
               raw'[t] # raw[t] => /\ raw[t] = None
                                   /\ run.pc = "verify"
                                   /\ raw'[t] \in {run.seen[d] : d \in Candidates(run.seen, t)}
<1> DEFINE sha == run.seen[Retained(run.seen, Current)]
<1>1. Begun /\ Todo # {} /\ raw[Current] = None /\ delivery' = delivery /\ run.pc = "verify"
  BY DEF ArchiveInv, Verify
<1>2. /\ Current \in Targets /\ sha \in Contents
      /\ Retained(run.seen, Current) \in Candidates(run.seen, Current)
  BY <1>1, CurrentContent
<1>3. CASE /\ raw' = [raw EXCEPT ![Current] = sha]
           /\ run' = [run EXCEPT !.archived = @ \cup {Current}, !.pc = "archive"]
  <2>1. Begun' /\ run'.pc = "archive"
    BY <1>1, <1>3 DEF Begun
  <2>2. raw' \in [Targets -> Contents \cup {None}]
    BY <1>2, <1>3 DEF ArchiveInv
  <2>3. ArchiveInv'
    BY <1>1, <2>1, <2>2, MovesOn
  <2>4. QED
    BY <1>1, <1>2, <1>3, <2>3 DEF ArchiveInv
<1>4. CASE Stop("failed") /\ raw' = raw
  BY <1>1, <1>4, Stopped DEF ArchiveInv
<1>5. QED
  BY <1>3, <1>4 DEF Verify

LEMMA ArchiveStep ==
  ASSUME ArchiveInv, [Next]_vars
  PROVE  /\ ArchiveInv'
         /\ \A t \in Targets :
               raw'[t] # raw[t] => /\ raw[t] = None
                                   /\ run.pc = "verify"
                                   /\ raw'[t] \in {run.seen[d] : d \in Candidates(run.seen, t)}
<1>1. ASSUME NEW verifyOnly \in BOOLEAN, Discover(verifyOnly)
      PROVE  ArchiveInv' /\ raw' = raw
  <2>1. raw' = raw /\ delivery' = delivery
    BY <1>1 DEF Discover
  <2>2. CASE run' = [pc |-> "archive", outcome |-> "none", verifyOnly |-> verifyOnly,
                     seen |-> delivery, archived |-> {}, sessions |-> {}, at |-> 1, packed |-> {}]
    <3>1. Begun' /\ run'.pc = "archive"
      BY <2>2 DEF Begun, ArchiveInv
    <3>2. QED
      BY <2>1, <3>1, MovesOn DEF ArchiveInv
  <2>3. CASE run' = [pc |-> "idle", outcome |-> "failed"]
    BY <2>1, <2>3 DEF ArchiveInv
  <2>4. QED
    BY <1>1, <2>2, <2>3, <2>1 DEF Discover
<1>2. CASE CheckTarget
  BY <1>2, CheckTargetKeeps
<1>3. CASE Copy
  BY <1>3, CopyKeeps
<1>4. CASE Verify
  BY <1>4, VerifyKeeps
<1>5. ASSUME run.pc \in {"archive", "write", "fill"}, raw' = raw, delivery' = delivery,
             run'.pc \in {"write", "fill"}, Begun'
      PROVE  ArchiveInv'
  BY <1>5, MovesOn DEF ArchiveInv
<1>6. CASE Analyse
  <2>1. Begun /\ raw' = raw /\ delivery' = delivery /\ run.pc = "archive"
    BY <1>6 DEF Analyse, ArchiveInv
  <2>2. PICK sessions : run' = [run EXCEPT !.pc = "write", !.sessions = sessions]
    BY <1>6 DEF Analyse
  <2>3. Begun' /\ run'.pc = "write"
    BY <2>1, <2>2 DEF Begun
  <2>4. QED
    BY <1>5, <2>1, <2>3
<1>7. CASE OpenTable \/ FillTable
  <2>1. Begun /\ raw' = raw /\ delivery' = delivery /\ run.pc \in {"write", "fill"}
    BY <1>7 DEF OpenTable, FillTable, ArchiveInv
  <2>2. Begun' /\ run'.pc \in {"write", "fill"}
    BY <1>7, <2>1 DEF OpenTable, FillTable, Begun
  <2>3. QED
    BY <1>5, <2>1, <2>2
<1>8. CASE WritePackage
  <2>1. Begun /\ raw' = raw /\ delivery' = delivery /\ run.pc = "write"
    BY <1>8 DEF WritePackage, Packing, ArchiveInv
  <2>2. CASE run' = [run EXCEPT !.packed = @ \cup {NextStation}]
    <3>1. Begun' /\ run'.pc = "write"
      BY <2>1, <2>2 DEF Begun
    <3>2. QED
      BY <1>5, <2>1, <3>1
  <2>3. CASE Stop("failed")
    BY <2>1, <2>3, Stopped DEF ArchiveInv
  <2>4. QED
    BY <1>8, <2>2, <2>3, <2>1 DEF WritePackage
<1>9. CASE Finish
  BY <1>9, Stopped DEF Finish, ArchiveInv
<1>10. CASE Crash
  <2>1. raw' = raw /\ delivery' = delivery /\ Stop("died")
    BY <1>10 DEF Crash, LeftBehind
  <2>2. QED
    BY <2>1, Stopped DEF ArchiveInv
<1>11. ASSUME NEW d \in Delivered, Redeliver(d)
       PROVE  ArchiveInv' /\ raw' = raw
  <2>1. raw' = raw /\ run' = run
    BY <1>11 DEF Redeliver
  <2>2. delivery' \in [Delivered -> Contents \cup {None}]
    BY <1>11, DeliveredAssumption DEF Redeliver, ArchiveInv
  <2>3. (Begun' <=> Begun) /\ Todo' = Todo /\ Current' = Current
    BY <2>1, SameTarget DEF Begun
  <2>4. QED
    BY <2>1, <2>2, <2>3 DEF ArchiveInv
<1>12. CASE UNCHANGED vars
  <2>1. raw' = raw /\ run' = run /\ delivery' = delivery
    BY <1>12 DEF vars
  <2>2. (Begun' <=> Begun) /\ Todo' = Todo /\ Current' = Current
    BY <2>1, SameTarget DEF Begun
  <2>3. QED
    BY <2>1, <2>2 DEF ArchiveInv
<1>13. Analyse \/ OpenTable \/ FillTable \/ WritePackage \/ Finish \/ Crash => raw' = raw
  BY DEF Analyse, OpenTable, FillTable, WritePackage, Finish, Crash, LeftBehind
<1>14. UNCHANGED vars => raw' = raw
  BY DEF vars
<1>15. QED
  BY <1>1, <1>2, <1>3, <1>4, <1>6, <1>7, <1>8, <1>9, <1>10, <1>11, <1>12, <1>13, <1>14
     DEF Next, Step

LEMMA ArchiveInvHolds == Spec => []ArchiveInv
<1>1. ArchiveInv /\ [Next]_vars => ArchiveInv'
  BY ArchiveStep
<1>2. QED
  BY <1>1, ArchiveInvInit, PTL DEF Spec

-----------------------------------------------------------------------------
\* Wherever a run dies and whatever the next delivery holds, a file of the
\* archive is never replaced, changed or removed, and what appears at a free
\* canonical path is a whole delivered file of that path (build_canonical_archive).
THEOREM ArchiveWrittenOnce == Spec => RawWriteOnce
<1> DEFINE Once ==
      \A t \in Targets :
        raw'[t] # raw[t] => /\ raw[t] = None
                            /\ run.pc = "verify"
                            /\ raw'[t] \in {run.seen[d] : d \in Candidates(run.seen, t)}
<1>1. ArchiveInv /\ [Next]_vars => Once
  BY ArchiveStep
<1>2. Once => [Once]_vars
  OBVIOUS
<1>3. QED
  BY ArchiveInvHolds, <1>1, <1>2, PTL DEF Spec, RawWriteOnce

\* A canonical path is free or holds a delivered content: the torn copy that a
\* death leaves behind stays under its temporary name.
THEOREM ArchiveNeverTorn == Spec => []NothingTorn
<1>1. ArchiveInv => NothingTorn
  BY DEF ArchiveInv, NothingTorn
<1>2. QED
  BY ArchiveInvHolds, <1>1, PTL

-----------------------------------------------------------------------------
(* What a run that has not failed has made of its delivery.                 *)
Sha(t) == run.seen[Retained(run.seen, t)]

\* A target that was gone through: its deliveries agree, and the archive has
\* them, or nothing if the run only verifies.
Settled(t) ==
  /\ t \in {d.target : d \in Present(run.seen)}
  /\ ~Collides(run.seen, t)
  /\ raw[t] = Sha(t) \/ (run.verifyOnly /\ raw[t] = None)

Archiving == {"archive", "copy", "verify"}
Writing == run.pc \in {"write", "fill"} \/ run.outcome = "done"

\* A session that could be read was read in the archive, under its digest, and is
\* what the analysis makes of the file.
Analysed(s) ==
  /\ s.target \in Targets
  /\ s.status # "error" => /\ raw[s.target] = s.sha /\ s.sha \in Contents
                           /\ s = Session(s.target, s.sha, s.sha)

Packaged(st) ==
  /\ st \in StationsOf(run.sessions)
  /\ Usable(Of(run.sessions, st)) # {}
  /\ packages[st] = Package(st)

RunInv ==
  /\ DOMAIN tables = DOMAIN Tables /\ DOMAIN packages = Stations
  /\ run.pc # "idle" => run.outcome = "none"
  /\ run.outcome = "done" => Begun
  /\ run.pc \in Archiving \/ Writing => \A t \in run.archived : Settled(t)
  /\ run.pc \in Archiving => run.at = 1 /\ run.packed = {}
  /\ run.pc \in {"copy", "verify"} => ~Collides(run.seen, Current)
  /\ Writing =>
       /\ Todo = {}
       /\ \A s \in run.sessions : Analysed(s)
       /\ run.at \in Nat /\ (run.packed # {} => run.at > Len(Tables))
       /\ run.at > 1 => tables[1] = Manifest
       /\ run.at > 2 => tables[2] = Registry(run.sessions)
       /\ \A st \in run.packed : Packaged(st)
  /\ run.outcome = "done" => run.pc = "idle" /\ run.at > Len(Tables) /\ Unpacked = {}

-----------------------------------------------------------------------------
\* A copy is retained only where there are copies alone.
LEMMA RetainedCopy ==
  ASSUME NEW seen, NEW t, Retained(seen, t).copy, NEW e \in Candidates(seen, t)
  PROVE  e.copy
<1> DEFINE C == Candidates(seen, t)
           originals == {d \in C : ~d.copy}
           best == IF originals # {} THEN originals ELSE C
<1>1. \A d \in C : d.n \in Nat /\ d.copy \in BOOLEAN
  BY DeliveredAssumption DEF Candidates, Present
<1>2. best # {} /\ \A d \in best : d.n \in Nat
  BY <1>1
<1>3. PICK d \in best : \A x \in best : d.n <= x.n
  BY <1>2, LeastOf
<1>4. \A x \in C : (~d.copy /\ x.copy) \/ (d.copy = x.copy /\ d.n <= x.n)
  BY <1>1, <1>3
<1>5. d \in C
  BY <1>3
<1> DEFINE r == Retained(seen, t)
<1>6. /\ r \in C
      /\ \A x \in C : (~r.copy /\ x.copy) \/ (r.copy = x.copy /\ r.n <= x.n)
  BY <1>4, <1>5 DEF Retained
<1>7. QED
  BY <1>6

LEMMA UnreadableIsError ==
  ASSUME NEW t, NEW sha
  PROVE  Session(t, sha, Unreadable).status = "error"
  BY DEF Session, Status, Converted, Unreadable

LEMMA SessionIs ==
  ASSUME NEW t, NEW sha, NEW f
  PROVE  /\ Session(t, sha, f).target = t /\ Session(t, sha, f).sha = sha
         /\ Session(t, sha, f).status = Status(f)
         /\ Session(t, sha, f).completeness = Completeness(f)
         /\ Session(t, sha, f).interval = Interval(f)
         /\ Session(t, sha, f).first = IF f.epochs = <<>> THEN None ELSE f.epochs[1]
         /\ Session(t, sha, f).last = IF f.epochs = <<>> THEN None ELSE f.epochs[Len(f.epochs)]
  BY DEF Session

LEMMA NextStationIs ==
  ASSUME Unpacked # {}, \A s \in run.sessions : s.target \in Targets
  PROVE  NextStation \in Unpacked /\ NextStation \in Stations
<1> DEFINE T == {t \in Targets : t.station \in Unpacked}
<1>1. \A st \in Unpacked : \E t \in Targets : t.station = st
  BY DEF Unpacked, StationsOf
<1>2. T # {} /\ \A t \in T : t.n \in Nat
  BY <1>1, DeliveredAssumption DEF Targets
<1>3. PICK t \in T : \A u \in T : t.n <= u.n
  BY <1>2, LeastOf
<1>4. \E st \in Unpacked : \E u \in Targets :
        u.station = st /\ \A v \in Targets : v.station \in Unpacked => u.n <= v.n
  BY <1>3
<1>5. NextStation \in Unpacked
  BY <1>4 DEF NextStation
<1>6. QED
  BY <1>1, <1>5 DEF Stations

\* The session that stands for a station was read.
LEMMA RepresentativeIs ==
  ASSUME NEW st, Usable(Of(run.sessions, st)) # {}, \A s \in run.sessions : Analysed(s)
  PROVE  raw[Representative(st).target] = Representative(st).sha
<1> DEFINE rows == Usable(Of(run.sessions, st))
           T == {s.target : s \in rows}
<1>1. \A s \in rows : s.target \in Targets /\ s.target.n \in Nat /\ raw[s.target] = s.sha
  BY DeliveredAssumption DEF Usable, Of, Analysed, Targets
<1>2. T # {} /\ \A t \in T : t.n \in Nat
  BY <1>1
<1>3. PICK t \in T : \A u \in T : t.n <= u.n
  BY <1>2, LeastOf
<1>4. \E s \in rows : \A other \in rows : s.target.n <= other.target.n
  BY <1>3
<1>5. Representative(st) \in rows
  BY <1>4 DEF Representative
<1>6. QED
  BY <1>1, <1>5

\* The tables that the properties are about.
LEMMA TablesAre ==
  /\ Tables[1] = "manifest" /\ Tables[2] = "registry" /\ Len(Tables) = 9 /\ DOMAIN Tables = 1..9
  /\ TableOf("manifest") = Manifest /\ TableOf("registry") = Registry(run.sessions)
  BY DEF Tables, TableOf

\* What of the run and of the archive the records are made of.
LEMMA SameRecords ==
  ASSUME run'.seen = run.seen, run'.archived = run.archived
  PROVE  Manifest' = Manifest
  BY DEF Manifest, Records, Duplicates, Present

LEMMA SettledStays ==
  ASSUME NEW t, Settled(t), run'.seen = run.seen, run'.verifyOnly = run.verifyOnly,
         raw'[t] = raw[t]
  PROVE  Settled(t)'
  BY DEF Settled, Sha, Collides, Candidates, Present

-----------------------------------------------------------------------------
LEMMA RunInvInit == Init => RunInv
  BY DEF Init, RunInv, Idle, Archiving, Writing

LEMMA RunStops ==
  ASSUME ArchiveInv, RunInv, run.pc # "idle", NEW outcome \in {"failed", "died"}, Stop(outcome),
         DOMAIN tables' = DOMAIN Tables, DOMAIN packages' = Stations
  PROVE  RunInv'
<1>1. run'.pc = "idle" /\ run'.outcome = outcome
  BY DEF ArchiveInv, Begun, Stop
<1>2. QED
  BY <1>1 DEF RunInv, Archiving, Writing

LEMMA CheckTargetRun ==
  ASSUME ArchiveInv, RunInv, CheckTarget
  PROVE  RunInv'
<1>1. /\ run.pc = "archive" /\ Todo # {} /\ Begun /\ UNCHANGED <<raw, tables, packages>>
      /\ run.outcome = "none"
  BY DEF CheckTarget, ArchiveInv, RunInv
<1>2. CASE Stop("failed")
  BY <1>1, <1>2, RunStops DEF RunInv
<1>3. CASE /\ ~Collides(run.seen, Current) /\ Archived
           /\ raw[Current] = Sha(Current) \/ (run.verifyOnly /\ raw[Current] = None)
  <2>1. /\ run' = [run EXCEPT !.archived = @ \cup {Current}, !.pc = "archive"]
        /\ run'.seen = run.seen /\ run'.verifyOnly = run.verifyOnly
    BY <1>1, <1>3 DEF Archived, Begun
  <2>2. Current \in {d.target : d \in Present(run.seen)}
    BY <1>1, CurrentIsTodo DEF Todo
  <2>3. Settled(Current)
    BY <1>3, <2>2 DEF Settled
  <2>4. \A u : Settled(u) => Settled(u)'
    BY <1>1, <2>1 DEF Settled, Sha, Collides, Candidates, Present
  <2>5. run'.archived = run.archived \cup {Current} /\ \A u \in run'.archived : Settled(u)'
    BY <1>1, <2>1, <2>3, <2>4 DEF RunInv, Archiving, Begun
  <2>6. run'.pc = "archive" /\ run'.outcome = "none" /\ run'.at = 1 /\ run'.packed = {}
    BY <1>1, <2>1 DEF Begun, RunInv, Archiving
  <2>7. QED
    BY <1>1, <2>5, <2>6 DEF RunInv, Archiving, Writing
<1>4. CASE ~Collides(run.seen, Current) /\ run' = [run EXCEPT !.pc = "copy"]
  <2>1. /\ run'.pc = "copy" /\ run'.outcome = "none" /\ run'.at = 1 /\ run'.packed = {}
        /\ run'.seen = run.seen /\ run'.archived = run.archived /\ run'.verifyOnly = run.verifyOnly
    BY <1>1, <1>4 DEF Begun, RunInv, Archiving
  <2>2. Current' = Current
    BY <2>1, SameTarget
  <2>3. \A t \in run'.archived : Settled(t)'
    BY <1>1, <2>1 DEF RunInv, Archiving, Settled, Sha, Collides, Candidates, Present
  <2>4. ~Collides(run'.seen, Current')
    BY <1>4, <2>1, <2>2
  <2>5. QED
    BY <1>1, <2>1, <2>3, <2>4 DEF RunInv, Archiving, Writing
<1>5. QED
  BY <1>1, <1>2, <1>3, <1>4 DEF CheckTarget, Sha

LEMMA CopyRun ==
  ASSUME ArchiveInv, RunInv, Copy
  PROVE  RunInv'
<1>1. /\ run.pc = "copy" /\ Begun /\ UNCHANGED <<raw, tables, packages>> /\ run.outcome = "none"
  BY DEF Copy, CopyTo, ArchiveInv, RunInv
<1>2. CASE Stop("failed")
  BY <1>1, <1>2, RunStops DEF RunInv
<1>3. CASE run' = [run EXCEPT !.pc = "verify"]
  <2>1. /\ run'.pc = "verify" /\ run'.outcome = "none" /\ run'.at = 1 /\ run'.packed = {}
        /\ run'.seen = run.seen /\ run'.archived = run.archived /\ run'.verifyOnly = run.verifyOnly
    BY <1>1, <1>3 DEF Begun, RunInv, Archiving
  <2>2. Current' = Current
    BY <2>1, SameTarget
  <2>3. \A t \in run'.archived : Settled(t)'
    BY <1>1, <2>1 DEF RunInv, Archiving, Settled, Sha, Collides, Candidates, Present
  <2>4. ~Collides(run'.seen, Current')
    BY <1>1, <2>1, <2>2 DEF RunInv
  <2>5. QED
    BY <1>1, <2>1, <2>3, <2>4 DEF RunInv, Archiving, Writing
<1>4. QED
  BY <1>1, <1>2, <1>3 DEF Copy

LEMMA VerifyRun ==
  ASSUME ArchiveInv, RunInv, Verify
  PROVE  RunInv'
<1>1. /\ run.pc = "verify" /\ Begun /\ UNCHANGED <<tables, packages>> /\ run.outcome = "none"
      /\ Todo # {}
  BY DEF Verify, ArchiveInv, RunInv
<1>2. CASE Stop("failed")
  BY <1>1, <1>2, RunStops DEF RunInv
<1>3. CASE /\ raw' = [raw EXCEPT ![Current] = Sha(Current)]
           /\ run' = [run EXCEPT !.archived = @ \cup {Current}, !.pc = "archive"]
  <2>1. /\ run'.pc = "archive" /\ run'.outcome = "none" /\ run'.at = 1 /\ run'.packed = {}
        /\ run'.seen = run.seen /\ run'.archived = run.archived \cup {Current}
        /\ run'.verifyOnly = run.verifyOnly
    BY <1>1, <1>3 DEF Begun, RunInv, Archiving
  <2>2. Current \in Targets /\ Current \in {d.target : d \in Present(run.seen)} /\ Current \notin run.archived
    BY <1>1, CurrentIsTodo DEF Todo
  <2>3. raw'[Current] = Sha(Current) /\ \A t \in run.archived : raw'[t] = raw[t]
    BY <1>3, <2>2 DEF ArchiveInv
  <2>4. \A t \in run.archived : Settled(t)'
    BY <1>1, <2>1, <2>3 DEF RunInv, Archiving, Settled, Sha, Collides, Candidates, Present
  <2> DEFINE c == Current
  <2>5. /\ c \in {d.target : d \in Present(run.seen)} /\ ~Collides(run.seen, c)
        /\ raw'[c] = Sha(c)
    BY <1>1, <2>2, <2>3 DEF RunInv
  <2> HIDE DEF c
  <2>6. \A t \in {c} : Settled(t)'
    BY <2>1, <2>5 DEF Settled, Sha, Collides, Candidates, Present
  <2>7. \A t \in run'.archived : Settled(t)'
    BY <2>1, <2>4, <2>6 DEF c
  <2>8. QED
    BY <1>1, <2>1, <2>7 DEF RunInv, Archiving, Writing
<1>4. QED
  BY <1>1, <1>2, <1>3 DEF Verify, Sha

LEMMA AnalyseRun ==
  ASSUME ArchiveInv, RunInv, Analyse
  PROVE  RunInv'
<1>1. /\ run.pc = "archive" /\ Begun /\ UNCHANGED <<raw, tables, packages>> /\ run.outcome = "none"
      /\ Todo = {}
  BY DEF Analyse, ArchiveInv, RunInv
<1> DEFINE f(r) == IF raw[r.target] # None THEN raw[r.target] ELSE Unreadable
           S == {Session(r.target, r.sha, f(r)) : r \in {x \in Records : x.target.kind = "observation"}}
<1>2. run' = [run EXCEPT !.pc = "write", !.sessions = S]
  BY DEF Analyse
<1>3. ASSUME NEW s \in S PROVE Analysed(s)
  <2>1. PICK r \in Records : s = Session(r.target, r.sha, f(r))
    OBVIOUS
  <2>2. r.target \in run.archived /\ r.sha = Sha(r.target)
    BY <2>1 DEF Records, Sha
  <2>3. Settled(r.target)
    BY <1>1, <2>2 DEF RunInv, Archiving
  <2>4. s.target = r.target /\ s.sha = r.sha
    BY <2>1, SessionIs
  <2>5. r.target \in Targets /\ (raw[r.target] = r.sha \/ raw[r.target] = None)
    BY <2>2, <2>3 DEF Settled, Present, Targets
  <2>6. raw[r.target] = None => s.status = "error"
    BY <2>1, UnreadableIsError
  <2>7. r.sha \in Contents \cup {None}
    <3>1. Candidates(run.seen, r.target) # {}
      BY <2>3 DEF Settled, Candidates
    <3>2. Retained(run.seen, r.target) \in Delivered
      BY <3>1, RetainedIsCandidate DEF Candidates, Present
    <3>3. QED
      BY <1>1, <2>2, <3>2 DEF Begun, Sha
  <2>8. ASSUME raw[r.target] # None
        PROVE  raw[r.target] = r.sha /\ r.sha \in Contents /\ s = Session(r.target, r.sha, r.sha)
    BY <2>1, <2>5, <2>7, <2>8
  <2>9. QED
    BY <2>4, <2>5, <2>6, <2>8 DEF Analysed
<1> HIDE DEF S
<1>4. /\ run'.pc = "write" /\ run'.outcome = "none" /\ run'.at = 1 /\ run'.packed = {}
      /\ run'.seen = run.seen /\ run'.archived = run.archived /\ run'.verifyOnly = run.verifyOnly
      /\ run'.sessions = S
  BY <1>1, <1>2 DEF Begun, RunInv, Archiving
<1>5. Todo' = {}
  BY <1>1, <1>4, SameTarget
<1>6. \A t \in run'.archived : Settled(t)'
  BY <1>1, <1>4 DEF RunInv, Archiving, Settled, Sha, Collides, Candidates, Present
<1>7. \A s \in run'.sessions : Analysed(s)'
  BY <1>1, <1>3, <1>4 DEF Analysed
<1>8. QED
  BY <1>1, <1>4, <1>5, <1>6, <1>7 DEF RunInv, Archiving, Writing

\* What a step of the writing keeps.
LEMMA WritingKept ==
  ASSUME RunInv, Writing, raw' = raw,
         run'.seen = run.seen, run'.archived = run.archived, run'.verifyOnly = run.verifyOnly,
         run'.sessions = run.sessions
  PROVE  /\ \A t \in run'.archived : Settled(t)'
         /\ Todo' = {} /\ Manifest' = Manifest
         /\ \A s \in run'.sessions : Analysed(s)'
<1>1. Todo' = {}
  BY SameTarget DEF RunInv
<1>2. \A t \in run'.archived : Settled(t)'
  BY DEF RunInv, Settled, Sha, Collides, Candidates, Present
<1>3. \A s \in run'.sessions : Analysed(s)'
  BY DEF RunInv, Analysed
<1>4. QED
  BY <1>1, <1>2, <1>3, SameRecords

LEMMA TableRun ==
  ASSUME ArchiveInv, RunInv, OpenTable \/ FillTable
  PROVE  RunInv'
<1>1. /\ run.pc \in {"write", "fill"} /\ Begun /\ UNCHANGED <<raw, packages>>
      /\ run.outcome = "none" /\ Writing /\ run.at \in DOMAIN Tables
  BY DEF OpenTable, FillTable, ArchiveInv, RunInv, Writing
<1>2. run.at \in 1..9 /\ run.packed = {} /\ Len(Tables) = 9
  BY <1>1, TablesAre DEF RunInv
<1>3. /\ run'.pc \in {"write", "fill"} /\ run'.outcome = "none" /\ run'.packed = {}
      /\ run'.seen = run.seen /\ run'.archived = run.archived /\ run'.verifyOnly = run.verifyOnly
      /\ run'.sessions = run.sessions
  BY <1>1, <1>2 DEF OpenTable, FillTable, Begun
<1>4. /\ \A t \in run'.archived : Settled(t)'
      /\ Todo' = {} /\ Manifest' = Manifest
      /\ \A s \in run'.sessions : Analysed(s)'
  BY <1>1, <1>3, WritingKept
<1>5. DOMAIN tables' = DOMAIN Tables
  BY <1>1 DEF OpenTable, FillTable, RunInv
<1>6. /\ run'.at \in Nat
      /\ run'.at > 1 => tables'[1] = Manifest
      /\ run'.at > 2 => tables'[2] = Registry(run.sessions)
  <2>1. CASE OpenTable
    <3>1. run'.at = run.at /\ tables' = [tables EXCEPT ![run.at] = Torn]
      BY <1>1, <2>1 DEF OpenTable, Begun
    <3>2. QED
      BY <1>1, <1>2, <3>1, TablesAre DEF RunInv
  <2>2. CASE FillTable
    <3>1. run'.at = run.at + 1 /\ tables' = [tables EXCEPT ![run.at] = TableOf(Tables[run.at])]
      BY <1>1, <2>2 DEF FillTable, Begun
    <3>2. CASE run.at = 1
      BY <1>1, <3>1, <3>2, TablesAre DEF RunInv
    <3>3. CASE run.at = 2
      BY <1>1, <3>1, <3>3, TablesAre DEF RunInv
    <3>4. CASE run.at > 2
      BY <1>1, <1>2, <3>1, <3>4, TablesAre DEF RunInv
    <3>5. QED
      BY <1>2, <3>2, <3>3, <3>4
  <2>3. QED
    BY <2>1, <2>2
<1>7. DOMAIN packages' = Stations
  BY <1>1 DEF RunInv
<1>8. QED
  BY <1>3, <1>4, <1>5, <1>6, <1>7 DEF RunInv, Archiving, Writing

LEMMA PackageRun ==
  ASSUME ArchiveInv, RunInv, WritePackage
  PROVE  RunInv'
<1>1. /\ run.pc = "write" /\ Begun /\ UNCHANGED <<raw, tables>> /\ run.outcome = "none"
      /\ Writing /\ run.at > Len(Tables) /\ Unpacked # {}
  BY DEF WritePackage, Packing, ArchiveInv, RunInv, Writing
<1> DEFINE st == NextStation
<1>2. CASE Stop("failed") /\ packages' = packages
  BY <1>1, <1>2, RunStops DEF RunInv
<1>3. CASE /\ Usable(Of(run.sessions, st)) # {}
           /\ packages' = [packages EXCEPT ![st] = Package(st)]
           /\ run' = [run EXCEPT !.packed = @ \cup {st}]
  <2>1. st \in Unpacked /\ st \in Stations
    BY <1>1, NextStationIs DEF RunInv, Analysed
  <2>2. Usable(Of(run.sessions, st)) # {}
    BY <1>3
  <2> HIDE DEF st
  <2>3. /\ run'.pc = "write" /\ run'.outcome = "none" /\ run'.packed = run.packed \cup {st}
        /\ run'.seen = run.seen /\ run'.archived = run.archived /\ run'.verifyOnly = run.verifyOnly
        /\ run'.sessions = run.sessions /\ run'.at = run.at
    BY <1>1, <1>3 DEF Begun
  <2>4. /\ \A t \in run'.archived : Settled(t)'
        /\ Todo' = {} /\ Manifest' = Manifest
        /\ \A s \in run'.sessions : Analysed(s)'
    BY <1>1, <2>3, WritingKept
  <2>5. \A x : Package(x)' = Package(x)
    BY <1>1, <2>3 DEF Package, Representative, RegistryRow
  <2>6. /\ packages'[st] = Package(st) /\ DOMAIN packages' = Stations
        /\ \A x \in run.packed : packages'[x] = packages[x]
    BY <1>3, <2>1 DEF RunInv, Unpacked
  <2>7. \A x \in run'.packed : Packaged(x)'
    BY <1>1, <2>1, <2>2, <2>3, <2>5, <2>6 DEF RunInv, Packaged, Unpacked
  <2>8. QED
    BY <1>1, <2>3, <2>4, <2>6, <2>7 DEF RunInv, Archiving, Writing
<1>4. QED
  BY <1>2, <1>3 DEF WritePackage

LEMMA FinishRun ==
  ASSUME ArchiveInv, RunInv, Finish
  PROVE  RunInv'
<1>1. /\ run.pc = "write" /\ Begun /\ UNCHANGED <<raw, tables, packages>> /\ Writing
      /\ run.at > Len(Tables) /\ Unpacked = {} /\ Stop("done")
  BY DEF Finish, ArchiveInv, RunInv, Writing
<1>2. /\ run'.pc = "idle" /\ run'.outcome = "done" /\ run'.packed = run.packed /\ Begun'
      /\ run'.seen = run.seen /\ run'.archived = run.archived /\ run'.verifyOnly = run.verifyOnly
      /\ run'.sessions = run.sessions /\ run'.at = run.at
  BY <1>1 DEF Begun, Stop
<1>3. /\ \A t \in run'.archived : Settled(t)'
      /\ Todo' = {} /\ Manifest' = Manifest
      /\ \A s \in run'.sessions : Analysed(s)'
  BY <1>1, <1>2, WritingKept
<1>4. \A x \in run'.packed : Packaged(x)'
  <2>1. \A x : Package(x)' = Package(x)
    BY <1>1, <1>2 DEF Package, Representative, RegistryRow
  <2>2. QED
    BY <1>1, <1>2, <2>1 DEF RunInv, Packaged
<1>5. Unpacked' = {}
  BY <1>1, <1>2 DEF Unpacked
<1>6. QED
  BY <1>1, <1>2, <1>3, <1>4, <1>5 DEF RunInv, Archiving, Writing

\* A step that leaves the run, its tables and packages and the archive as they are.
LEMMA RunWaits ==
  ASSUME RunInv, UNCHANGED <<run, raw, tables, packages>>
  PROVE  RunInv'
<1>1. Todo' = Todo /\ Current' = Current /\ Manifest' = Manifest /\ Unpacked' = Unpacked
      /\ (Begun' <=> Begun)
  BY SameTarget, SameRecords DEF Unpacked, Begun
<1>2. \A t \in run.archived : Settled(t) => Settled(t)'
  BY DEF Settled, Sha, Collides, Candidates, Present
<1>3. \A x \in run.packed : Packaged(x) => Packaged(x)'
  BY DEF Packaged, Package, Representative, RegistryRow
<1>4. \A s \in run.sessions : Analysed(s) => Analysed(s)'
  BY DEF Analysed
<1>5. ~Collides(run.seen, Current) => ~Collides(run'.seen, Current')
  BY <1>1
<1>6. QED
  BY <1>1, <1>2, <1>3, <1>4, <1>5 DEF RunInv, Writing

LEMMA RunStep == ArchiveInv /\ RunInv /\ [Next]_vars => RunInv'
<1> SUFFICES ASSUME ArchiveInv, RunInv, [Next]_vars
             PROVE  RunInv'
  OBVIOUS
<1>1. ASSUME NEW verifyOnly \in BOOLEAN, Discover(verifyOnly)
      PROVE  RunInv'
  <2>1. DOMAIN tables' = DOMAIN Tables /\ DOMAIN packages' = Stations
    BY <1>1 DEF Discover, RunInv
  <2>2. CASE run' = [pc |-> "archive", outcome |-> "none", verifyOnly |-> verifyOnly,
                     seen |-> delivery, archived |-> {}, sessions |-> {}, at |-> 1, packed |-> {}]
    BY <2>1, <2>2 DEF RunInv, Archiving, Writing
  <2>3. CASE run' = [pc |-> "idle", outcome |-> "failed"]
    BY <2>1, <2>3 DEF RunInv, Archiving, Writing
  <2>4. QED
    BY <1>1, <2>2, <2>3 DEF Discover
<1>2. CASE Crash
  <2>1. run.pc # "idle" /\ Stop("died") /\ tables' = tables /\ DOMAIN packages' = Stations
    BY <1>2 DEF Crash, RunInv
  <2>2. QED
    BY <2>1, RunStops DEF RunInv
<1>3. ASSUME NEW d \in Delivered, Redeliver(d)
      PROVE  RunInv'
  BY <1>3, RunWaits DEF Redeliver
<1>4. CASE UNCHANGED vars
  BY <1>4, RunWaits DEF vars
<1>5. QED
  BY <1>1, <1>2, <1>3, <1>4, CheckTargetRun, CopyRun, VerifyRun, AnalyseRun, TableRun,
     PackageRun, FinishRun DEF Next, Step

LEMMA RunInvHolds == Spec => []RunInv
<1>1. ArchiveInv /\ RunInv /\ [Next]_vars => RunInv'
  BY RunStep
<1>2. QED
  BY <1>1, RunInvInit, ArchiveInvHolds, PTL DEF Spec

-----------------------------------------------------------------------------
\* A run that reports success went through every delivered file: its manifest
\* names the file or the equal one it was left out for, and without
\* --verify-only the archive has its content (build_canonical_archive,
\* _inventory_payload).
THEOREM ManifestIsComplete == Spec => []ManifestComplete
<1>1. RunInv => ManifestComplete
  <2> SUFFICES ASSUME RunInv, run.outcome = "done"
               PROVE  ManifestComplete
    BY DEF ManifestComplete
  <2>1. Todo = {} /\ \A t \in run.archived : Settled(t)
    BY DEF RunInv, Writing
  <2>2. tables[1].records = Records /\ tables[1].duplicates = Duplicates
    <3>1. run.at \in Nat /\ run.at > 9 /\ (run.at > 1 => tables[1] = Manifest)
      BY TablesAre DEF RunInv, Writing
    <3>2. QED
      BY <3>1 DEF Manifest
  <2> DEFINE record(t) == [target |-> t, source |-> Retained(run.seen, t), sha |-> Sha(t)]
  <2>3. ASSUME NEW d \in Present(run.seen)
        PROVE  \E r \in Records :
                  /\ r.target = d.target /\ r.sha = run.seen[d]
                  /\ (r.source.copy => \A e \in Present(run.seen) :
                                          e.target = r.target => e.copy)
                  /\ r.source = d \/ [excluded |-> d, retained |-> r.source] \in Duplicates
    <3> DEFINE t == d.target
               best == Retained(run.seen, t)
    <3>1. t \in run.archived
      BY <2>1 DEF Todo
    <3>2. Settled(t)
      BY <2>1, <3>1
    <3>3. d \in Candidates(run.seen, t) /\ best \in Candidates(run.seen, t)
      BY RetainedIsCandidate DEF Candidates
    <3>4. Sha(t) = run.seen[d]
      BY <3>2, <3>3 DEF Settled, Collides, Sha
    <3>5. ASSUME best.copy, NEW e \in Present(run.seen), e.target = t
          PROVE  e.copy
      BY <3>5, RetainedCopy DEF Candidates
    <3>6. best = d \/ [excluded |-> d, retained |-> best] \in Duplicates
      BY DEF Duplicates
    <3>7. record(t) \in Records
      BY <3>1 DEF Records, Sha
    <3>8. QED
      BY <3>4, <3>5, <3>6, <3>7
  <2>4. ASSUME ~run.verifyOnly, NEW r \in Records
        PROVE  raw[r.target] = r.sha
    BY <2>1, <2>4 DEF Records, Settled, Sha
  <2>5. QED
    BY <2>2, <2>3, <2>4 DEF ManifestComplete
<1>2. QED
  BY <1>1, RunInvHolds, PTL

\* After a run that reports success the package of every station of the
\* registry cites the manifest that is there, a file of the archive by its
\* digest, and the registry's span of observations
\* (_write_station_import_packages).
THEOREM PackagesAreVerifiable == Spec => []PackagesVerify
<1>1. RunInv => PackagesVerify
  <2> SUFFICES ASSUME RunInv, run.outcome = "done",
                      NEW row \in tables[2]
               PROVE  LET p == packages[row.station]
                      IN  /\ p.state = "whole"
                          /\ p.manifest = tables[1]
                          /\ raw[p.header] = p.sha
                          /\ p.span = [first |-> row.first, last |-> row.last]
    BY DEF PackagesVerify
  <2>1. /\ Unpacked = {} /\ \A s \in run.sessions : Analysed(s)
        /\ \A st \in run.packed : Packaged(st)
    BY DEF RunInv, Writing
  <2>2. tables[2] = Registry(run.sessions)
    <3>1. run.at \in Nat /\ run.at > 9 /\ (run.at > 2 => tables[2] = Registry(run.sessions))
      BY TablesAre DEF RunInv, Writing
    <3>2. QED
      BY <3>1
  <2>3. PICK st \in StationsOf(run.sessions) : row = RegistryRow(run.sessions, st)
    BY <2>2 DEF Registry
  <2>4. row.station = st
    BY <2>3 DEF RegistryRow
  <2>5. Packaged(st)
    BY <2>1 DEF Unpacked
  <2>6. packages[row.station] = Package(st)
    BY <2>4, <2>5 DEF Packaged
  <2>7. raw[Representative(st).target] = Representative(st).sha
    BY <2>1, <2>5, RepresentativeIs DEF Packaged
  <2>8. QED
    BY <2>3, <2>6, <2>7 DEF Package
<1>2. QED
  BY <1>1, RunInvHolds, PTL
-----------------------------------------------------------------------------
(* The recursion of the folds over finite sets, for a sum of sizes.         *)
Folded(g, G, it) ==
  it = [s \in SUBSET G |->
          IF s = {} THEN 0
          ELSE g[CHOOSE x \in s : TRUE] + it[s \ {CHOOSE x \in s : TRUE}]]

Together(A, s) == UNION {A[i] : i \in s}

LEMMA TogetherTyped ==
  ASSUME NEW G, IsFiniteSet(G), NEW A, \A i \in G : IsFiniteSet(A[i]), NEW s \in SUBSET G
  PROVE  IsFiniteSet(Together(A, s)) /\ Cardinality(Together(A, s)) \in Nat
<1>1. IsFiniteSet(s)
  BY FS_Subset
<1> DEFINE R == {A[i] : i \in s}
<1>2. IsFiniteSet(R)
  <2> DEFINE f == [i \in s |-> A[i]]
  <2>1. f \in Surjection(s, R)
    BY DEF Surjection
  <2>2. QED
    BY <1>1, <2>1, FS_Surjection
<1>3. IsFiniteSet(UNION R)
  <2>1. \A T \in R : IsFiniteSet(T)
    OBVIOUS
  <2>2. QED
    BY <1>2, <2>1, FS_UNION
<1>4. QED
  BY <1>3, FS_CardinalityType DEF Together

LEMMA OneMore ==
  ASSUME NEW G, IsFiniteSet(G), NEW A, \A i \in G : IsFiniteSet(A[i]),
         \A i, j \in G : i # j => A[i] \cap A[j] = {},
         NEW s \in SUBSET G, NEW x \in s
  PROVE  Cardinality(Together(A, s)) = Cardinality(A[x]) + Cardinality(Together(A, s \ {x}))
<1> DEFINE r == s \ {x}
           W == Together(A, r)
<1>1. r \in SUBSET G /\ x \in G
  OBVIOUS
<1>2. IsFiniteSet(W) /\ Cardinality(W) \in Nat /\ IsFiniteSet(A[x])
  BY <1>1, TogetherTyped
<1>3. Together(A, s) = A[x] \cup W
  BY DEF Together
<1>4. A[x] \cap W = {}
  BY <1>1 DEF Together
<1>5. Cardinality(A[x]) \in Nat
  BY <1>2, FS_CardinalityType
<1>6. W = Together(A, s \ {x})
  OBVIOUS
<1> HIDE DEF W
<1>7. Cardinality(A[x] \cup W) = Cardinality(A[x]) + Cardinality(W) - Cardinality(A[x] \cap W)
  BY <1>2, FS_Union
<1>8. Cardinality(A[x] \cap W) = 0
  BY <1>4, FS_EmptySet
<1>9. Cardinality(A[x] \cup W) = Cardinality(A[x]) + Cardinality(W)
  BY <1>2, <1>5, <1>7, <1>8
<1>10. QED
  BY <1>3, <1>6, <1>9

LEMMA FoldExists ==
  ASSUME NEW G, IsFiniteSet(G), NEW A, \A i \in G : IsFiniteSet(A[i]),
         \A i, j \in G : i # j => A[i] \cap A[j] = {},
         NEW g, \A i \in G : g[i] = Cardinality(A[i])
  PROVE  Folded(g, G, [s \in SUBSET G |-> Cardinality(Together(A, s))])
<1> DEFINE it == [s \in SUBSET G |-> Cardinality(Together(A, s))]
           First(s) == CHOOSE x \in s : TRUE
<1>1. ASSUME NEW s \in SUBSET G
      PROVE  it[s] = IF s = {} THEN 0 ELSE g[First(s)] + it[s \ {First(s)}]
  <2>1. CASE s = {}
    <3>1. Together(A, {}) = {}
      BY DEF Together
    <3>2. QED
      BY <2>1, <3>1, FS_EmptySet
  <2>2. CASE s # {}
    <3>1. First(s) \in s /\ First(s) \in G /\ s \ {First(s)} \in SUBSET G
      BY <2>2
    <3> HIDE DEF First
    <3>2. Cardinality(Together(A, s)) =
            Cardinality(A[First(s)]) + Cardinality(Together(A, s \ {First(s)}))
      BY <3>1, OneMore
    <3>3. QED
      BY <2>2, <3>1, <3>2
  <2>3. QED
    BY <2>1, <2>2
<1>2. QED
  BY <1>1 DEF Folded

LEMMA FoldIs ==
  ASSUME NEW G, IsFiniteSet(G), NEW A, \A i \in G : IsFiniteSet(A[i]),
         \A i, j \in G : i # j => A[i] \cap A[j] = {},
         NEW g, \A i \in G : g[i] = Cardinality(A[i]),
         NEW it, Folded(g, G, it)
  PROVE  it[G] = Cardinality(Together(A, G))
<1> DEFINE Wrong(n) == \E s \in SUBSET G : Cardinality(s) = n /\ it[s] # Cardinality(Together(A, s))
           N == {n \in Nat : Wrong(n)}
           First(s) == CHOOSE x \in s : TRUE
<1>1. ASSUME NEW s \in SUBSET G
      PROVE  /\ it[s] = IF s = {} THEN 0 ELSE g[First(s)] + it[s \ {First(s)}]
             /\ IsFiniteSet(s) /\ Cardinality(s) \in Nat
  <2>1. IsFiniteSet(s) /\ Cardinality(s) \in Nat
    BY FS_Subset, FS_CardinalityType
  <2>2. QED
    BY <2>1 DEF Folded
<1>2. ASSUME N # {} PROVE FALSE
  <2>1. PICK n \in N : \A m \in N : n <= m
    BY <1>2, LeastNat
  <2>2. PICK s \in SUBSET G : Cardinality(s) = n /\ it[s] # Cardinality(Together(A, s))
    BY <2>1
  <2>3. s # {}
    <3>1. Together(A, {}) = {}
      BY DEF Together
    <3>2. QED
      BY <1>1, <2>2, <3>1, FS_EmptySet
  <2>4. First(s) \in s /\ First(s) \in G /\ s \ {First(s)} \in SUBSET G
    BY <2>3
  <2>5. it[s] = g[First(s)] + it[s \ {First(s)}]
    BY <1>1, <2>3
  <2> HIDE DEF First
  <2>6. Cardinality(s \ {First(s)}) = n - 1 /\ n \in Nat
    BY <1>1, <2>1, <2>2, <2>4, FS_RemoveElement
  <2>7. n - 1 \in Nat
    BY <1>1, <2>4, <2>6
  <2>8. ~Wrong(n - 1)
    BY <2>1, <2>6, <2>7
  <2>9. it[s \ {First(s)}] = Cardinality(Together(A, s \ {First(s)}))
    BY <2>4, <2>6, <2>8
  <2>10. Cardinality(Together(A, s)) =
            Cardinality(A[First(s)]) + Cardinality(Together(A, s \ {First(s)}))
    BY <2>4, OneMore
  <2>11. QED
    BY <2>2, <2>4, <2>5, <2>9, <2>10
<1>3. IsFiniteSet(G) /\ Cardinality(G) \in Nat
  BY FS_CardinalityType
<1>4. QED
  BY <1>2, <1>3

\* A sum of the sizes of disjoint sets is the size of their union.
LEMMA SumIs ==
  ASSUME NEW f, NEW G, IsFiniteSet(G), NEW A, \A i \in G : IsFiniteSet(A[i]),
         \A i, j \in G : i # j => A[i] \cap A[j] = {},
         \A i \in G : MissingIn(f, i) = Cardinality(A[i])
  PROVE  MapThenSumSet(LAMBDA i : MissingIn(f, i), G) = Cardinality(Together(A, G))
<1> DEFINE Eq(it) == it = [s \in SUBSET G |->
               IF s = {} THEN 0
               ELSE MissingIn(f, CHOOSE x \in s : TRUE) + it[s \ {CHOOSE x \in s : TRUE}]]
           g == [i \in G |-> MissingIn(f, i)]
<1>1. MapThenSumSet(LAMBDA i : MissingIn(f, i), G) = (CHOOSE it : Eq(it))[G]
  BY DEF MapThenSumSet, MapThenFoldSet
<1>2. ASSUME NEW it PROVE Eq(it) <=> Folded(g, G, it)
  <2>1. \A s \in SUBSET G : s # {} => g[CHOOSE x \in s : TRUE] = MissingIn(f, CHOOSE x \in s : TRUE)
    OBVIOUS
  <2>2. QED
    BY <2>1 DEF Folded
<1> HIDE DEF Eq
<1>3. \A i \in G : g[i] = Cardinality(A[i])
  OBVIOUS
<1> HIDE DEF g
<1>4. \E it : Eq(it)
  BY <1>2, <1>3, FoldExists
<1>5. Eq(CHOOSE it : Eq(it))
  BY <1>4
<1>6. (CHOOSE it : Eq(it))[G] = Cardinality(Together(A, G))
  BY <1>2, <1>3, <1>5, FoldIs
<1>7. QED
  BY <1>1, <1>6

-----------------------------------------------------------------------------
(* The epochs of one file.                                                  *)
LEMMA SizeUpTo ==
  ASSUME NEW n \in Nat
  PROVE  /\ IsFiniteSet(1..n) /\ Cardinality(1..n) = n
         /\ IsFiniteSet(0..n) /\ Cardinality(0..n) = n + 1
<1>1. IsFiniteSet(1..n) /\ Cardinality(1..n) = IF 1 > n THEN 0 ELSE n - 1 + 1
  BY FS_Interval
<1>2. IsFiniteSet(0..n) /\ Cardinality(0..n) = IF 0 > n THEN 0 ELSE n - 0 + 1
  BY FS_Interval
<1>3. QED
  BY <1>1, <1>2

LEMMA Distributes ==
  ASSUME NEW a \in Int, NEW b \in Int, NEW c \in Int
  PROVE  /\ a * c \in Int
         /\ (a + b) * c = a * c + b * c
         /\ (a - b) * c = a * c - b * c
  OBVIOUS

LEMMA Multiple ==
  ASSUME NEW a \in Int, NEW b \in Nat \ {0}, a % b = 0
  PROVE  a \div b \in Int /\ a = (a \div b) * b
  OBVIOUS

LEMMA Quotient ==
  ASSUME NEW q \in Int, NEW b \in Nat \ {0}
  PROVE  (q * b) \div b = q /\ (q * b) % b = 0
  OBVIOUS

LEMMA InOrder ==
  ASSUME NEW q \in Int, NEW p \in Int, NEW b \in Nat \ {0}
  PROVE  (p * b < q * b <=> p < q) /\ (p * b = q * b <=> p = q)
  OBVIOUS

LEMMA RoundedMultiple ==
  ASSUME NEW a \in Int, NEW b \in Nat \ {0}, a % b = 0
  PROVE  Rounded(a, b) = a \div b
  BY DEF Rounded

Body(f) == f.epochs \in Seq(Int) /\ (f.interval = None \/ f.interval \in Int)

LEMMA PairsAre ==
  ASSUME NEW e \in Seq(Int)
  PROVE  /\ Len(e) \in Nat /\ DOMAIN e = 1..Len(e) /\ \A i \in 1..Len(e) : e[i] \in Int
         /\ Pairs(e) = 1..(Len(e) - 1) /\ Pairs(e) \subseteq Nat /\ IsFiniteSet(Pairs(e))
         /\ \A i \in Pairs(e) : /\ i \in 1..Len(e) /\ i + 1 \in 1..Len(e)
                                /\ Steps(e)[i] = e[i + 1] - e[i] /\ Steps(e)[i] \in Int
<1>1. Len(e) \in Nat /\ DOMAIN e = 1..Len(e) /\ \A i \in 1..Len(e) : e[i] \in Int
  BY LenProperties, ElementOfSeq
<1>2. Pairs(e) = 1..(Len(e) - 1)
  BY <1>1 DEF Pairs
<1>3. IsFiniteSet(Pairs(e))
  BY <1>1, <1>2, FS_Interval
<1>4. \A i \in Pairs(e) : /\ i \in 1..Len(e) /\ i + 1 \in 1..Len(e)
                          /\ Steps(e)[i] = e[i + 1] - e[i] /\ Steps(e)[i] \in Int
  BY <1>1, <1>2 DEF Steps
<1>5. QED
  BY <1>1, <1>2, <1>3, <1>4

\* Among finitely many numbered things one is counted most, and there is a first such one.
LEMMA FirstOfMost ==
  ASSUME NEW n \in Nat, NEW S, S \subseteq 1..n, S # {}, NEW c, \A i \in S : c[i] \in 0..n
  PROVE  \E i \in S : \A j \in S : c[j] < c[i] \/ (c[j] = c[i] /\ i <= j)
<1> DEFINE N == {n - c[i] : i \in S}
<1>1. N \subseteq Nat
  OBVIOUS
<1> PICK one \in S : TRUE
  OBVIOUS
<1>2. n - c[one] \in N
  OBVIOUS
<1> HIDE DEF N
<1>3. PICK m \in N : \A k \in N : m <= k
  BY <1>1, <1>2, LeastNat
<1>4. PICK i \in S : m = n - c[i]
  BY <1>3 DEF N
<1>5. ASSUME NEW j \in S PROVE c[j] <= c[i]
  <2>1. m <= n - c[j]
    BY <1>3 DEF N
  <2>2. QED
    BY <1>4, <2>1
<1> DEFINE M == {j \in S : c[j] = c[i]}
<1>6. S \subseteq Nat
  OBVIOUS
<1>7. M \subseteq S /\ i \in M
  BY Zenon
<1> HIDE DEF M
<1>8. PICK h \in M : \A j \in M : h <= j
  BY <1>6, <1>7, LeastNat
<1>9. \A j \in S : c[j] < c[h] \/ (c[j] = c[h] /\ h <= j)
  <2>1. h \in S /\ c[h] = c[i]
    BY <1>8 DEF M
  <2>2. \A j \in S : c[j] = c[i] => h <= j
    BY <1>8 DEF M
  <2>3. QED
    BY <1>5, <2>1, <2>2
<1>10. QED
  BY <1>8, <1>9 DEF M

LEMMA ModeTyped ==
  ASSUME NEW e \in Seq(Int), Forward(e) # {}
  PROVE  Mode(e) \in Int
<1> DEFINE S == Forward(e)
           Same(i) == {j \in S : Steps(e)[j] = Steps(e)[i]}
           c == [i \in S |-> Cardinality(Same(i))]
           First(i) == \A j \in S : Cardinality(Same(j)) < Cardinality(Same(i))
                                 \/ (Cardinality(Same(j)) = Cardinality(Same(i)) /\ i <= j)
<1>1. S \subseteq 1..Len(e) /\ IsFiniteSet(S) /\ Len(e) \in Nat /\ S \subseteq Pairs(e)
  BY PairsAre, FS_Subset DEF Forward
<1>2. \A i \in S : c[i] \in 0..Len(e)
  <2>1. TAKE i \in S
  <2> HIDE DEF S
  <2>2. IsFiniteSet(1..Len(e)) /\ Cardinality(1..Len(e)) = Len(e)
    BY <1>1, SizeUpTo
  <2>3. Same(i) \in SUBSET (1..Len(e))
    BY <1>1
  <2> HIDE DEF Same
  <2>4. Cardinality(Same(i)) \in Nat /\ Cardinality(Same(i)) <= Len(e)
    BY <2>2, <2>3, FS_Subset, FS_CardinalityType
  <2>5. QED
    BY <1>1, <2>4
<1> HIDE DEF S, Same
<1>3. \E i \in S : First(i)
  <2> HIDE DEF c
  <2>1. PICK i \in S : \A j \in S : c[j] < c[i] \/ (c[j] = c[i] /\ i <= j)
    BY <1>1, <1>2, FirstOfMost DEF S
  <2>2. First(i)
    BY <2>1 DEF c
  <2>3. QED
    BY <2>2
<1>4. Mode(e) = Steps(e)[CHOOSE i \in S : First(i)]
  BY DEF Mode, S, Same
<1>5. (CHOOSE i \in S : First(i)) \in S
  BY <1>3
<1>6. \A i \in S : Steps(e)[i] \in Int
  BY <1>1, PairsAre
<1>7. QED
  BY <1>4, <1>5, <1>6

LEMMA IntervalTyped ==
  ASSUME NEW f, Body(f), Interval(f) # None
  PROVE  Interval(f) \in Nat \ {0}
<1>1. Forward(f.epochs) # {} => Mode(f.epochs) \in Int
  BY ModeTyped DEF Body
<1>2. QED
  BY <1>1 DEF Interval, Body

\* Steps no longer than b let no epoch be later than its place says, seen from the
\* first, and none earlier, seen from the last.
LEMMA NoneTooLate ==
  ASSUME NEW n \in Nat, NEW e \in [1..n -> Int], NEW b \in Nat \ {0}, n # 0, e[1] = 0,
         \A i \in 1..(n - 1) : e[i + 1] - e[i] <= b,
         NEW k \in 1..n
  PROVE  e[k] <= (k - 1) * b
<1> DEFINE N == {j \in 1..n : ~(e[j] <= (j - 1) * b)}
<1>1. N \subseteq Nat
  OBVIOUS
<1>2. ASSUME N # {} PROVE FALSE
  <2>1. PICK j \in N : \A i \in N : j <= i
    BY <1>1, <1>2, LeastNat
  <2>2. j \in 1..n /\ ~(e[j] <= (j - 1) * b) /\ j # 1
    BY <2>1
  <2>3. j - 1 \in 1..(n - 1) /\ j - 1 \in 1..n /\ ~(j <= j - 1)
    BY <2>2
  <2>4. e[j - 1] <= ((j - 1) - 1) * b
    BY <2>1, <2>3
  <2>5. e[j] - e[j - 1] <= b
    BY <2>2, <2>3
  <2>6. /\ ((j - 1) - 1) * b = (j - 1) * b - 1 * b
        /\ (j - 1) * b \in Int /\ 1 * b = b
    BY <2>3, Distributes
  <2>7. e[j] \in Int /\ e[j - 1] \in Int
    BY <2>2, <2>3
  <2>8. QED
    BY <2>2, <2>4, <2>5, <2>6, <2>7
<1>3. QED
  BY <1>2

LEMMA NoneTooEarly ==
  ASSUME NEW n \in Nat, NEW e \in [1..n -> Int], NEW b \in Nat \ {0}, n # 0, e[n] = (n - 1) * b,
         \A i \in 1..(n - 1) : e[i + 1] - e[i] <= b,
         NEW k \in 1..n
  PROVE  e[k] >= (k - 1) * b
<1> DEFINE N == {j \in 0..n : j # n /\ ~(e[n - j] >= ((n - j) - 1) * b)}
<1>1. N \subseteq Nat
  OBVIOUS
<1>2. ASSUME N # {} PROVE FALSE
  <2>1. PICK j \in N : \A i \in N : j <= i
    BY <1>1, <1>2, LeastNat
  <2> DEFINE p == n - j
  <2>2. j \in 0..n /\ j # n /\ p \in 1..n /\ ~(e[p] >= (p - 1) * b)
    BY <2>1
  <2>3. j # 0
    BY <2>2
  <2>4. j - 1 \in 0..n /\ j - 1 # n /\ ~(j <= j - 1) /\ n - (j - 1) = p + 1
    BY <2>2, <2>3
  <2>5. e[p + 1] >= ((p + 1) - 1) * b
    BY <2>1, <2>4
  <2>6. p \in 1..(n - 1) /\ p + 1 \in 1..n
    BY <2>2, <2>3, <2>4
  <2> HIDE DEF p
  <2>7. e[p + 1] - e[p] <= b
    BY <2>6
  <2>8. /\ (p - 1) * b = p * b - 1 * b /\ (p + 1) - 1 = p
        /\ p * b \in Int /\ 1 * b = b
    BY <2>6, Distributes
  <2>9. e[p] \in Int /\ e[p + 1] \in Int
    BY <2>2, <2>6
  <2>10. QED
    BY <2>2, <2>5, <2>7, <2>8, <2>9
<1>3. n - k \in 0..n /\ n - k # n /\ n - (n - k) = k
  OBVIOUS
<1>4. QED
  BY <1>2, <1>3

\* First, last, number and steps of its epochs tell a whole day.
LEMMA WholeDay ==
  ASSUME NEW f, Body(f), Day \in Nat, Interval(f) # None, Divides(Interval(f)),
         Status(f) # "error"
  PROVE  Completeness(f) = "complete" <=> f.epochs = Grid(Interval(f))
<1> DEFINE e == f.epochs
           b == Interval(f)
           n == Len(e)
           m == Day \div b
<1>1. b \in Nat \ {0} /\ Day % b = 0
  BY IntervalTyped DEF Divides
<1>2. m \in Nat /\ Day = m * b /\ ExpectedEpochs(f) = m
  <2> HIDE DEF b
  <2>1. m \in Int /\ Day = m * b
    BY <1>1, Multiple
  <2>2. m >= 0
    BY <1>1, <2>1
  <2>3. ExpectedEpochs(f) = m
    BY <1>1, RoundedMultiple DEF ExpectedEpochs, b
  <2>4. QED
    BY <2>1, <2>2, <2>3
<1>3. e \in Seq(Int) /\ n \in Nat /\ n # 0
  BY EmptySeq, LenProperties DEF Status, Body
<1>4. e \in [1..n -> Int] /\ Pairs(e) = 1..(n - 1)
  BY <1>3, PairsAre, LenProperties
<1>5. \A i \in 1..(n - 1) : Steps(e)[i] = e[i + 1] - e[i]
  BY <1>3, PairsAre
<1>6. Completeness(f) = "complete" <=>
        /\ e[1] = 0 /\ e[n] = Day - b
        /\ \A i \in 1..(n - 1) : ~(Steps(e)[i] > b)
        /\ \A i \in 1..(n - 1) : ~(Steps(e)[i] <= 0)
        /\ n = m
  BY <1>2, <1>4 DEF Completeness, GapsAt, Disorder
<1>7. m * b - b = (m - 1) * b
  BY <1>1, <1>2, Distributes
<1> HIDE DEF m, b, e
<1>8. ASSUME Completeness(f) = "complete" PROVE e = Grid(b)
  <2>1. e[1] = 0 /\ e[n] = (n - 1) * b /\ n = m
    BY <1>2, <1>6, <1>7, <1>8
  <2>2. \A i \in 1..(n - 1) : e[i + 1] - e[i] <= b
    BY <1>1, <1>3, <1>4, <1>5, <1>6, <1>8
  <2>3. ASSUME NEW k \in 1..n PROVE e[k] = (k - 1) * b
    <3>1. e[k] <= (k - 1) * b /\ e[k] >= (k - 1) * b
      BY <1>1, <1>3, <1>4, <2>1, <2>2, NoneTooLate, NoneTooEarly
    <3>2. e[k] \in Int /\ (k - 1) * b \in Int
      BY <1>1, <1>3, <1>4, Distributes
    <3>3. QED
      BY <3>1, <3>2
  <2>4. e = [k \in 1..m |-> (k - 1) * b]
    BY <1>4, <2>1, <2>3
  <2>5. QED
    BY <2>4 DEF Grid, m
<1>9. ASSUME e = Grid(b) PROVE Completeness(f) = "complete"
  <2>1. e = [k \in 1..m |-> (k - 1) * b]
    BY <1>9 DEF Grid, m
  <2>2. n = m
    <3>1. 1..n = 1..m
      BY <1>4, <2>1
    <3>2. n \in 1..m /\ m \in 1..m
      BY <1>2, <1>3, <3>1
    <3>3. m \in 1..n
      BY <3>1, <3>2
    <3>4. QED
      BY <1>2, <1>3, <3>2, <3>3
  <2>3. \A k \in 1..n : e[k] = (k - 1) * b
    BY <2>1, <2>2
  <2>4. e[1] = 0 /\ e[n] = Day - b
    BY <1>1, <1>2, <1>3, <1>7, <2>2, <2>3
  <2>5. ASSUME NEW i \in 1..(n - 1) PROVE Steps(e)[i] = b
    <3>1. e[i + 1] = ((i + 1) - 1) * b /\ e[i] = (i - 1) * b
      BY <1>3, <2>3
    <3>2. (i + 1) - 1 = i /\ (i - 1) * b = i * b - 1 * b /\ i * b \in Int /\ 1 * b = b
      BY <1>1, <1>3, Distributes
    <3>3. QED
      BY <1>1, <1>5, <3>1, <3>2
  <2>6. QED
    BY <1>1, <1>6, <2>2, <2>4, <2>5
<1>10. QED
  BY <1>8, <1>9 DEF e, b

-----------------------------------------------------------------------------
(* Epochs on a regular grid: q counts the intervals since the first.        *)
Increasing(q, n) == \A i \in 1..(n - 1) : q[i] < q[i + 1]

LEMMA Grows ==
  ASSUME NEW n \in Nat, NEW q \in [1..n -> Int], Increasing(q, n),
         NEW i \in 1..n, NEW j \in 1..n, i < j
  PROVE  q[i] < q[j]
<1> DEFINE N == {k \in 1..n : i < k /\ ~(q[i] < q[k])}
<1>1. N \subseteq Nat
  OBVIOUS
<1>2. ASSUME N # {} PROVE FALSE
  <2>1. PICK k \in N : \A l \in N : k <= l
    BY <1>1, <1>2, LeastNat
  <2>2. k \in 1..n /\ i < k /\ ~(q[i] < q[k])
    BY <2>1
  <2>3. k - 1 \in 1..(n - 1) /\ k - 1 \in 1..n /\ ~(k <= k - 1)
    BY <2>2
  <2>4. q[k - 1] < q[k]
    BY <2>2, <2>3 DEF Increasing
  <2>5. k - 1 = i \/ q[i] < q[k - 1]
    BY <2>1, <2>2, <2>3
  <2>6. q[i] \in Int /\ q[k] \in Int /\ q[k - 1] \in Int
    BY <2>2, <2>3
  <2>7. QED
    BY <2>2, <2>4, <2>5, <2>6
<1>3. QED
  BY <1>2

\* The places between one epoch and the next.
Between(q, n) == [i \in 1..(n - 1) |-> (q[i] + 1)..(q[i + 1] - 1)]

LEMMA BetweenIs ==
  ASSUME NEW n \in Nat, NEW q \in [1..n -> Int], Increasing(q, n)
  PROVE  /\ \A i \in 1..(n - 1) :
              /\ IsFiniteSet(Between(q, n)[i])
              /\ Cardinality(Between(q, n)[i]) = q[i + 1] - q[i] - 1
         /\ \A i, j \in 1..(n - 1) : i # j => Between(q, n)[i] \cap Between(q, n)[j] = {}
         /\ \A i \in 1..(n - 1), k \in 1..n : q[k] \notin Between(q, n)[i]
<1> DEFINE A == Between(q, n)
<1>1. \A i \in 1..(n - 1) : /\ i \in 1..n /\ i + 1 \in 1..n /\ q[i] \in Int /\ q[i + 1] \in Int
                            /\ q[i] < q[i + 1] /\ A[i] = (q[i] + 1)..(q[i + 1] - 1)
  BY DEF Increasing, Between
<1> HIDE DEF A
<1>2. \A i \in 1..(n - 1) : \A x \in A[i] : x \in Int /\ q[i] < x /\ x < q[i + 1]
  BY <1>1
<1>3. ASSUME NEW i \in 1..(n - 1)
      PROVE  IsFiniteSet(A[i]) /\ Cardinality(A[i]) = q[i + 1] - q[i] - 1
  <2> DEFINE a == q[i] + 1
             b == q[i + 1] - 1
  <2>0. q[i] \in Int /\ q[i + 1] \in Int /\ q[i] < q[i + 1] /\ A[i] = a..b
    BY <1>1
  <2>1. a \in Int /\ b \in Int /\ b - a + 1 = q[i + 1] - q[i] - 1 /\ b - a + 1 >= 0
    BY <2>0
  <2> HIDE DEF a, b
  <2>2. IsFiniteSet(a..b) /\ Cardinality(a..b) = IF a > b THEN 0 ELSE b - a + 1
    BY <2>1, FS_Interval
  <2>3. Cardinality(a..b) = b - a + 1
    BY <2>1, <2>2
  <2>4. QED
    BY <2>0, <2>1, <2>2, <2>3
<1>4. \A i, j \in 1..n : q[i] \in Int /\ (i <= j => q[i] <= q[j])
  <2>1. \A i, j \in 1..n : i < j => q[i] < q[j]
    BY Grows
  <2>2. \A i \in 1..n : q[i] \in Int
    OBVIOUS
  <2>3. QED
    BY <2>1, <2>2
<1>5. ASSUME NEW i \in 1..(n - 1), NEW k \in 1..n PROVE q[k] \notin A[i]
  <2>1. k <= i \/ i + 1 <= k
    OBVIOUS
  <2>2. q[k] <= q[i] \/ q[i + 1] <= q[k]
    BY <1>1, <1>4, <2>1
  <2>3. q[k] \in Int
    OBVIOUS
  <2>4. QED
    BY <1>1, <1>2, <2>2, <2>3
<1>6. ASSUME NEW i \in 1..(n - 1), NEW j \in 1..(n - 1), i < j PROVE A[i] \cap A[j] = {}
  <2>1. q[i + 1] <= q[j]
    BY <1>1, <1>4, <1>6
  <2>2. \A x \in A[i] : x \in Int /\ x < q[i + 1] /\ q[i + 1] \in Int
    BY <1>1, <1>2
  <2>3. \A x \in A[j] : x \in Int /\ q[j] < x /\ q[j] \in Int
    BY <1>1, <1>2
  <2>4. QED
    BY <2>1, <2>2, <2>3
<1>7. ASSUME NEW i \in 1..(n - 1), NEW j \in 1..(n - 1), i # j PROVE A[i] \cap A[j] = {}
  <2>1. CASE i < j
    BY <1>6, <2>1
  <2>2. CASE j < i
    <3>1. A[j] \cap A[i] = {}
      BY <1>6, <2>2
    <3>2. QED
      BY <3>1, Zenon
  <2>3. i < j \/ j < i
    BY <1>7
  <2>4. QED
    BY <2>1, <2>2, <2>3, Zenon
<1>8. QED
  BY <1>3, <1>5, <1>7 DEF A

\* Every place from the first epoch to the last has an epoch or lies between two.
LEMMA EveryPlace ==
  ASSUME NEW n \in Nat \ {0}, NEW q \in [1..n -> Int], q[1] = 0, Increasing(q, n),
         NEW x \in 0..q[n]
  PROVE  (\E k \in 1..n : x = q[k]) \/ \E i \in 1..(n - 1) : x \in Between(q, n)[i]
<1> DEFINE N == {k \in 1..n : x <= q[k]}
<1>1. q[n] \in Int /\ n \in N /\ N \subseteq Nat
  OBVIOUS
<1>2. PICK k \in N : \A l \in N : k <= l
  BY <1>1, LeastNat
<1>3. k \in 1..n /\ x <= q[k] /\ q[k] \in Int
  BY <1>2
<1>4. CASE x = q[k]
  BY <1>3, <1>4
<1>5. CASE x # q[k]
  <2>1. k # 1
    BY <1>3, <1>5
  <2>2. k - 1 \in 1..(n - 1) /\ k - 1 \in 1..n /\ ~(k <= k - 1) /\ (k - 1) + 1 = k
    BY <1>3, <2>1
  <2>3. ~(x <= q[k - 1]) /\ q[k - 1] \in Int
    BY <1>2, <2>2
  <2>4. x \in (q[k - 1] + 1)..(q[k] - 1)
    BY <1>3, <1>5, <2>3
  <2>5. x \in Between(q, n)[k - 1]
    BY <2>2, <2>4 DEF Between
  <2>6. QED
    BY <2>2, <2>5
<1>6. QED
  BY <1>4, <1>5

LEMMA AsManyPlaces ==
  ASSUME NEW n \in Nat, NEW q \in [1..n -> Int], Increasing(q, n)
  PROVE  LET Q == {q[k] : k \in 1..n} IN IsFiniteSet(Q) /\ Cardinality(Q) = n
<1> DEFINE Q == {q[k] : k \in 1..n}
<1>1. q \in [1..n -> Q] /\ q \in Surjection(1..n, Q)
  BY DEF Surjection
<1>2. \A k, l \in 1..n : k # l => q[k] # q[l]
  <2>1. TAKE k, l \in 1..n
  <2>2. q[k] \in Int /\ q[l] \in Int
    OBVIOUS
  <2>3. k < l => q[k] < q[l]
    BY Grows
  <2>4. l < k => q[l] < q[k]
    BY Grows
  <2>5. QED
    BY <2>2, <2>3, <2>4
<1> HIDE DEF Q
<1>3. q \in Injection(1..n, Q)
  BY <1>1, <1>2 DEF Injection, IsInjective
<1>4. ExistsBijection(1..n, Q)
  BY <1>1, <1>3 DEF Bijection, ExistsBijection
<1>5. IsFiniteSet(1..n) /\ Cardinality(1..n) = n
  BY SizeUpTo
<1>6. IsFiniteSet(Q) /\ Cardinality(Q) = n
  BY <1>4, <1>5, FS_Bijection
<1>7. QED
  BY <1>6 DEF Q

LEMMA PlacesAreCounted ==
  ASSUME NEW n \in Nat \ {0}, NEW q \in [1..n -> Int], q[1] = 0, Increasing(q, n),
         NEW G, G = {i \in 1..(n - 1) : q[i + 1] - q[i] > 1}
  PROVE  n + Cardinality(Together(Between(q, n), G)) = q[n] + 1
<1> DEFINE A == Between(q, n)
           W == Together(A, G)
           Q == {q[k] : k \in 1..n}
<1>1. \A k \in 1..n : q[k] \in 0..q[n]
  <2>1. TAKE k \in 1..n
  <2>2. q[k] \in Int /\ q[1] \in Int /\ q[n] \in Int /\ 1 \in 1..n /\ n \in 1..n
    OBVIOUS
  <2>3. q[1] <= q[k]
    BY <2>2, Grows
  <2>4. q[k] <= q[n]
    BY <2>2, Grows
  <2>5. QED
    BY <2>2, <2>3, <2>4
<1>2. \A i \in 1..(n - 1) : /\ q[i] \in 0..q[n] /\ q[i + 1] \in 0..q[n] /\ q[n] \in Int
                            /\ A[i] = (q[i] + 1)..(q[i + 1] - 1)
  BY <1>1 DEF Between
<1>3. W \subseteq 0..q[n]
  <2>1. \A i \in 1..(n - 1) : A[i] \subseteq 0..q[n]
    BY <1>2
  <2> HIDE DEF A
  <2>2. QED
    BY <2>1 DEF Together
<1>4. W \cap Q = {}
  <2>1. \A i \in 1..(n - 1), k \in 1..n : q[k] \notin A[i]
    BY BetweenIs
  <2> HIDE DEF A
  <2>2. QED
    BY <2>1 DEF Together
<1>5. ASSUME NEW x \in 0..q[n] PROVE x \in W \cup Q
  <2>1. CASE \E k \in 1..n : x = q[k]
    BY <2>1
  <2>2. ASSUME NEW i \in 1..(n - 1), x \in A[i] PROVE x \in W
    <3>1. i \in G
      BY <1>2, <2>2
    <3> HIDE DEF A
    <3>2. QED
      BY <2>2, <3>1 DEF Together
  <2>3. QED
    BY <2>1, <2>2, EveryPlace
<1>6. Q \subseteq 0..q[n]
  BY <1>1
<1>7. IsFiniteSet(Q) /\ Cardinality(Q) = n
  BY AsManyPlaces
<1> HIDE DEF W, Q, A
<1>8. q[n] \in Nat /\ IsFiniteSet(0..q[n]) /\ Cardinality(0..q[n]) = q[n] + 1
  <2>1. q[n] \in Nat
    BY <1>1
  <2>2. QED
    BY <2>1, SizeUpTo
<1>9. IsFiniteSet(W) /\ Cardinality(W) \in Nat
  BY <1>3, <1>8, FS_Subset, FS_CardinalityType
<1>10. W \cup Q = 0..q[n]
  BY <1>3, <1>5, <1>6
<1>11. Cardinality(W \cup Q) = Cardinality(W) + Cardinality(Q) - Cardinality(W \cap Q)
  BY <1>7, <1>9, FS_Union
<1>12. Cardinality(W \cap Q) = 0
  BY <1>4, FS_EmptySet
<1>13. q[n] + 1 = Cardinality(W) + n - 0
  BY <1>7, <1>8, <1>10, <1>11, <1>12
<1>14. q[n] + 1 = n + Cardinality(W)
  BY <1>8, <1>9, <1>13
<1>15. QED
  BY <1>14 DEF W, A

LEMMA NotNegative ==
  ASSUME NEW x \in Int, x >= 0
  PROVE  Max({x, 0}) = x
<1>1. \A y \in {x, 0} : (\A z \in {x, 0} : y >= z) <=> y = x
  OBVIOUS
<1>2. (CHOOSE y \in {x, 0} : \A z \in {x, 0} : y >= z) = x
  BY <1>1
<1>3. QED
  BY <1>2 DEF Max

LEMMA GridGoesOn ==
  ASSUME NEW x \in Int, NEW y \in Int, NEW z \in Int, NEW b \in Nat \ {0},
         (y - x) % b = 0, (z - y) % b = 0
  PROVE  (z - x) % b = 0
<1>1. \A a \in Int : a % b = 0 => \E k \in Int : a = k * b
  BY Multiple
<1>2. PICK p \in Int : y - x = p * b
  BY <1>1
<1>3. PICK r \in Int : z - y = r * b
  BY <1>1
<1>4. (r + p) * b = r * b + p * b /\ r + p \in Int
  BY <1>2, <1>3, Distributes
<1>5. z - x = (r + p) * b
  BY <1>2, <1>3, <1>4
<1>6. ((r + p) * b) % b = 0
  BY <1>4, Quotient
<1>7. QED
  BY <1>5, <1>6

\* On a regular grid every epoch is a whole number of intervals after the first.
LEMMA OnTheGrid ==
  ASSUME NEW n \in Nat \ {0}, NEW e \in [1..n -> Int], NEW b \in Nat \ {0},
         \A i \in 1..(n - 1) : (e[i + 1] - e[i]) % b = 0,
         NEW k \in 1..n
  PROVE  (e[k] - e[1]) % b = 0
<1> DEFINE N == {j \in 1..n : ~((e[j] - e[1]) % b = 0)}
<1>1. N \subseteq Nat
  OBVIOUS
<1>2. ASSUME N # {} PROVE FALSE
  <2>1. PICK j \in N : \A i \in N : j <= i
    BY <1>1, <1>2, LeastNat
  <2>2. j \in 1..n /\ ~((e[j] - e[1]) % b = 0) /\ e[j] \in Int /\ e[1] \in Int
    BY <2>1
  <2>3. j # 1
    BY <2>2
  <2>4. j - 1 \in 1..(n - 1) /\ j - 1 \in 1..n /\ ~(j <= j - 1) /\ (j - 1) + 1 = j
    BY <2>2, <2>3
  <2>5. (e[j - 1] - e[1]) % b = 0 /\ (e[j] - e[j - 1]) % b = 0 /\ e[j - 1] \in Int
    BY <2>1, <2>4
  <2>6. (e[j] - e[1]) % b = 0
    BY <2>2, <2>5, GridGoesOn
  <2>7. QED
    BY <2>2, <2>6
<1>3. QED
  BY <1>2

\* The epochs counted as missing in the gaps are those that are not there.
LEMMA GapsAreCounted ==
  ASSUME NEW f, Body(f), Interval(f) # None, f.epochs # << >>,
         \A i \in Pairs(f.epochs) :
            /\ f.epochs[i] < f.epochs[i + 1]
            /\ (f.epochs[i + 1] - f.epochs[i]) % Interval(f) = 0
  PROVE  Len(f.epochs) + MapThenSumSet(LAMBDA i : MissingIn(f, i), GapsAt(f))
           = (f.epochs[Len(f.epochs)] - f.epochs[1]) \div Interval(f) + 1
<1> DEFINE e == f.epochs
           b == Interval(f)
           n == Len(e)
           q == [k \in 1..n |-> (e[k] - e[1]) \div b]
           G == GapsAt(f)
<1>1. b \in Nat \ {0}
  BY IntervalTyped
<1>2. e \in Seq(Int) /\ n \in Nat \ {0}
  BY EmptySeq, LenProperties DEF Body
<1>3. e \in [1..n -> Int] /\ Pairs(e) = 1..(n - 1)
  BY <1>2, PairsAre, LenProperties
<1>4. \A i \in 1..(n - 1) : /\ i \in 1..n /\ i + 1 \in 1..n /\ e[i] < e[i + 1]
                            /\ (e[i + 1] - e[i]) % b = 0 /\ Steps(e)[i] = e[i + 1] - e[i]
  BY <1>2, <1>3, PairsAre
<1>5. G = {i \in 1..(n - 1) : Steps(e)[i] > b}
  BY <1>3 DEF GapsAt
<1>6. \A i \in 1..(n - 1) : MissingIn(f, i) = Max({Rounded(Steps(e)[i], b) - 1, 0})
  BY DEF MissingIn
<1> HIDE DEF e, b, G
<1>7. \A k \in 1..n : e[k] \in Int /\ q[k] \in Int /\ e[k] - e[1] = q[k] * b
  <2>1. TAKE k \in 1..n
  <2>2. e[k] \in Int /\ e[1] \in Int
    BY <1>2, <1>3
  <2>3. \A i \in 1..(n - 1) : (e[i + 1] - e[i]) % b = 0
    BY <1>4
  <2>4. (e[k] - e[1]) % b = 0
    BY <1>1, <1>2, <1>3, <2>3, OnTheGrid
  <2> DEFINE a == e[k] - e[1]
  <2>5. a \in Int /\ a % b = 0 /\ q[k] = a \div b
    BY <2>2, <2>4
  <2> HIDE DEF a, q
  <2>6. a \div b \in Int /\ a = (a \div b) * b
    BY <1>1, <2>5, Multiple
  <2>7. QED
    BY <2>2, <2>5, <2>6 DEF a
<1>8. q[1] = 0
  <2>1. 1 \in 1..n /\ e[1] - e[1] = 0
    BY <1>2, <1>7
  <2>2. QED
    BY <1>1, <2>1
<1>9. q \in [1..n -> Int] /\ q[n] = (e[n] - e[1]) \div b
  BY <1>2, <1>7
<1> HIDE DEF q
<1>10. \A i \in 1..(n - 1) : /\ q[i + 1] - q[i] \in Int
                             /\ e[i + 1] - e[i] = (q[i + 1] - q[i]) * b
  <2>1. TAKE i \in 1..(n - 1)
  <2>2. /\ q[i] \in Int /\ q[i + 1] \in Int /\ e[i] \in Int /\ e[i + 1] \in Int /\ e[1] \in Int
        /\ e[i] - e[1] = q[i] * b /\ e[i + 1] - e[1] = q[i + 1] * b
    BY <1>2, <1>4, <1>7
  <2>3. \A l, m \in Int : (l - m) * b = l * b - m * b /\ l * b \in Int /\ m * b \in Int
    BY <1>1, Distributes
  <2>4. (q[i + 1] - q[i]) * b = q[i + 1] * b - q[i] * b
    BY <2>2, <2>3
  <2>5. (e[i + 1] - e[1]) - (e[i] - e[1]) = e[i + 1] - e[i]
    BY <2>2
  <2>6. QED
    BY <2>2, <2>4, <2>5
<1>11. \A i \in 1..(n - 1) : /\ q[i + 1] - q[i] > 0
                             /\ Steps(e)[i] > b <=> q[i + 1] - q[i] > 1
  <2>1. TAKE i \in 1..(n - 1)
  <2> DEFINE d == q[i + 1] - q[i]
  <2>2. d \in Int /\ Steps(e)[i] = d * b /\ d * b > 0
    <3>1. /\ Steps(e)[i] = e[i + 1] - e[i] /\ e[i] < e[i + 1]
          /\ e[i] \in Int /\ e[i + 1] \in Int
      BY <1>4, <1>7
    <3>2. e[i + 1] - e[i] > 0
      BY <3>1
    <3>3. d \in Int /\ e[i + 1] - e[i] = d * b
      BY <1>10
    <3> HIDE DEF d
    <3>4. QED
      BY <3>1, <3>2, <3>3
  <2> HIDE DEF d
  <2>3. (0 * b < d * b <=> 0 < d) /\ (1 * b < d * b <=> 1 < d) /\ 0 * b = 0 /\ 1 * b = b
    BY <1>1, <2>2, InOrder
  <2>4. d > 0 /\ (Steps(e)[i] > b <=> d > 1)
    BY <1>1, <2>2, <2>3
  <2>5. QED
    BY <2>4 DEF d
<1>12. Increasing(q, n)
  <2>1. \A i \in 1..(n - 1) : q[i] \in Int /\ q[i + 1] \in Int
    BY <1>4, <1>7
  <2>2. QED
    BY <1>11, <2>1 DEF Increasing
<1>13. G = {i \in 1..(n - 1) : q[i + 1] - q[i] > 1}
  BY <1>5, <1>11
<1>14. ASSUME NEW i \in G PROVE MissingIn(f, i) = q[i + 1] - q[i] - 1
  <2> DEFINE d == q[i + 1] - q[i]
  <2>1. i \in 1..(n - 1) /\ d \in Int /\ Steps(e)[i] = d * b /\ d > 1
    BY <1>4, <1>10, <1>13
  <2> HIDE DEF d
  <2>2. (d * b) % b = 0 /\ (d * b) \div b = d
    BY <1>1, <2>1, Quotient
  <2>3. d * b \in Int
    BY <1>1, <2>1
  <2>4. Rounded(d * b, b) = d
    BY <1>1, <2>2, <2>3, RoundedMultiple
  <2>5. Max({d - 1, 0}) = d - 1
    BY <2>1, NotNegative
  <2>6. MissingIn(f, i) = d - 1
    BY <1>6, <2>1, <2>4, <2>5
  <2>7. QED
    BY <2>6 DEF d
<1>15. \A i \in G : MissingIn(f, i) = Cardinality(Between(q, n)[i])
  BY <1>2, <1>9, <1>12, <1>13, <1>14, BetweenIs
<1>16. /\ IsFiniteSet(G) /\ \A i \in G : IsFiniteSet(Between(q, n)[i])
       /\ \A i, j \in G : i # j => Between(q, n)[i] \cap Between(q, n)[j] = {}
  <2>1. G \subseteq 1..(n - 1) /\ IsFiniteSet(1..(n - 1))
    BY <1>2, <1>13, FS_Interval
  <2>2. QED
    BY <1>2, <1>9, <1>12, <2>1, BetweenIs, FS_Subset
<1>17. MapThenSumSet(LAMBDA i : MissingIn(f, i), G) = Cardinality(Together(Between(q, n), G))
  BY <1>15, <1>16, SumIs
<1>18. n + Cardinality(Together(Between(q, n), G)) = q[n] + 1
  BY <1>2, <1>8, <1>9, <1>12, <1>13, PlacesAreCounted
<1>19. n + MapThenSumSet(LAMBDA i : MissingIn(f, i), G) = (e[n] - e[1]) \div b + 1
  BY <1>9, <1>17, <1>18
<1>20. QED
  BY <1>19 DEF e, b, G

-----------------------------------------------------------------------------
\* A day that the tables call complete has the epochs of the whole day, each once
\* and in order, and any other has not; and on a regular grid the epochs counted
\* as missing are those that are missing (analyse_rinex_lines).
THEOREM CompletenessIsExact == Spec => []CompleteIsExact
<1>1. RunInv => CompleteIsExact
  <2> SUFFICES ASSUME RunInv, run.pc \in {"write", "fill"},
                      NEW s \in run.sessions, s.status # "error", s.interval # None
               PROVE  LET f == raw[s.target]
                      IN  /\ Divides(s.interval)
                               => (s.completeness = "complete" <=> f.epochs = Grid(s.interval))
                          /\ (\A i \in Pairs(f.epochs) :
                                 /\ f.epochs[i] < f.epochs[i + 1]
                                 /\ (f.epochs[i + 1] - f.epochs[i]) % s.interval = 0)
                               => Len(f.epochs) + s.missing
                                    = (s.last - s.first) \div s.interval + 1
    BY DEF CompleteIsExact
  <2> DEFINE f == raw[s.target]
  <2>1. f \in Contents /\ s = Session(s.target, f, f)
    BY DEF RunInv, Writing, Analysed
  <2> HIDE DEF f
  <2>2. Body(f) /\ Day \in Nat
    BY <2>1, DeliveredAssumption DEF Body
  <2>3. /\ s.status = Status(f) /\ s.completeness = Completeness(f) /\ s.interval = Interval(f)
        /\ s.first = IF f.epochs = <<>> THEN None ELSE f.epochs[1]
        /\ s.last = IF f.epochs = <<>> THEN None ELSE f.epochs[Len(f.epochs)]
    BY <2>1, SessionIs
  <2>4. f.epochs # <<>>
    BY <2>3 DEF Status
  <2>5. Divides(s.interval) => (s.completeness = "complete" <=> f.epochs = Grid(s.interval))
    BY <2>2, <2>3, WholeDay
  <2>6. ASSUME \A i \in Pairs(f.epochs) :
                 /\ f.epochs[i] < f.epochs[i + 1]
                 /\ (f.epochs[i + 1] - f.epochs[i]) % s.interval = 0
        PROVE  Len(f.epochs) + s.missing = (s.last - s.first) \div s.interval + 1
    <3>1. s.missing = MapThenSumSet(LAMBDA i : MissingIn(f, i), GapsAt(f))
      BY <2>1 DEF Session
    <3>2. Len(f.epochs) + MapThenSumSet(LAMBDA i : MissingIn(f, i), GapsAt(f))
            = (f.epochs[Len(f.epochs)] - f.epochs[1]) \div Interval(f) + 1
      BY <2>2, <2>3, <2>4, <2>6, GapsAreCounted
    <3>3. QED
      BY <2>3, <2>4, <3>1, <3>2
  <2>7. QED
    BY <2>5, <2>6 DEF f
<1>2. QED
  BY <1>1, RunInvHolds, PTL
=============================================================================
