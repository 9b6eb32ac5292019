------------------------- MODULE MCNetworkExperiment -------------------------
(***************************************************************************)
(* Four stations, three references and a rover: a definition, the same one *)
(* diagnostic, one of another rover that shares its id, and an invalid one.*)
(***************************************************************************)
EXTENDS NetworkExperiment

Definition(id, refs, test, diagnostic) ==
  [id |-> id, refs |-> refs, test |-> test, min |-> 3, nav |-> {"brdc"},
   diagnostic |-> diagnostic, sound |-> TRUE]

MCDefinitions ==
  {Definition(1, <<3, 1, 2>>, 4, FALSE), Definition(1, <<1, 2, 4>>, 3, FALSE),
   Definition(2, <<1, 2, 3>>, 4, TRUE), Definition(3, <<1, 2, 4>>, 4, FALSE)}

Session(status, fp, first, last, interval) ==
  [kind |-> "result", status |-> status, fp |-> fp, first |-> first, last |-> last,
   interval |-> interval]

MCQcResults ==
  {Session("ACCEPT", 2, 3, 8, 1), Session("REJECT", 3, 0, 8, 1), Session("ACCEPT", 4, 6, 8, 1),
   [kind |-> "absent"], [kind |-> "malformed", status |-> "ACCEPT"]}

MCFirstQc ==
  [s \in Stations |-> IF s = 2 THEN Session("ACCEPT", 1, 0, 7, 1) ELSE Session("ACCEPT", 1, 0, 8, 1)]

At(f) == [s \in Stations |-> [valid |-> TRUE, at |-> f[s], frame |-> "IGS20"]]

MCFirstCoordinates == [present |-> TRUE, rows |-> At(<<1, 4, 9, 5>>)]

MCCoordinates ==
  {[present |-> TRUE, rows |-> [At(<<1, 4, 9, 6>>) EXCEPT ![2].valid = FALSE]],
   [present |-> FALSE, rows |-> << >>]}
=============================================================================
