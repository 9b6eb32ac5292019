---------------------------- MODULE MCSingleBase ----------------------------
(***************************************************************************)
(* Two stations observed over the whole window and one with gaps; phases   *)
(* with and without the latter, dry, unreviewed and of a base that is not  *)
(* in the set; three definitions of their own, one with the id of a        *)
(* phase's experiment and another window, two without one recorded hash.   *)
(***************************************************************************)
EXTENDS SingleBase

Phase(base, gaps, reviewed, dry) ==
  [phase |-> TRUE, base |-> base, gaps |-> gaps, reviewed |-> reviewed, dry |-> dry]

Station(s, recorded, geodetic) ==
  [station |-> s, ecef |-> s * s, geodetic |-> geodetic, frame |-> "IGS20", recorded |-> recorded]

Own(id_, base, rover, start, gate_) ==
  [phase |-> FALSE, dry |-> FALSE,
   definition |-> [id |-> id_, base |-> base, rover |-> rover, navigation |-> <<1>>,
                   start |-> start, end |-> 3, step |-> 1, gate |-> gate_]]

MCJobs ==
  {Phase(1, << >>, TRUE, FALSE), Phase(1, <<3>>, TRUE, FALSE), Phase(1, << >>, TRUE, TRUE),
   Phase(1, << >>, FALSE, FALSE), Phase(3, << >>, TRUE, FALSE),
   Own(<<1, 2>>, Station(1, 1, 1), Station(2, 1, NoEcef), 0, Conditions),
   Own(<<2, 1>>, Station(2, 0, 4), Station(1, 1, 1), 1, Conditions \ {"hashes_verified"}),
   Own(<<2, 1>>, Station(2, 0, 4), Station(1, 1, 1), 1, Conditions)}

MCFullWindow == <<1, 2>>

MCExperiments == {<<1, 2>>, <<1, 3>>, <<2, 1>>}

Row(t, q, at) == [t |-> t, q |-> q, at |-> at]
File(header, malformed, epochs) == [header |-> header, malformed |-> malformed, epochs |-> epochs]

MCOutputs ==
  {File(TRUE, FALSE, <<Row(1, 2, 5), Row(2, 1, 4), Row(3, 1, 4)>>),
   File(TRUE, FALSE, <<Row(0, 2, 5), Row(2, 5, 9)>>),
   File(TRUE, FALSE, <<Row(2, 2, 4), Row(4, 1, 4)>>),
   File(TRUE, TRUE, <<Row(2, 1, 4)>>),
   File(TRUE, FALSE, << >>)}

Entry(s) == [known |-> TRUE, at |-> s * s, frame |-> "IGS20", usable |-> TRUE]
Session(first, last, gaps) ==
  [status |-> "parsed", first |-> first, last |-> last, gaps |-> gaps, step |-> 1]

MCFirstInputs ==
  [have |-> Artefacts, observation |-> <<1, 1, 1>>, recorded |-> <<1, 1, 1>>, navigation |-> 1,
   coordinate |-> [s \in Stations |-> Entry(s)],
   session |-> <<Session(0, 3, 0), Session(1, 4, 0), Session(0, 4, 1)>>, rtklib |-> "recorded"]

MCOtherInputs ==
  {MCFirstInputs,
   [MCFirstInputs EXCEPT !.navigation = 2],
   [MCFirstInputs EXCEPT !.navigation = 0],
   [MCFirstInputs EXCEPT !.observation[2] = 2],
   [MCFirstInputs EXCEPT !.observation[2] = 2, !.recorded[2] = 2],
   [MCFirstInputs EXCEPT !.recorded[3] = 0],
   [MCFirstInputs EXCEPT !.coordinate[2] = [@ EXCEPT !.at = 5]],
   [MCFirstInputs EXCEPT !.coordinate[3] = [@ EXCEPT !.usable = FALSE]],
   [MCFirstInputs EXCEPT !.coordinate[2] = [@ EXCEPT !.frame = "IGS14"]],
   [MCFirstInputs EXCEPT !.session[2].status = "error"],
   [MCFirstInputs EXCEPT !.session[2].first = 0],
   [MCFirstInputs EXCEPT !.have = @ \ {"anomalies"}],
   [MCFirstInputs EXCEPT !.have = @ \ {"conversions"}],
   [MCFirstInputs EXCEPT !.rtklib = "drifted"],
   [MCFirstInputs EXCEPT !.rtklib = "absent"]}
=============================================================================
