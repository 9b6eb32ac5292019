--------------------------- MODULE SolutionMetrics ---------------------------
(***************************************************************************)
(* What the single-base phase reads out of an RTKLIB solution file and the *)
(* tables it makes of it: research/single_base_rtk/.../solution.py and     *)
(* analysis.py.  Times are in epochs, a position and a residual are one    *)
(* coordinate, and a mean is known by the values it is taken over.         *)
(***************************************************************************)
EXTENDS Integers, FiniteSets, Sequences

\* A row, as [t, q, at]: its time, RTKLIB's quality code and its position.
FIX == 1          \* QUALITY_BY_CODE
NoFix == -1       \* ttff_seconds is None
Unavailable == -1 \* a measure that is None, or blocked for want of a trusted control

\* A solution file, as [by, header, malformed, epochs]; by = 0 where there is none.
NoSolution == [by |-> 0, header |-> FALSE, malformed |-> FALSE, epochs |-> << >>]

\* parse_solution_pos, strict: one row it cannot read refuses the file.
ParsesStrictly(file) == file.header /\ ~file.malformed

\* Mutant: only the start of the window is compared.
WithinFromStart(epochs, start, end) == \A k \in DOMAIN epochs : epochs[k].t >= start

WithinWindow(epochs, start, end) == \A k \in DOMAIN epochs : epochs[k].t \in start..end

\* Both ends of the window are expected.
ExpectedEpochs(start, end, step) == (end - start) \div step + 1

Fixed(epochs) == {k \in DOMAIN epochs : epochs[k].q = FIX}

\* From the first solution to the first fix.
TtffSeconds(epochs) ==
  IF Fixed(epochs) = {} THEN NoFix
  ELSE LET first == CHOOSE k \in Fixed(epochs) : \A j \in Fixed(epochs) : k <= j
       IN  epochs[first].t - epochs[1].t

SolutionStateMetrics(epochs, start, end, step) ==
  [solutions |-> Len(epochs), expected |-> ExpectedEpochs(start, end, step),
   fixes |-> Cardinality(Fixed(epochs)), ttff |-> TtffSeconds(epochs)]

Residuals(epochs, control) == [k \in DOMAIN epochs |-> epochs[k].at - control]

-----------------------------------------------------------------------------
(* The tables over the experiments of a run.                                *)
\* Every manifest with a distance has a row; one without metrics has none in it.
AnalysisRow(id, m) ==
  [id |-> id, pair |-> {m.base, m.rover}, distance |-> m.distance,
   measured |-> m.metrics.solutions # 0,
   fixes |-> m.metrics.fixes, solutions |-> m.metrics.solutions,
   residuals |-> m.metrics.residuals]

AnalysisRows(manifests) ==
  {AnalysisRow(id, manifests[id]) : id \in {i \in DOMAIN manifests : manifests[i].distance # Unavailable}}

\* Mutant: an experiment without a fix rate counts as one of zero.
RatesOfAll(group) == {<<row.id, row.fixes, row.solutions>> : row \in group}

\* The fix rates the mean of a baseline is taken over: those that are not None.
Rates(group) == {<<row.id, row.fixes, row.solutions>> : row \in {r \in group : r.measured}}

\* By unordered pair.  The count is of the rows, whether they hold metrics or not.
PerBaselineAggregates(rows) ==
  [pair \in {row.pair : row \in rows} |->
     LET group == {row \in rows : row.pair = pair}
     IN  [count |-> Cardinality(group), rates |-> Rates(group),
          distances |-> {row.distance : row \in group}]]
=============================================================================
