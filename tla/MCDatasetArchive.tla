--------------------------- MODULE MCDatasetArchive ---------------------------
(***************************************************************************)
(* Two kinds of deliveries: one observation file with any epochs, to look  *)
(* at the analysis; and two stations with copies, a navigation file and    *)
(* files in error, to look at the archive under edits, deaths and reruns.  *)
(***************************************************************************)
EXTENDS DatasetArchive

Target(n, station, day, kind) == [n |-> n, station |-> station, day |-> day, kind |-> kind]

A1 == Target(1, "ABUJ", 1, "observation")
A2 == Target(2, "ABUJ", 2, "observation")
B1 == Target(4, "BKFP", 1, "observation")

Path(n, target, copy, known) == [n |-> n, target |-> target, copy |-> copy, known |-> known]

PA1copy == Path(1, A1, TRUE, TRUE)
PA1 == Path(2, A1, FALSE, TRUE)
PA2 == Path(3, A2, FALSE, TRUE)
PNav == Path(4, Target(3, "ABUJ", 2, "navigation"), FALSE, TRUE)
PB1 == Path(5, B1, FALSE, TRUE)
PUnknown == Path(6, B1, FALSE, FALSE)

MCDelivered == {PA1copy, PA1, PA2, PNav, PB1, PUnknown}

Obs(interval, epochs) ==
    [code |-> 0, header |-> TRUE, interval |-> interval, stated |-> TRUE, position |-> 1,
     epochs |-> epochs]

Whole == Obs(1, <<0, 1, 2, 3>>)
Part == [Obs(None, <<1, 2>>) EXCEPT !.position = 2]
Broken == [Obs(1, <<0, 1>>) EXCEPT !.code = 1]

EpochSequences == UNION {[1..k -> 0..3] : k \in 0..4}
ShortSequences == UNION {[1..k -> -1..4] : k \in 0..2}

Analysed ==
    {Obs(1, e) : e \in EpochSequences} \cup {Obs(i, e) : i \in {None, 0, 2}, e \in ShortSequences}
        \cup {[Whole EXCEPT !.code = 2], [Whole EXCEPT !.header = FALSE],
              [Part EXCEPT !.stated = FALSE]}

MCContents == Analysed \cup {Whole, Part, Broken}
MCReplacements == {Whole, Broken}

Only(d, c) == [e \in Delivered |-> IF e = d THEN c ELSE None]

Mixed(a1, a1copy, a2, b1) ==
    [d \in Delivered |->
        CASE d = PA1 -> a1 [] d = PA1copy -> a1copy [] d = PA2 -> a2
          [] d = PB1 -> b1 [] d = PNav -> Part [] OTHER -> None]

MCDeliveries ==
    {[files |-> Only(PA1, c), edits |-> 0, runs |-> 1] : c \in Analysed}
    \cup {[files |-> Mixed(a1, a1copy, a2, b1), edits |-> 1, runs |-> 2] :
             a1 \in {None, Whole}, a1copy \in {None, Whole}, a2 \in {Part}, b1 \in {Whole, Broken}}
=============================================================================
