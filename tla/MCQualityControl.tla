--------------------------- MODULE MCQualityControl ---------------------------
(***************************************************************************)
(* Two kinds of archives: one session whose file holds any short sequence  *)
(* of epochs, to look at the measurements; and three sessions of two       *)
(* stations under changes, deaths and reruns, to look at the store.        *)
(***************************************************************************)
EXTENDS QualityControl

S(station, day, named, duplicate) ==
    [station |-> station, day |-> day, named |-> named, duplicate |-> duplicate]

A1 == S(1, 1, "canonical", FALSE)
A2 == S(1, 2, "canonical", FALSE)
B2 == S(2, 2, "canonical", FALSE)
C1 == S(3, 1, "alias", TRUE)
MCSessions == {A1, A2, B2, C1}

Body(declared, epochs) ==
    [sound |-> TRUE, marker |-> "canonical", receiver |-> "r1", declared |-> declared,
     frequencies |-> 2, odd |-> FALSE, epochs |-> epochs]

Whole == Body(2, <<0, 2, 4, 6>>)
Short == [Body(2, <<0, 2>>) EXCEPT !.receiver = "r2"]
Garbled == [Whole EXCEPT !.sound = FALSE]

\* Every sequence of up to four of the times -2, 0, 2, 4 and 6, told by the digits of a number.
Time(digit) == IF digit = 0 THEN None ELSE 2 * digit - 4
EpochsOf(n) == SelectSeq(<<Time(n % 6), Time((n \div 6) % 6), Time((n \div 36) % 6),
                           Time(n \div 216)>>, LAMBDA time : time # None)

Odd(n) == [Whole EXCEPT !.marker = IF n % 3 = 0 THEN "alias" ELSE IF n % 3 = 1 THEN "unknown" ELSE @,
                        !.frequencies = IF n % 2 = 0 THEN 1 ELSE 2, !.odd = (n < 6)]

MCFiles == 1..(2 * 6^4 - 1)
MCBodyOf(n) ==
    CASE n = 1 -> Whole [] n = 2 -> Short [] n = 3 -> Garbled
      [] n \in 4..12 -> Odd(n)
      [] OTHER -> Body(IF n % 2 = 0 THEN None ELSE 2, EpochsOf(n \div 2))

MCReplacements == {1, 2}

MCProfileNames == <<"archive", "network_rtk">>
MCProfileOf ==
    [p \in {"archive", "network_rtk"} |->
        IF p = "archive"
        THEN [interval |-> None, accept |-> 100, rejectBelow |-> 0, maximumGap |-> 8,
              external |-> FALSE]
        ELSE [interval |-> 2, accept |-> 99, rejectBelow |-> 75, maximumGap |-> 4,
              external |-> TRUE]]

MCProducts == {[n |-> 1, start |-> 8, end |-> 18, proven |-> TRUE]}
MCCoordinates == {"invalid"}

Only(t, body) == [s \in Sessions |-> IF s = t THEN body ELSE None]

Budget(changes, runs, deaths) == [changes |-> changes, runs |-> runs, deaths |-> deaths]

MCArchives ==
    {[sources |-> Only(A1, body), budget |-> Budget(0, 1, 0)] : body \in Files}
    \cup {[sources |-> Only(C1, 1), budget |-> Budget(1, 1, 0)],
          [sources |-> Only(A1, 1), budget |-> Budget(2, 3, 2)],
          [sources |-> [s \in Sessions |-> IF s = C1 THEN None ELSE 1],
           budget |-> Budget(0, 1, 1)]}
=============================================================================
