-------------------------- MODULE MCStationRegistry --------------------------
(***************************************************************************)
(* Packages for the station registry: what the dataset run writes for a    *)
(* station (no coordinates), the same station with its coordinates, and    *)
(* the packages whose rows the columns do not keep as they are written.    *)
(***************************************************************************)
EXTENDS StationRegistry

CONSTANTS m1, m2        \* two versions of a record's descriptive columns

Src(key, ident, expected) == [key |-> key, ident |-> ident, expected |-> expected]

Position(from, to, value) ==
    [from |-> from, to |-> to, value |-> value, source |-> "log", inRange |-> TRUE,
     geodetic |-> {"lat", "lon"}, ecef |-> {"x", "y", "z"}]

Fitted(from, to) ==
    [from |-> from, to |-> to, value |-> 0, source |-> "log", described |-> TRUE]

Package(sources, coordinates, equipment) ==
    [schema |-> "1.0", sources |-> sources, zoned |-> TRUE,
     provider |-> [code |-> "OSGOF", meta |-> m1, source |-> "log"],
     station |-> [code |-> "ABUJ", meta |-> m1, span |-> TRUE, source |-> "log"],
     coordinates |-> coordinates, equipment |-> equipment]

Log == <<Src("log", "log", None)>>

Bare == Package(Log, <<>>, <<>>)
Surveyed == Package(Log, <<Position(1, 2, 10), Position(2, None, 20)>>, <<Fitted(1, None)>>)
AsWritten == [Surveyed EXCEPT !.coordinates = <<Position(2, None, 24), Position(1, 2, 10)>>]
Local == [Bare EXCEPT !.zoned = FALSE]
Crossing == [Bare EXCEPT !.sources = <<Src("map", "map", None), Src("log", "log", None)>>]
Renamed == [Bare EXCEPT !.sources = <<Src("log", "log", None), Src("map", "map", "s1")>>,
                        !.station.meta = m2]
Overlapping == [Surveyed EXCEPT !.coordinates = <<Position(1, None, 10), Position(2, 3, 20)>>]
Incomplete == [Surveyed EXCEPT !.coordinates[1].geodetic = {"lat"}]

MCPackages ==
    {Bare, Surveyed, AsWritten, Local, Crossing, Renamed, Overlapping, Incomplete}

RacePackages == {Bare, Surveyed}
=============================================================================
