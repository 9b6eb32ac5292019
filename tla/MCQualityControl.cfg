SPECIFICATION QcSpec
CONSTANTS
    Day = 8
    None = None
    LastDay = 2
    Sessions <- MCSessions
    Files <- MCFiles
    BodyOf <- MCBodyOf
    Replacements <- MCReplacements
    ProfileNames <- MCProfileNames
    ProfileOf <- MCProfileOf
    Products <- MCProducts
    Coordinates <- MCCoordinates
    Workers = {w1, w2}
    Archives <- MCArchives
INVARIANTS AdmissionHonest  CountsExact
PROPERTIES RunAccounts
CHECK_DEADLOCK FALSE
