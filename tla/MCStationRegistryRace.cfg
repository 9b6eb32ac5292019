SPECIFICATION Spec
CONSTANTS
    Importers = {i1, i2}
    Packages <- RacePackages
    Idents = {"log", "map"}
    Contents = {"s1", "s2"}
    None = None
    MaxImports = 3
    MaxRewrites = 0
    m1 = m1
    m2 = m2
CHECK_DEADLOCK FALSE
INVARIANTS HistoriesDisjoint
