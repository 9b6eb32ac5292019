SPECIFICATION Spec
CONSTANTS
    Importers = {i1, i2}
    Packages <- MCPackages
    Idents = {"log", "map"}
    Contents = {"s1", "s2"}
    None = None
    MaxImports = 2
    MaxRewrites = 1
    m1 = m1
    m2 = m2
INVARIANTS ReportedStands OneImportDisjoint
PROPERTIES ImportsWhole ImportEnds
CHECK_DEADLOCK FALSE
