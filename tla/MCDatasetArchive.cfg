SPECIFICATION Spec
CONSTANTS
    Day = 4
    None = None
    Torn = Torn
    Delivered <- MCDelivered
    Contents <- MCContents
    Replacements <- MCReplacements
    Deliveries <- MCDeliveries
INVARIANTS ManifestComplete PackagesVerify CompleteIsExact
PROPERTIES RawWriteOnce
CHECK_DEADLOCK FALSE
