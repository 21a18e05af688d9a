SPECIFICATION Spec
CONSTANTS
    ExchangeLimit = 1
    Probes <- MCProbes
    MaxEvents = 3
INVARIANTS
    TypeOK
    OwnSaveShown
    EditorsRehydrated
    NothingWiped
    RanOnce
    IndInv
PROPERTIES
    NoPrematureRedirect
    GateOpens
    StaffKnown
    OwnSaveAppears
CHECK_DEADLOCK FALSE
