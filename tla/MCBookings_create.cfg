\* Three clients book the same staff member at the same time.
SPECIFICATION Spec
CONSTANTS
    r1 = r1  r2 = r2  r3 = r3
    b1 = b1  b2 = b2  b3 = b3
    alice = alice  cut = cut  colour = colour
    Request <- ThreeRequests
    Booking <- ThreeBookings
    Seeded = {}
    Staff <- OneStaff
    Service <- TwoServices
    Offers <- AllOffered
    Duration <- ShortAndLong
    Hours <- AllDay
    Starts = {0, 1, 2}
    Kinds = {"create"}
    Roles = {"owner", "stranger", "privileged"}
    LongLead = 2
    ShortLead = 1
    OptIns = {TRUE}
    MinCancellation = 1
    MaxRetries = 1
    RollbackExpires = FALSE
    SameSlotMoves = FALSE
    MaxCrashes = 1
    Horizon = 0
    SlotStep = 1
    BufferMinutes = 0
    DayLength = 4
SYMMETRY RequestSymmetry
INVARIANTS TypeOK NoOverlap
PROPERTIES RefusalJustified
