\* Two requests wait for each other: inserts and moves that overlap.
SPECIFICATION FairSpec
CONSTANTS
    r1 = r1  r2 = r2  r3 = r3
    b1 = b1  b2 = b2  b3 = b3
    alice = alice  cut = cut  colour = colour
    Request <- TwoRequests
    Booking <- ThreeBookings
    Seeded = {b1}
    Staff <- OneStaff
    Service = {colour}
    Offers <- ColourOffered
    Duration <- ShortAndLong
    Hours <- AllDay
    Starts = {0, 1, 3}
    Kinds = {"create", "cancel", "reschedule", "patch"}
    Roles = {"privileged"}
    LongLead = 1
    ShortLead = 0
    OptIns = {TRUE}
    MinCancellation = 0
    MaxRetries = 1
    RollbackExpires = TRUE
    SameSlotMoves = FALSE
    MaxCrashes = 1
    Horizon = 0
    SlotStep = 1
    BufferMinutes = 0
    DayLength = 6
PROPERTIES EveryRequestAnswered
