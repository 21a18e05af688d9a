\* Two clients book starts that are apart, but by less than the buffer.
SPECIFICATION Spec
CONSTANTS
    r1 = r1  r2 = r2  r3 = r3
    b1 = b1  b2 = b2  b3 = b3
    alice = alice  cut = cut  colour = colour
    Request <- TwoRequests
    Booking <- TwoBookings
    Seeded = {}
    Staff <- OneStaff
    Service = {cut}
    Offers <- CutOffered
    Duration <- ShortAndLong
    Hours <- AllDay
    Starts = {1, 2, 3}
    Kinds = {"create"}
    Roles = {"owner", "privileged"}
    LongLead = 2
    ShortLead = 1
    OptIns = {TRUE}
    MinCancellation = 1
    MaxRetries = 3
    RollbackExpires = TRUE
    SameSlotMoves = FALSE
    MaxCrashes = 0
    Horizon = 0
    SlotStep = 1
    BufferMinutes = 1
    DayLength = 6
INVARIANTS BufferRespected
