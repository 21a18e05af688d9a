\* Bookings that exist are cancelled, moved and closed while others are made.
SPECIFICATION Spec
CONSTANTS
    r1 = r1  r2 = r2  r3 = r3
    b1 = b1  b2 = b2  b3 = b3
    alice = alice  cut = cut  colour = colour
    Request <- TwoRequests
    Booking <- ThreeBookings
    Seeded = {b1, b2}
    Staff <- OneStaff
    Service <- TwoServices
    Offers <- AllOffered
    Duration <- ShortAndLong
    Hours <- AllDay
    Starts = {1, 2, 3}
    Kinds = {"create", "cancel", "reschedule", "patch"}
    Roles = {"owner", "stranger", "privileged"}
    LongLead = 2
    ShortLead = 1
    OptIns = {TRUE}
    MinCancellation = 1
    MaxRetries = 1
    RollbackExpires = TRUE
    SameSlotMoves = FALSE
    MaxCrashes = 1
    Horizon = 1
    SlotStep = 1
    BufferMinutes = 0
    DayLength = 6
INVARIANTS IndInv OutcomesInv RemindersFollow CompletedIsRequested
PROPERTIES RefinesCalendar RefusalJustified
