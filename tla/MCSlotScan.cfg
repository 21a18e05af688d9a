\* Hours, extra time and blocked time of a day, with and without a clock
\* change, around at most one booking.
SPECIFICATION FairSpec
CONSTANTS
    SlotStep = 2
    BufferMinutes = 1
    DayLength = 5
    ServiceMinutes = 2
    WallClocks <- AllDays
    BusySpan <- BusyTimes
    Nows = {1}
    MaxHours = 1
    MaxExtra = 1
    MaxBlocked = 1
    MaxBusy = 1
CHECK_DEADLOCK FALSE
INVARIANTS TypeOK IndInv OffersExactlyTheOpenGrid StrictlyAscending AgreesWithSlots
PROPERTIES Terminates
