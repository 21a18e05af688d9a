SPECIFICATION Spec
CONSTANTS
    b1 = b1
    s1 = s1
    m1 = m1
    d1 = d1
    d2 = d2
    t1 = t1
    t2 = t2
    Branches = {b1}
    Services = {s1}
    Staff = {m1}
    Dates = {d1, d2}
    Starts = {t1, t2}
    Offered <- MCOffered
    DayOf <- MCDayOf
    Today = d1
    Bookings = {k1}
    Before <- MCBefore
    Unset = Unset
    MaxWrites = 2
    MaxRequests = 2
    MaxDetours = 2
INVARIANTS
    IndInv
    ChoiceIsCoherent
    OneAnswerAwaited
    OwnChangesShown
    HeldTimerIsHere
PROPERTIES
    OwnChangeAppears
CHECK_DEADLOCK FALSE
