\* The job as runner.py adds it.
SPECIFICATION FairSpec
CONSTANTS
    r1 = r1  p1 = p1
    worker = worker
    Worker = worker
    Request = {r1}
    Patcher = {p1}
    Booking = {1, 2, 3}
    Seeds <- TwoStarts
    MaxNotes = 3
    Patched = {1}
    StartsIn = {2}
    LongLead = 2
    ShortLead = 1
    ReviewDelay = 1
    OptIns = {TRUE}
    MaxRetries = 2
    MaxBackoff = 2
    BatchLimit = 2
    MaxFaults = 1
    JobPaused = TRUE
CHECK_DEADLOCK FALSE
PROPERTIES DueIsTried
