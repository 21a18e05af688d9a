------------------------------- MODULE Bookings -------------------------------
(***************************************************************************)
(* The booking component: create, cancel, reschedule and the PATCH that    *)
(* completes a booking or files it as a no-show, as concurrent requests.   *)
(*                                                                         *)
(* Every request runs services/booking_service.py (or a PATCH handler) on  *)
(* a session of its own, at PostgreSQL's default isolation, READ           *)
(* COMMITTED: each statement sees what is committed when it starts, a      *)
(* writer waits for the transaction that holds the row, and an index       *)
(* insertion waits for the transaction of a clashing uncommitted row.      *)
(* One action is one statement with the Python code up to the next await.  *)
(*                                                                         *)
(* What the slot check needs of the catalogue (offers, durations, hours)   *)
(* is constant.  Of the notifications only those with a life of their own  *)
(* beside the booking are kept: the pending reminders and the review       *)
(* request.                                                                *)
(***************************************************************************)
EXTENDS BookingTable, Slots, FiniteSets

CONSTANTS
    Request,          \* HTTP requests and bot callbacks, one session each
    Seeded,           \* bookings already confirmed at the start
    Offers,           \* <<staff, service>> pairs that pass the catalogue checks
    Duration,         \* services.duration_minutes
    Hours,            \* effective working intervals of each staff member
    Starts,           \* start times that requests ask for
    Kinds,            \* request kinds that are issued
    Roles,            \* in which roles: owner, another client, or privileged
    LongLead,         \* businesses.reminder_long_hours
    ShortLead,        \* businesses.reminder_short_hours
    OptIns,           \* values of users.reminders_enabled
    MinCancellation,  \* businesses.min_cancellation_hours
    MaxRetries,       \* _MAX_CONFLICT_RETRIES
    RollbackExpires,  \* a session rollback expires the objects it loaded
    SameSlotMoves,    \* a booking may be rescheduled to the start it has
    MaxCrashes,       \* bound on lost requests
    Horizon           \* bound on the clock

ASSUME BookingsAssumption ==
    /\ Seeded \subseteq Booking
    /\ Offers \subseteq Staff \X Service
    /\ Duration \in [Service -> Nat \ {0}]
    /\ Hours \in [Staff -> SUBSET Interval]
    /\ Starts \subseteq Int
    /\ OptIns \subseteq BOOLEAN
    /\ {LongLead, ShortLead, MinCancellation} \subseteq Nat
    /\ {MaxRetries, MaxCrashes, Horizon} \subseteq Nat

VARIABLES
    bookings,        \* committed rows of table bookings
    reminders,       \* committed pending REMINDER_* rows of each booking
    reviewRequests,  \* bookings with a committed REVIEW_REQUEST row
    now,             \* the clock
    pc,              \* next statement of each request
    op,              \* what each request asks for
    clock,           \* now, as the handler read it
    loaded,          \* the booking row, as the session loaded it
    snapshot,        \* rows that SELECT ... FOR UPDATE found and has to lock
    held,            \* row inserted or updated by the open transaction
    written,         \* its uncommitted version
    failures,        \* attempts of create_booking that ended in a deadlock
    result           \* how the request was answered

sessionVars == <<clock, loaded, snapshot, held, written>>
tableVars == <<bookings, reminders, reviewRequests>>
vars == <<tableVars, now, pc, op, sessionVars, failures, result>>

CreateOp == [kind : {"create"}, staff : Staff, service : Service, start : Starts]
CancelOp == [kind : {"cancel"}, id : Booking, role : Roles]
RescheduleOp == [kind : {"reschedule"}, id : Booking, role : Roles, start : Starts]
PatchOp == [kind : {"patch"}, id : Booking, status : {"completed", "no_show"}]
Op == CreateOp \cup CancelOp \cup RescheduleOp \cup PatchOp

NoOp == [kind |-> "none"]

PC == {"idle", "select", "lock", "validate", "write", "unique", "exclude",
       "commit", "refresh", "enqueue", "retry", "done"}

Result == {"none", "ok", "slot_in_past", "not_offered", "not_found", "forbidden",
           "wrong_status", "too_late", "slot_taken", "outside_hours", "error", "crashed"}

(* 24H and 2H reminders of a booking at start, those still ahead of time t. *)
FreshReminders(start, t) ==
    {m \in {[kind |-> "long", at |-> start - LongLead],
            [kind |-> "short", at |-> start - ShortLead]} : m.at > t}

(* Mutant: the row is inserted with a status of its own. *)
NewRowDraft(o) ==
    [status |-> "draft", staff |-> o.staff, service |-> o.service,
     start |-> o.start, end |-> o.start + Duration[o.service]]

(* The row that create_booking inserts. *)
NewRow(o) ==
    [status |-> "confirmed", staff |-> o.staff, service |-> o.service,
     start |-> o.start, end |-> o.start + Duration[o.service]]

Init ==
    /\ \E slot \in [Seeded -> CreateOp] :
        /\ \A id \in Seeded : <<slot[id].staff, slot[id].service>> \in Offers
        /\ \A x, y \in Seeded : x # y => ~Overlap(NewRow(slot[x]), NewRow(slot[y]))
        /\ bookings = [id \in Booking |-> IF id \in Seeded THEN NewRow(slot[id]) ELSE Absent]
        /\ reminders = [id \in Booking |->
                IF id \in Seeded THEN FreshReminders(slot[id].start, 0) ELSE {}]
    /\ reviewRequests = {}
    /\ now = 0
    /\ pc = [r \in Request |-> "idle"]
    /\ op = [r \in Request |-> NoOp]
    /\ clock = [r \in Request |-> 0]
    /\ loaded = [r \in Request |-> Absent]
    /\ snapshot = [r \in Request |-> {}]
    /\ held = [r \in Request |-> {}]
    /\ written = [r \in Request |-> Absent]
    /\ failures = [r \in Request |-> 0]
    /\ result = [r \in Request |-> "none"]

-----------------------------------------------------------------------------
(* PostgreSQL.                                                             *)

Others(r) == Request \ {r}

(* Rows whose lock another transaction holds. *)
HeldByOthers(r) == UNION {held[q] : q \in Others(r)}

(* The uncommitted row of q is in the indexes from its insertion on. *)
Indexed(q) == pc[q] \in {"exclude", "commit"} /\ held[q] # {} /\ IsActive(written[q])

(* Mutant: there is no exclusion constraint, only the unique index. *)
ClashOfStarts(index, a, b) == a.staff = b.staff /\ a.start = b.start

(* The key conflict that each index forbids between two active rows:       *)
(* bookings_active_by_staff is unique on (staff_id, starts_at) and comes   *)
(* first, being the older index; bookings_no_overlap excludes overlaps.    *)
Clash(index, a, b) ==
    IF index = "unique" THEN a.staff = b.staff /\ a.start = b.start ELSE Overlap(a, b)

(* Committed rows that nobody is changing and that violate the index. *)
Violated(r) ==
    {id \in Booking \ (held[r] \cup HeldByOthers(r)) :
        IsActive(bookings[id]) /\ Clash(pc[r], bookings[id], written[r])}

(* Transactions with a version, old or new, that clashes in the index. *)
IndexBlockers(r) ==
    {q \in Others(r) :
        \/ \E id \in held[q] : IsActive(bookings[id]) /\ Clash(pc[r], bookings[id], written[r])
        \/ Indexed(q) /\ Clash(pc[r], written[q], written[r])}

(* The transactions that r waits for. *)
WaitsFor(r) ==
    CASE pc[r] = "lock" -> {q \in Others(r) : held[q] \cap snapshot[r] # {}}
      [] pc[r] = "write" /\ op[r].kind # "create" -> {q \in Others(r) : op[r].id \in held[q]}
      [] pc[r] \in {"unique", "exclude"} -> IndexBlockers(r)
      [] OTHER -> {}

(* Mutant: the database does not look for deadlocks. *)
NeverDeadlocked(r) == FALSE

(* r waits, and through others for itself. *)
Deadlocked(r) ==
    /\ WaitsFor(r) # {}
    /\ LET reach[n \in 0..Cardinality(Request)] ==
               IF n = 0 THEN WaitsFor(r)
               ELSE reach[n - 1] \cup UNION {WaitsFor(q) : q \in reach[n - 1]}
       IN  r \in reach[Cardinality(Request)]

-----------------------------------------------------------------------------
(* The request is answered; whatever transaction is open is rolled back.   *)
Answer(r, answer) ==
    /\ pc' = [pc EXCEPT ![r] = "done"]
    /\ result' = [result EXCEPT ![r] = answer]
    /\ clock' = [clock EXCEPT ![r] = 0]
    /\ loaded' = [loaded EXCEPT ![r] = Absent]
    /\ snapshot' = [snapshot EXCEPT ![r] = {}]
    /\ held' = [held EXCEPT ![r] = {}]
    /\ written' = [written EXCEPT ![r] = Absent]

Goto(r, label) == pc' = [pc EXCEPT ![r] = label] /\ UNCHANGED result

(* The interval that r wants, as a row for Overlap. *)
Wanted(r) ==
    IF op[r].kind = "create"
    THEN NewRow(op[r])
    ELSE [loaded[r] EXCEPT !.start = op[r].start,
                           !.end = op[r].start + Duration[loaded[r].service]]

(* The booking a reschedule may not collide with: itself. *)
Self(r) == IF op[r].kind = "create" THEN {} ELSE {op[r].id}

TooLate(role, row, t) == role = "owner" /\ row.start - t < MinCancellation

-----------------------------------------------------------------------------
(* create_booking: the past check and the catalogue checks. *)
AttemptCreate(r, o) ==
    /\ UNCHANGED <<tableVars, now>>
    /\ \/ /\ o.start < now
          /\ Answer(r, "slot_in_past")
       \/ /\ o.start >= now
          /\ <<o.staff, o.service>> \notin Offers
          /\ Answer(r, "not_offered")
       \/ /\ o.start >= now
          /\ <<o.staff, o.service>> \in Offers
          /\ Goto(r, "select")
          /\ clock' = [clock EXCEPT ![r] = now]
          /\ UNCHANGED <<loaded, snapshot, held, written>>

StartCreate(r) ==
    /\ pc[r] = "idle"
    /\ "create" \in Kinds
    /\ \E o \in CreateOp :
        /\ op' = [op EXCEPT ![r] = o]
        /\ AttemptCreate(r, o)
    /\ UNCHANGED failures

(* cancel_booking and reschedule_booking: early returns on the row as it   *)
(* was loaded, in the order of the code ("none" when all checks pass).     *)
Refusal(o, row) ==
    IF row = Absent THEN "not_found"
    ELSE IF o.role = "stranger" THEN "forbidden"
    ELSE IF ~IsActive(row) THEN "wrong_status"
    ELSE IF TooLate(o.role, row, now) THEN "too_late"
    ELSE IF o.kind = "reschedule" /\ o.start < now THEN "slot_in_past"
    ELSE "none"

(* The session loads the booking, without a lock, and checks it. *)
StartChange(r) ==
    /\ pc[r] = "idle"
    /\ \E o \in CancelOp \cup RescheduleOp :
        LET row == bookings[o.id]
        IN  /\ o.kind \in Kinds
            /\ (o.kind = "reschedule" /\ row # Absent) => (SameSlotMoves \/ o.start # row.start)
            /\ op' = [op EXCEPT ![r] = o]
            /\ \/ /\ Refusal(o, row) # "none"
                  /\ Answer(r, Refusal(o, row))
               \/ /\ Refusal(o, row) = "none"
                  /\ Goto(r, IF o.kind = "cancel" THEN "write" ELSE "select")
                  /\ clock' = [clock EXCEPT ![r] = now]
                  /\ loaded' = [loaded EXCEPT ![r] = row]
                  /\ UNCHANGED <<snapshot, held, written>>
    /\ UNCHANGED <<tableVars, now, failures>>

(* The PATCH handlers load the booking and check nothing but its presence. *)
(* PATCHes of the comment alone, and to other statuses, are left out.      *)
StartPatch(r) ==
    /\ pc[r] = "idle"
    /\ "patch" \in Kinds
    /\ \E o \in PatchOp :
        /\ op' = [op EXCEPT ![r] = o]
        /\ \/ /\ bookings[o.id] = Absent
              /\ Answer(r, "not_found")
           \/ /\ bookings[o.id] # Absent
              /\ Goto(r, "write")
              /\ loaded' = [loaded EXCEPT ![r] = bookings[o.id]]
              /\ UNCHANGED <<clock, snapshot, held, written>>
    /\ UNCHANGED <<tableVars, now, failures>>

(* find_overlapping_for_update starts: the rows its snapshot shows. *)
SelectOverlapping(r) ==
    /\ pc[r] = "select"
    /\ snapshot' = [snapshot EXCEPT ![r] =
            {id \in Booking \ Self(r) : IsActive(bookings[id]) /\ Overlap(bookings[id], Wanted(r))}]
    /\ Goto(r, "lock")
    /\ UNCHANGED <<tableVars, now, op, clock, loaded, held, written, failures>>

(* Mutant: the rows of the snapshot are believed after the wait. *)
OverlappedOnce(r) == snapshot[r]

(* Once its lock is granted, a row that no longer matches drops out. *)
StillOverlapping(r) ==
    {id \in snapshot[r] : IsActive(bookings[id]) /\ Overlap(bookings[id], Wanted(r))}

(* find_overlapping_for_update ends when nobody holds any of the rows. *)
LockOverlapping(r) ==
    /\ pc[r] = "lock"
    /\ WaitsFor(r) = {}
    /\ \/ /\ StillOverlapping(r) # {}
          /\ Answer(r, "slot_taken")
       \/ /\ StillOverlapping(r) = {}
          /\ Goto(r, "validate")
          /\ snapshot' = [snapshot EXCEPT ![r] = {}]
          /\ UNCHANGED <<clock, loaded, held, written>>
    /\ UNCHANGED <<tableVars, now, op, failures>>

(* Busy intervals of the staff member on the local day of the new start. *)
BusyOfDay(r) ==
    LET midnight == Midnight(Wanted(r).start)
    IN  {<<bookings[id].start, bookings[id].end>> : id \in
            {id \in Booking \ Self(r) :
                /\ IsActive(bookings[id])
                /\ bookings[id].staff = Wanted(r).staff
                /\ bookings[id].start < midnight + DayLength
                /\ bookings[id].end > midnight}}

(* Working hours, step and buffer: the start must be one that is offered. *)
ValidateSlot(r) ==
    /\ pc[r] = "validate"
    /\ LET offered == AvailableStarts(Midnight(Wanted(r).start), Hours[Wanted(r).staff],
                                      Duration[Wanted(r).service], BusyOfDay(r), clock[r])
       IN  \/ /\ Wanted(r).start \in offered
              /\ Goto(r, "write")
              /\ UNCHANGED sessionVars
           \/ /\ Wanted(r).start \notin offered
              /\ Answer(r, "outside_hours")
    /\ UNCHANGED <<tableVars, now, op, failures>>

(* The flush inserts the booking under a fresh key. *)
Insert(r) ==
    /\ pc[r] = "write"
    /\ op[r].kind = "create"
    /\ \E id \in Booking \ HeldByOthers(r) :
        /\ bookings[id] = Absent
        /\ held' = [held EXCEPT ![r] = {id}]
    /\ written' = [written EXCEPT ![r] = NewRow(op[r])]
    /\ Goto(r, "unique")
    /\ UNCHANGED <<tableVars, now, op, clock, loaded, snapshot, failures>>

(* Mutant: a reschedule writes back every column it has loaded. *)
UpdatedWhole(r, current) ==
    CASE op[r].kind = "cancel" -> [current EXCEPT !.status = "cancelled_by_admin"]
      [] op[r].kind = "patch" -> [current EXCEPT !.status = op[r].status]
      [] OTHER -> Wanted(r)

(* Mutant: a reschedule moves the start and leaves the end. *)
UpdatedHalf(r, current) ==
    CASE op[r].kind = "cancel" -> [current EXCEPT !.status = "cancelled_by_admin"]
      [] op[r].kind = "patch" -> [current EXCEPT !.status = op[r].status]
      [] OTHER -> [current EXCEPT !.start = op[r].start]

(* The row an UPDATE leaves: current is the latest committed version, and  *)
(* only columns that differ from the loaded object are written.            *)
Updated(r, current) ==
    CASE op[r].kind = "cancel" ->
            [current EXCEPT !.status = IF op[r].role = "privileged"
                                       THEN "cancelled_by_admin"
                                       ELSE "cancelled_by_client"]
      [] op[r].kind = "patch" -> [current EXCEPT !.status = op[r].status]
      [] OTHER ->
            [current EXCEPT
                !.start = IF Wanted(r).start = loaded[r].start THEN @ ELSE Wanted(r).start,
                !.end = IF Wanted(r).end = loaded[r].end THEN @ ELSE Wanted(r).end]

(* A PATCH to the status the object was loaded with writes no column. *)
NothingToWrite(r) == op[r].kind = "patch" /\ op[r].status = loaded[r].status

(* The flush updates the booking by primary key, after the transaction     *)
(* that holds the row has ended.  A row that stays out of the two partial  *)
(* indexes, or whose indexed columns do not change, touches neither.       *)
Update(r) ==
    /\ pc[r] = "write"
    /\ op[r].kind # "create"
    /\ LET id == op[r].id
           row == Updated(r, bookings[id])
       IN  \/ /\ NothingToWrite(r)
              /\ Goto(r, "commit")
              /\ UNCHANGED <<held, written>>
           \/ /\ ~NothingToWrite(r)
              /\ WaitsFor(r) = {}
              /\ held' = [held EXCEPT ![r] = {id}]
              /\ written' = [written EXCEPT ![r] = row]
              /\ Goto(r, IF IsActive(row) /\ row # bookings[id] THEN "unique" ELSE "commit")
    /\ UNCHANGED <<tableVars, now, op, clock, loaded, snapshot, failures>>

(* The index in turn accepts the row: nothing clashes and nobody may still *)
(* make something clash.                                                   *)
IndexAccepts(r) ==
    /\ pc[r] \in {"unique", "exclude"}
    /\ IndexBlockers(r) = {}
    /\ Violated(r) = {}
    /\ Goto(r, IF pc[r] = "unique" THEN "exclude" ELSE "commit")
    /\ UNCHANGED <<tableVars, now, op, sessionVars, failures>>

(* Mutant: a clash with an uncommitted row counts as a taken slot. *)
IndexRejectsEarly(r) ==
    /\ pc[r] \in {"unique", "exclude"}
    /\ Violated(r) # {} \/ IndexBlockers(r) # {}
    /\ Answer(r, IF op[r].kind = "create" THEN "slot_taken" ELSE "error")
    /\ UNCHANGED <<tableVars, now, op, failures>>

(* IntegrityError: create_booking turns it into SlotAlreadyTaken, while in *)
(* reschedule_booking it comes out of the autoflush before the DELETE of   *)
(* reminders, outside the try around the commit.                           *)
IndexRejects(r) ==
    /\ pc[r] \in {"unique", "exclude"}
    /\ Violated(r) # {}
    /\ Answer(r, IF op[r].kind = "create" THEN "slot_taken" ELSE "error")
    /\ UNCHANGED <<tableVars, now, op, failures>>

(* PostgreSQL kills a transaction that waits for itself.  create_booking   *)
(* rolls back and goes for another attempt, the others answer 500.         *)
Deadlock(r) ==
    /\ Deadlocked(r)
    /\ \/ /\ op[r].kind = "create"
          /\ failures' = [failures EXCEPT ![r] = @ + 1]
          /\ Goto(r, "retry")
          /\ held' = [held EXCEPT ![r] = {}]
          /\ written' = [written EXCEPT ![r] = Absent]
          /\ UNCHANGED <<clock, loaded, snapshot>>
       \/ /\ op[r].kind # "create"
          /\ Answer(r, "error")
          /\ UNCHANGED failures
    /\ UNCHANGED <<tableVars, now, op>>

(* The loop of create_booking: give up after the last retry.  The attempt  *)
(* reads business.id, which fails on an object that the rollback expired.  *)
RetryCreate(r) ==
    /\ pc[r] = "retry"
    /\ \/ /\ failures[r] > MaxRetries \/ RollbackExpires
          /\ Answer(r, "error")
          /\ UNCHANGED <<tableVars, now>>
       \/ /\ failures[r] <= MaxRetries /\ ~RollbackExpires
          /\ AttemptCreate(r, op[r])
    /\ UNCHANGED <<op, failures>>

(* Mutant: a reschedule leaves the reminders of the old start in place. *)
RemindersPiledUp(r, id, optIn) ==
    CASE op[r].kind = "cancel" -> {}
      [] op[r].kind = "patch" -> reminders[id]
      [] OTHER -> reminders[id] \cup (IF optIn THEN FreshReminders(op[r].start, clock[r]) ELSE {})

(* The reminders of booking id once r has committed. *)
RemindersAfter(r, id, optIn) ==
    CASE op[r].kind = "cancel" -> {}
      [] op[r].kind = "patch" -> reminders[id]
      [] OTHER -> IF optIn THEN FreshReminders(op[r].start, clock[r]) ELSE {}

(* The commit makes the row and its reminders visible.  The reminders were *)
(* deleted and inserted under the lock of the row, so that nobody else has *)
(* touched them in between.  A PATCH goes on with the review request.      *)
Commit(r) ==
    /\ pc[r] = "commit"
    /\ bookings' = [id \in Booking |-> IF id \in held[r] THEN written[r] ELSE bookings[id]]
    /\ \E optIn \in OptIns :
          reminders' = [id \in Booking |->
              IF id \in held[r] THEN RemindersAfter(r, id, optIn) ELSE reminders[id]]
    /\ \/ /\ op[r].kind # "patch"
          /\ Answer(r, "ok")
       \/ /\ op[r].kind = "patch"
          /\ Goto(r, "refresh")
          /\ held' = [held EXCEPT ![r] = {}]
          /\ written' = [written EXCEPT ![r] = Absent]
          /\ UNCHANGED <<clock, loaded, snapshot>>
    /\ UNCHANGED <<reviewRequests, now, op, failures>>

(* Mutant: only a booking that was active can become completed. *)
CompletedFromActive(r) ==
    bookings[op[r].id].status = "completed" /\ IsActive(loaded[r])

(* A booking that was not completed when it was loaded and is completed    *)
(* now that session.refresh has read it again.                             *)
NewlyCompleted(r) ==
    bookings[op[r].id].status = "completed" /\ loaded[r].status # "completed"

(* _enqueue_review_request: a client who takes reminders is to be asked.   *)
Refresh(r) ==
    /\ pc[r] = "refresh"
    /\ \/ /\ NewlyCompleted(r) /\ TRUE \in OptIns
          /\ Goto(r, "enqueue")
          /\ UNCHANGED sessionVars
       \/ /\ ~NewlyCompleted(r) \/ FALSE \in OptIns
          /\ Answer(r, "ok")
    /\ UNCHANGED <<tableVars, now, op, failures>>

(* ux_review_request_per_booking lets one row in; on the violation the     *)
(* session is rolled back and the response is built from the booking.      *)
EnqueueReview(r) ==
    /\ pc[r] = "enqueue"
    /\ reviewRequests' = reviewRequests \cup {op[r].id}
    /\ Answer(r, IF op[r].id \in reviewRequests /\ RollbackExpires THEN "error" ELSE "ok")
    /\ UNCHANGED <<bookings, reminders, now, op, failures>>

(* The process or its connection is lost before the answer. *)
Crash(r) ==
    /\ pc[r] \notin {"idle", "done"}
    /\ Cardinality({q \in Request : result[q] = "crashed"}) < MaxCrashes
    /\ Answer(r, "crashed")
    /\ UNCHANGED <<tableVars, now, op, failures>>

Tick ==
    /\ now < Horizon
    /\ now' = now + 1
    /\ UNCHANGED <<tableVars, pc, op, sessionVars, failures, result>>

AllAnswered ==
    /\ \A r \in Request : pc[r] = "done"
    /\ UNCHANGED vars

-----------------------------------------------------------------------------
Start(r) == StartCreate(r) \/ StartChange(r) \/ StartPatch(r)

Step(r) ==
    \/ SelectOverlapping(r) \/ LockOverlapping(r) \/ ValidateSlot(r)
    \/ Insert(r) \/ Update(r)
    \/ IndexAccepts(r) \/ IndexRejects(r)
    \/ Deadlock(r) \/ RetryCreate(r)
    \/ Commit(r) \/ Refresh(r) \/ EnqueueReview(r)

Next ==
    \/ \E r \in Request : Start(r) \/ Step(r) \/ Crash(r)
    \/ Tick
    \/ AllAnswered

Spec == Init /\ [][Next]_vars

(* The database and the event loop run what they have started; nobody is   *)
(* obliged to issue a request.                                             *)
FairSpec == Spec /\ \A r \in Request : WF_vars(Step(r))

-----------------------------------------------------------------------------
(* Every variable has its type, and a row lock has at most one holder.     *)
TypeOK ==
    /\ bookings \in [Booking -> {Absent} \cup Row]
    /\ reminders \in [Booking -> SUBSET [kind : {"long", "short"}, at : Int]]
    /\ reviewRequests \subseteq Booking
    /\ now \in Nat
    /\ pc \in [Request -> PC]
    /\ op \in [Request -> {NoOp} \cup Op]
    /\ clock \in [Request -> Nat]
    /\ loaded \in [Request -> {Absent} \cup Row]
    /\ snapshot \in [Request -> SUBSET Booking]
    /\ held \in [Request -> SUBSET Booking]
    /\ written \in [Request -> {Absent} \cup Row]
    /\ failures \in [Request -> Nat]
    /\ result \in [Request -> Result]

(* No two active bookings of a staff member overlap, whichever requests    *)
(* raced: what the FOR UPDATE check and the two indexes are there for.     *)
NoOverlap ==
    \A x, y \in Booking :
        x # y /\ IsActive(bookings[x]) /\ IsActive(bookings[y])
            => ~Overlap(bookings[x], bookings[y])

(* Seen from outside, the transactions are the one-step changes of the     *)
(* calendar: bookings appear, move and close, and a closed one never comes *)
(* back to take a slot.                                                    *)
BookingsCalendar == INSTANCE Calendar WITH calendar <- bookings

RefinesCalendar == BookingsCalendar!CalendarSpec

(* SlotAlreadyTaken is only answered while a committed active booking is   *)
(* in the way: a race that its other side loses refuses nobody.            *)
RefusalJustified ==
    [][\A r \in Request : result[r] = "none" /\ result'[r] = "slot_taken" =>
            \E id \in Booking \ Self(r) :
                IsActive(bookings[id]) /\ Overlap(bookings[id], Wanted(r))]_vars

(* The pending reminders of an active booking announce the start it has    *)
(* now, after any number of concurrent reschedules.  With SameSlotMoves,   *)
(* the code does not keep to it: a reschedule to the start that it has     *)
(* loaded writes reminders for it, but no start.                           *)
RemindersFollow ==
    \A id \in Booking :
        IsActive(bookings[id]) =>
            reminders[id] \subseteq
                {[kind |-> "long", at |-> bookings[id].start - LongLead],
                 [kind |-> "short", at |-> bookings[id].start - ShortLead]}

(* When the dust settles, a completed booking of a client who takes        *)
(* reminders has its review request, unless a request was lost half-way.   *)
CompletedIsRequested ==
    (\A r \in Request : pc[r] = "done" /\ result[r] # "crashed") =>
        \A id \in Booking : bookings[id].status = "completed" => id \in reviewRequests

(* A request that was started is answered: nobody waits for ever on a row  *)
(* or an index entry, whatever the others hold.                            *)
EveryRequestAnswered ==
    \A r \in Request : pc[r] # "idle" ~> pc[r] = "done"

(* "That is a lost race, not a server fault": a deadlock alone does not    *)
(* make create_booking answer 500, only MaxRetries + 1 of them do.         *)
DeadlockIsRetried ==
    \A r \in Request :
        op[r].kind = "create" /\ result[r] = "error" => failures[r] = MaxRetries + 1

(* A reschedule to a slot that somebody else takes is refused, not a 500.  *)
RescheduleNeverFails ==
    \A r \in Request : op[r].kind = "reschedule" => result[r] # "error"

(* Between two active bookings of a staff member there is the buffer.      *)
BufferRespected ==
    \A x, y \in Booking :
        (/\ x # y
         /\ IsActive(bookings[x]) /\ IsActive(bookings[y])
         /\ bookings[x].staff = bookings[y].staff)
            => \/ bookings[x].end + BufferMinutes <= bookings[y].start
               \/ bookings[y].end + BufferMinutes <= bookings[x].start

(* A cancelled booking has no reminder waiting to be sent.                 *)
CancelledIsQuiet ==
    \A id \in Booking :
        bookings[id].status \in {"cancelled_by_client", "cancelled_by_admin"}
            => reminders[id] = {}
=============================================================================
