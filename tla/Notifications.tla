----------------------------- MODULE Notifications -----------------------------
(***************************************************************************)
(* Table notifications as an outbox.  A request that changes a booking     *)
(* commits its messages (scheduled_at NULL) and its reminders with it and  *)
(* then dispatches the messages; the worker process dispatches what is     *)
(* due, booking by booking, in one session per tick.  A row is sent first  *)
(* and marked afterwards, so a crash or a failed commit in between sends   *)
(* it again.                                                               *)
(*                                                                         *)
(* A request on a booking there is reads it without a lock, tests what it  *)
(* has read and commits much later, whatever the booking has become.  The  *)
(* step here is the commit, and what has been read is any status that the  *)
(* booking has had.  All that a request writes comes with its commit, as   *)
(* its UPDATE of the booking, flushed before its DELETE of the reminders,  *)
(* keeps other requests for the booking waiting from there on.  How        *)
(* slots and indexes refuse it is module Bookings' affair.  Instead of     *)
(* scheduled_at and next_retry_at a row has wait, the time left until both *)
(* have passed, so that time needs no bound.                               *)
(***************************************************************************)
EXTENDS Integers, FiniteSetsExt, SequencesExt

CONSTANTS
    Booking,      \* primary keys, numbers
    Seeds,        \* the status that each booking may have at first
    Request,      \* sessions that make, cancel and move bookings, and dispatch
    Patcher,      \* sessions that PATCH bookings, which dispatches nothing
    Worker,       \* the worker process
    Patched,      \* bookings that PATCH requests are about
    MaxNotes,     \* bound on the rows ever inserted
    StartsIn,     \* time from now to the starts asked for
    LongLead,     \* businesses.reminder_long_hours
    ShortLead,    \* businesses.reminder_short_hours
    ReviewDelay,  \* from the answer to a completion to the review request
    OptIns,       \* values of users.reminders_enabled
    MaxRetries,   \* MAX_RETRIES
    MaxBackoff,   \* longest delay of a retry
    BatchLimit,   \* limit of list_pending_due
    MaxFaults,    \* bound on crashes, lost connections and lost answers
    JobPaused     \* add_job(next_run_time=None) leaves the job without a run

(* "active" is pending or confirmed. *)
Status == {"none", "active", "cancelled", "completed", "noshow"}

ASSUME NotificationsAssumption ==
    /\ Booking \subseteq Nat \ {0}
    /\ Seeds \subseteq [Booking -> Status]
    /\ Patched \subseteq Booking
    /\ Worker \notin Request \cup Patcher
    /\ Request \cap Patcher = {}
    /\ {MaxNotes, LongLead, ShortLead, MaxFaults} \subseteq Nat
    /\ StartsIn \subseteq Nat
    /\ {MaxRetries, MaxBackoff, BatchLimit, ReviewDelay} \subseteq Nat \ {0}
    /\ JobPaused \in BOOLEAN /\ OptIns \subseteq BOOLEAN

VARIABLES
    status,     \* status of each booking
    notes,      \* committed rows
    lastId,     \* rows inserted so far
    pc,         \* next step of each session
    target,     \* the booking that a request is about
    session,    \* rows a session has loaded, as it has changed them
    todo,       \* loaded rows that are still to be sent
    faults,
    attempts,   \* calls of send_message for each scheduled row there is
    delivered,  \* those that reached the chat
    excused     \* those of which the database could not learn the outcome

Dispatcher == Request \cup {Worker}
Session == Dispatcher \cup Patcher
Note == 1..MaxNotes

countVars == <<attempts, delivered, excused>>
vars == <<status, notes, lastId, pc, target, session, todo, faults, countVars>>

NoRow == [state |-> "absent"]

NoteRow == [booking : Booking, kind : {"message", "reminder", "review"},
            state : {"pending", "sent", "failed"}, retries : Nat, wait : Int]

IsPending(row) == row.state = "pending"
IsScheduled(row) == row.kind \in {"reminder", "review"}

NewNote(b, kind, wait) ==
    [booking |-> b, kind |-> kind, state |-> "pending", retries |-> 0, wait |-> wait]

(* A reminder that far ahead, if it is ahead at all. *)
Reminder(b, wait) == IF wait > 0 THEN <<NewNote(b, "reminder", wait)>> ELSE <<>>

(* The reminders of a booking that starts in this much time. *)
FreshReminders(b, in) == Reminder(b, in - LongLead) \o Reminder(b, in - ShortLead)

(* Rows that a client may have opted out of. *)
IfWanted(optIn, rows) == IF optIn THEN rows ELSE <<>>

(* The rows of bookings that start in this much time each. *)
SeededRows(in) ==
    {row \in {NewNote(b, "reminder", in[b] - lead) : b \in DOMAIN in, lead \in {LongLead, ShortLead}} :
        row.wait > 0}

Init ==
    /\ status \in Seeds
    /\ lastId \in 0..MaxNotes
    /\ \E in \in [{b \in Booking : status[b] = "active"} -> StartsIn] :
          \E row \in Bijection(1..lastId, SeededRows(in)) :
              notes = [n \in Note |-> IF n <= lastId THEN row[n] ELSE NoRow]
    /\ pc = [s \in Session |-> "idle"]
    /\ target = [r \in Request \cup Patcher |-> 0]
    /\ session = [d \in Dispatcher |-> [n \in Note |-> NoRow]]
    /\ todo = [d \in Dispatcher |-> {}]
    /\ faults = 0
    /\ attempts = [n \in Note |-> 0]
    /\ delivered = [n \in Note |-> 0]
    /\ excused = [n \in Note |-> 0]

-----------------------------------------------------------------------------
(* Requests.                                                               *)

(* The rows of table, followed by the new ones under fresh keys. *)
Inserted(table, new) ==
    [n \in Note |-> IF n \in (lastId + 1)..(lastId + Len(new)) THEN new[n - lastId] ELSE table[n]]

(* Mutant: a reminder that has a retry ahead of it is left alone. *)
PurgedUntried(b) ==
    [n \in Note |->
        IF IsPending(notes[n]) /\ notes[n].kind = "reminder" /\ notes[n].booking = b
                               /\ notes[n].retries = 0
        THEN NoRow ELSE notes[n]]

(* delete_pending_reminders_for_booking *)
Purged(b) ==
    [n \in Note |->
        IF IsPending(notes[n]) /\ notes[n].kind = "reminder" /\ notes[n].booking = b
        THEN NoRow ELSE notes[n]]

(* The booking changes and the outbox with it; the request goes on to its  *)
(* next step, or to its end.                                               *)
Commits(r, b, new, table, rows, label) ==
    /\ lastId + Len(rows) <= MaxNotes
    /\ status' = [status EXCEPT ![b] = new]
    /\ notes' = Inserted(table, rows)
    /\ lastId' = lastId + Len(rows)
    /\ pc' = [pc EXCEPT ![r] = label]
    /\ target' = [target EXCEPT ![r] = IF label = "idle" THEN 0 ELSE b]
    /\ attempts' = [n \in Note |-> IF table[n] = NoRow THEN 0 ELSE attempts[n]]
    /\ delivered' = [n \in Note |-> IF table[n] = NoRow THEN 0 ELSE delivered[n]]
    /\ excused' = [n \in Note |-> IF table[n] = NoRow THEN 0 ELSE excused[n]]
    /\ UNCHANGED <<session, todo, faults>>

Create(r) ==
    /\ pc[r] = "idle"
    /\ \E b \in Booking, in \in StartsIn, optIn \in OptIns :
        /\ status[b] = "none"
        /\ Commits(r, b, "active", notes,
                   <<NewNote(b, "message", 0)>> \o IfWanted(optIn, FreshReminders(b, in)),
                   "select")

(* The review request of this booking has been due. *)
ReviewWasDue(b) ==
    \E n \in Note :
        /\ notes[n] # NoRow /\ notes[n].kind = "review" /\ notes[n].booking = b
        /\ ~(IsPending(notes[n]) /\ notes[n].retries = 0 /\ notes[n].wait > 0)

(* A request has read the booking when it was active, as each one has been *)
(* once.  It has not been open for the two hours from a completion in      *)
(* between to its review.                                                  *)
ReadActive(b) == status[b] # "none" /\ ~ReviewWasDue(b)

(* Mutant: nobody dispatches what a cancellation has to say. *)
CancelSilently(r) ==
    /\ pc[r] = "idle"
    /\ \E b \in Booking :
        /\ ReadActive(b)
        /\ Commits(r, b, "cancelled", Purged(b), <<NewNote(b, "message", 0)>>, "idle")

(* cancel_booking overwrites whatever the booking is now. *)
Cancel(r) ==
    /\ pc[r] = "idle"
    /\ \E b \in Booking :
        /\ ReadActive(b)
        /\ Commits(r, b, "cancelled", Purged(b), <<NewNote(b, "message", 0)>>, "select")

(* reschedule_booking writes times and reminders, but not the status, which *)
(* may be another one by now.                                               *)
Reschedule(r) ==
    /\ pc[r] = "idle"
    /\ \E b \in Booking, in \in StartsIn, optIn \in OptIns :
        /\ ReadActive(b)
        /\ Commits(r, b, status[b], Purged(b),
                   IfWanted(optIn, FreshReminders(b, in)) \o <<NewNote(b, "message", 0)>>,
                   "select")

(* list_pending_for_booking: unscheduled rows, a next_retry_at regardless. *)
SelectMessages(r) ==
    /\ pc[r] = "select"
    /\ LET found == {n \in Note : /\ IsPending(notes[n])
                                  /\ ~IsScheduled(notes[n])
                                  /\ notes[n].booking = target[r]}
       IN  /\ session' = [session EXCEPT ![r] = [n \in Note |-> IF n \in found THEN notes[n] ELSE NoRow]]
           /\ todo' = [todo EXCEPT ![r] = found]
           /\ target' = [target EXCEPT ![r] = 0]
           /\ pc' = [pc EXCEPT ![r] = IF found = {} THEN "idle" ELSE "send"]
    /\ UNCHANGED <<status, notes, lastId, faults, countVars>>

-----------------------------------------------------------------------------
(* PATCH of a booking's status.                                            *)

(* A PATCH to completed or no_show, or of the comment alone.  The session  *)
(* writes a status that differs from the one it has read, whatever it is   *)
(* now; a booking read as completed is not asked a review for.  To have    *)
(* read it as cancelled or as a no-show is to have read it as active.      *)
Patch(p) ==
    /\ pc[p] = "idle"
    /\ \E b \in Patched : \E read \in {"active", status[b]} :
        \E new \in {"completed", "noshow", read} :
        /\ status[b] # "none"
        /\ Commits(p, b, IF new = read THEN status[b] ELSE new, notes, <<>>,
                   IF read = "completed" THEN "idle" ELSE "refresh")

(* The PATCH reads the booking again after its commit. *)
Refresh(p) ==
    /\ pc[p] = "refresh"
    /\ IF status[target[p]] = "completed"
       THEN /\ pc' = [pc EXCEPT ![p] = "review"]
            /\ UNCHANGED target
       ELSE /\ pc' = [pc EXCEPT ![p] = "idle"]
            /\ target' = [target EXCEPT ![p] = 0]
    /\ UNCHANGED <<status, notes, lastId, session, todo, faults, countVars>>

HasReview(b) ==
    \E n \in Note : notes[n] # NoRow /\ notes[n].kind = "review" /\ notes[n].booking = b

(* _enqueue_review_request asks for a review in a transaction of its own,  *)
(* if the client takes reminders; ux_review_request_per_booking refuses a  *)
(* second one.                                                             *)
EnqueueReview(p) ==
    /\ pc[p] = "review"
    /\ LET b == target[p]
       IN  \E optIn \in OptIns :
              Commits(p, b, status[b], notes,
                      IfWanted(optIn /\ ~HasReview(b), <<NewNote(b, "review", ReviewDelay)>>),
                      "idle")

-----------------------------------------------------------------------------
(* The worker.                                                             *)

(* Mutant: a row that has been tried is not looked at again. *)
DueFirstTime ==
    {n \in Note : IsPending(notes[n]) /\ IsScheduled(notes[n]) /\ notes[n].wait = 0
                                      /\ notes[n].retries = 0}

(* Mutant: whatever has not been sent is due. *)
DueUnlessSent ==
    {n \in Note : notes[n] # NoRow /\ notes[n].state # "sent"
                                    /\ IsScheduled(notes[n]) /\ notes[n].wait = 0}

(* list_pending_due *)
Due == {n \in Note : IsPending(notes[n]) /\ IsScheduled(notes[n]) /\ notes[n].wait = 0}

(* One run of the job (max_instances=1) loads a batch; the rows that come  *)
(* first are those scheduled first, which wait does not tell.              *)
SelectDue ==
    /\ pc[Worker] = "idle"
    /\ ~JobPaused
    /\ Due # {}
    /\ \E batch \in kSubset(Min({BatchLimit, Cardinality(Due)}), Due) :
          /\ session' = [session EXCEPT ![Worker] =
                            [n \in Note |-> IF n \in batch THEN notes[n] ELSE NoRow]]
          /\ todo' = [todo EXCEPT ![Worker] = batch]
    /\ pc' = [pc EXCEPT ![Worker] = "send"]
    /\ UNCHANGED <<status, notes, lastId, target, faults, countVars>>

-----------------------------------------------------------------------------
(* _dispatch_notifications, the same for both.                             *)

(* Rows of the booking in hand that have been tried and not committed. *)
Tried(d) == {n \in Note \ todo[d] : session[d][n] # NoRow}

(* Bookings in order, and each one's rows in order. *)
NextNote(d) ==
    LET first == Min({session[d][n].booking : n \in todo[d]})
    IN  Min({n \in todo[d] : session[d][n].booking = first})

(* Mutant: one commit for the whole tick. *)
LastOfTick(d, n) == todo[d] = {n}

LastOfBooking(d, n) ==
    \A m \in todo[d] \ {n} : session[d][m].booking # session[d][n].booking

BackoffDelay(retries) == Min({2^retries, MaxBackoff})

(* Mutant: one attempt too many. *)
RefusedLate(row) ==
    IF row.retries >= MaxRetries
    THEN [row EXCEPT !.state = "failed"]
    ELSE [row EXCEPT !.retries = @ + 1, !.wait = BackoffDelay(row.retries)]

(* Mutant: one attempt too few. *)
RefusedEarly(row) ==
    IF row.retries + 2 >= MaxRetries
    THEN [row EXCEPT !.state = "failed"]
    ELSE [row EXCEPT !.retries = @ + 1, !.wait = BackoffDelay(row.retries)]

(* Telegram has raised an error.  A message gets a next_retry_at as well,  *)
(* which nothing reads.                                                    *)
Refused(row) ==
    IF row.retries + 1 >= MaxRetries
    THEN [row EXCEPT !.state = "failed"]
    ELSE [row EXCEPT !.retries = @ + 1,
                     !.wait = IF IsScheduled(row) THEN BackoffDelay(row.retries) ELSE 0]

(* The next row is sent: it arrives, it is refused, or it arrives and the  *)
(* answer is lost, which is an error too.                                  *)
Send(d) ==
    /\ pc[d] = "send"
    /\ LET n == NextNote(d)
           row == session[d][n]
           Count(history) ==
               [history EXCEPT ![n] = IF notes[n] # NoRow /\ IsScheduled(row) THEN @ + 1 ELSE @]
       IN  /\ attempts' = Count(attempts)
           /\ todo' = [todo EXCEPT ![d] = @ \ {n}]
           /\ pc' = [pc EXCEPT ![d] = IF LastOfBooking(d, n) THEN "commit" ELSE "send"]
           /\ \/ /\ session' = [session EXCEPT ![d][n] = [row EXCEPT !.state = "sent"]]
                 /\ delivered' = Count(delivered)
                 /\ UNCHANGED <<faults, excused>>
              \/ /\ session' = [session EXCEPT ![d][n] = Refused(row)]
                 /\ UNCHANGED <<faults, delivered, excused>>
              \/ /\ faults < MaxFaults
                 /\ faults' = faults + 1
                 /\ session' = [session EXCEPT ![d][n] = Refused(row)]
                 /\ delivered' = Count(delivered)
                 /\ excused' = Count(excused)
    /\ UNCHANGED <<status, notes, lastId, target>>

(* Mutant: the new status is not flushed with the retry columns. *)
FlushedRetries(d, n) ==
    [notes[n] EXCEPT !.retries = session[d][n].retries, !.wait = session[d][n].wait]

(* The UPDATE writes the columns that the session has changed. *)
Flushed(d, n) ==
    IF IsPending(session[d][n])
    THEN [notes[n] EXCEPT !.retries = session[d][n].retries, !.wait = session[d][n].wait]
    ELSE [notes[n] EXCEPT !.state = session[d][n].state]

(* The session ends; a request is answered, whatever became of dispatch.   *)
EndsSession(d) ==
    /\ pc' = [pc EXCEPT ![d] = "idle"]
    /\ session' = [session EXCEPT ![d] = [n \in Note |-> NoRow]]
    /\ todo' = [todo EXCEPT ![d] = {}]

(* The rows of one booking are committed and the next one is taken up. *)
CommitTried(d) ==
    /\ pc[d] = "commit"
    /\ \A n \in Tried(d) : notes[n] # NoRow
    /\ notes' = [n \in Note |-> IF n \in Tried(d) THEN Flushed(d, n) ELSE notes[n]]
    /\ \/ /\ todo[d] = {}
          /\ EndsSession(d)
       \/ /\ todo[d] # {}
          /\ pc' = [pc EXCEPT ![d] = "send"]
          /\ session' = [session EXCEPT ![d] =
                [n \in Note |-> IF n \in Tried(d) THEN NoRow ELSE session[d][n]]]
          /\ UNCHANGED todo
    /\ UNCHANGED <<status, lastId, target, faults, countVars>>

(* A row has been deleted meanwhile: the flush raises StaleDataError, and  *)
(* the session, which nobody rolls back, fails for all other bookings of   *)
(* the tick too.                                                           *)
CommitStale(d) ==
    /\ pc[d] = "commit"
    /\ \E n \in Tried(d) : notes[n] = NoRow
    /\ EndsSession(d)
    /\ UNCHANGED <<status, notes, lastId, target, faults, countVars>>

(* The process or its database connection is lost. *)
Fault(d) ==
    /\ pc[d] \in {"select", "send", "commit"}
    /\ faults < MaxFaults
    /\ faults' = faults + 1
    /\ excused' = [n \in Note |->
            IF n \in Tried(d) /\ notes[n] # NoRow /\ IsScheduled(notes[n])
            THEN excused[n] + 1 ELSE excused[n]]
    /\ EndsSession(d)
    /\ target' = [r \in Request \cup Patcher |-> IF r = d THEN 0 ELSE target[r]]
    /\ UNCHANGED <<status, notes, lastId, attempts, delivered>>

-----------------------------------------------------------------------------
Sooner(row) == IF row # NoRow /\ row.wait > 0 THEN [row EXCEPT !.wait = @ - 1] ELSE row

TimePasses ==
    /\ \/ \E n \in Note : Sooner(notes[n]) # notes[n]
       \/ \E d \in Dispatcher, n \in Note : Sooner(session[d][n]) # session[d][n]
    /\ notes' = [n \in Note |-> Sooner(notes[n])]
    /\ session' = [d \in Dispatcher |-> [n \in Note |-> Sooner(session[d][n])]]
    /\ UNCHANGED <<status, lastId, pc, target, todo, faults, countVars>>

Dispatch(d) == Send(d) \/ CommitTried(d) \/ CommitStale(d)

Next ==
    \/ \E r \in Request : Create(r) \/ Cancel(r) \/ Reschedule(r) \/ SelectMessages(r)
    \/ \E p \in Patcher : Patch(p) \/ Refresh(p) \/ EnqueueReview(p)
    \/ SelectDue
    \/ \E d \in Dispatcher : Dispatch(d) \/ Fault(d)
    \/ TimePasses

Spec == Init /\ [][Next]_vars

SystemStep ==
    \/ SelectDue
    \/ \E r \in Request : SelectMessages(r)
    \/ \E d \in Dispatcher : Dispatch(d)

(* The scheduler runs its job again and again, a process that has begun to *)
(* dispatch goes on (each call has a timeout), and time passes.  A PATCH   *)
(* need not go on after its commit.                                        *)
FairSpec == Spec /\ WF_vars(SystemStep) /\ WF_vars(TimePasses)

-----------------------------------------------------------------------------
(* Every variable has its type. *)
TypeOK ==
    /\ status \in [Booking -> Status]
    /\ notes \in [Note -> {NoRow} \cup NoteRow]
    /\ lastId \in 0..MaxNotes
    /\ pc \in [Session -> {"idle", "refresh", "review", "select", "send", "commit"}]
    /\ target \in [Request \cup Patcher -> {0} \cup Booking]
    /\ session \in [Dispatcher -> [Note -> {NoRow} \cup NoteRow]]
    /\ todo \in [Dispatcher -> SUBSET Note]
    /\ faults \in 0..MaxFaults
    /\ attempts \in [Note -> Nat] /\ delivered \in [Note -> Nat] /\ excused \in [Note -> Nat]

(* A reminder or review request is tried MAX_RETRIES times at most, over   *)
(* all ticks, and once more for each time that the outcome got lost:       *)
(* nobody is written to again and again.                                   *)
AttemptsBounded ==
    \A n \in Note : notes[n] # NoRow /\ IsScheduled(notes[n]) =>
        attempts[n] <= MaxRetries + excused[n]

(* Nobody gets a reminder twice, unless the database could not know of the *)
(* first one; a batch that fails because another booking's row has gone    *)
(* does not send its own again.                                            *)
DeliveredOnce ==
    \A n \in Note : notes[n] # NoRow /\ IsScheduled(notes[n]) =>
        delivered[n] <= 1 + excused[n]

(* A reminder that is left to a cancelled booking. *)
LeftOver(n) ==
    /\ IsPending(notes[n]) /\ notes[n].kind = "reminder"
    /\ status[notes[n].booking] = "cancelled"

(* A cancellation takes every reminder there is back, one with a retry     *)
(* ahead of it too, and the worker, whose session may still hold what was  *)
(* purged, cannot bring it back: a reminder that is left to a cancelled    *)
(* booking has been written after the cancellation, by a reschedule that   *)
(* had read the booking before.                                            *)
CancelledIsPurged == [][\A n \in Note : LeftOver(n)' => LeftOver(n) \/ n > lastId]_vars

(* The status tells the truth: a row marked as sent has been delivered, a  *)
(* row given up has had all its attempts, lost ones not counted.           *)
SettledTruly ==
    \A n \in Note : notes[n] # NoRow /\ IsScheduled(notes[n]) =>
        /\ notes[n].state = "sent" => delivered[n] > 0
        /\ notes[n].state = "failed" => attempts[n] >= MaxRetries

(* The row without its time. *)
Shown(row) ==
    IF row = NoRow THEN NoRow
    ELSE [booking |-> row.booking, kind |-> row.kind, state |-> row.state, retries |-> row.retries]

(* Seen from the table, the sessions are not there: what a worker has read *)
(* before and writes now is one attempt at the row as it is now, a row     *)
(* that is settled or gone stays so, and all that a change of a booking    *)
(* brings and takes back comes and goes with it.                           *)
NotificationsOutbox ==
    INSTANCE Outbox WITH rows <- [n \in Note |-> Shown(notes[n])], used <- lastId

RefinesOutbox == NotificationsOutbox!OutboxSpec

(* A reminder or review request that has been scheduled is sent in the     *)
(* end, or given up after its retries, or deleted with its reason, once    *)
(* the requests pause: neither a failure of another booking in the batch   *)
(* nor the batch's limit keeps it waiting for ever.                        *)
ScheduledIsSettled ==
    LET Unsettled == {n \in Note : IsPending(notes[n]) /\ IsScheduled(notes[n])}
    IN  Unsettled # {} ~> Unsettled = {}

(* A message that is committed with its change has not been tried yet. *)
Untried == {n \in Note : IsPending(notes[n]) /\ ~IsScheduled(notes[n]) /\ notes[n].retries = 0}

(* Every message is tried, once the requests pause: what a request commits *)
(* it also dispatches.  Only a fault leaves a message untried, and nobody  *)
(* comes back for it then but the next request for the same booking.       *)
MessagesAreTried == Untried # {} ~> (Untried = {} \/ faults > 0)

(* "run at first tick": the worker gets to what is due. *)
DueIsTried ==
    \A n \in Note : n \in Due ~> (n \notin Due \/ attempts[n] > 0)
=============================================================================
