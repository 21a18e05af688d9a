------------------------- MODULE NotificationsInvariant -------------------------
(***************************************************************************)
(* Why the counters of the outbox stay within their bounds: the inductive  *)
(* invariant of Notifications, part by part.                               *)
(***************************************************************************)
EXTENDS Notifications

IsLoaded(d, n) == session[d][n] # NoRow

(* What a dispatcher has in its session by the time it gets to a step.     *)
SessionShaped ==
    /\ \A d \in Dispatcher :
         /\ pc[d] \in {"idle", "select"} => \A n \in Note : ~IsLoaded(d, n)
         /\ pc[d] = "send" => todo[d] # {}
         /\ pc[d] \in {"idle", "select"} => todo[d] = {}
         /\ \A n \in todo[d] : IsLoaded(d, n) /\ IsPending(session[d][n])
    /\ pc[Worker] # "select"
    /\ \A d \in Dispatcher, n \in Note : IsLoaded(d, n) =>
         (IsScheduled(session[d][n]) <=> d = Worker)

(* Keys are never used again, so a loaded row and the committed one under  *)
(* its key, if that is still there, are the same notification.             *)
KeysAreKept ==
    /\ \A n \in Note : notes[n] # NoRow => n <= lastId
    /\ \A d \in Dispatcher, n \in Note : IsLoaded(d, n) =>
         /\ n <= lastId
         /\ notes[n] # NoRow => /\ notes[n].booking = session[d][n].booking
                                /\ notes[n].kind = session[d][n].kind

(* Only the worker writes scheduled rows: what it has loaded is pending    *)
(* still and has the retries that it was loaded with; it has given up only *)
(* what has no attempt left.                                               *)
WorkerAlone ==
    \A n \in Note : IsLoaded(Worker, n) /\ notes[n] # NoRow =>
        /\ IsPending(notes[n])
        /\ n \in todo[Worker] => session[Worker][n].retries = notes[n].retries
        /\ n \in Tried(Worker) /\ IsPending(session[Worker][n]) =>
              session[Worker][n].retries = notes[n].retries + 1
        /\ n \in Tried(Worker) /\ session[Worker][n].state = "failed" =>
              MaxRetries <= notes[n].retries + 1

(* The rows of one flush belong to one booking, the lowest not done with.  *)
OneBookingInHand ==
    \A m \in Tried(Worker) :
        /\ \A n \in Tried(Worker) : session[Worker][n].booking = session[Worker][m].booking
        /\ \A n \in todo[Worker] : session[Worker][m].booking <= session[Worker][n].booking
        /\ pc[Worker] = "send" =>
              \E n \in todo[Worker] : session[Worker][n].booking = session[Worker][m].booking

(* A booking whose review is asked for is over, and when the worker has    *)
(* loaded the request nobody can purge the booking any more.               *)
ReviewsComeLate ==
    /\ \A p \in Patcher : /\ pc[p] # "idle" => target[p] \in Booking
                          /\ pc[p] = "review" => status[target[p]] \notin {"none", "active"}
    /\ \A n \in Note : notes[n] # NoRow /\ notes[n].kind = "review" =>
          status[notes[n].booking] \notin {"none", "active"}
    /\ \A n \in Note : IsLoaded(Worker, n) /\ session[Worker][n].kind = "review" =>
          notes[n] # NoRow /\ notes[n].wait = 0

(* So what the worker has loaded of a booking is purged as a whole or not  *)
(* at all.                                                                 *)
PurgedTogether ==
    \A m, n \in Note :
        /\ IsLoaded(Worker, m) /\ IsLoaded(Worker, n)
        /\ session[Worker][m].booking = session[Worker][n].booking
        /\ notes[m] = NoRow
        => notes[n] = NoRow

(* The counters of row n account for what row says of it. *)
Accounts(row, n) ==
    /\ row.state = "pending" =>
            /\ row.retries < MaxRetries
            /\ row.retries <= attempts[n] /\ attempts[n] <= row.retries + excused[n]
            /\ delivered[n] <= excused[n]
    /\ row.state = "sent" =>
            /\ 0 < delivered[n] /\ delivered[n] <= 1 + excused[n]
            /\ attempts[n] <= MaxRetries + excused[n]
    /\ row.state = "failed" =>
            /\ MaxRetries <= attempts[n] /\ attempts[n] <= MaxRetries + excused[n]
            /\ delivered[n] <= excused[n]

(* A row that has been tried is one attempt ahead of what is committed.    *)
Ahead(n) ==
    /\ notes[n].retries < MaxRetries
    /\ notes[n].retries <= attempts[n] /\ attempts[n] <= notes[n].retries + 1 + excused[n]
    /\ delivered[n] <= 1 + excused[n]
    /\ Accounts(session[Worker][n], n)

AllAccounted ==
    \A n \in Note : notes[n] # NoRow /\ IsScheduled(notes[n]) =>
        IF n \in Tried(Worker) THEN Ahead(n) ELSE Accounts(notes[n], n)

(* Together: inductive, and what the bounds follow from. *)
IndInv ==
    /\ TypeOK
    /\ SessionShaped
    /\ KeysAreKept
    /\ WorkerAlone
    /\ OneBookingInHand
    /\ ReviewsComeLate
    /\ PurgedTogether
    /\ AllAccounted
=================================================================================
