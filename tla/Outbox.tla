-------------------------------- MODULE Outbox --------------------------------
(***************************************************************************)
(* What table notifications promises to the rest of the system, with no    *)
(* sessions, batches or retries of commits in sight: rows come and go with *)
(* the changes of their booking, and each attempt at a reminder or review  *)
(* request is one step, made of the row as it is then.                     *)
(***************************************************************************)
EXTENDS Integers

CONSTANTS
    Booking,     \* primary keys of bookings
    Note,        \* primary keys of notifications, numbers
    MaxRetries   \* attempts that a row has

VARIABLES
    status,   \* status of each booking
    rows,     \* the row under each key
    used      \* keys up to this one have been used

outboxVars == <<status, rows, used>>

Status == {"none", "active", "cancelled", "completed", "noshow"}

Gone == [state |-> "absent"]

Row == [booking : Booking, kind : {"message", "reminder", "review"},
        state : {"pending", "sent", "failed"}, retries : Nat]

Untouched(row) == row.state = "pending" /\ row.retries = 0

(* The reminders of a booking that are still to be sent. *)
PendingReminders(b) ==
    {n \in Note : /\ rows[n] # Gone
                  /\ rows[n].state = "pending" /\ rows[n].kind = "reminder" /\ rows[n].booking = b}

(* A row that may be tried again. *)
Outstanding(row, b) ==
    /\ row # Gone
    /\ row.state = "pending" /\ row.kind # "message" /\ row.booking = b

(* Rows that come under the keys after used, each untouched and of a kind  *)
(* that goes with the step.                                                *)
Brings(b, kinds) ==
    /\ used' >= used
    /\ \A n \in Note : n > used /\ n <= used' =>
          /\ rows'[n] \in Row
          /\ Untouched(rows'[n]) /\ rows'[n].booking = b /\ rows'[n].kind \in kinds

(* The rows there are stay, but for those taken back. *)
Keeps(takenBack) ==
    /\ rows' = [n \in Note |-> rows'[n]]
    /\ \A n \in Note : ~(n > used /\ n <= used') =>
          rows'[n] = IF n \in takenBack THEN Gone ELSE rows[n]

-----------------------------------------------------------------------------
OutboxInit ==
    /\ status \in [Booking -> Status]
    /\ used \in Nat
    /\ rows \in [Note -> {Gone} \cup Row]
    /\ \A n \in Note : rows[n] # Gone =>
            /\ n <= used
            /\ rows[n].kind = "reminder" /\ Untouched(rows[n])
            /\ status[rows[n].booking] = "active"

(* A booking is made, with a message and its reminders. *)
Book(b) ==
    /\ status[b] = "none"
    /\ status' = [status EXCEPT ![b] = "active"]
    /\ Brings(b, {"message", "reminder"})
    /\ Keeps({})

(* A move takes all pending reminders of the booking back and brings fresh *)
(* ones, even if the booking has been cancelled or completed meanwhile.    *)
Move(b) ==
    /\ status[b] # "none"
    /\ UNCHANGED status
    /\ Brings(b, {"message", "reminder"})
    /\ Keeps(PendingReminders(b))

(* A cancellation takes them back and brings no other, whatever it is that *)
(* it overwrites.                                                          *)
Cancel(b) ==
    /\ status[b] # "none"
    /\ status' = [status EXCEPT ![b] = "cancelled"]
    /\ Brings(b, {"message"})
    /\ Keeps(PendingReminders(b))

(* A booking is marked as over; its rows stay as they are. *)
Mark(b) ==
    /\ status[b] # "none"
    /\ \E new \in {"completed", "noshow"} : status' = [status EXCEPT ![b] = new]
    /\ UNCHANGED <<rows, used>>

(* A review is asked for once, and not before the booking is over.         *)
AskReview(b) ==
    /\ status[b] \notin {"none", "active"}
    /\ \A n \in Note : rows[n] # Gone /\ rows[n].booking = b => rows[n].kind # "review"
    /\ UNCHANGED status
    /\ Brings(b, {"review"}) /\ used' = used + 1
    /\ Keeps({})

(* One attempt: sent, refused with another one to come, or given up.       *)
Attempted(row, next) ==
    \/ next = [row EXCEPT !.state = "sent"]
    \/ row.retries + 1 < MaxRetries /\ next = [row EXCEPT !.retries = @ + 1]
    \/ row.retries + 1 = MaxRetries /\ next = [row EXCEPT !.state = "failed"]

(* Reminders and review requests of one booking are tried, once each.      *)
Try(b) ==
    /\ rows' = [n \in Note |-> rows'[n]]
    /\ \A n \in Note : rows'[n] # rows[n] =>
            Outstanding(rows[n], b) /\ Attempted(rows[n], rows'[n])
    /\ UNCHANGED <<status, used>>

(* Messages are sent by every request for their booking, several at a time *)
(* perhaps, and the last one to commit has its say: what is settled is not *)
(* pending again, and that is all.                                         *)
Deliver ==
    /\ rows' = [n \in Note |-> rows'[n]]
    /\ \A n \in Note : rows'[n] # rows[n] =>
            /\ rows[n] # Gone /\ rows[n].kind = "message"
            /\ rows'[n] \in Row
            /\ rows'[n].kind = "message" /\ rows'[n].booking = rows[n].booking
            /\ rows'[n].state = "pending" => rows[n].state = "pending"
    /\ UNCHANGED <<status, used>>

OutboxNext ==
    \/ \E b \in Booking :
          Book(b) \/ Move(b) \/ Cancel(b) \/ Mark(b) \/ AskReview(b) \/ Try(b)
    \/ Deliver

OutboxSpec == OutboxInit /\ [][OutboxNext]_outboxVars
=============================================================================
