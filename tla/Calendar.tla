------------------------------- MODULE Calendar -------------------------------
(***************************************************************************)
(* What the booking component promises to the rest of the system, with no  *)
(* transactions, locks or retries in sight: a table of bookings in which   *)
(* each change is one step, no two active bookings of a staff member ever  *)
(* overlap, and a booking that has left the calendar never returns.        *)
(***************************************************************************)
EXTENDS BookingTable

VARIABLE calendar

(* No other active booking stands in the way of this row. *)
Free(id, row) ==
    \A other \in Booking \ {id} :
        IsActive(calendar[other]) => ~Overlap(calendar[other], row)

-----------------------------------------------------------------------------
CalendarInit ==
    /\ calendar \in [Booking -> {Absent} \cup {row \in Row : IsActive(row)}]
    /\ \A id \in Booking : IsActive(calendar[id]) => Free(id, calendar[id])

(* Only this booking's row changes, to row. *)
Becomes(id, row) == calendar' = [calendar EXCEPT ![id] = row]

Book(id, row) ==
    /\ calendar[id] = Absent
    /\ row \in Row
    /\ IsActive(row)
    /\ Free(id, row)
    /\ Becomes(id, row)

(* A booking moves within its staff member's calendar and keeps everything *)
(* but its times; only the move of an active booking needs room.           *)
Move(id, row) ==
    /\ calendar[id] # Absent
    /\ row = [calendar[id] EXCEPT !.start = row.start, !.end = row.end]
    /\ IsActive(row) => Free(id, row)
    /\ Becomes(id, row)

(* A booking leaves the calendar, or is filed under another closed status. *)
Close(id, row) ==
    /\ calendar[id] # Absent
    /\ row.status \in ClosedStatus
    /\ row = [calendar[id] EXCEPT !.status = row.status]
    /\ Becomes(id, row)

CalendarNext ==
    \E id \in Booking :
        LET row == calendar'[id]
        IN  Book(id, row) \/ Move(id, row) \/ Close(id, row)

CalendarSpec == CalendarInit /\ [][CalendarNext]_calendar
=============================================================================
