----------------------------- MODULE BookingTable -----------------------------
(***************************************************************************)
(* The rows of table bookings (db/models/booking.py, db/enums.py) and the  *)
(* two predicates on them that the queries and the index predicates use.   *)
(***************************************************************************)
EXTENDS Integers

CONSTANTS
    Booking,   \* primary keys
    Staff,
    Service

ActiveStatus == {"pending", "confirmed"}
ClosedStatus == {"cancelled_by_client", "cancelled_by_admin", "completed", "no_show"}

(* No row with this key. *)
Absent == [status |-> "absent"]

Row == [status : ActiveStatus \cup ClosedStatus, staff : Staff, service : Service,
        start : Int, end : Int]

(* status IN ('pending', 'confirmed') *)
IsActive(row) == row.status \in ActiveStatus

(* staff_id WITH =, tstzrange(starts_at, ends_at, '[)') WITH && *)
Overlap(a, b) ==
    /\ a.staff = b.staff
    /\ a.start < b.end
    /\ b.start < a.end
=============================================================================
