-------------------------- MODULE BookingsRefinement --------------------------
(***************************************************************************)
(* Bookings implements Calendar: every commit of a request is one change   *)
(* of the calendar, and no other step is seen from outside.                *)
(***************************************************************************)
EXTENDS BookingsProofs

(* The names of module Calendar for the definitions of BookingTable. *)
LEMMA SameTable ==
    /\ BookingsCalendar!Absent = Absent
    /\ BookingsCalendar!Row = Row
    /\ BookingsCalendar!ClosedStatus = ClosedStatus
    /\ \A row : BookingsCalendar!IsActive(row) <=> IsActive(row)
    /\ \A a, b : BookingsCalendar!Overlap(a, b) <=> Overlap(a, b)
BY DEF BookingsCalendar!Absent, Absent, BookingsCalendar!Row, Row,
       BookingsCalendar!ActiveStatus, ActiveStatus, BookingsCalendar!ClosedStatus, ClosedStatus,
       BookingsCalendar!IsActive, IsActive, BookingsCalendar!Overlap, Overlap

LEMMA InitialCalendar == Init => BookingsCalendar!CalendarInit
<1> SUFFICES ASSUME Init PROVE BookingsCalendar!CalendarInit
    OBVIOUS
<1>1. PICK slot \in [Seeded -> CreateOp] :
        bookings = [id \in Booking |-> IF id \in Seeded THEN NewRow(slot[id]) ELSE Absent]
    BY DEF Init
<1>2. bookings \in [Booking -> {Absent} \cup {row \in Row : IsActive(row)}]
    BY <1>1, NewRowType
<1>3. NoOverlap
    BY InitInv DEF IndInv
<1>4. \A id \in Booking : IsActive(bookings[id]) =>
        \A other \in Booking \ {id} :
            IsActive(bookings[other]) => ~Overlap(bookings[other], bookings[id])
    BY <1>3 DEF NoOverlap
<1> QED
    BY <1>2, <1>4, SameTable DEF BookingsCalendar!CalendarInit, BookingsCalendar!Free

(* The version that a transaction commits, as a change of the calendar. *)
LEMMA CommitIsAChange ==
    ASSUME IndInv, NEW r \in Request, Commit(r), bookings' # bookings
    PROVE  BookingsCalendar!CalendarNext
<1>1. PICK id \in Booking :
        /\ held[r] = {id}
        /\ bookings' = [bookings EXCEPT ![id] = written[r]]
        /\ written[r] \in Row
        /\ Derived(r, id)
    BY CommitEffect
<1>2. bookings'[id] = written[r] /\ BookingsCalendar!Becomes(id, bookings'[id])
    BY <1>1 DEF BookingsCalendar!Becomes, IndInv, TypeOK
<1>3. IsActive(written[r]) => BookingsCalendar!Free(id, written[r])
  <2> SUFFICES ASSUME IsActive(written[r]),
                      NEW other \in Booking \ {id}, IsActive(bookings[other])
               PROVE  ~Overlap(bookings[other], written[r])
      BY SameTable DEF BookingsCalendar!Free
  <2>1. Checked(r)
      BY <1>1 DEF Checked, Commit
  <2> QED
      BY <1>1, <2>1 DEF IndInv, CheckedIsClear
<1>4. CASE op[r].kind = "create"
  <2>1. bookings[id] = Absent /\ IsActive(written[r])
      BY <1>1, <1>4 DEF Derived
  <2>2. BookingsCalendar!Book(id, bookings'[id])
      BY <1>1, <1>2, <1>3, <2>1, SameTable DEF BookingsCalendar!Book
  <2> QED
      BY <2>2 DEF BookingsCalendar!CalendarNext
<1>5. CASE op[r].kind = "reschedule"
  <2>1. /\ bookings[id] # Absent
        /\ written[r] = [bookings[id] EXCEPT !.start = written[r].start,
                                             !.end = written[r].end]
      BY <1>1, <1>5 DEF Derived
  <2>2. BookingsCalendar!Move(id, bookings'[id])
      BY <1>1, <1>2, <1>3, <2>1, SameTable DEF BookingsCalendar!Move
  <2> QED
      BY <2>2 DEF BookingsCalendar!CalendarNext
<1>6. CASE op[r].kind \notin {"create", "reschedule"}
  <2>1. /\ bookings[id] # Absent
        /\ written[r].status \in ClosedStatus
        /\ written[r] = [bookings[id] EXCEPT !.status = written[r].status]
      BY <1>1, <1>6 DEF Derived
  <2>2. BookingsCalendar!Close(id, bookings'[id])
      BY <1>1, <1>2, <2>1, SameTable DEF BookingsCalendar!Close
  <2> QED
      BY <2>2 DEF BookingsCalendar!CalendarNext
<1> QED
    BY <1>4, <1>5, <1>6

(* Every step is a change of the calendar or leaves it alone. *)
LEMMA StepIsAChange == IndInv /\ [Next]_vars => [BookingsCalendar!CalendarNext]_bookings
<1> SUFFICES ASSUME IndInv, [Next]_vars, bookings' # bookings
             PROVE  BookingsCalendar!CalendarNext
    OBVIOUS
<1>1. PICK r \in Request : Start(r) \/ Step(r) \/ Crash(r)
    BY DEF Next, vars, tableVars, Tick, AllAnswered
<1>2. ~Start(r) /\ ~Crash(r)
    BY DEF Start, StartCreate, AttemptCreate, StartChange, StartPatch, Crash, tableVars
<1>3. Commit(r)
    BY <1>1, <1>2 DEF Step, SelectOverlapping, LockOverlapping, ValidateSlot, Insert, Update,
                      IndexAccepts, IndexRejects, Deadlock, RetryCreate, AttemptCreate, Refresh,
                      EnqueueReview, tableVars
<1> QED
    BY <1>3, CommitIsAChange

(* The concurrent transactions implement the calendar, in which a booking  *)
(* is made, moved or closed in one step, only into a free interval, and a  *)
(* closed booking never takes a slot again.                                *)
THEOREM Refinement == Spec => RefinesCalendar
<1>1. Init => BookingsCalendar!CalendarInit
    BY InitialCalendar
<1>2. IndInv /\ [Next]_vars => [BookingsCalendar!CalendarNext]_bookings
    BY StepIsAChange
<1> QED
    BY <1>1, <1>2, Inductive, PTL DEF Spec, RefinesCalendar, BookingsCalendar!CalendarSpec
=============================================================================
