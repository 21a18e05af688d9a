--------------------------- MODULE BookingsInvariant ---------------------------
(***************************************************************************)
(* Why NoOverlap and the refinement of Calendar hold: the inductive        *)
(* invariant of Bookings, part by part.  After it, a second one that rests *)
(* on the first: what requests make of the rows and the notifications.     *)
(***************************************************************************)
EXTENDS Bookings

(* Row locks: a transaction holds one row at a time, from the statement    *)
(* that wrote it to the commit, and no row has two holders.                *)
LockDiscipline ==
    /\ \A r \in Request : held[r] # {} => pc[r] \in {"unique", "exclude", "commit"}
    /\ \A r \in Request : \A x, y \in held[r] : x = y
    /\ \A q, r \in Request : q # r => held[q] \cap held[r] = {}

(* What the handler has loaded by the time it gets to a statement. *)
RequestTyped(r) ==
    /\ pc[r] # "idle" => op[r] \in Op
    /\ pc[r] = "retry" => op[r].kind = "create"
    /\ pc[r] \in {"refresh", "enqueue"} => op[r].kind = "patch"
    /\ pc[r] \in {"select", "lock", "validate", "write"} /\ op[r].kind # "create" =>
            bookings[op[r].id] \in Row /\ loaded[r] \in Row
    /\ pc[r] \in {"select", "lock", "validate"} => op[r].kind \in {"create", "reschedule"}

RequestsTyped == \A r \in Request : RequestTyped(r)

(* The version to be committed still derives from the committed row: the   *)
(* lock has kept everybody else away from it.                              *)
Derived(r, id) ==
    CASE op[r].kind = "create" ->
            bookings[id] = Absent /\ IsActive(written[r])
      [] op[r].kind = "reschedule" ->
            /\ bookings[id] # Absent
            /\ written[r] = [bookings[id] EXCEPT !.start = written[r].start,
                                                 !.end = written[r].end]
      [] OTHER ->
            /\ bookings[id] # Absent
            /\ written[r].status \in ClosedStatus
            /\ written[r] = [bookings[id] EXCEPT !.status = written[r].status]

WrittenDerived ==
    \A r \in Request : \A id \in held[r] : written[r] \in Row /\ Derived(r, id)

(* An active version that has passed both indexes. *)
Checked(r) == held[r] # {} /\ pc[r] = "commit" /\ IsActive(written[r])

(* It overlaps no committed active row but the one that it replaces ...    *)
CheckedIsClear ==
    \A r \in Request : Checked(r) =>
        \A id \in Booking \ held[r] :
            IsActive(bookings[id]) => ~Overlap(bookings[id], written[r])

(* ... and no other version that has passed them.                          *)
CheckedApart ==
    \A q, r \in Request :
        q # r /\ Checked(q) /\ Checked(r) => ~Overlap(written[q], written[r])

(* Together: inductive, and stronger than NoOverlap. *)
IndInv ==
    /\ TypeOK
    /\ LockDiscipline
    /\ RequestsTyped
    /\ WrittenDerived
    /\ CheckedIsClear
    /\ CheckedApart
    /\ NoOverlap

-----------------------------------------------------------------------------
(* As long as its service takes. *)
LengthOfService(row) == row.end = row.start + Duration[row.service]

(* What an open transaction will commit is what its request asked for,     *)
(* although an UPDATE writes only the columns that differ from an object   *)
(* that may be stale by then.                                              *)
WrittenAsAsked(r) ==
    /\ LengthOfService(written[r])
    /\ CASE op[r].kind = "create" -> written[r] = NewRow(op[r])
         [] op[r].kind = "cancel" -> written[r].status # "completed"
         [] op[r].kind = "patch" ->
                /\ held[r] = {op[r].id}
                /\ written[r].status = op[r].status /\ loaded[r].status # op[r].status
         [] OTHER -> ~SameSlotMoves => written[r].start = op[r].start

RequestMeant(r) ==
    /\ result[r] # "none" => pc[r] = "done"
    /\ pc[r] = "idle" => loaded[r] = Absent
    /\ pc[r] \in {"unique", "exclude"} => held[r] # {}
    /\ pc[r] = "lock" => snapshot[r] \subseteq Booking \ Self(r)
    /\ loaded[r] # Absent =>
          /\ op[r] \in Op /\ op[r].kind # "create"
          /\ LengthOfService(loaded[r])
          /\ bookings[op[r].id] # Absent /\ bookings[op[r].id].service = loaded[r].service
          /\ op[r].kind = "reschedule" /\ ~SameSlotMoves => loaded[r].start # op[r].start
    /\ held[r] # {} => WrittenAsAsked(r)

(* The PATCH that completed booking id has still to enqueue its request.   *)
Pursues(r, id) ==
    /\ op[r].kind = "patch" /\ op[r].id = id
    /\ pc[r] = "enqueue" \/ (pc[r] = "refresh" /\ loaded[r].status # "completed")

CompletionPursued ==
    \A id \in Booking :
        bookings[id].status = "completed" =>
            \/ id \in reviewRequests
            \/ \E r \in Request : Pursues(r, id) \/ result[r] = "crashed"

(* Together: inductive with IndInv.  A client who declines reminders, and  *)
(* a reschedule to the start that the booking has, are excepted.           *)
OutcomesInv ==
    /\ \A id \in Booking : bookings[id] # Absent => LengthOfService(bookings[id])
    /\ \A r \in Request : RequestMeant(r)
    /\ ~SameSlotMoves => RemindersFollow
    /\ OptIns = {TRUE} => CompletionPursued
=============================================================================
