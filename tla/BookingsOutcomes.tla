--------------------------- MODULE BookingsOutcomes ---------------------------
(***************************************************************************)
(* What requests make of the rows and the notifications, proved for every  *)
(* value of the constants: refusals are justified, pending reminders       *)
(* follow the booking, completed bookings are asked for a review.  The     *)
(* induction is over OutcomesInv, on top of the IndInv of BookingsProofs.  *)
(***************************************************************************)
EXTENDS BookingsProofs

USE DEF tableVars, sessionVars

LEMMA ShiftedApart ==
    ASSUME NEW a \in Int, NEW b \in Int, NEW c \in Int, a # b
    PROVE  a + c # b + c
OBVIOUS

LEMMA NewRowLength ==
    ASSUME NEW o \in CreateOp
    PROVE  LengthOfService(NewRow(o))
BY DEF LengthOfService, NewRow

LEMMA FreshRemindersFollow ==
    ASSUME NEW start \in Int, NEW t \in Int
    PROVE  FreshReminders(start, t) \subseteq
                {[kind |-> "long", at |-> start - LongLead],
                 [kind |-> "short", at |-> start - ShortLead]}
BY DEF FreshReminders

LEMMA OutcomesInit == Init => OutcomesInv
<1> SUFFICES ASSUME Init PROVE OutcomesInv
    OBVIOUS
<1>1. PICK slot \in [Seeded -> CreateOp] :
        /\ bookings = [id \in Booking |-> IF id \in Seeded THEN NewRow(slot[id]) ELSE Absent]
        /\ reminders = [id \in Booking |->
                IF id \in Seeded THEN FreshReminders(slot[id].start, 0) ELSE {}]
    BY DEF Init
<1>2. \A id \in Booking : bookings[id] # Absent => LengthOfService(bookings[id])
    BY <1>1, NewRowLength
<1>3. \A r \in Request : RequestMeant(r)
    BY DEF Init, RequestMeant
<1>4. RemindersFollow
  <2> SUFFICES ASSUME NEW id \in Booking, IsActive(bookings[id])
               PROVE  reminders[id] \subseteq
                        {[kind |-> "long", at |-> bookings[id].start - LongLead],
                         [kind |-> "short", at |-> bookings[id].start - ShortLead]}
      BY DEF RemindersFollow
  <2>1. id \in Seeded /\ bookings[id] = NewRow(slot[id])
        /\ reminders[id] = FreshReminders(slot[id].start, 0)
      BY <1>1 DEF IsActive, ActiveStatus, Absent
  <2>2. slot[id] \in CreateOp
      BY <2>1
  <2>3. slot[id].start \in Int
      BY <2>2, BookingsAssumption DEF CreateOp
  <2>4. bookings[id].start = slot[id].start
      BY <2>1 DEF NewRow
  <2> QED
      BY <2>1, <2>3, <2>4, FreshRemindersFollow
<1>5. CompletionPursued
    BY <1>1 DEF CompletionPursued, NewRow, Absent
<1> QED
    BY <1>2, <1>3, <1>4, <1>5 DEF OutcomesInv

-----------------------------------------------------------------------------
(* Steps that change no row.                                               *)

(* What a step of r leaves alone, with the answers and the snapshots. *)
AllOthersKept(r) ==
    /\ OthersKept(r)
    /\ \A q \in Request \ {r} : snapshot'[q] = snapshot[q] /\ result'[q] = result[q]

(* Whoever pursues a review request goes on, has it, or is lost. *)
PursuitKept(r) ==
    \A id \in Booking :
        Pursues(r, id) \/ result[r] = "crashed" =>
            Pursues(r, id)' \/ result'[r] = "crashed" \/ id \in reviewRequests'
                \/ bookings[id].status # "completed"

LEMMA Meant ==
    ASSUME NEW q \in Request, RequestMeant(q),
           pc'[q] = pc[q], op'[q] = op[q], loaded'[q] = loaded[q], held'[q] = held[q],
           written'[q] = written[q], snapshot'[q] = snapshot[q], result'[q] = result[q],
           loaded[q] # Absent =>
              bookings'[op[q].id] # Absent
              /\ bookings'[op[q].id].service = bookings[op[q].id].service
    PROVE  RequestMeant(q)'
BY DEF RequestMeant, WrittenAsAsked, LengthOfService, Self

LEMMA WithoutChange ==
    ASSUME IndInv, OutcomesInv, NEW r \in Request, AllOthersKept(r),
           bookings' = bookings, reminders' = reminders,
           reviewRequests \subseteq reviewRequests',
           RequestMeant(r)', OptIns = {TRUE} => PursuitKept(r)
    PROVE  OutcomesInv'
<1>1. \A id \in Booking : bookings'[id] # Absent => LengthOfService(bookings'[id])
    BY DEF OutcomesInv
<1>2. \A q \in Request : RequestMeant(q)'
    BY Meant DEF OutcomesInv, AllOthersKept, OthersKept, RequestMeant
<1>3. ~SameSlotMoves => RemindersFollow'
    BY DEF OutcomesInv, RemindersFollow
<1>4. ASSUME OptIns = {TRUE} PROVE CompletionPursued'
  <2> SUFFICES ASSUME NEW id \in Booking, bookings[id].status = "completed",
                      id \notin reviewRequests'
               PROVE  \E q \in Request : Pursues(q, id)' \/ result'[q] = "crashed"
      BY DEF CompletionPursued
  <2>1. PICK q \in Request : Pursues(q, id) \/ result[q] = "crashed"
      BY <1>4 DEF OutcomesInv, CompletionPursued
  <2>2. CASE q = r
      BY <1>4, <2>1, <2>2 DEF PursuitKept
  <2>3. CASE q # r
      BY <2>1, <2>3 DEF AllOthersKept, OthersKept, Pursues
  <2> QED
      BY <2>2, <2>3
<1> QED
    BY <1>1, <1>2, <1>3, <1>4 DEF OutcomesInv

(* Before the refresh nothing is pursued. *)
LEMMA NothingPursued ==
    ASSUME OutcomesInv, NEW r \in Request, pc[r] \notin {"refresh", "enqueue", "done"}
    PROVE  result[r] = "none" /\ PursuitKept(r)
<1>1. result[r] = "none"
    BY DEF OutcomesInv, RequestMeant
<1> QED
    BY <1>1 DEF PursuitKept, Pursues

LEMMA AnswerMeant ==
    ASSUME TypeOK, NEW r \in Request, NEW answer, Answer(r, answer),
           \A q \in Request \ {r} : op'[q] = op[q]
    PROVE  RequestMeant(r)' /\ AllOthersKept(r) /\ result'[r] = answer
<1>1. pc'[r] = "done" /\ loaded'[r] = Absent /\ held'[r] = {} /\ result'[r] = answer
    BY DEF Answer, TypeOK
<1>2. RequestMeant(r)'
    BY <1>1 DEF RequestMeant
<1>3. AllOthersKept(r)
    BY DEF Answer, TypeOK, AllOthersKept, OthersKept
<1> QED
    BY <1>1, <1>2, <1>3

LEMMA AnswerOutcomes ==
    ASSUME IndInv, OutcomesInv, NEW r \in Request, NEW answer, Answer(r, answer),
           \A q \in Request \ {r} : op'[q] = op[q],
           pc[r] \notin {"refresh", "enqueue", "done"},
           bookings' = bookings, reminders' = reminders, reviewRequests' = reviewRequests
    PROVE  OutcomesInv'
BY AnswerMeant, NothingPursued, WithoutChange DEF IndInv

(* On to the next statement. *)
LEMMA GotoOutcomes ==
    ASSUME IndInv, OutcomesInv, NEW r \in Request, NEW label, Goto(r, label),
           pc[r] \notin {"refresh", "enqueue", "done"},
           \A q \in Request \ {r} :
              /\ op'[q] = op[q] /\ loaded'[q] = loaded[q] /\ held'[q] = held[q]
              /\ written'[q] = written[q] /\ snapshot'[q] = snapshot[q],
           bookings' = bookings, reminders' = reminders, reviewRequests' = reviewRequests,
           result[r] = "none" => RequestMeant(r)'
    PROVE  OutcomesInv'
<1>1. AllOthersKept(r)
    BY DEF AllOthersKept, OthersKept, Goto, IndInv, TypeOK
<1> QED
    BY <1>1, NothingPursued, WithoutChange

LEMMA AttemptCreateOutcomes ==
    ASSUME IndInv, OutcomesInv, NEW r \in Request, NEW o, AttemptCreate(r, o),
           \A q \in Request \ {r} : op'[q] = op[q],
           pc[r] \in {"idle", "retry"}, loaded[r] = Absent
    PROVE  OutcomesInv'
<1>1. CASE Answer(r, "slot_in_past")
    BY <1>1, AnswerOutcomes DEF AttemptCreate
<1>2. CASE Answer(r, "not_offered")
    BY <1>2, AnswerOutcomes DEF AttemptCreate
<1>3. CASE /\ Goto(r, "select")
           /\ clock' = [clock EXCEPT ![r] = now]
           /\ UNCHANGED <<loaded, snapshot, held, written>>
  <2>1. held[r] = {} /\ pc'[r] = "select" /\ result' = result
      BY <1>3 DEF Goto, IndInv, LockDiscipline, TypeOK
  <2>2. result[r] = "none" => RequestMeant(r)'
      BY <1>3, <2>1 DEF RequestMeant
  <2> QED
      BY <1>3, <2>2, GotoOutcomes DEF AttemptCreate
<1> QED
    BY <1>1, <1>2, <1>3 DEF AttemptCreate

LEMMA StartCreateOutcomes ==
    ASSUME IndInv, OutcomesInv, NEW r \in Request, loaded[r] = Absent, StartCreate(r)
    PROVE  OutcomesInv'
<1>1. PICK o \in CreateOp : op' = [op EXCEPT ![r] = o] /\ AttemptCreate(r, o)
    BY DEF StartCreate
<1> QED
    BY <1>1, AttemptCreateOutcomes DEF StartCreate, IndInv, TypeOK

LEMMA RetryCreateOutcomes ==
    ASSUME IndInv, OutcomesInv, NEW r \in Request, RetryCreate(r)
    PROVE  OutcomesInv'
<1>1. op[r].kind = "create" /\ loaded[r] = Absent
    BY DEF RetryCreate, IndInv, RequestsTyped, RequestTyped, OutcomesInv, RequestMeant
<1>2. CASE Answer(r, "error") /\ UNCHANGED <<tableVars, now>>
    BY <1>2, AnswerOutcomes DEF RetryCreate
<1>3. CASE AttemptCreate(r, op[r])
    BY <1>1, <1>3, AttemptCreateOutcomes DEF RetryCreate
<1> QED
    BY <1>2, <1>3 DEF RetryCreate

(* The object that a request loads is as long as its service takes. *)
LEMMA LoadedMeant ==
    ASSUME IndInv, OutcomesInv, NEW r \in Request, NEW o \in Op, o.kind # "create",
           bookings[o.id] # Absent,
           o.kind = "reschedule" /\ ~SameSlotMoves => o.start # bookings[o.id].start,
           pc[r] = "idle", pc'[r] \in {"write", "select"}, result' = result,
           result[r] = "none",
           op' = [op EXCEPT ![r] = o], loaded' = [loaded EXCEPT ![r] = bookings[o.id]],
           held' = held, bookings' = bookings
    PROVE  RequestMeant(r)'
<1>1. op'[r] = o /\ loaded'[r] = bookings[o.id] /\ held'[r] = {} /\ o.id \in Booking
    BY OpKinds DEF IndInv, TypeOK, LockDiscipline
<1>2. LengthOfService(bookings[o.id])
    BY <1>1 DEF OutcomesInv
<1> QED
    BY <1>1, <1>2 DEF RequestMeant, LengthOfService

LEMMA StartChangeOutcomes ==
    ASSUME IndInv, OutcomesInv, NEW r \in Request, StartChange(r)
    PROVE  OutcomesInv'
<1>1. PICK o \in CancelOp \cup RescheduleOp :
        /\ (o.kind = "reschedule" /\ bookings[o.id] # Absent)
                => (SameSlotMoves \/ o.start # bookings[o.id].start)
        /\ op' = [op EXCEPT ![r] = o]
        /\ \/ Answer(r, Refusal(o, bookings[o.id]))
           \/ /\ Refusal(o, bookings[o.id]) = "none"
              /\ Goto(r, IF o.kind = "cancel" THEN "write" ELSE "select")
              /\ clock' = [clock EXCEPT ![r] = now]
              /\ loaded' = [loaded EXCEPT ![r] = bookings[o.id]]
              /\ UNCHANGED <<snapshot, held, written>>
    BY DEF StartChange
<1>2. o \in Op /\ o.kind \in {"cancel", "reschedule"}
      /\ \A q \in Request \ {r} : op'[q] = op[q]
    BY <1>1 DEF Op, CancelOp, RescheduleOp, IndInv, TypeOK
<1>3. CASE Answer(r, Refusal(o, bookings[o.id]))
    BY <1>2, <1>3, AnswerOutcomes DEF StartChange
<1>4. CASE /\ Refusal(o, bookings[o.id]) = "none"
           /\ Goto(r, IF o.kind = "cancel" THEN "write" ELSE "select")
           /\ clock' = [clock EXCEPT ![r] = now]
           /\ loaded' = [loaded EXCEPT ![r] = bookings[o.id]]
           /\ UNCHANGED <<snapshot, held, written>>
  <2>1. bookings[o.id] # Absent
      BY <1>4 DEF Refusal
  <2>2. pc'[r] \in {"write", "select"} /\ result' = result
      BY <1>4 DEF Goto, IndInv, TypeOK
  <2>3. result[r] = "none" => RequestMeant(r)'
      BY <1>1, <1>2, <1>4, <2>1, <2>2, LoadedMeant DEF StartChange
  <2> DEFINE label == IF o.kind = "cancel" THEN "write" ELSE "select"
  <2> HIDE DEF label
  <2>4. Goto(r, label)
      BY <1>4 DEF label
  <2> QED
      BY <1>2, <1>4, <2>3, <2>4, GotoOutcomes DEF StartChange, IndInv, TypeOK
<1> QED
    BY <1>1, <1>3, <1>4

LEMMA StartPatchOutcomes ==
    ASSUME IndInv, OutcomesInv, NEW r \in Request, StartPatch(r)
    PROVE  OutcomesInv'
<1>1. PICK o \in PatchOp :
        /\ op' = [op EXCEPT ![r] = o]
        /\ \/ Answer(r, "not_found")
           \/ /\ bookings[o.id] # Absent
              /\ Goto(r, "write")
              /\ loaded' = [loaded EXCEPT ![r] = bookings[o.id]]
              /\ UNCHANGED <<clock, snapshot, held, written>>
    BY DEF StartPatch
<1>2. o \in Op /\ o.kind = "patch" /\ \A q \in Request \ {r} : op'[q] = op[q]
    BY <1>1 DEF Op, PatchOp, IndInv, TypeOK
<1>3. CASE Answer(r, "not_found")
    BY <1>2, <1>3, AnswerOutcomes DEF StartPatch
<1>4. CASE /\ bookings[o.id] # Absent
           /\ Goto(r, "write")
           /\ loaded' = [loaded EXCEPT ![r] = bookings[o.id]]
           /\ UNCHANGED <<clock, snapshot, held, written>>
  <2>1. pc'[r] = "write" /\ result' = result
      BY <1>4 DEF Goto, IndInv, TypeOK
  <2>2. result[r] = "none" => RequestMeant(r)'
      BY <1>1, <1>2, <1>4, <2>1, LoadedMeant DEF StartPatch
  <2> QED
      BY <1>2, <1>4, <2>2, GotoOutcomes DEF StartPatch, IndInv, TypeOK
<1> QED
    BY <1>1, <1>3, <1>4

LEMMA SelectOverlappingOutcomes ==
    ASSUME IndInv, OutcomesInv, NEW r \in Request, SelectOverlapping(r)
    PROVE  OutcomesInv'
<1> USE DEF SelectOverlapping
<1>1. pc'[r] = "lock" /\ result' = result /\ held'[r] = {}
      /\ snapshot'[r] \subseteq Booking \ Self(r)
    BY DEF Goto, IndInv, TypeOK, LockDiscipline
<1>2. result[r] = "none" => RequestMeant(r)'
    BY <1>1 DEF OutcomesInv, RequestMeant, Self, LengthOfService
<1> QED
    BY <1>2, GotoOutcomes DEF IndInv, TypeOK

LEMMA LockOverlappingOutcomes ==
    ASSUME IndInv, OutcomesInv, NEW r \in Request, LockOverlapping(r)
    PROVE  OutcomesInv'
<1>1. CASE Answer(r, "slot_taken")
    BY <1>1, AnswerOutcomes DEF LockOverlapping
<1>2. CASE /\ Goto(r, "validate")
           /\ snapshot' = [snapshot EXCEPT ![r] = {}]
           /\ UNCHANGED <<clock, loaded, held, written>>
  <2>1. pc'[r] = "validate" /\ result' = result /\ held'[r] = {}
      BY <1>2 DEF LockOverlapping, Goto, IndInv, TypeOK, LockDiscipline
  <2>2. result[r] = "none" => RequestMeant(r)'
      BY <1>2, <2>1 DEF LockOverlapping, OutcomesInv, RequestMeant, LengthOfService
  <2> QED
      BY <1>2, <2>2, GotoOutcomes DEF LockOverlapping, IndInv, TypeOK
<1> QED
    BY <1>1, <1>2 DEF LockOverlapping

LEMMA ValidateSlotOutcomes ==
    ASSUME IndInv, OutcomesInv, NEW r \in Request, ValidateSlot(r)
    PROVE  OutcomesInv'
<1>1. CASE Answer(r, "outside_hours")
    BY <1>1, AnswerOutcomes DEF ValidateSlot
<1>2. CASE Goto(r, "write") /\ UNCHANGED sessionVars
  <2>1. pc'[r] = "write" /\ result' = result /\ held'[r] = {}
      BY <1>2 DEF ValidateSlot, Goto, IndInv, TypeOK, LockDiscipline
  <2>2. result[r] = "none" => RequestMeant(r)'
      BY <1>2, <2>1 DEF ValidateSlot, OutcomesInv, RequestMeant, LengthOfService
  <2> QED
      BY <1>2, <2>2, GotoOutcomes DEF ValidateSlot, IndInv, TypeOK
<1> QED
    BY <1>1, <1>2 DEF ValidateSlot

LEMMA InsertOutcomes ==
    ASSUME IndInv, OutcomesInv, NEW r \in Request, Insert(r)
    PROVE  OutcomesInv'
<1>1. PICK id \in Booking : held' = [held EXCEPT ![r] = {id}]
    BY DEF Insert
<1>2. op[r] \in CreateOp /\ op[r].kind = "create" /\ loaded[r] = Absent
    BY OpKinds DEF Insert, IndInv, RequestsTyped, RequestTyped, OutcomesInv, RequestMeant
<1>3. pc'[r] = "unique" /\ result' = result /\ held'[r] = {id}
      /\ written'[r] = NewRow(op[r]) /\ op' = op /\ loaded'[r] = Absent
    BY <1>1, <1>2 DEF Insert, Goto, IndInv, TypeOK
<1>4. LengthOfService(written'[r])
    BY <1>2, <1>3, NewRowLength
<1>5. WrittenAsAsked(r)'
    BY <1>2, <1>3, <1>4 DEF WrittenAsAsked, LengthOfService, NewRow
<1>6. result[r] = "none" => RequestMeant(r)'
    BY <1>3, <1>5 DEF RequestMeant
<1> QED
    BY <1>1, <1>6, GotoOutcomes DEF Insert, IndInv, TypeOK

(* Start and end are written together or not at all, since the object was  *)
(* as long as its service takes.                                           *)
LEMMA MovedTogether ==
    ASSUME IndInv, OutcomesInv, NEW r \in Request, pc[r] = "write", op[r].kind = "reschedule"
    PROVE  LET row == Updated(r, bookings[op[r].id]) IN
           /\ LengthOfService(row)
           /\ ~SameSlotMoves => row.start = op[r].start
<1> DEFINE current == bookings[op[r].id]
           row == Updated(r, current)
<1>1. op[r] \in Op /\ op[r].id \in Booking /\ op[r].start \in Int
      /\ current \in Row /\ loaded[r] \in Row
    BY OpKinds DEF IndInv, RequestsTyped, RequestTyped
<1>2. loaded[r] # Absent
    BY <1>1 DEF Row, ActiveStatus, ClosedStatus, Absent
<1>3. /\ LengthOfService(current) /\ LengthOfService(loaded[r])
      /\ current.service = loaded[r].service
      /\ ~SameSlotMoves => loaded[r].start # op[r].start
    BY <1>1, <1>2 DEF OutcomesInv, RequestMeant
<1>4. Wanted(r).start = op[r].start
      /\ Wanted(r).end = op[r].start + Duration[loaded[r].service]
    BY <1>1 DEF Wanted, Row
<1>5. Duration[loaded[r].service] \in Int /\ loaded[r].start \in Int
    BY <1>1, BookingsAssumption DEF Row
<1> DEFINE s == IF Wanted(r).start = loaded[r].start THEN current.start ELSE Wanted(r).start
           e == IF Wanted(r).end = loaded[r].end THEN current.end ELSE Wanted(r).end
<1>6. row.start = s /\ row.end = e /\ row.service = current.service
    BY <1>1 DEF Updated, Row
<1>7. CASE op[r].start = loaded[r].start
    BY <1>3, <1>4, <1>6, <1>7 DEF LengthOfService
<1>8. CASE op[r].start # loaded[r].start
  <2>1. Wanted(r).end # loaded[r].end
    <3> DEFINE d == Duration[loaded[r].service]
    <3>1. Wanted(r).end = op[r].start + d /\ loaded[r].end = loaded[r].start + d
        BY <1>3, <1>4 DEF LengthOfService
    <3>2. d \in Int
        BY <1>5
    <3>3. op[r].start \in Int /\ loaded[r].start \in Int
        BY <1>1, <1>5
    <3> HIDE DEF d
    <3> QED
        BY <1>8, <3>1, <3>2, <3>3, ShiftedApart
  <2> QED
      BY <1>3, <1>4, <1>6, <1>8, <2>1 DEF LengthOfService
<1> QED
    BY <1>7, <1>8

LEMMA UpdatedAsAsked ==
    ASSUME IndInv, OutcomesInv, NEW r \in Request, pc[r] = "write", op[r].kind # "create",
           ~NothingToWrite(r)
    PROVE  LET row == Updated(r, bookings[op[r].id]) IN
           /\ LengthOfService(row)
           /\ op[r].kind = "cancel" => row.status # "completed"
           /\ op[r].kind = "patch" =>
                 row.status = op[r].status /\ loaded[r].status # op[r].status
           /\ op[r].kind = "reschedule" /\ ~SameSlotMoves => row.start = op[r].start
           /\ op[r].kind \in {"cancel", "patch", "reschedule"}
<1> DEFINE current == bookings[op[r].id]
           row == Updated(r, current)
<1>1. op[r] \in Op /\ current \in Row /\ op[r].id \in Booking
      /\ op[r].kind \in {"cancel", "patch", "reschedule"}
    BY OpKinds DEF IndInv, RequestsTyped, RequestTyped
<1>2. LengthOfService(current)
    BY <1>1 DEF OutcomesInv, Row, ActiveStatus, ClosedStatus, Absent
<1>3. CASE op[r].kind = "cancel"
  <2>1. row = [current EXCEPT !.status = IF op[r].role = "privileged"
                                         THEN "cancelled_by_admin"
                                         ELSE "cancelled_by_client"]
      BY <1>3 DEF Updated
  <2>2. row.status # "completed" /\ row.start = current.start /\ row.end = current.end
        /\ row.service = current.service
      BY <1>1, <2>1 DEF Row
  <2> QED
      BY <1>2, <1>3, <2>2 DEF LengthOfService
<1>4. CASE op[r].kind = "patch"
  <2>1. row = [current EXCEPT !.status = op[r].status]
      BY <1>4 DEF Updated
  <2>2. row.status = op[r].status /\ row.start = current.start /\ row.end = current.end
        /\ row.service = current.service
      BY <1>1, <2>1 DEF Row
  <2> QED
      BY <1>2, <1>4, <2>2 DEF LengthOfService, NothingToWrite
<1>5. CASE op[r].kind = "reschedule"
    BY <1>5, MovedTogether
<1> QED
    BY <1>1, <1>3, <1>4, <1>5

LEMMA UpdateOutcomes ==
    ASSUME IndInv, OutcomesInv, NEW r \in Request, Update(r)
    PROVE  OutcomesInv'
<1> DEFINE id == op[r].id
           row == Updated(r, bookings[id])
           label == IF IsActive(row) /\ row # bookings[id] THEN "unique" ELSE "commit"
<1>1. CASE Goto(r, "commit") /\ UNCHANGED <<held, written>>
  <2>1. pc'[r] = "commit" /\ result' = result /\ held'[r] = {}
      BY <1>1 DEF Update, Goto, IndInv, TypeOK, LockDiscipline
  <2>2. result[r] = "none" => RequestMeant(r)'
      BY <1>1, <2>1 DEF Update, OutcomesInv, RequestMeant, LengthOfService
  <2> QED
      BY <1>1, <2>2, GotoOutcomes DEF Update, IndInv, TypeOK
<1>2. CASE /\ ~NothingToWrite(r)
           /\ held' = [held EXCEPT ![r] = {id}]
           /\ written' = [written EXCEPT ![r] = row]
           /\ Goto(r, label)
  <2>1. label \in {"unique", "commit"}
      OBVIOUS
  <2>2. /\ LengthOfService(row)
        /\ op[r].kind = "cancel" => row.status # "completed"
        /\ op[r].kind = "patch" =>
              row.status = op[r].status /\ loaded[r].status # op[r].status
        /\ op[r].kind = "reschedule" /\ ~SameSlotMoves => row.start = op[r].start
        /\ op[r].kind \in {"cancel", "patch", "reschedule"}
      BY <1>2, UpdatedAsAsked DEF Update
  <2> HIDE DEF row, label
  <2>3. pc'[r] \in {"unique", "commit"} /\ result' = result /\ held'[r] = {id}
        /\ written'[r] = row /\ op' = op /\ loaded' = loaded
      BY <1>2, <2>1 DEF Update, Goto, IndInv, TypeOK
  <2>4. WrittenAsAsked(r)'
      BY <2>2, <2>3 DEF WrittenAsAsked, LengthOfService
  <2>5. result[r] = "none" => RequestMeant(r)'
      BY <2>3, <2>4 DEF Update, OutcomesInv, RequestMeant, LengthOfService
  <2> QED
      BY <1>2, <2>5, GotoOutcomes DEF Update, IndInv, TypeOK
<1> QED
    BY <1>1, <1>2 DEF Update

LEMMA IndexAcceptsOutcomes ==
    ASSUME IndInv, OutcomesInv, NEW r \in Request, IndexAccepts(r)
    PROVE  OutcomesInv'
<1> DEFINE label == IF pc[r] = "unique" THEN "exclude" ELSE "commit"
<1>1. label \in {"exclude", "commit"} /\ Goto(r, label)
    BY DEF IndexAccepts
<1> HIDE DEF label
<1>2. pc'[r] \in {"exclude", "commit"} /\ result' = result
    BY <1>1 DEF Goto, IndInv, TypeOK
<1>3. UNCHANGED <<bookings, reminders, reviewRequests, op, loaded, snapshot, held, written>>
    BY DEF IndexAccepts
<1>4. result[r] = "none" => RequestMeant(r)'
    BY <1>2, <1>3 DEF IndexAccepts, OutcomesInv, RequestMeant, WrittenAsAsked, LengthOfService
<1> QED
    BY <1>1, <1>3, <1>4, GotoOutcomes DEF IndexAccepts

LEMMA IndexRejectsOutcomes ==
    ASSUME IndInv, OutcomesInv, NEW r \in Request, IndexRejects(r)
    PROVE  OutcomesInv'
BY AnswerOutcomes DEF IndexRejects

LEMMA DeadlockOutcomes ==
    ASSUME IndInv, OutcomesInv, NEW r \in Request, Deadlock(r)
    PROVE  OutcomesInv'
<1>1. pc[r] \in {"lock", "write", "unique", "exclude"}
    BY DEF Deadlock, Deadlocked, WaitsFor
<1>2. CASE /\ op[r].kind = "create"
           /\ Goto(r, "retry")
           /\ held' = [held EXCEPT ![r] = {}]
           /\ written' = [written EXCEPT ![r] = Absent]
           /\ UNCHANGED <<clock, loaded, snapshot>>
  <2>1. pc'[r] = "retry" /\ result' = result /\ held'[r] = {}
      BY <1>2 DEF Goto, IndInv, TypeOK
  <2>2. result[r] = "none" => RequestMeant(r)'
      BY <1>2, <2>1 DEF Deadlock, OutcomesInv, RequestMeant, LengthOfService
  <2> QED
      BY <1>1, <1>2, <2>2, GotoOutcomes DEF Deadlock, IndInv, TypeOK
<1>3. CASE Answer(r, "error")
    BY <1>1, <1>3, AnswerOutcomes DEF Deadlock
<1> QED
    BY <1>2, <1>3 DEF Deadlock

LEMMA CrashOutcomes ==
    ASSUME IndInv, OutcomesInv, NEW r \in Request, Crash(r)
    PROVE  OutcomesInv'
<1>1. RequestMeant(r)' /\ AllOthersKept(r) /\ result'[r] = "crashed"
    BY AnswerMeant DEF Crash, IndInv
<1>2. PursuitKept(r)
    BY <1>1 DEF PursuitKept
<1> QED
    BY <1>1, <1>2, WithoutChange DEF Crash

LEMMA RefreshOutcomes ==
    ASSUME IndInv, OutcomesInv, NEW r \in Request, Refresh(r)
    PROVE  OutcomesInv'
<1>0. result[r] = "none"
    BY DEF Refresh, OutcomesInv, RequestMeant
<1>1. CASE Goto(r, "enqueue") /\ UNCHANGED sessionVars
  <2>1. pc'[r] = "enqueue" /\ result' = result /\ held'[r] = {} /\ op' = op
      BY <1>1 DEF Refresh, Goto, IndInv, TypeOK, LockDiscipline
  <2>2. RequestMeant(r)'
      BY <1>0, <1>1, <2>1 DEF Refresh, OutcomesInv, RequestMeant, LengthOfService
  <2>3. AllOthersKept(r)
      BY <1>1 DEF Refresh, Goto, IndInv, TypeOK, AllOthersKept, OthersKept
  <2>4. PursuitKept(r)
      BY <1>0, <2>1 DEF PursuitKept, Pursues
  <2> QED
      BY <2>2, <2>3, <2>4, WithoutChange DEF Refresh
<1>2. CASE Answer(r, "ok") /\ (~NewlyCompleted(r) \/ FALSE \in OptIns)
  <2>1. RequestMeant(r)' /\ AllOthersKept(r)
      BY <1>2, AnswerMeant DEF Refresh, IndInv
  <2>2. OptIns = {TRUE} => PursuitKept(r)
      BY <1>0, <1>2 DEF Refresh, PursuitKept, Pursues, NewlyCompleted
  <2> QED
      BY <2>1, <2>2, WithoutChange DEF Refresh
<1> QED
    BY <1>1, <1>2 DEF Refresh

LEMMA EnqueueReviewOutcomes ==
    ASSUME IndInv, OutcomesInv, NEW r \in Request, EnqueueReview(r)
    PROVE  OutcomesInv'
<1>0. result[r] = "none"
    BY DEF EnqueueReview, OutcomesInv, RequestMeant
<1>1. RequestMeant(r)' /\ AllOthersKept(r)
    BY AnswerMeant DEF EnqueueReview, IndInv
<1>2. PursuitKept(r)
    BY <1>0 DEF EnqueueReview, PursuitKept, Pursues
<1> QED
    BY <1>1, <1>2, WithoutChange DEF EnqueueReview

-----------------------------------------------------------------------------
(* The commit.                                                             *)

(* The row that a commit leaves. *)
LEMMA CommittedRow ==
    ASSUME IndInv, OutcomesInv, NEW r \in Request, Commit(r), NEW id \in Booking,
           held[r] = {id}
    PROVE  /\ bookings' = [bookings EXCEPT ![id] = written[r]]
           /\ written[r] \in Row /\ Derived(r, id) /\ WrittenAsAsked(r)
           /\ \A x \in Booking \ {id} : bookings'[x] = bookings[x]
           /\ bookings'[id] = written[r]
<1>1. bookings' = [bookings EXCEPT ![id] = written[r]]
    BY DEF Commit, IndInv, TypeOK
<1>2. written[r] \in Row /\ Derived(r, id)
    BY DEF IndInv, WrittenDerived
<1>3. WrittenAsAsked(r)
    BY DEF OutcomesInv, RequestMeant
<1> QED
    BY <1>1, <1>2, <1>3 DEF IndInv, TypeOK

(* Nobody's booking disappears or changes its service. *)
LEMMA ServiceKept ==
    ASSUME IndInv, OutcomesInv, NEW r \in Request, Commit(r), NEW x \in Booking,
           bookings[x] # Absent
    PROVE  bookings'[x] # Absent /\ bookings'[x].service = bookings[x].service
<1>1. CASE bookings'[x] = bookings[x]
    BY <1>1
<1>2. CASE held[r] = {x}
  <2>1. bookings'[x] = written[r] /\ written[r] \in Row /\ Derived(r, x)
      BY <1>2, CommittedRow
  <2>2. written[r] # Absent
      BY <2>1 DEF Row, ActiveStatus, ClosedStatus, Absent
  <2>3. bookings[x] \in Row
      BY DEF IndInv, TypeOK
  <2>4. CASE op[r].kind = "reschedule"
      BY <2>1, <2>2, <2>3, <2>4 DEF Derived, Row
  <2>5. CASE op[r].kind \notin {"create", "reschedule"}
      BY <2>1, <2>2, <2>3, <2>5 DEF Derived, Row
  <2>6. op[r].kind # "create"
      BY <2>1 DEF Derived
  <2> QED
      BY <2>4, <2>5, <2>6
<1>3. bookings'[x] = bookings[x] \/ held[r] = {x}
    BY DEF Commit, IndInv, TypeOK, LockDiscipline
<1> QED
    BY <1>1, <1>2, <1>3

LEMMA CommitMeant ==
    ASSUME IndInv, OutcomesInv, NEW r \in Request, Commit(r)
    PROVE  AllOthersKept(r) /\ \A q \in Request : RequestMeant(q)'
<1>0. result[r] = "none"
    BY DEF Commit, OutcomesInv, RequestMeant
<1>1. AllOthersKept(r)
  <2>1. CASE Answer(r, "ok")
      BY <2>1, AnswerMeant DEF Commit, IndInv
  <2>2. CASE /\ Goto(r, "refresh")
             /\ held' = [held EXCEPT ![r] = {}]
             /\ written' = [written EXCEPT ![r] = Absent]
             /\ UNCHANGED <<clock, loaded, snapshot>>
      BY <2>2 DEF Commit, Goto, IndInv, TypeOK, AllOthersKept, OthersKept
  <2> QED
      BY <2>1, <2>2 DEF Commit
<1>2. \A q \in Request : loaded[q] # Absent =>
            bookings'[op[q].id] # Absent
            /\ bookings'[op[q].id].service = bookings[op[q].id].service
  <2> SUFFICES ASSUME NEW q \in Request, loaded[q] # Absent
               PROVE  bookings'[op[q].id] # Absent
                      /\ bookings'[op[q].id].service = bookings[op[q].id].service
      OBVIOUS
  <2>1. op[q] \in Op /\ op[q].kind # "create" /\ bookings[op[q].id] # Absent
      BY DEF OutcomesInv, RequestMeant
  <2>2. op[q].id \in Booking
      BY <2>1, OpKinds
  <2> QED
      BY <2>1, <2>2, ServiceKept
<1>3. ASSUME NEW q \in Request, q # r PROVE RequestMeant(q)'
  <2>1. RequestMeant(q)
      BY DEF OutcomesInv
  <2> QED
      BY <1>1, <1>2, <1>3, <2>1, Meant DEF AllOthersKept, OthersKept, Commit
<1>4. RequestMeant(r)'
  <2>1. CASE Answer(r, "ok")
      BY <2>1, AnswerMeant DEF Commit, IndInv
  <2>2. CASE /\ Goto(r, "refresh")
             /\ held' = [held EXCEPT ![r] = {}]
             /\ written' = [written EXCEPT ![r] = Absent]
             /\ UNCHANGED <<clock, loaded, snapshot>>
    <3>1. pc'[r] = "refresh" /\ result'[r] = "none" /\ held'[r] = {} /\ loaded' = loaded
          /\ op' = op
        BY <1>0, <2>2 DEF Commit, Goto, IndInv, TypeOK
    <3>2. RequestMeant(r)
        BY DEF OutcomesInv
    <3>3. loaded[r] # Absent =>
            /\ op[r] \in Op /\ op[r].kind # "create"
            /\ LengthOfService(loaded[r])
            /\ bookings[op[r].id].service = loaded[r].service
            /\ op[r].kind = "reschedule" /\ ~SameSlotMoves => loaded[r].start # op[r].start
        BY <3>2 DEF RequestMeant
    <3> QED
        BY <1>2, <3>1, <3>3 DEF RequestMeant, LengthOfService
  <2> QED
      BY <2>1, <2>2 DEF Commit
<1> QED
    BY <1>1, <1>3, <1>4

(* Reminders are written with the start that they announce. *)
LEMMA CommitReminds ==
    ASSUME IndInv, OutcomesInv, NEW r \in Request, Commit(r), ~SameSlotMoves
    PROVE  RemindersFollow'
<1> DEFINE Announces(start) == {[kind |-> "long", at |-> start - LongLead],
                                [kind |-> "short", at |-> start - ShortLead]}
<1> SUFFICES ASSUME NEW id \in Booking, IsActive(bookings'[id])
             PROVE  reminders'[id] \subseteq Announces(bookings'[id].start)
    BY DEF RemindersFollow, IsActive
<1>1. PICK optIn \in OptIns : reminders' = [x \in Booking |->
            IF x \in held[r] THEN RemindersAfter(r, x, optIn) ELSE reminders[x]]
    BY DEF Commit
<1>2. CASE id \notin held[r]
  <2>1. bookings'[id] = bookings[id] /\ reminders'[id] = reminders[id]
      BY <1>1, <1>2 DEF Commit
  <2> QED
      BY <2>1 DEF OutcomesInv, RemindersFollow
<1>3. CASE id \in held[r]
  <2>1. held[r] = {id}
      BY <1>3 DEF IndInv, LockDiscipline, TypeOK
  <2>2. bookings'[id] = written[r] /\ written[r] \in Row /\ Derived(r, id) /\ WrittenAsAsked(r)
      BY <2>1, CommittedRow
  <2>3. op[r] \in Op
      BY DEF Commit, IndInv, RequestsTyped, RequestTyped
  <2>4. op[r].kind \in {"create", "reschedule"}
    <3>1. written[r].status \notin ClosedStatus
        BY <2>2 DEF IsActive, ActiveStatus, ClosedStatus
    <3> QED
        BY <2>2, <2>3, <3>1, OpKinds DEF Derived
  <2>5. op[r].start \in Int /\ clock[r] \in Int
      BY <2>3, <2>4, OpKinds DEF IndInv, TypeOK
  <2>6. written[r].start = op[r].start
      BY <2>2, <2>4 DEF WrittenAsAsked, NewRow
  <2>7. reminders'[id] \in {{}, FreshReminders(op[r].start, clock[r])}
      BY <1>1, <1>3, <2>4 DEF RemindersAfter
  <2> QED
      BY <2>2, <2>5, <2>6, <2>7, FreshRemindersFollow
<1> QED
    BY <1>2, <1>3

(* Whoever completes a booking pursues its request from the commit on. *)
LEMMA CommitPursues ==
    ASSUME IndInv, OutcomesInv, NEW r \in Request, Commit(r), OptIns = {TRUE}
    PROVE  CompletionPursued'
<1> SUFFICES ASSUME NEW id \in Booking, bookings'[id].status = "completed"
             PROVE  \/ id \in reviewRequests'
                    \/ \E q \in Request : Pursues(q, id)' \/ result'[q] = "crashed"
    BY DEF CompletionPursued
<1>1. result[r] = "none" /\ ~Pursues(r, id) /\ pc[r] = "commit"
    BY DEF Commit, OutcomesInv, RequestMeant, Pursues
<1>2. AllOthersKept(r) /\ reviewRequests' = reviewRequests /\ op' = op
    BY CommitMeant DEF Commit
<1>3. CASE bookings[id].status = "completed"
  <2>1. id \in reviewRequests
        \/ \E q \in Request : Pursues(q, id) \/ result[q] = "crashed"
      BY <1>3 DEF OutcomesInv, CompletionPursued
  <2> QED
      BY <1>1, <1>2, <2>1 DEF AllOthersKept, OthersKept, Pursues
<1>4. CASE bookings[id].status # "completed"
  <2>1. held[r] = {id}
      BY <1>4 DEF Commit, IndInv, LockDiscipline, TypeOK
  <2>2. bookings'[id] = written[r] /\ written[r] \in Row /\ Derived(r, id) /\ WrittenAsAsked(r)
      BY <2>1, CommittedRow
  <2>3. op[r] \in Op
      BY <1>1 DEF IndInv, RequestsTyped, RequestTyped
  <2>4. op[r].kind # "create"
      BY <2>2 DEF Derived, IsActive, ActiveStatus
  <2>5. op[r].kind # "reschedule"
    <3>1. ASSUME op[r].kind = "reschedule" PROVE FALSE
      <4>1. bookings[id] \in Row
            /\ written[r] = [bookings[id] EXCEPT !.start = written[r].start,
                                                 !.end = written[r].end]
          BY <2>2, <3>1 DEF Derived, IndInv, TypeOK
      <4>2. written[r].status = bookings[id].status
          BY <4>1 DEF Row
      <4> QED
          BY <1>4, <2>2, <4>2
    <3> QED
        BY <3>1
  <2>6. op[r].kind # "cancel"
      BY <2>2 DEF WrittenAsAsked
  <2>7. op[r].kind = "patch"
      BY <2>3, <2>4, <2>5, <2>6, OpKinds
  <2>8. op[r].id = id /\ loaded[r].status # "completed"
      BY <2>1, <2>2, <2>7 DEF WrittenAsAsked
  <2>9. pc'[r] = "refresh" /\ loaded' = loaded
      BY <2>7 DEF Commit, Goto, IndInv, TypeOK
  <2> QED
      BY <1>2, <2>7, <2>8, <2>9 DEF Pursues
<1> QED
    BY <1>3, <1>4

LEMMA CommitOutcomes ==
    ASSUME IndInv, OutcomesInv, NEW r \in Request, Commit(r)
    PROVE  OutcomesInv'
<1>1. ASSUME NEW id \in Booking, bookings'[id] # Absent
      PROVE  LengthOfService(bookings'[id])
  <2>1. CASE held[r] = {id}
    <3>1. bookings'[id] = written[r] /\ WrittenAsAsked(r)
        BY <2>1, CommittedRow
    <3> QED
        BY <3>1 DEF WrittenAsAsked
  <2>2. CASE held[r] # {id}
    <3>1. bookings'[id] = bookings[id]
        BY <2>2 DEF Commit, IndInv, LockDiscipline, TypeOK
    <3> QED
        BY <1>1, <3>1 DEF OutcomesInv
  <2> QED
      BY <2>1, <2>2
<1>2. \A id \in Booking : bookings'[id] # Absent => LengthOfService(bookings[id])'
    BY <1>1 DEF LengthOfService
<1> QED
    BY <1>2, CommitMeant, CommitReminds, CommitPursues DEF OutcomesInv

-----------------------------------------------------------------------------
LEMMA OutcomesNext == IndInv /\ OutcomesInv /\ [Next]_vars => OutcomesInv'
<1> SUFFICES ASSUME IndInv, OutcomesInv, [Next]_vars
             PROVE  OutcomesInv'
    OBVIOUS
<1>0. ASSUME UNCHANGED <<tableVars, pc, op, sessionVars, failures, result>>
      PROVE  OutcomesInv'
  <2>1. \A q \in Request : RequestMeant(q)'
      BY <1>0, Meant DEF OutcomesInv, RequestMeant
  <2>2. \A id \in Booking : bookings'[id] # Absent => LengthOfService(bookings[id])'
      BY <1>0 DEF OutcomesInv, LengthOfService
  <2>3. ~SameSlotMoves => RemindersFollow'
      BY <1>0 DEF OutcomesInv, RemindersFollow
  <2>4. CompletionPursued => CompletionPursued'
      BY <1>0 DEF CompletionPursued, Pursues
  <2> QED
      BY <2>1, <2>2, <2>3, <2>4 DEF OutcomesInv
<1>1. CASE UNCHANGED vars
    BY <1>0, <1>1 DEF vars
<1>2. CASE Tick
    BY <1>0, <1>2 DEF Tick
<1>3. CASE AllAnswered
    BY <1>0, <1>3 DEF AllAnswered, vars
<1>4. ASSUME NEW r \in Request, Start(r)
      PROVE  OutcomesInv'
  <2>1. CASE StartCreate(r)
    <3>1. loaded[r] = Absent
        BY <2>1 DEF StartCreate, OutcomesInv, RequestMeant
    <3> QED
        BY <2>1, <3>1, StartCreateOutcomes
  <2> QED
      BY <1>4, <2>1, StartChangeOutcomes, StartPatchOutcomes DEF Start
<1>5. ASSUME NEW r \in Request, Step(r)
      PROVE  OutcomesInv'
    BY <1>5, SelectOverlappingOutcomes, LockOverlappingOutcomes, ValidateSlotOutcomes,
       InsertOutcomes, UpdateOutcomes, IndexAcceptsOutcomes, IndexRejectsOutcomes,
       DeadlockOutcomes, RetryCreateOutcomes, CommitOutcomes, RefreshOutcomes,
       EnqueueReviewOutcomes DEF Step
<1>6. ASSUME NEW r \in Request, Crash(r)
      PROVE  OutcomesInv'
    BY <1>6, CrashOutcomes
<1> QED
    BY <1>1, <1>2, <1>3, <1>4, <1>5, <1>6 DEF Next

LEMMA BothNext == IndInv /\ OutcomesInv /\ [Next]_vars => (IndInv /\ OutcomesInv)'
BY NextInv, OutcomesNext

(* What requests mean to write, and what they have still to do, whatever   *)
(* the others commit in between.                                           *)
THEOREM OutcomesInductive == Spec => []OutcomesInv
<1>1. Init => IndInv /\ OutcomesInv
    BY InitInv, OutcomesInit
<1>2. IndInv /\ OutcomesInv /\ [Next]_vars => (IndInv /\ OutcomesInv)'
    BY BothNext
<1> QED
    BY <1>1, <1>2, PTL DEF Spec

(* The pending reminders of an active booking announce its start, however  *)
(* many requests move it at once, if none moves it to where it is.         *)
THEOREM RemindersAnnounceTheStart ==
    ASSUME ~SameSlotMoves
    PROVE  Spec => []RemindersFollow
<1>1. OutcomesInv => RemindersFollow
    BY DEF OutcomesInv
<1> QED
    BY <1>1, OutcomesInductive, PTL

(* Once all requests are answered, and none of them was lost, a completed  *)
(* booking has its review request: of two that complete it, or complete    *)
(* and reopen it, one enqueues it.                                         *)
THEOREM CompletedAreAsked ==
    ASSUME OptIns = {TRUE}
    PROVE  Spec => []CompletedIsRequested
<1>1. OutcomesInv => CompletedIsRequested
    BY DEF OutcomesInv, CompletionPursued, CompletedIsRequested, Pursues
<1> QED
    BY <1>1, OutcomesInductive, PTL

-----------------------------------------------------------------------------
(* Refusals.                                                               *)

LEMMA LengthPositive ==
    ASSUME NEW row \in Row, LengthOfService(row)
    PROVE  row.start < row.end
<1>1. row.start \in Int /\ row.service \in Service
    BY DEF Row
<1>2. Duration[row.service] \in Nat \ {0}
    BY <1>1, BookingsAssumption
<1> QED
    BY <1>1, <1>2 DEF LengthOfService

(* Rows that clash in either index overlap, since they have a length. *)
LEMMA ClashOverlaps ==
    ASSUME NEW index, NEW a \in Row, NEW b \in Row, Clash(index, a, b),
           LengthOfService(a), LengthOfService(b)
    PROVE  Overlap(a, b)
<1>1. a.start < a.end /\ b.start < b.end
    BY LengthPositive
<1> QED
    BY <1>1 DEF Clash, Overlap

LEMMA RefusedForCause ==
    ASSUME IndInv, OutcomesInv, NEW q \in Request, Start(q) \/ Step(q) \/ Crash(q),
           NEW r \in Request, result[r] = "none", result'[r] = "slot_taken"
    PROVE  /\ q = r
           /\ \E id \in Booking \ Self(q) :
                IsActive(bookings[id]) /\ Overlap(bookings[id], Wanted(q))
<1>1. /\ q = r
      /\ \/ LockOverlapping(q) /\ Answer(q, "slot_taken")
         \/ IndexRejects(q) /\ op[q].kind = "create"
  <2>2. ASSUME NEW answer, Answer(q, answer) PROVE q = r /\ answer = "slot_taken"
      BY <2>2 DEF Answer, IndInv, TypeOK
  <2>3. ASSUME NEW label, Goto(q, label) PROVE FALSE
      BY <2>3 DEF Goto
  <2>4. ~Start(q)
    <3>1. \A o : ~AttemptCreate(q, o)
        BY <2>2, <2>3 DEF AttemptCreate
    <3>2. ~StartCreate(q)
        BY <3>1 DEF StartCreate
    <3>3. \A o, row : Refusal(o, row) # "slot_taken"
        BY DEF Refusal
    <3>4. ~StartChange(q)
        BY <2>2, <2>3, <3>3 DEF StartChange
    <3>5. ~StartPatch(q)
        BY <2>2, <2>3 DEF StartPatch
    <3> QED
        BY <3>2, <3>4, <3>5 DEF Start
  <2>5. ~Crash(q)
      BY <2>2 DEF Crash
  <2>6. ~SelectOverlapping(q) /\ ~ValidateSlot(q) /\ ~Insert(q) /\ ~IndexAccepts(q)
      BY <2>2, <2>3 DEF SelectOverlapping, ValidateSlot, Insert, IndexAccepts
  <2>7. ~Update(q)
      BY <2>3 DEF Update
  <2>8. ~Deadlock(q) /\ ~RetryCreate(q)
      BY <2>2, <2>3 DEF Deadlock, RetryCreate, AttemptCreate
  <2>9. ~Commit(q) /\ ~Refresh(q)
    <3>1. Commit(q) \/ Refresh(q) =>
            Answer(q, "ok") \/ Goto(q, "refresh") \/ Goto(q, "enqueue")
        BY DEF Commit, Refresh
    <3> QED
        BY <2>2, <2>3, <3>1
  <2>10. ~EnqueueReview(q)
      BY <2>2 DEF EnqueueReview
  <2>11. LockOverlapping(q) => q = r /\ Answer(q, "slot_taken")
      BY <2>2, <2>3 DEF LockOverlapping
  <2>12. IndexRejects(q) => q = r /\ op[q].kind = "create"
      BY <2>2 DEF IndexRejects
  <2>13. LockOverlapping(q) \/ IndexRejects(q)
      BY <2>4, <2>5, <2>6, <2>7, <2>8, <2>9, <2>10 DEF Step
  <2> QED
      BY <2>11, <2>12, <2>13
<1>2. CASE LockOverlapping(q) /\ Answer(q, "slot_taken")
  <2>1. PICK id \in StillOverlapping(q) : TRUE
    <3>1. StillOverlapping(q) # {}
      <4>1. ~Goto(q, "validate")
          BY DEF Goto
      <4> QED
          BY <1>2, <4>1 DEF LockOverlapping
    <3> QED
        BY <3>1
  <2>2. snapshot[q] \subseteq Booking \ Self(q)
      BY <1>2 DEF LockOverlapping, OutcomesInv, RequestMeant
  <2> QED
      BY <1>1, <2>1, <2>2 DEF StillOverlapping
<1>3. CASE IndexRejects(q) /\ op[q].kind = "create"
  <2>1. PICK id \in Booking : IsActive(bookings[id]) /\ Clash(pc[q], bookings[id], written[q])
      BY <1>3 DEF IndexRejects, Violated
  <2>2. held[q] # {} /\ WrittenAsAsked(q)
      BY <1>3 DEF IndexRejects, OutcomesInv, RequestMeant
  <2>3. written[q] \in Row /\ LengthOfService(written[q]) /\ written[q] = Wanted(q)
      BY <1>3, <2>2 DEF IndInv, WrittenDerived, WrittenAsAsked, Wanted
  <2>4. bookings[id] \in Row /\ LengthOfService(bookings[id])
    <3>1. bookings[id] # Absent
        BY <2>1 DEF IsActive, ActiveStatus, Absent
    <3> QED
        BY <3>1 DEF IndInv, TypeOK, OutcomesInv
  <2>5. Overlap(bookings[id], Wanted(q))
      BY <2>1, <2>3, <2>4, ClashOverlaps
  <2> QED
      BY <1>1, <1>3, <2>1, <2>5 DEF Self
<1> QED
    BY <1>1, <1>2, <1>3

LEMMA RefusalCause ==
    ASSUME IndInv, OutcomesInv, Next, NEW r \in Request,
           result[r] = "none", result'[r] = "slot_taken"
    PROVE  \E id \in Booking \ Self(r) :
                IsActive(bookings[id]) /\ Overlap(bookings[id], Wanted(r))
<1>1. PICK q \in Request : Start(q) \/ Step(q) \/ Crash(q)
    BY DEF Next, Tick, AllAnswered, vars
<1>2. /\ q = r
      /\ \E id \in Booking \ Self(q) :
            IsActive(bookings[id]) /\ Overlap(bookings[id], Wanted(q))
    BY <1>1, RefusedForCause
<1> QED
    BY <1>2 DEF Self, Wanted

(* SlotAlreadyTaken is answered while an active booking is committed that  *)
(* overlaps the wanted one, after the wait for locks as after that for the *)
(* indexes: losing a race against one that is itself given up refuses      *)
(* nobody.                                                                 *)
THEOREM RefusalsAreJustified == Spec => RefusalJustified
<1>1. IndInv /\ OutcomesInv /\ [Next]_vars =>
        [\A r \in Request : result[r] = "none" /\ result'[r] = "slot_taken" =>
            \E id \in Booking \ Self(r) :
                IsActive(bookings[id]) /\ Overlap(bookings[id], Wanted(r))]_vars
    BY RefusalCause
<1> QED
    BY <1>1, Inductive, OutcomesInductive, PTL DEF Spec, RefusalJustified
===============================================================================
