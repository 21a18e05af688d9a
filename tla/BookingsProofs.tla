---------------------------- MODULE BookingsProofs ----------------------------
(***************************************************************************)
(* What is proved of Bookings for every value of its constants.  The       *)
(* induction is over IndInv of module BookingsInvariant: first the types,  *)
(* then the actions that leave their request without a row lock, in one    *)
(* lemma, then the four that take, keep or give up one.                    *)
(***************************************************************************)
EXTENDS BookingsInvariant, TLAPS

LEMMA OverlapSymmetric ==
    ASSUME NEW a, NEW b, Overlap(a, b)
    PROVE  Overlap(b, a)
BY DEF Overlap

LEMMA NewRowType ==
    ASSUME NEW o \in CreateOp
    PROVE  NewRow(o) \in Row /\ IsActive(NewRow(o))
<1>1. o.staff \in Staff /\ o.service \in Service /\ o.start \in Int
    BY BookingsAssumption DEF CreateOp
<1>2. Duration[o.service] \in Int
    BY <1>1, BookingsAssumption
<1> QED
    BY <1>1, <1>2 DEF NewRow, Row, IsActive, ActiveStatus

LEMMA FreshRemindersType ==
    ASSUME NEW start \in Int, NEW t \in Int
    PROVE  FreshReminders(start, t) \in SUBSET [kind : {"long", "short"}, at : Int]
BY BookingsAssumption DEF FreshReminders

(* The operations by kind. *)
LEMMA OpKinds ==
    ASSUME NEW o \in Op
    PROVE  /\ o.kind = "create" => o \in CreateOp
           /\ o.kind = "cancel" => o \in CancelOp
           /\ o.kind = "reschedule" => o \in RescheduleOp
           /\ o.kind = "patch" => o \in PatchOp
           /\ o.kind \in {"create", "cancel", "reschedule", "patch"}
           /\ o.kind # "create" => o.id \in Booking
           /\ o.kind \in {"create", "reschedule"} => o.start \in Int
BY BookingsAssumption DEF Op, CreateOp, CancelOp, RescheduleOp, PatchOp

-----------------------------------------------------------------------------
(* Type correctness, action by action.                                     *)

LEMMA AnswerType ==
    ASSUME TypeOK, NEW r \in Request, NEW answer \in Result, Answer(r, answer)
    PROVE  /\ pc' \in [Request -> PC]
           /\ clock' \in [Request -> Nat]
           /\ loaded' \in [Request -> {Absent} \cup Row]
           /\ snapshot' \in [Request -> SUBSET Booking]
           /\ held' \in [Request -> SUBSET Booking]
           /\ written' \in [Request -> {Absent} \cup Row]
           /\ result' \in [Request -> Result]
BY DEF TypeOK, Answer, PC

LEMMA GotoType ==
    ASSUME TypeOK, NEW r \in Request, NEW label \in PC, Goto(r, label)
    PROVE  pc' \in [Request -> PC] /\ result' \in [Request -> Result]
BY DEF TypeOK, Goto

LEMMA InitInv == Init => IndInv
<1> SUFFICES ASSUME Init PROVE IndInv
    OBVIOUS
<1>0. PICK slot \in [Seeded -> CreateOp] :
        /\ \A x, y \in Seeded : x # y => ~Overlap(NewRow(slot[x]), NewRow(slot[y]))
        /\ bookings = [id \in Booking |-> IF id \in Seeded THEN NewRow(slot[id]) ELSE Absent]
        /\ reminders = [id \in Booking |->
                IF id \in Seeded THEN FreshReminders(slot[id].start, 0) ELSE {}]
    BY DEF Init
<1>1. bookings \in [Booking -> {Absent} \cup Row]
    BY <1>0, NewRowType
<1>2. reminders \in [Booking -> SUBSET [kind : {"long", "short"}, at : Int]]
  <2>1. \A id \in Seeded : slot[id].start \in Int
      BY BookingsAssumption DEF CreateOp
  <2>2. \A id \in Seeded : FreshReminders(slot[id].start, 0)
                              \in SUBSET [kind : {"long", "short"}, at : Int]
      BY <2>1, FreshRemindersType
  <2> QED
      BY <1>0, <2>2
<1>3. TypeOK
    BY <1>1, <1>2 DEF Init, TypeOK, PC, Result
<1>4. NoOverlap
    BY <1>0 DEF NoOverlap, IsActive, ActiveStatus, Absent
<1> QED
    BY <1>3, <1>4 DEF Init, IndInv, LockDiscipline, RequestsTyped, RequestTyped, WrittenDerived,
                      CheckedIsClear, CheckedApart, Checked

-----------------------------------------------------------------------------
(* Actions after which the request holds no row.                           *)

(* What a step of r leaves alone. *)
OthersKept(r) ==
    \A q \in Request \ {r} :
        /\ pc'[q] = pc[q]
        /\ op'[q] = op[q]
        /\ loaded'[q] = loaded[q]
        /\ held'[q] = held[q]
        /\ written'[q] = written[q]

(* A step of r that ends without a lock and changes no booking keeps the   *)
(* invariant if it keeps the types.                                        *)
LEMMA WithoutLock ==
    ASSUME IndInv, TypeOK', NEW r \in Request, OthersKept(r),
           bookings' = bookings, held'[r] = {}, RequestTyped(r)'
    PROVE  IndInv'
<1>1. LockDiscipline'
    BY DEF IndInv, LockDiscipline, OthersKept
<1>2. RequestsTyped'
    BY DEF IndInv, RequestsTyped, RequestTyped, OthersKept
<1>3. WrittenDerived'
  <2> SUFFICES ASSUME NEW q \in Request, NEW id \in held'[q]
               PROVE  written'[q] \in Row /\ Derived(q, id)'
      BY DEF WrittenDerived
  <2>1. q # r /\ id \in held[q] /\ written'[q] = written[q] /\ op'[q] = op[q]
      BY DEF OthersKept
  <2>2. written[q] \in Row /\ Derived(q, id)
      BY <2>1 DEF IndInv, WrittenDerived
  <2> QED
      BY <2>1, <2>2 DEF Derived
<1>4. CheckedIsClear'
    BY DEF IndInv, CheckedIsClear, Checked, OthersKept
<1>5. CheckedApart'
    BY DEF IndInv, CheckedApart, Checked, OthersKept
<1>6. NoOverlap'
    BY DEF IndInv, NoOverlap
<1> QED
    BY <1>1, <1>2, <1>3, <1>4, <1>5, <1>6 DEF IndInv

(* An answer ends the transaction. *)
LEMMA AnswerInv ==
    ASSUME IndInv, NEW r \in Request, NEW answer \in Result, Answer(r, answer),
           op' \in [Request -> {NoOp} \cup Op], op'[r] \in Op,
           \A q \in Request \ {r} : op'[q] = op[q],
           bookings' = bookings,
           reminders' = reminders,
           reviewRequests' \subseteq Booking,
           now' = now,
           failures' = failures
    PROVE  IndInv'
<1>1. TypeOK'
  <2> USE DEF IndInv
  <2>1. bookings' \in [Booking -> {Absent} \cup Row]
        /\ reminders' \in [Booking -> SUBSET [kind : {"long", "short"}, at : Int]]
        /\ now' \in Nat /\ failures' \in [Request -> Nat]
      BY DEF TypeOK
  <2> QED
      BY <2>1, AnswerType DEF TypeOK
<1>2. OthersKept(r) /\ held'[r] = {} /\ pc'[r] = "done"
    BY DEF IndInv, TypeOK, Answer, OthersKept
<1>3. RequestTyped(r)'
    BY <1>2 DEF RequestTyped
<1> QED
    BY <1>1, <1>2, <1>3, WithoutLock

(* The next statement of a request that holds no row. *)
LEMMA GotoInv ==
    ASSUME IndInv, NEW r \in Request, NEW label \in PC, Goto(r, label),
           op' \in [Request -> {NoOp} \cup Op],
           clock' \in [Request -> Nat],
           loaded' \in [Request -> {Absent} \cup Row],
           snapshot' \in [Request -> SUBSET Booking],
           \A q \in Request \ {r} : op'[q] = op[q] /\ loaded'[q] = loaded[q],
           held' = held, written' = written, held[r] = {},
           UNCHANGED <<tableVars, now, failures>>,
           RequestTyped(r)'
    PROVE  IndInv'
<1>1. TypeOK'
    BY GotoType DEF IndInv, TypeOK, tableVars
<1>2. OthersKept(r)
    BY DEF IndInv, TypeOK, Goto, OthersKept
<1> QED
    BY <1>1, <1>2, WithoutLock DEF tableVars

LEMMA AttemptCreateInv ==
    ASSUME IndInv, NEW r \in Request, NEW o \in CreateOp, AttemptCreate(r, o),
           held[r] = {},
           op' \in [Request -> {NoOp} \cup Op], op'[r] = o,
           \A q \in Request \ {r} : op'[q] = op[q],
           failures' = failures
    PROVE  IndInv'
<1> USE DEF tableVars
<1>0. o \in Op /\ o.kind = "create"
    BY DEF Op, CreateOp
<1>1. CASE Answer(r, "slot_in_past")
    BY <1>0, <1>1, AnswerInv DEF AttemptCreate, Result, IndInv, TypeOK
<1>2. CASE Answer(r, "not_offered")
    BY <1>0, <1>2, AnswerInv DEF AttemptCreate, Result, IndInv, TypeOK
<1>3. CASE /\ Goto(r, "select")
           /\ clock' = [clock EXCEPT ![r] = now]
           /\ UNCHANGED <<loaded, snapshot, held, written>>
  <2>1. RequestTyped(r)'
      BY <1>0, <1>3 DEF RequestTyped, Goto, IndInv, TypeOK
  <2>2. clock' \in [Request -> Nat] /\ "select" \in PC
      BY <1>3 DEF IndInv, TypeOK, PC
  <2> QED
      BY <1>3, <2>1, <2>2, GotoInv DEF AttemptCreate, IndInv, TypeOK
<1> QED
    BY <1>1, <1>2, <1>3 DEF AttemptCreate

LEMMA StartCreateInv ==
    ASSUME IndInv, NEW r \in Request, StartCreate(r)
    PROVE  IndInv'
<1>1. PICK o \in CreateOp : op' = [op EXCEPT ![r] = o] /\ AttemptCreate(r, o)
    BY DEF StartCreate
<1>2. op' \in [Request -> {NoOp} \cup Op] /\ op'[r] = o
      /\ \A q \in Request \ {r} : op'[q] = op[q]
    BY <1>1 DEF IndInv, TypeOK, Op
<1>3. held[r] = {}
    BY DEF StartCreate, IndInv, LockDiscipline
<1> QED
    BY <1>1, <1>2, <1>3, AttemptCreateInv DEF StartCreate

LEMMA RetryCreateInv ==
    ASSUME IndInv, NEW r \in Request, RetryCreate(r)
    PROVE  IndInv'
<1>1. op[r] \in Op /\ op[r] \in CreateOp /\ held[r] = {}
    BY OpKinds DEF RetryCreate, IndInv, RequestsTyped, RequestTyped, LockDiscipline
<1>2. CASE Answer(r, "error") /\ UNCHANGED <<tableVars, now>>
    BY <1>1, <1>2, AnswerInv DEF RetryCreate, Result, IndInv, TypeOK, tableVars
<1>3. CASE AttemptCreate(r, op[r])
    BY <1>1, <1>3, AttemptCreateInv DEF RetryCreate, IndInv, TypeOK
<1> QED
    BY <1>2, <1>3 DEF RetryCreate

LEMMA StartChangeInv ==
    ASSUME IndInv, NEW r \in Request, StartChange(r)
    PROVE  IndInv'
<1> USE DEF tableVars
<1>1. PICK o \in CancelOp \cup RescheduleOp :
        /\ op' = [op EXCEPT ![r] = o]
        /\ \/ Answer(r, Refusal(o, bookings[o.id]))
           \/ /\ Refusal(o, bookings[o.id]) = "none"
              /\ Goto(r, IF o.kind = "cancel" THEN "write" ELSE "select")
              /\ clock' = [clock EXCEPT ![r] = now]
              /\ loaded' = [loaded EXCEPT ![r] = bookings[o.id]]
              /\ UNCHANGED <<snapshot, held, written>>
    BY DEF StartChange
<1>2. o \in Op /\ o.id \in Booking /\ o.kind \in {"cancel", "reschedule"}
    BY DEF Op, CancelOp, RescheduleOp
<1>3. op' \in [Request -> {NoOp} \cup Op] /\ op'[r] = o
      /\ \A q \in Request \ {r} : op'[q] = op[q]
    BY <1>1, <1>2 DEF IndInv, TypeOK
<1>4. CASE Answer(r, Refusal(o, bookings[o.id]))
  <2>1. Refusal(o, bookings[o.id]) \in Result
      BY DEF Refusal, Result
  <2> QED
      BY <1>2, <1>3, <1>4, <2>1, AnswerInv DEF StartChange, IndInv, TypeOK
<1>5. CASE /\ Refusal(o, bookings[o.id]) = "none"
           /\ Goto(r, IF o.kind = "cancel" THEN "write" ELSE "select")
           /\ clock' = [clock EXCEPT ![r] = now]
           /\ loaded' = [loaded EXCEPT ![r] = bookings[o.id]]
           /\ UNCHANGED <<snapshot, held, written>>
  <2> DEFINE label == IF o.kind = "cancel" THEN "write" ELSE "select"
  <2>1. bookings[o.id] \in Row
    <3>1. bookings[o.id] # Absent
        BY <1>5 DEF Refusal
    <3> QED
        BY <1>2, <3>1 DEF IndInv, TypeOK
  <2>2. held[r] = {}
      BY DEF StartChange, IndInv, LockDiscipline
  <2>3. label \in PC /\ clock' \in [Request -> Nat]
        /\ loaded' \in [Request -> {Absent} \cup Row] /\ loaded'[r] = bookings[o.id]
        /\ \A q \in Request \ {r} : loaded'[q] = loaded[q]
      BY <1>2, <1>5, <2>1 DEF IndInv, TypeOK, PC
  <2>4. bookings' = bookings /\ pc'[r] = label
      BY <1>5 DEF StartChange, Goto, IndInv, TypeOK
  <2>5. RequestTyped(r)'
      BY <1>2, <1>3, <2>1, <2>3, <2>4 DEF RequestTyped
  <2> QED
      BY <1>3, <1>5, <2>2, <2>3, <2>5, GotoInv DEF StartChange, IndInv, TypeOK
<1> QED
    BY <1>1, <1>4, <1>5

LEMMA StartPatchInv ==
    ASSUME IndInv, NEW r \in Request, StartPatch(r)
    PROVE  IndInv'
<1> USE DEF tableVars
<1>1. PICK o \in PatchOp :
        /\ op' = [op EXCEPT ![r] = o]
        /\ \/ Answer(r, "not_found")
           \/ /\ bookings[o.id] # Absent
              /\ Goto(r, "write")
              /\ loaded' = [loaded EXCEPT ![r] = bookings[o.id]]
              /\ UNCHANGED <<clock, snapshot, held, written>>
    BY DEF StartPatch
<1>2. o \in Op /\ o.id \in Booking /\ o.kind = "patch"
    BY DEF Op, PatchOp
<1>3. op' \in [Request -> {NoOp} \cup Op] /\ op'[r] = o
      /\ \A q \in Request \ {r} : op'[q] = op[q]
    BY <1>1, <1>2 DEF IndInv, TypeOK
<1>4. CASE Answer(r, "not_found")
    BY <1>2, <1>3, <1>4, AnswerInv DEF StartPatch, Result, IndInv, TypeOK
<1>5. CASE /\ bookings[o.id] # Absent
           /\ Goto(r, "write")
           /\ loaded' = [loaded EXCEPT ![r] = bookings[o.id]]
           /\ UNCHANGED <<clock, snapshot, held, written>>
  <2>1. bookings[o.id] \in Row
      BY <1>2, <1>5 DEF IndInv, TypeOK
  <2>2. held[r] = {}
      BY DEF StartPatch, IndInv, LockDiscipline
  <2>3. "write" \in PC
        /\ loaded' \in [Request -> {Absent} \cup Row] /\ loaded'[r] = bookings[o.id]
        /\ \A q \in Request \ {r} : loaded'[q] = loaded[q]
      BY <1>5, <2>1 DEF IndInv, TypeOK, PC
  <2>4. bookings' = bookings /\ pc'[r] = "write"
      BY <1>5 DEF StartPatch, Goto, IndInv, TypeOK
  <2>5. RequestTyped(r)'
      BY <1>2, <1>3, <2>1, <2>3, <2>4 DEF RequestTyped
  <2> QED
      BY <1>3, <1>5, <2>2, <2>3, <2>5, GotoInv DEF StartPatch, IndInv, TypeOK
<1> QED
    BY <1>1, <1>4, <1>5

LEMMA SelectOverlappingInv ==
    ASSUME IndInv, NEW r \in Request, SelectOverlapping(r)
    PROVE  IndInv'
<1> USE DEF SelectOverlapping, tableVars
<1>1. held[r] = {}
    BY DEF IndInv, LockDiscipline
<1>2. "lock" \in PC /\ snapshot' \in [Request -> SUBSET Booking]
    BY DEF IndInv, TypeOK, PC
<1>3. RequestTyped(r)'
  <2>1. pc'[r] = "lock" /\ bookings' = bookings /\ op' = op /\ loaded' = loaded
      BY DEF Goto, IndInv, TypeOK
  <2> QED
      BY <2>1 DEF IndInv, RequestsTyped, RequestTyped
<1> QED
    BY <1>1, <1>2, <1>3, GotoInv DEF IndInv, TypeOK

LEMMA LockOverlappingInv ==
    ASSUME IndInv, NEW r \in Request, LockOverlapping(r)
    PROVE  IndInv'
<1> USE DEF tableVars
<1>1. held[r] = {} /\ op[r] \in Op
    BY DEF LockOverlapping, IndInv, LockDiscipline, RequestsTyped, RequestTyped
<1>2. CASE Answer(r, "slot_taken")
    BY <1>1, <1>2, AnswerInv DEF LockOverlapping, Result, IndInv, TypeOK
<1>3. CASE /\ Goto(r, "validate")
           /\ snapshot' = [snapshot EXCEPT ![r] = {}]
           /\ UNCHANGED <<clock, loaded, held, written>>
  <2>1. "validate" \in PC /\ snapshot' \in [Request -> SUBSET Booking]
      BY <1>3 DEF IndInv, TypeOK, PC
  <2>2. pc'[r] = "validate" /\ bookings' = bookings /\ op' = op /\ loaded' = loaded
      BY <1>3 DEF LockOverlapping, Goto, IndInv, TypeOK
  <2>3. RequestTyped(r)'
      BY <2>2 DEF LockOverlapping, IndInv, RequestsTyped, RequestTyped
  <2> QED
      BY <1>1, <1>3, <2>1, <2>3, GotoInv DEF LockOverlapping, IndInv, TypeOK
<1> QED
    BY <1>2, <1>3 DEF LockOverlapping

LEMMA ValidateSlotInv ==
    ASSUME IndInv, NEW r \in Request, ValidateSlot(r)
    PROVE  IndInv'
<1> USE DEF tableVars, sessionVars
<1>1. held[r] = {} /\ op[r] \in Op
    BY DEF ValidateSlot, IndInv, LockDiscipline, RequestsTyped, RequestTyped
<1>2. CASE Answer(r, "outside_hours")
    BY <1>1, <1>2, AnswerInv DEF ValidateSlot, Result, IndInv, TypeOK
<1>3. CASE Goto(r, "write") /\ UNCHANGED sessionVars
  <2>1. pc'[r] = "write" /\ bookings' = bookings /\ op' = op /\ loaded' = loaded
      BY <1>3 DEF ValidateSlot, Goto, IndInv, TypeOK
  <2>2. RequestTyped(r)'
      BY <2>1 DEF ValidateSlot, IndInv, RequestsTyped, RequestTyped
  <2> QED
      BY <1>1, <1>3, <2>2, GotoInv DEF ValidateSlot, IndInv, TypeOK, PC
<1> QED
    BY <1>2, <1>3 DEF ValidateSlot

LEMMA IndexRejectsInv ==
    ASSUME IndInv, NEW r \in Request, IndexRejects(r)
    PROVE  IndInv'
<1> DEFINE answer == IF op[r].kind = "create" THEN "slot_taken" ELSE "error"
<1>1. op[r] \in Op /\ answer \in Result /\ Answer(r, answer)
    BY DEF IndexRejects, IndInv, RequestsTyped, RequestTyped, Result
<1> HIDE DEF answer
<1> QED
    BY <1>1, AnswerInv DEF IndexRejects, IndInv, TypeOK, tableVars

LEMMA RefreshInv ==
    ASSUME IndInv, NEW r \in Request, Refresh(r)
    PROVE  IndInv'
<1> USE DEF tableVars, sessionVars
<1>1. held[r] = {} /\ op[r] \in Op
    BY DEF Refresh, IndInv, LockDiscipline, RequestsTyped, RequestTyped
<1>2. CASE Answer(r, "ok")
    BY <1>1, <1>2, AnswerInv DEF Refresh, Result, IndInv, TypeOK
<1>3. CASE Goto(r, "enqueue") /\ UNCHANGED sessionVars
  <2>1. pc'[r] = "enqueue" /\ op' = op
      BY <1>3 DEF Refresh, Goto, IndInv, TypeOK
  <2>2. RequestTyped(r)'
      BY <2>1 DEF Refresh, IndInv, RequestsTyped, RequestTyped
  <2> QED
      BY <1>1, <1>3, <2>2, GotoInv DEF Refresh, IndInv, TypeOK, PC
<1> QED
    BY <1>2, <1>3 DEF Refresh

LEMMA EnqueueReviewInv ==
    ASSUME IndInv, NEW r \in Request, EnqueueReview(r)
    PROVE  IndInv'
<1> DEFINE answer == IF op[r].id \in reviewRequests /\ RollbackExpires THEN "error" ELSE "ok"
<1>1. op[r] \in Op /\ op[r].id \in Booking
    BY OpKinds DEF EnqueueReview, IndInv, RequestsTyped, RequestTyped
<1>2. reviewRequests' \subseteq Booking
    BY <1>1 DEF EnqueueReview, IndInv, TypeOK
<1>3. answer \in Result /\ Answer(r, answer)
    BY DEF EnqueueReview, Result
<1> HIDE DEF answer
<1> QED
    BY <1>1, <1>2, <1>3, AnswerInv DEF EnqueueReview, IndInv, TypeOK

LEMMA CrashInv ==
    ASSUME IndInv, NEW r \in Request, Crash(r)
    PROVE  IndInv'
<1>1. op[r] \in Op
    BY DEF Crash, IndInv, RequestsTyped, RequestTyped
<1> QED
    BY <1>1, AnswerInv DEF Crash, Result, IndInv, TypeOK, tableVars

LEMMA DeadlockInv ==
    ASSUME IndInv, NEW r \in Request, Deadlock(r)
    PROVE  IndInv'
<1> USE DEF tableVars
<1>1. CASE /\ op[r].kind = "create"
           /\ failures' = [failures EXCEPT ![r] = @ + 1]
           /\ Goto(r, "retry")
           /\ held' = [held EXCEPT ![r] = {}]
           /\ written' = [written EXCEPT ![r] = Absent]
           /\ UNCHANGED <<clock, loaded, snapshot>>
  <2>1. op[r] \in Op
      BY <1>1 DEF IndInv, TypeOK, NoOp
  <2>2. TypeOK'
    <3>1. failures' \in [Request -> Nat] /\ held' \in [Request -> SUBSET Booking]
          /\ written' \in [Request -> {Absent} \cup Row]
        BY <1>1 DEF IndInv, TypeOK
    <3>2. pc' \in [Request -> PC] /\ result' \in [Request -> Result]
        BY <1>1, GotoType DEF IndInv, PC
    <3> QED
        BY <1>1, <3>1, <3>2 DEF Deadlock, IndInv, TypeOK
  <2>3. OthersKept(r) /\ held'[r] = {} /\ pc'[r] = "retry" /\ op' = op
      BY <1>1 DEF Deadlock, Goto, OthersKept, IndInv, TypeOK
  <2>4. RequestTyped(r)'
      BY <1>1, <2>1, <2>3 DEF RequestTyped
  <2> QED
      BY <2>2, <2>3, <2>4, WithoutLock DEF Deadlock
<1>2. CASE Answer(r, "error") /\ UNCHANGED failures
  <2>1. op[r] \in Op
    <3>1. pc[r] # "idle"
        BY DEF Deadlock, Deadlocked, WaitsFor
    <3> QED
        BY <3>1 DEF IndInv, RequestsTyped, RequestTyped
  <2> QED
      BY <1>2, <2>1, AnswerInv DEF Deadlock, Result, IndInv, TypeOK
<1> QED
    BY <1>1, <1>2 DEF Deadlock

-----------------------------------------------------------------------------
(* Actions that take, keep or give up a row.                               *)

LEMMA InsertInv ==
    ASSUME IndInv, NEW r \in Request, Insert(r)
    PROVE  IndInv'
<1> USE DEF tableVars
<1>1. PICK id \in Booking \ HeldByOthers(r) :
        bookings[id] = Absent /\ held' = [held EXCEPT ![r] = {id}]
    BY DEF Insert
<1>2. op[r] \in Op /\ op[r] \in CreateOp /\ op[r].kind = "create"
    BY OpKinds DEF Insert, IndInv, RequestsTyped, RequestTyped
<1>3. NewRow(op[r]) \in Row /\ IsActive(NewRow(op[r]))
    BY <1>2, NewRowType
<1>4. /\ held'[r] = {id} /\ written'[r] = NewRow(op[r]) /\ pc'[r] = "unique"
      /\ bookings' = bookings /\ op' = op /\ loaded' = loaded
      /\ OthersKept(r)
    BY <1>1 DEF Insert, Goto, OthersKept, IndInv, TypeOK
<1>5. TypeOK'
  <2>1. pc' \in [Request -> PC] /\ result' \in [Request -> Result]
      BY GotoType DEF Insert, IndInv, PC
  <2>2. held' \in [Request -> SUBSET Booking] /\ written' \in [Request -> {Absent} \cup Row]
      BY <1>1, <1>3 DEF Insert, IndInv, TypeOK
  <2> QED
      BY <2>1, <2>2 DEF Insert, IndInv, TypeOK
<1>6. LockDiscipline'
  <2>1. \A q \in Request \ {r} : id \notin held[q]
      BY <1>1 DEF HeldByOthers, Others
  <2> QED
      BY <1>4, <2>1 DEF LockDiscipline, IndInv, OthersKept
<1>7. RequestsTyped'
    BY <1>2, <1>4 DEF IndInv, RequestsTyped, RequestTyped, OthersKept
<1>8. WrittenDerived'
  <2> SUFFICES ASSUME NEW q \in Request, NEW x \in held'[q]
               PROVE  written'[q] \in Row /\ Derived(q, x)'
      BY DEF WrittenDerived
  <2>1. CASE q = r
      BY <1>1, <1>2, <1>3, <1>4, <2>1 DEF Derived
  <2>2. CASE q # r
    <3>1. x \in held[q] /\ written'[q] = written[q]
        BY <1>4, <2>2 DEF OthersKept
    <3>2. written[q] \in Row /\ Derived(q, x)
        BY <3>1 DEF IndInv, WrittenDerived
    <3> QED
        BY <1>4, <3>1, <3>2 DEF Derived
  <2> QED
      BY <2>1, <2>2
<1>9. CheckedIsClear' /\ CheckedApart' /\ NoOverlap'
  <2>1. CheckedIsClear'
      BY <1>4 DEF IndInv, CheckedIsClear, Checked, OthersKept
  <2>2. CheckedApart'
      BY <1>4 DEF IndInv, CheckedApart, Checked, OthersKept
  <2>3. NoOverlap'
      BY <1>4 DEF IndInv, NoOverlap
  <2> QED
      BY <2>1, <2>2, <2>3
<1> QED
    BY <1>5, <1>6, <1>7, <1>8, <1>9 DEF IndInv

(* What an UPDATE makes of the committed row. *)
LEMMA UpdatedDerived ==
    ASSUME IndInv, NEW r \in Request, pc[r] = "write", op[r].kind # "create"
    PROVE  LET id == op[r].id
               row == Updated(r, bookings[id])
           IN  /\ id \in Booking
               /\ bookings[id] \in Row
               /\ row \in Row
               /\ op[r].kind = "reschedule" =>
                     row = [bookings[id] EXCEPT !.start = row.start, !.end = row.end]
               /\ op[r].kind # "reschedule" =>
                     /\ row.status \in ClosedStatus
                     /\ row = [bookings[id] EXCEPT !.status = row.status]
<1>1. op[r] \in Op /\ op[r].id \in Booking
      /\ bookings[op[r].id] \in Row /\ loaded[r] \in Row
    BY OpKinds DEF IndInv, RequestsTyped, RequestTyped
<1> DEFINE current == bookings[op[r].id]
           row == Updated(r, current)
<1>2. CASE op[r].kind = "cancel"
  <2>1. row = [current EXCEPT !.status = IF op[r].role = "privileged"
                                         THEN "cancelled_by_admin"
                                         ELSE "cancelled_by_client"]
      BY <1>2 DEF Updated
  <2> QED
      BY <1>1, <1>2, <2>1 DEF Row, ClosedStatus
<1>3. CASE op[r].kind = "patch"
  <2>1. row = [current EXCEPT !.status = op[r].status]
      BY <1>3 DEF Updated
  <2>2. op[r].status \in ClosedStatus
      BY <1>1, <1>3, OpKinds DEF PatchOp, ClosedStatus
  <2> QED
      BY <1>1, <1>3, <2>1, <2>2 DEF Row, ClosedStatus
<1>4. CASE op[r].kind = "reschedule"
  <2>1. Wanted(r).start \in Int /\ Wanted(r).end \in Int
    <3>1. op[r].start \in Int /\ loaded[r].service \in Service
        BY <1>1, <1>4, OpKinds DEF Row
    <3>2. Duration[loaded[r].service] \in Int
        BY <3>1, BookingsAssumption
    <3> QED
        BY <1>1, <1>4, <3>1, <3>2 DEF Wanted, Row
  <2>2. PICK s \in Int, e \in Int : row = [current EXCEPT !.start = s, !.end = e]
    <3> DEFINE s == IF Wanted(r).start = loaded[r].start THEN current.start ELSE Wanted(r).start
               e == IF Wanted(r).end = loaded[r].end THEN current.end ELSE Wanted(r).end
    <3>1. s \in Int /\ e \in Int
        BY <1>1, <2>1 DEF Row
    <3>2. row = [current EXCEPT !.start = s, !.end = e]
        BY <1>1, <1>4 DEF Updated, Row
    <3> QED
        BY <3>1, <3>2
  <2> QED
      BY <1>1, <1>4, <2>2 DEF Row
<1> QED
    BY <1>1, <1>2, <1>3, <1>4, OpKinds

LEMMA UpdateInv ==
    ASSUME IndInv, NEW r \in Request, Update(r)
    PROVE  IndInv'
<1> USE DEF tableVars
<1> DEFINE id == op[r].id
           row == Updated(r, bookings[id])
           label == IF IsActive(row) /\ row # bookings[id] THEN "unique" ELSE "commit"
<1>0. op[r] \in Op /\ held[r] = {} /\ pc[r] = "write" /\ op[r].kind # "create"
    BY DEF Update, IndInv, LockDiscipline, RequestsTyped, RequestTyped
<1>1. CASE Goto(r, "commit") /\ UNCHANGED <<held, written>>
  <2>1. pc'[r] = "commit" /\ op' = op
      BY <1>1 DEF Update, Goto, IndInv, TypeOK
  <2>2. RequestTyped(r)'
      BY <1>0, <2>1 DEF RequestTyped
  <2> QED
      BY <1>0, <1>1, <2>2, GotoInv DEF Update, IndInv, TypeOK, PC
<1>2. CASE /\ WaitsFor(r) = {}
           /\ held' = [held EXCEPT ![r] = {id}]
           /\ written' = [written EXCEPT ![r] = row]
           /\ Goto(r, label)
  <2>1. id \in Booking /\ row \in Row /\ bookings[id] \in Row
      BY <1>0, UpdatedDerived
  <2>2. /\ held'[r] = {id} /\ written'[r] = row /\ pc'[r] = label
        /\ bookings' = bookings /\ op' = op /\ loaded' = loaded
        /\ OthersKept(r)
      BY <1>2 DEF Update, Goto, OthersKept, IndInv, TypeOK
  <2>3. \A q \in Request \ {r} : id \notin held[q]
    <3>1. WaitsFor(r) = {q \in Others(r) : id \in held[q]}
        BY <1>0 DEF WaitsFor
    <3> QED
        BY <1>2, <3>1 DEF Others
  <2>4. TypeOK'
    <3>1. label \in PC
        BY DEF PC
    <3>2. pc' \in [Request -> PC] /\ result' \in [Request -> Result]
        BY <1>2, <3>1, GotoType DEF IndInv
    <3>3. held' \in [Request -> SUBSET Booking] /\ written' \in [Request -> {Absent} \cup Row]
        BY <1>2, <2>1 DEF IndInv, TypeOK
    <3> QED
        BY <3>2, <3>3 DEF Update, IndInv, TypeOK
  <2>5. LockDiscipline'
    <3>1. label \in {"unique", "commit"}
        OBVIOUS
    <3> QED
        BY <2>2, <2>3, <3>1 DEF LockDiscipline, IndInv, OthersKept
  <2>6. RequestsTyped'
    <3>1. label \in {"unique", "commit"}
        OBVIOUS
    <3> QED
        BY <1>0, <2>2, <3>1 DEF IndInv, RequestsTyped, RequestTyped, OthersKept
  <2>7. WrittenDerived'
    <3> SUFFICES ASSUME NEW q \in Request, NEW x \in held'[q]
                 PROVE  written'[q] \in Row /\ Derived(q, x)'
        BY DEF WrittenDerived
    <3>1. CASE q = r
      <4>1. bookings[id] # Absent
          BY <2>1 DEF Row, ActiveStatus, ClosedStatus, Absent
      <4>2. x = id
          BY <2>2, <3>1
      <4>3. op[r].kind = "reschedule" =>
                row = [bookings[id] EXCEPT !.start = row.start, !.end = row.end]
          BY <1>0, UpdatedDerived
      <4>4. op[r].kind # "reschedule" =>
                /\ row.status \in ClosedStatus
                /\ row = [bookings[id] EXCEPT !.status = row.status]
          BY <1>0, UpdatedDerived
      <4> HIDE DEF row, id
      <4> QED
          BY <1>0, <2>1, <2>2, <3>1, <4>1, <4>2, <4>3, <4>4 DEF Derived
    <3>2. CASE q # r
      <4>1. x \in held[q] /\ written'[q] = written[q]
          BY <2>2, <3>2 DEF OthersKept
      <4>2. written[q] \in Row /\ Derived(q, x)
          BY <4>1 DEF IndInv, WrittenDerived
      <4> QED
          BY <2>2, <4>1, <4>2 DEF Derived
    <3> QED
        BY <3>1, <3>2
  <2>8. Checked(r)' => row = bookings[id]
      BY <2>2 DEF Checked
  <2>9. CheckedIsClear'
    <3> SUFFICES ASSUME NEW q \in Request, Checked(q)',
                        NEW x \in Booking \ held'[q], IsActive(bookings[x])
                 PROVE  ~Overlap(bookings[x], written'[q])
        BY <2>2 DEF CheckedIsClear
    <3>1. CASE q = r
      <4>1. written'[r] = bookings[id] /\ IsActive(bookings[id]) /\ x # id
          BY <2>2, <2>8, <3>1 DEF Checked
      <4> QED
          BY <2>1, <3>1, <4>1 DEF IndInv, NoOverlap
    <3>2. CASE q # r
        BY <2>2, <3>2 DEF IndInv, CheckedIsClear, Checked, OthersKept
    <3> QED
        BY <3>1, <3>2
  <2>10. CheckedApart'
    <3>1. ASSUME NEW q \in Request, q # r, Checked(q)', Checked(r)'
          PROVE  ~Overlap(written'[q], written'[r])
      <4>1. written'[r] = bookings[id] /\ IsActive(bookings[id])
          BY <2>2, <2>8, <3>1 DEF Checked
      <4>2. Checked(q) /\ written'[q] = written[q] /\ id \in Booking \ held[q]
          BY <2>1, <2>2, <2>3, <3>1 DEF Checked, OthersKept
      <4>3. ~Overlap(bookings[id], written[q])
          BY <4>1, <4>2 DEF IndInv, CheckedIsClear
      <4> QED
          BY <4>1, <4>2, <4>3, OverlapSymmetric
    <3>2. ASSUME NEW q \in Request, NEW p \in Request, q # r, p # r, p # q,
                 Checked(p)', Checked(q)'
          PROVE  ~Overlap(written'[p], written'[q])
        BY <2>2, <3>2 DEF IndInv, CheckedApart, Checked, OthersKept
    <3> QED
        BY <3>1, <3>2, OverlapSymmetric DEF CheckedApart
  <2>11. NoOverlap'
      BY <2>2 DEF IndInv, NoOverlap
  <2> QED
      BY <2>4, <2>5, <2>6, <2>7, <2>9, <2>10, <2>11 DEF IndInv
<1> QED
    BY <1>1, <1>2 DEF Update

(* The second index makes the version a checked one. *)
LEMMA IndexAcceptsInv ==
    ASSUME IndInv, NEW r \in Request, IndexAccepts(r)
    PROVE  IndInv'
<1> USE DEF tableVars, sessionVars
<1> DEFINE label == IF pc[r] = "unique" THEN "exclude" ELSE "commit"
<1>1. /\ pc'[r] = label /\ bookings' = bookings /\ op' = op /\ loaded' = loaded
      /\ held' = held /\ written' = written /\ OthersKept(r)
    BY DEF IndexAccepts, Goto, OthersKept, IndInv, TypeOK
<1>2. TypeOK'
  <2>1. label \in PC
      BY DEF PC
  <2>2. pc' \in [Request -> PC] /\ result' \in [Request -> Result]
      BY <2>1, GotoType DEF IndexAccepts, IndInv
  <2> QED
      BY <2>2 DEF IndexAccepts, IndInv, TypeOK
<1>3. LockDiscipline'
    BY <1>1 DEF IndInv, LockDiscipline, OthersKept
<1>4. RequestsTyped'
  <2>1. op[r] \in Op
      BY DEF IndexAccepts, IndInv, RequestsTyped, RequestTyped
  <2> QED
      BY <1>1, <2>1 DEF IndInv, RequestsTyped, RequestTyped, OthersKept
<1>5. WrittenDerived'
  <2> SUFFICES ASSUME NEW q \in Request, NEW x \in held'[q]
               PROVE  written'[q] \in Row /\ Derived(q, x)'
      BY DEF WrittenDerived
  <2>1. written[q] \in Row /\ Derived(q, x)
      BY <1>1 DEF IndInv, WrittenDerived
  <2> QED
      BY <1>1, <2>1 DEF Derived
<1>6. Checked(r)' =>
        /\ \A x \in Booking \ held[r] : IsActive(bookings[x]) => ~Overlap(bookings[x], written[r])
        /\ \A q \in Request \ {r} : Checked(q) => ~Overlap(written[q], written[r])
  <2> SUFFICES ASSUME Checked(r)'
               PROVE  /\ \A x \in Booking \ held[r] :
                            IsActive(bookings[x]) => ~Overlap(bookings[x], written[r])
                      /\ \A q \in Request \ {r} : Checked(q) => ~Overlap(written[q], written[r])
      OBVIOUS
  <2>1. pc[r] = "exclude"
      BY <1>1 DEF Checked, IndexAccepts
  <2>2. ASSUME NEW q \in Request \ {r}
        PROVE  /\ \A x \in held[q] : IsActive(bookings[x]) => ~Overlap(bookings[x], written[r])
               /\ Indexed(q) => ~Overlap(written[q], written[r])
      BY <2>1 DEF IndexAccepts, IndexBlockers, Others, Clash
  <2>3. ASSUME NEW x \in Booking \ held[r], IsActive(bookings[x])
        PROVE  ~Overlap(bookings[x], written[r])
    <3>1. CASE x \in HeldByOthers(r)
        BY <2>2, <2>3, <3>1 DEF HeldByOthers, Others
    <3>2. CASE x \notin HeldByOthers(r)
        BY <2>1, <2>3, <3>2 DEF IndexAccepts, Violated, Clash
    <3> QED
        BY <3>1, <3>2
  <2>4. ASSUME NEW q \in Request \ {r}, Checked(q)
        PROVE  ~Overlap(written[q], written[r])
      BY <2>2, <2>4 DEF Checked, Indexed
  <2> QED
      BY <2>3, <2>4
<1>7. CheckedIsClear'
    BY <1>1, <1>6 DEF IndInv, CheckedIsClear, Checked, OthersKept
<1>8. CheckedApart'
  <2>1. ASSUME NEW q \in Request, q # r, Checked(q)', Checked(r)'
        PROVE  ~Overlap(written[q], written[r])
      BY <1>1, <1>6, <2>1 DEF Checked, OthersKept
  <2>2. ASSUME NEW q \in Request, NEW p \in Request, q # r, p # r, p # q,
               Checked(p)', Checked(q)'
        PROVE  ~Overlap(written[p], written[q])
      BY <1>1, <2>2 DEF IndInv, CheckedApart, Checked, OthersKept
  <2> QED
      BY <1>1, <2>1, <2>2, OverlapSymmetric DEF CheckedApart
<1>9. NoOverlap'
    BY <1>1 DEF IndInv, NoOverlap
<1> QED
    BY <1>2, <1>3, <1>4, <1>5, <1>7, <1>8, <1>9 DEF IndInv

(* A commit puts the transaction's one version, if it has one, in place of *)
(* the row it holds.                                                       *)
LEMMA CommitEffect ==
    ASSUME IndInv, NEW r \in Request, Commit(r)
    PROVE  /\ held'[r] = {} /\ pc'[r] \in {"done", "refresh"}
           /\ op' = op
           /\ OthersKept(r)
           /\ pc'[r] = "refresh" => op[r].kind = "patch"
           /\ \/ held[r] = {} /\ bookings' = bookings
              \/ \E id \in Booking :
                    /\ held[r] = {id}
                    /\ bookings' = [bookings EXCEPT ![id] = written[r]]
                    /\ written[r] \in Row
                    /\ Derived(r, id)
<1>1. held'[r] = {} /\ pc'[r] \in {"done", "refresh"} /\ op' = op /\ OthersKept(r)
      /\ (pc'[r] = "refresh" => op[r].kind = "patch")
  <2>1. CASE Answer(r, "ok")
      BY <2>1 DEF Commit, Answer, OthersKept, IndInv, TypeOK
  <2>2. CASE /\ op[r].kind = "patch"
             /\ Goto(r, "refresh")
             /\ held' = [held EXCEPT ![r] = {}]
             /\ written' = [written EXCEPT ![r] = Absent]
             /\ UNCHANGED <<clock, loaded, snapshot>>
      BY <2>2 DEF Commit, Goto, OthersKept, IndInv, TypeOK
  <2> QED
      BY <2>1, <2>2 DEF Commit
<1>2. CASE held[r] = {}
  <2>1. bookings' = bookings
      BY <1>2 DEF Commit, IndInv, TypeOK
  <2> QED
      BY <1>1, <1>2, <2>1
<1>3. CASE held[r] # {}
  <2>1. PICK id \in held[r] : TRUE
      BY <1>3
  <2>2. held[r] = {id} /\ id \in Booking
      BY <2>1 DEF IndInv, LockDiscipline, TypeOK
  <2>3. bookings' = [bookings EXCEPT ![id] = written[r]]
      BY <2>2 DEF Commit, IndInv, TypeOK
  <2>4. written[r] \in Row /\ Derived(r, id)
      BY <2>1 DEF IndInv, WrittenDerived
  <2> QED
      BY <1>1, <2>2, <2>3, <2>4
<1> QED
    BY <1>2, <1>3

LEMMA CommitType ==
    ASSUME IndInv, NEW r \in Request, Commit(r)
    PROVE  TypeOK'
<1>1. op[r] \in Op /\ op[r].kind \in {"create", "cancel", "reschedule", "patch"}
    BY OpKinds DEF Commit, IndInv, RequestsTyped, RequestTyped
<1>2. bookings' \in [Booking -> {Absent} \cup Row]
    BY CommitEffect DEF IndInv, TypeOK
<1>3. reminders' \in [Booking -> SUBSET [kind : {"long", "short"}, at : Int]]
  <2> DEFINE Reminders == SUBSET [kind : {"long", "short"}, at : Int]
  <2>1. PICK optIn \in OptIns : reminders' = [id \in Booking |->
            IF id \in held[r] THEN RemindersAfter(r, id, optIn) ELSE reminders[id]]
      BY DEF Commit
  <2>2. \A id \in Booking : reminders[id] \in Reminders
      BY DEF IndInv, TypeOK
  <2>3. \A id \in Booking : RemindersAfter(r, id, optIn) \in Reminders
    <3> SUFFICES ASSUME NEW id \in Booking
                 PROVE  RemindersAfter(r, id, optIn) \in Reminders
        OBVIOUS
    <3>1. CASE op[r].kind = "cancel"
        BY <3>1 DEF RemindersAfter
    <3>2. CASE op[r].kind = "patch"
        BY <2>2, <3>2 DEF RemindersAfter
    <3>3. CASE op[r].kind \in {"create", "reschedule"}
      <4>1. op[r].start \in Int /\ clock[r] \in Int
          BY <1>1, <3>3, OpKinds DEF IndInv, TypeOK
      <4>2. FreshReminders(op[r].start, clock[r]) \in Reminders
          BY <4>1, FreshRemindersType
      <4> QED
          BY <3>3, <4>2 DEF RemindersAfter
    <3> QED
        BY <1>1, <3>1, <3>2, <3>3
  <2> HIDE DEF Reminders
  <2>4. reminders' \in [Booking -> Reminders]
      BY <2>1, <2>2, <2>3
  <2> QED
      BY <2>4 DEF Reminders
<1>4. CASE Answer(r, "ok")
    BY <1>2, <1>3, <1>4, AnswerType DEF Commit, Result, IndInv, TypeOK
<1>5. CASE /\ op[r].kind = "patch"
           /\ Goto(r, "refresh")
           /\ held' = [held EXCEPT ![r] = {}]
           /\ written' = [written EXCEPT ![r] = Absent]
           /\ UNCHANGED <<clock, loaded, snapshot>>
  <2>1. pc' \in [Request -> PC] /\ result' \in [Request -> Result]
      BY <1>5, GotoType DEF IndInv, PC
  <2>2. held' \in [Request -> SUBSET Booking] /\ written' \in [Request -> {Absent} \cup Row]
      BY <1>5 DEF IndInv, TypeOK
  <2> QED
      BY <1>2, <1>3, <1>5, <2>1, <2>2 DEF Commit, IndInv, TypeOK
<1> QED
    BY <1>4, <1>5 DEF Commit

LEMMA CommitInv ==
    ASSUME IndInv, NEW r \in Request, Commit(r)
    PROVE  IndInv'
<1>1. op[r] \in Op /\ pc[r] = "commit"
    BY DEF Commit, IndInv, RequestsTyped, RequestTyped
<1>2. CASE held[r] = {} /\ bookings' = bookings
  <2>1. RequestTyped(r)'
      BY <1>1, CommitEffect DEF RequestTyped
  <2> QED
      BY <1>2, <2>1, CommitEffect, CommitType, WithoutLock
<1>3. ASSUME NEW id \in Booking,
             held[r] = {id},
             bookings' = [bookings EXCEPT ![id] = written[r]],
             written[r] \in Row
      PROVE  IndInv'
  <2>1. OthersKept(r) /\ op' = op /\ held'[r] = {} /\ pc'[r] \in {"done", "refresh"}
        /\ (pc'[r] = "refresh" => op[r].kind = "patch")
      BY CommitEffect
  <2>2. \A q \in Request \ {r} : id \notin held[q]
      BY <1>3 DEF IndInv, LockDiscipline
  <2>3. /\ bookings'[id] = written[r]
        /\ \A x \in Booking \ {id} : bookings'[x] = bookings[x]
      BY <1>3 DEF IndInv, TypeOK
  <2>4. LockDiscipline'
      BY <2>1 DEF IndInv, LockDiscipline, OthersKept
  <2>5. RequestsTyped'
    <3>1. RequestTyped(r)'
        BY <1>1, <2>1 DEF RequestTyped
    <3>2. ASSUME NEW q \in Request, q # r
          PROVE  RequestTyped(q)'
      <4>1. RequestTyped(q)
          BY DEF IndInv, RequestsTyped
      <4>2. pc'[q] = pc[q] /\ op'[q] = op[q] /\ loaded'[q] = loaded[q]
          BY <2>1, <3>2 DEF OthersKept
      <4>3. bookings[op[q].id] \in Row => bookings'[op[q].id] \in Row
        <5>1. CASE op[q].id \in Booking
            BY <1>3, <2>3, <5>1
        <5>2. CASE op[q].id \notin Booking
            BY <1>3, <5>2 DEF IndInv, TypeOK
        <5> QED
            BY <5>1, <5>2
      <4> QED
          BY <4>1, <4>2, <4>3 DEF RequestTyped
    <3> QED
        BY <3>1, <3>2 DEF RequestsTyped
  <2>6. WrittenDerived'
    <3> SUFFICES ASSUME NEW q \in Request, NEW x \in held'[q]
                 PROVE  written'[q] \in Row /\ Derived(q, x)'
        BY DEF WrittenDerived
    <3>1. q # r /\ x \in held[q] /\ x \in Booking
        BY <2>1 DEF OthersKept, IndInv, TypeOK
    <3>2. written'[q] = written[q] /\ op'[q] = op[q] /\ bookings'[x] = bookings[x]
        BY <2>1, <2>2, <2>3, <3>1 DEF OthersKept
    <3>3. written[q] \in Row /\ Derived(q, x)
        BY <3>1 DEF IndInv, WrittenDerived
    <3> QED
        BY <3>2, <3>3 DEF Derived
  <2>7. CheckedIsClear'
    <3> SUFFICES ASSUME NEW q \in Request, Checked(q)',
                        NEW x \in Booking \ held'[q], IsActive(bookings'[x])
                 PROVE  ~Overlap(bookings'[x], written'[q])
        BY DEF CheckedIsClear
    <3>1. q # r /\ Checked(q) /\ written'[q] = written[q] /\ held'[q] = held[q]
        BY <2>1 DEF Checked, OthersKept
    <3>2. CASE x = id
      <4>1. Checked(r)
          BY <1>1, <1>3, <2>3, <3>2 DEF Checked
      <4> QED
          BY <2>3, <3>1, <3>2, <4>1 DEF IndInv, CheckedApart
    <3>3. CASE x # id
        BY <2>3, <3>1, <3>3 DEF IndInv, CheckedIsClear
    <3> QED
        BY <3>2, <3>3
  <2>8. CheckedApart'
      BY <2>1 DEF IndInv, CheckedApart, Checked, OthersKept
  <2>9. NoOverlap'
    <3>1. ASSUME NEW x \in Booking \ {id}, IsActive(bookings[x]), IsActive(written[r])
          PROVE  ~Overlap(bookings[x], written[r])
      <4>1. Checked(r) /\ x \in Booking \ held[r]
          BY <1>1, <1>3, <3>1 DEF Checked
      <4> QED
          BY <3>1, <4>1 DEF IndInv, CheckedIsClear
    <3>2. ASSUME NEW x \in Booking \ {id}, NEW y \in Booking \ {id}, x # y,
                 IsActive(bookings[x]), IsActive(bookings[y])
          PROVE  ~Overlap(bookings[x], bookings[y])
        BY <3>2 DEF IndInv, NoOverlap
    <3> QED
        BY <2>3, <3>1, <3>2, OverlapSymmetric DEF NoOverlap
  <2> QED
      BY <2>4, <2>5, <2>6, <2>7, <2>8, <2>9, CommitType DEF IndInv
<1> QED
    BY <1>2, <1>3, CommitEffect

-----------------------------------------------------------------------------
LEMMA StutterInv ==
    ASSUME IndInv,
           UNCHANGED <<tableVars, pc, op, sessionVars, failures, result>>,
           now' \in Nat
    PROVE  IndInv'
<1> USE DEF tableVars, sessionVars
<1>1. TypeOK'
    BY DEF IndInv, TypeOK
<1>2. LockDiscipline' /\ RequestsTyped'
    BY DEF IndInv, LockDiscipline, RequestsTyped, RequestTyped
<1>3. WrittenDerived'
  <2> SUFFICES ASSUME NEW q \in Request, NEW x \in held[q]
               PROVE  written[q] \in Row /\ Derived(q, x)'
      BY DEF WrittenDerived
  <2>1. written[q] \in Row /\ Derived(q, x)
      BY DEF IndInv, WrittenDerived
  <2> QED
      BY <2>1 DEF Derived
<1>4. CheckedIsClear' /\ CheckedApart' /\ NoOverlap'
    BY DEF IndInv, CheckedIsClear, CheckedApart, Checked, NoOverlap
<1> QED
    BY <1>1, <1>2, <1>3, <1>4 DEF IndInv

LEMMA NextInv == IndInv /\ [Next]_vars => IndInv'
<1> SUFFICES ASSUME IndInv, [Next]_vars
             PROVE  IndInv'
    OBVIOUS
<1>1. CASE UNCHANGED vars
    BY <1>1, StutterInv DEF vars, IndInv, TypeOK
<1>2. CASE Tick
    BY <1>2, StutterInv DEF Tick, IndInv, TypeOK
<1>3. CASE AllAnswered
    BY <1>3, StutterInv DEF AllAnswered, vars, IndInv, TypeOK
<1>4. ASSUME NEW r \in Request, Start(r)
      PROVE  IndInv'
    BY <1>4, StartCreateInv, StartChangeInv, StartPatchInv DEF Start
<1>5. ASSUME NEW r \in Request, Step(r)
      PROVE  IndInv'
    BY <1>5, SelectOverlappingInv, LockOverlappingInv, ValidateSlotInv, InsertInv, UpdateInv,
       IndexAcceptsInv, IndexRejectsInv, DeadlockInv, RetryCreateInv, CommitInv, RefreshInv,
       EnqueueReviewInv DEF Step
<1>6. ASSUME NEW r \in Request, Crash(r)
      PROVE  IndInv'
    BY <1>6, CrashInv
<1> QED
    BY <1>1, <1>2, <1>3, <1>4, <1>5, <1>6 DEF Next

(* IndInv is an invariant of the booking requests, however many there are  *)
(* and whatever they ask for.                                              *)
THEOREM Inductive == Spec => []IndInv
<1>1. Init => IndInv
    BY InitInv
<1>2. IndInv /\ [Next]_vars => IndInv'
    BY NextInv
<1> QED
    BY <1>1, <1>2, PTL DEF Spec

(* Every variable keeps its type. *)
THEOREM TypeCorrect == Spec => []TypeOK
<1>1. IndInv => TypeOK
    BY DEF IndInv
<1> QED
    BY <1>1, Inductive, PTL

(* No interleaving of create, cancel, reschedule and PATCH requests, of    *)
(* lock waits, deadlock victims, retries and crashes commits two active    *)
(* bookings of one staff member that overlap.                              *)
THEOREM NeverOverlap == Spec => []NoOverlap
<1>1. IndInv => NoOverlap
    BY DEF IndInv
<1> QED
    BY <1>1, Inductive, PTL
=============================================================================
