-------------------------- MODULE NotificationsProofs --------------------------
(***************************************************************************)
(* What is proved of Notifications for every value of its constants: any   *)
(* number of bookings, rows, sessions, retries and faults.  The induction  *)
(* is over IndInv of module NotificationsInvariant: first what a request   *)
(* commits, then the steps of a dispatcher, then the rest.  At the end,    *)
(* that Notifications implements Outbox.                                   *)
(***************************************************************************)
EXTENDS NotificationsInvariant, FiniteSetTheorems, TLAPS

(* Sets of numbers have a least element. *)
LEMMA MinOf ==
    ASSUME NEW S \in SUBSET Nat, S # {}
    PROVE  Min(S) \in S /\ \A y \in S : Min(S) <= y
<1> DEFINE Below(x) == S \cap 0 .. x
           T == {Below(x) : x \in S}
<1>1. \A x \in Nat : IsFiniteSet(Below(x))
    <2>1. \A x \in Nat : IsFiniteSet(0 .. x)
        BY FS_Interval
    <2> QED
        BY <2>1, FS_Subset
<1>2. T \subseteq FiniteSubsetsOf(S) /\ T # {}
    BY <1>1 DEF FiniteSubsetsOf
<1>3. \E U \in T : \A V \in T : <<V, U>> \notin StrictSubsetOrdering(S)
    <2> HIDE DEF T
    <2> QED
        BY <1>2, FS_StrictSubsetOrderingWellFounded, WFMin
<1>4. PICK x \in S : \A y \in S : <<Below(y), Below(x)>> \notin StrictSubsetOrdering(S)
    BY <1>3
<1>5. \A y \in S : x <= y
    <2> SUFFICES ASSUME NEW y \in S, y < x PROVE FALSE
        OBVIOUS
    <2>1. Below(y) \subseteq Below(x) /\ x \in Below(x) /\ x \notin Below(y)
        OBVIOUS
    <2> QED
        BY <1>4, <2>1 DEF StrictSubsetOrdering
<1> QED
    BY <1>5 DEF Min

LEMMA NoRowFacts == NoRow \notin NoteRow /\ NoRow.state = "absent" /\ ~IsPending(NoRow)
BY DEF NoRow, NoteRow, IsPending

LEMMA Committed ==
    ASSUME TypeOK, NEW n \in Note, notes[n] # NoRow
    PROVE  notes[n] \in NoteRow
BY DEF TypeOK

LEMMA Loaded ==
    ASSUME TypeOK, NEW d \in Dispatcher, NEW n \in Note, IsLoaded(d, n)
    PROVE  session[d][n] \in NoteRow
BY DEF TypeOK, IsLoaded

LEMMA TriedFacts ==
    ASSUME TypeOK, NEW d \in Dispatcher
    PROVE  /\ Tried(d) \subseteq Note
           /\ \A n \in Note : n \in Tried(d) <=> IsLoaded(d, n) /\ n \notin todo[d]
BY DEF Tried, IsLoaded

LEMMA WorkerFacts == Worker \in Dispatcher /\ \A r \in Request : r \in Dispatcher /\ r # Worker
BY NotificationsAssumption DEF Dispatcher

LEMMA SessionFacts ==
    /\ \A d \in Dispatcher : d \in Session /\ d \notin Patcher
    /\ \A p \in Patcher : p \in Session
    /\ \A r \in Request \cup Patcher : r \in Session /\ (r \in Dispatcher <=> r \in Request)
BY NotificationsAssumption DEF Dispatcher, Session

-----------------------------------------------------------------------------
(* What a request commits *)

(* Rows of booking b as they are inserted. *)
NewRows(b) == {row \in NoteRow : row.booking = b /\ row.state = "pending" /\ row.retries = 0}
NewReminders(b) == {row \in NewRows(b) : row.kind = "reminder"}

LEMMA NewNoteType ==
    ASSUME NEW b \in Booking, NEW kind \in {"message", "reminder", "review"}, NEW wait \in Int
    PROVE  NewNote(b, kind, wait) \in NewRows(b) /\ NewNote(b, kind, wait).kind = kind
BY DEF NewNote, NewRows, NoteRow

LEMMA FreshRemindersType ==
    ASSUME NEW b \in Booking, NEW in \in StartsIn, NEW optIn \in BOOLEAN
    PROVE  IfWanted(optIn, FreshReminders(b, in)) \in Seq(NewReminders(b))
<1>1. \A w \in Int : Reminder(b, w) \in Seq(NewReminders(b))
    <2>1. \A w \in Int : NewNote(b, "reminder", w) \in NewReminders(b)
        BY NewNoteType DEF NewReminders
    <2> QED
        BY <2>1 DEF Reminder
<1>2. in - LongLead \in Int /\ in - ShortLead \in Int
    BY NotificationsAssumption
<1>3. FreshReminders(b, in) \in Seq(NewReminders(b))
    BY <1>1, <1>2 DEF FreshReminders
<1> QED
    BY <1>3 DEF IfWanted

(* What a commit leaves under each key: nothing, the row that was there,   *)
(* or a new one under a key never used before.                             *)
RowAfter(b, table, rows, n) ==
    \/ notes'[n] = NoRow
    \/ /\ notes'[n] = notes[n] /\ notes[n] # NoRow /\ table[n] = notes[n]
       /\ attempts'[n] = attempts[n] /\ delivered'[n] = delivered[n]
       /\ excused'[n] = excused[n]
    \/ /\ notes'[n] \in NewRows(b) /\ notes[n] = NoRow
       /\ lastId < n /\ n <= lastId'
       /\ \E i \in DOMAIN rows : notes'[n] = rows[i]
       /\ attempts'[n] = 0 /\ delivered'[n] = 0 /\ excused'[n] = 0

LEMMA CommitsRows ==
    ASSUME IndInv, NEW r \in Request \cup Patcher, NEW b \in Booking, NEW new, NEW label,
           NEW table \in {notes, Purged(b)}, NEW rows \in Seq(NewRows(b)),
           Commits(r, b, new, table, rows, label), NEW n \in Note
    PROVE  RowAfter(b, table, rows, n)
<1>1. lastId \in 0 .. MaxNotes /\ MaxNotes \in Nat /\ n \in 1 .. MaxNotes
    BY NotificationsAssumption DEF IndInv, TypeOK, Note
<1>2. Len(rows) \in Nat /\ DOMAIN rows = 1 .. Len(rows)
      /\ \A i \in DOMAIN rows : rows[i] \in NewRows(b)
    OBVIOUS
<1>3. table[n] \in {notes[n], NoRow}
    BY DEF Purged
<1>4. notes'[n] = IF n \in (lastId + 1)..(lastId + Len(rows)) THEN rows[n - lastId] ELSE table[n]
    BY DEF Commits, Inserted
<1>5. /\ attempts'[n] = (IF table[n] = NoRow THEN 0 ELSE attempts[n])
      /\ delivered'[n] = (IF table[n] = NoRow THEN 0 ELSE delivered[n])
      /\ excused'[n] = (IF table[n] = NoRow THEN 0 ELSE excused[n])
      /\ lastId' = lastId + Len(rows)
    BY DEF Commits
<1>6. CASE n \in (lastId + 1)..(lastId + Len(rows))
    <2>1. notes[n] = NoRow /\ table[n] = NoRow
        BY <1>1, <1>3, <1>6 DEF IndInv, KeysAreKept
    <2>2. n - lastId \in DOMAIN rows
        BY <1>1, <1>2, <1>6
    <2> QED
        BY <1>1, <1>2, <1>4, <1>5, <1>6, <2>1, <2>2 DEF RowAfter
<1>7. CASE n \notin (lastId + 1)..(lastId + Len(rows))
    BY <1>3, <1>4, <1>5, <1>7 DEF RowAfter
<1> QED
    BY <1>6, <1>7

LEMMA CommitsType ==
    ASSUME IndInv, NEW r \in Request \cup Patcher, NEW b \in Booking,
           NEW new \in Status, NEW label \in {"select", "idle", "refresh"},
           NEW table \in {notes, Purged(b)}, NEW rows \in Seq(NewRows(b)),
           Commits(r, b, new, table, rows, label)
    PROVE  TypeOK'
<1> USE DEF IndInv, TypeOK, Commits
<1>1. status' \in [Booking -> Status]
    OBVIOUS
<1>2. notes' \in [Note -> {NoRow} \cup NoteRow]
    <2>1. \A n \in Note : notes'[n] \in {NoRow} \cup NoteRow
        BY CommitsRows, Committed DEF NewRows, RowAfter
    <2> QED
        BY <2>1 DEF Inserted
<1>3. lastId' \in 0..MaxNotes
    BY NotificationsAssumption
<1>4. pc' \in [Session -> {"idle", "refresh", "review", "select", "send", "commit"}]
    OBVIOUS
<1>5. target' \in [Request \cup Patcher -> {0} \cup Booking]
    OBVIOUS
<1>6. attempts' \in [Note -> Nat] /\ delivered' \in [Note -> Nat] /\ excused' \in [Note -> Nat]
    OBVIOUS
<1> QED
    BY <1>1, <1>2, <1>3, <1>4, <1>5, <1>6

(* What makes a commit safe: a booking that is over stays so, one that is  *)
(* asked a review for is over, and one whose review has been due is not    *)
(* purged.                                                                 *)
SafeCommit(r, b, new, table, rows, label) ==
    /\ Commits(r, b, new, table, rows, label)
    /\ r \in Request => pc[r] = "idle" /\ label # "refresh"
    /\ table = notes \/ ~ReviewWasDue(b)
    /\ status[b] \in {"none", "active"} \/ new \notin {"none", "active"}
    /\ \A i \in DOMAIN rows : rows[i].kind = "review" => new \notin {"none", "active"}

LEMMA CommitsInv ==
    ASSUME IndInv, NEW r \in Request \cup Patcher, NEW b \in Booking,
           NEW new \in Status, NEW label \in {"select", "idle", "refresh"},
           NEW table \in {notes, Purged(b)}, NEW rows \in Seq(NewRows(b)),
           SafeCommit(r, b, new, table, rows, label)
    PROVE  IndInv'
<1>c. Commits(r, b, new, table, rows, label)
    BY DEF SafeCommit
<1>0. TypeOK /\ TypeOK' /\ Worker \in Dispatcher /\ r # Worker /\ r \in Session
    BY <1>c, CommitsType, WorkerFacts, SessionFacts, NotificationsAssumption DEF IndInv
<1>r. \A n \in Note : RowAfter(b, table, rows, n)
    BY <1>c, CommitsRows
<1>1. /\ session' = session /\ todo' = todo
      /\ \A d \in Session : pc'[d] = IF d = r THEN label ELSE pc[d]
      /\ \A x \in Booking : status'[x] = IF x = b THEN new ELSE status[x]
      /\ \A p \in Request \cup Patcher :
            target'[p] = IF p # r THEN target[p] ELSE IF label = "idle" THEN 0 ELSE b
      /\ lastId' = lastId + Len(rows) /\ Len(rows) \in Nat
    <2>1. \A d \in Session : pc'[d] = IF d = r THEN label ELSE pc[d]
        BY <1>0, <1>c DEF Commits, TypeOK
    <2>2. \A x \in Booking : status'[x] = IF x = b THEN new ELSE status[x]
        BY <1>0, <1>c DEF Commits, TypeOK
    <2>3. \A p \in Request \cup Patcher :
            target'[p] = IF p # r THEN target[p] ELSE IF label = "idle" THEN 0 ELSE b
        BY <1>0, <1>c DEF Commits, TypeOK
    <2> QED
        BY <1>c, <2>1, <2>2, <2>3 DEF Commits
<1>2. Tried(Worker)' = Tried(Worker) /\ \A d \in Dispatcher, n \in Note : (IsLoaded(d, n)' <=> IsLoaded(d, n))
    BY <1>1 DEF Tried, IsLoaded
<1>3. SessionShaped'
    <2>1. ASSUME NEW d \in Dispatcher
          PROVE  /\ pc'[d] \in {"idle", "select"} => todo[d] = {} /\ \A n \in Note : ~IsLoaded(d, n)
                 /\ pc'[d] = "send" => todo[d] # {}
        <3>1. d \in Session /\ (d = r => r \in Request)
            BY SessionFacts
        <3>2. CASE d = r
            BY <1>1, <3>1, <3>2 DEF IndInv, SessionShaped, SafeCommit
        <3>3. CASE d # r
            BY <1>1, <3>1, <3>3 DEF IndInv, SessionShaped
        <3> QED
            BY <3>2, <3>3
    <2>2. pc'[Worker] # "select"
        BY <1>0, <1>1, SessionFacts DEF IndInv, SessionShaped
    <2> QED
        BY <1>0, <1>1, <1>2, <2>1, <2>2 DEF IndInv, SessionShaped, TypeOK
<1>k. lastId \in Nat /\ Note \subseteq Nat
      /\ \A d \in Dispatcher, n \in Note : IsLoaded(d, n) => n <= lastId
    BY <1>0 DEF IndInv, KeysAreKept, TypeOK, Note
<1>4. \A d \in Dispatcher, n \in Note : IsLoaded(d, n) =>
          notes'[n] = NoRow \/ (notes'[n] = notes[n] /\ notes[n] # NoRow)
    <2>1. SUFFICES ASSUME NEW d \in Dispatcher, NEW n \in Note, IsLoaded(d, n)
                   PROVE  notes'[n] = NoRow \/ (notes'[n] = notes[n] /\ notes[n] # NoRow)
        OBVIOUS
    <2>2. ~(lastId < n)
        BY <1>k, <2>1
    <2>3. RowAfter(b, table, rows, n)
        BY <1>r
    <2> QED
        BY <2>2, <2>3 DEF RowAfter
<1>5. KeysAreKept'
    <2>1. \A n \in Note : notes'[n] # NoRow => n <= lastId'
        <3>1. SUFFICES ASSUME NEW n \in Note, notes'[n] # NoRow PROVE n <= lastId'
            OBVIOUS
        <3>2. RowAfter(b, table, rows, n)
            BY <1>r
        <3>3. notes[n] # NoRow => n <= lastId
            BY DEF IndInv, KeysAreKept
        <3>4. lastId <= lastId'
            BY <1>1, <1>k
        <3> QED
            BY <1>1, <1>k, <3>1, <3>2, <3>3, <3>4 DEF RowAfter
    <2>2. ASSUME NEW d \in Dispatcher, NEW n \in Note, IsLoaded(d, n)
          PROVE  /\ n <= lastId'
                 /\ notes'[n] # NoRow => /\ notes'[n].booking = session'[d][n].booking
                                         /\ notes'[n].kind = session'[d][n].kind
        BY <1>0, <1>1, <1>4, <2>2 DEF IndInv, KeysAreKept, TypeOK, Note
    <2> QED
        BY <1>2, <2>1, <2>2 DEF KeysAreKept
<1>6. WorkerAlone'
    BY <1>0, <1>1, <1>2, <1>4 DEF IndInv, WorkerAlone
<1>7. OneBookingInHand'
    <2>1. pc'[Worker] = pc[Worker]
        BY <1>0, <1>1, SessionFacts
    <2> QED
        BY <1>1, <1>2, <2>1 DEF IndInv, OneBookingInHand
<1>l. \A n \in Note : IsLoaded(Worker, n) /\ session[Worker][n].kind = "review" => notes'[n] = notes[n]
    <2> SUFFICES ASSUME NEW n \in Note, IsLoaded(Worker, n), session[Worker][n].kind = "review"
                 PROVE  notes'[n] = notes[n]
        OBVIOUS
    <2>1. notes[n] # NoRow /\ notes[n].kind = "review" /\ n <= lastId
        BY <1>0 DEF IndInv, ReviewsComeLate, KeysAreKept
    <2>2. table[n] = notes[n]
        BY <2>1 DEF Purged
    <2>3. n \notin (lastId + 1)..(lastId + Len(rows))
        BY <1>1, <1>k, <2>1
    <2> QED
        BY <1>c, <2>2, <2>3 DEF Commits, Inserted
<1>o. \A x \in Booking : status[x] \notin {"none", "active"} => status'[x] \notin {"none", "active"}
    BY <1>1 DEF SafeCommit
<1>v. ReviewsComeLate'
    <2>1. ASSUME NEW n \in Note, notes'[n] # NoRow, notes'[n].kind = "review"
          PROVE  status'[notes'[n].booking] \notin {"none", "active"}
        <3>1. CASE notes'[n] = notes[n] /\ notes[n] # NoRow
            <4>1. notes[n].booking \in Booking
                BY <1>0, <3>1, Committed DEF NoteRow
            <4> QED
                BY <1>o, <2>1, <3>1, <4>1 DEF IndInv, ReviewsComeLate
        <3>2. CASE notes'[n] \in NewRows(b) /\ \E i \in DOMAIN rows : notes'[n] = rows[i]
            BY <1>0, <1>1, <2>1, <3>2 DEF NewRows, SafeCommit
        <3>3. RowAfter(b, table, rows, n)
            BY <1>r
        <3> QED
            BY <2>1, <3>1, <3>2, <3>3 DEF RowAfter
    <2>2. ASSUME NEW p \in Patcher
          PROVE  /\ pc'[p] # "idle" => target'[p] \in Booking
                 /\ pc'[p] = "review" => status'[target'[p]] \notin {"none", "active"}
        <3>1. pc'[p] = (IF p = r THEN label ELSE pc[p])
              /\ target'[p] = IF p # r THEN target[p] ELSE IF label = "idle" THEN 0 ELSE b
            BY <1>1, SessionFacts
        <3>2. CASE p = r
            BY <3>1, <3>2
        <3>3. CASE p # r
            BY <1>o, <3>1, <3>3 DEF IndInv, ReviewsComeLate
        <3> QED
            BY <3>2, <3>3
    <2>3. \A n \in Note : IsLoaded(Worker, n)' /\ session'[Worker][n].kind = "review" =>
            notes'[n] # NoRow /\ notes'[n].wait = 0
        BY <1>0, <1>1, <1>2, <1>l DEF IndInv, ReviewsComeLate
    <2> QED
        BY <2>1, <2>2, <2>3 DEF ReviewsComeLate
<1>8. PurgedTogether'
    <2>3. ASSUME NEW m \in Note, NEW n \in Note, IsLoaded(Worker, m), IsLoaded(Worker, n),
                 session[Worker][m].booking = session[Worker][n].booking, notes'[m] = NoRow
          PROVE  notes'[n] = NoRow
        <3>0. SUFFICES ASSUME notes'[n] # NoRow PROVE FALSE
            OBVIOUS
        <3>1. notes'[n] = notes[n] /\ notes[n] # NoRow /\ table[n] = notes[n]
            BY <1>0, <1>4, <2>3, <3>0, <1>r DEF RowAfter
        <3>2. notes[m] # NoRow
            BY <2>3, <3>1 DEF IndInv, PurgedTogether
        <3>3. m <= lastId /\ notes'[m] = table[m] /\ table[m] # notes[m]
            <4>1. m <= lastId /\ m \in Nat /\ lastId \in Nat
                BY <1>0, <2>3 DEF IndInv, KeysAreKept, TypeOK, Note
            <4>2. m \notin (lastId + 1)..(lastId + Len(rows))
                BY <4>1
            <4> QED
                BY <1>c, <2>3, <3>2, <4>1, <4>2 DEF Commits, Inserted
        <3>4. table = Purged(b) /\ notes[m].booking = b
            BY <3>3 DEF Purged
        <3>5. notes[n].booking = b
            BY <1>0, <2>3, <3>1, <3>2, <3>4 DEF IndInv, KeysAreKept
        <3>6. IsPending(notes[n]) /\ notes[n].kind # "reminder"
            BY <1>0, <2>3, <3>1, <3>4, <3>5, NoRowFacts DEF IndInv, WorkerAlone, Purged
        <3>7. notes[n].kind = "review"
            <4>1. notes[n].kind = session[Worker][n].kind /\ IsScheduled(session[Worker][n])
                BY <1>0, <2>3, <3>1 DEF IndInv, KeysAreKept, SessionShaped
            <4> QED
                BY <3>6, <4>1 DEF IsScheduled
        <3>8. session[Worker][n].kind = "review"
            BY <1>0, <2>3, <3>1, <3>7 DEF IndInv, KeysAreKept
        <3>9. notes[n].wait = 0
            BY <2>3, <3>8 DEF IndInv, ReviewsComeLate
        <3>10. ReviewWasDue(b)
            BY <3>1, <3>5, <3>7, <3>9 DEF ReviewWasDue
        <3>11. table # notes
            BY <3>3
        <3> QED
            BY <3>10, <3>11 DEF SafeCommit
    <2> QED
        BY <1>0, <1>1, <1>2, <2>3 DEF PurgedTogether
<1>9. AllAccounted'
    <2> SUFFICES ASSUME NEW n \in Note, notes'[n] # NoRow, IsScheduled(notes'[n])
                 PROVE  (IF n \in Tried(Worker) THEN Ahead(n) ELSE Accounts(notes[n], n))'
        BY DEF AllAccounted
    <2>1. CASE /\ notes'[n] = notes[n] /\ notes[n] # NoRow
               /\ attempts'[n] = attempts[n] /\ delivered'[n] = delivered[n]
               /\ excused'[n] = excused[n]
        <3>1. IF n \in Tried(Worker) THEN Ahead(n) ELSE Accounts(notes[n], n)
            BY <2>1 DEF IndInv, AllAccounted
        <3> QED
            BY <1>1, <1>2, <2>1, <3>1 DEF Ahead, Accounts
    <2>2. CASE /\ notes'[n] \in NewRows(b) /\ lastId < n
               /\ attempts'[n] = 0 /\ delivered'[n] = 0 /\ excused'[n] = 0
        <3>1. n \notin Tried(Worker)
            BY <1>0, <2>2, TriedFacts DEF IndInv, KeysAreKept, TypeOK, Note
        <3>2. Accounts(notes[n], n)'
            BY <2>2, NotificationsAssumption DEF Accounts, NewRows
        <3> QED
            BY <1>2, <3>1, <3>2
    <2> QED
        BY <2>1, <2>2, <1>r DEF RowAfter
<1> QED
    BY <1>0, <1>3, <1>5, <1>6, <1>7, <1>v, <1>8, <1>9 DEF IndInv

(* The commits that the requests make, one lemma each. *)
LEMMA MessageType ==
    ASSUME NEW b \in Booking
    PROVE  /\ <<NewNote(b, "message", 0)>> \in Seq({row \in NewRows(b) : row.kind = "message"})
           /\ <<NewNote(b, "review", ReviewDelay)>> \in Seq({row \in NewRows(b) : row.kind = "review"})
<1>1. ReviewDelay \in Int
    BY NotificationsAssumption
<1>2. \A kind \in {"message", "review"} : \A wait \in Int :
        NewNote(b, kind, wait) \in NewRows(b) /\ NewNote(b, kind, wait).kind = kind
    BY NewNoteType
<1> QED
    BY <1>1, <1>2

LEMMA Created ==
    ASSUME IndInv, NEW r \in Request, Create(r)
    PROVE  \E b \in Booking : \E rows \in Seq(NewRows(b)) :
              /\ status[b] = "none" /\ SafeCommit(r, b, "active", notes, rows, "select")
              /\ \A i \in DOMAIN rows : rows[i].kind \in {"message", "reminder"}
<1>1. PICK b \in Booking, in \in StartsIn, optIn \in OptIns :
        /\ status[b] = "none" /\ pc[r] = "idle"
        /\ Commits(r, b, "active", notes,
                   <<NewNote(b, "message", 0)>> \o IfWanted(optIn, FreshReminders(b, in)),
                   "select")
    BY DEF Create
<1> DEFINE fresh == IfWanted(optIn, FreshReminders(b, in))
           rows == <<NewNote(b, "message", 0)>> \o fresh
<1>2. fresh \in Seq(NewReminders(b))
    BY FreshRemindersType, NotificationsAssumption
<1>3. rows \in Seq({row \in NewRows(b) : row.kind \in {"message", "reminder"}})
    <2> HIDE DEF fresh
    <2> QED
        BY <1>2, MessageType DEF NewReminders
<1>4. Commits(r, b, "active", notes, rows, "select")
    BY <1>1
<1> HIDE DEF rows
<1>5. rows \in Seq(NewRows(b)) /\ \A i \in DOMAIN rows : rows[i].kind \in {"message", "reminder"}
    BY <1>3
<1>6. SafeCommit(r, b, "active", notes, rows, "select")
    BY <1>1, <1>4, <1>5 DEF SafeCommit
<1> QED
    BY <1>1, <1>5, <1>6

LEMMA Cancelled ==
    ASSUME IndInv, NEW r \in Request, Cancel(r)
    PROVE  \E b \in Booking : \E rows \in Seq(NewRows(b)) :
              /\ status[b] # "none" /\ SafeCommit(r, b, "cancelled", Purged(b), rows, "select")
              /\ \A i \in DOMAIN rows : rows[i].kind = "message"
<1>1. PICK b \in Booking :
        /\ ReadActive(b) /\ pc[r] = "idle"
        /\ Commits(r, b, "cancelled", Purged(b), <<NewNote(b, "message", 0)>>, "select")
    BY DEF Cancel
<1> DEFINE rows == <<NewNote(b, "message", 0)>>
<1>2. rows \in Seq({row \in NewRows(b) : row.kind = "message"})
    BY MessageType
<1>3. Commits(r, b, "cancelled", Purged(b), rows, "select")
    BY <1>1
<1> HIDE DEF rows
<1>4. rows \in Seq(NewRows(b)) /\ \A i \in DOMAIN rows : rows[i].kind = "message"
    BY <1>2
<1>5. SafeCommit(r, b, "cancelled", Purged(b), rows, "select")
    BY <1>1, <1>3, <1>4 DEF SafeCommit, ReadActive
<1> QED
    BY <1>1, <1>4, <1>5 DEF ReadActive

LEMMA Moved ==
    ASSUME IndInv, NEW r \in Request, Reschedule(r)
    PROVE  \E b \in Booking : \E rows \in Seq(NewRows(b)) :
              /\ status[b] # "none" /\ SafeCommit(r, b, status[b], Purged(b), rows, "select")
              /\ \A i \in DOMAIN rows : rows[i].kind \in {"message", "reminder"}
<1>1. PICK b \in Booking, in \in StartsIn, optIn \in OptIns :
        /\ ReadActive(b) /\ pc[r] = "idle"
        /\ Commits(r, b, status[b], Purged(b),
                   IfWanted(optIn, FreshReminders(b, in)) \o <<NewNote(b, "message", 0)>>,
                   "select")
    BY DEF Reschedule
<1> DEFINE fresh == IfWanted(optIn, FreshReminders(b, in))
           rows == fresh \o <<NewNote(b, "message", 0)>>
<1>2. fresh \in Seq(NewReminders(b))
    BY FreshRemindersType, NotificationsAssumption
<1>3. rows \in Seq({row \in NewRows(b) : row.kind \in {"message", "reminder"}})
    <2> HIDE DEF fresh
    <2> QED
        BY <1>2, MessageType DEF NewReminders
<1>4. Commits(r, b, status[b], Purged(b), rows, "select")
    BY <1>1
<1> HIDE DEF rows
<1>5. rows \in Seq(NewRows(b)) /\ \A i \in DOMAIN rows : rows[i].kind \in {"message", "reminder"}
    BY <1>3
<1>6. SafeCommit(r, b, status[b], Purged(b), rows, "select")
    BY <1>1, <1>4, <1>5 DEF SafeCommit, ReadActive
<1> QED
    BY <1>1, <1>5, <1>6 DEF ReadActive

LEMMA Marked ==
    ASSUME IndInv, NEW p \in Patcher, Patch(p)
    PROVE  \E b \in Booking : \E new \in {"completed", "noshow", status[b]}, label \in {"idle", "refresh"} :
              status[b] # "none" /\ SafeCommit(p, b, new, notes, <<>>, label)
<1>1. PICK b \in Patched : status[b] # "none" /\ \E read \in {"active", status[b]} :
        \E new \in {"completed", "noshow", read} :
            Commits(p, b, IF new = read THEN status[b] ELSE new, notes, <<>>,
                    IF read = "completed" THEN "idle" ELSE "refresh")
    BY DEF Patch
<1>2. PICK read \in {"active", status[b]} : \E new \in {"completed", "noshow", read} :
        Commits(p, b, IF new = read THEN status[b] ELSE new, notes, <<>>,
                IF read = "completed" THEN "idle" ELSE "refresh")
    BY <1>1
<1>a. PICK asked \in {"completed", "noshow", read} :
        Commits(p, b, IF asked = read THEN status[b] ELSE asked, notes, <<>>,
                IF read = "completed" THEN "idle" ELSE "refresh")
    BY <1>2
<1> DEFINE new == IF asked = read THEN status[b] ELSE asked
           label == IF read = "completed" THEN "idle" ELSE "refresh"
<1>3. Commits(p, b, new, notes, <<>>, label)
    BY <1>a
<1>4. new \in {"completed", "noshow", status[b]} /\ label \in {"idle", "refresh"} /\ b \in Booking
    BY NotificationsAssumption
<1> HIDE DEF new, label
<1>5. SafeCommit(p, b, new, notes, <<>>, label)
    BY <1>3, <1>4, NotificationsAssumption DEF SafeCommit
<1> QED
    BY <1>1, <1>4, <1>5

LEMMA Asked ==
    ASSUME IndInv, NEW p \in Patcher, EnqueueReview(p)
    PROVE  \E b \in Booking : \E rows \in Seq(NewRows(b)) :
              /\ status[b] \notin {"none", "active"}
              /\ SafeCommit(p, b, status[b], notes, rows, "idle")
              /\ \A i \in DOMAIN rows : rows[i].kind = "review"
              /\ rows = <<>> \/ (Len(rows) = 1 /\ ~HasReview(b))
<1> DEFINE b == target[p]
<1>1. b \in Booking /\ status[b] \notin {"none", "active"}
    BY DEF EnqueueReview, IndInv, ReviewsComeLate
<1>2. PICK optIn \in OptIns :
        Commits(p, b, status[b], notes,
                IfWanted(optIn /\ ~HasReview(b), <<NewNote(b, "review", ReviewDelay)>>), "idle")
    BY DEF EnqueueReview
<1> DEFINE rows == IfWanted(optIn /\ ~HasReview(b), <<NewNote(b, "review", ReviewDelay)>>)
<1> HIDE DEF b
<1>3. rows \in Seq({row \in NewRows(b) : row.kind = "review"})
    <2>1. /\ <<NewNote(b, "review", ReviewDelay)>> \in Seq({row \in NewRows(b) : row.kind = "review"})
          /\ <<>> \in Seq({row \in NewRows(b) : row.kind = "review"})
        BY <1>1, MessageType
    <2> QED
        BY <2>1 DEF IfWanted
<1>4. rows = <<>> \/ (Len(rows) = 1 /\ ~HasReview(b))
    BY DEF IfWanted
<1>5. Commits(p, b, status[b], notes, rows, "idle")
    BY <1>2
<1> HIDE DEF rows
<1>6. rows \in Seq(NewRows(b)) /\ \A i \in DOMAIN rows : rows[i].kind = "review"
    BY <1>3
<1>7. SafeCommit(p, b, status[b], notes, rows, "idle")
    BY <1>1, <1>5, <1>6, NotificationsAssumption DEF SafeCommit
<1> QED
    BY <1>1, <1>4, <1>6, <1>7

LEMMA RequestInv ==
    ASSUME IndInv, NEW r \in Request, Create(r) \/ Cancel(r) \/ Reschedule(r)
    PROVE  IndInv'
<1>0. \A b \in Booking : status[b] \in Status
    BY DEF IndInv, TypeOK
<1>1. CASE Create(r)
    BY <1>1, Created, CommitsInv DEF Status
<1>2. CASE Cancel(r)
    BY <1>2, Cancelled, CommitsInv DEF Status
<1>3. CASE Reschedule(r)
    BY <1>0, <1>3, Moved, CommitsInv
<1> QED
    BY <1>1, <1>2, <1>3

LEMMA PatchInv ==
    ASSUME IndInv, NEW p \in Patcher, Patch(p) \/ EnqueueReview(p)
    PROVE  IndInv'
<1>0. \A b \in Booking : status[b] \in Status
    BY DEF IndInv, TypeOK
<1>1. CASE Patch(p)
    <2>0. PICK b \in Booking : \E new \in {"completed", "noshow", status[b]}, label \in {"idle", "refresh"} :
            SafeCommit(p, b, new, notes, <<>>, label)
        BY <1>1, Marked
    <2>1. PICK new \in {"completed", "noshow", status[b]}, label \in {"idle", "refresh"} :
            SafeCommit(p, b, new, notes, <<>>, label)
        BY <2>0
    <2>2. new \in Status /\ <<>> \in Seq(NewRows(b))
        BY <1>0 DEF Status
    <2> QED
        BY <2>1, <2>2, CommitsInv
<1>2. CASE EnqueueReview(p)
    BY <1>0, <1>2, Asked, CommitsInv
<1> QED
    BY <1>1, <1>2

-----------------------------------------------------------------------------
(* What a dispatcher leaves alone *)

(* Under key n is what was there, or a message that a request has flushed. *)
SameButMessages(n) ==
    \/ notes'[n] = notes[n]
    \/ /\ notes[n] # NoRow /\ notes'[n] # NoRow
       /\ notes[n].kind = "message" /\ notes'[n].kind = "message"

(* The parts of the invariant that are about the worker. *)
WorkerParts ==
    WorkerAlone /\ OneBookingInHand /\ ReviewsComeLate /\ PurgedTogether /\ AllAccounted

(* A session of a PATCH is left alone. *)
PatchersUntouched == \A p \in Patcher : pc'[p] = pc[p] /\ target'[p] = target[p]

(* Steps of a request's dispatch do not concern the worker. *)
LEMMA WorkerUntouched ==
    ASSUME IndInv, status' = status, pc'[Worker] = pc[Worker],
           session'[Worker] = session[Worker], todo'[Worker] = todo[Worker],
           PatchersUntouched,
           \A n \in Note : /\ SameButMessages(n)
                           /\ attempts'[n] = attempts[n] /\ delivered'[n] = delivered[n]
                           /\ excused'[n] = excused[n]
    PROVE  WorkerParts'
<1>1. Tried(Worker)' = Tried(Worker) /\ \A n \in Note : IsLoaded(Worker, n)' <=> IsLoaded(Worker, n)
    BY DEF Tried, IsLoaded
<1>2. \A n \in Note : IsLoaded(Worker, n) => notes'[n] = notes[n]
    BY WorkerFacts DEF IndInv, SessionShaped, KeysAreKept, SameButMessages, IsScheduled
<1>3. WorkerAlone'
    BY <1>1, <1>2 DEF IndInv, WorkerAlone
<1>4. OneBookingInHand'
    BY <1>1 DEF IndInv, OneBookingInHand
<1>v. ReviewsComeLate'
    <2>1. \A n \in Note : notes'[n] # NoRow /\ notes'[n].kind = "review" => notes'[n] = notes[n]
        BY DEF SameButMessages
    <2> QED
        BY <1>1, <1>2, <2>1 DEF IndInv, ReviewsComeLate, PatchersUntouched
<1>5. PurgedTogether'
    BY <1>1, <1>2 DEF IndInv, PurgedTogether
<1>6. AllAccounted'
    <2>1. ASSUME NEW n \in Note, notes'[n] # NoRow, IsScheduled(notes'[n])
          PROVE  (IF n \in Tried(Worker) THEN Ahead(n) ELSE Accounts(notes[n], n))'
        <3>1. notes'[n] = notes[n]
            BY <2>1 DEF SameButMessages, IsScheduled
        <3>2. IF n \in Tried(Worker) THEN Ahead(n) ELSE Accounts(notes[n], n)
            BY <2>1, <3>1 DEF IndInv, AllAccounted
        <3> QED
            BY <1>1, <3>1, <3>2 DEF Ahead, Accounts
    <2> QED
        BY <2>1 DEF AllAccounted
<1> QED
    BY <1>3, <1>4, <1>v, <1>5, <1>6 DEF WorkerParts

(* Under every key is the notification that was there, be it changed. *)
SameNotification(n) ==
    /\ notes'[n] = NoRow <=> notes[n] = NoRow
    /\ notes[n] # NoRow => /\ notes'[n].booking = notes[n].booking
                           /\ notes'[n].kind = notes[n].kind

LEMMA EndsShaped ==
    ASSUME IndInv, NEW d \in Dispatcher, EndsSession(d), lastId' = lastId,
           \A n \in Note : SameNotification(n)
    PROVE  SessionShaped' /\ KeysAreKept'
<1>1. /\ \A c \in Dispatcher : pc'[c] = IF c = d THEN "idle" ELSE pc[c]
      /\ \A c \in Dispatcher : todo'[c] = IF c = d THEN {} ELSE todo[c]
      /\ \A c \in Dispatcher, n \in Note : session'[c][n] = IF c = d THEN NoRow ELSE session[c][n]
    <2>1. \A c \in Dispatcher : pc'[c] = IF c = d THEN "idle" ELSE pc[c]
        BY SessionFacts DEF EndsSession, IndInv, TypeOK
    <2>2. \A c \in Dispatcher : todo'[c] = IF c = d THEN {} ELSE todo[c]
        BY DEF EndsSession, IndInv, TypeOK
    <2>3. \A c \in Dispatcher, n \in Note : session'[c][n] = IF c = d THEN NoRow ELSE session[c][n]
        BY DEF EndsSession, IndInv, TypeOK
    <2> QED
        BY <2>1, <2>2, <2>3
<1>2. \A c \in Dispatcher, n \in Note : IsLoaded(c, n)' <=> c # d /\ IsLoaded(c, n)
    BY <1>1 DEF IsLoaded
<1>3. SessionShaped'
    <2>1. ASSUME NEW c \in Dispatcher
          PROVE  /\ pc'[c] \in {"idle", "select"} => \A n \in Note : ~(IsLoaded(c, n)')
                 /\ pc'[c] = "send" => todo'[c] # {}
                 /\ pc'[c] \in {"idle", "select"} => todo'[c] = {}
                 /\ \A n \in todo'[c] : IsLoaded(c, n)' /\ IsPending(session'[c][n])
        BY <1>1, <1>2 DEF IndInv, SessionShaped, TypeOK
    <2> QED
        BY <1>1, <1>2, <2>1, WorkerFacts DEF IndInv, SessionShaped
<1>4. KeysAreKept'
    BY <1>1, <1>2 DEF IndInv, KeysAreKept, SameNotification
<1> QED
    BY <1>3, <1>4

LEMMA SelectMessagesInv ==
    ASSUME IndInv, NEW r \in Request, SelectMessages(r)
    PROVE  IndInv'
<1> DEFINE found == {n \in Note : /\ IsPending(notes[n]) /\ ~IsScheduled(notes[n])
                                  /\ notes[n].booking = target[r]}
<1>0. TypeOK /\ r \in Dispatcher /\ r # Worker /\ Worker \in Dispatcher
    BY WorkerFacts DEF IndInv
<1>1. /\ \A c \in Dispatcher : pc'[c] = IF c # r THEN pc[c] ELSE IF found = {} THEN "idle" ELSE "send"
      /\ \A c \in Dispatcher : todo'[c] = IF c = r THEN found ELSE todo[c]
      /\ \A c \in Dispatcher, n \in Note :
            session'[c][n] = IF c # r THEN session[c][n] ELSE IF n \in found THEN notes[n] ELSE NoRow
      /\ UNCHANGED <<status, notes, lastId, faults, countVars>>
    <2>1. \A c \in Dispatcher : pc'[c] = IF c # r THEN pc[c] ELSE IF found = {} THEN "idle" ELSE "send"
        BY <1>0, SessionFacts DEF SelectMessages, TypeOK
    <2>2. \A c \in Dispatcher : todo'[c] = IF c = r THEN found ELSE todo[c]
        BY <1>0 DEF SelectMessages, TypeOK
    <2>3. session' = [session EXCEPT ![r] = [n \in Note |-> IF n \in found THEN notes[n] ELSE NoRow]]
        BY DEF SelectMessages
    <2>4. \A c \in Dispatcher, n \in Note :
            session'[c][n] = IF c # r THEN session[c][n] ELSE IF n \in found THEN notes[n] ELSE NoRow
        <3> HIDE DEF found
        <3> QED
            BY <1>0, <2>3 DEF TypeOK
    <2> QED
        BY <2>1, <2>2, <2>4 DEF SelectMessages
<1>2. TypeOK'
    BY <1>0 DEF SelectMessages, TypeOK, countVars
<1>3. \A c \in Dispatcher, n \in Note :
        IsLoaded(c, n)' <=> IF c = r THEN n \in found ELSE IsLoaded(c, n)
    BY <1>1, NoRowFacts DEF IsLoaded
<1>4. SessionShaped'
    <2>1. ASSUME NEW c \in Dispatcher
          PROVE  /\ pc'[c] \in {"idle", "select"} => \A n \in Note : ~(IsLoaded(c, n)')
                 /\ pc'[c] = "send" => todo'[c] # {}
                 /\ pc'[c] \in {"idle", "select"} => todo'[c] = {}
                 /\ \A n \in todo'[c] : IsLoaded(c, n)' /\ IsPending(session'[c][n])
        <3>1. CASE c = r
            <4>1. \A n \in found : n \in Note /\ IsPending(notes[n])
                OBVIOUS
            <4> HIDE DEF found
            <4> QED
                BY <1>0, <1>1, <1>3, <3>1, <4>1
        <3>2. CASE c # r
            <4> HIDE DEF found
            <4> QED
                BY <1>0, <1>1, <1>3, <3>2 DEF IndInv, SessionShaped, TypeOK
        <3> QED
            BY <3>1, <3>2
    <2>2. \A c \in Dispatcher, n \in Note : IsLoaded(c, n)' =>
            (IsScheduled(session'[c][n]) <=> c = Worker)
        BY <1>0, <1>1, <1>3 DEF IndInv, SessionShaped
    <2> QED
        BY <1>0, <1>1, <2>1, <2>2 DEF IndInv, SessionShaped
<1>5. KeysAreKept'
    BY <1>1, <1>3, NoRowFacts DEF IndInv, KeysAreKept
<1>6. session'[Worker] = session[Worker] /\ todo'[Worker] = todo[Worker] /\ pc'[Worker] = pc[Worker]
    BY <1>0, SessionFacts DEF SelectMessages, TypeOK
<1>u. PatchersUntouched
    BY <1>0, SessionFacts DEF SelectMessages, TypeOK, PatchersUntouched
<1>7. WorkerParts'
    BY <1>1, <1>6, <1>u, WorkerUntouched DEF SameButMessages, countVars
<1> QED
    BY <1>2, <1>4, <1>5, <1>7 DEF IndInv, WorkerParts

-----------------------------------------------------------------------------
(* The worker loads a batch *)

LEMMA BatchFacts ==
    ASSUME NEW batch \in kSubset(Min({BatchLimit, Cardinality(Due)}), Due), Due # {}
    PROVE  batch # {} /\ batch \subseteq Due
<1>1. IsFiniteSet(Due)
    <2>1. IsFiniteSet(1 .. MaxNotes)
        BY FS_Interval, NotificationsAssumption
    <2>2. Due \subseteq 1 .. MaxNotes
        BY DEF Due, Note
    <2> QED
        BY <2>1, <2>2, FS_Subset
<1>2. Cardinality(Due) \in Nat \ {0}
    BY <1>1, FS_CardinalityType, FS_EmptySet
<1>3. Min({BatchLimit, Cardinality(Due)}) \in Nat \ {0}
    BY <1>2, MinOf, NotificationsAssumption
<1> QED
    BY <1>3, FS_EmptySet DEF kSubset

LEMMA SelectDueInv ==
    ASSUME IndInv, SelectDue
    PROVE  IndInv'
<1>0. TypeOK /\ Worker \in Dispatcher
    BY WorkerFacts DEF IndInv
<1>1. PICK batch \in kSubset(Min({BatchLimit, Cardinality(Due)}), Due) :
        /\ session' = [session EXCEPT ![Worker] =
                          [n \in Note |-> IF n \in batch THEN notes[n] ELSE NoRow]]
        /\ todo' = [todo EXCEPT ![Worker] = batch]
    BY DEF SelectDue
<1>2. batch # {} /\ batch \subseteq Due
    BY BatchFacts DEF SelectDue
<1>3. \A n \in batch : /\ n \in Note /\ notes[n] # NoRow /\ notes[n] \in NoteRow
                       /\ IsPending(notes[n]) /\ IsScheduled(notes[n])
    BY <1>0, <1>2, Committed, NoRowFacts DEF Due
<1>4. /\ \A c \in Dispatcher : pc'[c] = IF c = Worker THEN "send" ELSE pc[c]
      /\ \A c \in Dispatcher : todo'[c] = IF c = Worker THEN batch ELSE todo[c]
      /\ \A c \in Dispatcher, n \in Note :
            session'[c][n] = IF c # Worker THEN session[c][n] ELSE IF n \in batch THEN notes[n] ELSE NoRow
      /\ UNCHANGED <<status, notes, lastId, target, faults, countVars>>
    <2>1. \A c \in Dispatcher : pc'[c] = IF c = Worker THEN "send" ELSE pc[c]
        BY <1>0, SessionFacts DEF SelectDue, TypeOK
    <2>2. \A c \in Dispatcher : todo'[c] = IF c = Worker THEN batch ELSE todo[c]
        BY <1>0, <1>1 DEF TypeOK
    <2>3. \A c \in Dispatcher, n \in Note :
            session'[c][n] = IF c # Worker THEN session[c][n] ELSE IF n \in batch THEN notes[n] ELSE NoRow
        BY <1>0, <1>1 DEF TypeOK
    <2> QED
        BY <2>1, <2>2, <2>3 DEF SelectDue
<1>5. \A c \in Dispatcher, n \in Note :
        IsLoaded(c, n)' <=> IF c = Worker THEN n \in batch ELSE IsLoaded(c, n)
    BY <1>3, <1>4 DEF IsLoaded
<1>6. Tried(Worker)' = {}
    BY <1>0, <1>4 DEF Tried
<1>7. TypeOK'
    <2>1. batch \in SUBSET Note
        BY <1>3
    <2>2. session' \in [Dispatcher -> [Note -> {NoRow} \cup NoteRow]]
        BY <1>0, <1>1 DEF TypeOK
    <2>3. todo' \in [Dispatcher -> SUBSET Note]
        BY <1>0, <1>1, <2>1 DEF TypeOK
    <2> QED
        BY <1>0, <2>2, <2>3 DEF SelectDue, TypeOK, countVars
<1>8. SessionShaped'
    <2>1. ASSUME NEW c \in Dispatcher
          PROVE  /\ pc'[c] \in {"idle", "select"} => \A n \in Note : ~(IsLoaded(c, n)')
                 /\ pc'[c] = "send" => todo'[c] # {}
                 /\ pc'[c] \in {"idle", "select"} => todo'[c] = {}
                 /\ \A n \in todo'[c] : IsLoaded(c, n)' /\ IsPending(session'[c][n])
        BY <1>0, <1>2, <1>3, <1>4, <1>5 DEF IndInv, SessionShaped, TypeOK
    <2>2. \A c \in Dispatcher, n \in Note : IsLoaded(c, n)' =>
            (IsScheduled(session'[c][n]) <=> c = Worker)
        BY <1>0, <1>3, <1>4, <1>5 DEF IndInv, SessionShaped
    <2> QED
        BY <1>0, <1>4, <2>1, <2>2 DEF SessionShaped
<1>9. KeysAreKept'
    BY <1>3, <1>4, <1>5 DEF IndInv, KeysAreKept
<1>10. WorkerAlone'
    BY <1>0, <1>3, <1>4, <1>5, <1>6 DEF WorkerAlone
<1>11. OneBookingInHand'
    BY <1>6 DEF OneBookingInHand
<1>u. PatchersUntouched
    BY <1>0, SessionFacts DEF SelectDue, TypeOK, PatchersUntouched
<1>v. ReviewsComeLate'
    BY <1>0, <1>2, <1>3, <1>4, <1>5, <1>u DEF Due, IndInv, ReviewsComeLate, PatchersUntouched
<1>12. PurgedTogether'
    BY <1>0, <1>3, <1>4, <1>5 DEF IndInv, PurgedTogether
<1>13. AllAccounted'
    <2>1. ASSUME NEW n \in Note, notes[n] # NoRow, IsScheduled(notes[n])
          PROVE  Accounts(notes[n], n)'
        <3>1. pc[Worker] = "idle"
            BY DEF SelectDue
        <3>2. n \notin Tried(Worker)
            BY <1>0, <3>1, TriedFacts DEF IndInv, SessionShaped
        <3>3. Accounts(notes[n], n)
            BY <2>1, <3>2 DEF IndInv, AllAccounted
        <3> QED
            BY <1>4, <3>3 DEF Accounts, countVars
    <2> QED
        BY <1>4, <1>6, <2>1 DEF AllAccounted
<1> QED
    BY <1>7, <1>8, <1>9, <1>10, <1>11, <1>v, <1>12, <1>13 DEF IndInv

-----------------------------------------------------------------------------
(* A row is sent *)

LEMMA NextNoteFacts ==
    ASSUME IndInv, NEW d \in Dispatcher, pc[d] = "send"
    PROVE  /\ NextNote(d) \in todo[d] /\ NextNote(d) \in Note
           /\ session[d][NextNote(d)] \in NoteRow /\ IsPending(session[d][NextNote(d)])
           /\ \A m \in todo[d] : session[d][NextNote(d)].booking <= session[d][m].booking
<1>1. todo[d] # {} /\ todo[d] \subseteq Note /\ Note \subseteq Nat
      /\ \A n \in todo[d] : session[d][n] \in NoteRow /\ IsPending(session[d][n])
    BY Loaded DEF IndInv, SessionShaped, TypeOK, Note
<1> DEFINE B == {session[d][n].booking : n \in todo[d]}
           first == Min(B)
           N == {n \in todo[d] : session[d][n].booking = first}
<1>2. B # {} /\ B \in SUBSET Nat
    <2>1. \A row \in NoteRow : row.booking \in Nat
        BY NotificationsAssumption DEF NoteRow
    <2>2. \A n \in todo[d] : session[d][n].booking \in Nat
        BY <1>1, <2>1
    <2> QED
        BY <1>1, <2>2
<1>3. first \in B /\ \A y \in B : first <= y
    <2> HIDE DEF B
    <2> QED
        BY <1>2, MinOf
<1>4. N # {} /\ N \in SUBSET Nat
    <2> HIDE DEF first
    <2> QED
        BY <1>1, <1>3
<1>5. Min(N) \in N
    <2> HIDE DEF N
    <2> QED
        BY <1>4, MinOf
<1>6. NextNote(d) = Min(N)
    BY DEF NextNote
<1> HIDE DEF first
<1> QED
    BY <1>1, <1>3, <1>5, <1>6

LEMMA RefusedFacts ==
    ASSUME NEW row \in NoteRow, IsPending(row)
    PROVE  /\ Refused(row) \in NoteRow
           /\ Refused(row).kind = row.kind /\ Refused(row).booking = row.booking
           /\ \/ /\ Refused(row).state = "failed" /\ row.retries + 1 >= MaxRetries
              \/ /\ Refused(row).state = "pending" /\ row.retries + 1 < MaxRetries
                 /\ Refused(row).retries = row.retries + 1
<1>1. row.retries \in Nat /\ MaxRetries \in Nat /\ MaxBackoff \in Int
    BY NotificationsAssumption DEF NoteRow
<1>2. BackoffDelay(row.retries) \in Int
    <2>1. 2^row.retries \in Int
        BY <1>1
    <2>2. \A a, b \in Int : Min({a, b}) \in Int
        BY DEF Min
    <2> QED
        BY <1>1, <2>1, <2>2 DEF BackoffDelay
<1>3. CASE row.retries + 1 >= MaxRetries
    BY <1>3 DEF Refused, NoteRow
<1>4. CASE ~(row.retries + 1 >= MaxRetries)
    <2> DEFINE wait == IF IsScheduled(row) THEN BackoffDelay(row.retries) ELSE 0
    <2>1. wait \in Int
        BY <1>2
    <2> HIDE DEF wait
    <2>2. Refused(row) = [row EXCEPT !.retries = row.retries + 1, !.wait = wait]
        BY <1>4 DEF Refused, wait
    <2>3. Refused(row) \in NoteRow
        <3>1. \A x \in Nat, w \in Int : [row EXCEPT !.retries = x, !.wait = w] \in NoteRow
            BY DEF NoteRow
        <3>2. row.retries + 1 \in Nat
            BY <1>1
        <3> QED
            BY <2>1, <2>2, <3>1, <3>2
    <2>4. Refused(row).kind = row.kind /\ Refused(row).booking = row.booking
          /\ Refused(row).state = row.state /\ Refused(row).retries = row.retries + 1
        BY <2>2 DEF NoteRow
    <2> QED
        BY <1>1, <1>4, <2>3, <2>4 DEF IsPending
<1> QED
    BY <1>3, <1>4

(* What the sending of row n leaves of it and of its counters, which are   *)
(* for scheduled rows that are still there.                                *)
Outcome(d, n, k) ==
    /\ attempts'[n] = attempts[n] + k
    /\ \/ /\ session'[d][n] = [session[d][n] EXCEPT !.state = "sent"]
          /\ delivered'[n] = delivered[n] + k /\ excused'[n] = excused[n]
       \/ /\ session'[d][n] = Refused(session[d][n])
          /\ delivered'[n] = delivered[n] /\ excused'[n] = excused[n]
       \/ /\ session'[d][n] = Refused(session[d][n])
          /\ delivered'[n] = delivered[n] + k /\ excused'[n] = excused[n] + k

Counted(d, n) == IF notes[n] # NoRow /\ IsScheduled(session[d][n]) THEN 1 ELSE 0

(* The sending of row n, key by key. *)
SendEffect(d, n) ==
    /\ UNCHANGED <<status, notes, lastId, target>>
    /\ faults' \in 0 .. MaxFaults
    /\ \A c \in Dispatcher : pc'[c] = IF c # d THEN pc[c]
                                      ELSE IF LastOfBooking(d, n) THEN "commit" ELSE "send"
    /\ PatchersUntouched
    /\ \A c \in Dispatcher : todo'[c] = IF c # d THEN todo[c] ELSE todo[d] \ {n}
    /\ \A c \in Dispatcher, m \in Note : c # d \/ m # n => session'[c][m] = session[c][m]
    /\ \A m \in Note : m # n => /\ attempts'[m] = attempts[m]
                                /\ delivered'[m] = delivered[m]
                                /\ excused'[m] = excused[m]
    /\ Outcome(d, n, Counted(d, n))

LEMMA SendFacts ==
    ASSUME IndInv, NEW d \in Dispatcher, Send(d), NEW n, n = NextNote(d)
    PROVE  SendEffect(d, n) /\ TypeOK'
<1> DEFINE row == session[d][n]
           Count(history) ==
               [history EXCEPT ![n] = IF notes[n] # NoRow /\ IsScheduled(row) THEN @ + 1 ELSE @]
<1>0. TypeOK /\ pc[d] = "send" /\ n \in todo[d] /\ n \in Note /\ row \in NoteRow /\ IsPending(row)
    BY NextNoteFacts DEF IndInv, Send
<1>1. \A history \in [Note -> Nat] :
        /\ Count(history) \in [Note -> Nat]
        /\ Count(history)[n] = history[n] + Counted(d, n)
        /\ \A m \in Note : m # n => Count(history)[m] = history[m]
    BY <1>0 DEF Counted
<1>2. attempts \in [Note -> Nat] /\ delivered \in [Note -> Nat] /\ excused \in [Note -> Nat]
    BY <1>0 DEF TypeOK
<1>3. /\ attempts' = Count(attempts)
      /\ todo' = [todo EXCEPT ![d] = @ \ {n}]
      /\ pc' = [pc EXCEPT ![d] = IF LastOfBooking(d, n) THEN "commit" ELSE "send"]
      /\ UNCHANGED <<status, notes, lastId, target>>
      /\ \/ /\ session' = [session EXCEPT ![d][n] = [row EXCEPT !.state = "sent"]]
            /\ delivered' = Count(delivered)
            /\ UNCHANGED <<faults, excused>>
         \/ /\ session' = [session EXCEPT ![d][n] = Refused(row)]
            /\ UNCHANGED <<faults, delivered, excused>>
         \/ /\ faults < MaxFaults
            /\ faults' = faults + 1
            /\ session' = [session EXCEPT ![d][n] = Refused(row)]
            /\ delivered' = Count(delivered)
            /\ excused' = Count(excused)
    BY DEF Send
<1> HIDE DEF Count
<1>4. PICK after \in {[row EXCEPT !.state = "sent"], Refused(row)} :
        session' = [session EXCEPT ![d][n] = after]
    BY <1>3
<1>5. after \in NoteRow
    <2>1. [row EXCEPT !.state = "sent"] \in NoteRow
        BY <1>0 DEF NoteRow
    <2>2. Refused(row) \in NoteRow
        BY <1>0, RefusedFacts
    <2> QED
        BY <2>1, <2>2
<1>6. /\ session'[d][n] = after
      /\ \A c \in Dispatcher, m \in Note : c # d \/ m # n => session'[c][m] = session[c][m]
      /\ session' \in [Dispatcher -> [Note -> {NoRow} \cup NoteRow]]
    <2> HIDE DEF row
    <2>1. session \in [Dispatcher -> [Note -> {NoRow} \cup NoteRow]]
        BY <1>0 DEF TypeOK
    <2> QED
        BY <1>0, <1>4, <1>5, <2>1
<1>7. faults' \in 0 .. MaxFaults
    BY <1>0, <1>3, NotificationsAssumption DEF TypeOK
<1>8. \A c \in Dispatcher : pc'[c] = IF c # d THEN pc[c]
                                     ELSE IF LastOfBooking(d, n) THEN "commit" ELSE "send"
    BY <1>0, <1>3, SessionFacts DEF TypeOK
<1>u. PatchersUntouched
    BY <1>0, <1>3, SessionFacts DEF TypeOK, PatchersUntouched
<1>9. \A c \in Dispatcher : todo'[c] = IF c # d THEN todo[c] ELSE todo[d] \ {n}
    BY <1>0, <1>3 DEF TypeOK
<1>10. \A m \in Note : m # n => /\ attempts'[m] = attempts[m] /\ delivered'[m] = delivered[m]
                                /\ excused'[m] = excused[m]
    BY <1>1, <1>2, <1>3
<1>11. Outcome(d, n, Counted(d, n))
    <2>1. attempts'[n] = attempts[n] + Counted(d, n)
        BY <1>1, <1>2, <1>3
    <2>2. CASE /\ session' = [session EXCEPT ![d][n] = [row EXCEPT !.state = "sent"]]
               /\ delivered' = Count(delivered)
               /\ UNCHANGED <<faults, excused>>
        <3>1. session'[d][n] = [row EXCEPT !.state = "sent"]
            BY <1>0, <2>2 DEF TypeOK
        <3> QED
            BY <1>1, <1>2, <2>1, <2>2, <3>1 DEF Outcome
    <2>3. CASE /\ session' = [session EXCEPT ![d][n] = Refused(row)]
               /\ UNCHANGED <<faults, delivered, excused>>
        <3>1. session'[d][n] = Refused(row)
            BY <1>0, <2>3 DEF TypeOK
        <3> QED
            BY <2>1, <2>3, <3>1 DEF Outcome
    <2>4. CASE /\ faults' = faults + 1
               /\ session' = [session EXCEPT ![d][n] = Refused(row)]
               /\ delivered' = Count(delivered)
               /\ excused' = Count(excused)
        <3>1. session'[d][n] = Refused(row)
            BY <1>0, <2>4 DEF TypeOK
        <3> QED
            BY <1>1, <1>2, <2>1, <2>4, <3>1 DEF Outcome
    <2> QED
        BY <1>3, <2>2, <2>3, <2>4
<1>12. TypeOK'
    <2>1. attempts' \in [Note -> Nat] /\ delivered' \in [Note -> Nat] /\ excused' \in [Note -> Nat]
        BY <1>1, <1>2, <1>3
    <2>2. pc' \in [Session -> {"idle", "refresh", "review", "select", "send", "commit"}]
        BY <1>0, <1>3 DEF TypeOK
    <2>3. todo' \in [Dispatcher -> SUBSET Note]
        BY <1>0, <1>3 DEF TypeOK
    <2> QED
        BY <1>0, <1>3, <1>6, <1>7, <2>1, <2>2, <2>3 DEF TypeOK
<1> QED
    BY <1>3, <1>6, <1>7, <1>8, <1>u, <1>9, <1>10, <1>11, <1>12 DEF SendEffect

LEMMA SendShaped ==
    ASSUME IndInv, NEW d \in Dispatcher, Send(d), NEW n, n = NextNote(d)
    PROVE  /\ \A c \in Dispatcher, m \in Note : IsLoaded(c, m)' <=> IsLoaded(c, m)
           /\ session'[d][n] \in NoteRow
           /\ session'[d][n].kind = session[d][n].kind
           /\ session'[d][n].booking = session[d][n].booking
           /\ SessionShaped' /\ KeysAreKept'
<1>0. TypeOK /\ n \in todo[d] /\ n \in Note /\ pc[d] = "send"
      /\ session[d][n] \in NoteRow /\ IsPending(session[d][n])
    BY NextNoteFacts DEF IndInv, Send
<1>1. /\ \A c \in Dispatcher : pc'[c] = IF c # d THEN pc[c]
                                        ELSE IF LastOfBooking(d, n) THEN "commit" ELSE "send"
      /\ \A c \in Dispatcher : todo'[c] = IF c # d THEN todo[c] ELSE todo[d] \ {n}
      /\ \A c \in Dispatcher, m \in Note : c # d \/ m # n => session'[c][m] = session[c][m]
      /\ notes' = notes /\ lastId' = lastId
    BY SendFacts DEF SendEffect
<1>2. session'[d][n] \in {[session[d][n] EXCEPT !.state = "sent"], Refused(session[d][n])}
    BY SendFacts DEF SendEffect, Outcome
<1>3. /\ session'[d][n] \in NoteRow /\ session'[d][n].kind = session[d][n].kind
      /\ session'[d][n].booking = session[d][n].booking
    BY <1>0, <1>2, RefusedFacts DEF NoteRow
<1>4. \A c \in Dispatcher, m \in Note : IsLoaded(c, m)' <=> IsLoaded(c, m)
    BY <1>0, <1>1, <1>3, NoRowFacts DEF IsLoaded
<1>5. \A c \in Dispatcher, m \in Note : IsLoaded(c, m) =>
          /\ session'[c][m].kind = session[c][m].kind
          /\ session'[c][m].booking = session[c][m].booking
    BY <1>1, <1>3
<1>6. SessionShaped'
    <2>1. ASSUME NEW c \in Dispatcher
          PROVE  /\ pc'[c] \in {"idle", "select"} => \A m \in Note : ~(IsLoaded(c, m)')
                 /\ pc'[c] = "send" => todo'[c] # {}
                 /\ pc'[c] \in {"idle", "select"} => todo'[c] = {}
        <3>1. CASE c = d
            <4>1. ~LastOfBooking(d, n) => \E m \in todo[d] : m # n
                BY DEF LastOfBooking
            <4> QED
                BY <1>1, <3>1, <4>1
        <3>2. CASE c # d
            BY <1>1, <1>4, <3>2 DEF IndInv, SessionShaped
        <3> QED
            BY <3>1, <3>2
    <2>2. ASSUME NEW c \in Dispatcher, NEW m \in todo'[c]
          PROVE  IsLoaded(c, m)' /\ IsPending(session'[c][m])
        <3>1. m \in todo[c] /\ m \in Note /\ (c # d \/ m # n)
            BY <1>0, <1>1, <2>2 DEF TypeOK
        <3> QED
            BY <1>1, <1>4, <3>1 DEF IndInv, SessionShaped
    <2>3. \A c \in Dispatcher, m \in Note : IsLoaded(c, m)' =>
            (IsScheduled(session'[c][m]) <=> c = Worker)
        BY <1>4, <1>5 DEF IndInv, SessionShaped, IsScheduled
    <2>4. pc'[Worker] # "select"
        BY <1>1, WorkerFacts DEF IndInv, SessionShaped
    <2> QED
        BY <2>1, <2>2, <2>3, <2>4 DEF SessionShaped
<1>7. KeysAreKept'
    BY <1>1, <1>4, <1>5 DEF IndInv, KeysAreKept
<1> QED
    BY <1>3, <1>4, <1>6, <1>7

LEMMA RequestSendInv ==
    ASSUME IndInv, NEW r \in Request, Send(r)
    PROVE  IndInv'
<1> DEFINE n == NextNote(r)
<1> HIDE DEF n
<1>n. n = NextNote(r)
    BY DEF n
<1>0. r \in Dispatcher /\ r # Worker /\ Worker \in Dispatcher /\ n \in Note /\ IsLoaded(r, n)
    BY <1>n, WorkerFacts, NextNoteFacts DEF IndInv, SessionShaped, Send
<1>f. SendEffect(r, n)
    BY <1>n, <1>0, SendFacts
<1>1. Counted(r, n) = 0
    BY <1>0 DEF Counted, IndInv, SessionShaped
<1>2. /\ attempts'[n] = attempts[n] /\ delivered'[n] = delivered[n] /\ excused'[n] = excused[n]
    <2>1. attempts[n] \in Nat /\ delivered[n] \in Nat /\ excused[n] \in Nat
        BY <1>0 DEF IndInv, TypeOK
    <2>2. Outcome(r, n, 0)
        BY <1>1, <1>f DEF SendEffect
    <2> QED
        BY <2>1, <2>2 DEF Outcome
<1>s. /\ notes' = notes /\ status' = status
      /\ pc'[Worker] = pc[Worker] /\ todo'[Worker] = todo[Worker] /\ PatchersUntouched
      /\ \A m \in Note : m # n => /\ attempts'[m] = attempts[m] /\ delivered'[m] = delivered[m]
                                  /\ excused'[m] = excused[m]
    BY <1>0, <1>f DEF SendEffect
<1>3. \A m \in Note : /\ SameButMessages(m) /\ attempts'[m] = attempts[m]
                      /\ delivered'[m] = delivered[m] /\ excused'[m] = excused[m]
    BY <1>2, <1>s DEF SameButMessages
<1>4. session' = [session EXCEPT ![r] = session'[r]]
    BY <1>0 DEF Send, IndInv, TypeOK
<1>5. session'[Worker] = session[Worker]
    BY <1>0, <1>4 DEF IndInv, TypeOK
<1>6. WorkerParts'
    BY <1>3, <1>5, <1>s, WorkerUntouched
<1>7. TypeOK' /\ SessionShaped' /\ KeysAreKept'
    BY <1>n, <1>0, SendFacts, SendShaped
<1> QED
    BY <1>6, <1>7 DEF IndInv, WorkerParts

(* What the counters say when row n has been committed with its attempts,  *)
(* and what they say when one more has been made.                          *)
LEMMA OneMore ==
    ASSUME TypeOK, NEW n \in Note, notes[n] \in NoteRow, IsPending(notes[n]), notes' = notes,
           session[Worker][n] \in NoteRow, IsPending(session[Worker][n]),
           session[Worker][n].retries = notes[n].retries,
           Accounts(notes[n], n), Outcome(Worker, n, 1)
    PROVE  Ahead(n)'
<1> DEFINE row == session[Worker][n]
<1>0. attempts[n] \in Nat /\ delivered[n] \in Nat /\ excused[n] \in Nat
    BY DEF TypeOK
<1>1. row.retries \in Nat /\ MaxRetries \in Nat
    BY NotificationsAssumption DEF NoteRow
<1>2. /\ row.retries < MaxRetries
      /\ row.retries <= attempts[n] /\ attempts[n] <= row.retries + excused[n]
      /\ delivered[n] <= excused[n]
    BY DEF Accounts, IsPending
<1>3. CASE /\ session'[Worker][n] = [row EXCEPT !.state = "sent"]
           /\ attempts'[n] = attempts[n] + 1
           /\ delivered'[n] = delivered[n] + 1 /\ excused'[n] = excused[n]
    <2>1. session'[Worker][n].state = "sent"
        BY <1>3 DEF NoteRow
    <2> QED
        BY <1>0, <1>1, <1>2, <1>3, <2>1 DEF Ahead, Accounts
<1>4. CASE /\ session'[Worker][n] = Refused(row)
           /\ attempts'[n] = attempts[n] + 1
           /\ \/ delivered'[n] = delivered[n] /\ excused'[n] = excused[n]
              \/ delivered'[n] = delivered[n] + 1 /\ excused'[n] = excused[n] + 1
    <2>1. \/ /\ session'[Worker][n].state = "failed" /\ row.retries + 1 >= MaxRetries
          \/ /\ session'[Worker][n].state = "pending" /\ row.retries + 1 < MaxRetries
             /\ session'[Worker][n].retries = row.retries + 1
        BY <1>4, RefusedFacts
    <2> QED
        BY <1>0, <1>1, <1>2, <1>4, <2>1 DEF Ahead, Accounts
<1> QED
    BY <1>3, <1>4 DEF Outcome

LEMMA WorkerSendInv ==
    ASSUME IndInv, Send(Worker)
    PROVE  IndInv'
<1> DEFINE n == NextNote(Worker)
<1> HIDE DEF n
<1>n. n = NextNote(Worker)
    BY DEF n
<1>0. /\ TypeOK /\ Worker \in Dispatcher /\ n \in Note /\ n \in todo[Worker] /\ IsLoaded(Worker, n)
      /\ pc[Worker] = "send" /\ session[Worker][n] \in NoteRow /\ IsPending(session[Worker][n])
      /\ \A m \in todo[Worker] : session[Worker][n].booking <= session[Worker][m].booking
    BY <1>n, WorkerFacts, NextNoteFacts DEF IndInv, SessionShaped, Send
<1>f. SendEffect(Worker, n)
    BY <1>n, <1>0, SendFacts
<1>s. /\ notes' = notes /\ status' = status
      /\ pc'[Worker] = (IF LastOfBooking(Worker, n) THEN "commit" ELSE "send")
      /\ todo'[Worker] = todo[Worker] \ {n}
      /\ \A m \in Note : m # n => /\ session'[Worker][m] = session[Worker][m]
                                  /\ attempts'[m] = attempts[m] /\ delivered'[m] = delivered[m]
                                  /\ excused'[m] = excused[m]
      /\ Outcome(Worker, n, Counted(Worker, n))
    BY <1>0, <1>f DEF SendEffect
<1>l. /\ \A m \in Note : IsLoaded(Worker, m)' <=> IsLoaded(Worker, m)
      /\ session'[Worker][n].kind = session[Worker][n].kind
      /\ session'[Worker][n].booking = session[Worker][n].booking
    BY <1>n, <1>0, SendShaped
<1>b. \A m \in Note : /\ session'[Worker][m].kind = session[Worker][m].kind
                      /\ session'[Worker][m].booking = session[Worker][m].booking
    BY <1>s, <1>l
<1>1. \A m \in Note : m \in Tried(Worker)' <=> m \in Tried(Worker) \/ m = n
    BY <1>0, <1>s, <1>l DEF Tried, IsLoaded
<1>t. n \notin Tried(Worker) /\ Tried(Worker) \subseteq Note /\ Tried(Worker)' \subseteq Note
    BY <1>0 DEF Tried
<1>2. WorkerAlone'
    <2>1. ASSUME NEW m \in Note, IsLoaded(Worker, m), notes[m] # NoRow
          PROVE  /\ IsPending(notes[m])
                 /\ m \in todo'[Worker] => session'[Worker][m].retries = notes[m].retries
                 /\ m \in Tried(Worker)' /\ IsPending(session'[Worker][m]) =>
                       session'[Worker][m].retries = notes[m].retries + 1
                 /\ m \in Tried(Worker)' /\ session'[Worker][m].state = "failed" =>
                       MaxRetries <= notes[m].retries + 1
        <3>1. CASE m = n
            <4>1. session[Worker][n].retries = notes[n].retries /\ IsPending(notes[n])
                BY <1>0, <2>1, <3>1 DEF IndInv, WorkerAlone
            <4>2. session'[Worker][n] \in {[session[Worker][n] EXCEPT !.state = "sent"],
                                           Refused(session[Worker][n])}
                BY <1>s DEF Outcome
            <4>3. IsPending(session'[Worker][n]) =>
                      session'[Worker][n].retries = session[Worker][n].retries + 1
                BY <1>0, <4>2, RefusedFacts DEF NoteRow, IsPending
            <4>4. session'[Worker][n].state = "failed" => MaxRetries <= notes[n].retries + 1
                <5>1. /\ [session[Worker][n] EXCEPT !.state = "sent"].state = "sent"
                      /\ session[Worker][n].retries \in Nat /\ MaxRetries \in Nat
                    BY <1>0, NotificationsAssumption DEF NoteRow
                <5> QED
                    BY <1>0, <4>1, <4>2, <5>1, RefusedFacts
            <4> QED
                BY <1>s, <3>1, <4>1, <4>3, <4>4
        <3>2. CASE m # n
            BY <1>1, <1>s, <2>1, <3>2 DEF IndInv, WorkerAlone
        <3> QED
            BY <3>1, <3>2
    <2> QED
        BY <1>s, <1>l, <2>1 DEF WorkerAlone
<1>3. OneBookingInHand'
    <2>0. \A m \in Note : IsLoaded(Worker, m) => session[Worker][m].booking \in Nat
        <3>1. \A row \in NoteRow : row.booking \in Nat
            BY NotificationsAssumption DEF NoteRow
        <3> QED
            BY <1>0, <3>1, Loaded
    <2>1. \A m \in Tried(Worker) : session[Worker][m].booking = session[Worker][n].booking
        <3>1. SUFFICES ASSUME NEW m \in Tried(Worker)
                       PROVE  session[Worker][m].booking = session[Worker][n].booking
            OBVIOUS
        <3>2. PICK k \in todo[Worker] : session[Worker][k].booking = session[Worker][m].booking
            BY <1>0 DEF IndInv, OneBookingInHand
        <3>3. session[Worker][m].booking <= session[Worker][n].booking
            BY <1>0 DEF IndInv, OneBookingInHand
        <3>4. session[Worker][n].booking <= session[Worker][m].booking
            BY <1>0, <3>2
        <3>5. session[Worker][m].booking \in Nat /\ session[Worker][n].booking \in Nat
            BY <1>0, <1>t, <2>0 DEF Tried, IsLoaded
        <3> QED
            BY <3>3, <3>4, <3>5
    <2>2. \A m \in Tried(Worker)' : session'[Worker][m].booking = session[Worker][n].booking
        BY <1>1, <1>b, <1>t, <2>1
    <2>3. todo[Worker] \subseteq Note
        BY <1>0 DEF TypeOK
    <2>4. \A m \in todo'[Worker] : session[Worker][n].booking <= session'[Worker][m].booking
        BY <1>0, <1>b, <1>s, <2>3
    <2>5. pc'[Worker] = "send" =>
              \E m \in todo'[Worker] : session'[Worker][m].booking = session[Worker][n].booking
        BY <1>b, <1>s, <2>3 DEF LastOfBooking
    <2> QED
        BY <2>2, <2>4, <2>5 DEF OneBookingInHand
<1>v. ReviewsComeLate'
    BY <1>b, <1>f, <1>l, <1>s DEF IndInv, ReviewsComeLate, SendEffect, PatchersUntouched
<1>4. PurgedTogether'
    BY <1>b, <1>l, <1>s DEF IndInv, PurgedTogether
<1>5. AllAccounted'
    <2>1. ASSUME NEW m \in Note, notes[m] # NoRow, IsScheduled(notes[m])
          PROVE  (IF m \in Tried(Worker) THEN Ahead(m) ELSE Accounts(notes[m], m))'
        <3>1. CASE m = n
            <4>1. /\ notes[m] \in NoteRow /\ IsPending(notes[m])
                  /\ session[Worker][m].retries = notes[m].retries /\ Counted(Worker, m) = 1
                BY <1>0, <2>1, <3>1, Committed
                   DEF IndInv, WorkerAlone, KeysAreKept, Counted, IsScheduled
            <4>2. Accounts(notes[m], m)
                BY <1>t, <2>1, <3>1 DEF IndInv, AllAccounted
            <4>3. Outcome(Worker, m, 1)
                BY <1>s, <3>1, <4>1
            <4>4. Ahead(m)'
                BY <1>0, <1>s, <3>1, <4>1, <4>2, <4>3, OneMore
            <4>5. m \in Tried(Worker)'
                BY <1>1, <3>1
            <4> QED
                BY <4>4, <4>5
        <3>2. CASE m # n
            BY <1>1, <1>s, <2>1, <3>2 DEF IndInv, AllAccounted, Ahead, Accounts
        <3> QED
            BY <3>1, <3>2
    <2> QED
        BY <1>s, <2>1 DEF AllAccounted
<1>6. TypeOK' /\ SessionShaped' /\ KeysAreKept'
    BY <1>n, <1>0, SendFacts, SendShaped
<1> QED
    BY <1>2, <1>3, <1>v, <1>4, <1>5, <1>6 DEF IndInv

-----------------------------------------------------------------------------
(* What has been tried is committed *)

LEMMA FlushedFacts ==
    ASSUME TypeOK, NEW d \in Dispatcher, NEW n \in Tried(d), notes[n] # NoRow
    PROVE  /\ Flushed(d, n) \in NoteRow
           /\ Flushed(d, n).kind = notes[n].kind /\ Flushed(d, n).booking = notes[n].booking
           /\ IsPending(session[d][n]) => /\ Flushed(d, n).state = notes[n].state
                                          /\ Flushed(d, n).retries = session[d][n].retries
           /\ ~IsPending(session[d][n]) => Flushed(d, n).state = session[d][n].state
<1>1. n \in Note /\ notes[n] \in NoteRow /\ session[d][n] \in NoteRow
    BY Committed, Loaded, TriedFacts
<1>2. \A old, new \in NoteRow :
        /\ [old EXCEPT !.retries = new.retries, !.wait = new.wait] \in NoteRow
        /\ [old EXCEPT !.state = new.state] \in NoteRow
    BY DEF NoteRow
<1>3. CASE IsPending(session[d][n])
    <2>1. Flushed(d, n) = [notes[n] EXCEPT !.retries = session[d][n].retries,
                                           !.wait = session[d][n].wait]
        BY <1>3 DEF Flushed
    <2>2. Flushed(d, n) \in NoteRow
        BY <1>1, <1>2, <2>1
    <2> QED
        BY <1>1, <1>3, <2>1, <2>2 DEF NoteRow
<1>4. CASE ~IsPending(session[d][n])
    <2>1. Flushed(d, n) = [notes[n] EXCEPT !.state = session[d][n].state]
        BY <1>4 DEF Flushed
    <2>2. Flushed(d, n) \in NoteRow
        BY <1>1, <1>2, <2>1
    <2> QED
        BY <1>1, <1>4, <2>1, <2>2 DEF NoteRow
<1> QED
    BY <1>3, <1>4

(* A commit, key by key, whether the session goes on or ends with it. *)
CommitEffect(d) ==
    /\ UNCHANGED <<status, lastId, target, faults, countVars>>
    /\ \A n \in Note : notes'[n] = IF n \in Tried(d) THEN Flushed(d, n) ELSE notes[n]
    /\ \A n \in Tried(d) : notes[n] # NoRow
    /\ \A c \in Dispatcher : c # d => session'[c] = session[c]
    /\ \A n \in Note : IsLoaded(d, n)' <=> n \in todo[d]
    /\ \A n \in todo[d] : session'[d][n] = session[d][n]
    /\ todo' = todo
    /\ \A c \in Dispatcher : pc'[c] = IF c # d THEN pc[c]
                                      ELSE IF todo[d] = {} THEN "idle" ELSE "send"
    /\ PatchersUntouched

LEMMA CommitFacts ==
    ASSUME IndInv, NEW d \in Dispatcher, CommitTried(d)
    PROVE  CommitEffect(d) /\ TypeOK'
<1>0. TypeOK /\ Tried(d) \subseteq Note
      /\ \A n \in Note : n \in Tried(d) <=> IsLoaded(d, n) /\ n \notin todo[d]
    BY TriedFacts DEF IndInv
<1>1. \A n \in todo[d] : n \in Note /\ IsLoaded(d, n)
    BY <1>0 DEF IndInv, SessionShaped, TypeOK
<1>2. UNCHANGED <<status, lastId, target, faults, countVars>>
    BY DEF CommitTried
<1>3. \A n \in Note : notes'[n] = IF n \in Tried(d) THEN Flushed(d, n) ELSE notes[n]
    BY DEF CommitTried
<1>4. \A n \in Tried(d) : notes[n] # NoRow
    BY DEF CommitTried
<1>5. PICK left \in [Note -> {NoRow} \cup NoteRow] :
        /\ session' = [session EXCEPT ![d] = left]
        /\ \A n \in Note : left[n] = IF n \in todo[d] THEN session[d][n] ELSE NoRow
    <2>1. CASE todo[d] = {} /\ EndsSession(d)
        <3>1. [n \in Note |-> NoRow] \in [Note -> {NoRow} \cup NoteRow]
            OBVIOUS
        <3> QED
            BY <2>1, <3>1 DEF EndsSession
    <2>2. CASE session' = [session EXCEPT ![d] =
                              [n \in Note |-> IF n \in Tried(d) THEN NoRow ELSE session[d][n]]]
        <3> DEFINE left == [n \in Note |-> IF n \in Tried(d) THEN NoRow ELSE session[d][n]]
        <3>1. left \in [Note -> {NoRow} \cup NoteRow]
            BY <1>0 DEF TypeOK
        <3>2. \A n \in Note : left[n] = IF n \in todo[d] THEN session[d][n] ELSE NoRow
            BY <1>0, <1>1 DEF IsLoaded
        <3> QED
            BY <2>2, <3>1, <3>2
    <2> QED
        BY <2>1, <2>2 DEF CommitTried
<1>6. /\ \A c \in Dispatcher : c # d => session'[c] = session[c]
      /\ session'[d] = left
      /\ session' \in [Dispatcher -> [Note -> {NoRow} \cup NoteRow]]
    BY <1>0, <1>5 DEF TypeOK
<1>7. \A n \in Note : IsLoaded(d, n)' <=> n \in todo[d]
    BY <1>1, <1>5, <1>6 DEF IsLoaded
<1>8. \A n \in todo[d] : session'[d][n] = session[d][n]
    BY <1>1, <1>5, <1>6
<1>9. todo' = todo
    <2>1. todo \in [Dispatcher -> SUBSET Note]
        BY <1>0 DEF TypeOK
    <2>2. todo[d] = {} => [todo EXCEPT ![d] = {}] = todo
        BY <2>1
    <2> QED
        BY <2>2 DEF CommitTried, EndsSession
<1>10. \A c \in Dispatcher : pc'[c] = IF c # d THEN pc[c]
                                      ELSE IF todo[d] = {} THEN "idle" ELSE "send"
    BY <1>0, SessionFacts DEF CommitTried, EndsSession, TypeOK
<1>u. PatchersUntouched
    BY <1>0, SessionFacts DEF CommitTried, EndsSession, TypeOK, PatchersUntouched
<1>11. notes' \in [Note -> {NoRow} \cup NoteRow]
    <2>1. \A n \in Note : notes'[n] \in {NoRow} \cup NoteRow
        BY <1>0, <1>3, <1>4, Committed, FlushedFacts
    <2>2. notes' = [n \in Note |-> IF n \in Tried(d) THEN Flushed(d, n) ELSE notes[n]]
        BY DEF CommitTried
    <2> QED
        BY <2>1, <2>2
<1>12. pc' \in [Session -> {"idle", "refresh", "review", "select", "send", "commit"}]
    BY <1>0 DEF CommitTried, EndsSession, TypeOK
<1>13. TypeOK'
    BY <1>0, <1>2, <1>6, <1>9, <1>11, <1>12 DEF TypeOK, countVars
<1> QED
    BY <1>2, <1>3, <1>4, <1>6, <1>7, <1>8, <1>9, <1>10, <1>u, <1>13 DEF CommitEffect

LEMMA CommitShaped ==
    ASSUME IndInv, NEW d \in Dispatcher, CommitTried(d)
    PROVE  SessionShaped' /\ KeysAreKept' /\ \A n \in Note : SameNotification(n)
<1>0. TypeOK /\ CommitEffect(d) /\ TypeOK'
    BY CommitFacts DEF IndInv
<1>1. \A n \in Note : SameNotification(n)
    BY <1>0, NoRowFacts, FlushedFacts DEF CommitEffect, SameNotification
<1>2. \A c \in Dispatcher, n \in Note : IsLoaded(c, n)' =>
        IsLoaded(c, n) /\ session'[c][n] = session[c][n]
    BY <1>0 DEF CommitEffect, IsLoaded, IndInv, SessionShaped
<1>3. SessionShaped'
    <2>1. ASSUME NEW c \in Dispatcher
          PROVE  /\ pc'[c] \in {"idle", "select"} => \A n \in Note : ~(IsLoaded(c, n)')
                 /\ pc'[c] = "send" => todo'[c] # {}
                 /\ pc'[c] \in {"idle", "select"} => todo'[c] = {}
                 /\ \A n \in todo'[c] : IsLoaded(c, n)' /\ IsPending(session'[c][n])
        <3>1. CASE c = d
            BY <1>0, <3>1 DEF CommitEffect, IndInv, SessionShaped, TypeOK
        <3>2. CASE c # d
            BY <1>0, <3>2 DEF CommitEffect, IsLoaded, IndInv, SessionShaped
        <3> QED
            BY <3>1, <3>2
    <2>2. pc'[Worker] # "select"
        BY <1>0, WorkerFacts DEF CommitEffect, IndInv, SessionShaped
    <2>3. \A c \in Dispatcher, n \in Note : IsLoaded(c, n)' =>
            (IsScheduled(session'[c][n]) <=> c = Worker)
        BY <1>2 DEF IndInv, SessionShaped
    <2> QED
        BY <2>1, <2>2, <2>3 DEF SessionShaped
<1>4. KeysAreKept'
    <2>1. lastId' = lastId
        BY <1>0 DEF CommitEffect
    <2> QED
        BY <1>1, <1>2, <2>1 DEF IndInv, KeysAreKept, SameNotification
<1> QED
    BY <1>1, <1>3, <1>4

LEMMA RequestCommitInv ==
    ASSUME IndInv, NEW r \in Request, CommitTried(r)
    PROVE  IndInv'
<1>0. r \in Dispatcher /\ r # Worker /\ Worker \in Dispatcher /\ TypeOK
    BY WorkerFacts DEF IndInv
<1>1. CommitEffect(r) /\ TypeOK' /\ SessionShaped' /\ KeysAreKept'
      /\ \A n \in Note : SameNotification(n)
    BY <1>0, CommitFacts, CommitShaped
<1>2. \A n \in Tried(r) : notes[n].kind = "message"
    <2>1. \A n \in Tried(r) : n \in Note /\ IsLoaded(r, n) /\ notes[n] # NoRow
        BY <1>0, <1>1, TriedFacts DEF CommitEffect
    <2>2. \A n \in Tried(r) : notes[n].kind = session[r][n].kind /\ ~IsScheduled(session[r][n])
        BY <1>0, <2>1 DEF IndInv, KeysAreKept, SessionShaped
    <2>3. \A n \in Tried(r) : session[r][n] \in NoteRow
        BY <1>0, <2>1, Loaded
    <2> QED
        BY <2>2, <2>3 DEF IsScheduled, NoteRow
<1>3. \A n \in Note : SameButMessages(n)
    BY <1>1, <1>2 DEF CommitEffect, SameButMessages, SameNotification
<1>4. WorkerParts'
    BY <1>0, <1>1, <1>3, WorkerUntouched DEF CommitEffect, countVars
<1> QED
    BY <1>1, <1>4 DEF IndInv, WorkerParts

LEMMA WorkerCommitInv ==
    ASSUME IndInv, CommitTried(Worker)
    PROVE  IndInv'
<1>0. Worker \in Dispatcher /\ TypeOK
    BY WorkerFacts DEF IndInv
<1>1. CommitEffect(Worker) /\ TypeOK' /\ SessionShaped' /\ KeysAreKept'
      /\ \A n \in Note : SameNotification(n)
    BY <1>0, CommitFacts, CommitShaped
<1>2. /\ status' = status /\ todo' = todo
      /\ attempts' = attempts /\ delivered' = delivered /\ excused' = excused
      /\ \A n \in Note : notes'[n] = IF n \in Tried(Worker) THEN Flushed(Worker, n) ELSE notes[n]
      /\ \A n \in Note : IsLoaded(Worker, n)' <=> n \in todo[Worker]
      /\ \A n \in todo[Worker] : session'[Worker][n] = session[Worker][n]
      /\ todo[Worker] \subseteq Note
    BY <1>0, <1>1 DEF CommitEffect, countVars, TypeOK
<1>3. \A n \in todo[Worker] : n \in Note /\ IsLoaded(Worker, n) /\ n \notin Tried(Worker)
    BY <1>0, <1>2 DEF Tried, IndInv, SessionShaped
<1>4. Tried(Worker)' = {}
    BY <1>2 DEF Tried, IsLoaded
<1>5. \A n \in Tried(Worker) : /\ n \in Note /\ IsLoaded(Worker, n) /\ notes[n] # NoRow
                               /\ IsPending(notes[n])
    BY <1>0, <1>1, TriedFacts DEF CommitEffect, IndInv, WorkerAlone
<1>6. WorkerAlone'
    BY <1>2, <1>3, <1>4 DEF IndInv, WorkerAlone
<1>7. OneBookingInHand'
    BY <1>4 DEF OneBookingInHand
<1>v. ReviewsComeLate'
    <2>1. PatchersUntouched
        BY <1>1 DEF CommitEffect
    <2>2. \A n \in todo[Worker] : notes'[n] = notes[n]
        BY <1>2, <1>3
    <2> QED
        BY <1>1, <1>2, <1>3, <2>1, <2>2 DEF IndInv, ReviewsComeLate, SameNotification, PatchersUntouched
<1>8. PurgedTogether'
    BY <1>1, <1>2, <1>3 DEF IndInv, PurgedTogether, SameNotification
<1>9. AllAccounted'
    <2>1. ASSUME NEW n \in Note, notes'[n] # NoRow, IsScheduled(notes'[n])
          PROVE  Accounts(notes[n], n)'
        <3>0. notes[n] # NoRow /\ IsScheduled(notes[n])
            BY <1>1, <2>1 DEF SameNotification, IsScheduled
        <3>1. CASE n \in Tried(Worker)
            <4>1. Accounts(session[Worker][n], n)
                BY <3>0, <3>1 DEF IndInv, AllAccounted, Ahead
            <4>2. /\ notes'[n] = Flushed(Worker, n)
                  /\ IsPending(session[Worker][n]) =>
                        /\ Flushed(Worker, n).state = notes[n].state
                        /\ Flushed(Worker, n).retries = session[Worker][n].retries
                  /\ ~IsPending(session[Worker][n]) =>
                        Flushed(Worker, n).state = session[Worker][n].state
                BY <1>0, <1>2, <1>5, <3>1, FlushedFacts
            <4> QED
                BY <1>2, <1>5, <3>1, <4>1, <4>2 DEF Accounts, IsPending
        <3>2. CASE n \notin Tried(Worker)
            BY <1>2, <3>0, <3>2 DEF IndInv, AllAccounted, Accounts
        <3> QED
            BY <3>1, <3>2
    <2> QED
        BY <1>4, <2>1 DEF AllAccounted
<1> QED
    BY <1>1, <1>6, <1>7, <1>v, <1>8, <1>9 DEF IndInv

-----------------------------------------------------------------------------
(* A session is given up *)

LEMMA EndsType ==
    ASSUME TypeOK, NEW d \in Dispatcher, EndsSession(d)
    PROVE  /\ pc' \in [Session -> {"idle", "refresh", "review", "select", "send", "commit"}]
           /\ session' \in [Dispatcher -> [Note -> {NoRow} \cup NoteRow]]
           /\ todo' \in [Dispatcher -> SUBSET Note]
<1>1. pc' \in [Session -> {"idle", "refresh", "review", "select", "send", "commit"}]
    BY DEF EndsSession, TypeOK
<1>2. session' \in [Dispatcher -> [Note -> {NoRow} \cup NoteRow]]
    BY DEF EndsSession, TypeOK
<1>3. todo' \in [Dispatcher -> SUBSET Note]
    BY DEF EndsSession, TypeOK
<1> QED
    BY <1>1, <1>2, <1>3

LEMMA WorkerEnds ==
    ASSUME IndInv, EndsSession(Worker), status' = status, notes' = notes, PatchersUntouched,
           \A n \in Note : notes[n] # NoRow /\ IsScheduled(notes[n]) => Accounts(notes[n], n)'
    PROVE  WorkerParts'
<1>1. \A n \in Note : session'[Worker][n] = NoRow
    BY WorkerFacts DEF EndsSession, IndInv, TypeOK
<1>2. Tried(Worker)' = {} /\ \A n \in Note : ~(IsLoaded(Worker, n)')
    BY <1>1 DEF Tried, IsLoaded
<1>3. WorkerAlone'
    BY <1>2 DEF WorkerAlone
<1>4. OneBookingInHand'
    BY <1>2 DEF OneBookingInHand
<1>v. ReviewsComeLate'
    BY <1>2 DEF IndInv, ReviewsComeLate, PatchersUntouched
<1>5. PurgedTogether'
    BY <1>2 DEF IndInv, PurgedTogether
<1>6. AllAccounted'
    BY <1>2 DEF AllAccounted
<1> QED
    BY <1>3, <1>4, <1>v, <1>5, <1>6 DEF WorkerParts

LEMMA RequestEnds ==
    ASSUME IndInv, NEW r \in Request, EndsSession(r), status' = status, notes' = notes, PatchersUntouched,
           attempts' = attempts, delivered' = delivered, excused' = excused
    PROVE  WorkerParts'
<1>1. r \in Dispatcher /\ Worker \in Dispatcher /\ r # Worker
    BY WorkerFacts
<1>2. pc'[Worker] = pc[Worker] /\ session'[Worker] = session[Worker] /\ todo'[Worker] = todo[Worker]
    BY <1>1, SessionFacts DEF EndsSession, IndInv, TypeOK
<1> QED
    BY <1>2, WorkerUntouched DEF SameButMessages

LEMMA CommitStaleInv ==
    ASSUME IndInv, NEW d \in Dispatcher, CommitStale(d)
    PROVE  IndInv'
<1>0. TypeOK /\ EndsSession(d) /\ UNCHANGED <<status, notes, lastId, target, faults, countVars>>
    BY DEF IndInv, CommitStale
<1>u. PatchersUntouched
    BY <1>0, SessionFacts DEF EndsSession, TypeOK, PatchersUntouched
<1>1. TypeOK'
    BY <1>0, EndsType DEF TypeOK, countVars
<1>2. SessionShaped' /\ KeysAreKept'
    BY <1>0, EndsShaped DEF SameNotification
<1>3. WorkerParts'
    <2>1. CASE d \in Request
        BY <1>0, <1>u, <2>1, RequestEnds DEF countVars
    <2>2. CASE d = Worker
        <3>1. PICK m \in Tried(Worker) : notes[m] = NoRow
            BY <2>2 DEF CommitStale
        <3>2. \A n \in Tried(Worker) : /\ n \in Note /\ IsLoaded(Worker, n)
                                       /\ session[Worker][n].booking = session[Worker][m].booking
            BY <1>0, WorkerFacts, TriedFacts DEF IndInv, OneBookingInHand
        <3>3. \A n \in Tried(Worker) : notes[n] = NoRow
            BY <3>1, <3>2 DEF IndInv, PurgedTogether
        <3>4. \A n \in Note : notes[n] # NoRow /\ IsScheduled(notes[n]) => Accounts(notes[n], n)
            BY <3>3 DEF IndInv, AllAccounted
        <3>5. \A n \in Note : notes[n] # NoRow /\ IsScheduled(notes[n]) => Accounts(notes[n], n)'
            BY <1>0, <3>4 DEF Accounts, countVars
        <3> QED
            BY <1>0, <1>u, <2>2, <3>5, WorkerEnds
    <2> QED
        BY <2>1, <2>2 DEF Dispatcher
<1> QED
    BY <1>1, <1>2, <1>3 DEF IndInv, WorkerParts

LEMMA FaultInv ==
    ASSUME IndInv, NEW d \in Dispatcher, Fault(d)
    PROVE  IndInv'
<1>0. /\ TypeOK /\ EndsSession(d) /\ UNCHANGED <<status, notes, lastId, attempts, delivered>>
      /\ faults < MaxFaults /\ faults' = faults + 1
      /\ target' = [r \in Request \cup Patcher |-> IF r = d THEN 0 ELSE target[r]]
      /\ excused' = [n \in Note |->
            IF n \in Tried(d) /\ notes[n] # NoRow /\ IsScheduled(notes[n])
            THEN excused[n] + 1 ELSE excused[n]]
    BY DEF IndInv, Fault
<1>1. \A n \in Note : attempts[n] \in Nat /\ delivered[n] \in Nat /\ excused[n] \in Nat
    BY <1>0 DEF TypeOK
<1>u. PatchersUntouched
    BY <1>0, SessionFacts DEF EndsSession, TypeOK, PatchersUntouched
<1>2. TypeOK'
    <2>1. excused' \in [Note -> Nat]
        BY <1>0, <1>1
    <2>2. faults' \in 0 .. MaxFaults
        BY <1>0, NotificationsAssumption DEF TypeOK
    <2>3. target' \in [Request \cup Patcher -> {0} \cup Booking]
        BY <1>0 DEF TypeOK
    <2> QED
        BY <1>0, <2>1, <2>2, <2>3, EndsType DEF TypeOK
<1>3. SessionShaped' /\ KeysAreKept'
    BY <1>0, EndsShaped DEF SameNotification
<1>4. WorkerParts'
    <2>1. CASE d \in Request
        <3>1. \A n \in Tried(d) : n \in Note /\ IsLoaded(d, n) /\ ~IsScheduled(session[d][n])
            BY <1>0, <2>1, WorkerFacts, TriedFacts DEF IndInv, SessionShaped
        <3>2. \A n \in Tried(d) : notes[n] # NoRow => ~IsScheduled(notes[n])
            BY <3>1 DEF IndInv, KeysAreKept, IsScheduled
        <3>3. excused' = excused
            BY <1>0, <3>2 DEF TypeOK
        <3> QED
            BY <1>0, <1>u, <2>1, <3>3, RequestEnds
    <2>2. CASE d = Worker
        <3>1. ASSUME NEW n \in Note, notes[n] # NoRow, IsScheduled(notes[n])
              PROVE  Accounts(notes[n], n)'
            <4>1. CASE n \in Tried(Worker)
                <5>1. Ahead(n) /\ IsPending(notes[n])
                    BY <1>0, <3>1, <4>1, WorkerFacts, TriedFacts
                       DEF IndInv, AllAccounted, WorkerAlone
                <5>2. excused'[n] = excused[n] + 1
                    BY <1>0, <2>2, <3>1, <4>1
                <5>3. notes[n].retries \in Nat /\ MaxRetries \in Nat
                    BY <1>0, <3>1, Committed, NotificationsAssumption DEF NoteRow
                <5> QED
                    BY <1>0, <1>1, <5>1, <5>2, <5>3 DEF Ahead, Accounts, IsPending
            <4>2. CASE n \notin Tried(Worker)
                <5>1. Accounts(notes[n], n) /\ excused'[n] = excused[n]
                    BY <1>0, <2>2, <3>1, <4>2 DEF IndInv, AllAccounted
                <5> QED
                    BY <1>0, <5>1 DEF Accounts
            <4> QED
                BY <4>1, <4>2
        <3> QED
            BY <1>0, <1>u, <2>2, <3>1, WorkerEnds
    <2> QED
        BY <2>1, <2>2 DEF Dispatcher
<1> QED
    BY <1>2, <1>3, <1>4 DEF IndInv, WorkerParts

-----------------------------------------------------------------------------
(* A PATCH reads its booking again *)

LEMMA RefreshInv ==
    ASSUME IndInv, NEW p \in Patcher, Refresh(p)
    PROVE  IndInv'
<1>0. /\ TypeOK /\ p \in Session /\ p \notin Dispatcher
      /\ UNCHANGED <<status, notes, lastId, session, todo, faults, attempts, delivered, excused>>
    BY SessionFacts DEF IndInv, Refresh, countVars
<1>1. \A d \in Dispatcher : pc'[d] = pc[d]
    BY <1>0, SessionFacts DEF Refresh, TypeOK
<1>2. TypeOK'
    BY <1>0 DEF Refresh, TypeOK
<1>3. /\ Tried(Worker)' = Tried(Worker)
      /\ \A d \in Dispatcher, n \in Note : IsLoaded(d, n)' <=> IsLoaded(d, n)
    BY <1>0 DEF Tried, IsLoaded
<1>4. SessionShaped' /\ KeysAreKept'
    <2>1. SessionShaped'
        <3>1. ASSUME NEW d \in Dispatcher
              PROVE  /\ pc'[d] \in {"idle", "select"} => \A n \in Note : ~(IsLoaded(d, n)')
                     /\ pc'[d] = "send" => todo[d] # {}
                     /\ pc'[d] \in {"idle", "select"} => todo[d] = {}
                     /\ \A n \in todo[d] : IsLoaded(d, n)' /\ IsPending(session[d][n])
            <4>1. todo[d] \subseteq Note
                BY <1>0 DEF TypeOK
            <4> QED
                BY <1>1, <1>3, <4>1 DEF IndInv, SessionShaped
        <3> QED
            BY <1>0, <1>1, <1>3, <3>1, WorkerFacts DEF IndInv, SessionShaped
    <2>2. KeysAreKept'
        BY <1>0, <1>3 DEF IndInv, KeysAreKept
    <2> QED
        BY <2>1, <2>2
<1>5. WorkerAlone' /\ OneBookingInHand' /\ PurgedTogether' /\ AllAccounted'
    BY <1>0, <1>1, <1>3, WorkerFacts
       DEF IndInv, WorkerAlone, OneBookingInHand, PurgedTogether, AllAccounted, Ahead, Accounts
<1>6. ReviewsComeLate'
    <2>1. ASSUME NEW q \in Patcher
          PROVE  /\ pc'[q] # "idle" => target'[q] \in Booking
                 /\ pc'[q] = "review" => status[target'[q]] \notin {"none", "active"}
        <3>1. CASE q = p
            BY <1>0, <3>1 DEF Refresh, TypeOK, IndInv, ReviewsComeLate
        <3>2. CASE q # p
            BY <1>0, <3>2, SessionFacts DEF Refresh, TypeOK, IndInv, ReviewsComeLate
        <3> QED
            BY <3>1, <3>2
    <2> QED
        BY <1>0, <1>3, <2>1, WorkerFacts DEF IndInv, ReviewsComeLate
<1> QED
    BY <1>2, <1>4, <1>5, <1>6 DEF IndInv

-----------------------------------------------------------------------------
(* Time passes *)

(* Two rows that differ in their wait at most. *)
ButForWait(old, new) ==
    /\ new = NoRow <=> old = NoRow
    /\ old # NoRow => /\ new.booking = old.booking /\ new.kind = old.kind
                      /\ new.state = old.state /\ new.retries = old.retries

LEMMA SoonerFacts ==
    ASSUME NEW row \in {NoRow} \cup NoteRow
    PROVE  /\ Sooner(row) \in {NoRow} \cup NoteRow /\ ButForWait(row, Sooner(row))
           /\ row # NoRow /\ row.wait = 0 => Sooner(row).wait = 0
<1>1. CASE row # NoRow /\ row.wait > 0
    <2>1. row \in NoteRow /\ row.wait - 1 \in Int
        BY <1>1 DEF NoteRow
    <2>2. Sooner(row) = [row EXCEPT !.wait = row.wait - 1]
        BY <1>1 DEF Sooner
    <2>3. Sooner(row) \in NoteRow
        BY <2>1, <2>2 DEF NoteRow
    <2>4. ButForWait(row, Sooner(row))
        BY <2>1, <2>2, <2>3, NoRowFacts DEF ButForWait, NoteRow
    <2>5. row.wait # 0
        BY <1>1, <2>1
    <2> QED
        BY <2>3, <2>4, <2>5
<1>2. CASE ~(row # NoRow /\ row.wait > 0)
    BY <1>2 DEF Sooner, ButForWait
<1> QED
    BY <1>1, <1>2

LEMMA TimePassesInv ==
    ASSUME IndInv, TimePasses
    PROVE  IndInv'
<1>0. /\ TypeOK /\ Worker \in Dispatcher
      /\ notes' = [n \in Note |-> Sooner(notes[n])]
      /\ session' = [d \in Dispatcher |-> [n \in Note |-> Sooner(session[d][n])]]
      /\ status' = status /\ lastId' = lastId /\ pc' = pc /\ target' = target /\ todo' = todo
      /\ faults' = faults /\ attempts' = attempts /\ delivered' = delivered /\ excused' = excused
    BY WorkerFacts DEF IndInv, TimePasses, countVars
<1>1. /\ \A n \in Note : /\ notes'[n] \in {NoRow} \cup NoteRow /\ ButForWait(notes[n], notes'[n])
                         /\ notes[n] # NoRow /\ notes[n].wait = 0 => notes'[n].wait = 0
      /\ \A d \in Dispatcher, n \in Note : /\ session'[d][n] \in {NoRow} \cup NoteRow
                                           /\ ButForWait(session[d][n], session'[d][n])
    <2>1. \A n \in Note : notes'[n] = Sooner(notes[n]) /\ notes[n] \in {NoRow} \cup NoteRow
        BY <1>0 DEF TypeOK
    <2>2. \A d \in Dispatcher, n \in Note : /\ session'[d][n] = Sooner(session[d][n])
                                            /\ session[d][n] \in {NoRow} \cup NoteRow
        BY <1>0 DEF TypeOK
    <2> QED
        BY <2>1, <2>2, SoonerFacts
<1>2. TypeOK'
    <2>1. notes' \in [Note -> {NoRow} \cup NoteRow]
        BY <1>0, <1>1
    <2>2. session' \in [Dispatcher -> [Note -> {NoRow} \cup NoteRow]]
        <3>1. \A d \in Dispatcher : session'[d] \in [Note -> {NoRow} \cup NoteRow]
            BY <1>0, <1>1
        <3> QED
            BY <1>0, <3>1
    <2> QED
        BY <1>0, <2>1, <2>2 DEF TypeOK
<1>3. /\ \A d \in Dispatcher, n \in Note : IsLoaded(d, n)' <=> IsLoaded(d, n)
      /\ Tried(Worker)' = Tried(Worker)
    BY <1>0, <1>1 DEF IsLoaded, Tried, ButForWait
<1>4. \A n \in Note : notes[n] # NoRow <=> notes'[n] # NoRow
    BY <1>1 DEF ButForWait
<1>5. \A n \in Note : notes[n] # NoRow =>
        /\ notes'[n].booking = notes[n].booking /\ notes'[n].kind = notes[n].kind
        /\ notes'[n].state = notes[n].state /\ notes'[n].retries = notes[n].retries
        /\ IsPending(notes'[n]) <=> IsPending(notes[n])
        /\ IsScheduled(notes'[n]) <=> IsScheduled(notes[n])
    BY <1>1 DEF ButForWait, IsPending, IsScheduled
<1>6. \A d \in Dispatcher, n \in Note : IsLoaded(d, n) =>
        /\ session'[d][n].booking = session[d][n].booking
        /\ session'[d][n].kind = session[d][n].kind
        /\ session'[d][n].state = session[d][n].state
        /\ session'[d][n].retries = session[d][n].retries
        /\ IsPending(session'[d][n]) <=> IsPending(session[d][n])
        /\ IsScheduled(session'[d][n]) <=> IsScheduled(session[d][n])
    BY <1>1 DEF IsLoaded, ButForWait, IsPending, IsScheduled
<1>7. \A d \in Dispatcher : todo[d] \subseteq Note /\ \A n \in todo[d] : IsLoaded(d, n)
    BY <1>0 DEF IndInv, SessionShaped, TypeOK
<1>8. Tried(Worker) \subseteq Note /\ \A n \in Tried(Worker) : IsLoaded(Worker, n)
    BY DEF Tried, IsLoaded
<1>9. SessionShaped'
    <2>1. ASSUME NEW d \in Dispatcher
          PROVE  /\ pc[d] \in {"idle", "select"} => \A n \in Note : ~(IsLoaded(d, n)')
                 /\ pc[d] = "send" => todo[d] # {}
                 /\ pc[d] \in {"idle", "select"} => todo[d] = {}
                 /\ \A n \in todo[d] : IsLoaded(d, n)' /\ IsPending(session'[d][n])
        BY <1>3, <1>6, <1>7 DEF IndInv, SessionShaped
    <2>2. \A d \in Dispatcher, n \in Note : IsLoaded(d, n)' =>
            (IsScheduled(session'[d][n]) <=> d = Worker)
        BY <1>3, <1>6 DEF IndInv, SessionShaped
    <2> QED
        BY <1>0, <2>1, <2>2 DEF IndInv, SessionShaped
<1>10. KeysAreKept'
    BY <1>0, <1>3, <1>4, <1>5, <1>6 DEF IndInv, KeysAreKept
<1>11. WorkerAlone'
    BY <1>0, <1>3, <1>4, <1>5, <1>6 DEF IndInv, WorkerAlone
<1>12. OneBookingInHand'
    <2>1. \A n \in Tried(Worker) : session'[Worker][n].booking = session[Worker][n].booking
        BY <1>0, <1>6, <1>8
    <2>2. \A n \in todo[Worker] : session'[Worker][n].booking = session[Worker][n].booking
        BY <1>0, <1>6, <1>7
    <2>3. ASSUME NEW m \in Tried(Worker)
          PROVE  /\ \A n \in Tried(Worker) :
                        session'[Worker][n].booking = session'[Worker][m].booking
                 /\ \A n \in todo[Worker] :
                        session'[Worker][m].booking <= session'[Worker][n].booking
                 /\ pc[Worker] = "send" =>
                        \E n \in todo[Worker] :
                            session'[Worker][n].booking = session'[Worker][m].booking
        BY <2>1, <2>2 DEF IndInv, OneBookingInHand
    <2> QED
        BY <1>0, <1>3, <2>3 DEF OneBookingInHand
<1>v. ReviewsComeLate'
    BY <1>0, <1>1, <1>3, <1>4, <1>5, <1>6 DEF IndInv, ReviewsComeLate
<1>13. PurgedTogether'
    BY <1>0, <1>3, <1>4, <1>5, <1>6 DEF IndInv, PurgedTogether
<1>14. AllAccounted'
    <2>1. ASSUME NEW n \in Note, notes'[n] # NoRow, IsScheduled(notes'[n])
          PROVE  (IF n \in Tried(Worker) THEN Ahead(n) ELSE Accounts(notes[n], n))'
        <3>1. IF n \in Tried(Worker) THEN Ahead(n) ELSE Accounts(notes[n], n)
            BY <1>4, <1>5, <2>1 DEF IndInv, AllAccounted
        <3>2. CASE n \in Tried(Worker)
            BY <1>0, <1>3, <1>4, <1>5, <1>6, <1>8, <2>1, <3>1, <3>2 DEF Ahead, Accounts
        <3>3. CASE n \notin Tried(Worker)
            BY <1>0, <1>3, <1>4, <1>5, <2>1, <3>1, <3>3 DEF Accounts
        <3> QED
            BY <3>2, <3>3
    <2> QED
        BY <2>1 DEF AllAccounted
<1> QED
    BY <1>2, <1>9, <1>10, <1>11, <1>12, <1>v, <1>13, <1>14 DEF IndInv

-----------------------------------------------------------------------------
(* The outbox as it is found *)

(* The rows that are there at the start are reminders of active bookings,  *)
(* untried.                                                                *)
LEMMA InitialRows ==
    ASSUME Init
    PROVE  /\ status \in [Booking -> Status]
           /\ notes \in [Note -> {NoRow} \cup NoteRow]
           /\ \A n \in Note : notes[n] # NoRow =>
                /\ n <= lastId /\ notes[n] \in NoteRow /\ notes[n].state = "pending"
                /\ notes[n].retries = 0 /\ notes[n].kind = "reminder"
                /\ status[notes[n].booking] = "active"
<1> DEFINE Seeded == {b \in Booking : status[b] = "active"}
<1>0. status \in [Booking -> Status] /\ Seeded \subseteq Booking
    BY NotificationsAssumption DEF Init
<1>1. lastId \in 0 .. MaxNotes /\ MaxNotes \in Nat
    BY NotificationsAssumption DEF Init
<1>2. PICK in \in [Seeded -> StartsIn] :
        \E row \in Bijection(1 .. lastId, SeededRows(in)) :
            notes = [n \in Note |-> IF n <= lastId THEN row[n] ELSE NoRow]
    BY DEF Init
<1>a. \A b \in Seeded : status[b] = "active"
    OBVIOUS
<1> HIDE DEF Seeded
<1>3. PICK row \in [1 .. lastId -> SeededRows(in)] :
        notes = [n \in Note |-> IF n <= lastId THEN row[n] ELSE NoRow]
    BY <1>2 DEF Bijection, Injection, Surjection
<1>4. \A r \in SeededRows(in) : /\ r \in NoteRow /\ r.state = "pending" /\ r.retries = 0
                                /\ r.kind = "reminder" /\ r.booking \in Seeded
    <2>1. \A b \in Seeded, lead \in {LongLead, ShortLead} :
            in[b] - lead \in Int /\ b \in Booking
        <3>1. \A b \in Seeded : in[b] \in Nat /\ b \in Booking
            BY <1>0, NotificationsAssumption
        <3>2. LongLead \in Nat /\ ShortLead \in Nat
            BY NotificationsAssumption
        <3> QED
            BY <3>1, <3>2
    <2>2. \A b \in Seeded, lead \in {LongLead, ShortLead} :
            /\ NewNote(b, "reminder", in[b] - lead) \in NewRows(b)
            /\ NewNote(b, "reminder", in[b] - lead).kind = "reminder"
        BY <2>1, NewNoteType
    <2>3. DOMAIN in = Seeded
        OBVIOUS
    <2> QED
        BY <2>2, <2>3 DEF SeededRows, NewRows
<1>5. \A n \in Note : notes[n] # NoRow =>
        /\ n <= lastId /\ notes[n] \in NoteRow /\ notes[n].state = "pending"
        /\ notes[n].retries = 0 /\ notes[n].kind = "reminder" /\ notes[n].booking \in Seeded
    BY <1>1, <1>3, <1>4 DEF Note
<1>6. notes \in [Note -> {NoRow} \cup NoteRow]
    BY <1>3, <1>5
<1> QED
    BY <1>0, <1>5, <1>6, <1>a

LEMMA InitInv == Init => IndInv
<1> SUFFICES ASSUME Init PROVE IndInv
    OBVIOUS
<1>0. Worker \in Dispatcher /\ MaxRetries \in Nat /\ MaxRetries > 0 /\ MaxNotes \in Nat
    BY WorkerFacts, NotificationsAssumption
<1>1. /\ lastId \in 0 .. MaxNotes
      /\ pc = [d \in Session |-> "idle"] /\ target = [r \in Request \cup Patcher |-> 0]
      /\ session = [d \in Dispatcher |-> [n \in Note |-> NoRow]]
      /\ todo = [d \in Dispatcher |-> {}] /\ faults = 0
      /\ attempts = [n \in Note |-> 0] /\ delivered = [n \in Note |-> 0]
      /\ excused = [n \in Note |-> 0]
    BY DEF Init
<1>5. \A n \in Note : notes[n] # NoRow =>
        /\ n <= lastId /\ notes[n] \in NoteRow /\ notes[n].state = "pending"
        /\ notes[n].retries = 0 /\ notes[n].kind = "reminder"
    BY InitialRows
<1>6. \A d \in Dispatcher, n \in Note : ~IsLoaded(d, n)
    BY <1>1 DEF IsLoaded
<1>7. Tried(Worker) = {}
    BY <1>0, <1>6 DEF Tried, IsLoaded
<1>8. TypeOK
    <2>1. notes \in [Note -> {NoRow} \cup NoteRow] /\ status \in [Booking -> Status]
        BY InitialRows
    <2> QED
        BY <1>1, <2>1, NotificationsAssumption DEF TypeOK
<1>9. SessionShaped /\ KeysAreKept
    BY <1>0, <1>1, <1>5, <1>6, SessionFacts DEF SessionShaped, KeysAreKept
<1>10. WorkerAlone /\ OneBookingInHand
    BY <1>0, <1>6, <1>7 DEF WorkerAlone, OneBookingInHand
<1>v. ReviewsComeLate
    BY <1>0, <1>1, <1>5, <1>6, SessionFacts DEF ReviewsComeLate
<1>11. PurgedTogether
    BY <1>0, <1>6 DEF PurgedTogether
<1>12. AllAccounted
    BY <1>0, <1>1, <1>5, <1>7 DEF AllAccounted, Accounts
<1> QED
    BY <1>8, <1>9, <1>10, <1>v, <1>11, <1>12 DEF IndInv

-----------------------------------------------------------------------------
(* Every step keeps the invariant, a step of nothing included. *)

LEMMA StutterInv ==
    ASSUME IndInv, UNCHANGED vars
    PROVE  IndInv'
BY DEF vars, countVars, IndInv, TypeOK, SessionShaped, KeysAreKept, WorkerAlone,
       OneBookingInHand, ReviewsComeLate, PurgedTogether, AllAccounted, Ahead, Accounts,
       IsLoaded, Tried

LEMMA NextInv ==
    ASSUME IndInv, [Next]_vars
    PROVE  IndInv'
<1>1. ASSUME NEW r \in Request, Create(r) \/ Cancel(r) \/ Reschedule(r)
      PROVE  IndInv'
    BY <1>1, RequestInv
<1>p. ASSUME NEW p \in Patcher, Patch(p) \/ Refresh(p) \/ EnqueueReview(p)
      PROVE  IndInv'
    BY <1>p, PatchInv, RefreshInv
<1>2. ASSUME NEW r \in Request, SelectMessages(r)
      PROVE  IndInv'
    BY <1>2, SelectMessagesInv
<1>3. CASE SelectDue
    BY <1>3, SelectDueInv
<1>4. ASSUME NEW d \in Dispatcher, Dispatch(d)
      PROVE  IndInv'
    <2>1. CASE Send(d)
        BY <2>1, RequestSendInv, WorkerSendInv DEF Dispatcher
    <2>2. CASE CommitTried(d)
        BY <2>2, RequestCommitInv, WorkerCommitInv DEF Dispatcher
    <2>3. CASE CommitStale(d)
        BY <2>3, CommitStaleInv
    <2> QED
        BY <1>4, <2>1, <2>2, <2>3 DEF Dispatch
<1>5. ASSUME NEW d \in Dispatcher, Fault(d)
      PROVE  IndInv'
    BY <1>5, FaultInv
<1>6. CASE TimePasses
    BY <1>6, TimePassesInv
<1>7. CASE UNCHANGED vars
    BY <1>7, StutterInv
<1> QED
    BY <1>1, <1>p, <1>2, <1>3, <1>4, <1>5, <1>6, <1>7 DEF Next

(* The inductive invariant holds of the outbox, whatever is asked of it,   *)
(* refused, lost or crashed.                                               *)
THEOREM Invariance == Spec => []IndInv
<1>1. Init => IndInv
    BY InitInv
<1>2. IndInv /\ [Next]_vars => IndInv'
    BY NextInv
<1> QED
    BY <1>1, <1>2, PTL DEF Spec

(* Every variable has its type. *)
THEOREM TypeCorrect == Spec => []TypeOK
<1>1. IndInv => TypeOK
    BY DEF IndInv
<1> QED
    BY <1>1, Invariance, PTL

(* What the counters of a row say in any state of the invariant. *)
LEMMA CountersBounded ==
    ASSUME IndInv, NEW n \in Note, notes[n] # NoRow, IsScheduled(notes[n])
    PROVE  /\ attempts[n] <= MaxRetries + excused[n]
           /\ delivered[n] <= 1 + excused[n]
           /\ notes[n].state = "sent" => delivered[n] > 0
           /\ notes[n].state = "failed" => attempts[n] >= MaxRetries
<1>1. attempts[n] \in Nat /\ delivered[n] \in Nat /\ excused[n] \in Nat /\ MaxRetries \in Nat
    BY NotificationsAssumption DEF IndInv, TypeOK
<1>2. notes[n].retries \in Nat /\ notes[n].state \in {"pending", "sent", "failed"}
    BY Committed DEF IndInv, NoteRow
<1>3. CASE n \in Tried(Worker)
    <2>1. Ahead(n) /\ IsPending(notes[n])
        BY <1>3, WorkerFacts, TriedFacts DEF IndInv, AllAccounted, WorkerAlone
    <2> QED
        BY <1>1, <1>2, <2>1 DEF Ahead, IsPending
<1>4. CASE n \notin Tried(Worker)
    <2>1. Accounts(notes[n], n)
        BY <1>4 DEF IndInv, AllAccounted
    <2> QED
        BY <1>1, <1>2, <2>1 DEF Accounts
<1> QED
    BY <1>3, <1>4

(* A reminder or review request is tried MAX_RETRIES times at most, and    *)
(* once more for each outcome that got lost.                               *)
THEOREM AttemptsAreBounded == Spec => []AttemptsBounded
<1>1. IndInv => AttemptsBounded
    BY CountersBounded DEF AttemptsBounded
<1> QED
    BY <1>1, Invariance, PTL

(* Nobody gets a reminder twice unless an outcome got lost, be it that the *)
(* batch it was in has failed for another booking's sake.                  *)
THEOREM DeliveredAtMostOnce == Spec => []DeliveredOnce
<1>1. IndInv => DeliveredOnce
    BY CountersBounded DEF DeliveredOnce
<1> QED
    BY <1>1, Invariance, PTL

(* A row marked as sent has been delivered, and a row given up has had all *)
(* its attempts.                                                           *)
THEOREM StatusTellsTruth == Spec => []SettledTruly
<1>1. IndInv => SettledTruly
    BY CountersBounded DEF SettledTruly
<1> QED
    BY <1>1, Invariance, PTL

(* What a commit leaves to a cancelled booking. *)
LEMMA CommitLeavesOver ==
    ASSUME IndInv, NEW r \in Request \cup Patcher, NEW b \in Booking, NEW new \in Status, NEW label,
           NEW table \in {notes, Purged(b)}, NEW rows \in Seq(NewRows(b)),
           Commits(r, b, new, table, rows, label),
           new # "cancelled" \/ new = status[b] \/ table = Purged(b),
           NEW n \in Note, LeftOver(n)'
    PROVE  LeftOver(n) \/ n > lastId
<1>1. RowAfter(b, table, rows, n)
    BY CommitsRows
<1>2. lastId \in Nat /\ n \in Nat /\ notes'[n] # NoRow
    BY NoRowFacts, NotificationsAssumption DEF IndInv, TypeOK, Note, LeftOver
<1>3. CASE notes'[n] = notes[n] /\ notes[n] # NoRow /\ table[n] = notes[n]
    <2>1. notes[n].booking \in Booking
        BY <1>3, Committed DEF IndInv, NoteRow
    <2>2. \A x \in Booking : status'[x] = IF x = b THEN new ELSE status[x]
        BY DEF Commits, IndInv, TypeOK
    <2>3. IsPending(notes[n]) /\ notes[n].kind = "reminder" /\ status'[notes[n].booking] = "cancelled"
        BY <1>3 DEF LeftOver
    <2>4. notes[n].booking = b => table # Purged(b)
        BY <1>3, <2>3 DEF Purged
    <2> QED
        BY <2>1, <2>2, <2>3, <2>4 DEF LeftOver
<1> QED
    BY <1>1, <1>2, <1>3 DEF RowAfter

LEMMA StepLeavesOver ==
    ASSUME IndInv, [Next]_vars, NEW n \in Note, LeftOver(n)'
    PROVE  LeftOver(n) \/ n > lastId
<1>0. /\ TypeOK /\ \A b \in Booking : status[b] \in Status
      /\ notes'[n] # NoRow
    BY NoRowFacts DEF IndInv, TypeOK, LeftOver
<1>1. ASSUME NEW r \in Request, Create(r)
      PROVE  LeftOver(n) \/ n > lastId
    BY <1>1, Created, CommitLeavesOver DEF SafeCommit, Status
<1>2. ASSUME NEW r \in Request, Cancel(r)
      PROVE  LeftOver(n) \/ n > lastId
    BY <1>2, Cancelled, CommitLeavesOver DEF SafeCommit, Status
<1>3. ASSUME NEW r \in Request, Reschedule(r)
      PROVE  LeftOver(n) \/ n > lastId
    BY <1>0, <1>3, Moved, CommitLeavesOver DEF SafeCommit
<1>4. ASSUME NEW p \in Patcher, Patch(p)
      PROVE  LeftOver(n) \/ n > lastId
    <2>0. PICK b \in Booking : \E new \in {"completed", "noshow", status[b]}, label \in {"idle", "refresh"} :
            SafeCommit(p, b, new, notes, <<>>, label)
        BY <1>4, Marked
    <2>1. PICK new \in {"completed", "noshow", status[b]}, label \in {"idle", "refresh"} :
            SafeCommit(p, b, new, notes, <<>>, label)
        BY <2>0
    <2>2. new \in Status /\ <<>> \in Seq(NewRows(b))
        BY <1>0 DEF Status
    <2> QED
        BY <2>1, <2>2, CommitLeavesOver DEF SafeCommit
<1>5. ASSUME NEW p \in Patcher, EnqueueReview(p)
      PROVE  LeftOver(n) \/ n > lastId
    BY <1>0, <1>5, Asked, CommitLeavesOver DEF SafeCommit
<1>6. CASE UNCHANGED <<status, notes>>
    BY <1>6 DEF LeftOver
<1>7. ASSUME NEW d \in Dispatcher, CommitTried(d)
      PROVE  LeftOver(n)
    <2>1. CommitEffect(d) /\ SameNotification(n)
        BY <1>7, CommitFacts, CommitShaped
    <2>2. CASE n \notin Tried(d)
        BY <2>1, <2>2 DEF CommitEffect, LeftOver
    <2>3. CASE n \in Tried(d)
        <3>1. IsLoaded(d, n) /\ notes[n] # NoRow /\ notes[n].kind = "reminder"
              /\ notes[n].kind = session[d][n].kind
            BY <1>0, <2>1, <2>3, TriedFacts
               DEF CommitEffect, SameNotification, LeftOver, IndInv, KeysAreKept
        <3>2. d = Worker
            BY <3>1 DEF IndInv, SessionShaped, IsScheduled
        <3>3. IsPending(notes[n])
            BY <3>1, <3>2 DEF IndInv, WorkerAlone
        <3> QED
            BY <2>1, <3>1, <3>3 DEF LeftOver, SameNotification, CommitEffect
    <2> QED
        BY <2>2, <2>3
<1>8. CASE TimePasses
    <2>1. notes[n] \in {NoRow} \cup NoteRow /\ notes'[n] = Sooner(notes[n]) /\ status' = status
        BY <1>0, <1>8 DEF TypeOK, TimePasses
    <2>2. ButForWait(notes[n], notes'[n])
        BY <2>1, SoonerFacts
    <2> QED
        BY <1>0, <2>1, <2>2 DEF LeftOver, ButForWait, IsPending
<1>9. ASSUME NEW r \in Request, SelectMessages(r)
      PROVE  UNCHANGED <<status, notes>>
    BY <1>9 DEF SelectMessages
<1>10. ASSUME NEW p \in Patcher, Refresh(p)
       PROVE  UNCHANGED <<status, notes>>
    BY <1>10 DEF Refresh
<1>11. SelectDue => UNCHANGED <<status, notes>>
    BY DEF SelectDue
<1>12. ASSUME NEW d \in Dispatcher, Send(d) \/ CommitStale(d) \/ Fault(d)
       PROVE  UNCHANGED <<status, notes>>
    BY <1>12 DEF Send, CommitStale, Fault
<1>13. UNCHANGED vars => UNCHANGED <<status, notes>>
    BY DEF vars
<1> QED
    BY <1>1, <1>2, <1>3, <1>4, <1>5, <1>6, <1>7, <1>8, <1>9, <1>10, <1>11, <1>12, <1>13 DEF Next, Dispatch

(* A cancellation takes all reminders back and the worker brings none      *)
(* back: what is left to a cancelled booking has been written after its    *)
(* cancellation, by a request that did not know of it.                     *)
THEOREM CancelledStaysPurged == Spec => CancelledIsPurged
<1>1. IndInv /\ [Next]_vars => [\A n \in Note : LeftOver(n)' => LeftOver(n) \/ n > lastId]_vars
    BY StepLeavesOver
<1> QED
    BY <1>1, Invariance, PTL DEF Spec, CancelledIsPurged

-----------------------------------------------------------------------------
(* Notifications implements Outbox *)

(* The names of module Outbox for the rows of Notifications. *)
LEMMA SameRows == NotificationsOutbox!Gone = NoRow
BY DEF NotificationsOutbox!Gone, NoRow

LEMMA ShownFacts ==
    ASSUME NEW row \in NoteRow
    PROVE  /\ Shown(row) \in NotificationsOutbox!Row /\ Shown(row) # NoRow
           /\ Shown(row).booking = row.booking /\ Shown(row).kind = row.kind
           /\ Shown(row).state = row.state /\ Shown(row).retries = row.retries
<1>1. row # NoRow
    BY NoRowFacts
<1>2. Shown(row) = [booking |-> row.booking, kind |-> row.kind, state |-> row.state,
                    retries |-> row.retries]
    BY <1>1 DEF Shown
<1>3. /\ row.booking \in Booking /\ row.kind \in {"message", "reminder", "review"}
      /\ row.state \in {"pending", "sent", "failed"} /\ row.retries \in Nat
    BY DEF NoteRow
<1> QED
    BY <1>2, <1>3, NoRowFacts DEF NotificationsOutbox!Row

LEMMA NothingShown == Shown(NoRow) = NoRow
BY DEF Shown

(* A retry and an outcome, as they show. *)
LEMMA ShownAfter ==
    ASSUME NEW row \in NoteRow, NEW next \in NoteRow,
           next.booking = row.booking, next.kind = row.kind
    PROVE  /\ next.state = row.state => Shown(next) = [Shown(row) EXCEPT !.retries = next.retries]
           /\ next.retries = row.retries => Shown(next) = [Shown(row) EXCEPT !.state = next.state]
<1>1. next # NoRow /\ row # NoRow
    BY NoRowFacts
<1>2. Shown(next) = [booking |-> row.booking, kind |-> row.kind, state |-> next.state,
                     retries |-> next.retries]
    BY <1>1 DEF Shown
<1>3. Shown(row) = [booking |-> row.booking, kind |-> row.kind, state |-> row.state,
                    retries |-> row.retries]
    BY <1>1 DEF Shown
<1> QED
    BY <1>2, <1>3

(* The table as the outbox shows it is a table of its rows. *)
LEMMA ShownType ==
    ASSUME NEW table \in [Note -> {NoRow} \cup NoteRow]
    PROVE  [n \in Note |-> Shown(table[n])] \in [Note -> {NoRow} \cup NotificationsOutbox!Row]
<1>1. \A n \in Note : Shown(table[n]) \in {NoRow} \cup NotificationsOutbox!Row
    BY ShownFacts, NothingShown
<1> QED
    BY <1>1

(* The rows of the bookings there are make a beginning of the outbox. *)
LEMMA InitialOutbox == Init => NotificationsOutbox!OutboxInit
<1> SUFFICES ASSUME Init PROVE NotificationsOutbox!OutboxInit
    OBVIOUS
<1>0. TypeOK
    BY InitInv DEF IndInv
<1>1. lastId \in Nat
    BY NotificationsAssumption DEF Init
<1>2. status \in [Booking -> NotificationsOutbox!Status]
    BY <1>0 DEF TypeOK, Status, NotificationsOutbox!Status
<1>3. [n \in Note |-> Shown(notes[n])] \in [Note -> {NoRow} \cup NotificationsOutbox!Row]
    BY <1>0, ShownType DEF TypeOK
<1>5. ASSUME NEW n \in Note, Shown(notes[n]) # NoRow
      PROVE  /\ n <= lastId
             /\ Shown(notes[n]).kind = "reminder" /\ NotificationsOutbox!Untouched(Shown(notes[n]))
             /\ status[Shown(notes[n]).booking] = "active"
    <2>1. notes[n] # NoRow
        BY <1>5, NothingShown
    <2> QED
        BY <2>1, InitialRows, ShownFacts DEF NotificationsOutbox!Untouched
<1> QED
    BY <1>1, <1>2, <1>3, <1>5, SameRows DEF NotificationsOutbox!OutboxInit

(* What a commit brings and keeps, key by key. *)
CommitShown(b, new, table, rows, kinds) ==
    /\ status' = [status EXCEPT ![b] = new]
    /\ lastId' = lastId + Len(rows)
    /\ NotificationsOutbox!Brings(b, kinds)
    /\ table = notes => NotificationsOutbox!Keeps({})
    /\ table = Purged(b) => NotificationsOutbox!Keeps(NotificationsOutbox!PendingReminders(b))

LEMMA CommitShows ==
    ASSUME IndInv, NEW r \in Request \cup Patcher, NEW b \in Booking,
           NEW new \in Status, NEW label \in {"select", "idle", "refresh"},
           NEW table \in {notes, Purged(b)}, NEW rows \in Seq(NewRows(b)),
           SafeCommit(r, b, new, table, rows, label),
           NEW kinds, \A i \in DOMAIN rows : rows[i].kind \in kinds
    PROVE  CommitShown(b, new, table, rows, kinds)
<1>0. /\ TypeOK
      /\ lastId \in Nat /\ Note \subseteq Nat /\ Len(rows) \in Nat
      /\ \A i \in 1..Len(rows) : rows[i] \in NewRows(b) /\ i \in DOMAIN rows
    <2>1. lastId \in Nat /\ Note \subseteq Nat
        BY NotificationsAssumption DEF IndInv, TypeOK, Note
    <2>2. Len(rows) \in Nat /\ \A i \in 1..Len(rows) : rows[i] \in NewRows(b) /\ i \in DOMAIN rows
        OBVIOUS
    <2> QED
        BY <2>1, <2>2 DEF IndInv
<1>1. /\ status' = [status EXCEPT ![b] = new]
      /\ lastId' = lastId + Len(rows)
      /\ \A n \in Note : notes'[n] = IF n \in (lastId + 1)..(lastId + Len(rows))
                                     THEN rows[n - lastId] ELSE table[n]
    BY DEF SafeCommit, Commits, Inserted
<1>2. lastId' >= lastId
    BY <1>0, <1>1
<1>3. ASSUME NEW n \in Note, n > lastId, n <= lastId'
      PROVE  /\ Shown(notes'[n]) \in NotificationsOutbox!Row
             /\ NotificationsOutbox!Untouched(Shown(notes'[n]))
             /\ Shown(notes'[n]).booking = b /\ Shown(notes'[n]).kind \in kinds
    <2>1. n - lastId \in 1..Len(rows) /\ n \in (lastId + 1)..(lastId + Len(rows))
        BY <1>0, <1>1, <1>3
    <2>2. notes'[n] \in NewRows(b) /\ notes'[n].kind \in kinds
        BY <1>0, <1>1, <2>1
    <2> QED
        BY <2>2, ShownFacts DEF NewRows, NotificationsOutbox!Untouched
<1>4. NotificationsOutbox!Brings(b, kinds)
    BY <1>2, <1>3 DEF NotificationsOutbox!Brings
<1>5. ASSUME NEW n \in Note, ~(n > lastId /\ n <= lastId')
      PROVE  notes'[n] = table[n]
    BY <1>0, <1>1, <1>5
<1>6. ASSUME NEW n \in Note
      PROVE  n \in NotificationsOutbox!PendingReminders(b) <=>
                IsPending(notes[n]) /\ notes[n].kind = "reminder" /\ notes[n].booking = b
    <2>1. CASE notes[n] = NoRow
        BY <2>1, NothingShown, NoRowFacts, SameRows DEF NotificationsOutbox!PendingReminders
    <2>2. CASE notes[n] # NoRow
        BY <1>0, <2>2, Committed, ShownFacts, SameRows
           DEF NotificationsOutbox!PendingReminders, IsPending
    <2> QED
        BY <2>1, <2>2
<1>7. table = notes => NotificationsOutbox!Keeps({})
    BY <1>5 DEF NotificationsOutbox!Keeps
<1>8. ASSUME table = Purged(b)
      PROVE  NotificationsOutbox!Keeps(NotificationsOutbox!PendingReminders(b))
    <2>1. ASSUME NEW n \in Note, ~(n > lastId /\ n <= lastId')
          PROVE  Shown(notes'[n]) = IF n \in NotificationsOutbox!PendingReminders(b)
                                    THEN NoRow ELSE Shown(notes[n])
        BY <1>5, <1>6, <1>8, <2>1, NothingShown DEF Purged
    <2> QED
        BY <2>1, SameRows DEF NotificationsOutbox!Keeps
<1> QED
    BY <1>1, <1>4, <1>7, <1>8 DEF CommitShown

(* Each request that fills the outbox is a step of it. *)
LEMMA RequestShows ==
    ASSUME IndInv, NEW r \in Request, Create(r) \/ Cancel(r) \/ Reschedule(r)
    PROVE  NotificationsOutbox!OutboxNext
<1>0. r \in Request \cup Patcher
    OBVIOUS
<1>1. CASE Create(r)
    <2>1. PICK b \in Booking : \E rows \in Seq(NewRows(b)) :
            /\ status[b] = "none" /\ SafeCommit(r, b, "active", notes, rows, "select")
            /\ \A i \in DOMAIN rows : rows[i].kind \in {"message", "reminder"}
        BY <1>1, Created
    <2>2. PICK rows \in Seq(NewRows(b)) :
            CommitShown(b, "active", notes, rows, {"message", "reminder"})
        <3>1. "active" \in Status /\ notes \in {notes, Purged(b)}
            BY DEF Status
        <3> QED
            BY <1>0, <2>1, <3>1, CommitShows
    <2> QED
        BY <2>1, <2>2 DEF CommitShown, NotificationsOutbox!OutboxNext, NotificationsOutbox!Book
<1>2. CASE Cancel(r)
    <2>1. PICK b \in Booking : \E rows \in Seq(NewRows(b)) :
            /\ status[b] # "none" /\ SafeCommit(r, b, "cancelled", Purged(b), rows, "select")
            /\ \A i \in DOMAIN rows : rows[i].kind = "message"
        BY <1>2, Cancelled
    <2>2. PICK rows \in Seq(NewRows(b)) :
            CommitShown(b, "cancelled", Purged(b), rows, {"message"})
        <3>1. "cancelled" \in Status /\ Purged(b) \in {notes, Purged(b)}
            BY DEF Status
        <3> QED
            BY <1>0, <2>1, <3>1, CommitShows
    <2> QED
        BY <2>1, <2>2 DEF CommitShown, NotificationsOutbox!OutboxNext, NotificationsOutbox!Cancel
<1>3. CASE Reschedule(r)
    <2>1. PICK b \in Booking : \E rows \in Seq(NewRows(b)) :
            /\ status[b] # "none" /\ SafeCommit(r, b, status[b], Purged(b), rows, "select")
            /\ \A i \in DOMAIN rows : rows[i].kind \in {"message", "reminder"}
        BY <1>3, Moved
    <2>2. PICK rows \in Seq(NewRows(b)) :
            CommitShown(b, status[b], Purged(b), rows, {"message", "reminder"})
        <3>1. status[b] \in Status /\ Purged(b) \in {notes, Purged(b)}
            BY DEF IndInv, TypeOK
        <3> QED
            BY <1>0, <2>1, <3>1, CommitShows
    <2>3. status' = status
        BY <2>2 DEF CommitShown, IndInv, TypeOK
    <2> QED
        BY <2>1, <2>2, <2>3 DEF CommitShown, NotificationsOutbox!OutboxNext, NotificationsOutbox!Move
<1> QED
    BY <1>1, <1>2, <1>3

(* A PATCH marks its booking, or changes nothing that the outbox knows of. *)
LEMMA PatchShows ==
    ASSUME IndInv, NEW p \in Patcher, Patch(p)
    PROVE  NotificationsOutbox!OutboxNext \/ UNCHANGED <<status, lastId, notes>>
<1>0. PICK b \in Booking : \E new \in {"completed", "noshow", status[b]}, label \in {"idle", "refresh"} :
        status[b] # "none" /\ Commits(p, b, new, notes, <<>>, label)
    BY Marked DEF SafeCommit
<1>1. PICK new \in {"completed", "noshow", status[b]}, label \in {"idle", "refresh"} :
        status[b] # "none" /\ Commits(p, b, new, notes, <<>>, label)
    BY <1>0
<1>2. status' = [status EXCEPT ![b] = new] /\ lastId' = lastId /\ notes' = notes
    <2>1. lastId \in Nat /\ Note \subseteq Nat
        BY NotificationsAssumption DEF IndInv, TypeOK, Note
    <2>2. Len(<<>>) = 0
        OBVIOUS
    <2>3. notes' = Inserted(notes, <<>>)
        BY <1>1 DEF Commits
    <2>4. (lastId + 1)..(lastId + 0) = {}
        BY <2>1
    <2>5. Inserted(notes, <<>>) = [n \in Note |-> notes[n]]
        BY <2>2, <2>4 DEF Inserted
    <2>6. notes' = notes
        BY <2>3, <2>5 DEF IndInv, TypeOK
    <2> QED
        BY <1>1, <2>1, <2>2, <2>6 DEF Commits
<1>3. CASE new \in {"completed", "noshow"}
    <2>1. NotificationsOutbox!Mark(b)
        BY <1>1, <1>2, <1>3 DEF NotificationsOutbox!Mark
    <2> QED
        BY <2>1 DEF NotificationsOutbox!OutboxNext
<1>4. CASE new = status[b]
    BY <1>2, <1>4 DEF IndInv, TypeOK
<1> QED
    BY <1>3, <1>4

(* A review request is asked for, or it is not wanted or there is one.     *)
LEMMA AskingShows ==
    ASSUME IndInv, NEW p \in Patcher, EnqueueReview(p)
    PROVE  NotificationsOutbox!OutboxNext \/ UNCHANGED NotificationsOutbox!outboxVars
<1>0. PICK b \in Booking : \E rows \in Seq(NewRows(b)) :
        /\ status[b] \notin {"none", "active"}
        /\ SafeCommit(p, b, status[b], notes, rows, "idle")
        /\ \A i \in DOMAIN rows : rows[i].kind = "review"
        /\ rows = <<>> \/ (Len(rows) = 1 /\ ~HasReview(b))
    BY Asked
<1>1. PICK rows \in Seq(NewRows(b)) :
        /\ status[b] \notin {"none", "active"}
        /\ SafeCommit(p, b, status[b], notes, rows, "idle")
        /\ \A i \in DOMAIN rows : rows[i].kind \in {"review"}
        /\ rows = <<>> \/ (Len(rows) = 1 /\ ~HasReview(b))
    BY <1>0
<1>2. /\ status' = [status EXCEPT ![b] = status[b]] /\ lastId' = lastId + Len(rows)
      /\ NotificationsOutbox!Brings(b, {"review"}) /\ NotificationsOutbox!Keeps({})
    <2>1. status[b] \in Status /\ notes \in {notes, Purged(b)} /\ p \in Request \cup Patcher
        BY DEF IndInv, TypeOK
    <2>2. CommitShown(b, status[b], notes, rows, {"review"})
        BY <1>1, <2>1, CommitShows
    <2> QED
        BY <2>2 DEF CommitShown
<1>3. status' = status /\ lastId \in Nat /\ Note \subseteq Nat
    BY <1>2, NotificationsAssumption DEF IndInv, TypeOK, Note
<1>4. CASE Len(rows) = 1 /\ ~HasReview(b)
    <2>1. \A n \in Note : Shown(notes[n]) # NoRow /\ Shown(notes[n]).booking = b =>
            Shown(notes[n]).kind # "review"
        BY <1>4, Committed, ShownFacts, NothingShown DEF IndInv, HasReview
    <2>2. NotificationsOutbox!AskReview(b)
        BY <1>1, <1>2, <1>3, <1>4, <2>1, SameRows DEF NotificationsOutbox!AskReview
    <2> QED
        BY <2>2 DEF NotificationsOutbox!OutboxNext
<1>5. CASE rows = <<>>
    <2>1. lastId' = lastId
        BY <1>2, <1>3, <1>5
    <2>2. \A n \in Note : Shown(notes'[n]) = Shown(notes[n])
        BY <1>3, <2>1, <1>2 DEF NotificationsOutbox!Keeps
    <2> QED
        BY <1>3, <2>1, <2>2 DEF NotificationsOutbox!outboxVars
<1> QED
    BY <1>1, <1>4, <1>5

(* What the worker commits is one attempt at each row of one booking. *)
LEMMA WorkerCommitIsATry ==
    ASSUME IndInv, CommitTried(Worker), NEW m \in Tried(Worker)
    PROVE  NotificationsOutbox!Try(session[Worker][m].booking)
<1> DEFINE b == session[Worker][m].booking
<1>0. Worker \in Dispatcher /\ TypeOK
    BY WorkerFacts DEF IndInv
<1>1. /\ status' = status /\ lastId' = lastId
      /\ \A n \in Note : notes'[n] = IF n \in Tried(Worker) THEN Flushed(Worker, n) ELSE notes[n]
      /\ \A n \in Tried(Worker) : n \in Note /\ IsLoaded(Worker, n) /\ n \notin todo[Worker]
                                  /\ notes[n] # NoRow
    BY <1>0, CommitFacts, TriedFacts DEF CommitEffect
<1>2. ASSUME NEW n \in Tried(Worker)
      PROVE  /\ NotificationsOutbox!Outstanding(Shown(notes[n]), b)
             /\ NotificationsOutbox!Attempted(Shown(notes[n]), Shown(notes'[n]))
    <2>1. /\ notes[n] \in NoteRow /\ session[Worker][n] \in NoteRow
          /\ notes'[n] = Flushed(Worker, n) /\ notes'[n] \in NoteRow
          /\ notes'[n].kind = notes[n].kind /\ notes'[n].booking = notes[n].booking
          /\ IsPending(session[Worker][n]) => /\ notes'[n].state = notes[n].state
                                              /\ notes'[n].retries = session[Worker][n].retries
          /\ ~IsPending(session[Worker][n]) => notes'[n].state = session[Worker][n].state
        BY <1>0, <1>1, Committed, Loaded, FlushedFacts
    <2>2. /\ IsPending(notes[n])
          /\ IsPending(session[Worker][n]) => session[Worker][n].retries = notes[n].retries + 1
        BY <1>1 DEF IndInv, WorkerAlone
    <2>3. notes[n].booking = b /\ notes[n].kind # "message"
        <3>1. /\ notes[n].booking = session[Worker][n].booking
              /\ notes[n].kind = session[Worker][n].kind
            BY <1>0, <1>1 DEF IndInv, KeysAreKept
        <3>2. session[Worker][n].booking = b
            BY DEF IndInv, OneBookingInHand
        <3>3. IsScheduled(session[Worker][n])
            BY <1>0, <1>1 DEF IndInv, SessionShaped
        <3> QED
            BY <3>1, <3>2, <3>3 DEF IsScheduled
    <2>4. /\ notes[n].retries < MaxRetries
          /\ IsPending(session[Worker][n]) => session[Worker][n].retries < MaxRetries
          /\ session[Worker][n].state = "failed" => MaxRetries <= notes[n].retries + 1
        <3>1. IsScheduled(notes[n])
            BY <1>1, <2>1, <2>3 DEF IsScheduled, NoteRow
        <3>2. Ahead(n)
            BY <1>1, <3>1 DEF IndInv, AllAccounted
        <3> QED
            BY <1>1, <3>2 DEF Ahead, Accounts, IsPending, IndInv, WorkerAlone
    <2>5. NotificationsOutbox!Outstanding(Shown(notes[n]), b)
        BY <2>1, <2>2, <2>3, ShownFacts, SameRows DEF NotificationsOutbox!Outstanding, IsPending
    <2>6. CASE IsPending(session[Worker][n])
        <3>1. Shown(notes'[n]) = [Shown(notes[n]) EXCEPT !.retries = notes'[n].retries]
            BY <2>1, <2>6, ShownAfter
        <3>2. notes'[n].retries = Shown(notes[n]).retries + 1
            BY <2>1, <2>2, <2>6, ShownFacts
        <3> QED
            BY <2>1, <2>2, <2>4, <2>5, <2>6, <3>1, <3>2, ShownFacts DEF NotificationsOutbox!Attempted
    <2>7. CASE ~IsPending(session[Worker][n])
        <3>1. Shown(notes'[n]) = [Shown(notes[n]) EXCEPT !.state = session[Worker][n].state]
            <4>1. notes'[n].retries = notes[n].retries
                BY <2>1, <2>7 DEF Flushed, NoteRow
            <4> QED
                BY <2>1, <2>7, <4>1, ShownAfter
        <3>2. session[Worker][n].state \in {"sent", "failed"}
            BY <2>1, <2>7 DEF IsPending, NoteRow
        <3>3. session[Worker][n].state = "failed" => Shown(notes[n]).retries + 1 = MaxRetries
            <4>1. notes[n].retries \in Nat /\ MaxRetries \in Nat
                BY <2>1, NotificationsAssumption DEF NoteRow
            <4> QED
                BY <2>1, <2>4, <4>1, ShownFacts
        <3> QED
            BY <2>5, <3>1, <3>2, <3>3 DEF NotificationsOutbox!Attempted
    <2> QED
        BY <2>6, <2>7, <2>5
<1> HIDE DEF b
<1>3. \A n \in Note : Shown(notes'[n]) # Shown(notes[n]) =>
            /\ NotificationsOutbox!Outstanding(Shown(notes[n]), b)
            /\ NotificationsOutbox!Attempted(Shown(notes[n]), Shown(notes'[n]))
    BY <1>1, <1>2
<1>4. NotificationsOutbox!Try(b)
    BY <1>1, <1>3 DEF NotificationsOutbox!Try
<1> QED
    BY <1>4 DEF b

(* What a request commits of its dispatch concerns messages only. *)
LEMMA RequestCommitDelivers ==
    ASSUME IndInv, NEW r \in Request, CommitTried(r)
    PROVE  NotificationsOutbox!Deliver
<1>0. r \in Dispatcher /\ r # Worker /\ TypeOK
    BY WorkerFacts DEF IndInv
<1>1. /\ status' = status /\ lastId' = lastId
      /\ \A n \in Note : notes'[n] = IF n \in Tried(r) THEN Flushed(r, n) ELSE notes[n]
      /\ \A n \in Tried(r) : n \in Note /\ IsLoaded(r, n) /\ notes[n] # NoRow
    BY <1>0, CommitFacts, TriedFacts DEF CommitEffect
<1>2. ASSUME NEW n \in Tried(r)
      PROVE  /\ Shown(notes[n]) # NoRow /\ Shown(notes[n]).kind = "message"
             /\ Shown(notes'[n]) \in NotificationsOutbox!Row
             /\ Shown(notes'[n]).kind = "message"
             /\ Shown(notes'[n]).booking = Shown(notes[n]).booking
             /\ Shown(notes'[n]).state = "pending" => Shown(notes[n]).state = "pending"
    <2>1. /\ notes[n] \in NoteRow /\ session[r][n] \in NoteRow
          /\ Flushed(r, n) \in NoteRow /\ notes'[n] = Flushed(r, n)
          /\ Flushed(r, n).kind = notes[n].kind /\ Flushed(r, n).booking = notes[n].booking
          /\ IsPending(session[r][n]) => Flushed(r, n).state = notes[n].state
          /\ ~IsPending(session[r][n]) => Flushed(r, n).state = session[r][n].state
        BY <1>0, <1>1, Committed, Loaded, FlushedFacts
    <2>2. notes[n].kind = "message"
        <3>1. notes[n].kind = session[r][n].kind /\ ~IsScheduled(session[r][n])
            BY <1>0, <1>1 DEF IndInv, KeysAreKept, SessionShaped
        <3> QED
            BY <2>1, <3>1 DEF IsScheduled, NoteRow
    <2>3. Flushed(r, n).state = "pending" => notes[n].state = "pending"
        BY <2>1 DEF IsPending
    <2> QED
        BY <2>1, <2>2, <2>3, ShownFacts
<1>3. \A n \in Note : Shown(notes'[n]) # Shown(notes[n]) =>
            /\ Shown(notes[n]) # NoRow /\ Shown(notes[n]).kind = "message"
            /\ Shown(notes'[n]) \in NotificationsOutbox!Row
            /\ Shown(notes'[n]).kind = "message"
            /\ Shown(notes'[n]).booking = Shown(notes[n]).booking
            /\ Shown(notes'[n]).state = "pending" => Shown(notes[n]).state = "pending"
    BY <1>1, <1>2
<1> QED
    BY <1>1, <1>3, SameRows DEF NotificationsOutbox!Deliver

(* Time and what a session does for itself do not show. *)
LEMMA NothingToSee ==
    ASSUME IndInv, \A n \in Note : Shown(notes'[n]) = Shown(notes[n]), UNCHANGED <<status, lastId>>
    PROVE  UNCHANGED NotificationsOutbox!outboxVars
BY DEF NotificationsOutbox!outboxVars

LEMMA TimeDoesNotShow ==
    ASSUME IndInv, TimePasses, NEW n \in Note
    PROVE  Shown(notes'[n]) = Shown(notes[n])
<1>1. notes[n] \in {NoRow} \cup NoteRow /\ notes'[n] = Sooner(notes[n])
    BY DEF IndInv, TypeOK, TimePasses
<1> QED
    BY <1>1, SoonerFacts DEF ButForWait, Shown

(* Every step is one of the outbox or leaves the table alone. *)
LEMMA StepIsOfTheOutbox ==
    ASSUME IndInv, [Next]_vars
    PROVE  [NotificationsOutbox!OutboxNext]_(NotificationsOutbox!outboxVars)
<1>1. ASSUME NEW r \in Request, Create(r) \/ Cancel(r) \/ Reschedule(r)
      PROVE  NotificationsOutbox!OutboxNext
    BY <1>1, RequestShows
<1>2. CASE UNCHANGED <<status, lastId, notes>>
    BY <1>2, NothingToSee
<1>3. ASSUME NEW d \in Dispatcher, CommitTried(d)
      PROVE  NotificationsOutbox!OutboxNext \/ UNCHANGED NotificationsOutbox!outboxVars
    <2>1. CASE d \in Request
        BY <1>3, <2>1, RequestCommitDelivers DEF NotificationsOutbox!OutboxNext
    <2>2. CASE d = Worker /\ Tried(Worker) # {}
        <3>1. PICK m \in Tried(Worker) : TRUE
            BY <2>2
        <3>2. session[Worker][m].booking \in Booking
            BY WorkerFacts, TriedFacts, Loaded DEF IndInv, NoteRow
        <3> QED
            BY <1>3, <2>2, <3>2, WorkerCommitIsATry DEF NotificationsOutbox!OutboxNext
    <2>3. CASE d = Worker /\ Tried(Worker) = {}
        <3>1. /\ \A n \in Note : notes'[n] = notes[n]
              /\ status' = status /\ lastId' = lastId
            BY <1>3, <2>3, CommitFacts DEF CommitEffect
        <3> QED
            BY <3>1, NothingToSee
    <2> QED
        BY <2>1, <2>2, <2>3 DEF Dispatcher
<1>4. CASE TimePasses
    <2>1. UNCHANGED <<status, lastId>>
        BY <1>4 DEF TimePasses
    <2> QED
        BY <1>4, <2>1, TimeDoesNotShow, NothingToSee
<1>5. CASE UNCHANGED vars
    BY <1>2, <1>5 DEF vars
<1>6. ASSUME NEW r \in Request, SelectMessages(r)
      PROVE  UNCHANGED <<status, lastId, notes>>
    BY <1>6 DEF SelectMessages
<1>7. CASE SelectDue
    BY <1>2, <1>7 DEF SelectDue
<1>9. ASSUME NEW p \in Patcher, Patch(p)
      PROVE  NotificationsOutbox!OutboxNext \/ UNCHANGED <<status, lastId, notes>>
    BY <1>9, PatchShows
<1>10. ASSUME NEW p \in Patcher, Refresh(p)
       PROVE  UNCHANGED <<status, lastId, notes>>
    BY <1>10 DEF Refresh
<1>11. ASSUME NEW p \in Patcher, EnqueueReview(p)
       PROVE  NotificationsOutbox!OutboxNext \/ UNCHANGED NotificationsOutbox!outboxVars
    BY <1>11, AskingShows
<1>8. ASSUME NEW d \in Dispatcher, Send(d) \/ CommitStale(d) \/ Fault(d)
      PROVE  UNCHANGED <<status, lastId, notes>>
    BY <1>8 DEF Send, CommitStale, Fault
<1> QED
    BY <1>1, <1>2, <1>3, <1>4, <1>5, <1>6, <1>7, <1>8, <1>9, <1>10, <1>11 DEF Next, Dispatch

(* Read, sent and written back in steps of many sessions, the outbox is    *)
(* still the table that its users rely on: every commit of the worker is   *)
(* one attempt at rows as they are then, and nothing that is settled or    *)
(* gone comes back.                                                        *)
THEOREM Refinement == Spec => RefinesOutbox
<1>1. Init => NotificationsOutbox!OutboxInit
    BY InitialOutbox
<1>2. IndInv /\ [Next]_vars => [NotificationsOutbox!OutboxNext]_(NotificationsOutbox!outboxVars)
    BY StepIsOfTheOutbox
<1> QED
    BY <1>1, <1>2, Invariance, PTL DEF Spec, RefinesOutbox, NotificationsOutbox!OutboxSpec
=================================================================================
