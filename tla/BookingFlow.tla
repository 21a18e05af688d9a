------------------------------- MODULE BookingFlow -------------------------------
(***************************************************************************)
(* A client's mini app: the booking wizard with its store, the client's    *)
(* own bookings with cancelling and rescheduling, the query cache of the   *)
(* free times and of the bookings, and requests whose answers arrive       *)
(* whatever page is shown by then.                                         *)
(*                                                                         *)
(* The server is its sequence of committed states; other users and lost    *)
(* answers are part of the environment.  The catalogue does not change.    *)
(***************************************************************************)
EXTENDS QueryCache, FiniteSets, Sequences

CONSTANTS
    Branches, Services, Staff, Dates,
    Offered,       \* who performs what where: <<branch, service, staff>>
    Starts,        \* instants a booking may start at
    DayOf,         \* the date each of them is on
    Today,         \* the date RescheduleWizardPage opens with
    Bookings,      \* primary keys
    Before,        \* the bookings the client may come with, at most one
    Unset,         \* null in the store
    MaxWrites,     \* bound on the writes the server commits
    MaxRequests,   \* bound on the changes the client asks for
    MaxDetours     \* bound on the pages opened outside the wizard's own order,
                   \* the answers lost and the changes others make, together

ASSUME BookingFlowAssumption ==
    /\ Offered \subseteq Branches \X Services \X Staff
    /\ DayOf \in [Starts -> Dates]
    /\ Today \in Dates
    /\ Before \subseteq [service : Services, staff : Staff, start : Starts]
    /\ \A v \in Before : \E o \in Offered : o[2] = v.service /\ o[3] = v.staff
    /\ Unset \notin Branches \cup Services \cup Staff \cup Dates \cup Starts \cup Bookings
    /\ {MaxWrites, MaxRequests} \subseteq Nat /\ MaxDetours \in Nat \ {0}

VARIABLES
    history,   \* the server's states, the latest last
    route,     \* the page shown
    target,    \* the booking its path names
    flow,      \* booking-flow-store
    pick,      \* date and time chosen on RescheduleWizardPage
    timers,    \* redirects of ConfirmStep that are due
    requests,  \* the changes asked for, in order
    slots,     \* cache entries ["slots", service, staff, date]
    mine,      \* cache entry ["bookings", "my"]
    acked,     \* position of the latest change acknowledged to the client
    detours    \* counted against MaxDetours

vars == <<history, route, target, flow, pick, timers, requests, slots, mine, acked,
          detours>>

Detour == detours < MaxDetours /\ detours' = detours + 1

Opt(S) == S \cup {Unset}

-----------------------------------------------------------------------------
(* The server *)

Visit == [service : Services, staff : Staff, start : Starts]
NoVisit == [service |-> Unset, staff |-> Unset, start |-> Unset]

\* mine: the client's bookings; active: those pending or confirmed;
\* others: the times other bookings take.
Database == [mine : [Bookings -> Visit \cup {NoVisit}],
             active : SUBSET Bookings,
             others : SUBSET (Staff \X Starts)]

Now == Len(history) - 1
At(pos) == history[pos + 1]
Latest == At(Now)

Taken(db) ==
    db.others \cup {<<db.mine[b].staff, db.mine[b].start>> : b \in db.active}

Key == [service : Services, staff : Staff, date : Dates]

\* The answer of GET /slots for the key.
FreeStarts(k, db) ==
    {t \in Starts : DayOf[t] = k.date /\ <<k.staff, t>> \notin Taken(db)}

\* GET /services and GET /staff, with the branch chosen if there is one.
ServicesIn(b) ==
    {s \in Services : \E o \in Offered : o[2] = s /\ b \in {o[1], Unset}}
StaffFor(s, b) ==
    {m \in Staff : \E o \in Offered : o[2] = s /\ o[3] = m /\ b \in {o[1], Unset}}

Commits(db) == Now < MaxWrites /\ history' = Append(history, db)

-----------------------------------------------------------------------------
(* The store *)

Flow == [branch : Opt(Branches), service : Opt(Services), staff : Opt(Staff),
         date : Opt(Dates), start : Opt(Starts)]

EmptyFlow == [branch |-> Unset, service |-> Unset, staff |-> Unset,
              date |-> Unset, start |-> Unset]

SetBranch(b) == [EmptyFlow EXCEPT !.branch = b]
SetService(s) == [EmptyFlow EXCEPT !.branch = flow.branch, !.service = s]
SetStaff(m) == [flow EXCEPT !.staff = m, !.date = Unset, !.start = Unset]
\* Mutant: the time chosen for another day is kept.
SetDateOnly(d) == [flow EXCEPT !.date = d]

SetDate(d) == [flow EXCEPT !.date = d, !.start = Unset]
\* Mutant: the day is stored for the time.
SetStartToDay(t) == [flow EXCEPT !.start = DayOf[t]]

SetStart(t) == [flow EXCEPT !.start = t]

-----------------------------------------------------------------------------
(* Pages *)

Steps == {"branch", "service", "staff", "date", "time", "confirm"}
Pages == Steps \cup {"catalogue", "success",
                     "bookings", "booking", "reschedule"}
ListPages == {"bookings", "booking", "reschedule"}

NoPick == [date |-> Today, start |-> Unset]

(***************************************************************************)
(* The page on which the guards of the steps leave a client who opens page *)
(* p with store f: each guard replaces the path before anything is shown.  *)
(***************************************************************************)
Landing(p, f) ==
    LET date == IF f.service = Unset THEN "service"
                ELSE IF f.staff = Unset THEN "staff" ELSE "date"
        time == IF f.date = Unset THEN date ELSE "time"
    IN  CASE p = "staff" /\ f.service = Unset -> "service"
          [] p = "date" -> date
          [] p = "time" -> time
          [] p = "confirm" /\ f.service = Unset -> "service"
          [] p = "confirm" /\ f.service # Unset /\ f.staff = Unset -> "staff"
          [] p = "confirm" /\ Unset \notin {f.service, f.staff} /\ f.start = Unset -> time
          [] OTHER -> p

\* The booking a page of the client's bookings is about, as the cache has it.
Known(e) == IF e.at = None THEN {} ELSE {b \in Bookings : At(e.at).mine[b] # NoVisit}
Shown(e, b) == At(e.at).mine[b]

\* The slots entries a page observes: useSlotsForDay with its arguments.
Observed(p, b, f, d, e) ==
    CASE p = "time" /\ Unset \notin {f.service, f.staff, f.date} ->
            {[service |-> f.service, staff |-> f.staff, date |-> f.date]}
      [] p = "reschedule" /\ b \in Known(e) ->
            {[service |-> Shown(e, b).service, staff |-> Shown(e, b).staff, date |-> d]}
      [] OTHER -> {}

InUse == Observed(route, target, flow, pick.date, mine)
ListInUse == route \in ListPages

\* Every key that comes into use mounts its entry.
Mounts(cache, keys) ==
    \E expired \in SUBSET keys :
        slots' = [k \in Key |-> IF k \in keys
                                THEN OnMount(cache[k], Now, k \in expired)
                                ELSE cache[k]]
MountsList(e, inUse) ==
    mine' \in IF inUse THEN {OnMount(e, Now, x) : x \in BOOLEAN} ELSE {e}

\* Mutant: no cleanup on leaving.
NotCleared(due) == due

\* The effect's cleanup: clearTimeout of what the ref holds.
Cleared(due) == due \ {"held"}

(***************************************************************************)
(* The client is taken to page p about booking b, with store f and what    *)
(* the caches hold: the old page unmounts, which clears the timer its ref  *)
(* holds and leaves its requests to themselves; the new one mounts.        *)
(***************************************************************************)
GoesWith(p, b, f, cache, list, asked, due) ==
    LET q == Landing(p, f)
        kept == IF q = "success" THEN EmptyFlow ELSE f
    IN  /\ route' = q
        /\ target' = b
        /\ flow' = kept
        /\ IF q = route
           THEN UNCHANGED pick /\ timers' = due /\ requests' = asked
           ELSE /\ pick' = NoPick
                /\ timers' = Cleared(due)
                /\ requests' = [i \in DOMAIN asked |-> [asked[i] EXCEPT !.here = FALSE]]
        /\ MountsList(list, q \in ListPages /\ q # route)
        /\ Mounts(cache, Observed(q, b, kept, pick'.date, list)
                             \ IF q = route THEN InUse ELSE {})

Goes(p, b, f) == GoesWith(p, b, f, slots, mine, requests, timers)

-----------------------------------------------------------------------------
(* Requests *)

Request == [kind : {"create", "move", "cancel"},
            visit : Visit \cup {NoVisit},
            booking : Opt(Bookings),
            here : BOOLEAN,     \* the component that awaits it is mounted
            state : {"sent", "made", "taken", "failed", "over"},
            pos : Nat]

\* Mutant: the button stays enabled.
NeverPending(kind) == FALSE

Awaited(r) == r.here /\ r.state # "over"

IsPending(kind) ==
    \E i \in DOMAIN requests : requests[i].kind = kind /\ Awaited(requests[i])

\* mutateAsync
Sends(kind, visit, b) ==
    /\ Len(requests) < MaxRequests
    /\ ~IsPending(kind)
    /\ requests' = Append(requests,
            [kind |-> kind, visit |-> visit, booking |-> b, here |-> TRUE,
             state |-> "sent", pos |-> 0])
    /\ UNCHANGED <<history, route, target, flow, pick, timers, slots, mine, acked, detours>>

-----------------------------------------------------------------------------
(* What the client does *)

\* One of the two buttons of OnboardingPage has been pressed, or the app has
\* been loaded anew on a reschedule page.
MountsFirst == mine = IF route \in ListPages THEN Asked(Empty, 0) ELSE Empty

Init ==
    /\ history \in {<<db>> : db \in
           {[mine |-> m, active |-> {b \in Bookings : m[b] # NoVisit}, others |-> {}] :
               m \in [Bookings -> Before \cup {NoVisit}]}}
    /\ Cardinality(Latest.active) <= 1
    /\ route \in {"branch", "bookings", "reschedule"}
    /\ target \in IF route = "reschedule" THEN Bookings ELSE {Unset}
    /\ flow = EmptyFlow /\ pick = NoPick
    /\ timers = {} /\ requests = <<>>
    /\ slots = [k \in Key |-> Empty]
    /\ MountsFirst
    /\ acked = 0 /\ detours = IF route = "reschedule" THEN 1 ELSE 0

\* A link, the Telegram back button, or the browser's back and forward.
Open(p, b) ==
    /\ p # route \/ b # target
    /\ (p \in {"booking", "reschedule"}) = (b # Unset)
    /\ b \in Opt(Known(mine))
    /\ p # "success"
    /\ Goes(p, b, flow)
    /\ Detour
    /\ UNCHANGED <<history, acked>>

\* A choice on a step, or BranchStep skipping itself with one branch.
Choose(p, f) == Goes(p, Unset, f) /\ UNCHANGED <<history, acked, detours>>

SelectBranch(b) == route = "branch" /\ Choose("service", SetBranch(b))

SelectService(s) ==
    /\ \/ route = "service" /\ s \in ServicesIn(flow.branch)
       \/ route = "catalogue"
    /\ Choose("staff", SetService(s))

SelectStaff(m) ==
    /\ route = "staff" /\ m \in StaffFor(flow.service, flow.branch)
    /\ Choose("date", SetStaff(m))

SelectDate(d) == route = "date" /\ Choose("time", SetDate(d))

SelectTime(t) ==
    /\ route = "time"
    /\ \E k \in InUse : slots[k].at # None /\ t \in FreeStarts(k, At(slots[k].at))
    /\ flow' = SetStart(t)
    /\ UNCHANGED <<history, route, target, pick, timers, requests, slots, mine, acked, detours>>

TimeChosen == route = "time" /\ flow.start # Unset /\ Choose("confirm", flow)

Confirm ==
    /\ route = "confirm" /\ flow.start # Unset
    /\ Sends("create",
             [service |-> flow.service, staff |-> flow.staff, start |-> flow.start], Unset)

\* handleSelectDate
PickDate(d) ==
    /\ route = "reschedule" /\ target \in Known(mine) /\ d # pick.date
    /\ pick' = [date |-> d, start |-> Unset]
    /\ Mounts(slots, Observed(route, target, flow, d, mine))
    /\ UNCHANGED <<history, route, target, flow, timers, requests, mine, acked, detours>>

\* handleSelectSlot
PickTime(t) ==
    /\ route = "reschedule"
    /\ \E k \in InUse : slots[k].at # None /\ t \in FreeStarts(k, At(slots[k].at))
    /\ pick' = [pick EXCEPT !.start = t]
    /\ UNCHANGED <<history, route, target, flow, timers, requests, slots, mine, acked, detours>>

SubmitMove ==
    /\ route = "reschedule" /\ target \in Known(mine) /\ pick.start # Unset
    /\ Sends("move", [Shown(mine, target) EXCEPT !.start = pick.start], target)

Cancel ==
    /\ route = "booking" /\ target \in Known(mine)
    /\ target \in At(mine.at).active
    /\ Sends("cancel", NoVisit, target)

Client ==
    \/ \E p \in Pages, b \in Opt(Bookings) : Open(p, b)
    \/ \E b \in Branches : SelectBranch(b)
    \/ \E s \in Services : SelectService(s)
    \/ \E m \in Staff : SelectStaff(m)
    \/ \E d \in Dates : SelectDate(d) \/ PickDate(d)
    \/ \E t \in Starts : SelectTime(t) \/ PickTime(t)
    \/ TimeChosen \/ Confirm \/ SubmitMove \/ Cancel

-----------------------------------------------------------------------------
(* What the server and the network do *)

Outcome(i, state) ==
    requests' = [requests EXCEPT ![i].state = state]

MadeAs(i, b, db) ==
    /\ Commits(db)
    /\ requests' = [requests EXCEPT ![i].state = "made", ![i].booking = b,
                                    ![i].pos = Now + 1]

Serve(i) ==
    LET r == requests[i]  slot == <<r.visit.staff, r.visit.start>> IN
    /\ r.state = "sent"
    /\ \/ /\ r.kind = "create" /\ slot \notin Taken(Latest)
          /\ \E b \in Bookings :
                /\ Latest.mine[b] = NoVisit
                /\ MadeAs(i, b, [Latest EXCEPT !.mine[b] = r.visit, !.active = @ \cup {b}])
       \/ /\ r.kind = "move" /\ r.booking \in Latest.active /\ slot \notin Taken(Latest)
          /\ MadeAs(i, r.booking, [Latest EXCEPT !.mine[r.booking] = r.visit])
       \/ /\ r.kind = "cancel" /\ r.booking \in Latest.active
          /\ MadeAs(i, r.booking, [Latest EXCEPT !.active = @ \ {r.booking}])
       \/ /\ r.kind = "create" /\ slot \in Taken(Latest)
          /\ Outcome(i, "taken") /\ UNCHANGED history
       \/ /\ r.kind # "create"
          /\ \/ r.booking \notin Latest.active
             \/ r.kind = "move" /\ slot \in Taken(Latest)
          /\ Outcome(i, "failed") /\ UNCHANGED history
    /\ UNCHANGED <<route, target, flow, pick, timers, slots, mine, acked, detours>>

\* Another rule of the server refuses the request: a window, a limit.
Refuse(i) ==
    /\ requests[i].state = "sent"
    /\ Outcome(i, "failed")
    /\ UNCHANGED <<history, route, target, flow, pick, timers, slots, mine, acked, detours>>

\* The request or its answer is lost: fetch rejects.
Lose(i) ==
    /\ requests[i].state \in {"sent", "made"}
    /\ requests' = [requests EXCEPT ![i].state = "failed", ![i].pos = 0]
    /\ Detour
    /\ UNCHANGED <<history, route, target, flow, pick, timers, slots, mine, acked>>

\* Another client or the staff take a time, or cancel the client's booking.
OthersBook(m, t) ==
    /\ <<m, t>> \notin Taken(Latest)
    /\ Commits([Latest EXCEPT !.others = @ \cup {<<m, t>>}])
    /\ Detour
    /\ UNCHANGED <<route, target, flow, pick, timers, requests, slots, mine, acked>>

StaffCancels(b) ==
    /\ b \in Latest.active
    /\ Commits([Latest EXCEPT !.active = @ \ {b}])
    /\ Detour
    /\ UNCHANGED <<route, target, flow, pick, timers, requests, slots, mine, acked>>

-----------------------------------------------------------------------------
(* What arrives at the client *)

\* Nothing of a request whose handler has ended is kept.
Over(i) ==
    [requests EXCEPT ![i] = [kind |-> "cancel", visit |-> NoVisit, booking |-> Unset,
                             here |-> FALSE, state |-> "over", pos |-> 0]]

\* Mutants: a hook invalidates one of the two keys only.
SlotsForgotten == slots
ListForgotten == mine

\* onSuccess of the three hooks: invalidate ["bookings", "my"] and ["slots"].
SlotsInvalidated == [k \in Key |-> Invalidated(slots[k], k \in InUse, Now)]
ListInvalidated == Invalidated(mine, ListInUse, Now)

\* The awaiting handler goes on, be its component still mounted or not.
After(r) ==
    CASE r.kind = "create" -> <<"success", Unset>>
      [] r.kind = "move" -> <<"booking", r.booking>>
      [] r.kind = "cancel" -> <<"bookings", Unset>>

Succeeds(i) ==
    LET r == requests[i]  next == After(r) IN
    /\ r.state = "made"
    /\ acked' = IF r.pos > acked THEN r.pos ELSE acked
    /\ GoesWith(next[1], next[2], flow, SlotsInvalidated, ListInvalidated, Over(i), timers)
    /\ UNCHANGED <<history, detours>>

\* ConfirmStep's ref holds the latest timer only.
Armed(r) ==
    IF ~r.here THEN timers \cup {"loose"}
    ELSE {"held"} \cup IF "held" \in timers THEN {"loose"} ELSE timers

Fails(i) ==
    LET r == requests[i] IN
    /\ r.state \in {"taken", "failed"}
    /\ requests' = Over(i)
    /\ timers' = IF r.state = "taken" THEN Armed(r) ELSE timers
    /\ UNCHANGED <<history, route, target, flow, pick, slots, mine, acked, detours>>

\* 1200 ms after the refusal.
Redirect(t) ==
    /\ t \in timers
    /\ GoesWith("time", Unset, flow, slots, mine, requests, timers \ {t})
    /\ UNCHANGED <<history, acked, detours>>

LandSlots(k) ==
    /\ InFlight(slots[k])
    /\ \E pos \in slots[k].from .. Now : slots' = [slots EXCEPT ![k] = Landed(@, pos)]
    /\ UNCHANGED <<history, route, target, flow, pick, timers, requests, mine, acked, detours>>

FailSlots(k) ==
    /\ InFlight(slots[k])
    /\ slots' = [slots EXCEPT ![k] = Failed(@)]
    /\ Detour
    /\ UNCHANGED <<history, route, target, flow, pick, timers, requests, mine, acked>>

\* RescheduleWizardPage may learn of its booking only now.
LandList ==
    /\ InFlight(mine)
    /\ \E pos \in mine.from .. Now :
          /\ mine' = Landed(mine, pos)
          /\ Mounts(slots, Observed(route, target, flow, pick.date, Landed(mine, pos)) \ InUse)
    /\ UNCHANGED <<history, route, target, flow, pick, timers, requests, acked, detours>>

FailList ==
    /\ InFlight(mine)
    /\ mine' = Failed(mine)
    /\ Detour
    /\ UNCHANGED <<history, route, target, flow, pick, timers, requests, slots, acked>>

ServerStep(i) == Serve(i) \/ Refuse(i) \/ Lose(i)
Answer(i) == Succeeds(i) \/ Fails(i)
Fetch(k) == LandSlots(k) \/ FailSlots(k)
FetchList == LandList \/ FailList

Next ==
    \/ Client
    \/ \E i \in DOMAIN requests : ServerStep(i) \/ Answer(i)
    \/ \E t \in timers : Redirect(t)
    \/ \E k \in Key : Fetch(k)
    \/ FetchList
    \/ \E m \in Staff, t \in Starts : OthersBook(m, t)
    \/ \E b \in Bookings : StaffCancels(b)

(***************************************************************************)
(* A query that has been sent ends in an answer or an error.  Nothing is   *)
(* asked of the client, of other users, or of the outcome.                 *)
(***************************************************************************)
Fairness == WF_vars(FetchList)

Spec == Init /\ [][Next]_vars /\ Fairness

-----------------------------------------------------------------------------
(* Properties *)

\* Every variable holds what its declaration says.
TypeOK ==
    /\ history \in Seq(Database) /\ history # <<>>
    /\ route \in Pages /\ target \in Opt(Bookings)
    /\ flow \in Flow
    /\ pick \in [date : Dates, start : Opt(Starts)]
    /\ timers \subseteq {"held", "loose"}
    /\ requests \in Seq(Request)
    /\ slots \in [Key -> Entry] /\ mine \in Entry
    /\ acked \in 0 .. Now /\ detours \in 0 .. MaxDetours

\* Some answer the server could have given offered start t for key k.
WasOffered(k, t) == \E n \in DOMAIN history : t \in FreeStarts(k, history[n])

\* What f holds was chosen in order, and its time for what it holds.
IsCoherent(f) ==
    /\ f.staff # Unset => f.service # Unset
    /\ f.date # Unset => f.staff # Unset
    /\ f.start # Unset =>
          /\ f.date # Unset
          /\ WasOffered([service |-> f.service, staff |-> f.staff, date |-> f.date], f.start)

\* The store never holds a time chosen for another service, person or day:
\* every setter resets what depends on it, so TimeStep may guard the date only
\* and createBooking mixes no choices.  The same of RescheduleWizardPage, whose
\* handleSelectDate drops the time.
ChoiceIsCoherent ==
    /\ IsCoherent(flow)
    /\ pick.start # Unset => DayOf[pick.start] = pick.date

\* A page that is shown awaits one answer at most: the button of ConfirmStep,
\* RescheduleWizardPage and BookingDetailPage is disabled meanwhile.
OneAnswerAwaited ==
    \A i, j \in DOMAIN requests : Awaited(requests[i]) /\ Awaited(requests[j]) => i = j

\* Once a change is acknowledged, no list that looks sound is older than it:
\* neither the free times nor the client's bookings.  (A first load that is
\* in flight at the acknowledgement is the exception, mark "raced".)
OwnChangesShown ==
    /\ \A k \in Key : IsSettled(slots[k]) => slots[k].at >= acked
    /\ IsSettled(mine) => mine.at >= acked

\* The redirect that ConfirmStep still has a handle of never hits another
\* page: leaving clears it.  (One armed by an answer that arrives after
\* leaving has no handle and is "loose".)
HeldTimerIsHere == "held" \in timers => route = "confirm"

\* The page that asks for a kind of change.
AskedOn(kind) == CASE kind = "create" -> "confirm"
                   [] kind = "move" -> "reschedule"
                   [] kind = "cancel" -> "booking"

\* A request is awaited on its own page only, only a create is told that its
\* time is taken, and what is made is written.
IsSound(r, p, now) ==
    /\ Awaited(r) => p = AskedOn(r.kind)
    /\ r.state = "taken" => r.kind = "create"
    /\ r.pos <= now

\* What the safety properties rest on.
IndInv ==
    /\ TypeOK /\ HeldTimerIsHere /\ OneAnswerAwaited /\ ChoiceIsCoherent
    /\ route = "date" => Unset \notin {flow.service, flow.staff}
    /\ \A i \in DOMAIN requests : IsSound(requests[i], route, Now)
    /\ \A k \in Key : Timely(slots[k], acked, Now)
    /\ Timely(mine, acked, Now)

\* A change the server has made known as done appears in the list of bookings
\* on screen without the client doing anything: the invalidation asks anew.
\* A request that fails leaves the old list, and a first load may be "raced".
OwnChangeAppears ==
    (ListInUse /\ mine.at < acked)
        ~> (~ListInUse \/ mine.at >= acked \/ mine.mark \in {"raced", "failed"})
=================================================================================
