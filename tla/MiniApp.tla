-------------------------------- MODULE MiniApp --------------------------------
(***************************************************************************)
(* The mini app around the booking wizard: the session, the route guards,  *)
(* the pages of module Pages with their forms, and the query cache.  One   *)
(* query is followed, any of those the pages use, with everything that     *)
(* concerns it: the pages that observe it, the forms filled from it and    *)
(* the saves that change what it shows.  The server's history is a line of *)
(* positions, one per such save.                                           *)
(***************************************************************************)
EXTENDS Session, Pages, QueryCache

CONSTANTS
    Probes       \* the queries that are followed from the launch on, through mishaps
                 \* and visits of OnboardingPage; the others once the session is up

ASSUME MiniAppAssumption == Probes \subseteq AllQueries

VARIABLES
    subject,   \* the query that is followed
    page,      \* the route
    mounted,   \* its component is mounted: its chunk is loaded, its guard passed
    entry,     \* the cache entry of subject
    retried,   \* the library has sent its request a second time
    draft,     \* where the form has its values from: a position of the entry,
               \* None before it has any
    now,       \* the server's position
    save,      \* the save under way
    acked      \* position of the latest save acknowledged whose hook covers subject

console == <<subject, page, mounted, entry, retried, draft, now, save, acked, events>>
vars == <<session, console>>

NoSave == [page |-> "home", name |-> "none", base |-> None, ran |-> 0, pos |-> 0]

Shows(p) == subject \in PageOf[p].shows
InUse == mounted /\ Shows(page)

\* The saves of page p that change what query q shows.
ConcernedSaves ==
    [q \in AllQueries |-> [p \in PageName |->
        {n \in DOMAIN PageOf[p].saves : Concerns(PageOf[p].saves[n].by, q)}]]
SavesOf(p) == ConcernedSaves[subject][p]

\* The pages that have to do with query q.
PagesAround ==
    [q \in AllQueries |->
        {p \in PageName : q \in PageOf[p].shows \/ ConcernedSaves[q][p] # {}}]
Around == PagesAround[subject] \cup (IF subject \in Probes THEN {"home"} ELSE {})

-----------------------------------------------------------------------------
(* What the hooks leave behind *)

AdminBookingHooks == {usePatchBooking, useCreateAdminBooking, useAdminCancelBooking,
                      useAdminRescheduleBooking}
MyBookingHooks == {useUpdateMyBooking, useCancelMyBooking, useRescheduleMyBooking}
BranchHooks == {useCreateBranch, useUpdateBranch, useArchiveBranch}
ServiceHooks == {useCreateService, useUpdateServiceById, useArchiveService}
StaffHooks == {useCreateStaff, useUpdateStaff, useArchiveStaff}
TeamHooks == {useSetMemberRole, useRemoveMember}
ReviewHooks == {hideReview, unhideReview, replyToReview, deleteReview}
HoursHooks == {useReplaceWorkingHours, useReplaceMyWorkingHours}
ExceptionHooks == {useCreateException, useDeleteException,
                   useCreateMyException, useDeleteMyException}

AdminBookingQueries == {useAdminBookings("today"), useAdminBookings("week"),
                        useAdminBookingDetail, useAdminDashboard}
MyBookingQueries == {useMyBookings("today"), useMyBookings("all"), useMySchedule}
ServiceQueries == {useServices, useAdminServices, serviceDetail, servicePhotos}
StaffQueries == {useStaffForService, staffDetail, staffPhotos}

(***************************************************************************)
(* The pairs of a mutation and a query that shows what it changes where    *)
(* onSuccess does not reach the query's key: it goes on showing what it    *)
(* has until its staleTime runs out or it is asked for anew.               *)
(***************************************************************************)
LeftBehind ==
    \* the administrator's side and the staff member's own
    (MyBookingHooks \X AdminBookingQueries)
    \cup (AdminBookingHooks \X (MyBookingQueries \cup {useMyStatistics}))
    \cup (MyBookingHooks \X {useMyStatistics})
    \cup {<<useReplaceMyWorkingHours, useStaffWorkingHours>>,
          <<useReplaceWorkingHours, useMyWorkingHours>>}
    \cup ({useReplaceWorkingHours, useCreateException, useDeleteException}
             \X {useMySchedule})
    \* figures and the review form
    \cup ((AdminBookingHooks \cup MyBookingHooks) \X {useStatistics, reviewContext})
    \* reviews, and the ratings that services and staff show
    \cup (ReviewHooks \X ({reviewContext, serviceReviews, staffReviews}
                          \cup ServiceQueries \cup StaffQueries))
    \cup ({createReview} \X {adminReviews, useAdminServices, serviceDetail, servicePhotos})
    \* photos, and a service under its own key
    \cup ({delServicePhoto} \X (ServiceQueries \ {servicePhotos}))
    \cup ({delServicePhoto} \X StaffQueries)
    \cup ({delStaffPhoto} \X (StaffQueries \ {staffPhotos}))
    \cup ({delStaffPhoto} \X ServiceQueries)
    \cup (ServiceHooks \X {serviceDetail, servicePhotos})
    \* who may be linked, and who one is linked to
    \cup ((StaffHooks \cup TeamHooks \cup {useCreateInvite, useRevokeInvite})
             \X {linkableUsers})
    \cup ((StaffHooks \cup TeamHooks) \X {useStaffMe})
    \* free times
    \cup (({usePatchBooking} \cup MyBookingHooks \cup BranchHooks \cup ServiceHooks
            \cup StaffHooks \cup {useReplaceStaffServices} \cup HoursHooks
            \cup ExceptionHooks) \X {useSlotsForDay})

-----------------------------------------------------------------------------
(* Guards *)

\* Mutant: who is not known yet is sent away.
RefusedAccess(guard) ==
    \/ guard = "admin" /\ ~(auth.user /\ device.role = "admin")
    \/ guard = "staff" /\ auth.staffMe # "linked"

\* RequireAdmin and RequireStaff redirect.
SendsAway(guard) ==
    \/ guard = "admin" /\ auth.user /\ device.role # "admin"
    \/ guard = "staff" /\ auth.user /\ auth.staffMe = "unlinked"

LetsIn(guard) ==
    \/ guard = "none"
    \/ guard = "admin" /\ auth.user /\ device.role = "admin"
    \/ guard = "staff" /\ auth.user /\ auth.staffMe = "linked"

-----------------------------------------------------------------------------
(* The entry, its request and the form *)

\* Mutant: the form keeps what it started from.
SeededOnce(p, e) == IF draft # None THEN draft ELSE e.at

\* The effect that fills a form when other data lands.
Rehydrated(p, e) ==
    IF subject \notin PageOf[p].draft.of THEN None
    ELSE IF draft # None /\ ~PageOf[p].draft.each THEN draft ELSE e.at

\* Mutant: only data that lands later fills the form.
SeededByLanding(p, e) == None

\* The component of p mounts: its form takes its first values.
Seeded(p, e) == IF subject \in PageOf[p].draft.of THEN e.at ELSE None

\* request() for the query; of one that is superseded the renewal goes on.
Asking(cs) ==
    [cs EXCEPT !["query"] = Sent(auth.bearer),
               !["stray"] = IF cs["query"].phase \in {"renewing", "storing"}
                            THEN cs["query"] ELSE @]

\* e is the entry after an event that asks for it or does not; cs the other calls.
EntryBecomes(e, asks, cs) ==
    /\ entry' = e
    /\ calls' = IF asks THEN Asking(cs) ELSE cs
    /\ retried' = (retried /\ ~asks)

Mounts(p) ==
    \E expired \in IF subject.fresh THEN BOOLEAN ELSE {TRUE} :
        LET e == OnMount(entry, now, expired) IN
        /\ EntryBecomes(e, ~InFlight(entry) /\ InFlight(e), calls)
        /\ draft' = Seeded(p, e)

-----------------------------------------------------------------------------

Init ==
    /\ subject \in AllQueries
    /\ page \in Around
    /\ \/ subject \in Probes /\ SessionInit
       \/ subject \notin Probes /\ SessionUp /\ LetsIn(PageOf[page].guard)
    /\ mounted = FALSE
    /\ entry = Empty /\ retried = FALSE /\ draft = None
    /\ now = 0 /\ save = NoSave /\ acked = 0
    /\ events = 0

\* The gate is open, the chunk is loaded and the guard lets the user in.  A run
\* that an earlier visit of OnboardingPage began has ended (a bound).
Render ==
    /\ ~mounted /\ GateOpen /\ LetsIn(PageOf[page].guard)
    /\ mounted' = TRUE
    /\ IF Shows(page)
       THEN Mounts(page)
       ELSE draft' = Seeded(page, entry) /\ UNCHANGED <<entry, calls, retried>>
    /\ IF page = "home"
       THEN /\ runs["home"].phase \in {"none", "over"}
            /\ runs' = [runs EXCEPT !["home"] = [phase |-> "reading", cancelled |-> FALSE]]
       ELSE UNCHANGED runs
    /\ UNCHANGED <<device, lapsed, kept, auth, mishaps,
                   subject, page, now, save, acked, events>>

\* The page unmounts: OnboardingPage's run is told.
Leaves ==
    runs' = IF page = "home" /\ mounted THEN [runs EXCEPT !["home"].cancelled = TRUE]
                                        ELSE runs

GoesTo(p) == page' = p /\ mounted' = FALSE /\ draft' = None /\ Leaves

Open(p) ==
    /\ p # page
    /\ ~(mounted /\ PageOf[p].shell = PageOf[page].shell)
    /\ GateOpen
    /\ Event
    /\ GoesTo(p)
    /\ UNCHANGED <<device, lapsed, kept, auth, calls, mishaps,
                   subject, entry, retried, now, save, acked>>

\* Another tab of the same component: what both show stays mounted.
Switch(p) ==
    /\ p # page
    /\ mounted /\ PageOf[p].shell = PageOf[page].shell
    /\ Event
    /\ page' = p
    /\ IF Shows(p) /\ ~Shows(page)
       THEN Mounts(p)
       ELSE draft' = Seeded(p, entry) /\ UNCHANGED <<entry, calls, retried>>
    /\ UNCHANGED <<device, lapsed, kept, auth, runs, mishaps,
                   subject, mounted, now, save, acked>>

SentAway ==
    /\ ~mounted /\ GateOpen /\ SendsAway(PageOf[page].guard)
    /\ GoesTo("home")
    /\ UNCHANGED <<device, lapsed, kept, auth, calls, mishaps,
                   subject, entry, retried, now, save, acked, events>>

-----------------------------------------------------------------------------
(* The query *)

\* The answer shows the server as it stands now.
ServeQuery ==
    /\ Serve("query") /\ subject.served
    /\ entry' = [entry EXCEPT !.from = now]
    /\ UNCHANGED <<subject, page, mounted, retried, draft, now, save, acked, events>>

\* 405: the server has no such route.
NoRoute ==
    /\ ~subject.served /\ calls["query"].phase = "sent" /\ ~IsRefused("query")
    /\ Turns("query", "failed")
    /\ UNCHANGED <<device, lapsed, kept, auth, runs, mishaps, console>>

Land ==
    /\ calls["query"].phase = "ran"
    /\ calls' = [calls EXCEPT !["query"] = Idle]
    /\ entry' = Landed(entry, entry.from)
    /\ draft' = IF mounted THEN Rehydrated(page, entry') ELSE None
    /\ UNCHANGED <<device, lapsed, kept, auth, runs, mishaps,
                   subject, page, mounted, retried, now, save, acked, events>>

\* The library retries once, the review form's query never.
FailQuery ==
    /\ calls["query"].phase = "failed"
    /\ IF retried \/ subject = reviewContext
       THEN /\ calls' = [calls EXCEPT !["query"] = Idle]
            /\ entry' = Failed(entry) /\ UNCHANGED retried
       ELSE /\ calls' = [calls EXCEPT !["query"] = Sent(auth.bearer)]
            /\ retried' = TRUE /\ UNCHANGED entry
    /\ UNCHANGED <<device, lapsed, kept, auth, runs, mishaps,
                   subject, page, mounted, draft, now, save, acked, events>>

-----------------------------------------------------------------------------
(* Saves *)

\* Mutant: forms and buttons are there before their data.
AlwaysOffered(p, n) == TRUE

\* The page has rendered the button: subject has data where that takes it.
Offered(p, n) ==
    subject \in PageOf[p].needs \cup PageOf[p].saves[n].rows => entry.at # None

\* A button or a form is submitted; while its request is under way it is
\* disabled (and no other save is begun, a bound).
Press(n) ==
    /\ mounted /\ Offered(page, n)
    /\ calls["save"].phase = "idle"
    /\ Event
    /\ save' = [NoSave EXCEPT !.page = page, !.name = n,
                             !.base = IF PageOf[page].saves[n].replaces = {} THEN None ELSE draft]
    /\ calls' = [calls EXCEPT !["save"] = Sent(auth.bearer)]
    /\ UNCHANGED <<device, lapsed, kept, auth, runs, mishaps,
                   subject, page, mounted, entry, retried, draft, now, acked>>

\* The server executes it.
ServeSave ==
    /\ Serve("save")
    /\ now' = now + 1
    /\ save' = [save EXCEPT !.ran = @ + 1, !.pos = now + 1]
    /\ UNCHANGED <<subject, page, mounted, entry, retried, draft, acked, events>>

Saved == PageOf[save.page].saves[save.name]

\* onSuccess; the handler then navigates, be its component still mounted or not.
Acknowledge ==
    /\ calls["save"].phase = "ran"
    /\ save' = NoSave
    /\ acked' = IF <<Saved.by, subject>> \in LeftBehind THEN acked ELSE save.pos
    /\ LET done == [calls EXCEPT !["save"] = Idle] IN
         \/ /\ Covers(Saved.by, subject)
            /\ EntryBecomes(Invalidated(entry, InUse, now), Restarts(entry, InUse), done)
         \/ /\ ~Covers(Saved.by, subject)
            /\ EntryBecomes(entry, FALSE, done)
    /\ IF Saved.next \in {Stay, page}
       THEN UNCHANGED <<page, mounted, draft, runs>>
       ELSE GoesTo(Saved.next)
    /\ UNCHANGED <<device, lapsed, kept, auth, mishaps, subject, now, events>>

\* A toast, and nothing else.
Reject ==
    /\ calls["save"].phase = "failed"
    /\ save' = NoSave
    /\ calls' = [calls EXCEPT !["save"] = Idle]
    /\ UNCHANGED <<device, lapsed, kept, auth, runs, mishaps,
                   subject, page, mounted, entry, retried, draft, now, acked, events>>

-----------------------------------------------------------------------------

SessionStep ==
    /\ \/ \E r \in Run : Launch(r) \/ Serve(r)
       \/ \E c \in Caller : Transport(c)
       \/ StrayFails
    /\ UNCHANGED console

Trouble ==
    /\ subject \in Probes
    /\ Lapse \/ \E c \in Caller : Lose(c)
    /\ UNCHANGED console

User == (\E p \in Around : Open(p) \/ Switch(p)) \/ \E n \in SavesOf(page) : Press(n)

QueryStep == ServeQuery \/ NoRoute \/ Land \/ FailQuery
SaveStep == ServeSave \/ Acknowledge \/ Reject

Next == SessionStep \/ Trouble \/ Render \/ SentAway \/ User \/ QueryStep \/ SaveStep

(***************************************************************************)
(* Timers fire, requests end, and what has arrived is handled.  Nothing is *)
(* asked of the user, of the lapse or of losses.                           *)
(***************************************************************************)
Fairness == WF_vars(SessionStep) /\ WF_vars(QueryStep)

Spec == Init /\ [][Next]_vars /\ Fairness

-----------------------------------------------------------------------------
(* Properties *)

\* Every variable holds what its declaration says.
TypeOK ==
    /\ SessionTypeOK
    /\ subject \in AllQueries /\ page \in PageName
    /\ mounted \in BOOLEAN /\ retried \in BOOLEAN
    /\ entry \in Entry /\ draft \in Nat \cup {None}
    /\ (InFlight(entry) <=> calls["query"].phase # "idle")
    /\ now \in 0 .. events /\ acked \in 0 .. now
    /\ (save = NoSave <=> calls["save"].phase = "idle")

\* Once one's own save is acknowledged, no page that shows what it changed is
\* older than it and looks sound, on whatever page one is by then: onSuccess of
\* every hook reaches the keys, except those that LeftBehind names.  (A first
\* load in flight at that moment is the other exception, mark "raced".)
OwnSaveShown == IsSettled(entry) => entry.at >= acked

\* "List query carries the source-of-truth service_ids - invalidate it so
\* editors re-hydrate from the new server state" (admin-staff/api.ts:63): a form
\* that fills itself from its query, with that settled, never goes on holding
\* what was there before one's own save, whatever was saved, left and reopened.
EditorsRehydrated ==
    (mounted /\ subject \in PageOf[page].draft.of /\ PageOf[page].draft.each
        /\ IsSettled(entry)) => draft >= acked

\* The editors of working hours may be saved before the hours have loaded, and
\* the profile form sends the linked user, which its list never carries.
KnownWipes == {<<"staffHoursTab", "hours">>, <<"cabinetSchedule", "hours">>,
               <<"staffProfileTab", "accounts">>}

\* A form that replaces a table as a whole has been shown that table before it
\* is sent, and so sends back what it was not asked to change.
NothingWiped ==
    (save # NoSave /\ subject \in PageOf[save.page].draft.of) =>
        \A table \in Saved.replaces :
            \/ table \in subject.reads /\ save.base # None
            \/ <<save.page, table>> \in KnownWipes

\* request() may send a save twice, but it is executed once at most.
RanOnce == save.ran <= 1

\* Whom a guard may send away: staff too, when something has gone wrong.
NotForThem(guard) ==
    IF guard = "admin" THEN device.role # "admin" ELSE device.role # "staff" \/ mishaps > 0

\* "Auth still resolving - show nothing rather than redirect prematurely"
\* (RequireAdmin.tsx:25): nobody is sent away from a page that is theirs while
\* the launch is still finding out who they are.
NoPrematureRedirect == [][SentAway => NotForThem(PageOf[page].guard)]_vars

\* "A timeout safeguards against callbacks that never fire" (auth-store.ts:22):
\* the skeleton goes away.
GateOpens == <>GateOpen

\* "Fallback so RequireStaff doesn't hang in a loading state" (useAuth.tsx:13):
\* once the user is known it becomes known whether they are staff.
StaffKnown == auth.user ~> auth.staffMe # "unknown"

\* A page that shows what one's own save changed shows it without being left:
\* the invalidation asks anew, whatever becomes of the session meanwhile, unless
\* the request fails or the first load was "raced".
OwnSaveAppears ==
    (InUse /\ entry.at < acked)
        ~> (~InUse \/ entry.at >= acked \/ entry.mark \in {"raced", "failed"})
=================================================================================
