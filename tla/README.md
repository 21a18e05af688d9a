# SlotBook: a verification development

SlotBook lets clients of a salon book staff members through a Telegram mini
app. A FastAPI process serves the mini app and the Telegram bot, a second
process sends reminders, and PostgreSQL holds all state. This directory models
the parts in which something can go wrong between two steps of two actors, on
the server and in the mini app: TLA+ modules, TLC configurations that check
them on small instances, and theorems that TLAPS proves for every value of the
constants. `PROJECT.json`
lists the runs, the mutants that show each property can fail, the source lines
of each definition, the hazards and the findings.

## 1. The system

| Component | State it keeps | Operations | Talks to |
|---|---|---|---|
| **Bookings** (`services/booking_service.py`, `repositories/bookings.py`, routes `bookings.py`, `admin.py`, `staff_me.py`, bot callback `admin_callbacks.py`) | table `bookings` with the partial unique index `bookings_active_by_staff` and the exclusion constraint `bookings_no_overlap` | create (with retries), cancel, reschedule, PATCH to completed / no-show | slot calculation (validation), outbox (reminders, immediate messages), catalogue (reads) |
| **Slot calculation** (`services/slot_service.py`, `core/time.py`) | none | merge hours and exceptions, cut, scan, list | bookings and schedules (reads) |
| **Notifications** (`notification_service.py`, `notification_retry.py`, `repositories/notifications.py`, `workers/`) | table `notifications` as an outbox | dispatch after a request, worker tick, retry with backoff, purge of reminders | Telegram, bookings |
| **Catalogue and schedules** (`routes/services.py`, `routes/staff.py`, `repositories/schedules.py`) | services, staff, their links, hours, exceptions, branches | CRUD, deactivation | bookings (future ones of a deactivated entry) |
| **Team** (`repositories/admin_invites.py`, `repositories/users.py`, `bot/routers/start.py`) | users with roles, invites, staff links | issue, revoke, consume an invite; promote, demote, link | authentication |
| **Reviews** (`routes/reviews.py`, `repositories/reviews.py`) | reviews, rating aggregates on service and staff | create, hide, delete, recompute | bookings (completed), outbox (review request) |
| **Photos** (`routes/photos.py`, `bot/routers/upload.py`) | photos, pending uploads | begin an upload in the mini app, finish it in the chat | Telegram |
| **Authentication and rate limits** (`core/telegram_auth.py`, `core/security.py`, `core/rate_limit.py`) | tokens, counters | log in, refresh, count | all routes |
| **Bot conversation** (`bot/`) | Telegram chats | commands, the cancel callback | bookings |
| **Mini app: booking flow** (`miniapp/src/pages/booking`, `features/booking-flow`, `shared/store/booking-flow-store.ts`, `BookingDetailPage`, `RescheduleWizardPage`) | the store of the wizard's choices, the choice on the reschedule page, a redirect timer, cached free times and bookings | choose step by step, confirm, move, cancel, go back and forth | `request()`, the query cache |
| **Mini app: session** (`shared/api/client.ts`, `shared/lib/auth-store.ts`, `features/auth`, the guards) | tokens in memory, in sessionStorage and in Telegram's CloudStorage; user, role, staff link | launch, sign in, renew on 401, redirect | `POST /auth/telegram`, CloudStorage |
| **Mini app: pages and hooks** (`pages/`, `features/*/api.ts`, `shared/api/endpoints.ts`) | the query cache, drafts of forms | load, edit, save, invalidate, navigate | `request()` |
| **Statistics, export** | none | read-only queries | — |

What is hard here:

* **Requests interleave at every statement.** Each has a session of its own
  under READ COMMITTED. `create_booking` looks for overlaps with
  `SELECT ... FOR UPDATE`, which finds nothing to lock when the slot is free;
  what keeps two creates apart are the two indexes, their waits and the
  deadlock detector. The other operations load the booking without a lock,
  check it, and write it by primary key.
* **Failures in the middle.** A deadlock victim is retried inside a session
  that was rolled back; a flush reaches the database before the statement
  whose exception is handled; a process may die between two commits.
* **Effects beside the row.** Reminders must follow a booking that is moved or
  cancelled, a review request must follow completion, messages are sent before
  their rows say so.
* **Time.** Intervals touch, nest and cross midnight; local days are longer or
  shorter when the clock changes.
* **Answers come when they come.** A page of the mini app awaits a request, is
  left, and the answer's handler navigates, arms a timer, clears the store or
  invalidates lists all the same. A list is in flight while a save is
  acknowledged; a form was filled from a list that is then loaded anew.
* **A session that ends while it is used.** CloudStorage may be absent or call
  back late or never; a stored token may have expired; each of several 401s
  renews the session for itself, and the renewal may be refused with 401 too.

What makes each part correct: no two active bookings of a staff member
overlap, nobody is refused without cause, every request is answered
(bookings); exactly the open grid is offered (slots); a message whose sending
can succeed is sent, and not without bound, and not after its reason is gone
(notifications); one consumer per invite, never no administrator (team);
aggregates equal the visible reviews (reviews). In the mini app: what is
submitted was offered and chosen together, what one has saved is what one sees
afterwards, a form does not send back what it has never been shown, no save
runs twice, and nobody is sent away or kept waiting because the session is
still being set up.

## 2. Modules

| Module | What it is |
|---|---|
| `BookingTable` | the rows of `bookings` and the predicates `IsActive` and `Overlap` |
| `Calendar` | abstract specification: a calendar in which bookings appear, move and close in one step each and never overlap; a closed booking never returns |
| `Slots` | the slot arithmetic as operators |
| `Bookings` | the transactions of create, cancel, reschedule and PATCH |
| `BookingsInvariant` | the inductive invariants `IndInv` and, on top of it, `OutcomesInv`, part by part |
| `BookingsProofs` | `IndInv` is inductive; `TypeOK` and `NoOverlap` |
| `BookingsOutcomes` | `OutcomesInv` is inductive; refusals are justified, reminders follow, completed bookings are asked for a review |
| `BookingsRefinement` | `Bookings` implements `Calendar` |
| `SlotScan` | the loops of the slot calculation as a state machine, compared with an independent definition and with `Slots` |
| `SlotScanInvariant` | the inductive invariant `IndInv` of the loops, part by part |
| `SlotScanProofs` | `IndInv` is inductive; the open grid is offered, in order; the folds of `Slots` compute the same |
| `Outbox` | abstract specification: a table of notifications in which rows come and go with the changes of their booking and an attempt is one step |
| `Notifications` | the outbox: requests that fill and dispatch it, the worker, retries, faults |
| `NotificationsInvariant` | the inductive invariant `IndInv` of the outbox, part by part |
| `NotificationsProofs` | `IndInv` is inductive; the bounds on attempts and deliveries, the truth of statuses, the purge; `Notifications` implements `Outbox` |
| `QueryCache` | an entry of the query cache: mounting, invalidation, answers, failures |
| `BookingFlow` | the wizard, the client's own bookings and the requests they make |
| `QueryCacheProofs`, `BookingFlowProofs` | lemmas on entries; the invariant of `BookingFlow` and what follows |
| `Endpoints`, `Queries`, `Pages` | tables: the routes that the mini app calls, its query and mutation hooks, its pages with their forms and buttons |
| `Session` | launch, sign-in and `request()` |
| `MiniApp` | `Session`, `Pages` and `QueryCache` together: guards, pages, forms, saves |
| `MiniAppInvariant` | what the proofs need of the tables, and the inductive invariant `IndInv` of the mini app, part by part |
| `MiniAppProofs` | `IndInv` is inductive; saves shown, forms refilled, nothing wiped or run twice, nobody sent away early |
| `MCBookings`, `MCSlotScan`, `MCNotifications`, `MCBookingFlow`, `MCMiniApp` | instances for TLC |

### Bookings

A request is a process with a program counter; an action is one statement with
the Python code up to the next await.

| Action | Code |
|---|---|
| `StartCreate`, `AttemptCreate` | `create_booking` and `_create_booking_attempt` up to the locking query: past start, catalogue |
| `StartChange` | `cancel_booking` and `reschedule_booking`: load the booking, the early returns in their order |
| `StartPatch` | the PATCH handlers of `admin.py` and `staff_me.py`, which check nothing but presence |
| `SelectOverlapping`, `LockOverlapping` | `find_overlapping_for_update`: the rows its snapshot shows, then, when nobody holds them, those that still match |
| `ValidateSlot` | the busy list of the local day and the slot check |
| `Insert`, `Update` | the flush; `Update` writes only the columns that differ from the loaded object, on the latest committed version |
| `IndexAccepts`, `IndexRejects` | the unique index, then the exclusion constraint |
| `Deadlock`, `RetryCreate` | the deadlock victim; the retry loop of `create_booking` |
| `Commit` | row and reminders become visible together |
| `Refresh`, `EnqueueReview` | `_enqueue_review_request` after a PATCH |
| `Crash`, `Tick` | a lost process or connection; time |

Modelling decisions:

* **Indexes.** `bookings_active_by_staff` (migration `f3a1b2c4d5e6`) is older
  than `bookings_no_overlap` (`0009`) and is checked first. A check is violated
  by a committed clashing row only; it waits for a transaction in progress that
  has a clashing version, the one it replaces or the one it writes. An update
  that leaves the indexed columns as they are, or an inactive row, touches no
  index.
* **FOR UPDATE.** A row that is locked and no longer matches stays locked in
  PostgreSQL until the commit, which only delays others; the model drops it.
* **Reminders** are deleted and inserted under the row lock of their booking and
  become visible with it, so the model changes them at the commit.
* **Statuses.** No code in the repository creates a `pending` booking, so the
  initial bookings are confirmed.
* **`RollbackExpires`.** A rollback of a SQLAlchemy session expires every
  object it has loaded (`expire_on_commit=False` concerns commits only), and
  reading an expired attribute outside a greenlet raises. TRUE is what the
  library does. The run `create` sets it to FALSE, so that the retry loop is
  exercised as it is written; everything it shows holds the more with TRUE,
  where a victim just stops. The proofs are for both values.
* **`SameSlotMoves`** excludes a reschedule to the start that the booking was
  loaded with. The ORM then writes no start, and when a concurrent reschedule
  has moved the booking, its reminders become those of another start:
  `RemindersFollow` holds with FALSE only, and is proved for it; all other proofs
  are for both values.
* **`CompletedIsRequested`** excepts requests that crashed. A process that dies between
  the two commits of a PATCH leaves a completed booking without its review request,
  and no code looks for such bookings.
* **PATCH.** `StartPatch` is a PATCH with a status it may have. One that is refused for its
  status changes nothing. One of the comment alone writes no column that is
  modelled here and can at most ask for the review of a booking that another request
  has completed meanwhile; it is left to `Notifications`.
* **Catalogue** facts (offers, durations, hours) are constant here.
* **Left out:** immediate messages (they belong to the outbox) and the audit
  log, which nothing reads back.

### SlotScan

Hours, exceptions, bookings and `now` are chosen at the start, the steps are
the iterations of the loops.

| Action | Code |
|---|---|
| `Merge` | one turn of the merging loop of `_apply_exceptions`: the interval that the sort puts first |
| `StartCut`, `CutWindow`, `EndCut` | the loop over the blocked intervals, and in it one turn of the loop of `_interval_minus`: `merged` is what it has still to read, `result` what it has written |
| `EnterWindow`, `LeaveWindow` | the loop over the effective intervals: the window in UTC, the condition of the `while` |
| `Scan` | one turn of the `while`: past, colliding or offered, and the cursor moved on |
| `Finish` | `slots.sort()` and the return |

Modelling decisions:

* **Sorting.** `intervals.sort()` is modelled by taking the least interval left.
  What is left is a set: a copy of an interval extends the last merged window
  by nothing, so it does not matter how many there are. `slots.sort()` is a
  rearrangement of the list that is in ascending order, without saying how it is
  found; that there is one, TLC shows with `Terminates`.
* **Order of the cuts.** The query for exceptions has no order that the code
  relies on, so the next cut is any of those left. The result does not depend on
  it (`OffersTheOpenGrid`).
* **Clock changes.** Local time becomes UTC through `WallClocks`, a plain day,
  one on which an hour is repeated and one on which an hour is missing. When
  the clock is set forward two windows may map to the same stretch of time and
  a start is then listed twice: `StrictlyAscending` says so by its precondition.
  `Slots` adds minutes to midnight, which is right on days without a clock
  change.
* **Left out:** the early returns for durations and steps of zero; the schemas
  forbid such values.

`OffersExactlyTheOpenGrid` defines the result again, by open minutes instead of
intervals; `AgreesWithSlots` ties the loops to the operator that `Bookings` uses.

### Notifications

| Action | Code |
|---|---|
| `Create`, `Cancel`, `Reschedule` | what the booking operations commit to the outbox, with the status they have read before (how slots and indexes refuse them is in `Bookings`) |
| `Patch`, `Refresh`, `EnqueueReview` | a PATCH to completed or no_show, or of the comment alone: its commit, the second look at the booking, and the review request in a transaction of its own |
| `SelectMessages` | `dispatch_pending_for_booking` after a request |
| `SelectDue` | `tick`: one batch of due rows in one session |
| `Send` | one turn of the loop in `_dispatch_notifications`: it arrives, it is refused, or it arrives and the answer is lost |
| `CommitTried` | its commit, after the last row of a booking |
| `CommitStale` | the same when a row has been deleted: the flush raises `StaleDataError`, and as nobody rolls the session back, it fails for the other bookings of the tick too |
| `Fault`, `TimePasses` | a lost process or connection; time |

Modelling decisions:

* **A request acts on what it has read.** `cancel_booking` and
  `reschedule_booking` test a booking that was loaded without a lock and commit much
  later. In the model the step is the commit and the read is chosen then:
  `ReadActive` lets it be any status that the booking has had, and as each booking is
  active first, every booking there is may have been read as active. So `Cancel`
  overwrites a booking that is cancelled, completed or a no-show by now, and
  `Reschedule` gives such a booking fresh reminders, which is what the run `quiet`
  finds in `Bookings`. What a request has sent to the database before its
  commit need not be seen: its UPDATE of the booking is flushed before its DELETE
  of the reminders and keeps the other requests for the booking waiting.
* **Nobody stays open for two hours.** `ReadActive` has one more conjunct: no request
  commits after the review request of a completion in between has become due,
  two hours later (`ReviewWasDue`). A request that did would purge a reminder that is
  tried together with a review request; the flush would then fail and the review
  be sent again. Nothing in the code forbids it but the time that a request takes;
  `DeliveredOnce` and `IndInv` rest on it.
* **PATCH.** The session writes a status only if it differs from the one it has
  loaded, so a completed booking may become a no-show and a cancelled one
  completed, and a PATCH of a status that the booking had when it was loaded
  changes nothing. `Patch` reads a status the booking has or had; to have read it
  as cancelled or as a no-show leads to the same steps as to have read it as
  active. No code sets a status back to active.
* **A PATCH dispatches nothing**, so its sessions (`Patcher`) are others than those
  that send (`Request`). One that stops after its first commit simply never takes
  its next step: no fairness is assumed of it.
* **`wait`** replaces `scheduled_at` and `next_retry_at`: the time until both
  have passed. Time needs no bound then, which liveness needs. A message's
  `next_retry_at` is written and never read, so its `wait` stays 0.
* **One flush per booking.** Within a booking of the worker all rows go to the
  same client, who is loaded already, so nothing is flushed before the commit.
  A request's earlier messages are flushed with the lookup of the next
  recipient; nobody deletes them, so this only makes others wait.
* **One message per operation** stands for those to the client, the
  administrators and the staff member, which the code treats alike.
* **Rows in order of their ids**, which within a booking is the order of
  `scheduled_at`.
* **`BatchLimit`** is the 200 of `list_pending_due`, in the runs 2. Which of
  the due rows are loaded is left open when there are more: the order by
  `scheduled_at` is not kept. Rows that are refused wait for their next retry
  and so make room; `ScheduledIsSettled` shows that nobody is starved.
* **`OptIns`** are the values of `users.reminders_enabled`, TRUE in the runs,
  where it is the interesting one: without reminders and review requests a
  request leaves nothing for the worker. The proofs are for both.
* **`attempts`, `delivered`, `excused`** are history of the scheduled rows that
  exist; they restart with a deleted row.
* **`Outbox`** leaves out sessions and time (`Shown` drops `wait`). Of reminders and
  review requests it says the most that holds: an attempt is made of the row as it
  is *when it is committed*, adds one retry, or settles it for good, the last
  attempt only as `failed`. Of messages it says only that what is settled is not
  pending again: two requests for one booking may send the same message, and then
  the last commit decides between `sent` and `failed` and which count of retries
  stays. A change of a booking is `Book`, `Move`, `Cancel`, `Mark` or `AskReview`:
  each brings rows of certain kinds, and `Move` and `Cancel` take all pending
  reminders of the booking back. None asks what the booking is now, but for a first
  `Book` and for `AskReview`, which comes once and only when the booking is over.
* The dispatcher's branches for a missing user, service or staff member are
  left out: no code deletes any of them.
* **`JobPaused`** is what `next_run_time=None` means to APScheduler 3, TRUE in
  the run `paused`. The run `outbox` sets it to FALSE and shows what the worker
  does once its job runs.

### QueryCache

The server's history is a line of positions, one per write that concerns the
entry; `at` is the position the data was read at, `from` the one at which the
request in flight left. `OnMount` is TanStack Query's `refetchOnMount` with
whether the staleTime has run out left open; `Invalidated` is
`invalidateQueries`, which restarts a request that is in flight for an entry
that has data (`cancelRefetch`), joins a *first* load and restarts nothing that
no component observes. The last two are why an entry may look sound and yet be
older than an invalidation; `mark` remembers it as `"raced"`. `gcTime` (an
entry nobody uses for five minutes is dropped) is left out: it can only cause
requests.

### BookingFlow

| Action | Code |
|---|---|
| `Open` | a link, the back button of Telegram or the browser: any page but the success page |
| `SelectBranch`, `SelectService`, `SelectStaff`, `SelectDate`, `SelectTime`, `TimeChosen` | the steps of the wizard with the setters of the store, which reset what depends on the choice |
| `PickDate`, `PickTime` | `handleSelectDate`, `handleSelectSlot` of `RescheduleWizardPage` |
| `Confirm`, `SubmitMove`, `Cancel` | `mutateAsync` of the three mutations |
| `Serve`, `Refuse`, `Lose` | the server's answer, or none |
| `Succeeds`, `Fails` | `onSuccess` and the code after the `await`, whatever page is shown by then |
| `Redirect` | the timeout of 1200 ms after `slot_already_taken` |
| `LandSlots`, `LandList`, `FailSlots`, `FailList` | answers to queries |
| `OthersBook`, `StaffCancels` | other users |

`GoesWith` is a change of page: the guards of the steps (`Landing`), the
cleanup of `ConfirmStep`'s effect, and the mounting of the queries of the new
page. The server here is the sequence of its committed states; what
`Bookings` says of one commit, that a create or a move succeeds only on a free
time, is `Serve`.

Modelling decisions:

* A mutation whose hook *returns* the promise of its invalidation is pending
  until the lists have been loaded again. The model acknowledges at once, which
  allows more.
* `timers` has a held and a loose member: `ConfirmStep` clears the timeout that
  its ref holds on unmounting, but an answer that arrives after that arms one
  that nobody holds. It then takes the client from any page to the time step.
  The same handlers navigate to the success page and empty the store although
  the client has meanwhile begun another choice. Both are reachable in the run
  `flow`; no comment or test of the repository says otherwise.
* A page takes no second press while it awaits an answer (`IsPending`). The buttons are
  disabled by that state once it has been rendered, and Telegram's main button by
  an effect after the render; the moment before, in which a second press goes
  through, is left out. What `OneAnswerAwaited` says is that pages left and
  reopened, redirects and late answers do not lead around it.
* `slot_already_taken` invalidates nothing: the time step may offer the same
  time again until the list's staleTime has run out.

### Session, Pages and MiniApp

`Session` has one action per stretch between two awaits. A launch run (`useAuth`
in `AuthGate`, and again in `OnboardingPage`) goes `reading` → `exchanging` →
`saving` → `profiling` → `over`; a call of `request()` goes `sent` → `ran` or
`failed`, through `renewing` and `storing` after a 401.

| Action | Code |
|---|---|
| `LoadFromStorage`, `Exchanged`, `ExchangeFails`, `SessionSaved`, `Profiled` | the effect of `useAuth.tsx` with `auth-store.ts` |
| `Serve`, `Refuse`, `Renew`, `RenewRefused`, `Resend` | `request()` and the registered handler |
| `Lose`, `Lapse` | a failed fetch; the end of the day for which token and `initData` are good |
| `Render`, `Open`, `Switch`, `SentAway` | routes, tabs of one component, `RequireAdmin` and `RequireStaff` |
| `ServeQuery`, `NoRoute`, `Land`, `FailQuery` | the query that is followed |
| `Press`, `ServeSave`, `Acknowledge`, `Reject` | a form or button, its mutation, `onSuccess` and what the page does next |

`Queries` gives every hook its key and its prefixes; whether a mutation covers
a query is prefix comparison (`Covers`), and whether it changes what the query
shows is whether the tables it writes meet the tables that the query reads
(`Concerns`). The tables are those of the backend's handlers, found by reading
each route that `Endpoints` names. `Pages` gives every page its guard, the
queries it observes, the queries its form starts from (`draft.of`; `draft.each`
when an effect fills it again on new data), what its buttons wait for, and its
saves. `MiniApp` follows one query at a time, chosen in the initial state, with
all pages and saves that concern it. A property about every query is so a
property of one state machine, and nothing about two entries of the cache is
lost, since entries are independent of each other.

Modelling decisions:

* **`LeftBehind`** lists the pairs of a mutation and a query that shows what it
  changes but has a key that `onSuccess` does not reach. It is part of the
  statement of `OwnSaveShown`: what is not in the list is shown. `MCMiniApp`
  assumes that every pair in the list is needed. The list is worth reading by
  itself: staff do not see the bookings an administrator changes in their
  cabinet and conversely, figures and ratings lag, and most hooks that change
  hours, services or staff leave `["slots"]` alone. A key that a hook lost would
  make `TablesAssumption` false, which the run reports before its first state.
* **`KnownWipes`** lists what forms send without having been shown it.
  `WorkingHoursEditor` is rendered with `data ?? []` and may be saved before the
  hours have come, which deletes them; the profile form of a staff member sends
  `user_id: null`, since `GET /admin/staff` never carries it, which unlinks the
  account. `NothingWiped` holds of every other form.
* **Forms that start once** (`ServiceForm`, `BranchForm`, `StaffForm`) take
  their values from a list on mounting; a list that is loaded anew a moment
  later does not reach them. `EditorsRehydrated` is about those that refill
  themselves, which in turn discard what was being edited.
* **`NoRoute`**: `ExceptionsEditor` asks for `GET
  /admin/staff/{id}/exceptions`, and the backend has only POST and DELETE there.
* **The renewal is recursive.** The handler's own sign-in goes through
  `request()`, so with an expired `initData` it calls the handler again, until
  the rate limiter answers 429. `ExchangeLimit` is the limiter's burst.
* All routes need a token except the sign-in. A guard shows nothing while user
  or staff link are unknown; after a failed sign-in with a stored token that
  still works it shows nothing for ever, which `StaffKnown` does not exclude,
  since the user stays unknown. A renewal sets the user again and not the staff
  link.
* The review form's query is not retried, all others once.
* **Left out:** the toggle of `SettingsPage`, which shows what it sends and
  rolls back to the opposite of it; buttons that are not disabled while their
  request runs (reviews, team, exceptions, photos, marking and cancelling in the
  cabinet), since one save at a time is modelled; pagination and filters other
  than the initial ones.

## 3. Runs

| Run | Question | Instance |
|---|---|---|
| `create` | do racing creates ever overlap, or refuse without cause? | 3 clients, 1 staff member, services of length 1 and 2, starts 0..2 of a day of 4, a retry, a crash |
| `change` | the same with cancellations, moves, closings and the clock; reminders, review requests, the refinement, `IndInv`, `OutcomesInv` | 2 requests of any kind in any role, 2 bookings, starts 1..3 of a day of 6, 1 crash, 1 tick |
| `live` | does every request end? | 2 privileged requests of any kind, one booking, a service of length 2 |
| `slots` | is the open grid offered, in order, and by the invariant `IndInv` that the proofs use? | a day of 5 minutes, one interval of each kind, one booking, three wall clocks, step 2, buffer 1 |
| `outbox` | are reminders and review requests tried boundedly often, delivered once, marked truly, purged by a cancellation, and settled in the end; is every message tried; does the table behave like `Outbox`? | one session for requests, one for PATCHes of the first booking, the worker, 3 bookings, 3 rows, batches of 2, 2 retries, 1 fault |
| `flow` | do choices stay together, does a page await one answer, and do lists show what was acknowledged, whatever page the answer finds? | one service and person, two days with a time each, one booking, 2 writes, 2 requests, 2 detours |
| `miniapp` | for every query: do pages show one's own saves, do forms keep what they have not shown; and at launch: is anyone sent away, kept waiting, or a save run twice? | all pages, hooks and routes; 3 events and mishaps, a burst of 1; the launch and its mishaps with `useMyWorkingHours`; `IndInv` and `TablesAssumption` |
| `buffer`, `quiet`, `deadlock`, `taken`, `paused` | the findings below | the smallest instance that shows each |

Two lengths make overlaps that differ from equal starts, so the exclusion
constraint matters beside the unique index. Three creates are needed for one
to wait while two others decide; with changes two requests suffice for each
finding and for every pairwise race, and a third multiplies the states without
a new kind of wait. `Horizon`, `MaxCrashes` and `MaxRetries` bound the clock,
the lost requests and the retries; one of each lets the case happen before,
between and after the others' steps. Deadlock of the model is checked
in all runs of `Bookings` (`AllAnswered` is the only final stutter) and not in
`slots`, where a finished calculation stops, nor in the runs of
`Notifications`, where everything may have been sent.

In `slots` an hour, an extra and a blocked interval on five minutes are enough for
two windows to touch, overlap, contain each other and be split by a cut that leaves
room for the service on both sides. Several cuts one after another, longer lists and
days are covered by the proofs, for which TLC checks `IndInv` on this instance.

In `outbox` each active booking has a reminder at the start. With two active bookings
the worker has both in a batch when one of them is cancelled. With an active, a
cancelled and a free one, the active booking is completed, reviewed, made a no-show
and cancelled in any order, the cancelled one is moved by a request that had loaded
it before, and the free one is made, each up to three rows in all. As what a request has read may be any status the booking has
had, a second session of the same kind adds no stale read: what it adds is that two
of them send the messages of the same booking, which only the proofs cover. PATCHes
are sessions of their own because their second commit must meet the first one's
effects and the cancellations in between. Two retries make a first, a repeated and a
last attempt distinct for a row that also meets the fault. The run has 196,000 states.

In `flow` two times on two days are what a choice can be mixed from, and one of
them can be taken by a booking or by others. A detour is a page opened out of
order, a lost answer or a change by others; two of them let an answer arrive on
a page that was left and reopened. Two requests and two writes let the answers
to two changes overlap, and the second booking of the same time be refused.

In `miniapp` three events are the fewest in which a form is opened, saved, left
and reopened, or in which a save meets a lapse and a loss. `useMyWorkingHours`
is followed from the launch on because its pages are guarded, and its form is
one that can wipe; the launch itself does not depend on the query. The other
queries start with the session up, so that every page, form and button is met
with every save that concerns it. A burst of 1 makes the renewal call itself
once before it gives up; a larger one only lengthens that. A page rendered a
second time before the run of an earlier visit of `OnboardingPage` has ended,
and a second save while one is under way, are excluded.

**Fairness.** `EveryRequestAnswered` assumes weak fairness of each request's
steps: the event loop resumes a coroutine whose statement has returned, and
PostgreSQL wakes a waiter when the lock it waits for is free and kills a
transaction that waits for itself. Nobody is obliged to issue a request, to
crash or to let time pass. `ScheduledIsSettled` assumes that the scheduler
runs its job again and again, that a dispatch which has begun goes on (a call
to Telegram returns or times out), and that time passes: one weak fairness
condition for all system steps together and one for time. A PATCH need not go on
after its first commit. `MessagesAreTried`
assumes the same. `Terminates` assumes that the loop runs.
`OwnChangeAppears` assumes that a query that has been sent ends in an answer or
an error (`WF(FetchList)`), as fetch does. `GateOpens` and `StaffKnown` assume
that the app's own steps go on (`WF(SessionStep)`): timers fire, requests end,
callbacks run; a mute CloudStorage need not call back, for which the timers are
there. `OwnSaveAppears` adds the steps of the query (`WF(QueryStep)`). Nothing is
asked of users, losses or the lapse.

**Findings** (runs that must end in a violation):

* `buffer`: the buffer is checked against a list read without a lock, so two
  concurrent creates closer than the buffer both commit.
* `quiet`: a reschedule that has loaded a booking before its cancellation
  commits after it, and inserts reminders for a cancelled booking.
* `deadlock`: the first deadlock is answered 500, because the retry reads an
  object that the rollback expired.
* `taken`: a reschedule whose slot is taken concurrently is answered 500, since
  the UPDATE is flushed outside the `try`.
* `paused`: the worker's only job is added paused, so nothing is ever sent by
  it.

A message that Telegram refuses is logged with `will_retry` and given a
`next_retry_at`, but only the next request for the same booking looks at it.
`SelectMessages` shows it; what holds is `MessagesAreTried`, that each message is
tried once, unless a fault comes between its commit and its dispatch. That the
refused ones are tried again it does not say, and they are not.

The same expired objects make the second of two concurrent completions answer
500 (`EnqueueReview`), after its change is committed.

Four more faults are kept out by name, by a constant or in the statement of a
property, and what is shown holds beside them: a reschedule to the loaded start
(`SameSlotMoves`), hooks that miss a key (`LeftBehind`), forms that wipe
(`KnownWipes`), and the renewal that calls itself until the limiter stops it
(`ExchangeLimit`).

## 4. Proofs

### The server

Assumptions: `BookingsAssumption` and `SlotsAssumption`, that is, the types of
the configuration. Nothing is assumed of the number of requests, bookings,
staff or services, nor of `RollbackExpires` and `SameSlotMoves`.

`NoOverlap` is not inductive: a commit may make visible any uncommitted
version. `IndInv` adds why it may not:

1. `LockDiscipline`: a transaction holds at most one row, no row has two
   holders, and rows are held only from the write to the commit.
2. `RequestsTyped`: what a handler has loaded by each statement.
3. `WrittenDerived`: the uncommitted version derives from the *committed* row,
   which the lock has kept unchanged.
4. `CheckedIsClear`: a version that has passed both indexes overlaps no
   committed active row but the one it replaces. Passing needs no violation
   and no blocker; afterwards, a row that would overlap it cannot be committed,
   because of
5. `CheckedApart`: two versions that have passed do not overlap each other. The
   second would have found the first in the index, and waited.

`BookingsProofs` proves `Inductive` (one step per action, under it one per
part that the action can disturb), and from it `TypeCorrect` and `NeverOverlap`.
`BookingsRefinement` proves `Refinement`: a commit is `Book`, `Move` or `Close`
of the calendar, by `WrittenDerived` and `CheckedIsClear`; every other step
stutters. `TLC` checks `IndInv` and the refinement in `change`.

`BookingsOutcomes` proves a second invariant, `OutcomesInv`, on top of the first,
about what requests make of the rows and the notifications:

1. `LengthOfService`: every row, committed, loaded or about to be committed, is as
   long as its service takes. An UPDATE writes start and end each only if it
   differs from the loaded object; as that object has the right length too, both
   differ or neither does. The length makes equal starts overlap, so a violation
   of the unique index is an overlap as well: `RefusalsAreJustified`
   (`RefusalJustified`).
2. `WrittenAsAsked`: an open transaction will commit what its request asked for, so
   the reminders that are written under the same lock announce the start that
   the row then has: `RemindersAnnounceTheStart` (`RemindersFollow`), for
   `SameSlotMoves = FALSE`. Otherwise the loaded start may be the one asked for,
   nothing is written, and the committed start may be another by then.
3. `CompletionPursued`: whoever's commit completes a booking has loaded it
   uncompleted, so it goes on to `enqueue`, unless the booking is reopened first,
   and then whoever completes it next does: `CompletedAreAsked`
   (`CompletedIsRequested`), for clients who take reminders.

### The outbox

Assumption: `NotificationsAssumption`, the types of the configuration and that
the worker, the sessions that dispatch and those that PATCH are different ones.
Nothing is assumed of the number of bookings, rows, sessions, retries, faults, nor
of the limit of a batch. The two hours of `ReviewWasDue` are part of the
specification.

`NotificationsProofs` proves `Invariance`, that `NotificationsInvariant!IndInv`
always holds, and from it `AttemptsAreBounded` (`AttemptsBounded`),
`DeliveredAtMostOnce` (`DeliveredOnce`), `StatusTellsTruth` (`SettledTruly`) and
`CancelledStaysPurged` (`CancelledIsPurged`). The bounds speak of the table and
the history alone; what keeps them is in between, in the worker's session:

1. `Accounts`: the counters of a row agree with its status and its retries, with
   room for one attempt per outcome that got lost. While a row has been tried and
   not committed, its copy in the session accounts for the counters and the
   committed row is one attempt behind (`Ahead`).
2. `WorkerAlone`: nobody else writes scheduled rows, so what the worker has
   loaded is still pending and has the retries it was loaded with, or is gone. The
   commit then makes up for exactly that one attempt.
3. `KeysAreKept`: a row that is gone is not replaced by another one under its key.
4. `OneBookingInHand`: the rows of one flush belong to one booking, because
   batches are taken up booking by booking and committed after the last row of
   each.
5. `ReviewsComeLate`: a booking with a review request is over, and has been so since
   before the request was due. The worker has loaded it only when it was due, and
   then no request is left that could purge the booking.
6. `PurgedTogether`: of what is loaded of a booking all rows have been purged or
   none. A review request would break that, since a purge spares it; that is why 5
   is needed. So a flush that fails for a missing row forgets no attempt of a row
   that is still there, and `DeliveredOnce` survives it.

`CancelledStaysPurged` is about steps (`CancelledIsPurged`). That a cancelled booking
has no pending reminder is *not* an invariant: a reschedule that loaded the
booking before its cancellation commits after it, as the run `quiet` shows. What the
purge does promise is that a cancellation leaves none, one with a retry ahead
included, and that afterwards no commit of the worker, which may still have in its
session what was purged, and no PATCH brings one back. Whatever is left to a
cancelled booking comes under a new key, from a reschedule that did not know.

`Refinement` proves that `Notifications` implements `Outbox` (`RefinesOutbox`). A commit
of a request is `Book`, `Move` or `Cancel`, that of a PATCH is `Mark`, or does not
show, and its second one is `AskReview`; what the worker commits is `Try` of the
one booking in hand (4), what requests commit of their dispatch is `Deliver`, and every
other step does not show. That a commit made from a stale session is an attempt at the
row as it is now is `WorkerAlone`; that a review is asked for only of a booking that is
over, whatever happened between the two commits of the PATCH, is `ReviewsComeLate`.
The refinement needed one more conjunct in `WorkerAlone` than the bounds did: a row
that the session has given up has one attempt left in the table. The counters alone
do not say so, since an outcome that got lost makes them run ahead of the retries.

### The booking flow

Assumption: `BookingFlowAssumption`, the types of the configuration. Nothing is
assumed of the number of services, people, days, bookings, requests or writes.

`BookingFlowProofs` proves `Invariance`, that `BookingFlow!IndInv` always holds,
and from it `Coherence` (`ChoiceIsCoherent`), `OneAtATime` (`OneAnswerAwaited`),
`RedirectIsCleared` (`HeldTimerIsHere`) and `ReadYourWrites`
(`OwnChangesShown`). What has to be added to them:

1. `route = "date"` only with service and person chosen: the date step is the one
   that stores a choice without checking the earlier ones, its guard did
   (`LandingType`).
2. `IsSound`: a request is awaited on its own page only. So a page whose button
   is enabled awaits nothing, and leaving a page, which abandons its requests,
   leaves nothing awaited.
3. `Timely`: not only what an entry shows but what it *waits for* is no older than
   the latest acknowledged change, unless the entry is marked. Without that the
   answer that lands could be old. `QueryCacheProofs` proves it of each
   operation on an entry, once.

A time was offered (`ChoiceIsCoherent`) is a statement about the server's
history; it is stable because the history only grows.

### The mini app

Assumptions: `SessionAssumption` and `MiniAppAssumption`, the types of the
configuration, and `TablesAssumption`, a statement without variables about the
tables in `Endpoints`, `Queries` and `Pages`: what a hook changes it covers, or
the pair is in `LeftBehind`; a form that replaces a table has that table among
what it waits for, or the pair is in `KnownWipes`. TLC evaluates it, on the
tables themselves, in the run `miniapp`; the provers would have to expand some
sixty hooks and forty pages. So the proofs say: with tables like these, no order
of events breaks the promise. Nothing is assumed of the number of events or
mishaps, nor of the burst of the limiter.

`MiniAppProofs` proves `Invariance`, that `MiniAppInvariant!IndInv` always
holds, and from it `TypeCorrect` (`TypeOK`), `OwnSavesAreShown` (`OwnSaveShown`),
`EditorsFollow` (`EditorsRehydrated`), `NothingIsWiped` (`NothingWiped`),
`SavesRunOnce` (`RanOnce`) and `NobodySentAwayEarly` (`NoPrematureRedirect`). The
invariant adds:

1. `EntryTimely`: the `Timely` of the booking flow, by the same lemmas of
   `QueryCacheProofs`, and that no request is dated in the future.
2. `FormFollows`: a mounted form that starts from the query has values once the
   query has, and one that refills itself has exactly the query's. With
   `EntryTimely` that gives `EditorsRehydrated`.
3. `SaveFollowed`: the save under way was pressed on a page that has it, with
   the form filled where the page waits for that (`NothingWiped`); and while its
   request may still be sent it has not been executed (`RanOnce`), since a 401 is
   answered before the handler runs.
4. `FailuresExplained`: a profile that could not be loaded, and so a staff link
   that is taken for missing, goes back to a mishap; a run that saves its bearer
   has one. That gives `NoPrematureRedirect`.

### The slot scan

Assumptions: `SlotScanAssumption` and `SlotsAssumption`, the types of the
configuration and that step, service and day are not empty. Nothing is assumed
of the number of hours, exceptions and bookings, nor of the wall clock, which may
jump in any way.

`SlotScanProofs` proves `Invariance`, that `SlotScanInvariant!IndInv` always holds,
and from it `TypeCorrect` (`TypeOK`), `OffersTheOpenGrid`
(`OffersExactlyTheOpenGrid`), `NoStartTwice` (`StrictlyAscending`) and, with what
follows about `Slots`, `LoopsComputeSlots` (`AgreesWithSlots`). The properties speak
of the end; the invariant says what each loop leaves to the next:

1. `Staged`: which loop runs, and which variables the others have emptied.
2. `WindowsApart`: the windows before and after the cut are in order with a gap
   between any two, and what is still to be merged begins no earlier. It is what
   the sort is for: an interval that begins before the last merged one would be
   swallowed by the `max` of the merge (the mutant of `IndInv` sorts by the ends).
   A gap on both sides makes a window *maximal*, and the grid counts from its
   start.
3. `MinutesAccounted`: a minute is in the windows exactly if it is open as far as
   the cuts have been made, the current one in the windows it has been through
   only. With 2, at the end of the cuts the windows are the stretches of open
   minutes (`SeparatedAreStretches`).
4. `GridFollowed`: during the scan, what is on offer in the stretches that have
   been searched has been found, in the current one up to the cursor, and nothing
   else. The cursor is on the grid, so the next point that could be on offer is
   where it goes next (`GridSteps`).
5. `FoundInOrder`: starts are found in ascending order while the clock advances.

The last part is about module `Slots`, whose operators `Bookings` uses.
`MinusStretches` says that `IntervalMinus` turns the stretches of some minutes into
the stretches of those outside the cut; `MergedAreStretches` that `Merged` gives
the stretches of the minutes of its intervals; `FoldOfCuts` that a fold of cuts is
what any function gives that takes any cut last. So `EffectiveAreOpenStretches`:
`ApplyExceptions` leaves the open stretches, in whatever order the exceptions come.
The fold is defined by recursion on finite sets. The induction theorem of the
library takes an operator and cannot be used, so the proof looks at a least
set on which the two differ (`WFMin`, strict inclusion being well-founded on the
subsets of a finite set) and finds a smaller one.

### What is only model-checked

Liveness is out of TLAPS's reach: `EveryRequestAnswered`, `ScheduledIsSettled`,
`MessagesAreTried`, `Terminates`, `OwnChangeAppears`, `GateOpens`, `StaffKnown`,
`OwnSaveAppears`. With `Terminates` TLC also shows that the sort of `Finish` has a
result; the proofs say what is true of it. Every other property of a passing run
is stated by a theorem, except the refutations, the findings, which are TLC's.

## 5. Plan

In this order:

1. **Catalogue against bookings** (`Catalog`): deactivation of a service, staff
   member or link between the check and the commit of a booking; cascades.
2. **Team** (`Team`): consume, revoke, expire an invite; demotion; staff links.
   Theorem: one consumer per invite if the code's checks allow it.
3. **Reviews and photos** (`Reviews`): creates and hidings around each other's
   recomputation of the aggregates; pending uploads.
4. **More proofs**: an abstract specification of what the wizard sends, implemented
   by `BookingFlow`; `Slots` and `Bookings` together, that a slot that is offered and
   still free passes the check of a create.

Not to be modelled: signature checks (cryptography), rendering of texts and
keyboards, the UI kit, charts and Telegram's chrome in the mini app
(presentation), read-only statistics and export, deployment files. The
catalogue, the team, reviews and photos appear in `MiniApp` as tables that are
read and written; their handlers on the server are the plan's items 1 to 3.
