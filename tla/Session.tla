-------------------------------- MODULE Session --------------------------------
(***************************************************************************)
(* The session of the mini app: the token kept on the device, the launch   *)
(* runs of useAuth, the store they fill, and shared/api/client.ts, whose   *)
(* request() renews the session on 401 and sends the request once more.    *)
(* Module MiniApp composes it with the pages that await it.                *)
(***************************************************************************)
EXTENDS Integers

CONSTANTS
    ExchangeLimit,  \* sign-ins in a row before the server's limiter answers 429
    MaxEvents       \* bound on the user's events and the mishaps together

ASSUME SessionAssumption == ExchangeLimit \in Nat /\ MaxEvents \in Nat

VARIABLES
    device,   \* what the app runs on, and for whom
    lapsed,   \* initData and the tokens issued for it have expired
    kept,     \* slotbook.jwt in sessionStorage and in CloudStorage
    auth,     \* auth-store, and the bearer and handler of client.ts
    runs,     \* the effects of useAuth in AuthGate and in OnboardingPage
    calls,    \* request(), by who awaits it
    mishaps,  \* what is out of the ordinary: another launch than Telegram's, a
              \* CloudStorage that is absent or mute, a token of an earlier launch,
              \* a lost request, the day's end
    events    \* pages opened and saves begun

session == <<device, lapsed, kept, auth, runs, calls, mishaps>>

\* None, one of an earlier launch, or one of this launch.
Token == {"none", "old", "new"}

Run == {"gate", "home"}

\* "stray" is a query's request that was superseded while it renewed the session.
Caller == Run \cup {"query", "save", "stray"}

Device == [launch : {"telegram", "dev", "browser"},
           cloud : {"works", "mute", "absent"},
           role : {"admin", "staff", "client"},
           oldExpired : BOOLEAN]

Auth == [bearer : Token, token : Token, user : BOOLEAN,
         staffMe : {"unknown", "linked", "unlinked"}, handler : BOOLEAN]

RunState == [phase : {"none", "reading", "exchanging", "saving", "profiling", "over"},
             cancelled : BOOLEAN]

Call == [phase : {"idle", "sent", "ran", "renewing", "storing", "failed"},
         bearer : Token, resent : BOOLEAN, nested : 0 .. ExchangeLimit]

Idle == [phase |-> "idle", bearer |-> "none", resent |-> FALSE, nested |-> 0]
Sent(token) == [Idle EXCEPT !.phase = "sent", !.bearer = token]

Within == events + mishaps < MaxEvents
Mishap == Within /\ mishaps' = mishaps + 1
Event == Within /\ events' = events + 1

\* The app is loaded; at most one token has been left by an earlier launch.
SessionInit ==
    /\ device \in Device
    /\ device.launch # "telegram" => device.cloud = "absent" /\ device.role # "admin"
    /\ lapsed = FALSE
    /\ kept \in [local : {"none", "old"}, cloud : {"none", "old"}]
    /\ kept.cloud = "old" => device.cloud # "absent"
    /\ auth = [bearer |-> "none", token |-> "none", user |-> FALSE,
               staffMe |-> "unknown", handler |-> FALSE]
    /\ runs = [r \in Run |-> [phase |-> IF r = "gate" THEN "reading" ELSE "none",
                             cancelled |-> FALSE]]
    /\ calls = [c \in Caller |-> Idle]
    /\ mishaps = (IF device.launch = "telegram" /\ device.cloud = "works" THEN 0 ELSE 1)
                 + (IF "old" \in {kept.local, kept.cloud} THEN 1 ELSE 0)
    /\ mishaps <= MaxEvents
    /\ device.oldExpired => "old" \in {kept.local, kept.cloud}

\* A launch in Telegram has gone well.
SessionUp ==
    /\ device \in [launch : {"telegram"}, cloud : {"works"},
                   role : {"admin", "staff", "client"}, oldExpired : {FALSE}]
    /\ lapsed = FALSE
    /\ kept = [local |-> "new", cloud |-> "new"]
    /\ auth = [bearer |-> "new", token |-> "new", user |-> TRUE,
               staffMe |-> IF device.role = "staff" THEN "linked" ELSE "unlinked",
               handler |-> TRUE]
    /\ runs = [r \in Run |-> [phase |-> IF r = "gate" THEN "over" ELSE "none",
                             cancelled |-> FALSE]]
    /\ calls = [c \in Caller |-> Idle]
    /\ mishaps = 0

\* useAuth's effectiveStatus is not pending.
GateOpen == auth.token # "none" \/ runs["gate"].phase = "over"

-----------------------------------------------------------------------------
(* The device *)

\* Mutant: getItem is awaited without a timer.
StorageReadsUntimed == IF device.cloud = "works" THEN {kept.cloud} ELSE {}

(***************************************************************************)
(* What readCloudStorage resolves to: a mute CloudStorage calls back late, *)
(* or not before the timer has resolved to what sessionStorage holds.      *)
(***************************************************************************)
StorageReads == CASE device.cloud = "works" -> {kept.cloud}
            [] device.cloud = "mute" -> {kept.cloud, kept.local}
            [] device.cloud = "absent" -> {kept.local}

\* What CloudStorage holds when writeCloudStorage resolves.
Written == CASE device.cloud = "works" -> {"new"}
             [] device.cloud = "mute" -> {"new", kept.cloud}
             [] device.cloud = "absent" -> {kept.cloud}

\* setSession up to its await, and after it.
SetsToken ==
    /\ auth' = [auth EXCEPT !.bearer = "new"]
    /\ kept' = [kept EXCEPT !.local = "new"]
ShowsSession ==
    /\ auth' = [auth EXCEPT !.token = "new", !.user = TRUE]
    /\ \E t \in Written : kept' = [kept EXCEPT !.cloud = t]

-----------------------------------------------------------------------------
(* The launch runs *)

Over(r) == runs' = [runs EXCEPT ![r].phase = "over"]
Becomes(r, phase) == runs' = [runs EXCEPT ![r].phase = phase]

\* loadFromStorage, and what follows it without an await.
LoadFromStorage(r) ==
    /\ runs[r].phase = "reading"
    /\ \E t \in StorageReads :
         LET loaded == IF t = "none" THEN auth ELSE [auth EXCEPT !.bearer = t, !.token = t] IN
         \/ /\ runs[r].cancelled \/ device.launch = "browser"
            /\ auth' = loaded
            /\ Over(r)
            /\ UNCHANGED <<kept, calls>>
         \/ /\ ~runs[r].cancelled /\ device.launch = "telegram"
            /\ auth' = loaded
            /\ Becomes(r, "exchanging")
            /\ calls' = [calls EXCEPT ![r] = Sent(loaded.bearer)]
            /\ UNCHANGED kept
         \/ /\ ~runs[r].cancelled /\ device.launch = "dev"
            /\ auth' = [loaded EXCEPT !.bearer = "new"]
            /\ kept' = [kept EXCEPT !.local = "new"]
            /\ Becomes(r, "saving")
            /\ UNCHANGED calls
    /\ UNCHANGED <<device, lapsed, mishaps>>

\* exchangeInitData has answered.
Exchanged(r) ==
    /\ runs[r].phase = "exchanging" /\ calls[r].phase = "ran"
    /\ calls' = [calls EXCEPT ![r] = Idle]
    /\ \/ runs[r].cancelled /\ Over(r) /\ UNCHANGED <<auth, kept>>
       \/ ~runs[r].cancelled /\ SetsToken /\ Becomes(r, "saving")
    /\ UNCHANGED <<device, lapsed, mishaps>>

ExchangeFails(r) ==
    /\ runs[r].phase = "exchanging" /\ calls[r].phase = "failed"
    /\ calls' = [calls EXCEPT ![r] = Idle]
    /\ Over(r)
    /\ UNCHANGED <<device, lapsed, kept, auth, mishaps>>

\* setSession resolves, and loadStaffMe asks.
SessionSaved(r) ==
    /\ runs[r].phase = "saving"
    /\ ShowsSession
    /\ Becomes(r, "profiling")
    /\ calls' = [calls EXCEPT ![r] = Sent(auth.bearer)]
    /\ UNCHANGED <<device, lapsed, mishaps>>

\* Mutant: no fallback in loadStaffMe.
ProfileOrNothing(r) ==
    IF calls[r].phase = "ran" /\ device.role = "staff" THEN "linked" ELSE auth.staffMe

\* loadStaffMe falls back to an account that is not linked.
StaffMeAfter(r) ==
    IF calls[r].phase = "ran" /\ device.role = "staff" THEN "linked" ELSE "unlinked"

\* The run ends; in Telegram it registers the handler.
Profiled(r) ==
    /\ runs[r].phase = "profiling" /\ calls[r].phase \in {"ran", "failed"}
    /\ auth' = [auth EXCEPT !.staffMe = StaffMeAfter(r),
                            !.handler = @ \/ device.launch = "telegram"]
    /\ calls' = [calls EXCEPT ![r] = Idle]
    /\ Over(r)
    /\ UNCHANGED <<device, lapsed, kept, mishaps>>

-----------------------------------------------------------------------------
(* request() *)

IsExchange(c) == c \in Run /\ runs[c].phase = "exchanging"

\* The server answers 401.
IsRefused(c) ==
    IF IsExchange(c) THEN lapsed
    ELSE calls[c].bearer = "none" \/ lapsed \/ (calls[c].bearer = "old" /\ device.oldExpired)

Turns(c, phase) == calls' = [calls EXCEPT ![c].phase = phase]

Serve(c) ==
    /\ calls[c].phase = "sent" /\ ~IsRefused(c)
    /\ Turns(c, "ran")
    /\ UNCHANGED <<device, lapsed, kept, auth, runs, mishaps>>

Refuse(c) ==
    /\ calls[c].phase = "sent" /\ IsRefused(c)
    /\ Turns(c, IF auth.handler /\ ~calls[c].resent THEN "renewing" ELSE "failed")
    /\ UNCHANGED <<device, lapsed, kept, auth, runs, mishaps>>

\* The handler's exchange is granted.
Renew(c) ==
    /\ calls[c].phase = "renewing" /\ ~lapsed
    /\ SetsToken
    /\ Turns(c, "storing")
    /\ UNCHANGED <<device, lapsed, runs, mishaps>>

(***************************************************************************)
(* The handler's exchange goes through request() as well: refused with     *)
(* 401 it calls the handler again, within itself, until the limiter's 429  *)
(* ends the innermost call and every one around it returns null.           *)
(***************************************************************************)
RenewRefused(c) ==
    /\ calls[c].phase = "renewing" /\ lapsed
    /\ IF calls[c].nested < ExchangeLimit
       THEN calls' = [calls EXCEPT ![c].nested = @ + 1]
       ELSE Turns(c, "failed")
    /\ UNCHANGED <<device, lapsed, kept, auth, runs, mishaps>>

\* setSession has resolved: the request is sent with the token it was given.
Resend(c) ==
    /\ calls[c].phase = "storing"
    /\ ShowsSession
    /\ calls' = [calls EXCEPT ![c] =
                    IF c = "stray" THEN Idle ELSE [Sent("new") EXCEPT !.resent = TRUE]]
    /\ UNCHANGED <<device, lapsed, runs, mishaps>>

\* Mutant: a request without an answer is sent again.
SentOnceMore(call) ==
    IF call.resent THEN [call EXCEPT !.phase = "failed"]
    ELSE [call EXCEPT !.phase = "sent", !.resent = TRUE]

\* Mutant: whoever awaits it is never told.
Forgotten(call) == Idle

\* fetch rejects.
Broken(call) == [call EXCEPT !.phase = "failed"]

\* The request or its answer is lost, or the server answers an error.
Lose(c) ==
    /\ calls[c].phase \in {"sent", "ran", "renewing"}
    /\ calls' = [calls EXCEPT ![c] = Broken(@)]
    /\ Mishap
    /\ UNCHANGED <<device, lapsed, kept, auth, runs>>

\* Nobody awaits the superseded request any more.
StrayFails ==
    /\ calls["stray"].phase = "failed"
    /\ calls' = [calls EXCEPT !["stray"] = Idle]
    /\ UNCHANGED <<device, lapsed, kept, auth, runs, mishaps>>

\* A day after the launch.
Lapse ==
    /\ ~lapsed /\ lapsed' = TRUE
    /\ Mishap
    /\ UNCHANGED <<device, kept, auth, runs, calls>>

Launch(r) ==
    LoadFromStorage(r) \/ Exchanged(r) \/ ExchangeFails(r) \/ SessionSaved(r) \/ Profiled(r)

\* What request() itself goes through.
Transport(c) == Refuse(c) \/ Renew(c) \/ RenewRefused(c) \/ Resend(c)

SessionTypeOK ==
    /\ device \in Device /\ lapsed \in BOOLEAN
    /\ kept \in [local : Token, cloud : Token]
    /\ auth \in Auth
    /\ runs \in [Run -> RunState] /\ calls \in [Caller -> Call]
    /\ mishaps \in Nat /\ events \in Nat /\ mishaps + events <= MaxEvents
=================================================================================
