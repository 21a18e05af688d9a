----------------------------- MODULE MiniAppProofs -----------------------------
(***************************************************************************)
(* The invariant of module MiniAppInvariant and what follows from it, for  *)
(* every choice of the bounds and of the queries followed.  The session    *)
(* comes first, then the entry with its form, then the saves.              *)
(***************************************************************************)
EXTENDS MiniAppInvariant, QueryCacheProofs

CallPhase == {"idle", "sent", "ran", "renewing", "storing", "failed"}
RunPhase == {"none", "reading", "exchanging", "saving", "profiling", "over"}

\* What a step of the session has to keep, and what it leaves to the pages: a
\* request of theirs neither begins nor ends by it, nor is it pending again.
SessionInv == SessionTypeOK /\ FailuresExplained
Pending == {"sent", "renewing", "storing"}
KeepsCall(c) ==
    /\ calls'[c].phase = "idle" <=> calls[c].phase = "idle"
    /\ calls'[c].phase \in Pending => calls[c].phase \in Pending
SessionKept == SessionInv' /\ KeepsCall("query") /\ KeepsCall("save")

-----------------------------------------------------------------------------
(* Calls and runs, one at a time *)

LEMMA CallValues ==
    ASSUME NEW token \in Token
    PROVE  /\ Sent(token) \in Call
           /\ Sent(token).phase = "sent" /\ Sent(token).bearer = token
           /\ Idle \in Call /\ Idle.phase = "idle"
<1>1. 0 \in 0 .. ExchangeLimit
    BY SessionAssumption
<1>2. Idle \in Call /\ Idle.phase = "idle"
    BY <1>1 DEF Call, Idle, Token
<1> QED
    BY <1>2 DEF Call, Sent

\* Another value for one call is one for no other.
LEMMA CallBecomes ==
    ASSUME calls \in [Caller -> Call], NEW c \in Caller, NEW x \in Call,
           calls' = [calls EXCEPT ![c] = x]
    PROVE  /\ calls' \in [Caller -> Call]
           /\ calls'[c] = x
           /\ \A d \in Caller \ {c} : calls'[d] = calls[d]
OBVIOUS

\* A call that changes its phase is the same call.
LEMMA TurnsTo ==
    ASSUME calls \in [Caller -> Call], NEW c \in Caller, NEW phase \in CallPhase,
           Turns(c, phase)
    PROVE  /\ calls' \in [Caller -> Call]
           /\ calls'[c].phase = phase /\ calls'[c].bearer = calls[c].bearer
           /\ \A d \in Caller \ {c} : calls'[d] = calls[d]
<1> DEFINE x == [calls[c] EXCEPT !.phase = phase]
<1>1. x \in Call /\ x.phase = phase /\ x.bearer = calls[c].bearer
    BY DEF Call, CallPhase
<1>2. calls' = [calls EXCEPT ![c] = x]
    BY DEF Turns
<1> HIDE DEF x
<1> QED
    BY <1>1, <1>2, CallBecomes

LEMMA RunBecomes ==
    ASSUME runs \in [Run -> RunState], NEW r \in Run, NEW phase \in RunPhase,
           Becomes(r, phase)
    PROVE  /\ runs' \in [Run -> RunState]
           /\ runs'[r].phase = phase
           /\ \A s \in Run \ {r} : runs'[s] = runs[s]
BY DEF Becomes, RunState, RunPhase

\* What is read from the device and written to it are tokens.
LEMMA DeviceTokens ==
    ASSUME SessionTypeOK
    PROVE  StorageReads \subseteq Token /\ Written \subseteq Token
<1>1. device.cloud \in {"works", "mute", "absent"}
    BY DEF SessionTypeOK, Device
<1>2. kept.cloud \in Token /\ kept.local \in Token /\ "new" \in Token
    BY DEF SessionTypeOK, Token
<1> QED
    BY <1>1, <1>2 DEF StorageReads, Written

\* A session that renews itself.
LEMMA SessionTokens ==
    ASSUME SessionTypeOK
    PROVE  /\ SetsToken => /\ auth' \in Auth /\ kept' \in [local : Token, cloud : Token]
                           /\ auth'.bearer = "new" /\ auth'.staffMe = auth.staffMe
           /\ ShowsSession => /\ auth' \in Auth /\ kept' \in [local : Token, cloud : Token]
                              /\ auth'.bearer = auth.bearer /\ auth'.staffMe = auth.staffMe
<1>1. auth \in Auth /\ kept \in [local : Token, cloud : Token]
    BY DEF SessionTypeOK
<1>2. ASSUME SetsToken
      PROVE  /\ auth' \in Auth /\ kept' \in [local : Token, cloud : Token]
             /\ auth'.bearer = "new" /\ auth'.staffMe = auth.staffMe
    BY <1>1, <1>2 DEF SetsToken, Auth, Token
<1>3. ASSUME ShowsSession
      PROVE  /\ auth' \in Auth /\ kept' \in [local : Token, cloud : Token]
             /\ auth'.bearer = auth.bearer /\ auth'.staffMe = auth.staffMe
    <2>1. PICK t \in Token : kept' = [kept EXCEPT !.cloud = t]
        BY <1>3, DeviceTokens DEF ShowsSession
    <2>2. kept' \in [local : Token, cloud : Token]
        BY <1>1, <2>1
    <2>3. auth' = [auth EXCEPT !.token = "new", !.user = TRUE]
        BY <1>3 DEF ShowsSession
    <2> QED
        BY <1>1, <2>2, <2>3 DEF Auth, Token
<1> QED
    BY <1>2, <1>3

-----------------------------------------------------------------------------
(* The launch runs *)

LEMMA LoadFromStorageKeeps ==
    ASSUME SessionInv, NEW r \in Run, LoadFromStorage(r), events' = events
    PROVE  SessionKept
<1>1. PICK t \in Token :
         LET loaded == IF t = "none" THEN auth ELSE [auth EXCEPT !.bearer = t, !.token = t] IN
         \/ /\ auth' = loaded /\ Becomes(r, "over") /\ UNCHANGED <<kept, calls>>
         \/ /\ auth' = loaded /\ Becomes(r, "exchanging") /\ UNCHANGED kept
            /\ calls' = [calls EXCEPT ![r] = Sent(loaded.bearer)]
         \/ /\ auth' = [loaded EXCEPT !.bearer = "new"]
            /\ kept' = [kept EXCEPT !.local = "new"]
            /\ Becomes(r, "saving") /\ UNCHANGED calls
    BY DeviceTokens DEF LoadFromStorage, SessionInv, Over, Becomes
<1> DEFINE loaded == IF t = "none" THEN auth ELSE [auth EXCEPT !.bearer = t, !.token = t]
<1>2. auth \in Auth /\ kept \in [local : Token, cloud : Token] /\ "new" \in Token
      /\ runs \in [Run -> RunState] /\ calls \in [Caller -> Call] /\ r \in Caller
    BY DEF SessionInv, SessionTypeOK, Token, Caller
<1>3. /\ loaded \in Auth /\ loaded.staffMe = auth.staffMe
      /\ auth.bearer # "none" => loaded.bearer # "none"
    BY <1>2 DEF Auth
<1>4. UNCHANGED <<device, lapsed, mishaps>>
    BY DEF LoadFromStorage
<1> HIDE DEF loaded
<1>5. CASE auth' = loaded /\ Becomes(r, "over") /\ UNCHANGED <<kept, calls>>
    <2>1. runs' \in [Run -> RunState] /\ runs'[r].phase = "over"
          /\ \A s \in Run \ {r} : runs'[s] = runs[s]
        BY <1>2, <1>5, RunBecomes DEF RunPhase
    <2>2. SessionTypeOK'
        BY <1>3, <1>4, <1>5, <2>1 DEF SessionInv, SessionTypeOK
    <2>3. FailuresExplained'
        BY <1>3, <1>4, <1>5, <2>1 DEF SessionInv, FailuresExplained
    <2> QED
        BY <1>5, <2>2, <2>3 DEF SessionKept, SessionInv, KeepsCall
<1>6. CASE /\ auth' = loaded /\ Becomes(r, "exchanging") /\ UNCHANGED kept
           /\ calls' = [calls EXCEPT ![r] = Sent(loaded.bearer)]
    <2>1. runs' \in [Run -> RunState] /\ runs'[r].phase = "exchanging"
          /\ \A s \in Run \ {r} : runs'[s] = runs[s]
        BY <1>2, <1>6, RunBecomes DEF RunPhase
    <2>2. calls' \in [Caller -> Call] /\ \A d \in Caller \ {r} : calls'[d] = calls[d]
        BY <1>2, <1>3, <1>6, CallValues, CallBecomes DEF Auth
    <2>3. SessionTypeOK'
        BY <1>3, <1>4, <1>6, <2>1, <2>2 DEF SessionInv, SessionTypeOK
    <2>4. FailuresExplained'
        BY <1>3, <1>4, <1>6, <2>1, <2>2 DEF SessionInv, FailuresExplained, Run, Caller
    <2> QED
        BY <2>2, <2>3, <2>4 DEF SessionKept, SessionInv, KeepsCall, Run, Caller
<1>7. CASE /\ auth' = [loaded EXCEPT !.bearer = "new"]
           /\ kept' = [kept EXCEPT !.local = "new"]
           /\ Becomes(r, "saving") /\ UNCHANGED calls
    <2>1. runs' \in [Run -> RunState] /\ runs'[r].phase = "saving"
          /\ \A s \in Run \ {r} : runs'[s] = runs[s]
        BY <1>2, <1>7, RunBecomes DEF RunPhase
    <2>2. auth' \in Auth /\ auth'.bearer = "new" /\ auth'.staffMe = auth.staffMe
        BY <1>2, <1>3, <1>7 DEF Auth
    <2>3. kept' \in [local : Token, cloud : Token]
        BY <1>2, <1>7
    <2>4. SessionTypeOK'
        BY <1>4, <1>7, <2>1, <2>2, <2>3 DEF SessionInv, SessionTypeOK
    <2>5. FailuresExplained'
        BY <1>4, <1>7, <2>1, <2>2 DEF SessionInv, FailuresExplained
    <2> QED
        BY <1>7, <2>4, <2>5 DEF SessionKept, SessionInv, KeepsCall
<1> QED
    BY <1>1, <1>5, <1>6, <1>7 DEF loaded

\* A run ends or goes on with its call idle; what it leaves in auth is given.
LEMMA RunKeeps ==
    ASSUME SessionInv, NEW r \in Run, NEW phase \in {"saving", "over"},
           Becomes(r, phase), calls' = [calls EXCEPT ![r] = Idle],
           UNCHANGED <<device, lapsed, mishaps, events>>,
           auth' \in Auth, kept' \in [local : Token, cloud : Token],
           auth'.bearer = "new" \/ (auth'.bearer = auth.bearer /\ phase = "over"),
           auth'.staffMe = "unlinked" =>
               auth.staffMe = "unlinked" \/ device.role # "staff" \/ mishaps > 0
    PROVE  SessionKept
<1>1. runs' \in [Run -> RunState] /\ runs'[r].phase = phase
      /\ \A s \in Run \ {r} : runs'[s] = runs[s]
    BY RunBecomes DEF SessionInv, SessionTypeOK, RunPhase
<1>2. calls' \in [Caller -> Call] /\ \A d \in Caller \ {r} : calls'[d] = calls[d]
    BY CallValues, CallBecomes DEF SessionInv, SessionTypeOK, Token, Caller
<1>3. SessionTypeOK'
    BY <1>1, <1>2 DEF SessionInv, SessionTypeOK
<1>4. FailuresExplained'
    BY <1>1, <1>2 DEF SessionInv, FailuresExplained, Run, Caller
<1> QED
    BY <1>2, <1>3, <1>4 DEF SessionKept, SessionInv, KeepsCall, Run, Caller

LEMMA SessionSavedKeeps ==
    ASSUME SessionInv, NEW r \in Run, SessionSaved(r), events' = events
    PROVE  SessionKept
<1>1. auth' \in Auth /\ kept' \in [local : Token, cloud : Token]
      /\ auth'.bearer = auth.bearer /\ auth'.staffMe = auth.staffMe
    BY SessionTokens DEF SessionSaved, SessionInv
<1>2. runs' \in [Run -> RunState] /\ runs'[r].phase = "profiling"
      /\ \A s \in Run \ {r} : runs'[s] = runs[s]
    BY RunBecomes DEF SessionSaved, SessionInv, SessionTypeOK, RunPhase
<1>3. /\ calls' \in [Caller -> Call] /\ calls'[r] = Sent(auth.bearer)
      /\ \A d \in Caller \ {r} : calls'[d] = calls[d]
    BY CallValues, CallBecomes DEF SessionSaved, SessionInv, SessionTypeOK, Auth, Caller
<1>4. calls'[r].phase = "sent" /\ calls'[r].bearer = auth.bearer
    BY <1>3, CallValues DEF SessionInv, SessionTypeOK, Auth
<1>5. auth.bearer # "none"
    BY DEF SessionSaved, SessionInv, FailuresExplained
<1>6. SessionTypeOK'
    BY <1>1, <1>2, <1>3 DEF SessionSaved, SessionInv, SessionTypeOK
<1>7. FailuresExplained'
    BY <1>1, <1>2, <1>3, <1>4, <1>5 DEF SessionSaved, SessionInv, FailuresExplained, Run, Caller
<1> QED
    BY <1>3, <1>6, <1>7 DEF SessionKept, SessionInv, KeepsCall, Run, Caller

LEMMA LaunchKeeps ==
    ASSUME SessionInv, NEW r \in Run, Launch(r), events' = events
    PROVE  SessionKept
<1>0. auth \in Auth /\ kept \in [local : Token, cloud : Token]
    BY DEF SessionInv, SessionTypeOK
<1>1. CASE LoadFromStorage(r)
    BY <1>1, LoadFromStorageKeeps
<1>2. CASE Exchanged(r)
    <2>1. CASE runs[r].cancelled /\ Over(r) /\ UNCHANGED <<auth, kept>>
        BY <1>0, <1>2, <2>1, RunKeeps DEF Exchanged, Over, Becomes
    <2>2. CASE SetsToken /\ Becomes(r, "saving")
        <3>1. auth' \in Auth /\ kept' \in [local : Token, cloud : Token]
              /\ auth'.bearer = "new" /\ auth'.staffMe = auth.staffMe
            BY <2>2, SessionTokens DEF SessionInv
        <3> QED
            BY <1>2, <2>2, <3>1, RunKeeps DEF Exchanged
    <2> QED
        BY <1>2, <2>1, <2>2 DEF Exchanged
<1>3. CASE ExchangeFails(r)
    BY <1>0, <1>3, RunKeeps DEF ExchangeFails, Over, Becomes
<1>4. CASE SessionSaved(r)
    BY <1>4, SessionSavedKeeps
<1>5. CASE Profiled(r)
    <2>1. auth' = [auth EXCEPT !.staffMe = StaffMeAfter(r),
                               !.handler = @ \/ device.launch = "telegram"]
          /\ StaffMeAfter(r) \in {"linked", "unlinked"}
        BY <1>5 DEF Profiled, StaffMeAfter
    <2>2. auth' \in Auth /\ auth'.bearer = auth.bearer /\ auth'.staffMe = StaffMeAfter(r)
        BY <1>0, <2>1 DEF Auth
    <2>3. StaffMeAfter(r) = "unlinked" => device.role # "staff" \/ mishaps > 0
        BY <1>5 DEF Profiled, StaffMeAfter, SessionInv, FailuresExplained
    <2> QED
        BY <1>0, <1>5, <2>2, <2>3, RunKeeps DEF Profiled, Over, Becomes
<1> QED
    BY <1>1, <1>2, <1>3, <1>4, <1>5 DEF Launch

-----------------------------------------------------------------------------
(* request() *)

\* A request goes on; what refuses it has been a mishap.
LEMMA TransportKeeps ==
    ASSUME SessionInv, NEW c \in Caller, Transport(c), events' = events
    PROVE  SessionKept
<1> DEFINE call == calls'[c]
<1>0. auth \in Auth /\ kept \in [local : Token, cloud : Token]
      /\ calls \in [Caller -> Call] /\ "new" \in Token
    BY DEF SessionInv, SessionTypeOK, Token
<1>1. /\ calls' \in [Caller -> Call]
      /\ \A d \in Caller \ {c} : calls'[d] = calls[d]
      /\ calls[c].phase \in Pending
      /\ call.phase # "idle" \/ c = "stray"
      /\ calls[c].bearer # "none" => call.bearer # "none" \/ c = "stray"
      /\ UNCHANGED <<device, lapsed, runs, mishaps>>
    <2>1. CASE Refuse(c)
        BY <1>0, <2>1, TurnsTo DEF Refuse, CallPhase, Pending
    <2>2. CASE Renew(c)
        BY <1>0, <2>2, TurnsTo DEF Renew, CallPhase, Pending
    <2>3. CASE RenewRefused(c)
        <3> DEFINE x == [calls[c] EXCEPT !.nested = calls[c].nested + 1]
        <3>1. CASE ~(calls[c].nested < ExchangeLimit)
            BY <1>0, <2>3, <3>1, TurnsTo DEF RenewRefused, CallPhase, Pending
        <3>2. CASE calls[c].nested < ExchangeLimit
            <4>1. calls[c].nested + 1 \in 0 .. ExchangeLimit
                BY <1>0, <3>2, SessionAssumption DEF Call
            <4>2. x \in Call /\ x.phase = calls[c].phase /\ x.bearer = calls[c].bearer
                BY <1>0, <4>1 DEF Call
            <4>3. calls' = [calls EXCEPT ![c] = x]
                BY <2>3, <3>2 DEF RenewRefused
            <4> HIDE DEF x
            <4> QED
                BY <1>0, <2>3, <4>2, <4>3, CallBecomes DEF RenewRefused, Pending
        <3> QED
            BY <3>1, <3>2
    <2>4. CASE Resend(c)
        <3> DEFINE x == IF c = "stray" THEN Idle ELSE [Sent("new") EXCEPT !.resent = TRUE]
        <3>1. x \in Call /\ (c # "stray" => x.phase = "sent" /\ x.bearer = "new")
            BY <1>0, CallValues DEF Call, Sent, Idle
        <3>2. calls' = [calls EXCEPT ![c] = x]
            BY <2>4 DEF Resend
        <3> HIDE DEF x
        <3> QED
            BY <1>0, <2>4, <3>1, <3>2, CallBecomes DEF Resend, Pending
    <2> QED
        BY <2>1, <2>2, <2>3, <2>4 DEF Transport
<1>2. /\ auth' \in Auth /\ kept' \in [local : Token, cloud : Token]
      /\ auth'.bearer = auth.bearer \/ auth'.bearer = "new"
      /\ auth'.staffMe = auth.staffMe
    BY <1>0, SessionTokens
       DEF Transport, Refuse, Renew, RenewRefused, Resend, SessionInv
<1>3. ASSUME c \in Run, runs[c].phase = "profiling", call.phase = "failed"
      PROVE  mishaps > 0
    <2>1. c # "stray" /\ ~IsExchange(c)
        BY <1>3 DEF Run, IsExchange
    <2>2. calls[c].bearer # "none" \/ mishaps > 0
        BY <1>3 DEF SessionInv, FailuresExplained
    <2>3. CASE Refuse(c)
        BY <2>1, <2>2, <2>3 DEF Refuse, IsRefused, SessionInv, FailuresExplained
    <2>4. CASE RenewRefused(c)
        BY <2>4 DEF RenewRefused, SessionInv, FailuresExplained
    <2>5. CASE Renew(c)
        BY <1>0, <1>3, <2>5, TurnsTo DEF Renew, CallPhase
    <2>6. CASE Resend(c)
        BY <1>0, <1>3, <2>1, <2>6 DEF Resend, Sent
    <2> QED
        BY <2>3, <2>4, <2>5, <2>6 DEF Transport
<1> HIDE DEF call
<1>4. SessionTypeOK'
    BY <1>1, <1>2 DEF SessionInv, SessionTypeOK
<1>5. FailuresExplained'
    BY <1>1, <1>2, <1>3 DEF SessionInv, FailuresExplained, Run, Caller, call
<1> QED
    BY <1>1, <1>4, <1>5 DEF SessionKept, SessionInv, KeepsCall, Caller, call, Pending

LEMMA ServeKeeps ==
    ASSUME SessionInv, NEW c \in Caller, Serve(c), events' = events
    PROVE  SessionKept /\ calls[c].phase = "sent" /\ calls'[c].phase = "ran"
<1>1. /\ calls' \in [Caller -> Call]
      /\ calls'[c].phase = "ran" /\ calls'[c].bearer = calls[c].bearer
      /\ \A d \in Caller \ {c} : calls'[d] = calls[d]
    BY TurnsTo DEF Serve, SessionInv, SessionTypeOK, CallPhase
<1>2. SessionTypeOK'
    BY <1>1 DEF Serve, SessionInv, SessionTypeOK
<1>3. FailuresExplained'
    BY <1>1 DEF Serve, SessionInv, FailuresExplained, Run, Caller
<1> QED
    BY <1>1, <1>2, <1>3 DEF Serve, SessionKept, SessionInv, KeepsCall, Caller, Pending

LEMMA StrayFailsKeeps ==
    ASSUME SessionInv, StrayFails, events' = events
    PROVE  SessionKept
<1>1. calls' \in [Caller -> Call] /\ \A d \in Caller \ {"stray"} : calls'[d] = calls[d]
    BY CallValues, CallBecomes DEF StrayFails, SessionInv, SessionTypeOK, Caller, Token
<1>2. SessionTypeOK'
    BY <1>1 DEF StrayFails, SessionInv, SessionTypeOK
<1>3. FailuresExplained'
    BY <1>1 DEF StrayFails, SessionInv, FailuresExplained, Run, Caller
<1> QED
    BY <1>1, <1>2, <1>3 DEF SessionKept, SessionInv, KeepsCall, Caller

\* A mishap explains whatever fails after it.
LEMMA TroubleKeeps ==
    ASSUME SessionInv, Lapse \/ \E c \in Caller : Lose(c), events' = events
    PROVE  SessionKept
<1>1. mishaps' \in Nat /\ mishaps' > 0 /\ mishaps' + events' <= MaxEvents
    BY SessionAssumption
       DEF Lapse, Lose, Mishap, Within, SessionInv, SessionTypeOK
<1>2. CASE Lapse
    <2>1. SessionTypeOK'
        BY <1>1, <1>2 DEF Lapse, SessionInv, SessionTypeOK
    <2>2. FailuresExplained'
        BY <1>1, <1>2 DEF Lapse, SessionInv, FailuresExplained
    <2> QED
        BY <1>2, <2>1, <2>2 DEF Lapse, SessionKept, SessionInv, KeepsCall
<1>3. ASSUME NEW c \in Caller, Lose(c)
      PROVE  SessionKept
    <2> DEFINE x == Broken(calls[c])
    <2>1. x \in Call /\ x.phase = "failed"
        BY DEF SessionInv, SessionTypeOK, Broken, Call
    <2>2. calls' = [calls EXCEPT ![c] = x]
        BY <1>3 DEF Lose
    <2> HIDE DEF x
    <2>3. calls' \in [Caller -> Call] /\ calls'[c].phase = "failed"
          /\ \A d \in Caller \ {c} : calls'[d] = calls[d]
        BY <2>1, <2>2, CallBecomes DEF SessionInv, SessionTypeOK
    <2>4. SessionTypeOK'
        BY <1>1, <1>3, <2>3 DEF Lose, SessionInv, SessionTypeOK
    <2>5. FailuresExplained'
        BY <1>1, <1>3, <2>3 DEF Lose, SessionInv, FailuresExplained
    <2> QED
        BY <1>3, <2>3, <2>4, <2>5
           DEF Lose, SessionKept, SessionInv, KeepsCall, Caller, Pending
<1> QED
    BY <1>2, <1>3

-----------------------------------------------------------------------------
(* The pages *)

\* What has to do with the query that is followed is a page, and the saves of a
\* page that concern the query are buttons of its own.
LEMMA PagesOfSubject ==
    ASSUME subject \in AllQueries
    PROVE  /\ Around \subseteq PageName
           /\ \A p \in PageName : \A n \in SavesOf(p) :
                 /\ n \in DOMAIN PageOf[p].saves
                 /\ Concerns(PageOf[p].saves[n].by, subject)
<1>1. PagesAround[subject] \subseteq PageName
    BY DEF PagesAround
<1>2. Around \subseteq PageName
    BY <1>1, TablesAssumption DEF Around
<1>3. ASSUME NEW p \in PageName
      PROVE  SavesOf(p) = {n \in DOMAIN PageOf[p].saves : Concerns(PageOf[p].saves[n].by, subject)}
    BY DEF SavesOf, ConcernedSaves
<1> QED
    BY <1>2, <1>3

\* The pages disturb the session only by what they ask and by OnboardingPage's run.
LEMMA SessionStays ==
    ASSUME SessionInv, UNCHANGED <<device, lapsed, kept, auth, mishaps>>,
           events' \in Nat, mishaps + events' <= MaxEvents,
           runs' \in [Run -> RunState],
           \A r \in Run : runs'[r].phase \in {runs[r].phase, "reading"},
           calls' \in [Caller -> Call], \A r \in Run : calls'[r] = calls[r]
    PROVE  SessionInv'
<1>1. SessionTypeOK'
    BY DEF SessionInv, SessionTypeOK
<1>2. FailuresExplained'
    BY DEF SessionInv, FailuresExplained
<1> QED
    BY <1>1, <1>2 DEF SessionInv

\* An event of the user is within the bound.
LEMMA EventWithin ==
    ASSUME SessionTypeOK, Event
    PROVE  events' = events + 1 /\ events' \in Nat /\ mishaps + events' <= MaxEvents
BY SessionAssumption DEF SessionTypeOK, Event, Within

LEMMA LeavesRuns ==
    ASSUME runs \in [Run -> RunState], Leaves
    PROVE  /\ runs' \in [Run -> RunState]
           /\ \A r \in Run : runs'[r].phase = runs[r].phase
BY DEF Leaves, Run, RunState

\* A request for the query is one for nobody else.
LEMMA AskingCalls ==
    ASSUME SessionTypeOK, NEW cs \in [Caller -> Call]
    PROVE  /\ Asking(cs) \in [Caller -> Call]
           /\ Asking(cs)["query"].phase = "sent"
           /\ \A c \in Run \cup {"save"} : Asking(cs)[c] = cs[c]
<1>1. Sent(auth.bearer) \in Call /\ Sent(auth.bearer).phase = "sent"
    BY CallValues DEF SessionTypeOK, Auth
<1> QED
    BY <1>1 DEF Asking, Caller, Run

\* A save that nothing happens to stays what it was, whatever the user does.
LEMMA SaveStays ==
    ASSUME SaveFollowed, UNCHANGED <<subject, save, now>>,
           events \in Nat, events' \in {events, events + 1}, now \in Nat,
           KeepsCall("save")
    PROVE  SaveFollowed'
BY DEF SaveFollowed, KeepsCall, Pending, SavesOf, Saved

\* What IndInv says of the entry and of the form, as a step leaves it that
\* writes nothing on the server and acknowledges nothing.
EntryKept ==
    /\ entry' \in Entry /\ retried' \in BOOLEAN
    /\ Timely(entry', acked, now) /\ entry'.from <= now
    /\ InFlight(entry') <=> calls'["query"].phase # "idle"

\* All of it, when the step leaves the server and the save alone.
LEMMA PagesStep ==
    ASSUME IndInv, SessionInv', EntryKept, KeepsCall("save"),
           UNCHANGED <<subject, now, save, acked>>, events' \in {events, events + 1},
           page' \in PageName, mounted' \in BOOLEAN, draft' \in Nat \cup {None},
           FormFollows'
    PROVE  IndInv'
<1>1. events \in Nat /\ now \in Nat /\ now <= events
    BY DEF IndInv, TypeOK, SessionTypeOK
<1>2. TypeOK'
    BY <1>1 DEF IndInv, TypeOK, SessionInv, EntryKept, KeepsCall
<1>3. EntryTimely'
    BY DEF EntryKept, EntryTimely
<1>4. SaveFollowed'
    BY <1>1, SaveStays DEF IndInv
<1> QED
    BY <1>2, <1>3, <1>4 DEF IndInv, SessionInv

\* What a step of the session alone leaves to the pages.
LEMMA ConsoleStays ==
    ASSUME IndInv, SessionKept, UNCHANGED console
    PROVE  IndInv'
<1>1. EntryKept
    BY DEF IndInv, TypeOK, EntryTimely, EntryKept, console, SessionKept, KeepsCall
<1>2. FormFollows'
    BY DEF IndInv, FormFollows, console
<1>3. page' \in PageName /\ mounted' \in BOOLEAN /\ draft' \in Nat \cup {None}
    BY DEF IndInv, TypeOK, console
<1> QED
    BY <1>1, <1>2, <1>3, PagesStep DEF console, SessionKept

\* A page that comes up: its entry may be asked for, its form has the entry's data.
LEMMA Mounting ==
    ASSUME IndInv, NEW p \in PageName,
           \/ Mounts(p)
           \/ draft' = Seeded(p, entry) /\ UNCHANGED <<entry, calls, retried>>
    PROVE  /\ EntryKept
           /\ entry'.at = entry.at
           /\ draft' \in Nat \cup {None}
           /\ subject \in PageOf[p].draft.of => draft' = entry'.at
           /\ calls' \in [Caller -> Call]
           /\ \A c \in Run \cup {"save"} : calls'[c] = calls[c]
<1>0. /\ entry \in Entry /\ retried \in BOOLEAN /\ now \in Nat /\ acked \in Nat /\ acked <= now
      /\ InFlight(entry) <=> calls["query"].phase # "idle"
      /\ Timely(entry, acked, now) /\ entry.from <= now
      /\ SessionTypeOK /\ calls \in [Caller -> Call]
    BY DEF IndInv, TypeOK, EntryTimely, SessionTypeOK
<1>1. CASE draft' = Seeded(p, entry) /\ UNCHANGED <<entry, calls, retried>>
    <2>1. draft' \in Nat \cup {None} /\ (subject \in PageOf[p].draft.of => draft' = entry'.at)
        BY <1>0, <1>1 DEF Seeded, Entry
    <2> QED
        BY <1>0, <1>1, <2>1 DEF EntryKept
<1>2. CASE Mounts(p)
    <2>1. PICK expired \in BOOLEAN :
             LET e == OnMount(entry, now, expired) IN
             /\ EntryBecomes(e, ~InFlight(entry) /\ InFlight(e), calls)
             /\ draft' = Seeded(p, e)
        BY <1>2 DEF Mounts
    <2> DEFINE e == OnMount(entry, now, expired)
    <2>2. /\ entry' = e
          /\ calls' = IF ~InFlight(entry) /\ InFlight(e) THEN Asking(calls) ELSE calls
          /\ retried' = (retried /\ ~(~InFlight(entry) /\ InFlight(e)))
          /\ draft' = Seeded(p, e)
        BY <2>1 DEF EntryBecomes
    <2>3. e \in Entry /\ Timely(e, acked, now)
        BY <1>0, OnMountType, OnMountFresh
    <2>4. e.at = entry.at /\ e.from <= now /\ (InFlight(entry) => InFlight(e))
        BY <1>0 DEF OnMount, Asked, Entry, InFlight
    <2> HIDE DEF e
    <2>5. /\ calls' \in [Caller -> Call]
          /\ \A c \in Run \cup {"save"} : calls'[c] = calls[c]
          /\ InFlight(entry') <=> calls'["query"].phase # "idle"
        BY <1>0, <2>2, <2>4, AskingCalls
    <2>6. draft' \in Nat \cup {None} /\ (subject \in PageOf[p].draft.of => draft' = e.at)
        BY <2>2, <2>3 DEF Seeded, Entry
    <2>7. retried' \in BOOLEAN
        BY <2>2
    <2> QED
        BY <2>2, <2>3, <2>4, <2>5, <2>6, <2>7 DEF EntryKept
<1> QED
    BY <1>1, <1>2

LEMMA SameCallKeeps ==
    ASSUME NEW c, calls'[c] = calls[c]
    PROVE  KeepsCall(c)
BY DEF KeepsCall

LEMMA RenderKeeps ==
    ASSUME IndInv, Render
    PROVE  IndInv'
<1>0. SessionInv /\ page \in PageName /\ runs \in [Run -> RunState]
    BY DEF IndInv, TypeOK, SessionInv, SessionTypeOK
<1>1. /\ EntryKept /\ draft' \in Nat \cup {None}
      /\ subject \in PageOf[page].draft.of => draft' = entry'.at
      /\ calls' \in [Caller -> Call]
      /\ \A c \in Run \cup {"save"} : calls'[c] = calls[c]
    BY <1>0, Mounting DEF Render
<1>2. /\ UNCHANGED <<device, lapsed, kept, auth, mishaps>>
      /\ UNCHANGED <<subject, page, now, save, acked, events>>
      /\ mounted' = TRUE
    BY DEF Render
<1>3. /\ runs' \in [Run -> RunState]
      /\ \A r \in Run : runs'[r].phase \in {runs[r].phase, "reading"}
    <2>1. CASE page # "home"
        BY <1>0, <2>1 DEF Render
    <2>2. CASE runs' = [runs EXCEPT !["home"] = [phase |-> "reading", cancelled |-> FALSE]]
        BY <1>0, <2>2 DEF Run, RunState
    <2> QED
        BY <2>1, <2>2 DEF Render
<1>4. events' \in Nat /\ mishaps + events' <= MaxEvents
    BY <1>0, <1>2 DEF SessionInv, SessionTypeOK
<1>5. SessionInv'
    BY <1>0, <1>1, <1>2, <1>3, <1>4, SessionStays
<1>6. FormFollows'
    BY <1>1, <1>2 DEF FormFollows
<1> QED
    BY <1>0, <1>1, <1>2, <1>5, <1>6, PagesStep, SameCallKeeps

\* A page is left: what its form held goes with it.
LEMMA LeavingKeeps ==
    ASSUME IndInv, NEW p \in PageName, GoesTo(p),
           UNCHANGED <<device, lapsed, kept, auth, calls, mishaps,
                       subject, entry, retried, now, save, acked>>,
           events' \in {events, events + 1}, mishaps + events' <= MaxEvents
    PROVE  IndInv'
<1>0. SessionInv /\ runs \in [Run -> RunState] /\ events' \in Nat
    BY DEF IndInv, TypeOK, SessionInv, SessionTypeOK
<1>1. runs' \in [Run -> RunState] /\ \A r \in Run : runs'[r].phase = runs[r].phase
    BY <1>0, LeavesRuns DEF GoesTo
<1>2. SessionInv'
    BY <1>0, <1>1, SessionStays DEF SessionInv, SessionTypeOK
<1>3. EntryKept
    BY DEF IndInv, TypeOK, EntryTimely, EntryKept
<1>4. FormFollows' /\ page' \in PageName /\ mounted' \in BOOLEAN /\ draft' \in Nat \cup {None}
    BY DEF GoesTo, FormFollows
<1> QED
    BY <1>2, <1>3, <1>4, PagesStep, SameCallKeeps

LEMMA OpenKeeps ==
    ASSUME IndInv, NEW p \in Around, Open(p)
    PROVE  IndInv'
<1>1. p \in PageName
    BY PagesOfSubject DEF IndInv, TypeOK
<1>2. events' = events + 1 /\ mishaps + events' <= MaxEvents
    BY EventWithin DEF Open, IndInv, TypeOK
<1> QED
    BY <1>1, <1>2, LeavingKeeps DEF Open

LEMMA SentAwayKeeps ==
    ASSUME IndInv, SentAway
    PROVE  IndInv'
<1>1. mishaps + events <= MaxEvents
    BY DEF IndInv, TypeOK, SessionTypeOK
<1> QED
    BY <1>1, LeavingKeeps, TablesAssumption DEF SentAway

LEMMA SwitchKeeps ==
    ASSUME IndInv, NEW p \in Around, Switch(p)
    PROVE  IndInv'
<1>0. SessionInv /\ p \in PageName /\ runs \in [Run -> RunState]
    BY PagesOfSubject DEF IndInv, TypeOK, SessionInv, SessionTypeOK
<1>1. /\ EntryKept /\ draft' \in Nat \cup {None}
      /\ subject \in PageOf[p].draft.of => draft' = entry'.at
      /\ calls' \in [Caller -> Call]
      /\ \A c \in Run \cup {"save"} : calls'[c] = calls[c]
    BY <1>0, Mounting DEF Switch
<1>2. /\ UNCHANGED <<device, lapsed, kept, auth, runs, mishaps>>
      /\ UNCHANGED <<subject, mounted, now, save, acked>>
      /\ page' = p
    BY DEF Switch
<1>3. events' = events + 1 /\ events' \in Nat /\ mishaps + events' <= MaxEvents
    BY <1>0, EventWithin DEF Switch, SessionInv
<1>4. SessionInv'
    BY <1>0, <1>1, <1>2, <1>3, SessionStays
<1>5. FormFollows'
    BY <1>1, <1>2 DEF FormFollows
<1>6. mounted' \in BOOLEAN
    BY <1>2 DEF IndInv, TypeOK
<1> QED
    BY <1>0, <1>1, <1>2, <1>3, <1>4, <1>5, <1>6, PagesStep, SameCallKeeps

-----------------------------------------------------------------------------
(* The query *)

LEMMA ServeQueryKeeps ==
    ASSUME IndInv, ServeQuery
    PROVE  IndInv'
<1>0. /\ SessionInv /\ entry \in Entry /\ now \in Nat /\ acked \in Nat /\ acked <= now
      /\ InFlight(entry) <=> calls["query"].phase # "idle"
      /\ Timely(entry, acked, now) /\ "query" \in Caller
    BY DEF IndInv, TypeOK, SessionInv, EntryTimely, Caller
<1>1. /\ UNCHANGED <<subject, page, mounted, retried, draft, now, save, acked, events>>
      /\ entry' = [entry EXCEPT !.from = now]
    BY DEF ServeQuery
<1>2. SessionKept /\ calls["query"].phase = "sent" /\ calls'["query"].phase = "ran"
    BY <1>0, <1>1, ServeKeeps DEF ServeQuery
<1>3. entry' \in Entry /\ entry'.from = now /\ entry'.at = entry.at /\ entry'.mark = entry.mark
    BY <1>0, <1>1 DEF Entry
<1>4. EntryKept
    <2>1. Timely(entry', acked, now)
        BY <1>0, <1>2, <1>3 DEF Timely, IsSettled, InFlight, None
    <2>2. InFlight(entry') <=> calls'["query"].phase # "idle"
        BY <1>0, <1>2, <1>3 DEF InFlight, None
    <2> QED
        BY <1>0, <1>1, <1>3, <2>1, <2>2 DEF EntryKept, IndInv, TypeOK
<1>5. FormFollows'
    BY <1>1, <1>3 DEF IndInv, FormFollows
<1>6. page' \in PageName /\ mounted' \in BOOLEAN /\ draft' \in Nat \cup {None}
    BY <1>1 DEF IndInv, TypeOK
<1> QED
    BY <1>1, <1>2, <1>4, <1>5, <1>6, PagesStep DEF SessionKept

LEMMA NoRouteKeeps ==
    ASSUME IndInv, NoRoute
    PROVE  IndInv'
<1>0. SessionInv /\ "query" \in Caller /\ calls \in [Caller -> Call]
    BY DEF IndInv, TypeOK, SessionInv, SessionTypeOK, Caller
<1>1. /\ calls' \in [Caller -> Call] /\ calls'["query"].phase = "failed"
      /\ \A d \in Caller \ {"query"} : calls'[d] = calls[d]
    BY <1>0, TurnsTo DEF NoRoute, CallPhase
<1>2. UNCHANGED <<device, lapsed, kept, auth, runs, mishaps, console>> /\ events' = events
    BY DEF NoRoute, console
<1>3. SessionInv'
    BY <1>0, <1>1, <1>2, SessionStays DEF SessionInv, SessionTypeOK, Run, Caller
<1>4. KeepsCall("query") /\ KeepsCall("save")
    BY <1>1 DEF NoRoute, KeepsCall, Caller, Pending
<1> QED
    BY <1>2, <1>3, <1>4, ConsoleStays DEF SessionKept

LEMMA LandKeeps ==
    ASSUME IndInv, Land
    PROVE  IndInv'
<1>0. /\ SessionInv /\ entry \in Entry /\ now \in Nat /\ acked \in Nat /\ acked <= now
      /\ InFlight(entry) /\ Timely(entry, acked, now) /\ entry.from <= now
      /\ calls \in [Caller -> Call] /\ "query" \in Caller
    BY DEF Land, IndInv, TypeOK, SessionInv, SessionTypeOK, EntryTimely, Caller
<1>1. /\ UNCHANGED <<device, lapsed, kept, auth, runs, mishaps>>
      /\ UNCHANGED <<subject, page, mounted, retried, now, save, acked, events>>
      /\ entry' = Landed(entry, entry.from)
      /\ calls' = [calls EXCEPT !["query"] = Idle]
      /\ draft' = IF mounted THEN Rehydrated(page, entry') ELSE None
    BY DEF Land
<1>2. entry.from \in Nat
    BY <1>0 DEF Entry, InFlight
<1>3. entry' \in Entry /\ Timely(entry', acked, now)
    BY <1>0, <1>1, <1>2, LandedFresh
<1>4. entry'.at = entry.from /\ entry'.from = None
    BY <1>1 DEF Landed
<1>5. /\ calls' \in [Caller -> Call] /\ calls'["query"].phase = "idle"
      /\ \A d \in Caller \ {"query"} : calls'[d] = calls[d]
    BY <1>0, <1>1, CallValues, CallBecomes DEF Token
<1>6. SessionInv'
    BY <1>0, <1>1, <1>5, SessionStays DEF SessionInv, SessionTypeOK, Run, Caller
<1>7. EntryKept
    BY <1>0, <1>1, <1>3, <1>4, <1>5 DEF EntryKept, InFlight, None, IndInv, TypeOK
<1>8. draft \in Nat \cup {None} /\ mounted \in BOOLEAN /\ page \in PageName
    BY DEF IndInv, TypeOK
<1>9. draft' \in Nat \cup {None}
    BY <1>1, <1>2, <1>4, <1>8 DEF Rehydrated
<1>10. FormFollows'
    <2>1. SUFFICES ASSUME mounted, subject \in PageOf[page].draft.of
                   PROVE  /\ draft' # None
                          /\ PageOf[page].draft.each => draft' = entry'.at
        BY <1>1 DEF FormFollows
    <2>2. draft' = IF draft # None /\ ~PageOf[page].draft.each THEN draft ELSE entry'.at
        BY <1>1, <2>1 DEF Rehydrated
    <2> QED
        BY <1>2, <1>4, <2>2 DEF None
<1> QED
    BY <1>1, <1>5, <1>6, <1>7, <1>8, <1>9, <1>10, PagesStep, SameCallKeeps DEF Caller

LEMMA FailQueryKeeps ==
    ASSUME IndInv, FailQuery
    PROVE  IndInv'
<1>0. /\ SessionInv /\ entry \in Entry /\ now \in Nat /\ acked \in Nat /\ acked <= now
      /\ InFlight(entry) /\ Timely(entry, acked, now) /\ entry.from <= now
      /\ calls \in [Caller -> Call] /\ "query" \in Caller /\ auth.bearer \in Token
      /\ retried \in BOOLEAN
    BY DEF FailQuery, IndInv, TypeOK, SessionInv, SessionTypeOK, EntryTimely, Caller, Auth
<1>1. /\ UNCHANGED <<device, lapsed, kept, auth, runs, mishaps>>
      /\ UNCHANGED <<subject, page, mounted, draft, now, save, acked, events>>
    BY DEF FailQuery
<1>2. /\ calls' \in [Caller -> Call] /\ entry' \in Entry /\ retried' \in BOOLEAN
      /\ \A d \in Caller \ {"query"} : calls'[d] = calls[d]
      /\ Timely(entry', acked, now) /\ entry'.from <= now /\ entry'.at = entry.at
      /\ InFlight(entry') <=> calls'["query"].phase # "idle"
    <2>1. CASE calls' = [calls EXCEPT !["query"] = Idle] /\ entry' = Failed(entry)
               /\ UNCHANGED retried
        <3>1. /\ calls' \in [Caller -> Call] /\ calls'["query"].phase = "idle"
              /\ \A d \in Caller \ {"query"} : calls'[d] = calls[d]
            BY <1>0, <2>1, CallValues, CallBecomes
        <3>2. entry' \in Entry /\ Timely(entry', acked, now)
            BY <1>0, <2>1, FailedFresh DEF Timely
        <3>3. entry'.from = None /\ entry'.at = entry.at
            BY <1>0, <2>1 DEF Failed, Entry
        <3> QED
            BY <1>0, <2>1, <3>1, <3>2, <3>3 DEF InFlight, None
    <2>2. CASE calls' = [calls EXCEPT !["query"] = Sent(auth.bearer)] /\ UNCHANGED entry
               /\ retried' = TRUE
        <3>1. /\ calls' \in [Caller -> Call] /\ calls'["query"].phase = "sent"
              /\ \A d \in Caller \ {"query"} : calls'[d] = calls[d]
            BY <1>0, <2>2, CallValues, CallBecomes
        <3> QED
            BY <1>0, <2>2, <3>1
    <2> QED
        BY <2>1, <2>2 DEF FailQuery
<1>3. SessionInv'
    BY <1>0, <1>1, <1>2, SessionStays DEF SessionInv, SessionTypeOK, Run, Caller
<1>4. EntryKept
    BY <1>2 DEF EntryKept
<1>5. FormFollows'
    BY <1>1, <1>2 DEF IndInv, FormFollows
<1>6. page' \in PageName /\ mounted' \in BOOLEAN /\ draft' \in Nat \cup {None}
    BY <1>1 DEF IndInv, TypeOK
<1> QED
    BY <1>1, <1>2, <1>3, <1>4, <1>5, <1>6, PagesStep, SameCallKeeps DEF Caller

-----------------------------------------------------------------------------
(* The saves *)

\* A save that has been pressed has a name, which NoSave has not.
LEMMA SavesAreNamed ==
    ASSUME subject \in AllQueries, NEW s, s.page \in PageName, s.name \in SavesOf(s.page)
    PROVE  s # NoSave
<1>1. s.name # "none"
    BY PagesOfSubject, TablesAssumption
<1> QED
    BY <1>1 DEF NoSave

\* A form that is pressed has been shown what it replaces.
LEMMA PressKeeps ==
    ASSUME IndInv, NEW n \in SavesOf(page), Press(n)
    PROVE  IndInv'
<1> DEFINE button == PageOf[page].saves[n]
<1>0. /\ SessionInv /\ subject \in AllQueries /\ page \in PageName
      /\ now \in Nat /\ now <= events /\ events \in Nat
      /\ draft \in Nat \cup {None} /\ calls \in [Caller -> Call] /\ "save" \in Caller
      /\ auth.bearer \in Token
    BY DEF IndInv, TypeOK, SessionInv, SessionTypeOK, Caller, Auth
<1>1. /\ UNCHANGED <<device, lapsed, kept, auth, runs, mishaps>>
      /\ UNCHANGED <<subject, page, mounted, entry, retried, draft, now, acked>>
      /\ calls' = [calls EXCEPT !["save"] = Sent(auth.bearer)]
      /\ save' = [NoSave EXCEPT !.page = page, !.name = n,
                                !.base = IF button.replaces = {} THEN None ELSE draft]
      /\ mounted /\ Offered(page, n)
    BY DEF Press
<1>2. events' = events + 1 /\ events' \in Nat /\ mishaps + events' <= MaxEvents
    BY <1>0, EventWithin DEF Press, SessionInv
<1>3. /\ calls' \in [Caller -> Call] /\ calls'["save"].phase = "sent"
      /\ \A d \in Caller \ {"save"} : calls'[d] = calls[d]
    BY <1>0, <1>1, CallValues, CallBecomes
<1>4. SessionInv'
    BY <1>0, <1>1, <1>2, <1>3, SessionStays DEF SessionInv, SessionTypeOK, Run, Caller
<1>5. /\ save'.page = page /\ save'.name = n /\ save'.ran = 0 /\ save'.pos = 0
      /\ save'.base = IF button.replaces = {} THEN None ELSE draft
    BY <1>1 DEF NoSave
<1>6. n \in DOMAIN PageOf[page].saves
    BY <1>0, PagesOfSubject
<1>7. save' \in SaveRecord
    <2>1. n \in SaveName
        BY <1>0, <1>6 DEF SaveName
    <2> QED
        BY <1>0, <1>1, <2>1 DEF SaveRecord, NoSave
<1>8. save' # NoSave
    BY <1>0, <1>5, SavesAreNamed
<1>9. ASSUME subject \in PageOf[page].draft.of, button.replaces # {},
             subject \in PageOf[page].needs \cup button.rows
      PROVE  save'.base # None
    <2>1. entry.at # None
        BY <1>1, <1>9 DEF Offered
    <2>2. draft # None
        BY <1>1, <1>9, <2>1 DEF IndInv, FormFollows
    <2> QED
        BY <1>5, <1>9, <2>2
<1>10. TypeOK'
    BY <1>0, <1>1, <1>2, <1>3, <1>4, <1>8 DEF IndInv, TypeOK, SessionInv, Caller
<1>11. EntryTimely' /\ FormFollows'
    BY <1>1 DEF IndInv, EntryTimely, FormFollows
<1>12. SaveFollowed'
    <2>1. (save.name \in SavesOf(save.page))' /\ Saved' = button
        BY <1>1, <1>5 DEF SavesOf, Saved
    <2> HIDE DEF button
    <2> QED
        BY <1>0, <1>1, <1>2, <1>5, <1>7, <1>9, <2>1 DEF SaveFollowed
<1> QED
    BY <1>4, <1>10, <1>11, <1>12 DEF IndInv, SessionInv

\* The server executes a save that was pending, hence not executed yet.
LEMMA ServeSaveKeeps ==
    ASSUME IndInv, ServeSave
    PROVE  IndInv'
<1>0. /\ SessionInv /\ subject \in AllQueries /\ "save" \in Caller
      /\ now \in Nat /\ now <= events /\ events \in Nat /\ acked \in Nat /\ acked <= now
      /\ entry \in Entry /\ Timely(entry, acked, now) /\ entry.from <= now
      /\ save \in SaveRecord /\ calls["save"].phase = "sent"
    BY DEF IndInv, TypeOK, SessionInv, SessionTypeOK, EntryTimely, SaveFollowed, Caller,
           ServeSave, Serve
<1>1. /\ UNCHANGED <<subject, page, mounted, entry, retried, draft, acked, events>>
      /\ now' = now + 1
      /\ save' = [save EXCEPT !.ran = @ + 1, !.pos = now + 1]
    BY DEF ServeSave
<1>2. SessionKept /\ calls'["save"].phase = "ran"
    BY <1>0, <1>1, ServeKeeps DEF ServeSave
<1>3. save.ran = 0 /\ now < events
    BY <1>0 DEF IndInv, SaveFollowed
<1>4. /\ save' \in SaveRecord
      /\ save'.ran = 1 /\ save'.pos = now + 1
      /\ save'.page = save.page /\ save'.name = save.name /\ save'.base = save.base
    <2>1. save' = [save EXCEPT !.ran = 1, !.pos = now + 1]
        BY <1>1, <1>3
    <2>2. 1 \in Nat /\ now + 1 \in Nat
        BY <1>0
    <2>3. save = [page |-> save.page, name |-> save.name, base |-> save.base,
                  ran |-> save.ran, pos |-> save.pos]
        BY <1>0 DEF SaveRecord
    <2>4. save' = [page |-> save.page, name |-> save.name, base |-> save.base,
                   ran |-> 1, pos |-> now + 1]
        BY <2>1, <2>3
    <2> QED
        BY <1>0, <2>2, <2>4 DEF SaveRecord
<1>5. save # NoSave
    BY <1>0 DEF IndInv, TypeOK
<1>6. save' # NoSave
    BY <1>4 DEF NoSave
<1>7. TypeOK'
    BY <1>0, <1>1, <1>2, <1>3, <1>6
       DEF IndInv, TypeOK, SessionInv, SessionKept, KeepsCall
<1>8. EntryTimely'
    <2>1. Timely(entry, acked, now + 1)
        BY <1>0, TimelyLater
    <2>2. entry.from <= now + 1
        BY <1>0 DEF Entry, None
    <2> QED
        BY <1>1, <2>1, <2>2 DEF EntryTimely
<1>9. FormFollows'
    BY <1>1 DEF IndInv, FormFollows
<1>10. SaveFollowed'
    <2>1. /\ save.page \in PageName /\ save.name \in SavesOf(save.page)
          /\ subject \in PageOf[save.page].draft.of /\ Saved.replaces # {}
                /\ subject \in PageOf[save.page].needs \cup Saved.rows
             => save.base # None
        BY <1>5 DEF IndInv, SaveFollowed
    <2>2. Saved' = Saved /\ SavesOf(save.page)' = SavesOf(save.page)
        BY <1>1, <1>4 DEF Saved, SavesOf
    <2> QED
        BY <1>0, <1>1, <1>2, <1>4, <2>1, <2>2 DEF SaveFollowed
<1> QED
    BY <1>2, <1>7, <1>8, <1>9, <1>10 DEF IndInv, SessionKept, SessionInv

\* NoSave is followed by nothing.
LEMMA NoSaveFollowed ==
    ASSUME save' = NoSave, calls'["save"].phase = "idle", now' \in Nat
    PROVE  SaveFollowed'
<1>1. "home" \in PageName /\ "none" \in SaveName
    BY TablesAssumption DEF SaveName
<1>2. NoSave \in SaveRecord /\ NoSave.ran = 0 /\ NoSave.pos = 0
    BY <1>1 DEF NoSave, SaveRecord
<1> QED
    BY <1>2 DEF SaveFollowed

LEMMA RejectKeeps ==
    ASSUME IndInv, Reject
    PROVE  IndInv'
<1>0. SessionInv /\ calls \in [Caller -> Call] /\ "save" \in Caller
    BY DEF IndInv, TypeOK, SessionInv, SessionTypeOK, Caller
<1>1. /\ UNCHANGED <<device, lapsed, kept, auth, runs, mishaps>>
      /\ UNCHANGED <<subject, page, mounted, entry, retried, draft, now, acked, events>>
      /\ save' = NoSave /\ calls' = [calls EXCEPT !["save"] = Idle]
    BY DEF Reject
<1>2. /\ calls' \in [Caller -> Call] /\ calls'["save"].phase = "idle"
      /\ \A d \in Caller \ {"save"} : calls'[d] = calls[d]
    BY <1>0, <1>1, CallValues, CallBecomes DEF Token
<1>3. SessionInv'
    BY <1>0, <1>1, <1>2, SessionStays DEF SessionInv, SessionTypeOK, Run, Caller
<1>4. TypeOK'
    BY <1>0, <1>1, <1>2, <1>3 DEF IndInv, TypeOK, SessionInv, Caller
<1>5. EntryTimely' /\ FormFollows'
    BY <1>1 DEF IndInv, EntryTimely, FormFollows
<1>6. SaveFollowed'
    BY <1>1, <1>2, NoSaveFollowed DEF IndInv, TypeOK
<1> QED
    BY <1>3, <1>4, <1>5, <1>6 DEF IndInv, SessionInv

\* An acknowledged save: the hook reaches the entry, or is known not to, and in
\* that case nothing is promised.
LEMMA AcknowledgeKeeps ==
    ASSUME IndInv, Acknowledge
    PROVE  IndInv'
<1> DEFINE done == [calls EXCEPT !["save"] = Idle]
<1>0. /\ SessionInv /\ calls \in [Caller -> Call] /\ "save" \in Caller
      /\ runs \in [Run -> RunState] /\ SessionTypeOK
      /\ subject \in AllQueries /\ page \in PageName /\ mounted \in BOOLEAN
      /\ entry \in Entry /\ retried \in BOOLEAN /\ draft \in Nat \cup {None}
      /\ (InFlight(entry) <=> calls["query"].phase # "idle")
      /\ now \in Nat /\ now <= events /\ acked \in Nat /\ acked <= now
      /\ Timely(entry, acked, now) /\ entry.from <= now
      /\ save \in SaveRecord /\ save.pos <= now
    BY DEF IndInv, TypeOK, SessionInv, SessionTypeOK, EntryTimely, SaveFollowed, Caller
<1>1. /\ UNCHANGED <<device, lapsed, kept, auth, mishaps, subject, now, events>>
      /\ save' = NoSave /\ calls["save"].phase = "ran"
      /\ acked' = IF <<Saved.by, subject>> \in LeftBehind THEN acked ELSE save.pos
    BY DEF Acknowledge
<1>2. save.page \in PageName /\ save.name \in SavesOf(save.page)
    BY <1>1 DEF IndInv, TypeOK, SaveFollowed
<1>3. save.name \in DOMAIN PageOf[save.page].saves /\ Concerns(Saved.by, subject)
    BY <1>0, <1>2, PagesOfSubject DEF Saved
<1>4. /\ Covers(Saved.by, subject) \/ <<Saved.by, subject>> \in LeftBehind
      /\ Saved.next \in PageName \cup {Stay}
    BY <1>0, <1>2, <1>3, TablesAssumption DEF Saved
<1>5. acked' \in Nat /\ acked' <= now
    BY <1>0, <1>1 DEF SaveRecord
<1>6. /\ done \in [Caller -> Call] /\ done["save"].phase = "idle"
      /\ \A d \in Caller \ {"save"} : done[d] = calls[d]
    BY <1>0, CallValues DEF Token
<1>7. /\ entry' \in Entry /\ retried' \in BOOLEAN
      /\ Timely(entry', acked', now) /\ entry'.from <= now /\ entry'.at = entry.at
      /\ InFlight(entry') <=> calls'["query"].phase # "idle"
      /\ calls' \in [Caller -> Call] /\ calls'["save"].phase = "idle"
      /\ \A r \in Run : calls'[r] = calls[r]
    <2>1. CASE ~Covers(Saved.by, subject)
        <3>1. entry' = entry /\ calls' = done /\ retried' = retried /\ acked' = acked
            BY <1>0, <1>1, <1>4, <2>1 DEF Acknowledge, EntryBecomes
        <3> HIDE DEF done
        <3> QED
            BY <1>0, <1>6, <3>1 DEF Caller, Run
    <2>2. CASE Covers(Saved.by, subject)
        <3> DEFINE asks == Restarts(entry, InUse)
        <3>1. /\ entry' = Invalidated(entry, InUse, now)
              /\ calls' = IF asks THEN Asking(done) ELSE done
              /\ retried' = (retried /\ ~asks)
            BY <2>2 DEF Acknowledge, EntryBecomes
        <3>2. InUse \in BOOLEAN
            BY <1>0 DEF InUse, Shows
        <3>3. entry' \in Entry /\ Timely(entry', acked', now)
            BY <1>0, <1>5, <3>1, <3>2, InvalidatedFresh DEF Timely
        <3>4. /\ entry'.at = entry.at
              /\ IF asks THEN entry'.from = now ELSE entry'.from = entry.from
            BY <1>0, <3>1 DEF Invalidated, Entry
        <3>5. /\ calls' \in [Caller -> Call] /\ calls'["save"].phase = "idle"
              /\ \A r \in Run : calls'[r] = calls[r]
              /\ calls'["query"].phase =
                     IF asks THEN "sent" ELSE calls["query"].phase
            <4> HIDE DEF done, asks
            <4> QED
                BY <1>0, <1>6, <3>1, AskingCalls DEF Caller, Run
        <3>6. retried' \in BOOLEAN
            BY <3>1
        <3> HIDE DEF asks
        <3> QED
            BY <1>0, <3>3, <3>4, <3>5, <3>6 DEF InFlight, None
    <2> QED
        BY <2>1, <2>2
<1>8. \/ UNCHANGED <<page, mounted, draft, runs>>
      \/ Saved.next \in PageName /\ GoesTo(Saved.next)
    BY <1>4 DEF Acknowledge
<1>9. /\ runs' \in [Run -> RunState] /\ \A r \in Run : runs'[r].phase = runs[r].phase
      /\ page' \in PageName /\ mounted' \in BOOLEAN /\ draft' \in Nat \cup {None}
    BY <1>0, <1>8, LeavesRuns DEF GoesTo
<1>10. FormFollows'
    <2>1. CASE UNCHANGED <<page, mounted, draft, runs>>
        BY <1>1, <1>7, <2>1 DEF IndInv, FormFollows
    <2>2. CASE GoesTo(Saved.next)
        BY <2>2 DEF GoesTo, FormFollows
    <2> QED
        BY <1>8, <2>1, <2>2
<1>11. SessionInv'
    BY <1>0, <1>1, <1>7, <1>9, SessionStays DEF SessionInv, SessionTypeOK
<1>12. TypeOK'
    BY <1>0, <1>1, <1>5, <1>7, <1>9, <1>11 DEF TypeOK, SessionInv
<1>13. EntryTimely'
    BY <1>1, <1>7 DEF EntryTimely
<1>14. SaveFollowed'
    BY <1>0, <1>1, <1>7, NoSaveFollowed
<1> QED
    BY <1>10, <1>11, <1>12, <1>13, <1>14 DEF IndInv, SessionInv

-----------------------------------------------------------------------------
(* The theorems *)

\* A launch begins with nothing known, or has gone well.
LEMMA IndInit == Init => IndInv
<1> SUFFICES ASSUME Init PROVE IndInv
    OBVIOUS
<1>1. /\ subject \in AllQueries /\ page \in PageName /\ mounted = FALSE
      /\ entry = Empty /\ retried = FALSE /\ draft = None
      /\ now = 0 /\ save = NoSave /\ acked = 0 /\ events = 0
    BY PagesOfSubject DEF Init
<1>2. Idle \in Call /\ Idle.phase = "idle"
    BY CallValues DEF Token
<1>3. calls = [c \in Caller |-> Idle] /\ runs \in [Run -> RunState]
      /\ \A r \in Run : runs[r].phase \notin {"saving", "profiling"}
    <2>1. CASE SessionInit
        BY <2>1 DEF SessionInit, Run, RunState
    <2>2. CASE SessionUp
        BY <2>2 DEF SessionUp, Run, RunState
    <2> QED
        BY <2>1, <2>2 DEF Init
<1>4. calls \in [Caller -> Call] /\ \A c \in Caller : calls[c].phase = "idle"
    BY <1>2, <1>3
<1>5. /\ device \in Device /\ lapsed = FALSE /\ kept \in [local : Token, cloud : Token]
      /\ auth \in Auth /\ mishaps \in Nat /\ mishaps <= MaxEvents
      /\ device.oldExpired => mishaps > 0
      /\ auth.staffMe = "unlinked" => device.role # "staff"
    <2>1. CASE SessionInit
        <3>1. device \in Device /\ lapsed = FALSE /\ mishaps <= MaxEvents
            BY <2>1 DEF SessionInit
        <3>2. kept \in [local : Token, cloud : Token]
            BY <2>1 DEF SessionInit, Token
        <3>3. auth \in Auth /\ auth.staffMe = "unknown"
            BY <2>1 DEF SessionInit, Auth, Token
        <3>4. /\ mishaps = (IF device.launch = "telegram" /\ device.cloud = "works" THEN 0 ELSE 1)
                           + (IF "old" \in {kept.local, kept.cloud} THEN 1 ELSE 0)
              /\ device.oldExpired => "old" \in {kept.local, kept.cloud}
            BY <2>1 DEF SessionInit
        <3> QED
            BY <3>1, <3>2, <3>3, <3>4
    <2>2. CASE SessionUp
        <3>1. device \in Device /\ device.oldExpired = FALSE /\ lapsed = FALSE
            BY <2>2 DEF SessionUp, Device
        <3>2. kept \in [local : Token, cloud : Token]
            BY <2>2 DEF SessionUp, Token
        <3>3. auth \in Auth /\ (auth.staffMe = "unlinked" => device.role # "staff")
            BY <2>2 DEF SessionUp, Auth, Token
        <3> QED
            BY <2>2, <3>1, <3>2, <3>3, SessionAssumption DEF SessionUp
    <2> QED
        BY <2>1, <2>2 DEF Init
<1>6. SessionTypeOK
    <2>1. events \in Nat /\ mishaps + events <= MaxEvents
        BY <1>1, <1>5
    <2>2. lapsed \in BOOLEAN
        BY <1>5
    <2> QED
        BY <1>3, <1>4, <1>5, <2>1, <2>2 DEF SessionTypeOK
<1>7. FailuresExplained
    BY <1>3, <1>5 DEF FailuresExplained
<1>8. entry \in Entry /\ ~InFlight(entry) /\ ~IsSettled(entry) /\ entry.at = None /\ entry.from = None
    BY <1>1 DEF Empty, Entry, InFlight, IsSettled, Mark
<1>9. TypeOK
    <2>0. 0 \in 0 .. 0 /\ FALSE \in BOOLEAN
        OBVIOUS
    <2>1. now \in 0 .. events /\ acked \in 0 .. now /\ retried \in BOOLEAN /\ mounted \in BOOLEAN
        BY <1>1, <2>0, Zenon
    <2>2. (InFlight(entry) <=> calls["query"].phase # "idle")
          /\ (save = NoSave <=> calls["save"].phase = "idle")
        BY <1>1, <1>4, <1>8 DEF Caller
    <2> QED
        BY <1>1, <1>6, <1>8, <2>1, <2>2 DEF TypeOK
<1>10. EntryTimely
    BY <1>1, <1>8 DEF EntryTimely, Timely, None
<1>11. FormFollows
    BY <1>1 DEF FormFollows
<1>12. SaveFollowed
    <2>1. "home" \in PageName /\ "none" \in SaveName
        BY TablesAssumption DEF SaveName
    <2>2. NoSave \in SaveRecord /\ NoSave.ran = 0 /\ NoSave.pos = 0
        BY <2>1 DEF NoSave, SaveRecord
    <2> QED
        BY <1>1, <1>4, <2>2 DEF SaveFollowed, Caller
<1> QED
    BY <1>7, <1>9, <1>10, <1>11, <1>12 DEF IndInv

LEMMA IndNext == IndInv /\ [Next]_vars => IndInv'
<1> SUFFICES ASSUME IndInv, [Next]_vars
             PROVE  IndInv'
    OBVIOUS
<1>0. SessionInv
    BY DEF IndInv, TypeOK, SessionInv
<1>1. CASE SessionStep
    <2>1. UNCHANGED console /\ events' = events
        BY <1>1 DEF SessionStep, console
    <2>2. SessionKept
        BY <1>0, <1>1, <2>1, LaunchKeeps, ServeKeeps, TransportKeeps, StrayFailsKeeps
           DEF SessionStep, Caller
    <2> QED
        BY <2>1, <2>2, ConsoleStays
<1>2. CASE Trouble
    <2>1. UNCHANGED console /\ events' = events
        BY <1>2 DEF Trouble, console
    <2> QED
        BY <1>0, <1>2, <2>1, TroubleKeeps, ConsoleStays DEF Trouble
<1>3. CASE Render
    BY <1>3, RenderKeeps
<1>4. CASE SentAway
    BY <1>4, SentAwayKeeps
<1>5. CASE User
    BY <1>5, OpenKeeps, SwitchKeeps, PressKeeps DEF User
<1>6. CASE QueryStep
    BY <1>6, ServeQueryKeeps, NoRouteKeeps, LandKeeps, FailQueryKeeps DEF QueryStep
<1>7. CASE SaveStep
    BY <1>7, ServeSaveKeeps, AcknowledgeKeeps, RejectKeeps DEF SaveStep
<1>8. CASE UNCHANGED vars
    <2>1. UNCHANGED <<device, lapsed, kept, auth, runs, calls, mishaps>>
          /\ UNCHANGED console /\ events' = events
        BY <1>8 DEF vars, session, console
    <2>2. SessionInv'
        BY <1>0, <2>1 DEF SessionInv, SessionTypeOK, FailuresExplained
    <2> QED
        BY <2>1, <2>2, SameCallKeeps, ConsoleStays DEF SessionKept
<1> QED
    BY <1>1, <1>2, <1>3, <1>4, <1>5, <1>6, <1>7, <1>8 DEF Next

\* The invariant holds of every behaviour, whatever the bounds.
THEOREM Invariance == Spec => []IndInv
BY IndInit, IndNext, PTL DEF Spec

\* Every variable of the mini app holds what its declaration says.
THEOREM TypeCorrect == Spec => []TypeOK
<1>1. IndInv => TypeOK
    BY DEF IndInv
<1> QED
    BY <1>1, Invariance, PTL

\* What a page shows without a doubt is not older than one's own save, once that
\* is acknowledged (onSuccess and invalidateQueries).
THEOREM OwnSavesAreShown == Spec => []OwnSaveShown
<1>1. IndInv => OwnSaveShown
    BY DEF IndInv, EntryTimely, Timely, OwnSaveShown
<1> QED
    BY <1>1, Invariance, PTL

\* A form that starts over with its query never keeps what was there before
\* one's own save (the effects that fill the forms).
THEOREM EditorsFollow == Spec => []EditorsRehydrated
<1>1. IndInv => EditorsRehydrated
    BY DEF IndInv, EntryTimely, Timely, FormFollows, EditorsRehydrated
<1> QED
    BY <1>1, Invariance, PTL

\* No form but the known ones replaces a table it has not been shown.
THEOREM NothingIsWiped == Spec => []NothingWiped
<1>1. IndInv => NothingWiped
    <2> SUFFICES ASSUME IndInv, save # NoSave, subject \in PageOf[save.page].draft.of,
                        NEW table \in Saved.replaces
                 PROVE  \/ table \in subject.reads /\ save.base # None
                        \/ <<save.page, table>> \in KnownWipes
        BY DEF NothingWiped
    <2>1. /\ subject \in AllQueries
          /\ save.page \in PageName /\ save.name \in SavesOf(save.page)
          /\ subject \in PageOf[save.page].needs \cup Saved.rows => save.base # None
        BY DEF IndInv, TypeOK, SaveFollowed
    <2>2. save.name \in DOMAIN PageOf[save.page].saves /\ Concerns(Saved.by, subject)
        BY <2>1, PagesOfSubject DEF Saved
    <2>3. \/ table \in subject.reads /\ subject \in PageOf[save.page].needs \cup Saved.rows
          \/ <<save.page, table>> \in KnownWipes
        BY <2>1, <2>2, TablesAssumption DEF Saved
    <2> QED
        BY <2>1, <2>3
<1> QED
    BY <1>1, Invariance, PTL

\* request() sends a save again only when the server has refused it.
THEOREM SavesRunOnce == Spec => []RanOnce
<1>1. IndInv => RanOnce
    BY DEF IndInv, SaveFollowed, RanOnce
<1> QED
    BY <1>1, Invariance, PTL

\* The guards send nobody away from what is theirs while the launch goes on
\* (RequireAdmin, RequireStaff and loadStaffMe).
THEOREM NobodySentAwayEarly == Spec => NoPrematureRedirect
<1>1. IndInv /\ [Next]_vars => [SentAway => NotForThem(PageOf[page].guard)]_vars
    <2> SUFFICES ASSUME IndInv, SentAway
                 PROVE  NotForThem(PageOf[page].guard)
        OBVIOUS
    <2>1. SendsAway(PageOf[page].guard)
        BY DEF SentAway
    <2>2. auth.staffMe = "unlinked" => device.role # "staff" \/ mishaps > 0
        BY DEF IndInv, FailuresExplained
    <2> QED
        BY <2>1, <2>2 DEF SendsAway, NotForThem
<1> QED
    BY <1>1, Invariance, PTL DEF Spec, NoPrematureRedirect
================================================================================
