---------------------------- MODULE BookingFlowProofs ----------------------------
(***************************************************************************)
(* What is proved of BookingFlow for every value of its constants: IndInv, *)
(* and with it each of the safety properties.  The changes of page come    *)
(* first, in one lemma that every navigation uses; then what the client    *)
(* does on a page, the server, and what arrives.                           *)
(***************************************************************************)
EXTENDS BookingFlow, QueryCacheProofs, SequenceTheorems

-----------------------------------------------------------------------------
(* Operators *)

LEMMA LandingType ==
    ASSUME NEW p \in Pages, NEW f \in Flow
    PROVE  /\ Landing(p, f) \in Pages
           /\ Landing(p, f) = "date" => Unset \notin {f.service, f.staff}
BY DEF Landing, Pages, Steps

LEMMA HistoryFacts ==
    ASSUME TypeOK
    PROVE  /\ Now \in Nat /\ Len(history) = Now + 1
           /\ \A pos \in 0 .. Now : At(pos) \in Database /\ pos + 1 \in DOMAIN history
           /\ Latest \in Database
BY DEF TypeOK, Now, At, Latest

LEMMA EmptyFlowType == EmptyFlow \in Flow /\ IsCoherent(EmptyFlow)
BY DEF EmptyFlow, Flow, Opt, IsCoherent

LEMMA NoPickType == NoPick \in [date : Dates, start : Opt(Starts)] /\ NoPick.start = Unset
BY BookingFlowAssumption DEF NoPick, Opt

LEMMA KnownType ==
    ASSUME TypeOK, mine.at <= Now, NEW b \in Known(mine)
    PROVE  b \in Bookings /\ Shown(mine, b) \in Visit
<1>1. mine.at \in 0 .. Now
    BY HistoryFacts DEF TypeOK, Entry, Known, None
<1> QED
    BY <1>1, HistoryFacts DEF Known, Shown, Database

-----------------------------------------------------------------------------
(* Sequences of requests *)

\* What IndInv says of the requests, of sequence rs while page p is shown.
RequestsSound(rs, p, now) ==
    /\ rs \in Seq(Request)
    /\ \A i \in DOMAIN rs : IsSound(rs[i], p, now)
    /\ \A i, j \in DOMAIN rs : Awaited(rs[i]) /\ Awaited(rs[j]) => i = j

LEMMA RequestsSoundOf ==
    ASSUME IndInv
    PROVE  RequestsSound(requests, route, Now)
BY DEF IndInv, TypeOK, OneAnswerAwaited, RequestsSound

\* A page that goes leaves every request to itself.
LEMMA LeftSound ==
    ASSUME NEW rs, NEW p, NEW q, NEW now, RequestsSound(rs, p, now)
    PROVE  RequestsSound([i \in DOMAIN rs |-> [rs[i] EXCEPT !.here = FALSE]], q, now)
<1> DEFINE left == [i \in DOMAIN rs |-> [rs[i] EXCEPT !.here = FALSE]]
<1>1. rs \in Seq(Request) /\ DOMAIN rs = 1 .. Len(rs) /\ Len(rs) \in Nat
    BY DEF RequestsSound
<1>2. \A i \in DOMAIN rs : rs[i] \in Request
    BY <1>1
<1>3. \A i \in DOMAIN rs : /\ left[i] \in Request /\ left[i].here = FALSE
                           /\ left[i].state = rs[i].state /\ left[i].kind = rs[i].kind
                           /\ left[i].pos = rs[i].pos
    BY <1>2 DEF Request
<1>4. left \in Seq(Request) /\ DOMAIN left = DOMAIN rs
    BY <1>1, <1>3
<1>5. \A i \in DOMAIN rs : IsSound(left[i], q, now)
    BY <1>3 DEF RequestsSound, IsSound, Awaited
<1> QED
    BY <1>3, <1>4, <1>5 DEF RequestsSound, Awaited

\* One request is replaced by one that nobody else's page awaits.
LEMMA ReplacedSound ==
    ASSUME NEW rs, NEW p, NEW now, RequestsSound(rs, p, now), NEW i \in DOMAIN rs,
           NEW r \in Request, IsSound(r, p, now), Awaited(r) => Awaited(rs[i])
    PROVE  RequestsSound([rs EXCEPT ![i] = r], p, now)
<1> DEFINE new == [rs EXCEPT ![i] = r]
<1>1. rs \in Seq(Request) /\ DOMAIN rs = 1 .. Len(rs)
    BY DEF RequestsSound
<1>2. new \in Seq(Request) /\ DOMAIN new = DOMAIN rs
    BY <1>1
<1>3. new[i] = r /\ \A j \in DOMAIN rs \ {i} : new[j] = rs[j]
    BY <1>1
<1>4. \A j \in DOMAIN rs : Awaited(new[j]) => Awaited(rs[j])
    BY <1>3
<1> QED
    BY <1>2, <1>3, <1>4 DEF RequestsSound

\* One is sent while none is awaited.
LEMMA AppendedSound ==
    ASSUME NEW rs, NEW p, NEW now, RequestsSound(rs, p, now),
           NEW r \in Request, IsSound(r, p, now), \A i \in DOMAIN rs : ~Awaited(rs[i])
    PROVE  RequestsSound(Append(rs, r), p, now)
<1> DEFINE new == Append(rs, r)
<1>1. rs \in Seq(Request) /\ DOMAIN rs = 1 .. Len(rs) /\ Len(rs) \in Nat
    BY DEF RequestsSound
<1>2. new \in Seq(Request) /\ DOMAIN new = 1 .. Len(rs) + 1
    BY <1>1
<1>3. new[Len(rs) + 1] = r /\ \A j \in DOMAIN rs : new[j] = rs[j]
    BY <1>1
<1>4. \A j \in DOMAIN new : j \in DOMAIN rs \/ j = Len(rs) + 1
    BY <1>1, <1>2
<1> QED
    BY <1>2, <1>3, <1>4 DEF RequestsSound

\* Later, nothing is less sound.
LEMMA SoundLater ==
    ASSUME NEW rs, NEW p, NEW now \in Nat, RequestsSound(rs, p, now)
    PROVE  RequestsSound(rs, p, now + 1)
<1>1. \A i \in DOMAIN rs : rs[i] \in Request
    BY DEF RequestsSound
<1>2. \A i \in DOMAIN rs : rs[i].pos \in Nat
    BY <1>1 DEF Request
<1> QED
    BY <1>2 DEF RequestsSound, IsSound

-----------------------------------------------------------------------------
(* Changes of page *)

\* The part of IndInv that is about a cache of free times.
CacheTimely(cache, pos, now) ==
    cache \in [Key -> Entry] /\ \A k \in Key : Timely(cache[k], pos, now)

LEMMA MountsTimely ==
    ASSUME TypeOK, NEW pos \in 0 .. Now, NEW cache, CacheTimely(cache, pos, Now),
           NEW keys, Mounts(cache, keys)
    PROVE  CacheTimely(slots', pos, Now)
<1>1. Now \in Nat /\ pos \in Nat /\ pos <= Now
    BY HistoryFacts
<1>2. PICK expired \in SUBSET keys :
        slots' = [k \in Key |-> IF k \in keys THEN OnMount(cache[k], Now, k \in expired)
                                             ELSE cache[k]]
    BY DEF Mounts
<1>3. ASSUME NEW k \in Key
      PROVE  slots'[k] \in Entry /\ Timely(slots'[k], pos, Now)
    <2>1. cache[k] \in Entry /\ Timely(cache[k], pos, Now) /\ (k \in expired) \in BOOLEAN
        BY DEF CacheTimely
    <2>2. OnMount(cache[k], Now, k \in expired) \in Entry
        BY <1>1, <2>1, OnMountType
    <2>3. Timely(OnMount(cache[k], Now, k \in expired), pos, Now)
        BY <1>1, <2>1, OnMountFresh
    <2> QED
        BY <1>2, <2>1, <2>2, <2>3
<1> QED
    BY <1>2, <1>3 DEF CacheTimely

LEMMA MountsListTimely ==
    ASSUME TypeOK, NEW pos \in 0 .. Now, NEW e \in Entry, Timely(e, pos, Now),
           NEW inUse, MountsList(e, inUse)
    PROVE  mine' \in Entry /\ Timely(mine', pos, Now)
<1>1. Now \in Nat /\ pos \in Nat /\ pos <= Now
    BY HistoryFacts
<1>2. \A x \in BOOLEAN : OnMount(e, Now, x) \in Entry /\ Timely(OnMount(e, Now, x), pos, Now)
    BY <1>1, OnMountType, OnMountFresh
<1>3. mine' = e \/ \E x \in BOOLEAN : mine' = OnMount(e, Now, x)
    BY DEF MountsList
<1> QED
    BY <1>2, <1>3

\* Whatever page the client is taken to, with a coherent store, sound requests
\* and timely caches, the invariant holds there.
LEMMA NavigationInv ==
    ASSUME IndInv, history' = history, detours' \in 0 .. MaxDetours,
           acked' \in 0 .. Now,
           NEW p \in Pages, NEW b \in Opt(Bookings), NEW f \in Flow, IsCoherent(f),
           NEW cache, CacheTimely(cache, acked', Now),
           NEW list \in Entry, Timely(list, acked', Now),
           NEW asked, RequestsSound(asked, route, Now),
           NEW due \in SUBSET timers,
           GoesWith(p, b, f, cache, list, asked, due)
    PROVE  IndInv'
<1> DEFINE q == Landing(p, f)
           kept == IF q = "success" THEN EmptyFlow ELSE f
<1>0. TypeOK
    BY DEF IndInv
<1>1. q \in Pages /\ (q = "date" => Unset \notin {kept.service, kept.staff})
    BY LandingType
<1>2. kept \in Flow /\ IsCoherent(kept)
    BY EmptyFlowType
<1>3. route' = q /\ target' = b /\ flow' = kept
    BY DEF GoesWith
<1>4. /\ pick' \in [date : Dates, start : Opt(Starts)]
      /\ pick'.start # Unset => DayOf[pick'.start] = pick'.date
    <2>1. pick' = pick \/ pick' = NoPick
        BY DEF GoesWith
    <2> QED
        BY <1>0, <2>1, NoPickType DEF IndInv, TypeOK, ChoiceIsCoherent
<1>5. timers' \subseteq {"held", "loose"} /\ ("held" \in timers' => route' = "confirm")
    <2>1. CASE q = route
        BY <1>0, <1>3, <2>1 DEF GoesWith, IndInv, TypeOK, HeldTimerIsHere
    <2>2. CASE q # route
        BY <1>0, <2>2 DEF GoesWith, TypeOK, Cleared
    <2> QED
        BY <2>1, <2>2
<1>6. RequestsSound(requests', route', Now)
    <2>1. CASE q = route
        BY <1>3, <2>1 DEF GoesWith
    <2>2. CASE q # route
        BY <1>3, <2>2, LeftSound DEF GoesWith
    <2> QED
        BY <2>1, <2>2
<1>7. CacheTimely(slots', acked', Now)
    <2>1. \E keys : Mounts(cache, keys)
        BY DEF GoesWith
    <2> QED
        BY <1>0, <2>1, MountsTimely
<1>8. mine' \in Entry /\ Timely(mine', acked', Now)
    <2>1. \E inUse : MountsList(list, inUse)
        BY DEF GoesWith
    <2> QED
        BY <1>0, <2>1, MountsListTimely
<1>9. Now' = Now
    BY DEF Now
<1>10. IsCoherent(flow)'
    BY <1>2, <1>3 DEF IsCoherent, WasOffered, FreeStarts, Taken
<1>11. TypeOK'
    BY <1>0, <1>1, <1>2, <1>3, <1>4, <1>5, <1>6, <1>7, <1>8, <1>9
    DEF TypeOK, RequestsSound, CacheTimely
<1> QED
    BY <1>1, <1>3, <1>4, <1>5, <1>6, <1>7, <1>8, <1>9, <1>10, <1>11
    DEF IndInv, HeldTimerIsHere, OneAnswerAwaited, ChoiceIsCoherent, RequestsSound, CacheTimely

\* Goes, from a page whose requests, caches and timers are left as they are.
LEMMA GoesInv ==
    ASSUME IndInv, history' = history, acked' = acked, detours' \in 0 .. MaxDetours,
           NEW p \in Pages, NEW b \in Opt(Bookings), NEW f \in Flow, IsCoherent(f),
           Goes(p, b, f)
    PROVE  IndInv'
<1>1. CacheTimely(slots, acked', Now) /\ mine \in Entry /\ Timely(mine, acked', Now)
      /\ acked' \in 0 .. Now
    BY DEF IndInv, TypeOK, CacheTimely
<1>2. RequestsSound(requests, route, Now)
    BY RequestsSoundOf
<1>3. GoesWith(p, b, f, slots, mine, requests, timers)
    BY DEF Goes
<1> QED
    BY <1>1, <1>2, <1>3, NavigationInv

-----------------------------------------------------------------------------
(* What the client does *)

\* The setters keep the store's type, and reset what depends on the choice.
LEMMA SetterFlow ==
    ASSUME TypeOK, IsCoherent(flow)
    PROVE  /\ \A b \in Branches : SetBranch(b) \in Flow /\ IsCoherent(SetBranch(b))
           /\ \A s \in Services : SetService(s) \in Flow /\ IsCoherent(SetService(s))
           /\ \A m \in Staff : /\ SetStaff(m) \in Flow
                               /\ flow.service # Unset => IsCoherent(SetStaff(m))
           /\ \A d \in Dates : /\ SetDate(d) \in Flow
                               /\ flow.staff # Unset => IsCoherent(SetDate(d))
<1>1. flow \in Flow
    BY DEF TypeOK
<1>2. \A b \in Branches : SetBranch(b) \in Flow /\ IsCoherent(SetBranch(b))
    BY DEF SetBranch, EmptyFlow, Flow, Opt, IsCoherent
<1>3. \A s \in Services : SetService(s) \in Flow /\ IsCoherent(SetService(s))
    BY <1>1 DEF SetService, EmptyFlow, Flow, Opt, IsCoherent
<1>4. \A m \in Staff : SetStaff(m) \in Flow /\ (flow.service # Unset => IsCoherent(SetStaff(m)))
    BY <1>1 DEF SetStaff, Flow, Opt, IsCoherent
<1>5. \A d \in Dates : SetDate(d) \in Flow /\ (flow.staff # Unset => IsCoherent(SetDate(d)))
    BY <1>1 DEF SetDate, Flow, Opt, IsCoherent
<1> QED
    BY <1>2, <1>3, <1>4, <1>5

LEMMA OpenInv ==
    ASSUME IndInv, NEW p \in Pages, NEW b \in Opt(Bookings), Open(p, b)
    PROVE  IndInv'
<1>1. flow \in Flow /\ IsCoherent(flow)
    BY DEF IndInv, TypeOK, ChoiceIsCoherent
<1>2. detours' \in 0 .. MaxDetours
    BY BookingFlowAssumption DEF Open, Detour, IndInv, TypeOK
<1>3. Goes(p, b, flow) /\ history' = history /\ acked' = acked
    BY DEF Open
<1> QED
    BY <1>1, <1>2, <1>3, GoesInv

LEMMA ChooseInv ==
    ASSUME IndInv, NEW p \in Pages, NEW f \in Flow, IsCoherent(f), Choose(p, f)
    PROVE  IndInv'
<1>1. detours' \in 0 .. MaxDetours
    BY DEF Choose, IndInv, TypeOK
<1>2. Unset \in Opt(Bookings)
    BY DEF Opt
<1>3. Goes(p, Unset, f) /\ history' = history /\ acked' = acked
    BY DEF Choose
<1> QED
    BY <1>1, <1>2, <1>3, GoesInv

LEMMA StepInv ==
    ASSUME IndInv,
           \/ \E b \in Branches : SelectBranch(b)
           \/ \E s \in Services : SelectService(s)
           \/ \E m \in Staff : SelectStaff(m)
           \/ \E d \in Dates : SelectDate(d)
           \/ TimeChosen
    PROVE  IndInv'
<1>0. TypeOK /\ flow \in Flow /\ IsCoherent(flow) /\ {"service", "staff", "date", "time", "confirm"} \subseteq Pages
    BY DEF IndInv, TypeOK, ChoiceIsCoherent, Pages, Steps
<1>1. ASSUME NEW b \in Branches, SelectBranch(b) PROVE IndInv'
    BY <1>0, <1>1, SetterFlow, ChooseInv DEF SelectBranch
<1>2. ASSUME NEW s \in Services, SelectService(s) PROVE IndInv'
    BY <1>0, <1>2, SetterFlow, ChooseInv DEF SelectService
<1>3. ASSUME NEW m \in Staff, SelectStaff(m) PROVE IndInv'
    <2>1. flow.service # Unset
        BY <1>3, BookingFlowAssumption DEF SelectStaff, StaffFor
    <2>2. SetStaff(m) \in Flow /\ IsCoherent(SetStaff(m))
        BY <1>0, <1>3, <2>1, SetterFlow
    <2>3. Choose("date", SetStaff(m))
        BY <1>3 DEF SelectStaff
    <2> QED
        BY <1>0, <2>2, <2>3, ChooseInv
<1>4. ASSUME NEW d \in Dates, SelectDate(d) PROVE IndInv'
    <2>1. flow.staff # Unset
        BY <1>4 DEF SelectDate, IndInv
    <2> QED
        BY <1>0, <1>4, <2>1, SetterFlow, ChooseInv DEF SelectDate
<1>5. CASE TimeChosen
    BY <1>0, <1>5, ChooseInv DEF TimeChosen
<1> QED
    BY <1>1, <1>2, <1>3, <1>4, <1>5

\* What is shown of the free times was free in some state of the server.
LEMMA ShownWasOffered ==
    ASSUME IndInv, NEW k \in Key, NEW t \in Starts,
           slots[k].at # None, t \in FreeStarts(k, At(slots[k].at))
    PROVE  WasOffered(k, t)
<1>1. slots[k] \in Entry /\ slots[k].at <= Now
    BY DEF IndInv, TypeOK, Timely
<1>2. slots[k].at \in 0 .. Now
    BY <1>1, HistoryFacts DEF IndInv, Entry, None
<1>3. slots[k].at + 1 \in DOMAIN history
    BY <1>2, HistoryFacts DEF IndInv
<1> QED
    BY <1>3 DEF WasOffered, At

-----------------------------------------------------------------------------
(* Steps that stay on the page *)

\* The invariant, part by part, of a step that shows no other page and
\* acknowledges nothing.
LEMMA StayInv ==
    ASSUME IndInv, UNCHANGED <<route, target, acked>>, detours' \in 0 .. MaxDetours,
           history' \in Seq(Database), Now <= Now',
           flow' \in Flow, IsCoherent(flow)',
           route = "date" => flow' = flow,
           pick' \in [date : Dates, start : Opt(Starts)],
           pick'.start # Unset => DayOf[pick'.start] = pick'.date,
           timers' \subseteq {"held", "loose"}, "held" \in timers' => route = "confirm",
           RequestsSound(requests', route, Now'),
           CacheTimely(slots', acked, Now'),
           mine' \in Entry, Timely(mine', acked, Now')
    PROVE  IndInv'
<1>1. TypeOK /\ Now \in Nat
    BY HistoryFacts DEF IndInv
<1>2. Now' \in Nat /\ history' # <<>>
    <2>1. Len(history') \in Nat /\ Now' = Len(history') - 1
        BY DEF Now
    <2> QED
        BY <1>1, <2>1
<1>3. TypeOK'
    BY <1>1, <1>2 DEF TypeOK, RequestsSound, CacheTimely
<1>4. HeldTimerIsHere' /\ ChoiceIsCoherent' /\ OneAnswerAwaited'
    BY DEF HeldTimerIsHere, ChoiceIsCoherent, OneAnswerAwaited, RequestsSound
<1>5. (route = "date" => Unset \notin {flow.service, flow.staff})'
    BY DEF IndInv
<1>6. (\A i \in DOMAIN requests : IsSound(requests[i], route, Now))'
    BY DEF RequestsSound
<1>7. (\A k \in Key : Timely(slots[k], acked, Now))' /\ Timely(mine, acked, Now)'
    BY DEF CacheTimely
<1> QED
    BY <1>3, <1>4, <1>5, <1>6, <1>7 DEF IndInv

\* What the invariant says of the parts that most steps leave alone.
LEMMA Parts ==
    ASSUME IndInv
    PROVE  /\ TypeOK /\ Now \in Nat /\ history \in Seq(Database) /\ detours \in 0 .. MaxDetours
           /\ acked \in 0 .. Now
           /\ flow \in Flow /\ IsCoherent(flow)
           /\ pick \in [date : Dates, start : Opt(Starts)]
           /\ pick.start # Unset => DayOf[pick.start] = pick.date
           /\ timers \subseteq {"held", "loose"} /\ ("held" \in timers => route = "confirm")
           /\ RequestsSound(requests, route, Now)
           /\ CacheTimely(slots, acked, Now)
           /\ mine \in Entry /\ Timely(mine, acked, Now) /\ mine.at <= Now
BY HistoryFacts, RequestsSoundOf
DEF IndInv, TypeOK, ChoiceIsCoherent, HeldTimerIsHere, CacheTimely, Timely

LEMMA RequestAt ==
    ASSUME IndInv, NEW i \in DOMAIN requests
    PROVE  requests[i] \in Request /\ IsSound(requests[i], route, Now)
<1>1. requests \in Seq(Request)
    BY Parts DEF RequestsSound
<1> QED
    BY <1>1, Parts DEF RequestsSound

\* Without a new state of the server, a coherent choice stays coherent.
LEMMA CoherentStays ==
    ASSUME IsCoherent(flow), UNCHANGED <<history, flow>>
    PROVE  IsCoherent(flow)'
BY DEF IsCoherent, WasOffered

\* Only the requests and the timers change.
LEMMA RequestsInv ==
    ASSUME IndInv, UNCHANGED <<history, route, target, flow, pick, slots, mine, acked>>,
           detours' \in 0 .. MaxDetours,
           timers' \subseteq {"held", "loose"}, "held" \in timers' => route = "confirm",
           RequestsSound(requests', route, Now)
    PROVE  IndInv'
<1>1. Now' = Now
    BY DEF Now
<1> QED
    BY <1>1, Parts, CoherentStays, StayInv

\* Only the choice on a page and the caches change.
LEMMA CachesInv ==
    ASSUME IndInv, UNCHANGED <<history, route, target, timers, requests, acked>>,
           detours' \in 0 .. MaxDetours,
           flow' \in Flow, IsCoherent(flow)', route = "date" => flow' = flow,
           pick' \in [date : Dates, start : Opt(Starts)],
           pick'.start # Unset => DayOf[pick'.start] = pick'.date,
           CacheTimely(slots', acked, Now),
           mine' \in Entry, Timely(mine', acked, Now)
    PROVE  IndInv'
<1>1. Now' = Now
    BY DEF Now
<1> QED
    BY <1>1, Parts, StayInv

\* The server commits a state.
LEMMA CommitInv ==
    ASSUME IndInv, UNCHANGED <<route, target, flow, pick, timers, slots, mine, acked>>,
           detours' \in 0 .. MaxDetours,
           NEW db \in Database, Commits(db), RequestsSound(requests', route, Now + 1)
    PROVE  IndInv'
<1>1. history' = Append(history, db) /\ history' \in Seq(Database)
    BY Parts DEF Commits
<1>2. Now' = Now + 1
    BY <1>1, Parts DEF Now
<1>3. \A n \in DOMAIN history : n \in DOMAIN history' /\ history'[n] = history[n]
    BY <1>1, Parts
<1>4. IsCoherent(flow)'
    BY <1>3, Parts DEF IsCoherent, WasOffered
<1>5. CacheTimely(slots', acked, Now') /\ Timely(mine', acked, Now')
    BY <1>2, Parts, TimelyLater DEF CacheTimely
<1> QED
    BY <1>1, <1>2, <1>4, <1>5, Parts, StayInv

-----------------------------------------------------------------------------
(* Choices within a page, and what the client asks for *)

\* TimeStep's and the wizard's choice of a time that is shown.
LEMMA ChosenTime ==
    ASSUME IndInv, NEW t \in Starts,
           \E k \in InUse : slots[k].at # None /\ t \in FreeStarts(k, At(slots[k].at))
    PROVE  \E k \in InUse : k \in Key /\ WasOffered(k, t) /\ DayOf[t] = k.date
<1>1. InUse \subseteq Key
    <2>1. flow \in Flow /\ pick.date \in Dates
        BY Parts
    <2>2. \A b \in Known(mine) : Shown(mine, b) \in Visit
        BY Parts, KnownType
    <2> QED
        BY <2>1, <2>2 DEF InUse, Observed, Flow, Opt, Key, Visit
<1>2. PICK k \in InUse : slots[k].at # None /\ t \in FreeStarts(k, At(slots[k].at))
    OBVIOUS
<1>3. WasOffered(k, t)
    BY <1>1, <1>2, ShownWasOffered
<1>4. DayOf[t] = k.date
    BY <1>2 DEF FreeStarts
<1> QED
    BY <1>1, <1>2, <1>3, <1>4

LEMMA SelectTimeInv ==
    ASSUME IndInv, NEW t \in Starts, SelectTime(t)
    PROVE  IndInv'
<1>1. /\ UNCHANGED <<history, route, target, pick, timers, requests, slots, mine, acked, detours>>
      /\ flow' = SetStart(t) /\ route = "time"
    BY DEF SelectTime
<1>2. PICK k \in InUse : k \in Key /\ WasOffered(k, t)
    BY ChosenTime DEF SelectTime
<1>3. /\ k = [service |-> flow.service, staff |-> flow.staff, date |-> flow.date]
      /\ Unset \notin {flow.service, flow.staff, flow.date}
    BY <1>1, <1>2 DEF InUse, Observed
<1>4. /\ flow' \in Flow /\ flow'.start = t /\ flow'.date = flow.date
      /\ flow'.staff = flow.staff /\ flow'.service = flow.service
    BY <1>1, Parts DEF SetStart, Flow, Opt
<1>5. IsCoherent(flow')
    BY <1>2, <1>3, <1>4 DEF IsCoherent
<1>6. IsCoherent(flow)'
    BY <1>1, <1>5 DEF IsCoherent, WasOffered
<1> QED
    BY <1>1, <1>4, <1>6, Parts, CachesInv

LEMMA PickTimeInv ==
    ASSUME IndInv, NEW t \in Starts, PickTime(t)
    PROVE  IndInv'
<1>1. /\ UNCHANGED <<history, route, target, flow, timers, requests, slots, mine, acked, detours>>
      /\ pick' = [pick EXCEPT !.start = t] /\ route = "reschedule"
    BY DEF PickTime
<1>2. PICK k \in InUse : DayOf[t] = k.date
    BY ChosenTime DEF PickTime
<1>3. k.date = pick.date
    BY <1>1, <1>2 DEF InUse, Observed
<1>4. /\ pick' \in [date : Dates, start : Opt(Starts)]
      /\ pick'.start = t /\ pick'.date = pick.date
    BY <1>1, Parts DEF Opt
<1> QED
    BY <1>1, <1>2, <1>3, <1>4, Parts, CoherentStays, CachesInv

LEMMA PickDateInv ==
    ASSUME IndInv, NEW d \in Dates, PickDate(d)
    PROVE  IndInv'
<1>1. /\ UNCHANGED <<history, route, target, flow, timers, requests, mine, acked, detours>>
      /\ pick' = [date |-> d, start |-> Unset]
      /\ \E keys : Mounts(slots, keys)
    BY DEF PickDate
<1>2. pick' \in [date : Dates, start : Opt(Starts)] /\ pick'.start = Unset
    BY <1>1 DEF Opt
<1>3. CacheTimely(slots', acked, Now)
    BY <1>1, Parts, MountsTimely
<1> QED
    BY <1>1, <1>2, <1>3, Parts, CoherentStays, CachesInv

\* The button of a page is pressed while its handler awaits nothing.
LEMMA SendsInv ==
    ASSUME IndInv, NEW kind \in {"create", "move", "cancel"},
           NEW visit \in Visit \cup {NoVisit}, NEW b \in Opt(Bookings),
           route = AskedOn(kind), Sends(kind, visit, b)
    PROVE  IndInv'
<1> DEFINE r == [kind |-> kind, visit |-> visit, booking |-> b, here |-> TRUE,
                 state |-> "sent", pos |-> 0]
<1>1. /\ UNCHANGED <<history, route, target, flow, pick, timers, slots, mine, acked, detours>>
      /\ requests' = Append(requests, r) /\ ~IsPending(kind)
    BY DEF Sends
<1>2. r \in Request /\ IsSound(r, route, Now)
    BY Parts DEF Request, IsSound
<1>3. ASSUME NEW i \in DOMAIN requests, Awaited(requests[i])
      PROVE  FALSE
    <2>1. requests[i].kind \in {"create", "move", "cancel"}
        BY <1>3, RequestAt DEF Request
    <2>2. AskedOn(requests[i].kind) = AskedOn(kind)
        BY Parts, <1>3 DEF RequestsSound, IsSound
    <2>3. requests[i].kind = kind
        BY <2>1, <2>2 DEF AskedOn
    <2> QED
        BY <1>1, <1>3, <2>3 DEF IsPending
<1>4. RequestsSound(Append(requests, r), route, Now)
    BY <1>2, <1>3, Parts, AppendedSound
<1> QED
    BY <1>1, <1>4, Parts, RequestsInv

LEMMA AskInv ==
    ASSUME IndInv, Confirm \/ SubmitMove \/ Cancel
    PROVE  IndInv'
<1>1. CASE Confirm
    <2> DEFINE visit == [service |-> flow.service, staff |-> flow.staff, start |-> flow.start]
    <2>1. visit \in Visit
        BY <1>1, Parts DEF Confirm, IsCoherent, Flow, Opt, Visit
    <2>2. Sends("create", visit, Unset) /\ route = AskedOn("create") /\ Unset \in Opt(Bookings)
        BY <1>1 DEF Confirm, AskedOn, Opt
    <2> QED
        BY <2>1, <2>2, SendsInv
<1>2. CASE SubmitMove
    <2> DEFINE visit == [Shown(mine, target) EXCEPT !.start = pick.start]
    <2>1. target \in Opt(Bookings) /\ Shown(mine, target) \in Visit /\ pick.start \in Starts
        BY <1>2, Parts, KnownType DEF SubmitMove, Opt
    <2>2. visit \in Visit
        BY <2>1 DEF Visit
    <2>3. Sends("move", visit, target) /\ route = AskedOn("move")
        BY <1>2 DEF SubmitMove, AskedOn
    <2> QED
        BY <2>1, <2>2, <2>3, SendsInv
<1>3. CASE Cancel
    <2>1. target \in Opt(Bookings)
        BY <1>3, Parts, KnownType DEF Cancel, Opt
    <2>2. Sends("cancel", NoVisit, target) /\ route = AskedOn("cancel")
        BY <1>3 DEF Cancel, AskedOn
    <2> QED
        BY <2>1, <2>2, SendsInv
<1> QED
    BY <1>1, <1>2, <1>3

-----------------------------------------------------------------------------
(* The server and the network *)

\* A request is replaced by what has become of it.
LEMMA BecomesInv ==
    ASSUME IndInv, UNCHANGED <<history, route, target, flow, pick, slots, mine, acked>>,
           detours' \in 0 .. MaxDetours,
           timers' \subseteq {"held", "loose"}, "held" \in timers' => route = "confirm",
           NEW i \in DOMAIN requests, NEW r \in Request, IsSound(r, route, Now),
           Awaited(r) => Awaited(requests[i]), requests' = [requests EXCEPT ![i] = r]
    PROVE  IndInv'
<1>1. RequestsSound([requests EXCEPT ![i] = r], route, Now)
    BY Parts, ReplacedSound
<1> QED
    BY <1>1, RequestsInv

\* The server refuses: nothing is written.
LEMMA OutcomeInv ==
    ASSUME IndInv, NEW i \in DOMAIN requests, NEW state \in {"taken", "failed"},
           state = "taken" => requests[i].kind = "create",
           requests[i].state = "sent", Outcome(i, state),
           UNCHANGED <<history, route, target, flow, pick, timers, slots, mine, acked, detours>>
    PROVE  IndInv'
<1> DEFINE r == [requests[i] EXCEPT !.state = state]
<1>1. r \in Request /\ r.state = state /\ r.kind = requests[i].kind
      /\ r.here = requests[i].here /\ r.pos = requests[i].pos
    BY RequestAt DEF Request
<1>2. IsSound(r, route, Now) /\ (Awaited(r) => Awaited(requests[i]))
    BY <1>1, RequestAt DEF IsSound, Awaited
<1>3. requests' = [requests EXCEPT ![i] = r]
    BY DEF Outcome
<1> QED
    BY <1>1, <1>2, <1>3, Parts, BecomesInv

\* The server does what it was asked for.
LEMMA MadeInv ==
    ASSUME IndInv, NEW i \in DOMAIN requests, requests[i].state = "sent",
           NEW b \in Bookings, NEW db \in Database, MadeAs(i, b, db),
           UNCHANGED <<route, target, flow, pick, timers, slots, mine, acked, detours>>
    PROVE  IndInv'
<1> DEFINE r == [requests[i] EXCEPT !.state = "made", !.booking = b, !.pos = Now + 1]
<1>1. r \in Request /\ r.state = "made" /\ r.kind = requests[i].kind
      /\ r.here = requests[i].here /\ r.pos = Now + 1
    <2>1. Now + 1 \in Nat /\ b \in Opt(Bookings)
        BY Parts DEF Opt
    <2> QED
        BY <2>1, RequestAt DEF Request
<1>2. Now + 1 <= Now + 1
    BY Parts
<1>3. IsSound(r, route, Now + 1) /\ (Awaited(r) => Awaited(requests[i]))
    BY <1>1, <1>2, RequestAt DEF IsSound, Awaited
<1>4. requests' = [requests EXCEPT ![i] = r] /\ Commits(db)
    BY DEF MadeAs
<1>5. RequestsSound(requests, route, Now + 1)
    BY Parts, SoundLater
<1>6. RequestsSound([requests EXCEPT ![i] = r], route, Now + 1)
    BY <1>1, <1>3, <1>5, ReplacedSound
<1> QED
    BY <1>4, <1>6, Parts, CommitInv

LEMMA ServeInv ==
    ASSUME IndInv, NEW i \in DOMAIN requests, Serve(i)
    PROVE  IndInv'
<1> DEFINE r == requests[i]
           slot == <<r.visit.staff, r.visit.start>>
<1>1. r \in Request /\ Latest \in Database /\ r.state = "sent"
    BY RequestAt, HistoryFacts, Parts DEF Serve
<1>2. UNCHANGED <<route, target, flow, pick, timers, slots, mine, acked, detours>>
    BY DEF Serve
<1>3. ASSUME NEW b \in Bookings,
             MadeAs(i, b, [Latest EXCEPT !.mine[b] = r.visit, !.active = @ \cup {b}])
      PROVE  IndInv'
    <2>1. [Latest EXCEPT !.mine[b] = r.visit, !.active = @ \cup {b}] \in Database
        BY <1>1 DEF Database, Request
    <2> QED
        BY <1>1, <1>2, <1>3, <2>1, MadeInv
<1>4. CASE /\ r.booking \in Latest.active
           /\ MadeAs(i, r.booking, [Latest EXCEPT !.mine[r.booking] = r.visit])
    <2>1. r.booking \in Bookings
        BY <1>1, <1>4 DEF Database
    <2>2. [Latest EXCEPT !.mine[r.booking] = r.visit] \in Database
        BY <1>1, <2>1 DEF Database, Request
    <2> QED
        BY <1>1, <1>2, <1>4, <2>1, <2>2, MadeInv
<1>5. CASE /\ r.booking \in Latest.active
           /\ MadeAs(i, r.booking, [Latest EXCEPT !.active = @ \ {r.booking}])
    <2>1. r.booking \in Bookings
        BY <1>1, <1>5 DEF Database
    <2>2. [Latest EXCEPT !.active = @ \ {r.booking}] \in Database
        BY <1>1 DEF Database
    <2> QED
        BY <1>1, <1>2, <1>5, <2>1, <2>2, MadeInv
<1>6. CASE r.kind = "create" /\ Outcome(i, "taken") /\ UNCHANGED history
    BY <1>1, <1>2, <1>6, OutcomeInv
<1>7. CASE Outcome(i, "failed") /\ UNCHANGED history
    BY <1>1, <1>2, <1>7, OutcomeInv
<1> QED
    BY <1>3, <1>4, <1>5, <1>6, <1>7 DEF Serve

\* Another step than the ones that lead the client on takes detours.
LEMMA DetourType ==
    ASSUME IndInv, Detour
    PROVE  detours' \in 0 .. MaxDetours
BY Parts, BookingFlowAssumption DEF Detour

LEMMA ServerStepInv ==
    ASSUME IndInv, NEW i \in DOMAIN requests, ServerStep(i)
    PROVE  IndInv'
<1>1. CASE Refuse(i)
    <2>1. requests[i].state = "sent" /\ Outcome(i, "failed")
          /\ UNCHANGED <<history, route, target, flow, pick, timers, slots, mine, acked, detours>>
        BY <1>1 DEF Refuse
    <2> QED
        BY <2>1, OutcomeInv
<1>2. CASE Lose(i)
    <2> DEFINE r == [requests[i] EXCEPT !.state = "failed", !.pos = 0]
    <2>1. /\ UNCHANGED <<history, route, target, flow, pick, timers, slots, mine, acked>>
          /\ requests' = [requests EXCEPT ![i] = r]
          /\ requests[i].state # "over"
          /\ Detour
        BY <1>2 DEF Lose
    <2>2. r \in Request /\ r.state = "failed" /\ r.kind = requests[i].kind
          /\ r.here = requests[i].here /\ r.pos = 0
        BY RequestAt DEF Request
    <2>3. IsSound(r, route, Now) /\ (Awaited(r) => Awaited(requests[i]))
        BY <2>1, <2>2, RequestAt, Parts DEF IsSound, Awaited
    <2> QED
        BY <2>1, <2>2, <2>3, DetourType, Parts, BecomesInv
<1> QED
    BY <1>1, <1>2, ServeInv DEF ServerStep

\* Other clients and the staff.
LEMMA OthersInv ==
    ASSUME IndInv,
           \/ \E m \in Staff, t \in Starts : OthersBook(m, t)
           \/ \E b \in Bookings : StaffCancels(b)
    PROVE  IndInv'
<1>0. RequestsSound(requests, route, Now + 1) /\ Latest \in Database
    BY Parts, SoundLater, HistoryFacts
<1>1. ASSUME NEW m \in Staff, NEW t \in Starts, OthersBook(m, t)
      PROVE  IndInv'
    <2>1. [Latest EXCEPT !.others = @ \cup {<<m, t>>}] \in Database
        BY <1>0 DEF Database
    <2>2. /\ UNCHANGED <<route, target, flow, pick, timers, requests, slots, mine, acked>>
          /\ Commits([Latest EXCEPT !.others = @ \cup {<<m, t>>}]) /\ Detour
        BY <1>1 DEF OthersBook
    <2> QED
        BY <1>0, <2>1, <2>2, DetourType, CommitInv
<1>2. ASSUME NEW b \in Bookings, StaffCancels(b)
      PROVE  IndInv'
    <2>1. [Latest EXCEPT !.active = @ \ {b}] \in Database
        BY <1>0 DEF Database
    <2>2. /\ UNCHANGED <<route, target, flow, pick, timers, requests, slots, mine, acked>>
          /\ Commits([Latest EXCEPT !.active = @ \ {b}]) /\ Detour
        BY <1>2 DEF StaffCancels
    <2> QED
        BY <1>0, <2>1, <2>2, DetourType, CommitInv
<1> QED
    BY <1>1, <1>2

-----------------------------------------------------------------------------
(* What arrives at the client *)

\* A handler that has ended leaves a request nobody awaits.
LEMMA OverSound ==
    ASSUME IndInv, NEW i \in DOMAIN requests
    PROVE  RequestsSound(Over(i), route, Now)
<1> DEFINE r == [kind |-> "cancel", visit |-> NoVisit, booking |-> Unset,
                 here |-> FALSE, state |-> "over", pos |-> 0]
<1>1. r \in Request /\ IsSound(r, route, Now) /\ ~Awaited(r)
    BY Parts DEF Request, Opt, IsSound, Awaited
<1> QED
    BY <1>1, Parts, ReplacedSound DEF Over

\* The acknowledgement moves acked on, and nothing in the caches is left
\* that looks sound and is older: everything has been invalidated.
LEMMA SucceedsInv ==
    ASSUME IndInv, NEW i \in DOMAIN requests, Succeeds(i)
    PROVE  IndInv'
<1> DEFINE r == requests[i]
           next == After(r)
<1>1. r \in Request /\ r.pos <= Now
    BY RequestAt DEF IsSound
<1>2. acked' \in 0 .. Now /\ acked' \in Nat /\ acked' <= Now
    BY <1>1, Parts DEF Succeeds, Request
<1>3. next[1] \in Pages /\ next[2] \in Opt(Bookings)
    BY <1>1 DEF After, Pages, Request, Opt
<1>4. CacheTimely(SlotsInvalidated, acked', Now)
    <2>1. ASSUME NEW k \in Key
          PROVE  /\ Invalidated(slots[k], k \in InUse, Now) \in Entry
                 /\ Timely(Invalidated(slots[k], k \in InUse, Now), acked', Now)
        <3>1. slots[k] \in Entry /\ slots[k].at <= Now /\ (k \in InUse) \in BOOLEAN
            BY <2>1, Parts DEF CacheTimely, Timely
        <3> QED
            BY <1>2, <3>1, Parts, InvalidatedFresh
    <2> QED
        BY <2>1 DEF SlotsInvalidated, CacheTimely
<1>5. ListInvalidated \in Entry /\ Timely(ListInvalidated, acked', Now)
    <2>1. ListInUse \in BOOLEAN
        BY DEF ListInUse
    <2> QED
        BY <1>2, <2>1, Parts, InvalidatedFresh DEF ListInvalidated
<1>6. RequestsSound(Over(i), route, Now)
    BY OverSound
<1>7. /\ GoesWith(next[1], next[2], flow, SlotsInvalidated, ListInvalidated, Over(i), timers)
      /\ history' = history /\ detours' \in 0 .. MaxDetours
    BY Parts DEF Succeeds
<1> QED
    BY <1>2, <1>3, <1>4, <1>5, <1>6, <1>7, Parts, NavigationInv

\* A refusal arms a redirect, which has a handle only if the page awaits it.
LEMMA FailsInv ==
    ASSUME IndInv, NEW i \in DOMAIN requests, Fails(i)
    PROVE  IndInv'
<1> DEFINE r == requests[i]
<1>1. /\ UNCHANGED <<history, route, target, flow, pick, slots, mine, acked, detours>>
      /\ requests' = Over(i) /\ r.state \in {"taken", "failed"}
      /\ timers' = IF r.state = "taken" THEN Armed(r) ELSE timers
    BY DEF Fails
<1>2. RequestsSound(requests', route, Now)
    BY <1>1, OverSound
<1>3. r.here /\ r.state = "taken" => route = "confirm"
    BY RequestAt DEF IsSound, Awaited, AskedOn
<1>4. timers' \subseteq {"held", "loose"} /\ ("held" \in timers' => route = "confirm")
    BY <1>1, <1>3, Parts DEF Armed
<1> QED
    BY <1>1, <1>2, <1>4, Parts, RequestsInv

LEMMA RedirectInv ==
    ASSUME IndInv, NEW t \in timers, Redirect(t)
    PROVE  IndInv'
<1>1. /\ GoesWith("time", Unset, flow, slots, mine, requests, timers \ {t})
      /\ UNCHANGED <<history, acked, detours>>
    BY DEF Redirect
<1>2. "time" \in Pages /\ Unset \in Opt(Bookings) /\ timers \ {t} \in SUBSET timers
    BY DEF Pages, Steps, Opt
<1> QED
    BY <1>1, <1>2, Parts, NavigationInv

\* An answer was read no earlier than it was asked for.
LEMMA FetchInv ==
    ASSUME IndInv, NEW k \in Key, Fetch(k)
    PROVE  IndInv'
<1>1. slots[k] \in Entry /\ Timely(slots[k], acked, Now) /\ slots[k].at <= Now
    BY Parts DEF CacheTimely, Timely
<1>2. ASSUME NEW e \in Entry, Timely(e, acked, Now), slots' = [slots EXCEPT ![k] = e],
             UNCHANGED <<history, route, target, flow, pick, timers, requests, mine, acked>>,
             detours' \in 0 .. MaxDetours
      PROVE  IndInv'
    <2>1. CacheTimely(slots', acked, Now)
        BY <1>2, Parts DEF CacheTimely
    <2> QED
        BY <1>2, <2>1, Parts, CoherentStays, CachesInv
<1>3. CASE LandSlots(k)
    <2>1. PICK pos \in slots[k].from .. Now : slots' = [slots EXCEPT ![k] = Landed(@, pos)]
        BY <1>3 DEF LandSlots
    <2>2. InFlight(slots[k]) /\ slots[k].from \in Nat
        BY <1>1, <1>3 DEF LandSlots, InFlight, Entry
    <2>3. pos \in Nat /\ pos <= Now /\ slots[k].from <= pos
        BY <2>2, Parts
    <2>4. Landed(slots[k], pos) \in Entry /\ Timely(Landed(slots[k], pos), acked, Now)
        BY <1>1, <2>2, <2>3, Parts, LandedFresh
    <2>5. slots' = [slots EXCEPT ![k] = Landed(slots[k], pos)]
        BY <2>1
    <2> QED
        BY <1>2, <1>3, <2>4, <2>5, Parts DEF LandSlots
<1>4. CASE FailSlots(k)
    <2>1. Failed(slots[k]) \in Entry /\ Timely(Failed(slots[k]), acked, Now)
        BY <1>1, Parts, FailedFresh
    <2>2. slots' = [slots EXCEPT ![k] = Failed(slots[k])] /\ Detour
        BY <1>4 DEF FailSlots
    <2> QED
        BY <1>2, <1>4, <2>1, <2>2, DetourType DEF FailSlots
<1> QED
    BY <1>3, <1>4 DEF Fetch

LEMMA FetchListInv ==
    ASSUME IndInv, FetchList
    PROVE  IndInv'
<1>1. CASE LandList
    <2>1. PICK pos \in mine.from .. Now : /\ mine' = Landed(mine, pos)
                                          /\ \E keys : Mounts(slots, keys)
        BY <1>1 DEF LandList
    <2>2. InFlight(mine) /\ mine.from \in Nat
        BY <1>1, Parts DEF LandList, InFlight, Entry
    <2>3. pos \in Nat /\ pos <= Now /\ mine.from <= pos
        BY <2>2, Parts
    <2>4. mine' \in Entry /\ Timely(mine', acked, Now)
        BY <2>1, <2>2, <2>3, Parts, LandedFresh
    <2>5. CacheTimely(slots', acked, Now)
        BY <2>1, Parts, MountsTimely
    <2> QED
        BY <1>1, <2>4, <2>5, Parts, CoherentStays, CachesInv DEF LandList
<1>2. CASE FailList
    <2>1. mine' = Failed(mine) /\ Detour
          /\ UNCHANGED <<history, route, target, flow, pick, timers, requests, slots, acked>>
        BY <1>2 DEF FailList
    <2>2. Failed(mine) \in Entry /\ Timely(Failed(mine), acked, Now)
        BY Parts, FailedFresh
    <2> QED
        BY <2>1, <2>2, DetourType, Parts, CoherentStays, CachesInv
<1> QED
    BY <1>1, <1>2 DEF FetchList

-----------------------------------------------------------------------------
(* The theorems *)

LEMMA InitInv == Init => IndInv
<1> SUFFICES ASSUME Init PROVE IndInv
    OBVIOUS
<1>1. PICK m \in [Bookings -> Before \cup {NoVisit}] :
        history = <<[mine |-> m, active |-> {b \in Bookings : m[b] # NoVisit}, others |-> {}]>>
    BY DEF Init
<1>2. Before \cup {NoVisit} \subseteq Visit \cup {NoVisit}
    BY BookingFlowAssumption DEF Visit
<1>3. history \in Seq(Database) /\ history # <<>> /\ Now = 0
    <2>1. [mine |-> m, active |-> {b \in Bookings : m[b] # NoVisit}, others |-> {}] \in Database
        BY <1>2 DEF Database
    <2> QED
        BY <1>1, <2>1 DEF Now
<1>4. flow \in Flow /\ IsCoherent(flow) /\ flow = EmptyFlow /\ pick = NoPick
    BY EmptyFlowType DEF Init
<1>5. route \in Pages \ {"date"} /\ target \in Opt(Bookings)
    BY DEF Init, Pages, Steps, Opt
<1>6. acked = 0 /\ requests = <<>> /\ timers = {} /\ detours \in 0 .. MaxDetours
    BY BookingFlowAssumption DEF Init
<1>7. Empty \in Entry /\ Timely(Empty, 0, 0)
    BY DEF Empty, Entry, Mark, None, Timely, IsSettled, InFlight
<1>8. mine \in Entry /\ Timely(mine, 0, 0)
    <2>1. Empty.at <= 0
        BY DEF Empty, None
    <2> QED
        BY <1>7, <2>1, AskedFresh DEF Init, MountsFirst
<1>9. slots \in [Key -> Entry] /\ \A k \in Key : Timely(slots[k], 0, 0)
    BY <1>7 DEF Init
<1>10. TypeOK
    BY <1>3, <1>4, <1>5, <1>6, <1>8, <1>9, NoPickType DEF TypeOK
<1> QED
    BY <1>3, <1>4, <1>5, <1>6, <1>8, <1>9, <1>10, NoPickType
    DEF IndInv, HeldTimerIsHere, OneAnswerAwaited, ChoiceIsCoherent

LEMMA NextInv == IndInv /\ [Next]_vars => IndInv'
<1> SUFFICES ASSUME IndInv, [Next]_vars PROVE IndInv'
    OBVIOUS
<1>1. CASE Client
    <2>1. ASSUME NEW p \in Pages, NEW b \in Opt(Bookings), Open(p, b) PROVE IndInv'
        BY <2>1, OpenInv
    <2>2. ASSUME NEW t \in Starts, SelectTime(t) \/ PickTime(t) PROVE IndInv'
        BY <2>2, SelectTimeInv, PickTimeInv
    <2>3. ASSUME NEW d \in Dates, PickDate(d) PROVE IndInv'
        BY <2>3, PickDateInv
    <2> QED
        BY <1>1, <2>1, <2>2, <2>3, StepInv, AskInv DEF Client
<1>2. ASSUME NEW i \in DOMAIN requests, ServerStep(i) \/ Answer(i) PROVE IndInv'
    BY <1>2, ServerStepInv, SucceedsInv, FailsInv DEF Answer
<1>3. ASSUME NEW t \in timers, Redirect(t) PROVE IndInv'
    BY <1>3, RedirectInv
<1>4. ASSUME NEW k \in Key, Fetch(k) PROVE IndInv'
    BY <1>4, FetchInv
<1>5. CASE UNCHANGED vars
    BY <1>5, Parts, CoherentStays, CachesInv DEF vars
<1> QED
    BY <1>1, <1>2, <1>3, <1>4, <1>5, FetchListInv, OthersInv DEF Next

\* Whatever the client opens, presses and leaves, whatever others do and
\* whenever answers arrive, the invariant of booking-flow-store, the pages,
\* the requests and the caches holds.
THEOREM Invariance == Spec => []IndInv
<1> QED
    BY InitInv, NextInv, PTL DEF Spec

\* The store never mixes choices: what createBooking is called with was chosen
\* together, and its time was offered for it.
THEOREM Coherence == Spec => []ChoiceIsCoherent
<1>1. IndInv => ChoiceIsCoherent
    BY DEF IndInv
<1> QED
    BY <1>1, Invariance, PTL

\* No page ever has two answers under way that it would act upon.
THEOREM OneAtATime == Spec => []OneAnswerAwaited
<1>1. IndInv => OneAnswerAwaited
    BY DEF IndInv
<1> QED
    BY <1>1, Invariance, PTL

\* The redirect that ConfirmStep holds the handle of is due on ConfirmStep only.
THEOREM RedirectIsCleared == Spec => []HeldTimerIsHere
<1>1. IndInv => HeldTimerIsHere
    BY DEF IndInv
<1> QED
    BY <1>1, Invariance, PTL

\* However the invalidations of an acknowledged change race with the fetches
\* under way, no list that looks sound is older than the change.
THEOREM ReadYourWrites == Spec => []OwnChangesShown
<1>1. IndInv => OwnChangesShown
    BY Parts DEF OwnChangesShown, CacheTimely, Timely
<1> QED
    BY <1>1, Invariance, PTL
==================================================================================
