---------------------------- MODULE QueryCacheProofs ----------------------------
(* What the operations of the query cache keep: its type and its freshness. *)
EXTENDS QueryCache, TLAPS

\* A request that leaves now cannot answer with less than position pos.
LEMMA AskedFresh ==
    ASSUME NEW e \in Entry, NEW now \in Nat, NEW pos \in Nat, pos <= now, e.at <= now
    PROVE  Asked(e, now) \in Entry /\ Timely(Asked(e, now), pos, now)
<1>1. e = [at |-> e.at, from |-> e.from, mark |-> e.mark]
      /\ e.at \in Nat \cup {None} /\ e.mark \in Mark
    BY DEF Entry
<1>2. Asked(e, now).at = e.at /\ Asked(e, now).from = now
      /\ Asked(e, now).mark \in Mark
    BY <1>1 DEF Asked, Mark
<1>3. Asked(e, now) \in Entry
    BY <1>1, <1>2 DEF Asked, Entry
<1> QED
    BY <1>2, <1>3 DEF Timely, IsSettled, InFlight, None

\* Mounting keeps the type.
LEMMA OnMountType ==
    ASSUME NEW e \in Entry, NEW now \in Nat, NEW x \in BOOLEAN
    PROVE  OnMount(e, now, x) \in Entry
BY DEF Entry, Mark, Asked, OnMount, None

\* A component that mounts never makes an entry older.
LEMMA OnMountFresh ==
    ASSUME NEW e \in Entry, NEW now \in Nat, NEW pos \in Nat, pos <= now,
           NEW x \in BOOLEAN, Timely(e, pos, now)
    PROVE  Timely(OnMount(e, now, x), pos, now)
BY AskedFresh DEF OnMount, Timely

\* Invalidation makes an entry doubtful, or asks for it: whatever it was, it is
\* not older than the position reached.
LEMMA InvalidatedFresh ==
    ASSUME NEW e \in Entry, NEW now \in Nat, NEW pos \in Nat, pos <= now,
           NEW inUse \in BOOLEAN, e.at <= now
    PROVE  Invalidated(e, inUse, now) \in Entry /\ Timely(Invalidated(e, inUse, now), pos, now)
<1> DEFINE f == Invalidated(e, inUse, now)
<1>1. CASE Restarts(e, inUse)
    <2>1. f = [e EXCEPT !.from = now, !.mark = "invalid"]
        BY <1>1 DEF Invalidated
    <2>2. f \in Entry /\ f.at = e.at /\ f.from = now /\ f.mark = "invalid"
        BY <2>1 DEF Entry, Mark
    <2> QED
        BY <2>2 DEF Timely, IsSettled, InFlight, None
<1>2. CASE ~Restarts(e, inUse) /\ e = Empty
    BY <1>2 DEF Invalidated, Empty, Timely, IsSettled, InFlight
<1>3. CASE ~Restarts(e, inUse) /\ e # Empty
    <2>1. f = [e EXCEPT !.mark = IF InFlight(e) THEN "raced" ELSE "invalid"]
        BY <1>3 DEF Invalidated
    <2>2. f \in Entry /\ f.at = e.at /\ f.from = e.from
          /\ f.mark = (IF InFlight(e) THEN "raced" ELSE "invalid")
        BY <2>1 DEF Entry, Mark
    <2> QED
        BY <2>2 DEF Timely, IsSettled, InFlight
<1> QED
    BY <1>1, <1>2, <1>3

\* An answer read since the request left is not older than what it waits for.
LEMMA LandedFresh ==
    ASSUME NEW e \in Entry, NEW now \in Nat, NEW pos \in Nat, NEW at \in Nat, at <= now,
           Timely(e, pos, now), InFlight(e), e.from <= at
    PROVE  Landed(e, at) \in Entry /\ Timely(Landed(e, at), pos, now)
BY DEF Entry, Mark, Landed, Timely, IsSettled, InFlight, None

\* A request that fails leaves nothing that looks sound.
LEMMA FailedFresh ==
    ASSUME NEW e \in Entry, NEW now \in Nat, NEW pos \in Nat, e.at <= now
    PROVE  Failed(e) \in Entry /\ Timely(Failed(e), pos, now)
BY DEF Entry, Mark, Failed, Timely, IsSettled, InFlight, None

\* More writes make no entry untimely.
LEMMA TimelyLater ==
    ASSUME NEW e \in Entry, NEW now \in Nat, NEW later \in Nat, now <= later,
           NEW pos \in Nat, Timely(e, pos, now)
    PROVE  Timely(e, pos, later)
BY DEF Entry, Timely, None
=================================================================================
