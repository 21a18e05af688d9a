------------------------------- MODULE SlotScan -------------------------------
(***************************************************************************)
(* The loops of _apply_exceptions and calculate_available_slots in         *)
(* services/slot_service.py, one iteration a step: merge the hours in the  *)
(* order of their starts, cut each blocked interval out of one window      *)
(* after another, then move a cursor through the windows that are left.    *)
(* Module Slots says in one expression what they compute, and module       *)
(* Bookings builds on that.                                                *)
(*                                                                         *)
(* Wall-clock times of the day become absolute ones through a wall clock,  *)
(* a function that need not be linear: where daylight saving begins or     *)
(* ends it jumps.                                                          *)
(***************************************************************************)
EXTENDS Slots, SequencesExt

CONSTANTS
    ServiceMinutes,  \* services.duration_minutes
    WallClocks,      \* local minute of the day to absolute minute
    BusySpan,        \* interval from which bookings are taken
    Nows,            \* values of now_utc
    MaxHours,        \* bounds on the rows of each kind
    MaxExtra,
    MaxBlocked,
    MaxBusy

ASSUME SlotScanAssumption ==
    /\ ServiceMinutes \in Nat \ {0}
    /\ WallClocks \subseteq [0..DayLength -> Int]
    /\ BusySpan \subseteq Int
    /\ Nows \subseteq Int

VARIABLES
    hours,       \* working hours of the weekday
    exceptions,  \* schedule exceptions of the date
    busy,        \* active bookings around the date
    wallClock,   \* the day's conversion to UTC
    now,
    unmerged,    \* intervals still to be merged
    merged,      \* effective intervals so far; later the windows to scan
    cuts,        \* blocked intervals still to be subtracted
    cut,         \* the one being subtracted, {} between two of them
    result,      \* what it has left of the windows before merged
    cursor,      \* position in the first window, {} before it is entered
    slots,       \* starts found so far
    pc

input == <<hours, exceptions, busy, wallClock, now>>
vars == <<input, unmerged, merged, cuts, cut, result, cursor, slots, pc>>

(* Sets of at most n members of S. *)
AtMost(n, S) == {{}} \cup {{f[i] : i \in 1..n} : f \in [1..n -> S]}

(* Bookings of one staff member: they do not overlap each other. *)
BusySets ==
    {b \in AtMost(MaxBusy, {i \in BusySpan \X BusySpan : i[1] < i[2]}) :
        \A i, j \in b : i # j => i[2] <= j[1] \/ j[2] <= i[1]}

Init ==
    /\ hours \in AtMost(MaxHours, Interval)
    /\ exceptions \in [dayOff : BOOLEAN, extra : AtMost(MaxExtra, Interval),
                       blocked : AtMost(MaxBlocked, Interval)]
    /\ busy \in BusySets
    /\ wallClock \in WallClocks
    /\ now \in Nows
    /\ unmerged = hours \cup exceptions.extra
    /\ merged = <<>>
    /\ cuts = exceptions.blocked
    /\ cut = {}
    /\ result = <<>>
    /\ cursor = {}
    /\ slots = <<>>
    /\ pc = IF exceptions.dayOff THEN "done" ELSE "merge"

(* Mutant: intervals that overlap are not merged. *)
Touches(last, next) == next[1] = last[2]

(* s <= merged[-1][1] *)
Joins(last, next) == next[1] <= last[2]

(* Mutant: the intervals are sorted by their ends. *)
EndsFirst(next, intervals) ==
    \A w \in intervals : next[2] < w[2] \/ (next[2] = w[2] /\ next[1] <= w[1])

(* intervals.sort(): the interval that comes before all others. *)
IsLeast(next, intervals) ==
    \A w \in intervals : next[1] < w[1] \/ (next[1] = w[1] /\ next[2] <= w[2])

(* The next interval extends the last merged one or starts a new one. *)
Merge ==
    /\ pc = "merge"
    /\ \E next \in unmerged :
        /\ IsLeast(next, unmerged)
        /\ IF merged # <<>> /\ Joins(Last(merged), next)
           THEN merged' = [merged EXCEPT ![Len(merged)] = <<@[1], Max({@[2], next[2]})>>]
           ELSE merged' = Append(merged, next)
        /\ unmerged' = unmerged \ {next}
    /\ UNCHANGED <<input, cuts, cut, result, cursor, slots, pc>>

(* Mutant: an empty remainder is kept. *)
RemainderBoth(w, c) ==
    IF c[2] <= w[1] \/ c[1] >= w[2]
    THEN <<w>>
    ELSE << <<w[1], c[1]>>, <<c[2], w[2]>> >>

(* What a cut leaves of a window, left before right. *)
Remainder(w, c) ==
    LET left  == IF c[1] > w[1] THEN << <<w[1], c[1]>> >> ELSE <<>>
        right == IF c[2] < w[2] THEN << <<c[2], w[2]>> >> ELSE <<>>
    IN  IF c[2] <= w[1] \/ c[1] >= w[2] THEN <<w>> ELSE left \o right

(* The next blocked interval; the order of those of a date is not defined. *)
StartCut ==
    /\ pc = "merge" /\ unmerged = {}
    /\ cut = {}
    /\ \E c \in cuts :
        /\ cut' = {c}
        /\ cuts' = cuts \ {c}
    /\ UNCHANGED <<input, unmerged, merged, result, cursor, slots, pc>>

(* One turn of the loop of _interval_minus. *)
CutWindow ==
    /\ merged # <<>>
    /\ \E c \in cut : result' = result \o Remainder(Head(merged), c)
    /\ merged' = Tail(merged)
    /\ UNCHANGED <<input, unmerged, cuts, cut, cursor, slots, pc>>

(* merged = _interval_minus(...) *)
EndCut ==
    /\ cut # {}
    /\ merged = <<>>
    /\ merged' = result
    /\ result' = <<>>
    /\ cut' = {}
    /\ UNCHANGED <<input, unmerged, cuts, cursor, slots, pc>>

(* The effective intervals are known. *)
Effective == unmerged = {} /\ cuts = {} /\ cut = {}

(* The next window is converted to UTC and the cursor set to its start. *)
EnterWindow ==
    /\ pc = "merge" /\ Effective
    /\ cursor = {}
    /\ merged # <<>>
    /\ cursor' = {wallClock[Head(merged)[1]]}
    /\ UNCHANGED <<input, unmerged, merged, cuts, cut, result, slots, pc>>

Fits(t) == t + ServiceMinutes <= wallClock[Head(merged)[2]]

(* Mutant: the cursor stays where it is on a slot in the past. *)
AdvancedIfAhead(t) == IF t < now THEN t ELSE t + SlotStep

(* cursor += step, on every path through the loop. *)
Advanced(t) == t + SlotStep

(* One turn of the while loop: a slot that is neither past nor taken. *)
Scan ==
    /\ \E t \in cursor :
        /\ Fits(t)
        /\ slots' = IF t < now \/ \E b \in busy : Collides(t, ServiceMinutes, b)
                    THEN slots
                    ELSE Append(slots, t)
        /\ cursor' = {Advanced(t)}
    /\ UNCHANGED <<input, unmerged, merged, cuts, cut, result, pc>>

LeaveWindow ==
    /\ \E t \in cursor : ~Fits(t)
    /\ merged' = Tail(merged)
    /\ cursor' = {}
    /\ UNCHANGED <<input, unmerged, cuts, cut, result, slots, pc>>

(* The same elements in another order. *)
Rearrangements(list) ==
    {[i \in DOMAIN list |-> list[p[i]]] : p \in Bijection(DOMAIN list, DOMAIN list)}

Ascending(list) == \A i, j \in DOMAIN list : i < j => list[i] <= list[j]

(* slots.sort() *)
Finish ==
    /\ pc = "merge" /\ Effective
    /\ merged = <<>>
    /\ slots' \in {list \in Rearrangements(slots) : Ascending(list)}
    /\ pc' = "done"
    /\ UNCHANGED <<input, unmerged, merged, cuts, cut, result, cursor>>

Next ==
    \/ Merge
    \/ StartCut \/ CutWindow \/ EndCut
    \/ EnterWindow \/ Scan \/ LeaveWindow
    \/ Finish

Spec == Init /\ [][Next]_vars

FairSpec == Spec /\ WF_vars(Next)

-----------------------------------------------------------------------------
(* Every variable has its type. *)
TypeOK ==
    /\ hours \subseteq Interval
    /\ exceptions \in ExceptionsOfDay
    /\ busy \subseteq BusySpan \X BusySpan
    /\ wallClock \in WallClocks
    /\ now \in Nows
    /\ unmerged \subseteq hours \cup exceptions.extra
    /\ merged \in Seq(Interval) /\ result \in Seq(Interval)
    /\ cuts \subseteq exceptions.blocked
    /\ cut \subseteq exceptions.blocked /\ \A c, d \in cut : c = d
    /\ cursor \subseteq Int /\ \A t, u \in cursor : t = u
    /\ slots \in Seq(Int)
    /\ pc \in {"merge", "done"}

(* The minutes of the day that are open: in the hours or the extra time,   *)
(* not blocked, on a day that is not off.                                  *)
OpenMinutes ==
    {m \in 0..(DayLength - 1) :
        /\ ~exceptions.dayOff
        /\ \E w \in hours \cup exceptions.extra : w[1] <= m /\ m < w[2]
        /\ ~ \E c \in exceptions.blocked : c[1] <= m /\ m < c[2]}

(* [from, to) is open, and what touches it outside is not. *)
OpenStretch(from, to) ==
    /\ from < to
    /\ from..(to - 1) \subseteq OpenMinutes
    /\ from - 1 \notin OpenMinutes
    /\ to \notin OpenMinutes

(* The list offered to clients is exactly: the grid of SlotStep in every   *)
(* stretch of open minutes, counted from its start, where the service fits *)
(* before the stretch ends, does not start in the past and keeps the       *)
(* buffer from every booking.  Checked against minutes, not intervals:     *)
(* adjacent hours join, overlapping ones do not double.                    *)
OffersExactlyTheOpenGrid ==
    pc = "done" =>
        ToSet(slots) =
            UNION {{t \in wallClock[s[1]]..(wallClock[s[2]] - ServiceMinutes) :
                        /\ (t - wallClock[s[1]]) % SlotStep = 0
                        /\ t >= now
                        /\ \A b \in busy : \/ t + ServiceMinutes + BufferMinutes <= b[1]
                                           \/ b[2] + BufferMinutes <= t} :
                   s \in {w \in Interval : OpenStretch(w[1], w[2])}}

(* Later on the wall is later: the clock is not set forward that day.      *)
ClockAdvances == \A m, n \in 0..DayLength : m < n => wallClock[m] < wallClock[n]

(* No start is offered twice and the list is in order, unless the clock is *)
(* set forward that day.                                                   *)
StrictlyAscending ==
    pc = "done" /\ ClockAdvances =>
        \A i, j \in DOMAIN slots : i < j => slots[i] < slots[j]

(* On a day without a clock change the loops compute what module Bookings  *)
(* takes them to compute.                                                  *)
AgreesWithSlots ==
    pc = "done" /\ (\A m \in 0..DayLength : wallClock[m] = m) =>
        ToSet(slots) = AvailableStarts(0, ApplyExceptions(hours, exceptions),
                                       ServiceMinutes, busy, now)

(* The cursor reaches the end of the last window. *)
Terminates == <>(pc = "done")
=============================================================================
