-------------------------------- MODULE Slots --------------------------------
(***************************************************************************)
(* The slot arithmetic of services/slot_service.py as operators.           *)
(*                                                                         *)
(* Times are integers in an abstract minute.  An interval is a pair        *)
(* <<start, end>> read half-open, as in the code.  Working hours and       *)
(* schedule exceptions are local to a day and given as offsets from its    *)
(* midnight; a busy interval and a slot start are absolute.                *)
(***************************************************************************)
EXTENDS Integers, FiniteSetsExt

CONSTANTS
    SlotStep,        \* businesses.slot_step_minutes
    BufferMinutes,   \* businesses.booking_buffer_minutes
    DayLength        \* length of a local day; midnights are its multiples

ASSUME SlotsAssumption ==
    /\ SlotStep \in Nat \ {0}
    /\ BufferMinutes \in Nat
    /\ DayLength \in Nat \ {0}

Interval == {w \in (0..DayLength) \X (0..DayLength) : w[1] < w[2]}

-----------------------------------------------------------------------------
(* Mutant: what is left to the right of the cut is lost. *)
IntervalLeftOf(working, cut) ==
    LET Apart(w) == cut[2] <= w[1] \/ cut[1] >= w[2]
    IN  {w \in working : Apart(w)}
            \cup {<<w[1], cut[1]>> : w \in {x \in working : ~Apart(x) /\ cut[1] > x[1]}}

(* The half-open interval cut removed from every interval of working. *)
IntervalMinus(working, cut) ==
    LET Apart(w) == cut[2] <= w[1] \/ cut[1] >= w[2]
        Left  == {<<w[1], cut[1]>> : w \in {x \in working : ~Apart(x) /\ cut[1] > x[1]}}
        Right == {<<cut[2], w[2]>> : w \in {x \in working : ~Apart(x) /\ cut[2] < x[2]}}
    IN  {w \in working : Apart(w)} \cup Left \cup Right

(* Overlapping or touching intervals merged: the maximal runs. *)
Merged(intervals) ==
    LET Joined(s, e) ==   \* no gap between s and e
            \A m \in s..(e - 1) : \E w \in intervals : w[1] <= m /\ m < w[2]
    IN  {<<run[1][1], run[2][2]>> : run \in
            {p \in intervals \X intervals :
                /\ p[1][1] < p[2][2]
                /\ Joined(p[1][1], p[2][2])
                /\ ~ \E w \in intervals : \/ w[1] < p[1][1] /\ p[1][1] <= w[2]
                                          \/ w[1] <= p[2][2] /\ p[2][2] < w[2]}}

(* Exceptions of one date: a day off, and the extra and blocked intervals. *)
ExceptionsOfDay == [dayOff : BOOLEAN, extra : SUBSET Interval, blocked : SUBSET Interval]

(* Effective working intervals: nothing on a day off, otherwise the base   *)
(* and extra hours merged, less every blocked interval.                    *)
ApplyExceptions(base, exceptions) ==
    IF exceptions.dayOff
    THEN {}
    ELSE FoldSet(LAMBDA cut, working : IntervalMinus(working, cut),
                 Merged(base \cup exceptions.extra),
                 exceptions.blocked)

(* Mutant: the buffer is kept before a booking and not after it. *)
CollidesBefore(t, duration, busy) ==
    /\ t < busy[2]
    /\ t + duration > busy[1] - BufferMinutes

(* A slot [t, t + duration) touches a busy interval widened by the buffer. *)
Collides(t, duration, busy) ==
    /\ t < busy[2] + BufferMinutes
    /\ t + duration > busy[1] - BufferMinutes

(* Starts at which the cursor stops in one working interval of the day     *)
(* that begins at midnight: every SlotStep from the interval's start, as   *)
(* long as a slot of this duration fits.                                   *)
CursorStops(midnight, w, duration) ==
    {t \in (midnight + w[1])..(midnight + w[2] - duration) :
        (t - (midnight + w[1])) % SlotStep = 0}

(* Starts offered by calculate_available_slots. *)
AvailableStarts(midnight, effective, duration, busy, now) ==
    {t \in UNION {CursorStops(midnight, w, duration) : w \in effective} :
        /\ t >= now
        /\ \A b \in busy : ~Collides(t, duration, b)}

(* Midnight of the local day that holds t (local_date_bounds_utc). *)
Midnight(t) == DayLength * (t \div DayLength)
=============================================================================
