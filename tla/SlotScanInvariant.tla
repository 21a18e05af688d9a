--------------------------- MODULE SlotScanInvariant ---------------------------
(***************************************************************************)
(* Why the slot scan offers exactly the open grid, in order: the inductive *)
(* invariant of its loops, part by part.                                   *)
(***************************************************************************)
EXTENDS SlotScan

Covers(w, m) == w[1] <= m /\ m < w[2]

Covered(windows, m) == \E w \in windows : Covers(w, m)

(* Which loop runs, and what the others have left behind. *)
Staged ==
    /\ exceptions.dayOff => pc = "done" /\ slots = <<>>
    /\ pc = "merge" /\ ~Effective => cursor = {} /\ slots = <<>>
    /\ pc = "done" => cursor = {} /\ cut = {}
    /\ pc = "done" /\ ~exceptions.dayOff => Effective /\ merged = <<>>
    /\ unmerged # {} => cut = {}
    /\ cut = {} => result = <<>>

(* The windows, those that the cut has been through and those it has not,  *)
(* are in ascending order with a gap between any two, and nothing that is  *)
(* still to be merged begins before them.                                  *)
Separated(list) == \A i, j \in DOMAIN list : i < j => list[i][2] < list[j][1]

WindowsApart ==
    /\ Separated(merged)
    /\ Separated(result)
    /\ \A i \in DOMAIN result, j \in DOMAIN merged : result[i][2] < merged[j][1]
    /\ \A i \in DOMAIN merged, w \in unmerged : merged[i][1] <= w[1]

(* Until the scan begins no minute is lost or won: the windows hold those  *)
(* of the hours and the extra time, less the cuts that have been made, the *)
(* current one only in part.                                               *)
AccountsFor(m) ==
    \/ Covered(ToSet(result), m)
    \/ Covered(ToSet(merged) \cup unmerged, m) /\ ~Covered(cut, m)
    <=> /\ Covered(hours \cup exceptions.extra, m)
        /\ ~Covered(exceptions.blocked \ cuts, m)

MinutesAccounted ==
    pc = "merge" /\ ~Effective => \A m \in 0..(DayLength - 1) : AccountsFor(m)

(* What the specification counts as on offer in a window. *)
Offered(w) ==
    {t \in wallClock[w[1]]..(wallClock[w[2]] - ServiceMinutes) :
        /\ (t - wallClock[w[1]]) % SlotStep = 0
        /\ t >= now
        /\ \A b \in busy : ~Collides(t, ServiceMinutes, b)}

(* During the scan: the windows ahead are stretches of open minutes, every *)
(* other stretch has been searched, the first one up to the cursor, which  *)
(* is on the grid, and nothing else was found.                             *)
GridFollowed ==
    Effective /\ ~exceptions.dayOff =>
        /\ \A i \in DOMAIN merged : OpenStretch(merged[i][1], merged[i][2])
        /\ \A w \in Interval :
                OpenStretch(w[1], w[2]) /\ w \notin ToSet(merged) => Offered(w) \subseteq ToSet(slots)
        /\ \A t \in ToSet(slots) :
                \E w \in Interval : OpenStretch(w[1], w[2]) /\ t \in Offered(w)
        /\ \A c \in cursor :
                /\ merged # <<>>
                /\ c >= wallClock[Head(merged)[1]]
                /\ (c - wallClock[Head(merged)[1]]) % SlotStep = 0
                /\ \A t \in Offered(Head(merged)) : t < c => t \in ToSet(slots)

(* On a day whose clock is not set forward, what has been found lies       *)
(* before the cursor and before the windows that are still to be entered.  *)
FoundInOrder ==
    ClockAdvances =>
        /\ \A i, j \in DOMAIN slots : i < j => slots[i] < slots[j]
        /\ \A i \in DOMAIN slots, c \in cursor : slots[i] < c
        /\ \A i \in DOMAIN slots, j \in DOMAIN merged :
                cursor = {} \/ j > 1 => slots[i] < wallClock[merged[j][1]]

(* The inductive invariant. *)
IndInv ==
    /\ TypeOK
    /\ Staged
    /\ WindowsApart
    /\ MinutesAccounted
    /\ GridFollowed
    /\ FoundInOrder
================================================================================
