----------------------------- MODULE MCBookings -----------------------------
(***************************************************************************)
(* Small instances of Bookings for TLC.                                    *)
(***************************************************************************)
EXTENDS BookingsInvariant, TLC

CONSTANTS r1, r2, r3, b1, b2, b3, alice, cut, colour

TwoRequests == {r1, r2}
ThreeRequests == {r1, r2, r3}
TwoBookings == {b1, b2}
ThreeBookings == {b1, b2, b3}

(* One staff member offers a short and a long service. *)
OneStaff == {alice}
TwoServices == {cut, colour}
AllOffered == OneStaff \X TwoServices
ColourOffered == OneStaff \X {colour}
CutOffered == OneStaff \X {cut}
ShortAndLong == [s \in Service |-> IF s = colour THEN 2 ELSE 1]

(* She works all day. *)
AllDay == [s \in OneStaff |-> {<<0, DayLength>>}]

RequestSymmetry == Permutations(ThreeRequests) \cup Permutations(ThreeBookings)
=============================================================================
