------------------------------ MODULE MCBookingFlow ------------------------------
(* One service and one person, two days with one start each. *)
EXTENDS BookingFlow

CONSTANTS b1, s1, m1, d1, d2, t1, t2

MCOffered == {<<b1, s1, m1>>}
MCDayOf == [t \in {t1, t2} |-> IF t = t1 THEN d1 ELSE d2]
MCBefore == {[service |-> s1, staff |-> m1, start |-> t1]}
=================================================================================
