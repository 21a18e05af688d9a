------------------------------ MODULE MCSlotScan ------------------------------
(***************************************************************************)
(* Small instances of SlotScan for TLC.                                    *)
(***************************************************************************)
EXTENDS SlotScanInvariant

(* Two minutes of the model are the hour that daylight saving moves. *)
PlainDay == [m \in 0..DayLength |-> m]

(* In autumn the hour that ends at minute 3 is repeated, and a wall-clock  *)
(* time in it means its first occurrence (fold=0).                         *)
AutumnDay == [m \in 0..DayLength |-> IF m < 3 THEN m ELSE m + 2]

(* In spring minutes 2 and 3 do not exist and are read with the offset of  *)
(* before the change.                                                      *)
SpringDay == [m \in 0..DayLength |-> IF m < 4 THEN m ELSE m - 2]

AllDays == {PlainDay, AutumnDay, SpringDay}

(* A booking may reach into the day from the one before. *)
BusyTimes == {-1, 1, 3}
=============================================================================
