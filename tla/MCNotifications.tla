---------------------------- MODULE MCNotifications ----------------------------
(***************************************************************************)
(* Small instances of Notifications for TLC.                               *)
(***************************************************************************)
EXTENDS NotificationsInvariant, TLC

CONSTANTS r1, p1, worker

(* An active booking, one to be made and a cancelled one, or two active    *)
(* ones.                                                                   *)
TwoStarts == {<<"active", "none", "cancelled">>, <<"none", "active", "active">>}
=============================================================================
