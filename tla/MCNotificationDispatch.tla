---------------------- MODULE MCNotificationDispatch ----------------------
(* Instances of NotificationDispatch small enough for TLC: an event for    *)
(* one user and an event for two.                                          *)
EXTENDS NotificationDispatch

MCDeliveries == {"d1", "d2"}
MCUsers == {"u1", "u2"}
MCTargets == [d \in MCDeliveries |-> IF d = "d1" THEN {"u1"} ELSE MCUsers]
===========================================================================
