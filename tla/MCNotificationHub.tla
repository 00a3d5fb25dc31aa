------------------------- MODULE MCNotificationHub -------------------------
(* Small instances of NotificationHub for TLC. *)
EXTENDS NotificationHub

CONSTANTS u1, u2, t1, t2, t3, w1, w2, w3

(* t3 is the only tab that may belong to somebody else. *)
MCOwnerOf == [t \in Tabs |-> IF t = t3 THEN u2 ELSE u1]

MCOneOwner == [t \in Tabs |-> u1]

=============================================================================
