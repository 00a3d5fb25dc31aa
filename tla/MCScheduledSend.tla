-------------------------- MODULE MCScheduledSend --------------------------
(* Small instances of ScheduledSend for TLC. *)
EXTENDS ScheduledSend, TLC

CONSTANTS a1, a2, i1, i2, i3, n1, n2, h1, h2, plain, poison

(* Every handler runs in the first node. *)
MCHost == [h \in Handlers |-> n1]

(* a1 is the prefix of a2's keys, as the account "x" is of "x|y"'s. *)
MCReach == [a \in Accounts |-> IF a = a1 THEN Accounts ELSE {a}]

(* Ids are opaque, and so are handlers of one node. *)
MCSymmetry == Permutations(Ids) \cup Permutations(Handlers)

=============================================================================
