------------------------------- MODULE Outbox -------------------------------
(***************************************************************************)
(* What scheduled send promises, without store calls, drains or requests:  *)
(* an outbox of messages that several workers may take in hand at the same *)
(* time.  Taking a message excludes nobody.  A message is only delivered,  *)
(* put back or removed by a worker that has it in hand, and it is only     *)
(* removed for a reason.                                                   *)
(***************************************************************************)
EXTENDS Naturals

CONSTANTS Messages, Workers, Budget

VARIABLES
    known,   \* messages that were ever issued
    held,    \* messages the outbox holds
    hands,   \* what each worker has in hand
    copies,  \* copies delivered
    tries,   \* failed deliveries
    waived   \* messages the outbox no longer answers for

vars == <<known, held, hands, copies, tries, waived>>

Init == /\ known = {} /\ held = {} /\ waived = {}
        /\ hands = [w \in Workers |-> {}]
        /\ copies = [m \in Messages |-> 0]
        /\ tries = [m \in Messages |-> 0]

Removable(m) == copies[m] > 0 \/ tries[m] >= Budget \/ m \in waived

(* A new message, in the hand of the worker that will put it. *)
Issue(w, m) ==
    /\ m \notin known
    /\ known' = known \cup {m}
    /\ hands' = [hands EXCEPT ![w] = @ \cup {m}]
    /\ UNCHANGED <<held, copies, tries, waived>>

(* A worker takes messages the outbox holds. *)
Take(w, S) ==
    /\ S \subseteq held
    /\ hands' = [hands EXCEPT ![w] = @ \cup S]
    /\ UNCHANGED <<known, held, copies, tries, waived>>

(* It puts one in the outbox, for the first time or again. *)
PutBack(w, m) ==
    /\ m \in hands[w]
    /\ held' = held \cup {m}
    /\ hands' = [hands EXCEPT ![w] = @ \ {m}]
    /\ waived' \in {waived, waived \cup {m}}
    /\ UNCHANGED <<known, copies, tries>>

Deliver(w, m) ==
    /\ m \in hands[w]
    /\ copies' = [copies EXCEPT ![m] = @ + 1]
    /\ UNCHANGED <<known, held, hands, tries, waived>>

Miss(w, m) ==
    /\ m \in hands[w]
    /\ tries' = [tries EXCEPT ![m] = @ + 1]
    /\ UNCHANGED <<known, held, hands, copies, waived>>

(* The outbox stops answering for a message in some worker's hand. *)
Waive(w, m) ==
    /\ m \in hands[w]
    /\ waived' = waived \cup {m}
    /\ UNCHANGED <<known, held, hands, copies, tries>>

(* A worker removes a message; it may waive it in the same step. *)
Remove(w, m) ==
    /\ m \in hands[w]
    /\ m \in held => Removable(m) \/ m \in waived'
    /\ held' = held \ {m}
    /\ hands' = [hands EXCEPT ![w] = @ \ {m}]
    /\ waived' \in {waived, waived \cup {m}}
    /\ UNCHANGED <<known, copies, tries>>

(* Workers let go of what they have: a call that failed, a crash. *)
LetGo ==
    /\ hands' \in [Workers -> SUBSET known]
    /\ \A w \in Workers : hands'[w] \subseteq hands[w]
    /\ UNCHANGED <<known, held, copies, tries, waived>>

Next == \/ \E w \in Workers, m \in Messages :
              \/ Issue(w, m) \/ PutBack(w, m) \/ Deliver(w, m)
              \/ Miss(w, m) \/ Waive(w, m) \/ Remove(w, m)
        \/ \E w \in Workers, S \in SUBSET Messages : Take(w, S)
        \/ LetGo

Spec == Init /\ [][Next]_vars

=============================================================================
