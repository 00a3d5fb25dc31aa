------------------------------ MODULE PushStore ------------------------------
(***************************************************************************)
(* The Web Push subscriptions of one user (handlers/web/push.go and        *)
(* pushstore.go): browsers save and remove them, and each new mail starts  *)
(* a goroutine that lists them, sends to one after the other, and removes  *)
(* those the push service calls gone.  Subscriptions are kept under their  *)
(* endpoint, cut after 512 bytes, in push.db of the user's cache folder,   *)
(* whose handle stays open for the life of the process.  A logout removes  *)
(* the files of that folder (handlers/web/auth.go, clearUserCache),        *)
(* whatever handles are open.                                              *)
(***************************************************************************)
EXTENDS FiniteSets

CONSTANTS
    Endpoints,
    Key,        \* subscriptionKey: [Endpoints -> keys]
    Senders,    \* goroutines of SendPush
    None

VARIABLES
    subs,       \* [key |-> the endpoint stored in the file]
    handle,     \* openDBs[user]: "none", or a file that is "linked" or "cut"
    alive,      \* endpoints the push service accepts
    sender      \* [sender |-> the listed endpoints it has not tried]

pvars == <<subs, handle, alive, sender>>

Keys == {Key[e] : e \in Endpoints}

Nothing == [k \in Keys |-> None]

TypeOK ==
    /\ subs \in [Keys -> Endpoints \cup {None}]
    /\ handle \in {"none", "linked", "cut"}
    /\ alive \subseteq Endpoints
    /\ \A s \in Senders : sender[s] = None \/ sender[s] \subseteq Endpoints

Init ==
    /\ subs = Nothing /\ handle = "none"
    /\ alive = Endpoints
    /\ sender = [s \in Senders |-> None]

(* db: the cached handle, the file behind it removed or not, or the file,  *)
(* made if need be.                                                        *)
Open == handle' = IF handle = "none" THEN "linked" ELSE handle

Holds(e) == subs[Key[e]] = e

(* HandleSubscribe, Save *)
Subscribe ==
    /\ \E e \in alive : subs' = [subs EXCEPT ![Key[e]] = e]
    /\ Open
    /\ UNCHANGED <<alive, sender>>

Removed(e) == [subs EXCEPT ![Key[e]] = None]

(* HandleUnsubscribe, Delete: the browser drops the endpoint as well.      *)
Unsubscribe ==
    /\ \E e \in alive : subs' = Removed(e) /\ alive' = alive \ {e}
    /\ Open
    /\ UNCHANGED sender

Listed == {subs[k] : k \in Keys} \ {None}

(* SendPush starts with All. *)
SendPush(s) ==
    /\ sender[s] = None
    /\ sender' = [sender EXCEPT ![s] = Listed]
    /\ Open
    /\ UNCHANGED <<subs, alive>>

Tried(s, e) ==
    sender' = [sender EXCEPT ![s] = IF @ = {e} THEN None ELSE @ \ {e}]

NoneListed(s) ==
    /\ sender[s] = {}
    /\ sender' = [sender EXCEPT ![s] = None]
    /\ UNCHANGED <<subs, handle, alive>>

(* Sent, or failed for a reason other than 410 Gone. *)
Send(s) ==
    /\ sender[s] # None
    /\ \E e \in sender[s] : Tried(s, e)
    /\ UNCHANGED <<subs, handle, alive>>

(* A sender that removes what it could not send to. *)
SendGoneOrFailed(s) ==
    /\ sender[s] # None
    /\ \E e \in sender[s] : subs' = Removed(e) /\ Tried(s, e)
    /\ Open
    /\ UNCHANGED alive

(* 410 Gone: whatever is stored under that key now is deleted.             *)
SendGone(s) ==
    /\ sender[s] # None
    /\ \E e \in sender[s] \ alive : subs' = Removed(e) /\ Tried(s, e)
    /\ Open
    /\ UNCHANGED alive

(* The push service ends a subscription. *)
Expire ==
    /\ \E e \in alive : alive' = alive \ {e}
    /\ UNCHANGED <<subs, handle, sender>>

(* clearUserCache: the file goes; an open handle keeps what it holds.      *)
Logout ==
    /\ IF handle = "none" THEN subs' = Nothing /\ UNCHANGED handle
                          ELSE handle' = "cut" /\ UNCHANGED subs
    /\ UNCHANGED <<alive, sender>>

Restart ==
    /\ subs' = IF handle = "cut" THEN Nothing ELSE subs
    /\ handle' = "none"
    /\ sender' = [s \in Senders |-> None]
    /\ UNCHANGED alive

Next ==
    \/ Subscribe \/ Unsubscribe \/ Expire \/ Logout \/ Restart
    \/ \E s \in Senders : SendPush(s) \/ NoneListed(s) \/ Send(s) \/ SendGone(s)

Spec == Init /\ [][Next]_pvars

Shares(e) == {f \in Endpoints \ {e} : Key[f] = Key[e]} # {}

(* "Expired/invalid subscriptions (HTTP 410 Gone) are removed from the     *)
(* store automatically" (push.go:85): and no others.  A subscription the   *)
(* push service still takes is lost only when another endpoint has the     *)
(* same key, or when a logout has removed its file: at once, or when the   *)
(* process ends that still had it open.                                    *)
OnlyGoneIsRemoved ==
    [][\A e \in Endpoints :
          Holds(e) /\ subs'[Key[e]] # e =>
             \/ e \notin alive'
             \/ Shares(e)
             \/ handle' = "none" /\ subs' = Nothing]_pvars

=============================================================================
