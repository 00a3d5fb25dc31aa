-------------------------- MODULE NotificationHub --------------------------
(***************************************************************************)
(* Real-time notifications: handlers/web/notifications.go over             *)
(* handlers/api/idle.go.                                                   *)
(*                                                                         *)
(* Every browser tab that opens /events subscribes a buffered channel.     *)
(* The first subscriber of a user starts a watcher goroutine with an IMAP  *)
(* connection of its own; the last one to leave closes its stop channel.   *)
(* The hub's mutex makes Subscribe, Unsubscribe, the copy in Broadcast and *)
(* the watcher's clean-up atomic; everything else runs outside it.         *)
(*                                                                         *)
(* A tab is one connection and a watcher one goroutine: neither comes      *)
(* back.  A connection starts at most one watcher: as many watchers as     *)
(* tabs are enough.                                                        *)
(***************************************************************************)
EXTENDS Integers, FiniteSets

CONSTANTS
    Users,
    Tabs,       \* connections to /events
    OwnerOf,    \* the user each tab is logged in as
    Watchers,   \* watcher goroutines, each with its stop channel
    Buffer,     \* capacity of a tab's channel
    MaxMail,    \* bound on the messages of an INBOX
    None

ASSUME HubAssumption ==
    /\ IsFiniteSet(Watchers)
    /\ OwnerOf \in [Tabs -> Users]
    /\ Buffer \in Nat \ {0} /\ MaxMail \in Nat
    /\ None \notin Watchers /\ None \notin Nat

VARIABLES
    mail,     \* messages in each user's INBOX, on the server
    subs,     \* NotificationHub.users[u].subs; {} when there is no entry
    stop,     \* NotificationHub.users[u].stop, by the watcher it stops
    closed,   \* watchers whose stop channel is closed
    tab,      \* the stream of a connection
    queue,    \* events in a tab's channel
    watch     \* the watcher goroutines

vars == <<mail, subs, stop, closed, tab, queue, watch>>

Watcher == [pc : {"none", "dial", "select", "watch", "fetch", "cast", "send",
                  "stuck", "end", "ended"},
            user : Users \cup {None},    \* whose subscribers it notifies
            ctx : BOOLEAN,               \* the request context it dials with is
                                 \* still that of the request
            box : Users \cup {None},     \* whose INBOX it has opened
            seen : Nat,                  \* prevCount
            report : Nat \cup {None},    \* an EXISTS not yet handled
            todo : Nat,                  \* messages to announce
            targets : SUBSET Tabs]       \* channels still to be offered one

Idle == [pc |-> "none", user |-> None, ctx |-> FALSE, box |-> None,
         seen |-> 0, report |-> None, todo |-> 0, targets |-> {}]

Init ==
    /\ mail = [u \in Users |-> 0]
    /\ subs = [u \in Users |-> {}]
    /\ stop = [u \in Users |-> None]
    /\ closed = {}
    /\ tab = [t \in Tabs |-> "off"]
    /\ queue = [t \in Tabs |-> 0]
    /\ watch = [w \in Watchers |-> Idle]

Go(w, label) == watch' = [watch EXCEPT ![w].pc = label]

Over(w) == [Idle EXCEPT !.pc = "ended", !.user = watch[w].user]

-----------------------------------------------------------------------------
(* Connections *)

StartAlways(u) == u \in Users
NeedsWatcher(u) == stop[u] = None

(* HandleSSE: a channel and Subscribe, which starts a watcher if the user  *)
(* has none.  Notifications.Idle is on: without it nothing happens here.   *)
Subscribe(t) ==
    LET u == OwnerOf[t]
    IN /\ tab[t] = "off"
       /\ tab' = [tab EXCEPT ![t] = "open"]
       /\ subs' = [subs EXCEPT ![u] = @ \cup {t}]
       /\ IF NeedsWatcher(u)
          THEN \E w \in Watchers :
                  /\ watch[w].pc = "none"
                  /\ watch' = [watch EXCEPT ![w] =
                        [Idle EXCEPT !.pc = "dial", !.user = u, !.ctx = TRUE]]
                  /\ stop' = [stop EXCEPT ![u] = w]
          ELSE UNCHANGED <<watch, stop>>
       /\ UNCHANGED <<mail, closed, queue>>

(* The stream writer takes an event and flushes it.  Only here can it      *)
(* learn that the browser is gone.                                         *)
Receive(t) ==
    /\ tab[t] = "open" /\ queue[t] > 0
    /\ queue' = [queue EXCEPT ![t] = @ - 1]
    /\ UNCHANGED tab \/ tab' = [tab EXCEPT ![t] = "leaving"]
    /\ UNCHANGED <<mail, subs, stop, closed, watch>>

(* Unsubscribe: the last one to leave stops the watcher, and the user's    *)
(* entry is deleted.                                                       *)
EveryLeaver(u, t) == t \in subs[u]
LastLeaver(u, t) == subs[u] \ {t} = {}

UnsubscribeKeepsEntry(t) ==
    LET u == OwnerOf[t]
    IN /\ tab[t] = "leaving"
       /\ tab' = [tab EXCEPT ![t] = "left"]
       /\ subs' = [subs EXCEPT ![u] = @ \ {t}]
       /\ closed' = IF LastLeaver(u, t) THEN closed \cup ({stop[u]} \ {None})
                    ELSE closed
       /\ UNCHANGED <<mail, stop, queue, watch>>
Unsubscribe(t) ==
    LET u == OwnerOf[t]
    IN /\ tab[t] = "leaving"
       /\ tab' = [tab EXCEPT ![t] = "left"]
       /\ subs' = [subs EXCEPT ![u] = @ \ {t}]
       /\ IF LastLeaver(u, t)
          THEN /\ closed' = closed \cup ({stop[u]} \ {None})
               /\ stop' = [stop EXCEPT ![u] = None]
          ELSE UNCHANGED <<closed, stop>>
       /\ UNCHANGED <<mail, queue, watch>>

-----------------------------------------------------------------------------
(* The watcher: runWatcher and WatchInbox *)

(* HandleSSE returns at once, the stream writer going on without it, and   *)
(* the context of the request goes back to the pool.                       *)
Release(w) ==
    /\ watch[w].pc = "dial" /\ watch[w].ctx
    /\ watch' = [watch EXCEPT ![w].ctx = FALSE]
    /\ UNCHANGED <<mail, subs, stop, closed, tab, queue>>

(* CreateIMAPClient reads the session from that context, in the watcher's  *)
(* goroutine: a released context may serve another request by now, and     *)
(* yield the session of another user.                                      *)
Dial(w) ==
    /\ watch[w].pc = "dial"
    /\ \/ \E b \in Users :
             /\ watch[w].ctx => b = watch[w].user
             /\ watch' = [watch EXCEPT ![w].pc = "select", ![w].ctx = FALSE,
                                       ![w].box = b]
       \/ Go(w, "end")
    /\ UNCHANGED <<mail, subs, stop, closed, tab, queue>>

(* Or it is empty: the goroutine panics, and the process dies with every   *)
(* connection and every watcher.                                           *)
DialPanics(w) ==
    /\ watch[w].pc = "dial" /\ ~watch[w].ctx
    /\ subs' = [u \in Users |-> {}]
    /\ stop' = [u \in Users |-> None]
    /\ tab' = [t \in Tabs |-> IF tab[t] = "off" THEN "off" ELSE "left"]
    /\ queue' = [t \in Tabs |-> 0]
    /\ watch' = [v \in Watchers |->
                    IF watch[v].pc = "none" THEN Idle ELSE Over(v)]
    /\ UNCHANGED <<mail, closed>>

(* SELECT INBOX tells how many messages there are. *)
Select(w) ==
    /\ watch[w].pc = "select"
    /\ \/ watch' = [watch EXCEPT ![w].pc = "watch",
                                 ![w].seen = mail[watch[w].box]]
       \/ Go(w, "end")
    /\ UNCHANGED <<mail, subs, stop, closed, tab, queue>>

(* The server says how many there are now. *)
Report(w) ==
    /\ watch[w].pc \in {"watch", "fetch", "cast", "send"}
    /\ watch[w].report = None
    /\ watch' = [watch EXCEPT ![w].report = mail[watch[w].box]]
    /\ UNCHANGED <<mail, subs, stop, closed, tab, queue>>

(* A mailbox update: FETCH what is new, if there is more than before. *)
Differs(new, old) == new # old
Grown(new, old) == new > old

Update(w) ==
    LET new == watch[w].report
    IN /\ watch[w].pc = "watch" /\ new # None
       /\ watch' = [watch EXCEPT
              ![w].report = None,
              ![w].seen = new,
              ![w].todo = IF Grown(new, watch[w].seen)
                          THEN new - watch[w].seen ELSE 0,
              ![w].pc = IF Grown(new, watch[w].seen) THEN "fetch" ELSE "watch"]
       /\ UNCHANGED <<mail, subs, stop, closed, tab, queue>>

(* The server answers with some of them, or with an error. *)
Fetch(w) ==
    /\ watch[w].pc = "fetch"
    /\ \E n \in 0..watch[w].todo :
          watch' = [watch EXCEPT ![w].todo = n,
                                 ![w].pc = IF n = 0 THEN "watch" ELSE "cast"]
    /\ UNCHANGED <<mail, subs, stop, closed, tab, queue>>

(* More updates come than the channel of sixteen holds, which nobody reads *)
(* during a FETCH: the connection's reader waits for room, and the answer  *)
(* of the FETCH behind them is never read.                                 *)
Clog(w) ==
    /\ watch[w].pc = "fetch"
    /\ Go(w, "stuck")
    /\ UNCHANGED <<mail, subs, stop, closed, tab, queue>>

(* An announcement with the channels ts still to be offered the event. *)
Announcing(w, ts) ==
    \/ /\ ts # {}
       /\ watch' = [watch EXCEPT ![w].pc = "send", ![w].targets = ts]
    \/ /\ ts = {}
       /\ watch' = [watch EXCEPT
              ![w].pc = IF watch[w].todo = 1 THEN "watch" ELSE "cast",
              ![w].todo = @ - 1,
              ![w].targets = {}]

(* Broadcast: copy the subscribers, then offer each of them the event. *)
Copy(w) ==
    /\ watch[w].pc = "cast"
    /\ Announcing(w, subs[watch[w].user])
    /\ UNCHANGED <<mail, subs, stop, closed, tab, queue>>

(* A channel that is full is skipped. *)
OfferWaiting(t) == queue[t] < Buffer /\ queue' = [queue EXCEPT ![t] = @ + 1]
Offer(t) == queue' = [queue EXCEPT ![t] = IF @ < Buffer THEN @ + 1 ELSE @]

Send(w) ==
    /\ watch[w].pc = "send"
    /\ \E t \in watch[w].targets :
          Offer(t) /\ Announcing(w, watch[w].targets \ {t})
    /\ UNCHANGED <<mail, subs, stop, closed, tab>>

(* Between two updates the watcher sees that it was stopped, *)
SeeStop(w) ==
    /\ watch[w].pc = "watch" /\ w \in closed
    /\ Go(w, "end")
    /\ UNCHANGED <<mail, subs, stop, closed, tab, queue>>

(* or that its connection is gone. *)
Disconnect(w) ==
    /\ watch[w].pc = "watch"
    /\ Go(w, "end")
    /\ UNCHANGED <<mail, subs, stop, closed, tab, queue>>

(* The clean-up clears the stop channel of the user's entry, whichever     *)
(* watcher it belongs to.                                                  *)
EndWithoutReset(w) ==
    /\ watch[w].pc = "end"
    /\ watch' = [watch EXCEPT ![w] = Over(w)]
    /\ UNCHANGED <<mail, subs, stop, closed, tab, queue>>
End(w) ==
    /\ watch[w].pc = "end"
    /\ watch' = [watch EXCEPT ![w] = Over(w)]
    /\ stop' = [stop EXCEPT ![watch[w].user] = None]
    /\ UNCHANGED <<mail, subs, closed, tab, queue>>

-----------------------------------------------------------------------------
(* The mailbox, which others fill and empty *)

Arrive(u) ==
    /\ mail[u] < MaxMail
    /\ mail' = [mail EXCEPT ![u] = @ + 1]
    /\ UNCHANGED <<subs, stop, closed, tab, queue, watch>>

Expunge(u) ==
    /\ mail[u] > 0
    /\ mail' = [mail EXCEPT ![u] = @ - 1]
    /\ UNCHANGED <<subs, stop, closed, tab, queue, watch>>

Connection(t) == Subscribe(t) \/ Receive(t) \/ Unsubscribe(t)

Run(w) == Dial(w) \/ Select(w) \/ Update(w) \/ Fetch(w) \/ Copy(w)
              \/ Send(w) \/ End(w)

Next == \/ \E t \in Tabs : Connection(t)
        \/ \E w \in Watchers : \/ Run(w) \/ SeeStop(w)
                               \/ Release(w) \/ DialPanics(w) \/ Report(w) \/ Disconnect(w)
                               \/ Clog(w)
        \/ \E u \in Users : Arrive(u) \/ Expunge(u)

Spec == Init /\ [][Next]_vars

(* Goroutines are scheduled and calls to the mail server return (Go's      *)
(* dialer keeps connections alive, so a dead peer is an error), but for a  *)
(* FETCH that Clog has overtaken.  A select with two ready cases picks one *)
(* at random, so a closed stop channel is not overlooked for ever.         *)
(* Nothing is assumed of browsers: a tab need not read.                    *)
Fairness == \A w \in Watchers : WF_vars(Run(w)) /\ SF_vars(SeeStop(w))

FairSpec == Spec /\ Fairness

-----------------------------------------------------------------------------
(* Properties *)

Running(w) == watch[w].pc \notin {"none", "ended"}
Orphans(u) == {w \in Watchers : /\ Running(w) /\ watch[w].user = u
                                /\ w \notin closed /\ stop[u] # w}

(* The types.  A watcher that is busy announcing has a positive number of  *)
(* messages left: newCount - prevCount is unsigned in fetchEnvelopes, and  *)
(* it sizes a channel.                                                     *)
TypeOK ==
    /\ mail \in [Users -> Nat]
    /\ subs \in [Users -> SUBSET Tabs]
    /\ stop \in [Users -> Watchers \cup {None}]
    /\ closed \subseteq Watchers
    /\ tab \in [Tabs -> {"off", "open", "leaving", "left"}]
    /\ queue \in [Tabs -> 0..Buffer]
    /\ watch \in [Watchers -> Watcher]

(* Unsubscribe never closes a channel twice: the stop channel it finds in  *)
(* a user's entry is open.  A second close would panic under the mutex.    *)
NoDoubleClose == \A u \in Users : stop[u] \notin closed

(* "non-nil when a watcher goroutine is running" (notifications.go:51):    *)
(* the stop channel of a user's entry belongs to a watcher of that user    *)
(* that has not ended, so that a new tab is right to start none.           *)
MarkIsLive ==
    \A u \in Users : stop[u] # None =>
        Running(stop[u]) /\ watch[stop[u]].user = u

(* A watcher that runs, was not told to stop and is in nobody's entry can  *)
(* only be stopped by its connection: it goes on announcing every message, *)
(* beside the watcher that replaces it.  Each costs the life of another:   *)
(* there are no more of them than watchers of that user that have ended.   *)
OrphansAccounted ==
    \A u \in Users :
        Cardinality(Orphans(u)) <=
            Cardinality({w \in Watchers : watch[w].pc = "ended"
                                              /\ watch[w].user = u})

(* A tab that closes does not silence the others: a watcher is told to     *)
(* stop only when none of its user's tabs is left in the hub.              *)
LeaverStopsNobody ==
    [][\A w \in closed' \ closed : subs'[watch[w].user] = {}]_vars

(* A watcher whose stop channel is closed ends, whatever it is doing: slow *)
(* tabs, mail that keeps coming and connections that fail included; unless *)
(* more updates than its channel holds came while it waited for a FETCH.   *)
StoppedWatcherEnds ==
    \A w \in Watchers : w \in closed ~> watch[w].pc \in {"ended", "stuck"}

(* "When the last subscriber leaves the watcher goroutine is signalled to  *)
(* stop" (notifications.go:105): a watcher that still watches and was not  *)
(* told to stop has somebody to notify.  It does not hold: the clean-up of *)
(* an earlier watcher forgets the stop channel of a later one.             *)
LastLeaverStopsWatcher ==
    \A w \in Watchers :
        Running(w) /\ watch[w].pc # "end" /\ w \notin closed
            => subs[watch[w].user] # {}

(* "after the function returns the watcher goroutine no longer needs the   *)
(* fiber context" (notifications.go:83-84): the INBOX a watcher opens is   *)
(* its user's.  It does not hold: the goroutine reads the session from the *)
(* context after the handler gave it back.                                 *)
WatchesOwnInbox ==
    \A w \in Watchers : watch[w].box \in {None, watch[w].user}

=============================================================================
