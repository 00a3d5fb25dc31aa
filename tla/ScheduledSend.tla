--------------------------- MODULE ScheduledSend ---------------------------
(***************************************************************************)
(* Scheduled send ("send later"): handlers/jsonapi/schedule.go and         *)
(* schedule_store.go over the storage.KV seam.                             *)
(*                                                                         *)
(* HTTP handlers create, cancel and edit records in a durable key-value    *)
(* store while one drain goroutine per server process scans the store and  *)
(* sends what is due over SMTP.  A single KV operation is atomic; nothing  *)
(* makes two of them atomic together, so every handler and the drain are   *)
(* modelled one KV operation at a time.                                    *)
(*                                                                         *)
(* Nodes are server processes (one with the bbolt backend, several may     *)
(* share the postgres backend); each has one drain.  A handler runs inside *)
(* a node and dies with it.                                                *)
(***************************************************************************)
EXTENDS Integers, FiniteSets

CONSTANTS
    Accounts,       \* mailbox identities that own records
    Ids,            \* values newScheduleID can return
    Nodes,          \* server processes, each with one drain goroutine
    Handlers,       \* concurrent HTTP requests
    Host,           \* the node a handler runs in
    Bodies,         \* message contents
    Poison,         \* contents BuildMIMEMessage refuses (header injection)
    Times,          \* instants a client may ask for
    OAuthAccounts,  \* accounts whose transport carries a short-lived token
    Reach,          \* Reach[a]: owners whose keys start with "a|", or are
                    \* spelt by a and an id of the client's choice
    Stoppable,      \* nodes whose scheduler may be stopped
    MaxPending,     \* maxPendingPerAccount
    MaxAttempts,    \* maxSendAttempts
    Grace,          \* tolerance of parseFutureSendAt for a past instant
    Horizon,        \* scheduleHorizon
    OAuthHorizon,   \* oauthScheduleHorizon
    MaxTime, MaxRequests, MaxTroubles, MaxRotations, \* bounds
    None            \* an absent record or job

Keys == Accounts \X Ids
Procs == Nodes \cup Handlers

(* scheduledSend: the fields control depends on.  enc names the encryption *)
(* key the transport secret is stored under.                               *)
Record == [account : Accounts, sendAt : Nat, body : Bodies, enc : Nat,
           attempts : Nat]

Job == [key : Keys, rec : Record]

ASSUME ProcAssumption ==
    /\ Nodes \cap Handlers = {}
    /\ IsFiniteSet(Nodes) /\ IsFiniteSet(Handlers)
    /\ Host \in [Handlers -> Nodes]
    /\ Stoppable \subseteq Nodes

ASSUME DataAssumption ==
    /\ IsFiniteSet(Accounts) /\ IsFiniteSet(Ids)
    /\ Poison \subseteq Bodies
    /\ Times \subseteq Nat
    /\ Reach \in [Accounts -> SUBSET Accounts]
    /\ \A a \in Accounts : a \in Reach[a]
    /\ None \notin Record /\ None \notin Job
    /\ None \notin Accounts

ASSUME NumberAssumption ==
    /\ MaxPending \in Nat \ {0} /\ MaxAttempts \in Nat \ {0}
    /\ Grace \in Nat /\ Horizon \in Nat /\ OAuthHorizon \in Nat
    /\ MaxTime \in Nat /\ MaxRequests \in Nat
    /\ MaxTroubles \in Nat /\ MaxRotations \in Nat

VARIABLES
    now,       \* the wall clock
    store,     \* namespace "scheduled_sends": key -> record or None
    pc,        \* where each drain and each handler is
    job,       \* the record each of them holds in memory
    batch,     \* what a drain has listed as due and not yet fired
    req,       \* the account and the operation of a handler's request
    stopping,  \* scheduler.Stop was called on the node
    encKey,    \* config.Encryption.Key of each node
    spent,     \* requests, faults and crashes so far (bounded)
    log        \* history per key: what the world outside has seen

vars == <<now, store, pc, job, batch, req, stopping, encKey, spent, log>>

NodeLabels == {"off", "boot", "idle", "fire", "smtp", "accepted", "done",
               "drop", "putGet", "putList", "putSet", "stopped"}
HandlerLabels == {"idle", "del", "putGet", "putList", "putSet"}

NoReq == [op |-> "none", account |-> None]

(* What is known of a key outside the store: it was issued; it was         *)
(* promised (202); it was cancelled (204); an unbuildable body was stored; *)
(* a retry could not be persisted; copies the SMTP server accepted; sends  *)
(* that failed; failed sends of which the server had accepted the message; *)
(* edits stored.                                                           *)
Log == [issued : BOOLEAN, promised : BOOLEAN, cancelled : BOOLEAN,
        poisoned : BOOLEAN, unpersisted : BOOLEAN,
        delivered : Nat, failures : Nat, lost : Nat, edits : Nat]

NoLog == [issued |-> FALSE, promised |-> FALSE, cancelled |-> FALSE,
          poisoned |-> FALSE, unpersisted |-> FALSE,
          delivered |-> 0, failures |-> 0, lost |-> 0, edits |-> 0]

Init ==
    /\ now = 0
    /\ store = [k \in Keys |-> None]
    /\ pc = [p \in Procs |-> IF p \in Nodes THEN "boot" ELSE "idle"]
    /\ job = [p \in Procs |-> None]
    /\ batch = [n \in Nodes |-> {}]
    /\ req = [h \in Handlers |-> NoReq]
    /\ stopping = [n \in Nodes |-> FALSE]
    /\ encKey = [n \in Nodes |-> 0]
    /\ spent = [requests |-> 0, faults |-> 0, crashes |-> 0]
    /\ log = [k \in Keys |-> NoLog]

-----------------------------------------------------------------------------
(* Helpers *)

Stored(k) == store[k] # None

(* scheduleStore.Get: the key addressed by (account, id), if its record    *)
(* belongs to the account.                                                 *)
Addressed(a, k) == k[1] \in Reach[a] /\ Stored(k)
Owned(a, k) == Addressed(a, k) /\ store[k].account = a

(* scheduleStore.List: prefix match, then the owner is verified again.     *)
PendingOf(a) == {k \in Keys : Owned(a, k)}

(* newScheduleID: 128 random bits, no account has seen them before. *)
ReusableId(id) == \A a \in Accounts : ~Stored(<<a, id>>)
FreshId(id) == \A a \in Accounts : ~log[<<a, id>>].issued

(* The quota, checked for a key that is not stored yet. *)
AnyRoom(a) == a \in Accounts
HasRoom(a) == Cardinality(PendingOf(a)) < MaxPending

(* parseFutureSendAt. *)
ValidSendAt(t) == t + Grace >= now /\ t <= now + Horizon

Busy(n) == pc[n] \notin {"off", "stopped"}

Goto(p, label) == pc' = [pc EXCEPT ![p] = label]

Trouble == spent.faults + spent.crashes < MaxTroubles

(* A store call that returns an error. *)
KVFault ==
    /\ Trouble
    /\ spent' = [spent EXCEPT !.faults = @ + 1]

Request(h, op, a) ==
    /\ pc[h] = "idle" /\ pc[Host[h]] # "off"
    /\ spent.requests < MaxRequests
    /\ spent' = [spent EXCEPT !.requests = @ + 1]
    /\ req' = [req EXCEPT ![h] = [op |-> op, account |-> a]]

(* A call returns: a handler answers, the drain goes on with its batch, or *)
(* on a failed Put drops the record.                                       *)
Return(p) ==
    /\ job' = [job EXCEPT ![p] = None]
    /\ IF p \in Nodes
       THEN Goto(p, "fire") /\ UNCHANGED req
       ELSE Goto(p, "idle") /\ req' = [req EXCEPT ![p] = NoReq]

PutFailed(p) ==
    IF p \in Nodes
    THEN Goto(p, "drop") /\ UNCHANGED <<job, req>>
    ELSE Return(p)

-----------------------------------------------------------------------------
(* HTTP handlers *)

(* scheduleSend up to the call of Put.  Only here is the OAuth horizon     *)
(* checked.                                                                *)
Create(h) ==
    \E k \in Keys, t \in Times, b \in Bodies :
        /\ Request(h, "create", k[1])
        /\ FreshId(k[2])
        /\ ValidSendAt(t)
        /\ k[1] \in OAuthAccounts => t <= now + OAuthHorizon
        /\ job' = [job EXCEPT ![h] =
               [key |-> k,
                rec |-> [account |-> k[1], sendAt |-> t, body |-> b,
                         enc |-> encKey[Host[h]], attempts |-> 0]]]
        /\ log' = [log EXCEPT ![k].issued = TRUE]
        /\ Goto(h, "putGet")
        /\ UNCHANGED <<now, store, batch, stopping, encKey>>

(* handleCancelScheduled: Get, then Delete.  A miss is a 404 and changes   *)
(* nothing.                                                                *)
CancelGet(h) ==
    \E a \in Accounts, k \in Keys :
        /\ Request(h, "cancel", a)
        /\ Owned(a, k)
        /\ job' = [job EXCEPT ![h] = [key |-> k, rec |-> store[k]]]
        /\ Goto(h, "del")
        /\ UNCHANGED <<now, store, batch, stopping, encKey, log>>

(* handlePatchScheduled: Get, edit in memory, then Put.  The instant is    *)
(* kept or re-validated; attempts and the stored secret are kept.          *)
Instants(k) == {store[k].sendAt} \cup {t \in Times : ValidSendAt(t)}
Edited(k, t, b) == [store[k] EXCEPT !.sendAt = t, !.body = b]
PatchGet(h) ==
    \E a \in Accounts, k \in Keys :
        /\ Request(h, "patch", a)
        /\ Owned(a, k)
        /\ \E b \in Bodies, t \in Instants(k) :
              job' = [job EXCEPT ![h] = [key |-> k, rec |-> Edited(k, t, b)]]
        /\ Goto(h, "putGet")
        /\ UNCHANGED <<now, store, batch, stopping, encKey, log>>

-----------------------------------------------------------------------------
(* scheduleStore.Put, called by create, patch and the drain's retry *)

(* Does the key exist?  An error other than ErrNotFound skips the quota.   *)
PutGet(p) ==
    /\ pc[p] = "putGet"
    /\ \/ Goto(p, IF Stored(job[p].key) THEN "putSet" ELSE "putList")
          /\ UNCHANGED spent
       \/ Goto(p, "putSet") /\ KVFault
    /\ UNCHANGED <<now, store, job, batch, req, stopping, encKey, log>>

(* A new key: is there room for it in the account's quota? *)
PutList(p) ==
    /\ pc[p] = "putList"
    /\ \/ /\ HasRoom(job[p].rec.account)
          /\ Goto(p, "putSet")
          /\ UNCHANGED <<job, req, spent, log>>
       \/ /\ ~HasRoom(job[p].rec.account)
          /\ PutFailed(p)
          /\ UNCHANGED <<spent, log>>
       \/ /\ KVFault
          /\ PutFailed(p)
          /\ log' = [log EXCEPT ![job[p].key].unpersisted = @ \/ p \in Nodes]
    /\ UNCHANGED <<now, store, batch, stopping, encKey>>

(* A stored request enters the history of its key. *)
Promised(l, r, edit) ==
    [l EXCEPT !.promised = TRUE,
              !.poisoned = @ \/ r.body \in Poison,
              !.edits = @ + edit]

(* The write itself.  A request's success is its acknowledgement. *)
PutSet(p) ==
    /\ pc[p] = "putSet"
    /\ LET k == job[p].key
           r == job[p].rec
       IN \/ /\ store' = [store EXCEPT ![k] = r]
             /\ log' = IF p \in Nodes THEN log
                       ELSE [log EXCEPT ![k] =
                               Promised(@, r, IF req[p].op = "patch"
                                              THEN 1 ELSE 0)]
             /\ Return(p)
             /\ UNCHANGED spent
          \/ /\ KVFault
             /\ PutFailed(p)
             /\ log' = [log EXCEPT ![k].unpersisted = @ \/ p \in Nodes]
             /\ UNCHANGED store
    /\ UNCHANGED <<now, batch, stopping, encKey>>

(* scheduleStore.Delete: a cancel, a drop, or the clean-up after a send.   *)
(* The drain only logs an error of it.                                     *)
Delete(p) ==
    /\ pc[p] \in {"del", "drop", "done"}
    /\ \/ /\ store' = [store EXCEPT ![job[p].key] = None]
          /\ log' = [log EXCEPT ![job[p].key].cancelled = @ \/ pc[p] = "del"]
          /\ UNCHANGED spent
       \/ KVFault /\ UNCHANGED <<store, log>>
    /\ Return(p)
    /\ UNCHANGED <<now, batch, stopping, encKey>>

-----------------------------------------------------------------------------
(* The drain *)

DueKeys == {k \in Keys : Stored(k) /\ store[k].sendAt <= now}

(* Start: a pass at boot, then one at every tick of the poll loop. *)
AtBoot(n) == pc[n] = "boot"
AtPoll(n) == pc[n] \in {"boot", "idle"}

(* drainDue: list everything due now. *)
Poll(n) ==
    /\ AtPoll(n)
    /\ batch' = [batch EXCEPT ![n] =
                    {[key |-> k, rec |-> store[k]] : k \in DueKeys}]
    /\ Goto(n, "fire")
    /\ UNCHANGED <<now, store, job, req, stopping, encKey, spent, log>>

(* The list could not be read: this pass does nothing. *)
PollFault(n) ==
    /\ AtPoll(n)
    /\ KVFault
    /\ Goto(n, "idle")
    /\ UNCHANGED <<now, store, job, batch, req, stopping, encKey, log>>

PassDone(n) ==
    /\ pc[n] = "fire" /\ batch[n] = {}
    /\ Goto(n, "idle")
    /\ UNCHANGED <<now, store, job, batch, req, stopping, encKey, spent, log>>

(* fire, up to the dialogue with the server: soonest due first.  A secret  *)
(* that does not decrypt leaves the record for the next pass; a message    *)
(* that cannot be built is dropped.                                        *)
Fire(n) ==
    /\ pc[n] = "fire"
    /\ \E s \in batch[n] :
        /\ \A x \in batch[n] : s.rec.sendAt <= x.rec.sendAt
        /\ batch' = [batch EXCEPT ![n] = @ \ {s}]
        /\ IF s.rec.enc # encKey[n]
           THEN UNCHANGED <<pc, job>>
           ELSE /\ job' = [job EXCEPT ![n] = s]
                /\ Goto(n, IF s.rec.body \in Poison THEN "drop" ELSE "smtp")
    /\ UNCHANGED <<now, store, req, stopping, encKey, spent, log>>

(* The server accepts the message at the end of DATA. *)
SmtpAccept(n) ==
    /\ pc[n] = "smtp"
    /\ log' = [log EXCEPT ![job[n].key].delivered = @ + 1]
    /\ Goto(n, "accepted")
    /\ UNCHANGED <<now, store, job, batch, req, stopping, encKey, spent>>

(* SendRawMessage returns what QUIT returns. *)
SmtpQuitKeepsRecord(n) ==
    /\ pc[n] = "accepted"
    /\ Return(n)
    /\ UNCHANGED <<now, store, batch, stopping, encKey, spent, log>>

SmtpQuit(n) ==
    /\ pc[n] = "accepted"
    /\ Goto(n, "done")
    /\ UNCHANGED <<now, store, job, batch, req, stopping, encKey, spent, log>>

BudgetSpentEarly(attempts) == attempts + 1 >= MaxAttempts
BudgetSpent(attempts) == attempts >= MaxAttempts

(* SendRawMessage returns an error, before the message was accepted or     *)
(* after: count the attempt; persist it, or abandon the record.            *)
SmtpFail(n) ==
    /\ pc[n] \in {"smtp", "accepted"}
    /\ log' = [log EXCEPT
           ![job[n].key].failures = @ + 1,
           ![job[n].key].lost = IF pc[n] = "accepted" THEN @ + 1 ELSE @]
    /\ job' = [job EXCEPT ![n].rec.attempts = @ + 1]
    /\ Goto(n, IF BudgetSpent(job[n].rec.attempts + 1)
               THEN "drop" ELSE "putGet")
    /\ UNCHANGED <<now, store, batch, req, stopping, encKey, spent>>

-----------------------------------------------------------------------------
(* Processes and time *)

(* scheduler.Stop: the drain sees it between two passes, and exits. *)
Stop(n) ==
    /\ n \in Stoppable /\ Busy(n) /\ ~stopping[n]
    /\ stopping' = [stopping EXCEPT ![n] = TRUE]
    /\ UNCHANGED <<now, store, pc, job, batch, req, encKey, spent, log>>

DrainExitMidPass(n) ==
    /\ stopping[n] /\ Busy(n)
    /\ Goto(n, "stopped")
    /\ UNCHANGED <<now, store, job, batch, req, stopping, encKey, spent, log>>
DrainExit(n) ==
    /\ stopping[n] /\ pc[n] = "idle"
    /\ Goto(n, "stopped")
    /\ UNCHANGED <<now, store, job, batch, req, stopping, encKey, spent, log>>

(* A server process dies with its drain and its requests. *)
Crash(n) ==
    LET dead == {n} \cup {h \in Handlers : Host[h] = n}
    IN /\ pc[n] # "off"
       /\ Trouble
       /\ spent' = [spent EXCEPT !.crashes = @ + 1]
       /\ pc' = [p \in Procs |-> IF p = n THEN "off"
                                 ELSE IF p \in dead THEN "idle" ELSE pc[p]]
       /\ job' = [p \in Procs |-> IF p \in dead THEN None ELSE job[p]]
       /\ req' = [h \in Handlers |-> IF h \in dead THEN NoReq ELSE req[h]]
       /\ batch' = [batch EXCEPT ![n] = {}]
       /\ stopping' = [stopping EXCEPT ![n] = FALSE]
       /\ UNCHANGED <<now, store, encKey, log>>

(* The process is started again, perhaps with another encryption key. *)
Boot(n) ==
    /\ pc[n] = "off"
    /\ Goto(n, "boot")
    /\ \/ UNCHANGED encKey
       \/ /\ encKey[n] < MaxRotations
          /\ encKey' = [encKey EXCEPT ![n] = @ + 1]
    /\ UNCHANGED <<now, store, job, batch, req, stopping, spent, log>>

Tick ==
    /\ now < MaxTime
    /\ now' = now + 1
    /\ UNCHANGED <<store, pc, job, batch, req, stopping, encKey, spent, log>>

-----------------------------------------------------------------------------
Put(p) == PutGet(p) \/ PutList(p) \/ PutSet(p)

(* A pass over what is due, apart from the dialogues with the servers. *)
Pass(n) == Poll(n) \/ PollFault(n) \/ Fire(n) \/ PassDone(n)
Drain(n) == Pass(n) \/ SmtpAccept(n) \/ SmtpQuit(n) \/ SmtpFail(n)

Handle(h) == Create(h) \/ CancelGet(h) \/ PatchGet(h)

Next == \/ \E h \in Handlers : Handle(h)
        \/ \E p \in Procs : Put(p) \/ Delete(p)
        \/ \E n \in Nodes : \/ Drain(n) \/ Stop(n) \/ DrainExit(n)
                            \/ Crash(n) \/ Boot(n)
        \/ Tick

Spec == Init /\ [][Next]_vars

(* A running process is scheduled; one that died is started again.         *)
(* Nothing is said of the steps of a dialogue: SendRawMessage sets no      *)
(* deadline, so a server that stops answering holds it for ever.           *)
Fairness == /\ \A p \in Procs : WF_vars(Put(p) \/ Delete(p))
            /\ \A n \in Nodes : WF_vars(Pass(n)) /\ WF_vars(Boot(n))

FairSpec == Spec /\ Fairness

(* Properties *)

(* The parts of the type invariant: processes, and everything else. *)
ControlType ==
    /\ pc \in [Procs -> NodeLabels \cup HandlerLabels]
    /\ \A n \in Nodes : pc[n] \in NodeLabels
    /\ \A h \in Handlers : pc[h] \in HandlerLabels
    /\ job \in [Procs -> Job \cup {None}]
    /\ \A p \in Procs :
          job[p] = None <=> pc[p] \in {"off", "boot", "idle", "fire", "stopped"}
    /\ req \in [Handlers -> [op : {"none", "create", "cancel", "patch"},
                             account : Accounts \cup {None}]]

DataType ==
    /\ now \in Nat
    /\ store \in [Keys -> Record \cup {None}]
    /\ batch \in [Nodes -> SUBSET Job]
    /\ stopping \in [Nodes -> BOOLEAN]
    /\ encKey \in [Nodes -> Nat]
    /\ spent \in [requests : Nat, faults : Nat, crashes : Nat]
    /\ log \in [Keys -> Log]

(* The variables have their types; a process holds a record in memory      *)
(* exactly while a call on it is under way (schedule.go fire, the three    *)
(* handlers).                                                              *)
TypeOK == ControlType /\ DataType

(* The reasons a record may leave the store for: it was sent, its owner    *)
(* cancelled it, its owner gave it a content that cannot be built, the     *)
(* retry budget is used up, or a failed send could not be recorded.        *)
Settled(k) == \/ log[k].delivered > 0
              \/ log[k].cancelled
              \/ log[k].poisoned
              \/ log[k].failures >= MaxAttempts
              \/ log[k].unpersisted

(* At-least-once: whatever the interleaving of drains, cancels, edits,     *)
(* crashes and failing calls, a send answered with 202 is in the store     *)
(* until one of those reasons holds.  An abandoned record was really       *)
(* refused maxSendAttempts times, however its counter was overwritten.     *)
NoSilentLoss == \A k \in Keys : log[k].promised => Stored(k) \/ Settled(k)

(* Why it holds, as an inductive invariant: every record in the store and  *)
(* in a drain's memory was promised, has counted no more attempts than     *)
(* were made, and admits to a content that cannot be built; and a drain    *)
(* deletes a record only with a reason in hand.                            *)
Known(k, r) == /\ r.account = k[1]
               /\ r.attempts <= log[k].failures
               /\ log[k].promised
               /\ r.body \in Poison => log[k].poisoned

StoreKnown == \A k \in Keys : Stored(k) => Known(k, store[k])
BatchKnown == \A n \in Nodes : \A s \in batch[n] : Known(s.key, s.rec)
DrainKnown == \A n \in Nodes : job[n] # None => Known(job[n].key, job[n].rec)
HandlerKnown ==
    \A h \in Handlers : job[h] # None =>
        /\ job[h].rec.account = job[h].key[1]
        /\ job[h].rec.attempts <= log[job[h].key].failures
DropReason ==
    \A n \in Nodes : pc[n] \in {"putList", "drop", "accepted", "done"} =>
                         Settled(job[n].key)

SafetyInv == /\ TypeOK /\ StoreKnown /\ BatchKnown /\ DrainKnown
             /\ HandlerKnown /\ DropReason /\ NoSilentLoss

(* With one drain, every copy after the first is paid for by a crash, a    *)
(* failed store call, an edit that raced the drain, or a QUIT that failed  *)
(* after the server had taken the message.                                 *)
CopiesAccounted ==
    Cardinality(Nodes) = 1 =>
        \A k \in Keys :
            log[k].delivered <= 1 + log[k].lost + log[k].edits
                                  + spent.faults + spent.crashes

(* The quota is checked and used in two steps (Put): an account can        *)
(* overshoot it, but by no more than one record per other writer, plus one *)
(* per failed store call.                                                  *)
QuotaOvershootBounded ==
    \A a \in Accounts :
        Cardinality(PendingOf(a)) <=
            MaxPending + (Cardinality(Procs) - 1) + spent.faults

(* The keys of an account that are stored or about to be: the invariant    *)
(* behind the bound counts the writers past their quota check as well.     *)
Claimed(a) ==
    {k \in Keys : /\ k[1] = a
                  /\ \/ Stored(k)
                     \/ \E p \in Procs : pc[p] = "putSet" /\ job[p].key = k}

ClaimBounded ==
    \A a \in Accounts :
        Cardinality(Claimed(a)) <=
            MaxPending + (Cardinality(Procs) - 1) + spent.faults

(* A request works on a record of the account that made it, even when the  *)
(* id it was given spells the key of another account (Get).                *)
OwnerIsolation ==
    \A h \in Handlers :
        job[h] # None => /\ job[h].key[1] = req[h].account
                         /\ job[h].rec.account = req[h].account

Held(k) == \/ \E p \in Procs : job[p] # None /\ job[p].key = k
           \/ \E n \in Nodes : \E s \in batch[n] : s.key = k

(* A record that is neither stored nor in anyone's memory never comes      *)
(* back: only a drain pass or a request that read it before it was deleted *)
(* can store it or send it again.                                          *)
AtRestForGood ==
    [][\A k \in Keys :
          log[k].issued /\ ~Stored(k) /\ ~Held(k) =>
              ~Stored(k)' /\ ~Held(k)' /\ log'[k] = log[k]]_vars

Due(k) == /\ Stored(k)
          /\ store[k].sendAt <= now
          /\ \A n \in Nodes : store[k].enc = encKey[n]
          /\ \E n \in Nodes : pc[n] # "stopped"

(* The node's only drain goroutine is inside SendRawMessage. *)
Talking(n) == pc[n] \in {"smtp", "accepted"}

(* As long as no drain stays in one dialogue for ever, a due record whose  *)
(* secret can be read does not stay due while a scheduler runs, whatever   *)
(* becomes of the other records of the pass, of any account: it is sent,   *)
(* dropped, abandoned, cancelled or moved (Start's boot pass and poll      *)
(* loop, fire).  A server that hangs keeps the records of every account    *)
(* waiting, and nothing more is promised then.                             *)
DueRecordRetires ==
    (\A n \in Nodes : []<>~Talking(n)) => \A k \in Keys : Due(k) ~> ~Due(k)

(* A cancelled send never fires (schedule_test.go:326). *)
CancelledNeverFires ==
    [][\A k \in Keys : log[k].cancelled =>
                           log'[k].delivered = log[k].delivered]_vars

(* A record whose transport carries a short-lived token is never stored    *)
(* for an instant beyond the token's horizon (schedule_store.go:20,        *)
(* docs/api.md "Scheduled send"), whichever request moves it there.        *)
OAuthHorizonKept ==
    [][\A k \in Keys :
          k[1] \in OAuthAccounts /\ Stored(k)' /\ store'[k] # store[k]
             /\ (Stored(k) => store'[k].sendAt # store[k].sendAt)
          => store'[k].sendAt <= now + OAuthHorizon]_vars

(* What the store promises at large: see module Outbox. *)
InHand(p) == {k \in Keys : \/ job[p] # None /\ job[p].key = k
                           \/ p \in Nodes /\ \E s \in batch[p] : s.key = k}
Issued == {k \in Keys : log[k].issued}
HeldKeys == {k \in Keys : Stored(k)}
Hands == [p \in Procs |-> InHand(p)]
Copies == [k \in Keys |-> log[k].delivered]
Tries == [k \in Keys |-> log[k].failures]
Waived == {k \in Keys : log[k].cancelled \/ log[k].poisoned
                           \/ log[k].unpersisted}

Promise == INSTANCE Outbox WITH
    Messages <- Keys, Workers <- Procs, Budget <- MaxAttempts,
    known <- Issued, held <- HeldKeys, hands <- Hands, copies <- Copies,
    tries <- Tries, waived <- Waived

(* Handlers and drains implement the abstract outbox. *)
Implements == Promise!Spec

=============================================================================
