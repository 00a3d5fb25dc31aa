-------------------------- MODULE ConnectedAccounts --------------------------
(***************************************************************************)
(* The connected accounts of one owner and the unified inbox.  The JSON    *)
(* API keeps them in the key-value store, behind a quota                   *)
(* (handlers/jsonapi/accounts.go, accounts_store.go); those of the web     *)
(* pages are in accounts.db, without a quota (module Session).  Both fetch *)
(* the accounts of their own store side by side, each under a timeout,     *)
(* next to the primary mailbox, which has none (fetchUnified, and          *)
(* handlers/web/unified.go).                                               *)
(*                                                                         *)
(* Every store call is one step and may fail.  An account is its address;  *)
(* its IMAP check is part of the step that admits it.                      *)
(***************************************************************************)
EXTENDS Naturals, FiniteSets

CONSTANTS
    Emails,     \* addresses to connect
    Primary,    \* the owner's own mailbox
    Quota,      \* maxConnectedAccounts
    Requests,
    MaxFetches, \* bound on the unified lists under way
    MaxFaults,  \* bound on the reads that fail and let an account pass
    None

VARIABLES
    stored,     \* the owner's records in the key-value store
    areq,       \* the requests under way
    faults      \* saves that passed the quota because a read failed

avars == <<stored, areq, faults>>

Phases == {"get", "list", "set", "check", "delete", "fetch"}

TypeOK ==
    /\ stored \subseteq Emails
    /\ faults \in 0..MaxFaults
    /\ \A r \in Requests : areq[r] # None =>
          /\ areq[r].pc \in Phases
          /\ areq[r].pc = "fetch" =>
                areq[r].waiting \subseteq Emails \cup {Primary}

Init ==
    /\ stored = {}
    /\ areq = [r \in Requests |-> None]
    /\ faults = 0

At(r, pc) == areq[r] # None /\ areq[r].pc = pc

Goto(r, pc) == areq' = [areq EXCEPT ![r].pc = pc]

Done(r) == areq' = [areq EXCEPT ![r] = None]

(* A request is refused, or a store call fails: 4xx or 500, and nothing is *)
(* changed.                                                                *)
Refuse(r) ==
    /\ areq[r] # None /\ areq[r].pc # "fetch"
    /\ Done(r)
    /\ UNCHANGED <<stored, faults>>

(* handleAddConnectedAccount until the IMAP server took the password; the  *)
(* owner's own address is refused.                                         *)
handleAddConnectedAccount(r) ==
    /\ areq[r] = None
    /\ \E e \in Emails \ {Primary} :
          areq' = [areq EXCEPT ![r] = [pc |-> "get", email |-> e]]
    /\ UNCHANGED <<stored, faults>>

(* save: an account that is there already passes the quota, and so does    *)
(* one of which the store could not say whether it is there ...            *)
SaveGet(r) ==
    /\ At(r, "get")
    /\ \/ /\ Goto(r, IF areq[r].email \in stored THEN "set" ELSE "list")
          /\ UNCHANGED faults
       \/ /\ faults < MaxFaults /\ faults' = faults + 1
          /\ Goto(r, "set")
    /\ UNCHANGED stored

(* A quota with one account too many. *)
RoomForOneMore == Cardinality(stored) <= Quota

HasRoom == Cardinality(stored) < Quota

(* ... a new one must find room in the owner's list ...                    *)
SaveList(r) ==
    /\ At(r, "list")
    /\ IF HasRoom THEN Goto(r, "set") ELSE Done(r)
    /\ UNCHANGED <<stored, faults>>

(* ... and is written whatever has changed since.                          *)
SaveSet(r) ==
    /\ At(r, "set")
    /\ stored' = stored \cup {areq[r].email}
    /\ Done(r)
    /\ UNCHANGED faults

handleDeleteConnectedAccount(r) ==
    /\ areq[r] = None
    /\ \E e \in Emails :
          areq' = [areq EXCEPT ![r] = [pc |-> "check", email |-> e]]
    /\ UNCHANGED <<stored, faults>>

DeleteCheck(r) ==
    /\ At(r, "check")
    /\ IF areq[r].email \in stored THEN Goto(r, "delete") ELSE Done(r)
    /\ UNCHANGED <<stored, faults>>

Delete(r) ==
    /\ At(r, "delete")
    /\ stored' = stored \ {areq[r].email}
    /\ Done(r)
    /\ UNCHANGED faults

FetchesLeft ==
    Cardinality({r \in Requests : At(r, "fetch")}) < MaxFetches

Fetching(accounts) == [pc |-> "fetch", waiting |-> accounts \cup {Primary}]

(* handleUnified: the list, then a goroutine for each account of it and    *)
(* one for the primary mailbox.                                            *)
handleUnified(r) ==
    /\ areq[r] = None /\ FetchesLeft
    /\ areq' = [areq EXCEPT ![r] = Fetching(stored)]
    /\ UNCHANGED <<stored, faults>>

(* FetchUnified: the same over the accounts of accounts.db. *)
FetchUnified(r) ==
    /\ areq[r] = None /\ FetchesLeft
    /\ \E accounts \in SUBSET (Emails \ {Primary}) :
          areq' = [areq EXCEPT ![r] = Fetching(accounts)]
    /\ UNCHANGED <<stored, faults>>

(* One account less to wait for: messages or an error are both a result.   *)
Result(r, a) ==
    /\ At(r, "fetch")
    /\ a \in areq[r].waiting
    /\ areq' = [areq EXCEPT ![r].waiting = @ \ {a}]
    /\ UNCHANGED <<stored, faults>>

(* A mail server answers, or refuses, if it ever does. *)
Answered(r) == \E a \in Emails \cup {Primary} : Result(r, a)

(* A timer that fires and that nobody waits for. *)
TimeoutUnheard(r) == At(r, "fetch") /\ UNCHANGED avars

(* fetchAccountMessages and fetchForEntry: after ten seconds the account   *)
(* is reported as failed and its goroutine left behind.                    *)
Timeout(r) == \E a \in Emails \ {Primary} : Result(r, a)

(* wg.Wait and the merge. *)
Merge(r) ==
    /\ At(r, "fetch")
    /\ areq[r].waiting = {}
    /\ Done(r)
    /\ UNCHANGED <<stored, faults>>

Next ==
    \/ \E r \in Requests :
          \/ handleAddConnectedAccount(r) \/ SaveGet(r) \/ SaveList(r) \/ SaveSet(r)
          \/ handleDeleteConnectedAccount(r) \/ DeleteCheck(r) \/ Delete(r)
          \/ Refuse(r)
          \/ handleUnified(r) \/ FetchUnified(r)
          \/ Answered(r) \/ Timeout(r) \/ Merge(r)

(* Timers fire and the merge runs; a mail server need not answer. *)
Fairness == \A r \in Requests : WF_avars(Timeout(r)) /\ WF_avars(Merge(r))

Spec == Init /\ [][Next]_avars /\ Fairness

(* The quota is checked and then used in two store calls.  However adds,   *)
(* edits and deletes interleave, the list outgrows it by at most one       *)
(* account for every other request under way and one for every read that   *)
(* failed, and not further with time.                                      *)
QuotaOvershoot ==
    Cardinality(stored) <= Quota + Cardinality(Requests) - 1 + faults

(* "a hung account cannot stall the merge" (accounts.go:377): once the     *)
(* primary mailbox has answered, the unified list is answered, whatever    *)
(* the connected accounts do.                                              *)
UnifiedAnswers ==
    \A r \in Requests :
        At(r, "fetch") /\ Primary \notin areq[r].waiting ~> ~At(r, "fetch")

=============================================================================
