----------------------------- MODULE UserFiles -----------------------------
(***************************************************************************)
(* One user's cache folder: folders.json and emails.json (utils/cache.go)  *)
(* and threads.db, the bbolt file that the thread store                    *)
(* (api/threadstore.go) and the recipients store (api/recipients.go)       *)
(* share, under the requests of handlers/web and handlers/jsonapi.         *)
(*                                                                         *)
(* bbolt locks a file for the life of a handle and gives up after two      *)
(* seconds.  The thread store's handle is cached for the life of the       *)
(* process and never closed; a recipients store lives for one request.     *)
(* Logout unlinks the folder's files whatever handles are open.            *)
(* A file is what an open handle refers to; a path names one or none.      *)
(***************************************************************************)
EXTENDS Naturals, FiniteSets

CONSTANTS
    Requests,
    Files,      \* one more than the handles that can be open at once
    None

ASSUME FilesAssumption ==
    /\ IsFiniteSet(Requests) /\ IsFiniteSet(Files)
    /\ Cardinality(Files) > Cardinality(Requests)
    /\ None \notin Files

ASSUME NamesAssumption == "threads" \notin Requests /\ None \notin Requests \cup {"threads"}

VARIABLES
    db,         \* the file at the path of threads.db
    json,       \* the folder holds the JSON caches
    lock,       \* who holds the lock of each file
    threads,    \* threadStores[user]: the file of the cached handle
    mu,         \* who holds threadStoresMu
    req,        \* the requests
    listed,     \* what a logout has found and not yet removed
    unlinked    \* files a logout has removed and somebody still has open

vars == <<db, json, lock, threads, mu, req, listed, unlinked>>

Kinds == {"page", "send", "suggest", "login", "logout"}

Request == [pc : {"idle", "mutex", "open", "flock", "use", "save", "list",
                  "remove"},
            kind : Kinds, fd : Files \cup {None}]

Idle == [pc |-> "idle"]

ThreadStore == "threads"

TypeOK ==
    /\ db \in Files \cup {None}
    /\ json \in BOOLEAN
    /\ lock \in [Files -> Requests \cup {ThreadStore, None}]
    /\ threads \in Files \cup {None}
    /\ mu \in Requests \cup {None}
    /\ DOMAIN req = Requests
    /\ \A r \in Requests : req[r] = Idle \/ req[r] \in Request
    /\ listed \in [Requests -> SUBSET {"db", "json"}]
    /\ unlinked \subseteq Files

Init ==
    /\ db = None /\ json = FALSE
    /\ lock = [f \in Files |-> None]
    /\ threads = None /\ mu = None
    /\ req = [r \in Requests |-> Idle]
    /\ listed = [r \in Requests |-> {}]
    /\ unlinked = {}

At(r, pc) == req[r].pc = pc

Is(r, kinds) == req[r].pc # "idle" /\ req[r].kind \in kinds

Goto(r, pc) == req' = [req EXCEPT ![r].pc = pc]

Done(r) == req' = [req EXCEPT ![r] = Idle]

Opened(f) == {r \in Requests : req[r].pc # "idle" /\ req[r].fd = f}

(* A file that no path and no handle names. *)
NewFile ==
    CHOOSE f \in Files : f # db /\ f # threads /\ Opened(f) = {}

Enter(r, kind, pc) ==
    /\ At(r, "idle")
    /\ req' = [req EXCEPT ![r] = [pc |-> pc, kind |-> kind, fd |-> None]]
    /\ UNCHANGED <<db, json, lock, threads, mu, listed, unlinked>>

(* HandleInbox and HandleFolder answer 500 when the cached folders are not  *)
(* there.                                                                  *)
HandleInbox(r) == json /\ Enter(r, "page", "mutex")

(* So far as threads go, also HandleFolderEmails and HandleListDrafts.     *)
HandleSearch(r) == Enter(r, "page", "mutex")

(* HandleComposeEmail or handleSend once the message is sent. *)
RecordRecipients(r) == Enter(r, "send", "open")

(* HandleAutocomplete, and handleFrequentContacts of the JSON API. *)
HandleAutocomplete(r) == Enter(r, "suggest", "open")

fetchInitialData(r) == Enter(r, "login", "save")

HandleLogout(r) == Enter(r, "logout", "list")

Begin(r) ==
    \/ HandleInbox(r) \/ HandleSearch(r)
    \/ RecordRecipients(r) \/ HandleAutocomplete(r)
    \/ fetchInitialData(r) \/ HandleLogout(r)

(* A finished temporary file is renamed into place, or the write fails.    *)
SaveCache(r) ==
    /\ At(r, "save")
    /\ json' \in {json, TRUE}
    /\ Done(r)
    /\ UNCHANGED <<db, lock, threads, mu, listed, unlinked>>

(* getThreadStore: a cached handle is used as it is, the file behind it    *)
(* unlinked or not; otherwise the store is opened under the mutex.         *)
LockStores(r) ==
    /\ At(r, "mutex") /\ mu = None
    /\ IF threads # None
       THEN Done(r) /\ UNCHANGED mu
       ELSE Goto(r, "open") /\ mu' = r
    /\ UNCHANGED <<db, json, lock, threads, listed, unlinked>>

(* A store that makes a new file whatever is there. *)
OpenNewFile(r) ==
    /\ At(r, "open")
    /\ db' = NewFile
    /\ req' = [req EXCEPT ![r].pc = "flock", ![r].fd = NewFile]
    /\ unlinked' = unlinked \ {NewFile}
    /\ UNCHANGED <<json, lock, threads, mu, listed>>

(* bolt.Open opens or creates the file first ... *)
OpenFile(r) ==
    /\ At(r, "open")
    /\ LET f == IF db # None THEN db ELSE NewFile IN
          /\ db' = f
          /\ req' = [req EXCEPT ![r].pc = "flock", ![r].fd = f]
          /\ unlinked' = unlinked \ {f}
    /\ UNCHANGED <<json, lock, threads, mu, listed>>

(* ... then takes its lock.  A thread store is kept; a recipients store    *)
(* goes on to be used.                                                     *)
TakeLock(r) ==
    /\ At(r, "flock")
    /\ lock[req[r].fd] = None
    /\ \/ /\ Is(r, {"page"})
          /\ lock' = [lock EXCEPT ![req[r].fd] = ThreadStore]
          /\ threads' = req[r].fd /\ mu' = None
          /\ Done(r)
       \/ /\ Is(r, {"send", "suggest"})
          /\ lock' = [lock EXCEPT ![req[r].fd] = r]
          /\ Goto(r, "use")
          /\ UNCHANGED <<threads, mu>>
    /\ UNCHANGED <<db, json, listed, unlinked>>

(* A timeout that forgets to unlock threadStoresMu. *)
LockTimeoutKeepsMutex(r) ==
    /\ At(r, "flock")
    /\ lock[req[r].fd] # None
    /\ Done(r)
    /\ UNCHANGED <<db, json, lock, threads, mu, listed, unlinked>>

(* Two seconds later: threads are built in memory, the recipients of a     *)
(* send are not recorded, the suggestions do without them.                 *)
LockTimeout(r) ==
    /\ At(r, "flock")
    /\ lock[req[r].fd] # None
    /\ mu' = IF mu = r THEN None ELSE mu
    /\ Done(r)
    /\ UNCHANGED <<db, json, lock, threads, listed, unlinked>>

(* The deferred Close releases the lock when the handler returns. *)
Close(r) ==
    /\ lock' = [lock EXCEPT ![req[r].fd] = None]
    /\ Done(r)
    /\ UNCHANGED <<db, json, threads, mu, listed, unlinked>>

(* The counters of the recipients are updated in one transaction; the Sent *)
(* copy is stored before the handler returns.                              *)
Record(r) == At(r, "use") /\ Is(r, {"send"}) /\ Close(r)

Search(r) == At(r, "use") /\ Is(r, {"suggest"}) /\ Close(r)

(* clearUserCache reads the names first, removes one after the other, and  *)
(* stops at the first error, which HandleLogout only logs.                 *)
ListNames(r) ==
    /\ At(r, "list")
    /\ listed' = [listed EXCEPT ![r] = {n \in {"db", "json"} :
                     (n = "db" /\ db # None) \/ (n = "json" /\ json)}]
    /\ Goto(r, "remove")
    /\ UNCHANGED <<db, json, lock, threads, mu, unlinked>>

Remove(r) ==
    /\ At(r, "remove")
    /\ \E n \in listed[r] :
          /\ listed' = [listed EXCEPT ![r] = @ \ {n}]
          /\ db' = IF n = "db" THEN None ELSE db
          /\ json' = (json /\ n # "json")
          /\ unlinked' = IF n = "db" /\ db # None THEN unlinked \cup {db}
                                                  ELSE unlinked
    /\ UNCHANGED <<lock, threads, mu, req>>

LogoutDone(r) ==
    /\ At(r, "remove")
    /\ \/ listed[r] = {} /\ UNCHANGED listed
       \/ listed' = [listed EXCEPT ![r] = {}]
    /\ Done(r)
    /\ UNCHANGED <<db, json, lock, threads, mu, unlinked>>

(* The process dies: the system releases its locks. *)
Restart ==
    /\ lock' = [f \in Files |-> None]
    /\ threads' = None /\ mu' = None
    /\ req' = [r \in Requests |-> Idle]
    /\ listed' = [r \in Requests |-> {}]
    /\ UNCHANGED <<db, json, unlinked>>

Step(r) ==
    \/ SaveCache(r)
    \/ OpenFile(r) \/ TakeLock(r) \/ LockTimeout(r)
    \/ Record(r) \/ Search(r)
    \/ ListNames(r) \/ Remove(r) \/ LogoutDone(r)

Next ==
    \/ \E r \in Requests : Begin(r) \/ LockStores(r) \/ Step(r)
    \/ Restart

(* A handler that was entered goes on, and a goroutine that waits for      *)
(* threadStoresMu is not overtaken for ever.                               *)
Fairness == \A r \in Requests : WF_vars(Step(r)) /\ SF_vars(LockStores(r))

Spec == Init /\ [][Next]_vars /\ Fairness

(* A handle that is not of the file at the path was cut off by a logout:   *)
(* what is written through it nobody reads again.                          *)
OnlyLogoutCutsOff ==
    \A f \in Files :
        (f = threads \/ Opened(f) # {}) /\ f # db => f \in unlinked

(* Every request on the user's files ends, whoever holds the file's lock   *)
(* or the mutex.                                                           *)
RequestEnds == \A r \in Requests : ~At(r, "idle") ~> At(r, "idle")

=============================================================================
