---------------------------- MODULE ServerProofs ----------------------------
(***************************************************************************)
(* Proofs about what requests wait for in the server: the files of a user  *)
(* (module UserFiles), the connected accounts (ConnectedAccounts) and the  *)
(* cache of brand logos (BimiCache), and their composition (MCServer).     *)
(***************************************************************************)
EXTENDS MCServer, Sequences, FiniteSetTheorems, TLAPS

(* The page requests that open the thread store. *)
OpensStore(r) == Is(r, {"page"}) /\ req[r].pc \in {"open", "flock"}

(* threadStoresMu is held by the one request that opens the thread store,  *)
(* and only until there is one.                                            *)
MutexInv ==
    \A r \in Requests : OpensStore(r) <=> mu = r

StoreOpenedOnce == threads # None => mu = None

(* Who holds the lock of a file has it open: the cached handle, or a       *)
(* recipients store in use.                                                *)
LocksInv ==
    \A f \in Files :
        /\ lock[f] = ThreadStore <=> f = threads
        /\ \A r \in Requests : lock[f] = r <=> At(r, "use") /\ req[r].fd = f

(* A request has a file open from its open to its end, and only then.      *)
HandlesInv ==
    \A r \in Requests :
        /\ req[r].pc \in {"flock", "use"} => req[r].fd \in Files
        /\ req[r].pc \in {"mutex", "open", "save", "list", "remove"} => req[r].fd = None
        /\ req[r].pc = "mutex" => req[r].kind = "page"
        /\ req[r].pc \in {"open", "flock"} => req[r].kind \in {"page", "send", "suggest"}
        /\ req[r].pc = "use" => req[r].kind \in {"send", "suggest"}

FilesInv ==
    /\ TypeOK
    /\ HandlesInv
    /\ MutexInv /\ StoreOpenedOnce
    /\ LocksInv
    /\ OnlyLogoutCutsOff

-----------------------------------------------------------------------------

(* There is always a file that nothing names: a handle for each other      *)
(* request and the cached one do not use them up.                          *)
LEMMA NewFileIsFree ==
    ASSUME FilesInv, NEW r \in Requests, At(r, "open"), db = None
    PROVE  NewFile \in Files /\ NewFile # threads /\ Opened(NewFile) = {}
  <1>. DEFINE others == Requests \ {r}
              used == {req[q].fd : q \in others} \cup {threads}
  <1>1. IsFiniteSet(others) /\ Cardinality(others) = Cardinality(Requests) - 1
    BY FS_RemoveElement, FilesAssumption
  <1>2. IsFiniteSet({req[q].fd : q \in others})
           /\ Cardinality({req[q].fd : q \in others}) <= Cardinality(others)
    <2>. DEFINE fd[q \in others] == req[q].fd
    <2>1. fd \in Surjection(others, {req[q].fd : q \in others})
      BY DEF Surjection
    <2>. QED
      BY <1>1, <2>1, FS_Surjection
  <1>3. IsFiniteSet(used) /\ Cardinality(used) <= Cardinality({req[q].fd : q \in others}) + 1
    <2>. DEFINE fds == {req[q].fd : q \in others}
    <2>1. IsFiniteSet(fds)
      BY <1>2
    <2>. HIDE DEF fds
    <2>2. /\ IsFiniteSet(fds \cup {threads})
          /\ Cardinality(fds \cup {threads}) =
                IF threads \in fds THEN Cardinality(fds) ELSE Cardinality(fds) + 1
      BY <2>1, FS_AddElement, Zenon
    <2>3. Cardinality(fds) \in Nat
      BY <2>1, FS_CardinalityType
    <2>. QED
      BY <2>2, <2>3 DEF fds
  <1>4. \E f \in Files : f \notin used
    <2>1. SUFFICES ASSUME Files \subseteq used PROVE FALSE
      OBVIOUS
    <2>2. Cardinality(Files) <= Cardinality(used)
      BY <1>3, <2>1, FS_Subset
    <2>. QED
      BY <1>1, <1>2, <1>3, <2>2, FS_CardinalityType, FilesAssumption
  <1>5. \E f \in Files : f # db /\ f # threads /\ Opened(f) = {}
    <2>1. PICK f \in Files : f \notin used
      BY <1>4
    <2>2. req[r].fd = None
      BY DEF FilesInv, HandlesInv, At
    <2>3. Opened(f) = {}
      BY <2>1, <2>2, FilesAssumption DEF Opened
    <2>. QED
      BY <2>1, <2>3, FilesAssumption
  <1>. QED
    BY <1>5 DEF NewFile

-----------------------------------------------------------------------------

LEMMA FilesInit == Init => FilesInv
  <1>. SUFFICES ASSUME Init PROVE FilesInv
    OBVIOUS
  <1>1. \A r \in Requests : req[r].pc = "idle"
    BY DEF Init, Idle
  <1>2. TypeOK
    BY DEF Init, TypeOK
  <1>3. HandlesInv /\ MutexInv /\ StoreOpenedOnce
    BY <1>1, NamesAssumption DEF Init, HandlesInv, MutexInv, StoreOpenedOnce, OpensStore, Is
  <1>4. LocksInv
    BY <1>1, NamesAssumption, FilesAssumption DEF Init, LocksInv, At, ThreadStore
  <1>5. OnlyLogoutCutsOff
    BY <1>1, FilesAssumption DEF Init, OnlyLogoutCutsOff, Opened
  <1>. QED
    BY <1>2, <1>3, <1>4, <1>5 DEF FilesInv

(* A step of request r that opens no file keeps what was cut off so. *)
LEMMA KeepsCutOff ==
    ASSUME FilesInv, NEW r \in Requests, NEW c,
           req' = [req EXCEPT ![r] = c],
           c.pc = "idle" \/ c.fd = None \/ (req[r].pc # "idle" /\ c.fd = req[r].fd),
           db' = db, unlinked' = unlinked,
           threads' = threads \/ (req[r].pc # "idle" /\ threads' = req[r].fd)
    PROVE  OnlyLogoutCutsOff'
  <1>1. ASSUME NEW f \in Files PROVE Opened(f)' \subseteq Opened(f)
    BY FilesAssumption DEF Opened, FilesInv, TypeOK
  <1>2. ASSUME NEW f \in Files, threads' # threads, f = threads' PROVE Opened(f) # {}
    BY <1>2 DEF Opened
  <1>3. ASSUME NEW f \in Files, f = threads \/ Opened(f) # {}, f # db PROVE f \in unlinked
    BY <1>3 DEF FilesInv, OnlyLogoutCutsOff
  <1>4. ASSUME NEW f \in Files, f = threads' \/ Opened(f)' # {}, f # db' PROVE f \in unlinked'
    BY <1>1, <1>2, <1>3, <1>4
  <1>. QED
    BY <1>4 DEF OnlyLogoutCutsOff

LEMMA FilesNext == FilesInv /\ [Next]_vars => FilesInv'
  <1>. SUFFICES ASSUME FilesInv, [Next]_vars PROVE FilesInv'
    OBVIOUS
  <1>. USE NamesAssumption, FilesAssumption
  <1>0. TypeOK /\ HandlesInv /\ MutexInv /\ StoreOpenedOnce /\ LocksInv
    BY DEF FilesInv
  <1>1. ASSUME NEW r \in Requests, Begin(r) PROVE FilesInv'
    <2>1. PICK kind \in Kinds, pc \in {"mutex", "open", "save", "list"} :
             /\ Enter(r, kind, pc)
             /\ pc = "mutex" => kind = "page"
             /\ pc = "open" => kind \in {"send", "suggest"}
      BY <1>1 DEF Begin, HandleInbox, HandleSearch, RecordRecipients, Kinds,
                  HandleAutocomplete, fetchInitialData, HandleLogout
    <2>. DEFINE c == [pc |-> pc, kind |-> kind, fd |-> None]
    <2>2. req[r].pc = "idle" /\ req' = [req EXCEPT ![r] = c]
             /\ UNCHANGED <<db, json, lock, threads, mu, listed, unlinked>>
      BY <2>1 DEF Enter, At
    <2>3. TypeOK'
      BY <1>0, <2>2 DEF TypeOK, Request
    <2>4. HandlesInv'
      BY <1>0, <2>1, <2>2 DEF TypeOK, HandlesInv
    <2>5. MutexInv' /\ StoreOpenedOnce'
      BY <1>0, <2>1, <2>2 DEF TypeOK, MutexInv, StoreOpenedOnce, OpensStore, Is
    <2>6. LocksInv'
      BY <1>0, <2>1, <2>2 DEF TypeOK, LocksInv, At
    <2>7. OnlyLogoutCutsOff'
      BY <2>2, KeepsCutOff
    <2>. QED
      BY <2>3, <2>4, <2>5, <2>6, <2>7 DEF FilesInv
  <1>2. ASSUME NEW r \in Requests, LockStores(r) PROVE FilesInv'
    <2>1. PICK c : /\ req' = [req EXCEPT ![r] = c] /\ req[r].pc = "mutex" /\ mu = None
                   /\ \/ threads # None /\ c = Idle /\ mu' = mu
                      \/ threads = None /\ c = [req[r] EXCEPT !.pc = "open"] /\ mu' = r
                   /\ UNCHANGED <<db, json, lock, threads, listed, unlinked>>
      BY <1>2 DEF LockStores, Done, Goto, At
    <2>2. req[r] \in Request /\ req[r].kind = "page" /\ req[r].fd = None
      BY <1>0, <2>1 DEF TypeOK, Idle, HandlesInv
    <2>3. TypeOK'
      BY <1>0, <2>1, <2>2 DEF TypeOK, Request, Idle
    <2>4. HandlesInv'
      BY <1>0, <2>1, <2>2 DEF TypeOK, HandlesInv, Idle, Request
    <2>5. MutexInv' /\ StoreOpenedOnce'
      BY <1>0, <2>1, <2>2 DEF TypeOK, MutexInv, StoreOpenedOnce, OpensStore, Is, Idle, Request
    <2>6. LocksInv'
      BY <1>0, <2>1, <2>2 DEF TypeOK, LocksInv, At, Idle, Request
    <2>7. OnlyLogoutCutsOff'
      BY <2>1, <2>2, KeepsCutOff DEF Idle, Request
    <2>. QED
      BY <2>3, <2>4, <2>5, <2>6, <2>7 DEF FilesInv
  <1>3. ASSUME NEW r \in Requests, SaveCache(r) \/ LogoutDone(r) PROVE FilesInv'
    <2>1. /\ req' = [req EXCEPT ![r] = Idle] /\ req[r].pc \in {"save", "remove"}
          /\ json' \in BOOLEAN /\ listed' \in [Requests -> SUBSET {"db", "json"}]
          /\ UNCHANGED <<db, lock, threads, mu, unlinked>>
      BY <1>0, <1>3 DEF SaveCache, LogoutDone, Done, At, TypeOK
    <2>3. TypeOK'
      BY <1>0, <2>1 DEF TypeOK
    <2>4. HandlesInv'
      BY <1>0, <2>1 DEF TypeOK, HandlesInv, Idle
    <2>5. MutexInv' /\ StoreOpenedOnce'
      BY <1>0, <2>1 DEF TypeOK, MutexInv, StoreOpenedOnce, OpensStore, Is, Idle
    <2>6. LocksInv'
      BY <1>0, <2>1 DEF TypeOK, LocksInv, At, Idle
    <2>7. OnlyLogoutCutsOff'
      BY <2>1, KeepsCutOff DEF Idle
    <2>. QED
      BY <2>3, <2>4, <2>5, <2>6, <2>7 DEF FilesInv
  <1>4. ASSUME NEW r \in Requests, OpenFile(r) PROVE FilesInv'
    <2>1. PICK f : /\ f = (IF db # None THEN db ELSE NewFile)
                   /\ db' = f /\ unlinked' = unlinked \ {f} /\ req[r].pc = "open"
                   /\ req' = [req EXCEPT ![r] = [req[r] EXCEPT !.pc = "flock", !.fd = f]]
                   /\ UNCHANGED <<json, lock, threads, mu, listed>>
      BY <1>4 DEF OpenFile, At
    <2>2. /\ req[r] \in Request /\ req[r].fd = None
          /\ req[r].kind \in {"page", "send", "suggest"}
      BY <1>0, <2>1 DEF TypeOK, Idle, HandlesInv
    <2>3. f \in Files
      BY <1>0, <2>1, NewFileIsFree DEF TypeOK, At
    <2>4. TypeOK'
      BY <1>0, <2>1, <2>2, <2>3 DEF TypeOK, Request
    <2>5. HandlesInv'
      BY <1>0, <2>1, <2>2, <2>3 DEF TypeOK, HandlesInv, Request
    <2>6. MutexInv' /\ StoreOpenedOnce'
      BY <1>0, <2>1, <2>2 DEF TypeOK, MutexInv, StoreOpenedOnce, OpensStore, Is, Request
    <2>7. LocksInv'
      BY <1>0, <2>1, <2>2 DEF TypeOK, LocksInv, At, Request
    <2>8. ASSUME NEW g \in Files, g = threads' \/ Opened(g)' # {}, g # db'
          PROVE  g \in unlinked'
      <3>1. Opened(g)' \subseteq Opened(g)
        BY <1>0, <2>1, <2>2, <2>8 DEF Opened, TypeOK, Request
      <3>2. g # db
        BY <2>1, <2>8
      <3>. QED
        BY <2>1, <2>8, <3>1, <3>2 DEF FilesInv, OnlyLogoutCutsOff
    <2>9. OnlyLogoutCutsOff'
      BY <2>8 DEF OnlyLogoutCutsOff
    <2>. QED
      BY <2>4, <2>5, <2>6, <2>7, <2>9 DEF FilesInv
  <1>5. ASSUME NEW r \in Requests, TakeLock(r) PROVE FilesInv'
    <2>1. PICK c : /\ req' = [req EXCEPT ![r] = c] /\ req[r].pc = "flock"
                   /\ lock[req[r].fd] = None
                   /\ \/ /\ req[r].kind = "page" /\ c = Idle /\ threads' = req[r].fd
                         /\ mu' = None
                         /\ lock' = [lock EXCEPT ![req[r].fd] = ThreadStore]
                      \/ /\ req[r].kind \in {"send", "suggest"}
                         /\ c = [req[r] EXCEPT !.pc = "use"] /\ threads' = threads
                         /\ mu' = mu /\ lock' = [lock EXCEPT ![req[r].fd] = r]
                   /\ UNCHANGED <<db, json, listed, unlinked>>
      BY <1>5 DEF TakeLock, Done, Goto, At, Is
    <2>2. req[r] \in Request /\ req[r].fd \in Files
      BY <1>0, <2>1 DEF TypeOK, Idle, HandlesInv
    <2>3. TypeOK'
      BY <1>0, <2>1, <2>2 DEF TypeOK, Request, Idle, ThreadStore
    <2>4. HandlesInv'
      BY <1>0, <2>1, <2>2 DEF TypeOK, HandlesInv, Idle, Request
    <2>5. MutexInv' /\ StoreOpenedOnce'
      BY <1>0, <2>1, <2>2 DEF TypeOK, MutexInv, StoreOpenedOnce, OpensStore, Is, Idle, Request
    <2>6. LocksInv'
      <3>1. CASE req[r].kind = "page"
        <4>1. mu = r /\ threads = None
          BY <1>0, <2>1, <2>2, <3>1 DEF MutexInv, StoreOpenedOnce, OpensStore, Is
        <4>. QED
          BY <1>0, <2>1, <2>2, <3>1, <4>1 DEF TypeOK, LocksInv, At, Idle, ThreadStore
      <3>2. CASE req[r].kind # "page"
        BY <1>0, <2>1, <2>2, <3>2 DEF TypeOK, LocksInv, At, Idle, Request, ThreadStore
      <3>. QED
        BY <3>1, <3>2
    <2>7. OnlyLogoutCutsOff'
      BY <2>1, <2>2, KeepsCutOff DEF Idle, Request
    <2>. QED
      BY <2>3, <2>4, <2>5, <2>6, <2>7 DEF FilesInv
  <1>6. ASSUME NEW r \in Requests, LockTimeout(r) PROVE FilesInv'
    <2>1. /\ req' = [req EXCEPT ![r] = Idle] /\ req[r].pc = "flock"
          /\ mu' = (IF mu = r THEN None ELSE mu)
          /\ UNCHANGED <<db, json, lock, threads, listed, unlinked>>
      BY <1>6 DEF LockTimeout, Done, At
    <2>3. TypeOK'
      BY <1>0, <2>1 DEF TypeOK
    <2>4. HandlesInv'
      BY <1>0, <2>1 DEF TypeOK, HandlesInv, Idle
    <2>5. MutexInv' /\ StoreOpenedOnce'
      BY <1>0, <2>1 DEF TypeOK, MutexInv, StoreOpenedOnce, OpensStore, Is, Idle
    <2>6. LocksInv'
      BY <1>0, <2>1 DEF TypeOK, LocksInv, At, Idle
    <2>7. OnlyLogoutCutsOff'
      BY <2>1, KeepsCutOff DEF Idle
    <2>. QED
      BY <2>3, <2>4, <2>5, <2>6, <2>7 DEF FilesInv
  <1>7. ASSUME NEW r \in Requests, Record(r) \/ Search(r) PROVE FilesInv'
    <2>1. /\ req' = [req EXCEPT ![r] = Idle] /\ req[r].pc = "use"
          /\ lock' = [lock EXCEPT ![req[r].fd] = None]
          /\ UNCHANGED <<db, json, threads, mu, listed, unlinked>>
      BY <1>7 DEF Record, Search, Close, Done, At
    <2>2. req[r] \in Request /\ req[r].fd \in Files /\ lock[req[r].fd] = r
      BY <1>0, <2>1 DEF TypeOK, Idle, HandlesInv, LocksInv, At
    <2>3. TypeOK'
      BY <1>0, <2>1 DEF TypeOK
    <2>4. HandlesInv'
      BY <1>0, <2>1 DEF TypeOK, HandlesInv, Idle
    <2>5. MutexInv' /\ StoreOpenedOnce'
      BY <1>0, <2>1 DEF TypeOK, MutexInv, StoreOpenedOnce, OpensStore, Is, Idle
    <2>6. LocksInv'
      BY <1>0, <2>1, <2>2 DEF TypeOK, LocksInv, At, Idle, ThreadStore
    <2>7. OnlyLogoutCutsOff'
      BY <2>1, KeepsCutOff DEF Idle
    <2>. QED
      BY <2>3, <2>4, <2>5, <2>6, <2>7 DEF FilesInv
  <1>8. ASSUME NEW r \in Requests, ListNames(r) PROVE FilesInv'
    <2>1. /\ req' = [req EXCEPT ![r] = [req[r] EXCEPT !.pc = "remove"]]
          /\ req[r].pc = "list" /\ listed' \in [Requests -> SUBSET {"db", "json"}]
          /\ UNCHANGED <<db, json, lock, threads, mu, unlinked>>
      BY <1>0, <1>8 DEF ListNames, Goto, At, TypeOK
    <2>2. req[r] \in Request /\ req[r].fd = None
      BY <1>0, <2>1 DEF TypeOK, Idle, HandlesInv
    <2>3. TypeOK'
      BY <1>0, <2>1, <2>2 DEF TypeOK, Request
    <2>4. HandlesInv'
      BY <1>0, <2>1, <2>2 DEF TypeOK, HandlesInv, Request
    <2>5. MutexInv' /\ StoreOpenedOnce'
      BY <1>0, <2>1, <2>2 DEF TypeOK, MutexInv, StoreOpenedOnce, OpensStore, Is, Request
    <2>6. LocksInv'
      BY <1>0, <2>1, <2>2 DEF TypeOK, LocksInv, At, Request
    <2>7. OnlyLogoutCutsOff'
      BY <2>1, <2>2, KeepsCutOff DEF Request
    <2>. QED
      BY <2>3, <2>4, <2>5, <2>6, <2>7 DEF FilesInv
  <1>9. ASSUME NEW r \in Requests, Remove(r) PROVE FilesInv'
    <2>1. /\ db' \in {db, None} /\ json' \in BOOLEAN
          /\ listed' \in [Requests -> SUBSET {"db", "json"}]
          /\ unlinked' \in {unlinked, unlinked \cup {db}}
          /\ db' # db => unlinked' = unlinked \cup {db}
          /\ unlinked' # unlinked => db # None
          /\ UNCHANGED <<lock, threads, mu, req>>
      BY <1>0, <1>9 DEF Remove, TypeOK
    <2>2. TypeOK'
      BY <1>0, <2>1 DEF TypeOK
    <2>3. HandlesInv' /\ MutexInv' /\ StoreOpenedOnce' /\ LocksInv'
      BY <1>0, <2>1 DEF HandlesInv, MutexInv, StoreOpenedOnce, LocksInv, OpensStore, Is, At
    <2>4. OnlyLogoutCutsOff'
      BY <2>1 DEF FilesInv, OnlyLogoutCutsOff, Opened
    <2>. QED
      BY <2>2, <2>3, <2>4 DEF FilesInv
  <1>10. CASE Restart
    <2>1. /\ \A r \in Requests : req'[r] = Idle
          /\ threads' = None /\ mu' = None /\ lock' = [f \in Files |-> None]
      BY <1>10 DEF Restart
    <2>2. TypeOK'
      BY <1>0, <1>10 DEF Restart, TypeOK
    <2>3. HandlesInv' /\ MutexInv' /\ StoreOpenedOnce'
      BY <2>1 DEF HandlesInv, MutexInv, StoreOpenedOnce, OpensStore, Is, Idle
    <2>4. LocksInv' /\ OnlyLogoutCutsOff'
      BY <2>1 DEF LocksInv, At, Idle, OnlyLogoutCutsOff, Opened, ThreadStore
    <2>. QED
      BY <2>2, <2>3, <2>4 DEF FilesInv
  <1>11. CASE UNCHANGED vars
    <2>1. TypeOK' /\ HandlesInv' /\ MutexInv' /\ StoreOpenedOnce' /\ LocksInv'
      BY <1>0, <1>11 DEF vars, TypeOK, HandlesInv, MutexInv, StoreOpenedOnce, LocksInv,
                         OpensStore, Is, At
    <2>2. OnlyLogoutCutsOff'
      BY <1>11 DEF vars, FilesInv, OnlyLogoutCutsOff, Opened
    <2>. QED
      BY <2>1, <2>2 DEF FilesInv
  <1>. QED
    BY <1>1, <1>2, <1>3, <1>4, <1>5, <1>6, <1>7, <1>8, <1>9, <1>10, <1>11 DEF Next, Step

-----------------------------------------------------------------------------

(* The invariant of the user's files: types, who holds which handle, lock  *)
(* and mutex, and what a logout has cut off.                               *)
THEOREM FilesInvariant == Spec => []FilesInv
  BY FilesInit, FilesNext, PTL DEF Spec

(* A handle to another file than the one at the path was cut off by a      *)
(* logout, for any number of requests, files and logouts.                  *)
THEOREM CutOffByLogout == Spec => []OnlyLogoutCutsOff
  <1>1. FilesInv => OnlyLogoutCutsOff
    BY DEF FilesInv
  <1>. QED
    BY FilesInvariant, <1>1, PTL

(* The mutex of the thread stores is never left behind: a request holds it *)
(* that opens the store, and no thread store is open yet.                  *)
THEOREM MutexNotLeftBehind ==
    Spec => [](mu # None => OpensStore(mu) /\ threads = None)
  <1>1. FilesInv => (mu # None => OpensStore(mu) /\ threads = None)
    BY DEF FilesInv, TypeOK, MutexInv, StoreOpenedOnce
  <1>. QED
    BY FilesInvariant, <1>1, PTL

(* A locked file is one that the cached handle or a request in use has     *)
(* open: no lock outlives its handle.                                      *)
THEOREM LocksAreHeld ==
    Spec => [](\A f \in Files : lock[f] # None =>
                  f = threads \/ \E r \in Opened(f) : At(r, "use"))
  <1>1. FilesInv => \A f \in Files : lock[f] # None =>
                       f = threads \/ \E r \in Opened(f) : At(r, "use")
    BY DEF FilesInv, TypeOK, LocksInv, Opened, At
  <1>. QED
    BY FilesInvariant, <1>1, PTL

-----------------------------------------------------------------------------
(* The connected accounts: what is stored or about to be written.          *)

Claimed == stored \cup {areq[r].email : r \in {q \in Requests : CN!At(q, "set")}}

AccountRequest ==
    [pc : {"get", "list", "set", "check", "delete"}, email : Emails]
       \cup [pc : {"fetch"}, waiting : SUBSET (Emails \cup {Primary})]

(* A request that passed the check of the quota holds the place it found   *)
(* until it has written: the places held are counted like the accounts.    *)
ClaimsInv ==
    /\ stored \subseteq Emails
    /\ faults \in Nat
    /\ areq \in [Requests -> AccountRequest \cup {None}]
    /\ Cardinality(Claimed) <= Quota + Cardinality(Requests) - 1 + faults

LEMMA StoredIsFinite == ClaimsInv => IsFiniteSet(stored)
  BY BoundsAssumption, FS_Subset DEF ClaimsInv

(* What is claimed is finite, and one claim more is one account more.      *)
LEMMA SameCardinality == \A S : CN!Cardinality(S) = Cardinality(S)
  BY DEF CN!Cardinality, Cardinality

LEMMA ClaimsAreFinite ==
    ASSUME ClaimsInv
    PROVE  IsFiniteSet(Claimed) /\ Cardinality(Claimed) \in Nat
  <1>. DEFINE setters == {q \in Requests : CN!At(q, "set")}
              emails == {areq[r].email : r \in setters}
              email[r \in setters] == areq[r].email
  <1>1. IsFiniteSet(setters)
    BY FilesAssumption, FS_Subset
  <1>2. email \in Surjection(setters, emails)
    BY DEF Surjection
  <1>3. IsFiniteSet(emails)
    BY <1>1, <1>2, FS_Surjection
  <1>4. IsFiniteSet(stored \cup emails)
    BY <1>3, StoredIsFinite, FS_Union
  <1>. QED
    BY <1>4, FS_CardinalityType DEF Claimed

LEMMA ClaimsShrink ==
    ASSUME ClaimsInv, Claimed' \subseteq Claimed, stored' \subseteq Emails,
           areq' \in [Requests -> AccountRequest \cup {None}],
           faults' = faults
    PROVE  ClaimsInv'
  <1>1. Cardinality(Claimed') <= Cardinality(Claimed) /\ Cardinality(Claimed') \in Nat
    BY ClaimsAreFinite, FS_Subset, FS_CardinalityType
  <1>. QED
    BY <1>1, ClaimsAreFinite, FilesAssumption, FS_CardinalityType, BoundsAssumption DEF ClaimsInv

(* One claim more. *)
LEMMA ClaimsGrow ==
    ASSUME ClaimsInv, NEW e, Claimed' \subseteq Claimed \cup {e},
           stored' \subseteq Emails,
           areq' \in [Requests -> AccountRequest \cup {None}], faults' = faults + 1
    PROVE  ClaimsInv'
  <1>1. IsFiniteSet(Claimed \cup {e}) /\ Cardinality(Claimed \cup {e}) <= Cardinality(Claimed) + 1
    <2>1. /\ IsFiniteSet(Claimed \cup {e})
          /\ Cardinality(Claimed \cup {e}) =
                IF e \in Claimed THEN Cardinality(Claimed) ELSE Cardinality(Claimed) + 1
      BY ClaimsAreFinite, FS_AddElement, Zenon
    <2>. QED
      BY <2>1, ClaimsAreFinite
  <1>2. Cardinality(Claimed') <= Cardinality(Claimed) + 1 /\ Cardinality(Claimed') \in Nat
    BY <1>1, ClaimsAreFinite, FS_Subset, FS_CardinalityType
  <1>. QED
    BY <1>2, ClaimsAreFinite, FilesAssumption, FS_CardinalityType, BoundsAssumption DEF ClaimsInv

(* A request that found room: everybody may be about to write, and still   *)
(* each adds one account at most to those that left room for one.          *)
LEMMA RoomBoundsClaims ==
    ASSUME ClaimsInv, CN!HasRoom,
           NEW emails, NEW setters \in SUBSET Requests, NEW f \in Surjection(setters, emails)
    PROVE  Cardinality(stored \cup emails) <= Quota + Cardinality(Requests) - 1
  <1>1. IsFiniteSet(setters) /\ Cardinality(setters) <= Cardinality(Requests)
    BY FilesAssumption, FS_Subset, Zenon
  <1>2. IsFiniteSet(emails) /\ Cardinality(emails) <= Cardinality(setters)
    BY <1>1, FS_Surjection
  <1>3. Cardinality(stored \cup emails) = Cardinality(stored) + Cardinality(emails)
                                             - Cardinality(stored \cap emails)
    BY <1>2, StoredIsFinite, FS_Union
  <1>4. /\ Cardinality(stored) \in Nat /\ Cardinality(emails) \in Nat
        /\ Cardinality(setters) \in Nat /\ Cardinality(Requests) \in Nat
        /\ Cardinality(stored \cap emails) \in Nat
    BY <1>1, <1>2, StoredIsFinite, FilesAssumption, FS_CardinalityType, FS_Intersection
  <1>. QED
    BY <1>1, <1>2, <1>3, <1>4, SameCardinality, BoundsAssumption DEF CN!HasRoom

(* A step of request r claims at most the account of r, and only if the    *)
(* step comes to write one that is not stored.                             *)
LEMMA OneMoreClaim ==
    ASSUME ClaimsInv, NEW r \in Requests, NEW c,
           c \in AccountRequest \cup {None},
           areq' = [areq EXCEPT ![r] = c], stored' \subseteq stored
    PROVE  /\ Claimed' \subseteq Claimed \cup {c.email}
           /\ c = None \/ c.pc # "set" \/ c.email \in stored => Claimed' \subseteq Claimed
           /\ stored' \subseteq Emails
           /\ areq' \in [Requests -> AccountRequest \cup {None}]
  <1>1. ASSUME NEW e \in Claimed', e \notin stored'
        PROVE  e \in Claimed \/ (e = c.email /\ c # None /\ c.pc = "set")
    <2>1. PICK q \in Requests : CN!At(q, "set")' /\ e = areq'[q].email
      BY <1>1 DEF Claimed
    <2>2. CASE q = r
      BY <2>1, <2>2 DEF CN!At, ClaimsInv
    <2>3. CASE q # r
      BY <2>1, <2>3 DEF CN!At, Claimed, ClaimsInv
    <2>. QED
      BY <2>2, <2>3
  <1>2. stored' \subseteq Emails /\ areq' \in [Requests -> AccountRequest \cup {None}]
    BY DEF ClaimsInv
  <1>3. stored \subseteq Claimed
    BY DEF Claimed
  <1>. QED
    BY <1>1, <1>2, <1>3 DEF ClaimsInv

LEMMA ClaimsInit == CN!Init => ClaimsInv
  <1>. SUFFICES ASSUME CN!Init PROVE ClaimsInv
    OBVIOUS
  <1>1. Claimed = {}
    BY DEF CN!Init, CN!At, Claimed
  <1>. QED
    BY <1>1, FS_EmptySet, FS_CardinalityType, FilesAssumption, BoundsAssumption
       DEF CN!Init, ClaimsInv

LEMMA ClaimsNext == ClaimsInv /\ [CN!Next]_(CN!avars) => ClaimsInv'
  <1>. SUFFICES ASSUME ClaimsInv, [CN!Next]_(CN!avars) PROVE ClaimsInv'
    OBVIOUS
  <1>0. stored \subseteq Emails /\ areq \in [Requests -> AccountRequest \cup {None}]
    BY DEF ClaimsInv
  <1>1. ASSUME NEW r \in Requests,
               CN!handleAddConnectedAccount(r) \/ CN!handleDeleteConnectedAccount(r)
        PROVE  ClaimsInv'
    <2>1. PICK e \in Emails :
             \/ areq' = [areq EXCEPT ![r] = [pc |-> "get", email |-> e]]
             \/ areq' = [areq EXCEPT ![r] = [pc |-> "check", email |-> e]]
      BY <1>1 DEF CN!handleAddConnectedAccount, CN!handleDeleteConnectedAccount
    <2>2. stored' = stored /\ faults' = faults
      BY <1>1 DEF CN!handleAddConnectedAccount, CN!handleDeleteConnectedAccount
    <2>3. PICK pc \in {"get", "check"} :
             areq' = [areq EXCEPT ![r] = [pc |-> pc, email |-> e]]
      BY <2>1
    <2>. DEFINE c == [pc |-> pc, email |-> e]
    <2>4. c \in AccountRequest /\ c.pc # "set" /\ areq' = [areq EXCEPT ![r] = c]
      BY <2>3 DEF AccountRequest
    <2>. HIDE DEF c
    <2>. QED
      BY <2>2, <2>4, OneMoreClaim, ClaimsShrink
  <1>2. ASSUME NEW r \in Requests, CN!SaveGet(r) PROVE ClaimsInv'
    <2>. DEFINE c(pc) == [areq[r] EXCEPT !.pc = pc]
    <2>1. stored' = stored /\ CN!At(r, "get")
      BY <1>2 DEF CN!SaveGet
    <2>2. \A pc \in {"set", "list"} :
             c(pc) \in AccountRequest /\ c(pc).pc = pc /\ c(pc).email = areq[r].email
      BY <1>0, <2>1 DEF CN!At, AccountRequest
    <2>3. CASE areq[r].email \in stored /\ faults' = faults
      <3>1. areq' = [areq EXCEPT ![r] = c("set")]
        BY <1>2, <2>3 DEF CN!SaveGet, CN!Goto, ClaimsInv
      <3>. QED
        BY <2>1, <2>2, <2>3, <3>1, OneMoreClaim, ClaimsShrink
    <2>4. CASE areq[r].email \notin stored /\ faults' = faults
      <3>1. areq' = [areq EXCEPT ![r] = c("list")]
        BY <1>2, <2>4 DEF CN!SaveGet, CN!Goto, ClaimsInv
      <3>2. c("list").pc # "set"
        BY <2>2
      <3>. QED
        BY <2>1, <2>2, <2>4, <3>1, <3>2, OneMoreClaim, ClaimsShrink
    <2>5. CASE faults' = faults + 1
      <3>1. areq' = [areq EXCEPT ![r] = c("set")]
        BY <1>2, <2>5 DEF CN!SaveGet, CN!Goto, ClaimsInv
      <3>. QED
        BY <2>1, <2>2, <2>5, <3>1, OneMoreClaim, ClaimsGrow
    <2>. QED
      BY <1>2, <2>3, <2>4, <2>5 DEF CN!SaveGet
  <1>3. ASSUME NEW r \in Requests, CN!SaveList(r) PROVE ClaimsInv'
    <2>1. stored' = stored /\ faults' = faults
      BY <1>3 DEF CN!SaveList
    <2>2. CASE CN!HasRoom
      <3>. DEFINE setters == {q \in Requests : CN!At(q, "set")'}
                  emails == {areq'[q].email : q \in setters}
                  email[q \in setters] == areq'[q].email
      <3>1. email \in Surjection(setters, emails)
        BY DEF Surjection
      <3>2. Claimed' = stored \cup emails
        BY <2>1 DEF Claimed
      <3>. HIDE DEF setters, email
      <3>3. Cardinality(stored \cup emails) <= Quota + Cardinality(Requests) - 1
        BY <2>2, <3>1, RoomBoundsClaims DEF setters
      <3>4. IsFiniteSet(stored \cup emails)
        BY <3>1, FS_Surjection, FS_Union, FS_Subset, FilesAssumption, StoredIsFinite DEF setters
      <3>5. areq' \in [Requests -> AccountRequest \cup {None}]
        BY <1>0, <1>3, <2>2 DEF CN!SaveList, CN!Goto, CN!At, AccountRequest
      <3>. QED
        BY <2>1, <3>2, <3>3, <3>4, <3>5, FS_CardinalityType, FilesAssumption, BoundsAssumption
           DEF ClaimsInv
    <2>3. CASE ~CN!HasRoom
      <3>1. areq' = [areq EXCEPT ![r] = None]
        BY <1>3, <2>3 DEF CN!SaveList, CN!Done
      <3>. QED
        BY <2>1, <3>1, OneMoreClaim, ClaimsShrink
    <2>. QED
      BY <2>2, <2>3
  <1>4. ASSUME NEW r \in Requests, CN!SaveSet(r) PROVE ClaimsInv'
    <2>1. /\ areq' = [areq EXCEPT ![r] = None] /\ CN!At(r, "set")
          /\ stored' = stored \cup {areq[r].email} /\ faults' = faults
      BY <1>4 DEF CN!SaveSet, CN!Done
    <2>2. stored' \subseteq Claimed
      BY <2>1 DEF Claimed
    <2>3. Claimed' \subseteq Claimed
      BY <2>1, <2>2 DEF Claimed, CN!At, ClaimsInv
    <2>4. stored' \subseteq Emails /\ areq' \in [Requests -> AccountRequest \cup {None}]
      BY <1>0, <2>1 DEF CN!At, AccountRequest
    <2>. QED
      BY <2>1, <2>3, <2>4, ClaimsShrink DEF ClaimsInv
  <1>5. ASSUME NEW r \in Requests, CN!DeleteCheck(r) PROVE ClaimsInv'
    <2>. DEFINE c == [areq[r] EXCEPT !.pc = "delete"]
    <2>1. areq' = [areq EXCEPT ![r] = None] \/ areq' = [areq EXCEPT ![r] = c]
      BY <1>5 DEF CN!DeleteCheck, CN!Done, CN!Goto
    <2>2. stored' = stored /\ faults' = faults /\ CN!At(r, "check")
      BY <1>5 DEF CN!DeleteCheck
    <2>3. c \in AccountRequest /\ c.pc # "set"
      BY <1>0, <2>2 DEF CN!At, AccountRequest
    <2>. HIDE DEF c
    <2>. QED
      BY <2>1, <2>2, <2>3, OneMoreClaim, ClaimsShrink
  <1>6. ASSUME NEW r \in Requests, CN!Delete(r) \/ CN!Refuse(r) \/ CN!Merge(r)
        PROVE  ClaimsInv'
    <2>1. /\ areq' = [areq EXCEPT ![r] = None]
          /\ stored' \subseteq stored /\ faults' = faults
      BY <1>6 DEF CN!Delete, CN!Refuse, CN!Merge, CN!Done
    <2>. QED
      BY <2>1, OneMoreClaim, ClaimsShrink
  <1>7. ASSUME NEW r \in Requests, CN!handleUnified(r) \/ CN!FetchUnified(r)
        PROVE  ClaimsInv'
    <2>1. PICK accounts \in SUBSET Emails :
             areq' = [areq EXCEPT ![r] = CN!Fetching(accounts)]
      BY <1>0, <1>7 DEF CN!handleUnified, CN!FetchUnified
    <2>2. stored' = stored /\ faults' = faults
      BY <1>7 DEF CN!handleUnified, CN!FetchUnified
    <2>3. CN!Fetching(accounts) \in AccountRequest /\ CN!Fetching(accounts).pc # "set"
      BY DEF CN!Fetching, AccountRequest
    <2>. QED
      BY <2>1, <2>2, <2>3, OneMoreClaim, ClaimsShrink
  <1>8. ASSUME NEW r \in Requests, NEW a, CN!Result(r, a) PROVE ClaimsInv'
    <2>. DEFINE c == [areq[r] EXCEPT !.waiting = @ \ {a}]
    <2>1. /\ areq' = [areq EXCEPT ![r] = c] /\ CN!At(r, "fetch")
          /\ stored' = stored /\ faults' = faults
      BY <1>8 DEF CN!Result
    <2>2. c \in AccountRequest /\ c.pc # "set"
      BY <1>0, <2>1 DEF CN!At, AccountRequest
    <2>. HIDE DEF c
    <2>. QED
      BY <2>1, <2>2, OneMoreClaim, ClaimsShrink
  <1>9. CASE UNCHANGED CN!avars
    <2>1. stored' = stored /\ areq' = areq /\ faults' = faults
      BY <1>9 DEF CN!avars
    <2>2. Claimed' = Claimed
      BY <2>1 DEF Claimed, CN!At
    <2>. QED
      BY <2>1, <2>2 DEF ClaimsInv
  <1>. QED
    BY <1>1, <1>2, <1>3, <1>4, <1>5, <1>6, <1>7, <1>8, <1>9
       DEF CN!Next, CN!Answered, CN!Timeout

LEMMA ClaimsBound == ClaimsInv => CN!QuotaOvershoot
  <1>. SUFFICES ASSUME ClaimsInv PROVE CN!QuotaOvershoot
    OBVIOUS
  <1>1. stored \subseteq Claimed
    BY DEF Claimed
  <1>2. Cardinality(stored) <= Cardinality(Claimed)
    BY <1>1, ClaimsAreFinite, FS_Subset
  <1>. QED
    BY <1>2, ClaimsAreFinite, StoredIsFinite, SameCardinality, FS_CardinalityType,
       FilesAssumption, BoundsAssumption DEF ClaimsInv, CN!QuotaOvershoot

LEMMA QuotaAlone == CN!Spec => []CN!QuotaOvershoot
  BY ClaimsInit, ClaimsNext, ClaimsBound, PTL DEF CN!Spec

-----------------------------------------------------------------------------
(* The cache of brand logos: the order of insertion lists what is cached.  *)

(* A sequence of domains, each of a set once. *)
Lists(s, set) ==
    /\ s \in Seq(Domains)
    /\ \A i, j \in 1..Len(s) : s[i] = s[j] => i = j
    /\ set = {s[i] : i \in 1..Len(s)}

LEMMA ListsAppend ==
    ASSUME NEW s, NEW set, Lists(s, set), NEW d \in Domains, d \notin set
    PROVE  Lists(Append(s, d), set \cup {d})
  <1>1. /\ Append(s, d) \in Seq(Domains) /\ Len(Append(s, d)) = Len(s) + 1
        /\ \A i \in 1..Len(s) : Append(s, d)[i] = s[i]
        /\ Append(s, d)[Len(s) + 1] = d /\ Len(s) \in Nat
    BY DEF Lists
  <1>2. \A i \in 1..Len(s) : s[i] # d
    BY DEF Lists
  <1>. DEFINE t == Append(s, d)
  <1>. HIDE DEF t
  <1>3. \A i, j \in 1..(Len(s) + 1) : t[i] = t[j] => i = j
    BY <1>1, <1>2 DEF Lists, t
  <1>4. ASSUME NEW e \in set \cup {d} PROVE \E i \in 1..(Len(s) + 1) : e = t[i]
    <2>1. CASE e = d
      BY <1>1, <2>1 DEF t
    <2>2. CASE e \in set
      <3>1. PICK i \in 1..Len(s) : e = s[i]
        BY <2>2 DEF Lists
      <3>. QED
        BY <1>1, <3>1 DEF t
    <2>. QED
      BY <2>1, <2>2
  <1>5. ASSUME NEW i \in 1..(Len(s) + 1) PROVE t[i] \in set \cup {d}
    <2>1. CASE i = Len(s) + 1
      BY <1>1, <2>1 DEF t
    <2>2. CASE i \in 1..Len(s)
      BY <1>1, <2>2 DEF t, Lists
    <2>. QED
      BY <1>1, <2>1, <2>2
  <1>6. set \cup {d} = {t[i] : i \in 1..(Len(s) + 1)}
    BY <1>4, <1>5
  <1>. QED
    BY <1>1, <1>3, <1>6 DEF Lists, t

LEMMA ListsTail ==
    ASSUME NEW s, NEW set, Lists(s, set), s # <<>>
    PROVE  Lists(Tail(s), set \ {Head(s)})
  <1>1. /\ Tail(s) \in Seq(Domains) /\ Len(Tail(s)) = Len(s) - 1 /\ Len(s) \in Nat
        /\ \A i \in 1..(Len(s) - 1) : Tail(s)[i] = s[i + 1]
        /\ Head(s) = s[1] /\ Len(s) > 0
    BY DEF Lists
  <1>. DEFINE t == Tail(s)
  <1>. HIDE DEF t
  <1>2. \A i, j \in 1..(Len(s) - 1) : t[i] = t[j] => i = j
    <2>1. TAKE i, j \in 1..(Len(s) - 1)
    <2>2. i + 1 \in 1..Len(s) /\ j + 1 \in 1..Len(s)
      BY <1>1
    <2>. QED
      BY <1>1, <2>2 DEF Lists, t
  <1>3. ASSUME NEW e \in set \ {Head(s)} PROVE \E i \in 1..(Len(s) - 1) : e = t[i]
    <2>1. PICK i \in 1..Len(s) : e = s[i]
      BY DEF Lists
    <2>2. i - 1 \in 1..(Len(s) - 1) /\ (i - 1) + 1 = i
      BY <1>1, <2>1
    <2>. QED
      BY <1>1, <2>1, <2>2 DEF t
  <1>4. ASSUME NEW i \in 1..(Len(s) - 1) PROVE t[i] \in set \ {Head(s)}
    <2>1. i + 1 \in 1..Len(s) /\ 1 \in 1..Len(s) /\ i + 1 # 1
      BY <1>1
    <2>. QED
      BY <1>1, <2>1 DEF Lists, t
  <1>5. set \ {Head(s)} = {t[i] : i \in 1..(Len(s) - 1)}
    BY <1>3, <1>4
  <1>. QED
    BY <1>1, <1>2, <1>5 DEF Lists, t

Cached == {d \in Domains : cache[d] # None}

LogosInv ==
    /\ Lists(order, Cached)
    /\ Len(order) <= MaxEntries

CallersInv ==
    /\ DOMAIN caller = Warmers
    /\ \A c \in Warmers : caller[c] # None => caller[c].domain \in Domains

LEMMA CallersNext ==
    CallersInv /\ [BC!Next]_(BC!bvars) => CallersInv'
  <1>. SUFFICES ASSUME CallersInv, [BC!Next]_(BC!bvars) PROVE CallersInv'
    OBVIOUS
  <1>. USE DEF CallersInv
  <1>1. ASSUME NEW c \in Warmers, BC!Open(c) PROVE CallersInv'
    BY <1>1 DEF BC!Open
  <1>2. ASSUME NEW c \in Warmers, BC!Mark(c) \/ BC!Resolve(c) PROVE CallersInv'
    BY <1>2 DEF BC!Mark, BC!Resolve
  <1>3. ASSUME caller' = caller PROVE CallersInv'
    BY <1>3
  <1>. QED
    BY <1>1, <1>2, <1>3 DEF BC!Next, BC!Warm, BC!WarmEnds, BC!Expire, BC!bvars

LEMMA PutKeepsOrder ==
    ASSUME LogosInv, NEW d \in Domains, NEW result \in BC!Results, BC!CachePut(d, result)
    PROVE  LogosInv'
  <1>. USE BoundsAssumption DEF LogosInv, BC!Results
  <1>0. order \in Seq(Domains) /\ Len(order) \in Nat
    BY DEF Lists
  <1>1. CASE cache[d] # None
    <2>1. Cached' = Cached /\ order' = order
      BY <1>1 DEF BC!CachePut, BC!OrderAfter, BC!Evicted, Cached
    <2>. QED
      BY <2>1
  <1>2. CASE cache[d] = None /\ Len(order) < MaxEntries
    <2>1. Cached' = Cached \cup {d} /\ d \notin Cached /\ order' = Append(order, d)
      BY <1>0, <1>2 DEF BC!CachePut, BC!OrderAfter, BC!Evicted, Cached
    <2>2. Len(order') <= MaxEntries
      BY <1>0, <1>2, <2>1
    <2>. QED
      BY <2>1, <2>2, ListsAppend
  <1>3. CASE cache[d] = None /\ Len(order) >= MaxEntries
    <2>1. /\ Cached' = (Cached \ {Head(order)}) \cup {d} /\ d \notin Cached \ {Head(order)}
          /\ order' = Append(Tail(order), d)
      BY <1>0, <1>3 DEF BC!CachePut, BC!OrderAfter, BC!Evicted, Cached
    <2>2. order # <<>>
      BY <1>0, <1>3
    <2>3. Lists(Tail(order), Cached \ {Head(order)})
      BY <2>2, ListsTail
    <2>4. Lists(order', Cached')
      BY <2>1, <2>3, ListsAppend
    <2>5. Len(order') <= MaxEntries
      BY <1>0, <2>1, <2>2
    <2>. QED
      BY <2>4, <2>5
  <1>. QED
    BY <1>0, <1>1, <1>2, <1>3

LEMMA LogosInit == BC!Init => LogosInv /\ CallersInv
  <1>. SUFFICES ASSUME BC!Init PROVE LogosInv /\ CallersInv
    OBVIOUS
  <1>1. order = <<>> /\ Cached = {}
    BY DEF BC!Init, Cached
  <1>. QED
    BY <1>1, BoundsAssumption DEF BC!Init, LogosInv, CallersInv, Lists

LEMMA LogosNext == LogosInv /\ CallersInv /\ [BC!Next]_(BC!bvars) => LogosInv'
  <1>. SUFFICES ASSUME LogosInv, CallersInv, [BC!Next]_(BC!bvars) PROVE LogosInv'
    OBVIOUS
  <1>1. ASSUME cache' = cache, order' = order PROVE LogosInv'
    BY <1>1 DEF LogosInv, Cached
  <1>2. ASSUME NEW c \in Warmers, BC!Open(c) \/ BC!Mark(c) PROVE LogosInv'
    BY <1>1, <1>2 DEF BC!Open, BC!Mark
  <1>3. ASSUME NEW c \in Warmers, BC!Resolve(c) PROVE LogosInv'
    BY <1>3, PutKeepsOrder DEF BC!Resolve, CallersInv
  <1>4. ASSUME NEW d \in Domains, BC!Warm(d) PROVE LogosInv'
    BY <1>4, PutKeepsOrder DEF BC!Warm
  <1>5. ASSUME NEW d \in Domains, BC!WarmEnds(d) PROVE LogosInv'
    BY <1>1, <1>5 DEF BC!WarmEnds
  <1>6. CASE BC!Expire
    <2>1. order' = order /\ Cached' = Cached
      BY <1>6, BoundsAssumption DEF BC!Expire, BC!Hit, Cached
    <2>. QED
      BY <2>1 DEF LogosInv
  <1>7. CASE UNCHANGED BC!bvars
    BY <1>1, <1>7 DEF BC!bvars
  <1>. QED
    BY <1>2, <1>3, <1>4, <1>5, <1>6, <1>7 DEF BC!Next

LEMMA LogosOrdered == LogosInv => BC!OrderIsTheCache /\ Len(order) <= MaxEntries
  BY DEF LogosInv, Lists, BC!OrderIsTheCache, BC!ToSet, Cached

LEMMA OrderAlone ==
    BC!Spec => []BC!OrderIsTheCache /\ [](Len(order) <= MaxEntries)
  BY LogosInit, CallersNext, LogosNext, LogosOrdered, PTL DEF BC!Spec

-----------------------------------------------------------------------------
(* Types. *)

LEMMA SessionFileTyped == SS!Spec => []SS!TypeOK
  <1>1. SS!Init => SS!TypeOK
    BY DEF SS!Init, SS!TypeOK
  <1>2. SS!TypeOK /\ [SS!Next]_(SS!vars) => SS!TypeOK'
    <2>. SUFFICES ASSUME SS!TypeOK, [SS!Next]_(SS!vars) PROVE SS!TypeOK'
      OBVIOUS
    <2>. USE DEF SS!TypeOK
    <2>1. ASSUME NEW c \in Callers, SS!Begin(c) \/ SS!RLock(c) \/ SS!Read(c) \/ SS!Truncate(c)
          PROVE  SS!TypeOK'
      BY <2>1 DEF SS!Begin, SS!RLock, SS!Read, SS!Truncate, SS!Goto
    <2>2. ASSUME NEW c \in Callers, SS!Delete(c) \/ SS!Write(c)
          PROVE  SS!TypeOK'
      BY <2>2 DEF SS!Delete, SS!Write, SS!Unlock
    <2>3. CASE SS!Expire \/ SS!Crash
      BY <2>3 DEF SS!Expire, SS!Crash
    <2>4. CASE UNCHANGED SS!vars
      BY <2>4 DEF SS!vars
    <2>. QED
      BY <2>1, <2>2, <2>3, <2>4 DEF SS!Next, SS!Acquire, SS!Step
  <1>. QED
    BY <1>1, <1>2, PTL DEF SS!Spec

LogoTypes ==
    /\ cache \in [Domains -> {"logo", "nothing", "expired", None}]
    /\ inflight \subseteq Domains
    /\ warm \in [Domains -> {"resolve", "end", None}]
    /\ DOMAIN caller = Warmers
    /\ \A c \in Warmers : caller[c] # None =>
          caller[c] \in [pc : {"missed", "resolve"}, domain : Domains]

LEMMA LogoTypesNext == LogoTypes /\ [BC!Next]_(BC!bvars) => LogoTypes'
  <1>. SUFFICES ASSUME LogoTypes, [BC!Next]_(BC!bvars) PROVE LogoTypes'
    OBVIOUS
  <1>. USE DEF LogoTypes
  <1>1. ASSUME NEW c \in Warmers, BC!Open(c) PROVE LogoTypes'
    BY <1>1 DEF BC!Open
  <1>2. ASSUME NEW c \in Warmers, BC!Mark(c) PROVE LogoTypes'
    BY <1>2 DEF BC!Mark
  <1>3. ASSUME NEW d \in Domains, NEW result \in BC!Results, BC!CachePut(d, result)
        PROVE  cache' \in [Domains -> {"logo", "nothing", "expired", None}]
    BY <1>3 DEF BC!CachePut, BC!Results
  <1>4. ASSUME NEW c \in Warmers, BC!Resolve(c) PROVE LogoTypes'
    BY <1>3, <1>4 DEF BC!Resolve
  <1>5. ASSUME NEW d \in Domains, BC!Warm(d) \/ BC!WarmEnds(d) PROVE LogoTypes'
    BY <1>3, <1>5 DEF BC!Warm, BC!WarmEnds
  <1>6. CASE BC!Expire
    BY <1>6 DEF BC!Expire
  <1>7. CASE UNCHANGED BC!bvars
    BY <1>7 DEF BC!bvars
  <1>. QED
    BY <1>1, <1>2, <1>4, <1>5, <1>6, <1>7 DEF BC!Next

LEMMA LogosTyped == BC!Spec => []BC!TypeOK
  <1>1. BC!Init => LogoTypes
    BY DEF BC!Init, LogoTypes
  <1>2. LogoTypes /\ LogosInv => BC!TypeOK
    BY DEF LogoTypes, LogosInv, Lists, BC!TypeOK
  <1>. QED
    BY <1>1, <1>2, LogoTypesNext, LogosInit, LogosNext, CallersNext, PTL DEF BC!Spec

LEMMA AccountsTyped == CN!Spec => []CN!TypeOK
  <1>. DEFINE FaultsInv == faults \in 0..MaxFaults
  <1>1. CN!Init => FaultsInv
    BY BoundsAssumption DEF CN!Init
  <1>2. FaultsInv /\ [CN!Next]_(CN!avars) => FaultsInv'
    <2>. SUFFICES ASSUME FaultsInv, [CN!Next]_(CN!avars) PROVE FaultsInv'
      OBVIOUS
    <2>1. faults' = faults \/ (faults < MaxFaults /\ faults' = faults + 1)
      BY DEF CN!Next, CN!avars, CN!handleAddConnectedAccount, CN!SaveGet, CN!SaveList,
             CN!SaveSet, CN!handleDeleteConnectedAccount, CN!DeleteCheck, CN!Delete,
             CN!Refuse, CN!handleUnified, CN!FetchUnified, CN!Answered, CN!Timeout,
             CN!Result, CN!Merge
    <2>. QED
      BY <2>1, BoundsAssumption
  <1>3. ClaimsInv /\ FaultsInv => CN!TypeOK
    BY DEF ClaimsInv, AccountRequest, CN!TypeOK, CN!Phases
  <1>. QED
    BY <1>1, <1>2, <1>3, ClaimsInit, ClaimsNext, PTL DEF CN!Spec

-----------------------------------------------------------------------------
(* The composition: what holds of a component alone holds beside others.   *)

(* Side by side in one server each component behaves as it does alone.     *)
THEOREM ComponentsComposed == MCSpec => SS!Spec /\ Spec /\ BC!Spec /\ CN!Spec
  <1>1. MCInit => SS!Init /\ Init /\ BC!Init /\ CN!Init
    BY DEF MCInit
  <1>2. [MCNext]_<<part, vars, fileVars, bimiVars, accountVars>>
           => /\ [SS!Next]_(SS!vars) /\ [Next]_vars
              /\ [CN!Next]_(CN!avars) /\ [BC!Next]_(BC!bvars)
    BY DEF MCNext, fileVars, accountVars, bimiVars, SS!vars, CN!avars, BC!bvars
  <1>. QED
    BY <1>1, <1>2, PTL DEF MCSpec, SS!Spec, Spec, BC!Spec, CN!Spec

(* The quota is overshot by the other requests under way and by reads that *)
(* failed, for any quota and number of requests, and not more with time.   *)
THEOREM QuotaNotOutgrown == MCSpec => []QuotaOvershoot
  <1>1. CN!QuotaOvershoot => QuotaOvershoot
    BY DEF QuotaOvershoot
  <1>. QED
    BY ComponentsComposed, QuotaAlone, <1>1, PTL

(* The order of insertion lists every cached domain once and nothing else, *)
(* and the cache never outgrows its bound.                                 *)
THEOREM OrderListsTheCache == MCSpec => []OrderIsTheCache /\ [](Len(order) <= MaxEntries)
  <1>1. BC!OrderIsTheCache => OrderIsTheCache
    BY DEF OrderIsTheCache
  <1>. QED
    BY ComponentsComposed, OrderAlone, <1>1, PTL

(* Every variable of every component keeps its type, and the cache of brand *)
(* logos its bound, whatever the requests, callers and timers do.          *)
THEOREM TypesCorrect == MCSpec => []TypesOK
  <1>1. FilesInv => TypeOK
    BY DEF FilesInv
  <1>2. SS!TypeOK /\ TypeOK /\ BC!TypeOK /\ CN!TypeOK => TypesOK
    BY DEF TypesOK
  <1>. QED
    BY <1>1, <1>2, ComponentsComposed, SessionFileTyped, FilesInvariant, LogosTyped,
       AccountsTyped, PTL

=============================================================================
