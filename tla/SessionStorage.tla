--------------------------- MODULE SessionStorage ---------------------------
(***************************************************************************)
(* The session files of storage/session.go: one file per session id,       *)
(* behind one read-write mutex.  Requests call Get, Set and Delete; the    *)
(* mutex is Go's: a writer that waits keeps new readers out.  The file of  *)
(* one session is modelled; a Set is the truncation and the write that     *)
(* os.WriteFile makes of it.                                               *)
(***************************************************************************)
CONSTANTS Callers

VARIABLES
    file,      \* "none", "live", "expired", or "torn": not readable
    call       \* where each request is in Get, Set or Delete

vars == <<file, call>>

TypeOK ==
    /\ file \in {"none", "live", "expired", "torn"}
    /\ call \in [Callers -> {"idle", "get", "reading", "upgrade",
                             "set", "writing", "delete"}]

Init ==
    /\ file = "none"
    /\ call = [c \in Callers |-> "idle"]

In(phases) == {c \in Callers : call[c] \in phases}

Goto(c, phase) == call' = [call EXCEPT ![c] = phase]

(* sync.RWMutex: Get holds the read lock until it returns, the Delete it   *)
(* calls on an expired session included.                                   *)
Readers == In({"reading", "upgrade"})
Writing == In({"writing"})
WaitingWriters == In({"set", "delete", "upgrade"})

CanRead == Writing = {} /\ WaitingWriters = {}
CanWrite == Writing = {} /\ Readers = {}

Begin(c) ==
    /\ call[c] = "idle"
    /\ \E op \in {"get", "set", "delete"} : Goto(c, op)
    /\ UNCHANGED file

RLock(c) ==
    /\ call[c] = "get" /\ CanRead
    /\ Goto(c, "reading")
    /\ UNCHANGED file

(* A missing file is an empty session; an unreadable one an error; an      *)
(* expired one is deleted before Get returns.                              *)
Read(c) ==
    /\ call[c] = "reading"
    /\ Goto(c, IF file = "expired" THEN "upgrade" ELSE "idle")
    /\ UNCHANGED file

(* Unlock lets the readers in that waited. *)
Unlock(c) ==
    call' = [d \in Callers |-> IF d = c THEN "idle"
                               ELSE IF call[d] = "get" THEN "reading"
                               ELSE call[d]]

(* Reset, which nothing calls, does the same to every file. *)
Delete(c) ==
    /\ call[c] \in {"delete", "upgrade"} /\ CanWrite
    /\ file' = "none"
    /\ Unlock(c)

Truncate(c) ==
    /\ call[c] = "set" /\ CanWrite
    /\ file' = "torn"
    /\ Goto(c, "writing")

(* A writer that does not release the mutex. *)
WriteAndKeep(c) ==
    /\ call[c] = "writing"
    /\ file' = "live"
    /\ UNCHANGED call

Write(c) ==
    /\ call[c] = "writing"
    /\ file' \in {"live", "torn"}
    /\ Unlock(c)

Expire ==
    /\ file = "live"
    /\ file' = "expired"
    /\ UNCHANGED call

Crash ==
    /\ call' = [c \in Callers |-> "idle"]
    /\ UNCHANGED file

Step(c) == Read(c) \/ Write(c)

Acquire(c) == RLock(c) \/ Delete(c) \/ Truncate(c)

Next ==
    \/ \E c \in Callers : Begin(c) \/ Acquire(c) \/ Step(c)
    \/ Expire
    \/ Crash

(* Goroutines run, and Go's mutex starves neither readers nor writers.     *)
Fairness == \A c \in Callers : WF_vars(Step(c)) /\ SF_vars(Acquire(c))

Spec == Init /\ [][Next]_vars /\ Fairness

(* Every call returns, unless a Get waits for the write lock while it      *)
(* holds the read lock.                                                    *)
StuckOnlyByUpgrade ==
    \A c \in Callers :
        call[c] # "idle" ~> call[c] = "idle" \/ In({"upgrade"}) # {}

(* "Clean up expired session" (session.go:50): a Get that finds a session  *)
(* expired removes its file and returns.  It does not: the Delete it calls *)
(* waits for the read lock it holds itself.                                *)
ExpiredIsCleanedUp ==
    \A c \in Callers : call[c] = "upgrade" ~> call[c] = "idle"

=============================================================================
