------------------------ MODULE ScheduledSendProofs ------------------------
(* Theorems about ScheduledSend, and that it implements Outbox, for every *)
(* value of its constants.                                               *)
EXTENDS ScheduledSend, FiniteSetTheorems, TLAPS

-----------------------------------------------------------------------------
(* Type correctness *)

(* Setting one field of a history entry. *)
LEMMA LogField ==
    ASSUME NEW l \in Log, NEW c \in BOOLEAN, NEW e \in Nat
    PROVE  /\ [l EXCEPT !.issued = c] \in Log
           /\ [l EXCEPT !.promised = c] \in Log
           /\ [l EXCEPT !.cancelled = c] \in Log
           /\ [l EXCEPT !.poisoned = c] \in Log
           /\ [l EXCEPT !.unpersisted = c] \in Log
           /\ [l EXCEPT !.delivered = e] \in Log
           /\ [l EXCEPT !.failures = e] \in Log
           /\ [l EXCEPT !.lost = e] \in Log
           /\ [l EXCEPT !.edits = e] \in Log
  BY DEF Log

(* Every edit an action makes of a history entry yields a history entry. *)
LEMMA LogEdits ==
    ASSUME NEW l \in Log, NEW c \in BOOLEAN, NEW e \in Nat
    PROVE  /\ [l EXCEPT !.issued = TRUE] \in Log
           /\ [l EXCEPT !.unpersisted = @ \/ c] \in Log
           /\ [l EXCEPT !.cancelled = @ \/ c] \in Log
           /\ [l EXCEPT !.delivered = @ + 1] \in Log
           /\ [l EXCEPT !.failures = @ + 1, !.lost = e] \in Log
           /\ \A r \in Record : Promised(l, r, e) \in Log
<1>1. /\ (l.unpersisted \/ c) \in BOOLEAN
      /\ (l.cancelled \/ c) \in BOOLEAN
  BY DEF Log
<1>2. l.delivered + 1 \in Nat /\ l.failures + 1 \in Nat
  BY DEF Log
<1>3. [l EXCEPT !.failures = @ + 1, !.lost = e] \in Log
  BY <1>2, LogField
<1>4. ASSUME NEW r \in Record PROVE Promised(l, r, e) \in Log
  <2>1. [l EXCEPT !.promised = TRUE] \in Log
    BY LogField
  <2>2. (l.poisoned \/ r.body \in Poison) \in BOOLEAN
    BY DEF Log
  <2>3. [l EXCEPT !.promised = TRUE,
                  !.poisoned = @ \/ r.body \in Poison] \in Log
    BY <2>1, <2>2, LogField
  <2>4. l.edits + e \in Nat
    BY DEF Log
  <2>5. QED
    BY <2>3, <2>4, LogField DEF Promised
<1>5. QED
  BY <1>1, <1>2, <1>3, <1>4, LogField

(* A process that is inside a call holds a record under a key. *)
LEMMA JobHeld ==
    ASSUME TypeOK, NEW p \in Procs,
           pc[p] \notin {"off", "boot", "idle", "fire", "stopped"}
    PROVE  /\ job[p] \in Job /\ job[p] # None
           /\ job[p].key \in Keys /\ job[p].rec \in Record
  BY DEF TypeOK, ControlType, Job

(* Ending a call, or dropping the record after a failed Put, keeps control *)
(* well typed.                                                             *)
LEMMA ReturnControl ==
    ASSUME ControlType, NEW p \in Procs, Return(p)
    PROVE  ControlType'
<1> USE ProcAssumption DEF Procs
<1>1. pc' \in [Procs -> NodeLabels \cup HandlerLabels]
  BY DEF Return, Goto, ControlType, NodeLabels, HandlerLabels
<1>2. /\ \A n \in Nodes : pc'[n] \in NodeLabels
      /\ \A h \in Handlers : pc'[h] \in HandlerLabels
  BY DEF Return, Goto, ControlType, NodeLabels, HandlerLabels
<1>3. job' \in [Procs -> Job \cup {None}]
  BY DEF Return, ControlType
<1>4. \A q \in Procs :
         job'[q] = None <=> pc'[q] \in {"off", "boot", "idle", "fire", "stopped"}
  BY DEF Return, Goto, ControlType
<1>5. req' \in [Handlers -> [op : {"none", "create", "cancel", "patch"},
                             account : Accounts \cup {None}]]
  BY DEF Return, ControlType, NoReq
<1>6. QED
  BY <1>1, <1>2, <1>3, <1>4, <1>5 DEF ControlType

(* Moving inside a call keeps control well typed. *)
LEMMA GotoControl ==
    ASSUME ControlType, NEW p \in Procs, NEW l,
           pc[p] \notin {"off", "boot", "idle", "fire", "stopped"},
           l \notin {"off", "boot", "idle", "fire", "stopped"},
           p \in Nodes => l \in NodeLabels,
           p \in Handlers => l \in HandlerLabels,
           Goto(p, l), UNCHANGED <<job, req>>
    PROVE  ControlType'
<1> USE ProcAssumption DEF Procs
<1>1. /\ pc' \in [Procs -> NodeLabels \cup HandlerLabels]
      /\ \A n \in Nodes : pc'[n] \in NodeLabels
      /\ \A h \in Handlers : pc'[h] \in HandlerLabels
  BY DEF Goto, ControlType
<1>2. \A q \in Procs :
         job'[q] = None <=> pc'[q] \in {"off", "boot", "idle", "fire", "stopped"}
  BY DEF Goto, ControlType
<1>3. QED
  BY <1>1, <1>2 DEF ControlType

(* A failed Put ends a request, or sends the drain to drop the record. *)
LEMMA PutFailedControl ==
    ASSUME ControlType, NEW p \in Procs, PutFailed(p),
           pc[p] \in {"putList", "putSet"}
    PROVE  ControlType'
<1>1. CASE p \in Nodes
  BY <1>1, GotoControl, ProcAssumption DEF PutFailed, NodeLabels, Procs
<1>2. CASE p \notin Nodes
  BY <1>2, ReturnControl DEF PutFailed
<1>3. QED
  BY <1>1, <1>2

(* The initial state is well typed. *)
LEMMA TypeInit == Init => TypeOK
<1> SUFFICES ASSUME Init PROVE ControlType /\ DataType
  BY DEF TypeOK
<1>1. ControlType
  BY ProcAssumption, DataAssumption
     DEF Init, ControlType, Procs, NodeLabels, HandlerLabels, NoReq
<1>2. NoLog \in Log
  BY DEF NoLog, Log
<1>3. DataType
  BY <1>2 DEF Init, DataType
<1>4. QED
  BY <1>1, <1>3

(* A request starts: its handler leaves "idle" holding a record. *)
LEMMA RequestControl ==
    ASSUME ControlType, NEW h \in Handlers, NEW a \in Accounts,
           NEW op \in {"create", "cancel", "patch"}, NEW j \in Job,
           NEW l \in {"del", "putGet"},
           Request(h, op, a), job' = [job EXCEPT ![h] = j], Goto(h, l)
    PROVE  ControlType'
<1> USE ProcAssumption, DataAssumption DEF Procs
<1>1. /\ pc' \in [Procs -> NodeLabels \cup HandlerLabels]
      /\ \A n \in Nodes : pc'[n] \in NodeLabels
      /\ \A g \in Handlers : pc'[g] \in HandlerLabels
  BY DEF Goto, ControlType, NodeLabels, HandlerLabels
<1>2. job' \in [Procs -> Job \cup {None}]
  BY DEF ControlType
<1>3. \A q \in Procs :
         job'[q] = None <=> pc'[q] \in {"off", "boot", "idle", "fire", "stopped"}
  BY DEF Goto, ControlType
<1>4. req' \in [Handlers -> [op : {"none", "create", "cancel", "patch"},
                             account : Accounts \cup {None}]]
  BY DEF Request, ControlType
<1>5. QED
  BY <1>1, <1>2, <1>3, <1>4 DEF ControlType

(* Counting a request, a fault or a crash. *)
LEMMA SpentEdits ==
    ASSUME NEW s \in [requests : Nat, faults : Nat, crashes : Nat]
    PROVE  /\ [s EXCEPT !.requests = @ + 1]
                 \in [requests : Nat, faults : Nat, crashes : Nat]
           /\ [s EXCEPT !.faults = @ + 1]
                 \in [requests : Nat, faults : Nat, crashes : Nat]
           /\ [s EXCEPT !.crashes = @ + 1]
                 \in [requests : Nat, faults : Nat, crashes : Nat]
  OBVIOUS

(* The first step of a request keeps the types. *)
LEMMA TypeHandlers ==
    ASSUME TypeOK, NEW h \in Handlers, Handle(h)
    PROVE  TypeOK'
<1> USE ProcAssumption, DataAssumption
<1>1. CASE Create(h)
  <2>1. PICK k \in Keys, t \in Times, b \in Bodies :
           /\ Request(h, "create", k[1])
           /\ job' = [job EXCEPT ![h] =
                [key |-> k,
                 rec |-> [account |-> k[1], sendAt |-> t, body |-> b,
                          enc |-> encKey[Host[h]], attempts |-> 0]]]
           /\ log' = [log EXCEPT ![k].issued = TRUE]
           /\ Goto(h, "putGet")
           /\ UNCHANGED <<now, store, batch, stopping, encKey>>
    BY <1>1 DEF Create
  <2>2. k[1] \in Accounts /\ encKey[Host[h]] \in Nat /\ t \in Nat
    BY DEF Keys, TypeOK, DataType
  <2>3. [key |-> k,
         rec |-> [account |-> k[1], sendAt |-> t, body |-> b,
                  enc |-> encKey[Host[h]], attempts |-> 0]] \in Job
    BY <2>2 DEF Job, Record
  <2>4. ControlType'
    BY <2>1, <2>2, <2>3, RequestControl DEF TypeOK
  <2>5. log' \in [Keys -> Log]
    BY <2>1, LogEdits DEF TypeOK, DataType
  <2>6. DataType'
    BY <2>1, <2>5, SpentEdits DEF Request, TypeOK, DataType
  <2>7. QED
    BY <2>4, <2>6 DEF TypeOK
<1>2. CASE CancelGet(h)
  <2>1. PICK a \in Accounts, k \in Keys :
           /\ Request(h, "cancel", a) /\ Owned(a, k)
           /\ job' = [job EXCEPT ![h] = [key |-> k, rec |-> store[k]]]
           /\ Goto(h, "del")
    BY <1>2 DEF CancelGet
  <2>2. [key |-> k, rec |-> store[k]] \in Job
    BY <2>1 DEF Owned, Addressed, Stored, Job, TypeOK, DataType
  <2>3. ControlType'
    BY <2>1, <2>2, RequestControl DEF TypeOK
  <2>4. DataType'
    BY <1>2, <2>1, SpentEdits DEF CancelGet, Request, TypeOK, DataType
  <2>5. QED
    BY <2>3, <2>4 DEF TypeOK
<1>3. CASE PatchGet(h)
  <2>1. PICK a \in Accounts, k \in Keys :
           /\ Request(h, "patch", a)
           /\ Owned(a, k)
           /\ \E b \in Bodies, t \in Instants(k) :
                 job' = [job EXCEPT ![h] = [key |-> k, rec |-> Edited(k, t, b)]]
           /\ Goto(h, "putGet")
           /\ UNCHANGED <<now, store, batch, stopping, encKey, log>>
    BY <1>3 DEF PatchGet
  <2>2. PICK b \in Bodies, t \in Instants(k) :
           job' = [job EXCEPT ![h] = [key |-> k, rec |-> Edited(k, t, b)]]
    BY <2>1
  <2>3. store[k] \in Record /\ t \in Nat
    BY <2>1 DEF Owned, Addressed, Stored, TypeOK, DataType, Record, Instants
  <2>4. [key |-> k, rec |-> Edited(k, t, b)] \in Job
    BY <2>3 DEF Job, Record, Edited
  <2>5. ControlType'
    BY <2>1, <2>2, <2>4, RequestControl DEF TypeOK
  <2>6. DataType'
    BY <1>3, <2>1, SpentEdits DEF PatchGet, Request, TypeOK, DataType
  <2>7. QED
    BY <2>5, <2>6 DEF TypeOK
<1>4. QED
  BY <1>1, <1>2, <1>3 DEF Handle

(* The three steps of scheduleStore.Put keep the types. *)
LEMMA TypePut ==
    ASSUME TypeOK, NEW p \in Procs, Put(p)
    PROVE  TypeOK'
<1> USE ProcAssumption
<1>1. CASE PutGet(p)
  <2>1. \E l \in {"putSet", "putList"} : Goto(p, l)
    BY <1>1 DEF PutGet
  <2>2. ControlType'
    BY <1>1, <2>1, GotoControl DEF PutGet, TypeOK, NodeLabels, HandlerLabels
  <2>3. DataType'
    BY <1>1, SpentEdits DEF PutGet, KVFault, TypeOK, DataType
  <2>4. QED
    BY <2>2, <2>3 DEF TypeOK
<1>2. CASE PutList(p)
  <2>1. ControlType'
    <3>1. CASE Goto(p, "putSet") /\ UNCHANGED <<job, req>>
      BY <1>2, <3>1, GotoControl DEF PutList, TypeOK, NodeLabels, HandlerLabels
    <3>2. CASE PutFailed(p)
      BY <1>2, <3>2, PutFailedControl DEF PutList, TypeOK
    <3>3. QED
      BY <1>2, <3>1, <3>2 DEF PutList
  <2>2. log' \in [Keys -> Log]
    <3>1. job[p].key \in Keys
      BY <1>2, JobHeld DEF PutList
    <3>2. (p \in Nodes) \in BOOLEAN
      OBVIOUS
    <3>3. CASE log' = log
      BY <3>3 DEF TypeOK, DataType
    <3>4. CASE log' = [log EXCEPT ![job[p].key].unpersisted = @ \/ p \in Nodes]
      BY <3>1, <3>2, <3>4, LogEdits DEF TypeOK, DataType
    <3>5. QED
      BY <1>2, <3>3, <3>4 DEF PutList
  <2>3. DataType'
    BY <1>2, <2>2, SpentEdits DEF PutList, KVFault, TypeOK, DataType
  <2>4. QED
    BY <2>1, <2>3 DEF TypeOK
<1>3. CASE PutSet(p)
  <2>1. ControlType'
    BY <1>3, ReturnControl, PutFailedControl DEF PutSet, TypeOK
  <2>2. job[p].key \in Keys /\ job[p].rec \in Record
    BY <1>3, JobHeld DEF PutSet
  <2>3. log' \in [Keys -> Log]
    <3>1. CASE log' = log
      BY <3>1 DEF TypeOK, DataType
    <3>2. CASE log' = [log EXCEPT ![job[p].key].unpersisted = @ \/ p \in Nodes]
      <4>1. (p \in Nodes) \in BOOLEAN
        OBVIOUS
      <4>2. QED
        BY <3>2, <2>2, <4>1, LogEdits DEF TypeOK, DataType
    <3>3. CASE log' = [log EXCEPT ![job[p].key] =
                         Promised(@, job[p].rec, IF req[p].op = "patch"
                                                 THEN 1 ELSE 0)]
      BY <3>3, <2>2, LogEdits DEF TypeOK, DataType
    <3>4. QED
      BY <1>3, <3>1, <3>2, <3>3 DEF PutSet
  <2>4. DataType'
    BY <1>3, <2>2, <2>3, SpentEdits DEF PutSet, KVFault, TypeOK, DataType
  <2>5. QED
    BY <2>1, <2>4 DEF TypeOK
<1>4. QED
  BY <1>1, <1>2, <1>3 DEF Put

(* scheduleStore.Delete keeps the types. *)
LEMMA TypeDelete ==
    ASSUME TypeOK, NEW p \in Procs, Delete(p)
    PROVE  TypeOK'
<1>1. ControlType'
  BY ReturnControl DEF Delete, TypeOK
<1>2. job[p].key \in Keys
  BY JobHeld DEF Delete
<1>3. (pc[p] = "del") \in BOOLEAN
  OBVIOUS
<1>4. log' \in [Keys -> Log]
  <2>1. CASE log' = log
    BY <2>1 DEF TypeOK, DataType
  <2>2. CASE log' = [log EXCEPT ![job[p].key].cancelled = @ \/ pc[p] = "del"]
    BY <1>2, <1>3, <2>2, LogEdits DEF TypeOK, DataType
  <2>3. QED
    BY <2>1, <2>2 DEF Delete
<1>5. DataType'
  BY <1>2, <1>4, SpentEdits DEF Delete, KVFault, TypeOK, DataType
<1>6. QED
  BY <1>1, <1>5 DEF TypeOK

(* The steps of a drain pass keep the types. *)
LEMMA TypeDrain ==
    ASSUME TypeOK, NEW n \in Nodes, Drain(n)
    PROVE  TypeOK'
<1> USE ProcAssumption, DataAssumption
<1>1. CASE Poll(n) \/ PollFault(n) \/ PassDone(n)
  <2>1. ControlType'
    BY <1>1 DEF Poll, PollFault, AtPoll, PassDone, Goto, TypeOK, ControlType, Procs,
                NodeLabels, HandlerLabels
  <2>2. \A k \in DueKeys : [key |-> k, rec |-> store[k]] \in Job
    BY DEF DueKeys, Stored, Job, TypeOK, DataType
  <2>3. batch' \in [Nodes -> SUBSET Job]
    BY <1>1, <2>2 DEF Poll, PollFault, PassDone, TypeOK, DataType
  <2>4. DataType'
    BY <1>1, <2>3, SpentEdits DEF Poll, PollFault, PassDone, KVFault, TypeOK,
                                  DataType
  <2>5. QED
    BY <2>1, <2>4 DEF TypeOK
<1>2. CASE Fire(n)
  <2>1. PICK s \in batch[n] :
           /\ batch' = [batch EXCEPT ![n] = @ \ {s}]
           /\ \/ UNCHANGED <<pc, job>>
              \/ /\ job' = [job EXCEPT ![n] = s]
                 /\ \E l \in {"drop", "smtp"} : Goto(n, l)
    BY <1>2 DEF Fire
  <2>2. s \in Job /\ s # None /\ n \in Procs /\ UNCHANGED req
    BY <1>2 DEF TypeOK, DataType, Procs, Fire
  <2>3. ControlType'
    BY <1>2, <2>1, <2>2 DEF Goto, TypeOK, ControlType, Procs, NodeLabels,
                            HandlerLabels
  <2>4. DataType'
    BY <1>2, <2>1 DEF Fire, TypeOK, DataType
  <2>5. QED
    BY <2>3, <2>4 DEF TypeOK
<1>3. CASE SmtpAccept(n) \/ SmtpQuit(n)
  <2>1. ControlType'
    BY <1>3, GotoControl DEF SmtpAccept, SmtpQuit, TypeOK, NodeLabels, Procs
  <2>2. job[n].key \in Keys
    BY <1>3, JobHeld DEF SmtpAccept, SmtpQuit, Procs
  <2>3. log' \in [Keys -> Log]
    <3>1. CASE SmtpAccept(n)
      BY <3>1, <2>2, LogEdits DEF SmtpAccept, TypeOK, DataType
    <3>2. CASE SmtpQuit(n)
      BY <3>2 DEF SmtpQuit, TypeOK, DataType
    <3>3. QED
      BY <1>3, <3>1, <3>2
  <2>4. DataType'
    BY <1>3, <2>3 DEF SmtpAccept, SmtpQuit, TypeOK, DataType
  <2>5. QED
    BY <2>1, <2>4 DEF TypeOK
<1>4. CASE SmtpFail(n)
  <2>1. job[n] \in Job /\ job[n] # None /\ job[n].key \in Keys /\ n \in Procs
    BY <1>4, JobHeld DEF SmtpFail, Procs
  <2>2. [job[n] EXCEPT !.rec.attempts = @ + 1] \in Job
    BY <2>1 DEF Job, Record
  <2>3. ControlType'
    <3>1. job' = [job EXCEPT ![n] = [job[n] EXCEPT !.rec.attempts = @ + 1]]
      BY <1>4 DEF SmtpFail
    <3>2. \E l \in {"drop", "putGet"} : Goto(n, l)
      BY <1>4 DEF SmtpFail
    <3>3. UNCHANGED req
      BY <1>4 DEF SmtpFail
    <3>4. pc[n] \in {"smtp", "accepted"}
      BY <1>4 DEF SmtpFail
    <3>5. QED
      BY <2>1, <2>2, <3>1, <3>2, <3>3, <3>4
         DEF Goto, TypeOK, ControlType, Procs, NodeLabels, HandlerLabels
  <2>4. log' \in [Keys -> Log]
    <3>1. log[job[n].key] \in Log
      BY <2>1 DEF TypeOK, DataType
    <3>2. (IF pc[n] = "accepted" THEN log[job[n].key].lost + 1
                                 ELSE log[job[n].key].lost) \in Nat
      BY <3>1 DEF Log
    <3>3. [log[job[n].key] EXCEPT
             !.failures = @ + 1,
             !.lost = IF pc[n] = "accepted" THEN @ + 1 ELSE @] \in Log
      BY <3>1, <3>2, LogEdits
    <3>4. QED
      BY <1>4, <2>1, <3>3 DEF SmtpFail, TypeOK, DataType
  <2>5. DataType'
    BY <1>4, <2>4 DEF SmtpFail, TypeOK, DataType
  <2>6. QED
    BY <2>3, <2>5 DEF TypeOK
<1>5. QED
  BY <1>1, <1>2, <1>3, <1>4 DEF Drain, Pass

(* Stopping, dying and booting keep the types. *)
LEMMA TypeProcess ==
    ASSUME TypeOK, NEW n \in Nodes, Stop(n) \/ DrainExit(n) \/ Crash(n) \/ Boot(n)
    PROVE  TypeOK'
<1> USE ProcAssumption, DataAssumption
<1>1. CASE Stop(n)
  <2>1. ControlType'
    BY <1>1 DEF Stop, TypeOK, ControlType
  <2>2. DataType'
    BY <1>1 DEF Stop, TypeOK, DataType
  <2>3. QED
    BY <2>1, <2>2 DEF TypeOK
<1>2. CASE DrainExit(n)
  <2>1. ControlType'
    BY <1>2 DEF DrainExit, Goto, TypeOK, ControlType, Procs, NodeLabels
  <2>2. DataType'
    BY <1>2 DEF DrainExit, TypeOK, DataType
  <2>3. QED
    BY <2>1, <2>2 DEF TypeOK
<1>3. CASE Crash(n)
  <2>1. ControlType'
    BY <1>3 DEF Crash, NoReq, TypeOK, ControlType, Procs, NodeLabels,
                HandlerLabels
  <2>2. DataType'
    BY <1>3, SpentEdits DEF Crash, TypeOK, DataType
  <2>3. QED
    BY <2>1, <2>2 DEF TypeOK
<1>4. CASE Boot(n)
  <2>1. ControlType'
    BY <1>4 DEF Boot, Goto, TypeOK, ControlType, Procs, NodeLabels
  <2>2. DataType'
    BY <1>4 DEF Boot, TypeOK, DataType
  <2>3. QED
    BY <2>1, <2>2 DEF TypeOK
<1>5. QED
  BY <1>1, <1>2, <1>3, <1>4

(* TypeOK is inductive. *)
LEMMA TypeNext == TypeOK /\ [Next]_vars => TypeOK'
<1> SUFFICES ASSUME TypeOK, [Next]_vars PROVE TypeOK'
  OBVIOUS
<1>1. CASE Tick
  BY <1>1 DEF Tick, TypeOK, ControlType, DataType
<1>2. CASE UNCHANGED vars
  BY <1>2 DEF vars, TypeOK, ControlType, DataType
<1>3. QED
  BY <1>1, <1>2, TypeHandlers, TypePut, TypeDelete, TypeDrain, TypeProcess
     DEF Next

(* The variables have their types in every reachable state, and a process  *)
(* holds a record exactly while one of its calls is under way.             *)
THEOREM TypeCorrect == Spec => []TypeOK
<1>1. QED
  BY TypeInit, TypeNext, PTL DEF Spec

-----------------------------------------------------------------------------
(* No silent loss *)

(* History only grows. *)
Grows(l, m) == /\ l.issued => m.issued
               /\ l.promised => m.promised
               /\ l.cancelled => m.cancelled
               /\ l.poisoned => m.poisoned
               /\ l.unpersisted => m.unpersisted
               /\ l.delivered <= m.delivered
               /\ l.failures <= m.failures

(* A history entry that is left alone has grown, trivially. *)
LEMMA GrowsReflexive == ASSUME NEW l \in Log PROVE Grows(l, l)
  BY DEF Log, Grows

(* The entry a stored request makes in the history is an addition. *)
LEMMA EditsGrow ==
    ASSUME NEW l \in Log, NEW e \in Nat, NEW r \in Record
    PROVE  Grows(l, Promised(l, r, e))
  BY DEF Log, Grows, Promised

(* Editing one entry to something that extends it. *)
LEMMA LogEdited ==
    ASSUME TypeOK, NEW j \in Keys, NEW m, log' = [log EXCEPT ![j] = m],
           Grows(log[j], m), NEW k \in Keys
    PROVE  Grows(log[k], log'[k])
<1>1. log[k] \in Log
  BY DEF TypeOK, DataType
<1>2. QED
  BY <1>1, GrowsReflexive DEF TypeOK, DataType

(* No action takes anything back from the history of a key. *)
LEMMA LogGrows ==
    ASSUME TypeOK, [Next]_vars, NEW k \in Keys
    PROVE  Grows(log[k], log'[k])
<1>1. \A j \in Keys : log[j] \in Log
  BY DEF TypeOK, DataType
<1>2. CASE log' = log
  BY <1>1, <1>2, GrowsReflexive
<1>3. ASSUME NEW h \in Handlers, Create(h) PROVE Grows(log[k], log'[k])
  <2>1. PICK j \in Keys : log' = [log EXCEPT ![j].issued = TRUE]
    BY <1>3 DEF Create
  <2>2. Grows(log[j], [log[j] EXCEPT !.issued = TRUE])
    BY <1>1 DEF Grows, Log
  <2>3. QED
    BY <2>1, <2>2, LogEdited
<1>4. ASSUME NEW p \in Procs, PutList(p) \/ PutSet(p) \/ Delete(p)
      PROVE  Grows(log[k], log'[k])
  <2>1. job[p].key \in Keys /\ job[p].rec \in Record
    BY <1>4, JobHeld DEF PutList, PutSet, Delete
  <2>2. (p \in Nodes) \in BOOLEAN /\ (pc[p] = "del") \in BOOLEAN
    OBVIOUS
  <2>3. CASE log' = [log EXCEPT ![job[p].key].unpersisted = @ \/ p \in Nodes]
    <3>1. Grows(log[job[p].key],
                [log[job[p].key] EXCEPT !.unpersisted = @ \/ p \in Nodes])
      BY <1>1, <2>1 DEF Grows, Log
    <3>2. QED
      BY <2>1, <2>3, <3>1, LogEdited
  <2>4. CASE log' = [log EXCEPT ![job[p].key].cancelled = @ \/ pc[p] = "del"]
    <3>1. Grows(log[job[p].key],
                [log[job[p].key] EXCEPT !.cancelled = @ \/ pc[p] = "del"])
      BY <1>1, <2>1 DEF Grows, Log
    <3>2. QED
      BY <2>1, <2>4, <3>1, LogEdited
  <2>5. CASE log' = [log EXCEPT ![job[p].key] =
                        Promised(@, job[p].rec, IF req[p].op = "patch"
                                                THEN 1 ELSE 0)]
    <3>1. Grows(log[job[p].key],
                Promised(log[job[p].key], job[p].rec,
                         IF req[p].op = "patch" THEN 1 ELSE 0))
      BY <1>1, <2>1, EditsGrow
    <3>2. QED
      BY <2>1, <2>5, <3>1, LogEdited
  <2>6. CASE PutList(p)
    BY <1>2, <2>3, <2>6 DEF PutList
  <2>7. CASE PutSet(p)
    BY <1>2, <2>3, <2>5, <2>7 DEF PutSet
  <2>8. CASE Delete(p)
    BY <1>2, <2>4, <2>8 DEF Delete
  <2>9. QED
    BY <1>4, <2>6, <2>7, <2>8
<1>5. ASSUME NEW n \in Nodes, SmtpAccept(n) \/ SmtpFail(n)
      PROVE  Grows(log[k], log'[k])
  <2>1. job[n].key \in Keys
    BY <1>5, JobHeld DEF SmtpAccept, SmtpFail, Procs
  <2>2. CASE SmtpAccept(n)
    <3>1. Grows(log[job[n].key], [log[job[n].key] EXCEPT !.delivered = @ + 1])
      BY <1>1, <2>1 DEF Grows, Log
    <3>2. QED
      BY <2>1, <2>2, <3>1, LogEdited DEF SmtpAccept
  <2>3. CASE SmtpFail(n)
    <3>1. PICK e : log' = [log EXCEPT ![job[n].key].failures = @ + 1,
                                      ![job[n].key].lost = e]
      BY <2>3 DEF SmtpFail
    <3>2. Grows(log[job[n].key],
                [log[job[n].key] EXCEPT !.failures = @ + 1, !.lost = e])
      BY <1>1, <2>1 DEF Grows, Log
    <3>3. QED
      BY <2>1, <3>1, <3>2, LogEdited
  <2>4. QED
    BY <1>5, <2>2, <2>3
<1>6. QED
  BY <1>2, <1>3, <1>4, <1>5
     DEF Next, Handle, Put, Drain, Pass, CancelGet, PatchGet, PutGet, Poll,
         PollFault, PassDone, Fire, SmtpQuit, Stop, DrainExit, Crash, Boot,
         Tick, vars

(* A reason to remove a record, and what is known of a record, last. *)
LEMMA KnownStable ==
    ASSUME TypeOK, [Next]_vars, NEW k \in Keys, NEW r \in Record, Known(k, r)
    PROVE  Known(k, r)'
<1>1. log[k] \in Log /\ log'[k] \in Log
  BY TypeNext DEF TypeOK, DataType
<1>2. QED
  BY <1>1, LogGrows DEF Known, Grows, Log, Record

(* A reason to remove a record stays one. *)
LEMMA SettledStable ==
    ASSUME TypeOK, [Next]_vars, NEW k \in Keys, Settled(k)
    PROVE  Settled(k)'
<1>1. log[k] \in Log /\ log'[k] \in Log
  BY TypeNext DEF TypeOK, DataType
<1>2. QED
  BY <1>1, LogGrows, NumberAssumption DEF Settled, Grows, Log

(* The initial state satisfies the safety invariant. *)
LEMMA SafetyInit == Init => SafetyInv /\ OwnerIsolation
<1> SUFFICES ASSUME Init PROVE SafetyInv /\ OwnerIsolation
  OBVIOUS
<1>1. /\ \A k \in Keys : ~Stored(k) /\ log[k].promised = FALSE
      /\ \A n \in Nodes : batch[n] = {} /\ job[n] = None /\ pc[n] = "boot"
      /\ \A h \in Handlers : job[h] = None
  BY DEF Init, Stored, NoLog, Procs
<1>2. QED
  BY <1>1, TypeInit DEF SafetyInv, StoreKnown, BatchKnown, DrainKnown,
     HandlerKnown, DropReason, NoSilentLoss, OwnerIsolation

(* Only a Put or a Delete writes the store. *)
LEMMA StoreKnownNext ==
    ASSUME SafetyInv, [Next]_vars
    PROVE  StoreKnown'
<1> SUFFICES ASSUME NEW k \in Keys, store'[k] # None
             PROVE  Known(k, store[k])'
  BY DEF StoreKnown, Stored
<1>0. TypeOK /\ TypeOK'
  BY TypeNext DEF SafetyInv
<1>1. CASE store'[k] = store[k]
  <2>1. store[k] \in Record /\ Known(k, store[k])
    BY <1>0, <1>1 DEF SafetyInv, StoreKnown, Stored, TypeOK, DataType
  <2>2. QED
    BY <1>0, <1>1, <2>1, KnownStable DEF Known
<1>2. ASSUME NEW p \in Procs, Delete(p) PROVE Known(k, store[k])'
  BY <1>0, <1>1, <1>2, JobHeld DEF Delete, TypeOK, DataType
<1>3. ASSUME NEW p \in Procs, PutSet(p) PROVE Known(k, store[k])'
  <2>1. job[p] # None /\ job[p].key \in Keys /\ job[p].rec \in Record
    BY <1>0, <1>3, JobHeld DEF PutSet
  <2>2. SUFFICES ASSUME k = job[p].key, store'[k] = job[p].rec,
                        store'[k] # store[k]
                 PROVE  Known(k, store[k])'
    BY <1>0, <1>1, <1>3, <2>1 DEF PutSet, TypeOK, DataType
  <2>3. CASE p \in Nodes
    BY <1>0, <2>1, <2>2, <2>3, KnownStable DEF SafetyInv, DrainKnown, Known
  <2>4. CASE p \notin Nodes
    <3>1. p \in Handlers
      BY <2>4 DEF Procs
    <3>2. log'[k] = Promised(log[k], job[p].rec,
                             IF req[p].op = "patch" THEN 1 ELSE 0)
      BY <1>0, <1>3, <2>1, <2>2, <2>4 DEF PutSet, TypeOK, DataType
    <3>3. /\ job[p].rec.account = k[1]
          /\ job[p].rec.attempts <= log[k].failures
      BY <2>1, <2>2, <3>1 DEF SafetyInv, HandlerKnown
    <3>4. log[k] \in Log
      BY <1>0 DEF TypeOK, DataType
    <3>5. QED
      BY <2>2, <3>2, <3>3, <3>4 DEF Known, Promised, Log
  <2>5. QED
    BY <2>3, <2>4
<1>4. QED
  BY <1>1, <1>2, <1>3
     DEF Next, Handle, Put, Drain, Pass, Create, CancelGet, PatchGet, PutGet,
         PutList, Poll, PollFault, PassDone, Fire, SmtpAccept, SmtpQuit,
         SmtpFail, Stop, DrainExit, Crash, Boot, Tick, vars

(* A drain's batch is what it read from the store. *)
LEMMA BatchKnownNext ==
    ASSUME SafetyInv, [Next]_vars
    PROVE  BatchKnown'
<1> SUFFICES ASSUME NEW n \in Nodes, NEW s \in batch'[n]
             PROVE  Known(s.key, s.rec)'
  BY DEF BatchKnown
<1>0. TypeOK /\ TypeOK'
  BY TypeNext DEF SafetyInv
<1>1. s \in Job /\ s.key \in Keys /\ s.rec \in Record
  BY <1>0 DEF TypeOK, DataType, Job
<1>2. CASE s \in batch[n]
  BY <1>0, <1>1, <1>2, KnownStable DEF SafetyInv, BatchKnown, Known
<1>3. CASE \E m \in Nodes : Poll(m)
  <2>1. SUFFICES ASSUME NEW k \in DueKeys, s = [key |-> k, rec |-> store[k]]
                 PROVE  Known(s.key, s.rec)'
    BY <1>0, <1>2, <1>3 DEF Poll, TypeOK, DataType
  <2>2. Known(k, store[k])
    BY <2>1 DEF DueKeys, SafetyInv, StoreKnown
  <2>3. k \in Keys /\ store[k] \in Record
    BY <1>0 DEF DueKeys, Stored, TypeOK, DataType
  <2>4. QED
    BY <1>0, <2>1, <2>2, <2>3, <1>1, KnownStable DEF Known
<1>4. ASSUME NEW m \in Nodes, Fire(m) \/ Crash(m) PROVE s \in batch[n]
  BY <1>0, <1>4 DEF Fire, Crash, TypeOK, DataType
<1>5. QED
  BY <1>2, <1>3, <1>4
     DEF Next, Handle, Put, Drain, Pass, Create, CancelGet, PatchGet, PutGet,
         PutList, PutSet, Delete, PollFault, PassDone, SmtpAccept,
         SmtpQuit, SmtpFail, Stop, DrainExit, Boot, Tick, vars

(* What an action can do to the record in the memory of process q. *)
LEMMA JobSteps ==
    ASSUME TypeOK, [Next]_vars, NEW q \in Procs
    PROVE  \/ job'[q] = job[q]
           \/ job'[q] = None
           \/ q \in Nodes /\ (Fire(q) \/ SmtpFail(q))
           \/ q \in Handlers /\ Handle(q)
<1> USE ProcAssumption DEF TypeOK, ControlType, Procs
<1>1. ASSUME NEW h \in Handlers, Handle(h), h # q PROVE job'[q] = job[q]
  BY <1>1 DEF Handle, Create, CancelGet, PatchGet
<1>2. ASSUME NEW p \in Procs, PutGet(p) PROVE job'[q] = job[q]
  BY <1>2 DEF PutGet
<1>3. ASSUME NEW p \in Procs, PutList(p) PROVE job'[q] \in {job[q], None}
  BY <1>3 DEF PutList, PutFailed, Return
<1>4. ASSUME NEW p \in Procs, PutSet(p) PROVE job'[q] \in {job[q], None}
  BY <1>4 DEF PutSet, PutFailed, Return
<1>5. ASSUME NEW p \in Procs, Delete(p) PROVE job'[q] \in {job[q], None}
  BY <1>5 DEF Delete, Return
<1>6. ASSUME NEW n \in Nodes, Fire(n) \/ SmtpFail(n), n # q
      PROVE  job'[q] = job[q]
  BY <1>6 DEF Fire, SmtpFail
<1>7. ASSUME NEW n \in Nodes, Crash(n) PROVE job'[q] \in {job[q], None}
  BY <1>7 DEF Crash
<1>8. QED
  BY <1>1, <1>2, <1>3, <1>4, <1>5, <1>6, <1>7
     DEF Next, Put, Drain, Pass, Poll, PollFault, PassDone, SmtpAccept, SmtpQuit,
         Stop, DrainExit, Boot, Tick, vars

(* A drain holds what it took from its batch, with one more attempt after  *)
(* a failure.                                                              *)
LEMMA DrainKnownNext ==
    ASSUME SafetyInv, [Next]_vars
    PROVE  DrainKnown'
<1> SUFFICES ASSUME NEW n \in Nodes, job'[n] # None
             PROVE  Known(job[n].key, job[n].rec)'
  BY DEF DrainKnown
<1>0. TypeOK /\ TypeOK' /\ n \in Procs
  BY TypeNext DEF SafetyInv, Procs
<1>1. CASE job'[n] = job[n]
  <2>1. /\ job[n].key \in Keys /\ job[n].rec \in Record
        /\ Known(job[n].key, job[n].rec)
    BY <1>0, <1>1 DEF SafetyInv, DrainKnown, TypeOK, ControlType, Job
  <2>2. QED
    BY <1>0, <1>1, <2>1, KnownStable DEF Known
<1>2. CASE Fire(n)
  <2>1. SUFFICES ASSUME NEW s \in batch[n], job'[n] = s
                 PROVE  Known(job[n].key, job[n].rec)'
    BY <1>0, <1>1, <1>2 DEF Fire, TypeOK, ControlType
  <2>2. /\ s.key \in Keys /\ s.rec \in Record
        /\ Known(s.key, s.rec)
    BY <1>0 DEF SafetyInv, BatchKnown, TypeOK, DataType, Job
  <2>3. QED
    BY <1>0, <2>1, <2>2, KnownStable DEF Known
<1>3. CASE SmtpFail(n)
  <2>1. job[n] # None /\ job[n] \in Job
    BY <1>0, <1>3, JobHeld DEF SmtpFail
  <2>2. Known(job[n].key, job[n].rec)
    BY <2>1 DEF SafetyInv, DrainKnown
  <2>3. log[job[n].key] \in Log /\ job[n].rec \in Record /\ job[n].key \in Keys
    BY <1>0, <2>1 DEF TypeOK, DataType, Job
  <2>4. /\ job'[n].key = job[n].key
        /\ job'[n].rec = [job[n].rec EXCEPT !.attempts = @ + 1]
    BY <1>0, <1>3, <2>1 DEF SmtpFail, TypeOK, ControlType, Job
  <2>5. /\ log'[job[n].key].failures = log[job[n].key].failures + 1
        /\ log'[job[n].key].promised = log[job[n].key].promised
        /\ log'[job[n].key].poisoned = log[job[n].key].poisoned
    BY <1>0, <1>3, <2>3 DEF SmtpFail, TypeOK, DataType, Log
  <2>6. QED
    BY <2>2, <2>3, <2>4, <2>5 DEF Known, Record, Log
<1>4. QED
  BY <1>0, <1>1, <1>2, <1>3, JobSteps, ProcAssumption

(* A request holds a new record, or one it read from the store. *)
LEMMA HandlerKnownNext ==
    ASSUME SafetyInv, [Next]_vars
    PROVE  HandlerKnown'
<1> SUFFICES ASSUME NEW h \in Handlers, job'[h] # None
             PROVE  /\ job'[h].rec.account = job'[h].key[1]
                    /\ job'[h].rec.attempts <= log'[job'[h].key].failures
  BY DEF HandlerKnown
<1>0. TypeOK /\ TypeOK' /\ h \in Procs
  BY TypeNext DEF SafetyInv, Procs
<1>1. \A k \in Keys : /\ log[k] \in Log /\ log'[k] \in Log
                      /\ log[k].failures <= log'[k].failures
  BY <1>0, LogGrows DEF TypeOK, DataType, Grows
<1>2. CASE job'[h] = job[h]
  <2>1. job[h].key \in Keys /\ job[h].rec \in Record
    BY <1>0, <1>2 DEF TypeOK, ControlType, Job
  <2>2. QED
    BY <1>1, <1>2, <2>1 DEF SafetyInv, HandlerKnown, Record, Log
<1>3. CASE Create(h)
  <2>1. PICK k \in Keys, t \in Times, b \in Bodies :
           job' = [job EXCEPT ![h] =
                [key |-> k,
                 rec |-> [account |-> k[1], sendAt |-> t, body |-> b,
                          enc |-> encKey[Host[h]], attempts |-> 0]]]
    BY <1>3 DEF Create
  <2>2. job'[h].key = k /\ job'[h].rec.account = k[1]
        /\ job'[h].rec.attempts = 0
    BY <1>0, <2>1 DEF TypeOK, ControlType
  <2>3. QED
    BY <1>1, <2>2 DEF Log
<1>4. CASE CancelGet(h) \/ PatchGet(h)
  <2>1. PICK k \in Keys : /\ Stored(k)
                          /\ job'[h].key = k
                          /\ job'[h].rec.account = store[k].account
                          /\ job'[h].rec.attempts = store[k].attempts
    <3>1. CASE CancelGet(h)
      BY <1>0, <3>1 DEF CancelGet, Owned, Addressed, TypeOK, ControlType
    <3>2. CASE PatchGet(h)
      <4>0. PICK a \in Accounts, k \in Keys :
               /\ Owned(a, k)
               /\ \E b \in Bodies, t \in Instants(k) :
                     job' = [job EXCEPT ![h] =
                                [key |-> k, rec |-> Edited(k, t, b)]]
        BY <3>2 DEF PatchGet
      <4>1. PICK b \in Bodies, t \in Instants(k) :
               job' = [job EXCEPT ![h] = [key |-> k, rec |-> Edited(k, t, b)]]
        BY <4>0
      <4>2. Stored(k) /\ store[k] \in Record
        BY <1>0, <4>0 DEF Owned, Addressed, Stored, TypeOK, DataType
      <4>3. job'[h].key = k /\ job'[h].rec = Edited(k, t, b)
        BY <1>0, <4>1 DEF TypeOK, ControlType
      <4>4. QED
        BY <4>2, <4>3 DEF Edited, Record
    <3>3. QED
      BY <1>4, <3>1, <3>2
  <2>2. Known(k, store[k]) /\ store[k] \in Record
    BY <1>0, <2>1 DEF SafetyInv, StoreKnown, Stored, TypeOK, DataType
  <2>3. QED
    BY <1>1, <2>1, <2>2 DEF Known, Log, Record
<1>5. QED
  BY <1>0, <1>2, <1>3, <1>4, JobSteps, ProcAssumption DEF Handle

(* A drain that will delete a record has a reason, whatever way it came. *)
LEMMA DropReasonNext ==
    ASSUME SafetyInv, [Next]_vars
    PROVE  DropReason'
<1> SUFFICES ASSUME NEW n \in Nodes,
                    pc'[n] \in {"putList", "drop", "accepted", "done"}
             PROVE  Settled(job[n].key)'
  BY DEF DropReason
<1>0. TypeOK /\ TypeOK' /\ n \in Procs
  BY TypeNext DEF SafetyInv, Procs
<1>1. ASSUME NEW k \in Keys, Settled(k), job'[n].key = k
      PROVE  Settled(job[n].key)'
  BY <1>0, <1>1, SettledStable DEF Settled
<1>2. ASSUME pc[n] \in {"putList", "putSet", "putGet", "drop", "smtp",
                        "accepted", "done"}
      PROVE  job[n].key \in Keys /\ job[n].rec \in Record /\ job[n] # None
             /\ Known(job[n].key, job[n].rec) /\ log[job[n].key] \in Log
  BY <1>0, <1>2, JobHeld DEF SafetyInv, DrainKnown, TypeOK, DataType
<1>3. CASE pc'[n] = pc[n] /\ job'[n] = job[n]
  BY <1>1, <1>2, <1>3 DEF SafetyInv, DropReason
<1>4. CASE PutGet(n)
  <2>1. Settled(job[n].key) /\ job' = job
    BY <1>0, <1>2, <1>4 DEF PutGet, Goto, SafetyInv, NoSilentLoss, Known,
                            TypeOK, ControlType
  <2>2. QED
    BY <1>1, <1>2, <1>4, <2>1 DEF PutGet
<1>5. CASE PutList(n)
  <2>1. Settled(job[n].key) /\ job' = job
    BY <1>5 DEF PutList, PutFailed, SafetyInv, DropReason
  <2>2. QED
    BY <1>1, <1>2, <1>5, <2>1 DEF PutList
<1>6. CASE PutSet(n)
  <2>1. log' = [log EXCEPT ![job[n].key].unpersisted = @ \/ n \in Nodes]
        /\ job' = job
    BY <1>0, <1>6 DEF PutSet, PutFailed, Return, Goto, TypeOK, ControlType
  <2>2. log'[job[n].key].unpersisted
    BY <1>0, <1>2, <1>6, <2>1 DEF PutSet, TypeOK, DataType, Log
  <2>3. QED
    BY <2>1, <2>2 DEF Settled
<1>7. CASE Fire(n)
  <2>1. PICK s \in batch[n] : job' = [job EXCEPT ![n] = s]
                              /\ (s.rec.body \in Poison \/ pc'[n] = "smtp")
    BY <1>0, <1>3, <1>7 DEF Fire, Goto, TypeOK, ControlType
  <2>2. Known(s.key, s.rec) /\ s.key \in Keys /\ job'[n] = s
    BY <1>0, <2>1 DEF SafetyInv, BatchKnown, TypeOK, ControlType, DataType, Job
  <2>3. Settled(s.key)
    BY <2>1, <2>2 DEF Known, Settled
  <2>4. QED
    BY <1>1, <2>2, <2>3
<1>8. CASE SmtpAccept(n)
  <2>1. job' = job /\ log'[job[n].key].delivered = log[job[n].key].delivered + 1
    BY <1>0, <1>2, <1>8 DEF SmtpAccept, TypeOK, DataType, Log
  <2>2. log[job[n].key].delivered \in Nat
    BY <1>2, <1>8 DEF SmtpAccept, Log
  <2>3. QED
    BY <2>1, <2>2 DEF Settled
<1>9. CASE SmtpQuit(n)
  <2>1. Settled(job[n].key) /\ job' = job
    BY <1>9 DEF SmtpQuit, SafetyInv, DropReason
  <2>2. QED
    BY <1>1, <1>2, <1>9, <2>1 DEF SmtpQuit
<1>10. CASE SmtpFail(n)
  <2>1. /\ job[n].key \in Keys /\ job[n].rec \in Record
        /\ job[n].rec.attempts <= log[job[n].key].failures
        /\ log[job[n].key] \in Log
    BY <1>2, <1>10 DEF SmtpFail, Known
  <2>2. job[n].rec.attempts + 1 >= MaxAttempts
    BY <1>0, <1>10 DEF SmtpFail, Goto, BudgetSpent, TypeOK, ControlType
  <2>3. log'[job[n].key].failures = log[job[n].key].failures + 1
    BY <1>0, <1>10, <2>1 DEF SmtpFail, TypeOK, DataType, Log
  <2>4. job'[n].key = job[n].key
    BY <1>0, <1>2, <1>10 DEF SmtpFail, TypeOK, ControlType, Job
  <2>5. QED
    BY <2>1, <2>2, <2>3, <2>4, NumberAssumption DEF Settled, Record, Log
<1>11. CASE ~(PutGet(n) \/ PutList(n) \/ PutSet(n) \/ Fire(n)
              \/ SmtpAccept(n) \/ SmtpQuit(n) \/ SmtpFail(n))
  <2>1. pc'[n] = pc[n] /\ job'[n] = job[n]
    <3> USE <1>0, ProcAssumption DEF TypeOK, ControlType, Procs
    <3>1. ASSUME NEW h \in Handlers, Handle(h)
          PROVE  pc'[n] = pc[n] /\ job'[n] = job[n]
      BY <3>1 DEF Handle, Create, CancelGet, PatchGet, Goto
    <3>2. ASSUME NEW p \in Procs, p # n, Put(p)
          PROVE  pc'[n] = pc[n] /\ job'[n] = job[n]
      BY <3>2 DEF Put, PutGet, PutList, PutSet, PutFailed, Return, Goto
    <3>3. ASSUME NEW p \in Procs, Delete(p)
          PROVE  pc'[n] = pc[n] /\ job'[n] = job[n]
      BY <3>3 DEF Delete, Return, Goto
    <3>4. ASSUME NEW m \in Nodes, m # n, Drain(m)
          PROVE  pc'[n] = pc[n] /\ job'[n] = job[n]
      BY <3>4 DEF Drain, Pass, Poll, PollFault, PassDone, Fire, SmtpAccept,
                  SmtpQuit, SmtpFail, Goto
    <3>5. ASSUME Poll(n) \/ PollFault(n) \/ PassDone(n)
          PROVE  pc'[n] = pc[n] /\ job'[n] = job[n]
      BY <3>5 DEF Poll, PollFault, AtPoll, PassDone, Goto
    <3>6. ASSUME NEW m \in Nodes, Stop(m) \/ DrainExit(m) \/ Crash(m) \/ Boot(m)
          PROVE  pc'[n] = pc[n] /\ job'[n] = job[n]
      BY <3>6 DEF Stop, DrainExit, Crash, Boot, Goto
    <3>7. QED
      BY <1>11, <3>1, <3>2, <3>3, <3>4, <3>5, <3>6
         DEF Next, Put, Drain, Pass, Tick, vars
  <2>2. QED
    BY <1>3, <2>1
<1>12. QED
  BY <1>4, <1>5, <1>6, <1>7, <1>8, <1>9, <1>10, <1>11

(* Edits that leave the promise alone. *)
LEMMA SamePromise ==
    ASSUME TypeOK, NEW k \in Keys, NEW j \in Keys, NEW c, NEW e,
           \/ log' = [log EXCEPT ![j].issued = c]
           \/ log' = [log EXCEPT ![j].unpersisted = c]
           \/ log' = [log EXCEPT ![j].cancelled = c]
           \/ log' = [log EXCEPT ![j].delivered = c]
           \/ log' = [log EXCEPT ![j].failures = c, ![j].lost = e]
    PROVE  log'[k].promised = log[k].promised
<1>1. log[j] \in Log /\ log[k] \in Log
  BY DEF TypeOK, DataType
<1>2. QED
  BY <1>1 DEF TypeOK, DataType, Log

(* The store only loses a record to a Delete, and every Delete has a       *)
(* reason.                                                                 *)
LEMMA NoSilentLossNext ==
    ASSUME SafetyInv, [Next]_vars
    PROVE  NoSilentLoss'
<1> SUFFICES ASSUME NEW k \in Keys, log'[k].promised, store'[k] = None
             PROVE  Settled(k)'
  BY DEF NoSilentLoss, Stored
<1>0. TypeOK
  BY DEF SafetyInv
<1>1. CASE log[k].promised /\ store[k] = None
  BY <1>0, <1>1, SettledStable DEF SafetyInv, NoSilentLoss, Stored
<1>2. ASSUME NEW p \in Procs, Delete(p), store[k] # None PROVE Settled(k)'
  <2>1. job[p].key \in Keys
    BY <1>0, <1>2, JobHeld DEF Delete
  <2>2. /\ k = job[p].key
        /\ log' = [log EXCEPT ![k].cancelled = @ \/ pc[p] = "del"]
    BY <1>0, <1>2, <2>1 DEF Delete, TypeOK, DataType
  <2>3. CASE pc[p] = "del"
    BY <1>0, <2>2, <2>3 DEF Settled, TypeOK, DataType, Log
  <2>4. CASE pc[p] \in {"drop", "done"}
    <3>1. p \in Nodes
      BY <1>0, <2>4 DEF Procs, TypeOK, ControlType, HandlerLabels
    <3>2. Settled(k)
      BY <2>2, <2>4, <3>1 DEF SafetyInv, DropReason
    <3>3. QED
      BY <1>0, <3>2, SettledStable
  <2>5. QED
    BY <1>2, <2>3, <2>4 DEF Delete
<1>3. ASSUME NEW p \in Procs, PutSet(p) PROVE Settled(k)'
  <2>1. job[p].key \in Keys /\ job[p].rec \in Record
    BY <1>0, <1>3, JobHeld DEF PutSet
  <2>2. job[p].rec # None
    BY <2>1, DataAssumption
  <2>3. CASE store' = [store EXCEPT ![job[p].key] = job[p].rec]
             /\ k # job[p].key
    <3>1. store[k] = None /\ log'[k] = log[k]
      BY <1>0, <1>3, <2>1, <2>3 DEF PutSet, TypeOK, DataType
    <3>2. QED
      BY <1>1, <3>1
  <2>4. CASE store' = store
             /\ log' = [log EXCEPT ![job[p].key].unpersisted = @ \/ p \in Nodes]
    <3>1. PICK c : log' = [log EXCEPT ![job[p].key].unpersisted = c]
      BY <2>4
    <3>2. store[k] = None /\ log'[k].promised = log[k].promised
      BY <1>0, <2>1, <2>4, <3>1, SamePromise
    <3>3. QED
      BY <1>1, <3>2
  <2>5. QED
    BY <1>0, <1>3, <2>1, <2>2, <2>3, <2>4 DEF PutSet, TypeOK, DataType
<1>4. ASSUME ~\E p \in Procs : PutSet(p) \/ Delete(p)
      PROVE  store' = store /\ log'[k].promised = log[k].promised
  <2>1. store' = store
    BY <1>4
       DEF Next, Handle, Put, Drain, Pass, Create, CancelGet, PatchGet, PutGet,
           PutList, Poll, PollFault, PassDone, Fire, SmtpAccept, SmtpQuit,
           SmtpFail, Stop, DrainExit, Crash, Boot, Tick, vars
  <2>2. log[k] \in Log
    BY <1>0 DEF TypeOK, DataType
  <2>3. ASSUME NEW h \in Handlers, Create(h)
        PROVE  log'[k].promised = log[k].promised
    <3>1. PICK j \in Keys : log' = [log EXCEPT ![j].issued = TRUE]
      BY <2>3 DEF Create
    <3>2. QED
      BY <1>0, <3>1, SamePromise
  <2>4. ASSUME NEW p \in Procs, PutList(p)
        PROVE  log'[k].promised = log[k].promised
    <3>1. \/ log' = log
          \/ \E c : log' = [log EXCEPT ![job[p].key].unpersisted = c]
      BY <2>4 DEF PutList
    <3>2. job[p].key \in Keys
      BY <1>0, <2>4, JobHeld DEF PutList
    <3>3. QED
      BY <1>0, <3>1, <3>2, SamePromise
  <2>5. ASSUME NEW n \in Nodes, SmtpAccept(n) \/ SmtpFail(n)
        PROVE  log'[k].promised = log[k].promised
    <3>1. job[n].key \in Keys
      BY <1>0, <2>5, JobHeld DEF SmtpAccept, SmtpFail, Procs
    <3>2. CASE SmtpAccept(n)
      <4>1. PICK c : log' = [log EXCEPT ![job[n].key].delivered = c]
        BY <3>2 DEF SmtpAccept
      <4>2. QED
        BY <1>0, <3>1, <4>1, SamePromise
    <3>3. CASE SmtpFail(n)
      <4>1. PICK c, e : log' = [log EXCEPT ![job[n].key].failures = c,
                                           ![job[n].key].lost = e]
        BY <3>3 DEF SmtpFail
      <4>2. QED
        BY <1>0, <3>1, <4>1, SamePromise
    <3>4. QED
      BY <2>5, <3>2, <3>3
  <2>6. QED
    BY <1>4, <2>1, <2>3, <2>4, <2>5
       DEF Next, Handle, Put, Drain, Pass, CancelGet, PatchGet, PutGet, Poll,
           PollFault, PassDone, Fire, SmtpQuit, Stop, DrainExit, Crash, Boot,
           Tick, vars
<1>5. ASSUME NEW p \in Procs, Delete(p), store[k] = None PROVE Settled(k)'
  <2>1. job[p].key \in Keys /\ log[k] \in Log
    BY <1>0, <1>5, JobHeld DEF Delete, TypeOK, DataType
  <2>2. log'[k].promised = log[k].promised
    <3>1. \/ log' = log
          \/ \E c : log' = [log EXCEPT ![job[p].key].cancelled = c]
      BY <1>5 DEF Delete
    <3>2. QED
      BY <1>0, <2>1, <3>1, SamePromise
  <2>3. QED
    BY <1>1, <1>5, <2>2
<1>6. QED
  BY <1>1, <1>2, <1>3, <1>4, <1>5

(* The safety invariant is inductive. *)
LEMMA SafetyNext == SafetyInv /\ [Next]_vars => SafetyInv'
<1> SUFFICES ASSUME SafetyInv, [Next]_vars PROVE SafetyInv'
  OBVIOUS
<1>1. TypeOK'
  BY TypeNext DEF SafetyInv
<1>2. QED
  BY <1>1, StoreKnownNext, BatchKnownNext, DrainKnownNext, HandlerKnownNext,
     DropReasonNext, NoSilentLossNext DEF SafetyInv

(* At-least-once, for any number of servers, requests, faults and crashes: *)
(* a promised send stays in the store until there is a reason to remove it *)
(* (schedule.go fire, handleCancelScheduled, handlePatchScheduled).        *)
THEOREM NothingSilentlyLost == Spec => []NoSilentLoss
<1>1. Init => SafetyInv
  BY SafetyInit
<1>2. SafetyInv => NoSilentLoss
  BY DEF SafetyInv
<1>3. QED
  BY <1>1, <1>2, SafetyNext, PTL DEF Spec

(* It holds in every reachable state. *)
LEMMA SafetyInvariant == Spec => []SafetyInv
<1>1. Init => SafetyInv
  BY SafetyInit
<1>2. QED
  BY <1>1, SafetyNext, PTL DEF Spec

-----------------------------------------------------------------------------
(* Isolation of accounts *)

(* A request keeps the account it was made for until it is answered. *)
LEMMA RequestKept ==
    ASSUME TypeOK, [Next]_vars, NEW h \in Handlers,
           job'[h] # None, job'[h] = job[h]
    PROVE  req'[h] = req[h]
<1> USE ProcAssumption DEF TypeOK, ControlType, Procs
<1>1. ASSUME NEW g \in Handlers, Handle(g) PROVE req'[h] = req[h]
  BY <1>1 DEF Handle, Create, CancelGet, PatchGet, Request
<1>2. ASSUME NEW p \in Procs, PutGet(p) PROVE req'[h] = req[h]
  BY <1>2 DEF PutGet
<1>3. ASSUME NEW p \in Procs, PutList(p) PROVE req'[h] = req[h]
  BY <1>3 DEF PutList, PutFailed, Return
<1>4. ASSUME NEW p \in Procs, PutSet(p) PROVE req'[h] = req[h]
  BY <1>4 DEF PutSet, PutFailed, Return
<1>5. ASSUME NEW p \in Procs, Delete(p) PROVE req'[h] = req[h]
  BY <1>5 DEF Delete, Return
<1>6. ASSUME NEW n \in Nodes, Crash(n) PROVE req'[h] = req[h]
  BY <1>6 DEF Crash
<1>7. QED
  BY <1>1, <1>2, <1>3, <1>4, <1>5, <1>6
     DEF Next, Put, Drain, Pass, Poll, PollFault, PassDone, Fire, SmtpAccept,
         SmtpQuit, SmtpFail, Stop, DrainExit, Boot, Tick, vars

(* Isolation is kept by every step, given what is known of stored records. *)
LEMMA OwnerNext ==
    ASSUME SafetyInv, OwnerIsolation, [Next]_vars
    PROVE  OwnerIsolation'
<1> SUFFICES ASSUME NEW h \in Handlers, job'[h] # None
             PROVE  /\ job'[h].key[1] = req'[h].account
                    /\ job'[h].rec.account = req'[h].account
  BY DEF OwnerIsolation
<1>0. TypeOK /\ h \in Procs
  BY DEF SafetyInv, Procs
<1>1. CASE job'[h] = job[h]
  BY <1>0, <1>1, RequestKept DEF OwnerIsolation
<1>2. job'[h].rec.account = job'[h].key[1]
  BY HandlerKnownNext DEF HandlerKnown
<1>3. CASE Create(h)
  <2>1. PICK k \in Keys, t \in Times, b \in Bodies :
           /\ Request(h, "create", k[1])
           /\ job' = [job EXCEPT ![h] =
                [key |-> k,
                 rec |-> [account |-> k[1], sendAt |-> t, body |-> b,
                          enc |-> encKey[Host[h]], attempts |-> 0]]]
    BY <1>3 DEF Create
  <2>2. job'[h].key = k /\ req'[h].account = k[1]
    BY <1>0, <2>1 DEF Request, TypeOK, ControlType
  <2>3. QED
    BY <1>2, <2>1, <2>2
<1>4. CASE CancelGet(h) \/ PatchGet(h)
  <2>1. PICK a \in Accounts, k \in Keys :
           /\ Owned(a, k)
           /\ job'[h].key = k
           /\ req'[h].account = a
    <3>1. CASE CancelGet(h)
      BY <1>0, <3>1 DEF CancelGet, Request, TypeOK, ControlType
    <3>2. CASE PatchGet(h)
      <4>0. PICK a \in Accounts, k \in Keys :
               /\ Owned(a, k)
               /\ Request(h, "patch", a)
               /\ \E b \in Bodies, t \in Instants(k) :
                     job' = [job EXCEPT ![h] =
                                [key |-> k, rec |-> Edited(k, t, b)]]
        BY <3>2 DEF PatchGet
      <4>1. PICK b \in Bodies, t \in Instants(k) :
               job' = [job EXCEPT ![h] = [key |-> k, rec |-> Edited(k, t, b)]]
        BY <4>0
      <4>2. job'[h].key = k /\ req'[h].account = a
        BY <1>0, <4>0, <4>1 DEF Request, TypeOK, ControlType
      <4>3. QED
        BY <4>0, <4>2
    <3>3. QED
      BY <1>4, <3>1, <3>2
  <2>2. store[k].account = k[1]
    BY <2>1 DEF Owned, Addressed, SafetyInv, StoreKnown, Known
  <2>3. QED
    BY <1>2, <2>1, <2>2 DEF Owned
<1>5. QED
  BY <1>0, <1>1, <1>3, <1>4, JobSteps, ProcAssumption DEF Handle

(* A request only ever works on a record of the account that made it, even *)
(* when account names and ids spell each other's keys (schedule_store.go   *)
(* Get).                                                                   *)
THEOREM AccountsIsolated == Spec => []OwnerIsolation
<1>1. Init => SafetyInv /\ OwnerIsolation
  BY SafetyInit
<1>2. SafetyInv /\ OwnerIsolation /\ [Next]_vars => (SafetyInv /\ OwnerIsolation)'
  BY SafetyNext, OwnerNext
<1>3. QED
  BY <1>1, <1>2, PTL DEF Spec

-----------------------------------------------------------------------------
(* The quota *)

(* The sets the quota counts are finite. *)
LEMMA KeysFinite == /\ IsFiniteSet(Keys) /\ IsFiniteSet(Procs)
                    /\ \A S \in SUBSET Keys : /\ IsFiniteSet(S)
                                              /\ Cardinality(S) \in Nat
<1>1. IsFiniteSet(Keys)
  BY DataAssumption, FS_Product DEF Keys
<1>2. IsFiniteSet(Procs)
  BY ProcAssumption, FS_Union DEF Procs
<1>3. QED
  BY <1>1, <1>2, FS_Subset, FS_CardinalityType

(* The keys that S processes are about to write are at most |S|. *)
LEMMA WritersBound ==
    ASSUME NEW j, NEW S \in SUBSET Procs
    PROVE  /\ IsFiniteSet({j[p].key : p \in S})
           /\ Cardinality({j[p].key : p \in S}) \in Nat
           /\ Cardinality({j[p].key : p \in S}) <= Cardinality(Procs)
           /\ Cardinality(Procs) \in Nat
<1> DEFINE f == [p \in S |-> j[p].key]
           T == {j[p].key : p \in S}
<1>1. f \in Surjection(S, T)
  BY DEF Surjection
<1>2. IsFiniteSet(S) /\ Cardinality(S) <= Cardinality(Procs)
  BY KeysFinite, FS_Subset
<1>3. Cardinality(T) <= Cardinality(S) /\ IsFiniteSet(T)
  BY <1>1, <1>2, FS_Surjection
<1>4. Cardinality(T) \in Nat /\ Cardinality(S) \in Nat
      /\ Cardinality(Procs) \in Nat
  BY <1>2, <1>3, KeysFinite, FS_CardinalityType
<1>5. QED
  BY <1>2, <1>3, <1>4 DEF T

(* The keys an account claims are pending in the store or in the hands of  *)
(* a writer past its check.                                                *)
LEMMA ClaimedPending ==
    ASSUME SafetyInv, NEW a \in Accounts, NEW k \in Keys, k[1] = a, Stored(k)
    PROVE  k \in PendingOf(a)
  BY DataAssumption DEF PendingOf, Owned, Addressed, SafetyInv, StoreKnown,
                        Known

(* What is pending for an account is claimed by it. *)
LEMMA PendingClaimed ==
    ASSUME SafetyInv, NEW a \in Accounts
    PROVE  PendingOf(a) \subseteq Claimed(a)
  BY DEF PendingOf, Owned, Addressed, SafetyInv, StoreKnown, Known, Claimed

(* What a step adds to the claims of an account. *)
LEMMA ClaimSteps ==
    ASSUME SafetyInv, [Next]_vars, NEW a \in Accounts
    PROVE  \/ Claimed(a)' \subseteq Claimed(a) /\ spent.faults <= spent'.faults
           \/ \E k \in Keys : /\ Claimed(a)' \subseteq Claimed(a) \cup {k}
                              /\ spent'.faults = spent.faults + 1
           \/ /\ HasRoom(a) /\ UNCHANGED <<store, spent>>
              /\ Claimed(a)' \subseteq
                    PendingOf(a) \cup {job'[p].key : p \in {q \in Procs :
                                          pc'[q] = "putSet"}}
<1> USE ProcAssumption DEF Procs
<1>0. /\ TypeOK
      /\ spent \in [requests : Nat, faults : Nat, crashes : Nat]
      /\ pc \in [Procs -> NodeLabels \cup HandlerLabels]
      /\ job \in [Procs -> Job \cup {None}]
      /\ store \in [Keys -> Record \cup {None}]
  BY DEF SafetyInv, TypeOK, ControlType, DataType
(* Nobody becomes a writer past its check, nothing is stored. *)
<1>1. ASSUME \A k \in Keys : store'[k] # None => store[k] # None,
             \A p \in Procs : pc'[p] = "putSet" =>
                pc[p] = "putSet" /\ job'[p] = job[p]
      PROVE  Claimed(a)' \subseteq Claimed(a)
  BY <1>1 DEF Claimed, Stored
<1>2. ASSUME NEW h \in Handlers, Handle(h)
      PROVE  Claimed(a)' \subseteq Claimed(a) /\ spent.faults <= spent'.faults
  <2>1. spent.faults <= spent'.faults /\ store' = store
    BY <1>0, <1>2 DEF Handle, Create, CancelGet, PatchGet, Request
  <2>2. \A p \in Procs : pc'[p] = "putSet" =>
           pc[p] = "putSet" /\ job'[p] = job[p]
    BY <1>0, <1>2 DEF Handle, Create, CancelGet, PatchGet, Goto
  <2>3. QED
    BY <1>1, <2>1, <2>2
<1>3. ASSUME NEW p \in Procs, PutGet(p)
      PROVE  \/ Claimed(a)' \subseteq Claimed(a) /\ spent.faults <= spent'.faults
             \/ \E k \in Keys : /\ Claimed(a)' \subseteq Claimed(a) \cup {k}
                                /\ spent'.faults = spent.faults + 1
  <2>1. job[p].key \in Keys /\ store' = store /\ job' = job
    BY <1>0, <1>3, JobHeld DEF PutGet
  <2>2. \A q \in Procs : q # p => pc'[q] = pc[q]
    BY <1>0, <1>3 DEF PutGet, Goto
  <2>3. Claimed(a)' \subseteq Claimed(a) \cup {job[p].key}
    BY <2>1, <2>2 DEF Claimed, Stored
  <2>4. CASE KVFault
    BY <1>0, <2>1, <2>3, <2>4 DEF KVFault
  <2>5. CASE spent' = spent /\ pc'[p] = (IF Stored(job[p].key) THEN "putSet"
                                                             ELSE "putList")
    <3>1. Claimed(a)' \subseteq Claimed(a)
      BY <2>1, <2>2, <2>5 DEF Claimed, Stored
    <3>2. QED
      BY <1>0, <2>5, <3>1
  <2>6. QED
    BY <1>0, <1>3, <2>4, <2>5 DEF PutGet, Goto
<1>4. ASSUME NEW p \in Procs, PutList(p)
      PROVE  \/ Claimed(a)' \subseteq Claimed(a) /\ spent.faults <= spent'.faults
             \/ /\ HasRoom(a) /\ UNCHANGED <<store, spent>>
                /\ Claimed(a)' \subseteq
                      PendingOf(a) \cup {job'[q].key : q \in {r \in Procs :
                                            pc'[r] = "putSet"}}
  <2>1. store' = store /\ job[p].key \in Keys
    BY <1>0, <1>4, JobHeld DEF PutList
  <2>2. CASE /\ HasRoom(job[p].rec.account)
             /\ pc' = [pc EXCEPT ![p] = "putSet"]
             /\ job' = job /\ spent' = spent
    <3>1. job[p].rec.account = job[p].key[1]
      <4>1. job[p] # None
        BY <1>0, <1>4, JobHeld DEF PutList
      <4>2. QED
        BY <4>1 DEF SafetyInv, DrainKnown, HandlerKnown, Known
    <3>2. CASE job[p].key[1] = a
      <4>1. ASSUME NEW k \in Claimed(a)'
            PROVE  k \in PendingOf(a) \cup {job'[q].key : q \in {r \in Procs :
                                               pc'[r] = "putSet"}}
        BY <2>1, ClaimedPending DEF Claimed, Stored
      <4>2. QED
        BY <2>1, <2>2, <3>1, <3>2, <4>1
    <3>3. CASE job[p].key[1] # a
      <4>1. Claimed(a)' \subseteq Claimed(a)
        BY <1>0, <2>1, <2>2, <3>3 DEF Claimed, Stored
      <4>2. QED
        BY <1>0, <2>2, <4>1
    <3>4. QED
      BY <3>2, <3>3
  <2>3. CASE PutFailed(p)
    <3>1. \A q \in Procs : pc'[q] = "putSet" =>
             pc[q] = "putSet" /\ job'[q] = job[q]
      BY <1>0, <1>4, <2>3 DEF PutFailed, Return, Goto
    <3>2. spent.faults <= spent'.faults
      BY <1>0, <1>4 DEF PutList, KVFault
    <3>3. QED
      BY <1>1, <2>1, <3>1, <3>2
  <2>4. QED
    BY <1>4, <2>2, <2>3 DEF PutList, Goto
<1>5. ASSUME NEW p \in Procs, PutSet(p)
      PROVE  Claimed(a)' \subseteq Claimed(a) /\ spent.faults <= spent'.faults
  <2>1. job[p].key \in Keys /\ pc[p] = "putSet"
    BY <1>0, <1>5, JobHeld DEF PutSet
  <2>2. \A q \in Procs : pc'[q] = "putSet" =>
           pc[q] = "putSet" /\ job'[q] = job[q]
    BY <1>0, <1>5 DEF PutSet, PutFailed, Return, Goto
  <2>3. \A k \in Keys : store'[k] # None => store[k] # None \/ k = job[p].key
    BY <1>0, <1>5, <2>1 DEF PutSet
  <2>4. Claimed(a)' \subseteq Claimed(a)
    BY <2>1, <2>2, <2>3 DEF Claimed, Stored
  <2>5. spent.faults <= spent'.faults
    BY <1>0, <1>5 DEF PutSet, KVFault
  <2>6. QED
    BY <2>4, <2>5
<1>6. ASSUME NEW p \in Procs, Delete(p)
      PROVE  Claimed(a)' \subseteq Claimed(a) /\ spent.faults <= spent'.faults
  <2>1. job[p].key \in Keys
    BY <1>0, <1>6, JobHeld DEF Delete
  <2>2. \A q \in Procs : pc'[q] = "putSet" =>
           pc[q] = "putSet" /\ job'[q] = job[q]
    BY <1>0, <1>6 DEF Delete, Return, Goto
  <2>3. \A k \in Keys : store'[k] # None => store[k] # None
    BY <1>0, <1>6, <2>1 DEF Delete
  <2>4. spent.faults <= spent'.faults
    BY <1>0, <1>6 DEF Delete, KVFault
  <2>5. QED
    BY <1>1, <2>2, <2>3, <2>4
<1>7. ASSUME NEW n \in Nodes, Drain(n)
      PROVE  Claimed(a)' \subseteq Claimed(a) /\ spent.faults <= spent'.faults
  <2>1. store' = store
    BY <1>7 DEF Drain, Pass, Poll, PollFault, PassDone, Fire, SmtpAccept, SmtpQuit,
                SmtpFail
  <2>2. \A q \in Procs : pc'[q] = "putSet" =>
           pc[q] = "putSet" /\ job'[q] = job[q]
    BY <1>0, <1>7 DEF Drain, Pass, Poll, PollFault, PassDone, Fire, SmtpAccept,
                      SmtpQuit, SmtpFail, Goto
  <2>3. spent.faults <= spent'.faults
    BY <1>0, <1>7 DEF Drain, Pass, Poll, PollFault, PassDone, Fire, SmtpAccept,
                      SmtpQuit, SmtpFail, KVFault
  <2>4. QED
    BY <1>1, <2>1, <2>2, <2>3
<1>8. ASSUME NEW n \in Nodes, Stop(n) \/ DrainExit(n) \/ Crash(n) \/ Boot(n)
      PROVE  Claimed(a)' \subseteq Claimed(a) /\ spent.faults <= spent'.faults
  <2>1. store' = store
    BY <1>8 DEF Stop, DrainExit, Crash, Boot
  <2>2. \A q \in Procs : pc'[q] = "putSet" =>
           pc[q] = "putSet" /\ job'[q] = job[q]
    BY <1>0, <1>8 DEF Stop, DrainExit, Crash, Boot, Goto
  <2>3. spent.faults <= spent'.faults
    BY <1>0, <1>8 DEF Stop, DrainExit, Crash, Boot
  <2>4. QED
    BY <1>1, <2>1, <2>2, <2>3
<1>9. CASE Tick \/ UNCHANGED vars
  <2>1. UNCHANGED <<store, pc, job, spent>>
    BY <1>9 DEF Tick, vars
  <2>2. QED
    BY <1>0, <1>1, <2>1
<1>10. QED
  BY <1>2, <1>3, <1>4, <1>5, <1>6, <1>7, <1>8, <1>9 DEF Next, Put

(* Nothing is claimed at first. *)
LEMMA ClaimInit == Init => ClaimBounded
<1> SUFFICES ASSUME Init, NEW a \in Accounts
             PROVE  Cardinality(Claimed(a)) <=
                       MaxPending + (Cardinality(Procs) - 1) + spent.faults
  BY DEF ClaimBounded
<1>1. Claimed(a) = {}
  BY DEF Init, Claimed, Stored
<1>2. Cardinality(Procs) \in Nat /\ spent.faults = 0
  BY KeysFinite, FS_CardinalityType DEF Init
<1>3. QED
  BY <1>1, <1>2, FS_EmptySet, NumberAssumption

(* The bound on claims is inductive, given the safety invariant. *)
LEMMA ClaimNext ==
    ASSUME SafetyInv, ClaimBounded, [Next]_vars
    PROVE  ClaimBounded'
<1> SUFFICES ASSUME NEW a \in Accounts
             PROVE  Cardinality(Claimed(a)') <=
                       MaxPending + (Cardinality(Procs) - 1) + spent'.faults
  BY DEF ClaimBounded
<1> DEFINE C == Claimed(a)
           P == PendingOf(a)
           T == {job'[p].key : p \in {q \in Procs : pc'[q] = "putSet"}}
<1>1. C \subseteq Keys /\ C' \subseteq Keys /\ P \subseteq Keys
  BY DEF Claimed, PendingOf
<1>2. /\ IsFiniteSet(C) /\ IsFiniteSet(C') /\ IsFiniteSet(P)
      /\ Cardinality(C) \in Nat /\ Cardinality(C') \in Nat
      /\ Cardinality(P) \in Nat
  BY <1>1, KeysFinite
<1>3. /\ spent.faults \in Nat /\ spent'.faults \in Nat
      /\ Cardinality(Procs) \in Nat /\ MaxPending \in Nat
  BY TypeNext, KeysFinite, FS_CardinalityType, NumberAssumption
     DEF SafetyInv, TypeOK, DataType
<1>4. Cardinality(C) <= MaxPending + (Cardinality(Procs) - 1) + spent.faults
  BY DEF ClaimBounded
<1>5. CASE C' \subseteq C /\ spent.faults <= spent'.faults
  <2>1. Cardinality(C') <= Cardinality(C)
    BY <1>2, <1>5, FS_Subset
  <2>2. QED
    BY <1>2, <1>3, <1>4, <1>5, <2>1
<1>6. ASSUME NEW k \in Keys, C' \subseteq C \cup {k},
             spent'.faults = spent.faults + 1
      PROVE  Cardinality(C') <=
                MaxPending + (Cardinality(Procs) - 1) + spent'.faults
  <2>1. /\ IsFiniteSet(C \cup {k})
        /\ Cardinality(C \cup {k}) <= Cardinality(C) + 1
        /\ Cardinality(C \cup {k}) \in Nat
    <3>1. /\ IsFiniteSet(C \cup {k})
          /\ Cardinality(C \cup {k}) =
                IF k \in C THEN Cardinality(C) ELSE Cardinality(C) + 1
      BY <1>2, FS_AddElement, Zenon
    <3>2. QED
      BY <1>2, <3>1
  <2>2. Cardinality(C') <= Cardinality(C \cup {k})
    BY <1>6, <2>1, FS_Subset
  <2>3. QED
    BY <1>2, <1>3, <1>4, <1>6, <2>1, <2>2
<1>7. CASE HasRoom(a) /\ spent' = spent /\ C' \subseteq P \cup T
  <2>1. Cardinality(P) < MaxPending
    BY <1>7 DEF HasRoom
  <2>2. /\ IsFiniteSet(T) /\ Cardinality(T) \in Nat
        /\ Cardinality(T) <= Cardinality(Procs)
    BY WritersBound
  <2>3. P \cap T \subseteq P
    OBVIOUS
  <2>4. Cardinality(P \cap T) \in Nat
    BY <1>2, <2>3, FS_Subset, FS_CardinalityType
  <2>5. /\ IsFiniteSet(P \cup T)
        /\ Cardinality(P \cup T) =
              Cardinality(P) + Cardinality(T) - Cardinality(P \cap T)
    BY <1>2, <2>2, FS_Union
  <2>6. Cardinality(C') <= Cardinality(P \cup T)
    BY <1>7, <2>5, FS_Subset
  <2>7. QED
    BY <1>2, <1>3, <1>7, <2>1, <2>2, <2>4, <2>5, <2>6
<1>8. QED
  BY <1>5, <1>6, <1>7, ClaimSteps

(* The quota of pending sends is overshot by at most one record per other  *)
(* writer and one per failed store call, with any number of each           *)
(* (schedule_store.go Put).                                                *)
THEOREM QuotaNearlyKept == Spec => []QuotaOvershootBounded
<1>1. Init => SafetyInv /\ ClaimBounded
  BY SafetyInit, ClaimInit
<1>2. SafetyInv /\ ClaimBounded /\ [Next]_vars => (SafetyInv /\ ClaimBounded)'
  BY SafetyNext, ClaimNext
<1>3. SafetyInv /\ ClaimBounded => QuotaOvershootBounded
  <2> SUFFICES ASSUME SafetyInv, ClaimBounded, NEW a \in Accounts
               PROVE  Cardinality(PendingOf(a)) <=
                         MaxPending + (Cardinality(Procs) - 1) + spent.faults
    BY DEF QuotaOvershootBounded
  <2>1. Claimed(a) \subseteq Keys
    BY DEF Claimed
  <2>2. /\ IsFiniteSet(Claimed(a)) /\ Cardinality(Claimed(a)) \in Nat
        /\ Cardinality(PendingOf(a)) \in Nat
    BY <2>1, KeysFinite DEF PendingOf
  <2>3. Cardinality(PendingOf(a)) <= Cardinality(Claimed(a))
    BY <2>2, PendingClaimed, FS_Subset
  <2>4. /\ spent.faults \in Nat /\ Cardinality(Procs) \in Nat
        /\ MaxPending \in Nat
    BY KeysFinite, FS_CardinalityType, NumberAssumption
       DEF SafetyInv, TypeOK, DataType
  <2>5. QED
    BY <2>2, <2>3, <2>4 DEF ClaimBounded
<1>4. QED
  BY <1>1, <1>2, <1>3, PTL DEF Spec

-----------------------------------------------------------------------------
(* At rest for good *)

(* A record that nobody stores or holds is taken up by no action. *)
LEMMA RestNext ==
    ASSUME TypeOK, [Next]_vars, NEW k \in Keys,
           log[k].issued, ~Stored(k), ~Held(k)
    PROVE  ~Stored(k)' /\ ~Held(k)' /\ log'[k] = log[k]
<1> USE ProcAssumption DEF Procs
<1>0. /\ store \in [Keys -> Record \cup {None}]
      /\ batch \in [Nodes -> SUBSET Job]
      /\ job \in [Procs -> Job \cup {None}]
      /\ log \in [Keys -> Log]
  BY DEF TypeOK, ControlType, DataType
<1>1. /\ \A p \in Procs : job[p] # None => job[p].key # k
      /\ \A n \in Nodes : \A s \in batch[n] : s.key # k
      /\ store[k] = None
  BY DEF Held, Stored
<1>2. ASSUME store'[k] = None, log'[k] = log[k],
             \A p \in Procs : job'[p] # None => job'[p].key # k,
             \A n \in Nodes : \A s \in batch'[n] : s.key # k
      PROVE  ~Stored(k)' /\ ~Held(k)' /\ log'[k] = log[k]
  BY <1>2 DEF Held, Stored
<1>3. ASSUME NEW h \in Handlers, Create(h)
      PROVE  ~Stored(k)' /\ ~Held(k)' /\ log'[k] = log[k]
  <2>1. PICK j \in Keys, t \in Times, b \in Bodies :
           /\ FreshId(j[2])
           /\ job' = [job EXCEPT ![h] =
                [key |-> j,
                 rec |-> [account |-> j[1], sendAt |-> t, body |-> b,
                          enc |-> encKey[Host[h]], attempts |-> 0]]]
           /\ log' = [log EXCEPT ![j].issued = TRUE]
    BY <1>3 DEF Create
  <2>2. j # k
    <3>1. ~log[<<j[1], j[2]>>].issued /\ j = <<j[1], j[2]>>
      BY <2>1 DEF FreshId, Keys
    <3>2. QED
      BY <3>1
  <2>3. log'[k] = log[k]
    BY <1>0, <2>1, <2>2
  <2>4. \A p \in Procs : job'[p] # None => job'[p].key # k
    BY <1>0, <1>1, <2>1, <2>2
  <2>5. UNCHANGED <<store, batch>>
    BY <1>3 DEF Create
  <2>6. QED
    BY <1>1, <1>2, <2>3, <2>4, <2>5
<1>4. ASSUME NEW h \in Handlers, CancelGet(h) \/ PatchGet(h)
      PROVE  ~Stored(k)' /\ ~Held(k)' /\ log'[k] = log[k]
  <2>1. PICK j \in Keys :
           /\ Stored(j)
           /\ \E r : job' = [job EXCEPT ![h] = [key |-> j, rec |-> r]]
    <3>1. CASE CancelGet(h)
      BY <3>1 DEF CancelGet, Owned, Addressed
    <3>2. CASE PatchGet(h)
      BY <3>2 DEF PatchGet, Owned, Addressed
    <3>3. QED
      BY <1>4, <3>1, <3>2
  <2>2. \A p \in Procs : job'[p] # None => job'[p].key # k
    BY <1>0, <1>1, <2>1
  <2>3. UNCHANGED <<store, batch, log>>
    BY <1>4 DEF CancelGet, PatchGet
  <2>4. QED
    BY <1>1, <1>2, <2>2, <2>3
<1>5. ASSUME NEW p \in Procs, Put(p) \/ Delete(p)
      PROVE  ~Stored(k)' /\ ~Held(k)' /\ log'[k] = log[k]
  <2>1. job[p].key \in Keys /\ job[p].key # k
    BY <1>1, <1>5, JobHeld DEF Put, PutGet, PutList, PutSet, Delete
  <2>2. store'[k] = None /\ log'[k] = log[k]
    BY <1>0, <1>1, <1>5, <2>1 DEF Put, PutGet, PutList, PutSet, Delete
  <2>3. \A q \in Procs : job'[q] \in {job[q], None}
    BY <1>0, <1>5 DEF Put, PutGet, PutList, PutSet, Delete, PutFailed, Return
  <2>4. batch' = batch
    BY <1>5 DEF Put, PutGet, PutList, PutSet, Delete
  <2>5. QED
    BY <1>1, <1>2, <2>2, <2>3, <2>4
<1>6. ASSUME NEW n \in Nodes, Poll(n)
      PROVE  ~Stored(k)' /\ ~Held(k)' /\ log'[k] = log[k]
  <2>1. \A m \in Nodes : \A s \in batch'[m] : s.key # k
    BY <1>0, <1>1, <1>6 DEF Poll, DueKeys, Stored
  <2>2. QED
    BY <1>1, <1>2, <1>6, <2>1 DEF Poll
<1>7. ASSUME NEW n \in Nodes, Fire(n)
      PROVE  ~Stored(k)' /\ ~Held(k)' /\ log'[k] = log[k]
  <2>1. PICK s \in batch[n] : /\ batch' = [batch EXCEPT ![n] = @ \ {s}]
                              /\ job' = job \/ job' = [job EXCEPT ![n] = s]
    BY <1>7 DEF Fire
  <2>2. \A p \in Procs : job'[p] # None => job'[p].key # k
    BY <1>0, <1>1, <2>1
  <2>3. \A m \in Nodes : \A x \in batch'[m] : x.key # k
    BY <1>0, <1>1, <2>1
  <2>4. QED
    BY <1>1, <1>2, <1>7, <2>2, <2>3 DEF Fire
<1>8. ASSUME NEW n \in Nodes, SmtpAccept(n) \/ SmtpFail(n)
      PROVE  ~Stored(k)' /\ ~Held(k)' /\ log'[k] = log[k]
  <2>1. job[n].key \in Keys /\ job[n].key # k /\ job[n] \in Job
    BY <1>1, <1>8, JobHeld DEF SmtpAccept, SmtpFail
  <2>2. log'[k] = log[k]
    BY <1>0, <1>8, <2>1 DEF SmtpAccept, SmtpFail
  <2>3. \A p \in Procs : job'[p] # None => job'[p].key # k
    BY <1>0, <1>1, <1>8, <2>1 DEF SmtpAccept, SmtpFail, Job
  <2>4. QED
    BY <1>1, <1>2, <1>8, <2>2, <2>3 DEF SmtpAccept, SmtpFail
<1>9. ASSUME NEW n \in Nodes, Crash(n)
      PROVE  ~Stored(k)' /\ ~Held(k)' /\ log'[k] = log[k]
  BY <1>0, <1>1, <1>2, <1>9 DEF Crash
<1>10. CASE UNCHANGED <<store, job, batch, log>>
  BY <1>1, <1>2, <1>10
<1>11. QED
  BY <1>3, <1>4, <1>5, <1>6, <1>7, <1>8, <1>9, <1>10
     DEF Next, Handle, Drain, Pass, PollFault, PassDone, SmtpQuit, Stop, DrainExit,
         Boot, Tick, vars

(* A record that has left the store and every memory stays away: nothing   *)
(* but a request or a drain pass that read it earlier can bring it back or *)
(* send it (schedule.go fire, handlePatchScheduled).                       *)
THEOREM RestIsFinal == Spec => AtRestForGood
<1>1. TypeOK /\ [Next]_vars =>
         [\A k \in Keys :
             log[k].issued /\ ~Stored(k) /\ ~Held(k) =>
                 ~Stored(k)' /\ ~Held(k)' /\ log'[k] = log[k]]_vars
  BY RestNext
<1>2. QED
  BY <1>1, TypeCorrect, PTL DEF Spec, AtRestForGood

-----------------------------------------------------------------------------
(* Copies accounted for *)

(* One process drains the store. *)
OneDrain == \A m, n \in Nodes : m = n

(* What pays for the copies of k after the first. *)
Paid(k) == log[k].lost + log[k].edits + spent.faults + spent.crashes

(* The drain has sent k and not yet recorded it. *)
Sent(k) == \E n \in Nodes : pc[n] \in {"accepted", "done"} /\ job[n].key = k

(* The drain can still come to send k, with nobody storing it again. *)
AtHand(k) == \/ Stored(k)
             \/ \E n \in Nodes : job[n] # None /\ job[n].key = k
             \/ \E n \in Nodes : \E s \in batch[n] : s.key = k

(* A copy that can be sent again for nothing was itself paid for. *)
CopiesPaid == OneDrain => \A k \in Keys :
    /\ log[k].delivered <= 1 + Paid(k)
    /\ AtHand(k) /\ ~Sent(k) => log[k].delivered <= Paid(k)

(* A pass holds every record once. *)
BatchOnce == \A n \in Nodes : \A s \in batch[n] :
    /\ \A t \in batch[n] : t.key = s.key => t = s
    /\ job[n] # None => s.key # job[n].key

(* What is sent was stored, and what is stored was issued. *)
HistoryOrdered == \A k \in Keys : /\ log[k].delivered > 0 => log[k].promised
                                  /\ log[k].promised => log[k].issued

(* The id of a new record is known to no other request until it is stored. *)
FreshFor(h, k) ==
    ~log[k].promised /\ \A g \in Handlers : g # h /\ job[g] # None => job[g].key # k
RequestFresh == \A h \in Handlers : job[h] # None =>
    /\ log[job[h].key].issued
    /\ req[h].op = "create" => FreshFor(h, job[h].key)
    /\ req[h].op # "create" => log[job[h].key].promised
    /\ pc[h] # "del" => req[h].op \in {"create", "patch"}

CopiesInv == /\ SafetyInv /\ HistoryOrdered /\ RequestFresh
             /\ BatchOnce /\ CopiesPaid

(* What an action can do to the history of a key, as far as copies go. *)
SameCopies(l, m) == /\ m.issued = l.issued /\ m.promised = l.promised
                    /\ m.delivered = l.delivered
                    /\ m.lost = l.lost /\ m.edits = l.edits

Creates(h, k) == /\ Create(h) /\ ~log[k].issued
                 /\ log'[k] = [log[k] EXCEPT !.issued = TRUE]
                 /\ spent'.faults = spent.faults /\ spent'.crashes = spent.crashes
Stores(h, k) == /\ PutSet(h) /\ Return(h) /\ job[h] # None /\ job[h].key = k
                /\ job[h].rec \in Record
                /\ log'[k] = Promised(log[k], job[h].rec,
                                      IF req[h].op = "patch" THEN 1 ELSE 0)
                /\ spent' = spent
Sends(n, k) == /\ SmtpAccept(n) /\ job[n] # None /\ job[n].key = k
               /\ log'[k] = [log[k] EXCEPT !.delivered = @ + 1]
               /\ spent' = spent
Loses(n, k) == /\ SmtpFail(n) /\ pc[n] = "accepted" /\ job[n].key = k
               /\ SameCopies([log[k] EXCEPT !.lost = @ + 1], log'[k])
               /\ spent' = spent

(* Faults and crashes only add up. *)
LEMMA SpentGrows ==
    ASSUME TypeOK, [Next]_vars
    PROVE  /\ spent.faults \in Nat /\ spent'.faults \in Nat
           /\ spent.crashes \in Nat /\ spent'.crashes \in Nat
           /\ spent.faults <= spent'.faults /\ spent.crashes <= spent'.crashes
<1>0. spent \in [requests : Nat, faults : Nat, crashes : Nat]
  BY DEF TypeOK, DataType
<1>1. \/ spent' = spent
      \/ \E h \in Handlers, op \in {"create", "cancel", "patch"} :
            spent' = [spent EXCEPT !.requests = @ + 1]
      \/ spent' = [spent EXCEPT !.faults = @ + 1]
      \/ spent' = [spent EXCEPT !.crashes = @ + 1]
  BY DEF Next, Handle, Put, Drain, Pass, Create, CancelGet, PatchGet, Request,
         PutGet, PutList, PutSet, Delete, KVFault, Poll, PollFault, PassDone,
         Fire, SmtpAccept, SmtpQuit, SmtpFail, Stop, DrainExit, Crash, Boot,
         Tick, vars
<1>2. QED
  BY <1>0, <1>1

(* The five ways a step can treat the history of a key. *)
LEMMA LogSteps ==
    ASSUME TypeOK, [Next]_vars, NEW k \in Keys
    PROVE  \/ SameCopies(log[k], log'[k])
           \/ \E h \in Handlers : Creates(h, k) \/ Stores(h, k)
           \/ \E n \in Nodes : Sends(n, k) \/ Loses(n, k)
<1> USE ProcAssumption DEF Procs
<1>0. log \in [Keys -> Log] /\ log[k] \in Log
  BY DEF TypeOK, DataType
<1>1. ASSUME log' = log PROVE SameCopies(log[k], log'[k])
  BY <1>0, <1>1 DEF SameCopies
<1>2. ASSUME NEW j \in Keys, NEW c,
             \/ log' = [log EXCEPT ![j].unpersisted = c]
             \/ log' = [log EXCEPT ![j].cancelled = c]
      PROVE  SameCopies(log[k], log'[k])
  BY <1>0, <1>2 DEF SameCopies, Log
<1>3. ASSUME NEW h \in Handlers, Create(h)
      PROVE  SameCopies(log[k], log'[k]) \/ Creates(h, k)
  <2>1. PICK j \in Keys : /\ FreshId(j[2])
                          /\ Request(h, "create", j[1])
                          /\ log' = [log EXCEPT ![j].issued = TRUE]
    BY <1>3 DEF Create
  <2>2. CASE j = k
    <3>1. ~log[<<k[1], k[2]>>].issued /\ k = <<k[1], k[2]>>
      BY <2>1, <2>2 DEF FreshId, Keys
    <3>2. spent'.faults = spent.faults /\ spent'.crashes = spent.crashes
      BY <2>1 DEF Request, TypeOK, DataType
    <3>3. QED
      BY <1>0, <1>3, <2>1, <2>2, <3>1, <3>2 DEF Creates
  <2>3. CASE j # k
    BY <1>0, <2>1, <2>3 DEF SameCopies
  <2>4. QED
    BY <2>2, <2>3
<1>4. ASSUME NEW p \in Procs, PutSet(p)
      PROVE  SameCopies(log[k], log'[k]) \/ (p \in Handlers /\ Stores(p, k))
  <2>1. job[p].key \in Keys /\ job[p].rec \in Record /\ job[p] # None
    BY <1>4, JobHeld DEF PutSet
  <2>2. CASE log' = [log EXCEPT ![job[p].key].unpersisted = @ \/ p \in Nodes]
    BY <1>2, <2>1, <2>2
  <2>3. CASE /\ p \notin Nodes /\ Return(p) /\ spent' = spent
             /\ log' = [log EXCEPT ![job[p].key] =
                    Promised(@, job[p].rec, IF req[p].op = "patch"
                                            THEN 1 ELSE 0)]
    <3>1. CASE job[p].key = k
      BY <1>0, <1>4, <2>1, <2>3, <3>1 DEF Stores
    <3>2. CASE job[p].key # k
      BY <1>0, <2>3, <3>2 DEF SameCopies
    <3>3. QED
      BY <3>1, <3>2
  <2>4. CASE p \in Nodes /\ log' = log
    BY <1>1, <2>4
  <2>5. QED
    BY <1>4, <2>2, <2>3, <2>4 DEF PutSet
<1>5. ASSUME NEW p \in Procs, PutList(p) \/ Delete(p)
      PROVE  SameCopies(log[k], log'[k])
  <2>1. job[p].key \in Keys
    BY <1>5, JobHeld DEF PutList, Delete
  <2>2. \/ log' = log
        \/ \E c : log' = [log EXCEPT ![job[p].key].unpersisted = c]
        \/ \E c : log' = [log EXCEPT ![job[p].key].cancelled = c]
    BY <1>5 DEF PutList, Delete
  <2>3. QED
    BY <1>1, <1>2, <2>1, <2>2
<1>6. ASSUME NEW n \in Nodes, SmtpAccept(n)
      PROVE  SameCopies(log[k], log'[k]) \/ Sends(n, k)
  <2>1. job[n].key \in Keys /\ job[n] # None
    BY <1>6, JobHeld DEF SmtpAccept
  <2>2. CASE job[n].key = k
    BY <1>0, <1>6, <2>1, <2>2 DEF SmtpAccept, Sends
  <2>3. CASE job[n].key # k
    BY <1>0, <1>6, <2>1, <2>3 DEF SmtpAccept, SameCopies
  <2>4. QED
    BY <2>2, <2>3
<1>7. ASSUME NEW n \in Nodes, SmtpFail(n)
      PROVE  SameCopies(log[k], log'[k]) \/ Loses(n, k)
  <2>1. job[n].key \in Keys
    BY <1>7, JobHeld DEF SmtpFail
  <2>2. CASE job[n].key # k
    BY <1>0, <1>7, <2>1, <2>2 DEF SmtpFail, SameCopies
  <2>3. CASE job[n].key = k /\ pc[n] = "accepted"
    <3>1. log'[k] = [log[k] EXCEPT !.failures = @ + 1, !.lost = @ + 1]
      BY <1>0, <1>7, <2>1, <2>3 DEF SmtpFail
    <3>2. QED
      BY <1>0, <1>7, <2>3, <3>1 DEF Loses, SmtpFail, SameCopies, Log
  <2>4. CASE job[n].key = k /\ pc[n] # "accepted"
    <3>1. log'[k] = [log[k] EXCEPT !.failures = @ + 1, !.lost = @]
      BY <1>0, <1>7, <2>1, <2>4 DEF SmtpFail
    <3>2. QED
      BY <1>0, <3>1 DEF SameCopies, Log
  <2>5. QED
    BY <2>2, <2>3, <2>4
<1>8. QED
  BY <1>1, <1>3, <1>4, <1>5, <1>6, <1>7
     DEF Next, Handle, Put, Drain, Pass, CancelGet, PatchGet, PutGet, Poll,
         PollFault, PassDone, Fire, SmtpQuit, Stop, DrainExit, Crash, Boot,
         Tick, vars
(* Issued before stored, stored before sent. *)
LEMMA HistoryOrderedNext ==
    ASSUME SafetyInv, HistoryOrdered, RequestFresh, [Next]_vars
    PROVE  HistoryOrdered'
<1> SUFFICES ASSUME NEW k \in Keys
             PROVE  /\ log'[k].delivered > 0 => log'[k].promised
                    /\ log'[k].promised => log'[k].issued
  BY DEF HistoryOrdered
<1>0. TypeOK /\ log[k] \in Log
  BY DEF SafetyInv, TypeOK, DataType
<1>1. /\ log[k].delivered > 0 => log[k].promised
      /\ log[k].promised => log[k].issued
  BY DEF HistoryOrdered
<1>2. CASE SameCopies(log[k], log'[k])
  BY <1>1, <1>2 DEF SameCopies
<1>3. ASSUME NEW h \in Handlers, Creates(h, k) PROVE log'[k].issued
                                          /\ log'[k].delivered = log[k].delivered
                                          /\ log'[k].promised = log[k].promised
  BY <1>0, <1>3 DEF Creates, Log
<1>4. ASSUME NEW h \in Handlers, Stores(h, k)
      PROVE  log'[k].promised /\ log'[k].issued
  BY <1>0, <1>4 DEF Stores, Promised, RequestFresh, Log
<1>5. ASSUME NEW n \in Nodes, Sends(n, k)
      PROVE  log'[k].promised /\ log'[k].issued
  <2>1. log[k].promised
    BY <1>5 DEF Sends, SafetyInv, DrainKnown, Known
  <2>2. QED
    BY <1>0, <1>1, <1>5, <2>1 DEF Sends, Log
<1>6. ASSUME NEW n \in Nodes, Loses(n, k)
      PROVE  /\ log'[k].issued = log[k].issued
             /\ log'[k].promised = log[k].promised
             /\ log'[k].delivered = log[k].delivered
  BY <1>0, <1>6 DEF Loses, SameCopies, Log
<1>7. QED
  BY <1>0, <1>1, <1>2, <1>3, <1>4, <1>5, <1>6, LogSteps

(* A request keeps its operation as long as it keeps its record. *)
LEMMA RequestSteps ==
    ASSUME TypeOK, [Next]_vars, NEW h \in Handlers, job'[h] # None
    PROVE  \/ /\ job'[h] = job[h] /\ req'[h] = req[h]
              /\ pc[h] = "del" => pc'[h] = "del"
           \/ Handle(h)
<1> USE ProcAssumption DEF TypeOK, ControlType, Procs
<1>1. ASSUME NEW g \in Handlers, Handle(g), g # h
      PROVE  job'[h] = job[h] /\ req'[h] = req[h] /\ pc'[h] = pc[h]
  BY <1>1 DEF Handle, Create, CancelGet, PatchGet, Request, Goto
<1>2. ASSUME NEW p \in Procs, PutGet(p)
      PROVE  job'[h] = job[h] /\ req'[h] = req[h]
             /\ (pc[h] = "del" => pc'[h] = "del")
  BY <1>2 DEF PutGet, Goto
<1>3. ASSUME NEW p \in Procs, PutList(p) \/ PutSet(p) \/ Delete(p)
      PROVE  job'[h] = job[h] /\ req'[h] = req[h]
             /\ (pc[h] = "del" => pc'[h] = "del")
  <2>1. CASE PutFailed(p) /\ pc[p] # "del"
    BY <2>1 DEF PutFailed, Return, Goto
  <2>2. CASE Return(p)
    BY <2>2 DEF Return, Goto
  <2>3. CASE Goto(p, "putSet") /\ pc[p] = "putList" /\ UNCHANGED <<job, req>>
    BY <2>3 DEF Goto
  <2>4. QED
    BY <1>3, <2>1, <2>2, <2>3 DEF PutList, PutSet, Delete
<1>4. ASSUME NEW n \in Nodes, Drain(n)
      PROVE  job'[h] = job[h] /\ req'[h] = req[h] /\ pc'[h] = pc[h]
  BY <1>4 DEF Drain, Pass, Poll, PollFault, PassDone, Fire, SmtpAccept, SmtpQuit,
              SmtpFail, Goto
<1>5. ASSUME NEW n \in Nodes, Stop(n) \/ DrainExit(n) \/ Crash(n) \/ Boot(n)
      PROVE  job'[h] = job[h] /\ req'[h] = req[h] /\ pc'[h] = pc[h]
  BY <1>5 DEF Stop, DrainExit, Crash, Boot, Goto
<1>6. QED
  BY <1>1, <1>2, <1>3, <1>4, <1>5 DEF Next, Put, Tick, vars

(* What a request that starts takes in hand. *)
LEMMA HandleSteps ==
    ASSUME TypeOK, NEW h \in Handlers, Handle(h)
    PROVE  \E k \in Keys :
              /\ job'[h].key = k
              /\ \A p \in Procs : p # h => job'[p] = job[p]
              /\ \/ /\ req'[h].op = "create" /\ ~log[k].issued
                    /\ log' = [log EXCEPT ![k].issued = TRUE]
                 \/ /\ req'[h].op \in {"cancel", "patch"} /\ Stored(k)
                    /\ pc'[h] # "del" => req'[h].op = "patch"
                    /\ log' = log
<1> USE ProcAssumption DEF TypeOK, ControlType, Procs
<1>1. CASE Create(h)
  <2>1. PICK k \in Keys, t \in Times, b \in Bodies :
           /\ Request(h, "create", k[1])
           /\ FreshId(k[2])
           /\ job' = [job EXCEPT ![h] =
                [key |-> k,
                 rec |-> [account |-> k[1], sendAt |-> t, body |-> b,
                          enc |-> encKey[Host[h]], attempts |-> 0]]]
           /\ log' = [log EXCEPT ![k].issued = TRUE]
    BY <1>1 DEF Create
  <2>2. ~log[<<k[1], k[2]>>].issued /\ k = <<k[1], k[2]>>
    BY <2>1 DEF FreshId, Keys
  <2>3. req'[h].op = "create" /\ job'[h].key = k
    BY <2>1 DEF Request
  <2>4. QED
    BY <2>1, <2>2, <2>3
<1>2. CASE CancelGet(h)
  BY <1>2 DEF CancelGet, Request, Owned, Addressed, Goto
<1>3. CASE PatchGet(h)
  <2>1. PICK a \in Accounts, k \in Keys :
           /\ Request(h, "patch", a)
           /\ Owned(a, k)
           /\ \E b \in Bodies, t \in Instants(k) :
                 job' = [job EXCEPT ![h] = [key |-> k, rec |-> Edited(k, t, b)]]
           /\ log' = log
    BY <1>3 DEF PatchGet
  <2>2. req'[h].op = "patch" /\ job'[h].key = k /\ Stored(k)
    BY <2>1 DEF Request, Owned, Addressed
  <2>3. QED
    BY <2>1, <2>2
<1>4. QED
  BY <1>1, <1>2, <1>3 DEF Handle

(* Two requests never hold the same unstored record. *)
LEMMA RequestFreshNext ==
    ASSUME SafetyInv, HistoryOrdered, RequestFresh, [Next]_vars
    PROVE  RequestFresh'
<1> USE ProcAssumption DEF Procs
<1> SUFFICES ASSUME NEW h \in Handlers, job'[h] # None
             PROVE  /\ log'[job'[h].key].issued
                    /\ req'[h].op = "create" => FreshFor(h, job[h].key)'
                    /\ req'[h].op # "create" => log'[job'[h].key].promised
                    /\ pc'[h] # "del" => req'[h].op \in {"create", "patch"}
  BY DEF RequestFresh, FreshFor
<1>0. TypeOK /\ (\A k \in Keys : log[k] \in Log)
  BY DEF SafetyInv, TypeOK, DataType
<1>1. \A k \in Keys : /\ log[k].issued => log'[k].issued
                      /\ log[k].promised => log'[k].promised
  BY <1>0, LogGrows DEF Grows
<1>2. \A k \in Keys : Stored(k) => log[k].promised /\ log[k].issued
  BY DEF SafetyInv, StoreKnown, Known, HistoryOrdered
<1>3. \A p \in Procs : job[p] # None => job[p].key \in Keys
  BY <1>0 DEF TypeOK, ControlType, Job
<1>4. CASE /\ job'[h] = job[h] /\ req'[h] = req[h]
           /\ pc[h] = "del" => pc'[h] = "del"
  <2> DEFINE k == job[h].key
  <2>1. /\ k \in Keys /\ log[k].issued
        /\ req[h].op = "create" => FreshFor(h, k)
        /\ req[h].op # "create" => log[k].promised
        /\ pc[h] # "del" => req[h].op \in {"create", "patch"}
    BY <1>3, <1>4 DEF RequestFresh
  <2>2. ASSUME req[h].op = "create" PROVE ~log'[k].promised
    <3>1. ~log[k].promised
      BY <2>1, <2>2 DEF FreshFor
    <3>2. ~\E g \in Handlers : Stores(g, k)
      <4> SUFFICES ASSUME NEW g \in Handlers, Stores(g, k) PROVE FALSE
        OBVIOUS
      <4>1. g = h
        BY <2>1, <2>2 DEF FreshFor, Stores
      <4>2. job'[g] = None
        BY <1>0 DEF Stores, Return, TypeOK, ControlType
      <4>3. QED
        BY <4>1, <4>2
    <3>3. ASSUME NEW n \in Nodes, Sends(n, k) \/ Loses(n, k)
          PROVE  log'[k].promised = log[k].promised
      BY <1>0, <2>1, <3>3 DEF Sends, Loses, SameCopies, Log
    <3>4. ASSUME NEW g \in Handlers, Creates(g, k)
          PROVE  log'[k].promised = log[k].promised
      BY <1>0, <2>1, <3>4 DEF Creates, Log
    <3>5. QED
      BY <1>0, <2>1, <3>1, <3>2, <3>3, <3>4, LogSteps DEF SameCopies
  <2>3. ASSUME req[h].op = "create", NEW g \in Handlers, g # h, job'[g] # None
        PROVE  job'[g].key # k
    <3>1. CASE job'[g] = job[g]
      BY <2>1, <2>3, <3>1 DEF FreshFor
    <3>2. CASE Handle(g)
      <4>1. ~log[job'[g].key].issued \/ Stored(job'[g].key)
        BY <1>0, <3>2, HandleSteps
      <4>2. QED
        BY <1>2, <2>1, <2>3, <4>1 DEF FreshFor
    <3>3. QED
      BY <1>0, <2>3, <3>1, <3>2, RequestSteps
  <2>4. QED
    BY <1>1, <1>4, <2>1, <2>2, <2>3 DEF FreshFor
<1>5. CASE Handle(h)
  <2>1. PICK k \in Keys :
           /\ job'[h].key = k
           /\ \A p \in Procs : p # h => job'[p] = job[p]
           /\ \/ /\ req'[h].op = "create" /\ ~log[k].issued
                 /\ log' = [log EXCEPT ![k].issued = TRUE]
              \/ /\ req'[h].op \in {"cancel", "patch"} /\ Stored(k)
                 /\ pc'[h] # "del" => req'[h].op = "patch"
                 /\ log' = log
    BY <1>0, <1>5, HandleSteps
  <2>2. CASE Stored(k) /\ req'[h].op \in {"cancel", "patch"}
             /\ (pc'[h] # "del" => req'[h].op = "patch") /\ log' = log
    BY <1>2, <2>1, <2>2
  <2>3. CASE req'[h].op = "create" /\ ~log[k].issued
             /\ log' = [log EXCEPT ![k].issued = TRUE]
    <3>1. log'[k].issued /\ log'[k].promised = log[k].promised
      BY <1>0, <2>3 DEF Log, TypeOK, DataType
    <3>2. ~log[k].promised
      BY <2>3 DEF HistoryOrdered
    <3>3. ASSUME NEW g \in Handlers, g # h, job'[g] # None
          PROVE  job'[g].key # k
      BY <2>1, <2>3, <3>3 DEF RequestFresh
    <3>4. QED
      BY <2>1, <2>3, <3>1, <3>2, <3>3 DEF FreshFor
  <2>4. QED
    BY <2>1, <2>2, <2>3
<1>6. QED
  BY <1>0, <1>4, <1>5, RequestSteps

(* A pass lists a record once, and takes it off the list to send it. *)
LEMMA BatchOnceNext ==
    ASSUME TypeOK, BatchOnce, [Next]_vars
    PROVE  BatchOnce'
<1> USE ProcAssumption DEF Procs
<1> SUFFICES ASSUME NEW n \in Nodes, NEW s \in batch'[n]
             PROVE  /\ \A t \in batch'[n] : t.key = s.key => t = s
                    /\ job'[n] # None => s.key # job'[n].key
  BY DEF BatchOnce
<1>0. batch \in [Nodes -> SUBSET Job] /\ job \in [Procs -> Job \cup {None}]
  BY DEF TypeOK, ControlType, DataType
<1>1. \A t, u \in batch[n] : t.key = u.key => t = u
  BY DEF BatchOnce
<1>2. \A t \in batch[n] : job[n] # None => t.key # job[n].key
  BY DEF BatchOnce
<1>3. CASE Poll(n)
  <2>1. job'[n] = None
    BY <1>3 DEF Poll, AtPoll, TypeOK, ControlType
  <2>2. batch'[n] = {[key |-> k, rec |-> store[k]] : k \in DueKeys}
    BY <1>0, <1>3 DEF Poll
  <2>3. QED
    BY <2>1, <2>2
<1>4. CASE Fire(n)
  <2>1. PICK t \in batch[n] : /\ batch' = [batch EXCEPT ![n] = @ \ {t}]
                              /\ \/ UNCHANGED job
                                 \/ job' = [job EXCEPT ![n] = t]
    BY <1>4 DEF Fire
  <2>2. batch'[n] = batch[n] \ {t} /\ (job'[n] = job[n] \/ job'[n] = t)
    BY <1>0, <2>1
  <2>3. QED
    BY <1>1, <1>2, <2>2
<1>5. CASE SmtpFail(n)
  <2>1. job[n] \in Job /\ job[n] # None
    BY <1>5, JobHeld DEF SmtpFail
  <2>2. batch'[n] = batch[n] /\ job'[n].key = job[n].key
    BY <1>0, <1>5, <2>1 DEF SmtpFail, Job
  <2>3. QED
    BY <1>1, <1>2, <2>1, <2>2
<1>6. CASE batch'[n] \subseteq batch[n] /\ job'[n] \in {job[n], None}
  BY <1>1, <1>2, <1>6
<1>7. ASSUME ~Poll(n), ~Fire(n), ~SmtpFail(n)
      PROVE  batch'[n] \subseteq batch[n] /\ job'[n] \in {job[n], None}
  <2>1. job'[n] \in {job[n], None}
    BY <1>7, JobSteps
  <2>2. ASSUME NEW m \in Nodes, Poll(m) \/ Fire(m) \/ Crash(m)
        PROVE  batch'[n] \subseteq batch[n]
    BY <1>0, <1>7, <2>2 DEF Poll, Fire, Crash
  <2>3. ASSUME ~\E m \in Nodes : Poll(m) \/ Fire(m) \/ Crash(m)
        PROVE  batch' = batch
    BY <2>3
       DEF Next, Handle, Put, Drain, Pass, Create, CancelGet, PatchGet, PutGet,
           PutList, PutSet, Delete, PollFault, PassDone, SmtpAccept,
           SmtpQuit, SmtpFail, Stop, DrainExit, Boot, Tick, vars
  <2>4. QED
    BY <2>1, <2>2, <2>3
<1>8. QED
  BY <1>3, <1>4, <1>5, <1>6, <1>7

(* Only a request that stores a record puts it within the drain's reach.   *)
LEMMA AtHandSteps ==
    ASSUME TypeOK, [Next]_vars, NEW k \in Keys, AtHand(k)', ~AtHand(k)
    PROVE  \E h \in Handlers : PutSet(h) /\ job[h].key = k /\ ~UNCHANGED store
<1> USE ProcAssumption DEF Procs
<1>0. /\ store \in [Keys -> Record \cup {None}]
      /\ batch \in [Nodes -> SUBSET Job]
      /\ job \in [Procs -> Job \cup {None}]
  BY DEF TypeOK, ControlType, DataType
<1>1. /\ store[k] = None
      /\ \A n \in Nodes : job[n] # None => job[n].key # k
      /\ \A n \in Nodes : \A s \in batch[n] : s.key # k
  BY DEF AtHand, Stored
<1>2. ASSUME NEW n \in Nodes PROVE job'[n] # None => job'[n].key # k
  <2>1. CASE Fire(n)
    <3>1. PICK s \in batch[n] : job' = job \/ job' = [job EXCEPT ![n] = s]
      BY <2>1 DEF Fire
    <3>2. QED
      BY <1>0, <1>1, <3>1
  <2>2. CASE SmtpFail(n)
    <3>1. job[n] # None /\ job[n] \in Job
      BY <2>2, JobHeld DEF SmtpFail
    <3>2. job'[n].key = job[n].key
      BY <1>0, <2>2, <3>1 DEF SmtpFail, Job
    <3>3. QED
      BY <1>1, <3>1, <3>2
  <2>3. CASE job'[n] \in {job[n], None}
    BY <1>1, <2>3
  <2>4. QED
    BY <2>1, <2>2, <2>3, JobSteps
<1>3. ASSUME NEW n \in Nodes, NEW s \in batch'[n] PROVE s.key # k
  <2>1. ASSUME NEW m \in Nodes, Poll(m) PROVE s.key # k
    BY <1>0, <1>1, <2>1 DEF Poll, DueKeys, Stored
  <2>2. ASSUME NEW m \in Nodes, Fire(m) \/ Crash(m) PROVE s.key # k
    BY <1>0, <1>1, <2>2 DEF Fire, Crash
  <2>3. ASSUME ~\E m \in Nodes : Poll(m) \/ Fire(m) \/ Crash(m)
        PROVE  batch' = batch
    BY <2>3
       DEF Next, Handle, Put, Drain, Pass, Create, CancelGet, PatchGet, PutGet,
           PutList, PutSet, Delete, PollFault, PassDone, SmtpAccept,
           SmtpQuit, SmtpFail, Stop, DrainExit, Boot, Tick, vars
  <2>4. QED
    BY <1>1, <2>1, <2>2, <2>3
<1>4. store'[k] # None
  BY <1>2, <1>3 DEF AtHand, Stored
<1>5. ASSUME NEW p \in Procs, Delete(p) PROVE FALSE
  BY <1>0, <1>1, <1>4, <1>5, JobHeld DEF Delete
<1>6. PICK p \in Procs : PutSet(p)
  BY <1>1, <1>4, <1>5
     DEF Next, Handle, Put, Drain, Pass, Create, CancelGet, PatchGet, PutGet,
         PutList, Poll, PollFault, PassDone, Fire, SmtpAccept, SmtpQuit,
         SmtpFail, Stop, DrainExit, Crash, Boot, Tick, vars
<1>7. job[p] # None /\ job[p].key = k
  BY <1>0, <1>1, <1>4, <1>6, JobHeld DEF PutSet
<1>8. p \notin Nodes
  BY <1>1, <1>7
<1>9. QED
  BY <1>1, <1>4, <1>6, <1>7, <1>8

(* A sent record is removed, or the step that forgets it is paid for.      *)
LEMMA SentSteps ==
    ASSUME TypeOK, OneDrain, BatchOnce, [Next]_vars, NEW k \in Keys,
           Sent(k), ~Sent(k)'
    PROVE  \/ ~AtHand(k)'
           \/ spent'.faults = spent.faults + 1 /\ spent'.crashes = spent.crashes
           \/ spent'.faults = spent.faults /\ spent'.crashes = spent.crashes + 1
           \/ \E n \in Nodes : /\ SmtpFail(n) /\ pc[n] = "accepted"
                               /\ job[n].key = k
<1> USE ProcAssumption DEF Procs
<1>0. /\ store \in [Keys -> Record \cup {None}]
      /\ batch \in [Nodes -> SUBSET Job]
      /\ job \in [Procs -> Job \cup {None}]
      /\ pc \in [Procs -> NodeLabels \cup HandlerLabels]
      /\ spent \in [requests : Nat, faults : Nat, crashes : Nat]
  BY DEF TypeOK, ControlType, DataType
<1>1. PICK n \in Nodes : pc[n] \in {"accepted", "done"} /\ job[n].key = k
  BY DEF Sent
<1>2. job[n] # None /\ \A m \in Nodes : m = n
  BY <1>1, JobHeld DEF OneDrain
<1>3. ~(pc'[n] \in {"accepted", "done"} /\ job'[n].key = k)
  BY DEF Sent
<1>4. CASE Delete(n)
  <2>1. CASE KVFault
    BY <1>0, <2>1 DEF KVFault
  <2>2. CASE store' = [store EXCEPT ![job[n].key] = None]
    <3>1. store'[k] = None /\ job'[n] = None /\ batch' = batch
      BY <1>0, <1>1, <1>4, <2>2 DEF Delete, Return
    <3>2. \A s \in batch[n] : s.key # k
      BY <1>1, <1>2 DEF BatchOnce
    <3>3. QED
      BY <1>2, <3>1, <3>2 DEF AtHand, Stored
  <2>3. QED
    BY <1>4, <2>1, <2>2 DEF Delete
<1>5. CASE Crash(n)
  BY <1>0, <1>5 DEF Crash
<1>6. CASE SmtpFail(n) /\ pc[n] = "accepted"
  BY <1>1, <1>6
<1>7. ASSUME ~Delete(n), ~Crash(n), ~(SmtpFail(n) /\ pc[n] = "accepted")
      PROVE  pc'[n] \in {"accepted", "done"} /\ job'[n] = job[n]
  <2>1. ASSUME NEW h \in Handlers, Handle(h)
        PROVE  pc'[n] = pc[n] /\ job'[n] = job[n]
    BY <1>0, <2>1 DEF Handle, Create, CancelGet, PatchGet, Goto
  <2>2. ASSUME NEW p \in Procs, Put(p)
        PROVE  pc'[n] = pc[n] /\ job'[n] = job[n]
    BY <1>0, <1>1, <2>2 DEF Put, PutGet, PutList, PutSet, PutFailed, Return,
                            Goto
  <2>3. ASSUME NEW p \in Procs, p # n, Delete(p)
        PROVE  pc'[n] = pc[n] /\ job'[n] = job[n]
    BY <1>0, <2>3 DEF Delete, Return, Goto
  <2>4. ASSUME Drain(n)
        PROVE  pc'[n] \in {"accepted", "done"} /\ job'[n] = job[n]
    BY <1>0, <1>1, <1>7, <2>4
       DEF Drain, Pass, Poll, PollFault, AtPoll, PassDone, Fire, SmtpAccept,
           SmtpQuit, SmtpFail, Goto
  <2>5. ASSUME Stop(n) \/ DrainExit(n) \/ Boot(n)
        PROVE  pc'[n] = pc[n] /\ job'[n] = job[n]
    BY <1>1, <2>5 DEF Stop, DrainExit, Boot
  <2>6. CASE Tick \/ UNCHANGED vars
    BY <1>1, <2>6 DEF Tick, vars
  <2>7. QED
    BY <1>1, <1>2, <1>7, <2>1, <2>2, <2>3, <2>4, <2>5, <2>6 DEF Next
<1>8. QED
  BY <1>1, <1>3, <1>4, <1>5, <1>6, <1>7

(* Every copy is paid for by what the step that sends it, or makes it      *)
(* possible to send it again, adds to the account.                         *)
LEMMA CopiesPaidNext ==
    ASSUME CopiesInv, [Next]_vars
    PROVE  CopiesPaid'
<1> SUFFICES ASSUME OneDrain, NEW k \in Keys
             PROVE  /\ log'[k].delivered <= 1 + Paid(k)'
                    /\ AtHand(k)' /\ ~Sent(k)' => log'[k].delivered <= Paid(k)'
  BY DEF CopiesPaid, OneDrain
<1>0. TypeOK /\ log[k] \in Log /\ log'[k] \in Log
  BY TypeNext DEF CopiesInv, SafetyInv, TypeOK, DataType
<1>1. /\ spent.faults \in Nat /\ spent'.faults \in Nat
      /\ spent.crashes \in Nat /\ spent'.crashes \in Nat
      /\ spent.faults <= spent'.faults /\ spent.crashes <= spent'.crashes
  BY <1>0, SpentGrows
<1>2. /\ log[k].delivered <= 1 + Paid(k)
      /\ AtHand(k) /\ ~Sent(k) => log[k].delivered <= Paid(k)
  BY DEF CopiesInv, CopiesPaid
<1>3. /\ log[k].delivered \in Nat /\ log[k].lost \in Nat /\ log[k].edits \in Nat
      /\ Paid(k) = log[k].lost + log[k].edits + spent.faults + spent.crashes
      /\ Paid(k)' = log'[k].lost + log'[k].edits + spent'.faults + spent'.crashes
      /\ Paid(k) \in Nat
  BY <1>0, <1>1 DEF Log, Paid
<1>4. ASSUME SameCopies(log[k], log'[k])
      PROVE  /\ log'[k].delivered <= 1 + Paid(k)'
             /\ AtHand(k)' /\ ~Sent(k)' => log'[k].delivered <= Paid(k)'
  <2>1. /\ log'[k].delivered = log[k].delivered
        /\ log'[k].lost = log[k].lost /\ log'[k].edits = log[k].edits
        /\ log'[k].promised = log[k].promised
    BY <1>4 DEF SameCopies
  <2>2. Paid(k)' >= Paid(k)
    BY <1>1, <1>3, <2>1
  <2>3. ASSUME AtHand(k)', ~Sent(k)' PROVE log'[k].delivered <= Paid(k)'
    <3>1. CASE AtHand(k) /\ ~Sent(k)
      BY <1>0, <1>1, <1>2, <1>3, <2>1, <3>1
    <3>2. CASE Sent(k)
      <4>1. CASE \/ spent'.faults = spent.faults + 1 /\ spent'.crashes = spent.crashes
                 \/ spent'.faults = spent.faults /\ spent'.crashes = spent.crashes + 1
        BY <1>0, <1>1, <1>2, <1>3, <2>1, <4>1
      <4>2. ASSUME NEW n \in Nodes, SmtpFail(n), pc[n] = "accepted",
                   job[n].key = k
            PROVE  FALSE
        <5>1. log'[k].lost = log[k].lost + 1
          BY <1>0, <4>2 DEF SmtpFail, TypeOK, DataType, Log
        <5>2. QED
          BY <1>3, <2>1, <5>1
      <4>3. QED
        BY <1>0, <2>3, <3>2, <4>1, <4>2, SentSteps DEF CopiesInv
    <3>3. CASE ~AtHand(k)
      <4>1. PICK h \in Handlers : /\ PutSet(h) /\ job[h].key = k
                                  /\ ~UNCHANGED store
        BY <1>0, <2>3, <3>3, AtHandSteps
      <4>2. h \notin Nodes /\ h \in Procs /\ job[h].rec \in Record
            /\ job[h] # None
        BY <1>0, <4>1, ProcAssumption, JobHeld DEF PutSet, Procs
      <4>3. log'[k] = Promised(log[k], job[h].rec,
                               IF req[h].op = "patch" THEN 1 ELSE 0)
        BY <1>0, <4>1, <4>2 DEF PutSet, TypeOK, DataType
      <4>4. /\ log'[k].promised
            /\ log'[k].edits = log[k].edits + IF req[h].op = "patch" THEN 1 ELSE 0
        BY <1>0, <4>2, <4>3 DEF Promised, Log
      <4>5. req[h].op # "patch" => ~log[k].promised
        BY <4>1, <4>2 DEF CopiesInv, RequestFresh, FreshFor, PutSet
      <4>6. QED
        BY <1>3, <2>1, <4>4, <4>5
    <3>4. QED
      BY <3>1, <3>2, <3>3
  <2>4. QED
    BY <1>0, <1>1, <1>2, <1>3, <2>1, <2>2, <2>3
<1>5. ASSUME NEW h \in Handlers, Creates(h, k) PROVE log'[k].delivered <= Paid(k)'
  <2>1. log[k].delivered = 0
    BY <1>3, <1>5 DEF Creates, CopiesInv, HistoryOrdered
  <2>2. /\ log'[k].delivered = 0 /\ log'[k].lost = log[k].lost
        /\ log'[k].edits = log[k].edits
    BY <1>0, <1>5, <2>1 DEF Creates, Log
  <2>3. QED
    BY <1>1, <1>3, <2>2
<1>6. ASSUME NEW h \in Handlers, Stores(h, k) PROVE log'[k].delivered <= Paid(k)'
  <2>1. /\ log'[k].delivered = log[k].delivered /\ log'[k].lost = log[k].lost
        /\ log'[k].edits = log[k].edits + IF req[h].op = "patch" THEN 1 ELSE 0
    BY <1>0, <1>6 DEF Stores, Promised, Log
  <2>2. CASE req[h].op = "patch"
    BY <1>1, <1>2, <1>3, <2>1, <2>2
  <2>3. CASE req[h].op # "patch"
    <3>1. ~log[k].promised
      BY <1>6, <2>3 DEF CopiesInv, RequestFresh, FreshFor, Stores, PutSet
    <3>2. log[k].delivered = 0
      BY <1>3, <3>1 DEF CopiesInv, HistoryOrdered
    <3>3. QED
      BY <1>1, <1>3, <2>1, <2>3, <3>2
  <2>4. QED
    BY <2>2, <2>3
<1>7. ASSUME NEW n \in Nodes, Sends(n, k)
      PROVE  log'[k].delivered <= 1 + Paid(k)' /\ Sent(k)'
  <2>1. AtHand(k)
    BY <1>7 DEF Sends, AtHand
  <2>2. pc[n] = "smtp" /\ \A m \in Nodes : m = n
    BY <1>7 DEF Sends, SmtpAccept, OneDrain
  <2>3. log[k].delivered <= Paid(k)
    BY <1>2, <2>1, <2>2 DEF Sent
  <2>4. /\ log'[k].delivered = log[k].delivered + 1 /\ log'[k].lost = log[k].lost
        /\ log'[k].edits = log[k].edits
    BY <1>0, <1>7 DEF Sends, Log
  <2>5. pc'[n] = "accepted" /\ job'[n].key = k
    BY <1>0, <1>7, ProcAssumption DEF Sends, SmtpAccept, Goto, TypeOK, ControlType, Procs
  <2>6. QED
    BY <1>1, <1>3, <2>3, <2>4, <2>5 DEF Sent
<1>8. ASSUME NEW n \in Nodes, Loses(n, k) PROVE log'[k].delivered <= Paid(k)'
  <2>1. /\ log'[k].delivered = log[k].delivered
        /\ log'[k].lost = log[k].lost + 1 /\ log'[k].edits = log[k].edits
    BY <1>0, <1>8 DEF Loses, SameCopies, Log
  <2>2. QED
    BY <1>1, <1>2, <1>3, <2>1
<1>9. Paid(k)' \in Nat /\ log'[k].delivered \in Nat
  BY <1>0, <1>1, <1>3 DEF Log
<1>10. QED
  BY <1>0, <1>4, <1>5, <1>6, <1>7, <1>8, <1>9, LogSteps

(* Nothing is delivered, requested or listed at first. *)
LEMMA CopiesInit == Init => CopiesInv
<1> SUFFICES ASSUME Init PROVE CopiesInv
  OBVIOUS
<1>1. /\ \A k \in Keys : /\ log[k].delivered = 0 /\ log[k].lost = 0
                         /\ log[k].edits = 0 /\ ~log[k].promised
      /\ \A n \in Nodes : batch[n] = {}
      /\ \A h \in Handlers : job[h] = None
      /\ spent.faults = 0 /\ spent.crashes = 0
  BY DEF Init, NoLog, Procs
<1>2. QED
  BY <1>1, SafetyInit DEF CopiesInv, HistoryOrdered, RequestFresh, BatchOnce,
     CopiesPaid, Paid

(* The account is inductive. *)
LEMMA CopiesNext == CopiesInv /\ [Next]_vars => CopiesInv'
<1> SUFFICES ASSUME CopiesInv, [Next]_vars PROVE CopiesInv'
  OBVIOUS
<1>1. SafetyInv' /\ HistoryOrdered' /\ RequestFresh'
  BY SafetyNext, HistoryOrderedNext, RequestFreshNext DEF CopiesInv
<1>2. BatchOnce'
  BY BatchOnceNext DEF CopiesInv, SafetyInv
<1>3. QED
  BY <1>1, <1>2, CopiesPaidNext DEF CopiesInv

(* With one drain no record is sent a second time for nothing: a crash, a  *)
(* failed store call, an edit or a lost answer of the server pays for      *)
(* every copy after the first, however requests and passes interleave      *)
(* (schedule.go fire, handlePatchScheduled).                               *)
THEOREM CopiesAreAccounted == Spec => []CopiesAccounted
<1>1. CopiesInv => CopiesAccounted
  <2> SUFFICES ASSUME CopiesInv, Cardinality(Nodes) = 1, NEW k \in Keys
               PROVE  log[k].delivered <= 1 + log[k].lost + log[k].edits
                                            + spent.faults + spent.crashes
    BY DEF CopiesAccounted
  <2>1. OneDrain
    <3>1. \E n : Nodes = {n}
      BY FS_Singleton, ProcAssumption
    <3>2. QED
      BY <3>1 DEF OneDrain
  <2>2. log[k].delivered <= 1 + Paid(k)
    BY <2>1 DEF CopiesInv, CopiesPaid
  <2>3. /\ log[k] \in Log
        /\ spent \in [requests : Nat, faults : Nat, crashes : Nat]
    BY DEF CopiesInv, SafetyInv, TypeOK, DataType
  <2>4. QED
    BY <2>2, <2>3 DEF Paid, Log
<1>2. QED
  BY <1>1, CopiesInit, CopiesNext, PTL DEF Spec

-----------------------------------------------------------------------------
(* ScheduledSend implements Outbox *)

(* A drain that is not in a pass has nothing listed. *)
BatchIdle == \A n \in Nodes :
    pc[n] \in {"off", "boot", "idle", "stopped"} => batch[n] = {}

RefInv == CopiesInv /\ BatchIdle

(* A pass ends with its list used up, and dies with it.                    *)
LEMMA BatchIdleNext ==
    ASSUME TypeOK, BatchIdle, [Next]_vars
    PROVE  BatchIdle'
<1> USE ProcAssumption DEF Procs
<1> SUFFICES ASSUME NEW n \in Nodes,
                    pc'[n] \in {"off", "boot", "idle", "stopped"}
             PROVE  batch'[n] = {}
  BY DEF BatchIdle
<1>0. /\ pc \in [Procs -> NodeLabels \cup HandlerLabels]
      /\ batch \in [Nodes -> SUBSET Job]
  BY DEF TypeOK, ControlType, DataType
<1>1. pc[n] \in {"off", "boot", "idle", "stopped"} => batch[n] = {}
  BY DEF BatchIdle
<1>2. ASSUME NEW h \in Handlers, Handle(h) PROVE batch'[n] = {}
  BY <1>0, <1>1, <1>2 DEF Handle, Create, CancelGet, PatchGet, Goto
<1>3. ASSUME NEW p \in Procs, Put(p) \/ Delete(p) PROVE batch'[n] = {}
  BY <1>0, <1>1, <1>3 DEF Put, PutGet, PutList, PutSet, Delete, PutFailed,
                          Return, Goto
<1>4. ASSUME NEW m \in Nodes, Drain(m) PROVE batch'[n] = {}
  BY <1>0, <1>1, <1>4 DEF Drain, Pass, Poll, PollFault, AtPoll, PassDone, Fire,
                          SmtpAccept, SmtpQuit, SmtpFail, Goto
<1>5. ASSUME NEW m \in Nodes, Stop(m) \/ DrainExit(m) \/ Crash(m) \/ Boot(m)
      PROVE  batch'[n] = {}
  BY <1>0, <1>1, <1>5 DEF Stop, DrainExit, Crash, Boot, Goto
<1>6. CASE Tick \/ UNCHANGED vars
  BY <1>1, <1>6 DEF Tick, vars
<1>7. QED
  BY <1>2, <1>3, <1>4, <1>5, <1>6 DEF Next

(* The strengthened invariant holds initially and is kept. *)
LEMMA RefInvInit == Init => RefInv
  BY CopiesInit DEF Init, RefInv, BatchIdle

(* And it is inductive. *)
LEMMA RefInvNext == RefInv /\ [Next]_vars => RefInv'
  BY CopiesNext, BatchIdleNext DEF RefInv, CopiesInv, SafetyInv

-----------------------------------------------------------------------------
(* What a step shows of the outbox *)

(* A step that leaves the history alone. *)
LEMMA LogView ==
    ASSUME log' = log
    PROVE  UNCHANGED <<Issued, Copies, Tries, Waived>>
  BY DEF Issued, Copies, Tries, Waived

(* A step of one process leaves the hands of the others alone. *)
LEMMA HandView ==
    ASSUME NEW p \in Procs, NEW S,
           \A q \in Procs : q # p => job'[q] = job[q],
           \A n \in Nodes : n # p => batch'[n] = batch[n],
           InHand(p)' = S
    PROVE  Hands' = [Hands EXCEPT ![p] = S]
<1>1. \A q \in Procs : q # p => InHand(q)' = InHand(q)
  BY DEF InHand
<1>2. QED
  BY <1>1 DEF Hands

(* What a process holds while a call is under way. *)
LEMMA JobInHand ==
    ASSUME NEW p \in Procs, job[p] # None, job[p].key \in Keys
    PROVE  job[p].key \in Hands[p]
  BY DEF Hands, InHand

(* Whatever is in some hand was issued. *)
LEMMA HandsIssued ==
    ASSUME RefInv, NEW p \in Procs
    PROVE  InHand(p) \subseteq Issued
<1> SUFFICES ASSUME NEW k \in InHand(p) PROVE log[k].issued
  BY DEF InHand, Issued
<1>1. k \in Keys
  BY DEF InHand
<1>2. ASSUME log[k].promised PROVE log[k].issued
  BY <1>1, <1>2 DEF RefInv, CopiesInv, HistoryOrdered
<1>3. CASE p \in Nodes /\ \E s \in batch[p] : s.key = k
  BY <1>2, <1>3 DEF RefInv, CopiesInv, SafetyInv, BatchKnown, Known
<1>4. CASE job[p] # None /\ job[p].key = k /\ p \in Nodes
  BY <1>2, <1>4 DEF RefInv, CopiesInv, SafetyInv, DrainKnown, Known
<1>5. CASE job[p] # None /\ job[p].key = k /\ p \in Handlers
  BY <1>5 DEF RefInv, CopiesInv, RequestFresh
<1>6. QED
  BY <1>3, <1>4, <1>5 DEF InHand, Procs

(* A step that only empties hands. *)
LEMMA LettingGo ==
    ASSUME RefInv, log' = log, store' = store,
           \A p \in Procs : InHand(p)' \subseteq InHand(p)
    PROVE  Promise!LetGo
<1>1. UNCHANGED <<Issued, Copies, Tries, Waived, HeldKeys>>
  BY LogView DEF HeldKeys, Stored
<1>2. Hands' \in [Procs -> SUBSET Issued]
  BY HandsIssued DEF Hands
<1>3. \A p \in Procs : Hands'[p] \subseteq Hands[p]
  BY DEF Hands
<1>4. QED
  BY <1>1, <1>2, <1>3 DEF Promise!LetGo

(* A step that shows nothing. *)
LEMMA Stuttering ==
    ASSUME log' = log, store' = store, job' = job, batch' = batch
    PROVE  UNCHANGED Promise!vars
<1>1. UNCHANGED <<Issued, Copies, Tries, Waived, HeldKeys>>
  BY LogView DEF HeldKeys, Stored
<1>2. Hands' = Hands
  BY DEF Hands, InHand
<1>3. QED
  BY <1>1, <1>2 DEF Promise!vars

-----------------------------------------------------------------------------
(* Every action implements an action of the outbox, or shows nothing *)

AbstractStep == Promise!Next \/ UNCHANGED Promise!vars

(* A request issues a message, or takes one the outbox holds. *)
LEMMA HandleImplements ==
    ASSUME RefInv, NEW h \in Handlers, Handle(h)
    PROVE  AbstractStep
<1> USE ProcAssumption DEF Procs
<1>0. TypeOK
  BY DEF RefInv, CopiesInv, SafetyInv
<1>1. PICK k \in Keys :
         /\ job'[h].key = k
         /\ \A p \in Procs : p # h => job'[p] = job[p]
         /\ \/ /\ ~log[k].issued
               /\ log' = [log EXCEPT ![k].issued = TRUE]
            \/ Stored(k) /\ log' = log
  BY <1>0, HandleSteps
<1>2. job[h] = None /\ job'[h] # None /\ store' = store /\ batch' = batch
  <2>1. pc[h] = "idle" /\ store' = store /\ batch' = batch /\ pc'[h] # "idle"
    BY <1>0 DEF Handle, Create, CancelGet, PatchGet, Request, Goto, TypeOK,
                ControlType
  <2>2. pc'[h] \in {"putGet", "del"}
    BY <1>0 DEF Handle, Create, CancelGet, PatchGet, Goto, TypeOK, ControlType
  <2>3. TypeOK'
    BY <1>0, TypeHandlers
  <2>4. QED
    BY <1>0, <2>1, <2>2, <2>3 DEF TypeOK, ControlType
<1>3. InHand(h) = {} /\ InHand(h)' = {k}
  BY <1>1, <1>2 DEF InHand
<1>4. Hands' = [Hands EXCEPT ![h] = Hands[h] \cup {k}]
  <2>1. Hands' = [Hands EXCEPT ![h] = {k}]
    BY <1>1, <1>2, <1>3, HandView
  <2>2. Hands[h] = {}
    BY <1>3 DEF Hands
  <2>3. QED
    BY <2>1, <2>2
<1>5. HeldKeys' = HeldKeys
  BY <1>2 DEF HeldKeys, Stored
<1>6. CASE ~log[k].issued /\ log' = [log EXCEPT ![k].issued = TRUE]
  <2>1. log \in [Keys -> Log]
    BY <1>0 DEF TypeOK, DataType
  <2>2. /\ \A j \in Keys : j # k => log'[j] = log[j]
        /\ log'[k].issued
        /\ log'[k].delivered = log[k].delivered
        /\ log'[k].failures = log[k].failures
        /\ log'[k].cancelled = log[k].cancelled
        /\ log'[k].poisoned = log[k].poisoned
        /\ log'[k].unpersisted = log[k].unpersisted
    BY <1>6, <2>1 DEF Log
  <2>3. k \notin Issued /\ Issued' = Issued \cup {k}
    BY <1>6, <2>2 DEF Issued
  <2>4. UNCHANGED <<Copies, Tries, Waived>>
    BY <2>2 DEF Copies, Tries, Waived
  <2>5. Promise!Issue(h, k)
    BY <1>4, <1>5, <2>3, <2>4 DEF Promise!Issue
  <2>6. QED
    BY <2>5 DEF AbstractStep, Promise!Next
<1>7. CASE Stored(k) /\ log' = log
  <2>1. UNCHANGED <<Issued, Copies, Tries, Waived>>
    BY <1>7, LogView
  <2>2. Promise!Take(h, {k})
    BY <1>4, <1>5, <1>7, <2>1 DEF Promise!Take, HeldKeys
  <2>3. QED
    BY <2>2 DEF AbstractStep, Promise!Next
<1>8. QED
  BY <1>1, <1>6, <1>7

(* The end of a call takes its record out of the process's hands. *)
LEMMA ReturnHands ==
    ASSUME RefInv, NEW p \in Procs, job[p] # None, Return(p), batch' = batch
    PROVE  /\ Hands' = [Hands EXCEPT ![p] = Hands[p] \ {job[p].key}]
           /\ job[p].key \in Hands[p]
           /\ \A q \in Procs : InHand(q)' \subseteq InHand(q)
<1> USE ProcAssumption DEF Procs
<1>0. /\ job \in [Procs -> Job \cup {None}] /\ job[p] \in Job
      /\ job[p].key \in Keys
  BY DEF RefInv, CopiesInv, SafetyInv, TypeOK, ControlType, Job
<1>1. job'[p] = None /\ \A q \in Procs : q # p => job'[q] = job[q]
  BY <1>0 DEF Return
<1>2. \A s \in batch[p] : p \in Nodes => s.key # job[p].key
  BY DEF RefInv, CopiesInv, BatchOnce
<1>3. InHand(p)' = InHand(p) \ {job[p].key}
  BY <1>0, <1>1, <1>2 DEF InHand
<1>4. Hands' = [Hands EXCEPT ![p] = InHand(p) \ {job[p].key}]
  BY <1>1, <1>3, HandView
<1>5. Hands[p] = InHand(p)
  BY DEF Hands
<1>6. QED
  BY <1>0, <1>1, <1>3, <1>4, <1>5, JobInHand DEF InHand

(* A failed Put waives the record in the drain's hand; a request lets go.  *)
LEMMA PutFailedImplements ==
    ASSUME RefInv, NEW p \in Procs, job[p] # None, PutFailed(p),
           UNCHANGED <<store, batch>>,
           \/ log' = log
           \/ log' = [log EXCEPT ![job[p].key].unpersisted = @ \/ p \in Nodes]
    PROVE  AbstractStep
<1> USE ProcAssumption DEF Procs
<1>0. /\ job[p] \in Job /\ job[p].key \in Keys /\ log \in [Keys -> Log]
  BY DEF RefInv, CopiesInv, SafetyInv, TypeOK, ControlType, DataType, Job
<1>1. CASE p \in Nodes
  <2>1. job' = job
    BY <1>1 DEF PutFailed
  <2>2. Hands' = Hands /\ HeldKeys' = HeldKeys
    BY <2>1 DEF Hands, InHand, HeldKeys, Stored
  <2>3. CASE log' = log
    BY <2>1, <2>3, Stuttering DEF AbstractStep
  <2>4. CASE log' = [log EXCEPT ![job[p].key].unpersisted = @ \/ p \in Nodes]
    <3>0. PICK c : c /\ log' = [log EXCEPT ![job[p].key].unpersisted = c]
      BY <1>1, <2>4
    <3>1. /\ \A k \in Keys : k # job[p].key => log'[k] = log[k]
          /\ log'[job[p].key].unpersisted
          /\ log'[job[p].key].issued = log[job[p].key].issued
          /\ log'[job[p].key].delivered = log[job[p].key].delivered
          /\ log'[job[p].key].failures = log[job[p].key].failures
      BY <1>0, <3>0 DEF Log
    <3>2. Waived' = Waived \cup {job[p].key}
      BY <1>0, <3>1 DEF Waived
    <3>3. UNCHANGED <<Issued, Copies, Tries>>
      BY <3>1 DEF Issued, Copies, Tries
    <3>4. Promise!Waive(p, job[p].key)
      BY <1>0, <2>2, <3>2, <3>3, JobInHand DEF Promise!Waive
    <3>5. QED
      BY <1>0, <3>4 DEF AbstractStep, Promise!Next
  <2>5. QED
    BY <2>3, <2>4
<1>2. CASE p \notin Nodes
  <2>1. log' = log
    <3>1. CASE log' = [log EXCEPT ![job[p].key].unpersisted = @ \/ p \in Nodes]
      <4>1. log[job[p].key] \in Log
        BY <1>0
      <4>2. [log[job[p].key] EXCEPT !.unpersisted = @ \/ p \in Nodes]
               = log[job[p].key]
        BY <1>2, <4>1 DEF Log
      <4>3. QED
        BY <1>0, <3>1, <4>2
    <3>2. QED
      BY <3>1
  <2>2. \A q \in Procs : InHand(q)' \subseteq InHand(q)
    BY <1>2, ReturnHands DEF PutFailed
  <2>3. QED
    BY <2>1, <2>2, LettingGo DEF AbstractStep, Promise!Next
<1>3. QED
  BY <1>1, <1>2

(* A Put checks, gives up, or puts the record in the outbox. *)
LEMMA PutImplements ==
    ASSUME RefInv, NEW p \in Procs, Put(p)
    PROVE  AbstractStep
<1> USE ProcAssumption DEF Procs
<1>0. TypeOK /\ log \in [Keys -> Log] /\ store \in [Keys -> Record \cup {None}]
  BY DEF RefInv, CopiesInv, SafetyInv, TypeOK, DataType
<1>1. /\ job[p] # None /\ job[p] \in Job
      /\ job[p].key \in Keys /\ job[p].rec \in Record
  BY <1>0, JobHeld DEF Put, PutGet, PutList, PutSet
<1>2. CASE UNCHANGED <<log, store, job, batch>>
  BY <1>2, Stuttering DEF AbstractStep
<1>3. CASE PutFailed(p) /\ UNCHANGED <<store, batch>> /\
           \/ log' = log
           \/ log' = [log EXCEPT ![job[p].key].unpersisted = @ \/ p \in Nodes]
  BY <1>1, <1>3, PutFailedImplements
<1>4. CASE /\ Return(p) /\ batch' = batch
           /\ store' = [store EXCEPT ![job[p].key] = job[p].rec]
           /\ log' = IF p \in Nodes THEN log
                     ELSE [log EXCEPT ![job[p].key] =
                             Promised(@, job[p].rec, IF req[p].op = "patch"
                                                     THEN 1 ELSE 0)]
  <2> DEFINE k == job[p].key
  <2>1. job[p].rec # None
    BY <1>1, DataAssumption
  <2>2. HeldKeys' = HeldKeys \cup {k}
    BY <1>0, <1>1, <1>4, <2>1 DEF HeldKeys, Stored
  <2>3. k \in Hands[p] /\ Hands' = [Hands EXCEPT ![p] = Hands[p] \ {k}]
    BY <1>1, <1>4, ReturnHands
  <2>4. UNCHANGED <<Issued, Copies, Tries>> /\ Waived' \in {Waived, Waived \cup {k}}
    <3>1. CASE p \in Nodes
      BY <1>4, <3>1, LogView
    <3>2. CASE p \notin Nodes
      <4>1. PICK e : log' = [log EXCEPT ![k] = Promised(log[k], job[p].rec, e)]
        BY <1>4, <3>2
      <4>2. /\ \A j \in Keys : j # k => log'[j] = log[j]
            /\ log'[k] = Promised(log[k], job[p].rec, e)
        BY <1>0, <1>1, <4>1
      <4>3. /\ log'[k].issued = log[k].issued
            /\ log'[k].delivered = log[k].delivered
            /\ log'[k].failures = log[k].failures
            /\ log'[k].cancelled = log[k].cancelled
            /\ log'[k].unpersisted = log[k].unpersisted
            /\ log[k].poisoned => log'[k].poisoned
        BY <1>0, <1>1, <4>2 DEF Promised, Log
      <4>4. UNCHANGED <<Issued, Copies, Tries>>
        BY <4>2, <4>3 DEF Issued, Copies, Tries
      <4>5. CASE log'[k].poisoned = log[k].poisoned
        BY <4>2, <4>3, <4>4, <4>5 DEF Waived
      <4>6. CASE log'[k].poisoned
        <5>1. Waived' = Waived \cup {k}
          BY <1>1, <4>2, <4>3, <4>6 DEF Waived
        <5>2. QED
          BY <4>4, <5>1
      <4>7. log'[k].poisoned = (log[k].poisoned \/ job[p].rec.body \in Poison)
        BY <1>0, <1>1, <4>2 DEF Promised, Log
      <4>8. log[k].poisoned \in BOOLEAN
        BY <1>0, <1>1 DEF Log
      <4>9. QED
        BY <4>5, <4>6, <4>7, <4>8
    <3>3. QED
      BY <3>1, <3>2
  <2>5. Promise!PutBack(p, k)
    BY <2>2, <2>3, <2>4 DEF Promise!PutBack
  <2>6. QED
    BY <1>1, <2>5 DEF AbstractStep, Promise!Next
<1>5. QED
  BY <1>2, <1>3, <1>4 DEF Put, PutGet, PutList, PutSet

(* A Delete removes the record for a reason, or fails and lets go of it. *)
LEMMA DeleteImplements ==
    ASSUME RefInv, NEW p \in Procs, Delete(p)
    PROVE  AbstractStep
<1> USE ProcAssumption DEF Procs
<1>0. TypeOK /\ log \in [Keys -> Log] /\ store \in [Keys -> Record \cup {None}]
  BY DEF RefInv, CopiesInv, SafetyInv, TypeOK, DataType
<1>1. job[p] # None /\ job[p] \in Job /\ job[p].key \in Keys
  BY <1>0, JobHeld DEF Delete
<1> DEFINE k == job[p].key
<1>2. /\ Hands' = [Hands EXCEPT ![p] = Hands[p] \ {k}] /\ k \in Hands[p]
      /\ \A q \in Procs : InHand(q)' \subseteq InHand(q)
  BY <1>1, ReturnHands DEF Delete
<1>3. CASE UNCHANGED <<store, log>>
  BY <1>2, <1>3, LettingGo DEF AbstractStep, Promise!Next
<1>4. CASE /\ store' = [store EXCEPT ![k] = None]
           /\ log' = [log EXCEPT ![k].cancelled = @ \/ pc[p] = "del"]
  <2>1. HeldKeys' = HeldKeys \ {k}
    BY <1>0, <1>1, <1>4 DEF HeldKeys, Stored
  <2>2. /\ \A j \in Keys : j # k => log'[j] = log[j]
        /\ log'[k].cancelled = (log[k].cancelled \/ pc[p] = "del")
        /\ log'[k].issued = log[k].issued
        /\ log'[k].delivered = log[k].delivered
        /\ log'[k].failures = log[k].failures
        /\ log'[k].poisoned = log[k].poisoned
        /\ log'[k].unpersisted = log[k].unpersisted
    BY <1>0, <1>1, <1>4 DEF Log
  <2>3. UNCHANGED <<Issued, Copies, Tries>>
    BY <2>2 DEF Issued, Copies, Tries
  <2>4. log[k].cancelled \in BOOLEAN
    BY <1>0, <1>1 DEF Log
  <2>5. CASE pc[p] = "del"
    <3>1. Waived' = Waived \cup {k}
      BY <1>1, <2>2, <2>5 DEF Waived
    <3>2. Promise!Remove(p, k)
      BY <1>2, <2>1, <2>3, <3>1 DEF Promise!Remove
    <3>3. QED
      BY <1>1, <3>2 DEF AbstractStep, Promise!Next
  <2>6. CASE pc[p] # "del"
    <3>1. log'[k].cancelled = log[k].cancelled
      BY <2>2, <2>4, <2>6
    <3>2. Waived' = Waived
      BY <2>2, <3>1 DEF Waived
    <3>3. p \in Nodes
      BY <1>0, <2>6 DEF Delete, TypeOK, ControlType, HandlerLabels
    <3>4. Settled(k)
      BY <2>6, <3>3 DEF Delete, RefInv, CopiesInv, SafetyInv, DropReason
    <3>5. Promise!Removable(k)
      BY <1>1, <3>4 DEF Promise!Removable, Settled, Copies, Tries, Waived
    <3>6. Promise!Remove(p, k)
      BY <1>2, <2>1, <2>3, <3>2, <3>5 DEF Promise!Remove
    <3>7. QED
      BY <1>1, <3>6 DEF AbstractStep, Promise!Next
  <2>7. QED
    BY <2>5, <2>6
<1>5. QED
  BY <1>3, <1>4 DEF Delete

(* A pass takes what is due, and sends it one record at a time. *)
LEMMA DrainImplements ==
    ASSUME RefInv, NEW n \in Nodes, Drain(n)
    PROVE  AbstractStep
<1> USE ProcAssumption DEF Procs
<1>0. /\ TypeOK /\ log \in [Keys -> Log]
      /\ batch \in [Nodes -> SUBSET Job] /\ job \in [Procs -> Job \cup {None}]
  BY DEF RefInv, CopiesInv, SafetyInv, TypeOK, ControlType, DataType
<1>1. CASE PollFault(n) \/ PassDone(n) \/ SmtpQuit(n)
  BY <1>1, Stuttering DEF AbstractStep, PollFault, PassDone, SmtpQuit
<1>2. CASE Poll(n)
  <2>1. batch[n] = {} /\ job[n] = None
    BY <1>0, <1>2 DEF Poll, AtPoll, RefInv, BatchIdle, TypeOK, ControlType
  <2>2. batch'[n] = {[key |-> k, rec |-> store[k]] : k \in DueKeys}
    BY <1>0, <1>2 DEF Poll
  <2>3. InHand(n) = {} /\ InHand(n)' = DueKeys
    <3>1. DueKeys \subseteq Keys
      BY DEF DueKeys
    <3>2. job'[n] = None
      BY <1>2, <2>1 DEF Poll
    <3>3. \A k \in Keys : (\E s \in batch'[n] : s.key = k) <=> k \in DueKeys
      <4>1. ASSUME NEW s \in batch'[n] PROVE s.key \in DueKeys
        BY <2>2
      <4>2. ASSUME NEW k \in DueKeys PROVE \E s \in batch'[n] : s.key = k
        <5>1. [key |-> k, rec |-> store[k]] \in batch'[n]
          BY <2>2
        <5>2. QED
          BY <5>1
      <4>3. QED
        BY <4>1, <4>2
    <3>4. InHand(n)' = DueKeys
      BY <3>1, <3>2, <3>3 DEF InHand
    <3>5. InHand(n) = {}
      BY <2>1 DEF InHand
    <3>6. QED
      BY <3>4, <3>5
  <2>4. Hands' = [Hands EXCEPT ![n] = DueKeys]
    BY <1>0, <1>2, <2>3, HandView DEF Poll
  <2>5. Hands[n] \cup DueKeys = DueKeys
    BY <2>3 DEF Hands
  <2>6. DueKeys \subseteq HeldKeys /\ DueKeys \in SUBSET Keys
    BY DEF DueKeys, HeldKeys
  <2>7. UNCHANGED <<Issued, Copies, Tries, Waived, HeldKeys>>
    BY <1>2, LogView DEF Poll, HeldKeys, Stored
  <2>8. Promise!Take(n, DueKeys)
    BY <2>4, <2>5, <2>6, <2>7 DEF Promise!Take
  <2>9. QED
    BY <2>6, <2>8 DEF AbstractStep, Promise!Next
<1>3. CASE Fire(n)
  <2>1. PICK s \in batch[n] : /\ batch' = [batch EXCEPT ![n] = @ \ {s}]
                              /\ \/ UNCHANGED job
                                 \/ job' = [job EXCEPT ![n] = s]
    BY <1>3 DEF Fire
  <2>2. job[n] = None
    BY <1>0, <1>3 DEF Fire, TypeOK, ControlType
  <2>3. \A q \in Procs : InHand(q)' \subseteq InHand(q)
    <3>1. ASSUME NEW q \in Procs, q # n PROVE InHand(q)' \subseteq InHand(q)
      BY <1>0, <2>1, <3>1 DEF InHand
    <3>2. InHand(n)' \subseteq InHand(n)
      BY <1>0, <2>1, <2>2 DEF InHand
    <3>3. QED
      BY <3>1, <3>2
  <2>4. QED
    BY <1>3, <2>3, LettingGo DEF Fire, AbstractStep, Promise!Next
<1>4. CASE SmtpAccept(n) \/ SmtpFail(n)
  <2>1. job[n] # None /\ job[n] \in Job /\ job[n].key \in Keys
    BY <1>0, <1>4, JobHeld DEF SmtpAccept, SmtpFail
  <2> DEFINE k == job[n].key
  <2>2. job'[n] # None /\ job'[n].key = k
        /\ \A q \in Procs : q # n => job'[q] = job[q]
    <3>1. CASE SmtpAccept(n)
      BY <2>1, <3>1 DEF SmtpAccept
    <3>2. CASE SmtpFail(n)
      <4>1. job'[n].key = k /\ \A q \in Procs : q # n => job'[q] = job[q]
        BY <1>0, <2>1, <3>2 DEF SmtpFail, Job
      <4>2. TypeOK' /\ pc'[n] \in {"drop", "putGet"}
        BY <1>0, <3>2, TypeDrain DEF Drain, Pass, SmtpFail, Goto, TypeOK, ControlType
      <4>3. QED
        BY <4>1, <4>2 DEF TypeOK, ControlType
    <3>3. QED
      BY <1>4, <3>1, <3>2
  <2>3. Hands' = Hands
    <3>1. batch' = batch
      BY <1>4 DEF SmtpAccept, SmtpFail
    <3>2. \A q \in Procs : InHand(q)' = InHand(q)
      BY <2>1, <2>2, <3>1 DEF InHand
    <3>3. QED
      BY <3>2 DEF Hands
  <2>4. HeldKeys' = HeldKeys
    BY <1>4 DEF SmtpAccept, SmtpFail, HeldKeys, Stored
  <2>5. CASE SmtpAccept(n)
    <3>1. log' = [log EXCEPT ![k].delivered = @ + 1]
      BY <2>5 DEF SmtpAccept
    <3>2. /\ \A j \in Keys : j # k => log'[j] = log[j]
          /\ log'[k].delivered = log[k].delivered + 1
          /\ log'[k].issued = log[k].issued
          /\ log'[k].failures = log[k].failures
          /\ log'[k].cancelled = log[k].cancelled
          /\ log'[k].poisoned = log[k].poisoned
          /\ log'[k].unpersisted = log[k].unpersisted
      BY <1>0, <2>1, <3>1 DEF Log
    <3>3. UNCHANGED <<Issued, Tries, Waived>>
      BY <3>2 DEF Issued, Tries, Waived
    <3>4. Copies' = [Copies EXCEPT ![k] = @ + 1]
      BY <2>1, <3>2 DEF Copies
    <3>5. Promise!Deliver(n, k)
      BY <2>1, <2>3, <2>4, <3>3, <3>4, JobInHand DEF Promise!Deliver
    <3>6. QED
      BY <2>1, <3>5 DEF AbstractStep, Promise!Next
  <2>6. CASE SmtpFail(n)
    <3>1. PICK e : log' = [log EXCEPT ![k].failures = @ + 1, ![k].lost = e]
      BY <2>6 DEF SmtpFail
    <3>2. /\ \A j \in Keys : j # k => log'[j] = log[j]
          /\ log'[k].failures = log[k].failures + 1
          /\ log'[k].issued = log[k].issued
          /\ log'[k].delivered = log[k].delivered
          /\ log'[k].cancelled = log[k].cancelled
          /\ log'[k].poisoned = log[k].poisoned
          /\ log'[k].unpersisted = log[k].unpersisted
      BY <1>0, <2>1, <3>1 DEF Log
    <3>3. UNCHANGED <<Issued, Copies, Waived>>
      BY <3>2 DEF Issued, Copies, Waived
    <3>4. Tries' = [Tries EXCEPT ![k] = @ + 1]
      BY <2>1, <3>2 DEF Tries
    <3>5. Promise!Miss(n, k)
      BY <2>1, <2>3, <2>4, <3>3, <3>4, JobInHand DEF Promise!Miss
    <3>6. QED
      BY <2>1, <3>5 DEF AbstractStep, Promise!Next
  <2>7. QED
    BY <1>4, <2>5, <2>6
<1>5. QED
  BY <1>1, <1>2, <1>3, <1>4 DEF Drain, Pass

(* A process that dies drops what it had in hand. *)
LEMMA CrashImplements ==
    ASSUME RefInv, NEW n \in Nodes, Crash(n)
    PROVE  AbstractStep
<1> USE ProcAssumption DEF Procs
<1>1. /\ batch \in [Nodes -> SUBSET Job] /\ job \in [Procs -> Job \cup {None}]
  BY DEF RefInv, CopiesInv, SafetyInv, TypeOK, ControlType, DataType
<1>2. \A q \in Procs : job'[q] \in {job[q], None}
  BY <1>1 DEF Crash
<1>3. \A m \in Nodes : batch'[m] \subseteq batch[m]
  BY <1>1 DEF Crash
<1>4. \A q \in Procs : InHand(q)' \subseteq InHand(q)
  BY <1>2, <1>3 DEF InHand
<1>5. QED
  BY <1>4, LettingGo DEF Crash, AbstractStep, Promise!Next

(* The initial state is one of the outbox. *)
LEMMA InitImplements == Init => Promise!Init
<1> SUFFICES ASSUME Init PROVE Promise!Init
  OBVIOUS
<1>1. /\ \A k \in Keys : log[k] = NoLog /\ store[k] = None
      /\ \A p \in Procs : job[p] = None
      /\ \A n \in Nodes : batch[n] = {}
  BY DEF Init
<1>2. Issued = {} /\ HeldKeys = {} /\ Waived = {}
  BY <1>1 DEF Issued, HeldKeys, Waived, Stored, NoLog
<1>3. Hands = [w \in Procs |-> {}]
  BY <1>1 DEF Hands, InHand
<1>4. Copies = [m \in Keys |-> 0] /\ Tries = [m \in Keys |-> 0]
  BY <1>1 DEF Copies, Tries, NoLog
<1>5. QED
  BY <1>2, <1>3, <1>4 DEF Promise!Init

(* Every step of the program is one of the outbox, or shows nothing. *)
LEMMA StepImplements == RefInv /\ [Next]_vars => [Promise!Next]_(Promise!vars)
<1> SUFFICES ASSUME RefInv, [Next]_vars PROVE AbstractStep
  BY DEF AbstractStep
<1>1. CASE UNCHANGED <<log, store, job, batch>>
  BY <1>1, Stuttering DEF AbstractStep
<1>2. QED
  BY <1>1, HandleImplements, PutImplements, DeleteImplements,
     DrainImplements, CrashImplements
     DEF Next, Stop, DrainExit, Boot, Tick, vars

(* Scheduled send keeps what the outbox promises: a message is delivered,  *)
(* put back or removed only by a process that has it in hand, and removed  *)
(* only for a reason, through every crash and failing call                 *)
(* (schedule.go, schedule_store.go).                                       *)
THEOREM OutboxImplemented == Spec => Implements
<1>1. QED
  BY RefInvInit, RefInvNext, InitImplements, StepImplements, PTL
     DEF Spec, Implements, Promise!Spec

=============================================================================
