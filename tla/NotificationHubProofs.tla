----------------------- MODULE NotificationHubProofs -----------------------
(***************************************************************************)
(* Theorems about NotificationHub, for any number of users, tabs and       *)
(* watchers.  HubInv is the inductive invariant: beside the properties it  *)
(* says what a watcher's record means at each of its labels.               *)
(***************************************************************************)
EXTENDS NotificationHub, FiniteSetTheorems, TLAPS

(* What a watcher's label says of its record and of its stop channel. *)
WatcherOK(w) ==
    /\ Running(w) => watch[w].user \in Users
    /\ watch[w].pc \in {"select", "watch", "fetch", "cast", "send"}
          => watch[w].box \in Users
    /\ watch[w].pc \in {"fetch", "cast", "send"} => watch[w].todo > 0
    /\ w \in closed => watch[w].pc # "none"

WatchersOK == \A w \in Watchers : WatcherOK(w)

HubInv == TypeOK /\ WatchersOK /\ MarkIsLive /\ NoDoubleClose

-----------------------------------------------------------------------------
(* A watcher's record after a step of its own: it is of the right type, it *)
(* is still running for the same user and it satisfies WatcherOK.          *)
Step(r, w) ==
    /\ r \in Watcher
    /\ r.pc \notin {"none", "ended"}
    /\ r.user = watch[w].user
    /\ r.pc \in {"select", "watch", "fetch", "cast", "send"} => r.box \in Users
    /\ r.pc \in {"fetch", "cast", "send"} => r.todo > 0

(* A step of one watcher that only writes its record keeps the invariant. *)
LEMMA StepKeepsInv ==
    ASSUME HubInv, NEW w \in Watchers, NEW r, Step(r, w), Running(w),
           watch' = [watch EXCEPT ![w] = r],
           UNCHANGED <<mail, subs, stop, closed, tab>>,
           queue' \in [Tabs -> 0..Buffer]
    PROVE  HubInv'
<1>1. TypeOK'
  BY DEF HubInv, TypeOK, Step
<1>2. \A v \in Watchers : v # w => watch'[v] = watch[v]
  BY DEF HubInv, TypeOK
<1>3. watch'[w] = r
  BY DEF HubInv, TypeOK
<1>4. WatchersOK'
  <2> SUFFICES ASSUME NEW v \in Watchers PROVE WatcherOK(v)'
    BY DEF WatchersOK
  <2>1. WatcherOK(v) /\ WatcherOK(w)
    BY DEF HubInv, WatchersOK
  <2>2. CASE v = w
    BY <2>1, <2>2, <1>3 DEF WatcherOK, Step, Running
  <2>3. CASE v # w
    BY <2>1, <2>3, <1>2 DEF WatcherOK, Running
  <2> QED BY <2>2, <2>3
<1>5. MarkIsLive'
  <2> SUFFICES ASSUME NEW u \in Users, stop'[u] # None
               PROVE  Running(stop[u])' /\ watch'[stop'[u]].user = u
    BY DEF MarkIsLive
  <2>1. stop'[u] = stop[u] /\ stop[u] \in Watchers
    BY DEF HubInv, TypeOK
  <2>2. Running(stop[u]) /\ watch[stop[u]].user = u
    BY <2>1 DEF HubInv, MarkIsLive
  <2>3. CASE stop[u] = w
    BY <2>1, <2>2, <2>3, <1>3 DEF Step, Running
  <2>4. CASE stop[u] # w
    BY <2>1, <2>2, <2>4, <1>2 DEF Running
  <2> QED BY <2>3, <2>4
<1>6. NoDoubleClose'
  BY DEF HubInv, NoDoubleClose
<1> QED BY <1>1, <1>4, <1>5, <1>6 DEF HubInv

(* Copying the subscribers, or offering one of them an event. *)
LEMMA AnnounceKeepsInv ==
    ASSUME HubInv, NEW w \in Watchers, NEW ts \in SUBSET Tabs,
           Announcing(w, ts), watch[w].pc \in {"cast", "send"},
           UNCHANGED <<mail, subs, stop, closed, tab>>,
           queue' \in [Tabs -> 0..Buffer]
    PROVE  HubInv'
<1>1. watch[w] \in Watcher /\ WatcherOK(w)
  BY DEF HubInv, TypeOK, WatchersOK
<1>2. watch[w].todo \in Nat /\ watch[w].todo > 0
  BY <1>1 DEF Watcher, WatcherOK
<1>3. CASE watch' = [watch EXCEPT ![w].pc = "send", ![w].targets = ts]
  <2> DEFINE r == [watch[w] EXCEPT !.pc = "send", !.targets = ts]
  <2>1. Step(r, w)
    BY <1>1, <1>2 DEF Step, Watcher, WatcherOK, Running
  <2>2. watch' = [watch EXCEPT ![w] = r]
    BY <1>3
  <2> HIDE DEF r
  <2> QED BY <2>1, <2>2, StepKeepsInv DEF Running
<1>4. ASSUME NEW l \in {"cast", "watch"},
             l = IF watch[w].todo = 1 THEN "watch" ELSE "cast",
             watch' = [watch EXCEPT ![w].pc = l, ![w].todo = @ - 1,
                                    ![w].targets = {}]
      PROVE  HubInv'
  <2> DEFINE r == [watch[w] EXCEPT !.pc = l, !.todo = watch[w].todo - 1,
                                   !.targets = {}]
  <2>1. watch[w].todo - 1 \in Nat /\ (l = "cast" => watch[w].todo - 1 > 0)
    BY <1>2, <1>4
  <2>2. Step(r, w)
    BY <1>1, <2>1, <1>4 DEF Step, Watcher, WatcherOK, Running
  <2>3. watch' = [watch EXCEPT ![w] = r]
    BY <1>4
  <2> HIDE DEF r
  <2> QED BY <2>2, <2>3, StepKeepsInv DEF Running
<1> QED BY <1>3, <1>4 DEF Announcing

(* The steps of a watcher that has not ended its work. *)
LEMMA WatcherKeepsInv ==
    ASSUME HubInv, NEW w \in Watchers,
           \/ Release(w) \/ Dial(w) \/ Select(w) \/ Report(w) \/ Update(w)
           \/ Fetch(w) \/ Clog(w) \/ Copy(w) \/ SeeStop(w) \/ Disconnect(w)
    PROVE  HubInv'
<1> USE HubAssumption
<1>1. watch[w] \in Watcher /\ WatcherOK(w)
  BY DEF HubInv, TypeOK, WatchersOK
<1>2. queue \in [Tabs -> 0..Buffer] /\ mail \in [Users -> Nat]
      /\ subs \in [Users -> SUBSET Tabs]
  BY DEF HubInv, TypeOK
<1>3. CASE Release(w)
  <2>1. Step([watch[w] EXCEPT !.ctx = FALSE], w)
    BY <1>1, <1>3 DEF Release, Step, Watcher, WatcherOK, Running
  <2>2. watch' = [watch EXCEPT ![w] = [watch[w] EXCEPT !.ctx = FALSE]]
    BY <1>3 DEF Release
  <2> QED BY <2>1, <2>2, <1>2, <1>3, StepKeepsInv DEF Release, Running
<1>4. ASSUME Go(w, "end"), Running(w),
             UNCHANGED <<mail, subs, stop, closed, tab, queue>>
      PROVE  HubInv'
  <2>1. Step([watch[w] EXCEPT !.pc = "end"], w)
    BY <1>1, <1>4 DEF Step, Watcher, WatcherOK, Running
  <2>2. watch' = [watch EXCEPT ![w] = [watch[w] EXCEPT !.pc = "end"]]
    BY <1>4 DEF Go
  <2> QED BY <2>1, <2>2, <1>2, <1>4, StepKeepsInv
<1>5. CASE Dial(w)
  <2>1. CASE Go(w, "end")
    BY <1>4, <1>5, <2>1 DEF Dial, Running
  <2>2. ASSUME NEW b \in Users,
               watch' = [watch EXCEPT ![w].pc = "select", ![w].ctx = FALSE,
                                      ![w].box = b]
        PROVE  HubInv'
    <3> DEFINE r == [watch[w] EXCEPT !.pc = "select", !.ctx = FALSE, !.box = b]
    <3>1. Step(r, w)
      BY <1>1, <1>5 DEF Dial, Step, Watcher, WatcherOK, Running
    <3>2. watch' = [watch EXCEPT ![w] = r]
      BY <2>2
    <3> HIDE DEF r
    <3> QED BY <3>1, <3>2, <1>2, <1>5, StepKeepsInv DEF Dial, Running
  <2> QED BY <2>1, <2>2, <1>5 DEF Dial
<1>6. CASE Select(w)
  <2>1. CASE Go(w, "end")
    BY <1>4, <1>6, <2>1 DEF Select, Running
  <2>2. CASE watch' = [watch EXCEPT ![w].pc = "watch",
                                    ![w].seen = mail[watch[w].box]]
    <3> DEFINE r == [watch[w] EXCEPT !.pc = "watch",
                                     !.seen = mail[watch[w].box]]
    <3>1. mail[watch[w].box] \in Nat
      BY <1>1, <1>2, <1>6 DEF Select, WatcherOK
    <3>2. Step(r, w)
      BY <1>1, <3>1, <1>6 DEF Select, Step, Watcher, WatcherOK, Running
    <3>3. watch' = [watch EXCEPT ![w] = r]
      BY <2>2
    <3> HIDE DEF r
    <3> QED BY <3>2, <3>3, <1>2, <1>6, StepKeepsInv DEF Select, Running
  <2> QED BY <2>1, <2>2, <1>6 DEF Select
<1>7. CASE Report(w)
  <2> DEFINE r == [watch[w] EXCEPT !.report = mail[watch[w].box]]
  <2>1. mail[watch[w].box] \in Nat
    BY <1>1, <1>2, <1>7 DEF Report, WatcherOK
  <2>2. Step(r, w)
    BY <1>1, <2>1, <1>7 DEF Report, Step, Watcher, WatcherOK, Running
  <2>3. watch' = [watch EXCEPT ![w] = r]
    BY <1>7 DEF Report
  <2> HIDE DEF r
  <2> QED BY <2>2, <2>3, <1>2, <1>7, StepKeepsInv DEF Report, Running
<1>8. CASE Update(w)
  <2> DEFINE new == watch[w].report
             r == [watch[w] EXCEPT
                     !.report = None,
                     !.seen = new,
                     !.todo = IF Grown(new, watch[w].seen)
                              THEN new - watch[w].seen ELSE 0,
                     !.pc = IF Grown(new, watch[w].seen)
                            THEN "fetch" ELSE "watch"]
  <2>1. new \in Nat /\ watch[w].seen \in Nat
    BY <1>1, <1>8 DEF Update, Watcher
  <2>2. ASSUME Grown(new, watch[w].seen) PROVE Step(r, w)
    <3>1. new - watch[w].seen \in Nat /\ new - watch[w].seen > 0
      BY <2>1, <2>2 DEF Grown
    <3>2. r = [watch[w] EXCEPT !.report = None, !.seen = new,
                  !.todo = new - watch[w].seen, !.pc = "fetch"]
      BY <2>2
    <3> HIDE DEF r
    <3> QED
      BY <1>1, <3>1, <2>1, <3>2, <1>8
         DEF Update, Step, Watcher, WatcherOK, Running
  <2>3. ASSUME ~Grown(new, watch[w].seen) PROVE Step(r, w)
    <3>1. r = [watch[w] EXCEPT !.report = None, !.seen = new,
                  !.todo = 0, !.pc = "watch"]
      BY <2>3
    <3> HIDE DEF r
    <3> QED
      BY <1>1, <2>1, <3>1, <1>8
         DEF Update, Step, Watcher, WatcherOK, Running
  <2>4. watch' = [watch EXCEPT ![w] = r]
    BY <1>8 DEF Update
  <2>5. Step(r, w)
    BY <2>2, <2>3
  <2> HIDE DEF r
  <2> QED BY <2>4, <2>5, <1>2, <1>8, StepKeepsInv DEF Update, Running
<1>9. CASE Fetch(w)
  <2>1. PICK n \in 0..watch[w].todo :
           watch' = [watch EXCEPT ![w].todo = n,
                                  ![w].pc = IF n = 0 THEN "watch" ELSE "cast"]
    BY <1>9 DEF Fetch
  <2> DEFINE r == [watch[w] EXCEPT !.todo = n,
                                   !.pc = IF n = 0 THEN "watch" ELSE "cast"]
  <2>2. n \in Nat
    BY <1>1 DEF Watcher
  <2>3. Step(r, w)
    <3>1. CASE n = 0
      BY <1>1, <2>2, <3>1, <1>9 DEF Fetch, Step, Watcher, WatcherOK, Running
    <3>2. CASE n > 0
      BY <1>1, <2>2, <3>2, <1>9 DEF Fetch, Step, Watcher, WatcherOK, Running
    <3> QED BY <2>2, <3>1, <3>2
  <2>4. watch' = [watch EXCEPT ![w] = r]
    BY <2>1
  <2> HIDE DEF r
  <2> QED BY <2>3, <2>4, <1>2, <1>9, StepKeepsInv DEF Fetch, Running
<1>10. CASE Copy(w)
  <2>1. subs[watch[w].user] \in SUBSET Tabs
    BY <1>1, <1>2, <1>10 DEF Copy, WatcherOK, Running
  <2> QED
    BY <2>1, <1>1, <1>2, <1>10, AnnounceKeepsInv DEF Copy, Running
<1>11. CASE SeeStop(w)
  BY <1>4, <1>11 DEF SeeStop, Running
<1>12. CASE Disconnect(w)
  BY <1>4, <1>12 DEF Disconnect, Running
<1>13. CASE Clog(w)
  <2>1. Step([watch[w] EXCEPT !.pc = "stuck"], w)
    BY <1>1, <1>13 DEF Clog, Step, Watcher, WatcherOK, Running
  <2>2. watch' = [watch EXCEPT ![w] = [watch[w] EXCEPT !.pc = "stuck"]]
    BY <1>13 DEF Clog, Go
  <2> QED BY <2>1, <2>2, <1>2, <1>13, StepKeepsInv DEF Clog, Running
<1> QED
  BY <1>3, <1>5, <1>6, <1>7, <1>8, <1>9, <1>10, <1>11, <1>12, <1>13

(* Offering an event to one of the copied channels. *)
LEMMA SendKeepsInv ==
    ASSUME HubInv, NEW w \in Watchers, Send(w)
    PROVE  HubInv'
<1> USE HubAssumption
<1>1. PICK t \in watch[w].targets :
         Offer(t) /\ Announcing(w, watch[w].targets \ {t})
  BY DEF Send
<1>2. watch[w].targets \in SUBSET Tabs
  BY DEF HubInv, TypeOK, Watcher
<1>3. queue' \in [Tabs -> 0..Buffer]
  <2>1. queue \in [Tabs -> 0..Buffer] /\ t \in Tabs
    BY <1>2 DEF HubInv, TypeOK
  <2>2. (IF queue[t] < Buffer THEN queue[t] + 1 ELSE queue[t]) \in 0..Buffer
    BY <2>1
  <2> QED BY <1>1, <2>1, <2>2 DEF Offer
<1> QED
  BY <1>1, <1>2, <1>3, AnnounceKeepsInv DEF Send, Running

(* The clean-up clears the entry of the watcher's user, if it is there. *)
LEMMA EndKeepsInv ==
    ASSUME HubInv, NEW w \in Watchers, End(w)
    PROVE  HubInv'
<1> USE HubAssumption
<1>1. watch[w] \in Watcher /\ WatcherOK(w) /\ watch[w].user \in Users
  BY DEF HubInv, TypeOK, WatchersOK, WatcherOK, End, Running
<1>2. Over(w) \in Watcher /\ Over(w).pc = "ended"
  BY <1>1 DEF Over, Idle, Watcher
<1>3. /\ \A v \in Watchers : v # w => watch'[v] = watch[v]
      /\ watch'[w] = Over(w)
  BY DEF End, HubInv, TypeOK
<1>4. TypeOK'
  BY <1>1, <1>2 DEF End, HubInv, TypeOK
<1>5. WatchersOK'
  <2> SUFFICES ASSUME NEW v \in Watchers PROVE WatcherOK(v)'
    BY DEF WatchersOK
  <2>1. CASE v = w
    BY <2>1, <1>2, <1>3 DEF WatcherOK, Running
  <2>2. CASE v # w
    BY <2>2, <1>3 DEF HubInv, WatchersOK, WatcherOK, Running, End
  <2> QED BY <2>1, <2>2
<1>6. MarkIsLive'
  <2> SUFFICES ASSUME NEW u \in Users, stop'[u] # None
               PROVE  Running(stop[u])' /\ watch'[stop'[u]].user = u
    BY DEF MarkIsLive
  <2>1. u # watch[w].user /\ stop'[u] = stop[u] /\ stop[u] \in Watchers
    BY <1>1 DEF End, HubInv, TypeOK
  <2>2. Running(stop[u]) /\ watch[stop[u]].user = u
    BY <2>1 DEF HubInv, MarkIsLive
  <2>3. watch'[stop[u]] = watch[stop[u]]
    BY <2>1, <2>2, <1>3
  <2> QED BY <2>1, <2>2, <2>3 DEF Running
<1>7. NoDoubleClose'
  <2> SUFFICES ASSUME NEW u \in Users PROVE stop'[u] \notin closed'
    BY DEF NoDoubleClose
  <2>1. stop'[u] \in {None, stop[u]} /\ closed' = closed
    BY <1>1 DEF End, HubInv, TypeOK
  <2> QED BY <2>1 DEF HubInv, NoDoubleClose, TypeOK
<1> QED BY <1>4, <1>5, <1>6, <1>7 DEF HubInv

(* A new tab, with or without a watcher. *)
LEMMA SubscribeKeepsInv ==
    ASSUME HubInv, NEW t \in Tabs, Subscribe(t)
    PROVE  HubInv'
<1> DEFINE u == OwnerOf[t]
<1> USE HubAssumption
<1>1. u \in Users
  OBVIOUS
<1>2. /\ tab' = [tab EXCEPT ![t] = "open"]
      /\ subs' = [subs EXCEPT ![u] = @ \cup {t}]
      /\ UNCHANGED <<mail, closed, queue>>
  BY DEF Subscribe
<1> HIDE DEF u
<1>3. /\ mail' \in [Users -> Nat] /\ subs' \in [Users -> SUBSET Tabs]
      /\ closed' \subseteq Watchers /\ queue' \in [Tabs -> 0..Buffer]
      /\ tab' \in [Tabs -> {"off", "open", "leaving", "left"}]
  BY <1>1, <1>2 DEF HubInv, TypeOK
<1>4. CASE UNCHANGED <<watch, stop>>
  <2>1. TypeOK'
    BY <1>3, <1>4 DEF HubInv, TypeOK
  <2>2. WatchersOK'
    BY <1>2, <1>4 DEF HubInv, WatchersOK, WatcherOK, Running
  <2>3. MarkIsLive' /\ NoDoubleClose'
    BY <1>2, <1>4 DEF HubInv, MarkIsLive, NoDoubleClose, Running
  <2> QED BY <2>1, <2>2, <2>3 DEF HubInv
<1>5. ASSUME NEW w \in Watchers, watch[w].pc = "none",
             watch' = [watch EXCEPT ![w] =
                [Idle EXCEPT !.pc = "dial", !.user = u, !.ctx = TRUE]],
             stop' = [stop EXCEPT ![u] = w]
      PROVE  HubInv'
  <2> DEFINE r == [Idle EXCEPT !.pc = "dial", !.user = u, !.ctx = TRUE]
  <2>1. r \in Watcher /\ r.pc = "dial" /\ r.user = u
    BY <1>1 DEF Idle, Watcher
  <2>2. watch' = [watch EXCEPT ![w] = r]
    BY <1>5
  <2> HIDE DEF r
  <2>3. /\ \A v \in Watchers : v # w => watch'[v] = watch[v]
        /\ watch'[w] = r
    BY <2>2 DEF HubInv, TypeOK
  <2>4. w \notin closed
    BY <1>5 DEF HubInv, WatchersOK, WatcherOK
  <2>5. TypeOK'
    BY <1>1, <1>3, <1>5, <2>1, <2>2 DEF HubInv, TypeOK
  <2>6. WatchersOK'
    <3> SUFFICES ASSUME NEW v \in Watchers PROVE WatcherOK(v)'
      BY DEF WatchersOK
    <3>1. CASE v = w
      BY <3>1, <1>1, <2>1, <2>3 DEF WatcherOK, Running
    <3>2. CASE v # w
      BY <3>2, <2>3, <1>2 DEF HubInv, WatchersOK, WatcherOK, Running
    <3> QED BY <3>1, <3>2
  <2>7. MarkIsLive'
    <3> SUFFICES ASSUME NEW x \in Users, stop'[x] # None
                 PROVE  Running(stop[x])' /\ watch'[stop'[x]].user = x
      BY DEF MarkIsLive
    <3>1. CASE x = u
      BY <3>1, <1>5, <2>1, <2>3 DEF HubInv, TypeOK, Running
    <3>2. CASE x # u
      <4>1. stop'[x] = stop[x] /\ stop[x] \in Watchers
        BY <3>2, <1>1, <1>5 DEF HubInv, TypeOK
      <4>2. Running(stop[x]) /\ watch[stop[x]].user = x
        BY <4>1 DEF HubInv, MarkIsLive
      <4>3. watch'[stop[x]] = watch[stop[x]]
        BY <4>1, <4>2, <1>5, <2>3 DEF Running
      <4> QED BY <4>1, <4>2, <4>3 DEF Running
    <3> QED BY <3>1, <3>2
  <2>8. NoDoubleClose'
    BY <1>1, <1>2, <1>5, <2>4 DEF HubInv, TypeOK, NoDoubleClose
  <2> QED BY <2>5, <2>6, <2>7, <2>8 DEF HubInv
<1> QED
  BY <1>4, <1>5 DEF Subscribe, u

(* The last tab closes the stop channel and forgets it in one step. *)
LEMMA UnsubscribeKeepsInv ==
    ASSUME HubInv, NEW t \in Tabs, Unsubscribe(t)
    PROVE  HubInv'
<1> DEFINE u == OwnerOf[t]
<1> USE HubAssumption
<1>1. u \in Users
  OBVIOUS
<1>2. /\ tab' = [tab EXCEPT ![t] = "left"]
      /\ subs' = [subs EXCEPT ![u] = @ \ {t}]
      /\ UNCHANGED <<mail, queue, watch>>
      /\ \/ UNCHANGED <<closed, stop>>
         \/ /\ closed' = closed \cup ({stop[u]} \ {None})
            /\ stop' = [stop EXCEPT ![u] = None]
  BY DEF Unsubscribe
<1> HIDE DEF u
<1>3. /\ \A x \in Users : stop'[x] \in {None, stop[x]}
      /\ stop' \in [Users -> Watchers \cup {None}]
  BY <1>1, <1>2 DEF HubInv, TypeOK
<1>4. TypeOK'
  BY <1>1, <1>2, <1>3 DEF HubInv, TypeOK
<1>5. WatchersOK'
  <2> SUFFICES ASSUME NEW v \in Watchers PROVE WatcherOK(v)'
    BY DEF WatchersOK
  <2>1. v \in closed' => v \in closed \/ (v = stop[u] /\ stop[u] # None)
    BY <1>2
  <2>2. v \in closed' => watch[v].pc # "none"
    BY <2>1, <1>1 DEF HubInv, WatchersOK, WatcherOK, MarkIsLive, Running
  <2> QED BY <2>2, <1>2 DEF HubInv, WatchersOK, WatcherOK, Running
<1>6. MarkIsLive'
  BY <1>2, <1>3 DEF HubInv, MarkIsLive, Running
<1>7. NoDoubleClose'
  <2> SUFFICES ASSUME NEW x \in Users PROVE stop'[x] \notin closed'
    BY DEF NoDoubleClose
  <2>1. stop[x] \notin closed /\ None \notin closed
    BY DEF HubInv, NoDoubleClose, TypeOK
  <2>2. x # u /\ stop[x] # None => stop[x] # stop[u]
    BY <1>1 DEF HubInv, MarkIsLive
  <2>3. CASE UNCHANGED <<closed, stop>>
    BY <2>1, <2>3
  <2>4. CASE /\ closed' = closed \cup ({stop[u]} \ {None})
             /\ stop' = [stop EXCEPT ![u] = None]
    BY <1>1, <2>1, <2>2, <2>4 DEF HubInv, TypeOK
  <2> QED BY <1>2, <2>3, <2>4
<1> QED BY <1>4, <1>5, <1>6, <1>7 DEF HubInv

(* The end of the process leaves no entry and no running watcher. *)
LEMMA PanicKeepsInv ==
    ASSUME HubInv, NEW w \in Watchers, DialPanics(w)
    PROVE  HubInv'
<1> USE HubAssumption
<1>1. \A v \in Watchers :
         watch'[v] = IF watch[v].pc = "none" THEN Idle ELSE Over(v)
  BY DEF DialPanics
<1>2. \A v \in Watchers :
         /\ Over(v) \in Watcher /\ Over(v).pc = "ended"
         /\ Idle \in Watcher /\ Idle.pc = "none"
  BY DEF HubInv, TypeOK, Over, Idle, Watcher
<1>3. \A x \in Users : stop'[x] = None
  BY DEF DialPanics
<1>4. TypeOK'
  BY <1>1, <1>2, <1>3 DEF DialPanics, HubInv, TypeOK
<1>5. WatchersOK'
  BY <1>1, <1>2 DEF DialPanics, HubInv, WatchersOK, WatcherOK, Running
<1>6. MarkIsLive'
  BY <1>3 DEF MarkIsLive
<1>7. NoDoubleClose'
  BY <1>3 DEF DialPanics, HubInv, TypeOK, NoDoubleClose
<1> QED BY <1>4, <1>5, <1>6, <1>7 DEF HubInv

(* Steps of the mailbox and of the stream writers touch neither the hub    *)
(* nor the watchers.                                                       *)
LEMMA OutsideKeepsInv ==
    ASSUME HubInv, UNCHANGED <<stop, closed, subs, watch>>,
           mail' \in [Users -> Nat],
           tab' \in [Tabs -> {"off", "open", "leaving", "left"}],
           queue' \in [Tabs -> 0..Buffer]
    PROVE  HubInv'
BY DEF HubInv, TypeOK, WatchersOK, WatcherOK, MarkIsLive, NoDoubleClose,
       Running

-----------------------------------------------------------------------------
(* The inductive invariant *)

LEMMA InitEstablishesInv == Init => HubInv
BY HubAssumption
   DEF Init, HubInv, TypeOK, WatchersOK, WatcherOK, MarkIsLive, NoDoubleClose,
       Running, Idle, Watcher

LEMMA NextKeepsInv ==
    ASSUME HubInv, [Next]_vars
    PROVE  HubInv'
<1> USE HubAssumption
<1>1. /\ mail \in [Users -> Nat] /\ queue \in [Tabs -> 0..Buffer]
      /\ tab \in [Tabs -> {"off", "open", "leaving", "left"}]
  BY DEF HubInv, TypeOK
<1>2. ASSUME NEW t \in Tabs, Receive(t) PROVE HubInv'
  <2>1. /\ queue' \in [Tabs -> 0..Buffer]
        /\ tab' \in [Tabs -> {"off", "open", "leaving", "left"}]
    BY <1>1, <1>2 DEF Receive
  <2> QED BY <1>1, <1>2, <2>1, OutsideKeepsInv DEF Receive
<1>3. ASSUME NEW u \in Users, Arrive(u) \/ Expunge(u) PROVE HubInv'
  <2>1. mail' \in [Users -> Nat]
    BY <1>1, <1>3 DEF Arrive, Expunge
  <2> QED BY <1>1, <1>3, <2>1, OutsideKeepsInv DEF Arrive, Expunge
<1>4. ASSUME NEW t \in Tabs, Connection(t) PROVE HubInv'
  BY <1>2, <1>4, SubscribeKeepsInv, UnsubscribeKeepsInv DEF Connection
<1>5. ASSUME NEW w \in Watchers,
             \/ Run(w) \/ SeeStop(w) \/ Release(w) \/ DialPanics(w)
             \/ Report(w) \/ Disconnect(w) \/ Clog(w)
      PROVE  HubInv'
  BY <1>5, WatcherKeepsInv, SendKeepsInv, EndKeepsInv, PanicKeepsInv DEF Run
<1>6. CASE UNCHANGED vars
  BY <1>1, <1>6, OutsideKeepsInv DEF vars
<1> QED BY <1>3, <1>4, <1>5, <1>6 DEF Next

(* HubInv holds in every state of the hub. *)
THEOREM HubInvariant == Spec => []HubInv
<1>1. Init => HubInv
  BY InitEstablishesInv
<1>2. HubInv /\ [Next]_vars => HubInv'
  BY NextKeepsInv
<1> QED BY <1>1, <1>2, PTL DEF Spec

-----------------------------------------------------------------------------
(* The properties *)

(* The variables keep their types: no count is negative. *)
THEOREM TypeCorrect == Spec => []TypeOK
<1>1. HubInv => TypeOK
  BY DEF HubInv
<1> QED BY <1>1, HubInvariant, PTL

(* No stop channel is closed twice. *)
THEOREM NeverClosedTwice == Spec => []NoDoubleClose
<1>1. HubInv => NoDoubleClose
  BY DEF HubInv
<1> QED BY <1>1, HubInvariant, PTL

(* The stop channel of a user's entry is that of a running watcher of the  *)
(* user.                                                                   *)
THEOREM MarksAreLive == Spec => []MarkIsLive
<1>1. HubInv => MarkIsLive
  BY DEF HubInv
<1> QED BY <1>1, HubInvariant, PTL

(* A watcher is told to stop only when none of its user's tabs is left. *)
THEOREM LeaversStopNobody == Spec => LeaverStopsNobody
<1> DEFINE A == \A w \in closed' \ closed : subs'[watch[w].user] = {}
<1>1. HubInv /\ [Next]_vars => [A]_vars
  <2> SUFFICES ASSUME HubInv, [Next]_vars, NEW w \in closed' \ closed
               PROVE  subs'[watch[w].user] = {}
    OBVIOUS
  <2>1. PICK t \in Tabs : Unsubscribe(t)
    BY DEF Next, vars, Connection, Run, Subscribe, Receive, Dial, Select,
           Update, Fetch, Copy, Send, End, SeeStop, Release, DialPanics,
           Report, Disconnect, Clog, Arrive, Expunge
  <2>2. LastLeaver(OwnerOf[t], t) /\ w = stop[OwnerOf[t]] /\ w # None
    BY <2>1 DEF Unsubscribe
  <2>3. OwnerOf[t] \in Users /\ watch[w].user = OwnerOf[t]
    BY <2>2, HubAssumption DEF HubInv, MarkIsLive
  <2> QED
    BY <2>1, <2>2, <2>3 DEF Unsubscribe, LastLeaver, HubInv, TypeOK
<1> QED BY <1>1, HubInvariant, PTL DEF Spec, LeaverStopsNobody

-----------------------------------------------------------------------------
(* Orphans *)

Ended(u) == {w \in Watchers : watch[w].pc = "ended" /\ watch[w].user = u}

(* A watcher changes its user only when a tab starts it, and never comes   *)
(* back.                                                                   *)
LEMMA WatcherSteps ==
    ASSUME HubInv, [Next]_vars, NEW w \in Watchers, watch[w].pc # "none"
    PROVE  /\ watch'[w].user = watch[w].user
           /\ Running(w)' => Running(w)
           /\ watch[w].pc = "ended" => watch'[w].pc = "ended"
<1>0. watch \in [Watchers -> Watcher]
  BY DEF HubInv, TypeOK
<1>1. CASE watch' = watch
  BY <1>1 DEF Running
<1>2. ASSUME NEW t \in Tabs, Subscribe(t)
      PROVE  watch'[w] = watch[w]
  BY <1>0, <1>2 DEF Subscribe
<1>3. ASSUME NEW v \in Watchers,
             \/ Run(v) \/ SeeStop(v) \/ Release(v) \/ Report(v)
             \/ Disconnect(v) \/ Clog(v)
      PROVE  /\ watch'[w].user = watch[w].user
             /\ Running(w)' => Running(w)
             /\ watch[w].pc = "ended" => watch'[w].pc = "ended"
  <2>1. CASE v # w
    <3>1. watch'[w] = watch[w]
      BY <1>0, <1>3, <2>1
         DEF Run, Dial, Select, Update, Fetch, Copy, Send, Announcing, End,
             SeeStop, Release, Report, Disconnect, Clog, Go
    <3>2. QED
      BY <3>1 DEF Running
  <2>2. CASE v = w
    <3>1. Running(w)
      BY <1>3, <2>2
         DEF Run, Dial, Select, Update, Fetch, Copy, Send, End, SeeStop,
             Release, Report, Disconnect, Clog, Running
    <3>2. watch'[w].user = watch[w].user
      <4>1. CASE End(w)
        BY <1>0, <4>1 DEF End, Over, Idle
      <4>2. CASE Dial(w) \/ Select(w) \/ Fetch(w)
        <5>1. CASE Dial(w)
          BY <1>0, <5>1 DEF Dial, Go, Watcher
        <5>2. CASE Select(w)
          BY <1>0, <5>2 DEF Select, Go, Watcher
        <5>3. CASE Fetch(w)
          <6>1. \E n, l : watch' = [watch EXCEPT ![w].todo = n, ![w].pc = l]
            BY <5>3 DEF Fetch
          <6>2. QED
            BY <1>0, <6>1 DEF Watcher
        <5>4. QED
          BY <4>2, <5>1, <5>2, <5>3
      <4>3. CASE Copy(w) \/ Send(w)
        BY <1>0, <4>3 DEF Copy, Send, Announcing, Watcher
      <4>4. CASE SeeStop(w) \/ Release(w) \/ Report(w) \/ Disconnect(w) \/ Clog(w)
        BY <1>0, <4>4 DEF SeeStop, Release, Report, Disconnect, Clog, Go, Watcher
      <4>5. CASE Update(w)
        <5>1. \E s, n, l :
                 watch' = [watch EXCEPT ![w].report = None, ![w].seen = s,
                                        ![w].todo = n, ![w].pc = l]
          BY <4>5 DEF Update
        <5>2. QED
          BY <1>0, <5>1 DEF Watcher
      <4>6. QED
        BY <1>3, <2>2, <4>1, <4>2, <4>3, <4>4, <4>5 DEF Run
    <3>3. QED
      BY <3>1, <3>2 DEF Running
  <2>3. QED
    BY <2>1, <2>2
<1>4. ASSUME NEW v \in Watchers, DialPanics(v)
      PROVE  watch'[w].pc = "ended" /\ watch'[w].user = watch[w].user
  BY <1>0, <1>4 DEF DialPanics, Over, Idle
<1>5. QED
  BY <1>1, <1>2, <1>3, <1>4
     DEF Next, Connection, Receive, Unsubscribe, Arrive, Expunge, vars, Running

(* A watcher becomes an orphan only by the clean-up of another one.        *)
LEMMA OrphanSteps ==
    ASSUME HubInv, [Next]_vars, NEW u \in Users
    PROVE  \/ Orphans(u)' \subseteq Orphans(u)
           \/ \E w \in Watchers : /\ End(w) /\ watch[w].user = u
                                  /\ Orphans(u)' \subseteq Orphans(u) \cup {stop[u]}
<1> USE HubAssumption
<1>0. /\ watch \in [Watchers -> Watcher]
      /\ stop \in [Users -> Watchers \cup {None}]
  BY DEF HubInv, TypeOK
<1>1. ASSUME stop'[u] = stop[u], closed \subseteq closed',
             \A w \in Watchers : watch[w].pc = "none" => watch'[w] = watch[w]
      PROVE  Orphans(u)' \subseteq Orphans(u)
  <2> SUFFICES ASSUME NEW w \in Orphans(u)' PROVE w \in Orphans(u)
    OBVIOUS
  <2>1. w \in Watchers /\ Running(w)' /\ watch'[w].user = u
        /\ w \notin closed' /\ stop'[u] # w
    BY DEF Orphans
  <2>2. watch[w].pc # "none"
    BY <1>1, <2>1 DEF Running
  <2>3. QED
    BY <1>1, <2>1, <2>2, WatcherSteps DEF Orphans
<1>2. ASSUME NEW t \in Tabs, Subscribe(t) PROVE Orphans(u)' \subseteq Orphans(u)
  <2>1. CASE UNCHANGED <<watch, stop>>
    BY <1>1, <1>2, <2>1 DEF Subscribe
  <2>2. ASSUME NEW w \in Watchers, watch[w].pc = "none", NEW r,
               r.user = OwnerOf[t],
               watch' = [watch EXCEPT ![w] = r],
               stop' = [stop EXCEPT ![OwnerOf[t]] = w],
               stop[OwnerOf[t]] = None
        PROVE  Orphans(u)' \subseteq Orphans(u)
    <3> SUFFICES ASSUME NEW v \in Orphans(u)' PROVE v \in Orphans(u)
      OBVIOUS
    <3>1. v \in Watchers /\ Running(v)' /\ watch'[v].user = u
          /\ v \notin closed' /\ stop'[u] # v /\ closed' = closed
      BY <1>2 DEF Orphans, Subscribe
    <3>2. v # w
      BY <1>0, <2>2, <3>1
    <3>3. watch'[v] = watch[v]
      BY <1>0, <2>2, <3>1, <3>2
    <3>4. stop[u] # v
      BY <1>0, <2>2, <3>1
    <3>5. QED
      BY <3>1, <3>3, <3>4 DEF Orphans, Running
  <2>3. QED
    <3>1. CASE stop[OwnerOf[t]] # None
      BY <1>2, <2>1, <3>1 DEF Subscribe, NeedsWatcher
    <3>2. CASE stop[OwnerOf[t]] = None
      <4>1. PICK w \in Watchers :
               /\ watch[w].pc = "none"
               /\ watch' = [watch EXCEPT ![w] =
                     [Idle EXCEPT !.pc = "dial", !.user = OwnerOf[t], !.ctx = TRUE]]
               /\ stop' = [stop EXCEPT ![OwnerOf[t]] = w]
        BY <1>2, <3>2 DEF Subscribe, NeedsWatcher
      <4>2. [Idle EXCEPT !.pc = "dial", !.user = OwnerOf[t], !.ctx = TRUE].user
               = OwnerOf[t]
        BY DEF Idle
      <4>3. QED
        BY <2>2, <3>2, <4>1, <4>2
    <3>3. QED
      BY <3>1, <3>2
<1>3. ASSUME NEW t \in Tabs, Unsubscribe(t) PROVE Orphans(u)' \subseteq Orphans(u)
  <2>1. CASE UNCHANGED <<closed, stop>>
    BY <1>1, <1>3, <2>1 DEF Unsubscribe
  <2>2. CASE /\ closed' = closed \cup ({stop[OwnerOf[t]]} \ {None})
             /\ stop' = [stop EXCEPT ![OwnerOf[t]] = None]
    <3>1. CASE OwnerOf[t] = u
      BY <1>0, <1>3, <2>2, <3>1 DEF Unsubscribe, Orphans, Running
    <3>2. CASE OwnerOf[t] # u
      BY <1>0, <1>1, <1>3, <2>2, <3>2 DEF Unsubscribe
    <3>3. QED
      BY <3>1, <3>2
  <2>3. QED
    BY <1>3, <2>1, <2>2 DEF Unsubscribe
<1>4. ASSUME NEW w \in Watchers, End(w), watch[w].user = u
      PROVE  Orphans(u)' \subseteq Orphans(u) \cup {stop[u]}
  <2> SUFFICES ASSUME NEW v \in Orphans(u)', v # stop[u] PROVE v \in Orphans(u)
    OBVIOUS
  <2>1. v \in Watchers /\ Running(v)' /\ watch'[v].user = u /\ v \notin closed
    BY <1>4 DEF End, Orphans
  <2>2. watch'[v] = watch[v]
    BY <1>0, <1>4, <2>1 DEF End, Over, Idle, Running
  <2>3. QED
    BY <2>1, <2>2 DEF Orphans, Running
<1>5. ASSUME NEW w \in Watchers, End(w), watch[w].user # u
      PROVE  Orphans(u)' \subseteq Orphans(u)
  <2>1. stop'[u] = stop[u] /\ closed' = closed
    BY <1>0, <1>5 DEF End
  <2>2. \A v \in Watchers : watch[v].pc = "none" => watch'[v] = watch[v]
    BY <1>0, <1>5 DEF End
  <2>3. QED
    BY <1>1, <2>1, <2>2
<1>6. ASSUME NEW w \in Watchers, DialPanics(w) PROVE Orphans(u)' = {}
  BY <1>0, <1>6 DEF DialPanics, Orphans, Running, Over, Idle
<1>7. ASSUME NEW w \in Watchers,
             \/ Dial(w) \/ Select(w) \/ Update(w) \/ Fetch(w) \/ Copy(w)
             \/ Send(w) \/ SeeStop(w) \/ Release(w) \/ Report(w)
             \/ Disconnect(w) \/ Clog(w)
      PROVE  Orphans(u)' \subseteq Orphans(u)
  <2>1. UNCHANGED <<stop, closed>>
    BY <1>7 DEF Dial, Select, Update, Fetch, Copy, Send, SeeStop, Release,
                Report, Disconnect, Clog
  <2>2. \A v \in Watchers : watch[v].pc = "none" => watch'[v] = watch[v]
    BY <1>0, <1>7 DEF Dial, Select, Update, Fetch, Copy, Send, Announcing,
                SeeStop, Release, Report, Disconnect, Clog, Go
  <2>3. QED
    BY <1>1, <2>1, <2>2
<1>8. CASE UNCHANGED <<stop, closed, watch>>
  BY <1>1, <1>8
<1>9. QED
  BY <1>2, <1>3, <1>4, <1>5, <1>6, <1>7, <1>8
     DEF Next, Connection, Receive, Run, Arrive, Expunge, vars

(* The bound on orphans is inductive, given the hub's invariant. *)
LEMMA OrphansNext ==
    ASSUME HubInv, OrphansAccounted, [Next]_vars
    PROVE  OrphansAccounted'
<1> USE HubAssumption
<1> SUFFICES ASSUME NEW u \in Users
             PROVE  Cardinality(Orphans(u)') <= Cardinality(Ended(u)')
  BY DEF OrphansAccounted, Ended
<1> DEFINE O == Orphans(u)
           E == Ended(u)
<1>1. /\ IsFiniteSet(O) /\ IsFiniteSet(O') /\ IsFiniteSet(E) /\ IsFiniteSet(E')
      /\ Cardinality(O) \in Nat /\ Cardinality(O') \in Nat
      /\ Cardinality(E) \in Nat /\ Cardinality(E') \in Nat
  <2>1. O \subseteq Watchers /\ O' \subseteq Watchers
        /\ E \subseteq Watchers /\ E' \subseteq Watchers
    BY DEF Orphans, Ended
  <2>2. QED
    BY <2>1, FS_Subset, FS_CardinalityType
<1>2. Cardinality(O) <= Cardinality(E)
  BY DEF OrphansAccounted, Ended
<1>3. E \subseteq E'
  BY WatcherSteps DEF Ended
<1>4. CASE O' \subseteq O
  <2>1. Cardinality(O') <= Cardinality(O) /\ Cardinality(E) <= Cardinality(E')
    BY <1>1, <1>3, <1>4, FS_Subset
  <2>2. QED
    BY <1>1, <1>2, <2>1
<1>5. ASSUME NEW w \in Watchers, End(w), watch[w].user = u,
             O' \subseteq O \cup {stop[u]}
      PROVE  Cardinality(O') <= Cardinality(E')
  <2>1. /\ IsFiniteSet(O \cup {stop[u]})
        /\ Cardinality(O \cup {stop[u]}) =
              IF stop[u] \in O THEN Cardinality(O) ELSE Cardinality(O) + 1
    BY <1>1, FS_AddElement, Zenon
  <2>2. Cardinality(O') <= Cardinality(O \cup {stop[u]})
    BY <1>5, <2>1, FS_Subset
  <2>3. w \notin E /\ w \in E'
    <3>1. w \notin E
      BY <1>5 DEF End, Ended
    <3>2. watch'[w] = Over(w)
      BY <1>5 DEF End, HubInv, TypeOK
    <3>3. QED
      BY <1>5, <3>1, <3>2 DEF Over, Idle, Ended
  <2>4. /\ IsFiniteSet(E \cup {w})
        /\ Cardinality(E \cup {w}) =
              IF w \in E THEN Cardinality(E) ELSE Cardinality(E) + 1
    BY <1>1, FS_AddElement, Zenon
  <2>5. Cardinality(E \cup {w}) <= Cardinality(E')
    BY <1>1, <1>3, <2>3, FS_Subset
  <2>6. QED
    BY <1>1, <1>2, <2>1, <2>2, <2>3, <2>4, <2>5
<1>6. QED
  BY <1>4, <1>5, OrphanSteps

(* A watcher that nobody can stop costs the life of another: there are no  *)
(* more of them than watchers of that user that have ended, for any number *)
(* of tabs and however starts, ends and departures interleave.             *)
THEOREM OrphansAreAccounted == Spec => []OrphansAccounted
<1>1. Init => OrphansAccounted
  <2> SUFFICES ASSUME Init, NEW u \in Users
               PROVE  Cardinality(Orphans(u)) <= Cardinality(Ended(u))
    BY DEF OrphansAccounted, Ended
  <2>1. Orphans(u) = {} /\ Ended(u) = {}
    BY DEF Init, Orphans, Ended, Running, Idle
  <2>2. QED
    BY <2>1, FS_EmptySet
<1>2. HubInv /\ OrphansAccounted /\ [Next]_vars => OrphansAccounted'
  BY OrphansNext
<1>3. QED
  BY <1>1, <1>2, HubInvariant, PTL DEF Spec

=============================================================================
