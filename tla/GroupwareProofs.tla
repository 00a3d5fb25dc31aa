--------------------------- MODULE GroupwareProofs ---------------------------
(***************************************************************************)
(* Theorems about the calendar and the contacts in the runs of MCRequests: *)
(* whom the program tells what, and what it stores.                        *)
(*                                                                         *)
(* CalInv says of each UID what a request that has it to itself (a clean   *)
(* one) promises: the answer it sent is the one it is about to store, the  *)
(* version it stored is the one it is about to send.  That needs the shape *)
(* of each request, and that no two UIDs share the number of an event.     *)
(*                                                                         *)
(* BookInv says of each request on the contacts that what it has listed is *)
(* what is there, but for cards somebody wrote since; and of a rewrite of  *)
(* a group, that what it does not have before it any more is done.         *)
(***************************************************************************)
EXTENDS MCRequests, TLAPS

(* Request r is about UID u.                                               *)
On(r, u) == calReq[r] # None /\ calReq[r].uid = u

(* The calendar, what was said about it, and the requests under way.       *)
CalendarTypes ==
    /\ cal \in [CA!Places -> CA!Object \cup {None}]
    /\ told \in [Meetings -> {"ACCEPTED", "TENTATIVE", "DECLINED", None}]
    /\ heard \in [1..MaxVersions -> 0..MaxVersions]
    /\ calReq \in [Requests -> CA!Request \cup {None}]
    /\ calCount.versions \in 0..MaxVersions
    /\ calCount \in [versions : Nat, requests : Nat, others : Nat]

(* What a request has to write, and where.                                 *)
ShapeOf(q) ==
    /\ q.place[1] = q.uid
    /\ q.pc \in {"put", "mail"} => q.object # None
    /\ q.pc \in {"reply", "form"} => q.op \in CA!Answers
    /\ q.pc = "reply" /\ q.op # "decline" => q.object # None
    /\ q.uid \in Slots => q.place = CA!OwnPath(q.uid)
    /\ q.clean /\ q.uid \in Meetings =>
          /\ q.op \in CA!Answers /\ q.pc \in {"reply", "put", "find", "remove"}
          /\ q.pc \in {"find", "remove"} => q.op = "decline"
          /\ q.op # "decline" => /\ q.object # None
                                 /\ q.object.answer = CA!PartStat(q.op)
                                 /\ ~q.object.invites
                                 /\ q.place = CA!OwnPath(q.uid)
          /\ q.op = "decline" => q.pc # "put"
    /\ q.clean /\ q.uid \in Slots => q.op \in {"create", "update"} /\ q.pc \in {"put", "mail"}

(* An event of UID u has number e, on the server or in a request.          *)
HasEvent(u, e) ==
    \/ \E p \in CA!Places : p[1] = u /\ cal[p] # None /\ cal[p].event = e
    \/ \E r \in Requests :
          On(r, u) /\ calReq[r].object # None /\ calReq[r].object.event = e

(* Numbers are given once, so that two UIDs share none.                    *)
EventsInv ==
    \A u \in CA!Uids, e \in Nat : HasEvent(u, e) =>
        /\ e <= calCount.versions
        /\ \A v \in CA!Uids \ {u} : ~HasEvent(v, e)

(* A clean request has its UID to itself.                                  *)
Alone(u) == \A r, q \in Requests : On(r, u) /\ On(q, u) /\ calReq[r].clean => q = r

(* While nothing is under way the organizer was told what the calendar     *)
(* shows; a request that told it has yet to write the same.                *)
AnswerInv(m) ==
    /\ /\ m \notin calExcuse /\ told[m] # None
       /\ \A r \in Requests : On(r, m) => calReq[r].clean /\ calReq[r].pc = "reply"
       => told[m] = CA!Answer(m)
    /\ \A r \in Requests :
          On(r, m) /\ calReq[r].clean /\ calReq[r].pc \in {"put", "find", "remove"} =>
              told[m] = CA!PartStat(calReq[r].op)

(* While nothing is under way the invitees have the stored version; a      *)
(* request that stored it has yet to send it.                              *)
InviteInv(s) ==
    /\ cal[<<s, "other">>] = None
    /\ /\ s \notin calExcuse /\ cal[CA!OwnPath(s)] # None /\ cal[CA!OwnPath(s)].invites
       /\ \A r \in Requests : On(r, s) => calReq[r].clean /\ calReq[r].pc = "put"
       => heard[cal[CA!OwnPath(s)].event] = cal[CA!OwnPath(s)].ver
    /\ \A r \in Requests :
          On(r, s) /\ calReq[r].clean /\ calReq[r].pc = "mail" =>
              cal[CA!OwnPath(s)] \in {None, calReq[r].object}

UidInv(u) == Alone(u) /\ (u \in Meetings => AnswerInv(u)) /\ (u \in Slots => InviteInv(u))

ShapesInv == \A r \in Requests : calReq[r] # None => ShapeOf(calReq[r])

CalInv == CalendarTypes /\ ShapesInv /\ EventsInv /\ \A u \in CA!Uids : UidInv(u)

-----------------------------------------------------------------------------

LEMMA CalendarRequestKnown ==
    ASSUME CalInv, NEW r \in Requests, calReq[r] # None
    PROVE  /\ calReq[r] \in CA!Request /\ ShapeOf(calReq[r])
           /\ calReq[r].uid \in CA!Uids /\ On(r, calReq[r].uid)
           /\ calReq[r].place \in CA!Places
  BY DEF CalInv, CalendarTypes, ShapesInv, CA!Request, On

LEMMA PlacesKnown ==
    /\ \A u \in CA!Uids : CA!OwnPath(u) \in CA!Places /\ <<u, "other">> \in CA!Places
    /\ \A u : CA!OwnPath(u)[1] = u /\ <<u, "other">>[1] = u
    /\ \A p \in CA!Places : /\ p[1] \in CA!Uids
                            /\ p = CA!OwnPath(p[1]) \/ p = <<p[1], "other">>
    /\ \A u : CA!OwnPath(u) # <<u, "other">>
  BY DEF CA!Places, CA!OwnPath

(* What is stored at a place.                                              *)
LEMMA StoredKnown ==
    ASSUME CalInv, NEW p \in CA!Places, cal[p] # None
    PROVE  /\ cal[p] \in CA!Object /\ cal[p].event \in 1..MaxVersions /\ cal[p].event \in Nat
           /\ HasEvent(p[1], cal[p].event)
  <1>1. cal[p] \in CA!Object
    BY DEF CalInv, CalendarTypes
  <1>2. cal[p].event \in 1..MaxVersions
    BY <1>1 DEF CA!Object
  <1>. QED
    BY <1>1, <1>2 DEF HasEvent

LEMMA CalInit == CA!Init => CalInv
  <1>. SUFFICES ASSUME CA!Init PROVE CalInv
    OBVIOUS
  <1>1. \A r \in Requests : \A u : ~On(r, u)
    BY DEF CA!Init, On
  <1>2. \A u, e : ~HasEvent(u, e)
    BY <1>1 DEF CA!Init, HasEvent
  <1>3. CalendarTypes
    BY CalendarAssumption DEF CA!Init, CalendarTypes
  <1>4. ShapesInv /\ EventsInv
    BY <1>2 DEF CA!Init, ShapesInv, EventsInv
  <1>5. ASSUME NEW u \in CA!Uids PROVE UidInv(u)
    BY <1>1, PlacesKnown DEF CA!Init, UidInv, Alone, AnswerInv, InviteInv
  <1>. QED
    BY <1>3, <1>4, <1>5 DEF CalInv

(* What another UID's request does not change.                             *)
LEMMA Elsewhere ==
    ASSUME CalInv, NEW u \in CA!Uids,
           \A r \in Requests : On(r, u)' <=> On(r, u),
           \A r \in Requests : On(r, u) => calReq'[r] = calReq[r],
           u \in Meetings => told'[u] = told[u],
           cal'[CA!OwnPath(u)] = cal[CA!OwnPath(u)],
           cal'[<<u, "other">>] = cal[<<u, "other">>],
           u \in calExcuse => u \in calExcuse',
           cal[CA!OwnPath(u)] # None =>
               heard'[cal[CA!OwnPath(u)].event] = heard[cal[CA!OwnPath(u)].event]
    PROVE  UidInv(u)'
  <1>1. UidInv(u)
    BY DEF CalInv
  <1>2. Alone(u)'
    BY <1>1 DEF UidInv, Alone
  <1>3. ASSUME u \in Meetings PROVE AnswerInv(u)'
    BY <1>1, <1>3 DEF UidInv, AnswerInv, CA!Answer
  <1>4. ASSUME u \in Slots PROVE InviteInv(u)'
    BY <1>1, <1>4 DEF UidInv, InviteInv
  <1>. QED
    BY <1>2, <1>3, <1>4 DEF UidInv

(* A step of request r, which goes on as q or ends, about its own UID.     *)
LEMMA StepKeeps ==
    ASSUME CalInv, NEW r \in Requests, calReq[r] # None,
           NEW u \in CA!Uids, u = calReq[r].uid,
           NEW q \in CA!Request \cup {None}, calReq' = [calReq EXCEPT ![r] = q],
           q # None => /\ ShapeOf(q) /\ q.uid = u /\ q.clean = calReq[r].clean
                       /\ q.object = calReq[r].object,
           UNCHANGED calCount,
           told' \in [Meetings -> {"ACCEPTED", "TENTATIVE", "DECLINED", None}],
           \A m \in Meetings \ {u} : told'[m] = told[m],
           cal' \in [CA!Places -> CA!Object \cup {None}],
           \A p \in CA!Places : p[1] # u => cal'[p] = cal[p],
           \A p \in CA!Places : cal'[p] # None => cal'[p] \in {cal[p], calReq[r].object},
           heard' \in [1..MaxVersions -> 0..MaxVersions],
           \A e \in 1..MaxVersions : heard'[e] = heard[e] \/ HasEvent(u, e),
           \A v \in CA!Uids \ {u} : v \in calExcuse => v \in calExcuse',
           u \in Meetings => AnswerInv(u)', u \in Slots => InviteInv(u)'
    PROVE  CalInv'
  <1>1. /\ calReq'[r] = q /\ \A p \in Requests \ {r} : calReq'[p] = calReq[p]
        /\ calReq' \in [Requests -> CA!Request \cup {None}]
    BY DEF CalInv, CalendarTypes
  <1>2. CalendarTypes'
    BY <1>1 DEF CalInv, CalendarTypes
  <1>3. ShapesInv'
    BY <1>1 DEF CalInv, ShapesInv
  <1>4. \A p \in Requests : \A v :
           On(p, v)' => /\ On(p, v) /\ calReq'[p].object = calReq[p].object
                        /\ calReq'[p].clean = calReq[p].clean
    BY <1>1 DEF On
  <1>5. ASSUME NEW v \in CA!Uids, NEW e \in Nat, HasEvent(v, e)' PROVE HasEvent(v, e)
    <2>1. CASE \E p \in Requests :
                  On(p, v)' /\ calReq'[p].object # None /\ calReq'[p].object.event = e
      BY <1>4, <2>1 DEF HasEvent
    <2>2. CASE \E p \in CA!Places : p[1] = v /\ cal'[p] # None /\ cal'[p].event = e
      <3>1. PICK p \in CA!Places : p[1] = v /\ cal'[p] # None /\ cal'[p].event = e
        BY <2>2
      <3>2. CASE cal'[p] = cal[p]
        BY <3>1, <3>2 DEF HasEvent
      <3>3. CASE cal'[p] # cal[p]
        BY <3>1, <3>3 DEF HasEvent, On
      <3>. QED
        BY <3>2, <3>3
    <2>. QED
      BY <1>5, <2>1, <2>2 DEF HasEvent
  <1>6. EventsInv'
    BY <1>5 DEF CalInv, EventsInv
  <1>7. ASSUME NEW v \in CA!Uids, v # u PROVE UidInv(v)'
    <2>1. \A p \in Requests : /\ On(p, v)' <=> On(p, v)
                              /\ On(p, v) => calReq'[p] = calReq[p]
      BY <1>1, <1>7 DEF On
    <2>2. /\ cal'[CA!OwnPath(v)] = cal[CA!OwnPath(v)]
          /\ cal'[<<v, "other">>] = cal[<<v, "other">>]
      BY <1>7, PlacesKnown
    <2>3. ASSUME cal[CA!OwnPath(v)] # None
          PROVE  heard'[cal[CA!OwnPath(v)].event] = heard[cal[CA!OwnPath(v)].event]
      <3>. DEFINE e == cal[CA!OwnPath(v)].event
      <3>1. CA!OwnPath(v) \in CA!Places /\ CA!OwnPath(v)[1] = v
        BY PlacesKnown
      <3>2. e \in 1..MaxVersions /\ e \in Nat /\ HasEvent(v, e)
        BY <2>3, <3>1, StoredKnown
      <3>3. ~HasEvent(u, e)
        BY <1>7, <3>2 DEF CalInv, EventsInv
      <3>. QED
        BY <3>2, <3>3
    <2>. QED
      BY <1>7, <2>1, <2>2, <2>3, Elsewhere
  <1>8. UidInv(u)'
    <2>1. Alone(u)'
      BY <1>4 DEF CalInv, UidInv, Alone
    <2>. QED
      BY <2>1 DEF UidInv
  <1>. QED
    BY <1>2, <1>3, <1>6, <1>7, <1>8 DEF CalInv

(* A request that others met promises nothing.                             *)
LEMMA UncleanPromises ==
    ASSUME CalInv, NEW r \in Requests, calReq[r] # None, ~calReq[r].clean,
           NEW u \in CA!Uids, u = calReq[r].uid,
           NEW q, calReq' = [calReq EXCEPT ![r] = q],
           q # None => q.uid = u /\ ~q.clean,
           q # None \/ u \in calExcuse'
    PROVE  /\ AnswerInv(u)'
           /\ cal'[<<u, "other">>] = None => InviteInv(u)'
  <1>1. calReq'[r] = q /\ \A p \in Requests \ {r} : calReq'[p] = calReq[p]
    BY DEF CalInv, CalendarTypes
  <1>2. \A p \in Requests : On(p, u) => ~calReq[p].clean
    BY DEF CalInv, UidInv, Alone, On
  <1>3. \A p \in Requests : On(p, u)' => ~calReq'[p].clean
    BY <1>1, <1>2 DEF On
  <1>4. u \in calExcuse' \/ On(r, u)'
    BY <1>1 DEF On
  <1>. QED
    BY <1>3, <1>4 DEF AnswerInv, InviteInv

(* A number that is given is the next one.                                 *)
LEMMA EventsKeep ==
    ASSUME CalInv, NEW u \in CA!Uids,
           calCount'.versions \in 0..MaxVersions, calCount'.versions >= calCount.versions,
           \A v \in CA!Uids, e \in Nat : HasEvent(v, e)' =>
               HasEvent(v, e) \/ (v = u /\ e = calCount.versions + 1
                                       /\ calCount'.versions = e)
    PROVE  EventsInv'
  <1>1. calCount.versions \in Nat /\ calCount'.versions \in Nat
    BY DEF CalInv, CalendarTypes
  <1>2. \A v \in CA!Uids, e \in Nat : HasEvent(v, e) => e <= calCount.versions
    BY DEF CalInv, EventsInv
  <1>3. ASSUME NEW v \in CA!Uids, NEW e \in Nat, HasEvent(v, e)'
        PROVE  /\ e <= calCount'.versions
               /\ \A w \in CA!Uids \ {v} : ~HasEvent(w, e)'
    <2>1. CASE e = calCount.versions + 1
      <3>1. \A w \in CA!Uids : ~HasEvent(w, e)
        BY <1>1, <1>2, <2>1
      <3>2. v = u /\ calCount'.versions = e /\ \A w \in CA!Uids \ {u} : ~HasEvent(w, e)'
        BY <1>3, <3>1
      <3>. QED
        BY <1>1, <2>1, <3>2
    <2>2. CASE e # calCount.versions + 1
      <3>1. \A w \in CA!Uids : HasEvent(w, e)' => HasEvent(w, e)
        BY <2>2
      <3>2. HasEvent(v, e)
        BY <1>3, <3>1
      <3>. QED
        BY <1>1, <3>1, <3>2 DEF CalInv, EventsInv
    <2>. QED
      BY <2>1, <2>2
  <1>. QED
    BY <1>3 DEF EventsInv

(* A new request: those that have its UID are clean no longer.             *)
LEMMA EnterKeeps ==
    ASSUME CalInv, NEW r \in Requests, NEW q \in CA!Request, calReq[r] = None,
           calReq' = [p \in Requests |->
                        IF p = r THEN q
                        ELSE IF On(p, q.uid) THEN [calReq[p] EXCEPT !.clean = FALSE]
                        ELSE calReq[p]],
           ShapeOf(q), q.clean => \A p \in Requests : ~On(p, q.uid),
           q.clean /\ q.uid \in Meetings => q.pc = "reply",
           q.clean /\ q.uid \in Slots => q.pc = "put",
           UNCHANGED <<cal, told, heard, calExcuse>>,
           calCount' \in [versions : Nat, requests : Nat, others : Nat],
           calCount'.versions \in 0..MaxVersions,
           calCount'.versions >= calCount.versions,
           q.object # None => \/ HasEvent(q.uid, q.object.event)
                              \/ /\ q.object.event = calCount.versions + 1
                                 /\ calCount'.versions = calCount.versions + 1
    PROVE  CalInv'
  <1>. DEFINE u == q.uid
              c == q.clean
              object == q.object
  <1>0. u \in CA!Uids /\ c \in BOOLEAN /\ q # None
    BY CalendarAssumption DEF CA!Request
  <1>1. /\ calReq'[r] = q
        /\ calReq' \in [Requests -> CA!Request \cup {None}]
        /\ \A p \in Requests \ {r} : ~On(p, u) => calReq'[p] = calReq[p]
        /\ \A p \in Requests \ {r} : On(p, u) =>
              /\ calReq'[p] # None /\ calReq'[p].clean = FALSE
              /\ calReq'[p].pc = calReq[p].pc /\ calReq'[p].op = calReq[p].op
              /\ calReq'[p].uid = calReq[p].uid /\ calReq'[p].place = calReq[p].place
              /\ calReq'[p].object = calReq[p].object
    <2>1. calReq'[r] = q
      OBVIOUS
    <2>2. \A p \in Requests \ {r} : ~On(p, u) => calReq'[p] = calReq[p]
      OBVIOUS
    <2>3. ASSUME NEW p \in Requests \ {r}, On(p, u)
          PROVE  /\ calReq'[p] \in CA!Request /\ calReq'[p].clean = FALSE
                 /\ calReq'[p].pc = calReq[p].pc /\ calReq'[p].op = calReq[p].op
                 /\ calReq'[p].uid = calReq[p].uid /\ calReq'[p].place = calReq[p].place
                 /\ calReq'[p].object = calReq[p].object
      <3>1. PICK k \in CA!Request : k = calReq[p]
        BY <2>3, CalendarRequestKnown DEF On
      <3>2. calReq'[p] = [k EXCEPT !.clean = FALSE]
        BY <2>3, <3>1
      <3>. QED
        BY <3>1, <3>2 DEF CA!Request
    <2>4. calReq' \in [Requests -> CA!Request \cup {None}]
      <3>1. \A p \in Requests : calReq'[p] \in CA!Request \cup {None}
        BY <2>1, <2>2, <2>3 DEF CalInv, CalendarTypes
      <3>. QED
        BY <3>1
    <2>. QED
      BY <2>1, <2>2, <2>3, <2>4, CalendarAssumption
  <1>2. CalendarTypes'
    BY <1>1 DEF CalInv, CalendarTypes
  <1>3. ShapesInv'
    <2>1. ASSUME NEW p \in Requests, calReq'[p] # None PROVE ShapeOf(calReq'[p])
      <3>1. CASE p = r
        BY <1>1, <3>1
      <3>2. CASE p # r /\ ~On(p, u)
        BY <1>1, <2>1, <3>2 DEF CalInv, ShapesInv
      <3>3. CASE p # r /\ On(p, u)
        BY <1>1, <3>3, CalendarRequestKnown DEF ShapeOf, On
      <3>. QED
        BY <3>1, <3>2, <3>3
    <2>. QED
      BY <2>1 DEF ShapesInv
  <1>4. \A p \in Requests \ {r} : \A v :
           /\ On(p, v)' <=> On(p, v)
           /\ On(p, v) => calReq'[p].object = calReq[p].object
    BY <1>1 DEF On
  <1>5. \A v : On(r, v)' <=> v = u
    BY <1>0, <1>1 DEF On
  <1>6. \A v \in CA!Uids, e \in Nat :
           HasEvent(v, e)' => HasEvent(v, e) \/ (v = u /\ object # None /\ object.event = e)
    BY <1>0, <1>1, <1>4, <1>5 DEF HasEvent
  <1>7. EventsInv'
    <2>1. \A v \in CA!Uids, e \in Nat : HasEvent(v, e)' =>
             HasEvent(v, e) \/ (v = u /\ e = calCount.versions + 1
                                     /\ calCount'.versions = e)
      BY <1>6
    <2>. QED
      BY <1>0, <2>1, EventsKeep
  <1>8. ASSUME NEW v \in CA!Uids, v # u PROVE UidInv(v)'
    <2>1. \A p \in Requests : /\ On(p, v)' <=> On(p, v)
                              /\ On(p, v) => calReq'[p] = calReq[p]
      BY <1>1, <1>4, <1>5, <1>8 DEF On
    <2>. QED
      BY <2>1, Elsewhere
  <1>9. UidInv(u)'
    <2>1. c => \A p \in Requests : ~On(p, u)
      OBVIOUS
    <2>2. \A p \in Requests : On(p, u)' /\ calReq'[p].clean => p = r /\ c
      BY <1>0, <1>1, <1>4
    <2>3. c => \A p \in Requests : On(p, u)' => p = r
      BY <1>4, <2>1
    <2>4. On(r, u)' /\ calReq'[r].clean = c /\ calReq'[r].pc = q.pc
      BY <1>1, <1>5
    <2>5. Alone(u)'
      BY <2>2, <2>3 DEF Alone
    <2>6. ASSUME u \in Meetings PROVE AnswerInv(u)'
      <3>1. AnswerInv(u)
        BY <1>0, <2>6 DEF CalInv, UidInv
      <3>2. c => q.pc = "reply"
        BY <2>6
      <3>. QED
        BY <2>1, <2>2, <2>4, <3>1, <3>2 DEF AnswerInv, CA!Answer
    <2>7. ASSUME u \in Slots PROVE InviteInv(u)'
      <3>1. InviteInv(u)
        BY <1>0, <2>7 DEF CalInv, UidInv
      <3>2. c => q.pc = "put"
        BY <2>7
      <3>. QED
        BY <2>1, <2>2, <2>4, <3>1, <3>2 DEF InviteInv
    <2>. QED
      BY <2>5, <2>6, <2>7 DEF UidInv
  <1>. QED
    BY <1>2, <1>3, <1>7, <1>8, <1>9 DEF CalInv
-----------------------------------------------------------------------------

(* The answers and what is written of them.                                *)
LEMMA PartStatIs ==
    /\ CA!PartStat("accept") = "ACCEPTED"
    /\ CA!PartStat("tentative") = "TENTATIVE"
    /\ CA!PartStat("decline") = "DECLINED"
  <1>1. /\ "accept" # "tentative" /\ "accept" # "decline" /\ "tentative" # "decline"
    OBVIOUS
  <1>. QED
    BY <1>1, Zenon DEF CA!PartStat

LEMMA UidsDiffer ==
    \A u \in CA!Uids : (u \in Meetings \/ u \in Slots) /\ ~(u \in Meetings /\ u \in Slots)
  BY CalendarAssumption DEF CA!Uids

(* The counters of a request, with or without a new version.               *)
LEMMA CountsKnown ==
    ASSUME CalInv
    PROVE  /\ CA!Bumped /\ CA!Version \in 1..MaxVersions =>
                 /\ calCount' \in [versions : Nat, requests : Nat, others : Nat]
                 /\ calCount'.versions \in 0..MaxVersions
                 /\ calCount'.versions = calCount.versions + 1
           /\ calCount' = [calCount EXCEPT !.requests = @ + 1] =>
                 /\ calCount' \in [versions : Nat, requests : Nat, others : Nat]
                 /\ calCount'.versions \in 0..MaxVersions
                 /\ calCount'.versions = calCount.versions
           /\ calCount.versions \in Nat /\ CA!Version = calCount.versions + 1
  <1>1. PICK n \in [versions : Nat, requests : Nat, others : Nat] :
           n = calCount /\ n.versions \in 0..MaxVersions
    BY DEF CalInv, CalendarTypes
  <1>2. ASSUME CA!Bumped, CA!Version \in 1..MaxVersions
        PROVE  /\ calCount' \in [versions : Nat, requests : Nat, others : Nat]
               /\ calCount'.versions \in 0..MaxVersions
               /\ calCount'.versions = calCount.versions + 1
    <2>1. n.requests \in Nat /\ n.versions \in Nat
      OBVIOUS
    <2>2. PICK v \in Nat, m \in Nat : v = n.versions + 1 /\ m = n.requests + 1
      BY <2>1
    <2>3. calCount' = [n EXCEPT !.requests = m, !.versions = v]
      BY <1>1, <1>2, <2>2 DEF CA!Bumped, CA!Version
    <2>4. v \in 0..MaxVersions
      BY <1>1, <1>2, <2>2 DEF CA!Version
    <2>5. calCount' \in [versions : Nat, requests : Nat, others : Nat] /\ calCount'.versions = v
      BY <2>3
    <2>. QED
      BY <1>1, <2>2, <2>4, <2>5
  <1>3. ASSUME calCount' = [calCount EXCEPT !.requests = @ + 1]
        PROVE  /\ calCount' \in [versions : Nat, requests : Nat, others : Nat]
               /\ calCount'.versions \in 0..MaxVersions
               /\ calCount'.versions = calCount.versions
    BY <1>1, <1>3
  <1>4. calCount.versions \in Nat /\ CA!Version = calCount.versions + 1
    BY <1>1 DEF CA!Version
  <1>. QED
    BY <1>2, <1>3, <1>4

LEMMA NewEventIs ==
    ASSUME CA!Version \in 1..MaxVersions,
           NEW answer \in {"ACCEPTED", "TENTATIVE", None}, NEW invites \in BOOLEAN
    PROVE  /\ CA!NewEvent(answer, invites) \in CA!Object
           /\ CA!NewEvent(answer, invites) # None
           /\ CA!NewEvent(answer, invites).event = CA!Version
           /\ CA!NewEvent(answer, invites).answer = answer
           /\ CA!NewEvent(answer, invites).invites = invites
  BY CalendarAssumption DEF CA!NewEvent, CA!Object

(* A new event.                                                            *)
LEMMA CreateKeeps ==
    ASSUME CalInv, NEW r \in Requests, CA!CreateEvent(r) \/ CA!CreateEventByForm(r)
    PROVE  CalInv'
  <1>1. PICK s \in Slots, invites \in BOOLEAN :
           CA!Enter(r, "put", "create", CA!OwnPath(s), CA!NewEvent(None, invites), TRUE)
    BY CalendarAssumption DEF CA!CreateEvent, CA!CreateEventByForm
  <1>2. /\ CA!Version \in 1..MaxVersions /\ CA!Bumped
        /\ UNCHANGED <<cal, told, heard, calExcuse>>
    BY DEF CA!CreateEvent, CA!CreateEventByForm
  <1>3. PICK c \in BOOLEAN : c = ~CA!Busy(s)
    OBVIOUS
  <1>. DEFINE o == CA!NewEvent(None, invites)
              q == [pc |-> "put", op |-> "create", uid |-> s, place |-> CA!OwnPath(s),
                    object |-> o, clean |-> c]
  <1>4. /\ s \in CA!Uids /\ CA!OwnPath(s) \in CA!Places /\ CA!OwnPath(s)[1] = s
        /\ s \notin Meetings
    BY PlacesKnown, UidsDiffer DEF CA!Uids
  <1>5. o \in CA!Object /\ o # None /\ o.event = CA!Version
    BY <1>2, NewEventIs
  <1>6. /\ calReq[r] = None
        /\ calReq' = [p \in Requests |->
                        IF p = r THEN q
                        ELSE IF On(p, s) THEN [calReq[p] EXCEPT !.clean = FALSE]
                        ELSE calReq[p]]
    BY <1>1, <1>3, <1>4 DEF CA!Enter, CA!UidOf, On
  <1>7. c => \A p \in Requests : ~On(p, s)
    BY <1>3 DEF CA!Busy, CA!UidOf, On
  <1>. HIDE DEF o
  <1>8. q \in CA!Request /\ ShapeOf(q) /\ q.uid = s /\ q.clean = c /\ q.pc = "put" /\ q.object = o
    BY <1>4, <1>5 DEF CA!Request, ShapeOf
  <1>. HIDE DEF q
  <1>9. /\ calCount' \in [versions : Nat, requests : Nat, others : Nat]
        /\ calCount'.versions \in 0..MaxVersions /\ calCount.versions \in Nat
        /\ calCount'.versions = calCount.versions + 1 /\ o.event = calCount.versions + 1
    BY <1>2, <1>5, CountsKnown
  <1>10. calCount'.versions >= calCount.versions
    BY <1>9
  <1>. QED
    BY <1>2, <1>4, <1>6, <1>7, <1>8, <1>9, <1>10, EnterKeeps

LEMMA UpdateKeeps ==
    ASSUME CalInv, NEW r \in Requests, CA!UpdateEvent(r)
    PROVE  CalInv'
  <1>1. PICK p \in CA!Places, named \in BOOLEAN, invites \in BOOLEAN :
           /\ cal[p] # None
           /\ CA!Enter(r, "put", "update", IF named THEN p ELSE CA!OwnPath(p[1]),
                       CA!Edited(p, invites), p[1] \in Slots)
    BY DEF CA!UpdateEvent
  <1>2. PICK place \in CA!Places : /\ place = IF named THEN p ELSE CA!OwnPath(p[1])
                                   /\ place[1] = p[1]
    BY PlacesKnown
  <1>3. PICK c \in BOOLEAN : c = (p[1] \in Slots /\ ~CA!Busy(p[1]))
    OBVIOUS
  <1>4. /\ CA!Version \in 1..MaxVersions /\ CA!Bumped
        /\ UNCHANGED <<cal, told, heard, calExcuse>>
    BY DEF CA!UpdateEvent
  <1>. DEFINE u == p[1]
              o == CA!Edited(p, invites)
              q == [pc |-> "put", op |-> "update", uid |-> u, place |-> place,
                    object |-> o, clean |-> c]
  <1>5. u \in CA!Uids
    BY PlacesKnown
  <1>6. o \in CA!Object /\ o # None /\ o.event = cal[p].event
    <2>1. PICK b \in CA!Object : b = cal[p]
      BY <1>1, StoredKnown
    <2>. QED
      BY <1>4, <2>1, CalendarAssumption DEF CA!Edited, CA!Object
  <1>7. u \in Slots => place = CA!OwnPath(u)
    <2>1. u \in Slots => cal[<<u, "other">>] = None
      BY <1>5 DEF CalInv, UidInv, InviteInv
    <2>. QED
      BY <1>1, <1>2, <2>1, PlacesKnown
  <1>8. /\ calReq[r] = None
        /\ calReq' = [k \in Requests |->
                        IF k = r THEN q
                        ELSE IF On(k, u) THEN [calReq[k] EXCEPT !.clean = FALSE]
                        ELSE calReq[k]]
    BY <1>1, <1>2, <1>3 DEF CA!Enter, CA!UidOf, On
  <1>9. c => \A k \in Requests : ~On(k, u)
    BY <1>3 DEF CA!Busy, CA!UidOf, On
  <1>10. HasEvent(u, o.event)
    BY <1>1, <1>6, StoredKnown
  <1>. HIDE DEF o
  <1>11. /\ q \in CA!Request /\ ShapeOf(q) /\ q.uid = u /\ q.clean = c /\ q.pc = "put"
         /\ q.object = o
    BY <1>2, <1>3, <1>5, <1>6, <1>7, UidsDiffer DEF CA!Request, ShapeOf
  <1>. HIDE DEF q
  <1>12. /\ calCount' \in [versions : Nat, requests : Nat, others : Nat]
         /\ calCount'.versions \in 0..MaxVersions /\ calCount'.versions >= calCount.versions
    BY <1>4, CountsKnown
  <1>13. c /\ u \in Meetings => FALSE
    BY <1>3, <1>5, UidsDiffer
  <1>. HIDE DEF u
  <1>. QED
    BY <1>4, <1>8, <1>9, <1>10, <1>11, <1>12, <1>13, EnterKeeps

LEMMA DeleteKeeps ==
    ASSUME CalInv, NEW r \in Requests, CA!DeleteEvent(r) \/ CA!RSVPByForm(r)
    PROVE  CalInv'
  <1>1. PICK u \in CA!Uids, pc \in {"find", "form"}, op \in {"delete"} \cup CA!Answers :
           /\ CA!Enter(r, pc, op, CA!OwnPath(u), None, FALSE)
           /\ pc = "form" => op \in CA!Answers
    <2>1. CASE CA!DeleteEvent(r)
      BY <2>1, PlacesKnown DEF CA!DeleteEvent
    <2>2. CASE CA!RSVPByForm(r)
      <3>1. PICK m \in Meetings, op \in CA!Answers :
               CA!Enter(r, "form", op, CA!OwnPath(m), None, FALSE)
        BY <2>2 DEF CA!RSVPByForm
      <3>. QED
        BY <3>1 DEF CA!Uids
    <2>. QED
      BY <2>1, <2>2
  <1>2. /\ UNCHANGED <<cal, told, heard, calExcuse>>
        /\ calCount' = [calCount EXCEPT !.requests = @ + 1]
    BY DEF CA!DeleteEvent, CA!RSVPByForm
  <1>. DEFINE q == [pc |-> pc, op |-> op, uid |-> u, place |-> CA!OwnPath(u),
                    object |-> None, clean |-> FALSE]
  <1>3. CA!OwnPath(u) \in CA!Places /\ CA!OwnPath(u)[1] = u
    BY PlacesKnown
  <1>4. /\ calReq[r] = None
        /\ calReq' = [k \in Requests |->
                        IF k = r THEN q
                        ELSE IF On(k, u) THEN [calReq[k] EXCEPT !.clean = FALSE]
                        ELSE calReq[k]]
    BY <1>1, <1>3 DEF CA!Enter, CA!UidOf, On
  <1>5. q \in CA!Request /\ ShapeOf(q) /\ q.uid = u /\ q.clean = FALSE /\ q.object = None
    BY <1>1, <1>3 DEF CA!Request, ShapeOf
  <1>. HIDE DEF q
  <1>6. /\ calCount' \in [versions : Nat, requests : Nat, others : Nat]
        /\ calCount'.versions \in 0..MaxVersions /\ calCount'.versions >= calCount.versions
    BY <1>2, CountsKnown
  <1>. QED
    BY <1>2, <1>4, <1>5, <1>6, EnterKeeps

LEMMA RSVPKeeps ==
    ASSUME CalInv, NEW r \in Requests, CA!RSVP(r)
    PROVE  CalInv'
  <1>1. PICK m \in Meetings, op \in CA!Answers, organizer \in BOOLEAN :
           CA!Enter(r, IF organizer THEN "reply" ELSE CA!AfterReply(op), op, CA!OwnPath(m),
                    IF op = "decline" THEN None ELSE CA!NewEvent(CA!PartStat(op), FALSE),
                    organizer)
    BY DEF CA!RSVP
  <1>2. /\ CA!Version \in 1..MaxVersions /\ CA!Bumped
        /\ UNCHANGED <<cal, told, heard, calExcuse>>
    BY DEF CA!RSVP
  <1>3. PICK c \in BOOLEAN : c = (organizer /\ ~CA!Busy(m))
    OBVIOUS
  <1>4. PICK pc \in {"reply", "find", "put"} :
           /\ pc = IF organizer THEN "reply" ELSE CA!AfterReply(op)
           /\ organizer => pc = "reply"
           /\ pc = "put" => op # "decline"
    BY DEF CA!AfterReply
  <1>5. PICK o \in CA!Object \cup {None} :
           /\ o = IF op = "decline" THEN None ELSE CA!NewEvent(CA!PartStat(op), FALSE)
           /\ op = "decline" => o = None
           /\ op # "decline" => /\ o # None /\ o.event = CA!Version
                                /\ o.answer = CA!PartStat(op) /\ ~o.invites
    BY <1>2, NewEventIs, PartStatIs DEF CA!Answers
  <1>. DEFINE q == [pc |-> pc, op |-> op, uid |-> m, place |-> CA!OwnPath(m),
                    object |-> o, clean |-> c]
  <1>6. /\ CA!OwnPath(m) \in CA!Places /\ CA!OwnPath(m)[1] = m /\ m \in CA!Uids
        /\ m \notin Slots
    BY PlacesKnown, CalendarAssumption DEF CA!Uids
  <1>7. /\ calReq[r] = None
        /\ calReq' = [k \in Requests |->
                        IF k = r THEN q
                        ELSE IF On(k, m) THEN [calReq[k] EXCEPT !.clean = FALSE]
                        ELSE calReq[k]]
    BY <1>1, <1>3, <1>4, <1>5, <1>6 DEF CA!Enter, CA!UidOf, On
  <1>8. c => (pc = "reply" /\ \A k \in Requests : ~On(k, m))
    BY <1>3, <1>4 DEF CA!Busy, CA!UidOf, On
  <1>9. /\ q \in CA!Request /\ q.uid = m /\ q.clean = c /\ q.object = o /\ q.pc = pc
        /\ q.op = op /\ q.place = CA!OwnPath(m)
    BY <1>6 DEF CA!Request
  <1>. HIDE DEF q
  <1>10. ShapeOf(q)
    BY <1>4, <1>5, <1>6, <1>8, <1>9 DEF ShapeOf, CA!Answers
  <1>11. /\ calCount' \in [versions : Nat, requests : Nat, others : Nat]
         /\ calCount'.versions \in 0..MaxVersions /\ calCount'.versions >= calCount.versions
         /\ calCount'.versions = calCount.versions + 1 /\ CA!Version = calCount.versions + 1
    BY <1>2, CountsKnown
  <1>12. q.object # None => /\ q.object.event = calCount.versions + 1
                            /\ calCount'.versions = calCount.versions + 1
    BY <1>5, <1>9, <1>11
  <1>. QED
    BY <1>2, <1>6, <1>7, <1>8, <1>9, <1>10, <1>11, <1>12, EnterKeeps
-----------------------------------------------------------------------------

(* After a step of a clean request its UID is its own, or nobody's.        *)
LEMMA CleanAlone ==
    ASSUME CalInv, NEW r \in Requests, calReq[r] # None, calReq[r].clean,
           NEW u, u = calReq[r].uid,
           \A p \in Requests \ {r} : calReq'[p] = calReq[p]
    PROVE  \A p \in Requests : (On(p, u) => p = r) /\ (On(p, u)' => p = r)
  <1>1. u \in CA!Uids /\ On(r, u)
    BY CalendarRequestKnown
  <1>2. \A p \in Requests : On(p, u) => p = r
    BY <1>1 DEF CalInv, UidInv, Alone
  <1>. QED
    BY <1>2 DEF On

(* A clean request that ends.                                              *)
LEMMA CleanGone ==
    ASSUME CalInv, NEW r \in Requests, calReq[r] # None, calReq[r].clean,
           NEW u, u = calReq[r].uid, calReq' = [calReq EXCEPT ![r] = None]
    PROVE  \A p \in Requests : (On(p, u) => p = r) /\ ~On(p, u)'
  <1>1. calReq'[r] = None /\ \A p \in Requests \ {r} : calReq'[p] = calReq[p]
    BY DEF CalInv, CalendarTypes
  <1>. QED
    BY <1>1, CleanAlone DEF On

(* What a request leaves of the excuses for other UIDs.                    *)
LEMMA ExcusesIs ==
    ASSUME NEW r \in Requests,
           CA!Settled(r) \/ CA!Left(r) \/ CA!Spoilt(r) \/ UNCHANGED calExcuse
    PROVE  /\ \A v \in CA!Uids \ {calReq[r].uid} : v \in calExcuse => v \in calExcuse'
           /\ ~calReq[r].clean =>
                 calReq[r].uid \in calExcuse' \/ UNCHANGED calExcuse
  BY DEF CA!Settled, CA!Left, CA!Spoilt, CA!UidOf

(* A request that ends without a change to the calendar or a message.      *)
LEMMA QuietEnd ==
    ASSUME CalInv, NEW r \in Requests, calReq[r] # None, CA!Stop(r),
           CA!Left(r) \/ CA!Spoilt(r), UNCHANGED <<cal, told, heard, calCount>>,
           \/ CA!Spoilt(r) \/ ~calReq[r].clean
           \/ calReq[r].uid \in Meetings /\ calReq[r].pc = "reply"
           \/ calReq[r].uid \in Slots /\ calReq[r].pc = "put"
    PROVE  CalInv'
  <1>0. PICK u \in CA!Uids : u = calReq[r].uid /\ On(r, u)
    BY CalendarRequestKnown
  <1>1. calReq' = [calReq EXCEPT ![r] = None]
    BY DEF CA!Stop
  <1>a. /\ told' \in [Meetings -> {"ACCEPTED", "TENTATIVE", "DECLINED", None}]
        /\ cal' \in [CA!Places -> CA!Object \cup {None}]
        /\ heard' \in [1..MaxVersions -> 0..MaxVersions]
    BY DEF CalInv, CalendarTypes
  <1>2. \A v \in CA!Uids \ {u} : v \in calExcuse => v \in calExcuse'
    BY <1>0, ExcusesIs
  <1>3. UidInv(u)
    BY DEF CalInv
  <1>4. CASE ~calReq[r].clean
    <2>1. u \in calExcuse'
      BY <1>0, <1>4 DEF CA!Left, CA!Spoilt, CA!UidOf
    <2>2. AnswerInv(u)' /\ (cal'[<<u, "other">>] = None => InviteInv(u)')
      BY <1>0, <1>1, <1>4, <2>1, UncleanPromises
    <2>3. u \in Slots => cal'[<<u, "other">>] = None
      BY <1>3 DEF UidInv, InviteInv
    <2>4. (u \in Meetings => AnswerInv(u)') /\ (u \in Slots => InviteInv(u)')
      BY <2>2, <2>3
    <2>. QED
      BY <1>0, <1>1, <1>2, <1>a, <2>4, StepKeeps
  <1>5. CASE calReq[r].clean
    <2>1. /\ \A p \in Requests : On(p, u) => p = r
          /\ \A p \in Requests : ~On(p, u)'
      BY <1>0, <1>1, <1>5, CleanGone
    <2>2. u \in calExcuse' \/ (UNCHANGED calExcuse /\
             ((u \in Meetings /\ calReq[r].pc = "reply") \/ (u \in Slots /\ calReq[r].pc = "put")))
      BY <1>0, <1>5 DEF CA!Left, CA!Spoilt, CA!UidOf
    <2>3. ASSUME u \in Meetings PROVE AnswerInv(u)'
      <3>1. u \notin Slots
        BY <2>3, UidsDiffer
      <3>. QED
        BY <1>3, <1>5, <2>1, <2>2, <2>3, <3>1 DEF UidInv, AnswerInv, CA!Answer
    <2>4. ASSUME u \in Slots PROVE InviteInv(u)'
      <3>1. u \notin Meetings
        BY <2>4, UidsDiffer
      <3>. QED
        BY <1>3, <1>5, <2>1, <2>2, <2>4, <3>1 DEF UidInv, InviteInv
    <2>. QED
      BY <1>0, <1>1, <1>2, <1>a, <2>3, <2>4, StepKeeps
  <1>. QED
    BY <1>4, <1>5

(* What the calendar and the records of what was said hold.                *)
LEMMA HoldsTypes ==
    ASSUME CalInv
    PROVE  /\ told \in [Meetings -> {"ACCEPTED", "TENTATIVE", "DECLINED", None}]
           /\ cal \in [CA!Places -> CA!Object \cup {None}]
           /\ heard \in [1..MaxVersions -> 0..MaxVersions]
           /\ \A s \in Slots : cal[<<s, "other">>] = None
  BY DEF CalInv, CalendarTypes, UidInv, InviteInv, CA!Uids

(* A reply that has been sent.                                             *)
LEMMA ToldIs ==
    ASSUME CalInv, NEW r \in Requests, calReq[r] # None, CA!Told(r),
           calReq[r].op \in CA!Answers
    PROVE  /\ told' \in [Meetings -> {"ACCEPTED", "TENTATIVE", "DECLINED", None}]
           /\ \A m \in Meetings \ {calReq[r].uid} : told'[m] = told[m]
           /\ calReq[r].uid \in Meetings =>
                 told'[calReq[r].uid] = CA!PartStat(calReq[r].op)
  <1>1. CA!PartStat(calReq[r].op) \in {"ACCEPTED", "TENTATIVE", "DECLINED", None}
    BY PartStatIs DEF CA!Answers
  <1>. QED
    BY <1>1, HoldsTypes DEF CA!Told, CA!UidOf

LEMMA ReplyKeeps ==
    ASSUME CalInv, NEW r \in Requests, CA!Reply(r)
    PROVE  CalInv'
  <1>1. calReq[r] # None /\ calReq[r].pc = "reply"
    BY DEF CA!Reply, CA!At
  <1>2. PICK k \in CA!Request : k = calReq[r] /\ ShapeOf(k)
    BY <1>1, CalendarRequestKnown
  <1>3. PICK u \in CA!Uids : u = k.uid /\ On(r, u)
    BY <1>1, <1>2, CalendarRequestKnown
  <1>4. /\ k.op \in CA!Answers /\ (k.op # "decline" => k.object # None)
        /\ k.clean => u \in Meetings /\ u \notin Slots
    BY <1>1, <1>2, <1>3, UidsDiffer DEF ShapeOf
  <1>5. UNCHANGED <<cal, heard, calCount>>
    BY DEF CA!Reply
  <1>6. CASE CA!Stop(r) /\ CA!Left(r) /\ UNCHANGED told
    BY <1>1, <1>2, <1>3, <1>4, <1>5, <1>6, QuietEnd
  <1>7. ASSUME NEW q \in CA!Request \cup {None}, CA!Told(r),
               calReq' = [calReq EXCEPT ![r] = q],
               q # None => /\ ShapeOf(q) /\ q.uid = u /\ q.clean = k.clean
                           /\ q.object = k.object /\ q.op = k.op /\ q.pc # "reply",
               q = None => u \in calExcuse',
               \A v \in CA!Uids \ {u} : v \in calExcuse => v \in calExcuse'
        PROVE  CalInv'
    <2>1. /\ told' \in [Meetings -> {"ACCEPTED", "TENTATIVE", "DECLINED", None}]
          /\ \A m \in Meetings \ {u} : told'[m] = told[m]
          /\ u \in Meetings => told'[u] = CA!PartStat(k.op)
      BY <1>1, <1>2, <1>3, <1>4, <1>7, ToldIs
    <2>2. u \in Slots => cal'[<<u, "other">>] = None
      BY <1>5, HoldsTypes
    <2>3. (u \in Meetings => AnswerInv(u)') /\ (u \in Slots => InviteInv(u)')
      <3>1. CASE ~k.clean
        <4>1. AnswerInv(u)' /\ (cal'[<<u, "other">>] = None => InviteInv(u)')
          BY <1>1, <1>2, <1>3, <1>7, <3>1, UncleanPromises
        <4>. QED
          BY <2>2, <4>1
      <3>2. CASE k.clean
        <4>0. /\ calReq[r] # None /\ calReq[r].clean /\ u = calReq[r].uid
              /\ calReq' = [calReq EXCEPT ![r] = q]
          BY <1>1, <1>2, <1>3, <1>7, <3>2
        <4>a. calReq'[r] = q /\ \A p \in Requests \ {r} : calReq'[p] = calReq[p]
          BY <4>0 DEF CalInv, CalendarTypes
        <4>b. \A p \in Requests : On(p, u)' => p = r
          BY <4>0, <4>a, CleanAlone
        <4>1. \A p \in Requests : On(p, u)' => p = r /\ q # None /\ calReq'[p] = q
          BY <4>a, <4>b DEF On
        <4>2. u \in calExcuse' \/ (q # None /\ On(r, u)' /\ calReq'[r] = q)
          BY <1>7 DEF On, CalInv, CalendarTypes
        <4>3. \A p \in Requests : On(p, u)' =>
                 calReq'[p].op = k.op /\ calReq'[p].pc # "reply"
          BY <1>7, <4>1
        <4>4. u \in calExcuse' \/ \E p \in Requests : On(p, u)' /\ calReq'[p].pc # "reply"
          BY <4>2, <4>3
        <4>5. u \in Meetings /\ told'[u] = CA!PartStat(k.op)
          BY <1>4, <2>1, <3>2
        <4>6. AnswerInv(u)'
          BY <4>3, <4>4, <4>5 DEF AnswerInv
        <4>. QED
          BY <1>4, <3>2, <4>6
      <3>. QED
        BY <3>1, <3>2
    <2>. QED
      BY <1>1, <1>2, <1>3, <1>5, <1>7, <2>1, <2>3, HoldsTypes, StepKeeps
  <1>8. CASE CA!Told(r) /\ CA!Continue(r, CA!AfterReply(k.op)) /\ UNCHANGED calExcuse
    <2>1. PICK pc \in {"find", "put"} : /\ pc = CA!AfterReply(k.op)
                                        /\ pc = "find" <=> k.op = "decline"
      BY DEF CA!AfterReply
    <2>. DEFINE q == [k EXCEPT !.pc = pc]
    <2>2. /\ q \in CA!Request /\ q.pc = pc /\ q.uid = u /\ q.clean = k.clean
          /\ q.object = k.object /\ q.op = k.op /\ q.place = k.place
      BY <1>2, <1>3 DEF CA!Request
    <2>3. calReq' = [calReq EXCEPT ![r] = q]
      BY <1>2, <1>8, <2>1 DEF CA!Continue
    <2>. HIDE DEF q
    <2>4. ShapeOf(q)
      BY <1>1, <1>2, <1>3, <1>4, <2>1, <2>2 DEF ShapeOf
    <2>. QED
      BY <1>7, <1>8, <2>1, <2>2, <2>3, <2>4, CalendarAssumption
  <1>9. CASE CA!Told(r) /\ CA!Stop(r) /\ CA!Spoilt(r)
    BY <1>2, <1>3, <1>7, <1>9 DEF CA!Stop, CA!Spoilt, CA!UidOf
  <1>. QED
    BY <1>2, <1>6, <1>8, <1>9 DEF CA!Reply

LEMMA ReplyByFormKeeps ==
    ASSUME CalInv, NEW r \in Requests, CA!ReplyByForm(r)
    PROVE  CalInv'
  <1>1. calReq[r] # None /\ calReq[r].pc = "form"
    BY DEF CA!ReplyByForm, CA!At
  <1>2. PICK k \in CA!Request : k = calReq[r] /\ ShapeOf(k)
    BY <1>1, CalendarRequestKnown
  <1>3. PICK u \in CA!Uids : u = k.uid /\ On(r, u)
    BY <1>1, <1>2, CalendarRequestKnown
  <1>4. ~k.clean
    BY <1>1, <1>2, <1>3, UidsDiffer DEF ShapeOf
  <1>5. UNCHANGED <<cal, heard, calCount>> /\ calReq' = [calReq EXCEPT ![r] = None]
    BY DEF CA!ReplyByForm, CA!Stop
  <1>6. u \in calExcuse' /\ \A v \in CA!Uids \ {u} : v \in calExcuse => v \in calExcuse'
    BY <1>2, <1>3, <1>4 DEF CA!ReplyByForm, CA!Left, CA!Spoilt, CA!UidOf
  <1>7. /\ told' \in [Meetings -> {"ACCEPTED", "TENTATIVE", "DECLINED", None}]
        /\ \A m \in Meetings \ {u} : told'[m] = told[m]
    <2>1. CASE UNCHANGED told
      BY <2>1, HoldsTypes
    <2>2. CASE CA!Told(r)
      <3>1. k.op \in CA!Answers
        BY <1>1, <1>2 DEF ShapeOf
      <3>. QED
        BY <1>1, <1>2, <1>3, <2>2, <3>1, ToldIs
    <2>. QED
      BY <2>1, <2>2 DEF CA!ReplyByForm
  <1>8. AnswerInv(u)' /\ (cal'[<<u, "other">>] = None => InviteInv(u)')
    BY <1>1, <1>2, <1>3, <1>4, <1>5, <1>6, UncleanPromises
  <1>9. (u \in Meetings => AnswerInv(u)') /\ (u \in Slots => InviteInv(u)')
    BY <1>5, <1>8, HoldsTypes
  <1>. QED
    BY <1>1, <1>2, <1>3, <1>5, <1>6, <1>7, <1>9, HoldsTypes, StepKeeps

(* A PUT that took effect although it was answered with an error: nothing  *)
(* goes out, and the UID is excused.                                       *)
LEMMA LostAnswerKeeps ==
    ASSUME CalInv, NEW r \in Requests, calReq[r] # None, calReq[r].pc = "put",
           CA!Stop(r), CA!Spoilt(r), UNCHANGED <<told, heard, calCount>>,
           cal' = [cal EXCEPT ![calReq[r].place] = calReq[r].object]
    PROVE  CalInv'
  <1>1. PICK k \in CA!Request : k = calReq[r] /\ ShapeOf(k)
    BY CalendarRequestKnown
  <1>2. PICK u \in CA!Uids : u = k.uid /\ On(r, u)
    BY <1>1, CalendarRequestKnown
  <1>3. PICK o \in CA!Object : o = k.object
    BY <1>1 DEF ShapeOf, CA!Request
  <1>4. k.place \in CA!Places /\ k.place[1] = u /\ (u \in Slots => k.place = CA!OwnPath(u))
    BY <1>1, <1>2 DEF ShapeOf, CA!Request
  <1>5. /\ cal' \in [CA!Places -> CA!Object \cup {None}] /\ cal'[k.place] = o
        /\ \A p \in CA!Places : p # k.place => cal'[p] = cal[p]
    BY <1>1, <1>3, <1>4, HoldsTypes
  <1>6. u \in Slots => cal'[<<u, "other">>] = None
    BY <1>4, <1>5, HoldsTypes, PlacesKnown
  <1>7. /\ calReq' = [calReq EXCEPT ![r] = None] /\ u \in calExcuse'
        /\ \A v \in CA!Uids \ {u} : v \in calExcuse => v \in calExcuse'
    BY <1>1, <1>2, ExcusesIs DEF CA!Stop, CA!Spoilt, CA!UidOf
  <1>8. (u \in Meetings => AnswerInv(u)') /\ (u \in Slots => InviteInv(u)')
    <2>1. CASE k.clean
      <3>1. \A p \in Requests : ~On(p, u)'
        BY <1>1, <1>2, <1>7, <2>1, CleanGone
      <3>. QED
        BY <1>6, <1>7, <3>1 DEF AnswerInv, InviteInv
    <2>2. CASE ~k.clean
      <3>1. AnswerInv(u)' /\ (cal'[<<u, "other">>] = None => InviteInv(u)')
        BY <1>1, <1>2, <1>7, <2>2, UncleanPromises
      <3>. QED
        BY <1>6, <3>1
    <2>. QED
      BY <2>1, <2>2
  <1>9. /\ \A p \in CA!Places : p[1] # u => cal'[p] = cal[p]
        /\ \A p \in CA!Places : cal'[p] # None => cal'[p] \in {cal[p], calReq[r].object}
    BY <1>1, <1>3, <1>4, <1>5
  <1>. QED
    BY <1>1, <1>2, <1>5, <1>7, <1>8, <1>9, HoldsTypes, StepKeeps

LEMMA FailsKeeps ==
    ASSUME CalInv, NEW r \in Requests, CA!PutFails(r) \/ CA!RemoveFails(r)
    PROVE  CalInv'
  <1>1. calReq[r] # None /\ calReq[r].pc \in {"put", "find", "remove"}
    BY DEF CA!PutFails, CA!RemoveFails, CA!At
  <1>2. ShapeOf(calReq[r]) /\ calReq[r].uid \in CA!Uids
    BY <1>1, CalendarRequestKnown
  <1>3. CASE UNCHANGED cal
    <2>1. /\ CA!Stop(r) /\ UNCHANGED <<cal, told, heard, calCount>>
          /\ \/ CA!Spoilt(r)
             \/ CA!Left(r) /\ calReq[r].op \notin CA!Answers /\ calReq[r].pc = "put"
             \/ CA!Left(r) /\ calReq[r].op # "decline" /\ calReq[r].pc # "put"
      BY <1>3 DEF CA!PutFails, CA!RemoveFails, CA!At
    <2>2. \/ CA!Spoilt(r) \/ ~calReq[r].clean
          \/ calReq[r].uid \in Slots /\ calReq[r].pc = "put"
      BY <1>1, <1>2, <2>1, UidsDiffer DEF ShapeOf
    <2>. QED
      BY <1>1, <2>1, <2>2, QuietEnd
  <1>4. CASE ~UNCHANGED cal
    <2>1. /\ calReq[r].pc = "put" /\ CA!Stop(r) /\ CA!Spoilt(r)
          /\ UNCHANGED <<told, heard, calCount>>
          /\ cal' = [cal EXCEPT ![calReq[r].place] = calReq[r].object]
      BY <1>4 DEF CA!PutFails, CA!RemoveFails, CA!At
    <2>. QED
      BY <1>1, <2>1, LostAnswerKeeps
  <1>. QED
    BY <1>3, <1>4

LEMMA PutKeeps ==
    ASSUME CalInv, NEW r \in Requests, CA!Put(r)
    PROVE  CalInv'
  <1>1. calReq[r] # None /\ calReq[r].pc = "put"
    BY DEF CA!Put, CA!At
  <1>2. PICK k \in CA!Request : k = calReq[r] /\ ShapeOf(k)
    BY <1>1, CalendarRequestKnown
  <1>3. PICK u \in CA!Uids : u = k.uid /\ On(r, u)
    BY <1>1, <1>2, CalendarRequestKnown
  <1>4. PICK o \in CA!Object : o = k.object /\ o # None
    BY <1>1, <1>2 DEF ShapeOf, CA!Request
  <1>5. k.place \in CA!Places /\ k.place[1] = u /\ (u \in Slots => k.place = CA!OwnPath(u))
    BY <1>2, <1>3 DEF ShapeOf, CA!Request
  <1>6. /\ cal' = [cal EXCEPT ![k.place] = o] /\ UNCHANGED <<told, heard, calCount>>
        /\ IF o.invites
           THEN CA!Continue(r, "mail") /\ UNCHANGED calExcuse
           ELSE /\ CA!Stop(r)
                /\ CA!Left(r) \/ CA!Settled(r)
                /\ k.op # "update" => CA!Settled(r)
    BY <1>2, <1>4 DEF CA!Put
  <1>7. PICK q \in CA!Request \cup {None} :
           /\ calReq' = [calReq EXCEPT ![r] = q]
           /\ o.invites => /\ q # None /\ ShapeOf(q) /\ q.uid = u /\ q.clean = k.clean
                           /\ q.object = o /\ q.pc = "mail"
           /\ ~o.invites => q = None
    <2>1. CASE o.invites
      <3>. DEFINE q == [k EXCEPT !.pc = "mail"]
      <3>1. /\ q \in CA!Request /\ q.uid = u /\ q.clean = k.clean /\ q.object = o
            /\ q.pc = "mail" /\ q.op = k.op /\ q.place = k.place
        BY <1>2, <1>3, <1>4 DEF CA!Request
      <3>2. calReq' = [calReq EXCEPT ![r] = q]
        BY <1>2, <1>6, <2>1 DEF CA!Continue
      <3>. HIDE DEF q
      <3>3. ShapeOf(q)
        BY <1>1, <1>2, <1>3, <1>4, <2>1, <3>1 DEF ShapeOf
      <3>. QED
        BY <2>1, <3>1, <3>2, <3>3, CalendarAssumption
    <2>2. CASE ~o.invites
      BY <1>6, <2>2 DEF CA!Stop
    <2>. QED
      BY <2>1, <2>2
  <1>8. /\ cal' \in [CA!Places -> CA!Object \cup {None}] /\ cal'[k.place] = o
        /\ \A p \in CA!Places : p # k.place => cal'[p] = cal[p]
    BY <1>5, <1>6, HoldsTypes
  <1>9. u \in Slots => cal'[<<u, "other">>] = None
    BY <1>5, <1>8, HoldsTypes, PlacesKnown
  <1>10. \A v \in CA!Uids \ {u} : v \in calExcuse => v \in calExcuse'
    BY <1>2, <1>3, <1>6, ExcusesIs
  <1>11. (u \in Meetings => AnswerInv(u)') /\ (u \in Slots => InviteInv(u)')
    <2>1. CASE ~k.clean
      <3>1. q = None => u \in calExcuse'
        BY <1>2, <1>3, <1>6, <1>7, <2>1 DEF CA!Left, CA!Settled, CA!UidOf
      <3>2. AnswerInv(u)' /\ (cal'[<<u, "other">>] = None => InviteInv(u)')
        BY <1>1, <1>2, <1>3, <1>7, <2>1, <3>1, UncleanPromises
      <3>. QED
        BY <1>9, <3>2
    <2>2. CASE k.clean
      <3>0. /\ calReq[r].clean /\ u = calReq[r].uid
        BY <1>2, <1>3, <2>2
      <3>a. calReq'[r] = q /\ \A p \in Requests \ {r} : calReq'[p] = calReq[p]
        BY <1>7 DEF CalInv, CalendarTypes
      <3>b. \A p \in Requests : On(p, u)' => p = r
        BY <1>1, <3>0, <3>a, CleanAlone
      <3>1. \A p \in Requests : On(p, u)' => p = r /\ q # None /\ calReq'[p] = q
        BY <3>a, <3>b DEF On
      <3>2. ASSUME u \in Meetings PROVE AnswerInv(u)'
        <4>1. /\ ~o.invites /\ o.answer = CA!PartStat(k.op) /\ k.place = CA!OwnPath(u)
              /\ k.op # "update"
          BY <1>1, <1>2, <1>3, <1>4, <2>2, <3>2 DEF ShapeOf, CA!Answers
        <4>2. told[u] = CA!PartStat(k.op)
          BY <1>1, <1>2, <1>3, <2>2, <3>2 DEF CalInv, UidInv, AnswerInv
        <4>3. CA!Answer(u)' = o.answer
          BY <1>4, <1>8, <4>1 DEF CA!Answer
        <4>4. \A p \in Requests : ~On(p, u)'
          BY <1>7, <3>1, <4>1
        <4>. QED
          BY <1>6, <4>1, <4>2, <4>3, <4>4 DEF AnswerInv
      <3>3. ASSUME u \in Slots PROVE InviteInv(u)'
        <4>1. cal'[CA!OwnPath(u)] = o
          BY <1>5, <1>8, <3>3
        <4>2. o.invites => On(r, u)' /\ calReq'[r].pc # "put"
          BY <1>7 DEF On, CalInv, CalendarTypes
        <4>3. \A p \in Requests : On(p, u)' => calReq'[p].object = o
          BY <1>7, <3>1
        <4>. QED
          BY <1>4, <1>9, <3>3, <4>1, <4>2, <4>3 DEF InviteInv
      <3>. QED
        BY <3>2, <3>3
    <2>. QED
      BY <1>2, <2>1, <2>2
  <1>12. /\ u = calReq[r].uid /\ calReq[r].object = o
         /\ q # None => /\ ShapeOf(q) /\ q.uid = u /\ q.clean = calReq[r].clean
                        /\ q.object = calReq[r].object
    BY <1>2, <1>3, <1>4, <1>7
  <1>13. /\ \A p \in CA!Places : p[1] # u => cal'[p] = cal[p]
         /\ \A p \in CA!Places : cal'[p] # None => cal'[p] \in {cal[p], calReq[r].object}
    BY <1>5, <1>8, <1>12
  <1>14. calReq' = [calReq EXCEPT ![r] = q] /\ UNCHANGED <<told, heard, calCount>>
    BY <1>6, <1>7
  <1>15. /\ told' \in [Meetings -> {"ACCEPTED", "TENTATIVE", "DECLINED", None}]
         /\ heard' \in [1..MaxVersions -> 0..MaxVersions]
         /\ \A e \in 1..MaxVersions : heard'[e] = heard[e]
         /\ \A m \in Meetings : told'[m] = told[m]
    BY <1>14, HoldsTypes
  <1>16. cal' \in [CA!Places -> CA!Object \cup {None}]
    BY <1>8
  <1>. QED
    BY <1>1, <1>10, <1>11, <1>12, <1>13, <1>14, <1>15, <1>16, StepKeeps

LEMMA SendInvitesKeeps ==
    ASSUME CalInv, NEW r \in Requests, CA!SendInvites(r)
    PROVE  CalInv'
  <1>1. calReq[r] # None /\ calReq[r].pc = "mail"
    BY DEF CA!SendInvites, CA!At
  <1>2. PICK k \in CA!Request : k = calReq[r] /\ ShapeOf(k)
    BY <1>1, CalendarRequestKnown
  <1>3. PICK u \in CA!Uids : u = k.uid /\ On(r, u)
    BY <1>1, <1>2, CalendarRequestKnown
  <1>4. PICK o \in CA!Object : o = k.object /\ o # None
    BY <1>1, <1>2 DEF ShapeOf, CA!Request
  <1>5. /\ calReq' = [calReq EXCEPT ![r] = None] /\ UNCHANGED <<cal, told, calCount>>
        /\ \/ heard' = [heard EXCEPT ![o.event] = o.ver] /\ CA!Settled(r)
           \/ CA!Spoilt(r) /\ UNCHANGED heard
    BY <1>2, <1>4 DEF CA!SendInvites, CA!Stop, CA!Invited
  <1>6. /\ o.event \in 1..MaxVersions /\ o.event \in Nat /\ o.ver \in 0..MaxVersions
        /\ HasEvent(u, o.event)
    <2>1. o.event \in 1..MaxVersions /\ o.ver \in 1..MaxVersions
      BY DEF CA!Object
    <2>. QED
      BY <1>2, <1>3, <1>4, <2>1, CalendarAssumption DEF HasEvent
  <1>7. /\ heard' \in [1..MaxVersions -> 0..MaxVersions]
        /\ \A e \in 1..MaxVersions : heard'[e] = heard[e] \/ HasEvent(u, e)
    BY <1>5, <1>6, HoldsTypes
  <1>8. \A v \in CA!Uids \ {u} : v \in calExcuse => v \in calExcuse'
    BY <1>2, <1>3, <1>5, ExcusesIs
  <1>9. (u \in Meetings => AnswerInv(u)') /\ (u \in Slots => InviteInv(u)')
    <2>1. CASE ~k.clean
      <3>1. u \in calExcuse'
        BY <1>2, <1>3, <1>5, <2>1 DEF CA!Spoilt, CA!Settled, CA!UidOf
      <3>2. AnswerInv(u)' /\ (cal'[<<u, "other">>] = None => InviteInv(u)')
        BY <1>1, <1>2, <1>3, <1>5, <2>1, <3>1, UncleanPromises
      <3>. QED
        BY <1>5, <3>2, HoldsTypes
    <2>2. CASE k.clean
      <3>0. calReq[r].clean /\ u = calReq[r].uid
        BY <1>2, <1>3, <2>2
      <3>1. \A p \in Requests : ~On(p, u)'
        BY <1>1, <1>5, <3>0, CleanGone
      <3>2. u \notin Meetings
        BY <1>1, <1>2, <1>3, <2>2 DEF ShapeOf
      <3>3. ASSUME u \in Slots PROVE InviteInv(u)'
        <4>1. /\ cal'[<<u, "other">>] = None
              /\ cal'[CA!OwnPath(u)] \in {None, o}
          BY <1>1, <1>2, <1>3, <1>4, <1>5, <2>2, <3>3 DEF CalInv, UidInv, InviteInv
        <4>2. u \in calExcuse' \/ heard'[o.event] = o.ver
          BY <1>2, <1>3, <1>5, <1>6, HoldsTypes DEF CA!Spoilt, CA!UidOf
        <4>. QED
          BY <3>1, <4>1, <4>2 DEF InviteInv
      <3>. QED
        BY <3>2, <3>3
    <2>. QED
      BY <1>2, <2>1, <2>2
  <1>. QED
    BY <1>1, <1>2, <1>3, <1>5, <1>7, <1>8, <1>9, HoldsTypes, StepKeeps

(* A request that looks for an event, or removes it.                       *)
LEMMA RemoverIs ==
    ASSUME CalInv, NEW r \in Requests, calReq[r] # None,
           calReq[r].pc \in {"find", "remove"},
           NEW u \in CA!Uids, u = calReq[r].uid
    PROVE  calReq[r].clean =>
              /\ u \in Meetings /\ u \notin Slots /\ calReq[r].op = "decline"
              /\ told[u] = "DECLINED"
  <1>. SUFFICES ASSUME calReq[r].clean
                PROVE  /\ u \in Meetings /\ u \notin Slots /\ calReq[r].op = "decline"
                       /\ told[u] = "DECLINED"
    OBVIOUS
  <1>1. ShapeOf(calReq[r]) /\ On(r, u)
    BY CalendarRequestKnown
  <1>2. u \in Meetings /\ u \notin Slots
    BY <1>1, UidsDiffer DEF ShapeOf
  <1>3. calReq[r].op = "decline"
    BY <1>1, <1>2 DEF ShapeOf
  <1>4. told[u] = CA!PartStat("decline")
    BY <1>1, <1>2, <1>3 DEF CalInv, UidInv, AnswerInv
  <1>. QED
    BY <1>2, <1>3, <1>4, PartStatIs

LEMMA FindKeeps ==
    ASSUME CalInv, NEW r \in Requests, CA!Find(r)
    PROVE  CalInv'
  <1>1. calReq[r] # None /\ calReq[r].pc = "find"
    BY DEF CA!Find, CA!At
  <1>2. PICK k \in CA!Request : k = calReq[r] /\ ShapeOf(k)
    BY <1>1, CalendarRequestKnown
  <1>3. PICK u \in CA!Uids : u = k.uid /\ On(r, u)
    BY <1>1, <1>2, CalendarRequestKnown
  <1>4. UNCHANGED <<cal, told, heard, calCount>>
    BY DEF CA!Find
  <1>5. u \in Slots => cal'[<<u, "other">>] = None
    BY <1>4, HoldsTypes
  <1>6. k.clean => /\ u \in Meetings /\ u \notin Slots /\ k.op = "decline"
                   /\ told[u] = "DECLINED"
    BY <1>1, <1>2, <1>3, RemoverIs
  <1>7. CASE CA!ListEvents(u) = {}
    <2>1. /\ calReq' = [calReq EXCEPT ![r] = None]
          /\ IF k.op = "decline" THEN CA!Settled(r) ELSE CA!Left(r)
      BY <1>2, <1>3, <1>7 DEF CA!Find, CA!Stop, CA!UidOf
    <2>2. \A v \in CA!Uids \ {u} : v \in calExcuse => v \in calExcuse'
      BY <1>2, <1>3, <2>1, ExcusesIs
    <2>3. (u \in Meetings => AnswerInv(u)') /\ (u \in Slots => InviteInv(u)')
      <3>1. CASE ~k.clean
        <4>1. u \in calExcuse'
          BY <1>2, <1>3, <2>1, <3>1 DEF CA!Left, CA!Settled, CA!UidOf
        <4>2. AnswerInv(u)' /\ (cal'[<<u, "other">>] = None => InviteInv(u)')
          BY <1>1, <1>2, <1>3, <2>1, <3>1, <4>1, UncleanPromises
        <4>. QED
          BY <1>5, <4>2
      <3>2. CASE k.clean
        <4>0. calReq[r].clean /\ u = calReq[r].uid
          BY <1>2, <1>3, <3>2
        <4>1. \A p \in Requests : ~On(p, u)'
          BY <1>1, <2>1, <4>0, CleanGone
        <4>2. cal[CA!OwnPath(u)] = None
          BY <1>7, PlacesKnown DEF CA!ListEvents
        <4>3. CA!Answer(u)' = "DECLINED"
          BY <1>4, <4>2 DEF CA!Answer
        <4>4. AnswerInv(u)'
          BY <1>4, <1>6, <3>2, <4>1, <4>3 DEF AnswerInv
        <4>. QED
          BY <1>6, <3>2, <4>4
      <3>. QED
        BY <1>2, <3>1, <3>2
    <2>. QED
      BY <1>1, <1>2, <1>3, <1>4, <2>1, <2>2, <2>3, HoldsTypes, StepKeeps
  <1>8. CASE CA!ListEvents(u) # {}
    <2>1. PICK p \in CA!ListEvents(u) :
             calReq' = [calReq EXCEPT ![r].pc = "remove", ![r].place = p]
      BY <1>2, <1>3, <1>8 DEF CA!Find, CA!UidOf
    <2>2. UNCHANGED calExcuse
      BY <1>2, <1>3, <1>8 DEF CA!Find, CA!UidOf
    <2>3. p \in CA!Places /\ p[1] = u /\ cal[p] # None
      BY DEF CA!ListEvents
    <2>. DEFINE q == [k EXCEPT !.pc = "remove", !.place = p]
    <2>4. /\ q \in CA!Request /\ q.pc = "remove" /\ q.uid = u /\ q.clean = k.clean
          /\ q.object = k.object /\ q.op = k.op /\ q.place = p
      BY <1>2, <1>3, <2>3 DEF CA!Request
    <2>5. calReq' = [calReq EXCEPT ![r] = q]
      BY <1>2, <2>1
    <2>. HIDE DEF q
    <2>6. u \in Slots => p = CA!OwnPath(u)
      BY <2>3, HoldsTypes, PlacesKnown
    <2>7. ShapeOf(q)
      BY <1>2, <1>3, <1>6, <2>3, <2>4, <2>6 DEF ShapeOf, CA!Answers
    <2>8. (u \in Meetings => AnswerInv(u)') /\ (u \in Slots => InviteInv(u)')
      <3>1. CASE ~k.clean
        <4>1. AnswerInv(u)' /\ (cal'[<<u, "other">>] = None => InviteInv(u)')
          BY <1>1, <1>2, <1>3, <2>4, <2>5, <3>1, CalendarAssumption, UncleanPromises
        <4>. QED
          BY <1>5, <4>1
      <3>2. CASE k.clean
        <4>0. calReq[r].clean /\ u = calReq[r].uid
          BY <1>2, <1>3, <3>2
        <4>a. calReq'[r] = q /\ \A j \in Requests \ {r} : calReq'[j] = calReq[j]
          BY <2>5 DEF CalInv, CalendarTypes
        <4>b. \A j \in Requests : On(j, u)' => j = r
          BY <1>1, <4>0, <4>a, CleanAlone
        <4>1. \A j \in Requests : On(j, u)' => j = r /\ q # None /\ calReq'[j] = q
          BY <4>a, <4>b DEF On
        <4>2. On(r, u)' /\ calReq'[r].pc # "reply"
          BY <2>4, <2>5, CalendarAssumption DEF On, CalInv, CalendarTypes
        <4>3. \A j \in Requests : On(j, u)' => calReq'[j].op = "decline"
          BY <1>6, <2>4, <3>2, <4>1
        <4>4. AnswerInv(u)'
          BY <1>4, <1>6, <3>2, <4>2, <4>3, PartStatIs DEF AnswerInv
        <4>. QED
          BY <1>6, <3>2, <4>4
      <3>. QED
        BY <1>2, <3>1, <3>2
    <2>. QED
      BY <1>1, <1>2, <1>3, <1>4, <2>2, <2>4, <2>5, <2>7, <2>8, HoldsTypes,
         CalendarAssumption, StepKeeps
  <1>. QED
    BY <1>7, <1>8

LEMMA RemoveKeeps ==
    ASSUME CalInv, NEW r \in Requests, CA!Remove(r)
    PROVE  CalInv'
  <1>1. calReq[r] # None /\ calReq[r].pc = "remove"
    BY DEF CA!Remove, CA!At
  <1>2. PICK k \in CA!Request : k = calReq[r] /\ ShapeOf(k)
    BY <1>1, CalendarRequestKnown
  <1>3. PICK u \in CA!Uids : u = k.uid /\ On(r, u)
    BY <1>1, <1>2, CalendarRequestKnown
  <1>4. /\ cal' = [cal EXCEPT ![k.place] = None] /\ UNCHANGED <<told, heard, calCount>>
        /\ calReq' = [calReq EXCEPT ![r] = None]
        /\ IF \E p \in CA!Places : p[1] = u /\ cal'[p] # None
           THEN CA!Spoilt(r) ELSE CA!Settled(r)
    BY <1>2, <1>3 DEF CA!Remove, CA!Stop, CA!UidOf
  <1>5. k.place \in CA!Places /\ k.place[1] = u
    BY <1>2, <1>3 DEF ShapeOf, CA!Request
  <1>6. /\ cal' \in [CA!Places -> CA!Object \cup {None}] /\ cal'[k.place] = None
        /\ \A p \in CA!Places : p # k.place => cal'[p] = cal[p]
    BY <1>4, <1>5, HoldsTypes
  <1>7. u \in Slots => cal'[<<u, "other">>] = None
    BY <1>6, HoldsTypes, PlacesKnown
  <1>8. k.clean => /\ u \in Meetings /\ u \notin Slots /\ k.op = "decline"
                   /\ told[u] = "DECLINED"
    BY <1>1, <1>2, <1>3, RemoverIs
  <1>9. \A v \in CA!Uids \ {u} : v \in calExcuse => v \in calExcuse'
    BY <1>2, <1>3, <1>4, ExcusesIs
  <1>10. (u \in Meetings => AnswerInv(u)') /\ (u \in Slots => InviteInv(u)')
    <2>1. CASE ~k.clean
      <3>1. u \in calExcuse'
        BY <1>2, <1>3, <1>4, <2>1 DEF CA!Spoilt, CA!Settled, CA!UidOf
      <3>2. AnswerInv(u)' /\ (cal'[<<u, "other">>] = None => InviteInv(u)')
        BY <1>1, <1>2, <1>3, <1>4, <2>1, <3>1, UncleanPromises
      <3>. QED
        BY <1>7, <3>2
    <2>2. CASE k.clean
      <3>0. calReq[r].clean /\ u = calReq[r].uid
        BY <1>2, <1>3, <2>2
      <3>1. \A p \in Requests : ~On(p, u)'
        BY <1>1, <1>4, <3>0, CleanGone
      <3>2. u \in calExcuse' \/ cal'[CA!OwnPath(u)] = None
        BY <1>2, <1>3, <1>4, PlacesKnown DEF CA!Spoilt, CA!UidOf
      <3>3. u \in calExcuse' \/ CA!Answer(u)' = "DECLINED"
        BY <3>2 DEF CA!Answer
      <3>4. AnswerInv(u)'
        BY <1>4, <1>8, <2>2, <3>1, <3>3 DEF AnswerInv
      <3>. QED
        BY <1>8, <2>2, <3>4
    <2>. QED
      BY <1>2, <2>1, <2>2
  <1>11. /\ \A p \in CA!Places : p[1] # u => cal'[p] = cal[p]
         /\ \A p \in CA!Places : cal'[p] # None => cal'[p] \in {cal[p], calReq[r].object}
    BY <1>5, <1>6
  <1>. QED
    BY <1>1, <1>2, <1>3, <1>4, <1>6, <1>9, <1>10, <1>11, HoldsTypes, StepKeeps

(* Another client has changed what is stored of one UID.                   *)
LEMMA OthersExcused ==
    ASSUME CalInv, NEW u \in CA!Uids, UNCHANGED <<told, heard, calReq>>,
           calExcuse' = calExcuse \cup {u},
           \A p \in CA!Places : p[1] # u => cal'[p] = cal[p],
           u \in Slots => \A p \in CA!Places : cal'[p] \in {cal[p], None}
    PROVE  \A v \in CA!Uids : UidInv(v)'
  <1>1. \A p \in Requests : \A v : On(p, v)' <=> On(p, v)
    BY DEF On
  <1>2. ASSUME NEW v \in CA!Uids, v # u PROVE UidInv(v)'
    <2>1. /\ cal'[CA!OwnPath(v)] = cal[CA!OwnPath(v)]
          /\ cal'[<<v, "other">>] = cal[<<v, "other">>]
      BY <1>2, PlacesKnown
    <2>. QED
      BY <1>1, <2>1, Elsewhere
  <1>3. UidInv(u)
    BY DEF CalInv
  <1>4. Alone(u)'
    BY <1>1, <1>3 DEF UidInv, Alone
  <1>5. ASSUME u \in Meetings PROVE AnswerInv(u)'
    BY <1>1, <1>3, <1>5 DEF UidInv, AnswerInv
  <1>6. ASSUME u \in Slots PROVE InviteInv(u)'
    <2>1. /\ cal'[CA!OwnPath(u)] \in {cal[CA!OwnPath(u)], None}
          /\ cal'[<<u, "other">>] = None
      BY <1>6, HoldsTypes, PlacesKnown
    <2>. QED
      BY <1>1, <1>3, <1>6, <2>1 DEF UidInv, InviteInv
  <1>. QED
    BY <1>2, <1>4, <1>5, <1>6 DEF UidInv

LEMMA OthersKeep ==
    ASSUME CalInv, CA!Others
    PROVE  CalInv'
  <1>0. UNCHANGED <<told, heard, calReq>>
    BY DEF CA!Others
  <1>1. ShapesInv'
    BY <1>0 DEF CalInv, ShapesInv
  <1>2. PICK n \in [versions : Nat, requests : Nat, others : Nat] :
           n = calCount /\ n.versions \in 0..MaxVersions
    BY DEF CalInv, CalendarTypes
  <1>3. \A r \in Requests : \A v : On(r, v)' <=> On(r, v)
    BY <1>0 DEF On
  <1>4. CASE \E m \in Meetings :
                /\ CA!Version \in 1..MaxVersions
                /\ cal' = [cal EXCEPT ![<<m, "other">>] = CA!NewEvent(None, FALSE)]
                /\ calExcuse' = calExcuse \cup {m}
                /\ calCount' = [calCount EXCEPT !.others = @ + 1, !.versions = CA!Version]
    <2>1. PICK m \in Meetings :
             /\ CA!Version \in 1..MaxVersions
             /\ cal' = [cal EXCEPT ![<<m, "other">>] = CA!NewEvent(None, FALSE)]
             /\ calExcuse' = calExcuse \cup {m}
             /\ calCount' = [calCount EXCEPT !.others = @ + 1, !.versions = CA!Version]
      BY <1>4
    <2>. DEFINE o == CA!NewEvent(None, FALSE)
    <2>2. o \in CA!Object /\ o # None /\ o.event = CA!Version
      BY <2>1, NewEventIs
    <2>. HIDE DEF o
    <2>3. m \in CA!Uids /\ m \notin Slots /\ <<m, "other">> \in CA!Places
      BY PlacesKnown, UidsDiffer DEF CA!Uids
    <2>4. /\ cal' \in [CA!Places -> CA!Object \cup {None}]
          /\ cal'[<<m, "other">>] = o
          /\ \A p \in CA!Places : p # <<m, "other">> => cal'[p] = cal[p]
      BY <2>1, <2>2, <2>3, HoldsTypes DEF o
    <2>5. PICK e \in Nat : e = CA!Version /\ e = calCount.versions + 1
      BY CountsKnown
    <2>6. /\ calCount' \in [versions : Nat, requests : Nat, others : Nat]
          /\ calCount'.versions = e /\ e \in 0..MaxVersions
      <3>1. PICK k \in Nat : k = n.others + 1
        OBVIOUS
      <3>2. calCount' = [n EXCEPT !.others = k, !.versions = e]
        BY <1>2, <2>1, <2>5, <3>1
      <3>3. [n EXCEPT !.others = k, !.versions = e] \in [versions : Nat, requests : Nat, others : Nat]
        OBVIOUS
      <3>4. e \in 0..MaxVersions
        BY <2>1, <2>5, CalendarAssumption
      <3>. QED
        BY <3>2, <3>3, <3>4
    <2>7. calCount'.versions >= calCount.versions /\ calCount.versions \in Nat
      BY <2>5, <2>6, CountsKnown
    <2>8. \A v \in CA!Uids, k \in Nat : HasEvent(v, k)' =>
             HasEvent(v, k) \/ (v = m /\ k = calCount.versions + 1 /\ calCount'.versions = k)
      <3>1. ASSUME NEW v \in CA!Uids, NEW k \in Nat, HasEvent(v, k)', ~HasEvent(v, k)
            PROVE  v = m /\ k = e
        <4>1. PICK p \in CA!Places : p[1] = v /\ cal'[p] # None /\ cal'[p].event = k
          BY <1>0, <1>3, <3>1 DEF HasEvent
        <4>2. p = <<m, "other">>
          BY <2>4, <3>1, <4>1 DEF HasEvent
        <4>. QED
          BY <2>2, <2>4, <2>5, <4>1, <4>2, PlacesKnown
      <3>. QED
        BY <2>5, <2>6, <3>1
    <2>9. EventsInv'
      BY <2>3, <2>6, <2>7, <2>8, EventsKeep
    <2>10. \A p \in CA!Places : p[1] # m => cal'[p] = cal[p]
      BY <2>4
    <2>11. \A v \in CA!Uids : UidInv(v)'
      BY <1>0, <2>1, <2>3, <2>10, OthersExcused
    <2>12. CalendarTypes'
      BY <1>0, <2>4, <2>6 DEF CalInv, CalendarTypes
    <2>. QED
      BY <1>1, <2>9, <2>11, <2>12 DEF CalInv
  <1>5. CASE \E p \in CA!Places :
                /\ cal[p] # None
                /\ cal' = [cal EXCEPT ![p] = None]
                /\ calExcuse' = calExcuse \cup {p[1]}
                /\ calCount' = [calCount EXCEPT !.others = @ + 1]
    <2>1. PICK p \in CA!Places : /\ cal' = [cal EXCEPT ![p] = None]
                                 /\ calExcuse' = calExcuse \cup {p[1]}
                                 /\ calCount' = [calCount EXCEPT !.others = @ + 1]
      BY <1>5
    <2>2. PICK u \in CA!Uids : u = p[1]
      BY PlacesKnown
    <2>3. /\ cal' \in [CA!Places -> CA!Object \cup {None}]
          /\ cal'[p] = None
          /\ \A k \in CA!Places : k # p => cal'[k] = cal[k]
      BY <2>1, HoldsTypes
    <2>4. /\ calCount' \in [versions : Nat, requests : Nat, others : Nat]
          /\ calCount'.versions = calCount.versions
      BY <1>2, <2>1
    <2>5. \A v \in CA!Uids, k \in Nat : HasEvent(v, k)' => HasEvent(v, k)
      BY <1>0, <1>3, <2>3 DEF HasEvent
    <2>6. EventsInv'
      BY <2>4, <2>5 DEF CalInv, EventsInv
    <2>7. /\ \A k \in CA!Places : k[1] # u => cal'[k] = cal[k]
          /\ \A k \in CA!Places : cal'[k] \in {cal[k], None}
      BY <2>2, <2>3
    <2>8. \A v \in CA!Uids : UidInv(v)'
      BY <1>0, <2>1, <2>2, <2>7, OthersExcused
    <2>9. CalendarTypes'
      BY <1>0, <2>3, <2>4 DEF CalInv, CalendarTypes
    <2>. QED
      BY <1>1, <2>6, <2>8, <2>9 DEF CalInv
  <1>. QED
    BY <1>4, <1>5 DEF CA!Others

LEMMA CalStutters == CalInv /\ UNCHANGED calVars => CalInv'
  <1>. SUFFICES ASSUME CalInv, UNCHANGED calVars PROVE CalInv'
    OBVIOUS
  <1>. USE DEF calVars
  <1>1. \A r \in Requests : \A v : On(r, v)' <=> On(r, v)
    BY DEF On
  <1>2. \A v, e : HasEvent(v, e)' <=> HasEvent(v, e)
    BY <1>1 DEF HasEvent
  <1>3. \A v \in CA!Uids : UidInv(v)'
    BY <1>1, Elsewhere
  <1>. QED
    BY <1>2, <1>3 DEF CalInv, CalendarTypes, ShapesInv, EventsInv

LEMMA CalNext == CalInv /\ [CA!Next]_calVars => CalInv'
  <1>. SUFFICES ASSUME CalInv, [CA!Next]_calVars PROVE CalInv'
    OBVIOUS
  <1>1. CASE \E r \in Requests :
                \/ CA!CreateEvent(r) \/ CA!CreateEventByForm(r) \/ CA!UpdateEvent(r)
                \/ CA!DeleteEvent(r) \/ CA!RSVP(r) \/ CA!RSVPByForm(r)
                \/ CA!Reply(r) \/ CA!ReplyByForm(r) \/ CA!Put(r) \/ CA!PutFails(r)
                \/ CA!SendInvites(r) \/ CA!Find(r) \/ CA!Remove(r) \/ CA!RemoveFails(r)
    BY <1>1, CreateKeeps, UpdateKeeps, DeleteKeeps, RSVPKeeps, ReplyKeeps,
       ReplyByFormKeeps, PutKeeps, FailsKeeps, SendInvitesKeeps, FindKeeps, RemoveKeeps
  <1>2. CASE CA!Others
    BY <1>2, OthersKeep
  <1>3. CASE UNCHANGED calVars
    BY <1>3, CalStutters
  <1>. QED
    BY <1>1, <1>2, <1>3 DEF CA!Next

LEMMA CalKept == CA!Spec => []CalInv
  <1>1. CalInv /\ [CA!Next]_(CA!vars) => CalInv'
    BY CalNext DEF CA!vars, calVars
  <1>. QED
    BY <1>1, CalInit, PTL DEF CA!Spec

(* A run of all the parts is one of the calendar and the rest of the       *)
(* others: what holds of the one, whatever else happens, is proved of it.  *)
THEOREM CalendarAlone == MCSpec => CA!Spec
  <1>1. MCInit => CA!Init
    BY DEF MCInit
  <1>2. [MCNext]_<<part, vars, bookVars, calVars, sessionVars, stagingVars,
                   settingsVars, pushVars, threadVars>> => [CA!Next]_(CA!vars)
    BY DEF MCNext, CA!vars, calVars
  <1>. QED
    BY <1>1, <1>2, PTL DEF MCSpec, CA!Spec

(* What a meeting's organizer was told is what the calendar shows, when    *)
(* nobody and nothing else has had a hand in it.                           *)
LEMMA CalAnswers == CalInv => CA!AnswersAgree
  <1>. SUFFICES ASSUME CalInv, NEW m \in Meetings \ calExcuse,
                       ~CA!Busy(m), told[m] # None
                PROVE  told[m] = CA!Answer(m)
    BY DEF CA!AnswersAgree
  <1>1. \A r \in Requests : ~On(r, m)
    BY DEF CA!Busy, CA!UidOf, On
  <1>2. AnswerInv(m)
    BY DEF CalInv, UidInv, CA!Uids
  <1>. QED
    BY <1>1, <1>2 DEF AnswerInv

LEMMA CalInvitees == CalInv => CA!InviteesAgree
  <1>. SUFFICES ASSUME CalInv, NEW s \in Slots \ calExcuse, ~CA!Busy(s),
                       cal[CA!OwnPath(s)] # None, cal[CA!OwnPath(s)].invites
                PROVE  heard[cal[CA!OwnPath(s)].event] = cal[CA!OwnPath(s)].ver
    BY DEF CA!InviteesAgree
  <1>1. \A r \in Requests : ~On(r, s)
    BY DEF CA!Busy, CA!UidOf, On
  <1>2. InviteInv(s)
    BY DEF CalInv, UidInv, CA!Uids
  <1>. QED
    BY <1>1, <1>2 DEF InviteInv

(* The organizer was told what the calendar shows (AnswersAgree of the     *)
(* requests' run), unless the exceptions Calendar.tla names apply.         *)
THEOREM OrganizersAgree == MCSpec => []AnswersAgree
  <1>1. CalInv => AnswersAgree
    BY CalAnswers DEF AnswersAgree
  <1>. QED
    BY <1>1, CalendarAlone, CalKept, PTL

(* The invitees of a stored event have its version (InviteesAgree of the   *)
(* requests' run), on the same terms.                                      *)
THEOREM InviteesInformed == MCSpec => []InviteesAgree
  <1>1. CalInv => InviteesAgree
    BY CalInvitees DEF InviteesAgree
  <1>. QED
    BY <1>1, CalendarAlone, CalKept, PTL

-----------------------------------------------------------------------------

(* What a request has listed of a card is what is there.                   *)
Shows(q, p) == book[p] # None /\ q.seen[p] = AB!contactFromCard(book[p])

(* What a request of AddressBook has to do, and what it has seen of cards  *)
(* nobody wrote since.                                                     *)
Fits(q) ==
    /\ q.op \in AB!Rewrites =>
          /\ q.pc \in {"list", "rewrite"} /\ q.from \in Groups /\ q.to # q.from
    /\ q.op \notin AB!Rewrites => q.pc # "rewrite" /\ q.from = None
    /\ q.op \in {"edit", "photo", "remove"} => q.path \in Paths
    /\ q.op = "create" => q.to \in Groups
    /\ q.pc = "delete" => q.op = "remove"
    /\ q.op \in {"edit", "photo"} /\ q.pc = "put" =>
          /\ q.seen[q.path] # None
          /\ q.path \notin q.stale => Shows(q, q.path)
    /\ q.pc = "rewrite" =>
          /\ \A p \in q.todo : q.seen[p] # None
          /\ \A p \in Paths \ q.stale :
                IF p \in q.todo THEN Shows(q, p)
                ELSE p \in q.missed \/ book[p] = None \/ q.from \notin book[p].groups

BookTypes ==
    /\ book \in [Paths -> AB!Card \cup {None}]
    /\ used \subseteq Paths
    /\ edits \in 0..MaxEdits
    /\ bookReq \in [Requests -> AB!Request \cup {AB!Idle}]

(* A path is used once there is a card, and no version is to come.         *)
CardsInv ==
    /\ \A p \in Paths : book[p] # None => p \in used /\ book[p].data <= edits
    /\ \A r \in Requests : bookReq[r] # AB!Idle =>
          \A p \in Paths : bookReq[r].seen[p] # None => bookReq[r].seen[p].data <= edits

FitsInv == \A r \in Requests : bookReq[r] # AB!Idle => Fits(bookReq[r])

BookInv == BookTypes /\ CardsInv /\ FitsInv

-----------------------------------------------------------------------------

LEMMA IdleIs ==
    /\ AB!Idle.pc = "idle" /\ AB!Idle \notin AB!Request
    /\ \A q \in AB!Request : q.pc # "idle"
  BY DEF AB!Idle, AB!Request

(* A request that is under way.                                            *)
LEMMA BookRequestKnown ==
    ASSUME BookInv, NEW r \in Requests, bookReq[r].pc # "idle"
    PROVE  bookReq[r] \in AB!Request /\ bookReq[r] # AB!Idle /\ Fits(bookReq[r])
  BY IdleIs DEF BookInv, BookTypes, FitsInv

LEMMA BookInit == AB!Init => BookInv
  <1>. SUFFICES ASSUME AB!Init PROVE BookInv
    OBVIOUS
  <1>1. book \in [Paths -> AB!Card \cup {None}] /\ \A p \in Paths : p \in Start <=> book[p] # None
    BY DEF AB!Init
  <1>. QED
    <2>1. BookTypes
      BY <1>1, BookAssumption DEF AB!Init, BookTypes
    <2>2. \A r \in Requests : bookReq[r] = AB!Idle
      BY DEF AB!Init
    <2>3. ASSUME NEW p \in Paths, book[p] # None PROVE p \in used /\ book[p].data <= edits
      <3>1. p \in Start /\ used = Start /\ edits = 0
        BY <1>1, <2>3 DEF AB!Init
      <3>2. book[p].data = 0
        BY <3>1 DEF AB!Init
      <3>. QED
        BY <3>1, <3>2
    <2>. QED
      BY <2>1, <2>2, <2>3 DEF BookInv, CardsInv, FitsInv

(* A card as models.Contact has it, and back.                              *)
LEMMA ContactsKnown ==
    /\ \A k \in AB!Card : /\ AB!contactFromCard(k) \in AB!Contact
                          /\ AB!contactFromCard(k) # None
                          /\ AB!contactFromCard(k).data = k.data
                          /\ AB!contactFromCard(k).groups = k.groups
                          /\ AB!contactFromCard(k).holder = k.holder
    /\ \A k \in AB!Contact : /\ AB!cardFromContact(k) \in AB!Card
                             /\ AB!cardFromContact(k) # None
                             /\ AB!cardFromContact(k).data = k.data
                             /\ AB!cardFromContact(k).groups = k.groups
                             /\ AB!cardFromContact(k).holder = k.holder
  <1>1. ASSUME NEW k \in AB!Card
        PROVE  /\ AB!contactFromCard(k) \in AB!Contact
               /\ AB!contactFromCard(k).data = k.data
               /\ AB!contactFromCard(k).groups = k.groups
               /\ AB!contactFromCard(k).holder = k.holder
    BY DEF AB!Card, AB!Contact, AB!contactFromCard
  <1>2. ASSUME NEW k \in AB!Contact
        PROVE  /\ AB!cardFromContact(k) \in AB!Card
               /\ AB!cardFromContact(k).data = k.data
               /\ AB!cardFromContact(k).groups = k.groups
               /\ AB!cardFromContact(k).holder = k.holder
    BY DEF AB!Card, AB!Contact, AB!cardFromContact
  <1>. QED
    BY <1>1, <1>2, BookAssumption

(* A request that only holds the lists it made, after p was written.       *)
LEMMA WrittenFits ==
    ASSUME BookInv, NEW q \in AB!Request, Fits(q), NEW p \in Paths,
           \A x \in Paths \ {p} : book'[x] = book[x],
           NEW k \in AB!Request,
           k.op = q.op, k.pc = q.pc, k.from = q.from, k.to = q.to, k.path = q.path,
           k.seen = q.seen, k.todo = q.todo, k.missed = q.missed,
           \/ k.stale = q.stale \cup {p}
           \/ k.stale = q.stale /\ k.pc # "rewrite" /\ k.path # p
           \/ k.stale = q.stale /\ k.pc = "list"
    PROVE  Fits(k)'
  <1>1. /\ p \in k.stale \/ (k.pc # "rewrite" /\ k.path # p) \/ k.pc = "list"
        /\ q.stale \subseteq k.stale
    OBVIOUS
  <1>2. ASSUME k.op \in {"edit", "photo"}, k.pc = "put"
        PROVE  /\ k.seen[k.path] # None
               /\ k.path \notin k.stale => Shows(k, k.path)'
    BY <1>1, <1>2 DEF Fits, Shows, AB!contactFromCard
  <1>3. ASSUME k.pc = "rewrite", NEW x \in Paths \ k.stale
        PROVE  IF x \in k.todo THEN Shows(k, x)'
               ELSE x \in k.missed \/ book'[x] = None \/ k.from \notin book'[x].groups
    <2>1. x # p /\ book'[x] = book[x]
      BY <1>1, <1>3
    <2>. QED
      BY <1>1, <1>3, <2>1 DEF Fits, Shows, AB!contactFromCard
  <1>. QED
    BY <1>2, <1>3 DEF Fits

(* A card is written, or removed, by a request or another client, and the  *)
(* others that have listed it know an old one from then on.                *)
LEMMA WriteKeeps ==
    ASSUME BookInv, NEW r \in Requests \cup {None}, NEW p \in Paths,
           NEW card \in AB!Card \cup {None}, NEW q \in AB!Request \cup {AB!Idle},
           AB!Write(r, p, card, q), edits' \in 0..MaxEdits, edits' >= edits,
           card # None => card.data <= edits',
           r # None /\ q # AB!Idle =>
              /\ Fits(q)'
              /\ \A x \in Paths : q.seen[x] # None => q.seen[x].data <= edits
    PROVE  BookInv'
  <1>1. /\ book' \in [Paths -> AB!Card \cup {None}]
        /\ book'[p] = card /\ \A x \in Paths \ {p} : book'[x] = book[x]
        /\ used' = used \cup {p}
    BY DEF AB!Write, BookInv, BookTypes
  <1>2. bookReq' = [j \in Requests |->
                      IF j = r THEN q
                      ELSE IF p \in AB!Held(j)
                      THEN [bookReq[j] EXCEPT !.stale = @ \cup {p}]
                      ELSE bookReq[j]]
    BY DEF AB!Write
  <1>3. ASSUME NEW j \in Requests
        PROVE  \/ bookReq'[j] = AB!Idle
               \/ \E n \in AB!Request :
                     /\ bookReq'[j] = n /\ Fits(n)'
                     /\ \A x \in Paths : n.seen[x] # None => n.seen[x].data <= edits
    <2>1. CASE j = r
      BY <1>2, <2>1, BookAssumption
    <2>2. CASE j # r /\ bookReq[j] = AB!Idle
      <3>1. p \notin AB!Held(j)
        BY <2>2, IdleIs DEF AB!Held
      <3>. QED
        BY <1>2, <2>2, <3>1
    <2>3. CASE j # r /\ bookReq[j] # AB!Idle
      <3>1. PICK k \in AB!Request : /\ k = bookReq[j] /\ Fits(k) /\ k.pc # "idle"
                                    /\ \A x \in Paths : k.seen[x] # None =>
                                          k.seen[x].data <= edits
        BY <2>3, IdleIs DEF BookInv, BookTypes, FitsInv, CardsInv
      <3>2. CASE p \in AB!Held(j)
        <4>1. PICK n \in AB!Request :
                 /\ n = [k EXCEPT !.stale = @ \cup {p}]
                 /\ n.op = k.op /\ n.pc = k.pc /\ n.from = k.from
                 /\ n.to = k.to /\ n.path = k.path /\ n.seen = k.seen /\ n.todo = k.todo
                 /\ n.missed = k.missed /\ n.stale = k.stale \cup {p}
          <5>. DEFINE n == [k EXCEPT !.stale = @ \cup {p}]
          <5>1. /\ n \in AB!Request /\ n.op = k.op /\ n.pc = k.pc /\ n.from = k.from
                /\ n.to = k.to /\ n.path = k.path /\ n.seen = k.seen /\ n.todo = k.todo
                /\ n.missed = k.missed /\ n.stale = k.stale \cup {p}
            BY DEF AB!Request
          <5>. QED
            BY <5>1
        <4>2. bookReq'[j] = n
          BY <1>2, <2>3, <3>1, <3>2, <4>1
        <4>3. Fits(n)'
          BY <1>1, <3>1, <4>1, WrittenFits
        <4>. QED
          BY <3>1, <4>1, <4>2, <4>3
      <3>3. CASE p \notin AB!Held(j)
        <4>1. bookReq'[j] = k
          BY <1>2, <2>3, <3>1, <3>3
        <4>2. k.pc = "list" \/ (k.pc # "rewrite" /\ k.path # p)
          BY <3>1, <3>3 DEF AB!Held, Fits
        <4>3. Fits(k)'
          BY <1>1, <3>1, <4>2, WrittenFits
        <4>. QED
          BY <3>1, <4>1, <4>3
      <3>. QED
        BY <3>2, <3>3
    <2>. QED
      BY <2>1, <2>2, <2>3
  <1>4. bookReq' \in [Requests -> AB!Request \cup {AB!Idle}]
    BY <1>2, <1>3
  <1>5. BookTypes'
    BY <1>1, <1>4 DEF BookInv, BookTypes
  <1>6. edits \in Nat /\ edits' \in Nat
    BY BookAssumption DEF BookInv, BookTypes
  <1>7. \A x \in Paths : book'[x] # None => x \in used' /\ book'[x].data <= edits'
    <2>1. ASSUME NEW x \in Paths, book'[x] # None, x # p
          PROVE  x \in used' /\ book'[x].data <= edits'
      <3>1. book[x] \in AB!Card /\ book[x].data <= edits /\ x \in used /\ book'[x] = book[x]
        BY <1>1, <2>1 DEF BookInv, BookTypes, CardsInv
      <3>2. book[x].data \in Nat
        BY <3>1, BookAssumption DEF AB!Card
      <3>. QED
        BY <1>1, <1>6, <3>1, <3>2
    <2>. QED
      BY <1>1, <2>1
  <1>8. ASSUME NEW j \in Requests, bookReq'[j] # AB!Idle, NEW x \in Paths,
               bookReq'[j].seen[x] # None
        PROVE  bookReq'[j].seen[x].data <= edits'
    <2>1. bookReq'[j] \in AB!Request /\ bookReq'[j].seen[x].data <= edits
      BY <1>3, <1>8
    <2>2. bookReq'[j].seen[x] \in AB!Contact
      BY <1>8, <2>1 DEF AB!Request
    <2>3. bookReq'[j].seen[x].data \in Nat
      BY <2>2, BookAssumption DEF AB!Contact
    <2>. QED
      BY <1>6, <2>1, <2>3
  <1>9. ASSUME NEW j \in Requests, bookReq'[j] # AB!Idle PROVE Fits(bookReq[j])'
    <2>1. PICK n \in AB!Request : bookReq'[j] = n /\ Fits(n)'
      BY <1>3, <1>9
    <2>. QED
      BY <2>1 DEF Fits, Shows
  <1>. QED
    BY <1>5, <1>7, <1>8, <1>9 DEF BookInv, CardsInv, FitsInv

-----------------------------------------------------------------------------

(* A request that begins, goes on after its listing, or ends, and writes   *)
(* nothing.                                                                *)
LEMMA QuietKeeps ==
    ASSUME BookInv, NEW r \in Requests, UNCHANGED <<book, used, edits>>,
           NEW q \in AB!Request \cup {AB!Idle}, bookReq' = [bookReq EXCEPT ![r] = q],
           q # AB!Idle =>
              /\ Fits(q)
              /\ \A x \in Paths : q.seen[x] # None => q.seen[x].data <= edits
    PROVE  BookInv'
  <1>1. /\ bookReq' \in [Requests -> AB!Request \cup {AB!Idle}]
        /\ bookReq'[r] = q /\ \A j \in Requests \ {r} : bookReq'[j] = bookReq[j]
    BY DEF BookInv, BookTypes
  <1>2. BookTypes'
    BY <1>1 DEF BookInv, BookTypes
  <1>3. CardsInv'
    BY <1>1 DEF BookInv, CardsInv
  <1>4. \A j \in Requests : bookReq'[j] # AB!Idle => Fits(bookReq[j])'
    BY <1>1 DEF BookInv, FitsInv, Fits, Shows, AB!contactFromCard
  <1>. QED
    BY <1>2, <1>3, <1>4 DEF BookInv, FitsInv

LEMMA DoneKeeps ==
    ASSUME BookInv, NEW r \in Requests, AB!Done(r)
    PROVE  BookInv'
  BY QuietKeeps DEF AB!Done

(* A new request has seen nothing yet.                                     *)
LEMMA BookEnterKeeps ==
    ASSUME BookInv, NEW r \in Requests, NEW op \in AB!Ops,
           NEW from \in Groups \cup {None}, NEW to \in Groups \cup {None},
           NEW path \in Paths \cup {None}, NEW pc \in {"list", "put", "delete"},
           AB!Enter(r, op, from, to, path, pc),
           op \in AB!Rewrites => pc = "list" /\ from \in Groups /\ to # from,
           op \notin AB!Rewrites => from = None, op = "create" => to \in Groups,
           op \in {"edit", "photo", "remove"} => path \in Paths /\ pc # "put",
           pc = "delete" => op = "remove"
    PROVE  BookInv'
  <1>. DEFINE none == [p \in Paths |-> None]
              q == [pc |-> pc, op |-> op, from |-> from, to |-> to, path |-> path,
                    seen |-> none, todo |-> {}, missed |-> {}, stale |-> {}]
  <1>1. none \in [Paths -> AB!Contact \cup {None}] /\ \A p \in Paths : none[p] = None
    OBVIOUS
  <1>2. bookReq' = [bookReq EXCEPT ![r] = q] /\ UNCHANGED <<book, used, edits>>
    BY DEF AB!Enter
  <1>. HIDE DEF none
  <1>3. /\ q \in AB!Request /\ q.pc = pc /\ q.op = op /\ q.from = from /\ q.to = to
        /\ q.path = path /\ q.seen = none
    BY <1>1 DEF AB!Request
  <1>. HIDE DEF q
  <1>4. Fits(q)
    BY <1>3 DEF Fits
  <1>. QED
    BY <1>1, <1>2, <1>3, <1>4, QuietKeeps

LEMMA EntersKeep ==
    ASSUME BookInv, NEW r \in Requests,
           \/ AB!handleCreateGroup(r) \/ AB!handleRenameGroup(r) \/ AB!handleDeleteGroup(r)
           \/ AB!handleUpdateContact(r) \/ AB!handleUploadPhoto(r)
           \/ AB!handleCreateContact(r) \/ AB!handleImportContacts(r)
           \/ AB!handleDeleteContact(r)
    PROVE  BookInv'
  <1>. USE BookAssumption DEF AB!Ops, AB!Rewrites
  <1>1. CASE AB!handleCreateGroup(r)
    BY <1>1, BookEnterKeeps DEF AB!handleCreateGroup
  <1>2. CASE AB!handleRenameGroup(r)
    BY <1>2, BookEnterKeeps DEF AB!handleRenameGroup
  <1>3. CASE AB!handleDeleteGroup(r)
    BY <1>3, BookEnterKeeps DEF AB!handleDeleteGroup
  <1>4. CASE AB!handleUpdateContact(r)
    BY <1>4, BookEnterKeeps DEF AB!handleUpdateContact, AB!withoutPlaceholders
  <1>5. CASE AB!handleUploadPhoto(r)
    BY <1>5, BookEnterKeeps DEF AB!handleUploadPhoto, AB!withoutPlaceholders
  <1>6. CASE AB!handleCreateContact(r)
    BY <1>6, BookEnterKeeps DEF AB!handleCreateContact
  <1>7. CASE AB!handleImportContacts(r)
    BY <1>7, BookEnterKeeps DEF AB!handleImportContacts
  <1>8. CASE AB!handleDeleteContact(r)
    BY <1>8, BookEnterKeeps DEF AB!handleDeleteContact, AB!withoutPlaceholders
  <1>. QED
    BY <1>1, <1>2, <1>3, <1>4, <1>5, <1>6, <1>7, <1>8

(* A listing: what is wanted of it is kept, and what it left out known.    *)
LEMMA ListKeeps ==
    ASSUME BookInv, NEW r \in Requests, AB!List(r)
    PROVE  BookInv'
  <1>1. PICK k \in AB!Request : k = bookReq[r] /\ Fits(k) /\ k.pc = "list" /\ k # AB!Idle
    BY BookRequestKnown DEF AB!List, AB!At
  <1>2. PICK answered \in SUBSET Books :
           LET listed == {p \in Paths : book[p] # None /\ BookOf[p] \in answered}
               wanted == listed \cap (AB!Carriers(book, bookReq[r].from)
                                      \cup {bookReq[r].path})
               refused == \/ /\ AB!Is(r, {"create"})
                             /\ listed \cap AB!Carriers(book, bookReq[r].to) # {}
                          \/ /\ AB!Is(r, {"edit", "photo", "remove"})
                             /\ wanted = {}
           IN bookReq' = [bookReq EXCEPT ![r] =
                 IF refused THEN AB!Idle ELSE
                 [@ EXCEPT !.seen = [p \in Paths |-> IF p \in wanted
                                        THEN AB!contactFromCard(book[p]) ELSE None],
                           !.todo = IF AB!Is(r, AB!Rewrites) THEN wanted ELSE {},
                           !.missed = IF AB!Is(r, AB!Rewrites) THEN Paths \ listed ELSE {},
                           !.pc = AB!AfterList(r)]]
    BY Zenon DEF AB!List
  <1>. DEFINE listed == {p \in Paths : book[p] # None /\ BookOf[p] \in answered}
              wanted == listed \cap (AB!Carriers(book, k.from) \cup {k.path})
              seen == [p \in Paths |-> IF p \in wanted
                                       THEN AB!contactFromCard(book[p]) ELSE None]
  <1>3. PICK pc \in {"put", "rewrite", "delete"} :
           /\ pc = AB!AfterList(r)
           /\ pc = "rewrite" <=> k.op \in AB!Rewrites
           /\ pc = "delete" <=> k.op = "remove"
    <2>1. CASE k.op \in AB!Rewrites
      BY <1>1, <2>1, Zenon DEF AB!AfterList, AB!Is, AB!Rewrites
    <2>2. CASE k.op = "remove"
      BY <1>1, <2>2, Zenon DEF AB!AfterList, AB!Is, AB!Rewrites
    <2>3. CASE k.op \notin AB!Rewrites /\ k.op # "remove"
      BY <1>1, <2>3, Zenon DEF AB!AfterList, AB!Is, AB!Rewrites
    <2>. QED
      BY <2>1, <2>2, <2>3
  <1>4. UNCHANGED <<book, used, edits>>
    BY DEF AB!List
  <1>5. /\ wanted \subseteq Paths /\ \A p \in wanted : book[p] # None /\ book[p] \in AB!Card
        /\ \A p \in Paths : /\ p \in wanted => seen[p] = AB!contactFromCard(book[p])
                            /\ p \notin wanted => seen[p] = None
        /\ listed \subseteq Paths
    BY DEF BookInv, BookTypes
  <1>6. seen \in [Paths -> AB!Contact \cup {None}]
    BY <1>5, ContactsKnown
  <1>7. \A p \in Paths : seen[p] # None => seen[p].data <= edits
    BY <1>5, ContactsKnown DEF BookInv, CardsInv
  <1>8. \A p \in listed \ wanted : k.from \notin book[p].groups
    BY <1>5 DEF AB!Carriers
  <1>9. k.op \notin AB!Rewrites => wanted \subseteq {k.path}
    <2>1. \A p \in Paths : book[p] # None => None \notin book[p].groups
      BY BookAssumption DEF BookInv, BookTypes, AB!Card
    <2>. QED
      BY <1>1, <1>5, <2>1 DEF Fits, AB!Carriers
  <1>. HIDE DEF listed, wanted, seen
  <1>10. PICK todo \in SUBSET Paths, missed \in SUBSET Paths :
            /\ todo = IF k.op \in AB!Rewrites THEN wanted ELSE {}
            /\ missed = IF k.op \in AB!Rewrites THEN Paths \ listed ELSE {}
    BY <1>5
  <1>. DEFINE q == [k EXCEPT !.seen = seen, !.todo = todo, !.missed = missed, !.pc = pc]
  <1>11. /\ q \in AB!Request /\ q.pc = pc /\ q.op = k.op /\ q.from = k.from /\ q.to = k.to
         /\ q.path = k.path /\ q.seen = seen /\ q.todo = todo /\ q.missed = missed
         /\ q.stale = k.stale
    BY <1>6 DEF AB!Request
  <1>12. \/ bookReq' = [bookReq EXCEPT ![r] = AB!Idle]
         \/ /\ bookReq' = [bookReq EXCEPT ![r] = q]
            /\ k.op \in {"edit", "photo", "remove"} => wanted # {}
    <2>1. \A ops : AB!Is(r, ops) <=> k.op \in ops
      BY <1>1 DEF AB!Is
    <2>2. \/ bookReq' = [bookReq EXCEPT ![r] = AB!Idle]
          \/ /\ bookReq' = [bookReq EXCEPT ![r] =
                   [bookReq[r] EXCEPT !.seen = seen,
                         !.todo = IF AB!Is(r, AB!Rewrites) THEN wanted ELSE {},
                         !.missed = IF AB!Is(r, AB!Rewrites) THEN Paths \ listed ELSE {},
                         !.pc = AB!AfterList(r)]]
             /\ ~(AB!Is(r, {"edit", "photo", "remove"}) /\ wanted = {})
      BY <1>1, <1>2 DEF listed, wanted, seen
    <2>. QED
      BY <1>1, <1>3, <1>10, <2>1, <2>2
  <1>. HIDE DEF q
  <1>13. CASE bookReq' = [bookReq EXCEPT ![r] = AB!Idle]
    BY <1>4, <1>13, QuietKeeps
  <1>14. CASE /\ bookReq' = [bookReq EXCEPT ![r] = q]
              /\ k.op \in {"edit", "photo", "remove"} => wanted # {}
    <2>1. ASSUME q.op \in {"edit", "photo"}
          PROVE  q.seen[q.path] # None /\ Shows(q, q.path)
      <3>1. k.path \in wanted
        BY <1>9, <1>11, <1>14, <2>1 DEF AB!Rewrites
      <3>2. k.path \in Paths /\ book[k.path] # None /\ book[k.path] \in AB!Card
        BY <1>5, <3>1
      <3>3. seen[k.path] = AB!contactFromCard(book[k.path]) /\ seen[k.path] # None
        BY <1>5, <3>1, <3>2, ContactsKnown
      <3>. QED
        BY <1>11, <3>2, <3>3 DEF Shows
    <2>2. ASSUME q.pc = "rewrite", NEW p \in Paths
          PROVE  /\ p \in q.todo => q.seen[p] # None /\ Shows(q, p)
                 /\ p \notin q.todo =>
                       p \in q.missed \/ book[p] = None \/ q.from \notin book[p].groups
      <3>1. todo = wanted /\ missed = Paths \ listed
        BY <1>3, <1>10, <1>11, <2>2
      <3>2. p \in wanted => /\ book[p] # None /\ seen[p] = AB!contactFromCard(book[p])
                            /\ seen[p] # None
        BY <1>5, ContactsKnown
      <3>. QED
        BY <1>8, <1>11, <3>1, <3>2 DEF Shows
    <2>3. Fits(q)
      BY <1>1, <1>3, <1>11, <2>1, <2>2 DEF Fits
    <2>. QED
      BY <1>4, <1>7, <1>11, <1>14, <2>3, QuietKeeps
  <1>. QED
    BY <1>12, <1>13, <1>14

(* Versions are numbers, and a new one is the highest.                     *)
LEMMA EditsKnown ==
    ASSUME BookInv
    PROVE  /\ edits \in Nat /\ edits \in 0..MaxEdits
           /\ AB!Edit => edits' \in 0..MaxEdits /\ edits' >= edits /\ edits' > edits
  BY BookAssumption DEF BookInv, BookTypes, AB!Edit

(* The group is written with nobody in it.                                 *)
LEMMA PutGroupKeeps ==
    ASSUME BookInv, NEW r \in Requests, AB!PutGroup(r)
    PROVE  BookInv'
  <1>1. PICK k \in AB!Request : k = bookReq[r] /\ Fits(k) /\ k.op = "create"
    BY BookRequestKnown DEF AB!PutGroup, AB!At, AB!Is
  <1>2. PICK p \in Paths :
           AB!Write(r, p, AB!cardFromContact(AB!Placeholder(k.to)), AB!Idle)
    BY <1>1 DEF AB!PutGroup, AB!Fresh
  <1>3. edits' = edits
    BY DEF AB!PutGroup
  <1>4. AB!Placeholder(k.to) \in AB!Contact /\ AB!Placeholder(k.to).data = 0
    BY <1>1, BookAssumption DEF Fits, AB!Placeholder, AB!Contact
  <1>5. PICK card \in AB!Card : card = AB!cardFromContact(AB!Placeholder(k.to)) /\ card.data = 0
    BY <1>4, ContactsKnown
  <1>. QED
    BY <1>2, <1>3, <1>5, EditsKnown, WriteKeeps

(* A contact with its group changed.                                       *)
LEMMA RewrittenKnown ==
    ASSUME NEW c \in AB!Contact, NEW from \in Groups, NEW to \in Groups \cup {None},
           to # from
    PROVE  /\ AB!Rewritten(c, from, to) \in AB!Contact
           /\ AB!Rewritten(c, from, to).data = c.data
           /\ AB!Rewritten(c, from, to).holder = c.holder
           /\ from \notin AB!Rewritten(c, from, to).groups
           /\ AB!Rewritten(c, from, to).groups \cap (Groups \ {from, to})
                 = c.groups \cap (Groups \ {from, to})
  <1>1. DEFINE new == (c.groups \ {from}) \cup (IF to = None THEN {} ELSE {to})
  <1>2. /\ new \in SUBSET Groups /\ from \notin new
        /\ new \cap (Groups \ {from, to}) = c.groups \cap (Groups \ {from, to})
    BY DEF AB!Contact
  <1>3. AB!Rewritten(c, from, to) = [c EXCEPT !.groups = new]
    BY DEF AB!Rewritten
  <1>. HIDE DEF new
  <1>. QED
    BY <1>2, <1>3 DEF AB!Contact

LEMMA RewriteKeeps ==
    ASSUME BookInv, NEW r \in Requests, AB!rewriteGroup(r)
    PROVE  BookInv'
  <1>1. PICK k \in AB!Request : k = bookReq[r] /\ Fits(k) /\ k.pc = "rewrite" /\ k # AB!Idle
    BY BookRequestKnown DEF AB!rewriteGroup, AB!At
  <1>2. PICK p \in k.todo :
          LET ct == AB!Rewritten(k.seen[p], k.from, k.to)
              rest == [k EXCEPT !.todo = @ \ {p}] IN
          IF ct.holder /\ ct.groups = {}
          THEN \/ AB!Write(r, p, None, rest)
               \/ /\ bookReq' = [bookReq EXCEPT ![r] = [rest EXCEPT !.missed = @ \cup {p}]]
                  /\ UNCHANGED <<book, used, begun>>
          ELSE AB!Write(r, p, AB!cardFromContact(ct), rest)
    BY <1>1 DEF AB!rewriteGroup
  <1>3. edits' = edits
    BY DEF AB!rewriteGroup
  <1>4. /\ p \in Paths /\ k.seen[p] \in AB!Contact /\ k.from \in Groups
        /\ k.to \in Groups \cup {None} /\ k.to # k.from /\ k.op \in AB!Rewrites
        /\ k.seen[p].data <= edits
        /\ \A x \in Paths : k.seen[x] # None => k.seen[x].data <= edits
    <2>1. /\ p \in Paths /\ k.from \in Groups /\ k.to # k.from /\ k.op \in AB!Rewrites
          /\ k.seen[p] # None
      BY <1>1 DEF Fits, AB!Request
    <2>2. k.seen[p] \in AB!Contact /\ k.to \in Groups \cup {None}
      BY <1>1, <2>1 DEF AB!Request
    <2>3. \A x \in Paths : k.seen[x] # None => k.seen[x].data <= edits
      BY <1>1 DEF BookInv, CardsInv
    <2>. QED
      BY <2>1, <2>2, <2>3
  <1>5. PICK ct \in AB!Contact : /\ ct = AB!Rewritten(k.seen[p], k.from, k.to)
                                 /\ ct.data <= edits /\ k.from \notin ct.groups
    BY <1>4, RewrittenKnown
  <1>6. PICK card \in AB!Card : /\ card = AB!cardFromContact(ct)
                                /\ card.data <= edits /\ k.from \notin card.groups
    BY <1>5, ContactsKnown
  <1>7. PICK rest \in AB!Request :
           /\ rest = [k EXCEPT !.todo = @ \ {p}]
           /\ rest.pc = k.pc /\ rest.op = k.op /\ rest.from = k.from /\ rest.to = k.to
           /\ rest.path = k.path /\ rest.seen = k.seen /\ rest.missed = k.missed
           /\ rest.stale = k.stale /\ rest.todo = k.todo \ {p}
    <2>. DEFINE rest == [k EXCEPT !.todo = @ \ {p}]
    <2>1. /\ rest \in AB!Request
          /\ rest.pc = k.pc /\ rest.op = k.op /\ rest.from = k.from /\ rest.to = k.to
          /\ rest.path = k.path /\ rest.seen = k.seen /\ rest.missed = k.missed
          /\ rest.stale = k.stale /\ rest.todo = k.todo \ {p}
      BY DEF AB!Request
    <2>. QED
      BY <2>1
  <1>8. ASSUME NEW new \in AB!Card \cup {None}, new = None \/ new = card,
               AB!Write(r, p, new, rest)
        PROVE  BookInv'
    <2>1. book'[p] = new /\ \A x \in Paths \ {p} : book'[x] = book[x]
      BY <1>4, <1>8 DEF AB!Write, BookInv, BookTypes
    <2>2. ASSUME NEW x \in Paths \ rest.stale
          PROVE  IF x \in rest.todo THEN rest.seen[x] # None /\ Shows(rest, x)'
                 ELSE x \in rest.missed \/ book'[x] = None \/ rest.from \notin book'[x].groups
      <3>1. CASE x = p
        BY <1>6, <1>7, <1>8, <2>1, <3>1
      <3>2. CASE x # p
        BY <1>1, <1>7, <2>1, <2>2, <3>2 DEF Fits, Shows, AB!contactFromCard
      <3>. QED
        BY <3>1, <3>2
    <2>3. \A x \in rest.todo : rest.seen[x] # None
      BY <1>1, <1>7 DEF Fits
    <2>4. Fits(rest)'
      BY <1>1, <1>4, <1>7, <2>2, <2>3 DEF Fits, AB!Rewrites
    <2>5. new # None => new.data <= edits'
      BY <1>3, <1>6, <1>8
    <2>6. edits' \in 0..MaxEdits /\ edits' >= edits
      BY <1>3, EditsKnown
    <2>7. \A x \in Paths : rest.seen[x] # None => rest.seen[x].data <= edits
      BY <1>4, <1>7
    <2>8. p \in Paths
      BY <1>4
    <2>. QED
      BY <1>8, <2>4, <2>5, <2>6, <2>7, <2>8, WriteKeeps
  <1>9. ASSUME bookReq' = [bookReq EXCEPT ![r] = [rest EXCEPT !.missed = @ \cup {p}]],
               UNCHANGED <<book, used, begun>>
        PROVE  BookInv'
    <2>1. PICK q \in AB!Request :
             /\ q = [rest EXCEPT !.missed = @ \cup {p}]
             /\ q.pc = k.pc /\ q.op = k.op /\ q.from = k.from /\ q.to = k.to
             /\ q.path = k.path /\ q.seen = k.seen /\ q.missed = k.missed \cup {p}
             /\ q.stale = k.stale /\ q.todo = k.todo \ {p}
      <3>. DEFINE q == [rest EXCEPT !.missed = @ \cup {p}]
      <3>1. /\ q \in AB!Request
            /\ q.pc = rest.pc /\ q.op = rest.op /\ q.from = rest.from /\ q.to = rest.to
            /\ q.path = rest.path /\ q.seen = rest.seen /\ q.missed = rest.missed \cup {p}
            /\ q.stale = rest.stale /\ q.todo = rest.todo
        BY <1>4 DEF AB!Request
      <3>. QED
        BY <1>7, <3>1
    <2>2. Fits(q)
      BY <1>1, <2>1 DEF Fits, Shows, AB!Rewrites
    <2>. QED
      BY <1>3, <1>4, <1>9, <2>1, <2>2, QuietKeeps
  <1>. QED
    BY <1>2, <1>5, <1>6, <1>7, <1>8, <1>9

(* A contact with the user's change.                                       *)
LEMMA PutEditedKeeps ==
    ASSUME BookInv, NEW r \in Requests, NEW groups \in SUBSET Groups,
           AB!Is(r, {"edit", "photo"}), AB!PutEdited(r, groups)
    PROVE  BookInv'
  <1>1. PICK k \in AB!Request : /\ k = bookReq[r] /\ Fits(k) /\ k.pc = "put"
                                /\ k.op \in {"edit", "photo"}
    BY BookRequestKnown DEF AB!PutEdited, AB!At, AB!Is
  <1>2. k.path \in Paths /\ k.seen[k.path] \in AB!Contact
    <2>1. k.path \in Paths /\ k.seen[k.path] # None
      BY <1>1 DEF Fits
    <2>. QED
      BY <1>1, <2>1 DEF AB!Request
  <1>3. edits' \in 0..MaxEdits /\ edits' >= edits
    BY EditsKnown DEF AB!PutEdited
  <1>4. PICK p \in Paths, version \in 0..MaxEdits, seen \in AB!Contact :
           p = k.path /\ version = edits' /\ seen = k.seen[p]
    BY <1>2, <1>3
  <1>5. PICK ct \in AB!Contact : /\ ct = [seen EXCEPT !.groups = groups, !.data = version]
                                 /\ ct.data = version
    <2>1. [seen EXCEPT !.groups = groups] \in AB!Contact
      BY DEF AB!Contact
    <2>2. PICK c \in AB!Contact : c = [seen EXCEPT !.groups = groups]
      BY <2>1
    <2>3. [c EXCEPT !.data = version] \in AB!Contact /\ [c EXCEPT !.data = version].data = version
      BY DEF AB!Contact
    <2>. QED
      BY <2>2, <2>3
  <1>6. PICK card \in AB!Card : card = AB!cardFromContact(ct) /\ card.data = version
    <2>1. AB!cardFromContact(ct) \in AB!Card /\ AB!cardFromContact(ct).data = ct.data
      BY ContactsKnown
    <2>2. ct.data = version
      BY <1>5
    <2>. QED
      BY <2>1, <2>2, Zenon
  <1>7. AB!Write(r, p, card, AB!Idle)
    <2>1. AB!Write(r, bookReq[r].path,
                   AB!cardFromContact([bookReq[r].seen[bookReq[r].path] EXCEPT
                                          !.groups = groups, !.data = edits']),
                   AB!Idle)
      BY Zenon DEF AB!PutEdited
    <2>2. /\ bookReq[r].path = p /\ bookReq[r].seen[bookReq[r].path] = seen
          /\ edits' = version
      BY <1>1, <1>4
    <2>. QED
      BY <1>5, <1>6, <2>1, <2>2
  <1>. QED
    BY <1>3, <1>4, <1>6, <1>7, WriteKeeps

(* A photo is an edit that keeps the groups as they were listed.           *)
LEMMA PhotoKnown ==
    ASSUME BookInv, NEW r \in Requests, AB!PutPhoto(r)
    PROVE  \E groups \in SUBSET Groups :
              AB!PutEdited(r, groups) /\ AB!Is(r, {"edit", "photo"})
  <1>1. PICK k \in AB!Request : /\ k = bookReq[r] /\ Fits(k) /\ k.pc = "put"
                                /\ k.op = "photo"
    BY BookRequestKnown DEF AB!PutPhoto, AB!PutEdited, AB!At, AB!Is
  <1>2. k.path \in Paths /\ k.seen[k.path] # None
    BY <1>1 DEF Fits
  <1>3. k.seen[k.path] \in AB!Contact
    BY <1>1, <1>2 DEF AB!Request
  <1>4. PICK groups \in SUBSET Groups : groups = k.seen[k.path].groups
    BY <1>3 DEF AB!Contact
  <1>. QED
    BY <1>1, <1>4 DEF AB!PutPhoto, AB!Is

LEMMA PutNewKeeps ==
    ASSUME BookInv, NEW r \in Requests, AB!PutNew(r)
    PROVE  BookInv'
  <1>1. PICK k \in AB!Request : /\ k = bookReq[r] /\ Fits(k) /\ k # AB!Idle /\ k.pc = "put"
                                /\ k.op \in {"add", "import"}
    BY BookRequestKnown DEF AB!PutNew, AB!At, AB!Is
  <1>2. PICK p \in Paths, g \in Groups :
           LET card == AB!cardFromContact([holder |-> FALSE, groups |-> {g}, data |-> 0]) IN
           AB!Write(r, p, card, AB!Idle) \/ AB!Write(r, p, card, k)
    BY <1>1 DEF AB!PutNew, AB!Fresh
  <1>3. edits' = edits
    BY DEF AB!PutNew
  <1>4. PICK ct \in AB!Contact :
           ct = [holder |-> FALSE, groups |-> {g}, data |-> 0] /\ ct.data = 0
    <2>1. /\ [holder |-> FALSE, groups |-> {g}, data |-> 0] \in AB!Contact
          /\ [holder |-> FALSE, groups |-> {g}, data |-> 0].data = 0
      BY BookAssumption DEF AB!Contact
    <2>. QED
      BY <2>1
  <1>5. PICK card \in AB!Card : card = AB!cardFromContact(ct) /\ card.data = 0
    BY <1>4, ContactsKnown
  <1>6. Fits(k)'
    BY <1>1 DEF Fits, AB!Rewrites
  <1>7. \A x \in Paths : k.seen[x] # None => k.seen[x].data <= edits
    BY <1>1 DEF BookInv, CardsInv
  <1>8. CASE AB!Write(r, p, card, AB!Idle)
    BY <1>3, <1>5, <1>8, EditsKnown, WriteKeeps
  <1>9. CASE AB!Write(r, p, card, k)
    BY <1>3, <1>5, <1>6, <1>7, <1>9, EditsKnown, WriteKeeps
  <1>. QED
    BY <1>2, <1>4, <1>5, <1>8, <1>9

LEMMA BookRemoveKeeps ==
    ASSUME BookInv, NEW r \in Requests, AB!Remove(r)
    PROVE  BookInv'
  <1>1. bookReq[r].path \in Paths
    BY BookRequestKnown DEF AB!Remove, AB!At, Fits
  <1>2. CASE AB!Done(r)
    BY <1>2, DoneKeeps
  <1>3. CASE AB!Write(r, bookReq[r].path, None, AB!Idle) /\ edits' = edits
    BY <1>1, <1>3, EditsKnown, WriteKeeps
  <1>. QED
    BY <1>2, <1>3 DEF AB!Remove

LEMMA OtherEditsKeep ==
    ASSUME BookInv, AB!OtherEdits
    PROVE  BookInv'
  <1>1. edits' \in 0..MaxEdits /\ edits' >= edits
    BY EditsKnown DEF AB!OtherEdits
  <1>2. PICK version \in 0..MaxEdits : version = edits'
    BY <1>1
  <1>3. PICK p \in Paths :
           /\ book[p] # None
           /\ AB!Write(None, p, [book[p] EXCEPT !.data = version, !.foreign = TRUE], AB!Idle)
    BY <1>2 DEF AB!OtherEdits
  <1>4. PICK card \in AB!Card :
           /\ card = [book[p] EXCEPT !.data = version, !.foreign = TRUE]
           /\ card.data = version
    <2>1. book[p] \in AB!Card
      BY <1>3 DEF BookInv, BookTypes
    <2>2. PICK c \in AB!Card : c = [book[p] EXCEPT !.data = version] /\ c.data = version
      <3>1. /\ [book[p] EXCEPT !.data = version] \in AB!Card
            /\ [book[p] EXCEPT !.data = version].data = version
        BY <2>1 DEF AB!Card
      <3>. QED
        BY <3>1
    <2>3. [c EXCEPT !.foreign = TRUE] \in AB!Card /\ [c EXCEPT !.foreign = TRUE].data = version
      BY <2>2 DEF AB!Card
    <2>. QED
      BY <2>2, <2>3
  <1>5. AB!Write(None, p, card, AB!Idle)
    BY <1>3, <1>4
  <1>6. card.data <= edits'
    BY <1>1, <1>2, <1>4, BookAssumption
  <1>. QED
    BY <1>1, <1>4, <1>5, <1>6, WriteKeeps

LEMMA BookNext ==
    ASSUME BookInv, [AB!Next]_bookVars
    PROVE  BookInv'
  <1>1. ASSUME NEW r \in Requests,
               \/ AB!List(r) \/ AB!Fail(r)
               \/ AB!PutGroup(r) \/ AB!rewriteGroup(r) \/ AB!RewriteDone(r)
               \/ AB!PutContact(r) \/ AB!PutPhoto(r) \/ AB!PutNew(r) \/ AB!Remove(r)
        PROVE  BookInv'
    <2>1. CASE AB!List(r)
      BY <2>1, ListKeeps
    <2>2. CASE AB!Fail(r) \/ AB!RewriteDone(r)
      BY <2>2, DoneKeeps DEF AB!Fail, AB!RewriteDone
    <2>3. CASE AB!PutGroup(r)
      BY <2>3, PutGroupKeeps
    <2>4. CASE AB!rewriteGroup(r)
      BY <2>4, RewriteKeeps
    <2>5. CASE AB!PutContact(r)
      BY <2>5, PutEditedKeeps DEF AB!PutContact, AB!Is
    <2>6. CASE AB!PutPhoto(r)
      <3>1. PICK groups \in SUBSET Groups :
               AB!PutEdited(r, groups) /\ AB!Is(r, {"edit", "photo"})
        BY <2>6, PhotoKnown
      <3>. QED
        BY <3>1, PutEditedKeeps
    <2>7. CASE AB!PutNew(r)
      BY <2>7, PutNewKeeps
    <2>8. CASE AB!Remove(r)
      BY <2>8, BookRemoveKeeps
    <2>. QED
      BY <1>1, <2>1, <2>2, <2>3, <2>4, <2>5, <2>6, <2>7, <2>8
  <1>2. CASE UNCHANGED bookVars
    BY <1>2 DEF bookVars, BookInv, BookTypes, CardsInv, FitsInv, Fits, Shows,
                AB!contactFromCard
  <1>. QED
    BY <1>1, <1>2, EntersKeep, OtherEditsKeep DEF AB!Next

LEMMA BookKept == AB!Spec => []BookInv
  <1>1. BookInv /\ [AB!Next]_(AB!vars) => BookInv'
    BY BookNext DEF AB!vars, bookVars
  <1>. QED
    BY <1>1, BookInit, PTL DEF AB!Spec

(* And one of the contacts.                                                *)
THEOREM ContactsAlone == MCSpec => AB!Spec
  <1>1. MCInit => AB!Init
    BY DEF MCInit
  <1>2. [MCNext]_<<part, vars, bookVars, calVars, sessionVars, stagingVars,
                   settingsVars, pushVars, threadVars>> => [AB!Next]_(AB!vars)
    BY DEF MCNext, AB!vars, bookVars
  <1>. QED
    BY <1>1, <1>2, PTL DEF MCSpec, AB!Spec

-----------------------------------------------------------------------------

(* A card goes back, or comes back.                                        *)
Undone(p) == IF book[p] = None THEN book'[p] # None /\ p \in used
             ELSE book'[p] # None /\ book'[p].data < book[p].data

(* What a rewrite leaves of a card.                                        *)
Leaves(r, p) ==
    LET others == Groups \ {bookReq[r].from, bookReq[r].to} IN
    IF book'[p] = None THEN book[p].holder
    ELSE book'[p].groups \cap others = book[p].groups \cap others

CardRight(p) ==
    /\ Undone(p) => \E r \in Requests : AB!Writes(r, p) /\ p \in bookReq[r].stale
    /\ \A r \in Requests :
          AB!Writes(r, p) /\ AB!At(r, "rewrite") /\ p \notin bookReq[r].stale
          => Leaves(r, p)

(* The card that a step writes is that of one request.                     *)
LEMMA WriterIs ==
    ASSUME BookInv, NEW r \in Requests \cup {None}, NEW p \in Paths,
           NEW card, NEW q, AB!Write(r, p, card, q),
           NEW j \in Requests, NEW x \in Paths, AB!Writes(j, x)
    PROVE  j = r /\ x = p
  <1>1. x = p
    BY DEF AB!Write, AB!Writes, BookInv, BookTypes
  <1>2. PICK k \in AB!Request : k = bookReq[j]
    BY IdleIs DEF BookInv, BookTypes, AB!Writes
  <1>3. CASE j # r
    <2>1. bookReq'[j] = k \/ bookReq'[j] = [k EXCEPT !.stale = @ \cup {p}]
      BY <1>2, <1>3 DEF AB!Write
    <2>2. bookReq'[j].pc = k.pc /\ bookReq'[j].todo = k.todo
      BY <2>1 DEF AB!Request
    <2>. QED
      BY <1>2, <2>2 DEF AB!Writes
  <1>. QED
    BY <1>1, <1>3

LEMMA WriteRight ==
    ASSUME BookInv, NEW r \in Requests \cup {None}, NEW p \in Paths,
           NEW card, NEW q, AB!Write(r, p, card, q),
           Undone(p) => r \in Requests /\ AB!Writes(r, p) /\ p \in bookReq[r].stale,
           r \in Requests /\ AB!Writes(r, p) /\ AB!At(r, "rewrite")
              /\ p \notin bookReq[r].stale => Leaves(r, p)
    PROVE  \A x \in Paths : CardRight(x)
  <1>. SUFFICES ASSUME NEW x \in Paths PROVE CardRight(x)
    OBVIOUS
  <1>1. ASSUME NEW j \in Requests, AB!Writes(j, x), AB!At(j, "rewrite"),
               x \notin bookReq[j].stale
        PROVE  Leaves(j, x)
    <2>1. j = r /\ x = p
      BY <1>1, WriterIs
    <2>. QED
      BY <1>1, <2>1
  <1>2. ASSUME Undone(x)
        PROVE  \E j \in Requests : AB!Writes(j, x) /\ x \in bookReq[j].stale
    <2>1. CASE x = p
      BY <1>2, <2>1
    <2>2. CASE x # p
      <3>1. book'[x] = book[x]
        BY <2>2 DEF AB!Write, BookInv, BookTypes
      <3>2. book[x] \in AB!Card /\ book[x].data < book[x].data
        BY <1>2, <3>1 DEF Undone, BookInv, BookTypes
      <3>. QED
        BY <3>2, BookAssumption DEF AB!Card
    <2>. QED
      BY <2>1, <2>2
  <1>. QED
    BY <1>1, <1>2 DEF CardRight

LEMMA QuietRight ==
    ASSUME BookInv, book' = book, NEW p \in Paths
    PROVE  CardRight(p)
  <1>1. ~Undone(p)
    <2>1. SUFFICES ASSUME book[p] # None, book[p].data < book[p].data PROVE FALSE
      BY DEF Undone
    <2>2. book[p] \in AB!Card
      BY <2>1 DEF BookInv, BookTypes
    <2>. QED
      BY <2>1, <2>2, BookAssumption DEF AB!Card
  <1>. QED
    BY <1>1 DEF CardRight, AB!Writes

LEMMA RewriteRight ==
    ASSUME BookInv, NEW r \in Requests, AB!rewriteGroup(r)
    PROVE  \A p \in Paths : CardRight(p)
  <1>1. PICK k \in AB!Request : k = bookReq[r] /\ Fits(k) /\ k.pc = "rewrite" /\ k # AB!Idle
    BY BookRequestKnown DEF AB!rewriteGroup, AB!At
  <1>2. PICK p \in k.todo :
          LET ct == AB!Rewritten(k.seen[p], k.from, k.to)
              rest == [k EXCEPT !.todo = @ \ {p}] IN
          IF ct.holder /\ ct.groups = {}
          THEN \/ AB!Write(r, p, None, rest)
               \/ /\ bookReq' = [bookReq EXCEPT ![r] = [rest EXCEPT !.missed = @ \cup {p}]]
                  /\ UNCHANGED <<book, used, begun>>
          ELSE AB!Write(r, p, AB!cardFromContact(ct), rest)
    BY <1>1 DEF AB!rewriteGroup
  <1>3. /\ p \in Paths /\ k.seen[p] \in AB!Contact /\ k.from \in Groups
        /\ k.to \in Groups \cup {None} /\ k.to # k.from
        /\ p \notin k.stale => Shows(k, p)
    <2>1. /\ p \in Paths /\ k.from \in Groups /\ k.to # k.from /\ k.seen[p] # None
          /\ p \notin k.stale => Shows(k, p)
      BY <1>1 DEF Fits, AB!Request
    <2>2. k.seen[p] \in AB!Contact /\ k.to \in Groups \cup {None}
      BY <1>1, <2>1 DEF AB!Request
    <2>. QED
      BY <2>1, <2>2
  <1>4. PICK others \in SUBSET Groups : others = Groups \ {k.from, k.to}
    OBVIOUS
  <1>5. PICK ct \in AB!Contact : /\ ct = AB!Rewritten(k.seen[p], k.from, k.to)
                                 /\ ct.data = k.seen[p].data
                                 /\ ct.holder = k.seen[p].holder
                                 /\ ct.groups \cap others = k.seen[p].groups \cap others
    <2>1. AB!Rewritten(k.seen[p], k.from, k.to).groups \cap (Groups \ {k.from, k.to})
             = k.seen[p].groups \cap (Groups \ {k.from, k.to})
      BY <1>3, RewrittenKnown
    <2>2. /\ AB!Rewritten(k.seen[p], k.from, k.to) \in AB!Contact
          /\ AB!Rewritten(k.seen[p], k.from, k.to).data = k.seen[p].data
          /\ AB!Rewritten(k.seen[p], k.from, k.to).holder = k.seen[p].holder
      BY <1>3, RewrittenKnown
    <2>. QED
      BY <1>4, <2>1, <2>2
  <1>6. PICK card \in AB!Card : /\ card = AB!cardFromContact(ct)
                                /\ card.data = k.seen[p].data
                                /\ card.groups \cap others = k.seen[p].groups \cap others
    BY <1>5, ContactsKnown
  <1>7. PICK rest : rest = [k EXCEPT !.todo = @ \ {p}]
    OBVIOUS
  <1>8. ASSUME NEW new \in AB!Card \cup {None}, AB!Write(r, p, new, rest),
               (new = None /\ k.seen[p].holder) \/ new = card
        PROVE  \A x \in Paths : CardRight(x)
    <2>1. book'[p] = new /\ bookReq'[r] = rest
      BY <1>3, <1>8 DEF AB!Write, BookInv, BookTypes
    <2>2. ASSUME p \notin k.stale
          PROVE  /\ book[p] \in AB!Card /\ k.seen[p].holder = book[p].holder
                 /\ k.seen[p].data = book[p].data /\ k.seen[p].groups = book[p].groups
                 /\ book[p] # None
      <3>1. book[p] # None /\ k.seen[p] = AB!contactFromCard(book[p])
        BY <1>3, <2>2 DEF Shows
      <3>2. book[p] \in AB!Card
        BY <1>3, <3>1 DEF BookInv, BookTypes
      <3>. QED
        BY <3>1, <3>2, ContactsKnown
    <2>3. ASSUME p \notin k.stale PROVE Leaves(r, p)
      <3>1. CASE new = None
        BY <1>6, <1>8, <2>1, <2>2, <2>3, <3>1, BookAssumption DEF Leaves
      <3>2. CASE new = card
        <4>1. book'[p] # None
          BY <2>1, <3>2, BookAssumption
        <4>2. book'[p].groups \cap others = book[p].groups \cap others
          BY <1>6, <2>1, <2>2, <2>3, <3>2
        <4>. QED
          BY <1>1, <1>4, <4>1, <4>2 DEF Leaves
      <3>. QED
        BY <1>8, <3>1, <3>2
    <2>4. ASSUME Undone(p) PROVE AB!Writes(r, p) /\ p \in k.stale
      <3>1. CASE p \notin k.stale
        <4>1. book'[p] = card /\ card.data < book[p].data /\ card.data = book[p].data
          BY <1>6, <1>8, <2>1, <2>2, <2>4, <3>1 DEF Undone
        <4>2. book[p].data \in Nat
          BY <2>2, <3>1, BookAssumption DEF AB!Card
        <4>. QED
          BY <4>1, <4>2
      <3>2. book'[p] # book[p]
        <4>1. CASE book[p] = None
          BY <2>4, <4>1 DEF Undone
        <4>2. CASE book[p] # None
          <5>1. book[p].data \in Nat
            BY <1>3, <4>2, BookAssumption DEF BookInv, BookTypes, AB!Card
          <5>. QED
            BY <2>4, <4>2, <5>1 DEF Undone
        <4>. QED
          BY <4>1, <4>2
      <3>3. rest.todo # k.todo
        BY <1>2, <1>7 DEF AB!Request
      <3>. QED
        BY <1>1, <2>1, <3>1, <3>2, <3>3 DEF AB!Writes
    <2>5. AB!Write(r, p, new, rest)
      BY <1>8
    <2>. QED
      BY <1>1, <1>3, <2>3, <2>4, <2>5, WriteRight
  <1>9. CASE book' = book
    BY <1>9, QuietRight
  <1>. QED
    BY <1>2, <1>5, <1>6, <1>7, <1>8, <1>9

LEMMA PutEditedRight ==
    ASSUME BookInv, NEW r \in Requests, NEW groups \in SUBSET Groups,
           AB!Is(r, {"edit", "photo"}), AB!PutEdited(r, groups)
    PROVE  \A p \in Paths : CardRight(p)
  <1>1. PICK k \in AB!Request : /\ k = bookReq[r] /\ Fits(k) /\ k.pc = "put"
                                /\ k.op \in {"edit", "photo"}
    BY BookRequestKnown DEF AB!PutEdited, AB!At, AB!Is
  <1>2. /\ k.path \in Paths /\ k.seen[k.path] \in AB!Contact
        /\ k.path \notin k.stale => book[k.path] # None
    <2>1. /\ k.path \in Paths /\ k.seen[k.path] # None
          /\ k.path \notin k.stale => book[k.path] # None
      BY <1>1 DEF Fits, Shows
    <2>. QED
      BY <1>1, <2>1 DEF AB!Request
  <1>3. PICK p \in Paths : p = k.path
    BY <1>2
  <1>4. PICK ct : /\ ct = [k.seen[p] EXCEPT !.groups = groups, !.data = edits']
                  /\ ct.data = edits'
    <2>1. [k.seen[k.path] EXCEPT !.groups = groups, !.data = edits'].data = edits'
      <3>1. PICK seen \in AB!Contact, version \in 0..MaxEdits :
               seen = k.seen[k.path] /\ version = edits'
        BY <1>2, EditsKnown DEF AB!PutEdited
      <3>2. [seen EXCEPT !.groups = groups, !.data = version].data = version
        BY DEF AB!Contact
      <3>. QED
        BY <3>1, <3>2
    <2>. QED
      BY <1>3, <2>1
  <1>5. AB!Write(r, p, AB!cardFromContact(ct), AB!Idle)
    <2>1. AB!Write(r, bookReq[r].path,
                   AB!cardFromContact([bookReq[r].seen[bookReq[r].path] EXCEPT
                                          !.groups = groups, !.data = edits']),
                   AB!Idle)
      BY Zenon DEF AB!PutEdited
    <2>. QED
      BY <1>1, <1>3, <1>4, <2>1
  <1>6. AB!cardFromContact(ct).data = edits'
    BY <1>4 DEF AB!cardFromContact
  <1>7. /\ book'[p] = AB!cardFromContact(ct) /\ bookReq'[r] = AB!Idle
        /\ book'[p].data = edits'
    BY <1>5, <1>6 DEF AB!Write, BookInv, BookTypes
  <1>8. ASSUME Undone(p) PROVE AB!Writes(r, p) /\ p \in k.stale
    <2>1. book[p] = None
      <3>1. SUFFICES ASSUME book[p] # None, edits' < book[p].data PROVE FALSE
        BY <1>7, <1>8 DEF Undone
      <3>2. book[p] \in AB!Card /\ book[p].data <= edits
        BY <3>1 DEF BookInv, BookTypes, CardsInv
      <3>3. edits' > edits /\ edits' \in Nat /\ edits \in Nat /\ book[p].data \in Nat
        BY <3>2, EditsKnown, BookAssumption DEF AB!PutEdited, AB!Card
      <3>. QED
        BY <3>1, <3>2, <3>3
    <2>2. p \in k.stale /\ book'[p] # book[p]
      BY <1>2, <1>3, <1>8, <2>1 DEF Undone
    <2>. QED
      BY <1>1, <1>7, <2>2, IdleIs DEF AB!Writes
  <1>9. ~AB!At(r, "rewrite")
    BY <1>1 DEF AB!At
  <1>. QED
    BY <1>1, <1>5, <1>8, <1>9, WriteRight

(* A new card has a path of its own.                                       *)
LEMMA FreshRight ==
    ASSUME BookInv, NEW r \in Requests, AB!At(r, "put"), NEW p \in AB!Fresh,
           NEW card, NEW q, AB!Write(r, p, card, q)
    PROVE  \A x \in Paths : CardRight(x)
  <1>1. p \in Paths /\ p \notin used /\ book[p] = None
    BY DEF AB!Fresh, BookInv, CardsInv
  <1>2. ~Undone(p)
    BY <1>1 DEF Undone
  <1>3. ~AB!At(r, "rewrite")
    BY DEF AB!At
  <1>. QED
    BY <1>1, <1>2, <1>3, WriteRight

LEMMA RemoveRight ==
    ASSUME BookInv, NEW r \in Requests, AB!Remove(r)
    PROVE  \A p \in Paths : CardRight(p)
  <1>1. bookReq[r].path \in Paths
    BY BookRequestKnown DEF AB!Remove, AB!At, Fits
  <1>2. PICK p \in Paths : p = bookReq[r].path
    BY <1>1
  <1>3. CASE AB!Done(r)
    BY <1>3, QuietRight DEF AB!Done
  <1>4. CASE AB!Write(r, p, None, AB!Idle)
    <2>1. book'[p] = None
      BY <1>4 DEF AB!Write, BookInv, BookTypes
    <2>2. ~Undone(p) /\ ~AB!At(r, "rewrite")
      BY <2>1 DEF Undone, AB!Remove, AB!At
    <2>. QED
      BY <1>4, <2>2, WriteRight
  <1>. QED
    BY <1>2, <1>3, <1>4 DEF AB!Remove

LEMMA OtherEditsRight ==
    ASSUME BookInv, AB!OtherEdits
    PROVE  \A p \in Paths : CardRight(p)
  <1>1. PICK p \in Paths :
           /\ book[p] # None
           /\ AB!Write(None, p, [book[p] EXCEPT !.data = edits', !.foreign = TRUE], AB!Idle)
    BY DEF AB!OtherEdits
  <1>2. book[p] \in AB!Card /\ book[p].data <= edits /\ book[p].data \in Nat
    BY <1>1, BookAssumption DEF BookInv, BookTypes, CardsInv, AB!Card
  <1>3. edits' > edits /\ edits' \in Nat /\ edits \in Nat
    BY EditsKnown, BookAssumption DEF AB!OtherEdits
  <1>4. book'[p].data = edits'
    <2>1. PICK c \in AB!Card, version \in 0..MaxEdits : c = book[p] /\ version = edits'
      BY <1>2, EditsKnown DEF AB!OtherEdits
    <2>2. [c EXCEPT !.data = version, !.foreign = TRUE].data = version
      BY DEF AB!Card
    <2>3. book'[p] = [c EXCEPT !.data = version, !.foreign = TRUE]
      BY <1>1, <2>1 DEF AB!Write, BookInv, BookTypes
    <2>. QED
      BY <2>1, <2>2, <2>3
  <1>5. ~Undone(p)
    BY <1>1, <1>2, <1>3, <1>4 DEF Undone
  <1>. QED
    BY <1>1, <1>5, BookAssumption, WriteRight

LEMMA BookRight ==
    ASSUME BookInv, [AB!Next]_bookVars
    PROVE  \A p \in Paths : CardRight(p)
  <1>1. CASE book' = book
    BY <1>1, QuietRight
  <1>2. ASSUME NEW r \in Requests,
               \/ AB!handleCreateGroup(r) \/ AB!handleRenameGroup(r)
               \/ AB!handleDeleteGroup(r) \/ AB!handleUpdateContact(r)
               \/ AB!handleUploadPhoto(r) \/ AB!handleCreateContact(r)
               \/ AB!handleImportContacts(r) \/ AB!handleDeleteContact(r)
        PROVE  book' = book
    BY <1>2, Zenon DEF AB!handleCreateGroup, AB!handleRenameGroup, AB!handleDeleteGroup,
                AB!handleUpdateContact, AB!handleUploadPhoto, AB!handleCreateContact,
                AB!handleImportContacts, AB!handleDeleteContact, AB!Enter
  <1>3. ASSUME NEW r \in Requests,
               AB!List(r) \/ AB!Fail(r) \/ AB!RewriteDone(r)
        PROVE  book' = book
    BY <1>3 DEF AB!List, AB!Fail, AB!RewriteDone, AB!Done
  <1>4. ASSUME NEW r \in Requests,
               \/ AB!PutGroup(r) \/ AB!rewriteGroup(r) \/ AB!PutContact(r)
               \/ AB!PutPhoto(r) \/ AB!PutNew(r) \/ AB!Remove(r)
        PROVE  \A p \in Paths : CardRight(p)
    <2>1. CASE AB!PutGroup(r)
      BY <2>1, FreshRight DEF AB!PutGroup
    <2>2. CASE AB!rewriteGroup(r)
      BY <2>2, RewriteRight
    <2>3. CASE AB!PutContact(r)
      BY <2>3, PutEditedRight DEF AB!PutContact, AB!Is
    <2>4. CASE AB!PutPhoto(r)
      <3>1. PICK groups \in SUBSET Groups :
               AB!PutEdited(r, groups) /\ AB!Is(r, {"edit", "photo"})
        BY <2>4, PhotoKnown
      <3>. QED
        BY <3>1, PutEditedRight
    <2>5. CASE AB!PutNew(r)
      BY <2>5, FreshRight DEF AB!PutNew
    <2>6. CASE AB!Remove(r)
      BY <2>6, RemoveRight
    <2>. QED
      BY <1>4, <2>1, <2>2, <2>3, <2>4, <2>5, <2>6
  <1>5. CASE UNCHANGED bookVars
    BY <1>1, <1>5 DEF bookVars
  <1>. QED
    BY <1>1, <1>2, <1>3, <1>4, <1>5, OtherEditsRight DEF AB!Next

(* handlers/jsonapi/contacts.go and contacts_groups.go: a card's fields go *)
(* back, or a deleted card comes back, only when a request writes what it  *)
(* listed before the change; and a rewrite of a group leaves the other     *)
(* groups of a card nobody else wrote.                                     *)
THEOREM StaleWritesUndo == MCSpec => OnlyStaleWritesUndo
  <1>. DEFINE Right ==
         \A p \in Paths :
            LET old == book[p]
                new == book'[p]
                undone == IF old = None THEN new # None /\ p \in used
                          ELSE new # None /\ new.data < old.data
                others(r) == Groups \ {bookReq[r].from, bookReq[r].to}
            IN /\ undone => \E r \in Requests : AB!Writes(r, p) /\ p \in bookReq[r].stale
               /\ \A r \in Requests :
                     AB!Writes(r, p) /\ AB!At(r, "rewrite") /\ p \notin bookReq[r].stale
                     => IF new = None THEN old.holder
                        ELSE new.groups \cap others(r) = old.groups \cap others(r)
  <1>1. BookInv /\ [AB!Next]_(AB!vars) => [Right]_(AB!vars)
    <2>1. (\A p \in Paths : CardRight(p)) => Right
      BY DEF CardRight, Undone, Leaves
    <2>2. BookInv /\ [AB!Next]_(AB!vars) => Right
      BY <2>1, BookRight DEF AB!vars, bookVars
    <2>. QED
      BY <2>2
  <1>. QED
    BY <1>1, ContactsAlone, BookKept, PTL
       DEF AB!Spec, OnlyStaleWritesUndo, AB!OnlyStaleWritesUndo

(* rewriteGroup in handlers/jsonapi/contacts_groups.go: a rename or removal*)
(* that succeeds leaves the old name on no card, but for those somebody    *)
(* wrote meanwhile and those it could not reach.                           *)
THEOREM SuccessesReachAll == MCSpec => SuccessReachesAll
  <1>1. ASSUME BookInv, NEW r \in Requests, AB!At(r, "rewrite"), bookReq[r].todo = {}
        PROVE  AB!Carriers(book, bookReq[r].from)
                  \subseteq bookReq[r].stale \cup bookReq[r].missed
    BY <1>1, BookRequestKnown DEF AB!At, AB!Carriers, Fits
  <1>2. BookInv /\ [AB!Next]_(AB!vars) =>
           [\A r \in Requests :
               AB!At(r, "rewrite") /\ bookReq[r].todo = {} /\ bookReq'[r].pc = "idle" =>
                  AB!Carriers(book, bookReq[r].from) \subseteq
                     bookReq[r].stale \cup bookReq[r].missed]_(AB!vars)
    BY <1>1
  <1>. QED
    BY <1>2, ContactsAlone, BookKept, PTL
       DEF AB!Spec, SuccessReachesAll, AB!SuccessReachesAll

-----------------------------------------------------------------------------

(* Types.  What mail and calendar may disagree about are UIDs, and what is *)
(* counted stays in its bounds.                                            *)
CalendarBounds ==
    /\ calExcuse \subseteq CA!Uids
    /\ calCount \in [versions : 0..MaxVersions, requests : 0..MaxChanges,
                     others : 0..MaxOthers]

(* The counters after a step.                                              *)
LEMMA CountsBounded ==
    ASSUME CalendarBounds,
           \/ UNCHANGED calCount
           \/ CA!Bumped /\ CA!Version \in 1..MaxVersions /\ calCount.requests < MaxChanges
           \/ /\ calCount' = [calCount EXCEPT !.requests = @ + 1]
              /\ calCount.requests < MaxChanges
           \/ /\ calCount.others < MaxOthers
              /\ \/ /\ calCount' = [calCount EXCEPT !.others = @ + 1,
                                                    !.versions = CA!Version]
                    /\ CA!Version \in 1..MaxVersions
                 \/ calCount' = [calCount EXCEPT !.others = @ + 1]
    PROVE  calCount' \in [versions : 0..MaxVersions, requests : 0..MaxChanges,
                          others : 0..MaxOthers]
  <1>. DEFINE Count(v, n, m) == [versions |-> v, requests |-> n, others |-> m]
  <1>1. PICK v \in 0..MaxVersions, n \in 0..MaxChanges, m \in 0..MaxOthers :
           calCount = Count(v, n, m)
    BY DEF CalendarBounds
  <1>2. \/ calCount' = Count(v, n, m)
        \/ v + 1 \in 1..MaxVersions /\ n < MaxChanges /\ calCount' = Count(v + 1, n + 1, m)
        \/ n < MaxChanges /\ calCount' = Count(v, n + 1, m)
        \/ v + 1 \in 1..MaxVersions /\ m < MaxOthers /\ calCount' = Count(v + 1, n, m + 1)
        \/ m < MaxOthers /\ calCount' = Count(v, n, m + 1)
    BY <1>1 DEF CA!Bumped, CA!Version
  <1>3. \E a \in 0..MaxVersions, b \in 0..MaxChanges, c \in 0..MaxOthers :
           calCount' = Count(a, b, c)
    <2>1. /\ n < MaxChanges => n + 1 \in 0..MaxChanges
          /\ m < MaxOthers => m + 1 \in 0..MaxOthers
          /\ v + 1 \in 1..MaxVersions => v + 1 \in 0..MaxVersions
      BY CalendarAssumption, LimitsAssumption
    <2>. QED
      BY <1>2, <2>1
  <1>. QED
    BY <1>3

LEMMA CalendarBoundsNext ==
    ASSUME CalInv, CalendarBounds, [CA!Next]_calVars
    PROVE  CalendarBounds'
  <1>1. ASSUME NEW r \in Requests, calReq[r] # None,
               CA!Settled(r) \/ CA!Left(r) \/ CA!Spoilt(r) \/ UNCHANGED calExcuse
        PROVE  calExcuse' \subseteq CA!Uids
    <2>1. CA!UidOf(r) \in CA!Uids
      BY <1>1, CalendarRequestKnown DEF CA!UidOf
    <2>. QED
      BY <1>1, <2>1 DEF CA!Settled, CA!Left, CA!Spoilt, CalendarBounds
  <1>2. CASE UNCHANGED calVars
    BY <1>2 DEF calVars, CalendarBounds
  <1>3. ASSUME NEW r \in Requests,
               \/ CA!CreateEvent(r) \/ CA!CreateEventByForm(r) \/ CA!UpdateEvent(r)
               \/ CA!DeleteEvent(r) \/ CA!RSVP(r) \/ CA!RSVPByForm(r)
        PROVE  CalendarBounds'
    <2>1. UNCHANGED calExcuse
      BY <1>3 DEF CA!CreateEvent, CA!CreateEventByForm, CA!UpdateEvent, CA!DeleteEvent,
                  CA!RSVP, CA!RSVPByForm
    <2>2. calCount.requests < MaxChanges
      BY <1>3, Zenon DEF CA!CreateEvent, CA!CreateEventByForm, CA!UpdateEvent, CA!DeleteEvent,
                  CA!RSVP, CA!RSVPByForm, CA!Enter
    <2>3. \/ CA!Bumped /\ CA!Version \in 1..MaxVersions
          \/ calCount' = [calCount EXCEPT !.requests = @ + 1]
      BY <1>3, Zenon DEF CA!CreateEvent, CA!CreateEventByForm, CA!UpdateEvent, CA!DeleteEvent,
                  CA!RSVP, CA!RSVPByForm
    <2>. QED
      BY <2>1, <2>2, <2>3, CountsBounded DEF CalendarBounds
  <1>4. ASSUME NEW r \in Requests,
               \/ CA!Reply(r) \/ CA!ReplyByForm(r) \/ CA!Put(r) \/ CA!PutFails(r)
               \/ CA!SendInvites(r) \/ CA!Find(r) \/ CA!Remove(r) \/ CA!RemoveFails(r)
        PROVE  CalendarBounds'
    <2>1. calReq[r] # None /\ UNCHANGED calCount
      BY <1>4 DEF CA!Reply, CA!ReplyByForm, CA!Put, CA!PutFails, CA!SendInvites, CA!Find,
                  CA!Remove, CA!RemoveFails, CA!At
    <2>2. CA!Settled(r) \/ CA!Left(r) \/ CA!Spoilt(r) \/ UNCHANGED calExcuse
      BY <1>4, Zenon DEF CA!Reply, CA!ReplyByForm, CA!Put, CA!PutFails, CA!SendInvites, CA!Find,
                  CA!Remove, CA!RemoveFails
    <2>. QED
      BY <1>1, <2>1, <2>2 DEF CalendarBounds
  <1>5. CASE CA!Others
    <2>1. calExcuse' \subseteq CA!Uids
      <3>1. \/ \E m \in Meetings : calExcuse' = calExcuse \cup {m}
            \/ \E p \in CA!Places : calExcuse' = calExcuse \cup {p[1]}
        BY <1>5, Zenon DEF CA!Others
      <3>2. Meetings \subseteq CA!Uids /\ \A p \in CA!Places : p[1] \in CA!Uids
        BY PlacesKnown DEF CA!Uids
      <3>. QED
        BY <3>1, <3>2 DEF CalendarBounds
    <2>2. /\ calCount.others < MaxOthers
          /\ \/ /\ calCount' = [calCount EXCEPT !.others = @ + 1, !.versions = CA!Version]
                /\ CA!Version \in 1..MaxVersions
             \/ calCount' = [calCount EXCEPT !.others = @ + 1]
      BY <1>5, Zenon DEF CA!Others
    <2>. QED
      BY <2>1, <2>2, CountsBounded DEF CalendarBounds
  <1>. QED
    BY <1>2, <1>3, <1>4, <1>5 DEF CA!Next

LEMMA CalendarTyped == CA!Spec => []CA!TypeOK
  <1>1. CA!Init => CalendarBounds
    BY CalendarAssumption, LimitsAssumption DEF CA!Init, CalendarBounds
  <1>2. CalInv /\ CalendarBounds /\ [CA!Next]_(CA!vars) => CalendarBounds'
    BY CalendarBoundsNext DEF CA!vars, calVars
  <1>3. CalInv /\ CalendarBounds => CA!TypeOK
    BY DEF CalInv, CalendarTypes, CalendarBounds, CA!TypeOK
  <1>. QED
    BY CalKept, <1>1, <1>2, <1>3, PTL DEF CA!Spec

(* So does the number of requests about contacts.                          *)
LEMMA ContactsTyped == AB!Spec => []AB!TypeOK
  <1>. DEFINE Few == begun \in 0..MaxRequests
  <1>1. AB!Init => Few
    BY LimitsAssumption DEF AB!Init
  <1>2. Few /\ [AB!Next]_(AB!vars) => Few'
    <2>. SUFFICES ASSUME Few, [AB!Next]_(AB!vars) PROVE Few'
      OBVIOUS
    <2>1. CASE UNCHANGED begun
      BY <2>1
    <2>2. CASE begun < MaxRequests /\ begun' = begun + 1
      BY <2>2, LimitsAssumption
    <2>3. ASSUME NEW r \in Requests,
                 \/ AB!handleCreateGroup(r) \/ AB!handleRenameGroup(r)
                 \/ AB!handleDeleteGroup(r) \/ AB!handleUpdateContact(r)
                 \/ AB!handleUploadPhoto(r) \/ AB!handleCreateContact(r)
                 \/ AB!handleImportContacts(r) \/ AB!handleDeleteContact(r)
          PROVE  begun < MaxRequests /\ begun' = begun + 1
      BY <2>3, Zenon DEF AB!handleCreateGroup, AB!handleRenameGroup,
           AB!handleDeleteGroup, AB!handleUpdateContact, AB!handleUploadPhoto,
           AB!handleCreateContact, AB!handleImportContacts, AB!handleDeleteContact, AB!Enter
    <2>4. ASSUME NEW r \in Requests,
                 \/ AB!List(r) \/ AB!Fail(r) \/ AB!PutGroup(r) \/ AB!rewriteGroup(r)
                 \/ AB!RewriteDone(r) \/ AB!PutContact(r) \/ AB!PutPhoto(r)
                 \/ AB!PutNew(r) \/ AB!Remove(r)
          PROVE  UNCHANGED begun
      BY <2>4 DEF AB!List, AB!Fail, AB!PutGroup, AB!rewriteGroup, AB!RewriteDone,
           AB!PutContact, AB!PutPhoto, AB!PutEdited, AB!PutNew, AB!Remove, AB!Done, AB!Write
    <2>. QED
      BY <2>1, <2>2, <2>3, <2>4 DEF AB!Next, AB!OtherEdits, AB!Write, AB!vars
  <1>3. BookInv /\ Few => AB!TypeOK
    BY DEF BookInv, BookTypes, AB!TypeOK
  <1>. HIDE DEF Few
  <1>. QED
    BY BookKept, <1>1, <1>2, <1>3, PTL DEF AB!Spec

=============================================================================
