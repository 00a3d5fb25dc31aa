------------------------------ MODULE Calendar ------------------------------
(***************************************************************************)
(* Events and invitations: handlers/jsonapi/calendar.go and                *)
(* handlers/web/calendar.go over api/caldav.go, with the messages of       *)
(* api/itip.go.                                                            *)
(*                                                                         *)
(* The calendar is the user's CalDAV collection, which other clients write *)
(* too.  A write is an unconditional PUT of an object with one event; a    *)
(* delete lists and removes the first object with the UID.  Mail about a   *)
(* meeting and the calendar change one after the other, and either may     *)
(* fail.  The content of an event is a version number.                     *)
(***************************************************************************)
EXTENDS Naturals

CONSTANTS
    Slots,        \* starts of events: the UID of a new event is its start
    FormSlots,    \* those of events made with the form, which names them apart
    Meetings,     \* UIDs of invitations the user has received
    Requests,
    MaxVersions,  \* bound on the versions written
    MaxRequests,  \* bound on the requests
    MaxOthers,    \* bound on the changes of other clients
    None

VARIABLES
    cal,      \* the object at each path
    told,     \* the last answer each organizer has got
    heard,    \* the version the invitees of each own event last got
    excuse,   \* UIDs about which mail and calendar may disagree
    count,    \* versions, requests and foreign changes so far
    req       \* the requests

vars == <<cal, told, heard, excuse, count, req>>

Uids == Slots \cup Meetings

(* Where putEvent writes a UID, and where another client has put it. *)
OwnPath(u) == <<u, "own">>
Places == Uids \X {"own", "other"}

Object == [event : 1..MaxVersions, ver : 1..MaxVersions,
           answer : {"ACCEPTED", "TENTATIVE", None}, invites : BOOLEAN]

Answers == {"accept", "tentative", "decline"}

(* The action of the request, taken for the answer as it stands. *)
PartStatRaw(op) == op

(* The PARTSTAT of a reply. *)
PartStat(op) == CASE op = "accept" -> "ACCEPTED" [] op = "tentative" -> "TENTATIVE"
                  [] op = "decline" -> "DECLINED"

Request == [pc : {"put", "mail", "reply", "form", "find", "remove"},
            op : {"create", "update", "delete"} \cup Answers,
            uid : Uids, place : Places, object : Object \cup {None},
            clean : BOOLEAN]   \* mail is due, and it is alone with its UID

TypeOK ==
    /\ cal \in [Places -> Object \cup {None}]
    /\ told \in [Meetings -> {"ACCEPTED", "TENTATIVE", "DECLINED", None}]
    /\ heard \in [1..MaxVersions -> 0..MaxVersions]
    /\ excuse \subseteq Uids
    /\ count \in [versions : 0..MaxVersions, requests : 0..MaxRequests,
                  others : 0..MaxOthers]
    /\ \A r \in Requests : req[r] = None \/ req[r] \in Request

Init ==
    /\ cal = [p \in Places |-> None]
    /\ told = [m \in Meetings |-> None]
    /\ heard = [e \in 1..MaxVersions |-> 0]
    /\ excuse = {}
    /\ count = [versions |-> 0, requests |-> 0, others |-> 0]
    /\ req = [r \in Requests |-> None]

At(r, pc) == req[r] # None /\ req[r].pc = pc

UidOf(r) == req[r].uid

Busy(u) == \E r \in Requests : req[r] # None /\ UidOf(r) = u

(* A new request for a UID. *)
Enter(r, pc, op, place, object, mailed) ==
    /\ req[r] = None
    /\ count.requests < MaxRequests
    /\ LET same(q) == req[q] # None /\ UidOf(q) = place[1] IN
       req' = [q \in Requests |->
                 IF q = r THEN [pc |-> pc, op |-> op, uid |-> place[1],
                                place |-> place, object |-> object,
                                clean |-> mailed /\ ~Busy(place[1])]
                 ELSE IF same(q) THEN [req[q] EXCEPT !.clean = FALSE]
                 ELSE req[q]]

Version == count.versions + 1

Bumped == count' = [count EXCEPT !.requests = @ + 1, !.versions = Version]

NewEvent(answer, invites) ==
    [event |-> Version, ver |-> Version, answer |-> answer, invites |-> invites]

(* handleCreateEvent: without a UID of the client's, the start names the   *)
(* event.                                                                  *)
CreateEvent(r) ==
    /\ Version \in 1..MaxVersions
    /\ \E s \in Slots \ FormSlots, invites \in BOOLEAN :
          Enter(r, "put", "create", OwnPath(s), NewEvent(None, invites), TRUE)
    /\ Bumped
    /\ UNCHANGED <<cal, told, heard, excuse>>

(* HandleCreateEvent: the form of the web pages, without invitees. *)
CreateEventByForm(r) ==
    /\ Version \in 1..MaxVersions
    /\ \E s \in FormSlots :
          Enter(r, "put", "create", OwnPath(s), NewEvent(None, FALSE), TRUE)
    /\ Bumped
    /\ UNCHANGED <<cal, told, heard, excuse>>

(* toEvent: of a listed object the client sends back what a listing shows, *)
(* its attendees with their answers included.                              *)
Edited(p, invites) == [cal[p] EXCEPT !.ver = Version, !.invites = invites]

(* handleUpdateEvent: the event as the client lists it, at its path if the *)
(* client gives one.  One occurrence of a series (recurrenceId) is written *)
(* to the path of the series, in its place.                                *)
UpdateEvent(r) ==
    /\ Version \in 1..MaxVersions
    /\ \E p \in Places, named, invites \in BOOLEAN :
          /\ cal[p] # None
          /\ Enter(r, "put", "update", IF named THEN p ELSE OwnPath(p[1]),
                   Edited(p, invites), p[1] \in Slots)
    /\ Bumped
    /\ UNCHANGED <<cal, told, heard, excuse>>

(* handleDeleteEvent: no message goes to the invitees. *)
DeleteEvent(r) ==
    /\ \E p \in Places :
          cal[p] # None /\ Enter(r, "find", "delete", OwnPath(p[1]), None, FALSE)
    /\ count' = [count EXCEPT !.requests = @ + 1]
    /\ UNCHANGED <<cal, told, heard, excuse>>

AfterReply(op) == IF op = "decline" THEN "find" ELSE "put"

(* handleCalendarRSVP: the reply first, if there is an organizer; what is  *)
(* put on acceptance is built from the invitation.                         *)
RSVP(r) ==
    /\ Version \in 1..MaxVersions
    /\ \E m \in Meetings, op \in Answers, organizer \in BOOLEAN :
          Enter(r, IF organizer THEN "reply" ELSE AfterReply(op), op, OwnPath(m),
                IF op = "decline" THEN None ELSE NewEvent(PartStat(op), FALSE),
                organizer)
    /\ Bumped
    /\ UNCHANGED <<cal, told, heard, excuse>>

(* HandleRSVP: the form of the web pages. *)
RSVPByForm(r) ==
    /\ \E m \in Meetings, op \in Answers :
          Enter(r, "form", op, OwnPath(m), None, FALSE)
    /\ count.requests < MaxRequests
    /\ count' = [count EXCEPT !.requests = @ + 1]
    /\ UNCHANGED <<cal, told, heard, excuse>>

Continue(r, pc) == req' = [req EXCEPT ![r].pc = pc]

Stop(r) == req' = [req EXCEPT ![r] = None]

(* How a request leaves its UID: in agreement, as it was, in disagreement. *)
Settled(r) == IF req[r].clean THEN excuse' = excuse \ {UidOf(r)}
                              ELSE excuse' = excuse \cup {UidOf(r)}

Left(r) == IF req[r].clean THEN UNCHANGED excuse
                           ELSE excuse' = excuse \cup {UidOf(r)}

Spoilt(r) == excuse' = excuse \cup {UidOf(r)}

(* BuildReplyICS in a BuildIMIPMessage: the organizer learns the answer.    *)
Told(r) == told' = [told EXCEPT ![UidOf(r)] = PartStat(req[r].op)]

(* An answer that is reflected although the reply could not be sent. *)
ReplyRegardless(r) ==
    /\ At(r, "reply")
    /\ Continue(r, AfterReply(req[r].op))
    /\ Told(r) \/ UNCHANGED told
    /\ UNCHANGED <<cal, heard, excuse, count>>

(* The reply is sent; or refused, which ends the request; or sent although *)
(* the mail server ends with an error, which ends the request too.         *)
Reply(r) ==
    /\ At(r, "reply")
    /\ \/ /\ Told(r)
          /\ Continue(r, AfterReply(req[r].op))
          /\ UNCHANGED excuse
       \/ /\ Stop(r) /\ Left(r)
          /\ UNCHANGED told
       \/ /\ Told(r)
          /\ Stop(r) /\ Spoilt(r)
    /\ UNCHANGED <<cal, heard, count>>

(* The form changes no calendar, and without an organizer it writes to the *)
(* user's own address.                                                     *)
ReplyByForm(r) ==
    /\ At(r, "form")
    /\ Stop(r)
    /\ \/ /\ Told(r)
          /\ Spoilt(r)
       \/ Left(r) /\ UNCHANGED told
    /\ UNCHANGED <<cal, heard, count>>

(* putEvent: what was at the path is replaced. *)
Put(r) ==
    /\ At(r, "put")
    /\ cal' = [cal EXCEPT ![req[r].place] = req[r].object]
    /\ IF req[r].object.invites
       THEN Continue(r, "mail") /\ UNCHANGED excuse
       ELSE /\ Stop(r)
            /\ IF req[r].op = "update" THEN Left(r) ELSE Settled(r)
    /\ UNCHANGED <<told, heard, count>>

(* Invitations that go out although the event could not be stored. *)
MailRegardless(r) ==
    /\ At(r, "put")
    /\ IF req[r].object.invites THEN Continue(r, "mail") /\ UNCHANGED excuse
                                ELSE Stop(r) /\ Left(r)
    /\ UNCHANGED <<cal, told, heard, count>>

(* A failed PUT of an own event is reported; of an answer, whose reply has *)
(* gone out, it is not: the same when no time is given to place it at.     *)
(* The server may have stored what it answers with an error, or with       *)
(* nothing: invitations do not go out then (without any to send, the       *)
(* outcome is that of Put).                                                *)
PutFails(r) ==
    /\ At(r, "put")
    /\ Stop(r)
    /\ \/ /\ IF req[r].op \in Answers THEN Spoilt(r) ELSE Left(r)
          /\ UNCHANGED cal
       \/ /\ req[r].object.invites
          /\ cal' = [cal EXCEPT ![req[r].place] = req[r].object]
          /\ Spoilt(r)
    /\ UNCHANGED <<told, heard, count>>

(* BuildRequestICS: the invitation says what was put. *)
Invited(o) == heard' = [heard EXCEPT ![o.event] = o.ver]

(* sendInvites: a failure is a warning.                                    *)
SendInvites(r) ==
    /\ At(r, "mail")
    /\ \/ Invited(req[r].object) /\ Settled(r)
       \/ Spoilt(r) /\ UNCHANGED heard
    /\ Stop(r)
    /\ UNCHANGED <<cal, told, count>>

(* ListEvents: the objects of a UID.  One that cannot be read is left out   *)
(* (RemoveFails).                                                          *)
ListEvents(u) == {p \in Places : p[1] = u /\ cal[p] # None}

(* DeleteEvent lists ten years and takes the first object with the UID;    *)
(* one that is not found ends it.                                          *)
Find(r) ==
    /\ At(r, "find")
    /\ IF ListEvents(UidOf(r)) = {}
       THEN /\ Stop(r)
            /\ IF req[r].op = "decline" THEN Settled(r) ELSE Left(r)
       ELSE /\ \E p \in ListEvents(UidOf(r)) :
                 req' = [req EXCEPT ![r].pc = "remove", ![r].place = p]
            /\ UNCHANGED excuse
    /\ UNCHANGED <<cal, told, heard, count>>

Remove(r) ==
    /\ At(r, "remove")
    /\ cal' = [cal EXCEPT ![req[r].place] = None]
    /\ Stop(r)
    /\ IF \E p \in Places : p[1] = UidOf(r) /\ cal'[p] # None
       THEN Spoilt(r) ELSE Settled(r)
    /\ UNCHANGED <<told, heard, count>>

(* The listing or the removal fails, or the event lies outside the ten     *)
(* years: a decline is answered as if the copy were gone.  A removal that  *)
(* took effect although it is answered with an error ends as Remove does.  *)
RemoveFails(r) ==
    /\ At(r, "find") \/ At(r, "remove")
    /\ Stop(r)
    /\ IF req[r].op = "decline" THEN Spoilt(r) ELSE Left(r)
    /\ UNCHANGED <<cal, told, heard, count>>

(* Another client, or the server, puts a copy of an invitation where it    *)
(* pleases, or removes an object.                                          *)
Others ==
    /\ count.others < MaxOthers
    /\ \/ \E m \in Meetings :
             /\ Version \in 1..MaxVersions
             /\ cal' = [cal EXCEPT ![<<m, "other">>] =
                   NewEvent(None, FALSE)]
             /\ excuse' = excuse \cup {m}
             /\ count' = [count EXCEPT !.others = @ + 1, !.versions = Version]
       \/ \E p \in Places :
             /\ cal[p] # None
             /\ cal' = [cal EXCEPT ![p] = None]
             /\ excuse' = excuse \cup {p[1]}
             /\ count' = [count EXCEPT !.others = @ + 1]
    /\ UNCHANGED <<told, heard, req>>

Next ==
    \/ \E r \in Requests :
          \/ CreateEvent(r) \/ CreateEventByForm(r) \/ UpdateEvent(r)
          \/ DeleteEvent(r) \/ RSVP(r) \/ RSVPByForm(r)
          \/ Reply(r) \/ ReplyByForm(r) \/ Put(r) \/ PutFails(r) \/ SendInvites(r)
          \/ Find(r) \/ Remove(r) \/ RemoveFails(r)
    \/ Others

Spec == Init /\ [][Next]_vars

Answer(m) == IF cal[OwnPath(m)] = None THEN "DECLINED" ELSE cal[OwnPath(m)].answer

(* The organizer has been told what the calendar shows, unless requests    *)
(* for the meeting overlapped, the form answered it, a step after the      *)
(* reply failed, or another client has a hand in it: a reply that cannot   *)
(* be sent changes neither.                                                *)
AnswersAgree ==
    \A m \in Meetings \ excuse :
        ~Busy(m) /\ told[m] # None => told[m] = Answer(m)

(* The invitees of a stored event have its version, unless requests for it *)
(* overlapped, the mail failed, which is reported, another client has a    *)
(* hand in it, or a PUT that was answered with an error took effect all    *)
(* the same: what was not stored is not sent.  A later request that        *)
(* succeeds alone settles the event again.                                 *)
InviteesAgree ==
    \A s \in Slots \ excuse :
        ~Busy(s) /\ cal[OwnPath(s)] # None /\ cal[OwnPath(s)].invites =>
            heard[cal[OwnPath(s)].event] = cal[OwnPath(s)].ver

=============================================================================
