------------------------------ MODULE Mailbox ------------------------------
(***************************************************************************)
(* The mailboxes of a signed-in user and of one connected account, under   *)
(* the handlers that change them: handlers/web/email.go and                *)
(* handlers/jsonapi (jsonapi.go, messages.go, folders.go, snooze.go) over  *)
(* handlers/api (email.go, draft.go, folders.go, client.go).               *)
(*                                                                         *)
(* A handler sends one IMAP command after the other; between two of them   *)
(* other requests and other mail clients work on the same mailbox.  A      *)
(* command that answers with an error may have taken effect or not.        *)
(*                                                                         *)
(* The UID of a message is its position in its folder; a UID is not used   *)
(* again while the folder is there.  A message is named by its text.  Of   *)
(* the flags only \Deleted takes part in what is kept here.                *)
(***************************************************************************)
EXTENDS Naturals, Sequences, FiniteSets

CONSTANTS
    Own, Other,   \* the session's account and a connected one
    Listing,      \* LIST: the folders with their special use, in order
    Label,        \* a folder that the user may create and delete
    Mail,         \* [Accounts \X folder names -> Seq(Texts)]: the start
    Versions,     \* texts a compose window may save or send
    Requests,
    MaxRequests,  \* bound on the requests
    MaxFaults,    \* bound on failed commands
    MaxOthers,    \* bound on what other mail clients do
    None

VARIABLES
    box,      \* the items of each folder by UID; None where one was
    req,      \* the requests
    excuse,   \* why a text may be gone
    moves,    \* requests to move a text or to clear its mark
    count     \* requests, faults and marks of others so far

vars == <<box, req, excuse, moves, count>>

Accounts == {Own, Other}

Names == {Listing[i].name : i \in DOMAIN Listing} \cup {Label, "Snoozed"}

Texts == (UNION {{Mail[k][i] : i \in DOMAIN Mail[k]} : k \in DOMAIN Mail})
            \cup Versions

Item == [text : Texts, deleted : BOOLEAN]

Gone(s, u) == u \notin DOMAIN s \/ s[u] = None

(* The first folder that LIST names with one of the special uses, else the *)
(* first whose name is one expects.  SELECT finds no folder LIST does not. *)
Discover(uses, guesses) ==
    LET having(P(_)) == {i \in DOMAIN Listing : P(Listing[i])}
        first(is) == Listing[CHOOSE i \in is : \A j \in is : i <= j].name
        byUse == having(LAMBDA f : f.use \in uses)
        byName == having(LAMBDA f : f.name \in guesses)
    IN  CASE byUse # {} -> first(byUse)
          [] byUse = {} /\ byName # {} -> first(byName)
          [] OTHER -> None

discoverTrashFolder == Discover({"Trash"}, {"Trash", "Deleted", "Deleted Items", "Bin"})
discoverDraftsFolder == Discover({"Drafts"}, {"Drafts", "Draft"})
discoverSentFolder == Discover({"Sent", "All"}, {"Sent", "Sent Items", "Sent Mail"})
discoverJunkFolder == Discover({"Junk"}, {"Junk", "Spam", "Junk Email", "Bulk Mail"})

Snoozed == "Snoozed"

(* The names of system folders, which a request may not create or delete.  *)
isProtectedFolder(name) ==
    name \in {"INBOX", "Sent", "Sent Items", "Drafts", "Spam", "Junk",
              "Junk Email", "Bulk Mail", "Trash", "Deleted", "Deleted Items",
              "Bin", "Archive", "All Mail", "Starred", "Outbox", Snoozed}

Ops == {"delete", "move", "flag", "save", "send"}

Request == [op : Ops, pc : {"create", "move", "copy", "store", "expunge", "flag",
                            "unflag", "append", "smtp", "file"},
            acct : Accounts, folder : Names, uid : Nat,
            meant : Texts \cup {None}, to : Names \cup Versions \cup {None}]

(* The system folders that are written to without being looked for in LIST *)
(* again are not the folder the user may delete; the messages there are at *)
(* the start are in known folders, and a text names one of them; None      *)
(* marks what is not there.                                                *)
ASSUME FoldersAssumption ==
    /\ discoverDraftsFolder \in Names \ {Label, Snoozed}
    /\ discoverSentFolder \notin {Label, Snoozed}
    /\ Listing \in Seq([name : STRING, use : STRING])
    /\ DOMAIN Mail \subseteq Accounts \X Names
    /\ \A k \in DOMAIN Mail : Mail[k] \in Seq(Texts)
    /\ \A j, k \in DOMAIN Mail : \A u \in DOMAIN Mail[j], v \in DOMAIN Mail[k] :
          Mail[j][u] = Mail[k][v] => j = k /\ u = v
    /\ None \notin Item /\ None \notin Seq(Item \cup {None}) /\ None \notin Request
    /\ None \notin Texts /\ None \notin Names

ASSUME LimitsAssumption ==
    MaxRequests \in Nat /\ MaxFaults \in Nat /\ MaxOthers \in Nat

TypeOK ==
    /\ \A k \in Accounts \X Names :
          box[k] = None \/ \A u \in DOMAIN box[k] : box[k][u] \in Item \cup {None}
    /\ \A r \in Requests : req[r] # None => req[r] \in Request
    /\ excuse \in [Texts -> SUBSET {"asked", "marked", "crossed", "replaced",
                                    "unsaved", "sent", "folder"}]
    /\ moves \in [Texts -> 0..3 * MaxRequests]
    /\ count \in [requests : 0..MaxRequests, faults : 0..MaxFaults, others : 0..MaxOthers]

Init ==
    /\ box = [k \in Accounts \X Names |->
                IF k \in DOMAIN Mail
                THEN [u \in DOMAIN Mail[k] |->
                         [text |-> Mail[k][u], deleted |-> FALSE]]
                ELSE IF k[2] = Snoozed THEN None ELSE <<>>]
    /\ req = [r \in Requests |-> None]
    /\ excuse = [t \in Texts |-> {}]
    /\ moves = [t \in Texts |-> 0]
    /\ count = [requests |-> 0, faults |-> 0, others |-> 0]

(* Every message: account, folder and UID. *)
Messages ==
    UNION {{<<k[1], k[2], u>> : u \in {v \in DOMAIN box[k] : box[k][v] # None}} :
              k \in {j \in Accounts \X Names : box[j] # None}}

At(p) == box[<<p[1], p[2]>>][p[3]]

Excused(ts, why) ==
    excuse' = [t \in Texts |-> IF t \in ts THEN excuse[t] \cup {why}
                                           ELSE excuse[t]]

Counted == count.requests < MaxRequests
              /\ count' = [count EXCEPT !.requests = @ + 1]

(* What a page shows: the INBOX of both accounts, or a folder of the        *)
(* session's own; and the drafts among them.                               *)
Unified == {p \in Messages : p[2] = "INBOX"}

OfSession == {p \in Messages : p[1] = Own}

Listed == Unified \cup OfSession

ListedDrafts == {p \in OfSession : p[2] = discoverDraftsFolder}

(* Whatever account a message is listed under, a request names a folder    *)
(* and a UID, and the client that serves it is that of the session.        *)
Enter(r, op, pc, p, to) ==
    /\ req[r] = None /\ Counted
    /\ req' = [req EXCEPT ![r] =
          [op |-> op, acct |-> Own, folder |-> p[2], uid |-> p[3], to |-> to,
           meant |-> At(p).text, pc |-> pc]]

(* History: one more request to move, or unmark, the text really there.    *)
Moving(p) ==
    LET at == <<Own, p[2], p[3]>> IN
    moves' = IF at \in Messages THEN [moves EXCEPT ![At(at).text] = @ + 1]
                                 ELSE moves

MoveMessage(r, p, to, pc) ==
    Enter(r, "move", pc, p, to) /\ Moving(p) /\ UNCHANGED <<box, excuse>>

DeleteMessage(r, p) ==
    /\ Enter(r, "delete", "store", p, None)
    /\ Excused({At(p).text}, "asked")
    /\ UNCHANGED <<box, moves>>

(* The web client deletes for good.                                        *)
HandleDeleteEmail(r) == \E p \in Listed : DeleteMessage(r, p)

(* A delete without `hard' moves to the Trash, if there is one and the     *)
(* message is not in it.                                                   *)
handleDelete(r) ==
    \E p \in OfSession, hard \in BOOLEAN :
        LET trash == discoverTrashFolder IN
        IF ~hard /\ trash \notin {None, p[2]}
        THEN MoveMessage(r, p, trash, "move")
        ELSE DeleteMessage(r, p)

(* To a folder of any name, there or not. *)
handleMove(r) ==
    \E p \in OfSession, to \in Names : to # p[2] /\ MoveMessage(r, p, to, "move")

(* The folder is created when it is not there.                             *)
handleSnooze(r) ==
    \E p \in OfSession :
        /\ Snoozed # p[2]
        /\ MoveMessage(r, p, Snoozed, IF box[<<Own, Snoozed>>] = None THEN "create" ELSE "move")

handleReportSpam(r) ==
    \E p \in OfSession :
        /\ discoverJunkFolder \notin {None, p[2]}
        /\ MoveMessage(r, p, discoverJunkFolder, "move")

(* Setting or clearing \Deleted. *)
handleSetFlag(r) ==
    /\ \E p \in OfSession :
          \/ Enter(r, "flag", "flag", p, None) /\ UNCHANGED moves
          \/ Enter(r, "flag", "unflag", p, None) /\ Moving(p)
    /\ UNCHANGED <<box, excuse>>

(* A text that is saved or sent, and the draft it was opened from, if any: *)
(* a window never learns the UID of a draft it saved.                      *)
Compose(r, op, pc, acct, v, uid) ==
    /\ req[r] = None /\ Counted
    /\ req' = [req EXCEPT ![r] =
          [op |-> op, acct |-> acct, folder |-> discoverDraftsFolder, uid |-> uid,
           to |-> v, pc |-> pc,
           meant |-> IF uid = 0 THEN None
                     ELSE box[<<Own, discoverDraftsFolder>>][uid].text]]
    /\ UNCHANGED <<box, excuse, moves>>

Opened == {0} \cup {p[3] : p \in ListedDrafts}

(* The old version goes before the new one comes. *)
HandleSaveDraft(r) ==
    \E v \in Versions, u \in Opened :
        Compose(r, "save", IF u = 0 THEN "append" ELSE "store", Own, v, u)

handleSaveDraft(r) == \E v \in Versions : Compose(r, "save", "append", Own, v, 0)

(* With an account_email the mailbox is that account's from then on, also  *)
(* for the draft, which is named by the session's UID.                     *)
HandleComposeEmail(r) ==
    \E v \in Versions, a \in Accounts, u \in Opened : Compose(r, "send", "smtp", a, v, u)

handleSend(r) == \E v \in Versions : Compose(r, "send", "smtp", Own, v, 0)

(* The mailbox a request works on. *)
Source(q) == <<q.acct, q.folder>>

(* History: a folder of a deleted one's name numbers its messages from the *)
(* start, and no handler reads UIDVALIDITY: what a request under way names *)
(* there is not what it meant.                                             *)
Voided(k) ==
    [r \in Requests |->
        IF req[r] # None /\ Source(req[r]) = k THEN [req[r] EXCEPT !.meant = None]
                                               ELSE req[r]]

CreateMailbox(k) == [box EXCEPT ![k] = <<>>]
DeleteMailbox(k) == [box EXCEPT ![k] = None]

handleCreateFolder ==
    /\ ~isProtectedFolder(Label)
    /\ box[<<Own, Label>>] = None /\ Counted
    /\ box' = CreateMailbox(<<Own, Label>>)
    /\ UNCHANGED <<req, excuse, moves>>

handleDeleteFolder ==
    /\ ~isProtectedFolder(Label)
    /\ box[<<Own, Label>>] # None /\ Counted
    /\ LET s == box[<<Own, Label>>] IN
       Excused({s[u].text : u \in {v \in DOMAIN s : s[v] # None}}, "folder")
    /\ box' = DeleteMailbox(<<Own, Label>>)
    /\ req' = Voided(<<Own, Label>>)
    /\ UNCHANGED moves

Target(q) == box[Source(q)][q.uid].text

Present(q) == box[Source(q)] # None /\ ~Gone(box[Source(q)], q.uid)

Marked(s, u) == [s EXCEPT ![u].deleted = TRUE]

Expunged(s) ==
    [u \in DOMAIN s |-> IF s[u] # None /\ s[u].deleted THEN None ELSE s[u]]

Destination(q) == <<q.acct, q.to>>

(* APPEND of the text to a folder of the request's account.                *)
AppendTo(k, t) == [box EXCEPT ![k] = Append(@, [text |-> t, deleted |-> FALSE])]

SaveDraft(q) == AppendTo(<<q.acct, discoverDraftsFolder>>, q.to)
SaveToSent(q) == AppendTo(<<q.acct, discoverSentFolder>>, q.to)

(* What the server does for a command; nothing where the UID is gone.      *)
Effect(q, pc) ==
    CASE pc \in {"store", "flag"} ->
             IF Present(q) THEN [box EXCEPT ![Source(q)] = Marked(@, q.uid)] ELSE box
      [] pc = "unflag" ->
             IF Present(q)
             THEN [box EXCEPT ![Source(q)] = [@ EXCEPT ![q.uid].deleted = FALSE]]
             ELSE box
      [] pc = "create" ->
             IF box[Destination(q)] = None THEN CreateMailbox(Destination(q)) ELSE box
      [] pc = "expunge" ->
             IF box[Source(q)] # None THEN [box EXCEPT ![Source(q)] = Expunged(@)] ELSE box
      [] pc = "copy" ->
             IF Present(q)
             THEN [box EXCEPT ![Destination(q)] = Append(@, box[Source(q)][q.uid])]
             ELSE box
      [] pc = "move" ->
             IF Present(q)
             THEN [box EXCEPT ![Destination(q)] = Append(@, box[Source(q)][q.uid]),
                              ![Source(q)] = [@ EXCEPT ![q.uid] = None]]
             ELSE box
      [] pc = "append" -> SaveDraft(q)
      [] pc = "file" -> SaveToSent(q)
      [] OTHER -> box

(* A fallback that expunges without marking the source. *)
OnOkUnmarked(q) ==
    CASE q.pc = "create" -> "move"
      [] q.pc = "copy" -> "expunge"
      [] q.pc = "store" -> "expunge"
      [] q.pc = "expunge" /\ q.op = "save" -> "append"
      [] q.pc = "smtp" -> "file"
      [] q.pc = "file" /\ q.uid # 0 -> "store"
      [] OTHER -> "idle"

(* The next command after a good answer, and (below) after a bad one.       *)
OnOk(q) ==
    CASE q.pc = "create" -> "move"
      [] q.pc = "copy" -> "store"
      [] q.pc = "store" -> "expunge"
      [] q.pc = "expunge" /\ q.op = "save" -> "append"
      [] q.pc = "smtp" -> "file"
      [] q.pc = "file" /\ q.uid # 0 -> "store"
      [] OTHER -> "idle"

(* A move that marks and expunges whether or not it could copy. *)
OnErrorGoOn(q) ==
    CASE q.pc = "move" -> "copy"
      [] q.pc = "copy" -> "store"
      [] q.pc \in {"store", "expunge"} /\ q.op = "save" -> "append"
      [] OTHER -> "idle"

(* MoveMessage falls back on any error of MOVE; the errors of DeleteDraft  *)
(* and of SaveToSent are only logged.                                      *)
OnError(q) ==
    CASE q.pc = "move" -> "copy"
      [] q.pc = "file" /\ q.uid # 0 -> "store"
      [] q.pc \in {"store", "expunge"} /\ q.op = "save" -> "append"
      [] OTHER -> "idle"

Continue(r, pc) ==
    req' = [req EXCEPT ![r] = IF pc = "idle" THEN None ELSE [@ EXCEPT !.pc = pc]]

(* History: a text that is marked instead of the one that was meant; one   *)
(* the user marked; drafts that were replaced or sent.                     *)
Reasons(q) ==
    CASE q.pc \in {"store", "move"} /\ Present(q) /\ Target(q) # q.meant ->
             Excused({Target(q)}, "crossed")
      [] q.pc = "flag" /\ Present(q) -> Excused({Target(q)}, "marked")
      [] q.pc = "append" -> Excused({q.meant} \ {None}, "replaced")
      [] q.pc = "smtp" -> Excused({q.meant} \ {None}, "sent")
      [] OTHER -> UNCHANGED excuse

(* History: a text that such a request moves, copies or unmarks.           *)
Moved(q) ==
    moves' = IF q.pc \in {"move", "copy", "unflag"} /\ q.meant = None /\ Present(q)
             THEN [moves EXCEPT ![Target(q)] = @ + 1] ELSE moves

(* A folder that is not there, or a server without MOVE, refuses.          *)
Refused(q) ==
    \/ box[Source(q)] = None
    \/ q.pc \in {"copy", "move"} /\ box[Destination(q)] = None

CommandOk(r) ==
    LET q == req[r] IN
    /\ q # None /\ ~Refused(q)
    /\ box' = Effect(q, q.pc)
    /\ Continue(r, OnOk(q))
    /\ Reasons(q) /\ Moved(q)
    /\ UNCHANGED count

CommandRefused(r) ==
    LET q == req[r] IN
    /\ q # None
    /\ Refused(q) \/ q.pc = "move"
    /\ Continue(r, OnError(q))
    /\ UNCHANGED <<box, excuse, moves, count>>

(* An error, before or after the command took effect, or, of a MOVE, when  *)
(* the message is copied and not yet removed.                              *)
CommandFails(r) ==
    LET q == req[r] IN
    /\ q # None /\ ~Refused(q)
    /\ count.faults < MaxFaults
    /\ count' = [count EXCEPT !.faults = @ + 1]
    /\ Continue(r, OnError(q))
    /\ \/ /\ UNCHANGED <<box, moves>>
          /\ IF q.pc = "append" THEN Excused({q.meant} \ {None}, "unsaved")
                                ELSE UNCHANGED excuse
       \/ /\ box' = Effect(q, q.pc)
          /\ Reasons(q) /\ Moved(q)
       \/ /\ q.pc = "move" /\ Present(q)
          /\ box' = Effect(q, "copy")
          /\ UNCHANGED <<excuse, moves>>

(* Another mail client marks a message as deleted.                         *)
OtherMarks ==
    /\ count.others < MaxOthers
    /\ count' = [count EXCEPT !.others = @ + 1]
    /\ \E p \in Messages :
          /\ ~At(p).deleted
          /\ box' = [box EXCEPT ![<<p[1], p[2]>>] = Marked(@, p[3])]
          /\ Excused({At(p).text}, "marked")
    /\ UNCHANGED <<req, moves>>

Command(r) == CommandOk(r) \/ CommandRefused(r) \/ CommandFails(r)

Next ==
    \/ \E r \in Requests :
          \/ HandleDeleteEmail(r) \/ handleDelete(r)
          \/ handleMove(r) \/ handleSnooze(r) \/ handleReportSpam(r)
          \/ handleSetFlag(r)
          \/ HandleSaveDraft(r) \/ handleSaveDraft(r)
          \/ HandleComposeEmail(r) \/ handleSend(r)
          \/ Command(r)
    \/ handleCreateFolder \/ handleDeleteFolder
    \/ OtherMarks

Spec == Init /\ [][Next]_vars

Working(r, ops) == req[r] # None /\ req[r].op \in ops

(* A message that is nowhere was deleted on request, was marked deleted by *)
(* the user or by another client, was in a folder that was deleted, was    *)
(* crossed with one of another account or of a folder that was deleted, or *)
(* is a draft that was sent, that a newer one replaces, that is being      *)
(* replaced, or that was lost when its replacement could not be appended.  *)
(* No move loses one, whatever order of moves, deletes, failures and       *)
(* refused commands.                                                       *)
NothingLost ==
    LET kept == {At(p).text : p \in Messages} IN
    \A t \in Texts \ (Versions \cup kept) :
        \/ excuse[t] # {}
        \/ \E r \in Requests : Working(r, {"save"}) /\ req[r].meant = t

(* When no request is under way, a message that is not marked deleted is    *)
(* there once, or once for every request that moved or unmarked it, and    *)
(* every command that failed: the fallback for MOVE copies a message no    *)
(* more often, and each copy is balanced by the mark on its source.        *)
CopiesBounded ==
    (\A r \in Requests : req[r] = None) =>
        LET kept == {p \in Messages : ~At(p).deleted} IN
        \A t \in Texts \ Versions :
            Cardinality({p \in kept : At(p).text = t})
                <= count.faults + (IF moves[t] = 0 THEN 1 ELSE moves[t])

=============================================================================
