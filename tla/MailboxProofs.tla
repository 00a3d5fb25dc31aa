--------------------------- MODULE MailboxProofs ---------------------------
(***************************************************************************)
(* Proofs about the mailboxes (module Mailbox): no move loses a message,   *)
(* and none is copied more often than moves and failures account for.      *)
(*                                                                         *)
(* The invariant behind it (MailInv) says where a message is kept: at a    *)
(* UID, unmarked, that no request is about to mark because it has already  *)
(* copied the message.  A UID does not name another message while its      *)
(* folder is there, so that a copy is never one such a request can mark.   *)
(*                                                                         *)
(* The second invariant (CountInv) counts, for each text, its messages,    *)
(* those that are unmarked and that no request is about to mark, and the   *)
(* requests that still owe a move or an unmarking of it: a request may     *)
(* leave one more of them only when it is done, or by a command that fails.*)
(***************************************************************************)
EXTENDS Mailbox, SequenceTheorems, WellFoundedInduction, FiniteSetTheorems, TLAPS

(* Requests by what they ask for.                                          *)
MoveRequest ==
    [op : {"move"}, pc : {"create", "move", "copy", "store", "expunge"}, acct : {Own},
     folder : Names, uid : Nat, meant : Texts \cup {None}, to : Names]

DeleteRequest ==
    [op : {"delete"}, pc : {"store", "expunge"}, acct : {Own},
     folder : Names, uid : Nat, meant : Texts \cup {None}, to : {None}]

FlagRequest ==
    [op : {"flag"}, pc : {"flag", "unflag"}, acct : {Own},
     folder : Names, uid : Nat, meant : Texts \cup {None}, to : {None}]

SaveRequest ==
    [op : {"save"}, pc : {"store", "expunge", "append"}, acct : {Own},
     folder : {discoverDraftsFolder}, uid : Nat, meant : Texts \cup {None}, to : Versions]

SendRequest ==
    [op : {"send"}, pc : {"smtp", "file", "store", "expunge"}, acct : Accounts,
     folder : {discoverDraftsFolder}, uid : Nat, meant : Texts \cup {None}, to : Versions]

KnownRequest == MoveRequest \cup DeleteRequest \cup FlagRequest \cup SaveRequest \cup SendRequest

Folders == Accounts \X Names

MailTypes ==
    /\ box \in [Folders -> Seq(Item \cup {None}) \cup {None}]
    /\ \A a \in Accounts : box[<<a, discoverDraftsFolder>>] # None
    /\ \A a \in Accounts : discoverSentFolder \in Names => box[<<a, discoverSentFolder>>] # None
    /\ req \in [Requests -> KnownRequest \cup {None}]
    /\ excuse \in [Texts -> SUBSET {"asked", "marked", "crossed", "replaced",
                                    "unsaved", "sent", "folder"}]

(* A request to move names another folder, and a UID its folder has given  *)
(* unless that folder was deleted.                                         *)
UidsInv ==
    \A r \in Requests : req[r] # None /\ req[r].op = "move" =>
        /\ req[r].to # req[r].folder
        /\ req[r].meant # None => /\ box[Source(req[r])] # None
                                  /\ req[r].uid \in DOMAIN box[Source(req[r])]

(* The text a request to delete, or a sent draft, meant may be gone.       *)
ExcusesInv ==
    \A r \in Requests :
        req[r] # None /\ req[r].meant \in Texts =>
            \/ excuse[req[r].meant] # {}
            \/ req[r].op \in {"move", "flag", "save"}
            \/ req[r].op = "send" /\ req[r].pc = "smtp"

(* The message is copied and about to be marked.                           *)
Copied(k, u) ==
    \E r \in Requests : /\ req[r] # None /\ req[r].op = "move" /\ req[r].pc = "store"
                        /\ req[r].meant # None /\ Source(req[r]) = k /\ req[r].uid = u

Is(k, u, t) == ~Gone(box[k], u) /\ box[k][u].text = t /\ ~box[k][u].deleted

Kept(t) == \E k \in Folders : box[k] # None
              /\ \E u \in DOMAIN box[k] : Is(k, u, t) /\ ~Copied(k, u)

Saving(t) == \E r \in Requests : Working(r, {"save"}) /\ req[r].meant = t

(* A message is kept, unmarked and not about to be marked for a copy.      *)
KeptInv == \A t \in Texts \ Versions : excuse[t] # {} \/ Saving(t) \/ Kept(t)

MailInv == MailTypes /\ UidsInv /\ ExcusesInv /\ KeptInv

-----------------------------------------------------------------------------

(* None marks what is not there, and is nothing that may be there.         *)
LEMMA NoneIsNothing ==
    /\ None \notin Item /\ None \notin Seq(Item \cup {None}) /\ None \notin Request
    /\ None \notin Texts /\ None \notin Names
  BY FoldersAssumption

(* CHOOSE finds the first of the folders that LIST names.                  *)
LEMMA LeastOfAll ==
    ASSUME NEW is \in SUBSET Nat, is # {}
    PROVE  \E i \in is : \A j \in is : i <= j
  <1>. DEFINE less == {ss \in Nat \X Nat : ss[1] < ss[2]}
  <1>1. IsWellFoundedOn(less, Nat)
    BY NatLessThanWellFounded DEF OpToRel
  <1>2. PICK i \in is : \A j \in is : <<j, i>> \notin less
    BY <1>1, WFMin
  <1>3. \A j \in is : ~(j < i)
    BY <1>2
  <1>. QED
    BY <1>3

(* Discovery answers a folder that LIST names, or nothing.                 *)
LEMMA DiscoverIsListed ==
    ASSUME NEW uses, NEW guesses
    PROVE  Discover(uses, guesses) \in Names \cup {None}
  <1>. DEFINE byUse == {i \in DOMAIN Listing : Listing[i].use \in uses}
              byName == {i \in DOMAIN Listing : Listing[i].name \in guesses}
              first(is) == Listing[CHOOSE i \in is : \A j \in is : i <= j].name
  <1>1. ASSUME NEW is \in SUBSET DOMAIN Listing, is # {}
        PROVE  first(is) \in Names
    <2>1. is \in SUBSET Nat
      BY FoldersAssumption
    <2>2. (CHOOSE i \in is : \A j \in is : i <= j) \in is
      BY <1>1, <2>1, LeastOfAll
    <2>. QED
      BY <2>2 DEF Names
  <1>2. byUse \in SUBSET DOMAIN Listing /\ byName \in SUBSET DOMAIN Listing
    OBVIOUS
  <1>3. Discover(uses, guesses) =
           CASE byUse # {} -> first(byUse)
             [] byUse = {} /\ byName # {} -> first(byName)
             [] OTHER -> None
    BY DEF Discover
  <1>. HIDE DEF byUse, byName, first
  <1>. QED
    BY <1>1, <1>2, <1>3

(* The folders messages are moved to are known.                            *)
LEMMA SystemFolders ==
    /\ discoverTrashFolder \in Names \cup {None}
    /\ discoverJunkFolder \in Names \cup {None}
    /\ Label \in Names /\ Snoozed \in Names
  BY DiscoverIsListed DEF discoverTrashFolder, discoverJunkFolder, Names, Snoozed

(* A request is none of the others.                                        *)
LEMMA RequestKnown ==
    ASSUME NEW q \in KnownRequest
    PROVE  /\ q # None /\ q \in Request
           /\ q.acct \in Accounts /\ q.folder \in Names /\ Source(q) \in Folders
           /\ q.uid \in Nat /\ q.meant \in Texts \cup {None}
           /\ q.op \in {"move", "delete", "flag", "save", "send"}
           /\ q.op = "move" => q \in MoveRequest /\ Destination(q) \in Folders
           /\ q.op = "delete" => q \in DeleteRequest
           /\ q.op = "flag" => q \in FlagRequest
           /\ q.op = "save" => q \in SaveRequest
           /\ q.op = "send" => q \in SendRequest
  <1>1. q \in Request /\ q.acct \in Accounts /\ q.folder \in Names
    BY FoldersAssumption DEF KnownRequest, MoveRequest, DeleteRequest, FlagRequest,
       SaveRequest, SendRequest, Request, Ops, Accounts
  <1>2. q # None
    BY <1>1, FoldersAssumption
  <1>. QED
    BY <1>1, <1>2 DEF KnownRequest, MoveRequest, DeleteRequest, FlagRequest, SaveRequest,
       SendRequest, Source, Destination, Folders, Accounts

(* At the start every message is at its UID and unmarked.                  *)
LEMMA MailInit == Init => MailInv
  <1>. SUFFICES ASSUME Init PROVE MailInv
    OBVIOUS
  <1>1. \A r \in Requests : req[r] = None
    BY DEF Init
  <1>. DEFINE s(k) == [u \in DOMAIN Mail[k] |-> [text |-> Mail[k][u], deleted |-> FALSE]]
  <1>2. ASSUME NEW k \in DOMAIN Mail
        PROVE  /\ s(k) \in Seq(Item \cup {None}) /\ s(k) # None /\ k \in Folders
               /\ \A u \in DOMAIN Mail[k] : s(k)[u] # None
    <2>1. Mail[k] \in Seq(Texts) /\ DOMAIN Mail[k] = 1..Len(Mail[k]) /\ k \in Folders
      BY FoldersAssumption DEF Folders
    <2>2. \A u \in DOMAIN Mail[k] :
             /\ [text |-> Mail[k][u], deleted |-> FALSE] \in Item
             /\ [text |-> Mail[k][u], deleted |-> FALSE] # None
      <3>1. \A u \in DOMAIN Mail[k] : Mail[k][u] \in Texts
        BY <2>1
      <3>2. \A u \in DOMAIN Mail[k] : [text |-> Mail[k][u], deleted |-> FALSE] \in Item
        BY <3>1 DEF Item
      <3>. QED
        BY <3>2, NoneIsNothing
    <2>3. s(k) \in [1..Len(Mail[k]) -> Item \cup {None}] /\ Len(Mail[k]) \in Nat
      BY <2>1, <2>2
    <2>4. s(k) \in Seq(Item \cup {None})
      BY <2>3, SeqDef
    <2>. QED
      BY <2>1, <2>2, <2>4, FoldersAssumption
  <1>3. /\ box = [k \in Folders |-> IF k \in DOMAIN Mail THEN s(k)
                                    ELSE IF k[2] = Snoozed THEN None ELSE <<>>]
        /\ excuse = [t \in Texts |-> {}]
    BY DEF Init, Folders
  <1>. HIDE DEF s
  <1>4. MailTypes
    <2>1. <<>> \in Seq(Item \cup {None}) /\ <<>> # None
      <3>1. <<>> \in Seq(Item \cup {None})
        BY EmptySeq
      <3>. QED
        BY <3>1, NoneIsNothing
    <2>2. box \in [Folders -> Seq(Item \cup {None}) \cup {None}]
      BY <1>2, <1>3, <2>1
    <2>3. ASSUME NEW a \in Accounts, NEW f \in Names, f # Snoozed PROVE box[<<a, f>>] # None
      BY <1>2, <1>3, <2>1, <2>3 DEF Folders
    <2>4. req \in [Requests -> KnownRequest \cup {None}]
      BY DEF Init
    <2>. QED
      BY <1>3, <2>2, <2>3, <2>4, FoldersAssumption DEF MailTypes
  <1>5. UidsInv /\ ExcusesInv
    BY <1>1 DEF UidsInv, ExcusesInv
  <1>6. KeptInv
    <2>1. SUFFICES ASSUME NEW t \in Texts \ Versions PROVE Kept(t)
      BY DEF KeptInv
    <2>2. PICK k \in DOMAIN Mail : \E u \in DOMAIN Mail[k] : Mail[k][u] = t
      BY <2>1 DEF Texts
    <2>3. PICK u \in DOMAIN Mail[k] : Mail[k][u] = t
      BY <2>2
    <2>4. k \in Folders /\ box[k] = s(k) /\ s(k) # None /\ s(k)[u] # None
      BY <1>2, <1>3
    <2>5. u \in DOMAIN s(k) /\ s(k)[u] = [text |-> t, deleted |-> FALSE]
      BY <2>3 DEF s
    <2>6. ~Copied(k, u)
      BY <1>1 DEF Copied
    <2>. QED
      BY <2>4, <2>5, <2>6 DEF Kept, Is, Gone
  <1>. QED
    BY <1>4, <1>5, <1>6 DEF MailInv
-----------------------------------------------------------------------------

(* What is at a UID of a folder.                                           *)
LEMMA ItemThere ==
    ASSUME MailTypes, NEW k \in Folders, box[k] # None, NEW u \in DOMAIN box[k]
    PROVE  /\ box[k] \in Seq(Item \cup {None}) /\ DOMAIN box[k] = 1..Len(box[k])
           /\ u \in Nat /\ u # 0 /\ box[k][u] \in Item \cup {None}
           /\ box[k][u] # None => /\ box[k][u] \in Item /\ box[k][u].text \in Texts
                                  /\ box[k][u].deleted \in BOOLEAN
  <1>1. box[k] \in Seq(Item \cup {None})
    BY DEF MailTypes
  <1>2. DOMAIN box[k] = 1..Len(box[k]) /\ Len(box[k]) \in Nat
    BY <1>1
  <1>3. u \in Nat /\ u # 0
    BY <1>2
  <1>4. box[k][u] \in Item \cup {None}
    BY <1>1, <1>2, ElementOfSeq
  <1>. QED
    BY <1>1, <1>2, <1>3, <1>4 DEF Item

(* What a page lists is there.                                             *)
LEMMA MessageThere ==
    ASSUME MailTypes, NEW p \in Messages
    PROVE  /\ p[1] \in Accounts /\ p[2] \in Names /\ <<p[1], p[2]>> \in Folders
           /\ box[<<p[1], p[2]>>] # None /\ p[3] \in DOMAIN box[<<p[1], p[2]>>]
           /\ p[3] \in Nat /\ p[3] # 0
           /\ At(p) = box[<<p[1], p[2]>>][p[3]] /\ At(p) \in Item
           /\ At(p).text \in Texts /\ ~Gone(box[<<p[1], p[2]>>], p[3])
  <1>1. PICK k \in Folders : /\ box[k] # None
                             /\ p \in {<<k[1], k[2], u>> : u \in {v \in DOMAIN box[k] :
                                                                     box[k][v] # None}}
    BY DEF Messages, Folders
  <1>2. PICK u \in DOMAIN box[k] : box[k][u] # None /\ p = <<k[1], k[2], u>>
    BY <1>1
  <1>3. k = <<k[1], k[2]>> /\ k[1] \in Accounts /\ k[2] \in Names
    BY DEF Folders
  <1>4. p[1] = k[1] /\ p[2] = k[2] /\ p[3] = u
    BY <1>2
  <1>. QED
    BY <1>1, <1>2, <1>3, <1>4, ItemThere DEF At, Gone

(* A new request leaves every message where it is.                         *)
LEMMA NewRequestKeeps ==
    ASSUME MailInv, NEW r \in Requests, req[r] = None, NEW q \in KnownRequest,
           req' = [req EXCEPT ![r] = q], UNCHANGED box,
           excuse' \in [Texts -> SUBSET {"asked", "marked", "crossed", "replaced",
                                         "unsaved", "sent", "folder"}],
           \A t \in Texts : excuse[t] \subseteq excuse'[t],
           q.op = "move" => /\ q.pc # "store" /\ q.to # q.folder /\ box[Source(q)] # None
                            /\ q.uid \in DOMAIN box[Source(q)],
           q.meant \in Texts => \/ excuse'[q.meant] # {}
                                \/ q.op \in {"move", "flag", "save"}
                                \/ q.op = "send" /\ q.pc = "smtp"
    PROVE  MailInv'
  <1>. USE DEF MailInv
  <1>1. /\ req'[r] = q /\ \A p \in Requests \ {r} : req'[p] = req[p]
        /\ req' \in [Requests -> KnownRequest \cup {None}]
    BY DEF MailTypes
  <1>2. MailTypes'
    BY <1>1 DEF MailTypes
  <1>3. UidsInv'
    BY <1>1 DEF UidsInv
  <1>4. ExcusesInv'
    BY <1>1 DEF ExcusesInv
  <1>5. KeptInv'
    <2>1. ASSUME NEW k, NEW u, Copied(k, u)' PROVE Copied(k, u)
      BY <1>1, <2>1 DEF Copied
    <2>2. ASSUME NEW t \in Texts \ Versions, Kept(t) PROVE Kept(t)'
      <3>1. PICK k \in Folders : /\ box[k] # None
                                 /\ \E u \in DOMAIN box[k] : Is(k, u, t) /\ ~Copied(k, u)
        BY <2>2 DEF Kept
      <3>2. PICK u \in DOMAIN box[k] : Is(k, u, t) /\ ~Copied(k, u)
        BY <3>1
      <3>3. Is(k, u, t)' /\ ~Copied(k, u)'
        BY <2>1, <3>2 DEF Is
      <3>. QED
        BY <3>1, <3>3 DEF Kept
    <2>3. ASSUME NEW t \in Texts, Saving(t) PROVE Saving(t)'
      BY <1>1, <2>3 DEF Saving, Working
    <2>. QED
      BY <2>2, <2>3 DEF KeptInv
  <1>. QED
    BY <1>2, <1>3, <1>4, <1>5

(* A reason is added and none is taken away.                               *)
LEMMA ExcusedGrows ==
    ASSUME MailTypes, NEW ts, NEW why \in {"asked", "marked", "crossed", "replaced",
                                           "unsaved", "sent", "folder"}, Excused(ts, why)
    PROVE  /\ excuse' \in [Texts -> SUBSET {"asked", "marked", "crossed", "replaced",
                                            "unsaved", "sent", "folder"}]
           /\ \A t \in Texts : excuse[t] \subseteq excuse'[t]
           /\ \A t \in Texts : t \in ts => excuse'[t] # {}
  BY DEF MailTypes, Excused

(* A request to move a listed message to another folder.                   *)
LEMMA MoveMessageKeeps ==
    ASSUME MailInv, NEW r \in Requests, NEW p \in OfSession, NEW to \in Names,
           NEW pc \in {"create", "move"}, to # p[2], MoveMessage(r, p, to, pc)
    PROVE  MailInv'
  <1>. USE DEF MailInv
  <1>. DEFINE q == [op |-> "move", acct |-> Own, folder |-> p[2], uid |-> p[3], to |-> to,
                    meant |-> At(p).text, pc |-> pc]
  <1>1. /\ p[1] = Own /\ p[2] \in Names /\ box[<<Own, p[2]>>] # None
        /\ p[3] \in DOMAIN box[<<Own, p[2]>>] /\ p[3] \in Nat /\ At(p).text \in Texts
    BY MessageThere DEF OfSession
  <1>2. q \in KnownRequest
    BY <1>1 DEF KnownRequest, MoveRequest
  <1>3. req[r] = None /\ req' = [req EXCEPT ![r] = q] /\ UNCHANGED <<box, excuse>>
    BY DEF MoveMessage, Enter
  <1>4. /\ q.op = "move" /\ q.pc # "store" /\ q.to # q.folder /\ q.uid = p[3]
        /\ Source(q) = <<Own, p[2]>>
    BY DEF Source
  <1>. HIDE DEF q
  <1>. QED
    BY <1>1, <1>2, <1>3, <1>4, NewRequestKeeps DEF MailTypes

(* A request to delete a listed message.                                   *)
LEMMA DeleteMessageKeeps ==
    ASSUME MailInv, NEW r \in Requests, NEW p \in Messages, DeleteMessage(r, p)
    PROVE  MailInv'
  <1>. USE DEF MailInv
  <1>. DEFINE q == [op |-> "delete", acct |-> Own, folder |-> p[2], uid |-> p[3],
                    to |-> None, meant |-> At(p).text, pc |-> "store"]
  <1>1. p[2] \in Names /\ p[3] \in Nat /\ At(p).text \in Texts
    BY MessageThere
  <1>2. q \in KnownRequest
    BY <1>1 DEF KnownRequest, DeleteRequest
  <1>3. /\ req[r] = None /\ req' = [req EXCEPT ![r] = q] /\ UNCHANGED box
        /\ Excused({At(p).text}, "asked")
    BY DEF DeleteMessage, Enter
  <1>4. q.op = "delete" /\ q.meant = At(p).text
    OBVIOUS
  <1>. HIDE DEF q
  <1>5. /\ excuse' \in [Texts -> SUBSET {"asked", "marked", "crossed", "replaced",
                                         "unsaved", "sent", "folder"}]
        /\ \A t \in Texts : excuse[t] \subseteq excuse'[t]
        /\ excuse'[q.meant] # {}
    BY <1>1, <1>3, <1>4, ExcusedGrows
  <1>. QED
    BY <1>2, <1>3, <1>4, <1>5, NewRequestKeeps

(* The handlers that delete and move.                                      *)
LEMMA HandlersKeep ==
    ASSUME MailInv, NEW r \in Requests,
           \/ HandleDeleteEmail(r) \/ handleDelete(r) \/ handleMove(r) \/ handleSnooze(r)
           \/ handleReportSpam(r)
    PROVE  MailInv'
  <1>1. CASE HandleDeleteEmail(r)
    <2>1. Listed \subseteq Messages
      BY DEF Listed, Unified, OfSession
    <2>. QED
      BY <1>1, <2>1, DeleteMessageKeeps DEF HandleDeleteEmail
  <1>2. CASE handleDelete(r)
    <2>1. PICK p \in OfSession, hard \in BOOLEAN :
             IF ~hard /\ discoverTrashFolder \notin {None, p[2]}
             THEN MoveMessage(r, p, discoverTrashFolder, "move")
             ELSE DeleteMessage(r, p)
      BY <1>2 DEF handleDelete
    <2>2. OfSession \subseteq Messages
      BY DEF OfSession
    <2>. QED
      BY <2>1, <2>2, SystemFolders, MoveMessageKeeps, DeleteMessageKeeps
  <1>3. CASE handleMove(r)
    BY <1>3, SystemFolders, MoveMessageKeeps DEF handleMove
  <1>4. CASE handleSnooze(r)
    BY <1>4, SystemFolders, MoveMessageKeeps DEF handleSnooze
  <1>5. CASE handleReportSpam(r)
    BY <1>5, SystemFolders, MoveMessageKeeps DEF handleReportSpam
  <1>. QED
    BY <1>1, <1>2, <1>3, <1>4, <1>5

(* A request to set or clear the mark.                                     *)
LEMMA SetFlagKeeps ==
    ASSUME MailInv, NEW r \in Requests, handleSetFlag(r)
    PROVE  MailInv'
  <1>. USE DEF MailInv
  <1>1. PICK p \in OfSession, pc \in {"flag", "unflag"} : Enter(r, "flag", pc, p, None)
    BY DEF handleSetFlag
  <1>. DEFINE q == [op |-> "flag", acct |-> Own, folder |-> p[2], uid |-> p[3],
                    to |-> None, meant |-> At(p).text, pc |-> pc]
  <1>2. p[2] \in Names /\ p[3] \in Nat /\ At(p).text \in Texts
    BY MessageThere DEF OfSession
  <1>3. q \in KnownRequest /\ q.op = "flag"
    BY <1>2 DEF KnownRequest, FlagRequest
  <1>4. /\ req[r] = None /\ req' = [req EXCEPT ![r] = q] /\ UNCHANGED <<box, excuse>>
    BY <1>1 DEF handleSetFlag, Enter
  <1>. HIDE DEF q
  <1>. QED
    BY <1>3, <1>4, NewRequestKeeps DEF MailTypes

(* The draft a compose window was opened from, if any.                     *)
LEMMA OpenedIs ==
    ASSUME MailTypes, NEW u \in Opened
    PROVE  /\ u \in Nat
           /\ (IF u = 0 THEN None ELSE box[<<Own, discoverDraftsFolder>>][u].text)
                 \in Texts \cup {None}
  <1>1. CASE u = 0
    BY <1>1
  <1>2. CASE u # 0
    <2>1. PICK p \in ListedDrafts : u = p[3]
      BY <1>2 DEF Opened
    <2>2. p \in Messages /\ p[1] = Own /\ p[2] = discoverDraftsFolder
      BY DEF ListedDrafts, OfSession
    <2>. QED
      BY <1>2, <2>1, <2>2, MessageThere
  <1>. QED
    BY <1>1, <1>2

(* A text that is saved or sent.                                           *)
LEMMA ComposeKeeps ==
    ASSUME MailInv, NEW r \in Requests, NEW op, NEW pc, NEW acct \in Accounts,
           NEW v \in Versions, NEW u \in Opened, Compose(r, op, pc, acct, v, u),
           \/ op = "save" /\ pc \in {"append", "store"} /\ acct = Own
           \/ op = "send" /\ pc = "smtp"
    PROVE  MailInv'
  <1>. USE DEF MailInv
  <1>. DEFINE meant == IF u = 0 THEN None ELSE box[<<Own, discoverDraftsFolder>>][u].text
              q == [op |-> op, acct |-> acct, folder |-> discoverDraftsFolder, uid |-> u,
                    to |-> v, pc |-> pc, meant |-> meant]
  <1>1. u \in Nat /\ meant \in Texts \cup {None}
    BY OpenedIs
  <1>2. req[r] = None /\ req' = [req EXCEPT ![r] = q] /\ UNCHANGED <<box, excuse>>
    BY DEF Compose
  <1>. HIDE DEF meant
  <1>3. q \in KnownRequest /\ q.op = op /\ q.pc = pc
    BY <1>1 DEF KnownRequest, SaveRequest, SendRequest
  <1>. HIDE DEF q
  <1>. QED
    BY <1>2, <1>3, NewRequestKeeps DEF MailTypes

(* The handlers behind compose windows.                                    *)
LEMMA WindowsKeep ==
    ASSUME MailInv, NEW r \in Requests,
           \/ HandleSaveDraft(r) \/ handleSaveDraft(r)
           \/ HandleComposeEmail(r) \/ handleSend(r)
    PROVE  MailInv'
  <1>1. 0 \in Opened /\ Own \in Accounts
    BY DEF Opened, Accounts
  <1>2. CASE HandleSaveDraft(r)
    BY <1>1, <1>2, ComposeKeeps DEF HandleSaveDraft
  <1>3. CASE handleSaveDraft(r)
    BY <1>1, <1>3, ComposeKeeps DEF handleSaveDraft
  <1>4. CASE HandleComposeEmail(r)
    BY <1>4, ComposeKeeps DEF HandleComposeEmail
  <1>5. CASE handleSend(r)
    BY <1>1, <1>5, ComposeKeeps DEF handleSend
  <1>. QED
    BY <1>2, <1>3, <1>4, <1>5
-----------------------------------------------------------------------------

(* What the commands do to the items of a folder.                          *)
Items == Seq(Item \cup {None})

(* One item of a folder is replaced.                                       *)
LEMMA PutItems ==
    ASSUME NEW s \in Items, NEW u \in DOMAIN s, NEW e \in Item
    PROVE  /\ [s EXCEPT ![u] = e] \in Items
           /\ DOMAIN [s EXCEPT ![u] = e] = DOMAIN s
           /\ \A v \in DOMAIN s : v # u => [s EXCEPT ![u] = e][v] = s[v]
           /\ [s EXCEPT ![u] = e][u] = e /\ e # None
  <1>1. u \in 1..Len(s) /\ DOMAIN s = 1..Len(s)
    BY DEF Items
  <1>2. e # None
    BY NoneIsNothing
  <1>. QED
    BY <1>1, <1>2, ExceptSeq DEF Items

(* An item with its mark set or cleared.                                   *)
LEMMA MarkIs ==
    ASSUME MailTypes, NEW k \in Folders, box[k] # None, NEW u \in DOMAIN box[k],
           box[k][u] # None
    PROVE  /\ [text |-> box[k][u].text, deleted |-> TRUE] \in Item
           /\ [text |-> box[k][u].text, deleted |-> FALSE] \in Item
           /\ [box EXCEPT ![k] = [@ EXCEPT ![u].deleted = TRUE]] =
                 [box EXCEPT ![k] =
                    [box[k] EXCEPT ![u] = [text |-> box[k][u].text, deleted |-> TRUE]]]
           /\ [box EXCEPT ![k] = [@ EXCEPT ![u].deleted = FALSE]] =
                 [box EXCEPT ![k] =
                    [box[k] EXCEPT ![u] = [text |-> box[k][u].text, deleted |-> FALSE]]]
  <1>1. box[k][u] \in Item /\ box[k][u].text \in Texts
    BY ItemThere
  <1>2. \A i \in Item : /\ [i EXCEPT !.deleted = TRUE] = [text |-> i.text, deleted |-> TRUE]
                       /\ [i EXCEPT !.deleted = FALSE] = [text |-> i.text, deleted |-> FALSE]
    <2>1. \A i \in Item, mark \in BOOLEAN :
             [i EXCEPT !.deleted = mark] = [text |-> i.text, deleted |-> mark]
      BY DEF Item
    <2>. QED
      BY <2>1
  <1>3. /\ [text |-> box[k][u].text, deleted |-> TRUE] \in Item
        /\ [text |-> box[k][u].text, deleted |-> FALSE] \in Item
    BY <1>1 DEF Item
  <1>4. [box EXCEPT ![k] = [@ EXCEPT ![u].deleted = TRUE]] =
           [box EXCEPT ![k] = [box[k] EXCEPT ![u] = [box[k][u] EXCEPT !.deleted = TRUE]]]
    OBVIOUS
  <1>5. [box EXCEPT ![k] = [@ EXCEPT ![u].deleted = FALSE]] =
           [box EXCEPT ![k] = [box[k] EXCEPT ![u] = [box[k][u] EXCEPT !.deleted = FALSE]]]
    OBVIOUS
  <1>. QED
    BY <1>1, <1>2, <1>3, <1>4, <1>5

(* EXPUNGE leaves what is not marked.                                      *)
LEMMA ExpungedItems ==
    ASSUME NEW s \in Items
    PROVE  /\ Expunged(s) \in Items /\ DOMAIN Expunged(s) = DOMAIN s
           /\ \A u \in DOMAIN s : s[u] # None /\ ~s[u].deleted => Expunged(s)[u] = s[u]
  <1>1. DOMAIN s = 1..Len(s) /\ Len(s) \in Nat /\ \A u \in 1..Len(s) : s[u] \in Item \cup {None}
    BY ElementOfSeq DEF Items
  <1>2. Expunged(s) \in [1..Len(s) -> Item \cup {None}]
    BY <1>1 DEF Expunged
  <1>3. Expunged(s) \in Items
    BY <1>1, <1>2, SeqDef DEF Items
  <1>. QED
    BY <1>3 DEF Expunged

(* APPEND adds an item at a UID the folder has not given.                  *)
LEMMA AppendedItems ==
    ASSUME NEW s \in Items, NEW e \in Item
    PROVE  /\ Append(s, e) \in Items /\ DOMAIN s \subseteq DOMAIN Append(s, e)
           /\ \A u \in DOMAIN s : Append(s, e)[u] = s[u]
           /\ Len(s) + 1 \in DOMAIN Append(s, e) /\ Len(s) + 1 \notin DOMAIN s
           /\ Append(s, e)[Len(s) + 1] = e /\ e # None
  <1>1. e # None
    BY NoneIsNothing
  <1>2. Append(s, e) \in Items /\ Len(Append(s, e)) = Len(s) + 1
    BY DEF Items
  <1>3. DOMAIN s = 1..Len(s) /\ DOMAIN Append(s, e) = 1..(Len(s) + 1) /\ Len(s) \in Nat
    BY <1>2 DEF Items
  <1>4. \A u \in 1..Len(s) : Append(s, e)[u] = s[u]
    BY DEF Items
  <1>5. Append(s, e)[Len(s) + 1] = e
    BY DEF Items
  <1>. QED
    BY <1>1, <1>2, <1>3, <1>4, <1>5

(* One folder gets other items.                                            *)
LEMMA FolderChanged ==
    ASSUME MailTypes, NEW k \in Folders, NEW s \in Items, box' = [box EXCEPT ![k] = s]
    PROVE  /\ box' \in [Folders -> Seq(Item \cup {None}) \cup {None}]
           /\ box'[k] = s /\ s # None /\ \A j \in Folders : j # k => box'[j] = box[j]
           /\ \A a \in Accounts : box'[<<a, discoverDraftsFolder>>] # None
           /\ \A a \in Accounts : discoverSentFolder \in Names
                                     => box'[<<a, discoverSentFolder>>] # None
  <1>1. s # None
    BY NoneIsNothing DEF Items
  <1>2. discoverDraftsFolder \in Names
    BY FoldersAssumption
  <1>3. \A j \in Folders : box'[j] = IF j = k THEN s ELSE box[j]
    BY DEF MailTypes
  <1>4. \A a \in Accounts, f \in Names : <<a, f>> \in Folders
    BY DEF Folders
  <1>. QED
    BY <1>1, <1>2, <1>3, <1>4 DEF MailTypes, Items

(* The user creates a folder.                                              *)
LEMMA CreateFolderKeeps ==
    ASSUME MailInv, handleCreateFolder
    PROVE  MailInv'
  <1>. USE DEF MailInv
  <1>. DEFINE k == <<Own, Label>>
  <1>1. k \in Folders /\ <<>> \in Items
    BY SystemFolders, EmptySeq DEF Folders, Accounts, Items
  <1>2. box[k] = None /\ box' = [box EXCEPT ![k] = <<>>] /\ UNCHANGED <<req, excuse>>
    BY DEF handleCreateFolder, CreateMailbox
  <1>. HIDE DEF k
  <1>3. MailTypes'
    BY <1>1, <1>2, FolderChanged DEF MailTypes
  <1>4. \A j \in Folders : box[j] # None => box'[j] = box[j]
    BY <1>1, <1>2, FolderChanged
  <1>5. UidsInv'
    <2>1. \A r \in Requests : req[r] # None => Source(req[r]) \in Folders
      BY RequestKnown DEF MailTypes
    <2>. QED
      BY <1>2, <1>4, <2>1 DEF UidsInv, Source
  <1>6. ExcusesInv'
    BY <1>2 DEF ExcusesInv
  <1>7. KeptInv'
    <2>1. ASSUME NEW t \in Texts, Kept(t) PROVE Kept(t)'
      <3>1. PICK j \in Folders : /\ box[j] # None
                                 /\ \E u \in DOMAIN box[j] : Is(j, u, t) /\ ~Copied(j, u)
        BY <2>1 DEF Kept
      <3>2. PICK u \in DOMAIN box[j] : Is(j, u, t) /\ ~Copied(j, u)
        BY <3>1
      <3>3. box'[j] = box[j] /\ ~Copied(j, u)'
        BY <1>2, <1>4, <3>1, <3>2 DEF Copied
      <3>. QED
        BY <3>1, <3>2, <3>3 DEF Kept, Is
    <2>. QED
      BY <1>2, <2>1 DEF KeptInv, Saving, Working
  <1>. QED
    BY <1>3, <1>5, <1>6, <1>7

(* The requests that named a folder that is deleted.                       *)
LEMMA VoidedIs ==
    ASSUME MailTypes, NEW k \in Folders, req' = Voided(k)
    PROVE  \A r \in Requests :
           /\ req'[r] = None <=> req[r] = None
           /\ req[r] # None =>
                 /\ req'[r] \in KnownRequest
                 /\ req'[r].op = req[r].op /\ req'[r].pc = req[r].pc
                 /\ req'[r].uid = req[r].uid /\ Source(req'[r]) = Source(req[r])
                 /\ req'[r].acct = req[r].acct /\ req'[r].folder = req[r].folder
                 /\ req'[r].to = req[r].to
                 /\ req'[r].meant = IF Source(req[r]) = k THEN None ELSE req[r].meant
  <1>1. ASSUME NEW q \in KnownRequest
        PROVE  /\ [q EXCEPT !.meant = None] \in KnownRequest
               /\ [q EXCEPT !.meant = None].op = q.op /\ [q EXCEPT !.meant = None].pc = q.pc
               /\ [q EXCEPT !.meant = None].uid = q.uid
               /\ Source([q EXCEPT !.meant = None]) = Source(q)
               /\ [q EXCEPT !.meant = None].acct = q.acct
               /\ [q EXCEPT !.meant = None].folder = q.folder
               /\ [q EXCEPT !.meant = None].to = q.to
               /\ [q EXCEPT !.meant = None].meant = None
    BY DEF KnownRequest, MoveRequest, DeleteRequest, FlagRequest, SaveRequest,
           SendRequest, Source
  <1>2. \A r \in Requests : req[r] \in KnownRequest \cup {None}
    BY DEF MailTypes
  <1>3. \A r \in Requests :
           req'[r] = IF req[r] # None /\ Source(req[r]) = k
                     THEN [req[r] EXCEPT !.meant = None] ELSE req[r]
    BY DEF Voided
  <1>4. \A q \in KnownRequest : q # None
    BY RequestKnown
  <1>5. ASSUME NEW r \in Requests, req[r] # None, Source(req[r]) = k
        PROVE  /\ req'[r] = [req[r] EXCEPT !.meant = None] /\ req[r] \in KnownRequest
               /\ req'[r] # None
    BY <1>1, <1>2, <1>3, <1>4, <1>5
  <1>6. ASSUME NEW r \in Requests, ~(req[r] # None /\ Source(req[r]) = k)
        PROVE  req'[r] = req[r] /\ req[r] \in KnownRequest \cup {None}
    BY <1>2, <1>3, <1>6
  <1>7. ASSUME NEW r \in Requests, req[r] # None
        PROVE  /\ req'[r] # None
               /\ req'[r] \in KnownRequest
               /\ req'[r].op = req[r].op /\ req'[r].pc = req[r].pc
               /\ req'[r].uid = req[r].uid /\ Source(req'[r]) = Source(req[r])
               /\ req'[r].acct = req[r].acct /\ req'[r].folder = req[r].folder
                 /\ req'[r].to = req[r].to
               /\ req'[r].meant = IF Source(req[r]) = k THEN None ELSE req[r].meant
    <2>1. CASE Source(req[r]) = k
      <3>. DEFINE c == [req[r] EXCEPT !.meant = None]
      <3>1. req'[r] = c /\ req[r] \in KnownRequest /\ req'[r] # None
        BY <1>5, <1>7, <2>1
      <3>2. /\ c \in KnownRequest /\ c.op = req[r].op /\ c.pc = req[r].pc
            /\ c.uid = req[r].uid /\ Source(c) = Source(req[r])
            /\ c.acct = req[r].acct /\ c.folder = req[r].folder /\ c.to = req[r].to /\ c.meant = None
        BY <1>1, <3>1
      <3>. HIDE DEF c
      <3>. QED
        BY <2>1, <3>1, <3>2
    <2>2. CASE Source(req[r]) # k
      BY <1>6, <1>7, <2>2
    <2>. QED
      BY <2>1, <2>2
  <1>8. \A r \in Requests : req[r] = None => req'[r] = None
    BY <1>6
  <1>. QED
    BY <1>7, <1>8

(* The user deletes a folder: what was in it is excused, and the requests  *)
(* that named its UIDs no longer name what they meant.                     *)
LEMMA DeleteFolderKeeps ==
    ASSUME MailInv, handleDeleteFolder
    PROVE  MailInv'
  <1>. USE DEF MailInv
  <1>. DEFINE k == <<Own, Label>>
              s == box[k]
              ts == {s[u].text : u \in {v \in DOMAIN s : s[v] # None}}
  <1>1. k \in Folders
    BY SystemFolders DEF Folders, Accounts
  <1>2. /\ box[k] # None /\ box' = [box EXCEPT ![k] = None] /\ Excused(ts, "folder")
        /\ req' = Voided(k)
    BY DEF handleDeleteFolder, DeleteMailbox
  <1>3. \A u \in DOMAIN box[k] : box[k][u] # None => box[k][u].text \in ts
    OBVIOUS
  <1>4. \A a \in Accounts : /\ <<a, discoverDraftsFolder>> # k
                            /\ <<a, discoverSentFolder>> # k
    BY FoldersAssumption
  <1>. HIDE DEF k, s, ts
  <1>5. \A r \in Requests :
           /\ req'[r] = None <=> req[r] = None
           /\ req[r] # None =>
                 /\ req'[r] \in KnownRequest
                 /\ req'[r].op = req[r].op /\ req'[r].pc = req[r].pc
                 /\ req'[r].uid = req[r].uid /\ Source(req'[r]) = Source(req[r])
                 /\ req'[r].folder = req[r].folder /\ req'[r].to = req[r].to
                 /\ req'[r].meant = IF Source(req[r]) = k THEN None ELSE req[r].meant
    BY <1>1, <1>2, VoidedIs
  <1>6. /\ excuse' \in [Texts -> SUBSET {"asked", "marked", "crossed", "replaced",
                                         "unsaved", "sent", "folder"}]
        /\ \A t \in Texts : excuse[t] \subseteq excuse'[t]
        /\ \A t \in Texts : t \in ts => excuse'[t] # {}
    BY <1>2, ExcusedGrows
  <1>7. MailTypes'
    <2>1. req' \in [Requests -> KnownRequest \cup {None}]
      BY <1>2, <1>5 DEF Voided
    <2>2. /\ box' \in [Folders -> Seq(Item \cup {None}) \cup {None}]
          /\ \A j \in Folders : j # k => box'[j] = box[j]
      BY <1>1, <1>2 DEF MailTypes
    <2>3. \A a \in Accounts, f \in Names : <<a, f>> \in Folders
      BY DEF Folders
    <2>. QED
      BY <1>4, <1>6, <2>1, <2>2, <2>3, FoldersAssumption DEF MailTypes
  <1>8. \A j \in Folders : j # k => box'[j] = box[j]
    BY <1>1, <1>2 DEF MailTypes
  <1>9. UidsInv'
    <2>1. \A r \in Requests : req[r] # None => Source(req[r]) \in Folders
      BY RequestKnown DEF MailTypes
    <2>. QED
      BY <1>5, <1>8, <2>1 DEF UidsInv
  <1>10. ExcusesInv'
    BY <1>5, <1>6, NoneIsNothing DEF ExcusesInv
  <1>11. KeptInv'
    <2>1. ASSUME NEW t \in Texts, Kept(t), excuse'[t] = {} PROVE Kept(t)'
      <3>1. PICK j \in Folders : /\ box[j] # None
                                 /\ \E u \in DOMAIN box[j] : Is(j, u, t) /\ ~Copied(j, u)
        BY <2>1 DEF Kept
      <3>2. PICK u \in DOMAIN box[j] : Is(j, u, t) /\ ~Copied(j, u)
        BY <3>1
      <3>3. j # k
        BY <1>3, <1>6, <2>1, <3>2 DEF Is, Gone
      <3>4. ~Copied(j, u)'
        BY <1>5, <3>2, <3>3 DEF Copied
      <3>5. box'[j] = box[j]
        BY <1>8, <3>3
      <3>. QED
        BY <3>1, <3>2, <3>4, <3>5 DEF Kept, Is
    <2>2. ASSUME NEW t \in Texts, Saving(t) PROVE Saving(t)'
      <3>1. PICK r \in Requests : req[r] # None /\ req[r].op = "save" /\ req[r].meant = t
        BY <2>2 DEF Saving, Working
      <3>2. req[r] \in SaveRequest
        BY <3>1, RequestKnown DEF MailTypes
      <3>3. req[r].acct \in Accounts /\ req[r].folder = discoverDraftsFolder
        BY <3>2, RequestKnown DEF SaveRequest, Accounts
      <3>4. Source(req[r]) # k
        BY <1>4, <3>3 DEF Source
      <3>. QED
        BY <1>5, <3>1, <3>4 DEF Saving, Working
    <2>. QED
      BY <1>6, <2>1, <2>2 DEF KeptInv
  <1>. QED
    BY <1>7, <1>9, <1>10, <1>11

(* One item is replaced: the others are as they were.                      *)
LEMMA MarkedFolder ==
    ASSUME MailTypes, NEW k \in Folders, box[k] # None, NEW u \in DOMAIN box[k],
           NEW e \in Item, box' = [box EXCEPT ![k] = [box[k] EXCEPT ![u] = e]]
    PROVE  /\ box' \in [Folders -> Seq(Item \cup {None}) \cup {None}]
           /\ \A a \in Accounts : box'[<<a, discoverDraftsFolder>>] # None
           /\ \A a \in Accounts : discoverSentFolder \in Names
                                     => box'[<<a, discoverSentFolder>>] # None
           /\ \A j \in Folders : box[j] # None =>
                 box'[j] # None /\ DOMAIN box'[j] = DOMAIN box[j]
           /\ \A j \in Folders : \A v, t : /\ box[j] # None /\ v \in DOMAIN box[j]
                                      /\ Is(j, v, t) /\ (j # k \/ v # u)
                                      => Is(j, v, t)'
           /\ box'[k][u] = e /\ ~Gone(box'[k], u)
  <1>. DEFINE s == [box[k] EXCEPT ![u] = e]
  <1>1. box[k] \in Items
    BY DEF MailTypes, Items
  <1>2. /\ s \in Items /\ DOMAIN s = DOMAIN box[k]
        /\ \A v \in DOMAIN box[k] : v # u => s[v] = box[k][v]
        /\ s[u] = e /\ e # None
    BY <1>1, PutItems
  <1>3. box' = [box EXCEPT ![k] = s]
    OBVIOUS
  <1>. HIDE DEF s
  <1>4. /\ box'[k] = s /\ s # None /\ \A j \in Folders : j # k => box'[j] = box[j]
        /\ box' \in [Folders -> Seq(Item \cup {None}) \cup {None}]
        /\ \A a \in Accounts : box'[<<a, discoverDraftsFolder>>] # None
        /\ \A a \in Accounts : discoverSentFolder \in Names
                                  => box'[<<a, discoverSentFolder>>] # None
    BY <1>2, <1>3, FolderChanged
  <1>5. ASSUME NEW j \in Folders, NEW v, NEW t, box[j] # None, v \in DOMAIN box[j],
               Is(j, v, t), j # k \/ v # u
        PROVE  Is(j, v, t)'
    BY <1>2, <1>4, <1>5 DEF Is, Gone
  <1>. QED
    BY <1>2, <1>4, <1>5 DEF Gone

(* Another mail client marks a message, which excuses it.                  *)
LEMMA OtherMarksKeeps ==
    ASSUME MailInv, OtherMarks
    PROVE  MailInv'
  <1>. USE DEF MailInv
  <1>1. PICK p \in Messages : /\ box' = [box EXCEPT ![<<p[1], p[2]>>] = Marked(@, p[3])]
                              /\ Excused({At(p).text}, "marked")
    BY DEF OtherMarks
  <1>. DEFINE k == <<p[1], p[2]>>
              u == p[3]
              text == box[k][u].text
  <1>2. k \in Folders /\ box[k] # None /\ u \in DOMAIN box[k] /\ box[k][u] # None
    BY MessageThere DEF Gone
  <1>. DEFINE e == [text |-> box[k][u].text, deleted |-> TRUE]
  <1>3. /\ box' = [box EXCEPT ![k] = [@ EXCEPT ![u].deleted = TRUE]]
        /\ Excused({text}, "marked") /\ UNCHANGED req
    BY <1>1 DEF OtherMarks, Marked, At
  <1>. HIDE DEF k, u
  <1>10. box' = [box EXCEPT ![k] = [box[k] EXCEPT ![u] = e]] /\ e \in Item
    BY <1>2, <1>3, MarkIs
  <1>. HIDE DEF e
  <1>4. /\ excuse' \in [Texts -> SUBSET {"asked", "marked", "crossed", "replaced",
                                         "unsaved", "sent", "folder"}]
        /\ \A t \in Texts : excuse[t] \subseteq excuse'[t]
        /\ \A t \in Texts : t = text => excuse'[t] # {}
    BY <1>3, ExcusedGrows
  <1>5. /\ box' \in [Folders -> Seq(Item \cup {None}) \cup {None}]
        /\ \A a \in Accounts : box'[<<a, discoverDraftsFolder>>] # None
        /\ \A a \in Accounts : discoverSentFolder \in Names
                                  => box'[<<a, discoverSentFolder>>] # None
        /\ \A j \in Folders : box[j] # None =>
              box'[j] # None /\ DOMAIN box'[j] = DOMAIN box[j]
        /\ \A j \in Folders : \A v, t : /\ box[j] # None /\ v \in DOMAIN box[j]
                                   /\ Is(j, v, t) /\ (j # k \/ v # u)
                                   => Is(j, v, t)'
    BY <1>2, <1>10, MarkedFolder
  <1>6. MailTypes'
    BY <1>3, <1>4, <1>5 DEF MailTypes
  <1>7. UidsInv'
    <2>1. \A r \in Requests : req[r] # None => Source(req[r]) \in Folders
      BY RequestKnown DEF MailTypes
    <2>. QED
      BY <1>3, <1>5, <2>1 DEF UidsInv, Source
  <1>8. ExcusesInv'
    BY <1>3, <1>4 DEF ExcusesInv
  <1>9. KeptInv'
    <2>1. ASSUME NEW t \in Texts, Kept(t), excuse'[t] = {} PROVE Kept(t)'
      <3>1. PICK j \in Folders : /\ box[j] # None
                                 /\ \E v \in DOMAIN box[j] : Is(j, v, t) /\ ~Copied(j, v)
        BY <2>1 DEF Kept
      <3>2. PICK v \in DOMAIN box[j] : Is(j, v, t) /\ ~Copied(j, v)
        BY <3>1
      <3>3. j # k \/ v # u
        BY <1>4, <2>1, <3>2 DEF Is
      <3>4. Is(j, v, t)' /\ box'[j] # None /\ v \in DOMAIN box'[j]
        BY <1>5, <3>1, <3>2, <3>3
      <3>5. ~Copied(j, v)'
        BY <1>3, <3>2 DEF Copied
      <3>. QED
        BY <3>4, <3>5 DEF Kept
    <2>. QED
      BY <1>3, <1>4, <2>1 DEF KeptInv, Saving, Working
  <1>. QED
    BY <1>6, <1>7, <1>8, <1>9
-----------------------------------------------------------------------------

(* The next command after a good answer and after a bad one, and what the  *)
(* server does.                                                            *)
LEMMA OkIs ==
    ASSUME NEW q
    PROVE  /\ q.pc = "create" => OnOk(q) = "move"
           /\ q.pc = "copy" => OnOk(q) = "store"
           /\ q.pc = "store" => OnOk(q) = "expunge"
           /\ q.pc = "expunge" => OnOk(q) = IF q.op = "save" THEN "append" ELSE "idle"
           /\ q.pc = "smtp" => OnOk(q) = "file"
           /\ q.pc = "file" => OnOk(q) = IF q.uid # 0 THEN "store" ELSE "idle"
           /\ q.pc \in {"move", "flag", "unflag", "append"} => OnOk(q) = "idle"
  BY Zenon DEF OnOk

(* The next command after a bad answer.                                    *)
LEMMA ErrorIs ==
    ASSUME NEW q
    PROVE  /\ q.pc = "move" => OnError(q) = "copy"
           /\ q.pc = "file" => OnError(q) = IF q.uid # 0 THEN "store" ELSE "idle"
           /\ q.pc \in {"store", "expunge"} =>
                 OnError(q) = IF q.op = "save" THEN "append" ELSE "idle"
           /\ q.pc \in {"create", "copy", "smtp", "flag", "unflag", "append"} =>
                 OnError(q) = "idle"
  BY Zenon DEF OnError

(* What the server does for each command.                                  *)
LEMMA EffectIs ==
    ASSUME NEW q
    PROVE  /\ \A pc \in {"store", "flag"} : Effect(q, pc) =
                 IF Present(q) THEN [box EXCEPT ![Source(q)] = Marked(@, q.uid)] ELSE box
           /\ Effect(q, "unflag") =
                 IF Present(q)
                 THEN [box EXCEPT ![Source(q)] = [@ EXCEPT ![q.uid].deleted = FALSE]]
                 ELSE box
           /\ Effect(q, "create") =
                 IF box[Destination(q)] = None THEN CreateMailbox(Destination(q)) ELSE box
           /\ Effect(q, "expunge") =
                 IF box[Source(q)] # None THEN [box EXCEPT ![Source(q)] = Expunged(@)] ELSE box
           /\ Effect(q, "copy") =
                 IF Present(q)
                 THEN [box EXCEPT ![Destination(q)] = Append(@, box[Source(q)][q.uid])]
                 ELSE box
           /\ Effect(q, "move") =
                 IF Present(q)
                 THEN [box EXCEPT ![Destination(q)] = Append(@, box[Source(q)][q.uid]),
                                  ![Source(q)] = [@ EXCEPT ![q.uid] = None]]
                 ELSE box
           /\ Effect(q, "append") = SaveDraft(q)
           /\ Effect(q, "file") = SaveToSent(q)
           /\ Effect(q, "smtp") = box
  BY Zenon DEF Effect

(* The reasons a command adds.                                             *)
LEMMA ReasonsAre ==
    ASSUME MailTypes, NEW q \in KnownRequest, box[Source(q)] # None, Reasons(q)
    PROVE  /\ excuse' \in [Texts -> SUBSET {"asked", "marked", "crossed", "replaced",
                                            "unsaved", "sent", "folder"}]
           /\ \A t \in Texts : excuse[t] \subseteq excuse'[t]
           /\ q.pc = "store" /\ Present(q) /\ Target(q) # q.meant => excuse'[Target(q)] # {}
           /\ q.pc = "flag" /\ Present(q) => excuse'[Target(q)] # {}
           /\ q.pc \in {"append", "smtp"} /\ q.meant # None => excuse'[q.meant] # {}
  <1>1. Present(q) => Target(q) \in Texts
    BY RequestKnown, ItemThere DEF Present, Gone, Target
  <1>2. q.meant # None => q.meant \in Texts
    BY RequestKnown
  <1>3. CASE q.pc \in {"store", "move"} /\ Present(q) /\ Target(q) # q.meant
    <2>1. Excused({Target(q)}, "crossed")
      BY <1>3, Zenon DEF Reasons
    <2>. QED
      BY <1>1, <1>3, <2>1, ExcusedGrows
  <1>4. CASE q.pc = "flag" /\ Present(q)
    <2>1. Excused({Target(q)}, "marked")
      BY <1>4, Zenon DEF Reasons
    <2>. QED
      BY <1>1, <1>4, <2>1, ExcusedGrows
  <1>5. CASE q.pc = "append"
    <2>1. Excused({q.meant} \ {None}, "replaced")
      BY <1>5, Zenon DEF Reasons
    <2>. QED
      BY <1>2, <1>5, <2>1, ExcusedGrows
  <1>6. CASE q.pc = "smtp"
    <2>1. Excused({q.meant} \ {None}, "sent")
      BY <1>6, Zenon DEF Reasons
    <2>. QED
      BY <1>2, <1>6, <2>1, ExcusedGrows
  <1>7. CASE /\ ~(q.pc \in {"store", "move"} /\ Present(q) /\ Target(q) # q.meant)
             /\ ~(q.pc = "flag" /\ Present(q)) /\ q.pc # "append" /\ q.pc # "smtp"
    <2>1. UNCHANGED excuse
      BY <1>7, Zenon DEF Reasons
    <2>. QED
      BY <1>7, <2>1 DEF MailTypes
  <1>. QED
    BY <1>3, <1>4, <1>5, <1>6, <1>7

(* The folders after a command, and an item that stays what it is.         *)
Grown ==
    /\ box' \in [Folders -> Seq(Item \cup {None}) \cup {None}]
    /\ \A a \in Accounts : box'[<<a, discoverDraftsFolder>>] # None
    /\ \A a \in Accounts : discoverSentFolder \in Names
                              => box'[<<a, discoverSentFolder>>] # None
    /\ \A j \in Folders : box[j] # None =>
          box'[j] # None /\ DOMAIN box[j] \subseteq DOMAIN box'[j]

Stays(j, v) == \A t : Is(j, v, t) => Is(j, v, t)'

There(j, v) == j \in Folders /\ box[j] # None /\ v \in DOMAIN box[j]

(* A command that does nothing.                                            *)
LEMMA UnchangedGrows == MailTypes /\ UNCHANGED box => Grown /\ \A j, v : Stays(j, v)
  BY DEF MailTypes, Grown, Stays, Is

(* An item is appended: every other stays.                                 *)
LEMMA AppendGrows ==
    ASSUME MailTypes, NEW k \in Folders, box[k] # None, NEW e \in Item,
           box' = [box EXCEPT ![k] = Append(box[k], e)]
    PROVE  /\ Grown
           /\ \A j, v : There(j, v) => Stays(j, v)
           /\ Len(box[k]) + 1 \notin DOMAIN box[k]
           /\ Len(box[k]) + 1 \in DOMAIN box'[k] /\ box'[k][Len(box[k]) + 1] = e
           /\ ~Gone(box'[k], Len(box[k]) + 1)
  <1>. DEFINE s == Append(box[k], e)
  <1>1. box[k] \in Items
    BY DEF MailTypes, Items
  <1>2. /\ s \in Items /\ DOMAIN box[k] \subseteq DOMAIN s
        /\ \A u \in DOMAIN box[k] : s[u] = box[k][u]
        /\ Len(box[k]) + 1 \in DOMAIN s /\ Len(box[k]) + 1 \notin DOMAIN box[k]
        /\ s[Len(box[k]) + 1] = e /\ e # None
    BY <1>1, AppendedItems
  <1>3. box' = [box EXCEPT ![k] = s]
    OBVIOUS
  <1>. HIDE DEF s
  <1>4. /\ box' \in [Folders -> Seq(Item \cup {None}) \cup {None}]
        /\ box'[k] = s /\ s # None /\ \A j \in Folders : j # k => box'[j] = box[j]
        /\ \A a \in Accounts : box'[<<a, discoverDraftsFolder>>] # None
        /\ \A a \in Accounts : discoverSentFolder \in Names
                                  => box'[<<a, discoverSentFolder>>] # None
    BY <1>2, <1>3, FolderChanged
  <1>5. \A j, v : There(j, v) => Stays(j, v)
    <2>1. ASSUME NEW j, NEW v, There(j, v), NEW t, Is(j, v, t) PROVE Is(j, v, t)'
      <3>1. v \in DOMAIN box'[j] /\ box'[j][v] = box[j][v]
        BY <1>2, <1>4, <2>1 DEF There
      <3>. QED
        BY <2>1, <3>1 DEF Is, Gone
    <2>. QED
      BY <2>1 DEF Stays
  <1>. QED
    BY <1>2, <1>4, <1>5 DEF Grown, Gone

(* An item is marked or unmarked: every other stays.                       *)
LEMMA MarkGrows ==
    ASSUME MailTypes, NEW k \in Folders, box[k] # None, NEW u \in DOMAIN box[k],
           box[k][u] # None,
           \/ box' = [box EXCEPT ![k] = [@ EXCEPT ![u].deleted = TRUE]]
           \/ box' = [box EXCEPT ![k] = [@ EXCEPT ![u].deleted = FALSE]]
    PROVE  /\ Grown
           /\ \A j, v : There(j, v) /\ (j # k \/ v # u) => Stays(j, v)
           /\ box' = [box EXCEPT ![k] = [@ EXCEPT ![u].deleted = FALSE]] => Stays(k, u)
  <1>. DEFINE cleared == [text |-> box[k][u].text, deleted |-> FALSE]
  <1>. DEFINE marked == [text |-> box[k][u].text, deleted |-> TRUE]
  <1>1. PICK e \in Item : box' = [box EXCEPT ![k] = [box[k] EXCEPT ![u] = e]]
    <2>1. CASE box' = [box EXCEPT ![k] = [@ EXCEPT ![u].deleted = TRUE]]
      <3>1. box' = [box EXCEPT ![k] = [box[k] EXCEPT ![u] = marked]] /\ marked \in Item
        BY <2>1, MarkIs
      <3>. QED
        BY <3>1
    <2>2. CASE box' = [box EXCEPT ![k] = [@ EXCEPT ![u].deleted = FALSE]]
      <3>1. box' = [box EXCEPT ![k] = [box[k] EXCEPT ![u] = cleared]] /\ cleared \in Item
        BY <2>2, MarkIs
      <3>. QED
        BY <3>1
    <2>. QED
      BY <2>1, <2>2
  <1>2. /\ box' \in [Folders -> Seq(Item \cup {None}) \cup {None}]
        /\ \A a \in Accounts : box'[<<a, discoverDraftsFolder>>] # None
        /\ \A a \in Accounts : discoverSentFolder \in Names
                                  => box'[<<a, discoverSentFolder>>] # None
        /\ \A j \in Folders : box[j] # None =>
              box'[j] # None /\ DOMAIN box'[j] = DOMAIN box[j]
        /\ \A j \in Folders : \A v, t : /\ box[j] # None /\ v \in DOMAIN box[j]
                                       /\ Is(j, v, t) /\ (j # k \/ v # u)
                                       => Is(j, v, t)'
        /\ ~Gone(box'[k], u)
    BY <1>1, MarkedFolder
  <1>3. Grown
    BY <1>2 DEF Grown
  <1>4. \A j, v : There(j, v) /\ (j # k \/ v # u) => Stays(j, v)
    BY <1>2 DEF There, Stays
  <1>5. ASSUME box' = [box EXCEPT ![k] = [@ EXCEPT ![u].deleted = FALSE]]
        PROVE  Stays(k, u)
    <2>1. box' = [box EXCEPT ![k] = [box[k] EXCEPT ![u] = cleared]] /\ cleared \in Item
      BY <1>5, MarkIs
    <2>2. box'[k][u] = cleared
      BY <2>1 DEF MailTypes
    <2>. QED
      BY <1>2, <2>2 DEF Stays, Is
  <1>. QED
    BY <1>3, <1>4, <1>5

(* MOVE: the message leaves its folder for another one.                    *)
LEMMA MoveGrows ==
    ASSUME MailTypes, NEW k \in Folders, box[k] # None, NEW u \in DOMAIN box[k],
           box[k][u] # None, NEW d \in Folders, box[d] # None, d # k,
           box' = [box EXCEPT ![d] = Append(@, box[k][u]),
                              ![k] = [@ EXCEPT ![u] = None]]
    PROVE  /\ Grown
           /\ \A j, v : There(j, v) /\ (j # k \/ v # u) => Stays(j, v)
           /\ Len(box[d]) + 1 \notin DOMAIN box[d]
           /\ Len(box[d]) + 1 \in DOMAIN box'[d] /\ box'[d][Len(box[d]) + 1] = box[k][u]
           /\ ~Gone(box'[d], Len(box[d]) + 1)
  <1>. DEFINE e == box[k][u]
              s == Append(box[d], e)
              z == [box[k] EXCEPT ![u] = None]
  <1>1. box[k] \in Items /\ box[d] \in Items /\ e \in Item
    <2>1. box[k] \in Items /\ box[d] \in Items
      BY DEF MailTypes, Items
    <2>2. e \in Item
      BY ItemThere
    <2>. QED
      BY <2>1, <2>2
  <1>2. /\ s \in Items /\ DOMAIN box[d] \subseteq DOMAIN s
        /\ \A v \in DOMAIN box[d] : s[v] = box[d][v]
        /\ Len(box[d]) + 1 \in DOMAIN s /\ Len(box[d]) + 1 \notin DOMAIN box[d]
        /\ s[Len(box[d]) + 1] = e /\ e # None
    BY <1>1, AppendedItems
  <1>3. z \in Items /\ DOMAIN z = DOMAIN box[k] /\ \A v \in DOMAIN box[k] : v # u => z[v] = box[k][v]
    <2>1. DOMAIN box[k] = 1..Len(box[k])
      BY <1>1 DEF Items
    <2>. QED
      BY <1>1, <2>1, ExceptSeq DEF Items
  <1>4. s # None /\ z # None
    BY <1>2, <1>3, NoneIsNothing DEF Items
  <1>5. /\ box' \in [Folders -> Seq(Item \cup {None}) \cup {None}]
        /\ box'[d] = s /\ box'[k] = z
        /\ \A j \in Folders : j # d /\ j # k => box'[j] = box[j]
    <2>. DEFINE b == [box EXCEPT ![d] = s]
    <2>1. b \in [Folders -> Seq(Item \cup {None}) \cup {None}] /\ b[k] = box[k] /\ b[d] = s
          /\ \A j \in Folders : j # d => b[j] = box[j]
      <3>. HIDE DEF s
      <3>. QED
        BY <1>2 DEF MailTypes, Items
    <2>2. box' = [b EXCEPT ![k] = z]
      <3>1. [b EXCEPT ![k] = [@ EXCEPT ![u] = None]] = [b EXCEPT ![k] = z]
        BY <2>1
      <3>. QED
        BY <3>1
    <2>. HIDE DEF b, z, s
    <2>. QED
      BY <1>3, <2>1, <2>2 DEF Items
  <1>. HIDE DEF e, s, z
  <1>6. \A j \in Folders : box[j] # None =>
           box'[j] # None /\ DOMAIN box[j] \subseteq DOMAIN box'[j]
    BY <1>2, <1>3, <1>4, <1>5
  <1>7. Grown
    <2>1. discoverDraftsFolder \in Names
      BY FoldersAssumption
    <2>2. \A a \in Accounts, f \in Names : <<a, f>> \in Folders
      BY DEF Folders
    <2>3. \A a \in Accounts : box'[<<a, discoverDraftsFolder>>] # None
      BY <1>6, <2>1, <2>2 DEF MailTypes
    <2>4. \A a \in Accounts : discoverSentFolder \in Names
                                 => box'[<<a, discoverSentFolder>>] # None
      BY <1>6, <2>2 DEF MailTypes
    <2>5. box' \in [Folders -> Seq(Item \cup {None}) \cup {None}]
      BY <1>5
    <2>. QED
      BY <1>6, <2>3, <2>4, <2>5, Zenon DEF Grown
  <1>8. ASSUME NEW j, NEW v, There(j, v), j # k \/ v # u PROVE Stays(j, v)
    <2>0. j \in Folders /\ v \in DOMAIN box[j]
      BY <1>8 DEF There
    <2>1. v \in DOMAIN box'[j] /\ box'[j][v] = box[j][v]
      <3>1. CASE j = d
        BY <1>2, <1>5, <2>0, <3>1
      <3>2. CASE j = k
        BY <1>3, <1>5, <1>8, <2>0, <3>2
      <3>3. CASE j # d /\ j # k
        BY <1>5, <2>0, <3>3
      <3>. QED
        BY <3>1, <3>2, <3>3
    <2>. QED
      BY <1>8, <2>1 DEF There, Stays, Is, Gone
  <1>9. Len(box[d]) + 1 \in DOMAIN box'[d] /\ box'[d][Len(box[d]) + 1] = e
    BY <1>2, <1>5
  <1>10. ~Gone(box'[d], Len(box[d]) + 1)
    BY <1>2, <1>9 DEF Gone
  <1>. QED
    BY <1>2, <1>7, <1>8, <1>9, <1>10 DEF e

(* A command takes away the message it names at most, and a COPY or a MOVE *)
(* puts it at a UID the destination has not given.                         *)
LEMMA EffectGrows ==
    ASSUME MailTypes, NEW q \in KnownRequest, ~Refused(q),
           q.op = "move" => q.to # q.folder,
           NEW pc, pc = q.pc \/ (q.pc = "move" /\ pc = "copy"), box' = Effect(q, pc)
    PROVE  /\ Grown
           /\ \A j, v : /\ There(j, v)
                        /\ pc \in {"store", "flag", "move"} => j # Source(q) \/ v # q.uid
                        => Stays(j, v)
           /\ pc \in {"copy", "move"} /\ Present(q) =>
                 \E v \in DOMAIN box'[Destination(q)] :
                    /\ v \notin DOMAIN box[Destination(q)]
                    /\ \A t : Is(Source(q), q.uid, t) => Is(Destination(q), v, t)'
  <1>. DEFINE k == Source(q)
              u == q.uid
              d == Destination(q)
  <1>1. k \in Folders /\ box[k] # None
    BY RequestKnown DEF Refused
  <1>2. Present(q) => u \in DOMAIN box[k] /\ box[k][u] # None /\ box[k][u] \in Item
    BY <1>1, ItemThere DEF Present, Gone
  <1>3. pc \in {"create", "copy", "move"} => d \in Folders /\ d # k
    <2>1. pc \in {"create", "copy", "move"} => q.op = "move"
      BY DEF KnownRequest, MoveRequest, DeleteRequest, FlagRequest, SaveRequest, SendRequest
    <2>. QED
      BY <2>1, RequestKnown DEF Source, Destination
  <1>4. pc \in {"copy", "move"} => box[d] # None
    BY DEF Refused
  <1>5. pc \in {"append", "file"} => q.acct \in Accounts /\ [text |-> q.to, deleted |-> FALSE] \in Item
    <2>1. pc \in {"append", "file"} => q.to \in Versions /\ q.acct \in Accounts
      BY RequestKnown DEF KnownRequest, MoveRequest, DeleteRequest, FlagRequest, SaveRequest,
         SendRequest
    <2>. QED
      BY <2>1 DEF Texts, Item
  <1>6. CASE UNCHANGED box /\ ~(pc \in {"copy", "move"} /\ Present(q))
    BY <1>6, UnchangedGrows
  <1>7. CASE pc \in {"store", "flag"} /\ Present(q)
    <2>1. box' = [box EXCEPT ![k] = [@ EXCEPT ![u].deleted = TRUE]]
      BY <1>7, EffectIs DEF Marked
    <2>2. /\ Grown
          /\ \A j, v : There(j, v) /\ (j # k \/ v # u) => Stays(j, v)
      BY <1>1, <1>2, <1>7, <2>1, MarkGrows
    <2>. QED
      BY <1>7, <2>2
  <1>8. CASE pc = "unflag" /\ Present(q)
    <2>1. box' = [box EXCEPT ![k] = [@ EXCEPT ![u].deleted = FALSE]]
      BY <1>8, EffectIs
    <2>2. /\ Grown
          /\ \A j, v : There(j, v) /\ (j # k \/ v # u) => Stays(j, v)
          /\ Stays(k, u)
      BY <1>1, <1>2, <1>8, <2>1, MarkGrows
    <2>. HIDE DEF k, u
    <2>3. \A j, v : There(j, v) => Stays(j, v)
      BY <2>2, Zenon
    <2>. QED
      BY <1>8, <2>2, <2>3
  <1>9. CASE pc = "create" /\ box[d] = None
    <2>1. box' = [box EXCEPT ![d] = <<>>] /\ d \in Folders /\ <<>> \in Items
      BY <1>3, <1>9, EffectIs, EmptySeq DEF CreateMailbox, Items
    <2>2. /\ box' \in [Folders -> Seq(Item \cup {None}) \cup {None}]
          /\ \A j \in Folders : j # d => box'[j] = box[j]
          /\ \A a \in Accounts : box'[<<a, discoverDraftsFolder>>] # None
          /\ \A a \in Accounts : discoverSentFolder \in Names
                                    => box'[<<a, discoverSentFolder>>] # None
      BY <2>1, FolderChanged
    <2>3. \A j \in Folders : box[j] # None => box'[j] = box[j]
      BY <1>9, <2>2
    <2>4. \A j, v : There(j, v) => Stays(j, v)
      BY <2>3 DEF There, Stays, Is
    <2>. QED
      BY <1>9, <2>2, <2>3, <2>4 DEF Grown
  <1>10. CASE pc = "expunge"
    <2>. DEFINE s == Expunged(box[k])
    <2>1. box' = [box EXCEPT ![k] = s]
      BY <1>1, <1>10, EffectIs
    <2>2. /\ s \in Items /\ DOMAIN s = DOMAIN box[k]
          /\ \A v \in DOMAIN box[k] : box[k][v] # None /\ ~box[k][v].deleted => s[v] = box[k][v]
      BY <1>1, ExpungedItems DEF MailTypes, Items
    <2>. HIDE DEF s
    <2>3. /\ box' \in [Folders -> Seq(Item \cup {None}) \cup {None}]
          /\ box'[k] = s /\ s # None /\ \A j \in Folders : j # k => box'[j] = box[j]
          /\ \A a \in Accounts : box'[<<a, discoverDraftsFolder>>] # None
          /\ \A a \in Accounts : discoverSentFolder \in Names
                                    => box'[<<a, discoverSentFolder>>] # None
      BY <1>1, <2>1, <2>2, FolderChanged
    <2>4. Grown
      BY <2>2, <2>3 DEF Grown
    <2>5. \A j, v : There(j, v) => Stays(j, v)
      <3>1. ASSUME NEW j, NEW v, There(j, v), NEW t, Is(j, v, t) PROVE Is(j, v, t)'
        BY <2>2, <2>3, <3>1 DEF There, Is, Gone
      <3>. QED
        BY <3>1 DEF Stays
    <2>. QED
      BY <1>10, <2>4, <2>5
  <1>11. CASE pc = "copy" /\ Present(q)
    <2>1. box' = [box EXCEPT ![d] = Append(box[d], box[k][u])]
      BY <1>11, EffectIs
    <2>2. /\ Grown
          /\ \A j, v : There(j, v) => Stays(j, v)
          /\ Len(box[d]) + 1 \notin DOMAIN box[d]
          /\ Len(box[d]) + 1 \in DOMAIN box'[d] /\ box'[d][Len(box[d]) + 1] = box[k][u]
          /\ ~Gone(box'[d], Len(box[d]) + 1)
      BY <1>2, <1>3, <1>4, <1>11, <2>1, AppendGrows
    <2>3. PICK v : v = Len(box[d]) + 1
      OBVIOUS
    <2>4. v \in DOMAIN box'[d] /\ v \notin DOMAIN box[d] /\ box'[d][v] = box[k][u] /\ ~Gone(box'[d], v)
      BY <2>2, <2>3
    <2>5. \A t : Is(k, u, t) => Is(d, v, t)'
      BY <2>4 DEF Is
    <2>. QED
      BY <1>11, <2>2, <2>4, <2>5
  <1>12. CASE pc = "move" /\ Present(q)
    <2>1. box' = [box EXCEPT ![d] = Append(@, box[k][u]), ![k] = [@ EXCEPT ![u] = None]]
      BY <1>12, EffectIs
    <2>2. /\ Grown
          /\ \A j, v : There(j, v) /\ (j # k \/ v # u) => Stays(j, v)
          /\ Len(box[d]) + 1 \notin DOMAIN box[d]
          /\ Len(box[d]) + 1 \in DOMAIN box'[d] /\ box'[d][Len(box[d]) + 1] = box[k][u]
          /\ ~Gone(box'[d], Len(box[d]) + 1)
      BY <1>1, <1>2, <1>3, <1>4, <1>12, <2>1, MoveGrows
    <2>3. PICK v : v = Len(box[d]) + 1
      OBVIOUS
    <2>4. v \in DOMAIN box'[d] /\ v \notin DOMAIN box[d] /\ box'[d][v] = box[k][u] /\ ~Gone(box'[d], v)
      BY <2>2, <2>3
    <2>5. \A t : Is(k, u, t) => Is(d, v, t)'
      BY <2>4 DEF Is
    <2>. QED
      BY <1>12, <2>2, <2>4, <2>5
  <1>13. CASE pc \in {"append", "file"}
    <2>1. PICK f : /\ f \in {discoverDraftsFolder, discoverSentFolder}
                   /\ box' = [box EXCEPT ![<<q.acct, f>>] =
                                 Append(@, [text |-> q.to, deleted |-> FALSE])]
      BY <1>13, EffectIs DEF SaveDraft, SaveToSent, AppendTo
    <2>2. CASE f \in Names
      <3>1. <<q.acct, f>> \in Folders /\ box[<<q.acct, f>>] # None
        BY <1>5, <1>13, <2>1, <2>2 DEF Folders, MailTypes
      <3>2. box' = [box EXCEPT ![<<q.acct, f>>] =
                       Append(box[<<q.acct, f>>], [text |-> q.to, deleted |-> FALSE])]
        BY <2>1
      <3>. QED
        BY <1>5, <1>13, <3>1, <3>2, AppendGrows
    <2>3. CASE f \notin Names
      <3>1. <<q.acct, f>> \notin Folders
        BY <2>3 DEF Folders
      <3>2. UNCHANGED box
        BY <2>1, <3>1 DEF MailTypes
      <3>. QED
        BY <1>13, <3>2, UnchangedGrows
    <2>. QED
      BY <2>2, <2>3
  <1>14. \/ UNCHANGED box /\ ~(pc \in {"copy", "move"} /\ Present(q))
         \/ pc \in {"store", "flag", "unflag", "copy", "move"} /\ Present(q)
         \/ pc = "create" /\ box[d] = None
         \/ pc = "expunge" \/ pc \in {"append", "file"}
    <2>1. pc \in {"create", "move", "copy", "store", "expunge", "flag", "unflag", "append",
                  "smtp", "file"}
      BY RequestKnown DEF Request
    <2>2. pc \in {"store", "flag"} /\ ~Present(q) => UNCHANGED box
      BY EffectIs
    <2>3. pc \in {"unflag", "copy", "move"} /\ ~Present(q) => UNCHANGED box
      BY EffectIs
    <2>4. pc = "create" /\ box[d] # None => UNCHANGED box
      BY EffectIs
    <2>5. pc = "smtp" => UNCHANGED box
      BY EffectIs
    <2>. QED
      BY <2>1, <2>2, <2>3, <2>4, <2>5
  <1>. QED
    BY <1>6, <1>7, <1>8, <1>9, <1>10, <1>11, <1>12, <1>13, <1>14
-----------------------------------------------------------------------------

(* The next command is one of the same request; a move goes to STORE after *)
(* a good answer to COPY only.                                             *)
LEMMA NextCommand ==
    ASSUME NEW q \in KnownRequest, NEW next, next \in {OnOk(q), OnError(q)}, next # "idle"
    PROVE  /\ [q EXCEPT !.pc = next] \in KnownRequest
           /\ next # "smtp"
           /\ q.op = "move" /\ next = "store" => q.pc = "copy" /\ next # OnError(q)
  <1>1. CASE q.op = "move"
    <2>1. q \in MoveRequest
      BY <1>1, RequestKnown
    <2>2. next \in {"move", "store", "expunge", "copy"}
      BY <2>1, OkIs, ErrorIs DEF MoveRequest
    <2>3. [q EXCEPT !.pc = next] \in MoveRequest
      BY <2>1, <2>2 DEF MoveRequest
    <2>4. next = "store" => q.pc = "copy" /\ next # OnError(q)
      BY <2>1, OkIs, ErrorIs DEF MoveRequest
    <2>. QED
      BY <2>2, <2>3, <2>4 DEF KnownRequest
  <1>2. CASE q.op = "delete"
    <2>1. q \in DeleteRequest
      BY <1>2, RequestKnown
    <2>2. next = "expunge"
      BY <2>1, OkIs, ErrorIs DEF DeleteRequest
    <2>3. [q EXCEPT !.pc = next] \in DeleteRequest
      BY <2>1, <2>2 DEF DeleteRequest
    <2>. QED
      BY <1>2, <2>2, <2>3 DEF KnownRequest
  <1>3. CASE q.op = "flag"
    <2>1. q \in FlagRequest
      BY <1>3, RequestKnown
    <2>. QED
      BY <2>1, OkIs, ErrorIs DEF FlagRequest
  <1>4. CASE q.op = "save"
    <2>1. q \in SaveRequest
      BY <1>4, RequestKnown
    <2>2. next \in {"expunge", "append"}
      BY <2>1, OkIs, ErrorIs DEF SaveRequest
    <2>3. [q EXCEPT !.pc = next] \in SaveRequest
      BY <2>1, <2>2 DEF SaveRequest
    <2>. QED
      BY <1>4, <2>2, <2>3 DEF KnownRequest
  <1>5. CASE q.op = "send"
    <2>1. q \in SendRequest
      BY <1>5, RequestKnown
    <2>2. next \in {"file", "store", "expunge"}
      BY <2>1, OkIs, ErrorIs DEF SendRequest
    <2>3. [q EXCEPT !.pc = next] \in SendRequest
      BY <2>1, <2>2 DEF SendRequest
    <2>. QED
      BY <1>5, <2>2, <2>3 DEF KnownRequest
  <1>. QED
    BY <1>1, <1>2, <1>3, <1>4, <1>5, RequestKnown

(* The message is under a UID that its folder had not given before.        *)
Fresh(k, t) ==
    box'[k] # None /\ \E v \in DOMAIN box'[k] : v \notin DOMAIN box[k] /\ Is(k, v, t)'

(* A command of a request keeps the invariant, if what it takes away is    *)
(* excused, being saved, or fresh at the destination.                      *)
LEMMA ContinueKeeps ==
    ASSUME MailInv, NEW r \in Requests, NEW q \in KnownRequest, req[r] = q,
           NEW next, next \in {OnOk(q), OnError(q)}, Continue(r, next), Grown,
           excuse' \in [Texts -> SUBSET {"asked", "marked", "crossed", "replaced",
                                         "unsaved", "sent", "folder"}],
           \A t \in Texts : excuse[t] \subseteq excuse'[t],
           next = "store" /\ q.op = "move" =>
               \A t : Is(Source(q), q.uid, t) => Fresh(Destination(q), t),
           \A j, v, t : There(j, v) /\ Is(j, v, t) /\ ~Copied(j, v) /\ t \in Texts =>
               \/ Is(j, v, t)' \/ excuse'[t] # {}
               \/ q.op = "save" /\ q.meant = t
               \/ q.op = "move" /\ Fresh(Destination(q), t),
           q.op = "save" /\ next = "idle" /\ q.meant # None => excuse'[q.meant] # {},
           q.op = "send" /\ next # "idle" /\ q.meant # None => excuse'[q.meant] # {}
    PROVE  MailInv'
  <1>. USE DEF MailInv
  <1>. DEFINE n == IF next = "idle" THEN None ELSE [q EXCEPT !.pc = next]
  <1>1. n \in KnownRequest \cup {None} /\ (n = None <=> next = "idle")
    BY NextCommand, RequestKnown
  <1>2. req' = [req EXCEPT ![r] = n]
    BY DEF Continue
  <1>3. n # None => /\ n.op = q.op /\ n.uid = q.uid /\ n.to = q.to /\ n.folder = q.folder
                    /\ n.acct = q.acct /\ n.meant = q.meant /\ n.pc = next
                    /\ Source(n) = Source(q)
    BY NextCommand DEF KnownRequest, MoveRequest, DeleteRequest, FlagRequest,
       SaveRequest, SendRequest, Source
  <1>. HIDE DEF n
  <1>4. /\ req'[r] = n /\ \A p \in Requests \ {r} : req'[p] = req[p]
        /\ req' \in [Requests -> KnownRequest \cup {None}]
    BY <1>1, <1>2 DEF MailTypes
  <1>5. MailTypes'
    BY <1>4 DEF MailTypes, Grown
  <1>6. \A p \in Requests : req[p] # None => Source(req[p]) \in Folders /\ req[p] \in KnownRequest
    BY RequestKnown DEF MailTypes
  <1>7. UidsInv'
    <2>1. SUFFICES ASSUME NEW p \in Requests, req'[p] # None, req'[p].op = "move"
                   PROVE  /\ req'[p].to # req'[p].folder
                          /\ req'[p].meant # None => /\ box'[Source(req'[p])] # None
                                                     /\ req'[p].uid \in DOMAIN box'[Source(req'[p])]
      BY DEF UidsInv, Source
    <2>2. /\ req[p] # None /\ req[p].op = "move" /\ req'[p].to = req[p].to
          /\ req'[p].folder = req[p].folder /\ req'[p].uid = req[p].uid
          /\ req'[p].meant = req[p].meant
          /\ Source(req'[p]) = Source(req[p])
      BY <1>3, <1>4, <2>1, RequestKnown
    <2>. QED
      BY <1>6, <2>2 DEF UidsInv, Grown
  <1>8. ExcusesInv'
    <2>1. SUFFICES ASSUME NEW p \in Requests, req'[p] # None, req'[p].meant \in Texts
                   PROVE  \/ excuse'[req'[p].meant] # {}
                          \/ req'[p].op \in {"move", "flag", "save"}
                          \/ req'[p].op = "send" /\ req'[p].pc = "smtp"
      BY DEF ExcusesInv
    <2>2. CASE p # r
      BY <1>4, <2>1, <2>2 DEF ExcusesInv
    <2>3. CASE p = r
      <3>1. /\ n # None /\ next # "idle" /\ q.meant \in Texts /\ q.op = req'[p].op
            /\ q.meant = req'[p].meant
        BY <1>1, <1>3, <1>4, <2>1, <2>3
      <3>2. q.meant # None
        BY <3>1, NoneIsNothing
      <3>3. q.op \in {"move", "flag", "save", "send", "delete"}
        BY RequestKnown
      <3>4. q.op = "delete" => excuse[q.meant] # {}
        BY <3>1, RequestKnown DEF ExcusesInv
      <3>. QED
        BY <3>1, <3>2, <3>3, <3>4
    <2>. QED
      BY <2>2, <2>3
  <1>9. ASSUME NEW t, q.op = "move", Fresh(Destination(q), t) PROVE Kept(t)'
    <2>. DEFINE d == Destination(q)
    <2>0. box'[d] # None
      BY <1>9 DEF Fresh
    <2>1. PICK v \in DOMAIN box'[d] : v \notin DOMAIN box[d] /\ Is(d, v, t)'
      BY <1>9 DEF Fresh
    <2>2. d \in Folders /\ q.to # q.folder /\ Source(q) # d
      BY <1>9, RequestKnown DEF UidsInv, Source, Destination
    <2>3. box'[d] # None /\ v # 0
      <3>1. box'[d] \in Seq(Item \cup {None})
        BY <2>0, <2>2 DEF Grown
      <3>2. DOMAIN box'[d] = 1..Len(box'[d]) /\ Len(box'[d]) \in Nat
        BY <3>1
      <3>. QED
        BY <2>0, <2>1, <3>2
    <2>4. ASSUME Copied(d, v)' PROVE FALSE
      <3>1. PICK p \in Requests : /\ req'[p] # None /\ req'[p].op = "move"
                                  /\ req'[p].meant # None
                                  /\ Source(req'[p]) = d /\ req'[p].uid = v
        BY <2>4 DEF Copied, Source
      <3>2. CASE p = r
        BY <1>3, <1>4, <2>2, <3>1, <3>2
      <3>3. CASE p # r
        BY <1>4, <2>1, <2>3, <3>1, <3>3 DEF UidsInv
      <3>. QED
        BY <3>2, <3>3
    <2>. QED
      BY <2>1, <2>2, <2>3, <2>4 DEF Kept
  <1>10. KeptInv'
    <2>1. SUFFICES ASSUME NEW t \in Texts \ Versions, excuse'[t] = {}
                   PROVE  Saving(t)' \/ Kept(t)'
      BY DEF KeptInv
    <2>2. Saving(t) \/ Kept(t)
      BY <2>1 DEF KeptInv
    <2>3. q.op = "save" /\ q.meant = t => Saving(t)'
      <3>1. q.op = "save" /\ q.meant = t => n # None
        BY <1>1, <2>1, NoneIsNothing
      <3>. QED
        BY <1>3, <1>4, <3>1 DEF Saving, Working
    <2>4. CASE Saving(t)
      <3>1. PICK p \in Requests : req[p] # None /\ req[p].op = "save" /\ req[p].meant = t
        BY <2>4 DEF Saving, Working
      <3>2. CASE p = r
        BY <2>3, <3>1, <3>2
      <3>3. CASE p # r
        BY <1>4, <3>1, <3>3 DEF Saving, Working
      <3>. QED
        BY <3>2, <3>3
    <2>5. CASE Kept(t)
      <3>1. PICK j \in Folders : /\ box[j] # None
                                 /\ \E v \in DOMAIN box[j] : Is(j, v, t) /\ ~Copied(j, v)
        BY <2>5 DEF Kept
      <3>2. PICK v \in DOMAIN box[j] : Is(j, v, t) /\ ~Copied(j, v)
        BY <3>1
      <3>3. There(j, v)
        BY <3>1, <3>2 DEF There
      <3>4. \/ Is(j, v, t)'
            \/ q.op = "save" /\ q.meant = t
            \/ q.op = "move" /\ Fresh(Destination(q), t)
        BY <2>1, <3>2, <3>3
      <3>5. CASE Is(j, v, t)' /\ ~Copied(j, v)'
        BY <3>1, <3>2, <3>5 DEF Kept, Grown
      <3>6. CASE Is(j, v, t)' /\ Copied(j, v)'
        <4>1. PICK p \in Requests : /\ req'[p] # None /\ req'[p].op = "move"
                                    /\ req'[p].pc = "store" /\ req'[p].meant # None
                                    /\ Source(req'[p]) = j /\ req'[p].uid = v
          BY <3>6 DEF Copied, Source
        <4>2. p = r
          BY <1>4, <3>2, <4>1 DEF Copied
        <4>3. next = "store" /\ q.op = "move" /\ Source(q) = j /\ q.uid = v
          BY <1>3, <1>4, <4>1, <4>2
        <4>4. Fresh(Destination(q), t)
          BY <3>2, <4>3
        <4>. QED
          BY <1>9, <4>3, <4>4
      <3>. QED
        BY <1>9, <2>3, <3>4, <3>5, <3>6
    <2>. QED
      BY <2>2, <2>4, <2>5
  <1>. QED
    BY <1>5, <1>7, <1>8, <1>10

(* A copy is fresh at its destination, which is there.                     *)
LEMMA CopiedIsFresh ==
    ASSUME MailTypes, NEW p \in KnownRequest, Grown,
           p.pc \in {"copy", "move"}, ~Refused(p),
           Present(p) =>
              \E v \in DOMAIN box'[Destination(p)] :
                 /\ v \notin DOMAIN box[Destination(p)]
                 /\ \A t : Is(Source(p), p.uid, t) => Is(Destination(p), v, t)',
           NEW t, Is(Source(p), p.uid, t)
    PROVE  Fresh(Destination(p), t)
  <1>1. p.op = "move"
    BY DEF KnownRequest, MoveRequest, DeleteRequest, FlagRequest, SaveRequest, SendRequest
  <1>2. box'[Destination(p)] # None
    BY <1>1, RequestKnown DEF Refused, Grown
  <1>3. Present(p)
    BY DEF Refused, Present, Is
  <1>. QED
    BY <1>2, <1>3 DEF Fresh

(* What a draft that is being sent was, once the mail server has it.       *)
LEMMA SentIsExcused ==
    ASSUME MailTypes, ExcusesInv, NEW r \in Requests, NEW p \in KnownRequest, req[r] = p,
           p.op = "send", p.meant # None, \A t \in Texts : excuse[t] \subseteq excuse'[t],
           p.pc = "smtp" => excuse'[p.meant] # {}
    PROVE  excuse'[p.meant] # {}
  <1>1. p.meant \in Texts /\ p # None
    BY RequestKnown
  <1>. QED
    BY <1>1 DEF ExcusesInv

(* What a STORE, a flag or a MOVE takes away.                              *)
LEMMA TakenAway ==
    ASSUME MailTypes, ExcusesInv, NEW r \in Requests, NEW p \in KnownRequest, req[r] = p,
           \A t \in Texts : excuse[t] \subseteq excuse'[t],
           p.pc \in {"store", "flag", "move"}, ~Copied(Source(p), p.uid),
           NEW t \in Texts, Target(p) = t,
           p.pc = "store" /\ t # p.meant => excuse'[t] # {},
           p.pc = "flag" => excuse'[t] # {},
           p.pc = "move" => Fresh(Destination(p), t)
    PROVE  \/ excuse'[t] # {}
           \/ p.op = "save" /\ p.meant = t
           \/ p.op = "move" /\ Fresh(Destination(p), t)
  <1>1. p # None /\ p.op \in {"move", "delete", "flag", "save", "send"}
    BY RequestKnown
  <1>2. p.pc = "store" /\ t = p.meant => p.op # "move"
    BY <1>1, NoneIsNothing DEF Copied
  <1>3. p.pc = "move" => p.op = "move"
    BY DEF KnownRequest, MoveRequest, DeleteRequest, FlagRequest, SaveRequest, SendRequest
  <1>4. p.pc = "store" => p.op # "flag"
    BY DEF KnownRequest, MoveRequest, DeleteRequest, FlagRequest, SaveRequest, SendRequest
  <1>5. p.pc = "store" /\ t = p.meant => excuse'[t] # {} \/ p.op = "save"
    BY <1>1, <1>2, <1>4 DEF ExcusesInv
  <1>. QED
    BY <1>3, <1>5

(* A message at the UID of a command that takes it away is excused, being  *)
(* saved, or copied.                                                       *)
LEMMA EffectKeeps ==
    ASSUME MailInv, NEW r \in Requests, req[r] # None, ~Refused(req[r]),
           box' = Effect(req[r], req[r].pc), Reasons(req[r]),
           NEW next, next \in {OnOk(req[r]), OnError(req[r])}, Continue(r, next)
    PROVE  MailInv'
  <1>. USE DEF MailInv
  <1>. DEFINE q == req[r]
  <1>1. /\ q \in KnownRequest /\ ~Refused(q) /\ box' = Effect(q, q.pc)
        /\ next \in {OnOk(q), OnError(q)} /\ Reasons(q) /\ box[Source(q)] # None
    BY DEF MailTypes, Refused
  <1>2. q.op = "move" => q.to # q.folder
    BY <1>1, RequestKnown DEF UidsInv
  <1>. HIDE DEF q
  <1>3. PICK p \in KnownRequest : p = q
    BY <1>1
  <1>4. /\ Grown
        /\ \A j, v : /\ There(j, v)
                     /\ p.pc \in {"store", "flag", "move"} => j # Source(p) \/ v # p.uid
                     => Stays(j, v)
        /\ p.pc \in {"copy", "move"} /\ Present(p) =>
              \E v \in DOMAIN box'[Destination(p)] :
                 /\ v \notin DOMAIN box[Destination(p)]
                 /\ \A t : Is(Source(p), p.uid, t) => Is(Destination(p), v, t)'
    BY <1>1, <1>2, <1>3, EffectGrows
  <1>5. /\ excuse' \in [Texts -> SUBSET {"asked", "marked", "crossed", "replaced",
                                         "unsaved", "sent", "folder"}]
        /\ \A t \in Texts : excuse[t] \subseteq excuse'[t]
        /\ p.pc = "store" /\ Present(p) /\ Target(p) # p.meant => excuse'[Target(p)] # {}
        /\ p.pc = "flag" /\ Present(p) => excuse'[Target(p)] # {}
        /\ p.pc \in {"append", "smtp"} /\ p.meant # None => excuse'[p.meant] # {}
    BY <1>1, <1>3, ReasonsAre
  <1>6. req[r] = p /\ ~Refused(p) /\ next \in {OnOk(p), OnError(p)} /\ box[Source(p)] # None
    BY <1>1, <1>3 DEF q
  <1>7. ASSUME NEW t, p.pc \in {"copy", "move"}, Is(Source(p), p.uid, t)
        PROVE  Fresh(Destination(p), t)
    BY <1>4, <1>6, <1>7, CopiedIsFresh
  <1>8. next = "store" /\ p.op = "move" =>
            \A t : Is(Source(p), p.uid, t) => Fresh(Destination(p), t)
    <2>1. next = "store" /\ p.op = "move" => p.pc = "copy"
      BY <1>6, NextCommand
    <2>. QED
      BY <1>7, <2>1
  <1>9. ASSUME NEW j, NEW v, NEW t \in Texts, There(j, v), Is(j, v, t), ~Copied(j, v)
        PROVE  \/ Is(j, v, t)' \/ excuse'[t] # {}
               \/ p.op = "save" /\ p.meant = t
               \/ p.op = "move" /\ Fresh(Destination(p), t)
    <2>1. CASE Stays(j, v)
      BY <1>9, <2>1 DEF Stays
    <2>2. CASE ~Stays(j, v)
      <3>1. p.pc \in {"store", "flag", "move"} /\ j = Source(p) /\ v = p.uid
        BY <1>4, <1>9, <2>2
      <3>2. Present(p) /\ Target(p) = t
        BY <1>6, <1>9, <3>1 DEF Is, Present, Target
      <3>. QED
        BY <1>5, <1>6, <1>7, <1>9, <3>1, <3>2, TakenAway
    <2>. QED
      BY <2>1, <2>2
  <1>10. p.op = "save" /\ next = "idle" /\ p.meant # None => excuse'[p.meant] # {}
    <2>1. p.op = "save" => p.pc \in {"store", "expunge", "append"}
      BY RequestKnown DEF SaveRequest
    <2>. QED
      BY <1>5, <1>6, <2>1, OkIs, ErrorIs
  <1>11. p.op = "send" /\ p.meant # None => excuse'[p.meant] # {}
    BY <1>5, <1>6, SentIsExcused
  <1>12. /\ excuse' \in [Texts -> SUBSET {"asked", "marked", "crossed", "replaced",
                                          "unsaved", "sent", "folder"}]
         /\ \A t \in Texts : excuse[t] \subseteq excuse'[t]
         /\ req[r] = p /\ next \in {OnOk(p), OnError(p)} /\ Grown
    BY <1>4, <1>5, <1>6
  <1>13. \A j, v, t : There(j, v) /\ Is(j, v, t) /\ ~Copied(j, v) /\ t \in Texts =>
            \/ Is(j, v, t)' \/ excuse'[t] # {}
            \/ p.op = "save" /\ p.meant = t
            \/ p.op = "move" /\ Fresh(Destination(p), t)
    BY <1>9
  <1>. QED
    BY <1>8, <1>10, <1>11, <1>12, <1>13, ContinueKeeps

(* A command that is answered well.                                        *)
LEMMA CommandOkKeeps ==
    ASSUME MailInv, NEW r \in Requests, CommandOk(r)
    PROVE  MailInv'
  BY EffectKeeps DEF CommandOk

(* A command that is answered with an error and did nothing.               *)
LEMMA NoEffectKeeps ==
    ASSUME MailInv, NEW r \in Requests, NEW q \in KnownRequest, req[r] = q, UNCHANGED box,
           Continue(r, OnError(q)),
           excuse' \in [Texts -> SUBSET {"asked", "marked", "crossed", "replaced",
                                         "unsaved", "sent", "folder"}],
           \A t \in Texts : excuse[t] \subseteq excuse'[t],
           q.pc = "append" /\ q.meant # None => excuse'[q.meant] # {}
    PROVE  MailInv'
  <1>. USE DEF MailInv
  <1>1. Grown /\ \A j, v : Stays(j, v)
    BY UnchangedGrows
  <1>2. ~(OnError(q) = "store" /\ q.op = "move")
    BY NextCommand
  <1>3. \A j, v, t : Is(j, v, t) => Is(j, v, t)'
    BY <1>1 DEF Stays
  <1>4. q.op = "save" /\ OnError(q) = "idle" => q.pc = "append"
    <2>1. q.op = "save" => q.pc \in {"store", "expunge", "append"}
      BY RequestKnown DEF SaveRequest
    <2>. QED
      BY <2>1, ErrorIs
  <1>5. q.op = "send" /\ OnError(q) # "idle" /\ q.meant # None => excuse'[q.meant] # {}
    <2>1. q.op = "send" /\ OnError(q) # "idle" => q.pc # "smtp"
      BY ErrorIs
    <2>. QED
      BY <2>1, SentIsExcused
  <1>. QED
    BY <1>1, <1>2, <1>3, <1>4, <1>5, ContinueKeeps

(* A command that is refused.                                              *)
LEMMA CommandRefusedKeeps ==
    ASSUME MailInv, NEW r \in Requests, CommandRefused(r)
    PROVE  MailInv'
  <1>. USE DEF MailInv
  <1>1. PICK q \in KnownRequest : q = req[r]
    BY DEF CommandRefused, MailTypes
  <1>2. /\ Refused(q) \/ q.pc = "move"
        /\ Continue(r, OnError(q)) /\ UNCHANGED <<box, excuse>>
    BY <1>1 DEF CommandRefused
  <1>3. q.pc # "append"
    <2>1. q.pc = "append" => box[Source(q)] # None
      BY RequestKnown DEF KnownRequest, MoveRequest, DeleteRequest, FlagRequest, SaveRequest,
         SendRequest, Source, MailTypes
    <2>. QED
      BY <1>2, <2>1 DEF Refused
  <1>. QED
    BY <1>1, <1>2, <1>3, NoEffectKeeps DEF MailTypes

(* A command that is answered with an error.                               *)
LEMMA CommandFailsKeeps ==
    ASSUME MailInv, NEW r \in Requests, CommandFails(r)
    PROVE  MailInv'
  <1>. USE DEF MailInv
  <1>1. PICK q \in KnownRequest : q = req[r]
    BY DEF CommandFails, MailTypes
  <1>2. ~Refused(q) /\ Continue(r, OnError(q)) /\ q # None
    BY <1>1 DEF CommandFails
  <1>3. CASE UNCHANGED box /\ (IF q.pc = "append" THEN Excused({q.meant} \ {None}, "unsaved")
                                                  ELSE UNCHANGED excuse)
    <2>1. q.meant # None => q.meant \in Texts
      BY RequestKnown
    <2>2. /\ excuse' \in [Texts -> SUBSET {"asked", "marked", "crossed", "replaced",
                                           "unsaved", "sent", "folder"}]
          /\ \A t \in Texts : excuse[t] \subseteq excuse'[t]
          /\ q.pc = "append" /\ q.meant # None => excuse'[q.meant] # {}
      <3>1. CASE q.pc = "append"
        BY <1>3, <2>1, <3>1, ExcusedGrows
      <3>2. CASE q.pc # "append"
        BY <1>3, <3>2 DEF MailTypes
      <3>. QED
        BY <3>1, <3>2
    <2>. QED
      BY <1>1, <1>2, <1>3, <2>2, NoEffectKeeps
  <1>4. CASE box' = Effect(q, q.pc) /\ Reasons(q)
    BY <1>1, <1>2, <1>4, EffectKeeps
  <1>5. CASE q.pc = "move" /\ Present(q) /\ box' = Effect(q, "copy") /\ UNCHANGED excuse
    <2>1. q.op = "move" /\ q.to # q.folder
      BY <1>1, <1>2, <1>5 DEF KnownRequest, MoveRequest, DeleteRequest, FlagRequest,
         SaveRequest, SendRequest, UidsInv
    <2>2. Grown /\ \A j, v : There(j, v) => Stays(j, v)
      BY <1>2, <1>5, <2>1, EffectGrows
    <2>3. \A j, v, t : There(j, v) /\ Is(j, v, t) => Is(j, v, t)'
      BY <2>2 DEF Stays
    <2>4. OnError(q) = "copy"
      BY <1>5, ErrorIs
    <2>. QED
      BY <1>1, <1>2, <1>5, <2>1, <2>2, <2>3, <2>4, ContinueKeeps DEF MailTypes
  <1>. QED
    BY <1>1, <1>3, <1>4, <1>5 DEF CommandFails
-----------------------------------------------------------------------------

(* Every step keeps the invariant.                                         *)
LEMMA MailNext == MailInv /\ [Next]_vars => MailInv'
  <1>. SUFFICES ASSUME MailInv, [Next]_vars PROVE MailInv'
    OBVIOUS
  <1>1. ASSUME NEW r \in Requests,
               \/ HandleDeleteEmail(r) \/ handleDelete(r)
               \/ handleMove(r) \/ handleSnooze(r) \/ handleReportSpam(r)
        PROVE  MailInv'
    BY <1>1, HandlersKeep
  <1>2. ASSUME NEW r \in Requests, handleSetFlag(r) PROVE MailInv'
    BY <1>2, SetFlagKeeps
  <1>3. ASSUME NEW r \in Requests,
               HandleSaveDraft(r) \/ handleSaveDraft(r) \/ HandleComposeEmail(r) \/ handleSend(r)
        PROVE  MailInv'
    BY <1>3, WindowsKeep
  <1>4. ASSUME NEW r \in Requests, Command(r) PROVE MailInv'
    BY <1>4, CommandOkKeeps, CommandRefusedKeeps, CommandFailsKeeps DEF Command
  <1>5. CASE handleCreateFolder
    BY <1>5, CreateFolderKeeps
  <1>6. CASE handleDeleteFolder
    BY <1>6, DeleteFolderKeeps
  <1>7. CASE OtherMarks
    BY <1>7, OtherMarksKeeps
  <1>8. CASE UNCHANGED vars
    BY <1>8 DEF vars, MailInv, MailTypes, UidsInv, ExcusesInv, KeptInv, Kept, Copied, Is, Gone,
       Source, Saving, Working
  <1>. QED
    BY <1>1, <1>2, <1>3, <1>4, <1>5, <1>6, <1>7, <1>8 DEF Next

(* A kept message is a message.                                            *)
LEMMA KeptIsThere == MailInv => NothingLost
  <1>. SUFFICES ASSUME MailInv, NEW t \in Texts \ Versions,
                       t \notin {At(p).text : p \in Messages}, ~Saving(t)
                PROVE  excuse[t] # {}
    BY DEF NothingLost, Saving
  <1>1. ASSUME Kept(t) PROVE FALSE
    <2>1. PICK k \in Folders : /\ box[k] # None
                               /\ \E u \in DOMAIN box[k] : Is(k, u, t) /\ ~Copied(k, u)
      BY <1>1 DEF Kept
    <2>2. PICK u \in DOMAIN box[k] : Is(k, u, t)
      BY <2>1
    <2>. DEFINE p == <<k[1], k[2], u>>
    <2>3. p \in Messages
      BY <2>1, <2>2 DEF Messages, Folders, Is, Gone
    <2>4. k = <<k[1], k[2]>>
      BY DEF Folders
    <2>5. At(p).text = t
      BY <2>2, <2>4 DEF At, Is
    <2>. QED
      BY <2>3, <2>5
  <1>. QED
    BY <1>1 DEF MailInv, KeptInv

(* Whatever requests, failures, refusals and other clients come in         *)
(* between, a message that is nowhere was deleted on request, marked,      *)
(* crossed with one of another account or of a deleted folder, in a        *)
(* deleted folder, or a draft that was sent or replaced: MoveMessage of    *)
(* handlers/api/email.go loses none, by MOVE or by its fallback to COPY,   *)
(* STORE and EXPUNGE.                                                      *)
THEOREM NothingIsLost == Spec => []NothingLost
  <1>. QED
    BY MailInit, MailNext, KeptIsThere, PTL DEF Spec
-----------------------------------------------------------------------------

(* How often a text is there: its messages, those of them that are loose   *)
(* (unmarked and not about to be marked), the requests that still owe a    *)
(* move or an unmarking of it, all such requests so far, and the failed    *)
(* commands.  While all are owed only failures have copied it; each one    *)
(* that is done may leave one more that is loose.                          *)
Good(I, L, O, m, f) ==
    /\ IsFiniteSet(I) /\ IsFiniteSet(O) /\ L \subseteq I
    /\ Cardinality(O) <= m
    /\ m = Cardinality(O) => Cardinality(I) <= 1 + f
    /\ Cardinality(L) <= f + (IF m = Cardinality(O) THEN 1 ELSE m - Cardinality(O))

(* The sizes of a part, and of a set with one element more.                *)
LEMMA Sizes ==
    ASSUME NEW S, IsFiniteSet(S), NEW x
    PROVE  /\ Cardinality(S) \in Nat
           /\ \A T \in SUBSET S : /\ IsFiniteSet(T) /\ Cardinality(T) \in Nat
                                  /\ Cardinality(T) <= Cardinality(S)
           /\ \A T \in SUBSET (S \cup {x}) :
                 /\ IsFiniteSet(T) /\ Cardinality(T) \in Nat
                 /\ Cardinality(T) <= Cardinality(S) + 1
                 /\ \A y \in S : y \notin T => Cardinality(T) <= Cardinality(S)
           /\ \A y \in S : \A T \in SUBSET (S \ {y}) :
                 /\ IsFiniteSet(T) /\ Cardinality(T) \in Nat
                 /\ Cardinality(T) + 1 <= Cardinality(S)
  <1>1. Cardinality(S) \in Nat
    BY FS_CardinalityType
  <1>2. ASSUME NEW U, IsFiniteSet(U), NEW T \in SUBSET U
        PROVE  IsFiniteSet(T) /\ Cardinality(T) \in Nat /\ Cardinality(T) <= Cardinality(U)
    BY <1>2, FS_Subset, FS_CardinalityType
  <1>3. IsFiniteSet(S \cup {x}) /\ Cardinality(S \cup {x}) \in Nat
    BY FS_AddElement, FS_CardinalityType
  <1>4. Cardinality(S \cup {x}) <= Cardinality(S) + 1
    <2>1. x \in S => S \cup {x} = S
      OBVIOUS
    <2>2. x \notin S => Cardinality(S \cup {x}) = Cardinality(S) + 1
      BY FS_AddElement
    <2>. QED
      BY <1>1, <2>1, <2>2
  <1>5. ASSUME NEW U, IsFiniteSet(U), NEW y \in U
        PROVE  /\ IsFiniteSet(U \ {y}) /\ Cardinality(U \ {y}) \in Nat
               /\ Cardinality(U \ {y}) + 1 = Cardinality(U)
    <2>1. IsFiniteSet(U \ {y}) /\ Cardinality(U \ {y}) = Cardinality(U) - 1
      BY <1>5, FS_RemoveElement
    <2>. QED
      BY <1>5, <2>1, FS_CardinalityType
  <1>6. ASSUME NEW T \in SUBSET (S \cup {x})
        PROVE  /\ IsFiniteSet(T) /\ Cardinality(T) \in Nat
               /\ Cardinality(T) <= Cardinality(S) + 1
    <2>1. /\ IsFiniteSet(T) /\ Cardinality(T) \in Nat
          /\ Cardinality(T) <= Cardinality(S \cup {x})
      BY <1>2, <1>3
    <2>. QED
      BY <1>1, <1>3, <1>4, <2>1
  <1>7. ASSUME NEW T \in SUBSET (S \cup {x}), NEW y \in S, y \notin T
        PROVE  Cardinality(T) <= Cardinality(S)
    <2>1. T \subseteq (S \cup {x}) \ {y} /\ y \in S \cup {x}
      BY <1>7
    <2>2. /\ IsFiniteSet((S \cup {x}) \ {y}) /\ Cardinality((S \cup {x}) \ {y}) \in Nat
          /\ Cardinality((S \cup {x}) \ {y}) + 1 = Cardinality(S \cup {x})
      BY <1>3, <1>5, <2>1
    <2>3. Cardinality(T) \in Nat /\ Cardinality(T) <= Cardinality((S \cup {x}) \ {y})
      BY <1>2, <2>1, <2>2
    <2>. QED
      BY <1>1, <1>3, <1>4, <2>2, <2>3
  <1>8. ASSUME NEW y \in S, NEW T \in SUBSET (S \ {y})
        PROVE  /\ IsFiniteSet(T) /\ Cardinality(T) \in Nat
               /\ Cardinality(T) + 1 <= Cardinality(S)
    <2>1. /\ IsFiniteSet(S \ {y}) /\ Cardinality(S \ {y}) \in Nat
          /\ Cardinality(S \ {y}) + 1 = Cardinality(S)
      BY <1>5
    <2>2. IsFiniteSet(T) /\ Cardinality(T) \in Nat /\ Cardinality(T) <= Cardinality(S \ {y})
      BY <1>2, <2>1
    <2>. QED
      BY <1>1, <2>1, <2>2
  <1>. QED
    BY <1>1, <1>2, <1>6, <1>7, <1>8

(* No message more, and no more that are loose.                            *)
LEMMA GoodShrinks ==
    ASSUME NEW I, NEW L, NEW O, NEW m \in Nat, NEW f \in Nat, Good(I, L, O, m, f),
           NEW I2 \in SUBSET I, NEW L2 \in SUBSET L, NEW O2 \in SUBSET O, L2 \subseteq I2
    PROVE  Good(I2, L2, O2, m, f)
  <1>1. IsFiniteSet(I) /\ IsFiniteSet(O) /\ IsFiniteSet(L)
    BY FS_Subset DEF Good
  <1>2. /\ Cardinality(I) \in Nat /\ Cardinality(O) \in Nat /\ Cardinality(L) \in Nat
        /\ Cardinality(I2) \in Nat /\ Cardinality(O2) \in Nat /\ Cardinality(L2) \in Nat
        /\ Cardinality(I2) <= Cardinality(I) /\ Cardinality(O2) <= Cardinality(O)
        /\ Cardinality(L2) <= Cardinality(L) /\ IsFiniteSet(I2) /\ IsFiniteSet(O2)
    BY <1>1, Sizes
  <1>. QED
    BY <1>2 DEF Good

(* A request to move or unmark the text comes in.                          *)
LEMMA GoodEnters ==
    ASSUME NEW I, NEW L, NEW O, NEW m \in Nat, NEW f \in Nat, Good(I, L, O, m, f),
           NEW L2 \in SUBSET L, NEW O2, \E r : O2 \subseteq O \cup {r}
    PROVE  Good(I, L2, O2, m + 1, f)
  <1>1. IsFiniteSet(I) /\ IsFiniteSet(O) /\ IsFiniteSet(L)
    BY FS_Subset DEF Good
  <1>2. /\ Cardinality(I) \in Nat /\ Cardinality(O) \in Nat /\ Cardinality(L) \in Nat
        /\ Cardinality(O2) \in Nat /\ Cardinality(L2) \in Nat
        /\ Cardinality(O2) <= Cardinality(O) + 1
        /\ Cardinality(L2) <= Cardinality(L) /\ IsFiniteSet(O2)
    <2>1. PICK r : O2 \in SUBSET (O \cup {r})
      OBVIOUS
    <2>. QED
      BY <1>1, <2>1, Sizes
  <1>. QED
    BY <1>2 DEF Good

(* A command that fails pays for what it leaves.                           *)
Left(I, L, O, I2, L2, O2) ==
    /\ \E n : I2 \subseteq I \cup {n}
    /\ \E n : L2 \subseteq L \cup {n}
    /\ L2 \subseteq I2 /\ O2 \subseteq O

LEMMA GoodFaults ==
    ASSUME NEW I, NEW L, NEW O, NEW m \in Nat, NEW f \in Nat, Good(I, L, O, m, f),
           NEW I2, NEW L2, NEW O2, Left(I, L, O, I2, L2, O2), NEW m2 \in {m, m + 1}
    PROVE  Good(I2, L2, O2, m2, f + 1)
  <1>0. PICK n : I2 \subseteq I \cup {n}
    BY DEF Left
  <1>01. PICK x : L2 \subseteq L \cup {x}
    BY DEF Left
  <1>02. /\ I2 \in SUBSET (I \cup {n}) /\ L2 \in SUBSET (L \cup {x})
         /\ L2 \subseteq I2 /\ O2 \in SUBSET O
    BY <1>0, <1>01 DEF Left
  <1>1. IsFiniteSet(I) /\ IsFiniteSet(O) /\ IsFiniteSet(L)
    BY FS_Subset DEF Good
  <1>2. /\ Cardinality(I) \in Nat /\ Cardinality(O) \in Nat /\ Cardinality(L) \in Nat
    BY <1>1, Sizes
  <1>3. Cardinality(I2) \in Nat /\ IsFiniteSet(I2) /\ Cardinality(I2) <= Cardinality(I) + 1
    BY <1>02, <1>1, Sizes
  <1>4. Cardinality(L2) \in Nat /\ Cardinality(L2) <= Cardinality(L) + 1
    BY <1>02, <1>1, Sizes
  <1>5. Cardinality(O2) \in Nat /\ IsFiniteSet(O2) /\ Cardinality(O2) <= Cardinality(O)
    BY <1>02, <1>1, Sizes
  <1>. QED
    BY <1>02, <1>2, <1>3, <1>4, <1>5 DEF Good

(* A move or an unmarking is done: it was owed, or is counted now.         *)
Done(I, L, O, I2, L2, O2, owed) ==
    /\ \E n : I2 \subseteq I \cup {n} /\ L2 \subseteq L \cup {n}
    /\ L2 \subseteq I2 /\ O2 \subseteq O
    /\ L2 \subseteq I \/ \E y \in I : y \notin L2
    /\ owed => \E r \in O : r \notin O2

LEMMA GoodDone ==
    ASSUME NEW I, NEW L, NEW O, NEW m \in Nat, NEW f \in Nat, Good(I, L, O, m, f),
           NEW I2, NEW L2, NEW O2, NEW m2 \in {m, m + 1},
           Done(I, L, O, I2, L2, O2, m2 = m)
    PROVE  Good(I2, L2, O2, m2, f)
  <1>0. PICK n : I2 \subseteq I \cup {n} /\ L2 \subseteq L \cup {n}
    BY DEF Done
  <1>01. /\ I2 \in SUBSET (I \cup {n}) /\ L2 \in SUBSET (L \cup {n})
         /\ L2 \subseteq I2 /\ O2 \in SUBSET O
    BY <1>0 DEF Done
  <1>1. IsFiniteSet(I) /\ IsFiniteSet(O) /\ IsFiniteSet(L)
    BY FS_Subset DEF Good
  <1>2. /\ Cardinality(I) \in Nat /\ Cardinality(O) \in Nat /\ Cardinality(L) \in Nat
    BY <1>1, Sizes
  <1>3. Cardinality(I2) \in Nat /\ IsFiniteSet(I2) /\ Cardinality(I2) <= Cardinality(I) + 1
    BY <1>01, <1>1, Sizes
  <1>4. Cardinality(L2) \in Nat /\ Cardinality(L2) <= Cardinality(L) + 1
    BY <1>01, <1>1, Sizes
  <1>5. Cardinality(L2) <= Cardinality(I)
    <2>1. CASE L2 \subseteq I
      BY <1>1, <2>1, Sizes
    <2>2. CASE \E y \in I : y \notin L2
      <3>1. PICK y \in I : y \notin L2
        BY <2>2
      <3>2. L2 \in SUBSET (I \cup {n})
        BY <1>01
      <3>. QED
        BY <1>1, <3>1, <3>2, Sizes
    <2>. QED
      BY <2>1, <2>2 DEF Done
  <1>6. Cardinality(O2) \in Nat /\ IsFiniteSet(O2) /\ Cardinality(O2) <= Cardinality(O)
    BY <1>01, <1>1, Sizes
  <1>7. m2 = m => Cardinality(O2) + 1 <= Cardinality(O)
    <2>1. ASSUME NEW r \in O, r \notin O2 PROVE Cardinality(O2) + 1 <= Cardinality(O)
      <3>1. O2 \in SUBSET (O \ {r})
        BY <1>01, <2>1
      <3>. QED
        BY <1>1, <3>1, Sizes
    <2>. QED
      BY <2>1 DEF Done
  <1>8. Cardinality(O2) < m2
    BY <1>2, <1>6, <1>7 DEF Good
  <1>. QED
    BY <1>01, <1>2, <1>3, <1>4, <1>5, <1>6, <1>7, <1>8 DEF Good
-----------------------------------------------------------------------------

(* What is old after a command: an item keeps its text, and its mark but   *)
(* where the request clears it.  What is new: a version, or the copy.      *)
Aged(q, pc) ==
    \A j, v : There(j, v) /\ There(j, v)' /\ box'[j][v] # None =>
        /\ box[j][v] # None /\ box'[j][v].text = box[j][v].text
        /\ ~box'[j][v].deleted =>
              \/ ~box[j][v].deleted
              \/ pc = "unflag" /\ Present(q) /\ j = Source(q) /\ v = q.uid

Comes(q, pc, n) ==
    \A j, v : There(j, v)' /\ ~There(j, v) /\ box'[j][v] # None =>
        \/ box'[j][v].text \in Versions
        \/ /\ pc \in {"copy", "move"} /\ Present(q) /\ j = Destination(q) /\ v = n
           /\ box'[j][v].text = Target(q)

(* APPEND gives one UID, EXPUNGE takes some away.                          *)
LEMMA AppendExpunge ==
    ASSUME NEW s \in Items, NEW e
    PROVE  /\ \A v \in DOMAIN Append(s, e) : v \in DOMAIN s \/ v = Len(s) + 1
           /\ \A v \in DOMAIN s : Expunged(s)[v] \in {None, s[v]}
  <1>1. DOMAIN s = 1..Len(s) /\ Len(s) \in Nat
    BY DEF Items
  <1>2. DOMAIN Append(s, e) = 1..(Len(s) + 1)
    BY DEF Items
  <1>3. \A v \in DOMAIN s : Expunged(s)[v] \in {None, s[v]}
    BY DEF Expunged
  <1>. QED
    BY <1>1, <1>2, <1>3

(* Nothing changes.                                                        *)
LEMMA UnchangedAged ==
    ASSUME UNCHANGED box, NEW q, NEW pc, NEW n
    PROVE  Aged(q, pc) /\ Comes(q, pc, n)
  BY DEF Aged, Comes, There

(* One folder gets items of which the old are what they were.              *)
LEMMA FolderAged ==
    ASSUME MailTypes, NEW q, NEW pc, NEW n, NEW k \in Folders, NEW s \in Items,
           box' = [box EXCEPT ![k] = s],
           box[k] # None => \A v \in DOMAIN box[k] : s[v] # None =>
               /\ box[k][v] # None /\ s[v].text = box[k][v].text
               /\ ~s[v].deleted => \/ ~box[k][v].deleted
                                   \/ /\ pc = "unflag" /\ Present(q) /\ k = Source(q)
                                      /\ v = q.uid,
           \A v \in DOMAIN s : s[v] # None =>
               \/ box[k] # None /\ v \in DOMAIN box[k]
               \/ s[v].text \in Versions
               \/ /\ pc \in {"copy", "move"} /\ Present(q) /\ k = Destination(q) /\ v = n
                  /\ s[v].text = Target(q)
    PROVE  Aged(q, pc) /\ Comes(q, pc, n)
  <1>1. box'[k] = s /\ \A j \in Folders : j # k => box'[j] = box[j]
    BY DEF MailTypes
  <1>2. Aged(q, pc)
    BY <1>1 DEF Aged, There
  <1>3. ASSUME NEW j, NEW v, There(j, v)', ~There(j, v), box'[j][v] # None
        PROVE  \/ box'[j][v].text \in Versions
               \/ /\ pc \in {"copy", "move"} /\ Present(q) /\ j = Destination(q) /\ v = n
                  /\ box'[j][v].text = Target(q)
    BY <1>1, <1>3 DEF There
  <1>. QED
    BY <1>2, <1>3 DEF Comes

(* Items are taken away at most.                                           *)
LEMMA SameAged ==
    ASSUME NEW q, NEW pc, \A j, v : There(j, v) => box'[j][v] = None \/ box'[j][v] = box[j][v]
    PROVE  Aged(q, pc)
  BY DEF Aged

(* MOVE.                                                                   *)
LEMMA MoveAged ==
    ASSUME MailTypes, NEW q, Present(q), NEW k \in Folders, box[k] # None, k = Source(q),
           q.uid \in DOMAIN box[k], NEW d \in Folders, box[d] # None, d # k, d = Destination(q),
           NEW e \in Item, e = box[k][q.uid],
           box' = [box EXCEPT ![d] = Append(@, e), ![k] = [@ EXCEPT ![q.uid] = None]]
    PROVE  /\ Aged(q, "move") /\ Comes(q, "move", Len(box[d]) + 1)
           /\ box'[k][q.uid] = None
  <1>. DEFINE s == Append(box[d], e)
              z == [box[k] EXCEPT ![q.uid] = None]
  <1>1. box[k] \in Items /\ box[d] \in Items
    BY DEF MailTypes, Items
  <1>2. /\ \A v \in DOMAIN box[d] : s[v] = box[d][v]
        /\ \A v \in DOMAIN s : v \in DOMAIN box[d] \/ v = Len(box[d]) + 1
        /\ s[Len(box[d]) + 1] = e /\ e # None
    <2>1. /\ \A v \in DOMAIN box[d] : s[v] = box[d][v]
          /\ s[Len(box[d]) + 1] = e /\ e # None
      BY <1>1, AppendedItems
    <2>2. \A v \in DOMAIN s : v \in DOMAIN box[d] \/ v = Len(box[d]) + 1
      BY <1>1, AppendExpunge
    <2>. QED
      BY <2>1, <2>2
  <1>3. /\ DOMAIN z = DOMAIN box[k] /\ z[q.uid] = None
        /\ \A v \in DOMAIN box[k] : v # q.uid => z[v] = box[k][v]
    OBVIOUS
  <1>4. box'[d] = s /\ box'[k] = z /\ \A j \in Folders : j # d /\ j # k => box'[j] = box[j]
    BY DEF MailTypes
  <1>5. e.text = Target(q)
    BY DEF Target
  <1>. HIDE DEF s, z
  <1>6. Aged(q, "move")
    <2>1. ASSUME NEW j, NEW v, There(j, v)
          PROVE  box'[j][v] = None \/ box'[j][v] = box[j][v]
      <3>1. CASE j = d
        BY <1>2, <1>4, <2>1, <3>1 DEF There
      <3>2. CASE j = k
        BY <1>3, <1>4, <2>1, <3>2 DEF There
      <3>3. CASE j # d /\ j # k
        BY <1>4, <2>1, <3>3 DEF There
      <3>. QED
        BY <3>1, <3>2, <3>3
    <2>. QED
      BY <2>1, SameAged
  <1>7. ASSUME NEW j, NEW v, There(j, v)', ~There(j, v), box'[j][v] # None
        PROVE  j = d /\ v = Len(box[d]) + 1 /\ box'[j][v].text = Target(q)
    <2>1. /\ j \in Folders /\ box'[j] # None /\ v \in DOMAIN box'[j]
          /\ ~(box[j] # None /\ v \in DOMAIN box[j])
      BY <1>7 DEF There
    <2>2. j = k \/ j = d
      BY <1>4, <2>1
    <2>3. j # k
      BY <1>3, <1>4, <2>1
    <2>. QED
      BY <1>2, <1>4, <1>5, <2>1, <2>2, <2>3
  <1>8. Comes(q, "move", Len(box[d]) + 1)
    BY <1>7 DEF Comes
  <1>. QED
    BY <1>3, <1>4, <1>6, <1>8

(* What is old and what is new after a command.                            *)
LEMMA EffectAges ==
    ASSUME MailTypes, NEW q \in KnownRequest, ~Refused(q),
           q.op = "move" => q.to # q.folder,
           NEW pc, pc = q.pc \/ (q.pc = "move" /\ pc = "copy"), box' = Effect(q, pc)
    PROVE  /\ Aged(q, pc) /\ \E n : Comes(q, pc, n)
           /\ pc = "move" /\ Present(q) => box'[Source(q)][q.uid] = None
           /\ pc = "store" /\ Present(q) => box'[Source(q)][q.uid].deleted
  <1>. DEFINE k == Source(q)
              u == q.uid
              d == Destination(q)
  <1>1. k \in Folders /\ box[k] # None /\ box[k] \in Items
    BY RequestKnown DEF Refused, MailTypes, Items
  <1>2. Present(q) => /\ u \in DOMAIN box[k] /\ box[k][u] # None /\ box[k][u] \in Item
                      /\ Target(q) = box[k][u].text
    BY <1>1, ItemThere DEF Present, Gone, Target
  <1>3. pc \in {"create", "copy", "move"} => d \in Folders /\ d # k
    <2>1. pc \in {"create", "copy", "move"} => q.op = "move"
      BY DEF KnownRequest, MoveRequest, DeleteRequest, FlagRequest, SaveRequest, SendRequest
    <2>. QED
      BY <2>1, RequestKnown DEF Source, Destination
  <1>4. pc \in {"copy", "move"} => box[d] # None /\ box[d] \in Items
    BY <1>3 DEF Refused, MailTypes, Items
  <1>5. pc \in {"append", "file"} => /\ q.acct \in Accounts /\ q.to \in Versions
                                     /\ [text |-> q.to, deleted |-> FALSE] \in Item
    <2>1. pc \in {"append", "file"} => q.to \in Versions /\ q.acct \in Accounts
      BY RequestKnown DEF KnownRequest, MoveRequest, DeleteRequest, FlagRequest, SaveRequest,
         SendRequest
    <2>. QED
      BY <2>1 DEF Texts, Item
  <1>6. CASE UNCHANGED box /\ ~(pc \in {"store", "move"} /\ Present(q))
    BY <1>6, UnchangedAged
  <1>7. CASE pc \in {"store", "flag"} /\ Present(q)
    <2>. DEFINE e == [text |-> box[k][u].text, deleted |-> TRUE]
                s == [box[k] EXCEPT ![u] = e]
    <2>1. box' = [box EXCEPT ![k] = [@ EXCEPT ![u].deleted = TRUE]]
      BY <1>7, EffectIs DEF Marked
    <2>2. box' = [box EXCEPT ![k] = s] /\ e \in Item
      BY <1>1, <1>2, <1>7, <2>1, MarkIs
    <2>3. e.text = box[k][u].text /\ e.deleted
      OBVIOUS
    <2>4. /\ s \in Items /\ DOMAIN s = DOMAIN box[k] /\ s[u] = e
          /\ \A v \in DOMAIN box[k] : v # u => s[v] = box[k][v]
      <3>. HIDE DEF e
      <3>. QED
        BY <1>1, <1>2, <1>7, <2>2, PutItems
    <2>. HIDE DEF e, s
    <2>5. box'[k] = s
      BY <1>1, <2>2 DEF MailTypes
    <2>6. Aged(q, pc) /\ Comes(q, pc, 0)
      <3>1. /\ \A v \in DOMAIN box[k] : s[v] # None =>
                  /\ box[k][v] # None /\ s[v].text = box[k][v].text
                  /\ ~s[v].deleted => ~box[k][v].deleted
            /\ \A v \in DOMAIN s : s[v] # None => v \in DOMAIN box[k]
        BY <1>2, <1>7, <2>3, <2>4
      <3>2. s \in Items /\ box' = [box EXCEPT ![k] = s] /\ k \in Folders /\ box[k] # None
        BY <1>1, <2>2, <2>4
      <3>. QED
        BY <3>1, <3>2, FolderAged
    <2>. QED
      BY <1>7, <2>3, <2>4, <2>5, <2>6
  <1>8. CASE pc = "unflag" /\ Present(q)
    <2>. DEFINE e == [text |-> box[k][u].text, deleted |-> FALSE]
                s == [box[k] EXCEPT ![u] = e]
    <2>1. box' = [box EXCEPT ![k] = [@ EXCEPT ![u].deleted = FALSE]]
      BY <1>8, EffectIs
    <2>2. box' = [box EXCEPT ![k] = s] /\ e \in Item
      BY <1>1, <1>2, <1>8, <2>1, MarkIs
    <2>3. e.text = box[k][u].text
      OBVIOUS
    <2>4. /\ s \in Items /\ DOMAIN s = DOMAIN box[k] /\ s[u] = e
          /\ \A v \in DOMAIN box[k] : v # u => s[v] = box[k][v]
      <3>. HIDE DEF e
      <3>. QED
        BY <1>1, <1>2, <1>8, <2>2, PutItems
    <2>. HIDE DEF e, s
    <2>6. Aged(q, pc) /\ Comes(q, pc, 0)
      BY <1>1, <1>2, <1>8, <2>2, <2>3, <2>4, FolderAged
    <2>. QED
      BY <1>8, <2>6
  <1>9. CASE pc = "create" /\ box[d] = None
    <2>1. box' = [box EXCEPT ![d] = <<>>] /\ d \in Folders /\ <<>> \in Items
      BY <1>3, <1>9, EffectIs, EmptySeq DEF CreateMailbox, Items
    <2>2. Aged(q, pc) /\ Comes(q, pc, 0)
      BY <1>9, <2>1, FolderAged
    <2>. QED
      BY <1>9, <2>2
  <1>10. CASE pc = "expunge"
    <2>. DEFINE s == Expunged(box[k])
    <2>1. box' = [box EXCEPT ![k] = s]
      BY <1>1, <1>10, EffectIs
    <2>2. /\ s \in Items /\ DOMAIN s = DOMAIN box[k]
          /\ \A v \in DOMAIN box[k] : s[v] \in {None, box[k][v]}
      BY <1>1, ExpungedItems, AppendExpunge
    <2>. HIDE DEF s
    <2>3. Aged(q, pc) /\ Comes(q, pc, 0)
      BY <1>1, <1>10, <2>1, <2>2, FolderAged
    <2>. QED
      BY <1>10, <2>3
  <1>11. CASE pc = "copy" /\ Present(q)
    <2>. DEFINE s == Append(box[d], box[k][u])
    <2>1. box' = [box EXCEPT ![d] = s]
      BY <1>11, EffectIs
    <2>2. /\ s \in Items
          /\ \A v \in DOMAIN box[d] : s[v] = box[d][v]
          /\ \A v \in DOMAIN s : v \in DOMAIN box[d] \/ v = Len(box[d]) + 1
          /\ s[Len(box[d]) + 1] = box[k][u]
      BY <1>2, <1>4, <1>11, AppendedItems, AppendExpunge
    <2>. HIDE DEF s
    <2>3. Aged(q, pc) /\ Comes(q, pc, Len(box[d]) + 1)
      <3>1. PICK f, n, items : f = d /\ n = Len(box[d]) + 1 /\ items = s
        OBVIOUS
      <3>2. \A v \in DOMAIN box[f] : items[v] # None =>
               /\ box[f][v] # None /\ items[v].text = box[f][v].text
               /\ ~items[v].deleted => \/ ~box[f][v].deleted
                                       \/ /\ pc = "unflag" /\ Present(q) /\ f = Source(q)
                                          /\ v = q.uid
        BY <2>2, <3>1
      <3>3. \A v \in DOMAIN items : items[v] # None =>
               \/ box[f] # None /\ v \in DOMAIN box[f]
               \/ items[v].text \in Versions
               \/ /\ pc \in {"copy", "move"} /\ Present(q) /\ f = Destination(q) /\ v = n
                  /\ items[v].text = Target(q)
        BY <1>2, <1>4, <1>11, <2>2, <3>1
      <3>4. /\ items \in Items /\ box' = [box EXCEPT ![f] = items] /\ f \in Folders
            /\ box[f] # None
        BY <1>3, <1>4, <1>11, <2>1, <2>2, <3>1
      <3>5. Aged(q, pc) /\ Comes(q, pc, n)
        BY <3>2, <3>3, <3>4, FolderAged
      <3>. QED
        BY <3>1, <3>5
    <2>. QED
      BY <1>11, <2>3
  <1>12. CASE pc = "move" /\ Present(q)
    <2>1. PICK e \in Item : e = box[k][u]
      BY <1>2, <1>12
    <2>2. box' = [box EXCEPT ![d] = Append(@, e), ![k] = [@ EXCEPT ![u] = None]]
      BY <1>12, <2>1, EffectIs
    <2>3. /\ Aged(q, "move") /\ Comes(q, "move", Len(box[d]) + 1)
          /\ box'[k][q.uid] = None
      BY <1>1, <1>2, <1>3, <1>4, <1>12, <2>1, <2>2, MoveAged
    <2>. QED
      BY <1>12, <2>3
  <1>13. CASE pc \in {"append", "file"}
    <2>. DEFINE e == [text |-> q.to, deleted |-> FALSE]
    <2>0. e \in Item /\ e.text \in Versions
      BY <1>5, <1>13
    <2>1. PICK f : /\ f \in {discoverDraftsFolder, discoverSentFolder}
                   /\ box' = [box EXCEPT ![<<q.acct, f>>] = Append(@, e)]
      BY <1>13, EffectIs DEF SaveDraft, SaveToSent, AppendTo
    <2>. HIDE DEF e
    <2>2. CASE f \in Names
      <3>0. PICK j : j = <<q.acct, f>>
        OBVIOUS
      <3>. DEFINE s == Append(box[j], e)
      <3>1. j \in Folders /\ box[j] # None
        BY <1>5, <1>13, <2>1, <2>2, <3>0 DEF Folders, MailTypes
      <3>2. box' = [box EXCEPT ![j] = s] /\ box[j] \in Items
        BY <2>1, <3>0, <3>1 DEF MailTypes, Items
      <3>3. /\ s \in Items
            /\ \A v \in DOMAIN box[j] : s[v] = box[j][v]
            /\ \A v \in DOMAIN s : v \in DOMAIN box[j] \/ v = Len(box[j]) + 1
            /\ s[Len(box[j]) + 1] = e
        BY <2>0, <3>2, AppendedItems, AppendExpunge
      <3>. HIDE DEF s
      <3>4. Aged(q, pc) /\ Comes(q, pc, 0)
        BY <1>13, <2>0, <3>1, <3>2, <3>3, FolderAged
      <3>. QED
        BY <1>13, <3>4
    <2>3. CASE f \notin Names
      <3>1. <<q.acct, f>> \notin Folders
        BY <2>3 DEF Folders
      <3>2. UNCHANGED box
        BY <2>1, <3>1 DEF MailTypes
      <3>. QED
        BY <1>13, <3>2, UnchangedAged
    <2>. QED
      BY <2>2, <2>3
  <1>14. \/ UNCHANGED box /\ ~(pc \in {"store", "move"} /\ Present(q))
         \/ pc \in {"store", "flag", "unflag", "copy", "move"} /\ Present(q)
         \/ pc = "create" /\ box[d] = None
         \/ pc = "expunge" \/ pc \in {"append", "file"}
    <2>1. pc \in {"create", "move", "copy", "store", "expunge", "flag", "unflag", "append",
                  "smtp", "file"}
      BY RequestKnown DEF Request
    <2>2. pc \in {"store", "flag"} /\ ~Present(q) => UNCHANGED box
      BY EffectIs
    <2>3. pc \in {"unflag", "copy", "move"} /\ ~Present(q) => UNCHANGED box
      BY EffectIs
    <2>4. pc = "create" /\ box[d] # None => UNCHANGED box
      BY EffectIs
    <2>5. pc = "smtp" => UNCHANGED box
      BY EffectIs
    <2>. QED
      BY <2>1, <2>2, <2>3, <2>4, <2>5
  <1>. QED
    BY <1>6, <1>7, <1>8, <1>9, <1>10, <1>11, <1>12, <1>13, <1>14
-----------------------------------------------------------------------------

(* The messages with a text, those that are not marked, and those of them  *)
(* that no request is about to mark.                                       *)
ItemsOf(t) == {p \in Messages : At(p).text = t}

UnmarkedOf(t) == {p \in ItemsOf(t) : ~At(p).deleted}

Named(q) == <<q.acct, q.folder, q.uid>>

Doomed(p) ==
    \E r \in Requests : req[r] # None /\ req[r].pc = "store" /\ Named(req[r]) = p

LooseOf(t) == {p \in UnmarkedOf(t) : ~Doomed(p)}

(* The requests that are still to move or to unmark a text.                *)
Owes(q, t) ==
    /\ q # None /\ q.meant = t
    /\ q.pc = "unflag" \/ (q.op = "move" /\ q.pc \in {"create", "move", "copy"})

OwedOf(t) == {r \in Requests : Owes(req[r], t)}

(* A request moves, copies or unmarks a text.                              *)
Hit(q, pc, t) == pc \in {"copy", "move", "unflag"} /\ Present(q) /\ Target(q) = t

CountTypes ==
    moves \in [Texts -> Nat] /\ count \in [requests : Nat, faults : Nat, others : Nat]

(* At the UID a move or a flag names is what it meant, or nothing any more.*)
MeantInv ==
    \A r \in Requests :
        req[r] # None /\ req[r].op \in {"move", "flag"} /\ req[r].meant # None =>
            /\ There(Source(req[r]), req[r].uid)
            /\ \/ box[Source(req[r])][req[r].uid] = None
               \/ box[Source(req[r])][req[r].uid].text = req[r].meant

CountInv ==
    /\ CountTypes /\ MeantInv
    /\ \A t \in Texts \ Versions :
          Good(ItemsOf(t), LooseOf(t), OwedOf(t), moves[t], count.faults)

-----------------------------------------------------------------------------

(* Where the messages are.                                                 *)
LEMMA MessagesAre ==
    ASSUME NEW p
    PROVE  /\ p \in Messages <=> /\ p = <<p[1], p[2], p[3]>> /\ There(<<p[1], p[2]>>, p[3])
                                 /\ At(p) # None
           /\ p \in Messages' <=> /\ p = <<p[1], p[2], p[3]>> /\ There(<<p[1], p[2]>>, p[3])'
                                  /\ At(p)' # None
  <1>1. \A k \in Folders : k = <<k[1], k[2]>>
    BY DEF Folders
  <1>2. p \in Messages <=>
           \E k \in Folders : box[k] # None /\ \E u \in DOMAIN box[k] :
               box[k][u] # None /\ p = <<k[1], k[2], u>>
    BY DEF Messages, Folders
  <1>3. p \in Messages' <=>
           \E k \in Folders : box'[k] # None /\ \E u \in DOMAIN box'[k] :
               box'[k][u] # None /\ p = <<k[1], k[2], u>>
    BY DEF Messages, Folders
  <1>4. ASSUME NEW k \in Folders, NEW u, p = <<k[1], k[2], u>>
        PROVE  p = <<p[1], p[2], p[3]>> /\ <<p[1], p[2]>> = k /\ p[3] = u
    <2>1. p[1] = k[1] /\ p[2] = k[2] /\ p[3] = u
      BY <1>4
    <2>. QED
      BY <1>1, <1>4, <2>1
  <1>5. ASSUME p = <<p[1], p[2], p[3]>>, <<p[1], p[2]>> \in Folders
        PROVE  \E k \in Folders : k = <<p[1], p[2]>> /\ p = <<k[1], k[2], p[3]>>
    BY <1>5
  <1>6. p \in Messages <=> /\ p = <<p[1], p[2], p[3]>> /\ There(<<p[1], p[2]>>, p[3])
                           /\ At(p) # None
    <2>1. ASSUME p \in Messages
          PROVE  p = <<p[1], p[2], p[3]>> /\ There(<<p[1], p[2]>>, p[3]) /\ At(p) # None
      <3>1. PICK k \in Folders : box[k] # None /\ \E u \in DOMAIN box[k] :
                                    box[k][u] # None /\ p = <<k[1], k[2], u>>
        BY <1>2, <2>1
      <3>2. PICK u \in DOMAIN box[k] : box[k][u] # None /\ p = <<k[1], k[2], u>>
        BY <3>1
      <3>3. p = <<p[1], p[2], p[3]>> /\ <<p[1], p[2]>> = k /\ p[3] = u
        BY <1>4, <3>2
      <3>. QED
        BY <3>1, <3>2, <3>3 DEF There, At
    <2>2. ASSUME p = <<p[1], p[2], p[3]>>, There(<<p[1], p[2]>>, p[3]), At(p) # None
          PROVE  p \in Messages
      <3>1. PICK k \in Folders : k = <<p[1], p[2]>> /\ p = <<k[1], k[2], p[3]>>
        BY <1>5, <2>2 DEF There
      <3>2. box[k] # None /\ p[3] \in DOMAIN box[k] /\ box[k][p[3]] # None
        BY <2>2, <3>1 DEF There, At
      <3>. QED
        BY <1>2, <3>1, <3>2
    <2>. QED
      BY <2>1, <2>2
  <1>7. p \in Messages' <=> /\ p = <<p[1], p[2], p[3]>> /\ There(<<p[1], p[2]>>, p[3])'
                            /\ At(p)' # None
    <2>1. ASSUME p \in Messages'
          PROVE  p = <<p[1], p[2], p[3]>> /\ There(<<p[1], p[2]>>, p[3])' /\ At(p)' # None
      <3>1. PICK k \in Folders : box'[k] # None /\ \E u \in DOMAIN box'[k] :
                                    box'[k][u] # None /\ p = <<k[1], k[2], u>>
        BY <1>3, <2>1
      <3>2. PICK u \in DOMAIN box'[k] : box'[k][u] # None /\ p = <<k[1], k[2], u>>
        BY <3>1
      <3>3. p = <<p[1], p[2], p[3]>> /\ <<p[1], p[2]>> = k /\ p[3] = u
        BY <1>4, <3>2
      <3>. QED
        BY <3>1, <3>2, <3>3 DEF There, At
    <2>2. ASSUME p = <<p[1], p[2], p[3]>>, There(<<p[1], p[2]>>, p[3])', At(p)' # None
          PROVE  p \in Messages'
      <3>1. PICK k \in Folders : k = <<p[1], p[2]>> /\ p = <<k[1], k[2], p[3]>>
        BY <1>5, <2>2 DEF There
      <3>2. box'[k] # None /\ p[3] \in DOMAIN box'[k] /\ box'[k][p[3]] # None
        BY <2>2, <3>1 DEF There, At
      <3>. QED
        BY <1>3, <3>1, <3>2
    <2>. QED
      BY <2>1, <2>2
  <1>. QED
    BY <1>6, <1>7

(* The messages with a text after a command: at most the copy is new, and  *)
(* at most the copy, or the one that is unmarked, is unmarked.             *)
LEMMA PartsAfter ==
    ASSUME NEW q, NEW pc, Aged(q, pc), NEW c, Comes(q, pc, c), NEW t, t \notin Versions
    PROVE  \E n : /\ ItemsOf(t)' \subseteq ItemsOf(t) \cup {n}
                  /\ UnmarkedOf(t)' \subseteq UnmarkedOf(t) \cup {n}
                  /\ ~Hit(q, pc, t) => /\ ItemsOf(t)' \subseteq ItemsOf(t)
                                       /\ UnmarkedOf(t)' \subseteq UnmarkedOf(t)
                  /\ pc = "unflag" => ItemsOf(t)' \subseteq ItemsOf(t)
  <1>1. PICK n : n = IF pc = "unflag" THEN Named(q) ELSE <<q.acct, q.to, c>>
    OBVIOUS
  <1>2. ASSUME NEW p \in ItemsOf(t)'
        PROVE  \/ p \in ItemsOf(t)
               \/ Hit(q, pc, t) /\ pc # "unflag" /\ p = n
    <2>. DEFINE j == <<p[1], p[2]>>
                v == p[3]
    <2>1. p = <<p[1], p[2], p[3]>> /\ There(j, v)' /\ box'[j][v] # None /\ box'[j][v].text = t
      BY <1>2, MessagesAre DEF ItemsOf, At
    <2>2. CASE There(j, v)
      <3>1. box[j][v] # None /\ box[j][v].text = t
        BY <2>1, <2>2 DEF Aged
      <3>. QED
        BY <2>1, <2>2, <3>1, MessagesAre DEF ItemsOf, At
    <2>3. CASE ~There(j, v)
      <3>1. /\ pc \in {"copy", "move"} /\ Present(q) /\ j = Destination(q) /\ v = c
            /\ t = Target(q)
        BY <2>1, <2>3 DEF Comes
      <3>2. p[1] = q.acct /\ p[2] = q.to
        BY <3>1 DEF Destination
      <3>. QED
        BY <1>1, <2>1, <3>1, <3>2 DEF Hit
    <2>. QED
      BY <2>2, <2>3
  <1>3. ASSUME NEW p \in UnmarkedOf(t)'
        PROVE  p \in UnmarkedOf(t) \/ (Hit(q, pc, t) /\ p = n)
    <2>. DEFINE j == <<p[1], p[2]>>
                v == p[3]
    <2>0. p \in ItemsOf(t)' /\ ~At(p)'.deleted
      BY <1>3 DEF UnmarkedOf
    <2>1. /\ p = <<p[1], p[2], p[3]>> /\ There(j, v)' /\ box'[j][v] # None
          /\ ~box'[j][v].deleted
      BY <2>0, MessagesAre DEF ItemsOf, At
    <2>2. p \in ItemsOf(t) \/ (Hit(q, pc, t) /\ p = n)
      BY <1>2, <2>0
    <2>3. CASE p \in ItemsOf(t)
      <3>1. There(j, v) /\ box[j][v].text = t
        BY <2>3, MessagesAre DEF ItemsOf, At
      <3>2. \/ ~box[j][v].deleted
            \/ pc = "unflag" /\ Present(q) /\ j = Source(q) /\ v = q.uid
        BY <2>1, <3>1 DEF Aged
      <3>3. CASE ~box[j][v].deleted
        <4>1. ~At(p).deleted
          BY <3>3 DEF At
        <4>. QED
          BY <2>3, <4>1 DEF UnmarkedOf
      <3>4. CASE pc = "unflag" /\ Present(q) /\ j = Source(q) /\ v = q.uid
        <4>1. p[1] = q.acct /\ p[2] = q.folder /\ p[3] = q.uid
          BY <3>4 DEF Source
        <4>2. p = n
          BY <1>1, <2>1, <3>4, <4>1 DEF Named
        <4>3. Target(q) = t
          BY <3>1, <3>4 DEF Target
        <4>. QED
          BY <3>4, <4>2, <4>3 DEF Hit
      <3>. QED
        BY <3>2, <3>3, <3>4
    <2>. QED
      BY <2>2, <2>3
  <1>4. ItemsOf(t)' \subseteq ItemsOf(t) \cup {n} /\ UnmarkedOf(t)' \subseteq UnmarkedOf(t) \cup {n}
    BY <1>2, <1>3
  <1>5. ~Hit(q, pc, t) => /\ ItemsOf(t)' \subseteq ItemsOf(t)
                          /\ UnmarkedOf(t)' \subseteq UnmarkedOf(t)
    BY <1>2, <1>3
  <1>6. pc = "unflag" => ItemsOf(t)' \subseteq ItemsOf(t)
    BY <1>2
  <1>. QED
    BY <1>4, <1>5, <1>6

(* The message a request names.                                            *)
LEMMA NamedIs ==
    ASSUME NEW q \in KnownRequest, NEW t
    PROVE  /\ box[Source(q)] # None /\ Present(q) /\ Target(q) = t => Named(q) \in ItemsOf(t)
           /\ Named(q) \in ItemsOf(t) => box[Source(q)] # None /\ Present(q)
           /\ box'[Source(q)][q.uid] = None => Named(q) \notin ItemsOf(t)'
           /\ box'[Source(q)][q.uid].deleted => Named(q) \notin UnmarkedOf(t)'
  <1>. DEFINE p == Named(q)
  <1>1. p = <<p[1], p[2], p[3]>> /\ <<p[1], p[2]>> = Source(q) /\ p[3] = q.uid
    BY DEF Named, Source
  <1>2. Source(q) \in Folders
    BY RequestKnown
  <1>. HIDE DEF p
  <1>3. /\ p \in Messages <=> There(Source(q), q.uid) /\ box[Source(q)][q.uid] # None
        /\ p \in Messages' => box'[Source(q)][q.uid] # None
    BY <1>1, MessagesAre DEF At
  <1>4. At(p) = box[Source(q)][q.uid] /\ At(p)' = box'[Source(q)][q.uid]
    BY <1>1 DEF At
  <1>5. box[Source(q)] # None /\ Present(q) /\ Target(q) = t => p \in ItemsOf(t)
    BY <1>2, <1>3, <1>4 DEF There, Present, Gone, Target, ItemsOf
  <1>6. p \in ItemsOf(t) => box[Source(q)] # None /\ Present(q)
    BY <1>3 DEF ItemsOf, There, Present, Gone
  <1>7. box'[Source(q)][q.uid] = None => p \notin ItemsOf(t)'
    BY <1>3 DEF ItemsOf
  <1>8. box'[Source(q)][q.uid].deleted => p \notin UnmarkedOf(t)'
    BY <1>4 DEF UnmarkedOf
  <1>. QED
    BY <1>5, <1>6, <1>7, <1>8 DEF p

(* The request after a command.                                            *)
LEMMA ContinueIs ==
    ASSUME MailTypes, NEW r \in Requests, NEW q \in KnownRequest, req[r] = q,
           NEW next, next \in {OnOk(q), OnError(q)}, Continue(r, next)
    PROVE  /\ \A p \in Requests \ {r} : req'[p] = req[p]
           /\ req'[r] = None <=> next = "idle"
           /\ req'[r] # None =>
                 /\ req'[r].op = q.op /\ req'[r].pc = next /\ req'[r].meant = q.meant
                 /\ req'[r].uid = q.uid /\ Source(req'[r]) = Source(q)
                 /\ Named(req'[r]) = Named(q)
  <1>. DEFINE n == IF next = "idle" THEN None ELSE [q EXCEPT !.pc = next]
  <1>1. n = None <=> next = "idle"
    BY NextCommand, RequestKnown
  <1>2. req' = [req EXCEPT ![r] = n]
    BY DEF Continue
  <1>3. n # None => /\ n.op = q.op /\ n.pc = next /\ n.meant = q.meant
                    /\ n.uid = q.uid /\ Source(n) = Source(q) /\ Named(n) = Named(q)
    BY DEF KnownRequest, MoveRequest, DeleteRequest, FlagRequest,
       SaveRequest, SendRequest, Source, Named
  <1>. HIDE DEF n
  <1>4. req'[r] = n /\ \A p \in Requests \ {r} : req'[p] = req[p]
    BY <1>2 DEF MailTypes
  <1>. QED
    BY <1>1, <1>3, <1>4

(* What is doomed and what is owed after a command.                        *)
LEMMA DuesAfter ==
    ASSUME MailTypes, NEW r \in Requests, NEW q \in KnownRequest, req[r] = q,
           NEW next, next \in {OnOk(q), OnError(q)}, Continue(r, next), NEW t
    PROVE  /\ \A p : Doomed(p) => Doomed(p)' \/ (q.pc = "store" /\ p = Named(q))
           /\ next = "store" => Doomed(Named(q))'
           /\ OwedOf(t)' \subseteq OwedOf(t)
           /\ next \in {"idle", "store"} => r \notin OwedOf(t)'
           /\ r \in OwedOf(t) <=> Owes(q, t)
  <1>1. /\ \A p \in Requests \ {r} : req'[p] = req[p]
        /\ req'[r] = None <=> next = "idle"
        /\ req'[r] # None =>
              /\ req'[r].op = q.op /\ req'[r].pc = next /\ req'[r].meant = q.meant
              /\ Named(req'[r]) = Named(q)
    BY ContinueIs
  <1>2. q # None
    BY RequestKnown
  <1>3. ASSUME NEW p, Doomed(p) PROVE Doomed(p)' \/ (q.pc = "store" /\ p = Named(q))
    <2>1. PICK x \in Requests : req[x] # None /\ req[x].pc = "store" /\ Named(req[x]) = p
      BY <1>3 DEF Doomed
    <2>2. CASE x = r
      BY <2>1, <2>2
    <2>3. CASE x # r
      <3>1. req'[x] = req[x]
        BY <1>1, <2>3
      <3>2. req'[x] # None /\ req'[x].pc = "store" /\ Named(req'[x]) = p
        BY <2>1, <3>1
      <3>3. \E y \in Requests : req'[y] # None /\ req'[y].pc = "store" /\ Named(req'[y]) = p
        BY <3>2
      <3>. QED
        BY <3>3 DEF Doomed, Named
    <2>. QED
      BY <2>2, <2>3
  <1>4. next = "store" => Doomed(Named(q))'
    <2>1. next = "store" => req'[r] # None /\ req'[r].pc = "store" /\ Named(req'[r]) = Named(q)
      BY <1>1
    <2>. QED
      BY <2>1 DEF Doomed, Named
  <1>5. next # "idle" /\ next # "store" /\ q.op = "move" /\ next \in {"create", "move", "copy"} =>
            q.pc \in {"create", "move", "copy"}
    BY OkIs, ErrorIs, RequestKnown DEF MoveRequest
  <1>6. next # "unflag"
    <2>1. q.pc \in {"create", "move", "copy", "store", "expunge", "flag", "unflag", "append",
                    "smtp", "file"}
      BY RequestKnown DEF Request
    <2>. QED
      BY <2>1, OkIs, ErrorIs
  <1>7. Owes(req'[r], t) => Owes(q, t) /\ next \notin {"idle", "store"}
    BY <1>1, <1>2, <1>5, <1>6 DEF Owes
  <1>8. OwedOf(t)' \subseteq OwedOf(t)
    <2>1. ASSUME NEW x \in OwedOf(t)' PROVE x \in OwedOf(t)
      <3>1. x \in Requests /\ Owes(req'[x], t)
        BY <2>1 DEF OwedOf, Owes
      <3>2. CASE x = r
        BY <1>7, <3>1, <3>2 DEF OwedOf
      <3>3. CASE x # r
        BY <1>1, <3>1, <3>3 DEF OwedOf
      <3>. QED
        BY <3>2, <3>3
    <2>. QED
      BY <2>1
  <1>9. next \in {"idle", "store"} => r \notin OwedOf(t)'
    <2>1. r \in OwedOf(t)' => Owes(req'[r], t)
      BY DEF OwedOf, Owes
    <2>. QED
      BY <1>7, <2>1
  <1>10. r \in OwedOf(t) <=> Owes(q, t)
    BY DEF OwedOf
  <1>. QED
    BY <1>3, <1>4, <1>8, <1>9, <1>10
-----------------------------------------------------------------------------

(* At rest: what remains of what a move and a flag meant, what is loose.   *)
LEMMA MeantKept ==
    ASSUME MeantInv, NEW q, NEW pc, Aged(q, pc),
           \A r \in Requests :
               req'[r] # None /\ req'[r].op \in {"move", "flag"} /\ req'[r].meant # None =>
                   /\ req[r] # None /\ req[r].op = req'[r].op /\ req[r].meant = req'[r].meant
                   /\ req[r].uid = req'[r].uid /\ Source(req[r]) = Source(req'[r])
                   /\ There(Source(req[r]), req[r].uid)'
    PROVE  MeantInv'
  <1>. SUFFICES ASSUME NEW r \in Requests, req'[r] # None, req'[r].op \in {"move", "flag"},
                       req'[r].meant # None
                PROVE  /\ There(Source(req[r]), req[r].uid)'
                       /\ \/ box'[Source(req'[r])][req'[r].uid] = None
                          \/ box'[Source(req'[r])][req'[r].uid].text = req'[r].meant
    BY DEF MeantInv, There, Source
  <1>1. PICK k, u, t : k = Source(req'[r]) /\ u = req'[r].uid /\ t = req'[r].meant
    OBVIOUS
  <1>2. There(k, u)'
    BY <1>1 DEF There
  <1>3. There(k, u) /\ (box[k][u] = None \/ box[k][u].text = t)
    BY <1>1 DEF MeantInv
  <1>4. box'[k][u] = None \/ box'[k][u].text = t
    BY <1>2, <1>3 DEF Aged
  <1>. QED
    BY <1>1, <1>2, <1>4 DEF There

(* What is loose after a command of a request.                             *)
LEMMA LooseAfter ==
    ASSUME MailTypes, NEW r \in Requests, NEW q \in KnownRequest, req[r] = q,
           NEW next, next \in {OnOk(q), OnError(q)}, Continue(r, next), NEW t
    PROVE  /\ LooseOf(t)' \subseteq UnmarkedOf(t)'
           /\ UnmarkedOf(t)' \subseteq ItemsOf(t)'
           /\ \A p \in LooseOf(t)' : \/ p \in LooseOf(t) \/ p \notin UnmarkedOf(t)
                                     \/ q.pc = "store" /\ p = Named(q)
           /\ next = "store" => Named(q) \notin LooseOf(t)'
  <1>1. ASSUME NEW p \in LooseOf(t)'
        PROVE  p \in UnmarkedOf(t)' /\ ~Doomed(p)'
    BY <1>1 DEF LooseOf
  <1>2. ASSUME NEW p \in LooseOf(t)', p \in UnmarkedOf(t)
        PROVE  p \in LooseOf(t) \/ (q.pc = "store" /\ p = Named(q))
    <2>1. Doomed(p) => q.pc = "store" /\ p = Named(q)
      BY <1>1, DuesAfter
    <2>. QED
      BY <1>2, <2>1 DEF LooseOf
  <1>3. next = "store" => Named(q) \notin LooseOf(t)'
    BY <1>1, DuesAfter
  <1>4. UnmarkedOf(t)' \subseteq ItemsOf(t)'
    BY DEF UnmarkedOf
  <1>. QED
    BY <1>1, <1>2, <1>3, <1>4

(* The history of what is moved or unmarked instead of what was meant.     *)
LEMMA MovedIs ==
    ASSUME MailTypes, CountTypes, NEW q \in KnownRequest, box[Source(q)] # None, Moved(q)
    PROVE  /\ moves' \in [Texts -> Nat]
           /\ \A t \in Texts : moves'[t] = IF q.meant = None /\ Hit(q, q.pc, t)
                                           THEN moves[t] + 1 ELSE moves[t]
  <1>1. Present(q) => Target(q) \in Texts
    BY RequestKnown, ItemThere DEF Present, Gone, Target
  <1>2. CASE q.pc \in {"move", "copy", "unflag"} /\ q.meant = None /\ Present(q)
    <2>1. PICK x \in Texts : x = Target(q)
      BY <1>1, <1>2
    <2>2. moves' = [moves EXCEPT ![x] = @ + 1]
      BY <1>2, <2>1 DEF Moved
    <2>3. /\ moves' \in [Texts -> Nat]
          /\ \A t \in Texts : moves'[t] = IF t = x THEN moves[t] + 1 ELSE moves[t]
      BY <2>2 DEF CountTypes
    <2>. QED
      BY <1>2, <2>1, <2>3 DEF Hit
  <1>3. CASE ~(q.pc \in {"move", "copy", "unflag"} /\ q.meant = None /\ Present(q))
    <2>1. moves' = moves
      BY <1>3 DEF Moved
    <2>. QED
      BY <1>3, <2>1 DEF CountTypes, Hit
  <1>. QED
    BY <1>2, <1>3

(* What a move or a flag names, if it is there, is what it meant.          *)
LEMMA HitIsMeant ==
    ASSUME MeantInv, NEW r \in Requests, NEW q \in KnownRequest, req[r] = q, NEW t,
           Hit(q, q.pc, t), q.meant # None
    PROVE  Owes(q, t)
  <1>1. q # None /\ q.op \in {"move", "flag"}
    BY RequestKnown DEF Hit, KnownRequest, MoveRequest, DeleteRequest, FlagRequest,
       SaveRequest, SendRequest
  <1>2. q.pc = "unflag" \/ (q.op = "move" /\ q.pc \in {"move", "copy"})
    BY RequestKnown DEF Hit, KnownRequest, MoveRequest, DeleteRequest, FlagRequest,
       SaveRequest, SendRequest
  <1>3. box[Source(q)][q.uid] # None /\ box[Source(q)][q.uid].text = t
    BY DEF Hit, Present, Gone, Target
  <1>4. q.meant = t
    BY <1>1, <1>3 DEF MeantInv
  <1>. QED
    BY <1>1, <1>2, <1>4 DEF Owes

(* The requests and folders of a command.                                  *)
LEMMA CommandMeans ==
    ASSUME MailTypes, MeantInv, NEW r \in Requests, NEW q \in KnownRequest, req[r] = q,
           NEW next, next \in {OnOk(q), OnError(q)}, Continue(r, next),
           NEW pc, Aged(q, pc), Grown
    PROVE  MeantInv'
  <1>1. /\ \A p \in Requests \ {r} : req'[p] = req[p]
        /\ req'[r] # None =>
              /\ req'[r].op = q.op /\ req'[r].meant = q.meant
              /\ req'[r].uid = q.uid /\ Source(req'[r]) = Source(q)
    BY ContinueIs
  <1>2. q # None
    BY RequestKnown
  <1>3. ASSUME NEW p \in Requests, req'[p] # None, req'[p].op \in {"move", "flag"},
               req'[p].meant # None
        PROVE  /\ req[p] # None /\ req[p].op = req'[p].op /\ req[p].meant = req'[p].meant
               /\ req[p].uid = req'[p].uid /\ Source(req[p]) = Source(req'[p])
               /\ There(Source(req[p]), req[p].uid)'
    <2>1. /\ req[p] # None /\ req[p].op = req'[p].op /\ req[p].meant = req'[p].meant
          /\ req[p].uid = req'[p].uid /\ Source(req[p]) = Source(req'[p])
      <3>1. CASE p = r
        BY <1>1, <1>2, <1>3, <3>1
      <3>2. CASE p # r
        <4>1. req'[p] = req[p]
          BY <1>1, <3>2
        <4>2. Source(req'[p]) = Source(req[p])
          BY <4>1 DEF Source
        <4>. QED
          BY <1>3, <4>1, <4>2
      <3>. QED
        BY <3>1, <3>2
    <2>2. PICK k, u : k = Source(req[p]) /\ u = req[p].uid
      OBVIOUS
    <2>3. There(k, u)
      BY <1>3, <2>1, <2>2 DEF MeantInv
    <2>4. There(k, u)'
      BY <2>3 DEF There, Grown
    <2>. QED
      BY <2>1, <2>2, <2>4 DEF There
  <1>. QED
    BY <1>3, MeantKept

(* A command that is answered well.                                        *)
LEMMA OkCounts ==
    ASSUME MailInv, CountInv, NEW r \in Requests, CommandOk(r)
    PROVE  CountInv'
  <1>1. PICK q \in KnownRequest : q = req[r]
    BY DEF MailInv, MailTypes, CommandOk
  <1>2. PICK next : next = OnOk(q)
    OBVIOUS
  <1>3. /\ MailTypes /\ ~Refused(q) /\ box' = Effect(q, q.pc) /\ Continue(r, next) /\ Moved(q)
        /\ UNCHANGED count /\ box[Source(q)] # None /\ next \in {OnOk(q), OnError(q)}
        /\ req[r] = q /\ CountTypes /\ MeantInv /\ (q.op = "move" => q.to # q.folder)
    BY <1>1, <1>2, RequestKnown DEF CommandOk, Refused, MailInv, CountInv, UidsInv
  <1>0. MailTypes /\ req[r] = q /\ next \in {OnOk(q), OnError(q)} /\ Continue(r, next)
    BY <1>3
  <1>4. /\ Aged(q, q.pc) /\ \E c : Comes(q, q.pc, c)
        /\ q.pc = "move" /\ Present(q) => box'[Source(q)][q.uid] = None
        /\ q.pc = "store" /\ Present(q) => box'[Source(q)][q.uid].deleted
    BY <1>3, EffectAges
  <1>5. Grown
    BY <1>3, EffectGrows
  <1>6. MeantInv'
    BY <1>3, <1>4, <1>5, CommandMeans
  <1>7. /\ moves' \in [Texts -> Nat]
        /\ \A t \in Texts : moves'[t] = IF q.meant = None /\ Hit(q, q.pc, t)
                                        THEN moves[t] + 1 ELSE moves[t]
    BY <1>3, MovedIs
  <1>8. CountTypes'
    BY <1>3, <1>7 DEF CountTypes
  <1>9. ASSUME NEW t \in Texts \ Versions
        PROVE  Good(ItemsOf(t)', LooseOf(t)', OwedOf(t)', moves'[t], count'.faults)
    <2>1. Good(ItemsOf(t), LooseOf(t), OwedOf(t), moves[t], count.faults)
      BY DEF CountInv
    <2>2. moves[t] \in Nat /\ count.faults \in Nat /\ count'.faults = count.faults
      BY <1>3 DEF CountTypes
    <2>3. PICK n : /\ ItemsOf(t)' \subseteq ItemsOf(t) \cup {n}
                   /\ UnmarkedOf(t)' \subseteq UnmarkedOf(t) \cup {n}
                   /\ ~Hit(q, q.pc, t) => /\ ItemsOf(t)' \subseteq ItemsOf(t)
                                          /\ UnmarkedOf(t)' \subseteq UnmarkedOf(t)
                   /\ q.pc = "unflag" => ItemsOf(t)' \subseteq ItemsOf(t)
      BY <1>4, PartsAfter
    <2>4. /\ Present(q) /\ Target(q) = t => Named(q) \in ItemsOf(t)
          /\ Named(q) \in ItemsOf(t) => Present(q)
          /\ box'[Source(q)][q.uid] = None => Named(q) \notin ItemsOf(t)'
          /\ box'[Source(q)][q.uid].deleted => Named(q) \notin UnmarkedOf(t)'
      BY <1>3, NamedIs
    <2>5. /\ LooseOf(t)' \subseteq ItemsOf(t)' /\ LooseOf(t)' \subseteq UnmarkedOf(t)'
          /\ q.pc # "store" => LooseOf(t)' \subseteq LooseOf(t) \cup {n}
          /\ q.pc # "store" /\ UnmarkedOf(t)' \subseteq UnmarkedOf(t)
                => LooseOf(t)' \subseteq LooseOf(t)
          /\ UnmarkedOf(t)' \subseteq UnmarkedOf(t)
                => LooseOf(t)' \subseteq LooseOf(t) \cup {Named(q)}
          /\ next = "store" => Named(q) \notin LooseOf(t)'
      <3>1. /\ LooseOf(t)' \subseteq UnmarkedOf(t)' /\ UnmarkedOf(t)' \subseteq ItemsOf(t)'
            /\ \A p \in LooseOf(t)' : \/ p \in LooseOf(t) \/ p \notin UnmarkedOf(t)
                                      \/ q.pc = "store" /\ p = Named(q)
            /\ next = "store" => Named(q) \notin LooseOf(t)'
        BY <1>0, LooseAfter
      <3>. QED
        BY <2>3, <3>1
    <2>6. /\ OwedOf(t)' \subseteq OwedOf(t)
          /\ next \in {"idle", "store"} => r \notin OwedOf(t)'
          /\ r \in OwedOf(t) <=> Owes(q, t)
      BY <1>0, DuesAfter
    <2>7. CASE ~Hit(q, q.pc, t)
      <3>1. q.pc = "store" => Named(q) \notin UnmarkedOf(t)'
        <4>1. q.pc = "store" /\ Named(q) \in UnmarkedOf(t)' => Named(q) \in ItemsOf(t)
          BY <2>3, <2>7 DEF UnmarkedOf
        <4>. QED
          BY <1>4, <2>4, <4>1
      <3>2. LooseOf(t)' \subseteq LooseOf(t)
        BY <2>3, <2>5, <2>7, <3>1
      <3>3. moves'[t] = moves[t]
        BY <1>7, <2>7
      <3>. QED
        BY <2>1, <2>2, <2>3, <2>5, <2>6, <2>7, <3>2, <3>3, GoodShrinks
    <2>8. CASE Hit(q, q.pc, t)
      <3>1. q.pc \in {"copy", "move", "unflag"} /\ Present(q) /\ Named(q) \in ItemsOf(t)
        BY <2>4, <2>8 DEF Hit
      <3>2. next = IF q.pc = "copy" THEN "store" ELSE "idle"
        BY <1>2, <3>1, OkIs
      <3>3. LooseOf(t)' \subseteq ItemsOf(t) \/ \E y \in ItemsOf(t) : y \notin LooseOf(t)'
        <4>1. CASE q.pc = "unflag"
          BY <2>3, <2>5, <4>1
        <4>2. CASE q.pc = "move"
          BY <1>4, <2>4, <2>5, <3>1, <4>2
        <4>3. CASE q.pc = "copy"
          BY <2>5, <3>1, <3>2, <4>3
        <4>. QED
          BY <3>1, <4>1, <4>2, <4>3
      <3>4. moves'[t] \in {moves[t], moves[t] + 1}
        BY <1>7
      <3>5. moves'[t] = moves[t] => r \in OwedOf(t) /\ r \notin OwedOf(t)'
        <4>1. moves'[t] = moves[t] => q.meant # None
          BY <1>7, <2>2, <2>8
        <4>. QED
          BY <1>3, <2>6, <2>8, <3>2, <4>1, HitIsMeant
      <3>6. LooseOf(t)' \subseteq LooseOf(t) \cup {n}
        BY <2>5, <3>1
      <3>7. /\ ItemsOf(t)' \in SUBSET (ItemsOf(t) \cup {n})
            /\ LooseOf(t)' \in SUBSET (LooseOf(t) \cup {n})
            /\ LooseOf(t)' \subseteq ItemsOf(t)'
            /\ OwedOf(t)' \in SUBSET OwedOf(t)
        BY <2>3, <2>5, <2>6, <3>6
      <3>8. moves'[t] = moves[t] => \E x \in OwedOf(t) : x \notin OwedOf(t)'
        BY <3>5
      <3>9. Done(ItemsOf(t), LooseOf(t), OwedOf(t), ItemsOf(t)', LooseOf(t)', OwedOf(t)',
                 moves'[t] = moves[t])
        BY <3>3, <3>7, <3>8 DEF Done
      <3>. QED
        BY <2>1, <2>2, <3>4, <3>9, GoodDone
    <2>. QED
      BY <2>7, <2>8
  <1>. QED
    BY <1>6, <1>8, <1>9 DEF CountInv, Good

(* A command that is refused changes nothing but the request.              *)
LEMMA RefusedCounts ==
    ASSUME MailInv, CountInv, NEW r \in Requests, CommandRefused(r)
    PROVE  CountInv'
  <1>1. PICK q \in KnownRequest : q = req[r]
    BY DEF MailInv, MailTypes, CommandRefused
  <1>2. PICK next : next = OnError(q)
    OBVIOUS
  <1>3. /\ MailTypes /\ req[r] = q /\ next \in {OnOk(q), OnError(q)} /\ Continue(r, next)
        /\ Refused(q) \/ q.pc = "move"
        /\ UNCHANGED <<box, moves, count>> /\ CountTypes /\ MeantInv
    BY <1>1, <1>2 DEF CommandRefused, MailInv, CountInv
  <1>4. Aged(q, "smtp") /\ Comes(q, "smtp", 0) /\ Grown
    BY <1>3, UnchangedAged, UnchangedGrows
  <1>5. MeantInv'
    BY <1>3, <1>4, CommandMeans
  <1>6. CountTypes'
    BY <1>3 DEF CountTypes
  <1>7. ASSUME NEW t \in Texts \ Versions
        PROVE  Good(ItemsOf(t)', LooseOf(t)', OwedOf(t)', moves'[t], count'.faults)
    <2>1. Good(ItemsOf(t), LooseOf(t), OwedOf(t), moves[t], count.faults)
      BY DEF CountInv
    <2>2. /\ moves[t] \in Nat /\ count.faults \in Nat
          /\ moves'[t] = moves[t] /\ count'.faults = count.faults
      BY <1>3 DEF CountTypes
    <2>3. /\ ItemsOf(t)' \subseteq ItemsOf(t) /\ UnmarkedOf(t)' \subseteq UnmarkedOf(t)
      <3>1. ~Hit(q, "smtp", t)
        BY DEF Hit
      <3>. QED
        BY <1>4, <3>1, PartsAfter
    <2>4. Named(q) \in ItemsOf(t) => box[Source(q)] # None
      BY NamedIs
    <2>5. /\ LooseOf(t)' \subseteq ItemsOf(t)' /\ LooseOf(t)' \subseteq UnmarkedOf(t)'
          /\ q.pc # "store" /\ UnmarkedOf(t)' \subseteq UnmarkedOf(t)
                => LooseOf(t)' \subseteq LooseOf(t)
          /\ UnmarkedOf(t)' \subseteq UnmarkedOf(t)
                => LooseOf(t)' \subseteq LooseOf(t) \cup {Named(q)}
      <3>1. /\ LooseOf(t)' \subseteq UnmarkedOf(t)' /\ UnmarkedOf(t)' \subseteq ItemsOf(t)'
            /\ \A p \in LooseOf(t)' : \/ p \in LooseOf(t) \/ p \notin UnmarkedOf(t)
                                      \/ q.pc = "store" /\ p = Named(q)
        BY <1>3, LooseAfter
      <3>. QED
        BY <2>3, <3>1
    <2>6. OwedOf(t)' \subseteq OwedOf(t)
      BY <1>3, DuesAfter
    <2>7. LooseOf(t)' \subseteq LooseOf(t)
      <3>1. CASE q.pc = "store"
        <4>1. box[Source(q)] = None
          BY <1>3, <3>1 DEF Refused
        <4>. QED
          BY <2>3, <2>4, <2>5, <4>1
      <3>2. CASE q.pc # "store"
        BY <2>3, <2>5, <3>2
      <3>. QED
        BY <3>1, <3>2
    <2>. QED
      BY <2>1, <2>2, <2>3, <2>5, <2>6, <2>7, GoodShrinks
  <1>. QED
    BY <1>5, <1>6, <1>7 DEF CountInv, Good

(* A command that fails, whatever of it took effect.                       *)
LEMMA FaultCounts ==
    ASSUME MailTypes, CountInv, NEW r \in Requests, NEW q \in KnownRequest, req[r] = q,
           NEW next, next \in {OnOk(q), OnError(q)}, Continue(r, next),
           NEW pc, Aged(q, pc), NEW c, Comes(q, pc, c), Grown,
           q.pc = "store" => pc \notin {"copy", "move", "unflag"},
           moves' \in [Texts -> Nat],
           \A t \in Texts : moves'[t] \in {moves[t], moves[t] + 1},
           count' = [count EXCEPT !.faults = @ + 1]
    PROVE  CountInv'
  <1>1. CountTypes /\ MeantInv
    BY DEF CountInv
  <1>2. MeantInv'
    BY <1>1, CommandMeans
  <1>3. CountTypes' /\ count.faults \in Nat /\ count'.faults = count.faults + 1
    BY <1>1 DEF CountTypes
  <1>4. ASSUME NEW t \in Texts \ Versions
        PROVE  Good(ItemsOf(t)', LooseOf(t)', OwedOf(t)', moves'[t], count'.faults)
    <2>1. Good(ItemsOf(t), LooseOf(t), OwedOf(t), moves[t], count.faults)
      BY DEF CountInv
    <2>2. moves[t] \in Nat /\ moves'[t] \in {moves[t], moves[t] + 1}
      BY <1>1 DEF CountTypes
    <2>3. PICK n : /\ ItemsOf(t)' \subseteq ItemsOf(t) \cup {n}
                   /\ UnmarkedOf(t)' \subseteq UnmarkedOf(t) \cup {n}
                   /\ ~Hit(q, pc, t) => UnmarkedOf(t)' \subseteq UnmarkedOf(t)
      BY PartsAfter
    <2>4. /\ LooseOf(t)' \subseteq ItemsOf(t)'
          /\ q.pc # "store" => LooseOf(t)' \subseteq LooseOf(t) \cup {n}
          /\ UnmarkedOf(t)' \subseteq UnmarkedOf(t)
                => LooseOf(t)' \subseteq LooseOf(t) \cup {Named(q)}
      <3>1. /\ LooseOf(t)' \subseteq UnmarkedOf(t)' /\ UnmarkedOf(t)' \subseteq ItemsOf(t)'
            /\ \A p \in LooseOf(t)' : \/ p \in LooseOf(t) \/ p \notin UnmarkedOf(t)
                                      \/ q.pc = "store" /\ p = Named(q)
        BY LooseAfter
      <3>. QED
        BY <2>3, <3>1
    <2>5. OwedOf(t)' \subseteq OwedOf(t)
      BY DuesAfter
    <2>6. \E x : LooseOf(t)' \subseteq LooseOf(t) \cup {x}
      <3>1. CASE q.pc = "store"
        <4>1. ~Hit(q, pc, t)
          BY <3>1 DEF Hit
        <4>2. LooseOf(t)' \subseteq LooseOf(t) \cup {Named(q)}
          BY <2>3, <2>4, <4>1
        <4>. QED
          BY <4>2
      <3>2. CASE q.pc # "store"
        BY <2>4, <3>2
      <3>. QED
        BY <3>1, <3>2
    <2>7. Left(ItemsOf(t), LooseOf(t), OwedOf(t), ItemsOf(t)', LooseOf(t)', OwedOf(t)')
      BY <2>3, <2>4, <2>5, <2>6 DEF Left
    <2>. QED
      BY <1>3, <2>1, <2>2, <2>7, GoodFaults
  <1>. QED
    BY <1>2, <1>3, <1>4 DEF CountInv, Good

(* A command that is answered with an error.                               *)
LEMMA FailsCounts ==
    ASSUME MailInv, CountInv, NEW r \in Requests, CommandFails(r)
    PROVE  CountInv'
  <1>1. PICK q \in KnownRequest : q = req[r]
    BY DEF MailInv, MailTypes, CommandFails
  <1>2. PICK next : next = OnError(q)
    OBVIOUS
  <1>3. /\ MailTypes /\ req[r] = q /\ next \in {OnOk(q), OnError(q)} /\ Continue(r, next)
        /\ ~Refused(q) /\ box[Source(q)] # None
        /\ CountTypes /\ (q.op = "move" => q.to # q.folder)
        /\ count' = [count EXCEPT !.faults = @ + 1]
    BY <1>1, <1>2, RequestKnown DEF CommandFails, Refused, MailInv, CountInv, UidsInv
  <1>4. UNCHANGED moves => /\ moves' \in [Texts -> Nat]
                           /\ \A t \in Texts : moves'[t] \in {moves[t], moves[t] + 1}
    BY <1>3 DEF CountTypes
  <1>5. CASE UNCHANGED <<box, moves>>
    <2>1. Aged(q, "smtp") /\ Comes(q, "smtp", 0) /\ Grown
      BY <1>3, <1>5, UnchangedAged, UnchangedGrows
    <2>. QED
      BY <1>3, <1>4, <1>5, <2>1, FaultCounts
  <1>6. CASE box' = Effect(q, q.pc) /\ Moved(q)
    <2>1. PICK c : Aged(q, q.pc) /\ Comes(q, q.pc, c)
      BY <1>3, <1>6, EffectAges
    <2>2. Grown
      BY <1>3, <1>6, EffectGrows
    <2>3. /\ moves' \in [Texts -> Nat]
          /\ \A t \in Texts : moves'[t] \in {moves[t], moves[t] + 1}
      BY <1>3, <1>6, MovedIs
    <2>. QED
      BY <1>3, <2>1, <2>2, <2>3, FaultCounts
  <1>7. CASE q.pc = "move" /\ box' = Effect(q, "copy") /\ UNCHANGED moves
    <2>1. PICK c : Aged(q, "copy") /\ Comes(q, "copy", c)
      BY <1>3, <1>7, EffectAges
    <2>2. Grown
      BY <1>3, <1>7, EffectGrows
    <2>. QED
      BY <1>3, <1>4, <1>7, <2>1, <2>2, FaultCounts
  <1>. QED
    BY <1>1, <1>5, <1>6, <1>7 DEF CommandFails

-----------------------------------------------------------------------------

(* A new request.                                                          *)
LEMMA EnterCounts ==
    ASSUME MailTypes, CountInv, NEW r \in Requests, req[r] = None, NEW q \in KnownRequest,
           req' = [req EXCEPT ![r] = q], UNCHANGED box, Counted,
           q.op \in {"move", "flag"} =>
               There(Source(q), q.uid) /\ box[Source(q)][q.uid].text = q.meant,
           moves' \in [Texts -> Nat],
           \A t \in Texts : /\ moves'[t] \in {moves[t], moves[t] + 1}
                            /\ Owes(q, t) => moves'[t] = moves[t] + 1
    PROVE  CountInv'
  <1>1. CountTypes /\ MeantInv
    BY DEF CountInv
  <1>2. CountTypes' /\ count.faults \in Nat /\ count'.faults = count.faults
    BY <1>1 DEF CountTypes, Counted
  <1>3. req'[r] = q /\ q # None /\ \A p \in Requests \ {r} : req'[p] = req[p]
    BY RequestKnown DEF MailTypes
  <1>4. MeantInv'
    BY <1>1, <1>3 DEF MeantInv, There, Source
  <1>5. ASSUME NEW t \in Texts \ Versions
        PROVE  Good(ItemsOf(t)', LooseOf(t)', OwedOf(t)', moves'[t], count'.faults)
    <2>1. Good(ItemsOf(t), LooseOf(t), OwedOf(t), moves[t], count.faults)
      BY DEF CountInv
    <2>2. moves[t] \in Nat /\ moves'[t] \in {moves[t], moves[t] + 1}
      BY <1>1 DEF CountTypes
    <2>3. ItemsOf(t)' = ItemsOf(t) /\ UnmarkedOf(t)' = UnmarkedOf(t)
      BY DEF ItemsOf, UnmarkedOf, Messages, At
    <2>4. ASSUME NEW p, Doomed(p) PROVE Doomed(p)'
      <3>1. PICK x \in Requests : req[x] # None /\ req[x].pc = "store" /\ Named(req[x]) = p
        BY <2>4 DEF Doomed
      <3>2. req'[x] = req[x]
        BY <1>3, <3>1
      <3>3. \E y \in Requests : req'[y] # None /\ req'[y].pc = "store" /\ Named(req'[y]) = p
        BY <3>1, <3>2
      <3>. QED
        BY <3>3 DEF Doomed, Named
    <2>5. LooseOf(t)' \subseteq LooseOf(t) /\ LooseOf(t)' \subseteq ItemsOf(t)
      BY <2>3, <2>4 DEF LooseOf, UnmarkedOf
    <2>6. ASSUME NEW x \in OwedOf(t)'
          PROVE  x \in OwedOf(t) \/ (x = r /\ Owes(q, t))
      <3>1. x \in Requests /\ Owes(req'[x], t)
        BY <2>6 DEF OwedOf, Owes
      <3>. QED
        BY <1>3, <3>1 DEF OwedOf
    <2>7. CASE moves'[t] = moves[t] + 1
      <3>1. (\E x : OwedOf(t)' \subseteq OwedOf(t) \cup {x}) /\ LooseOf(t)' \in SUBSET LooseOf(t)
        BY <2>5, <2>6
      <3>2. Good(ItemsOf(t), LooseOf(t)', OwedOf(t)', moves[t] + 1, count.faults)
        BY <1>2, <2>1, <2>2, <3>1, GoodEnters
      <3>. QED
        BY <1>2, <2>3, <2>7, <3>2
    <2>8. CASE moves'[t] = moves[t]
      <3>1. OwedOf(t)' \subseteq OwedOf(t)
        BY <2>2, <2>6, <2>8
      <3>. QED
        BY <1>2, <2>1, <2>2, <2>3, <2>5, <2>8, <3>1, GoodShrinks
    <2>. QED
      BY <2>2, <2>7, <2>8
  <1>. QED
    BY <1>2, <1>4, <1>5 DEF CountInv, Good

(* A request to move or to unmark a message counts for its text.           *)
LEMMA MovingIs ==
    ASSUME MailTypes, CountTypes, NEW p \in OfSession, Moving(p)
    PROVE  /\ moves' \in [Texts -> Nat]
           /\ \A t \in Texts : moves'[t] = IF t = At(p).text THEN moves[t] + 1 ELSE moves[t]
  <1>1. p \in Messages /\ p = <<Own, p[2], p[3]>> /\ At(p).text \in Texts
    BY MessagesAre, MessageThere DEF OfSession
  <1>2. moves' = [moves EXCEPT ![At(p).text] = @ + 1]
    BY <1>1 DEF Moving
  <1>3. PICK x \in Texts : x = At(p).text
    BY <1>1
  <1>. QED
    BY <1>2, <1>3 DEF CountTypes

(* A request to move a message.                                            *)
LEMMA MoveMessageCounts ==
    ASSUME MailInv, CountInv, NEW r \in Requests, NEW p \in OfSession, NEW to \in Names,
           NEW pc \in {"create", "move"}, MoveMessage(r, p, to, pc)
    PROVE  CountInv'
  <1>. DEFINE q == [op |-> "move", acct |-> Own, folder |-> p[2], uid |-> p[3], to |-> to,
                    meant |-> At(p).text, pc |-> pc]
  <1>1. /\ MailTypes /\ CountTypes /\ req[r] = None /\ req' = [req EXCEPT ![r] = q]
        /\ UNCHANGED box /\ Counted /\ Moving(p)
    BY DEF MoveMessage, Enter, MailInv, CountInv
  <1>2. /\ p[1] = Own /\ p[2] \in Names /\ p[3] \in Nat /\ At(p).text \in Texts
        /\ There(<<Own, p[2]>>, p[3]) /\ At(p) = box[<<Own, p[2]>>][p[3]]
    BY <1>1, MessageThere DEF OfSession, There
  <1>3. q \in KnownRequest
    BY <1>2 DEF KnownRequest, MoveRequest
  <1>4. q.meant = At(p).text /\ Source(q) = <<Own, p[2]>> /\ q.uid = p[3]
    BY DEF Source
  <1>. HIDE DEF q
  <1>5. /\ moves' \in [Texts -> Nat]
        /\ \A t \in Texts : moves'[t] = IF t = At(p).text THEN moves[t] + 1 ELSE moves[t]
    BY <1>1, MovingIs
  <1>6. \A t \in Texts : /\ moves'[t] \in {moves[t], moves[t] + 1}
                         /\ Owes(q, t) => moves'[t] = moves[t] + 1
    BY <1>4, <1>5 DEF Owes
  <1>7. There(Source(q), q.uid) /\ box[Source(q)][q.uid].text = q.meant
    BY <1>2, <1>4
  <1>. QED
    BY <1>1, <1>3, <1>5, <1>6, <1>7, EnterCounts

(* A request that neither moves nor unmarks.                               *)
LEMMA OtherEnters ==
    ASSUME MailInv, CountInv, NEW r \in Requests, req[r] = None, NEW q \in KnownRequest,
           req' = [req EXCEPT ![r] = q], UNCHANGED <<box, moves>>, Counted,
           q.op # "move" /\ q.pc # "unflag",
           q.op = "flag" =>
               There(Source(q), q.uid) /\ box[Source(q)][q.uid].text = q.meant
    PROVE  CountInv'
  <1>1. MailTypes /\ CountTypes
    BY DEF MailInv, CountInv
  <1>2. /\ moves' \in [Texts -> Nat]
        /\ \A t \in Texts : /\ moves'[t] \in {moves[t], moves[t] + 1}
                            /\ Owes(q, t) => moves'[t] = moves[t] + 1
    BY <1>1 DEF CountTypes, Owes
  <1>. QED
    BY <1>1, <1>2, EnterCounts

(* A request to delete.                                                    *)
LEMMA DeleteMessageCounts ==
    ASSUME MailInv, CountInv, NEW r \in Requests, NEW p \in Messages, DeleteMessage(r, p)
    PROVE  CountInv'
  <1>. DEFINE q == [op |-> "delete", acct |-> Own, folder |-> p[2], uid |-> p[3],
                    to |-> None, meant |-> At(p).text, pc |-> "store"]
  <1>1. p[2] \in Names /\ p[3] \in Nat /\ At(p).text \in Texts
    BY MessageThere DEF MailInv
  <1>2. q \in KnownRequest /\ q.op = "delete" /\ q.pc = "store"
    BY <1>1 DEF KnownRequest, DeleteRequest
  <1>3. /\ req[r] = None /\ req' = [req EXCEPT ![r] = q] /\ UNCHANGED <<box, moves>>
        /\ Counted
    BY DEF DeleteMessage, Enter
  <1>. HIDE DEF q
  <1>. QED
    BY <1>2, <1>3, OtherEnters

(* The handlers that delete and move.                                      *)
LEMMA HandlersCount ==
    ASSUME MailInv, CountInv, NEW r \in Requests,
           \/ HandleDeleteEmail(r) \/ handleDelete(r) \/ handleMove(r) \/ handleSnooze(r)
           \/ handleReportSpam(r)
    PROVE  CountInv'
  <1>1. CASE HandleDeleteEmail(r)
    <2>1. Listed \subseteq Messages
      BY DEF Listed, Unified, OfSession
    <2>. QED
      BY <1>1, <2>1, DeleteMessageCounts DEF HandleDeleteEmail
  <1>2. CASE handleDelete(r)
    <2>1. PICK p \in OfSession, hard \in BOOLEAN :
             IF ~hard /\ discoverTrashFolder \notin {None, p[2]}
             THEN MoveMessage(r, p, discoverTrashFolder, "move")
             ELSE DeleteMessage(r, p)
      BY <1>2 DEF handleDelete
    <2>2. OfSession \subseteq Messages
      BY DEF OfSession
    <2>. QED
      BY <2>1, <2>2, SystemFolders, MoveMessageCounts, DeleteMessageCounts
  <1>3. CASE handleMove(r)
    BY <1>3, SystemFolders, MoveMessageCounts DEF handleMove
  <1>4. CASE handleSnooze(r)
    BY <1>4, SystemFolders, MoveMessageCounts DEF handleSnooze
  <1>5. CASE handleReportSpam(r)
    BY <1>5, SystemFolders, MoveMessageCounts DEF handleReportSpam
  <1>. QED
    BY <1>1, <1>2, <1>3, <1>4, <1>5

(* A request to set or clear the mark.                                     *)
LEMMA SetFlagCounts ==
    ASSUME MailInv, CountInv, NEW r \in Requests, handleSetFlag(r)
    PROVE  CountInv'
  <1>1. PICK p \in OfSession, pc \in {"flag", "unflag"} :
           /\ Enter(r, "flag", pc, p, None)
           /\ pc = "flag" => UNCHANGED moves
           /\ pc = "unflag" => Moving(p)
    BY DEF handleSetFlag
  <1>. DEFINE q == [op |-> "flag", acct |-> Own, folder |-> p[2], uid |-> p[3],
                    to |-> None, meant |-> At(p).text, pc |-> pc]
  <1>2. /\ MailTypes /\ CountTypes /\ req[r] = None /\ req' = [req EXCEPT ![r] = q]
        /\ UNCHANGED box /\ Counted
    BY <1>1 DEF handleSetFlag, Enter, MailInv, CountInv
  <1>3. /\ p[1] = Own /\ p[2] \in Names /\ p[3] \in Nat /\ At(p).text \in Texts
        /\ There(<<Own, p[2]>>, p[3]) /\ At(p) = box[<<Own, p[2]>>][p[3]]
    BY <1>2, MessageThere DEF OfSession, There
  <1>4. q \in KnownRequest /\ q.op = "flag" /\ q.pc = pc
    BY <1>3 DEF KnownRequest, FlagRequest
  <1>5. q.meant = At(p).text /\ Source(q) = <<Own, p[2]>> /\ q.uid = p[3]
    BY DEF Source
  <1>. HIDE DEF q
  <1>6. There(Source(q), q.uid) /\ box[Source(q)][q.uid].text = q.meant
    BY <1>3, <1>5
  <1>7. CASE pc = "flag"
    BY <1>1, <1>2, <1>4, <1>6, <1>7, OtherEnters
  <1>8. CASE pc = "unflag"
    <2>1. /\ moves' \in [Texts -> Nat]
          /\ \A t \in Texts : moves'[t] = IF t = At(p).text THEN moves[t] + 1 ELSE moves[t]
      BY <1>1, <1>2, <1>8, MovingIs
    <2>2. \A t \in Texts : /\ moves'[t] \in {moves[t], moves[t] + 1}
                           /\ Owes(q, t) => moves'[t] = moves[t] + 1
      BY <1>5, <2>1 DEF Owes
    <2>. QED
      BY <1>2, <1>4, <1>6, <2>1, <2>2, EnterCounts
  <1>. QED
    BY <1>7, <1>8

(* A text that is saved or sent.                                           *)
LEMMA ComposeCounts ==
    ASSUME MailInv, CountInv, NEW r \in Requests, NEW op, NEW pc, NEW acct \in Accounts,
           NEW v \in Versions, NEW u \in Opened, Compose(r, op, pc, acct, v, u),
           \/ op = "save" /\ pc \in {"append", "store"} /\ acct = Own
           \/ op = "send" /\ pc = "smtp"
    PROVE  CountInv'
  <1>. DEFINE meant == IF u = 0 THEN None ELSE box[<<Own, discoverDraftsFolder>>][u].text
              q == [op |-> op, acct |-> acct, folder |-> discoverDraftsFolder, uid |-> u,
                    to |-> v, pc |-> pc, meant |-> meant]
  <1>1. u \in Nat /\ meant \in Texts \cup {None}
    BY OpenedIs DEF MailInv
  <1>2. req[r] = None /\ req' = [req EXCEPT ![r] = q] /\ UNCHANGED <<box, moves>> /\ Counted
    BY DEF Compose
  <1>. HIDE DEF meant
  <1>3. q \in KnownRequest /\ q.op = op /\ q.pc = pc
    BY <1>1 DEF KnownRequest, SaveRequest, SendRequest
  <1>. HIDE DEF q
  <1>. QED
    BY <1>2, <1>3, OtherEnters

(* The handlers behind compose windows.                                    *)
LEMMA WindowsCount ==
    ASSUME MailInv, CountInv, NEW r \in Requests,
           \/ HandleSaveDraft(r) \/ handleSaveDraft(r)
           \/ HandleComposeEmail(r) \/ handleSend(r)
    PROVE  CountInv'
  <1>1. 0 \in Opened /\ Own \in Accounts
    BY DEF Opened, Accounts
  <1>2. CASE HandleSaveDraft(r)
    BY <1>1, <1>2, ComposeCounts DEF HandleSaveDraft
  <1>3. CASE handleSaveDraft(r)
    BY <1>1, <1>3, ComposeCounts DEF handleSaveDraft
  <1>4. CASE HandleComposeEmail(r)
    BY <1>4, ComposeCounts DEF HandleComposeEmail
  <1>5. CASE handleSend(r)
    BY <1>1, <1>5, ComposeCounts DEF handleSend
  <1>. QED
    BY <1>2, <1>3, <1>4, <1>5

-----------------------------------------------------------------------------

(* A step that is none of a request.                                       *)
LEMMA QuietCounts ==
    ASSUME CountInv, UNCHANGED moves, count' \in [requests : Nat, faults : Nat, others : Nat],
           count'.faults = count.faults, Aged(0, "smtp"), Comes(0, "smtp", 0), MeantInv',
           \A p : Doomed(p) => Doomed(p)', \A t \in Texts : OwedOf(t)' \subseteq OwedOf(t)
    PROVE  CountInv'
  <1>1. CountTypes /\ CountTypes'
    BY DEF CountInv, CountTypes
  <1>2. ASSUME NEW t \in Texts \ Versions
        PROVE  Good(ItemsOf(t)', LooseOf(t)', OwedOf(t)', moves'[t], count'.faults)
    <2>1. Good(ItemsOf(t), LooseOf(t), OwedOf(t), moves[t], count.faults)
      BY DEF CountInv
    <2>2. moves[t] \in Nat /\ count.faults \in Nat
      BY <1>1 DEF CountTypes
    <2>3. /\ ItemsOf(t)' \subseteq ItemsOf(t) /\ UnmarkedOf(t)' \subseteq UnmarkedOf(t)
      <3>1. ~Hit(0, "smtp", t)
        BY DEF Hit
      <3>. QED
        BY <3>1, PartsAfter
    <2>4. LooseOf(t)' \subseteq LooseOf(t)
      BY <2>3 DEF LooseOf
    <2>5. LooseOf(t)' \subseteq ItemsOf(t)'
      BY DEF LooseOf, UnmarkedOf
    <2>. QED
      BY <2>1, <2>2, <2>3, <2>4, <2>5, GoodShrinks
  <1>. QED
    BY <1>1, <1>2 DEF CountInv, Good

(* The requests are as they were.                                          *)
LEMMA SameDues ==
    ASSUME UNCHANGED req
    PROVE  (\A p : Doomed(p) => Doomed(p)') /\ (\A t \in Texts : OwedOf(t)' \subseteq OwedOf(t))
  BY DEF Doomed, OwedOf, Owes, Named

(* The user creates a folder.                                              *)
LEMMA CreateFolderCounts ==
    ASSUME MailInv, CountInv, handleCreateFolder
    PROVE  CountInv'
  <1>1. PICK k \in Folders : k = <<Own, Label>>
    BY SystemFolders DEF Folders, Accounts
  <1>2. /\ box[k] = None /\ box' = [box EXCEPT ![k] = <<>>] /\ UNCHANGED <<req, moves>>
        /\ Counted /\ MailTypes /\ MeantInv /\ CountTypes
    BY <1>1 DEF handleCreateFolder, CreateMailbox, MailInv, CountInv
  <1>3. <<>> \in Items
    BY EmptySeq DEF Items
  <1>4. Aged(0, "smtp") /\ Comes(0, "smtp", 0)
    <2>1. PICK s \in Items : s = <<>> /\ \A v : v \notin DOMAIN s
      BY <1>3
    <2>2. MailTypes /\ box[k] = None /\ box' = [box EXCEPT ![k] = s]
      BY <1>2, <2>1
    <2>. QED
      BY <2>1, <2>2, FolderAged
  <1>5. \A j, v : There(j, v) => There(j, v)'
    <2>1. \A j \in Folders : j # k => box'[j] = box[j]
      BY <1>2 DEF MailTypes
    <2>. QED
      BY <1>2, <2>1 DEF There
  <1>6. MeantInv'
    <2>1. ASSUME NEW r \in Requests, req'[r] # None, req'[r].op \in {"move", "flag"},
                 req'[r].meant # None
          PROVE  /\ req[r] # None /\ req[r].op = req'[r].op /\ req[r].meant = req'[r].meant
                 /\ req[r].uid = req'[r].uid /\ Source(req[r]) = Source(req'[r])
                 /\ There(Source(req[r]), req[r].uid)'
      <3>1. PICK j, u : j = Source(req[r]) /\ u = req[r].uid
        OBVIOUS
      <3>2. req'[r] = req[r] /\ Source(req'[r]) = Source(req[r])
        BY <1>2 DEF Source
      <3>3. There(j, u)
        BY <1>2, <2>1, <3>1, <3>2 DEF MeantInv
      <3>4. There(j, u)'
        BY <1>5, <3>3
      <3>. QED
        BY <2>1, <3>1, <3>2, <3>4 DEF There
    <2>. QED
      BY <1>2, <1>4, <2>1, MeantKept
  <1>7. count' \in [requests : Nat, faults : Nat, others : Nat] /\ count'.faults = count.faults
    BY <1>2 DEF CountTypes, Counted
  <1>. QED
    BY <1>2, <1>4, <1>6, <1>7, SameDues, QuietCounts

(* The user deletes a folder.                                              *)
LEMMA DeleteFolderCounts ==
    ASSUME MailInv, CountInv, handleDeleteFolder
    PROVE  CountInv'
  <1>1. PICK k \in Folders : k = <<Own, Label>>
    BY SystemFolders DEF Folders, Accounts
  <1>2. /\ box' = [box EXCEPT ![k] = None] /\ req' = Voided(k) /\ UNCHANGED moves
        /\ Counted /\ MailTypes /\ MeantInv /\ CountTypes
    BY <1>1 DEF handleDeleteFolder, DeleteMailbox, MailInv, CountInv
  <1>3. box'[k] = None /\ \A j \in Folders : j # k => box'[j] = box[j]
    BY <1>2 DEF MailTypes
  <1>4. Aged(0, "smtp") /\ Comes(0, "smtp", 0)
    BY <1>3 DEF Aged, Comes, There
  <1>5. \A r \in Requests :
           /\ req'[r] = None <=> req[r] = None
           /\ req[r] # None =>
                 /\ req'[r].op = req[r].op /\ req'[r].pc = req[r].pc
                 /\ req'[r].uid = req[r].uid /\ Source(req'[r]) = Source(req[r])
                 /\ req'[r].acct = req[r].acct /\ req'[r].folder = req[r].folder
                 /\ req'[r].meant = IF Source(req[r]) = k THEN None ELSE req[r].meant
    BY <1>2, VoidedIs
  <1>6. MeantInv'
    <2>1. ASSUME NEW r \in Requests, req'[r] # None, req'[r].op \in {"move", "flag"},
                 req'[r].meant # None
          PROVE  /\ req[r] # None /\ req[r].op = req'[r].op /\ req[r].meant = req'[r].meant
                 /\ req[r].uid = req'[r].uid /\ Source(req[r]) = Source(req'[r])
                 /\ There(Source(req[r]), req[r].uid)'
      <3>1. PICK j, u : j = Source(req[r]) /\ u = req[r].uid
        OBVIOUS
      <3>2. /\ req[r] # None /\ req[r].op = req'[r].op /\ req[r].meant = req'[r].meant
            /\ req[r].uid = req'[r].uid /\ Source(req[r]) = Source(req'[r]) /\ j # k
        BY <1>5, <2>1, <3>1
      <3>3. There(j, u)
        BY <1>2, <2>1, <3>1, <3>2 DEF MeantInv
      <3>4. There(j, u)'
        BY <1>3, <3>2, <3>3 DEF There
      <3>. QED
        BY <3>1, <3>2, <3>4 DEF There
    <2>. QED
      BY <1>2, <1>4, <2>1, MeantKept
  <1>7. count' \in [requests : Nat, faults : Nat, others : Nat] /\ count'.faults = count.faults
    BY <1>2 DEF CountTypes, Counted
  <1>8. ASSUME NEW p, Doomed(p) PROVE Doomed(p)'
    <2>1. PICK r \in Requests : req[r] # None /\ req[r].pc = "store" /\ Named(req[r]) = p
      BY <1>8 DEF Doomed
    <2>2. req'[r] # None /\ req'[r].pc = "store" /\ Named(req'[r]) = p
      BY <1>5, <2>1 DEF Named
    <2>3. \E x \in Requests : req'[x] # None /\ req'[x].pc = "store" /\ Named(req'[x]) = p
      BY <2>2
    <2>. QED
      BY <2>3 DEF Doomed, Named
  <1>9. ASSUME NEW t \in Texts PROVE OwedOf(t)' \subseteq OwedOf(t)
    <2>1. ASSUME NEW r \in Requests, Owes(req'[r], t) PROVE Owes(req[r], t)
      BY <1>5, <2>1, NoneIsNothing DEF Owes
    <2>2. OwedOf(t)' = {r \in Requests : Owes(req'[r], t)}
      BY DEF OwedOf, Owes
    <2>. QED
      BY <2>1, <2>2 DEF OwedOf
  <1>. QED
    BY <1>2, <1>4, <1>6, <1>7, <1>8, <1>9, QuietCounts

(* Another mail client marks a message.                                    *)
LEMMA OtherMarksCounts ==
    ASSUME MailInv, CountInv, OtherMarks
    PROVE  CountInv'
  <1>1. PICK p \in Messages : box' = [box EXCEPT ![<<p[1], p[2]>>] = Marked(@, p[3])]
    BY DEF OtherMarks
  <1>2. /\ MailTypes /\ MeantInv /\ CountTypes /\ UNCHANGED <<req, moves>>
        /\ count' = [count EXCEPT !.others = @ + 1]
    BY DEF OtherMarks, MailInv, CountInv
  <1>3. PICK k, u : /\ k \in Folders /\ k = <<p[1], p[2]>> /\ u = p[3] /\ box[k] # None
                    /\ u \in DOMAIN box[k] /\ box[k][u] # None
    BY <1>2, MessageThere DEF Gone
  <1>. DEFINE e == [text |-> box[k][u].text, deleted |-> TRUE]
              s == [box[k] EXCEPT ![u] = e]
  <1>4. box' = [box EXCEPT ![k] = s] /\ e \in Item
    BY <1>1, <1>2, <1>3, MarkIs DEF Marked
  <1>5. box[k] \in Items
    BY <1>2, <1>3 DEF MailTypes, Items
  <1>6. e.text = box[k][u].text /\ e.deleted
    OBVIOUS
  <1>. HIDE DEF e
  <1>7. /\ s \in Items /\ DOMAIN s = DOMAIN box[k] /\ s[u] = e
        /\ \A v \in DOMAIN box[k] : v # u => s[v] = box[k][v]
    BY <1>3, <1>4, <1>5, PutItems
  <1>. HIDE DEF s
  <1>8. /\ \A v \in DOMAIN box[k] : s[v] # None =>
              /\ box[k][v] # None /\ s[v].text = box[k][v].text
              /\ ~s[v].deleted => ~box[k][v].deleted
        /\ \A v \in DOMAIN s : s[v] # None => v \in DOMAIN box[k]
    BY <1>3, <1>6, <1>7
  <1>9. Aged(0, "smtp") /\ Comes(0, "smtp", 0)
    BY <1>2, <1>3, <1>4, <1>7, <1>8, FolderAged
  <1>10. \A j, v : There(j, v) => There(j, v)'
    <2>1. box'[k] = s /\ s # None /\ \A j \in Folders : j # k => box'[j] = box[j]
      BY <1>2, <1>3, <1>4, <1>7, FolderChanged
    <2>2. ASSUME NEW j, NEW v, There(j, v) PROVE There(j, v)'
      <3>1. j \in Folders /\ box[j] # None /\ v \in DOMAIN box[j]
        BY <2>2 DEF There
      <3>2. box'[j] # None /\ v \in DOMAIN box'[j]
        BY <1>3, <1>7, <2>1, <3>1
      <3>. QED
        BY <3>1, <3>2 DEF There
    <2>. QED
      BY <2>2
  <1>11. MeantInv'
    <2>1. ASSUME NEW r \in Requests, req'[r] # None, req'[r].op \in {"move", "flag"},
                 req'[r].meant # None
          PROVE  /\ req[r] # None /\ req[r].op = req'[r].op /\ req[r].meant = req'[r].meant
                 /\ req[r].uid = req'[r].uid /\ Source(req[r]) = Source(req'[r])
                 /\ There(Source(req[r]), req[r].uid)'
      <3>1. PICK j, v : j = Source(req[r]) /\ v = req[r].uid
        OBVIOUS
      <3>2. req'[r] = req[r] /\ Source(req'[r]) = Source(req[r])
        BY <1>2 DEF Source
      <3>3. There(j, v)
        BY <1>2, <2>1, <3>1, <3>2 DEF MeantInv
      <3>4. There(j, v)'
        BY <1>10, <3>3
      <3>. QED
        BY <2>1, <3>1, <3>2, <3>4 DEF There
    <2>. QED
      BY <1>2, <1>9, <2>1, MeantKept
  <1>12. count' \in [requests : Nat, faults : Nat, others : Nat] /\ count'.faults = count.faults
    BY <1>2 DEF CountTypes
  <1>. QED
    BY <1>2, <1>9, <1>11, <1>12, SameDues, QuietCounts

-----------------------------------------------------------------------------

(* At the start every text is there once at most.                          *)
LEMMA CountInit == Init => CountInv
  <1>. SUFFICES ASSUME Init PROVE CountInv
    OBVIOUS
  <1>1. /\ \A r \in Requests : req[r] = None
        /\ moves = [t \in Texts |-> 0] /\ count = [requests |-> 0, faults |-> 0, others |-> 0]
    BY DEF Init
  <1>2. CountTypes /\ MeantInv
    BY <1>1 DEF CountTypes, MeantInv
  <1>3. ASSUME NEW p \in Messages
        PROVE  /\ p = <<p[1], p[2], p[3]>> /\ <<p[1], p[2]>> \in DOMAIN Mail
               /\ p[3] \in DOMAIN Mail[<<p[1], p[2]>>]
               /\ At(p).text = Mail[<<p[1], p[2]>>][p[3]]
    <2>1. PICK k, u : k = <<p[1], p[2]>> /\ u = p[3]
      OBVIOUS
    <2>2. /\ p = <<p[1], p[2], p[3]>> /\ k \in Folders /\ box[k] # None
          /\ u \in DOMAIN box[k]
      BY <2>1, MessagesAre DEF There
    <2>3. box[k] = IF k \in DOMAIN Mail
                   THEN [v \in DOMAIN Mail[k] |-> [text |-> Mail[k][v], deleted |-> FALSE]]
                   ELSE IF k[2] = Snoozed THEN None ELSE <<>>
      BY <2>2 DEF Init, Folders
    <2>4. k \in DOMAIN Mail
      BY <2>2, <2>3
    <2>5. u \in DOMAIN Mail[k] /\ box[k][u].text = Mail[k][u]
      BY <2>2, <2>3, <2>4
    <2>. QED
      BY <2>1, <2>2, <2>4, <2>5 DEF At
  <1>4. ASSUME NEW t \in Texts \ Versions
        PROVE  Good(ItemsOf(t), LooseOf(t), OwedOf(t), moves[t], count.faults)
    <2>1. \A p, x \in ItemsOf(t) : p = x
      <3>1. ASSUME NEW p \in ItemsOf(t), NEW x \in ItemsOf(t) PROVE p = x
        <4>1. /\ p \in Messages /\ At(p).text = t
              /\ x \in Messages /\ At(x).text = t
          BY DEF ItemsOf
        <4>2. <<p[1], p[2]>> = <<x[1], x[2]>> /\ p[3] = x[3]
          <5>1. PICK j, k \in DOMAIN Mail : j = <<p[1], p[2]>> /\ k = <<x[1], x[2]>>
            BY <1>3, <4>1
          <5>2. PICK u \in DOMAIN Mail[j], v \in DOMAIN Mail[k] : u = p[3] /\ v = x[3]
            BY <1>3, <4>1, <5>1
          <5>3. Mail[j][u] = t /\ Mail[k][v] = t
            BY <1>3, <4>1, <5>1, <5>2
          <5>4. j = k /\ u = v
            BY <5>3, FoldersAssumption
          <5>. QED
            BY <5>1, <5>2, <5>4
        <4>3. p = <<p[1], p[2], p[3]>> /\ x = <<x[1], x[2], x[3]>>
          BY <1>3, <4>1
        <4>4. p[1] = x[1] /\ p[2] = x[2]
          BY <4>2
        <4>. QED
          BY <4>2, <4>3, <4>4
      <3>. QED
        BY <3>1
    <2>2. PICK y : ItemsOf(t) \subseteq {y}
      BY <2>1
    <2>3. IsFiniteSet({y}) /\ Cardinality({y}) = 1
      BY FS_Singleton
    <2>4. LooseOf(t) \subseteq ItemsOf(t)
      BY DEF LooseOf, UnmarkedOf
    <2>5. \A T \in SUBSET {y} : IsFiniteSet(T) /\ Cardinality(T) \in Nat /\ Cardinality(T) <= 1
      BY <2>3, Sizes
    <2>6. OwedOf(t) = {}
      BY <1>1 DEF OwedOf, Owes
    <2>7. IsFiniteSet(OwedOf(t)) /\ Cardinality(OwedOf(t)) = 0
      BY <2>6, FS_EmptySet
    <2>8. /\ IsFiniteSet(ItemsOf(t)) /\ Cardinality(ItemsOf(t)) \in Nat
          /\ Cardinality(ItemsOf(t)) <= 1
          /\ Cardinality(LooseOf(t)) \in Nat /\ Cardinality(LooseOf(t)) <= 1
      BY <2>2, <2>4, <2>5
    <2>9. moves[t] = 0 /\ count.faults = 0
      BY <1>1
    <2>. QED
      BY <2>4, <2>7, <2>8, <2>9 DEF Good
  <1>. QED
    BY <1>2, <1>4 DEF CountInv

(* Every step keeps the counts.                                            *)
LEMMA CountNext == MailInv /\ CountInv /\ [Next]_vars => CountInv'
  <1>. SUFFICES ASSUME MailInv, CountInv, [Next]_vars PROVE CountInv'
    OBVIOUS
  <1>1. ASSUME NEW r \in Requests,
               \/ HandleDeleteEmail(r) \/ handleDelete(r)
               \/ handleMove(r) \/ handleSnooze(r) \/ handleReportSpam(r)
        PROVE  CountInv'
    BY <1>1, HandlersCount
  <1>2. ASSUME NEW r \in Requests, handleSetFlag(r) PROVE CountInv'
    BY <1>2, SetFlagCounts
  <1>3. ASSUME NEW r \in Requests,
               HandleSaveDraft(r) \/ handleSaveDraft(r) \/ HandleComposeEmail(r) \/ handleSend(r)
        PROVE  CountInv'
    BY <1>3, WindowsCount
  <1>4. ASSUME NEW r \in Requests, Command(r) PROVE CountInv'
    BY <1>4, OkCounts, RefusedCounts, FailsCounts DEF Command
  <1>5. CASE handleCreateFolder
    BY <1>5, CreateFolderCounts
  <1>6. CASE handleDeleteFolder
    BY <1>6, DeleteFolderCounts
  <1>7. CASE OtherMarks
    BY <1>7, OtherMarksCounts
  <1>8. CASE UNCHANGED vars
    <2>1. CountTypes' /\ MeantInv'
      BY <1>8 DEF vars, CountInv, CountTypes, MeantInv, There, Source
    <2>2. \A t : /\ ItemsOf(t)' = ItemsOf(t) /\ LooseOf(t)' = LooseOf(t)
                 /\ OwedOf(t)' = OwedOf(t)
      BY <1>8 DEF vars, ItemsOf, LooseOf, UnmarkedOf, Doomed, OwedOf, Owes, Named, Messages, At
    <2>3. moves' = moves /\ count' = count
      BY <1>8 DEF vars
    <2>4. \A t \in Texts \ Versions :
             Good(ItemsOf(t)', LooseOf(t)', OwedOf(t)', moves'[t], count'.faults)
      BY <2>2, <2>3 DEF CountInv
    <2>. QED
      BY <2>1, <2>4 DEF CountInv, Good
  <1>. QED
    BY <1>1, <1>2, <1>3, <1>4, <1>5, <1>6, <1>7, <1>8 DEF Next

(* At rest nothing is owed, and all that is unmarked is loose.             *)
LEMMA LooseAtRest == CountInv => CopiesBounded
  <1>. SUFFICES ASSUME CountInv, \A r \in Requests : req[r] = None, NEW t \in Texts \ Versions
                PROVE  Cardinality({p \in {x \in Messages : ~At(x).deleted} : At(p).text = t})
                          <= count.faults + (IF moves[t] = 0 THEN 1 ELSE moves[t])
    BY DEF CopiesBounded
  <1>1. {p \in {x \in Messages : ~At(x).deleted} : At(p).text = t} = LooseOf(t)
    BY DEF LooseOf, UnmarkedOf, ItemsOf, Doomed
  <1>2. OwedOf(t) = {}
    BY DEF OwedOf, Owes
  <1>3. Cardinality(OwedOf(t)) = 0
    BY <1>2, FS_EmptySet
  <1>4. Good(ItemsOf(t), LooseOf(t), OwedOf(t), moves[t], count.faults)
    BY DEF CountInv
  <1>5. moves[t] \in Nat /\ count.faults \in Nat
    BY DEF CountInv, CountTypes
  <1>6. Cardinality(LooseOf(t)) <= count.faults + (IF moves[t] = 0 THEN 1 ELSE moves[t])
    <2>1. Cardinality(LooseOf(t))
             <= count.faults + (IF moves[t] = 0 THEN 1 ELSE moves[t] - 0)
      BY <1>3, <1>4 DEF Good
    <2>. QED
      BY <1>5, <2>1
  <1>. QED
    BY <1>1, <1>6

(* However moves, flags, deletes, failures and other clients interleave,   *)
(* MoveMessage of handlers/api/email.go leaves a message once, or once for *)
(* every request that moved or unmarked it and every command that failed:  *)
(* its fallback copies what it marks, and does so once.                    *)
THEOREM CopiesAreBounded == Spec => []CopiesBounded
  <1>. QED
    BY MailInit, MailNext, CountInit, CountNext, LooseAtRest, PTL DEF Spec
-----------------------------------------------------------------------------

(* Types.  A request to move counts when it comes, when its MOVE takes     *)
(* effect and when its COPY does, one to unmark when it comes and when it  *)
(* takes effect: three times at most, less what it has still before it.    *)
DuesOf(q) ==
    CASE q # None /\ q.pc \in {"create", "move"} -> {"move", "copy"}
      [] q # None /\ q.pc = "copy" -> {"copy"}
      [] q # None /\ q.pc = "unflag" -> {"unflag"}
      [] OTHER -> {}

Pending == {d \in Requests \X {"move", "copy", "unflag"} : d[2] \in DuesOf(req[d[1]])}

MovesInv ==
    /\ IsFiniteSet(Pending)
    /\ \A t \in Texts : moves[t] + Cardinality(Pending) <= 3 * count.requests

CountBounds ==
    count \in [requests : 0..MaxRequests, faults : 0..MaxFaults, others : 0..MaxOthers]

LEMMA DuesAre ==
    ASSUME NEW q
    PROVE  /\ q = None => DuesOf(q) = {}
           /\ q # None /\ q.pc \in {"create", "move"} => DuesOf(q) = {"move", "copy"}
           /\ q # None /\ q.pc = "copy" => DuesOf(q) = {"copy"}
           /\ q # None /\ q.pc = "unflag" => DuesOf(q) = {"unflag"}
           /\ q # None /\ q.pc \notin {"create", "move", "copy", "unflag"} => DuesOf(q) = {}
           /\ DuesOf(q) \subseteq {"move", "copy"} \/ DuesOf(q) = {"unflag"}
  <1>1. /\ q = None => DuesOf(q) = {}
        /\ q # None /\ q.pc \in {"create", "move"} => DuesOf(q) = {"move", "copy"}
        /\ q # None /\ q.pc = "copy" => DuesOf(q) = {"copy"}
        /\ q # None /\ q.pc = "unflag" => DuesOf(q) = {"unflag"}
        /\ q # None /\ q.pc \notin {"create", "move", "copy", "unflag"} => DuesOf(q) = {}
    BY Zenon DEF DuesOf
  <1>. QED
    BY <1>1

(* The dues of one request are two more at most.                           *)
LEMMA PendingEnters ==
    ASSUME MovesInv, MailTypes, CountTypes, NEW r \in Requests, req[r] = None,
           NEW q, req' = [req EXCEPT ![r] = q], Counted,
           \A t \in Texts : moves'[t] \in {moves[t], moves[t] + 1}
    PROVE  MovesInv'
  <1>1. count.requests \in Nat /\ count'.requests = count.requests + 1
    BY DEF CountTypes, Counted
  <1>2. req'[r] = q /\ \A p \in Requests \ {r} : req'[p] = req[p]
    BY DEF MailTypes
  <1>3. IsFiniteSet(Pending)' /\ Cardinality(Pending') \in Nat /\ Cardinality(Pending) \in Nat
           /\ Cardinality(Pending') <= Cardinality(Pending) + 2
    <2>1. \/ Pending' \subseteq (Pending \cup {<<r, "move">>}) \cup {<<r, "copy">>}
          \/ Pending' \subseteq (Pending \cup {<<r, "unflag">>}) \cup {<<r, "unflag">>}
      <3>1. ASSUME NEW d \in Pending', d \notin Pending PROVE d = <<r, d[2]>> /\ d[2] \in DuesOf(q)
        BY <1>2, <3>1 DEF Pending
      <3>. QED
        BY <3>1, DuesAre
    <2>2. ASSUME NEW x, NEW y, Pending' \subseteq (Pending \cup {x}) \cup {y}
          PROVE  /\ IsFiniteSet(Pending') /\ Cardinality(Pending') \in Nat
                 /\ Cardinality(Pending) \in Nat
                 /\ Cardinality(Pending') <= Cardinality(Pending) + 2
      <3>1. IsFiniteSet(Pending)
        BY DEF MovesInv
      <3>2. /\ IsFiniteSet(Pending \cup {x}) /\ Cardinality(Pending \cup {x}) \in Nat
            /\ Cardinality(Pending) \in Nat
            /\ Cardinality(Pending \cup {x}) <= Cardinality(Pending) + 1
        BY <3>1, Sizes
      <3>3. /\ IsFiniteSet(Pending') /\ Cardinality(Pending') \in Nat
            /\ Cardinality(Pending') <= Cardinality(Pending \cup {x}) + 1
        BY <2>2, <3>2, Sizes
      <3>. QED
        BY <3>2, <3>3
    <2>. QED
      BY <2>1, <2>2
  <1>4. ASSUME NEW t \in Texts
        PROVE  moves'[t] + Cardinality(Pending') <= 3 * count'.requests
    <2>1. moves[t] \in Nat /\ moves[t] + Cardinality(Pending) <= 3 * count.requests
      BY DEF MovesInv, CountTypes
    <2>2. moves'[t] \in {moves[t], moves[t] + 1}
      OBVIOUS
    <2>. QED
      BY <1>1, <1>3, <2>1, <2>2
  <1>. QED
    BY <1>3, <1>4 DEF MovesInv

LEMMA HandlersMove ==
    ASSUME MovesInv, MailTypes, CountTypes, NEW r \in Requests,
           \/ HandleDeleteEmail(r) \/ handleDelete(r)
           \/ handleMove(r) \/ handleSnooze(r) \/ handleReportSpam(r) \/ handleSetFlag(r)
           \/ HandleSaveDraft(r) \/ handleSaveDraft(r) \/ HandleComposeEmail(r) \/ handleSend(r)
    PROVE  MovesInv' /\ Counted
  <1>1. ASSUME NEW op, NEW pc, NEW p, NEW to, Enter(r, op, pc, p, to),
               UNCHANGED moves \/ (p \in OfSession /\ Moving(p))
        PROVE  MovesInv' /\ Counted
    <2>1. \A t \in Texts : moves'[t] \in {moves[t], moves[t] + 1}
      BY <1>1, MovingIs
    <2>. QED
      BY <1>1, <2>1, PendingEnters DEF Enter
  <1>2. ASSUME NEW op, NEW pc, NEW acct, NEW v, NEW u, Compose(r, op, pc, acct, v, u)
        PROVE  MovesInv' /\ Counted
    BY <1>2, PendingEnters DEF Compose
  <1>3. ASSUME NEW p, DeleteMessage(r, p) PROVE MovesInv' /\ Counted
    BY <1>1, <1>3 DEF DeleteMessage
  <1>4. ASSUME NEW p \in OfSession, NEW to, NEW pc, MoveMessage(r, p, to, pc)
        PROVE  MovesInv' /\ Counted
    BY <1>1, <1>4 DEF MoveMessage
  <1>5. CASE HandleDeleteEmail(r) \/ handleDelete(r)
    BY <1>3, <1>4, <1>5 DEF HandleDeleteEmail, handleDelete
  <1>6. CASE handleMove(r) \/ handleSnooze(r) \/ handleReportSpam(r)
    BY <1>4, <1>6 DEF handleMove, handleSnooze, handleReportSpam
  <1>7. CASE handleSetFlag(r)
    BY <1>1, <1>7 DEF handleSetFlag
  <1>8. CASE HandleSaveDraft(r) \/ handleSaveDraft(r) \/ HandleComposeEmail(r) \/ handleSend(r)
    BY <1>2, <1>8 DEF HandleSaveDraft, handleSaveDraft, HandleComposeEmail, handleSend
  <1>. QED
    BY <1>5, <1>6, <1>7, <1>8

(* A command that moves or unmarks is one due less.                        *)
LEMMA CommandsMove ==
    ASSUME MovesInv, MailTypes, CountTypes, NEW r \in Requests, Command(r)
    PROVE  MovesInv'
  <1>1. PICK q \in KnownRequest : req[r] = q
    BY DEF Command, CommandOk, CommandRefused, CommandFails, MailTypes
  <1>2. PICK next \in {OnOk(q), OnError(q)} : Continue(r, next)
    BY <1>1 DEF Command, CommandOk, CommandRefused, CommandFails
  <1>3. /\ \A p \in Requests \ {r} : req'[p] = req[p]
        /\ req'[r] = None <=> next = "idle"
        /\ req'[r] # None => req'[r].pc = next
    BY <1>1, <1>2, ContinueIs
  <1>4. /\ DuesOf(req'[r]) \subseteq DuesOf(q)
        /\ q.pc \in {"move", "copy", "unflag"} => q.pc \in DuesOf(q) \ DuesOf(req'[r])
    <2>1. q # None /\ q.pc \in {"create", "move", "copy", "store", "expunge", "flag",
                            "unflag", "append", "smtp", "file"}
      BY RequestKnown DEF Request
    <2>2. CASE q.pc = "create"
      <3>1. next \in {"move", "idle"}
        BY <2>2, OkIs, ErrorIs
      <3>. QED
        BY <1>3, <2>1, <2>2, <3>1, DuesAre
    <2>3. CASE q.pc = "move"
      <3>1. next \in {"copy", "idle"}
        BY <2>3, OkIs, ErrorIs
      <3>. QED
        BY <1>3, <2>1, <2>3, <3>1, DuesAre
    <2>4. CASE q.pc = "copy"
      <3>1. next \in {"store", "idle"}
        BY <2>4, OkIs, ErrorIs
      <3>. QED
        BY <1>3, <2>1, <2>4, <3>1, DuesAre
    <2>5. CASE q.pc = "unflag"
      <3>1. next = "idle"
        BY <2>5, OkIs, ErrorIs
      <3>. QED
        BY <1>3, <2>1, <2>5, <3>1, DuesAre
    <2>6. CASE q.pc \in {"store", "expunge", "flag", "append", "smtp", "file"}
      <3>1. next \in {"store", "expunge", "append", "file", "idle"}
        BY <2>6, OkIs, ErrorIs
      <3>. QED
        BY <1>3, <2>1, <2>6, <3>1, DuesAre
    <2>. QED
      BY <2>1, <2>2, <2>3, <2>4, <2>5, <2>6
  <1>5. Pending' \subseteq Pending
    BY <1>1, <1>3, <1>4 DEF Pending
  <1>6. IsFiniteSet(Pending)
    BY DEF MovesInv
  <1>7. /\ IsFiniteSet(Pending') /\ Cardinality(Pending') \in Nat /\ Cardinality(Pending) \in Nat
        /\ Cardinality(Pending') <= Cardinality(Pending)
    BY <1>5, <1>6, Sizes
  <1>8. q.pc \in {"move", "copy", "unflag"} => Cardinality(Pending') + 1 <= Cardinality(Pending)
    <2>. SUFFICES ASSUME q.pc \in {"move", "copy", "unflag"}
                  PROVE  Cardinality(Pending') + 1 <= Cardinality(Pending)
      OBVIOUS
    <2>. DEFINE d == <<r, q.pc>>
    <2>1. d \in Pending /\ d \notin Pending'
      BY <1>1, <1>4 DEF Pending
    <2>2. IsFiniteSet(Pending \ {d}) /\ Cardinality(Pending \ {d}) = Cardinality(Pending) - 1
      BY <1>6, <2>1, FS_RemoveElement
    <2>3. Cardinality(Pending') <= Cardinality(Pending \ {d}) /\ Cardinality(Pending \ {d}) \in Nat
      BY <1>5, <2>1, <2>2, Sizes
    <2>. QED
      BY <1>7, <2>2, <2>3
  <1>9. count'.requests = count.requests /\ count.requests \in Nat
    BY DEF Command, CommandOk, CommandRefused, CommandFails, CountTypes
  <1>10. ASSUME NEW t \in Texts
         PROVE  moves'[t] + Cardinality(Pending') <= 3 * count'.requests
    <2>1. moves[t] \in Nat /\ moves[t] + Cardinality(Pending) <= 3 * count.requests
      BY DEF MovesInv, CountTypes
    <2>2. UNCHANGED moves \/ (Moved(q) /\ ~Refused(q))
      BY <1>1 DEF Command, CommandOk, CommandRefused, CommandFails
    <2>3. \/ moves'[t] = moves[t]
          \/ moves'[t] = moves[t] + 1 /\ q.pc \in {"move", "copy", "unflag"}
      BY <2>2, MovedIs DEF Refused, Hit
    <2>. QED
      BY <1>7, <1>8, <1>9, <2>1, <2>3
  <1>. QED
    BY <1>7, <1>10 DEF MovesInv

LEMMA MovesNext ==
    ASSUME MovesInv, MailTypes, CountTypes, [Next]_vars
    PROVE  MovesInv'
  <1>1. CASE \E r \in Requests : Command(r)
    BY <1>1, CommandsMove
  <1>2. ASSUME UNCHANGED moves, count'.requests \in {count.requests, count.requests + 1},
               \A r \in Requests : DuesOf(req'[r]) = DuesOf(req[r])
        PROVE  MovesInv'
    <2>1. Pending' = Pending
      BY <1>2 DEF Pending
    <2>2. count.requests \in Nat /\ Cardinality(Pending) \in Nat
      BY FS_CardinalityType DEF CountTypes, MovesInv
    <2>3. ASSUME NEW t \in Texts
          PROVE  moves'[t] + Cardinality(Pending') <= 3 * count'.requests
      <3>1. moves[t] \in Nat /\ moves[t] + Cardinality(Pending) <= 3 * count.requests
        BY DEF MovesInv, CountTypes
      <3>. QED
        BY <1>2, <2>1, <2>2, <3>1
    <2>. QED
      BY <2>1, <2>3 DEF MovesInv
  <1>3. CASE handleCreateFolder
    BY <1>2, <1>3 DEF handleCreateFolder, Counted, CountTypes
  <1>4. CASE handleDeleteFolder
    <2>1. ASSUME NEW r \in Requests PROVE DuesOf(req'[r]) = DuesOf(req[r])
      <3>1. /\ req'[r] = None <=> req[r] = None
            /\ req[r] # None => req'[r].pc = req[r].pc
        BY <1>4, SystemFolders, VoidedIs DEF handleDeleteFolder, Folders, Accounts
      <3>. QED
        BY <3>1, DuesAre
    <2>. QED
      BY <1>2, <1>4, <2>1 DEF handleDeleteFolder, Counted, CountTypes
  <1>5. CASE OtherMarks
    BY <1>2, <1>5 DEF OtherMarks, CountTypes
  <1>6. CASE UNCHANGED vars
    BY <1>2, <1>6 DEF vars
  <1>. QED
    BY <1>1, <1>3, <1>4, <1>5, <1>6, HandlersMove DEF Next

(* The counters themselves.                                                *)
LEMMA CountBoundsNext ==
    ASSUME MovesInv, MailTypes, CountTypes, CountBounds, [Next]_vars
    PROVE  CountBounds'
  <1>1. PICK n \in 0..MaxRequests, f \in 0..MaxFaults, m \in 0..MaxOthers :
           count = [requests |-> n, faults |-> f, others |-> m]
    BY DEF CountBounds
  <1>2. CASE Counted
    BY <1>1, <1>2, LimitsAssumption DEF Counted, CountBounds
  <1>3. CASE count' = count
    BY <1>3 DEF CountBounds
  <1>4. CASE count.faults < MaxFaults /\ count' = [count EXCEPT !.faults = @ + 1]
    BY <1>1, <1>4, LimitsAssumption DEF CountBounds
  <1>5. CASE count.others < MaxOthers /\ count' = [count EXCEPT !.others = @ + 1]
    BY <1>1, <1>5, LimitsAssumption DEF CountBounds
  <1>6. ASSUME NEW r \in Requests, Command(r) PROVE CountBounds'
    BY <1>3, <1>4, <1>6 DEF Command, CommandOk, CommandRefused, CommandFails
  <1>. QED
    BY <1>2, <1>3, <1>5, <1>6, HandlersMove
       DEF Next, vars, handleCreateFolder, handleDeleteFolder, OtherMarks

LEMMA MailTyped == Spec => []TypeOK
  <1>1. Init => MovesInv /\ CountBounds
    <2>. SUFFICES ASSUME Init PROVE MovesInv /\ CountBounds
      OBVIOUS
    <2>1. Pending = {}
      BY DuesAre DEF Init, Pending
    <2>2. IsFiniteSet(Pending) /\ Cardinality(Pending) = 0
      BY <2>1, FS_EmptySet
    <2>. QED
      BY <2>2, LimitsAssumption DEF Init, MovesInv, CountBounds
  <1>2. MailInv /\ CountInv /\ MovesInv /\ CountBounds /\ [Next]_vars => (MovesInv /\ CountBounds)'
    BY MovesNext, CountBoundsNext DEF MailInv, CountInv
  <1>3. MailInv /\ CountInv /\ MovesInv /\ CountBounds => TypeOK
    <2>. SUFFICES ASSUME MailInv, CountInv, MovesInv, CountBounds PROVE TypeOK
      OBVIOUS
    <2>1. ASSUME NEW k \in Accounts \X Names, box[k] # None, NEW u \in DOMAIN box[k]
          PROVE  box[k][u] \in Item \cup {None}
      BY <2>1, ItemThere DEF MailInv, Folders
    <2>2. ASSUME NEW r \in Requests, req[r] # None PROVE req[r] \in Request
      BY <2>2, RequestKnown DEF MailInv, MailTypes
    <2>3. moves \in [Texts -> 0..3 * MaxRequests]
      <3>1. ASSUME NEW t \in Texts PROVE moves[t] \in 0..3 * MaxRequests
        <4>1. /\ moves[t] \in Nat /\ Cardinality(Pending) \in Nat
              /\ moves[t] + Cardinality(Pending) <= 3 * count.requests
              /\ count.requests \in 0..MaxRequests
          BY FS_CardinalityType DEF MovesInv, CountInv, CountTypes, CountBounds
        <4>. QED
          BY <4>1, LimitsAssumption
      <3>. QED
        BY <3>1 DEF CountInv, CountTypes
    <2>. QED
      BY <2>1, <2>2, <2>3 DEF TypeOK, CountBounds, MailInv, MailTypes
  <1>. QED
    BY MailInit, MailNext, CountInit, CountNext, <1>1, <1>2, <1>3, PTL DEF Spec

=============================================================================
