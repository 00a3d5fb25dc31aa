---------------------------- MODULE AddressBook ----------------------------
(***************************************************************************)
(* Contacts and groups: handlers/jsonapi/contacts.go, contacts_groups.go,  *)
(* contact_photo.go and contacts_ie.go over api/contacts_dav.go.           *)
(*                                                                         *)
(* The cards live on the user's CardDAV server, in address books that      *)
(* other clients write as well.  A group is nothing but a category that    *)
(* cards carry; an empty one is held by a placeholder card.  Every write   *)
(* is an unconditional PUT of a whole card (no ETag), built from what an   *)
(* earlier listing gave; a group is rewritten card by card.                *)
(* A path stands for the card's UID too: both are made together.           *)
(***************************************************************************)
EXTENDS Naturals

CONSTANTS
    Paths, Books,
    Start,        \* the paths that hold a card already
    BookOf,       \* the address book of a path
    FirstBook,    \* where new cards go
    Groups, Requests,
    MaxEdits,     \* bound on the edits of contacts
    MaxRequests,  \* bound on the requests
    None

VARIABLES
    book,     \* the cards on the server
    used,     \* paths that have held a card
    edits,    \* edits so far
    begun,    \* requests so far
    req       \* the requests

vars == <<book, used, edits, begun, req>>

(* What models.Contact has of a card: whether it is a group's placeholder, *)
(* its groups, and the version of all other fields.                        *)
Contact == [holder : BOOLEAN, groups : SUBSET Groups, data : 0..MaxEdits]

(* A card may also have properties models.Contact has no field for.        *)
Card == [holder : BOOLEAN, groups : SUBSET Groups, data : 0..MaxEdits,
         foreign : BOOLEAN]

Ops == {"create", "rename", "drop", "edit", "photo", "add", "import", "remove"}

Rewrites == {"rename", "drop"}

Request == [pc : {"list", "put", "rewrite", "delete"}, op : Ops,
            from : Groups \cup {None}, to : Groups \cup {None},
            path : Paths \cup {None},
            seen : [Paths -> Contact \cup {None}],
            todo : SUBSET Paths,
            missed : SUBSET Paths,   \* cards a rewrite does not reach
            stale : SUBSET Paths]    \* cards written since they were listed

Idle == [pc |-> "idle"]

TypeOK ==
    /\ book \in [Paths -> Card \cup {None}]
    /\ used \subseteq Paths
    /\ edits \in 0..MaxEdits /\ begun \in 0..MaxRequests
    /\ DOMAIN req = Requests
    /\ \A r \in Requests : req[r] = Idle \/ req[r] \in Request

Init ==
    /\ used = Start
    /\ book \in [Paths -> Card \cup {None}]
    /\ \A p \in Paths : p \in Start <=> book[p] # None
    /\ \A p \in Start :
          /\ book[p].data = 0 /\ book[p].foreign = ~book[p].holder
          /\ book[p].holder => \E g \in Groups : book[p].groups = {g}
    /\ edits = 0 /\ begun = 0
    /\ req = [r \in Requests |-> Idle]

At(r, pc) == req[r].pc = pc

Is(r, ops) == req[r].pc # "idle" /\ req[r].op \in ops

(* The cards a request has listed to rewrite them.                         *)
Held(q) == IF req[q].pc \in {"idle", "list"} THEN {}
           ELSE IF req[q].op \in Rewrites THEN Paths ELSE {req[q].path}

(* r goes on as `next` after a write of p; every other request that has    *)
(* listed p holds an old card.                                             *)
Write(r, p, card, next) ==
    /\ book' = [book EXCEPT ![p] = card]
    /\ used' = used \cup {p}
    /\ req' = [q \in Requests |->
                  IF q = r THEN next
                  ELSE IF p \in Held(q)
                  THEN [req[q] EXCEPT !.stale = @ \cup {p}]
                  ELSE req[q]]
    /\ UNCHANGED begun

Done(r) ==
    /\ req' = [req EXCEPT ![r] = Idle]
    /\ UNCHANGED <<book, used, edits, begun>>

Edit == edits < MaxEdits /\ edits' = edits + 1

(* A new UID, in the first address book. *)
Fresh == {p \in Paths \ used : BookOf[p] = FirstBook}

contactFromCard(card) ==
    [holder |-> card.holder, groups |-> card.groups, data |-> card.data]

(* A card that is written has the fields of models.Contact, nothing else.  *)
cardFromContact(ct) ==
    [holder |-> ct.holder, groups |-> ct.groups, data |-> ct.data, foreign |-> FALSE]

Carriers(cards, g) == {p \in Paths : cards[p] # None /\ g \in cards[p].groups}

(* The contacts a user sees. *)
withoutPlaceholders == {p \in Paths : book[p] # None /\ ~book[p].holder}

Enter(r, op, from, to, path, pc) ==
    /\ At(r, "idle")
    /\ begun < MaxRequests /\ begun' = begun + 1
    /\ req' = [req EXCEPT ![r] =
          [pc |-> pc, op |-> op, from |-> from, to |-> to, path |-> path,
           seen |-> [p \in Paths |-> None],
           todo |-> {}, missed |-> {}, stale |-> {}]]
    /\ UNCHANGED <<book, used, edits>>

handleCreateGroup(r) == \E g \in Groups : Enter(r, "create", None, g, None, "list")

handleRenameGroup(r) ==
    \E g, h \in Groups : g # h /\ Enter(r, "rename", g, h, None, "list")

handleDeleteGroup(r) == \E g \in Groups : Enter(r, "drop", g, None, None, "list")

(* The contact the user edits is one the client has listed (pc "list").    *)
handleUpdateContact(r) ==
    /\ edits < MaxEdits
    /\ \E p \in withoutPlaceholders : Enter(r, "edit", None, None, p, "list")

(* handleUploadPhoto and handleDeletePhoto list the contacts themselves.   *)
handleUploadPhoto(r) ==
    /\ edits < MaxEdits
    /\ \E p \in withoutPlaceholders : Enter(r, "photo", None, None, p, "list")

handleCreateContact(r) == Enter(r, "add", None, None, None, "put")

handleImportContacts(r) == Enter(r, "import", None, None, None, "put")

(* With the path of the card there is nothing to look for. *)
handleDeleteContact(r) ==
    \E p \in withoutPlaceholders, pc \in {"list", "delete"} :
        Enter(r, "remove", None, None, p, pc)

AfterList(r) == CASE Is(r, Rewrites) -> "rewrite"
                  [] Is(r, {"remove"}) -> "delete"
                  [] OTHER -> "put"

(* A listing that stops at its limit. *)
ListSome(r) ==
    /\ At(r, "list") /\ Is(r, Rewrites)
    /\ \E p \in Paths :
          LET hits == {p} \cap Carriers(book, req[r].from) IN
          req' = [req EXCEPT ![r] =
                [@ EXCEPT !.seen = [q \in Paths |-> IF q \in hits
                                       THEN contactFromCard(book[q]) ELSE None],
                          !.todo = hits, !.pc = AfterList(r)]]
    /\ UNCHANGED <<book, used, edits, begun>>

(* listContacts and findContactPath: an address book that does not answer  *)
(* is left out without a word.  A group that exists is not created again.  *)
(* Only the cards to be written are kept.                                  *)
List(r) ==
    /\ At(r, "list")
    /\ \E answered \in SUBSET Books :
          LET listed == {p \in Paths : book[p] # None /\ BookOf[p] \in answered}
              wanted == listed \cap (Carriers(book, req[r].from) \cup {req[r].path})
              refused == \/ /\ Is(r, {"create"})
                            /\ listed \cap Carriers(book, req[r].to) # {}
                         \/ /\ Is(r, {"edit", "photo", "remove"})
                            /\ wanted = {}
          IN req' = [req EXCEPT ![r] =
                IF refused THEN Idle ELSE
                [@ EXCEPT !.seen = [p \in Paths |-> IF p \in wanted
                                       THEN contactFromCard(book[p]) ELSE None],
                          !.todo = IF Is(r, Rewrites) THEN wanted ELSE {},
                          !.missed = IF Is(r, Rewrites) THEN Paths \ listed ELSE {},
                          !.pc = AfterList(r)]]
    /\ UNCHANGED <<book, used, edits, begun>>

(* The server cannot be reached, or refuses: the handler answers 502, with *)
(* what a rewrite has written so far.                                      *)
Fail(r) ==
    /\ req[r].pc # "idle"
    /\ Done(r)

Placeholder(g) == [holder |-> TRUE, groups |-> {g}, data |-> 0]

PutGroup(r) ==
    /\ At(r, "put") /\ Is(r, {"create"})
    /\ \E p \in Fresh : Write(r, p, cardFromContact(Placeholder(req[r].to)), Idle)
    /\ UNCHANGED edits

(* A rewrite that keeps no other group of the card. *)
RewrittenAlone(ct, from, to) ==
    [ct EXCEPT !.groups = IF to = None THEN {} ELSE {to}]

Rewritten(ct, from, to) ==
    [ct EXCEPT !.groups = (@ \ {from}) \cup (IF to = None THEN {} ELSE {to})]

(* rewriteGroup: the next card of the listing.  A placeholder that holds   *)
(* no other group is deleted, and a failure to do so ignored.              *)
rewriteGroup(r) ==
    /\ At(r, "rewrite")
    /\ \E p \in req[r].todo :
          LET ct == Rewritten(req[r].seen[p], req[r].from, req[r].to)
              rest == [req[r] EXCEPT !.todo = @ \ {p}] IN
          IF ct.holder /\ ct.groups = {}
          THEN \/ Write(r, p, None, rest)
               \/ /\ req' = [req EXCEPT ![r] = [rest EXCEPT !.missed = @ \cup {p}]]
                  /\ UNCHANGED <<book, used, begun>>
          ELSE Write(r, p, cardFromContact(ct), rest)
    /\ UNCHANGED edits

RewriteDone(r) ==
    /\ At(r, "rewrite") /\ req[r].todo = {}
    /\ Done(r)

(* The fields as they were listed, with the user's change, whatever is     *)
(* there now.                                                              *)
PutEdited(r, groups) ==
    /\ At(r, "put") /\ Edit
    /\ Write(r, req[r].path,
             cardFromContact([req[r].seen[req[r].path] EXCEPT
                                  !.groups = groups, !.data = edits']),
             Idle)

PutContact(r) == Is(r, {"edit"}) /\ \E g \in SUBSET Groups : PutEdited(r, g)

PutPhoto(r) == Is(r, {"photo"}) /\ PutEdited(r, req[r].seen[req[r].path].groups)

(* A new contact, of an import perhaps with others to follow. *)
PutNew(r) ==
    /\ At(r, "put") /\ Is(r, {"add", "import"})
    /\ \E p \in Fresh, g \in Groups :
          LET card == cardFromContact([holder |-> FALSE, groups |-> {g}, data |-> 0]) IN
          \/ Write(r, p, card, Idle)
          \/ Is(r, {"import"}) /\ Write(r, p, card, req[r])
    /\ UNCHANGED edits

Remove(r) ==
    /\ At(r, "delete")
    /\ IF book[req[r].path] = None THEN Done(r)
       ELSE Write(r, req[r].path, None, Idle) /\ UNCHANGED edits

(* Another client of the same address book edits a contact. *)
OtherEdits ==
    /\ Edit
    /\ \E p \in Paths :
          /\ book[p] # None /\ ~book[p].holder
          /\ Write(None, p, [book[p] EXCEPT !.data = edits', !.foreign = TRUE],
                   Idle)

Next ==
    \/ \E r \in Requests :
          \/ handleCreateGroup(r) \/ handleRenameGroup(r) \/ handleDeleteGroup(r)
          \/ handleUpdateContact(r) \/ handleUploadPhoto(r)
          \/ handleCreateContact(r) \/ handleImportContacts(r)
          \/ handleDeleteContact(r)
          \/ List(r) \/ Fail(r)
          \/ PutGroup(r) \/ rewriteGroup(r) \/ RewriteDone(r)
          \/ PutContact(r) \/ PutPhoto(r) \/ PutNew(r) \/ Remove(r)
    \/ OtherEdits

Spec == Init /\ [][Next]_vars

(* Whether it is request r that writes card p in this step. *)
Writes(r, p) == /\ req[r].pc \in {"put", "rewrite", "delete"}
                /\ \/ req'[r].pc # req[r].pc
                   \/ req'[r].todo # req[r].todo
                /\ book'[p] # book[p]

(* Fields of a card go back to an older version, or a deleted card comes   *)
(* back, only when a request writes what it listed before the change; and  *)
(* a group that is renamed or dropped leaves the other groups of a card    *)
(* alone.                                                                  *)
OnlyStaleWritesUndo ==
    [][\A p \in Paths :
          LET old == book[p]
              new == book'[p]
              undone == IF old = None THEN new # None /\ p \in used
                        ELSE new # None /\ new.data < old.data
              others(r) == Groups \ {req[r].from, req[r].to}
          IN /\ undone => \E r \in Requests : Writes(r, p) /\ p \in req[r].stale
             /\ \A r \in Requests :
                   Writes(r, p) /\ At(r, "rewrite") /\ p \notin req[r].stale
                   => IF new = None THEN old.holder
                      ELSE new.groups \cap others(r) = old.groups \cap others(r)
      ]_vars

(* A rename or removal that succeeds leaves the old name on no card, but   *)
(* for cards that somebody wrote in the meantime, cards of an address book *)
(* that did not answer, and a placeholder that could not be deleted.       *)
SuccessReachesAll ==
    [][\A r \in Requests :
          At(r, "rewrite") /\ req[r].todo = {} /\ req'[r].pc = "idle" =>
             Carriers(book, req[r].from) \subseteq
                 req[r].stale \cup req[r].missed]_vars

=============================================================================
