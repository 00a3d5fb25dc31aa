----------------------------- MODULE MCRequests -----------------------------
(***************************************************************************)
(* Small instances for TLC of what the user's requests change: mailboxes,  *)
(* contacts, calendar, the session, staged attachments, settings, push     *)
(* subscriptions, and the conversation list.                               *)
(* The components share no state, so that one run checks them side by      *)
(* side: a behaviour is one of the component `part', the others rest in    *)
(* one of their initial states.                                            *)
(***************************************************************************)
EXTENDS Mailbox, TLC

CONSTANTS
    m1, m2, d1,                         \* messages and a draft
    Paths, Books, Start, FirstBook, BookOf, Groups, MaxEdits,
    p1, p2, p3, b1, b2, g1, g2,
    FormSlots, Slots, Meetings, MaxVersions, MaxChanges,
    Users, Home, Demo, Rotates, MaxGrants, MaxAdmitted,
    Tokens, TTL, MaxComposed,
    Primary, Titles, Limit, MaxPuts,
    Endpoints, Key, Senders, e1, e2, e3, k1, k2,
    Ids, Subjects, Positions, Lists

ASSUME StagingAssumption ==
    /\ TTL \in Nat /\ MaxComposed \in Nat
    /\ None \notin Nat
    /\ None \notin [pc : {"read", "consume", "deliver"}, held : SUBSET Tokens,
                refs : Seq(Tokens)]

ASSUME SettingsAssumption == MaxPuts \in Nat

ASSUME SessionAssumption ==
    /\ Home \subseteq Users /\ Demo \notin Users
    /\ None \notin Users \cup {Demo}
    /\ Rotates \in BOOLEAN /\ MaxGrants \in Nat \ {0} /\ MaxAdmitted \in Nat
    /\ None \notin [user : Users, gen : 1..MaxGrants]

VARIABLES
    part,
    book, used, edits, begun, bookReq,                    \* AddressBook
    cal, told, heard, calExcuse, calCount, calReq,        \* Calendar
    blob, sessionReq, grant, accounts, slip, admitted,    \* Session
    disk, known, creq, fate, composed,                    \* ComposeStaging
    kept, copy, body, puts,                               \* Settings
    subs, handle, alive, sender,                          \* PushStore
    mail, stage, forest, keys, roots, next                \* Threading

bookVars == <<book, used, edits, begun, bookReq>>
calVars == <<cal, told, heard, calExcuse, calCount, calReq>>
sessionVars == <<blob, sessionReq, grant, accounts, slip, admitted>>
stagingVars == <<disk, known, creq, fate, composed>>
settingsVars == <<kept, copy, body, puts>>
pushVars == <<subs, handle, alive, sender>>
threadVars == <<mail, stage, forest, keys, roots, next>>

MCListing ==
    << [name |-> "INBOX", use |-> ""], [name |-> "Trash", use |-> ""],
       [name |-> "Drafts", use |-> "Drafts"], [name |-> "Sent", use |-> ""],
       [name |-> "Spam", use |-> "Junk"] >>

MCMail ==
    <<Own, "INBOX">> :> <<m1>> @@ <<Other, "INBOX">> :> <<m2>>
       @@ <<Own, "Drafts">> :> <<d1>>

MCBookOf == p1 :> b1 @@ p2 :> b2 @@ p3 :> b1

MCKey == e1 :> k1 @@ e2 :> k1 @@ e3 :> k2

(* Lists of three messages: the second may repeat the id of the first, the *)
(* third may have none; they refer to each other before and after, in      *)
(* chains, and are replies or not, or without a subject.                   *)
MCMessages(ids, refLists, answered) ==
    [id : ids, refs : refLists, replyTo : {None}, subject : {"s"}, reply : BOOLEAN]
       \cup [id : ids, refs : {<<>>}, replyTo : {answered}, subject : {None},
             reply : {FALSE}]

MCLists ==
    {<<a, b, c>> : a \in MCMessages({1}, {<<>>, <<3>>, <<2, 1>>}, 2),
                   b \in MCMessages({1, 2}, {<<>>, <<3, 1>>}, 3),
                   c \in MCMessages({3, None}, {<<2>>, <<2, 1>>}, 1)}

AB == INSTANCE AddressBook WITH req <- bookReq

ASSUME BookAssumption ==
    /\ MaxEdits \in Nat /\ Start \subseteq Paths
    /\ None \notin AB!Card /\ None \notin AB!Contact
    /\ None \notin Requests /\ None \notin Paths /\ None \notin Groups

CA == INSTANCE Calendar
         WITH req <- calReq, excuse <- calExcuse, count <- calCount,
              MaxRequests <- MaxChanges

ASSUME CalendarAssumption ==
    /\ MaxVersions \in Nat /\ MaxChanges \in Nat
    /\ Slots \cap Meetings = {} /\ FormSlots \subseteq Slots
    /\ None \notin CA!Request /\ None \notin CA!Object

SE == INSTANCE Session WITH req <- sessionReq, MaxRequests <- MaxAdmitted

CS == INSTANCE ComposeStaging WITH MaxRequests <- MaxComposed

ST == INSTANCE Settings WITH Clients <- Requests, Names <- Titles

PS == INSTANCE PushStore

TH == INSTANCE Threading WITH known <- keys

ASSUME ThreadsAssumption ==
    /\ IsFiniteSet(Ids) /\ IsFiniteSet(Positions) /\ Positions \subseteq Nat
    /\ \A list \in Lists : list \in Seq(TH!Message) /\ DOMAIN list \subseteq Positions
    /\ None \notin Ids /\ None \notin Subjects /\ None \notin Positions
    /\ None \notin TH!Containers
    /\ None \notin [c : TH!Containers, reply : BOOLEAN]

Parts == {"mailbox", "book", "calendar", "session", "staging", "settings",
          "push", "threads"}

(* Two cards with one group, one of them with another as well; the other   *)
(* is perhaps the placeholder of the group.                                *)
MCBooks ==
    {[p \in Paths |-> CASE p = p1 -> one [] p = p2 -> two [] p = p3 -> None] :
        one \in [holder : {FALSE}, groups : {{g1}, {g1, g2}}, data : {0},
                 foreign : {TRUE}]
              \cup [holder : {TRUE}, groups : {{g1}}, data : {0}, foreign : {FALSE}],
        two \in [holder : {FALSE}, groups : {{g1, g2}}, data : {0}, foreign : {TRUE}]}

MCInit ==
    /\ part \in Parts
    /\ book \in MCBooks
    /\ part # "book" => book = CHOOSE b \in MCBooks : TRUE
    /\ part # "threads" => mail = CHOOSE l \in Lists : TRUE
    /\ Init /\ AB!Init /\ CA!Init /\ SE!Init /\ CS!Init /\ ST!Init /\ PS!Init
    /\ TH!Init

MCNext ==
    /\ UNCHANGED part
    /\ \/ part = "mailbox" /\ Next
       \/ part # "mailbox" /\ UNCHANGED vars
    /\ \/ part = "book" /\ AB!Next
       \/ part # "book" /\ UNCHANGED bookVars
    /\ \/ part = "calendar" /\ CA!Next
       \/ part # "calendar" /\ UNCHANGED calVars
    /\ \/ part = "session" /\ SE!Next
       \/ part # "session" /\ UNCHANGED sessionVars
    /\ \/ part = "staging" /\ CS!Next
       \/ part # "staging" /\ UNCHANGED stagingVars
    /\ \/ part = "settings" /\ ST!Next
       \/ part # "settings" /\ UNCHANGED settingsVars
    /\ \/ part = "push" /\ PS!Next
       \/ part # "push" /\ UNCHANGED pushVars
    /\ \/ part = "threads" /\ TH!Next
       \/ part # "threads" /\ UNCHANGED threadVars

MCSpec == MCInit /\ [][MCNext]_<<part, vars, bookVars, calVars, sessionVars,
                                 stagingVars, settingsVars, pushVars, threadVars>>

(* Requests are alike; two clients and two uploads are named like them.    *)
MCSymmetry == Permutations(Requests)

(* Every variable of every component has its type. *)
TypesOK ==
    /\ part = "mailbox" => TypeOK
    /\ part = "book" => AB!TypeOK
    /\ part = "calendar" => CA!TypeOK
    /\ part = "session" => SE!TypeOK
    /\ part = "staging" => CS!TypeOK
    /\ part = "settings" => ST!TypeOK
    /\ part = "push" => PS!TypeOK
    /\ part = "threads" => TH!TypeOK

(* The properties of the other components, stated in their modules.        *)

(* AddressBook: a card goes back to an older version only by a stale write.*)
OnlyStaleWritesUndo == AB!OnlyStaleWritesUndo

(* AddressBook: a group that was renamed is named so on every card.        *)
SuccessReachesAll == AB!SuccessReachesAll

(* Calendar: the organizer was told what the calendar shows.               *)
AnswersAgree == part = "calendar" => CA!AnswersAgree

(* Calendar: the invitees were told what the calendar shows.               *)
InviteesAgree == part = "calendar" => CA!InviteesAgree

(* Session: the stored refresh token is good.                              *)
TokenUsable == part = "session" => SE!TokenUsable

(* Session: a session is signed in by a login only.                        *)
OnlyALoginSignsIn == SE!OnlyALoginSignsIn

(* Session: the mailbox a session shows is the one it reads and sends with.*)
IdentityKept == SE!IdentityKept

(* Session: a connected account holds its own password.                    *)
EntriesAreRight == SE!EntriesAreRight

(* ComposeStaging: an uploaded attachment goes into one message.           *)
TokenOnce == part = "staging" => CS!TokenOnce

(* ComposeStaging: no upload disappears unaccounted for.                   *)
UploadAccounted == part = "staging" => CS!UploadAccounted

(* Settings: a repeated put stores no item twice.                          *)
RetriesStoreOnce == part = "settings" => ST!RetriesStoreOnce

(* PushStore: only a subscription that is gone is removed.                 *)
OnlyGoneIsRemoved == PS!OnlyGoneIsRemoved

(* Threading: no conversation contains itself.                             *)
NoCycle == part = "threads" => TH!NoCycle

(* Threading: a complete list is shown message by message.                 *)
CompleteListShownOnce == part = "threads" => TH!CompleteListShownOnce

=============================================================================
