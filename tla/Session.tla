------------------------------ MODULE Session ------------------------------
(***************************************************************************)
(* One browser session: handlers/web/auth.go, oauth.go and accounts.go     *)
(* over api/auth.go, api/oauth.go and web/accountstore.go.                 *)
(*                                                                         *)
(* A request is admitted by SessionMiddleware (which copies the user name  *)
(* into the request), reads a private copy of the session blob, talks to   *)
(* the mail server or the OAuth provider, and saves the whole copy.        *)
(* Requests of the same session do this side by side, with no condition on *)
(* the blob they overwrite.  Destroying the blob leaves its id in use: a   *)
(* request that read it before saves it again under the same id.           *)
(*                                                                         *)
(* User names are e-mail addresses ([server] username_is_email, the        *)
(* default).  A password is named by the mailbox it opens.                 *)
(***************************************************************************)
EXTENDS Integers

CONSTANTS
    Users,       \* mailboxes
    Home,        \* those on the configured mail server
    Demo,        \* the demo mailbox
    Requests,
    Rotates,     \* the provider replaces a refresh token when it is used
    MaxGrants,   \* bound on the refresh tokens of a user
    MaxRequests, \* bound on the requests admitted
    None

VARIABLES
    blob,      \* the stored session
    req,       \* the requests
    grant,     \* the provider: the refresh token of each user that is good
    accounts,  \* AccountStore: the entry of an owner for an address
    slip,      \* a refreshed token was not saved, or a save undid another
    admitted   \* requests so far

vars == <<blob, req, grant, accounts, slip, admitted>>

Mailboxes == Users \cup {Demo}

Token == [user : Users, gen : 1..MaxGrants]

Blob == [auth : BOOLEAN,
         email : Mailboxes \cup {None},   \* also username, and in the token
         creds : Users \cup {None},       \* whose password
         kind : {"none", "demo", "oauth2"},
         tok : Token \cup {None},
         state : BOOLEAN]                 \* an OAuth login is under way

Empty == [auth |-> FALSE, email |-> None, creds |-> None, kind |-> "none",
          tok |-> None, state |-> FALSE]

Entry == [password : Users, atHome : BOOLEAN]

Ops == {"login", "demo", "oauth", "callback", "logout", "open", "switch"}

(* The routes behind SessionMiddleware. *)
Protected == {"logout", "open", "switch"}

(* The handlers that establish a session for whoever calls them. *)
Logins == {"login", "demo", "callback"}

(* The handlers that are given an address. *)
Named == {"login", "callback", "switch"}

Request == [pc : {"idle", "read", "net", "save", "commit"}, op : Ops,
            arg : Users \cup {None},
            owner : Mailboxes \cup {None},   \* Locals("username")
            copy : Blob,
            old : BOOLEAN,     \* the blob changed since it was admitted
            stale : BOOLEAN]   \* the blob changed since it was read

TypeOK ==
    /\ blob \in Blob
    /\ DOMAIN req = Requests
    /\ \A r \in Requests : req[r].pc # "idle" => req[r] \in Request
    /\ grant \in [Users -> 1..MaxGrants]
    /\ accounts \in [Mailboxes \X Mailboxes -> Entry \cup {None}]
    /\ slip \in BOOLEAN
    /\ admitted \in 0..MaxRequests

Idle == [pc |-> "idle"]

Init ==
    /\ blob = Empty
    /\ req = [r \in Requests |-> Idle]
    /\ grant = [u \in Users |-> 1]
    /\ accounts = [k \in Mailboxes \X Mailboxes |-> None]
    /\ slip = FALSE
    /\ admitted = 0

At(r, op, pc) == req[r].pc = pc /\ req[r].op = op

Goto(r, pc) == req' = [req EXCEPT ![r].pc = pc]

Done(r) == req' = [req EXCEPT ![r] = Idle]

(* Session.Save and Session.Destroy: the blob is replaced whatever it is   *)
(* now, and every other request works on an old one.                       *)
Replace(r, b) ==
    /\ blob' = b
    /\ req' = [q \in Requests |->
                  IF q = r \/ req[q].pc = "idle" THEN
                      IF q = r THEN Idle ELSE req[q]
                  ELSE [req[q] EXCEPT !.old = TRUE,
                                      !.stale = req[q].pc # "read"]]

(* CreateIMAPClient: the mailbox a blob opens.  The provider vouches for a *)
(* token's own user only, and the configured server has no other users.    *)
Opens(b) ==
    CASE b.kind = "demo" -> Demo
      [] b.kind = "oauth2" ->
             IF b.tok # None /\ b.tok.user = b.email THEN b.email ELSE None
      [] OTHER -> IF b.creds \in Home THEN b.creds ELSE None

(* CreateSMTPClient: the mailbox mail is sent with.  It has no demo case.  *)
Sends(b) ==
    IF b.kind = "oauth2" THEN Opens(b) ELSE IF b.creds \in Home THEN b.creds ELSE None

Counted == admitted < MaxRequests /\ admitted' = admitted + 1

Admit(r) ==
    /\ req[r].pc = "idle"
    /\ Counted
    /\ \E op \in Ops, u \in Users \cup {None} :
          /\ op \in Protected => blob.auth
          /\ (u = None) = (op \notin Named)
          /\ req' = [req EXCEPT ![r] =
                       [pc |-> IF op = "switch" THEN "net" ELSE "read",
                        op |-> op, arg |-> u, owner |-> blob.email,
                        copy |-> Empty, old |-> FALSE, stale |-> FALSE]]
    /\ UNCHANGED <<blob, grant, accounts, slip>>

(* store.Get: a private copy. *)
Read(r) ==
    /\ req[r].pc = "read"
    /\ req' = [req EXCEPT ![r].copy = blob, ![r].pc = "save",
                          ![r].stale = FALSE]
    /\ UNCHANGED <<blob, grant, accounts, slip>>

(* The mail server refuses, or a step before the save fails. *)
Refuse(r) ==
    /\ req[r].pc \in {"net", "save", "commit"}
    /\ req[r].op # "open"
    /\ Done(r)
    /\ UNCHANGED <<blob, grant, accounts, slip>>

(* Every establishing save writes these fields and keeps the others. *)
SignedIn(b, u) == [b EXCEPT !.auth = TRUE, !.email = u]

Overwrites(r) == slip' = (slip \/ req[r].stale)

HandleLogin(r) ==
    /\ At(r, "login", "save")
    /\ req[r].arg \in Home
    /\ Replace(r, [SignedIn(req[r].copy, req[r].arg)
                     EXCEPT !.creds = req[r].arg])
    /\ Overwrites(r)
    /\ UNCHANGED <<grant, accounts>>

HandleDemoLogin(r) ==
    /\ At(r, "demo", "save")
    /\ Replace(r, [SignedIn(req[r].copy, Demo) EXCEPT !.kind = "demo"])
    /\ Overwrites(r)
    /\ UNCHANGED <<grant, accounts>>

(* A start of the flow that already signs in. *)
OAuthLoginSignsIn(r) ==
    /\ At(r, "oauth", "save")
    /\ Replace(r, [req[r].copy EXCEPT !.state = TRUE, !.auth = TRUE])
    /\ Overwrites(r)
    /\ UNCHANGED <<grant, accounts>>

HandleOAuthLogin(r) ==
    /\ At(r, "oauth", "save")
    /\ Replace(r, [req[r].copy EXCEPT !.state = TRUE])
    /\ Overwrites(r)
    /\ UNCHANGED <<grant, accounts>>

(* The token for the code: of the user who signed in at the provider, with *)
(* the refresh token that is good.                                         *)
Issued(u) == [user |-> u, gen |-> grant[u]]

(* The state is compared in the copy and cleared by the save. *)
HandleOAuthCallback(r) ==
    /\ At(r, "callback", "save")
    /\ req[r].copy.state
    /\ req[r].arg \in Home
    /\ LET u == req[r].arg IN
       Replace(r, [SignedIn(req[r].copy, u)
                     EXCEPT !.state = FALSE, !.kind = "oauth2",
                            !.tok = Issued(u)])
    /\ Overwrites(r)
    /\ UNCHANGED <<grant, accounts>>

(* Destroy deletes the file and ignores what the copy holds. *)
HandleLogout(r) ==
    /\ At(r, "logout", "save")
    /\ Replace(r, Empty)
    /\ UNCHANGED <<grant, accounts, slip>>

(* An IMAP, SMTP or CalDAV client without a refresh only reads. *)
UseClient(r) ==
    /\ At(r, "open", "save")
    /\ Done(r)
    /\ UNCHANGED <<blob, grant, accounts, slip>>

(* validOAuthToken: an expired token is refreshed at the provider ...      *)
Refresh(r) ==
    /\ At(r, "open", "save")
    /\ LET t == req[r].copy.tok IN
       /\ req[r].copy.kind = "oauth2" /\ t # None
       /\ grant[t.user] = t.gen
       /\ LET g == IF Rotates THEN t.gen + 1 ELSE t.gen IN
          /\ g <= MaxGrants
          /\ grant' = [grant EXCEPT ![t.user] = g]
          /\ req' = [req EXCEPT ![r].copy.tok.gen = g, ![r].pc = "net"]
    /\ UNCHANGED <<blob, accounts, slip>>

(* A refresh that gives the old refresh token back. *)
SaveOldToken(r) ==
    /\ At(r, "open", "net")
    /\ Replace(r, [req[r].copy EXCEPT !.tok.gen = 1])
    /\ Overwrites(r)
    /\ UNCHANGED <<grant, accounts>>

(* ... and the blob read before is saved with the new one; an error of the *)
(* save is ignored.                                                        *)
SaveRefreshed(r) ==
    /\ At(r, "open", "net")
    /\ \/ /\ Replace(r, req[r].copy)
          /\ Overwrites(r)
       \/ /\ Done(r)
          /\ slip' = TRUE
          /\ UNCHANGED blob
    /\ UNCHANGED <<grant, accounts>>

(* HandleAddAccount and HandleDeleteAccount work on the owner's bucket;    *)
(* the address was opened on the server the request names.                 *)
AddAccount ==
    /\ blob.auth /\ Counted
    /\ \E u \in Users :
          accounts' = [accounts EXCEPT ![<<blob.email, u>>] =
                          [password |-> u, atHome |-> u \in Home]]
    /\ UNCHANGED <<blob, req, grant, slip>>

DeleteAccount ==
    /\ blob.auth /\ Counted
    /\ \E u \in Mailboxes :
          accounts' = [accounts EXCEPT ![<<blob.email, u>>] = None]
    /\ UNCHANGED <<blob, req, grant, slip>>

(* CreateIMAPClientForAccount: the entry opens the address it is for.      *)
Reaches(e, u) == e.password = u /\ e.atHome = (u \in Home)

(* HandleSwitchAccount lists the owner's accounts and opens the target: no *)
(* mail server has a demo address, so a switch to it ends here.            *)
SwitchOpen(r) ==
    /\ At(r, "switch", "net")
    /\ LET e == accounts[req[r].owner, req[r].arg] IN
       /\ e # None
       /\ Reaches(e, req[r].arg)
    /\ Goto(r, "read")
    /\ UNCHANGED <<blob, grant, accounts, slip>>

(* The way back stored with the password of the target. *)
BackEntryOfTarget(b) ==
    [password |-> CHOOSE u \in Users : u # b.email, atHome |-> TRUE]

(* The way back: the session's address with the password in its blob,      *)
(* at the configured server, whichever server that address is on.          *)
BackEntry(b) == [password |-> b.creds, atHome |-> TRUE]

(* ... then stores the way back under the target's name: whatever address  *)
(* the copy shows, with whatever password it holds.  A failure is logged.  *)
SwitchBack(r) ==
    /\ At(r, "switch", "save")
    /\ \/ LET b == req[r].copy IN
          /\ b.email # None /\ b.creds # None
          /\ accounts' = [accounts EXCEPT ![<<req[r].arg, b.email>>] =
                             BackEntry(b)]
       \/ UNCHANGED accounts
    /\ Goto(r, "commit")
    /\ UNCHANGED <<blob, grant, slip>>

(* A switch that keeps the kind of the session it replaces. *)
SwitchKeepsKind(r) ==
    /\ At(r, "switch", "commit")
    /\ Replace(r, [SignedIn(req[r].copy, req[r].arg)
                     EXCEPT !.creds = req[r].arg])
    /\ Overwrites(r)
    /\ UNCHANGED <<grant, accounts>>

(* ... and saves the blob with the target's identity. *)
SwitchSave(r) ==
    /\ At(r, "switch", "commit")
    /\ Replace(r, [SignedIn(req[r].copy, req[r].arg)
                     EXCEPT !.creds = req[r].arg, !.kind = "none",
                            !.tok = None])
    /\ Overwrites(r)
    /\ UNCHANGED <<grant, accounts>>

Work ==
    \E r \in Requests :
          \/ Read(r) \/ Refuse(r)
          \/ HandleLogin(r) \/ HandleDemoLogin(r)
          \/ HandleOAuthLogin(r) \/ HandleOAuthCallback(r)
          \/ HandleLogout(r)
          \/ UseClient(r) \/ Refresh(r) \/ SaveRefreshed(r)
          \/ SwitchOpen(r) \/ SwitchBack(r) \/ SwitchSave(r)

Next ==
    \/ \E r \in Requests : Admit(r)
    \/ AddAccount
    \/ DeleteAccount
    \/ Work /\ UNCHANGED admitted

Spec == Init /\ [][Next]_vars

Saves(r, ops) == req[r].pc \in {"save", "net", "commit"} /\ req[r].op \in ops
                    /\ req'[r].pc = "idle"

(* A session that was signed out is signed in again only by a login, or by *)
(* a request that was admitted before: a token refresh, a switch or the    *)
(* start of an OAuth login that saves what it read while signed in.        *)
OnlyALoginSignsIn ==
    [][~blob.auth /\ blob'.auth =>
          \E r \in Requests : Saves(r, Logins) \/ (Saves(r, Ops) /\ req[r].old)
      ]_vars

(* "replaces the session credentials with those of the requested account"  *)
(* (accounts.go:202): but the clients go on to the configured servers, and *)
(* an account elsewhere opens no mailbox.                                  *)
Elsewhere(r) == req[r].op = "switch" /\ req[r].arg \notin Home

(* Mail is read from and sent with the mailbox the session shows. *)
Consistent(b) ==
    b.auth => /\ Opens(b) = b.email
              /\ Sends(b) = (IF b.kind = "demo" THEN None ELSE b.email)

(* A consistent session stays so, except when the login form or the demo   *)
(* login is used in a session that holds another kind of credentials       *)
(* (they clear neither auth_type, oauth_token nor credentials), when the   *)
(* session switches to an account on another server, or when a request     *)
(* saves the copy of an inconsistent session.                              *)
IdentityKept ==
    [][Consistent(blob) => \/ Consistent(blob')
                           \/ \E r \in Requests :
                                 \/ /\ Saves(r, {"login"})
                                    /\ req[r].copy.kind # "none"
                                 \/ /\ Saves(r, {"demo"})
                                    /\ \/ req[r].copy.kind # "none"
                                       \/ req[r].copy.creds # None
                                 \/ /\ Saves(r, Ops)
                                    /\ \/ ~Consistent(req[r].copy)
                                       \/ Elsewhere(r)]_vars

(* The way back is being stored. *)
StoresBack(r) == At(r, "switch", "save") /\ req'[r].pc = "commit"

(* A connected account holds the password of its own address, so that one  *)
(* can switch back.  What breaks it is a switch out of an inconsistent     *)
(* session, or out of a demo or an OAuth session: neither login clears the *)
(* password of the login before it, and the switch stores that one.        *)
EntriesAreRight ==
    [][\A k \in Mailboxes \X Mailboxes :
          accounts'[k] \in {accounts[k], None} \/
          accounts'[k].password = k[2] \/
          \E r \in Requests :
             StoresBack(r) /\ (~Consistent(req[r].copy)
                                   \/ req[r].copy.kind # "none")]_vars

(* The stored refresh token is one the provider takes, or the request that *)
(* replaced it is about to save: it is lost only when a save fails or when *)
(* a save undoes another.                                                  *)
TokenUsable ==
    blob.tok # None /\ ~slip =>
        \/ blob.tok.gen = grant[blob.tok.user]
        \/ \E r \in Requests : At(r, "open", "net")
                                   /\ req[r].copy.tok.user = blob.tok.user

=============================================================================
