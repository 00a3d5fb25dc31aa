# A formal model of lilmail

lilmail is a webmail server in one Go binary: a browser UI and a JSON API over
IMAP, SMTP, CalDAV and CardDAV, with a small amount of durable state of its
own. This directory models the parts of it that keep state across steps and
run concurrently, checks them with TLC on small instances and proves the main
results for all instances with TLAPS.

Paths below are relative to the repository root.

## 1. Inventory

For every component: its state, its operations, what it interacts with, what is
hard about it, and what makes it correct. Section 2 says which module models it.

**Scheduled send** (`handlers/jsonapi/schedule.go`, `schedule_store.go`).
State: records in the KV namespace `scheduled_sends`, one drain goroutine per
process. Operations: create (`POST /v1/messages` with `sendAt`), list, cancel,
patch; the drain's pass at boot and every 30 s, its retries, `Stop`. Uses the KV
seam and the SMTP client. Hard: the drain works on a snapshot while requests
edit the store; every operation is several KV calls; crashes between sending and
deleting; several processes on one postgres store. Correct: no accepted send is
lost silently, duplicates have a cause, a cancel is final, quota, horizons and
ownership hold, a due record does not stay due.

**KV seam** (`storage/kv.go`, `bolt.go`, `postgres.go`). Namespaced byte blobs;
Get, Set, Delete and List are atomic one by one, nothing is atomic across two.

**Session storage** (`storage/session.go`). One file per session under one
`RWMutex`. Hard: `Get` deletes an expired session while it holds the read lock,
and `Delete` takes the write lock. Correct: every call returns.

**Sessions and authentication** (`handlers/web/auth.go`, `oauth.go`,
`accounts.go`, `handlers/api/oauth.go`). State: one blob per session
(`authenticated`, `email`, `username`, `token`, `credentials`, `auth_type`,
`oauth_token`, `oauth_state`, `oauth_verifier`). Operations: password login,
demo login, OAuth start and callback, token refresh, account switch, logout.
All of them read the blob, talk to a server, and write the whole blob. Correct:
the identity shown and the mailbox opened belong together; a logout is final; a
callback consumes the state it was started with.

**Notification hub** (`handlers/web/notifications.go`, `handlers/api/idle.go`).
State: per user a list of subscriber channels and the stop channel of the
running IMAP watcher. Operations: Subscribe, Unsubscribe, Broadcast, the
watcher's life. Hard: the watcher's clean-up and the subscribers share the stop
channel; the broadcast sends outside the lock. Correct: no channel is closed
twice, a watcher runs iff somebody listens, a stopped watcher ends.

**Web Push** (`handlers/web/push.go`, `pushstore.go`, `vapid.go`). State: a bolt
file of subscriptions per user. Hard: removing a gone subscription while the
browser registers again under the same key.

**Mailbox operations** (`handlers/api/email.go`, `draft.go`, `folders.go`,
`client.go`; `handlers/web/email.go`; `handlers/jsonapi/messages.go`,
`folders.go`, `snooze.go`). State lives on the IMAP server, which other clients
change too. Operations: paged fetch, delete, move (MOVE or copy, mark, expunge),
flags, drafts, compose (send, record recipients, file in Sent, delete the
draft). Correct: a message is never lost by a move, a failed step does not
remove anything else's messages, a draft survives a failed save.

**Per-user bolt files** (`handlers/api/threadstore.go`, `recipients.go`). State:
`threads.db`, opened once and kept by the thread store, opened per call by the
recipients store, unlinked by logout. Hard: bbolt's exclusive file lock.

**Connected accounts and unified inbox** (`handlers/jsonapi/accounts*.go`,
`handlers/web/accounts.go`, `accountstore.go`, `unified.go`). State: account
entries per owner. Operations: add (quota 25), edit, delete, switch; the unified
fetch with a timeout per account. Correct: isolation, quota, a way back after a
switch, an answer in bounded time.

**Settings** (`handlers/jsonapi/settings*.go`). Vacation, signatures, identities
per owner; each PUT replaces a whole set. Correct: at most one default
signature; a sender is the owner or a registered identity.

**Compose attachments** (`handlers/jsonapi/compose_attachments.go`). State: a
`.bin` and a `.json` file per upload token. Operations: upload, resolve (reads
and consumes), sweep. Correct: a token is used at most once, an upload survives
until it was used or is 24 h old.

**Attachment cache** (`handlers/jsonapi/attachments.go`, `storage/object.go`).
Read-through cache in an object store, keyed by folder, uid and part. The parts
of a message never change. Correct: nothing depends on who filled it.

**Calendar** (`handlers/api/caldav*.go`, `itip.go`, `handlers/jsonapi/calendar.go`,
`handlers/web/calendar.go`). Events on a CalDAV server, rewritten by
unconditional PUTs; invitations answered by mail.

**Contacts and groups** (`handlers/api/contacts_dav.go`, `contact_vcard.go`,
`handlers/jsonapi/contacts*.go`). Cards on a CardDAV server; a group is a
category on its cards, renamed one PUT at a time.

**BIMI resolver** (`handlers/api/bimi.go`). Bounded cache with expiry, insertion
order and an in-flight set.

**Pure algorithms**: threading (`handlers/api/threading.go`), search queries
(`searchquery.go`), paging (`email.go`), ranking of recipients
(`recipients.go`), merging of busy slots (`caldav.go`).

**Stateless or textual**: broker, MIME building, HTML sanitising, unsubscribe and
authentication headers, AI calls, configuration, demo client, site generator.

## 2. Modules of the components, and the plan

| Module | Component | State of its own |
|---|---|---|
| `ScheduledSend`, `Outbox` | scheduled send and what it promises | KV records, drains, requests |
| `NotificationHub` | hub, stream writers, IMAP watchers | subscribers, stop channels, watchers |
| `PushStore` | Web Push subscriptions and senders | `push.db` and its cached handle |
| `Session` | login, OAuth, refresh, switch, logout | the session blob, account entries |
| `SessionStorage` | the session files | one file under Go's read-write mutex |
| `UserFiles` | per-user bolt and cache files | paths, handles, file locks, a mutex |
| `Mailbox` | everything that changes messages and folders | folders as sequences by UID |
| `ComposeStaging` | attachments of the compose window | two files per token |
| `Calendar` | events and invitations | objects on a CalDAV server, mail sent |
| `AddressBook` | contacts and groups | cards on a CardDAV server |
| `Settings` | signatures, identities, vacation responder | one value per kind |
| `ConnectedAccounts` | accounts under a quota, the unified inbox | KV records, fetches |
| `BimiCache` | brand logos | cache, insertion order, in-flight marks |
| `Threading` | the conversation list | the forest of containers |

`MCScheduledSend`, `MCNotificationHub` and `MCThreading` give instances of one
module; `MCRequests` and `MCServer` put several side by side (section 4).
The proofs are in modules of their own: `ScheduledSendProofs` (with the refinement
of `Outbox`), `NotificationHubProofs`, `MailboxProofs`, `SessionProofs`,
`GroupwareProofs` (calendar, contacts), `RequestsProofs` (staged attachments, settings,
push subscriptions), `ServerProofs` (user files, logos, connected accounts) and
`ThreadingProofs` (the conversation list). `RequestsProofs` extends those of the
other parts of `MCRequests`, and states the types of all of them.

Components that meet in the code meet in the model where their state does:
`UserFiles` and `PushStore` each contain the logout that unlinks their files,
`Session` the entries of the connected accounts of the web pages, `Mailbox` the
deliveries that compose makes, `ScheduledSend` its own SMTP client. Other
components share no state, and are not composed for composition's sake.

Every invariant that a passing run checks is a theorem too, and so is every
property of a step; what is left to TLC alone is liveness. What could come next are
components that are not modelled (section 6).

## 3. Modules

Everywhere a call to a store, a file, a mail server or a CalDAV or CardDAV
server is one step, and whatever runs side by side in the server may come in
between. What a mutex holds together is one step. `None` is what is not there.

### ScheduledSend

State and code:

| Variable | Code |
|---|---|
| `store` | KV namespace `scheduled_sends`, key `(account, id)` |
| `pc[n]`, `job[n]`, `batch[n]` | node `n`'s drain: where it is, the record `fire` works on, the rest of `listAllDue`'s result |
| `pc[h]`, `job[h]`, `req[h]` | a request: where it is, the record it read or built, its operation and account |
| `stopping[n]` | the `stop` channel is closed |
| `encKey[n]` | `config.Encryption.Key` of the process |
| `now` | `time.Now()` |
| `log` | history: what was answered and what the SMTP server saw |
| `spent` | the bounds on requests, faults and crashes |

A KV call is one step; a handler that makes two of them is two steps, and the
store may change in between. `Create` is `scheduleSend` up to `Put`; `CancelGet`
and `Delete` are the two calls of a cancel; `PatchGet` is the read and the edit
in memory of a patch. `PutGet`, `PutList` and `PutSet` are the three calls of
`scheduleStore.Put` and are used by requests and by the drain's retry alike.
`Poll`, `PassDone` and `Fire` are `drainDue` and the first half of `fire`;
`SmtpAccept`, `SmtpQuit` and `SmtpFail` are `SendRawMessage` as its caller can
tell its outcomes apart: refused, accepted, accepted but QUIT failed; that it never
returns is that none of these steps is taken. `Delete` in a drain is each of the deletions of `fire`. A KV call may fail (`KVFault`)
without effect; a crash (`Crash`) takes the drain and the node's requests with
it and `Boot` starts the process again, perhaps with a new key. `Crash` also
stands for an orderly shutdown: `main` reaches its deferred calls only through
`log.Fatal`, so nothing of them runs. `Stop` is modelled all the same, because
its contract (no KV call after it returns) is what callers rely on.

Abstractions: the message is `plain` or one `BuildMIMEMessage` refuses
(`Poison`); the instant of a record, its attempts, its key and its body are
kept; all other fields are payload. An id is fresh when no record ever had it.
`Reach` says whose keys an account's prefix or a hostile id can spell, so the
owner check of `Get` and `List` does work in the model. The list request
changes nothing and is left out. A 404, a 400 or a 409 changes nothing and is
left out. Corrupt records (`continue` in `List`) are not modelled: no step
writes one. A record without a secret (empty encryption key) behaves as one whose secret
decrypts. A nil sender does not occur with the default factory.

### Outbox

Messages that workers take in hand, deliver, miss, put back or remove. Taking
excludes nobody. A message leaves only when it was delivered, missed `Budget`
times or waived. `ScheduledSend!Implements` is the refinement; a worker's hand is
the record a request or a drain has in memory, with the rest of a drain's batch.

### NotificationHub

| Variable | Code |
|---|---|
| `subs[u]`, `stop[u]` | the user's `userState`; `stop` names the watcher that listens to the channel; `{}` and `None` when there is no entry |
| `closed` | the stop channels that were closed |
| `tab[t]`, `queue[t]` | the stream writer of a connection and its channel of 8 |
| `watch[w]` | a watcher goroutine: where it is, its user, the INBOX it opened, `prevCount`, a pending `MailboxUpdate`, the messages still to announce, the copied channels still to be offered the present one |
| `mail[u]` | the messages in the INBOX on the server |

What holds the hub's mutex is one step: `Subscribe`, `Unsubscribe`, the copy of
the subscribers (`Copy`) and the clean-up (`End`). Everything else interleaves:
each offer to a channel (`Send`), the dial, SELECT, updates and FETCH. A watcher
stops between two updates (`SeeStop`) or when its connection ends
(`Disconnect`). A connection learns that its browser is gone when it flushes an
event (`Receive`), and only then unsubscribes. `Release` is the return of the
request's context to fiber's pool, after which `Dial` may read the session of
another request, or panic (`DialPanics`): then the process and all it held is
gone, and a new one starts with an empty hub.

`Clog` is the updates channel of 16 that fills up during a FETCH: nobody reads
it then, the IMAP client's reader waits for room, and the watcher never gets the
answer (`stuck`).

Abstractions: an event is a count; the updates channel holds one report, the
number of messages at that time, and may clog during any FETCH; a FETCH returns
any part of what was asked for. The server may report at any time, and an error may end every call.
`Notifications.Idle` is on; desktop and push notifications are left out.

### PushStore

`subs` is what `push.db` holds under each key, `handle` whether `openDBs` has the
file open and whether its path still names it, `alive` what the push service
knows, `sender[s]` what a goroutine of `SendPush` has listed and not yet tried. A
key is an endpoint cut to 512 bytes, so two endpoints may share one. `SendGone`
deletes by key whatever is stored there by then. `Logout` is `clearUserCache`: it
unlinks the file, and an open handle goes on with a file nobody can reach after
the `Restart`. The VAPID keys and the payload are left out.

### Session

`blob` is the stored session, `req[r]` a request with its private copy of it. A
request is admitted (`SessionMiddleware` reads the blob and copies the user name),
reads the blob again, talks to a mail server or the OAuth provider, and saves the
whole copy: three steps between which other requests of the session do the same.
A switch opens the target before it reads the blob, and stores the way back
(`SwitchBack`, which may fail) before it saves it (`SwitchSave`). The way back is for
whatever address the blob shows, the demo's included, with whatever password it
holds: neither the demo login nor the OAuth callback clears the one before, which is
why `EntriesAreRight` speaks of sessions that a password login or a switch signed in.
No mail server has a demo address, so a switch to one is refused.
Each `Handle…` operator is the change one handler makes to its copy. Destroying a
blob leaves its id in use, so that a later save brings it back: this is what
`OnlyALoginSignsIn` delimits. `grant[u]` is the refresh token the provider
takes, `accounts` the entries of `accounts.db`. `Opens` and `Sends` say which
mailbox `CreateIMAPClient` and the SMTP path open for a blob. `username_is_email`
is on, its default. Rate limits, CSRF, PKCE and ciphers are left out.

### SessionStorage

One file and the callers of `Get`, `Set` and `Delete` under a `sync.RWMutex` as Go
implements it: a waiting writer keeps new readers out, an unlocking writer lets
the waiting ones in. A `Set` is a truncation and a write, so that a crash leaves
a file that cannot be read. A `Get` that finds an expired session goes on to
`Delete` with its read lock in hand (`upgrade`).

### UserFiles

`db` and `json` are what the paths name, `lock` who holds the lock of each file,
`threads` the cached handle, `mu` the mutex `threadStoresMu`. A page request takes
`mu` and keeps it while `bolt.Open` waits for the file lock; a send or a
suggestion opens the same file for one request; the wait ends after two seconds
(`LockTimeout`). Logout lists the folder and unlinks file by file.

### Mailbox

`box` has for each account and folder the items by UID; a UID is a position and
is not used again while the folder is there. A folder that is deleted and made
again numbers its messages from the start, and nothing in the code reads
UIDVALIDITY: a request that was under way may then name another message
(`Voided`). A request is a program of IMAP commands: `OnOk` and
`OnError` say which comes next, `Effect` what the server does, and `CommandOk`,
`CommandRefused` and `CommandFails` run one command. A command that fails may
have taken effect, or a MOVE half of it. `MoveMessage` falls back to copy, mark
and expunge after any error. `Enter` records that a request names a folder and a
UID while the list it was picked from may have shown another account's message
(the unified view); the client that serves it is the session's. `excuse` and
`moves` are history. Only `\Deleted` is kept of the flags, because it decides
what an expunge takes.

### ComposeStaging

`disk` has the ages of the `.bin` and `.json` file of each token, `creq` the
uploads (`bin`, `meta`) and compose requests (`read`, `consume`, `deliver`). A
compose request deletes a token's files as it reads them and delivers
afterwards; a refusal or a crash in between loses the upload. A file that cannot be
deleted stays and its token may be used again, since the error is dropped
(`Consume`). A logout removes the folder's files one by one (`LogoutStarts`, `WipeOne`,
`WipeEnds`): the staging directory is in the user's cache folder when usernames are
e-mail addresses, the default, and the account's other sessions lose their uploads
with it. `fate` is history.
Sending, scheduling and saving a draft use tokens alike.

### Calendar

`cal` has the object at each path, `told` the last answer each organizer got,
`heard` the version the invitees got. A handler is a chain of mail and CalDAV
steps (`Reply`, `Put`, `PutFails`, `SendInvites`, find and delete), in the order
of the code: a reply goes out before the calendar changes, invitations after it.
A PUT that is answered with an error may have taken effect (`PutFails`): the event is
stored then and no invitations are mailed.
Other clients write and remove objects. The content of an event is a version
number. The UID of a new event is its start for the JSON API and a name of its
own for the web form.

### AddressBook

`book` has the card at each path of two address books. A handler lists (a book
that does not answer is left out, as `listContacts` does), then writes whole cards
without a condition; `rewriteGroup` is one card of the loop. A request remembers
in `seen` what it listed, `stale` marks the cards somebody wrote since, `missed`
those it never saw.

### Settings

`kept` is the stored value of each kind, `copy` what a client last read, `body`
the request it may send again because the answer did not arrive.

### ConnectedAccounts

`stored` are the owner's records. `SaveGet`, `SaveList` and `SaveSet` are the three
calls of `save`; a `Get` that fails skips the quota, as in the code. A unified
list waits for the accounts of its own store and for the primary mailbox; a
connected account leaves the wait by its answer or by `Timeout`.

### BimiCache

`cacheGet` of the opener is part of `Open`, which is not atomic with `Mark`;
`cachePut` is one step with the eviction it makes. Lookup over DNS and HTTP
yields a logo or nothing.

### Threading

One step of `Link` is one message of the list, with its chain of references;
`Roots` forms the root set, in any order, since Go's maps have none; `Group` is
pruning and grouping by subject. Dates only order the result and are left out.
The loops over a chain, over the children of a container and over the roots are
recursive functions (`LinkedChain`, `PrunedChildren`, `GroupedRoots`), so that they
can be proved about. The lists are a constant: any set of finite sequences of
messages whose ids and positions are finitely many.

## 4. Runs

| Run | Shows | Time |
|---|---|---|
| `sched_safety` | one server, two accounts, three ids, a quota of one, three requests, one fault, crash or rotation: `NoSilentLoss`, `CopiesAccounted`, `QuotaOvershootBounded`, `OwnerIsolation`, `AtRestForGood` | 1 min |
| `sched_live` | one server, two accounts, one trouble, a stop, a key rotation, a content that cannot be built, a mail server that refuses or hangs: `TypeOK`, `DueRecordRetires` | 40 s |
| `sched_shared` | two servers on one store, one trouble: `Implements` | 45 s |
| `sched_cancel` | violation: a cancelled send fires | 1 s |
| `sched_oauth` | violation: an edit leaves the OAuth horizon | 1 s |
| `hub_watch` | one user, two tabs, two watchers, one message at a time, buffers of one: `TypeOK`, `NoDoubleClose`, `MarkIsLive`, `OrphansAccounted`, `LeaverStopsNobody`, `StoppedWatcherEnds` | 25 s |
| `hub_leak` | violation: the last tab leaves and a watcher goes on | 6 s |
| `hub_context` | violation: a watcher opens another user's INBOX | 1 s |
| `requests` | `MCRequests`: what requests change (eight components), see below | 2 min |
| `server` | `MCServer`: what requests wait for (four components), see below | 90 s |
| `threads_orphan` | violation: a reply whose parent is not listed is not shown | 1 s |
| `session_upgrade` | violation: a `Get` of an expired session never returns | 1 s |

`MCRequests` and `MCServer` check components that share no variable in one run
each; the constants of each component are constants of these modules, so that
what is proved of them is proved for all values: `part` is chosen in the initial state and says which component moves; the
others rest. The reachable states are the union, not the product, of those of
the components, and each property speaks about its own. `requests` checks

| Part | Instance | Properties |
|---|---|---|
| mailbox | two accounts, five folders (two found by special use, two by name), three messages, a label, two requests, one fault, one foreign mark | `NothingLost`, `CopiesBounded` |
| book | three paths in two books, two groups, two requests, one edit | `OnlyStaleWritesUndo`, `SuccessReachesAll` |
| calendar | an event of each kind, an invitation, three requests, PUTs whose answer is lost, one foreign change | `AnswersAgree`, `InviteesAgree` |
| session | two users, one on another server, the demo, four requests, two at a time, rotating refresh tokens | `OnlyALoginSignsIn`, `IdentityKept`, `EntriesAreRight`, `TokenUsable` |
| staging | two tokens, two compose requests or logouts, a sweep between ticks of the clock, crashes, files that cannot be deleted | `TokenOnce`, `UploadAccounted` |
| settings | two clients, three puts, lost answers | `RetriesStoreOnce` |
| push | three endpoints of which two share a key, two senders, logout, restart | `OnlyGoneIsRemoved` |
| threads | the lists of three messages that `MCLists` gives: repeated and missing ids, chains and cycles of references, replies, no subject | `NoCycle`, `CompleteListShownOnce` |

and `TypesOK` for all of them. `server` checks

| Part | Instance | Properties |
|---|---|---|
| session file | three callers | `StuckOnlyByUpgrade` |
| files | two requests of any kind, logout, restart; four files | `OnlyLogoutCutsOff`, `RequestEnds` |
| logos | three domains, two entries, one caller | `OrderIsTheCache`, `MarkIsTakenBack` |
| accounts | three addresses, a quota of one, one failing read, two requests | `QuotaOvershoot`, `UnifiedAnswers` |

Bounds. Three requests are the shortest history with a create, an edit and a
cancel, or with enough creates to overshoot a quota of one beyond the bound that
is claimed. Two attempts are the smallest budget with a retry. One trouble per
run lets every single fault or crash fall at every step. In `sched_live` the
records of two accounts wait for one drain, so that each may be behind one that
cannot be built, is refused or hangs. Two values of the clock separate due
from not due. Ids are symmetric, and are permuted in the run without liveness.
`sched_live` may stop (`scheduler.Stop`), so it does not check deadlock.
A tab starts at most one watcher, so two tabs need two; a watcher and its
successor are the smallest case of the shared stop channel. A buffer of one
fills with one event. An INBOX that goes from one message to none and back
makes every comparison of the counts come out each way. Users only meet in
`hub_context`.

In `requests`, two requests at a time are what any of these races needs: one
that has read or listed, and one that changes what it read. A third request in
the calendar and a third and fourth in the session allow a state that two
earlier ones left behind (an accepted invitation, a session of another kind) to
be worked on by two at once. One fault falls at every command. One message in
the folder moves twice, and meets what another client marked. Three paths leave
one free for a new card; two books let one not answer. Three messages are the
smallest list with a chain, a cycle, a merge of conversations and a repeated id
at once. In `server`, three callers are a reader, a waiting writer and one who
comes later; four files are more than two requests and the cached handle can
have open; three domains overflow a cache of two; a quota of one is overshot
with two requests and a failed read.

Fairness. A goroutine that can take a step eventually takes one: weak fairness
for the store calls of each process and for what a drain does between its dialogues
with mail servers (`Pass`), which stands for the Go scheduler and the poll ticker. A
process that died is started again (`Boot`). Nothing is assumed of requests, of
`Stop`, of the clock, or of a dialogue: `SendRawMessage` sets no deadline on the dial,
the TLS handshake or a command (`stmpClient.go:249-323`), and a server that stops
answering holds the only drain goroutine, and with it the scheduled sends of every
account. `DueRecordRetires` therefore supposes that no drain stays in one dialogue for
ever; without that TLC finds the hang at once. `schedule.go:47-49` calls the poll interval
a bound on the lateness of a send, which it is only as long as no server hangs. A watcher goroutine makes its next step
(weak fairness of `Run`): its calls to the mail server return, by an answer or
because TCP finds the peer dead, except for a FETCH whose answer is stuck behind
unread updates (`Clog`), which nothing ends. A closed stop
channel is not passed over for ever (strong fairness of `SeeStop`): Go's
`select` picks at random among ready cases. Browsers need not read, leave or
stay.

In `server`: a request that was entered makes its next step (`Step` of
`UserFiles` and `SessionStorage`; weak), and a mutex does not pass one waiter
over for ever (strong fairness of `LockStores` and `Acquire`; Go's mutexes hand
over to the longest waiter after a millisecond, and a read-write mutex blocks new
readers behind a waiting writer). A file lock that is held ends in `LockTimeout`,
as `bolt.Open` is called with two seconds. A warming goroutine runs, because every
network call of `resolveUncached` has a deadline. Timers fire and the merge runs; no
mail server owes an answer. `requests` states no fairness and no liveness.
`UserFiles` and `SessionStorage` let the process die at any time. Both runs may
come to rest when the bounds are used up or nothing is to be done, so neither
checks deadlock.

What the runs show. Scheduled send is at-least-once: a promised send leaves the
store only for a reason that `Settled` lists. With one drain every copy after
the first has a cause (`CopiesAccounted`); two drains on one store send twice
without any, which at-least-once permits. The quota can be overshot, since it is
checked and used in two calls, but by at most one record for each other writer
and one for each failed call. The two violations are disagreements of the code
with its own test and documentation. `PROJECT.json` quotes the lines of all six
findings.

The hub closes every stop channel at most once and only for the last tab, and a
stopped watcher ends whatever its tabs do, unless its updates clogged while it
fetched. But the clean-up of a watcher forgets
the stop channel of its successor (`hub_leak`): the successor becomes an orphan
that nobody can stop, and announces every message a second time once another
watcher is started. `OrphansAccounted` bounds the damage: each orphan costs the
end of another watcher. And the watcher uses the request's context after the
handler gave it back (`hub_context`), against the comment on `Subscribe`.

Mail. No move, delete, draft or send loses a message for a reason other than
those `NothingLost` names, but the list of these is long: an expunge takes what
others only marked, a draft is deleted before its new version is stored, and a
UID of the unified view names a different message in the session's mailbox. A
MOVE that took effect and answered with an error is followed by the fallback;
copies stay within one per move and failure, a MOVE by a request whose folder was
deleted and made again included.

Sessions. A request that was admitted before a logout may save its copy after it,
and the session is back (`OnlyALoginSignsIn` allows nothing else to do so). A
password login in a session of another kind leaves `auth_type` in place, and the
mailbox that is read is then not the one that is shown; `IdentityKept` lists that
with the other ways. A refresh token stays good unless a save fails or undoes
another. The session file's mutex stops for ever when a `Get` finds an expired
session (`session_upgrade`); `StuckOnlyByUpgrade` shows that nothing else does it.

Files. A request never waits for ever for `threads.db`: the file lock times out
and the mutex is released. But a handle that a logout cut off stays the cached
one for the life of the process.

Other stores. A card loses its newer fields only to a stale write, and a rename
that was answered as a success reaches every card that was listed and not
written meanwhile. Organizer and invitees are told what the calendar shows
unless `excuse` has the UID: overlapping requests, the web form, a step that
fails after the mail, a PUT that took effect although it was answered with an error,
another client. A token goes into one message unless two requests read it together
or its files could not be deleted; a logout takes the uploads that other sessions of
the account have not used yet. A signature is not stored twice by a repeated put. A
subscription is deleted only when it is gone, shares its key, or a logout
removed its file. The two quotas of the KV store are overshot alike.

Conversations. A complete list is shown once and without cycles in every order
of the roots. A reply whose parent is not listed is not shown at all
(`threads_orphan`): pruning promotes it and leaves its parent pointer, and the
grouping keeps table entries without a parent only.

## 5. Proofs

Every theorem below holds for all values of the constants that satisfy the named
assumptions of the modules: any number of accounts, users, tabs, watchers,
requests, folders, messages, tokens, meetings, any quota and any bound. TLC
checks the assumptions in each run. They say that what identifies one kind of
thing is not another (`None` is no record, nodes are not handlers, a meeting is
not one of the user's own events), that counted sets are finite, and that
numbers are natural.

| Theorem | Statement |
|---|---|
| **ScheduledSendProofs** | |
| `TypeCorrect` | `Spec => []TypeOK` |
| `NothingSilentlyLost` | `Spec => []NoSilentLoss` |
| `AccountsIsolated` | `Spec => []OwnerIsolation` |
| `QuotaNearlyKept` | `Spec => []QuotaOvershootBounded` |
| `RestIsFinal` | `Spec => AtRestForGood` |
| `CopiesAreAccounted` | `Spec => []CopiesAccounted` |
| `OutboxImplemented` | `Spec => Implements`: the program implements `Outbox` |
| **NotificationHubProofs** | |
| `HubInvariant`, `TypeCorrect` | `Spec => []HubInv`, `Spec => []TypeOK` |
| `NeverClosedTwice` | `Spec => []NoDoubleClose` |
| `MarksAreLive` | `Spec => []MarkIsLive` |
| `LeaversStopNobody` | `Spec => LeaverStopsNobody` |
| `OrphansAreAccounted` | `Spec => []OrphansAccounted` |
| **MailboxProofs** | |
| `NothingIsLost` | `Spec => []NothingLost` |
| `CopiesAreBounded` | `Spec => []CopiesBounded` |
| **SessionProofs** | |
| `TokensUsable` | `MCSpec => []TokenUsable` |
| `OnlyLoginsSignIn` | `MCSpec => OnlyALoginSignsIn` |
| `IdentitiesKept` | `MCSpec => IdentityKept` |
| `EntriesRight` | `MCSpec => EntriesAreRight` |
| **GroupwareProofs** | |
| `OrganizersAgree` | `MCSpec => []AnswersAgree` |
| `InviteesInformed` | `MCSpec => []InviteesAgree` |
| `StaleWritesUndo` | `MCSpec => OnlyStaleWritesUndo` |
| `SuccessesReachAll` | `MCSpec => SuccessReachesAll` |
| **RequestsProofs** | |
| `AttachedOnce` | `MCSpec => []TokenOnce` |
| `UploadsAccounted` | `MCSpec => []UploadAccounted` |
| `RetriesStored` | `MCSpec => []RetriesStoreOnce` |
| `OnlyGoneRemoved` | `MCSpec => OnlyGoneIsRemoved` |
| `TypesCorrect` | `MCSpec => []TypesOK` of `MCRequests` |
| **ServerProofs** | |
| `FilesInvariant`, `CutOffByLogout` | `Spec => []FilesInv`, `Spec => []OnlyLogoutCutsOff` |
| `MutexNotLeftBehind` | the mutex of the thread stores is held by a request that opens one only |
| `LocksAreHeld` | a locked file is the cached one or one a request uses |
| `QuotaNotOutgrown` | `MCSpec => []QuotaOvershoot` |
| `OrderListsTheCache` | `MCSpec => []OrderIsTheCache`, and the cache keeps its bound |
| `TypesCorrect` | `MCSpec => []TypesOK` of `MCServer` |
| `ComponentsComposed` | `MCSpec` implements the specification of each part |
| **ThreadingProofs** | |
| `ThreadsAreTrees` | `MCSpec => []NoCycle` |
| `CompleteListIsShown` | `MCSpec => []CompleteListShownOnce` |

`MCSpec` is the specification of the runs `requests` and `server`. Its parts share
no variable, so each is proved alone and carried over: a step of `MCSpec` is a
step of the part or leaves it as it was (`SessionAlone`, `CalendarAlone`,
`ContactsAlone`, `PartsComposed`, `SettingsAlone`, `PushAlone`,
`ComponentsComposed`).

**Scheduled send.** `NoSilentLoss` is not inductive. A drain deletes a record it
read some time ago, and may by then hold another version than the store does;
that a reason exists cannot be seen from the store. `SafetyInv` adds that
everything a drain knows of a record is backed by its history (`StoreKnown`,
`BatchKnown`, `DrainKnown`: it was promised, it counted no more attempts than
failed, and it admits to a content that cannot be built), that requests hold
records of the key's owner (`HandlerKnown`), and that a drain about to delete
has a reason (`DropReason`). The crux is that histories only grow, so a copy made
earlier stays backed. `QuotaOvershootBounded` needs `ClaimBounded`, which counts
records that are stored or past their quota check: only one writer at a time
can turn the last free place into a claim, so the claims exceed the quota by at
most the other writers. `OwnerIsolation` and `RestIsFinal` follow from typing,
the store's ownership and the freshness of ids.

`CopiesAccounted` compares the copies sent with what was lost (an acceptance
whose record stayed: a failed QUIT or delete, a crash) and edited. `CopiesInv`
says where one more copy can still come from while there is one drain: the
stored record, the one in a batch, the one a request is about to store; each
was paid for by an entry of the history before it could be sent (`CopiesPaid`),
and a batch has a key once (`BatchOnce`). A patch may put a record back after it
was sent, which is the edit that pays.

`OutboxImplemented` takes a worker's hand to be the record of a request or drain
together with the rest of a batch. Each action of `ScheduledSend` is a step of
`Outbox` (take, deliver, miss, put back, remove) or leaves it as it is; that a
removal has a reason is `SafetyInv` again, and that a drain out of a pass has
nothing in hand is `BatchIdle`.

**Hub.** `NoDoubleClose` needs `MarkIsLive`: closing one user's channel must not
close another's, and it does not because the watcher in an entry belongs to that
user. A watcher that has not started has an open channel (`WatcherOK`), or a new
entry could hold a closed one. Types need that a watcher with an open INBOX has
one (`box`) and that one that announces has something left (`todo`).
`OrphansAccounted` is a count: an orphan is made only by the clean-up of another
watcher, which has ended then, and a watcher is in the hub's entry, an orphan or
ended, so that each step moves one watcher at most.

**Mailbox.** `NothingLost` says that a message is somewhere. `MailInv` says where:
at a UID, unmarked, and no request that already copied that message is about to
mark it (`KeptInv`), or in the hand of a request that is saving it. That stays
true because a UID names no other message while its folder is there (`UidsInv`),
so a copy never lands at a UID that a request is going to mark. The attempt to
prove this without `Voided` failed for a good reason: a folder that is deleted
and made again gives an old UID to a new message, and a move under way expunges
that one. The model was corrected and the exception is now named in `NothingLost`.

`CopiesBounded` speaks of a mailbox at rest; `CountInv` says of each text what is
owed before that (`Good`): its messages, those that are *loose* (unmarked, and no
request is about to mark them), and the requests that still have to move or unmark
it. While all requests that came are still owed, only failed commands have copied
it; a request that is done may have left one more loose message, a command that
fails one more of any kind. Copying makes one loose message and dooms its source in
the same step, which is why the mark has to follow (`OnOkUnmarked` is the mutant).
That what is copied is what was counted needs `MeantInv`: at a UID a move or flag
names is what it meant, or nothing any more. It holds because of `Voided`; a
request whose folder was deleted is counted when it hits a message instead. There
too the proof attempt found a gap: of such requests only copies and unmarkings were
counted, but a MOVE of a message that another request has copied and is about to
mark leaves two. `moves` counts these MOVEs now. `FoldersAssumption` says that the
messages at the start have different texts, which is how a text names a message.

**Session.** A request saves a copy of the whole session, read some steps before.
`SessionInv` says what it still knows at that time: if nobody saved in between,
its copy is the session (`AgeInv`); an address is shown only by a session that a
login signed in (`ShownInv`); and a refresh token has a generation no later than
the provider's, which at most one request is waiting to replace (`GrantInv`).
The action properties follow step by step, by looking at what each handler does
to its copy.

**Calendar.** Organizer and invitees are compared with the calendar when no
request is under way, so the invariant has to say what a request owes in
between. A request that has its UID to itself (`clean`) promises: the answer it
sent is the one it is about to store or to make true by a removal (`AnswerInv`),
and the object it is about to send is the stored one or was removed
(`InviteInv`). Two facts keep requests for different UIDs apart: event numbers
are given once (`EventsInv`), and what a request may write, and where, depends on
its label (`ShapesInv`). A request that met another one promises nothing and
leaves an excuse (`UncleanPromises`).

**Contacts.** Both properties speak of one step, but whether that step is right
depends on a listing made some steps before. `BookInv` says what a listing is
still worth (`FitsInv`): of a card nobody wrote since, it shows what is there; and
of a rewrite, a card that is not before it any more does not carry the old name,
unless it was written meanwhile or could not be reached. A write tells every
request that has listed the card that its listing is old, so each fact concerns
one request and the one card that is written (`WriteKeeps`). Versions only grow
(`CardsInv`), so an edit never lowers one, and a path that was used is not used
for a new card (`FreshRight`). `SuccessReachesAll` is `FitsInv` with nothing left
to rewrite.

**Attachments.** Where a token is: on disk, with the requests that hold it, or in
messages, and in one of these only unless two requests shared it (`OnceInv`).
`KnownInv` and `UploadsInv` say that a token is known only after its upload was
complete, so that a read never meets half of one unless a sweep, another reader or a
logout has begun to remove it, which `fate` tells. **Settings**: two items of a
stored set, of a client's copy and of a body under way never have the same name
(`DistinctInv`); a body is repeated as it was, and only the server gives numbers.
**Push**: a key holds one endpoint, and a sender deletes what it listed.

**Files.** `FilesInv` ties the mutex to the request that opens the thread store
(`MutexInv`), each lock to the handle it was taken with (`LocksInv`), and a handle
to the path or to a logout (`OnlyLogoutCutsOff`); a counting argument shows that a
file that is not in use is always left. **Quota of accounts**: `ClaimsInv` counts
stored and claimed entries as for scheduled send. **Logos**: the order lists the
cached domains, each once (`LogosInv`), as the list of an eviction or an insertion
does.

**Conversations.** What the code loops over is a recursive function in the model, and
an induction theorem cannot be used. Two lemmas take its place: a function that
gives each next value exists (`Recursion`), and a set that has 0 and with each
number the next has all (`Steps`). With them each loop is described once, by an
invariant of its steps (`LinkedChainGrows`, `FlattenIs`, `GroupedRootsIs`, `BelowIs`).
That there is no cycle is said without walks (`Acyclic`: every set of containers has
one whose parent is outside it), and implies that a walk ends within the number of
containers (`UpEnds`). Linking looks for an ancestor before it links. Grouping does not,
and gives a new parent to roots that may still have one, as pruning leaves parents
in place: it makes no cycle because what is below the containers that pruning leaves at
the top stays apart (`PrunedParted`), so that none of them is above another (`Free`),
and of those that were visited only the ones in the table are merged again. `ThreadsInv` carries that from step to step.

`CompleteListShownOnce` needs `CompleteInv`: if every id that is named belongs to a message
of the list, then after linking each linked container has a message (`Trees`), the
first one of its id, and the roots are the containers with a message and no parent
(`Gathered`). So pruning changes nothing (`PrunedSame`), and while the roots are
grouped the table has, of those visited, the ones that have a subject and no
parent (`Settled`), which is why the list that is collected in the end has all of
them. In a forest a container is below one root in one place (`GatheredShows`). Where a
named message is missing, pruning promotes replies that keep their parent, and the
facts about the table fail: that is what `threads_orphan` shows.

**Types.** `TypesOK` says of the parts side by side that every variable has the shape
its handlers read it by, and that no counter passes its bound. Shapes follow from
what a request holds at each label. Bounds need more: that a counter is at its bound
only when there is nothing left that can raise it. In the calendar and the session
each request adds to a counter once (`CalendarBounds`, `SessionTyped`), the list of
conversations is made of the messages it was given (`ListTypes`). In the mailbox
`MovesInv` says of each text that every request to move counts at most three times,
less what it still has before it: when it comes, when its MOVE takes effect and when
its COPY does. `TypeOK` of `Mailbox` had two for each request; the proof of that failed
for a good reason, as a request may do all of it, and the bound is three now; no state
of the small instance passes two.

Only model-checked is liveness (`DueRecordRetires`, `StoppedWatcherEnds`, `RequestEnds`,
`StuckOnlyByUpgrade`, `MarkIsTakenBack`, `UnifiedAnswers`), which is beyond the
prover.

## 6. Not modelled

Whole components: the attachment cache (immutable parts, no step depends on
another's), the search query parser, MIME building and sanitising (text), the
broker and the AI assistant (stateless), the site generator, scripts and assets.
Of configuration and wiring only the start order is used. The demo client is its
mailbox in `Session`; the sample data is not.

Within the modelled ones: the wording of answers, JSON, MIME, iCalendar and
vCard text; encryption; KV calls that fail after taking effect; desktop
notifications; flags other than `\Deleted`; listings, search and export; the
validation of addresses and the one-default rule of signatures; the records in
the bolt buckets; the VAPID keys.

Read while modelling and left without a property: messages deleted on the server
stay in the stored union of a thread (`threadstore.go:115-155`); both INBOXes of the
unified view are threaded under one key although their UIDs overlap; nothing
processes the REPLYs that `caldav.go:245` speaks of, and deleting a meeting sends
no CANCEL; a window never learns the UID of a draft it saved, so every save
appends another one; a contact updated without its path is written to the first
address book; the primary mailbox has no timeout in the unified list;
notifications need an open tab, whatever the comment at `notifications.go:160` says.
