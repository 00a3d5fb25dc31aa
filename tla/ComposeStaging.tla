--------------------------- MODULE ComposeStaging ---------------------------
(***************************************************************************)
(* Staged compose attachments of one account                               *)
(* (handlers/jsonapi/compose_attachments.go, messages.go): an upload       *)
(* writes <token>.bin and then <token>.json and answers with the token; a  *)
(* send, a scheduled send or a draft reads the pair of each token it       *)
(* names, deletes it, and only then finds out whether it may and can       *)
(* deliver.  The directory lies in the user's cache folder, which a logout *)
(* empties (handlers/web/auth.go) when usernames are e-mail addresses.     *)
(* Each file operation is a step: requests overlap, and the process may    *)
(* die between two.  A token is named by its upload.                       *)
(***************************************************************************)
EXTENDS Naturals, Sequences

CONSTANTS
    Tokens,         \* uploads, by the token each would get
    Requests,
    TTL,            \* stagedTTL in ticks of the clock
    MaxRequests,    \* bound on the compose requests and logouts
    None

VARIABLES
    disk,       \* [bin, meta: the age of each token's file, or None]
    known,      \* tokens that were handed out
    creq,       \* the requests under way
    fate,       \* history of the tokens: how often each was used; shared
                \* with another reader, or still there after it was taken;
                \* lost with a request; aged; wiped by a logout
    composed    \* compose requests and logouts so far

svars == <<disk, known, creq, fate, composed>>

Ages == 0..(TTL + 1)

TypeOK ==
    /\ disk \in [bin : [Tokens -> Ages \cup {None}],
                 meta : [Tokens -> Ages \cup {None}]]
    /\ known \subseteq Tokens
    /\ \A r \in Requests : creq[r] # None =>
          /\ creq[r].pc \in {"bin", "meta", "read", "consume", "deliver", "wipe"}
          /\ creq[r].held \subseteq Tokens
    /\ fate \in [used : [Tokens -> Nat], shared : SUBSET Tokens,
                 lost : SUBSET Tokens, aged : SUBSET Tokens,
                 wiped : SUBSET Tokens]
    /\ composed \in 0..MaxRequests

Init ==
    /\ disk = [bin |-> [t \in Tokens |-> None], meta |-> [t \in Tokens |-> None]]
    /\ known = {}
    /\ creq = [r \in Requests |-> None]
    /\ fate = [used |-> [t \in Tokens |-> 0], shared |-> {}, lost |-> {},
               aged |-> {}, wiped |-> {}]
    /\ composed = 0

Files(bin, meta) == [bin |-> bin, meta |-> meta]

Without(files, ts) == [t \in Tokens |-> IF t \in ts THEN None ELSE files[t]]

Old(files) == {t \in Tokens : files[t] # None /\ files[t] > TTL}

(* A sweep that takes what is there, whatever its age. *)
SweptAll == Files(Without(disk.bin, Tokens), Without(disk.meta, Tokens))

(* sweepStaging: the two files of a token age apart *)
Swept == Files(Without(disk.bin, Old(disk.bin)), Without(disk.meta, Old(disk.meta)))

Minted == known \cup {creq[r].token : r \in {q \in Requests :
                         creq[q] # None /\ creq[q].pc \in {"bin", "meta"}}}

(* handleUploadAttachment up to newStageToken.  A 128-bit token is fresh:  *)
(* also no file has it.                                                    *)
UploadStarts(r) ==
    /\ creq[r] = None
    /\ \E t \in Tokens \ Minted :
          /\ disk.bin[t] = None /\ disk.meta[t] = None
          /\ creq' = [creq EXCEPT ![r] = [pc |-> "bin", token |-> t, held |-> {}]]
    /\ disk' = Swept
    /\ fate' = [fate EXCEPT !.aged = @ \cup Old(disk.bin) \cup Old(disk.meta)]
    /\ UNCHANGED <<known, composed>>

(* A copy that fails or is too long removes what it wrote. *)
WriteBlob(r) ==
    LET q == creq[r] IN
    /\ q # None /\ q.pc = "bin"
    /\ \/ /\ disk' = [disk EXCEPT !.bin[q.token] = 0]
          /\ creq' = [creq EXCEPT ![r].pc = "meta"]
       \/ /\ creq' = [creq EXCEPT ![r] = None]
          /\ UNCHANGED disk
    /\ UNCHANGED <<known, fate, composed>>

(* When the sidecar cannot be written only the blob is removed again. *)
WriteMeta(r) ==
    LET q == creq[r] IN
    /\ q # None /\ q.pc = "meta"
    /\ creq' = [creq EXCEPT ![r] = None]
    /\ \/ /\ disk' = [disk EXCEPT !.meta[q.token] = 0]
          /\ known' = known \cup {q.token}
       \/ /\ \E age \in {0, None} :
                disk' = [disk EXCEPT !.meta[q.token] = age, !.bin[q.token] = None]
          /\ UNCHANGED known
    /\ UNCHANGED <<fate, composed>>

(* handleSend, at once or scheduled, or handleSaveDraft, with one token or *)
(* two different ones                                                      *)
ComposeStarts(r) ==
    /\ creq[r] = None
    /\ composed < MaxRequests /\ composed' = composed + 1
    /\ \E t, u \in known :
          creq' = [creq EXCEPT ![r] =
             [pc |-> "read", held |-> {},
              refs |-> IF t = u THEN <<t>> ELSE <<t, u>>]]
    /\ UNCHANGED <<disk, known, fate>>

(* A body that names its one token twice. *)
ComposeTwice(r) ==
    /\ creq[r] = None
    /\ composed < MaxRequests /\ composed' = composed + 1
    /\ \E t \in known :
          creq' = [creq EXCEPT ![r] =
             [pc |-> "read", held |-> {}, refs |-> <<t, t>>]]
    /\ UNCHANGED <<disk, known, fate>>

Readable(t) == disk.bin[t] # None /\ disk.meta[t] # None

(* Requests that have read a token and not yet deleted it. *)
Readers(t) == {q \in Requests : creq[q] # None /\ creq[q].pc = "consume"
                                   /\ Head(creq[q].refs) = t}

(* The answer is an error: what was deleted for the request is lost. *)
Refuse(r) ==
    /\ creq' = [creq EXCEPT ![r] = None]
    /\ fate' = [fate EXCEPT !.lost = @ \cup creq[r].held]

(* readStaged.  The sidecar is read first.  A blob is there before its     *)
(* sidecar, and neither comes back: when both reads succeed they find what *)
(* one would find at the first, else at the one that fails.                *)
Read(r) ==
    LET q == creq[r] t == Head(q.refs) IN
    /\ q # None /\ q.pc = "read"
    /\ IF Readable(t)
       THEN /\ creq' = [creq EXCEPT ![r].pc = "consume"]
            /\ fate' = [fate EXCEPT !.shared =
                           IF Readers(t) # {} THEN @ \cup {t} ELSE @]
       ELSE Refuse(r)
    /\ UNCHANGED <<disk, known, composed>>

NextRef(r) ==
    LET q == creq[r] IN
    creq' = [creq EXCEPT ![r].held = @ \cup {Head(q.refs)},
                         ![r].refs = Tail(q.refs),
                         ![r].pc = IF Tail(q.refs) = <<>> THEN "deliver" ELSE "read"]

(* Reading a staged file without deleting it. *)
ConsumeNothing(r) ==
    /\ creq[r] # None /\ creq[r].pc = "consume"
    /\ NextRef(r)
    /\ UNCHANGED <<disk, known, fate, composed>>

(* consumeStaged, whose own errors are dropped: the files stay when they   *)
(* cannot be deleted (one of the two alone is of no use to anybody).       *)
Consume(r) ==
    LET t == Head(creq[r].refs) IN
    /\ creq[r] # None /\ creq[r].pc = "consume"
    /\ \/ /\ disk' = Files(Without(disk.bin, {t}), Without(disk.meta, {t}))
          /\ UNCHANGED fate
       \/ /\ fate' = [fate EXCEPT !.shared = @ \cup {t}]
          /\ UNCHANGED disk
    /\ NextRef(r)
    /\ UNCHANGED <<known, composed>>

(* Later references may be bad and the identity, the schedule, the message,*)
(* or the mail server may refuse (messages.go:101-137, 203-230).           *)
Deliver(r) ==
    LET q == creq[r] IN
    /\ q # None /\ q.pc = "deliver"
    /\ \/ /\ fate' = [fate EXCEPT !.used =
                         [t \in Tokens |-> @[t] + (IF t \in q.held THEN 1 ELSE 0)]]
          /\ creq' = [creq EXCEPT ![r] = None]
       \/ Refuse(r)
    /\ UNCHANGED <<disk, known, composed>>

(* HandleLogout: clearUserCache removes all there is in the cache folder.  *)
(* The requests of the account's other sessions go on.                     *)
LogoutStarts(r) ==
    /\ creq[r] = None
    /\ composed < MaxRequests /\ composed' = composed + 1
    /\ creq' = [creq EXCEPT ![r] = [pc |-> "wipe", held |-> {}]]
    /\ UNCHANGED <<disk, known, fate>>

Wiping(r) == creq[r] # None /\ creq[r].pc = "wipe"

(* os.RemoveAll takes one file at a time, in the order of the directory,   *)
(* which it may list again.                                                *)
WipeOne(r) ==
    /\ Wiping(r)
    /\ \E t \in Tokens :
          /\ \/ disk.bin[t] # None /\ disk' = [disk EXCEPT !.bin[t] = None]
             \/ disk.meta[t] # None /\ disk' = [disk EXCEPT !.meta[t] = None]
          /\ fate' = [fate EXCEPT !.wiped = @ \cup {t}]
    /\ UNCHANGED <<known, creq, composed>>

(* It is done, or stops at what it cannot remove: the error is only logged.*)
WipeEnds(r) ==
    /\ Wiping(r)
    /\ creq' = [creq EXCEPT ![r] = None]
    /\ UNCHANGED <<disk, known, fate, composed>>

(* The process dies: also between the two files of an upload, and when a   *)
(* token is deleted and its message not sent.                              *)
Crash ==
    LET busy == {r \in Requests : creq[r] # None} IN
    /\ busy # {}
    /\ creq' = [r \in Requests |-> None]
    /\ fate' = [fate EXCEPT !.lost = @ \cup UNION {creq[r].held : r \in busy}]
    /\ UNCHANGED <<disk, known, composed>>

Older(age) == IF age = None THEN None ELSE IF age > TTL THEN age ELSE age + 1

Tick ==
    /\ disk' = Files([t \in Tokens |-> Older(disk.bin[t])],
                     [t \in Tokens |-> Older(disk.meta[t])])
    /\ UNCHANGED <<known, creq, fate, composed>>

Next ==
    \/ \E r \in Requests :
          \/ UploadStarts(r) \/ WriteBlob(r) \/ WriteMeta(r)
          \/ ComposeStarts(r) \/ ComposeTwice(r)
          \/ Read(r) \/ Consume(r) \/ Deliver(r)
          \/ LogoutStarts(r) \/ WipeOne(r) \/ WipeEnds(r)
    \/ Crash \/ Tick

Spec == Init /\ [][Next]_svars

(* "Staged tokens are read from disk and CONSUMED (deleted) so a token     *)
(* cannot be replayed" (compose_attachments.go:178): a token is in one     *)
(* message only, unless a request read it while another had read it and    *)
(* not yet deleted it, or neither of its files could be deleted.           *)
TokenOnce == \A t \in Tokens : fate.used[t] > 1 => t \in fate.shared

(* An upload whose token was handed out and that cannot be read any more   *)
(* is in a message, a scheduled send or a draft, is held by a request, was *)
(* old enough for the sweep, was deleted for a request that failed or for  *)
(* a process that died, or was removed by a logout: no other request,      *)
(* upload or sweep takes it.                                               *)
UploadAccounted ==
    \A t \in known : ~Readable(t) =>
        \/ fate.used[t] > 0 \/ t \in fate.lost
        \/ \E r \in Requests : creq[r] # None /\ t \in creq[r].held
        \/ t \in fate.aged \/ t \in fate.wiped

=============================================================================
