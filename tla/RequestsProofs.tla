--------------------------- MODULE RequestsProofs ---------------------------
(***************************************************************************)
(* Proofs about what the requests of a user change (module MCRequests):    *)
(* the attachments staged for a message that is being composed (module     *)
(* ComposeStaging), the settings (Settings) and the push subscriptions     *)
(* (PushStore); and, with what the other modules prove of the mailboxes,   *)
(* the groupware, the session and the threads, the types of them all.      *)
(***************************************************************************)
EXTENDS MailboxProofs, SessionProofs, GroupwareProofs, ThreadingProofs

(* A request that writes an upload, and one that attaches uploads.         *)
Uploading(r) == creq[r] # None /\ creq[r].pc \in {"bin", "meta"}

Composing(r) == creq[r] # None /\ creq[r].pc \in {"read", "consume", "deliver"}

StagingRequest ==
    [pc : {"bin", "meta"}, token : Tokens, held : {{}}]
       \cup [pc : {"read", "consume"}, held : SUBSET Tokens, refs : Seq(Tokens) \ {<<>>}]
       \cup [pc : {"deliver"}, held : SUBSET Tokens, refs : Seq(Tokens)]
       \cup [pc : {"wipe"}, held : {{}}]

StagingTypes ==
    /\ disk \in [bin : [Tokens -> Nat \cup {None}], meta : [Tokens -> Nat \cup {None}]]
    /\ known \subseteq Tokens
    /\ creq \in [Requests -> StagingRequest \cup {None}]
    /\ fate \in [used : [Tokens -> Nat], shared : SUBSET Tokens,
                 lost : SUBSET Tokens, aged : SUBSET Tokens, wiped : SUBSET Tokens]

(* An upload has its token to itself, and what it wrote is there unless it *)
(* was swept or wiped.                                                     *)
UploadsInv ==
    \A r \in Requests : Uploading(r) =>
        /\ creq[r].token \notin known
        /\ creq[r].pc = "meta" =>
              \/ disk.bin[creq[r].token] # None
              \/ creq[r].token \in fate.aged \cup fate.wiped
        /\ \A q \in Requests \ {r} : Uploading(q) => creq[q].token # creq[r].token

(* Only tokens that were handed out are used.                              *)
KnownInv ==
    /\ \A r \in Requests : Composing(r) =>
          /\ creq[r].held \subseteq known
          /\ \A i \in 1..Len(creq[r].refs) : creq[r].refs[i] \in known
    /\ \A t \in Tokens \ known : fate.used[t] = 0

Holders(t) == {r \in Requests : creq[r] # None /\ t \in creq[r].held}

(* Unless a token was read beside another reader, or stayed although it was *)
(* taken, it is in one place:                                              *)
(* on disk or with its one reader, held by one request, or in one message. *)
InOnePlace(t) ==
    /\ \A r, q \in CS!Readers(t) : r = q
    /\ \A r, q \in Holders(t) : r = q
    /\ fate.used[t] <= 1
    /\ fate.used[t] > 0 => Holders(t) = {}
    /\ CS!Readable(t) \/ CS!Readers(t) # {} => fate.used[t] = 0 /\ Holders(t) = {}

OnceInv == \A t \in Tokens \ fate.shared : InOnePlace(t)

StagingInv == StagingTypes /\ UploadsInv /\ KnownInv /\ OnceInv /\ CS!UploadAccounted

-----------------------------------------------------------------------------

(* The mark of a file that is not there is no age of one.                  *)
LEMMA NoneIsNoAge == None \notin Nat
  BY StagingAssumption

(* An empty staging directory and no request satisfy the invariant.        *)
LEMMA StagingInit == CS!Init => StagingInv
  <1>. SUFFICES ASSUME CS!Init PROVE StagingInv
    OBVIOUS
  <1>1. \A r \in Requests : creq[r] = None
    BY DEF CS!Init
  <1>2. StagingTypes
    BY DEF CS!Init, StagingTypes
  <1>3. UploadsInv /\ KnownInv
    BY <1>1 DEF CS!Init, UploadsInv, KnownInv, Uploading, Composing
  <1>4. OnceInv
    BY <1>1 DEF CS!Init, OnceInv, InOnePlace, Holders, CS!Readers, CS!Readable
  <1>5. CS!UploadAccounted
    BY DEF CS!Init, CS!UploadAccounted
  <1>. QED
    BY <1>2, <1>3, <1>4, <1>5 DEF StagingInv

(* The token a request reads or deletes next is one that was handed out.   *)
LEMMA NextTokenKnown ==
    ASSUME StagingTypes, KnownInv, NEW r \in Requests, creq[r] # None,
           creq[r].pc \in {"read", "consume"}
    PROVE  /\ creq[r] \in [pc : {"read", "consume"}, held : SUBSET Tokens,
                           refs : Seq(Tokens) \ {<<>>}]
           /\ creq[r].held \subseteq known /\ Head(creq[r].refs) \in known
           /\ \A i \in 1..Len(creq[r].refs) : creq[r].refs[i] \in known
  <1>1. creq[r] \in [pc : {"read", "consume"}, held : SUBSET Tokens,
                     refs : Seq(Tokens) \ {<<>>}]
    BY DEF StagingTypes, StagingRequest
  <1>2. creq[r].held \subseteq known
           /\ \A i \in 1..Len(creq[r].refs) : creq[r].refs[i] \in known
    BY DEF KnownInv, Composing
  <1>3. Head(creq[r].refs) = creq[r].refs[1] /\ 1 \in 1..Len(creq[r].refs)
    BY <1>1
  <1>. QED
    BY <1>1, <1>2, <1>3

(* What nobody was told the token of is in nobody's hands.                 *)
LEMMA UnknownIsUntouched ==
    ASSUME StagingTypes, KnownInv, NEW t \in Tokens \ known
    PROVE  Holders(t) = {} /\ CS!Readers(t) = {} /\ fate.used[t] = 0
  <1>1. ASSUME NEW r \in Requests, creq[r] # None
        PROVE  t \notin creq[r].held /\ ~(creq[r].pc = "consume" /\ Head(creq[r].refs) = t)
    <2>1. CASE Uploading(r)
      BY <1>1, <2>1 DEF Uploading, StagingTypes, StagingRequest
    <2>2. CASE Composing(r)
      BY <1>1, <2>2, NextTokenKnown DEF Composing, KnownInv
    <2>3. CASE CS!Wiping(r)
      BY <1>1, <2>3 DEF CS!Wiping, StagingTypes, StagingRequest
    <2>4. Uploading(r) \/ Composing(r) \/ CS!Wiping(r)
      BY <1>1 DEF Uploading, Composing, CS!Wiping, StagingTypes, StagingRequest
    <2>. QED
      BY <2>1, <2>2, <2>3, <2>4
  <1>. QED
    BY <1>1 DEF Holders, CS!Readers, KnownInv

(* A step that gives nobody a token keeps it in one place.                 *)
LEMMA PlaceKept ==
    ASSUME NEW t \in Tokens, InOnePlace(t),
           CS!Readable(t)' => CS!Readable(t),
           CS!Readers(t)' \subseteq CS!Readers(t),
           Holders(t)' \subseteq Holders(t),
           fate'.used[t] = fate.used[t]
    PROVE  InOnePlace(t)'
  BY DEF InOnePlace

(* The sweep leaves ages and marks of what is not there.                   *)
LEMMA SweptTypes ==
    ASSUME StagingTypes
    PROVE  /\ CS!Swept \in [bin : [Tokens -> Nat \cup {None}], meta : [Tokens -> Nat \cup {None}]]
           /\ \A t \in Tokens : CS!Swept.bin[t] # disk.bin[t] => t \in CS!Old(disk.bin)
           /\ \A t \in Tokens : CS!Swept.meta[t] # disk.meta[t] => t \in CS!Old(disk.meta)
           /\ \A t \in Tokens : CS!Swept.bin[t] # None => disk.bin[t] # None
           /\ \A t \in Tokens : CS!Swept.meta[t] # None => disk.meta[t] # None
           /\ CS!Old(disk.bin) \subseteq Tokens /\ CS!Old(disk.meta) \subseteq Tokens
  BY DEF StagingTypes, CS!Swept, CS!Files, CS!Without, CS!Old

(* A new upload sweeps, and has a token nobody has.                        *)
LEMMA UploadStartsKeeps ==
    ASSUME StagingInv, NEW r \in Requests, CS!UploadStarts(r)
    PROVE  StagingInv'
  <1>. USE DEF StagingInv
  <1>1. PICK t \in Tokens \ CS!Minted :
           /\ disk.bin[t] = None /\ disk.meta[t] = None
           /\ creq' = [creq EXCEPT ![r] = [pc |-> "bin", token |-> t, held |-> {}]]
    BY DEF CS!UploadStarts
  <1>2. /\ creq[r] = None /\ disk' = CS!Swept /\ known' = known
        /\ fate' = [fate EXCEPT !.aged = @ \cup CS!Old(disk.bin) \cup CS!Old(disk.meta)]
    BY DEF CS!UploadStarts
  <1>3. StagingTypes'
    BY <1>1, <1>2, SweptTypes DEF StagingTypes, StagingRequest
  <1>4. /\ fate'.used = fate.used /\ fate'.shared = fate.shared /\ fate'.lost = fate.lost
        /\ fate'.aged = fate.aged \cup CS!Old(disk.bin) \cup CS!Old(disk.meta)
        /\ fate'.wiped = fate.wiped
    BY <1>2 DEF StagingTypes
  <1>5. /\ \A q \in Requests \ {r} : creq'[q] = creq[q]
        /\ creq'[r] = [pc |-> "bin", token |-> t, held |-> {}]
    BY <1>1 DEF StagingTypes
  <1>6. UploadsInv'
    <2>1. t \notin known /\ \A q \in Requests : Uploading(q) => creq[q].token # t
      BY <1>1 DEF CS!Minted, Uploading
    <2>2. \A q \in Requests : Uploading(q) => creq[q].token \in Tokens
      BY DEF Uploading, StagingTypes, StagingRequest
    <2>. QED
      BY <1>2, <1>4, <1>5, <2>1, <2>2, SweptTypes DEF UploadsInv, Uploading
  <1>7. KnownInv'
    BY <1>2, <1>4, <1>5 DEF KnownInv, Composing
  <1>8. OnceInv'
    <2>1. ASSUME NEW u \in Tokens \ fate.shared PROVE InOnePlace(u)'
      <3>1. CS!Readable(u)' => CS!Readable(u)
        BY <1>2, SweptTypes DEF CS!Readable
      <3>2. Holders(u)' \subseteq Holders(u)
        BY <1>5 DEF Holders
      <3>3. CS!Readers(u)' \subseteq CS!Readers(u)
        BY <1>5 DEF CS!Readers
      <3>. QED
        BY <1>4, <2>1, <3>1, <3>2, <3>3, PlaceKept DEF OnceInv
    <2>. QED
      BY <1>4, <2>1 DEF OnceInv
  <1>9. CS!UploadAccounted'
    BY <1>2, <1>4, <1>5, SweptTypes DEF CS!UploadAccounted, CS!Readable, StagingTypes
  <1>. QED
    BY <1>3, <1>6, <1>7, <1>8, <1>9

(* An upload that is under way names a token nobody was told.              *)
LEMMA UploadRecord ==
    ASSUME StagingTypes, UploadsInv, NEW r \in Requests, creq[r] # None,
           creq[r].pc \in {"bin", "meta"}
    PROVE  /\ creq[r] \in [pc : {"bin", "meta"}, token : Tokens, held : {{}}]
           /\ Uploading(r) /\ creq[r].token \in Tokens \ known
  BY DEF UploadsInv, Uploading, StagingTypes, StagingRequest

(* A request that ends with nothing changed: an upload that failed, or a   *)
(* logout.                                                                 *)
LEMMA UploadEndKeeps ==
    ASSUME StagingInv, NEW r \in Requests, creq' = [creq EXCEPT ![r] = None],
           creq[r] = None \/ creq[r].held = {}, UNCHANGED <<disk, known, fate>>
    PROVE  StagingInv'
  <1>. USE DEF StagingInv
  <1>1. creq'[r] = None /\ \A q \in Requests \ {r} : creq'[q] = creq[q]
    BY DEF StagingTypes
  <1>2. StagingTypes'
    BY DEF StagingTypes
  <1>3. UploadsInv' /\ KnownInv'
    BY <1>1 DEF UploadsInv, Uploading, KnownInv, Composing
  <1>4. OnceInv'
    <2>1. ASSUME NEW t \in Tokens \ fate.shared PROVE InOnePlace(t)'
      <3>1. Holders(t)' \subseteq Holders(t) /\ CS!Readers(t)' \subseteq CS!Readers(t)
        BY <1>1 DEF Holders, CS!Readers
      <3>. QED
        BY <3>1, <2>1, PlaceKept DEF OnceInv, CS!Readable
    <2>. QED
      BY <2>1 DEF OnceInv
  <1>5. CS!UploadAccounted'
    BY <1>1 DEF CS!UploadAccounted, CS!Readable
  <1>. QED
    BY <1>2, <1>3, <1>4, <1>5

(* The blob of an upload is written, or is not.                            *)
LEMMA WriteBlobKeeps ==
    ASSUME StagingInv, NEW r \in Requests, CS!WriteBlob(r)
    PROVE  StagingInv'
  <1>. USE DEF StagingInv
  <1>. DEFINE t == creq[r].token
  <1>1. /\ creq[r] \in [pc : {"bin", "meta"}, token : Tokens, held : {{}}]
        /\ Uploading(r) /\ t \in Tokens \ known /\ creq[r] # None
        /\ UNCHANGED <<known, fate>>
    BY UploadRecord DEF CS!WriteBlob
  <1>2. CASE creq' = [creq EXCEPT ![r] = None] /\ UNCHANGED disk
    BY <1>1, <1>2, UploadEndKeeps
  <1>3. CASE /\ disk' = [disk EXCEPT !.bin[t] = 0]
             /\ creq' = [creq EXCEPT ![r] = [creq[r] EXCEPT !.pc = "meta"]]
    <2>1. /\ creq'[r] = [creq[r] EXCEPT !.pc = "meta"]
          /\ \A q \in Requests \ {r} : creq'[q] = creq[q]
          /\ disk'.meta = disk.meta /\ disk'.bin = [disk.bin EXCEPT ![t] = 0]
      BY <1>3 DEF StagingTypes
    <2>2. StagingTypes'
      BY <1>1, <1>3 DEF StagingTypes, StagingRequest
    <2>3. UploadsInv'
      <3>1. disk'.bin[t] = 0 /\ \A u \in Tokens \ {t} : disk'.bin[u] = disk.bin[u]
        BY <1>1, <2>1 DEF StagingTypes
      <3>2. ASSUME NEW q \in Requests \ {r}, Uploading(q)
            PROVE  creq[q].token \in Tokens \ {t}
        BY <1>1, <3>2, UploadRecord DEF UploadsInv, Uploading
      <3>3. creq'[r].token = t
        BY <1>1, <2>1
      <3>. QED
        BY <1>1, <2>1, <3>1, <3>2, <3>3, NoneIsNoAge DEF UploadsInv, Uploading
    <2>4. KnownInv'
      BY <1>1, <2>1 DEF KnownInv, Composing
    <2>5. OnceInv'
      <3>1. ASSUME NEW u \in Tokens \ fate.shared PROVE InOnePlace(u)'
        <4>1. Holders(u)' \subseteq Holders(u) /\ CS!Readers(u)' \subseteq CS!Readers(u)
          BY <1>1, <2>1 DEF Holders, CS!Readers
        <4>2. CASE u = t
          BY <1>1, <4>1, <4>2, UnknownIsUntouched DEF InOnePlace
        <4>3. CASE u # t
          <5>1. CS!Readable(u)' => CS!Readable(u)
            BY <1>1, <2>1, <4>3 DEF CS!Readable, StagingTypes
          <5>. QED
            BY <1>1, <3>1, <4>1, <5>1, PlaceKept DEF OnceInv
        <4>. QED
          BY <4>2, <4>3
      <3>. QED
        BY <1>1, <3>1 DEF OnceInv
    <2>6. CS!UploadAccounted'
      BY <1>1, <2>1 DEF CS!UploadAccounted, CS!Readable, StagingTypes
    <2>. QED
      BY <2>2, <2>3, <2>4, <2>5, <2>6
  <1>. QED
    BY <1>2, <1>3 DEF CS!WriteBlob

(* The metadata is written and the token handed out, or it is not.         *)
LEMMA WriteMetaKeeps ==
    ASSUME StagingInv, NEW r \in Requests, CS!WriteMeta(r)
    PROVE  StagingInv'
  <1>. USE DEF StagingInv
  <1>0. PICK t \in Tokens \ known : t = creq[r].token
    BY UploadRecord DEF CS!WriteMeta
  <1>1. /\ creq[r] \in [pc : {"bin", "meta"}, token : Tokens, held : {{}}]
        /\ Uploading(r) /\ t = creq[r].token /\ creq[r] # None /\ creq[r].pc = "meta"
        /\ creq' = [creq EXCEPT ![r] = None] /\ UNCHANGED fate
    BY <1>0, UploadRecord DEF CS!WriteMeta
  <1>2. /\ creq'[r] = None /\ \A q \in Requests \ {r} : creq'[q] = creq[q]
    BY <1>1 DEF StagingTypes
  <1>3. /\ known' \in {known, known \cup {t}}
        /\ disk' \in [bin : [Tokens -> Nat \cup {None}], meta : [Tokens -> Nat \cup {None}]]
        /\ \A u \in Tokens \ {t} : disk'.bin[u] = disk.bin[u] /\ disk'.meta[u] = disk.meta[u]
        /\ known' # known => disk'.bin[t] = disk.bin[t] /\ disk'.meta[t] # None
    <2>1. CASE disk' = [disk EXCEPT !.meta[t] = 0] /\ known' = known \cup {t}
      BY <1>1, <2>1, NoneIsNoAge DEF StagingTypes
    <2>2. ASSUME NEW age \in {0, None}, known' = known,
                 disk' = [disk EXCEPT !.meta[t] = age, !.bin[t] = None]
          PROVE  /\ known' = known
                 /\ disk' \in [bin : [Tokens -> Nat \cup {None}],
                           meta : [Tokens -> Nat \cup {None}]]
                 /\ \A u \in Tokens \ {t} : disk'.bin[u] = disk.bin[u]
                                               /\ disk'.meta[u] = disk.meta[u]
      <3>. DEFINE d == [disk EXCEPT !.meta[t] = age]
      <3>1. /\ d \in [bin : [Tokens -> Nat \cup {None}], meta : [Tokens -> Nat \cup {None}]]
            /\ \A u \in Tokens \ {t} : d.bin[u] = disk.bin[u] /\ d.meta[u] = disk.meta[u]
        BY DEF StagingTypes
      <3>2. disk' = [d EXCEPT !.bin[t] = None]
        BY <2>2
      <3>. HIDE DEF d
      <3>. QED
        BY <2>2, <3>1, <3>2
    <2>3. \/ disk' = [disk EXCEPT !.meta[t] = 0] /\ known' = known \cup {t}
          \/ /\ \E age \in {0, None} : disk' = [disk EXCEPT !.meta[t] = age, !.bin[t] = None]
             /\ known' = known
      BY <1>1 DEF CS!WriteMeta
    <2>. QED
      BY <2>1, <2>2, <2>3
  <1>4. StagingTypes'
    BY <1>1, <1>3 DEF StagingTypes
  <1>5. UploadsInv'
    <2>1. ASSUME NEW q \in Requests \ {r}, Uploading(q)
          PROVE  creq[q].token \in Tokens \ {t}
      BY <1>1, <2>1, UploadRecord DEF UploadsInv, Uploading
    <2>. QED
      BY <1>1, <1>2, <1>3, <2>1 DEF UploadsInv, Uploading
  <1>6. KnownInv'
    BY <1>1, <1>2, <1>3 DEF KnownInv, Composing
  <1>7. OnceInv'
    <2>1. ASSUME NEW u \in Tokens \ fate.shared PROVE InOnePlace(u)'
      <3>1. Holders(u)' \subseteq Holders(u) /\ CS!Readers(u)' \subseteq CS!Readers(u)
        BY <1>2 DEF Holders, CS!Readers
      <3>2. CASE u = t
        BY <1>1, <3>1, <3>2, UnknownIsUntouched DEF InOnePlace
      <3>3. CASE u # t
        <4>1. CS!Readable(u)' => CS!Readable(u)
          BY <1>3, <3>3 DEF CS!Readable
        <4>. QED
          BY <1>1, <2>1, <3>1, <4>1, PlaceKept DEF OnceInv
      <3>. QED
        BY <3>2, <3>3
    <2>. QED
      BY <1>1, <2>1 DEF OnceInv
  <1>8. CS!UploadAccounted'
    <2>1. known' # known => CS!Readable(t)' \/ t \in fate.aged \cup fate.wiped
      BY <1>1, <1>3 DEF UploadsInv, CS!Readable
    <2>2. \A u \in Tokens \ {t} : CS!Readable(u) => CS!Readable(u)'
      BY <1>3 DEF CS!Readable
    <2>3. ASSUME NEW u \in known', ~CS!Readable(u)'
          PROVE  \/ fate'.used[u] > 0 \/ u \in fate'.lost
                 \/ \E q \in Requests : creq'[q] # None /\ u \in creq'[q].held
                 \/ u \in fate'.aged \/ u \in fate'.wiped
      <3>1. CASE u = t
        BY <1>1, <1>3, <2>1, <2>3, <3>1
      <3>2. CASE u # t
        <4>1. u \in known /\ u \in Tokens /\ ~CS!Readable(u)
          BY <1>3, <2>2, <2>3, <3>2 DEF StagingTypes
        <4>. QED
          BY <1>1, <1>2, <4>1 DEF CS!UploadAccounted
      <3>. QED
        BY <3>1, <3>2
    <2>. QED
      BY <2>3 DEF CS!UploadAccounted
  <1>. QED
    BY <1>4, <1>5, <1>6, <1>7, <1>8

(* A new message names tokens that were handed out.                        *)
LEMMA ComposeStartKeeps ==
    ASSUME StagingInv, NEW r \in Requests, CS!ComposeStarts(r) \/ CS!ComposeTwice(r)
    PROVE  StagingInv'
  <1>. USE DEF StagingInv
  <1>1. PICK refs \in Seq(known) \ {<<>>} :
           creq' = [creq EXCEPT ![r] = [pc |-> "read", held |-> {}, refs |-> refs]]
    <2>1. ASSUME NEW t \in known, NEW u \in known
          PROVE  <<t>> \in Seq(known) \ {<<>>} /\ <<t, u>> \in Seq(known) \ {<<>>}
      OBVIOUS
    <2>. QED
      BY <2>1 DEF CS!ComposeStarts, CS!ComposeTwice
  <1>. DEFINE c == [pc |-> "read", held |-> {}, refs |-> refs]
  <1>2. /\ creq[r] = None /\ UNCHANGED <<disk, known, fate>>
        /\ creq'[r] = c /\ \A q \in Requests \ {r} : creq'[q] = creq[q]
    BY <1>1 DEF CS!ComposeStarts, CS!ComposeTwice, StagingTypes
  <1>3. refs \in Seq(Tokens) \ {<<>>} /\ \A i \in 1..Len(refs) : refs[i] \in known
    BY DEF StagingTypes
  <1>4. StagingTypes'
    BY <1>1, <1>2, <1>3 DEF StagingTypes, StagingRequest
  <1>5. UploadsInv' /\ KnownInv'
    BY <1>2, <1>3 DEF UploadsInv, Uploading, KnownInv, Composing
  <1>6. OnceInv'
    <2>1. ASSUME NEW u \in Tokens \ fate.shared PROVE InOnePlace(u)'
      <3>1. Holders(u)' \subseteq Holders(u) /\ CS!Readers(u)' \subseteq CS!Readers(u)
        BY <1>2 DEF Holders, CS!Readers
      <3>. QED
        BY <1>2, <2>1, <3>1, PlaceKept DEF OnceInv, CS!Readable
    <2>. QED
      BY <1>2, <2>1 DEF OnceInv
  <1>7. CS!UploadAccounted'
    BY <1>2 DEF CS!UploadAccounted, CS!Readable
  <1>. QED
    BY <1>4, <1>5, <1>6, <1>7

(* A request that is refused: what it held is lost. *)
LEMMA RefuseKeeps ==
    ASSUME StagingInv, NEW r \in Requests, CS!Refuse(r), Composing(r),
           UNCHANGED <<disk, known>>
    PROVE  StagingInv'
  <1>. USE DEF StagingInv
  <1>1. creq'[r] = None /\ \A q \in Requests \ {r} : creq'[q] = creq[q]
    BY DEF StagingTypes, CS!Refuse
  <1>2. creq[r] # None /\ creq[r].held \subseteq Tokens
    BY DEF Composing, KnownInv, StagingTypes
  <1>3. /\ fate'.used = fate.used /\ fate'.shared = fate.shared /\ fate'.aged = fate.aged
        /\ fate'.lost = fate.lost \cup creq[r].held /\ fate'.wiped = fate.wiped
    BY DEF StagingTypes, CS!Refuse
  <1>4. StagingTypes'
    BY <1>2 DEF StagingTypes, CS!Refuse
  <1>5. UploadsInv' /\ KnownInv'
    BY <1>1, <1>3 DEF UploadsInv, Uploading, KnownInv, Composing
  <1>6. OnceInv'
    <2>1. ASSUME NEW u \in Tokens \ fate.shared PROVE InOnePlace(u)'
      <3>1. Holders(u)' \subseteq Holders(u) /\ CS!Readers(u)' \subseteq CS!Readers(u)
        BY <1>1 DEF Holders, CS!Readers
      <3>. QED
        BY <1>3, <2>1, <3>1, PlaceKept DEF OnceInv, CS!Readable
    <2>. QED
      BY <1>3, <2>1 DEF OnceInv
  <1>7. CS!UploadAccounted'
    BY <1>1, <1>3 DEF CS!UploadAccounted, CS!Readable
  <1>. QED
    BY <1>4, <1>5, <1>6, <1>7

(* A request reads the files of a token, or is refused.                    *)
LEMMA StagedReadKeeps ==
    ASSUME StagingInv, NEW r \in Requests, CS!Read(r)
    PROVE  StagingInv'
  <1>. USE DEF StagingInv
  <1>0. PICK t \in known : t = Head(creq[r].refs)
    BY NextTokenKnown DEF CS!Read
  <1>1. /\ creq[r] \in [pc : {"read", "consume"}, held : SUBSET Tokens,
                        refs : Seq(Tokens) \ {<<>>}]
        /\ creq[r].held \subseteq known
        /\ \A i \in 1..Len(creq[r].refs) : creq[r].refs[i] \in known
        /\ creq[r] # None /\ creq[r].pc = "read" /\ UNCHANGED <<disk, known>>
    BY NextTokenKnown DEF CS!Read
  <1>2. CASE ~CS!Readable(t)
    BY <1>0, <1>1, <1>2, RefuseKeeps DEF CS!Read, Composing
  <1>3. CASE CS!Readable(t)
    <2>. DEFINE c == [creq[r] EXCEPT !.pc = "consume"]
    <2>1. /\ creq' = [creq EXCEPT ![r] = c]
          /\ fate' = [fate EXCEPT !.shared = IF CS!Readers(t) # {} THEN @ \cup {t} ELSE @]
      BY <1>0, <1>3 DEF CS!Read
    <2>2. /\ creq'[r] = c /\ \A q \in Requests \ {r} : creq'[q] = creq[q]
          /\ fate'.used = fate.used /\ fate'.lost = fate.lost /\ fate'.aged = fate.aged
          /\ fate'.wiped = fate.wiped /\ fate.shared \subseteq fate'.shared
          /\ CS!Readers(t) # {} => t \in fate'.shared
      BY <2>1 DEF StagingTypes
    <2>3. /\ c.pc = "consume" /\ c.held = creq[r].held /\ c.refs = creq[r].refs
          /\ c \in StagingRequest /\ c # None
      BY <1>1, StagingAssumption DEF StagingRequest
    <2>4. StagingTypes'
      BY <1>1, <2>1, <2>3 DEF StagingTypes
    <2>. HIDE DEF c
    <2>5. UploadsInv'
      BY <1>1, <2>2, <2>3 DEF UploadsInv, Uploading
    <2>6. KnownInv'
      BY <1>1, <2>2, <2>3 DEF KnownInv, Composing
    <2>7. OnceInv'
      <3>1. ASSUME NEW u \in Tokens \ fate'.shared PROVE InOnePlace(u)'
        <4>1. InOnePlace(u)
          BY <2>2 DEF OnceInv
        <4>2. Holders(u)' \subseteq Holders(u)
          BY <1>1, <2>2, <2>3 DEF Holders
        <4>3. CASE u # t
          <5>1. CS!Readers(u)' \subseteq CS!Readers(u)
            BY <1>0, <2>2, <2>3, <4>3 DEF CS!Readers
          <5>. QED
            BY <1>1, <2>2, <4>1, <4>2, <5>1, PlaceKept DEF CS!Readable
        <4>4. CASE u = t
          <5>1. CS!Readers(u) = {}
            BY <2>2, <4>4
          <5>2. CS!Readers(u)' \subseteq {r}
            BY <2>2, <5>1 DEF CS!Readers
          <5>. QED
            BY <1>3, <2>2, <4>1, <4>2, <4>4, <5>2 DEF InOnePlace
        <4>. QED
          BY <4>3, <4>4
      <3>. QED
        BY <3>1 DEF OnceInv
    <2>8. CS!UploadAccounted'
      BY <1>1, <2>2, <2>3 DEF CS!UploadAccounted, CS!Readable
    <2>. QED
      BY <2>4, <2>5, <2>6, <2>7, <2>8
  <1>. QED
    BY <1>2, <1>3

(* NextRef: the request holds the token it read. *)
LEMMA NextRefKeeps ==
    ASSUME StagingInv, NEW r \in Requests, CS!NextRef(r), creq[r] # None,
           creq[r].pc = "consume", NEW t \in known, t = Head(creq[r].refs)
    PROVE  /\ creq' \in [Requests -> StagingRequest \cup {None}]
           /\ creq'[r] # None /\ creq'[r].pc \in {"read", "deliver"}
           /\ creq'[r].held = creq[r].held \cup {t}
           /\ \A i \in 1..Len(creq'[r].refs) : creq'[r].refs[i] \in known
           /\ \A q \in Requests \ {r} : creq'[q] = creq[q]
  <1>. USE DEF StagingInv
  <1>1. /\ creq[r] \in [pc : {"read", "consume"}, held : SUBSET Tokens,
                        refs : Seq(Tokens) \ {<<>>}]
        /\ creq[r].held \subseteq known
        /\ \A i \in 1..Len(creq[r].refs) : creq[r].refs[i] \in known
    BY NextTokenKnown
  <1>. DEFINE refs == Tail(creq[r].refs)
              pc == IF refs = <<>> THEN "deliver" ELSE "read"
              c == [pc |-> pc, held |-> creq[r].held \cup {t}, refs |-> refs]
  <1>2. refs \in Seq(Tokens) /\ \A i \in 1..Len(refs) : refs[i] \in known
    <2>1. /\ refs \in Seq(Tokens) /\ Len(refs) = Len(creq[r].refs) - 1
          /\ \A i \in 1..Len(refs) : refs[i] = creq[r].refs[i + 1]
      BY <1>1
    <2>2. \A i \in 1..Len(refs) : i + 1 \in 1..Len(creq[r].refs)
      BY <1>1, <2>1
    <2>. QED
      BY <1>1, <2>1, <2>2
  <1>3. creq' = [creq EXCEPT ![r] = c]
    <2>1. /\ creq' \in [Requests -> {creq'[q] : q \in Requests}]
          /\ \A q \in Requests \ {r} : creq'[q] = creq[q]
      BY DEF CS!NextRef, StagingTypes
    <2>2. creq'[r] = [creq[r] EXCEPT !.held = @ \cup {t}, !.refs = refs, !.pc = pc]
      BY SMTT(30) DEF CS!NextRef, StagingTypes
    <2>3. creq'[r] = c
      BY <1>1, <2>2
    <2>. QED
      BY <2>1, <2>3 DEF StagingTypes
  <1>4. c \in StagingRequest /\ c # None
    <2>1. t \in Tokens
      BY DEF StagingTypes
    <2>. HIDE DEF refs
    <2>. QED
      BY <1>1, <1>2, <2>1, StagingAssumption DEF StagingRequest
  <1>. QED
    BY <1>2, <1>3, <1>4 DEF StagingTypes

(* A request deletes the files of a token it read, or has to leave them.   *)
LEMMA ConsumeKeeps ==
    ASSUME StagingInv, NEW r \in Requests, CS!Consume(r)
    PROVE  StagingInv'
  <1>. USE DEF StagingInv
  <1>0. PICK t \in known : t = Head(creq[r].refs)
    BY NextTokenKnown DEF CS!Consume
  <1>1. /\ creq' \in [Requests -> StagingRequest \cup {None}]
        /\ creq'[r] # None /\ creq'[r].pc \in {"read", "deliver"}
        /\ creq'[r].held = creq[r].held \cup {t}
        /\ \A i \in 1..Len(creq'[r].refs) : creq'[r].refs[i] \in known
        /\ \A q \in Requests \ {r} : creq'[q] = creq[q]
    BY <1>0, NextRefKeeps DEF CS!Consume
  <1>2. /\ creq[r] # None /\ creq[r].pc = "consume" /\ creq[r].held \subseteq known
        /\ known' = known /\ t \in Tokens
    BY NextTokenKnown DEF CS!Consume, StagingTypes
  <1>3. /\ disk' \in [bin : [Tokens -> Nat \cup {None}], meta : [Tokens -> Nat \cup {None}]]
        /\ t \notin fate'.shared => disk'.bin[t] = None /\ disk'.meta[t] = None
        /\ \A u \in Tokens \ {t} : disk'.bin[u] = disk.bin[u] /\ disk'.meta[u] = disk.meta[u]
        /\ fate' \in [used : [Tokens -> Nat], shared : SUBSET Tokens, lost : SUBSET Tokens,
                      aged : SUBSET Tokens, wiped : SUBSET Tokens]
        /\ fate'.used = fate.used /\ fate'.lost = fate.lost /\ fate'.aged = fate.aged
        /\ fate'.wiped = fate.wiped /\ fate.shared \subseteq fate'.shared
    <2>1. CASE /\ disk' = CS!Files(CS!Without(disk.bin, {t}), CS!Without(disk.meta, {t}))
               /\ UNCHANGED fate
      BY <2>1 DEF CS!Files, CS!Without, StagingTypes
    <2>2. CASE fate' = [fate EXCEPT !.shared = @ \cup {t}] /\ UNCHANGED disk
      BY <1>2, <2>2 DEF StagingTypes
    <2>. QED
      BY <1>0, <2>1, <2>2 DEF CS!Consume
  <1>4. StagingTypes'
    BY <1>1, <1>2, <1>3 DEF StagingTypes
  <1>5. UploadsInv'
    <2>1. ASSUME NEW q \in Requests, Uploading(q) PROVE creq[q].token \in Tokens \ {t}
      BY <2>1, UploadRecord DEF Uploading
    <2>2. \A q \in Requests : Uploading(q)' =>
             Uploading(q) /\ q # r /\ creq'[q] = creq[q]
      BY <1>1 DEF Uploading
    <2>3. /\ fate'.aged = fate.aged /\ fate'.wiped = fate.wiped /\ known' = known
          /\ \A u \in Tokens \ {t} : disk'.bin[u] = disk.bin[u]
      BY <1>2, <1>3
    <2>. QED
      BY <2>1, <2>2, <2>3 DEF UploadsInv
  <1>6. KnownInv'
    <2>1. fate'.used = fate.used
      BY <1>3
    <2>. QED
      BY <1>1, <1>2, <2>1 DEF KnownInv, Composing
  <1>7. OnceInv'
    <2>1. ASSUME NEW u \in Tokens \ fate'.shared PROVE InOnePlace(u)'
      <3>1. InOnePlace(u)
        BY <1>3, <2>1 DEF OnceInv
      <3>2. CS!Readers(u)' \subseteq CS!Readers(u) \ {r}
        BY <1>1 DEF CS!Readers
      <3>3. CASE u # t
        <4>1. Holders(u)' \subseteq Holders(u)
          BY <1>1, <1>2, <3>3 DEF Holders
        <4>2. CS!Readable(u)' => CS!Readable(u)
          BY <1>3, <3>3 DEF CS!Readable
        <4>. QED
          BY <1>3, <3>1, <3>2, <4>1, <4>2, PlaceKept
      <3>4. CASE u = t
        <4>1. r \in CS!Readers(u)
          BY <1>0, <1>2, <3>4 DEF CS!Readers
        <4>2. Holders(u) = {} /\ fate.used[u] = 0 /\ CS!Readers(u) = {r}
          BY <3>1, <4>1 DEF InOnePlace
        <4>3. Holders(u)' \subseteq {r} /\ CS!Readers(u)' = {}
          BY <1>1, <3>2, <4>2 DEF Holders
        <4>4. ~CS!Readable(u)'
          BY <1>3, <2>1, <3>4 DEF CS!Readable
        <4>. QED
          BY <1>3, <4>2, <4>3, <4>4 DEF InOnePlace
      <3>. QED
        BY <3>3, <3>4
    <2>. QED
      BY <2>1 DEF OnceInv
  <1>8. CS!UploadAccounted'
    <2>1. ASSUME NEW u \in known, ~CS!Readable(u)'
          PROVE  \/ fate'.used[u] > 0 \/ u \in fate'.lost
                 \/ \E q \in Requests : creq'[q] # None /\ u \in creq'[q].held
                 \/ u \in fate'.aged \/ u \in fate'.wiped
      <3>1. CASE u = t
        BY <1>1, <3>1
      <3>2. CASE u # t
        <4>1. ~CS!Readable(u)
          BY <1>3, <2>1, <3>2 DEF CS!Readable, StagingTypes
        <4>. QED
          BY <1>1, <1>2, <1>3, <4>1 DEF CS!UploadAccounted
      <3>. QED
        BY <3>1, <3>2
    <2>. QED
      BY <1>2, <2>1 DEF CS!UploadAccounted
  <1>. QED
    BY <1>4, <1>5, <1>6, <1>7, <1>8

(* A message is delivered with what its request holds, or is not.          *)
LEMMA DeliverKeeps ==
    ASSUME StagingInv, NEW r \in Requests, CS!Deliver(r)
    PROVE  StagingInv'
  <1>. USE DEF StagingInv
  <1>1. /\ creq[r] # None /\ creq[r].pc = "deliver" /\ Composing(r)
        /\ creq[r].held \subseteq known /\ known \subseteq Tokens
        /\ UNCHANGED <<disk, known>>
    BY DEF CS!Deliver, Composing, KnownInv, StagingTypes
  <1>2. CASE CS!Refuse(r)
    BY <1>1, <1>2, RefuseKeeps
  <1>3. CASE /\ fate' = [fate EXCEPT !.used =
                   [t \in Tokens |-> @[t] + (IF t \in creq[r].held THEN 1 ELSE 0)]]
             /\ creq' = [creq EXCEPT ![r] = None]
    <2>1. creq'[r] = None /\ \A q \in Requests \ {r} : creq'[q] = creq[q]
      BY <1>3 DEF StagingTypes
    <2>2. /\ fate'.shared = fate.shared /\ fate'.lost = fate.lost /\ fate'.aged = fate.aged
          /\ fate'.wiped = fate.wiped
          /\ fate'.used = [t \in Tokens |->
                fate.used[t] + (IF t \in creq[r].held THEN 1 ELSE 0)]
      BY <1>3 DEF StagingTypes
    <2>3. \A t \in Tokens : /\ fate.used[t] \in Nat /\ fate'.used[t] \in Nat
                            /\ fate'.used[t] >= fate.used[t]
                            /\ t \in creq[r].held => fate'.used[t] = fate.used[t] + 1
                            /\ t \notin creq[r].held => fate'.used[t] = fate.used[t]
      BY <2>2 DEF StagingTypes
    <2>4. StagingTypes'
      <3>1. fate' \in [used : [Tokens -> Nat], shared : SUBSET Tokens,
                       lost : SUBSET Tokens, aged : SUBSET Tokens,
                       wiped : SUBSET Tokens]
        <4>1. [t \in Tokens |-> fate.used[t] + (IF t \in creq[r].held THEN 1 ELSE 0)]
                 \in [Tokens -> Nat]
          BY DEF StagingTypes
        <4>. QED
          BY <1>3, <4>1 DEF StagingTypes
      <3>. QED
        BY <1>1, <1>3, <3>1 DEF StagingTypes
    <2>5. UploadsInv'
      BY <1>1, <2>1, <2>2 DEF UploadsInv, Uploading
    <2>6. KnownInv'
      BY <1>1, <2>1, <2>3 DEF KnownInv, Composing
    <2>7. OnceInv'
      <3>1. ASSUME NEW u \in Tokens \ fate.shared PROVE InOnePlace(u)'
        <4>1. InOnePlace(u)
          BY <3>1 DEF OnceInv
        <4>2. Holders(u)' = Holders(u) \ {r} /\ CS!Readers(u)' \subseteq CS!Readers(u)
          BY <2>1 DEF Holders, CS!Readers
        <4>3. CASE u \notin creq[r].held
          <5>1. fate'.used[u] = fate.used[u]
            BY <2>3, <4>3
          <5>. QED
            BY <1>1, <4>1, <4>2, <5>1, PlaceKept DEF CS!Readable
        <4>4. CASE u \in creq[r].held
          <5>1. r \in Holders(u)
            BY <1>1, <4>4 DEF Holders
          <5>2. /\ Holders(u)' = {} /\ fate.used[u] = 0
                /\ ~CS!Readable(u) /\ CS!Readers(u) = {}
            BY <2>3, <4>1, <4>2, <5>1 DEF InOnePlace
          <5>3. fate'.used[u] = 1 /\ ~CS!Readable(u)' /\ CS!Readers(u)' = {}
            BY <1>1, <2>3, <4>2, <4>4, <5>2 DEF CS!Readable
          <5>. QED
            BY <5>2, <5>3 DEF InOnePlace
        <4>. QED
          BY <4>3, <4>4
      <3>. QED
        BY <2>2, <3>1 DEF OnceInv
    <2>8. CS!UploadAccounted'
      <3>1. ASSUME NEW u \in known, ~CS!Readable(u)'
            PROVE  \/ fate'.used[u] > 0 \/ u \in fate'.lost
                   \/ \E q \in Requests : creq'[q] # None /\ u \in creq'[q].held
                   \/ u \in fate'.aged \/ u \in fate'.wiped
        <4>1. u \in Tokens /\ ~CS!Readable(u)
          BY <1>1, <3>1 DEF CS!Readable
        <4>2. \/ fate.used[u] > 0 \/ u \in fate.lost \/ u \in fate.aged \cup fate.wiped
              \/ \E q \in Requests : creq[q] # None /\ u \in creq[q].held
          BY <4>1 DEF CS!UploadAccounted
        <4>3. u \in creq[r].held => fate'.used[u] > 0
          BY <2>3, <4>1
        <4>4. fate.used[u] > 0 => fate'.used[u] > 0
          BY <2>3, <4>1
        <4>. QED
          BY <2>1, <2>2, <4>2, <4>3, <4>4
      <3>. QED
        BY <1>1, <3>1 DEF CS!UploadAccounted
    <2>. QED
      BY <2>4, <2>5, <2>6, <2>7, <2>8
  <1>. QED
    BY <1>2, <1>3 DEF CS!Deliver

(* A logout begins: it has nothing in its hands.                           *)
LEMMA LogoutStartsKeeps ==
    ASSUME StagingInv, NEW r \in Requests, CS!LogoutStarts(r)
    PROVE  StagingInv'
  <1>. USE DEF StagingInv
  <1>. DEFINE w == [pc |-> "wipe", held |-> {}]
  <1>1. /\ creq[r] = None /\ creq' = [creq EXCEPT ![r] = w]
        /\ UNCHANGED <<disk, known, fate>>
    BY DEF CS!LogoutStarts
  <1>2. creq'[r] = w /\ \A q \in Requests \ {r} : creq'[q] = creq[q]
    BY <1>1 DEF StagingTypes
  <1>3. StagingTypes'
    BY <1>1 DEF StagingTypes, StagingRequest
  <1>4. UploadsInv' /\ KnownInv'
    BY <1>1, <1>2 DEF UploadsInv, Uploading, KnownInv, Composing
  <1>5. OnceInv'
    <2>1. ASSUME NEW u \in Tokens \ fate.shared PROVE InOnePlace(u)'
      <3>1. Holders(u)' \subseteq Holders(u) /\ CS!Readers(u)' \subseteq CS!Readers(u)
        BY <1>2 DEF Holders, CS!Readers
      <3>. QED
        BY <1>1, <2>1, <3>1, PlaceKept DEF OnceInv, CS!Readable
    <2>. QED
      BY <1>1, <2>1 DEF OnceInv
  <1>6. CS!UploadAccounted'
    BY <1>1, <1>2 DEF CS!UploadAccounted, CS!Readable
  <1>. QED
    BY <1>3, <1>4, <1>5, <1>6

(* A logout removes a file, and the token is known as wiped.               *)
LEMMA WipeOneKeeps ==
    ASSUME StagingInv, NEW r \in Requests, CS!WipeOne(r)
    PROVE  StagingInv'
  <1>. USE DEF StagingInv
  <1>1. PICK t \in Tokens :
           /\ \/ disk' = [disk EXCEPT !.bin[t] = None]
              \/ disk' = [disk EXCEPT !.meta[t] = None]
           /\ fate' = [fate EXCEPT !.wiped = @ \cup {t}]
           /\ UNCHANGED <<known, creq>>
    BY DEF CS!WipeOne
  <1>2. /\ disk' \in [bin : [Tokens -> Nat \cup {None}], meta : [Tokens -> Nat \cup {None}]]
        /\ \A u \in Tokens \ {t} : disk'.bin[u] = disk.bin[u] /\ disk'.meta[u] = disk.meta[u]
        /\ disk'.bin[t] \in {disk.bin[t], None} /\ disk'.meta[t] \in {disk.meta[t], None}
    BY <1>1 DEF StagingTypes
  <1>3. /\ fate'.used = fate.used /\ fate'.shared = fate.shared /\ fate'.aged = fate.aged
        /\ fate'.lost = fate.lost /\ fate'.wiped = fate.wiped \cup {t}
    BY <1>1 DEF StagingTypes
  <1>4. StagingTypes'
    BY <1>1, <1>2 DEF StagingTypes
  <1>5. UploadsInv' /\ KnownInv'
    <2>1. ASSUME NEW q \in Requests, Uploading(q) PROVE creq[q].token \in Tokens
      BY <2>1, UploadRecord DEF Uploading
    <2>. QED
      BY <1>1, <1>2, <1>3, <2>1 DEF UploadsInv, Uploading, KnownInv, Composing
  <1>6. ASSUME NEW u \in Tokens
        PROVE  /\ CS!Readable(u)' => CS!Readable(u)
               /\ u # t /\ CS!Readable(u) => CS!Readable(u)'
    BY <1>2 DEF CS!Readable
  <1>7. OnceInv'
    <2>1. ASSUME NEW u \in Tokens \ fate.shared PROVE InOnePlace(u)'
      <3>1. Holders(u)' \subseteq Holders(u) /\ CS!Readers(u)' \subseteq CS!Readers(u)
        BY <1>1 DEF Holders, CS!Readers
      <3>2. /\ InOnePlace(u) /\ fate'.used[u] = fate.used[u]
            /\ CS!Readable(u)' => CS!Readable(u)
        BY <1>3, <1>6, <2>1 DEF OnceInv
      <3>. QED
        BY <2>1, <3>1, <3>2, PlaceKept
    <2>. QED
      BY <1>3, <2>1 DEF OnceInv
  <1>8. CS!UploadAccounted'
    <2>1. ASSUME NEW u \in known, ~CS!Readable(u)'
          PROVE  \/ fate'.used[u] > 0 \/ u \in fate'.lost
                 \/ \E q \in Requests : creq'[q] # None /\ u \in creq'[q].held
                 \/ u \in fate'.aged \/ u \in fate'.wiped
      <3>1. CASE u = t
        BY <1>3, <3>1
      <3>2. CASE u # t
        <4>1. ~CS!Readable(u)
          BY <1>6, <2>1, <3>2 DEF StagingTypes
        <4>. QED
          BY <1>1, <1>3, <4>1 DEF CS!UploadAccounted
      <3>. QED
        BY <3>1, <3>2
    <2>. QED
      BY <1>1, <2>1 DEF CS!UploadAccounted
  <1>. QED
    BY <1>4, <1>5, <1>7, <1>8

(* A logout has emptied the directory, or stops.                           *)
LEMMA WipeEndsKeeps ==
    ASSUME StagingInv, NEW r \in Requests, CS!WipeEnds(r)
    PROVE  StagingInv'
  <1>1. creq[r].held = {}
    BY DEF CS!WipeEnds, CS!Wiping, StagingInv, StagingTypes, StagingRequest
  <1>. QED
    BY <1>1, UploadEndKeeps DEF CS!WipeEnds

(* A crash ends the requests and keeps the files.                          *)
LEMMA CrashKeeps ==
    ASSUME StagingInv, CS!Crash
    PROVE  StagingInv'
  <1>. USE DEF StagingInv
  <1>. DEFINE all == UNION {creq[r].held : r \in {q \in Requests : creq[q] # None}}
  <1>1. /\ \A r \in Requests : creq'[r] = None
        /\ creq' = [r \in Requests |-> None]
        /\ UNCHANGED <<disk, known>>
        /\ fate' = [fate EXCEPT !.lost = @ \cup all]
    BY DEF CS!Crash
  <1>2. all \subseteq Tokens
    <2>1. \A r \in Requests : creq[r] # None => creq[r].held \subseteq Tokens
      BY DEF StagingTypes, StagingRequest
    <2>. QED
      BY <2>1
  <1>3. \A u : (\E q \in Requests : creq[q] # None /\ u \in creq[q].held) => u \in all
    OBVIOUS
  <1>. HIDE DEF all
  <1>4. /\ fate'.used = fate.used /\ fate'.shared = fate.shared /\ fate'.aged = fate.aged
        /\ fate'.lost = fate.lost \cup all /\ fate'.wiped = fate.wiped
    BY <1>1 DEF StagingTypes
  <1>5. StagingTypes'
    BY <1>1, <1>2 DEF StagingTypes
  <1>6. UploadsInv' /\ KnownInv'
    BY <1>1, <1>4 DEF UploadsInv, Uploading, KnownInv, Composing
  <1>7. OnceInv'
    <2>1. ASSUME NEW u \in Tokens \ fate.shared PROVE InOnePlace(u)'
      <3>1. Holders(u)' \subseteq Holders(u) /\ CS!Readers(u)' \subseteq CS!Readers(u)
        BY <1>1 DEF Holders, CS!Readers
      <3>. QED
        BY <1>1, <1>4, <2>1, <3>1, PlaceKept DEF OnceInv, CS!Readable
    <2>. QED
      BY <1>4, <2>1 DEF OnceInv
  <1>8. CS!UploadAccounted'
    BY <1>1, <1>3, <1>4 DEF CS!UploadAccounted, CS!Readable
  <1>. QED
    BY <1>5, <1>6, <1>7, <1>8

(* Files grow older.                                                       *)
LEMMA TickKeeps ==
    ASSUME StagingInv, CS!Tick
    PROVE  StagingInv'
  <1>. USE DEF StagingInv
  <1>. DEFINE Age == Nat \cup {None}
  <1>1. ASSUME NEW age \in Age
        PROVE  CS!Older(age) \in Age /\ (CS!Older(age) = None <=> age = None)
    BY StagingAssumption, NoneIsNoAge DEF CS!Older
  <1>2. /\ disk' = [bin |-> [t \in Tokens |-> CS!Older(disk.bin[t])],
                    meta |-> [t \in Tokens |-> CS!Older(disk.meta[t])]]
        /\ UNCHANGED <<known, creq, fate>>
    BY DEF CS!Tick, CS!Files
  <1>3. /\ disk' \in [bin : [Tokens -> Nat \cup {None}], meta : [Tokens -> Nat \cup {None}]]
        /\ \A t \in Tokens : /\ disk'.bin[t] = None <=> disk.bin[t] = None
                             /\ disk'.meta[t] = None <=> disk.meta[t] = None
    <2>1. disk.bin \in [Tokens -> Age] /\ disk.meta \in [Tokens -> Age]
      BY DEF StagingTypes
    <2>6. \A age \in Age : CS!Older(age) \in Age /\ (CS!Older(age) = None <=> age = None)
      BY <1>1, Zenon
    <2>2. /\ disk'.bin = [t \in Tokens |-> CS!Older(disk.bin[t])]
          /\ disk'.meta = [t \in Tokens |-> CS!Older(disk.meta[t])]
      BY <1>2
    <2>. HIDE DEF Age
    <2>3. disk'.bin \in [Tokens -> Age] /\ disk'.meta \in [Tokens -> Age]
      BY <2>1, <2>2, <2>6
    <2>4. disk' \in [bin : [Tokens -> Age], meta : [Tokens -> Age]]
      BY <1>2, <2>2, <2>3
    <2>5. ASSUME NEW t \in Tokens
          PROVE  /\ disk'.bin[t] = None <=> disk.bin[t] = None
                 /\ disk'.meta[t] = None <=> disk.meta[t] = None
      BY <2>1, <2>2, <2>6
    <2>. QED
      BY <2>4, <2>5 DEF Age
  <1>4. StagingTypes' /\ KnownInv'
    BY <1>2, <1>3 DEF StagingTypes, KnownInv, Composing
  <1>5. UploadsInv'
    <2>1. ASSUME NEW q \in Requests, Uploading(q) PROVE creq[q].token \in Tokens
      BY <2>1, UploadRecord DEF Uploading
    <2>. QED
      BY <1>2, <1>3, <2>1 DEF UploadsInv, Uploading
  <1>6. \A t \in Tokens : CS!Readable(t)' <=> CS!Readable(t)
    BY <1>3 DEF CS!Readable
  <1>7. OnceInv'
    BY <1>2, <1>6 DEF OnceInv, InOnePlace, Holders, CS!Readers
  <1>8. CS!UploadAccounted'
    BY <1>2, <1>6 DEF CS!UploadAccounted, StagingTypes
  <1>. QED
    BY <1>4, <1>5, <1>7, <1>8

(* Every step of the component keeps the invariant.                        *)
LEMMA StagingNext == StagingInv /\ [CS!Next]_(CS!svars) => StagingInv'
  <1>. SUFFICES ASSUME StagingInv, [CS!Next]_(CS!svars) PROVE StagingInv'
    OBVIOUS
  <1>1. CASE UNCHANGED CS!svars
    BY <1>1 DEF CS!svars, StagingInv, StagingTypes, UploadsInv, Uploading, KnownInv,
                Composing, OnceInv, InOnePlace, Holders, CS!Readers, CS!Readable,
                CS!UploadAccounted
  <1>2. CASE CS!Next
    BY <1>2, UploadStartsKeeps, WriteBlobKeeps, WriteMetaKeeps, ComposeStartKeeps, StagedReadKeeps,
       ConsumeKeeps, DeliverKeeps, LogoutStartsKeeps, WipeOneKeeps, WipeEndsKeeps, CrashKeeps,
       TickKeeps DEF CS!Next
  <1>. QED
    BY <1>1, <1>2

(* The properties of the component running alone.                          *)
LEMMA StagingAlone == CS!Spec => []CS!TokenOnce /\ []CS!UploadAccounted
  <1>1. StagingInv => CS!TokenOnce /\ CS!UploadAccounted
    BY DEF StagingInv, OnceInv, InOnePlace, StagingTypes, CS!TokenOnce
  <1>. QED
    BY <1>1, StagingInit, StagingNext, PTL DEF CS!Spec

(* Each part of the composition is its component running alone.            *)
THEOREM PartsComposed == MCSpec => CS!Spec
  <1>1. MCInit => CS!Init
    BY DEF MCInit
  <1>2. [MCNext]_<<part, vars, bookVars, calVars, sessionVars, stagingVars, settingsVars,
                   pushVars, threadVars>> => [CS!Next]_(CS!svars)
    BY DEF MCNext, stagingVars, CS!svars
  <1>. QED
    BY <1>1, <1>2, PTL DEF MCSpec, CS!Spec

(* handlers/jsonapi/compose_attachments.go reads a token and deletes it in *)
(* two steps: whatever uploads, messages, sweeps, logouts and crashes come *)
(* between, a token is in two messages only if two requests read it before *)
(* either deleted it, or its files could not be deleted.                   *)
THEOREM AttachedOnce == MCSpec => []TokenOnce
  <1>1. CS!TokenOnce => TokenOnce
    BY DEF TokenOnce
  <1>. QED
    BY PartsComposed, StagingAlone, <1>1, PTL

(* An upload whose token was handed out and that cannot be read any more   *)
(* is in a message, held by a request, old enough for the sweep, was       *)
(* deleted for a request that failed or for a process that died, or was    *)
(* removed by a logout (handlers/web/auth.go clearUserCache).              *)
THEOREM UploadsAccounted == MCSpec => []UploadAccounted
  <1>1. CS!UploadAccounted => UploadAccounted
    BY DEF UploadAccounted
  <1>. QED
    BY PartsComposed, StagingAlone, <1>1, PTL

-----------------------------------------------------------------------------

(* What is stored, what each client has of it, and what it puts next.      *)
SettingsTypes ==
    /\ kept \in [ST!Kinds -> SUBSET ST!Item]
    /\ copy \in [Requests -> [ST!Kinds -> (SUBSET ST!Item) \cup {None}]]
    /\ body \in [Requests -> [kind : ST!Kinds, set : SUBSET ST!Item] \cup {None}]
    /\ puts \in 0..MaxPuts

(* No two items have the same name; only signatures have ids.              *)
ItemsDistinct(k, set) ==
    /\ \A i, j \in set : i.name = j.name => i = j
    /\ k # "signatures" => \A i \in set : i.id = 0

DistinctInv ==
    /\ \A k \in ST!Kinds : ItemsDistinct(k, kept[k])
    /\ \A c \in Requests, k \in ST!Kinds : copy[c][k] # None => ItemsDistinct(k, copy[c][k])
    /\ \A c \in Requests : body[c] # None => ItemsDistinct(body[c].kind, body[c].set)

SettingsInv == SettingsTypes /\ DistinctInv

-----------------------------------------------------------------------------

(* What the client makes of its copy.                                      *)
LEMMA EditedDistinct ==
    ASSUME NEW k \in ST!Kinds, NEW set,
           k # "vacation" => set \in SUBSET ST!Item /\ ItemsDistinct(k, set),
           NEW s \in ST!Edited(k, set)
    PROVE  s \in SUBSET ST!Item /\ ItemsDistinct(k, s)
  <1>1. \A n \in Titles : [name |-> n, id |-> 0] \in ST!Item
    BY SettingsAssumption DEF ST!Item, ST!Numbers
  <1>2. CASE k = "vacation"
    <2>1. PICK n \in Titles : s = {[name |-> n, id |-> 0]}
      BY <1>2 DEF ST!Edited
    <2>. QED
      BY <1>1, <2>1 DEF ItemsDistinct
  <1>3. CASE k # "vacation"
    <2>1. CASE \E i \in set : s = set \ {i}
      BY <1>3, <2>1 DEF ItemsDistinct
    <2>2. CASE \E n \in Titles \ {i.name : i \in set} : s = set \cup {[name |-> n, id |-> 0]}
      <3>1. PICK n \in Titles : /\ s = set \cup {[name |-> n, id |-> 0]}
                                /\ \A i \in set : i.name # n
        BY <2>2
      <3>. DEFINE new == [name |-> n, id |-> 0]
      <3>2. new \in ST!Item /\ new.name = n /\ new.id = 0
        BY <1>1
      <3>. HIDE DEF new
      <3>3. s = set \cup {new}
        BY <3>1 DEF new
      <3>. QED
        BY <1>3, <3>1, <3>2, <3>3 DEF ItemsDistinct
    <2>. QED
      BY <1>3, <2>1, <2>2 DEF ST!Edited
  <1>. QED
    BY <1>2, <1>3

(* What the server makes of a put, and what it answers with.               *)
LEMMA StoredDistinct ==
    ASSUME puts \in 0..MaxPuts, puts < MaxPuts,
           NEW k \in ST!Kinds, NEW set \in SUBSET ST!Item, ItemsDistinct(k, set)
    PROVE  ST!Stored(k, set) \in SUBSET ST!Item /\ ItemsDistinct(k, ST!Stored(k, set))
  <1>1. CASE k = "signatures"
    <2>. DEFINE Put(i) == IF i.id = 0 THEN [i EXCEPT !.id = puts + 1] ELSE i
    <2>1. \A i \in ST!Item : Put(i) \in ST!Item /\ Put(i).name = i.name
      <3>1. puts + 1 \in ST!Numbers
        BY SettingsAssumption DEF ST!Numbers
      <3>. QED
        BY <3>1 DEF ST!Item
    <2>2. ST!Stored(k, set) = {Put(i) : i \in set}
      BY <1>1 DEF ST!Stored, ST!Signatures
    <2>. HIDE DEF Put
    <2>. QED
      BY <1>1, <2>1, <2>2 DEF ItemsDistinct
  <1>2. CASE k # "signatures"
    BY <1>2 DEF ST!Stored, ItemsDistinct
  <1>. QED
    BY <1>1, <1>2

LEMMA EchoDistinct ==
    ASSUME NEW k \in ST!Kinds, NEW set \in SUBSET ST!Item, ItemsDistinct(k, set)
    PROVE  /\ ST!Echo(k, set) \in SUBSET ST!Item /\ ItemsDistinct(k, ST!Echo(k, set))
           /\ k = "identities" => ST!Echo(k, set) = set \cup {ST!OwnAddress}
  <1>1. /\ ST!OwnAddress \in ST!Item /\ ST!OwnAddress.id = 0
        /\ \A i \in ST!Item : i.id = 0 /\ i.name = ST!OwnAddress.name => i = ST!OwnAddress
    BY SettingsAssumption DEF ST!OwnAddress, ST!Item, ST!Numbers
  <1>2. CASE k = "identities"
    BY <1>1, <1>2 DEF ST!Echo, ItemsDistinct
  <1>3. CASE k # "identities"
    BY <1>3 DEF ST!Echo
  <1>. QED
    BY <1>2, <1>3

LEMMA SettingsInit == ST!Init => SettingsInv
  BY SettingsAssumption DEF ST!Init, SettingsInv, SettingsTypes, DistinctInv, ItemsDistinct

LEMMA SettingsNext == SettingsInv /\ [ST!Next]_settingsVars => SettingsInv'
  <1>. SUFFICES ASSUME SettingsInv, [ST!Next]_settingsVars PROVE SettingsInv'
    OBVIOUS
  <1>0. CASE UNCHANGED settingsVars
    BY <1>0 DEF SettingsInv, SettingsTypes, DistinctInv, settingsVars
  <1>1. ASSUME NEW c \in Requests, ST!handleGetSignatures(c) PROVE SettingsInv'
    <2>1. "signatures" \in ST!Kinds
      BY DEF ST!Kinds
    <2>. QED
      BY <1>1, <2>1 DEF ST!handleGetSignatures, SettingsInv, SettingsTypes, DistinctInv
  <1>2. ASSUME NEW c \in Requests, ST!handleGetIdentities(c) PROVE SettingsInv'
    <2>. DEFINE k == "identities"
                s == kept[k] \cup {ST!OwnAddress}
    <2>1. k \in ST!Kinds /\ s \in SUBSET ST!Item /\ ItemsDistinct(k, s)
      BY EchoDistinct DEF SettingsInv, SettingsTypes, DistinctInv, ST!Kinds
    <2>2. copy' = [copy EXCEPT ![c][k] = s] /\ UNCHANGED <<kept, body, puts>>
      BY <1>2 DEF ST!handleGetIdentities
    <2>. HIDE DEF k, s
    <2>. QED
      BY <2>1, <2>2 DEF SettingsInv, SettingsTypes, DistinctInv
  <1>3. ASSUME NEW c \in Requests, ST!Edit(c) PROVE SettingsInv'
    <2>1. PICK k \in ST!Kinds : \E s \in ST!Edited(k, copy[c][k]) :
             /\ copy[c][k] # None \/ k = "vacation"
             /\ body' = [body EXCEPT ![c] = [kind |-> k, set |-> s]]
      BY <1>3 DEF ST!Edit
    <2>2. PICK s \in ST!Edited(k, copy[c][k]) :
             body' = [body EXCEPT ![c] = [kind |-> k, set |-> s]]
      BY <2>1
    <2>3. s \in SUBSET ST!Item /\ ItemsDistinct(k, s)
      BY <2>1, EditedDistinct DEF SettingsInv, SettingsTypes, DistinctInv
    <2>4. UNCHANGED <<kept, copy, puts>>
      BY <1>3 DEF ST!Edit
    <2>. QED
      BY <2>2, <2>3, <2>4 DEF SettingsInv, SettingsTypes, DistinctInv
  <1>4. ASSUME NEW c \in Requests, ST!Put(c) PROVE SettingsInv'
    <2>1. /\ body[c] \in [kind : ST!Kinds, set : SUBSET ST!Item]
          /\ ItemsDistinct(body[c].kind, body[c].set)
      BY <1>4 DEF ST!Put, SettingsInv, SettingsTypes, DistinctInv
    <2>. DEFINE k == body[c].kind
                s == ST!Stored(k, body[c].set)
                e == ST!Echo(k, s)
    <2>2. k \in ST!Kinds /\ s \in SUBSET ST!Item /\ ItemsDistinct(k, s) /\ puts' \in 0..MaxPuts
      BY <1>4, <2>1, StoredDistinct, SettingsAssumption
         DEF ST!Put, SettingsInv, SettingsTypes
    <2>3. e \in SUBSET ST!Item /\ ItemsDistinct(k, e)
      BY <2>2, EchoDistinct
    <2>4. \/ UNCHANGED <<kept, copy, body>>
          \/ /\ kept' = [kept EXCEPT ![k] = s]
             /\ \/ UNCHANGED <<copy, body>>
                \/ /\ copy' = copy \/ copy' = [copy EXCEPT ![c][k] = e]
                   /\ body' = [body EXCEPT ![c] = None]
      BY <1>4 DEF ST!Put, ST!Replaced, ST!Answer
    <2>. HIDE DEF k, s, e
    <2>5. /\ kept' \in [ST!Kinds -> SUBSET ST!Item]
          /\ \A j \in ST!Kinds : kept'[j] = kept[j] \/ (j = k /\ kept'[j] = s)
      BY <2>2, <2>4 DEF SettingsInv, SettingsTypes
    <2>6. /\ copy' \in [Requests -> [ST!Kinds -> (SUBSET ST!Item) \cup {None}]]
          /\ \A d \in Requests, j \in ST!Kinds :
                copy'[d][j] = copy[d][j] \/ (j = k /\ copy'[d][j] = e)
      <3>1. CASE copy' = copy
        BY <3>1 DEF SettingsInv, SettingsTypes
      <3>2. CASE copy' = [copy EXCEPT ![c][k] = e]
        <4>. DEFINE row == [copy[c] EXCEPT ![k] = e]
        <4>1. row \in [ST!Kinds -> (SUBSET ST!Item) \cup {None}]
          BY <2>2, <2>3 DEF SettingsInv, SettingsTypes
        <4>2. /\ row[k] = e /\ \A j \in ST!Kinds : j # k => row[j] = copy[c][j]
              /\ copy' = [copy EXCEPT ![c] = row]
          BY <2>2, <3>2 DEF SettingsInv, SettingsTypes
        <4>. HIDE DEF row
        <4>. QED
          BY <4>1, <4>2 DEF SettingsInv, SettingsTypes
      <3>. QED
        BY <2>4, <3>1, <3>2
    <2>7. /\ body' \in [Requests -> [kind : ST!Kinds, set : SUBSET ST!Item] \cup {None}]
          /\ \A d \in Requests : body'[d] = body[d] \/ body'[d] = None
      BY <2>4 DEF SettingsInv, SettingsTypes
    <2>8. DistinctInv'
      BY <2>2, <2>3, <2>5, <2>6, <2>7 DEF SettingsInv, DistinctInv
    <2>. QED
      BY <2>2, <2>5, <2>6, <2>7, <2>8 DEF SettingsInv, SettingsTypes
  <1>5. ASSUME NEW c \in Requests, ST!Drop(c) PROVE SettingsInv'
    BY <1>5 DEF ST!Drop, SettingsInv, SettingsTypes, DistinctInv
  <1>. QED
    BY <1>0, <1>1, <1>2, <1>3, <1>4, <1>5 DEF ST!Next

(* The settings are those of module Settings, whatever the other           *)
(* components do.                                                          *)
LEMMA SettingsAlone == MCSpec => ST!Spec
  <1>1. MCInit => ST!Init
    BY DEF MCInit
  <1>2. [MCNext]_<<part, vars, bookVars, calVars, sessionVars, stagingVars, settingsVars,
                   pushVars, threadVars>> => [ST!Next]_(ST!tvars)
    BY DEF MCNext, settingsVars, ST!tvars
  <1>. QED
    BY <1>1, <1>2, PTL DEF MCSpec, ST!Spec

(* "PUT replaces the whole set" (handlers/jsonapi/settings.go): a put that *)
(* is repeated because its answer was lost stores no item twice, whatever  *)
(* the limit and however many apps put their sets in between.              *)
THEOREM RetriesStored == MCSpec => []RetriesStoreOnce
  <1>1. SettingsInv /\ [ST!Next]_(ST!tvars) => SettingsInv'
    BY SettingsNext DEF ST!tvars, settingsVars
  <1>2. SettingsInv => RetriesStoreOnce
    BY DEF SettingsInv, DistinctInv, ItemsDistinct, RetriesStoreOnce, ST!RetriesStoreOnce
  <1>. QED
    BY SettingsAlone, SettingsInit, <1>1, <1>2, PTL DEF ST!Spec

-----------------------------------------------------------------------------

(* A key of the store holds one subscription, a delivery a list of them.   *)
PushTypes ==
    /\ subs \in [PS!Keys -> Endpoints \cup {None}]
    /\ alive \subseteq Endpoints
    /\ sender \in [Senders -> (SUBSET Endpoints) \cup {None}]

LEMMA PushInit == PS!Init => PushTypes
  BY DEF PS!Init, PushTypes, PS!Nothing

(* A key that is written or emptied.                                       *)
LEMMA PushKeeps ==
    ASSUME PushTypes, [PS!Next]_pushVars
    PROVE  PushTypes'
  <1>1. \A e \in Endpoints : Key[e] \in PS!Keys
    BY DEF PS!Keys
  <1>2. CASE UNCHANGED pushVars
    BY <1>2 DEF PushTypes, pushVars, PS!Keys
  <1>3. CASE PS!Subscribe
    BY <1>1, <1>3 DEF PushTypes, PS!Subscribe
  <1>4. CASE PS!Unsubscribe
    BY <1>1, <1>4 DEF PushTypes, PS!Unsubscribe, PS!Removed
  <1>5. CASE PS!Expire
    BY <1>5 DEF PushTypes, PS!Expire
  <1>6. CASE PS!Logout
    BY <1>6 DEF PushTypes, PS!Logout, PS!Nothing
  <1>7. CASE PS!Restart
    BY <1>7 DEF PushTypes, PS!Restart, PS!Nothing
  <1>8. ASSUME NEW s \in Senders,
               PS!SendPush(s) \/ PS!NoneListed(s) \/ PS!Send(s) \/ PS!SendGone(s)
        PROVE  PushTypes'
    <2>1. PS!Listed \in SUBSET Endpoints
      BY DEF PS!Listed, PushTypes
    <2>2. CASE PS!SendPush(s)
      BY <2>1, <2>2 DEF PushTypes, PS!SendPush
    <2>3. CASE PS!NoneListed(s)
      BY <2>3 DEF PushTypes, PS!NoneListed
    <2>4. CASE PS!Send(s)
      BY <2>4 DEF PushTypes, PS!Send, PS!Tried
    <2>5. CASE PS!SendGone(s)
      BY <2>5 DEF PushTypes, PS!SendGone, PS!Tried, PS!Removed
    <2>. QED
      BY <1>8, <2>2, <2>3, <2>4, <2>5
  <1>. QED
    BY <1>2, <1>3, <1>4, <1>5, <1>6, <1>7, <1>8 DEF PS!Next

(* handlers/web/push.go: what the store gives up without being asked.      *)
LEMMA PushStep ==
    ASSUME PushTypes, PS!Next, NEW e \in Endpoints, PS!Holds(e), subs'[Key[e]] # e
    PROVE  \/ e \notin alive' \/ PS!Shares(e)
           \/ handle' = "none" /\ subs' = PS!Nothing
  <1>1. Key[e] \in PS!Keys /\ subs[Key[e]] = e
    BY DEF PS!Keys, PS!Holds
  <1>2. ASSUME NEW f \in Endpoints, f # e, Key[f] = Key[e] PROVE PS!Shares(e)
    BY <1>2 DEF PS!Shares
  <1>3. \/ PS!Subscribe \/ PS!Unsubscribe \/ PS!Logout \/ PS!Restart
        \/ \E s \in Senders : PS!SendGone(s)
    BY <1>1 DEF PS!Next, PS!Expire, PS!SendPush, PS!NoneListed, PS!Send
  <1>4. CASE PS!Subscribe
    <2>1. PICK f \in Endpoints : subs' = [subs EXCEPT ![Key[f]] = f]
      BY <1>4 DEF PS!Subscribe, PushTypes
    <2>2. Key[f] = Key[e] /\ f # e
      BY <1>1, <2>1 DEF PushTypes
    <2>. QED
      BY <1>2, <2>2
  <1>5. ASSUME NEW f \in Endpoints, subs' = PS!Removed(f), f \notin alive'
        PROVE  e \notin alive' \/ PS!Shares(e)
    <2>1. Key[f] = Key[e]
      BY <1>1, <1>5 DEF PushTypes, PS!Removed
    <2>. QED
      BY <1>2, <1>5, <2>1
  <1>6. CASE PS!Unsubscribe
    BY <1>5, <1>6 DEF PS!Unsubscribe, PushTypes
  <1>7. CASE \E s \in Senders : PS!SendGone(s)
    BY <1>5, <1>7 DEF PS!SendGone, PushTypes
  <1>8. CASE PS!Logout \/ PS!Restart
    BY <1>1, <1>8 DEF PS!Logout, PS!Restart
  <1>. QED
    BY <1>3, <1>4, <1>6, <1>7, <1>8

(* The push subscriptions are those of module PushStore, whatever the      *)
(* other components do.                                                    *)
LEMMA PushAlone == MCSpec => PS!Spec
  <1>1. MCInit => PS!Init
    BY DEF MCInit
  <1>2. [MCNext]_<<part, vars, bookVars, calVars, sessionVars, stagingVars, settingsVars,
                   pushVars, threadVars>> => [PS!Next]_(PS!pvars)
    BY DEF MCNext, pushVars, PS!pvars
  <1>. QED
    BY <1>1, <1>2, PTL DEF MCSpec, PS!Spec

(* "Expired/invalid subscriptions (HTTP 410 Gone) are removed from the     *)
(* store automatically" (handlers/web/push.go): and no others, unless two  *)
(* endpoints share a key or a logout has removed the file.                 *)
THEOREM OnlyGoneRemoved == MCSpec => OnlyGoneIsRemoved
  <1>1. PushTypes /\ [PS!Next]_(PS!pvars) => PushTypes'
    BY PushKeeps DEF PS!pvars, pushVars
  <1>2. PushTypes /\ [PS!Next]_(PS!pvars) =>
           [\A e \in Endpoints :
               PS!Holds(e) /\ subs'[Key[e]] # e =>
                  \/ e \notin alive'
                  \/ PS!Shares(e)
                  \/ handle' = "none" /\ subs' = PS!Nothing]_(PS!pvars)
    BY PushStep
  <1>. QED
    BY PushAlone, PushInit, <1>1, <1>2, PTL DEF PS!Spec, OnlyGoneIsRemoved, PS!OnlyGoneIsRemoved

-----------------------------------------------------------------------------

(* Types.  The bounds of the staged attachments: a file is at most one     *)
(* tick too old, and no more messages are composed than the bound says.    *)
StagingBounds ==
    /\ disk \in [bin : [Tokens -> CS!Ages \cup {None}], meta : [Tokens -> CS!Ages \cup {None}]]
    /\ composed \in 0..MaxComposed

LEMMA StagingBoundsNext ==
    ASSUME StagingInv, StagingBounds, [CS!Next]_(CS!svars)
    PROVE  StagingBounds'
  <1>. DEFINE A == CS!Ages \cup {None}
  <1>0. 0 \in A /\ None \in A
    BY StagingAssumption DEF CS!Ages
  <1>1. ASSUME NEW files \in [Tokens -> A], NEW ts PROVE CS!Without(files, ts) \in [Tokens -> A]
    BY DEF CS!Without
  <1>2. ASSUME NEW age \in A PROVE CS!Older(age) \in A
    BY StagingAssumption DEF CS!Older, CS!Ages
  <1>. HIDE DEF A
  <1>3. disk \in [bin : [Tokens -> A], meta : [Tokens -> A]] /\ composed \in 0..MaxComposed
    BY DEF StagingBounds, A
  <1>4. \A bin, meta \in [Tokens -> A] :
           disk' = CS!Files(bin, meta) => disk' \in [bin : [Tokens -> A], meta : [Tokens -> A]]
    BY DEF CS!Files
  <1>5. CASE disk' = disk /\ composed' = composed
    BY <1>5 DEF StagingBounds
  <1>6. CASE disk' = disk /\ composed < MaxComposed /\ composed' = composed + 1
    BY <1>3, <1>6, StagingAssumption DEF StagingBounds
  <1>7. CASE /\ composed' = composed
             /\ \E bin, meta \in [Tokens -> A] : disk' = CS!Files(bin, meta)
    BY <1>3, <1>4, <1>7 DEF StagingBounds, A
  <1>8. CASE CS!Tick
    BY <1>2, <1>3, <1>7, <1>8 DEF CS!Tick
  <1>9. ASSUME NEW r \in Requests, CS!UploadStarts(r) \/ CS!Consume(r) PROVE StagingBounds'
    BY <1>1, <1>3, <1>5, <1>7, <1>9 DEF CS!UploadStarts, CS!Consume, CS!Swept
  <1>11. ASSUME NEW r \in Requests, CS!WipeOne(r) PROVE StagingBounds'
    <2>1. PICK t \in Tokens : \/ disk' = [disk EXCEPT !.bin[t] = None]
                              \/ disk' = [disk EXCEPT !.meta[t] = None]
      BY <1>11 DEF CS!WipeOne
    <2>2. PICK bin, meta \in [Tokens -> A] : disk = CS!Files(bin, meta)
      BY <1>3 DEF CS!Files
    <2>3. /\ [bin EXCEPT ![t] = None] \in [Tokens -> A]
          /\ [meta EXCEPT ![t] = None] \in [Tokens -> A]
      BY <1>0
    <2>4. \/ disk' = CS!Files([bin EXCEPT ![t] = None], meta)
          \/ disk' = CS!Files(bin, [meta EXCEPT ![t] = None])
      BY <2>1, <2>2 DEF CS!Files
    <2>. QED
      BY <1>7, <1>11, <2>3, <2>4 DEF CS!WipeOne
  <1>10. ASSUME NEW r \in Requests, CS!WriteBlob(r) \/ CS!WriteMeta(r) PROVE StagingBounds'
    <2>1. creq[r] # None /\ creq[r].pc \in {"bin", "meta"}
      BY <1>10 DEF CS!WriteBlob, CS!WriteMeta
    <2>2. PICK t \in Tokens : t = creq[r].token
      BY <2>1, UploadRecord DEF Uploading, StagingInv
    <2>3. \/ disk' = disk \/ disk' = [disk EXCEPT !.bin[t] = 0]
          \/ disk' = [disk EXCEPT !.meta[t] = 0]
          \/ \E age \in A : disk' = [disk EXCEPT !.meta[t] = age, !.bin[t] = None]
      BY <1>0, <1>10, <2>2 DEF CS!WriteBlob, CS!WriteMeta
    <2>4. disk' \in [bin : [Tokens -> A], meta : [Tokens -> A]]
      <3>1. PICK bin, meta \in [Tokens -> A] : disk = CS!Files(bin, meta)
        BY <1>3 DEF CS!Files
      <3>2. \A age \in A : /\ [bin EXCEPT ![t] = age] \in [Tokens -> A]
                            /\ [meta EXCEPT ![t] = age] \in [Tokens -> A]
        OBVIOUS
      <3>3. \/ disk' = CS!Files(bin, meta)
            \/ disk' = CS!Files([bin EXCEPT ![t] = 0], meta)
            \/ disk' = CS!Files(bin, [meta EXCEPT ![t] = 0])
            \/ \E age \in A :
                  disk' = CS!Files([bin EXCEPT ![t] = None], [meta EXCEPT ![t] = age])
        BY <2>3, <3>1 DEF CS!Files
      <3>. QED
        BY <1>0, <1>4, <3>2, <3>3
    <2>5. composed' = composed
      BY <1>10 DEF CS!WriteBlob, CS!WriteMeta
    <2>. QED
      BY <1>3, <2>4, <2>5 DEF StagingBounds, A
  <1>. QED
    BY <1>5, <1>6, <1>8, <1>9, <1>10, <1>11
       DEF CS!Next, CS!svars, CS!ComposeStarts, CS!ComposeTwice, CS!Read, CS!Deliver,
           CS!LogoutStarts, CS!WipeEnds, CS!Crash

LEMMA StagingTyped == CS!Spec => []CS!TypeOK
  <1>1. CS!Init => StagingBounds
    BY StagingAssumption DEF CS!Init, StagingBounds
  <1>2. StagingInv /\ StagingBounds /\ [CS!Next]_(CS!svars) => StagingBounds'
    BY StagingBoundsNext
  <1>3. StagingInv /\ StagingBounds => CS!TypeOK
    <2>. SUFFICES ASSUME StagingInv, StagingBounds PROVE CS!TypeOK
      OBVIOUS
    <2>1. ASSUME NEW r \in Requests, creq[r] # None
          PROVE  /\ creq[r].pc \in {"bin", "meta", "read", "consume", "deliver", "wipe"}
                 /\ creq[r].held \subseteq Tokens
      <3>1. creq[r] \in StagingRequest
        BY <2>1 DEF StagingInv, StagingTypes
      <3>. QED
        BY <3>1 DEF StagingRequest
    <2>. QED
      BY <2>1 DEF StagingInv, StagingTypes, StagingBounds, CS!TypeOK
  <1>. QED
    BY StagingInit, StagingNext, <1>1, <1>2, <1>3, PTL DEF CS!Spec

LEMMA SettingsTyped == ST!Spec => []ST!TypeOK
  <1>1. SettingsInv /\ [ST!Next]_(ST!tvars) => SettingsInv'
    BY SettingsNext DEF ST!tvars, settingsVars
  <1>2. SettingsInv => ST!TypeOK
    <2>. SUFFICES ASSUME SettingsInv PROVE ST!TypeOK
      OBVIOUS
    <2>1. ASSUME NEW c \in Requests, body[c] # None
          PROVE  body[c].kind \in ST!Kinds /\ body[c].set \subseteq ST!Item
      BY <2>1 DEF SettingsInv, SettingsTypes
    <2>2. \A c \in Requests, k \in ST!Kinds : copy[c][k] = None \/ copy[c][k] \subseteq ST!Item
      BY DEF SettingsInv, SettingsTypes
    <2>. QED
      BY <2>1, <2>2 DEF SettingsInv, SettingsTypes, ST!TypeOK
  <1>. QED
    BY SettingsInit, <1>1, <1>2, PTL DEF ST!Spec

LEMMA PushTyped == PS!Spec => []PS!TypeOK
  <1>. DEFINE opened == handle \in {"none", "linked", "cut"}
  <1>1. PS!Init => opened
    BY DEF PS!Init
  <1>2. opened /\ [PS!Next]_(PS!pvars) => opened'
    BY DEF PS!Next, PS!pvars, PS!Open, PS!Subscribe, PS!Unsubscribe, PS!Expire, PS!Logout,
       PS!Restart, PS!SendPush, PS!NoneListed, PS!Send, PS!SendGone
  <1>3. PushTypes /\ [PS!Next]_(PS!pvars) => PushTypes'
    BY PushKeeps DEF PS!pvars, pushVars
  <1>4. PushTypes /\ opened => PS!TypeOK
    BY DEF PushTypes, PS!TypeOK
  <1>. HIDE DEF opened
  <1>. QED
    BY PushInit, <1>1, <1>2, <1>3, <1>4, PTL DEF PS!Spec

(* Whatever the requests of a user, other clients and failures do in any   *)
(* order: mailboxes, contacts, calendar, session, staged attachments,      *)
(* settings, subscriptions and threads keep the shape their handlers read  *)
(* them by, and no counter passes its bound.                               *)
THEOREM TypesCorrect == MCSpec => []TypesOK
  <1>1. MCSpec => Spec
    <2>1. MCInit => Init
      BY DEF MCInit
    <2>2. [MCNext]_<<part, vars, bookVars, calVars, sessionVars, stagingVars, settingsVars,
                     pushVars, threadVars>> => [Next]_vars
      BY Zenon DEF MCNext
    <2>. QED
      BY <2>1, <2>2, PTL DEF MCSpec, Spec
  <1>2. /\ TypeOK /\ AB!TypeOK /\ CA!TypeOK /\ SE!TypeOK /\ CS!TypeOK /\ ST!TypeOK
        /\ PS!TypeOK /\ TH!TypeOK
        => TypesOK
    BY Zenon DEF TypesOK
  <1>. QED
    BY <1>1, <1>2, MailTyped, ContactsAlone, ContactsTyped, CalendarAlone, CalendarTyped,
       SessionAlone, SessionTyped, PartsComposed, StagingTyped, SettingsAlone, SettingsTyped,
       PushAlone, PushTyped, ThreadsTyped, PTL

=============================================================================
