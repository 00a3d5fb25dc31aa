------------------------------ MODULE Settings ------------------------------
(***************************************************************************)
(* The signatures and send-as identities of one account                    *)
(* (handlers/jsonapi/settings.go, settings_store.go).  A client reads a    *)
(* set, edits its copy and puts the whole set back; the server checks it,  *)
(* gives an id to each signature that has none, and replaces what it       *)
(* holds, without a look at what that is now.  The answer may be lost, and *)
(* the client then repeats the same request.                               *)
(*                                                                         *)
(* A signature is named by its text and has an id; an identity is its      *)
(* address; the vacation responder is one value, put and read whole.       *)
(***************************************************************************)
EXTENDS Naturals, FiniteSets

CONSTANTS
    Clients,    \* the user's open apps
    Names,      \* texts of signatures, addresses of aliases
    Primary,    \* the account's own address
    Limit,      \* maxSignatures, maxIdentities
    MaxPuts,    \* bound on the requests
    None

VARIABLES
    kept,       \* [kind |-> the stored set]
    copy,       \* [client |-> [kind |-> the set it last read, or None]]
    body,       \* [client |-> the request it may repeat, or None]
    puts        \* requests so far

tvars == <<kept, copy, body, puts>>

Kinds == {"signatures", "identities", "vacation"}

(* An item without an id is new; an identity needs none. *)
Numbers == 0..MaxPuts

Item == [name : Names \cup {Primary}, id : Numbers]

TypeOK ==
    /\ kept \in [Kinds -> SUBSET Item]
    /\ \A c \in Clients, k \in Kinds : copy[c][k] = None \/ copy[c][k] \subseteq Item
    /\ \A c \in Clients : body[c] # None =>
          /\ body[c].kind \in Kinds
          /\ body[c].set \subseteq Item
    /\ puts \in 0..MaxPuts

Init ==
    /\ kept = [k \in Kinds |-> {}]
    /\ copy = [c \in Clients |-> [k \in Kinds |-> None]]
    /\ body = [c \in Clients |-> None]
    /\ puts = 0

(* handleGetSignatures: what is stored.  The responder is read likewise,   *)
(* and written without regard to what was read.                            *)
handleGetSignatures(c) ==
    /\ body[c] = None
    /\ copy' = [copy EXCEPT ![c]["signatures"] = kept["signatures"]]
    /\ UNCHANGED <<kept, body, puts>>

OwnAddress == [name |-> Primary, id |-> 0]

(* handleGetIdentities puts the mailbox's own address first. *)
handleGetIdentities(c) ==
    /\ body[c] = None
    /\ copy' = [copy EXCEPT ![c]["identities"] = kept["identities"] \cup {OwnAddress}]
    /\ UNCHANGED <<kept, body, puts>>

(* The client adds an item with a name its copy has not, or removes one;   *)
(* of the responder it has one.                                            *)
Edited(k, set) ==
    IF k = "vacation" THEN {{[name |-> n, id |-> 0]} : n \in Names} ELSE
    {set \cup {[name |-> n, id |-> 0]} : n \in Names \ {i.name : i \in set}}
        \cup {set \ {i} : i \in set}

Edit(c) ==
    /\ body[c] = None
    /\ \E k \in Kinds :
          /\ copy[c][k] # None \/ k = "vacation"
          /\ \E s \in Edited(k, copy[c][k]) :
                body' = [body EXCEPT ![c] = [kind |-> k, set |-> s]]
    /\ UNCHANGED <<kept, copy, puts>>

(* handlePutSignatures: a new id for an item that has none *)
Signatures(set) ==
    {IF i.id = 0 THEN [i EXCEPT !.id = puts + 1] ELSE i : i \in set}

(* A put that adds to the stored set. *)
StoredBeside(k, set) ==
    IF k = "signatures" THEN kept[k] \cup Signatures(set) ELSE set \ {OwnAddress}

(* handlePutIdentities drops the own address, which a client may echo.     *)
Stored(k, set) == IF k = "signatures" THEN Signatures(set) ELSE set \ {OwnAddress}

Answer(c, k, set) ==
    /\ copy' = IF k = "vacation" THEN copy ELSE [copy EXCEPT ![c][k] = set]
    /\ body' = [body EXCEPT ![c] = None]

(* What a put answers with: identities as a get does. *)
Echo(k, set) == IF k = "identities" THEN set \cup {OwnAddress} ELSE set

(* put: the value of the kind, whatever is there now. *)
Replaced(k, s) == [kept EXCEPT ![k] = s]

(* A set that is too large is refused, and the store may fail; otherwise   *)
(* the answer arrives, or it is lost and the client may repeat the body.   *)
Put(c) ==
    /\ body[c] # None
    /\ puts < MaxPuts /\ puts' = puts + 1
    /\ LET k == body[c].kind
           s == Stored(k, body[c].set)
       IN  \/ /\ Cardinality(s) <= Limit
              /\ kept' = Replaced(k, s)
              /\ \/ Answer(c, k, Echo(k, s))
                 \/ UNCHANGED <<copy, body>>
           \/ UNCHANGED <<kept, copy, body>>

(* The client gives up, or was told that the set is too large. *)
Drop(c) ==
    /\ body[c] # None
    /\ body' = [body EXCEPT ![c] = None]
    /\ UNCHANGED <<kept, copy, puts>>

Next ==
    \E c \in Clients :
        \/ handleGetSignatures(c) \/ handleGetIdentities(c)
        \/ Edit(c) \/ Put(c) \/ Drop(c)

Spec == Init /\ [][Next]_tvars

(* "PUT replaces the whole set" (settings.go:232): a put that is repeated  *)
(* because its answer was lost stores no item twice, although the server   *)
(* gives a new signature another id each time and other clients put their  *)
(* sets in between.                                                        *)
RetriesStoreOnce ==
    \A k \in Kinds : \A i, j \in kept[k] : i.name = j.name => i = j

=============================================================================
