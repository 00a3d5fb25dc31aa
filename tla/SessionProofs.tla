---------------------------- MODULE SessionProofs ----------------------------
(***************************************************************************)
(* Theorems about the session of a user in the runs of MCRequests (module  *)
(* Session), whatever the other components do.                             *)
(*                                                                         *)
(* SessionInv says what a request that has read the session still knows of *)
(* it when it saves its copy: nothing, if another saved in between (the    *)
(* copy is stale then), and that it is the same, if none did.              *)
(***************************************************************************)
EXTENDS MCRequests, TLAPS

(* A request under way.                                                    *)
SessionRequest ==
    [pc : {"read", "net", "save", "commit"}, op : SE!Ops, arg : Users \cup {None},
     owner : SE!Mailboxes \cup {None}, copy : SE!Blob, old : BOOLEAN, stale : BOOLEAN]

Idles(r) == sessionReq[r].pc = "idle"

(* It waits for the provider with the refresh token it spent.              *)
Refreshing(r) == SE!At(r, "open", "net")

(* It has read the session and not saved it yet.                           *)
Holding(r) == sessionReq[r].pc \in {"save", "commit"} \/ Refreshing(r)

SessionTypes ==
    /\ blob \in SE!Blob
    /\ sessionReq \in [Requests -> SessionRequest \cup {SE!Idle}]
    /\ \A r \in Requests : sessionReq[r].pc = "net" => sessionReq[r].op \in {"open", "switch"}
    /\ grant \in [Users -> 1..MaxGrants]
    /\ accounts \in [SE!Mailboxes \X SE!Mailboxes -> SE!Entry \cup {None}]
    /\ slip \in BOOLEAN

(* A session shows an address from the login that signed it in on.         *)
Shown(b) == b.email # None => b.auth

ShownInv == Shown(blob) /\ \A r \in Requests : Holding(r) => Shown(sessionReq[r].copy)

(* What a request knows of a session that was not saved since.             *)
AgeInv ==
    \A r \in Requests : ~Idles(r) =>
        /\ ~sessionReq[r].old /\ sessionReq[r].op \in SE!Protected => blob.auth
        /\ ~sessionReq[r].old /\ Holding(r) => sessionReq[r].copy.auth = blob.auth
        /\ ~sessionReq[r].stale /\ sessionReq[r].pc \in {"save", "commit"}
              => sessionReq[r].copy = blob

Granted(b) == b.tok # None => b.tok.gen <= grant[b.tok.user]

Current(b) == b.tok.gen = grant[b.tok.user]

(* A spent token is in no session, and no request has its successor, until *)
(* the request that spent it has saved.                                    *)
GrantInv ==
    /\ Granted(blob) /\ \A r \in Requests : Holding(r) => Granted(sessionReq[r].copy)
    /\ \A r \in Requests : Refreshing(r) =>
          /\ sessionReq[r].copy.tok # None
          /\ ~sessionReq[r].stale =>
                /\ Current(sessionReq[r].copy)
                /\ Rotates => /\ blob.tok # sessionReq[r].copy.tok
                              /\ \A q \in Requests \ {r} : Holding(q) =>
                                    sessionReq[q].copy.tok # sessionReq[r].copy.tok
    /\ ~Rotates => \A u \in Users : grant[u] = 1

SessionInv == SessionTypes /\ ShownInv /\ AgeInv /\ GrantInv /\ SE!TokenUsable

-----------------------------------------------------------------------------

(* None marks what is not there, and is nothing that may be there.         *)
LEMMA NoneIsNobody ==
    /\ Home \subseteq Users /\ Demo \notin Users /\ None \notin Users /\ None # Demo
    /\ None \notin SE!Token /\ MaxGrants \in Nat /\ MaxGrants >= 1 /\ Rotates \in BOOLEAN
  BY SessionAssumption DEF SE!Token

(* A request under way is not idle.                                        *)
LEMMA SessionRequestKnown ==
    ASSUME SessionTypes, NEW r \in Requests
    PROVE  /\ Idles(r) => sessionReq[r] = SE!Idle
           /\ ~Idles(r) => sessionReq[r] \in SessionRequest
           /\ Holding(r) => ~Idles(r)
  BY DEF SessionTypes, Idles, SessionRequest, SE!Idle, Holding, Refreshing, SE!At

LEMMA SessionInit == SE!Init => SessionInv
  <1>. SUFFICES ASSUME SE!Init PROVE SessionInv
    OBVIOUS
  <1>1. SE!Empty \in SE!Blob /\ SE!Empty.tok = None /\ SE!Empty.email = None
    BY DEF SE!Empty, SE!Blob
  <1>2. \A r \in Requests : sessionReq[r] = SE!Idle /\ Idles(r) /\ ~Holding(r) /\ ~Refreshing(r)
    BY DEF SE!Init, Idles, SE!Idle, Holding, Refreshing, SE!At
  <1>3. SessionTypes
    <2>1. \A r \in Requests : sessionReq[r].pc # "net"
      BY <1>2 DEF SE!Idle
    <2>2. grant \in [Users -> 1..MaxGrants]
      BY NoneIsNobody DEF SE!Init
    <2>3. sessionReq \in [Requests -> SessionRequest \cup {SE!Idle}]
      BY DEF SE!Init
    <2>4. accounts \in [SE!Mailboxes \X SE!Mailboxes -> SE!Entry \cup {None}]
      BY DEF SE!Init
    <2>. QED
      BY <1>1, <2>1, <2>2, <2>3, <2>4 DEF SE!Init, SessionTypes
  <1>4. ShownInv /\ AgeInv
    BY <1>1, <1>2 DEF SE!Init, ShownInv, Shown, AgeInv
  <1>5. GrantInv
    BY <1>1, <1>2 DEF SE!Init, GrantInv, Granted
  <1>6. SE!TokenUsable
    BY <1>1 DEF SE!Init, SE!TokenUsable
  <1>. QED
    BY <1>3, <1>4, <1>5, <1>6 DEF SessionInv
-----------------------------------------------------------------------------

(* A save or a logout: the other requests that were under way are old.     *)
LEMMA ReplaceIs ==
    ASSUME SessionTypes, NEW r \in Requests, NEW b, SE!Replace(r, b)
    PROVE  /\ blob' = b /\ sessionReq'[r] = SE!Idle
           /\ sessionReq' \in [Requests -> SessionRequest \cup {SE!Idle}]
           /\ \A q \in Requests \ {r} : Idles(q) => sessionReq'[q] = sessionReq[q]
           /\ \A q \in Requests \ {r} : ~Idles(q) =>
                 /\ sessionReq'[q].pc = sessionReq[q].pc /\ sessionReq'[q].op = sessionReq[q].op
                 /\ sessionReq'[q].copy = sessionReq[q].copy
                 /\ sessionReq'[q].old /\ (sessionReq'[q].stale <=> sessionReq[q].pc # "read")
  <1>1. blob' = b /\ sessionReq'[r] = SE!Idle
    BY DEF SE!Replace
  <1>2. \A q \in Requests \ {r} : Idles(q) => sessionReq'[q] = sessionReq[q]
    BY DEF SE!Replace, Idles
  <1>3. ASSUME NEW q \in Requests \ {r}, ~Idles(q)
        PROVE  /\ sessionReq'[q] \in SessionRequest
               /\ sessionReq'[q].pc = sessionReq[q].pc /\ sessionReq'[q].op = sessionReq[q].op
               /\ sessionReq'[q].copy = sessionReq[q].copy
               /\ sessionReq'[q].old /\ (sessionReq'[q].stale <=> sessionReq[q].pc # "read")
    <2>1. sessionReq[q] \in SessionRequest
      BY <1>3, SessionRequestKnown
    <2>2. sessionReq'[q] = [sessionReq[q] EXCEPT !.old = TRUE,
                                                 !.stale = sessionReq[q].pc # "read"]
      BY <1>3 DEF SE!Replace, Idles
    <2>3. PICK c \in SessionRequest : c = sessionReq[q]
      BY <2>1
    <2>4. PICK s \in BOOLEAN : s = (c.pc # "read")
      OBVIOUS
    <2>5. sessionReq'[q] = [c EXCEPT !.old = TRUE, !.stale = s]
      BY <2>2, <2>3, <2>4
    <2>. QED
      BY <2>3, <2>4, <2>5 DEF SessionRequest
  <1>4. sessionReq' \in [Requests -> SessionRequest \cup {SE!Idle}]
    <2>1. \A q \in Requests : sessionReq'[q] \in SessionRequest \cup {SE!Idle}
      BY <1>1, <1>2, <1>3, SessionRequestKnown
    <2>2. DOMAIN sessionReq' = Requests /\ sessionReq' = [q \in Requests |-> sessionReq'[q]]
      BY DEF SE!Replace
    <2>. QED
      BY <2>1, <2>2
  <1>. QED
    BY <1>1, <1>2, <1>3, <1>4

(* A session that is saved.                                                *)
LEMMA SaveKeeps ==
    ASSUME SessionInv, NEW r \in Requests, NEW b \in SE!Blob, SE!Replace(r, b),
           UNCHANGED grant, Shown(b), Granted(b), slip' \in BOOLEAN, slip => slip',
           accounts' \in [SE!Mailboxes \X SE!Mailboxes -> SE!Entry \cup {None}],
           ~slip' => \/ b.tok = None \/ Current(b)
                     \/ b.tok = blob.tok /\ ~Refreshing(r)
    PROVE  SessionInv'
  <1>. USE DEF SessionInv
  <1>1. /\ blob' = b /\ sessionReq'[r] = SE!Idle
        /\ sessionReq' \in [Requests -> SessionRequest \cup {SE!Idle}]
        /\ \A q \in Requests \ {r} : Idles(q) => sessionReq'[q] = sessionReq[q]
        /\ \A q \in Requests \ {r} : ~Idles(q) =>
              /\ sessionReq'[q].pc = sessionReq[q].pc /\ sessionReq'[q].op = sessionReq[q].op
              /\ sessionReq'[q].copy = sessionReq[q].copy
              /\ sessionReq'[q].old /\ (sessionReq'[q].stale <=> sessionReq[q].pc # "read")
    BY ReplaceIs
  <1>2. Idles(r)' /\ ~Holding(r)' /\ ~Refreshing(r)' /\ sessionReq'[r].pc = "idle"
    BY <1>1 DEF Idles, Holding, Refreshing, SE!At, SE!Idle
  <1>3. \A q \in Requests \ {r} :
           /\ Idles(q)' <=> Idles(q)
           /\ Holding(q)' <=> Holding(q)
           /\ Refreshing(q)' <=> Refreshing(q)
           /\ sessionReq'[q].pc = sessionReq[q].pc
    BY <1>1 DEF Idles, Holding, Refreshing, SE!At
  <1>4. \A q \in Requests \ {r} : Holding(q)' =>
           /\ Holding(q) /\ ~Idles(q) /\ sessionReq'[q].copy = sessionReq[q].copy
           /\ sessionReq'[q].stale
    BY <1>1, <1>3, SessionRequestKnown DEF Holding, Refreshing, SE!At
  <1>5. SessionTypes'
    <2>1. \A q \in Requests : sessionReq'[q].pc = "net" => sessionReq'[q].op \in {"open", "switch"}
      BY <1>1, <1>2 DEF SessionTypes, Idles
    <2>. QED
      BY <1>1, <2>1 DEF SessionTypes
  <1>6. ShownInv'
    BY <1>1, <1>2, <1>4 DEF ShownInv, Shown
  <1>7. AgeInv'
    BY <1>1, <1>2, <1>3, <1>4 DEF AgeInv, Holding
  <1>8. GrantInv'
    <2>1. \A q \in Requests : Refreshing(q)' => q # r /\ Holding(q)' /\ Refreshing(q)
      BY <1>2, <1>3 DEF Holding
    <2>2. \A q \in Requests : Holding(q)' => q # r
      BY <1>2
    <2>. QED
      BY <1>1, <1>4, <2>1, <2>2 DEF GrantInv, Granted, Current
  <1>9. SE!TokenUsable'
    <2>1. SUFFICES ASSUME b.tok # None, ~slip'
                   PROVE  \/ Current(b)
                          \/ \E q \in Requests : /\ Refreshing(q)'
                                                 /\ sessionReq'[q].copy.tok.user = b.tok.user
      BY <1>1 DEF SE!TokenUsable, Current, Refreshing
    <2>2. CASE b.tok = blob.tok /\ ~Refreshing(r)
      <3>1. \/ Current(blob)
            \/ \E q \in Requests : Refreshing(q) /\ sessionReq[q].copy.tok.user = blob.tok.user
        BY <2>1, <2>2 DEF SE!TokenUsable, Current, Refreshing, SessionTypes
      <3>2. CASE Current(blob)
        BY <2>2, <3>2 DEF Current
      <3>3. CASE \E q \in Requests : Refreshing(q) /\ sessionReq[q].copy.tok.user = blob.tok.user
        <4>1. PICK q \in Requests : Refreshing(q) /\ sessionReq[q].copy.tok.user = blob.tok.user
          BY <3>3
        <4>2. q # r
          BY <2>2, <4>1
        <4>3. Refreshing(q)' /\ Holding(q)'
          BY <1>3, <4>1, <4>2 DEF Holding
        <4>. QED
          BY <1>4, <2>2, <4>1, <4>2, <4>3
      <3>. QED
        BY <3>1, <3>2, <3>3
    <2>. QED
      BY <2>1, <2>2
  <1>. QED
    BY <1>5, <1>6, <1>7, <1>8, <1>9

(* A request that begins, reads the session, or ends.                      *)
LEMMA RequestKeeps ==
    ASSUME SessionInv, NEW r \in Requests, NEW q \in SessionRequest \cup {SE!Idle},
           sessionReq' = [sessionReq EXCEPT ![r] = q], UNCHANGED <<blob, grant>>,
           accounts' \in [SE!Mailboxes \X SE!Mailboxes -> SE!Entry \cup {None}],
           slip' \in BOOLEAN, slip => slip', Refreshing(r) => slip',
           q.pc = "net" => q.op = "switch", q.pc = "save" => q.copy = blob, q.pc # "commit",
           q.pc # "idle" /\ q.op \in SE!Protected => q.old \/ blob.auth
    PROVE  SessionInv'
  <1>. USE DEF SessionInv
  <1>1. /\ sessionReq'[r] = q /\ \A p \in Requests \ {r} : sessionReq'[p] = sessionReq[p]
        /\ sessionReq' \in [Requests -> SessionRequest \cup {SE!Idle}]
    BY DEF SessionTypes
  <1>2. /\ ~Refreshing(r)' /\ (Holding(r)' => q.pc = "save")
        /\ \A p \in Requests \ {r} : /\ Refreshing(p)' <=> Refreshing(p)
                                     /\ Holding(p)' <=> Holding(p)
                                     /\ Idles(p)' <=> Idles(p)
    BY <1>1 DEF Refreshing, Holding, Idles, SE!At
  <1>3. SessionTypes'
    BY <1>1 DEF SessionTypes
  <1>4. ShownInv'
    BY <1>1, <1>2 DEF ShownInv
  <1>5. AgeInv'
    BY <1>1, <1>2 DEF AgeInv, Idles
  <1>6. GrantInv'
    BY <1>1, <1>2 DEF GrantInv, Granted, Current
  <1>7. SE!TokenUsable'
    <2>1. SUFFICES ASSUME blob.tok # None, ~slip'
                   PROVE  \/ Current(blob)
                          \/ \E p \in Requests : /\ Refreshing(p)'
                                                 /\ sessionReq'[p].copy.tok.user = blob.tok.user
      BY DEF SE!TokenUsable, Current, Refreshing
    <2>2. \/ Current(blob)
          \/ \E p \in Requests : Refreshing(p) /\ sessionReq[p].copy.tok.user = blob.tok.user
      BY <2>1 DEF SE!TokenUsable, Current, Refreshing, SessionTypes
    <2>. QED
      BY <1>1, <1>2, <2>1, <2>2
  <1>. QED
    BY <1>3, <1>4, <1>5, <1>6, <1>7

(* A refresh: the provider takes the token and gives the next one.         *)
LEMMA RefreshKeeps ==
    ASSUME SessionInv, NEW r \in Requests, SE!Refresh(r)
    PROVE  SessionInv'
  <1>. USE DEF SessionInv
  <1>1. PICK c \in SessionRequest : c = sessionReq[r] /\ c.pc = "save" /\ c.op = "open"
    BY SessionRequestKnown DEF SE!Refresh, SE!At, Idles
  <1>2. PICK t \in SE!Token : t = c.copy.tok /\ grant[t.user] = t.gen
    BY <1>1 DEF SE!Refresh, SessionRequest, SE!Blob
  <1>3. PICK g \in 1..MaxGrants :
           /\ g = IF Rotates THEN t.gen + 1 ELSE t.gen
           /\ grant' = [grant EXCEPT ![t.user] = g]
           /\ sessionReq' = [sessionReq EXCEPT ![r].copy.tok.gen = g, ![r].pc = "net"]
    <2>. DEFINE g == IF Rotates THEN t.gen + 1 ELSE t.gen
    <2>1. t = sessionReq[r].copy.tok
      BY <1>1, <1>2
    <2>2. /\ g <= MaxGrants /\ grant' = [grant EXCEPT ![t.user] = g]
          /\ sessionReq' = [sessionReq EXCEPT ![r].copy.tok.gen = g, ![r].pc = "net"]
      BY <2>1 DEF SE!Refresh
    <2>3. g \in 1..MaxGrants
      BY <2>2, NoneIsNobody DEF SE!Token
    <2>. QED
      BY <2>2, <2>3
  <1>. DEFINE n == [user |-> t.user, gen |-> g]
              b == [c.copy EXCEPT !.tok = n]
              q == [c EXCEPT !.copy = b, !.pc = "net"]
  <1>4. /\ n \in SE!Token /\ b \in SE!Blob /\ b.tok = n /\ b.email = c.copy.email
        /\ b.auth = c.copy.auth /\ q \in SessionRequest /\ q.pc = "net" /\ q.op = "open"
        /\ q.copy = b /\ q.old = c.old /\ q.stale = c.stale
    <2>1. n \in SE!Token
      BY <1>2 DEF SE!Token
    <2>2. b \in SE!Blob /\ b.tok = n /\ b.email = c.copy.email /\ b.auth = c.copy.auth
      BY <2>1 DEF SE!Blob, SessionRequest
    <2>. HIDE DEF b
    <2>3. /\ q \in SessionRequest /\ q.pc = "net" /\ q.op = "open" /\ q.copy = b
          /\ q.old = c.old /\ q.stale = c.stale
      BY <1>1, <2>2 DEF SessionRequest
    <2>. QED
      BY <2>1, <2>2, <2>3
  <1>5. sessionReq' = [sessionReq EXCEPT ![r] = q]
    <2>1. [t EXCEPT !.gen = g] = n
      BY <1>2 DEF SE!Token
    <2>2. [c.copy EXCEPT !.tok = [t EXCEPT !.gen = g]] = b
      BY <2>1
    <2>3. [c.copy EXCEPT !.tok.gen = g] = [c.copy EXCEPT !.tok = [t EXCEPT !.gen = g]]
      BY <1>2
    <2>4. [c EXCEPT !.copy.tok.gen = g, !.pc = "net"]
             = [c EXCEPT !.copy = [c.copy EXCEPT !.tok.gen = g], !.pc = "net"]
      BY DEF SessionRequest
    <2>5. sessionReq' = [sessionReq EXCEPT ![r] = [c EXCEPT !.copy.tok.gen = g, !.pc = "net"]]
      BY <1>1, <1>3 DEF SessionTypes, SessionRequest
    <2>. QED
      BY <2>2, <2>3, <2>4, <2>5
  <1>. HIDE DEF q, b
  <1>6. /\ sessionReq'[r] = q /\ \A p \in Requests \ {r} : sessionReq'[p] = sessionReq[p]
        /\ sessionReq' \in [Requests -> SessionRequest \cup {SE!Idle}]
    BY <1>4, <1>5 DEF SessionTypes
  <1>7. /\ Refreshing(r)' /\ Holding(r)' /\ ~Idles(r)' /\ Holding(r) /\ ~Idles(r) /\ ~Refreshing(r)
        /\ \A p \in Requests \ {r} : /\ Refreshing(p)' <=> Refreshing(p)
                                     /\ Holding(p)' <=> Holding(p)
                                     /\ Idles(p)' <=> Idles(p)
    BY <1>1, <1>4, <1>6 DEF Refreshing, Holding, Idles, SE!At
  <1>8. /\ UNCHANGED <<blob, accounts, slip>> /\ t.user \in Users /\ grant[t.user] \in Nat
        /\ grant' \in [Users -> 1..MaxGrants] /\ grant'[t.user] = g
        /\ \A u \in Users : u # t.user => grant'[u] = grant[u]
        /\ \A u \in Users : grant[u] <= grant'[u]
    <2>1. UNCHANGED <<blob, accounts, slip>>
      BY DEF SE!Refresh
    <2>2. t.user \in Users /\ t.gen \in Nat /\ g >= t.gen
      BY <1>2, <1>3, NoneIsNobody DEF SE!Token
    <2>3. /\ grant' \in [Users -> 1..MaxGrants] /\ grant'[t.user] = g
          /\ \A u \in Users : u # t.user => grant'[u] = grant[u]
      BY <1>3, <2>2 DEF SessionTypes
    <2>4. \A u \in Users : grant[u] \in Nat
      BY NoneIsNobody DEF SessionTypes
    <2>. QED
      BY <1>2, <2>1, <2>2, <2>3, <2>4
  <1>9. SessionTypes'
    BY <1>4, <1>6, <1>8 DEF SessionTypes
  <1>10. ShownInv'
    BY <1>1, <1>4, <1>6, <1>7, <1>8 DEF ShownInv, Shown
  <1>11. AgeInv'
    BY <1>1, <1>4, <1>6, <1>7, <1>8 DEF AgeInv, Idles
  <1>12. GrantInv'
    <2>1. \A k \in SE!Blob : Granted(k) => (k.tok # None => k.tok.gen <= grant'[k.tok.user])
      <3>1. SUFFICES ASSUME NEW k \in SE!Blob, Granted(k), k.tok # None
                     PROVE  k.tok.gen <= grant'[k.tok.user]
        OBVIOUS
      <3>2. k.tok.user \in Users /\ k.tok.gen \in Nat
        BY <3>1, NoneIsNobody DEF SE!Blob, SE!Token
      <3>3. grant[k.tok.user] \in Nat /\ grant'[k.tok.user] \in Nat
        BY <1>8, <3>2, NoneIsNobody DEF SessionTypes
      <3>. QED
        BY <1>8, <3>1, <3>2, <3>3 DEF Granted
    <2>2. \A p \in Requests : Holding(p) => sessionReq[p].copy \in SE!Blob
      BY SessionRequestKnown DEF SessionRequest
    <2>3. blob \in SE!Blob
      BY DEF SessionTypes
    <2>4. Granted(blob)'
      BY <1>8, <2>1, <2>3 DEF GrantInv, Granted
    <2>5. ASSUME NEW p \in Requests, Holding(p)'
          PROVE  sessionReq'[p].copy.tok # None
                    => sessionReq'[p].copy.tok.gen <= grant'[sessionReq'[p].copy.tok.user]
      <3>1. CASE p = r
        BY <1>4, <1>6, <1>8, <3>1
      <3>2. CASE p # r
        BY <1>6, <1>7, <2>1, <2>2, <2>5, <3>2 DEF GrantInv
      <3>. QED
        BY <3>1, <3>2
    <2>6. ~Rotates => \A u \in Users : grant'[u] = 1
      BY <1>2, <1>3, <1>8 DEF GrantInv
    <2>7. Rotates => g = t.gen + 1 /\ \A k \in SE!Blob : Granted(k) => k.tok # n
      <3>1. SUFFICES ASSUME Rotates, NEW k \in SE!Blob, Granted(k), k.tok = n PROVE FALSE
        BY <1>3
      <3>2. n # None /\ n.gen = grant[n.user] + 1 /\ n.user = t.user
        BY <1>2, <1>3, <1>4, <3>1, NoneIsNobody
      <3>. QED
        BY <1>8, <3>1, <3>2 DEF Granted
    <2>8. ASSUME NEW p \in Requests, Refreshing(p)'
          PROVE  /\ sessionReq'[p].copy.tok # None
                 /\ ~sessionReq'[p].stale =>
                       /\ sessionReq'[p].copy.tok.gen = grant'[sessionReq'[p].copy.tok.user]
                       /\ Rotates => /\ blob'.tok # sessionReq'[p].copy.tok
                                     /\ \A q2 \in Requests \ {p} : Holding(q2)' =>
                                           sessionReq'[q2].copy.tok # sessionReq'[p].copy.tok
      <3>1. CASE p = r
        <4>1. sessionReq'[p].copy.tok = n /\ n # None
          BY <1>4, <1>6, <3>1, NoneIsNobody
        <4>2. Rotates => blob'.tok # n
          BY <1>8, <2>3, <2>7 DEF GrantInv
        <4>3. \A j \in Requests \ {r} : Holding(j)' /\ Rotates => sessionReq'[j].copy.tok # n
          BY <1>6, <1>7, <2>2, <2>7 DEF GrantInv
        <4>. QED
          BY <1>8, <3>1, <4>1, <4>2, <4>3
      <3>2. CASE p # r
        <4>1. Refreshing(p) /\ Holding(p) /\ sessionReq'[p] = sessionReq[p]
          BY <1>6, <1>7, <2>8, <3>2 DEF Holding
        <4>. DEFINE k == sessionReq[p].copy
        <4>2. k \in SE!Blob /\ Granted(k) /\ k.tok # None
          BY <2>2, <4>1 DEF GrantInv
        <4>3. ~sessionReq[p].stale => Current(k)
          BY <4>1 DEF GrantInv
        <4>4. k.tok \in SE!Token /\ k.tok.user \in Users
          BY <4>2 DEF SE!Blob, SE!Token
        <4>5. ~sessionReq[p].stale /\ Rotates => k.tok # t
          BY <1>1, <1>2, <1>7, <3>2, <4>1 DEF GrantInv
        <4>6. ~sessionReq[p].stale /\ Rotates => k.tok.user # t.user
          BY <1>2, <4>3, <4>4, <4>5 DEF Current, SE!Token
        <4>7. ~sessionReq[p].stale => k.tok.gen = grant'[k.tok.user]
          <5>1. CASE Rotates
            BY <1>8, <4>3, <4>4, <4>6, <5>1 DEF Current
          <5>2. CASE ~Rotates
            BY <2>6, <4>3, <4>4, <5>2 DEF Current, GrantInv
          <5>. QED
            BY <5>1, <5>2
        <4>8. Rotates => k.tok # n
          BY <2>7, <4>2
        <4>9. ASSUME ~sessionReq[p].stale, Rotates, NEW q2 \in Requests \ {p}, Holding(q2)'
              PROVE  sessionReq'[q2].copy.tok # k.tok
          <5>1. CASE q2 = r
            BY <1>4, <1>6, <4>8, <4>9, <5>1
          <5>2. CASE q2 # r
            BY <1>6, <1>7, <4>1, <4>9, <5>2 DEF GrantInv
          <5>. QED
            BY <5>1, <5>2
        <4>10. ~sessionReq[p].stale /\ Rotates => blob'.tok # k.tok
          BY <1>8, <4>1 DEF GrantInv
        <4>. QED
          BY <4>1, <4>2, <4>7, <4>9, <4>10
      <3>. QED
        BY <3>1, <3>2
    <2>. QED
      BY <2>4, <2>5, <2>6, <2>8 DEF GrantInv, Granted, Current
  <1>13. SE!TokenUsable'
    <2>1. SUFFICES ASSUME blob.tok # None, ~slip
                   PROVE  \/ blob.tok.gen = grant'[blob.tok.user]
                          \/ \E p \in Requests : /\ Refreshing(p)'
                                                 /\ sessionReq'[p].copy.tok.user = blob.tok.user
      BY <1>8 DEF SE!TokenUsable, Refreshing
    <2>2. \/ Current(blob)
          \/ \E p \in Requests : Refreshing(p) /\ sessionReq[p].copy.tok.user = blob.tok.user
      BY <2>1 DEF SE!TokenUsable, Current, Refreshing
    <2>3. blob.tok.user \in Users
      BY <2>1 DEF SessionTypes, SE!Blob, SE!Token
    <2>4. CASE blob.tok.user = t.user
      BY <1>4, <1>6, <1>7, <2>4
    <2>5. CASE blob.tok.user # t.user
      BY <1>6, <1>7, <1>8, <2>2, <2>3, <2>5 DEF Current
    <2>. QED
      BY <2>4, <2>5
  <1>. QED
    BY <1>9, <1>10, <1>11, <1>12, <1>13
-----------------------------------------------------------------------------

(* A handler that saves what it read, changed: with the token it read, or  *)
(* the one the provider just issued, or none.                              *)
LEMMA HandlerKeeps ==
    ASSUME SessionInv, NEW r \in Requests, sessionReq[r].pc \in {"save", "commit"},
           NEW b \in SE!Blob, SE!Replace(r, b), SE!Overwrites(r), UNCHANGED grant,
           \/ UNCHANGED accounts
           \/ accounts' \in [SE!Mailboxes \X SE!Mailboxes -> SE!Entry \cup {None}],
           Shown(b),
           b.tok \in {None, sessionReq[r].copy.tok} \/ (Granted(b) /\ Current(b))
    PROVE  SessionInv'
  <1>1. PICK c \in SessionRequest : c = sessionReq[r]
    BY SessionRequestKnown DEF Idles, SessionInv
  <1>2. Holding(r) /\ ~Refreshing(r) /\ ~Idles(r)
    BY DEF Holding, Refreshing, Idles, SE!At
  <1>3. Granted(b)
    BY <1>2 DEF SessionInv, GrantInv, Granted
  <1>4. slip' \in BOOLEAN /\ (slip => slip') /\ (c.stale => slip')
    BY <1>1 DEF SE!Overwrites, SessionInv, SessionTypes, SessionRequest
  <1>5. ~slip' => b.tok = None \/ Current(b) \/ (b.tok = blob.tok /\ ~Refreshing(r))
    BY <1>1, <1>2, <1>4 DEF SessionInv, AgeInv
  <1>6. accounts' \in [SE!Mailboxes \X SE!Mailboxes -> SE!Entry \cup {None}]
    BY DEF SessionInv, SessionTypes
  <1>. QED
    BY <1>3, <1>4, <1>5, <1>6, SaveKeeps

(* What a request that may save has read.                                  *)
LEMMA CopyKnown ==
    ASSUME SessionTypes, NEW r \in Requests, ~Idles(r)
    PROVE  /\ sessionReq[r].copy \in SE!Blob /\ sessionReq[r].op \in SE!Ops
           /\ sessionReq[r].arg \in Users \cup {None}
           /\ sessionReq[r].stale \in BOOLEAN /\ sessionReq[r].old \in BOOLEAN
  BY SessionRequestKnown DEF SessionRequest

(* A session that is signed in as u.                                       *)
LEMMA SignedInIs ==
    ASSUME NEW b \in SE!Blob, NEW u \in SE!Mailboxes \cup {None}
    PROVE  /\ SE!SignedIn(b, u) \in SE!Blob
           /\ SE!SignedIn(b, u).auth /\ SE!SignedIn(b, u).email = u
           /\ SE!SignedIn(b, u).creds = b.creds /\ SE!SignedIn(b, u).kind = b.kind
           /\ SE!SignedIn(b, u).tok = b.tok
  BY DEF SE!Blob, SE!SignedIn

LEMMA HandleLoginKeeps ==
    ASSUME SessionInv, NEW r \in Requests, SE!HandleLogin(r)
    PROVE  SessionInv'
  <1>. DEFINE c == sessionReq[r].copy
              u == sessionReq[r].arg
              s == SE!SignedIn(c, u)
              b == [s EXCEPT !.creds = u]
  <1>1. sessionReq[r].pc = "save" /\ u \in Users /\ c \in SE!Blob
    BY CopyKnown, NoneIsNobody DEF SE!HandleLogin, SE!At, Idles, SessionInv
  <1>2. s \in SE!Blob /\ s.auth /\ s.tok = c.tok
    BY <1>1, SignedInIs DEF SE!Mailboxes
  <1>. HIDE DEF s
  <1>3. b \in SE!Blob /\ b.auth /\ b.tok = c.tok
    BY <1>1, <1>2 DEF SE!Blob
  <1>4. SE!Replace(r, b) /\ SE!Overwrites(r) /\ UNCHANGED <<grant, accounts>>
    BY DEF SE!HandleLogin, s
  <1>. HIDE DEF b
  <1>. QED
    BY <1>1, <1>3, <1>4, HandlerKeeps DEF Shown

LEMMA HandleDemoLoginKeeps ==
    ASSUME SessionInv, NEW r \in Requests, SE!HandleDemoLogin(r)
    PROVE  SessionInv'
  <1>. DEFINE c == sessionReq[r].copy
              s == SE!SignedIn(c, Demo)
              b == [s EXCEPT !.kind = "demo"]
  <1>1. sessionReq[r].pc = "save" /\ c \in SE!Blob
    BY CopyKnown DEF SE!HandleDemoLogin, SE!At, Idles, SessionInv
  <1>2. s \in SE!Blob /\ s.auth /\ s.tok = c.tok
    BY <1>1, SignedInIs DEF SE!Mailboxes
  <1>. HIDE DEF s
  <1>3. b \in SE!Blob /\ b.auth /\ b.tok = c.tok
    BY <1>1, <1>2 DEF SE!Blob
  <1>4. SE!Replace(r, b) /\ SE!Overwrites(r) /\ UNCHANGED <<grant, accounts>>
    BY DEF SE!HandleDemoLogin, s
  <1>. HIDE DEF b
  <1>. QED
    BY <1>1, <1>3, <1>4, HandlerKeeps DEF Shown

LEMMA HandleOAuthLoginKeeps ==
    ASSUME SessionInv, NEW r \in Requests, SE!HandleOAuthLogin(r)
    PROVE  SessionInv'
  <1>. DEFINE c == sessionReq[r].copy
              b == [c EXCEPT !.state = TRUE]
  <1>1. sessionReq[r].pc = "save" /\ c \in SE!Blob /\ Holding(r)
    BY CopyKnown DEF SE!HandleOAuthLogin, SE!At, Idles, SessionInv, Holding
  <1>2. b \in SE!Blob /\ b.auth = c.auth /\ b.email = c.email /\ b.tok = c.tok
    BY <1>1 DEF SE!Blob
  <1>3. Shown(b)
    BY <1>1, <1>2 DEF SessionInv, ShownInv, Shown
  <1>4. SE!Replace(r, b) /\ SE!Overwrites(r) /\ UNCHANGED <<grant, accounts>>
    BY DEF SE!HandleOAuthLogin
  <1>. HIDE DEF b
  <1>. QED
    BY <1>1, <1>2, <1>3, <1>4, HandlerKeeps

LEMMA HandleOAuthCallbackKeeps ==
    ASSUME SessionInv, NEW r \in Requests, SE!HandleOAuthCallback(r)
    PROVE  SessionInv'
  <1>. DEFINE c == sessionReq[r].copy
              u == sessionReq[r].arg
              s == SE!SignedIn(c, u)
              t == SE!Issued(u)
              b == [s EXCEPT !.state = FALSE, !.kind = "oauth2", !.tok = t]
  <1>1. sessionReq[r].pc = "save" /\ u \in Users /\ c \in SE!Blob
    BY CopyKnown, NoneIsNobody DEF SE!HandleOAuthCallback, SE!At, Idles, SessionInv
  <1>2. s \in SE!Blob /\ s.auth
    BY <1>1, SignedInIs DEF SE!Mailboxes
  <1>3. t \in SE!Token /\ t.user = u /\ t.gen = grant[u] /\ grant[u] \in Nat
    BY <1>1, NoneIsNobody DEF SE!Issued, SE!Token, SessionInv, SessionTypes
  <1>4. SE!Replace(r, b) /\ SE!Overwrites(r) /\ UNCHANGED <<grant, accounts>>
    BY DEF SE!HandleOAuthCallback
  <1>. HIDE DEF s, t
  <1>5. b \in SE!Blob /\ b.auth /\ b.tok = t
    BY <1>2, <1>3 DEF SE!Blob
  <1>. HIDE DEF b
  <1>6. Granted(b) /\ Current(b)
    BY <1>3, <1>5 DEF Granted, Current
  <1>. QED
    BY <1>1, <1>4, <1>5, <1>6, HandlerKeeps DEF Shown

LEMMA HandleLogoutKeeps ==
    ASSUME SessionInv, NEW r \in Requests, SE!HandleLogout(r)
    PROVE  SessionInv'
  <1>. DEFINE b == SE!Empty
  <1>1. b \in SE!Blob /\ b.tok = None /\ b.email = None
    BY DEF SE!Empty, SE!Blob
  <1>2. SE!Replace(r, b) /\ UNCHANGED <<grant, accounts, slip>>
    BY DEF SE!HandleLogout
  <1>. HIDE DEF b
  <1>3. Shown(b) /\ Granted(b)
    BY <1>1 DEF Shown, Granted
  <1>4. slip' \in BOOLEAN /\ accounts' \in [SE!Mailboxes \X SE!Mailboxes -> SE!Entry \cup {None}]
    BY <1>2 DEF SessionInv, SessionTypes
  <1>. QED
    BY <1>1, <1>2, <1>3, <1>4, SaveKeeps

LEMMA SwitchSaveKeeps ==
    ASSUME SessionInv, NEW r \in Requests, SE!SwitchSave(r)
    PROVE  SessionInv'
  <1>. DEFINE c == sessionReq[r].copy
              u == sessionReq[r].arg
              s == SE!SignedIn(c, u)
              b == [s EXCEPT !.creds = u, !.kind = "none", !.tok = None]
  <1>1. sessionReq[r].pc = "commit" /\ u \in Users \cup {None} /\ c \in SE!Blob
    BY CopyKnown DEF SE!SwitchSave, SE!At, Idles, SessionInv
  <1>2. s \in SE!Blob /\ s.auth
    BY <1>1, SignedInIs DEF SE!Mailboxes
  <1>3. SE!Replace(r, b) /\ SE!Overwrites(r) /\ UNCHANGED <<grant, accounts>>
    BY DEF SE!SwitchSave
  <1>. HIDE DEF s
  <1>4. b \in SE!Blob /\ b.auth /\ b.tok = None
    BY <1>1, <1>2 DEF SE!Blob
  <1>. HIDE DEF b
  <1>. QED
    BY <1>1, <1>3, <1>4, HandlerKeeps DEF Shown

(* A switch that stores the way back: it holds the copy it has read.       *)
LEMMA SwitchBackKeeps ==
    ASSUME SessionInv, NEW r \in Requests, SE!SwitchBack(r)
    PROVE  SessionInv'
  <1>1. PICK c \in SessionRequest : c = sessionReq[r] /\ c.op = "switch" /\ c.pc = "save"
    BY SessionRequestKnown DEF SE!SwitchBack, SE!At, Idles, SessionInv
  <1>. DEFINE q == [c EXCEPT !.pc = "commit"]
  <1>2. /\ q \in SessionRequest /\ q.pc = "commit" /\ q.op = c.op /\ q.copy = c.copy
        /\ q.old = c.old /\ q.stale = c.stale
    BY <1>1 DEF SessionRequest
  <1>3. sessionReq' = [sessionReq EXCEPT ![r] = q]
    BY <1>1 DEF SE!SwitchBack, SE!Goto, SessionInv, SessionTypes
  <1>. HIDE DEF q
  <1>4. /\ sessionReq'[r] = q /\ \A p \in Requests \ {r} : sessionReq'[p] = sessionReq[p]
        /\ sessionReq' \in [Requests -> SessionRequest \cup {SE!Idle}]
    BY <1>2, <1>3 DEF SessionInv, SessionTypes
  <1>5. /\ UNCHANGED <<blob, grant, slip>>
        /\ \A p \in Requests : /\ Refreshing(p)' <=> Refreshing(p)
                               /\ Holding(p)' <=> Holding(p)
                               /\ Idles(p)' <=> Idles(p)
                               /\ Holding(p) => sessionReq'[p].copy = sessionReq[p].copy
                               /\ sessionReq'[p].stale = sessionReq[p].stale \/ Idles(p)
    BY <1>1, <1>2, <1>4 DEF SE!SwitchBack, Refreshing, Holding, Idles, SE!At
  <1>6. SessionTypes'
    <2>1. accounts' \in [SE!Mailboxes \X SE!Mailboxes -> SE!Entry \cup {None}]
      <3>1. \/ accounts' = accounts
            \/ c.copy.creds # None
                  /\ accounts' = [accounts EXCEPT ![<<c.arg, c.copy.email>>] =
                                     SE!BackEntry(c.copy)]
        BY <1>1 DEF SE!SwitchBack
      <3>2. c.copy.creds # None => SE!BackEntry(c.copy) \in SE!Entry
        BY <1>1 DEF SE!BackEntry, SE!Entry, SE!Blob, SessionRequest
      <3>. QED
        BY <3>1, <3>2 DEF SessionInv, SessionTypes
    <2>2. \A p \in Requests : sessionReq'[p].pc = "net" => sessionReq'[p].op \in {"open", "switch"}
      BY <1>2, <1>4 DEF SessionInv, SessionTypes
    <2>. QED
      BY <1>4, <1>5, <2>1, <2>2 DEF SessionInv, SessionTypes
  <1>7. ShownInv'
    BY <1>5 DEF SessionInv, ShownInv, Shown
  <1>8. AgeInv'
    BY <1>1, <1>2, <1>4, <1>5 DEF SessionInv, AgeInv, Idles, Holding
  <1>9. GrantInv'
    <2>1. \A p \in Requests : Refreshing(p) => Holding(p) /\ ~Idles(p)
      BY DEF Refreshing, Holding, Idles, SE!At
    <2>. QED
      BY <1>5, <2>1 DEF SessionInv, GrantInv, Granted, Current
  <1>10. SE!TokenUsable'
    <2>1. \A p \in Requests : Refreshing(p) => Holding(p)
      BY DEF Holding
    <2>. QED
      BY <1>5, <2>1 DEF SessionInv, SE!TokenUsable, Refreshing
  <1>. QED
    BY <1>6, <1>7, <1>8, <1>9, <1>10 DEF SessionInv

(* The new token is saved, or the save fails and the slip is noted.        *)
LEMMA SaveRefreshedKeeps ==
    ASSUME SessionInv, NEW r \in Requests, SE!SaveRefreshed(r)
    PROVE  SessionInv'
  <1>. DEFINE c == sessionReq[r].copy
  <1>1. /\ Refreshing(r) /\ Holding(r) /\ ~Idles(r) /\ SE!Idle.pc = "idle"
        /\ c \in SE!Blob /\ sessionReq[r].stale \in BOOLEAN
    BY CopyKnown DEF SE!SaveRefreshed, SE!At, Refreshing, Holding, Idles, SE!Idle, SessionInv
  <1>2. Shown(c) /\ Granted(c) /\ (~sessionReq[r].stale => Current(c))
    BY <1>1 DEF SessionInv, ShownInv, GrantInv, Shown, Granted, Current
  <1>3. /\ UNCHANGED grant /\ slip \in BOOLEAN
        /\ accounts' \in [SE!Mailboxes \X SE!Mailboxes -> SE!Entry \cup {None}]
    BY DEF SE!SaveRefreshed, SessionInv, SessionTypes
  <1>4. CASE SE!Replace(r, c) /\ SE!Overwrites(r)
    <2>1. slip' \in BOOLEAN /\ (slip => slip') /\ (~slip' => Current(c))
      BY <1>1, <1>2, <1>3, <1>4 DEF SE!Overwrites
    <2>. QED
      BY <1>1, <1>2, <1>3, <1>4, <2>1, SaveKeeps
  <1>5. CASE SE!Done(r) /\ slip' = TRUE /\ UNCHANGED blob
    <2>1. sessionReq' = [sessionReq EXCEPT ![r] = SE!Idle]
      BY <1>5 DEF SE!Done
    <2>. QED
      BY <1>1, <1>3, <1>5, <2>1, RequestKeeps
  <1>. QED
    BY <1>4, <1>5 DEF SE!SaveRefreshed

(* A step of a request that saves nothing.                                 *)
LEMMA AdmitKeeps ==
    ASSUME SessionInv, NEW r \in Requests, SE!Admit(r)
    PROVE  SessionInv'
  <1>1. PICK op \in SE!Ops, u \in Users \cup {None} :
           /\ op \in SE!Protected => blob.auth
           /\ sessionReq' = [sessionReq EXCEPT ![r] =
                    [pc |-> IF op = "switch" THEN "net" ELSE "read",
                     op |-> op, arg |-> u, owner |-> blob.email,
                     copy |-> SE!Empty, old |-> FALSE, stale |-> FALSE]]
    BY DEF SE!Admit
  <1>2. PICK p \in {"net", "read"} : p = IF op = "switch" THEN "net" ELSE "read"
    OBVIOUS
  <1>. DEFINE q == [pc |-> p, op |-> op, arg |-> u, owner |-> blob.email,
                    copy |-> SE!Empty, old |-> FALSE, stale |-> FALSE]
  <1>3. blob.email \in SE!Mailboxes \cup {None} /\ SE!Empty \in SE!Blob
    BY DEF SessionInv, SessionTypes, SE!Blob, SE!Empty
  <1>4. q \in SessionRequest /\ q.pc = p /\ q.op = op
    BY <1>3 DEF SessionRequest
  <1>5. sessionReq' = [sessionReq EXCEPT ![r] = q]
    BY <1>1, <1>2
  <1>. HIDE DEF q
  <1>6. /\ UNCHANGED <<blob, grant>> /\ ~Refreshing(r)
        /\ accounts' \in [SE!Mailboxes \X SE!Mailboxes -> SE!Entry \cup {None}]
        /\ slip' \in BOOLEAN /\ (slip => slip')
    BY DEF SE!Admit, SessionInv, SessionTypes, Refreshing, SE!At
  <1>. QED
    BY <1>1, <1>2, <1>4, <1>5, <1>6, RequestKeeps

LEMMA ReadKeeps ==
    ASSUME SessionInv, NEW r \in Requests, SE!Read(r)
    PROVE  SessionInv'
  <1>1. PICK c \in SessionRequest : c = sessionReq[r] /\ c.pc = "read"
    BY SessionRequestKnown DEF SE!Read, Idles, SessionInv
  <1>. DEFINE q == [c EXCEPT !.copy = blob, !.pc = "save", !.stale = FALSE]
  <1>2. blob \in SE!Blob
    BY DEF SessionInv, SessionTypes
  <1>3. q \in SessionRequest /\ q.pc = "save" /\ q.op = c.op /\ q.old = c.old /\ q.copy = blob
    BY <1>1, <1>2 DEF SessionRequest
  <1>4. sessionReq' = [sessionReq EXCEPT ![r] = q]
    BY <1>1 DEF SE!Read, SessionInv, SessionTypes, SessionRequest
  <1>. HIDE DEF q
  <1>5. c.op \in SE!Protected => c.old \/ blob.auth
    BY <1>1 DEF SessionInv, AgeInv, Idles
  <1>6. /\ UNCHANGED <<blob, grant>> /\ ~Refreshing(r)
        /\ accounts' \in [SE!Mailboxes \X SE!Mailboxes -> SE!Entry \cup {None}]
        /\ slip' \in BOOLEAN /\ (slip => slip')
    BY <1>1 DEF SE!Read, SessionInv, SessionTypes, Refreshing, SE!At
  <1>. QED
    BY <1>3, <1>4, <1>5, <1>6, RequestKeeps

(* The mail server refuses, or the client only reads the session.          *)
LEMMA EndKeeps ==
    ASSUME SessionInv, NEW r \in Requests, SE!Refuse(r) \/ SE!UseClient(r)
    PROVE  SessionInv'
  <1>1. sessionReq' = [sessionReq EXCEPT ![r] = SE!Idle] /\ SE!Idle.pc = "idle"
    BY DEF SE!Refuse, SE!UseClient, SE!Done, SE!Idle
  <1>2. /\ UNCHANGED <<blob, grant>> /\ ~Refreshing(r)
        /\ accounts' \in [SE!Mailboxes \X SE!Mailboxes -> SE!Entry \cup {None}]
        /\ slip' \in BOOLEAN /\ (slip => slip')
    BY DEF SE!Refuse, SE!UseClient, SessionInv, SessionTypes, Refreshing, SE!At
  <1>. QED
    BY <1>1, <1>2, RequestKeeps

LEMMA SwitchOpenKeeps ==
    ASSUME SessionInv, NEW r \in Requests, SE!SwitchOpen(r)
    PROVE  SessionInv'
  <1>1. PICK c \in SessionRequest : c = sessionReq[r] /\ c.op = "switch" /\ c.pc = "net"
    BY SessionRequestKnown DEF SE!SwitchOpen, SE!At, Idles, SessionInv
  <1>. DEFINE q == [c EXCEPT !.pc = "read"]
  <1>2. q \in SessionRequest /\ q.pc = "read" /\ q.op = c.op /\ q.old = c.old
    BY <1>1 DEF SessionRequest
  <1>3. sessionReq' = [sessionReq EXCEPT ![r] = q]
    BY <1>1 DEF SE!SwitchOpen, SE!Goto, SessionInv, SessionTypes
  <1>. HIDE DEF q
  <1>4. c.op \in SE!Protected => c.old \/ blob.auth
    BY <1>1 DEF SessionInv, AgeInv, Idles
  <1>5. /\ UNCHANGED <<blob, grant>> /\ ~Refreshing(r)
        /\ accounts' \in [SE!Mailboxes \X SE!Mailboxes -> SE!Entry \cup {None}]
        /\ slip' \in BOOLEAN /\ (slip => slip')
    BY <1>1 DEF SE!SwitchOpen, SessionInv, SessionTypes, Refreshing, SE!At
  <1>. QED
    BY <1>2, <1>3, <1>4, <1>5, RequestKeeps

(* Connected accounts that are stored or deleted, and steps elsewhere.     *)
LEMMA AccountsKeep ==
    ASSUME SessionInv, SE!AddAccount \/ SE!DeleteAccount \/ UNCHANGED sessionVars
    PROVE  SessionInv'
  <1>1. UNCHANGED <<blob, sessionReq, grant, slip>>
    BY DEF SE!AddAccount, SE!DeleteAccount, sessionVars
  <1>2. accounts' \in [SE!Mailboxes \X SE!Mailboxes -> SE!Entry \cup {None}]
    <2>1. \A u \in Users : [password |-> u, atHome |-> u \in Home] \in SE!Entry
      BY DEF SE!Entry
    <2>. QED
      BY <2>1 DEF SE!AddAccount, SE!DeleteAccount, sessionVars, SessionInv, SessionTypes
  <1>3. SessionTypes'
    BY <1>1, <1>2 DEF SessionInv, SessionTypes
  <1>4. ShownInv' /\ AgeInv' /\ GrantInv' /\ SE!TokenUsable'
    BY <1>1 DEF SessionInv, ShownInv, AgeInv, GrantInv, SE!TokenUsable, Shown, Granted, Current,
                Idles, Holding, Refreshing, SE!At
  <1>. QED
    BY <1>3, <1>4 DEF SessionInv

LEMMA SessionNext == SessionInv /\ [SE!Next]_sessionVars => SessionInv'
  <1>. SUFFICES ASSUME SessionInv, [SE!Next]_sessionVars PROVE SessionInv'
    OBVIOUS
  <1>1. CASE UNCHANGED sessionVars
    BY <1>1, AccountsKeep
  <1>2. CASE \E r \in Requests : SE!Admit(r)
    BY <1>2, AdmitKeeps
  <1>3. CASE SE!AddAccount \/ SE!DeleteAccount
    BY <1>3, AccountsKeep
  <1>4. CASE SE!Work
    <2>1. PICK r \in Requests :
             \/ SE!Read(r) \/ SE!Refuse(r)
             \/ SE!HandleLogin(r) \/ SE!HandleDemoLogin(r)
             \/ SE!HandleOAuthLogin(r) \/ SE!HandleOAuthCallback(r)
             \/ SE!HandleLogout(r)
             \/ SE!UseClient(r) \/ SE!Refresh(r) \/ SE!SaveRefreshed(r)
             \/ SE!SwitchOpen(r) \/ SE!SwitchBack(r) \/ SE!SwitchSave(r)
      BY <1>4 DEF SE!Work
    <2>. QED
      BY <2>1, ReadKeeps, EndKeeps, HandleLoginKeeps, HandleDemoLoginKeeps,
         HandleOAuthLoginKeeps, HandleOAuthCallbackKeeps, HandleLogoutKeeps, RefreshKeeps,
         SaveRefreshedKeeps, SwitchOpenKeeps, SwitchBackKeeps, SwitchSaveKeeps
  <1>. QED
    BY <1>1, <1>2, <1>3, <1>4 DEF SE!Next
-----------------------------------------------------------------------------

(* Of a session only the requests of a session are known: the other        *)
(* components of MCRequests leave it alone.                                *)
THEOREM SessionAlone == MCSpec => SE!Spec
  <1>1. MCInit => SE!Init
    BY DEF MCInit
  <1>2. [MCNext]_<<part, vars, bookVars, calVars, sessionVars, stagingVars, settingsVars,
                   pushVars, threadVars>> => [SE!Next]_(SE!vars)
    BY DEF MCNext, sessionVars, SE!vars
  <1>. QED
    BY <1>1, <1>2, PTL DEF MCSpec, SE!Spec

LEMMA SessionHolds == MCSpec => []SessionInv
  <1>1. [SE!Next]_(SE!vars) /\ SessionInv => SessionInv'
    BY SessionNext DEF SE!vars, sessionVars
  <1>. QED
    BY SessionAlone, SessionInit, <1>1, PTL DEF SE!Spec

(* The stored refresh token is the one the provider takes, or the request  *)
(* that spent it has still to save its successor.                          *)
THEOREM TokensUsable == MCSpec => []TokenUsable
  <1>1. SessionInv => TokenUsable
    BY DEF SessionInv, TokenUsable
  <1>. QED
    BY SessionHolds, <1>1, PTL

-----------------------------------------------------------------------------

(* The saves: which step replaces the session, and by what.                *)
Saved(r, b) ==
    \/ sessionReq[r].op = "login" /\ sessionReq[r].arg \in Home
          /\ b = [SE!SignedIn(sessionReq[r].copy, sessionReq[r].arg)
                     EXCEPT !.creds = sessionReq[r].arg]
    \/ sessionReq[r].op = "demo"
          /\ b = [SE!SignedIn(sessionReq[r].copy, Demo) EXCEPT !.kind = "demo"]
    \/ sessionReq[r].op = "oauth" /\ b = [sessionReq[r].copy EXCEPT !.state = TRUE]
    \/ sessionReq[r].op = "callback" /\ sessionReq[r].arg \in Home
          /\ b = [SE!SignedIn(sessionReq[r].copy, sessionReq[r].arg)
                     EXCEPT !.state = FALSE, !.kind = "oauth2",
                            !.tok = SE!Issued(sessionReq[r].arg)]
    \/ sessionReq[r].op = "logout" /\ b = SE!Empty
    \/ sessionReq[r].op = "open" /\ b = sessionReq[r].copy
    \/ sessionReq[r].op = "switch"
          /\ b = [SE!SignedIn(sessionReq[r].copy, sessionReq[r].arg)
                     EXCEPT !.creds = sessionReq[r].arg, !.kind = "none", !.tok = None]

(* A session changes only when a request that has read it saves.           *)
LEMMA ChangesAreSaves ==
    ASSUME SessionInv, [SE!Next]_sessionVars, blob' # blob
    PROVE  \E r \in Requests :
              /\ Holding(r) /\ sessionReq'[r].pc = "idle" /\ Saved(r, blob')
  <1>1. SE!Work
    BY DEF SE!Next, SE!Admit, SE!AddAccount, SE!DeleteAccount, sessionVars
  <1>2. PICK r \in Requests :
           \/ SE!HandleLogin(r) \/ SE!HandleDemoLogin(r)
           \/ SE!HandleOAuthLogin(r) \/ SE!HandleOAuthCallback(r)
           \/ SE!HandleLogout(r) \/ SE!SaveRefreshed(r) \/ SE!SwitchSave(r)
    BY <1>1 DEF SE!Work, SE!Read, SE!Refuse, SE!UseClient, SE!Refresh, SE!SwitchOpen, SE!SwitchBack
  <1>3. ASSUME NEW b, SE!Replace(r, b) PROVE blob' = b /\ sessionReq'[r].pc = "idle"
    BY <1>3, ReplaceIs DEF SessionInv, SE!Idle
  <1>4. CASE SE!HandleLogin(r)
    <2>. DEFINE b == [SE!SignedIn(sessionReq[r].copy, sessionReq[r].arg)
                        EXCEPT !.creds = sessionReq[r].arg]
    <2>1. SE!Replace(r, b) /\ Saved(r, b) /\ Holding(r)
      BY <1>4 DEF SE!HandleLogin, Saved, Holding, SE!At
    <2>. HIDE DEF b
    <2>. QED
      BY <1>3, <2>1
  <1>5. CASE SE!HandleDemoLogin(r)
    <2>. DEFINE b == [SE!SignedIn(sessionReq[r].copy, Demo) EXCEPT !.kind = "demo"]
    <2>1. SE!Replace(r, b) /\ Saved(r, b) /\ Holding(r)
      BY <1>5 DEF SE!HandleDemoLogin, Saved, Holding, SE!At
    <2>. HIDE DEF b
    <2>. QED
      BY <1>3, <2>1
  <1>6. CASE SE!HandleOAuthLogin(r)
    <2>. DEFINE b == [sessionReq[r].copy EXCEPT !.state = TRUE]
    <2>1. SE!Replace(r, b) /\ Saved(r, b) /\ Holding(r)
      BY <1>6 DEF SE!HandleOAuthLogin, Saved, Holding, SE!At
    <2>. HIDE DEF b
    <2>. QED
      BY <1>3, <2>1
  <1>7. CASE SE!HandleOAuthCallback(r)
    <2>. DEFINE b == [SE!SignedIn(sessionReq[r].copy, sessionReq[r].arg)
                        EXCEPT !.state = FALSE, !.kind = "oauth2", !.tok = SE!Issued(sessionReq[r].arg)]
    <2>1. SE!Replace(r, b) /\ Saved(r, b) /\ Holding(r)
      BY <1>7 DEF SE!HandleOAuthCallback, Saved, Holding, SE!At
    <2>. HIDE DEF b
    <2>. QED
      BY <1>3, <2>1
  <1>8. CASE SE!HandleLogout(r)
    <2>. DEFINE b == SE!Empty
    <2>1. SE!Replace(r, b) /\ Saved(r, b) /\ Holding(r)
      BY <1>8 DEF SE!HandleLogout, Saved, Holding, SE!At
    <2>. HIDE DEF b
    <2>. QED
      BY <1>3, <2>1
  <1>9. CASE SE!SaveRefreshed(r)
    <2>. DEFINE b == sessionReq[r].copy
    <2>1. SE!Replace(r, b) /\ Saved(r, b) /\ Holding(r)
      BY <1>9 DEF SE!SaveRefreshed, Saved, Holding, Refreshing, SE!At
    <2>. HIDE DEF b
    <2>. QED
      BY <1>3, <2>1
  <1>10. CASE SE!SwitchSave(r)
    <2>. DEFINE b == [SE!SignedIn(sessionReq[r].copy, sessionReq[r].arg)
                        EXCEPT !.creds = sessionReq[r].arg, !.kind = "none", !.tok = None]
    <2>1. SE!Replace(r, b) /\ Saved(r, b) /\ Holding(r)
      BY <1>10 DEF SE!SwitchSave, Saved, Holding, SE!At
    <2>. HIDE DEF b
    <2>. QED
      BY <1>3, <2>1
  <1>. QED
    BY <1>2, <1>4, <1>5, <1>6, <1>7, <1>8, <1>9, <1>10

(* A request that has read the session and ends is one that saves.         *)
LEMMA HoldingSaves ==
    ASSUME SessionInv, NEW r \in Requests, Holding(r), sessionReq'[r].pc = "idle",
           NEW ops, sessionReq[r].op \in ops
    PROVE  SE!Saves(r, ops)
  BY DEF SE!Saves, Holding, Refreshing, SE!At

(* handlers/web/auth.go: a session that was signed out is signed in by a   *)
(* login, or by a request admitted before it was signed out.               *)
THEOREM OnlyLoginsSignIn == MCSpec => OnlyALoginSignsIn
  <1>1. SessionInv /\ [SE!Next]_(SE!vars) =>
           [~blob.auth /\ blob'.auth =>
               \E r \in Requests : SE!Saves(r, SE!Logins)
                                      \/ (SE!Saves(r, SE!Ops) /\ sessionReq[r].old)]_(SE!vars)
    <2>1. SUFFICES ASSUME SessionInv, [SE!Next]_sessionVars, ~blob.auth, blob'.auth
                   PROVE  \E r \in Requests : SE!Saves(r, SE!Logins)
                                      \/ (SE!Saves(r, SE!Ops) /\ sessionReq[r].old)
      BY DEF SE!vars, sessionVars
    <2>2. PICK r \in Requests :
             Holding(r) /\ sessionReq'[r].pc = "idle" /\ Saved(r, blob')
      BY <2>1, ChangesAreSaves
    <2>3. /\ ~Idles(r) /\ sessionReq[r].copy \in SE!Blob /\ sessionReq[r].op \in SE!Ops
          /\ sessionReq[r].old \in BOOLEAN
      BY <2>1, <2>2, SessionRequestKnown, CopyKnown DEF SessionInv
    <2>4. CASE sessionReq[r].op \in SE!Logins
      BY <2>1, <2>2, <2>4, HoldingSaves
    <2>5. CASE sessionReq[r].op \in {"open", "switch"}
      <3>1. sessionReq[r].old
        BY <2>1, <2>3, <2>5 DEF SessionInv, AgeInv, SE!Protected
      <3>. QED
        BY <2>1, <2>2, <2>3, <3>1, HoldingSaves
    <2>6. CASE sessionReq[r].op = "oauth"
      <3>1. blob'.auth = sessionReq[r].copy.auth
        BY <2>2, <2>3, <2>6 DEF Saved, SE!Blob
      <3>2. sessionReq[r].old
        BY <2>1, <2>2, <2>3, <3>1 DEF SessionInv, AgeInv
      <3>. QED
        BY <2>1, <2>2, <2>3, <3>2, HoldingSaves
    <2>7. CASE sessionReq[r].op = "logout"
      BY <2>1, <2>2, <2>7 DEF Saved, SE!Empty
    <2>. QED
      BY <2>3, <2>4, <2>5, <2>6, <2>7 DEF SE!Ops, SE!Logins
  <1>. QED
    BY SessionAlone, SessionHolds, <1>1, PTL DEF SE!Spec, OnlyALoginSignsIn, SE!OnlyALoginSignsIn
(* The mailbox a session opens, by the kind of its credentials.            *)
LEMMA OpensIs ==
    ASSUME NEW b \in SE!Blob
    PROVE  /\ b.kind = "demo" => SE!Opens(b) = Demo
           /\ b.kind = "oauth2" => SE!Opens(b) = IF b.tok # None /\ b.tok.user = b.email
                                                 THEN b.email ELSE None
           /\ b.kind = "none" => SE!Opens(b) = IF b.creds \in Home THEN b.creds ELSE None
           /\ b.kind \in {"none", "demo", "oauth2"}
  <1>1. b.kind \in {"none", "demo", "oauth2"}
    BY DEF SE!Blob
  <1>2. CASE b.kind = "demo"
    <2>1. SE!Opens(b) = Demo
      BY <1>2, Zenon DEF SE!Opens
    <2>. QED
      BY <1>2, <2>1
  <1>3. CASE b.kind = "oauth2"
    <2>1. b.kind # "demo"
      BY <1>3
    <2>2. SE!Opens(b) = IF b.tok # None /\ b.tok.user = b.email THEN b.email ELSE None
      BY <1>3, <2>1, Zenon DEF SE!Opens
    <2>. QED
      BY <1>3, <2>2
  <1>4. CASE b.kind = "none"
    <2>1. b.kind # "demo" /\ b.kind # "oauth2"
      BY <1>4
    <2>2. SE!Opens(b) = IF b.creds \in Home THEN b.creds ELSE None
      BY <1>4, <2>1, Zenon DEF SE!Opens
    <2>. QED
      BY <1>4, <2>2
  <1>. QED
    BY <1>1, <1>2, <1>3, <1>4

(* Credentials that show the mailbox they open and send with.              *)
LEMMA ConsistentIs ==
    ASSUME NEW b \in SE!Blob, b.email # None,
           \/ b.kind = "none" /\ b.creds = b.email /\ b.creds \in Home
           \/ b.kind = "oauth2" /\ b.tok # None /\ b.tok.user = b.email
           \/ b.kind = "demo" /\ b.creds = None /\ b.email = Demo
    PROVE  SE!Consistent(b)
  <1>1. CASE b.kind = "none" /\ b.creds = b.email /\ b.creds \in Home
    BY <1>1, OpensIs DEF SE!Consistent, SE!Sends
  <1>2. CASE b.kind = "oauth2" /\ b.tok # None /\ b.tok.user = b.email
    BY <1>2, OpensIs DEF SE!Consistent, SE!Sends
  <1>3. CASE b.kind = "demo" /\ b.creds = None /\ b.email = Demo
    BY <1>3, OpensIs, NoneIsNobody DEF SE!Consistent, SE!Sends
  <1>. QED
    BY <1>1, <1>2, <1>3

(* handlers/web/auth.go, oauth.go, accounts.go: mail is read from and sent *)
(* with the mailbox the session shows, but for the three ways named.       *)
THEOREM IdentitiesKept == MCSpec => IdentityKept
  <1>. DEFINE Pardoned ==
        \E r \in Requests :
           \/ /\ SE!Saves(r, {"login"})
              /\ sessionReq[r].copy.kind # "none"
           \/ /\ SE!Saves(r, {"demo"})
              /\ \/ sessionReq[r].copy.kind # "none"
                 \/ sessionReq[r].copy.creds # None
           \/ /\ SE!Saves(r, SE!Ops)
              /\ \/ ~SE!Consistent(sessionReq[r].copy)
                 \/ SE!Elsewhere(r)
  <1>1. SessionInv /\ [SE!Next]_(SE!vars) =>
           [SE!Consistent(blob) => SE!Consistent(blob') \/ Pardoned]_(SE!vars)
    <2>1. SUFFICES ASSUME SessionInv, [SE!Next]_sessionVars, SE!Consistent(blob), ~Pardoned
                   PROVE  SE!Consistent(blob')
      BY DEF SE!vars, sessionVars
    <2>2. CASE blob' = blob
      BY <2>1, <2>2
    <2>3. CASE blob' # blob
      <3>1. PICK r \in Requests :
               Holding(r) /\ sessionReq'[r].pc = "idle" /\ Saved(r, blob')
        BY <2>1, <2>3, ChangesAreSaves
      <3>. DEFINE c == sessionReq[r].copy
                  u == sessionReq[r].arg
      <3>2. ~Idles(r) /\ c \in SE!Blob /\ sessionReq[r].op \in SE!Ops /\ u \in Users \cup {None}
        BY <2>1, <3>1, SessionRequestKnown, CopyKnown DEF SessionInv
      <3>3. SE!Saves(r, {sessionReq[r].op}) /\ SE!Saves(r, SE!Ops)
        BY <2>1, <3>1, <3>2, HoldingSaves
      <3>4. SE!Consistent(c) /\ ~SE!Elsewhere(r)
        BY <2>1, <3>3
      <3>. DEFINE s == SE!SignedIn(c, u)
                  d == SE!SignedIn(c, Demo)
      <3>5. /\ s \in SE!Blob /\ s.email = u /\ s.kind = c.kind
            /\ d \in SE!Blob /\ d.email = Demo /\ d.kind = c.kind /\ d.creds = c.creds
        BY <3>2, SignedInIs DEF SE!Mailboxes
      <3>6. CASE sessionReq[r].op = "login"
        <4>1. c.kind = "none"
          BY <2>1, <3>3, <3>6
        <4>2. u \in Home /\ blob' = [s EXCEPT !.creds = u]
          BY <3>1, <3>6 DEF Saved
        <4>. HIDE DEF s
        <4>3. /\ blob' \in SE!Blob /\ blob'.kind = "none" /\ blob'.creds = u
              /\ blob'.email = u /\ u # None
          BY <3>2, <3>5, <4>1, <4>2, NoneIsNobody DEF SE!Blob
        <4>. QED
          BY <4>2, <4>3, ConsistentIs
      <3>7. CASE sessionReq[r].op = "demo"
        <4>1. c.kind = "none" /\ c.creds = None
          BY <2>1, <3>3, <3>7
        <4>2. blob' = [d EXCEPT !.kind = "demo"]
          BY <3>1, <3>7 DEF Saved
        <4>. HIDE DEF d
        <4>3. /\ blob' \in SE!Blob /\ blob'.kind = "demo" /\ blob'.creds = None
              /\ blob'.email = Demo /\ Demo # None
          BY <3>5, <4>1, <4>2, NoneIsNobody DEF SE!Blob
        <4>. QED
          BY <4>3, ConsistentIs
      <3>8. CASE sessionReq[r].op = "oauth"
        <4>1. blob' = [c EXCEPT !.state = TRUE]
          BY <3>1, <3>8 DEF Saved
        <4>2. /\ blob' \in SE!Blob /\ blob'.auth = c.auth /\ blob'.email = c.email
              /\ blob'.kind = c.kind /\ blob'.creds = c.creds /\ blob'.tok = c.tok
          BY <3>2, <4>1 DEF SE!Blob
        <4>3. SE!Opens(blob') = SE!Opens(c)
          BY <3>2, <4>2, OpensIs
        <4>. QED
          BY <3>4, <4>2, <4>3 DEF SE!Consistent, SE!Sends
      <3>9. CASE sessionReq[r].op = "callback"
        <4>. DEFINE t == SE!Issued(u)
        <4>1. u \in Home /\ blob' = [s EXCEPT !.state = FALSE, !.kind = "oauth2", !.tok = t]
          BY <3>1, <3>9 DEF Saved
        <4>2. t \in SE!Token /\ t.user = u /\ u # None
          BY <2>1, <4>1, NoneIsNobody DEF SE!Issued, SE!Token, SessionInv, SessionTypes
        <4>. HIDE DEF s, t
        <4>3. /\ blob' \in SE!Blob /\ blob'.kind = "oauth2" /\ blob'.tok = t
              /\ blob'.email = u
          BY <3>5, <4>1, <4>2 DEF SE!Blob
        <4>. QED
          BY <4>2, <4>3, ConsistentIs, NoneIsNobody
      <3>10. CASE sessionReq[r].op = "logout"
        BY <3>1, <3>10 DEF Saved, SE!Empty, SE!Consistent
      <3>11. CASE sessionReq[r].op = "open"
        BY <3>1, <3>4, <3>11 DEF Saved
      <3>12. CASE sessionReq[r].op = "switch"
        <4>1. u \in Home
          BY <3>4, <3>12 DEF SE!Elsewhere
        <4>2. blob' = [s EXCEPT !.creds = u, !.kind = "none", !.tok = None]
          BY <3>1, <3>12 DEF Saved
        <4>. HIDE DEF s
        <4>3. /\ blob' \in SE!Blob /\ blob'.kind = "none" /\ blob'.creds = u
              /\ blob'.email = u /\ u # None
          BY <3>2, <3>5, <4>1, <4>2, NoneIsNobody DEF SE!Blob
        <4>. QED
          BY <4>1, <4>3, ConsistentIs
      <3>. QED
        BY <3>2, <3>6, <3>7, <3>8, <3>9, <3>10, <3>11, <3>12 DEF SE!Ops
    <2>. QED
      BY <2>2, <2>3
  <1>. QED
    BY SessionAlone, SessionHolds, <1>1, PTL DEF SE!Spec, IdentityKept, SE!IdentityKept

(* handlers/web/accounts.go: a stored account opens with its password,     *)
(* unless it is the way back to a session that was not consistent, or to   *)
(* one signed in by the demo or the OAuth login.                           *)
THEOREM EntriesRight == MCSpec => EntriesAreRight
  <1>. DEFINE Pardoned(r) == SE!StoresBack(r) /\ (~SE!Consistent(sessionReq[r].copy)
                                         \/ sessionReq[r].copy.kind # "none")
              Right == \A k \in SE!Mailboxes \X SE!Mailboxes :
                          accounts'[k] \in {accounts[k], None} \/
                          accounts'[k].password = k[2] \/
                          \E r \in Requests : Pardoned(r)
  <1>1. SessionInv /\ [SE!Next]_(SE!vars) => [Right]_(SE!vars)
    <2>1. SUFFICES ASSUME SessionInv, [SE!Next]_sessionVars,
                          NEW k \in SE!Mailboxes \X SE!Mailboxes, accounts'[k] # accounts[k]
                   PROVE  \/ accounts'[k] = None \/ accounts'[k].password = k[2]
                          \/ \E r \in Requests : Pardoned(r)
      BY DEF SE!vars, sessionVars
    <2>2. \/ SE!AddAccount \/ SE!DeleteAccount
          \/ \E r \in Requests : SE!SwitchBack(r)
      BY <2>1 DEF SE!Next, SE!Work, SE!Admit, SE!Read, SE!Refuse, SE!HandleLogin,
                  SE!HandleDemoLogin, SE!HandleOAuthLogin, SE!HandleOAuthCallback,
                  SE!HandleLogout, SE!UseClient, SE!Refresh, SE!SaveRefreshed, SE!SwitchOpen,
                  SE!SwitchSave, sessionVars
    <2>3. CASE SE!AddAccount
      <3>1. PICK u \in Users :
               accounts' = [accounts EXCEPT ![<<blob.email, u>>] =
                               [password |-> u, atHome |-> u \in Home]]
        BY <2>3 DEF SE!AddAccount
      <3>2. k = <<blob.email, u>>
        BY <2>1, <3>1 DEF SessionInv, SessionTypes
      <3>3. accounts'[k] = [password |-> u, atHome |-> u \in Home]
        BY <2>1, <3>1, <3>2 DEF SessionInv, SessionTypes
      <3>. QED
        BY <3>2, <3>3
    <2>4. CASE SE!DeleteAccount
      BY <2>1, <2>4 DEF SE!DeleteAccount, SessionInv, SessionTypes
    <2>5. CASE \E r \in Requests : SE!SwitchBack(r)
      <3>1. PICK r \in Requests : SE!SwitchBack(r)
        BY <2>5
      <3>. DEFINE c == sessionReq[r].copy
      <3>2. ~Idles(r) /\ Holding(r) /\ c \in SE!Blob
        BY <2>1, <3>1, CopyKnown DEF SE!SwitchBack, SE!At, Idles, Holding, SessionInv
      <3>3. /\ c.email # None /\ c.creds # None
            /\ accounts' = [accounts EXCEPT ![<<sessionReq[r].arg, c.email>>] =
                               SE!BackEntry(c)]
        BY <2>1, <3>1 DEF SE!SwitchBack
      <3>4. k = <<sessionReq[r].arg, c.email>>
        BY <2>1, <3>3 DEF SessionInv, SessionTypes
      <3>5. accounts'[k].password = c.creds
        BY <2>1, <3>3, <3>4 DEF SE!BackEntry, SessionInv, SessionTypes
      <3>6. CASE SE!Consistent(c) /\ c.kind = "none"
        <4>1. c.auth
          BY <2>1, <3>2, <3>3 DEF SessionInv, ShownInv, Shown
        <4>2. SE!Opens(c) = c.email
          BY <3>6, <4>1 DEF SE!Consistent
        <4>3. c.creds = c.email
          BY <3>2, <3>3, <3>6, <4>2, OpensIs
        <4>. QED
          BY <3>4, <3>5, <4>3
      <3>7. CASE ~SE!Consistent(c) \/ c.kind # "none"
        <4>1. SE!StoresBack(r)
          <5>1. sessionReq' = [sessionReq EXCEPT ![r].pc = "commit"] /\ SE!At(r, "switch", "save")
            BY <3>1 DEF SE!SwitchBack, SE!Goto
          <5>2. PICK q \in SessionRequest : q = sessionReq[r]
            BY <2>1, <3>2, SessionRequestKnown DEF SessionInv
          <5>3. sessionReq'[r] = [q EXCEPT !.pc = "commit"]
            BY <2>1, <5>1, <5>2 DEF SessionInv, SessionTypes
          <5>. QED
            BY <5>1, <5>2, <5>3 DEF SE!StoresBack, SessionRequest
        <4>. QED
          BY <3>7, <4>1
      <3>. QED
        BY <3>6, <3>7
    <2>. QED
      BY <2>2, <2>3, <2>4, <2>5
  <1>. QED
    BY SessionAlone, SessionHolds, <1>1, PTL DEF SE!Spec, EntriesAreRight, SE!EntriesAreRight

-----------------------------------------------------------------------------

(* Types: no more requests are admitted than the bound says.               *)
LEMMA SessionTyped == SE!Spec => []SE!TypeOK
  <1>. DEFINE Few == admitted \in 0..MaxAdmitted
  <1>1. SE!Init => Few
    BY SessionAssumption DEF SE!Init
  <1>2. Few /\ [SE!Next]_(SE!vars) => Few'
    BY SessionAssumption DEF SE!Next, SE!vars, SE!Admit, SE!AddAccount, SE!DeleteAccount,
       SE!Counted
  <1>3. SessionInv /\ [SE!Next]_(SE!vars) => SessionInv'
    BY SessionNext DEF SE!vars, sessionVars
  <1>4. SessionInv /\ Few => SE!TypeOK
    <2>. SUFFICES ASSUME SessionInv, Few PROVE SE!TypeOK
      OBVIOUS
    <2>1. SessionRequest \subseteq SE!Request
      BY DEF SessionRequest, SE!Request
    <2>2. ASSUME NEW r \in Requests, sessionReq[r].pc # "idle"
          PROVE  sessionReq[r] \in SE!Request
      BY <2>1, <2>2, SessionRequestKnown DEF SessionInv, Idles
    <2>. QED
      BY <2>2 DEF SessionInv, SessionTypes, SE!TypeOK
  <1>. HIDE DEF Few
  <1>. QED
    BY SessionInit, <1>1, <1>2, <1>3, <1>4, PTL DEF SE!Spec

=============================================================================
