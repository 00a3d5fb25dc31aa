------------------------------ MODULE Threading ------------------------------
(***************************************************************************)
(* The conversation list of handlers/api/threading.go (ThreadMessages):    *)
(* containers linked by References and In-Reply-To, roots in the random    *)
(* order of a Go map, empty containers pruned, roots with one subject      *)
(* merged.  The list of messages is chosen in the initial state; one step  *)
(* links one message, and one step is a pass over the roots.               *)
(*                                                                         *)
(* A message is [id, refs, replyTo, subject, reply]: the subject without   *)
(* its reply prefixes, and whether it had one; None where a header is      *)
(* empty.  A container is named by its Message-ID, or, without one, by the *)
(* position of its message and the step that makes it.                     *)
(***************************************************************************)
EXTENDS Naturals, Sequences, FiniteSets, SequencesExt

CONSTANTS
    Ids,        \* Message-IDs
    Subjects,
    Positions,  \* those of the longest list
    Lists,      \* the lists of messages
    None

VARIABLES
    mail,       \* the list
    stage,      \* "link", "group" or "done"
    forest,     \* [msg, parent, children] of every container
    known,      \* the keys of idTable
    roots,      \* the root set, in order
    next        \* the message to link

hvars == <<mail, stage, forest, known, roots, next>>

Anonymous(i) == <<i, "linked">>
Loose(i) == <<i, "root">>

Containers ==
    {<<i, "id">> : i \in Ids} \cup {Anonymous(i) : i \in Positions}
        \cup {Loose(i) : i \in Positions}

Message ==
    [id : Ids \cup {None}, refs : Seq(Ids), replyTo : Ids \cup {None},
     subject : Subjects \cup {None}, reply : BOOLEAN]

TypeOK ==
    /\ mail \in Lists
    /\ stage \in {"link", "group", "done"}
    /\ forest.msg \in [Containers -> Positions \cup {None}]
    /\ forest.parent \in [Containers -> Containers \cup {None}]
    /\ \A c \in Containers : ToSet(forest.children[c]) \subseteq Containers
    /\ known \subseteq Ids
    /\ ToSet(roots) \subseteq Containers
    /\ next \in {1} \cup {i + 1 : i \in Positions}

Init ==
    /\ mail \in Lists
    /\ stage = "link"
    /\ forest = [msg |-> [c \in Containers |-> None],
                 parent |-> [c \in Containers |-> None],
                 children |-> [c \in Containers |-> <<>>]]
    /\ known = {}
    /\ roots = <<>>
    /\ next = 1

(* The container and all above it, nearest first; None from the top on. *)
Above(f, c) ==
    LET up[n \in 0..Cardinality(Containers)] ==
            IF n = 0 THEN c
            ELSE IF up[n - 1] = None THEN None ELSE f.parent[up[n - 1]]
    IN  up

(* A loop guard that looks at the parent only. *)
HasParent(f, c, p) == f.parent[c] = p

(* hasAncestor *)
HasAncestor(f, c, p) ==
    \E n \in 1..Cardinality(Containers) : Above(f, c)[n] = p

(* addChild *)
AddChild(f, p, c) ==
    [f EXCEPT !.parent[c] = p, !.children[p] = Append(@, c)]

MayLink(f, p, c) == c # p /\ f.parent[c] = None /\ ~HasAncestor(f, p, c)

Linked(f, p, c) == IF MayLink(f, p, c) THEN AddChild(f, p, c) ELSE f

(* References, and In-Reply-To unless it is one of them. *)
Chain(e) ==
    IF e.replyTo = None \/ e.replyTo \in ToSet(e.refs) THEN e.refs
    ELSE Append(e.refs, e.replyTo)

(* Each reference under the one before it. *)
LinkedChain(f, refs) ==
    LET chain[i \in 0..Len(refs)] ==
            IF i <= 1 THEN f
            ELSE Linked(chain[i - 1], <<refs[i - 1], "id">>, <<refs[i], "id">>)
    IN  chain[Len(refs)]

ContainerOf(i) ==
    IF mail[i].id = None THEN Anonymous(i) ELSE <<mail[i].id, "id">>

(* The entries of idTable that a message makes. *)
Keys(e) == ToSet(Chain(e)) \cup ({e.id} \ {None})

(* Steps 1 and 2 for one message.  The first message of an id is kept.     *)
Link ==
    /\ stage = "link" /\ next <= Len(mail)
    /\ LET e == mail[next]
           c == ContainerOf(next)
           refs == Chain(e)
           filled == IF forest.msg[c] = None
                     THEN [forest EXCEPT !.msg[c] = next] ELSE forest
           chained == LinkedChain(filled, refs)
       IN  /\ forest' = IF refs = <<>> THEN chained
                        ELSE Linked(chained, <<Last(refs), "id">>, c)
           /\ known' = known \cup Keys(e)
    /\ next' = next + 1
    /\ UNCHANGED <<mail, stage, roots>>

Orders(S) == {s \in [1..Cardinality(S) -> S] : \A i, j \in DOMAIN s : s[i] = s[j] => i = j}

(* The members of s that are in S, in their order. *)
Among(s, S) ==
    LET among[i \in 0..Len(s)] ==
            IF i = 0 THEN <<>>
            ELSE IF s[i] \in S THEN Append(among[i - 1], s[i]) ELSE among[i - 1]
    IN  among[Len(s)]

WithoutId == Among([i \in DOMAIN mail |-> i], {i \in DOMAIN mail : mail[i].id = None})

(* Step 3: the map's containers without a parent, in any order, and then a *)
(* new container for each message without an id, linked or not.            *)
Roots ==
    /\ stage = "link" /\ next > Len(mail)
    /\ \E s \in Orders({<<i, "id">> : i \in {k \in known : forest.parent[<<k, "id">>] = None}}) :
          roots' = s \o [k \in DOMAIN WithoutId |-> Loose(WithoutId[k])]
    /\ forest' = [forest EXCEPT !.msg =
                     [c \in Containers |-> IF \E i \in ToSet(WithoutId) : c = Loose(i)
                                           THEN c[1] ELSE @[c]]]
    /\ stage' = "group"
    /\ UNCHANGED <<mail, known, next>>

(* pruneEmpties of a list of containers: those without a message and below *)
(* another, or with at most one child left, give way to their children,    *)
(* who keep the parent they had.                                           *)
Depth == Cardinality(Containers)

Pruned(cs, kids) ==
    FlattenSeq([i \in DOMAIN cs |->
        IF forest.msg[cs[i]] = None /\ (Len(kids[cs[i]]) <= 1 \/ forest.parent[cs[i]] # None)
        THEN kids[cs[i]] ELSE <<cs[i]>>])

PrunedChildren ==
    LET kids[n \in 0..Depth] ==
            [c \in Containers |->
                IF n = 0 THEN <<>> ELSE Pruned(forest.children[c], kids[n - 1])]
    IN  kids[Depth]

Subject(f, c) ==
    LET named == Among(<<c>> \o f.children[c],
                     {x \in Containers : f.msg[x] # None /\ mail[f.msg[x]].subject # None})
    IN  IF f.msg[c] # None THEN mail[f.msg[c]].subject
        ELSE IF named = <<>> THEN None ELSE mail[f.msg[named[1]]].subject

IsReply(f, c) == f.msg[c] # None /\ mail[f.msg[c]].reply

(* A merge that forgets the reply it found first. *)
MergedForgetful(g, s, c) ==
    IF g.tbl[s].reply /\ ~IsReply(g.f, c)
    THEN [g EXCEPT !.f.parent[g.tbl[s].c] = c, !.tbl[s] = [c |-> c, reply |-> FALSE]]
    ELSE [g EXCEPT !.f = AddChild(g.f, g.tbl[s].c, c)]

(* A root joins the first with its subject, or takes its place if that is  *)
(* a reply and it is not.                                                  *)
Merged(g, s, c) ==
    IF g.tbl[s].reply /\ ~IsReply(g.f, c)
    THEN [f |-> AddChild(g.f, c, g.tbl[s].c),
          tbl |-> [g.tbl EXCEPT ![s] = [c |-> c, reply |-> FALSE]]]
    ELSE [g EXCEPT !.f = AddChild(g.f, g.tbl[s].c, c)]

Grouped(g, c) ==
    LET s == Subject(g.f, c) IN
    CASE s = None -> g
      [] s # None /\ g.tbl[s] # None -> Merged(g, s, c)
      [] OTHER -> [g EXCEPT !.tbl[s] = [c |-> c, reply |-> IsReply(g.f, c)]]

(* The roots one after the other, with a table of the subjects.            *)
GroupedRoots(f, cs) ==
    LET g[i \in 0..Len(cs)] ==
            IF i = 0 THEN [f |-> f, tbl |-> [s \in Subjects |-> None]]
            ELSE Grouped(g[i - 1], cs[i])
    IN  g[Len(cs)]

(* Steps 4 and 5.  What is left are the entries of the table and the roots *)
(* whose own message has no subject or that have none, as far as they have *)
(* no parent.                                                              *)
Group ==
    /\ stage = "group"
    /\ LET f == [forest EXCEPT !.children = PrunedChildren]
           kept == Pruned(roots, f.children)
           g == GroupedRoots(f, kept)
           top == {c \in Containers : g.f.parent[c] = None}
           merged == {g.tbl[s].c : s \in {t \in Subjects : g.tbl[t] # None}} \cap top
           unnamed == Among(kept, {c \in top :
                          g.f.msg[c] = None \/ mail[g.f.msg[c]].subject = None})
       IN  /\ forest' = g.f
           /\ roots' = SetToSeq(merged) \o unnamed
    /\ stage' = "done"
    /\ UNCHANGED <<mail, known, next>>

Finished == stage = "done" /\ UNCHANGED hvars

Next == Link \/ Roots \/ Group \/ Finished

Spec == Init /\ [][Next]_hvars

(* No container comes to be its own ancestor, whatever message names       *)
(* whichever others: a cycle would keep every later page of the folder in  *)
(* an endless loop.                                                        *)
NoCycle ==
    \A c \in Containers :
        \A n \in 1..Cardinality(Containers) : Above(forest, c)[n] # c

(* collectMessages: the containers of a thread. *)
Below(c) ==
    LET sub[n \in 0..Depth] ==
            IF n = 0 THEN {c}
            ELSE sub[n - 1] \cup UNION {ToSet(forest.children[x]) : x \in sub[n - 1]}
    IN  sub[Depth]

(* In how many places of the list a message is shown. *)
Shown(i) ==
    Cardinality({p \in (DOMAIN roots) \X Containers :
                    p[2] \in Below(roots[p[1]]) /\ forest.msg[p[2]] = i})

Repeated(i) == \E j \in 1..(i - 1) : mail[i].id # None /\ mail[j].id = mail[i].id

(* Every message has an id and all its references are in the list. *)
Complete ==
    \A i \in DOMAIN mail :
        /\ mail[i].id # None
        /\ ToSet(Chain(mail[i])) \subseteq {mail[j].id : j \in DOMAIN mail}

(* A list that is complete is shown as it is: every message in one place,  *)
(* if it is the first of its Message-ID, whatever the headers say, in      *)
(* whatever order the roots are visited.                                   *)
CompleteListShownOnce ==
    stage = "done" /\ Complete =>
        \A i \in DOMAIN mail : Shown(i) = IF Repeated(i) THEN 0 ELSE 1

(* "Single-message conversations still appear as Thread{Count:1}"          *)
(* (threading.go:64): no message of the list is missing from its threads,  *)
(* also when what it answers is not in the list.                           *)
EveryMessageShown ==
    stage = "done" =>
        \A i \in DOMAIN mail : ~Repeated(i) => Shown(i) > 0

=============================================================================
