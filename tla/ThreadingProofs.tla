--------------------------- MODULE ThreadingProofs ---------------------------
(***************************************************************************)
(* Proofs about the conversation list (module Threading, composed by       *)
(* MCRequests), for every list of messages: its threads are trees, and if  *)
(* the list is complete they show it as it is.                             *)
(*                                                                         *)
(* What Threading computes by recursion is a function; two lemmas replace  *)
(* an induction over it.  Recursion: the function exists.  Steps: what     *)
(* holds at 0 and goes from each number to the next holds of all.          *)
(***************************************************************************)
EXTENDS MCRequests, FiniteSetTheorems, SequenceTheorems, WellFoundedInduction, TLAPS

LEMMA LeastNumber ==
    ASSUME NEW is \in SUBSET Nat, is # {}
    PROVE  \E i \in is : \A j \in is : i <= j
  <1>. DEFINE less == {ss \in Nat \X Nat : ss[1] < ss[2]}
  <1>1. IsWellFoundedOn(less, Nat)
    BY NatLessThanWellFounded DEF OpToRel
  <1>2. PICK i \in is : \A j \in is : <<j, i>> \notin less
    BY <1>1, WFMin
  <1>3. \A j \in is : ~(j < i)
    BY <1>2
  <1>. QED
    BY <1>3

(* What holds of 0 and goes from each number to the next holds up to n. *)
LEMMA Steps ==
    ASSUME NEW n \in Nat, NEW good, 0 \in good,
           \A i \in 1..n : i - 1 \in good => i \in good
    PROVE  \A i \in 0..n : i \in good
  <1>. DEFINE bad == {i \in 0..n : i \notin good}
  <1>1. SUFFICES ASSUME bad # {} PROVE FALSE
    OBVIOUS
  <1>2. PICK i \in bad : \A j \in bad : i <= j
    <2>1. bad \in SUBSET Nat
      OBVIOUS
    <2>. HIDE DEF bad
    <2>. QED
      BY <1>1, <2>1, LeastNumber
  <1>3. i \in 1..n /\ i - 1 \in 0..n
    BY <1>2
  <1>4. i - 1 \in good
    <2>1. i - 1 \in bad => i <= i - 1
      BY <1>2
    <2>. QED
      BY <1>3, <2>1
  <1>. QED
    BY <1>2, <1>3, <1>4

(* A function that gives each next value of the one before it exists. *)
Stepping(h, n, S) == h \in [(1..n) \X S -> S]

Stepped(g, b, h, n, S) ==
    /\ g \in [0..n -> S]
    /\ g[0] = b
    /\ \A i \in 1..n : g[i] = h[<<i, g[i - 1]>>]

LEMMA Recursion ==
    ASSUME NEW n \in Nat, NEW S, NEW b \in S, NEW h, Stepping(h, n, S)
    PROVE  \E g : Stepped(g, b, h, n, S)
  <1>. DEFINE good == {k \in 0..n : \E g : Stepped(g, b, h, k, S)}
  <1>1. 0 \in good
    <2>. DEFINE g == [i \in 0..0 |-> b]
    <2>1. Stepped(g, b, h, 0, S)
      BY DEF Stepped
    <2>. QED
      BY <2>1
  <1>2. ASSUME NEW k \in 1..n, k - 1 \in good
        PROVE  k \in good
    <2>1. PICK g : Stepped(g, b, h, k - 1, S)
      BY <1>2
    <2>2. /\ g \in [0..(k - 1) -> S] /\ g[0] = b /\ g[k - 1] \in S
          /\ \A i \in 1..(k - 1) : g[i] = h[<<i, g[i - 1]>>]
      BY <2>1 DEF Stepped
    <2>. DEFINE e == [i \in 0..k |-> IF i = k THEN h[<<k, g[k - 1]>>] ELSE g[i]]
    <2>3. h[<<k, g[k - 1]>>] \in S
      BY <2>2 DEF Stepping
    <2>4. e \in [0..k -> S] /\ e[0] = b
      BY <2>2, <2>3
    <2>5. ASSUME NEW i \in 1..k
          PROVE  e[i] = h[<<i, e[i - 1]>>]
      <3>1. e[i - 1] = g[i - 1]
        OBVIOUS
      <3>2. CASE i = k
        <4>1. e[k] = h[<<k, g[k - 1]>>]
          OBVIOUS
        <4>. HIDE DEF e
        <4>. QED
          BY <3>1, <3>2, <4>1
      <3>3. CASE i # k
        <4>1. i \in 1..(k - 1)
          BY <3>3
        <4>2. e[i] = g[i]
          BY <3>3
        <4>. QED
          BY <2>2, <3>1, <4>1, <4>2
      <3>. QED
        BY <3>2, <3>3
    <2>6. Stepped(e, b, h, k, S)
      <3>. HIDE DEF e
      <3>. QED
        BY <2>4, <2>5 DEF Stepped
    <2>. QED
      BY <2>6
  <1>3. n \in good
    <2>. HIDE DEF good
    <2>1. \A i \in 0..n : i \in good
      BY <1>1, <1>2, Steps
    <2>. QED
      BY <2>1
  <1>. QED
    BY <1>3

----------------------------------------------------------------------------

C == TH!Containers

LEMMA SameCardinality ==
    \A S : TH!Cardinality(S) = Cardinality(S)
  BY DEF TH!Cardinality, Cardinality

LEMMA AboveIs ==
    ASSUME NEW f, f.parent \in [C -> C \cup {None}], NEW c \in C, NEW N \in Nat,
           N = Cardinality(C), None \notin C
    PROVE  LET up == TH!Above(f, c) IN
           /\ up \in [0..N -> C \cup {None}]
           /\ up[0] = c
           /\ \A i \in 1..N : up[i] = IF up[i - 1] = None THEN None
                                      ELSE f.parent[up[i - 1]]
  <1>. DEFINE S == C \cup {None}
              h == [q \in (1..N) \X S |-> IF q[2] = None THEN None ELSE f.parent[q[2]]]
              P(u) == u = [n \in 0..N |-> IF n = 0 THEN c
                                        ELSE IF u[n - 1] = None THEN None
                                        ELSE f.parent[u[n - 1]]]
  <1>1. Stepping(h, N, S) /\ c \in S
    BY DEF Stepping
  <1>2. PICK g : Stepped(g, c, h, N, S)
    <2>. HIDE DEF h, S
    <2>. QED
      BY <1>1, Recursion
  <1>3. ASSUME NEW i \in 1..N
        PROVE  g[i] = IF g[i - 1] = None THEN None ELSE f.parent[g[i - 1]]
    <2>1. g[i - 1] \in S
      BY <1>2 DEF Stepped
    <2>. QED
      BY <1>2, <2>1 DEF Stepped
  <1>4. P(g)
    BY <1>2, <1>3 DEF Stepped
  <1>5. TH!Above(f, c) = CHOOSE u : P(u)
    BY SameCardinality DEF TH!Above, C
  <1>6. P(TH!Above(f, c))
    <2>. HIDE DEF P
    <2>. QED
      BY <1>4, <1>5
  <1>. DEFINE up == TH!Above(f, c)
  <1>. HIDE DEF up
  <1>7. up[0] = c /\ \A i \in 1..N : up[i] = IF up[i - 1] = None THEN None
                                             ELSE f.parent[up[i - 1]]
    BY <1>6 DEF up
  <1>8. DOMAIN up = 0..N /\ up = [n \in 0..N |-> up[n]]
    BY <1>6 DEF up
  <1>9. \A i \in 0..N : i \in {k \in 0..N : up[k] \in S}
    <2>. DEFINE good == {k \in 0..N : up[k] \in S}
    <2>1. 0 \in good
      BY <1>7
    <2>2. \A i \in 1..N : i - 1 \in good => i \in good
      BY <1>7
    <2>. HIDE DEF good
    <2>3. \A i \in 0..N : i \in good
      BY <2>1, <2>2, Steps
    <2>. QED
      BY <2>3 DEF good
  <1>10. up \in [0..N -> S]
    BY <1>8, <1>9
  <1>. QED
    BY <1>7, <1>10 DEF up

LEMMA ContainersFinite == IsFiniteSet(C) /\ None \notin C
  <1>1. ASSUME NEW S, IsFiniteSet(S), NEW t
        PROVE  IsFiniteSet({<<i, t>> : i \in S})
    <2>. DEFINE T == {<<i, t>> : i \in S}
                fst == [x \in T |-> x[1]]
    <2>1. fst \in Injection(T, S)
      BY DEF Injection, IsInjective
    <2>. QED
      BY <1>1, <2>1, FS_Injection
  <1>2. IsFiniteSet(Ids) /\ IsFiniteSet(Positions) /\ None \notin C
    BY ThreadsAssumption DEF C
  <1>3. /\ IsFiniteSet({<<i, "id">> : i \in Ids})
        /\ IsFiniteSet({<<i, "linked">> : i \in Positions})
        /\ IsFiniteSet({<<i, "root">> : i \in Positions})
    BY <1>1, <1>2
  <1>4. C = {<<i, "id">> : i \in Ids} \cup {<<i, "linked">> : i \in Positions}
              \cup {<<i, "root">> : i \in Positions}
    BY DEF C, TH!Containers, TH!Anonymous, TH!Loose
  <1>. QED
    BY <1>2, <1>3, <1>4, FS_Union

(* Containers and their parents. *)
Parents == [C -> C \cup {None}]

(* No set of containers in which everybody has their parent: no cycle. *)
Acyclic(par) == \A S \in SUBSET C : S # {} => \E c \in S : par[c] \notin S

(* Containers together with all that is above them. *)
Closed(par, A) == A \subseteq C /\ \A x \in A : par[x] \in A \cup {None}

(* Nothing is above itself, in the first step or a later one. *)
LEMMA NoRepeat ==
    ASSUME NEW f, f.parent \in Parents, Acyclic(f.parent), NEW c \in C,
           NEW N \in Nat, N = Cardinality(C),
           NEW up, up = TH!Above(f, c),
           NEW n \in 1..N, NEW m \in 0..(n - 1), up[m] = up[n]
    PROVE  up[n] = None
  <1>1. /\ up \in [0..N -> C \cup {None}]
        /\ \A i \in 1..N : up[i] = IF up[i - 1] = None THEN None
                                   ELSE f.parent[up[i - 1]]
    BY AboveIs, ContainersFinite DEF Parents
  <1>2. SUFFICES ASSUME up[n] # None PROVE FALSE
    OBVIOUS
  <1>3. \A k \in m..n : up[k] # None
    <2>. DEFINE good == {j \in 0..(n - m) : up[n - j] # None}
    <2>1. 0 \in good
      BY <1>2
    <2>2. ASSUME NEW j \in 1..(n - m), j - 1 \in good
          PROVE  j \in good
      <3>1. n - (j - 1) \in 1..N /\ (n - (j - 1)) - 1 = n - j
        OBVIOUS
      <3>. QED
        BY <1>1, <2>2, <3>1
    <2>. HIDE DEF good
    <2>3. \A j \in 0..(n - m) : j \in good
      BY <2>1, <2>2, Steps
    <2>4. ASSUME NEW k \in m..n
          PROVE  up[k] # None
      <3>1. n - k \in good /\ n - (n - k) = k
        BY <2>3
      <3>. QED
        BY <3>1 DEF good
    <2>. QED
      BY <2>4
  <1>. DEFINE S == {up[k] : k \in m..(n - 1)}
  <1>4. S \in SUBSET C /\ up[m] \in S
    BY <1>1, <1>3
  <1>5. ASSUME NEW k \in m..(n - 1)
        PROVE  f.parent[up[k]] \in S
    <2>1. k + 1 \in 1..N /\ (k + 1) - 1 = k /\ k \in m..n
      OBVIOUS
    <2>2. f.parent[up[k]] = up[k + 1]
      BY <1>1, <1>3, <2>1
    <2>3. CASE k + 1 = n
      BY <1>4, <2>2, <2>3
    <2>4. CASE k + 1 # n
      BY <2>2, <2>4
    <2>. QED
      BY <2>3, <2>4
  <1>6. \A x \in S : f.parent[x] \in S
    BY <1>5
  <1>. HIDE DEF S
  <1>. QED
    BY <1>4, <1>6 DEF Acyclic

(* So that the way up ends within the number of containers. *)
LEMMA UpEnds ==
    ASSUME NEW f, f.parent \in Parents, Acyclic(f.parent), NEW c \in C,
           NEW N \in Nat, N = Cardinality(C)
    PROVE  TH!Above(f, c)[N] = None
  <1>. DEFINE up == TH!Above(f, c)
  <1>1. /\ up \in [0..N -> C \cup {None}]
        /\ \A i \in 1..N : up[i] = IF up[i - 1] = None THEN None
                                   ELSE f.parent[up[i - 1]]
    BY AboveIs, ContainersFinite DEF Parents
  <1>. HIDE DEF up
  <1>2. SUFFICES ASSUME up[N] # None PROVE FALSE
    BY DEF up
  <1>3. \A k \in 0..N : up[k] # None
    <2>. DEFINE good == {j \in 0..N : up[N - j] # None}
    <2>1. 0 \in good
      BY <1>2
    <2>2. ASSUME NEW j \in 1..N, j - 1 \in good
          PROVE  j \in good
      <3>1. N - (j - 1) \in 1..N /\ (N - (j - 1)) - 1 = N - j
        OBVIOUS
      <3>. QED
        BY <1>1, <2>2, <3>1
    <2>. HIDE DEF good
    <2>3. \A j \in 0..N : j \in good
      BY <2>1, <2>2, Steps
    <2>4. ASSUME NEW k \in 0..N
          PROVE  up[k] # None
      <3>1. N - k \in good /\ N - (N - k) = k
        BY <2>3
      <3>. QED
        BY <3>1 DEF good
    <2>. QED
      BY <2>4
  <1>4. up \in [0..N -> C]
    BY <1>1, <1>3
  <1>5. IsFiniteSet(0..N) /\ Cardinality(0..N) = N + 1
    BY FS_Interval
  <1>6. PICK x, y \in 0..N : x # y /\ up[x] = up[y]
    BY <1>4, <1>5, ContainersFinite, FS_PigeonHole
  <1>7. \A n \in 1..N : \A m \in 0..(n - 1) : up[m] # up[n]
    BY <1>3, NoRepeat DEF up
  <1>8. CASE x < y
    <2>1. y \in 1..N /\ x \in 0..(y - 1)
      BY <1>8
    <2>. QED
      BY <1>6, <1>7, <2>1
  <1>9. CASE y < x
    <2>1. x \in 1..N /\ y \in 0..(x - 1)
      BY <1>9
    <2>. QED
      BY <1>6, <1>7, <2>1
  <1>. QED
    BY <1>6, <1>8, <1>9

(* What is not among the ancestors is outside of a closed set. *)
LEMMA AncestorsClosed ==
    ASSUME NEW f, f.parent \in Parents, Acyclic(f.parent), NEW c \in C, NEW p \in C,
           c # p, ~TH!HasAncestor(f, p, c)
    PROVE  \E A \in SUBSET C : Closed(f.parent, A) /\ p \in A /\ c \notin A
  <1>. DEFINE N == Cardinality(C)
              up == TH!Above(f, p)
              A == {up[k] : k \in 0..N} \ {None}
  <1>1. N \in Nat
    BY ContainersFinite, FS_CardinalityType
  <1>. HIDE DEF N
  <1>2. /\ up \in [0..N -> C \cup {None}]
        /\ up[0] = p
        /\ \A i \in 1..N : up[i] = IF up[i - 1] = None THEN None
                                   ELSE f.parent[up[i - 1]]
    BY <1>1, AboveIs, ContainersFinite DEF Parents, N
  <1>3. up[N] = None
    BY <1>1, UpEnds DEF N
  <1>4. \A k \in 1..N : up[k] # c
    BY SameCardinality DEF TH!HasAncestor, N, C
  <1>. HIDE DEF up
  <1>5. p \in A /\ A \subseteq C
    BY <1>1, <1>2, ContainersFinite
  <1>6. c \notin A
    BY <1>2, <1>4
  <1>7. ASSUME NEW k \in 0..N, up[k] # None
        PROVE  f.parent[up[k]] \in A \cup {None}
    <2>1. k + 1 \in 1..N /\ (k + 1) - 1 = k /\ k + 1 \in 0..N
      BY <1>1, <1>3, <1>7
    <2>2. f.parent[up[k]] = up[k + 1]
      BY <1>2, <1>7, <2>1
    <2>. QED
      BY <2>1, <2>2
  <1>8. Closed(f.parent, A)
    BY <1>5, <1>7 DEF Closed
  <1>. QED
    BY <1>5, <1>6, <1>8

(* A container under one that is not below it makes no cycle, and closed   *)
(* sets without it stay closed.                                            *)
LEMMA AddKeeps ==
    ASSUME NEW par \in Parents, Acyclic(par), NEW A \in SUBSET C, Closed(par, A),
           NEW p \in A, NEW c \in C \ A,
           NEW new, new = [par EXCEPT ![c] = p]
    PROVE  /\ new \in Parents
           /\ Acyclic(new)
           /\ \A B \in SUBSET C : Closed(par, B) /\ c \notin B => Closed(new, B)
  <1>1. new \in Parents /\ new[c] = p /\ \A x \in C \ {c} : new[x] = par[x]
    BY DEF Parents, Closed
  <1>2. ASSUME NEW S \in SUBSET C, S # {}
        PROVE  \E x \in S : new[x] \notin S
    <2>1. CASE S \cap A # {}
      <3>1. PICK x \in S \cap A : par[x] \notin S \cap A
        BY <2>1 DEF Acyclic
      <3>2. par[x] \in A \cup {None}
        BY <3>1 DEF Closed
      <3>3. new[x] \notin S
        BY <1>1, <3>1, <3>2, ContainersFinite
      <3>. QED
        BY <3>1, <3>3
    <2>2. CASE S \cap A = {}
      <3>1. PICK x \in S : par[x] \notin S
        BY <1>2 DEF Acyclic
      <3>2. new[x] \notin S
        BY <1>1, <2>2, <3>1
      <3>. QED
        BY <3>2
    <2>. QED
      BY <2>1, <2>2
  <1>3. ASSUME NEW B \in SUBSET C, Closed(par, B), c \notin B
        PROVE  Closed(new, B)
    BY <1>1, <1>3 DEF Closed
  <1>. QED
    BY <1>1, <1>2, <1>3 DEF Acyclic

----------------------------------------------------------------------------
(* What is below a container, and lists of containers whose parts below    *)
(* them are apart.                                                         *)

Down(par, D) == D \subseteq C /\ \A x \in C : par[x] \in D => x \in D

Under(par, c) == {x \in C : \A D \in SUBSET C : Down(par, D) /\ c \in D => x \in D}

Parted(par, s) ==
    \A i, j \in DOMAIN s : i # j => Under(par, s[i]) \cap Under(par, s[j]) = {}

Inside(par, s, c) == \A i \in DOMAIN s : s[i] \in Under(par, c)

LEMMA UnderIs ==
    ASSUME NEW par \in Parents, NEW c \in C
    PROVE  /\ Under(par, c) \in SUBSET C
           /\ c \in Under(par, c)
           /\ Down(par, Under(par, c))
           /\ \A x \in Under(par, c) : Under(par, x) \subseteq Under(par, c)
  <1>1. Under(par, c) \in SUBSET C /\ c \in Under(par, c)
    BY DEF Under
  <1>2. ASSUME NEW x \in C, par[x] \in Under(par, c)
        PROVE  x \in Under(par, c)
    <2>1. ASSUME NEW D \in SUBSET C, Down(par, D), c \in D
          PROVE  x \in D
      <3>1. par[x] \in D
        BY <1>2, <2>1 DEF Under
      <3>. QED
        BY <2>1, <3>1 DEF Down
    <2>. QED
      BY <2>1 DEF Under
  <1>3. Down(par, Under(par, c))
    BY <1>1, <1>2 DEF Down
  <1>4. ASSUME NEW x \in Under(par, c)
        PROVE  Under(par, x) \subseteq Under(par, c)
    BY <1>1, <1>3 DEF Under
  <1>. QED
    BY <1>1, <1>3, <1>4

(* Whatever is below c is c, or its parent is below c.                     *)
LEMMA UnderStep ==
    ASSUME NEW par \in Parents, NEW c \in C, NEW x \in Under(par, c), x # c
    PROVE  par[x] \in Under(par, c)
  <1>1. SUFFICES ASSUME par[x] \notin Under(par, c) PROVE FALSE
    OBVIOUS
  <1>. DEFINE U == Under(par, c)
              D == U \ {x}
  <1>2. U \in SUBSET C /\ c \in U /\ Down(par, U)
    BY UnderIs
  <1>3. D \in SUBSET C /\ c \in D
    BY <1>2
  <1>4. Down(par, D)
    BY <1>1, <1>2 DEF Down
  <1>. HIDE DEF D
  <1>5. x \in D
    BY <1>3, <1>4 DEF Under
  <1>. QED
    BY <1>5 DEF D

(* In a forest a parent is not below its child. *)
LEMMA ParentAbove ==
    ASSUME NEW par \in Parents, Acyclic(par), NEW c \in C
    PROVE  par[c] \notin Under(par, c)
  <1>1. SUFFICES ASSUME par[c] \in Under(par, c) PROVE FALSE
    OBVIOUS
  <1>2. \A x \in Under(par, c) : par[x] \in Under(par, c)
    BY <1>1, UnderStep
  <1>3. Under(par, c) \in SUBSET C /\ Under(par, c) # {}
    BY UnderIs
  <1>. QED
    BY <1>2, <1>3 DEF Acyclic

(* What is below two containers with one parent is apart. *)
LEMMA SiblingsApart ==
    ASSUME NEW par \in Parents, Acyclic(par), NEW x \in C, NEW y \in C, x # y,
           par[x] = par[y]
    PROVE  Under(par, x) \cap Under(par, y) = {}
  <1>. DEFINE X == Under(par, x)
              Y == Under(par, y)
              D == X \ Y
  <1>1. X \in SUBSET C /\ x \in X /\ Down(par, X) /\ y \in Y
    BY UnderIs
  <1>2. par[y] \notin X /\ par[x] \notin Y
    BY ParentAbove
  <1>3. x \notin Y
    BY <1>2, UnderStep
  <1>4. ASSUME NEW z \in C, par[z] \in D
        PROVE  z \in D
    <2>1. z \in X
      BY <1>1, <1>4 DEF Down
    <2>2. z # y
      BY <1>2, <1>4
    <2>3. z \notin Y
      BY <1>4, <2>2, UnderStep
    <2>. QED
      BY <2>1, <2>3
  <1>5. D \in SUBSET C /\ x \in D /\ Down(par, D)
    BY <1>1, <1>3, <1>4 DEF Down
  <1>6. X \subseteq D
    <2>. HIDE DEF D
    <2>. QED
      BY <1>5 DEF Under
  <1>. QED
    BY <1>6

----------------------------------------------------------------------------
(* FlattenSeq puts one list behind the other. *)
Flattened(g, seqs, S) ==
    /\ g \in [0..Len(seqs) -> Seq(S)]
    /\ g[0] = <<>>
    /\ \A i \in 1..Len(seqs) : g[i] = g[i - 1] \o seqs[i]

LEMMA FlattenIs ==
    ASSUME NEW S, NEW seqs \in Seq(Seq(S))
    PROVE  \E g : Flattened(g, seqs, S) /\ TH!FlattenSeq(seqs) = g[Len(seqs)]
  <1>. DEFINE L == Len(seqs)
              T == Seq(S)
              empty == <<>>
              h == [q \in (1..L) \X T |-> q[2] \o seqs[q[1]]]
              P(u) == u = [i \in 1..L |-> IF i = 1 THEN seqs[i] ELSE u[i - 1] \o seqs[i]]
  <1>1. L \in Nat /\ \A i \in 1..L : seqs[i] \in T
    OBVIOUS
  <1>2. Stepping(h, L, T) /\ empty \in T
    BY <1>1 DEF Stepping
  <1>3. PICK g : Stepped(g, empty, h, L, T)
    <2>. HIDE DEF h, T, L, empty
    <2>. QED
      BY <1>1, <1>2, Recursion
  <1>4. ASSUME NEW i \in 1..L
        PROVE  g[i] = g[i - 1] \o seqs[i]
    <2>1. g[i - 1] \in T /\ g[i] = h[<<i, g[i - 1]>>]
      <3>1. i - 1 \in 0..L
        BY <1>1
      <3>. HIDE DEF h, T, L
      <3>. QED
        BY <1>3, <3>1 DEF Stepped
    <2>. QED
      BY <2>1
  <1>5. Flattened(g, seqs, S)
    BY <1>3, <1>4 DEF Flattened, Stepped
  <1>6. CASE L = 0
    <2>1. TH!FlattenSeq(seqs) = seqs /\ seqs = <<>>
      BY <1>6 DEF TH!FlattenSeq
    <2>2. g[0] = <<>>
      BY <1>5 DEF Flattened
    <2>. QED
      BY <1>5, <1>6, <2>1, <2>2
  <1>7. CASE L # 0
    <2>0. g[1] = seqs[1]
      <3>1. 1 \in 1..L /\ 1 - 1 = 0
        BY <1>1, <1>7
      <3>2. g[1] = <<>> \o seqs[1] /\ seqs[1] \in Seq(S)
        BY <1>1, <1>4, <1>5, <3>1 DEF Flattened
      <3>. QED
        BY <3>2
    <2>. DEFINE first == [i \in 1..L |-> g[i]]
    <2>1. P(first)
      <3>1. ASSUME NEW i \in 1..L
            PROVE  first[i] = IF i = 1 THEN seqs[i] ELSE first[i - 1] \o seqs[i]
        <4>1. CASE i = 1
          BY <2>0, <4>1
        <4>2. CASE i # 1
          <5>1. i - 1 \in 1..L
            BY <1>1, <4>2
          <5>. QED
            BY <1>4, <4>2, <5>1
        <4>. QED
          BY <4>1, <4>2
      <3>. QED
        BY <3>1
    <2>2. TH!FlattenSeq(seqs) = (CHOOSE u : P(u))[L]
      BY <1>7 DEF TH!FlattenSeq
    <2>. DEFINE u == CHOOSE v : P(v)
    <2>3. P(u)
      <3>. HIDE DEF P, first
      <3>. QED
        BY <2>1
    <2>. HIDE DEF u
    <2>4. \A i \in 1..L : u[i] = IF i = 1 THEN seqs[i] ELSE u[i - 1] \o seqs[i]
      BY <2>3
    <2>5. \A i \in 0..L : i = 0 \/ u[i] = g[i]
      <3>. DEFINE good == {i \in 0..L : i = 0 \/ u[i] = g[i]}
      <3>1. 0 \in good
        OBVIOUS
      <3>2. ASSUME NEW i \in 1..L, i - 1 \in good
            PROVE  i \in good
        <4>1. CASE i = 1
          BY <2>0, <2>4, <4>1
        <4>2. CASE i # 1
          <5>1. u[i - 1] = g[i - 1]
            <6>1. i - 1 # 0
              BY <4>2
            <6>. QED
              BY <3>2, <6>1
          <5>2. u[i] = u[i - 1] \o seqs[i] /\ g[i] = g[i - 1] \o seqs[i]
            BY <1>4, <2>4, <4>2
          <5>3. u[i] = g[i] /\ i \in 0..L
            BY <5>1, <5>2
          <5>. QED
            BY <5>3
        <4>. QED
          BY <4>1, <4>2
      <3>. HIDE DEF good
      <3>3. \A i \in 0..L : i \in good
        BY <1>1, <3>1, <3>2, Steps
      <3>. QED
        BY <3>3 DEF good
    <2>6. u[L] = g[L]
      BY <1>1, <1>7, <2>5
    <2>. QED
      BY <1>5, <2>2, <2>6 DEF u
  <1>. QED
    BY <1>6, <1>7

(* Lists apart, each inside of one of containers apart, are apart one      *)
(* behind the other.                                                       *)
LEMMA FlattenParted ==
    ASSUME NEW par \in Parents, NEW cs \in Seq(C), Parted(par, cs),
           NEW seqs \in Seq(Seq(C)), Len(seqs) = Len(cs),
           \A i \in DOMAIN cs : Parted(par, seqs[i]) /\ Inside(par, seqs[i], cs[i]),
           NEW flat, flat = TH!FlattenSeq(seqs)
    PROVE  /\ flat \in Seq(C)
           /\ Parted(par, flat)
           /\ \A u \in DOMAIN flat : \E i \in DOMAIN cs : flat[u] \in Under(par, cs[i])
  <1>. DEFINE L == Len(cs)
              Within(s, k) == \A u \in DOMAIN s : \E i \in 1..k : s[u] \in Under(par, cs[i])
  <1>1. L \in Nat /\ DOMAIN cs = 1..L /\ \A i \in 1..L : cs[i] \in C /\ seqs[i] \in Seq(C)
    OBVIOUS
  <1>2. PICK g : Flattened(g, seqs, C) /\ flat = g[L]
    BY FlattenIs
  <1>3. /\ g \in [0..L -> Seq(C)] /\ g[0] = <<>>
        /\ \A i \in 1..L : g[i] = g[i - 1] \o seqs[i]
    BY <1>2 DEF Flattened
  <1>. DEFINE good == {k \in 0..L : Parted(par, g[k]) /\ Within(g[k], k)}
  <1>4. 0 \in good
    BY <1>1, <1>3 DEF Parted
  <1>5. ASSUME NEW k \in 1..L, k - 1 \in good
        PROVE  k \in good
    <2>. DEFINE a == g[k - 1]
                b == seqs[k]
                m == Len(a)
    <2>0. k - 1 \in 0..L /\ k \in 0..L /\ k \in DOMAIN cs
      BY <1>1
    <2>1. a \in Seq(C) /\ b \in Seq(C) /\ g[k] = a \o b /\ g[k] \in Seq(C)
      BY <1>1, <1>3, <2>0
    <2>2. Parted(par, a) /\ Within(a, k - 1) /\ Parted(par, b) /\ Inside(par, b, cs[k])
      BY <1>5, <2>0
    <2>. HIDE DEF a, b
    <2>3. /\ m \in Nat /\ DOMAIN g[k] = 1..(m + Len(b)) /\ DOMAIN a = 1..m
          /\ DOMAIN b = 1..Len(b) /\ Len(b) \in Nat
          /\ \A u \in 1..m : g[k][u] = a[u]
          /\ \A u \in DOMAIN g[k] : g[k][u] \in C
          /\ \A u \in (m + 1)..(m + Len(b)) : g[k][u] = b[u - m] /\ u - m \in 1..Len(b)
      BY <2>1
    <2>4. ASSUME NEW u \in DOMAIN g[k], u <= m
          PROVE  \E i \in 1..(k - 1) : Under(par, g[k][u]) \subseteq Under(par, cs[i])
      <3>1. u \in DOMAIN a /\ g[k][u] = a[u]
        BY <2>3, <2>4
      <3>2. PICK i \in 1..(k - 1) : a[u] \in Under(par, cs[i])
        BY <2>2, <3>1
      <3>. QED
        BY <1>1, <3>1, <3>2, UnderIs
    <2>5. ASSUME NEW u \in DOMAIN g[k], u > m
          PROVE  /\ u - m \in DOMAIN b /\ g[k][u] = b[u - m]
                 /\ g[k][u] \in Under(par, cs[k])
                 /\ Under(par, g[k][u]) \subseteq Under(par, cs[k])
      <3>0. u \in (m + 1)..(m + Len(b))
        BY <2>3, <2>5
      <3>1. u - m \in DOMAIN b /\ g[k][u] = b[u - m]
        BY <2>3, <3>0
      <3>2. b[u - m] \in Under(par, cs[k])
        BY <2>2, <3>1 DEF Inside
      <3>. QED
        BY <1>1, <3>1, <3>2, UnderIs
    <2>6. Within(g[k], k)
      <3>1. ASSUME NEW u \in DOMAIN g[k]
            PROVE  \E i \in 1..k : g[k][u] \in Under(par, cs[i])
        <4>1. CASE u <= m
          <5>1. PICK i \in 1..(k - 1) : Under(par, g[k][u]) \subseteq Under(par, cs[i])
            BY <2>4, <4>1
          <5>2. g[k][u] \in Under(par, g[k][u])
            BY <2>3, UnderIs
          <5>3. i \in 1..k /\ g[k][u] \in Under(par, cs[i])
            BY <5>1, <5>2
          <5>. QED
            BY <5>3
        <4>2. CASE u > m
          <5>1. k \in 1..k /\ g[k][u] \in Under(par, cs[k])
            BY <2>5, <4>2
          <5>. QED
            BY <5>1
        <4>. QED
          BY <2>3, <4>1, <4>2
      <3>. QED
        BY <3>1
    <2>7. \A i \in 1..(k - 1) : Under(par, cs[i]) \cap Under(par, cs[k]) = {}
      <3>1. \A i \in 1..(k - 1) : i \in DOMAIN cs /\ k \in DOMAIN cs /\ i # k
        BY <1>1
      <3>. QED
        BY <3>1 DEF Parted
    <2>8. ASSUME NEW u \in DOMAIN g[k], NEW v \in DOMAIN g[k], u < v
          PROVE  Under(par, g[k][u]) \cap Under(par, g[k][v]) = {}
      <3>1. CASE v <= m
        <4>1. /\ u \in DOMAIN a /\ v \in DOMAIN a /\ u # v
              /\ g[k][u] = a[u] /\ g[k][v] = a[v]
          BY <2>3, <2>8, <3>1
        <4>2. Parted(par, a)
          BY <2>2
        <4>. QED
          BY <4>1, <4>2 DEF Parted
      <3>2. CASE u <= m /\ v > m
        BY <2>4, <2>5, <2>7, <3>2
      <3>3. CASE u > m
        <4>1. /\ u - m \in DOMAIN b /\ g[k][u] = b[u - m]
              /\ v - m \in DOMAIN b /\ g[k][v] = b[v - m] /\ u - m # v - m
          BY <2>3, <2>5, <2>8, <3>3
        <4>. QED
          BY <2>2, <4>1 DEF Parted
      <3>. QED
        BY <2>3, <3>1, <3>2, <3>3
    <2>9. Parted(par, g[k])
      <3>1. ASSUME NEW u \in DOMAIN g[k], NEW v \in DOMAIN g[k], u # v
            PROVE  Under(par, g[k][u]) \cap Under(par, g[k][v]) = {}
        <4>1. CASE u < v
          BY <2>8, <4>1
        <4>2. CASE v < u
          BY <2>8, <4>2
        <4>. QED
          BY <2>3, <3>1, <4>1, <4>2
      <3>. QED
        BY <3>1 DEF Parted
    <2>. QED
      BY <2>6, <2>9
  <1>6. L \in good
    <2>. HIDE DEF good
    <2>1. \A k \in 0..L : k \in good
      BY <1>1, <1>4, <1>5, Steps
    <2>. QED
      BY <1>1, <2>1
  <1>. QED
    BY <1>1, <1>2, <1>3, <1>6

----------------------------------------------------------------------------
(* Pruning: lists of containers below each container, apart. *)
Broods(par, kids) ==
    /\ kids \in [C -> Seq(C)]
    /\ \A c \in C : Parted(par, kids[c]) /\ Inside(par, kids[c], c)

LEMMA PrunedParted ==
    ASSUME NEW par \in Parents, NEW cs \in Seq(C), Parted(par, cs),
           NEW kids, Broods(par, kids), NEW flat, flat = TH!Pruned(cs, kids)
    PROVE  /\ flat \in Seq(C)
           /\ Parted(par, flat)
           /\ \A u \in DOMAIN flat : \E i \in DOMAIN cs : flat[u] \in Under(par, cs[i])
  <1>. DEFINE gone(c) == /\ forest.msg[c] = None
                         /\ Len(kids[c]) <= 1 \/ forest.parent[c] # None
              seqs == [i \in DOMAIN cs |-> IF gone(cs[i]) THEN kids[cs[i]] ELSE <<cs[i]>>]
  <1>1. flat = TH!FlattenSeq(seqs)
    BY DEF TH!Pruned
  <1>2. ASSUME NEW i \in DOMAIN cs
        PROVE  /\ seqs[i] \in Seq(C)
               /\ Parted(par, seqs[i]) /\ Inside(par, seqs[i], cs[i])
    <2>1. cs[i] \in C
      OBVIOUS
    <2>2. /\ kids[cs[i]] \in Seq(C)
          /\ Parted(par, kids[cs[i]]) /\ Inside(par, kids[cs[i]], cs[i])
      BY <2>1 DEF Broods
    <2>3. /\ <<cs[i]>> \in Seq(C)
          /\ Parted(par, <<cs[i]>>) /\ Inside(par, <<cs[i]>>, cs[i])
      <3>1. cs[i] \in Under(par, cs[i])
        BY <2>1, UnderIs
      <3>. QED
        BY <2>1, <3>1 DEF Parted, Inside
    <2>4. seqs[i] = kids[cs[i]] \/ seqs[i] = <<cs[i]>>
      OBVIOUS
    <2>. HIDE DEF seqs
    <2>. QED
      BY <2>2, <2>3, <2>4
  <1>3. seqs \in Seq(Seq(C)) /\ Len(seqs) = Len(cs)
    <2>1. Len(cs) \in Nat /\ DOMAIN cs = 1..Len(cs)
      OBVIOUS
    <2>2. seqs = [i \in DOMAIN cs |-> seqs[i]]
      OBVIOUS
    <2>. HIDE DEF seqs
    <2>3. seqs \in [1..Len(cs) -> Seq(C)]
      BY <1>2, <2>1, <2>2
    <2>. QED
      BY <2>1, <2>3
  <1>. HIDE DEF seqs
  <1>. QED
    BY <1>1, <1>2, <1>3, FlattenParted

(* Children have their parent and are in one place of its list. *)
Families(f) ==
    /\ f.parent \in Parents
    /\ Acyclic(f.parent)
    /\ f.children \in [C -> Seq(C)]
    /\ \A c \in C : \A i, j \in DOMAIN f.children[c] :
          /\ f.parent[f.children[c][i]] = c
          /\ i # j => f.children[c][i] # f.children[c][j]

LEMMA FamiliesParted ==
    ASSUME NEW f, Families(f)
    PROVE  Broods(f.parent, f.children)
  <1>. DEFINE par == f.parent
              kids == f.children
  <1>1. par \in Parents /\ Acyclic(par) /\ kids \in [C -> Seq(C)]
    BY DEF Families
  <1>2. ASSUME NEW c \in C, NEW i \in DOMAIN kids[c]
        PROVE  kids[c][i] \in C /\ par[kids[c][i]] = c
    <2>1. kids[c] \in Seq(C)
      BY <1>1
    <2>2. kids[c][i] \in C
      BY <2>1
    <2>. QED
      BY <2>2 DEF Families
  <1>3. ASSUME NEW c \in C, NEW i \in DOMAIN kids[c], NEW j \in DOMAIN kids[c], i # j
        PROVE  Under(par, kids[c][i]) \cap Under(par, kids[c][j]) = {}
    <2>1. kids[c][i] # kids[c][j]
      BY <1>3 DEF Families
    <2>2. kids[c][i] \in C /\ par[kids[c][i]] = c
      BY <1>2
    <2>3. kids[c][j] \in C /\ par[kids[c][j]] = c
      BY <1>2
    <2>4. par \in Parents /\ Acyclic(par) /\ par[kids[c][i]] = par[kids[c][j]]
      BY <1>1, <2>2, <2>3
    <2>. HIDE DEF par, kids
    <2>. QED
      BY <2>1, <2>2, <2>3, <2>4, SiblingsApart
  <1>4. ASSUME NEW c \in C, NEW i \in DOMAIN kids[c]
        PROVE  kids[c][i] \in Under(par, c)
    <2>. HIDE DEF par, kids
    <2>. QED
      BY <1>1, <1>2, UnderIs DEF Down
  <1>. QED
    BY <1>1, <1>3, <1>4 DEF Broods, Parted, Inside

LEMMA PrunedChildrenBroods ==
    ASSUME Families(forest)
    PROVE  /\ Broods(forest.parent, TH!PrunedChildren)
           /\ C # {} => \E kids : TH!PrunedChildren =
                           [c \in C |-> TH!Pruned(forest.children[c], kids)]
  <1>. DEFINE par == forest.parent
              N == Cardinality(C)
              S == {k \in [C -> Seq(C)] : Broods(par, k)}
              none == [c \in C |-> <<>>]
              level(k) == [c \in C |-> TH!Pruned(forest.children[c], k)]
              h == [q \in (1..N) \X S |-> level(q[2])]
              P(u) == u = [n \in 0..N |-> [c \in C |->
                             IF n = 0 THEN <<>>
                             ELSE TH!Pruned(forest.children[c], u[n - 1])]]
  <1>1. N \in Nat
    BY ContainersFinite, FS_CardinalityType
  <1>2. par \in Parents /\ Broods(par, forest.children)
    BY FamiliesParted DEF Families
  <1>3. none \in S
    <2>1. none \in [C -> Seq(C)] /\ \A c \in C : DOMAIN none[c] = {}
      OBVIOUS
    <2>. HIDE DEF none
    <2>. QED
      BY <2>1 DEF Broods, Parted, Inside
  <1>4. ASSUME NEW k \in S
        PROVE  level(k) \in S
    <2>1. ASSUME NEW c \in C, NEW flat, flat = TH!Pruned(forest.children[c], k)
          PROVE  flat \in Seq(C) /\ Parted(par, flat) /\ Inside(par, flat, c)
      <3>. DEFINE cs == forest.children[c]
      <3>1. cs \in Seq(C) /\ Parted(par, cs) /\ Inside(par, cs, c)
        BY <1>2 DEF Broods
      <3>2. Broods(par, k)
        BY <1>4
      <3>. HIDE DEF cs, par
      <3>3. /\ flat \in Seq(C) /\ Parted(par, flat)
            /\ \A u \in DOMAIN flat : \E i \in DOMAIN cs : flat[u] \in Under(par, cs[i])
        BY <1>2, <2>1, <3>1, <3>2, PrunedParted DEF cs
      <3>4. \A i \in DOMAIN cs : Under(par, cs[i]) \subseteq Under(par, c)
        BY <1>2, <3>1, UnderIs DEF Inside
      <3>. QED
        BY <3>3, <3>4 DEF Inside
    <2>. DEFINE lv == level(k)
    <2>2. lv \in [C -> Seq(C)]
      BY <2>1
    <2>3. \A c \in C : Parted(par, lv[c]) /\ Inside(par, lv[c], c)
      BY <2>1
    <2>. HIDE DEF lv
    <2>4. lv \in S
      BY <2>2, <2>3 DEF Broods
    <2>. QED
      BY <2>4 DEF lv
  <1>5. Stepping(h, N, S)
    BY <1>4 DEF Stepping
  <1>6. PICK g : Stepped(g, none, h, N, S)
    <2>. HIDE DEF h, S, N, none
    <2>. QED
      BY <1>1, <1>3, <1>5, Recursion
  <1>7. /\ g \in [0..N -> S] /\ g[0] = none
        /\ \A i \in 1..N : g[i] = level(g[i - 1])
    <2>1. g \in [0..N -> S] /\ g[0] = none /\ \A i \in 1..N : g[i] = h[<<i, g[i - 1]>>]
      BY <1>6 DEF Stepped
    <2>2. ASSUME NEW i \in 1..N
          PROVE  g[i] = level(g[i - 1])
      <3>1. i - 1 \in 0..N
        BY <1>1
      <3>2. g[i - 1] \in S
        <4>. HIDE DEF S
        <4>. QED
          BY <2>1, <3>1
      <3>. HIDE DEF level, S
      <3>. QED
        BY <2>1, <3>2
    <2>. QED
      BY <2>1, <2>2
  <1>8. P(g)
    <2>1. ASSUME NEW n \in 0..N
          PROVE  g[n] = [c \in C |-> IF n = 0 THEN <<>>
                                     ELSE TH!Pruned(forest.children[c], g[n - 1])]
      <3>1. CASE n = 0
        BY <1>7, <3>1
      <3>2. CASE n # 0
        <4>1. n \in 1..N
          BY <1>1, <3>2
        <4>. QED
          BY <1>7, <3>2, <4>1
      <3>. QED
        BY <3>1, <3>2
    <2>. QED
      BY <1>7, <2>1
  <1>9. TH!PrunedChildren = (CHOOSE u : P(u))[N]
    BY SameCardinality DEF TH!PrunedChildren, TH!Depth, C
  <1>. DEFINE u == CHOOSE v : P(v)
  <1>10. P(u)
    <2>. HIDE DEF P
    <2>. QED
      BY <1>8
  <1>. HIDE DEF u
  <1>11. u[0] = none /\ \A n \in 1..N : u[n] = level(u[n - 1])
    BY <1>1, <1>10
  <1>12. u[N] \in S
    <2>. HIDE DEF S, level, none
    <2>. DEFINE good == {n \in 0..N : u[n] \in S}
    <2>1. 0 \in good
      BY <1>1, <1>3, <1>11
    <2>2. ASSUME NEW n \in 1..N, n - 1 \in good
          PROVE  n \in good
      BY <1>4, <1>11, <2>2
    <2>. HIDE DEF good
    <2>3. \A n \in 0..N : n \in good
      BY <1>1, <2>1, <2>2, Steps
    <2>. QED
      BY <1>1, <2>3 DEF good
  <1>13. C # {} => N \in 1..N
    BY <1>1, ContainersFinite, FS_EmptySet
  <1>14. C # {} => TH!PrunedChildren = level(u[N - 1])
    BY <1>9, <1>11, <1>13 DEF u
  <1>. QED
    BY <1>9, <1>12, <1>14 DEF u

----------------------------------------------------------------------------
(* Linking. *)
Forests ==
    [msg : [C -> DOMAIN mail \cup {None}], parent : Parents, children : [C -> Seq(C)]]

(* While messages are linked: a forest, and nothing above or below the     *)
(* containers that the roots will bring.                                   *)
Growing ==
    {f \in Forests : Families(f) /\ \A i \in Positions : f.parent[TH!Loose(i)] = None}

Added(f, g, p, c) ==
    /\ g \in Forests
    /\ g.msg = f.msg
    /\ g.parent = [f.parent EXCEPT ![c] = p]
    /\ g.children = [f.children EXCEPT ![p] = Append(@, c)]

LEMMA AddChildIs ==
    ASSUME NEW f \in Forests, NEW p \in C, NEW c \in C
    PROVE  Added(f, TH!AddChild(f, p, c), p, c)
  <1>. DEFINE g == TH!AddChild(f, p, c)
  <1>1. g = [f EXCEPT !.parent = [f.parent EXCEPT ![c] = p],
                      !.children = [f.children EXCEPT ![p] = Append(@, c)]]
    BY DEF TH!AddChild, Forests
  <1>2. [f.parent EXCEPT ![c] = p] \in Parents
    BY DEF Forests, Parents
  <1>3. [f.children EXCEPT ![p] = Append(@, c)] \in [C -> Seq(C)]
    <2>1. f.children \in [C -> Seq(C)] /\ Append(f.children[p], c) \in Seq(C)
      BY DEF Forests
    <2>. QED
      BY <2>1
  <1>. HIDE DEF g
  <1>4. Added(f, g, p, c)
    BY <1>1, <1>2, <1>3 DEF Forests, Added
  <1>. QED
    BY <1>4 DEF g

LEMMA AddFamily ==
    ASSUME NEW f \in Forests, Families(f), NEW p \in C, NEW c \in C,
           f.parent[c] = None, NEW g, g = TH!AddChild(f, p, c), Acyclic(g.parent)
    PROVE  Families(g)
  <1>1. /\ g \in Forests
        /\ g.parent = [f.parent EXCEPT ![c] = p]
        /\ g.children = [f.children EXCEPT ![p] = Append(@, c)]
    <2>1. Added(f, g, p, c)
      BY AddChildIs
    <2>. QED
      BY <2>1 DEF Added
  <1>2. /\ f.parent \in Parents /\ f.children \in [C -> Seq(C)]
        /\ g.parent \in Parents /\ g.children \in [C -> Seq(C)]
    BY <1>1 DEF Forests
  <1>3. \A x \in C : \A i \in DOMAIN f.children[x] :
           f.children[x][i] \in C /\ f.children[x][i] # c
           /\ g.parent[f.children[x][i]] = x
    <2>1. ASSUME NEW x \in C, NEW i \in DOMAIN f.children[x]
          PROVE  f.children[x][i] \in C /\ f.parent[f.children[x][i]] = x /\ x # None
      <3>1. f.children[x] \in Seq(C)
        BY <1>2
      <3>. QED
        BY <3>1, ContainersFinite DEF Families
    <2>. QED
      BY <1>1, <1>2, <2>1 DEF Parents
  <1>4. ASSUME NEW x \in C, NEW i \in DOMAIN g.children[x], NEW j \in DOMAIN g.children[x]
        PROVE  /\ g.parent[g.children[x][i]] = x
               /\ i # j => g.children[x][i] # g.children[x][j]
    <2>. DEFINE s == f.children[x]
    <2>1. s \in Seq(C) /\ \A k \in DOMAIN s : s[k] # c /\ g.parent[s[k]] = x
      BY <1>2, <1>3
    <2>2. \A k, l \in DOMAIN s : k # l => s[k] # s[l]
      BY DEF Families
    <2>3. CASE x = p
      <3>1. g.children[x] = Append(s, c) /\ g.parent[c] = x
        BY <1>1, <1>2, <2>3 DEF Parents
      <3>. HIDE DEF s
      <3>. QED
        BY <2>1, <2>2, <3>1
    <2>4. CASE x # p
      <3>1. g.children[x] = s
        BY <1>1, <1>2, <2>4
      <3>. HIDE DEF s
      <3>. QED
        BY <2>1, <2>2, <3>1
    <2>. QED
      BY <2>3, <2>4
  <1>. QED
    BY <1>2, <1>4 DEF Families

LEMMA LinkedGrows ==
    ASSUME NEW f \in Growing, NEW p \in C, NEW c \in C,
           \A i \in Positions : c # TH!Loose(i)
    PROVE  TH!Linked(f, p, c) \in Growing /\ TH!Linked(f, p, c).msg = f.msg
  <1>1. f \in Forests /\ Families(f) /\ f.parent \in Parents /\ Acyclic(f.parent)
    BY DEF Growing, Families
  <1>2. CASE ~TH!MayLink(f, p, c)
    BY <1>2 DEF TH!Linked
  <1>3. CASE TH!MayLink(f, p, c)
    <2>. DEFINE g == TH!AddChild(f, p, c)
    <2>1. TH!Linked(f, p, c) = g
      BY <1>3 DEF TH!Linked
    <2>2. c # p /\ f.parent[c] = None /\ ~TH!HasAncestor(f, p, c)
      BY <1>3 DEF TH!MayLink
    <2>. HIDE DEF g
    <2>3. PICK A \in SUBSET C : Closed(f.parent, A) /\ p \in A /\ c \notin A
      BY <1>1, <2>2, AncestorsClosed
    <2>4. g \in Forests /\ g.msg = f.msg /\ g.parent = [f.parent EXCEPT ![c] = p]
      <3>1. Added(f, g, p, c)
        BY <1>1, AddChildIs DEF g
      <3>. QED
        BY <3>1 DEF Added
    <2>5. Acyclic(g.parent)
      BY <1>1, <2>3, <2>4, AddKeeps
    <2>6. Families(g)
      BY <1>1, <2>2, <2>5, AddFamily DEF g
    <2>7. \A i \in Positions : TH!Loose(i) \in C
      BY DEF C, TH!Containers
    <2>8. \A i \in Positions : g.parent[TH!Loose(i)] = None
      BY <1>1, <2>4, <2>7 DEF Growing, Parents
    <2>. QED
      BY <2>1, <2>4, <2>6, <2>8 DEF Growing
  <1>. QED
    BY <1>2, <1>3

(* What holds of a forest and survives each link survives a chain of them. *)
LEMMA LinkedChainIn ==
    ASSUME NEW S, NEW f \in S, NEW refs \in Seq(Ids),
           \A i \in 2..Len(refs) : \A g \in S :
              TH!Linked(g, <<refs[i - 1], "id">>, <<refs[i], "id">>) \in S
    PROVE  TH!LinkedChain(f, refs) \in S
  <1>. DEFINE L == Len(refs)
              link(i, g) == TH!Linked(g, <<refs[i - 1], "id">>, <<refs[i], "id">>)
              h == [q \in (1..L) \X S |-> IF q[1] <= 1 THEN f ELSE link(q[1], q[2])]
              P(u) == u = [i \in 0..L |-> IF i <= 1 THEN f
                             ELSE TH!Linked(u[i - 1], <<refs[i - 1], "id">>, <<refs[i], "id">>)]
  <1>1. L \in Nat /\ \A i \in 1..L : ~(i <= 1) => i \in 2..L
    OBVIOUS
  <1>2. \A i \in 2..L : \A g \in S : link(i, g) \in S
    OBVIOUS
  <1>3. Stepping(h, L, S)
    <2>. HIDE DEF link
    <2>. QED
      BY <1>1, <1>2 DEF Stepping
  <1>4. PICK g : Stepped(g, f, h, L, S)
    <2>. HIDE DEF h, L
    <2>. QED
      BY <1>1, <1>3, Recursion
  <1>5. /\ g \in [0..L -> S] /\ g[0] = f
        /\ \A i \in 1..L : g[i] = IF i <= 1 THEN f ELSE link(i, g[i - 1])
    <2>1. g \in [0..L -> S] /\ g[0] = f /\ \A i \in 1..L : g[i] = h[<<i, g[i - 1]>>]
      BY <1>4 DEF Stepped
    <2>2. ASSUME NEW i \in 1..L
          PROVE  g[i] = IF i <= 1 THEN f ELSE link(i, g[i - 1])
      <3>1. i - 1 \in 0..L
        BY <1>1
      <3>2. g[i - 1] \in S
        BY <2>1, <3>1
      <3>. HIDE DEF link
      <3>. QED
        BY <2>1, <3>2
    <2>. QED
      BY <2>1, <2>2
  <1>6. P(g)
    <2>1. \A i \in 0..L : i = 0 \/ i \in 1..L
      BY <1>1
    <2>. QED
      BY <1>5, <2>1
  <1>7. TH!LinkedChain(f, refs) = (CHOOSE u : P(u))[L]
    BY DEF TH!LinkedChain
  <1>. DEFINE u == CHOOSE v : P(v)
  <1>8. P(u)
    <2>. HIDE DEF P
    <2>. QED
      BY <1>6
  <1>. HIDE DEF u
  <1>9. u[0] = f /\ \A i \in 1..L : u[i] = IF i <= 1 THEN f ELSE link(i, u[i - 1])
    <2>1. 0 \in 0..L /\ 0 <= 1 /\ \A i \in 1..L : i \in 0..L
      BY <1>1
    <2>2. \A i \in 0..L : u[i] = IF i <= 1 THEN f ELSE link(i, u[i - 1])
      BY <1>8
    <2>. HIDE DEF link
    <2>. QED
      BY <2>1, <2>2
  <1>10. u[L] \in S
    <2>. HIDE DEF link
    <2>. DEFINE good == {i \in 0..L : u[i] \in S}
    <2>1. 0 \in good
      BY <1>1, <1>9
    <2>2. ASSUME NEW i \in 1..L, i - 1 \in good
          PROVE  i \in good
      BY <1>1, <1>2, <1>9, <2>2
    <2>. HIDE DEF good
    <2>3. \A i \in 0..L : i \in good
      BY <1>1, <2>1, <2>2, Steps
    <2>. QED
      BY <1>1, <2>3 DEF good
  <1>. QED
    BY <1>7, <1>10 DEF u

LEMMA ReferencesIn ==
    ASSUME NEW refs \in Seq(Ids), NEW i \in 1..Len(refs)
    PROVE  /\ <<refs[i], "id">> \in C
           /\ \A j \in Positions : <<refs[i], "id">> # TH!Loose(j)
  <1>1. refs[i] \in Ids
    OBVIOUS
  <1>. QED
    BY <1>1 DEF C, TH!Containers, TH!Loose

LEMMA LinkedChainGrows ==
    ASSUME NEW f \in Growing, NEW refs \in Seq(Ids)
    PROVE  TH!LinkedChain(f, refs) \in Growing
  <1>1. ASSUME NEW i \in 2..Len(refs), NEW g \in Growing
        PROVE  TH!Linked(g, <<refs[i - 1], "id">>, <<refs[i], "id">>) \in Growing
    <2>1. i - 1 \in 1..Len(refs) /\ i \in 1..Len(refs)
      OBVIOUS
    <2>. QED
      BY <2>1, ReferencesIn, LinkedGrows
  <1>. QED
    BY <1>1, LinkedChainIn

----------------------------------------------------------------------------
Distinct(s) == \A i, j \in DOMAIN s : i # j => s[i] # s[j]

Picked(r, s, T, k) ==
    /\ \A i \in DOMAIN r : r[i] \in T /\ \E j \in 1..k : r[i] = s[j]
    /\ \A j \in 1..k : s[j] \in T => \E i \in DOMAIN r : r[i] = s[j]
    /\ Distinct(s) => Distinct(r)

LEMMA AmongIs ==
    ASSUME NEW S, NEW s \in Seq(S), NEW T
    PROVE  TH!Among(s, T) \in Seq(S) /\ Picked(TH!Among(s, T), s, T, Len(s))
  <1>. DEFINE L == Len(s)
              W == Seq(S)
              empty == <<>>
              pick(i, r) == IF s[i] \in T THEN Append(r, s[i]) ELSE r
              h == [q \in (1..L) \X W |-> pick(q[1], q[2])]
              P(u) == u = [i \in 0..L |-> IF i = 0 THEN <<>>
                                          ELSE IF s[i] \in T THEN Append(u[i - 1], s[i])
                                          ELSE u[i - 1]]
  <1>1. L \in Nat /\ empty \in W /\ DOMAIN s = 1..L /\ \A i \in 1..L : s[i] \in S
    OBVIOUS
  <1>2. ASSUME NEW i \in 1..L, NEW r \in W
        PROVE  pick(i, r) \in W
    BY <1>1
  <1>3. Stepping(h, L, W)
    <2>. HIDE DEF pick, W
    <2>. QED
      BY <1>2 DEF Stepping
  <1>4. PICK g : Stepped(g, empty, h, L, W)
    <2>. HIDE DEF h, W, L, empty
    <2>. QED
      BY <1>1, <1>3, Recursion
  <1>5. /\ g \in [0..L -> W] /\ g[0] = <<>>
        /\ \A i \in 1..L : g[i] = pick(i, g[i - 1])
    <2>1. g \in [0..L -> W] /\ g[0] = <<>> /\ \A i \in 1..L : g[i] = h[<<i, g[i - 1]>>]
      BY <1>4 DEF Stepped
    <2>2. ASSUME NEW i \in 1..L
          PROVE  g[i] = pick(i, g[i - 1])
      <3>1. i - 1 \in 0..L
        BY <1>1
      <3>2. g[i - 1] \in W
        <4>. HIDE DEF W
        <4>. QED
          BY <2>1, <3>1
      <3>. HIDE DEF pick, W
      <3>. QED
        BY <2>1, <3>2
    <2>. QED
      BY <2>1, <2>2
  <1>6. P(g)
    <2>1. \A i \in 0..L : i = 0 \/ i \in 1..L
      BY <1>1
    <2>2. \A i \in 1..L : i # 0
      BY <1>1
    <2>. QED
      BY <1>5, <2>1, <2>2
  <1>7. TH!Among(s, T) = (CHOOSE u : P(u))[L]
    BY DEF TH!Among
  <1>. DEFINE u == CHOOSE v : P(v)
  <1>8. P(u)
    <2>. HIDE DEF P
    <2>. QED
      BY <1>6
  <1>. HIDE DEF u
  <1>9. u[0] = <<>> /\ \A i \in 1..L : u[i] = pick(i, u[i - 1])
    <2>1. 0 \in 0..L /\ \A i \in 1..L : i \in 0..L /\ i # 0
      BY <1>1
    <2>2. \A i \in 0..L : u[i] = IF i = 0 THEN <<>> ELSE pick(i, u[i - 1])
      BY <1>8
    <2>. HIDE DEF pick
    <2>. QED
      BY <2>1, <2>2
  <1>. DEFINE good == {i \in 0..L : u[i] \in W /\ Picked(u[i], s, T, i)}
  <1>10. 0 \in good
    <2>. DEFINE a == u[0]
    <2>1. a \in W /\ DOMAIN a = {} /\ 1..0 = {} /\ 0 \in 0..L
      BY <1>1, <1>9
    <2>. HIDE DEF a, W
    <2>2. Picked(a, s, T, 0)
      BY <2>1 DEF Picked, Distinct
    <2>. QED
      BY <2>1, <2>2 DEF a
  <1>11. ASSUME NEW i \in 1..L, i - 1 \in good
         PROVE  i \in good
    <2>. DEFINE a == u[i - 1]
                b == u[i]
    <2>1. a \in Seq(S) /\ Picked(a, s, T, i - 1)
      BY <1>11
    <2>2. b = IF s[i] \in T THEN Append(a, s[i]) ELSE a
      BY <1>9
    <2>3. s[i] \in S /\ \A j \in 1..(i - 1) : j \in 1..i /\ j \in DOMAIN s /\ j # i
      BY <1>1
    <2>. HIDE DEF a, b
    <2>4. CASE s[i] \in T
      <3>. DEFINE m == Len(a)
      <3>1. /\ b \in Seq(S) /\ m \in Nat /\ DOMAIN a = 1..m /\ DOMAIN b = 1..(m + 1)
            /\ b[m + 1] = s[i] /\ \A k \in 1..m : b[k] = a[k]
        BY <2>1, <2>2, <2>3, <2>4
      <3>. HIDE DEF m
      <3>2. ASSUME NEW k \in DOMAIN b
            PROVE  b[k] \in T /\ \E j \in 1..i : b[k] = s[j]
        <4>1. k = m + 1 \/ k \in DOMAIN a
          BY <3>1
        <4>2. i \in 1..i
          OBVIOUS
        <4>. QED
          BY <2>1, <2>3, <2>4, <3>1, <4>1, <4>2 DEF Picked
      <3>3. ASSUME NEW j \in 1..i, s[j] \in T
            PROVE  \E k \in DOMAIN b : b[k] = s[j]
        <4>1. CASE j = i
          BY <3>1, <4>1
        <4>2. CASE j # i
          <5>1. j \in 1..(i - 1)
            BY <4>2
          <5>2. PICK k \in DOMAIN a : a[k] = s[j]
            BY <2>1, <3>3, <5>1 DEF Picked
          <5>. QED
            BY <3>1, <5>2
        <4>. QED
          BY <4>1, <4>2
      <3>4. ASSUME Distinct(s)
            PROVE  Distinct(b)
        <4>1. Distinct(a)
          BY <2>1, <3>4 DEF Picked
        <4>2. ASSUME NEW k \in DOMAIN a
              PROVE  a[k] # s[i]
          <5>1. PICK j \in 1..(i - 1) : a[k] = s[j]
            BY <2>1 DEF Picked
          <5>. QED
            BY <1>1, <2>3, <3>4, <5>1 DEF Distinct
        <4>3. \A k \in DOMAIN b : k = m + 1 \/ k \in DOMAIN a
          BY <3>1
        <4>. QED
          BY <3>1, <4>1, <4>2, <4>3 DEF Distinct
      <3>. QED
        BY <3>1, <3>2, <3>3, <3>4 DEF b, Picked
    <2>5. CASE s[i] \notin T
      <3>1. b = a
        BY <2>2, <2>5
      <3>2. Picked(b, s, T, i)
        <4>1. \A j \in 1..i : j = i \/ j \in 1..(i - 1)
          OBVIOUS
        <4>. QED
          BY <2>1, <2>3, <2>5, <3>1, <4>1 DEF Picked
      <3>. QED
        BY <2>1, <3>1, <3>2 DEF b
    <2>. QED
      BY <2>4, <2>5
  <1>12. L \in good
    <2>. HIDE DEF good
    <2>1. \A i \in 0..L : i \in good
      BY <1>1, <1>10, <1>11, Steps
    <2>. QED
      BY <1>1, <2>1
  <1>. QED
    BY <1>7, <1>12 DEF u

----------------------------------------------------------------------------
ThreadsInv ==
    /\ mail \in Lists
    /\ keys \subseteq Ids
    /\ next \in Nat \ {0}
    /\ forest \in Forests
    /\ Acyclic(forest.parent)
    /\ stage = "link" => forest \in Growing
    /\ stage = "group" =>
          /\ Families(forest)
          /\ roots \in Seq(C) /\ Distinct(roots)
          /\ \A i \in DOMAIN roots : forest.parent[roots[i]] = None

LEMMA MessageTypes ==
    ASSUME mail \in Lists, NEW i \in DOMAIN mail
    PROVE  LET e == mail[i] IN
           /\ i \in Positions
           /\ e.id \in Ids \cup {None} /\ e.replyTo \in Ids \cup {None}
           /\ e.refs \in Seq(Ids) /\ e.subject \in Subjects \cup {None}
           /\ TH!Chain(e) \in Seq(Ids)
           /\ TH!Keys(e) \subseteq Ids
           /\ TH!ContainerOf(i) \in C
           /\ \A j \in Positions : TH!ContainerOf(i) # TH!Loose(j)
  <1>. DEFINE e == mail[i]
  <1>1. mail \in Seq(TH!Message) /\ DOMAIN mail \subseteq Positions
    BY ThreadsAssumption
  <1>2. e \in TH!Message /\ i \in Positions
    BY <1>1
  <1>3. /\ e.id \in Ids \cup {None} /\ e.replyTo \in Ids \cup {None}
        /\ e.refs \in Seq(Ids) /\ e.subject \in Subjects \cup {None}
    BY <1>2 DEF TH!Message
  <1>. HIDE DEF e
  <1>4. TH!Chain(e) \in Seq(Ids)
    BY <1>3 DEF TH!Chain
  <1>5. TH!Keys(e) \subseteq Ids
    BY <1>3, <1>4 DEF TH!Keys, TH!ToSet
  <1>6. TH!ContainerOf(i) = IF e.id = None THEN <<i, "linked">> ELSE <<e.id, "id">>
    BY DEF TH!ContainerOf, TH!Anonymous, e
  <1>7. TH!ContainerOf(i) \in C
    BY <1>2, <1>3, <1>6 DEF C, TH!Containers, TH!Anonymous
  <1>8. \A j \in Positions : TH!ContainerOf(i) # TH!Loose(j)
    BY <1>6 DEF TH!Loose
  <1>. QED
    BY <1>2, <1>3, <1>4, <1>5, <1>7, <1>8 DEF e

LEMMA InitThreads ==
    ASSUME TH!Init
    PROVE  ThreadsInv
  <1>1. /\ mail \in Lists /\ keys = {} /\ next = 1 /\ stage = "link"
        /\ forest = [msg |-> [c \in C |-> None], parent |-> [c \in C |-> None],
                     children |-> [c \in C |-> <<>>]]
    BY DEF TH!Init, C
  <1>2. /\ forest \in Forests
        /\ \A c \in C : forest.parent[c] = None /\ DOMAIN forest.children[c] = {}
    BY <1>1 DEF Forests, Parents
  <1>3. Acyclic(forest.parent)
    BY <1>2, ContainersFinite DEF Acyclic
  <1>4. Families(forest)
    BY <1>2, <1>3 DEF Families, Forests
  <1>5. \A i \in Positions : TH!Loose(i) \in C
    BY DEF C, TH!Containers
  <1>6. forest \in Growing
    BY <1>2, <1>4, <1>5 DEF Growing
  <1>. QED
    BY <1>1, <1>2, <1>3, <1>6 DEF ThreadsInv

LEMMA LinkKeeps ==
    ASSUME ThreadsInv, TH!Link
    PROVE  ThreadsInv'
  <1>. DEFINE e == mail[next]
              c == TH!ContainerOf(next)
              refs == TH!Chain(e)
              filled == IF forest.msg[c] = None
                        THEN [forest EXCEPT !.msg[c] = next] ELSE forest
              chained == TH!LinkedChain(filled, refs)
              linked == IF refs = <<>> THEN chained
                        ELSE TH!Linked(chained, <<refs[Len(refs)], "id">>, c)
  <1>1. /\ stage = "link" /\ next <= Len(mail)
        /\ forest' = linked /\ keys' = keys \cup TH!Keys(e) /\ next' = next + 1
        /\ mail' = mail /\ stage' = stage /\ roots' = roots
    BY DEF TH!Link, TH!Last
  <1>2. /\ mail \in Lists /\ keys \subseteq Ids /\ next \in Nat \ {0}
        /\ forest \in Growing /\ forest \in Forests /\ Families(forest)
    BY <1>1 DEF ThreadsInv, Growing
  <1>3. mail \in Seq(TH!Message)
    BY <1>2, ThreadsAssumption
  <1>4. next \in DOMAIN mail
    BY <1>1, <1>2, <1>3
  <1>5. /\ c \in C /\ refs \in Seq(Ids) /\ TH!Keys(e) \subseteq Ids
        /\ \A j \in Positions : c # TH!Loose(j)
    BY <1>2, <1>4, MessageTypes
  <1>. HIDE DEF c, refs
  <1>6. filled \in Growing
    <2>1. filled \in Forests /\ filled.parent = forest.parent
          /\ filled.children = forest.children
      BY <1>2, <1>4, <1>5 DEF Forests
    <2>. HIDE DEF filled
    <2>. QED
      BY <1>2, <2>1 DEF Growing, Families
  <1>. HIDE DEF filled
  <1>7. chained \in Growing
    BY <1>5, <1>6, LinkedChainGrows
  <1>. HIDE DEF chained
  <1>8. linked \in Growing
    <2>1. CASE refs = <<>>
      BY <1>7, <2>1
    <2>2. CASE refs # <<>>
      <3>1. refs[Len(refs)] \in Ids
        BY <1>5, <2>2
      <3>2. <<refs[Len(refs)], "id">> \in C
        BY <3>1 DEF C, TH!Containers
      <3>. QED
        BY <1>5, <1>7, <2>2, <3>2, LinkedGrows
    <2>. QED
      BY <2>1, <2>2
  <1>. HIDE DEF linked
  <1>9. linked \in Forests /\ Acyclic(linked.parent)
    BY <1>8 DEF Growing, Families
  <1>10. Forests' = Forests /\ Growing' = Growing
    BY <1>1 DEF Forests, Growing
  <1>. QED
    BY <1>1, <1>2, <1>5, <1>8, <1>9, <1>10 DEF ThreadsInv

LEMMA RootsKeeps ==
    ASSUME ThreadsInv, TH!Roots
    PROVE  ThreadsInv'
  <1>. DEFINE W == TH!WithoutId
              tops == {<<i, "id">> : i \in {k \in keys : forest.parent[<<k, "id">>] = None}}
  <1>1. /\ stage = "link" /\ stage' = "group"
        /\ mail' = mail /\ keys' = keys /\ next' = next
        /\ forest' = [forest EXCEPT !.msg =
                         [c \in C |-> IF \E i \in TH!ToSet(W) : c = TH!Loose(i)
                                      THEN c[1] ELSE forest.msg[c]]]
    BY DEF TH!Roots, C
  <1>2. PICK s \in TH!Orders(tops) :
           roots' = s \o [k \in DOMAIN W |-> TH!Loose(W[k])]
    BY DEF TH!Roots
  <1>3. /\ mail \in Lists /\ keys \subseteq Ids /\ next \in Nat \ {0}
        /\ forest \in Growing /\ forest \in Forests /\ Families(forest)
        /\ Acyclic(forest.parent)
    BY <1>1 DEF ThreadsInv, Growing
  <1>4. mail \in Seq(TH!Message) /\ DOMAIN mail \subseteq Positions
    BY <1>3, ThreadsAssumption
  <1>5. W \in Seq(DOMAIN mail) /\ Distinct(W)
    <2>. DEFINE all == [i \in DOMAIN mail |-> i]
    <2>1. all \in Seq(DOMAIN mail) /\ Distinct(all)
      BY <1>4 DEF Distinct
    <2>. HIDE DEF all
    <2>2. \A T : TH!Among(all, T) \in Seq(DOMAIN mail) /\ Distinct(TH!Among(all, T))
      BY <2>1, AmongIs DEF Picked
    <2>. QED
      BY <2>2 DEF TH!WithoutId, all
  <1>. HIDE DEF W
  <1>6. \A k \in DOMAIN W : W[k] \in DOMAIN mail /\ W[k] \in Positions
    BY <1>4, <1>5
  <1>7. \A i \in Positions : TH!Loose(i) \in C /\ TH!Loose(i)[1] = i
    BY DEF C, TH!Containers, TH!Loose
  <1>8. /\ forest' \in Forests /\ forest'.parent = forest.parent
        /\ forest'.children = forest.children
    <2>. DEFINE m == [c \in C |-> IF \E i \in TH!ToSet(W) : c = TH!Loose(i)
                                  THEN c[1] ELSE forest.msg[c]]
    <2>1. m \in [C -> DOMAIN mail \cup {None}]
      <3>1. ASSUME NEW c \in C, NEW i \in TH!ToSet(W), c = TH!Loose(i)
            PROVE  c[1] \in DOMAIN mail
        BY <1>6, <1>7, <3>1 DEF TH!ToSet
      <3>2. \A c \in C : forest.msg[c] \in DOMAIN mail \cup {None}
        BY <1>3 DEF Forests
      <3>. QED
        BY <3>1, <3>2
    <2>2. forest' = [forest EXCEPT !.msg = m]
      BY <1>1
    <2>. HIDE DEF m
    <2>. QED
      BY <1>3, <2>1, <2>2 DEF Forests
  <1>9. Families(forest')
    BY <1>3, <1>8 DEF Families
  <1>10. tops \subseteq C /\ \A c \in tops : forest.parent[c] = None /\ c[2] = "id"
    <2>1. ASSUME NEW c \in tops
          PROVE  c \in C /\ forest.parent[c] = None /\ c[2] = "id"
      <3>1. PICK k \in keys : forest.parent[<<k, "id">>] = None /\ c = <<k, "id">>
        BY <2>1
      <3>2. k \in Ids
        BY <1>3
      <3>. QED
        BY <3>1, <3>2 DEF C, TH!Containers
    <2>. QED
      BY <2>1
  <1>11. /\ s \in Seq(tops) /\ Distinct(s)
    <2>1. tops \subseteq C
      BY <1>10
    <2>. HIDE DEF tops
    <2>2. IsFiniteSet(tops) /\ Cardinality(tops) \in Nat
      BY <2>1, ContainersFinite, FS_Subset, FS_CardinalityType
    <2>. QED
      BY <2>2, SameCardinality DEF TH!Orders, Distinct
  <1>. DEFINE loose == [k \in DOMAIN W |-> TH!Loose(W[k])]
  <1>12. /\ loose \in Seq(C) /\ Distinct(loose)
         /\ \A k \in DOMAIN loose : forest.parent[loose[k]] = None /\ loose[k][2] = "root"
    <2>1. loose \in Seq(C)
      <3>1. Len(W) \in Nat /\ DOMAIN W = 1..Len(W)
        BY <1>5
      <3>2. loose \in [1..Len(W) -> C]
        BY <1>6, <1>7, <3>1
      <3>. HIDE DEF loose
      <3>. QED
        BY <3>1, <3>2
    <2>2. Distinct(loose)
      BY <1>5 DEF Distinct, TH!Loose
    <2>3. ASSUME NEW k \in DOMAIN loose
          PROVE  forest.parent[loose[k]] = None /\ loose[k][2] = "root"
      BY <1>3, <1>6 DEF Growing, TH!Loose
    <2>. QED
      BY <2>1, <2>2, <2>3
  <1>. HIDE DEF loose, tops
  <1>13. /\ roots' \in Seq(C) /\ Distinct(roots')
         /\ \A i \in DOMAIN roots' : forest.parent[roots'[i]] = None
    <2>. DEFINE r == s \o loose
                m == Len(s)
    <2>1. /\ s \in Seq(C) /\ \A i \in DOMAIN s : forest.parent[s[i]] = None /\ s[i][2] = "id"
      BY <1>10, <1>11
    <2>2. /\ r \in Seq(C) /\ m \in Nat /\ Len(loose) \in Nat
          /\ DOMAIN r = 1..(m + Len(loose)) /\ DOMAIN s = 1..m /\ DOMAIN loose = 1..Len(loose)
          /\ \A i \in 1..m : r[i] = s[i]
          /\ \A i \in (m + 1)..(m + Len(loose)) : r[i] = loose[i - m] /\ i - m \in 1..Len(loose)
      BY <2>1, <1>12
    <2>. HIDE DEF r, m
    <2>3. \A i \in DOMAIN r : i \in 1..m \/ i \in (m + 1)..(m + Len(loose))
      BY <2>2
    <2>4. \A i \in DOMAIN r : forest.parent[r[i]] = None
      BY <1>12, <2>1, <2>2, <2>3
    <2>7. /\ \A i \in 1..m : r[i][2] = "id"
          /\ \A i \in DOMAIN r : i \notin 1..m => r[i][2] = "root"
      <3>1. \A i \in 1..m : r[i][2] = "id"
        BY <2>1, <2>2
      <3>2. ASSUME NEW i \in DOMAIN r, i \notin 1..m
            PROVE  r[i][2] = "root"
        <4>1. r[i] = loose[i - m] /\ i - m \in DOMAIN loose
          BY <2>2, <2>3, <3>2
        <4>. QED
          BY <1>12, <4>1
      <3>. QED
        BY <3>1, <3>2
    <2>8. ASSUME NEW i \in DOMAIN r, NEW j \in DOMAIN r, i # j
          PROVE  r[i] # r[j]
      <3>1. CASE i \in 1..m /\ j \in 1..m
        BY <1>11, <2>2, <2>8, <3>1 DEF Distinct
      <3>2. CASE i \in 1..m /\ j \notin 1..m
        <4>1. r[i][2] = "id" /\ r[j][2] = "root"
          BY <2>7, <3>2
        <4>. QED
          BY <4>1
      <3>3. CASE i \notin 1..m /\ j \in 1..m
        <4>1. r[j][2] = "id" /\ r[i][2] = "root"
          BY <2>7, <3>3
        <4>. QED
          BY <4>1
      <3>4. CASE i \notin 1..m /\ j \notin 1..m
        <4>1. /\ r[i] = loose[i - m] /\ r[j] = loose[j - m]
              /\ i - m \in DOMAIN loose /\ j - m \in DOMAIN loose
          BY <2>2, <2>3, <3>4
        <4>2. i - m # j - m
          BY <2>2, <2>8
        <4>. QED
          BY <1>12, <4>1, <4>2 DEF Distinct
      <3>. QED
        BY <3>1, <3>2, <3>3, <3>4
    <2>6. roots' = r
      BY <1>2 DEF r, loose
    <2>. QED
      BY <2>2, <2>4, <2>8, <2>6 DEF Distinct
  <1>14. Forests' = Forests /\ Distinct(roots)' = Distinct(roots')
         /\ Families(forest)' = Families(forest') /\ Acyclic(forest.parent)' = Acyclic(forest'.parent)
    BY <1>1 DEF Forests, Distinct, Families, Acyclic
  <1>. QED
    BY <1>1, <1>3, <1>8, <1>9, <1>13, <1>14 DEF ThreadsInv

----------------------------------------------------------------------------
(* Grouping.  A container is free among some if none of the others is      *)
(* above it.                                                               *)
Free(par, x, K) == \E A \in SUBSET C : Closed(par, A) /\ x \in A /\ A \cap K \subseteq {x}

Tables == [Subjects -> [c : C, reply : BOOLEAN] \cup {None}]

Groupings == [f : Forests, tbl : Tables]

(* Of the containers ks, the first i are visited. *)
Grouping(g, ks, i) ==
    LET K == {ks[j] : j \in DOMAIN ks} IN
    /\ Acyclic(g.f.parent)
    /\ \A j \in DOMAIN ks : j > i => Free(g.f.parent, ks[j], K)
    /\ \A s \in Subjects : g.tbl[s] # None =>
          /\ Free(g.f.parent, g.tbl[s].c, K)
          /\ \E j \in DOMAIN ks : j <= i /\ g.tbl[s].c = ks[j]
    /\ \A s, t \in Subjects :
          s # t /\ g.tbl[s] # None /\ g.tbl[t] # None => g.tbl[s].c # g.tbl[t].c

LEMMA PartedFree ==
    ASSUME NEW par \in Parents, NEW ks \in Seq(C), Parted(par, ks),
           NEW K, K = {ks[j] : j \in DOMAIN ks}, NEW i \in DOMAIN ks
    PROVE  Free(par, ks[i], K)
  <1>. DEFINE A == {x \in C : \A j \in DOMAIN ks : j # i => x \notin Under(par, ks[j])}
  <1>1. \A j \in DOMAIN ks : /\ ks[j] \in C /\ ks[j] \in Under(par, ks[j])
                             /\ Down(par, Under(par, ks[j]))
    <2>1. \A j \in DOMAIN ks : ks[j] \in C
      OBVIOUS
    <2>. QED
      BY <2>1, UnderIs
  <1>2. Closed(par, A)
    <2>1. ASSUME NEW x \in A, par[x] # None
          PROVE  par[x] \in A
      <3>1. par[x] \in C
        BY <2>1 DEF Parents
      <3>2. \A j \in DOMAIN ks : j # i => par[x] \notin Under(par, ks[j])
        BY <1>1, <2>1 DEF Down
      <3>. QED
        BY <3>1, <3>2
    <2>. QED
      BY <2>1 DEF Closed
  <1>3. ks[i] \in A
    BY <1>1 DEF Parted
  <1>4. A \cap K \subseteq {ks[i]}
    BY <1>1
  <1>. QED
    BY <1>2, <1>3, <1>4 DEF Free

LEMMA PartedDistinct ==
    ASSUME NEW par \in Parents, NEW ks \in Seq(C), Parted(par, ks)
    PROVE  Distinct(ks)
  <1>1. \A j \in DOMAIN ks : ks[j] \in C
    OBVIOUS
  <1>2. \A j \in DOMAIN ks : ks[j] \in Under(par, ks[j])
    BY <1>1, UnderIs
  <1>. QED
    BY <1>2 DEF Distinct, Parted

LEMMA SubjectType ==
    ASSUME mail \in Lists, NEW f \in Forests, NEW c \in C
    PROVE  TH!Subject(f, c) \in Subjects \cup {None}
  <1>. DEFINE T == {x \in C : f.msg[x] # None /\ mail[f.msg[x]].subject # None}
              all == <<c>> \o f.children[c]
              named == TH!Among(all, T)
  <1>1. \A x \in C : f.msg[x] # None => mail[f.msg[x]].subject \in Subjects \cup {None}
    <2>1. \A x \in C : f.msg[x] # None => f.msg[x] \in DOMAIN mail
      BY DEF Forests
    <2>. QED
      BY <2>1, MessageTypes
  <1>2. all \in Seq(C)
    <2>1. f.children[c] \in Seq(C)
      BY DEF Forests
    <2>. QED
      BY <2>1
  <1>3. named \in Seq(C) /\ \A i \in DOMAIN named : named[i] \in T
    <2>. HIDE DEF all, T
    <2>. QED
      BY <1>2, AmongIs DEF Picked
  <1>. HIDE DEF named
  <1>4. TH!Subject(f, c) = IF f.msg[c] # None THEN mail[f.msg[c]].subject
                           ELSE IF named = <<>> THEN None
                           ELSE mail[f.msg[named[1]]].subject
    BY DEF TH!Subject, named, C
  <1>5. named # <<>> => 1 \in DOMAIN named
    BY <1>3
  <1>. QED
    BY <1>1, <1>3, <1>4, <1>5

(* What a visit does: nothing, an entry of the table, or one more child,   *)
(* under the entry or above it.                                            *)
Visited(g, new, c, s) ==
    \/ s = None /\ new = g
    \/ /\ s \in Subjects /\ g.tbl[s] = None
       /\ \E b \in BOOLEAN : new = [g EXCEPT !.tbl[s] = [c |-> c, reply |-> b]]
    \/ /\ s \in Subjects /\ g.tbl[s] # None
       /\ \/ new = [g EXCEPT !.f = TH!AddChild(g.f, g.tbl[s].c, c)]
          \/ \E b \in BOOLEAN :
                new = [f |-> TH!AddChild(g.f, c, g.tbl[s].c),
                       tbl |-> [g.tbl EXCEPT ![s] = [c |-> c, reply |-> b]]]

LEMMA GroupedIs ==
    ASSUME mail \in Lists, NEW g \in Groupings, NEW c \in C
    PROVE  Visited(g, TH!Grouped(g, c), c, TH!Subject(g.f, c))
  <1>. DEFINE s == TH!Subject(g.f, c)
              b == TH!IsReply(g.f, c)
  <1>1. g.f \in Forests /\ g.tbl \in Tables
    BY DEF Groupings
  <1>2. s \in Subjects \cup {None}
    BY <1>1, SubjectType
  <1>3. b \in BOOLEAN
    <2>1. g.f.msg[c] # None => mail[g.f.msg[c]] \in TH!Message
      <3>1. mail \in Seq(TH!Message)
        BY ThreadsAssumption
      <3>2. g.f.msg[c] \in DOMAIN mail \cup {None}
        BY <1>1 DEF Forests
      <3>. QED
        BY <3>1, <3>2
    <2>. QED
      BY <2>1 DEF TH!IsReply, TH!Message
  <1>4. TH!Grouped(g, c) =
           CASE s = None -> g
             [] s # None /\ g.tbl[s] # None -> TH!Merged(g, s, c)
             [] OTHER -> [g EXCEPT !.tbl[s] = [c |-> c, reply |-> b]]
    BY DEF TH!Grouped
  <1>5. PICK no \in BOOLEAN :
           \/ TH!Merged(g, s, c) = [g EXCEPT !.f = TH!AddChild(g.f, g.tbl[s].c, c)]
           \/ TH!Merged(g, s, c) = [f |-> TH!AddChild(g.f, c, g.tbl[s].c),
                                    tbl |-> [g.tbl EXCEPT ![s] = [c |-> c, reply |-> no]]]
    BY DEF TH!Merged
  <1>. DEFINE new == TH!Grouped(g, c)
  <1>. HIDE DEF s, b
  <1>6. CASE s = None
    <2>1. new = g
      BY <1>4, <1>6, Zenon
    <2>. HIDE DEF new
    <2>2. Visited(g, new, c, s)
      BY <1>6, <2>1 DEF Visited
    <2>. QED
      BY <2>2 DEF s, new
  <1>7. CASE s # None /\ g.tbl[s] # None
    <2>1. new = TH!Merged(g, s, c) /\ s \in Subjects
      BY <1>2, <1>4, <1>7, Zenon
    <2>. HIDE DEF new
    <2>2. Visited(g, new, c, s)
      BY <1>5, <1>7, <2>1, Zenon DEF Visited
    <2>. QED
      BY <2>2 DEF s, new
  <1>8. CASE s # None /\ g.tbl[s] = None
    <2>1. new = [g EXCEPT !.tbl[s] = [c |-> c, reply |-> b]] /\ s \in Subjects
      BY <1>2, <1>4, <1>8, Zenon
    <2>. HIDE DEF new
    <2>2. Visited(g, new, c, s)
      BY <1>3, <1>8, <2>1, Zenon DEF Visited
    <2>. QED
      BY <2>2 DEF s, new
  <1>. QED
    BY <1>6, <1>7, <1>8

Hung(par, new, p, c) == new = [par EXCEPT ![c] = p]

Entered(tbl, new, s, c, b) == new = [tbl EXCEPT ![s] = [c |-> c, reply |-> b]]

LEMMA AddFree ==
    ASSUME NEW par \in Parents, Acyclic(par), NEW K \in SUBSET C,
           NEW p \in K, NEW c \in K, p # c, Free(par, p, K),
           NEW new, Hung(par, new, p, c)
    PROVE  /\ Acyclic(new)
           /\ \A x \in K : x # c /\ Free(par, x, K) => Free(new, x, K)
  <1>1. PICK A \in SUBSET C : Closed(par, A) /\ p \in A /\ A \cap K \subseteq {p}
    BY DEF Free
  <1>2. c \in C \ A
    BY <1>1
  <1>3. /\ Acyclic(new)
        /\ \A B \in SUBSET C : Closed(par, B) /\ c \notin B => Closed(new, B)
    BY <1>1, <1>2, AddKeeps DEF Hung
  <1>4. ASSUME NEW x \in K, x # c, Free(par, x, K)
        PROVE  Free(new, x, K)
    <2>1. PICK B \in SUBSET C : Closed(par, B) /\ x \in B /\ B \cap K \subseteq {x}
      BY <1>4 DEF Free
    <2>2. Closed(new, B)
      BY <1>3, <1>4, <2>1
    <2>. QED
      BY <2>1, <2>2 DEF Free
  <1>. QED
    BY <1>3, <1>4

LEMMA EntryIs ==
    ASSUME NEW tbl \in Tables, NEW s \in Subjects, NEW c \in C, NEW b \in BOOLEAN,
           NEW new, Entered(tbl, new, s, c, b)
    PROVE  /\ new \in Tables
           /\ new[s].c = c
           /\ \A t \in Subjects \ {s} : new[t] = tbl[t]
  BY DEF Tables, Entered

LEMMA GroupedType ==
    ASSUME mail \in Lists, NEW g \in Groupings, NEW c \in C
    PROVE  TH!Grouped(g, c) \in Groupings
  <1>1. g.f \in Forests /\ g.tbl \in Tables
    BY DEF Groupings
  <1>2. ASSUME NEW s \in Subjects, NEW b \in BOOLEAN
        PROVE  [g.tbl EXCEPT ![s] = [c |-> c, reply |-> b]] \in Tables
    BY <1>1, EntryIs DEF Entered
  <1>3. ASSUME NEW s \in Subjects, g.tbl[s] # None
        PROVE  /\ g.tbl[s].c \in C
               /\ TH!AddChild(g.f, g.tbl[s].c, c) \in Forests
               /\ TH!AddChild(g.f, c, g.tbl[s].c) \in Forests
    <2>1. g.tbl[s].c \in C
      BY <1>1, <1>3 DEF Tables
    <2>. QED
      BY <1>1, <2>1, AddChildIs DEF Added
  <1>4. CASE TH!Grouped(g, c) = g
    BY <1>4
  <1>5. ASSUME NEW s \in Subjects, NEW b \in BOOLEAN,
               TH!Grouped(g, c) = [g EXCEPT !.tbl[s] = [c |-> c, reply |-> b]]
        PROVE  TH!Grouped(g, c) \in Groupings
    <2>1. TH!Grouped(g, c) =
             [g EXCEPT !.tbl = [g.tbl EXCEPT ![s] = [c |-> c, reply |-> b]]]
      BY <1>5
    <2>. QED
      BY <1>2, <2>1 DEF Groupings
  <1>6. ASSUME NEW s \in Subjects, g.tbl[s] # None,
               TH!Grouped(g, c) = [g EXCEPT !.f = TH!AddChild(g.f, g.tbl[s].c, c)]
        PROVE  TH!Grouped(g, c) \in Groupings
    BY <1>3, <1>6 DEF Groupings
  <1>7. ASSUME NEW s \in Subjects, NEW b \in BOOLEAN, g.tbl[s] # None,
               TH!Grouped(g, c) =
                  [f |-> TH!AddChild(g.f, c, g.tbl[s].c),
                   tbl |-> [g.tbl EXCEPT ![s] = [c |-> c, reply |-> b]]]
        PROVE  TH!Grouped(g, c) \in Groupings
    <2>. DEFINE tbl == [g.tbl EXCEPT ![s] = [c |-> c, reply |-> b]]
    <2>1. tbl \in Tables /\ TH!AddChild(g.f, c, g.tbl[s].c) \in Forests
      BY <1>2, <1>3, <1>7
    <2>2. TH!Grouped(g, c) = [f |-> TH!AddChild(g.f, c, g.tbl[s].c), tbl |-> tbl]
      BY <1>7
    <2>. HIDE DEF tbl
    <2>. QED
      BY <2>1, <2>2 DEF Groupings
  <1>8. Visited(g, TH!Grouped(g, c), c, TH!Subject(g.f, c))
    BY GroupedIs
  <1>. QED
    BY <1>4, <1>5, <1>6, <1>7, <1>8 DEF Visited

LEMMA GroupedKeeps ==
    ASSUME mail \in Lists, NEW g \in Groupings, NEW ks \in Seq(C), Distinct(ks),
           NEW i \in DOMAIN ks, Grouping(g, ks, i - 1),
           NEW new, new = TH!Grouped(g, ks[i])
    PROVE  Grouping(new, ks, i)
  <1>. DEFINE K == {ks[j] : j \in DOMAIN ks}
              c == ks[i]
              par == g.f.parent
  <1>0. DOMAIN ks \subseteq Nat /\ i \in Nat
    OBVIOUS
  <1>1. /\ g.f \in Forests /\ g.tbl \in Tables /\ par \in Parents /\ K \in SUBSET C
        /\ c \in K /\ c \in C
    <2>1. \A j \in DOMAIN ks : ks[j] \in C
      OBVIOUS
    <2>. QED
      BY <2>1 DEF Groupings, Forests
  <1>2. /\ Acyclic(par)
        /\ \A j \in DOMAIN ks : j > i - 1 => Free(par, ks[j], K)
        /\ \A s \in Subjects : g.tbl[s] # None =>
              /\ Free(par, g.tbl[s].c, K)
              /\ \E j \in DOMAIN ks : j <= i - 1 /\ g.tbl[s].c = ks[j]
        /\ \A s, t \in Subjects :
              s # t /\ g.tbl[s] # None /\ g.tbl[t] # None => g.tbl[s].c # g.tbl[t].c
    BY DEF Grouping
  <1>3. \A j \in DOMAIN ks : j > i => j > i - 1 /\ ks[j] # c
    BY <1>0 DEF Distinct
  <1>4. ASSUME NEW s \in Subjects, g.tbl[s] # None
        PROVE  /\ Free(par, g.tbl[s].c, K) /\ g.tbl[s].c \in K /\ g.tbl[s].c # c
               /\ \E j \in DOMAIN ks : j <= i - 1 /\ g.tbl[s].c = ks[j]
               /\ \A j \in DOMAIN ks : j > i => ks[j] # g.tbl[s].c
    <2>1. PICK j \in DOMAIN ks : j <= i - 1 /\ g.tbl[s].c = ks[j]
      BY <1>2, <1>4
    <2>2. j # i /\ \A k \in DOMAIN ks : k > i => k # j
      BY <1>0, <2>1
    <2>. QED
      BY <1>2, <1>4, <2>1, <2>2 DEF Distinct
  <1>a. Acyclic(par)
    BY <1>2
  <1>b. \A s, t \in Subjects :
           s # t /\ g.tbl[s] # None /\ g.tbl[t] # None => g.tbl[s].c # g.tbl[t].c
    BY <1>2
  <1>5. Free(par, c, K) /\ i > i - 1
    BY <1>0, <1>2
  <1>6. ASSUME NEW s \in Subjects, g.tbl[s] # None
        PROVE  \E j \in DOMAIN ks : j <= i /\ g.tbl[s].c = ks[j]
    <2>1. PICK j \in DOMAIN ks : j <= i - 1 /\ g.tbl[s].c = ks[j]
      BY <1>4, <1>6
    <2>2. j <= i
      BY <1>0, <2>1
    <2>. QED
      BY <2>1, <2>2
  <1>. HIDE DEF K, par, c
  <1>7. CASE new = g
    <2>1. \A j \in DOMAIN ks : j > i => Free(par, ks[j], K)
      BY <1>2, <1>3
    <2>2. \A s \in Subjects : g.tbl[s] # None =>
             /\ Free(par, g.tbl[s].c, K)
             /\ \E j \in DOMAIN ks : j <= i /\ g.tbl[s].c = ks[j]
      BY <1>4, <1>6
    <2>. QED
      BY <1>2, <1>7, <2>1, <2>2 DEF Grouping, K, par
  <1>8. ASSUME NEW s \in Subjects, NEW b \in BOOLEAN, g.tbl[s] = None,
               new = [g EXCEPT !.tbl[s] = [c |-> c, reply |-> b]]
        PROVE  Grouping(new, ks, i)
    <2>1. /\ new.f = g.f
          /\ Entered(g.tbl, new.tbl, s, c, b)
      BY <1>8 DEF Groupings, Entered
    <2>2. new.tbl[s].c = c /\ \A t \in Subjects \ {s} : new.tbl[t] = g.tbl[t]
      BY <1>1, <2>1, EntryIs
    <2>3. ASSUME NEW t \in Subjects, new.tbl[t] # None
          PROVE  /\ Free(par, new.tbl[t].c, K)
                 /\ \E j \in DOMAIN ks : j <= i /\ new.tbl[t].c = ks[j]
      <3>1. CASE t = s
        BY <1>0, <1>5, <2>2, <3>1 DEF c
      <3>2. CASE t # s
        BY <1>4, <1>6, <2>2, <2>3, <3>2
      <3>. QED
        BY <3>1, <3>2
    <2>4. ASSUME NEW t \in Subjects, NEW v \in Subjects, t # v,
                 new.tbl[t] # None, new.tbl[v] # None
          PROVE  new.tbl[t].c # new.tbl[v].c
      BY <1>2, <1>4, <2>2, <2>4
    <2>. QED
      BY <1>2, <1>3, <2>1, <2>3, <2>4 DEF Grouping, K, par
  <1>9. ASSUME NEW s \in Subjects, g.tbl[s] # None,
               new = [g EXCEPT !.f = TH!AddChild(g.f, g.tbl[s].c, c)]
        PROVE  Grouping(new, ks, i)
    <2>. DEFINE r == g.tbl[s].c
    <2>1. r \in K /\ r \in C /\ r # c /\ Free(par, r, K)
      BY <1>1, <1>4, <1>9
    <2>. HIDE DEF r
    <2>2. Hung(par, new.f.parent, r, c) /\ new.tbl = g.tbl
      <3>1. Added(g.f, TH!AddChild(g.f, r, c), r, c)
        BY <1>1, <2>1, AddChildIs
      <3>2. new.f = TH!AddChild(g.f, r, c) /\ new.tbl = g.tbl
        BY <1>9 DEF Groupings, r
      <3>. QED
        BY <3>1, <3>2 DEF Added, Hung, par
    <2>3. /\ Acyclic(new.f.parent)
          /\ \A x \in K : x # c /\ Free(par, x, K) => Free(new.f.parent, x, K)
      BY <1>1, <1>a, <2>1, <2>2, AddFree
    <2>4. \A j \in DOMAIN ks : j > i => Free(new.f.parent, ks[j], K)
      BY <1>2, <1>3, <2>3 DEF K
    <2>5. \A t \in Subjects : new.tbl[t] # None =>
             /\ Free(new.f.parent, new.tbl[t].c, K)
             /\ \E j \in DOMAIN ks : j <= i /\ new.tbl[t].c = ks[j]
      BY <1>4, <1>6, <2>2, <2>3
    <2>. QED
      <3>1. \A t, v \in Subjects :
               t # v /\ new.tbl[t] # None /\ new.tbl[v] # None
                  => new.tbl[t].c # new.tbl[v].c
        BY <1>b, <2>2
      <3>2. Acyclic(new.f.parent)
        BY <2>3
      <3>. QED
        BY <2>4, <2>5, <3>1, <3>2 DEF Grouping, K
  <1>10. ASSUME NEW s \in Subjects, NEW b \in BOOLEAN, g.tbl[s] # None,
                new = [f |-> TH!AddChild(g.f, c, g.tbl[s].c),
                       tbl |-> [g.tbl EXCEPT ![s] = [c |-> c, reply |-> b]]]
         PROVE  Grouping(new, ks, i)
    <2>. DEFINE r == g.tbl[s].c
    <2>1. /\ r \in K /\ r \in C /\ r # c /\ Free(par, r, K)
          /\ \A j \in DOMAIN ks : j > i => ks[j] # r
      BY <1>1, <1>4, <1>10
    <2>2. \A t \in Subjects \ {s} : g.tbl[t] # None => g.tbl[t].c # r
      BY <1>2, <1>10
    <2>. HIDE DEF r
    <2>3. /\ Hung(par, new.f.parent, c, r)
          /\ Entered(g.tbl, new.tbl, s, c, b)
      <3>1. Added(g.f, TH!AddChild(g.f, c, r), c, r)
        BY <1>1, <2>1, AddChildIs
      <3>2. /\ new.f = TH!AddChild(g.f, c, r)
            /\ Entered(g.tbl, new.tbl, s, c, b)
        BY <1>10 DEF r, Entered
      <3>. QED
        BY <3>1, <3>2 DEF Added, Hung, par
    <2>4. new.tbl[s].c = c /\ \A t \in Subjects \ {s} : new.tbl[t] = g.tbl[t]
      BY <1>1, <2>3, EntryIs
    <2>5. /\ Acyclic(new.f.parent)
          /\ \A x \in K : x # r /\ Free(par, x, K) => Free(new.f.parent, x, K)
      <3>1. c # r /\ Free(par, c, K) /\ Hung(par, new.f.parent, c, r)
        BY <1>5, <2>1, <2>3
      <3>. QED
        BY <1>1, <1>a, <2>1, <3>1, AddFree
    <2>6. \A j \in DOMAIN ks : j > i => Free(new.f.parent, ks[j], K)
      BY <1>2, <1>3, <2>1, <2>5 DEF K
    <2>7. ASSUME NEW t \in Subjects, new.tbl[t] # None
          PROVE  /\ Free(new.f.parent, new.tbl[t].c, K)
                 /\ \E j \in DOMAIN ks : j <= i /\ new.tbl[t].c = ks[j]
      <3>1. CASE t = s
        <4>1. new.tbl[t].c = c /\ c # r
          BY <2>1, <2>4, <3>1
        <4>. QED
          BY <1>0, <1>1, <1>5, <2>5, <4>1 DEF c
      <3>2. CASE t # s
        BY <1>4, <1>6, <2>2, <2>4, <2>5, <2>7, <3>2
      <3>. QED
        BY <3>1, <3>2
    <2>8. ASSUME NEW t \in Subjects, NEW v \in Subjects, t # v,
                 new.tbl[t] # None, new.tbl[v] # None
          PROVE  new.tbl[t].c # new.tbl[v].c
      BY <1>2, <1>4, <2>4, <2>8
    <2>. QED
      BY <2>5, <2>6, <2>7, <2>8 DEF Grouping, K
  <1>11. mail \in Lists /\ c \in C /\ new = TH!Grouped(g, c)
    BY <1>1 DEF c
  <1>12. Visited(g, new, c, TH!Subject(g.f, c))
    BY <1>11, GroupedIs
  <1>. QED
    BY <1>7, <1>8, <1>9, <1>10, <1>12 DEF Visited

(* What holds before the first visit and survives each holds of them all.  *)
LEMMA GroupedRootsIn ==
    ASSUME mail \in Lists, NEW f \in Forests, NEW ks \in Seq(C), NEW good,
           <<0, [f |-> f, tbl |-> [s \in Subjects |-> None]]>> \in good,
           \A i \in DOMAIN ks : \A g \in Groupings :
              <<i - 1, g>> \in good => <<i, TH!Grouped(g, ks[i])>> \in good
    PROVE  /\ TH!GroupedRoots(f, ks) \in Groupings
           /\ <<Len(ks), TH!GroupedRoots(f, ks)>> \in good
  <1>. DEFINE L == Len(ks)
              S == Groupings
              tbl == [s \in Subjects |-> None]
              start == [f |-> f, tbl |-> tbl]
              h == [q \in (1..L) \X S |-> TH!Grouped(q[2], ks[q[1]])]
              P(u) == u = [i \in 0..L |->
                             IF i = 0 THEN [f |-> f, tbl |-> [s \in Subjects |-> None]]
                             ELSE TH!Grouped(u[i - 1], ks[i])]
  <1>1. L \in Nat /\ DOMAIN ks = 1..L /\ \A i \in 1..L : ks[i] \in C
    OBVIOUS
  <1>2. start \in S
    <2>1. tbl \in Tables
      BY DEF Tables
    <2>. HIDE DEF tbl
    <2>. QED
      BY <2>1 DEF Groupings
  <1>3. <<0, start>> \in good
    OBVIOUS
  <1>5. Stepping(h, L, S)
    <2>1. \A i \in 1..L : \A g \in S : TH!Grouped(g, ks[i]) \in S
      BY <1>1, GroupedType
    <2>. HIDE DEF S
    <2>. QED
      BY <2>1 DEF Stepping
  <1>6. PICK g : Stepped(g, start, h, L, S)
    <2>. HIDE DEF h, S, L, start
    <2>. QED
      BY <1>1, <1>2, <1>5, Recursion
  <1>7. /\ g \in [0..L -> S] /\ g[0] = start
        /\ \A i \in 1..L : g[i] = TH!Grouped(g[i - 1], ks[i])
    <2>1. g \in [0..L -> S] /\ g[0] = start /\ \A i \in 1..L : g[i] = h[<<i, g[i - 1]>>]
      BY <1>6 DEF Stepped
    <2>2. ASSUME NEW i \in 1..L
          PROVE  g[i] = TH!Grouped(g[i - 1], ks[i])
      <3>1. i - 1 \in 0..L
        BY <1>1
      <3>2. g[i - 1] \in S
        <4>. HIDE DEF S
        <4>. QED
          BY <2>1, <3>1
      <3>. HIDE DEF S
      <3>. QED
        BY <2>1, <3>2
    <2>. QED
      BY <2>1, <2>2
  <1>8. P(g)
    <2>1. \A i \in 0..L : i = 0 \/ i \in 1..L
      BY <1>1
    <2>2. \A i \in 1..L : i # 0
      BY <1>1
    <2>. QED
      BY <1>7, <2>1, <2>2
  <1>9. TH!GroupedRoots(f, ks) = (CHOOSE u : P(u))[L]
    BY DEF TH!GroupedRoots
  <1>. DEFINE u == CHOOSE v : P(v)
  <1>10. P(u)
    <2>. HIDE DEF P
    <2>. QED
      BY <1>8
  <1>. HIDE DEF u
  <1>11. u[0] = start /\ \A i \in 1..L : u[i] = TH!Grouped(u[i - 1], ks[i])
    <2>1. 0 \in 0..L /\ \A i \in 1..L : i \in 0..L /\ i # 0
      BY <1>1
    <2>2. \A i \in 0..L : u[i] = IF i = 0 THEN start ELSE TH!Grouped(u[i - 1], ks[i])
      BY <1>10
    <2>. HIDE DEF start
    <2>. QED
      BY <2>1, <2>2
  <1>. HIDE DEF S, start
  <1>. DEFINE done == {i \in 0..L : u[i] \in S /\ <<i, u[i]>> \in good}
  <1>12. 0 \in done
    BY <1>1, <1>2, <1>3, <1>11
  <1>13. ASSUME NEW i \in 1..L, i - 1 \in done
         PROVE  i \in done
    <2>1. u[i - 1] \in Groupings /\ <<i - 1, u[i - 1]>> \in good /\ i \in DOMAIN ks
      BY <1>1, <1>13 DEF S
    <2>2. u[i] = TH!Grouped(u[i - 1], ks[i]) /\ ks[i] \in C
      BY <1>1, <1>11
    <2>3. u[i] \in Groupings
      BY <2>1, <2>2, GroupedType
    <2>4. <<i, u[i]>> \in good
      BY <2>1, <2>2
    <2>. QED
      BY <2>3, <2>4 DEF S
  <1>14. L \in done
    <2>. HIDE DEF done
    <2>1. \A i \in 0..L : i \in done
      BY <1>1, <1>12, <1>13, Steps
    <2>. QED
      BY <1>1, <2>1
  <1>. QED
    BY <1>9, <1>14 DEF u, S

LEMMA GroupedRootsIs ==
    ASSUME mail \in Lists, NEW f \in Forests, Acyclic(f.parent),
           NEW ks \in Seq(C), Parted(f.parent, ks)
    PROVE  /\ TH!GroupedRoots(f, ks) \in Groupings
           /\ Grouping(TH!GroupedRoots(f, ks), ks, Len(ks))
  <1>. DEFINE L == Len(ks)
              start == [f |-> f, tbl |-> [s \in Subjects |-> None]]
              good == {q \in (0..L) \X Groupings : Grouping(q[2], ks, q[1])}
  <1>1. L \in Nat /\ DOMAIN ks = 1..L /\ \A i \in 1..L : ks[i] \in C
    OBVIOUS
  <1>2. Distinct(ks) /\ f.parent \in Parents
    BY PartedDistinct DEF Forests
  <1>3. <<0, start>> \in good
    <2>. DEFINE K == {ks[j] : j \in DOMAIN ks}
    <2>1. \A j \in DOMAIN ks : Free(f.parent, ks[j], K)
      BY <1>2, PartedFree
    <2>2. start.f = f /\ \A s \in Subjects : start.tbl[s] = None
      OBVIOUS
    <2>3. start \in Groupings
      BY DEF Groupings, Tables
    <2>. HIDE DEF start
    <2>4. Grouping(start, ks, 0)
      BY <2>1, <2>2 DEF Grouping
    <2>. QED
      BY <1>1, <2>3, <2>4
  <1>4. ASSUME NEW i \in DOMAIN ks, NEW g \in Groupings, <<i - 1, g>> \in good
        PROVE  <<i, TH!Grouped(g, ks[i])>> \in good
    <2>1. Grouping(g, ks, i - 1) /\ ks[i] \in C /\ i \in 0..L
      BY <1>1, <1>4
    <2>2. Grouping(TH!Grouped(g, ks[i]), ks, i)
      BY <1>2, <2>1, GroupedKeeps
    <2>3. TH!Grouped(g, ks[i]) \in Groupings
      BY <2>1, GroupedType
    <2>. QED
      BY <2>1, <2>2, <2>3
  <1>5. TH!GroupedRoots(f, ks) \in Groupings /\ <<L, TH!GroupedRoots(f, ks)>> \in good
    <2>. HIDE DEF good
    <2>. QED
      BY <1>3, <1>4, GroupedRootsIn
  <1>. QED
    BY <1>5

LEMMA GroupKeeps ==
    ASSUME ThreadsInv, TH!Group
    PROVE  ThreadsInv'
  <1>. DEFINE f == [forest EXCEPT !.children = TH!PrunedChildren]
              ks == TH!Pruned(roots, f.children)
              g == TH!GroupedRoots(f, ks)
              par == forest.parent
  <1>1. /\ stage = "group" /\ stage' = "done" /\ forest' = g.f
        /\ mail' = mail /\ keys' = keys /\ next' = next
    BY DEF TH!Group
  <1>2. /\ mail \in Lists /\ keys \subseteq Ids /\ next \in Nat \ {0}
        /\ forest \in Forests /\ Acyclic(par) /\ Families(forest) /\ par \in Parents
        /\ roots \in Seq(C) /\ Distinct(roots)
        /\ \A i \in DOMAIN roots : par[roots[i]] = None
    BY <1>1 DEF ThreadsInv, Forests
  <1>3. Broods(par, TH!PrunedChildren)
    BY <1>2, PrunedChildrenBroods
  <1>4. f \in Forests /\ f.parent = par /\ f.children = TH!PrunedChildren
    BY <1>2, <1>3 DEF Broods, Forests
  <1>. HIDE DEF f, par
  <1>5. Parted(par, roots)
    <2>1. \A i \in DOMAIN roots : roots[i] \in C
      BY <1>2
    <2>2. ASSUME NEW i \in DOMAIN roots, NEW j \in DOMAIN roots, i # j
          PROVE  Under(par, roots[i]) \cap Under(par, roots[j]) = {}
      <3>1. roots[i] # roots[j] /\ par[roots[i]] = par[roots[j]]
        BY <1>2, <2>2 DEF Distinct
      <3>. QED
        BY <1>2, <2>1, <3>1, SiblingsApart
    <2>. QED
      BY <2>2 DEF Parted
  <1>6. ks \in Seq(C) /\ Parted(par, ks)
    BY <1>2, <1>3, <1>4, <1>5, PrunedParted
  <1>. HIDE DEF ks
  <1>7. g \in Groupings /\ Grouping(g, ks, Len(ks))
    BY <1>2, <1>4, <1>6, GroupedRootsIs
  <1>8. g.f \in Forests /\ Acyclic(g.f.parent)
    BY <1>7 DEF Groupings, Grouping
  <1>. HIDE DEF g
  <1>9. Forests' = Forests
    BY <1>1 DEF Forests
  <1>. QED
    BY <1>1, <1>2, <1>8, <1>9 DEF ThreadsInv

LEMMA ThreadsRest ==
    ASSUME ThreadsInv, UNCHANGED threadVars
    PROVE  ThreadsInv'
  <1>1. /\ mail' = mail /\ stage' = stage /\ forest' = forest /\ keys' = keys
        /\ roots' = roots /\ next' = next
    BY DEF threadVars
  <1>2. Forests' = Forests
    BY <1>1 DEF Forests
  <1>3. Growing' = Growing
    BY <1>2 DEF Growing
  <1>4. Families(forest)' <=> Families(forest)
    BY <1>1 DEF Families
  <1>5. Acyclic(forest.parent)' <=> Acyclic(forest.parent)
    BY <1>1 DEF Acyclic
  <1>6. Distinct(roots)' <=> Distinct(roots)
    BY <1>1 DEF Distinct
  <1>. QED
    BY <1>1, <1>2, <1>3, <1>4, <1>5, <1>6 DEF ThreadsInv

LEMMA ThreadsInductive ==
    ASSUME ThreadsInv, TH!Next \/ UNCHANGED threadVars
    PROVE  ThreadsInv'
  <1>1. CASE UNCHANGED threadVars
    BY <1>1, ThreadsRest
  <1>2. CASE TH!Next
    <2>1. CASE TH!Link
      BY <2>1, LinkKeeps
    <2>2. CASE TH!Roots
      BY <2>2, RootsKeeps
    <2>3. CASE TH!Group
      BY <2>3, GroupKeeps
    <2>4. CASE TH!Finished
      BY <1>1, <2>4 DEF TH!Finished, TH!hvars, threadVars
    <2>. QED
      BY <1>2, <2>1, <2>2, <2>3, <2>4 DEF TH!Next
  <1>. QED
    BY <1>1, <1>2

LEMMA ThreadsHaveNoCycle ==
    ASSUME ThreadsInv
    PROVE  NoCycle
  <1>. DEFINE N == Cardinality(C)
  <1>1. N \in Nat /\ None \notin C
    BY ContainersFinite, FS_CardinalityType
  <1>2. forest.parent \in Parents /\ Acyclic(forest.parent)
    BY DEF ThreadsInv, Forests
  <1>. HIDE DEF N
  <1>3. ASSUME NEW c \in C, NEW n \in 1..N
        PROVE  TH!Above(forest, c)[n] # c
    <2>. DEFINE up == TH!Above(forest, c)
    <2>1. up[0] = c
      BY <1>1, <1>2, AboveIs DEF N, Parents
    <2>. HIDE DEF up
    <2>2. up[0] = up[n] => up[n] = None
      <3>1. 0 \in 0..(n - 1)
        OBVIOUS
      <3>. QED
        BY <1>1, <1>2, <3>1, NoRepeat DEF N, up
    <2>. QED
      BY <1>1, <2>1, <2>2 DEF up
  <1>. QED
    BY <1>3, SameCardinality DEF NoCycle, TH!NoCycle, C, N

(* threading.go (ThreadMessages) guards each link by hasAncestor, which    *)
(* looks upwards only, and groupBySubject links without a guard: still, no *)
(* container comes to be its own ancestor, whatever the messages name and  *)
(* in whatever order the map yields the roots.                             *)
THEOREM ThreadsAreTrees == MCSpec => []NoCycle
  <1>1. MCInit => ThreadsInv
    BY InitThreads DEF MCInit
  <1>2. ThreadsInv /\ [MCNext]_<<part, vars, bookVars, calVars, sessionVars,
                                 stagingVars, settingsVars, pushVars, threadVars>>
           => ThreadsInv'
    <2>1. ASSUME ThreadsInv, MCNext
          PROVE  ThreadsInv'
      <3>1. TH!Next \/ UNCHANGED threadVars
        BY <2>1, Zenon DEF MCNext
      <3>. QED
        BY <2>1, <3>1, ThreadsInductive
    <2>2. ASSUME ThreadsInv, UNCHANGED threadVars
          PROVE  ThreadsInv'
      BY <2>2, ThreadsRest
    <2>. QED
      BY <2>1, <2>2
  <1>3. ThreadsInv => NoCycle
    BY ThreadsHaveNoCycle
  <1>. QED
    BY <1>1, <1>2, <1>3, PTL DEF MCSpec

----------------------------------------------------------------------------
(* Complete lists.  A container with a parent is one of its children.      *)
Whole(f) ==
    \A c \in C : f.parent[c] # None =>
        \E i \in DOMAIN f.children[f.parent[c]] : f.children[f.parent[c]][i] = c

(* Only containers of K are linked. *)
Within(f, K) == \A c \in C : f.parent[c] # None => c \in K /\ f.parent[c] \in K

LEMMA AddWhole ==
    ASSUME NEW f \in Forests, Whole(f), NEW K, Within(f, K),
           NEW p \in C, NEW c \in C, p \in K, c \in K, f.parent[c] = None,
           NEW g, g = TH!AddChild(f, p, c)
    PROVE  Whole(g) /\ Within(g, K)
  <1>1. /\ g.parent = [f.parent EXCEPT ![c] = p]
        /\ g.children = [f.children EXCEPT ![p] = Append(@, c)]
    <2>1. Added(f, g, p, c)
      BY AddChildIs
    <2>. QED
      BY <2>1 DEF Added
  <1>2. /\ f.parent \in Parents /\ f.children \in [C -> Seq(C)]
        /\ f.children[p] \in Seq(C)
    BY DEF Forests
  <1>3. /\ g.parent[c] = p /\ \A x \in C \ {c} : g.parent[x] = f.parent[x]
        /\ g.children[p] = Append(f.children[p], c)
        /\ \A x \in C \ {p} : g.children[x] = f.children[x]
    BY <1>1, <1>2 DEF Parents
  <1>4. Within(g, K)
    BY <1>3 DEF Within
  <1>5. ASSUME NEW x \in C, g.parent[x] # None
        PROVE  \E i \in DOMAIN g.children[g.parent[x]] : g.children[g.parent[x]][i] = x
    <2>1. CASE x = c
      <3>1. Len(f.children[p]) + 1 \in DOMAIN g.children[p]
        BY <1>2, <1>3
      <3>2. g.children[p][Len(f.children[p]) + 1] = c
        BY <1>2, <1>3
      <3>. QED
        BY <1>3, <2>1, <3>1, <3>2
    <2>2. CASE x # c
      <3>. DEFINE y == f.parent[x]
      <3>1. g.parent[x] = y /\ y \in C
        BY <1>2, <1>3, <1>5, <2>2 DEF Parents
      <3>2. PICK i \in DOMAIN f.children[y] : f.children[y][i] = x
        BY <1>5, <3>1 DEF Whole
      <3>. HIDE DEF y
      <3>3. CASE y = p
        <4>1. i \in DOMAIN g.children[p] /\ g.children[p][i] = x
          BY <1>2, <1>3, <3>2, <3>3
        <4>. QED
          BY <3>1, <3>3, <4>1
      <3>4. CASE y # p
        BY <1>3, <3>1, <3>2, <3>4
      <3>. QED
        BY <3>3, <3>4
    <2>. QED
      BY <2>1, <2>2
  <1>6. Whole(g)
    BY <1>5 DEF Whole
  <1>. QED
    BY <1>4, <1>6

LEMMA LinkedWhole ==
    ASSUME NEW f \in Forests, Whole(f), NEW K, Within(f, K),
           NEW p \in C, NEW c \in C, p \in K, c \in K
    PROVE  Whole(TH!Linked(f, p, c)) /\ Within(TH!Linked(f, p, c), K)
  <1>1. CASE TH!MayLink(f, p, c)
    <2>1. f.parent[c] = None /\ TH!Linked(f, p, c) = TH!AddChild(f, p, c)
      BY <1>1 DEF TH!MayLink, TH!Linked
    <2>. QED
      BY <2>1, AddWhole
  <1>2. CASE ~TH!MayLink(f, p, c)
    BY <1>2 DEF TH!Linked
  <1>. QED
    BY <1>1, <1>2

----------------------------------------------------------------------------
HomeOf(i) == <<mail[i].id, "id">>

HomesOf(S) == {<<k, "id">> : k \in S}

ListIds == {mail[i].id : i \in DOMAIN mail}

(* While a complete list is linked: the first message of each id, of those *)
(* before n, is in the container of that id.                               *)
Linking(f, n) ==
    /\ keys \subseteq ListIds
    /\ Whole(f) /\ Within(f, HomesOf(keys))
    /\ \A c \in C : f.msg[c] # None => f.msg[c] < n /\ c = HomeOf(f.msg[c])
    /\ \A j \in DOMAIN mail : j < n =>
          mail[j].id \in keys /\ f.msg[HomeOf(j)] # None /\ f.msg[HomeOf(j)] <= j

(* When all are linked: every linked container has a message.              *)
Trees(f) ==
    /\ Families(f) /\ Whole(f)
    /\ \A c \in C : f.msg[c] # None => c = HomeOf(f.msg[c])
    /\ \A j \in DOMAIN mail : f.msg[HomeOf(j)] # None /\ f.msg[HomeOf(j)] <= j
    /\ \A c \in C : f.parent[c] # None => f.msg[c] # None /\ f.msg[f.parent[c]] # None

(* The roots are the containers with a message and without a parent.       *)
Gathered ==
    /\ Trees(forest)
    /\ roots \in Seq(C) /\ Distinct(roots)
    /\ \A i \in DOMAIN roots :
          forest.msg[roots[i]] # None /\ forest.parent[roots[i]] = None
    /\ \A c \in C : forest.msg[c] # None /\ forest.parent[c] = None =>
          \E i \in DOMAIN roots : roots[i] = c

CompleteInv ==
    TH!Complete =>
        /\ stage = "link" => Linking(forest, next)
        /\ stage \in {"group", "done"} => Gathered

LEMMA CompleteIs ==
    ASSUME mail \in Lists, TH!Complete, NEW i \in DOMAIN mail
    PROVE  LET e == mail[i] IN
           /\ e.id \in Ids /\ e.id # None /\ HomeOf(i) \in C /\ TH!ContainerOf(i) = HomeOf(i)
           /\ TH!Chain(e) \in Seq(Ids)
           /\ TH!ToSet(TH!Chain(e)) \subseteq ListIds
           /\ TH!Keys(e) = TH!ToSet(TH!Chain(e)) \cup {e.id}
           /\ TH!Keys(e) \subseteq ListIds
  <1>. DEFINE e == mail[i]
  <1>1. e.id # None /\ TH!ToSet(TH!Chain(e)) \subseteq ListIds
    BY DEF TH!Complete, ListIds
  <1>2. e.id \in Ids /\ TH!Chain(e) \in Seq(Ids)
    BY <1>1, MessageTypes
  <1>3. HomeOf(i) \in C
    BY <1>2 DEF HomeOf, C, TH!Containers
  <1>4. TH!ContainerOf(i) = HomeOf(i)
    BY <1>1 DEF TH!ContainerOf, HomeOf
  <1>5. e.id \in ListIds
    BY DEF ListIds
  <1>. HIDE DEF e
  <1>6. TH!Keys(e) = TH!ToSet(TH!Chain(e)) \cup {e.id}
    BY <1>1 DEF TH!Keys
  <1>. QED
    BY <1>1, <1>2, <1>3, <1>4, <1>5, <1>6 DEF e

LEMMA LinkShows ==
    ASSUME ThreadsInv, CompleteInv, TH!Link
    PROVE  CompleteInv'
  <1>. DEFINE e == mail[next]
              c == TH!ContainerOf(next)
              refs == TH!Chain(e)
              filled == IF forest.msg[c] = None
                        THEN [forest EXCEPT !.msg[c] = next] ELSE forest
              chained == TH!LinkedChain(filled, refs)
              linked == IF refs = <<>> THEN chained
                        ELSE TH!Linked(chained, <<refs[Len(refs)], "id">>, c)
              known1 == keys \cup TH!Keys(e)
              K == HomesOf(known1)
  <1>1. /\ stage = "link" /\ next <= Len(mail)
        /\ forest' = linked /\ keys' = known1 /\ next' = next + 1
        /\ mail' = mail /\ stage' = stage /\ roots' = roots
    BY DEF TH!Link, TH!Last
  <1>2. TH!Complete' <=> TH!Complete
    BY <1>1 DEF TH!Complete
  <1>3. SUFFICES ASSUME TH!Complete PROVE Linking(forest, next)'
    BY <1>1, <1>2 DEF CompleteInv
  <1>4. /\ mail \in Lists /\ next \in Nat \ {0}
        /\ forest \in Growing /\ forest \in Forests
    BY <1>1 DEF ThreadsInv, Growing
  <1>5. Linking(forest, next)
    BY <1>1, <1>3 DEF CompleteInv
  <1>6. mail \in Seq(TH!Message)
    BY <1>4, ThreadsAssumption
  <1>7. next \in DOMAIN mail /\ DOMAIN mail \subseteq Nat
    BY <1>1, <1>4, <1>6
  <1>8. /\ e.id \in Ids /\ c = HomeOf(next) /\ c \in C
        /\ refs \in Seq(Ids)
        /\ TH!Keys(e) = TH!ToSet(refs) \cup {e.id}
        /\ TH!Keys(e) \subseteq ListIds
    BY <1>3, <1>4, <1>7, CompleteIs
  <1>9. \A j \in Positions : c # TH!Loose(j)
    BY <1>4, <1>7, MessageTypes
  <1>10. c \in K /\ \A i \in 1..Len(refs) : <<refs[i], "id">> \in K
    <2>1. c \in K
      BY <1>8 DEF HomesOf, HomeOf
    <2>2. ASSUME NEW i \in 1..Len(refs)
          PROVE  <<refs[i], "id">> \in K
      <3>1. refs[i] \in TH!ToSet(refs)
        BY <1>8 DEF TH!ToSet
      <3>. QED
        BY <1>8, <3>1 DEF HomesOf
    <2>. QED
      BY <2>1, <2>2
  <1>11. /\ filled \in Growing /\ filled \in Forests /\ Whole(filled) /\ Within(filled, K)
         /\ filled.msg = IF forest.msg[c] = None THEN [forest.msg EXCEPT ![c] = next]
                         ELSE forest.msg
    <2>1. /\ filled \in Forests /\ filled.parent = forest.parent
          /\ filled.children = forest.children
          /\ filled.msg = IF forest.msg[c] = None THEN [forest.msg EXCEPT ![c] = next]
                          ELSE forest.msg
      BY <1>4, <1>7, <1>8 DEF Forests
    <2>2. HomesOf(keys) \subseteq K
      BY DEF HomesOf
    <2>3. Whole(forest) /\ Within(forest, HomesOf(keys))
      BY <1>5 DEF Linking
    <2>. HIDE DEF filled, c, K
    <2>4. filled \in Growing
      BY <1>4, <2>1 DEF Growing, Families
    <2>5. Whole(filled) /\ Within(filled, K)
      BY <2>1, <2>2, <2>3 DEF Whole, Within
    <2>. QED
      BY <2>1, <2>4, <2>5
  <1>. HIDE DEF filled, refs, c, K
  <1>. DEFINE S == {g \in Growing : Whole(g) /\ Within(g, K) /\ g.msg = filled.msg}
  <1>12. ASSUME NEW g \in S, NEW x \in C, NEW y \in C, x \in K, y \in K,
                \A j \in Positions : y # TH!Loose(j)
         PROVE  TH!Linked(g, x, y) \in S
    <2>1. g \in Growing /\ g \in Forests /\ Whole(g) /\ Within(g, K) /\ g.msg = filled.msg
      BY DEF Growing
    <2>2. Whole(TH!Linked(g, x, y)) /\ Within(TH!Linked(g, x, y), K)
      BY <1>12, <2>1, LinkedWhole
    <2>3. TH!Linked(g, x, y) \in Growing /\ TH!Linked(g, x, y).msg = filled.msg
      BY <1>12, <2>1, LinkedGrows
    <2>. QED
      BY <2>2, <2>3
  <1>13. chained \in S
    <2>1. filled \in S
      BY <1>11
    <2>. HIDE DEF S
    <2>2. ASSUME NEW i \in 2..Len(refs), NEW g \in S
          PROVE  TH!Linked(g, <<refs[i - 1], "id">>, <<refs[i], "id">>) \in S
      <3>1. i - 1 \in 1..Len(refs) /\ i \in 1..Len(refs)
        OBVIOUS
      <3>. QED
        BY <1>8, <1>10, <1>12, <3>1, ReferencesIn
    <2>. QED
      BY <1>8, <2>1, <2>2, LinkedChainIn
  <1>. HIDE DEF chained
  <1>14. linked \in S
    <2>. HIDE DEF S
    <2>1. CASE refs = <<>>
      BY <1>13, <2>1
    <2>2. CASE refs # <<>>
      <3>1. Len(refs) \in 1..Len(refs)
        BY <1>8, <2>2
      <3>2. TH!Linked(chained, <<refs[Len(refs)], "id">>, c) \in S
        BY <1>8, <1>9, <1>10, <1>12, <1>13, <3>1, ReferencesIn
      <3>. QED
        BY <2>2, <3>2
    <2>. QED
      BY <2>1, <2>2
  <1>. HIDE DEF linked
  <1>15. Whole(linked) /\ Within(linked, K) /\ linked.msg = filled.msg
    BY <1>14
  <1>16. known1 \subseteq ListIds
    BY <1>5, <1>8 DEF Linking
  <1>17. ASSUME NEW x \in C, filled.msg[x] # None
         PROVE  filled.msg[x] < next + 1 /\ x = HomeOf(filled.msg[x])
    <2>1. forest.msg \in [C -> DOMAIN mail \cup {None}]
      BY <1>4 DEF Forests
    <2>2. \A y \in C : forest.msg[y] # None =>
             forest.msg[y] < next /\ y = HomeOf(forest.msg[y])
      BY <1>5 DEF Linking
    <2>3. CASE x = c /\ forest.msg[c] = None
      BY <1>4, <1>8, <1>11, <2>1, <2>3
    <2>4. CASE ~(x = c /\ forest.msg[c] = None)
      <3>1. filled.msg[x] = forest.msg[x] /\ forest.msg[x] # None
        BY <1>8, <1>11, <1>17, <2>1, <2>4
      <3>2. forest.msg[x] \in Nat /\ forest.msg[x] < next /\ x = HomeOf(forest.msg[x])
        BY <1>7, <2>1, <2>2, <3>1
      <3>. QED
        BY <1>4, <3>1, <3>2
    <2>. QED
      BY <2>3, <2>4
  <1>18. ASSUME NEW j \in DOMAIN mail, j < next + 1
         PROVE  /\ mail[j].id \in known1 /\ filled.msg[HomeOf(j)] # None
                /\ filled.msg[HomeOf(j)] <= j
    <2>1. /\ forest.msg \in [C -> DOMAIN mail \cup {None}] /\ HomeOf(j) \in C
          /\ None \notin DOMAIN mail
      <3>1. DOMAIN mail \subseteq Positions /\ None \notin Positions
        BY <1>4, ThreadsAssumption
      <3>. QED
        BY <1>3, <1>4, <3>1, CompleteIs DEF Forests
    <2>2. j = next \/ j < next
      BY <1>7, <1>18
    <2>3. CASE j < next
      <3>1. mail[j].id \in keys /\ forest.msg[HomeOf(j)] # None /\ forest.msg[HomeOf(j)] <= j
        BY <1>5, <2>3 DEF Linking
      <3>2. filled.msg[HomeOf(j)] = forest.msg[HomeOf(j)]
        BY <1>8, <1>11, <2>1, <3>1
      <3>. QED
        BY <3>1, <3>2
    <2>4. CASE j = next
      <3>1. mail[j].id \in known1
        BY <1>8, <2>4
      <3>2. CASE forest.msg[c] = None
        <4>1. filled.msg[c] = next
          BY <1>8, <1>11, <2>1, <3>2
        <4>. QED
          BY <1>7, <1>8, <2>1, <2>4, <3>1, <4>1
      <3>3. CASE forest.msg[c] # None
        <4>. DEFINE m == forest.msg[c]
        <4>1. m \in DOMAIN mail /\ filled.msg[c] = m /\ c = HomeOf(m)
          BY <1>5, <1>8, <1>11, <2>1, <3>3 DEF Linking
        <4>2. m <= next
          <5>1. m < next /\ m \in Nat
            BY <1>5, <1>7, <1>8, <3>3, <4>1 DEF Linking
          <5>. QED
            BY <1>4, <5>1
        <4>. QED
          BY <1>8, <2>4, <3>1, <3>3, <4>1, <4>2
      <3>. QED
        BY <3>2, <3>3
    <2>. QED
      BY <2>2, <2>3, <2>4
  <1>. QED
    BY <1>1, <1>15, <1>16, <1>17, <1>18 DEF Linking, Whole, Within, ListIds, HomeOf, HomesOf, K

LEMMA TreesSame ==
    ASSUME Trees(forest'), mail' = mail
    PROVE  Trees(forest)'
  <1>1. \A i : HomeOf(i)' = HomeOf(i)
    BY DEF HomeOf
  <1>2. Families(forest)'
    BY DEF Trees, Families, Acyclic
  <1>3. Whole(forest)'
    BY DEF Trees, Whole
  <1>. QED
    BY <1>1, <1>2, <1>3 DEF Trees

LEMMA InitShows ==
    ASSUME TH!Init
    PROVE  CompleteInv
  <1>1. /\ mail \in Lists /\ keys = {} /\ next = 1 /\ stage = "link"
        /\ forest = [msg |-> [c \in C |-> None], parent |-> [c \in C |-> None],
                     children |-> [c \in C |-> <<>>]]
    BY DEF TH!Init, C
  <1>2. \A c \in C : forest.parent[c] = None /\ forest.msg[c] = None
    BY <1>1
  <1>3. DOMAIN mail \subseteq Nat \ {0}
    <2>1. mail \in Seq(TH!Message)
      BY <1>1, ThreadsAssumption
    <2>. QED
      BY <2>1
  <1>4. Linking(forest, 1)
    BY <1>1, <1>2, <1>3 DEF Linking, Whole, Within
  <1>. QED
    BY <1>1, <1>4 DEF CompleteInv

(* The members of a set of containers in any order, none of them twice. *)
LEMMA OrderIs ==
    ASSUME NEW S \in SUBSET C, NEW s \in [1..Cardinality(S) -> S],
           \A i, j \in DOMAIN s : s[i] = s[j] => i = j
    PROVE  /\ s \in Seq(C) /\ Distinct(s)
           /\ \A i \in DOMAIN s : s[i] \in S
           /\ \A c \in S : \E i \in DOMAIN s : s[i] = c
  <1>1. IsFiniteSet(S) /\ Cardinality(S) \in Nat
    BY ContainersFinite, FS_Subset, FS_CardinalityType
  <1>2. s \in Injection(1..Cardinality(S), S)
    BY DEF Injection, IsInjective
  <1>3. Cardinality(1..Cardinality(S)) = Cardinality(S)
    BY <1>1, FS_Interval
  <1>4. s \in Surjection(1..Cardinality(S), S)
    BY <1>1, <1>2, <1>3, FS_Injection
  <1>5. \A c \in S : \E i \in DOMAIN s : s[i] = c
    BY <1>4 DEF Surjection
  <1>6. s \in Seq(C)
    BY <1>1
  <1>. QED
    BY <1>5, <1>6 DEF Distinct

LEMMA RootsShows ==
    ASSUME ThreadsInv, CompleteInv, TH!Roots
    PROVE  CompleteInv'
  <1>. DEFINE W == TH!WithoutId
              tops == {<<i, "id">> : i \in {k \in keys : forest.parent[<<k, "id">>] = None}}
  <1>1. /\ stage = "link" /\ stage' = "group" /\ next > Len(mail)
        /\ mail' = mail /\ keys' = keys /\ next' = next
        /\ forest' = [forest EXCEPT !.msg =
                         [c \in C |-> IF \E i \in TH!ToSet(W) : c = TH!Loose(i)
                                      THEN c[1] ELSE forest.msg[c]]]
    BY DEF TH!Roots, C
  <1>2. PICK s \in TH!Orders(tops) :
           roots' = s \o [k \in DOMAIN W |-> TH!Loose(W[k])]
    BY DEF TH!Roots
  <1>3. TH!Complete' <=> TH!Complete
    BY <1>1 DEF TH!Complete
  <1>4. SUFFICES ASSUME TH!Complete PROVE Gathered'
    BY <1>1, <1>3 DEF CompleteInv
  <1>5. /\ mail \in Lists /\ keys \subseteq Ids /\ forest \in Growing /\ forest \in Forests
        /\ Linking(forest, next) /\ next \in Nat \ {0}
    BY <1>1, <1>4 DEF ThreadsInv, Growing, CompleteInv
  <1>6. mail \in Seq(TH!Message)
    BY <1>5, ThreadsAssumption
  <1>7. W = <<>>
    <2>. DEFINE all == [i \in DOMAIN mail |-> i]
                T == {i \in DOMAIN mail : mail[i].id = None}
    <2>1. all \in Seq(DOMAIN mail) /\ T = {}
      BY <1>4, <1>6 DEF TH!Complete
    <2>2. W = TH!Among(all, T)
      BY DEF TH!WithoutId
    <2>. HIDE DEF all, T, W
    <2>3. W \in Seq(DOMAIN mail) /\ Picked(W, all, T, Len(all))
      BY <2>1, <2>2, AmongIs
    <2>4. \A i \in DOMAIN W : W[i] \in T
      BY <2>3 DEF Picked
    <2>5. Len(W) = 0
      <3>1. Len(W) \in Nat /\ DOMAIN W = 1..Len(W)
        BY <2>3
      <3>2. Len(W) # 0 => 1 \in DOMAIN W
        BY <3>1
      <3>. QED
        BY <2>1, <2>4, <3>2
    <2>. QED
      BY <2>3, <2>5
  <1>. HIDE DEF W
  <1>8. TH!ToSet(W) = {} /\ [k \in DOMAIN W |-> TH!Loose(W[k])] = <<>>
    BY <1>7 DEF TH!ToSet
  <1>9. forest' = forest
    <2>1. /\ forest.msg \in [C -> DOMAIN mail \cup {None}]
          /\ forest = [msg |-> forest.msg, parent |-> forest.parent,
                       children |-> forest.children]
      BY <1>5 DEF Forests
    <2>2. [c \in C |-> IF \E i \in TH!ToSet(W) : c = TH!Loose(i)
                       THEN c[1] ELSE forest.msg[c]] = forest.msg
      BY <1>8, <2>1
    <2>3. forest' = [forest EXCEPT !.msg = forest.msg]
      BY <1>1, <2>2
    <2>. QED
      BY <2>1, <2>3
  <1>10. tops \in SUBSET C
    BY <1>5 DEF C, TH!Containers
  <1>11. /\ roots' = s /\ roots' \in Seq(C) /\ Distinct(roots')
         /\ \A i \in DOMAIN roots' : roots'[i] \in tops
         /\ \A c \in tops : \E i \in DOMAIN roots' : roots'[i] = c
    <2>. HIDE DEF tops
    <2>1. s \in [1..Cardinality(tops) -> tops] /\ \A i, j \in DOMAIN s : s[i] = s[j] => i = j
      BY SameCardinality DEF TH!Orders
    <2>2. /\ s \in Seq(C) /\ Distinct(s)
          /\ \A i \in DOMAIN s : s[i] \in tops
          /\ \A c \in tops : \E i \in DOMAIN s : s[i] = c
      BY <1>10, <2>1, OrderIs
    <2>3. roots' = s
      BY <1>2, <1>8, <2>2
    <2>. QED
      BY <2>2, <2>3
  <1>12. /\ keys \subseteq ListIds /\ Whole(forest) /\ Within(forest, HomesOf(keys))
         /\ \A c \in C : forest.msg[c] # None =>
               forest.msg[c] < next /\ c = HomeOf(forest.msg[c])
    BY <1>5 DEF Linking
  <1>13. ASSUME NEW j \in DOMAIN mail
         PROVE  /\ mail[j].id \in keys /\ forest.msg[HomeOf(j)] # None
                /\ forest.msg[HomeOf(j)] <= j
    <2>1. j < next
      BY <1>1, <1>5, <1>6
    <2>. QED
      BY <1>5, <2>1 DEF Linking
  <1>14. ASSUME NEW c \in HomesOf(keys)
         PROVE  forest.msg[c] # None
    <2>1. PICK k \in keys : c = <<k, "id">>
      BY DEF HomesOf
    <2>2. PICK j \in DOMAIN mail : k = mail[j].id
      BY <1>12 DEF ListIds
    <2>. QED
      BY <1>13, <2>1, <2>2 DEF HomeOf
  <1>15. \A c \in C : forest.parent[c] # None =>
            forest.msg[c] # None /\ forest.msg[forest.parent[c]] # None
    BY <1>12, <1>14 DEF Within
  <1>16. ASSUME NEW c \in C, forest.msg[c] # None, forest.parent[c] = None
         PROVE  c \in tops
    <2>. DEFINE m == forest.msg[c]
    <2>1. m \in DOMAIN mail /\ c = HomeOf(m)
      BY <1>5, <1>12, <1>16 DEF Forests
    <2>2. mail[m].id \in keys /\ c = <<mail[m].id, "id">>
      BY <1>13, <2>1 DEF HomeOf
    <2>. QED
      BY <1>16, <2>2
  <1>17. ASSUME NEW c \in tops
         PROVE  forest.msg[c] # None /\ forest.parent[c] = None
    BY <1>14 DEF HomesOf
  <1>18. Trees(forest)
    BY <1>5, <1>12, <1>13, <1>15 DEF Trees, Growing
  <1>19. Trees(forest)'
    BY <1>1, <1>9, <1>18, TreesSame
  <1>. HIDE DEF tops
  <1>20. /\ \A i \in DOMAIN roots' :
               forest.msg[roots'[i]] # None /\ forest.parent[roots'[i]] = None
         /\ \A c \in C : forest.msg[c] # None /\ forest.parent[c] = None =>
               \E i \in DOMAIN roots' : roots'[i] = c
    BY <1>11, <1>16, <1>17
  <1>. QED
    BY <1>9, <1>11, <1>19, <1>20 DEF Gathered, Distinct

(* A list of containers with messages is not pruned.                       *)
LEMMA PrunedSame ==
    ASSUME NEW cs \in Seq(C), \A i \in DOMAIN cs : forest.msg[cs[i]] # None, NEW kids
    PROVE  TH!Pruned(cs, kids) = cs
  <1>. DEFINE seqs == [i \in DOMAIN cs |-> <<cs[i]>>]
              L == Len(cs)
  <1>1. L \in Nat /\ DOMAIN cs = 1..L /\ \A i \in 1..L : cs[i] \in C
    OBVIOUS
  <1>2. TH!Pruned(cs, kids) = TH!FlattenSeq(seqs)
    BY DEF TH!Pruned
  <1>3. seqs \in Seq(Seq(C)) /\ Len(seqs) = L /\ \A i \in 1..L : seqs[i] = <<cs[i]>>
    <2>1. \A i \in 1..L : seqs[i] \in Seq(C)
      BY <1>1
    <2>2. seqs \in [1..L -> Seq(C)]
      BY <1>1, <2>1
    <2>. QED
      BY <1>1, <2>2
  <1>. HIDE DEF seqs
  <1>4. PICK g : Flattened(g, seqs, C) /\ TH!FlattenSeq(seqs) = g[L]
    BY <1>3, FlattenIs
  <1>5. /\ g \in [0..L -> Seq(C)] /\ g[0] = <<>>
        /\ \A i \in 1..L : g[i] = g[i - 1] \o <<cs[i]>>
    BY <1>3, <1>4 DEF Flattened
  <1>. HIDE DEF L
  <1>. DEFINE good == {k \in 0..L : Len(g[k]) = k /\ \A j \in 1..k : g[k][j] = cs[j]}
  <1>6. 0 \in good
    BY <1>1, <1>5
  <1>7. ASSUME NEW k \in 1..L, k - 1 \in good
        PROVE  k \in good
    <2>. DEFINE a == g[k - 1]
                b == g[k]
    <2>1. k - 1 \in 0..L /\ k \in 0..L /\ cs[k] \in C
      BY <1>1
    <2>2. a \in Seq(C) /\ Len(a) = k - 1 /\ \A j \in 1..(k - 1) : a[j] = cs[j]
      BY <1>5, <1>7, <2>1
    <2>3. b = a \o <<cs[k]>>
      BY <1>5
    <2>. HIDE DEF a, b
    <2>4. Len(b) = k /\ b[k] = cs[k] /\ \A j \in 1..(k - 1) : b[j] = cs[j]
      BY <2>1, <2>2, <2>3
    <2>. QED
      BY <2>1, <2>4 DEF b
  <1>8. L \in good
    <2>. HIDE DEF good
    <2>1. \A k \in 0..L : k \in good
      BY <1>1, <1>6, <1>7, Steps
    <2>. QED
      BY <1>1, <2>1
  <1>9. g[L] \in Seq(C) /\ Len(g[L]) = L /\ \A j \in 1..L : g[L][j] = cs[j]
    BY <1>1, <1>5, <1>8
  <1>10. g[L] = cs
    BY <1>1, <1>9
  <1>. QED
    BY <1>2, <1>4, <1>10

(* One more child under a container without a parent.                      *)
LEMMA AddTree ==
    ASSUME mail \in Lists, NEW f \in Forests, Trees(f), NEW p \in C, NEW c \in C, p # c,
           f.parent[p] = None, f.parent[c] = None, f.msg[p] # None, f.msg[c] # None,
           NEW g, g = TH!AddChild(f, p, c)
    PROVE  /\ Trees(g) /\ g.msg = f.msg
           /\ g.parent[c] = p /\ \A x \in C \ {c} : g.parent[x] = f.parent[x]
  <1>1. /\ f.parent \in Parents /\ Acyclic(f.parent) /\ Families(f) /\ Whole(f)
    BY DEF Trees, Families
  <1>2. /\ g.msg = f.msg /\ g.parent = [f.parent EXCEPT ![c] = p]
    <2>1. Added(f, g, p, c)
      BY AddChildIs
    <2>. QED
      BY <2>1 DEF Added
  <1>3. g.parent[c] = p /\ \A x \in C \ {c} : g.parent[x] = f.parent[x]
    BY <1>1, <1>2 DEF Parents
  <1>4. Acyclic(g.parent)
    <2>. DEFINE A == {p}
    <2>1. A \in SUBSET C /\ Closed(f.parent, A) /\ p \in A /\ c \in C \ A
      BY DEF Closed
    <2>. HIDE DEF A
    <2>. QED
      BY <1>1, <1>2, <2>1, AddKeeps
  <1>5. Families(g)
    BY <1>1, <1>4, AddFamily
  <1>6. Within(f, C)
    BY <1>1 DEF Within, Parents
  <1>7. Whole(g)
    BY <1>1, <1>6, AddWhole
  <1>8. \A x \in C : g.parent[x] # None => g.msg[x] # None /\ g.msg[g.parent[x]] # None
    BY <1>2, <1>3 DEF Trees
  <1>. QED
    BY <1>2, <1>3, <1>5, <1>7, <1>8 DEF Trees

(* The subject of a root with a message.                                   *)
Topic(j) == mail[forest.msg[roots[j]]].subject

(* Of the roots, the first i are visited: the table has those of them that *)
(* have a subject and are still without a parent.                          *)
Settled(g, i) ==
    /\ Trees(g.f) /\ g.f.msg = forest.msg
    /\ \A c \in C : g.f.parent[c] = None => forest.parent[c] = None
    /\ \A j \in DOMAIN roots : j > i => g.f.parent[roots[j]] = None
    /\ \A s \in Subjects : g.tbl[s] # None =>
          /\ g.f.parent[g.tbl[s].c] = None
          /\ \E j \in DOMAIN roots : j <= i /\ roots[j] = g.tbl[s].c /\ Topic(j) = s
    /\ \A j \in DOMAIN roots : j <= i /\ Topic(j) # None /\ g.f.parent[roots[j]] = None =>
          g.tbl[Topic(j)] # None /\ g.tbl[Topic(j)].c = roots[j]

LEMMA SettledKeeps ==
    ASSUME mail \in Lists, forest \in Forests, Gathered, NEW g \in Groupings,
           NEW i \in DOMAIN roots, Settled(g, i - 1),
           NEW new, new = TH!Grouped(g, roots[i])
    PROVE  Settled(new, i)
  <1>. DEFINE c == roots[i]
              s == Topic(i)
  <1>0. DOMAIN roots \subseteq Nat /\ i \in Nat /\ c \in C
    BY DEF Gathered
  <1>1. /\ g.f \in Forests /\ g.tbl \in Tables /\ g.f.parent \in Parents
    BY DEF Groupings, Forests
  <1>2. /\ \A j \in DOMAIN roots : roots[j] \in C /\ forest.msg[roots[j]] # None
        /\ \A j \in DOMAIN roots : j # i => roots[j] # c
    BY <1>0 DEF Gathered, Distinct
  <1>3. /\ Trees(g.f) /\ g.f.msg = forest.msg
        /\ \A x \in C : g.f.parent[x] = None => forest.parent[x] = None
        /\ \A j \in DOMAIN roots : j > i - 1 => g.f.parent[roots[j]] = None
        /\ \A t \in Subjects : g.tbl[t] # None =>
              /\ g.f.parent[g.tbl[t].c] = None
              /\ \E j \in DOMAIN roots : j <= i - 1 /\ roots[j] = g.tbl[t].c /\ Topic(j) = t
        /\ \A j \in DOMAIN roots :
              j <= i - 1 /\ Topic(j) # None /\ g.f.parent[roots[j]] = None =>
                 g.tbl[Topic(j)] # None /\ g.tbl[Topic(j)].c = roots[j]
    BY DEF Settled
  <1>4. /\ g.f.parent[c] = None /\ g.f.msg[c] # None
        /\ \A j \in DOMAIN roots : j > i => g.f.parent[roots[j]] = None
        /\ \A j \in DOMAIN roots : j <= i => j = i \/ j <= i - 1
        /\ \A j \in DOMAIN roots : j <= i - 1 => j <= i /\ j # i
    BY <1>0, <1>2, <1>3
  <1>5. TH!Subject(g.f, c) = s
    BY <1>3, <1>4 DEF TH!Subject, Topic
  <1>6. Visited(g, new, c, s)
    BY <1>0, <1>5, GroupedIs
  <1>7. ASSUME NEW t \in Subjects, g.tbl[t] # None
        PROVE  /\ g.tbl[t].c \in C /\ g.tbl[t].c # c /\ g.f.parent[g.tbl[t].c] = None
               /\ g.f.msg[g.tbl[t].c] # None
               /\ \E j \in DOMAIN roots : j <= i /\ j # i /\ roots[j] = g.tbl[t].c /\ Topic(j) = t
    <2>1. PICK j \in DOMAIN roots : j <= i - 1 /\ roots[j] = g.tbl[t].c /\ Topic(j) = t
      BY <1>3, <1>7
    <2>2. j <= i /\ j # i
      BY <1>4, <2>1
    <2>. QED
      BY <1>2, <1>3, <1>7, <2>1, <2>2
  <1>8. ASSUME NEW t \in Subjects, NEW j \in DOMAIN roots, Topic(j) # t, g.tbl[t] # None
        PROVE  roots[j] # g.tbl[t].c
    <2>1. PICK k \in DOMAIN roots : roots[k] = g.tbl[t].c /\ Topic(k) = t
      BY <1>7, <1>8
    <2>. QED
      BY <1>8, <2>1 DEF Topic
  <1>a. i <= i
    BY <1>0
  <1>. HIDE DEF c, s
  <1>9. CASE s = None /\ new = g
    <2>1. ASSUME NEW j \in DOMAIN roots, j <= i, Topic(j) # None, g.f.parent[roots[j]] = None
          PROVE  g.tbl[Topic(j)] # None /\ g.tbl[Topic(j)].c = roots[j]
      BY <1>3, <1>4, <1>9, <2>1 DEF s
    <2>2. \A t \in Subjects : g.tbl[t] # None =>
             /\ g.f.parent[g.tbl[t].c] = None
             /\ \E j \in DOMAIN roots : j <= i /\ roots[j] = g.tbl[t].c /\ Topic(j) = t
      BY <1>7
    <2>. QED
      BY <1>3, <1>4, <1>9, <2>1, <2>2 DEF Settled
  <1>10. ASSUME NEW b \in BOOLEAN, s \in Subjects, g.tbl[s] = None,
                new = [g EXCEPT !.tbl[s] = [c |-> c, reply |-> b]]
         PROVE  Settled(new, i)
    <2>1. new.f = g.f /\ Entered(g.tbl, new.tbl, s, c, b)
      BY <1>10 DEF Groupings, Entered
    <2>2. /\ new.tbl[s].c = c /\ new.tbl[s] # None
          /\ \A t \in Subjects \ {s} : new.tbl[t] = g.tbl[t]
      <3>1. new.tbl[s] \in [c : C, reply : BOOLEAN]
        BY <1>0, <1>1, <1>10, <2>1 DEF Entered, Tables, c
      <3>2. new.tbl[s] # None
        BY <3>1, ThreadsAssumption DEF C
      <3>3. c \in C
        BY <1>0 DEF c
      <3>4. s \in Subjects
        BY <1>10
      <3>. QED
        BY <1>1, <2>1, <3>2, <3>3, <3>4, EntryIs
    <2>3. ASSUME NEW t \in Subjects, new.tbl[t] # None
          PROVE  /\ g.f.parent[new.tbl[t].c] = None
                 /\ \E j \in DOMAIN roots : j <= i /\ roots[j] = new.tbl[t].c /\ Topic(j) = t
      <3>1. CASE t = s
        BY <1>a, <1>4, <2>2, <3>1 DEF c, s
      <3>2. CASE t # s
        BY <1>7, <2>2, <2>3, <3>2
      <3>. QED
        BY <3>1, <3>2
    <2>4. ASSUME NEW j \in DOMAIN roots, j <= i, Topic(j) # None, g.f.parent[roots[j]] = None
          PROVE  new.tbl[Topic(j)] # None /\ new.tbl[Topic(j)].c = roots[j]
      <3>1. CASE j = i
        BY <2>2, <3>1 DEF c, s
      <3>2. CASE j # i
        <4>1. g.tbl[Topic(j)] # None /\ g.tbl[Topic(j)].c = roots[j]
          BY <1>3, <1>4, <2>4, <3>2
        <4>2. Topic(j) \in Subjects
          <5>1. forest.msg[roots[j]] \in DOMAIN mail
            BY <1>2 DEF Forests
          <5>. QED
            BY <2>4, <5>1, MessageTypes DEF Topic
        <4>. QED
          BY <1>10, <2>2, <4>1, <4>2
      <3>. QED
        BY <3>1, <3>2
    <2>. QED
      BY <1>3, <1>4, <2>1, <2>3, <2>4 DEF Settled
  <1>11. ASSUME s \in Subjects, g.tbl[s] # None,
                new = [g EXCEPT !.f = TH!AddChild(g.f, g.tbl[s].c, c)]
         PROVE  Settled(new, i)
    <2>. DEFINE r == g.tbl[s].c
    <2>1. /\ r \in C /\ r # c /\ g.f.parent[r] = None /\ g.f.msg[r] # None
      BY <1>7, <1>11
    <2>. HIDE DEF r
    <2>2. new.f = TH!AddChild(g.f, r, c) /\ new.tbl = g.tbl
      BY <1>11 DEF Groupings, r
    <2>3. /\ Trees(new.f) /\ new.f.msg = g.f.msg /\ new.f.parent[c] = r
          /\ \A x \in C \ {c} : new.f.parent[x] = g.f.parent[x]
      BY <1>0, <1>1, <1>3, <1>4, <2>1, <2>2, AddTree DEF c
    <2>4. r # None
      BY <2>1, ContainersFinite
    <2>5. \A x \in C : new.f.parent[x] = None => forest.parent[x] = None
      BY <1>3, <2>3, <2>4
    <2>6. ASSUME NEW j \in DOMAIN roots, j > i
          PROVE  new.f.parent[roots[j]] = None
      <3>1. j # i
        BY <1>0, <2>6
      <3>. QED
        BY <1>2, <1>4, <2>3, <2>6, <3>1
    <2>7. \A t \in Subjects : new.tbl[t] # None =>
             /\ new.f.parent[new.tbl[t].c] = None
             /\ \E j \in DOMAIN roots : j <= i /\ roots[j] = new.tbl[t].c /\ Topic(j) = t
      BY <1>7, <2>2, <2>3
    <2>8. ASSUME NEW j \in DOMAIN roots, j <= i, Topic(j) # None,
                 new.f.parent[roots[j]] = None
          PROVE  new.tbl[Topic(j)] # None /\ new.tbl[Topic(j)].c = roots[j]
      <3>1. j # i
        BY <2>3, <2>4, <2>8 DEF c
      <3>2. g.f.parent[roots[j]] = None
        BY <1>2, <2>3, <2>8, <3>1
      <3>. QED
        BY <1>3, <1>4, <2>2, <2>8, <3>1, <3>2
    <2>. QED
      BY <1>3, <2>3, <2>5, <2>6, <2>7, <2>8 DEF Settled
  <1>12. ASSUME NEW b \in BOOLEAN, s \in Subjects, g.tbl[s] # None,
                new = [f |-> TH!AddChild(g.f, c, g.tbl[s].c),
                       tbl |-> [g.tbl EXCEPT ![s] = [c |-> c, reply |-> b]]]
         PROVE  Settled(new, i)
    <2>. DEFINE r == g.tbl[s].c
    <2>1. /\ r \in C /\ r # c /\ g.f.parent[r] = None /\ g.f.msg[r] # None
      BY <1>7, <1>12
    <2>2. \E k \in DOMAIN roots : k <= i /\ k # i /\ roots[k] = r /\ Topic(k) = s
      BY <1>7, <1>12
    <2>. HIDE DEF r
    <2>3. new.f = TH!AddChild(g.f, c, r) /\ Entered(g.tbl, new.tbl, s, c, b)
      BY <1>12 DEF r, Entered
    <2>4. /\ Trees(new.f) /\ new.f.msg = g.f.msg /\ new.f.parent[r] = c
          /\ \A x \in C \ {r} : new.f.parent[x] = g.f.parent[x]
      BY <1>0, <1>1, <1>3, <1>4, <2>1, <2>3, AddTree DEF c
    <2>5. /\ new.tbl[s].c = c /\ new.tbl[s] # None
          /\ \A t \in Subjects \ {s} : new.tbl[t] = g.tbl[t]
      <3>1. new.tbl[s] \in [c : C, reply : BOOLEAN]
        BY <1>0, <1>1, <1>12, <2>3 DEF Entered, Tables, c
      <3>2. new.tbl[s] # None
        BY <3>1, ThreadsAssumption DEF C
      <3>3. c \in C
        BY <1>0 DEF c
      <3>4. s \in Subjects
        BY <1>12
      <3>. QED
        BY <1>1, <2>3, <3>2, <3>3, <3>4, EntryIs
    <2>6. c # None
      BY <1>0, ContainersFinite DEF c
    <2>7. \A x \in C : new.f.parent[x] = None => forest.parent[x] = None
      BY <1>3, <2>4, <2>6
    <2>8. ASSUME NEW j \in DOMAIN roots, j > i
          PROVE  new.f.parent[roots[j]] = None
      <3>1. PICK k \in DOMAIN roots : k <= i /\ roots[k] = r
        BY <2>2
      <3>2. j # k
        BY <1>0, <2>8, <3>1
      <3>3. roots[j] # r
        BY <3>1, <3>2 DEF Gathered, Distinct
      <3>. QED
        BY <1>2, <1>4, <2>4, <2>8, <3>3
    <2>9. ASSUME NEW t \in Subjects, new.tbl[t] # None
          PROVE  /\ new.f.parent[new.tbl[t].c] = None
                 /\ \E j \in DOMAIN roots : j <= i /\ roots[j] = new.tbl[t].c /\ Topic(j) = t
      <3>1. CASE t = s
        BY <1>a, <1>0, <1>4, <2>1, <2>4, <2>5, <3>1 DEF c, s
      <3>2. CASE t # s
        <4>1. new.tbl[t] = g.tbl[t] /\ g.tbl[t] # None
          BY <2>5, <2>9, <3>2
        <4>2. PICK k \in DOMAIN roots : k <= i /\ roots[k] = g.tbl[t].c /\ Topic(k) = t
          BY <1>7, <4>1
        <4>3. g.tbl[t].c # r
          BY <1>8, <1>12, <3>2, <4>2 DEF r
        <4>. QED
          BY <1>7, <2>4, <4>1, <4>2, <4>3
      <3>. QED
        BY <3>1, <3>2
    <2>10. ASSUME NEW j \in DOMAIN roots, j <= i, Topic(j) # None,
                  new.f.parent[roots[j]] = None
           PROVE  new.tbl[Topic(j)] # None /\ new.tbl[Topic(j)].c = roots[j]
      <3>1. CASE j = i
        BY <2>5, <3>1 DEF c, s
      <3>2. CASE j # i
        <4>1. roots[j] # r /\ roots[j] \in C
          BY <1>2, <2>4, <2>6, <2>10
        <4>2. g.tbl[Topic(j)] # None /\ g.tbl[Topic(j)].c = roots[j]
          BY <1>3, <1>4, <2>4, <2>10, <3>2, <4>1
        <4>3. Topic(j) \in Subjects
          <5>1. forest.msg[roots[j]] \in DOMAIN mail
            BY <1>2 DEF Forests
          <5>. QED
            BY <2>10, <5>1, MessageTypes DEF Topic
        <4>4. Topic(j) # s
          BY <4>1, <4>2 DEF r
        <4>. QED
          BY <2>5, <4>2, <4>3, <4>4
      <3>. QED
        BY <3>1, <3>2
    <2>. QED
      BY <1>3, <2>4, <2>7, <2>8, <2>9, <2>10 DEF Settled
  <1>. QED
    BY <1>6, <1>9, <1>10, <1>11, <1>12 DEF Visited

LEMMA SetToSeqIs ==
    ASSUME NEW S \in SUBSET C, NEW s, s = TH!SetToSeq(S)
    PROVE  /\ s \in Seq(C) /\ Distinct(s)
           /\ \A i \in DOMAIN s : s[i] \in S
           /\ \A c \in S : \E i \in DOMAIN s : s[i] = c
  <1>. DEFINE P(u) == u \in [1..Cardinality(S) -> S] /\ TH!IsInjective(u)
  <1>1. IsFiniteSet(S)
    BY ContainersFinite, FS_Subset
  <1>2. PICK b : b \in Bijection(1..Cardinality(S), S)
    BY <1>1, FS_CardinalityType DEF ExistsBijection
  <1>3. P(b)
    BY <1>2 DEF Bijection, Injection, IsInjective, TH!IsInjective
  <1>4. s = CHOOSE u : P(u)
    BY SameCardinality DEF TH!SetToSeq
  <1>5. P(s)
    <2>. HIDE DEF P
    <2>. QED
      BY <1>3, <1>4
  <1>6. s \in [1..Cardinality(S) -> S] /\ \A i, j \in DOMAIN s : s[i] = s[j] => i = j
    BY <1>5 DEF TH!IsInjective
  <1>. QED
    BY <1>6, OrderIs

(* One list behind another that has none of its members.                   *)
Joined(r, a, b) ==
    /\ r \in Seq(C) /\ Distinct(r)
    /\ \A i \in DOMAIN r : \/ \E j \in DOMAIN a : r[i] = a[j]
                           \/ \E j \in DOMAIN b : r[i] = b[j]
    /\ \A j \in DOMAIN a : \E i \in DOMAIN r : r[i] = a[j]
    /\ \A j \in DOMAIN b : \E i \in DOMAIN r : r[i] = b[j]

LEMMA JoinedIs ==
    ASSUME NEW a \in Seq(C), NEW b \in Seq(C), Distinct(a), Distinct(b),
           \A i \in DOMAIN a : \A j \in DOMAIN b : a[i] # b[j]
    PROVE  Joined(a \o b, a, b)
  <1>. DEFINE r == a \o b
  <1>. DEFINE m == Len(a)
              n == Len(b)
  <1>1. /\ r \in Seq(C) /\ m \in Nat /\ n \in Nat
        /\ DOMAIN r = 1..(m + n) /\ DOMAIN a = 1..m /\ DOMAIN b = 1..n
        /\ \A i \in 1..m : r[i] = a[i]
        /\ \A i \in (m + 1)..(m + n) : r[i] = b[i - m] /\ i - m \in 1..n
    OBVIOUS
  <1>. HIDE DEF m, n, r
  <1>2. \A i \in DOMAIN r : (i \in DOMAIN a /\ r[i] = a[i])
                               \/ (i \in (m + 1)..(m + n) /\ i - m \in DOMAIN b /\ r[i] = b[i - m])
    BY <1>1
  <1>3. ASSUME NEW i \in DOMAIN r, NEW j \in DOMAIN r, i # j
        PROVE  r[i] # r[j]
    <2>1. CASE (i \in DOMAIN a /\ r[i] = a[i]) /\ (j \in DOMAIN a /\ r[j] = a[j])
      BY <1>3, <2>1 DEF Distinct
    <2>2. CASE /\ i \in (m + 1)..(m + n) /\ i - m \in DOMAIN b /\ r[i] = b[i - m]
               /\ j \in (m + 1)..(m + n) /\ j - m \in DOMAIN b /\ r[j] = b[j - m]
      <3>1. i - m # j - m
        BY <1>1, <1>3, <2>2
      <3>. QED
        BY <2>2, <3>1 DEF Distinct
    <2>. QED
      BY <1>2, <2>1, <2>2
  <1>4. ASSUME NEW j \in DOMAIN b
        PROVE  \E i \in DOMAIN r : r[i] = b[j]
    <2>1. m + j \in DOMAIN r /\ m + j \in (m + 1)..(m + n) /\ (m + j) - m = j
      BY <1>1
    <2>. QED
      BY <1>1, <2>1
  <1>5. \A j \in DOMAIN a : j \in DOMAIN r /\ r[j] = a[j]
    BY <1>1
  <1>6. Joined(r, a, b)
    BY <1>1, <1>2, <1>3, <1>4, <1>5 DEF Joined, Distinct
  <1>. QED
    BY <1>6 DEF r

(* Nothing of a complete list is pruned. *)
LEMMA CompleteUnpruned ==
    ASSUME forest \in Forests, Gathered
    PROVE  /\ TH!PrunedChildren = forest.children
           /\ \A kids : TH!Pruned(roots, kids) = roots
  <1>1. /\ Families(forest) /\ forest.children \in [C -> Seq(C)]
        /\ roots \in Seq(C) /\ \A i \in DOMAIN roots : forest.msg[roots[i]] # None
    BY DEF Gathered, Trees, Forests
  <1>2. \A kids : TH!Pruned(roots, kids) = roots
    BY <1>1, PrunedSame
  <1>3. ASSUME NEW c \in C, NEW kids
        PROVE  TH!Pruned(forest.children[c], kids) = forest.children[c]
    <2>. DEFINE cs == forest.children[c]
    <2>1. cs \in Seq(C)
      BY <1>1
    <2>2. ASSUME NEW i \in DOMAIN cs
          PROVE  forest.msg[cs[i]] # None
      <3>1. cs[i] \in C /\ forest.parent[cs[i]] = c /\ c # None
        BY <1>1, <2>1, ContainersFinite DEF Families
      <3>. QED
        BY <3>1 DEF Gathered, Trees
    <2>. HIDE DEF cs
    <2>3. TH!Pruned(cs, kids) = cs
      BY <2>1, <2>2, PrunedSame
    <2>. QED
      BY <2>3 DEF cs
  <1>4. TH!PrunedChildren \in [C -> Seq(C)]
    BY <1>1, PrunedChildrenBroods DEF Broods
  <1>5. ASSUME NEW c \in C
        PROVE  TH!PrunedChildren[c] = forest.children[c]
    <2>1. PICK kids : TH!PrunedChildren = [x \in C |-> TH!Pruned(forest.children[x], kids)]
      BY <1>1, PrunedChildrenBroods
    <2>. QED
      BY <1>3, <2>1
  <1>. QED
    BY <1>1, <1>2, <1>4, <1>5

LEMMA SettledAll ==
    ASSUME mail \in Lists, forest \in Forests, Gathered,
           NEW g, g = TH!GroupedRoots(forest, roots)
    PROVE  g \in Groupings /\ Settled(g, Len(roots))
  <1>. DEFINE L == Len(roots)
              start == [f |-> forest, tbl |-> [s \in Subjects |-> None]]
              good == {q \in (0..L) \X Groupings : Settled(q[2], q[1])}
  <1>1. /\ roots \in Seq(C) /\ L \in Nat /\ DOMAIN roots = 1..L
        /\ Acyclic(forest.parent)
    BY DEF Gathered, Trees, Families
  <1>2. <<0, start>> \in good
    <2>1. start \in Groupings
      BY DEF Groupings, Tables
    <2>2. start.f = forest /\ \A s \in Subjects : start.tbl[s] = None
      OBVIOUS
    <2>. HIDE DEF start
    <2>3. Settled(start, 0)
      BY <1>1, <2>2 DEF Settled, Gathered
    <2>. QED
      BY <1>1, <2>1, <2>3
  <1>3. ASSUME NEW i \in DOMAIN roots, NEW h \in Groupings, <<i - 1, h>> \in good
        PROVE  <<i, TH!Grouped(h, roots[i])>> \in good
    <2>1. Settled(h, i - 1) /\ roots[i] \in C /\ i \in 0..L
      BY <1>1, <1>3
    <2>2. Settled(TH!Grouped(h, roots[i]), i)
      BY <2>1, SettledKeeps
    <2>3. TH!Grouped(h, roots[i]) \in Groupings
      BY <2>1, GroupedType
    <2>. QED
      BY <2>1, <2>2, <2>3
  <1>4. g \in Groupings /\ <<L, g>> \in good
    <2>. HIDE DEF good
    <2>. QED
      BY <1>1, <1>2, <1>3, GroupedRootsIn
  <1>. QED
    BY <1>4

LEMMA GroupShows ==
    ASSUME ThreadsInv, CompleteInv, TH!Group
    PROVE  CompleteInv'
  <1>. DEFINE g == TH!GroupedRoots(forest, roots)
              top(h) == {c \in C : h.f.parent[c] = None}
              entries(h) == {h.tbl[s].c : s \in {t \in Subjects : h.tbl[t] # None}} \cap top(h)
              rest(h) == {c \in top(h) : h.f.msg[c] = None \/ mail[h.f.msg[c]].subject = None}
              merged == entries(g)
              T == rest(g)
              unnamed == TH!Among(roots, T)
              first == TH!SetToSeq(merged)
  <1>1. stage = "group" /\ stage' = "done" /\ mail' = mail
    BY DEF TH!Group
  <1>2. TH!Complete' <=> TH!Complete
    BY <1>1 DEF TH!Complete
  <1>3. SUFFICES ASSUME TH!Complete PROVE Gathered'
    BY <1>1, <1>2 DEF CompleteInv
  <1>4. mail \in Lists /\ forest \in Forests /\ Gathered
    BY <1>1, <1>3 DEF ThreadsInv, CompleteInv
  <1>5. forest' = g.f /\ roots' = first \o unnamed
    <2>1. TH!PrunedChildren = forest.children /\ \A kids : TH!Pruned(roots, kids) = roots
      BY <1>4, CompleteUnpruned
    <2>. DEFINE f == [forest EXCEPT !.children = TH!PrunedChildren]
                ks == TH!Pruned(roots, f.children)
                h == TH!GroupedRoots(f, ks)
    <2>2. f = forest /\ ks = roots
      BY <1>4, <2>1 DEF Forests
    <2>3. forest' = h.f /\ roots' = TH!SetToSeq(entries(h)) \o TH!Among(ks, rest(h))
      BY DEF TH!Group, C
    <2>. HIDE DEF entries, rest, f, ks
    <2>4. h = g
      BY <2>2
    <2>. HIDE DEF h, g
    <2>. QED
      BY <2>2, <2>3, <2>4
  <1>6. g \in Groupings /\ Settled(g, Len(roots))
    BY <1>4, SettledAll
  <1>. HIDE DEF g
  <1>7. /\ roots \in Seq(C) /\ Len(roots) \in Nat /\ DOMAIN roots = 1..Len(roots)
        /\ Distinct(roots)
        /\ \A i \in DOMAIN roots : roots[i] \in C /\ forest.msg[roots[i]] # None
        /\ \A c \in C : forest.msg[c] # None /\ forest.parent[c] = None =>
              \E i \in DOMAIN roots : roots[i] = c
    BY <1>4 DEF Gathered
  <1>8. /\ Trees(g.f) /\ g.f.msg = forest.msg
        /\ \A c \in C : g.f.parent[c] = None => forest.parent[c] = None
        /\ \A s \in Subjects : g.tbl[s] # None =>
              /\ g.f.parent[g.tbl[s].c] = None
              /\ \E j \in DOMAIN roots : roots[j] = g.tbl[s].c /\ Topic(j) = s
        /\ \A j \in DOMAIN roots : Topic(j) # None /\ g.f.parent[roots[j]] = None =>
              g.tbl[Topic(j)] # None /\ g.tbl[Topic(j)].c = roots[j]
    BY <1>6, <1>7 DEF Settled
  <1>9. ASSUME NEW j \in DOMAIN roots
        PROVE  Topic(j) \in Subjects \cup {None}
    <2>1. forest.msg[roots[j]] \in DOMAIN mail
      BY <1>4, <1>7 DEF Forests
    <2>. QED
      BY <1>4, <2>1, MessageTypes DEF Topic
  <1>10. ASSUME NEW c \in merged
         PROVE  /\ g.f.parent[c] = None
                /\ \E j \in DOMAIN roots : roots[j] = c /\ Topic(j) # None
    <2>1. PICK s \in Subjects : g.tbl[s] # None /\ c = g.tbl[s].c
      OBVIOUS
    <2>2. s # None
      BY ThreadsAssumption
    <2>. QED
      BY <1>8, <2>1, <2>2
  <1>11. merged \in SUBSET C
    OBVIOUS
  <1>12. /\ first \in Seq(C) /\ Distinct(first)
         /\ \A i \in DOMAIN first : first[i] \in merged
         /\ \A c \in merged : \E i \in DOMAIN first : first[i] = c
    <2>. HIDE DEF merged, entries
    <2>. QED
      BY <1>11, SetToSeqIs
  <1>13. /\ unnamed \in Seq(C) /\ Distinct(unnamed)
         /\ \A i \in DOMAIN unnamed :
               unnamed[i] \in T /\ \E j \in DOMAIN roots : unnamed[i] = roots[j]
         /\ \A j \in DOMAIN roots : roots[j] \in T =>
               \E i \in DOMAIN unnamed : unnamed[i] = roots[j]
    <2>. HIDE DEF T
    <2>1. unnamed \in Seq(C) /\ Picked(unnamed, roots, T, Len(roots))
      BY <1>7, AmongIs
    <2>. HIDE DEF unnamed
    <2>. QED
      BY <1>7, <2>1 DEF Picked
  <1>14. ASSUME NEW c \in T, c \in merged
         PROVE  FALSE
    <2>1. PICK j \in DOMAIN roots : roots[j] = c /\ Topic(j) # None
      BY <1>10, <1>14
    <2>2. g.f.msg[c] # None /\ mail[g.f.msg[c]].subject = Topic(j)
      BY <1>7, <1>8, <2>1 DEF Topic
    <2>. QED
      BY <2>1, <2>2
  <1>15. ASSUME NEW c \in C, g.f.msg[c] # None, g.f.parent[c] = None
         PROVE  c \in merged \/ (c \in T /\ \E j \in DOMAIN roots : roots[j] = c)
    <2>1. PICK j \in DOMAIN roots : roots[j] = c
      BY <1>7, <1>8, <1>15
    <2>2. CASE Topic(j) = None
      BY <1>8, <1>15, <2>1, <2>2 DEF Topic
    <2>3. CASE Topic(j) # None
      <3>1. Topic(j) \in Subjects /\ g.tbl[Topic(j)] # None /\ g.tbl[Topic(j)].c = c
        BY <1>8, <1>9, <1>15, <2>1, <2>3
      <3>. QED
        BY <1>15, <3>1
    <2>. QED
      BY <2>2, <2>3
  <1>16. \A c \in T : g.f.parent[c] = None
    OBVIOUS
  <1>. HIDE DEF entries, rest, merged, T, first, unnamed
  <1>17. Joined(roots', first, unnamed)
    <2>1. \A i \in DOMAIN first : \A j \in DOMAIN unnamed : first[i] # unnamed[j]
      BY <1>12, <1>13, <1>14
    <2>2. /\ first \in Seq(C) /\ Distinct(first)
          /\ unnamed \in Seq(C) /\ Distinct(unnamed)
      BY <1>12, <1>13
    <2>3. Joined(first \o unnamed, first, unnamed)
      BY <2>1, <2>2, JoinedIs
    <2>. QED
      BY <1>5, <2>3
  <1>18. ASSUME NEW i \in DOMAIN roots'
         PROVE  g.f.msg[roots'[i]] # None /\ g.f.parent[roots'[i]] = None
    <2>1. CASE \E j \in DOMAIN first : roots'[i] = first[j]
      <3>1. PICK j \in DOMAIN first : roots'[i] = first[j]
        BY <2>1
      <3>2. first[j] \in merged
        BY <1>12
      <3>3. /\ g.f.parent[first[j]] = None
            /\ \E k \in DOMAIN roots : roots[k] = first[j]
        BY <1>10, <3>2
      <3>. QED
        BY <1>7, <1>8, <3>1, <3>3
    <2>2. CASE \E j \in DOMAIN unnamed : roots'[i] = unnamed[j]
      <3>1. PICK j \in DOMAIN unnamed : roots'[i] = unnamed[j]
        BY <2>2
      <3>2. unnamed[j] \in T /\ \E k \in DOMAIN roots : unnamed[j] = roots[k]
        BY <1>13
      <3>. QED
        BY <1>7, <1>8, <1>16, <3>1, <3>2
    <2>. QED
      BY <1>17, <2>1, <2>2 DEF Joined
  <1>19. ASSUME NEW c \in C, g.f.msg[c] # None, g.f.parent[c] = None
         PROVE  \E i \in DOMAIN roots' : roots'[i] = c
    BY <1>12, <1>13, <1>15, <1>17, <1>19 DEF Joined
  <1>20. Trees(forest)'
    BY <1>1, <1>5, <1>8, TreesSame
  <1>. QED
    BY <1>5, <1>17, <1>18, <1>19, <1>20 DEF Gathered, Joined, Distinct

(* The containers of a thread, level by level. *)
Levels(sub, r, n) ==
    /\ sub \in [0..n -> SUBSET C]
    /\ sub[0] = {r}
    /\ \A i \in 1..n :
          sub[i] = sub[i - 1] \cup UNION {TH!ToSet(forest.children[x]) : x \in sub[i - 1]}

LEMMA BelowIs ==
    ASSUME forest.children \in [C -> Seq(C)], NEW r \in C,
           NEW N \in Nat, N = Cardinality(C)
    PROVE  \E sub : Levels(sub, r, N) /\ TH!Below(r) = sub[N]
  <1>. DEFINE S == SUBSET C
              start == {r}
              wider(A) == A \cup UNION {TH!ToSet(forest.children[x]) : x \in A}
              h == [q \in (1..N) \X S |-> wider(q[2])]
              P(u) == u = [n \in 0..N |-> IF n = 0 THEN {r} ELSE wider(u[n - 1])]
  <1>1. ASSUME NEW A \in S
        PROVE  wider(A) \in S
    <2>1. ASSUME NEW x \in A
          PROVE  TH!ToSet(forest.children[x]) \subseteq C
      <3>1. forest.children[x] \in Seq(C)
        OBVIOUS
      <3>. QED
        BY <3>1 DEF TH!ToSet
    <2>. QED
      BY <2>1
  <1>2. Stepping(h, N, S) /\ start \in S
    <2>. HIDE DEF wider, S
    <2>1. start \in S
      BY DEF S
    <2>. QED
      BY <1>1, <2>1 DEF Stepping
  <1>3. PICK g : Stepped(g, start, h, N, S)
    <2>. HIDE DEF h, S, start
    <2>. QED
      BY <1>2, Recursion
  <1>4. /\ g \in [0..N -> S] /\ g[0] = {r}
        /\ \A i \in 1..N : g[i] = wider(g[i - 1])
    <2>1. g \in [0..N -> S] /\ g[0] = {r} /\ \A i \in 1..N : g[i] = h[<<i, g[i - 1]>>]
      BY <1>3 DEF Stepped
    <2>2. ASSUME NEW i \in 1..N
          PROVE  g[i] = wider(g[i - 1])
      <3>1. i - 1 \in 0..N
        OBVIOUS
      <3>2. g[i - 1] \in S
        <4>. HIDE DEF S
        <4>. QED
          BY <2>1, <3>1
      <3>. HIDE DEF wider, S
      <3>. QED
        BY <2>1, <3>2
    <2>. QED
      BY <2>1, <2>2
  <1>5. P(g)
    <2>1. \A i \in 0..N : i = 0 \/ i \in 1..N
      OBVIOUS
    <2>2. \A i \in 1..N : i # 0
      OBVIOUS
    <2>. HIDE DEF wider
    <2>. QED
      BY <1>4, <2>1, <2>2
  <1>6. TH!Below(r) = (CHOOSE u : P(u))[N]
    BY SameCardinality DEF TH!Below, TH!Depth, C
  <1>. DEFINE u == CHOOSE v : P(v)
  <1>7. P(u)
    <2>. HIDE DEF P
    <2>. QED
      BY <1>5
  <1>. HIDE DEF u
  <1>8. u[0] = {r} /\ \A i \in 1..N : u[i] = wider(u[i - 1])
    <2>1. 0 \in 0..N /\ \A i \in 1..N : i \in 0..N /\ i # 0
      OBVIOUS
    <2>2. \A i \in 0..N : u[i] = IF i = 0 THEN {r} ELSE wider(u[i - 1])
      BY <1>7
    <2>. HIDE DEF wider
    <2>. QED
      BY <2>1, <2>2
  <1>9. \A i \in 0..N : u[i] = g[i]
    <2>. HIDE DEF wider
    <2>. DEFINE good == {i \in 0..N : u[i] = g[i]}
    <2>0. u[0] = g[0]
      BY <1>4, <1>8, Zenon
    <2>1. 0 \in good
      BY <2>0
    <2>2. \A i \in 1..N : i - 1 \in good => i \in good
      BY <1>4, <1>8
    <2>. HIDE DEF good
    <2>3. \A i \in 0..N : i \in good
      BY <2>1, <2>2, Steps
    <2>. QED
      BY <2>3 DEF good
  <1>10. Levels(g, r, N)
    <2>1. \A i \in 1..N : g[i] = g[i - 1] \cup
             UNION {TH!ToSet(forest.children[x]) : x \in g[i - 1]}
      BY <1>4
    <2>. QED
      BY <1>4, <2>1, Zenon DEF Levels
  <1>11. TH!Below(r) = g[N]
    <2>1. N \in 0..N
      OBVIOUS
    <2>2. TH!Below(r) = u[N]
      BY <1>6 DEF u
    <2>. QED
      BY <1>9, <2>1, <2>2
  <1>. QED
    BY <1>10, <1>11

(* A thread shows nothing that is not below its root. *)
LEMMA BelowUnder ==
    ASSUME Families(forest), NEW r \in C
    PROVE  TH!Below(r) \subseteq Under(forest.parent, r)
  <1>. DEFINE N == Cardinality(C)
              U == Under(forest.parent, r)
  <1>1. N \in Nat
    BY ContainersFinite, FS_CardinalityType
  <1>2. /\ forest.parent \in Parents /\ forest.children \in [C -> Seq(C)]
    BY DEF Families
  <1>3. r \in U /\ U \subseteq C /\ Down(forest.parent, U)
    BY <1>2, UnderIs
  <1>. HIDE DEF N
  <1>4. PICK sub : Levels(sub, r, N) /\ TH!Below(r) = sub[N]
    BY <1>1, <1>2, BelowIs DEF N
  <1>5. /\ sub \in [0..N -> SUBSET C] /\ sub[0] = {r}
        /\ \A i \in 1..N : sub[i] = sub[i - 1] \cup
              UNION {TH!ToSet(forest.children[x]) : x \in sub[i - 1]}
    BY <1>4 DEF Levels
  <1>. HIDE DEF U
  <1>6. ASSUME NEW x \in U
        PROVE  TH!ToSet(forest.children[x]) \subseteq U
    <2>1. ASSUME NEW i \in DOMAIN forest.children[x]
          PROVE  forest.children[x][i] \in U
      <3>1. x \in C /\ forest.children[x] \in Seq(C)
        BY <1>2, <1>3
      <3>2. forest.children[x][i] \in C /\ forest.parent[forest.children[x][i]] = x
        BY <3>1 DEF Families
      <3>. QED
        BY <1>3, <3>2 DEF Down
    <2>. QED
      BY <2>1 DEF TH!ToSet
  <1>. DEFINE good == {i \in 0..N : sub[i] \subseteq U}
  <1>7. 0 \in good
    BY <1>1, <1>3, <1>5
  <1>8. ASSUME NEW i \in 1..N, i - 1 \in good
        PROVE  i \in good
    <2>1. sub[i - 1] \subseteq U
      BY <1>8
    <2>2. UNION {TH!ToSet(forest.children[x]) : x \in sub[i - 1]} \subseteq U
      BY <1>6, <2>1
    <2>. QED
      BY <1>5, <2>1, <2>2
  <1>9. N \in good
    <2>. HIDE DEF good
    <2>1. \A i \in 0..N : i \in good
      BY <1>1, <1>7, <1>8, Steps
    <2>. QED
      BY <1>1, <2>1
  <1>. QED
    BY <1>4, <1>9 DEF U

(* Every container is shown below one without a parent. *)
LEMMA TopShows ==
    ASSUME Families(forest), Whole(forest), NEW x \in C,
           NEW A \in SUBSET C, Closed(forest.parent, A), x \in A
    PROVE  \E t \in A : forest.parent[t] = None /\ x \in TH!Below(t)
  <1>. DEFINE N == Cardinality(C)
              up == TH!Above(forest, x)
              ends == {n \in 0..N : up[n] = None}
  <1>1. N \in Nat
    BY ContainersFinite, FS_CardinalityType
  <1>2. /\ forest.parent \in Parents /\ Acyclic(forest.parent)
        /\ forest.children \in [C -> Seq(C)]
    BY DEF Families
  <1>. HIDE DEF N
  <1>3. /\ up \in [0..N -> C \cup {None}] /\ up[0] = x
        /\ \A i \in 1..N : up[i] = IF up[i - 1] = None THEN None
                                   ELSE forest.parent[up[i - 1]]
        /\ up[N] = None
    BY <1>1, <1>2, AboveIs, UpEnds, ContainersFinite DEF N, Parents
  <1>. HIDE DEF up
  <1>4. PICK n \in ends : \A j \in ends : n <= j
    <2>1. ends \in SUBSET Nat /\ ends # {}
      BY <1>1, <1>3
    <2>. HIDE DEF ends
    <2>. QED
      BY <2>1, LeastNumber
  <1>5. n \in 1..N /\ up[n] = None
    BY <1>1, <1>3, <1>4, ContainersFinite
  <1>6. \A k \in 0..(n - 1) : up[k] # None
    BY <1>1, <1>4, <1>5
  <1>7. \A k \in 0..(n - 1) : up[k] \in A
    <2>. DEFINE good == {k \in 0..(n - 1) : up[k] \in A}
    <2>1. 0 \in good
      BY <1>3, <1>5
    <2>2. ASSUME NEW k \in 1..(n - 1), k - 1 \in good
          PROVE  k \in good
      <3>1. /\ k \in 1..N /\ up[k - 1] \in A /\ up[k - 1] # None /\ up[k] # None
            /\ k \in 0..(n - 1)
        BY <1>1, <1>5, <1>6, <2>2
      <3>2. up[k] = forest.parent[up[k - 1]]
        BY <1>3, <3>1
      <3>. QED
        BY <3>1, <3>2 DEF Closed
    <2>. HIDE DEF good
    <2>3. \A k \in 0..(n - 1) : k \in good
      BY <1>5, <2>1, <2>2, Steps
    <2>. QED
      BY <2>3 DEF good
  <1>. DEFINE t == up[n - 1]
  <1>8. t \in A /\ t \in C /\ forest.parent[t] = None
    <2>1. n - 1 \in 0..(n - 1)
      BY <1>5
    <2>. QED
      BY <1>3, <1>5, <1>6, <1>7, <2>1
  <1>9. PICK sub : Levels(sub, t, N) /\ TH!Below(t) = sub[N]
    <2>. HIDE DEF t
    <2>. QED
      BY <1>1, <1>2, <1>8, BelowIs DEF N
  <1>10. /\ sub[0] = {t}
         /\ \A i \in 1..N : sub[i] = sub[i - 1] \cup
               UNION {TH!ToSet(forest.children[y]) : y \in sub[i - 1]}
    BY <1>9 DEF Levels
  <1>11. \A k \in 0..(n - 1) : up[(n - 1) - k] \in sub[k]
    <2>. DEFINE good == {k \in 0..(n - 1) : up[(n - 1) - k] \in sub[k]}
    <2>1. 0 \in good
      BY <1>5, <1>10
    <2>2. ASSUME NEW k \in 1..(n - 1), k - 1 \in good
          PROVE  k \in good
      <3>. DEFINE a == (n - 1) - k
                  c == up[a]
                  p == up[a + 1]
      <3>1. /\ a \in 0..(n - 1) /\ a + 1 \in 0..(n - 1) /\ a + 1 \in 1..N /\ (a + 1) - 1 = a
            /\ (n - 1) - (k - 1) = a + 1 /\ k \in 1..N /\ k \in 0..(n - 1)
        BY <1>1, <1>5
      <3>2. p \in sub[k - 1]
        BY <2>2, <3>1
      <3>. HIDE DEF a
      <3>3. c # None /\ p # None /\ c \in C /\ p \in C
        BY <1>6, <1>7, <3>1
      <3>4. p = forest.parent[c]
        BY <1>3, <3>1, <3>3
      <3>5. c \in TH!ToSet(forest.children[p])
        BY <3>3, <3>4 DEF Whole, TH!ToSet
      <3>. HIDE DEF c, p
      <3>6. c \in sub[k]
        BY <1>10, <3>1, <3>2, <3>5
      <3>. QED
        BY <3>1, <3>6 DEF a, c
    <2>. HIDE DEF good
    <2>3. \A k \in 0..(n - 1) : k \in good
      BY <1>5, <2>1, <2>2, Steps
    <2>. QED
      BY <2>3 DEF good
  <1>12. x \in sub[n - 1]
    <2>1. n - 1 \in 0..(n - 1) /\ (n - 1) - (n - 1) = 0
      BY <1>5
    <2>. QED
      BY <1>3, <1>11, <2>1
  <1>13. \A k \in 0..(N - (n - 1)) : x \in sub[(n - 1) + k]
    <2>. DEFINE good == {k \in 0..(N - (n - 1)) : x \in sub[(n - 1) + k]}
    <2>1. 0 \in good
      BY <1>1, <1>5, <1>12
    <2>2. ASSUME NEW k \in 1..(N - (n - 1)), k - 1 \in good
          PROVE  k \in good
      <3>1. /\ (n - 1) + k \in 1..N /\ ((n - 1) + k) - 1 = (n - 1) + (k - 1)
            /\ k \in 0..(N - (n - 1))
        BY <1>1, <1>5
      <3>2. x \in sub[((n - 1) + k) - 1]
        BY <2>2, <3>1
      <3>3. x \in sub[(n - 1) + k]
        BY <1>10, <3>1, <3>2
      <3>. QED
        BY <3>1, <3>3
    <2>. HIDE DEF good
    <2>3. \A k \in 0..(N - (n - 1)) : k \in good
      BY <1>1, <1>5, <2>1, <2>2, Steps
    <2>. QED
      BY <2>3 DEF good
  <1>14. x \in sub[N]
    <2>1. N - (n - 1) \in 0..(N - (n - 1)) /\ (n - 1) + (N - (n - 1)) = N
      BY <1>1, <1>5
    <2>. QED
      BY <1>13, <2>1
  <1>. QED
    BY <1>8, <1>9, <1>14

LEMMA GatheredShows ==
    ASSUME mail \in Lists, forest \in Forests, TH!Complete, Gathered,
           NEW i \in DOMAIN mail
    PROVE  TH!Shown(i) = IF TH!Repeated(i) THEN 0 ELSE 1
  <1>. DEFINE x == HomeOf(i)
              places == {p \in (DOMAIN roots) \X C :
                           p[2] \in TH!Below(roots[p[1]]) /\ forest.msg[p[2]] = i}
  <1>1. TH!Shown(i) = Cardinality(places)
    BY SameCardinality DEF TH!Shown, C
  <1>2. /\ x \in C /\ mail[i].id # None /\ i \in Positions /\ i \in Nat \ {0}
        /\ None \notin DOMAIN mail /\ DOMAIN mail \subseteq Nat \ {0}
    <2>1. DOMAIN mail \subseteq Positions /\ mail \in Seq(TH!Message)
      BY ThreadsAssumption
    <2>2. DOMAIN mail \subseteq Nat \ {0}
      BY <2>1
    <2>. QED
      BY <2>1, <2>2, CompleteIs, ThreadsAssumption
  <1>3. /\ Families(forest) /\ Whole(forest)
        /\ forest.parent \in Parents /\ Acyclic(forest.parent)
        /\ \A c \in C : forest.msg[c] # None => c = HomeOf(forest.msg[c])
        /\ forest.msg[x] # None /\ forest.msg[x] <= i
        /\ \A c \in C : forest.parent[c] # None =>
              forest.msg[c] # None /\ forest.msg[forest.parent[c]] # None
    BY DEF Gathered, Trees, Families
  <1>4. /\ Distinct(roots)
        /\ \A p \in DOMAIN roots : roots[p] \in C /\ forest.parent[roots[p]] = None
        /\ \A c \in C : forest.msg[c] # None /\ forest.parent[c] = None =>
              \E p \in DOMAIN roots : roots[p] = c
    BY DEF Gathered
  <1>5. \A c \in C : forest.msg[c] = i => c = x
    BY <1>2, <1>3
  <1>. DEFINE m == forest.msg[x]
  <1>6. m \in DOMAIN mail /\ x = HomeOf(m) /\ mail[m].id = mail[i].id
    <2>1. m \in DOMAIN mail /\ x = HomeOf(m)
      BY <1>2, <1>3 DEF Forests
    <2>. QED
      BY <2>1 DEF HomeOf
  <1>. HIDE DEF x
  <1>7. CASE TH!Repeated(i)
    <2>1. PICK j \in 1..(i - 1) : mail[j].id = mail[i].id
      BY <1>7 DEF TH!Repeated
    <2>2. j \in DOMAIN mail /\ j < i
      <3>1. mail \in Seq(TH!Message)
        BY ThreadsAssumption
      <3>. QED
        BY <1>2, <3>1
    <2>3. HomeOf(j) = x
      BY <2>1 DEF HomeOf, x
    <2>4. forest.msg[x] <= j
      BY <2>2, <2>3 DEF Gathered, Trees
    <2>5. forest.msg[x] # i
      BY <1>2, <1>6, <2>2, <2>4
    <2>6. places = {}
      BY <1>5, <2>5
    <2>. QED
      BY <1>1, <1>7, <2>6, FS_EmptySet
  <1>8. CASE ~TH!Repeated(i)
    <2>1. m = i
      <3>1. m \in Nat \ {0} /\ i \in Nat /\ m <= i
        BY <1>2, <1>3, <1>6
      <3>2. m # i => m \in 1..(i - 1)
        BY <3>1
      <3>. QED
        BY <1>2, <1>6, <1>8, <3>2 DEF TH!Repeated
    <2>. DEFINE A == {c \in C : forest.msg[c] # None}
    <2>2. A \in SUBSET C /\ Closed(forest.parent, A) /\ x \in A
      <3>1. \A c \in A : forest.parent[c] \in C \cup {None}
        BY <1>3 DEF Parents
      <3>. QED
        BY <1>2, <1>3, <3>1 DEF Closed, x
    <2>3. PICK t \in A : forest.parent[t] = None /\ x \in TH!Below(t)
      <3>. HIDE DEF A
      <3>. QED
        BY <1>2, <1>3, <2>2, TopShows DEF x
    <2>4. PICK p \in DOMAIN roots : roots[p] = t
      BY <1>4, <2>3
    <2>5. <<p, x>> \in places
      BY <1>2, <2>1, <2>3, <2>4 DEF x
    <2>6. ASSUME NEW q \in places
          PROVE  q = <<p, x>>
      <3>1. q[1] \in DOMAIN roots /\ q[2] = x /\ x \in TH!Below(roots[q[1]])
            /\ q = <<q[1], q[2]>>
        BY <1>5
      <3>. DEFINE r == roots[q[1]]
      <3>2. r \in C /\ forest.parent[r] = None /\ t \in C /\ forest.parent[t] = None
        BY <1>4, <2>3, <3>1
      <3>3. x \in Under(forest.parent, r) /\ x \in Under(forest.parent, t)
        BY <1>3, <2>3, <3>1, <3>2, BelowUnder
      <3>. HIDE DEF r
      <3>4. r = t
        BY <1>3, <3>2, <3>3, SiblingsApart
      <3>5. q[1] = p
        BY <1>4, <2>4, <3>1, <3>4 DEF Distinct, r
      <3>. QED
        BY <3>1, <3>5
    <2>7. places = {<<p, x>>}
      <3>. HIDE DEF places
      <3>. QED
        BY <2>5, <2>6
    <2>. QED
      BY <1>1, <1>8, <2>7, FS_Singleton
  <1>. QED
    BY <1>7, <1>8

LEMMA ShownRest ==
    ASSUME CompleteInv, UNCHANGED threadVars
    PROVE  CompleteInv'
  <1>1. /\ mail' = mail /\ stage' = stage /\ forest' = forest /\ keys' = keys
        /\ roots' = roots /\ next' = next
    BY DEF threadVars
  <1>2. TH!Complete' <=> TH!Complete
    BY <1>1 DEF TH!Complete
  <1>3. SUFFICES ASSUME TH!Complete
        PROVE  /\ (stage = "link" => Linking(forest, next))'
               /\ (stage \in {"group", "done"} => Gathered)'
    BY <1>1, <1>2 DEF CompleteInv
  <1>4. ASSUME stage = "link"
        PROVE  Linking(forest, next)'
    <2>1. Linking(forest, next)
      BY <1>3, <1>4 DEF CompleteInv
    <2>. QED
      BY <1>1, <2>1 DEF Linking, Whole, Within, HomesOf, HomeOf, ListIds
  <1>5. ASSUME stage \in {"group", "done"}
        PROVE  Gathered'
    <2>1. Gathered
      BY <1>3, <1>5 DEF CompleteInv
    <2>2. Trees(forest)'
      BY <1>1, <2>1, TreesSame DEF Gathered
    <2>. QED
      BY <1>1, <2>1, <2>2 DEF Gathered, Distinct
  <1>. QED
    BY <1>1, <1>4, <1>5

LEMMA ShownInductive ==
    ASSUME ThreadsInv, CompleteInv, TH!Next \/ UNCHANGED threadVars
    PROVE  CompleteInv'
  <1>1. CASE UNCHANGED threadVars
    BY <1>1, ShownRest
  <1>2. CASE TH!Next
    <2>1. CASE TH!Link
      BY <2>1, LinkShows
    <2>2. CASE TH!Roots
      BY <2>2, RootsShows
    <2>3. CASE TH!Group
      BY <2>3, GroupShows
    <2>4. CASE TH!Finished
      BY <1>1, <2>4 DEF TH!Finished, TH!hvars, threadVars
    <2>. QED
      BY <1>2, <2>1, <2>2, <2>3, <2>4 DEF TH!Next
  <1>. QED
    BY <1>1, <1>2

(* ThreadMessages shows each message of a complete list in one place, if   *)
(* it is the first of its Message-ID, and in none otherwise: links, pruning*)
(* and the merging of equal subjects neither drop nor double a message.    *)
THEOREM CompleteListIsShown == MCSpec => []CompleteListShownOnce
  <1>. DEFINE Inv == ThreadsInv /\ CompleteInv
  <1>1. MCInit => Inv
    BY InitThreads, InitShows DEF MCInit
  <1>2. Inv /\ [MCNext]_<<part, vars, bookVars, calVars, sessionVars,
                          stagingVars, settingsVars, pushVars, threadVars>>
           => Inv'
    <2>1. ASSUME ThreadsInv, CompleteInv, MCNext
          PROVE  ThreadsInv' /\ CompleteInv'
      <3>1. TH!Next \/ UNCHANGED threadVars
        BY <2>1, Zenon DEF MCNext
      <3>. QED
        BY <2>1, <3>1, ThreadsInductive, ShownInductive
    <2>2. ASSUME ThreadsInv, CompleteInv, UNCHANGED threadVars
          PROVE  ThreadsInv' /\ CompleteInv'
      BY <2>2, ThreadsRest, ShownRest
    <2>. QED
      BY <2>1, <2>2
  <1>3. Inv => CompleteListShownOnce
    <2>1. ASSUME ThreadsInv, CompleteInv, stage = "done", TH!Complete, NEW i \in DOMAIN mail
          PROVE  TH!Shown(i) = IF TH!Repeated(i) THEN 0 ELSE 1
      <3>1. mail \in Lists /\ forest \in Forests /\ Gathered
        BY <2>1 DEF ThreadsInv, CompleteInv
      <3>. QED
        BY <2>1, <3>1, GatheredShows
    <2>. QED
      BY <2>1 DEF CompleteListShownOnce, TH!CompleteListShownOnce
  <1>. QED
    BY <1>1, <1>2, <1>3, PTL DEF MCSpec

----------------------------------------------------------------------------

(* Types: the roots are containers once they are gathered, and what is     *)
(* linked next is a message of the list or the end of it.                  *)
ListTypes ==
    /\ stage \in {"link", "group", "done"}
    /\ next \in {1} \cup {i + 1 : i \in Positions}
    /\ roots \in Seq(C)

LEMMA ListTypesNext ==
    ASSUME ThreadsInv, ListTypes, TH!Next \/ UNCHANGED threadVars
    PROVE  ListTypes'
  <1>1. CASE UNCHANGED threadVars
    BY <1>1 DEF threadVars, ListTypes
  <1>2. CASE TH!Link
    <2>1. mail \in Seq(TH!Message) /\ DOMAIN mail \subseteq Positions /\ next \in Nat \ {0}
      BY ThreadsAssumption DEF ThreadsInv
    <2>2. next <= Len(mail) /\ next' = next + 1 /\ UNCHANGED <<stage, roots>>
      BY <1>2 DEF TH!Link
    <2>3. next \in Positions
      BY <2>1, <2>2
    <2>. QED
      BY <2>2, <2>3 DEF ListTypes
  <1>3. CASE TH!Roots
    <2>1. ThreadsInv'
      BY <1>3, RootsKeeps
    <2>2. stage' = "group" /\ next' = next
      BY <1>3 DEF TH!Roots
    <2>. QED
      BY <2>1, <2>2 DEF ThreadsInv, ListTypes
  <1>4. CASE TH!Group
    <2>. DEFINE f == [forest EXCEPT !.children = TH!PrunedChildren]
                cs == TH!Pruned(roots, f.children)
                g == TH!GroupedRoots(f, cs)
                top == {c \in C : g.f.parent[c] = None}
                merged == {g.tbl[s].c : s \in {t \in Subjects : g.tbl[t] # None}} \cap top
                T == {c \in top : g.f.msg[c] = None \/ mail[g.f.msg[c]].subject = None}
    <2>1. stage' = "done" /\ next' = next /\ roots' = TH!SetToSeq(merged) \o TH!Among(cs, T)
      BY <1>4 DEF TH!Group, C
    <2>2. cs \in Seq(C)
      <3>1. /\ forest \in Forests /\ Families(forest) /\ Acyclic(forest.parent)
            /\ forest.parent \in Parents
            /\ roots \in Seq(C) /\ Distinct(roots)
            /\ \A i \in DOMAIN roots : forest.parent[roots[i]] = None
        BY <1>4 DEF TH!Group, ThreadsInv, Forests
      <3>2. Broods(forest.parent, TH!PrunedChildren)
        BY <3>1, PrunedChildrenBroods
      <3>3. f.children = TH!PrunedChildren
        BY <3>1 DEF Forests
      <3>4. Parted(forest.parent, roots)
        <4>1. \A i \in DOMAIN roots : roots[i] \in C
          BY <3>1
        <4>2. ASSUME NEW i \in DOMAIN roots, NEW j \in DOMAIN roots, i # j
              PROVE  Under(forest.parent, roots[i]) \cap Under(forest.parent, roots[j]) = {}
          <5>1. roots[i] # roots[j] /\ forest.parent[roots[i]] = forest.parent[roots[j]]
            BY <3>1, <4>2 DEF Distinct
          <5>. QED
            BY <3>1, <4>1, <5>1, SiblingsApart
        <4>. QED
          BY <4>2 DEF Parted
      <3>. HIDE DEF f
      <3>. QED
        BY <3>1, <3>2, <3>3, <3>4, PrunedParted
    <2>3. merged \subseteq C
      OBVIOUS
    <2>. HIDE DEF merged, cs, T
    <2>4. TH!SetToSeq(merged) \in Seq(C)
      BY <2>3, SetToSeqIs
    <2>5. TH!Among(cs, T) \in Seq(C)
      BY <2>2, AmongIs
    <2>. QED
      BY <2>1, <2>4, <2>5 DEF ListTypes
  <1>5. CASE TH!Finished
    BY <1>5 DEF TH!Finished, TH!hvars, ListTypes
  <1>. QED
    BY <1>1, <1>2, <1>3, <1>4, <1>5 DEF TH!Next

LEMMA ListTypesOK ==
    ASSUME ThreadsInv, ListTypes
    PROVE  TH!TypeOK
  <1>1. DOMAIN mail \subseteq Positions /\ forest \in Forests
    BY ThreadsAssumption DEF ThreadsInv
  <1>2. forest.msg \in [C -> Positions \cup {None}] /\ forest.parent \in [C -> C \cup {None}]
    BY <1>1 DEF Forests, Parents
  <1>3. ASSUME NEW c \in C PROVE TH!ToSet(forest.children[c]) \subseteq C
    <2>1. forest.children[c] \in Seq(C)
      BY <1>1 DEF Forests
    <2>. QED
      BY <2>1 DEF TH!ToSet
  <1>4. TH!ToSet(roots) \subseteq C
    BY DEF ListTypes, TH!ToSet
  <1>. QED
    BY <1>2, <1>3, <1>4 DEF ThreadsInv, ListTypes, TH!TypeOK, C

LEMMA ThreadsTyped == MCSpec => []TH!TypeOK
  <1>. DEFINE Inv == ThreadsInv /\ ListTypes
  <1>1. MCInit => Inv
    BY InitThreads DEF MCInit, TH!Init, ListTypes
  <1>2. Inv /\ [MCNext]_<<part, vars, bookVars, calVars, sessionVars,
                          stagingVars, settingsVars, pushVars, threadVars>>
           => Inv'
    <2>1. ASSUME ThreadsInv, ListTypes, MCNext
          PROVE  ThreadsInv' /\ ListTypes'
      <3>1. TH!Next \/ UNCHANGED threadVars
        BY <2>1, Zenon DEF MCNext
      <3>. QED
        BY <2>1, <3>1, ThreadsInductive, ListTypesNext
    <2>2. ASSUME ThreadsInv, ListTypes, UNCHANGED threadVars
          PROVE  ThreadsInv' /\ ListTypes'
      BY <2>2, ThreadsRest, ListTypesNext
    <2>. QED
      BY <2>1, <2>2
  <1>3. Inv => TH!TypeOK
    BY ListTypesOK
  <1>. QED
    BY <1>1, <1>2, <1>3, PTL DEF MCSpec

=============================================================================
