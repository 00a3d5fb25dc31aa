------------------------------ MODULE BimiCache ------------------------------
(***************************************************************************)
(* The brand logos of sender domains (handlers/api/bimi.go): a bounded     *)
(* cache in insertion order, looked up when a message is opened            *)
(* (handlers/jsonapi/bimi.go), filled by one background goroutine for each *)
(* domain at a time, or by the caller of Resolve.  The mutex is taken once *)
(* for each access, never over two.                                        *)
(***************************************************************************)
EXTENDS Naturals, Sequences, SequencesExt

CONSTANTS
    Domains,
    MaxEntries, \* bimiCacheMax
    Callers,
    None

VARIABLES
    cache,      \* [domain |-> "logo", "nothing" or "expired", or None]
    order,
    inflight,   \* domains marked as being warmed
    warm,       \* [domain |-> what its goroutine does, or None]
    caller      \* [caller |-> [pc, domain]]

bvars == <<cache, order, inflight, warm, caller>>

TypeOK ==
    /\ cache \in [Domains -> {"logo", "nothing", "expired", None}]
    /\ Len(order) <= MaxEntries /\ \A i \in DOMAIN order : order[i] \in Domains
    /\ inflight \subseteq Domains
    /\ warm \in [Domains -> {"resolve", "end", None}]
    /\ \A c \in Callers : caller[c] # None =>
          caller[c] \in [pc : {"missed", "resolve"}, domain : Domains]

Init ==
    /\ cache = [d \in Domains |-> None]
    /\ order = <<>>
    /\ inflight = {}
    /\ warm = [d \in Domains |-> None]
    /\ caller = [c \in Callers |-> None]

(* cacheGet *)
Hit(d) == cache[d] \in {"logo", "nothing"}

(* An eviction that comes one entry late. *)
OrderAfterLate(d) ==
    IF cache[d] # None THEN order
    ELSE Append(IF Len(order) > MaxEntries THEN Tail(order) ELSE order, d)

(* A put that appends the domain again. *)
OrderAppended(d) == Append(IF Len(order) >= MaxEntries THEN Tail(order) ELSE order, d)

(* cachePut: a domain the cache has keeps its place, expired or not.       *)
OrderAfter(d) ==
    IF cache[d] # None THEN order
    ELSE Append(IF Len(order) >= MaxEntries THEN Tail(order) ELSE order, d)

Evicted(d) == IF cache[d] = None /\ Len(order) >= MaxEntries THEN {Head(order)} ELSE {}

CachePut(d, result) ==
    /\ order' = OrderAfter(d)
    /\ cache' = [x \in Domains |-> IF x = d THEN result
                                   ELSE IF x \in Evicted(d) THEN None
                                   ELSE cache[x]]

(* ResolveCachedOrWarm and Resolve after a miss; a hit changes nothing.    *)
Open(c) ==
    /\ caller[c] = None
    /\ \E d \in Domains, pc \in {"missed", "resolve"} :
          /\ ~Hit(d)
          /\ caller' = [caller EXCEPT ![c] = [pc |-> pc, domain |-> d]]
    /\ UNCHANGED <<cache, order, inflight, warm>>

(* The cache is not looked at again under the mutex. *)
Mark(c) ==
    /\ caller[c] # None /\ caller[c].pc = "missed"
    /\ LET d == caller[c].domain IN
       IF d \in inflight
       THEN UNCHANGED <<inflight, warm>>
       ELSE /\ inflight' = inflight \cup {d}
            /\ warm' = [warm EXCEPT ![d] = "resolve"]
    /\ caller' = [caller EXCEPT ![c] = None]
    /\ UNCHANGED <<cache, order>>

Results == {"logo", "nothing"}

(* resolveUncached ends within six seconds, with a logo or nothing.        *)
Resolve(c) ==
    /\ caller[c] # None /\ caller[c].pc = "resolve"
    /\ \E result \in Results : CachePut(caller[c].domain, result)
    /\ caller' = [caller EXCEPT ![c] = None]
    /\ UNCHANGED <<inflight, warm>>

Warm(d) ==
    /\ warm[d] = "resolve"
    /\ \E result \in Results : CachePut(d, result)
    /\ warm' = [warm EXCEPT ![d] = "end"]
    /\ UNCHANGED <<inflight, caller>>

(* A goroutine that ends without taking its mark back. *)
WarmEndsMarked(d) ==
    /\ warm[d] = "end"
    /\ warm' = [warm EXCEPT ![d] = None]
    /\ UNCHANGED <<cache, order, inflight, caller>>

WarmEnds(d) ==
    /\ warm[d] = "end"
    /\ inflight' = inflight \ {d}
    /\ warm' = [warm EXCEPT ![d] = None]
    /\ UNCHANGED <<cache, order, caller>>

(* The time to live of an entry is over: it stays in the cache.            *)
Expire ==
    /\ \E d \in Domains : Hit(d) /\ cache' = [cache EXCEPT ![d] = "expired"]
    /\ UNCHANGED <<order, inflight, warm, caller>>

Next ==
    \/ \E c \in Callers : Open(c) \/ Mark(c) \/ Resolve(c)
    \/ \E d \in Domains : Warm(d) \/ WarmEnds(d)
    \/ Expire

Fairness == \A d \in Domains : WF_bvars(Warm(d)) /\ WF_bvars(WarmEnds(d))

Spec == Init /\ [][Next]_bvars /\ Fairness

(* The list of insertions has each cached domain once, and nothing else:   *)
(* what the bound evicts is what the map forgets, whoever resolves side by *)
(* side and whatever had expired.                                          *)
OrderIsTheCache ==
    /\ \A i, j \in DOMAIN order : order[i] = order[j] => i = j
    /\ ToSet(order) = {d \in Domains : cache[d] # None}

(* A domain is never marked for ever: a logo that could not be fetched is  *)
(* tried again once the answer has expired.                                *)
MarkIsTakenBack == \A d \in Domains : d \in inflight ~> d \notin inflight

=============================================================================
