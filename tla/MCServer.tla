------------------------------ MODULE MCServer ------------------------------
(***************************************************************************)
(* Small instances for TLC of what requests wait for in the server: the    *)
(* files of a user, the session files, the cache of brand logos and the    *)
(* connected accounts with their unified inbox.  As in MCRequests, a       *)
(* behaviour is one of the component `part'.                               *)
(***************************************************************************)
EXTENDS UserFiles

CONSTANTS
    Callers,                                    \* SessionStorage
    Domains, MaxEntries, Warmers,               \* BimiCache
    Emails, Primary, Quota, MaxFetches, MaxFaults   \* ConnectedAccounts

ASSUME BoundsAssumption ==
    /\ MaxEntries \in Nat \ {0}
    /\ Quota \in Nat \ {0} /\ MaxFetches \in Nat /\ MaxFaults \in Nat
    /\ IsFiniteSet(Emails)
    /\ None \notin {"logo", "nothing", "expired", "resolve", "end"}

VARIABLES
    part,
    file, call,                             \* SessionStorage
    cache, order, inflight, warm, caller,   \* BimiCache
    stored, areq, faults                    \* ConnectedAccounts

fileVars == <<file, call>>
bimiVars == <<cache, order, inflight, warm, caller>>
accountVars == <<stored, areq, faults>>

SS == INSTANCE SessionStorage

BC == INSTANCE BimiCache WITH Callers <- Warmers

CN == INSTANCE ConnectedAccounts

Parts == {"sessionFile", "files", "bimi", "accounts"}

MCInit ==
    /\ part \in Parts
    /\ Init /\ SS!Init /\ BC!Init /\ CN!Init

MCNext ==
    /\ UNCHANGED part
    /\ \/ part = "sessionFile" /\ SS!Next
       \/ part # "sessionFile" /\ UNCHANGED fileVars
    /\ \/ part = "files" /\ Next
       \/ part # "files" /\ UNCHANGED vars
    /\ \/ part = "bimi" /\ BC!Next
       \/ part # "bimi" /\ UNCHANGED bimiVars
    /\ \/ part = "accounts" /\ CN!Next
       \/ part # "accounts" /\ UNCHANGED accountVars

(* The fairness of a component that rests asks nothing: none of its steps  *)
(* is enabled in an initial state.                                         *)
MCSpec ==
    /\ MCInit
    /\ [][MCNext]_<<part, vars, fileVars, bimiVars, accountVars>>
    /\ SS!Fairness /\ Fairness /\ BC!Fairness /\ CN!Fairness

(* Every variable of every component has its type. *)
TypesOK ==
    /\ part = "sessionFile" => SS!TypeOK
    /\ part = "files" => TypeOK
    /\ part = "bimi" => BC!TypeOK
    /\ part = "accounts" => CN!TypeOK

(* The properties of the other components, stated in their modules.        *)

(* SessionStorage: only a Get that upgrades its lock stops the others.     *)
StuckOnlyByUpgrade == SS!StuckOnlyByUpgrade

(* BimiCache: the insertion order lists what the cache has.                *)
OrderIsTheCache == part = "bimi" => BC!OrderIsTheCache

(* BimiCache: a domain is not marked as being warmed for ever.             *)
MarkIsTakenBack == BC!MarkIsTakenBack

(* ConnectedAccounts: the quota is overshot by other requests and failed   *)
(* reads at most.                                                          *)
QuotaOvershoot == part = "accounts" => CN!QuotaOvershoot

(* ConnectedAccounts: no connected account keeps the unified list.         *)
UnifiedAnswers == CN!UnifiedAnswers

=============================================================================
