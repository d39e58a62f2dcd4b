----------------------------- MODULE ServerList -----------------------------
(***************************************************************************)
(* The cached list of Ookla servers near this host                         *)
(* (internal/engine/ookla/servers.go): requests share one list, the mutex  *)
(* is held while `speedtest -L` runs, and the settings pump drops the list *)
(* when an engine setting changes.                                         *)
(*                                                                         *)
(* A list is the number of the Invalidate calls that had returned when its *)
(* fetch began, and whether it is younger than the TTL.  Every operator    *)
(* begins with Sl.                                                         *)
(***************************************************************************)
EXTENDS Integers

CONSTANTS
    SlRequests,        \* requests; each may ask again
    SlNone,            \* no list, no holder
    SlMaxInvalidated   \* bound: calls of Invalidate

ASSUME SlBounds == SlMaxInvalidated \in Nat /\ SlNone \notin SlRequests

VARIABLES
    slMu,       \* who holds l.mu
    slCache,    \* l.cache and l.fetchedAt
    slPc,       \* the requests
    slFrom,     \* the generation a running fetch belongs to
    slGen,      \* history: calls of Invalidate that have returned
    slDropping  \* the pump is in Invalidate

slVars == <<slMu, slCache, slPc, slFrom, slGen, slDropping>>

SlInit ==
    /\ slMu = SlNone /\ slCache = SlNone
    /\ slPc = [r \in SlRequests |-> "idle"]
    /\ slFrom = [r \in SlRequests |-> 0]
    /\ slGen = 0 /\ slDropping = FALSE

(* GET /ookla/servers calls Servers. *)
SlAsk(r) ==
    /\ slPc[r] = "idle"
    /\ slPc' = [slPc EXCEPT ![r] = "lock"]
    /\ UNCHANGED <<slMu, slCache, slFrom, slGen, slDropping>>

SlFresh == slCache # SlNone /\ slCache.fresh

(* With the mutex: the cached list is served, or a fetch begins and the    *)
(* mutex stays held.                                                       *)
SlServers(r) ==
    /\ slPc[r] = "lock" /\ slMu = SlNone
    /\ IF SlFresh
       THEN slPc' = [slPc EXCEPT ![r] = "idle"] /\ UNCHANGED <<slMu, slFrom>>
       ELSE /\ slPc' = [slPc EXCEPT ![r] = "fetch"]
            /\ slMu' = r
            /\ slFrom' = [slFrom EXCEPT ![r] = slGen]
    /\ UNCHANGED <<slCache, slGen, slDropping>>

(* The command has ended; an error leaves the cache as it is. *)
SlFetched(r, ok) ==
    /\ slPc[r] = "fetch"
    /\ slPc' = [slPc EXCEPT ![r] = "idle"]
    /\ slCache' = IF ok THEN [gen |-> slFrom[r], fresh |-> TRUE] ELSE slCache
    /\ slMu' = SlNone
    /\ UNCHANGED <<slFrom, slGen, slDropping>>

(* The TTL passes. *)
SlExpire ==
    /\ SlFresh
    /\ slCache' = [gen |-> slCache.gen, fresh |-> FALSE]
    /\ UNCHANGED <<slMu, slPc, slFrom, slGen, slDropping>>

SlInvalidate ==
    /\ ~slDropping /\ slGen < SlMaxInvalidated
    /\ slDropping' = TRUE
    /\ UNCHANGED <<slMu, slCache, slPc, slFrom, slGen>>

SlInvalidated ==
    /\ slDropping /\ slMu = SlNone
    /\ slDropping' = FALSE /\ slGen' = slGen + 1
    /\ slCache' = SlNone
    /\ UNCHANGED <<slMu, slPc, slFrom>>

SlNext ==
    \/ SlExpire \/ SlInvalidate \/ SlInvalidated
    \/ \E r \in SlRequests :
          SlAsk(r) \/ SlServers(r) \/ \E ok \in BOOLEAN : SlFetched(r, ok)

(* The command ends (it is killed with its request), and a Go mutex is not *)
(* withheld for ever from a waiter.                                        *)
SlFairness ==
    /\ \A r \in SlRequests : WF_slVars(\E ok \in BOOLEAN : SlFetched(r, ok))
    /\ SF_slVars(SlInvalidated)

SlSpec == SlInit /\ [][SlNext]_slVars /\ SlFairness

-----------------------------------------------------------------------------
(* Properties *)

(* Once Invalidate has returned, no list whose fetch began before it is    *)
(* ever in the cache: the mutex is held across the fetch.                  *)
SlCacheCurrent == slCache # SlNone => slCache.gen = slGen

(* The settings pump gets through Invalidate, whatever the requests do and *)
(* however often the command fails.                                        *)
SlPumpGoesOn == slDropping ~> ~slDropping
=============================================================================
