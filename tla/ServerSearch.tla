---------------------------- MODULE ServerSearch ----------------------------
(***************************************************************************)
(* The remote Ookla server search (internal/ooklaweb/search.go,            *)
(* singleflight.go) behind GET /ookla/servers and its token bucket         *)
(* (internal/api/ookla.go).                                                *)
(*                                                                         *)
(* A request is handled once.  It passes the limiter, looks into the       *)
(* cache, and otherwise runs a goroutine that leads a flight for its key   *)
(* or waits for the one there is.  The caller may stop waiting at any      *)
(* time, which changes nothing: the goroutine sends to a buffered channel  *)
(* and the flight has a context of its own.  Server lists are reduced to   *)
(* "thin" (fewer than geocodeHitThreshold) and "plenty", an answer of a    *)
(* geocoder to "hit", "none" and "error".  The clock counts ticks; a       *)
(* timer's wake-up may be late.  The re-panic of a panicking search ends   *)
(* the process and is left out.  Every operator begins with Ss.            *)
(* X_m is a plausible wrong form of X, for mutation checks.                *)
(***************************************************************************)
EXTENDS Integers, Sequences, FiniteSets

CONSTANTS
    SsRequests,
    SsKey,            \* the key (lowercased query and country) of a request
    SsPostcodes,      \* the keys that look like a postcode
    SsWithCountry,    \* the keys with a country
    SsBurst,          \* ooklaLimiterBurst
    SsTTL,            \* cacheTTL
    SsMaxEntries,     \* cacheMaxEntries
    SsInterval,       \* nominatimMinInterval
    SsNever,          \* no time, no entry, no request
    SsMaxNow          \* bound: the clock

ASSUME SsBounds ==
    /\ SsKey \in [SsRequests -> STRING]
    /\ {SsBurst, SsTTL, SsMaxEntries, SsInterval} \subseteq Nat \ {0}
    /\ SsMaxNow \in Nat /\ SsNever \notin SsRequests \cup Int
    /\ SsNever \notin [at : Nat, by : SsRequests]

SsKeys == {SsKey[r] : r \in SsRequests}

VARIABLES
    ssNow,
    ssTokens, ssLast,     \* the token bucket
    ssCache,              \* c.cache: when an entry was stored, and if degraded
    ssCalls,              \* sf.calls: the request leading the flight of a key
    ssReleased,           \* flights whose WaitGroup is done
    ssNomLast,            \* c.nomLast
    ssReq,                \* the requests and the locals of their flights
    \* history: when the limiter let a request through; the flights in which
    \* a geocoder or the second search failed
    ssAllowed, ssFailed

ssVars == <<ssNow, ssTokens, ssLast, ssCache, ssCalls, ssReleased, ssNomLast,
            ssReq, ssAllowed, ssFailed>>

SsIdle(pc) == [pc |-> pc, of |-> SsNever, thin |-> FALSE, point |-> FALSE,
               degraded |-> FALSE, tries |-> 0, slot |-> SsNever]

SsInit ==
    /\ ssNow = 0
    /\ ssTokens = SsBurst /\ ssLast = SsNever
    /\ ssCache = [k \in SsKeys |-> SsNever]
    /\ ssCalls = [k \in SsKeys |-> SsNever]
    /\ ssReleased = {}
    /\ ssNomLast = SsNever
    /\ ssReq = [r \in SsRequests |-> SsIdle("new")]
    /\ ssAllowed = <<>> /\ ssFailed = {}

SsTick ==
    /\ ssNow < SsMaxNow /\ ssNow' = ssNow + 1
    /\ UNCHANGED <<ssTokens, ssLast, ssCache, ssCalls, ssReleased, ssNomLast,
                   ssReq, ssAllowed, ssFailed>>

-----------------------------------------------------------------------------
(* Allow: one token per tick, never more than the burst *)

SsCap(n) == IF n > SsBurst THEN SsBurst ELSE n

SsRefilled ==
    IF ssLast = SsNever THEN ssTokens ELSE SsCap(ssTokens + ssNow - ssLast)

SsAllow(r) ==
    /\ ssReq[r].pc = "new"
    /\ ssLast' = ssNow
    /\ IF SsRefilled < 1
       THEN /\ ssTokens' = SsRefilled                \* local results only
            /\ ssReq' = [ssReq EXCEPT ![r] = SsIdle("done")]
            /\ UNCHANGED ssAllowed
       ELSE /\ ssTokens' = SsRefilled - 1
            /\ ssReq' = [ssReq EXCEPT ![r] = SsIdle("search")]
            /\ ssAllowed' = Append(ssAllowed, ssNow)
    /\ UNCHANGED <<ssNow, ssCache, ssCalls, ssReleased, ssNomLast, ssFailed>>

-----------------------------------------------------------------------------
(* Search *)

SsFresh(k) == ssCache[k] # SsNever /\ ssNow - ssCache[k].at < SsTTL

(* cacheSet: an entry that is new to a full cache replaces an oldest one. *)
SsCached(k, e) ==
    LET held == {j \in SsKeys : ssCache[j] # SsNever}
    IN  IF k \in held \/ Cardinality(held) < SsMaxEntries
        THEN {[ssCache EXCEPT ![k] = e]}
        ELSE {[ssCache EXCEPT ![k] = e, ![old] = SsNever] :
                old \in {j \in held : \A i \in held : ssCache[j].at <= ssCache[i].at}}

ssLimiter == <<ssNow, ssTokens, ssLast, ssAllowed>>

SsGo(r, pc) == ssReq' = [ssReq EXCEPT ![r].pc = pc]

SsSearch(r) ==
    /\ ssReq[r].pc = "search"
    /\ SsGo(r, IF SsFresh(SsKey[r]) THEN "done" ELSE "join")
    /\ UNCHANGED <<ssLimiter, ssFailed, ssCache, ssCalls, ssReleased, ssNomLast>>

(* Do: lead the flight of the key, or wait for the one in the map. *)
SsJoin(r) ==
    LET k == SsKey[r] IN
    /\ ssReq[r].pc = "join"
    /\ IF ssCalls[k] = SsNever
       THEN ssCalls' = [ssCalls EXCEPT ![k] = r] /\ SsGo(r, "recheck")
       ELSE /\ ssReq' = [ssReq EXCEPT ![r].pc = "wait", ![r].of = ssCalls[k]]
            /\ UNCHANGED ssCalls
    /\ UNCHANGED <<ssLimiter, ssFailed, ssCache, ssReleased, ssNomLast>>

SsWaited(r) ==
    /\ ssReq[r].pc = "wait" /\ ssReq[r].of \in ssReleased
    /\ ssReq' = [ssReq EXCEPT ![r] = SsIdle("done")]
    /\ UNCHANGED <<ssLimiter, ssFailed, ssCache, ssCalls, ssReleased, ssNomLast>>

-----------------------------------------------------------------------------
(* The leader: a second look into the cache, then searchAndCache *)

ssShared == <<ssLimiter, ssCache, ssCalls, ssReleased>>

SsRecheck(r) ==
    /\ ssReq[r].pc = "recheck"
    /\ SsGo(r, IF SsFresh(SsKey[r]) THEN "release" ELSE "direct")
    /\ UNCHANGED <<ssShared, ssNomLast, ssFailed>>

(* Where the flow goes once postcode geocoding is over. *)
SsThen(q) ==
    [SsIdle(CASE q.point            -> "near"
              [] ~q.point /\ q.thin -> "geocode"
              [] OTHER              -> "store") EXCEPT !.degraded = q.degraded]

SsDirect(r, hits) ==
    /\ ssReq[r].pc = "direct"
    /\ LET q == [ssReq[r] EXCEPT !.thin = (hits = "thin")]
       IN  ssReq' = [ssReq EXCEPT ![r] =
             IF hits = "error" THEN [q EXCEPT !.pc = "release"]
             ELSE IF SsKey[r] \in SsPostcodes THEN [q EXCEPT !.pc = "slot"]
             ELSE SsThen(q)]
    /\ UNCHANGED <<ssShared, ssNomLast, ssFailed>>

(* waitNominatim: the slot is reserved under nomMu before the sleep. *)
SsSlot ==
    IF ssNomLast = SsNever \/ ssNow - ssNomLast >= SsInterval
    THEN ssNow ELSE ssNomLast + SsInterval

SsReserve(r) ==
    /\ ssReq[r].pc = "slot"
    /\ ssReq' = [ssReq EXCEPT ![r].pc = "sleep", ![r].slot = SsSlot]
    /\ ssNomLast' = SsSlot
    /\ UNCHANGED <<ssShared, ssFailed>>

(* geocodePostcode tries up to three queries; the flight's timeout may end *)
(* the sleep, which is an error too.                                       *)
SsTries(k) == IF k \in SsWithCountry THEN 3 ELSE 2

SsNote(r, failed) == ssFailed' = IF failed THEN ssFailed \cup {r} ELSE ssFailed

SsNominatim(r, answer) ==
    /\ ssReq[r].pc = "sleep"
    /\ answer # "error" => ssNow >= ssReq[r].slot
    /\ LET q == [ssReq[r] EXCEPT !.tries = @ + 1, !.slot = SsNever]
       IN  ssReq' = [ssReq EXCEPT ![r] =
             CASE answer = "error" -> SsThen([q EXCEPT !.degraded = TRUE])
               [] answer = "hit"   -> SsThen([q EXCEPT !.point = TRUE])
               [] answer = "none"  -> IF q.tries < SsTries(SsKey[r])
                                      THEN [q EXCEPT !.pc = "slot"] ELSE SsThen(q)]
    /\ SsNote(r, answer = "error")
    /\ UNCHANGED <<ssShared, ssNomLast>>

SsGeocode(r, answer) ==
    /\ ssReq[r].pc = "geocode"
    /\ ssReq' = [ssReq EXCEPT ![r].pc = IF answer = "hit" THEN "near" ELSE "store",
                              ![r].degraded = @ \/ answer = "error"]
    /\ SsNote(r, answer = "error")
    /\ UNCHANGED <<ssShared, ssNomLast>>

SsNear(r, ok) ==
    /\ ssReq[r].pc = "near"
    /\ ssReq' = [ssReq EXCEPT ![r].pc = "store", ![r].degraded = @ \/ ~ok]
    /\ SsNote(r, ~ok)
    /\ UNCHANGED <<ssShared, ssNomLast>>

(* A degraded result is returned, not cached. *)
SsStore_m(r) ==
    /\ ssReq[r].pc = "store"
    /\ SsGo(r, "release")
    /\ ssCache' \in SsCached(SsKey[r], [at |-> ssNow, by |-> r])
    /\ UNCHANGED <<ssLimiter, ssFailed, ssCalls, ssReleased, ssNomLast>>
SsStore(r) ==
    /\ ssReq[r].pc = "store"
    /\ SsGo(r, "release")
    /\ IF ssReq[r].degraded THEN UNCHANGED ssCache
       ELSE ssCache' \in SsCached(SsKey[r], [at |-> ssNow, by |-> r])
    /\ UNCHANGED <<ssLimiter, ssFailed, ssCalls, ssReleased, ssNomLast>>

(* doCall: the waiters are released, then the call leaves the map. *)
SsRelease(r) ==
    /\ ssReq[r].pc = "release"
    /\ SsGo(r, "delete")
    /\ ssReleased' = ssReleased \cup {r}
    /\ UNCHANGED <<ssLimiter, ssFailed, ssCache, ssCalls, ssNomLast>>

SsDelete(r) ==
    /\ ssReq[r].pc = "delete"
    /\ ssReq' = [ssReq EXCEPT ![r] = SsIdle("done")]
    /\ ssCalls' = [ssCalls EXCEPT ![SsKey[r]] = SsNever]
    /\ UNCHANGED <<ssLimiter, ssFailed, ssCache, ssReleased, ssNomLast>>

-----------------------------------------------------------------------------
SsAnswers == {"hit", "none", "error"}

SsFly(r) ==
    \/ SsSearch(r) \/ SsJoin(r) \/ SsWaited(r) \/ SsRecheck(r) \/ SsReserve(r)
    \/ SsStore(r) \/ SsRelease(r) \/ SsDelete(r)
    \/ \E hits \in {"thin", "plenty", "error"} : SsDirect(r, hits)
    \/ \E answer \in SsAnswers : SsNominatim(r, answer) \/ SsGeocode(r, answer)
    \/ \E ok \in BOOLEAN : SsNear(r, ok)

SsNext == SsTick \/ \E r \in SsRequests : SsAllow(r) \/ SsFly(r)

(* Every goroutine runs; every outbound request has a timeout. *)
SsFairness == \A r \in SsRequests : WF_ssVars(SsFly(r))

SsSpec == SsInit /\ [][SsNext]_ssVars /\ SsFairness

-----------------------------------------------------------------------------
(* Properties *)

SsLeading(r) ==
    ssReq[r].pc \in {"recheck", "direct", "slot", "sleep", "geocode", "near",
                     "store", "release", "delete"}

(* The cache keeps its size, the bucket its burst, and the map of calls    *)
(* names exactly the requests that are leading.                            *)
SsTypeOK ==
    /\ ssNow \in 0 .. SsMaxNow /\ ssTokens \in Nat
    /\ Cardinality({k \in SsKeys : ssCache[k] # SsNever}) <= SsMaxEntries
    /\ \A r \in SsRequests : SsLeading(r) <=> ssCalls[SsKey[r]] = r
    /\ \A r \in SsRequests : ssReq[r].pc = "wait" <=> ssReq[r].of # SsNever
    /\ ssReleased \subseteq SsRequests

(* No request goes upstream while the cache holds a fresh entry for its    *)
(* key: a flight that finished between the first look and the second is    *)
(* noticed, and none can store the entry in the meantime.                  *)
SsNoRedundantFetch ==
    \A r \in SsRequests :
        ssReq[r].pc \in {"direct", "slot", "sleep", "geocode", "near"} =>
            ~SsFresh(SsKey[r])

(* What is cached for cacheTTL came from a flight in which no geocoder and *)
(* no second search failed, however many of them were tried.               *)
SsCachedIsComplete ==
    \A k \in SsKeys :
        ssCache[k] # SsNever => ssCache[k].by \notin ssFailed

(* Two flights never hold Nominatim slots less than the interval apart,    *)
(* and the next slot is behind all of them.                                *)
SsSlotsApart ==
    \A r, s \in SsRequests :
        /\ r # s /\ ssReq[r].slot # SsNever /\ ssReq[s].slot # SsNever =>
              \/ ssReq[r].slot - ssReq[s].slot >= SsInterval
              \/ ssReq[s].slot - ssReq[r].slot >= SsInterval
        /\ ssReq[r].slot # SsNever => ssReq[r].slot <= ssNomLast

(* In every stretch of time the limiter lets through at most the burst and *)
(* one request per tick, denied requests and pauses included.              *)
SsRateKept ==
    \A i, j \in DOMAIN ssAllowed :
        i <= j => j - i + 1 <= SsBurst + ssAllowed[j] - ssAllowed[i]

(* Every request that was let through is answered: leaders release their   *)
(* waiters on every path.                                                  *)
SsAnswered ==
    (\E r \in SsRequests : ssReq[r].pc = "search") ~>
        (\A r \in SsRequests : ssReq[r].pc \in {"new", "done"})

(* Concurrent searches share what they can and no more: one flight per key *)
(* and none beside a fresh entry, only complete answers cached, the        *)
(* geocoder's slots and the limiter's rate kept.                           *)
SsSafe ==
    /\ SsTypeOK /\ SsNoRedundantFetch /\ SsCachedIsComplete
    /\ SsSlotsApart /\ SsRateKept
=============================================================================
