------------------------------ MODULE Sessions ------------------------------
(***************************************************************************)
(* Logging in through OIDC: the start, callback and logout handlers        *)
(* (internal/api/oidc.go, internal/oidcauth), the sessions table           *)
(* (internal/store/sessions.go) and the settings watcher, which deletes    *)
(* every session when the auth settings change and then swaps the provider *)
(* (cmd/speedtest-tracker/main.go).                                        *)
(*                                                                         *)
(* A configuration is whether the mode is oidc, the people its groups and  *)
(* addresses admit, and the length of a session.  A browser is one person. *)
(* The answer of the provider, and the signature of the state cookie, are  *)
(* left out: a callback may carry the state its browser holds or another,  *)
(* and may come too late.  The loop that rebuilds a provider which could   *)
(* not be built is modelled in LiveSettings; here it is one step.          *)
(***************************************************************************)
EXTENDS Integers

CONSTANTS
    SnBrowsers,
    SnConfs,        \* configurations the operator chooses from
    SnNone,
    SnStateTTL,     \* stateTTL
    SnDefaultTTL,   \* the length of a session when none is set
    SnMaxNow, SnMaxEdits, SnMaxLogins, SnMaxFaults    \* bounds

ASSUME SnAssumption ==
    /\ \A c \in SnConfs : /\ c.oidc \in BOOLEAN /\ c.allowed \subseteq SnBrowsers
                          /\ c.ttl \in Nat
    /\ SnNone \notin SnConfs
    /\ {SnStateTTL, SnDefaultTTL, SnMaxNow, SnMaxEdits, SnMaxLogins, SnMaxFaults}
          \subseteq Nat

VARIABLES
    snNow,
    snStored,      \* the auth settings
    snDue,         \* the watcher has been told, authFlush is running
    snAt, snRead,  \* the watcher, and the settings applyAuth has read
    snLive,        \* the configuration of the middleware
    snProv,        \* oidcProviderHolder.ptr
    snState,       \* until when the state cookie of a browser is good
    snCall,        \* a callback in progress: the provider it has loaded
    snRows,        \* the sessions table, by id
    snCookie,      \* the session cookie of a browser
    snEdits, snFaults,
    snPurges,      \* history: how often all sessions were deleted
    snBuilds       \* history: how often the watcher has set the provider

snWatch  == <<snDue, snAt, snRead, snLive>>
snLogin  == <<snState, snCall, snCookie>>
snBounds == <<snEdits, snFaults>>
snPast   == <<snPurges, snBuilds>>
snVars   == <<snNow, snStored, snWatch, snProv, snLogin, snRows, snBounds, snPast>>

SnIds == 1..SnMaxLogins

SnInit ==
    /\ snNow = 0
    /\ snStored \in SnConfs /\ snLive = snStored
    /\ snProv = IF snStored.oidc THEN snStored ELSE SnNone
    /\ snDue = FALSE /\ snAt = "idle" /\ snRead = SnNone
    /\ snState = [b \in SnBrowsers |-> SnNone]
    /\ snCall = [b \in SnBrowsers |-> SnNone]
    /\ snCookie = [b \in SnBrowsers |-> SnNone]
    /\ snRows = [i \in SnIds |-> SnNone]
    /\ snEdits = 0 /\ snFaults = 0 /\ snPurges = 0 /\ snBuilds = 0

SnTick ==
    /\ snNow < SnMaxNow /\ snNow' = snNow + 1
    /\ UNCHANGED <<snStored, snWatch, snProv, snLogin, snRows, snBounds, snPast>>

SnEdit ==
    /\ snEdits < SnMaxEdits /\ snEdits' = snEdits + 1
    /\ \E c \in SnConfs \ {snStored} : snStored' = c
    /\ snDue' = TRUE
    /\ UNCHANGED <<snNow, snAt, snRead, snLive, snProv, snLogin, snRows, snFaults,
                   snPast>>

(* A query, or the provider's discovery, works or fails. *)
SnOutcome(ok) ==
    /\ ok \in BOOLEAN /\ (ok \/ snFaults < SnMaxFaults)
    /\ snFaults' = IF ok THEN snFaults ELSE snFaults + 1
    /\ UNCHANGED snEdits

-----------------------------------------------------------------------------
(* The watcher: sessions first, then the middleware, then the provider *)

SnUsable(i) == snRows[i] # SnNone /\ snRows[i].exp > snNow   \* LookupSession

DeleteAllSessions == [i \in SnIds |-> SnNone]

(* When the deletion fails, that is logged and the sessions stay. *)
SnPurge(ok) ==
    /\ snDue /\ snAt = "idle"
    /\ SnOutcome(ok)
    /\ snRows' = IF ok THEN DeleteAllSessions ELSE snRows
    /\ snPurges' = IF ok THEN snPurges + 1 ELSE snPurges
    /\ snDue' = FALSE /\ snAt' = "purged"
    /\ UNCHANGED <<snNow, snStored, snRead, snLive, snProv, snLogin, snBuilds>>

SnConfigure(ok) ==
    /\ snAt = "purged"
    /\ SnOutcome(ok)
    /\ snAt' = IF ok THEN "build" ELSE "idle"
    /\ snRead' = IF ok THEN snStored ELSE SnNone
    /\ snLive' = IF ok THEN snStored ELSE snLive
    /\ UNCHANGED <<snNow, snStored, snDue, snProv, snLogin, snRows, snPast>>

(* An unchanged provider is kept without asking the network. *)
SnBuild(ok) ==
    /\ snAt = "build"
    /\ ok \/ (snRead.oidc /\ snProv # snRead)
    /\ SnOutcome(ok)
    /\ snProv' = IF ok /\ snRead.oidc THEN snRead ELSE SnNone
    /\ snAt' = "idle" /\ snRead' = SnNone
    /\ snBuilds' = snBuilds + 1
    /\ UNCHANGED <<snNow, snStored, snDue, snLive, snLogin, snRows, snPurges>>

SnRetry ==
    /\ snProv = SnNone /\ snStored.oidc /\ snAt = "idle"
    /\ snProv' = snStored
    /\ UNCHANGED <<snNow, snStored, snWatch, snLogin, snRows, snBounds, snPast>>

-----------------------------------------------------------------------------
(* The handlers *)

oidcStart(b) ==
    /\ snProv # SnNone
    /\ snState' = [snState EXCEPT ![b] = snNow + SnStateTTL]
    /\ UNCHANGED <<snNow, snStored, snWatch, snProv, snCall, snCookie, snRows,
                   snBounds, snPast>>

(* The provider is loaded and the state checked; then the code is          *)
(* exchanged, which waits for the network.  The state cookie is good for   *)
(* one callback, also when the state is another one or the code missing.   *)
oidcCallback(b) ==
    /\ snProv # SnNone /\ snState[b] # SnNone /\ snCall[b] = SnNone
    /\ snState' = [snState EXCEPT ![b] = SnNone]
    /\ \E good \in BOOLEAN :
          /\ good => snNow < snState[b]
          /\ snCall' = [snCall EXCEPT ![b] =
                IF good THEN [conf |-> snProv, builds |-> snBuilds] ELSE SnNone]
    /\ UNCHANGED <<snNow, snStored, snWatch, snProv, snCookie, snRows, snBounds,
                   snPast>>

SnTTL(conf) == IF conf.ttl = 0 THEN SnDefaultTTL ELSE conf.ttl

(* purges and builds are history: what was behind the insert, and behind   *)
(* the load of the provider.                                               *)
SnNewRow(b) == [by |-> b, conf |-> snCall[b].conf,
                exp |-> snNow + SnTTL(snCall[b].conf),
                purges |-> snPurges, builds |-> snCall[b].builds]

(* Exchange, Authorize under the provider loaded before, CreateSession. *)
SnAdmit(b) ==
    /\ snCall[b] # SnNone /\ b \in snCall[b].conf.allowed
    /\ \E i \in SnIds :
          /\ snRows[i] = SnNone /\ \A c \in SnBrowsers : snCookie[c] # i
          /\ snRows' = [snRows EXCEPT ![i] = SnNewRow(b)]
          /\ snCookie' = [snCookie EXCEPT ![b] = i]
    /\ snCall' = [snCall EXCEPT ![b] = SnNone]
    /\ UNCHANGED <<snNow, snStored, snWatch, snProv, snState, snBounds, snPast>>

(* The exchange failed, the claims are not admitted, or the insert failed. *)
SnRefuse(b) ==
    /\ snCall[b] # SnNone
    /\ snCall' = [snCall EXCEPT ![b] = SnNone]
    /\ UNCHANGED <<snNow, snStored, snWatch, snProv, snState, snCookie, snRows, snBounds,
                   snPast>>

(* The cookie goes, whether or not the row could be deleted. *)
oidcLogout(b, ok) ==
    /\ snCookie[b] # SnNone
    /\ SnOutcome(ok)
    /\ snRows' = IF ok THEN [snRows EXCEPT ![snCookie[b]] = SnNone] ELSE snRows
    /\ snCookie' = [snCookie EXCEPT ![b] = SnNone]
    /\ UNCHANGED <<snNow, snStored, snWatch, snProv, snState, snCall, snPast>>

(* The retention job. *)
SnExpired(i) == snRows[i] # SnNone /\ snRows[i].exp <= snNow

DeleteExpiredSessions ==
    /\ \E i \in SnIds : SnExpired(i)
    /\ snRows' = [i \in SnIds |-> IF SnExpired(i) THEN SnNone ELSE snRows[i]]
    /\ UNCHANGED <<snNow, snStored, snWatch, snProv, snLogin, snBounds, snPast>>

-----------------------------------------------------------------------------
SnNext ==
    \/ SnTick \/ SnEdit \/ SnRetry \/ DeleteExpiredSessions
    \/ \E ok \in BOOLEAN : SnPurge(ok) \/ SnConfigure(ok) \/ SnBuild(ok)
    \/ \E b \in SnBrowsers : \/ oidcStart(b) \/ oidcCallback(b) \/ SnAdmit(b)
                             \/ SnRefuse(b) \/ \E ok \in BOOLEAN : oidcLogout(b, ok)

SnSpec == SnInit /\ [][SnNext]_snVars

-----------------------------------------------------------------------------
(* Properties *)

(* The watcher has handled every change, and no query failed. *)
SnSettled == ~snDue /\ snAt = "idle" /\ snFaults = 0

(* "so nobody stays logged in under a config that no longer admits them",  *)
(* which the program does not keep: a callback that loaded the old         *)
(* provider writes its session after the deletion, and the middleware      *)
(* honours it under the new settings.                                      *)
SnNobodyStays ==
    SnSettled /\ snLive.oidc =>
        \A i \in SnIds : SnUsable(i) => snRows[i].by \in snStored.allowed

(* It keeps this: a session that outlives its configuration was written    *)
(* after the last deletion by a login that had loaded the provider before  *)
(* the watcher replaced it.  Every earlier session is gone, and no login   *)
(* that begins after the change has settled is let in by the old settings. *)
SnOnlyOverlapping ==
    SnSettled =>
        \A i \in SnIds : snRows[i] # SnNone /\ snRows[i].conf # snStored =>
            snRows[i].purges = snPurges /\ snRows[i].builds < snBuilds

(* A session that is good (LookupSession) ends only by time, by a change   *)
(* of the auth settings or because its own browser logged out: the         *)
(* retention job and the logins of others never end it.                    *)
SnEndsOnlyWhenDue ==
    \A i \in SnIds :
        SnUsable(i) /\ snNow' = snNow /\ snRows'[i] = SnNone =>
            \/ snDue /\ ~snDue'
            \/ snCookie[snRows[i].by] = i /\ snCookie'[snRows[i].by] = SnNone
=============================================================================
