---------------------------- MODULE LiveSettings ----------------------------
(***************************************************************************)
(* Settings that take effect without a restart: PUT /settings commits a    *)
(* transaction and notifies (internal/api/settings.go, internal/settings), *)
(* a subscriber coalesces the changed keys, watchSettings rereads the      *)
(* section of each and configures its consumer, and the OIDC provider is   *)
(* rebuilt by the watcher or by a retry loop (cmd/speedtest-tracker).      *)
(*                                                                         *)
(* The consumers are the log level, the engine registry, the notifier, the *)
(* exporters and the auth middleware; each holds a copy of the keys it was *)
(* configured with.  A section is read key by key, with one query each, so *)
(* a commit may fall between two of them.  The settings store's own mutex  *)
(* only keeps two notifying writers apart and is left out, which adds      *)
(* interleavings; the order of keys within a batch is left open.           *)
(* Validation, secrets, sessions and what the engine registry's consumers  *)
(* do with a change (Invalidate, Kick) are not modelled.                   *)
(* X_m is a plausible wrong form of X, for mutation checks.                *)
(***************************************************************************)
EXTENDS Integers, Sequences, FiniteSets, Functions

CONSTANTS
    Keys,       \* settings keys
    Class,      \* what watchSettings makes of a key
    ModeKey,    \* auth.mode
    OidcKeys,   \* the auth keys that configure the OIDC provider
    InitDb,     \* the settings at startup
    Bodies,     \* PUT bodies that validation admits: functions from some keys to values
    Writers,    \* request goroutines
    OutCap,     \* capacity of the subscriber's channel
    None,
    MaxPuts,    \* bound on PUTs
    MaxTrouble  \* bound on failing store reads and failing discoveries

Classes == {"log_level", "engines", "timezone", "notifications",
            "integrations", "auth", "other"}

ASSUME SettingsAssumption ==
    /\ Class \in [Keys -> Classes]
    /\ ModeKey \in Keys /\ Class[ModeKey] = "auth"
    /\ OidcKeys \subseteq {k \in Keys : Class[k] = "auth"} \ {ModeKey}
    /\ DOMAIN InitDb = Keys
    /\ \A b \in Bodies : DOMAIN b \subseteq Keys
    /\ OutCap \in Nat \ {0} /\ MaxPuts \in Nat /\ MaxTrouble \in Nat
    /\ None \notin {"level", "registry", "notifier", "exporters", "middleware"}

VARIABLES
    db,          \* the settings table
    wr,          \* request goroutines: changed keys still to notify
    dirty, wake, \* the subscriber's set and its one-slot channel
    subscribed,  \* it is in Store.subs
    pump,        \* the pump goroutine: where it is, keys it took
    out,         \* the subscriber's channel
    authDue,     \* authFlush is armed
    proc,        \* the watcher and the OIDC retry loop
    live,        \* what each consumer is configured with
    ptr, applied, built, retrying,   \* oidcProviderHolder
    ctxDone,     \* watchCtx is cancelled
    puts, failures, outages,
    retried      \* history: a retry loop has run

bounds == <<failures, outages>>
store  == <<db, wr, puts>>
sub    == <<dirty, wake, subscribed, pump>>
holder == <<ptr, applied, built>>
loop   == <<retrying, retried>>
vars   == <<store, sub, out, authDue, proc, live, holder, loop, ctxDone, bounds>>

-----------------------------------------------------------------------------
(* The consumer that the switch of watchSettings reconfigures for a key,   *)
(* and the keys it reads for that.                                         *)
Consumer(class) ==
    CASE class = "log_level" -> "level"
      [] class = "engines" -> "registry"
      [] class \in {"timezone", "notifications"} -> "notifier"
      [] class = "integrations" -> "exporters"
      [] class = "auth" -> "middleware"
      [] class = "other" -> None

Consumers == {Consumer(Class[k]) : k \in Keys} \ {None}
Reads(c)  == {k \in Keys : Consumer(Class[k]) = c}
Stored(c) == Restrict(db, Reads(c))

(* oidcConfigFromAuth *)
cfg(a) == Restrict(a, OidcKeys)

Trouble == failures + outages < MaxTrouble

Idle == [at |-> "off", for |-> None, left |-> {}, got |-> <<>>]

(* What main has set up when the server starts: every section is applied,  *)
(* and the retry loop runs if the issuer did not answer.                   *)
Init ==
    /\ db = InitDb
    /\ wr = [s \in Writers |-> [at |-> "idle", todo |-> {}]]
    /\ dirty = {} /\ wake = FALSE /\ subscribed = TRUE
    /\ pump = [at |-> "wait", keys |-> {}]
    /\ out = <<>> /\ authDue = FALSE
    /\ live = [c \in Consumers |-> Restrict(InitDb, Reads(c))]
    /\ \E up \in (IF MaxTrouble > 0 THEN BOOLEAN ELSE {TRUE}) :
         LET oidc == InitDb[ModeKey] = "oidc" IN
         /\ outages = IF up THEN 0 ELSE 1
         /\ built = (oidc /\ up)
         /\ applied = IF oidc /\ up THEN cfg(InitDb) ELSE None
         /\ ptr = applied
         /\ retrying = (oidc /\ ~up) /\ retried = retrying
         /\ proc = [p \in {"watch", "retry"} |->
                      [Idle EXCEPT !.at = IF p = "watch" THEN "select"
                                          ELSE IF oidc /\ ~up THEN "sleep" ELSE "off"]]
    /\ ctxDone = FALSE /\ puts = 0 /\ failures = 0

-----------------------------------------------------------------------------
(* PUT /settings and the notification of its changes *)

(* A refused body (locked keys, failed validation) changes nothing; the    *)
(* others are committed as one transaction, and the keys whose value       *)
(* changed are remembered.                                                 *)
applySettings(s, body) ==
    LET changed == {k \in DOMAIN body : body[k] # db[k]} IN
    /\ wr[s].at = "idle" /\ puts < MaxPuts
    /\ changed # {}
    /\ puts' = puts + 1
    /\ db' = [k \in Keys |-> IF k \in changed THEN body[k] ELSE db[k]]
    /\ wr' = [wr EXCEPT ![s] = [at |-> "mark", todo |-> changed]]
    /\ UNCHANGED <<sub, out, authDue, proc, live, holder, loop, ctxDone, bounds>>

(* notify and mark: a key goes into the dirty set, then the pump is woken. *)
mark(s) ==
    /\ wr[s].at = "mark"
    /\ \E k \in wr[s].todo :
         LET rest == wr[s].todo \ {k} IN
         IF subscribed
         THEN /\ dirty' = dirty \cup {k}
              /\ wr' = [wr EXCEPT ![s] = [at |-> "wake", todo |-> rest]]
         ELSE /\ wr' = [wr EXCEPT ![s] =
                          [at |-> IF rest = {} THEN "idle" ELSE "mark", todo |-> rest]]
              /\ UNCHANGED dirty
    /\ UNCHANGED <<db, puts, wake, subscribed, pump, out, authDue, proc, live,
                   holder, loop, ctxDone, bounds>>

(* A send to the one-slot channel that does nothing when it is full. *)
markWake_m(s) ==
    /\ wr[s].at = "wake"
    /\ wake' = (wake \/ pump.at = "wait")
    /\ wr' = [wr EXCEPT ![s].at = IF wr[s].todo = {} THEN "idle" ELSE "mark"]
    /\ UNCHANGED <<db, puts, dirty, subscribed, pump, out, authDue, proc, live,
                   holder, loop, ctxDone, bounds>>
markWake(s) ==
    /\ wr[s].at = "wake"
    /\ wake' = TRUE
    /\ wr' = [wr EXCEPT ![s].at = IF wr[s].todo = {} THEN "idle" ELSE "mark"]
    /\ UNCHANGED <<db, puts, dirty, subscribed, pump, out, authDue, proc, live,
                   holder, loop, ctxDone, bounds>>

-----------------------------------------------------------------------------
(* The pump goroutine *)

pumpRest == <<store, subscribed, authDue, proc, live, holder, loop, ctxDone, bounds>>

pumpWake ==
    /\ pump.at = "wait" /\ wake
    /\ wake' = FALSE
    /\ pump' = [pump EXCEPT !.at = "take"]
    /\ UNCHANGED <<dirty, out, pumpRest>>

pumpTake ==
    /\ pump.at = "take"
    /\ pump' = [at |-> IF dirty = {} THEN "wait" ELSE "emit", keys |-> dirty]
    /\ dirty' = {}
    /\ UNCHANGED <<wake, out, pumpRest>>

(* Blocks while the channel is full. *)
pumpEmit_m ==
    /\ pump.at = "emit"
    /\ \E k \in pump.keys :
         /\ out' = IF Len(out) < OutCap THEN Append(out, k) ELSE out
         /\ pump' = [at |-> IF pump.keys = {k} THEN "wait" ELSE "emit",
                     keys |-> pump.keys \ {k}]
    /\ UNCHANGED <<dirty, wake, pumpRest>>
pumpEmit ==
    /\ pump.at = "emit" /\ Len(out) < OutCap
    /\ \E k \in pump.keys :
         /\ out' = Append(out, k)
         /\ pump' = [at |-> IF pump.keys = {k} THEN "wait" ELSE "emit",
                     keys |-> pump.keys \ {k}]
    /\ UNCHANGED <<dirty, wake, pumpRest>>

pumpReturn_m ==
    /\ pump.at = "wait" /\ ~subscribed
    /\ pump' = [at |-> "done", keys |-> {}]
    /\ UNCHANGED <<dirty, wake, out, pumpRest>>
pumpReturn ==
    /\ pump.at \in {"wait", "emit"} /\ ~subscribed
    /\ pump' = [at |-> "done", keys |-> {}]
    /\ UNCHANGED <<dirty, wake, out, pumpRest>>

-----------------------------------------------------------------------------
(* watchSettings *)

Goto(p, l) == proc' = [proc EXCEPT ![p].at = l]
procRest == <<store, sub, ctxDone>>

(* Start to read the section of consumer c. *)
Reading(p, c, at) ==
    proc' = [proc EXCEPT ![p] = [at |-> at, for |-> c, left |-> Reads(c),
                                 got |-> [k \in Reads(c) |-> None]]]

(* A changed key: the auth keys are debounced, a timezone change reloads   *)
(* the schedules before the notifier.                                      *)
watchKey ==
    /\ proc["watch"].at = "select" /\ out # <<>>
    /\ out' = Tail(out)
    /\ LET class == Class[Head(out)] IN
       /\ authDue' = (authDue \/ class = "auth")
       /\ IF class \in {"auth", "other"} THEN UNCHANGED proc
          ELSE Reading("watch", Consumer(class),
                       IF class = "timezone" THEN "reload" ELSE "read")
    /\ UNCHANGED <<procRest, live, holder, loop, bounds>>

(* The debounce timer. *)
watchFlush ==
    /\ proc["watch"].at = "select" /\ authDue
    /\ authDue' = FALSE
    /\ Reading("watch", "middleware", "read")
    /\ UNCHANGED <<procRest, out, live, holder, loop, bounds>>

watchReload ==
    /\ proc["watch"].at = "reload"
    /\ Goto("watch", "read")
    /\ UNCHANGED <<procRest, out, authDue, live, holder, loop, bounds>>

(* Store.General, Engines, Integrations, Notifications and Auth: one query *)
(* per key.                                                                *)
readKey(p) ==
    /\ proc[p].at = "read"
    /\ \E k \in proc[p].left :
         proc' = [proc EXCEPT ![p].left = @ \ {k}, ![p].got[k] = db[k]]
    /\ UNCHANGED <<procRest, out, authDue, live, holder, loop, bounds>>

(* A query or the reload fails: the watcher gives this change up, the      *)
(* retry loop sleeps again.                                                *)
readFails(p) ==
    /\ \/ proc[p].at \in {"reload", "mode"}
       \/ proc[p].at = "read" /\ proc[p].left # {}
    /\ ctxDone \/ Trouble
    /\ failures' = IF ctxDone THEN failures ELSE failures + 1
    /\ proc' = [proc EXCEPT ![p] = [Idle EXCEPT !.at =
                  IF p = "watch" THEN "select" ELSE "sleep"]]
    /\ UNCHANGED <<procRest, out, authDue, live, holder, loop, outages>>

(* The consumer is configured with what was read; the auth section goes on *)
(* to the OIDC provider.                                                   *)
watchApply ==
    LET w == proc["watch"] IN
    /\ w.at = "read" /\ w.left = {}
    /\ live' = [live EXCEPT ![w.for] = w.got]
    /\ IF w.for = "middleware" THEN Goto("watch", "apply")
       ELSE proc' = [proc EXCEPT !["watch"] = [Idle EXCEPT !.at = "select"]]
    /\ UNCHANGED <<procRest, out, authDue, holder, loop, bounds>>

-----------------------------------------------------------------------------
(* oidcProviderHolder.apply, called by the watcher and by the retry loop   *)
(* with the settings in got.                                               *)

oidcRest == <<procRest, out, authDue, live, loop, failures>>

Wanted(p) == proc[p].got[ModeKey] = "oidc"

(* apply returns: the watcher goes on to its check, the retry loop ends    *)
(* when there was no error.                                                *)
Returned(p, ok) ==
    Goto(p, IF p = "watch" THEN "check" ELSE IF ok THEN "exit" ELSE "sleep")

applyOther(p) ==
    /\ proc[p].at = "apply" /\ ~Wanted(p)
    /\ built' = FALSE
    /\ Goto(p, "clear")
    /\ UNCHANGED <<ptr, applied, oidcRest, outages>>

applyUnchanged_m(p) ==
    /\ proc[p].at = "apply" /\ Wanted(p)
    /\ built
    /\ Returned(p, TRUE)
    /\ UNCHANGED <<holder, oidcRest, outages>>
applyUnchanged(p) ==
    /\ proc[p].at = "apply" /\ Wanted(p)
    /\ built /\ applied = cfg(proc[p].got)
    /\ Returned(p, TRUE)
    /\ UNCHANGED <<holder, oidcRest, outages>>

applyChanged(p) ==
    /\ proc[p].at = "apply" /\ Wanted(p)
    /\ ~(built /\ applied = cfg(proc[p].got))
    /\ Goto(p, "discover")
    /\ UNCHANGED <<holder, oidcRest, outages>>

(* oidcauth.New asks the issuer, which answers or does not. *)
discover(p) ==
    /\ proc[p].at = "discover"
    /\ \/ /\ applied' = cfg(proc[p].got) /\ built' = TRUE
          /\ Goto(p, "store")
          /\ UNCHANGED outages
       \/ /\ Trouble \/ ctxDone
          /\ outages' = IF ctxDone THEN outages ELSE outages + 1
          /\ built' = FALSE /\ UNCHANGED applied
          /\ Goto(p, "clear")
    /\ UNCHANGED <<ptr, oidcRest>>

storeProvider(p) ==
    /\ proc[p].at = "store"
    /\ ptr' = cfg(proc[p].got)
    /\ Returned(p, TRUE)
    /\ UNCHANGED <<applied, built, oidcRest, outages>>

clearProvider(p) ==
    /\ proc[p].at = "clear"
    /\ ptr' = None
    /\ Returned(p, ~Wanted(p))
    /\ UNCHANGED <<applied, built, oidcRest, outages>>

-----------------------------------------------------------------------------
(* After applyAuth the watcher makes sure somebody retries a failed build. *)

watchCheck ==
    /\ proc["watch"].at = "check"
    /\ IF ptr = None THEN Goto("watch", "mode")
       ELSE proc' = [proc EXCEPT !["watch"] = [Idle EXCEPT !.at = "select"]]
    /\ UNCHANGED <<procRest, out, authDue, live, holder, loop, bounds>>

(* ensureOIDCRetry starts a loop unless one is running. *)
ensureOIDCRetry ==
    LET start == db[ModeKey] = "oidc" /\ ~retrying IN
    /\ proc["watch"].at = "mode"
    /\ proc' = [proc EXCEPT !["watch"] = [Idle EXCEPT !.at = "select"],
                            !["retry"] = IF start THEN [Idle EXCEPT !.at = "sleep"] ELSE @]
    /\ retrying' = (retrying \/ start) /\ retried' = (retried \/ start)
    /\ UNCHANGED <<procRest, out, authDue, live, holder, bounds>>

(* retryOIDCBuild *)
retryWake ==
    /\ proc["retry"].at = "sleep"
    /\ IF ctxDone THEN Goto("retry", "exit") ELSE Reading("retry", "middleware", "read")
    /\ UNCHANGED <<procRest, out, authDue, live, holder, loop, bounds>>

retryApply ==
    /\ proc["retry"].at = "read" /\ proc["retry"].left = {}
    /\ Goto("retry", IF ~Wanted("retry") \/ ptr # None THEN "exit" ELSE "apply")
    /\ UNCHANGED <<procRest, out, authDue, live, holder, loop, bounds>>

retryExit_m ==
    /\ proc["retry"].at = "exit"
    /\ proc' = [proc EXCEPT !["retry"] = Idle]
    /\ UNCHANGED <<procRest, out, authDue, live, holder, loop, bounds>>
retryExit ==
    /\ proc["retry"].at = "exit"
    /\ retrying' = FALSE
    /\ proc' = [proc EXCEPT !["retry"] = Idle]
    /\ UNCHANGED <<procRest, out, authDue, live, holder, retried, bounds>>

-----------------------------------------------------------------------------
(* Shutdown: main cancels watchCtx, and unsubscribes when it returns,      *)
(* whether or not the watcher has noticed.                                 *)

stopWatch ==
    /\ ~ctxDone /\ ctxDone' = TRUE
    /\ UNCHANGED <<store, sub, out, authDue, proc, live, holder, loop, bounds>>

watchReturn ==
    /\ proc["watch"].at = "select" /\ ctxDone
    /\ Goto("watch", "done")
    /\ UNCHANGED <<procRest, out, authDue, live, holder, loop, bounds>>

unsubscribe ==
    /\ ctxDone /\ subscribed /\ subscribed' = FALSE
    /\ UNCHANGED <<store, dirty, wake, pump, out, authDue, proc, live, holder,
                   loop, ctxDone, bounds>>

PumpStep == pumpWake \/ pumpTake \/ pumpEmit \/ pumpReturn

ApplyStep(p) ==
    \/ readKey(p) \/ readFails(p)
    \/ applyOther(p) \/ applyUnchanged(p) \/ applyChanged(p)
    \/ discover(p) \/ storeProvider(p) \/ clearProvider(p)

WatchStep ==
    \/ watchKey \/ watchFlush \/ watchReload \/ watchApply
    \/ watchCheck \/ ensureOIDCRetry \/ watchReturn \/ ApplyStep("watch")

RetryStep == retryWake \/ retryApply \/ retryExit \/ ApplyStep("retry")

NotifyStep(s) == mark(s) \/ markWake(s)

Next ==
    \/ \E s \in Writers : NotifyStep(s) \/ \E b \in Bodies : applySettings(s, b)
    \/ PumpStep \/ WatchStep \/ RetryStep
    \/ stopWatch \/ unsubscribe

(* Goroutines go on when they can: queries and discovery have timeouts.    *)
(* Nobody has to send a PUT or to shut down.                               *)
Spec == Init /\ [][Next]_vars
FairSpec ==
    /\ Spec
    /\ \A s \in Writers : WF_vars(NotifyStep(s))
    /\ WF_vars(PumpStep) /\ WF_vars(WatchStep)

-----------------------------------------------------------------------------
(* Properties *)

(* Every variable has the shape of the field or local it stands for.       *)
TypeOK ==
    /\ DOMAIN db = Keys
    /\ \A s \in Writers : wr[s].todo \subseteq Keys
                          /\ (wr[s].at = "idle" => wr[s].todo = {})
    /\ dirty \subseteq Keys /\ pump.keys \subseteq Keys
    /\ pump.at = "emit" <=> pump.keys # {}
    /\ Len(out) <= OutCap
    /\ \A c \in Consumers : DOMAIN live[c] = Reads(c)
    /\ retrying <=> proc["retry"].at # "off"

(* Where a change of key k that consumer c does not have yet is travelling *)
(* or is about to be picked up: a request still to notify it, the dirty    *)
(* set with a wake-up on its way, the pump, the channel, the debounce      *)
(* timer, or a read of the section that has not passed k before the        *)
(* change.                                                                 *)
Carried(c, k) ==
    LET w == proc["watch"] IN
    \/ \E s \in Writers : k \in wr[s].todo
    \/ /\ k \in dirty
       /\ wake \/ pump.at = "take" \/ \E s \in Writers : wr[s].at = "wake"
    \/ k \in pump.keys
    \/ \E i \in DOMAIN out : out[i] = k
    \/ c = "middleware" /\ authDue
    \/ w.for = c /\ w.at \in {"reload", "read"} /\ (k \in w.left \/ w.got[k] = db[k])

(* "no changed key is ever dropped": whatever PUTs commit while sections   *)
(* are being read, keys are coalesced and the channel is full, a consumer  *)
(* that runs on an old value always has the change coming to it.  A store  *)
(* read that fails is given up with a log line.                            *)
NoChangeLost ==
    ~ctxDone /\ failures = 0 =>
        \A c \in Consumers : \A k \in Reads(c) :
            live[c][k] # db[k] => Carried(c, k)

(* Nobody is working on a change. *)
Settled ==
    /\ \A s \in Writers : wr[s].at = "idle"
    /\ dirty = {} /\ pump.at = "wait" /\ ~wake /\ out = <<>> /\ ~authDue
    /\ proc["watch"].at = "select" /\ proc["retry"].at = "off"
    /\ ~ctxDone /\ failures = 0

(* Changes of mode and issuer in any order, also while the provider is     *)
(* being rebuilt, end with the provider of the stored settings, or with    *)
(* none in another mode; as long as the watcher alone has rebuilt it.      *)
ProviderCurrent ==
    Settled /\ ~retried =>
        ptr = IF db[ModeKey] = "oidc" THEN cfg(db) ELSE None

(* "which is what makes the toggles take effect without a restart": the    *)
(* consumers end up with what is stored.                                   *)
Converges ==
    <>[](~ctxDone /\ failures = 0 => \A c \in Consumers : live[c] = Stored(c))

(* Unsubscribing ends the pump goroutine, also one that is blocked on a    *)
(* channel nobody reads any more.                                          *)
PumpExits == ~subscribed ~> pump.at = "done"
=============================================================================
