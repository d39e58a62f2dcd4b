----------------------------- MODULE LiveProofs -----------------------------
(* Proofs about LiveSettings: for any number of requests, keys and         *)
(* consumers and any capacity of the subscriber's channel, a consumer that *)
(* runs on an old value has the change coming to it, and the OIDC provider *)
(* follows the stored settings.                                            *)
EXTENDS LiveSettings, SequenceTheorems, TLAPS

Procs == {"watch", "retry"}
Locals == {"at", "for", "left", "got"}
ReadLabels == {"reload", "read"}
ApplyLabels == {"apply", "discover", "store", "clear"}
WatchLabels == {"select", "check", "mode", "done"} \cup ReadLabels \cup ApplyLabels
RetryLabels == {"off", "sleep", "read", "exit"} \cup ApplyLabels

(* The notifying requests, the subscriber and the channel. *)
Notifying ==
  /\ DOMAIN db = Keys
  /\ wr \in [Writers -> [at : {"idle", "mark", "wake"}, todo : SUBSET Keys]]
  /\ \A s \in Writers : wr[s].at = "idle" => wr[s].todo = {}
  /\ dirty \subseteq Keys /\ wake \in BOOLEAN
  /\ pump \in [at : {"wait", "take", "emit", "done"}, keys : SUBSET Keys]
  /\ pump.at = "emit" <=> pump.keys # {}
  /\ out \in Seq(Keys) /\ Len(out) <= OutCap
  /\ subscribed \in BOOLEAN /\ ctxDone \in BOOLEAN /\ (~subscribed => ctxDone)

(* The watcher and the retry loop, and what they read. *)
Placed ==
  /\ DOMAIN proc = Procs /\ \A p \in Procs : DOMAIN proc[p] = Locals
  /\ proc["watch"].at \in WatchLabels /\ proc["retry"].at \in RetryLabels
  /\ \A p \in Procs : proc[p].at \in ReadLabels =>
       /\ proc[p].for \in Consumers /\ proc[p].left \subseteq Reads(proc[p].for)
       /\ DOMAIN proc[p].got = Reads(proc[p].for)
Configuring ==
  /\ Placed
  /\ DOMAIN live = Consumers /\ \A c \in Consumers : DOMAIN live[c] = Reads(c)
  /\ authDue \in BOOLEAN /\ built \in BOOLEAN
  /\ retrying \in BOOLEAN /\ retried \in BOOLEAN /\ (retrying => retried)
  /\ retrying <=> proc["retry"].at # "off"
  /\ failures \in Nat /\ outages \in Nat

(* The parts of Carried: a change on its way to the watcher, and one that  *)
(* a section being read will have or has.                                  *)
Travels(c, k) ==
  \/ \E s \in Writers : k \in wr[s].todo
  \/ k \in dirty /\ (wake \/ pump.at = "take" \/ \E s \in Writers : wr[s].at = "wake")
  \/ k \in pump.keys
  \/ \E i \in DOMAIN out : out[i] = k
  \/ c = "middleware" /\ authDue
Passing(c, k) ==
  LET w == proc["watch"] IN
  w.for = c /\ w.at \in ReadLabels /\ (k \in w.left \/ w.got[k] = db[k])

(* A section being read has an old value of a key it will not read again.  *)
Missed(c, k) ==
  LET w == proc["watch"] IN
  w.for = c /\ w.at \in ReadLabels /\ k \notin w.left /\ w.got[k] # db[k]

(* No change is lost, nor is one to a key that has been read already.      *)
Delivered ==
  ~ctxDone /\ failures = 0 =>
    \A c \in Consumers : \A k \in Reads(c) :
      /\ live[c][k] # db[k] => Travels(c, k) \/ Passing(c, k)
      /\ Missed(c, k) => Travels(c, k)

(* The provider that settings a ask for, and the settings that the         *)
(* middleware and the provider were last given.                            *)
Want(a) == IF a[ModeKey] = "oidc" THEN cfg(a) ELSE None
Auth == live["middleware"]

(* The auth section is being read, or will be. *)
Coming ==
  \/ Travels("middleware", ModeKey)
  \/ proc["watch"].for = "middleware" /\ proc["watch"].at \in ReadLabels

(* The provider is the one of Auth; or it could not be built and the mode  *)
(* has changed since, which the watcher has still to hear of.              *)
Provided ==
  ~retried /\ ~ctxDone /\ failures = 0 =>
    LET w == proc["watch"] IN
    /\ w.at \in ApplyLabels \cup {"check"} => w.got = Auth
    /\ w.at \notin {"store", "clear"} => ptr = IF built THEN applied ELSE None
    /\ w.at \in {"discover", "store"} => Auth[ModeKey] = "oidc"
    /\ w.at = "store" => built /\ applied = cfg(Auth)
    /\ w.at = "clear" => ~built
    /\ w.at = "check" => ptr \in {Want(Auth), None}
    /\ w.at = "mode" => ptr = None
    /\ w.at \in {"select"} \cup ReadLabels =>
         ptr = Want(Auth) \/ (ptr = None /\ Coming)

LiveInv == Notifying /\ Configuring /\ Delivered /\ Provided

(***************************************************************************)
(* The constants, and which steps touch what                               *)
(***************************************************************************)

(* The assumptions on the constants, one by one. *)
LEMMA LiveConstants ==
  /\ \A k \in Keys : Class[k] \in Classes
  /\ ModeKey \in Keys /\ Class[ModeKey] = "auth"
  /\ OidcKeys \subseteq {k \in Keys : Class[k] = "auth"}
  /\ DOMAIN InitDb = Keys /\ \A b \in Bodies : DOMAIN b \subseteq Keys
  /\ OutCap \in Nat \ {0}
  /\ None \notin {"level", "registry", "notifier", "exporters", "middleware"}
BY SettingsAssumption

(* The consumer of a key reads that key; the auth keys are those that the  *)
(* middleware reads, and the keys of class other are read by nobody.       *)
LEMMA ConsumerOf ==
  /\ \A k \in Keys : Class[k] \notin {"auth", "other"} =>
       Consumer(Class[k]) \in Consumers /\ k \in Reads(Consumer(Class[k]))
  /\ "middleware" \in Consumers
  /\ \A k \in Reads("middleware") : Class[k] = "auth"
  /\ OidcKeys \subseteq Reads("middleware") /\ ModeKey \in Reads("middleware")
  /\ \A c \in Consumers : \A k \in Reads(c) :
       k \in Keys /\ Class[k] # "other" /\ Consumer(Class[k]) = c
  /\ \A c \in Consumers : Reads(c) \subseteq Keys
<1>1. /\ Consumer("log_level") = "level" /\ Consumer("engines") = "registry"
      /\ Consumer("timezone") = "notifier" /\ Consumer("notifications") = "notifier"
      /\ Consumer("integrations") = "exporters" /\ Consumer("auth") = "middleware"
      /\ Consumer("other") = None
  BY DEF Consumer
<1>2. \A k \in Keys : Class[k] \in {"log_level", "engines", "timezone", "notifications",
                                    "integrations", "auth", "other"}
  BY LiveConstants DEF Classes
<1>3. \A k \in Keys : /\ Class[k] # "other" => Consumer(Class[k]) # None
                      /\ Class[k] = "other" => Consumer(Class[k]) = None
                      /\ Class[k] = "auth" <=> Consumer(Class[k]) = "middleware"
  BY <1>1, <1>2, LiveConstants
<1>4. \A k \in Keys : Class[k] # "other" => Consumer(Class[k]) \in Consumers
  BY <1>3 DEF Consumers
<1>5. "middleware" \in Consumers
  BY <1>3, <1>4, LiveConstants
<1>6. \A c \in Consumers : c # None
  BY DEF Consumers
<1> QED BY <1>3, <1>4, <1>5, <1>6, LiveConstants DEF Reads

(* The steps of the requests, of the pump and of the shutdown. *)
Outer ==
  \/ \E s \in Writers : NotifyStep(s) \/ \E b \in Bodies : applySettings(s, b)
  \/ PumpStep \/ stopWatch \/ unsubscribe

(* They leave the watcher, the retry loop and what these configure alone,  *)
(* and only applySettings changes the table.                               *)
LEMMA OuterFrame ==
  ASSUME Outer
  PROVE  /\ UNCHANGED <<authDue, proc, live, ptr, applied, built, retrying, retried,
                        failures, outages>>
         /\ db' = db \/ \E s \in Writers, b \in Bodies : applySettings(s, b)
<1>1. \A s \in Writers : NotifyStep(s) =>
        UNCHANGED <<db, authDue, proc, live, ptr, applied, built, retrying, retried,
                    failures, outages>>
  BY DEF NotifyStep, mark, markWake, holder, loop, bounds
<1>2. \A s \in Writers, b \in Bodies : applySettings(s, b) =>
        UNCHANGED <<authDue, proc, live, ptr, applied, built, retrying, retried,
                    failures, outages>>
  BY DEF applySettings, holder, loop, bounds
<1>3. PumpStep =>
        UNCHANGED <<db, authDue, proc, live, ptr, applied, built, retrying, retried,
                    failures, outages>>
  BY DEF PumpStep, pumpWake, pumpTake, pumpEmit, pumpReturn, pumpRest, store, holder, loop,
         bounds
<1>4. stopWatch \/ unsubscribe =>
        UNCHANGED <<db, authDue, proc, live, ptr, applied, built, retrying, retried,
                    failures, outages>>
  BY DEF stopWatch, unsubscribe, store, holder, loop, bounds
<1> QED BY <1>1, <1>2, <1>3, <1>4 DEF Outer

(* The watcher and the retry loop leave the table, the requests, the dirty *)
(* set and the pump alone; the channel and the timer are the watcher's.    *)
LEMMA InnerFrame ==
  ASSUME WatchStep \/ RetryStep
  PROVE  /\ UNCHANGED <<db, wr, dirty, wake, subscribed, pump, ctxDone>>
         /\ watchKey \/ watchFlush \/ UNCHANGED <<out, authDue>>
<1>1. \A p : ApplyStep(p) =>
        UNCHANGED <<db, wr, dirty, wake, subscribed, pump, ctxDone, out, authDue>>
  BY DEF ApplyStep, readKey, readFails, applyOther, applyUnchanged, applyChanged, discover,
         storeProvider, clearProvider, procRest, oidcRest, store, sub
<1>2. watchReload \/ watchApply \/ watchCheck \/ ensureOIDCRetry \/ watchReturn =>
        UNCHANGED <<db, wr, dirty, wake, subscribed, pump, ctxDone, out, authDue>>
  BY DEF watchReload, watchApply, watchCheck, ensureOIDCRetry, watchReturn, procRest, store, sub
<1>3. retryWake \/ retryApply \/ retryExit =>
        UNCHANGED <<db, wr, dirty, wake, subscribed, pump, ctxDone, out, authDue>>
  BY DEF retryWake, retryApply, retryExit, procRest, store, sub
<1>4. watchKey \/ watchFlush => UNCHANGED <<db, wr, dirty, wake, subscribed, pump, ctxDone>>
  BY DEF watchKey, watchFlush, procRest, store, sub
<1> QED BY <1>1, <1>2, <1>3, <1>4 DEF WatchStep, RetryStep

(* Every step is one of those, or changes nothing. *)
LEMMA StepsSplit ==
  ASSUME [Next]_vars
  PROVE  Outer \/ WatchStep \/ RetryStep \/ UNCHANGED vars
BY DEF Next, Outer

(* A stutter changes nothing. *)
LEMMA Stutters ==
  ASSUME UNCHANGED vars
  PROVE  UNCHANGED <<db, wr, dirty, wake, subscribed, pump, out, authDue, proc, live, ptr,
                     applied, built, retrying, retried, ctxDone, failures, outages>>
BY DEF vars, store, sub, holder, loop, bounds

(* The channel takes one more key, behind the others. *)
LEMMA OutGrows ==
  ASSUME NEW q \in Seq(Keys), NEW k \in Keys
  PROVE  /\ Append(q, k) \in Seq(Keys) /\ Len(q) \in Nat /\ Len(Append(q, k)) = Len(q) + 1
         /\ Append(q, k)[Len(q) + 1] = k /\ Len(q) + 1 \in DOMAIN Append(q, k)
         /\ \A i \in DOMAIN q : i \in DOMAIN Append(q, k) /\ Append(q, k)[i] = q[i]
BY AppendProperties, LenProperties

(* The channel gives its first key; the others move up by one. *)
LEMMA OutShrinks ==
  ASSUME NEW q \in Seq(Keys), q # <<>>
  PROVE  /\ Tail(q) \in Seq(Keys) /\ Len(Tail(q)) = Len(q) - 1 /\ Head(q) \in Keys
         /\ Len(q) \in Nat /\ Len(q) > 0 /\ Head(q) = q[1]
         /\ \A i \in DOMAIN q : i # 1 => /\ i - 1 \in DOMAIN Tail(q)
                                         /\ Tail(q)[i - 1] = q[i]
<1>1. /\ Tail(q) \in Seq(Keys) /\ Len(Tail(q)) = Len(q) - 1 /\ Head(q) \in Keys
      /\ Len(q) \in Nat /\ Len(q) > 0 /\ Head(q) = q[1]
  BY HeadTailProperties, LenProperties, EmptySeq
<1>2. DOMAIN q = 1..Len(q) /\ DOMAIN Tail(q) = 1..Len(Tail(q))
      /\ \A i \in 1..Len(Tail(q)) : Tail(q)[i] = q[i + 1]
  BY <1>1, HeadTailProperties, LenProperties
<1> QED BY <1>1, <1>2

(***************************************************************************)
(* Types                                                                   *)
(***************************************************************************)

(* What the requests and the pump do to the keys to be notified. *)
LEMMA NotifyingStep ==
  ASSUME Notifying, [Next]_vars
  PROVE  Notifying'
<1>1. ASSUME NEW s \in Writers, NEW b \in Bodies, applySettings(s, b) PROVE Notifying'
  <2>1. /\ db' = [k \in Keys |-> IF k \in {x \in DOMAIN b : b[x] # db[x]} THEN b[k] ELSE db[k]]
        /\ wr' = [wr EXCEPT ![s] = [at |-> "mark", todo |-> {x \in DOMAIN b : b[x] # db[x]}]]
        /\ UNCHANGED <<dirty, wake, subscribed, pump, out, ctxDone>>
    BY <1>1 DEF applySettings, sub
  <2>2. DOMAIN b \subseteq Keys
    BY LiveConstants
  <2>3. wr' \in [Writers -> [at : {"idle", "mark", "wake"}, todo : SUBSET Keys]]
        /\ \A q \in Writers : wr'[q].at = "idle" => wr'[q].todo = {}
    BY <2>1, <2>2 DEF Notifying
  <2>4. DOMAIN db' = Keys
    BY <2>1
  <2> QED BY <2>1, <2>3, <2>4 DEF Notifying
<1>2. ASSUME NEW s \in Writers, mark(s) PROVE Notifying'
  <2>1. PICK k \in wr[s].todo :
          IF subscribed
          THEN /\ dirty' = dirty \cup {k}
               /\ wr' = [wr EXCEPT ![s] = [at |-> "wake", todo |-> wr[s].todo \ {k}]]
          ELSE /\ wr' = [wr EXCEPT ![s] = [at |-> IF wr[s].todo \ {k} = {} THEN "idle" ELSE "mark",
                                           todo |-> wr[s].todo \ {k}]]
               /\ UNCHANGED dirty
    BY <1>2 DEF mark
  <2>2. UNCHANGED <<db, wake, subscribed, pump, out, ctxDone>>
    BY <1>2 DEF mark
  <2>3. wr[s].todo \subseteq Keys /\ dirty' \subseteq Keys
    BY <2>1 DEF Notifying
  <2>4. wr' \in [Writers -> [at : {"idle", "mark", "wake"}, todo : SUBSET Keys]]
        /\ \A q \in Writers : wr'[q].at = "idle" => wr'[q].todo = {}
    BY <2>1, <2>3 DEF Notifying
  <2> QED BY <2>2, <2>3, <2>4 DEF Notifying
<1>3. ASSUME NEW s \in Writers, markWake(s) PROVE Notifying'
  <2>1. /\ wr' = [wr EXCEPT ![s].at = IF wr[s].todo = {} THEN "idle" ELSE "mark"]
        /\ wake' = TRUE /\ UNCHANGED <<db, dirty, subscribed, pump, out, ctxDone>>
    BY <1>3 DEF markWake
  <2>2. wr' \in [Writers -> [at : {"idle", "mark", "wake"}, todo : SUBSET Keys]]
        /\ \A q \in Writers : wr'[q].at = "idle" => wr'[q].todo = {}
    BY <2>1 DEF Notifying
  <2> QED BY <2>1, <2>2 DEF Notifying
<1>4. ASSUME PumpStep PROVE Notifying'
  <2>1. UNCHANGED <<db, wr, subscribed, ctxDone>>
    BY <1>4 DEF PumpStep, pumpWake, pumpTake, pumpEmit, pumpReturn, pumpRest, store
  <2>2. CASE pumpWake
    <3>1. wake' = FALSE /\ pump' = [pump EXCEPT !.at = "take"] /\ UNCHANGED <<dirty, out>>
          /\ pump.at = "wait"
      BY <2>2 DEF pumpWake
    <3> QED BY <2>1, <3>1 DEF Notifying
  <2>3. CASE pumpTake
    <3>1. /\ pump' = [at |-> IF dirty = {} THEN "wait" ELSE "emit", keys |-> dirty]
          /\ dirty' = {} /\ UNCHANGED <<wake, out>>
      BY <2>3 DEF pumpTake
    <3> QED BY <2>1, <3>1 DEF Notifying
  <2>4. CASE pumpEmit
    <3>1. PICK k \in pump.keys :
            /\ out' = Append(out, k)
            /\ pump' = [at |-> IF pump.keys = {k} THEN "wait" ELSE "emit",
                        keys |-> pump.keys \ {k}]
      BY <2>4 DEF pumpEmit
    <3>2. Len(out) < OutCap /\ UNCHANGED <<dirty, wake>>
      BY <2>4 DEF pumpEmit
    <3>3. k \in Keys
      BY DEF Notifying
    <3>4. out' \in Seq(Keys) /\ Len(out') <= OutCap
      BY <3>1, <3>2, <3>3, OutGrows, LiveConstants DEF Notifying
    <3>5. /\ pump' \in [at : {"wait", "take", "emit", "done"}, keys : SUBSET Keys]
          /\ pump'.at = "emit" <=> pump'.keys # {}
      BY <3>1 DEF Notifying
    <3> QED BY <2>1, <3>2, <3>4, <3>5 DEF Notifying
  <2>5. CASE pumpReturn
    <3>1. pump' = [at |-> "done", keys |-> {}] /\ UNCHANGED <<dirty, wake, out>>
      BY <2>5 DEF pumpReturn
    <3> QED BY <2>1, <3>1 DEF Notifying
  <2> QED BY <1>4, <2>2, <2>3, <2>4, <2>5 DEF PumpStep
<1>5. ASSUME stopWatch \/ unsubscribe PROVE Notifying'
  <2>1. UNCHANGED <<db, wr, dirty, wake, pump, out>>
        /\ \/ ctxDone' = TRUE /\ UNCHANGED subscribed
           \/ ctxDone /\ subscribed' = FALSE /\ UNCHANGED ctxDone
    BY <1>5 DEF stopWatch, unsubscribe, store, sub
  <2> QED BY <2>1 DEF Notifying
<1>6. ASSUME WatchStep \/ RetryStep PROVE Notifying'
  <2>1. UNCHANGED <<db, wr, dirty, wake, subscribed, pump, ctxDone>>
    BY <1>6, InnerFrame
  <2>2. out' = out \/ (out # <<>> /\ out' = Tail(out))
    BY <1>6, InnerFrame DEF watchKey, watchFlush
  <2>3. out \in Seq(Keys) /\ Len(out) <= OutCap /\ OutCap \in Nat
    BY LiveConstants DEF Notifying
  <2>4. CASE out # <<>> /\ out' = Tail(out)
    <3>1. out' \in Seq(Keys) /\ Len(out') = Len(out) - 1 /\ Len(out) \in Nat
      BY <2>3, <2>4, OutShrinks
    <3> QED BY <2>1, <2>3, <3>1 DEF Notifying
  <2> QED BY <2>1, <2>2, <2>3, <2>4 DEF Notifying
<1>7. ASSUME UNCHANGED vars PROVE Notifying'
  BY <1>7, Stutters DEF Notifying
<1> QED BY <1>1, <1>2, <1>3, <1>4, <1>5, <1>6, <1>7, StepsSplit DEF Outer, NotifyStep

(* A process begins to read the section of consumer c. *)
LEMMA ReadingBegins ==
  ASSUME DOMAIN proc = Procs, NEW p \in Procs, NEW c, NEW at, Reading(p, c, at)
  PROVE  /\ DOMAIN proc' = Procs /\ DOMAIN proc'[p] = Locals
         /\ proc'[p].at = at /\ proc'[p].for = c /\ proc'[p].left = Reads(c)
         /\ DOMAIN proc'[p].got = Reads(c)
         /\ \A q \in Procs : q # p => proc'[q] = proc[q]
BY DEF Reading, Locals

(* A process goes on to label l, with its locals as they are. *)
LEMMA Goes ==
  ASSUME DOMAIN proc = Procs, NEW p \in Procs, NEW l, Goto(p, l), DOMAIN proc[p] = Locals
  PROVE  /\ DOMAIN proc' = Procs /\ DOMAIN proc'[p] = Locals
         /\ proc'[p].at = l /\ proc'[p].for = proc[p].for /\ proc'[p].left = proc[p].left
         /\ proc'[p].got = proc[p].got
         /\ \A q \in Procs : q # p => proc'[q] = proc[q]
BY DEF Goto, Locals

(* A process drops its locals. *)
LEMMA Drops ==
  ASSUME DOMAIN proc = Procs, NEW p \in Procs, NEW l,
         proc' = [proc EXCEPT ![p] = [Idle EXCEPT !.at = l]]
  PROVE  /\ DOMAIN proc' = Procs /\ DOMAIN proc'[p] = Locals /\ proc'[p].at = l
         /\ \A q \in Procs : q # p => proc'[q] = proc[q]
BY DEF Idle, Locals

(* A query takes the value of one more key. *)
LEMMA KeyIsRead ==
  ASSUME DOMAIN proc = Procs, NEW p \in Procs, DOMAIN proc[p] = Locals, readKey(p)
  PROVE  \E k \in proc[p].left :
           /\ DOMAIN proc' = Procs /\ DOMAIN proc'[p] = Locals
           /\ proc[p].at = "read" /\ proc'[p].at = "read" /\ proc'[p].for = proc[p].for
           /\ proc'[p].left = proc[p].left \ {k}
           /\ DOMAIN proc'[p].got = DOMAIN proc[p].got
           /\ \A x \in DOMAIN proc[p].got :
                proc'[p].got[x] = IF x = k THEN db[k] ELSE proc[p].got[x]
           /\ \A q \in Procs : q # p => proc'[q] = proc[q]
<1>1. proc[p].at = "read"
  BY DEF readKey
<1>2. PICK k \in proc[p].left :
         proc' = [proc EXCEPT ![p].left = @ \ {k}, ![p].got[k] = db[k]]
  BY DEF readKey
<1>3. /\ DOMAIN proc' = Procs /\ DOMAIN proc'[p] = Locals
      /\ proc'[p].at = "read" /\ proc'[p].for = proc[p].for
      /\ proc'[p].left = proc[p].left \ {k}
      /\ proc'[p].got = [proc[p].got EXCEPT ![k] = db[k]]
      /\ \A q \in Procs : q # p => proc'[q] = proc[q]
  BY <1>1, <1>2 DEF Locals
<1>4. /\ DOMAIN proc'[p].got = DOMAIN proc[p].got
      /\ \A x \in DOMAIN proc[p].got :
           proc'[p].got[x] = IF x = k THEN db[k] ELSE proc[p].got[x]
  BY <1>3
<1> QED BY <1>1, <1>3, <1>4

(* A process that moves without beginning to read, and one that begins.    *)
LEMMA MovesPlaced ==
  ASSUME Placed, NEW p \in Procs, DOMAIN proc' = Procs, DOMAIN proc'[p] = Locals,
         \A q \in Procs : q # p => proc'[q] = proc[q],
         p = "watch" => proc'[p].at \in WatchLabels \ ReadLabels,
         p = "retry" => proc'[p].at \in RetryLabels \ ReadLabels
  PROVE  Placed'
<1>1. "watch" \in Procs /\ "retry" \in Procs /\ \A q \in Procs : q = "watch" \/ q = "retry"
  BY DEF Procs
<1>2. \A q \in Procs : DOMAIN proc'[q] = Locals
  BY DEF Placed
<1>3. proc'["watch"].at \in WatchLabels /\ proc'["retry"].at \in RetryLabels
  BY <1>1 DEF Placed
<1>4. \A q \in Procs : proc'[q].at \in ReadLabels => q # p
  BY <1>1
<1> QED BY <1>2, <1>3, <1>4 DEF Placed

(* The same for a process that begins to read. *)
LEMMA ReadsPlaced ==
  ASSUME Placed, NEW p \in Procs, NEW c \in Consumers, NEW at \in ReadLabels,
         Reading(p, c, at), p = "watch" \/ at = "read"
  PROVE  Placed'
<1>1. "watch" \in Procs /\ "retry" \in Procs /\ \A q \in Procs : q = "watch" \/ q = "retry"
  BY DEF Procs
<1>2. /\ DOMAIN proc' = Procs /\ DOMAIN proc'[p] = Locals
      /\ proc'[p].at = at /\ proc'[p].for = c /\ proc'[p].left = Reads(c)
      /\ DOMAIN proc'[p].got = Reads(c)
      /\ \A q \in Procs : q # p => proc'[q] = proc[q]
  BY ReadingBegins DEF Placed
<1>3. proc'["watch"].at \in WatchLabels /\ proc'["retry"].at \in RetryLabels
  BY <1>1, <1>2 DEF Placed, WatchLabels, RetryLabels, ReadLabels
<1>4. \A q \in Procs : /\ DOMAIN proc'[q] = Locals
                       /\ proc'[q].at \in ReadLabels =>
                            /\ proc'[q].for \in Consumers
                            /\ proc'[q].left \subseteq Reads(proc'[q].for)
                            /\ DOMAIN proc'[q].got = Reads(proc'[q].for)
  <2> SUFFICES ASSUME NEW q \in Procs
               PROVE  /\ DOMAIN proc'[q] = Locals
                      /\ proc'[q].at \in ReadLabels =>
                            /\ proc'[q].for \in Consumers
                            /\ proc'[q].left \subseteq Reads(proc'[q].for)
                            /\ DOMAIN proc'[q].got = Reads(proc'[q].for)
    OBVIOUS
  <2>1. CASE q = p
    BY <1>2, <2>1
  <2>2. CASE q # p
    BY <1>2, <2>2 DEF Placed
  <2> QED BY <2>1, <2>2
<1> QED BY <1>2, <1>3, <1>4 DEF Placed

(* What both processes do inside apply, and where they go from there.      *)
LEMMA ApplyMoves ==
  ASSUME Placed, NEW p \in Procs, ApplyStep(p)
  PROVE  /\ Placed' /\ \A q \in Procs : q # p => proc'[q] = proc[q]
         /\ UNCHANGED <<live, out, authDue, retrying, retried>>
         /\ p = "retry" => proc[p].at # "off" /\ proc'[p].at # "off"
         /\ failures' \in {failures, failures + 1} /\ outages' \in {outages, outages + 1}
         /\ built' \in {built, TRUE, FALSE}
<1>0. p \in {"watch", "retry"} /\ DOMAIN proc = Procs /\ DOMAIN proc[p] = Locals
  BY DEF Procs, Placed
<1>1. CASE readKey(p)
  <2>1. UNCHANGED <<live, out, authDue, retrying, retried, failures, outages, built>>
    BY <1>1 DEF readKey, loop, holder, bounds
  <2>2. PICK k \in proc[p].left :
           /\ DOMAIN proc' = Procs /\ DOMAIN proc'[p] = Locals
           /\ proc[p].at = "read" /\ proc'[p].at = "read" /\ proc'[p].for = proc[p].for
           /\ proc'[p].left = proc[p].left \ {k}
           /\ DOMAIN proc'[p].got = DOMAIN proc[p].got
           /\ \A q \in Procs : q # p => proc'[q] = proc[q]
    BY <1>0, <1>1, KeyIsRead
  <2>3. Placed'
    <3>1. proc'["watch"].at \in WatchLabels /\ proc'["retry"].at \in RetryLabels
      BY <1>0, <2>2 DEF Placed, Procs
    <3>2. ASSUME NEW q \in Procs
          PROVE  /\ DOMAIN proc'[q] = Locals
                 /\ proc'[q].at \in ReadLabels =>
                            /\ proc'[q].for \in Consumers
                            /\ proc'[q].left \subseteq Reads(proc'[q].for)
                            /\ DOMAIN proc'[q].got = Reads(proc'[q].for)
      <4>1. CASE q = p
        <5>1. proc[p].at \in ReadLabels
          BY <2>2 DEF ReadLabels
        <5>2. /\ proc[p].for \in Consumers /\ proc[p].left \subseteq Reads(proc[p].for)
              /\ DOMAIN proc[p].got = Reads(proc[p].for)
          BY <5>1 DEF Placed
        <5> QED BY <2>2, <4>1, <5>2
      <4>2. CASE q # p
        BY <2>2, <4>2 DEF Placed
      <4> QED BY <4>1, <4>2
    <3> QED BY <2>2, <3>1, <3>2 DEF Placed
  <2> QED BY <2>1, <2>2, <2>3
<1>2. CASE readFails(p)
  <2>1. /\ UNCHANGED <<live, out, authDue, retrying, retried, built, outages>>
        /\ failures' \in {failures, failures + 1}
    BY <1>2 DEF readFails, loop, holder
  <2>2. proc' = [proc EXCEPT ![p] = [Idle EXCEPT !.at = IF p = "watch" THEN "select" ELSE "sleep"]]
        /\ proc[p].at \in {"reload", "mode", "read"}
    BY <1>2 DEF readFails
  <2>3. /\ DOMAIN proc' = Procs /\ DOMAIN proc'[p] = Locals
        /\ proc'[p].at = IF p = "watch" THEN "select" ELSE "sleep"
        /\ \A q \in Procs : q # p => proc'[q] = proc[q]
    BY <1>0, <2>2, Drops
  <2>4. Placed'
    BY <1>0, <2>3, MovesPlaced DEF WatchLabels, RetryLabels, ReadLabels
  <2> QED BY <1>0, <2>1, <2>2, <2>3, <2>4
<1>3. CASE \/ applyOther(p) \/ applyUnchanged(p) \/ applyChanged(p)
           \/ discover(p) \/ storeProvider(p) \/ clearProvider(p)
  <2>1. /\ UNCHANGED <<live, out, authDue, retrying, retried, failures>>
        /\ outages' \in {outages, outages + 1} /\ built' \in {built, TRUE, FALSE}
        /\ proc[p].at \in ApplyLabels
    BY <1>3 DEF applyOther, applyUnchanged, applyChanged, discover, storeProvider,
                clearProvider, oidcRest, loop, holder, ApplyLabels
  <2>2. PICK l \in {"clear", "discover", "store", IF p = "watch" THEN "check" ELSE "exit",
                    IF p = "watch" THEN "check" ELSE "sleep"} : Goto(p, l)
    BY <1>0, <1>3 DEF applyOther, applyUnchanged, applyChanged, discover, storeProvider,
                clearProvider, Returned
  <2>3. /\ DOMAIN proc' = Procs /\ DOMAIN proc'[p] = Locals /\ proc'[p].at = l
        /\ \A q \in Procs : q # p => proc'[q] = proc[q]
    BY <1>0, <2>2, Goes
  <2>4. Placed'
    BY <1>0, <2>3, MovesPlaced DEF WatchLabels, RetryLabels, ReadLabels, ApplyLabels
  <2> QED BY <1>0, <2>1, <2>3, <2>4 DEF ApplyLabels
<1> QED BY <1>1, <1>2, <1>3 DEF ApplyStep

(* The watcher and the retry loop keep their places, whatever they do. *)
LEMMA ConfiguringStep ==
  ASSUME Notifying, Configuring, [Next]_vars
  PROVE  Configuring'
<1>0. Placed /\ DOMAIN proc = Procs /\ "watch" \in Procs /\ "retry" \in Procs
      /\ DOMAIN proc["watch"] = Locals /\ DOMAIN proc["retry"] = Locals
  BY DEF Configuring, Placed, Procs
<1>1. CASE Outer \/ UNCHANGED vars
  <2>1. UNCHANGED <<authDue, proc, live, built, retrying, retried, failures, outages>>
    BY <1>1, OuterFrame, Stutters
  <2> QED BY <2>1 DEF Configuring, Placed
<1>2. ASSUME NEW p \in Procs, ApplyStep(p) PROVE Configuring'
  <2>1. /\ Placed' /\ \A q \in Procs : q # p => proc'[q] = proc[q]
        /\ UNCHANGED <<live, out, authDue, retrying, retried>>
        /\ p = "retry" => proc[p].at # "off" /\ proc'[p].at # "off"
        /\ failures' \in {failures, failures + 1} /\ outages' \in {outages, outages + 1}
        /\ built' \in {built, TRUE, FALSE}
    BY <1>0, <1>2, ApplyMoves
  <2>2. retrying' <=> proc'["retry"].at # "off"
    BY <1>0, <2>1 DEF Configuring
  <2>3. failures' \in Nat /\ outages' \in Nat
    BY <2>1 DEF Configuring
  <2>4. built' \in BOOLEAN
    BY <2>1, Zenon DEF Configuring
  <2> QED BY <2>1, <2>2, <2>3, <2>4 DEF Configuring
<1>3. CASE watchKey
  <2>1. /\ out # <<>> /\ UNCHANGED <<live, built, retrying, retried, failures, outages>>
        /\ LET class == Class[Head(out)] IN
           /\ authDue' = (authDue \/ class = "auth")
           /\ IF class \in {"auth", "other"} THEN UNCHANGED proc
              ELSE Reading("watch", Consumer(class), IF class = "timezone" THEN "reload" ELSE "read")
    BY <1>3 DEF watchKey, holder, loop, bounds
  <2>2. Head(out) \in Keys
    BY <2>1, OutShrinks DEF Notifying
  <2>3. authDue' \in BOOLEAN
    BY <2>1 DEF Configuring
  <2>4. CASE UNCHANGED proc
    BY <2>1, <2>3, <2>4 DEF Configuring, Placed
  <2>5. CASE Class[Head(out)] \notin {"auth", "other"}
    <3>1. PICK at \in ReadLabels : Reading("watch", Consumer(Class[Head(out)]), at)
      BY <2>1, <2>5 DEF ReadLabels
    <3>2. Consumer(Class[Head(out)]) \in Consumers
      BY <2>2, <2>5, ConsumerOf
    <3>3. Placed'
      BY <1>0, <3>1, <3>2, ReadsPlaced
    <3>4. proc'["retry"] = proc["retry"]
      BY <1>0, <3>1, ReadingBegins
    <3> QED BY <2>1, <2>3, <3>3, <3>4 DEF Configuring
  <2> QED BY <2>1, <2>4, <2>5
<1>4. CASE watchFlush
  <2>1. /\ UNCHANGED <<live, built, retrying, retried, failures, outages>>
        /\ authDue' = FALSE /\ Reading("watch", "middleware", "read")
    BY <1>4 DEF watchFlush, holder, loop, bounds
  <2>2. Placed'
    BY <1>0, <2>1, ReadsPlaced, ConsumerOf DEF ReadLabels
  <2>3. proc'["retry"] = proc["retry"]
    BY <1>0, <2>1, ReadingBegins
  <2> QED BY <2>1, <2>2, <2>3 DEF Configuring
<1>5. CASE watchReload
  <2>1. /\ UNCHANGED <<live, built, retrying, retried, failures, outages, authDue>>
        /\ proc["watch"].at = "reload" /\ Goto("watch", "read")
    BY <1>5 DEF watchReload, holder, loop, bounds
  <2>2. /\ DOMAIN proc' = Procs /\ DOMAIN proc'["watch"] = Locals /\ proc'["watch"].at = "read"
        /\ proc'["watch"].for = proc["watch"].for /\ proc'["watch"].left = proc["watch"].left
        /\ proc'["watch"].got = proc["watch"].got /\ proc'["retry"] = proc["retry"]
    BY <1>0, <2>1, Goes
  <2>3. Placed'
    BY <1>0, <2>1, <2>2 DEF Placed, Procs, WatchLabels, ReadLabels
  <2> QED BY <2>1, <2>2, <2>3 DEF Configuring
<1>6. CASE watchApply
  <2>1. /\ proc["watch"].at = "read"
        /\ live' = [live EXCEPT ![proc["watch"].for] = proc["watch"].got]
        /\ IF proc["watch"].for = "middleware" THEN Goto("watch", "apply")
           ELSE proc' = [proc EXCEPT !["watch"] = [Idle EXCEPT !.at = "select"]]
        /\ UNCHANGED <<built, retrying, retried, failures, outages, authDue>>
    BY <1>6 DEF watchApply, holder, loop, bounds
  <2>2. /\ DOMAIN proc' = Procs /\ DOMAIN proc'["watch"] = Locals
        /\ proc'["watch"].at \in {"apply", "select"} /\ proc'["retry"] = proc["retry"]
    BY <1>0, <2>1, Goes, Drops
  <2>3. Placed'
    BY <1>0, <2>2, MovesPlaced DEF Procs, WatchLabels, ReadLabels, ApplyLabels
  <2>4. DOMAIN proc["watch"].got = Reads(proc["watch"].for)
    BY <1>0, <2>1 DEF Placed, ReadLabels
  <2>5. DOMAIN live' = Consumers /\ \A c \in Consumers : DOMAIN live'[c] = Reads(c)
    BY <2>1, <2>4 DEF Configuring
  <2> QED BY <2>1, <2>2, <2>3, <2>5 DEF Configuring
<1>7. CASE watchCheck \/ watchReturn
  <2>1. UNCHANGED <<live, built, retrying, retried, failures, outages, authDue>>
    BY <1>7 DEF watchCheck, watchReturn, holder, loop, bounds
  <2>2. PICK l \in {"mode", "select", "done"} :
           Goto("watch", l) \/ proc' = [proc EXCEPT !["watch"] = [Idle EXCEPT !.at = l]]
    BY <1>7 DEF watchCheck, watchReturn
  <2>3. /\ DOMAIN proc' = Procs /\ DOMAIN proc'["watch"] = Locals /\ proc'["watch"].at = l
        /\ proc'["retry"] = proc["retry"]
    BY <1>0, <2>2, Goes, Drops
  <2>4. Placed'
    BY <1>0, <2>3, MovesPlaced DEF Procs, WatchLabels, ReadLabels
  <2> QED BY <2>1, <2>3, <2>4 DEF Configuring
<1>8. CASE ensureOIDCRetry
  <2>1. PICK start \in BOOLEAN :
          /\ start => ~retrying
          /\ proc' = [proc EXCEPT !["watch"] = [Idle EXCEPT !.at = "select"],
                                  !["retry"] = IF start THEN [Idle EXCEPT !.at = "sleep"] ELSE @]
          /\ retrying' = (retrying \/ start) /\ retried' = (retried \/ start)
    BY <1>8 DEF ensureOIDCRetry
  <2>2. UNCHANGED <<live, built, failures, outages, authDue>>
    BY <1>8 DEF ensureOIDCRetry, holder, bounds
  <2>3. /\ DOMAIN proc' = Procs /\ DOMAIN proc'["watch"] = Locals
        /\ proc'["watch"].at = "select"
        /\ start => proc'["retry"].at = "sleep" /\ DOMAIN proc'["retry"] = Locals
        /\ ~start => proc'["retry"] = proc["retry"]
    BY <1>0, <2>1 DEF Idle, Locals
  <2>4. Placed'
    <3>1. \A q \in Procs : DOMAIN proc'[q] = Locals
      BY <1>0, <2>3 DEF Procs
    <3>2. proc'["watch"].at \in WatchLabels /\ proc'["retry"].at \in RetryLabels
      BY <1>0, <2>3 DEF Placed, WatchLabels, RetryLabels
    <3>3. \A q \in Procs : proc'[q].at \in ReadLabels => q = "retry" /\ proc'[q] = proc[q]
      BY <2>3 DEF Procs, ReadLabels
    <3> QED BY <1>0, <2>3, <3>1, <3>2, <3>3 DEF Placed
  <2>5. /\ retrying' <=> proc'["retry"].at # "off"
        /\ retrying' \in BOOLEAN /\ retried' \in BOOLEAN /\ (retrying' => retried')
    <3>1. CASE start
      BY <2>1, <2>3, <3>1
    <3>2. CASE ~start
      BY <2>1, <2>3, <3>2 DEF Configuring
    <3> QED BY <3>1, <3>2
  <2> QED BY <2>2, <2>4, <2>5 DEF Configuring
<1>9. CASE retryWake \/ retryApply
  <2>1. /\ UNCHANGED <<live, built, retrying, retried, failures, outages, authDue>>
        /\ proc["retry"].at \in {"sleep", "read"}
    BY <1>9 DEF retryWake, retryApply, holder, loop, bounds
  <2>2. (\E l \in {"exit", "apply"} : Goto("retry", l)) \/ Reading("retry", "middleware", "read")
    BY <1>9 DEF retryWake, retryApply
  <2>3. ASSUME NEW l \in {"exit", "apply"}, Goto("retry", l)
        PROVE  Placed' /\ proc'["retry"].at # "off"
    <3>1. /\ DOMAIN proc' = Procs /\ DOMAIN proc'["retry"] = Locals /\ proc'["retry"].at = l
          /\ \A q \in Procs : q # "retry" => proc'[q] = proc[q]
      BY <1>0, <2>3, Goes
    <3> QED BY <1>0, <3>1, MovesPlaced DEF RetryLabels, ReadLabels, ApplyLabels
  <2>4. Reading("retry", "middleware", "read") => Placed' /\ proc'["retry"].at # "off"
    BY <1>0, ReadsPlaced, ReadingBegins, ConsumerOf DEF ReadLabels
  <2>5. Placed' /\ proc'["retry"].at # "off"
    BY <2>2, <2>3, <2>4
  <2>6. retrying
    BY <2>1 DEF Configuring
  <2> QED BY <2>1, <2>5, <2>6 DEF Configuring
<1>10. CASE retryExit
  <2>1. /\ UNCHANGED <<live, built, retried, failures, outages, authDue>>
        /\ retrying' = FALSE /\ proc' = [proc EXCEPT !["retry"] = Idle]
    BY <1>10 DEF retryExit, holder, bounds
  <2>2. /\ DOMAIN proc' = Procs /\ DOMAIN proc'["retry"] = Locals
        /\ proc'["retry"].at = "off" /\ proc'["watch"] = proc["watch"]
    BY <1>0, <2>1 DEF Idle, Locals
  <2>3. Placed'
    BY <1>0, <2>2, MovesPlaced DEF Procs, RetryLabels, ReadLabels
  <2> QED BY <2>1, <2>2, <2>3 DEF Configuring
<1> QED BY <1>0, <1>1, <1>2, <1>3, <1>4, <1>5, <1>6, <1>7, <1>8, <1>9, <1>10, StepsSplit
        DEF WatchStep, RetryStep

(***************************************************************************)
(* A change on its way                                                     *)
(***************************************************************************)

(* What happens to a change that travels to consumer c: it travels on, or  *)
(* the watcher begins to read the section of c.                            *)
LEMMA TravelsStep ==
  ASSUME Notifying, Configuring, [Next]_vars, ~ctxDone',
         NEW c \in Consumers, NEW k \in Reads(c), Travels(c, k)
  PROVE  \/ Travels(c, k)'
         \/ /\ proc'["watch"].at \in ReadLabels /\ proc'["watch"].for = c
            /\ proc'["watch"].left = Reads(c)
<1>0. /\ k \in Keys /\ "watch" \in Procs /\ DOMAIN proc = Procs
      /\ Consumer(Class[k]) = c /\ Class[k] # "other"
  BY ConsumerOf DEF Configuring, Placed, Procs
<1>1. ASSUME NEW s \in Writers, NEW b \in Bodies, applySettings(s, b) PROVE Travels(c, k)'
  <2>1. /\ wr[s].at = "idle"
        /\ wr' = [wr EXCEPT ![s] = [at |-> "mark", todo |-> {x \in DOMAIN b : b[x] # db[x]}]]
        /\ UNCHANGED <<dirty, wake, pump, out, authDue>>
    BY <1>1 DEF applySettings, sub
  <2>2. wr[s].todo = {}
    BY <2>1 DEF Notifying
  <2>3. \A q \in Writers : q # s => wr'[q] = wr[q]
    BY <2>1 DEF Notifying
  <2>4. /\ \A q \in Writers : k \in wr[q].todo => k \in wr'[q].todo
        /\ \A q \in Writers : wr[q].at = "wake" => wr'[q].at = "wake"
    BY <2>1, <2>2, <2>3
  <2> QED BY <2>1, <2>4 DEF Travels
<1>2. ASSUME NEW s \in Writers, mark(s) PROVE Travels(c, k)'
  <2>1. subscribed
    BY <1>2 DEF mark, Notifying
  <2>2. PICK x \in wr[s].todo : /\ dirty' = dirty \cup {x}
               /\ wr' = [wr EXCEPT ![s] = [at |-> "wake", todo |-> wr[s].todo \ {x}]]
    BY <1>2, <2>1 DEF mark
  <2>3. UNCHANGED <<wake, pump, out, authDue>> /\ wr[s].at = "mark"
    BY <1>2 DEF mark
  <2>4. wr'[s].at = "wake" /\ wr'[s].todo = wr[s].todo \ {x}
        /\ \A q \in Writers : q # s => wr'[q] = wr[q]
    BY <2>2 DEF Notifying
  <2>5. \A q \in Writers : k \in wr[q].todo => k \in wr'[q].todo \/ k \in dirty'
    BY <2>2, <2>4
  <2> QED BY <2>2, <2>3, <2>4, <2>5 DEF Travels
<1>3. ASSUME NEW s \in Writers, markWake(s) PROVE Travels(c, k)'
  <2>1. /\ wr' = [wr EXCEPT ![s].at = IF wr[s].todo = {} THEN "idle" ELSE "mark"]
        /\ wake' = TRUE /\ UNCHANGED <<dirty, pump, out, authDue>>
    BY <1>3 DEF markWake
  <2>2. \A q \in Writers : wr'[q].todo = wr[q].todo
    BY <2>1 DEF Notifying
  <2> QED BY <2>1, <2>2 DEF Travels
<1>4. CASE pumpWake
  <2>1. /\ pump' = [pump EXCEPT !.at = "take"] /\ UNCHANGED <<wr, dirty, out, authDue>>
    BY <1>4 DEF pumpWake, pumpRest, store
  <2>2. pump'.at = "take" /\ pump'.keys = pump.keys
    BY <2>1 DEF Notifying
  <2> QED BY <2>1, <2>2 DEF Travels
<1>5. CASE pumpTake
  <2>1. /\ pump.at = "take" /\ pump'.keys = dirty /\ UNCHANGED <<wr, wake, out, authDue>>
    BY <1>5 DEF pumpTake, pumpRest, store
  <2>2. pump.keys = {}
    BY <2>1 DEF Notifying
  <2> QED BY <2>1, <2>2 DEF Travels
<1>6. CASE pumpEmit
  <2>1. PICK x \in pump.keys :
            /\ out' = Append(out, x)
            /\ pump' = [at |-> IF pump.keys = {x} THEN "wait" ELSE "emit",
                        keys |-> pump.keys \ {x}]
    BY <1>6 DEF pumpEmit
  <2>2. UNCHANGED <<wr, dirty, wake, authDue>> /\ pump.at = "emit"
    BY <1>6 DEF pumpEmit, pumpRest, store
  <2>3. x \in Keys /\ out \in Seq(Keys)
    BY DEF Notifying
  <2>4. /\ out'[Len(out) + 1] = x /\ Len(out) + 1 \in DOMAIN out'
        /\ \A i \in DOMAIN out : i \in DOMAIN out' /\ out'[i] = out[i]
    BY <2>1, <2>3, OutGrows
  <2>5. pump'.keys = pump.keys \ {x}
    BY <2>1
  <2> QED BY <2>2, <2>4, <2>5 DEF Travels
<1>7. CASE pumpReturn
  BY <1>7 DEF pumpReturn, pumpRest, Notifying
<1>8. CASE stopWatch \/ unsubscribe
  BY <1>8 DEF stopWatch, unsubscribe, Notifying
<1>9. CASE WatchStep \/ RetryStep
  <2>1. UNCHANGED <<wr, dirty, wake, pump>> /\ (watchKey \/ watchFlush \/ UNCHANGED <<out, authDue>>)
    BY <1>9, InnerFrame
  <2>2. CASE UNCHANGED <<out, authDue>>
    BY <2>1, <2>2 DEF Travels
  <2>3. CASE watchFlush
    <3>1. Reading("watch", "middleware", "read") /\ UNCHANGED out
      BY <2>3 DEF watchFlush
    <3>2. /\ proc'["watch"].at = "read" /\ proc'["watch"].for = "middleware"
          /\ proc'["watch"].left = Reads("middleware")
      BY <1>0, <3>1, ReadingBegins
    <3>3. c # "middleware" => Travels(c, k)'
      BY <2>1, <3>1 DEF Travels
    <3> QED BY <3>2, <3>3 DEF ReadLabels
  <2>4. CASE watchKey
    <3> DEFINE class == Class[Head(out)]
    <3>1. /\ out # <<>> /\ out' = Tail(out)
          /\ authDue' = (authDue \/ class = "auth")
          /\ IF class \in {"auth", "other"} THEN UNCHANGED proc
             ELSE Reading("watch", Consumer(class), IF class = "timezone" THEN "reload" ELSE "read")
      BY <2>4 DEF watchKey
    <3>2. /\ Head(out) = out[1]
          /\ \A i \in DOMAIN out : i # 1 => i - 1 \in DOMAIN Tail(out) /\ Tail(out)[i - 1] = out[i]
      BY <3>1, OutShrinks DEF Notifying
    <3>3. \A i \in DOMAIN out : out[i] = k => k = Head(out) \/ \E j \in DOMAIN out' : out'[j] = k
      BY <3>1, <3>2
    <3>4. authDue => authDue'
      BY <3>1
    <3>5. CASE k = Head(out) /\ class = "auth"
      <4>1. c = "middleware"
        BY <1>0, <3>5 DEF Consumer
      <4>2. authDue'
        BY <3>1, <3>5
      <4> QED BY <4>1, <4>2 DEF Travels
    <3>6. CASE k = Head(out) /\ class # "auth"
      <4>1. PICK at \in ReadLabels : Reading("watch", c, at)
        BY <1>0, <3>1, <3>6 DEF ReadLabels
      <4> QED BY <1>0, <4>1, ReadingBegins
    <3>7. CASE k # Head(out)
      BY <2>1, <3>3, <3>4, <3>7 DEF Travels
    <3> QED BY <3>5, <3>6, <3>7
  <2> QED BY <2>1, <2>2, <2>3, <2>4
<1>10. CASE UNCHANGED vars
  BY <1>10, Stutters DEF Travels
<1> QED BY <1>1, <1>2, <1>3, <1>4, <1>5, <1>6, <1>7, <1>8, <1>9, <1>10, StepsSplit
        DEF Outer, NotifyStep, PumpStep

(* Nobody un-cancels the context, forgets a failure or a retry. *)
LEMMA Lasting ==
  ASSUME Notifying, Configuring, [Next]_vars
  PROVE  /\ ~ctxDone' => ~ctxDone
         /\ failures' = 0 => failures = 0
         /\ ~retried' => ~retried
<1>1. ASSUME NEW p \in Procs, ApplyStep(p)
      PROVE  ctxDone' = ctxDone /\ failures' \in {failures, failures + 1} /\ retried' = retried
  <2>1. ctxDone' = ctxDone
    BY <1>1 DEF ApplyStep, readKey, readFails, applyOther, applyUnchanged, applyChanged, discover,
         storeProvider, clearProvider, procRest, oidcRest
  <2> QED BY <1>1, <2>1, ApplyMoves DEF Configuring
<1>2. ASSUME \/ watchKey \/ watchFlush \/ watchReload \/ watchApply \/ watchCheck
             \/ ensureOIDCRetry \/ watchReturn \/ retryWake \/ retryApply \/ retryExit
      PROVE  UNCHANGED <<ctxDone, failures>> /\ (retried => retried')
  <2>1. UNCHANGED <<ctxDone, failures>>
    BY <1>2 DEF watchKey, watchFlush, watchReload, watchApply, watchCheck, ensureOIDCRetry,
                watchReturn, retryWake, retryApply, retryExit, procRest, bounds
  <2>2. ASSUME ensureOIDCRetry PROVE retried => retried'
    <3>1. \E start : retried' = (retried \/ start)
      BY <2>2, Zenon DEF ensureOIDCRetry
    <3>2. (retried <=> TRUE) => retried' = TRUE
      BY <3>1, Zenon
    <3> QED BY <3>2, Zenon
  <2>3. ASSUME ~ensureOIDCRetry PROVE UNCHANGED retried
    BY <1>2, <2>3 DEF watchKey, watchFlush, watchReload, watchApply, watchCheck,
                      watchReturn, retryWake, retryApply, retryExit, loop
  <2> QED BY <2>1, <2>2, <2>3
<1>3. Outer => UNCHANGED <<failures, retried>> /\ (ctxDone => ctxDone')
  <2>1. stopWatch => ctxDone'
    BY DEF stopWatch
  <2>2. ASSUME NEW s \in Writers, NotifyStep(s) \/ \E b \in Bodies : applySettings(s, b)
        PROVE  ctxDone' = ctxDone
    BY <2>2 DEF NotifyStep, mark, markWake, applySettings
  <2>3. PumpStep \/ unsubscribe => ctxDone' = ctxDone
    BY DEF PumpStep, pumpWake, pumpTake, pumpEmit, pumpReturn, pumpRest, unsubscribe
  <2> QED BY <2>1, <2>2, <2>3, OuterFrame DEF Outer
<1>4. UNCHANGED vars => UNCHANGED <<ctxDone, failures, retried>>
  BY Stutters
<1>5. failures \in Nat /\ "watch" \in Procs /\ "retry" \in Procs
  BY DEF Configuring, Procs
<1> QED BY <1>1, <1>2, <1>3, <1>4, <1>5, StepsSplit DEF WatchStep, RetryStep

(***************************************************************************)
(* No change is lost                                                       *)
(***************************************************************************)

(* Steps that change neither the table nor a consumer lose nothing when    *)
(* the section being read passes no key without its value.                 *)
LEMMA FrameDelivers ==
  ASSUME Notifying, Configuring, Delivered, [Next]_vars, UNCHANGED <<db, live>>,
         \A c \in Consumers : \A k \in Reads(c) :
           (Passing(c, k) => Passing(c, k)') /\ (Missed(c, k)' => Missed(c, k))
  PROVE  Delivered'
<1> SUFFICES ASSUME ~ctxDone', failures' = 0, NEW c \in Consumers, NEW k \in Reads(c)
             PROVE  /\ live[c][k] # db[k] => Travels(c, k)' \/ Passing(c, k)'
                    /\ Missed(c, k)' => Travels(c, k)'
  BY DEF Delivered
<1>1. ~ctxDone /\ failures = 0
  BY Lasting
<1>2. Travels(c, k) =>
        \/ Travels(c, k)'
        \/ /\ proc'["watch"].at \in ReadLabels /\ proc'["watch"].for = c
           /\ proc'["watch"].left = Reads(c)
  BY TravelsStep
<1>3. /\ live[c][k] # db[k] => Travels(c, k) \/ Passing(c, k)
      /\ Missed(c, k) => Travels(c, k)
  BY <1>1 DEF Delivered
<1>4. proc'["watch"].left = Reads(c) /\ proc'["watch"].for = c => ~Missed(c, k)'
  BY DEF Missed
<1>5. /\ proc'["watch"].at \in ReadLabels /\ proc'["watch"].for = c
      /\ proc'["watch"].left = Reads(c)
      => Passing(c, k)'
  BY DEF Passing
<1>6. (Passing(c, k) => Passing(c, k)') /\ (Missed(c, k)' => Missed(c, k))
  OBVIOUS
<1> QED BY <1>2, <1>3, <1>4, <1>5, <1>6

(* A PUT: the changed keys are notified, the others are as they were. *)
LEMMA PutDelivers ==
  ASSUME Notifying, Configuring, Delivered, [Next]_vars,
         NEW s \in Writers, NEW b \in Bodies, applySettings(s, b)
  PROVE  Delivered'
<1> DEFINE changed == {x \in DOMAIN b : b[x] # db[x]}
<1>1. /\ db' = [k \in Keys |-> IF k \in changed THEN b[k] ELSE db[k]]
      /\ wr' = [wr EXCEPT ![s] = [at |-> "mark", todo |-> changed]]
      /\ UNCHANGED <<proc, live>>
  BY DEF applySettings
<1> HIDE DEF changed
<1> SUFFICES ASSUME ~ctxDone', failures' = 0, NEW c \in Consumers, NEW k \in Reads(c)
             PROVE  /\ live[c][k] # db'[k] => Travels(c, k)' \/ Passing(c, k)'
                    /\ Missed(c, k)' => Travels(c, k)'
  BY <1>1 DEF Delivered
<1>2. ~ctxDone /\ failures = 0
  BY Lasting
<1>3. CASE k \in changed
  <2>1. wr'[s].todo = changed
    BY <1>1 DEF Notifying
  <2>2. Travels(c, k)'
    BY <1>3, <2>1 DEF Travels
  <2> QED BY <2>2
<1>4. CASE k \notin changed
  <2>1. db'[k] = db[k]
    BY <1>1, <1>4, ConsumerOf
  <2>2. /\ live[c][k] # db[k] => Travels(c, k) \/ Passing(c, k)
        /\ Missed(c, k) => Travels(c, k)
    BY <1>2 DEF Delivered
  <2>3. (Passing(c, k)' <=> Passing(c, k)) /\ (Missed(c, k)' <=> Missed(c, k))
    BY <1>1, <2>1 DEF Passing, Missed
  <2>4. Travels(c, k) => Travels(c, k)' \/ (Passing(c, k)' /\ ~Missed(c, k)')
    BY TravelsStep DEF Passing, Missed
  <2> QED BY <2>1, <2>2, <2>3, <2>4
<1> QED BY <1>3, <1>4

(* A consumer is configured with what was read; what has changed since is  *)
(* on its way.                                                             *)
LEMMA ApplyDelivers ==
  ASSUME Notifying, Configuring, Delivered, [Next]_vars, watchApply
  PROVE  Delivered'
<1>1. /\ proc["watch"].at = "read" /\ proc["watch"].left = {}
      /\ live' = [live EXCEPT ![proc["watch"].for] = proc["watch"].got]
      /\ db' = db
      /\ IF proc["watch"].for = "middleware" THEN Goto("watch", "apply")
         ELSE proc' = [proc EXCEPT !["watch"] = [Idle EXCEPT !.at = "select"]]
  BY DEF watchApply, procRest, store
<1>2. proc'["watch"].at \in {"apply", "select"}
  <2>1. DOMAIN proc = Procs /\ "watch" \in Procs /\ DOMAIN proc["watch"] = Locals
    BY DEF Configuring, Placed, Procs
  <2> QED BY <1>1, <2>1, Goes, Drops
<1>3. proc'["watch"].at \notin ReadLabels
  BY <1>2 DEF ReadLabels
<1> SUFFICES ASSUME ~ctxDone', failures' = 0, NEW c \in Consumers, NEW k \in Reads(c),
                    live'[c][k] # db[k]
             PROVE  Travels(c, k)'
  BY <1>1, <1>3 DEF Delivered, Missed
<1>4. ~ctxDone /\ failures = 0
  BY Lasting
<1>5. Travels(c, k) => Travels(c, k)'
  BY <1>3, TravelsStep
<1>6. /\ live[c][k] # db[k] => Travels(c, k) \/ Passing(c, k)
      /\ Missed(c, k) => Travels(c, k)
  BY <1>4 DEF Delivered
<1>7. CASE c = proc["watch"].for
  <2>1. live'[c] = proc["watch"].got
    BY <1>1, <1>7 DEF Configuring
  <2>2. Missed(c, k)
    BY <1>1, <1>7, <2>1 DEF Missed, ReadLabels
  <2> QED BY <1>5, <1>6, <2>2
<1>8. CASE c # proc["watch"].for
  <2>1. live'[c] = live[c] /\ ~Passing(c, k)
    BY <1>1, <1>8 DEF Configuring, Passing
  <2> QED BY <1>5, <1>6, <2>1
<1> QED BY <1>7, <1>8

(* Every step keeps what is delivered, or is travelling to be. *)
LEMMA DeliveredStep ==
  ASSUME Notifying, Configuring, Delivered, [Next]_vars
  PROVE  Delivered'
<1>0. /\ DOMAIN proc = Procs /\ "watch" \in Procs /\ "retry" \in Procs
      /\ DOMAIN proc["watch"] = Locals /\ DOMAIN proc["retry"] = Locals
  BY DEF Configuring, Placed, Procs
<1>1. ASSUME UNCHANGED <<db, live>>, proc'["watch"] = proc["watch"]
      PROVE  Delivered'
  <2>1. \A c \in Consumers : \A k \in Reads(c) :
          (Passing(c, k) => Passing(c, k)') /\ (Missed(c, k)' => Missed(c, k))
    BY <1>1 DEF Passing, Missed
  <2> QED BY <1>1, <2>1, FrameDelivers
<1>2. ASSUME UNCHANGED <<db, live>>, proc["watch"].at \notin ReadLabels,
             proc'["watch"].at \in ReadLabels => proc'["watch"].left = Reads(proc'["watch"].for)
      PROVE  Delivered'
  <2>1. \A c \in Consumers : \A k \in Reads(c) :
          (Passing(c, k) => Passing(c, k)') /\ (Missed(c, k)' => Missed(c, k))
    BY <1>2 DEF Passing, Missed
  <2> QED BY <1>2, <2>1, FrameDelivers
<1>3. CASE Outer
  <2>1. CASE \E s \in Writers, b \in Bodies : applySettings(s, b)
    BY <2>1, PutDelivers
  <2>2. CASE ~\E s \in Writers, b \in Bodies : applySettings(s, b)
    BY <1>1, <1>3, <2>2, OuterFrame
  <2> QED BY <2>1, <2>2
<1>4. CASE RetryStep
  <2>1. db' = db
    BY <1>4, InnerFrame
  <2>2. ApplyStep("retry") => live' = live /\ proc'["watch"] = proc["watch"]
    BY <1>0, ApplyMoves DEF Configuring
  <2>3. retryWake \/ retryApply \/ retryExit => live' = live /\ proc'["watch"] = proc["watch"]
    <3>1. retryWake \/ retryApply \/ retryExit => live' = live
      BY DEF retryWake, retryApply, retryExit
    <3>2. retryWake \/ retryApply \/ retryExit => proc'["watch"] = proc["watch"]
      BY <1>0 DEF retryWake, retryApply, retryExit, Goto, Reading
    <3> QED BY <3>1, <3>2
  <2> QED BY <1>1, <1>4, <2>1, <2>2, <2>3 DEF RetryStep
<1>5. CASE UNCHANGED vars
  BY <1>1, <1>5, Stutters
<1>6. CASE WatchStep
  <2>0. db' = db
    BY <1>6, InnerFrame
  <2>1. CASE watchKey
    <3>1. /\ proc["watch"].at = "select" /\ live' = live
          /\ proc' = proc \/ \E c, at : Reading("watch", c, at)
      BY <2>1 DEF watchKey
    <3>2. proc' = proc \/ proc'["watch"].left = Reads(proc'["watch"].for)
      BY <1>0, <3>1, ReadingBegins
    <3> QED BY <1>2, <2>0, <3>1, <3>2 DEF ReadLabels
  <2>2. CASE watchFlush
    <3>1. /\ proc["watch"].at = "select" /\ live' = live
          /\ Reading("watch", "middleware", "read")
      BY <2>2 DEF watchFlush
    <3>2. proc'["watch"].left = Reads(proc'["watch"].for)
      BY <1>0, <3>1, ReadingBegins
    <3> QED BY <1>2, <2>0, <3>1, <3>2 DEF ReadLabels
  <2>3. CASE watchReload
    <3>1. proc["watch"].at = "reload" /\ live' = live /\ Goto("watch", "read")
      BY <2>3 DEF watchReload
    <3>2. /\ proc'["watch"].at = "read" /\ proc'["watch"].for = proc["watch"].for
          /\ proc'["watch"].left = proc["watch"].left /\ proc'["watch"].got = proc["watch"].got
      BY <1>0, <3>1, Goes
    <3>3. \A c \in Consumers : \A k \in Reads(c) :
            (Passing(c, k) => Passing(c, k)') /\ (Missed(c, k)' => Missed(c, k))
      BY <2>0, <3>1, <3>2 DEF Passing, Missed, ReadLabels
    <3> QED BY <2>0, <3>1, <3>3, FrameDelivers
  <2>4. CASE watchApply
    BY <2>4, ApplyDelivers
  <2>5. CASE watchCheck \/ ensureOIDCRetry \/ watchReturn
    <3>1. /\ proc["watch"].at \in {"check", "mode", "select"} /\ live' = live
          /\ proc'["watch"].at \in {"mode", "select", "done"}
      BY <1>0, <2>5 DEF watchCheck, ensureOIDCRetry, watchReturn, Goto, Idle, Locals
    <3> QED BY <1>2, <2>0, <3>1 DEF ReadLabels
  <2>6. CASE readKey("watch")
    <3>1. live' = live
      BY <2>6 DEF readKey
    <3>2. PICK x \in proc["watch"].left :
           /\ proc["watch"].at = "read" /\ proc'["watch"].at = "read"
           /\ proc'["watch"].for = proc["watch"].for
           /\ proc'["watch"].left = proc["watch"].left \ {x}
           /\ \A y \in DOMAIN proc["watch"].got :
                proc'["watch"].got[y] = IF y = x THEN db[x] ELSE proc["watch"].got[y]
      BY <1>0, <2>6, KeyIsRead
    <3>3. DOMAIN proc["watch"].got = Reads(proc["watch"].for)
      BY <1>0, <3>2 DEF Configuring, Placed, ReadLabels
    <3>4. \A c \in Consumers : \A k \in Reads(c) :
            (Passing(c, k) => Passing(c, k)') /\ (Missed(c, k)' => Missed(c, k))
      BY <2>0, <3>2, <3>3 DEF Passing, Missed, ReadLabels
    <3> QED BY <2>0, <3>1, <3>4, FrameDelivers
  <2>7. CASE readFails("watch")
    <3>1. ctxDone' \/ failures' = failures + 1
      BY <2>7, InnerFrame, <1>6 DEF readFails
    <3>2. failures' = failures + 1 => failures' # 0
      BY DEF Configuring
    <3> QED BY <3>1, <3>2 DEF Delivered
  <2>8. CASE \/ applyOther("watch") \/ applyUnchanged("watch") \/ applyChanged("watch")
             \/ discover("watch") \/ storeProvider("watch") \/ clearProvider("watch")
    <3>1. proc["watch"].at \in ApplyLabels /\ live' = live
      BY <2>8 DEF applyOther, applyUnchanged, applyChanged, discover, storeProvider,
                  clearProvider, oidcRest, ApplyLabels
    <3>2. PICK l \in {"clear", "discover", "store", "check"} : Goto("watch", l)
      BY <2>8 DEF applyOther, applyUnchanged, applyChanged, discover, storeProvider,
                  clearProvider, Returned
    <3>3. proc'["watch"].at = l
      BY <1>0, <3>2, Goes
    <3> QED BY <1>2, <2>0, <3>1, <3>3 DEF ReadLabels, ApplyLabels
  <2> QED BY <1>6, <2>1, <2>2, <2>3, <2>4, <2>5, <2>6, <2>7, <2>8 DEF WatchStep, ApplyStep
<1> QED BY <1>3, <1>4, <1>5, <1>6, StepsSplit

(***************************************************************************)
(* The provider                                                            *)
(***************************************************************************)

(* A change of mode that the watcher has still to hear of stays one until  *)
(* the section has been read; only watchApply ends the reading.            *)
LEMMA ComingStep ==
  ASSUME Notifying, Configuring, [Next]_vars, ~ctxDone', Coming,
         \/ Travels("middleware", ModeKey)
         \/ proc["watch"].at \in ReadLabels =>
              proc'["watch"].at \in ReadLabels /\ proc'["watch"].for = proc["watch"].for
  PROVE  Coming'
<1>1. CASE Travels("middleware", ModeKey)
  BY <1>1, TravelsStep, ConsumerOf DEF Coming
<1>2. CASE ~Travels("middleware", ModeKey)
  BY <1>2 DEF Coming
<1> QED BY <1>1, <1>2

(* Steps outside apply and its checks leave the provider as it is. *)
LEMMA FrameProvides ==
  ASSUME Notifying, Configuring, Provided, [Next]_vars,
         UNCHANGED <<ptr, applied, built, live>>,
         \/ proc'["watch"] = proc["watch"]
         \/ /\ {proc["watch"].at, proc'["watch"].at} \subseteq {"select"} \cup ReadLabels
            /\ proc["watch"].at \in ReadLabels =>
                 proc'["watch"].at \in ReadLabels /\ proc'["watch"].for = proc["watch"].for
  PROVE  Provided'
<1> SUFFICES ASSUME ~retried', ~ctxDone', failures' = 0
             PROVE  Provided'
  BY DEF Provided
<1>1. ~retried /\ ~ctxDone /\ failures = 0
  BY Lasting
<1>2. Auth' = Auth
  BY DEF Auth
<1>3. Coming => Coming'
  BY ComingStep
<1>4. Want(Auth)' = Want(Auth)
  BY <1>2 DEF Want
<1>5. CASE proc'["watch"] = proc["watch"]
  BY <1>1, <1>2, <1>3, <1>4, <1>5 DEF Provided
<1>6. CASE {proc["watch"].at, proc'["watch"].at} \subseteq {"select"} \cup ReadLabels
  BY <1>1, <1>2, <1>3, <1>4, <1>6 DEF Provided, ReadLabels, ApplyLabels
<1> QED BY <1>5, <1>6

(* Steps that begin or end at the provider, one by one. *)
LEMMA ProviderSteps ==
  ASSUME Notifying, Configuring, Provided, [Next]_vars,
         \/ applyOther("watch") \/ applyUnchanged("watch") \/ applyChanged("watch")
         \/ discover("watch") \/ storeProvider("watch") \/ clearProvider("watch")
         \/ watchCheck
  PROVE  Provided'
<1> SUFFICES ASSUME ~retried', ~ctxDone', failures' = 0
             PROVE  Provided'
  BY DEF Provided
<1>0. /\ DOMAIN proc = Procs /\ "watch" \in Procs /\ DOMAIN proc["watch"] = Locals
      /\ ~retried /\ ~ctxDone /\ failures = 0
  BY Lasting DEF Configuring, Placed, Procs
<1>1. live' = live
  BY DEF applyOther, applyUnchanged, applyChanged, discover, storeProvider, clearProvider,
         watchCheck, oidcRest
<1>2. Auth' = Auth
  BY <1>1 DEF Auth
<1>3. Want(Auth)' = Want(Auth)
  BY <1>2 DEF Want
<1>4. ASSUME NEW l, Goto("watch", l)
      PROVE  proc'["watch"].at = l /\ proc'["watch"].got = proc["watch"].got
  BY <1>0, <1>4, Goes
<1>5. proc["watch"].at \in ApplyLabels =>
        /\ proc["watch"].got = Auth
        /\ Wanted("watch") <=> Auth[ModeKey] = "oidc"
        /\ Wanted("watch") => Want(Auth) = cfg(Auth)
  BY <1>0 DEF Provided, Wanted, Want
<1>6. CASE applyOther("watch")
  <2>1. proc["watch"].at = "apply" /\ built' = FALSE /\ Goto("watch", "clear")
    BY <1>6 DEF applyOther
  <2>2. proc'["watch"].at = "clear" /\ proc'["watch"].got = Auth'
    BY <1>2, <1>4, <1>5, <2>1 DEF ApplyLabels
  <2> QED BY <2>1, <2>2 DEF Provided, ApplyLabels, ReadLabels
<1>7. CASE applyUnchanged("watch")
  <2>1. /\ proc["watch"].at = "apply" /\ Wanted("watch") /\ UNCHANGED <<ptr, applied, built>>
        /\ built /\ applied = cfg(proc["watch"].got) /\ Goto("watch", "check")
    BY <1>7 DEF applyUnchanged, Returned, holder
  <2>2. proc'["watch"].at = "check" /\ proc'["watch"].got = Auth'
    BY <1>2, <1>4, <1>5, <2>1 DEF ApplyLabels
  <2>3. ptr = applied
    BY <1>0, <2>1 DEF Provided
  <2>4. ptr' = Want(Auth)' /\ ptr' = (IF built' THEN applied' ELSE None)
    BY <1>3, <1>5, <2>1, <2>3 DEF ApplyLabels
  <2> QED BY <2>2, <2>4 DEF Provided, ApplyLabels, ReadLabels
<1>8. CASE applyChanged("watch")
  <2>1. /\ proc["watch"].at = "apply" /\ Wanted("watch") /\ UNCHANGED <<ptr, applied, built>>
        /\ Goto("watch", "discover")
    BY <1>8 DEF applyChanged, holder
  <2>2. proc'["watch"].at = "discover" /\ proc'["watch"].got = Auth'
    BY <1>2, <1>4, <1>5, <2>1 DEF ApplyLabels
  <2>3. ptr = (IF built THEN applied ELSE None) /\ Auth[ModeKey] = "oidc"
    BY <1>0, <1>5, <2>1 DEF Provided, ApplyLabels
  <2> QED BY <1>2, <2>1, <2>2, <2>3 DEF Provided, ApplyLabels, ReadLabels
<1>9. CASE discover("watch")
  <2>1. /\ proc["watch"].at = "discover"
        /\ \/ applied' = cfg(proc["watch"].got) /\ built' = TRUE /\ Goto("watch", "store")
           \/ built' = FALSE /\ Goto("watch", "clear")
    BY <1>9 DEF discover
  <2>2. proc["watch"].got = Auth /\ Auth[ModeKey] = "oidc"
    BY <1>0, <1>5, <2>1 DEF Provided, ApplyLabels
  <2>3. CASE applied' = cfg(proc["watch"].got) /\ built' = TRUE /\ Goto("watch", "store")
    <3>1. proc'["watch"].at = "store" /\ proc'["watch"].got = Auth'
      BY <1>2, <1>4, <2>2, <2>3
    <3>2. applied' = cfg(Auth)'
      BY <1>2, <2>2, <2>3 DEF cfg
    <3>3. Auth'[ModeKey] = "oidc"
      BY <1>2, <2>2
    <3> QED BY <2>3, <3>1, <3>2, <3>3 DEF Provided, ApplyLabels, ReadLabels
  <2>4. CASE built' = FALSE /\ Goto("watch", "clear")
    <3>1. proc'["watch"].at = "clear" /\ proc'["watch"].got = Auth'
      BY <1>2, <1>4, <2>2, <2>4
    <3> QED BY <2>4, <3>1 DEF Provided, ApplyLabels, ReadLabels
  <2> QED BY <2>1, <2>3, <2>4
<1>10. CASE storeProvider("watch")
  <2>1. /\ proc["watch"].at = "store" /\ ptr' = cfg(proc["watch"].got)
        /\ UNCHANGED <<applied, built>> /\ Goto("watch", "check")
    BY <1>10 DEF storeProvider, Returned
  <2>2. proc["watch"].got = Auth /\ Auth[ModeKey] = "oidc" /\ built /\ applied = cfg(Auth)
    BY <1>0, <1>5, <2>1 DEF Provided, ApplyLabels
  <2>3. proc'["watch"].at = "check" /\ proc'["watch"].got = Auth'
    BY <1>2, <1>4, <2>1, <2>2
  <2>4. ptr' = Want(Auth)' /\ ptr' = (IF built' THEN applied' ELSE None)
    BY <1>3, <2>1, <2>2 DEF Want
  <2> QED BY <2>3, <2>4 DEF Provided, ApplyLabels, ReadLabels
<1>11. CASE clearProvider("watch")
  <2>1. /\ proc["watch"].at = "clear" /\ ptr' = None
        /\ UNCHANGED <<applied, built>> /\ Goto("watch", "check")
    BY <1>11 DEF clearProvider, Returned
  <2>2. proc["watch"].got = Auth /\ ~built
    BY <1>0, <1>5, <2>1 DEF Provided, ApplyLabels
  <2>3. proc'["watch"].at = "check" /\ proc'["watch"].got = Auth'
    BY <1>2, <1>4, <2>1, <2>2
  <2>4. ~built' /\ ptr' = None
    BY <2>1, <2>2
  <2> QED BY <2>3, <2>4 DEF Provided, ApplyLabels, ReadLabels
<1>12. CASE watchCheck
  <2>1. /\ proc["watch"].at = "check" /\ UNCHANGED <<ptr, applied, built>>
        /\ IF ptr = None THEN Goto("watch", "mode")
           ELSE proc' = [proc EXCEPT !["watch"] = [Idle EXCEPT !.at = "select"]]
    BY <1>12 DEF watchCheck, holder
  <2>2. ptr = (IF built THEN applied ELSE None) /\ ptr \in {Want(Auth), None}
    BY <1>0, <2>1 DEF Provided
  <2>3. CASE ptr = None
    <3>1. proc'["watch"].at = "mode"
      BY <1>4, <2>1, <2>3
    <3> QED BY <2>1, <2>2, <2>3, <3>1 DEF Provided, ApplyLabels, ReadLabels
  <2>4. CASE ptr # None
    <3>1. proc'["watch"].at = "select"
      BY <1>0, <2>1, <2>4, Drops
    <3>2. ptr' = Want(Auth)'
      BY <1>3, <2>1, <2>2, <2>4
    <3> QED BY <2>1, <2>2, <3>1, <3>2 DEF Provided, ApplyLabels, ReadLabels
  <2> QED BY <2>3, <2>4
<1> QED BY <1>6, <1>7, <1>8, <1>9, <1>10, <1>11, <1>12

(* The middleware gets what apply will be called with. *)
LEMMA WatchApplyProvides ==
  ASSUME Notifying, Configuring, Provided, [Next]_vars, watchApply
  PROVE  Provided'
<1> SUFFICES ASSUME ~retried', ~ctxDone', failures' = 0
             PROVE  Provided'
  BY DEF Provided
<1>0. /\ DOMAIN proc = Procs /\ "watch" \in Procs /\ DOMAIN proc["watch"] = Locals
      /\ ~retried /\ ~ctxDone /\ failures = 0 /\ "middleware" \in DOMAIN live
  BY Lasting, ConsumerOf DEF Configuring, Placed, Procs
<1>1. /\ proc["watch"].at = "read" /\ UNCHANGED <<ptr, applied, built>>
      /\ live' = [live EXCEPT ![proc["watch"].for] = proc["watch"].got]
      /\ IF proc["watch"].for = "middleware" THEN Goto("watch", "apply")
         ELSE proc' = [proc EXCEPT !["watch"] = [Idle EXCEPT !.at = "select"]]
  BY DEF watchApply, holder
<1>2. ptr = (IF built THEN applied ELSE None) /\ (ptr = Want(Auth) \/ (ptr = None /\ Coming))
  BY <1>0, <1>1 DEF Provided, ReadLabels
<1>3. CASE proc["watch"].for = "middleware"
  <2>1. proc'["watch"].at = "apply" /\ proc'["watch"].got = proc["watch"].got
    BY <1>0, <1>1, <1>3, Goes
  <2>2. Auth' = proc["watch"].got
    BY <1>0, <1>1, <1>3 DEF Auth
  <2> QED BY <1>1, <1>2, <2>1, <2>2 DEF Provided, ApplyLabels, ReadLabels
<1>4. CASE proc["watch"].for # "middleware"
  <2>1. proc'["watch"].at = "select"
    BY <1>0, <1>1, <1>4, Drops
  <2>2. Auth' = Auth
    BY <1>0, <1>1, <1>4 DEF Auth
  <2>3. Want(Auth)' = Want(Auth)
    BY <2>2 DEF Want
  <2>4. Coming => Coming'
    <3>1. Coming => Travels("middleware", ModeKey)
      BY <1>4 DEF Coming
    <3> QED BY <3>1, ComingStep
  <2> QED BY <1>1, <1>2, <2>1, <2>3, <2>4 DEF Provided, ApplyLabels, ReadLabels
<1> QED BY <1>3, <1>4

(* The check of the mode: without a retry loop to start, the mode is not   *)
(* oidc any more, and the watcher will hear of it.                         *)
LEMMA RetryCheckProvides ==
  ASSUME Notifying, Configuring, Delivered, Provided, [Next]_vars, ensureOIDCRetry
  PROVE  Provided'
<1> SUFFICES ASSUME ~retried', ~ctxDone', failures' = 0
             PROVE  Provided'
  BY DEF Provided
<1>0. /\ DOMAIN proc = Procs /\ "watch" \in Procs /\ DOMAIN proc["watch"] = Locals
      /\ ~retried /\ ~ctxDone /\ failures = 0 /\ ~retrying
  BY Lasting DEF Configuring, Placed, Procs
<1>1. /\ proc["watch"].at = "mode" /\ UNCHANGED <<ptr, applied, built, live>>
      /\ retried' = (retried \/ (db[ModeKey] = "oidc" /\ ~retrying))
  BY DEF ensureOIDCRetry, holder
<1>2. db[ModeKey] # "oidc"
  BY <1>0, <1>1
<1>3. proc'["watch"].at = "select"
  BY <1>0 DEF ensureOIDCRetry, Idle, Locals
<1>4. Auth' = Auth
  BY <1>1 DEF Auth
<1>5. Want(Auth)' = Want(Auth)
  BY <1>4 DEF Want
<1>6. ptr = None /\ ptr = (IF built THEN applied ELSE None)
  BY <1>0, <1>1 DEF Provided
<1>7. CASE Auth[ModeKey] # "oidc"
  <2>1. ptr' = Want(Auth)'
    BY <1>1, <1>5, <1>6, <1>7 DEF Want
  <2> QED BY <1>1, <1>3, <1>6, <2>1 DEF Provided, ApplyLabels, ReadLabels
<1>8. CASE Auth[ModeKey] = "oidc"
  <2>1. Travels("middleware", ModeKey)
    <3>1. ~Passing("middleware", ModeKey)
      BY <1>1 DEF Passing, ReadLabels
    <3>2. live["middleware"][ModeKey] # db[ModeKey]
      BY <1>2, <1>8 DEF Auth
    <3> QED BY <1>0, <3>1, <3>2, ConsumerOf DEF Delivered
  <2>2. Coming'
    BY <2>1, ComingStep DEF Coming
  <2> QED BY <1>1, <1>3, <1>6, <2>2 DEF Provided, ApplyLabels, ReadLabels
<1> QED BY <1>7, <1>8

(* Every step keeps the provider right, as long as the watcher alone has   *)
(* built it.                                                               *)
LEMMA ProvidedStep ==
  ASSUME Notifying, Configuring, Delivered, Provided, [Next]_vars
  PROVE  Provided'
<1> SUFFICES ASSUME ~retried', ~ctxDone', failures' = 0
             PROVE  Provided'
  BY DEF Provided
<1>0. /\ DOMAIN proc = Procs /\ "watch" \in Procs /\ "retry" \in Procs
      /\ DOMAIN proc["watch"] = Locals /\ proc["retry"].at = "off"
      /\ ~retried /\ ~ctxDone /\ failures = 0
  BY Lasting DEF Configuring, Placed, Procs
<1>1. CASE Outer \/ UNCHANGED vars
  BY <1>1, OuterFrame, Stutters, FrameProvides
<1>2. ~RetryStep
  <2>1. ~ApplyStep("retry")
    BY <1>0, ApplyMoves DEF Configuring
  <2> QED BY <1>0, <2>1 DEF RetryStep, retryWake, retryApply, retryExit
<1>3. CASE WatchStep
  <2>1. CASE watchKey \/ watchFlush
    <3>1. /\ proc["watch"].at = "select" /\ UNCHANGED <<ptr, applied, built, live>>
          /\ proc' = proc \/ \E c : \E at \in ReadLabels : Reading("watch", c, at)
      BY <2>1 DEF watchKey, watchFlush, holder, ReadLabels
    <3>2. proc'["watch"].at \in {"select"} \cup ReadLabels
      BY <1>0, <3>1, ReadingBegins
    <3> QED BY <3>1, <3>2, FrameProvides DEF ReadLabels
  <2>2. CASE watchReload
    <3>1. /\ proc["watch"].at = "reload" /\ UNCHANGED <<ptr, applied, built, live>>
          /\ Goto("watch", "read")
      BY <2>2 DEF watchReload, holder
    <3>2. proc'["watch"].at = "read" /\ proc'["watch"].for = proc["watch"].for
      BY <1>0, <3>1, Goes
    <3> QED BY <3>1, <3>2, FrameProvides DEF ReadLabels
  <2>3. CASE readKey("watch")
    <3>1. UNCHANGED <<ptr, applied, built, live>>
      BY <2>3 DEF readKey, holder
    <3>2. /\ proc["watch"].at = "read" /\ proc'["watch"].at = "read"
          /\ proc'["watch"].for = proc["watch"].for
      BY <1>0, <2>3, KeyIsRead
    <3> QED BY <3>1, <3>2, FrameProvides DEF ReadLabels
  <2>4. CASE readFails("watch")
    <3>1. ctxDone' \/ failures' = failures + 1
      BY <1>3, <2>4, InnerFrame DEF readFails
    <3> QED BY <1>0, <3>1
  <2>5. CASE watchReturn
    BY <1>0, <2>5 DEF watchReturn
  <2>6. CASE watchApply
    BY <2>6, WatchApplyProvides
  <2>7. CASE ensureOIDCRetry
    BY <2>7, RetryCheckProvides
  <2>8. CASE \/ applyOther("watch") \/ applyUnchanged("watch") \/ applyChanged("watch")
             \/ discover("watch") \/ storeProvider("watch") \/ clearProvider("watch")
             \/ watchCheck
    BY <2>8, ProviderSteps
  <2> QED BY <1>3, <2>1, <2>2, <2>3, <2>4, <2>5, <2>6, <2>7, <2>8 DEF WatchStep, ApplyStep
<1> QED BY <1>1, <1>2, <1>3, StepsSplit

(***************************************************************************)
(* The start, and the theorems                                             *)
(***************************************************************************)

(* What main sets up is what the stored settings ask for. *)
LEMMA LiveStarts ==
  ASSUME Init
  PROVE  LiveInv
<1>1. /\ db = InitDb /\ wr = [s \in Writers |-> [at |-> "idle", todo |-> {}]]
      /\ dirty = {} /\ wake = FALSE /\ subscribed = TRUE
      /\ pump = [at |-> "wait", keys |-> {}] /\ out = <<>> /\ authDue = FALSE
      /\ live = [c \in Consumers |-> Restrict(InitDb, Reads(c))]
      /\ ctxDone = FALSE /\ failures = 0
  BY DEF Init
<1>2. PICK up \in BOOLEAN :
        /\ outages = IF up THEN 0 ELSE 1
        /\ built = (InitDb[ModeKey] = "oidc" /\ up)
        /\ applied = IF InitDb[ModeKey] = "oidc" /\ up THEN cfg(InitDb) ELSE None
        /\ ptr = applied
        /\ retrying = (InitDb[ModeKey] = "oidc" /\ ~up) /\ retried = retrying
        /\ proc = [p \in {"watch", "retry"} |->
                      [Idle EXCEPT !.at = IF p = "watch" THEN "select"
                                          ELSE IF InitDb[ModeKey] = "oidc" /\ ~up THEN "sleep"
                                               ELSE "off"]]
  BY DEF Init
<1>3. /\ DOMAIN proc = Procs /\ \A p \in Procs : DOMAIN proc[p] = Locals
      /\ proc["watch"].at = "select"
      /\ proc["retry"].at = IF InitDb[ModeKey] = "oidc" /\ ~up THEN "sleep" ELSE "off"
  BY <1>2 DEF Procs, Locals, Idle
<1>4. Notifying
  <2>1. DOMAIN db = Keys
    BY <1>1, LiveConstants
  <2>2. out \in Seq(Keys) /\ Len(out) = 0
    BY <1>1, EmptySeq
  <2>3. Len(out) <= OutCap
    BY <2>2, LiveConstants
  <2> QED BY <1>1, <2>1, <2>2, <2>3 DEF Notifying
<1>5. Configuring
  <2>1. Placed
    BY <1>3 DEF Placed, Procs, WatchLabels, RetryLabels, ReadLabels
  <2>2. DOMAIN live = Consumers /\ \A c \in Consumers : DOMAIN live[c] = Reads(c)
    BY <1>1 DEF Restrict
  <2>3. /\ retrying \in BOOLEAN /\ retried \in BOOLEAN /\ (retrying => retried)
        /\ built \in BOOLEAN
    BY <1>2, Zenon
  <2>4. retrying <=> proc["retry"].at # "off"
    BY <1>2, <1>3
  <2>5. failures \in Nat /\ outages \in Nat /\ authDue \in BOOLEAN
    BY <1>1, <1>2
  <2> QED BY <2>1, <2>2, <2>3, <2>4, <2>5 DEF Configuring
<1>6. Delivered
  <2>1. \A c \in Consumers : \A k \in Reads(c) : live[c][k] = db[k]
    BY <1>1 DEF Restrict
  <2> QED BY <1>3, <2>1 DEF Delivered, Missed, ReadLabels
<1>7. Provided
  <2>1. ~retried => ptr = Want(Auth)
    <3>1. Auth = Restrict(InitDb, Reads("middleware"))
      BY <1>1, ConsumerOf DEF Auth
    <3>2. Auth[ModeKey] = InitDb[ModeKey] /\ cfg(Auth) = cfg(InitDb)
      <4>1. \A k \in Reads("middleware") : Auth[k] = InitDb[k]
        BY <3>1 DEF Restrict
      <4> QED BY <4>1, ConsumerOf DEF cfg, Restrict
    <3> QED BY <1>2, <3>2 DEF Want
  <2>2. ptr = IF built THEN applied ELSE None
    BY <1>2
  <2> QED BY <1>3, <2>1, <2>2 DEF Provided, ApplyLabels, ReadLabels
<1> QED BY <1>4, <1>5, <1>6, <1>7 DEF LiveInv

(* LiveInv is inductive. *)
LEMMA LiveInvariant == Spec => []LiveInv
<1>1. Init => LiveInv
  BY LiveStarts
<1>2. LiveInv /\ [Next]_vars => LiveInv'
  BY NotifyingStep, ConfiguringStep, DeliveredStep, ProvidedStep DEF LiveInv
<1> QED BY <1>1, <1>2, PTL DEF Spec

(* The sets of keys, the channel's size, the sections read and the flag of *)
(* the retry loop are what the code's fields and locals hold.              *)
THEOREM LiveTypes == Spec => []TypeOK
<1>1. LiveInv => TypeOK
  <2> SUFFICES ASSUME Notifying, Configuring PROVE TypeOK
    BY DEF LiveInv
  <2>1. \A s \in Writers : wr[s].todo \subseteq Keys /\ (wr[s].at = "idle" => wr[s].todo = {})
    BY DEF Notifying
  <2>2. pump.keys \subseteq Keys
    BY DEF Notifying
  <2> QED BY <2>1, <2>2 DEF TypeOK, Notifying, Configuring
<1> QED BY <1>1, LiveInvariant, PTL

(* No change is dropped between the PUT that commits it and the consumer   *)
(* that reads it, for any number of requests, keys, consumers and any      *)
(* capacity of the channel.                                                *)
THEOREM ChangesArrive == Spec => []NoChangeLost
<1>1. LiveInv => NoChangeLost
  <2> SUFFICES ASSUME LiveInv, ~ctxDone, failures = 0,
                      NEW c \in Consumers, NEW k \in Reads(c), live[c][k] # db[k]
               PROVE  Carried(c, k)
    BY DEF NoChangeLost
  <2>1. Travels(c, k) \/ Passing(c, k)
    BY DEF LiveInv, Delivered
  <2> QED BY <2>1 DEF Travels, Passing, Carried, ReadLabels
<1> QED BY <1>1, LiveInvariant, PTL

(* When nobody is working on a change, the provider in use is the one of   *)
(* the stored settings, if the watcher alone has built it.                 *)
THEOREM ProviderFollows == Spec => []ProviderCurrent
<1>1. LiveInv => ProviderCurrent
  <2> SUFFICES ASSUME LiveInv, Settled, ~retried
               PROVE  ptr = IF db[ModeKey] = "oidc" THEN cfg(db) ELSE None
    BY DEF ProviderCurrent
  <2>1. \A k : ~Travels("middleware", k)
    <3>1. \A s \in Writers : wr[s].todo = {}
      BY DEF Settled, LiveInv, Notifying
    <3>2. pump.keys = {} /\ dirty = {} /\ ~authDue
      BY DEF Settled, LiveInv, Notifying
    <3>3. DOMAIN out = {}
      BY DEF Settled
    <3> QED BY <3>1, <3>2, <3>3 DEF Travels
  <2>2. proc["watch"].at = "select" /\ ~ctxDone /\ failures = 0
    BY DEF Settled
  <2>3. \A k \in Reads("middleware") : Auth[k] = db[k]
    BY <2>1, <2>2, ConsumerOf DEF LiveInv, Delivered, Passing, ReadLabels, Auth
  <2>4. ptr = Want(Auth)
    BY <2>1, <2>2 DEF LiveInv, Provided, Coming, ReadLabels
  <2>5. Auth[ModeKey] = db[ModeKey] /\ cfg(Auth) = cfg(db)
    BY <2>3, ConsumerOf DEF cfg, Restrict
  <2> QED BY <2>4, <2>5 DEF Want
<1> QED BY <1>1, LiveInvariant, PTL
=============================================================================
