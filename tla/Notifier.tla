------------------------------ MODULE Notifier ------------------------------
(***************************************************************************)
(* The notifier (internal/notify/notifier.go, evaluate.go) and its table   *)
(* notification_state (internal/store/notifications.go): queue workers     *)
(* hand results over without blocking, one goroutine evaluates them        *)
(* against merged thresholds, keeps one row per firing (target, metric)    *)
(* and sends alerts, recoveries and summaries.                             *)
(*                                                                         *)
(* Time is a clock in ticks, Day of them to a day; it advances where it is *)
(* read, once per result.  Messages are reduced to their kind and metric.  *)
(* Each select of OnResult is a step, because senders and the worker       *)
(* interleave there.  The worker's receive and its snapshot of the         *)
(* settings are one step: neither disturbs the other.  A row is written    *)
(* before its message is delivered, in two steps.  Rows are stored with    *)
(* firing=1 only, so a row is its last_fired_at.                           *)
(* X_m is a plausible wrong form of X, for mutation checks.                *)
(***************************************************************************)
EXTENDS Integers, Sequences, FiniteSets

CONSTANTS
    Targets,
    Speeds,       \* metrics with a lower limit (download, upload)
    Delays,       \* metrics with an upper limit (ping, jitter, loss)
    None,
    Empty,        \* a NULL last_fired_at: nothing was delivered yet
    Gone,         \* the document of a deleted target
    Docs,         \* the documents a target may be given
    Confs,        \* the notification settings Configure may be given
    Results,      \* the results the runner may hand over
    Senders,      \* the runner's queue goroutines
    QueueCap,     \* Config.QueueCap
    Day,          \* ticks per day
    MaxNow, MaxOffered,
    MaxTrouble    \* bounds: the last one on edits, failures and crashes together

ASSUME BoundsAssumption ==
    /\ QueueCap \in Nat \ {0} /\ Day \in Nat \ {0}
    /\ {MaxNow, MaxOffered, MaxTrouble} \subseteq Nat

Limits == Speeds \cup Delays
Metric == Limits \cup {"failure"}                \* allMetrics

(* A result is of a target; None is no result, time or message, and Empty  *)
(* no time.                                                                *)
ASSUME DataAssumption ==
    /\ \A res \in Results : res.target \in Targets
    /\ None \notin Results /\ None # Empty /\ {None, Empty} \cap (0..MaxNow) = {}
    /\ None \notin [kind : {"alert", "recovery"}, metric : Metric]

VARIABLES
    conf,      \* n.conf
    doc,       \* targets.thresholds
    rows,      \* notification_state.last_fired_at, None where there is no row
    now,       \* the clock
    queue,     \* n.queue
    hand,      \* what a sender is about to queue, and where it is in OnResult
    stop,      \* n.stop is closed
    pc, cur,   \* the worker and the locals of process
    dropped,   \* n.dropped
    edits, failures, crashes,   \* how much of the bounds is used
    \* history, for the properties only:
    offered, handled, late,     \* results handed over, received, queued after Close
    told,      \* the last thing sent (or lost in a crash) about a pair
    should     \* the metrics of a target that ought to be firing

bounds  == <<edits, failures, crashes>>
counts  == <<offered, handled, late>>
vars    == <<conf, doc, rows, now, queue, hand, stop, pc, cur, dropped,
             bounds, counts, told, should>>

-----------------------------------------------------------------------------
(* Evaluation: pure *)

(* A field a document sets replaces the default, one it nulls is off. *)
Merge(base, d) ==
    [f \in DOMAIN base |->
        IF f \in d.nulled THEN None
        ELSE IF d.over[f] # None THEN d.over[f] ELSE base[f]]

(* iperf3 measures one direction at a time: 0 there is "not measured". *)
Measured(res, m) == ~(m \in Speeds /\ res.engine = "iperf3" /\ res.val[m] = 0)

Over(m, v, limit) == IF m \in Speeds THEN v < limit ELSE v > limit

(* The metrics evaluated, each with whether it is breached; a failed       *)
(* result says nothing about the measured ones.                            *)
Evaluate(res, th) ==
    LET failure  == IF th["on_failure"] = TRUE THEN {"failure"} ELSE {}
        measured == {m \in Limits : th[m] # None /\ Measured(res, m)}
    IN  IF res.ok
        THEN [m \in measured \cup failure |->
                m # "failure" /\ Over(m, res.val[m], th[m])]
        ELSE [m \in failure |-> TRUE]

(* [start, end) in minutes of the day, wrapping midnight when start > end. *)
quietNow(t, start, end) ==
    LET mins == t % Day
    IN  /\ start # None /\ end # None /\ start # end
        /\ IF start > end THEN mins >= start \/ mins < end
                          ELSE mins >= start /\ mins < end

cooldownElapsed(last, t, cooldown) ==
    last \in {None, Empty} \/ t - last >= cooldown

-----------------------------------------------------------------------------
NoCur == [res |-> None]

Trouble == edits + failures + crashes < MaxTrouble

Init ==
    /\ conf \in Confs
    /\ doc \in [Targets -> Docs]
    /\ rows = [t \in Targets |-> [m \in Metric |-> None]]
    /\ now = 0
    /\ queue = <<>>
    /\ hand = [s \in Senders |-> [at |-> "idle", res |-> None]]
    /\ stop = FALSE
    /\ pc = "select" /\ cur = NoCur
    /\ dropped = 0
    /\ edits = 0 /\ failures = 0 /\ crashes = 0
    /\ offered = 0 /\ handled = 0 /\ late = 0
    /\ told = [t \in Targets |-> [m \in Metric |-> [kind |-> "none", at |-> 0]]]
    /\ should = [t \in Targets |-> {}]

Configure(c) ==
    /\ Trouble /\ c # conf
    /\ conf' = c /\ edits' = edits + 1
    /\ UNCHANGED <<doc, rows, now, queue, hand, stop, pc, cur, dropped,
                   failures, crashes, counts, told, should>>

(* PUT or DELETE of a target; its rows go with a deleted one. *)
EditTarget(t, d) ==
    /\ Trouble /\ doc[t] \notin {d, Gone}
    /\ doc' = [doc EXCEPT ![t] = d] /\ edits' = edits + 1
    /\ rows' = IF d = Gone THEN [rows EXCEPT ![t] = [m \in Metric |-> None]]
                           ELSE rows
    /\ UNCHANGED <<conf, now, queue, hand, stop, pc, cur, dropped, failures,
                   crashes, counts, told, should>>

-----------------------------------------------------------------------------
(* OnResult *)

rest == <<conf, doc, rows, now, stop, pc, cur, bounds, handled, told, should>>

Send(s, res) ==
    /\ queue' = Append(queue, res)
    /\ hand' = [hand EXCEPT ![s] = [at |-> "idle", res |-> None]]
    /\ late' = IF stop THEN late + 1 ELSE late
    /\ UNCHANGED dropped

OnResult(s, res) ==
    /\ hand[s].at = "idle" /\ offered < MaxOffered
    /\ offered' = offered + 1
    /\ IF Len(queue) < QueueCap THEN Send(s, res)
       ELSE /\ hand' = [hand EXCEPT ![s] = [at |-> "full", res |-> res]]
            /\ UNCHANGED <<queue, dropped, late>>
    /\ UNCHANGED rest

DropOldest_m(s) ==
    /\ hand[s].at = "full"
    /\ hand' = [hand EXCEPT ![s].at = "again"]
    /\ queue' = IF queue = <<>> THEN queue ELSE Tail(queue)
    /\ UNCHANGED <<dropped, offered, late, rest>>
DropOldest(s) ==
    /\ hand[s].at = "full"
    /\ hand' = [hand EXCEPT ![s].at = "again"]
    /\ IF queue = <<>> THEN UNCHANGED <<queue, dropped>>
       ELSE queue' = Tail(queue) /\ dropped' = dropped + 1
    /\ UNCHANGED <<offered, late, rest>>

SendAgain(s) ==
    /\ hand[s].at = "again"
    /\ IF Len(queue) < QueueCap THEN Send(s, hand[s].res)
       ELSE /\ dropped' = dropped + 1
            /\ hand' = [hand EXCEPT ![s] = [at |-> "idle", res |-> None]]
            /\ UNCHANGED <<queue, late>>
    /\ UNCHANGED <<offered, rest>>

(* Close, called once by main; it then waits for the worker. *)
Close ==
    /\ ~stop /\ stop' = TRUE
    /\ UNCHANGED <<conf, doc, rows, now, queue, hand, pc, cur, dropped, bounds,
                   counts, told, should>>

-----------------------------------------------------------------------------
(* The worker.  cur.back is the loop it returns to: the main one, or the   *)
(* one that empties the queue after Close.                                 *)

settled == <<conf, doc, hand, stop, dropped, edits, offered, late>>
idle == <<settled, now>>

Finish_m == pc' = cur.back /\ UNCHANGED cur
Finish == pc' = cur.back /\ cur' = NoCur

(* process: take a snapshot of the settings; a disabled notifier does      *)
(* nothing.                                                                *)
Receive ==
    /\ pc \in {"select", "drain"} /\ queue # <<>>
    /\ queue' = Tail(queue) /\ handled' = handled + 1
    /\ IF conf.enabled
       THEN pc' = "target" /\ cur' = [res |-> Head(queue), conf |-> conf, back |-> pc]
       ELSE UNCHANGED <<pc, cur>>
    /\ UNCHANGED <<idle, rows, failures, crashes, told, should>>

(* The stop case of the worker's select, and the end of its drain. *)
SeeStop ==
    /\ pc = "select" /\ stop
    /\ pc' = "drain"
    /\ UNCHANGED <<idle, rows, queue, cur, failures, crashes, handled, told, should>>

Drained == pc = "drain" /\ queue = <<>>

Return ==
    /\ Drained
    /\ pc' = "done"
    /\ UNCHANGED <<idle, rows, queue, cur, failures, crashes, handled, told, should>>

Fails == Trouble /\ failures' = failures + 1

(* A target that is gone ends it, and so does one that cannot be read or   *)
(* whose document does not parse (the API stores none such).               *)
GetTarget ==
    LET t == cur.res.target IN
    /\ pc = "target"
    /\ \/ /\ doc[t] # Gone
          /\ LET th == Merge(cur.conf.defaults, doc[t])
                 ev == Evaluate(cur.res, th)
                 c  == cur.conf
             IN  /\ now' \in now..MaxNow
                 /\ cur' = [res |-> cur.res, conf |-> c, back |-> cur.back,
                            always |-> th["always"], ev |-> ev,
                            todo |-> DOMAIN ev, at |-> now',
                            quiet |-> quietNow(now', c.start, c.end),
                            msg |-> None]
          /\ pc' = "eval"
          /\ UNCHANGED failures
       \/ doc[t] = Gone /\ Finish /\ UNCHANGED <<now, failures>>
       \/ Fails /\ Finish /\ UNCHANGED now
    /\ UNCHANGED <<settled, rows, queue, crashes, handled, told, should>>

(* last_fired_at of the row fire writes; quiet hours leave an existing row *)
(* alone and mark a new one as never delivered.                            *)
FiredAt_m(last) == cur.at
FiredAt(last) == IF ~cur.quiet THEN cur.at ELSE IF last = None THEN Empty ELSE last

Message(kind, m) == [kind |-> kind, metric |-> m]

(* handleEval with fire and recover: the row (None to delete it) and the   *)
(* message (None for none) that an evaluation leads to.                    *)
Verdict(m) ==
    LET last == rows[cur.res.target][m] IN
    IF cur.ev[m]
    THEN IF cooldownElapsed(last, cur.at, cur.conf.cooldown)
         THEN [row |-> FiredAt(last),
               msg |-> IF cur.quiet THEN None ELSE Message("alert", m)]
         ELSE [row |-> last, msg |-> None]
    ELSE [row |-> None,
          msg |-> IF /\ last \notin {None, Empty}
                     /\ cur.conf.recovery /\ ~cur.quiet
                  THEN Message("recovery", m) ELSE None]

(* Silently cleared rows make the pair as good as never mentioned. *)
Forget(t, M) ==
    told' = [told EXCEPT ![t] =
              [m \in Metric |-> IF m \in M THEN [kind |-> "none", at |-> 0] ELSE @[m]]]

(* The evaluations come in a fixed order; they touch different rows. *)
handleEval ==
    LET t == cur.res.target
        m == CHOOSE x \in cur.todo : TRUE
        v == Verdict(m)
    IN
    /\ pc = "eval" /\ cur.todo # {}
    /\ \/ /\ v.row \in {None, rows[t][m]} \/ doc[t] # Gone
          /\ rows' = [rows EXCEPT ![t][m] = v.row]
          /\ cur' = [cur EXCEPT !.todo = @ \ {m}, !.msg = v.msg]
          /\ pc' = IF v.msg = None THEN "eval" ELSE "deliver"
          /\ Forget(t, IF v = [row |-> None, msg |-> None] THEN {m} ELSE {})
          /\ UNCHANGED failures
       \/ \* the row's target has been deleted meanwhile
          /\ ~(v.row \in {None, rows[t][m]}) /\ doc[t] = Gone
          /\ cur' = [cur EXCEPT !.todo = @ \ {m}]
          /\ UNCHANGED <<rows, pc, told, failures>>
       \/ /\ Fails
          /\ cur' = [cur EXCEPT !.todo = @ \ {m}]
          /\ UNCHANGED <<rows, pc, told>>
    /\ UNCHANGED <<idle, queue, crashes, handled, should>>

failureAlertCovers == ~cur.res.ok /\ "failure" \in DOMAIN cur.ev

(* The rest of process: clear what an ok result no longer evaluates, then  *)
(* the summary of notify_always.  Each clear may fail on its own.          *)
Stale_m == {m \in Metric \ DOMAIN cur.ev : rows[cur.res.target][m] # None}
Stale ==
    IF cur.res.ok
    THEN {m \in Metric \ DOMAIN cur.ev : rows[cur.res.target][m] # None}
    ELSE {}

clearStaleState ==
    LET t == cur.res.target
        breached == {m \in DOMAIN cur.ev : cur.ev[m]}
        summary  == /\ cur.always = TRUE /\ ~failureAlertCovers
                    /\ ~cur.quiet
    IN
    /\ pc = "eval" /\ cur.todo = {}
    /\ \E kept \in SUBSET Stale :
         /\ IF kept = {} THEN UNCHANGED failures ELSE Fails
         /\ rows' = [rows EXCEPT ![t] =
                       [m \in Metric |-> IF m \in Stale \ kept THEN None ELSE @[m]]]
         /\ Forget(t, Stale \ kept)
    /\ should' = [should EXCEPT ![t] =
                    IF cur.res.ok THEN breached ELSE @ \cup breached]
    /\ IF summary
       THEN pc' = "deliver" /\ cur' = [cur EXCEPT !.msg = Message("result", None)]
       ELSE Finish
    /\ UNCHANGED <<idle, queue, crashes, handled>>

(* deliver tries every enabled channel; what the channels answer is only   *)
(* counted.                                                                *)
deliver ==
    LET t == cur.res.target IN
    /\ pc = "deliver"
    /\ IF cur.msg.kind = "result" THEN Finish /\ UNCHANGED told
       ELSE /\ pc' = "eval"
            /\ cur' = [cur EXCEPT !.msg = None]
            /\ told' = [told EXCEPT ![t][cur.msg.metric] =
                          [kind |-> cur.msg.kind, at |-> cur.at]]
    /\ UNCHANGED <<idle, rows, queue, failures, crashes, handled, should>>

(* The process dies and comes back: the rows survive, the queue and a      *)
(* message not delivered yet do not.                                       *)
Crash ==
    /\ Trouble /\ ~stop
    /\ crashes' = crashes + 1
    /\ queue' = <<>>
    /\ hand' = [s \in Senders |-> [at |-> "idle", res |-> None]]
    /\ pc' = "select" /\ cur' = NoCur
    /\ dropped' = 0 /\ offered' = 0 /\ handled' = 0 /\ late' = 0
    /\ IF pc = "deliver" /\ cur.msg.kind # "result"
       THEN told' = [told EXCEPT ![cur.res.target][cur.msg.metric] =
                       IF cur.msg.kind = "alert"
                       THEN [kind |-> "lost", at |-> cur.at]
                       ELSE [kind |-> "none", at |-> 0]]
       ELSE UNCHANGED told
    /\ should' = [t \in Targets |-> {m \in Metric : rows[t][m] # None}]
    /\ UNCHANGED <<conf, doc, rows, now, stop, edits, failures>>

WorkerStep ==
    \/ Receive \/ SeeStop \/ Return
    \/ GetTarget \/ handleEval \/ clearStaleState \/ deliver

Next ==
    \/ \E c \in Confs : Configure(c)
    \/ \E t \in Targets, d \in Docs \cup {Gone} : EditTarget(t, d)
    \/ \E s \in Senders : \/ \E res \in Results : OnResult(s, res)
                          \/ DropOldest(s) \/ SendAgain(s)
    \/ Close
    \/ WorkerStep
    \/ Crash

Spec == Init /\ [][Next]_vars

-----------------------------------------------------------------------------
(* Properties *)

TypeOK ==
    /\ conf \in Confs /\ doc \in [Targets -> Docs \cup {Gone}]
    /\ rows \in [Targets -> [Metric -> {None, Empty} \cup 0..MaxNow]]
    /\ now \in 0..MaxNow
    /\ Len(queue) <= QueueCap
    /\ \A s \in Senders : hand[s].at = "idle" <=> hand[s].res = None
    /\ pc \in {"select", "drain", "target", "eval", "deliver", "done"}
    /\ cur = NoCur <=> pc \in {"select", "drain", "done"}

(* Whenever the worker is between results, the rows of a target are        *)
(* exactly the metrics its results left breached: the last ok result       *)
(* decides all of them (also those it no longer evaluates), a failed one   *)
(* only adds the failure alert.  Quiet hours, cooldowns, edits of the      *)
(* thresholds and a disabled notifier change nothing about that (a crash   *)
(* in the middle of a result restarts the account from the rows it left).  *)
FiringIsCurrent ==
    pc \in {"select", "drain", "done"} /\ failures = 0 =>
        \A t \in Targets : doc[t] # Gone =>
            {m \in Metric : rows[t][m] # None} = should[t]

Sends(kind) ==
    pc = "deliver" /\ pc' # pc /\ crashes' = crashes /\ cur.msg.kind = kind

(* "there is nothing to report as recovered" unless an alert went out: a   *)
(* recovery is sent only about a pair whose last message was an alert, or  *)
(* whose alert a crash lost between its row and its delivery.              *)
RecoveryFollowsAlert ==
    Sends("recovery") =>
        told[cur.res.target][cur.msg.metric].kind \in {"alert", "lost"}

(* A pair that keeps failing is reported at most once per cooldown, also   *)
(* across quiet hours and a restart.                                       *)
CooldownKept ==
    Sends("alert") =>
        LET last == told[cur.res.target][cur.msg.metric]
        IN  last.kind \in {"alert", "lost"} =>
               cur.at - last.at >= cur.conf.cooldown

(* What the channels are told of a target and metric alternates as its     *)
(* reader expects: no recovery out of nowhere, no alert again too soon.    *)
AlertProtocol == [][RecoveryFollowsAlert /\ CooldownKept]_vars

(* The three selects of OnResult, run by several senders at once beside    *)
(* the worker, lose no result without counting it.                         *)
NothingLostUncounted ==
    offered = handled + dropped + Len(queue)
              + Cardinality({s \in Senders : hand[s].at # "idle"})

(* "Drain whatever is already queued rather than dropping it": what is     *)
(* left when the worker has returned was queued after Close.               *)
ClosedIsDrained == pc = "done" => Len(queue) <= late

(* Every result is handled, waiting or counted as dropped, at any moment   *)
(* and when the worker has returned.                                       *)
ResultsAccounted == NothingLostUncounted /\ ClosedIsDrained
=============================================================================
