----------------------------- MODULE Scheduler -----------------------------
(***************************************************************************)
(* The scheduler (internal/scheduler/scheduler.go): Reload, fire, Next and *)
(* Stop, with the API handlers that change schedules and targets           *)
(* (internal/api/schedules.go, targets.go) and then call Reload.           *)
(*                                                                         *)
(* A section of s.mu is one step.  reloadMu is held across store calls and *)
(* is explicit.  ListSchedules is two queries, hence two steps.  A cron    *)
(* instance (robfig/cron, external) is what its users rely on: Start makes *)
(* it live, Stop ends that and does nothing to one that is not live yet,   *)
(* a live instance may start the callback of any of its entries, entry ids *)
(* count from 1 in every instance.  Time is left out: a live entry may     *)
(* fire at any moment.                                                     *)
(*                                                                         *)
(* The runner is what fire can tell of it: whether the schedule has a run  *)
(* queued or running, and whether a new one is accepted (Runner.tla has    *)
(* the rest).  X_m is a plausible wrong form of X, for mutation checks.    *)
(***************************************************************************)
EXTENDS Integers, Sequences, FiniteSets

CONSTANTS
    Order,        \* the schedules, in the order ListSchedules returns them
    Targets,      \* target ids
    Specs,        \* usable cron expressions
    BadSpec,      \* an expression ParseSpec rejects (a row edited by hand)
    Handlers,     \* goroutines that serve the API or watch the settings
    Main,         \* the goroutine that calls Stop
    Fires,        \* cron callbacks; each fires once (a bound)
    None,
    InitRows, InitTargets,  \* schedules and schedule_targets at startup
    MaxEdits,     \* bound on mutations
    MaxFailures   \* bound on failing store calls

Scheds == {Order[i] : i \in DOMAIN Order}
Row    == [spec : Specs \cup {BadSpec}, enabled : BOOLEAN]
Crons  == 0 .. MaxEdits   \* every edit reloads at most once

ASSUME SchedulerAssumption ==
    /\ Order \in Seq(Scheds)
    /\ InitRows \in [Scheds -> Row \cup {None}]
    /\ InitTargets \in [Scheds -> SUBSET Targets]
    /\ MaxEdits \in Nat /\ MaxFailures \in Nat
    /\ None \notin Row \cup Handlers \cup Scheds
    /\ BadSpec \notin Specs /\ Main \notin Handlers

VARIABLES
    rows,       \* the schedules table
    schedTgts,  \* the schedule_targets table
    targets,    \* the ids in the targets table
    active,     \* schedules with a queued or running run
    cron,       \* s.cron: an instance, or None
    entries,    \* s.entries: schedule id -> entry id
    stopped,    \* s.stopped
    reloadMu,   \* holder of reloadMu
    live,       \* the instances that are running
    jobs,       \* entries of each instance: what the closures captured
    made,       \* instances made so far
    pc,         \* where each handler is, and Main
    list,       \* what a handler's ListSchedules has read so far
    old,        \* the instance a Reload is to stop
    look,       \* what Next read under s.mu
    cb,         \* the callbacks
    edits, failures

tables == <<rows, schedTgts, targets, active>>
fields == <<cron, entries, stopped, live, jobs, made>>
locals == <<list, old, look>>
bounds == <<edits, failures>>
vars   == <<tables, fields, reloadMu, pc, locals, cb, bounds>>

Goto(h, l) == pc' = [pc EXCEPT ![h] = l]

-----------------------------------------------------------------------------
(* Mutations.  Each handler writes the store and then calls Reload; only   *)
(* deleteTarget, whose delete cascades to schedule_targets, does not.      *)

Edit(h) == pc[h] = "idle" /\ edits < MaxEdits /\ edits' = edits + 1

(* createSchedule and updateSchedule: validateSchedule lets only a usable  *)
(* expression and at least one existing target through.                    *)
saveSchedule(h, s, row, T) ==
    /\ Edit(h)
    /\ row.spec \in Specs /\ T # {} /\ T \subseteq targets
    /\ rows' = [rows EXCEPT ![s] = row]
    /\ schedTgts' = [schedTgts EXCEPT ![s] = T]
    /\ Goto(h, "lock")
    /\ UNCHANGED <<targets, active, fields, reloadMu, locals, cb, failures>>

(* deleteSchedule: its runs keep their rows and lose their schedule.       *)
deleteSchedule(h, s) ==
    /\ Edit(h) /\ rows[s] # None
    /\ rows' = [rows EXCEPT ![s] = None]
    /\ schedTgts' = [schedTgts EXCEPT ![s] = {}]
    /\ active' = active \ {s}
    /\ Goto(h, "lock")
    /\ UNCHANGED <<targets, fields, reloadMu, locals, cb, failures>>

deleteTarget_m(h, t) ==
    /\ Edit(h) /\ t \in targets
    /\ targets' = targets \ {t}
    /\ UNCHANGED <<rows, schedTgts, active, fields, reloadMu, pc, locals, cb,
                   failures>>
deleteTarget(h, t) ==
    /\ Edit(h) /\ t \in targets
    /\ targets' = targets \ {t}
    /\ schedTgts' = [s \in Scheds |-> schedTgts[s] \ {t}]
    /\ UNCHANGED <<rows, active, fields, reloadMu, pc, locals, cb, failures>>

(* watchSettings on general.timezone. *)
timezoneChanged(h) ==
    /\ Edit(h)
    /\ Goto(h, "lock")
    /\ UNCHANGED <<tables, fields, reloadMu, locals, cb, failures>>

(* A run of schedule s has begun: the callbacks between check and Enqueue  *)
(* note it (history).                                                      *)
RunBegins(C, s) ==
    [f \in Fires |-> IF C[f].pc = "enqueue" /\ C[f].entry.sched = s
                     THEN [C[f] EXCEPT !.since = TRUE] ELSE C[f]]

(* runSchedule: a manual run of the schedule, deduplicated or refused by   *)
(* Enqueue like any other.                                                 *)
runSchedule(s) ==
    /\ rows[s] # None /\ schedTgts[s] # {} /\ s \notin active
    /\ active' = active \cup {s}
    /\ cb' = RunBegins(cb, s)
    /\ UNCHANGED <<rows, schedTgts, targets, fields, reloadMu, pc, locals,
                   bounds>>

(* The runner ends the run of schedule s. *)
runEnds(s) ==
    /\ s \in active
    /\ active' = active \ {s}
    /\ UNCHANGED <<rows, schedTgts, targets, fields, reloadMu, pc, locals, cb,
                   bounds>>

-----------------------------------------------------------------------------
(* Reload *)

ReloadLock_m(h) ==
    /\ pc[h] = "lock"
    /\ reloadMu' = h
    /\ Goto(h, "rows")
    /\ UNCHANGED <<tables, fields, locals, cb, bounds>>
ReloadLock(h) ==
    /\ pc[h] = "lock" /\ reloadMu = None
    /\ reloadMu' = h
    /\ Goto(h, "rows")
    /\ UNCHANGED <<tables, fields, locals, cb, bounds>>

(* ListSchedules reads the rows, and then their targets.                   *)
ListSchedules(h) ==
    /\ pc[h] = "rows"
    /\ list' = [list EXCEPT ![h] = rows]
    /\ Goto(h, "targets")
    /\ UNCHANGED <<tables, fields, reloadMu, old, look, cb, bounds>>

ListFails(h) ==
    /\ pc[h] \in {"rows", "targets"} /\ failures < MaxFailures
    /\ failures' = failures + 1
    /\ reloadMu' = None
    /\ Goto(h, "idle")
    /\ UNCHANGED <<tables, fields, locals, cb, edits>>

(* A schedule gets an entry unless it is disabled, targetless or invalid.  *)
Schedulable_m(row, T) == row # None /\ T # {} /\ row.spec # BadSpec
Schedulable(row, T) ==
    row # None /\ row.enabled /\ T # {} /\ row.spec # BadSpec

(* The entries of a new instance: one per schedulable schedule; they are   *)
(* added in order, and cron numbers them from 1.                           *)
EntriesOf(L, T) ==
    LET kept  == {i \in DOMAIN Order : Schedulable(L[Order[i]], T[Order[i]])}
        id(i) == Cardinality({j \in kept : j <= i})
    IN  [n \in {id(i) : i \in kept} |->
           LET s == Order[CHOOSE i \in kept : id(i) = n]
           IN  [sched |-> s, row |-> L[s], targets |-> T[s]]]

attachScheduleTargets(h) ==
    /\ pc[h] = "targets"
    /\ jobs' = [jobs EXCEPT ![made + 1] = EntriesOf(list[h], schedTgts)]
    /\ made' = made + 1
    /\ list' = [list EXCEPT ![h] = made + 1]
    /\ Goto(h, "swap")
    /\ UNCHANGED <<tables, cron, entries, stopped, live, reloadMu, old, look,
                   cb, bounds>>

(* s.entries for the instance k. *)
EntryIds(k) ==
    [s \in {jobs[k][i].sched : i \in DOMAIN jobs[k]} |->
       CHOOSE i \in DOMAIN jobs[k] : jobs[k][i].sched = s]

(* Under s.mu: after a Stop the new instance is dropped ... *)
ReloadDiscard(h) ==
    /\ pc[h] = "swap" /\ stopped
    /\ reloadMu' = None
    /\ Goto(h, "idle")
    /\ list' = [list EXCEPT ![h] = None]
    /\ UNCHANGED <<tables, fields, old, look, cb, bounds>>

(* ... otherwise it replaces the old one, ... *)
ReloadSwap_m(h) ==
    /\ pc[h] = "swap" /\ ~stopped
    /\ old' = [old EXCEPT ![h] = cron]
    /\ cron' = list[h]
    /\ Goto(h, "start")
    /\ UNCHANGED <<tables, entries, stopped, live, jobs, made, reloadMu, list,
                   look, cb, bounds>>
ReloadSwap(h) ==
    /\ pc[h] = "swap" /\ ~stopped
    /\ old' = [old EXCEPT ![h] = cron]
    /\ cron' = list[h]
    /\ entries' = EntryIds(list[h])
    /\ Goto(h, "start")
    /\ UNCHANGED <<tables, stopped, live, jobs, made, reloadMu, list, look, cb,
                   bounds>>

(* ... is started, ... *)
ReloadStart(h) ==
    /\ pc[h] = "start"
    /\ live' = live \cup {list[h]}
    /\ list' = [list EXCEPT ![h] = None]
    /\ Goto(h, "stopOld")
    /\ UNCHANGED <<tables, cron, entries, stopped, jobs, made, reloadMu, old,
                   look, cb, bounds>>

(* ... and the old one is stopped, whose running callbacks go on.          *)
ReloadStopOld(h) ==
    /\ pc[h] = "stopOld"
    /\ live' = live \ {old[h]}
    /\ old' = [old EXCEPT ![h] = None]
    /\ reloadMu' = None
    /\ Goto(h, "idle")
    /\ UNCHANGED <<tables, cron, entries, stopped, jobs, made, list, look, cb,
                   bounds>>

-----------------------------------------------------------------------------
(* Next: s.cron and s.entries are read under s.mu, the entry afterwards.   *)

schedulerNext(h, s) ==
    /\ pc[h] = "idle"
    /\ cron # None /\ s \in DOMAIN entries
    /\ look' = [look EXCEPT ![h] =
                   [cron |-> cron, id |-> entries[s], sched |-> s]]
    /\ Goto(h, "entry")
    /\ UNCHANGED <<tables, fields, reloadMu, list, old, cb, bounds>>

NextEntry(h) ==
    /\ pc[h] = "entry"
    /\ look' = [look EXCEPT ![h] = None]
    /\ Goto(h, "idle")
    /\ UNCHANGED <<tables, fields, reloadMu, list, old, cb, bounds>>

-----------------------------------------------------------------------------
(* fire *)

(* since is history: a run of the schedule has begun since the check.      *)
NoFire == [pc |-> "new", cron |-> None, entry |-> None, out |-> "none",
           since |-> FALSE]

Ended(f, out)   == [cb EXCEPT ![f].pc = "done", ![f].out = out]
EndFire(f, out) == cb' = Ended(f, out)

Tick(f, k, i) ==
    /\ k \in live /\ i \in DOMAIN jobs[k]
    /\ cb[f].pc = "new"
    /\ cb' = [cb EXCEPT ![f] = [pc |-> "check", cron |-> k,
                                entry |-> jobs[k][i], out |-> "none",
                                since |-> FALSE]]
    /\ UNCHANGED <<tables, fields, reloadMu, pc, locals, bounds>>

(* QueuedRunForSchedule *)
fire_m(f) ==
    /\ cb[f].pc = "check"
    /\ cb' = [cb EXCEPT ![f].pc = "enqueue"]
    /\ UNCHANGED <<tables, fields, reloadMu, pc, locals, bounds>>
fire(f) ==
    /\ cb[f].pc = "check"
    /\ cb' = [cb EXCEPT ![f].pc = IF cb[f].entry.sched \in active
                                  THEN "skip" ELSE "enqueue"]
    /\ UNCHANGED <<tables, fields, reloadMu, pc, locals, bounds>>

(* Enqueue with the captured targets.  None left is ErrNoTargets ... *)
fireNoTargets(f) ==
    /\ cb[f].pc = "enqueue" /\ cb[f].entry.targets \cap targets = {}
    /\ cb' = [cb EXCEPT ![f].pc = "skip"]
    /\ UNCHANGED <<tables, fields, reloadMu, pc, locals, bounds>>

(* ... a run that is there by now is returned as if it were this fire's    *)
(* own ...                                                                 *)
fireMerged(f) ==
    /\ cb[f].pc = "enqueue" /\ cb[f].entry.targets \cap targets # {}
    /\ cb[f].entry.sched \in active
    /\ EndFire(f, "merged")
    /\ UNCHANGED <<tables, fields, reloadMu, pc, locals, bounds>>

(* ... a row for a deleted schedule violates its foreign key ... *)
fireDeleted(f) ==
    /\ cb[f].pc \in {"enqueue", "skip"} /\ rows[cb[f].entry.sched] = None
    /\ EndFire(f, "lost")
    /\ UNCHANGED <<tables, fields, reloadMu, pc, locals, bounds>>

(* ... and otherwise the run is queued, or refused: the queue is full, the *)
(* runner shutting down or the targets disabled.                           *)
fireQueued(f) ==
    LET s == cb[f].entry.sched
    IN  /\ cb[f].pc = "enqueue" /\ cb[f].entry.targets \cap targets # {}
        /\ s \notin active /\ rows[s] # None
        /\ active' = active \cup {s}
        /\ cb' = RunBegins(Ended(f, "queued"), s)
        /\ UNCHANGED <<rows, schedTgts, targets, fields, reloadMu, pc, locals,
                       bounds>>

fireRefused(f) ==
    LET s == cb[f].entry.sched
    IN  /\ cb[f].pc = "enqueue" /\ s \notin active /\ rows[s] # None
        /\ cb' = [cb EXCEPT ![f].pc = "skip"]
        /\ UNCHANGED <<tables, fields, reloadMu, pc, locals, bounds>>

(* InsertSkippedRun *)
skip(f) ==
    /\ cb[f].pc = "skip" /\ rows[cb[f].entry.sched] # None
    /\ EndFire(f, "skipped")
    /\ UNCHANGED <<tables, fields, reloadMu, pc, locals, bounds>>

(* A store error in the check, in Enqueue or in skip is only logged.       *)
fireFails(f) ==
    /\ cb[f].pc \in {"check", "enqueue", "skip"} /\ failures < MaxFailures
    /\ failures' = failures + 1
    /\ EndFire(f, "lost")
    /\ UNCHANGED <<tables, fields, reloadMu, pc, locals, edits>>

-----------------------------------------------------------------------------
(* Stop does not take reloadMu. *)

Stop ==
    /\ pc[Main] = "idle"
    /\ stopped' = TRUE
    /\ cron' = None /\ entries' = <<>>
    /\ old' = [old EXCEPT ![Main] = cron]
    /\ Goto(Main, IF cron = None THEN "returned" ELSE "halt")
    /\ UNCHANGED <<tables, live, jobs, made, reloadMu, list, look, cb, bounds>>

StopCron ==
    /\ pc[Main] = "halt"
    /\ live' = live \ {old[Main]}
    /\ Goto(Main, "wait")
    /\ UNCHANGED <<tables, cron, entries, stopped, jobs, made, reloadMu, locals,
                   cb, bounds>>

Running(f) == cb[f].pc \in {"check", "enqueue", "skip"}

(* The instance's own callbacks are waited for ... *)
StopReturns ==
    /\ pc[Main] = "wait"
    /\ \A f \in Fires : Running(f) => cb[f].cron # old[Main]
    /\ Goto(Main, "returned")
    /\ UNCHANGED <<tables, fields, reloadMu, locals, cb, bounds>>

(* ... or the context ends. *)
StopTimesOut ==
    /\ pc[Main] = "wait"
    /\ Goto(Main, "gaveUp")
    /\ UNCHANGED <<tables, fields, reloadMu, locals, cb, bounds>>

-----------------------------------------------------------------------------
(* The state main's first Reload leaves. *)
Init ==
    /\ rows = InitRows /\ schedTgts = InitTargets /\ targets = Targets
    /\ active = {}
    /\ cron = 0 /\ made = 0 /\ live = {0}
    /\ jobs = [k \in Crons |->
                 IF k = 0 THEN EntriesOf(InitRows, InitTargets) ELSE <<>>]
    /\ entries = EntryIds(0)
    /\ stopped = FALSE /\ reloadMu = None
    /\ pc = [h \in Handlers \cup {Main} |-> "idle"]
    /\ list = [h \in Handlers |-> None]
    /\ old = [h \in Handlers \cup {Main} |-> None]
    /\ look = [h \in Handlers |-> None]
    /\ cb = [f \in Fires |-> NoFire]
    /\ edits = 0 /\ failures = 0

ReloadStep(h) ==
    \/ ReloadLock(h) \/ ListSchedules(h) \/ ListFails(h)
    \/ attachScheduleTargets(h) \/ ReloadDiscard(h) \/ ReloadSwap(h)
    \/ ReloadStart(h) \/ ReloadStopOld(h)

FireStep(f) ==
    \/ fire(f) \/ fireNoTargets(f) \/ fireMerged(f) \/ fireDeleted(f)
    \/ fireQueued(f) \/ fireRefused(f) \/ skip(f) \/ fireFails(f)

EditStep(h) ==
    \/ \E s \in Scheds, row \in Row, T \in SUBSET Targets :
         saveSchedule(h, s, row, T)
    \/ \E s \in Scheds : deleteSchedule(h, s)
    \/ \E t \in Targets : deleteTarget(h, t)
    \/ timezoneChanged(h)

Next ==
    \/ \E h \in Handlers : \/ EditStep(h) \/ ReloadStep(h) \/ NextEntry(h)
                           \/ \E s \in Scheds : schedulerNext(h, s)
    \/ \E s \in Scheds : runSchedule(s) \/ runEnds(s)
    \/ \E f \in Fires : \/ FireStep(f)
                        \/ \E k \in live : \E i \in DOMAIN jobs[k] : Tick(f, k, i)
    \/ Stop \/ StopCron \/ StopReturns \/ StopTimesOut

Spec == Init /\ [][Next]_vars

-----------------------------------------------------------------------------
(* Properties *)

Reloading(h) == pc[h] \in {"lock", "rows", "targets", "swap", "start", "stopOld"}

(* No mutation is waiting to be loaded, none was lost to a store error and *)
(* the scheduler has not been stopped.                                     *)
Settled == ~stopped /\ failures = 0 /\ \A h \in Handlers : ~Reloading(h)

(* Every variable has the shape of the field or local it stands for.  Also *)
(* a Reload that fails lets the next one in: reloadMu is held only by a    *)
(* goroutine that is still inside Reload.                                  *)
TypeOK ==
    /\ reloadMu # None =>
          pc[reloadMu] \in {"rows", "targets", "swap", "start", "stopOld"}
    /\ rows \in [Scheds -> Row \cup {None}]
    /\ schedTgts \in [Scheds -> SUBSET targets]
    /\ targets \subseteq Targets /\ active \subseteq Scheds
    /\ cron \in 0 .. made \cup {None} /\ live \subseteq 0 .. made
    /\ DOMAIN entries \subseteq Scheds
    /\ stopped <=> pc[Main] # "idle"
    /\ reloadMu \in Handlers \cup {None}

(* reloadMu keeps Reloads from leaking an instance: while the scheduler is *)
(* not stopped, an instance that runs is s.cron or is about to be stopped  *)
(* by the Reload that replaced it, and s.cron runs unless the Reload that  *)
(* installed it is about to start it.                                      *)
NoLeak ==
    ~stopped =>
        /\ \A k \in live : k = cron \/ \E h \in Handlers : old[h] = k
        /\ cron \in live \/ \E h \in Handlers : pc[h] = "start"

(* However edits and Reloads of several handlers interleave, once they are *)
(* over exactly one instance runs and its entries are the schedules in the *)
(* store that are enabled, valid and have targets; only targets deleted    *)
(* since may linger in an entry.                                           *)
SettledMatchesStore ==
    Settled =>
        /\ live = {cron}
        /\ \A s \in Scheds :
             LET E == {i \in DOMAIN jobs[cron] : jobs[cron][i].sched = s}
             IN  /\ rows[s] = None \/ ~rows[s].enabled \/ rows[s].spec = BadSpec
                       => E = {}
                 /\ rows[s] # None /\ rows[s].enabled /\ rows[s].spec # BadSpec
                      /\ schedTgts[s] # {} => E # {}
                 /\ \A i \in E : /\ jobs[cron][i].row = rows[s]
                                 /\ jobs[cron][i].targets \cap targets = schedTgts[s]

(* Next never answers for another schedule, though entry ids repeat from   *)
(* one instance to the next and Reload may swap both while it runs.        *)
NextIsOwn ==
    \A h \in Handlers : look[h] # None =>
        /\ look[h].id \in DOMAIN jobs[look[h].cron]
        /\ jobs[look[h].cron][look[h].id].sched = look[h].sched

(* "a Reload can't resurrect a cron after Stop has shut the scheduler      *)
(* down": once Stop has returned and the Reloads it overlapped are over,   *)
(* no instance runs, and none ever will.                                   *)
StoppedStaysStopped ==
    pc[Main] = "returned" /\ (\A h \in Handlers : ~Reloading(h)) => live = {}

(* What becomes of a fire that leaves no row of its own: it is absorbed by *)
(* a run of the schedule that began after it had found none, so one that   *)
(* it found is never the reason, or it is lost to a store error or to the  *)
(* deletion of the schedule.  "Anything that prevents the run from being   *)
(* queued (a previous run of this schedule still in flight, ...) is        *)
(* recorded as a terminal skipped run" is more than that: a run that       *)
(* begins between check and Enqueue also prevents it, and no row says so.  *)
FireIsAnswered ==
    \A f \in Fires : cb[f].pc = "done" =>
        /\ cb[f].out = "merged" => cb[f].since
        /\ cb[f].out = "lost" => failures > 0 \/ edits > 0
=============================================================================
