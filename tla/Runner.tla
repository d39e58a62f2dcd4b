------------------------------- MODULE Runner -------------------------------
(***************************************************************************)
(* The run engine of speedtest-tracker: Runner.Enqueue, Cancel, execute,   *)
(* finishQueue and Shutdown (internal/runner/runner.go) over the runs and  *)
(* results tables (internal/store/runs.go, reap.go).                       *)
(*                                                                         *)
(* A critical section of r.mu is one step: no SQLite call, channel receive *)
(* or publication on which another goroutine depends happens inside one.   *)
(* enqueueMu is held across store calls, so it is modelled explicitly.     *)
(* Every store call, and every publication that follows one, is a step of  *)
(* its own, so other goroutines, a Shutdown or a crash come in between.    *)
(*                                                                         *)
(* The processes are the goroutines that call Enqueue and Cancel           *)
(* (Clients), one worker per queue (Queues) and the goroutine that runs    *)
(* Shutdown (Main), whose pc also says whether the process is up.          *)
(*                                                                         *)
(* An operator X_m is a plausible wrong form of X.  Nothing uses it: it is *)
(* what the mutation checks put in the place of X.                         *)
(***************************************************************************)
EXTENDS Integers, Sequences, FiniteSets

CONSTANTS
    Runs,         \* ids the runs table can hand out (a bound on CreateRun)
    Targets,      \* configured targets
    Queues,       \* queues, and the worker goroutine of each
    Clients,      \* goroutines that call Enqueue and Cancel
    Main,         \* the goroutine that calls Shutdown
    Schedules,    \* schedule ids
    None,         \* no run, no schedule, no lock holder, no target
    QueueOf,      \* the queue of each target
    Enabled,      \* the targets that are enabled
    Requests,     \* RunRequests clients may pass to Enqueue
    QueueCap,     \* Config.QueueCap
    MaxFailures,  \* bound on failing store writes
    MaxCrashes,   \* bound on process deaths
    Panics,       \* whether engines and sinks may panic
    Stops         \* whether Shutdown may be called

Procs    == Clients \cup Queues \cup {Main}
Triggers == {"manual", "cron", "reexec"}
Active   == {"queued", "running"}
Terminal == {"done", "failed", "canceled"}

ASSUME ProcAssumption ==
    /\ Main \notin Clients \cup Queues
    /\ Clients \cap Queues = {}
    /\ None \notin Runs \cup Schedules \cup Procs \cup Targets
ASSUME TargetAssumption ==
    /\ IsFiniteSet(Targets) /\ IsFiniteSet(Queues)
    /\ QueueOf \in [Targets -> Queues]
    /\ Enabled \subseteq Targets
ASSUME RequestAssumption ==
    Requests \subseteq [trigger  : Triggers,
                        schedule : Schedules \cup {None},
                        targets  : SUBSET Targets]
ASSUME BoundAssumption ==
    /\ QueueCap \in Nat \ {0}
    /\ MaxFailures \in Nat /\ MaxCrashes \in Nat
    /\ Panics \in BOOLEAN /\ Stops \in BOOLEAN

VARIABLES
    \* The database, which survives a crash.
    dbStatus,    \* runs.status, "none" for an id not handed out yet
    dbSchedule,  \* runs.schedule_id
    results,     \* result rows of each run and target, in insertion order
    \* Runner fields guarded by r.mu.
    tracked,     \* keys of r.runs
    st,          \* the runState of a run
    finalizing,  \* r.finalizing
    closing,     \* r.closing
    chan,        \* the job channel of each queue: run ids
    \* Other memory.
    ctxDone,     \* runs whose context has been cancelled
    enqueueMu,   \* holder of enqueueMu
    plan,        \* targets of a run, carried by its jobs
    \* Goroutines.
    pc,          \* where each process is
    arg,         \* the run it works on
    goal,        \* the status it is about to write
    req,         \* the request an Enqueue serves
    job,         \* locals of execute
    stuck,       \* Shutdown's list of runs to force-cancel
    \* What the outside has seen, and the bounds.
    event,       \* last run event published for each run
    failures, crashes

dbVars  == <<dbStatus, dbSchedule, results>>
muVars  == <<tracked, st, finalizing, closing, chan>>
calls   == <<enqueueMu, plan, req, stuck>>  \* what no worker touches
bounds  == <<failures, crashes>>
vars    == <<dbVars, muVars, calls, ctxDone, pc, arg, goal, job, event, bounds>>

-----------------------------------------------------------------------------
(* State *)

RunState == [pending : Int, done : Nat,
             failed : BOOLEAN, canceled : BOOLEAN, started : BOOLEAN]
NewState_m(n) == [pending |-> 1, done |-> 0,
                  failed |-> FALSE, canceled |-> FALSE, started |-> FALSE]
NewState(n) == [pending |-> n, done |-> 0,
                failed |-> FALSE, canceled |-> FALSE, started |-> FALSE]

Job   == [left : SUBSET Targets, cur : Targets \cup {None}, done : Nat,
          failed : BOOLEAN, canceled : BOOLEAN, panicked : BOOLEAN]
NoJob == [left |-> {}, cur |-> None, done |-> 0,
          failed |-> FALSE, canceled |-> FALSE, panicked |-> FALSE]

Event   == [status : Active \cup Terminal \cup {"none"}, done : Nat]
NoEvent == [status |-> "none", done |-> 0]

(* The queues a run has a job in, and its share of one queue. *)
QueuesOf(r)     == {QueueOf[t] : t \in plan[r]}
TargetsAt(r, q) == {t \in plan[r] : QueueOf[t] = q}

Full(q) == Len(chan[q]) >= QueueCap
Up      == pc[Main] # "down"
Drained_m == \A q \in Queues : pc[q] = "idle"
Drained == \A q \in Queues : pc[q] = "idle" /\ chan[q] = <<>>

(* The runs of schedule s that the dedupe check would find. *)
QueuedRunForSchedule_m(s) ==
    {r \in Runs : dbSchedule[r] = s /\ dbStatus[r] = "queued"}
QueuedRunForSchedule(s) ==
    {r \in Runs : dbSchedule[r] = s /\ dbStatus[r] \in Active}

(* Disabled targets run only when a person asks for them. *)
filterRunnable(targets, trigger) ==
    IF trigger = "manual" THEN targets ELSE targets \cap Enabled

-----------------------------------------------------------------------------
(* Steps shared by the processes *)

Goto(p, l) == pc' = [pc EXCEPT ![p] = l]

(* Process p returns from a call, and its locals with it.                  *)
Return(p) == /\ pc'  = [pc EXCEPT ![p] = IF p = Main THEN "force" ELSE "idle"]
             /\ arg' = [arg EXCEPT ![p] = None]
             /\ goal' = [goal EXCEPT ![p] = "canceled"]
             /\ job' = IF p \in Queues THEN [job EXCEPT ![p] = NoJob] ELSE job

(* The WHERE clause of SetRunStatus. *)
Updatable(status) == status \notin Terminal /\ status # "none"

(* One status write for run r on behalf of p, which goes on at ok when it  *)
(* returns nil and at fail otherwise.  The second attempt of setRunStatus  *)
(* never reaches the store: err still holds the first attempt's error when *)
(* the loop comes round, so `if err == nil` skips the call unless the test *)
(* hook has cleared it.  A failed first attempt is therefore the outcome.  *)
(* A terminal row is left alone (ErrInvalidTransition).                    *)
setRunStatus(p, r, status, ok, fail) ==
    \/ /\ Updatable(dbStatus[r])
       /\ dbStatus' = [dbStatus EXCEPT ![r] = status]
       /\ Goto(p, ok)
       /\ UNCHANGED failures
    \/ /\ ~Updatable(dbStatus[r])
       /\ Goto(p, fail)
       /\ UNCHANGED <<dbStatus, failures>>
    \/ /\ failures < MaxFailures
       /\ failures' = failures + 1
       /\ Goto(p, fail)
       /\ UNCHANGED dbStatus

publishRun(r, status, done) ==
    event' = [event EXCEPT ![r] = [status |-> status, done |-> done]]

(* Take run r out of r.runs and mark it in transit, in one section of r.mu. *)
claim_m(r) == tracked' = tracked \ {r} /\ UNCHANGED finalizing
claim(r) == tracked' = tracked \ {r} /\ finalizing' = finalizing \cup {r}

(* A failed write is not published, except by an Enqueue whose queue was   *)
(* full.                                                                   *)
AfterWriteFails(p) ==
    IF p \in Clients /\ goal[p] = "failed" THEN "settle" ELSE "resign"

(* p owns run arg[p]: it is out of r.runs and marked finalizing, and p     *)
(* writes the terminal status ...                                          *)
FinalWrite(p) ==
    /\ pc[p] = "write"
    /\ setRunStatus(p, arg[p], goal[p], "settle", AfterWriteFails(p))
    /\ UNCHANGED <<dbSchedule, results, muVars, calls, ctxDone, arg, goal, job,
                   event, crashes>>

(* ... publishes it, and clears the in-transit mark. *)
endFinalize(p) ==
    /\ pc[p] \in {"settle", "resign"}
    /\ IF pc[p] = "settle"
       THEN publishRun(arg[p], goal[p], st[arg[p]].done)
       ELSE UNCHANGED event
    /\ finalizing' = finalizing \ {arg[p]}
    /\ Return(p)
    /\ UNCHANGED <<dbVars, tracked, st, closing, chan, calls, ctxDone, bounds>>

-----------------------------------------------------------------------------
(* Enqueue *)

(* Filter the targets, take enqueueMu and look for a run of the schedule   *)
(* that is still queued or running.  No runnable target (ErrNoTargets) and *)
(* a run found return with nothing changed.  The guard on a free id is the *)
(* bound on CreateRun.                                                     *)
EnqueueLock(c, q) ==
    /\ Up /\ pc[c] = "idle" /\ enqueueMu = None
    /\ filterRunnable(q.targets, q.trigger) # {}
    /\ q.schedule # None => QueuedRunForSchedule(q.schedule) = {}
    /\ \E r \in Runs : dbStatus[r] = "none"
    /\ enqueueMu' = c
    /\ req' = [req EXCEPT ![c] = q]
    /\ Goto(c, "create")
    /\ UNCHANGED <<dbVars, muVars, plan, stuck, ctxDone, arg, goal, job, event,
                   bounds>>

(* CreateRun inserts the queued row ... *)
EnqueueCreate(c) ==
    /\ pc[c] = "create"
    /\ \E r \in Runs :
         /\ dbStatus[r] = "none"
         /\ dbStatus' = [dbStatus EXCEPT ![r] = "queued"]
         /\ dbSchedule' = [dbSchedule EXCEPT ![r] = req[c].schedule]
         /\ plan' = [plan EXCEPT ![r] =
                       filterRunnable(req[c].targets, req[c].trigger)]
         /\ arg' = [arg EXCEPT ![c] = r]
    /\ req' = [req EXCEPT ![c] = None]
    /\ Goto(c, "begin")
    /\ UNCHANGED <<results, muVars, enqueueMu, stuck, ctxDone, goal, job,
                   event, bounds>>

(* ... or fails, and Enqueue returns. *)
EnqueueCreateFails(c) ==
    /\ pc[c] = "create" /\ failures < MaxFailures
    /\ failures' = failures + 1
    /\ enqueueMu' = None
    /\ req' = [req EXCEPT ![c] = None]
    /\ Goto(c, "idle")
    /\ UNCHANGED <<dbVars, muVars, plan, stuck, ctxDone, arg, goal, job, event,
                   crashes>>

(* beginFinalize under enqueueMu, which is then released.                  *)
beginFinalize(c) ==
    /\ pc[c] = "begin"
    /\ finalizing' = finalizing \cup {arg[c]}
    /\ enqueueMu' = None
    /\ Goto(c, "insert")
    /\ UNCHANGED <<dbVars, tracked, st, closing, chan, plan, req, stuck,
                   ctxDone, arg, goal, job, event, bounds>>

(* The section of r.mu: a runner that is closing turns the run away ... *)
EnqueueRefused(c) ==
    /\ pc[c] = "insert" /\ closing
    /\ goal' = [goal EXCEPT ![c] = "canceled"]
    /\ Goto(c, "write")
    /\ UNCHANGED <<dbVars, muVars, calls, ctxDone, arg, job, event, bounds>>

(* ... a full queue stops the sends after some of the run's other queues   *)
(* have got their job (the order is that of the targets), and the run is   *)
(* taken back out of r.runs ...                                            *)
Send(r, S) ==
    chan' = [q \in Queues |-> IF q \in S THEN Append(chan[q], r) ELSE chan[q]]

EnqueueFull(c) ==
    LET r == arg[c]
    IN  /\ pc[c] = "insert" /\ ~closing
        /\ \E q \in QueuesOf(r) : Full(q)
        /\ \E S \in SUBSET {q \in QueuesOf(r) : ~Full(q)} : Send(r, S)
        /\ st' = [st EXCEPT ![r] = NewState(Cardinality(QueuesOf(r)))]
        /\ publishRun(r, "queued", 0)
        /\ ctxDone' = ctxDone \cup {r}
        /\ goal' = [goal EXCEPT ![c] = "failed"]
        /\ Goto(c, "write")
        /\ UNCHANGED <<dbVars, tracked, finalizing, closing, calls, arg, job,
                       bounds>>

(* ... otherwise every queue gets its job. *)
EnqueueSend(c) ==
    LET r == arg[c]
    IN  /\ pc[c] = "insert" /\ ~closing
        /\ \A q \in QueuesOf(r) : ~Full(q)
        /\ Send(r, QueuesOf(r))
        /\ st' = [st EXCEPT ![r] = NewState(Cardinality(QueuesOf(r)))]
        /\ publishRun(r, "queued", 0)
        /\ tracked' = tracked \cup {r}
        /\ finalizing' = finalizing \ {r}
        /\ Return(c)
        /\ UNCHANGED <<dbVars, closing, calls, ctxDone, bounds>>

-----------------------------------------------------------------------------
(* Cancel *)

(* A tracked run is marked canceled and its context cancelled.  If a queue *)
(* has started it, the workers do the rest ...                             *)
CancelStarted(c, r) ==
    /\ Up /\ pc[c] = "idle"
    /\ r \in tracked /\ st[r].started
    /\ st' = [st EXCEPT ![r].canceled = TRUE]
    /\ ctxDone' = ctxDone \cup {r}
    /\ UNCHANGED <<dbVars, tracked, finalizing, closing, chan, calls, pc, arg,
                   goal, job, event, bounds>>

(* ... otherwise this goroutine claims it and writes its status.           *)
CancelQueued(c, r) ==
    /\ Up /\ pc[c] = "idle"
    /\ r \in tracked /\ ~st[r].started
    /\ st' = [st EXCEPT ![r].canceled = TRUE]
    /\ ctxDone' = ctxDone \cup {r}
    /\ claim(r)
    /\ arg' = [arg EXCEPT ![c] = r]
    /\ goal' = [goal EXCEPT ![c] = "canceled"]
    /\ Goto(c, "write")
    /\ UNCHANGED <<dbVars, closing, chan, calls, job, event, bounds>>

(* An id the runner does not track may be an orphan. *)
CancelUntracked(c, r) ==
    /\ Up /\ pc[c] = "idle" /\ r \notin tracked
    /\ arg' = [arg EXCEPT ![c] = r]
    /\ Goto(c, "orphan")
    /\ UNCHANGED <<dbVars, muVars, calls, ctxDone, goal, job, event, bounds>>

(* Under enqueueMu: an id that is tracked or in transit is not an orphan.  *)
Orphan_m(r) == r \notin tracked
Orphan(r) == r \notin tracked /\ r \notin finalizing

cancelOrphan(c) ==
    /\ pc[c] = "orphan" /\ enqueueMu = None
    /\ IF Orphan(arg[c])
       THEN /\ enqueueMu' = c
            /\ Goto(c, "getRun")
            /\ UNCHANGED <<arg, goal, job>>
       ELSE Return(c) /\ UNCHANGED enqueueMu
    /\ UNCHANGED <<dbVars, muVars, plan, req, stuck, ctxDone, event, bounds>>

(* GetRun: only a row that is still queued or running is written.          *)
OrphanGetRun(c) ==
    /\ pc[c] = "getRun"
    /\ IF dbStatus[arg[c]] \in Active
       THEN Goto(c, "orphanWrite")
            /\ UNCHANGED <<enqueueMu, arg, goal, job>>
       ELSE Return(c) /\ enqueueMu' = None
    /\ UNCHANGED <<dbVars, muVars, plan, req, stuck, ctxDone, event, bounds>>

OrphanWrite(c) ==
    /\ pc[c] = "orphanWrite"
    /\ setRunStatus(c, arg[c], "canceled", "orphanEnd", "orphanFail")
    /\ UNCHANGED <<dbSchedule, results, muVars, calls, ctxDone, arg, goal, job,
                   event, crashes>>

OrphanEnd(c) ==
    /\ pc[c] \in {"orphanEnd", "orphanFail"}
    /\ IF pc[c] = "orphanEnd"
       THEN publishRun(arg[c], "canceled", 0) ELSE UNCHANGED event
    /\ enqueueMu' = None
    /\ Return(c)
    /\ UNCHANGED <<dbVars, muVars, plan, req, stuck, ctxDone, bounds>>

-----------------------------------------------------------------------------
(* The worker of queue q *)

(* for j := range ch *)
Receive(q) ==
    /\ pc[q] = "idle" /\ chan[q] # <<>>
    /\ arg' = [arg EXCEPT ![q] = Head(chan[q])]
    /\ chan' = [chan EXCEPT ![q] = Tail(@)]
    /\ Goto(q, "start")
    /\ UNCHANGED <<dbVars, tracked, st, finalizing, closing, calls, ctxDone,
                   goal, job, event, bounds>>

(* Canceled, by Cancel, Shutdown or its context, before this queue began.  *)
CanceledInQueue(r) == st[r].canceled \/ closing \/ r \in ctxDone

markStarted(r) == st' = [st EXCEPT ![r].started = TRUE]

(* execute: a job whose run has been claimed is dropped ... *)
executeGone(q) ==
    /\ pc[q] = "start" /\ arg[q] \notin tracked
    /\ Return(q)
    /\ UNCHANGED <<dbVars, muVars, calls, ctxDone, event, bounds>>

(* ... one canceled while queued goes straight to finishQueue ... *)
executeCanceled(q) ==
    /\ pc[q] = "start" /\ arg[q] \in tracked /\ CanceledInQueue(arg[q])
    /\ job' = [job EXCEPT ![q] = [NoJob EXCEPT !.canceled = TRUE]]
    /\ Goto(q, "finish")
    /\ UNCHANGED <<dbVars, muVars, calls, ctxDone, arg, goal, event, bounds>>

(* ... any other marks the run started. *)
execute(q) ==
    /\ pc[q] = "start" /\ arg[q] \in tracked /\ ~CanceledInQueue(arg[q])
    /\ markStarted(arg[q])
    /\ job' = [job EXCEPT ![q] = [NoJob EXCEPT !.left = TargetsAt(arg[q], q)]]
    /\ Goto(q, "running")
    /\ UNCHANGED <<dbVars, tracked, finalizing, closing, chan, calls, ctxDone,
                   arg, goal, event, bounds>>

(* setRunStatus(running); a failed write suppresses the publication only.  *)
SetRunning(q) ==
    /\ pc[q] = "running"
    /\ setRunStatus(q, arg[q], "running", "doneCount", "loop")
    /\ UNCHANGED <<dbSchedule, results, muVars, calls, ctxDone, arg, goal, job,
                   event, crashes>>

(* doneCount reads the stepper under r.mu, publishRun uses it afterwards.  *)
doneCount(q) ==
    /\ pc[q] = "doneCount"
    /\ job' = [job EXCEPT ![q].done =
                 IF arg[q] \in tracked THEN st[arg[q]].done ELSE 0]
    /\ Goto(q, "publish")
    /\ UNCHANGED <<dbVars, muVars, calls, ctxDone, arg, goal, event, bounds>>

(* Where execute goes on after a target: a recovered panic abandons the    *)
(* remaining targets.                                                      *)
AfterTarget(q) == IF job[q].panicked THEN "finish" ELSE "loop"

PublishRunning(q) ==
    /\ pc[q] = "publish"
    /\ publishRun(arg[q], "running", job[q].done)
    /\ job' = [job EXCEPT ![q].done = 0]
    /\ Goto(q, AfterTarget(q))
    /\ UNCHANGED <<dbVars, muVars, calls, ctxDone, arg, goal, bounds>>

(* The head of the target loop; the order of the targets is abstracted.    *)
NextTarget(q) ==
    /\ pc[q] = "loop"
    /\ IF arg[q] \in ctxDone \/ job[q].left = {}
       THEN /\ job' = [job EXCEPT ![q].canceled = arg[q] \in ctxDone]
            /\ Goto(q, "finish")
       ELSE /\ \E t \in job[q].left :
                 job' = [job EXCEPT ![q].cur = t, ![q].left = @ \ {t}]
            /\ Goto(q, "test")
    /\ UNCHANGED <<dbVars, muVars, calls, ctxDone, arg, goal, event, bounds>>

(* InsertResult for the target in flight. *)
InsertResult(q, status) ==
    results' = [results EXCEPT ![arg[q]][job[q].cur] = Append(@, status)]

(* Where a recovered panic goes on: the target in flight gets a row unless *)
(* it has one.                                                             *)
AfterPanic_m(rowWritten) == "recover"
AfterPanic(rowWritten) == IF rowWritten THEN "finish" ELSE "recover"

(* Whether a target failed its queue: a row that cannot be written does,   *)
(* whatever the engine said.                                               *)
TargetFailed_m(status, stored) == status = "failed"
TargetFailed(status, stored) == status = "failed" \/ ~stored

(* runTarget and storeResult: the engine's outcome (an unknown engine, an  *)
(* error or a timeout is "failed") and the row for it.                     *)
runTarget(q) ==
    /\ pc[q] = "test"
    /\ \E status \in {"ok", "failed"}, stored \in BOOLEAN :
         /\ IF stored
            THEN InsertResult(q, status) /\ UNCHANGED failures
            ELSE /\ failures < MaxFailures
                 /\ failures' = failures + 1
                 /\ UNCHANGED results
         /\ job' = [job EXCEPT ![q].failed = @ \/ TargetFailed(status, stored)]
    /\ Goto(q, "mark")
    /\ UNCHANGED <<dbStatus, dbSchedule, muVars, calls, ctxDone, arg, goal,
                   event, crashes>>

(* A panic of the engine leaves no row; one of a sink comes after the row. *)
runTargetPanics(q) ==
    /\ pc[q] = "test" /\ Panics
    /\ job' = [job EXCEPT ![q].failed = TRUE, ![q].panicked = TRUE,
                          ![q].left = {}]
    /\ \E rowWritten \in BOOLEAN, status \in {"ok", "failed"} :
         /\ IF rowWritten THEN InsertResult(q, status) ELSE UNCHANGED results
         /\ Goto(q, AfterPanic(rowWritten))
    /\ UNCHANGED <<dbStatus, dbSchedule, muVars, calls, ctxDone, arg, goal,
                   event, bounds>>

(* The deferred recover writes a failed row for the target in flight. *)
Recover(q) ==
    /\ pc[q] = "recover"
    /\ \/ InsertResult(q, "failed") /\ UNCHANGED failures
       \/ /\ failures < MaxFailures
          /\ failures' = failures + 1
          /\ UNCHANGED results
    /\ Goto(q, "mark")
    /\ UNCHANGED <<dbStatus, dbSchedule, muVars, calls, ctxDone, arg, goal,
                   job, event, crashes>>

(* The stepper value a finished target moves run r to. *)
Stepped_m(r, q) == job[q].done + 1
Stepped(r, q) == st[r].done + 1

markTargetDone(q) ==
    LET r == arg[q]
    IN  /\ pc[q] = "mark"
        /\ IF r \in tracked
           THEN /\ st' = [st EXCEPT ![r].done = Stepped(r, q)]
                /\ job' = [job EXCEPT ![q].done = Stepped(r, q), ![q].cur = None]
                /\ Goto(q, "publish")
           ELSE /\ job' = [job EXCEPT ![q].cur = None]
                /\ Goto(q, AfterTarget(q))
                /\ UNCHANGED st
        /\ UNCHANGED <<dbVars, tracked, finalizing, closing, chan, calls,
                       ctxDone, arg, goal, event, bounds>>

(* The terminal status of a run: canceled wins over failed. *)
FinalStatus_m1(failed, canceled) ==
    IF failed THEN "failed" ELSE IF canceled THEN "canceled" ELSE "done"
FinalStatus(failed, canceled) ==
    IF canceled THEN "canceled" ELSE IF failed THEN "failed" ELSE "done"

(* The job finished by this call is the run's last. *)
LastJob_m(r) == st[r].pending - 1 < 0
LastJob(r) == st[r].pending - 1 <= 0

(* What finishQueue records of a job. *)
Outcome(r, q) ==
    [st[r] EXCEPT !.failed = @ \/ job[q].failed,
                  !.canceled = @ \/ job[q].canceled,
                  !.pending = @ - 1]

(* finishQueue: nothing for a run somebody else has claimed ... *)
finishGone(q) ==
    /\ pc[q] = "finish" /\ arg[q] \notin tracked
    /\ Return(q)
    /\ UNCHANGED <<dbVars, muVars, calls, ctxDone, event, bounds>>

(* ... one job less ... *)
finishQueue(q) ==
    /\ pc[q] = "finish" /\ arg[q] \in tracked /\ ~LastJob(arg[q])
    /\ st' = [st EXCEPT ![arg[q]] = Outcome(arg[q], q)]
    /\ Return(q)
    /\ UNCHANGED <<dbVars, tracked, finalizing, closing, chan, calls, ctxDone,
                   event, bounds>>

(* ... and the last one claims the run and picks the terminal status.      *)
finishRun(q) ==
    LET r == arg[q]
    IN  /\ pc[q] = "finish" /\ r \in tracked /\ LastJob(r)
        /\ st' = [st EXCEPT ![r] = Outcome(r, q)]
        /\ claim(r)
        /\ ctxDone' = ctxDone \cup {r}
        /\ goal' = [goal EXCEPT ![q] = FinalStatus(Outcome(r, q).failed,
                                                  Outcome(r, q).canceled)]
        /\ Goto(q, "write")
        /\ UNCHANGED <<dbVars, closing, chan, calls, arg, job, event, bounds>>

-----------------------------------------------------------------------------
(* Shutdown *)

(* No new work, and the channels are closed: the workers drain them. *)
ShutdownBegin ==
    /\ pc[Main] = "idle" /\ Stops
    /\ closing' = TRUE
    /\ Goto(Main, "drain")
    /\ UNCHANGED <<dbVars, tracked, st, finalizing, chan, calls, ctxDone, arg,
                   goal, job, event, bounds>>

ShutdownDrained ==
    /\ pc[Main] = "drain" /\ Drained
    /\ Goto(Main, "stopped")
    /\ UNCHANGED <<dbVars, muVars, calls, ctxDone, arg, goal, job, event,
                   bounds>>

(* The grace period or the caller's context ends first: every tracked run  *)
(* is canceled; only after the grace period are the workers waited for     *)
(* again.                                                                  *)
ShutdownGrace ==
    /\ pc[Main] = "drain"
    /\ stuck' = tracked
    /\ st' = [r \in Runs |-> IF r \in tracked
                             THEN [st[r] EXCEPT !.canceled = TRUE] ELSE st[r]]
    /\ ctxDone' = ctxDone \cup tracked
    /\ \E l \in {"await", "force"} : Goto(Main, l)
    /\ UNCHANGED <<dbVars, tracked, finalizing, closing, chan, enqueueMu, plan,
                   req, arg, goal, job, event, bounds>>

(* Drained, or the context ends. *)
ShutdownAwait_m ==
    /\ pc[Main] = "await" /\ Drained
    /\ Goto(Main, "force")
    /\ UNCHANGED <<dbVars, muVars, calls, ctxDone, arg, goal, job, event,
                   bounds>>
ShutdownAwait ==
    /\ pc[Main] = "await"
    /\ Goto(Main, "force")
    /\ UNCHANGED <<dbVars, muVars, calls, ctxDone, arg, goal, job, event,
                   bounds>>

(* Each stuck run in turn: claimed, unless a finisher was first ... *)
claimForForceCancel(r) ==
    /\ pc[Main] = "force" /\ r \in stuck /\ r \in tracked
    /\ stuck' = stuck \ {r}
    /\ claim(r)
    /\ arg' = [arg EXCEPT ![Main] = r]
    /\ goal' = [goal EXCEPT ![Main] = "canceled"]
    /\ Goto(Main, "write")
    /\ UNCHANGED <<dbVars, st, closing, chan, enqueueMu, plan, req, ctxDone,
                   job, event, bounds>>

forceCancelGone(r) ==
    /\ pc[Main] = "force" /\ r \in stuck /\ r \notin tracked
    /\ stuck' = stuck \ {r}
    /\ UNCHANGED <<dbVars, muVars, enqueueMu, plan, req, ctxDone, pc, arg,
                   goal, job, event, bounds>>

(* ... and Shutdown returns. *)
ShutdownReturn ==
    /\ pc[Main] = "force" /\ stuck = {}
    /\ Goto(Main, "stopped")
    /\ UNCHANGED <<dbVars, muVars, calls, ctxDone, arg, goal, job, event,
                   bounds>>

-----------------------------------------------------------------------------
(* The process dies, or exits after Shutdown: all memory is lost.          *)
Crash ==
    /\ Up /\ crashes < MaxCrashes
    /\ crashes' = crashes + 1
    /\ tracked' = {} /\ finalizing' = {} /\ closing' = FALSE
    /\ st' = [r \in Runs |-> NewState(0)]
    /\ chan' = [q \in Queues |-> <<>>]
    /\ ctxDone' = {} /\ enqueueMu' = None
    /\ pc' = [p \in Procs |-> IF p = Main THEN "down" ELSE "idle"]
    /\ arg' = [p \in Procs |-> None]
    /\ goal' = [p \in Procs |-> "canceled"]
    /\ req' = [c \in Clients |-> None]
    /\ job' = [q \in Queues |-> NoJob]
    /\ stuck' = {}
    /\ event' = [r \in Runs |-> NoEvent]
    /\ UNCHANGED <<dbVars, plan, failures>>

(* ReapOrphanedRuns fails every queued or running row before the runner    *)
(* starts.                                                                 *)
Reaped_m1(status) == IF status = "running" THEN "failed" ELSE status
Reaped_m2(status) ==
    IF status \in Active THEN "interrupted" ELSE status
Reaped(status) == IF status \in Active THEN "failed" ELSE status

ReapOrphanedRuns ==
    /\ pc[Main] = "down"
    /\ dbStatus' = [r \in Runs |-> Reaped(dbStatus[r])]
    /\ Goto(Main, "idle")
    /\ UNCHANGED <<dbSchedule, results, muVars, calls, ctxDone, arg, goal, job,
                   event, bounds>>

Init ==
    /\ dbStatus = [r \in Runs |-> "none"]
    /\ dbSchedule = [r \in Runs |-> None]
    /\ results = [r \in Runs |-> [t \in Targets |-> <<>>]]
    /\ tracked = {} /\ finalizing = {} /\ closing = FALSE
    /\ st = [r \in Runs |-> NewState(0)]
    /\ chan = [q \in Queues |-> <<>>]
    /\ ctxDone = {} /\ enqueueMu = None
    /\ plan = [r \in Runs |-> {}]
    /\ pc = [p \in Procs |-> "idle"]
    /\ arg = [p \in Procs |-> None]
    /\ goal = [p \in Procs |-> "canceled"]
    /\ req = [c \in Clients |-> None]
    /\ job = [q \in Queues |-> NoJob]
    /\ stuck = {}
    /\ event = [r \in Runs |-> NoEvent]
    /\ failures = 0 /\ crashes = 0

ClientStep(c) ==
    \/ EnqueueCreate(c) \/ EnqueueCreateFails(c) \/ beginFinalize(c)
    \/ EnqueueRefused(c) \/ EnqueueFull(c) \/ EnqueueSend(c)
    \/ cancelOrphan(c) \/ OrphanGetRun(c) \/ OrphanWrite(c) \/ OrphanEnd(c)

(* What execute does besides waiting for an engine. *)
WorkerStep(q) ==
    \/ Receive(q) \/ executeGone(q) \/ executeCanceled(q) \/ execute(q)
    \/ SetRunning(q) \/ doneCount(q) \/ PublishRunning(q) \/ NextTarget(q)
    \/ Recover(q) \/ markTargetDone(q)
    \/ finishGone(q) \/ finishQueue(q) \/ finishRun(q)

EngineStep(q) == runTarget(q) \/ runTargetPanics(q)

MainStep ==
    \/ ShutdownDrained \/ ShutdownGrace \/ ShutdownAwait \/ ShutdownReturn
    \/ \E r \in Runs : claimForForceCancel(r) \/ forceCancelGone(r)

(* A call to Enqueue or Cancel begins. *)
CallStep(c) ==
    \/ \E q \in Requests : EnqueueLock(c, q)
    \/ \E r \in Runs : \/ CancelStarted(c, r) \/ CancelQueued(c, r)
                       \/ CancelUntracked(c, r)

Next ==
    \/ \E c \in Clients : CallStep(c) \/ ClientStep(c)
    \/ \E q \in Queues : WorkerStep(q) \/ EngineStep(q)
    \/ \E p \in Procs : FinalWrite(p) \/ endFinalize(p)
    \/ ShutdownBegin \/ MainStep
    \/ Crash \/ ReapOrphanedRuns

Spec == Init /\ [][Next]_vars

(* A goroutine that can go on eventually does.  A Go mutex is handed to a  *)
(* waiter that has waited long enough, hence the strong fairness of        *)
(* cancelOrphan's Lock.  Nobody has to call Enqueue, Cancel or Shutdown,   *)
(* and nothing is assumed of the engines.                                  *)
GoroutineFairness ==
    /\ \A c \in Clients : WF_vars(ClientStep(c)) /\ SF_vars(cancelOrphan(c))
    /\ \A q \in Queues : WF_vars(WorkerStep(q))
    /\ \A p \in Procs : WF_vars(FinalWrite(p) \/ endFinalize(p))
    /\ WF_vars(MainStep) /\ WF_vars(ReapOrphanedRuns)

(* Config.TestTimeout ends a test whose engine heeds its context. *)
EngineFairness == \A q \in Queues : WF_vars(EngineStep(q))

FairSpec == Spec /\ GoroutineFairness

-----------------------------------------------------------------------------
(* Properties *)

ClientLabels == {"idle", "create", "begin", "insert", "orphan", "getRun",
                 "orphanWrite", "orphanEnd", "orphanFail",
                 "write", "settle", "resign"}
WorkerLabels == {"idle", "start", "running", "doneCount", "publish", "loop",
                 "test", "recover", "mark", "finish",
                 "write", "settle", "resign"}
MainLabels   == {"idle", "drain", "await", "force", "stopped", "down",
                 "write", "settle", "resign"}
(* The labels at which a process has no run in its hands. *)
Vacant       == {"idle", "create", "drain", "await", "force", "stopped", "down"}

LabelsOf(p) == IF p \in Clients THEN ClientLabels
               ELSE IF p \in Queues THEN WorkerLabels ELSE MainLabels

PcOK ==
    /\ pc \in [Procs -> ClientLabels \cup WorkerLabels \cup MainLabels]
    /\ arg \in [Procs -> Runs \cup {None}]
    /\ \A p \in Procs : /\ pc[p] \in LabelsOf(p)
                        /\ pc[p] \in Vacant <=> arg[p] = None

(* Every variable has the shape of the field or local it stands for, each  *)
(* goroutine is somewhere in its own code, and has a run and a request in  *)
(* its hands where that code uses one.                                     *)
TypeOK ==
    /\ dbStatus \in [Runs -> Active \cup Terminal \cup {"none"}]
    /\ dbSchedule \in [Runs -> Schedules \cup {None}]
    /\ results \in [Runs -> [Targets -> Seq({"ok", "failed"})]]
    /\ tracked \in SUBSET Runs /\ finalizing \in SUBSET Runs
    /\ st \in [Runs -> RunState]
    /\ closing \in BOOLEAN
    /\ chan \in [Queues -> Seq(Runs)]
    /\ ctxDone \in SUBSET Runs
    /\ enqueueMu \in Clients \cup {None}
    /\ plan \in [Runs -> SUBSET Targets]
    /\ PcOK
    /\ goal \in [Procs -> Terminal]
    /\ req \in [Clients -> Requests \cup {None}]
    /\ \A c \in Clients : pc[c] = "create" => req[c] \in Requests
    /\ job \in [Queues -> Job]
    /\ stuck \in SUBSET Runs
    /\ event \in [Runs -> Event]
    /\ failures \in Nat /\ crashes \in Nat

(* p has claimed run r: it alone may write r's terminal status.            *)
Owns(p, r) == arg[p] = r /\ pc[p] \in {"insert", "write", "settle", "resign"}

(* c is inside cancelOrphan's critical section for run r.                  *)
Orphaning(c, r) ==
    arg[c] = r /\ pc[c] \in {"getRun", "orphanWrite", "orphanEnd", "orphanFail"}

(* The claim discipline of Cancel, finishQueue, claimForForceCancel and    *)
(* Enqueue: at most one goroutine at a time owns a run's terminal status;  *)
(* a run it owns is out of r.runs, and is marked finalizing for exactly    *)
(* as long as it is owned, so that nobody else can claim it.               *)
OneOwner ==
    \A r \in Runs :
        /\ \A p1, p2 \in Procs : Owns(p1, r) /\ Owns(p2, r) => p1 = p2
        /\ r \in finalizing <=> \E p \in Procs : Owns(p, r)
        /\ r \in tracked => r \notin finalizing

(* cancelOrphan never mistakes a live run for the leftover of a dead       *)
(* process: the run it is about to cancel is neither tracked nor owned nor *)
(* between its row's creation and its registration.                        *)
OrphanIsDead ==
    \A c \in Clients, r \in Runs :
        Orphaning(c, r) =>
            /\ r \notin tracked /\ r \notin finalizing
            /\ \A d \in Clients : pc[d] = "begin" => arg[d] # r

(* What makes OneOwner and OrphanIsDead inductive: enqueueMu is held by the *)
(* client whose pc says so, a run being enqueued is not registered yet, and *)
(* an id the runs table has not handed out is known to nobody.              *)
Locked == {"create", "begin", "getRun", "orphanWrite", "orphanEnd", "orphanFail"}

ClaimInv ==
    /\ OneOwner
    /\ OrphanIsDead
    /\ \A c \in Clients : pc[c] \in Locked => enqueueMu = c
    /\ \A c \in Clients : pc[c] = "begin" =>
         /\ arg[c] \notin tracked \cup finalizing
         /\ dbStatus[arg[c]] # "none"
    /\ \A r \in tracked \cup finalizing : dbStatus[r] # "none"

(* Queue q still has run r's job, in its channel or in its worker's hands. *)
Holds(q, r) ==
    \/ \E i \in DOMAIN chan[q] : chan[q][i] = r
    \/ arg[q] = r /\ pc[q] \notin {"write", "settle", "resign"}

(* The pending count of a tracked run is the number of its queues whose    *)
(* job is not finished, so the run is finalized by its last queue and by   *)
(* no earlier one.                                                         *)
PendingMatchesJobs ==
    \A r \in tracked :
        st[r].pending = Cardinality({q \in Queues : Holds(q, r)})

(* While the process is up and no store write has failed, a queued or      *)
(* running row always has someone who will resolve it: an Enqueue about to *)
(* register it, r.runs, or the goroutine that owns it.                     *)
NothingStranded ==
    Up /\ failures = 0 =>
        \A r \in Runs : dbStatus[r] \in Active =>
            \/ r \in tracked
            \/ \E p \in Procs :
                 arg[p] = r /\ pc[p] \in {"begin", "insert", "write"}

(* A run ends "done" only when every one of its targets, in every queue,   *)
(* has exactly one result row and that row is "ok".                        *)
DoneMeansComplete ==
    \A r \in Runs : dbStatus[r] = "done" =>
        \A t \in plan[r] : results[r][t] = <<"ok">>

(* runTarget "writes exactly one result row": with engines failing, panics *)
(* in engines and in sinks and failing inserts, no target of a run ever    *)
(* gets two rows.                                                          *)
AtMostOneRow ==
    \A r \in Runs, t \in Targets : Len(results[r][t]) <= 1

(* A target has at most one row, and "done" means one good row for each.   *)
OneGoodRow == AtMostOneRow /\ DoneMeansComplete

(* A run no queue has started has never been written "running" and has no  *)
(* result: what Cancel and Shutdown claim before the start stays unstarted *)
(* although its jobs are still in the channels.                            *)
NotStartedUntouched ==
    Up => \A r \in Runs :
        (dbStatus[r] \in Active \/ r \in tracked \cup finalizing)
          /\ ~st[r].started =>
            /\ dbStatus[r] # "running"
            /\ \A t \in Targets : results[r][t] = <<>>

(* Once Cancel or Shutdown has marked a run canceled it never ends "done"  *)
(* or "failed".                                                            *)
CanceledStays ==
    \A r \in Runs : st[r].canceled /\ dbStatus[r] \in Terminal =>
        dbStatus[r] = "canceled"

(* A run ends as what happened to it says: "done" is complete over all its *)
(* queues, and neither the jobs that are still queued nor the finalization *)
(* of a worker can undo a cancellation.                                    *)
OutcomeHolds == DoneMeansComplete /\ NotStartedUntouched /\ CanceledStays

(* Concurrent Enqueue calls for one schedule never leave two runs of it    *)
(* queued or running.                                                      *)
OneActivePerSchedule ==
    \A s \in Schedules :
        Cardinality({r \in Runs : dbSchedule[r] = s /\ dbStatus[r] \in Active}) <= 1

(* When nobody works on a run any more, the last event a client saw of it  *)
(* is the status in the database (unless a write failed, or Shutdown has   *)
(* given up on a worker that may still publish).                           *)
EventMatchesRow ==
    failures = 0 /\ ~closing =>
        \A r \in Runs :
            event[r].status # "none" /\ r \notin tracked
              /\ (\A p \in Procs : arg[p] # r) =>
                event[r].status = dbStatus[r]

(* A "done" event shows the stepper complete. *)
DoneEventComplete ==
    \A r \in Runs : event[r].status = "done" =>
        event[r].done = Cardinality(plan[r])

(* What a client of the event stream ends up with is what the tables say,  *)
(* although events are published after r.mu is released.                   *)
EventsAgree == EventMatchesRow /\ DoneEventComplete

(* When Shutdown has returned no run is tracked any more, and a row that   *)
(* is still queued or running is held by a goroutine about to resolve it   *)
(* (an Enqueue, a Cancel, or a worker Shutdown gave up waiting for).       *)
ShutdownLeavesNothing ==
    pc[Main] = "stopped" =>
        /\ tracked = {}
        /\ failures = 0 =>
             \A r \in Runs : dbStatus[r] \in Active =>
                 \E p \in Procs :
                    arg[p] = r /\ pc[p] \in {"begin", "insert", "write"}

(* With and without Shutdown, nothing is left for nobody to resolve. *)
ShutdownSafe == NothingStranded /\ ShutdownLeavesNothing

EventRank(s) == CASE s = "none" -> 0 [] s = "queued" -> 1
                  [] s = "running" -> 2 [] OTHER -> 3

(* Clients see "queued" before "running" and a terminal status last and    *)
(* once: Enqueue publishes under r.mu before any send, and only the owner  *)
(* of a run publishes its end.                                             *)
EventsInOrder ==
    [][failures' = 0 /\ ~closing' /\ pc'[Main] # "down" =>
         \A r \in Runs :
            event'[r] # event[r] =>
               /\ EventRank(event'[r].status) >= EventRank(event[r].status)
               /\ event[r].status \notin Terminal]_vars

(* What the runs and results tables promise their readers. *)
Lifecycle == INSTANCE RunLifecycle WITH
                 status <- dbStatus, wanted <- plan, rows <- results

(* The runner implements that promise: rows only move forward, a terminal  *)
(* status is final, "done" is written only over a complete set of results. *)
RefinesLifecycle == Lifecycle!Spec

(* setRunStatus is meant to retry "so a transient write error ... does not *)
(* strand the run": one failing store write leaves no row queued or        *)
(* running that nobody will resolve.                                       *)
RetryPreventsStranding ==
    Up /\ failures <= 1 =>
        \A r \in Runs : dbStatus[r] \in Active =>
            \/ r \in tracked
            \/ \E p \in Procs :
                 arg[p] = r /\ pc[p] \in {"begin", "insert", "write"}

(* Every run that is enqueued ends, provided engines heed their timeout    *)
(* and the store accepts writes, whatever Cancel, panics and Shutdown do.  *)
EveryRunEnds ==
    EngineFairness =>
        \A r \in Runs : dbStatus[r] \in Active ~> dbStatus[r] \in Terminal

(* Shutdown returns even when engines never do. *)
ShutdownReturns == pc[Main] = "drain" ~> pc[Main] \in {"stopped", "down"}
=============================================================================
