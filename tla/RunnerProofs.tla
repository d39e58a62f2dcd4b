---------------------------- MODULE RunnerProofs ----------------------------
(* Proofs about Runner, for every number of runs, targets, queues and      *)
(* clients, every queue capacity and every bound on failures and crashes:  *)
(* its types, who owns the end of a run, and its bookkeeping, which is     *)
(* which rows somebody will resolve, which queues hold a run's job, what   *)
(* Shutdown leaves behind and how many runs a schedule has.                *)
EXTENDS Runner, FiniteSetTheorems, TLAPS

USE DEF Procs, Active, Terminal

(***************************************************************************)
(* Types of the records the model is built from.                           *)
(***************************************************************************)

(* A new runState, and the updates its fields go through.                  *)
LEMMA RunStateType ==
  /\ \A n \in Int : NewState(n) \in RunState
  /\ \A s \in RunState, b \in BOOLEAN :
       /\ [s EXCEPT !.canceled = b] \in RunState
       /\ [s EXCEPT !.started = b] \in RunState
  /\ \A s \in RunState, n \in Nat : [s EXCEPT !.done = n] \in RunState
<1>1. \A n \in Int : NewState(n) \in RunState
  BY DEF NewState, RunState
<1>2. \A s \in RunState, b \in BOOLEAN : [s EXCEPT !.canceled = b] \in RunState
  BY DEF RunState
<1>3. \A s \in RunState, b \in BOOLEAN : [s EXCEPT !.started = b] \in RunState
  BY DEF RunState
<1>4. \A s \in RunState, n \in Nat : [s EXCEPT !.done = n] \in RunState
  BY DEF RunState
<1> QED BY <1>1, <1>2, <1>3, <1>4

(* The runState table stays typed when a run is canceled or started.       *)
LEMMA RunStateUpdate ==
  ASSUME st \in [Runs -> RunState], NEW r
  PROVE  /\ [st EXCEPT ![r].canceled = TRUE] \in [Runs -> RunState]
         /\ [st EXCEPT ![r].started = TRUE] \in [Runs -> RunState]
<1>1. [st EXCEPT ![r].canceled = TRUE] \in [Runs -> RunState]
  BY RunStateType
<1>2. [st EXCEPT ![r].started = TRUE] \in [Runs -> RunState]
  BY RunStateType
<1> QED BY <1>1, <1>2

(* What publishRun builds is an event. *)
LEMMA EventType ==
  \A s \in Active \cup Terminal, n \in Nat :
     [status |-> s, done |-> n] \in Event
  BY DEF Event

(* The event table stays typed when a run's status is published.           *)
LEMMA PublishType ==
  ASSUME event \in [Runs -> Event], NEW r \in Runs,
         NEW s \in Active \cup Terminal, NEW n \in Nat
  PROVE  [event EXCEPT ![r] = [status |-> s, done |-> n]] \in [Runs -> Event]
  BY EventType

(* A status write leaves a status in the table. *)
LEMMA StatusType ==
  ASSUME dbStatus \in [Runs -> Active \cup Terminal \cup {"none"}],
         failures \in Nat, NEW p, NEW r, NEW s \in Active \cup Terminal,
         NEW ok, NEW fail, setRunStatus(p, r, s, ok, fail)
  PROVE  /\ dbStatus' \in [Runs -> Active \cup Terminal \cup {"none"}]
         /\ failures' \in Nat
  BY DEF setRunStatus

(* The empty locals of execute. *)
LEMMA NoJobType == NoJob \in Job
  BY DEF NoJob, Job

(***************************************************************************)
(* Control: where processes are and which run they hold.                   *)
(***************************************************************************)

(* A process that moves on with the same run, or with none. *)
LEMMA PcGoto ==
  ASSUME PcOK, NEW p \in Procs, NEW l \in LabelsOf(p), Goto(p, l), arg' = arg,
         l \in Vacant <=> pc[p] \in Vacant
  PROVE  PcOK'
  BY DEF PcOK, Goto, LabelsOf

(* A process that takes a run into its hands. *)
LEMMA PcTake ==
  ASSUME PcOK, NEW p \in Procs, NEW l \in LabelsOf(p), Goto(p, l),
         NEW r \in Runs, arg' = [arg EXCEPT ![p] = r], l \notin Vacant
  PROVE  PcOK'
  BY ProcAssumption DEF PcOK, Goto, LabelsOf

(* A process that returns. *)
LEMMA PcReturn ==
  ASSUME PcOK, goal \in [Procs -> Terminal], job \in [Queues -> Job],
         NEW p \in Procs, Return(p)
  PROVE  PcOK' /\ goal' \in [Procs -> Terminal] /\ job' \in [Queues -> Job]
<1> DEFINE l == IF p = Main THEN "force" ELSE "idle"
<1>1. l \in LabelsOf(p) /\ l \in Vacant
  BY ProcAssumption
  DEF LabelsOf, ClientLabels, WorkerLabels, MainLabels, Vacant
<1>2. pc' = [pc EXCEPT ![p] = l] /\ arg' = [arg EXCEPT ![p] = None]
  BY DEF Return
<1> HIDE DEF l
<1>3. PcOK'
  BY <1>1, <1>2 DEF PcOK, LabelsOf
<1> QED BY <1>3, NoJobType DEF Return

(* The initial state is well typed. *)
LEMMA InitTypeOK == Init => TypeOK
<1> SUFFICES ASSUME Init PROVE TypeOK
  OBVIOUS
<1> USE DEF Init
<1>1. results \in [Runs -> [Targets -> Seq({"ok", "failed"})]]
  OBVIOUS
<1>2. chan \in [Queues -> Seq(Runs)]
  OBVIOUS
<1>3. st \in [Runs -> RunState] /\ job \in [Queues -> Job]
  BY RunStateType, NoJobType
<1>4. event \in [Runs -> Event]
  BY DEF NoEvent, Event
<1>5. PcOK
  BY DEF PcOK, LabelsOf, ClientLabels, WorkerLabels, MainLabels, Vacant
<1> QED
  BY <1>1, <1>2, <1>3, <1>4, <1>5 DEF TypeOK

(* Each client step preserves the types. *)
LEMMA TypeClient ==
  ASSUME TypeOK, NEW c \in Clients, CallStep(c) \/ ClientStep(c)
  PROVE  TypeOK'
<1> USE DEF TypeOK, dbVars, muVars, calls, bounds
<1>0. LabelsOf(c) = ClientLabels
  BY DEF LabelsOf
<1>1. ASSUME NEW q \in Requests, EnqueueLock(c, q) PROVE TypeOK'
  <2>1. PcOK'
    BY <1>0, <1>1, PcGoto DEF EnqueueLock, ClientLabels, Vacant
  <2> QED BY <1>1, <2>1 DEF EnqueueLock, Goto
<1>2. ASSUME NEW r \in Runs, CancelStarted(c, r) PROVE TypeOK'
  <2>1. st' \in [Runs -> RunState]
    BY <1>2, RunStateUpdate DEF CancelStarted
  <2> QED BY <1>2, <2>1 DEF CancelStarted, PcOK
<1>3. ASSUME NEW r \in Runs, CancelQueued(c, r) PROVE TypeOK'
  <2>1. st' \in [Runs -> RunState]
    BY <1>3, RunStateUpdate DEF CancelQueued
  <2>2. PcOK'
    BY <1>0, <1>3, PcTake DEF CancelQueued, ClientLabels, Vacant
  <2> QED BY <1>3, <2>1, <2>2 DEF CancelQueued, claim, Goto
<1>4. ASSUME NEW r \in Runs, CancelUntracked(c, r) PROVE TypeOK'
  <2>1. PcOK'
    BY <1>0, <1>4, PcTake DEF CancelUntracked, ClientLabels, Vacant
  <2> QED BY <1>4, <2>1 DEF CancelUntracked, Goto
<1>5. CASE EnqueueCreate(c)
  <2>1. /\ filterRunnable(req[c].targets, req[c].trigger) \in SUBSET Targets
        /\ req[c].schedule \in Schedules \cup {None}
    BY <1>5, RequestAssumption DEF EnqueueCreate, filterRunnable
  <2>2. /\ dbStatus' \in [Runs -> Active \cup Terminal \cup {"none"}]
        /\ dbSchedule' \in [Runs -> Schedules \cup {None}]
        /\ plan' \in [Runs -> SUBSET Targets]
    BY <1>5, <2>1 DEF EnqueueCreate
  <2>3. PcOK'
    BY <1>0, <1>5, PcTake DEF EnqueueCreate, ClientLabels, Vacant
  <2> QED BY <1>5, <2>2, <2>3 DEF EnqueueCreate, Goto, PcOK
<1>6. CASE EnqueueCreateFails(c)
  <2>1. PcOK'
    BY <1>0, <1>6, PcGoto DEF EnqueueCreateFails, ClientLabels, Vacant
  <2> QED BY <1>6, <2>1 DEF EnqueueCreateFails, Goto, PcOK
<1>7. CASE beginFinalize(c)
  <2>1. PcOK'
    BY <1>0, <1>7, PcGoto DEF beginFinalize, ClientLabels, Vacant
  <2>2. arg[c] \in Runs
    BY <1>7 DEF beginFinalize, PcOK, Vacant
  <2> QED BY <1>7, <2>1, <2>2 DEF beginFinalize, PcOK, Goto
<1>8. CASE EnqueueRefused(c)
  <2>1. PcOK'
    BY <1>0, <1>8, PcGoto DEF EnqueueRefused, ClientLabels, Vacant
  <2> QED BY <1>8, <2>1 DEF EnqueueRefused, Goto
<1>9. ASSUME arg[c] \in Runs
      PROVE  /\ NewState(Cardinality(QueuesOf(arg[c]))) \in RunState
             /\ \A S : Send(arg[c], S) => chan' \in [Queues -> Seq(Runs)]
             /\ [status |-> "queued", done |-> 0] \in Event
  <2>1. QueuesOf(arg[c]) \subseteq Queues
    BY <1>9, TargetAssumption DEF QueuesOf
  <2>2. Cardinality(QueuesOf(arg[c])) \in Int
    BY <2>1, TargetAssumption, FS_Subset, FS_CardinalityType
  <2>3. \A S : Send(arg[c], S) => chan' \in [Queues -> Seq(Runs)]
    BY <1>9 DEF Send
  <2> QED BY <2>2, <2>3, RunStateType, EventType
<1>10. CASE EnqueueFull(c)
  <2>1. arg[c] \in Runs
    BY <1>10 DEF EnqueueFull, PcOK, Vacant
  <2>2. PcOK'
    BY <1>0, <1>10, PcGoto DEF EnqueueFull, ClientLabels, Vacant
  <2> QED BY <1>9, <1>10, <2>1, <2>2 DEF EnqueueFull, publishRun, Goto
<1>11. CASE EnqueueSend(c)
  <2>1. arg[c] \in Runs
    BY <1>11 DEF EnqueueSend, PcOK, Vacant
  <2>2. PcOK' /\ goal' \in [Procs -> Terminal] /\ job' \in [Queues -> Job]
    BY <1>11, PcReturn DEF EnqueueSend
  <2> QED BY <1>9, <1>11, <2>1, <2>2 DEF EnqueueSend, publishRun, Return
<1>12. CASE cancelOrphan(c)
  <2>1. CASE Orphan(arg[c])
    <3>1. PcOK'
      BY <1>0, <1>12, <2>1, PcGoto DEF cancelOrphan, ClientLabels, Vacant
    <3> QED BY <1>12, <2>1, <3>1 DEF cancelOrphan, Goto, PcOK
  <2>2. CASE ~Orphan(arg[c])
    <3>1. PcOK' /\ goal' \in [Procs -> Terminal] /\ job' \in [Queues -> Job]
      BY <1>12, <2>2, PcReturn DEF cancelOrphan
    <3> QED BY <1>12, <2>2, <3>1 DEF cancelOrphan, Return, PcOK
  <2> QED BY <2>1, <2>2
<1>13. CASE OrphanGetRun(c)
  <2>1. CASE dbStatus[arg[c]] \in Active
    <3>1. PcOK'
      BY <1>0, <1>13, <2>1, PcGoto DEF OrphanGetRun, ClientLabels, Vacant
    <3> QED BY <1>13, <2>1, <3>1 DEF OrphanGetRun, Goto, PcOK
  <2>2. CASE ~(dbStatus[arg[c]] \in Active)
    <3>1. PcOK' /\ goal' \in [Procs -> Terminal] /\ job' \in [Queues -> Job]
      BY <1>13, <2>2, PcReturn DEF OrphanGetRun
    <3> QED BY <1>13, <2>2, <3>1 DEF OrphanGetRun, Return, PcOK
  <2> QED BY <2>1, <2>2
<1>14. CASE OrphanWrite(c)
  <2>1. PcOK'
    BY <1>0, <1>14, PcGoto DEF OrphanWrite, setRunStatus, ClientLabels, Vacant
  <2>2. /\ dbStatus' \in [Runs -> Active \cup Terminal \cup {"none"}]
        /\ failures' \in Nat
    BY <1>14, StatusType DEF OrphanWrite
  <2>3. pc'[c] # "create" /\ \A d \in Clients \ {c} : pc'[d] = pc[d]
    BY <1>14 DEF OrphanWrite, setRunStatus, Goto, PcOK
  <2> QED BY <1>14, <2>1, <2>2, <2>3 DEF OrphanWrite
<1>15. CASE OrphanEnd(c)
  <2>1. event' \in [Runs -> Event]
    <3>1. arg[c] \in Runs
      BY <1>15 DEF OrphanEnd, PcOK, Vacant
    <3>2. [event EXCEPT ![arg[c]] = [status |-> "canceled", done |-> 0]]
             \in [Runs -> Event]
      BY <3>1, PublishType
    <3> QED BY <1>15, <3>2 DEF OrphanEnd, publishRun
  <2>2. PcOK' /\ goal' \in [Procs -> Terminal] /\ job' \in [Queues -> Job]
    BY <1>15, PcReturn DEF OrphanEnd
  <2> QED BY <1>15, <2>1, <2>2 DEF OrphanEnd, Return
<1> QED
  BY <1>1, <1>2, <1>3, <1>4, <1>5, <1>6, <1>7, <1>8, <1>10, <1>11, <1>12,
     <1>13, <1>14, <1>15 DEF CallStep, ClientStep

(* The updates execute's locals go through. *)
LEMMA JobUpdate ==
  ASSUME job \in [Queues -> Job], NEW q \in Queues
  PROVE  /\ \A b \in BOOLEAN : [job EXCEPT ![q].canceled = b] \in [Queues -> Job]
         /\ \A b \in BOOLEAN : [job EXCEPT ![q].failed = b] \in [Queues -> Job]
         /\ \A n \in Nat : [job EXCEPT ![q].done = n] \in [Queues -> Job]
         /\ [job EXCEPT ![q].cur = None] \in [Queues -> Job]
         /\ \A n \in Nat : [job EXCEPT ![q].done = n, ![q].cur = None]
                             \in [Queues -> Job]
         /\ \A t \in Targets : [job EXCEPT ![q].cur = t, ![q].left = @ \ {t}]
                             \in [Queues -> Job]
         /\ [job EXCEPT ![q].failed = TRUE, ![q].panicked = TRUE,
                        ![q].left = {}] \in [Queues -> Job]
         /\ [job EXCEPT ![q] = [NoJob EXCEPT !.canceled = TRUE]]
              \in [Queues -> Job]
         /\ \A S \in SUBSET Targets :
              [job EXCEPT ![q] = [NoJob EXCEPT !.left = S]] \in [Queues -> Job]
<1>1. \A b \in BOOLEAN : [job EXCEPT ![q].canceled = b] \in [Queues -> Job]
  BY DEF Job
<1>2. \A b \in BOOLEAN : [job EXCEPT ![q].failed = b] \in [Queues -> Job]
  BY DEF Job
<1>3. \A n \in Nat : [job EXCEPT ![q].done = n] \in [Queues -> Job]
  BY DEF Job
<1>4. [job EXCEPT ![q].cur = None] \in [Queues -> Job]
  BY DEF Job
<1>5. \A n \in Nat : [job EXCEPT ![q].done = n, ![q].cur = None] \in [Queues -> Job]
  BY DEF Job
<1>6. \A t \in Targets : [job EXCEPT ![q].cur = t, ![q].left = @ \ {t}]
                        \in [Queues -> Job]
  BY DEF Job
<1>7. [job EXCEPT ![q].failed = TRUE, ![q].panicked = TRUE, ![q].left = {}]
        \in [Queues -> Job]
  BY DEF Job
<1>8. [job EXCEPT ![q] = [NoJob EXCEPT !.canceled = TRUE]] \in [Queues -> Job]
  BY DEF Job, NoJob
<1>9. \A S \in SUBSET Targets :
        [job EXCEPT ![q] = [NoJob EXCEPT !.left = S]] \in [Queues -> Job]
  BY DEF Job, NoJob
<1> QED BY <1>1, <1>2, <1>3, <1>4, <1>5, <1>6, <1>7, <1>8, <1>9

(* The results table stays typed when a row is inserted. *)
LEMMA ResultType ==
  ASSUME results \in [Runs -> [Targets -> Seq({"ok", "failed"})]], NEW q,
         NEW s \in {"ok", "failed"}, InsertResult(q, s)
  PROVE  results' \in [Runs -> [Targets -> Seq({"ok", "failed"})]]
<1> DEFINE r == arg[q]
           t == job[q].cur
           row == Append(results[r][t], s)
<1>1. r \in Runs /\ t \in Targets => row \in Seq({"ok", "failed"})
  <2>1. r \in Runs /\ t \in Targets => results[r][t] \in Seq({"ok", "failed"})
    OBVIOUS
  <2> QED BY <2>1
<1>2. results' = [results EXCEPT ![r] = [results[r] EXCEPT ![t] = row]]
  BY DEF InsertResult
<1> HIDE DEF r, t, row
<1>3. r \in Runs =>
        [results[r] EXCEPT ![t] = row] \in [Targets -> Seq({"ok", "failed"})]
  BY <1>1
<1> QED BY <1>2, <1>3

(* What finishQueue records is a runState, and ends in a status. *)
LEMMA OutcomeType ==
  ASSUME st \in [Runs -> RunState], job \in [Queues -> Job],
         NEW r \in Runs, NEW q \in Queues
  PROVE  /\ Outcome(r, q) \in RunState
         /\ FinalStatus(Outcome(r, q).failed, Outcome(r, q).canceled)
              \in Terminal
<1>1. Outcome(r, q) \in RunState
  <2>1. st[r] \in RunState /\ job[q] \in Job
    OBVIOUS
  <2>2. /\ (st[r].failed \/ job[q].failed) \in BOOLEAN
        /\ (st[r].canceled \/ job[q].canceled) \in BOOLEAN
    OBVIOUS
  <2>3. st[r].pending - 1 \in Int
    BY <2>1 DEF RunState
  <2> QED BY <2>1, <2>2, <2>3 DEF Outcome, RunState
<1> QED BY <1>1 DEF FinalStatus

(* Each step of a worker and of its engine preserves the types. *)
LEMMA TypeWorker ==
  ASSUME TypeOK, NEW q \in Queues, WorkerStep(q) \/ EngineStep(q)
  PROVE  TypeOK'
<1> USE DEF TypeOK, dbVars, muVars, calls, bounds
<1>0. LabelsOf(q) = WorkerLabels /\ q \notin Clients
  BY ProcAssumption DEF LabelsOf
<1>1. ASSUME PcOK', \A p \in Procs \ {q} : pc'[p] = pc[p], req' = req
      PROVE  \A c \in Clients : pc'[c] = "create" => req'[c] \in Requests
  BY <1>0, <1>1
<1>2. CASE Receive(q)
  <2>1. Head(chan[q]) \in Runs /\ chan' \in [Queues -> Seq(Runs)]
    BY <1>2 DEF Receive
  <2>2. PcOK'
    BY <1>0, <1>2, <2>1, PcTake DEF Receive, WorkerLabels, Vacant
  <2> QED BY <1>0, <1>2, <2>1, <2>2 DEF Receive, Goto, PcOK
<1>3. CASE executeGone(q) \/ finishGone(q)
  <2>1. PcOK' /\ goal' \in [Procs -> Terminal] /\ job' \in [Queues -> Job]
    BY <1>3, PcReturn DEF executeGone, finishGone
  <2> QED BY <1>0, <1>3, <2>1 DEF executeGone, finishGone, Return, PcOK
<1>4. CASE executeCanceled(q)
  <2>1. PcOK'
    BY <1>0, <1>4, PcGoto DEF executeCanceled, WorkerLabels, Vacant
  <2>2. job' \in [Queues -> Job]
    BY <1>4, JobUpdate DEF executeCanceled
  <2> QED BY <1>0, <1>4, <2>1, <2>2 DEF executeCanceled, Goto, PcOK
<1>5. CASE execute(q)
  <2>1. PcOK'
    BY <1>0, <1>5, PcGoto DEF execute, WorkerLabels, Vacant
  <2>2. TargetsAt(arg[q], q) \in SUBSET Targets
    <3>1. arg[q] \in Runs
      BY <1>5 DEF execute
    <3> QED BY <3>1 DEF TargetsAt
  <2>3. job' \in [Queues -> Job]
    BY <1>5, <2>2, JobUpdate DEF execute
  <2>4. st' \in [Runs -> RunState]
    BY <1>5, RunStateUpdate DEF execute, markStarted
  <2> QED BY <1>0, <1>5, <2>1, <2>3, <2>4 DEF execute, Goto, PcOK
<1>6. CASE SetRunning(q)
  <2>1. PcOK'
    BY <1>0, <1>6, PcGoto DEF SetRunning, setRunStatus, WorkerLabels, Vacant
  <2>2. /\ dbStatus' \in [Runs -> Active \cup Terminal \cup {"none"}]
        /\ failures' \in Nat
    BY <1>6, StatusType DEF SetRunning
  <2>3. \A c \in Clients : pc'[c] = pc[c]
    BY <1>0, <1>6 DEF SetRunning, setRunStatus, Goto, PcOK
  <2> QED BY <1>6, <2>1, <2>2, <2>3 DEF SetRunning
<1>7. CASE doneCount(q)
  <2>1. PcOK'
    BY <1>0, <1>7, PcGoto DEF doneCount, WorkerLabels, Vacant
  <2>2. (IF arg[q] \in tracked THEN st[arg[q]].done ELSE 0) \in Nat
    BY DEF RunState
  <2>3. job' \in [Queues -> Job]
    BY <1>7, <2>2, JobUpdate DEF doneCount
  <2> QED BY <1>0, <1>7, <2>1, <2>3 DEF doneCount, Goto, PcOK
<1>8. AfterTarget(q) \in {"finish", "loop"}
  BY DEF AfterTarget
<1>9. CASE PublishRunning(q)
  <2>1. PcOK'
    BY <1>0, <1>8, <1>9, PcGoto DEF PublishRunning, WorkerLabels, Vacant
  <2>2. job' \in [Queues -> Job]
    BY <1>9, JobUpdate DEF PublishRunning
  <2>3. event' \in [Runs -> Event]
    <3>1. arg[q] \in Runs
      BY <1>9 DEF PublishRunning, PcOK, Vacant
    <3>2. job[q].done \in Nat
      BY DEF Job
    <3>3. [event EXCEPT ![arg[q]] = [status |-> "running", done |-> job[q].done]]
            \in [Runs -> Event]
      BY <3>1, <3>2, PublishType
    <3> QED BY <1>9, <3>3 DEF PublishRunning, publishRun
  <2> QED BY <1>0, <1>9, <2>1, <2>2, <2>3 DEF PublishRunning, Goto, PcOK
<1>10. CASE NextTarget(q)
  <2>1. CASE arg[q] \in ctxDone \/ job[q].left = {}
    <3>1. PcOK'
      BY <1>0, <1>10, <2>1, PcGoto DEF NextTarget, WorkerLabels, Vacant
    <3>2. job' \in [Queues -> Job]
      <4>1. job' = [job EXCEPT ![q].canceled = arg[q] \in ctxDone]
        BY <1>10, <2>1 DEF NextTarget
      <4>2. (arg[q] \in ctxDone) \in BOOLEAN
        OBVIOUS
      <4> QED BY <4>1, <4>2, JobUpdate, Zenon
    <3> QED BY <1>0, <1>10, <2>1, <3>1, <3>2 DEF NextTarget, Goto, PcOK
  <2>2. CASE ~(arg[q] \in ctxDone \/ job[q].left = {})
    <3>1. PcOK'
      BY <1>0, <1>10, <2>2, PcGoto DEF NextTarget, WorkerLabels, Vacant
    <3>2. job[q].left \subseteq Targets
      BY DEF Job
    <3>3. job' \in [Queues -> Job]
      <4>1. PICK t \in Targets :
              job' = [job EXCEPT ![q].cur = t, ![q].left = @ \ {t}]
        BY <1>10, <2>2, <3>2 DEF NextTarget
      <4> QED BY <4>1, JobUpdate, Zenon
    <3> QED BY <1>0, <1>10, <2>2, <3>1, <3>3 DEF NextTarget, Goto, PcOK
  <2> QED BY <2>1, <2>2
<1>11. CASE Recover(q)
  <2>1. PcOK'
    BY <1>0, <1>11, PcGoto DEF Recover, WorkerLabels, Vacant
  <2>2. results' \in [Runs -> [Targets -> Seq({"ok", "failed"})]]
    BY <1>11, ResultType DEF Recover
  <2> QED BY <1>0, <1>11, <2>1, <2>2 DEF Recover, Goto, PcOK
<1>12. CASE markTargetDone(q)
  <2>1. CASE arg[q] \in tracked
    <3>1. PcOK'
      BY <1>0, <1>12, <2>1, PcGoto DEF markTargetDone, WorkerLabels, Vacant
    <3>2. Stepped(arg[q], q) \in Nat
      BY <2>1 DEF Stepped, RunState
    <3>3. job' \in [Queues -> Job]
      <4>1. job' = [job EXCEPT ![q].done = Stepped(arg[q], q), ![q].cur = None]
        BY <1>12, <2>1 DEF markTargetDone
      <4> QED BY <3>2, <4>1, JobUpdate, Zenon
    <3>4. st' \in [Runs -> RunState]
      <4>1. st[arg[q]] \in RunState
        BY <2>1
      <4>2. [st[arg[q]] EXCEPT !.done = Stepped(arg[q], q)] \in RunState
        BY <3>2, <4>1, RunStateType, Zenon
      <4> QED BY <1>12, <2>1, <4>2 DEF markTargetDone
    <3> QED BY <1>0, <1>12, <2>1, <3>1, <3>3, <3>4 DEF markTargetDone, Goto, PcOK
  <2>2. CASE arg[q] \notin tracked
    <3>1. PcOK'
      BY <1>0, <1>8, <1>12, <2>2, PcGoto DEF markTargetDone, WorkerLabels, Vacant
    <3>2. job' \in [Queues -> Job]
      <4>1. job' = [job EXCEPT ![q].cur = None]
        BY <1>12, <2>2 DEF markTargetDone
      <4> QED BY <4>1, JobUpdate, Zenon
    <3> QED BY <1>0, <1>12, <2>2, <3>1, <3>2 DEF markTargetDone, Goto, PcOK
  <2> QED BY <2>1, <2>2
<1>13. CASE finishQueue(q)
  <2>1. PcOK' /\ goal' \in [Procs -> Terminal] /\ job' \in [Queues -> Job]
    BY <1>13, PcReturn DEF finishQueue
  <2>2. st' \in [Runs -> RunState]
    BY <1>13, OutcomeType DEF finishQueue
  <2> QED BY <1>0, <1>13, <2>1, <2>2 DEF finishQueue, Return, PcOK
<1>14. CASE finishRun(q)
  <2>1. PcOK'
    BY <1>0, <1>14, PcGoto DEF finishRun, WorkerLabels, Vacant
  <2>2. arg[q] \in Runs
    BY <1>14 DEF finishRun
  <2>3. st' \in [Runs -> RunState] /\ goal' \in [Procs -> Terminal]
    BY <1>14, <2>2, OutcomeType DEF finishRun
  <2> QED BY <1>0, <1>14, <2>1, <2>2, <2>3 DEF finishRun, claim, Goto, PcOK
<1>15. CASE runTarget(q)
  <2>1. PcOK'
    BY <1>0, <1>15, PcGoto DEF runTarget, WorkerLabels, Vacant
  <2>2. PICK status \in {"ok", "failed"}, stored \in BOOLEAN :
          /\ IF stored
             THEN InsertResult(q, status) /\ UNCHANGED failures
             ELSE /\ failures < MaxFailures
                  /\ failures' = failures + 1
                  /\ UNCHANGED results
          /\ job' = [job EXCEPT ![q].failed = @ \/ TargetFailed(status, stored)]
    BY <1>15 DEF runTarget
  <2>3. results' \in [Runs -> [Targets -> Seq({"ok", "failed"})]]
    BY <2>2, ResultType
  <2>4. failures' \in Nat
    BY <2>2
  <2>5. job' \in [Queues -> Job]
    <3>1. (job[q].failed \/ TargetFailed(status, stored)) \in BOOLEAN
      OBVIOUS
    <3> QED BY <2>2, <3>1, JobUpdate
  <2> QED BY <1>0, <1>15, <2>1, <2>3, <2>4, <2>5 DEF runTarget, Goto, PcOK
<1>16. CASE runTargetPanics(q)
  <2>1. PICK rowWritten \in BOOLEAN, status \in {"ok", "failed"} :
          /\ IF rowWritten THEN InsertResult(q, status) ELSE UNCHANGED results
          /\ Goto(q, AfterPanic(rowWritten))
    BY <1>16 DEF runTargetPanics
  <2>2. AfterPanic(rowWritten) \in {"finish", "recover"}
    BY DEF AfterPanic
  <2>3. PcOK'
    BY <1>0, <1>16, <2>1, <2>2, PcGoto DEF runTargetPanics, WorkerLabels, Vacant
  <2>4. results' \in [Runs -> [Targets -> Seq({"ok", "failed"})]]
    BY <2>1, ResultType
  <2>5. job' \in [Queues -> Job]
    BY <1>16, JobUpdate DEF runTargetPanics
  <2> QED BY <1>0, <1>16, <2>1, <2>3, <2>4, <2>5 DEF runTargetPanics, Goto, PcOK
<1> QED
  BY <1>2, <1>3, <1>4, <1>5, <1>6, <1>7, <1>9, <1>10, <1>11, <1>12, <1>13,
     <1>14, <1>15, <1>16 DEF WorkerStep, EngineStep

(* A finisher's two steps preserve the types. *)
LEMMA TypeFinal ==
  ASSUME TypeOK, NEW p \in Procs, FinalWrite(p) \/ endFinalize(p)
  PROVE  TypeOK'
<1> USE DEF TypeOK, dbVars, muVars, calls, bounds
<1>1. CASE FinalWrite(p)
  <2>1. {"settle", "resign"} \subseteq LabelsOf(p)
    BY DEF LabelsOf, ClientLabels, WorkerLabels, MainLabels
  <2>2. PICK l \in {"settle", "resign"} : Goto(p, l)
    BY <1>1 DEF FinalWrite, setRunStatus, AfterWriteFails
  <2>3. PcOK'
    BY <1>1, <2>1, <2>2, PcGoto DEF FinalWrite, Vacant
  <2>4. goal[p] \in Active \cup Terminal
    OBVIOUS
  <2>5. /\ dbStatus' \in [Runs -> Active \cup Terminal \cup {"none"}]
        /\ failures' \in Nat
    BY <1>1, <2>4, StatusType DEF FinalWrite
  <2>6. \A c \in Clients : pc'[c] = "create" => pc[c] = "create"
    BY <2>2 DEF Goto, PcOK
  <2> QED BY <1>1, <2>3, <2>5, <2>6 DEF FinalWrite
<1>2. CASE endFinalize(p)
  <2>1. PcOK' /\ goal' \in [Procs -> Terminal] /\ job' \in [Queues -> Job]
    BY <1>2, PcReturn DEF endFinalize
  <2>2. event' \in [Runs -> Event]
    <3>1. arg[p] \in Runs
      BY <1>2 DEF endFinalize, PcOK, Vacant
    <3>2. st[arg[p]].done \in Nat
      BY <3>1 DEF RunState
    <3>3. [event EXCEPT ![arg[p]] = [status |-> goal[p],
                                     done |-> st[arg[p]].done]]
            \in [Runs -> Event]
      BY <3>1, <3>2, PublishType
    <3> QED BY <1>2, <3>3 DEF endFinalize, publishRun
  <2>3. \A c \in Clients : pc'[c] = "create" => pc[c] = "create"
    BY <1>2 DEF endFinalize, Return, PcOK
  <2> QED BY <1>2, <2>1, <2>2, <2>3 DEF endFinalize
<1> QED BY <1>1, <1>2

(* Shutdown, a crash and the restart preserve the types. *)
LEMMA TypeMain ==
  ASSUME TypeOK, ShutdownBegin \/ MainStep \/ Crash \/ ReapOrphanedRuns
  PROVE  TypeOK'
<1> USE DEF TypeOK, dbVars, muVars, calls, bounds
<1>0. LabelsOf(Main) = MainLabels /\ Main \in Procs /\ Main \notin Clients
  BY ProcAssumption DEF LabelsOf
<1>1. CASE ShutdownBegin
  <2>1. PcOK'
    BY <1>0, <1>1, PcGoto DEF ShutdownBegin, MainLabels, Vacant
  <2> QED BY <1>0, <1>1, <2>1 DEF ShutdownBegin, Goto, PcOK
<1>2. CASE ShutdownDrained
  <2>1. PcOK'
    BY <1>0, <1>2, PcGoto DEF ShutdownDrained, MainLabels, Vacant
  <2> QED BY <1>0, <1>2, <2>1 DEF ShutdownDrained, Goto, PcOK
<1>3. CASE ShutdownGrace
  <2>1. PICK l \in {"await", "force"} : Goto(Main, l)
    BY <1>3 DEF ShutdownGrace
  <2>2. PcOK'
    BY <1>0, <1>3, <2>1, PcGoto DEF ShutdownGrace, MainLabels, Vacant
  <2>3. st' \in [Runs -> RunState]
    <3>1. \A r \in Runs : [st[r] EXCEPT !.canceled = TRUE] \in RunState
      BY RunStateType
    <3> QED BY <1>3, <3>1 DEF ShutdownGrace
  <2>4. \A c \in Clients : pc'[c] = pc[c]
    BY <1>0, <2>1 DEF Goto, PcOK
  <2> QED BY <1>3, <2>2, <2>3, <2>4 DEF ShutdownGrace
<1>4. CASE ShutdownAwait
  <2>1. PcOK'
    BY <1>0, <1>4, PcGoto DEF ShutdownAwait, MainLabels, Vacant
  <2> QED BY <1>0, <1>4, <2>1 DEF ShutdownAwait, Goto, PcOK
<1>5. CASE ShutdownReturn
  <2>1. PcOK'
    BY <1>0, <1>5, PcGoto DEF ShutdownReturn, MainLabels, Vacant
  <2> QED BY <1>0, <1>5, <2>1 DEF ShutdownReturn, Goto, PcOK
<1>6. ASSUME NEW r \in Runs, claimForForceCancel(r) PROVE TypeOK'
  <2>1. PcOK'
    BY <1>0, <1>6, PcTake DEF claimForForceCancel, MainLabels, Vacant
  <2> QED BY <1>0, <1>6, <2>1 DEF claimForForceCancel, claim, Goto, PcOK
<1>7. ASSUME NEW r \in Runs, forceCancelGone(r) PROVE TypeOK'
  BY <1>7 DEF forceCancelGone, PcOK
<1>8. CASE Crash
  <2>1. PcOK'
    <3>1. pc' = [p \in Procs |-> IF p = Main THEN "down" ELSE "idle"]
      BY <1>8 DEF Crash
    <3>2. /\ pc' \in [Procs -> ClientLabels \cup WorkerLabels \cup MainLabels]
          /\ \A p \in Procs : pc'[p] \in LabelsOf(p) /\ pc'[p] \in Vacant
      BY <1>0, <3>1
      DEF LabelsOf, ClientLabels, WorkerLabels, MainLabels, Vacant
    <3>3. arg' \in [Procs -> Runs \cup {None}] /\ \A p \in Procs : arg'[p] = None
      BY <1>8 DEF Crash
    <3> QED BY <3>2, <3>3 DEF PcOK, LabelsOf
  <2>2. st' \in [Runs -> RunState] /\ job' \in [Queues -> Job]
    BY <1>8, RunStateType, NoJobType DEF Crash
  <2>3. chan' \in [Queues -> Seq(Runs)]
    BY <1>8 DEF Crash
  <2>4. event' \in [Runs -> Event]
    BY <1>8 DEF Crash, NoEvent, Event
  <2>5. \A c \in Clients : pc'[c] = "idle"
    BY <1>0, <1>8 DEF Crash
  <2>6. /\ goal' \in [Procs -> Terminal]
        /\ req' \in [Clients -> Requests \cup {None}]
    BY <1>8 DEF Crash
  <2>7. /\ tracked' \in SUBSET Runs /\ finalizing' \in SUBSET Runs
        /\ closing' \in BOOLEAN /\ ctxDone' \in SUBSET Runs
        /\ enqueueMu' \in Clients \cup {None} /\ stuck' \in SUBSET Runs
    BY <1>8 DEF Crash
  <2>8. /\ UNCHANGED <<dbVars, plan, failures>>
        /\ crashes' = crashes + 1
    BY <1>8 DEF Crash
  <2> QED BY <2>1, <2>2, <2>3, <2>4, <2>5, <2>6, <2>7, <2>8
<1>9. CASE ReapOrphanedRuns
  <2>1. PcOK'
    BY <1>0, <1>9, PcGoto DEF ReapOrphanedRuns, MainLabels, Vacant
  <2>2. dbStatus' \in [Runs -> Active \cup Terminal \cup {"none"}]
    BY <1>9 DEF ReapOrphanedRuns, Reaped
  <2> QED BY <1>0, <1>9, <2>1, <2>2 DEF ReapOrphanedRuns, Goto, PcOK
<1> QED
  BY <1>1, <1>2, <1>3, <1>4, <1>5, <1>6, <1>7, <1>8, <1>9 DEF MainStep

(* Every step preserves the types. *)
LEMMA NextTypeOK == TypeOK /\ [Next]_vars => TypeOK'
<1> SUFFICES ASSUME TypeOK, [Next]_vars PROVE TypeOK'
  OBVIOUS
<1>1. CASE UNCHANGED vars
  BY <1>1 DEF TypeOK, PcOK, vars, dbVars, muVars, calls, bounds
<1>2. CASE Next
  BY <1>2, TypeClient, TypeWorker, TypeFinal, TypeMain DEF Next
<1> QED BY <1>1, <1>2

(* Every state the runner reaches is well typed: each goroutine stays in   *)
(* its own code, and works on a run exactly where that code uses one.      *)
THEOREM TypeCorrect == Spec => []TypeOK
  BY InitTypeOK, NextTypeOK, PTL DEF Spec

(***************************************************************************)
(* The claim discipline.                                                   *)
(***************************************************************************)

(* The labels ClaimInv speaks of. *)
Owning == {"insert", "write", "settle", "resign"}
Marked == Owning \cup Locked

(* Process p alone moves, to label l. *)
Moves(p, l) ==
  /\ pc' = [pc EXCEPT ![p] = l]
  /\ \A o \in Procs \ {p} : arg'[o] = arg[o]

(* The runs table forgets no id it has handed out. *)
IdsKept == \A r \in Runs : dbStatus[r] # "none" => dbStatus'[r] # "none"

(* A status write keeps the ids, and moves p to one of the two labels.     *)
LEMMA WriteKeepsIds ==
  ASSUME TypeOK, NEW p \in Procs, NEW r, NEW s \in Active \cup Terminal,
         NEW ok, NEW fail, setRunStatus(p, r, s, ok, fail), arg' = arg
  PROVE  IdsKept /\ \E l \in {ok, fail} : Moves(p, l)
<1>1. IdsKept
  BY DEF setRunStatus, IdsKept, TypeOK
<1>2. \E l \in {ok, fail} : Goto(p, l)
  BY DEF setRunStatus
<1> QED BY <1>1, <1>2 DEF Moves, Goto

(* OneOwner is kept by a step that changes nobody's ownership.             *)
LEMMA OwnersKept ==
  ASSUME OneOwner, UNCHANGED <<tracked, finalizing>>,
         \A o \in Procs, r \in Runs : Owns(o, r)' <=> Owns(o, r)
  PROVE  OneOwner'
  BY DEF OneOwner

(* It is kept when p becomes the owner of a run nobody owned: the claim,   *)
(* under r.mu, that moves a run from tracked to finalizing.                *)
LEMMA OwnerAdded ==
  ASSUME OneOwner, NEW p \in Procs, NEW r \in Runs, r \notin finalizing,
         tracked' = tracked \ {r}, finalizing' = finalizing \cup {r},
         \A o \in Procs, s \in Runs :
            Owns(o, s)' <=> Owns(o, s) \/ (o = p /\ s = r)
  PROVE  OneOwner'
<1>1. \A o \in Procs : ~Owns(o, r)
  BY DEF OneOwner
<1> SUFFICES ASSUME NEW s \in Runs
             PROVE  /\ \A p1, p2 \in Procs :
                         Owns(p1, s)' /\ Owns(p2, s)' => p1 = p2
                    /\ s \in finalizing' <=> \E o \in Procs : Owns(o, s)'
                    /\ s \in tracked' => s \notin finalizing'
  BY DEF OneOwner
<1>2. CASE s = r
  BY <1>1, <1>2
<1>3. CASE s # r
  <2>1. \A o \in Procs : Owns(o, s)' <=> Owns(o, s)
    BY <1>3
  <2>2. /\ s \in finalizing' <=> s \in finalizing
        /\ s \in tracked' <=> s \in tracked
    BY <1>3
  <2> QED BY <2>1, <2>2 DEF OneOwner
<1> QED BY <1>2, <1>3

(* A step outside the claim protocol. *)
LEMMA ClaimPlain ==
  ASSUME TypeOK, ClaimInv, NEW p \in Procs, NEW l, Moves(p, l),
         pc[p] \notin Marked, l \notin Marked,
         UNCHANGED <<tracked, finalizing, enqueueMu>>, IdsKept
  PROVE  ClaimInv'
<1> USE DEF Moves, TypeOK, PcOK, Marked, Owning, Locked
<1>1. \A o \in Procs, r \in Runs : Owns(o, r)' <=> Owns(o, r)
  BY DEF Owns
<1>2. OneOwner'
  <2> HIDE DEF Moves, TypeOK, PcOK
  <2> QED BY <1>1, OwnersKept DEF ClaimInv
<1>3. \A c \in Clients : pc'[c] \in Locked =>
          pc[c] = pc'[c] /\ arg[c] = arg'[c] /\ arg[c] \in Runs \cup {None}
  OBVIOUS
<1>4. OrphanIsDead'
  BY <1>3 DEF OrphanIsDead, Orphaning, ClaimInv
<1>5. \A c \in Clients : pc'[c] \in Locked => enqueueMu' = c
  BY <1>3 DEF ClaimInv
<1>6. \A c \in Clients : pc'[c] = "begin" =>
         arg'[c] \notin tracked' \cup finalizing' /\ dbStatus'[arg'[c]] # "none"
  <2> SUFFICES ASSUME NEW c \in Clients, pc'[c] = "begin"
               PROVE  /\ arg'[c] \notin tracked' \cup finalizing'
                      /\ dbStatus'[arg'[c]] # "none"
    OBVIOUS
  <2>1. pc[c] = "begin" /\ arg'[c] = arg[c]
    BY <1>3
  <2>2. arg[c] \in Runs
    BY <2>1 DEF Vacant
  <2> QED BY <2>1, <2>2 DEF ClaimInv, IdsKept
<1>7. \A r \in tracked' \cup finalizing' : dbStatus'[r] # "none"
  BY DEF ClaimInv, IdsKept
<1> QED BY <1>2, <1>4, <1>5, <1>6, <1>7 DEF ClaimInv

(* An owner goes on owning its run. *)
LEMMA ClaimOwn ==
  ASSUME TypeOK, ClaimInv, NEW p \in Procs, NEW l, Moves(p, l), arg' = arg,
         pc[p] \in Owning, l \in Owning,
         UNCHANGED <<tracked, finalizing, enqueueMu>>, IdsKept
  PROVE  ClaimInv'
<1> USE DEF Moves, TypeOK, PcOK, Owning, Locked
<1>1. \A o \in Procs, r \in Runs : Owns(o, r)' <=> Owns(o, r)
  BY DEF Owns
<1>2. OneOwner'
  <2> HIDE DEF Moves, TypeOK, PcOK
  <2> QED BY <1>1, OwnersKept DEF ClaimInv
<1>3. \A c \in Clients : pc'[c] \in Locked => pc[c] = pc'[c]
  OBVIOUS
<1>4. OrphanIsDead'
  BY <1>3 DEF OrphanIsDead, Orphaning, ClaimInv
<1>5. \A c \in Clients : pc'[c] \in Locked => enqueueMu' = c
  BY <1>3 DEF ClaimInv
<1>6. \A c \in Clients : pc'[c] = "begin" =>
         arg'[c] \notin tracked' \cup finalizing' /\ dbStatus'[arg'[c]] # "none"
  <2> SUFFICES ASSUME NEW c \in Clients, pc'[c] = "begin"
               PROVE  /\ arg'[c] \notin tracked' \cup finalizing'
                      /\ dbStatus'[arg'[c]] # "none"
    OBVIOUS
  <2>1. pc[c] = "begin"
    BY <1>3
  <2>2. arg[c] \in Runs
    BY <2>1 DEF Vacant
  <2> QED BY <2>1, <2>2 DEF ClaimInv, IdsKept
<1>7. \A r \in tracked' \cup finalizing' : dbStatus'[r] # "none"
  BY DEF ClaimInv, IdsKept
<1> QED BY <1>2, <1>4, <1>5, <1>6, <1>7 DEF ClaimInv

(* A tracked run is claimed: no owner and no orphan check had it.          *)
LEMMA ClaimTake ==
  ASSUME TypeOK, ClaimInv, NEW p \in Procs, NEW r \in tracked, claim(r),
         Moves(p, "write"), arg'[p] = r, pc[p] \notin Marked,
         UNCHANGED <<dbStatus, enqueueMu>>
  PROVE  ClaimInv'
<1> USE DEF Moves, TypeOK, PcOK, Marked, Owning, Locked, claim
<1>1. r \in Runs /\ r \notin finalizing
  BY DEF ClaimInv, OneOwner
<1>2. ASSUME NEW o \in Procs, NEW s \in Runs
      PROVE  Owns(o, s)' <=> Owns(o, s) \/ (o = p /\ s = r)
  <2>1. CASE o = p
    BY <2>1 DEF Owns
  <2>2. CASE o # p
    BY <2>2 DEF Owns
  <2> QED BY <2>1, <2>2
<1>3. OneOwner'
  <2> HIDE DEF Moves, TypeOK, PcOK
  <2> QED BY <1>1, <1>2, OwnerAdded DEF ClaimInv
<1>4. \A c \in Clients : pc'[c] \in Locked => pc[c] = pc'[c] /\ arg[c] = arg'[c]
  OBVIOUS
<1>5. OrphanIsDead'
  BY <1>4 DEF OrphanIsDead, Orphaning, ClaimInv
<1>6. \A c \in Clients : pc'[c] \in Locked => enqueueMu' = c
  BY <1>4 DEF ClaimInv
<1>7. \A c \in Clients : pc'[c] = "begin" =>
         arg'[c] \notin tracked' \cup finalizing' /\ dbStatus'[arg'[c]] # "none"
  BY <1>4 DEF ClaimInv
<1>8. \A s \in tracked' \cup finalizing' : dbStatus'[s] # "none"
  BY DEF ClaimInv
<1> QED BY <1>3, <1>5, <1>6, <1>7, <1>8 DEF ClaimInv

(* enqueueMu is released: nobody else was in a section of it.              *)
LEMMA ClaimRelease ==
  ASSUME TypeOK, ClaimInv, NEW c \in Clients, NEW l, Moves(c, l),
         pc[c] \in Locked, l \notin Marked, enqueueMu' = None,
         UNCHANGED <<dbStatus, tracked, finalizing>>
  PROVE  ClaimInv'
<1> USE DEF Moves, TypeOK, PcOK, Marked, Owning, Locked
<1>1. \A d \in Clients : pc'[d] \notin Locked
  BY DEF ClaimInv
<1>2. \A o \in Procs, r \in Runs : Owns(o, r)' <=> Owns(o, r)
  BY DEF Owns
<1>3. OneOwner'
  <2> HIDE DEF Moves, TypeOK, PcOK
  <2> QED BY <1>2, OwnersKept DEF ClaimInv
<1>4. OrphanIsDead'
  BY <1>1 DEF OrphanIsDead, Orphaning
<1>5. \A r \in tracked' \cup finalizing' : dbStatus'[r] # "none"
  BY DEF ClaimInv
<1> QED BY <1>1, <1>3, <1>4, <1>5 DEF ClaimInv

(* Return moves a process to a label outside the protocol. *)
LEMMA ReturnMoves ==
  ASSUME TypeOK, NEW p \in Procs, Return(p)
  PROVE  \E l \in {"idle", "force"} : Moves(p, l)
  BY DEF Return, Moves, TypeOK, PcOK

(* Moves from Goto and from an assignment to arg. *)
LEMMA GotoMoves ==
  ASSUME TypeOK, NEW p \in Procs, NEW l, Goto(p, l),
         arg' = arg \/ \E r : arg' = [arg EXCEPT ![p] = r]
  PROVE  Moves(p, l)
  BY DEF Goto, Moves, TypeOK, PcOK

(* EnqueueLock enters the section of enqueueMu. *)
LEMMA ClaimEnqueueLock ==
  ASSUME TypeOK, ClaimInv, NEW c \in Clients, NEW q, EnqueueLock(c, q)
  PROVE  ClaimInv'
<1> USE DEF TypeOK, PcOK, Owning, Locked
<1>1. /\ pc' = [pc EXCEPT ![c] = "create"] /\ pc[c] = "idle" /\ arg' = arg
      /\ enqueueMu = None /\ enqueueMu' = c
      /\ UNCHANGED <<dbStatus, tracked, finalizing>>
  BY DEF EnqueueLock, Goto, dbVars, muVars
<1>2. \A d \in Clients : pc[d] \notin Locked
  BY <1>1, ProcAssumption DEF ClaimInv
<1>3. \A o \in Procs, r \in Runs : Owns(o, r)' <=> Owns(o, r)
  BY <1>1 DEF Owns
<1>4. OneOwner'
  <2> HIDE DEF TypeOK, PcOK
  <2> QED BY <1>1, <1>3, OwnersKept DEF ClaimInv
<1>5. \A d \in Clients : pc'[d] \in Locked => d = c /\ pc'[d] = "create"
  BY <1>1, <1>2
<1>6. OrphanIsDead'
  BY <1>5 DEF OrphanIsDead, Orphaning
<1>7. \A r \in tracked' \cup finalizing' : dbStatus'[r] # "none"
  BY <1>1 DEF ClaimInv
<1> QED BY <1>1, <1>4, <1>5, <1>6, <1>7 DEF ClaimInv

(* A new row belongs to nobody, and its creator holds enqueueMu.           *)
LEMMA ClaimEnqueueCreate ==
  ASSUME TypeOK, ClaimInv, NEW c \in Clients, EnqueueCreate(c)
  PROVE  ClaimInv'
<1> USE DEF TypeOK, PcOK, Owning, Locked
<1>1. PICK r \in Runs :
        /\ dbStatus[r] = "none" /\ dbStatus' = [dbStatus EXCEPT ![r] = "queued"]
        /\ arg' = [arg EXCEPT ![c] = r]
  BY DEF EnqueueCreate
<1>2. /\ pc' = [pc EXCEPT ![c] = "begin"] /\ pc[c] = "create"
      /\ UNCHANGED <<tracked, finalizing, enqueueMu>>
  BY DEF EnqueueCreate, Goto, muVars
<1>3. enqueueMu = c /\ \A d \in Clients \ {c} : pc[d] \notin Locked
  BY <1>2 DEF ClaimInv
<1>4. \A o \in Procs, s \in Runs : Owns(o, s)' <=> Owns(o, s)
  BY <1>1, <1>2 DEF Owns
<1>5. OneOwner'
  <2> HIDE DEF TypeOK, PcOK
  <2> QED BY <1>2, <1>4, OwnersKept DEF ClaimInv
<1>6. \A d \in Clients : pc'[d] \in Locked => d = c /\ pc'[d] = "begin"
  BY <1>2, <1>3
<1>7. OrphanIsDead'
  BY <1>6 DEF OrphanIsDead, Orphaning
<1>8. r \notin tracked \cup finalizing
  BY <1>1 DEF ClaimInv
<1>9. \A s \in tracked' \cup finalizing' : dbStatus'[s] # "none"
  BY <1>1, <1>2 DEF ClaimInv
<1> QED BY <1>1, <1>2, <1>3, <1>5, <1>6, <1>7, <1>8, <1>9 DEF ClaimInv

(* Enqueue marks its run in transit before it releases enqueueMu.          *)
LEMMA ClaimBegin ==
  ASSUME TypeOK, ClaimInv, NEW c \in Clients, beginFinalize(c)
  PROVE  ClaimInv'
<1> USE DEF TypeOK, PcOK, Owning, Locked
<1> DEFINE r == arg[c]
<1>1. /\ pc' = [pc EXCEPT ![c] = "insert"] /\ pc[c] = "begin" /\ arg' = arg
      /\ finalizing' = finalizing \cup {r} /\ enqueueMu' = None
      /\ UNCHANGED <<tracked, dbStatus>>
  BY DEF beginFinalize, Goto, dbVars
<1>2. r \in Runs /\ r \notin tracked \cup finalizing /\ dbStatus[r] # "none"
  BY <1>1 DEF ClaimInv, Vacant
<1>3. \A d \in Clients : pc'[d] \notin Locked
  BY <1>1 DEF ClaimInv
<1>4. ASSUME NEW o \in Procs, NEW s \in Runs
      PROVE  Owns(o, s)' <=> Owns(o, s) \/ (o = c /\ s = r)
  BY <1>1 DEF Owns
<1> HIDE DEF r
<1>5. tracked' = tracked \ {r}
  BY <1>1, <1>2
<1>6. OneOwner'
  <2> HIDE DEF TypeOK, PcOK
  <2> QED BY <1>1, <1>2, <1>4, <1>5, OwnerAdded DEF ClaimInv
<1>7. OrphanIsDead'
  BY <1>3 DEF OrphanIsDead, Orphaning
<1>8. \A s \in tracked' \cup finalizing' : dbStatus'[s] # "none"
  BY <1>1, <1>2 DEF ClaimInv
<1> QED BY <1>3, <1>6, <1>7, <1>8 DEF ClaimInv

(* A run leaves its owner's hands: registered by Enqueue, or finished.     *)
LEMMA ClaimGive ==
  ASSUME TypeOK, ClaimInv, NEW p \in Procs, NEW r \in Runs, Owns(p, r),
         NEW l, Moves(p, l), l \notin Marked,
         finalizing' = finalizing \ {r},
         tracked' = tracked \/ tracked' = tracked \cup {r},
         UNCHANGED <<dbStatus, enqueueMu>>
  PROVE  ClaimInv'
<1> USE DEF Moves, TypeOK, PcOK, Marked, Owning, Locked
<1>1. r \in finalizing /\ dbStatus[r] # "none"
  BY DEF ClaimInv, OneOwner
<1>2. ASSUME NEW o \in Procs, NEW s \in Runs
      PROVE  Owns(o, s)' <=> Owns(o, s) /\ s # r
  <2>1. CASE o = p
    BY <2>1 DEF Owns
  <2>2. CASE o # p
    <3>1. s = r => ~Owns(o, s)
      BY <2>2 DEF ClaimInv, OneOwner
    <3> QED BY <2>2, <3>1 DEF Owns
  <2> QED BY <2>1, <2>2
<1>3. OneOwner'
  <2> HIDE DEF Moves, TypeOK, PcOK
  <2> SUFFICES ASSUME NEW s \in Runs
               PROVE  /\ \A p1, p2 \in Procs :
                           Owns(p1, s)' /\ Owns(p2, s)' => p1 = p2
                      /\ s \in finalizing' <=> \E o \in Procs : Owns(o, s)'
                      /\ s \in tracked' => s \notin finalizing'
    BY DEF OneOwner
  <2>1. CASE s = r
    BY <1>2, <2>1
  <2>2. CASE s # r
    <3>1. \A o \in Procs : Owns(o, s)' <=> Owns(o, s)
      BY <1>2, <2>2
    <3>2. /\ s \in finalizing' <=> s \in finalizing
          /\ s \in tracked' <=> s \in tracked
      BY <2>2
    <3> QED BY <3>1, <3>2 DEF OneOwner, ClaimInv
  <2> QED BY <2>1, <2>2
<1>4. \A c \in Clients : pc'[c] \in Locked => pc[c] = pc'[c] /\ arg[c] = arg'[c]
  OBVIOUS
<1>5. OrphanIsDead'
  BY <1>1, <1>4 DEF OrphanIsDead, Orphaning, ClaimInv
<1>6. \A c \in Clients : pc'[c] \in Locked => enqueueMu' = c
  BY <1>4 DEF ClaimInv
<1>7. \A c \in Clients : pc'[c] = "begin" =>
         arg'[c] \notin tracked' \cup finalizing' /\ dbStatus'[arg'[c]] # "none"
  BY <1>1, <1>4 DEF ClaimInv
<1>8. \A s \in tracked' \cup finalizing' : dbStatus'[s] # "none"
  BY <1>1 DEF ClaimInv
<1> QED BY <1>3, <1>5, <1>6, <1>7, <1>8 DEF ClaimInv

(* cancelOrphan enters the section of enqueueMu: nobody else is in one, so *)
(* no Enqueue is between a row's creation and its registration.            *)
LEMMA ClaimOrphanLock ==
  ASSUME TypeOK, ClaimInv, NEW c \in Clients, pc[c] = "orphan",
         enqueueMu = None, Orphan(arg[c]), enqueueMu' = c, Goto(c, "getRun"),
         UNCHANGED <<dbStatus, tracked, finalizing, arg>>
  PROVE  ClaimInv'
<1> USE DEF TypeOK, PcOK, Owning, Locked
<1>1. pc' = [pc EXCEPT ![c] = "getRun"]
  BY DEF Goto
<1>2. \A d \in Clients : pc[d] \notin Locked
  BY ProcAssumption DEF ClaimInv
<1>3. \A o \in Procs, r \in Runs : Owns(o, r)' <=> Owns(o, r)
  BY <1>1 DEF Owns
<1>4. OneOwner'
  <2> HIDE DEF TypeOK, PcOK
  <2> QED BY <1>3, OwnersKept DEF ClaimInv
<1>5. \A d \in Clients : pc'[d] \in Locked => d = c /\ pc'[d] = "getRun"
  BY <1>1, <1>2
<1>6. OrphanIsDead'
  BY <1>5 DEF OrphanIsDead, Orphaning, Orphan
<1>7. \A r \in tracked' \cup finalizing' : dbStatus'[r] # "none"
  BY DEF ClaimInv
<1> QED BY <1>4, <1>5, <1>6, <1>7 DEF ClaimInv

(* Steps within cancelOrphan's section. *)
LEMMA ClaimOrphanStep ==
  ASSUME TypeOK, ClaimInv, NEW c \in Clients, NEW l, Moves(c, l), arg' = arg,
         pc[c] \in {"getRun", "orphanWrite"},
         l \in {"orphanWrite", "orphanEnd", "orphanFail"},
         UNCHANGED <<tracked, finalizing, enqueueMu>>, IdsKept
  PROVE  ClaimInv'
<1> USE DEF Moves, TypeOK, PcOK, Owning, Locked
<1>1. \A o \in Procs, r \in Runs : Owns(o, r)' <=> Owns(o, r)
  BY DEF Owns
<1>2. OneOwner'
  <2> HIDE DEF Moves, TypeOK, PcOK
  <2> QED BY <1>1, OwnersKept DEF ClaimInv
<1>3. enqueueMu = c /\ \A d \in Clients \ {c} : pc[d] \notin Locked
  BY DEF ClaimInv
<1>4. \A d \in Clients : pc'[d] \in Locked => d = c /\ pc'[d] # "begin"
  BY <1>3
<1>5. OrphanIsDead'
  <2>1. \A r \in Runs : Orphaning(c, r)' => Orphaning(c, r)
    BY DEF Orphaning
  <2>2. \A d \in Clients \ {c}, r \in Runs : ~Orphaning(d, r)'
    BY <1>4 DEF Orphaning
  <2>3. \A d \in Clients : pc'[d] # "begin"
    BY <1>4
  <2> HIDE DEF Moves, TypeOK, PcOK
  <2>4. \A d \in Clients, r \in Runs :
          Orphaning(d, r)' => r \notin tracked' /\ r \notin finalizing'
    BY <2>1, <2>2 DEF OrphanIsDead, ClaimInv
  <2> QED BY <2>3, <2>4 DEF OrphanIsDead
<1>6. \A r \in tracked' \cup finalizing' : dbStatus'[r] # "none"
  BY DEF ClaimInv, IdsKept
<1> QED BY <1>2, <1>3, <1>4, <1>5, <1>6 DEF ClaimInv

(* Each client step preserves the claim discipline. *)
LEMMA ClaimClient ==
  ASSUME TypeOK, ClaimInv, NEW c \in Clients, CallStep(c) \/ ClientStep(c)
  PROVE  ClaimInv'
<1> USE DEF Marked, Owning, Locked, dbVars, muVars, calls
<1>0. c \in Procs /\ arg[c] \in Runs \cup {None}
  BY DEF TypeOK, PcOK
<1>1. ASSUME NEW q \in Requests, EnqueueLock(c, q) PROVE ClaimInv'
  BY <1>1, ClaimEnqueueLock
<1>2. ASSUME NEW r \in Runs, CancelStarted(c, r) PROVE ClaimInv'
  BY <1>2 DEF CancelStarted, ClaimInv, OneOwner, Owns, OrphanIsDead, Orphaning
<1>3. ASSUME NEW r \in Runs, CancelQueued(c, r) PROVE ClaimInv'
  <2>1. /\ r \in tracked /\ claim(r) /\ pc[c] \notin Marked
        /\ Goto(c, "write") /\ arg' = [arg EXCEPT ![c] = r]
        /\ UNCHANGED <<dbStatus, enqueueMu>>
    BY <1>3 DEF CancelQueued
  <2>2. Moves(c, "write") /\ arg'[c] = r
    BY <1>0, <2>1, GotoMoves DEF TypeOK, PcOK
  <2> QED BY <1>0, <2>1, <2>2, ClaimTake
<1>4. ASSUME NEW r \in Runs, CancelUntracked(c, r) PROVE ClaimInv'
  <2>1. /\ pc[c] \notin Marked /\ Goto(c, "orphan")
        /\ arg' = [arg EXCEPT ![c] = r]
        /\ UNCHANGED <<dbStatus, tracked, finalizing, enqueueMu>>
    BY <1>4 DEF CancelUntracked
  <2>2. Moves(c, "orphan") /\ IdsKept /\ "orphan" \notin Marked
    BY <1>0, <2>1, GotoMoves DEF IdsKept
  <2> QED BY <1>0, <2>1, <2>2, ClaimPlain
<1>5. CASE EnqueueCreate(c)
  BY <1>5, ClaimEnqueueCreate
<1>6. CASE EnqueueCreateFails(c)
  <2>1. /\ pc[c] \in Locked /\ Goto(c, "idle") /\ arg' = arg
        /\ enqueueMu' = None
        /\ UNCHANGED <<dbStatus, tracked, finalizing>>
    BY <1>6 DEF EnqueueCreateFails
  <2>2. Moves(c, "idle") /\ "idle" \notin Marked
    BY <1>0, <2>1, GotoMoves
  <2> QED BY <2>1, <2>2, ClaimRelease
<1>7. CASE beginFinalize(c)
  BY <1>7, ClaimBegin
<1>8. CASE EnqueueRefused(c) \/ EnqueueFull(c)
  <2>1. /\ pc[c] \in Owning /\ Goto(c, "write") /\ arg' = arg
        /\ UNCHANGED <<dbStatus, tracked, finalizing, enqueueMu>>
    BY <1>8 DEF EnqueueRefused, EnqueueFull
  <2>2. Moves(c, "write") /\ IdsKept
    BY <1>0, <2>1, GotoMoves DEF IdsKept
  <2> QED BY <1>0, <2>1, <2>2, ClaimOwn
<1>9. CASE EnqueueSend(c)
  <2>1. /\ Return(c) /\ finalizing' = finalizing \ {arg[c]}
        /\ tracked' = tracked \cup {arg[c]}
        /\ UNCHANGED <<dbStatus, enqueueMu>>
    BY <1>9 DEF EnqueueSend
  <2>2. arg[c] \in Runs /\ Owns(c, arg[c])
    BY <1>9 DEF EnqueueSend, TypeOK, PcOK, Vacant, Owns
  <2>3. PICK l \in {"idle", "force"} : Moves(c, l)
    BY <1>0, <2>1, ReturnMoves
  <2>4. /\ l \notin Marked
        /\ tracked' = tracked \/ tracked' = tracked \cup {arg[c]}
    BY <2>1
  <2> HIDE DEF Marked
  <2> QED BY <1>0, <2>1, <2>2, <2>3, <2>4, ClaimGive
<1>10. CASE cancelOrphan(c)
  <2>1. CASE Orphan(arg[c])
    BY <1>10, <2>1, ClaimOrphanLock DEF cancelOrphan
  <2>2. CASE ~Orphan(arg[c])
    <3>1. /\ Return(c) /\ pc[c] \notin Marked
          /\ UNCHANGED <<dbStatus, tracked, finalizing, enqueueMu>>
      BY <1>10, <2>2 DEF cancelOrphan
    <3>2. PICK l \in {"idle", "force"} : Moves(c, l)
      BY <1>0, <3>1, ReturnMoves
    <3> QED BY <1>0, <3>1, <3>2, ClaimPlain DEF IdsKept
  <2> QED BY <2>1, <2>2
<1>11. CASE OrphanGetRun(c)
  <2>1. CASE dbStatus[arg[c]] \in Active
    <3>1. /\ pc[c] = "getRun" /\ Goto(c, "orphanWrite") /\ arg' = arg
          /\ UNCHANGED <<dbStatus, tracked, finalizing, enqueueMu>>
      BY <1>11, <2>1 DEF OrphanGetRun
    <3>2. Moves(c, "orphanWrite") /\ IdsKept
      BY <1>0, <3>1, GotoMoves DEF IdsKept
    <3> QED BY <3>1, <3>2, ClaimOrphanStep
  <2>2. CASE ~(dbStatus[arg[c]] \in Active)
    <3>1. /\ pc[c] \in Locked /\ Return(c) /\ enqueueMu' = None
          /\ UNCHANGED <<dbStatus, tracked, finalizing>>
      BY <1>11, <2>2 DEF OrphanGetRun
    <3>2. PICK l \in {"idle", "force"} : Moves(c, l)
      BY <1>0, <3>1, ReturnMoves
    <3> QED BY <3>1, <3>2, ClaimRelease
  <2> QED BY <2>1, <2>2
<1>12. CASE OrphanWrite(c)
  <2>1. /\ pc[c] = "orphanWrite" /\ arg' = arg
        /\ setRunStatus(c, arg[c], "canceled", "orphanEnd", "orphanFail")
        /\ UNCHANGED <<tracked, finalizing, enqueueMu>>
    BY <1>12 DEF OrphanWrite
  <2>2. IdsKept /\ \E l \in {"orphanEnd", "orphanFail"} : Moves(c, l)
    BY <1>0, <2>1, WriteKeepsIds
  <2> QED BY <2>1, <2>2, ClaimOrphanStep
<1>13. CASE OrphanEnd(c)
  <2>1. /\ pc[c] \in Locked /\ Return(c) /\ enqueueMu' = None
        /\ UNCHANGED <<dbStatus, tracked, finalizing>>
    BY <1>13 DEF OrphanEnd
  <2>2. PICK l \in {"idle", "force"} : Moves(c, l)
    BY <1>0, <2>1, ReturnMoves
  <2> QED BY <2>1, <2>2, ClaimRelease
<1> QED
  BY <1>1, <1>2, <1>3, <1>4, <1>5, <1>6, <1>7, <1>8, <1>9, <1>10, <1>11,
     <1>12, <1>13 DEF CallStep, ClientStep

(* Each step of a worker and of its engine preserves the claim discipline: *)
(* only finishRun touches it.                                              *)
LEMMA ClaimWorker ==
  ASSUME TypeOK, ClaimInv, NEW q \in Queues, WorkerStep(q) \/ EngineStep(q)
  PROVE  ClaimInv'
<1> USE DEF Marked, Owning, Locked, dbVars, muVars, calls
<1>0. q \in Procs
  OBVIOUS
<1> DEFINE Plain == {"start", "finish", "running", "loop", "doneCount",
                     "publish", "test", "recover", "mark", "idle", "force"}
<1>1. ASSUME NEW l \in Plain, Moves(q, l), pc[q] \in Plain,
             UNCHANGED <<tracked, finalizing, enqueueMu>>, IdsKept
      PROVE  ClaimInv'
  BY <1>0, <1>1, ClaimPlain
<1>2. CASE executeGone(q) \/ finishGone(q) \/ finishQueue(q)
  <2>1. /\ Return(q) /\ pc[q] \in Plain
        /\ UNCHANGED <<dbStatus, tracked, finalizing, enqueueMu>>
    BY <1>2 DEF executeGone, finishGone, finishQueue
  <2>2. PICK l \in {"idle", "force"} : Moves(q, l)
    BY <1>0, <2>1, ReturnMoves
  <2> QED BY <1>1, <2>1, <2>2 DEF IdsKept
<1>3. CASE SetRunning(q)
  <2>1. /\ setRunStatus(q, arg[q], "running", "doneCount", "loop")
        /\ arg' = arg /\ pc[q] \in Plain
        /\ UNCHANGED <<tracked, finalizing, enqueueMu>>
    BY <1>3 DEF SetRunning
  <2>2. IdsKept /\ \E l \in {"doneCount", "loop"} : Moves(q, l)
    BY <1>0, <2>1, WriteKeepsIds
  <2> QED BY <1>1, <2>1, <2>2
<1>4. CASE Receive(q)
  <2>1. /\ Goto(q, "start") /\ pc[q] \in Plain
        /\ arg' = [arg EXCEPT ![q] = Head(chan[q])]
        /\ UNCHANGED <<dbStatus, tracked, finalizing, enqueueMu>>
    BY <1>4 DEF Receive
  <2>2. Moves(q, "start")
    BY <1>0, <2>1, GotoMoves
  <2> QED BY <1>1, <2>1, <2>2 DEF IdsKept
<1>5. CASE \/ executeCanceled(q) \/ execute(q) \/ doneCount(q)
           \/ PublishRunning(q) \/ NextTarget(q) \/ Recover(q)
           \/ markTargetDone(q) \/ EngineStep(q)
  <2>1. /\ arg' = arg /\ pc[q] \in Plain
        /\ UNCHANGED <<dbStatus, tracked, finalizing, enqueueMu>>
    BY <1>5 DEF executeCanceled, execute, doneCount, PublishRunning, NextTarget,
                Recover, markTargetDone, EngineStep, runTarget, runTargetPanics
  <2>2. PICK l \in Plain : Goto(q, l)
    BY <1>5 DEF executeCanceled, execute, doneCount, PublishRunning, NextTarget,
                Recover, markTargetDone, EngineStep, runTarget, runTargetPanics,
                AfterTarget, AfterPanic
  <2>3. Moves(q, l)
    BY <1>0, <2>1, <2>2, GotoMoves
  <2> QED BY <1>1, <2>1, <2>3 DEF IdsKept
<1>6. CASE finishRun(q)
  <2>1. /\ arg[q] \in tracked /\ claim(arg[q]) /\ Goto(q, "write")
        /\ arg' = arg /\ pc[q] \notin Marked
        /\ UNCHANGED <<dbStatus, enqueueMu>>
    BY <1>6 DEF finishRun
  <2>2. Moves(q, "write") /\ arg'[q] = arg[q]
    BY <1>0, <2>1, GotoMoves
  <2> QED BY <1>0, <2>1, <2>2, ClaimTake
<1> QED
  BY <1>2, <1>3, <1>4, <1>5, <1>6 DEF WorkerStep

(* A finisher owns its run until endFinalize gives it up. *)
LEMMA ClaimFinal ==
  ASSUME TypeOK, ClaimInv, NEW p \in Procs, FinalWrite(p) \/ endFinalize(p)
  PROVE  ClaimInv'
<1> USE DEF dbVars, muVars, calls
<1>1. CASE FinalWrite(p)
  <2>1. /\ setRunStatus(p, arg[p], goal[p], "settle", AfterWriteFails(p))
        /\ arg' = arg /\ pc[p] \in Owning
        /\ UNCHANGED <<tracked, finalizing, enqueueMu>>
    BY <1>1 DEF FinalWrite, Owning
  <2>2. goal[p] \in Active \cup Terminal
    BY DEF TypeOK
  <2>3. IdsKept /\ \E l \in {"settle", AfterWriteFails(p)} : Moves(p, l)
    BY <2>1, <2>2, WriteKeepsIds
  <2>4. {"settle", AfterWriteFails(p)} \subseteq Owning
    BY DEF AfterWriteFails, Owning
  <2> QED BY <2>1, <2>3, <2>4, ClaimOwn
<1>2. CASE endFinalize(p)
  <2>1. /\ Return(p) /\ finalizing' = finalizing \ {arg[p]}
        /\ tracked' = tracked
        /\ UNCHANGED <<dbStatus, enqueueMu>>
    BY <1>2 DEF endFinalize
  <2>2. arg[p] \in Runs /\ Owns(p, arg[p])
    BY <1>2 DEF endFinalize, TypeOK, PcOK, Vacant, Owns
  <2>3. PICK l \in {"idle", "force"} : Moves(p, l)
    BY <2>1, ReturnMoves
  <2>4. l \notin Marked
    BY DEF Marked, Owning, Locked
  <2> QED BY <2>1, <2>2, <2>3, <2>4, ClaimGive
<1> QED BY <1>1, <1>2

(* Shutdown, a crash and the restart preserve the claim discipline. *)
LEMMA ClaimMain ==
  ASSUME TypeOK, ClaimInv, ShutdownBegin \/ MainStep \/ Crash \/ ReapOrphanedRuns
  PROVE  ClaimInv'
<1> USE DEF Marked, Owning, Locked, dbVars, muVars, calls
<1>0. Main \in Procs
  OBVIOUS
<1>1. CASE \/ ShutdownBegin \/ ShutdownDrained \/ ShutdownGrace
           \/ ShutdownAwait \/ ShutdownReturn
  <2>1. /\ arg' = arg /\ pc[Main] \notin Marked
        /\ UNCHANGED <<dbStatus, tracked, finalizing, enqueueMu>>
    BY <1>1 DEF ShutdownBegin, ShutdownDrained, ShutdownGrace, ShutdownAwait,
                ShutdownReturn
  <2>2. PICK l \in {"drain", "stopped", "await", "force"} : Goto(Main, l)
    BY <1>1 DEF ShutdownBegin, ShutdownDrained, ShutdownGrace, ShutdownAwait,
                ShutdownReturn
  <2>3. Moves(Main, l) /\ l \notin Marked
    BY <1>0, <2>1, <2>2, GotoMoves
  <2> QED BY <1>0, <2>1, <2>3, ClaimPlain DEF IdsKept
<1>2. ASSUME NEW r \in Runs, claimForForceCancel(r) PROVE ClaimInv'
  <2>1. /\ r \in tracked /\ claim(r) /\ pc[Main] \notin Marked
        /\ Goto(Main, "write") /\ arg' = [arg EXCEPT ![Main] = r]
        /\ UNCHANGED <<dbStatus, enqueueMu>>
    BY <1>2 DEF claimForForceCancel
  <2>2. Moves(Main, "write") /\ arg'[Main] = r
    BY <1>0, <2>1, GotoMoves DEF TypeOK, PcOK
  <2> QED BY <1>0, <2>1, <2>2, ClaimTake
<1>3. ASSUME NEW r \in Runs, forceCancelGone(r) PROVE ClaimInv'
  BY <1>3 DEF forceCancelGone, ClaimInv, OneOwner, Owns, OrphanIsDead, Orphaning
<1>4. CASE Crash
  <2>1. /\ \A p \in Procs : pc'[p] \in {"down", "idle"}
        /\ tracked' = {} /\ finalizing' = {}
    BY <1>4 DEF Crash
  <2> QED BY <2>1 DEF ClaimInv, OneOwner, Owns, OrphanIsDead, Orphaning
<1>5. CASE ReapOrphanedRuns
  <2>1. /\ Goto(Main, "idle") /\ arg' = arg /\ pc[Main] \notin Marked
        /\ UNCHANGED <<tracked, finalizing, enqueueMu>>
    BY <1>5 DEF ReapOrphanedRuns
  <2>2. IdsKept
    BY <1>5 DEF ReapOrphanedRuns, Reaped, IdsKept
  <2>3. Moves(Main, "idle") /\ "idle" \notin Marked
    BY <1>0, <2>1, GotoMoves
  <2> QED BY <1>0, <2>1, <2>2, <2>3, ClaimPlain
<1> QED BY <1>1, <1>2, <1>3, <1>4, <1>5 DEF MainStep

(* The invariant behind the claim discipline is inductive. *)
LEMMA ClaimInductive ==
  /\ Init => ClaimInv
  /\ TypeOK /\ ClaimInv /\ [Next]_vars => ClaimInv'
<1>1. Init => ClaimInv
  BY DEF Init, ClaimInv, OneOwner, Owns, OrphanIsDead, Orphaning, Locked
<1>2. ASSUME TypeOK, ClaimInv, UNCHANGED vars PROVE ClaimInv'
  BY <1>2 DEF vars, dbVars, muVars, calls, ClaimInv, OneOwner, Owns,
              OrphanIsDead, Orphaning
<1>3. ASSUME TypeOK, ClaimInv, Next PROVE ClaimInv'
  BY <1>3, ClaimClient, ClaimWorker, ClaimFinal, ClaimMain DEF Next
<1> QED BY <1>1, <1>2, <1>3

(* At most one goroutine ever owns the right to write a run's terminal     *)
(* status, whatever Enqueue, Cancel, the workers and Shutdown do.          *)
THEOREM SingleOwner == Spec => []OneOwner
<1>1. ClaimInv => OneOwner
  BY DEF ClaimInv
<1> QED BY <1>1, InitTypeOK, NextTypeOK, ClaimInductive, PTL DEF Spec

(* cancelOrphan only ever cancels runs nobody in this process works on.    *)
THEOREM OrphansAreDead == Spec => []OrphanIsDead
<1>1. ClaimInv => OrphanIsDead
  BY DEF ClaimInv
<1> QED BY <1>1, InitTypeOK, NextTypeOK, ClaimInductive, PTL DEF Spec

(***************************************************************************)
(* Nothing is stranded.                                                    *)
(***************************************************************************)

(* The labels at which a process is bound to resolve the run in its hands. *)
Resolving == {"begin", "insert", "write"}

(* A step of p keeps every unresolved row in somebody's charge if it keeps *)
(* those in p's own charge and those in r.runs.                            *)
LEMMA StrandStep ==
  ASSUME TypeOK, NothingStranded, NEW p \in Procs, NEW l, Moves(p, l),
         Up' => Up, failures' = 0 => failures = 0,
         \A r \in Runs : dbStatus'[r] \in Active =>
            \/ r \in tracked' \/ (arg'[p] = r /\ l \in Resolving)
            \/ /\ dbStatus[r] \in Active /\ r \notin tracked
               /\ arg[p] = r => pc[p] \notin Resolving
  PROVE  NothingStranded'
<1> SUFFICES ASSUME Up', failures' = 0, NEW r \in Runs, dbStatus'[r] \in Active,
                    r \notin tracked'
             PROVE  \E o \in Procs : arg'[o] = r /\ pc'[o] \in Resolving
  BY DEF NothingStranded, Resolving
<1>0. pc'[p] = l
  BY DEF Moves, TypeOK, PcOK
<1> SUFFICES ASSUME ~(arg'[p] = r /\ l \in Resolving)
             PROVE  \E o \in Procs : arg'[o] = r /\ pc'[o] \in Resolving
  BY <1>0
<1>1. PICK o \in Procs : arg[o] = r /\ pc[o] \in Resolving
  BY DEF NothingStranded, Resolving
<1>2. o # p
  BY <1>1
<1>3. arg'[o] = r /\ pc'[o] \in Resolving
  BY <1>1, <1>2 DEF Moves, TypeOK, PcOK
<1> QED BY <1>3

(* What a status write can do to the rows. *)
LEMMA WriteEffect ==
  ASSUME TypeOK, NEW p \in Procs, NEW r \in Runs, NEW s \in Active \cup Terminal,
         NEW ok, NEW fail, setRunStatus(p, r, s, ok, fail)
  PROVE  /\ \A x \in Runs \ {r} : dbStatus'[x] = dbStatus[x]
         /\ \/ /\ dbStatus[r] \in Active /\ dbStatus'[r] = s
               /\ Goto(p, ok) /\ failures' = failures
            \/ /\ dbStatus[r] \notin Active /\ dbStatus' = dbStatus
               /\ Goto(p, fail) /\ failures' = failures
            \/ /\ dbStatus' = dbStatus /\ failures' = failures + 1
               /\ Goto(p, fail)
<1> USE DEF TypeOK
<1>1. CASE Updatable(dbStatus[r]) /\ dbStatus' = [dbStatus EXCEPT ![r] = s]
           /\ Goto(p, ok) /\ UNCHANGED failures
  BY <1>1 DEF Updatable
<1>2. CASE ~Updatable(dbStatus[r]) /\ Goto(p, fail) /\ UNCHANGED <<dbStatus, failures>>
  <2>1. dbStatus[r] \notin Active
    BY <1>2 DEF Updatable
  <2> QED BY <1>2, <2>1
<1>3. CASE failures' = failures + 1 /\ Goto(p, fail) /\ UNCHANGED dbStatus
  BY <1>3
<1> QED BY <1>1, <1>2, <1>3 DEF setRunStatus

(* Where a client is. *)
LEMMA ClientFacts ==
  ASSUME TypeOK, NEW c \in Clients
  PROVE  /\ c \in Procs /\ c # Main /\ c \notin Queues
         /\ arg[c] \in Runs \cup {None}
         /\ pc[c] \notin Vacant => arg[c] \in Runs
<1>1. c # Main /\ c \notin Queues
  BY ProcAssumption
<1>2. c \in Procs
  OBVIOUS
<1> QED BY <1>1, <1>2 DEF TypeOK, PcOK

(* A step of a process other than Main leaves the process up or down. *)
LEMMA MovesUp ==
  ASSUME TypeOK, NEW p \in Procs, p # Main, NEW l, Moves(p, l)
  PROVE  Up' <=> Up
  BY DEF Moves, Up, TypeOK, PcOK

(* No client step strands a run. *)
LEMMA StrandClient ==
  ASSUME TypeOK, NothingStranded, NEW c \in Clients, CallStep(c) \/ ClientStep(c)
  PROVE  NothingStranded'
<1> USE DEF dbVars, muVars, calls, bounds, Resolving
<1>0. /\ c \in Procs /\ arg[c] \in Runs \cup {None}
      /\ pc[c] \notin Vacant => arg[c] \in Runs
      /\ \A l : Moves(c, l) => (Up' <=> Up)
      /\ \A r : arg' = [arg EXCEPT ![c] = r] => arg'[c] = r
  BY ClientFacts, MovesUp DEF TypeOK, PcOK
<1>1. ASSUME NEW q \in Requests, EnqueueLock(c, q) PROVE NothingStranded'
  <2>1. Moves(c, "create")
    BY <1>0, <1>1, GotoMoves DEF EnqueueLock
  <2> QED BY <1>0, <1>1, <2>1, StrandStep DEF EnqueueLock
<1>2. ASSUME NEW r \in Runs, CancelStarted(c, r) PROVE NothingStranded'
  BY <1>2 DEF CancelStarted, NothingStranded, Up
<1>3. ASSUME NEW r \in Runs, CancelQueued(c, r) PROVE NothingStranded'
  <2>1. Moves(c, "write") /\ arg'[c] = r
    BY <1>0, <1>3, GotoMoves DEF CancelQueued
  <2> QED BY <1>0, <1>3, <2>1, StrandStep DEF CancelQueued, claim
<1>4. ASSUME NEW r \in Runs, CancelUntracked(c, r) PROVE NothingStranded'
  <2>1. Moves(c, "orphan")
    BY <1>0, <1>4, GotoMoves DEF CancelUntracked
  <2> QED BY <1>0, <1>4, <2>1, StrandStep DEF CancelUntracked
<1>5. CASE EnqueueCreate(c)
  <2>1. PICK r \in Runs :
          /\ dbStatus' = [dbStatus EXCEPT ![r] = "queued"]
          /\ arg' = [arg EXCEPT ![c] = r]
    BY <1>5 DEF EnqueueCreate
  <2>2. \A x \in Runs \ {r} : dbStatus'[x] = dbStatus[x]
    BY <2>1
  <2>3. Moves(c, "begin") /\ arg'[c] = r
    BY <1>0, <1>5, <2>1, GotoMoves DEF EnqueueCreate
  <2> QED BY <1>0, <1>5, <2>2, <2>3, StrandStep DEF EnqueueCreate
<1>6. CASE EnqueueCreateFails(c)
  <2>1. Moves(c, "idle") /\ failures' # 0
    BY <1>0, <1>6, GotoMoves DEF EnqueueCreateFails, TypeOK
  <2> QED BY <1>0, <1>6, <2>1, StrandStep DEF EnqueueCreateFails
<1>7. CASE beginFinalize(c)
  <2>1. Moves(c, "insert")
    BY <1>0, <1>7, GotoMoves DEF beginFinalize
  <2> QED BY <1>0, <1>7, <2>1, StrandStep DEF beginFinalize
<1>8. CASE EnqueueRefused(c) \/ EnqueueFull(c)
  <2>1. /\ Goto(c, "write") /\ arg' = arg
        /\ UNCHANGED <<dbStatus, tracked, failures>>
    BY <1>8 DEF EnqueueRefused, EnqueueFull
  <2>2. Moves(c, "write")
    BY <1>0, <2>1, GotoMoves
  <2> QED BY <1>0, <2>1, <2>2, StrandStep
<1>9. CASE EnqueueSend(c)
  <2>1. /\ Return(c) /\ tracked' = tracked \cup {arg[c]}
        /\ UNCHANGED <<dbStatus, failures>>
    BY <1>9 DEF EnqueueSend
  <2>2. PICK l \in {"idle", "force"} : Moves(c, l)
    BY <1>0, <2>1, ReturnMoves
  <2> QED BY <1>0, <2>1, <2>2, StrandStep
<1>10. CASE cancelOrphan(c) \/ OrphanGetRun(c) \/ OrphanEnd(c)
  <2>1. pc[c] \notin Resolving /\ UNCHANGED <<dbStatus, tracked, failures>>
    BY <1>10 DEF cancelOrphan, OrphanGetRun, OrphanEnd
  <2>2. Return(c) \/ (\E l \in {"getRun", "orphanWrite"} : Goto(c, l) /\ arg' = arg)
    BY <1>10 DEF cancelOrphan, OrphanGetRun, OrphanEnd
  <2>3. PICK l : Moves(c, l)
    BY <1>0, <2>2, ReturnMoves, GotoMoves
  <2> QED BY <1>0, <2>1, <2>3, StrandStep
<1>11. CASE OrphanWrite(c)
  <2>1. arg[c] \in Runs /\ pc[c] \notin Resolving
    BY <1>0, <1>11 DEF OrphanWrite, Vacant
  <2>2. /\ setRunStatus(c, arg[c], "canceled", "orphanEnd", "orphanFail")
        /\ UNCHANGED <<arg, tracked>>
    BY <1>11 DEF OrphanWrite
  <2>3. \A x \in Runs : dbStatus'[x] \in Active => dbStatus[x] \in Active
    BY <1>0, <2>1, <2>2, WriteEffect
  <2>4. failures' = 0 => failures = 0
    BY <2>2 DEF setRunStatus, TypeOK
  <2>5. PICK l : Moves(c, l)
    BY <1>0, <2>2, WriteKeepsIds
  <2> QED BY <1>0, <2>1, <2>2, <2>3, <2>4, <2>5, StrandStep
<1> QED
  BY <1>1, <1>2, <1>3, <1>4, <1>5, <1>6, <1>7, <1>8, <1>9, <1>10, <1>11
  DEF CallStep, ClientStep

(* No step of a worker or its engine strands a run. *)
LEMMA StrandWorker ==
  ASSUME TypeOK, NothingStranded, NEW q \in Queues, WorkerStep(q) \/ EngineStep(q)
  PROVE  NothingStranded'
<1> USE DEF dbVars, muVars, calls, bounds, Resolving
<1>0. q \in Procs /\ \A l : Moves(q, l) => (Up' <=> Up)
  BY ProcAssumption, MovesUp
<1>1. CASE executeGone(q) \/ finishGone(q) \/ finishQueue(q)
  <2>1. /\ Return(q) /\ pc[q] \notin Resolving
        /\ UNCHANGED <<dbStatus, tracked, failures>>
    BY <1>1 DEF executeGone, finishGone, finishQueue
  <2>2. PICK l \in {"idle", "force"} : Moves(q, l)
    BY <1>0, <2>1, ReturnMoves
  <2> QED BY <1>0, <2>1, <2>2, StrandStep
<1>2. CASE SetRunning(q)
  <2>1. arg[q] \in Runs /\ pc[q] \notin Resolving
    BY <1>0, <1>2 DEF SetRunning, Vacant, TypeOK, PcOK
  <2>2. /\ setRunStatus(q, arg[q], "running", "doneCount", "loop")
        /\ UNCHANGED <<arg, tracked>>
    BY <1>2 DEF SetRunning
  <2>3. \A x \in Runs : dbStatus'[x] \in Active => dbStatus[x] \in Active
    BY <1>0, <2>1, <2>2, WriteEffect
  <2>4. failures' = 0 => failures = 0
    BY <2>2 DEF setRunStatus, TypeOK
  <2>5. PICK l : Moves(q, l)
    BY <1>0, <2>2, WriteKeepsIds
  <2> QED BY <1>0, <2>1, <2>2, <2>3, <2>4, <2>5, StrandStep
<1>3. CASE Receive(q)
  <2>1. /\ Goto(q, "start") /\ pc[q] \notin Resolving
        /\ arg' = [arg EXCEPT ![q] = Head(chan[q])]
        /\ UNCHANGED <<dbStatus, tracked, failures>>
    BY <1>3 DEF Receive
  <2>2. Moves(q, "start")
    BY <1>0, <2>1, GotoMoves
  <2> QED BY <1>0, <2>1, <2>2, StrandStep
<1>4. CASE \/ executeCanceled(q) \/ execute(q) \/ doneCount(q)
           \/ PublishRunning(q) \/ NextTarget(q) \/ Recover(q)
           \/ markTargetDone(q) \/ EngineStep(q)
  <2>1. arg' = arg /\ pc[q] \notin Resolving /\ UNCHANGED <<dbStatus, tracked>>
    BY <1>4 DEF executeCanceled, execute, doneCount, PublishRunning, NextTarget,
                Recover, markTargetDone, EngineStep, runTarget, runTargetPanics
  <2>2. PICK l : Goto(q, l)
    BY <1>4 DEF executeCanceled, execute, doneCount, PublishRunning, NextTarget,
                Recover, markTargetDone, EngineStep, runTarget, runTargetPanics
  <2>3. failures' = failures \/ failures' = failures + 1
    BY <1>4 DEF executeCanceled, execute, doneCount, PublishRunning, NextTarget,
                Recover, markTargetDone, EngineStep, runTarget, runTargetPanics
  <2>4. failures' = 0 => failures = 0
    BY <2>3 DEF TypeOK
  <2>5. Moves(q, l)
    BY <1>0, <2>1, <2>2, GotoMoves
  <2> QED BY <1>0, <2>1, <2>4, <2>5, StrandStep
<1>5. CASE finishRun(q)
  <2>1. /\ claim(arg[q]) /\ Goto(q, "write") /\ arg' = arg
        /\ UNCHANGED <<dbStatus, failures>>
    BY <1>5 DEF finishRun
  <2>2. Moves(q, "write")
    BY <1>0, <2>1, GotoMoves
  <2> QED BY <1>0, <2>1, <2>2, StrandStep DEF claim
<1> QED BY <1>1, <1>2, <1>3, <1>4, <1>5 DEF WorkerStep

(* The owner of a run leaves it only once its terminal status is written,  *)
(* or the write has failed.                                                *)
LEMMA StrandFinal ==
  ASSUME TypeOK, NothingStranded, NEW p \in Procs, FinalWrite(p) \/ endFinalize(p)
  PROVE  NothingStranded'
<1> USE DEF dbVars, muVars, calls, bounds, Resolving
<1>1. CASE FinalWrite(p)
  <2>1. arg[p] \in Runs /\ goal[p] \in Terminal
    BY <1>1 DEF FinalWrite, Vacant, TypeOK, PcOK
  <2>2. /\ setRunStatus(p, arg[p], goal[p], "settle", AfterWriteFails(p))
        /\ UNCHANGED <<arg, tracked>> /\ pc[p] = "write"
    BY <1>1 DEF FinalWrite
  <2>3. PICK l \in {"settle", AfterWriteFails(p)} : Moves(p, l)
    BY <2>1, <2>2, WriteKeepsIds
  <2>4. Up' <=> Up
    BY <2>2, <2>3 DEF Moves, Up, AfterWriteFails, TypeOK, PcOK
  <2>5. failures' = 0 => failures = 0
    BY <2>2 DEF setRunStatus, TypeOK
  <2>6. ASSUME failures' = 0, NEW x \in Runs, dbStatus'[x] \in Active
        PROVE  dbStatus[x] \in Active /\ x # arg[p]
    <3>1. failures' # failures + 1
      BY <2>6 DEF TypeOK
    <3> QED BY <2>1, <2>2, <2>6, <3>1, WriteEffect
  <2>7. CASE failures' = 0
    BY <2>2, <2>3, <2>4, <2>5, <2>6, <2>7, StrandStep
  <2>8. CASE failures' # 0
    BY <2>8 DEF NothingStranded
  <2> QED BY <2>7, <2>8
<1>2. CASE endFinalize(p)
  <2>1. /\ Return(p) /\ pc[p] \in {"settle", "resign"}
        /\ UNCHANGED <<dbStatus, tracked, failures>>
    BY <1>2 DEF endFinalize
  <2>2. PICK l \in {"idle", "force"} : Moves(p, l)
    BY <2>1, ReturnMoves
  <2>3. Up' <=> Up
    BY <2>1, <2>2 DEF Moves, Up, TypeOK, PcOK
  <2> QED BY <2>1, <2>2, <2>3, StrandStep
<1> QED BY <1>1, <1>2

(* Shutdown claims what it takes out of r.runs; a restart begins with the  *)
(* reaping of every row a dead process left.                               *)
LEMMA StrandMain ==
  ASSUME TypeOK, NothingStranded,
         ShutdownBegin \/ MainStep \/ Crash \/ ReapOrphanedRuns
  PROVE  NothingStranded'
<1> USE DEF dbVars, muVars, calls, bounds, Resolving
<1>0. Main \in Procs
  OBVIOUS
<1>1. CASE \/ ShutdownBegin \/ ShutdownDrained \/ ShutdownGrace
           \/ ShutdownAwait \/ ShutdownReturn
  <2>1. /\ arg' = arg /\ pc[Main] \notin Resolving /\ Up
        /\ UNCHANGED <<dbStatus, tracked, failures>>
    BY <1>1 DEF ShutdownBegin, ShutdownDrained, ShutdownGrace, ShutdownAwait,
                ShutdownReturn, Up
  <2>2. PICK l : Goto(Main, l)
    BY <1>1 DEF ShutdownBegin, ShutdownDrained, ShutdownGrace, ShutdownAwait,
                ShutdownReturn
  <2>3. Moves(Main, l)
    BY <1>0, <2>1, <2>2, GotoMoves
  <2> QED BY <1>0, <2>1, <2>3, StrandStep
<1>2. ASSUME NEW r \in Runs, claimForForceCancel(r) PROVE NothingStranded'
  <2>1. /\ claim(r) /\ Goto(Main, "write") /\ arg' = [arg EXCEPT ![Main] = r]
        /\ pc[Main] \notin Resolving /\ Up /\ UNCHANGED <<dbStatus, failures>>
    BY <1>2 DEF claimForForceCancel, Up
  <2>2. Moves(Main, "write") /\ arg'[Main] = r
    BY <1>0, <2>1, GotoMoves DEF TypeOK, PcOK
  <2> QED BY <1>0, <2>1, <2>2, StrandStep DEF claim
<1>3. ASSUME NEW r \in Runs, forceCancelGone(r) PROVE NothingStranded'
  BY <1>3 DEF forceCancelGone, NothingStranded, Up
<1>4. CASE Crash
  BY <1>0, <1>4 DEF Crash, NothingStranded, Up
<1>5. CASE ReapOrphanedRuns
  BY <1>5 DEF ReapOrphanedRuns, Reaped, NothingStranded
<1> QED BY <1>1, <1>2, <1>3, <1>4, <1>5 DEF MainStep

(* As long as no store write has failed, a queued or running row always    *)
(* has a goroutine, or r.runs, that will resolve it.                       *)
THEOREM NoRunStranded == Spec => []NothingStranded
<1>1. Init => NothingStranded
  BY DEF Init, NothingStranded
<1>2. ASSUME TypeOK, NothingStranded, [Next]_vars PROVE NothingStranded'
  <2>1. CASE UNCHANGED vars
    BY <1>2, <2>1 DEF vars, dbVars, muVars, bounds, NothingStranded, Up
  <2>2. CASE Next
    BY <1>2, <2>2, StrandClient, StrandWorker, StrandFinal, StrandMain DEF Next
  <2> QED BY <1>2, <2>1, <2>2
<1> QED BY <1>1, <1>2, TypeCorrect, PTL DEF Spec

(***************************************************************************)
(* Which queues hold a run's job.                                          *)
(***************************************************************************)

(* The labels of a process that writes and publishes a terminal status.    *)
Final == {"write", "settle", "resign"}

Occurs(s, r) == \E i \in DOMAIN s : s[i] = r
Distinct(s)  == \A i, j \in DOMAIN s : s[i] = s[j] => i = j

(* The run whose job the worker of queue q has received and not finished.  *)
InHand(q) == IF pc[q] \in Final THEN None ELSE arg[q]

(* A queue has at most one job of a run. *)
JobsOnce == \A q \in Queues : Distinct(chan[q]) /\ ~Occurs(chan[q], InHand(q))

(* The pending counts are right because a queue never has two jobs of one  *)
(* run, a run has no job before Enqueue sends them, a tracked run still    *)
(* has one, and no run is created without targets.                         *)
JobInv ==
  /\ JobsOnce
  /\ \A r \in Runs : dbStatus[r] = "none" => \A q \in Queues : ~Holds(q, r)
  /\ \A c \in Clients : pc[c] \in {"begin", "insert"} =>
       \A q \in Queues : ~Holds(q, arg[c])
  /\ PendingMatchesJobs
  /\ \A r \in tracked : \E q \in Queues : Holds(q, r)
  /\ \A c \in Clients : pc[c] = "create" =>
       filterRunnable(req[c].targets, req[c].trigger) # {}
  /\ \A r \in Runs : dbStatus[r] # "none" => plan[r] # {}

(* What sending and receiving do to the occurrences in a channel. *)
LEMMA OccursAppend ==
  ASSUME NEW S, NEW s \in Seq(S), NEW x \in S
  PROVE  /\ \A r : Occurs(Append(s, x), r) <=> Occurs(s, r) \/ r = x
         /\ Distinct(s) /\ ~Occurs(s, x) => Distinct(Append(s, x))
<1>1. /\ DOMAIN Append(s, x) = DOMAIN s \cup {Len(s) + 1}
      /\ \A i \in DOMAIN s : Append(s, x)[i] = s[i]
      /\ Append(s, x)[Len(s) + 1] = x
  OBVIOUS
<1> QED BY <1>1 DEF Occurs, Distinct

(* Who occurs in a queue once its head is taken. *)
LEMMA OccursTail ==
  ASSUME NEW S, NEW s \in Seq(S), s # <<>>
  PROVE  /\ \A r : Occurs(s, r) <=> r = Head(s) \/ Occurs(Tail(s), r)
         /\ Distinct(s) => Distinct(Tail(s)) /\ ~Occurs(Tail(s), Head(s))
<1>1. /\ Len(s) \in Nat /\ Len(s) # 0 /\ DOMAIN s = 1 .. Len(s)
      /\ DOMAIN Tail(s) = 1 .. (Len(s) - 1)
      /\ \A i \in DOMAIN Tail(s) : Tail(s)[i] = s[i + 1]
      /\ Head(s) = s[1]
  OBVIOUS
<1>2. ASSUME NEW r, Occurs(s, r) PROVE r = Head(s) \/ Occurs(Tail(s), r)
  <2>1. PICK i \in 1 .. Len(s) : s[i] = r
    BY <1>1, <1>2 DEF Occurs
  <2>2. CASE i = 1
    BY <1>1, <2>1, <2>2
  <2>3. CASE i # 1
    <3>1. i - 1 \in DOMAIN Tail(s) /\ Tail(s)[i - 1] = r
      BY <1>1, <2>1, <2>3
    <3> QED BY <3>1 DEF Occurs
  <2> QED BY <2>2, <2>3
<1>3. ASSUME NEW r, r = Head(s) \/ Occurs(Tail(s), r) PROVE Occurs(s, r)
  <2>1. CASE r = Head(s)
    BY <1>1, <2>1 DEF Occurs
  <2>2. CASE Occurs(Tail(s), r)
    BY <1>1, <2>2 DEF Occurs
  <2> QED BY <1>3, <2>1, <2>2
<1>4. ASSUME Distinct(s) PROVE Distinct(Tail(s)) /\ ~Occurs(Tail(s), Head(s))
  <2>1. Distinct(Tail(s))
    BY <1>1, <1>4 DEF Distinct
  <2>2. ~Occurs(Tail(s), Head(s))
    BY <1>1, <1>4 DEF Distinct, Occurs
  <2> QED BY <2>1, <2>2
<1> QED BY <1>2, <1>3, <1>4

(* Holds in terms of the channel and the worker's hands. *)
LEMMA HoldsMeans ==
  ASSUME NEW q \in Queues, NEW r \in Runs
  PROVE  /\ Holds(q, r) <=> Occurs(chan[q], r) \/ InHand(q) = r
         /\ Holds(q, r)' <=> Occurs(chan'[q], r) \/ InHand(q)' = r
<1>1. r # None
  BY ProcAssumption
<1> QED BY <1>1 DEF Holds, Occurs, InHand, Final

(* The step of one process changes who holds run x's jobs, and nothing     *)
(* else that JobInv speaks of.                                             *)
LEMMA JobChange ==
  ASSUME TypeOK, TypeOK', JobInv, NEW x \in Runs, JobsOnce',
         \A r \in Runs \ {x}, o \in Queues : Holds(o, r)' <=> Holds(o, r),
         \A r \in Runs \ {x} : r \in tracked' =>
            r \in tracked /\ st'[r].pending = st[r].pending,
         \A r \in Runs : dbStatus'[r] = "none" <=> dbStatus[r] = "none",
         plan' = plan, req' = req,
         \A c \in Clients :
            /\ pc'[c] \in {"begin", "insert"} =>
                 pc[c] \in {"begin", "insert"} /\ arg'[c] = arg[c] /\ arg[c] # x
            /\ pc'[c] = "create" => pc[c] = "create",
         dbStatus[x] # "none",
         x \in tracked' =>
            /\ st'[x].pending = Cardinality({o \in Queues : Holds(o, x)'})
            /\ \E o \in Queues : Holds(o, x)'
  PROVE  JobInv'
<1>1. \A r \in Runs : dbStatus'[r] = "none" => \A q \in Queues : ~Holds(q, r)'
  BY DEF JobInv
<1>2. ASSUME NEW c \in Clients, pc'[c] \in {"begin", "insert"}, NEW q \in Queues
      PROVE  ~Holds(q, arg[c])'
  <2>1. arg[c] \in Runs \ {x} /\ arg'[c] = arg[c]
    BY <1>2, ClientFacts DEF Vacant
  <2> QED BY <1>2, <2>1 DEF JobInv
<1>3. ASSUME NEW r \in tracked'
      PROVE  /\ st'[r].pending = Cardinality({q \in Queues : Holds(q, r)'})
             /\ \E q \in Queues : Holds(q, r)'
  <2>1. CASE r = x
    BY <1>3, <2>1
  <2>2. CASE r # x
    <3>0. r \in Runs
      BY DEF TypeOK
    <3>1. r \in Runs /\ r \in tracked /\ st'[r].pending = st[r].pending
      BY <2>2, <3>0
    <3>2. {q \in Queues : Holds(q, r)'} = {q \in Queues : Holds(q, r)}
      BY <2>2, <3>1
    <3>3. \E q \in Queues : Holds(q, r)'
      BY <2>2, <3>1 DEF JobInv
    <3> QED BY <3>1, <3>2, <3>3 DEF JobInv, PendingMatchesJobs
  <2> QED BY <2>1, <2>2
<1>4. \A c \in Clients : pc'[c] = "create" =>
        filterRunnable(req'[c].targets, req'[c].trigger) # {}
  BY DEF JobInv
<1>5. \A r \in Runs : dbStatus'[r] # "none" => plan'[r] # {}
  BY DEF JobInv
<1> QED BY <1>1, <1>2, <1>3, <1>4, <1>5 DEF JobInv, PendingMatchesJobs, filterRunnable

(* A step that moves no job. *)
LEMMA JobQuiet ==
  ASSUME TypeOK, TypeOK', JobInv, chan' = chan, plan' = plan,
         \A q \in Queues : InHand(q)' = InHand(q),
         \A r \in tracked' : r \in tracked /\ st'[r].pending = st[r].pending,
         \A r \in Runs : dbStatus'[r] = "none" <=> dbStatus[r] = "none",
         \A c \in Clients :
            /\ pc'[c] \in {"begin", "insert"} =>
                 pc[c] \in {"begin", "insert"} /\ arg'[c] = arg[c]
            /\ pc'[c] = "create" =>
                 \/ pc[c] = "create" /\ req'[c] = req[c]
                 \/ filterRunnable(req'[c].targets, req'[c].trigger) # {}
  PROVE  JobInv'
<1>1. \A q \in Queues, r \in Runs : Holds(q, r)' <=> Holds(q, r)
  BY HoldsMeans
<1>2. JobsOnce'
  BY DEF JobInv, JobsOnce
<1>3. \A r \in Runs : dbStatus'[r] = "none" => \A q \in Queues : ~Holds(q, r)'
  BY <1>1 DEF JobInv
<1>4. ASSUME NEW c \in Clients, pc'[c] \in {"begin", "insert"}, NEW q \in Queues
      PROVE  ~Holds(q, arg[c])'
  <2>1. arg[c] \in Runs /\ arg'[c] = arg[c]
    BY <1>4, ClientFacts DEF Vacant
  <2> QED BY <1>1, <1>4, <2>1 DEF JobInv
<1>5. ASSUME NEW r \in tracked'
      PROVE  /\ st'[r].pending = Cardinality({q \in Queues : Holds(q, r)'})
             /\ \E q \in Queues : Holds(q, r)'
  <2>1. r \in Runs
    BY DEF TypeOK
  <2>2. {q \in Queues : Holds(q, r)'} = {q \in Queues : Holds(q, r)}
    BY <1>1, <2>1
  <2>3. \E q \in Queues : Holds(q, r)'
    BY <1>1, <2>1 DEF JobInv
  <2> QED BY <2>2, <2>3 DEF JobInv, PendingMatchesJobs
<1>6. \A c \in Clients : pc'[c] = "create" =>
        filterRunnable(req'[c].targets, req'[c].trigger) # {}
  BY DEF JobInv
<1>7. \A r \in Runs : dbStatus'[r] # "none" => plan'[r] # {}
  BY DEF JobInv
<1> QED BY <1>2, <1>3, <1>4, <1>5, <1>6, <1>7 DEF JobInv, PendingMatchesJobs, filterRunnable

(* Receive moves a job from the channel to the worker's hands. *)
LEMMA JobReceive ==
  ASSUME TypeOK, TypeOK', JobInv, NEW q \in Queues, Receive(q)
  PROVE  JobInv'
<1>0. chan[q] \in Seq(Runs) /\ chan[q] # <<>> /\ q \in Procs
  BY DEF TypeOK, Receive
<1> PICK x \in Runs : x = Head(chan[q])
  BY <1>0
<1>1. /\ chan' = [chan EXCEPT ![q] = Tail(chan[q])]
      /\ pc' = [pc EXCEPT ![q] = "start"] /\ pc[q] = "idle"
      /\ arg' = [arg EXCEPT ![q] = x]
      /\ UNCHANGED <<tracked, st, dbStatus, plan, req>>
  BY DEF Receive, Goto, dbVars, calls
<1>2. /\ InHand(q) = None /\ InHand(q)' = x
      /\ \A o \in Queues \ {q} : InHand(o)' = InHand(o) /\ chan'[o] = chan[o]
      /\ chan'[q] = Tail(chan[q])
  BY <1>0, <1>1 DEF InHand, Final, TypeOK, PcOK, Vacant
<1>3. /\ \A r : Occurs(chan[q], r) <=> r = x \/ Occurs(Tail(chan[q]), r)
      /\ Distinct(Tail(chan[q])) /\ ~Occurs(Tail(chan[q]), x)
  BY <1>0, OccursTail DEF JobInv, JobsOnce
<1>4. JobsOnce'
  BY <1>2, <1>3 DEF JobInv, JobsOnce
<1>5. ASSUME NEW o \in Queues, NEW r \in Runs PROVE Holds(o, r)' <=> Holds(o, r)
  <2>0. r # None
    BY ProcAssumption
  <2>1. CASE o = q
    BY <1>2, <1>3, <2>0, <2>1, HoldsMeans
  <2>2. CASE o # q
    BY <1>2, <2>2, HoldsMeans
  <2> QED BY <2>1, <2>2
<1>6. Holds(q, x)
  BY <1>0, <1>3, HoldsMeans
<1>7. {o \in Queues : Holds(o, x)'} = {o \in Queues : Holds(o, x)}
  BY <1>0, <1>5
<1>8. dbStatus[x] # "none"
  BY <1>0, <1>6 DEF JobInv
<1>9. ASSUME NEW c \in Clients
      PROVE  /\ pc'[c] = pc[c] /\ arg'[c] = arg[c]
             /\ pc[c] \in {"begin", "insert"} => arg[c] # x
  BY <1>1, <1>6, ProcAssumption DEF TypeOK, PcOK, JobInv
<1>10. x \in tracked' =>
          /\ st'[x].pending = Cardinality({o \in Queues : Holds(o, x)'})
          /\ \E o \in Queues : Holds(o, x)'
  <2>1. x \in tracked => st[x].pending = Cardinality({o \in Queues : Holds(o, x)})
    BY DEF JobInv, PendingMatchesJobs
  <2>2. Holds(q, x)'
    BY <1>5, <1>6
  <2> QED BY <1>1, <1>7, <2>1, <2>2
<1>11. \A r \in Runs \ {x} : r \in tracked' =>
          r \in tracked /\ st'[r].pending = st[r].pending
  BY <1>1
<1>12. \A r \in Runs : dbStatus'[r] = "none" <=> dbStatus[r] = "none"
  BY <1>1
<1>13. \A c \in Clients :
         /\ pc'[c] \in {"begin", "insert"} =>
              pc[c] \in {"begin", "insert"} /\ arg'[c] = arg[c] /\ arg[c] # x
         /\ pc'[c] = "create" => pc[c] = "create"
  BY <1>9
<1>14. plan' = plan /\ req' = req
  BY <1>1
<1>15. \A r \in Runs \ {x}, o \in Queues : Holds(o, r)' <=> Holds(o, r)
  BY <1>5
<1> QED BY <1>4, <1>8, <1>10, <1>11, <1>12, <1>13, <1>14, <1>15, JobChange

(* The worker of q gives up the job it has in its hands. *)
GivesUp(q) ==
  /\ chan' = chan /\ InHand(q)' = None
  /\ \A o \in Queues \ {q} : InHand(o)' = InHand(o)

(* A queue that gives its job up is the only one that stops holding that run. *)
LEMMA HoldsGivenUp ==
  ASSUME TypeOK, JobInv, NEW q \in Queues, GivesUp(q),
         NEW x \in Runs, InHand(q) = x
  PROVE  /\ JobsOnce'
         /\ \A r \in Runs \ {x}, o \in Queues : Holds(o, r)' <=> Holds(o, r)
         /\ Holds(q, x) /\ dbStatus[x] # "none"
         /\ {o \in Queues : Holds(o, x)'} = {o \in Queues : Holds(o, x)} \ {q}
         /\ \A c \in Clients : pc[c] \in {"begin", "insert"} => arg[c] # x
<1> USE DEF GivesUp
<1>0. ASSUME NEW o \in Queues PROVE ~Occurs(chan[o], None)
  <2>1. chan[o] \in Seq(Runs)
    BY DEF TypeOK
  <2>2. \A i \in DOMAIN chan[o] : chan[o][i] \in Runs
    BY <2>1
  <2> QED BY <2>2, ProcAssumption DEF Occurs
<1>1. JobsOnce'
  <2> SUFFICES ASSUME NEW o \in Queues
               PROVE  Distinct(chan[o]) /\ ~Occurs(chan[o], InHand(o)')
    BY DEF JobsOnce
  <2> QED BY <1>0 DEF JobInv, JobsOnce
<1>2. Holds(q, x)
  BY HoldsMeans
<1>3. ASSUME NEW r \in Runs, NEW o \in Queues, r # x \/ o # q
      PROVE  Holds(o, r)' <=> Holds(o, r)
  <2>0. r # None
    BY ProcAssumption
  <2> QED BY <1>3, <2>0, HoldsMeans
<1>4. ~Holds(q, x)'
  <2>0. x # None /\ ~Occurs(chan[q], x)
    BY ProcAssumption DEF JobInv, JobsOnce
  <2> QED BY <2>0, HoldsMeans
<1>5. dbStatus[x] # "none"
  BY <1>2 DEF JobInv
<1>6. \A c \in Clients : pc[c] \in {"begin", "insert"} => arg[c] # x
  BY <1>2 DEF JobInv
<1>7. {o \in Queues : Holds(o, x)'} = {o \in Queues : Holds(o, x)} \ {q}
  BY <1>3, <1>4
<1> QED BY <1>1, <1>2, <1>3, <1>5, <1>6, <1>7

(* A job is given up: it was its run's last, the run is no longer tracked, *)
(* or the pending count goes down by one and stays positive.               *)
LEMMA JobGivenUp ==
  ASSUME TypeOK, TypeOK', JobInv, NEW q \in Queues, GivesUp(q),
         NEW x \in Runs, InHand(q) = x,
         \A r \in Runs \ {x} : r \in tracked' =>
            r \in tracked /\ st'[r].pending = st[r].pending,
         UNCHANGED <<dbStatus, plan, req>>,
         \A c \in Clients : pc'[c] = pc[c] /\ arg'[c] = arg[c],
         x \in tracked' =>
            /\ x \in tracked
            /\ st'[x].pending = st[x].pending - 1 /\ st'[x].pending > 0
  PROVE  JobInv'
<1> DEFINE H == {o \in Queues : Holds(o, x)}
           G == {o \in Queues : Holds(o, x)'}
<1>1. /\ JobsOnce'
      /\ \A r \in Runs \ {x}, o \in Queues : Holds(o, r)' <=> Holds(o, r)
      /\ Holds(q, x) /\ dbStatus[x] # "none"
      /\ G = H \ {q}
      /\ \A c \in Clients : pc[c] \in {"begin", "insert"} => arg[c] # x
  BY HoldsGivenUp
<1>2. IsFiniteSet(H) /\ q \in H
  BY <1>1, FS_Subset, TargetAssumption
<1>3. x \in tracked => st[x].pending = Cardinality(H)
  BY DEF JobInv, PendingMatchesJobs
<1>4. Cardinality(G) = Cardinality(H) - 1 /\ IsFiniteSet(G)
  <2>1. IsFiniteSet(H \ {q}) /\ Cardinality(H \ {q}) = Cardinality(H) - 1
    BY <1>2, FS_RemoveElement
  <2> QED BY <1>1, <2>1
<1>5. G # {} \/ Cardinality(G) = 0
  BY FS_EmptySet
<1>6. x \in tracked' =>
        /\ st'[x].pending = Cardinality({o \in Queues : Holds(o, x)'})
        /\ \E o \in Queues : Holds(o, x)'
  <2> SUFFICES ASSUME x \in tracked'
               PROVE  st'[x].pending = Cardinality(G) /\ G # {}
    OBVIOUS
  <2>1. st'[x].pending = Cardinality(G)
    BY <1>3, <1>4
  <2> QED BY <1>5, <2>1
<1>7. \A r \in Runs : dbStatus'[r] = "none" <=> dbStatus[r] = "none"
  OBVIOUS
<1>8. \A c \in Clients :
         /\ pc'[c] \in {"begin", "insert"} =>
              pc[c] \in {"begin", "insert"} /\ arg'[c] = arg[c] /\ arg[c] # x
         /\ pc'[c] = "create" => pc[c] = "create"
  BY <1>1
<1> HIDE DEF H, G
<1> QED BY <1>1, <1>6, <1>7, <1>8, JobChange

(* What a worker's step leaves alone. *)
LEMMA WorkerMoves ==
  ASSUME TypeOK, NEW q \in Queues, NEW l, Moves(q, l)
  PROVE  /\ q \in Procs /\ pc'[q] = l
         /\ \A c \in Clients : pc'[c] = pc[c] /\ arg'[c] = arg[c]
         /\ \A o \in Queues \ {q} : InHand(o)' = InHand(o)
<1>1. \A c \in Clients : c \in Procs /\ c # q
  BY ProcAssumption
<1>2. \A o \in Procs \ {q} : pc'[o] = pc[o] /\ arg'[o] = arg[o]
  BY DEF Moves, TypeOK, PcOK
<1>3. \A o \in Queues \ {q} : InHand(o)' = InHand(o)
  BY <1>2 DEF InHand
<1>4. q \in Procs /\ pc'[q] = l
  BY DEF Moves, TypeOK, PcOK
<1> QED BY <1>1, <1>2, <1>3, <1>4

(* The four ways a worker gives up a job. *)
LEMMA JobFinish ==
  ASSUME TypeOK, TypeOK', JobInv, NEW q \in Queues,
         executeGone(q) \/ finishGone(q) \/ finishQueue(q) \/ finishRun(q)
  PROVE  JobInv'
<1> USE DEF dbVars, muVars, calls
<1>0. q \in Procs /\ pc[q] \in {"start", "finish"} /\ q # Main
  BY ProcAssumption DEF executeGone, finishGone, finishQueue, finishRun
<1> PICK x \in Runs : x = arg[q]
  BY <1>0 DEF TypeOK, PcOK, Vacant
<1>1. InHand(q) = x
  BY <1>0 DEF InHand, Final
<1>2. UNCHANGED <<dbStatus, plan, req, chan>>
  BY DEF executeGone, finishGone, finishQueue, finishRun
<1>3. CASE executeGone(q) \/ finishGone(q) \/ finishQueue(q)
  <2>1. Return(q)
    BY <1>3 DEF executeGone, finishGone, finishQueue
  <2>2. pc' = [pc EXCEPT ![q] = "idle"] /\ arg' = [arg EXCEPT ![q] = None]
    BY <1>0, <2>1 DEF Return
  <2>3. Moves(q, "idle") /\ InHand(q)' = None
    BY <1>0, <2>2 DEF Moves, InHand, TypeOK, PcOK
  <2>4. GivesUp(q) /\ \A c \in Clients : pc'[c] = pc[c] /\ arg'[c] = arg[c]
    BY <1>2, <2>3, WorkerMoves DEF GivesUp
  <2>5. tracked' = tracked
    BY <1>3 DEF executeGone, finishGone, finishQueue
  <2>6. CASE x \notin tracked
    <3>1. st' = st
      BY <1>3, <2>6 DEF executeGone, finishGone, finishQueue
    <3> QED BY <1>1, <1>2, <2>4, <2>5, <2>6, <3>1, JobGivenUp
  <2>7. CASE x \in tracked
    <3>1. st' = [st EXCEPT ![x] = Outcome(x, q)] /\ ~LastJob(x)
      BY <1>3, <2>7 DEF executeGone, finishGone, finishQueue
    <3>2. \A r \in Runs \ {x} : st'[r] = st[r]
      BY <3>1 DEF TypeOK
    <3>3. st'[x].pending = st[x].pending - 1 /\ st[x].pending \in Int
      BY <3>1 DEF TypeOK, Outcome, RunState
    <3>4. st'[x].pending > 0
      BY <3>1, <3>3 DEF LastJob
    <3> QED BY <1>1, <1>2, <2>4, <2>5, <2>7, <3>2, <3>3, <3>4, JobGivenUp
  <2> QED BY <2>6, <2>7
<1>4. CASE finishRun(q)
  <2>1. /\ pc' = [pc EXCEPT ![q] = "write"] /\ arg' = arg
        /\ tracked' = tracked \ {x}
        /\ st' = [st EXCEPT ![x] = Outcome(x, q)]
    BY <1>4 DEF finishRun, Goto, claim
  <2>2. Moves(q, "write") /\ InHand(q)' = None
    BY <1>0, <2>1 DEF Moves, InHand, Final, TypeOK, PcOK
  <2>3. GivesUp(q) /\ \A c \in Clients : pc'[c] = pc[c] /\ arg'[c] = arg[c]
    BY <1>2, <2>2, WorkerMoves DEF GivesUp
  <2>4. \A r \in Runs \ {x} : st'[r] = st[r]
    BY <2>1 DEF TypeOK
  <2>5. x \notin tracked' /\ \A r \in tracked' : r \in tracked
    BY <2>1
  <2> QED BY <1>1, <1>2, <2>3, <2>4, <2>5, JobGivenUp
<1> QED BY <1>3, <1>4

(* What a client's step leaves alone. *)
LEMMA ClientMoves ==
  ASSUME TypeOK, NEW c \in Clients, NEW l, Moves(c, l)
  PROVE  /\ pc'[c] = l
         /\ \A d \in Clients \ {c} : pc'[d] = pc[d] /\ arg'[d] = arg[d]
         /\ \A o \in Queues : InHand(o)' = InHand(o)
<1>1. \A o \in Queues : o \in Procs /\ o # c
  BY ProcAssumption
<1>2. c \in Procs /\ \A o \in Procs \ {c} : pc'[o] = pc[o] /\ arg'[o] = arg[o]
  BY DEF Moves, TypeOK, PcOK
<1>3. \A o \in Queues : InHand(o)' = InHand(o)
  BY <1>1, <1>2 DEF InHand
<1>4. pc'[c] = l
  BY <1>2 DEF Moves, TypeOK, PcOK
<1> QED BY <1>2, <1>3, <1>4

(* Enqueue sends the jobs of a run that had none. *)
LEMMA SendHolds ==
  ASSUME TypeOK, JobInv, NEW x \in Runs, NEW S \in SUBSET Queues, Send(x, S),
         \A o \in Queues : InHand(o)' = InHand(o) /\ ~Holds(o, x)
  PROVE  /\ JobsOnce'
         /\ \A r \in Runs \ {x}, o \in Queues : Holds(o, r)' <=> Holds(o, r)
         /\ {o \in Queues : Holds(o, x)'} = S
<1>1. ASSUME NEW o \in Queues
      PROVE  /\ Distinct(chan'[o]) /\ ~Occurs(chan'[o], InHand(o))
             /\ \A r \in Runs : Holds(o, r)' <=> Holds(o, r) \/ (r = x /\ o \in S)
  <2>1. /\ chan[o] \in Seq(Runs) /\ Distinct(chan[o])
        /\ ~Occurs(chan[o], InHand(o))
    BY DEF TypeOK, JobInv, JobsOnce
  <2>2. ~Occurs(chan[o], x) /\ InHand(o) # x
    BY HoldsMeans
  <2>3. CASE o \in S
    <3>1. chan'[o] = Append(chan[o], x)
      BY <2>3 DEF Send
    <3>2. /\ \A r : Occurs(chan'[o], r) <=> Occurs(chan[o], r) \/ r = x
          /\ Distinct(chan'[o])
      BY <2>1, <2>2, <3>1, OccursAppend
    <3> QED BY <2>1, <2>2, <2>3, <3>2, HoldsMeans
  <2>4. CASE o \notin S
    <3>1. chan'[o] = chan[o]
      BY <2>4 DEF Send
    <3> QED BY <2>1, <2>4, <3>1, HoldsMeans
  <2> QED BY <2>3, <2>4
<1>2. JobsOnce'
  BY <1>1 DEF JobsOnce
<1> QED BY <1>1, <1>2

(* Registration: every queue of the run gets its job, or, when one of them *)
(* is full, some do and the run is not tracked.                            *)
LEMMA JobSend ==
  ASSUME TypeOK, TypeOK', ClaimInv, JobInv, NEW c \in Clients,
         EnqueueSend(c) \/ EnqueueFull(c)
  PROVE  JobInv'
<1> USE DEF dbVars, muVars, calls
<1>0. c \in Procs /\ pc[c] = "insert"
  BY DEF EnqueueSend, EnqueueFull
<1> PICK x \in Runs : x = arg[c]
  BY <1>0, ClientFacts DEF Vacant
<1>1. x \in finalizing /\ x \notin tracked /\ dbStatus[x] # "none"
  BY <1>0 DEF ClaimInv, OneOwner, Owns
<1>2. ASSUME NEW d \in Clients \ {c}, pc[d] \in {"begin", "insert"}
      PROVE  arg[d] # x
  <2>1. CASE pc[d] = "begin"
    BY <1>1, <2>1 DEF ClaimInv
  <2>2. CASE pc[d] = "insert"
    BY <1>0, <2>2 DEF ClaimInv, OneOwner, Owns
  <2> QED BY <1>2, <2>1, <2>2
<1>3. /\ UNCHANGED <<dbStatus, plan, req>>
      /\ st' = [st EXCEPT ![x] = NewState(Cardinality(QueuesOf(x)))]
  BY DEF EnqueueSend, EnqueueFull
<1>4. \A r \in Runs \ {x} : st'[r] = st[r]
  BY <1>3 DEF TypeOK
<1>5. st'[x].pending = Cardinality(QueuesOf(x))
  BY <1>3 DEF TypeOK, NewState
<1>6. QueuesOf(x) \in SUBSET Queues /\ QueuesOf(x) # {}
  <2>1. plan[x] # {} /\ plan[x] \subseteq Targets
    BY <1>1 DEF JobInv, TypeOK
  <2> QED BY <2>1, TargetAssumption DEF QueuesOf
<1>7. PICK l \in {"idle", "force", "write"} : Moves(c, l)
  <2>1. CASE EnqueueSend(c)
    BY <1>0, <2>1, ReturnMoves DEF EnqueueSend
  <2>2. CASE EnqueueFull(c)
    BY <1>0, <2>2, GotoMoves DEF EnqueueFull
  <2> QED BY <2>1, <2>2
<1>8. \A o \in Queues : InHand(o)' = InHand(o) /\ ~Holds(o, x)
  BY <1>0, <1>7, ClientMoves DEF JobInv
<1>9. PICK S \in SUBSET Queues :
        /\ Send(x, S)
        /\ \/ S = QueuesOf(x) /\ tracked' = tracked \cup {x}
           \/ tracked' = tracked
  <2>1. CASE EnqueueSend(c)
    BY <1>6, <2>1 DEF EnqueueSend
  <2>2. CASE EnqueueFull(c)
    <3>1. PICK S \in SUBSET {q \in QueuesOf(x) : ~Full(q)} : Send(x, S)
      BY <2>2 DEF EnqueueFull
    <3>2. S \in SUBSET Queues /\ tracked' = tracked
      BY <1>6, <2>2 DEF EnqueueFull
    <3> QED BY <3>1, <3>2
  <2> QED BY <2>1, <2>2
<1>10. /\ JobsOnce'
       /\ \A r \in Runs \ {x}, o \in Queues : Holds(o, r)' <=> Holds(o, r)
       /\ {o \in Queues : Holds(o, x)'} = S
  BY <1>8, <1>9, SendHolds
<1>11. x \in tracked' =>
         /\ st'[x].pending = Cardinality({o \in Queues : Holds(o, x)'})
         /\ \E o \in Queues : Holds(o, x)'
  <2> SUFFICES ASSUME x \in tracked'
               PROVE  /\ st'[x].pending = Cardinality({o \in Queues : Holds(o, x)'})
                      /\ {o \in Queues : Holds(o, x)'} # {}
    OBVIOUS
  <2>1. S = QueuesOf(x)
    BY <1>1, <1>9
  <2> QED BY <1>5, <1>6, <1>10, <2>1
<1>12. \A r \in Runs \ {x} : r \in tracked' =>
         r \in tracked /\ st'[r].pending = st[r].pending
  BY <1>4, <1>9
<1>13. \A c1 \in Clients :
         /\ pc'[c1] \in {"begin", "insert"} =>
              pc[c1] \in {"begin", "insert"} /\ arg'[c1] = arg[c1] /\ arg[c1] # x
         /\ pc'[c1] = "create" => pc[c1] = "create"
  BY <1>2, <1>7, ClientMoves
<1>14. \A r \in Runs : dbStatus'[r] = "none" <=> dbStatus[r] = "none"
  BY <1>3
<1> QED BY <1>1, <1>3, <1>10, <1>11, <1>12, <1>13, <1>14, JobChange

(* A new row has targets and no jobs yet. *)
LEMMA JobCreate ==
  ASSUME TypeOK, TypeOK', ClaimInv, JobInv, NEW c \in Clients, EnqueueCreate(c)
  PROVE  JobInv'
<1> USE DEF dbVars, muVars, calls
<1>0. c \in Procs /\ pc[c] = "create"
  BY DEF EnqueueCreate
<1>1. PICK x \in Runs :
        /\ dbStatus[x] = "none" /\ dbStatus' = [dbStatus EXCEPT ![x] = "queued"]
        /\ plan' = [plan EXCEPT ![x] =
                      filterRunnable(req[c].targets, req[c].trigger)]
        /\ arg' = [arg EXCEPT ![c] = x]
  BY DEF EnqueueCreate
<1>2. /\ UNCHANGED <<chan, tracked, st>> /\ Goto(c, "begin")
      /\ req' = [req EXCEPT ![c] = None]
  BY DEF EnqueueCreate
<1>3. Moves(c, "begin") /\ arg'[c] = x
  BY <1>0, <1>1, <1>2, GotoMoves DEF TypeOK, PcOK
<1>4. /\ \A o \in Queues : InHand(o)' = InHand(o)
      /\ pc'[c] = "begin"
      /\ \A d \in Clients \ {c} : pc'[d] = pc[d] /\ arg'[d] = arg[d] /\ req'[d] = req[d]
  BY <1>2, <1>3, ClientMoves DEF TypeOK
<1>5. \A o \in Queues, r \in Runs : Holds(o, r)' <=> Holds(o, r)
  BY <1>2, <1>4, HoldsMeans
<1>6. JobsOnce'
  BY <1>2, <1>4 DEF JobInv, JobsOnce
<1>7. \A r \in Runs : dbStatus'[r] = "none" => \A o \in Queues : ~Holds(o, r)'
  BY <1>1, <1>5 DEF JobInv, TypeOK
<1>8. ASSUME NEW d \in Clients, pc'[d] \in {"begin", "insert"}, NEW o \in Queues
      PROVE  ~Holds(o, arg[d])'
  <2>1. CASE d = c
    BY <1>1, <1>3, <1>5, <2>1 DEF JobInv
  <2>2. CASE d # c
    <3>1. arg[d] \in Runs /\ arg'[d] = arg[d] /\ pc[d] \in {"begin", "insert"}
      BY <1>4, <1>8, <2>2, ClientFacts DEF Vacant
    <3> QED BY <1>5, <3>1 DEF JobInv
  <2> QED BY <2>1, <2>2
<1>9. ASSUME NEW r \in tracked'
      PROVE  /\ st'[r].pending = Cardinality({q \in Queues : Holds(q, r)'})
             /\ \E q \in Queues : Holds(q, r)'
  <2>1. r \in Runs /\ r \in tracked
    BY <1>2 DEF TypeOK
  <2>2. {q \in Queues : Holds(q, r)'} = {q \in Queues : Holds(q, r)}
    BY <1>5, <2>1
  <2>3. \E q \in Queues : Holds(q, r)'
    BY <1>5, <2>1 DEF JobInv
  <2>4. st'[r].pending = Cardinality({q \in Queues : Holds(q, r)})
    BY <1>2, <2>1 DEF JobInv, PendingMatchesJobs
  <2> QED BY <2>2, <2>3, <2>4
<1>10. \A d \in Clients : pc'[d] = "create" =>
         filterRunnable(req'[d].targets, req'[d].trigger) # {}
  BY <1>4 DEF JobInv
<1>11. \A r \in Runs : dbStatus'[r] # "none" => plan'[r] # {}
  BY <1>0, <1>1 DEF JobInv, TypeOK
<1> QED BY <1>6, <1>7, <1>8, <1>9, <1>10, <1>11
        DEF JobInv, PendingMatchesJobs, filterRunnable

(* The ids handed out are the same before and after. *)
IdsSame == \A r \in Runs : dbStatus'[r] = "none" <=> dbStatus[r] = "none"

(* A tracked run was tracked before, with the same jobs pending. *)
PendingSame ==
  \A r \in tracked' : r \in tracked /\ st'[r].pending = st[r].pending

(* A status write hands out no id. *)
LEMMA WriteSame ==
  ASSUME TypeOK, NEW p \in Procs, NEW r \in Runs, NEW s \in Active \cup Terminal,
         NEW ok, NEW fail, setRunStatus(p, r, s, ok, fail), arg' = arg
  PROVE  IdsSame /\ \E l \in {ok, fail} : Moves(p, l)
<1>1. IdsSame
  BY WriteEffect DEF IdsSame
<1> QED BY <1>1, WriteKeepsIds

(* A client's step that moves no job. *)
LEMMA JobQuietClient ==
  ASSUME TypeOK, TypeOK', JobInv, NEW c \in Clients, NEW l, Moves(c, l),
         chan' = chan, plan' = plan, PendingSame, IdsSame,
         l \in {"begin", "insert"} =>
            pc[c] \in {"begin", "insert"} /\ arg'[c] = arg[c],
         \A d \in Clients \ {c} : req'[d] = req[d],
         l = "create" => filterRunnable(req'[c].targets, req'[c].trigger) # {}
  PROVE  JobInv'
<1>1. \A d \in Clients :
            /\ pc'[d] \in {"begin", "insert"} =>
                 pc[d] \in {"begin", "insert"} /\ arg'[d] = arg[d]
            /\ pc'[d] = "create" =>
                 \/ pc[d] = "create" /\ req'[d] = req[d]
                 \/ filterRunnable(req'[d].targets, req'[d].trigger) # {}
  BY ClientMoves
<1>2. \A o \in Queues : InHand(o)' = InHand(o)
  BY ClientMoves
<1>3. \A r \in Runs : dbStatus'[r] = "none" <=> dbStatus[r] = "none"
  BY DEF IdsSame
<1>4. \A r \in tracked' : r \in tracked /\ st'[r].pending = st[r].pending
  BY DEF PendingSame
<1> QED BY <1>1, <1>2, <1>3, <1>4, JobQuiet

(* Each client step preserves the bookkeeping of jobs. *)
LEMMA JobClient ==
  ASSUME TypeOK, TypeOK', ClaimInv, JobInv, NEW c \in Clients,
         CallStep(c) \/ ClientStep(c)
  PROVE  JobInv'
<1> USE DEF dbVars, muVars, calls, bounds
<1>0. c \in Procs /\ \A r : arg' = [arg EXCEPT ![c] = r] => arg'[c] = r
  BY DEF TypeOK, PcOK
<1>1. ASSUME NEW q \in Requests, EnqueueLock(c, q) PROVE JobInv'
  <2>1. /\ Moves(c, "create") /\ req' = [req EXCEPT ![c] = q]
        /\ filterRunnable(q.targets, q.trigger) # {}
        /\ UNCHANGED <<chan, plan, tracked, st, dbStatus>>
    BY <1>0, <1>1, GotoMoves DEF EnqueueLock
  <2>2. req'[c] = q /\ \A d \in Clients \ {c} : req'[d] = req[d]
    BY <2>1 DEF TypeOK
  <2>3. PendingSame /\ IdsSame
    BY <2>1 DEF PendingSame, IdsSame
  <2> QED BY <2>1, <2>2, <2>3, JobQuietClient
<1>2. ASSUME NEW r \in Runs, CancelStarted(c, r) PROVE JobInv'
  <2>1. /\ UNCHANGED <<chan, plan, tracked, dbStatus, pc, arg, req>>
        /\ st' = [st EXCEPT ![r].canceled = TRUE]
    BY <1>2 DEF CancelStarted
  <2>2. \A x \in tracked' : x \in tracked /\ st'[x].pending = st[x].pending
    BY <2>1 DEF TypeOK, RunState
  <2>3. \A o \in Queues : InHand(o)' = InHand(o)
    BY <2>1 DEF InHand
  <2> QED BY <2>1, <2>2, <2>3, JobQuiet
<1>3. ASSUME NEW r \in Runs, CancelQueued(c, r) PROVE JobInv'
  <2>1. /\ Moves(c, "write") /\ tracked' = tracked \ {r}
        /\ st' = [st EXCEPT ![r].canceled = TRUE]
        /\ UNCHANGED <<chan, plan, req, dbStatus>>
    BY <1>0, <1>3, GotoMoves DEF CancelQueued, claim
  <2>2. PendingSame /\ IdsSame
    BY <2>1 DEF PendingSame, IdsSame, TypeOK, RunState
  <2> QED BY <2>1, <2>2, JobQuietClient
<1>4. ASSUME NEW r \in Runs, CancelUntracked(c, r) PROVE JobInv'
  <2>1. Moves(c, "orphan") /\ UNCHANGED <<chan, plan, req, tracked, st, dbStatus>>
    BY <1>0, <1>4, GotoMoves DEF CancelUntracked
  <2>2. PendingSame /\ IdsSame
    BY <2>1 DEF PendingSame, IdsSame
  <2> QED BY <2>1, <2>2, JobQuietClient
<1>5. CASE EnqueueCreate(c)
  BY <1>5, JobCreate
<1>6. CASE EnqueueCreateFails(c)
  <2>1. /\ Moves(c, "idle") /\ req' = [req EXCEPT ![c] = None]
        /\ UNCHANGED <<chan, plan, tracked, st, dbStatus>>
    BY <1>0, <1>6, GotoMoves DEF EnqueueCreateFails
  <2>2. PendingSame /\ IdsSame /\ \A d \in Clients \ {c} : req'[d] = req[d]
    BY <2>1 DEF PendingSame, IdsSame, TypeOK
  <2> QED BY <2>1, <2>2, JobQuietClient
<1>7. CASE beginFinalize(c) \/ EnqueueRefused(c)
  <2>1. /\ \E l \in {"insert", "write"} : Moves(c, l)
        /\ UNCHANGED <<chan, plan, req, tracked, st, dbStatus, arg>>
        /\ pc[c] \in {"begin", "insert"}
    BY <1>0, <1>7, GotoMoves DEF beginFinalize, EnqueueRefused
  <2>2. PendingSame /\ IdsSame
    BY <2>1 DEF PendingSame, IdsSame
  <2> QED BY <2>1, <2>2, JobQuietClient
<1>8. CASE EnqueueFull(c) \/ EnqueueSend(c)
  BY <1>8, JobSend
<1>9. CASE cancelOrphan(c) \/ OrphanGetRun(c) \/ OrphanEnd(c)
  <2>1. UNCHANGED <<chan, plan, req, tracked, st, dbStatus>>
    BY <1>9 DEF cancelOrphan, OrphanGetRun, OrphanEnd
  <2>2. Return(c) \/ (\E l \in {"getRun", "orphanWrite"} : Goto(c, l) /\ arg' = arg)
    BY <1>9 DEF cancelOrphan, OrphanGetRun, OrphanEnd
  <2>3. PICK l \in {"getRun", "orphanWrite", "idle", "force"} : Moves(c, l)
    BY <1>0, <2>2, ReturnMoves, GotoMoves
  <2>4. PendingSame /\ IdsSame
    BY <2>1 DEF PendingSame, IdsSame
  <2> QED BY <2>1, <2>3, <2>4, JobQuietClient
<1>10. CASE OrphanWrite(c)
  <2>1. /\ setRunStatus(c, arg[c], "canceled", "orphanEnd", "orphanFail")
        /\ UNCHANGED <<arg, chan, plan, req, tracked, st>> /\ pc[c] = "orphanWrite"
    BY <1>10 DEF OrphanWrite
  <2>2. arg[c] \in Runs
    BY <2>1, ClientFacts DEF Vacant
  <2>3. IdsSame /\ \E l \in {"orphanEnd", "orphanFail"} : Moves(c, l)
    BY <1>0, <2>1, <2>2, WriteSame
  <2>4. PendingSame
    BY <2>1 DEF PendingSame
  <2> QED BY <2>1, <2>3, <2>4, JobQuietClient
<1> QED
  BY <1>1, <1>2, <1>3, <1>4, <1>5, <1>6, <1>7, <1>8, <1>9, <1>10
  DEF CallStep, ClientStep

(* A step of a process other than a client that moves no job. *)
LEMMA JobQuietOther ==
  ASSUME TypeOK, TypeOK', JobInv, NEW p \in Procs, p \notin Clients,
         NEW l, Moves(p, l), chan' = chan, plan' = plan, req' = req,
         PendingSame, IdsSame, p \in Queues => InHand(p)' = InHand(p)
  PROVE  JobInv'
<1>1. \A o \in Procs \ {p} : pc'[o] = pc[o] /\ arg'[o] = arg[o]
  BY DEF Moves, TypeOK, PcOK
<1>2. \A d \in Clients : pc'[d] = pc[d] /\ arg'[d] = arg[d]
  BY <1>1
<1>3. \A o \in Queues : InHand(o)' = InHand(o)
  BY <1>1 DEF InHand
<1>4. \A r \in Runs : dbStatus'[r] = "none" <=> dbStatus[r] = "none"
  BY DEF IdsSame
<1>5. \A r \in tracked' : r \in tracked /\ st'[r].pending = st[r].pending
  BY DEF PendingSame
<1>6. \A d \in Clients :
            /\ pc'[d] \in {"begin", "insert"} =>
                 pc[d] \in {"begin", "insert"} /\ arg'[d] = arg[d]
            /\ pc'[d] = "create" =>
                 \/ pc[d] = "create" /\ req'[d] = req[d]
                 \/ filterRunnable(req'[d].targets, req'[d].trigger) # {}
  BY <1>2
<1> QED BY <1>3, <1>4, <1>5, <1>6, JobQuiet

(* The steps of a worker that keep its job in its hands. *)
Keeping == {"start", "running", "doneCount", "publish", "loop", "test",
            "recover", "mark", "finish"}

(* Each step of a worker and of its engine preserves it. *)
LEMMA JobWorker ==
  ASSUME TypeOK, TypeOK', JobInv, NEW q \in Queues, WorkerStep(q) \/ EngineStep(q)
  PROVE  JobInv'
<1> USE DEF dbVars, muVars, calls, bounds
<1>0. q \in Procs /\ q \notin Clients
  BY ProcAssumption
<1>1. ASSUME NEW l \in Keeping, Moves(q, l), pc[q] \in Keeping, arg' = arg
      PROVE  InHand(q)' = InHand(q)
  <2>1. pc'[q] = l
    BY <1>0, <1>1 DEF Moves, TypeOK, PcOK
  <2> QED BY <1>1, <2>1 DEF InHand, Keeping, Final
<1>2. CASE executeGone(q) \/ finishGone(q) \/ finishQueue(q) \/ finishRun(q)
  BY <1>2, JobFinish
<1>3. CASE Receive(q)
  BY <1>3, JobReceive
<1>4. CASE SetRunning(q)
  <2>1. /\ setRunStatus(q, arg[q], "running", "doneCount", "loop")
        /\ UNCHANGED <<arg, chan, plan, req, tracked, st>> /\ pc[q] = "running"
    BY <1>4 DEF SetRunning
  <2>2. arg[q] \in Runs
    BY <1>0, <2>1 DEF TypeOK, PcOK, Vacant
  <2>3. IdsSame /\ \E l \in {"doneCount", "loop"} : Moves(q, l)
    BY <1>0, <2>1, <2>2, WriteSame
  <2>4. PendingSame
    BY <2>1 DEF PendingSame
  <2>5. InHand(q)' = InHand(q)
    BY <1>1, <2>1, <2>3 DEF Keeping
  <2> QED BY <1>0, <2>1, <2>3, <2>4, <2>5, JobQuietOther
<1>5. CASE \/ executeCanceled(q) \/ execute(q) \/ doneCount(q)
           \/ PublishRunning(q) \/ NextTarget(q) \/ Recover(q)
           \/ markTargetDone(q) \/ EngineStep(q)
  <2> USE DEF executeCanceled, execute, doneCount, PublishRunning, NextTarget,
              Recover, markTargetDone, EngineStep, runTarget, runTargetPanics
  <2>1. arg' = arg /\ pc[q] \in Keeping
        /\ UNCHANGED <<dbStatus, chan, plan, req, tracked>>
    BY <1>5 DEF Keeping
  <2>2. PICK l \in Keeping : Goto(q, l)
    BY <1>5 DEF Keeping, AfterTarget, AfterPanic
  <2>3. Moves(q, l)
    BY <1>0, <2>1, <2>2, GotoMoves
  <2>4. \/ st' = st
        \/ st' = [st EXCEPT ![arg[q]].started = TRUE]
        \/ st' = [st EXCEPT ![arg[q]].done = Stepped(arg[q], q)]
    BY <1>5 DEF markStarted
  <2>5. PendingSame
    <3> SUFFICES ASSUME NEW x \in tracked PROVE st'[x].pending = st[x].pending
      BY <2>1 DEF PendingSame
    <3> HIDE DEF executeCanceled, execute, doneCount, PublishRunning, NextTarget,
                 Recover, markTargetDone, EngineStep, runTarget, runTargetPanics
    <3>1. x \in Runs /\ st[x] \in RunState /\ st \in [Runs -> RunState]
      BY DEF TypeOK
    <3>2. CASE st' = [st EXCEPT ![arg[q]].started = TRUE]
      BY <3>1, <3>2 DEF RunState
    <3>3. CASE st' = [st EXCEPT ![arg[q]].done = Stepped(arg[q], q)]
      BY <3>1, <3>3 DEF RunState
    <3> QED BY <2>4, <3>2, <3>3
  <2>6. IdsSame
    BY <2>1 DEF IdsSame
  <2>7. InHand(q)' = InHand(q)
    BY <1>1, <2>1, <2>3
  <2> QED BY <1>0, <2>1, <2>3, <2>5, <2>6, <2>7, JobQuietOther
<1> QED BY <1>2, <1>3, <1>4, <1>5 DEF WorkerStep

(* So do the writers of terminal statuses, *)
LEMMA JobFinal ==
  ASSUME TypeOK, TypeOK', JobInv, NEW p \in Procs, FinalWrite(p) \/ endFinalize(p)
  PROVE  JobInv'
<1> USE DEF dbVars, muVars, calls, bounds
<1>0. UNCHANGED <<chan, plan, req, tracked, st>> /\ pc[p] \in Final
  BY DEF FinalWrite, endFinalize, Final
<1>1. PendingSame
  BY <1>0 DEF PendingSame
<1>2. IdsSame /\ \E l \in Final \cup {"idle", "force"} : Moves(p, l)
  <2>1. CASE FinalWrite(p)
    <3>1. arg[p] \in Runs /\ goal[p] \in Terminal
      BY <2>1 DEF FinalWrite, Vacant, TypeOK, PcOK
    <3>2. /\ setRunStatus(p, arg[p], goal[p], "settle", AfterWriteFails(p))
          /\ arg' = arg
      BY <2>1 DEF FinalWrite
    <3>3. IdsSame /\ \E l \in {"settle", AfterWriteFails(p)} : Moves(p, l)
      BY <3>1, <3>2, WriteSame
    <3> QED BY <3>3 DEF AfterWriteFails, Final
  <2>2. CASE endFinalize(p)
    BY <2>2, ReturnMoves DEF endFinalize, IdsSame
  <2> QED BY <2>1, <2>2
<1>3. CASE p \in Clients
  BY <1>0, <1>1, <1>2, <1>3, JobQuietClient DEF Final
<1>4. CASE p \notin Clients
  <2>1. ASSUME p \in Queues PROVE InHand(p)' = InHand(p)
    <3>1. p # Main
      BY <2>1, ProcAssumption
    <3>2. pc'[p] \in Final \/ (pc'[p] = "idle" /\ arg'[p] = None)
      <4>1. CASE FinalWrite(p)
        BY <4>1 DEF FinalWrite, setRunStatus, Goto, AfterWriteFails, Final, TypeOK, PcOK
      <4>2. CASE endFinalize(p)
        BY <3>1, <4>2 DEF endFinalize, Return, TypeOK, PcOK
      <4> QED BY <4>1, <4>2
    <3> QED BY <1>0, <3>2 DEF InHand, Final
  <2> QED BY <1>0, <1>1, <1>2, <1>4, <2>1, JobQuietOther
<1> QED BY <1>3, <1>4

(* Shutdown, the death of the process and its restart. *)
LEMMA JobMain ==
  ASSUME TypeOK, TypeOK', JobInv,
         ShutdownBegin \/ MainStep \/ Crash \/ ReapOrphanedRuns
  PROVE  JobInv'
<1> USE DEF dbVars, muVars, calls, bounds
<1>0. Main \in Procs /\ Main \notin Clients /\ Main \notin Queues
  BY ProcAssumption
<1>1. CASE \/ ShutdownBegin \/ ShutdownDrained \/ ShutdownGrace
           \/ ShutdownAwait \/ ShutdownReturn
  <2> USE DEF ShutdownBegin, ShutdownDrained, ShutdownGrace, ShutdownAwait,
              ShutdownReturn
  <2>1. arg' = arg /\ UNCHANGED <<dbStatus, tracked, chan, plan, req>>
    BY <1>1
  <2>2. PICK l : Goto(Main, l)
    BY <1>1
  <2>3. Moves(Main, l)
    BY <1>0, <2>1, <2>2, GotoMoves
  <2>4. \/ st' = st
        \/ st' = [r \in Runs |-> IF r \in tracked
                             THEN [st[r] EXCEPT !.canceled = TRUE] ELSE st[r]]
    BY <1>1
  <2>5. PendingSame
    BY <2>1, <2>4 DEF PendingSame, TypeOK, RunState
  <2>6. IdsSame
    BY <2>1 DEF IdsSame
  <2> QED BY <1>0, <2>1, <2>3, <2>5, <2>6, JobQuietOther
<1>2. ASSUME NEW r \in Runs, claimForForceCancel(r) PROVE JobInv'
  <2>1. /\ Moves(Main, "write") /\ tracked' = tracked \ {r}
        /\ UNCHANGED <<dbStatus, st, chan, plan, req>>
    BY <1>0, <1>2, GotoMoves DEF claimForForceCancel, claim
  <2>2. PendingSame /\ IdsSame
    BY <2>1 DEF PendingSame, IdsSame
  <2> QED BY <1>0, <2>1, <2>2, JobQuietOther
<1>3. ASSUME NEW r \in Runs, forceCancelGone(r) PROVE JobInv'
  <2>1. UNCHANGED <<dbStatus, st, tracked, chan, plan, req, pc, arg>>
    BY <1>3 DEF forceCancelGone
  <2>2. \A o \in Queues : InHand(o)' = InHand(o)
    BY <2>1 DEF InHand
  <2> QED BY <2>1, <2>2, JobQuiet
<1>4. CASE Crash
  <2>1. /\ \A p \in Procs : pc'[p] \in {"down", "idle"} /\ arg'[p] = None
        /\ \A q \in Queues : chan'[q] = <<>>
        /\ tracked' = {} /\ UNCHANGED <<dbStatus, plan>>
    BY <1>4 DEF Crash
  <2>2. \A q \in Queues : InHand(q)' = None /\ \A r : ~Occurs(chan'[q], r)
    BY <2>1 DEF InHand, Occurs
  <2>3. \A q \in Queues, r \in Runs : ~Holds(q, r)'
    <3>1. \A r \in Runs : r # None
      BY ProcAssumption
    <3> QED BY <2>2, <3>1, HoldsMeans
  <2>4. JobsOnce'
    BY <2>1, <2>2 DEF JobsOnce, Distinct
  <2>5. \A c \in Clients : pc'[c] \notin {"begin", "insert", "create"}
    BY <2>1
  <2> QED BY <2>1, <2>3, <2>4, <2>5 DEF JobInv, PendingMatchesJobs
<1>5. CASE ReapOrphanedRuns
  <2>1. /\ Moves(Main, "idle") /\ UNCHANGED <<st, tracked, chan, plan, req>>
        /\ dbStatus' = [r \in Runs |-> Reaped(dbStatus[r])]
    BY <1>0, <1>5, GotoMoves DEF ReapOrphanedRuns
  <2>2. PendingSame /\ IdsSame
    BY <2>1 DEF PendingSame, IdsSame, Reaped
  <2> QED BY <1>0, <2>1, <2>2, JobQuietOther
<1> QED BY <1>1, <1>2, <1>3, <1>4, <1>5 DEF MainStep

(* The bookkeeping of jobs is inductive. *)
LEMMA JobInductive ==
  /\ Init => JobInv
  /\ TypeOK /\ TypeOK' /\ ClaimInv /\ JobInv /\ [Next]_vars => JobInv'
<1>1. ASSUME Init PROVE JobInv
  <2>1. \A q \in Queues : InHand(q) = None /\ chan[q] = <<>>
    BY <1>1 DEF Init, InHand
  <2>2. \A q \in Queues, r \in Runs : ~Holds(q, r)
    <3>1. \A r \in Runs : r # None
      BY ProcAssumption
    <3> QED BY <2>1, <3>1, HoldsMeans DEF Occurs
  <2>3. JobsOnce
    BY <2>1 DEF JobsOnce, Distinct, Occurs
  <2> QED BY <1>1, <2>2, <2>3 DEF Init, JobInv, PendingMatchesJobs
<1>2. ASSUME TypeOK, TypeOK', JobInv, UNCHANGED vars PROVE JobInv'
  <2>1. UNCHANGED <<dbStatus, st, tracked, chan, plan, req, pc, arg>>
    BY <1>2 DEF vars, dbVars, muVars, calls
  <2>2. \A o \in Queues : InHand(o)' = InHand(o)
    BY <2>1 DEF InHand
  <2> QED BY <1>2, <2>1, <2>2, JobQuiet
<1>3. ASSUME TypeOK, TypeOK', ClaimInv, JobInv, Next PROVE JobInv'
  BY <1>3, JobClient, JobWorker, JobFinal, JobMain DEF Next
<1> QED BY <1>1, <1>2, <1>3

(* All the invariants so far hold in every reachable state. *)
LEMMA JobsAlways == Spec => [](TypeOK /\ ClaimInv /\ JobInv)
  BY InitTypeOK, NextTypeOK, ClaimInductive, JobInductive, PTL DEF Spec

(* The pending count of a tracked run is the number of queues that still   *)
(* have its job, for any number of queues: finishQueue's decrement and     *)
(* Enqueue's initial count agree with the channels, although jobs of runs  *)
(* that were cancelled or refused stay behind in them.                     *)
THEOREM PendingIsExact == Spec => []PendingMatchesJobs
<1>1. JobInv => PendingMatchesJobs
  BY DEF JobInv
<1> QED BY <1>1, JobsAlways, PTL

(***************************************************************************)
(* Shutdown.                                                               *)
(***************************************************************************)

(* From the moment Shutdown begins no run is registered any more, so that  *)
(* the list of stuck runs covers everything that is still tracked.         *)
StopInv ==
  /\ pc[Main] \notin {"idle", "down"} <=> closing
  /\ pc[Main] \in {"await", "force"} \cup Final => tracked \subseteq stuck
  /\ pc[Main] = "stopped" => tracked = {}

(* A step of another goroutine. *)
LEMMA StopFrame ==
  ASSUME StopInv, pc'[Main] = pc[Main], UNCHANGED <<closing, stuck>>,
         tracked' \subseteq tracked \/ ~closing
  PROVE  StopInv'
  BY DEF StopInv, Final

(* Clients and workers do not disturb Shutdown. *)
LEMMA StopOthers ==
  ASSUME TypeOK, StopInv,
         \/ \E c \in Clients : CallStep(c) \/ ClientStep(c)
         \/ \E q \in Queues : WorkerStep(q) \/ EngineStep(q)
  PROVE  StopInv'
<1> USE DEF dbVars, muVars, calls, bounds
<1>1. ASSUME NEW c \in Clients, CallStep(c) \/ ClientStep(c) PROVE StopInv'
  <2> USE DEF CallStep, ClientStep, EnqueueLock, CancelStarted, CancelQueued,
        CancelUntracked, EnqueueCreate, EnqueueCreateFails, beginFinalize,
        EnqueueRefused, EnqueueFull, EnqueueSend, cancelOrphan, OrphanGetRun,
        OrphanWrite, OrphanEnd
  <2>1. UNCHANGED <<closing, stuck>>
    BY <1>1
  <2>2. tracked' \subseteq tracked \/ ~closing
    BY <1>1 DEF claim
  <2>3. pc' = pc \/ Return(c) \/ \E l : Goto(c, l)
    BY <1>1 DEF setRunStatus
  <2>4. pc'[Main] = pc[Main]
    <3>1. c # Main /\ Main \in Procs
      BY ProcAssumption
    <3> HIDE DEF CallStep, ClientStep
    <3> QED BY <2>3, <3>1 DEF Return, Goto, TypeOK, PcOK
  <2> QED BY <2>1, <2>2, <2>4, StopFrame
<1>2. ASSUME NEW q \in Queues, WorkerStep(q) \/ EngineStep(q) PROVE StopInv'
  <2> USE DEF WorkerStep, EngineStep, Receive, executeGone, executeCanceled,
        execute, SetRunning, doneCount, PublishRunning, NextTarget, Recover,
        markTargetDone, finishGone, finishQueue, finishRun, runTarget,
        runTargetPanics
  <2>1. UNCHANGED <<closing, stuck>>
    BY <1>2
  <2>2. tracked' \subseteq tracked
    BY <1>2 DEF claim
  <2>3. Return(q) \/ \E l : Goto(q, l)
    BY <1>2 DEF setRunStatus
  <2>4. pc'[Main] = pc[Main]
    <3>1. q # Main /\ Main \in Procs
      BY ProcAssumption
    <3> HIDE DEF WorkerStep, EngineStep
    <3> QED BY <2>3, <3>1 DEF Return, Goto, TypeOK, PcOK
  <2> QED BY <2>1, <2>2, <2>4, StopFrame
<1> QED BY <1>1, <1>2

(* When the workers have drained the channels nothing is tracked. *)
LEMMA DrainedIsEmpty ==
  ASSUME TypeOK, JobInv, Drained
  PROVE  tracked = {}
<1> SUFFICES ASSUME NEW r \in tracked PROVE FALSE
  OBVIOUS
<1>1. r \in Runs /\ r # None
  BY ProcAssumption DEF TypeOK
<1>2. PICK q \in Queues : Holds(q, r)
  BY DEF JobInv
<1>3. pc[q] = "idle" /\ chan[q] = <<>>
  BY DEF Drained
<1>4. arg[q] = None
  BY <1>3 DEF TypeOK, PcOK, Vacant
<1> QED BY <1>1, <1>2, <1>3, <1>4 DEF Holds

(* Shutdown's own steps. *)
LEMMA StopMain ==
  ASSUME TypeOK, JobInv, StopInv,
         \/ ShutdownBegin \/ MainStep \/ Crash \/ ReapOrphanedRuns
         \/ \E p \in Procs : FinalWrite(p) \/ endFinalize(p)
  PROVE  StopInv'
<1> USE DEF dbVars, muVars, calls, bounds
<1>0. Main \in Procs /\ \A l : Goto(Main, l) => pc'[Main] = l
  BY DEF Goto, TypeOK, PcOK
<1>1. CASE ShutdownBegin
  BY <1>0, <1>1 DEF ShutdownBegin, StopInv, Final
<1>2. CASE ShutdownDrained
  BY <1>0, <1>2, DrainedIsEmpty DEF ShutdownDrained, StopInv, Final
<1>3. CASE ShutdownGrace
  <2>1. PICK l \in {"await", "force"} : Goto(Main, l)
    BY <1>3 DEF ShutdownGrace
  <2> QED BY <1>0, <1>3, <2>1 DEF ShutdownGrace, StopInv, Final
<1>4. CASE ShutdownAwait
  BY <1>0, <1>4 DEF ShutdownAwait, StopInv, Final
<1>5. CASE ShutdownReturn
  BY <1>0, <1>5 DEF ShutdownReturn, StopInv, Final
<1>6. ASSUME NEW r \in Runs, claimForForceCancel(r) PROVE StopInv'
  BY <1>0, <1>6 DEF claimForForceCancel, claim, StopInv, Final
<1>7. ASSUME NEW r \in Runs, forceCancelGone(r) PROVE StopInv'
  BY <1>0, <1>7 DEF forceCancelGone, StopInv, Final
<1>8. CASE Crash
  BY <1>0, <1>8 DEF Crash, StopInv, Final
<1>9. CASE ReapOrphanedRuns
  BY <1>0, <1>9 DEF ReapOrphanedRuns, StopInv, Final
<1>10. ASSUME NEW p \in Procs, FinalWrite(p) \/ endFinalize(p) PROVE StopInv'
  <2>1. UNCHANGED <<closing, stuck, tracked>> /\ pc[p] \in Final
    BY <1>10 DEF FinalWrite, endFinalize, Final
  <2>2. CASE p # Main
    <3>1. Return(p) \/ \E l : Goto(p, l)
      BY <1>10 DEF FinalWrite, endFinalize, setRunStatus
    <3>2. pc'[Main] = pc[Main]
      BY <1>0, <2>2, <3>1 DEF Return, Goto, TypeOK, PcOK
    <3> QED BY <2>1, <3>2, StopFrame
  <2>3. CASE p = Main
    <3>1. pc'[Main] \in Final \cup {"force"}
      <4>1. CASE FinalWrite(p)
        BY <1>0, <2>3, <4>1 DEF FinalWrite, setRunStatus, AfterWriteFails, Final
      <4>2. CASE endFinalize(p)
        BY <1>0, <2>3, <4>2 DEF endFinalize, Return, TypeOK, PcOK
      <4> QED BY <1>10, <4>1, <4>2
    <3> QED BY <2>1, <2>3, <3>1 DEF StopInv, Final
  <2> QED BY <2>2, <2>3
<1> QED BY <1>1, <1>2, <1>3, <1>4, <1>5, <1>6, <1>7, <1>8, <1>9, <1>10 DEF MainStep

(* Shutdown's invariant is inductive. *)
LEMMA StopInductive ==
  /\ Init => StopInv
  /\ TypeOK /\ JobInv /\ StopInv /\ [Next]_vars => StopInv'
<1>1. Init => StopInv
  BY DEF Init, StopInv, Final
<1>2. ASSUME StopInv, UNCHANGED vars PROVE StopInv'
  BY <1>2 DEF vars, muVars, calls, StopInv, Final
<1>3. ASSUME TypeOK, JobInv, StopInv, Next PROVE StopInv'
  BY <1>3, StopOthers, StopMain DEF Next
<1> QED BY <1>1, <1>2, <1>3

(* When Shutdown has returned, whichever of its deadlines ended it, no run *)
(* is tracked, and (unless a write failed) every row still queued or       *)
(* running is in the hands of a goroutine about to resolve it.             *)
THEOREM ShutdownIsSafe == Spec => []ShutdownSafe
<1>1. StopInv /\ NothingStranded => ShutdownSafe
  BY DEF StopInv, NothingStranded, ShutdownSafe, ShutdownLeavesNothing, Up
<1>2. Spec => []StopInv
  BY JobsAlways, StopInductive, PTL DEF Spec
<1> QED BY <1>1, <1>2, NoRunStranded, PTL

(***************************************************************************)
(* One active run per schedule.                                            *)
(***************************************************************************)

(* Between the dedupe check and the insert, both under enqueueMu, no run   *)
(* of the schedule can become active.                                      *)
SchedInv ==
  /\ \A s \in Schedules : \A x, y \in QueuedRunForSchedule(s) : x = y
  /\ \A c \in Clients : pc[c] = "create" /\ req[c].schedule # None =>
       QueuedRunForSchedule(req[c].schedule) = {}

(* Rows stay as they are or leave the active statuses. *)
NoneActivated ==
  /\ dbSchedule' = dbSchedule
  /\ \A r \in Runs : dbStatus'[r] \in Active => dbStatus[r] \in Active

(* Only CreateRun makes a row active. *)
LEMMA OnlyCreateActivates ==
  ASSUME TypeOK, Next, \A c \in Clients : ~EnqueueCreate(c)
  PROVE  NoneActivated
<1> USE DEF dbVars, muVars, calls, bounds
<1>1. ASSUME NEW p \in Procs, NEW r \in Runs, NEW s \in Active \cup Terminal,
             NEW ok, NEW fail, setRunStatus(p, r, s, ok, fail)
      PROVE  \A x \in Runs : dbStatus'[x] \in Active => dbStatus[x] \in Active
  BY <1>1, WriteEffect
<1>2. ASSUME NEW c \in Clients, CallStep(c) \/ ClientStep(c) PROVE NoneActivated
  <2>1. CASE OrphanWrite(c)
    <3>1. arg[c] \in Runs
      BY <2>1, ClientFacts DEF OrphanWrite, Vacant
    <3> QED BY <1>1, <2>1, <3>1 DEF OrphanWrite, NoneActivated
  <2>2. CASE ~OrphanWrite(c)
    <3>1. UNCHANGED <<dbStatus, dbSchedule>>
      BY <1>2, <2>2 DEF CallStep, ClientStep, EnqueueLock, CancelStarted,
         CancelQueued, CancelUntracked, EnqueueCreateFails, beginFinalize,
         EnqueueRefused, EnqueueFull, EnqueueSend, cancelOrphan, OrphanGetRun,
         OrphanEnd
    <3> QED BY <3>1 DEF NoneActivated
  <2> QED BY <2>1, <2>2
<1>3. ASSUME NEW q \in Queues, WorkerStep(q) \/ EngineStep(q) PROVE NoneActivated
  <2>1. CASE SetRunning(q)
    <3>1. arg[q] \in Runs
      BY <2>1 DEF SetRunning, TypeOK, PcOK, Vacant
    <3> QED BY <1>1, <2>1, <3>1 DEF SetRunning, NoneActivated
  <2>2. CASE ~SetRunning(q)
    <3>1. UNCHANGED <<dbStatus, dbSchedule>>
      BY <1>3, <2>2 DEF WorkerStep, EngineStep, Receive, executeGone,
        executeCanceled, execute, doneCount, PublishRunning, NextTarget,
        Recover, markTargetDone, finishGone, finishQueue, finishRun, runTarget,
        runTargetPanics
    <3> QED BY <3>1 DEF NoneActivated
  <2> QED BY <2>1, <2>2
<1>4. ASSUME NEW p \in Procs, FinalWrite(p) \/ endFinalize(p) PROVE NoneActivated
  <2>1. CASE FinalWrite(p)
    <3>1. arg[p] \in Runs /\ goal[p] \in Terminal
      BY <2>1 DEF FinalWrite, TypeOK, PcOK, Vacant
    <3> QED BY <1>1, <2>1, <3>1 DEF FinalWrite, NoneActivated
  <2>2. CASE endFinalize(p)
    BY <2>2 DEF endFinalize, NoneActivated
  <2> QED BY <1>4, <2>1, <2>2
<1>5. ASSUME ShutdownBegin \/ MainStep \/ Crash PROVE NoneActivated
  BY <1>5 DEF ShutdownBegin, MainStep, ShutdownDrained, ShutdownGrace,
     ShutdownAwait, ShutdownReturn, claimForForceCancel, forceCancelGone, Crash,
     NoneActivated
<1>6. ASSUME ReapOrphanedRuns PROVE NoneActivated
  BY <1>6 DEF ReapOrphanedRuns, Reaped, NoneActivated
<1> QED BY <1>2, <1>3, <1>4, <1>5, <1>6 DEF Next

(* Only EnqueueLock brings a client to the creation of a row. *)
LEMMA OnlyLockCreates ==
  ASSUME TypeOK, Next, NEW c \in Clients, pc'[c] = "create"
  PROVE  \/ pc[c] = "create" /\ req'[c] = req[c]
         \/ \E q \in Requests : EnqueueLock(c, q)
<1> USE DEF dbVars, muVars, calls, bounds
<1>0. c \in Procs /\ c # Main /\ c \notin Queues
  BY ClientFacts
<1>1. ASSUME NEW p \in Procs, NEW l, Moves(p, l), l # "create", req' = req
      PROVE  pc[c] = "create" /\ req'[c] = req[c]
  BY <1>0, <1>1 DEF Moves, TypeOK, PcOK
<1>2. ASSUME NEW d \in Clients, CallStep(d) \/ ClientStep(d)
      PROVE  \/ pc[c] = "create" /\ req'[c] = req[c]
             \/ \E q \in Requests : EnqueueLock(c, q)
  <2>1. CASE d # c
    <3> USE DEF CallStep, ClientStep, EnqueueLock, CancelStarted,
         CancelQueued, CancelUntracked, EnqueueCreate, EnqueueCreateFails,
         beginFinalize, EnqueueRefused, EnqueueFull, EnqueueSend, cancelOrphan,
         OrphanGetRun, OrphanWrite, OrphanEnd
    <3>1. req' = req \/ \E x : req' = [req EXCEPT ![d] = x]
      BY <1>2
    <3>2. pc' = pc \/ Return(d) \/ \E l : Goto(d, l)
      BY <1>2 DEF setRunStatus
    <3> HIDE DEF CallStep, ClientStep
    <3> QED BY <1>0, <2>1, <3>1, <3>2 DEF Return, Goto, TypeOK, PcOK
  <2>2. CASE d = c
    <3>1. CASE \E q \in Requests : EnqueueLock(c, q)
      BY <3>1
    <3>2. CASE ~\E q \in Requests : EnqueueLock(c, q)
      <4>1. \/ pc' = pc /\ req' = req
            \/ Return(c)
            \/ \E l : Goto(c, l) /\ l # "create"
        BY <1>2, <2>2, <3>2 DEF CallStep, ClientStep, CancelStarted,
         CancelQueued, CancelUntracked, EnqueueCreate, EnqueueCreateFails,
         beginFinalize, EnqueueRefused, EnqueueFull, EnqueueSend, cancelOrphan,
         OrphanGetRun, OrphanWrite, OrphanEnd, setRunStatus
      <4> QED BY <1>0, <4>1 DEF Return, Goto, TypeOK, PcOK
    <3> QED BY <3>1, <3>2
  <2> QED BY <2>1, <2>2
<1>3. ASSUME NEW q \in Queues, WorkerStep(q) \/ EngineStep(q)
      PROVE  pc[c] = "create" /\ req'[c] = req[c]
  <2> USE DEF WorkerStep, EngineStep, Receive, executeGone, executeCanceled,
        execute, SetRunning, doneCount, PublishRunning, NextTarget, Recover,
        markTargetDone, finishGone, finishQueue, finishRun, runTarget,
        runTargetPanics
  <2>1. req' = req
    BY <1>3
  <2>2. Return(q) \/ \E l : Goto(q, l)
    BY <1>3 DEF setRunStatus
  <2> HIDE DEF WorkerStep, EngineStep
  <2> QED BY <1>0, <2>1, <2>2 DEF Return, Goto, TypeOK, PcOK
<1>4. ASSUME NEW p \in Procs, FinalWrite(p) \/ endFinalize(p)
      PROVE  pc[c] = "create" /\ req'[c] = req[c]
  <2>1. req' = req
    BY <1>4 DEF FinalWrite, endFinalize
  <2>2. Return(p) \/ \E l : Goto(p, l) /\ l # "create"
    BY <1>4 DEF FinalWrite, endFinalize, setRunStatus, AfterWriteFails
  <2> QED BY <1>0, <2>1, <2>2 DEF Return, Goto, TypeOK, PcOK
<1>5. ASSUME ShutdownBegin \/ MainStep \/ ReapOrphanedRuns
      PROVE  pc[c] = "create" /\ req'[c] = req[c]
  <2> USE DEF ShutdownBegin, MainStep, ShutdownDrained, ShutdownGrace,
     ShutdownAwait, ShutdownReturn, claimForForceCancel, forceCancelGone,
     ReapOrphanedRuns
  <2>1. req' = req
    BY <1>5
  <2>2. pc' = pc \/ \E l : Goto(Main, l)
    BY <1>5
  <2> HIDE DEF MainStep
  <2> QED BY <1>0, <2>1, <2>2 DEF Goto, TypeOK, PcOK
<1>6. ~Crash
  BY <1>0 DEF Crash
<1> QED BY <1>2, <1>3, <1>4, <1>5, <1>6 DEF Next

(* The dedupe invariant is inductive. *)
LEMMA SchedInductive ==
  /\ Init => SchedInv
  /\ TypeOK /\ ClaimInv /\ SchedInv /\ [Next]_vars => SchedInv'
<1>1. Init => SchedInv
  BY DEF Init, SchedInv, QueuedRunForSchedule
<1>2. ASSUME SchedInv, UNCHANGED vars PROVE SchedInv'
  BY <1>2 DEF vars, dbVars, calls, SchedInv, QueuedRunForSchedule
<1>3. ASSUME TypeOK, ClaimInv, SchedInv, Next PROVE SchedInv'
  <2>1. CASE \A c \in Clients : ~EnqueueCreate(c)
    <3>1. NoneActivated
      BY <1>3, <2>1, OnlyCreateActivates
    <3>2. \A s : QueuedRunForSchedule(s)' \subseteq QueuedRunForSchedule(s)
      BY <3>1 DEF NoneActivated, QueuedRunForSchedule
    <3>3. \A s \in Schedules : \A x, y \in QueuedRunForSchedule(s)' : x = y
      BY <1>3, <3>2 DEF SchedInv
    <3>4. ASSUME NEW c \in Clients, pc'[c] = "create", req'[c].schedule # None
          PROVE  QueuedRunForSchedule(req[c].schedule)' = {}
      <4>1. CASE pc[c] = "create" /\ req'[c] = req[c]
        <5>1. QueuedRunForSchedule(req[c].schedule) = {}
          BY <1>3, <3>4, <4>1 DEF SchedInv
        <5> QED BY <3>1, <4>1, <5>1 DEF NoneActivated, QueuedRunForSchedule
      <4>2. ASSUME NEW q \in Requests, EnqueueLock(c, q)
            PROVE  QueuedRunForSchedule(req[c].schedule)' = {}
        <5>1. req'[c] = q /\ UNCHANGED <<dbStatus, dbSchedule>>
          BY <1>3, <4>2 DEF EnqueueLock, dbVars, TypeOK
        <5>2. QueuedRunForSchedule(q.schedule) = {}
          BY <3>4, <4>2, <5>1 DEF EnqueueLock
        <5> QED BY <5>1, <5>2 DEF QueuedRunForSchedule
      <4> QED BY <1>3, <3>4, <4>1, <4>2, OnlyLockCreates
    <3> QED BY <3>3, <3>4 DEF SchedInv
  <2>2. ASSUME NEW c \in Clients, EnqueueCreate(c) PROVE SchedInv'
    <3>1. PICK r \in Runs :
            /\ dbStatus' = [dbStatus EXCEPT ![r] = "queued"]
            /\ dbSchedule' = [dbSchedule EXCEPT ![r] = req[c].schedule]
      BY <2>2 DEF EnqueueCreate
    <3>2. /\ pc[c] = "create" /\ pc' = [pc EXCEPT ![c] = "begin"]
      BY <2>2 DEF EnqueueCreate, Goto
    <3>3. \A d \in Clients : pc'[d] # "create"
      BY <1>3, <3>2 DEF ClaimInv, Locked, TypeOK, PcOK
    <3>4. ASSUME NEW s \in Schedules
          PROVE  \A x, y \in QueuedRunForSchedule(s)' : x = y
      <4>0. s # None
        BY ProcAssumption
      <4>1. /\ \A x \in Runs \ {r} : /\ dbSchedule'[x] = dbSchedule[x]
                                     /\ dbStatus'[x] = dbStatus[x]
            /\ dbSchedule'[r] = req[c].schedule
        BY <1>3, <3>1 DEF TypeOK
      <4>2. CASE req[c].schedule = s
        <5>1. QueuedRunForSchedule(s) = {}
          BY <1>3, <3>2, <4>0, <4>2 DEF SchedInv
        <5> QED BY <4>1, <5>1 DEF QueuedRunForSchedule
      <4>3. CASE req[c].schedule # s
        <5>1. QueuedRunForSchedule(s)' \subseteq QueuedRunForSchedule(s)
          BY <4>1, <4>3 DEF QueuedRunForSchedule
        <5> QED BY <1>3, <5>1 DEF SchedInv
      <4> QED BY <4>2, <4>3
    <3> QED BY <3>3, <3>4 DEF SchedInv
  <2> QED BY <2>1, <2>2
<1> QED BY <1>1, <1>2, <1>3

(* However many goroutines call Enqueue for one schedule, at most one run  *)
(* of it is queued or running at a time.                                   *)
THEOREM NoOverlappingRuns == Spec => []OneActivePerSchedule
<1>1. ASSUME SchedInv PROVE OneActivePerSchedule
  <2> SUFFICES ASSUME NEW s \in Schedules
               PROVE  Cardinality(QueuedRunForSchedule(s)) <= 1
    BY DEF OneActivePerSchedule, QueuedRunForSchedule
  <2>1. CASE QueuedRunForSchedule(s) = {}
    BY <2>1, FS_EmptySet
  <2>2. CASE QueuedRunForSchedule(s) # {}
    <3>1. PICK x : x \in QueuedRunForSchedule(s)
      BY <2>2
    <3>2. QueuedRunForSchedule(s) = {x}
      BY <1>1, <3>1 DEF SchedInv
    <3> QED BY <3>2, FS_Singleton
  <2> QED BY <2>1, <2>2
<1>2. Spec => []SchedInv
  BY JobsAlways, SchedInductive, PTL DEF Spec
<1> QED BY <1>1, <1>2, PTL
=============================================================================
