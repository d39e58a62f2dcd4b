--------------------------- MODULE RunnerOutcomes ---------------------------
(* Proofs about what Runner leaves in the runs and results tables: how runs *)
(* end, which rows they have, and that the tables keep the promise of       *)
(* RunLifecycle.                                                            *)
EXTENDS RunnerProofs

USE DEF Procs, Active, Terminal

(***************************************************************************)
(* What a step can do to each variable.                                    *)
(***************************************************************************)

(* The labels of a worker between markStarted and finishQueue.             *)
Working == {"running", "doneCount", "publish", "loop", "test", "recover", "mark"}

(* The status writes: CreateRun, the write of "running", the terminal      *)
(* write of a run's owner, cancelOrphan's and the reaping at start.        *)
Created(c, r) ==
  /\ EnqueueCreate(c) /\ pc[c] = "create" /\ dbStatus[r] = "none"
  /\ dbStatus' = [dbStatus EXCEPT ![r] = "queued"]
  /\ arg' = [arg EXCEPT ![c] = r] /\ pc' = [pc EXCEPT ![c] = "begin"]
Began(q) ==
  /\ SetRunning(q) /\ pc[q] = "running" /\ dbStatus[arg[q]] \in Active
  /\ dbStatus' = [dbStatus EXCEPT ![arg[q]] = "running"]
Ended(p) ==
  /\ FinalWrite(p) /\ pc[p] = "write" /\ dbStatus[arg[p]] \in Active
  /\ dbStatus' = [dbStatus EXCEPT ![arg[p]] = goal[p]]
  /\ pc' = [pc EXCEPT ![p] = "settle"] /\ arg' = arg
OrphanEnded(c) ==
  /\ OrphanWrite(c) /\ pc[c] = "orphanWrite" /\ dbStatus[arg[c]] \in Active
  /\ dbStatus' = [dbStatus EXCEPT ![arg[c]] = "canceled"]

(* Everything a step can do to the status column. *)
LEMMA StatusStep ==
  ASSUME TypeOK, Next
  PROVE  \/ dbStatus' = dbStatus
         \/ \E c \in Clients, r \in Runs : Created(c, r)
         \/ \E q \in Queues : Began(q)
         \/ \E p \in Procs : Ended(p)
         \/ \E c \in Clients : OrphanEnded(c)
         \/ ReapOrphanedRuns
<1> USE DEF dbVars, muVars, calls, bounds
<1>1. ASSUME NEW c \in Clients, CallStep(c) \/ ClientStep(c)
      PROVE  \/ dbStatus' = dbStatus \/ OrphanEnded(c)
             \/ \E r \in Runs : Created(c, r)
  <2>1. CASE OrphanWrite(c)
    BY <2>1 DEF OrphanWrite, OrphanEnded, setRunStatus, Updatable, TypeOK, PcOK, Vacant
  <2>2. CASE EnqueueCreate(c)
    BY <2>2 DEF EnqueueCreate, Created, Goto
  <2>3. CASE ~OrphanWrite(c) /\ ~EnqueueCreate(c)
    BY <1>1, <2>3 DEF CallStep, ClientStep, EnqueueLock, CancelStarted,
       CancelQueued, CancelUntracked, EnqueueCreateFails, beginFinalize,
       EnqueueRefused, EnqueueFull, EnqueueSend, cancelOrphan, OrphanGetRun,
       OrphanEnd
  <2> QED BY <2>1, <2>2, <2>3
<1>2. ASSUME NEW q \in Queues, WorkerStep(q) \/ EngineStep(q)
      PROVE  dbStatus' = dbStatus \/ Began(q)
  <2>1. CASE SetRunning(q)
    BY <2>1 DEF SetRunning, Began, setRunStatus, Updatable, TypeOK, PcOK, Vacant
  <2>2. CASE ~SetRunning(q)
    BY <1>2, <2>2 DEF WorkerStep, EngineStep, Receive, executeGone,
       executeCanceled, execute, doneCount, PublishRunning, NextTarget,
       Recover, markTargetDone, finishGone, finishQueue, finishRun, runTarget,
       runTargetPanics
  <2> QED BY <2>1, <2>2
<1>3. ASSUME NEW p \in Procs, FinalWrite(p) \/ endFinalize(p)
      PROVE  dbStatus' = dbStatus \/ Ended(p)
  <2>1. CASE FinalWrite(p)
    BY <2>1 DEF FinalWrite, Ended, setRunStatus, Updatable, Goto, TypeOK, PcOK, Vacant
  <2>2. CASE endFinalize(p)
    BY <2>2 DEF endFinalize
  <2> QED BY <1>3, <2>1, <2>2
<1>4. ASSUME ShutdownBegin \/ MainStep \/ Crash PROVE dbStatus' = dbStatus
  BY <1>4 DEF ShutdownBegin, MainStep, ShutdownDrained, ShutdownGrace,
     ShutdownAwait, ShutdownReturn, claimForForceCancel, forceCancelGone, Crash
<1> QED BY <1>1, <1>2, <1>3, <1>4 DEF Next

(* The status writes as one row sees them. *)
LEMMA RowStep ==
  ASSUME TypeOK, Next, NEW r \in Runs
  PROVE  \/ dbStatus'[r] = dbStatus[r]
         \/ /\ dbStatus[r] = "none" /\ dbStatus'[r] = "queued"
            /\ \E c \in Clients : Created(c, r)
         \/ /\ dbStatus[r] \in Active /\ dbStatus'[r] = "running"
            /\ \E q \in Queues : Began(q) /\ arg[q] = r
         \/ /\ dbStatus[r] \in Active
            /\ \E p \in Procs : Ended(p) /\ arg[p] = r /\ dbStatus'[r] = goal[p]
         \/ /\ dbStatus[r] \in Active /\ dbStatus'[r] = "canceled"
            /\ \E c \in Clients : OrphanEnded(c) /\ arg[c] = r
         \/ ReapOrphanedRuns /\ dbStatus'[r] = Reaped(dbStatus[r])
<1>0. dbStatus \in [Runs -> Active \cup Terminal \cup {"none"}]
  BY DEF TypeOK
<1>1. ASSUME NEW c \in Clients, NEW x \in Runs, Created(c, x)
      PROVE  \/ dbStatus'[r] = dbStatus[r]
             \/ dbStatus[r] = "none" /\ dbStatus'[r] = "queued" /\ Created(c, r)
  <2>1. dbStatus[x] = "none" /\ dbStatus' = [dbStatus EXCEPT ![x] = "queued"]
    BY <1>1 DEF Created
  <2> QED BY <1>0, <1>1, <2>1
<1>2. ASSUME NEW q \in Queues, Began(q)
      PROVE  \/ dbStatus'[r] = dbStatus[r]
             \/ dbStatus[r] \in Active /\ dbStatus'[r] = "running" /\ arg[q] = r
  BY <1>0, <1>2 DEF Began
<1>3. ASSUME NEW p \in Procs, Ended(p)
      PROVE  \/ dbStatus'[r] = dbStatus[r]
             \/ dbStatus[r] \in Active /\ arg[p] = r /\ dbStatus'[r] = goal[p]
  BY <1>0, <1>3 DEF Ended
<1>4. ASSUME NEW c \in Clients, OrphanEnded(c)
      PROVE  \/ dbStatus'[r] = dbStatus[r]
             \/ dbStatus[r] \in Active /\ dbStatus'[r] = "canceled" /\ arg[c] = r
  BY <1>0, <1>4 DEF OrphanEnded
<1>5. CASE ReapOrphanedRuns
  BY <1>5 DEF ReapOrphanedRuns
<1> QED BY <1>1, <1>2, <1>3, <1>4, <1>5, StatusStep

(* A run enters r.runs only by EnqueueSend, and the transit marks only     *)
(* from r.runs or at beginFinalize.                                        *)
LEMMA TrackedStep ==
  ASSUME TypeOK, Next
  PROVE  /\ \/ tracked' \subseteq tracked
            \/ \E c \in Clients : EnqueueSend(c) /\ tracked' = tracked \cup {arg[c]}
         /\ \/ finalizing' \subseteq finalizing \cup tracked
            \/ \E c \in Clients : beginFinalize(c) /\ finalizing' = finalizing \cup {arg[c]}
<1> USE DEF dbVars, muVars, calls, bounds, claim
<1>1. ASSUME NEW c \in Clients, CallStep(c) \/ ClientStep(c)
      PROVE  /\ \/ tracked' \subseteq tracked
                \/ EnqueueSend(c) /\ tracked' = tracked \cup {arg[c]}
             /\ \/ finalizing' \subseteq finalizing \cup tracked
                \/ beginFinalize(c) /\ finalizing' = finalizing \cup {arg[c]}
  BY <1>1 DEF CallStep, ClientStep, EnqueueLock, CancelStarted,
       CancelQueued, CancelUntracked, EnqueueCreate, EnqueueCreateFails,
       beginFinalize, EnqueueRefused, EnqueueFull, EnqueueSend, cancelOrphan,
       OrphanGetRun, OrphanWrite, OrphanEnd
<1>2. ASSUME NEW q \in Queues, WorkerStep(q) \/ EngineStep(q)
      PROVE  tracked' \subseteq tracked /\ finalizing' \subseteq finalizing \cup tracked
  BY <1>2 DEF WorkerStep, EngineStep, Receive, executeGone,
       executeCanceled, execute, SetRunning, doneCount, PublishRunning,
       NextTarget, Recover, markTargetDone, finishGone, finishQueue, finishRun,
       runTarget, runTargetPanics
<1>3. ASSUME NEW p \in Procs, FinalWrite(p) \/ endFinalize(p)
      PROVE  tracked' \subseteq tracked /\ finalizing' \subseteq finalizing \cup tracked
  BY <1>3 DEF FinalWrite, endFinalize
<1>4. ASSUME ShutdownBegin \/ MainStep \/ Crash \/ ReapOrphanedRuns
      PROVE  tracked' \subseteq tracked /\ finalizing' \subseteq finalizing \cup tracked
  BY <1>4 DEF ShutdownBegin, MainStep, ShutdownDrained, ShutdownGrace,
     ShutdownAwait, ShutdownReturn, claimForForceCancel, forceCancelGone, Crash,
     ReapOrphanedRuns
<1> QED BY <1>1, <1>2, <1>3, <1>4 DEF Next

(* Result rows are only inserted, by a worker with a target in flight.     *)
LEMMA ResultStep ==
  ASSUME TypeOK, Next
  PROVE  \/ results' = results
         \/ \E q \in Queues, s \in {"ok", "failed"} :
              /\ pc[q] \in {"test", "recover"} /\ InsertResult(q, s)
              /\ pc'[q] \in {"mark", "finish"}
              /\ UNCHANGED <<dbStatus, plan, tracked, finalizing, chan, st, arg>>
<1> USE DEF dbVars, muVars, calls, bounds
<1>1. ASSUME NEW c \in Clients, CallStep(c) \/ ClientStep(c) PROVE results' = results
  BY <1>1 DEF CallStep, ClientStep, EnqueueLock, CancelStarted,
       CancelQueued, CancelUntracked, EnqueueCreate, EnqueueCreateFails,
       beginFinalize, EnqueueRefused, EnqueueFull, EnqueueSend, cancelOrphan,
       OrphanGetRun, OrphanWrite, OrphanEnd
<1>2. ASSUME NEW q \in Queues, WorkerStep(q) \/ EngineStep(q)
      PROVE  \/ results' = results
             \/ \E s \in {"ok", "failed"} :
                  /\ pc[q] \in {"test", "recover"} /\ InsertResult(q, s)
                  /\ pc'[q] \in {"mark", "finish"}
                  /\ UNCHANGED <<dbStatus, plan, tracked, finalizing, chan, st, arg>>
  <2>0. q \in Procs /\ pc \in [Procs -> ClientLabels \cup WorkerLabels \cup MainLabels]
    BY DEF TypeOK, PcOK
  <2>1. CASE runTarget(q)
    BY <2>0, <2>1 DEF runTarget, Goto
  <2>2. CASE runTargetPanics(q)
    BY <2>0, <2>2 DEF runTargetPanics, Goto, AfterPanic
  <2>3. CASE Recover(q)
    BY <2>0, <2>3 DEF Recover, Goto
  <2>4. CASE WorkerStep(q) /\ ~Recover(q)
    BY <2>4 DEF WorkerStep, Receive, executeGone,
       executeCanceled, execute, SetRunning, doneCount, PublishRunning,
       NextTarget, markTargetDone, finishGone, finishQueue, finishRun
  <2> QED BY <1>2, <2>1, <2>2, <2>3, <2>4 DEF EngineStep
<1>3. ASSUME NEW p \in Procs, FinalWrite(p) \/ endFinalize(p) PROVE results' = results
  BY <1>3 DEF FinalWrite, endFinalize
<1>4. ASSUME ShutdownBegin \/ MainStep \/ Crash \/ ReapOrphanedRuns
      PROVE  results' = results
  BY <1>4 DEF ShutdownBegin, MainStep, ShutdownDrained, ShutdownGrace,
     ShutdownAwait, ShutdownReturn, claimForForceCancel, forceCancelGone, Crash,
     ReapOrphanedRuns
<1> QED BY <1>1, <1>2, <1>3, <1>4 DEF Next

(* The locals of every process but o are as they were. *)
Solo(o) ==
  /\ \A p \in Procs \ {o} :
       pc'[p] = pc[p] /\ arg'[p] = arg[p] /\ goal'[p] = goal[p]
  /\ \A q \in Queues \ {o} : job'[q] = job[q]

(* Returning moves one process and clears its argument. *)
LEMMA SoloReturn ==
  ASSUME TypeOK, NEW p \in Procs, Return(p)
  PROVE  /\ Solo(p) /\ arg'[p] = None
         /\ pc'[p] = IF p = Main THEN "force" ELSE "idle"
  BY DEF Return, Solo, TypeOK, PcOK

(* A jump moves one process, whatever it does to its own locals. *)
LEMMA SoloGoto ==
  ASSUME TypeOK, NEW p \in Procs, NEW l, Goto(p, l),
         arg' = arg \/ \E r : arg' = [arg EXCEPT ![p] = r],
         goal' = goal \/ \E s : goal' = [goal EXCEPT ![p] = s],
         job' = job \/ \E j : job' = [job EXCEPT ![p] = j]
  PROVE  Solo(p) /\ pc'[p] = l
  BY DEF Goto, Solo, TypeOK, PcOK

(* A client's step, and where it can take the client. *)
LEMMA ClientGoes ==
  ASSUME TypeOK, NEW c \in Clients, CallStep(c) \/ ClientStep(c)
  PROVE  /\ Solo(c)
         /\ pc'[c] = "write" =>
              \/ /\ pc[c] = "idle" /\ arg'[c] \in tracked /\ goal'[c] = "canceled"
                 /\ CancelQueued(c, arg'[c])
              \/ /\ pc[c] = "insert" /\ arg'[c] = arg[c]
                 /\ EnqueueRefused(c) \/ EnqueueFull(c)
              \/ pc[c] = "write" /\ arg'[c] = arg[c] /\ goal'[c] = goal[c]
         /\ pc'[c] \in {"begin", "insert"} =>
              \/ pc[c] \in {"begin", "insert"} /\ arg'[c] = arg[c]
              \/ \E r \in Runs : Created(c, r) /\ arg'[c] = r
<1> USE DEF dbVars, muVars, calls, bounds
<1>0. c \in Procs /\ c \notin Queues /\ c # Main
  BY ClientFacts
<1> DEFINE G == /\ Solo(c)
                /\ pc'[c] = "write" =>
                     \/ /\ pc[c] = "idle" /\ arg'[c] \in tracked /\ goal'[c] = "canceled"
                        /\ CancelQueued(c, arg'[c])
                     \/ /\ pc[c] = "insert" /\ arg'[c] = arg[c]
                        /\ EnqueueRefused(c) \/ EnqueueFull(c)
                     \/ pc[c] = "write" /\ arg'[c] = arg[c] /\ goal'[c] = goal[c]
                /\ pc'[c] \in {"begin", "insert"} =>
                     \/ pc[c] \in {"begin", "insert"} /\ arg'[c] = arg[c]
                     \/ \E r \in Runs : Created(c, r) /\ arg'[c] = r
<1> SUFFICES G
  OBVIOUS
<1>1. ASSUME NEW q \in Requests, EnqueueLock(c, q) PROVE G
  BY <1>0, <1>1, SoloGoto DEF EnqueueLock
<1>2. ASSUME NEW r \in Runs, CancelStarted(c, r) PROVE G
  BY <1>2 DEF CancelStarted, Solo
<1>3. ASSUME NEW r \in Runs, CancelQueued(c, r) PROVE G
  <2>1. Solo(c) /\ pc'[c] = "write" /\ pc[c] = "idle"
    BY <1>0, <1>3, SoloGoto DEF CancelQueued
  <2>2. arg'[c] = r /\ r \in tracked /\ goal'[c] = "canceled"
    BY <1>0, <1>3 DEF CancelQueued, TypeOK, PcOK
  <2> QED BY <1>3, <2>1, <2>2
<1>4. ASSUME NEW r \in Runs, CancelUntracked(c, r) PROVE G
  <2>1. /\ Goto(c, "orphan") /\ \E x : arg' = [arg EXCEPT ![c] = x]
        /\ goal' = goal /\ job' = job
    BY <1>4 DEF CancelUntracked
  <2>2. Solo(c) /\ pc'[c] = "orphan"
    BY <1>0, <2>1, SoloGoto
  <2> QED BY <2>2
<1>5. CASE EnqueueCreate(c)
  <2>1. Solo(c) /\ pc'[c] = "begin"
    BY <1>0, <1>5, SoloGoto DEF EnqueueCreate
  <2>2. \E r \in Runs : Created(c, r) /\ arg'[c] = r
    BY <1>0, <1>5 DEF EnqueueCreate, Created, Goto, TypeOK, PcOK
  <2> QED BY <2>1, <2>2
<1>6. CASE EnqueueCreateFails(c)
  BY <1>0, <1>6, SoloGoto DEF EnqueueCreateFails
<1>7. CASE beginFinalize(c)
  BY <1>0, <1>7, SoloGoto DEF beginFinalize
<1>8. CASE EnqueueRefused(c)
  <2>1. Solo(c) /\ pc'[c] = "write"
    BY <1>0, <1>8, SoloGoto DEF EnqueueRefused
  <2> QED BY <1>8, <2>1 DEF EnqueueRefused
<1>9. CASE EnqueueFull(c)
  <2>1. Solo(c) /\ pc'[c] = "write"
    BY <1>0, <1>9, SoloGoto DEF EnqueueFull
  <2> QED BY <1>9, <2>1 DEF EnqueueFull
<1>10. CASE EnqueueSend(c)
  BY <1>0, <1>10, SoloReturn DEF EnqueueSend
<1>11. CASE cancelOrphan(c) \/ OrphanGetRun(c) \/ OrphanEnd(c)
  <2>1. \/ Return(c)
        \/ \E l \in {"getRun", "orphanWrite"} : Goto(c, l) /\ UNCHANGED <<arg, goal, job>>
    BY <1>11 DEF cancelOrphan, OrphanGetRun, OrphanEnd
  <2> QED BY <1>0, <2>1, SoloGoto, SoloReturn
<1>12. CASE OrphanWrite(c)
  <2>1. \E l \in {"orphanEnd", "orphanFail"} : Goto(c, l) /\ UNCHANGED <<arg, goal, job>>
    BY <1>12 DEF OrphanWrite, setRunStatus
  <2> QED BY <1>0, <2>1, SoloGoto
<1> QED
  BY <1>1, <1>2, <1>3, <1>4, <1>5, <1>6, <1>7, <1>8, <1>9, <1>10, <1>11, <1>12
  DEF CallStep, ClientStep

(* A worker's step, and where it can take the worker. *)
LEMMA WorkerGoes ==
  ASSUME TypeOK, NEW q \in Queues, WorkerStep(q) \/ EngineStep(q)
  PROVE  /\ Solo(q) /\ pc'[q] \notin {"begin", "insert", "down"}
         /\ pc'[q] = "write" => finishRun(q) /\ arg'[q] = arg[q] /\ arg[q] \in tracked
         /\ pc'[q] \in Working => \/ pc[q] \in Working /\ arg'[q] = arg[q]
                                  \/ execute(q) /\ arg'[q] = arg[q]
<1> USE DEF dbVars, muVars, calls, bounds
<1>0. q \in Procs /\ q \notin Clients /\ q # Main
  BY ProcAssumption
<1> DEFINE G == /\ Solo(q) /\ pc'[q] \notin {"begin", "insert", "down"}
                /\ pc'[q] = "write" =>
                     finishRun(q) /\ arg'[q] = arg[q] /\ arg[q] \in tracked
                /\ pc'[q] \in Working => \/ pc[q] \in Working /\ arg'[q] = arg[q]
                                         \/ execute(q) /\ arg'[q] = arg[q]
<1>1. CASE executeGone(q) \/ finishGone(q) \/ finishQueue(q)
  <2>1. Return(q)
    BY <1>1 DEF executeGone, finishGone, finishQueue
  <2> QED BY <1>0, <2>1, SoloReturn DEF Working
<1>2. CASE Receive(q)
  <2>1. /\ Goto(q, "start") /\ \E x : arg' = [arg EXCEPT ![q] = x]
        /\ goal' = goal /\ job' = job
    BY <1>2 DEF Receive
  <2>2. Solo(q) /\ pc'[q] = "start"
    BY <1>0, <2>1, SoloGoto
  <2> QED BY <2>2 DEF Working
<1>3. CASE execute(q)
  <2>1. Solo(q) /\ pc'[q] = "running"
    BY <1>0, <1>3, SoloGoto DEF execute
  <2> QED BY <1>3, <2>1 DEF execute
<1>4. CASE SetRunning(q)
  <2>1. \E l \in {"doneCount", "loop"} : Goto(q, l) /\ UNCHANGED <<arg, goal, job>>
    BY <1>4 DEF SetRunning, setRunStatus
  <2> QED BY <1>0, <1>4, <2>1, SoloGoto DEF SetRunning, Working
<1>5. CASE executeCanceled(q)
  <2>1. /\ Goto(q, "finish") /\ \E j : job' = [job EXCEPT ![q] = j]
        /\ goal' = goal /\ arg' = arg
    BY <1>5 DEF executeCanceled
  <2>2. Solo(q) /\ pc'[q] = "finish"
    BY <1>0, <2>1, SoloGoto
  <2> QED BY <2>2 DEF Working
<1>6. CASE \/ doneCount(q) \/ PublishRunning(q) \/ NextTarget(q) \/ Recover(q)
           \/ markTargetDone(q) \/ EngineStep(q)
  <2> USE DEF doneCount, PublishRunning, NextTarget, Recover, markTargetDone,
              EngineStep, runTarget, runTargetPanics
  <2>1. arg' = arg /\ goal' = goal /\ pc[q] \in Working
    BY <1>6 DEF Working
  <2>2. job' = job \/ \E j : job' = [job EXCEPT ![q] = j]
    BY <1>6
  <2>3. PICK l \in Working \cup {"finish"} : Goto(q, l)
    BY <1>6 DEF Working, AfterTarget, AfterPanic
  <2> HIDE DEF doneCount, PublishRunning, NextTarget, Recover, markTargetDone,
               EngineStep
  <2> QED BY <1>0, <2>1, <2>2, <2>3, SoloGoto DEF Working
<1>7. CASE finishRun(q)
  <2>1. Solo(q) /\ pc'[q] = "write"
    BY <1>0, <1>7, SoloGoto DEF finishRun
  <2> QED BY <1>7, <2>1 DEF finishRun, Working
<1> QED BY <1>1, <1>2, <1>3, <1>4, <1>5, <1>6, <1>7 DEF WorkerStep

(* A step of a run's owner. *)
LEMMA FinalGoes ==
  ASSUME TypeOK, NEW p \in Procs, FinalWrite(p) \/ endFinalize(p)
  PROVE  Solo(p) /\ pc[p] \in Final /\ pc'[p] \in {"settle", "resign", "idle", "force"}
<1> USE DEF dbVars, muVars, calls, bounds
<1>1. CASE FinalWrite(p)
  <2>1. \E l \in {"settle", "resign"} : Goto(p, l) /\ UNCHANGED <<arg, goal, job>>
    BY <1>1 DEF FinalWrite, setRunStatus, AfterWriteFails
  <2> QED BY <1>1, <2>1, SoloGoto DEF FinalWrite, Final
<1>2. CASE endFinalize(p)
  BY <1>2, SoloReturn DEF endFinalize, Final
<1> QED BY <1>1, <1>2

(* A step of Shutdown or of the start. *)
LEMMA MainGoes ==
  ASSUME TypeOK, ShutdownBegin \/ MainStep \/ ReapOrphanedRuns
  PROVE  /\ Solo(Main) /\ pc'[Main] \notin {"begin", "insert", "down"}
         /\ pc'[Main] = "write" => /\ arg'[Main] \in tracked
                                   /\ claimForForceCancel(arg'[Main])
                                   /\ goal'[Main] = "canceled"
<1> USE DEF dbVars, muVars, calls, bounds
<1>0. Main \in Procs /\ Main \notin Queues
  BY ProcAssumption
<1>1. CASE \/ ShutdownBegin \/ ShutdownDrained \/ ShutdownGrace
           \/ ShutdownAwait \/ ShutdownReturn \/ ReapOrphanedRuns
  <2> USE DEF ShutdownBegin, ShutdownDrained, ShutdownGrace, ShutdownAwait,
              ShutdownReturn, ReapOrphanedRuns
  <2>1. UNCHANGED <<arg, goal, job>>
    BY <1>1
  <2>2. \E l \in {"drain", "stopped", "await", "force", "idle"} : Goto(Main, l)
    BY <1>1
  <2> QED BY <1>0, <2>1, <2>2, SoloGoto
<1>2. ASSUME NEW r \in Runs, claimForForceCancel(r)
      PROVE  /\ Solo(Main) /\ pc'[Main] = "write"
             /\ arg'[Main] \in tracked /\ claimForForceCancel(arg'[Main])
             /\ goal'[Main] = "canceled"
  <2>1. Solo(Main) /\ pc'[Main] = "write"
    BY <1>0, <1>2, SoloGoto DEF claimForForceCancel
  <2>2. arg'[Main] = r /\ goal'[Main] = "canceled"
    BY <1>0, <1>2 DEF claimForForceCancel, TypeOK, PcOK
  <2> QED BY <1>2, <2>1, <2>2 DEF claimForForceCancel
<1>3. ASSUME NEW r \in Runs, forceCancelGone(r)
      PROVE  Solo(Main) /\ pc'[Main] = "force"
  BY <1>3 DEF forceCancelGone, Solo
<1> QED BY <1>1, <1>2, <1>3 DEF MainStep

(* Every step is the step of one process, or the death of them all. *)
LEMMA Shape ==
  ASSUME TypeOK, Next
  PROVE  \/ \E c \in Clients : (CallStep(c) \/ ClientStep(c)) /\ Solo(c)
         \/ \E q \in Queues : (WorkerStep(q) \/ EngineStep(q)) /\ Solo(q)
         \/ \E p \in Procs : (FinalWrite(p) \/ endFinalize(p)) /\ Solo(p)
         \/ (ShutdownBegin \/ MainStep \/ ReapOrphanedRuns) /\ Solo(Main)
         \/ Crash
  BY ClientGoes, WorkerGoes, FinalGoes, MainGoes DEF Next

(* What happens to the runState of one run: Enqueue makes it; Cancel and   *)
(* Shutdown mark a tracked run; the workers of a tracked run mark it       *)
(* started, count its targets and record their outcome.                    *)
LEMMA StateStep ==
  ASSUME TypeOK, Next, NEW r \in Runs
  PROVE  \/ st'[r] = st[r]
         \/ \E c \in Clients :
              /\ EnqueueSend(c) \/ EnqueueFull(c)
              /\ pc[c] = "insert" /\ arg[c] = r
              /\ st'[r] = NewState(Cardinality(QueuesOf(r)))
         \/ r \in tracked /\ st'[r] = [st[r] EXCEPT !.canceled = TRUE]
         \/ /\ r \in tracked
            /\ \E q \in Queues :
                 /\ arg[q] = r
                 /\ \/ execute(q) /\ st'[r] = [st[r] EXCEPT !.started = TRUE]
                    \/ markTargetDone(q) /\ st'[r] = [st[r] EXCEPT !.done = Stepped(r, q)]
                    \/ (finishQueue(q) \/ finishRun(q)) /\ st'[r] = Outcome(r, q)
         \/ Crash /\ st'[r] = NewState(0)
<1> USE DEF dbVars, muVars, calls, bounds
<1>0. st \in [Runs -> RunState] /\ \A p \in Procs : arg[p] \in Runs \cup {None}
  BY DEF TypeOK, PcOK
<1> DEFINE Can == r \in tracked /\ st'[r] = [st[r] EXCEPT !.canceled = TRUE]
           Ins(c) == /\ EnqueueSend(c) \/ EnqueueFull(c)
                     /\ pc[c] = "insert" /\ arg[c] = r
                     /\ st'[r] = NewState(Cardinality(QueuesOf(r)))
           Wrk(q) == /\ r \in tracked /\ arg[q] = r
                     /\ \/ execute(q) /\ st'[r] = [st[r] EXCEPT !.started = TRUE]
                        \/ markTargetDone(q) /\ st'[r] = [st[r] EXCEPT !.done = Stepped(r, q)]
                        \/ (finishQueue(q) \/ finishRun(q)) /\ st'[r] = Outcome(r, q)
<1>1. ASSUME NEW c \in Clients, CallStep(c) \/ ClientStep(c)
      PROVE  st'[r] = st[r] \/ Can \/ Ins(c)
  <2>1. CASE \E x \in Runs : CancelStarted(c, x) \/ CancelQueued(c, x)
    <3>1. PICK x \in tracked : st' = [st EXCEPT ![x].canceled = TRUE]
      BY <2>1 DEF CancelStarted, CancelQueued
    <3> QED BY <1>0, <3>1
  <2>2. CASE EnqueueSend(c) \/ EnqueueFull(c)
    <3>1. pc[c] = "insert" /\ st' = [st EXCEPT ![arg[c]] = NewState(Cardinality(QueuesOf(arg[c])))]
      BY <2>2 DEF EnqueueSend, EnqueueFull
    <3>2. CASE arg[c] = r
      BY <1>0, <2>2, <3>1, <3>2
    <3>3. CASE arg[c] # r
      BY <1>0, <3>1, <3>3
    <3> QED BY <3>2, <3>3
  <2>3. CASE /\ ~EnqueueSend(c) /\ ~EnqueueFull(c)
             /\ ~ \E x \in Runs : CancelStarted(c, x) \/ CancelQueued(c, x)
    <3>1. st' = st
      BY <1>1, <2>3 DEF CallStep, ClientStep, EnqueueLock, CancelUntracked,
         EnqueueCreate, EnqueueCreateFails, beginFinalize, EnqueueRefused,
         cancelOrphan, OrphanGetRun, OrphanWrite, OrphanEnd
    <3> QED BY <3>1
  <2> QED BY <2>1, <2>2, <2>3
<1>2. ASSUME NEW q \in Queues, WorkerStep(q) \/ EngineStep(q)
      PROVE  st'[r] = st[r] \/ Wrk(q)
  <2>1. CASE execute(q)
    <3>1. arg[q] \in tracked /\ st' = [st EXCEPT ![arg[q]].started = TRUE]
      BY <2>1 DEF execute, markStarted
    <3> QED BY <1>0, <2>1, <3>1
  <2>2. CASE markTargetDone(q)
    <3>1. \/ st' = st
          \/ arg[q] \in tracked /\ st' = [st EXCEPT ![arg[q]].done = Stepped(arg[q], q)]
      BY <2>2 DEF markTargetDone
    <3> QED BY <1>0, <2>2, <3>1
  <2>3. CASE finishQueue(q) \/ finishRun(q)
    <3>1. arg[q] \in tracked /\ st' = [st EXCEPT ![arg[q]] = Outcome(arg[q], q)]
      BY <2>3 DEF finishQueue, finishRun
    <3> QED BY <1>0, <2>3, <3>1
  <2>4. CASE ~execute(q) /\ ~markTargetDone(q) /\ ~finishQueue(q) /\ ~finishRun(q)
    <3>1. st' = st
      BY <1>2, <2>4 DEF WorkerStep, EngineStep, Receive, executeGone,
         executeCanceled, SetRunning, doneCount, PublishRunning, NextTarget,
         Recover, finishGone, runTarget, runTargetPanics
    <3> QED BY <3>1
  <2> QED BY <2>1, <2>2, <2>3, <2>4
<1>3. ASSUME NEW p \in Procs, FinalWrite(p) \/ endFinalize(p) PROVE st' = st
  BY <1>3 DEF FinalWrite, endFinalize
<1>4. ASSUME ShutdownBegin \/ MainStep \/ ReapOrphanedRuns PROVE st'[r] = st[r] \/ Can
  <2>1. CASE ShutdownGrace
    BY <2>1 DEF ShutdownGrace
  <2>2. CASE ~ShutdownGrace
    BY <1>4, <2>2 DEF ShutdownBegin, MainStep, ShutdownDrained, ShutdownAwait,
       ShutdownReturn, claimForForceCancel, forceCancelGone, ReapOrphanedRuns
  <2> QED BY <2>1, <2>2
<1>5. CASE Crash
  BY <1>5 DEF Crash
<1> QED BY <1>1, <1>2, <1>3, <1>4, <1>5 DEF Next

(* The flags of a runState only ever rise while the run is known, and only *)
(* those of a tracked run change.                                          *)
LEMMA FlagStep ==
  ASSUME TypeOK, Next, NEW r \in Runs
  PROVE  /\ st'[r].canceled => st[r].canceled \/ r \in tracked
         /\ st[r].started => \/ st'[r].started \/ Crash
                             \/ \E c \in Clients : pc[c] = "insert" /\ arg[c] = r
         /\ r \in tracked =>
              \/ Crash \/ \E c \in Clients : pc[c] = "insert" /\ arg[c] = r
              \/ /\ st[r].failed => st'[r].failed
                 /\ st[r].canceled => st'[r].canceled
<1>0. st[r] \in RunState
  BY DEF TypeOK
<1>1. CASE st'[r] = st[r]
  BY <1>1
<1>2. ASSUME NEW c \in Clients, pc[c] = "insert", arg[c] = r,
             st'[r] = NewState(Cardinality(QueuesOf(r)))
      PROVE  ~st'[r].canceled
  BY <1>2 DEF NewState
<1>3. CASE r \in tracked /\ st'[r] = [st[r] EXCEPT !.canceled = TRUE]
  BY <1>0, <1>3 DEF RunState
<1>4. ASSUME NEW q \in Queues, r \in tracked,
             st'[r] = [st[r] EXCEPT !.started = TRUE]
      PROVE  /\ st'[r].started /\ st'[r].failed = st[r].failed
             /\ st'[r].canceled = st[r].canceled
  BY <1>0, <1>4 DEF RunState
<1>5. ASSUME NEW q \in Queues, r \in tracked,
             st'[r] = [st[r] EXCEPT !.done = Stepped(r, q)]
      PROVE  /\ st'[r].started = st[r].started /\ st'[r].failed = st[r].failed
             /\ st'[r].canceled = st[r].canceled
  BY <1>0, <1>5 DEF RunState
<1>6. ASSUME NEW q \in Queues, r \in tracked, st'[r] = Outcome(r, q)
      PROVE  /\ st'[r].started = st[r].started
             /\ st'[r].failed = (st[r].failed \/ job[q].failed)
             /\ st'[r].canceled = (st[r].canceled \/ job[q].canceled)
  BY <1>0, <1>6 DEF RunState, Outcome
<1>7. CASE Crash /\ st'[r] = NewState(0)
  BY <1>7 DEF NewState
<1> QED BY <1>1, <1>2, <1>3, <1>4, <1>5, <1>6, <1>7, StateStep

(***************************************************************************)
(* A dead process.                                                         *)
(***************************************************************************)

(* Between a crash and the reaping nothing lives. *)
DownInv ==
  pc[Main] = "down" =>
    /\ tracked = {} /\ finalizing = {}
    /\ \A p \in Clients \cup Queues : pc[p] = "idle"
    /\ \A q \in Queues : chan[q] = <<>>
    /\ \A r \in Runs : ~st[r].canceled /\ event[r] = NoEvent

(* Nothing but the reaping happens in a dead process. *)
LEMMA OnlyReap ==
  ASSUME TypeOK, DownInv, Next, pc[Main] = "down"
  PROVE  ReapOrphanedRuns
<1>0. /\ \A c \in Clients : pc[c] = "idle"
      /\ \A q \in Queues : pc[q] = "idle" /\ chan[q] = <<>>
      /\ ~Up
  BY DEF DownInv, Up
<1>1. ASSUME NEW c \in Clients, CallStep(c) \/ ClientStep(c) PROVE FALSE
  BY <1>0, <1>1 DEF CallStep, ClientStep, EnqueueLock, CancelStarted,
       CancelQueued, CancelUntracked, EnqueueCreate, EnqueueCreateFails,
       beginFinalize, EnqueueRefused, EnqueueFull, EnqueueSend, cancelOrphan,
       OrphanGetRun, OrphanWrite, OrphanEnd
<1>2. ASSUME NEW q \in Queues, WorkerStep(q) \/ EngineStep(q) PROVE FALSE
  BY <1>0, <1>2 DEF WorkerStep, EngineStep, Receive, executeGone,
       executeCanceled, execute, SetRunning, doneCount, PublishRunning,
       NextTarget, Recover, markTargetDone, finishGone, finishQueue, finishRun,
       runTarget, runTargetPanics
<1>3. ASSUME NEW p \in Procs, FinalWrite(p) \/ endFinalize(p) PROVE FALSE
  BY <1>0, <1>3 DEF FinalWrite, endFinalize
<1>4. ASSUME ShutdownBegin \/ MainStep \/ Crash PROVE FALSE
  BY <1>0, <1>4 DEF ShutdownBegin, MainStep, ShutdownDrained, ShutdownGrace,
     ShutdownAwait, ShutdownReturn, claimForForceCancel, forceCancelGone, Crash
<1> QED BY <1>1, <1>2, <1>3, <1>4 DEF Next

(* Only a crash brings the process down. *)
LEMMA DownInductive ==
  /\ Init => DownInv
  /\ TypeOK /\ DownInv /\ [Next]_vars => DownInv'
<1>1. Init => DownInv
  BY ProcAssumption DEF Init, DownInv
<1>2. ASSUME TypeOK, DownInv, Next PROVE DownInv'
  <2>1. CASE Crash
    <3>1. \A p \in Clients \cup Queues : p \in Procs /\ p # Main
      BY ProcAssumption
    <3> QED BY <2>1, <3>1 DEF Crash, DownInv, NewState
  <2>2. CASE ~Crash
    <3>1. pc'[Main] # "down"
      <4>1. CASE pc[Main] = "down"
        <5>1. pc' = [pc EXCEPT ![Main] = "idle"]
          BY <1>2, <4>1, OnlyReap DEF ReapOrphanedRuns, Goto
        <5> QED BY <1>2, <5>1 DEF TypeOK, PcOK
      <4>2. CASE pc[Main] # "down"
        BY <1>2, <2>2, <4>2, ProcAssumption, ClientGoes, WorkerGoes, FinalGoes,
           MainGoes DEF Next, Solo
      <4> QED BY <4>1, <4>2
    <3> QED BY <3>1 DEF DownInv
  <2> QED BY <2>1, <2>2
<1>3. ASSUME TypeOK, DownInv, UNCHANGED vars PROVE DownInv'
  BY <1>3 DEF DownInv, vars, dbVars, muVars
<1> QED BY <1>1, <1>2, <1>3

(* How a process comes to the terminal write: it had it to do, or it       *)
(* claimed a tracked run, or its Enqueue was turned away.                  *)
LEMMA WriteComes ==
  ASSUME TypeOK, Next, NEW p \in Procs, pc'[p] = "write"
  PROVE  \/ pc[p] = "write" /\ arg'[p] = arg[p] /\ goal'[p] = goal[p]
         \/ arg'[p] \in tracked /\ goal'[p] = "canceled"
         \/ p \in Queues /\ finishRun(p) /\ arg'[p] = arg[p] /\ arg[p] \in tracked
         \/ /\ p \in Clients /\ pc[p] = "insert" /\ arg'[p] = arg[p]
            /\ EnqueueRefused(p) \/ EnqueueFull(p)
<1>1. ASSUME NEW o \in Procs, Solo(o), o # p
      PROVE  pc[p] = "write" /\ arg'[p] = arg[p] /\ goal'[p] = goal[p]
  BY <1>1 DEF Solo
<1>2. CASE \E c \in Clients : (CallStep(c) \/ ClientStep(c)) /\ Solo(c)
  BY <1>1, <1>2, ClientGoes
<1>3. CASE \E q \in Queues : (WorkerStep(q) \/ EngineStep(q)) /\ Solo(q)
  BY <1>1, <1>3, WorkerGoes
<1>4. CASE \E o \in Procs : (FinalWrite(o) \/ endFinalize(o)) /\ Solo(o)
  BY <1>1, <1>4, FinalGoes
<1>5. CASE (ShutdownBegin \/ MainStep \/ ReapOrphanedRuns) /\ Solo(Main)
  BY <1>1, <1>5, MainGoes
<1>6. CASE Crash
  BY <1>6 DEF Crash
<1> QED BY <1>2, <1>3, <1>4, <1>5, <1>6, Shape

(* A client is between CreateRun and the registration because it was, or   *)
(* because it has just created the run.                                    *)
LEMMA BeginComes ==
  ASSUME TypeOK, Next, NEW c \in Clients, pc'[c] \in {"begin", "insert"}
  PROVE  \/ pc[c] \in {"begin", "insert"} /\ arg'[c] = arg[c]
         \/ \E r \in Runs : Created(c, r) /\ arg'[c] = r
<1>0. c \in Procs
  OBVIOUS
<1>1. ASSUME NEW o \in Procs, Solo(o), o # c
      PROVE  pc[c] \in {"begin", "insert"} /\ arg'[c] = arg[c]
  BY <1>0, <1>1 DEF Solo
<1>2. CASE \E d \in Clients : (CallStep(d) \/ ClientStep(d)) /\ Solo(d)
  BY <1>1, <1>2, ClientGoes
<1>3. CASE \E q \in Queues : (WorkerStep(q) \/ EngineStep(q)) /\ Solo(q)
  BY <1>1, <1>3, WorkerGoes
<1>4. CASE \E o \in Procs : (FinalWrite(o) \/ endFinalize(o)) /\ Solo(o)
  BY <1>1, <1>4, FinalGoes
<1>5. CASE (ShutdownBegin \/ MainStep \/ ReapOrphanedRuns) /\ Solo(Main)
  BY <1>1, <1>5, MainGoes
<1>6. CASE Crash
  BY <1>0, <1>6 DEF Crash
<1> QED BY <1>2, <1>3, <1>4, <1>5, <1>6, Shape

(* A worker is between markStarted and finishQueue because it was, or      *)
(* because it has just marked the run started.                             *)
LEMMA WorkingComes ==
  ASSUME TypeOK, Next, NEW q \in Queues, pc'[q] \in Working
  PROVE  arg'[q] = arg[q] /\ (pc[q] \in Working \/ execute(q))
<1>0. q \in Procs
  OBVIOUS
<1>1. ASSUME NEW o \in Procs, Solo(o), o # q
      PROVE  pc[q] \in Working /\ arg'[q] = arg[q]
  BY <1>0, <1>1 DEF Solo
<1>2. CASE \E c \in Clients : (CallStep(c) \/ ClientStep(c)) /\ Solo(c)
  BY <1>1, <1>2, ProcAssumption
<1>3. CASE \E x \in Queues : (WorkerStep(x) \/ EngineStep(x)) /\ Solo(x)
  BY <1>1, <1>3, WorkerGoes
<1>4. CASE \E o \in Procs : (FinalWrite(o) \/ endFinalize(o)) /\ Solo(o)
  BY <1>1, <1>4, FinalGoes DEF Working
<1>5. CASE (ShutdownBegin \/ MainStep \/ ReapOrphanedRuns) /\ Solo(Main)
  BY <1>1, <1>5, ProcAssumption
<1>6. CASE Crash
  BY <1>0, <1>6, ProcAssumption DEF Crash, Working
<1> QED BY <1>2, <1>3, <1>4, <1>5, <1>6, Shape

(***************************************************************************)
(* Rows somebody works on.                                                 *)
(***************************************************************************)

(* The row of a tracked run, and of one whose owner has yet to write, is   *)
(* still open, and one that is being enqueued is queued.                   *)
LiveInv ==
  /\ \A r \in tracked : dbStatus[r] \in Active
  /\ \A p \in Procs : pc[p] = "write" => dbStatus[arg[p]] \in Active
  /\ \A c \in Clients : pc[c] \in {"begin", "insert"} => dbStatus[arg[c]] = "queued"

(* The owner's mark keeps everybody else away from its run. *)
LEMMA OwnedApart ==
  ASSUME TypeOK, ClaimInv, NEW p \in Procs, pc[p] \in {"insert", "write", "settle", "resign"}
  PROVE  /\ arg[p] \in finalizing /\ arg[p] \notin tracked /\ arg[p] \in Runs
         /\ \A o \in Procs :
              pc[o] \in {"insert", "write", "settle", "resign"} /\ arg[o] = arg[p] => o = p
         /\ \A c \in Clients : ~Orphaning(c, arg[p])
         /\ \A c \in Clients : pc[c] = "begin" => arg[c] # arg[p]
<1>1. arg[p] \in Runs /\ Owns(p, arg[p])
  BY DEF TypeOK, PcOK, Vacant, Owns
<1>2. arg[p] \in finalizing /\ arg[p] \notin tracked
  BY <1>1 DEF ClaimInv, OneOwner
<1>3. ASSUME NEW o \in Procs, pc[o] \in {"insert", "write", "settle", "resign"},
             arg[o] = arg[p]
      PROVE  o = p
  <2>1. Owns(o, arg[p])
    BY <1>3 DEF Owns
  <2> QED BY <1>1, <2>1 DEF ClaimInv, OneOwner
<1>4. ASSUME NEW c \in Clients
      PROVE  ~Orphaning(c, arg[p]) /\ (pc[c] = "begin" => arg[c] # arg[p])
  BY <1>1, <1>2 DEF ClaimInv, OrphanIsDead
<1> QED BY <1>1, <1>2, <1>3, <1>4

(* A status write leaves alone the rows that other goroutines work on. *)
LEMMA RowsHeld ==
  ASSUME TypeOK, ClaimInv, JobInv, DownInv, LiveInv, Next
  PROVE  /\ \A r \in tracked : dbStatus'[r] \in Active
         /\ \A p \in Procs : pc[p] = "write" /\ pc'[p] = "write" =>
               dbStatus'[arg[p]] \in Active
         /\ \A c \in Clients : pc[c] \in {"begin", "insert"} =>
               dbStatus'[arg[c]] = "queued"
<1> DEFINE G == /\ \A r \in tracked : dbStatus'[r] \in Active
                /\ \A p \in Procs : pc[p] = "write" /\ pc'[p] = "write" =>
                      dbStatus'[arg[p]] \in Active
                /\ \A c \in Clients : pc[c] \in {"begin", "insert"} =>
                      dbStatus'[arg[c]] = "queued"
<1> SUFFICES G
  OBVIOUS
<1>0. /\ dbStatus \in [Runs -> Active \cup Terminal \cup {"none"}]
      /\ tracked \subseteq Runs
      /\ \A p \in Procs : pc[p] \in {"write", "begin", "insert"} => arg[p] \in Runs
      /\ Clients \subseteq Procs /\ Queues \subseteq Procs
  BY DEF TypeOK, PcOK, Vacant
<1>1. CASE dbStatus' = dbStatus
  BY <1>1 DEF LiveInv
<1>2. ASSUME NEW c \in Clients, NEW r \in Runs, Created(c, r) PROVE G
  <2>1. dbStatus[r] = "none" /\ dbStatus' = [dbStatus EXCEPT ![r] = "queued"]
    BY <1>2 DEF Created
  <2> QED BY <1>0, <2>1 DEF LiveInv
<1>3. ASSUME NEW q \in Queues, Began(q) PROVE G
  <2>1. pc[q] = "running" /\ dbStatus' = [dbStatus EXCEPT ![arg[q]] = "running"]
    BY <1>3 DEF Began
  <2>2. ASSUME NEW c \in Clients, pc[c] \in {"begin", "insert"} PROVE arg[c] # arg[q]
    <3>1. ~Holds(q, arg[c])
      BY <2>2 DEF JobInv
    <3> QED BY <2>1, <3>1 DEF Holds
  <2> QED BY <1>0, <2>1, <2>2 DEF LiveInv
<1>4. ASSUME NEW p \in Procs, Ended(p) PROVE G
  <2>1. /\ pc[p] = "write" /\ dbStatus' = [dbStatus EXCEPT ![arg[p]] = goal[p]]
        /\ pc' = [pc EXCEPT ![p] = "settle"]
    BY <1>4 DEF Ended
  <2>2. /\ arg[p] \in finalizing /\ arg[p] \notin tracked
        /\ \A o \in Procs : pc[o] \in {"insert", "write"} /\ arg[o] = arg[p] => o = p
        /\ \A c \in Clients : pc[c] = "begin" => arg[c] # arg[p]
    BY <2>1, OwnedApart
  <2>3. \A o \in Procs : pc[o] = "write" /\ pc'[o] = "write" => o # p
    BY <2>1 DEF TypeOK, PcOK
  <2> QED BY <1>0, <2>1, <2>2, <2>3 DEF LiveInv
<1>5. ASSUME NEW c \in Clients, OrphanEnded(c) PROVE G
  <2>1. /\ pc[c] = "orphanWrite" /\ Orphaning(c, arg[c]) /\ arg[c] \in Runs
        /\ dbStatus' = [dbStatus EXCEPT ![arg[c]] = "canceled"]
    BY <1>5 DEF OrphanEnded, Orphaning, TypeOK, PcOK, Vacant
  <2>2. /\ arg[c] \notin tracked
        /\ \A d \in Clients : pc[d] = "begin" => arg[d] # arg[c]
    BY <2>1 DEF ClaimInv, OrphanIsDead
  <2>3. \A o \in Procs : pc[o] \in {"write", "insert"} => arg[o] # arg[c]
    BY <2>1, OwnedApart
  <2> QED BY <1>0, <2>1, <2>2, <2>3 DEF LiveInv
<1>6. CASE ReapOrphanedRuns
  <2>1. /\ tracked = {} /\ pc[Main] = "down"
        /\ \A p \in Clients \cup Queues : pc[p] = "idle"
    BY <1>6 DEF ReapOrphanedRuns, DownInv
  <2> QED BY <2>1
<1> QED BY <1>1, <1>2, <1>3, <1>4, <1>5, <1>6, StatusStep

(* Claims pick up only open rows. *)
LEMMA LiveInductive ==
  /\ Init => LiveInv
  /\ TypeOK /\ TypeOK' /\ ClaimInv /\ JobInv /\ DownInv /\ LiveInv /\ [Next]_vars => LiveInv'
<1>1. Init => LiveInv
  BY DEF Init, LiveInv
<1>2. ASSUME TypeOK, TypeOK', ClaimInv, JobInv, DownInv, LiveInv, Next PROVE LiveInv'
  <2>0. /\ \A r \in tracked : dbStatus'[r] \in Active
        /\ \A p \in Procs : pc[p] = "write" /\ pc'[p] = "write" =>
              dbStatus'[arg[p]] \in Active
        /\ \A c \in Clients : pc[c] \in {"begin", "insert"} =>
              dbStatus'[arg[c]] = "queued"
    BY <1>2, RowsHeld
  <2>1. ASSUME NEW r \in tracked' PROVE dbStatus'[r] \in Active
    <3>1. ASSUME NEW c \in Clients, EnqueueSend(c), r = arg[c] PROVE dbStatus'[r] \in Active
      BY <2>0, <3>1 DEF EnqueueSend
    <3> QED BY <1>2, <2>0, <2>1, <3>1, TrackedStep
  <2>2. ASSUME NEW p \in Procs, pc'[p] = "write" PROVE dbStatus'[arg'[p]] \in Active
    <3>1. CASE pc[p] = "write" /\ arg'[p] = arg[p]
      BY <2>0, <2>2, <3>1
    <3>2. CASE arg'[p] \in tracked
      BY <2>0, <3>2
    <3>3. CASE p \in Clients /\ pc[p] = "insert" /\ arg'[p] = arg[p]
      BY <2>0, <3>3
    <3> QED BY <1>2, <2>2, <3>1, <3>2, <3>3, WriteComes
  <2>3. ASSUME NEW c \in Clients, pc'[c] \in {"begin", "insert"}
        PROVE  dbStatus'[arg'[c]] = "queued"
    <3>1. CASE pc[c] \in {"begin", "insert"} /\ arg'[c] = arg[c]
      BY <2>0, <3>1
    <3>2. ASSUME NEW r \in Runs, Created(c, r), arg'[c] = r PROVE dbStatus'[r] = "queued"
      BY <1>2, <3>2 DEF Created, TypeOK
    <3> QED BY <1>2, <2>3, <3>1, <3>2, BeginComes
  <2> QED BY <2>1, <2>2, <2>3 DEF LiveInv
<1>3. ASSUME LiveInv, UNCHANGED vars PROVE LiveInv'
  BY <1>3 DEF LiveInv, vars, dbVars, muVars
<1> QED BY <1>1, <1>2, <1>3

(***************************************************************************)
(* Runs that were never started.                                           *)
(***************************************************************************)

(* A run has no result before it is registered, and a worker that inserts  *)
(* one has marked its run started.                                         *)
StartInv ==
  /\ \A c \in Clients : pc[c] \in {"begin", "insert"} =>
       \A t \in Targets : results[arg[c]][t] = <<>>
  /\ \A r \in Runs : dbStatus[r] = "none" => \A t \in Targets : results[r][t] = <<>>
  /\ \A q \in Queues : pc[q] \in Working => st[arg[q]].started
  /\ NotStartedUntouched

(* An insert touches the rows of the run in the worker's hands only. *)
LEMMA InsertTouches ==
  ASSUME TypeOK, Next, NEW r \in Runs, results'[r] # results[r]
  PROVE  \E q \in Queues : /\ pc[q] \in {"test", "recover"} /\ arg[q] = r
                           /\ UNCHANGED <<dbStatus, tracked, finalizing>>
<1>1. PICK q \in Queues, s \in {"ok", "failed"} :
         /\ pc[q] \in {"test", "recover"} /\ InsertResult(q, s)
         /\ UNCHANGED <<dbStatus, plan, tracked, finalizing, chan, st, arg>>
  BY ResultStep
<1>2. arg[q] = r
  BY <1>1 DEF InsertResult, TypeOK
<1> QED BY <1>1, <1>2

(* A run that was not started has touched nothing, kept by every step. *)
LEMMA StartInductive ==
  /\ Init => StartInv
  /\ TypeOK /\ TypeOK' /\ ClaimInv /\ JobInv /\ DownInv /\ LiveInv /\ StartInv
       /\ [Next]_vars => StartInv'
<1>1. Init => StartInv
  <2>1. Init => \A q \in Queues : pc[q] \notin Working
    BY DEF Init, Working
  <2>2. Init => \A c \in Clients : pc[c] \notin {"begin", "insert"}
    BY DEF Init
  <2> QED BY <2>1, <2>2 DEF Init, StartInv, NotStartedUntouched
<1>2. ASSUME TypeOK, TypeOK', ClaimInv, JobInv, DownInv, LiveInv, StartInv, Next
      PROVE  StartInv'
  <2>0. /\ \A p \in Procs : pc[p] \notin Vacant => arg[p] \in Runs
        /\ \A p \in Procs : goal[p] \in Terminal
        /\ dbStatus \in [Runs -> Active \cup Terminal \cup {"none"}]
        /\ tracked \subseteq Runs /\ finalizing \subseteq Runs
    BY <1>2 DEF TypeOK, PcOK
  <2>00. /\ \A c \in Clients : pc[c] \in {"begin", "insert"} => arg[c] \in Runs
         /\ \A q \in Queues : pc[q] \in Working => arg[q] \in Runs
         /\ \A q \in Queues : pc[q] \in Working => Holds(q, arg[q])
    <3>1. \A q \in Queues : pc[q] \in Working => pc[q] \notin Vacant /\ pc[q] \notin Final
      BY DEF Working, Vacant, Final
    <3>2. \A q \in Queues : pc[q] \in Working => Holds(q, arg[q])
      BY <3>1 DEF Holds, Final
    <3> QED BY <2>0, <3>1, <3>2 DEF Vacant
  <2>1. ASSUME NEW c \in Clients, pc[c] \in {"begin", "insert"}
        PROVE  /\ \A q \in Queues : pc[q] \in Working => arg[q] # arg[c]
               /\ results'[arg[c]] = results[arg[c]]
    <3>1. \A q \in Queues : ~Holds(q, arg[c])
      BY <1>2, <2>1 DEF JobInv
    <3> QED BY <1>2, <2>00, <2>1, <3>1, InsertTouches DEF Working
  <2>2. ASSUME NEW r \in Runs, dbStatus'[r] = "none"
        PROVE  dbStatus[r] = "none" /\ results'[r] = results[r]
    <3>1. dbStatus[r] = "none"
      BY <1>2, <2>0, <2>2, RowStep DEF Reaped
    <3>2. \A q \in Queues : ~Holds(q, r)
      BY <1>2, <3>1 DEF JobInv
    <3> QED BY <1>2, <2>00, <3>1, <3>2, InsertTouches DEF Working
  <2>3. ASSUME NEW c \in Clients, pc'[c] \in {"begin", "insert"}
        PROVE  \A t \in Targets : results'[arg'[c]][t] = <<>>
    <3>1. CASE pc[c] \in {"begin", "insert"} /\ arg'[c] = arg[c]
      BY <1>2, <2>1, <3>1 DEF StartInv
    <3>2. ASSUME NEW r \in Runs, Created(c, r), arg'[c] = r
          PROVE  \A t \in Targets : results'[r][t] = <<>>
      <4>1. dbStatus[r] = "none" /\ results' = results
        BY <3>2 DEF Created, EnqueueCreate
      <4> QED BY <1>2, <4>1 DEF StartInv
    <3> QED BY <1>2, <2>3, <3>1, <3>2, BeginComes
  <2>4. ASSUME NEW r \in Runs, dbStatus'[r] = "none"
        PROVE  \A t \in Targets : results'[r][t] = <<>>
    BY <1>2, <2>2, <2>4 DEF StartInv
  <2>5. ASSUME NEW q \in Queues, pc'[q] \in Working PROVE st'[arg'[q]].started
    <3>1. arg'[q] = arg[q] /\ (pc[q] \in Working \/ execute(q))
      BY <1>2, <2>5, WorkingComes
    <3>2. CASE execute(q)
      <4>1. arg[q] \in Runs /\ st' = [st EXCEPT ![arg[q]].started = TRUE]
        BY <1>2, <3>2 DEF execute, markStarted, TypeOK
      <4> QED BY <1>2, <3>1, <4>1 DEF TypeOK, RunState
    <3>3. CASE pc[q] \in Working
      <4>1. arg[q] \in Runs /\ st[arg[q]].started
        BY <1>2, <2>00, <3>3 DEF StartInv
      <4>2. ~Crash
        BY <2>5, ProcAssumption DEF Crash, Working
      <4> QED BY <1>2, <2>1, <3>1, <3>3, <4>1, <4>2, FlagStep
    <3> QED BY <3>1, <3>2, <3>3
  <2>6. NotStartedUntouched'
    <3> SUFFICES ASSUME Up', NEW r \in Runs,
                        dbStatus'[r] \in Active \/ r \in tracked' \cup finalizing',
                        ~st'[r].started
                 PROVE  /\ dbStatus'[r] # "running"
                        /\ \A t \in Targets : results'[r][t] = <<>>
      BY DEF NotStartedUntouched
    <3>0. ~Crash
      BY ProcAssumption DEF Crash, Up
    <3>1. CASE ReapOrphanedRuns
      <4>1. dbStatus'[r] \notin Active
        BY <1>2, <3>1 DEF ReapOrphanedRuns, Reaped, TypeOK
      <4>2. tracked' = {} /\ finalizing' = {}
        BY <1>2, <3>1 DEF ReapOrphanedRuns, DownInv, muVars
      <4> QED BY <4>1, <4>2
    <3>2. ASSUME NEW c \in Clients, pc[c] \in {"begin", "insert"}, arg[c] = r
          PROVE  /\ dbStatus'[r] = "queued"
                 /\ \A t \in Targets : results'[r][t] = <<>>
      BY <1>2, <2>1, <3>2, RowsHeld DEF StartInv
    <3>3. ASSUME NEW c \in Clients, Created(c, r)
          PROVE  /\ dbStatus'[r] = "queued"
                 /\ \A t \in Targets : results'[r][t] = <<>>
      <4>1. /\ dbStatus[r] = "none" /\ results' = results
            /\ dbStatus' = [dbStatus EXCEPT ![r] = "queued"]
        BY <3>3 DEF Created, EnqueueCreate
      <4> QED BY <1>2, <2>0, <4>1 DEF StartInv
    <3>4. CASE /\ ~ReapOrphanedRuns
               /\ \A c \in Clients : ~Created(c, r)
               /\ \A c \in Clients : pc[c] \in {"begin", "insert"} => arg[c] # r
      <4>1. ~st[r].started
        BY <1>2, <3>0, <3>4, FlagStep
      <4>2. dbStatus'[r] \in Active => dbStatus[r] \in Active
        BY <1>2, <3>4, RowStep
      <4>3. r \in tracked' \cup finalizing' => r \in tracked \cup finalizing
        <5>1. \A c \in Clients : EnqueueSend(c) \/ beginFinalize(c) =>
                 pc[c] \in {"begin", "insert"}
          BY DEF EnqueueSend, beginFinalize
        <5> QED BY <1>2, <3>4, <5>1, TrackedStep
      <4>4. Up
        BY <1>2, <3>4, OnlyReap DEF Up
      <4>5. dbStatus[r] # "running" /\ \A t \in Targets : results[r][t] = <<>>
        BY <1>2, <4>1, <4>2, <4>3, <4>4 DEF StartInv, NotStartedUntouched
      <4>6. \A q \in Queues : pc[q] \in Working => arg[q] # r
        BY <1>2, <4>1 DEF StartInv
      <4>7. results'[r] = results[r]
        BY <1>2, <4>6, InsertTouches DEF Working
      <4>8. dbStatus'[r] # "running"
        BY <1>2, <2>0, <3>4, <4>5, <4>6, RowStep DEF Began, Working
      <4> QED BY <4>5, <4>7, <4>8
    <3> QED BY <3>1, <3>2, <3>3, <3>4
  <2> QED BY <2>3, <2>4, <2>5, <2>6 DEF StartInv
<1>3. ASSUME StartInv, UNCHANGED vars PROVE StartInv'
  BY <1>3 DEF StartInv, NotStartedUntouched, Up, vars, dbVars, muVars
<1> QED BY <1>1, <1>2, <1>3

(***************************************************************************)
(* Cancelled runs.                                                         *)
(***************************************************************************)

(* The owner of a cancelled run is about to write "canceled". *)
CancelInv ==
  /\ CanceledStays
  /\ \A p \in Procs : pc[p] = "write" /\ st[arg[p]].canceled => goal[p] = "canceled"

(* A run canceled in memory stays canceled, kept by every step. *)
LEMMA CancelInductive ==
  /\ Init => CancelInv
  /\ TypeOK /\ ClaimInv /\ JobInv /\ DownInv /\ LiveInv /\ CancelInv
       /\ [Next]_vars => CancelInv'
<1>1. Init => CancelInv
  BY DEF Init, CancelInv, CanceledStays
<1>2. ASSUME TypeOK, ClaimInv, JobInv, DownInv, LiveInv, CancelInv, Next
      PROVE  CancelInv'
  <2>0. /\ \A p \in Procs : pc[p] = "write" => arg[p] \in Runs
        /\ dbStatus \in [Runs -> Active \cup Terminal \cup {"none"}]
        /\ tracked \subseteq Runs /\ st \in [Runs -> RunState] /\ job \in [Queues -> Job]
    BY <1>2 DEF TypeOK, PcOK, Vacant
  <2>1. ASSUME NEW r \in Runs, st'[r].canceled, dbStatus'[r] \in Terminal
        PROVE  dbStatus'[r] = "canceled"
    <3>1. r \notin tracked
      BY <1>2, <2>1, RowsHeld
    <3>2. st[r].canceled
      BY <1>2, <2>1, <3>1, FlagStep
    <3>3. CASE dbStatus'[r] = dbStatus[r]
      BY <1>2, <2>1, <3>2, <3>3 DEF CancelInv, CanceledStays
    <3>4. ASSUME NEW p \in Procs, Ended(p), arg[p] = r, dbStatus'[r] = goal[p]
          PROVE  dbStatus'[r] = "canceled"
      BY <1>2, <3>2, <3>4 DEF Ended, CancelInv
    <3>5. ~ReapOrphanedRuns
      BY <1>2, <3>2 DEF ReapOrphanedRuns, DownInv
    <3> QED BY <1>2, <2>1, <3>3, <3>4, <3>5, RowStep
  <2>2. ASSUME NEW p \in Procs, pc'[p] = "write", st'[arg'[p]].canceled
        PROVE  goal'[p] = "canceled"
    <3>1. CASE pc[p] = "write" /\ arg'[p] = arg[p] /\ goal'[p] = goal[p]
      <4>1. arg[p] \in Runs /\ arg[p] \notin tracked
        BY <1>2, <3>1, OwnedApart
      <4>2. st[arg[p]].canceled
        BY <1>2, <2>2, <3>1, <4>1, FlagStep
      <4> QED BY <1>2, <3>1, <4>2 DEF CancelInv
    <3>2. CASE p \in Queues /\ finishRun(p) /\ arg'[p] = arg[p] /\ arg[p] \in tracked
      <4> DEFINE o == Outcome(arg[p], p)
      <4>1. /\ st' = [st EXCEPT ![arg[p]] = o]
            /\ goal' = [goal EXCEPT ![p] = FinalStatus(o.failed, o.canceled)]
        BY <3>2 DEF finishRun
      <4>2. st'[arg[p]] = o /\ goal'[p] = FinalStatus(o.failed, o.canceled)
        <5> HIDE DEF o
        <5> QED BY <1>2, <2>0, <3>2, <4>1 DEF TypeOK
      <4> HIDE DEF o
      <4> QED BY <2>2, <3>2, <4>2 DEF FinalStatus
    <3>3. CASE /\ p \in Clients /\ pc[p] = "insert" /\ arg'[p] = arg[p]
               /\ EnqueueRefused(p) \/ EnqueueFull(p)
      <4>1. CASE EnqueueRefused(p)
        BY <1>2, <4>1 DEF EnqueueRefused, TypeOK
      <4>2. CASE EnqueueFull(p)
        <5>1. arg[p] \in Runs
          BY <1>2, <3>3, OwnedApart
        <5>2. st' = [st EXCEPT ![arg[p]] = NewState(Cardinality(QueuesOf(arg[p])))]
          BY <4>2 DEF EnqueueFull
        <5> QED BY <2>0, <2>2, <3>3, <5>1, <5>2 DEF NewState
      <4> QED BY <3>3, <4>1, <4>2
    <3> QED BY <1>2, <2>2, <3>1, <3>2, <3>3, WriteComes
  <2> QED BY <2>1, <2>2 DEF CancelInv, CanceledStays
<1>3. ASSUME CancelInv, UNCHANGED vars PROVE CancelInv'
  BY <1>3 DEF CancelInv, CanceledStays, vars, dbVars, muVars
<1> QED BY <1>1, <1>2, <1>3

(***************************************************************************)
(* What a step can do to the jobs of a queue.                              *)
(***************************************************************************)

(* Enqueue is sending the jobs of run r. *)
Sending(r) ==
  \E c \in Clients : /\ pc[c] = "insert" /\ arg[c] = r
                     /\ EnqueueSend(c) \/ EnqueueFull(c)

(* The worker of q moves, or its locals do not change. *)
LEMMA QueueStep ==
  ASSUME TypeOK, Next, NEW q \in Queues
  PROVE  \/ /\ pc'[q] = pc[q] /\ arg'[q] = arg[q] /\ goal'[q] = goal[q]
            /\ job'[q] = job[q]
         \/ WorkerStep(q) \/ EngineStep(q)
         \/ pc[q] \in Final /\ pc'[q] \in {"settle", "resign", "idle", "force"}
         \/ Crash
<1>0. q \in Procs /\ q # Main /\ q \notin Clients
  BY ProcAssumption
<1>1. ASSUME NEW o \in Procs, Solo(o), o # q
      PROVE  /\ pc'[q] = pc[q] /\ arg'[q] = arg[q] /\ goal'[q] = goal[q]
             /\ job'[q] = job[q]
  BY <1>0, <1>1 DEF Solo
<1>2. CASE \E c \in Clients : (CallStep(c) \/ ClientStep(c)) /\ Solo(c)
  BY <1>0, <1>1, <1>2
<1>3. CASE \E x \in Queues : (WorkerStep(x) \/ EngineStep(x)) /\ Solo(x)
  BY <1>1, <1>3
<1>4. CASE \E o \in Procs : (FinalWrite(o) \/ endFinalize(o)) /\ Solo(o)
  BY <1>1, <1>4, FinalGoes
<1>5. CASE (ShutdownBegin \/ MainStep \/ ReapOrphanedRuns) /\ Solo(Main)
  BY <1>0, <1>1, <1>5
<1> QED BY <1>2, <1>3, <1>4, <1>5, Shape

(* Channels are written by Enqueue and read by their workers. *)
LEMMA ChanStep ==
  ASSUME TypeOK, Next, NEW q \in Queues
  PROVE  \/ chan'[q] = chan[q]
         \/ /\ Receive(q) /\ chan[q] # <<>> /\ chan'[q] = Tail(chan[q])
            /\ pc'[q] = "start" /\ arg'[q] = Head(chan[q])
         \/ \E r \in Runs : Sending(r) /\ chan'[q] = Append(chan[q], r)
         \/ Crash
<1> USE DEF dbVars, muVars, calls, bounds
<1>1. ASSUME NEW c \in Clients, CallStep(c) \/ ClientStep(c)
      PROVE  \/ chan'[q] = chan[q]
             \/ \E r \in Runs : Sending(r) /\ chan'[q] = Append(chan[q], r)
  <2>1. CASE EnqueueSend(c) \/ EnqueueFull(c)
    <3>1. /\ pc[c] = "insert" /\ arg[c] \in Runs
          /\ \E S : Send(arg[c], S)
      BY <2>1 DEF EnqueueSend, EnqueueFull, TypeOK, PcOK, Vacant
    <3>2. Sending(arg[c])
      BY <2>1, <3>1 DEF Sending
    <3> QED BY <3>1, <3>2 DEF Send
  <2>2. CASE ~EnqueueSend(c) /\ ~EnqueueFull(c)
    BY <1>1, <2>2 DEF CallStep, ClientStep, EnqueueLock, CancelStarted,
       CancelQueued, CancelUntracked, EnqueueCreate, EnqueueCreateFails,
       beginFinalize, EnqueueRefused, cancelOrphan, OrphanGetRun, OrphanWrite,
       OrphanEnd
  <2> QED BY <2>1, <2>2
<1>2. ASSUME NEW x \in Queues, WorkerStep(x) \/ EngineStep(x)
      PROVE  \/ chan'[q] = chan[q]
             \/ /\ Receive(q) /\ chan[q] # <<>> /\ chan'[q] = Tail(chan[q])
                /\ pc'[q] = "start" /\ arg'[q] = Head(chan[q])
  <2>1. CASE Receive(x)
    <3>1. /\ chan[x] # <<>> /\ chan' = [chan EXCEPT ![x] = Tail(chan[x])]
          /\ pc' = [pc EXCEPT ![x] = "start"] /\ arg' = [arg EXCEPT ![x] = Head(chan[x])]
      BY <2>1 DEF Receive, Goto
    <3> QED BY <2>1, <3>1 DEF TypeOK, PcOK
  <2>2. CASE ~Receive(x)
    <3>1. chan' = chan
      BY <1>2, <2>2 DEF WorkerStep, EngineStep, executeGone,
       executeCanceled, execute, SetRunning, doneCount, PublishRunning,
       NextTarget, Recover, markTargetDone, finishGone, finishQueue, finishRun,
       runTarget, runTargetPanics
    <3> QED BY <3>1
  <2> QED BY <2>1, <2>2
<1>3. ASSUME NEW p \in Procs, FinalWrite(p) \/ endFinalize(p) PROVE chan' = chan
  BY <1>3 DEF FinalWrite, endFinalize
<1>4. ASSUME ShutdownBegin \/ MainStep \/ ReapOrphanedRuns PROVE chan' = chan
  BY <1>4 DEF ShutdownBegin, MainStep, ShutdownDrained, ShutdownGrace,
     ShutdownAwait, ShutdownReturn, claimForForceCancel, forceCancelGone,
     ReapOrphanedRuns
<1> QED BY <1>1, <1>2, <1>3, <1>4 DEF Next

(* The targets of a run are fixed when its row is created. *)
LEMMA PlanStep ==
  ASSUME TypeOK, Next, NEW r \in Runs
  PROVE  plan'[r] = plan[r] \/ dbStatus[r] = "none"
<1> USE DEF dbVars, muVars, calls, bounds
<1>1. ASSUME NEW c \in Clients, CallStep(c) \/ ClientStep(c)
      PROVE  plan'[r] = plan[r] \/ dbStatus[r] = "none"
  <2>1. CASE EnqueueCreate(c)
    BY <2>1 DEF EnqueueCreate, TypeOK
  <2>2. CASE ~EnqueueCreate(c)
    BY <1>1, <2>2 DEF CallStep, ClientStep, EnqueueLock, CancelStarted,
       CancelQueued, CancelUntracked, EnqueueCreateFails, EnqueueSend,
       beginFinalize, EnqueueRefused, EnqueueFull, cancelOrphan, OrphanGetRun,
       OrphanWrite, OrphanEnd
  <2> QED BY <2>1, <2>2
<1>2. ASSUME NEW x \in Queues, WorkerStep(x) \/ EngineStep(x) PROVE plan' = plan
  BY <1>2 DEF WorkerStep, EngineStep, Receive, executeGone,
       executeCanceled, execute, SetRunning, doneCount, PublishRunning,
       NextTarget, Recover, markTargetDone, finishGone, finishQueue, finishRun,
       runTarget, runTargetPanics
<1>3. ASSUME NEW p \in Procs, FinalWrite(p) \/ endFinalize(p) PROVE plan' = plan
  BY <1>3 DEF FinalWrite, endFinalize
<1>4. ASSUME ShutdownBegin \/ MainStep \/ Crash \/ ReapOrphanedRuns PROVE plan' = plan
  BY <1>4 DEF ShutdownBegin, MainStep, ShutdownDrained, ShutdownGrace,
     ShutdownAwait, ShutdownReturn, claimForForceCancel, forceCancelGone,
     ReapOrphanedRuns, Crash
<1> QED BY <1>1, <1>2, <1>3, <1>4 DEF Next

(* The locals of execute, step by step: between targets, ... *)
SameFlags(j, k) ==
  k.failed = j.failed /\ k.canceled = j.canceled /\ k.panicked = j.panicked
Passes(q) ==
  /\ pc[q] \in {"running", "doneCount", "publish"} /\ results' = results
  /\ job'[q].left = job[q].left /\ job'[q].cur = job[q].cur
  /\ SameFlags(job[q], job'[q])
  /\ pc'[q] \in {"doneCount", "publish", "loop"} \/ (pc'[q] = "finish" /\ job[q].panicked)
(* ... leaving the loop, ... *)
Leaves(q) ==
  /\ pc[q] = "loop" /\ pc'[q] = "finish" /\ results' = results
  /\ job'[q].left = job[q].left /\ job'[q].cur = job[q].cur
  /\ job'[q].failed = job[q].failed /\ job'[q].panicked = job[q].panicked
  /\ job'[q].canceled = (arg[q] \in ctxDone)
  /\ arg[q] \in ctxDone \/ job[q].left = {}
(* ... taking the next target, ... *)
Picks(q) ==
  /\ pc[q] = "loop" /\ pc'[q] = "test" /\ results' = results
  /\ \E t \in job[q].left : job'[q].cur = t /\ job'[q].left = job[q].left \ {t}
  /\ SameFlags(job[q], job'[q])
(* ... the test and its row, ... *)
Tests(q) ==
  /\ pc[q] = "test" /\ pc'[q] = "mark"
  /\ job'[q].left = job[q].left /\ job'[q].cur = job[q].cur
  /\ job'[q].canceled = job[q].canceled /\ job'[q].panicked = job[q].panicked
  /\ job[q].failed => job'[q].failed
  /\ \/ InsertResult(q, "ok") \/ (InsertResult(q, "failed") /\ job'[q].failed)
     \/ results' = results /\ job'[q].failed
(* ... a panic, ... *)
PanicsIn(q) ==
  /\ pc[q] = "test" /\ job'[q].failed /\ job'[q].panicked
  /\ job'[q].left = {} /\ job'[q].cur = job[q].cur
  /\ job'[q].canceled = job[q].canceled
  /\ \/ pc'[q] = "finish" /\ \E s \in {"ok", "failed"} : InsertResult(q, s)
     \/ pc'[q] = "recover" /\ results' = results
(* ... the recovery from it, ... *)
Recovers(q) ==
  /\ pc[q] = "recover" /\ pc'[q] = "mark" /\ job'[q] = job[q]
  /\ InsertResult(q, "failed") \/ results' = results
(* ... and the count of a finished target. *)
Counts(q) ==
  /\ pc[q] = "mark" /\ results' = results
  /\ job'[q].left = job[q].left /\ job'[q].cur = None
  /\ SameFlags(job[q], job'[q])
  /\ pc'[q] \in {"publish", "loop"} \/ (pc'[q] = "finish" /\ job[q].panicked)

Works(q) ==
  \/ Passes(q) \/ Leaves(q) \/ Picks(q) \/ Tests(q) \/ PanicsIn(q)
  \/ Recovers(q) \/ Counts(q)

(* These are all the steps of a worker inside a job. *)
LEMMA WorkStep ==
  ASSUME TypeOK, NEW q \in Queues, WorkerStep(q) \/ EngineStep(q), pc[q] \in Working
  PROVE  arg' = arg /\ plan' = plan /\ Works(q)
<1> USE DEF dbVars, muVars, calls, bounds
<1>0. /\ job \in [Queues -> Job] /\ q \in Procs /\ pc \in [Procs -> ClientLabels \cup WorkerLabels \cup MainLabels]
      /\ job[q] \in Job
  BY DEF TypeOK, PcOK, Goto
<1>1. CASE SetRunning(q)
  <2>1. /\ pc[q] = "running" /\ job' = job /\ results' = results /\ arg' = arg /\ plan' = plan
        /\ Goto(q, "doneCount") \/ Goto(q, "loop")
    BY <1>1 DEF SetRunning, setRunStatus
  <2>2. pc'[q] \in {"doneCount", "loop"}
    BY <1>0, <2>1 DEF Goto
  <2> QED BY <2>1, <2>2 DEF Works, Passes, SameFlags
<1>2. CASE doneCount(q)
  <2>1. /\ pc[q] = "doneCount" /\ results' = results /\ arg' = arg /\ plan' = plan
        /\ Goto(q, "publish") /\ \E n : job' = [job EXCEPT ![q].done = n]
    BY <1>2 DEF doneCount
  <2>2. pc'[q] = "publish" /\ \E n : job'[q] = [job[q] EXCEPT !.done = n]
    BY <1>0, <2>1 DEF Goto
  <2>3. /\ job'[q].left = job[q].left /\ job'[q].cur = job[q].cur
        /\ SameFlags(job[q], job'[q])
    BY <1>0, <2>2 DEF SameFlags, Job
  <2> QED BY <2>1, <2>2, <2>3 DEF Works, Passes
<1>3. CASE PublishRunning(q)
  <2>1. /\ pc[q] = "publish" /\ results' = results /\ arg' = arg /\ plan' = plan
        /\ Goto(q, AfterTarget(q)) /\ job' = [job EXCEPT ![q].done = 0]
    BY <1>3 DEF PublishRunning
  <2>2. job'[q] = [job[q] EXCEPT !.done = 0] /\ pc'[q] = AfterTarget(q)
    BY <1>0, <2>1 DEF Goto
  <2>3. /\ job'[q].left = job[q].left /\ job'[q].cur = job[q].cur
        /\ SameFlags(job[q], job'[q])
    BY <1>0, <2>2 DEF SameFlags, Job
  <2> QED BY <2>1, <2>2, <2>3 DEF Works, Passes, AfterTarget
<1>4. CASE NextTarget(q)
  <2>1. pc[q] = "loop" /\ results' = results /\ arg' = arg /\ plan' = plan
    BY <1>4 DEF NextTarget
  <2>2. CASE arg[q] \in ctxDone \/ job[q].left = {}
    <3>1. Goto(q, "finish") /\ job' = [job EXCEPT ![q].canceled = arg[q] \in ctxDone]
      BY <1>4, <2>2 DEF NextTarget
    <3>2. job'[q] = [job[q] EXCEPT !.canceled = arg[q] \in ctxDone] /\ pc'[q] = "finish"
      BY <1>0, <3>1 DEF Goto
    <3> QED BY <1>0, <2>1, <2>2, <3>2 DEF Works, Leaves, Job
  <2>3. CASE ~(arg[q] \in ctxDone \/ job[q].left = {})
    <3>1. PICK t \in job[q].left : job' = [job EXCEPT ![q].cur = t, ![q].left = @ \ {t}]
      BY <1>4, <2>3 DEF NextTarget
    <3>2. Goto(q, "test")
      BY <1>4, <2>3 DEF NextTarget
    <3>3. job'[q] = [job[q] EXCEPT !.cur = t, !.left = @ \ {t}] /\ pc'[q] = "test"
      BY <1>0, <3>1, <3>2 DEF Goto
    <3>4. /\ job'[q].cur = t /\ job'[q].left = job[q].left \ {t}
          /\ SameFlags(job[q], job'[q])
      BY <1>0, <3>3 DEF SameFlags, Job
    <3> QED BY <2>1, <3>3, <3>4 DEF Works, Picks
  <2> QED BY <2>2, <2>3
<1>5. CASE runTarget(q)
  <2>1. /\ pc[q] = "test" /\ arg' = arg /\ plan' = plan /\ Goto(q, "mark")
    BY <1>5 DEF runTarget
  <2>2. PICK s \in {"ok", "failed"}, stored \in BOOLEAN :
           /\ IF stored THEN InsertResult(q, s) ELSE results' = results
           /\ job' = [job EXCEPT ![q].failed = @ \/ TargetFailed(s, stored)]
    BY <1>5 DEF runTarget
  <2>3. job'[q] = [job[q] EXCEPT !.failed = @ \/ TargetFailed(s, stored)]
    BY <1>0, <2>2
  <2>4. /\ job'[q].left = job[q].left /\ job'[q].cur = job[q].cur
        /\ job'[q].canceled = job[q].canceled /\ job'[q].panicked = job[q].panicked
        /\ job'[q].failed = (job[q].failed \/ TargetFailed(s, stored))
    BY <1>0, <2>3 DEF Job
  <2>5. pc'[q] = "mark"
    BY <1>0, <2>1 DEF Goto
  <2>6. job[q].failed \in BOOLEAN
    BY <1>0 DEF Job
  <2>7. /\ job[q].failed => job'[q].failed
        /\ \/ InsertResult(q, "ok") \/ (InsertResult(q, "failed") /\ job'[q].failed)
           \/ results' = results /\ job'[q].failed
    BY <2>2, <2>4, <2>6 DEF TargetFailed
  <2> QED BY <2>1, <2>4, <2>5, <2>7 DEF Works, Tests
<1>6. CASE runTargetPanics(q)
  <2>1. /\ pc[q] = "test" /\ arg' = arg /\ plan' = plan
        /\ job' = [job EXCEPT ![q].failed = TRUE, ![q].panicked = TRUE, ![q].left = {}]
    BY <1>6 DEF runTargetPanics
  <2>2. PICK written \in BOOLEAN, s \in {"ok", "failed"} :
           /\ IF written THEN InsertResult(q, s) ELSE results' = results
           /\ Goto(q, AfterPanic(written))
    BY <1>6 DEF runTargetPanics
  <2>3. job'[q] = [job[q] EXCEPT !.failed = TRUE, !.panicked = TRUE, !.left = {}]
    BY <1>0, <2>1
  <2>4. /\ job'[q].failed /\ job'[q].panicked /\ job'[q].left = {}
        /\ job'[q].cur = job[q].cur /\ job'[q].canceled = job[q].canceled
    BY <1>0, <2>3 DEF Job
  <2>5. pc'[q] = AfterPanic(written)
    BY <1>0, <2>2 DEF Goto
  <2> QED BY <2>1, <2>2, <2>4, <2>5 DEF Works, PanicsIn, AfterPanic
<1>7. CASE Recover(q)
  <2>1. /\ pc[q] = "recover" /\ arg' = arg /\ plan' = plan /\ job' = job
        /\ Goto(q, "mark") /\ (InsertResult(q, "failed") \/ results' = results)
    BY <1>7 DEF Recover
  <2>2. pc'[q] = "mark"
    BY <1>0, <2>1 DEF Goto
  <2> QED BY <2>1, <2>2 DEF Works, Recovers
<1>8. CASE markTargetDone(q)
  <2>1. pc[q] = "mark" /\ results' = results /\ arg' = arg /\ plan' = plan
    BY <1>8 DEF markTargetDone
  <2>2. CASE arg[q] \in tracked
    <3>1. /\ \E n : job' = [job EXCEPT ![q].done = n, ![q].cur = None]
          /\ Goto(q, "publish")
      BY <1>8, <2>2 DEF markTargetDone
    <3>2. pc'[q] = "publish" /\ \E n : job'[q] = [job[q] EXCEPT !.done = n, !.cur = None]
      BY <1>0, <3>1 DEF Goto
    <3>3. job'[q].left = job[q].left /\ job'[q].cur = None /\ SameFlags(job[q], job'[q])
      BY <1>0, <3>2 DEF SameFlags, Job
    <3> QED BY <2>1, <3>2, <3>3 DEF Works, Counts
  <2>3. CASE arg[q] \notin tracked
    <3>1. job' = [job EXCEPT ![q].cur = None] /\ Goto(q, AfterTarget(q))
      BY <1>8, <2>3 DEF markTargetDone
    <3>2. job'[q] = [job[q] EXCEPT !.cur = None] /\ pc'[q] = AfterTarget(q)
      BY <1>0, <3>1 DEF Goto
    <3>3. job'[q].left = job[q].left /\ job'[q].cur = None /\ SameFlags(job[q], job'[q])
      BY <1>0, <3>2 DEF SameFlags, Job
    <3> QED BY <2>1, <3>2, <3>3 DEF Works, Counts, AfterTarget
  <2> QED BY <2>2, <2>3
<1>9. CASE \/ Receive(q) \/ executeGone(q) \/ executeCanceled(q) \/ execute(q)
           \/ finishGone(q) \/ finishQueue(q) \/ finishRun(q)
  BY <1>9 DEF Receive, executeGone, executeCanceled, execute, finishGone,
     finishQueue, finishRun, Working
<1> QED BY <1>1, <1>2, <1>3, <1>4, <1>5, <1>6, <1>7, <1>8, <1>9
        DEF WorkerStep, EngineStep

(* The worker of q gives up the job of run r: the run has been claimed, or *)
(* the queue is finished with it.                                          *)
Drops(q, r) ==
  /\ arg[q] = r /\ results' = results
  /\ \/ (executeGone(q) \/ finishGone(q)) /\ r \notin tracked
     \/ pc[q] = "finish" /\ (finishQueue(q) \/ finishRun(q))

(* What the worker of q does outside of Working. *)
LEMMA OffStep ==
  ASSUME TypeOK, NEW q \in Queues, WorkerStep(q) \/ EngineStep(q), pc[q] \notin Working
  PROVE  \/ /\ Receive(q) /\ pc[q] = "idle" /\ pc'[q] = "start"
            /\ arg'[q] = Head(chan[q]) /\ chan[q] # <<>>
         \/ /\ execute(q) /\ pc[q] = "start" /\ pc'[q] = "running" /\ arg'[q] = arg[q]
            /\ job'[q] = [NoJob EXCEPT !.left = TargetsAt(arg[q], q)]
            /\ results' = results /\ plan' = plan
         \/ /\ executeCanceled(q) /\ pc[q] = "start" /\ pc'[q] = "finish" /\ arg'[q] = arg[q]
            /\ job'[q] = [NoJob EXCEPT !.canceled = TRUE]
         \/ /\ Drops(q, arg[q]) /\ pc'[q] \in {"idle", "write"}
            /\ pc'[q] = "write" => finishRun(q)
<1> USE DEF dbVars, muVars, calls, bounds
<1>0. /\ job \in [Queues -> Job] /\ q \in Procs /\ \A l : Goto(q, l) => pc'[q] = l
      /\ q # Main /\ arg \in [Procs -> Runs \cup {None}]
      /\ Return(q) => pc'[q] = "idle"
  BY ProcAssumption DEF TypeOK, PcOK, Goto, Return
<1>1. CASE Receive(q)
  BY <1>0, <1>1 DEF Receive
<1>2. CASE execute(q)
  BY <1>0, <1>2 DEF execute
<1>3. CASE executeCanceled(q)
  BY <1>0, <1>3 DEF executeCanceled
<1>4. CASE executeGone(q) \/ finishGone(q)
  BY <1>0, <1>4 DEF executeGone, finishGone, Drops
<1>5. CASE finishQueue(q)
  BY <1>0, <1>5 DEF finishQueue, Drops
<1>6. CASE finishRun(q)
  BY <1>0, <1>6 DEF finishRun, Drops
<1>7. CASE \/ SetRunning(q) \/ doneCount(q) \/ PublishRunning(q) \/ NextTarget(q)
           \/ Recover(q) \/ markTargetDone(q) \/ EngineStep(q)
  BY <1>7 DEF SetRunning, doneCount, PublishRunning, NextTarget, Recover,
     markTargetDone, EngineStep, runTarget, runTargetPanics, Working
<1> QED BY <1>1, <1>2, <1>3, <1>4, <1>5, <1>6, <1>7 DEF WorkerStep

(* A queue comes to have a job of r only from Enqueue, and gets rid of it  *)
(* only when its worker gives it up.                                       *)
LEMMA HoldsStep ==
  ASSUME TypeOK, Next, NEW q \in Queues, NEW r \in Runs
  PROVE  /\ Occurs(chan'[q], r) => Occurs(chan[q], r) \/ Sending(r)
         /\ Occurs(chan[q], r) => \/ Occurs(chan'[q], r) \/ Crash
                                  \/ pc'[q] = "start" /\ arg'[q] = r
         /\ pc'[q] = "start" /\ arg'[q] = r =>
              (pc[q] = "start" /\ arg[q] = r) \/ Occurs(chan[q], r)
         /\ Holds(q, r)' => Holds(q, r) \/ Sending(r)
         /\ Holds(q, r) => Holds(q, r)' \/ Crash \/ Drops(q, r)
<1>0. /\ chan[q] \in Seq(Runs) /\ r # None /\ q \in Procs /\ q # Main
      /\ pc[q] \in WorkerLabels /\ (pc[q] \in Vacant <=> arg[q] = None)
  BY ProcAssumption DEF TypeOK, PcOK, LabelsOf
<1>1. Occurs(chan'[q], r) => Occurs(chan[q], r) \/ Sending(r)
  <2>1. CASE chan'[q] = chan[q]
    BY <2>1
  <2>2. CASE chan[q] # <<>> /\ chan'[q] = Tail(chan[q])
    BY <1>0, <2>2, OccursTail
  <2>3. ASSUME NEW x \in Runs, Sending(x), chan'[q] = Append(chan[q], x)
        PROVE  Occurs(chan'[q], r) => Occurs(chan[q], r) \/ Sending(r)
    <3>1. Occurs(chan'[q], r) => Occurs(chan[q], r) \/ r = x
      BY <1>0, <2>3, OccursAppend
    <3> QED BY <2>3, <3>1
  <2>4. CASE Crash
    BY <2>4 DEF Crash, Occurs
  <2> QED BY <2>1, <2>2, <2>3, <2>4, ChanStep
<1>2. Occurs(chan[q], r) => \/ Occurs(chan'[q], r) \/ Crash
                            \/ pc'[q] = "start" /\ arg'[q] = r
  <2>1. CASE chan'[q] = chan[q]
    BY <2>1
  <2>2. CASE /\ chan[q] # <<>> /\ chan'[q] = Tail(chan[q])
             /\ pc'[q] = "start" /\ arg'[q] = Head(chan[q])
    BY <1>0, <2>2, OccursTail
  <2>3. ASSUME NEW x \in Runs, chan'[q] = Append(chan[q], x)
        PROVE  Occurs(chan[q], r) => Occurs(chan'[q], r)
    BY <1>0, <2>3, OccursAppend
  <2> QED BY <2>1, <2>2, <2>3, ChanStep
<1>3. CASE pc'[q] = pc[q] /\ arg'[q] = arg[q]
  <2>1. InHand(q)' = InHand(q)
    BY <1>3 DEF InHand
  <2>2. pc'[q] = "start" /\ arg'[q] = r => Holds(q, r)'
    BY DEF Holds
  <2> QED BY <1>1, <1>2, <1>3, <2>1, <2>2, HoldsMeans
<1>4. CASE (WorkerStep(q) \/ EngineStep(q)) /\ pc[q] \in Working
  <2>1. arg' = arg /\ Works(q)
    BY <1>4, WorkStep
  <2>2. pc'[q] \notin Final \cup {"start"}
    BY <2>1 DEF Works, Passes, Leaves, Picks, Tests, PanicsIn, Recovers, Counts, Final
  <2>3. InHand(q) = arg[q] /\ InHand(q)' = arg[q]
    BY <1>4, <2>1, <2>2 DEF InHand, Final, Working
  <2> QED BY <1>1, <1>2, <2>1, <2>2, <2>3, HoldsMeans
<1>5. CASE (WorkerStep(q) \/ EngineStep(q)) /\ pc[q] \notin Working
  <2>1. CASE /\ Receive(q) /\ pc[q] = "idle" /\ pc'[q] = "start"
             /\ arg'[q] = Head(chan[q]) /\ chan[q] # <<>>
    <3>1. Occurs(chan[q], arg'[q])
      BY <1>0, <2>1, OccursTail
    <3>2. InHand(q) = None /\ InHand(q)' = arg'[q]
      BY <1>0, <2>1 DEF InHand, Final, Vacant
    <3>3. pc[q] # "start"
      BY <2>1
    <3>4. Holds(q, r) <=> Occurs(chan[q], r)
      BY <1>0, <3>2, HoldsMeans
    <3>5. Holds(q, r)' <=> Occurs(chan'[q], r) \/ arg'[q] = r
      BY <3>2, HoldsMeans
    <3>6. pc'[q] = "start" /\ arg'[q] = r => Occurs(chan[q], r)
      BY <3>1
    <3> QED BY <1>1, <1>2, <3>1, <3>4, <3>5, <3>6
  <2>2. CASE pc[q] = "start" /\ pc'[q] \in {"running", "finish"} /\ arg'[q] = arg[q]
    <3>1. InHand(q) = arg[q] /\ InHand(q)' = arg[q]
      BY <2>2 DEF InHand, Final
    <3> QED BY <1>1, <1>2, <2>2, <3>1, HoldsMeans
  <2>3. CASE Drops(q, arg[q]) /\ pc'[q] \in {"idle", "write"}
    <3>1. InHand(q)' = None
      <4>1. PcOK'
        BY <1>0, NextTypeOK DEF TypeOK
      <4>2. pc'[q] = "idle" => arg'[q] = None
        BY <1>0, <4>1 DEF PcOK, Vacant
      <4> QED BY <2>3, <4>2 DEF InHand, Final
    <3>2. Holds(q, r)' <=> Occurs(chan'[q], r)
      BY <1>0, <3>1, HoldsMeans
    <3>3. Holds(q, r) => Occurs(chan[q], r) \/ Drops(q, r)
      <4>1. Holds(q, r) => Occurs(chan[q], r) \/ InHand(q) = r
        BY HoldsMeans
      <4>2. InHand(q) = r => arg[q] = r
        BY <1>0 DEF InHand
      <4> QED BY <2>3, <4>1, <4>2
    <3> QED BY <1>1, <1>2, <2>3, <3>2, <3>3, HoldsMeans
  <2> QED BY <1>5, <2>1, <2>2, <2>3, OffStep
<1>6. CASE pc[q] \in Final /\ pc'[q] \in {"settle", "resign", "idle", "force"}
  <2>1. PcOK'
    BY NextTypeOK DEF TypeOK
  <2>2. InHand(q) = None /\ InHand(q)' = None /\ pc'[q] # "start"
    BY <1>0, <1>6, <2>1 DEF InHand, Final, PcOK, Vacant
  <2> QED BY <1>0, <1>1, <1>2, <2>2, HoldsMeans
<1>7. CASE Crash
  <2>1. pc'[q] = "idle" /\ arg'[q] = None /\ chan'[q] = <<>>
    BY <1>0, <1>7 DEF Crash
  <2>2. ~Holds(q, r)' /\ ~Occurs(chan'[q], r)
    BY <1>0, <2>1 DEF Holds, Occurs
  <2> QED BY <1>7, <2>1, <2>2
<1> QED BY <1>3, <1>4, <1>5, <1>6, <1>7, QueueStep

(***************************************************************************)
(* One row per target.                                                     *)
(***************************************************************************)

(* Queue q has not begun run r. *)
Untouched(q, r) == Occurs(chan[q], r) \/ (pc[q] = "start" /\ arg[q] = r)

(* A target has no row while its job waits, while it is in the list of the *)
(* worker, and while it is in flight.                                      *)
ResInv ==
  /\ AtMostOneRow
  /\ \A q \in Queues, r \in Runs, t \in Targets :
       Untouched(q, r) /\ QueueOf[t] = q => results[r][t] = <<>>
  /\ \A q \in Queues : pc[q] \in Working =>
       \A t \in job[q].left : t \in TargetsAt(arg[q], q) /\ results[arg[q]][t] = <<>>
  /\ \A q \in Queues : pc[q] \in {"test", "recover"} =>
       /\ job[q].cur \in TargetsAt(arg[q], q) /\ results[arg[q]][job[q].cur] = <<>>
       /\ job[q].cur \notin job[q].left

(* The first row of a target. *)
LEMMA AppendOne ==
  ASSUME NEW S, NEW x \in S
  PROVE  Append(<<>>, x) = <<x>>
  OBVIOUS

(* An insert gives a target of the worker's own queue its first row. *)
LEMMA InsertExact ==
  ASSUME TypeOK, ResInv, NEW q \in Queues, NEW s \in {"ok", "failed"},
         pc[q] \in {"test", "recover"}, InsertResult(q, s)
  PROVE  /\ arg[q] \in Runs /\ job[q].cur \in Targets /\ QueueOf[job[q].cur] = q
         /\ \A r \in Runs, t \in Targets :
              results'[r][t] = IF r = arg[q] /\ t = job[q].cur
                               THEN <<s>> ELSE results[r][t]
<1>1. /\ arg[q] \in Runs /\ plan \in [Runs -> SUBSET Targets]
      /\ results \in [Runs -> [Targets -> Seq({"ok", "failed"})]]
  BY DEF TypeOK, PcOK, Vacant
<1>2. /\ job[q].cur \in Targets /\ QueueOf[job[q].cur] = q
      /\ results[arg[q]][job[q].cur] = <<>>
  BY <1>1 DEF ResInv, TargetsAt
<1>3. PICK r0 \in Runs, t0 \in Targets : r0 = arg[q] /\ t0 = job[q].cur
  BY <1>1, <1>2
<1>4. results' = [results EXCEPT ![r0][t0] = Append(results[r0][t0], s)]
  BY <1>3 DEF InsertResult
<1>5. Append(results[r0][t0], s) = <<s>>
  BY <1>2, <1>3, AppendOne
<1>6. results' = [results EXCEPT ![r0][t0] = <<s>>]
  BY <1>4, <1>5
<1>7. \A r \in Runs, t \in Targets :
         results'[r][t] = IF r = r0 /\ t = t0 THEN <<s>> ELSE results[r][t]
  BY <1>1, <1>6
<1> QED BY <1>1, <1>2, <1>3, <1>7

(* A row that changes is that of the target in flight in its queue, which  *)
(* had none.                                                               *)
LEMMA RowChange ==
  ASSUME TypeOK, ResInv, Next, NEW r \in Runs, NEW t \in Targets,
         results'[r][t] # results[r][t]
  PROVE  /\ QueueOf[t] \in Queues /\ pc[QueueOf[t]] \in {"test", "recover"}
         /\ pc'[QueueOf[t]] \in {"mark", "finish"}
         /\ arg[QueueOf[t]] = r /\ job[QueueOf[t]].cur = t
         /\ results[r][t] = <<>> /\ \E s \in {"ok", "failed"} : results'[r][t] = <<s>>
<1>1. PICK q \in Queues, s \in {"ok", "failed"} :
         /\ pc[q] \in {"test", "recover"} /\ InsertResult(q, s)
         /\ pc'[q] \in {"mark", "finish"}
  BY ResultStep
<1>2. /\ QueueOf[job[q].cur] = q
      /\ results'[r][t] = IF r = arg[q] /\ t = job[q].cur THEN <<s>> ELSE results[r][t]
  BY <1>1, InsertExact
<1>3. r = arg[q] /\ t = job[q].cur /\ results'[r][t] = <<s>>
  BY <1>2
<1>4. results[r][t] = <<>>
  BY <1>1, <1>3 DEF ResInv
<1> QED BY <1>1, <1>2, <1>3, <1>4

(* At most one row per run and target, and none for a target still to be run, kept by
   every step. *)
LEMMA ResInductive ==
  /\ Init => ResInv
  /\ TypeOK /\ TypeOK' /\ ClaimInv /\ JobInv /\ DownInv /\ LiveInv /\ StartInv /\ ResInv
       /\ [Next]_vars => ResInv'
<1>1. Init => ResInv
  <2>1. ASSUME Init PROVE \A q \in Queues : pc[q] = "idle"
    BY <2>1 DEF Init
  <2>2. ASSUME Init PROVE \A r \in Runs, t \in Targets : results[r][t] = <<>>
    BY <2>2 DEF Init
  <2> QED BY <2>1, <2>2 DEF ResInv, AtMostOneRow, Working
<1>2. ASSUME TypeOK, TypeOK', ClaimInv, JobInv, DownInv, LiveInv, StartInv, ResInv, Next
      PROVE  ResInv'
  <2>0. /\ QueueOf \in [Targets -> Queues] /\ plan \in [Runs -> SUBSET Targets]
        /\ job \in [Queues -> Job]
    BY <1>2, TargetAssumption DEF TypeOK
  <2>1. ASSUME NEW r \in Runs, NEW t \in Targets PROVE Len(results'[r][t]) <= 1
    <3>1. CASE results'[r][t] = results[r][t]
      BY <1>2, <3>1 DEF ResInv, AtMostOneRow
    <3>2. CASE results'[r][t] # results[r][t]
      <4>1. \E s \in {"ok", "failed"} : results'[r][t] = <<s>>
        BY <1>2, <3>2, RowChange
      <4> QED BY <4>1
    <3> QED BY <3>1, <3>2
  <2>2. ASSUME NEW r \in Runs, NEW t \in Targets, Untouched(QueueOf[t], r)'
        PROVE  results'[r][t] = <<>>
    <3>1. PICK q \in Queues : q = QueueOf[t]
      BY <2>0
    <3>2. Untouched(q, r) \/ Sending(r)
      <4>1. Occurs(chan'[q], r) \/ (pc'[q] = "start" /\ arg'[q] = r)
        BY <2>2, <3>1 DEF Untouched
      <4> QED BY <1>2, <4>1, HoldsStep DEF Untouched
    <3>3. CASE Untouched(q, r)
      <4>1. results[r][t] = <<>>
        BY <1>2, <3>1, <3>3 DEF ResInv
      <4>2. ~(pc[q] \in {"test", "recover"} /\ arg[q] = r)
        <5>1. ~Occurs(chan[q], InHand(q))
          BY <1>2 DEF JobInv, JobsOnce
        <5> QED BY <3>3, <5>1 DEF Untouched, InHand, Final
      <4> QED BY <1>2, <3>1, <4>1, <4>2, RowChange
    <3>4. CASE Sending(r)
      <4>1. PICK c \in Clients : pc[c] = "insert" /\ arg[c] = r
        BY <3>4 DEF Sending
      <4>2. results[r][t] = <<>> /\ ~Holds(q, r)
        BY <1>2, <4>1 DEF StartInv, JobInv
      <4>3. ~(pc[q] \in {"test", "recover"} /\ arg[q] = r)
        BY <4>2 DEF Holds
      <4> QED BY <1>2, <3>1, <4>2, <4>3, RowChange
    <3> QED BY <3>2, <3>3, <3>4
  <2>3. ASSUME NEW q \in Queues, pc[q] \in Working
        PROVE  arg[q] \in Runs /\ plan'[arg[q]] = plan[arg[q]]
    <3>1. arg[q] \in Runs /\ Holds(q, arg[q])
      BY <1>2, <2>3 DEF TypeOK, PcOK, Vacant, Working, Holds
    <3>2. dbStatus[arg[q]] # "none"
      BY <1>2, <3>1 DEF JobInv
    <3> QED BY <1>2, <3>1, <3>2, PlanStep
  <2>4. ASSUME NEW q \in Queues, pc'[q] \in Working, NEW t \in job'[q].left
        PROVE  t \in TargetsAt(arg[q], q)' /\ results'[arg'[q]][t] = <<>>
    <3>1. arg'[q] = arg[q] /\ (pc[q] \in Working \/ execute(q))
      BY <1>2, <2>4, WorkingComes
    <3>2. CASE pc[q] \in Working
      <4>1. t \in job[q].left
        <5>1. CASE job'[q] = job[q]
          BY <2>4, <5>1
        <5>2. CASE WorkerStep(q) \/ EngineStep(q)
          <6>1. Works(q)
            BY <1>2, <3>2, <5>2, WorkStep
          <6> QED BY <2>4, <6>1 DEF Works, Passes, Leaves, Picks, Tests, PanicsIn,
                     Recovers, Counts
        <5>3. pc[q] \notin Final /\ ~Crash
          BY <2>4, <3>2, ProcAssumption DEF Working, Final, Crash
        <5> QED BY <1>2, <5>1, <5>2, <5>3, QueueStep
      <4>2. t \in TargetsAt(arg[q], q) /\ results[arg[q]][t] = <<>>
        BY <1>2, <3>2, <4>1 DEF ResInv
      <4>3. arg[q] \in Runs /\ t \in Targets /\ QueueOf[t] = q /\ t \in plan'[arg[q]]
        BY <2>0, <2>3, <3>2, <4>2 DEF TargetsAt
      <4>4. ~(pc[q] \in {"test", "recover"} /\ job[q].cur = t)
        BY <1>2, <4>1 DEF ResInv
      <4>5. results'[arg[q]][t] = <<>>
        BY <1>2, <4>2, <4>3, <4>4, RowChange
      <4> QED BY <3>1, <4>3, <4>5 DEF TargetsAt
    <3>3. CASE execute(q) /\ pc[q] \notin Working
      <4>1. /\ pc[q] = "start" /\ job'[q] = [NoJob EXCEPT !.left = TargetsAt(arg[q], q)]
            /\ results' = results /\ plan' = plan
        BY <1>2, <2>0, <3>3 DEF execute, dbVars, calls
      <4>2. job'[q].left = TargetsAt(arg[q], q)
        BY <4>1 DEF NoJob
      <4>3. arg[q] \in Runs
        BY <1>2, <3>3 DEF execute, TypeOK
      <4>4. t \in Targets /\ QueueOf[t] = q /\ t \in plan[arg[q]]
        BY <2>0, <2>4, <4>2, <4>3 DEF TargetsAt
      <4>5. results[arg[q]][t] = <<>>
        BY <1>2, <4>1, <4>3, <4>4 DEF ResInv, Untouched
      <4> QED BY <3>1, <4>1, <4>4, <4>5 DEF TargetsAt
    <3> QED BY <3>1, <3>2, <3>3
  <2>5. ASSUME NEW q \in Queues, pc'[q] \in {"test", "recover"}
        PROVE  /\ job'[q].cur \in TargetsAt(arg[q], q)'
               /\ results'[arg'[q]][job'[q].cur] = <<>>
               /\ job'[q].cur \notin job'[q].left
    <3>0. pc'[q] \in Working /\ ~Crash /\ ~execute(q)
      <4>1. execute(q) => pc'[q] = "running"
        BY <1>2 DEF execute, Goto, TypeOK, PcOK
      <4> QED BY <2>5, <4>1, ProcAssumption DEF Working, Crash
    <3>1. arg'[q] = arg[q] /\ pc[q] \in Working
      BY <1>2, <3>0, WorkingComes
    <3>2. /\ job'[q].cur \in TargetsAt(arg[q], q) /\ results[arg[q]][job'[q].cur] = <<>>
          /\ job'[q].cur \notin job'[q].left
      <4>1. CASE job'[q] = job[q] /\ pc'[q] = pc[q]
        BY <1>2, <2>5, <4>1 DEF ResInv
      <4>2. CASE WorkerStep(q) \/ EngineStep(q)
        <5>1. Works(q)
          BY <1>2, <3>1, <4>2, WorkStep
        <5>2. \/ Picks(q)
              \/ pc[q] = "test" /\ job'[q].left = {} /\ job'[q].cur = job[q].cur
          BY <2>5, <5>1 DEF Works, Passes, Leaves, Tests, PanicsIn, Recovers, Counts
        <5>3. CASE Picks(q)
          BY <1>2, <3>1, <5>3 DEF Picks, ResInv
        <5>4. CASE pc[q] = "test" /\ job'[q].left = {} /\ job'[q].cur = job[q].cur
          BY <1>2, <5>4 DEF ResInv
        <5> QED BY <5>2, <5>3, <5>4
      <4>3. pc[q] \notin Final
        BY <3>1 DEF Working, Final
      <4> QED BY <1>2, <3>0, <4>1, <4>2, <4>3, QueueStep
    <3>3. PICK t \in Targets : t = job'[q].cur /\ QueueOf[t] = q /\ t \in plan'[arg[q]]
      BY <2>0, <2>3, <3>1, <3>2 DEF TargetsAt
    <3>4. results'[arg[q]][t] = results[arg[q]][t]
      BY <1>2, <2>3, <2>5, <3>1, <3>3, RowChange
    <3> QED BY <3>1, <3>2, <3>3, <3>4 DEF TargetsAt
  <2>6. \A q \in Queues, r \in Runs, t \in Targets :
           Untouched(q, r)' /\ QueueOf[t] = q => results'[r][t] = <<>>
    BY <2>2
  <2> QED BY <2>1, <2>4, <2>5, <2>6 DEF ResInv, AtMostOneRow
<1>3. ASSUME ResInv, UNCHANGED vars PROVE ResInv'
  BY <1>3 DEF ResInv, AtMostOneRow, Untouched, Occurs, TargetsAt, vars, dbVars, muVars, calls
<1> QED BY <1>1, <1>2, <1>3

(***************************************************************************)
(* "done" means complete.                                                  *)
(***************************************************************************)

Ok(r, t) == results[r][t] = <<"ok">>

(* As long as nothing has failed or been cancelled, a target that its      *)
(* queue is finished with has its good row; so the last queue to finish    *)
(* may write "done", and no job of the run is left to spoil it.            *)
DoneInv ==
  /\ \A r \in tracked : ~st[r].failed /\ ~st[r].canceled =>
       \A t \in plan[r] : ~Holds(QueueOf[t], r) => Ok(r, t)
  /\ \A q \in Queues :
       pc[q] \in Working \cup {"finish"} /\ ~job[q].failed /\ ~job[q].canceled =>
         /\ \A t \in TargetsAt(arg[q], q) :
              t \in job[q].left \/ (pc[q] = "test" /\ t = job[q].cur) \/ Ok(arg[q], t)
         /\ pc[q] = "finish" => job[q].left = {}
  /\ \A q \in Queues : pc[q] \in Working =>
       /\ ~job[q].canceled /\ (job[q].panicked => job[q].failed)
       /\ pc[q] = "recover" => job[q].failed
  /\ \A p \in Procs : pc[p] = "write" /\ goal[p] = "done" =>
       /\ \A q \in Queues : ~Holds(q, arg[p])
       /\ \A t \in plan[arg[p]] : Ok(arg[p], t)
  /\ \A r \in Runs : dbStatus[r] = "done" => \A q \in Queues : ~Holds(q, r)
  /\ DoneMeansComplete

(* A good row stays. *)
LEMMA OkStays ==
  ASSUME TypeOK, ResInv, Next, NEW r \in Runs, NEW t \in Targets, Ok(r, t)
  PROVE  Ok(r, t)'
<1>1. results[r][t] # <<>>
  BY DEF Ok
<1>2. results'[r][t] = results[r][t]
  BY <1>1, RowChange
<1> QED BY <1>2 DEF Ok

(* The run that loses its last job to finishRun has no other.             *)
LEMMA LastMeansLast ==
  ASSUME TypeOK, JobInv, NEW q \in Queues, NEW r \in tracked, Holds(q, r), LastJob(r)
  PROVE  \A o \in Queues : Holds(o, r) => o = q
<1> DEFINE H == {o \in Queues : Holds(o, r)}
<1>1. IsFiniteSet(H) /\ q \in H
  BY FS_Subset, TargetAssumption
<1>2. st[r].pending = Cardinality(H)
  BY DEF JobInv, PendingMatchesJobs
<1>3. Cardinality(H) \in Nat
  BY <1>1, FS_CardinalityType
<1>4. Cardinality(H) <= 1
  BY <1>2, <1>3 DEF LastJob
<1>5. IsFiniteSet(H \ {q}) /\ Cardinality(H \ {q}) = Cardinality(H) - 1
  BY <1>1, FS_RemoveElement
<1>6. Cardinality(H \ {q}) \in Nat
  BY <1>5, FS_CardinalityType
<1>7. Cardinality(H \ {q}) = 0
  BY <1>3, <1>4, <1>5, <1>6
<1>8. H \ {q} = {}
  BY <1>5, <1>7, FS_EmptySet
<1> QED BY <1>8

(* What finishQueue records of the job it finishes. *)
LEMMA OutcomeFlags ==
  ASSUME TypeOK, NEW q \in Queues, NEW r \in Runs
  PROVE  /\ Outcome(r, q).failed = (st[r].failed \/ job[q].failed)
         /\ Outcome(r, q).canceled = (st[r].canceled \/ job[q].canceled)
         /\ Outcome(r, q).done = st[r].done
<1>1. st[r] \in RunState /\ job[q] \in Job
  BY DEF TypeOK
<1> QED BY <1>1 DEF Outcome, RunState, Job

(* A queue that finishes writes down its outcome and leaves the tables alone. *)
LEMMA FinishRecords ==
  ASSUME TypeOK, NEW q \in Queues, finishQueue(q) \/ finishRun(q)
  PROVE  /\ arg[q] \in tracked /\ arg[q] \in Runs /\ pc[q] = "finish"
         /\ st'[arg[q]] = Outcome(arg[q], q) /\ results' = results
         /\ UNCHANGED <<dbStatus, plan, chan>>
<1>1. /\ arg[q] \in tracked /\ arg[q] \in Runs /\ pc[q] = "finish"
      /\ st' = [st EXCEPT ![arg[q]] = Outcome(arg[q], q)] /\ results' = results
      /\ UNCHANGED <<dbStatus, plan, chan>>
  BY DEF finishQueue, finishRun, TypeOK, dbVars, calls
<1> QED BY <1>1 DEF TypeOK

(* What DoneInv says of a tracked run. *)
LEMMA DoneTracked ==
  ASSUME TypeOK, ClaimInv, JobInv, ResInv, DoneInv, Next,
         NEW r \in tracked', ~st'[r].failed, ~st'[r].canceled,
         NEW t \in plan'[r], ~Holds(QueueOf[t], r)'
  PROVE  Ok(r, t)'
<1>0. TypeOK'
  BY NextTypeOK
<1>1. PICK q \in Queues : q = QueueOf[t] /\ r \in Runs /\ t \in Targets
  BY <1>0, TargetAssumption DEF TypeOK
<1>2. ~Crash
  BY DEF Crash
<1>3. ASSUME NEW c \in Clients, EnqueueSend(c), r = arg[c] PROVE FALSE
  <2>1. /\ pc[c] = "insert" /\ Send(r, QueuesOf(r)) /\ plan' = plan
    BY <1>3 DEF EnqueueSend, calls
  <2>2. Solo(c) /\ c \notin Queues /\ c \in Procs
    BY <1>3, ClientGoes, ProcAssumption DEF ClientStep
  <2>3. \A o \in Queues : InHand(o)' = InHand(o) /\ ~Holds(o, r)
    <3>1. \A o \in Queues : InHand(o)' = InHand(o)
      BY <2>2 DEF Solo, InHand
    <3>2. \A o \in Queues : ~Holds(o, r)
      BY <1>3, <2>1 DEF JobInv
    <3> QED BY <3>1, <3>2
  <2>4. QueuesOf(r) \in SUBSET Queues
    BY <1>1, TargetAssumption DEF QueuesOf, TypeOK
  <2>5. {o \in Queues : Holds(o, r)'} = QueuesOf(r)
    BY <1>1, <2>1, <2>3, <2>4, SendHolds
  <2>6. q \in QueuesOf(r)
    BY <1>1, <2>1 DEF QueuesOf
  <2> QED BY <1>1, <2>5, <2>6
<1>4. r \in tracked
  BY <1>3, TrackedStep
<1>5. plan'[r] = plan[r]
  BY <1>1, <1>4, PlanStep DEF ClaimInv
<1>6. ~st[r].failed /\ ~st[r].canceled
  <2>1. \A c \in Clients : pc[c] = "insert" => arg[c] # r
    BY <1>4, OwnedApart
  <2> QED BY <1>1, <1>2, <1>4, <2>1, FlagStep
<1>7. CASE ~Holds(q, r)
  BY <1>1, <1>4, <1>5, <1>6, <1>7, OkStays DEF DoneInv
<1>8. CASE Holds(q, r)
  <2>1. Drops(q, r)
    BY <1>1, <1>2, <1>8, HoldsStep
  <2>2. finishQueue(q) \/ finishRun(q)
    BY <1>4, <2>1 DEF Drops
  <2>3. arg[q] = r /\ pc[q] = "finish" /\ results' = results /\ st'[r] = Outcome(r, q)
    BY <2>1, <2>2, FinishRecords DEF Drops
  <2>4. ~job[q].failed /\ ~job[q].canceled
    <3>1. ~Outcome(r, q).failed /\ ~Outcome(r, q).canceled
      BY <2>3
    <3>2. /\ Outcome(r, q).failed = (st[r].failed \/ job[q].failed)
          /\ Outcome(r, q).canceled = (st[r].canceled \/ job[q].canceled)
      BY <1>1, OutcomeFlags
    <3> QED BY <3>1, <3>2
  <2>5. t \in TargetsAt(r, q)
    BY <1>1, <1>5 DEF TargetsAt
  <2>6. Ok(r, t)
    BY <2>3, <2>4, <2>5 DEF DoneInv
  <2> QED BY <2>3, <2>6 DEF Ok
<1> QED BY <1>7, <1>8

(* What DoneInv says of a worker inside a job. *)
LEMMA DoneWorker ==
  ASSUME TypeOK, JobInv, ResInv, DoneInv, Next, NEW q \in Queues,
         pc'[q] \in Working \cup {"finish"}
  PROVE  /\ ~job'[q].failed /\ ~job'[q].canceled =>
              /\ \A t \in TargetsAt(arg[q], q)' :
                   t \in job'[q].left \/ (pc'[q] = "test" /\ t = job'[q].cur) \/ Ok(arg[q], t)'
              /\ pc'[q] = "finish" => job'[q].left = {}
         /\ pc'[q] \in Working =>
              /\ ~job'[q].canceled /\ (job'[q].panicked => job'[q].failed)
              /\ pc'[q] = "recover" => job'[q].failed
<1>0. ~Crash /\ TypeOK'
  BY NextTypeOK, ProcAssumption DEF Crash, Working
<1>1. ASSUME pc[q] \in Working \cup {"finish"}, arg'[q] = arg[q]
      PROVE  /\ arg[q] \in Runs /\ TargetsAt(arg[q], q)' = TargetsAt(arg[q], q)
             /\ \A t \in TargetsAt(arg[q], q) : t \in Targets /\ QueueOf[t] = q
             /\ \A t \in TargetsAt(arg[q], q) : Ok(arg[q], t) => Ok(arg[q], t)'
  <2>1. arg[q] \in Runs /\ Holds(q, arg[q])
    BY <1>1 DEF TypeOK, PcOK, Vacant, Working, Holds
  <2>2. dbStatus[arg[q]] # "none"
    BY <2>1 DEF JobInv
  <2>3. plan'[arg[q]] = plan[arg[q]]
    BY <2>1, <2>2, PlanStep
  <2>4. TargetsAt(arg[q], q)' = TargetsAt(arg[q], q)
    BY <1>1, <2>3 DEF TargetsAt
  <2>5. \A t \in TargetsAt(arg[q], q) : t \in Targets /\ QueueOf[t] = q
    BY <2>1 DEF TargetsAt, TypeOK
  <2>6. PICK x \in Runs : x = arg[q]
    BY <2>1
  <2>7. \A t \in TargetsAt(arg[q], q) : Ok(x, t) => Ok(x, t)'
    BY <2>5, OkStays
  <2>8. \A t \in TargetsAt(arg[q], q) : Ok(arg[q], t) => Ok(arg[q], t)'
    BY <1>1, <2>6, <2>7 DEF Ok
  <2> QED BY <2>1, <2>4, <2>5, <2>8
<1>2. CASE pc'[q] = pc[q] /\ arg'[q] = arg[q] /\ job'[q] = job[q]
  BY <1>1, <1>2 DEF DoneInv
<1>3. CASE (WorkerStep(q) \/ EngineStep(q)) /\ pc[q] \in Working
  <2>1. arg' = arg /\ Works(q)
    BY <1>3, WorkStep
  <2>2. /\ arg[q] \in Runs /\ TargetsAt(arg[q], q)' = TargetsAt(arg[q], q)
        /\ \A t \in TargetsAt(arg[q], q) : t \in Targets /\ QueueOf[t] = q
        /\ \A t \in TargetsAt(arg[q], q) : Ok(arg[q], t) => Ok(arg[q], t)'
    BY <1>1, <1>3, <2>1
  <2>3. /\ ~job[q].failed /\ ~job[q].canceled => \A t \in TargetsAt(arg[q], q) :
              t \in job[q].left \/ (pc[q] = "test" /\ t = job[q].cur) \/ Ok(arg[q], t)
        /\ ~job[q].canceled /\ (job[q].panicked => job[q].failed)
        /\ pc[q] = "recover" => job[q].failed
    BY <1>3 DEF DoneInv
  <2>4. CASE Passes(q)
    BY <2>2, <2>3, <2>4 DEF Passes, SameFlags
  <2>5. CASE Leaves(q)
    <3>1. ~job'[q].canceled => job[q].left = {}
      BY <2>5 DEF Leaves
    <3> QED BY <2>2, <2>3, <2>5, <3>1 DEF Leaves, Working
  <2>6. CASE Picks(q)
    BY <2>2, <2>3, <2>6 DEF Picks, SameFlags
  <2>7. CASE Tests(q)
    <3>1. /\ pc[q] = "test" /\ pc'[q] = "mark" /\ ~job'[q].canceled
          /\ job'[q].left = job[q].left /\ job'[q].panicked = job[q].panicked
          /\ job[q].failed => job'[q].failed
          /\ ~job'[q].failed => InsertResult(q, "ok")
      BY <2>3, <2>7 DEF Tests
    <3>2. ASSUME ~job'[q].failed, NEW t \in TargetsAt(arg[q], q)
          PROVE  t \in job[q].left \/ Ok(arg[q], t)'
      <4>1. t \in Targets /\ InsertResult(q, "ok") /\ ~job[q].failed
        BY <2>2, <3>1, <3>2
      <4>2. results'[arg[q]][job[q].cur] = <<"ok">>
        BY <2>2, <3>1, <4>1, InsertExact
      <4>3. t = job[q].cur => Ok(arg[q], t)'
        BY <2>1, <4>2 DEF Ok
      <4> QED BY <2>2, <2>3, <3>2, <4>1, <4>3
    <3> QED BY <2>2, <2>3, <3>1, <3>2
  <2>8. CASE PanicsIn(q)
    BY <2>3, <2>8 DEF PanicsIn
  <2>9. CASE Recovers(q)
    BY <2>3, <2>9 DEF Recovers
  <2>10. CASE Counts(q)
    <3>1. pc[q] = "mark" /\ pc'[q] # "recover" /\ (pc'[q] = "finish" => job[q].panicked)
      BY <2>10 DEF Counts
    <3>2. job'[q].left = job[q].left /\ SameFlags(job[q], job'[q])
      BY <2>10 DEF Counts
    <3> QED BY <2>2, <2>3, <3>1, <3>2 DEF SameFlags
  <2> QED BY <2>1, <2>4, <2>5, <2>6, <2>7, <2>8, <2>9, <2>10 DEF Works
<1>4. CASE (WorkerStep(q) \/ EngineStep(q)) /\ pc[q] \notin Working
  <2>1. CASE /\ pc[q] = "start" /\ pc'[q] = "running" /\ arg'[q] = arg[q]
             /\ job'[q] = [NoJob EXCEPT !.left = TargetsAt(arg[q], q)]
             /\ plan' = plan
    <3>1. /\ job'[q].left = TargetsAt(arg[q], q) /\ ~job'[q].canceled
          /\ ~job'[q].panicked
      BY <2>1 DEF NoJob
    <3>2. TargetsAt(arg[q], q)' = TargetsAt(arg[q], q)
      BY <2>1 DEF TargetsAt
    <3> QED BY <2>1, <3>1, <3>2
  <2>2. CASE pc'[q] = "finish" /\ job'[q] = [NoJob EXCEPT !.canceled = TRUE]
    BY <2>2 DEF NoJob, Working
  <2> QED BY <1>4, <2>1, <2>2, OffStep DEF Working
<1>5. ~(pc[q] \in Final /\ pc'[q] \in {"settle", "resign", "idle", "force"})
  BY DEF Working
<1> QED BY <1>0, <1>2, <1>3, <1>4, <1>5, QueueStep

(* What DoneInv says of an owner about to write "done". *)
LEMMA DoneWrite ==
  ASSUME TypeOK, ClaimInv, JobInv, LiveInv, ResInv, DoneInv, Next, NEW p \in Procs,
         pc'[p] = "write", goal'[p] = "done"
  PROVE  /\ arg'[p] = arg[p] /\ arg[p] \in Runs /\ plan'[arg[p]] = plan[arg[p]]
         /\ \A q \in Queues, x \in Runs : x = arg[p] => ~Holds(q, x)'
         /\ \A t \in plan[arg[p]], x \in Runs : x = arg[p] => Ok(x, t)'
<1>0. TypeOK'
  BY NextTypeOK
<1>1. CASE pc[p] = "write" /\ arg'[p] = arg[p] /\ goal'[p] = goal[p]
  <2>1. PICK x \in Runs : x = arg[p]
    BY <1>1, OwnedApart
  <2>2. ~Sending(x)
    BY <1>1, <2>1, OwnedApart DEF Sending
  <2>3. \A q \in Queues : ~Holds(q, x)
    BY <1>1, <2>1 DEF DoneInv
  <2>4. \A q \in Queues : ~Holds(q, x)'
    BY <2>2, <2>3, HoldsStep
  <2>5. plan'[x] = plan[x] /\ plan[x] \subseteq Targets
    BY <1>1, <2>1, PlanStep DEF LiveInv, TypeOK
  <2>6. \A t \in plan[x] : Ok(x, t)'
    BY <1>1, <2>1, <2>5, OkStays DEF DoneInv
  <2> QED BY <1>1, <2>1, <2>4, <2>5, <2>6
<1>2. CASE p \in Queues /\ finishRun(p) /\ arg'[p] = arg[p] /\ arg[p] \in tracked
  <2>1. PICK x \in Runs : x = arg[p] /\ x \in tracked
    BY <1>2 DEF TypeOK
  <2>2. /\ pc[p] = "finish" /\ results' = results /\ plan' = plan /\ chan' = chan
        /\ st'[x] = Outcome(x, p)
    BY <1>2, <2>1, FinishRecords
  <2>3. /\ LastJob(x) /\ goal'[p] = FinalStatus(Outcome(x, p).failed, Outcome(x, p).canceled)
    BY <1>2, <2>1 DEF finishRun, TypeOK
  <2>4. ~Outcome(x, p).failed /\ ~Outcome(x, p).canceled
    BY <2>3 DEF FinalStatus
  <2>5. ~st[x].failed /\ ~st[x].canceled /\ ~job[p].failed /\ ~job[p].canceled
    <3>1. /\ Outcome(x, p).failed = (st[x].failed \/ job[p].failed)
          /\ Outcome(x, p).canceled = (st[x].canceled \/ job[p].canceled)
      BY <1>2, OutcomeFlags
    <3> QED BY <2>4, <3>1
  <2>6. Holds(p, x)
    BY <2>1, <2>2 DEF Holds
  <2>7. \A o \in Queues : Holds(o, x) => o = p
    BY <1>2, <2>1, <2>3, <2>6, LastMeansLast
  <2>8. ~Sending(x)
    BY <2>1, OwnedApart DEF Sending
  <2>9. ~Holds(p, x)'
    <3>1. InHand(p) = x /\ InHand(p)' = None /\ x # None
      BY <2>1, <2>2, ProcAssumption DEF InHand, Final
    <3>2. ~Occurs(chan[p], x)
      BY <1>2, <3>1 DEF JobInv, JobsOnce
    <3> QED BY <1>2, <2>2, <3>1, <3>2, HoldsMeans
  <2>10. \A q \in Queues : ~Holds(q, x)'
    BY <2>7, <2>8, <2>9, HoldsStep
  <2>11. ASSUME NEW t \in plan[x] PROVE Ok(x, t)
    <3>1. PICK q \in Queues : q = QueueOf[t]
      BY TargetAssumption DEF TypeOK
    <3>2. CASE q = p
      <4>1. t \in TargetsAt(arg[p], p)
        BY <2>1, <2>11, <3>1, <3>2 DEF TargetsAt
      <4>2. t \in job[p].left \/ Ok(arg[p], t)
        BY <1>2, <2>2, <2>5, <4>1 DEF DoneInv
      <4>3. job[p].left = {}
        BY <1>2, <2>2, <2>5 DEF DoneInv
      <4> QED BY <2>1, <4>2, <4>3
    <3>3. CASE q # p
      <4>1. ~Holds(QueueOf[t], x)
        BY <2>7, <3>1, <3>3
      <4> QED BY <2>1, <2>5, <2>11, <4>1 DEF DoneInv
    <3> QED BY <3>2, <3>3
  <2>12. \A t \in plan[x] : Ok(x, t)'
    BY <2>2, <2>11 DEF Ok
  <2> QED BY <1>2, <2>1, <2>2, <2>10, <2>12
<1>3. CASE p \in Clients /\ (EnqueueRefused(p) \/ EnqueueFull(p))
  <2>1. goal' = [goal EXCEPT ![p] = "canceled"] \/ goal' = [goal EXCEPT ![p] = "failed"]
    BY <1>3 DEF EnqueueRefused, EnqueueFull
  <2> QED BY <2>1 DEF TypeOK
<1> QED BY <1>1, <1>2, <1>3, WriteComes

(* What DoneInv says of a row that says "done". *)
LEMMA DoneRow ==
  ASSUME TypeOK, ClaimInv, JobInv, DownInv, LiveInv, ResInv, DoneInv, Next,
         NEW r \in Runs, dbStatus'[r] = "done"
  PROVE  /\ \A q \in Queues : ~Holds(q, r)'
         /\ \A t \in plan'[r] : Ok(r, t)'
<1>1. /\ \A q \in Queues : ~Holds(q, r)
      /\ \A t \in plan[r] : Ok(r, t)
      /\ dbStatus[r] # "none"
  <2>1. CASE dbStatus'[r] = dbStatus[r]
    BY <2>1 DEF DoneInv, DoneMeansComplete, Ok
  <2>2. ASSUME NEW p \in Procs, Ended(p), arg[p] = r, dbStatus'[r] = goal[p]
        PROVE  /\ \A q \in Queues : ~Holds(q, r)
               /\ \A t \in plan[r] : Ok(r, t)
               /\ dbStatus[r] # "none"
    BY <2>2 DEF Ended, DoneInv
  <2> QED BY <2>1, <2>2, RowStep DEF Reaped
<1>2. ~Sending(r)
  <2>1. ASSUME NEW c \in Clients, pc[c] = "insert", arg[c] = r PROVE FALSE
    <3>1. dbStatus'[r] = "queued"
      BY <2>1, RowsHeld
    <3> QED BY <3>1
  <2> QED BY <2>1 DEF Sending
<1>3. \A q \in Queues : ~Holds(q, r)'
  BY <1>1, <1>2, HoldsStep
<1>4. plan'[r] = plan[r] /\ plan[r] \subseteq Targets
  BY <1>1, PlanStep DEF TypeOK
<1> QED BY <1>1, <1>3, <1>4, OkStays

(* A run whose outcome says completed has every row, kept by every step. *)
LEMMA DoneInductive ==
  /\ Init => DoneInv
  /\ TypeOK /\ ClaimInv /\ JobInv /\ DownInv /\ LiveInv /\ ResInv /\ DoneInv
       /\ [Next]_vars => DoneInv'
<1>1. Init => DoneInv
  <2>1. ASSUME Init PROVE \A p \in Procs : pc[p] = "idle"
    BY <2>1 DEF Init
  <2>2. Init => tracked = {} /\ \A r \in Runs : dbStatus[r] = "none"
    BY DEF Init
  <2> QED BY <2>1, <2>2 DEF DoneInv, DoneMeansComplete, Working
<1>2. ASSUME TypeOK, ClaimInv, JobInv, DownInv, LiveInv, ResInv, DoneInv, Next
      PROVE  DoneInv'
  <2>1. \A r \in tracked' : ~st'[r].failed /\ ~st'[r].canceled =>
           \A t \in plan'[r] : ~Holds(QueueOf[t], r)' => Ok(r, t)'
    BY <1>2, DoneTracked
  <2>2. ASSUME NEW q \in Queues,
               pc'[q] \in Working \cup {"finish"}, ~job'[q].failed, ~job'[q].canceled
        PROVE  /\ \A t \in TargetsAt(arg[q], q)' :
                    t \in job'[q].left \/ (pc'[q] = "test" /\ t = job'[q].cur) \/ Ok(arg[q], t)'
               /\ pc'[q] = "finish" => job'[q].left = {}
    BY <1>2, <2>2, DoneWorker
  <2>3. ASSUME NEW q \in Queues, pc'[q] \in Working
        PROVE  /\ ~job'[q].canceled /\ (job'[q].panicked => job'[q].failed)
               /\ pc'[q] = "recover" => job'[q].failed
    BY <1>2, <2>3, DoneWorker
  <2>4. ASSUME NEW p \in Procs, pc'[p] = "write", goal'[p] = "done"
        PROVE  /\ \A q \in Queues : ~Holds(q, arg[p])'
               /\ \A t \in plan'[arg'[p]] : Ok(arg[p], t)'
    <3>1. /\ arg'[p] = arg[p] /\ arg[p] \in Runs /\ plan'[arg[p]] = plan[arg[p]]
          /\ \A q \in Queues, x \in Runs : x = arg[p] => ~Holds(q, x)'
          /\ \A t \in plan[arg[p]], x \in Runs : x = arg[p] => Ok(x, t)'
      BY <1>2, <2>4, DoneWrite
    <3>2. PICK x \in Runs : x = arg[p] /\ x = arg'[p]
      BY <3>1
    <3>3. ASSUME NEW q \in Queues PROVE ~Holds(q, arg[p])'
      <4>1. ~Holds(q, x)'
        BY <3>1, <3>2
      <4> QED BY <3>2, <4>1 DEF Holds
    <3>4. ASSUME NEW t \in plan'[arg'[p]] PROVE Ok(arg[p], t)'
      <4>1. Ok(x, t)'
        BY <3>1, <3>2
      <4> QED BY <3>2, <4>1 DEF Ok
    <3> QED BY <3>3, <3>4
  <2>5. \A r \in Runs : dbStatus'[r] = "done" => \A q \in Queues : ~Holds(q, r)'
    BY <1>2, DoneRow
  <2>6. DoneMeansComplete'
    BY <1>2, DoneRow DEF DoneMeansComplete, Ok
  <2> QED BY <2>1, <2>2, <2>3, <2>4, <2>5, <2>6 DEF DoneInv
<1>3. ASSUME DoneInv, UNCHANGED vars PROVE DoneInv'
  <2>1. UNCHANGED <<dbStatus, results, tracked, st, chan, plan, pc, arg, goal, job>>
    BY <1>3 DEF vars, dbVars, muVars, calls
  <2>2. \A q, r : Holds(q, r)' <=> Holds(q, r)
    BY <2>1 DEF Holds
  <2>3. \A r, t : Ok(r, t)' <=> Ok(r, t)
    BY <2>1 DEF Ok
  <2>4. \A r, q : TargetsAt(r, q)' = TargetsAt(r, q)
    BY <2>1 DEF TargetsAt
  <2>5. /\ \A q \in Queues, p \in Procs : Holds(q, arg[p])' <=> Holds(q, arg[p])
        /\ \A t, p : Ok(arg[p], t)' <=> Ok(arg[p], t)
        /\ \A q : TargetsAt(arg[q], q)' = TargetsAt(arg[q], q)
    BY <2>1 DEF Holds, Ok, TargetsAt
  <2>6. DoneMeansComplete'
    BY <1>3, <2>1 DEF DoneInv, DoneMeansComplete
  <2> QED BY <1>3, <2>1, <2>2, <2>3, <2>4, <2>5, <2>6 DEF DoneInv
<1> QED BY <1>1, <1>2, <1>3

(***************************************************************************)
(* The theorems.                                                           *)
(***************************************************************************)

OutcomeInv == DownInv /\ LiveInv /\ StartInv /\ CancelInv /\ ResInv /\ DoneInv

(* All of it together is inductive. *)
LEMMA OutcomesAlways == Spec => [](TypeOK /\ ClaimInv /\ JobInv /\ OutcomeInv)
<1>1. Init => TypeOK /\ ClaimInv /\ JobInv /\ OutcomeInv
  BY InitTypeOK, ClaimInductive, JobInductive, DownInductive, LiveInductive,
     StartInductive, CancelInductive, ResInductive, DoneInductive DEF OutcomeInv
<1>2. TypeOK /\ ClaimInv /\ JobInv /\ OutcomeInv /\ [Next]_vars =>
        (TypeOK /\ ClaimInv /\ JobInv /\ OutcomeInv)'
  BY NextTypeOK, ClaimInductive, JobInductive, DownInductive, LiveInductive,
     StartInductive, CancelInductive, ResInductive, DoneInductive DEF OutcomeInv
<1> QED BY <1>1, <1>2, PTL DEF Spec

(* A run ends as what happened to it says, whatever the number of queues,  *)
(* clients and targets: "done" only over a complete set of good rows, a    *)
(* run that no queue started untouched, a cancelled one never anything but *)
(* "canceled".                                                             *)
THEOREM OutcomesHold == Spec => []OutcomeHolds
<1>1. OutcomeInv => OutcomeHolds
  BY DEF OutcomeInv, StartInv, CancelInv, DoneInv, OutcomeHolds
<1> QED BY <1>1, OutcomesAlways, PTL

(* No target of a run ever gets two result rows, with engines and sinks    *)
(* panicking and inserts failing, and "done" means one good row for each.  *)
THEOREM RowsAreGood == Spec => []OneGoodRow
<1>1. OutcomeInv => OneGoodRow
  BY DEF OutcomeInv, ResInv, DoneInv, OneGoodRow
<1> QED BY <1>1, OutcomesAlways, PTL

(* The targets of a run are stored with its row and never change. *)
LEMMA PlanForm ==
  ASSUME TypeOK, Next
  PROVE  \/ plan' = plan
         \/ \E c \in Clients, r \in Runs :
              /\ Created(c, r) /\ results' = results
              /\ plan' = [plan EXCEPT ![r] = filterRunnable(req[c].targets, req[c].trigger)]
<1> USE DEF dbVars, muVars, calls, bounds
<1>1. ASSUME NEW c \in Clients, CallStep(c) \/ ClientStep(c)
      PROVE  \/ plan' = plan
             \/ \E r \in Runs :
                  /\ Created(c, r) /\ results' = results
                  /\ plan' = [plan EXCEPT ![r] = filterRunnable(req[c].targets, req[c].trigger)]
  <2>1. CASE EnqueueCreate(c)
    BY <2>1 DEF EnqueueCreate, Created, Goto
  <2>2. CASE ~EnqueueCreate(c)
    BY <1>1, <2>2 DEF CallStep, ClientStep, EnqueueLock, CancelStarted,
       CancelQueued, CancelUntracked, EnqueueCreateFails, EnqueueSend,
       beginFinalize, EnqueueRefused, EnqueueFull, cancelOrphan, OrphanGetRun,
       OrphanWrite, OrphanEnd
  <2> QED BY <2>1, <2>2
<1>2. ASSUME NEW x \in Queues, WorkerStep(x) \/ EngineStep(x) PROVE plan' = plan
  BY <1>2 DEF WorkerStep, EngineStep, Receive, executeGone,
       executeCanceled, execute, SetRunning, doneCount, PublishRunning,
       NextTarget, Recover, markTargetDone, finishGone, finishQueue, finishRun,
       runTarget, runTargetPanics
<1>3. ASSUME NEW p \in Procs, FinalWrite(p) \/ endFinalize(p) PROVE plan' = plan
  BY <1>3 DEF FinalWrite, endFinalize
<1>4. ASSUME ShutdownBegin \/ MainStep \/ Crash \/ ReapOrphanedRuns PROVE plan' = plan
  BY <1>4 DEF ShutdownBegin, MainStep, ShutdownDrained, ShutdownGrace,
     ShutdownAwait, ShutdownReturn, claimForForceCancel, forceCancelGone,
     ReapOrphanedRuns, Crash
<1> QED BY <1>1, <1>2, <1>3, <1>4 DEF Next

(* Every step of the runner is a step of the promise, or none. *)
LEMMA StepRefines ==
  ASSUME TypeOK, JobInv, DownInv, ResInv, DoneInv, Next
  PROVE  Lifecycle!Next \/ UNCHANGED Lifecycle!vars
<1>0. /\ dbStatus \in [Runs -> Active \cup Terminal \cup {"none"}]
      /\ plan \in [Runs -> SUBSET Targets]
      /\ results \in [Runs -> [Targets -> Seq({"ok", "failed"})]]
      /\ \A p \in Procs : goal[p] \in Terminal
      /\ \A p \in Procs : pc[p] \notin Vacant => arg[p] \in Runs
  BY DEF TypeOK, PcOK
<1>1. ASSUME NEW c \in Clients, NEW r \in Runs, Created(c, r), results' = results,
             plan' = [plan EXCEPT ![r] = filterRunnable(req[c].targets, req[c].trigger)]
      PROVE  Lifecycle!Next
  <2> DEFINE T == filterRunnable(req[c].targets, req[c].trigger)
  <2>1. T # {} /\ req[c] \in Requests
    BY <1>1 DEF Created, JobInv, TypeOK
  <2>2. T \in SUBSET Targets
    BY <2>1, RequestAssumption, TargetAssumption DEF filterRunnable
  <2>3. dbStatus[r] = "none" /\ dbStatus' = [dbStatus EXCEPT ![r] = "queued"]
    BY <1>1 DEF Created
  <2> HIDE DEF T
  <2>4. Lifecycle!Create(r, T)
    BY <1>1, <2>1, <2>3 DEF Lifecycle!Create, T
  <2> QED BY <2>2, <2>4 DEF Lifecycle!Next
<1>2. ASSUME NEW q \in Queues, NEW s \in {"ok", "failed"},
             pc[q] \in {"test", "recover"}, InsertResult(q, s),
             dbStatus' = dbStatus, plan' = plan
      PROVE  Lifecycle!Next
  <2>1. /\ arg[q] \in Runs /\ job[q].cur \in Targets
        /\ \A r \in Runs, t \in Targets :
              results'[r][t] = IF r = arg[q] /\ t = job[q].cur
                               THEN <<s>> ELSE results[r][t]
    BY <1>2, InsertExact
  <2>2. PICK r0 \in Runs, t0 \in Targets : r0 = arg[q] /\ t0 = job[q].cur
    BY <2>1
  <2>3. t0 \in plan[r0] /\ results[r0][t0] = <<>>
    BY <1>2, <2>2 DEF ResInv, TargetsAt
  <2>4. results' = [results EXCEPT ![r0][t0] = Append(results[r0][t0], s)]
    BY <1>2, <2>2 DEF InsertResult
  <2>5. Append(results[r0][t0], s) = <<s>>
    BY <2>3, AppendOne
  <2>6. results' = [results EXCEPT ![r0][t0] = <<s>>]
    BY <2>4, <2>5
  <2>7. Lifecycle!Record(r0, t0, s)
    BY <1>2, <2>3, <2>6 DEF Lifecycle!Record
  <2> QED BY <2>7 DEF Lifecycle!Next
<1>3. ASSUME NEW q \in Queues, Began(q), results' = results, plan' = plan
      PROVE  Lifecycle!Next
  <2>1. arg[q] \in Runs
    BY <1>0, <1>3 DEF Began, Vacant
  <2>2. Lifecycle!Start(arg[q])
    BY <1>3 DEF Began, Lifecycle!Start, Lifecycle!Unfinished
  <2> QED BY <2>1, <2>2 DEF Lifecycle!Next
<1>4. ASSUME NEW x \in Runs, NEW s \in Terminal, dbStatus[x] \in Active,
             dbStatus' = [dbStatus EXCEPT ![x] = s], results' = results, plan' = plan,
             s = "done" => \A t \in plan[x] : Ok(x, t)
      PROVE  Lifecycle!Next
  <2>1. dbStatus' = [r \in Runs |-> IF r \in {x} THEN s ELSE dbStatus[r]]
    BY <1>0, <1>4
  <2>2. s = "done" => Lifecycle!Complete(x)
    BY <1>4 DEF Lifecycle!Complete, Ok
  <2>3. Lifecycle!Finish({x}, s)
    BY <1>4, <2>1, <2>2 DEF Lifecycle!Finish, Lifecycle!Unfinished
  <2> QED BY <2>3 DEF Lifecycle!Next, Lifecycle!Finished
<1>5. ASSUME NEW p \in Procs, Ended(p), results' = results, plan' = plan
      PROVE  Lifecycle!Next
  <2>1. /\ pc[p] = "write" /\ dbStatus[arg[p]] \in Active /\ arg[p] \in Runs
        /\ dbStatus' = [dbStatus EXCEPT ![arg[p]] = goal[p]] /\ goal[p] \in Terminal
    BY <1>0, <1>5 DEF Ended, Vacant
  <2>2. goal[p] = "done" => \A t \in plan[arg[p]] : Ok(arg[p], t)
    BY <2>1 DEF DoneInv
  <2> QED BY <1>4, <1>5, <2>1, <2>2
<1>6. ASSUME NEW c \in Clients, OrphanEnded(c), results' = results, plan' = plan
      PROVE  Lifecycle!Next
  <2>1. /\ dbStatus[arg[c]] \in Active /\ arg[c] \in Runs
        /\ dbStatus' = [dbStatus EXCEPT ![arg[c]] = "canceled"]
    BY <1>0, <1>6 DEF OrphanEnded, Vacant
  <2> QED BY <1>4, <1>6, <2>1
<1>7. ASSUME ReapOrphanedRuns, results' = results, plan' = plan PROVE Lifecycle!Next
  <2> DEFINE S == {r \in Runs : dbStatus[r] \in Active}
  <2>1. dbStatus' = [r \in Runs |-> IF r \in S THEN "failed" ELSE dbStatus[r]]
    BY <1>7 DEF ReapOrphanedRuns, Reaped
  <2>2. Lifecycle!Finish(S, "failed")
    BY <1>7, <2>1 DEF Lifecycle!Finish, Lifecycle!Unfinished
  <2>3. S \in SUBSET Runs
    OBVIOUS
  <2> HIDE DEF S
  <2> QED BY <2>2, <2>3 DEF Lifecycle!Next, Lifecycle!Finished
<1>8. ASSUME NEW c \in Clients, NEW r \in Runs, Created(c, r) PROVE Lifecycle!Next
  <2>1. PICK x \in Runs :
           /\ dbStatus[x] = "none" /\ dbStatus' = [dbStatus EXCEPT ![x] = "queued"]
           /\ plan' = [plan EXCEPT ![x] = filterRunnable(req[c].targets, req[c].trigger)]
    BY <1>8 DEF Created, EnqueueCreate
  <2>2. dbStatus' = [dbStatus EXCEPT ![r] = "queued"] /\ results' = results
    BY <1>8 DEF Created, EnqueueCreate
  <2>3. x = r
    BY <1>0, <2>1, <2>2
  <2> QED BY <1>1, <1>8, <2>1, <2>2, <2>3
<1>9. CASE results' = results /\ \A c \in Clients, r \in Runs : ~Created(c, r)
  <2>1. plan' = plan
    BY <1>9, PlanForm
  <2> QED BY <1>3, <1>5, <1>6, <1>7, <1>9, <2>1, StatusStep DEF Lifecycle!vars
<1> QED BY <1>2, <1>8, <1>9, ResultStep

(* The runs and results tables keep the promise of RunLifecycle to their   *)
(* readers for every number of goroutines, queues and targets, through     *)
(* crashes, failing writes, panics and Shutdown: rows only move forward, a *)
(* terminal status is final, a result is recorded once and only for a      *)
(* target the run wants, and "done" is written only over a complete run.   *)
THEOREM Refinement == Spec => RefinesLifecycle
<1>1. Init => Lifecycle!Init
  BY DEF Init, Lifecycle!Init
<1>2. TypeOK /\ JobInv /\ OutcomeInv /\ [Next]_vars => [Lifecycle!Next]_(Lifecycle!vars)
  <2>1. UNCHANGED vars => UNCHANGED Lifecycle!vars
    BY DEF vars, dbVars, calls, Lifecycle!vars
  <2> QED BY <2>1, StepRefines DEF OutcomeInv
<1> QED BY <1>1, <1>2, OutcomesAlways, PTL DEF Spec, RefinesLifecycle, Lifecycle!Spec
=============================================================================
