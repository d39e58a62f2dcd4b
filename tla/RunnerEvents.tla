---------------------------- MODULE RunnerEvents ----------------------------
(* Proofs about the run events of Runner: they come in order, and the last  *)
(* one a client sees agrees with the runs table.                            *)
EXTENDS RunnerOutcomes

USE DEF Procs, Active, Terminal

(***************************************************************************)
(* What a step can do.                                                     *)
(***************************************************************************)

(* Who publishes: Enqueue under r.mu, a worker, the owner of a run after   *)
(* its terminal write, and cancelOrphan.                                   *)
LEMMA EventStep ==
  ASSUME TypeOK, Next, NEW r \in Runs
  PROVE  \/ event'[r] = event[r]
         \/ Sending(r) /\ event'[r] = [status |-> "queued", done |-> 0]
         \/ \E q \in Queues : /\ pc[q] = "publish" /\ arg[q] = r /\ PublishRunning(q)
                              /\ event'[r] = [status |-> "running", done |-> job[q].done]
         \/ \E p \in Procs : /\ pc[p] = "settle" /\ arg[p] = r /\ endFinalize(p)
                             /\ event'[r] = [status |-> goal[p], done |-> st[r].done]
         \/ \E c \in Clients : /\ pc[c] = "orphanEnd" /\ arg[c] = r /\ OrphanEnd(c)
                               /\ event'[r] = [status |-> "canceled", done |-> 0]
         \/ Crash /\ event'[r] = NoEvent
<1> USE DEF dbVars, muVars, calls, bounds
<1>0. event \in [Runs -> Event]
  BY DEF TypeOK
<1>1. ASSUME NEW x, NEW s, NEW n, publishRun(x, s, n), event'[r] # event[r]
      PROVE  x = r /\ event'[r] = [status |-> s, done |-> n]
  BY <1>0, <1>1 DEF publishRun
<1>2. ASSUME NEW c \in Clients, CallStep(c) \/ ClientStep(c)
      PROVE  \/ event'[r] = event[r]
             \/ Sending(r) /\ event'[r] = [status |-> "queued", done |-> 0]
             \/ /\ pc[c] = "orphanEnd" /\ arg[c] = r /\ OrphanEnd(c)
                /\ event'[r] = [status |-> "canceled", done |-> 0]
  <2>1. CASE EnqueueSend(c) \/ EnqueueFull(c)
    <3>1. pc[c] = "insert" /\ publishRun(arg[c], "queued", 0)
      BY <2>1 DEF EnqueueSend, EnqueueFull
    <3> QED BY <1>1, <2>1, <3>1 DEF Sending
  <2>2. CASE OrphanEnd(c)
    <3>1. event' = event \/ (pc[c] = "orphanEnd" /\ publishRun(arg[c], "canceled", 0))
      BY <2>2 DEF OrphanEnd
    <3> QED BY <1>1, <2>2, <3>1
  <2>3. CASE ~EnqueueSend(c) /\ ~EnqueueFull(c) /\ ~OrphanEnd(c)
    BY <1>2, <2>3 DEF CallStep, ClientStep, EnqueueLock, CancelStarted,
       CancelQueued, CancelUntracked, EnqueueCreate, EnqueueCreateFails,
       beginFinalize, EnqueueRefused, cancelOrphan, OrphanGetRun, OrphanWrite
  <2> QED BY <2>1, <2>2, <2>3
<1>3. ASSUME NEW q \in Queues, WorkerStep(q) \/ EngineStep(q)
      PROVE  \/ event'[r] = event[r]
             \/ /\ pc[q] = "publish" /\ arg[q] = r /\ PublishRunning(q)
                /\ event'[r] = [status |-> "running", done |-> job[q].done]
  <2>1. CASE PublishRunning(q)
    <3>1. pc[q] = "publish" /\ publishRun(arg[q], "running", job[q].done)
      BY <2>1 DEF PublishRunning
    <3> QED BY <1>1, <2>1, <3>1
  <2>2. CASE ~PublishRunning(q)
    BY <1>3, <2>2 DEF WorkerStep, EngineStep, Receive, executeGone,
       executeCanceled, execute, SetRunning, doneCount, NextTarget, Recover,
       markTargetDone, finishGone, finishQueue, finishRun, runTarget,
       runTargetPanics
  <2> QED BY <2>1, <2>2
<1>4. ASSUME NEW p \in Procs, FinalWrite(p) \/ endFinalize(p)
      PROVE  \/ event'[r] = event[r]
             \/ /\ pc[p] = "settle" /\ arg[p] = r /\ endFinalize(p)
                /\ event'[r] = [status |-> goal[p], done |-> st[r].done]
  <2>1. CASE endFinalize(p)
    <3>1. event' = event \/ (pc[p] = "settle" /\ publishRun(arg[p], goal[p], st[arg[p]].done))
      BY <2>1 DEF endFinalize
    <3> QED BY <1>1, <2>1, <3>1
  <2>2. CASE FinalWrite(p)
    BY <2>2 DEF FinalWrite
  <2> QED BY <1>4, <2>1, <2>2
<1>5. ASSUME ShutdownBegin \/ MainStep \/ ReapOrphanedRuns PROVE event' = event
  BY <1>5 DEF ShutdownBegin, MainStep, ShutdownDrained, ShutdownGrace,
     ShutdownAwait, ShutdownReturn, claimForForceCancel, forceCancelGone,
     ReapOrphanedRuns
<1>6. CASE Crash
  BY <1>6 DEF Crash
<1> QED BY <1>2, <1>3, <1>4, <1>5, <1>6 DEF Next

(* How a run leaves r.runs, and how it leaves the runner's sight. *)
LEMMA LeaveStep ==
  ASSUME TypeOK, Next, NEW r \in Runs
  PROVE  /\ r \in tracked /\ r \notin tracked' =>
              \/ Crash \/ claimForForceCancel(r)
              \/ \E c \in Clients : CancelQueued(c, r)
              \/ \E q \in Queues : finishRun(q) /\ arg[q] = r
         /\ r \in tracked \cup finalizing /\ r \notin tracked' \cup finalizing' =>
              \/ Crash \/ \E p \in Procs : endFinalize(p) /\ arg[p] = r
<1> USE DEF dbVars, muVars, calls, bounds, claim
<1>1. ASSUME NEW c \in Clients, CallStep(c) \/ ClientStep(c)
      PROVE  /\ r \in tracked /\ r \notin tracked' => CancelQueued(c, r)
             /\ r \in tracked \cup finalizing => r \in tracked' \cup finalizing'
  <2>1. ASSUME NEW x \in Runs, CancelQueued(c, x)
        PROVE  /\ r \in tracked /\ r \notin tracked' => CancelQueued(c, r)
               /\ r \in tracked \cup finalizing => r \in tracked' \cup finalizing'
    <3>1. tracked' = tracked \ {x} /\ finalizing' = finalizing \cup {x}
      BY <2>1 DEF CancelQueued
    <3> QED BY <2>1, <3>1
  <2>2. CASE EnqueueSend(c)
    <3>1. tracked' = tracked \cup {arg[c]} /\ finalizing' = finalizing \ {arg[c]}
      BY <2>2 DEF EnqueueSend
    <3> QED BY <3>1
  <2>3. CASE ~EnqueueSend(c) /\ ~ \E x \in Runs : CancelQueued(c, x)
    <3>1. tracked' = tracked /\ finalizing \subseteq finalizing'
      BY <1>1, <2>3 DEF CallStep, ClientStep, EnqueueLock, CancelStarted,
       CancelUntracked, EnqueueCreate, EnqueueCreateFails, EnqueueFull,
       beginFinalize, EnqueueRefused, cancelOrphan, OrphanGetRun, OrphanWrite, OrphanEnd
    <3> QED BY <3>1
  <2> QED BY <2>1, <2>2, <2>3
<1>2. ASSUME NEW q \in Queues, WorkerStep(q) \/ EngineStep(q)
      PROVE  /\ r \in tracked /\ r \notin tracked' => finishRun(q) /\ arg[q] = r
             /\ r \in tracked \cup finalizing => r \in tracked' \cup finalizing'
  <2>1. CASE finishRun(q)
    <3>1. tracked' = tracked \ {arg[q]} /\ finalizing' = finalizing \cup {arg[q]}
      BY <2>1 DEF finishRun
    <3> QED BY <2>1, <3>1
  <2>2. CASE ~finishRun(q)
    <3>1. tracked' = tracked /\ finalizing' = finalizing
      BY <1>2, <2>2 DEF WorkerStep, EngineStep, Receive, executeGone,
       executeCanceled, execute, SetRunning, doneCount, PublishRunning, NextTarget,
       Recover, markTargetDone, finishGone, finishQueue, runTarget, runTargetPanics
    <3> QED BY <3>1
  <2> QED BY <2>1, <2>2
<1>3. ASSUME NEW p \in Procs, FinalWrite(p) \/ endFinalize(p)
      PROVE  /\ r \in tracked => r \in tracked'
             /\ r \in tracked \cup finalizing /\ r \notin tracked' \cup finalizing' =>
                  endFinalize(p) /\ arg[p] = r
  <2>1. CASE endFinalize(p)
    <3>1. tracked' = tracked /\ finalizing' = finalizing \ {arg[p]}
      BY <2>1 DEF endFinalize
    <3> QED BY <2>1, <3>1
  <2>2. CASE FinalWrite(p)
    BY <2>2 DEF FinalWrite
  <2> QED BY <1>3, <2>1, <2>2
<1>4. ASSUME ShutdownBegin \/ MainStep \/ ReapOrphanedRuns
      PROVE  /\ r \in tracked /\ r \notin tracked' => claimForForceCancel(r)
             /\ r \in tracked \cup finalizing => r \in tracked' \cup finalizing'
  <2>1. ASSUME NEW x \in Runs, claimForForceCancel(x)
        PROVE  /\ r \in tracked /\ r \notin tracked' => claimForForceCancel(r)
               /\ r \in tracked \cup finalizing => r \in tracked' \cup finalizing'
    <3>1. tracked' = tracked \ {x} /\ finalizing' = finalizing \cup {x}
      BY <2>1 DEF claimForForceCancel
    <3> QED BY <2>1, <3>1
  <2>2. CASE ~ \E x \in Runs : claimForForceCancel(x)
    <3>1. tracked' = tracked /\ finalizing' = finalizing
      BY <1>4, <2>2 DEF ShutdownBegin, MainStep, ShutdownDrained, ShutdownGrace,
         ShutdownAwait, ShutdownReturn, forceCancelGone, ReapOrphanedRuns
    <3> QED BY <3>1
  <2> QED BY <2>1, <2>2
<1> QED BY <1>1, <1>2, <1>3, <1>4 DEF Next

(* Failures are only counted, and closing ends with the process. *)
LEMMA BoundStep ==
  ASSUME TypeOK, Next
  PROVE  /\ failures' = 0 => failures = 0
         /\ closing => closing' \/ Crash
<1> USE DEF dbVars, muVars, calls, bounds
<1>0. failures \in Nat
  BY DEF TypeOK
<1>1. ASSUME NEW c \in Clients, CallStep(c) \/ ClientStep(c)
      PROVE  (failures' = failures \/ failures' = failures + 1) /\ closing' = closing
  BY <1>1 DEF CallStep, ClientStep, EnqueueLock, CancelStarted, CancelQueued,
       CancelUntracked, EnqueueCreate, EnqueueCreateFails, EnqueueFull, EnqueueSend,
       beginFinalize, EnqueueRefused, cancelOrphan, OrphanGetRun, OrphanWrite,
       OrphanEnd, setRunStatus
<1>2. ASSUME NEW q \in Queues, WorkerStep(q) \/ EngineStep(q)
      PROVE  (failures' = failures \/ failures' = failures + 1) /\ closing' = closing
  BY <1>2 DEF WorkerStep, EngineStep, Receive, executeGone, setRunStatus,
       executeCanceled, execute, SetRunning, doneCount, PublishRunning, NextTarget,
       Recover, markTargetDone, finishGone, finishQueue, finishRun, runTarget,
       runTargetPanics
<1>3. ASSUME NEW p \in Procs, FinalWrite(p) \/ endFinalize(p)
      PROVE  (failures' = failures \/ failures' = failures + 1) /\ closing' = closing
  BY <1>3 DEF FinalWrite, endFinalize, setRunStatus
<1>4. ASSUME ShutdownBegin \/ MainStep \/ ReapOrphanedRuns \/ Crash
      PROVE  failures' = failures /\ (closing => closing' \/ Crash)
  BY <1>4 DEF ShutdownBegin, MainStep, ShutdownDrained, ShutdownGrace,
         ShutdownAwait, ShutdownReturn, claimForForceCancel, forceCancelGone,
         ReapOrphanedRuns, Crash
<1>5. failures' = failures \/ failures' = failures + 1
  BY <1>1, <1>2, <1>3, <1>4 DEF Next
<1> QED BY <1>0, <1>1, <1>2, <1>3, <1>4, <1>5 DEF Next

(* A client is past GetRun in cancelOrphan because it was, or because it   *)
(* has just found the row open.                                            *)
Orphaned == {"orphanWrite", "orphanEnd", "orphanFail"}

(* Where a client that cancels an orphan comes from: GetRun that read an active row, or
   an earlier line of cancelOrphan. *)
LEMMA OrphanComes ==
  ASSUME TypeOK, Next, NEW c \in Clients, pc'[c] \in Orphaned
  PROVE  /\ arg'[c] = arg[c]
         /\ pc[c] \in Orphaned \/ (pc[c] = "getRun" /\ dbStatus[arg[c]] \in Active)
<1> USE DEF Orphaned
<1>0. c \in Procs /\ c # Main /\ c \notin Queues /\ pc \in [Procs -> ClientLabels \cup WorkerLabels \cup MainLabels]
  BY ProcAssumption DEF TypeOK, PcOK
<1>1. ASSUME NEW o \in Procs, Solo(o), o # c
      PROVE  pc[c] \in Orphaned /\ arg'[c] = arg[c]
  BY <1>0, <1>1 DEF Solo
<1>2. ASSUME CallStep(c) \/ ClientStep(c)
      PROVE  /\ arg'[c] = arg[c]
             /\ pc[c] \in Orphaned \/ (pc[c] = "getRun" /\ dbStatus[arg[c]] \in Active)
  <2>1. ASSUME NEW l, Goto(c, l) PROVE pc'[c] = l
    BY <1>0, <2>1 DEF Goto
  <2>2. ~Return(c)
    BY <1>0 DEF Return
  <2>3. CASE OrphanGetRun(c) \/ OrphanWrite(c)
    <3>1. CASE OrphanGetRun(c)
      BY <2>2, <3>1 DEF OrphanGetRun
    <3>2. CASE OrphanWrite(c)
      BY <3>2 DEF OrphanWrite
    <3> QED BY <2>3, <3>1, <3>2
  <2>4. CASE CallStep(c)
    <3>1. \A l \in {"create", "write", "orphan"} : ~Goto(c, l)
      BY <2>1
    <3>2. pc' = pc /\ arg' = arg
      BY <2>4, <3>1 DEF CallStep, EnqueueLock, CancelStarted, CancelQueued, CancelUntracked
    <3> QED BY <3>2
  <2>5. CASE EnqueueCreate(c) \/ EnqueueCreateFails(c) \/ beginFinalize(c)
    <3>1. \A l \in {"begin", "idle", "insert"} : ~Goto(c, l)
      BY <2>1
    <3> QED BY <2>5, <3>1 DEF EnqueueCreate, EnqueueCreateFails, beginFinalize
  <2>6. CASE EnqueueRefused(c) \/ EnqueueFull(c) \/ EnqueueSend(c)
    <3>1. ~Goto(c, "write")
      BY <2>1
    <3> QED BY <2>2, <2>6, <3>1 DEF EnqueueRefused, EnqueueFull, EnqueueSend
  <2>7. CASE cancelOrphan(c) \/ OrphanEnd(c)
    <3>1. ~Goto(c, "getRun")
      BY <2>1
    <3> QED BY <2>2, <2>7, <3>1 DEF cancelOrphan, OrphanEnd
  <2> QED BY <1>2, <2>3, <2>4, <2>5, <2>6, <2>7 DEF ClientStep
<1>3. CASE \E d \in Clients : (CallStep(d) \/ ClientStep(d)) /\ Solo(d)
  BY <1>1, <1>2, <1>3
<1>4. CASE \E q \in Queues : (WorkerStep(q) \/ EngineStep(q)) /\ Solo(q)
  BY <1>0, <1>1, <1>4
<1>5. CASE \E o \in Procs : (FinalWrite(o) \/ endFinalize(o)) /\ Solo(o)
  BY <1>1, <1>5, FinalGoes
<1>6. CASE (ShutdownBegin \/ MainStep \/ ReapOrphanedRuns) /\ Solo(Main)
  BY <1>0, <1>1, <1>6
<1>7. CASE Crash
  BY <1>0, <1>7 DEF Crash
<1> QED BY <1>3, <1>4, <1>5, <1>6, <1>7, Shape

(* An owner is past the terminal write because it was, or because it has   *)
(* just made it.                                                           *)
LEMMA SettleComes ==
  ASSUME TypeOK, Next, NEW p \in Procs, pc'[p] \in {"settle", "resign"}
  PROVE  /\ arg'[p] = arg[p] /\ goal'[p] = goal[p]
         /\ \/ pc[p] \in {"settle", "resign"} /\ pc'[p] = pc[p]
            \/ pc[p] = "write" /\ FinalWrite(p)
<1>0. pc \in [Procs -> ClientLabels \cup WorkerLabels \cup MainLabels]
  BY DEF TypeOK, PcOK
<1>1. ASSUME NEW o \in Procs, Solo(o), o # p
      PROVE  /\ arg'[p] = arg[p] /\ goal'[p] = goal[p]
             /\ pc[p] \in {"settle", "resign"} /\ pc'[p] = pc[p]
  BY <1>1 DEF Solo
<1>g. ASSUME NEW l, Goto(p, l) PROVE pc'[p] = l
  BY <1>0, <1>g DEF Goto
<1>r. ~Return(p)
  BY <1>0 DEF Return
<1>w. /\ \A l \in {"create", "write", "orphan", "begin", "idle", "insert", "getRun",
                   "orphanWrite", "orphanEnd", "orphanFail"} : ~Goto(p, l)
      /\ \A l \in {"start", "finish", "running", "doneCount", "loop", "publish",
                   "test", "recover", "mark"} : ~Goto(p, l)
      /\ \A l \in {"drain", "await", "force", "stopped"} : ~Goto(p, l)
  BY <1>g
<1>2. ASSUME p \in Clients, CallStep(p) \/ ClientStep(p)
      PROVE  pc' = pc /\ arg' = arg /\ goal' = goal
  BY <1>2, <1>r, <1>w DEF CallStep, ClientStep, EnqueueLock, CancelStarted,
     CancelQueued, CancelUntracked, EnqueueCreate, EnqueueCreateFails, beginFinalize,
     EnqueueRefused, EnqueueFull, EnqueueSend, cancelOrphan, OrphanGetRun,
     OrphanWrite, OrphanEnd, setRunStatus
<1>3. ASSUME p \in Queues, WorkerStep(p) \/ EngineStep(p) PROVE FALSE
  BY <1>3, <1>r, <1>w DEF WorkerStep, EngineStep, Receive, executeGone,
     executeCanceled, execute, SetRunning, doneCount, PublishRunning, AfterTarget,
     NextTarget, Recover, markTargetDone, finishGone, finishQueue, finishRun,
     runTarget, runTargetPanics, AfterPanic, setRunStatus
<1>4. ASSUME p = Main, ShutdownBegin \/ MainStep \/ ReapOrphanedRuns
      PROVE  pc' = pc /\ arg' = arg /\ goal' = goal
  BY <1>4, <1>w DEF MainStep, ShutdownBegin, ShutdownDrained, ShutdownGrace,
     ShutdownAwait, ShutdownReturn, claimForForceCancel, forceCancelGone, ReapOrphanedRuns
<1>5. CASE \E c \in Clients : (CallStep(c) \/ ClientStep(c)) /\ Solo(c)
  BY <1>1, <1>2, <1>5
<1>6. CASE \E q \in Queues : (WorkerStep(q) \/ EngineStep(q)) /\ Solo(q)
  BY <1>1, <1>3, <1>6
<1>7. CASE \E o \in Procs : (FinalWrite(o) \/ endFinalize(o)) /\ Solo(o)
  <2>1. ASSUME FinalWrite(p) \/ endFinalize(p)
        PROVE  arg' = arg /\ goal' = goal /\ pc[p] = "write" /\ FinalWrite(p)
    BY <1>r, <2>1 DEF FinalWrite, endFinalize
  <2> QED BY <1>1, <1>7, <2>1
<1>8. CASE (ShutdownBegin \/ MainStep \/ ReapOrphanedRuns) /\ Solo(Main)
  BY <1>1, <1>4, <1>8
<1>9. CASE Crash
  BY <1>9 DEF Crash
<1> QED BY <1>5, <1>6, <1>7, <1>8, <1>9, Shape

(***************************************************************************)
(* What has been said about a run.                                         *)
(***************************************************************************)

(* No end of a run has been announced while the runner tracks or owns it,  *)
(* and nothing at all before it is registered.                             *)
SaidInv ==
  /\ \A r \in tracked \cup finalizing : event[r].status \notin Terminal
  /\ \A c \in Clients : pc[c] \in {"begin", "insert"} => event[arg[c]].status = "none"
  /\ \A r \in Runs : dbStatus[r] = "none" => event[r].status = "none"
  /\ \A c \in Clients : pc[c] \in Orphaned => dbStatus[arg[c]] # "none"

(* A worker at a test keeps its run in r.runs until Shutdown gives up on   *)
(* it; without failing writes cancelOrphan finds nothing to write, and the *)
(* write of an owner is the status it goes on to publish.                  *)
TrueInv ==
  /\ ~closing => \A q \in Queues : pc[q] \in Working => arg[q] \in tracked
  /\ failures = 0 => \A c \in Clients : pc[c] \notin Orphaned
  /\ failures = 0 => \A p \in Procs : pc[p] \in {"settle", "resign"} =>
       pc[p] = "settle" /\ dbStatus[arg[p]] = goal[p]
  /\ failures = 0 /\ ~closing =>
       \A r \in Runs : event[r].status # "none" /\ r \notin tracked \cup finalizing =>
          event[r].status = dbStatus[r]

(* The actors of the five publications, and what each may assume. *)
LEMMA Speakers ==
  ASSUME TypeOK, ClaimInv, JobInv
  PROVE  /\ \A c \in Clients : pc[c] = "orphanEnd" =>
              /\ arg[c] \in Runs /\ arg[c] \notin tracked \cup finalizing
              /\ \A d \in Clients : pc[d] \in {"begin", "insert"} => arg[d] # arg[c]
         /\ \A q \in Queues : pc[q] \in Working =>
              /\ arg[q] \in Runs /\ Holds(q, arg[q]) /\ dbStatus[arg[q]] # "none"
              /\ \A d \in Clients : pc[d] \in {"begin", "insert"} => arg[d] # arg[q]
<1>0. Clients \subseteq Procs /\ Queues \subseteq Procs
  OBVIOUS
<1>1. ASSUME NEW c \in Clients, pc[c] = "orphanEnd"
      PROVE  /\ arg[c] \in Runs /\ arg[c] \notin tracked \cup finalizing
             /\ \A d \in Clients : pc[d] \in {"begin", "insert"} => arg[d] # arg[c]
  <2>1. arg[c] \in Runs /\ Orphaning(c, arg[c])
    BY <1>0, <1>1 DEF TypeOK, PcOK, Vacant, Orphaning
  <2>2. /\ arg[c] \notin tracked \cup finalizing
        /\ \A d \in Clients : pc[d] = "begin" => arg[d] # arg[c]
    BY <2>1 DEF ClaimInv, OrphanIsDead
  <2>3. \A d \in Clients : pc[d] = "insert" => arg[d] # arg[c]
    BY <1>0, <2>2, OwnedApart
  <2> QED BY <2>1, <2>2, <2>3
<1>2. ASSUME NEW q \in Queues, pc[q] \in Working
      PROVE  /\ arg[q] \in Runs /\ Holds(q, arg[q]) /\ dbStatus[arg[q]] # "none"
             /\ \A d \in Clients : pc[d] \in {"begin", "insert"} => arg[d] # arg[q]
  <2>1. arg[q] \in Runs /\ Holds(q, arg[q])
    BY <1>0, <1>2 DEF TypeOK, PcOK, Vacant, Holds, Working
  <2> QED BY <2>1 DEF JobInv
<1> QED BY <1>1, <1>2

(* What a run's events may be, kept by every step. *)
LEMMA SaidInductive ==
  /\ Init => SaidInv
  /\ TypeOK /\ TypeOK' /\ ClaimInv /\ JobInv /\ OutcomeInv /\ SaidInv
       /\ [Next]_vars => SaidInv'
<1>1. Init => SaidInv
  BY DEF Init, SaidInv, NoEvent, Orphaned
<1>2. ASSUME SaidInv, UNCHANGED vars PROVE SaidInv'
  BY <1>2 DEF SaidInv, vars, dbVars, muVars
<1>3. ASSUME TypeOK, TypeOK', ClaimInv, JobInv, OutcomeInv, SaidInv, Next PROVE SaidInv'
  <2>0. /\ Clients \subseteq Procs /\ Queues \subseteq Procs
        /\ tracked \subseteq Runs /\ finalizing \subseteq Runs
        /\ tracked' \subseteq Runs /\ finalizing' \subseteq Runs
        /\ DownInv /\ LiveInv
    BY <1>3 DEF TypeOK, OutcomeInv
  <2>1. ASSUME NEW r \in tracked' \cup finalizing' PROVE event'[r].status \notin Terminal
    <3>0. r \in Runs
      BY <2>0
    <3>1. CASE event'[r] = event[r]
      <4>1. CASE r \in tracked \cup finalizing
        BY <1>3, <3>1, <4>1 DEF SaidInv
      <4>2. ASSUME NEW c \in Clients, EnqueueSend(c), r = arg[c] PROVE r \in finalizing
        <5>1. pc[c] = "insert"
          BY <4>2 DEF EnqueueSend
        <5> QED BY <1>3, <2>0, <4>2, <5>1, OwnedApart
      <4>3. ASSUME NEW c \in Clients, beginFinalize(c), r = arg[c]
            PROVE  event[r].status = "none"
        BY <1>3, <4>3 DEF beginFinalize, SaidInv
      <4> QED BY <1>3, <2>1, <3>1, <4>1, <4>2, <4>3, TrackedStep
    <3>2. CASE \E p \in Procs : pc[p] = "settle" /\ arg[p] = r /\ endFinalize(p)
      <4>1. PICK p \in Procs : pc[p] = "settle" /\ arg[p] = r /\ endFinalize(p)
        BY <3>2
      <4>2. r \notin tracked
        BY <1>3, <4>1, OwnedApart
      <4> QED BY <2>1, <4>1, <4>2 DEF endFinalize
    <3>3. CASE \E c \in Clients : pc[c] = "orphanEnd" /\ arg[c] = r /\ OrphanEnd(c)
      <4>1. PICK c \in Clients : pc[c] = "orphanEnd" /\ arg[c] = r /\ OrphanEnd(c)
        BY <3>3
      <4>2. r \notin tracked \cup finalizing
        BY <1>3, <4>1, Speakers
      <4> QED BY <2>1, <4>1, <4>2 DEF OrphanEnd, muVars
    <3>4. CASE Crash
      BY <2>1, <3>4 DEF Crash
    <3>5. CASE event'[r] = [status |-> "queued", done |-> 0]
      BY <3>5
    <3>6. CASE \E q \in Queues : event'[r] = [status |-> "running", done |-> job[q].done]
      BY <3>6
    <3> HIDE DEF Terminal
    <3> QED BY <1>3, <3>0, <3>1, <3>2, <3>3, <3>4, <3>5, <3>6, EventStep
  <2>2. ASSUME NEW c \in Clients, pc'[c] \in {"begin", "insert"}
        PROVE  event'[arg'[c]].status = "none"
    <3>1. ASSUME NEW r \in Runs, Created(c, r), arg'[c] = r PROVE event'[r].status = "none"
      BY <1>3, <3>1 DEF Created, EnqueueCreate, SaidInv
    <3>2. CASE pc[c] \in {"begin", "insert"} /\ arg'[c] = arg[c]
      <4>0. arg[c] \in Runs
        BY <1>3, <2>0, <3>2 DEF TypeOK, PcOK, Vacant
      <4>1. event[arg[c]].status = "none"
        BY <1>3, <3>2 DEF SaidInv
      <4>2. ~Sending(arg[c])
        <5>1. ASSUME NEW d \in Clients, pc[d] = "insert", arg[d] = arg[c],
                     EnqueueSend(d) \/ EnqueueFull(d)
              PROVE  FALSE
          <6>1. d = c
            BY <1>3, <2>0, <3>2, <5>1, OwnedApart
          <6>2. pc'[c] \in {"idle", "force", "write"}
            BY <1>3, <2>0, <5>1, <6>1 DEF EnqueueSend, EnqueueFull, Return, Goto, TypeOK, PcOK
          <6> QED BY <2>2, <6>2
        <5> QED BY <5>1 DEF Sending
      <4>3. ~ \E q \in Queues : pc[q] = "publish" /\ arg[q] = arg[c]
        BY <1>3, <3>2, Speakers DEF Working
      <4>4. ~ \E p \in Procs : pc[p] = "settle" /\ arg[p] = arg[c]
        BY <1>3, <2>0, <3>2, OwnedApart
      <4>5. ~ \E d \in Clients : pc[d] = "orphanEnd" /\ arg[d] = arg[c]
        BY <1>3, <3>2, Speakers
      <4>6. ~Crash
        BY <2>0, <2>2, ProcAssumption DEF Crash
      <4>7. event'[arg[c]] = event[arg[c]]
        BY <1>3, <4>0, <4>2, <4>3, <4>4, <4>5, <4>6, EventStep
      <4> QED BY <3>2, <4>1, <4>7
    <3> QED BY <1>3, <2>2, <3>1, <3>2, BeginComes
  <2>3. ASSUME NEW r \in Runs, dbStatus'[r] = "none" PROVE event'[r].status = "none"
    <3>1. dbStatus[r] = "none"
      BY <1>3, <2>3, RowStep DEF Reaped, TypeOK
    <3>2. event[r].status = "none"
      BY <1>3, <3>1 DEF SaidInv
    <3>3. ~Sending(r)
      BY <2>0, <3>1 DEF LiveInv, Sending
    <3>4. ~ \E q \in Queues : pc[q] = "publish" /\ arg[q] = r
      BY <1>3, <3>1, Speakers DEF Working
    <3>5. ~ \E p \in Procs : pc[p] = "settle" /\ arg[p] = r
      BY <1>3, <3>1, OwnedApart DEF ClaimInv
    <3>6. ~ \E c \in Clients : pc[c] = "orphanEnd" /\ arg[c] = r
      BY <1>3, <3>1 DEF SaidInv, Orphaned
    <3>7. event'[r] = event[r] \/ event'[r] = NoEvent
      BY <1>3, <3>3, <3>4, <3>5, <3>6, EventStep
    <3> QED BY <3>2, <3>7 DEF NoEvent
  <2>4. ASSUME NEW c \in Clients, pc'[c] \in Orphaned PROVE dbStatus'[arg'[c]] # "none"
    <3>1. arg'[c] = arg[c] /\ dbStatus[arg[c]] # "none"
      BY <1>3, <2>4, OrphanComes DEF SaidInv
    <3>2. arg'[c] \in Runs
      BY <1>3, <2>0, <2>4 DEF TypeOK, PcOK, Vacant, Orphaned
    <3> QED BY <1>3, <3>1, <3>2, RowStep DEF Reaped, TypeOK
  <2> QED BY <2>1, <2>2, <2>3, <2>4 DEF SaidInv
<1> QED BY <1>1, <1>2, <1>3

(* A worker's run leaves r.runs only when Shutdown claims it. *)
LEMMA WorkerKeepsRun ==
  ASSUME TypeOK, JobInv, StopInv, OutcomeInv, TrueInv, Next, ~closing',
         NEW q \in Queues, pc'[q] \in Working
  PROVE  arg'[q] \in tracked'
<1>0. /\ q \in Procs /\ q # Main /\ DownInv /\ StartInv
  BY ProcAssumption DEF OutcomeInv
<1>1. ~Crash
  BY <1>0 DEF Crash, Working
<1>2. ~closing
  BY <1>1, BoundStep
<1>3. CASE execute(q)
  BY <1>3, WorkingComes DEF execute
<1>4. CASE pc[q] \in Working
  <2>1. arg'[q] = arg[q] /\ arg[q] \in tracked /\ arg[q] \in Runs
    BY <1>2, <1>4, WorkingComes DEF TrueInv, TypeOK
  <2>2. PICK r \in Runs : r = arg[q]
    BY <2>1
  <2>3. ~claimForForceCancel(r)
    BY <1>2 DEF claimForForceCancel, StopInv
  <2>4. ~ \E c \in Clients : CancelQueued(c, r)
    BY <1>0, <1>4, <2>2 DEF CancelQueued, StartInv
  <2>5. ~ \E o \in Queues : finishRun(o) /\ arg[o] = r
    <3>1. ASSUME NEW o \in Queues, finishRun(o), arg[o] = r PROVE FALSE
      <4>1. pc[o] = "finish" /\ r \in tracked /\ LastJob(r)
        BY <3>1 DEF finishRun
      <4>2. Holds(o, r) /\ Holds(q, r)
        BY <1>4, <2>2, <3>1, <4>1 DEF Holds, Working
      <4>3. q = o
        BY <4>1, <4>2, LastMeansLast
      <4> QED BY <1>4, <4>1, <4>3 DEF Working
    <3> QED BY <3>1
  <2>6. r \in tracked'
    BY <1>1, <2>1, <2>2, <2>3, <2>4, <2>5, LeaveStep
  <2> QED BY <2>1, <2>2, <2>6
<1> QED BY <1>3, <1>4, WorkingComes

(* Without failing writes no run is stranded, so cancelOrphan finds none. *)
LEMMA NoOrphans ==
  ASSUME TypeOK, ClaimInv, DownInv, NothingStranded, TrueInv, Next, failures' = 0,
         NEW c \in Clients
  PROVE  pc'[c] \notin Orphaned
<1>1. failures = 0
  BY BoundStep
<1>2. ASSUME pc[c] = "getRun", dbStatus[arg[c]] \in Active PROVE FALSE
  <2>1. c \in Procs /\ arg[c] \in Runs /\ Orphaning(c, arg[c]) /\ Up
    BY <1>2 DEF TypeOK, PcOK, Vacant, Orphaning, DownInv, Up
  <2>2. /\ arg[c] \notin tracked
        /\ \A d \in Clients : pc[d] = "begin" => arg[d] # arg[c]
    BY <2>1 DEF ClaimInv, OrphanIsDead
  <2>3. PICK p \in Procs : arg[p] = arg[c] /\ pc[p] \in {"begin", "insert", "write"}
    BY <1>1, <1>2, <2>1, <2>2 DEF NothingStranded
  <2>4. pc[p] # "begin"
    <3>1. pc[p] = "begin" => p \in Clients
      BY DEF TypeOK, PcOK, LabelsOf, WorkerLabels, MainLabels
    <3> QED BY <2>2, <2>3, <3>1
  <2> QED BY <2>1, <2>3, <2>4, OwnedApart
<1> QED BY <1>1, <1>2, OrphanComes DEF TrueInv

(* Without failing writes an owner's write goes through, and stays. *)
LEMMA WriteStands ==
  ASSUME TypeOK, LiveInv, TrueInv, Next, failures' = 0, NEW p \in Procs,
         pc'[p] \in {"settle", "resign"}
  PROVE  pc'[p] = "settle" /\ dbStatus'[arg'[p]] = goal'[p]
<1>0. /\ failures = 0 /\ failures \in Nat
      /\ goal \in [Procs -> Terminal]
      /\ pc \in [Procs -> ClientLabels \cup WorkerLabels \cup MainLabels]
  BY BoundStep DEF TypeOK, PcOK
<1>a. /\ arg'[p] = arg[p] /\ goal'[p] = goal[p] /\ goal[p] \in Terminal
      /\ pc[p] \in {"write", "settle", "resign"}
  BY <1>0, SettleComes
<1>b. arg[p] \in Runs
  BY <1>a DEF TypeOK, PcOK, Vacant
<1>1. CASE pc[p] \in {"settle", "resign"} /\ pc'[p] = pc[p]
  <2>1. /\ arg'[p] = arg[p] /\ goal'[p] = goal[p] /\ arg[p] \in Runs
        /\ pc[p] = "settle" /\ dbStatus[arg[p]] = goal[p] /\ goal[p] \in Terminal
    BY <1>0, <1>1, <1>a, <1>b DEF TrueInv
  <2>2. dbStatus'[arg[p]] = dbStatus[arg[p]]
    BY <2>1, RowStep DEF Reaped
  <2> QED BY <1>1, <2>1, <2>2
<1>2. CASE pc[p] = "write" /\ FinalWrite(p)
  <2>1. /\ arg'[p] = arg[p] /\ goal'[p] = goal[p] /\ arg[p] \in Runs
        /\ dbStatus[arg[p]] \in Active
        /\ setRunStatus(p, arg[p], goal[p], "settle", AfterWriteFails(p))
    BY <1>2, <1>a, <1>b DEF LiveInv, FinalWrite
  <2>2. dbStatus'[arg[p]] = goal[p] /\ Goto(p, "settle")
    BY <1>0, <1>a, <2>1, WriteEffect
  <2>3. pc'[p] = "settle"
    BY <1>0, <2>2 DEF Goto
  <2> QED BY <2>1, <2>2, <2>3
<1> QED BY <1>1, <1>2, SettleComes

(* What was last said about a run that has left the runner is its status. *)
LEMMA LastWord ==
  ASSUME TypeOK, ClaimInv, JobInv, OutcomeInv, SaidInv, TrueInv, Next,
         failures' = 0, ~closing', NEW r \in Runs, event'[r].status # "none",
         r \notin tracked' \cup finalizing'
  PROVE  event'[r].status = dbStatus'[r]
<1>0. /\ failures = 0 /\ DownInv /\ Clients \subseteq Procs /\ Queues \subseteq Procs
  BY BoundStep DEF OutcomeInv
<1>1. ~Crash
  BY DEF Crash, NoEvent
<1>2. ~closing
  BY <1>1, BoundStep
<1>3. ASSUME NEW p \in Procs, arg[p] = r, endFinalize(p)
      PROVE  event'[r].status = dbStatus'[r]
  <2>1. pc[p] = "settle" /\ dbStatus[r] = goal[p]
    BY <1>0, <1>3 DEF endFinalize, TrueInv
  <2>2. dbStatus' = dbStatus /\ publishRun(r, goal[p], st[r].done)
    BY <1>3, <2>1 DEF endFinalize, dbVars
  <2> QED BY <2>1, <2>2 DEF publishRun, TypeOK
<1>4. CASE r \in tracked \cup finalizing
  BY <1>1, <1>3, <1>4, LeaveStep
<1>5. CASE event'[r] = event[r] /\ r \notin tracked \cup finalizing
  <2>1. event[r].status # "none" /\ event[r].status = dbStatus[r]
    BY <1>0, <1>2, <1>5 DEF TrueInv
  <2>2. dbStatus[r] # "none"
    BY <2>1
  <2>3. ~ \E q \in Queues : Began(q) /\ arg[q] = r
    BY <1>2, <1>5 DEF Began, TrueInv, Working
  <2>4. ~ \E p \in Procs : Ended(p) /\ arg[p] = r
    BY <1>5, OwnedApart DEF Ended
  <2>5. ~ \E c \in Clients : OrphanEnded(c)
    BY <1>0 DEF OrphanEnded, TrueInv, Orphaned
  <2>6. ~ReapOrphanedRuns
    BY <1>0, <2>1 DEF ReapOrphanedRuns, DownInv, NoEvent
  <2> QED BY <1>5, <2>1, <2>2, <2>3, <2>4, <2>5, <2>6, RowStep
<1>6. ~Sending(r)
  <2>1. ASSUME NEW c \in Clients, pc[c] = "insert", arg[c] = r,
               EnqueueSend(c) \/ EnqueueFull(c)
        PROVE  r \in tracked' \cup finalizing'
    <3>1. r \in finalizing
      BY <1>0, <2>1, OwnedApart
    <3> QED BY <2>1, <3>1 DEF EnqueueSend, EnqueueFull
  <2> QED BY <2>1 DEF Sending
<1>7. ~ \E q \in Queues : pc[q] = "publish" /\ arg[q] = r /\ PublishRunning(q)
  <2>1. ASSUME NEW q \in Queues, pc[q] = "publish", arg[q] = r, PublishRunning(q) PROVE FALSE
    <3>1. r \in tracked
      BY <1>2, <2>1 DEF TrueInv, Working
    <3> QED BY <2>1, <3>1 DEF PublishRunning, muVars
  <2> QED BY <2>1
<1>8. ~ \E c \in Clients : pc[c] = "orphanEnd" /\ arg[c] = r /\ OrphanEnd(c)
  BY <1>0 DEF TrueInv, Orphaned
<1> QED BY <1>1, <1>3, <1>4, <1>5, <1>6, <1>7, <1>8, EventStep

(* An event that was published agrees with the tables, kept by every step. *)
LEMMA TrueInductive ==
  /\ Init => TrueInv
  /\ TypeOK /\ ClaimInv /\ JobInv /\ StopInv /\ OutcomeInv /\ NothingStranded
       /\ SaidInv /\ TrueInv /\ [Next]_vars => TrueInv'
<1>1. Init => TrueInv
  BY DEF Init, TrueInv, NoEvent, Orphaned, Working
<1>2. ASSUME TrueInv, UNCHANGED vars PROVE TrueInv'
  BY <1>2 DEF TrueInv, vars, dbVars, muVars, bounds
<1>3. ASSUME TypeOK, ClaimInv, JobInv, StopInv, OutcomeInv, NothingStranded,
             SaidInv, TrueInv, Next
      PROVE  TrueInv'
  <2>0. DownInv /\ LiveInv
    BY <1>3 DEF OutcomeInv
  <2>1. ~closing' => \A q \in Queues : pc'[q] \in Working => arg'[q] \in tracked'
    BY <1>3, WorkerKeepsRun
  <2>2. failures' = 0 => \A c \in Clients : pc'[c] \notin Orphaned
    BY <1>3, <2>0, NoOrphans
  <2>3. failures' = 0 => \A p \in Procs : pc'[p] \in {"settle", "resign"} =>
          pc'[p] = "settle" /\ dbStatus'[arg'[p]] = goal'[p]
    BY <1>3, <2>0, WriteStands
  <2>4. failures' = 0 /\ ~closing' => \A r \in Runs :
          event'[r].status # "none" /\ r \notin tracked' \cup finalizing' =>
             event'[r].status = dbStatus'[r]
    BY <1>3, LastWord
  <2> QED BY <2>1, <2>2, <2>3, <2>4 DEF TrueInv
<1> QED BY <1>1, <1>2, <1>3

(* All of it together is inductive. *)
SpokenInv == OutcomeInv /\ StopInv /\ SaidInv /\ TrueInv

(* All the events' invariants together hold of every reachable state. *)
LEMMA SpokenAlways == Spec => [](TypeOK /\ ClaimInv /\ JobInv /\ SpokenInv)
<1>1. Init => SpokenInv
  BY DownInductive, LiveInductive, StartInductive, CancelInductive, ResInductive,
     DoneInductive, StopInductive, SaidInductive, TrueInductive DEF SpokenInv, OutcomeInv
<1>2. /\ TypeOK /\ TypeOK' /\ ClaimInv /\ JobInv /\ NothingStranded /\ SpokenInv
      /\ [Next]_vars
      => SpokenInv'
  BY DownInductive, LiveInductive, StartInductive, CancelInductive, ResInductive,
     DoneInductive, StopInductive, SaidInductive, TrueInductive DEF SpokenInv, OutcomeInv
<1> QED BY <1>1, <1>2, TypeCorrect, JobsAlways, NoRunStranded, PTL DEF Spec

(* Whatever the number of clients, queues and runs: without failing writes *)
(* and before Shutdown, a client of the event stream sees "queued" before  *)
(* "running", no status twice out of order, and a terminal one last.       *)
THEOREM EventsComeInOrder == Spec => EventsInOrder
<1> DEFINE Order == failures' = 0 /\ ~closing' /\ pc'[Main] # "down" =>
         \A r \in Runs :
            event'[r] # event[r] =>
               /\ EventRank(event'[r].status) >= EventRank(event[r].status)
               /\ event[r].status \notin Terminal
<1>1. ASSUME TypeOK, ClaimInv, JobInv, SpokenInv, Next PROVE Order
  <2> SUFFICES ASSUME failures' = 0, ~closing', pc'[Main] # "down", NEW r \in Runs,
                      event'[r] # event[r]
               PROVE  /\ EventRank(event'[r].status) >= EventRank(event[r].status)
                      /\ event[r].status \notin Terminal
    OBVIOUS
  <2>0. /\ Clients \subseteq Procs /\ Queues \subseteq Procs /\ failures = 0
        /\ SaidInv /\ TrueInv
        /\ event[r].status \in Active \cup Terminal \cup {"none"}
    BY <1>1, BoundStep DEF SpokenInv, TypeOK, Event
  <2>1. ~Crash
    BY DEF Crash
  <2>2. ~closing
    BY <1>1, <2>1, BoundStep
  <2>3. CASE Sending(r) /\ event'[r] = [status |-> "queued", done |-> 0]
    <3>1. event[r].status = "none"
      BY <2>0, <2>3 DEF SaidInv, Sending
    <3> QED BY <2>3, <3>1 DEF EventRank
  <2>4. ASSUME NEW q \in Queues, pc[q] = "publish", arg[q] = r,
               event'[r] = [status |-> "running", done |-> job[q].done]
        PROVE  /\ EventRank(event'[r].status) >= EventRank(event[r].status)
               /\ event[r].status \notin Terminal
    <3>1. event[r].status \notin Terminal
      BY <2>0, <2>2, <2>4 DEF SaidInv, TrueInv, Working
    <3> QED BY <2>0, <2>4, <3>1 DEF EventRank
  <2>5. ASSUME NEW p \in Procs, pc[p] = "settle", arg[p] = r,
               event'[r] = [status |-> goal[p], done |-> st[r].done]
        PROVE  /\ EventRank(event'[r].status) >= EventRank(event[r].status)
               /\ event[r].status \notin Terminal
    <3>1. event[r].status \notin Terminal /\ goal[p] \in Terminal
      BY <1>1, <2>0, <2>5, OwnedApart DEF SaidInv, TypeOK
    <3> QED BY <2>0, <2>5, <3>1 DEF EventRank
  <2>6. ~ \E c \in Clients : pc[c] = "orphanEnd" /\ arg[c] = r
    BY <2>0 DEF TrueInv, Orphaned
  <2> HIDE DEF Terminal, Active
  <2> QED BY <1>1, <2>1, <2>3, <2>4, <2>5, <2>6, EventStep
<1>2. TypeOK /\ ClaimInv /\ JobInv /\ SpokenInv /\ [Next]_vars => [Order]_vars
  BY <1>1
<1> QED BY <1>2, SpokenAlways, PTL DEF Spec, EventsInOrder

(***************************************************************************)
(* The stepper.                                                            *)
(***************************************************************************)

(* A worker has a target in hand exactly from taking it to counting it. *)
CurInv ==
  \A q \in Queues :
    /\ pc[q] \in {"running", "doneCount", "publish", "loop"} => job[q].cur = None
    /\ pc[q] = "mark" => /\ job[q].cur \in TargetsAt(arg[q], q)
                         /\ job[q].cur \notin job[q].left

(* Target t of run r has not been counted yet. *)
Waiting(r, t) ==
  \/ Untouched(QueueOf[t], r)
  \/ /\ arg[QueueOf[t]] = r /\ pc[QueueOf[t]] \in Working
     /\ t \in job[QueueOf[t]].left \/ t = job[QueueOf[t]].cur

(* Something has happened to run r that keeps it from ending "done". *)
Spoiled(r) ==
  \/ st[r].failed \/ st[r].canceled
  \/ \E q \in Queues : /\ arg[q] = r /\ pc[q] \in Working \cup {"finish"}
                       /\ job[q].failed \/ job[q].canceled

(* The stepper of a run that may still end "done" counts the targets that  *)
(* no queue has yet to count, and it is complete when that end is written. *)
CountInv ==
  /\ \A r \in tracked : ~Spoiled(r) =>
       st[r].done = Cardinality({t \in plan[r] : ~Waiting(r, t)})
  /\ \A p \in Procs : pc[p] \in {"write", "settle"} /\ goal[p] = "done" =>
       st[arg[p]].done = Cardinality(plan[arg[p]])
  /\ DoneEventComplete

(* Which target a queue is at, kept by every step. *)
LEMMA CurInductive ==
  /\ Init => CurInv
  /\ TypeOK /\ JobInv /\ ResInv /\ CurInv /\ [Next]_vars => CurInv'
<1>1. Init => CurInv
  BY DEF Init, CurInv
<1>2. ASSUME CurInv, UNCHANGED vars PROVE CurInv'
  BY <1>2 DEF CurInv, vars, calls, TargetsAt
<1>3. ASSUME TypeOK, JobInv, ResInv, CurInv, Next, NEW q \in Queues
      PROVE  /\ pc'[q] \in {"running", "doneCount", "publish", "loop"} => job'[q].cur = None
             /\ pc'[q] = "mark" => /\ job'[q].cur \in TargetsAt(arg[q], q)'
                                   /\ job'[q].cur \notin job'[q].left
  <2>0. q \in Procs
    OBVIOUS
  <2>1. CASE pc'[q] \notin Working
    BY <2>1 DEF Working
  <2>2. CASE execute(q)
    <3>1. pc'[q] = "running" /\ job'[q] = [NoJob EXCEPT !.left = TargetsAt(arg[q], q)]
      BY <1>3, <2>0, <2>2 DEF execute, Goto, TypeOK, PcOK
    <3> QED BY <3>1 DEF NoJob
  <2>3. CASE pc'[q] \in Working /\ pc[q] \in Working
    <3>1. arg'[q] = arg[q] /\ arg[q] \in Runs /\ dbStatus[arg[q]] # "none"
      <4>1. arg'[q] = arg[q]
        BY <1>3, <2>3, WorkingComes
      <4>2. arg[q] \in Runs /\ Holds(q, arg[q])
        BY <1>3, <2>0, <2>3 DEF TypeOK, PcOK, Vacant, Working, Holds
      <4> QED BY <1>3, <4>1, <4>2 DEF JobInv
    <3>2. TargetsAt(arg[q], q)' = TargetsAt(arg[q], q)
      <4>1. plan'[arg[q]] = plan[arg[q]]
        BY <1>3, <3>1, PlanStep
      <4> QED BY <3>1, <4>1 DEF TargetsAt
    <3>3. CASE pc'[q] = pc[q] /\ job'[q] = job[q]
      BY <1>3, <3>2, <3>3 DEF CurInv
    <3>4. CASE Works(q)
      <4>1. CASE Passes(q) \/ Counts(q)
        BY <1>3, <4>1 DEF Passes, Counts, CurInv
      <4>2. CASE Leaves(q) \/ Picks(q) \/ PanicsIn(q)
        BY <2>3, <4>2 DEF Leaves, Picks, PanicsIn, Working
      <4>3. CASE Tests(q) \/ Recovers(q)
        <5>1. /\ pc[q] \in {"test", "recover"} /\ pc'[q] = "mark"
              /\ job'[q].left = job[q].left /\ job'[q].cur = job[q].cur
          BY <4>3 DEF Tests, Recovers
        <5> QED BY <1>3, <3>2, <5>1 DEF ResInv
      <4> QED BY <3>4, <4>1, <4>2, <4>3 DEF Works
    <3>5. ~Crash /\ pc[q] \notin Final
      BY <2>0, <2>3, ProcAssumption DEF Crash, Working, Final
    <3> QED BY <1>3, <2>3, <3>3, <3>4, <3>5, QueueStep, WorkStep
  <2> QED BY <1>3, <2>1, <2>2, <2>3, WorkingComes
<1>4. ASSUME TypeOK, JobInv, ResInv, CurInv, Next PROVE CurInv'
  BY <1>3, <1>4 DEF CurInv
<1> QED BY <1>1, <1>2, <1>4

(* Nothing that spoils a tracked run is forgotten. *)
LEMMA SpoiledStays ==
  ASSUME TypeOK, ClaimInv, DoneInv, Next, NEW r \in tracked, r \in tracked', Spoiled(r)
  PROVE  Spoiled(r)'
<1>0. r \in Runs /\ ~Crash /\ Clients \subseteq Procs /\ Queues \subseteq Procs
  BY DEF TypeOK, Crash
<1>1. CASE st[r].failed \/ st[r].canceled
  <2>1. ~ \E c \in Clients : pc[c] = "insert" /\ arg[c] = r
    BY <1>0, OwnedApart
  <2>2. st'[r].failed \/ st'[r].canceled
    BY <1>0, <1>1, <2>1, FlagStep
  <2> QED BY <2>2 DEF Spoiled
<1>2. ASSUME NEW q \in Queues, arg[q] = r, pc[q] \in Working \cup {"finish"},
             job[q].failed \/ job[q].canceled
      PROVE  Spoiled(r)'
  <2>1. CASE pc'[q] = pc[q] /\ arg'[q] = arg[q] /\ job'[q] = job[q]
    BY <1>2, <2>1 DEF Spoiled
  <2>2. CASE (WorkerStep(q) \/ EngineStep(q)) /\ pc[q] \in Working
    <3>1. arg' = arg /\ Works(q)
      BY <2>2, WorkStep
    <3>2. job[q].failed
      BY <1>2, <2>2 DEF DoneInv
    <3>3. job'[q].failed
      BY <3>1, <3>2 DEF Works, Passes, Leaves, Picks, Tests, PanicsIn, Recovers, Counts, SameFlags
    <3>4. pc'[q] \in Working \cup {"finish"}
      BY <3>1 DEF Works, Passes, Leaves, Picks, Tests, PanicsIn, Recovers, Counts, Working
    <3> QED BY <1>2, <3>1, <3>3, <3>4 DEF Spoiled
  <2>3. CASE (WorkerStep(q) \/ EngineStep(q)) /\ pc[q] = "finish"
    <3>1. Drops(q, arg[q])
      BY <2>3, OffStep DEF Working
    <3>2. finishQueue(q) \/ finishRun(q)
      BY <1>2, <3>1 DEF Drops
    <3>3. st'[r] = Outcome(r, q)
      BY <1>2, <3>2, FinishRecords
    <3>4. st'[r].failed \/ st'[r].canceled
      BY <1>0, <1>2, <3>3, OutcomeFlags
    <3> QED BY <3>4 DEF Spoiled
  <2>4. pc[q] \notin Final
    BY <1>2 DEF Working, Final
  <2> QED BY <1>0, <1>2, <2>1, <2>2, <2>3, <2>4, QueueStep
<1> QED BY <1>1, <1>2 DEF Spoiled

(* The worker of t's queue counts t for run r. *)
Marks(r, t) ==
  LET q == QueueOf[t]
  IN  pc[q] = "mark" /\ arg[q] = r /\ job[q].cur = t /\ markTargetDone(q)

(* What happens to one target of a run in a step that does not spoil it.   *)
LEMMA WaitStep ==
  ASSUME TypeOK, ClaimInv, JobInv, ResInv, DoneInv, CurInv, Next,
         NEW r \in tracked, r \in tracked', ~Spoiled(r)', NEW t \in plan[r]
  PROVE  Waiting(r, t)' <=> Waiting(r, t) /\ ~Marks(r, t)
<1> DEFINE q == QueueOf[t]
<1>0. /\ r \in Runs /\ ~Crash /\ Clients \subseteq Procs /\ t \in Targets
      /\ q \in Queues /\ q \in Procs /\ t # None
  BY TargetAssumption, ProcAssumption DEF TypeOK, Crash
<1> HIDE DEF q
<1>s. ~Sending(r)
  BY <1>0, OwnedApart DEF Sending
<1>u. Untouched(q, r)' => Untouched(q, r)
  BY <1>0, <1>s, HoldsStep DEF Untouched
<1>c. arg'[q] = r /\ pc'[q] \in Working \cup {"finish"} => ~job'[q].failed /\ ~job'[q].canceled
  BY <1>0 DEF Spoiled
<1>w. /\ Waiting(r, t) <=> \/ Untouched(q, r)
                           \/ /\ arg[q] = r /\ pc[q] \in Working
                              /\ t \in job[q].left \/ t = job[q].cur
      /\ Waiting(r, t)' <=> \/ Untouched(q, r)'
                            \/ /\ arg'[q] = r /\ pc'[q] \in Working
                               /\ t \in job'[q].left \/ t = job'[q].cur
      /\ Marks(r, t) <=> /\ pc[q] = "mark" /\ arg[q] = r /\ job[q].cur = t
                         /\ markTargetDone(q)
  BY DEF Waiting, Marks, q
<1>1. CASE Untouched(q, r)
  <2>1. CASE Occurs(chan[q], r)
    <3>1. Occurs(chan'[q], r) \/ (pc'[q] = "start" /\ arg'[q] = r)
      BY <1>0, <2>1, HoldsStep
    <3>2. ~(pc[q] = "mark" /\ arg[q] = r)
      BY <1>0, <2>1 DEF JobInv, JobsOnce, InHand, Final
    <3> QED BY <1>1, <1>w, <3>1, <3>2 DEF Untouched
  <2>2. CASE pc[q] = "start" /\ arg[q] = r
    <3>1. CASE pc'[q] = pc[q] /\ arg'[q] = arg[q]
      BY <1>1, <1>w, <2>2, <3>1 DEF Untouched
    <3>2. CASE execute(q) /\ pc'[q] = "running" /\ arg'[q] = arg[q]
               /\ job'[q] = [NoJob EXCEPT !.left = TargetsAt(arg[q], q)]
      <4>1. t \in job'[q].left
        BY <2>2, <3>2 DEF NoJob, TargetsAt, q
      <4> QED BY <1>1, <1>w, <2>2, <3>2, <4>1 DEF Working
    <3>3. ~(executeCanceled(q) /\ pc'[q] = "finish" /\ arg'[q] = arg[q]
            /\ job'[q] = [NoJob EXCEPT !.canceled = TRUE])
      BY <1>c, <2>2 DEF NoJob
    <3>4. ~Drops(q, arg[q])
      BY <2>2 DEF Drops
    <3>5. pc[q] \notin Final \cup Working \cup {"idle"}
      BY <2>2 DEF Final, Working
    <3> QED BY <1>0, <2>2, <3>1, <3>2, <3>3, <3>4, <3>5, QueueStep, OffStep
  <2> QED BY <1>1, <2>1, <2>2 DEF Untouched
<1>2. CASE arg[q] = r /\ pc[q] \in Working /\ ~Untouched(q, r)
  <2>1. CASE pc'[q] = pc[q] /\ arg'[q] = arg[q] /\ job'[q] = job[q]
    <3>1. ~markTargetDone(q) \/ pc[q] # "mark"
      <4>1. ASSUME markTargetDone(q), pc[q] = "mark" PROVE FALSE
        <5>1. pc'[q] \in {"publish", "finish", "loop"}
          BY <1>0, <4>1 DEF markTargetDone, Goto, AfterTarget, TypeOK, PcOK
        <5> QED BY <2>1, <4>1, <5>1
      <4> QED BY <4>1
    <3> QED BY <1>2, <1>u, <1>w, <2>1, <3>1
  <2>2. CASE WorkerStep(q) \/ EngineStep(q)
    <3>1. arg' = arg /\ Works(q)
      BY <1>0, <1>2, <2>2, WorkStep
    <3>2. job[q].panicked => job[q].failed
      BY <1>0, <1>2 DEF DoneInv
    <3>3. CASE Passes(q)
      <4>1. pc'[q] \in Working
        BY <1>2, <1>c, <3>1, <3>2, <3>3 DEF Passes, SameFlags, Working
      <4> QED BY <1>2, <1>u, <1>w, <3>1, <3>3, <4>1 DEF Passes
    <3>4. CASE Leaves(q)
      <4>1. job[q].cur = None /\ job[q].left = {}
        BY <1>0, <1>2, <1>c, <3>1, <3>4 DEF Leaves, CurInv
      <4> QED BY <1>0, <1>2, <1>u, <1>w, <3>4, <4>1 DEF Leaves, Working
    <3>5. CASE Picks(q)
      <4>1. job[q].cur = None
        BY <1>0, <3>5 DEF Picks, CurInv
      <4>2. pc'[q] \in Working /\ pc[q] # "mark"
        BY <3>5 DEF Picks, Working
      <4> QED BY <1>0, <1>2, <1>u, <1>w, <3>1, <3>5, <4>1, <4>2 DEF Picks
    <3>6. CASE Tests(q) \/ Recovers(q)
      <4>1. /\ pc'[q] \in Working /\ pc[q] # "mark"
            /\ job'[q].left = job[q].left /\ job'[q].cur = job[q].cur
        BY <3>6 DEF Tests, Recovers, Working
      <4> QED BY <1>2, <1>u, <1>w, <3>1, <4>1
    <3>7. ~PanicsIn(q)
      <4>1. PanicsIn(q) => pc'[q] \in Working \cup {"finish"} /\ job'[q].failed
        BY DEF PanicsIn, Working
      <4> QED BY <1>2, <1>c, <3>1, <4>1
    <3>8. CASE Counts(q)
      <4>1. pc'[q] \in Working /\ pc[q] = "mark"
        BY <1>2, <1>c, <3>1, <3>2, <3>8 DEF Counts, SameFlags, Working
      <4>2. markTargetDone(q)
        BY <2>2, <4>1 DEF WorkerStep, EngineStep, Receive, executeGone,
           executeCanceled, execute, SetRunning, doneCount, PublishRunning,
           NextTarget, Recover, finishGone, finishQueue, finishRun, runTarget,
           runTargetPanics
      <4>3. job[q].cur \notin job[q].left
        BY <1>0, <4>1 DEF CurInv
      <4> QED BY <1>0, <1>2, <1>u, <1>w, <3>1, <3>8, <4>1, <4>2, <4>3 DEF Counts
    <3> QED BY <3>1, <3>3, <3>4, <3>5, <3>6, <3>7, <3>8 DEF Works
  <2>3. pc[q] \notin Final
    BY <1>2 DEF Working, Final
  <2> QED BY <1>0, <2>1, <2>2, <2>3, QueueStep
<1>3. CASE ~(arg[q] = r /\ pc[q] \in Working) /\ ~Untouched(q, r)
  <2>1. ~Waiting(r, t)
    BY <1>3, <1>w
  <2>2. ~(arg'[q] = r /\ pc'[q] \in Working)
    <3>1. ASSUME arg'[q] = r, pc'[q] \in Working PROVE FALSE
      <4>1. arg[q] = r /\ execute(q)
        BY <1>0, <1>3, <3>1, WorkingComes
      <4> QED BY <1>3, <4>1 DEF execute, Untouched
    <3> QED BY <3>1
  <2> QED BY <1>3, <1>u, <1>w, <2>1, <2>2
<1> QED BY <1>1, <1>2, <1>3

(* The stepper moves by one exactly when a target is counted. *)
LEMMA DoneStep ==
  ASSUME TypeOK, ClaimInv, CurInv, Next, NEW r \in tracked, r \in tracked'
  PROVE  /\ (\A t \in plan[r] : ~Marks(r, t)) => st'[r].done = st[r].done
         /\ \A t \in plan[r] : Marks(r, t) =>
              /\ st'[r].done = st[r].done + 1
              /\ \A u \in plan[r] : Marks(r, u) => u = t
<1>0. /\ r \in Runs /\ ~Crash /\ Clients \subseteq Procs /\ Queues \subseteq Procs
      /\ st[r] \in RunState /\ st \in [Runs -> RunState] /\ plan[r] \subseteq Targets
      /\ pc \in [Procs -> ClientLabels \cup WorkerLabels \cup MainLabels]
  BY DEF TypeOK, PcOK, Crash
<1>1. ~ \E c \in Clients : pc[c] = "insert" /\ arg[c] = r
  BY <1>0, OwnedApart
<1>2. ASSUME \A t \in plan[r] : ~Marks(r, t) PROVE st'[r].done = st[r].done
  <2>1. ASSUME NEW q \in Queues, arg[q] = r, markTargetDone(q) PROVE FALSE
    <3>1. pc[q] = "mark" /\ job[q].cur \in plan[r] /\ QueueOf[job[q].cur] = q
      BY <2>1 DEF markTargetDone, CurInv, TargetsAt
    <3> QED BY <1>2, <2>1, <3>1 DEF Marks
  <2>2. CASE st'[r] = [st[r] EXCEPT !.canceled = TRUE]
    BY <1>0, <2>2 DEF RunState
  <2>3. CASE st'[r] = [st[r] EXCEPT !.started = TRUE]
    BY <1>0, <2>3 DEF RunState
  <2>4. ASSUME NEW q \in Queues, st'[r] = Outcome(r, q) PROVE st'[r].done = st[r].done
    BY <1>0, <2>4, OutcomeFlags
  <2> QED BY <1>0, <1>1, <2>1, <2>2, <2>3, <2>4, StateStep
<1>3. ASSUME NEW t \in plan[r], Marks(r, t)
      PROVE  /\ st'[r].done = st[r].done + 1
             /\ \A u \in plan[r] : Marks(r, u) => u = t
  <2>1. PICK q \in Queues : q = QueueOf[t]
    BY <1>0, TargetAssumption
  <2>2. /\ pc[q] = "mark" /\ arg[q] = r /\ job[q].cur = t /\ markTargetDone(q)
    BY <1>3, <2>1 DEF Marks
  <2>3. st' = [st EXCEPT ![r].done = st[r].done + 1]
    BY <2>2 DEF markTargetDone, Stepped
  <2>4. st'[r].done = st[r].done + 1
    BY <1>0, <2>3 DEF RunState
  <2>5. ASSUME NEW u \in plan[r], Marks(r, u) PROVE u = t
    <3>1. PICK o \in Queues : o = QueueOf[u]
      BY <1>0, TargetAssumption
    <3>2. pc[o] = "mark" /\ job[o].cur = u /\ markTargetDone(o)
      BY <2>5, <3>1 DEF Marks
    <3>3. pc'[q] \in {"publish", "loop", "finish"}
      BY <1>0, <2>2 DEF markTargetDone, Goto, AfterTarget
    <3>4. o # q => pc'[q] = pc[q]
      BY <1>0, <3>2 DEF markTargetDone, Goto
    <3> QED BY <2>2, <3>2, <3>3, <3>4
  <2> QED BY <2>4, <2>5
<1> QED BY <1>2, <1>3

(* What the stepper of a tracked run counts, after a step. *)
LEMMA CountTracked ==
  ASSUME TypeOK, TypeOK', ClaimInv, JobInv, LiveInv, ResInv, DoneInv, CurInv,
         CountInv, Next, NEW r \in tracked', ~Spoiled(r)'
  PROVE  st'[r].done = Cardinality({t \in plan'[r] : ~Waiting(r, t)'})
<1>0. /\ r \in Runs /\ plan[r] \subseteq Targets /\ plan'[r] \subseteq Targets
      /\ IsFiniteSet(plan[r])
  <2>1. r \in Runs /\ plan[r] \subseteq Targets /\ plan'[r] \subseteq Targets
    BY DEF TypeOK
  <2> QED BY <2>1, FS_Subset, TargetAssumption
<1>1. CASE r \notin tracked
  <2>1. PICK c \in Clients : EnqueueSend(c) /\ r = arg[c]
    BY <1>1, TrackedStep
  <2>2. /\ plan' = plan /\ Send(r, QueuesOf(r))
        /\ st' = [st EXCEPT ![r] = NewState(Cardinality(QueuesOf(r)))]
    BY <2>1 DEF EnqueueSend, calls
  <2>3. st'[r].done = 0
    BY <1>0, <2>2 DEF NewState, TypeOK
  <2>4. ASSUME NEW t \in plan'[r] PROVE Waiting(r, t)'
    <3>1. PICK q \in Queues : q = QueueOf[t]
      BY <1>0, TargetAssumption
    <3>2. q \in QueuesOf(r)
      BY <2>2, <3>1 DEF QueuesOf
    <3>3. chan'[q] = Append(chan[q], r) /\ chan[q] \in Seq(Runs)
      BY <2>2, <3>2 DEF Send, TypeOK
    <3>4. Occurs(chan'[q], r)
      BY <1>0, <3>3, OccursAppend
    <3> QED BY <3>1, <3>4 DEF Waiting, Untouched
  <2>5. {t \in plan'[r] : ~Waiting(r, t)'} = {}
    BY <2>4
  <2> QED BY <2>3, <2>5, FS_EmptySet
<1>2. CASE r \in tracked
  <2> DEFINE S == {t \in plan[r] : ~Waiting(r, t)}
  <2>1. ~Spoiled(r)
    BY <1>2, SpoiledStays
  <2>2. st[r].done = Cardinality(S)
    BY <1>2, <2>1 DEF CountInv
  <2>3. plan'[r] = plan[r]
    BY <1>0, <1>2, PlanStep DEF ClaimInv
  <2>4. \A t \in plan[r] : Waiting(r, t)' <=> Waiting(r, t) /\ ~Marks(r, t)
    BY <1>2, WaitStep
  <2>5. CASE \A t \in plan[r] : ~Marks(r, t)
    <3>1. st'[r].done = st[r].done
      BY <1>2, <2>5, DoneStep
    <3>2. {t \in plan'[r] : ~Waiting(r, t)'} = S
      BY <2>3, <2>4, <2>5
    <3> QED BY <2>2, <3>1, <3>2
  <2>6. ASSUME NEW t \in plan[r], Marks(r, t)
        PROVE  st'[r].done = Cardinality({u \in plan'[r] : ~Waiting(r, u)'})
    <3>1. st'[r].done = st[r].done + 1 /\ \A u \in plan[r] : Marks(r, u) => u = t
      BY <1>2, <2>6, DoneStep
    <3>2. t \notin S
      BY <2>6 DEF Marks, Waiting, Working
    <3>3. {u \in plan'[r] : ~Waiting(r, u)'} = S \cup {t}
      BY <2>3, <2>4, <2>6, <3>1
    <3>4. IsFiniteSet(S)
      BY <1>0, FS_Subset
    <3>5. Cardinality(S \cup {t}) = Cardinality(S) + 1
      BY <3>2, <3>4, FS_AddElement
    <3> QED BY <2>2, <3>1, <3>3, <3>5
  <2> QED BY <2>5, <2>6
<1> QED BY <1>1, <1>2

(* The last queue of an unspoiled run leaves no target uncounted. *)
LEMMA CountComplete ==
  ASSUME TypeOK, JobInv, CountInv, NEW q \in Queues, finishRun(q),
         ~Outcome(arg[q], q).failed, ~Outcome(arg[q], q).canceled
  PROVE  st'[arg[q]].done = Cardinality(plan[arg[q]])
<1>1. /\ pc[q] = "finish" /\ arg[q] \in tracked /\ LastJob(arg[q]) /\ arg[q] \in Runs
      /\ st'[arg[q]] = Outcome(arg[q], q)
  BY FinishRecords DEF finishRun
<1>2. PICK r \in Runs : r = arg[q]
  BY <1>1
<1>3. /\ ~st[r].failed /\ ~st[r].canceled /\ ~job[q].failed /\ ~job[q].canceled
      /\ st'[r].done = st[r].done
  BY <1>1, <1>2, OutcomeFlags
<1>4. \A o \in Queues : Holds(o, r) => o = q
  <2>1. Holds(q, r)
    BY <1>1, <1>2 DEF Holds
  <2> QED BY <1>1, <1>2, <2>1, LastMeansLast
<1>5. ~Spoiled(r)
  <2>1. \A o \in Queues : arg[o] = r /\ pc[o] \in Working \cup {"finish"} => Holds(o, r)
    BY DEF Holds, Working
  <2> QED BY <1>3, <1>4, <2>1 DEF Spoiled
<1>6. ASSUME NEW t \in plan[r], Waiting(r, t) PROVE FALSE
  <2>1. PICK o \in Queues : o = QueueOf[t]
    BY TargetAssumption DEF TypeOK
  <2>2. Untouched(o, r) \/ (arg[o] = r /\ pc[o] \in Working)
    BY <1>6, <2>1 DEF Waiting
  <2>3. Holds(o, r)
    BY <2>2 DEF Untouched, Occurs, Holds, Working
  <2>4. o = q /\ ~Occurs(chan[q], r)
    BY <1>1, <1>2, <1>4, <2>3 DEF JobInv, JobsOnce, InHand, Final
  <2> QED BY <1>1, <2>2, <2>4 DEF Untouched, Working
<1>7. {t \in plan[r] : ~Waiting(r, t)} = plan[r]
  BY <1>6
<1> QED BY <1>1, <1>2, <1>3, <1>5, <1>7 DEF CountInv

(* What an owner about to announce "done" has counted, after a step. *)
LEMMA CountWrite ==
  ASSUME TypeOK, ClaimInv, JobInv, CountInv, Next, NEW p \in Procs,
         pc'[p] \in {"write", "settle"}, goal'[p] = "done"
  PROVE  st'[arg'[p]].done = Cardinality(plan'[arg'[p]])
<1>0. goal \in [Procs -> Terminal] /\ Clients \subseteq Procs /\ Queues \subseteq Procs
  BY DEF TypeOK
<1>1. CASE /\ pc[p] \in {"write", "settle"} /\ arg'[p] = arg[p] /\ goal'[p] = goal[p]
  <2>1. /\ arg[p] \in Runs /\ arg[p] \in finalizing /\ arg[p] \notin tracked
        /\ \A c \in Clients : pc[c] = "insert" => arg[c] # arg[p]
    BY <1>0, <1>1, OwnedApart
  <2>2. ~Crash
    BY DEF Crash
  <2>3. st'[arg[p]] = st[arg[p]]
    BY <2>1, <2>2, StateStep
  <2>4. plan'[arg[p]] = plan[arg[p]]
    BY <2>1, PlanStep DEF ClaimInv
  <2> QED BY <1>1, <2>3, <2>4 DEF CountInv
<1>2. CASE p \in Queues /\ finishRun(p) /\ arg'[p] = arg[p]
  <2>1. goal' = [goal EXCEPT ![p] = FinalStatus(Outcome(arg[p], p).failed,
                                               Outcome(arg[p], p).canceled)]
    BY <1>2 DEF finishRun
  <2>2. ~Outcome(arg[p], p).failed /\ ~Outcome(arg[p], p).canceled
    BY <1>0, <2>1 DEF FinalStatus
  <2>3. plan' = plan
    BY <1>2 DEF finishRun, calls
  <2> QED BY <1>2, <2>2, <2>3, CountComplete
<1>3. CASE /\ p \in Clients /\ pc[p] = "insert" /\ (EnqueueRefused(p) \/ EnqueueFull(p))
  BY <1>0, <1>3 DEF EnqueueRefused, EnqueueFull
<1>4. CASE pc'[p] = "write"
  BY <1>1, <1>2, <1>3, <1>4, WriteComes
<1>5. CASE pc'[p] = "settle"
  BY <1>1, <1>5, SettleComes
<1> QED BY <1>4, <1>5

(* The done counts of a run's events, kept by every step. *)
LEMMA CountInductive ==
  /\ Init => CountInv
  /\ TypeOK /\ TypeOK' /\ ClaimInv /\ JobInv /\ SpokenInv /\ CurInv /\ CountInv
       /\ [Next]_vars => CountInv'
<1>1. Init => CountInv
  BY DEF Init, CountInv, DoneEventComplete, NoEvent
<1>2. ASSUME TypeOK, CountInv, UNCHANGED vars PROVE CountInv'
  <2>1. UNCHANGED <<tracked, st, plan, chan, arg, pc, goal, job, event>>
    BY <1>2 DEF vars, muVars, calls
  <2>2. \A r \in Runs : Spoiled(r)' <=> Spoiled(r)
    BY <2>1 DEF Spoiled
  <2>3. \A r \in Runs, t \in Targets : Waiting(r, t)' <=> Waiting(r, t)
    BY <2>1 DEF Waiting, Untouched, Occurs
  <2>4. \A r \in Runs : {t \in plan[r] : ~Waiting(r, t)}' = {t \in plan[r] : ~Waiting(r, t)}
    BY <1>2, <2>1, <2>3 DEF TypeOK
  <2>5. \A r \in tracked' : ~Spoiled(r)' =>
          st'[r].done = Cardinality({t \in plan'[r] : ~Waiting(r, t)'})
    BY <1>2, <2>1, <2>2, <2>4 DEF TypeOK, CountInv
  <2> QED BY <1>2, <2>1, <2>5 DEF CountInv, DoneEventComplete
<1>3. ASSUME TypeOK, TypeOK', ClaimInv, JobInv, SpokenInv, CurInv, CountInv, Next
      PROVE  CountInv'
  <2>0. LiveInv /\ ResInv /\ DoneInv /\ SaidInv
    BY <1>3 DEF SpokenInv, OutcomeInv
  <2>1. ASSUME NEW r \in tracked', ~Spoiled(r)'
        PROVE  st'[r].done = Cardinality({t \in plan'[r] : ~Waiting(r, t)'})
    BY <1>3, <2>0, <2>1, CountTracked
  <2>2. \A p \in Procs : pc'[p] \in {"write", "settle"} /\ goal'[p] = "done" =>
          st'[arg'[p]].done = Cardinality(plan'[arg'[p]])
    BY <1>3, CountWrite
  <2>3. ASSUME NEW r \in Runs, event'[r].status = "done"
        PROVE  event'[r].done = Cardinality(plan'[r])
    <3>1. CASE event'[r] = event[r]
      <4>1. dbStatus[r] # "none"
        BY <2>0, <2>3, <3>1 DEF SaidInv
      <4>2. plan'[r] = plan[r]
        BY <1>3, <4>1, PlanStep
      <4> QED BY <1>3, <2>3, <3>1, <4>2 DEF CountInv, DoneEventComplete
    <3>2. ASSUME NEW p \in Procs, pc[p] = "settle", arg[p] = r, endFinalize(p),
                 event'[r] = [status |-> goal[p], done |-> st[r].done]
          PROVE  event'[r].done = Cardinality(plan'[r])
      <4>1. plan' = plan
        BY <3>2 DEF endFinalize, calls
      <4> QED BY <1>3, <2>3, <3>2, <4>1 DEF CountInv
    <3>3. event'[r] # [status |-> "queued", done |-> 0] /\ event'[r] # [status |-> "canceled", done |-> 0]
      BY <2>3
    <3>4. \A q \in Queues : event'[r] # [status |-> "running", done |-> job[q].done]
      BY <2>3
    <3>5. event'[r] # NoEvent
      BY <2>3 DEF NoEvent
    <3> QED BY <1>3, <3>1, <3>2, <3>3, <3>4, <3>5, EventStep
  <2> QED BY <2>1, <2>2, <2>3 DEF CountInv, DoneEventComplete
<1> QED BY <1>1, <1>2, <1>3

(* Whatever the number of queues, targets and clients: once nobody works   *)
(* on a run any more its last event is the status in the runs table, and a *)
(* "done" event shows as many finished targets as the run has.             *)
THEOREM EventsMatchTables == Spec => []EventsAgree
<1>1. TypeOK /\ ClaimInv /\ SpokenInv /\ CountInv => EventsAgree
  <2>1. ASSUME ClaimInv, NEW r \in Runs, \A p \in Procs : arg[p] # r PROVE r \notin finalizing
    BY <2>1 DEF ClaimInv, OneOwner, Owns
  <2> QED BY <2>1 DEF SpokenInv, TrueInv, CountInv, EventsAgree, EventMatchesRow
<1>2. Init => CurInv /\ CountInv
  BY CurInductive, CountInductive
<1>3. /\ TypeOK /\ TypeOK' /\ ClaimInv /\ JobInv /\ SpokenInv /\ CurInv /\ CountInv
      /\ [Next]_vars
      => CurInv' /\ CountInv'
  BY CurInductive, CountInductive DEF SpokenInv, OutcomeInv
<1> QED BY <1>1, <1>2, <1>3, SpokenAlways, PTL DEF Spec
=============================================================================
