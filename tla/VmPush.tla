------------------------------- MODULE VmPush -------------------------------
(***************************************************************************)
(* The VictoriaMetrics push writer (internal/vmpush/writer.go): the        *)
(* runner's queue goroutines format results and put them on a bounded ring *)
(* without blocking, one worker posts them with retries, and Close gives   *)
(* what is left a bounded window.                                          *)
(*                                                                         *)
(* A batch is its number in the order the senders get enqueueMu.  A post   *)
(* is answered 2xx ("ok"), by a 4xx that is not 429 ("refused"), or        *)
(* neither ("failed": no answer, 429, 3xx, 5xx).  Backoff times are left   *)
(* out: waiting ends by a step of its own.  The counter of failed attempts *)
(* has no bound in the code; here it stays at FailedCap once it is there.  *)
(* Every operator begins with Vm, so that the module can be checked beside *)
(* others.  X_m is a plausible wrong form of X, for mutation checks.       *)
(***************************************************************************)
EXTENDS Integers, Sequences, FiniteSets

CONSTANTS
    VmSenders,      \* the runner's queue goroutines
    VmRingSize,     \* Config.RingSize
    VmMaxOffered,   \* bound: results offered
    VmMaxEdits,     \* bound: calls of Configure
    VmFailedCap     \* bound: where the counter of failed attempts stays

ASSUME VmBounds ==
    /\ VmRingSize \in Nat \ {0}
    /\ {VmMaxOffered, VmMaxEdits, VmFailedCap} \subseteq Nat
    /\ VmMaxOffered <= VmFailedCap

None0 == 0          \* no batch

VARIABLES
    vmConf,         \* w.enabled and whether w.url is set
    vmRing,         \* w.in
    vmAt,           \* where a sender is in OnResult
    vmMine,         \* the batch a sender holds
    vmMu,           \* w.enqueueMu is held
    vmPc, vmCur,    \* the worker, and the batch it holds
    vmStop,         \* w.stop is closed
    vmCancelled,    \* w.reqCtx is cancelled
    vmExpired,      \* the flush context in use has ended
    vmDraining,     \* the worker is in drainAndFlush
    vmPushed, vmFailed, vmDropped,
    vmOffered, vmLate, vmEdits   \* history: batches, those queued after stop; bound

vmCounts  == <<vmPushed, vmFailed, vmDropped>>
vmSender  == <<vmAt, vmMine, vmMu>>
vmWorker  == <<vmPc, vmCur, vmDraining, vmExpired>>
vmClosing == <<vmStop, vmCancelled>>
vmVars    == <<vmConf, vmRing, vmSender, vmWorker, vmClosing, vmCounts,
               vmOffered, vmLate, vmEdits>>

(* Switched off, on, or on without a URL; a URL is not used when off. *)
VmConfs == {"off", "on", "nourl"}
VmEnabled == vmConf # "off"

VmInit ==
    /\ vmConf = "off"
    /\ vmRing = <<>>
    /\ vmAt = [s \in VmSenders |-> "idle"]
    /\ vmMine = [s \in VmSenders |-> None0]
    /\ vmMu = FALSE
    /\ vmPc = "select" /\ vmCur = None0 /\ vmDraining = FALSE
    /\ vmStop = FALSE /\ vmCancelled = FALSE
    /\ vmExpired = FALSE
    /\ vmPushed = 0 /\ vmFailed = 0 /\ vmDropped = 0
    /\ vmOffered = 0 /\ vmLate = 0 /\ vmEdits = 0

VmConfigure(c) ==
    /\ vmEdits < VmMaxEdits /\ c # vmConf
    /\ vmConf' = c /\ vmEdits' = vmEdits + 1
    /\ UNCHANGED <<vmRing, vmSender, vmWorker, vmClosing, vmCounts, vmOffered,
                   vmLate>>

-----------------------------------------------------------------------------
(* OnResult: the settings are read, then three selects under enqueueMu *)

vmOther == <<vmConf, vmWorker, vmClosing, vmPushed, vmFailed, vmEdits>>

VmOnResult(s) ==
    /\ vmAt[s] = "idle" /\ vmOffered < VmMaxOffered
    /\ vmConf = "on"
    /\ vmAt' = [vmAt EXCEPT ![s] = "lock"]
    /\ UNCHANGED <<vmOther, vmRing, vmMine, vmMu, vmDropped, vmOffered, vmLate>>

VmPut(s, b) ==
    /\ vmRing' = Append(vmRing, b)
    /\ vmLate' = IF vmStop THEN vmLate + 1 ELSE vmLate
    /\ vmAt' = [vmAt EXCEPT ![s] = "idle"]
    /\ vmMine' = [vmMine EXCEPT ![s] = None0]
    /\ vmMu' = FALSE
    /\ UNCHANGED vmDropped

VmMayLock_m == TRUE
VmMayLock == ~vmMu

VmSend(s) ==
    /\ vmAt[s] = "lock" /\ VmMayLock /\ vmOffered < VmMaxOffered
    /\ vmOffered' = vmOffered + 1
    /\ IF Len(vmRing) < VmRingSize THEN VmPut(s, vmOffered + 1)
       ELSE /\ vmMu' = TRUE
            /\ vmAt' = [vmAt EXCEPT ![s] = "full"]
            /\ vmMine' = [vmMine EXCEPT ![s] = vmOffered + 1]
            /\ UNCHANGED <<vmRing, vmDropped, vmLate>>
    /\ UNCHANGED vmOther

VmDropOldest(s) ==
    /\ vmAt[s] = "full"
    /\ IF vmRing = <<>> THEN UNCHANGED <<vmRing, vmDropped>>
       ELSE vmRing' = Tail(vmRing) /\ vmDropped' = vmDropped + 1
    /\ vmAt' = [vmAt EXCEPT ![s] = "again"]
    /\ UNCHANGED <<vmOther, vmMine, vmMu, vmOffered, vmLate>>

VmSendAgain(s) ==
    /\ vmAt[s] = "again"
    /\ IF Len(vmRing) < VmRingSize THEN VmPut(s, vmMine[s])
       ELSE /\ vmDropped' = vmDropped + 1
            /\ vmAt' = [vmAt EXCEPT ![s] = "idle"]
            /\ vmMine' = [vmMine EXCEPT ![s] = None0]
            /\ vmMu' = FALSE
            /\ UNCHANGED <<vmRing, vmLate>>
    /\ UNCHANGED <<vmOther, vmOffered>>

-----------------------------------------------------------------------------
(* Close, and the time that passes after it *)

vmStill == <<vmConf, vmRing, vmSender, vmPc, vmCur, vmDraining, vmCounts,
             vmOffered, vmLate, vmEdits>>

VmClose ==
    /\ ~vmStop /\ vmStop' = TRUE
    /\ UNCHANGED <<vmStill, vmCancelled, vmExpired>>

VmCancel ==
    /\ vmStop /\ ~vmCancelled /\ vmCancelled' = TRUE
    /\ UNCHANGED <<vmStill, vmStop, vmExpired>>

VmFlushing == vmPc \in {"flush", "flushpost", "flushwait", "drain"}

(* A flush context ends: after 10 s, or with the deadline of Close's ctx,  *)
(* which may have passed before the flush began.                           *)
VmExpire ==
    /\ VmFlushing /\ ~vmExpired
    /\ vmExpired' = TRUE
    /\ UNCHANGED <<vmStill, vmClosing>>

-----------------------------------------------------------------------------
(* The worker *)

vmOutside == <<vmConf, vmSender, vmClosing, vmOffered, vmLate, vmEdits>>

VmGo(pc, b) == vmPc' = pc /\ vmCur' = b
VmCountFailed == vmFailed' = IF vmFailed < VmFailedCap THEN vmFailed + 1 ELSE vmFailed
VmOpenFlush == vmExpired' = FALSE          \* flushContext

(* Where deliver and deliverBounded return to. *)
VmReturn == VmGo(IF vmDraining THEN "drain" ELSE "select", None0)

VmTake ==
    /\ vmPc = "select" /\ vmRing # <<>>
    /\ VmGo("try", Head(vmRing)) /\ vmRing' = Tail(vmRing)
    /\ UNCHANGED <<vmOutside, vmDraining, vmExpired, vmCounts>>

VmSeeStop ==
    /\ vmPc = "select" /\ vmStop
    /\ VmGo("drain", None0) /\ vmDraining' = TRUE /\ VmOpenFlush
    /\ UNCHANGED <<vmOutside, vmRing, vmCounts>>

VmDeliver ==
    /\ vmPc = "try"
    /\ IF VmEnabled THEN VmGo("post", vmCur) /\ UNCHANGED vmFailed
       ELSE VmReturn /\ VmCountFailed
    /\ UNCHANGED <<vmOutside, vmRing, vmDraining, vmExpired, vmPushed, vmDropped>>

(* The answer of a post under reqCtx: a cancelled one says nothing. *)
VmPosted(r) ==
    /\ vmPc = "post"
    /\ \/ /\ r = "ok"
          /\ VmReturn /\ vmPushed' = vmPushed + 1
          /\ UNCHANGED <<vmFailed, vmExpired>>
       \/ /\ r # "ok" /\ vmCancelled
          /\ VmGo("flush", vmCur) /\ VmOpenFlush
          /\ UNCHANGED <<vmPushed, vmFailed>>
       \/ /\ r # "ok" /\ ~vmCancelled
          /\ VmCountFailed
          /\ IF r = "refused" THEN VmReturn ELSE VmGo("backoff", vmCur)
          /\ UNCHANGED <<vmPushed, vmExpired>>
    /\ UNCHANGED <<vmOutside, vmRing, vmDraining, vmDropped>>

VmBackoff ==
    /\ vmPc = "backoff"
    /\ \/ VmGo("try", vmCur) /\ UNCHANGED vmExpired
       \/ vmStop /\ VmGo("flush", vmCur) /\ VmOpenFlush
    /\ UNCHANGED <<vmOutside, vmRing, vmDraining, vmCounts>>

VmDeliverBounded ==
    /\ vmPc = "flush"
    /\ IF VmEnabled THEN VmGo("flushpost", vmCur) /\ UNCHANGED vmDropped
       ELSE VmReturn /\ vmDropped' = vmDropped + 1
    /\ UNCHANGED <<vmOutside, vmRing, vmDraining, vmExpired, vmPushed, vmFailed>>

VmFlushPosted(r) ==
    /\ vmPc = "flushpost"
    /\ \/ r = "ok" /\ VmReturn /\ vmPushed' = vmPushed + 1 /\ UNCHANGED vmFailed
       \/ r = "refused" /\ VmReturn /\ VmCountFailed /\ UNCHANGED vmPushed
       \/ r = "failed" /\ VmGo("flushwait", vmCur) /\ VmCountFailed
                       /\ UNCHANGED vmPushed
    /\ UNCHANGED <<vmOutside, vmRing, vmDraining, vmExpired, vmDropped>>

VmGiveUp_m == FALSE
VmGiveUp == vmExpired /\ VmReturn /\ vmDropped' = vmDropped + 1

(* Both cases of the select may be ready: the retry of an expired flush is *)
(* possible, but not for ever.                                             *)
VmFlushRetries ==
    /\ vmPc = "flushwait" /\ VmGo("flush", vmCur)
    /\ UNCHANGED <<vmOutside, vmRing, vmDraining, vmExpired, vmCounts>>

VmFlushEnds ==
    /\ vmPc = "flushwait" /\ VmGiveUp
    /\ UNCHANGED <<vmOutside, vmRing, vmDraining, vmExpired, vmPushed, vmFailed>>

VmDrained == vmRing = <<>>

VmDrain ==
    /\ vmPc = "drain"
    /\ IF VmDrained THEN VmGo("done", None0) /\ UNCHANGED vmRing
       ELSE VmGo("flush", Head(vmRing)) /\ vmRing' = Tail(vmRing)
    /\ UNCHANGED <<vmOutside, vmDraining, vmExpired, vmCounts>>

-----------------------------------------------------------------------------
(* A post without a URL always fails; the model lets it have any answer. *)
VmAnswers == {"ok", "refused", "failed"}

VmRun ==
    \/ VmTake \/ VmSeeStop \/ VmDeliver \/ VmBackoff
    \/ VmDeliverBounded \/ VmFlushRetries \/ VmFlushEnds \/ VmDrain
    \/ \E r \in VmAnswers : VmPosted(r) \/ VmFlushPosted(r)

VmNext ==
    \/ \E c \in VmConfs : VmConfigure(c)
    \/ \E s \in VmSenders :
          VmOnResult(s) \/ VmSend(s) \/ VmDropOldest(s) \/ VmSendAgain(s)
    \/ VmClose \/ VmCancel \/ VmExpire
    \/ VmRun

(* The worker's goroutine and its timers run, the rest of Close runs; an   *)
(* expired context wins the select of the flush in the end.  Nothing is    *)
(* assumed about the endpoint or about Configure.                          *)
VmFairness ==
    /\ WF_vmVars(VmRun)
    /\ WF_vmVars(VmExpire \/ VmCancel)
    /\ SF_vmVars(VmFlushEnds)

VmSpec == VmInit /\ [][VmNext]_vmVars /\ VmFairness

-----------------------------------------------------------------------------
(* Properties *)

(* The counters stay natural numbers, the worker holds a batch exactly     *)
(* where its program counter says so, and only Close makes it stop.        *)
VmTypeOK ==
    /\ vmConf \in VmConfs
    /\ vmRing \in Seq(1 .. VmMaxOffered) /\ Len(vmRing) <= VmRingSize
    /\ vmAt \in [VmSenders -> {"idle", "lock", "full", "again"}]
    /\ vmMine \in [VmSenders -> 0 .. VmMaxOffered]
    /\ vmMu \in BOOLEAN
    /\ {vmPushed, vmFailed, vmDropped, vmOffered} \subseteq Nat
    /\ (vmCur = None0) <=> vmPc \in {"select", "drain", "done"}
    /\ {vmStop, vmCancelled, vmExpired, vmDraining} \subseteq BOOLEAN
    /\ (vmCancelled \/ VmFlushing \/ vmPc = "done") => vmStop

VmHeld == {s \in VmSenders : vmMine[s] # None0}

VmInHand == (IF vmCur = None0 THEN 0 ELSE 1) + Cardinality(VmHeld)

(* Whatever is retried, cancelled, flushed or dropped meanwhile, a batch   *)
(* that left the writer is counted: once as pushed or dropped, or in the   *)
(* failed attempts.  None is counted both pushed and dropped.              *)
VmAccounted ==
    LET gone == vmOffered - Len(vmRing) - VmInHand
    IN  /\ vmPushed + vmDropped <= gone
        /\ gone <= vmPushed + vmDropped + vmFailed

(* enqueueMu makes "drop the oldest" true: once a sender has made room, no *)
(* other takes the place, and the newest batch is never the dropped one.   *)
VmNewestKept ==
    \A s \in VmSenders : vmAt[s] = "again" => Len(vmRing) < VmRingSize

(* Only batches queued after Close can be left behind by it. *)
VmClosedIsDrained == vmPc = "done" => Len(vmRing) <= vmLate

(* Close ends the worker, whatever the endpoint does. *)
VmStops == vmStop ~> vmPc = "done"

(* However senders, retries, reconfigurations and Close interleave, a      *)
(* batch is pushed, counted or still held, what is dropped is the oldest,  *)
(* and Close leaves nothing behind that was queued before it.              *)
VmSafe == VmTypeOK /\ VmAccounted /\ VmNewestKept /\ VmClosedIsDrained
=============================================================================
