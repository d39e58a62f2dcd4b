--------------------------- MODULE ServiceProofs ---------------------------
(* Proofs about the exporters, the event hub, the server searches and the   *)
(* settings document, for every number of senders, loggers, clients and     *)
(* requests and every size of queue, batch, cache and bucket.               *)
EXTENDS MCServices, FiniteSetTheorems, SequenceTheorems, TLAPS

(***************************************************************************)
(* VmPush: the ring and its worker.                                        *)
(***************************************************************************)

(* Where the worker can be, and where a sender holds a batch. *)
VmLabels == {"select", "try", "post", "backoff", "flush", "flushpost", "flushwait",
             "drain", "done"}
VmHolding == {"full", "again"}

(* The invariant with what makes it inductive: the types of the locals,    *)
(* which goroutine holds enqueueMu, and that only a stopping worker drains. *)
VmInv ==
  /\ VmSafe
  /\ vmPc \in VmLabels /\ vmCur \in 0 .. VmMaxOffered /\ vmOffered <= VmMaxOffered
  /\ vmLate \in Nat /\ vmFailed <= VmFailedCap
  /\ vmDraining => vmStop
  /\ \A s \in VmSenders : vmMine[s] # None0 <=> vmAt[s] \in VmHolding
  /\ \A s \in VmSenders : vmAt[s] \in VmHolding => vmMu
  /\ \A s, t \in VmSenders : vmAt[s] \in VmHolding /\ vmAt[t] \in VmHolding => s = t

(* Under a mutex at most one batch is held. *)
LEMMA HeldCount ==
  ASSUME NEW S, NEW f, \A s, t \in S : f[s] # None0 /\ f[t] # None0 => s = t
  PROVE  /\ (\A s \in S : f[s] = None0) => Cardinality({s \in S : f[s] # None0}) = 0
         /\ \A s \in S : f[s] # None0 => Cardinality({x \in S : f[x] # None0}) = 1
<1>1. ASSUME \A s \in S : f[s] = None0 PROVE Cardinality({s \in S : f[s] # None0}) = 0
  <2>1. {s \in S : f[s] # None0} = {}
    BY <1>1
  <2> QED BY <2>1, FS_EmptySet
<1>2. ASSUME NEW s \in S, f[s] # None0 PROVE Cardinality({x \in S : f[x] # None0}) = 1
  <2>1. {x \in S : f[x] # None0} = {s}
    BY <1>2
  <2> QED BY <2>1, FS_Singleton
<1> QED BY <1>1, <1>2

(* How many batches the senders hold. *)
LEMMA HeldIs ==
  ASSUME VmInv
  PROVE  /\ Cardinality(VmHeld) \in {0, 1}
         /\ ~vmMu => Cardinality(VmHeld) = 0
         /\ \A s \in VmSenders : vmAt[s] \in VmHolding => Cardinality(VmHeld) = 1
<1>1. \A s, t \in VmSenders : vmMine[s] # None0 /\ vmMine[t] # None0 => s = t
  BY DEF VmInv
<1>2. /\ (\A s \in VmSenders : vmMine[s] = None0) => Cardinality(VmHeld) = 0
      /\ \A s \in VmSenders : vmMine[s] # None0 => Cardinality(VmHeld) = 1
  BY <1>1, HeldCount DEF VmHeld
<1>3. ~vmMu => \A s \in VmSenders : vmMine[s] = None0
  BY DEF VmInv
<1>4. \A s \in VmSenders : vmAt[s] \in VmHolding => vmMine[s] # None0
  BY DEF VmInv
<1> QED BY <1>2, <1>3, <1>4

(* The parts of the invariant that are about the senders only. *)
VmSenderInv ==
  /\ vmAt \in [VmSenders -> {"idle", "lock", "full", "again"}]
  /\ vmMine \in [VmSenders -> 0 .. VmMaxOffered]
  /\ vmMu \in BOOLEAN
  /\ \A s \in VmSenders : vmMine[s] # None0 <=> vmAt[s] \in VmHolding
  /\ \A s \in VmSenders : vmAt[s] \in VmHolding => vmMu
  /\ \A s, t \in VmSenders : vmAt[s] \in VmHolding /\ vmAt[t] \in VmHolding => s = t

(* ... and those that are about the worker and the ring. *)
VmWorkerInv ==
  /\ vmRing \in Seq(1 .. VmMaxOffered) /\ Len(vmRing) <= VmRingSize
  /\ vmPc \in VmLabels /\ vmCur \in 0 .. VmMaxOffered
  /\ (vmCur = None0) <=> vmPc \in {"select", "drain", "done"}
  /\ {vmStop, vmCancelled, vmExpired, vmDraining} \subseteq BOOLEAN
  /\ (vmCancelled \/ VmFlushing \/ vmPc = "done") => vmStop
  /\ vmDraining => vmStop
  /\ {vmPushed, vmFailed, vmDropped, vmOffered, vmLate} \subseteq Nat
  /\ vmOffered <= VmMaxOffered /\ vmFailed <= VmFailedCap
  /\ VmClosedIsDrained

(* The strengthened invariant is these parts and the two of VmSafe. *)
LEMMA VmInvParts ==
  VmInv <=> vmConf \in VmConfs /\ VmSenderInv /\ VmWorkerInv /\ VmAccounted /\ VmNewestKept
BY DEF VmInv, VmSafe, VmTypeOK, VmSenderInv, VmWorkerInv

(* What a step of the worker does to the batches: it takes the oldest of   *)
(* the ring, goes on with the one it holds, or is done with it.            *)
VmTakes ==
  /\ vmRing # <<>> /\ vmRing' = Tail(vmRing)
  /\ vmCur = None0 /\ vmCur' = Head(vmRing)
  /\ UNCHANGED vmCounts
VmKeeps ==
  /\ UNCHANGED <<vmRing, vmCur, vmPushed, vmDropped>>
  /\ UNCHANGED vmFailed \/ VmCountFailed
VmDoneWith ==
  /\ UNCHANGED vmRing /\ vmCur # None0 /\ vmCur' = None0
  /\ \/ vmPushed' = vmPushed + 1 /\ UNCHANGED <<vmFailed, vmDropped>>
     \/ vmDropped' = vmDropped + 1 /\ UNCHANGED <<vmFailed, vmPushed>>
     \/ VmCountFailed /\ UNCHANGED <<vmPushed, vmDropped>>

(* ... and where it leaves the worker. *)
VmStands ==
  /\ vmPc' \in VmLabels
  /\ (vmCur' = None0) <=> vmPc' \in {"select", "drain", "done"}
  /\ vmExpired' \in BOOLEAN /\ vmDraining' \in BOOLEAN
  /\ vmPc' \in {"flush", "flushpost", "flushwait", "drain", "done"} => vmStop
  /\ vmDraining' => vmStop
  /\ vmPc' = "done" => vmRing' = <<>>

(* Every step of the worker is one of the three. *)
LEMMA VmWorkerDoes ==
  ASSUME VmWorkerInv, VmRun
  PROVE  (VmTakes \/ VmKeeps \/ VmDoneWith) /\ VmStands /\ UNCHANGED vmOutside
<1> USE DEF VmGo, VmReturn, VmTakes, VmKeeps, VmDoneWith, vmCounts, None0
<1>1. /\ vmCur \in 0 .. VmMaxOffered
      /\ (vmCur = None0) <=> vmPc \in {"select", "drain", "done"}
      /\ vmStop \in BOOLEAN /\ vmCancelled \in BOOLEAN /\ vmExpired \in BOOLEAN
      /\ vmDraining \in BOOLEAN
      /\ vmCancelled \/ vmPc \in {"flush", "flushpost", "flushwait", "drain", "done"}
            => vmStop
      /\ vmDraining => vmStop
  BY DEF VmWorkerInv, VmFlushing
<1>0. vmRing \in Seq(1 .. VmMaxOffered)
  BY DEF VmWorkerInv
<1>2. vmRing # <<>> => Head(vmRing) \in 1 .. VmMaxOffered
  BY <1>0, HeadTailProperties
<1>3. vmRing # <<>> => Head(vmRing) # None0
  BY <1>2
<1> HIDE DEF None0
<1>4. None0 = 0
  BY DEF None0
<1> USE DEF VmStands, VmLabels, VmOpenFlush
<1>a. CASE VmTake
  BY <1>a, <1>1, <1>3 DEF VmTake
<1>b. CASE VmSeeStop
  BY <1>b, <1>1 DEF VmSeeStop
<1>c. CASE VmDeliver
  BY <1>c, <1>1 DEF VmDeliver
<1>d. CASE VmBackoff
  BY <1>d, <1>1 DEF VmBackoff
<1>e. CASE VmDeliverBounded
  BY <1>e, <1>1 DEF VmDeliverBounded
<1>f. CASE VmFlushRetries
  BY <1>f, <1>1 DEF VmFlushRetries
<1>g. CASE VmFlushEnds
  BY <1>g, <1>1 DEF VmFlushEnds, VmGiveUp
<1>h. CASE VmDrain
  BY <1>h, <1>1, <1>3 DEF VmDrain, VmDrained
<1>i. CASE \E r \in VmAnswers : VmPosted(r)
  <2>1. PICK r \in VmAnswers : VmPosted(r)
    BY <1>i
  <2>2. vmPc = "post" /\ vmCur # None0 /\ UNCHANGED <<vmOutside, vmRing, vmDraining, vmDropped>>
    BY <2>1, <1>1 DEF VmPosted
  <2>3. CASE r = "ok"
    BY <2>1, <2>2, <2>3, <1>1 DEF VmPosted
  <2>4. CASE r # "ok" /\ vmCancelled
    BY <2>1, <2>2, <2>4, <1>1 DEF VmPosted
  <2>5. CASE r # "ok" /\ ~vmCancelled
    BY <2>1, <2>2, <2>5, <1>1 DEF VmPosted
  <2> QED BY <2>3, <2>4, <2>5
<1>j. CASE \E r \in VmAnswers : VmFlushPosted(r)
  BY <1>j, <1>1 DEF VmFlushPosted
<1> QED BY <1>a, <1>b, <1>c, <1>d, <1>e, <1>f, <1>g, <1>h, <1>i, <1>j DEF VmRun

(* Any step of the worker preserves the invariant: the batch it takes was  *)
(* on the ring, and the one it is done with is counted in the same step.   *)
LEMMA VmWorkerStep ==
  ASSUME VmInv, VmRun
  PROVE  VmInv'
<1>0. /\ VmSenderInv /\ VmWorkerInv /\ VmAccounted /\ VmNewestKept /\ vmConf \in VmConfs
      /\ Cardinality(VmHeld) \in {0, 1}
  BY VmInvParts, HeldIs
<1>1. (VmTakes \/ VmKeeps \/ VmDoneWith) /\ VmStands /\ UNCHANGED vmOutside
  BY <1>0, VmWorkerDoes
<1>2. VmSenderInv' /\ vmConf' \in VmConfs /\ VmHeld' = VmHeld
  BY <1>0, <1>1 DEF vmOutside, vmSender, VmSenderInv, VmHeld
<1>3. PICK n \in {0, 1} : n = Cardinality(VmHeld) /\ n = Cardinality(VmHeld')
  BY <1>0, <1>2
<1>4. /\ vmRing \in Seq(1 .. VmMaxOffered) /\ Len(vmRing) \in Nat
      /\ vmRing # <<>> => /\ Head(vmRing) \in 1 .. VmMaxOffered
                          /\ Tail(vmRing) \in Seq(1 .. VmMaxOffered)
                          /\ Len(Tail(vmRing)) = Len(vmRing) - 1
                          /\ Len(vmRing) # 0
      /\ VmMaxOffered \in Nat /\ VmRingSize \in Nat /\ VmFailedCap \in Nat
  <2>1. vmRing \in Seq(1 .. VmMaxOffered)
    BY <1>0 DEF VmWorkerInv
  <2> QED BY <2>1, HeadTailProperties, EmptySeq, VmBounds
<1>5. /\ vmCur \in 0 .. VmMaxOffered /\ vmPushed \in Nat /\ vmDropped \in Nat
      /\ vmFailed \in Nat /\ vmOffered \in Nat /\ vmOffered <= VmMaxOffered
      /\ Len(vmRing) <= VmRingSize /\ vmFailed <= VmFailedCap
  BY <1>0 DEF VmWorkerInv
<1>6. /\ vmRing' \in Seq(1 .. VmMaxOffered) /\ Len(vmRing') \in Nat
      /\ Len(vmRing') <= Len(vmRing) /\ vmCur' \in 0 .. VmMaxOffered
      /\ vmPushed' \in Nat /\ vmDropped' \in Nat /\ vmFailed' \in Nat
      /\ vmFailed' <= VmFailedCap
  <2>1. CASE VmTakes
    BY <2>1, <1>4, <1>5 DEF VmTakes, vmCounts
  <2>2. CASE VmKeeps
    BY <2>2, <1>4, <1>5 DEF VmKeeps, VmCountFailed
  <2>3. CASE VmDoneWith
    BY <2>3, <1>4, <1>5 DEF VmDoneWith, VmCountFailed, None0
  <2> QED BY <1>1, <2>1, <2>2, <2>3
<1>7. vmOffered' = vmOffered /\ vmStop' = vmStop /\ vmCancelled' = vmCancelled
      /\ vmLate' = vmLate /\ vmAt' = vmAt
  BY <1>1 DEF vmOutside, vmClosing, vmSender
<1>8. VmWorkerInv'
  <2>1. vmPc' = "done" => Len(vmRing') <= vmLate'
    <3>1. vmLate \in Nat
      BY <1>0 DEF VmWorkerInv
    <3> QED BY <1>1, <1>7, <3>1, EmptySeq DEF VmStands
  <2>2. (vmCancelled' \/ VmFlushing' \/ vmPc' = "done") => vmStop'
    BY <1>0, <1>1, <1>7 DEF VmStands, VmWorkerInv, VmFlushing
  <2> QED BY <1>0, <1>1, <1>4, <1>5, <1>6, <1>7, <2>1, <2>2
          DEF VmWorkerInv, VmStands, VmClosedIsDrained
<1>9. VmAccounted'
  <2> DEFINE Hand(c) == IF c = None0 THEN 0 ELSE 1
  <2>1. /\ vmPushed + vmDropped <= vmOffered - Len(vmRing) - (Hand(vmCur) + n)
        /\ vmOffered - Len(vmRing) - (Hand(vmCur) + n) <= vmPushed + vmDropped + vmFailed
    BY <1>0, <1>3 DEF VmAccounted, VmInHand
  <2>2. SUFFICES /\ vmPushed' + vmDropped' <= vmOffered - Len(vmRing') - (Hand(vmCur') + n)
                 /\ vmOffered - Len(vmRing') - (Hand(vmCur') + n)
                       <= vmPushed' + vmDropped' + vmFailed'
    BY <1>3, <1>7 DEF VmAccounted, VmInHand
  <2>3. CASE VmTakes
    BY <2>1, <2>3, <1>4, <1>5 DEF VmTakes, vmCounts, None0
  <2>4. CASE VmKeeps
    BY <2>1, <2>4, <1>4, <1>5 DEF VmKeeps, VmCountFailed
  <2>5. CASE VmDoneWith
    <3>1. VmMaxOffered <= VmFailedCap
      BY VmBounds
    <3>2. Hand(vmCur) = 1 /\ Hand(vmCur') = 0 /\ Len(vmRing') = Len(vmRing)
      BY <2>5 DEF VmDoneWith
    <3> HIDE DEF Hand
    <3>3. CASE vmPushed' = vmPushed + 1 /\ UNCHANGED <<vmFailed, vmDropped>>
      BY <2>1, <3>2, <3>3, <1>4, <1>5
    <3>4. CASE vmDropped' = vmDropped + 1 /\ UNCHANGED <<vmFailed, vmPushed>>
      BY <2>1, <3>2, <3>4, <1>4, <1>5
    <3>5. CASE VmCountFailed /\ UNCHANGED <<vmPushed, vmDropped>>
      <4>1. vmFailed' = vmFailed + 1 \/ (vmFailed' = vmFailed /\ VmFailedCap <= vmFailed)
        BY <3>5, <1>4, <1>5 DEF VmCountFailed
      <4>2. 1 + n <= vmOffered - Len(vmRing) /\ vmOffered <= VmFailedCap
        BY <2>1, <3>1, <3>2, <1>4, <1>5
      <4> QED BY <2>1, <3>2, <3>5, <4>1, <4>2, <1>4, <1>5
    <3> QED BY <2>5, <3>3, <3>4, <3>5 DEF VmDoneWith
  <2> QED BY <1>1, <2>3, <2>4, <2>5
<1>10. VmNewestKept'
  BY <1>0, <1>4, <1>5, <1>6, <1>7 DEF VmNewestKept
<1>11. VmInv' <=> /\ vmConf' \in VmConfs /\ VmSenderInv' /\ VmWorkerInv'
                  /\ VmAccounted' /\ VmNewestKept'
  BY DEF VmInv, VmSafe, VmTypeOK, VmSenderInv, VmWorkerInv
<1> QED BY <1>2, <1>8, <1>9, <1>10, <1>11

(* The steps of the senders.  Whoever holds enqueueMu is the only one with *)
(* a batch in hand, so the count of those goes from 0 to 1 and back.       *)
VmPutting == \E s \in VmSenders :
  VmOnResult(s) \/ VmSend(s) \/ VmDropOldest(s) \/ VmSendAgain(s)

(* The mutex is kept by the steps of the senders. *)
LEMMA VmMutex ==
  ASSUME VmSenderInv, vmOffered \in Nat, VmPutting
  PROVE  VmSenderInv'
<1>1. PICK s \in VmSenders :
         VmOnResult(s) \/ VmSend(s) \/ VmDropOldest(s) \/ VmSendAgain(s)
  BY DEF VmPutting
<1>2. VmMaxOffered \in Nat
  BY VmBounds
<1> USE DEF VmSenderInv, VmHolding, None0
<1>3. CASE VmOnResult(s)
  BY <1>1, <1>3 DEF VmOnResult
<1>4. CASE VmSend(s)
  <2>0. vmAt[s] = "lock" /\ ~vmMu /\ vmOffered + 1 \in 1 .. VmMaxOffered
    BY <1>2, <1>4 DEF VmSend, VmMayLock
  <2>1. CASE Len(vmRing) < VmRingSize
    <3>1. /\ vmAt' = [vmAt EXCEPT ![s] = "idle"]
          /\ vmMine' = [vmMine EXCEPT ![s] = None0] /\ vmMu' = FALSE
      BY <1>4, <2>1 DEF VmSend, VmPut
    <3>2. \A t \in VmSenders : vmAt[t] \notin VmHolding /\ vmMine[t] = None0
      BY <2>0
    <3>3. \A t \in VmSenders : vmAt'[t] \notin VmHolding /\ vmMine'[t] = None0
      BY <3>1, <3>2
    <3>4. vmAt' \in [VmSenders -> {"idle", "lock", "full", "again"}]
          /\ vmMine' \in [VmSenders -> 0 .. VmMaxOffered]
      BY <3>1, <1>2
    <3> QED BY <3>1, <3>3, <3>4
  <2>2. CASE ~ (Len(vmRing) < VmRingSize)
    <3>1. /\ vmAt' = [vmAt EXCEPT ![s] = "full"] /\ vmMu' = TRUE
          /\ vmMine' = [vmMine EXCEPT ![s] = vmOffered + 1]
      BY <1>4, <2>2 DEF VmSend
    <3> QED BY <3>1, <2>0, <1>2
  <2> QED BY <2>1, <2>2
<1>5. CASE VmDropOldest(s)
  <2>1. vmAt[s] = "full" /\ vmAt' = [vmAt EXCEPT ![s] = "again"] /\ UNCHANGED <<vmMine, vmMu>>
    BY <1>5 DEF VmDropOldest
  <2> QED BY <2>1, <1>1
<1>6. CASE VmSendAgain(s)
  <2>1. /\ vmAt[s] = "again" /\ vmAt' = [vmAt EXCEPT ![s] = "idle"]
        /\ vmMine' = [vmMine EXCEPT ![s] = None0] /\ vmMu' = FALSE
    BY <1>6 DEF VmSendAgain, VmPut
  <2>2. \A t \in VmSenders : t # s => vmAt[t] \notin VmHolding /\ vmMine[t] = None0
    BY <2>1
  <2>3. \A t \in VmSenders : vmAt'[t] \notin VmHolding /\ vmMine'[t] = None0
    BY <2>1, <2>2
  <2>4. vmAt' \in [VmSenders -> {"idle", "lock", "full", "again"}]
        /\ vmMine' \in [VmSenders -> 0 .. VmMaxOffered]
    BY <2>1, <1>2
  <2> QED BY <2>1, <2>3, <2>4
<1> QED BY <1>1, <1>3, <1>4, <1>5, <1>6

(* What a step of a sender does to the ring: n and m are how many batches  *)
(* the senders hold before and after it.                                   *)
VmRingStep(n, m) ==
  \/ /\ m = n /\ UNCHANGED <<vmRing, vmDropped, vmOffered, vmLate>>
  \/ /\ \/ m = n /\ vmOffered < VmMaxOffered /\ vmOffered' = vmOffered + 1
        \/ m = n - 1 /\ UNCHANGED vmOffered
     /\ Len(vmRing) < VmRingSize /\ UNCHANGED vmDropped
     /\ \E b \in 1 .. VmMaxOffered : vmRing' = Append(vmRing, b)
     /\ vmLate' = IF vmStop THEN vmLate + 1 ELSE vmLate
  \/ /\ m = n + 1 /\ vmOffered < VmMaxOffered /\ vmOffered' = vmOffered + 1
     /\ UNCHANGED <<vmRing, vmDropped, vmLate>>
  \/ /\ m = n /\ vmRing # <<>> /\ vmRing' = Tail(vmRing)
     /\ vmDropped' = vmDropped + 1 /\ UNCHANGED <<vmOffered, vmLate>>

(* ... and the number of held batches changes with it. *)
LEMMA VmSenderDoes ==
  ASSUME VmInv, VmPutting
  PROVE  /\ VmRingStep(Cardinality(VmHeld), Cardinality(VmHeld'))
         /\ Cardinality(VmHeld') \in {0, 1}
         /\ VmNewestKept' /\ UNCHANGED vmOther
<1>0. /\ VmSenderInv /\ VmWorkerInv /\ VmNewestKept
      /\ Cardinality(VmHeld) \in {0, 1}
      /\ ~vmMu => Cardinality(VmHeld) = 0
      /\ \A s \in VmSenders : vmAt[s] \in VmHolding => Cardinality(VmHeld) = 1
  BY VmInvParts, HeldIs
<1>1. PICK s \in VmSenders :
         VmOnResult(s) \/ VmSend(s) \/ VmDropOldest(s) \/ VmSendAgain(s)
  BY DEF VmPutting
<1>2. VmSenderInv'
  BY <1>0, VmMutex DEF VmWorkerInv
<1>3. /\ (\A t \in VmSenders : vmMine'[t] = None0) => Cardinality(VmHeld') = 0
      /\ \A t \in VmSenders : vmMine'[t] # None0 => Cardinality(VmHeld') = 1
  <2>1. \A t, u \in VmSenders : vmMine'[t] # None0 /\ vmMine'[u] # None0 => t = u
    BY <1>2 DEF VmSenderInv
  <2>2. VmHeld' = {t \in VmSenders : vmMine'[t] # None0}
    BY DEF VmHeld
  <2> QED BY <2>1, <2>2, HeldCount
<1>4. /\ \A t \in VmSenders : vmMine'[t] # None0 <=> vmAt'[t] \in VmHolding
      /\ \A t \in VmSenders : vmAt'[t] \in VmHolding => vmMu'
  BY <1>2 DEF VmSenderInv
<1>5. Cardinality(VmHeld') \in {0, 1}
  BY <1>3
<1>6. vmRing \in Seq(1 .. VmMaxOffered) /\ Len(vmRing) \in Nat /\ vmOffered \in Nat
      /\ VmMaxOffered \in Nat /\ VmRingSize \in Nat \ {0} /\ Len(vmRing) <= VmRingSize
  BY <1>0, VmBounds DEF VmWorkerInv
<1>7. vmAt \in [VmSenders -> {"idle", "lock", "full", "again"}]
      /\ vmMine \in [VmSenders -> 0 .. VmMaxOffered]
  BY <1>0 DEF VmSenderInv
<1>8. \A t, u \in VmSenders : vmAt[t] \in VmHolding /\ vmAt[u] \in VmHolding => t = u
  BY <1>0 DEF VmSenderInv
<1>a. CASE VmOnResult(s)
  <2>1. UNCHANGED <<vmOther, vmRing, vmMine, vmDropped, vmOffered, vmLate>>
        /\ vmAt[s] = "idle" /\ vmAt' = [vmAt EXCEPT ![s] = "lock"]
    BY <1>a DEF VmOnResult
  <2>2. VmHeld' = VmHeld
    BY <2>1 DEF VmHeld
  <2>3. VmNewestKept'
    BY <1>0, <1>7, <2>1 DEF VmNewestKept
  <2> QED BY <1>5, <2>1, <2>2, <2>3 DEF VmRingStep
<1>b. CASE VmSend(s)
  <2>0. /\ vmAt[s] = "lock" /\ ~vmMu /\ vmOffered < VmMaxOffered
        /\ vmOffered' = vmOffered + 1 /\ UNCHANGED vmOther
    BY <1>b DEF VmSend, VmMayLock
  <2>1. Cardinality(VmHeld) = 0 /\ \A t \in VmSenders : vmAt[t] \notin VmHolding
    BY <1>0, <2>0 DEF VmSenderInv
  <2>2. CASE Len(vmRing) < VmRingSize
    <3>1. VmPut(s, vmOffered + 1)
      BY <1>b, <2>2 DEF VmSend
    <3>2. /\ vmRing' = Append(vmRing, vmOffered + 1) /\ UNCHANGED vmDropped
          /\ vmLate' = IF vmStop THEN vmLate + 1 ELSE vmLate
          /\ vmAt' = [vmAt EXCEPT ![s] = "idle"] /\ vmMu' = FALSE
      BY <3>1 DEF VmPut
    <3>3. vmOffered + 1 \in 1 .. VmMaxOffered
      BY <1>6, <2>0
    <3>4. Cardinality(VmHeld') = 0
      BY <1>3, <1>4, <3>2
    <3>5. VmNewestKept'
      BY <1>4, <3>2 DEF VmNewestKept, VmHolding
    <3> QED BY <2>0, <2>1, <2>2, <3>2, <3>3, <3>4, <3>5 DEF VmRingStep
  <2>3. CASE ~ (Len(vmRing) < VmRingSize)
    <3>1. /\ vmAt' = [vmAt EXCEPT ![s] = "full"]
          /\ UNCHANGED <<vmRing, vmDropped, vmLate>>
      BY <1>b, <2>3 DEF VmSend
    <3>2. vmAt'[s] \in VmHolding
      BY <1>7, <3>1 DEF VmHolding
    <3>3. Cardinality(VmHeld') = 1
      BY <1>3, <1>4, <3>2
    <3>4. \A t \in VmSenders : vmAt'[t] # "again"
      BY <1>7, <2>1, <3>1 DEF VmHolding
    <3>5. VmNewestKept'
      BY <3>4 DEF VmNewestKept
    <3> QED BY <2>0, <2>1, <3>1, <3>3, <3>5 DEF VmRingStep
  <2> QED BY <2>2, <2>3
<1>c. CASE VmDropOldest(s)
  <2>1. /\ vmAt[s] = "full" /\ vmAt' = [vmAt EXCEPT ![s] = "again"]
        /\ UNCHANGED <<vmOther, vmMine, vmMu, vmOffered, vmLate>>
    BY <1>c DEF VmDropOldest
  <2>2. VmHeld' = VmHeld
    BY <2>1 DEF VmHeld
  <2>3. \A t \in VmSenders : vmAt'[t] = "again" => t = s
    BY <1>7, <1>8, <2>1 DEF VmHolding
  <2>4. CASE vmRing = <<>>
    <3>1. UNCHANGED <<vmRing, vmDropped>>
      BY <1>c, <2>4 DEF VmDropOldest
    <3>2. VmNewestKept'
      BY <1>6, <2>4, <3>1, EmptySeq DEF VmNewestKept
    <3> QED BY <1>5, <2>1, <2>2, <3>1, <3>2 DEF VmRingStep
  <2>5. CASE vmRing # <<>>
    <3>1. vmRing' = Tail(vmRing) /\ vmDropped' = vmDropped + 1
      BY <1>c, <2>5 DEF VmDropOldest
    <3>2. Len(vmRing') = Len(vmRing) - 1
      BY <1>6, <2>5, <3>1, HeadTailProperties
    <3>3. VmNewestKept'
      BY <1>6, <3>2 DEF VmNewestKept
    <3> QED BY <1>5, <2>1, <2>2, <2>5, <3>1, <3>3 DEF VmRingStep
  <2> QED BY <2>4, <2>5
<1>d. CASE VmSendAgain(s)
  <2>1. /\ vmAt[s] = "again" /\ vmAt' = [vmAt EXCEPT ![s] = "idle"] /\ vmMu' = FALSE
        /\ UNCHANGED <<vmOther, vmOffered>>
    BY <1>d DEF VmSendAgain, VmPut
  <2>2. Len(vmRing) < VmRingSize
    BY <1>0, <2>1 DEF VmNewestKept
  <2>3. VmPut(s, vmMine[s])
    BY <1>d, <2>2 DEF VmSendAgain
  <2>4. /\ vmRing' = Append(vmRing, vmMine[s]) /\ UNCHANGED vmDropped
        /\ vmLate' = IF vmStop THEN vmLate + 1 ELSE vmLate
    BY <2>3 DEF VmPut
  <2>5. Cardinality(VmHeld) = 1 /\ Cardinality(VmHeld') = 0
    BY <1>0, <1>3, <1>4, <2>1 DEF VmHolding
  <2>6. vmMine[s] \in 1 .. VmMaxOffered
    <3>1. vmMine[s] # None0
      BY <1>0, <2>1 DEF VmSenderInv, VmHolding
    <3> QED BY <1>6, <1>7, <3>1 DEF None0
  <2>7. VmNewestKept'
    BY <1>4, <2>1 DEF VmNewestKept, VmHolding
  <2> QED BY <2>1, <2>2, <2>4, <2>5, <2>6, <2>7 DEF VmRingStep
<1> QED BY <1>1, <1>a, <1>b, <1>c, <1>d

(* A step of a sender keeps the invariant: the ring stays within its size, *)
(* and a batch is on the ring, in one sender's hand or counted as dropped. *)
LEMMA VmSenderStep ==
  ASSUME VmInv, VmPutting
  PROVE  VmInv'
<1>0. /\ VmSenderInv /\ VmWorkerInv /\ VmAccounted /\ vmConf \in VmConfs
      /\ Cardinality(VmHeld) \in {0, 1}
  BY VmInvParts, HeldIs
<1>1. /\ VmRingStep(Cardinality(VmHeld), Cardinality(VmHeld'))
      /\ Cardinality(VmHeld') \in {0, 1} /\ VmNewestKept' /\ UNCHANGED vmOther
  BY VmSenderDoes
<1>2. VmSenderInv'
  BY <1>0, VmMutex DEF VmWorkerInv
<1>3. PICK n \in {0, 1}, m \in {0, 1} :
         n = Cardinality(VmHeld) /\ m = Cardinality(VmHeld') /\ VmRingStep(n, m)
  BY <1>0, <1>1
<1>4. /\ vmRing \in Seq(1 .. VmMaxOffered) /\ Len(vmRing) \in Nat
      /\ vmRing # <<>> => /\ Tail(vmRing) \in Seq(1 .. VmMaxOffered)
                          /\ Len(Tail(vmRing)) = Len(vmRing) - 1
                          /\ Len(vmRing) # 0
      /\ \A b \in 1 .. VmMaxOffered : /\ Append(vmRing, b) \in Seq(1 .. VmMaxOffered)
                                      /\ Len(Append(vmRing, b)) = Len(vmRing) + 1
  <2>1. vmRing \in Seq(1 .. VmMaxOffered)
    BY <1>0 DEF VmWorkerInv
  <2> QED BY <2>1, HeadTailProperties, EmptySeq, AppendProperties
<1>5. /\ vmPushed \in Nat /\ vmDropped \in Nat /\ vmFailed \in Nat /\ vmOffered \in Nat
      /\ vmLate \in Nat /\ vmOffered <= VmMaxOffered /\ VmMaxOffered \in Nat
      /\ Len(vmRing) <= VmRingSize /\ VmRingSize \in Nat
      /\ vmPc = "done" => vmStop /\ Len(vmRing) <= vmLate
  BY <1>0, VmBounds DEF VmWorkerInv, VmClosedIsDrained
<1>6. /\ vmPushed' = vmPushed /\ vmFailed' = vmFailed /\ vmCur' = vmCur /\ vmPc' = vmPc
      /\ vmStop' = vmStop /\ vmCancelled' = vmCancelled /\ vmConf' = vmConf
      /\ vmDraining' = vmDraining /\ vmExpired' = vmExpired
  BY <1>1 DEF vmOther, vmWorker, vmClosing
<1>7. /\ vmRing' \in Seq(1 .. VmMaxOffered) /\ Len(vmRing') <= VmRingSize
      /\ vmOffered' \in Nat /\ vmOffered' <= VmMaxOffered /\ vmDropped' \in Nat
      /\ vmLate' \in Nat
      /\ vmPc = "done" => Len(vmRing') <= vmLate'
      /\ vmOffered' - Len(vmRing') - m
            = (vmOffered - Len(vmRing) - n) + (vmDropped' - vmDropped)
  <2>1. CASE m = n /\ UNCHANGED <<vmRing, vmDropped, vmOffered, vmLate>>
    BY <1>4, <1>5, <2>1
  <2>2. CASE /\ \/ m = n /\ vmOffered < VmMaxOffered /\ vmOffered' = vmOffered + 1
                \/ m = n - 1 /\ UNCHANGED vmOffered
             /\ Len(vmRing) < VmRingSize /\ UNCHANGED vmDropped
             /\ \E b \in 1 .. VmMaxOffered : vmRing' = Append(vmRing, b)
             /\ vmLate' = IF vmStop THEN vmLate + 1 ELSE vmLate
    <3>1. vmRing' \in Seq(1 .. VmMaxOffered) /\ Len(vmRing') = Len(vmRing) + 1
      BY <1>4, <2>2
    <3>2. n \in Int /\ m \in Int
      BY <1>3
    <3>3. vmLate' \in Nat /\ vmLate' >= vmLate /\ (vmStop => vmLate' = vmLate + 1)
      BY <1>5, <2>2
    <3>4. vmPc = "done" => Len(vmRing') <= vmLate'
      BY <1>4, <1>5, <3>1, <3>3
    <3>5. vmOffered' \in Nat /\ vmOffered' <= VmMaxOffered
          /\ vmOffered' - m = (vmOffered - n) + 1
      BY <1>5, <2>2, <3>2
    <3>6. vmDropped' = vmDropped /\ Len(vmRing') <= VmRingSize
      BY <1>4, <1>5, <2>2, <3>1
    <3>7. vmOffered' - Len(vmRing') - m = vmOffered - Len(vmRing) - n
      <4>1. (vmOffered' = vmOffered /\ m = n - 1) \/ (vmOffered' = vmOffered + 1 /\ m = n)
        BY <2>2
      <4>2. Len(vmRing') = Len(vmRing) + 1
        BY <3>1
      <4> QED BY <1>4, <1>5, <3>2, <4>1, <4>2
    <3> QED BY <3>1, <3>3, <3>4, <3>5, <3>6, <3>7, <1>5
  <2>3. CASE /\ m = n + 1 /\ vmOffered < VmMaxOffered /\ vmOffered' = vmOffered + 1
             /\ UNCHANGED <<vmRing, vmDropped, vmLate>>
    BY <1>4, <1>5, <2>3
  <2>4. CASE /\ m = n /\ vmRing # <<>> /\ vmRing' = Tail(vmRing)
             /\ vmDropped' = vmDropped + 1 /\ UNCHANGED <<vmOffered, vmLate>>
    <3>1. vmRing' \in Seq(1 .. VmMaxOffered) /\ Len(vmRing') = Len(vmRing) - 1
      BY <1>4, <2>4
    <3> QED BY <1>4, <1>5, <2>4, <3>1
  <2> QED BY <1>3, <2>1, <2>2, <2>3, <2>4 DEF VmRingStep
<1>8. VmWorkerInv'
  <2>1. VmFlushing' <=> VmFlushing
    BY <1>6 DEF VmFlushing
  <2> QED BY <1>0, <1>6, <1>7, <2>1 DEF VmWorkerInv, VmClosedIsDrained
<1>9. VmAccounted'
  <2> DEFINE h == IF vmCur = None0 THEN 0 ELSE 1
  <2>1. /\ vmPushed + vmDropped <= vmOffered - Len(vmRing) - (h + n)
        /\ vmOffered - Len(vmRing) - (h + n) <= vmPushed + vmDropped + vmFailed
    BY <1>0, <1>3 DEF VmAccounted, VmInHand
  <2>2. SUFFICES /\ vmPushed + vmDropped' <= vmOffered' - Len(vmRing') - (h + m)
                 /\ vmOffered' - Len(vmRing') - (h + m) <= vmPushed + vmDropped' + vmFailed
    BY <1>3, <1>6 DEF VmAccounted, VmInHand
  <2>3. h \in Int /\ n \in Int /\ m \in Int
    BY <1>3
  <2>4. /\ Len(vmRing) \in Nat /\ Len(vmRing') \in Nat /\ vmOffered \in Nat
        /\ vmOffered' \in Nat /\ vmPushed \in Nat /\ vmFailed \in Nat
        /\ vmDropped \in Nat /\ vmDropped' \in Nat
        /\ vmOffered' - Len(vmRing') - m
              = (vmOffered - Len(vmRing) - n) + (vmDropped' - vmDropped)
    BY <1>4, <1>5, <1>7, LenProperties
  <2> DEFINE g == vmOffered - Len(vmRing) - n
             k == vmOffered' - Len(vmRing') - m
  <2>5. g \in Int /\ k \in Int /\ k = g + (vmDropped' - vmDropped)
    BY <2>3, <2>4
  <2>6. /\ vmOffered - Len(vmRing) - (h + n) = g - h
        /\ vmOffered' - Len(vmRing') - (h + m) = k - h
    BY <2>3, <2>4
  <2>7. vmPushed + vmDropped <= g - h /\ g - h <= vmPushed + vmDropped + vmFailed
    BY <2>1, <2>6
  <2>8. vmPushed \in Int /\ vmFailed \in Int /\ vmDropped \in Int /\ vmDropped' \in Int
    BY <2>4
  <2> HIDE DEF h, g, k
  <2>9. PICK e \in Int, a \in Int, b \in Int :
          e = vmDropped' /\ a = g - h /\ b = k - h
    <3>1. g - h \in Int /\ k - h \in Int
      BY <2>3, <2>5
    <3> QED BY <2>8, <3>1
  <2>10. b = a + (e - vmDropped)
    <3>1. k = g + (e - vmDropped)
      BY <2>5, <2>9
    <3>2. PICK x \in Int, y \in Int, z \in Int : x = g /\ y = h /\ z = k
      BY <2>3, <2>5
    <3>3. z = x + (e - vmDropped) /\ a = x - y /\ b = z - y
      BY <2>9, <3>1, <3>2
    <3> QED BY <2>8, <3>3
  <2>11. vmPushed + vmDropped <= a /\ a <= vmPushed + vmDropped + vmFailed
    BY <2>7, <2>9
  <2>12. vmPushed + e <= b /\ b <= vmPushed + e + vmFailed
    BY <2>8, <2>10, <2>11
  <2> QED BY <2>6, <2>9, <2>12
<1>10. VmInv' <=> /\ vmConf' \in VmConfs /\ VmSenderInv' /\ VmWorkerInv'
                  /\ VmAccounted' /\ VmNewestKept'
  BY DEF VmInv, VmSafe, VmTypeOK, VmSenderInv, VmWorkerInv
<1> QED BY <1>0, <1>1, <1>2, <1>6, <1>8, <1>9, <1>10

(* Every other step leaves the ring, the batches and the counters alone. *)
LEMMA VmFrame ==
  ASSUME VmInv, UNCHANGED <<vmRing, vmSender, vmPc, vmCur, vmDraining, vmCounts,
                            vmOffered, vmLate>>,
         vmConf' \in VmConfs, {vmStop', vmCancelled', vmExpired'} \subseteq BOOLEAN,
         vmStop => vmStop', vmCancelled' => vmCancelled \/ vmStop'
  PROVE  VmInv'
<1>0. vmConf \in VmConfs /\ VmSenderInv /\ VmWorkerInv /\ VmAccounted /\ VmNewestKept
  BY VmInvParts
<1>1. /\ vmRing' = vmRing /\ vmAt' = vmAt /\ vmMine' = vmMine /\ vmMu' = vmMu
      /\ vmPc' = vmPc /\ vmCur' = vmCur /\ vmDraining' = vmDraining
      /\ vmPushed' = vmPushed /\ vmFailed' = vmFailed /\ vmDropped' = vmDropped
      /\ vmOffered' = vmOffered /\ vmLate' = vmLate
  BY DEF vmSender, vmCounts
<1>2. VmSenderInv'
  BY <1>0, <1>1 DEF VmSenderInv
<1>3. VmWorkerInv'
  BY <1>0, <1>1 DEF VmWorkerInv, VmFlushing, VmClosedIsDrained
<1>4. VmHeld' = VmHeld
  BY <1>1 DEF VmHeld
<1>5. VmAccounted' /\ VmNewestKept'
  BY <1>0, <1>1, <1>4 DEF VmAccounted, VmInHand, VmNewestKept
<1>6. VmInv' <=> /\ vmConf' \in VmConfs /\ VmSenderInv' /\ VmWorkerInv'
                 /\ VmAccounted' /\ VmNewestKept'
  BY DEF VmInv, VmSafe, VmTypeOK, VmSenderInv, VmWorkerInv
<1> QED BY <1>2, <1>3, <1>5, <1>6

(* The writer starts with nothing queued, held or counted. *)
LEMMA VmStarts == VmInit => VmInv
<1> SUFFICES ASSUME VmInit PROVE VmInv
  OBVIOUS
<1>0. VmMaxOffered \in Nat /\ VmRingSize \in Nat /\ VmFailedCap \in Nat
  BY VmBounds
<1>1. vmConf \in VmConfs /\ VmSenderInv
  <2>1. \A s \in VmSenders : vmAt[s] = "idle" /\ vmMine[s] = None0
    BY DEF VmInit
  <2>2. /\ vmAt \in [VmSenders -> {"idle", "lock", "full", "again"}]
        /\ vmMine \in [VmSenders -> 0 .. VmMaxOffered]
    BY <1>0 DEF VmInit, None0
  <2> QED BY <2>1, <2>2 DEF VmInit, VmConfs, VmSenderInv, VmHolding
<1>2. vmRing \in Seq(1 .. VmMaxOffered) /\ Len(vmRing) = 0
  BY EmptySeq DEF VmInit
<1>3. VmWorkerInv
  <2>1. vmPc = "select" /\ vmCur = 0 /\ vmStop = FALSE /\ vmCancelled = FALSE
        /\ vmExpired = FALSE /\ vmDraining = FALSE
    BY DEF VmInit, None0
  <2>2. {vmPushed, vmFailed, vmDropped, vmOffered, vmLate} \subseteq Nat
        /\ vmOffered = 0 /\ vmFailed = 0
    BY DEF VmInit
  <2>3. vmPc \in VmLabels /\ vmCur \in 0 .. VmMaxOffered
        /\ ((vmCur = None0) <=> vmPc \in {"select", "drain", "done"})
    BY <1>0, <2>1 DEF VmLabels, None0
  <2>4. (vmCancelled \/ VmFlushing \/ vmPc = "done") => vmStop
    BY <2>1 DEF VmFlushing
  <2>5. VmClosedIsDrained
    BY <2>1 DEF VmClosedIsDrained
  <2>6. Len(vmRing) <= VmRingSize /\ vmOffered <= VmMaxOffered /\ vmFailed <= VmFailedCap
    BY <1>0, <1>2, <2>2
  <2> QED BY <1>2, <2>1, <2>2, <2>3, <2>4, <2>5, <2>6 DEF VmWorkerInv
<1>4. VmHeld = {}
  BY DEF VmInit, VmHeld
<1>5. VmAccounted /\ VmNewestKept
  BY <1>2, <1>4, FS_EmptySet DEF VmInit, VmAccounted, VmInHand, VmNewestKept
<1> QED BY <1>1, <1>3, <1>5, VmInvParts

(* However senders, retries, changes of the settings and Close interleave, *)
(* a batch of results is pushed, counted or still held, the newest one is  *)
(* never the dropped one, and Close leaves nothing behind that was queued  *)
(* before it (writer.go, OnResult, run and drainAndFlush).                 *)
THEOREM NoBatchLost == VmSpec => []VmSafe
<1>1. VmInv /\ [VmNext]_vmVars => VmInv'
  <2> SUFFICES ASSUME VmInv, [VmNext]_vmVars PROVE VmInv'
    OBVIOUS
  <2> USE VmInvParts
  <2>0. vmConf \in VmConfs /\ VmWorkerInv
    OBVIOUS
  <2>1. CASE \E c \in VmConfs : VmConfigure(c)
    BY <2>0, <2>1, VmFrame DEF VmConfigure, VmWorkerInv, vmWorker, vmClosing
  <2>2. CASE VmPutting
    BY <2>2, VmSenderStep
  <2>3. CASE VmClose
    BY <2>0, <2>3, VmFrame DEF VmClose, vmStill, VmWorkerInv
  <2>4. CASE VmCancel
    BY <2>0, <2>4, VmFrame DEF VmCancel, vmStill, VmWorkerInv
  <2>5. CASE VmExpire
    BY <2>0, <2>5, VmFrame DEF VmExpire, vmStill, VmWorkerInv, vmClosing
  <2>6. CASE VmRun
    BY <2>6, VmWorkerStep
  <2>7. CASE UNCHANGED vmVars
    BY <2>0, <2>7, VmFrame DEF vmVars, VmWorkerInv, vmWorker, vmClosing
  <2> QED BY <2>1, <2>2, <2>3, <2>4, <2>5, <2>6, <2>7 DEF VmNext, VmPutting
<1>2. VmInv => VmSafe
  BY DEF VmInv
<1> QED BY <1>1, <1>2, VmStarts, PTL DEF VmSpec

(***************************************************************************)
(* VlPush: the queue, the worker's buffer and what was shipped.            *)
(***************************************************************************)

(* Sequences of line numbers: each in its order, one before the other, and *)
(* none beyond n. *)
Rising(s) == \A i, j \in 1 .. Len(s) : i < j => s[i] < s[j]
Before(s, t) == \A i \in 1 .. Len(s), j \in 1 .. Len(t) : s[i] < t[j]
UpTo(s, n) == \A i \in 1 .. Len(s) : s[i] <= n

(* The invariant with what makes it inductive: every line shipped is older *)
(* than every line of the buffer, and those than every line of the queue;  *)
(* a buffer that may still grow is not full; and in the final flush only   *)
(* lines queued after Close are left.                                      *)
VlOrder ==
  /\ vlShipped \in Seq(Nat) /\ vlBuf \in Seq(Nat) /\ vlLines \in Seq(Nat)
  /\ Rising(vlShipped) /\ Rising(vlBuf) /\ Rising(vlLines)
  /\ Before(vlShipped, vlBuf) /\ Before(vlShipped, vlLines) /\ Before(vlBuf, vlLines)
  /\ UpTo(vlShipped, vlOffered) /\ UpTo(vlBuf, vlOffered) /\ UpTo(vlLines, vlOffered)

VlWorks ==
  /\ vlPc \in {"top", "select"} => ~vlFinal /\ Len(vlBuf) < VlBatchSize
  /\ vlFinal => vlStop
  /\ vlFinal /\ vlPc \in {"flush", "post", "done"} => Len(vlLines) <= vlLate

VlInv == VlTypeOK /\ VlAccounted /\ VlOrder /\ VlWorks

(* Joining two sequences that follow each other. *)
LEMMA JoinRising ==
  ASSUME NEW s \in Seq(Nat), NEW t \in Seq(Nat), NEW u \in Seq(Nat), NEW n
  PROVE  /\ Rising(s) /\ Rising(t) /\ Before(s, t) => Rising(s \o t)
         /\ Before(s, u) /\ Before(t, u) => Before(s \o t, u)
         /\ Before(u, s) /\ Before(u, t) => Before(u, s \o t)
         /\ UpTo(s, n) /\ UpTo(t, n) => UpTo(s \o t, n)
<1>1. /\ s \o t \in Seq(Nat) /\ Len(s \o t) = Len(s) + Len(t)
      /\ Len(s) \in Nat /\ Len(t) \in Nat
      /\ \A i \in 1 .. Len(s) : s[i] \in Nat
      /\ \A i \in 1 .. Len(t) : t[i] \in Nat
  BY ConcatProperties
<1>2. \A i \in 1 .. Len(s) + Len(t) :
        \/ i \in 1 .. Len(s) /\ (s \o t)[i] = s[i]
        \/ i - Len(s) \in 1 .. Len(t) /\ (s \o t)[i] = t[i - Len(s)]
  BY <1>1, ConcatProperties
<1>3. ASSUME Rising(s), Rising(t), Before(s, t) PROVE Rising(s \o t)
  <2>1. SUFFICES ASSUME NEW i \in 1 .. Len(s) + Len(t), NEW j \in 1 .. Len(s) + Len(t), i < j
                 PROVE  (s \o t)[i] < (s \o t)[j]
    BY <1>1 DEF Rising
  <2>2. CASE i \in 1 .. Len(s) /\ j \in 1 .. Len(s)
    BY <1>1, <1>2, <1>3, <2>1, <2>2 DEF Rising
  <2>3. CASE i \in 1 .. Len(s) /\ j \notin 1 .. Len(s)
    BY <1>1, <1>2, <1>3, <2>1, <2>3 DEF Before
  <2>4. CASE i \notin 1 .. Len(s)
    <3>1. j \notin 1 .. Len(s)
      BY <1>1, <2>1, <2>4
    <3>2. /\ i - Len(s) \in 1 .. Len(t) /\ (s \o t)[i] = t[i - Len(s)]
          /\ j - Len(s) \in 1 .. Len(t) /\ (s \o t)[j] = t[j - Len(s)]
          /\ i - Len(s) < j - Len(s)
      BY <1>1, <1>2, <2>1, <2>4, <3>1
    <3> QED BY <1>3, <3>2 DEF Rising
  <2> QED BY <2>2, <2>3, <2>4
<1>4. Before(s, u) /\ Before(t, u) => Before(s \o t, u)
  BY <1>1, <1>2 DEF Before
<1>5. Before(u, s) /\ Before(u, t) => Before(u, s \o t)
  BY <1>1, <1>2 DEF Before
<1>6. UpTo(s, n) /\ UpTo(t, n) => UpTo(s \o t, n)
  BY <1>1, <1>2 DEF UpTo
<1> QED BY <1>3, <1>4, <1>5, <1>6

(* Appending one line that is newer than all before it. *)
LEMMA AddRising ==
  ASSUME NEW s \in Seq(Nat), NEW t \in Seq(Nat), NEW u \in Seq(Nat), NEW x \in Nat
  PROVE  /\ Append(s, x) \in Seq(Nat) /\ Len(Append(s, x)) = Len(s) + 1
         /\ Rising(s) /\ (\A i \in 1 .. Len(s) : s[i] < x) => Rising(Append(s, x))
         /\ Before(u, s) /\ (\A i \in 1 .. Len(u) : u[i] < x) => Before(u, Append(s, x))
         /\ Before(s, t) /\ (\A i \in 1 .. Len(t) : x < t[i]) => Before(Append(s, x), t)
         /\ \A n \in Nat : UpTo(s, n) /\ x <= n => UpTo(Append(s, x), n)
<1>1. /\ Append(s, x) \in Seq(Nat) /\ Len(Append(s, x)) = Len(s) + 1 /\ Len(s) \in Nat
      /\ \A i \in 1 .. Len(s) : Append(s, x)[i] = s[i]
      /\ Append(s, x)[Len(s) + 1] = x
  BY AppendProperties
<1>2. \A i \in 1 .. Len(s) + 1 : i \in 1 .. Len(s) \/ i = Len(s) + 1
  BY <1>1
<1>3. Rising(s) /\ (\A i \in 1 .. Len(s) : s[i] < x) => Rising(Append(s, x))
  BY <1>1, <1>2 DEF Rising
<1>4. Before(u, s) /\ (\A i \in 1 .. Len(u) : u[i] < x) => Before(u, Append(s, x))
  BY <1>1, <1>2 DEF Before
<1>5. Before(s, t) /\ (\A i \in 1 .. Len(t) : x < t[i]) => Before(Append(s, x), t)
  BY <1>1, <1>2 DEF Before
<1>6. \A n \in Nat : UpTo(s, n) /\ x <= n => UpTo(Append(s, x), n)
  BY <1>1, <1>2 DEF UpTo
<1> QED BY <1>1, <1>3, <1>4, <1>5, <1>6

(* Taking the oldest line of a queue. *)
LEMMA TakeRising ==
  ASSUME NEW s \in Seq(Nat), NEW u \in Seq(Nat), s # <<>>
  PROVE  /\ Tail(s) \in Seq(Nat) /\ Len(Tail(s)) = Len(s) - 1 /\ Head(s) \in Nat
         /\ Len(s) \in Nat \ {0}
         /\ Rising(s) => Rising(Tail(s)) /\ \A i \in 1 .. Len(Tail(s)) : Head(s) < Tail(s)[i]
         /\ Before(u, s) => Before(u, Tail(s)) /\ \A i \in 1 .. Len(u) : u[i] < Head(s)
         /\ \A n \in Nat : UpTo(s, n) => UpTo(Tail(s), n) /\ Head(s) <= n
<1>1. /\ Tail(s) \in Seq(Nat) /\ Len(Tail(s)) = Len(s) - 1 /\ Len(s) \in Nat \ {0}
      /\ Head(s) \in Nat /\ Head(s) = s[1]
      /\ \A i \in 1 .. Len(s) - 1 : Tail(s)[i] = s[i + 1]
  BY HeadTailProperties, EmptySeq
<1>2. 1 \in 1 .. Len(s) /\ \A i \in 1 .. Len(s) - 1 : i + 1 \in 1 .. Len(s) /\ 1 < i + 1
  BY <1>1
<1>3. Rising(s) => Rising(Tail(s)) /\ \A i \in 1 .. Len(Tail(s)) : Head(s) < Tail(s)[i]
  BY <1>1, <1>2 DEF Rising
<1>4. Before(u, s) => Before(u, Tail(s)) /\ \A i \in 1 .. Len(u) : u[i] < Head(s)
  BY <1>1, <1>2 DEF Before
<1>5. \A n \in Nat : UpTo(s, n) => UpTo(Tail(s), n) /\ Head(s) <= n
  BY <1>1, <1>2 DEF UpTo
<1> QED BY <1>1, <1>3, <1>4, <1>5

(* The order promised by VlSafe follows from the stronger one. *)
LEMMA VlOrderMeans ==
  ASSUME VlOrder
  PROVE  VlInOrder
<1>1. /\ vlShipped \in Seq(Nat) /\ vlBuf \in Seq(Nat) /\ vlLines \in Seq(Nat)
      /\ Rising(vlShipped) /\ Rising(vlBuf) /\ Rising(vlLines)
      /\ Before(vlShipped, vlBuf) /\ Before(vlShipped, vlLines) /\ Before(vlBuf, vlLines)
  BY DEF VlOrder
<1>2. /\ vlShipped \o vlBuf \in Seq(Nat) /\ Rising(vlShipped \o vlBuf)
      /\ Before(vlShipped \o vlBuf, vlLines)
  BY <1>1, JoinRising, ConcatProperties
<1> DEFINE all == (vlShipped \o vlBuf) \o vlLines
<1>3. all \in Seq(Nat) /\ Rising(all)
  BY <1>1, <1>2, JoinRising, ConcatProperties
<1>4. Len(all) \in Nat
  BY <1>3, LenProperties
<1> HIDE DEF all
<1>5. \A i \in 1 .. Len(all) - 1 : all[i] < all[i + 1]
  BY <1>3, <1>4 DEF Rising
<1> QED BY <1>5 DEF VlInOrder, all

(* A line moves from the head of the queue to the end of the buffer. *)
LEMMA VlMove ==
  ASSUME VlOrder, vlLines # <<>>, UNCHANGED <<vlShipped, vlOffered>>,
         vlBuf' = Append(vlBuf, Head(vlLines)), vlLines' = Tail(vlLines), vlOffered \in Nat
  PROVE  /\ VlOrder'
         /\ Len(vlBuf') = Len(vlBuf) + 1 /\ Len(vlLines') = Len(vlLines) - 1
         /\ Len(vlLines) \in Nat \ {0}
<1>1. /\ vlShipped \in Seq(Nat) /\ vlBuf \in Seq(Nat) /\ vlLines \in Seq(Nat)
      /\ Rising(vlShipped) /\ Rising(vlBuf) /\ Rising(vlLines)
      /\ Before(vlShipped, vlBuf) /\ Before(vlShipped, vlLines) /\ Before(vlBuf, vlLines)
      /\ UpTo(vlShipped, vlOffered) /\ UpTo(vlBuf, vlOffered) /\ UpTo(vlLines, vlOffered)
  BY DEF VlOrder
<1>2. PICK x \in Nat, r \in Seq(Nat) : x = Head(vlLines) /\ r = Tail(vlLines)
  BY <1>1, TakeRising
<1>3. /\ Len(r) = Len(vlLines) - 1 /\ Len(vlLines) \in Nat \ {0}
      /\ Rising(r) /\ (\A i \in 1 .. Len(r) : x < r[i])
  BY <1>1, <1>2, TakeRising
<1>4. Before(vlBuf, r) /\ \A i \in 1 .. Len(vlBuf) : vlBuf[i] < x
  BY <1>1, <1>2, TakeRising
<1>5. Before(vlShipped, r) /\ \A i \in 1 .. Len(vlShipped) : vlShipped[i] < x
  BY <1>1, <1>2, TakeRising
<1>6. UpTo(r, vlOffered) /\ x <= vlOffered
  BY <1>1, <1>2, TakeRising
<1>7. PICK b \in Seq(Nat) : b = Append(vlBuf, x)
  BY <1>1, <1>2, AddRising
<1>8. Len(b) = Len(vlBuf) + 1 /\ Rising(b) /\ Before(b, r)
  BY <1>1, <1>3, <1>4, <1>7, AddRising
<1>9. Before(vlShipped, b) /\ UpTo(b, vlOffered)
  BY <1>1, <1>5, <1>6, <1>7, AddRising
<1>10. vlBuf' = b /\ vlLines' = r
  BY <1>2, <1>7
<1> QED BY <1>1, <1>3, <1>5, <1>6, <1>8, <1>9, <1>10 DEF VlOrder

(* The empty buffer, and a buffer that was shipped. *)
LEMMA VlEmptied ==
  ASSUME VlOrder, UNCHANGED <<vlLines, vlOffered>>, vlBuf' = <<>>,
         vlShipped' = vlShipped \/ vlShipped' = vlShipped \o vlBuf
  PROVE  /\ VlOrder' /\ Len(vlBuf') = 0
         /\ vlShipped' = vlShipped \o vlBuf => Len(vlShipped') = Len(vlShipped) + Len(vlBuf)
<1>1. /\ vlShipped \in Seq(Nat) /\ vlBuf \in Seq(Nat) /\ vlLines \in Seq(Nat)
      /\ Rising(vlShipped) /\ Rising(vlBuf) /\ Rising(vlLines)
      /\ Before(vlShipped, vlBuf) /\ Before(vlShipped, vlLines) /\ Before(vlBuf, vlLines)
      /\ UpTo(vlShipped, vlOffered) /\ UpTo(vlBuf, vlOffered) /\ UpTo(vlLines, vlOffered)
  BY DEF VlOrder
<1>2. /\ vlShipped' \in Seq(Nat) /\ Rising(vlShipped') /\ Before(vlShipped', vlLines)
      /\ UpTo(vlShipped', vlOffered)
      /\ vlShipped' = vlShipped \o vlBuf => Len(vlShipped') = Len(vlShipped) + Len(vlBuf)
  BY <1>1, JoinRising, ConcatProperties
<1>3. vlBuf' \in Seq(Nat) /\ Len(vlBuf') = 0
  BY EmptySeq
<1>4. /\ Rising(vlBuf') /\ Before(vlShipped', vlBuf') /\ Before(vlBuf', vlLines)
      /\ UpTo(vlBuf', vlOffered)
  BY <1>3 DEF Rising, Before, UpTo
<1> QED BY <1>1, <1>2, <1>3, <1>4 DEF VlOrder

(* A new line is queued behind the others, or, when the queue is full, not *)
(* at all.                                                                 *)
LEMMA VlQueued ==
  ASSUME VlOrder, vlOffered \in Nat, UNCHANGED <<vlShipped, vlBuf>>,
         vlOffered' = vlOffered + 1,
         vlLines' = vlLines \/ vlLines' = Append(vlLines, vlOffered + 1)
  PROVE  /\ VlOrder'
         /\ vlLines' # vlLines => Len(vlLines') = Len(vlLines) + 1
<1>1. /\ vlShipped \in Seq(Nat) /\ vlBuf \in Seq(Nat) /\ vlLines \in Seq(Nat)
      /\ Rising(vlShipped) /\ Rising(vlBuf) /\ Rising(vlLines)
      /\ Before(vlShipped, vlBuf) /\ Before(vlShipped, vlLines) /\ Before(vlBuf, vlLines)
      /\ UpTo(vlShipped, vlOffered) /\ UpTo(vlBuf, vlOffered) /\ UpTo(vlLines, vlOffered)
  BY DEF VlOrder
<1>2. PICK x \in Nat : x = vlOffered + 1
  OBVIOUS
<1>3. \A s \in Seq(Nat) : UpTo(s, vlOffered)
        => UpTo(s, x) /\ \A i \in 1 .. Len(s) : s[i] < x
  <2>1. SUFFICES ASSUME NEW s \in Seq(Nat), UpTo(s, vlOffered)
                 PROVE  UpTo(s, x) /\ \A i \in 1 .. Len(s) : s[i] < x
    OBVIOUS
  <2>2. \A i \in 1 .. Len(s) : s[i] \in Nat /\ s[i] <= vlOffered
    BY <2>1 DEF UpTo
  <2> QED BY <1>2, <2>2 DEF UpTo
<1>4. UpTo(vlShipped, x) /\ UpTo(vlBuf, x) /\ UpTo(vlLines, x)
  BY <1>1, <1>3
<1>5. /\ \A i \in 1 .. Len(vlShipped) : vlShipped[i] < x
      /\ \A i \in 1 .. Len(vlBuf) : vlBuf[i] < x
      /\ \A i \in 1 .. Len(vlLines) : vlLines[i] < x
  BY <1>1, <1>3
<1>6. PICK l \in Seq(Nat) : l = Append(vlLines, x)
  BY <1>1, AddRising
<1>7. Len(l) = Len(vlLines) + 1 /\ Rising(l) /\ UpTo(l, x)
  BY <1>1, <1>4, <1>5, <1>6, AddRising
<1>8. Before(vlShipped, l) /\ Before(vlBuf, l)
  BY <1>1, <1>5, <1>6, AddRising
<1>9. vlLines' = vlLines \/ vlLines' = l
  BY <1>2, <1>6
<1> QED BY <1>1, <1>2, <1>4, <1>7, <1>8, <1>9 DEF VlOrder

(* The loggers and the worker keep the invariant. *)
LEMMA VlHandleStep ==
  ASSUME VlInv, NEW l \in VlLoggers, VlHandle(l) \/ VlEnqueue(l)
  PROVE  VlInv'
<1>0. VlTypeOK /\ VlAccounted /\ VlOrder /\ VlWorks
  BY DEF VlInv
<1>1. /\ Len(vlLines) \in Nat /\ Len(vlBuf) \in Nat /\ Len(vlShipped) \in Nat
      /\ vlDropped \in Nat /\ vlDiscarded \in Nat /\ vlOffered \in Nat /\ vlLate \in Nat
      /\ VlQueueSize \in Nat
  BY <1>0, VlBounds, LenProperties DEF VlTypeOK, VlOrder
<1>2. CASE VlHandle(l)
  <2>1. /\ UNCHANGED <<vlConf, vlLines, vlBuf, vlPc, vlFinal, vlStop, vlDropped,
                       vlOffered, vlLate, vlShipped, vlDiscarded>>
        /\ vlAt' = [vlAt EXCEPT ![l] = "send"]
    BY <1>2 DEF VlHandle, vlWorker, vlHistory
  <2> QED BY <1>0, <2>1 DEF VlInv, VlTypeOK, VlAccounted, VlOrder, VlWorks
<1>3. CASE VlEnqueue(l)
  <2>1. /\ UNCHANGED <<vlConf, vlBuf, vlPc, vlFinal, vlStop, vlShipped, vlDiscarded>>
        /\ vlAt' = [vlAt EXCEPT ![l] = "idle"] /\ vlOffered' = vlOffered + 1
    BY <1>3 DEF VlEnqueue, vlWorker
  <2>2. CASE Len(vlLines) < VlQueueSize
    <3>1. /\ vlLines' = Append(vlLines, vlOffered + 1) /\ vlDropped' = vlDropped
          /\ vlLate' = IF vlStop THEN vlLate + 1 ELSE vlLate
      BY <1>3, <2>2 DEF VlEnqueue
    <3>2. VlOrder' /\ Len(vlLines') = Len(vlLines) + 1
      <4>1. Len(Append(vlLines, vlOffered + 1)) = Len(vlLines) + 1
        BY <1>0, <1>1, AddRising DEF VlOrder
      <4> QED BY <1>0, <1>1, <2>1, <3>1, <4>1, VlQueued
    <3>3. vlLate' \in Nat /\ Len(vlLines') <= VlQueueSize
      BY <1>1, <2>2, <3>1, <3>2
    <3>4. VlAccounted'
      BY <1>0, <1>1, <2>1, <3>1, <3>2 DEF VlAccounted
    <3>5. vlFinal' /\ vlPc' \in {"flush", "post", "done"} => Len(vlLines') <= vlLate'
      <4>1. vlFinal /\ vlPc \in {"flush", "post", "done"} => Len(vlLines) <= vlLate /\ vlStop
        BY <1>0 DEF VlWorks
      <4> QED BY <1>1, <2>1, <3>1, <3>2, <4>1
    <3>6. VlWorks'
      BY <1>0, <2>1, <3>5 DEF VlWorks
    <3>7. VlTypeOK'
      BY <1>0, <1>1, <2>1, <3>1, <3>3 DEF VlTypeOK
    <3> QED BY <3>2, <3>4, <3>6, <3>7 DEF VlInv
  <2>3. CASE ~ (Len(vlLines) < VlQueueSize)
    <3>1. vlLines' = vlLines /\ vlDropped' = vlDropped + 1 /\ vlLate' = vlLate
      BY <1>3, <2>3 DEF VlEnqueue, VlOverflow
    <3>2. VlOrder'
      BY <1>0, <1>1, <2>1, <3>1, VlQueued
    <3>3. VlAccounted'
      BY <1>0, <1>1, <2>1, <3>1 DEF VlAccounted
    <3>4. VlWorks'
      BY <1>0, <2>1, <3>1 DEF VlWorks
    <3>5. VlTypeOK'
      BY <1>0, <1>1, <2>1, <3>1 DEF VlTypeOK
    <3> QED BY <3>2, <3>3, <3>4, <3>5 DEF VlInv
  <2> QED BY <2>2, <2>3
<1> QED BY <1>2, <1>3

(* The worker takes lines: before Close into a batch that is flushed when  *)
(* it is full, in the final flush the whole queue.                         *)
LEMMA VlTakeStep ==
  ASSUME VlInv, VlTop \/ VlReceive \/ VlTick \/ VlSeeStop \/ VlDrain
  PROVE  VlInv'
<1>0. VlTypeOK /\ VlAccounted /\ VlOrder /\ VlWorks
  BY DEF VlInv
<1>1. /\ Len(vlLines) \in Nat /\ Len(vlBuf) \in Nat /\ Len(vlShipped) \in Nat
      /\ vlDropped \in Nat /\ vlDiscarded \in Nat /\ vlOffered \in Nat /\ vlLate \in Nat
      /\ VlQueueSize \in Nat /\ VlBatchSize \in Nat
  BY <1>0, VlBounds, LenProperties DEF VlTypeOK, VlOrder
<1>2. /\ UNCHANGED <<vlConf, vlAt, vlStop, vlOffered, vlLate, vlDropped, vlShipped,
                     vlDiscarded>>
  BY DEF VlTop, VlReceive, VlTick, VlSeeStop, VlDrain, vlOutside, vlUnsent
<1>3. CASE UNCHANGED <<vlLines, vlBuf>>
  <2>1. VlOrder' /\ VlAccounted'
    BY <1>0, <1>2, <1>3 DEF VlOrder, VlAccounted
  <2>2. \/ vlPc = "top" /\ vlPc' = (IF vlStop THEN "drain" ELSE "select") /\ vlFinal' = vlStop
        \/ vlPc = "select" /\ vlPc' = "flush" /\ vlFinal' = vlFinal /\ vlBuf # <<>>
        \/ vlPc = "select" /\ vlPc' = "drain" /\ vlFinal' = TRUE /\ vlStop
        \/ /\ vlPc = "drain" /\ vlLines = <<>> /\ vlFinal' = vlFinal
           /\ vlPc' = IF vlBuf = <<>> THEN "done" ELSE "flush"
    <3>1. VlReceive => FALSE
      <4>1. VlReceive => Len(vlLines') = Len(vlLines) - 1
        BY <1>0, <1>1, <1>2, VlMove DEF VlReceive
      <4> QED BY <1>1, <1>3, <4>1
    <3>2. vlPc = "drain" /\ vlLines # <<>> => ~VlDrain
      <4>1. vlPc = "drain" /\ vlLines # <<>> /\ VlDrain => Len(vlLines') = Len(vlLines) - 1
        BY <1>0, <1>1, <1>2, VlMove DEF VlDrain, VlDrained
      <4> QED BY <1>1, <1>3, <4>1
    <3> QED BY <3>1, <3>2 DEF VlTop, VlTick, VlSeeStop, VlDrain, VlDrained
  <2>3. VlWorks'
    <3>1. vlLines = <<>> => Len(vlLines) = 0
      BY EmptySeq
    <3> QED BY <1>0, <1>1, <1>2, <1>3, <2>2, <3>1 DEF VlWorks, VlTypeOK
  <2>4. VlTypeOK'
    <3>1. vlBuf = <<>> => Len(vlBuf) = 0
      BY EmptySeq
    <3>2. ~vlFinal => Len(vlBuf) <= VlBatchSize
      BY <1>0 DEF VlTypeOK
    <3> QED BY <1>0, <1>1, <1>2, <1>3, <2>2, <3>1, <3>2 DEF VlWorks, VlTypeOK
  <2> QED BY <2>1, <2>3, <2>4 DEF VlInv
<1>4. CASE /\ vlLines # <<>> /\ vlFinal' = vlFinal
           /\ vlBuf' = Append(vlBuf, Head(vlLines)) /\ vlLines' = Tail(vlLines)
           /\ \/ /\ vlPc = "select"
                 /\ vlPc' = IF Len(vlBuf) + 1 >= VlBatchSize THEN "flush" ELSE "top"
              \/ vlPc = "drain" /\ vlPc' = vlPc
  <2>1. /\ VlOrder' /\ Len(vlBuf') = Len(vlBuf) + 1
        /\ Len(vlLines') = Len(vlLines) - 1 /\ Len(vlLines) \in Nat \ {0}
    BY <1>0, <1>1, <1>2, <1>4, VlMove
  <2>2. VlAccounted'
    BY <1>0, <1>1, <1>2, <2>1 DEF VlAccounted
  <2>3. /\ vlPc = "select" => ~vlFinal /\ Len(vlBuf) < VlBatchSize
        /\ vlPc = "drain" => vlFinal
    BY <1>0 DEF VlWorks, VlTypeOK
  <2>4. VlWorks'
    <3>1. vlPc' \in {"top", "select"} => ~vlFinal' /\ Len(vlBuf') < VlBatchSize
      BY <1>1, <1>4, <2>1, <2>3
    <3>2. ~(vlFinal' /\ vlPc' \in {"flush", "post", "done"})
      BY <1>4, <2>3
    <3> QED BY <1>0, <1>2, <1>4, <3>1, <3>2 DEF VlWorks
  <2>5. VlTypeOK'
    <3>1. Len(vlLines') <= VlQueueSize
      BY <1>0, <1>1, <2>1 DEF VlTypeOK
    <3>2. ~vlFinal' => Len(vlBuf') <= VlBatchSize
      BY <1>1, <1>4, <2>1, <2>3
    <3>3. vlBuf' # <<>>
      BY <1>1, <2>1, EmptySeq
    <3> QED BY <1>0, <1>2, <1>4, <2>3, <3>1, <3>2, <3>3 DEF VlTypeOK
  <2> QED BY <2>1, <2>2, <2>4, <2>5 DEF VlInv
<1> QED BY <1>3, <1>4 DEF VlTop, VlReceive, VlTick, VlSeeStop, VlDrain, VlDrained

(* A flush ends: the batch was shipped, lost and counted, or discarded.    *)
LEMMA VlFlushStep ==
  ASSUME VlInv, VlDoFlush \/ \E ok \in BOOLEAN : VlPosted(ok)
  PROVE  VlInv'
<1>0. VlTypeOK /\ VlAccounted /\ VlOrder /\ VlWorks
  BY DEF VlInv
<1>1. /\ Len(vlLines) \in Nat /\ Len(vlBuf) \in Nat /\ Len(vlShipped) \in Nat
      /\ vlDropped \in Nat /\ vlDiscarded \in Nat /\ vlOffered \in Nat /\ vlLate \in Nat
      /\ VlQueueSize \in Nat /\ VlBatchSize \in Nat \ {0}
  BY <1>0, VlBounds, LenProperties DEF VlTypeOK, VlOrder
<1>2. /\ UNCHANGED <<vlConf, vlAt, vlStop, vlOffered, vlLate, vlLines, vlFinal>>
      /\ vlPc \in {"flush", "post"}
  BY DEF VlDoFlush, VlPosted, vlOutside
<1>3. CASE /\ vlPc = "flush" /\ vlPc' = "post"
           /\ UNCHANGED <<vlBuf, vlDiscarded, vlDropped, vlShipped>>
  BY <1>0, <1>2, <1>3 DEF VlInv, VlTypeOK, VlAccounted, VlOrder, VlWorks
<1>4. CASE /\ VlFlushed
           /\ \/ /\ vlDiscarded' = vlDiscarded + Len(vlBuf)
                 /\ UNCHANGED <<vlDropped, vlShipped>>
              \/ vlShipped' = vlShipped \o vlBuf /\ UNCHANGED <<vlDropped, vlDiscarded>>
              \/ /\ vlDropped' = vlDropped + Len(vlBuf)
                 /\ UNCHANGED <<vlDiscarded, vlShipped>>
  <2>1. /\ vlBuf' = <<>>
        /\ vlPc' = (IF vlFinal THEN "done" ELSE "top")
    BY <1>4 DEF VlFlushed
  <2>2. /\ VlOrder' /\ Len(vlBuf') = 0
        /\ vlShipped' = vlShipped \o vlBuf => Len(vlShipped') = Len(vlShipped) + Len(vlBuf)
    BY <1>0, <1>2, <1>4, <2>1, VlEmptied
  <2>3. VlAccounted'
    BY <1>0, <1>1, <1>2, <1>4, <2>2 DEF VlAccounted
  <2>4. VlWorks'
    BY <1>0, <1>1, <1>2, <2>1, <2>2 DEF VlWorks
  <2>5. VlTypeOK'
    <3>1. vlDropped' \in Nat /\ vlDiscarded' \in Nat
      BY <1>1, <1>4
    <3>2. Len(vlBuf') <= VlBatchSize
      BY <1>1, <2>2
    <3> QED BY <1>0, <1>2, <2>1, <3>1, <3>2 DEF VlTypeOK
  <2> QED BY <2>2, <2>3, <2>4, <2>5 DEF VlInv
<1> QED BY <1>3, <1>4 DEF VlDoFlush, VlPosted

(* However loggers, the ticker, failing flushes, changes of the settings   *)
(* and Close interleave, a line is shipped once and in its order, counted  *)
(* or discarded on purpose, and Close leaves nothing behind that was       *)
(* queued before it (vlpush.go, Handle, run and drainAndFlush).            *)
THEOREM LinesShippedInOrder == VlSpec => []VlSafe
<1>1. VlInit => VlInv
  <2> SUFFICES ASSUME VlInit PROVE VlInv
    OBVIOUS
  <2>1. /\ vlShipped \in Seq(Nat) /\ vlBuf \in Seq(Nat) /\ vlLines \in Seq(Nat)
        /\ Len(vlShipped) = 0 /\ Len(vlBuf) = 0 /\ Len(vlLines) = 0
    BY EmptySeq DEF VlInit
  <2>2. VlOrder
    BY <2>1 DEF VlOrder, Rising, Before, UpTo
  <2>3. VlQueueSize \in Nat /\ VlBatchSize \in Nat \ {0}
    BY VlBounds
  <2>4. VlTypeOK
    <3>1. /\ vlConf \in VlConfs /\ vlStop = FALSE /\ vlFinal = FALSE /\ vlPc = "top"
          /\ vlAt \in [VlLoggers -> {"idle", "send"}]
          /\ {vlDropped, vlOffered, vlLate, vlDiscarded} \subseteq Nat
      BY DEF VlInit, VlConfs
    <3>2. Len(vlLines) <= VlQueueSize /\ Len(vlBuf) <= VlBatchSize
      BY <2>1, <2>3
    <3> QED BY <3>1, <3>2 DEF VlTypeOK
  <2>5. VlAccounted
    BY <2>1 DEF VlInit, VlAccounted
  <2>6. VlWorks
    BY <2>1, <2>3 DEF VlInit, VlWorks
  <2> QED BY <2>2, <2>4, <2>5, <2>6 DEF VlInv
<1>2. VlInv /\ [VlNext]_vlVars => VlInv'
  <2> SUFFICES ASSUME VlInv, [VlNext]_vlVars PROVE VlInv'
    OBVIOUS
  <2>0. VlTypeOK /\ VlAccounted /\ VlOrder /\ VlWorks
    BY DEF VlInv
  <2>1. CASE /\ vlConf' \in VlConfs /\ vlStop' \in BOOLEAN /\ (vlStop => vlStop')
             /\ UNCHANGED <<vlAt, vlLines, vlBuf, vlPc, vlFinal, vlDropped, vlOffered,
                            vlLate, vlShipped, vlDiscarded>>
    BY <2>0, <2>1 DEF VlInv, VlTypeOK, VlAccounted, VlOrder, VlWorks
  <2>2. CASE \E c \in VlConfs : VlConfigure(c)
    BY <2>0, <2>1, <2>2 DEF VlConfigure, vlWorker, vlHistory, VlTypeOK
  <2>3. CASE VlClose
    BY <2>0, <2>1, <2>3 DEF VlClose, vlWorker, vlHistory, VlTypeOK
  <2>4. CASE \E l \in VlLoggers : VlHandle(l) \/ VlEnqueue(l)
    BY <2>4, VlHandleStep
  <2>5. CASE VlRun
    BY <2>5, VlTakeStep, VlFlushStep DEF VlRun
  <2>6. CASE UNCHANGED vlVars
    BY <2>0, <2>1, <2>6 DEF vlVars, vlWorker, vlHistory, VlTypeOK
  <2> QED BY <2>2, <2>3, <2>4, <2>5, <2>6 DEF VlNext
<1>3. VlInv => VlSafe
  <2> SUFFICES ASSUME VlInv PROVE VlSafe
    OBVIOUS
  <2>1. VlTypeOK /\ VlAccounted /\ VlInOrder /\ VlWorks
    BY VlOrderMeans DEF VlInv
  <2> QED BY <2>1 DEF VlSafe, VlClosedIsDrained, VlTypeOK, VlWorks
<1> QED BY <1>1, <1>2, <1>3, PTL DEF VlSpec

(***************************************************************************)
(* SseHub: the broadcast to the streams.                                   *)
(***************************************************************************)

(* What one more published event adds to a sequence of waiting ones. *)
LEMMA WaitingAfterAppend ==
  ASSUME NEW s \in Seq(Nat), NEW e \in Nat
  PROVE  {Append(s, e)[i] : i \in DOMAIN Append(s, e)} = {s[i] : i \in DOMAIN s} \cup {e}
<1>1. /\ Len(s) \in Nat /\ DOMAIN s = 1 .. Len(s) /\ Append(s, e) \in Seq(Nat)
      /\ Len(Append(s, e)) = Len(s) + 1 /\ DOMAIN Append(s, e) = 1 .. Len(s) + 1
      /\ \A i \in 1 .. Len(s) : Append(s, e)[i] = s[i]
      /\ Append(s, e)[Len(s) + 1] = e
  BY AppendProperties, LenProperties
<1> QED BY <1>1

(* And what reading the first takes away: nothing but that one. *)
LEMMA WaitingAfterTail ==
  ASSUME NEW s \in Seq(Nat), s # <<>>
  PROVE  {s[i] : i \in DOMAIN s} = {Tail(s)[i] : i \in DOMAIN Tail(s)} \cup {Head(s)}
<1>1. /\ Len(s) \in Nat \ {0} /\ DOMAIN s = 1 .. Len(s) /\ Tail(s) \in Seq(Nat)
      /\ Len(Tail(s)) = Len(s) - 1 /\ DOMAIN Tail(s) = 1 .. Len(s) - 1
      /\ Head(s) = s[1]
      /\ \A i \in 1 .. Len(s) - 1 : Tail(s)[i] = s[i + 1]
  BY EmptySeq, LenProperties, HeadTailProperties
<1>2. ASSUME NEW i \in 1 .. Len(s), i # 1 PROVE i - 1 \in 1 .. Len(s) - 1 /\ s[i] = Tail(s)[i - 1]
  BY <1>1, <1>2
<1>3. ASSUME NEW i \in 1 .. Len(s) - 1 PROVE i + 1 \in 1 .. Len(s) /\ Tail(s)[i] = s[i + 1]
  BY <1>1
<1>4. 1 \in 1 .. Len(s)
  BY <1>1
<1>5. ASSUME NEW i \in DOMAIN s
      PROVE  s[i] \in {Tail(s)[j] : j \in DOMAIN Tail(s)} \cup {Head(s)}
  <2>1. CASE i = 1
    BY <1>1, <2>1
  <2>2. CASE i # 1
    BY <1>1, <1>2, <2>2
  <2> QED BY <2>1, <2>2
<1>6. ASSUME NEW i \in DOMAIN Tail(s) PROVE Tail(s)[i] \in {s[j] : j \in DOMAIN s}
  BY <1>1, <1>3
<1>7. Head(s) \in {s[j] : j \in DOMAIN s}
  BY <1>1, <1>4
<1> QED BY <1>5, <1>6, <1>7

(* The channels and what is known of each event. *)
SseBooks ==
  /\ DOMAIN sseChan = SseClients /\ DOMAIN sseDue = SseClients /\ DOMAIN sseGot = SseClients
  /\ \A c \in SseClients :
       /\ sseChan[c] \in Seq(Nat)
       /\ sseDue[c] \subseteq 1 .. ssePublished
       /\ sseGot[c] \subseteq 1 .. ssePublished
       /\ SseWaiting(c) \subseteq 1 .. ssePublished
  /\ IsFiniteSet(sseSubs) /\ IsFiniteSet(SseMissed)

(* A channel is closed once: whoever closes it takes it off the hub. *)
SseInv ==
  /\ SseSafe /\ SseBooks
  /\ sseSubs \cap sseChanClosed = {}
  /\ \A c \in sseChanClosed : ssePc[c] # "new"

(* What a publish loses is counted once for every full channel. *)
LEMMA SsePublishCounts ==
  ASSUME SseInv, SsePublish
  PROVE  SseInv'
<1> DEFINE e == ssePublished + 1
           full == {c \in sseSubs : ~SseHasRoom(c)}
<1>0. /\ ssePublished' = e /\ e \in Nat /\ ssePublished \in Nat /\ sseDropped \in Nat
      /\ sseChan' = [c \in SseClients |-> IF c \in sseSubs \ full THEN Append(sseChan[c], e)
                                                                   ELSE sseChan[c]]
      /\ sseDropped' = sseDropped + Cardinality(full)
      /\ sseDue' = [c \in SseClients |-> IF c \in sseSubs THEN sseDue[c] \cup {e} ELSE sseDue[c]]
      /\ UNCHANGED <<sseSubs, sseHubClosed, sseChanClosed, ssePc, sseGot>>
      /\ sseSubs \subseteq SseClients
  BY DEF SsePublish, SseLost, SseInv, SseSafe, SseTypeOK
<1>1. ~ssePanic'
  BY DEF SsePublish, SseInv, SseSafe, SseNoPanic
<1>2. IsFiniteSet(full) /\ full \subseteq sseSubs /\ Cardinality(full) \in Nat
  <2>1. full \in SUBSET sseSubs /\ IsFiniteSet(sseSubs)
    BY DEF SseInv, SseBooks
  <2> QED BY <2>1, FS_Subset, FS_CardinalityType
<1>3. \A c \in SseClients : c \in sseSubs \ full => Len(sseChan[c]) < SseBufferSize
  BY DEF SseHasRoom
<1> HIDE DEF full
<1>4. ASSUME NEW c \in SseClients
      PROVE  /\ sseChan'[c] \in Seq(Nat)
             /\ Len(sseChan'[c]) <= SseBufferSize
             /\ SseWaiting(c)' = IF c \in sseSubs \ full THEN SseWaiting(c) \cup {e}
                                                         ELSE SseWaiting(c)
  <2>0. sseChan[c] \in Seq(Nat) /\ Len(sseChan[c]) <= SseBufferSize /\ Len(sseChan[c]) \in Nat
        /\ SseBufferSize \in Nat
    BY LenProperties, SseBounds DEF SseInv, SseBooks, SseSafe, SseTypeOK
  <2>1. CASE c \in sseSubs \ full
    <3>1. sseChan'[c] = Append(sseChan[c], e)
      BY <1>0, <2>1
    <3>2. Len(Append(sseChan[c], e)) = Len(sseChan[c]) + 1 /\ Append(sseChan[c], e) \in Seq(Nat)
      BY <1>0, <2>0, AppendProperties
    <3>3. {Append(sseChan[c], e)[i] : i \in DOMAIN Append(sseChan[c], e)} = SseWaiting(c) \cup {e}
      BY <1>0, <2>0, WaitingAfterAppend DEF SseWaiting
    <3>4. SseWaiting(c)' = SseWaiting(c) \cup {e}
      BY <3>1, <3>3 DEF SseWaiting
    <3> QED BY <1>3, <2>0, <2>1, <3>1, <3>2, <3>4
  <2>2. CASE c \notin sseSubs \ full
    <3>1. sseChan'[c] = sseChan[c]
      BY <1>0, <2>2
    <3> QED BY <2>0, <2>2, <3>1 DEF SseWaiting
  <2> QED BY <2>1, <2>2
<1>5. SseMissed' = SseMissed \cup (full \X {e})
  <2>1. ASSUME NEW c \in SseClients, NEW v \in 1 .. e
        PROVE  (v \in sseDue'[c] \ (sseGot'[c] \cup SseWaiting(c)'))
               <=> \/ v \in 1 .. ssePublished /\ v \in sseDue[c] \ (sseGot[c] \cup SseWaiting(c))
                   \/ c \in full /\ v = e
    <3>1. /\ sseDue[c] \subseteq 1 .. ssePublished /\ sseGot[c] \subseteq 1 .. ssePublished
          /\ SseWaiting(c) \subseteq 1 .. ssePublished
      BY DEF SseInv, SseBooks
    <3>2. v \in 1 .. ssePublished \/ v = e
      BY <1>0
    <3>3. e \notin 1 .. ssePublished
      BY <1>0
    <3>4. /\ sseDue'[c] = IF c \in sseSubs THEN sseDue[c] \cup {e} ELSE sseDue[c]
          /\ sseGot'[c] = sseGot[c]
      BY <1>0
    <3> HIDE DEF e
    <3> QED BY <1>2, <1>4, <3>1, <3>2, <3>3, <3>4
  <2>2. 1 .. ssePublished \subseteq 1 .. e /\ e \in 1 .. e
    BY <1>0
  <2>3. full \subseteq SseClients
    BY <1>0, <1>2
  <2>4. ASSUME NEW x
        PROVE  x \in SseMissed' <=> x \in SseMissed \cup (full \X {e})
    <3>1. x \in SseMissed' <=> /\ x \in SseClients \X (1 .. e)
                               /\ x[2] \in sseDue'[x[1]] \ (sseGot'[x[1]] \cup SseWaiting(x[1])')
      BY <1>0 DEF SseMissed
    <3>2. x \in SseMissed <=> /\ x \in SseClients \X (1 .. ssePublished)
                              /\ x[2] \in sseDue[x[1]] \ (sseGot[x[1]] \cup SseWaiting(x[1]))
      BY DEF SseMissed
    <3> HIDE DEF e
    <3> QED BY <2>1, <2>2, <2>3, <3>1, <3>2
  <2> QED BY <2>4
<1>6. /\ IsFiniteSet(full \X {e}) /\ Cardinality(full \X {e}) = Cardinality(full)
      /\ SseMissed \cap (full \X {e}) = {}
  <2>1. [c \in full |-> <<c, e>>] \in Bijection(full, full \X {e})
    <3> DEFINE f == [c \in full |-> <<c, e>>]
    <3> HIDE DEF e
    <3>1. f \in [full -> full \X {e}]
      OBVIOUS
    <3>2. \A c, d \in full : f[c] = f[d] => c = d
      OBVIOUS
    <3>3. \A x \in full \X {e} : x[1] \in full /\ f[x[1]] = x
      OBVIOUS
    <3>4. \A x \in full \X {e} : \E c \in full : f[c] = x
      BY <3>3
    <3> HIDE DEF f
    <3>5. f \in Bijection(full, full \X {e})
      <4>1. f \in Injection(full, full \X {e})
        BY <3>1, <3>2 DEF Injection, IsInjective
      <4>2. f \in Surjection(full, full \X {e})
        BY <3>1, <3>4 DEF Surjection
      <4> QED BY <4>1, <4>2 DEF Bijection
    <3> QED BY <3>5 DEF f
  <2>2. SseMissed \cap (full \X {e}) = {}
    BY <1>0 DEF SseMissed
  <2> QED BY <1>2, <2>1, <2>2, FS_Bijection DEF ExistsBijection
<1>7. IsFiniteSet(SseMissed') /\ Cardinality(SseMissed') = sseDropped'
  <2>1. IsFiniteSet(SseMissed) /\ Cardinality(SseMissed) = sseDropped
    BY DEF SseInv, SseBooks, SseSafe, SseDropsCounted
  <2>2. /\ IsFiniteSet(SseMissed \cup (full \X {e}))
        /\ Cardinality(SseMissed \cup (full \X {e})) =
             Cardinality(SseMissed) + Cardinality(full \X {e})
               - Cardinality(SseMissed \cap (full \X {e}))
    BY <1>6, <2>1, FS_Union
  <2>3. Cardinality(SseMissed \cap (full \X {e})) = 0
    BY <1>6, FS_EmptySet
  <2> QED BY <1>0, <1>2, <1>5, <1>6, <2>1, <2>2, <2>3
<1>8. SseBooks'
  <2>1. \A c \in SseClients : /\ sseDue'[c] \subseteq 1 .. e
                              /\ sseGot'[c] \subseteq 1 .. e
                              /\ SseWaiting(c)' \subseteq 1 .. e
    <3>1. 1 .. ssePublished \subseteq 1 .. e /\ e \in 1 .. e
      BY <1>0
    <3> HIDE DEF e
    <3> QED BY <1>0, <1>4, <3>1 DEF SseInv, SseBooks
  <2> QED BY <1>0, <1>4, <1>7, <2>1 DEF SseInv, SseBooks
<1> QED BY <1>0, <1>1, <1>2, <1>4, <1>7, <1>8
        DEF SseInv, SseSafe, SseTypeOK, SseNoPanic, SseDropsCounted

(* A handler reads an event: it moves from one side of the account to the  *)
(* other.                                                                  *)
LEMMA SseReceiveKeeps ==
  ASSUME SseInv, NEW c \in SseClients, SseReceive(c)
  PROVE  SseInv'
<1>0. /\ sseChan[c] \in Seq(Nat) /\ sseChan[c] # <<>> /\ ssePc[c] = "select"
      /\ sseChan' = [sseChan EXCEPT ![c] = Tail(sseChan[c])]
      /\ sseGot' = [sseGot EXCEPT ![c] = sseGot[c] \cup {Head(sseChan[c])}]
      /\ ssePc' = [ssePc EXCEPT ![c] = "write"]
      /\ UNCHANGED <<sseSubs, sseHubClosed, sseDropped, sseChanClosed, ssePanic,
                     ssePublished, sseDue>>
      /\ DOMAIN sseChan = SseClients /\ DOMAIN sseGot = SseClients
  BY DEF SseReceive, sseHub, SseInv, SseBooks
<1>1. Tail(sseChan[c]) \in Seq(Nat) /\ Len(Tail(sseChan[c])) <= SseBufferSize
  <2>1. /\ Tail(sseChan[c]) \in Seq(Nat) /\ Len(Tail(sseChan[c])) = Len(sseChan[c]) - 1
        /\ Len(sseChan[c]) \in Nat
    BY <1>0, HeadTailProperties, EmptySeq
  <2>2. Len(sseChan[c]) <= SseBufferSize /\ SseBufferSize \in Nat
    BY SseBounds DEF SseInv, SseSafe, SseTypeOK
  <2> QED BY <2>1, <2>2
<1>2. SseWaiting(c) = SseWaiting(c)' \cup {Head(sseChan[c])}
  BY <1>0, WaitingAfterTail DEF SseWaiting
<1>3. \A d \in SseClients \ {c} : /\ sseChan'[d] = sseChan[d] /\ sseGot'[d] = sseGot[d]
                                  /\ SseWaiting(d)' = SseWaiting(d)
  BY <1>0 DEF SseWaiting
<1>4. sseChan'[c] = Tail(sseChan[c]) /\ sseGot'[c] = sseGot[c] \cup {Head(sseChan[c])}
  BY <1>0
<1>5. ASSUME NEW d \in SseClients
      PROVE  /\ sseGot'[d] \cup SseWaiting(d)' = sseGot[d] \cup SseWaiting(d)
             /\ sseChan'[d] \in Seq(Nat) /\ Len(sseChan'[d]) <= SseBufferSize
  <2>1. sseChan[d] \in Seq(Nat) /\ Len(sseChan[d]) <= SseBufferSize /\ SseBufferSize \in Nat
    BY SseBounds DEF SseInv, SseBooks, SseSafe, SseTypeOK
  <2>2. CASE d = c
    <3>1. sseGot'[d] \cup SseWaiting(d)' = sseGot[d] \cup SseWaiting(d)
      BY <1>2, <1>4, <2>2
    <3>2. sseChan'[d] \in Seq(Nat) /\ Len(sseChan'[d]) <= SseBufferSize
      BY <1>1, <1>4, <2>1, <2>2
    <3> QED BY <3>1, <3>2
  <2> QED BY <1>3, <2>1, <2>2
<1>6. SseMissed' = SseMissed
  BY <1>0, <1>5 DEF SseMissed
<1>7. SseBooks'
  <2>1. \A d \in SseClients : /\ sseGot'[d] \subseteq 1 .. ssePublished
                              /\ SseWaiting(d)' \subseteq 1 .. ssePublished
    BY <1>5 DEF SseInv, SseBooks
  <2> QED BY <1>0, <1>5, <1>6, <2>1 DEF SseInv, SseBooks
<1> QED BY <1>0, <1>5, <1>6, <1>7 DEF SseInv, SseSafe, SseTypeOK, SseNoPanic, SseDropsCounted

(* The steps that leave the channels' contents and the account alone. *)
LEMMA SseRestKeeps ==
  ASSUME SseInv, UNCHANGED <<sseChan, sseGot, sseDue, ssePublished, sseDropped>>,
         sseSubs' \subseteq SseClients /\ IsFiniteSet(sseSubs') /\ sseChanClosed' \subseteq SseClients,
         ssePc' \in [SseClients -> {"new", "select", "write", "cancel", "gone"}],
         \A c \in sseSubs' : ssePc'[c] \in {"select", "write", "cancel"},
         sseSubs' \cap sseChanClosed' = {}, ~ssePanic',
         \A c \in sseChanClosed' : ssePc'[c] # "new"
  PROVE  SseInv'
<1>1. SseMissed' = SseMissed
  BY DEF SseMissed, SseWaiting
<1>2. SseBooks'
  BY <1>1 DEF SseInv, SseBooks, SseWaiting
<1> QED BY <1>1, <1>2 DEF SseInv, SseSafe, SseTypeOK, SseNoPanic, SseDropsCounted

(* Publishing, streaming, subscribing and closing keep the account of      *)
(* every stream.                                                           *)
LEMMA SseInductive ==
  /\ SseInit => SseInv
  /\ SseInv /\ [SseNext]_sseVars => SseInv'
<1>1. ASSUME SseInit PROVE SseInv
  <2>0. <<>> \in Seq(Nat) /\ Len(<<>>) = 0 /\ DOMAIN <<>> = {}
    BY EmptySeq
  <2>1. \A c \in SseClients : sseChan[c] = <<>> /\ sseDue[c] = {} /\ sseGot[c] = {} /\ SseWaiting(c) = {}
    BY <1>1, <2>0 DEF SseInit, SseWaiting
  <2>2. SseMissed = {}
    BY <2>1 DEF SseMissed
  <2>3. SseBooks
    BY <1>1, <2>0, <2>1, <2>2, FS_EmptySet DEF SseInit, SseBooks
  <2>4. SseDropsCounted
    BY <1>1, <2>2, FS_EmptySet DEF SseInit, SseDropsCounted
  <2> QED BY <1>1, <2>0, <2>1, <2>3, <2>4, SseBounds
          DEF SseInit, SseInv, SseSafe, SseTypeOK, SseNoPanic
<1>2. ASSUME SseInv, [SseNext]_sseVars PROVE SseInv'
  <2>0. /\ sseSubs \subseteq SseClients /\ IsFiniteSet(sseSubs) /\ sseChanClosed \subseteq SseClients
        /\ ssePc \in [SseClients -> {"new", "select", "write", "cancel", "gone"}]
        /\ \A c \in sseSubs : ssePc[c] \in {"select", "write", "cancel"}
        /\ sseSubs \cap sseChanClosed = {} /\ ~ssePanic
        /\ \A c \in sseChanClosed : ssePc[c] # "new"
    BY <1>2 DEF SseInv, SseSafe, SseTypeOK, SseNoPanic, SseBooks
  <2>1. CASE UNCHANGED sseVars
    BY <1>2, <2>0, <2>1, SseRestKeeps DEF sseVars
  <2>2. CASE SsePublish
    BY <1>2, <2>2, SsePublishCounts
  <2>3. CASE SseClose
    <3>1. ~ssePanic'
      BY <2>0, <2>3 DEF SseClose
    <3> QED BY <1>2, <2>0, <2>3, <3>1, SseRestKeeps, FS_EmptySet DEF SseClose
  <2>4. ASSUME NEW c \in SseClients, SseSubscribe(c) PROVE SseInv'
    <3>1. IsFiniteSet(sseSubs \cup {c})
      BY <2>0, FS_AddElement
    <3>2. CASE sseHubClosed
      BY <1>2, <2>0, <2>4, <3>2, SseRestKeeps DEF SseSubscribe
    <3>3. CASE ~sseHubClosed
      BY <1>2, <2>0, <2>4, <3>1, <3>3, SseRestKeeps DEF SseSubscribe
    <3> QED BY <3>2, <3>3
  <2>5. ASSUME NEW c \in SseClients, SseCancel(c) PROVE SseInv'
    <3>1. IsFiniteSet(sseSubs \ {c})
      BY <2>0, FS_RemoveElement
    <3>2. ~ssePanic'
      BY <2>0, <2>5 DEF SseCancel
    <3>3. CASE c \in sseSubs
      BY <1>2, <2>0, <2>5, <3>1, <3>2, <3>3, SseRestKeeps DEF SseCancel
    <3>4. CASE c \notin sseSubs
      BY <1>2, <2>0, <2>5, <3>2, <3>4, SseRestKeeps DEF SseCancel
    <3> QED BY <3>3, <3>4
  <2>6. ASSUME NEW c \in SseClients,
               SseWritten(c) \/ SseSeeClosed(c) \/ SseKeepalive(c) \/ SseGone(c)
        PROVE  SseInv'
    <3>1. /\ \E next \in {"select", "write", "cancel"} : ssePc' = [ssePc EXCEPT ![c] = next]
          /\ UNCHANGED <<sseHub, sseChan, sseGot>> /\ ssePc[c] \in {"select", "write"}
      BY <2>6 DEF SseWritten, SseSeeClosed, SseKeepalive, SseGone
    <3> QED BY <1>2, <2>0, <3>1, SseRestKeeps DEF sseHub
  <2>7. ASSUME NEW c \in SseClients, SseReceive(c) PROVE SseInv'
    BY <1>2, <2>7, SseReceiveKeeps
  <2> QED BY <1>2, <2>1, <2>2, <2>3, <2>4, <2>5, <2>6, <2>7 DEF SseNext, SseStream
<1> QED BY <1>1, <1>2

(* For any number of streams and any buffer: no send on a closed channel   *)
(* and no second close, and every event that a subscribed stream does not  *)
(* get is counted as dropped, whatever the order of Publish, unsubscribe   *)
(* and Close.                                                              *)
THEOREM StreamsAreSound == SseSpec => []SseSafe
<1>1. SseInv => SseSafe
  BY DEF SseInv
<1> QED BY <1>1, SseInductive, PTL DEF SseSpec

(***************************************************************************)
(* ServerList and ServerSearch: the two caches and the limiter.            *)
(***************************************************************************)

(***************************************************************************)
(* ServerList                                                              *)
(***************************************************************************)

(* Whoever fetches holds the mutex, and no Invalidate returns meanwhile.   *)
SlInv ==
  /\ SlCacheCurrent
  /\ \A r \in SlRequests : slPc[r] = "fetch" => slMu = r /\ slFrom[r] = slGen
  /\ DOMAIN slPc = SlRequests /\ DOMAIN slFrom = SlRequests

(* A list from before an Invalidate is never kept or served after it. *)
LEMMA SlInductive ==
  /\ SlInit => SlInv
  /\ SlInv /\ [SlNext]_slVars => SlInv'
<1>1. SlInit => SlInv
  BY DEF SlInit, SlInv, SlCacheCurrent
<1>2. ASSUME SlInv, [SlNext]_slVars PROVE SlInv'
  <2> USE <1>2 DEF SlInv, SlCacheCurrent
  <2>1. CASE UNCHANGED slVars
    BY <2>1 DEF slVars
  <2>2. CASE SlInvalidate
    BY <2>2 DEF SlInvalidate
  <2>7. CASE SlExpire
    BY <2>7 DEF SlExpire, SlFresh
  <2>3. CASE SlInvalidated
    BY <2>3, SlBounds DEF SlInvalidated
  <2>4. ASSUME NEW r \in SlRequests, SlAsk(r) PROVE SlInv'
    BY <2>4 DEF SlAsk
  <2>5. ASSUME NEW r \in SlRequests, SlServers(r) PROVE SlInv'
    BY <2>5, SlBounds DEF SlServers
  <2>6. ASSUME NEW r \in SlRequests, NEW ok \in BOOLEAN, SlFetched(r, ok) PROVE SlInv'
    BY <2>6, SlBounds DEF SlFetched
  <2> QED BY <2>1, <2>2, <2>3, <2>4, <2>5, <2>6, <2>7 DEF SlNext
<1> QED BY <1>1, <1>2

(***************************************************************************)
(* ServerSearch                                                            *)
(***************************************************************************)

SsLabels == {"new", "search", "join", "wait", "recheck", "direct", "slot", "sleep",
             "geocode", "near", "store", "release", "delete", "done"}
SsFields == {"pc", "of", "thin", "point", "degraded", "tries", "slot"}

(* The fetched-at times, the flights and the requests' locals. *)
SsHeld == {k \in SsKeys : ssCache[k] # SsNever}
SsShape ==
  /\ DOMAIN ssCache = SsKeys /\ DOMAIN ssCalls = SsKeys /\ DOMAIN ssReq = SsRequests
  /\ \A r \in SsRequests : DOMAIN ssReq[r] = SsFields /\ ssReq[r].pc \in SsLabels
  /\ \A k \in SsKeys : ssCache[k] # SsNever => ssCache[k].at \in Nat
  /\ IsFiniteSet(SsHeld)

(* Only a request past its store has an entry, and a failure is remembered *)
(* until then.                                                             *)
SsStored ==
  /\ \A k \in SsKeys : ssCache[k] # SsNever =>
       /\ ssCache[k].by \in SsRequests
       /\ ssReq[ssCache[k].by].pc \in {"release", "delete", "done"}
  /\ \A r \in ssFailed : /\ r \in SsRequests
                         /\ \/ ssReq[r].pc \in {"release", "delete", "done"}
                            \/ ssReq[r].pc \in {"slot", "sleep", "geocode", "near", "store"}
                               /\ ssReq[r].degraded = TRUE

(* A request holds a slot while it sleeps. *)
SsSlotted ==
  /\ ssNomLast # SsNever => ssNomLast \in Nat
  /\ \A r \in SsRequests : IF ssReq[r].pc = "sleep"
                           THEN ssReq[r].slot \in Nat /\ ssNomLast # SsNever
                           ELSE ssReq[r].slot = SsNever

(* The bucket: what was let through since a request, and what is left, fit *)
(* into the burst and the time that has passed.                            *)
SsBucket ==
  /\ ssTokens \in Nat /\ ssTokens <= SsBurst
  /\ ssAllowed \in Seq(Nat)
  /\ ssLast # SsNever => ssLast \in 0 .. ssNow
  /\ ssLast = SsNever => ssAllowed = <<>>
  /\ \A i \in 1 .. Len(ssAllowed) :
       /\ Len(ssAllowed) - i + 1 + ssTokens <= SsBurst + ssLast - ssAllowed[i]

SsInv == SsSafe /\ SsShape /\ SsStored /\ SsSlotted /\ SsBucket

(* The ranges of the constants.                                            *)
LEMMA SsConstants ==
  /\ {SsBurst, SsTTL, SsMaxEntries, SsInterval} \subseteq Nat \ {0}
  /\ SsMaxNow \in Nat /\ SsNever \notin SsRequests /\ SsNever \notin Int
  /\ SsNever \notin [at : Nat, by : SsRequests]
  /\ \A r \in SsRequests : SsKey[r] \in SsKeys
BY SsBounds DEF SsKeys

(* The limiter. *)
LEMMA AllowKeepsRate ==
  ASSUME SsInv, NEW r \in SsRequests, SsAllow(r)
  PROVE  SsBucket' /\ SsRateKept'
<1> DEFINE n == Len(ssAllowed)
<1>0. ssNow \in Nat /\ n \in Nat /\ DOMAIN ssAllowed = 1 .. n /\ SsBurst \in Nat \ {0}
      /\ \A i \in 1 .. n : ssAllowed[i] \in Nat
  BY SsConstants, LenProperties, ElementOfSeq DEF SsInv, SsSafe, SsTypeOK, SsBucket
<1>1. /\ SsRefilled \in Nat /\ SsRefilled <= SsBurst
      /\ ssLast # SsNever => SsRefilled <= ssTokens + ssNow - ssLast
  <2>1. CASE ssLast = SsNever
    BY <2>1 DEF SsRefilled, SsInv, SsBucket
  <2>2. CASE ssLast # SsNever
    BY <1>0, <2>2 DEF SsRefilled, SsInv, SsBucket, SsCap
  <2> QED BY <2>1, <2>2
<1>2. ssLast' = ssNow /\ ssNow' = ssNow
  BY DEF SsAllow
<1>3. ssLast' \in 0 .. ssNow' /\ ssLast' # SsNever
  BY <1>0, <1>2, SsConstants
<1>4. CASE SsRefilled < 1
  <2>1. ssTokens' = SsRefilled /\ ssAllowed' = ssAllowed
    BY <1>4 DEF SsAllow
  <2>2. ASSUME NEW i \in 1 .. n
        PROVE  n - i + 1 + ssTokens' <= SsBurst + ssLast' - ssAllowed[i]
    <3>1. ssLast # SsNever /\ ssLast \in 0 .. ssNow
      BY <1>0, EmptySeq DEF SsInv, SsBucket
    <3>2. n - i + 1 + ssTokens <= SsBurst + ssLast - ssAllowed[i] /\ ssTokens \in Nat
      BY DEF SsInv, SsBucket
    <3> QED BY <1>0, <1>1, <1>2, <2>1, <3>1, <3>2
  <2>3. SsBucket'
    BY <1>0, <1>1, <1>3, <2>1, <2>2 DEF SsInv, SsBucket
  <2> QED BY <2>1, <2>3 DEF SsInv, SsSafe, SsRateKept
<1>5. CASE ~(SsRefilled < 1)
  <2>1. ssTokens' = SsRefilled - 1 /\ ssAllowed' = Append(ssAllowed, ssNow)
    BY <1>5 DEF SsAllow
  <2>2. /\ ssAllowed' \in Seq(Nat) /\ Len(ssAllowed') = n + 1
        /\ \A i \in 1 .. n : ssAllowed'[i] = ssAllowed[i]
        /\ ssAllowed'[n + 1] = ssNow
    BY <1>0, <2>1, AppendProperties DEF SsInv, SsBucket
  <2>3. ssTokens' \in Nat /\ ssTokens' <= SsBurst
    BY <1>0, <1>1, <1>5, <2>1
  <2>4. ASSUME NEW i \in 1 .. n + 1
        PROVE  n + 1 - i + 1 + ssTokens' <= SsBurst + ssNow - ssAllowed'[i]
    <3>1. CASE i = n + 1
      BY <1>0, <1>1, <2>1, <2>2, <3>1
    <3>2. CASE i \in 1 .. n
      <4>1. ssLast # SsNever /\ ssLast \in 0 .. ssNow
        BY <1>0, <3>2, EmptySeq DEF SsInv, SsBucket
      <4>2. n - i + 1 + ssTokens <= SsBurst + ssLast - ssAllowed[i] /\ ssTokens \in Nat
        BY <3>2 DEF SsInv, SsBucket
      <4> QED BY <1>0, <1>1, <1>2, <2>1, <2>2, <3>2, <4>1, <4>2
    <3> QED BY <1>0, <3>1, <3>2
  <2>5. SsBucket'
    BY <1>0, <1>2, <1>3, <2>2, <2>3, <2>4 DEF SsBucket
  <2>6. ASSUME NEW i \in 1 .. n + 1, NEW j \in 1 .. n + 1, i <= j
        PROVE  j - i + 1 <= SsBurst + ssAllowed'[j] - ssAllowed'[i]
    <3>0. ssAllowed'[i] \in Nat /\ ssAllowed'[j] \in Nat
      BY <1>0, <2>2, ElementOfSeq
    <3>1. CASE j = n + 1
      <4>1. ssAllowed'[j] = ssNow /\ j = n + 1
        BY <2>2, <3>1
      <4>2. n + 1 - i + 1 + ssTokens' <= SsBurst + ssNow - ssAllowed'[i]
        BY <2>4
      <4> QED BY <1>0, <2>3, <3>0, <4>1, <4>2
    <3>2. CASE j \in 1 .. n
      <4>1. i \in 1 .. n /\ i <= j
        BY <1>0, <2>6, <3>2
      <4>2. j - i + 1 <= SsBurst + ssAllowed[j] - ssAllowed[i]
        BY <1>0, <3>2, <4>1 DEF SsInv, SsSafe, SsRateKept
      <4> QED BY <2>2, <3>2, <4>1, <4>2
    <3> QED BY <1>0, <3>1, <3>2
  <2>7. DOMAIN ssAllowed' = 1 .. n + 1
    BY <1>0, <2>2, LenProperties
  <2> QED BY <2>5, <2>6, <2>7 DEF SsRateKept
<1> QED BY <1>4, <1>5


(* What a step of r does to the requests. *)
SsOnly(r) ==
  /\ DOMAIN ssReq' = SsRequests /\ DOMAIN ssReq'[r] = SsFields
  /\ \A s \in SsRequests \ {r} : ssReq'[s] = ssReq[s]

(* A request that moves on leaves the others where they are.               *)
LEMMA SsMoves ==
  ASSUME SsInv, NEW r \in SsRequests
  PROVE  /\ \A pc : SsGo(r, pc) => /\ SsOnly(r) /\ ssReq'[r].pc = pc
                                   /\ ssReq'[r].of = ssReq[r].of
                                   /\ ssReq'[r].slot = ssReq[r].slot
                                   /\ ssReq'[r].degraded = ssReq[r].degraded
         /\ \A pc : ssReq' = [ssReq EXCEPT ![r] = SsIdle(pc)] =>
                                   /\ SsOnly(r) /\ ssReq'[r].pc = pc
                                   /\ ssReq'[r].of = SsNever
                                   /\ ssReq'[r].slot = SsNever
BY DEF SsGo, SsOnly, SsInv, SsShape, SsFields, SsIdle
(* The steps of a flight that leave what is shared alone: where they lead, *)
(* and that a failure is remembered in the degraded mark.                  *)
SsFlight == {"slot", "sleep", "geocode", "near", "store"}
SsFlown(r) ==
  /\ SsOnly(r)
  /\ ssReq[r].pc \in {"recheck", "direct", "sleep", "geocode", "near"}
  /\ ssReq'[r].pc \in {"direct", "slot", "geocode", "near", "store", "release"}
  /\ ssReq'[r].pc # "direct" \/ ~SsFresh(SsKey[r])
  /\ ssReq[r].pc = "recheck" => ssReq'[r].pc \in {"direct", "release"}
  /\ ssReq'[r].of = SsNever /\ ssReq'[r].slot = SsNever
  /\ ssFailed \subseteq ssFailed' /\ ssFailed' \subseteq ssFailed \cup {r}
  /\ r \in ssFailed' => \/ ssReq'[r].pc = "release"
                       \/ (ssReq'[r].pc \in SsFlight /\ ssReq'[r].degraded)
  /\ UNCHANGED <<ssShared, ssNomLast>>

(* The steps of a flight are of that form.                                 *)
LEMMA SsFlies ==
  ASSUME SsInv, NEW r \in SsRequests,
         \/ SsRecheck(r)
         \/ \E hits \in {"thin", "plenty", "error"} : SsDirect(r, hits)
         \/ \E answer \in SsAnswers : SsNominatim(r, answer) \/ SsGeocode(r, answer)
         \/ \E ok \in BOOLEAN : SsNear(r, ok)
  PROVE  SsFlown(r)
<1> DEFINE q == ssReq[r]
<1>0. /\ DOMAIN ssReq = SsRequests /\ DOMAIN q = SsFields /\ q.pc \in SsLabels
      /\ (q.pc # "sleep" => q.slot = SsNever) /\ (q.pc # "wait" => q.of = SsNever)
      /\ (r \in ssFailed /\ q.pc \notin {"release", "delete", "done"} =>
            q.pc \in SsFlight /\ q.degraded)
  BY DEF SsInv, SsShape, SsSafe, SsTypeOK, SsStored, SsSlotted, SsFlight
<1> USE <1>0 DEF SsFlown, SsOnly, SsFields, SsFlight
<1>1. CASE SsRecheck(r)
  <2>1. SsGo(r, IF SsFresh(SsKey[r]) THEN "release" ELSE "direct")
    BY <1>1 DEF SsRecheck
  <2> QED BY <1>1, <2>1, SsMoves DEF SsRecheck
<1>2. ASSUME NEW hits \in {"thin", "plenty", "error"}, SsDirect(r, hits) PROVE SsFlown(r)
  <2>1. SsOnly(r)
    BY <1>2 DEF SsDirect, SsThen, SsIdle
  <2>2. /\ ssReq'[r].pc \in {"slot", "geocode", "near", "store", "release"}
        /\ ssReq'[r].of = SsNever /\ ssReq'[r].slot = SsNever
    BY <1>2 DEF SsDirect, SsThen, SsIdle
  <2> QED BY <1>2, <2>1, <2>2 DEF SsDirect
<1>3. ASSUME NEW answer \in SsAnswers, SsNominatim(r, answer) PROVE SsFlown(r)
  <2>1. SsOnly(r)
    BY <1>3 DEF SsNominatim, SsThen, SsIdle, SsAnswers
  <2>2. /\ ssReq'[r].pc \in {"slot", "geocode", "near", "store"}
        /\ ssReq'[r].of = SsNever /\ ssReq'[r].slot = SsNever
    BY <1>3 DEF SsNominatim, SsThen, SsIdle, SsAnswers
  <2>3. /\ answer = "error" => ssReq'[r].degraded
        /\ q.degraded => ssReq'[r].degraded
    BY <1>3 DEF SsNominatim, SsThen, SsIdle, SsAnswers
  <2> QED BY <1>3, <2>1, <2>2, <2>3 DEF SsNominatim, SsNote
<1>4. ASSUME NEW answer \in SsAnswers, SsGeocode(r, answer) PROVE SsFlown(r)
  <2>1. SsOnly(r)
    BY <1>4 DEF SsGeocode
  <2>2. /\ ssReq'[r].pc \in {"near", "store"}
        /\ ssReq'[r].of = SsNever /\ ssReq'[r].slot = SsNever
    BY <1>4 DEF SsGeocode
  <2>3. /\ answer = "error" => ssReq'[r].degraded
        /\ q.degraded => ssReq'[r].degraded
    BY <1>4 DEF SsGeocode
  <2> QED BY <1>4, <2>1, <2>2, <2>3 DEF SsGeocode, SsNote
<1>5. ASSUME NEW ok \in BOOLEAN, SsNear(r, ok) PROVE SsFlown(r)
  <2>1. SsOnly(r)
    BY <1>5 DEF SsNear
  <2>2. /\ ssReq'[r].pc = "store"
        /\ ssReq'[r].of = SsNever /\ ssReq'[r].slot = SsNever
    BY <1>5 DEF SsNear
  <2>3. /\ ~ok => ssReq'[r].degraded
        /\ q.degraded => ssReq'[r].degraded
    BY <1>5 DEF SsNear
  <2> QED BY <1>5, <2>1, <2>2, <2>3 DEF SsNear, SsNote
<1> QED BY <1>1, <1>2, <1>3, <1>4, <1>5

(* The parts of the invariant that are about the cache and the requests. *)
SsRest == SsShape /\ SsStored /\ SsSlotted /\ SsTypeOK /\ SsNoRedundantFetch
          /\ SsCachedIsComplete /\ SsSlotsApart

(* A step of that form keeps everything a request says of itself.          *)
LEMMA SsFlownKeeps ==
  ASSUME SsInv, NEW r \in SsRequests, SsFlown(r)
  PROVE  SsRest'
<1> USE DEF SsInv, SsSafe, SsFlown, SsOnly, ssShared, ssLimiter, SsFlight
<1>1. SsShape'
  BY DEF SsShape, SsLabels, SsHeld
<1>2. SsStored'
  BY DEF SsShape, SsStored, SsFields
<1>3. SsSlotted'
  BY DEF SsSlotted
<1>4. SsTypeOK'
  BY DEF SsTypeOK, SsLeading
<1>5. SsNoRedundantFetch'
  BY DEF SsNoRedundantFetch, SsFresh
<1>6. SsCachedIsComplete'
  BY DEF SsCachedIsComplete, SsStored
<1>7. SsSlotsApart'
  BY DEF SsSlotsApart
<1> QED BY <1>1, <1>2, <1>3, <1>4, <1>5, <1>6, <1>7 DEF SsRest


(* A request that is not leading yet moves: the limiter's verdict, the     *)
(* first look into the cache, the end of a wait.                           *)
LEMMA SsWalks ==
  ASSUME SsInv, NEW r \in SsRequests, SsAllow(r) \/ SsSearch(r) \/ SsWaited(r)
  PROVE  SsRest'
<1>1. /\ SsOnly(r) /\ ssReq[r].pc \in {"new", "search", "wait"}
      /\ ssReq'[r].pc \in {"search", "join", "done"}
      /\ ssReq'[r].of = SsNever /\ ssReq'[r].slot = SsNever
      /\ UNCHANGED <<ssNow, ssCache, ssCalls, ssReleased, ssNomLast, ssFailed>>
  <2>0. ssReq[r].pc \in {"new", "search"} => ssReq[r].of = SsNever /\ ssReq[r].slot = SsNever
    BY DEF SsInv, SsSafe, SsTypeOK, SsSlotted
  <2>1. CASE SsAllow(r)
    <3>1. \E pc \in {"done", "search"} : ssReq' = [ssReq EXCEPT ![r] = SsIdle(pc)]
      BY <2>1 DEF SsAllow
    <3> QED BY <2>1, <3>1, SsMoves DEF SsAllow
  <2>2. CASE SsSearch(r)
    <3>1. \E pc \in {"done", "join"} : SsGo(r, pc)
      BY <2>2 DEF SsSearch
    <3> QED BY <2>0, <2>2, <3>1, SsMoves DEF SsSearch, ssLimiter
  <2>3. CASE SsWaited(r)
    BY <2>3, SsMoves DEF SsWaited, ssLimiter
  <2> QED BY <2>1, <2>2, <2>3
<1> USE <1>1 DEF SsInv, SsSafe, SsOnly
<1>2. SsShape'
  BY DEF SsShape, SsLabels, SsHeld
<1>3. SsStored'
  BY DEF SsShape, SsStored, SsFields
<1>4. SsSlotted'
  BY DEF SsSlotted
<1>5. SsTypeOK'
  <2>1. ssTokens' \in Nat
    <3>1. CASE SsAllow(r)
      BY <3>1, AllowKeepsRate DEF SsBucket
    <3>2. CASE SsSearch(r) \/ SsWaited(r)
      BY <3>2 DEF SsSearch, SsWaited, ssLimiter, SsTypeOK
    <3> QED BY <3>1, <3>2
  <2>2. \A s \in SsRequests : SsLeading(s)' <=> SsLeading(s)
    BY DEF SsLeading
  <2>3. \A s \in SsRequests : (ssReq[s].pc = "wait" <=> ssReq[s].of # SsNever)'
    BY DEF SsTypeOK
  <2> QED BY <2>1, <2>2, <2>3 DEF SsTypeOK
<1>6. SsNoRedundantFetch'
  BY DEF SsNoRedundantFetch, SsFresh
<1>7. SsCachedIsComplete'
  BY DEF SsCachedIsComplete
<1>8. SsSlotsApart'
  BY DEF SsSlotsApart
<1> QED BY <1>2, <1>3, <1>4, <1>5, <1>6, <1>7, <1>8 DEF SsRest

(* Two flights never have one key. *)
LEMMA SsOneFlight ==
  ASSUME SsInv, NEW r \in SsRequests, NEW s \in SsRequests,
         SsLeading(r), SsLeading(s), SsKey[r] = SsKey[s]
  PROVE  r = s
BY DEF SsInv, SsSafe, SsTypeOK

(* Joining: the first becomes the leader, the others wait for it. *)
LEMMA SsJoins ==
  ASSUME SsInv, NEW r \in SsRequests, SsJoin(r)
  PROVE  SsRest'
<1> DEFINE k == SsKey[r]
<1>0. k \in SsKeys /\ r # SsNever /\ DOMAIN ssCalls = SsKeys
      /\ ssReq[r].pc = "join" /\ ssReq[r].of = SsNever /\ ssReq[r].slot = SsNever
      /\ UNCHANGED <<ssLimiter, ssFailed, ssCache, ssReleased, ssNomLast>>
  BY SsConstants DEF SsInv, SsShape, SsSafe, SsTypeOK, SsSlotted, SsJoin
<1>1. /\ SsOnly(r) /\ ssReq'[r].slot = SsNever
      /\ DOMAIN ssCalls' = SsKeys
      /\ \/ /\ ssReq'[r].pc = "recheck" /\ ssReq'[r].of = SsNever
            /\ ssCalls[k] = SsNever /\ ssCalls' = [ssCalls EXCEPT ![k] = r]
         \/ /\ ssReq'[r].pc = "wait" /\ ssReq'[r].of # SsNever
            /\ ssCalls' = ssCalls
  <2>1. CASE ssCalls[k] = SsNever
    BY <1>0, <2>1, SsMoves DEF SsJoin
  <2>2. CASE ssCalls[k] # SsNever
    BY <1>0, <2>2 DEF SsJoin, SsOnly, SsInv, SsShape, SsFields
  <2> QED BY <2>1, <2>2
<1> HIDE DEF k
<1> USE <1>0, <1>1 DEF SsInv, SsSafe, SsOnly, ssLimiter
<1>2. SsShape'
  BY DEF SsShape, SsLabels, SsHeld
<1>3. SsStored'
  BY DEF SsShape, SsStored, SsFields
<1>4. SsSlotted'
  BY DEF SsSlotted
<1>5. SsTypeOK'
  <2>1. \A s \in SsRequests : (SsLeading(s) <=> ssCalls[SsKey[s]] = s)'
    BY SsConstants DEF SsTypeOK, SsLeading, k
  <2>2. \A s \in SsRequests : (ssReq[s].pc = "wait" <=> ssReq[s].of # SsNever)'
    BY DEF SsTypeOK
  <2> QED BY <2>1, <2>2 DEF SsTypeOK
<1>6. SsNoRedundantFetch'
  BY DEF SsNoRedundantFetch, SsFresh
<1>7. SsCachedIsComplete'
  BY DEF SsCachedIsComplete
<1>8. SsSlotsApart'
  BY DEF SsSlotsApart
<1> QED BY <1>2, <1>3, <1>4, <1>5, <1>6, <1>7, <1>8 DEF SsRest

(* A slot is behind every slot there is. *)
LEMMA SsReserves ==
  ASSUME SsInv, NEW r \in SsRequests, SsReserve(r)
  PROVE  SsRest'
<1>1. /\ SsOnly(r) /\ ssReq[r].pc = "slot" /\ ssReq[r].of = SsNever
      /\ ssReq'[r].pc = "sleep" /\ ssReq'[r].of = SsNever
      /\ ssReq'[r].slot = SsSlot /\ ssNomLast' = SsSlot
      /\ (ssReq'[r].degraded <=> ssReq[r].degraded)
      /\ UNCHANGED <<ssShared, ssFailed>>
  BY DEF SsReserve, SsOnly, SsInv, SsShape, SsFields, SsSafe, SsTypeOK
<1>2. /\ SsSlot \in Nat /\ SsSlot # SsNever
      /\ ssNomLast # SsNever => SsSlot >= ssNomLast + SsInterval
  BY SsConstants DEF SsSlot, SsInv, SsSlotted, SsSafe, SsTypeOK
<1> USE <1>1, <1>2 DEF SsInv, SsSafe, SsOnly, ssShared, ssLimiter
<1>3. SsShape'
  BY DEF SsShape, SsLabels, SsHeld
<1>4. SsStored'
  BY DEF SsShape, SsStored, SsFields
<1>5. SsSlotted'
  BY DEF SsSlotted
<1>6. SsTypeOK'
  BY DEF SsTypeOK, SsLeading
<1>7. SsNoRedundantFetch'
  BY DEF SsNoRedundantFetch, SsFresh
<1>8. SsCachedIsComplete'
  BY DEF SsCachedIsComplete
<1>9. SsSlotsApart'
  <2>1. ASSUME NEW s \in SsRequests, ssReq[s].slot # SsNever
        PROVE  /\ ssReq[s].slot \in Nat /\ ssReq[s].slot <= ssNomLast
               /\ ssNomLast \in Nat /\ SsSlot - ssReq[s].slot >= SsInterval
    BY <2>1, SsConstants DEF SsSlotsApart, SsSlotted
  <2>2. ASSUME NEW s \in SsRequests, s # r
        PROVE  ssReq'[s].slot = ssReq[s].slot
    BY <2>2
  <2>3. ASSUME NEW s \in SsRequests, NEW t \in SsRequests, s # t,
               ssReq'[s].slot # SsNever, ssReq'[t].slot # SsNever
        PROVE  \/ ssReq'[s].slot - ssReq'[t].slot >= SsInterval
               \/ ssReq'[t].slot - ssReq'[s].slot >= SsInterval
    <3>1. CASE s = r
      BY <2>1, <2>2, <2>3, <3>1
    <3>2. CASE t = r
      BY <2>1, <2>2, <2>3, <3>2
    <3>3. CASE s # r /\ t # r
      BY <2>2, <2>3, <3>3 DEF SsSlotsApart
    <3> QED BY <3>1, <3>2, <3>3
  <2>4. ASSUME NEW s \in SsRequests, ssReq'[s].slot # SsNever
        PROVE  ssReq'[s].slot <= ssNomLast'
    <3>1. CASE s = r
      BY <3>1
    <3>2. CASE s # r
      BY <2>1, <2>2, <2>4, <3>2, SsConstants
    <3> QED BY <3>1, <3>2
  <2> QED BY <2>3, <2>4 DEF SsSlotsApart
<1> QED BY <1>3, <1>4, <1>5, <1>6, <1>7, <1>8, <1>9 DEF SsRest


(* A set that grows only below its limit, or by exchange, stays within it. *)
LEMMA KeepsSize ==
  ASSUME NEW S, NEW T, NEW k, NEW N \in Nat, IsFiniteSet(S), Cardinality(S) <= N,
         \/ T = S
         \/ T = S \cup {k} /\ (k \in S \/ Cardinality(S) < N)
         \/ \E old \in S : T = (S \ {old}) \cup {k}
  PROVE  IsFiniteSet(T) /\ Cardinality(T) <= N
<1>0. Cardinality(S) \in Nat
  BY FS_CardinalityType
<1>1. CASE T = S
  BY <1>1
<1>2. CASE T = S \cup {k} /\ (k \in S \/ Cardinality(S) < N)
  <2>1. CASE k \in S
    <3>1. T = S
      BY <1>2, <2>1
    <3> QED BY <3>1
  <2>2. CASE k \notin S
    <3>1. IsFiniteSet(T) /\ Cardinality(T) = Cardinality(S) + 1
      BY <1>2, <2>2, FS_AddElement
    <3> QED BY <1>0, <1>2, <2>2, <3>1
  <2> QED BY <2>1, <2>2
<1>3. ASSUME NEW old \in S, T = (S \ {old}) \cup {k}
      PROVE  IsFiniteSet(T) /\ Cardinality(T) <= N
  <2>1. IsFiniteSet(S \ {old}) /\ Cardinality(S \ {old}) = Cardinality(S) - 1
    BY <1>3, FS_RemoveElement
  <2>2. /\ IsFiniteSet(T)
        /\ Cardinality(T) \in {Cardinality(S \ {old}), Cardinality(S \ {old}) + 1}
    BY <1>3, <2>1, FS_AddElement
  <2> QED BY <1>0, <2>1, <2>2
<1> QED BY <1>1, <1>2, <1>3

(* What is stored is complete, and the cache stays within its size: the    *)
(* entry of a new key takes the place of another's.                        *)
LEMMA SsStores ==
  ASSUME SsInv, NEW r \in SsRequests, SsStore(r)
  PROVE  SsRest'
<1> DEFINE k == SsKey[r]
           e == [at |-> ssNow, by |-> r]
<1>0. k \in SsKeys /\ ssNow \in Nat /\ DOMAIN ssCache = SsKeys /\ IsFiniteSet(SsHeld)
      /\ e # SsNever /\ e.at = ssNow /\ e.by = r
  BY SsConstants DEF SsInv, SsShape, SsSafe, SsTypeOK
<1>1. /\ SsOnly(r) /\ ssReq[r].pc = "store" /\ ssReq'[r].pc = "release"
      /\ ssReq[r].of = SsNever /\ ssReq[r].slot = SsNever
      /\ ssReq'[r].of = SsNever /\ ssReq'[r].slot = SsNever
      /\ UNCHANGED <<ssLimiter, ssFailed, ssCalls, ssReleased, ssNomLast>>
  BY SsMoves DEF SsStore, SsInv, SsSafe, SsTypeOK, SsSlotted
<1>2. /\ DOMAIN ssCache' = SsKeys
      /\ \A j \in SsKeys \ {k} : ssCache'[j] \in {ssCache[j], SsNever}
      /\ ssCache'[k] \in {ssCache[k], e}
      /\ ssCache'[k] # ssCache[k] => ~ssReq[r].degraded
      /\ \/ SsHeld' = SsHeld
         \/ SsHeld' = SsHeld \cup {k} /\ (k \in SsHeld \/ Cardinality(SsHeld) < SsMaxEntries)
         \/ \E old \in SsHeld : SsHeld' = (SsHeld \ {old}) \cup {k}
  <2>1. CASE ssReq[r].degraded
    BY <1>0, <2>1 DEF SsStore, SsHeld
  <2>2. CASE ~ssReq[r].degraded /\ (k \in SsHeld \/ Cardinality(SsHeld) < SsMaxEntries)
    <3>1. ssCache' = [ssCache EXCEPT ![k] = e]
      BY <2>2 DEF SsStore, SsCached, SsHeld
    <3>2. SsHeld' = SsHeld \cup {k}
      BY <1>0, <3>1 DEF SsHeld
    <3> HIDE DEF k, e
    <3> QED BY <1>0, <2>2, <3>1, <3>2
  <2>3. CASE ~ssReq[r].degraded /\ ~(k \in SsHeld \/ Cardinality(SsHeld) < SsMaxEntries)
    <3>1. PICK old \in SsHeld : ssCache' = [ssCache EXCEPT ![k] = e, ![old] = SsNever]
      BY <2>3 DEF SsStore, SsCached, SsHeld
    <3>2. old # k /\ old \in SsKeys
      BY <2>3 DEF SsHeld
    <3>3. SsHeld' = (SsHeld \ {old}) \cup {k}
      BY <1>0, <3>1, <3>2 DEF SsHeld
    <3> HIDE DEF k, e
    <3> QED BY <1>0, <2>3, <3>1, <3>2, <3>3
  <2> QED BY <2>1, <2>2, <2>3
<1> HIDE DEF k, e
<1> USE <1>0, <1>1, <1>2 DEF SsInv, SsSafe, SsOnly, ssLimiter
<1>3. IsFiniteSet(SsHeld') /\ Cardinality(SsHeld') <= SsMaxEntries
  <2>0. Cardinality(SsHeld) \in Nat /\ Cardinality(SsHeld) <= SsMaxEntries /\ SsMaxEntries \in Nat
    BY FS_CardinalityType, SsConstants DEF SsTypeOK, SsHeld
  <2> QED BY <2>0, KeepsSize
<1>4. SsShape'
  <2>1. \A j \in SsKeys : (ssCache[j] # SsNever => ssCache[j].at \in Nat)'
    BY DEF SsShape
  <2> QED BY <1>3, <2>1 DEF SsShape, SsLabels
<1>5. SsStored'
  <2>1. ASSUME NEW j \in SsKeys, ssCache'[j] # SsNever
        PROVE  ssCache'[j].by \in SsRequests /\ ssReq'[ssCache'[j].by].pc \in {"release", "delete", "done"}
    BY <2>1 DEF SsStored
  <2>2. ASSUME NEW s \in ssFailed
        PROVE  (/\ s \in SsRequests
                /\ \/ ssReq[s].pc \in {"release", "delete", "done"}
                   \/ /\ ssReq[s].pc \in {"slot", "sleep", "geocode", "near", "store"}
                      /\ ssReq[s].degraded)'
    BY <2>2 DEF SsStored
  <2> QED BY <2>1, <2>2 DEF SsStored
<1>6. SsSlotted'
  BY DEF SsSlotted
<1>7. SsTypeOK'
  BY <1>3 DEF SsTypeOK, SsLeading, SsHeld
<1>8. SsNoRedundantFetch'
  <2>1. ASSUME NEW s \in SsRequests,
               ssReq'[s].pc \in {"direct", "slot", "sleep", "geocode", "near"}
        PROVE  ~SsFresh(SsKey[s])'
    <3>1. s # r /\ ssReq[s].pc \in {"direct", "slot", "sleep", "geocode", "near"}
      BY <2>1
    <3>2. SsKey[s] # k /\ SsKey[s] \in SsKeys
      BY <3>1, SsOneFlight, SsConstants DEF SsLeading, k
    <3>3. ~SsFresh(SsKey[s])
      BY <3>1 DEF SsNoRedundantFetch
    <3> QED BY <3>2, <3>3 DEF SsFresh
  <2> QED BY <2>1 DEF SsNoRedundantFetch
<1>9. SsCachedIsComplete'
  <2>1. ~ssReq[r].degraded => r \notin ssFailed
    BY DEF SsStored
  <2> QED BY <2>1 DEF SsCachedIsComplete
<1>10. SsSlotsApart'
  BY DEF SsSlotsApart
<1> QED BY <1>4, <1>5, <1>6, <1>7, <1>8, <1>9, <1>10 DEF SsRest

(* A flight ends: its waiters are released, then it leaves the map. *)
LEMMA SsEnds ==
  ASSUME SsInv, NEW r \in SsRequests, SsRelease(r) \/ SsDelete(r)
  PROVE  SsRest'
<1> DEFINE k == SsKey[r]
<1>0. k \in SsKeys /\ SsNever \notin SsRequests
  BY SsConstants
<1>1. /\ SsOnly(r)
      /\ ssReq'[r].of = SsNever /\ ssReq'[r].slot = SsNever
      /\ ssReleased' \subseteq SsRequests
      /\ UNCHANGED <<ssLimiter, ssFailed, ssCache, ssNomLast>>
      /\ DOMAIN ssCalls' = SsKeys
      /\ \/ /\ ssReq[r].pc = "release" /\ ssReq'[r].pc = "delete" /\ ssCalls' = ssCalls
         \/ /\ ssReq[r].pc = "delete" /\ ssReq'[r].pc = "done"
            /\ ssCalls' = [ssCalls EXCEPT ![k] = SsNever]
  <2>1. CASE SsRelease(r)
    BY <2>1, SsMoves DEF SsRelease, SsInv, SsSafe, SsTypeOK, SsSlotted, SsShape
  <2>2. CASE SsDelete(r)
    BY <2>2, SsMoves DEF SsDelete, SsInv, SsSafe, SsTypeOK, SsShape
  <2> QED BY <2>1, <2>2
<1> HIDE DEF k
<1> USE <1>0, <1>1 DEF SsInv, SsSafe, SsOnly, ssLimiter
<1>2. SsShape'
  BY DEF SsShape, SsLabels, SsHeld
<1>3. SsStored'
  BY DEF SsShape, SsStored, SsFields
<1>4. SsSlotted'
  BY DEF SsSlotted
<1>5. SsTypeOK'
  <2>1. \A s \in SsRequests : (SsLeading(s) <=> ssCalls[SsKey[s]] = s)'
    BY SsConstants DEF SsTypeOK, SsLeading, SsShape, k
  <2>2. \A s \in SsRequests : (ssReq[s].pc = "wait" <=> ssReq[s].of # SsNever)'
    BY DEF SsTypeOK
  <2> QED BY <2>1, <2>2 DEF SsTypeOK
<1>6. SsNoRedundantFetch'
  BY DEF SsNoRedundantFetch, SsFresh
<1>7. SsCachedIsComplete'
  BY DEF SsCachedIsComplete
<1>8. SsSlotsApart'
  BY DEF SsSlotsApart
<1> QED BY <1>2, <1>3, <1>4, <1>5, <1>6, <1>7, <1>8 DEF SsRest

(* The whole invariant, and every step. *)
LEMMA SsInductive ==
  /\ SsInit => SsInv
  /\ SsInv /\ [SsNext]_ssVars => SsInv'
<1>1. ASSUME SsInit PROVE SsInv
  <2> USE <1>1, SsConstants DEF SsInit
  <2>1. SsHeld = {}
    BY DEF SsHeld
  <2>2. SsShape
    BY <2>1, FS_EmptySet DEF SsShape, SsIdle, SsFields, SsLabels
  <2>3. SsStored /\ SsSlotted /\ SsNoRedundantFetch /\ SsCachedIsComplete /\ SsSlotsApart
    BY DEF SsStored, SsSlotted, SsIdle, SsNoRedundantFetch, SsCachedIsComplete, SsSlotsApart
  <2>4. ssAllowed \in Seq(Nat) /\ Len(ssAllowed) = 0 /\ DOMAIN ssAllowed = {}
    BY EmptySeq
  <2>5. SsTypeOK
    <3>1. Cardinality(SsHeld) = 0
      BY <2>1, FS_EmptySet
    <3>2. \A r \in SsRequests : SsLeading(r) <=> ssCalls[SsKey[r]] = r
      BY DEF SsLeading, SsIdle
    <3> QED BY <3>1, <3>2 DEF SsTypeOK, SsIdle, SsHeld
  <2> QED BY <2>2, <2>3, <2>4, <2>5 DEF SsInv, SsSafe, SsBucket, SsRateKept
<1>2. ASSUME SsInv, [SsNext]_ssVars PROVE SsInv'
  <2> SUFFICES SsRest' /\ SsBucket' /\ SsRateKept'
    BY DEF SsInv, SsSafe, SsRest
  <2> USE <1>2
  <2>1. ASSUME UNCHANGED ssVars PROVE SsRest' /\ SsBucket' /\ SsRateKept'
    BY <2>1 DEF ssVars, SsInv, SsSafe, SsRest, SsBucket, SsRateKept, SsShape, SsStored,
       SsSlotted, SsTypeOK, SsNoRedundantFetch, SsCachedIsComplete, SsSlotsApart,
       SsHeld, SsLeading, SsFresh
  <2>2. ASSUME SsTick PROVE SsRest' /\ SsBucket' /\ SsRateKept'
    <3>1. ssNow \in Nat /\ ssNow' = ssNow + 1 /\ ssNow < SsMaxNow /\ SsMaxNow \in Nat
          /\ UNCHANGED <<ssTokens, ssLast, ssCache, ssCalls, ssReleased, ssNomLast,
                   ssReq, ssAllowed, ssFailed>>
      BY <2>2, SsConstants DEF SsTick, SsInv, SsSafe, SsTypeOK
    <3>2. SsBucket'
      BY <3>1 DEF SsInv, SsBucket
    <3>3. SsNoRedundantFetch'
      BY <3>1, SsConstants DEF SsInv, SsSafe, SsShape, SsNoRedundantFetch, SsFresh
    <3>4. SsTypeOK'
      BY <3>1 DEF SsInv, SsSafe, SsTypeOK, SsLeading
    <3> QED BY <3>1, <3>2, <3>3, <3>4 DEF SsInv, SsSafe, SsRest, SsRateKept, SsShape, SsStored,
              SsSlotted, SsCachedIsComplete, SsSlotsApart, SsHeld
  <2>3. ASSUME NEW r \in SsRequests, SsAllow(r) PROVE SsRest' /\ SsBucket' /\ SsRateKept'
    BY <2>3, AllowKeepsRate, SsWalks
  <2>4. ASSUME NEW r \in SsRequests, SsFly(r) PROVE SsRest' /\ SsBucket' /\ SsRateKept'
    <3>1. SsRest'
      BY <2>4, SsWalks, SsJoins, SsReserves, SsStores, SsEnds, SsFlies, SsFlownKeeps DEF SsFly
    <3>2. UNCHANGED ssLimiter
      BY <2>4 DEF SsFly, ssShared, SsSearch, SsJoin, SsWaited, SsRecheck, SsReserve, SsStore,
         SsRelease, SsDelete, SsDirect, SsNominatim, SsGeocode, SsNear
    <3> QED BY <3>1, <3>2 DEF SsInv, SsSafe, SsBucket, SsRateKept, ssLimiter
  <2> QED BY <2>1, <2>2, <2>3, <2>4 DEF SsNext
<1> QED BY <1>1, <1>2

(* For any number of requests and keys and any size of the cache and the   *)
(* bucket: one flight per key and none beside a fresh entry, only complete *)
(* answers kept, the slots of the geocoder and the rate of the limiter     *)
(* kept.                                                                   *)
THEOREM SearchIsSound == SsSpec => []SsSafe
<1>1. SsInv => SsSafe
  BY DEF SsInv
<1> QED BY <1>1, SsInductive, PTL DEF SsSpec

(* Only the loop itself takes a change of the feed off the way to it.       *)
I3Carried == DOMAIN i3Pc = I3Procs /\ I3ChangeCarried

LEMMA I3CarriedInductive ==
  /\ I3Init => I3Carried
  /\ I3Carried /\ [I3Next]_i3Vars => I3Carried'
<1>1. I3Init => I3Carried
  BY DEF I3Init, I3Carried, I3ChangeCarried
<1>2. ASSUME I3Carried, [I3Next]_i3Vars PROVE I3Carried'
  <2> USE <1>2 DEF I3Carried, I3ChangeCarried, I3Procs
  <2>1. CASE UNCHANGED i3Vars
    BY <2>1 DEF i3Vars
  <2>2. ASSUME NEW u \in I3Urls \cup {I3NoUrl}, I3SetUrl(u) PROVE I3Carried'
    BY <2>2 DEF I3SetUrl
  <2>3. CASE I3Notify \/ I3NotifyFails \/ I3Shutdown
    BY <2>3 DEF I3Notify, I3NotifyFails, I3Shutdown, I3Kicked, i3History
  <2>4. CASE I3Start \/ I3Tick \/ I3TakeKick \/ I3Leave \/ I3Call
    BY <2>4 DEF I3Start, I3Tick, I3TakeKick, I3Leave, I3Call, I3Go, i3Setting, i3History
  <2>5. ASSUME NEW p \in I3Procs, I3Refresh(p) PROVE I3Carried'
    <3>1. CASE I3Read(p)
      BY <3>1 DEF I3Read, I3Return, I3Go, i3Setting
    <3>2. CASE I3ReadFails(p)
      BY <3>2 DEF I3ReadFails, I3Return, I3Go, i3Setting
    <3>3. ASSUME NEW rows \in {"some", "empty", "error"}, I3Fetched(p, rows)
          PROVE  I3Carried'
      BY <3>3 DEF I3Fetched, I3Return, I3Go, i3Setting, i3History
    <3>4. ASSUME NEW ok \in BOOLEAN, I3Replace(p, ok) PROVE I3Carried'
      BY <3>4 DEF I3Replace, I3Return, I3Go, i3Setting, i3History
    <3> QED BY <2>5, <3>1, <3>2, <3>3, <3>4 DEF I3Refresh
  <2> QED BY <2>1, <2>2, <2>3, <2>4, <2>5 DEF I3Next
<1> QED BY <1>1, <1>2

(* Together: an invalidated list is not served, a partial or throttled      *)
(* answer of a search is not kept, and a changed feed is on its way to the  *)
(* loop as long as the settings could be read.                              *)
THEOREM CachesAreSound == SsSpec /\ SlSpec /\ I3Spec => []CachesSound
<1>1. SsInv => SsSafe
  BY DEF SsInv
<1>2. SlInv => SlCacheCurrent
  BY DEF SlInv
<1>3. I3Carried => I3ChangeCarried
  BY DEF I3Carried
<1> QED BY <1>1, <1>2, <1>3, SsInductive, SlInductive, I3CarriedInductive, PTL
        DEF SsSpec, SlSpec, I3Spec, CachesSound

(***************************************************************************)
(* SettingsDoc: what GET shows, what PUT merges, checks and writes.        *)
(***************************************************************************)

DocHosts == {"h1", "h2"}
DocPairs == DocHosts \X Nat

(* Channels as they are stored, as a client sees them, and as it may send  *)
(* them: with secrets, with masks, with either.                            *)
DocStoredURLs == {u \in [host : DocHosts, key : DocPairs] : u.key[1] = u.host}
DocSeenURLs   == [host : DocHosts, key : {DocMask}]
DocSentURLs   == DocStoredURLs \cup DocSeenURLs

DocChansWith(tokens, urls) ==
  [type : {"webhook", "apprise"}, url : DocHosts \cup {""}, token : tokens, urls : Seq(urls)]
DocStoredChans ==
  {ch \in DocChansWith({DocNil} \cup DocPairs, DocStoredURLs) :
     ch.token # DocNil => ch.token[1] = ch.url}
DocSeenChans == DocChansWith({DocNil, DocMask}, DocSeenURLs)
DocSentChans ==
  {ch \in DocChansWith({DocNil, DocMask} \cup DocPairs, DocSentURLs) :
     ch.token \in {DocNil, DocMask} \/ ch.token[1] = ch.url}

DocList(chans, S) ==
  /\ DOMAIN chans \subseteq {"a", "b"} /\ chans \in [DOMAIN chans -> S]
  /\ "b" \in DOMAIN chans => chans["b"].urls # <<>>

DocGood(s) ==
  /\ s = [k \in DocKeys |-> s[k]]
  /\ s["secret"] \in {"", "s1"} /\ s["legacy"] \in {"", "s2"} /\ s["bin"] # "b3"
  /\ DocList(s["chans"], DocStoredChans)

DocSeen(d) ==
  /\ d = [k \in DocKeys |-> d[k]]
  /\ d["secret"] \in {"", DocMask} /\ d["legacy"] \in {"", DocMask} /\ d["bin"] # "b3"
  /\ DocList(d["chans"], DocSeenChans)

DocBody(b) ==
  /\ DOMAIN b \subseteq DocKeys
  /\ \A k \in DOMAIN b \cap DocSecrets : b[k] \in {"", DocMask}
  /\ "chans" \in DOMAIN b => DocList(b["chans"], DocSentChans)

DocWriting(w) ==
  /\ DOMAIN w \subseteq DocKeys
  /\ \A k \in DOMAIN w \cap DocSecrets : w[k] = ""
  /\ "bin" \in DOMAIN w => w["bin"] # "b3"
  /\ "chans" \in DOMAIN w => DocList(w["chans"], DocStoredChans)
  /\ \A k \in DOMAIN w \cap docLocked : k = "legacy" /\ "type" \in DOMAIN w

(* The rules of the section relate two keys each, and are broken when the  *)
(* values of both hurt.                                                    *)
DocHurts(s, k) ==
  \/ k = "enabled" /\ s.enabled
  \/ k = "url" /\ s.url = ""
  \/ k = "type" /\ s.type = "custom"
  \/ k = "hname" /\ s.hname = ""

DocRelated(k, l) ==
  <<k, l>> \in {<<"enabled", "url">>, <<"url", "enabled">>,
                <<"type", "hname">>, <<"hname", "type">>}

DocRuled == {"enabled", "url", "type", "hname"}

(* The constants and the keys, written out.                                *)
LEMMA DocConstants ==
  /\ DocMask # DocNil /\ DocMask \notin {"", "s1", "s2"} /\ DocMask \notin DocPairs /\ DocNil # ""
  /\ DocLocks \subseteq SUBSET DocKeys
  /\ DocSecrets = {"secret", "legacy"} /\ DocSecrets \subseteq DocKeys
  /\ DocExport = {"enabled", "url", "type", "hname", "secret", "legacy"}
  /\ DocKeys = DocExport \cup {"units", "tol", "bin", "chans"}
<1> QED BY DocAssumption DEF DocPairs, DocEntered, DocHosts, DocSecrets, DocKeys, DocExport

(* A redacted URL has the mask for a key.                                  *)
LEMMA DocRedacted ==
  ASSUME NEW u \in DocStoredURLs
  PROVE  DocRedact(u) = [host |-> u.host, key |-> DocMask] /\ DocRedact(u) \in DocSeenURLs
<1> QED BY DEF DocStoredURLs, DocSeenURLs, DocRedact

(* What is left of a channel that is masked.                               *)
LEMMA DocMaskedChannel ==
  ASSUME NEW ch \in DocStoredChans
  PROVE  /\ DocMaskChannel(ch) \in DocSeenChans
         /\ DocMaskChannel(ch).type = ch.type /\ DocMaskChannel(ch).url = ch.url
         /\ DocMaskChannel(ch).token = IF ch.token = DocNil THEN DocNil ELSE DocMask
         /\ DocMaskChannel(ch).urls = [j \in DOMAIN ch.urls |-> DocRedact(ch.urls[j])]
         /\ DocMaskChannel(ch).urls # <<>> <=> ch.urls # <<>>
<1> DEFINE us == [j \in DOMAIN ch.urls |-> DocRedact(ch.urls[j])]
           tk == IF ch.token = DocNil THEN DocNil ELSE DocMask
<1>1. /\ ch = [type |-> ch.type, url |-> ch.url, token |-> ch.token, urls |-> ch.urls]
      /\ ch.type \in {"webhook", "apprise"} /\ ch.url \in DocHosts \cup {""}
      /\ ch.urls \in Seq(DocStoredURLs)
  BY DEF DocStoredChans, DocChansWith
<1>2. DocMaskChannel(ch) = [type |-> ch.type, url |-> ch.url, token |-> tk, urls |-> us]
  <2>1. DocMaskChannel(ch) = [ch EXCEPT !.token = tk, !.urls = us]
    BY DEF DocMaskChannel
  <2> HIDE DEF us, tk
  <2> QED BY <1>1, <2>1
<1>3. PICK n \in Nat : DOMAIN ch.urls = 1 .. n /\ Len(ch.urls) = n
                       /\ \A j \in 1 .. n : ch.urls[j] \in DocStoredURLs
  BY <1>1, LenProperties, ElementOfSeq
<1>4. \A j \in 1 .. n : DocRedact(ch.urls[j]) \in DocSeenURLs
  BY <1>3, DocRedacted
<1>5. us \in Seq(DocSeenURLs) /\ Len(us) = n
  BY <1>3, <1>4
<1>6. us # <<>> <=> ch.urls # <<>>
  BY <1>1, <1>3, <1>5, EmptySeq
<1>7. tk \in {DocNil, DocMask}
  OBVIOUS
<1> HIDE DEF us, tk
<1>8. [type |-> ch.type, url |-> ch.url, token |-> tk, urls |-> us] \in DocSeenChans
  BY <1>1, <1>5, <1>7 DEF DocSeenChans, DocChansWith
<1> QED BY <1>2, <1>6, <1>8 DEF us, tk

(* What GET answers has only masks for secrets.                            *)
LEMMA DocViewIsSeen ==
  ASSUME DocGood(docStored)
  PROVE  DocSeen(DocView)
<1> DEFINE cs == [i \in DOMAIN docStored.chans |-> DocMaskChannel(docStored.chans[i])]
<1>1. /\ \A k \in DocSecrets : DocView[k] = DocMasked(docStored[k])
      /\ DocView["chans"] = cs /\ DocView["bin"] = docStored["bin"]
      /\ DOMAIN DocView = DocKeys
  BY DocConstants DEF DocView
<1>2. DocView = [k \in DocKeys |-> DocView[k]]
  BY DEF DocView
<1>3. DocList(docStored["chans"], DocStoredChans)
  BY DEF DocGood
<1>4. DocList(cs, DocSeenChans)
  BY <1>3, DocMaskedChannel DEF DocList
<1>5. \A k \in DocSecrets : DocView[k] \in {"", DocMask}
  BY <1>1 DEF DocMasked
<1> HIDE DEF cs
<1> QED BY <1>1, <1>2, <1>4, <1>5, DocConstants DEF DocSeen, DocGood

(* A list of channels of some kind is one of any wider kind.               *)
LEMMA DocListWider ==
  ASSUME NEW chans, NEW S, NEW T, S \subseteq T, DocList(chans, S)
  PROVE  DocList(chans, T)
<1> QED BY DEF DocList

(* A client may send what it saw.                                          *)
LEMMA DocSeenIsSent == DocSeenChans \subseteq DocSentChans
<1>1. Seq(DocSeenURLs) \subseteq Seq(DocSentURLs)
  BY DEF DocSentURLs
<1> SUFFICES ASSUME NEW ch \in DocSeenChans PROVE ch \in DocSentChans
  OBVIOUS
<1>2. ch.token \in {DocNil, DocMask}
  BY DEF DocSeenChans, DocChansWith
<1>3. ch \in DocChansWith({DocNil, DocMask} \cup DocPairs, DocSentURLs)
  BY <1>1 DEF DocSeenChans, DocChansWith
<1> QED BY <1>2, <1>3 DEF DocSentChans

(* What a client may send. *)
LEMMA DocEditsAreSent ==
  ASSUME NEW chans, DocList(chans, DocSeenChans), NEW cs \in DocChannelEdits(chans)
  PROVE  DocList(cs, DocSentChans)
<1>0. DocList(chans, DocSentChans) /\ DOMAIN chans \subseteq {"a", "b"}
      /\ ("b" \in DOMAIN chans => chans["b"].urls # <<>>)
      /\ chans \in [DOMAIN chans -> DocSeenChans]
  BY DocSeenIsSent, DocListWider DEF DocList
<1>1. CASE \E i \in DOMAIN chans : cs = Restrict(chans, DOMAIN chans \ {i})
  BY <1>0, <1>1 DEF DocList, Restrict
<1>2. CASE \E i \in DOMAIN chans \cap {"a"} : cs = [chans EXCEPT ![i].url = "h2"]
  <2>1. "a" \in DOMAIN chans /\ cs = [chans EXCEPT !["a"].url = "h2"]
    BY <1>2
  <2>2. [chans["a"] EXCEPT !.url = "h2"] \in DocSeenChans
    BY <1>0, <2>1 DEF DocSeenChans, DocChansWith, DocHosts
  <2>3. cs \in [DOMAIN chans -> DocSeenChans] /\ DOMAIN cs = DOMAIN chans
        /\ ("b" \in DOMAIN chans => cs["b"] = chans["b"])
    BY <1>0, <2>1, <2>2
  <2> QED BY <1>0, <2>3, DocSeenIsSent DEF DocList
<1>3. CASE \E i \in DOMAIN chans \cap {"a"} : cs = [chans EXCEPT ![i] = DocWebhook("h2", <<"h2", 1>>)]
  <2>1. "a" \in DOMAIN chans /\ cs = [chans EXCEPT !["a"] = DocWebhook("h2", <<"h2", 1>>)]
    BY <1>3
  <2>2. DocWebhook("h2", <<"h2", 1>>) \in DocSentChans
    <3>1. <<>> \in Seq(DocSentURLs)
      OBVIOUS
    <3>2. <<"h2", 1>> \in DocPairs /\ <<"h2", 1>>[1] = "h2" /\ "h2" \in DocHosts
      BY DEF DocPairs, DocHosts
    <3> QED BY <3>1, <3>2 DEF DocWebhook, DocSentChans, DocChansWith
  <2>3. cs \in [DOMAIN chans -> DocSentChans] /\ DOMAIN cs = DOMAIN chans
        /\ ("b" \in DOMAIN chans => cs["b"] = chans["b"])
    BY <1>0, <2>1, <2>2, DocSeenIsSent
  <2> QED BY <1>0, <2>3 DEF DocList
<1>4. CASE \E i \in DOMAIN chans \cap {"b"} :
             cs = [chans EXCEPT ![i].urls = <<DocURL("h2", 1)>> \o Tail(@)]
  <2> DEFINE old == chans["b"].urls
             new == <<DocURL("h2", 1)>> \o Tail(old)
  <2>1. "b" \in DOMAIN chans /\ cs = [chans EXCEPT !["b"].urls = new]
    BY <1>4
  <2>2. old \in Seq(DocSeenURLs) /\ old # <<>> /\ chans["b"] \in DocSeenChans
    BY <1>0, <2>1 DEF DocSeenChans, DocChansWith
  <2>3. Tail(old) \in Seq(DocSentURLs)
    BY <2>2, HeadTailProperties DEF DocSentURLs
  <2>4. DocURL("h2", 1) \in DocSentURLs
    <3>1. <<"h2", 1>> \in DocPairs /\ <<"h2", 1>>[1] = "h2" /\ "h2" \in DocHosts
      BY DEF DocPairs, DocHosts
    <3> QED BY <3>1 DEF DocURL, DocSentURLs, DocStoredURLs
  <2>5. new \in Seq(DocSentURLs) /\ new # <<>>
    <3>1. <<DocURL("h2", 1)>> \in Seq(DocSentURLs) /\ Len(<<DocURL("h2", 1)>>) = 1
      BY <2>4
    <3>2. new \in Seq(DocSentURLs) /\ Len(new) = 1 + Len(Tail(old)) /\ Len(Tail(old)) \in Nat
      BY <2>3, <3>1, ConcatProperties, LenProperties
    <3> QED BY <3>2, EmptySeq
  <2> HIDE DEF new, old
  <2>6. [chans["b"] EXCEPT !.urls = new] \in DocSentChans
        /\ [chans["b"] EXCEPT !.urls = new].urls = new
    BY <2>2, <2>5 DEF DocSeenChans, DocSentChans, DocChansWith
  <2>7. cs \in [DOMAIN chans -> DocSentChans] /\ DOMAIN cs = DOMAIN chans
        /\ cs["b"] = [chans["b"] EXCEPT !.urls = new]
    BY <1>0, <2>1, <2>6, DocSeenIsSent
  <2> QED BY <1>0, <2>5, <2>6, <2>7 DEF DocList
<1> QED BY <1>1, <1>2, <1>3, <1>4 DEF DocChannelEdits

(* What a client sends has masks or nothing for the plain secrets, and     *)
(* channels of the kinds above; only one with a token names the third      *)
(* binary.                                                                 *)
LEMMA DocBodyIs ==
  ASSUME NEW c \in DocClients, NEW d, DocSeen(d), NEW b \in DocBodies(c, d)
  PROVE  DocBody(b) /\ ("bin" \in DOMAIN b /\ b["bin"] = "b3" => c \in DocByToken)
<1>0. DocKeys = {"enabled", "url", "type", "hname", "secret", "legacy", "units", "tol", "bin", "chans"}
      /\ DocSecrets = {"secret", "legacy"}
  BY DocConstants
<1>1. CASE b = DocEcho(d)
  <2>1. DOMAIN b \subseteq DocKeys /\ \A k \in DOMAIN b : b[k] = d[k]
    BY <1>1 DEF DocEcho, Restrict
  <2>2. DocList(d["chans"], DocSentChans)
    BY DocSeenIsSent, DocListWider DEF DocSeen
  <2> QED BY <1>0, <2>1, <2>2 DEF DocBody, DocSeen
<1>2. CASE \E k \in {"enabled", "url", "type", "hname"} : \E v : b = DocOne(k, v)
  BY <1>0, <1>2 DEF DocOne, DocBody
<1>3. CASE b = DocOne("bin", IF c \in DocByToken THEN "b3" ELSE "b2")
  BY <1>0, <1>3 DEF DocOne, DocBody
<1>4. CASE b = [k \in {"units", "tol"} |-> IF k = "units" THEN "MB/s" ELSE DocNil]
  BY <1>0, <1>4 DEF DocBody
<1>5. CASE \E cs \in DocChannelEdits(d.chans) : b = DocOne("chans", cs)
  <2>1. PICK cs \in DocChannelEdits(d.chans) : b = DocOne("chans", cs)
    BY <1>5
  <2>2. DocList(cs, DocSentChans)
    BY DocEditsAreSent DEF DocSeen
  <2>3. DOMAIN b = {"chans"} /\ b["chans"] = cs
    BY <2>1 DEF DocOne
  <2> QED BY <1>0, <2>2, <2>3 DEF DocBody
<1> QED BY <1>1, <1>2, <1>3, <1>4, <1>5 DEF DocBodies

-----------------------------------------------------------------------------
(* What is written *)

(* The merge of the Apprise URLs puts a stored URL for every mask, or it   *)
(* is refused.                                                             *)
LEMMA DocMergedURLs ==
  ASSUME NEW sub \in Seq(DocSentURLs), NEW old \in Seq(DocStoredURLs), ~DocURLsLost(sub, old)
  PROVE  /\ DocMergeURLs(sub, old) \in Seq(DocStoredURLs)
         /\ DocMergeURLs(sub, old) # <<>> <=> sub # <<>>
<1>1. PICK n \in Nat : DOMAIN sub = 1 .. n /\ Len(sub) = n
                       /\ \A i \in 1 .. n : sub[i] \in DocSentURLs
  BY LenProperties, ElementOfSeq
<1>2. \A j \in DOMAIN old : old[j] \in DocStoredURLs
  BY LenProperties, ElementOfSeq
<1>3. ASSUME NEW i \in 1 .. n
      PROVE  (IF DocHit(sub, old, i) = {} THEN sub[i]
              ELSE old[CHOOSE j \in DocHit(sub, old, i) : TRUE]) \in DocStoredURLs
  <2>1. CASE DocHit(sub, old, i) = {}
    <3>1. sub[i].key # DocMask
      BY <1>1, <2>1 DEF DocURLsLost
    <3>2. sub[i] \notin DocSeenURLs
      BY <3>1 DEF DocSeenURLs
    <3> QED BY <1>1, <2>1, <3>2 DEF DocSentURLs
  <2>2. CASE DocHit(sub, old, i) # {}
    <3>1. (CHOOSE j \in DocHit(sub, old, i) : TRUE) \in DocHit(sub, old, i)
      BY <2>2
    <3>2. DocHit(sub, old, i) \subseteq DOMAIN old
      BY DEF DocHit
    <3> QED BY <1>2, <2>2, <3>1, <3>2
  <2> QED BY <2>1, <2>2
<1> DEFINE f(i) == IF DocHit(sub, old, i) = {} THEN sub[i]
                   ELSE old[CHOOSE j \in DocHit(sub, old, i) : TRUE]
<1>4. DocMergeURLs(sub, old) = [i \in 1 .. n |-> f(i)]
  BY <1>1 DEF DocMergeURLs
<1>5. \A i \in 1 .. n : f(i) \in DocStoredURLs
  BY <1>3
<1> HIDE DEF f
<1>6. DocMergeURLs(sub, old) \in Seq(DocStoredURLs) /\ Len(DocMergeURLs(sub, old)) = n
  BY <1>4, <1>5
<1> QED BY <1>1, <1>6, EmptySeq

(* A channel that passes the checks is merged into one without masks whose *)
(* secrets are those of its destination.                                   *)
LEMMA DocMergedChannel ==
  ASSUME NEW ch \in DocSentChans, NEW old, old \in DocStoredChans \/ old = DocNil,
         DocChannelOk(ch, old)
  PROVE  /\ DocMergeChannel(ch, old) \in DocStoredChans
         /\ DocMergeChannel(ch, old).urls # <<>> <=> ch.urls # <<>>
<1> DEFINE tk == DocToken(ch, old)
           us == DocMergeURLs(ch.urls, DocURLsOf(old))
<1>1. /\ ch = [type |-> ch.type, url |-> ch.url, token |-> ch.token, urls |-> ch.urls]
      /\ ch.type \in {"webhook", "apprise"} /\ ch.url \in DocHosts \cup {""}
      /\ ch.urls \in Seq(DocSentURLs)
      /\ ch.token \in {DocNil, DocMask} \cup DocPairs
      /\ ch.token \in {DocNil, DocMask} \/ ch.token[1] = ch.url
  BY DEF DocSentChans, DocChansWith
<1>2. DocMergeChannel(ch, old) = [type |-> ch.type, url |-> ch.url, token |-> tk, urls |-> us]
  <2>1. DocMergeChannel(ch, old) = [ch EXCEPT !.token = tk, !.urls = us]
    BY DEF DocMergeChannel
  <2> HIDE DEF us, tk
  <2> QED BY <1>1, <2>1
<1>3. DocURLsOf(old) \in Seq(DocStoredURLs)
  <2>1. <<>> \in Seq(DocStoredURLs)
    BY EmptySeq
  <2> QED BY <2>1 DEF DocURLsOf, DocStoredChans, DocChansWith
<1>4. us \in Seq(DocStoredURLs) /\ (us # <<>> <=> ch.urls # <<>>)
  BY <1>1, <1>3, DocMergedURLs DEF DocChannelOk
<1>5. tk \in {DocNil} \cup DocPairs /\ (tk # DocNil => tk[1] = ch.url)
  <2>1. CASE ch.token = DocMask
    <3>1. old # DocNil /\ old.url = ch.url /\ tk = old.token
      BY <2>1 DEF DocChannelOk, DocMayKeep, DocToken
    <3>2. old \in DocStoredChans
      BY <3>1
    <3> QED BY <3>1, <3>2 DEF DocStoredChans, DocChansWith
  <2>2. CASE ch.token # DocMask
    <3>1. tk = ch.token
      BY <2>2 DEF DocToken
    <3> QED BY <1>1, <2>2, <3>1
  <2> QED BY <2>1, <2>2
<1> HIDE DEF us, tk
<1>6. [type |-> ch.type, url |-> ch.url, token |-> tk, urls |-> us] \in DocStoredChans
  BY <1>1, <1>4, <1>5 DEF DocStoredChans, DocChansWith
<1> QED BY <1>2, <1>4, <1>6

(* The rules, pair by pair. *)
LEMMA DocRuleByPairs ==
  ASSUME NEW s
  PROVE  DocRule(s) <=> \A k, l \in DocRuled :
                          DocRelated(k, l) => ~(DocHurts(s, k) /\ DocHurts(s, l))
<1> QED BY DEF DocRule, DocRuled, DocRelated, DocHurts

LEMMA DocKeptByPairs ==
  DocRuleKept <=> \A k, l \in DocRuled :
    DocRelated(k, l) /\ DocHurts(docStored, k) /\ DocHurts(docStored, l) => DocOverlap(k, l)
<1>1. \A k, l : DocOverlap(k, l) <=> DocOverlap(l, k)
  BY DEF DocOverlap
<1> QED BY <1>1 DEF DocRuleKept, DocRuled, DocRelated, DocHurts

(* Whether a key hurts depends on its value. *)
LEMMA DocHurtsSame ==
  ASSUME NEW s, NEW v, NEW k \in DocRuled, s[k] = v[k]
  PROVE  DocHurts(s, k) <=> DocHurts(v, k)
<1> QED BY DEF DocHurts, DocRuled

(* The values a body comes to, key by key. *)
LEMMA DocWritesAre ==
  ASSUME NEW b, DocBody(b)
  PROVE  /\ DOMAIN DocWrites(b) = {k \in DOMAIN b : ~DocKeeps(k, b[k])}
                                   \cup (IF "type" \in DOMAIN b THEN {"legacy"} ELSE {})
         /\ \A k \in DOMAIN DocWrites(b) :
              k \notin {"legacy", "chans"} => DocWrites(b)[k] = b[k]
         /\ "legacy" \in DOMAIN DocWrites(b) => DocWrites(b)["legacy"] = ""
         /\ "secret" \in DOMAIN DocWrites(b) => DocWrites(b)["secret"] = ""
         /\ "chans" \in DOMAIN DocWrites(b) => "chans" \in DOMAIN b /\
              DocWrites(b)["chans"] =
                [i \in DOMAIN b["chans"] |-> DocMergeChannel(b["chans"][i], DocOld(i))]
<1> DEFINE keys == {k \in DOMAIN b : ~DocKeeps(k, b[k])}
                   \cup (IF "type" \in DOMAIN b THEN {"legacy"} ELSE {})
           cs == [i \in DOMAIN b["chans"] |-> DocMergeChannel(b["chans"][i], DocOld(i))]
<1>1. DocWrites(b) = [k \in keys |-> IF k = "legacy" /\ "type" \in DOMAIN b THEN ""
                                     ELSE IF k = "chans" THEN cs ELSE b[k]]
  BY DEF DocWrites
<1>2. \A k \in keys : k # "legacy" => k \in DOMAIN b /\ ~DocKeeps(k, b[k])
  OBVIOUS
<1>3. "legacy" \in keys => "type" \in DOMAIN b \/ ("legacy" \in DOMAIN b /\ ~DocKeeps("legacy", b["legacy"]))
  OBVIOUS
<1>4. \A k \in DocSecrets : k \in DOMAIN b /\ ~DocKeeps(k, b[k]) => b[k] = ""
  BY DEF DocBody, DocKeeps
<1>5. "legacy" \in DocSecrets /\ "secret" \in DocSecrets
  BY DocConstants
<1> HIDE DEF keys, cs
<1>6. /\ DOMAIN DocWrites(b) = keys
      /\ \A k \in keys : k \notin {"legacy", "chans"} => DocWrites(b)[k] = b[k]
      /\ "legacy" \in keys => DocWrites(b)["legacy"] = ""
      /\ "secret" \in keys => DocWrites(b)["secret"] = ""
      /\ "chans" \in keys => "chans" \in DOMAIN b /\ DocWrites(b)["chans"] = cs
  BY <1>1, <1>2, <1>3, <1>4, <1>5
<1> QED BY <1>6 DEF keys, cs

(* A PUT that is admitted writes no mask, no pinned key but perhaps the    *)
(* legacy header beside the auth type, and, when it writes a key that a    *)
(* rule is about, a section that keeps the rules.                          *)
LEMMA DocWritesAreGood ==
  ASSUME DocGood(docStored), NEW b, DocBody(b), NEW c, DocAdmitted(c, b),
         "bin" \in DOMAIN b /\ b["bin"] = "b3" => c \in DocByToken
  PROVE  /\ DocWriting(DocWrites(b))
         /\ DOMAIN DocWrites(b) \cap DocRuled # {} => DocRule(DocCommitted(DocWrites(b)))
<1> DEFINE w == DocWrites(b)
<1>0. /\ DocKeys = {"enabled", "url", "type", "hname", "secret", "legacy", "units", "tol", "bin", "chans"}
      /\ DocExport = {"enabled", "url", "type", "hname", "secret", "legacy"}
      /\ DocSecrets = {"secret", "legacy"}
  BY DocConstants
<1>1. /\ DOMAIN w = {k \in DOMAIN b : ~DocKeeps(k, b[k])}
                     \cup (IF "type" \in DOMAIN b THEN {"legacy"} ELSE {})
      /\ \A k \in DOMAIN w : k \notin {"legacy", "chans"} => w[k] = b[k]
      /\ "legacy" \in DOMAIN w => w["legacy"] = ""
      /\ "secret" \in DOMAIN w => w["secret"] = ""
      /\ "chans" \in DOMAIN w => "chans" \in DOMAIN b /\
           w["chans"] = [i \in DOMAIN b["chans"] |-> DocMergeChannel(b["chans"][i], DocOld(i))]
  BY DocWritesAre
<1>2. DOMAIN w \subseteq DocKeys /\ \A k \in DOMAIN w : k # "legacy" => k \in DOMAIN b
  BY <1>0, <1>1 DEF DocBody
<1>3. "bin" \in DOMAIN w => w["bin"] # "b3"
  <2> SUFFICES ASSUME "bin" \in DOMAIN w, w["bin"] = "b3" PROVE FALSE
    OBVIOUS
  <2>1. "bin" \in DOMAIN b /\ b["bin"] = "b3"
    BY <1>1, <1>2
  <2>2. b["bin"] = docStored["bin"]
    BY <2>1 DEF DocAdmitted, DocTokenMay
  <2> QED BY <2>1, <2>2 DEF DocGood
<1>4. "chans" \in DOMAIN w => DocList(w["chans"], DocStoredChans)
  <2> SUFFICES ASSUME "chans" \in DOMAIN w PROVE DocList(w["chans"], DocStoredChans)
    OBVIOUS
  <2>1. /\ "chans" \in DOMAIN b
        /\ w["chans"] = [i \in DOMAIN b["chans"] |-> DocMergeChannel(b["chans"][i], DocOld(i))]
    BY <1>1
  <2> DEFINE bs == b["chans"]
  <2>2. DocList(bs, DocSentChans)
    BY <2>1 DEF DocBody
  <2>3. ASSUME NEW i \in DOMAIN bs
        PROVE  /\ DocMergeChannel(bs[i], DocOld(i)) \in DocStoredChans
               /\ DocMergeChannel(bs[i], DocOld(i)).urls # <<>> <=> bs[i].urls # <<>>
    <3>1. bs[i] \in DocSentChans
      BY <2>2 DEF DocList
    <3>2. DocOld(i) \in DocStoredChans \/ DocOld(i) = DocNil
      BY DEF DocOld, DocGood, DocList
    <3>3. DocChannelOk(bs[i], DocOld(i))
      BY <2>1 DEF DocAdmitted
    <3> QED BY <3>1, <3>2, <3>3, DocMergedChannel
  <2> QED BY <2>1, <2>2, <2>3 DEF DocList
<1>5. \A k \in DOMAIN w \cap docLocked : k = "legacy" /\ "type" \in DOMAIN w
  <2>1. DOMAIN b \cap docLocked = {}
    BY DEF DocAdmitted, DocSetKeys
  <2>2. "type" \in DOMAIN b => "type" \in DOMAIN w
    BY <1>0, <1>1 DEF DocKeeps
  <2> QED BY <1>1, <2>1, <2>2
<1>6. DocWriting(w)
  BY <1>0, <1>1, <1>2, <1>3, <1>4, <1>5 DEF DocWriting
<1>7. ASSUME DOMAIN w \cap DocRuled # {} PROVE DocRule(DocCommitted(w))
  <2> DEFINE v == [k \in DocExport |-> IF k \in DOMAIN b THEN b[k] ELSE docStored[k]]
  <2>1. \A k \in DocRuled :
           /\ k \in DOMAIN w <=> k \in DOMAIN b
           /\ DocCommitted(w)[k] = v[k]
    BY <1>0, <1>1 DEF DocCommitted, DocKeeps, DocRuled
  <2>2. DOMAIN b \cap DocExport # {}
    BY <1>0, <1>7, <2>1 DEF DocRuled
  <2>3. DocRule(v)
    BY <2>2 DEF DocAdmitted, DocValid
  <2> HIDE DEF v, w
  <2>4. \A k \in DocRuled : DocHurts(DocCommitted(w), k) <=> DocHurts(v, k)
    BY <2>1, DocHurtsSame
  <2> QED BY <2>3, <2>4, DocRuleByPairs
<1> QED BY <1>6, <1>7

-----------------------------------------------------------------------------
(* Sending back what is stored *)

(* Two indices of a set with the same rank are the same.                   *)
LEMMA DocRankInjective ==
  ASSUME NEW n \in Nat, NEW A, A \subseteq 1 .. n, NEW i \in A, NEW j \in A,
         DocRank(A, i) = DocRank(A, j)
  PROVE  i = j
<1> DEFINE U(x) == {h \in A : h <= x}
<1>1. i \in Int /\ j \in Int
  OBVIOUS
<1>2. \A x \in A : IsFiniteSet(U(x))
  <2> TAKE x \in A
  <2>1. U(x) \subseteq 1 .. n
    OBVIOUS
  <2>2. IsFiniteSet(1 .. n)
    BY FS_Interval
  <2> QED BY <2>1, <2>2, FS_Subset
<1>3. ASSUME NEW x \in A, NEW y \in A, x < y
      PROVE  Cardinality(U(x)) # Cardinality(U(y))
  <2>1. x \in Int /\ y \in Int
    OBVIOUS
  <2>2. U(x) \in SUBSET U(y)
    <3>1. \A h \in A : h <= x => h <= y
      <4> TAKE h \in A
      <4>1. h \in Int
        OBVIOUS
      <4> QED BY <1>3, <2>1, <4>1
    <3> QED BY <3>1
  <2>3. y \in U(y) /\ y \notin U(x)
    BY <1>3, <2>1
  <2>4. IsFiniteSet(U(y)) /\ U(x) # U(y)
    BY <1>2, <2>3
  <2> HIDE DEF U
  <2> QED BY <2>2, <2>4, FS_Subset
<1>4. Cardinality(U(i)) = Cardinality(U(j))
  BY DEF DocRank
<1> HIDE DEF U
<1>5. ~(i < j) /\ ~(j < i)
  BY <1>3, <1>4
<1> QED BY <1>1, <1>5

(* Redacted URLs that are sent back are resolved each to itself, even      *)
(* where several look alike.                                               *)
LEMMA DocEchoURLs ==
  ASSUME NEW old \in Seq(DocStoredURLs)
  PROVE  DocMergeURLs([j \in DOMAIN old |-> DocRedact(old[j])], old) = old
<1> DEFINE sub == [j \in DOMAIN old |-> DocRedact(old[j])]
<1>1. PICK n \in Nat : DOMAIN old = 1 .. n
  BY LenProperties
<1>2. old = [j \in DOMAIN old |-> old[j]] /\ DOMAIN sub = DOMAIN old
  OBVIOUS
<1>3. ASSUME NEW i \in DOMAIN old
      PROVE  DocHit(sub, old, i) = {i}
  <2> DEFINE alike == {j \in DOMAIN old : DocRedact(old[j]) = sub[i]}
             same  == {h \in DOMAIN sub : sub[h] = sub[i]}
  <2>1. alike = same /\ i \in alike /\ alike \subseteq 1 .. n
    BY <1>1
  <2>2. DocHit(sub, old, i) = {j \in alike : DocRank(alike, j) = DocRank(same, i)}
    BY DEF DocHit
  <2> HIDE DEF alike, same
  <2>3. \A j \in alike : DocRank(alike, j) = DocRank(alike, i) => j = i
    BY <2>1, DocRankInjective
  <2> QED BY <2>1, <2>2, <2>3
<1> HIDE DEF sub
<1>4. \A i \in DOMAIN old :
        (IF DocHit(sub, old, i) = {} THEN sub[i]
         ELSE old[CHOOSE j \in DocHit(sub, old, i) : TRUE]) = old[i]
  BY <1>3
<1>5. DocMergeURLs(sub, old) = [i \in DOMAIN old |-> old[i]]
  BY <1>2, <1>4 DEF DocMergeURLs
<1> QED BY <1>2, <1>5 DEF sub

(* So are the channels.                                                    *)
LEMMA DocEchoChannel ==
  ASSUME NEW ch \in DocStoredChans
  PROVE  DocMergeChannel(DocMaskChannel(ch), ch) = ch
<1> DEFINE m  == DocMaskChannel(ch)
           tk == DocToken(m, ch)
           us == DocMergeURLs(m.urls, DocURLsOf(ch))
<1>1. /\ ch = [type |-> ch.type, url |-> ch.url, token |-> ch.token, urls |-> ch.urls]
      /\ ch.urls \in Seq(DocStoredURLs)
      /\ ch.token \in {DocNil} \cup DocPairs
  BY DEF DocStoredChans, DocChansWith
<1>2. /\ m \in DocSeenChans /\ m.type = ch.type /\ m.url = ch.url
      /\ m.token = IF ch.token = DocNil THEN DocNil ELSE DocMask
      /\ m.urls = [j \in DOMAIN ch.urls |-> DocRedact(ch.urls[j])]
  BY DocMaskedChannel
<1>3. m = [type |-> m.type, url |-> m.url, token |-> m.token, urls |-> m.urls]
  BY <1>2 DEF DocSeenChans, DocChansWith
<1> HIDE DEF m
<1>4. ch # DocNil => us = ch.urls
  BY <1>1, <1>2, DocEchoURLs DEF DocURLsOf
<1>5. ch # DocNil
  <2>1. DocStoredURLs \subseteq [host : DocHosts, key : {DocMask} \cup DocEntered]
    BY DEF DocStoredURLs, DocPairs, DocHosts, DocEntered
  <2>2. ch.urls \in Seq([host : DocHosts, key : {DocMask} \cup DocEntered])
    <3> DEFINE T == [host : DocHosts, key : {DocMask} \cup DocEntered]
    <3>1. DocStoredURLs \subseteq T
      BY <2>1
    <3> HIDE DEF T
    <3>2. ch.urls \in Seq(T)
      BY <1>1, <3>1
    <3> QED BY <3>2 DEF T
  <2>3. ch \in DocChannel
    BY <2>2 DEF DocStoredChans, DocChansWith, DocChannel, DocPairs, DocHosts, DocEntered
  <2> QED BY <2>3, DocAssumption
<1>6. tk = ch.token
  BY <1>1, <1>2, DocConstants DEF DocToken
<1>7. DocMergeChannel(m, ch) = [m EXCEPT !.token = tk, !.urls = us]
  BY DEF DocMergeChannel
<1> HIDE DEF tk, us
<1>8. DocMergeChannel(m, ch) = [type |-> m.type, url |-> m.url, token |-> tk, urls |-> us]
  BY <1>3, <1>7
<1> QED BY <1>1, <1>2, <1>4, <1>5, <1>6, <1>8 DEF m

(* An echo of the current document writes what is stored, but for the      *)
(* legacy header.                                                          *)
LEMMA DocEchoWrites ==
  ASSUME DocGood(docStored)
  PROVE  DocCommitted(DocWrites(DocEcho(DocView)))
           \in {docStored, [docStored EXCEPT !.legacy = ""]}
<1> DEFINE b == DocEcho(DocView)
           w == DocWrites(b)
<1>0. /\ DocKeys = {"enabled", "url", "type", "hname", "secret", "legacy", "units", "tol", "bin", "chans"}
      /\ DocSecrets = {"secret", "legacy"} /\ DOMAIN DocView = DocKeys
  BY DocConstants DEF DocView
<1>1. DOMAIN b \subseteq DocKeys /\ \A k \in DOMAIN b : b[k] = DocView[k]
  BY DEF DocEcho, Restrict
<1>2. DocSeen(DocView)
  BY DocViewIsSeen
<1>3. DocBody(b)
  <2>1. DocList(DocView["chans"], DocSentChans)
    BY <1>2, DocSeenIsSent, DocListWider DEF DocSeen
  <2> HIDE DEF b
  <2> QED BY <1>0, <1>1, <1>2, <2>1 DEF DocBody, DocSeen
<1> HIDE DEF b
<1>4. /\ DOMAIN w = {k \in DOMAIN b : ~DocKeeps(k, b[k])}
                     \cup (IF "type" \in DOMAIN b THEN {"legacy"} ELSE {})
      /\ \A k \in DOMAIN w : k \notin {"legacy", "chans"} => w[k] = b[k]
      /\ "legacy" \in DOMAIN w => w["legacy"] = ""
      /\ "secret" \in DOMAIN w => w["secret"] = ""
      /\ "chans" \in DOMAIN w => "chans" \in DOMAIN b /\
           w["chans"] = [i \in DOMAIN b["chans"] |-> DocMergeChannel(b["chans"][i], DocOld(i))]
  BY <1>3, DocWritesAre
<1>5. "chans" \in DOMAIN w => w["chans"] = docStored["chans"]
  <2> SUFFICES ASSUME "chans" \in DOMAIN w PROVE w["chans"] = docStored["chans"]
    OBVIOUS
  <2> DEFINE cs == docStored["chans"]
  <2>1. cs \in [DOMAIN cs -> DocStoredChans]
    BY DEF DocGood, DocList
  <2>2. b["chans"] = [i \in DOMAIN cs |-> DocMaskChannel(cs[i])]
    BY <1>0, <1>1, <1>4 DEF DocView
  <2>3. \A i \in DOMAIN cs : DocMergeChannel(b["chans"][i], DocOld(i)) = cs[i]
    BY <2>1, <2>2, DocEchoChannel DEF DocOld
  <2> QED BY <1>4, <2>1, <2>2, <2>3
<1>6. "secret" \in DOMAIN w => w["secret"] = docStored["secret"]
  <2> SUFFICES ASSUME "secret" \in DOMAIN w PROVE w["secret"] = docStored["secret"]
    OBVIOUS
  <2>1. "secret" \in DOMAIN b /\ ~DocKeeps("secret", b["secret"])
    BY <1>4
  <2>2. b["secret"] = DocMasked(docStored["secret"])
    BY <1>0, <1>1, <2>1 DEF DocView
  <2>3. b["secret"] # DocMask
    BY <1>0, <2>1 DEF DocKeeps
  <2> QED BY <1>4, <2>2, <2>3 DEF DocMasked
<1>7. \A k \in DOMAIN w : k \notin {"legacy", "secret", "chans"} => w[k] = docStored[k]
  <2> TAKE k \in DOMAIN w
  <2> HAVE k \notin {"legacy", "secret", "chans"}
  <2>1. k \in DOMAIN b /\ w[k] = b[k]
    BY <1>4
  <2>2. DocView[k] = docStored[k]
    BY <1>0, <1>1, <2>1 DEF DocView
  <2> QED BY <1>1, <2>1, <2>2
<1> HIDE DEF w
<1>8. DOMAIN docStored = DocKeys /\ docStored = [k \in DocKeys |-> docStored[k]]
  BY DEF DocGood
<1>9. CASE "legacy" \in DOMAIN w
  <2>1. \A k \in DocKeys : (IF k \in DOMAIN w THEN w[k] ELSE docStored[k])
                           = [docStored EXCEPT !["legacy"] = ""][k]
    BY <1>4, <1>5, <1>6, <1>7, <1>8, <1>9
  <2>2. DocCommitted(w) = [docStored EXCEPT !["legacy"] = ""]
    BY <1>8, <2>1 DEF DocCommitted
  <2> QED BY <2>2 DEF w, b
<1>10. CASE "legacy" \notin DOMAIN w
  <2>1. \A k \in DocKeys : (IF k \in DOMAIN w THEN w[k] ELSE docStored[k]) = docStored[k]
    BY <1>5, <1>6, <1>7, <1>10
  <2>2. DocCommitted(w) = docStored
    BY <1>8, <2>1 DEF DocCommitted
  <2> QED BY <2>2 DEF w, b
<1> QED BY <1>9, <1>10

-----------------------------------------------------------------------------
(* The invariant *)

DocCleared == [docStored EXCEPT !.legacy = ""]

DocHeldAre ==
  /\ DOMAIN docHeld \subseteq DocClients
  /\ \A c \in DOMAIN docHeld :
        /\ docHeld[c] = [doc |-> docHeld[c].doc, fresh |-> docHeld[c].fresh]
        /\ DocSeen(docHeld[c].doc)
        /\ docHeld[c].fresh => docHeld[c].doc = DocView

(* Nothing is committed before what it read, or in the future. *)
DocStamps ==
  /\ docTime \in Nat
  /\ \A k \in DocRuled : /\ docAt[k].read \in Nat /\ docAt[k].done \in Nat
                         /\ docAt[k].read <= docAt[k].done /\ docAt[k].done <= docTime

(* What a PUT was checked against still holds, or was written since. *)
DocHolds(w, read) ==
  \A k, l \in DocRuled :
     DocRelated(k, l) /\ k \in DOMAIN w /\ DocHurts(w, k) =>
        IF l \in DOMAIN w THEN ~DocHurts(w, l)
        ELSE ~DocHurts(docStored, l) \/ docAt[l].done > read

DocPutsAre ==
  /\ DOMAIN docPut \subseteq DOMAIN docHeld
  /\ \A c \in DOMAIN docPut :
        /\ docPut[c].read \in Nat /\ docPut[c].read <= docTime
        /\ DocWriting(docPut[c].writes)
        /\ DocHolds(docPut[c].writes, docPut[c].read)
        /\ docPut[c].echo /\ docHeld[c].fresh =>
             DocCommitted(docPut[c].writes) \in {docStored, DocCleared}

DocInv ==
  /\ docLocked \in DocLocks /\ DocGood(docStored) /\ DocRuleKept /\ DocStamps
  /\ DocHeldAre /\ DocPutsAre

(* The stored document is fit to be used in the beginning.                 *)
LEMMA DocInitially == DocInit => DocInv
<1>e. \A f : f = << >> => DOMAIN f = {}
  OBVIOUS
<1> SUFFICES ASSUME DocInit PROVE DocInv
  OBVIOUS
<1> DEFINE cs == [i \in {"a", "b"} |->
                    IF i = "a" THEN DocWebhook("h1", <<"h1", 1>>)
                    ELSE DocApprise(<<DocURL("h1", 1), DocURL("h1", 2)>>)]
<1>0. /\ DocKeys = {"enabled", "url", "type", "hname", "secret", "legacy", "units", "tol", "bin", "chans"}
      /\ docStored = [enabled |-> FALSE, url |-> "u1", type |-> "none", hname |-> "",
                      secret |-> "s1", legacy |-> "s2", units |-> "Mbps", tol |-> 5,
                      bin |-> "b1", chans |-> cs]
  BY DocConstants DEF DocInit
<1>1. cs["a"] \in DocStoredChans
  <2>1. <<>> \in Seq(DocStoredURLs) /\ <<"h1", 1>> \in DocPairs /\ <<"h1", 1>>[1] = "h1"
        /\ "h1" \in DocHosts
    BY EmptySeq DEF DocPairs, DocHosts
  <2> QED BY <2>1 DEF DocWebhook, DocStoredChans, DocChansWith
<1>2. cs["b"] \in DocStoredChans /\ cs["b"].urls # <<>>
  <2>1. \A n \in Nat : DocURL("h1", n) \in DocStoredURLs
    BY DEF DocURL, DocStoredURLs, DocPairs, DocHosts
  <2>2. <<DocURL("h1", 1), DocURL("h1", 2)>> \in Seq(DocStoredURLs)
        /\ <<DocURL("h1", 1), DocURL("h1", 2)>> # <<>>
    BY <2>1
  <2> QED BY <2>2 DEF DocApprise, DocStoredChans, DocChansWith
<1>3. DocList(cs, DocStoredChans)
  <2>1. DOMAIN cs = {"a", "b"}
    OBVIOUS
  <2>2. cs = [i \in DOMAIN cs |-> cs[i]]
    OBVIOUS
  <2> HIDE DEF cs
  <2> QED BY <1>1, <1>2, <2>1, <2>2 DEF DocList
<1> HIDE DEF cs
<1>4. DocGood(docStored) /\ DocRuleKept
  BY <1>0, <1>3 DEF DocGood, DocRuleKept
<1>7. DocStamps
  <2>1. docTime = 0 /\ \A k \in DocRuled : docAt[k] = [read |-> 0, done |-> 0]
    BY DEF DocInit, DocRuled, DocExport
  <2>2. \A k \in DocRuled : docAt[k].read = 0 /\ docAt[k].done = 0
    BY <2>1
  <2> QED BY <2>1, <2>2 DEF DocStamps
<1>5. DOMAIN docHeld = {} /\ DOMAIN docPut = {}
  <2>1. docHeld = << >> /\ docPut = << >>
    BY DEF DocInit
  <2> QED BY <1>e, <2>1
<1>6. DocHeldAre /\ DocPutsAre
  BY <1>5 DEF DocHeldAre, DocPutsAre
<1> QED BY <1>4, <1>6, <1>7 DEF DocInit, DocInv

(* The rules and stamps under a step that commits nothing. *)
LEMMA DocUnwritten ==
  ASSUME DocInv, docStored' = docStored, docTime' = docTime, docAt' = docAt
  PROVE  /\ DocRuleKept' /\ DocStamps' /\ DocView' = DocView /\ DocCleared' = DocCleared
         /\ \A w : DocCommitted(w)' = DocCommitted(w)
         /\ \A w, read : DocHolds(w, read)' <=> DocHolds(w, read)
<1> QED BY DEF DocInv, DocRuleKept, DocOverlap, DocStamps, DocView, DocCleared, DocCommitted,
        DocHolds

(* A GET gives the client the current document.                            *)
LEMMA DocGetKeeps == ASSUME DocInv, NEW c \in DocClients, DocGet(c) PROVE DocInv'
<1> DEFINE new == [doc |-> DocView, fresh |-> TRUE]
<1>1. /\ docLocked' = docLocked /\ docStored' = docStored /\ docPut' = docPut
      /\ docTime' = docTime /\ docAt' = docAt /\ c \notin DOMAIN docPut
      /\ docHeld' = [d \in DOMAIN docHeld \cup {c} |-> IF d = c THEN new ELSE docHeld[d]]
  BY DEF DocGet
<1>2. /\ DocRuleKept' /\ DocStamps' /\ DocView' = DocView /\ DocCleared' = DocCleared
      /\ \A w : DocCommitted(w)' = DocCommitted(w)
      /\ \A w, read : DocHolds(w, read)' <=> DocHolds(w, read)
  BY <1>1, DocUnwritten
<1>3. DocSeen(DocView)
  BY DocViewIsSeen DEF DocInv
<1>4. DocHeldAre'
  <2>1. \A d \in DOMAIN docHeld \cup {c} :
           /\ docHeld'[d] = [doc |-> docHeld'[d].doc, fresh |-> docHeld'[d].fresh]
           /\ DocSeen(docHeld'[d].doc)
           /\ docHeld'[d].fresh => docHeld'[d].doc = DocView
    BY <1>1, <1>3 DEF DocInv, DocHeldAre
  <2> QED BY <1>1, <1>2, <2>1 DEF DocInv, DocHeldAre
<1>5. \A w : DocWriting(w)' <=> DocWriting(w)
  BY <1>1 DEF DocWriting
<1>6. DocPutsAre'
  BY <1>1, <1>2, <1>5 DEF DocInv, DocPutsAre
<1> QED BY <1>1, <1>2, <1>4, <1>6 DEF DocInv, DocGood

(* A PUT between its reads and its commit.                                 *)
LEMMA DocPutKeeps == ASSUME DocInv, NEW c \in DocClients, DocPut(c) PROVE DocInv'
<1>1. /\ docLocked' = docLocked /\ docStored' = docStored /\ docHeld' = docHeld
      /\ docTime' = docTime /\ docAt' = docAt /\ c \in DOMAIN docHeld /\ c \notin DOMAIN docPut
  BY DEF DocPut
<1>2. PICK b \in DocBodies(c, docHeld[c].doc) :
        /\ DocAdmitted(c, b)
        /\ docPut' = [d \in DOMAIN docPut \cup {c} |->
              IF d = c THEN [writes |-> DocWrites(b), read |-> docTime,
                             echo |-> b = DocEcho(docHeld[c].doc)]
              ELSE docPut[d]]
  BY DEF DocPut
<1>3. DocBody(b) /\ ("bin" \in DOMAIN b /\ b["bin"] = "b3" => c \in DocByToken)
  BY <1>1, DocBodyIs DEF DocInv, DocHeldAre
<1> DEFINE w == DocWrites(b)
           e == b = DocEcho(docHeld[c].doc)
           new == [writes |-> w, read |-> docTime, echo |-> e]
<1>4. DocWriting(w) /\ (DOMAIN w \cap DocRuled # {} => DocRule(DocCommitted(w)))
  BY <1>2, <1>3, DocWritesAreGood DEF DocInv
<1>5. e /\ docHeld[c].fresh =>
        DocCommitted(w) \in {docStored, DocCleared}
  BY <1>1, DocEchoWrites DEF DocInv, DocHeldAre, DocCleared
<1>6. docPut' = [d \in DOMAIN docPut \cup {c} |-> IF d = c THEN new ELSE docPut[d]]
  BY <1>2
<1> HIDE DEF e, w
<1>7. new.writes = w /\ new.read = docTime /\ new.echo = e
  OBVIOUS
<1> HIDE DEF new
<1>8. /\ DocRuleKept' /\ DocStamps' /\ DocView' = DocView /\ DocCleared' = DocCleared
      /\ \A v : DocCommitted(v)' = DocCommitted(v)
      /\ \A v, read : DocHolds(v, read)' <=> DocHolds(v, read)
  BY <1>1, DocUnwritten
<1>9. \A v : DocWriting(v)' <=> DocWriting(v)
  BY <1>1 DEF DocWriting
<1>10. DocHolds(w, docTime)
  <2> SUFFICES ASSUME NEW k \in DocRuled, NEW l \in DocRuled, DocRelated(k, l),
                      k \in DOMAIN w, DocHurts(w, k)
               PROVE  IF l \in DOMAIN w THEN ~DocHurts(w, l) ELSE ~DocHurts(docStored, l)
    BY DEF DocHolds
  <2>1. DocRule(DocCommitted(w))
    BY <1>4
  <2>2. \A x \in DocRuled : x \in DocKeys
    BY DocConstants DEF DocRuled
  <2>3. /\ DocCommitted(w)[k] = w[k]
        /\ DocCommitted(w)[l] = IF l \in DOMAIN w THEN w[l] ELSE docStored[l]
    BY <2>2 DEF DocCommitted
  <2>4. DocHurts(DocCommitted(w), k)
    BY <2>3, DocHurtsSame
  <2>5. ~DocHurts(DocCommitted(w), l)
    BY <2>1, <2>4, DocRuleByPairs
  <2> QED BY <2>3, <2>5, DocHurtsSame
<1>11. docTime \in Nat
  BY DEF DocInv, DocStamps
<1>12. \A d \in DOMAIN docPut \cup {c} :
        /\ docPut'[d].read \in Nat /\ docPut'[d].read <= docTime
        /\ DocWriting(docPut'[d].writes)
        /\ DocHolds(docPut'[d].writes, docPut'[d].read)
        /\ docPut'[d].echo /\ docHeld[d].fresh =>
             DocCommitted(docPut'[d].writes) \in {docStored, DocCleared}
  <2> TAKE d \in DOMAIN docPut \cup {c}
  <2>1. CASE d = c
    <3>1. docPut'[d] = new
      BY <1>6, <2>1
    <3> QED BY <1>4, <1>5, <1>7, <1>10, <1>11, <2>1, <3>1
  <2>2. CASE d # c
    <3>1. docPut'[d] = docPut[d] /\ d \in DOMAIN docPut
      BY <1>6, <2>2
    <3> QED BY <3>1 DEF DocInv, DocPutsAre
  <2> QED BY <2>1, <2>2
<1>13. DocPutsAre'
  BY <1>1, <1>6, <1>8, <1>9, <1>12 DEF DocInv, DocPutsAre
<1>14. DocHeldAre'
  BY <1>1, <1>8 DEF DocInv, DocHeldAre
<1> QED BY <1>1, <1>8, <1>13, <1>14 DEF DocInv, DocGood

(* A stored document stays good under what a PUT writes, whatever was      *)
(* committed in between.                                                   *)
LEMMA DocCommittedIsGood ==
  ASSUME DocGood(docStored), NEW w, DocWriting(w)
  PROVE  DocGood(DocCommitted(w))
<1> DEFINE v == DocCommitted(w)
<1>0. /\ DocKeys = {"enabled", "url", "type", "hname", "secret", "legacy", "units", "tol", "bin", "chans"}
      /\ DocSecrets = {"secret", "legacy"}
  BY DocConstants
<1>1. v = [k \in DocKeys |-> v[k]]
      /\ \A k \in DocKeys : v[k] = IF k \in DOMAIN w THEN w[k] ELSE docStored[k]
  BY DEF DocCommitted
<1> HIDE DEF v
<1>2. v["secret"] \in {"", "s1"} /\ v["legacy"] \in {"", "s2"} /\ v["bin"] # "b3"
  BY <1>0, <1>1 DEF DocWriting, DocGood
<1>3. DocList(v["chans"], DocStoredChans)
  BY <1>0, <1>1 DEF DocWriting, DocGood
<1> QED BY <1>1, <1>2, <1>3 DEF DocGood, v

(* A commit breaks a rule only where it overlapped another.                *)
LEMMA DocCommitKeepsRules ==
  ASSUME DocInv, NEW c \in DocClients, DocCommit(c)
  PROVE  /\ DocRuleKept' /\ DocStamps'
         /\ \A w, read : read \in Nat /\ read <= docTime /\ DocHolds(w, read) =>
                         DocHolds(w, read)'
<1>1. PICK w : w = docPut[c].writes
  OBVIOUS
<1>2. PICK at \in Nat : at = docPut[c].read /\ at <= docTime
  BY DEF DocCommit, DocInv, DocPutsAre
<1>3. /\ docStored' = DocCommitted(w) /\ docTime' = docTime + 1 /\ docTime \in Nat
      /\ docAt' = [k \in DocExport |->
                     IF k \in DOMAIN w THEN [read |-> at, done |-> docTime + 1] ELSE docAt[k]]
  BY <1>1, <1>2 DEF DocCommit, DocInv, DocStamps
<1>4. /\ DocHolds(w, at) /\ DocRuleKept
      /\ \A k \in DocRuled : /\ docAt[k].read \in Nat /\ docAt[k].done \in Nat
                             /\ docAt[k].read <= docAt[k].done /\ docAt[k].done <= docTime
  BY <1>1, <1>2 DEF DocCommit, DocInv, DocPutsAre, DocStamps
<1>5. \A k \in DocRuled :
        /\ k \in DOMAIN w => docAt'[k].read = at /\ docAt'[k].done = docTime + 1
        /\ k \notin DOMAIN w => docAt'[k] = docAt[k]
  BY <1>3 DEF DocRuled, DocExport
<1>6. \A k \in DocRuled : DocHurts(docStored', k) <=>
                           IF k \in DOMAIN w THEN DocHurts(w, k) ELSE DocHurts(docStored, k)
  <2> TAKE k \in DocRuled
  <2>1. docStored'[k] = IF k \in DOMAIN w THEN w[k] ELSE docStored[k]
    BY <1>3, DocConstants DEF DocCommitted, DocRuled
  <2>2. PICK v : v = docStored'
    OBVIOUS
  <2> QED BY <2>1, <2>2, DocHurtsSame
<1>7. DocStamps'
  BY <1>2, <1>3, <1>4, <1>5 DEF DocStamps
<1>8. ASSUME NEW k \in DocRuled, NEW l \in DocRuled, DocRelated(k, l),
             DocHurts(docStored', k), DocHurts(docStored', l)
      PROVE  DocOverlap(k, l)'
  <2>1. DocRelated(l, k)
    BY <1>8 DEF DocRelated
  <2>2. CASE k \in DOMAIN w /\ l \in DOMAIN w
    BY <1>4, <1>6, <1>8, <2>2 DEF DocHolds
  <2>3. CASE k \in DOMAIN w /\ l \notin DOMAIN w
    <3>1. docAt[l].done > at
      BY <1>4, <1>6, <1>8, <2>3 DEF DocHolds
    <3> QED BY <1>2, <1>3, <1>4, <1>5, <2>3, <3>1 DEF DocOverlap
  <2>4. CASE k \notin DOMAIN w /\ l \in DOMAIN w
    <3>1. docAt[k].done > at
      BY <1>4, <1>6, <1>8, <2>1, <2>4 DEF DocHolds
    <3> QED BY <1>2, <1>3, <1>4, <1>5, <2>4, <3>1 DEF DocOverlap
  <2>5. CASE k \notin DOMAIN w /\ l \notin DOMAIN w
    <3>1. DocOverlap(k, l)
      BY <1>4, <1>6, <1>8, <2>5, DocKeptByPairs
    <3> QED BY <1>5, <2>5, <3>1 DEF DocOverlap
  <2> QED BY <2>2, <2>3, <2>4, <2>5
<1>9. DocRuleKept'
  <2>1. \A k, l : DocOverlap(k, l)' <=> DocOverlap(l, k)'
    BY DEF DocOverlap
  <2>2. PICK v : v = docStored'
    OBVIOUS
  <2>3. /\ v.enabled /\ v.url = "" => DocOverlap("enabled", "url")'
        /\ v.type = "custom" /\ v.hname = "" => DocOverlap("type", "hname")'
    BY <1>8, <2>2 DEF DocRuled, DocRelated, DocHurts
  <2> QED BY <2>2, <2>3 DEF DocRuleKept
<1>10. ASSUME NEW v, NEW read, read \in Nat, read <= docTime, DocHolds(v, read)
       PROVE  DocHolds(v, read)'
  <2> SUFFICES ASSUME NEW k \in DocRuled, NEW l \in DocRuled, DocRelated(k, l),
                      k \in DOMAIN v, DocHurts(v, k)
               PROVE  IF l \in DOMAIN v THEN ~DocHurts(v, l)
                      ELSE ~DocHurts(docStored', l) \/ docAt'[l].done > read
    BY DEF DocHolds
  <2>1. IF l \in DOMAIN v THEN ~DocHurts(v, l)
        ELSE ~DocHurts(docStored, l) \/ docAt[l].done > read
    BY <1>10 DEF DocHolds
  <2>2. CASE l \in DOMAIN w
    BY <1>3, <1>5, <1>10, <2>1, <2>2
  <2>3. CASE l \notin DOMAIN w
    BY <1>5, <1>6, <2>1, <2>3
  <2> QED BY <2>2, <2>3
<1> QED BY <1>7, <1>9, <1>10

(* The commit, after which the documents and reads of the others are out   *)
(* of date.                                                                *)
LEMMA DocCommitKeeps == ASSUME DocInv, NEW c \in DocClients, DocCommit(c) PROVE DocInv'
<1> DEFINE same == docStored' = docStored
<1>1. /\ c \in DOMAIN docPut /\ docLocked' = docLocked
      /\ docStored' = DocCommitted(docPut[c].writes)
      /\ docPut' = [d \in DOMAIN docPut \ {c} |-> docPut[d]]
      /\ docHeld' = [d \in DOMAIN docHeld |->
                       [docHeld[d] EXCEPT !.fresh = docHeld[d].fresh /\ same]]
      /\ docTime' = docTime + 1 /\ docTime \in Nat
  BY DEF DocCommit, Restrict, DocInv, DocStamps
<1>2. DocGood(docStored')
  BY <1>1, DocCommittedIsGood DEF DocInv, DocPutsAre
<1>3. DocRuleKept' /\ DocStamps'
  BY DocCommitKeepsRules
<1>4. same => DocView' = DocView /\ \A v : DocCommitted(v)' = DocCommitted(v)
  BY DEF DocView, DocCommitted
<1>c. same => DocCleared' = DocCleared
  BY DEF DocCleared
<1>5. \A v : DocWriting(v)' <=> DocWriting(v)
  BY <1>1 DEF DocWriting
<1> HIDE DEF same
<1>6. ASSUME NEW d \in DOMAIN docHeld
      PROVE  /\ docHeld'[d] = [doc |-> docHeld[d].doc, fresh |-> docHeld[d].fresh /\ same]
             /\ docHeld'[d].doc = docHeld[d].doc
             /\ docHeld'[d].fresh <=> (docHeld[d].fresh /\ same)
  <2> DEFINE f == docHeld[d].fresh /\ same
  <2>1. docHeld'[d] = [docHeld[d] EXCEPT !.fresh = f]
        /\ docHeld[d] = [doc |-> docHeld[d].doc, fresh |-> docHeld[d].fresh]
    BY <1>1 DEF DocInv, DocHeldAre
  <2> HIDE DEF f
  <2>2. docHeld'[d] = [doc |-> docHeld[d].doc, fresh |-> f]
    BY <2>1
  <2>3. docHeld'[d].doc = docHeld[d].doc /\ docHeld'[d].fresh = f
    BY <2>2
  <2> QED BY <2>2, <2>3 DEF f
<1>7. DOMAIN docHeld' = DOMAIN docHeld
  BY <1>1
<1>8. DocHeldAre'
  <2>1. \A d \in DOMAIN docHeld :
           /\ docHeld'[d] = [doc |-> docHeld'[d].doc, fresh |-> docHeld'[d].fresh]
           /\ DocSeen(docHeld'[d].doc)
           /\ docHeld'[d].fresh => docHeld'[d].doc = DocView'
    <3> TAKE d \in DOMAIN docHeld
    <3>1. docHeld'[d] = [doc |-> docHeld'[d].doc, fresh |-> docHeld'[d].fresh]
      <4> DEFINE f == docHeld[d].fresh /\ same
      <4>1. docHeld'[d] = [doc |-> docHeld[d].doc, fresh |-> f]
        BY <1>6
      <4> HIDE DEF f
      <4> QED BY <4>1
    <3>2. DocSeen(docHeld'[d].doc)
      BY <1>6 DEF DocInv, DocHeldAre
    <3>3. docHeld'[d].fresh => docHeld'[d].doc = DocView'
      BY <1>4, <1>6 DEF DocInv, DocHeldAre
    <3> QED BY <3>1, <3>2, <3>3
  <2> QED BY <1>7, <2>1 DEF DocInv, DocHeldAre
<1>9. \A d \in DOMAIN docPut \ {c} : docPut'[d] = docPut[d]
  BY <1>1
<1>10. DOMAIN docPut' = DOMAIN docPut \ {c} /\ DOMAIN docPut' \subseteq DOMAIN docHeld'
  BY <1>1, <1>7 DEF DocInv, DocPutsAre
<1>11. ASSUME NEW d \in DOMAIN docPut'
       PROVE  /\ docPut'[d].read \in Nat /\ docPut'[d].read <= docTime'
              /\ DocWriting(docPut'[d].writes)
              /\ DocHolds(docPut[d].writes, docPut[d].read)'
              /\ docPut'[d].echo /\ docHeld'[d].fresh =>
                   DocCommitted(docPut[d].writes)' \in {docStored', DocCleared'}
  <2>1. d \in DOMAIN docPut \ {c} /\ d \in DOMAIN docHeld
    BY <1>7, <1>10
  <2>2. /\ DocWriting(docPut[d].writes)
        /\ docPut[d].read \in Nat /\ docPut[d].read <= docTime
        /\ DocHolds(docPut[d].writes, docPut[d].read)
    BY <2>1 DEF DocInv, DocPutsAre
  <2>4. DocHolds(docPut[d].writes, docPut[d].read)'
    <3>1. PICK v, read : v = docPut[d].writes /\ read = docPut[d].read
      OBVIOUS
    <3>2. v = docPut'[d].writes /\ read = docPut'[d].read
      BY <1>9, <2>1, <3>1
    <3>3. DocHolds(v, read)'
      BY <2>2, <3>1, DocCommitKeepsRules
    <3> QED BY <3>2, <3>3 DEF DocHolds
  <2>3. docPut'[d].echo /\ docHeld'[d].fresh =>
          DocCommitted(docPut[d].writes)' \in {docStored', DocCleared'}
    <3> SUFFICES ASSUME docPut'[d].echo, docHeld'[d].fresh
                 PROVE  DocCommitted(docPut[d].writes)' \in {docStored', DocCleared'}
      OBVIOUS
    <3>1. same /\ docHeld[d].fresh /\ docPut[d].echo /\ docPut'[d].writes = docPut[d].writes
      BY <1>6, <1>9, <2>1
    <3>2. DocCommitted(docPut[d].writes) \in {docStored, DocCleared}
      BY <2>1, <3>1 DEF DocInv, DocPutsAre
    <3> QED BY <1>4, <1>c, <3>1, <3>2 DEF same
  <2> QED BY <1>1, <1>9, <2>1, <2>2, <2>3, <2>4
<1>12. DocPutsAre'
  BY <1>5, <1>10, <1>11 DEF DocPutsAre
<1> QED BY <1>1, <1>2, <1>3, <1>8, <1>12 DEF DocInv, DocGood

(* A rollback forgets the PUT.                                             *)
LEMMA DocRollbackKeeps == ASSUME DocInv, NEW c \in DocClients, DocRollback(c) PROVE DocInv'
<1>1. /\ docLocked' = docLocked /\ docStored' = docStored /\ docHeld' = docHeld
      /\ docTime' = docTime /\ docAt' = docAt
      /\ docPut' = [d \in DOMAIN docPut \ {c} |-> docPut[d]]
  BY DEF DocRollback, Restrict
<1>2. /\ DocRuleKept' /\ DocStamps' /\ DocView' = DocView /\ DocCleared' = DocCleared
      /\ \A v : DocCommitted(v)' = DocCommitted(v)
      /\ \A v, read : DocHolds(v, read)' <=> DocHolds(v, read)
  BY <1>1, DocUnwritten
<1>3. \A v : DocWriting(v)' <=> DocWriting(v)
  BY <1>1 DEF DocWriting
<1>4. DOMAIN docPut' \subseteq DOMAIN docPut /\ \A d \in DOMAIN docPut' : docPut'[d] = docPut[d]
  BY <1>1
<1>5. DocPutsAre'
  BY <1>1, <1>2, <1>3, <1>4 DEF DocInv, DocPutsAre
<1>6. DocHeldAre'
  BY <1>1, <1>2 DEF DocInv, DocHeldAre
<1> QED BY <1>1, <1>2, <1>5, <1>6 DEF DocInv, DocGood

(* Every step keeps the invariant.                                         *)
LEMMA DocInductive == DocInv /\ [DocNext]_docVars => DocInv'
<1> SUFFICES ASSUME DocInv, [DocNext]_docVars PROVE DocInv'
  OBVIOUS
<1>1. CASE DocNext
  BY <1>1, DocGetKeeps, DocPutKeeps, DocCommitKeeps, DocRollbackKeeps DEF DocNext
<1>2. CASE UNCHANGED docVars
  <2>1. /\ docLocked' = docLocked /\ docStored' = docStored /\ docHeld' = docHeld
        /\ docPut' = docPut /\ docTime' = docTime /\ docAt' = docAt
    BY <1>2 DEF docVars
  <2>2. /\ DocRuleKept' /\ DocStamps' /\ DocView' = DocView /\ DocCleared' = DocCleared
        /\ \A v : DocCommitted(v)' = DocCommitted(v)
        /\ \A v, read : DocHolds(v, read)' <=> DocHolds(v, read)
    BY <2>1, DocUnwritten
  <2>4. \A v : DocWriting(v)' <=> DocWriting(v)
    BY <2>1 DEF DocWriting
  <2>5. DocHeldAre'
    BY <2>1, <2>2 DEF DocInv, DocHeldAre
  <2>6. DocPutsAre'
    BY <2>1, <2>2, <2>4 DEF DocInv, DocPutsAre
  <2> QED BY <2>1, <2>2, <2>5, <2>6 DEF DocInv, DocGood
<1> QED BY <1>1, <1>2

(* The invariant holds what DocSafe says.                                  *)
LEMMA DocIsSafe == DocInv => DocSafe
<1> SUFFICES ASSUME DocInv PROVE DocSafe
  OBVIOUS
<1>0. /\ DocMask # DocNil /\ DocMask \notin {"", "s1", "s2"} /\ DocMask \notin DocPairs
      /\ DocSecrets = {"secret", "legacy"}
  BY DocConstants
<1>1. ASSUME NEW ch \in DocChannels
      PROVE  /\ ch.token # DocMask /\ \A j \in DOMAIN ch.urls : ch.urls[j].key # DocMask
             /\ ch.token # DocNil => ch.token[1] = ch.url
             /\ \A j \in DOMAIN ch.urls : ch.urls[j].key[1] = ch.urls[j].host
  <2>1. ch \in DocStoredChans
    BY DEF DocChannels, DocInv, DocGood, DocList
  <2>2. /\ ch.token \in {DocNil} \cup DocPairs /\ ch.urls \in Seq(DocStoredURLs)
        /\ ch.token # DocNil => ch.token[1] = ch.url
    BY <2>1 DEF DocStoredChans, DocChansWith
  <2>3. \A j \in DOMAIN ch.urls : ch.urls[j] \in DocStoredURLs
    BY <2>2, LenProperties, ElementOfSeq
  <2>4. \A u \in DocStoredURLs : u.key \in DocPairs /\ u.key[1] = u.host
    BY DEF DocStoredURLs
  <2> QED BY <1>0, <2>2, <2>3, <2>4
<1>2. \A k \in DocSecrets : docStored[k] # DocMask
  BY <1>0 DEF DocInv, DocGood
<1>3. DocNoMask
  BY <1>1, <1>2 DEF DocNoMask
<1>4. DocSecretsStay
  BY <1>1 DEF DocSecretsStay
<1>5. docStored.bin # "b3"
  BY DEF DocInv, DocGood
<1> QED BY <1>3, <1>4, <1>5 DEF DocSafe, DocBinByOperator, DocInv

(* A step keeps the pinned keys, and an echo of the current document       *)
(* writes what is stored.                                                  *)
LEMMA DocExactly ==
  ASSUME DocInv, [DocNext]_docVars
  PROVE  DocKeepsLocked /\ DocEchoNoop
<1>1. ASSUME NEW c \in DocClients, DocCommit(c) PROVE DocKeepsLocked /\ DocEchoNoop
  <2> DEFINE w == docPut[c].writes
  <2>1. /\ c \in DOMAIN docPut /\ docStored' = DocCommitted(w)
        /\ DOMAIN docPut' = DOMAIN docPut \ {c}
    BY <1>1 DEF DocCommit, Restrict
  <2>2. DocWriting(w) /\ docLocked \in DocLocks /\ docLocked \subseteq DocKeys
    BY <2>1, DocConstants DEF DocInv, DocPutsAre
  <2>3. \A k \in docLocked : k \in DOMAIN w => k = "legacy" /\ "type" \in DOMAIN w
                                                /\ w[k] = ""
    BY <2>2, DocConstants DEF DocWriting
  <2>4. DocKeepsLocked
    <3> SUFFICES ASSUME NEW k \in docLocked, docStored'[k] # docStored[k]
                 PROVE  /\ k = "legacy" /\ docStored'[k] = ""
                        /\ c \in DOMAIN docPut \ DOMAIN docPut'
                        /\ "type" \in DOMAIN docPut[c].writes
      BY DEF DocKeepsLocked
    <3>1. k \in DOMAIN w /\ docStored'[k] = w[k]
      BY <2>1, <2>2 DEF DocCommitted
    <3> QED BY <2>1, <2>3, <3>1
  <2>5. docPut[c].echo /\ docHeld[c].fresh => docStored' \in {docStored, DocCleared}
    BY <2>1 DEF DocInv, DocPutsAre
  <2>6. DOMAIN docPut \ DOMAIN docPut' = {c}
    BY <2>1
  <2>7. DocEchoNoop
    BY <2>5, <2>6 DEF DocEchoNoop, DocCleared
  <2> QED BY <2>4, <2>7
<1>2. ASSUME docStored' = docStored PROVE DocKeepsLocked /\ DocEchoNoop
  BY <1>2 DEF DocKeepsLocked, DocEchoNoop
<1>3. CASE DocNext
  <2>1. PICK c \in DocClients : DocGet(c) \/ DocPut(c) \/ DocCommit(c) \/ DocRollback(c)
    BY <1>3 DEF DocNext
  <2>2. CASE DocGet(c)
    BY <1>2, <2>2 DEF DocGet
  <2>3. CASE DocPut(c)
    BY <1>2, <2>3 DEF DocPut
  <2>4. CASE DocCommit(c)
    BY <1>1, <2>4
  <2>5. CASE DocRollback(c)
    BY <1>2, <2>5 DEF DocRollback
  <2> QED BY <2>1, <2>2, <2>3, <2>4, <2>5
<1>4. CASE UNCHANGED docVars
  BY <1>2, <1>4 DEF docVars
<1> QED BY <1>3, <1>4

(* For any number of clients and PUTs that overlap: no mask is ever        *)
(* stored, no channel's secret moves to another destination, no token      *)
(* chooses a binary, and a rule of the export section is broken only by    *)
(* two PUTs that overlapped and wrote one of its keys each (applySettings, *)
(* mergeChannelSecrets, mergeAppriseURLs, validateSettings).               *)
THEOREM DocumentIsSafe == DocSpec => []DocSafe
<1> QED BY DocInitially, DocInductive, DocIsSafe, PTL DEF DocSpec

(* Whatever the environment pins, a PUT keeps every pinned key but the     *)
(* legacy header, which goes when the auth type is written, and sending    *)
(* the current document back changes nothing but that header (setKeys,     *)
(* setSecret, applySettings).                                              *)
THEOREM PutsAreExact == DocSpec => DocPutExact
<1>1. DocInv /\ [DocNext]_docVars => [DocKeepsLocked /\ DocEchoNoop]_docVars
  BY DocExactly
<1> QED BY <1>1, DocInitially, DocInductive, PTL DEF DocSpec, DocPutExact

=============================================================================
