------------------------------- MODULE VlPush -------------------------------
(***************************************************************************)
(* The log shipper (internal/vlpush/vlpush.go): a slog handler that        *)
(* mirrors every record to the wrapped handler and queues a line for       *)
(* VictoriaLogs without blocking, and a worker that ships the lines in     *)
(* batches.                                                                *)
(*                                                                         *)
(* A line is its number in the order lines are offered to the channel; its *)
(* text (addAttr, the JSON) is left out.  What is written to Next is not   *)
(* queued again, so it is left out too.  The batch is shipped or lost as a *)
(* whole by one answer.  Every operator begins with Vl.                    *)
(* X_m is a plausible wrong form of X, for mutation checks.                *)
(***************************************************************************)
EXTENDS Integers, Sequences

CONSTANTS
    VlLoggers,      \* goroutines that log
    VlQueueSize,    \* Config.QueueSize
    VlBatchSize,    \* Config.BatchSize
    VlMaxLines,     \* bound: lines offered
    VlMaxEdits      \* bound: calls of Configure

ASSUME VlBounds ==
    /\ {VlQueueSize, VlBatchSize} \subseteq Nat \ {0}
    /\ {VlMaxLines, VlMaxEdits} \subseteq Nat

VARIABLES
    vlConf,         \* shared.enabled and whether shared.url is set
    vlAt,           \* where a logger is in Handle
    vlLines,        \* shared.lines
    vlBuf,          \* the worker's buf
    vlPc, vlFinal,  \* the worker; it is in drainAndFlush
    vlStop,         \* shared.stop is closed
    vlDropped,      \* shared.dropped
    \* history, for the properties only:
    vlOffered, vlLate,        \* lines offered to the channel, and after Close
    vlShipped, vlDiscarded,   \* lines accepted by the endpoint, discarded unsent
    vlEdits                   \* bound

vlWorker  == <<vlBuf, vlPc, vlFinal>>
vlHistory == <<vlOffered, vlLate, vlShipped, vlDiscarded>>
vlVars    == <<vlConf, vlAt, vlLines, vlWorker, vlStop, vlDropped, vlHistory,
               vlEdits>>

VlConfs == {"off", "on", "nourl"}

VlInit ==
    /\ vlConf = "off"
    /\ vlAt = [l \in VlLoggers |-> "idle"]
    /\ vlLines = <<>> /\ vlBuf = <<>>
    /\ vlPc = "top" /\ vlFinal = FALSE /\ vlStop = FALSE
    /\ vlDropped = 0
    /\ vlOffered = 0 /\ vlLate = 0 /\ vlShipped = <<>> /\ vlDiscarded = 0
    /\ vlEdits = 0

VlConfigure(c) ==
    /\ vlEdits < VlMaxEdits /\ c # vlConf
    /\ vlConf' = c /\ vlEdits' = vlEdits + 1
    /\ UNCHANGED <<vlAt, vlLines, vlWorker, vlStop, vlDropped, vlHistory>>

(* Handle reads the settings, renders the line, then tries to queue it. *)
VlHandle(l) ==
    /\ vlAt[l] = "idle" /\ vlOffered < VlMaxLines /\ vlConf = "on"
    /\ vlAt' = [vlAt EXCEPT ![l] = "send"]
    /\ UNCHANGED <<vlConf, vlLines, vlWorker, vlStop, vlDropped, vlHistory, vlEdits>>

VlOverflow == vlDropped' = vlDropped + 1

VlEnqueue(l) ==
    /\ vlAt[l] = "send" /\ vlOffered < VlMaxLines
    /\ vlAt' = [vlAt EXCEPT ![l] = "idle"]
    /\ vlOffered' = vlOffered + 1
    /\ IF Len(vlLines) < VlQueueSize
       THEN /\ vlLines' = Append(vlLines, vlOffered + 1)
            /\ vlLate' = IF vlStop THEN vlLate + 1 ELSE vlLate
            /\ UNCHANGED vlDropped
       ELSE VlOverflow /\ UNCHANGED <<vlLines, vlLate>>
    /\ UNCHANGED <<vlConf, vlWorker, vlStop, vlShipped, vlDiscarded, vlEdits>>

VlClose ==
    /\ ~vlStop /\ vlStop' = TRUE
    /\ UNCHANGED <<vlConf, vlAt, vlLines, vlWorker, vlDropped, vlHistory, vlEdits>>

-----------------------------------------------------------------------------
(* The worker *)

vlOutside == <<vlConf, vlAt, vlStop, vlOffered, vlLate, vlEdits>>
vlUnsent  == <<vlDropped, vlShipped, vlDiscarded>>

(* The first select: a closed stop has priority over lines and the ticker. *)
VlTop ==
    /\ vlPc = "top"
    /\ vlPc' = IF vlStop THEN "drain" ELSE "select"
    /\ vlFinal' = vlStop
    /\ UNCHANGED <<vlOutside, vlUnsent, vlLines, vlBuf>>

VlReceive ==
    /\ vlPc = "select" /\ vlLines # <<>>
    /\ vlBuf' = Append(vlBuf, Head(vlLines)) /\ vlLines' = Tail(vlLines)
    /\ vlPc' = IF Len(vlBuf) + 1 >= VlBatchSize THEN "flush" ELSE "top"
    /\ UNCHANGED <<vlOutside, vlUnsent, vlFinal>>

VlTick ==
    /\ vlPc = "select" /\ vlBuf # <<>>
    /\ vlPc' = "flush"
    /\ UNCHANGED <<vlOutside, vlUnsent, vlLines, vlBuf, vlFinal>>

VlSeeStop ==
    /\ vlPc = "select" /\ vlStop
    /\ vlPc' = "drain" /\ vlFinal' = TRUE
    /\ UNCHANGED <<vlOutside, vlUnsent, vlLines, vlBuf>>

VlDrained == vlLines = <<>>

VlDrain ==
    /\ vlPc = "drain"
    /\ \/ /\ ~VlDrained
          /\ vlBuf' = Append(vlBuf, Head(vlLines)) /\ vlLines' = Tail(vlLines)
          /\ UNCHANGED vlPc
       \/ /\ VlDrained
          /\ vlPc' = IF vlBuf = <<>> THEN "done" ELSE "flush"
          /\ UNCHANGED <<vlBuf, vlLines>>
    /\ UNCHANGED <<vlOutside, vlUnsent, vlFinal>>

(* doFlush returns; the worker empties its buffer and goes on, or ends. *)
VlFlushed == vlPc' = (IF vlFinal THEN "done" ELSE "top") /\ vlBuf' = <<>>

VlDoFlush ==
    /\ vlPc = "flush"
    /\ IF vlConf = "on" THEN vlPc' = "post" /\ UNCHANGED <<vlBuf, vlDiscarded>>
       ELSE VlFlushed /\ vlDiscarded' = vlDiscarded + Len(vlBuf)
    /\ UNCHANGED <<vlOutside, vlLines, vlFinal, vlDropped, vlShipped>>

(* An answer other than 2xx, none within the client's timeout, or, in the  *)
(* final flush, none within the 10 s: the batch is lost.                   *)
VlPosted_m(ok) ==
    /\ vlPc = "post"
    /\ VlFlushed
    /\ vlShipped' = IF ok THEN vlShipped \o vlBuf ELSE vlShipped
    /\ vlLines' = IF ok \/ vlFinal THEN vlLines ELSE vlLines \o vlBuf
    /\ vlDropped' = IF ok \/ ~vlFinal THEN vlDropped ELSE vlDropped + Len(vlBuf)
    /\ UNCHANGED <<vlOutside, vlFinal, vlDiscarded>>
VlPosted(ok) ==
    /\ vlPc = "post"
    /\ VlFlushed
    /\ vlShipped' = IF ok THEN vlShipped \o vlBuf ELSE vlShipped
    /\ vlDropped' = IF ok THEN vlDropped ELSE vlDropped + Len(vlBuf)
    /\ UNCHANGED <<vlOutside, vlLines, vlFinal, vlDiscarded>>

-----------------------------------------------------------------------------
VlRun ==
    \/ VlTop \/ VlReceive \/ VlTick \/ VlSeeStop \/ VlDrain \/ VlDoFlush
    \/ \E ok \in BOOLEAN : VlPosted(ok)

VlNext ==
    \/ \E c \in VlConfs : VlConfigure(c)
    \/ \E l \in VlLoggers : VlHandle(l) \/ VlEnqueue(l)
    \/ VlClose
    \/ VlRun

(* The worker runs and its requests end: each has a timeout. *)
VlFairness == WF_vlVars(VlRun)

VlSpec == VlInit /\ [][VlNext]_vlVars /\ VlFairness

-----------------------------------------------------------------------------
(* Properties *)

(* Lines are numbers, the queue keeps its size, and only the final flush,  *)
(* which takes the whole queue, may be larger than a batch.                *)
VlTypeOK ==
    /\ vlConf \in VlConfs /\ vlStop \in BOOLEAN /\ vlFinal \in BOOLEAN
    /\ vlAt \in [VlLoggers -> {"idle", "send"}]
    /\ Len(vlLines) <= VlQueueSize
    /\ vlPc \in {"top", "select", "flush", "post", "drain", "done"}
    /\ vlPc \in {"drain", "done"} => vlFinal
    /\ ~vlFinal => Len(vlBuf) <= VlBatchSize
    /\ vlPc \in {"flush", "post"} => vlBuf # <<>>
    /\ {vlDropped, vlOffered, vlLate, vlDiscarded} \subseteq Nat

(* Dropped() is exact at every moment: it counts the lines that met a full *)
(* queue and those of failed flushes.  A line that is neither in the       *)
(* shipper, nor shipped, nor counted was discarded because shipping had    *)
(* been switched off.                                                      *)
VlAccounted ==
    vlOffered = Len(vlLines) + Len(vlBuf) + Len(vlShipped) + vlDropped + vlDiscarded

(* The endpoint gets the lines in the order they were queued, each at most *)
(* once, across batches, the ticker and the final flush.                   *)
VlInOrder ==
    LET all == vlShipped \o vlBuf \o vlLines
    IN  \A i \in 1 .. Len(all) - 1 : all[i] < all[i + 1]

(* Only lines logged after Close can be left behind by it. *)
VlClosedIsDrained == vlPc = "done" => Len(vlLines) <= vlLate

(* Close ends the worker, whatever the endpoint does and however much is   *)
(* logged meanwhile.                                                       *)
VlStops == vlStop ~> vlPc = "done"

(* However loggers, the ticker, failing flushes and Close interleave, a    *)
(* line is shipped once and in its order, counted or discarded on purpose, *)
(* and Close leaves nothing behind that was queued before it.              *)
VlSafe == VlTypeOK /\ VlAccounted /\ VlInOrder /\ VlClosedIsDrained
=============================================================================
