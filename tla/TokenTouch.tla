----------------------------- MODULE TokenTouch -----------------------------
(***************************************************************************)
(* The last-used times of API tokens (internal/auth/auth.go: maybeTouch,   *)
(* touchWorker, doTouch, Close; TouchAPIToken in internal/store/tokens.go).*)
(* A request that was let in by a token decides under touchMu whether the  *)
(* token is due, on a time it read before the lock, and puts the id on a   *)
(* bounded queue without waiting; one worker writes.                       *)
(*                                                                         *)
(* Time counts half minutes.  Every operator begins with Tt.               *)
(***************************************************************************)
EXTENDS Integers, Sequences

CONSTANTS
    TtRequests,     \* request goroutines
    TtTokens,
    TtNone,
    TtQueueCap,     \* touchQueueCap
    TtMaxNow        \* bound

ASSUME TtAssumption ==
    /\ TtQueueCap \in Nat \ {0} /\ TtMaxNow \in Nat
    /\ TtNone \notin TtTokens \cup Nat
    /\ {"select", "exited"} \cap TtTokens = {}

TtMinute == 2

VARIABLES
    ttNow,
    ttTouched,   \* m.touched
    ttReq,       \* a request in maybeTouch
    ttQueue,     \* m.touchCh
    ttWorker,    \* the worker: "select", "exited" or the token it writes
    ttDone,      \* m.touchDone is closed
    ttClosing,   \* Close: "no", "waiting" or "returned"
    ttUsed,      \* last_used_at
    ttWrites     \* history: how often the worker has set out to write it

ttVars == <<ttNow, ttTouched, ttReq, ttQueue, ttWorker, ttDone, ttClosing, ttUsed,
            ttWrites>>

TtIdle == [pc |-> "idle", id |-> TtNone, now |-> 0]

TtInit ==
    /\ ttNow = 0
    /\ ttTouched = [i \in TtTokens |-> TtNone]
    /\ ttReq = [r \in TtRequests |-> TtIdle]
    /\ ttQueue = <<>> /\ ttWorker = "select"
    /\ ttDone = FALSE /\ ttClosing = "no"
    /\ ttUsed = [i \in TtTokens |-> TtNone]
    /\ ttWrites = [i \in TtTokens |-> 0]

TtTick ==
    /\ ttNow < TtMaxNow /\ ttNow' = ttNow + 1
    /\ UNCHANGED <<ttTouched, ttReq, ttQueue, ttWorker, ttDone, ttClosing, ttUsed,
                   ttWrites>>

-----------------------------------------------------------------------------
(* maybeTouch *)

maybeTouch(r) ==
    /\ ttReq[r].pc = "idle"
    /\ \E i \in TtTokens :
          ttReq' = [ttReq EXCEPT ![r] = [pc |-> "lock", id |-> i, now |-> ttNow]]
    /\ UNCHANGED <<ttNow, ttTouched, ttQueue, ttWorker, ttDone, ttClosing, ttUsed,
                   ttWrites>>

(* The time may be older than the one recorded. *)
TtIsDue(i, now)   ==
    ttTouched[i] = TtNone \/ now - ttTouched[i] >= TtMinute

TtDecide(r) ==
    /\ ttReq[r].pc = "lock"
    /\ LET i == ttReq[r].id  now == ttReq[r].now IN
       IF TtIsDue(i, now)
       THEN /\ ttTouched' = [ttTouched EXCEPT ![i] = now]
            /\ ttReq' = [ttReq EXCEPT ![r].pc = "send"]
       ELSE /\ ttReq' = [ttReq EXCEPT ![r] = TtIdle]
            /\ UNCHANGED ttTouched
    /\ UNCHANGED <<ttNow, ttQueue, ttWorker, ttDone, ttClosing, ttUsed,
                   ttWrites>>

(* A full queue drops the touch. *)
TtSend(r) ==
    /\ ttReq[r].pc = "send"
    /\ ttReq' = [ttReq EXCEPT ![r] = TtIdle]
    /\ ttQueue' = IF Len(ttQueue) < TtQueueCap THEN Append(ttQueue, ttReq[r].id) ELSE ttQueue
    /\ UNCHANGED <<ttNow, ttTouched, ttWorker, ttDone, ttClosing, ttUsed,
                   ttWrites>>

-----------------------------------------------------------------------------
(* touchWorker and Close *)

TtTake ==
    /\ ttWorker = "select" /\ ttQueue # <<>>
    /\ ttWorker' = Head(ttQueue) /\ ttQueue' = Tail(ttQueue)
    /\ UNCHANGED <<ttNow, ttTouched, ttReq, ttDone, ttClosing, ttUsed,
                   ttWrites>>

(* The write ends within its two seconds, done or not. *)
doTouch ==
    /\ ttWorker \in TtTokens
    /\ ttUsed' \in {ttUsed, [ttUsed EXCEPT ![ttWorker] = ttNow]}
    /\ ttWrites' = [ttWrites EXCEPT ![ttWorker] = @ + 1]
    /\ ttWorker' = "select"
    /\ UNCHANGED <<ttNow, ttTouched, ttReq, ttQueue, ttDone, ttClosing>>

TtExit   ==
    /\ ttWorker = "select" /\ ttDone /\ ttWorker' = "exited"
    /\ UNCHANGED <<ttNow, ttTouched, ttReq, ttQueue, ttDone, ttClosing, ttUsed,
                   ttWrites>>

TtClose ==
    /\ ttClosing = "no" /\ ttDone' = TRUE /\ ttClosing' = "waiting"
    /\ UNCHANGED <<ttNow, ttTouched, ttReq, ttQueue, ttWorker, ttUsed,
                   ttWrites>>

TtClosed ==
    /\ ttClosing = "waiting" /\ ttWorker = "exited" /\ ttClosing' = "returned"
    /\ UNCHANGED <<ttNow, ttTouched, ttReq, ttQueue, ttWorker, ttDone, ttUsed,
                   ttWrites>>

TtNext ==
    \/ TtTick \/ TtTake \/ doTouch \/ TtExit \/ TtClose \/ TtClosed
    \/ \E r \in TtRequests : maybeTouch(r) \/ TtDecide(r) \/ TtSend(r)

(* The worker goes on, and a select that is ready on both sides again and  *)
(* again does not take the same side for ever.                             *)
TtSpec ==
    /\ TtInit /\ [][TtNext]_ttVars
    /\ WF_ttVars(TtTake \/ doTouch \/ TtClosed) /\ SF_ttVars(TtExit)

-----------------------------------------------------------------------------
(* Properties *)

(* "coalesces touches per token id to at most one per minute": in all, the *)
(* database is written for a token at most once for each minute that has   *)
(* begun, in whatever order requests read the time and get the lock, and   *)
(* however late the worker comes to what is queued.                        *)
TtCoalesced ==
    \A i \in TtTokens : ttWrites[i] > 0 => (ttWrites[i] - 1) * TtMinute <= ttNow

(* Close returns, although requests go on filling the queue. *)
TtCloses == (ttClosing = "waiting") ~> (ttClosing = "returned")
=============================================================================
