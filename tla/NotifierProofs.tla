--------------------------- MODULE NotifierProofs ---------------------------
(* Proofs about Notifier: for any number of senders, targets and metrics,  *)
(* no result is lost uncounted, the rows that fire are what the results    *)
(* left, and alerts and recoveries alternate and keep the cooldown.        *)
EXTENDS Notifier, FiniteSetTheorems, SequenceTheorems, TLAPS

(* Where the worker is between results, and inside process. *)
Between == {"select", "drain", "done"}
Inside == {"target", "eval", "deliver"}
Fields == {"res", "conf", "back", "always", "ev", "todo", "at", "quiet", "msg"}

(* The senders, the queue and the counters. *)
Busy == {s \in Senders : hand[s].at # "idle"}
Queued ==
  /\ DOMAIN hand = Senders
  /\ \A s \in Senders : hand[s] \in [at : {"idle"}, res : {None}]
                                    \cup [at : {"full", "again"}, res : Results]
  /\ queue \in Seq(Results) /\ Len(queue) <= QueueCap
  /\ offered \in Nat /\ handled \in Nat /\ late \in Nat /\ dropped \in Nat
  /\ stop \in BOOLEAN
  /\ IsFiniteSet(Busy) /\ offered = handled + dropped + Len(queue) + Cardinality(Busy)
  /\ pc = "done" => Len(queue) <= late

(* What the settings, the tables and the history hold. *)
Stored ==
  /\ conf \in Confs /\ doc \in [Targets -> Docs \cup {Gone}] /\ now \in 0..MaxNow
  /\ rows \in [Targets -> [Metric -> {None, Empty} \cup 0..MaxNow]]
  /\ should \in [Targets -> SUBSET Metric]
  /\ DOMAIN told = Targets /\ \A t \in Targets : DOMAIN told[t] = Metric
  /\ edits \in Nat /\ failures \in Nat /\ crashes \in Nat
  /\ \A t \in Targets : doc[t] = Gone => \A m \in Metric : rows[t][m] = None

(* The worker's locals; it drains, or goes back to draining, after Close.  *)
Working ==
  /\ pc \in Between \cup Inside
  /\ pc \in Between => cur = NoCur
  /\ pc \in Inside => cur.res \in Results /\ cur.back \in {"select", "drain"}
  /\ pc \in {"eval", "deliver"} =>
       /\ DOMAIN cur = Fields
       /\ DOMAIN cur.ev \subseteq Metric /\ cur.todo \subseteq DOMAIN cur.ev
       /\ cur.at \in 0..MaxNow
  /\ pc = "deliver" =>
       /\ cur.msg.kind \in {"alert", "recovery", "result"}
       /\ cur.msg.kind # "result" => cur.msg.metric \in Metric
  /\ pc \in {"drain", "done"} => stop
  /\ pc \in Inside /\ cur.back = "drain" => stop

(* The row of a pair is what its results left: those of the result at hand *)
(* that have been looked at, and otherwise what should be firing.          *)
Judged(t, m) ==
  /\ pc \in {"eval", "deliver"} /\ cur.res.target = t
  /\ ~(pc = "deliver" /\ cur.msg.kind = "result")
  /\ m \in DOMAIN cur.ev /\ m \notin cur.todo
Account ==
  failures = 0 =>
    \A t \in Targets : doc[t] # Gone =>
      \A m \in Metric :
        /\ Judged(t, m) => (rows[t][m] # None <=> cur.ev[m])
        /\ ~Judged(t, m) => (rows[t][m] # None <=> m \in should[t])

(* A failed result is evaluated for the failure alert alone. *)
FailedBreach ==
  pc \in {"eval", "deliver"} /\ ~cur.res.ok => \A m \in DOMAIN cur.ev : cur.ev[m]

(* A row with a time stands for an alert the channels were told of (or     *)
(* would have been but for a crash), at that time; except for the pair     *)
(* whose message is on its way.                                            *)
Alerted(t, m) == told[t][m].kind \in {"alert", "lost"}
Pending(t, m) ==
  /\ pc = "deliver" /\ cur.msg.kind # "result"
  /\ cur.res.target = t /\ cur.msg.metric = m
Standing(t, m) ==
  /\ rows[t][m] \notin {None, Empty} <=> Alerted(t, m)
  /\ Alerted(t, m) => told[t][m].at = rows[t][m]
Mentioned ==
  /\ \A t \in Targets : doc[t] # Gone =>
       \A m \in Metric :
         /\ ~Pending(t, m) => Standing(t, m)
         /\ Pending(t, m) =>
              rows[t][m] = IF cur.msg.kind = "alert" THEN cur.at ELSE None
  /\ \A t \in Targets, m \in Metric : Pending(t, m) =>
       /\ cur.msg.kind = "recovery" => Alerted(t, m)
       /\ cur.msg.kind = "alert" /\ Alerted(t, m) =>
            cur.at - told[t][m].at >= cur.conf.cooldown

NotifierInv == Queued /\ Stored /\ Working /\ Account /\ FailedBreach /\ Mentioned

(***************************************************************************)
(* The senders and the queue                                               *)
(***************************************************************************)

(* The constants, one by one. *)
LEMMA NotifierConstants ==
  /\ QueueCap \in Nat \ {0} /\ Day \in Nat \ {0} /\ MaxNow \in Nat
  /\ \A res \in Results : res.target \in Targets
  /\ None \notin Results /\ None # Empty /\ None \notin 0..MaxNow /\ Empty \notin 0..MaxNow
  /\ None \notin [kind : {"alert", "recovery"}, metric : Metric]
BY BoundsAssumption, DataAssumption

(* Appending to the queue, and taking its head. *)
LEMMA QueueGrows ==
  ASSUME NEW q \in Seq(Results), NEW r \in Results
  PROVE  Append(q, r) \in Seq(Results) /\ Len(Append(q, r)) = Len(q) + 1 /\ Len(q) \in Nat
BY AppendProperties, LenProperties

(* What taking the oldest message off a non-empty queue leaves. *)
LEMMA QueueShrinks ==
  ASSUME NEW q \in Seq(Results), q # <<>>
  PROVE  /\ Tail(q) \in Seq(Results) /\ Len(Tail(q)) = Len(q) - 1
         /\ Len(q) \in Nat /\ Len(q) > 0 /\ Head(q) \in Results
BY HeadTailProperties, LenProperties, EmptySeq

(* A sender that becomes busy, one that stops being so. *)
LEMMA BusyCount ==
  ASSUME IsFiniteSet(Busy), NEW s
  PROVE  /\ Cardinality(Busy) \in Nat
         /\ s \notin Busy => /\ IsFiniteSet(Busy \cup {s})
                             /\ Cardinality(Busy \cup {s}) = Cardinality(Busy) + 1
         /\ s \in Busy => /\ IsFiniteSet(Busy \ {s})
                          /\ Cardinality(Busy \ {s}) = Cardinality(Busy) - 1
BY FS_CardinalityType, FS_AddElement, FS_RemoveElement

(* The queue takes one more result. *)
LEMMA SendQueues ==
  ASSUME Queued, NEW s \in Senders, NEW res \in Results, Len(queue) < QueueCap, Send(s, res)
  PROVE  /\ queue' \in Seq(Results) /\ Len(queue') = Len(queue) + 1 /\ Len(queue') <= QueueCap
         /\ late' \in Nat /\ late' >= late /\ (stop => late' = late + 1)
         /\ DOMAIN hand' = Senders /\ hand'[s] = [at |-> "idle", res |-> None]
         /\ \A q \in Senders : q # s => hand'[q] = hand[q]
         /\ dropped' = dropped
<1>1. queue' = Append(queue, res) /\ queue \in Seq(Results)
  BY DEF Send, Queued
<1>2. queue' \in Seq(Results) /\ Len(queue') = Len(queue) + 1 /\ Len(queue) \in Nat
  BY <1>1, QueueGrows
<1>3. Len(queue') <= QueueCap
  BY <1>2, NotifierConstants
<1>4. late' \in Nat /\ late' >= late /\ (stop => late' = late + 1)
  BY DEF Send, Queued
<1>5. DOMAIN hand' = Senders /\ hand'[s] = [at |-> "idle", res |-> None]
      /\ \A q \in Senders : q # s => hand'[q] = hand[q]
  BY DEF Send, Queued
<1> QED BY <1>2, <1>3, <1>4, <1>5 DEF Send

(* OnResult: the result is queued, or the sender goes on to make room. *)
LEMMA OnResultKeepsQueued ==
  ASSUME Queued, Working, NEW s \in Senders, NEW res \in Results, OnResult(s, res)
  PROVE  Queued'
<1>1. /\ hand[s].at = "idle" /\ offered' = offered + 1 /\ handled' = handled
      /\ stop' = stop /\ pc' = pc
  BY DEF OnResult, rest
<1>2. pc = "done" => stop
  BY DEF Working
<1>3. PICK n \in Nat, l \in Nat : n = Cardinality(Busy) /\ l = Len(queue)
  BY BusyCount, LenProperties DEF Queued
<1>4. s \notin Busy /\ IsFiniteSet(Busy)
      /\ offered \in Nat /\ handled \in Nat /\ dropped \in Nat /\ late \in Nat
      /\ offered = handled + dropped + l + n
  BY <1>1, <1>3 DEF Busy, Queued
<1>5. CASE Len(queue) < QueueCap
  <2>1. Send(s, res)
    BY <1>5 DEF OnResult
  <2>2. /\ queue' \in Seq(Results) /\ Len(queue') = l + 1 /\ Len(queue') <= QueueCap
        /\ late' \in Nat /\ late' >= late /\ (stop => late' = late + 1)
        /\ DOMAIN hand' = Senders /\ hand'[s] = [at |-> "idle", res |-> None]
        /\ \A q \in Senders : q # s => hand'[q] = hand[q]
        /\ dropped' = dropped
    BY <1>3, <1>5, <2>1, SendQueues
  <2>3. Busy' = Busy
    BY <1>1, <2>2 DEF Busy
  <2>4. offered' = handled' + dropped' + Len(queue') + Cardinality(Busy')
    BY <1>1, <1>3, <1>4, <2>2, <2>3
  <2>5. pc' = "done" => Len(queue') <= late'
    BY <1>1, <1>2, <1>3, <1>4, <2>2 DEF Queued
  <2>6. \A q \in Senders : hand'[q] \in [at : {"idle"}, res : {None}]
                                       \cup [at : {"full", "again"}, res : Results]
    BY <2>2 DEF Queued
  <2> QED BY <1>1, <1>4, <2>2, <2>3, <2>4, <2>5, <2>6 DEF Queued
<1>6. CASE ~(Len(queue) < QueueCap)
  <2>1. UNCHANGED <<queue, dropped, late>>
        /\ hand' = [hand EXCEPT ![s] = [at |-> "full", res |-> res]]
    BY <1>6 DEF OnResult
  <2>2. DOMAIN hand' = Senders /\ hand'[s] = [at |-> "full", res |-> res]
        /\ \A q \in Senders : q # s => hand'[q] = hand[q]
    BY <2>1 DEF Queued
  <2>3. Busy' = Busy \cup {s}
    BY <2>2 DEF Busy
  <2>4. IsFiniteSet(Busy') /\ Cardinality(Busy') = n + 1
    BY <1>3, <1>4, <2>3, BusyCount
  <2>5. offered' = handled' + dropped' + Len(queue') + Cardinality(Busy')
    BY <1>1, <1>3, <1>4, <2>1, <2>4
  <2>6. \A q \in Senders : hand'[q] \in [at : {"idle"}, res : {None}]
                                       \cup [at : {"full", "again"}, res : Results]
    BY <2>2 DEF Queued
  <2>7. /\ queue' \in Seq(Results) /\ Len(queue') <= QueueCap /\ stop' \in BOOLEAN
        /\ pc' = "done" => Len(queue') <= late'
    BY <1>1, <2>1 DEF Queued
  <2> QED BY <1>1, <1>4, <2>1, <2>2, <2>4, <2>5, <2>6, <2>7 DEF Queued
<1> QED BY <1>5, <1>6

(* DropOldest: the oldest result is dropped, unless the worker was faster. *)
LEMMA DropOldestKeepsQueued ==
  ASSUME Queued, NEW s \in Senders, DropOldest(s)
  PROVE  Queued'
<1>1. /\ hand[s].at = "full" /\ UNCHANGED <<offered, handled, late, stop, pc>>
      /\ hand' = [hand EXCEPT ![s].at = "again"]
  BY DEF DropOldest, rest
<1>2. PICK n \in Nat, l \in Nat : n = Cardinality(Busy) /\ l = Len(queue)
  BY BusyCount, LenProperties DEF Queued
<1>3. /\ offered \in Nat /\ handled \in Nat /\ dropped \in Nat /\ late \in Nat
      /\ offered = handled + dropped + l + n /\ IsFiniteSet(Busy)
  BY <1>2 DEF Queued
<1>4. hand[s] \in [at : {"full", "again"}, res : Results] /\ DOMAIN hand = Senders
  BY <1>1 DEF Queued
<1>5. /\ DOMAIN hand' = Senders /\ hand'[s] \in [at : {"full", "again"}, res : Results]
      /\ \A q \in Senders : q # s => hand'[q] = hand[q]
  BY <1>1, <1>4
<1>6. Busy' = Busy
  BY <1>1, <1>5 DEF Busy
<1>7. \A q \in Senders : hand'[q] \in [at : {"idle"}, res : {None}]
                                     \cup [at : {"full", "again"}, res : Results]
  BY <1>5 DEF Queued
<1>8. CASE queue = <<>>
  <2>1. UNCHANGED <<queue, dropped>>
    BY <1>8 DEF DropOldest
  <2> QED BY <1>1, <1>5, <1>6, <1>7, <2>1 DEF Queued
<1>9. CASE queue # <<>>
  <2>1. queue' = Tail(queue) /\ dropped' = dropped + 1
    BY <1>9 DEF DropOldest
  <2>2. queue' \in Seq(Results) /\ Len(queue') = l - 1 /\ l > 0
    BY <1>2, <1>9, <2>1, QueueShrinks DEF Queued
  <2>3. offered' = handled' + dropped' + Len(queue') + Cardinality(Busy')
    BY <1>1, <1>2, <1>3, <1>6, <2>1, <2>2
  <2>4. Len(queue') <= QueueCap /\ (pc' = "done" => Len(queue') <= late')
    BY <1>1, <1>2, <1>3, <2>2, NotifierConstants DEF Queued
  <2>5. dropped' \in Nat
    BY <1>3, <2>1
  <2> QED BY <1>1, <1>3, <1>5, <1>6, <1>7, <2>2, <2>3, <2>4, <2>5 DEF Queued
<1> QED BY <1>8, <1>9

(* SendAgain: the result is queued after all, or counted as dropped. *)
LEMMA SendAgainKeepsQueued ==
  ASSUME Queued, Working, NEW s \in Senders, SendAgain(s)
  PROVE  Queued'
<1>1. /\ hand[s].at = "again" /\ UNCHANGED <<offered, handled, stop, pc>>
  BY DEF SendAgain, rest
<1>2. pc = "done" => stop
  BY DEF Working
<1>3. PICK n \in Nat, l \in Nat : n = Cardinality(Busy) /\ l = Len(queue)
  BY BusyCount, LenProperties DEF Queued
<1>4. /\ offered \in Nat /\ handled \in Nat /\ dropped \in Nat /\ late \in Nat
      /\ offered = handled + dropped + l + n /\ IsFiniteSet(Busy)
  BY <1>3 DEF Queued
<1>5. s \in Busy /\ hand[s].res \in Results
  BY <1>1 DEF Busy, Queued
<1>6. IsFiniteSet(Busy \ {s}) /\ Cardinality(Busy \ {s}) = n - 1
  BY <1>3, <1>4, <1>5, BusyCount
<1>7. ASSUME DOMAIN hand' = Senders, hand'[s] = [at |-> "idle", res |-> None],
             \A q \in Senders : q # s => hand'[q] = hand[q]
      PROVE  /\ Busy' = Busy \ {s}
             /\ \A q \in Senders : hand'[q] \in [at : {"idle"}, res : {None}]
                                       \cup [at : {"full", "again"}, res : Results]
  <2>1. Busy' = Busy \ {s}
    BY <1>7 DEF Busy
  <2>2. \A q \in Senders : hand'[q] \in [at : {"idle"}, res : {None}]
                                       \cup [at : {"full", "again"}, res : Results]
    BY <1>7 DEF Queued
  <2> QED BY <2>1, <2>2
<1>8. CASE Len(queue) < QueueCap
  <2>1. Send(s, hand[s].res)
    BY <1>8 DEF SendAgain
  <2>2. /\ queue' \in Seq(Results) /\ Len(queue') = l + 1 /\ Len(queue') <= QueueCap
        /\ late' \in Nat /\ late' >= late /\ (stop => late' = late + 1)
        /\ DOMAIN hand' = Senders /\ hand'[s] = [at |-> "idle", res |-> None]
        /\ \A q \in Senders : q # s => hand'[q] = hand[q]
        /\ dropped' = dropped
    BY <1>3, <1>5, <1>8, <2>1, SendQueues
  <2>3. Busy' = Busy \ {s}
        /\ \A q \in Senders : hand'[q] \in [at : {"idle"}, res : {None}]
                                       \cup [at : {"full", "again"}, res : Results]
    BY <1>7, <2>2
  <2>4. offered' = handled' + dropped' + Len(queue') + Cardinality(Busy')
    BY <1>1, <1>4, <1>6, <2>2, <2>3
  <2>5. pc' = "done" => Len(queue') <= late'
    BY <1>1, <1>2, <1>3, <1>4, <2>2 DEF Queued
  <2> QED BY <1>1, <1>4, <1>6, <2>2, <2>3, <2>4, <2>5 DEF Queued
<1>9. CASE ~(Len(queue) < QueueCap)
  <2>1. /\ dropped' = dropped + 1 /\ UNCHANGED <<queue, late>>
        /\ hand' = [hand EXCEPT ![s] = [at |-> "idle", res |-> None]]
    BY <1>9 DEF SendAgain
  <2>2. DOMAIN hand' = Senders /\ hand'[s] = [at |-> "idle", res |-> None]
        /\ \A q \in Senders : q # s => hand'[q] = hand[q]
    BY <2>1 DEF Queued
  <2>3. Busy' = Busy \ {s}
        /\ \A q \in Senders : hand'[q] \in [at : {"idle"}, res : {None}]
                                       \cup [at : {"full", "again"}, res : Results]
    BY <1>7, <2>2
  <2>4. offered' = handled' + dropped' + Len(queue') + Cardinality(Busy')
    BY <1>1, <1>3, <1>4, <1>6, <2>1, <2>3
  <2>5. dropped' \in Nat
    BY <1>4, <2>1
  <2>6. /\ queue' \in Seq(Results) /\ Len(queue') <= QueueCap /\ stop' \in BOOLEAN
        /\ (pc' = "done" => Len(queue') <= late') /\ late' \in Nat
    BY <1>1, <2>1 DEF Queued
  <2> QED BY <1>1, <1>4, <1>6, <2>2, <2>3, <2>4, <2>5, <2>6 DEF Queued
<1> QED BY <1>8, <1>9

(* The worker and the others: only Receive and Crash touch the queue, and  *)
(* only Return ends the worker. *)
LEMMA OthersKeepQueued ==
  ASSUME Queued, UNCHANGED <<queue, hand, dropped, counts>>, stop' \in BOOLEAN,
         pc' = "done" => pc = "done" \/ queue = <<>>
  PROVE  Queued'
<1>1. UNCHANGED <<queue, hand, dropped, offered, handled, late>>
  BY DEF counts
<1>2. Busy' = Busy
  BY <1>1 DEF Busy
<1>3. queue = <<>> => Len(queue) = 0
  BY EmptySeq
<1>4. pc' = "done" => Len(queue) <= late
  BY <1>3 DEF Queued
<1> QED BY <1>1, <1>2, <1>4 DEF Queued

(* Taking a result off the queue moves it from the queued to the handled. *)
LEMMA ReceiveKeepsQueued ==
  ASSUME Queued, Receive
  PROVE  Queued'
<1>1. /\ queue # <<>> /\ queue' = Tail(queue) /\ handled' = handled + 1
      /\ UNCHANGED <<hand, stop, dropped, offered, late>> /\ pc' # "done"
  BY DEF Receive, idle, settled
<1>2. PICK n \in Nat, l \in Nat : n = Cardinality(Busy) /\ l = Len(queue)
  BY BusyCount, LenProperties DEF Queued
<1>3. /\ offered \in Nat /\ handled \in Nat /\ dropped \in Nat
      /\ offered = handled + dropped + l + n /\ IsFiniteSet(Busy) /\ l <= QueueCap
  BY <1>2 DEF Queued
<1>4. queue' \in Seq(Results) /\ Len(queue') = l - 1 /\ l > 0
  BY <1>1, <1>2, QueueShrinks DEF Queued
<1>5. Busy' = Busy
  BY <1>1 DEF Busy
<1>6. offered' = handled' + dropped' + Len(queue') + Cardinality(Busy')
  BY <1>1, <1>2, <1>3, <1>4, <1>5
<1>7. Len(queue') <= QueueCap /\ handled' \in Nat
  BY <1>1, <1>3, <1>4, NotifierConstants
<1> QED BY <1>1, <1>3, <1>4, <1>5, <1>6, <1>7 DEF Queued

(* A restart begins the account of the queue anew. *)
LEMMA CrashKeepsQueued ==
  ASSUME Queued, Crash
  PROVE  Queued'
<1>1. /\ queue' = <<>> /\ hand' = [s \in Senders |-> [at |-> "idle", res |-> None]]
      /\ dropped' = 0 /\ offered' = 0 /\ handled' = 0 /\ late' = 0 /\ stop' = stop
      /\ pc' = "select"
  BY DEF Crash
<1>2. Busy' = {}
  BY <1>1 DEF Busy
<1>3. IsFiniteSet(Busy') /\ Cardinality(Busy') = 0
  BY <1>2, FS_EmptySet
<1>4. queue' \in Seq(Results) /\ Len(queue') = 0
  BY <1>1, EmptySeq
<1>5. Len(queue') <= QueueCap
  BY <1>4, NotifierConstants
<1>6. DOMAIN hand' = Senders
      /\ \A s \in Senders : hand'[s] \in [at : {"idle"}, res : {None}]
                                         \cup [at : {"full", "again"}, res : Results]
  BY <1>1
<1>7. offered' = handled' + dropped' + Len(queue') + Cardinality(Busy')
  BY <1>1, <1>3, <1>4
<1>8. stop' \in BOOLEAN /\ pc' # "done"
  BY <1>1 DEF Queued
<1> QED BY <1>1, <1>3, <1>4, <1>5, <1>6, <1>7, <1>8 DEF Queued

(* Every step keeps the account of the queue. *)
LEMMA QueuedStep ==
  ASSUME Queued, Working, [Next]_vars
  PROVE  Queued'
<1>1. ASSUME NEW s \in Senders,
             (\E res \in Results : OnResult(s, res)) \/ DropOldest(s) \/ SendAgain(s)
      PROVE  Queued'
  BY <1>1, OnResultKeepsQueued, DropOldestKeepsQueued, SendAgainKeepsQueued
<1>2. \A c \in Confs : Configure(c) => Queued'
  BY OthersKeepQueued DEF Configure, Queued
<1>3. \A t \in Targets, d \in Docs \cup {Gone} : EditTarget(t, d) => Queued'
  BY OthersKeepQueued DEF EditTarget, Queued
<1>4. Close => Queued'
  BY OthersKeepQueued DEF Close, Queued
<1>5. ASSUME SeeStop \/ Return \/ GetTarget \/ handleEval \/ clearStaleState \/ deliver
      PROVE  Queued'
  <2>1. UNCHANGED <<queue, hand, dropped, counts, stop>>
    BY <1>5 DEF SeeStop, Return, GetTarget, handleEval, clearStaleState, deliver, idle, settled,
                counts
  <2>2. SeeStop \/ handleEval => pc' # "done"
    BY DEF SeeStop, handleEval
  <2>3. Return => queue = <<>>
    BY DEF Return, Drained
  <2>4. GetTarget \/ clearStaleState \/ deliver => pc' # "done"
    <3>1. GetTarget \/ clearStaleState \/ deliver => cur.back \in {"select", "drain"}
      BY DEF GetTarget, clearStaleState, deliver, Working, Inside
    <3>2. GetTarget => pc' \in {"eval", cur.back}
      BY DEF GetTarget, Finish
    <3>3. clearStaleState => pc' \in {"deliver", cur.back}
      BY DEF clearStaleState, Finish
    <3>4. deliver => pc' \in {"eval", cur.back}
      BY DEF deliver, Finish
    <3> QED BY <3>1, <3>2, <3>3, <3>4
  <2>5. stop' \in BOOLEAN
    BY <2>1 DEF Queued
  <2> QED BY <1>5, <2>1, <2>2, <2>3, <2>4, <2>5, OthersKeepQueued
<1>6. UNCHANGED vars => Queued'
  BY OthersKeepQueued DEF vars, Queued
<1> QED BY <1>1, <1>2, <1>3, <1>4, <1>5, <1>6, ReceiveKeepsQueued, CrashKeepsQueued
        DEF Next, WorkerStep

(***************************************************************************)
(* The tables, the history and the worker's locals                         *)
(***************************************************************************)

(* What is told of a target changes for that target only. *)
LEMMA Forgets ==
  ASSUME Stored, NEW t \in Targets, NEW M, Forget(t, M)
  PROVE  /\ DOMAIN told' = Targets /\ \A q \in Targets : DOMAIN told'[q] = Metric
         /\ \A q \in Targets : q # t => told'[q] = told[q]
         /\ \A m \in Metric :
              told'[t][m] = IF m \in M THEN [kind |-> "none", at |-> 0] ELSE told[t][m]
BY DEF Forget, Stored

(* A message is something. *)
LEMMA Messages ==
  ASSUME NEW m \in Metric, NEW k \in {"alert", "recovery"}
  PROVE  Message(k, m) # None /\ Message(k, m).kind = k /\ Message(k, m).metric = m
<1>1. Message(k, m) \in [kind : {"alert", "recovery"}, metric : Metric]
  BY DEF Message
<1> QED BY <1>1, NotifierConstants DEF Message

(* The row and the message of a verdict on metric m, whose row is last. *)
LEMMA VerdictMeans ==
  ASSUME Stored, Working, pc = "eval", NEW m \in cur.todo
  PROVE  LET t == cur.res.target
             last == rows[t][m]
             v == Verdict(m)
         IN  /\ t \in Targets /\ m \in Metric /\ v = [row |-> v.row, msg |-> v.msg]
             /\ v.row \in {None, Empty} \cup 0..MaxNow
             /\ v.row # None <=> cur.ev[m]
             /\ \/ v.msg = None /\ (v.row = None \/ v.row = last \/ (v.row = Empty /\ last = None))
                \/ /\ v.msg # None /\ v.msg.kind = "alert" /\ v.msg.metric = m /\ v.row = cur.at
                   /\ last \in {None, Empty} \/ cur.at - last >= cur.conf.cooldown
                \/ /\ v.msg # None /\ v.msg.kind = "recovery" /\ v.msg.metric = m /\ v.row = None
                   /\ last \notin {None, Empty}
<1> SUFFICES ASSUME NEW t, t = cur.res.target, NEW last, last = rows[t][m], NEW v, v = Verdict(m)
             PROVE  /\ t \in Targets /\ m \in Metric /\ v = [row |-> v.row, msg |-> v.msg]
                    /\ v.row \in {None, Empty} \cup 0..MaxNow
                    /\ v.row # None <=> cur.ev[m]
                    /\ \/ v.msg = None /\ (v.row = None \/ v.row = last \/ (v.row = Empty /\ last = None))
                       \/ /\ v.msg # None /\ v.msg.kind = "alert" /\ v.msg.metric = m /\ v.row = cur.at
                          /\ last \in {None, Empty} \/ cur.at - last >= cur.conf.cooldown
                       \/ /\ v.msg # None /\ v.msg.kind = "recovery" /\ v.msg.metric = m /\ v.row = None
                          /\ last \notin {None, Empty}
  OBVIOUS
<1>1. t \in Targets /\ m \in Metric /\ cur.at \in 0..MaxNow
      /\ last \in {None, Empty} \cup 0..MaxNow
  BY NotifierConstants DEF Working, Inside, Stored
<1>2. cur.at # None /\ cur.at # Empty /\ None # Empty
  BY <1>1, NotifierConstants
<1>4. CASE cur.ev[m] /\ cooldownElapsed(last, cur.at, cur.conf.cooldown)
  <2>1. v = [row |-> FiredAt(last), msg |-> IF cur.quiet THEN None ELSE Message("alert", m)]
    BY <1>4 DEF Verdict
  <2>2. last \in {None, Empty} \/ cur.at - last >= cur.conf.cooldown
    BY <1>4 DEF cooldownElapsed
  <2>3. CASE cur.quiet
    <3>1. v = [row |-> IF last = None THEN Empty ELSE last, msg |-> None]
      BY <2>1, <2>3 DEF FiredAt
    <3> QED BY <1>1, <1>2, <1>4, <3>1
  <2>4. CASE ~cur.quiet
    <3>1. v = [row |-> cur.at, msg |-> Message("alert", m)]
      BY <2>1, <2>4 DEF FiredAt
    <3> QED BY <1>1, <1>2, <1>4, <2>2, <3>1, Messages
  <2> QED BY <2>3, <2>4
<1>5. CASE cur.ev[m] /\ ~cooldownElapsed(last, cur.at, cur.conf.cooldown)
  <2>1. v = [row |-> last, msg |-> None] /\ last \notin {None, Empty}
    BY <1>5 DEF Verdict, cooldownElapsed
  <2> QED BY <1>1, <1>5, <2>1
<1>6. CASE ~cur.ev[m]
  <2>1. \/ v = [row |-> None, msg |-> None]
        \/ v = [row |-> None, msg |-> Message("recovery", m)] /\ last \notin {None, Empty}
    BY <1>6 DEF Verdict
  <2>2. CASE v = [row |-> None, msg |-> None]
    BY <1>1, <1>6, <2>2
  <2>3. CASE v = [row |-> None, msg |-> Message("recovery", m)] /\ last \notin {None, Empty}
    BY <1>1, <1>6, <2>3, Messages
  <2> QED BY <2>1, <2>2, <2>3
<1> QED BY <1>4, <1>5, <1>6

(* The metrics a result says anything about are metrics. *)
LEMMA EvaluatesMetrics ==
  ASSUME NEW res, NEW th
  PROVE  DOMAIN Evaluate(res, th) \subseteq Metric
<1>1. {m \in Limits : th[m] # None /\ Measured(res, m)} \subseteq Metric
  BY DEF Metric
<1>2. (IF th["on_failure"] = TRUE THEN {"failure"} ELSE {}) \subseteq Metric
  BY DEF Metric
<1> DEFINE failure == IF th["on_failure"] = TRUE THEN {"failure"} ELSE {}
           measured == {m \in Limits : th[m] # None /\ Measured(res, m)}
<1>3. DOMAIN Evaluate(res, th) = IF res.ok THEN measured \cup failure ELSE failure
  BY DEF Evaluate
<1> HIDE DEF failure, measured
<1>4. failure \subseteq Metric /\ measured \subseteq Metric
  BY <1>1, <1>2 DEF failure, measured
<1> QED BY <1>3, <1>4

(* Every step but the worker's and a crash leaves the worker alone, and    *)
(* all that it works with but the configuration and the targets. *)
Outside == UNCHANGED <<pc, cur, told, should, failures>>

(* What each step outside the worker does, in terms of Outside. *)
LEMMA OutsideSteps ==
  ASSUME \/ \E c \in Confs : Configure(c)
         \/ \E t \in Targets, d \in Docs \cup {Gone} : EditTarget(t, d)
         \/ \E s \in Senders : \/ \E res \in Results : OnResult(s, res)
                               \/ DropOldest(s) \/ SendAgain(s)
         \/ Close
         \/ UNCHANGED vars
  PROVE  /\ Outside /\ UNCHANGED <<now, crashes>>
         /\ \/ UNCHANGED <<doc, rows>>
            \/ \E t \in Targets, d \in Docs \cup {Gone} : EditTarget(t, d)
         /\ conf' = conf \/ conf' \in Confs
         /\ edits' \in {edits, edits + 1} /\ (stop' = stop \/ stop')
<1>1. \A c \in Confs : Configure(c) =>
        /\ UNCHANGED <<pc, cur, told, should, failures, doc, rows, now, crashes, stop>>
        /\ conf' \in Confs /\ edits' = edits + 1
  BY DEF Configure
<1>2. \A t \in Targets, d \in Docs \cup {Gone} : EditTarget(t, d) =>
        /\ UNCHANGED <<pc, cur, told, should, failures, now, crashes, stop, conf>>
        /\ edits' = edits + 1
  BY DEF EditTarget
<1>3. \A s \in Senders : (\E res \in Results : OnResult(s, res)) \/ DropOldest(s) \/ SendAgain(s) =>
        UNCHANGED <<pc, cur, told, should, failures, doc, rows, now, crashes, stop, conf, edits>>
  BY DEF OnResult, DropOldest, SendAgain, rest, bounds
<1>4. Close => /\ UNCHANGED <<pc, cur, told, should, failures, doc, rows, now, crashes, conf, edits>>
               /\ stop'
  BY DEF Close, bounds
<1>5. UNCHANGED vars =>
        UNCHANGED <<pc, cur, told, should, failures, doc, rows, now, crashes, stop, conf, edits>>
  BY DEF vars, bounds
<1> QED BY <1>1, <1>2, <1>3, <1>4, <1>5 DEF Outside

(* Configurations, edits of targets and senders keep the stored alert rows and what the
   worker holds well formed. *)
LEMMA OutsideKeepsStored ==
  ASSUME Stored, Working,
         Outside /\ UNCHANGED <<now, crashes>>,
         \/ UNCHANGED <<doc, rows>>
         \/ \E t \in Targets, d \in Docs \cup {Gone} : EditTarget(t, d),
         conf' = conf \/ conf' \in Confs,
         edits' \in {edits, edits + 1}, stop' = stop \/ stop'
  PROVE  Stored' /\ Working'
<1>1. UNCHANGED <<pc, cur, told, should, failures, now, crashes>>
  BY DEF Outside
<1>2. Working'
  BY <1>1 DEF Working
<1>3. CASE UNCHANGED <<doc, rows>>
  BY <1>1, <1>2, <1>3 DEF Stored
<1>4. ASSUME NEW t \in Targets, NEW d \in Docs \cup {Gone}, EditTarget(t, d)
      PROVE  Stored'
  <2>1. /\ doc' = [doc EXCEPT ![t] = d] /\ doc[t] # Gone
        /\ rows' = IF d = Gone THEN [rows EXCEPT ![t] = [m \in Metric |-> None]] ELSE rows
    BY <1>4 DEF EditTarget
  <2>2. doc' \in [Targets -> Docs \cup {Gone}]
    BY <2>1 DEF Stored
  <2>3. rows' \in [Targets -> [Metric -> {None, Empty} \cup 0..MaxNow]]
    BY <2>1 DEF Stored
  <2>4. \A q \in Targets : doc'[q] = Gone => \A m \in Metric : rows'[q][m] = None
    BY <2>1 DEF Stored
  <2> QED BY <1>1, <2>2, <2>3, <2>4 DEF Stored
<1> QED BY <1>2, <1>3, <1>4

(* Finish goes back to the loop the worker came from. *)
LEMMA Finishes ==
  ASSUME Working, pc \in Inside, Finish, stop' = stop
  PROVE  Working' /\ pc' \in {"select", "drain"} /\ cur' = NoCur
<1>1. pc' \in {"select", "drain"} /\ cur' = NoCur /\ (pc' = "drain" => stop)
  BY DEF Finish, Working
<1> QED BY <1>1 DEF Working, Inside, Between

(* The same of the worker: what it reads, evaluates and delivers. *)
LEMMA WorkerKeepsStored ==
  ASSUME Stored, Working, Queued,
         Receive \/ SeeStop \/ Return \/ GetTarget \/ handleEval \/ deliver
  PROVE  Stored' /\ Working'
<1>1. CASE Receive
  <2>1. /\ queue # <<>> /\ pc \in {"select", "drain"}
        /\ UNCHANGED <<conf, doc, rows, now, stop, told, should, edits, failures, crashes>>
        /\ IF conf.enabled
           THEN pc' = "target" /\ cur' = [res |-> Head(queue), conf |-> conf, back |-> pc]
           ELSE UNCHANGED <<pc, cur>>
    BY <1>1 DEF Receive, idle, settled
  <2>2. Head(queue) \in Results
    BY <2>1, QueueShrinks DEF Queued
  <2>3. Stored'
    BY <2>1 DEF Stored
  <2>4. CASE conf.enabled
    <3>1. pc' = "target" /\ cur'.res \in Results /\ cur'.back = pc
      BY <2>1, <2>2, <2>4
    <3> QED BY <2>1, <2>3, <3>1 DEF Working, Inside, Between
  <2>5. CASE ~conf.enabled
    BY <2>1, <2>3, <2>5 DEF Working
  <2> QED BY <2>4, <2>5
<1>2. CASE SeeStop \/ Return
  <2>1. /\ UNCHANGED <<conf, doc, rows, now, stop, told, should, edits, failures, crashes, cur>>
        /\ pc \in {"select", "drain"} /\ pc' \in {"drain", "done"} /\ stop
    BY <1>2 DEF SeeStop, Return, Drained, idle, settled, Working
  <2>2. Stored'
    BY <2>1 DEF Stored
  <2> QED BY <2>1, <2>2 DEF Working, Inside, Between
<1>3. CASE GetTarget
  <2>0. /\ UNCHANGED <<conf, doc, rows, stop, told, should, edits, crashes>> /\ pc = "target"
        /\ failures' = failures \/ Fails
        /\ UNCHANGED now \/ now' \in now..MaxNow
    BY <1>3, Zenon DEF GetTarget, settled
  <2>1. /\ UNCHANGED <<conf, doc, rows, stop, told, should, edits, crashes>>
        /\ failures' \in {failures, failures + 1} /\ pc = "target"
        /\ now' = now \/ now' \in now..MaxNow
    BY <2>0 DEF Fails
  <2>2. now' \in 0..MaxNow /\ now \in 0..MaxNow
    BY <2>1, NotifierConstants DEF Stored
  <2>3. Stored'
    BY <2>1, <2>2 DEF Stored
  <2>4. CASE Finish
    BY <2>1, <2>3, <2>4, Finishes DEF Inside
  <2>5. CASE ~Finish
    <3> DEFINE c == cur.conf
               th == Merge(c.defaults, doc[cur.res.target])
               ev == Evaluate(cur.res, th)
    <3>1. /\ pc' = "eval" /\ now' \in now..MaxNow
          /\ cur' = [res |-> cur.res, conf |-> c, back |-> cur.back,
                     always |-> th["always"], ev |-> ev,
                     todo |-> DOMAIN ev, at |-> now',
                     quiet |-> quietNow(now', c.start, c.end),
                     msg |-> None]
      BY <1>3, <2>5 DEF GetTarget
    <3>2. DOMAIN ev \subseteq Metric
      BY EvaluatesMetrics
    <3> HIDE DEF c, th, ev
    <3>3. /\ DOMAIN cur' = Fields /\ cur'.ev = ev /\ cur'.todo = DOMAIN ev /\ cur'.at = now'
          /\ cur'.res = cur.res /\ cur'.back = cur.back
      BY <3>1 DEF Fields
    <3> QED BY <2>1, <2>2, <2>3, <3>1, <3>2, <3>3 DEF Working, Inside, Between
  <2> QED BY <2>4, <2>5
<1>4. CASE handleEval
  <2>1. pc = "eval" /\ cur.todo # {}
        /\ UNCHANGED <<conf, doc, now, stop, should, edits, crashes>>
    BY <1>4 DEF handleEval, idle, settled
  <2>2. PICK m \in cur.todo : m = CHOOSE x \in cur.todo : TRUE
    BY <2>1
  <2>3. PICK t, v, last : t = cur.res.target /\ v = Verdict(m) /\ last = rows[t][m]
    OBVIOUS
  <2>4. /\ t \in Targets /\ m \in Metric
        /\ v.row \in {None, Empty} \cup 0..MaxNow
        /\ \/ v.msg = None
           \/ v.msg # None /\ v.msg.kind \in {"alert", "recovery"} /\ v.msg.metric = m
    <3>1. /\ t \in Targets /\ m \in Metric /\ v = [row |-> v.row, msg |-> v.msg]
          /\ v.row \in {None, Empty} \cup 0..MaxNow
          /\ v.row # None <=> cur.ev[m]
          /\ \/ v.msg = None /\ (v.row = None \/ v.row = last \/ (v.row = Empty /\ last = None))
             \/ /\ v.msg # None /\ v.msg.kind = "alert" /\ v.msg.metric = m /\ v.row = cur.at
                /\ last \in {None, Empty} \/ cur.at - last >= cur.conf.cooldown
             \/ /\ v.msg # None /\ v.msg.kind = "recovery" /\ v.msg.metric = m /\ v.row = None
                /\ last \notin {None, Empty}
      BY <2>1, <2>2, <2>3, VerdictMeans
    <3> QED BY <3>1
  <2>5. \/ /\ v.row \in {None, rows[t][m]} \/ doc[t] # Gone
           /\ rows' = [rows EXCEPT ![t][m] = v.row]
           /\ cur' = [cur EXCEPT !.todo = @ \ {m}, !.msg = v.msg]
           /\ pc' = IF v.msg = None THEN "eval" ELSE "deliver"
           /\ Forget(t, IF v = [row |-> None, msg |-> None] THEN {m} ELSE {})
           /\ UNCHANGED failures
        \/ /\ cur' = [cur EXCEPT !.todo = @ \ {m}]
           /\ UNCHANGED <<rows, pc, told>>
           /\ failures' \in {failures, failures + 1}
    BY <1>4, <2>2, <2>3 DEF handleEval, Fails
  <2>6. DOMAIN cur = Fields /\ DOMAIN cur.ev \subseteq Metric /\ cur.todo \subseteq DOMAIN cur.ev
        /\ cur.at \in 0..MaxNow /\ cur.res \in Results /\ cur.back \in {"select", "drain"}
        /\ (cur.back = "drain" => stop)
    BY <2>1 DEF Working, Inside
  <2>7. CASE /\ v.row \in {None, rows[t][m]} \/ doc[t] # Gone
             /\ rows' = [rows EXCEPT ![t][m] = v.row]
             /\ cur' = [cur EXCEPT !.todo = @ \ {m}, !.msg = v.msg]
             /\ pc' = IF v.msg = None THEN "eval" ELSE "deliver"
             /\ Forget(t, IF v = [row |-> None, msg |-> None] THEN {m} ELSE {})
             /\ UNCHANGED failures
    <3>1. rows' \in [Targets -> [Metric -> {None, Empty} \cup 0..MaxNow]]
      BY <2>4, <2>7 DEF Stored
    <3>2. \A q \in Targets : doc'[q] = Gone => \A x \in Metric : rows'[q][x] = None
      BY <2>1, <2>4, <2>7 DEF Stored
    <3>3. DOMAIN told' = Targets /\ \A q \in Targets : DOMAIN told'[q] = Metric
      BY <2>4, <2>7, Forgets
    <3>4. Stored'
      BY <2>1, <2>7, <3>1, <3>2, <3>3 DEF Stored
    <3>5. /\ DOMAIN cur' = Fields /\ cur'.ev = cur.ev /\ cur'.todo = cur.todo \ {m}
          /\ cur'.at = cur.at /\ cur'.res = cur.res /\ cur'.back = cur.back
          /\ cur'.msg = v.msg
      BY <2>6, <2>7 DEF Fields
    <3>6. pc' = "eval" \/ (pc' = "deliver" /\ v.msg # None)
      BY <2>7
    <3> QED BY <2>1, <2>4, <2>6, <3>4, <3>5, <3>6 DEF Working, Inside, Between
  <2>8. CASE /\ cur' = [cur EXCEPT !.todo = @ \ {m}]
             /\ UNCHANGED <<rows, pc, told>>
             /\ failures' \in {failures, failures + 1}
    <3>1. /\ DOMAIN cur' = Fields /\ cur'.ev = cur.ev /\ cur'.todo = cur.todo \ {m}
          /\ cur'.at = cur.at /\ cur'.res = cur.res /\ cur'.back = cur.back
      BY <2>6, <2>8 DEF Fields
    <3>2. Stored'
      BY <2>1, <2>8 DEF Stored
    <3> QED BY <2>1, <2>6, <2>8, <3>1, <3>2 DEF Working, Inside, Between
  <2> QED BY <2>5, <2>7, <2>8
<1>5. CASE deliver
  <2>1. pc = "deliver" /\ UNCHANGED <<conf, doc, rows, now, stop, should, edits, crashes, failures>>
    BY <1>5 DEF deliver, idle, settled
  <2>2. DOMAIN cur = Fields /\ DOMAIN cur.ev \subseteq Metric /\ cur.todo \subseteq DOMAIN cur.ev
        /\ cur.at \in 0..MaxNow /\ cur.res \in Results /\ cur.back \in {"select", "drain"}
        /\ (cur.back = "drain" => stop) /\ cur.res.target \in Targets
    BY <2>1, NotifierConstants DEF Working, Inside
  <2>3. CASE cur.msg.kind = "result"
    <3>1. Finish /\ UNCHANGED told
      BY <1>5, <2>3 DEF deliver
    <3>2. Stored'
      BY <2>1, <3>1 DEF Stored
    <3> QED BY <2>1, <3>1, <3>2, Finishes DEF Inside
  <2>4. CASE cur.msg.kind # "result"
    <3>1. /\ pc' = "eval" /\ cur' = [cur EXCEPT !.msg = None]
          /\ told' = [told EXCEPT ![cur.res.target][cur.msg.metric] =
                        [kind |-> cur.msg.kind, at |-> cur.at]]
      BY <1>5, <2>4 DEF deliver
    <3>2. DOMAIN told' = Targets /\ \A q \in Targets : DOMAIN told'[q] = Metric
      BY <2>2, <3>1 DEF Stored
    <3>3. Stored'
      BY <2>1, <3>2 DEF Stored
    <3>4. /\ DOMAIN cur' = Fields /\ cur'.ev = cur.ev /\ cur'.todo = cur.todo
          /\ cur'.at = cur.at /\ cur'.res = cur.res /\ cur'.back = cur.back
      BY <2>2, <3>1 DEF Fields
    <3> QED BY <2>1, <2>2, <3>1, <3>3, <3>4 DEF Working, Inside, Between
  <2> QED BY <2>3, <2>4
<1> QED BY <1>1, <1>2, <1>3, <1>4, <1>5

(* What clearStaleState does, for the rows that it clears. *)
LEMMA Clears ==
  ASSUME Stored, Working, clearStaleState
  PROVE  \E t \in Targets, kept \in SUBSET Metric :
           LET gone == {m \in Stale : m \notin kept}
               breached == {m \in DOMAIN cur.ev : cur.ev[m]}
           IN  /\ t = cur.res.target /\ pc = "eval" /\ cur.todo = {} /\ kept \subseteq Stale
               /\ UNCHANGED <<conf, doc, now, stop, edits, crashes>>
               /\ IF kept = {} THEN UNCHANGED failures ELSE failures' = failures + 1
               /\ rows' = [rows EXCEPT ![t] =
                             [m \in Metric |-> IF m \in gone THEN None ELSE rows[t][m]]]
               /\ Forget(t, gone)
               /\ should' = [should EXCEPT ![t] =
                               IF cur.res.ok THEN breached ELSE @ \cup breached]
               /\ \/ pc' = "deliver" /\ cur' = [cur EXCEPT !.msg = Message("result", None)]
                  \/ Finish
<1> DEFINE breached == {m \in DOMAIN cur.ev : cur.ev[m]}
<1>1. pc = "eval" /\ cur.todo = {}
  BY DEF clearStaleState
<1>2. cur.res.target \in Targets
  BY <1>1, NotifierConstants DEF Working, Inside
<1>3. Stale \subseteq Metric
  BY DEF Stale
<1>4. PICK kept \in SUBSET Stale :
         /\ IF kept = {} THEN UNCHANGED failures ELSE Fails
         /\ rows' = [rows EXCEPT ![cur.res.target] =
                       [m \in Metric |-> IF m \in Stale \ kept THEN None ELSE @[m]]]
         /\ Forget(cur.res.target, Stale \ kept)
  BY DEF clearStaleState
<1>5. /\ should' = [should EXCEPT ![cur.res.target] =
                      IF cur.res.ok THEN breached ELSE @ \cup breached]
      /\ \/ pc' = "deliver" /\ cur' = [cur EXCEPT !.msg = Message("result", None)]
         \/ Finish
  BY DEF clearStaleState
<1>6. UNCHANGED <<conf, doc, now, stop, edits, crashes>>
  BY DEF clearStaleState, idle, settled
<1>7. {m \in Stale : m \notin kept} = Stale \ kept
  OBVIOUS
<1> HIDE DEF breached
<1>8. rows' = [rows EXCEPT ![cur.res.target] =
           [m \in Metric |-> IF m \in Stale \ kept THEN None ELSE rows[cur.res.target][m]]]
  BY <1>2, <1>4 DEF Stored
<1>9. IF kept = {} THEN UNCHANGED failures ELSE failures' = failures + 1
  BY <1>4 DEF Fails
<1>10. kept \in SUBSET Metric
  BY <1>3
<1> QED BY <1>1, <1>2, <1>4, <1>5, <1>6, <1>7, <1>8, <1>9, <1>10 DEF breached

(* The same of the clearing of the rows of metrics that have no threshold any more. *)
LEMMA ClearKeepsStored ==
  ASSUME Stored, Working, clearStaleState
  PROVE  Stored' /\ Working'
<1> DEFINE breached == {m \in DOMAIN cur.ev : cur.ev[m]}
<1>1. PICK t \in Targets, kept \in SUBSET Metric :
        /\ t = cur.res.target /\ pc = "eval" /\ cur.todo = {}
        /\ UNCHANGED <<conf, doc, now, stop, edits, crashes>>
        /\ IF kept = {} THEN UNCHANGED failures ELSE failures' = failures + 1
        /\ rows' = [rows EXCEPT ![t] = [m \in Metric |->
                         IF m \in {x \in Stale : x \notin kept} THEN None ELSE rows[t][m]]]
        /\ Forget(t, {x \in Stale : x \notin kept})
        /\ should' = [should EXCEPT ![t] = IF cur.res.ok THEN breached ELSE @ \cup breached]
        /\ \/ pc' = "deliver" /\ cur' = [cur EXCEPT !.msg = Message("result", None)]
           \/ Finish
  BY Clears
<1>2. DOMAIN cur = Fields /\ DOMAIN cur.ev \subseteq Metric /\ cur.todo \subseteq DOMAIN cur.ev
      /\ cur.at \in 0..MaxNow /\ cur.res \in Results /\ cur.back \in {"select", "drain"}
      /\ (cur.back = "drain" => stop)
  BY <1>1 DEF Working, Inside
<1>3. breached \subseteq Metric
  BY <1>2
<1> HIDE DEF breached
<1>4. /\ \A m \in Metric : rows'[t][m] = None \/ rows'[t][m] = rows[t][m]
      /\ \A q \in Targets : q # t => rows'[q] = rows[q]
  BY <1>1 DEF Stored
<1>5. rows' \in [Targets -> [Metric -> {None, Empty} \cup 0..MaxNow]]
  <2>1. [m \in Metric |-> IF m \in {x \in Stale : x \notin kept} THEN None ELSE rows[t][m]]
           \in [Metric -> {None, Empty} \cup 0..MaxNow]
    BY DEF Stored
  <2> QED BY <1>1, <2>1 DEF Stored
<1>6. \A q \in Targets : doc'[q] = Gone => \A m \in Metric : rows'[q][m] = None
  BY <1>1, <1>4 DEF Stored
<1>7. DOMAIN told' = Targets /\ \A q \in Targets : DOMAIN told'[q] = Metric
  BY <1>1, Forgets
<1>8. should' \in [Targets -> SUBSET Metric]
  BY <1>1, <1>3 DEF Stored
<1>9. failures' \in Nat
  BY <1>1 DEF Stored
<1>10. Stored'
  BY <1>1, <1>5, <1>6, <1>7, <1>8, <1>9 DEF Stored
<1>11. CASE Finish
  BY <1>1, <1>10, <1>11, Finishes DEF Inside
<1>12. CASE pc' = "deliver" /\ cur' = [cur EXCEPT !.msg = Message("result", None)]
  <2>1. /\ DOMAIN cur' = Fields /\ cur'.ev = cur.ev /\ cur'.todo = cur.todo
        /\ cur'.at = cur.at /\ cur'.res = cur.res /\ cur'.back = cur.back
        /\ cur'.msg.kind = "result"
    BY <1>2, <1>12 DEF Fields, Message
  <2> QED BY <1>1, <1>2, <1>10, <1>12, <2>1 DEF Working, Inside, Between
<1> QED BY <1>1, <1>11, <1>12

(* The same of a restart: what the rows say is all that is left. *)
LEMMA CrashKeepsStored ==
  ASSUME Stored, Working, Crash
  PROVE  Stored' /\ Working'
<1>1. /\ pc' = "select" /\ cur' = NoCur /\ crashes' = crashes + 1
      /\ UNCHANGED <<conf, doc, rows, now, stop, edits, failures>>
      /\ should' = [t \in Targets |-> {m \in Metric : rows[t][m] # None}]
  BY DEF Crash
<1>2. Working'
  BY <1>1 DEF Working, Inside, Between
<1>3. DOMAIN told' = Targets /\ \A q \in Targets : DOMAIN told'[q] = Metric
  BY DEF Crash, Stored
<1>4. should' \in [Targets -> SUBSET Metric]
  BY <1>1
<1> QED BY <1>1, <1>2, <1>3, <1>4 DEF Stored

(* Every step keeps the stored rows and the worker's variables well formed. *)
LEMMA StoredStep ==
  ASSUME Stored, Working, Queued, [Next]_vars
  PROVE  Stored' /\ Working'
<1>1. CASE \/ \E c \in Confs : Configure(c)
           \/ \E t \in Targets, d \in Docs \cup {Gone} : EditTarget(t, d)
           \/ \E s \in Senders : \/ \E res \in Results : OnResult(s, res)
                                 \/ DropOldest(s) \/ SendAgain(s)
           \/ Close
           \/ UNCHANGED vars
  BY <1>1, OutsideSteps, OutsideKeepsStored
<1> QED BY <1>1, WorkerKeepsStored, ClearKeepsStored, CrashKeepsStored DEF Next, WorkerStep

(***************************************************************************)
(* The start                                                               *)
(***************************************************************************)

(* A notifier that starts with no results and no rows satisfies the invariant. *)
LEMMA NotifierStarts ==
  ASSUME Init
  PROVE  NotifierInv
<1>1. /\ pc = "select" /\ cur = NoCur /\ queue = <<>> /\ stop = FALSE
      /\ offered = 0 /\ handled = 0 /\ late = 0 /\ dropped = 0
      /\ hand = [s \in Senders |-> [at |-> "idle", res |-> None]]
      /\ rows = [t \in Targets |-> [m \in Metric |-> None]]
      /\ should = [t \in Targets |-> {}]
      /\ told = [t \in Targets |-> [m \in Metric |-> [kind |-> "none", at |-> 0]]]
      /\ now = 0 /\ conf \in Confs /\ doc \in [Targets -> Docs]
      /\ edits = 0 /\ failures = 0 /\ crashes = 0
  BY DEF Init
<1>2. Queued
  <2>1. Busy = {}
    BY <1>1 DEF Busy
  <2>2. IsFiniteSet(Busy) /\ Cardinality(Busy) = 0
    BY <2>1, FS_EmptySet
  <2>3. queue \in Seq(Results) /\ Len(queue) = 0 /\ Len(queue) <= QueueCap
    BY <1>1, EmptySeq, NotifierConstants
  <2>4. \A s \in Senders : hand[s] \in [at : {"idle"}, res : {None}]
                                       \cup [at : {"full", "again"}, res : Results]
    BY <1>1
  <2>5. offered = handled + dropped + Len(queue) + Cardinality(Busy)
    BY <1>1, <2>2, <2>3
  <2>6. stop \in BOOLEAN /\ pc # "done"
    BY <1>1
  <2>7. offered \in Nat /\ handled \in Nat /\ late \in Nat /\ dropped \in Nat
        /\ DOMAIN hand = Senders
    BY <1>1
  <2> QED BY <2>2, <2>3, <2>4, <2>5, <2>6, <2>7 DEF Queued
<1>3. Stored
  <2>1. now \in 0..MaxNow
    BY <1>1, NotifierConstants
  <2>2. rows \in [Targets -> [Metric -> {None, Empty} \cup 0..MaxNow]]
    BY <1>1
  <2> QED BY <1>1, <2>1, <2>2 DEF Stored
<1>4. Working
  BY <1>1 DEF Working, Between, Inside
<1>5. Account
  BY <1>1 DEF Account, Judged
<1>6. FailedBreach
  BY <1>1 DEF FailedBreach
<1>7. Mentioned
  BY <1>1 DEF Mentioned, Pending, Alerted, Standing
<1> QED BY <1>2, <1>3, <1>4, <1>5, <1>6, <1>7 DEF NotifierInv

(***************************************************************************)
(* The rows follow the results, and the messages follow the rows           *)
(***************************************************************************)

(* Outside the worker only the deletion of a target changes rows. *)
LEMMA OutsideRows ==
  ASSUME Stored, Outside,
         \/ UNCHANGED <<doc, rows>>
         \/ \E t \in Targets, d \in Docs \cup {Gone} : EditTarget(t, d)
  PROVE  \A t \in Targets : doc'[t] # Gone => doc[t] # Gone /\ rows'[t] = rows[t]
<1>1. CASE UNCHANGED <<doc, rows>>
  BY <1>1
<1>2. ASSUME NEW t \in Targets, NEW d \in Docs \cup {Gone}, EditTarget(t, d),
             NEW q \in Targets, doc'[q] # Gone
      PROVE  doc[q] # Gone /\ rows'[q] = rows[q]
  <2>1. /\ doc' = [doc EXCEPT ![t] = d] /\ doc[t] # Gone
        /\ rows' = IF d = Gone THEN [rows EXCEPT ![t] = [m \in Metric |-> None]] ELSE rows
    BY <1>2 DEF EditTarget
  <2>2. CASE q = t
    <3>1. d # Gone
      BY <1>2, <2>1, <2>2 DEF Stored
    <3> QED BY <2>1, <2>2, <3>1
  <2>3. CASE q # t
    BY <1>2, <2>1, <2>3 DEF Stored
  <2> QED BY <2>2, <2>3
<1> QED BY <1>1, <1>2

(* A step outside the worker touches no row of a target that stays, so the account of
   results holds on. *)
LEMMA OutsideKeepsAccount ==
  ASSUME Account, FailedBreach, Mentioned, Outside,
         \A t \in Targets : doc'[t] # Gone => doc[t] # Gone /\ rows'[t] = rows[t]
  PROVE  Account' /\ FailedBreach' /\ Mentioned'
<1>1. UNCHANGED <<pc, cur, told, should, failures>>
  BY DEF Outside
<1>2. FailedBreach'
  BY <1>1 DEF FailedBreach
<1>3. \A t, m : (Judged(t, m)' <=> Judged(t, m)) /\ (Pending(t, m)' <=> Pending(t, m))
                /\ (Alerted(t, m)' <=> Alerted(t, m))
  BY <1>1 DEF Judged, Pending, Alerted
<1>4. Account'
  BY <1>1, <1>3 DEF Account
<1>5. \A t \in Targets, m \in Metric : doc'[t] # Gone /\ Standing(t, m) => Standing(t, m)'
  BY <1>1, <1>3 DEF Standing
<1>6. Mentioned'
  BY <1>1, <1>3, <1>5 DEF Mentioned
<1> QED BY <1>2, <1>4, <1>6

(* Steps of the worker that neither judge a metric nor have a message, nor *)
(* change a row: they leave both accounts as they are. *)
LEMMA PlainKeepsAccount ==
  ASSUME Account, Mentioned, UNCHANGED <<doc, rows, told, should>>,
         failures' = 0 => failures = 0,
         \A t \in Targets, m \in Metric : /\ ~Pending(t, m) /\ ~Pending(t, m)'
                                          /\ ~Judged(t, m) /\ ~Judged(t, m)'
  PROVE  Account' /\ Mentioned'
<1>1. Account'
  BY DEF Account
<1>2. \A t \in Targets, m \in Metric : Standing(t, m)' <=> Standing(t, m)
  BY DEF Standing, Alerted
<1>3. Mentioned'
  BY <1>2 DEF Mentioned
<1> QED BY <1>1, <1>3

(* The steps of the worker that only take a result or look its target up change neither
   rows nor messages. *)
LEMMA PlainSteps ==
  ASSUME NotifierInv, Receive \/ SeeStop \/ Return \/ GetTarget
  PROVE  Account' /\ FailedBreach' /\ Mentioned'
<1>1. Account /\ Mentioned /\ FailedBreach /\ Working /\ Stored
  BY DEF NotifierInv
<1>2. /\ UNCHANGED <<doc, rows, told, should>>
      /\ failures' = failures \/ Fails
  BY Zenon DEF Receive, SeeStop, Return, GetTarget, idle, settled
<1>3. failures' = 0 => failures = 0
  BY <1>1, <1>2 DEF Fails, Stored
<1>4. pc \in {"select", "drain", "target"}
  BY DEF Receive, SeeStop, Return, Drained, GetTarget
<1>5. CASE pc' \in Between \cup {"target"}
  BY <1>1, <1>2, <1>3, <1>4, <1>5, PlainKeepsAccount DEF Pending, Judged, FailedBreach, Between
<1>6. CASE pc' \notin Between \cup {"target"}
  <2>1. GetTarget /\ ~Finish
    BY <1>1, <1>4, <1>6 DEF Receive, SeeStop, Return, Finish, Working, Between, Inside, GetTarget
  <2> DEFINE c == cur.conf
             th == Merge(c.defaults, doc[cur.res.target])
             ev == Evaluate(cur.res, th)
  <2>2. /\ pc' = "eval"
        /\ cur' = [res |-> cur.res, conf |-> c, back |-> cur.back,
                   always |-> th["always"], ev |-> ev,
                   todo |-> DOMAIN ev, at |-> now',
                   quiet |-> quietNow(now', c.start, c.end),
                   msg |-> None]
    BY <2>1 DEF GetTarget
  <2>3. ~cur.res.ok => \A m \in DOMAIN ev : ev[m]
    BY DEF Evaluate
  <2> HIDE DEF c, th, ev
  <2>4. cur'.res = cur.res /\ cur'.ev = ev /\ cur'.todo = DOMAIN ev
    BY <2>2
  <2>5. FailedBreach'
    BY <2>2, <2>3, <2>4 DEF FailedBreach
  <2>6. Account' /\ Mentioned'
    BY <1>1, <1>2, <1>3, <1>4, <2>2, <2>4, PlainKeepsAccount DEF Pending, Judged
  <2> QED BY <2>5, <2>6
<1> QED BY <1>5, <1>6

(* One metric is judged: its row and its message are the verdict's. *)
LEMMA HandleKeepsAccount ==
  ASSUME NotifierInv, handleEval
  PROVE  Account' /\ FailedBreach' /\ Mentioned'
<1>1. Account /\ Mentioned /\ FailedBreach /\ Working /\ Stored
  BY DEF NotifierInv
<1>2. pc = "eval" /\ cur.todo # {} /\ UNCHANGED <<doc, should>>
  BY DEF handleEval, idle, settled
<1>3. PICK m \in cur.todo : m = CHOOSE x \in cur.todo : TRUE
  BY <1>2
<1>4. PICK t, v, last : t = cur.res.target /\ v = Verdict(m) /\ last = rows[t][m]
  OBVIOUS
<1>5. /\ t \in Targets /\ m \in Metric /\ v = [row |-> v.row, msg |-> v.msg]
      /\ v.row \in {None, Empty} \cup 0..MaxNow
      /\ v.row # None <=> cur.ev[m]
      /\ \/ v.msg = None /\ (v.row = None \/ v.row = last \/ (v.row = Empty /\ last = None))
         \/ /\ v.msg # None /\ v.msg.kind = "alert" /\ v.msg.metric = m /\ v.row = cur.at
            /\ last \in {None, Empty} \/ cur.at - last >= cur.conf.cooldown
         \/ /\ v.msg # None /\ v.msg.kind = "recovery" /\ v.msg.metric = m /\ v.row = None
            /\ last \notin {None, Empty}
  BY <1>1, <1>2, <1>3, <1>4, VerdictMeans
<1>6. /\ DOMAIN cur = Fields /\ DOMAIN cur.ev \subseteq Metric /\ cur.todo \subseteq DOMAIN cur.ev
      /\ cur.at \in 0..MaxNow /\ cur.at # None /\ cur.at # Empty /\ None # Empty
  BY <1>1, <1>2, NotifierConstants DEF Working
<1>7. \/ /\ v.row \in {None, rows[t][m]} \/ doc[t] # Gone
         /\ rows' = [rows EXCEPT ![t][m] = v.row]
         /\ cur' = [cur EXCEPT !.todo = @ \ {m}, !.msg = v.msg]
         /\ pc' = IF v.msg = None THEN "eval" ELSE "deliver"
         /\ Forget(t, IF v = [row |-> None, msg |-> None] THEN {m} ELSE {})
         /\ UNCHANGED failures
      \/ /\ cur' = [cur EXCEPT !.todo = @ \ {m}]
         /\ UNCHANGED <<rows, pc, told>>
         /\ (doc[t] = Gone /\ UNCHANGED failures) \/ failures' = failures + 1
  BY <1>3, <1>4 DEF handleEval, Fails
<1>8. \A q \in Targets, x \in Metric : ~Pending(q, x)
  BY <1>2 DEF Pending
<1>9. \A q \in Targets, x \in Metric :
        Judged(q, x) <=> q = t /\ x \in DOMAIN cur.ev /\ x \notin cur.todo
  BY <1>2, <1>4 DEF Judged
<1>10. CASE /\ v.row \in {None, rows[t][m]} \/ doc[t] # Gone
            /\ rows' = [rows EXCEPT ![t][m] = v.row]
            /\ cur' = [cur EXCEPT !.todo = @ \ {m}, !.msg = v.msg]
            /\ pc' = IF v.msg = None THEN "eval" ELSE "deliver"
            /\ Forget(t, IF v = [row |-> None, msg |-> None] THEN {m} ELSE {})
            /\ UNCHANGED failures
  <2>1. /\ cur'.ev = cur.ev /\ cur'.todo = cur.todo \ {m} /\ cur'.at = cur.at
        /\ cur'.res = cur.res /\ cur'.conf = cur.conf /\ cur'.msg = v.msg
    BY <1>6, <1>10 DEF Fields
  <2>2. /\ rows'[t][m] = v.row
        /\ \A q \in Targets, x \in Metric : ~(q = t /\ x = m) => rows'[q][x] = rows[q][x]
    BY <1>5, <1>10 DEF Stored, NotifierInv
  <2>3. /\ v.msg = None => pc' = "eval"
        /\ v.msg # None => pc' = "deliver" /\ v.msg.kind \in {"alert", "recovery"}
    BY <1>5, <1>10
  <2>4. \A q \in Targets, x \in Metric : Judged(q, x)' <=> Judged(q, x) \/ (q = t /\ x = m)
    <3>1. pc' \in {"eval", "deliver"} /\ ~(pc' = "deliver" /\ cur'.msg.kind = "result")
      BY <2>1, <2>3
    <3>2. m \in DOMAIN cur.ev
      BY <1>3, <1>6
    <3>3. \A q \in Targets, x \in Metric :
            Judged(q, x)' <=> q = t /\ x \in DOMAIN cur.ev /\ x \notin cur.todo \ {m}
      BY <1>4, <2>1, <3>1 DEF Judged
    <3> QED BY <1>9, <3>2, <3>3
  <2>5. FailedBreach'
    BY <1>1, <1>2, <2>1 DEF FailedBreach
  <2>6. Account'
    <3>1. SUFFICES ASSUME failures' = 0, NEW q \in Targets, doc'[q] # Gone, NEW x \in Metric
                   PROVE  /\ Judged(q, x)' => (rows'[q][x] # None <=> cur'.ev[x])
                          /\ ~Judged(q, x)' => (rows'[q][x] # None <=> x \in should'[q])
      BY DEF Account
    <3>2. failures = 0 /\ doc[q] # Gone
      BY <1>2, <1>10, <3>1
    <3>3. /\ Judged(q, x) => (rows[q][x] # None <=> cur.ev[x])
          /\ ~Judged(q, x) => (rows[q][x] # None <=> x \in should[q])
      BY <1>1, <3>2 DEF Account
    <3>4. CASE q = t /\ x = m
      <4>1. Judged(q, x)'
        BY <2>4, <3>4
      <4>2. rows'[q][x] # None <=> cur'.ev[x]
        BY <1>5, <2>1, <2>2, <3>4
      <4> QED BY <4>1, <4>2
    <3>5. CASE ~(q = t /\ x = m)
      BY <1>2, <2>1, <2>2, <2>4, <3>3, <3>5
    <3> QED BY <3>4, <3>5
  <2>7. \A q \in Targets, x \in Metric :
          Pending(q, x)' <=> v.msg # None /\ q = t /\ x = m
    BY <1>4, <1>5, <2>1, <2>3 DEF Pending
  <2>8. PICK M : M = IF v = [row |-> None, msg |-> None] THEN {m} ELSE {}
    OBVIOUS
  <2>9. \A q \in Targets, x \in Metric : ~(q = t /\ x = m) => told'[q][x] = told[q][x]
    BY <1>1, <1>5, <1>10, <2>8, Forgets
  <2>10. told'[t][m] = IF m \in M THEN [kind |-> "none", at |-> 0] ELSE told[t][m]
    BY <1>1, <1>5, <1>10, <2>8, Forgets
  <2>11. doc[t] # Gone => Standing(t, m)
    BY <1>1, <1>5, <1>8 DEF Mentioned
  <2>12. ASSUME NEW q \in Targets, doc'[q] # Gone, NEW x \in Metric
         PROVE  /\ ~Pending(q, x)' => Standing(q, x)'
                /\ Pending(q, x)' =>
                     rows'[q][x] = IF cur'.msg.kind = "alert" THEN cur'.at ELSE None
    <3>1. CASE ~(q = t /\ x = m)
      <4>1. Standing(q, x)
        BY <1>1, <1>2, <1>8, <2>12 DEF Mentioned
      <4>2. Standing(q, x)'
        BY <2>2, <2>9, <3>1, <4>1 DEF Standing, Alerted
      <4> QED BY <2>7, <3>1, <4>2
    <3>2. CASE q = t /\ x = m
      <4>1. Standing(t, m)
        BY <1>2, <2>11, <2>12, <3>2
      <4>2. CASE v.msg # None
        <5>1. cur'.at = cur.at /\ cur'.msg = v.msg /\ rows'[t][m] = v.row
          BY <2>1, <2>2
        <5>2. v.row = IF v.msg.kind = "alert" THEN cur.at ELSE None
          BY <1>5, <4>2
        <5> QED BY <2>7, <3>2, <4>2, <5>1, <5>2
      <4>3. CASE v.msg = None /\ v.row = None
        <5>1. told'[t][m] = [kind |-> "none", at |-> 0] /\ rows'[t][m] = None
          BY <1>5, <2>2, <2>8, <2>10, <4>3
        <5>2. Standing(t, m)'
          BY <5>1 DEF Standing, Alerted
        <5> QED BY <2>7, <3>2, <4>3, <5>2
      <4>4. CASE v.msg = None /\ v.row # None
        <5>1. v # [row |-> None, msg |-> None]
          BY <4>4
        <5>2. told'[t][m] = told[t][m] /\ rows'[t][m] = v.row
              /\ (v.row = last \/ (v.row = Empty /\ last = None))
          BY <1>5, <2>2, <2>8, <2>10, <4>4, <5>1
        <5>3. Standing(t, m)'
          BY <1>4, <1>6, <4>1, <5>2 DEF Standing, Alerted
        <5> QED BY <2>7, <3>2, <4>4, <5>3
      <4> QED BY <4>2, <4>3, <4>4
    <3> QED BY <3>1, <3>2
  <2>13. ASSUME NEW q \in Targets, NEW x \in Metric, Pending(q, x)'
         PROVE  /\ cur'.msg.kind = "recovery" => Alerted(q, x)'
                /\ cur'.msg.kind = "alert" /\ Alerted(q, x)' =>
                     cur'.at - told'[q][x].at >= cur'.conf.cooldown
    <3>1. v.msg # None /\ q = t /\ x = m
      BY <2>7, <2>13
    <3>2. v # [row |-> None, msg |-> None]
      BY <3>1
    <3>3. told'[t][m] = told[t][m]
      BY <2>8, <2>10, <3>2
    <3>4. doc[t] # Gone
      <4>1. doc[t] = Gone => last = None
        BY <1>1, <1>4, <1>5 DEF Stored
      <4> QED BY <1>4, <1>5, <1>6, <1>10, <3>1, <4>1
    <3>5. Standing(t, m)
      BY <2>11, <3>4
    <3>6. CASE v.msg.kind = "recovery"
      BY <1>4, <1>5, <2>1, <3>1, <3>3, <3>5, <3>6 DEF Standing, Alerted
    <3>7. CASE v.msg.kind = "alert"
      <4>1. last \in {None, Empty} \/ cur.at - last >= cur.conf.cooldown
        BY <1>5, <3>1, <3>7
      <4>2. Alerted(t, m) => last \notin {None, Empty} /\ told[t][m].at = last
        BY <1>4, <3>5 DEF Standing
      <4>3. Alerted(t, m)' <=> Alerted(t, m)
        BY <3>3 DEF Alerted
      <4>4. Alerted(t, m)' => cur'.at - told'[t][m].at >= cur'.conf.cooldown
        BY <2>1, <3>3, <4>1, <4>2, <4>3
      <4> QED BY <2>1, <3>1, <3>7, <4>4
    <3> QED BY <2>3, <3>1, <3>6, <3>7
  <2>14. Mentioned'
    BY <2>12, <2>13 DEF Mentioned
  <2> QED BY <2>5, <2>6, <2>14
<1>11. CASE /\ cur' = [cur EXCEPT !.todo = @ \ {m}]
            /\ UNCHANGED <<rows, pc, told>>
            /\ (doc[t] = Gone /\ UNCHANGED failures) \/ failures' = failures + 1
  <2>1. /\ cur'.ev = cur.ev /\ cur'.todo = cur.todo \ {m} /\ cur'.res = cur.res
    BY <1>6, <1>11 DEF Fields
  <2>2. FailedBreach'
    BY <1>1, <1>11, <2>1 DEF FailedBreach
  <2>3. Mentioned'
    <3>1. \A q \in Targets, x \in Metric : ~Pending(q, x)'
      BY <1>2, <1>11 DEF Pending
    <3>2. \A q \in Targets, x \in Metric : Standing(q, x)' <=> Standing(q, x)
      BY <1>11 DEF Standing, Alerted
    <3> QED BY <1>1, <1>2, <1>8, <3>1, <3>2 DEF Mentioned
  <2>4. Account'
    <3>1. CASE failures' = failures + 1
      <4>1. failures' # 0
        BY <1>1, <3>1 DEF Stored
      <4> QED BY <4>1 DEF Account
    <3>2. CASE doc[t] = Gone /\ UNCHANGED failures
      <4>1. \A q \in Targets, x \in Metric : q # t => (Judged(q, x)' <=> Judged(q, x))
        BY <1>2, <1>4, <1>11, <2>1 DEF Judged
      <4> QED BY <1>1, <1>2, <1>11, <2>1, <3>2, <4>1 DEF Account
    <3> QED BY <1>11, <3>1, <3>2
  <2> QED BY <2>2, <2>3, <2>4
<1> QED BY <1>7, <1>10, <1>11

(* A delivery says what the message is; the last one of a result, its      *)
(* summary, says nothing of a metric.                                      *)
LEMMA DeliverKeepsAccount ==
  ASSUME NotifierInv, deliver
  PROVE  Account' /\ FailedBreach' /\ Mentioned'
<1>1. Account /\ Mentioned /\ FailedBreach /\ Working /\ Stored
  BY DEF NotifierInv
<1>2. pc = "deliver" /\ UNCHANGED <<doc, rows, should, failures>>
  BY DEF deliver, idle, settled
<1>3. /\ DOMAIN cur = Fields /\ DOMAIN cur.ev \subseteq Metric /\ cur.at \in 0..MaxNow
      /\ cur.res.target \in Targets /\ cur.back \in {"select", "drain"}
      /\ cur.msg.kind \in {"alert", "recovery", "result"}
      /\ cur.msg.kind # "result" => cur.msg.metric \in Metric
  BY <1>1, <1>2, NotifierConstants DEF Working, Inside
<1>4. CASE cur.msg.kind = "result"
  <2>1. Finish /\ UNCHANGED told
    BY <1>4 DEF deliver
  <2>2. pc' \in {"select", "drain"}
    BY <1>3, <2>1 DEF Finish
  <2>3. FailedBreach'
    BY <2>2 DEF FailedBreach
  <2>4. \A q \in Targets, x \in Metric : /\ ~Pending(q, x) /\ ~Pending(q, x)'
                                         /\ ~Judged(q, x) /\ ~Judged(q, x)'
    BY <1>2, <1>4, <2>2 DEF Pending, Judged
  <2>5. failures' = 0 => failures = 0
    BY <1>2
  <2> QED BY <1>1, <1>2, <2>1, <2>3, <2>4, <2>5, PlainKeepsAccount
<1>5. CASE cur.msg.kind # "result"
  <2>1. PICK t \in Targets, m \in Metric : t = cur.res.target /\ m = cur.msg.metric
    BY <1>3, <1>5
  <2>2. /\ pc' = "eval" /\ cur' = [cur EXCEPT !.msg = None]
        /\ told' = [told EXCEPT ![t][m] = [kind |-> cur.msg.kind, at |-> cur.at]]
    BY <1>5, <2>1 DEF deliver
  <2>3. cur'.ev = cur.ev /\ cur'.todo = cur.todo /\ cur'.res = cur.res
    BY <1>3, <2>2 DEF Fields
  <2>4. /\ told'[t][m] = [kind |-> cur.msg.kind, at |-> cur.at]
        /\ \A q \in Targets, x \in Metric : ~(q = t /\ x = m) => told'[q][x] = told[q][x]
    BY <1>1, <2>2 DEF Stored
  <2>5. FailedBreach'
    BY <1>1, <1>2, <2>3 DEF FailedBreach
  <2>6. \A q \in Targets, x \in Metric : Judged(q, x)' <=> Judged(q, x)
    BY <1>2, <1>5, <2>2, <2>3 DEF Judged
  <2>7. Account'
    BY <1>1, <1>2, <2>3, <2>6 DEF Account
  <2>8. \A q \in Targets, x \in Metric : ~Pending(q, x)'
    BY <2>2 DEF Pending
  <2>9. \A q \in Targets, x \in Metric : Pending(q, x) <=> q = t /\ x = m
    BY <1>2, <1>5, <2>1 DEF Pending
  <2>10. ASSUME NEW q \in Targets, doc'[q] # Gone, NEW x \in Metric
         PROVE  Standing(q, x)'
    <3>1. CASE ~(q = t /\ x = m)
      <4>1. Standing(q, x)
        BY <1>1, <1>2, <2>9, <2>10, <3>1 DEF Mentioned
      <4> QED BY <1>2, <2>4, <3>1, <4>1 DEF Standing, Alerted
    <3>2. CASE q = t /\ x = m
      <4>1. rows[t][m] = IF cur.msg.kind = "alert" THEN cur.at ELSE None
        BY <1>1, <1>2, <2>9, <2>10, <3>2 DEF Mentioned
      <4>2. cur.at \notin {None, Empty}
        BY <1>3, NotifierConstants
      <4>3. told'[t][m].kind = cur.msg.kind /\ told'[t][m].at = cur.at
        BY <2>4
      <4> QED BY <1>2, <1>3, <1>5, <3>2, <4>1, <4>2, <4>3 DEF Standing, Alerted
    <3> QED BY <3>1, <3>2
  <2>11. Mentioned'
    BY <2>8, <2>10 DEF Mentioned
  <2> QED BY <2>5, <2>7, <2>11
<1> QED BY <1>4, <1>5

(* The end of a result: the rows of the metrics it did not look at go, and *)
(* the result becomes what the target is judged by.                        *)
LEMMA ClearKeepsAccount ==
  ASSUME NotifierInv, clearStaleState
  PROVE  Account' /\ FailedBreach' /\ Mentioned'
<1> DEFINE breached == {m \in DOMAIN cur.ev : cur.ev[m]}
<1>1. Account /\ Mentioned /\ FailedBreach /\ Working /\ Stored
  BY DEF NotifierInv
<1>2. PICK t \in Targets, kept \in SUBSET Metric :
        /\ t = cur.res.target /\ pc = "eval" /\ cur.todo = {} /\ kept \subseteq Stale
        /\ UNCHANGED <<conf, doc, now, stop, edits, crashes>>
        /\ IF kept = {} THEN UNCHANGED failures ELSE failures' = failures + 1
        /\ rows' = [rows EXCEPT ![t] = [m \in Metric |->
                         IF m \in {x \in Stale : x \notin kept} THEN None ELSE rows[t][m]]]
        /\ Forget(t, {x \in Stale : x \notin kept})
        /\ should' = [should EXCEPT ![t] = IF cur.res.ok THEN breached ELSE @ \cup breached]
        /\ \/ pc' = "deliver" /\ cur' = [cur EXCEPT !.msg = Message("result", None)]
           \/ Finish
  BY <1>1, Clears
<1>3. PICK gone : gone = {x \in Stale : x \notin kept}
  OBVIOUS
<1>4. /\ DOMAIN cur = Fields /\ DOMAIN cur.ev \subseteq Metric
      /\ cur.back \in {"select", "drain"} /\ cur.at \in 0..MaxNow
  BY <1>1, <1>2 DEF Working, Inside
<1>5. should'[t] = (IF cur.res.ok THEN breached ELSE should[t] \cup breached)
      /\ \A q \in Targets : q # t => should'[q] = should[q]
  BY <1>1, <1>2 DEF Stored
<1>6. \A m \in Metric : m \in breached <=> m \in DOMAIN cur.ev /\ cur.ev[m]
  OBVIOUS
<1> HIDE DEF breached
<1>7. \/ pc' = "deliver" /\ cur'.res = cur.res /\ cur'.msg.kind = "result" /\ cur'.ev = cur.ev
      \/ pc' \in {"select", "drain"}
  <2>1. CASE Finish
    BY <1>4, <2>1 DEF Finish
  <2>2. CASE pc' = "deliver" /\ cur' = [cur EXCEPT !.msg = Message("result", None)]
    BY <1>4, <2>2 DEF Fields, Message
  <2> QED BY <1>2, <2>1, <2>2
<1>8. \A q \in Targets, x \in Metric : /\ ~Pending(q, x) /\ ~Pending(q, x)' /\ ~Judged(q, x)'
                                       /\ Judged(q, x) <=> q = t /\ x \in DOMAIN cur.ev
  BY <1>2, <1>7 DEF Pending, Judged
<1>9. FailedBreach'
  BY <1>1, <1>2, <1>7 DEF FailedBreach
<1>10. /\ \A q \in Targets : q # t => rows'[q] = rows[q]
       /\ \A x \in Metric : rows'[t][x] = IF x \in gone THEN None ELSE rows[t][x]
  BY <1>1, <1>2, <1>3 DEF Stored
<1>11. \A q \in Targets, x \in Metric :
         told'[q][x] = IF q = t /\ x \in gone THEN [kind |-> "none", at |-> 0] ELSE told[q][x]
  BY <1>1, <1>2, <1>3, Forgets
<1>12. Account'
  <2>1. SUFFICES ASSUME failures' = 0, NEW q \in Targets, doc'[q] # Gone, NEW x \in Metric
                 PROVE  rows'[q][x] # None <=> x \in should'[q]
    BY <1>8 DEF Account
  <2>2. failures = 0 /\ kept = {}
    BY <1>1, <1>2, <2>1 DEF Stored
  <2>3. /\ Judged(q, x) => (rows[q][x] # None <=> cur.ev[x])
        /\ ~Judged(q, x) => (rows[q][x] # None <=> x \in should[q])
    BY <1>1, <1>2, <2>1, <2>2 DEF Account
  <2>4. CASE q # t
    BY <1>5, <1>8, <1>10, <2>3, <2>4
  <2>5. CASE q = t /\ cur.res.ok
    <3>1. x \in gone <=> x \notin DOMAIN cur.ev /\ rows[t][x] # None
      BY <1>2, <1>3, <2>2, <2>5 DEF Stale
    <3>2. rows'[t][x] = (IF x \in gone THEN None ELSE rows[t][x]) /\ should'[t] = breached
      BY <1>5, <1>10, <2>5
    <3>3. CASE x \in DOMAIN cur.ev
      BY <1>6, <1>8, <2>3, <2>5, <3>1, <3>2, <3>3
    <3>4. CASE x \notin DOMAIN cur.ev
      BY <1>6, <2>5, <3>1, <3>2, <3>4
    <3> QED BY <3>3, <3>4
  <2>6. CASE q = t /\ ~cur.res.ok
    <3>1. x \notin gone
      BY <1>3, <2>6 DEF Stale
    <3>2. rows'[t][x] = rows[t][x] /\ should'[t] = should[t] \cup breached
      BY <1>5, <1>10, <2>6, <3>1
    <3>3. x \in DOMAIN cur.ev => cur.ev[x]
      BY <1>1, <1>2, <2>6 DEF FailedBreach
    <3> QED BY <1>6, <1>8, <2>3, <2>6, <3>2, <3>3
  <2> QED BY <2>4, <2>5, <2>6
<1>13. ASSUME NEW q \in Targets, doc'[q] # Gone, NEW x \in Metric
       PROVE  Standing(q, x)'
  <2>1. Standing(q, x)
    BY <1>1, <1>2, <1>8, <1>13 DEF Mentioned
  <2>2. CASE q = t /\ x \in gone
    <3>1. rows'[q][x] = None /\ told'[q][x] = [kind |-> "none", at |-> 0]
      BY <1>10, <1>11, <2>2
    <3> QED BY <3>1 DEF Standing, Alerted
  <2>3. CASE ~(q = t /\ x \in gone)
    <3>1. rows'[q][x] = rows[q][x] /\ told'[q][x] = told[q][x]
      BY <1>10, <1>11, <2>3
    <3> QED BY <2>1, <3>1 DEF Standing, Alerted
  <2> QED BY <2>2, <2>3
<1>14. Mentioned'
  BY <1>8, <1>13 DEF Mentioned
<1> QED BY <1>9, <1>12, <1>14

(* A crash loses the message on its way; its row stays, and the account is *)
(* taken afresh from the rows.                                             *)
LEMMA CrashKeepsAccount ==
  ASSUME NotifierInv, Crash
  PROVE  Account' /\ FailedBreach' /\ Mentioned'
<1>1. Mentioned /\ Working /\ Stored
  BY DEF NotifierInv
<1>2. /\ pc' = "select" /\ UNCHANGED <<doc, rows, failures>>
      /\ should' = [t \in Targets |-> {m \in Metric : rows[t][m] # None}]
  BY DEF Crash
<1>3. FailedBreach'
  BY <1>2 DEF FailedBreach
<1>4. \A q \in Targets, x \in Metric : ~Pending(q, x)' /\ ~Judged(q, x)'
  BY <1>2 DEF Pending, Judged
<1>5. Account'
  BY <1>2, <1>4 DEF Account
<1>6. CASE pc = "deliver" /\ cur.msg.kind # "result"
  <2>1. PICK t \in Targets, m \in Metric : t = cur.res.target /\ m = cur.msg.metric
    BY <1>1, <1>6, NotifierConstants DEF Working, Inside
  <2>2. told' = [told EXCEPT ![t][m] = IF cur.msg.kind = "alert"
                                       THEN [kind |-> "lost", at |-> cur.at]
                                       ELSE [kind |-> "none", at |-> 0]]
    BY <1>6, <2>1 DEF Crash
  <2>3. /\ told'[t][m] = IF cur.msg.kind = "alert" THEN [kind |-> "lost", at |-> cur.at]
                                                   ELSE [kind |-> "none", at |-> 0]
        /\ \A q \in Targets, x \in Metric : ~(q = t /\ x = m) => told'[q][x] = told[q][x]
    BY <1>1, <2>2 DEF Stored
  <2>4. \A q \in Targets, x \in Metric : Pending(q, x) <=> q = t /\ x = m
    BY <1>6, <2>1 DEF Pending
  <2>5. ASSUME NEW q \in Targets, doc'[q] # Gone, NEW x \in Metric
        PROVE  Standing(q, x)'
    <3>1. CASE ~(q = t /\ x = m)
      <4>1. Standing(q, x)
        BY <1>1, <1>2, <2>4, <2>5, <3>1 DEF Mentioned
      <4> QED BY <1>2, <2>3, <3>1, <4>1 DEF Standing, Alerted
    <3>2. CASE q = t /\ x = m
      <4>1. rows'[t][m] = IF cur.msg.kind = "alert" THEN cur.at ELSE None
        BY <1>1, <1>2, <2>4, <2>5, <3>2 DEF Mentioned
      <4>2. cur.at \notin {None, Empty}
        BY <1>1, <1>6, NotifierConstants DEF Working
      <4> QED BY <2>3, <3>2, <4>1, <4>2 DEF Standing, Alerted
    <3> QED BY <3>1, <3>2
  <2>6. Mentioned'
    BY <1>4, <2>5 DEF Mentioned
  <2> QED BY <1>3, <1>5, <2>6
<1>7. CASE ~(pc = "deliver" /\ cur.msg.kind # "result")
  <2>1. UNCHANGED told
    BY <1>7 DEF Crash
  <2>2. \A q \in Targets, x \in Metric :
          ~Pending(q, x) /\ (Standing(q, x)' <=> Standing(q, x))
    BY <1>2, <1>7, <2>1 DEF Pending, Standing, Alerted
  <2>3. Mentioned'
    BY <1>1, <1>2, <1>4, <2>2 DEF Mentioned
  <2> QED BY <1>3, <1>5, <2>3
<1> QED BY <1>6, <1>7

(* Every step keeps the account of the rows and of the messages. *)
LEMMA AccountStep ==
  ASSUME NotifierInv, [Next]_vars
  PROVE  Account' /\ FailedBreach' /\ Mentioned'
<1>1. CASE \/ \E c \in Confs : Configure(c)
           \/ \E t \in Targets, d \in Docs \cup {Gone} : EditTarget(t, d)
           \/ \E s \in Senders : \/ \E res \in Results : OnResult(s, res)
                                 \/ DropOldest(s) \/ SendAgain(s)
           \/ Close
           \/ UNCHANGED vars
  <2>1. Outside /\ (\/ UNCHANGED <<doc, rows>>
                    \/ \E t \in Targets, d \in Docs \cup {Gone} : EditTarget(t, d))
    BY <1>1, OutsideSteps
  <2>2. \A t \in Targets : doc'[t] # Gone => doc[t] # Gone /\ rows'[t] = rows[t]
    BY <2>1, OutsideRows DEF NotifierInv
  <2> QED BY <2>1, <2>2, OutsideKeepsAccount DEF NotifierInv
<1> QED BY <1>1, PlainSteps, HandleKeepsAccount, DeliverKeepsAccount, ClearKeepsAccount,
           CrashKeepsAccount DEF Next, WorkerStep

(***************************************************************************)
(* The theorems                                                            *)
(***************************************************************************)

(* NotifierInv is inductive. *)
LEMMA NotifierInvariant == Spec => []NotifierInv
<1>1. Init => NotifierInv
  BY NotifierStarts
<1>2. NotifierInv /\ [Next]_vars => NotifierInv'
  BY QueuedStep, StoredStep, AccountStep DEF NotifierInv
<1> QED BY <1>1, <1>2, PTL DEF Spec

(* Every variable keeps its type: a sender holds a result exactly while it *)
(* is inside OnResult, the worker exactly while it is inside process.      *)
THEOREM NotifierTypes == Spec => []TypeOK
<1>1. NotifierInv => TypeOK
  <2> SUFFICES ASSUME NotifierInv PROVE TypeOK
    OBVIOUS
  <2>1. Queued /\ Stored /\ Working
    BY DEF NotifierInv
  <2>2. \A s \in Senders : hand[s].at = "idle" <=> hand[s].res = None
    <3>1. ASSUME NEW s \in Senders PROVE hand[s].at = "idle" <=> hand[s].res = None
      <4>1. \/ hand[s] \in [at : {"idle"}, res : {None}]
            \/ hand[s] \in [at : {"full", "again"}, res : Results]
        BY <2>1 DEF Queued
      <4> QED BY <4>1, NotifierConstants
    <3> QED BY <3>1
  <2>3. cur = NoCur <=> pc \in {"select", "drain", "done"}
    <3>1. pc \in Between => cur = NoCur
      BY <2>1 DEF Working
    <3>2. pc \in Inside => cur # NoCur
      <4>1. pc \in Inside => cur.res \in Results
        BY <2>1 DEF Working
      <4>2. NoCur.res = None
        BY DEF NoCur
      <4> QED BY <4>1, <4>2, NotifierConstants
    <3> QED BY <2>1, <3>1, <3>2 DEF Working, Between, Inside
  <2>4. pc \in {"select", "drain", "target", "eval", "deliver", "done"}
    BY <2>1 DEF Working, Between, Inside
  <2> QED BY <2>1, <2>2, <2>3, <2>4 DEF TypeOK, Queued, Stored
<1> QED BY <1>1, NotifierInvariant, PTL

(* OnResult's selects lose no result uncounted, and Close drains what was  *)
(* queued before it, whatever the number of senders and the capacity.      *)
THEOREM ResultsAreAccounted == Spec => []ResultsAccounted
<1>1. NotifierInv => ResultsAccounted
  BY DEF NotifierInv, Queued, Busy, ResultsAccounted, NothingLostUncounted, ClosedIsDrained
<1> QED BY <1>1, NotifierInvariant, PTL

(* Between results the rows of a target are the metrics its results left   *)
(* breached, for any thresholds, quiet hours and cooldowns.                *)
THEOREM FiringFollowsResults == Spec => []FiringIsCurrent
<1>1. NotifierInv => FiringIsCurrent
  <2> SUFFICES ASSUME NotifierInv, pc \in Between, failures = 0,
                      NEW t \in Targets, doc[t] # Gone
               PROVE  {m \in Metric : rows[t][m] # None} = should[t]
    BY DEF FiringIsCurrent, Between
  <2>1. \A m \in Metric : ~Judged(t, m)
    BY DEF Judged, Between
  <2>2. \A m \in Metric : rows[t][m] # None <=> m \in should[t]
    BY <2>1 DEF NotifierInv, Account
  <2>3. should[t] \subseteq Metric
    BY DEF NotifierInv, Stored
  <2> QED BY <2>2, <2>3
<1> QED BY <1>1, NotifierInvariant, PTL

(* A recovery follows an alert, and an alert its predecessor by at least   *)
(* the cooldown: what deliver sends is what handleEval decided on the row. *)
THEOREM AlertsAlternate == Spec => AlertProtocol
<1>1. NotifierInv => [RecoveryFollowsAlert /\ CooldownKept]_vars
  <2> SUFFICES ASSUME NotifierInv, pc = "deliver", cur.msg.kind \in {"alert", "recovery"}
               PROVE  /\ cur.msg.kind = "recovery" =>
                           told[cur.res.target][cur.msg.metric].kind \in {"alert", "lost"}
                      /\ cur.msg.kind = "alert" =>
                           (told[cur.res.target][cur.msg.metric].kind \in {"alert", "lost"} =>
                              cur.at - told[cur.res.target][cur.msg.metric].at
                                >= cur.conf.cooldown)
    BY DEF RecoveryFollowsAlert, CooldownKept, Sends
  <2>1. cur.res.target \in Targets /\ cur.msg.metric \in Metric
    BY NotifierConstants DEF NotifierInv, Working, Inside
  <2>2. Pending(cur.res.target, cur.msg.metric)
    BY DEF Pending
  <2> QED BY <2>1, <2>2 DEF NotifierInv, Mentioned, Alerted
<1> QED BY <1>1, NotifierInvariant, PTL DEF AlertProtocol
=============================================================================
