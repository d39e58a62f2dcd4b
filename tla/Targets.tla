------------------------------ MODULE Targets ------------------------------
(***************************************************************************)
(* Targets, the queues they run in and their change history                *)
(* (internal/store/targets.go, queues.go, target_revisions.go, and their   *)
(* handlers in internal/api/targets.go, queues.go, revisions.go).          *)
(*                                                                         *)
(* A handler reads first (the queue it resolves, the revision it reverts   *)
(* to, the snapshot it restores) and writes later, in a transaction of its *)
(* own; queues may be renamed or deleted in between, and targets.queue_id  *)
(* is no foreign key.  A target is its options and its queue; the other    *)
(* fields, and the engine's check of the options, are left out.  Ids are   *)
(* AUTOINCREMENT: never given twice.  X_m is a plausible wrong form of X.  *)
(***************************************************************************)
EXTENDS Integers, FiniteSets

CONSTANTS
    TgClients,
    TgOptions,      \* what a target may be set to
    TgNames,        \* names of queues, "wan" and "lan" among them
    TgNone,
    TgKeep,         \* maxTargetRevisions
    TgMaxTargets, TgMaxQueues, TgMaxWrites    \* bounds

ASSUME TgAssumption ==
    /\ TgKeep \in Nat \ {0} /\ {"wan", "lan"} \subseteq TgNames
    /\ {TgMaxTargets, TgMaxQueues, TgMaxWrites} \subseteq Nat \ {0}
    /\ TgMaxQueues >= 2 /\ TgNone \notin TgNames
    /\ TgNone \notin [opt : TgOptions, queue : Nat]

TgIds == 1..TgMaxTargets

VARIABLES
    tgQueues,      \* the names of the queues there are, by id
    tgLastQueue,   \* the last id given to a queue
    tgRow,         \* targets
    tgLast,        \* the last id given to a target
    tgRevs,        \* target_revisions of every target, by version
    tgReq,         \* a request between what it read and its transaction
    tgWrites

tgLane == <<tgQueues, tgLastQueue>>
tgData == <<tgRow, tgLast, tgRevs>>
tgVars == <<tgLane, tgData, tgReq, tgWrites>>

(* After migration 0007, with a target from before it: its revision names  *)
(* a lane and no queue.                                                    *)
TgInit ==
    /\ tgQueues = [q \in 1..2 |-> IF q = 1 THEN "wan" ELSE "lan"] /\ tgLastQueue = 2
    /\ \E o \in TgOptions :
          /\ tgRow = [i \in TgIds |-> IF i = 1 THEN [opt |-> o, queue |-> 2] ELSE TgNone]
          /\ tgRevs = [i \in TgIds |->
                [v \in (IF i = 1 THEN {1} ELSE {}) |->
                    [action |-> "create", opt |-> o, queue |-> 0, lane |-> "lan"]]]
    /\ tgLast = 1
    /\ tgReq = [c \in TgClients |-> TgNone]
    /\ tgWrites = 0

-----------------------------------------------------------------------------
(* Queues: every operation is one statement or one transaction *)

TgWrite == tgWrites < TgMaxWrites /\ tgWrites' = tgWrites + 1

TgFreeName(n) == \A q \in DOMAIN tgQueues : tgQueues[q] # n   \* UNIQUE

CreateQueue(n) ==
    /\ TgWrite /\ tgLastQueue < TgMaxQueues /\ TgFreeName(n)
    /\ tgLastQueue' = tgLastQueue + 1
    /\ tgQueues' = [q \in DOMAIN tgQueues \cup {tgLastQueue'} |->
                      IF q = tgLastQueue' THEN n ELSE tgQueues[q]]
    /\ UNCHANGED <<tgData, tgReq>>

RenameQueue(q, n) ==
    /\ TgWrite /\ q \in DOMAIN tgQueues /\ TgFreeName(n)
    /\ tgQueues' = [tgQueues EXCEPT ![q] = n]
    /\ UNCHANGED <<tgLastQueue, tgData, tgReq>>

(* Not the last queue, and not one that a target uses. *)
DeleteQueue(q) ==
    /\ TgWrite /\ q \in DOMAIN tgQueues
    /\ Cardinality(DOMAIN tgQueues) > 1
    /\ \A i \in TgIds : tgRow[i] # TgNone => tgRow[i].queue # q
    /\ tgQueues' = [p \in DOMAIN tgQueues \ {q} |-> tgQueues[p]]
    /\ UNCHANGED <<tgLastQueue, tgData, tgReq>>

-----------------------------------------------------------------------------
(* What a handler reads *)

DefaultQueueID == CHOOSE q \in DOMAIN tgQueues : \A p \in DOMAIN tgQueues : q <= p

(* The queue of a snapshot: its id, else its lane, else the default. *)
resolve(snap) ==
    IF snap.queue \in DOMAIN tgQueues THEN {snap.queue}
    ELSE LET named == {q \in DOMAIN tgQueues : tgQueues[q] = snap.lane}
         IN IF named # {} THEN named ELSE {DefaultQueueID}

TgBegin(c, r) ==
    /\ tgReq[c] = TgNone
    /\ tgReq' = [tgReq EXCEPT ![c] = r]
    /\ TgWrite
    /\ UNCHANGED <<tgLane, tgData>>

(* validateTarget: a body names a queue by id, by lane or not at all, and  *)
(* the queue is there when it is looked up.                                *)
createTarget(c) ==
    \E o \in TgOptions, q \in DOMAIN tgQueues :
        TgBegin(c, [action |-> "create", id |-> 0, opt |-> o, queue |-> q])

updateTarget(c, i) ==
    /\ i <= tgLast
    /\ \E o \in TgOptions, q \in DOMAIN tgQueues :
          TgBegin(c, [action |-> "update", id |-> i, opt |-> o, queue |-> q])

revertTargetRevision(c, i) ==
    \E v \in DOMAIN tgRevs[i] : \E q \in resolve(tgRevs[i][v]) :
        TgBegin(c, [action |-> "revert", id |-> i, opt |-> tgRevs[i][v].opt, queue |-> q])

(* The version of the latest revision, 0 if there is none. *)
TgLatest(i) ==
    IF DOMAIN tgRevs[i] = {} THEN 0
    ELSE CHOOSE v \in DOMAIN tgRevs[i] : \A w \in DOMAIN tgRevs[i] : w <= v

(* LatestDeletedSnapshot: the latest revision is a deletion and the target *)
(* is not there.                                                           *)
restoreDeletedTarget(c, i) ==
    LET last == tgRevs[i][TgLatest(i)] IN
    /\ TgLatest(i) > 0 /\ last.action = "delete" /\ tgRow[i] = TgNone
    /\ \E q \in resolve(last) :
          TgBegin(c, [action |-> "restore", id |-> i, opt |-> last.opt, queue |-> q])

-----------------------------------------------------------------------------
(* The transactions *)

TgPruned(versions, new) == {v \in versions : v > new - TgKeep}

insertRevision(i, action, row) ==
    LET new == TgLatest(i) + 1
        rev == [action |-> action, opt |-> row.opt, queue |-> row.queue, lane |-> TgNone]
    IN  tgRevs' = [tgRevs EXCEPT ![i] =
            [v \in TgPruned(DOMAIN tgRevs[i] \cup {new}, new) |->
                IF v = new THEN rev ELSE tgRevs[i][v]]]

(* The row just written is read back through a join with queues: no row,   *)
(* and the transaction is rolled back.                                     *)
TgJoined_m(q) == TRUE
TgJoined(q)   == q \in DOMAIN tgQueues

TgAnswered(c) == tgReq' = [tgReq EXCEPT ![c] = TgNone] /\ UNCHANGED <<tgLane, tgWrites>>

CreateTarget(c) ==
    /\ tgReq[c] # TgNone /\ tgReq[c].action = "create" /\ tgLast < TgMaxTargets
    /\ LET i == tgLast + 1
           row == [opt |-> tgReq[c].opt, queue |-> tgReq[c].queue]
       IN IF TgJoined(row.queue)
          THEN /\ tgLast' = i
               /\ tgRow' = [tgRow EXCEPT ![i] = row]
               /\ insertRevision(i, "create", row)
          ELSE UNCHANGED tgData
    /\ TgAnswered(c)

(* Update and revert; a target that is gone is not found. *)
updateTargetWithAction(c) ==
    /\ tgReq[c] # TgNone /\ tgReq[c].action \in {"update", "revert"}
    /\ LET i == tgReq[c].id
           row == [opt |-> tgReq[c].opt, queue |-> tgReq[c].queue]
       IN IF tgRow[i] # TgNone /\ TgJoined(row.queue)
          THEN /\ tgRow' = [tgRow EXCEPT ![i] = row]
               /\ insertRevision(i, tgReq[c].action, row)
               /\ UNCHANGED tgLast
          ELSE UNCHANGED tgData
    /\ TgAnswered(c)

(* A target that is there again is a conflict. *)
RestoreTarget(c) ==
    /\ tgReq[c] # TgNone /\ tgReq[c].action = "restore"
    /\ LET i == tgReq[c].id
           row == [opt |-> tgReq[c].opt, queue |-> tgReq[c].queue]
       IN IF tgRow[i] = TgNone /\ TgJoined(row.queue)
          THEN /\ tgRow' = [tgRow EXCEPT ![i] = row]
               /\ insertRevision(i, "restore", row)
               /\ UNCHANGED tgLast
          ELSE UNCHANGED tgData
    /\ TgAnswered(c)

DeleteTarget(i) ==
    /\ TgWrite /\ tgRow[i] # TgNone /\ TgJoined(tgRow[i].queue)
    /\ insertRevision(i, "delete", tgRow[i])
    /\ tgRow' = [tgRow EXCEPT ![i] = TgNone]
    /\ UNCHANGED <<tgLane, tgLast, tgReq>>

-----------------------------------------------------------------------------
TgNext ==
    \/ \E n \in TgNames : CreateQueue(n)
    \/ \E q \in DOMAIN tgQueues : DeleteQueue(q) \/ \E n \in TgNames : RenameQueue(q, n)
    \/ \E i \in TgIds : DeleteTarget(i)
    \/ \E c \in TgClients :
          \/ createTarget(c) \/ CreateTarget(c)
          \/ updateTargetWithAction(c) \/ RestoreTarget(c)
          \/ \E i \in TgIds : \/ updateTarget(c, i) \/ revertTargetRevision(c, i)
                              \/ restoreDeletedTarget(c, i)

TgSpec == TgInit /\ [][TgNext]_tgVars

-----------------------------------------------------------------------------
(* Properties *)

(* A target always has a queue to run in, although queue_id is no foreign  *)
(* key and the queue a request looked up may be deleted before the         *)
(* request's transaction: migration 0007 leaves this to DeleteQueue and    *)
(* validateTarget, but it is the join of the read-back that closes the gap. *)
TgQueueExists ==
    \A i \in TgIds : tgRow[i] # TgNone => tgRow[i].queue \in DOMAIN tgQueues

(* The history tells what is there: the latest revision of a target is the *)
(* row as it stands, or its deletion, which is what ListDeletedTargets and *)
(* a restore go by.                                                        *)
TgHistoryCurrent ==
    \A i \in 1..tgLast : LET last == tgRevs[i][TgLatest(i)] IN
        /\ TgLatest(i) > 0
        /\ (tgRow[i] = TgNone) = (last.action = "delete")
        /\ tgRow[i] # TgNone => /\ last.opt = tgRow[i].opt
                                /\ last.queue \in {0, tgRow[i].queue}

(* A revision is never rewritten, and goes only when TgKeep newer ones     *)
(* exist: whatever concurrent edits, reverts and restores overwrite can be *)
(* brought back.                                                           *)
TgHistoryKept ==
    \A i \in TgIds : \A v \in DOMAIN tgRevs[i] :
        IF v \in DOMAIN tgRevs'[i] THEN tgRevs'[i][v] = tgRevs[i][v]
        ELSE Cardinality({w \in DOMAIN tgRevs'[i] : w > v}) >= TgKeep
=============================================================================
