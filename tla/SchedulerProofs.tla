--------------------------- MODULE SchedulerProofs ---------------------------
(* Proofs about Scheduler: for every number of schedules, handlers and      *)
(* callbacks, Reload leaks no instance, Next answers for the schedule it was *)
(* asked about, a fire is recorded, and once the reloads are over the one    *)
(* instance that runs has the entries that the store asks for.               *)
EXTENDS Scheduler, FiniteSetTheorems, TLAPS

(* Where a handler can be inside Reload (with reloadMu), and at all. *)
InReload == {"rows", "targets", "swap", "start", "stopOld"}
HandlerAt == {"idle", "lock", "entry"} \cup InReload
MainAt == {"idle", "halt", "wait", "returned", "gaveUp"}

Entry == [sched : Scheds, row : Row \cup {None}, targets : SUBSET Targets]

(* The types of the locals; only Stop sets stopped. *)
Shape ==
  /\ pc \in [Handlers \cup {Main} -> HandlerAt \cup MainAt]
  /\ \A h \in Handlers : pc[h] \in HandlerAt
  /\ DOMAIN list = Handlers /\ DOMAIN look = Handlers /\ DOMAIN old = Handlers \cup {Main}
  /\ made \in Nat /\ edits \in Nat /\ failures \in Nat
  /\ rows \in [Scheds -> Row \cup {None}] /\ schedTgts \in [Scheds -> SUBSET targets]
  /\ targets \subseteq Targets /\ active \subseteq Scheds
  /\ stopped \in BOOLEAN /\ (stopped <=> pc[Main] # "idle")
  /\ DOMAIN jobs = Crons

(* reloadMu is held by exactly the handler that is inside Reload. *)
Mutex ==
  /\ reloadMu \in Handlers \cup {None}
  /\ \A h \in Handlers : pc[h] \in InReload <=> reloadMu = h

(* Every instance that is made or still to be made answers to an edit of   *)
(* its own, so there are never more than edits allow.                      *)
Waiting == {h \in Handlers : pc[h] \in {"lock", "rows", "targets"}}
Counted ==
  /\ IsFiniteSet(Waiting) /\ edits <= MaxEdits
  /\ made + Cardinality(Waiting) <= edits

(* What the instances are: those that run are s.cron or the one a Reload   *)
(* is about to stop, a Reload's new instance is unlike both, and s.entries  *)
(* and what Next read point to entries that stay what they are.             *)
Instances ==
  /\ live \subseteq 0 .. made
  /\ \A k \in 0 .. made : \A i \in DOMAIN jobs[k] : jobs[k][i] \in Entry
  /\ stopped => cron = None
  /\ ~stopped => cron \in 0 .. made
  /\ \A s \in DOMAIN entries :
       ~stopped /\ s \in Scheds /\ entries[s] \in DOMAIN jobs[cron]
                /\ jobs[cron][entries[s]].sched = s
  /\ \A h \in Handlers : pc[h] = "targets" => list[h] \in [Scheds -> Row \cup {None}]
  /\ \A h \in Handlers : pc[h] = "swap" => list[h] = made /\ made \notin live
  /\ \A h \in Handlers : pc[h] = "start" => list[h] \in 0 .. made
  /\ \A h \in Handlers : look[h] # None => look[h].cron \in 0 .. made

Kept ==
  ~stopped =>
    /\ \A h \in Handlers : pc[h] = "swap" => cron # made
    /\ \A h \in Handlers : pc[h] = "start" => list[h] = cron
    /\ \A h \in Handlers : pc[h] \in {"start", "stopOld"} => old[h] # cron
    /\ \A k \in live : \/ k = cron
                       \/ \E h \in Handlers : pc[h] \in {"start", "stopOld"} /\ old[h] = k
    /\ cron \in live \/ \E h \in Handlers : pc[h] = "start"

(* What a callback captured, and what it knows of the runs since its check. *)
Callback(c) ==
  /\ DOMAIN c = {"pc", "cron", "entry", "out", "since"}
  /\ c.pc \in {"new", "check", "enqueue", "skip", "done"}
  /\ c.pc \in {"check", "enqueue", "skip"} =>
        c.entry \in Entry /\ (edits = 0 => rows[c.entry.sched] # None)
  /\ c.pc = "enqueue" /\ c.entry.sched \in active => c.since
  /\ c.pc = "done" => /\ c.out = "merged" => c.since
                      /\ c.out = "lost" => failures > 0 \/ edits > 0

Fired ==
  /\ DOMAIN cb = Fires
  /\ \A f \in Fires : Callback(cb[f])
  /\ edits = 0 => \A i \in DOMAIN jobs[0] : rows[jobs[0][i].sched] # None

(* The entries of an instance are what the store asks for. *)
Asked(s) == rows[s] # None /\ rows[s].enabled /\ rows[s].spec # BadSpec
Matches(J) ==
  /\ \A i \in DOMAIN J :
       /\ J[i].sched \in Scheds /\ Asked(J[i].sched)
       /\ J[i].row = rows[J[i].sched]
       /\ J[i].targets \cap targets = schedTgts[J[i].sched]
  /\ \A s \in Scheds : Asked(s) /\ schedTgts[s] # {}
                          => \E i \in DOMAIN J : J[i].sched = s

(* With no reload outstanding that has yet to read the rows, what was read *)
(* is what the store holds, at each place a Reload can be.                 *)
Current ==
  ~stopped /\ failures = 0 /\ (\A h \in Handlers : pc[h] \notin {"lock", "rows"}) =>
    /\ \A h \in Handlers : pc[h] = "targets" => list[h] = rows
    /\ \A h \in Handlers : pc[h] = "swap" => Matches(jobs[made])
    /\ (\A h \in Handlers : pc[h] \notin {"targets", "swap"}) => Matches(jobs[cron])

SchedInv == Shape /\ Mutex /\ Counted /\ Instances /\ NextIsOwn /\ Kept /\ Fired /\ Current

(***************************************************************************)
(* The entries that Reload builds                                          *)
(***************************************************************************)

(* Positions are numbered without gaps or repetition: a later one has a    *)
(* larger number.                                                          *)
LEMMA IdsDiffer ==
  ASSUME NEW n \in Nat, NEW kept \in SUBSET (1 .. n), NEW i \in kept, NEW j \in kept,
         Cardinality({x \in kept : x <= i}) = Cardinality({x \in kept : x <= j})
  PROVE  i = j
<1>1. IsFiniteSet(1 .. n)
  BY FS_Interval
<1>2. IsFiniteSet(kept)
  BY <1>1, FS_Subset
<1>3. \A a, b \in kept : a < b
        => Cardinality({x \in kept : x <= a}) < Cardinality({x \in kept : x <= b})
  <2>1. SUFFICES ASSUME NEW a \in kept, NEW b \in kept, a < b
                 PROVE  Cardinality({x \in kept : x <= a}) < Cardinality({x \in kept : x <= b})
    OBVIOUS
  <2> DEFINE A == {x \in kept : x <= a}
             B == {x \in kept : x <= b}
  <2>2. IsFiniteSet(B)
    BY <1>2, FS_Subset
  <2>3. A \subseteq B /\ b \in B /\ b \notin A
    <3>1. b <= b /\ ~(b <= a) /\ \A x \in kept : x <= a => x <= b
      <4>1. a \in Int /\ b \in Int /\ \A x \in kept : x \in Int
        OBVIOUS
      <4> HIDE DEF A, B
      <4> QED BY <2>1, <4>1
    <3> QED BY <3>1
  <2> HIDE DEF A, B
  <2>4. Cardinality(A) <= Cardinality(B) /\ (Cardinality(B) = Cardinality(A) => B = A)
        /\ IsFiniteSet(A)
    BY <2>2, <2>3, FS_Subset
  <2>5. Cardinality(A) \in Nat /\ Cardinality(B) \in Nat
    BY <2>2, <2>4, FS_CardinalityType
  <2>6. Cardinality(A) < Cardinality(B)
    BY <2>3, <2>4, <2>5
  <2> QED BY <2>6 DEF A, B
<1>4. i \in Int /\ j \in Int
  OBVIOUS
<1>5. \A a \in kept : Cardinality({x \in kept : x <= a}) \in Nat
  <2> TAKE a \in kept
  <2>1. IsFiniteSet({x \in kept : x <= a})
    BY <1>2, FS_Subset
  <2> QED BY <2>1, FS_CardinalityType
<1>6. ~(i < j) /\ ~(j < i)
  BY <1>3, <1>5
<1> QED BY <1>4, <1>6

(* Every entry is a schedulable schedule with the row and the targets that *)
(* were read, and every schedulable schedule has an entry.                 *)
LEMMA EntriesExact ==
  ASSUME NEW L \in [Scheds -> Row \cup {None}], NEW T \in [Scheds -> SUBSET Targets]
  PROVE  LET J == EntriesOf(L, T)
         IN  /\ \A n \in DOMAIN J :
                  /\ J[n] \in Entry
                  /\ Schedulable(L[J[n].sched], T[J[n].sched])
                  /\ J[n].row = L[J[n].sched] /\ J[n].targets = T[J[n].sched]
             /\ \A s \in Scheds : Schedulable(L[s], T[s])
                  => \E n \in DOMAIN J : J[n].sched = s
<1> DEFINE kept == {i \in DOMAIN Order : Schedulable(L[Order[i]], T[Order[i]])}
           id(i) == Cardinality({j \in kept : j <= i})
           J == EntriesOf(L, T)
<1>1. /\ DOMAIN J = {id(i) : i \in kept}
      /\ \A n \in DOMAIN J :
           LET s == Order[CHOOSE i \in kept : id(i) = n]
           IN  J[n] = [sched |-> s, row |-> L[s], targets |-> T[s]]
  BY DEF EntriesOf
<1>2. PICK m \in Nat : DOMAIN Order = 1 .. m
  BY SchedulerAssumption
<1>3. kept \in SUBSET (1 .. m)
  BY <1>2
<1>4. \A i \in kept : Order[i] \in Scheds /\ Schedulable(L[Order[i]], T[Order[i]])
  BY DEF Scheds
<1> HIDE DEF kept
<1>5. ASSUME NEW i \in kept
      PROVE  /\ id(i) \in DOMAIN J
             /\ J[id(i)] = [sched |-> Order[i], row |-> L[Order[i]], targets |-> T[Order[i]]]
  <2>1. \A j \in kept : id(i) = id(j) => i = j
    BY <1>3, <1>5, IdsDiffer
  <2>2. (CHOOSE j \in kept : id(j) = id(i)) = i
    BY <1>5, <2>1
  <2> QED BY <1>1, <1>5, <2>2
<1>6. \A n \in DOMAIN J : \E i \in kept : n = id(i)
  BY <1>1
<1> HIDE DEF J, id
<1>7. ASSUME NEW n \in DOMAIN J
      PROVE  /\ J[n] \in Entry
             /\ Schedulable(L[J[n].sched], T[J[n].sched])
             /\ J[n].row = L[J[n].sched] /\ J[n].targets = T[J[n].sched]
  <2>1. PICK i \in kept : n = id(i)
    BY <1>6, <1>7
  <2>2. J[n] = [sched |-> Order[i], row |-> L[Order[i]], targets |-> T[Order[i]]]
    BY <1>5, <2>1
  <2> QED BY <1>4, <2>2 DEF Entry
<1>8. ASSUME NEW s \in Scheds, Schedulable(L[s], T[s])
      PROVE  \E n \in DOMAIN J : J[n].sched = s
  <2>1. PICK i \in DOMAIN Order : s = Order[i]
    BY DEF Scheds
  <2>2. i \in kept
    BY <1>8, <2>1 DEF kept
  <2>3. PICK e : e = id(i)
    OBVIOUS
  <2>4. e \in DOMAIN J /\ J[e] = [sched |-> Order[i], row |-> L[Order[i]], targets |-> T[Order[i]]]
    BY <1>5, <2>2, <2>3
  <2> QED BY <2>1, <2>4
<1>9. /\ \A n \in DOMAIN J : /\ J[n] \in Entry
                              /\ Schedulable(L[J[n].sched], T[J[n].sched])
                              /\ J[n].row = L[J[n].sched] /\ J[n].targets = T[J[n].sched]
      /\ \A s \in Scheds : Schedulable(L[s], T[s]) => \E n \in DOMAIN J : J[n].sched = s
  BY <1>7, <1>8
<1> QED BY <1>9, Zenon DEF J

(***************************************************************************)
(* The invariant holds at the start                                        *)
(***************************************************************************)

(* The constants, one by one. *)
LEMMA SchedConstants ==
  /\ InitRows \in [Scheds -> Row \cup {None}] /\ InitTargets \in [Scheds -> SUBSET Targets]
  /\ MaxEdits \in Nat /\ MaxFailures \in Nat
  /\ None \notin Row /\ None \notin Handlers /\ None \notin Scheds /\ Main \notin Handlers
BY SchedulerAssumption

(* The entry ids Reload stores point to the entries of their schedules. *)
LEMMA EntryIdsOwn ==
  ASSUME NEW k, \A i \in DOMAIN jobs[k] : jobs[k][i] \in Entry
  PROVE  \A s \in DOMAIN EntryIds(k) :
           s \in Scheds /\ EntryIds(k)[s] \in DOMAIN jobs[k]
                        /\ jobs[k][EntryIds(k)[s]].sched = s
<1>1. DOMAIN EntryIds(k) = {jobs[k][i].sched : i \in DOMAIN jobs[k]}
  BY DEF EntryIds
<1>2. SUFFICES ASSUME NEW s \in DOMAIN EntryIds(k)
               PROVE  s \in Scheds /\ EntryIds(k)[s] \in DOMAIN jobs[k]
                                   /\ jobs[k][EntryIds(k)[s]].sched = s
  OBVIOUS
<1>3. EntryIds(k)[s] = CHOOSE i \in DOMAIN jobs[k] : jobs[k][i].sched = s
  BY <1>1, <1>2 DEF EntryIds
<1>4. PICK i \in DOMAIN jobs[k] : jobs[k][i].sched = s
  BY <1>1, <1>2
<1> DEFINE c == CHOOSE j \in DOMAIN jobs[k] : jobs[k][j].sched = s
<1>5. c \in DOMAIN jobs[k] /\ jobs[k][c].sched = s
  BY <1>4
<1>6. s \in Scheds
  BY <1>4 DEF Entry
<1> QED BY <1>3, <1>5, <1>6

(* The entries of the first instance are what the store asks for. *)
LEMMA FirstInstance ==
  ASSUME Init
  PROVE  /\ \A i \in DOMAIN jobs[0] : jobs[0][i] \in Entry
         /\ \A k \in 0 .. made : \A i \in DOMAIN jobs[k] : jobs[k][i] \in Entry
         /\ \A i \in DOMAIN jobs[0] : rows[jobs[0][i].sched] # None
         /\ Matches(jobs[0])
<1> DEFINE J == EntriesOf(InitRows, InitTargets)
<1>1. 0 \in Crons
  BY SchedConstants DEF Crons
<1>2. jobs[0] = J
  BY <1>1 DEF Init
<1>3. /\ \A n \in DOMAIN J :
           /\ J[n] \in Entry
           /\ Schedulable(InitRows[J[n].sched], InitTargets[J[n].sched])
           /\ J[n].row = InitRows[J[n].sched] /\ J[n].targets = InitTargets[J[n].sched]
      /\ \A s \in Scheds : Schedulable(InitRows[s], InitTargets[s])
           => \E n \in DOMAIN J : J[n].sched = s
  BY SchedConstants, EntriesExact
<1> HIDE DEF J
<1>4. rows = InitRows /\ schedTgts = InitTargets /\ targets = Targets /\ made = 0
  BY DEF Init
<1>5. \A i \in DOMAIN jobs[0] : jobs[0][i] \in Entry
  BY <1>2, <1>3
<1>6. \A k \in 0 .. made : \A i \in DOMAIN jobs[k] : jobs[k][i] \in Entry
  <2>1. \A k \in 0 .. made : k = 0
    BY <1>4
  <2> QED BY <1>5, <2>1
<1>7. \A i \in DOMAIN jobs[0] : rows[jobs[0][i].sched] # None
  BY <1>2, <1>3, <1>4 DEF Schedulable
<1>8. Matches(jobs[0])
  <2>1. ASSUME NEW i \in DOMAIN J
        PROVE  /\ J[i].sched \in Scheds /\ Asked(J[i].sched)
               /\ J[i].row = rows[J[i].sched]
               /\ J[i].targets \cap targets = schedTgts[J[i].sched]
    <3>1. J[i].sched \in Scheds
      BY <1>3 DEF Entry
    <3>2. InitTargets[J[i].sched] \subseteq Targets
      BY <3>1, SchedConstants
    <3> QED BY <1>3, <1>4, <3>1, <3>2 DEF Schedulable, Asked
  <2>2. \A s \in Scheds : Asked(s) /\ schedTgts[s] # {} => \E i \in DOMAIN J : J[i].sched = s
    BY <1>3, <1>4 DEF Schedulable, Asked
  <2> QED BY <1>2, <2>1, <2>2 DEF Matches
<1> QED BY <1>5, <1>6, <1>7, <1>8

(* The state main's first Reload leaves is as the invariant says. *)
LEMMA SchedStarts ==
  ASSUME Init
  PROVE  SchedInv
<1>1. \A q \in Handlers \cup {Main} : pc[q] = "idle"
  BY DEF Init
<1>2. Shape
  BY <1>1, SchedConstants DEF Init, Shape, HandlerAt, MainAt, InReload, Crons
<1>3. Mutex
  BY <1>1, SchedConstants DEF Init, Mutex, InReload
<1>4. Counted
  <2>1. Waiting = {}
    BY <1>1 DEF Waiting
  <2> QED BY <2>1, FS_EmptySet, SchedConstants DEF Counted, Init
<1>5. Instances
  <2>1. \A s \in DOMAIN entries :
          s \in Scheds /\ entries[s] \in DOMAIN jobs[0] /\ jobs[0][entries[s]].sched = s
    <3>1. \A i \in DOMAIN jobs[0] : jobs[0][i] \in Entry
      BY FirstInstance
    <3>2. entries = EntryIds(0)
      BY DEF Init
    <3>3. \A s \in DOMAIN EntryIds(0) :
            s \in Scheds /\ EntryIds(0)[s] \in DOMAIN jobs[0]
                         /\ jobs[0][EntryIds(0)[s]].sched = s
      BY <3>1, EntryIdsOwn
    <3> QED BY <3>2, <3>3
  <2>2. live \subseteq 0 .. made /\ cron = 0 /\ cron \in 0 .. made /\ ~stopped
        /\ \A h \in Handlers : look[h] = None
    BY DEF Init
  <2> QED BY <1>1, <2>1, <2>2, FirstInstance DEF Instances
<1>6. NextIsOwn
  BY DEF Init, NextIsOwn
<1>7. Kept
  BY <1>1 DEF Init, Kept
<1>8. Fired
  <2>1. DOMAIN cb = Fires /\ \A f \in Fires : cb[f] = NoFire
    BY DEF Init
  <2>2. DOMAIN NoFire = {"pc", "cron", "entry", "out", "since"} /\ NoFire.pc = "new"
    BY DEF NoFire
  <2> QED BY <2>1, <2>2, FirstInstance DEF Fired, Callback
<1>9. Current
  BY <1>1, FirstInstance DEF Init, Current
<1> QED BY <1>2, <1>3, <1>4, <1>5, <1>6, <1>7, <1>8, <1>9 DEF SchedInv

(***************************************************************************)
(* Where everyone is, and who holds reloadMu                               *)
(***************************************************************************)

(* A step moves at most one goroutine. *)
LEMMA Moves ==
  ASSUME Shape, NEW h \in Handlers \cup {Main}, NEW l, Goto(h, l)
  PROVE  pc'[h] = l /\ DOMAIN pc' = Handlers \cup {Main}
         /\ \A q \in Handlers \cup {Main} : q # h => pc'[q] = pc[q]
BY DEF Shape, Goto

(* A handler that writes the tables keeps every variable well formed. *)
LEMMA EditKeepsShape ==
  ASSUME Shape, NEW h \in Handlers, EditStep(h)
  PROVE  Shape'
<1>1. h # Main /\ MaxEdits \in Nat
  BY SchedConstants
<1>2. ASSUME NEW s \in Scheds, NEW row \in Row, NEW T \in SUBSET Targets, saveSchedule(h, s, row, T)
      PROVE  Shape'
  BY <1>1, <1>2 DEF saveSchedule, Edit, Goto, Shape, HandlerAt, fields, locals
<1>3. ASSUME NEW s \in Scheds, deleteSchedule(h, s)
      PROVE  Shape'
  BY <1>1, <1>3 DEF deleteSchedule, Edit, Goto, Shape, HandlerAt, fields, locals
<1>4. ASSUME NEW t \in Targets, deleteTarget(h, t)
      PROVE  Shape'
  BY <1>1, <1>4 DEF deleteTarget, Edit, Shape, fields, locals
<1>5. ASSUME timezoneChanged(h)
      PROVE  Shape'
  BY <1>1, <1>5 DEF timezoneChanged, Edit, Goto, Shape, HandlerAt, tables, fields, locals
<1> QED BY <1>2, <1>3, <1>4, <1>5 DEF EditStep

(* So does every line of Reload. *)
LEMMA ReloadKeepsShape ==
  ASSUME Shape, NEW h \in Handlers, ReloadStep(h)
  PROVE  Shape'
<1>1. h # Main
  BY SchedConstants
<1> USE <1>1 DEF Goto, Shape, HandlerAt, InReload, tables, fields, locals, bounds
<1>2. ReloadLock(h) => Shape'
  BY DEF ReloadLock
<1>3. ListSchedules(h) => Shape'
  BY DEF ListSchedules
<1>4. ListFails(h) => Shape'
  BY DEF ListFails
<1>5. attachScheduleTargets(h) => Shape'
  BY DEF attachScheduleTargets
<1>6. ReloadDiscard(h) => Shape'
  BY DEF ReloadDiscard
<1>7. ReloadSwap(h) => Shape'
  BY DEF ReloadSwap
<1>8. ReloadStart(h) => Shape'
  BY DEF ReloadStart
<1>9. ReloadStopOld(h) => Shape'
  BY DEF ReloadStopOld
<1> QED BY <1>2, <1>3, <1>4, <1>5, <1>6, <1>7, <1>8, <1>9 DEF ReloadStep

(* What is unchanged by a callback: everything but the callbacks, the runs *)
(* and the count of failures. *)
FireFrame ==
  /\ UNCHANGED <<rows, schedTgts, targets, fields, reloadMu, pc, locals, edits>>
  /\ active' \subseteq active \cup Scheds /\ failures' \in {failures, failures + 1}

(* A firing moves only its own callback, the jobs it counts and the records it makes. *)
LEMMA FiresInFrame ==
  ASSUME Fired, NEW f \in Fires, FireStep(f)
  PROVE  FireFrame
<1> USE DEF FireFrame, tables, fields, locals, bounds
<1>1. fire(f) => FireFrame
  BY DEF fire
<1>2. fireNoTargets(f) => FireFrame
  BY DEF fireNoTargets
<1>3. fireMerged(f) => FireFrame
  BY DEF fireMerged
<1>4. fireDeleted(f) => FireFrame
  BY DEF fireDeleted
<1>5. fireQueued(f) => FireFrame
  BY DEF fireQueued, Fired, Callback, Entry
<1>6. fireRefused(f) => FireFrame
  BY DEF fireRefused
<1>7. skip(f) => FireFrame
  BY DEF skip
<1>8. fireFails(f) => FireFrame
  BY DEF fireFails
<1> QED BY <1>1, <1>2, <1>3, <1>4, <1>5, <1>6, <1>7, <1>8 DEF FireStep

(* The other steps that stay in this frame: a tick of a cron instance, and *)
(* a run that begins or ends. *)
LEMMA OthersInFrame ==
  ASSUME \/ \E s \in Scheds : runSchedule(s) \/ runEnds(s)
         \/ \E f \in Fires, k \in live : \E i \in DOMAIN jobs[k] : Tick(f, k, i)
         \/ UNCHANGED vars
  PROVE  FireFrame
BY DEF runSchedule, runEnds, Tick, FireFrame, tables, fields, locals, bounds, vars

(* The shape is kept by every step. *)
LEMMA ShapeStep ==
  ASSUME Shape, Fired, [Next]_vars
  PROVE  Shape'
<1>1. FireFrame => Shape'
  BY DEF FireFrame, Shape, fields, locals
<1>2. ASSUME NEW h \in Handlers, NextEntry(h) \/ \E s \in Scheds : schedulerNext(h, s)
      PROVE  Shape'
  <2>1. h # Main
    BY SchedConstants
  <2>2. NextEntry(h) => Shape'
    BY <2>1 DEF NextEntry, Shape, Goto, HandlerAt, tables, fields, bounds
  <2>3. ASSUME NEW s \in Scheds, schedulerNext(h, s)
        PROVE  Shape'
    BY <2>1, <2>3 DEF schedulerNext, Shape, Goto, HandlerAt, tables, fields, bounds
  <2> QED BY <1>2, <2>2, <2>3
<1>3. ASSUME Stop \/ StopCron \/ StopReturns \/ StopTimesOut
      PROVE  Shape'
  <2> USE SchedConstants DEF Shape, Goto, MainAt, tables, fields, locals, bounds
  <2>1. Stop => Shape'
    BY DEF Stop
  <2>2. StopCron => Shape'
    BY DEF StopCron
  <2>3. StopReturns => Shape'
    BY DEF StopReturns
  <2>4. StopTimesOut => Shape'
    BY DEF StopTimesOut
  <2> QED BY <1>3, <2>1, <2>2, <2>3, <2>4
<1> QED BY <1>1, <1>2, <1>3, EditKeepsShape, ReloadKeepsShape, FiresInFrame, OthersInFrame DEF Next

(* The steps by what they may change, for the rest of the invariant. *)
LEMMA Steps ==
  ASSUME Fired, [Next]_vars
  PROVE  \/ FireFrame
         \/ \E h \in Handlers : EditStep(h) \/ ReloadStep(h) \/ NextEntry(h)
                                \/ \E s \in Scheds : schedulerNext(h, s)
         \/ Stop \/ StopCron \/ StopReturns \/ StopTimesOut
BY FiresInFrame, OthersInFrame DEF Next

(* reloadMu stays with the handler that is inside Reload. *)
LEMMA MutexStep ==
  ASSUME Shape, Mutex, Fired, [Next]_vars
  PROVE  Mutex'
<1>1. FireFrame => Mutex'
  BY DEF FireFrame, Mutex
<1>2. ASSUME Stop \/ StopCron \/ StopReturns \/ StopTimesOut
      PROVE  Mutex'
  <2>1. reloadMu' = reloadMu /\ \E l : Goto(Main, l)
    BY <1>2 DEF Stop, StopCron, StopReturns, StopTimesOut
  <2>2. \A q \in Handlers : pc'[q] = pc[q]
    BY <2>1, Moves, SchedConstants
  <2> QED BY <2>1, <2>2 DEF Mutex
<1>3. ASSUME NEW h \in Handlers, EditStep(h) \/ NextEntry(h) \/ \E s \in Scheds : schedulerNext(h, s)
      PROVE  Mutex'
  <2>1. /\ reloadMu' = reloadMu
        /\ pc' = pc \/ (pc[h] \in {"idle", "entry"} /\ \E l \in {"idle", "lock", "entry"} : Goto(h, l))
    BY <1>3 DEF EditStep, saveSchedule, deleteSchedule, deleteTarget, timezoneChanged, Edit,
                NextEntry, schedulerNext
  <2>2. CASE pc' = pc
    BY <2>1, <2>2 DEF Mutex
  <2>3. CASE pc[h] \in {"idle", "entry"} /\ \E l \in {"idle", "lock", "entry"} : Goto(h, l)
    <3>1. PICK l \in {"idle", "lock", "entry"} : Goto(h, l)
      BY <2>3
    <3>2. pc'[h] = l /\ \A q \in Handlers : q # h => pc'[q] = pc[q]
      BY <3>1, Moves
    <3> QED BY <2>1, <2>3, <3>1, <3>2 DEF Mutex, InReload
  <2> QED BY <2>1, <2>2, <2>3
<1>4. ASSUME NEW h \in Handlers, ReloadStep(h)
      PROVE  Mutex'
  <2>1. h # None /\ None \notin Handlers
    BY SchedConstants
  <2>2. \/ pc[h] = "lock" /\ reloadMu = None /\ reloadMu' = h /\ Goto(h, "rows")
        \/ pc[h] \in InReload /\ reloadMu' = None /\ Goto(h, "idle")
        \/ pc[h] \in InReload /\ reloadMu' = reloadMu /\ \E l \in InReload : Goto(h, l)
    BY <1>4 DEF ReloadStep, ReloadLock, ListSchedules, ListFails, attachScheduleTargets,
                ReloadDiscard, ReloadSwap, ReloadStart, ReloadStopOld, InReload
  <2>3. CASE pc[h] = "lock" /\ reloadMu = None /\ reloadMu' = h /\ Goto(h, "rows")
    <3>1. pc'[h] = "rows" /\ \A q \in Handlers : q # h => pc'[q] = pc[q]
      BY <2>3, Moves
    <3> QED BY <2>1, <2>3, <3>1 DEF Mutex, InReload
  <2>4. CASE pc[h] \in InReload /\ reloadMu' = None /\ Goto(h, "idle")
    <3>1. pc'[h] = "idle" /\ \A q \in Handlers : q # h => pc'[q] = pc[q]
      BY <2>4, Moves
    <3> QED BY <2>1, <2>4, <3>1 DEF Mutex, InReload
  <2>5. CASE pc[h] \in InReload /\ reloadMu' = reloadMu /\ \E l \in InReload : Goto(h, l)
    <3>1. PICK l \in InReload : Goto(h, l)
      BY <2>5
    <3>2. pc'[h] = l /\ \A q \in Handlers : q # h => pc'[q] = pc[q]
      BY <3>1, Moves
    <3> QED BY <2>5, <3>1, <3>2 DEF Mutex
  <2> QED BY <2>2, <2>3, <2>4, <2>5
<1> QED BY <1>1, <1>2, <1>3, <1>4, Steps

(***************************************************************************)
(* No more instances than edits                                            *)
(***************************************************************************)

(* A handler that starts to wait for its Reload is one more, and one that  *)
(* has made its instance, or failed to, is one fewer. *)
LEMMA WaitingCount ==
  ASSUME IsFiniteSet(Waiting), NEW h
  PROVE  /\ Cardinality(Waiting) \in Nat
         /\ h \notin Waiting => IsFiniteSet(Waiting \cup {h})
                /\ Cardinality(Waiting \cup {h}) = Cardinality(Waiting) + 1
         /\ h \in Waiting => IsFiniteSet(Waiting \ {h})
                /\ Cardinality(Waiting \ {h}) = Cardinality(Waiting) - 1
BY FS_CardinalityType, FS_AddElement, FS_RemoveElement

(* Every step keeps the count of cron instances: one per edit, made or still to be
   made. *)
LEMMA CountedStep ==
  ASSUME Shape, Mutex, Counted, Fired, [Next]_vars
  PROVE  Counted'
<1>1. /\ made \in Nat /\ edits \in Nat /\ MaxEdits \in Nat /\ Cardinality(Waiting) \in Nat
      /\ IsFiniteSet(Waiting) /\ edits <= MaxEdits /\ made + Cardinality(Waiting) <= edits
  BY SchedConstants, FS_CardinalityType DEF Shape, Counted
<1>2. Counted' <=> /\ IsFiniteSet(Waiting') /\ edits' <= MaxEdits
                   /\ made' + Cardinality(Waiting') <= edits'
  BY DEF Counted
<1>3. PICK n \in Nat : n = Cardinality(Waiting)
  BY <1>1
<1>4. ASSUME \A q \in Handlers : pc'[q] = pc[q] \/ (pc[q] \notin {"lock", "rows", "targets"}
                                    /\ pc'[q] \notin {"lock", "rows", "targets"})
      PROVE  Waiting' = Waiting
  BY <1>4 DEF Waiting
<1>5. FireFrame => Counted'
  BY <1>1, <1>2, <1>4 DEF FireFrame, fields
<1>6. ASSUME Stop \/ StopCron \/ StopReturns \/ StopTimesOut
      PROVE  Counted'
  <2>1. made' = made /\ edits' = edits /\ \E l : Goto(Main, l)
    BY <1>6 DEF Stop, StopCron, StopReturns, StopTimesOut, fields, bounds
  <2>2. \A q \in Handlers : pc'[q] = pc[q]
    BY <2>1, Moves, SchedConstants
  <2> QED BY <1>1, <1>2, <1>4, <2>1, <2>2
<1>7. ASSUME NEW h \in Handlers, NextEntry(h) \/ \E s \in Scheds : schedulerNext(h, s)
      PROVE  Counted'
  <2>1. made' = made /\ edits' = edits /\ pc[h] \in {"idle", "entry"}
        /\ \E l \in {"idle", "entry"} : Goto(h, l)
    BY <1>7 DEF NextEntry, schedulerNext, fields, bounds
  <2>2. pc'[h] \in {"idle", "entry"} /\ \A q \in Handlers : q # h => pc'[q] = pc[q]
    BY <2>1, Moves
  <2> QED BY <1>1, <1>2, <1>4, <2>1, <2>2
<1>8. ASSUME NEW h \in Handlers, EditStep(h)
      PROVE  Counted'
  <2>1. made' = made /\ edits < MaxEdits /\ edits' = edits + 1 /\ pc[h] = "idle"
        /\ (pc' = pc \/ Goto(h, "lock"))
    BY <1>8 DEF EditStep, saveSchedule, deleteSchedule, deleteTarget, timezoneChanged, Edit,
                fields
  <2>2. CASE pc' = pc
    <3>1. Waiting' = Waiting
      BY <1>4, <2>2
    <3> QED BY <1>1, <1>2, <2>1, <3>1
  <2>3. CASE Goto(h, "lock")
    <3>1. pc'[h] = "lock" /\ \A q \in Handlers : q # h => pc'[q] = pc[q]
      BY <2>3, Moves
    <3>2. Waiting' = Waiting \cup {h} /\ h \notin Waiting
      BY <2>1, <3>1 DEF Waiting
    <3>3. IsFiniteSet(Waiting') /\ Cardinality(Waiting') = n + 1
      BY <1>1, <1>3, <3>2, WaitingCount
    <3> QED BY <1>1, <1>2, <1>3, <2>1, <3>3
  <2> QED BY <2>1, <2>2, <2>3
<1>9. ASSUME NEW h \in Handlers, ReloadStep(h)
      PROVE  Counted'
  <2>1. edits' = edits
    BY <1>9 DEF ReloadStep, ReloadLock, ListSchedules, ListFails, attachScheduleTargets,
                ReloadDiscard, ReloadSwap, ReloadStart, ReloadStopOld, bounds
  <2>2. CASE made' = made /\ \E l : Goto(h, l) /\ (pc[h] \in {"lock", "rows", "targets"}
                                          <=> l \in {"lock", "rows", "targets"})
    <3>1. PICK l : Goto(h, l) /\ (pc[h] \in {"lock", "rows", "targets"}
                                    <=> l \in {"lock", "rows", "targets"})
      BY <2>2
    <3>2. pc'[h] = l /\ \A q \in Handlers : q # h => pc'[q] = pc[q]
      BY <3>1, Moves
    <3>3. Waiting' = Waiting
      BY <3>1, <3>2 DEF Waiting
    <3> QED BY <1>1, <1>2, <2>1, <2>2, <3>3
  <2>3. CASE /\ made' \in {made, made + 1} /\ pc[h] \in {"lock", "rows", "targets"}
             /\ \E l : Goto(h, l) /\ l \notin {"lock", "rows", "targets"}
    <3>1. PICK l : Goto(h, l) /\ l \notin {"lock", "rows", "targets"}
      BY <2>3
    <3>2. pc'[h] = l /\ \A q \in Handlers : q # h => pc'[q] = pc[q]
      BY <3>1, Moves
    <3>3. Waiting' = Waiting \ {h} /\ h \in Waiting
      BY <2>3, <3>1, <3>2 DEF Waiting
    <3>4. IsFiniteSet(Waiting') /\ Cardinality(Waiting') = n - 1
      BY <1>1, <1>3, <3>3, WaitingCount
    <3> QED BY <1>1, <1>2, <1>3, <2>1, <2>3, <3>4
  <2>4. \/ made' = made /\ \E l : Goto(h, l) /\ (pc[h] \in {"lock", "rows", "targets"}
                                          <=> l \in {"lock", "rows", "targets"})
        \/ /\ made' \in {made, made + 1} /\ pc[h] \in {"lock", "rows", "targets"}
           /\ \E l : Goto(h, l) /\ l \notin {"lock", "rows", "targets"}
    <3>1. CASE ReloadLock(h) \/ ListSchedules(h)
      <4>1. made' = made /\ pc[h] \in {"lock", "rows"}
            /\ \E l \in {"rows", "targets"} : Goto(h, l)
        BY <3>1 DEF ReloadLock, ListSchedules, fields
      <4> QED BY <4>1
    <3>2. CASE ListFails(h) \/ attachScheduleTargets(h)
      <4>1. made' \in {made, made + 1} /\ pc[h] \in {"rows", "targets"}
            /\ \E l \in {"idle", "swap"} : Goto(h, l)
        BY <3>2 DEF ListFails, attachScheduleTargets, fields
      <4> QED BY <4>1
    <3>3. CASE ReloadDiscard(h) \/ ReloadSwap(h) \/ ReloadStart(h) \/ ReloadStopOld(h)
      <4>1. made' = made /\ pc[h] \in {"swap", "start", "stopOld"}
            /\ \E l \in {"idle", "start", "stopOld"} : Goto(h, l)
        BY <3>3 DEF ReloadDiscard, ReloadSwap, ReloadStart, ReloadStopOld, fields
      <4> QED BY <4>1
    <3> QED BY <1>9, <3>1, <3>2, <3>3 DEF ReloadStep
  <2> QED BY <2>2, <2>3, <2>4
<1> QED BY <1>5, <1>6, <1>7, <1>8, <1>9, Steps

(***************************************************************************)
(* The instances                                                           *)
(***************************************************************************)

(* A Reload that is building an instance has room for it, and the entries  *)
(* of the instances that are there do not change. *)
LEMMA Built ==
  ASSUME Shape, Counted, Instances, NEW h \in Handlers, attachScheduleTargets(h)
  PROVE  /\ made' = made + 1 /\ jobs'[made'] = EntriesOf(list[h], schedTgts)
         /\ \A k \in 0 .. made : jobs'[k] = jobs[k]
         /\ \A i \in DOMAIN jobs'[made'] : jobs'[made'][i] \in Entry
         /\ pc'[h] = "swap" /\ list'[h] = made'
         /\ \A q \in Handlers : q # h => pc'[q] = pc[q] /\ list'[q] = list[q]
         /\ UNCHANGED <<tables, cron, entries, stopped, live, reloadMu, old, look, cb, bounds>>
<1>1. h \in Waiting /\ IsFiniteSet(Waiting)
  BY DEF attachScheduleTargets, Waiting, Counted
<1>2. IsFiniteSet(Waiting \ {h}) /\ Cardinality(Waiting \ {h}) = Cardinality(Waiting) - 1
      /\ Cardinality(Waiting) \in Nat /\ Cardinality(Waiting \ {h}) \in Nat
  BY <1>1, FS_RemoveElement, FS_CardinalityType
<1>3. made + 1 <= MaxEdits /\ made \in Nat
  BY <1>2, SchedConstants DEF Counted, Shape
<1>4. made + 1 \in Crons /\ \A k \in 0 .. made : k # made + 1
  BY <1>3, SchedConstants DEF Crons
<1>5. made' = made + 1 /\ jobs'[made'] = EntriesOf(list[h], schedTgts)
      /\ \A k \in 0 .. made : jobs'[k] = jobs[k]
  BY <1>4 DEF attachScheduleTargets, Shape
<1>6. list[h] \in [Scheds -> Row \cup {None}] /\ schedTgts \in [Scheds -> SUBSET Targets]
  BY DEF attachScheduleTargets, Instances, Shape
<1>7. \A i \in DOMAIN jobs'[made'] : jobs'[made'][i] \in Entry
  BY <1>5, <1>6, EntriesExact
<1>8. /\ pc'[h] = "swap" /\ list'[h] = made'
      /\ \A q \in Handlers : q # h => pc'[q] = pc[q] /\ list'[q] = list[q]
      /\ UNCHANGED <<tables, cron, entries, stopped, live, reloadMu, old, look, cb, bounds>>
  BY DEF attachScheduleTargets, Shape, Goto
<1> QED BY <1>5, <1>7, <1>8

(* Reload makes, stops and replaces cron instances under its mutex. *)
LEMMA ReloadKeepsInstances ==
  ASSUME Shape, Mutex, Counted, Instances, Kept, NEW h \in Handlers, ReloadStep(h)
  PROVE  Instances'
<1>1. \A q \in Handlers : q # h => pc[q] \notin InReload \/ pc[h] \notin InReload
  BY DEF Mutex
<1>2. made \in Nat /\ made \in 0 .. made /\ h # Main
  BY SchedConstants DEF Shape
<1>3. CASE ReloadLock(h) \/ ListFails(h)
  <2>1. UNCHANGED <<fields, list, look>> /\ \E l \in {"idle", "rows"} : Goto(h, l)
    BY <1>3 DEF ReloadLock, ListFails, fields, locals
  <2>2. pc'[h] \in {"idle", "rows"} /\ \A q \in Handlers : q # h => pc'[q] = pc[q]
    BY <2>1, Moves
  <2> QED BY <2>1, <2>2 DEF Instances, fields
<1>4. CASE ListSchedules(h)
  <2>1. UNCHANGED <<fields, look>> /\ pc'[h] = "targets" /\ list'[h] = rows
        /\ rows \in [Scheds -> Row \cup {None}]
        /\ \A q \in Handlers : q # h => pc'[q] = pc[q] /\ list'[q] = list[q]
    BY <1>4 DEF ListSchedules, Shape, Goto
  <2> QED BY <2>1 DEF Instances, fields
<1>5. CASE attachScheduleTargets(h)
  <2>1. \A k \in 0 .. made' : k \in 0 .. made \/ k = made'
    BY <1>2, <1>5, Built
  <2>2. \A k \in 0 .. made : k \in 0 .. made' /\ k # made'
    BY <1>2, <1>5, Built
  <2>3. \A k \in 0 .. made' : \A i \in DOMAIN jobs'[k] : jobs'[k][i] \in Entry
    BY <1>5, <2>1, Built DEF Instances
  <2>4. /\ live' = live /\ cron' = cron /\ entries' = entries /\ stopped' = stopped
        /\ look' = look
    BY <1>5, Built
  <2>5. live' \subseteq 0 .. made' /\ made' \notin live'
        /\ (stopped' => cron' = None) /\ (~stopped' => cron' \in 0 .. made')
        /\ \A q \in Handlers : look'[q] # None => look'[q].cron \in 0 .. made'
    BY <2>2, <2>4 DEF Instances
  <2>6. \A s \in DOMAIN entries' :
          ~stopped' /\ s \in Scheds /\ entries'[s] \in DOMAIN jobs'[cron']
                    /\ jobs'[cron'][entries'[s]].sched = s
    BY <1>5, <2>4, Built DEF Instances
  <2>7. \A q \in Handlers : pc'[q] = "swap" => list'[q] = made' /\ made' \notin live'
    BY <1>1, <1>5, <2>5, Built DEF attachScheduleTargets, InReload
  <2>8. \A q \in Handlers : pc'[q] # "targets" /\ pc'[q] # "start"
    BY <1>1, <1>5, Built DEF attachScheduleTargets, InReload
  <2> QED BY <2>3, <2>5, <2>6, <2>7, <2>8 DEF Instances
<1>6. CASE ReloadDiscard(h)
  <2>1. UNCHANGED <<fields, look>> /\ pc'[h] = "idle"
        /\ \A q \in Handlers : q # h => pc'[q] = pc[q] /\ list'[q] = list[q]
    BY <1>6 DEF ReloadDiscard, Shape, Goto
  <2> QED BY <2>1 DEF Instances, fields
<1>7. CASE ReloadSwap(h)
  <2>1. /\ UNCHANGED <<stopped, live, jobs, made, list, look>> /\ pc'[h] = "start" /\ ~stopped
        /\ cron' = list[h] /\ entries' = EntryIds(list[h]) /\ pc[h] = "swap"
        /\ \A q \in Handlers : q # h => pc'[q] = pc[q]
    BY <1>7 DEF ReloadSwap, Shape, Goto
  <2>2. cron' \in 0 .. made /\ cron' = made
    BY <1>2, <2>1 DEF Instances
  <2>3. \A s \in DOMAIN entries' :
          s \in Scheds /\ entries'[s] \in DOMAIN jobs[cron'] /\ jobs[cron'][entries'[s]].sched = s
    <3>1. PICK k : k = cron'
      OBVIOUS
    <3>2. \A i \in DOMAIN jobs[k] : jobs[k][i] \in Entry
      BY <2>2, <3>1 DEF Instances
    <3>3. \A s \in DOMAIN EntryIds(k) :
            s \in Scheds /\ EntryIds(k)[s] \in DOMAIN jobs[k]
                         /\ jobs[k][EntryIds(k)[s]].sched = s
      BY <3>2, EntryIdsOwn
    <3>4. entries' = EntryIds(k)
      BY <2>1, <3>1
    <3> QED BY <3>1, <3>3, <3>4
  <2> QED BY <2>1, <2>2, <2>3 DEF Instances
<1>8. CASE ReloadStart(h)
  <2>1. /\ UNCHANGED <<cron, entries, stopped, jobs, made, look>> /\ pc'[h] = "stopOld"
        /\ pc[h] = "start" /\ live' = live \cup {list[h]}
        /\ \A q \in Handlers : q # h => pc'[q] = pc[q] /\ list'[q] = list[q]
    BY <1>8 DEF ReloadStart, Shape, Goto
  <2>2. \A q \in Handlers : pc'[q] \notin {"swap", "targets", "start"}
    BY <1>1, <2>1 DEF InReload
  <2> QED BY <2>1, <2>2 DEF Instances
<1>9. CASE ReloadStopOld(h)
  <2>1. /\ UNCHANGED <<cron, entries, stopped, jobs, made, list, look>> /\ pc'[h] = "idle"
        /\ live' \subseteq live
        /\ \A q \in Handlers : q # h => pc'[q] = pc[q]
    BY <1>9 DEF ReloadStopOld, Shape, Goto
  <2> QED BY <2>1 DEF Instances
<1> QED BY <1>3, <1>4, <1>5, <1>6, <1>7, <1>8, <1>9 DEF ReloadStep

(* The steps that leave the instances alone: an edit, a look at the entry, *)
(* and the callbacks. *)
QuietFrame ==
  /\ UNCHANGED <<fields, reloadMu, list, old>>
  /\ \/ UNCHANGED pc
     \/ \E h \in Handlers, l \in {"idle", "lock", "entry"} :
          pc[h] \in {"idle", "entry"} /\ Goto(h, l)

(* The steps that have nothing to do with the cron instances. *)
LEMMA Quiet ==
  ASSUME NEW h \in Handlers,
         FireFrame \/ EditStep(h) \/ NextEntry(h) \/ \E s \in Scheds : schedulerNext(h, s)
  PROVE  QuietFrame
<1>1. FireFrame => QuietFrame
  BY DEF FireFrame, QuietFrame, fields, locals
<1>2. EditStep(h) => QuietFrame
  BY DEF EditStep, saveSchedule, deleteSchedule, deleteTarget, timezoneChanged, Edit,
         QuietFrame, fields, locals
<1>3. NextEntry(h) \/ (\E s \in Scheds : schedulerNext(h, s)) => QuietFrame
  BY DEF NextEntry, schedulerNext, QuietFrame, fields
<1> QED BY <1>1, <1>2, <1>3

(* Then every handler inside Reload is where it was. *)
LEMMA QuietPlaces ==
  ASSUME Shape, QuietFrame
  PROVE  /\ \A q \in Handlers :
              pc'[q] # pc[q] => /\ pc[q] \notin InReload /\ pc'[q] \notin InReload
                                /\ pc[q] # "lock"
         /\ UNCHANGED <<cron, entries, stopped, live, jobs, made, reloadMu, list, old>>
<1>1. ASSUME NEW h \in Handlers, NEW l \in {"idle", "lock", "entry"},
             pc[h] \in {"idle", "entry"}, Goto(h, l), NEW q \in Handlers
      PROVE  pc'[q] # pc[q] => /\ pc[q] \notin InReload /\ pc'[q] \notin InReload
                               /\ pc[q] # "lock"
  BY <1>1, Moves DEF InReload
<1>2. UNCHANGED <<cron, entries, stopped, live, jobs, made, reloadMu, list, old>>
  BY DEF QuietFrame, fields
<1>3. CASE UNCHANGED pc
  BY <1>2, <1>3
<1>4. CASE \E h \in Handlers, l \in {"idle", "lock", "entry"} :
             pc[h] \in {"idle", "entry"} /\ Goto(h, l)
  BY <1>1, <1>2, <1>4
<1> QED BY <1>3, <1>4 DEF QuietFrame

(* Every step keeps what is known of the cron instances. *)
LEMMA InstancesStep ==
  ASSUME Shape, Mutex, Counted, Instances, Kept, Fired, [Next]_vars
  PROVE  Instances'
<1>1. ASSUME QuietFrame, \A q \in Handlers : look'[q] # None => look'[q].cron \in 0 .. made
      PROVE  Instances'
  <2>1. /\ \A q \in Handlers :
             pc'[q] # pc[q] => /\ pc[q] \notin InReload /\ pc'[q] \notin InReload
                               /\ pc[q] # "lock"
        /\ UNCHANGED <<cron, entries, stopped, live, jobs, made, reloadMu, list, old>>
    BY <1>1, QuietPlaces
  <2> QED BY <1>1, <2>1 DEF Instances, InReload
<1>2. ASSUME NEW h \in Handlers, EditStep(h) \/ NextEntry(h) \/ \E s \in Scheds : schedulerNext(h, s)
      PROVE  Instances'
  <2>1. \A q \in Handlers : look'[q] # None => look'[q].cron \in 0 .. made
    <3>1. EditStep(h) => look' = look
      BY DEF EditStep, saveSchedule, deleteSchedule, deleteTarget, timezoneChanged, locals
    <3>2. NextEntry(h) => \A q \in Handlers : look'[q] # None => look'[q] = look[q]
      BY DEF NextEntry, Shape
    <3>3. ASSUME NEW s \in Scheds, schedulerNext(h, s), NEW q \in Handlers
          PROVE  look'[q] = look[q] \/ (look'[q].cron = cron /\ cron # None)
      BY <3>3 DEF schedulerNext, Shape
    <3>4. cron # None => cron \in 0 .. made
      BY DEF Instances, Shape
    <3> QED BY <1>2, <3>1, <3>2, <3>3, <3>4 DEF Instances
  <2> QED BY <1>1, <1>2, <2>1, Quiet
<1>3. ASSUME FireFrame
      PROVE  Instances'
  <2>1. QuietFrame /\ look' = look
    BY <1>3 DEF FireFrame, QuietFrame, fields, locals
  <2> QED BY <1>1, <2>1 DEF Instances
<1>4. ASSUME Stop
      PROVE  Instances'
  <2>1. /\ UNCHANGED <<live, jobs, made, list, look>>
        /\ stopped' /\ cron' = None /\ entries' = <<>>
        /\ \A q \in Handlers : pc'[q] = pc[q]
    BY <1>4, SchedConstants DEF Stop, Goto, Shape
  <2>2. DOMAIN entries' = {}
    BY <2>1
  <2> QED BY <2>1, <2>2 DEF Instances
<1>5. ASSUME StopCron \/ StopReturns \/ StopTimesOut
      PROVE  Instances'
  <2>1. /\ UNCHANGED <<cron, entries, stopped, jobs, made, list, look>> /\ live' \subseteq live
        /\ \E l : Goto(Main, l)
    BY <1>5 DEF StopCron, StopReturns, StopTimesOut, fields, locals
  <2>2. \A q \in Handlers : pc'[q] = pc[q]
    BY <2>1, Moves, SchedConstants
  <2> QED BY <2>1, <2>2 DEF Instances
<1> QED BY <1>2, <1>3, <1>4, <1>5, Steps, ReloadKeepsInstances

(* What Next read stays the entry of its schedule. *)
LEMMA OwnStep ==
  ASSUME Shape, Counted, Instances, NextIsOwn, Fired, [Next]_vars
  PROVE  NextIsOwn'
<1>1. ASSUME look' = look, jobs' = jobs
      PROVE  NextIsOwn'
  BY <1>1 DEF NextIsOwn
<1>2. FireFrame \/ Stop \/ StopCron \/ StopReturns \/ StopTimesOut => look' = look /\ jobs' = jobs
  BY DEF FireFrame, Stop, StopCron, StopReturns, StopTimesOut, fields, locals
<1>3. ASSUME NEW h \in Handlers, EditStep(h)
      PROVE  look' = look /\ jobs' = jobs
  BY <1>3 DEF EditStep, saveSchedule, deleteSchedule, deleteTarget, timezoneChanged, fields, locals
<1>4. ASSUME NEW h \in Handlers, NextEntry(h)
      PROVE  NextIsOwn'
  <2>1. jobs' = jobs /\ \A q \in Handlers : look'[q] # None => look'[q] = look[q]
    BY <1>4 DEF NextEntry, Shape, fields
  <2> QED BY <2>1 DEF NextIsOwn
<1>5. ASSUME NEW h \in Handlers, NEW s \in Scheds, schedulerNext(h, s)
      PROVE  NextIsOwn'
  <2>1. /\ jobs' = jobs /\ \A q \in Handlers : q # h => look'[q] = look[q]
        /\ look'[h].cron = cron /\ look'[h].id = entries[s] /\ look'[h].sched = s
        /\ s \in DOMAIN entries
    BY <1>5 DEF schedulerNext, Shape, fields
  <2>2. entries[s] \in DOMAIN jobs[cron] /\ jobs[cron][entries[s]].sched = s
    BY <2>1 DEF Instances
  <2>3. look'[h].id \in DOMAIN jobs'[look'[h].cron]
        /\ jobs'[look'[h].cron][look'[h].id].sched = look'[h].sched
    BY <2>1, <2>2
  <2> QED BY <2>1, <2>3 DEF NextIsOwn
<1>6. ASSUME NEW h \in Handlers, ReloadStep(h)
      PROVE  NextIsOwn'
  <2>1. CASE attachScheduleTargets(h)
    <3>1. look' = look /\ \A k \in 0 .. made : jobs'[k] = jobs[k]
      BY <2>1, Built
    <3> QED BY <3>1 DEF NextIsOwn, Instances
  <2>2. CASE ~attachScheduleTargets(h)
    <3>1. look' = look /\ jobs' = jobs
      BY <1>6, <2>2 DEF ReloadStep, ReloadLock, ListSchedules, ListFails, ReloadDiscard,
                        ReloadSwap, ReloadStart, ReloadStopOld, fields, locals
    <3> QED BY <1>1, <3>1
  <2> QED BY <2>1, <2>2
<1> QED BY <1>1, <1>2, <1>3, <1>4, <1>5, <1>6, Steps

(***************************************************************************)
(* No instance is leaked                                                   *)
(***************************************************************************)

(* Stop is the end of what Kept says, and quiet steps leave it. *)
LEMMA KeptQuiet ==
  ASSUME Shape, Kept, QuietFrame
  PROVE  Kept'
<1>1. /\ \A q \in Handlers :
           pc'[q] # pc[q] => /\ pc[q] \notin InReload /\ pc'[q] \notin InReload
                             /\ pc[q] # "lock"
      /\ UNCHANGED <<cron, entries, stopped, live, jobs, made, reloadMu, list, old>>
  BY QuietPlaces
<1>2. \A q \in Handlers : \A l \in {"swap", "start", "stopOld"} : pc'[q] = l <=> pc[q] = l
  BY <1>1 DEF InReload
<1> QED BY <1>1, <1>2 DEF Kept

(* Every step keeps the instance the scheduler points at running until Stop. *)
LEMMA KeptStep ==
  ASSUME Shape, Mutex, Counted, Instances, Kept, Fired, [Next]_vars
  PROVE  Kept'
<1>1. CASE FireFrame \/ \E h \in Handlers : EditStep(h) \/ NextEntry(h)
                                            \/ \E s \in Scheds : schedulerNext(h, s)
  <2>1. QuietFrame
    BY <1>1, Quiet DEF QuietFrame, FireFrame, fields, locals
  <2> QED BY <2>1, KeptQuiet
<1>2. CASE Stop \/ StopCron \/ StopReturns \/ StopTimesOut
  <2>1. stopped'
    BY <1>2 DEF Stop, StopCron, StopReturns, StopTimesOut, Shape, fields
  <2> QED BY <2>1 DEF Kept
<1>3. ASSUME NEW h \in Handlers, ReloadStep(h), ~stopped'
      PROVE  Kept'
  <2>1. \A q \in Handlers : q # h => (pc[q] \notin InReload \/ pc[h] \notin InReload)
    BY DEF Mutex
  <2>2. stopped' = stopped /\ ~stopped
    BY <1>3 DEF ReloadStep, ReloadLock, ListSchedules, ListFails, attachScheduleTargets,
                ReloadDiscard, ReloadSwap, ReloadStart, ReloadStopOld, fields
  <2>3. /\ \A q \in Handlers : pc[q] = "swap" => cron # made
        /\ \A q \in Handlers : pc[q] = "start" => list[q] = cron
        /\ \A q \in Handlers : pc[q] \in {"start", "stopOld"} => old[q] # cron
        /\ \A k \in live : \/ k = cron
                           \/ \E q \in Handlers : pc[q] \in {"start", "stopOld"} /\ old[q] = k
        /\ cron \in live \/ \E q \in Handlers : pc[q] = "start"
    BY <2>2 DEF Kept
  <2>4. CASE ReloadLock(h) \/ ListSchedules(h) \/ ListFails(h) \/ ReloadDiscard(h)
    <3>1. /\ UNCHANGED <<cron, made, live, old>> /\ pc'[h] \in {"rows", "targets", "idle"}
          /\ pc[h] \notin {"start", "stopOld"} /\ ~ReloadDiscard(h)
          /\ \A q \in Handlers : q # h => pc'[q] = pc[q] /\ list'[q] = list[q]
      BY <2>2, <2>4, SchedConstants DEF ReloadLock, ListSchedules, ListFails, ReloadDiscard,
                          Goto, Shape, fields, locals
    <3>2. \A q \in Handlers : pc[q] \in {"start", "stopOld"} <=> pc'[q] \in {"start", "stopOld"}
      BY <3>1
    <3> QED BY <2>3, <3>1, <3>2 DEF Kept
  <2>5. CASE attachScheduleTargets(h)
    <3>1. cron \in 0 .. made /\ made \in Nat
      BY <2>2 DEF Instances, Shape
    <3>2. cron # made + 1
      BY <3>1
    <3>3. /\ UNCHANGED <<cron, live, old>> /\ pc'[h] = "swap" /\ made' = made + 1
          /\ pc[h] = "targets"
          /\ \A q \in Handlers : q # h => pc'[q] = pc[q] /\ list'[q] = list[q]
      BY <2>5, Built DEF attachScheduleTargets
    <3>4. \A q \in Handlers : pc[q] \in {"start", "stopOld"} <=> pc'[q] \in {"start", "stopOld"}
      BY <3>3
    <3> QED BY <2>3, <3>2, <3>3, <3>4 DEF Kept
  <2>6. CASE ReloadSwap(h)
    <3>1. /\ UNCHANGED <<live, made, list>> /\ pc'[h] = "start" /\ pc[h] = "swap"
          /\ cron' = list[h] /\ old'[h] = cron
          /\ \A q \in Handlers : q # h => pc'[q] = pc[q] /\ old'[q] = old[q]
      BY <2>6, SchedConstants DEF ReloadSwap, Shape, Goto
    <3>2. cron' = made /\ cron # made
      BY <2>3, <3>1 DEF Instances
    <3>3. \A q \in Handlers : q # h => pc'[q] \notin InReload /\ pc[q] \notin InReload
      BY <2>1, <3>1 DEF InReload
    <3>4. \A k \in live' : k = old'[h]
      BY <2>3, <3>1, <3>3 DEF InReload
    <3> QED BY <3>1, <3>2, <3>3, <3>4 DEF Kept, InReload
  <2>7. CASE ReloadStart(h)
    <3>1. /\ UNCHANGED <<cron, made, old>> /\ pc'[h] = "stopOld" /\ pc[h] = "start"
          /\ live' = live \cup {list[h]}
          /\ \A q \in Handlers : q # h => pc'[q] = pc[q] /\ list'[q] = list[q]
      BY <2>7 DEF ReloadStart, Shape, Goto
    <3>2. list[h] = cron /\ old[h] # cron
      BY <2>3, <3>1
    <3>3. \A q \in Handlers : q # h => pc'[q] \notin InReload /\ pc[q] \notin InReload
      BY <2>1, <3>1 DEF InReload
    <3>4. \A k \in live' : k = cron \/ k = old[h]
      BY <2>3, <3>1, <3>2, <3>3 DEF InReload
    <3> QED BY <3>1, <3>2, <3>3, <3>4 DEF Kept, InReload
  <2>8. CASE ReloadStopOld(h)
    <3>1. /\ UNCHANGED <<cron, made, list>> /\ pc'[h] = "idle" /\ pc[h] = "stopOld"
          /\ live' = live \ {old[h]}
          /\ \A q \in Handlers : q # h => pc'[q] = pc[q]
      BY <2>8 DEF ReloadStopOld, Shape, Goto
    <3>2. old[h] # cron
      BY <2>3, <3>1
    <3>3. \A q \in Handlers : q # h => pc'[q] \notin InReload /\ pc[q] \notin InReload
      BY <2>1, <3>1 DEF InReload
    <3>4. \A k \in live' : k = cron
      BY <2>3, <3>1, <3>3 DEF InReload
    <3>5. cron \in live'
      BY <2>3, <3>1, <3>2, <3>3 DEF InReload
    <3> QED BY <3>1, <3>3, <3>4, <3>5 DEF Kept, InReload
  <2> QED BY <1>3, <2>4, <2>5, <2>6, <2>7, <2>8 DEF ReloadStep
<1>4. stopped' => Kept'
  BY DEF Kept
<1> QED BY <1>1, <1>2, <1>3, <1>4, Steps

(***************************************************************************)
(* A fire is recorded                                                      *)
(***************************************************************************)

(* Before the first edit there is one instance, whose schedules exist. *)
LEMMA Unedited ==
  ASSUME Shape, Counted, Instances, Fired, edits = 0
  PROVE  /\ made = 0
         /\ \A k \in live : \A i \in DOMAIN jobs[k] : rows[jobs[k][i].sched] # None
<1>1. Cardinality(Waiting) \in Nat
  BY FS_CardinalityType DEF Counted
<1>2. made = 0
  BY <1>1 DEF Counted, Shape
<1>3. \A k \in live : k = 0
  BY <1>2 DEF Instances
<1> QED BY <1>2, <1>3 DEF Fired

(* The new state of one callback f, when nothing else of Fired changes. *)
LEMMA OneFires ==
  ASSUME Shape, Fired, FireFrame, active' = active, NEW f \in Fires, NEW c,
         DOMAIN cb' = Fires, cb'[f] = c,
         \A g \in Fires : g # f => cb'[g] = cb[g],
         DOMAIN c = {"pc", "cron", "entry", "out", "since"},
         c.pc \in {"new", "check", "enqueue", "skip", "done"},
         c.pc \in {"check", "enqueue", "skip"} =>
             c.entry \in Entry /\ (edits = 0 => rows[c.entry.sched] # None),
         c.pc = "enqueue" /\ c.entry.sched \in active => c.since,
         c.pc = "done" => /\ c.out = "merged" => c.since
                          /\ c.out = "lost" => failures' > 0 \/ edits > 0
  PROVE  Fired'
<1>1. failures \in Nat /\ failures' \in Nat /\ (failures > 0 => failures' > 0)
  BY DEF FireFrame, Shape
<1>2. UNCHANGED <<rows, jobs, edits, active>>
  BY DEF FireFrame, fields
<1>3. ASSUME NEW g \in Fires
      PROVE  Callback(cb[g])'
  <2>1. CASE g = f
    BY <1>2, <2>1 DEF Callback
  <2>2. CASE g # f
    <3>1. cb'[g] = cb[g] /\ Callback(cb[g])
      BY <2>2 DEF Fired
    <3> QED BY <1>1, <1>2, <3>1 DEF Callback
  <2> QED BY <2>1, <2>2
<1>4. edits' = 0 => \A i \in DOMAIN jobs'[0] : rows'[jobs'[0][i].sched] # None
  BY <1>2 DEF Fired
<1> QED BY <1>3, <1>4 DEF Fired

(* A callback that goes on from its check, or ends. *)
LEMMA GoesOn ==
  ASSUME Shape, Fired, FireFrame, active' = active, NEW f \in Fires,
         cb[f].pc \in {"check", "enqueue", "skip"},
         DOMAIN cb' = Fires, \A g \in Fires : g # f => cb'[g] = cb[g],
         DOMAIN cb'[f] = DOMAIN cb[f], cb'[f].entry = cb[f].entry,
         cb'[f].pc \in {"enqueue", "skip", "done"},
         cb'[f].pc = "enqueue" => cb[f].entry.sched \notin active,
         cb'[f].pc = "done" => /\ cb'[f].out = "merged" => cb'[f].since
                               /\ cb'[f].out = "lost" => failures' > 0 \/ edits > 0
  PROVE  Fired'
<1>1. PICK c : c = cb'[f]
  OBVIOUS
<1>2. DOMAIN cb[f] = {"pc", "cron", "entry", "out", "since"} /\ cb[f].entry \in Entry
      /\ (edits = 0 => rows[cb[f].entry.sched] # None)
  BY DEF Fired, Callback
<1>3. /\ DOMAIN c = {"pc", "cron", "entry", "out", "since"} /\ c.entry \in Entry
      /\ (edits = 0 => rows[c.entry.sched] # None)
      /\ c.pc \in {"new", "check", "enqueue", "skip", "done"}
      /\ (c.pc = "enqueue" => c.entry.sched \notin active)
  BY <1>1, <1>2
<1>4. c.pc = "done" => /\ c.out = "merged" => c.since
                       /\ c.out = "lost" => failures' > 0 \/ edits > 0
  BY <1>1
<1> QED BY <1>1, <1>3, <1>4, OneFires

(* A run of s begins: whoever was between check and Enqueue knows. *)
LEMMA RunIsNoted ==
  ASSUME Fired, NEW s \in Scheds, NEW C, DOMAIN C = Fires, \A g \in Fires : Callback(C[g]),
         cb' = RunBegins(C, s), active' = active \cup {s},
         UNCHANGED <<rows, jobs, edits, failures>>
  PROVE  Fired'
<1>1. ASSUME NEW g \in Fires
      PROVE  Callback(cb[g])'
  <2>1. Callback(C[g])
    OBVIOUS
  <2>2. CASE C[g].pc = "enqueue" /\ C[g].entry.sched = s
    <3>1. cb'[g] = [C[g] EXCEPT !.since = TRUE]
      BY <2>2 DEF RunBegins
    <3>2. /\ DOMAIN cb'[g] = DOMAIN C[g] /\ cb'[g].pc = "enqueue"
          /\ cb'[g].entry = C[g].entry /\ cb'[g].since = TRUE
      BY <2>1, <2>2, <3>1 DEF Callback
    <3> QED BY <2>1, <2>2, <3>2 DEF Callback
  <2>3. CASE ~(C[g].pc = "enqueue" /\ C[g].entry.sched = s)
    <3>1. cb'[g] = C[g]
      BY <2>3 DEF RunBegins
    <3> QED BY <2>1, <2>3, <3>1 DEF Callback
  <2> QED BY <2>2, <2>3
<1>2. DOMAIN cb' = Fires
  BY DEF RunBegins
<1> QED BY <1>1, <1>2 DEF Fired

(* A firing ends with a record of what became of it. *)
LEMMA FireKeepsFired ==
  ASSUME Shape, Fired, NEW f \in Fires, FireStep(f)
  PROVE  Fired'
<1>1. FireFrame
  BY FiresInFrame
<1>2. DOMAIN cb = Fires /\ DOMAIN cb[f] = {"pc", "cron", "entry", "out", "since"}
      /\ (cb[f].pc = "enqueue" /\ cb[f].entry.sched \in active => cb[f].since)
  BY DEF Fired, Callback
<1>3. ASSUME NEW l \in {"enqueue", "skip"}, cb[f].pc \in {"check", "enqueue"},
             cb' = [cb EXCEPT ![f].pc = l], active' = active,
             l = "enqueue" => cb[f].entry.sched \notin active
      PROVE  Fired'
  <2>1. /\ DOMAIN cb' = Fires /\ \A g \in Fires : g # f => cb'[g] = cb[g]
        /\ DOMAIN cb'[f] = DOMAIN cb[f] /\ cb'[f].entry = cb[f].entry /\ cb'[f].pc = l
    BY <1>2, <1>3
  <2> QED BY <1>1, <1>3, <2>1, GoesOn
<1>4. CASE fire(f)
  <2>1. PICK l \in {"enqueue", "skip"} :
           l = IF cb[f].entry.sched \in active THEN "skip" ELSE "enqueue"
    OBVIOUS
  <2>2. cb[f].pc = "check" /\ cb' = [cb EXCEPT ![f].pc = l] /\ active' = active
    BY <1>4, <2>1 DEF fire, tables
  <2> QED BY <1>3, <2>1, <2>2
<1>5. CASE fireNoTargets(f) \/ fireRefused(f)
  <2>1. cb[f].pc = "enqueue" /\ cb' = [cb EXCEPT ![f].pc = "skip"] /\ active' = active
    BY <1>5 DEF fireNoTargets, fireRefused, tables
  <2> QED BY <1>3, <2>1
<1>6. ASSUME NEW e, EndFire(f, e), cb[f].pc \in {"check", "enqueue", "skip"}, active' = active,
             e = "merged" => cb[f].since,
             e = "lost" => failures' > 0 \/ edits > 0
      PROVE  Fired'
  <2>1. cb' = [cb EXCEPT ![f].pc = "done", ![f].out = e]
    BY <1>6 DEF EndFire, Ended
  <2>2. /\ DOMAIN cb' = Fires /\ \A g \in Fires : g # f => cb'[g] = cb[g]
        /\ DOMAIN cb'[f] = DOMAIN cb[f] /\ cb'[f].entry = cb[f].entry
        /\ cb'[f].pc = "done" /\ cb'[f].since = cb[f].since /\ cb'[f].out = e
    BY <1>2, <2>1
  <2>3. cb'[f].out = "merged" => cb'[f].since
    BY <1>6, <2>2
  <2> QED BY <1>1, <1>6, <2>2, <2>3, GoesOn
<1>7. CASE fireMerged(f)
  <2>1. cb[f].pc = "enqueue" /\ cb[f].entry.sched \in active /\ EndFire(f, "merged")
        /\ active' = active
    BY <1>7 DEF fireMerged, tables
  <2> QED BY <1>2, <1>6, <2>1
<1>8. CASE fireQueued(f)
  <2> DEFINE s == cb[f].entry.sched
             C == Ended(f, "queued")
  <2>1. /\ cb[f].pc = "enqueue" /\ active' = active \cup {s} /\ cb' = RunBegins(C, s)
        /\ UNCHANGED <<rows, jobs, edits, failures>>
    BY <1>8 DEF fireQueued, fields, bounds
  <2>2. s \in Scheds
    BY <2>1 DEF Fired, Callback, Entry
  <2>3. DOMAIN C = Fires
    BY <1>2 DEF Ended
  <2>4. ASSUME NEW g \in Fires
        PROVE  Callback(C[g])
    <3>1. CASE g = f
      <4>1. DOMAIN C[f] = DOMAIN cb[f] /\ C[f].pc = "done" /\ C[f].out = "queued"
        BY <1>2 DEF Ended
      <4> QED BY <1>2, <3>1, <4>1 DEF Callback
    <3>2. CASE g # f
      BY <1>2, <3>2 DEF Ended, Fired
    <3> QED BY <3>1, <3>2
  <2> HIDE DEF s, C
  <2> QED BY <2>1, <2>2, <2>3, <2>4, RunIsNoted
<1>9. CASE fireDeleted(f)
  <2>1. cb[f].pc \in {"enqueue", "skip"} /\ rows[cb[f].entry.sched] = None /\ EndFire(f, "lost")
        /\ active' = active
    BY <1>9 DEF fireDeleted, tables
  <2>2. edits \in Nat /\ edits # 0
    BY <2>1 DEF Fired, Callback, Shape
  <2> QED BY <1>6, <2>1, <2>2
<1>10. CASE skip(f)
  <2>1. cb[f].pc = "skip" /\ EndFire(f, "skipped") /\ active' = active
    BY <1>10 DEF skip, tables
  <2> QED BY <1>6, <2>1
<1>11. CASE fireFails(f)
  <2>1. cb[f].pc \in {"check", "enqueue", "skip"} /\ failures' = failures + 1 /\ EndFire(f, "lost")
        /\ active' = active
    BY <1>11 DEF fireFails, tables
  <2>2. failures' > 0
    BY <2>1 DEF Shape
  <2> QED BY <1>6, <2>1, <2>2
<1> QED BY <1>4, <1>5, <1>7, <1>8, <1>9, <1>10, <1>11 DEF FireStep

(* Every step keeps the account of the firings. *)
LEMMA FiredStep ==
  ASSUME Shape, Counted, Instances, Fired, [Next]_vars
  PROVE  Fired'
<1>1. ASSUME cb' = cb, active' \subseteq active,
             \/ edits' = edits /\ rows' = rows
             \/ edits' > 0 /\ (edits > 0 \/ edits' = edits + 1),
             jobs'[0] = jobs[0], failures' \in {failures, failures + 1}
      PROVE  Fired'
  <2>1. edits \in Nat /\ failures \in Nat
    BY DEF Shape
  <2>2. /\ (edits > 0 => edits' > 0) /\ (failures > 0 => failures' > 0)
        /\ edits' = 0 => edits = 0 /\ rows' = rows
    BY <1>1, <2>1
  <2>3. ASSUME NEW f \in Fires
        PROVE  Callback(cb[f])'
    <3>1. Callback(cb[f]) /\ cb'[f] = cb[f]
      BY <1>1 DEF Fired
    <3> QED BY <1>1, <2>2, <3>1 DEF Callback
  <2> QED BY <1>1, <2>2, <2>3 DEF Fired
<1>2. ASSUME NEW f \in Fires, FireStep(f)
      PROVE  Fired'
  BY <1>2, FireKeepsFired
<1>3. ASSUME NEW f \in Fires, NEW k \in live, NEW i \in DOMAIN jobs[k], Tick(f, k, i)
      PROVE  Fired'
  <2>1. FireFrame /\ active' = active
    BY <1>3, OthersInFrame DEF Tick, tables
  <2>2. PICK c : c = [pc |-> "check", cron |-> k, entry |-> jobs[k][i], out |-> "none",
                      since |-> FALSE]
    OBVIOUS
  <2>3. DOMAIN cb' = Fires /\ cb'[f] = c /\ \A g \in Fires : g # f => cb'[g] = cb[g]
    BY <1>3, <2>2 DEF Tick, Fired
  <2>4. c.entry \in Entry
    BY <2>2 DEF Instances
  <2>5. edits = 0 => rows[c.entry.sched] # None
    BY <2>2, Unedited
  <2>6. DOMAIN c = {"pc", "cron", "entry", "out", "since"} /\ c.pc = "check"
    BY <2>2
  <2> QED BY <2>1, <2>3, <2>4, <2>5, <2>6, OneFires
<1>4. ASSUME NEW s \in Scheds, runSchedule(s) \/ runEnds(s)
      PROVE  Fired'
  <2>1. CASE runSchedule(s)
    <3>1. /\ cb' = RunBegins(cb, s) /\ active' = active \cup {s}
          /\ UNCHANGED <<rows, jobs, edits, failures>>
      BY <2>1 DEF runSchedule, fields, bounds
    <3>2. DOMAIN cb = Fires /\ \A g \in Fires : Callback(cb[g])
      BY DEF Fired
    <3> QED BY <3>1, <3>2, RunIsNoted
  <2>2. CASE runEnds(s)
    <3>1. cb' = cb /\ active' \subseteq active /\ UNCHANGED <<rows, jobs, edits, failures>>
      BY <2>2 DEF runEnds, fields, bounds
    <3> QED BY <1>1, <3>1
  <2> QED BY <1>4, <2>1, <2>2
<1>5. ASSUME NEW h \in Handlers, EditStep(h)
      PROVE  Fired'
  <2>1. cb' = cb /\ edits' = edits + 1 /\ jobs' = jobs /\ failures' = failures
        /\ active' \subseteq active
    BY <1>5 DEF EditStep, saveSchedule, deleteSchedule, deleteTarget, timezoneChanged, Edit,
                fields, tables
  <2>2. edits' > 0
    BY <2>1 DEF Shape
  <2> QED BY <1>1, <2>1, <2>2
<1>6. ASSUME NEW h \in Handlers, ReloadStep(h)
      PROVE  Fired'
  <2>1. cb' = cb /\ edits' = edits /\ rows' = rows /\ failures' \in {failures, failures + 1}
        /\ active' = active
    BY <1>6 DEF ReloadStep, ReloadLock, ListSchedules, ListFails, attachScheduleTargets,
                ReloadDiscard, ReloadSwap, ReloadStart, ReloadStopOld, tables, bounds
  <2>2. jobs'[0] = jobs[0]
    <3>1. CASE attachScheduleTargets(h)
      <4>1. 0 \in 0 .. made
        BY DEF Shape
      <4> QED BY <3>1, <4>1, Built
    <3>2. CASE ~attachScheduleTargets(h)
      BY <1>6, <3>2 DEF ReloadStep, ReloadLock, ListSchedules, ListFails, ReloadDiscard,
                        ReloadSwap, ReloadStart, ReloadStopOld, fields
    <3> QED BY <3>1, <3>2
  <2> QED BY <1>1, <2>1, <2>2
<1>7. ASSUME \/ \E h \in Handlers : NextEntry(h) \/ \E s \in Scheds : schedulerNext(h, s)
             \/ Stop \/ StopCron \/ StopReturns \/ StopTimesOut
             \/ UNCHANGED vars
      PROVE  Fired'
  <2>1. cb' = cb /\ edits' = edits /\ rows' = rows /\ jobs' = jobs /\ failures' = failures
        /\ active' = active
    BY <1>7 DEF NextEntry, schedulerNext, Stop, StopCron, StopReturns, StopTimesOut, vars,
                tables, fields, bounds
  <2> QED BY <1>1, <2>1
<1> QED BY <1>2, <1>3, <1>4, <1>5, <1>6, <1>7 DEF Next

(***************************************************************************)
(* The entries are what the store asks for                                 *)
(***************************************************************************)

(* Quiet steps that leave the store alone leave what Current says. *)
LEMMA CurrentQuiet ==
  ASSUME Shape, Current, QuietFrame, UNCHANGED <<rows, schedTgts, targets>>,
         \A q \in Handlers : pc'[q] # "lock" \/ pc[q] = "lock",
         failures' = 0 => failures = 0
  PROVE  Current'
<1>1. /\ \A q \in Handlers :
           pc'[q] # pc[q] => /\ pc[q] \notin InReload /\ pc'[q] \notin InReload
                             /\ pc[q] # "lock"
      /\ UNCHANGED <<cron, stopped, jobs, made, list>>
  BY QuietPlaces
<1>2. \A q \in Handlers : \A l \in {"lock", "rows", "targets", "swap"} : pc'[q] = l <=> pc[q] = l
  BY <1>1 DEF InReload
<1>3. /\ Matches(jobs[made])' <=> Matches(jobs[made])
      /\ Matches(jobs[cron])' <=> Matches(jobs[cron])
  BY <1>1 DEF Matches, Asked
<1> QED BY <1>1, <1>2, <1>3 DEF Current

(* What a Reload builds from the rows and targets of the store matches it. *)
LEMMA BuiltMatches ==
  ASSUME Shape, NEW J, J = EntriesOf(rows, schedTgts)
  PROVE  Matches(J)
<1>1. rows \in [Scheds -> Row \cup {None}] /\ schedTgts \in [Scheds -> SUBSET Targets]
      /\ \A s \in Scheds : schedTgts[s] \subseteq targets
  BY DEF Shape
<1>2. /\ \A n \in DOMAIN J :
           /\ J[n] \in Entry
           /\ Schedulable(rows[J[n].sched], schedTgts[J[n].sched])
           /\ J[n].row = rows[J[n].sched] /\ J[n].targets = schedTgts[J[n].sched]
      /\ \A s \in Scheds : Schedulable(rows[s], schedTgts[s])
           => \E n \in DOMAIN J : J[n].sched = s
  BY <1>1, EntriesExact
<1>3. ASSUME NEW n \in DOMAIN J
      PROVE  /\ J[n].sched \in Scheds /\ Asked(J[n].sched)
             /\ J[n].row = rows[J[n].sched]
             /\ J[n].targets \cap targets = schedTgts[J[n].sched]
  <2>1. J[n].sched \in Scheds
    BY <1>2 DEF Entry
  <2> QED BY <1>1, <1>2, <2>1 DEF Schedulable, Asked
<1>4. \A s \in Scheds : Asked(s) /\ schedTgts[s] # {} => \E n \in DOMAIN J : J[n].sched = s
  BY <1>2 DEF Schedulable, Asked
<1> QED BY <1>3, <1>4 DEF Matches

(* Deleting a target takes it out of both sides. *)
LEMMA DeletedMatches ==
  ASSUME Shape, NEW h \in Handlers, NEW t \in Targets, deleteTarget(h, t), NEW J, Matches(J)
  PROVE  Matches(J)'
<1>1. rows' = rows /\ targets' = targets \ {t}
      /\ \A s \in Scheds : schedTgts'[s] = schedTgts[s] \ {t}
  BY DEF deleteTarget
<1>2. ASSUME NEW i \in DOMAIN J
      PROVE  /\ J[i].sched \in Scheds /\ Asked(J[i].sched)'
             /\ J[i].row = rows'[J[i].sched]
             /\ J[i].targets \cap targets' = schedTgts'[J[i].sched]
  BY <1>1 DEF Matches, Asked
<1>3. \A s \in Scheds : Asked(s)' /\ schedTgts'[s] # {} => \E i \in DOMAIN J : J[i].sched = s
  BY <1>1 DEF Matches, Asked
<1> QED BY <1>2, <1>3 DEF Matches

(* Every step keeps the installed schedule current with the tables, or a Reload on its
   way. *)
LEMMA CurrentStep ==
  ASSUME Shape, Mutex, Counted, Instances, Kept, Fired, Current, [Next]_vars
  PROVE  Current'
<1>1. CASE FireFrame
  <2>1. QuietFrame /\ UNCHANGED <<rows, schedTgts, targets>> /\ pc' = pc
        /\ failures' \in {failures, failures + 1}
    BY <1>1 DEF QuietFrame, FireFrame, fields, locals
  <2>2. failures' = 0 => failures = 0
    BY <2>1 DEF Shape
  <2> QED BY <2>1, <2>2, CurrentQuiet
<1>2. ASSUME NEW h \in Handlers, NextEntry(h) \/ \E s \in Scheds : schedulerNext(h, s)
      PROVE  Current'
  <2>1. QuietFrame
    BY <1>2, Quiet
  <2>2. UNCHANGED <<rows, schedTgts, targets>> /\ failures' = failures
        /\ \E l \in {"idle", "entry"} : Goto(h, l)
    BY <1>2 DEF NextEntry, schedulerNext, tables, bounds
  <2>3. \A q \in Handlers : pc'[q] # "lock" \/ pc[q] = "lock"
    BY <2>2, Moves
  <2> QED BY <2>1, <2>2, <2>3, CurrentQuiet
<1>3. CASE Stop \/ StopCron \/ StopReturns \/ StopTimesOut
  <2>1. stopped'
    BY <1>3 DEF Stop, StopCron, StopReturns, StopTimesOut, Shape, fields
  <2> QED BY <2>1 DEF Current
<1>4. ASSUME NEW h \in Handlers, EditStep(h)
      PROVE  Current'
  <2>1. CASE \E t \in Targets : deleteTarget(h, t)
    <3>1. PICK t \in Targets : deleteTarget(h, t)
      BY <2>1
    <3>2. UNCHANGED <<rows, pc, list, made, cron, jobs, stopped, failures>>
      BY <3>1 DEF deleteTarget, fields, locals
    <3>3. PICK A, B : A = jobs[made] /\ B = jobs[cron]
      OBVIOUS
    <3>4. (Matches(A) => Matches(A)') /\ (Matches(B) => Matches(B)')
      BY <3>1, DeletedMatches
    <3>5. /\ Matches(jobs[made]) => Matches(jobs[made])'
          /\ Matches(jobs[cron]) => Matches(jobs[cron])'
      BY <3>2, <3>3, <3>4 DEF Matches, Asked
    <3> QED BY <3>2, <3>5 DEF Current
  <2>2. CASE ~\E t \in Targets : deleteTarget(h, t)
    <3>1. Goto(h, "lock")
      BY <1>4, <2>2 DEF EditStep, saveSchedule, deleteSchedule, timezoneChanged
    <3>2. pc'[h] = "lock"
      BY <3>1, Moves
    <3> QED BY <3>2 DEF Current
  <2> QED BY <2>1, <2>2
<1>5. ASSUME NEW h \in Handlers, ReloadStep(h),
             ~stopped', failures' = 0, \A q \in Handlers : pc'[q] \notin {"lock", "rows"}
      PROVE  Current'
  <2>1. \A q \in Handlers : q # h => (pc[q] \notin InReload \/ pc[h] \notin InReload)
    BY DEF Mutex
  <2>2. stopped' = stopped /\ ~stopped /\ UNCHANGED <<rows, schedTgts, targets>>
    BY <1>5 DEF ReloadStep, ReloadLock, ListSchedules, ListFails, attachScheduleTargets,
                ReloadDiscard, ReloadSwap, ReloadStart, ReloadStopOld, fields, tables
  <2>3. CASE ReloadLock(h)
    <3>1. pc'[h] = "rows"
      BY <2>3, Moves DEF ReloadLock
    <3> QED BY <1>5, <3>1
  <2>4. CASE ListFails(h)
    <3>1. failures' = failures + 1
      BY <2>4 DEF ListFails
    <3> QED BY <1>5, <3>1 DEF Shape
  <2>5. CASE ReloadDiscard(h)
    BY <2>2, <2>5 DEF ReloadDiscard
  <2>6. CASE ListSchedules(h)
    <3>1. pc'[h] = "targets" /\ list'[h] = rows /\ pc[h] = "rows"
          /\ \A q \in Handlers : q # h => pc'[q] = pc[q]
      BY <2>6 DEF ListSchedules, Goto, Shape
    <3>2. \A q \in Handlers : q # h => pc'[q] \notin InReload
      BY <2>1, <3>1 DEF InReload
    <3> QED BY <2>2, <3>1, <3>2 DEF Current, InReload
  <2>7. CASE attachScheduleTargets(h)
    <3>1. /\ pc'[h] = "swap" /\ pc[h] = "targets" /\ failures' = failures
          /\ jobs'[made'] = EntriesOf(list[h], schedTgts)
          /\ \A q \in Handlers : q # h => pc'[q] = pc[q]
      BY <2>7, Built DEF attachScheduleTargets, bounds
    <3>2. \A q \in Handlers : pc[q] \notin {"lock", "rows"}
      BY <1>5, <3>1
    <3>3. list[h] = rows
      BY <1>5, <2>2, <3>1, <3>2 DEF Current
    <3>4. PICK J : J = jobs'[made']
      OBVIOUS
    <3>5. Matches(J)
      BY <3>1, <3>3, <3>4, BuiltMatches
    <3>6. Matches(jobs[made])'
      BY <2>2, <3>4, <3>5 DEF Matches, Asked
    <3>7. \A q \in Handlers : pc'[q] # "targets"
      BY <2>1, <3>1 DEF InReload
    <3> QED BY <3>1, <3>6, <3>7 DEF Current
  <2>8. CASE ReloadSwap(h)
    <3>1. /\ pc'[h] = "start" /\ pc[h] = "swap" /\ failures' = failures
          /\ cron' = list[h] /\ jobs' = jobs
          /\ \A q \in Handlers : q # h => pc'[q] = pc[q]
      BY <2>8 DEF ReloadSwap, Goto, Shape, bounds
    <3>2. \A q \in Handlers : pc[q] \notin {"lock", "rows"}
      BY <1>5, <3>1
    <3>3. cron' = made
      BY <3>1 DEF Instances
    <3>4. Matches(jobs[made])
      BY <1>5, <2>2, <3>1, <3>2 DEF Current
    <3>5. PICK J : J = jobs[made]
      OBVIOUS
    <3>6. Matches(J) /\ jobs'[cron'] = J
      BY <3>1, <3>3, <3>4, <3>5
    <3>7. Matches(jobs[cron])'
      BY <2>2, <3>6 DEF Matches, Asked
    <3>8. \A q \in Handlers : pc'[q] \notin {"targets", "swap"}
      BY <2>1, <3>1 DEF InReload
    <3> QED BY <3>7, <3>8 DEF Current
  <2>9. CASE ReloadStart(h) \/ ReloadStopOld(h)
    <3>1. /\ pc'[h] \in {"stopOld", "idle"} /\ pc[h] \in {"start", "stopOld"}
          /\ failures' = failures /\ cron' = cron /\ jobs' = jobs
          /\ \A q \in Handlers : q # h => pc'[q] = pc[q]
      BY <2>9 DEF ReloadStart, ReloadStopOld, Goto, Shape, bounds
    <3>2. \A q \in Handlers : pc[q] \notin {"lock", "rows"}
      BY <1>5, <3>1
    <3>3. \A q \in Handlers : pc[q] \notin {"targets", "swap"} /\ pc'[q] \notin {"targets", "swap"}
      BY <2>1, <3>1 DEF InReload
    <3>4. Matches(jobs[cron])
      BY <1>5, <2>2, <3>1, <3>2, <3>3 DEF Current
    <3>5. Matches(jobs[cron])'
      BY <2>2, <3>1, <3>4 DEF Matches, Asked
    <3> QED BY <3>3, <3>5 DEF Current
  <2> QED BY <1>5, <2>3, <2>4, <2>5, <2>6, <2>7, <2>8, <2>9 DEF ReloadStep
<1>6. \/ stopped' \/ failures' # 0 \/ \E q \in Handlers : pc'[q] \in {"lock", "rows"}
      => Current'
  BY DEF Current
<1> QED BY <1>1, <1>2, <1>3, <1>4, <1>5, <1>6, Steps

(***************************************************************************)
(* The theorems                                                            *)
(***************************************************************************)

(* The invariant is inductive. *)
LEMMA SchedInvariant == Spec => []SchedInv
<1>1. Init => SchedInv
  BY SchedStarts
<1>2. SchedInv /\ [Next]_vars => SchedInv'
  <2> SUFFICES ASSUME SchedInv, [Next]_vars
               PROVE  SchedInv'
    OBVIOUS
  <2>1. /\ Shape /\ Mutex /\ Counted /\ Instances
        /\ NextIsOwn /\ Kept /\ Fired /\ Current
    BY DEF SchedInv
  <2>2. Shape' /\ Mutex' /\ Counted' /\ Instances'
    BY <2>1, ShapeStep, MutexStep, CountedStep, InstancesStep
  <2>3. NextIsOwn' /\ Kept' /\ Fired' /\ Current'
    BY <2>1, OwnStep, KeptStep, FiredStep, CurrentStep
  <2> QED BY <2>2, <2>3 DEF SchedInv
<1> QED BY <1>1, <1>2, PTL DEF Spec

(* Every variable of the scheduler keeps its shape, and reloadMu is held   *)
(* only by a handler that is inside Reload. *)
THEOREM SchedulerTypes == Spec => []TypeOK
<1>1. SchedInv => TypeOK
  <2> SUFFICES ASSUME SchedInv
               PROVE  TypeOK
    OBVIOUS
  <2>1. /\ reloadMu \in Handlers \cup {None}
        /\ reloadMu # None => pc[reloadMu] \in {"rows", "targets", "swap", "start", "stopOld"}
    BY DEF SchedInv, Mutex, InReload
  <2>2. cron \in 0 .. made \cup {None} /\ live \subseteq 0 .. made /\ DOMAIN entries \subseteq Scheds
    BY DEF SchedInv, Instances, Shape
  <2> QED BY <2>1, <2>2 DEF SchedInv, Shape, TypeOK
<1> QED BY <1>1, SchedInvariant, PTL

(* While the scheduler is not stopped, Reload leaks no cron instance and   *)
(* leaves none of them unstarted. *)
THEOREM NoInstanceLeaks == Spec => []NoLeak
<1>1. SchedInv => NoLeak
  BY DEF SchedInv, Kept, NoLeak
<1> QED BY <1>1, SchedInvariant, PTL

(* Next answers for the schedule it was asked about, whatever Reload swaps *)
(* between its two reads. *)
THEOREM NextAnswersForItsOwn == Spec => []NextIsOwn
<1>1. SchedInv => NextIsOwn
  BY DEF SchedInv
<1> QED BY <1>1, SchedInvariant, PTL

(* A fire leaves no row of its own only when a run of its schedule began   *)
(* between its check and its Enqueue, or a store call failed, or an edit   *)
(* deleted the schedule: a run that was there at the check never absorbs   *)
(* it.  The invariant behind it: between check and Enqueue, a run that is  *)
(* in flight began after the check. *)
THEOREM FiresAreAnswered == Spec => []FireIsAnswered
<1>1. SchedInv => FireIsAnswered
  BY DEF SchedInv, Fired, Callback, FireIsAnswered
<1> QED BY <1>1, SchedInvariant, PTL

(* Once edits and Reloads are over, exactly s.cron runs and its entries    *)
(* are the schedules the store has. *)
THEOREM ScheduleMatchesStore == Spec => []SettledMatchesStore
<1>1. SchedInv => SettledMatchesStore
  <2> SUFFICES ASSUME SchedInv, Settled
               PROVE  /\ live = {cron}
                      /\ \A s \in Scheds :
                           LET E == {i \in DOMAIN jobs[cron] : jobs[cron][i].sched = s}
                           IN  /\ rows[s] = None \/ ~rows[s].enabled \/ rows[s].spec = BadSpec
                                     => E = {}
                               /\ rows[s] # None /\ rows[s].enabled /\ rows[s].spec # BadSpec
                                    /\ schedTgts[s] # {} => E # {}
                               /\ \A i \in E :
                                    /\ jobs[cron][i].row = rows[s]
                                    /\ jobs[cron][i].targets \cap targets = schedTgts[s]
    BY DEF SettledMatchesStore
  <2>1. ~stopped /\ failures = 0
        /\ \A h \in Handlers : pc[h] \notin {"lock", "rows", "targets", "swap", "start", "stopOld"}
    BY DEF Settled, Reloading
  <2>2. live = {cron}
    BY <2>1 DEF SchedInv, Kept
  <2>3. PICK J : J = jobs[cron]
    OBVIOUS
  <2>4. Matches(J)
    BY <2>1, <2>3 DEF SchedInv, Current
  <2>5. ASSUME NEW s \in Scheds
        PROVE  /\ ~Asked(s) => {i \in DOMAIN J : J[i].sched = s} = {}
               /\ Asked(s) /\ schedTgts[s] # {} => {i \in DOMAIN J : J[i].sched = s} # {}
               /\ \A i \in {n \in DOMAIN J : J[n].sched = s} :
                    /\ J[i].row = rows[s] /\ J[i].targets \cap targets = schedTgts[s]
    BY <2>4 DEF Matches
  <2> QED BY <2>2, <2>3, <2>5 DEF Asked
<1> QED BY <1>1, SchedInvariant, PTL
=============================================================================
