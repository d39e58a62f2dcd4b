---------------------------- MODULE StoreProofs ----------------------------
(* Proofs about the jobs and handlers that keep the tables, and about the   *)
(* two algorithms over times: retention, the iperf3 list, sessions, token   *)
(* touches, access settings, targets with their history, overlaps and       *)
(* outages, for every number of rows, clients, targets and times.           *)
EXTENDS MCServices, FiniteSetTheorems, SequenceTheorems, TLAPS

(***************************************************************************)
(* Prune and Iperf3List: the retention job and the list of servers.        *)
(***************************************************************************)

(***************************************************************************)
(* Prune                                                                   *)
(***************************************************************************)

PrCuts == {"results", "runs", "now"}

(* Rows and cutoffs are times that have been. *)
PrTimes ==
  /\ prDay \in Nat
  /\ DOMAIN prRun = PrRuns /\ DOMAIN prResult = PrResults
  /\ \A x \in PrResults : prResult[x] # PrGone => prResult[x] \in Nat
  /\ \A r \in PrRuns : prRun[r] # PrGone => prRun[r].end \in Nat
  /\ prCut.results # PrGone => prCut.results \in Int /\ prCut.results <= prDay
  /\ prCut.runs # PrGone => prCut.runs \in Int /\ prCut.runs <= prDay
  /\ prClean.results # PrGone => prClean.results \in Int /\ prClean.results <= prDay
  /\ prClean.runs # PrGone => prClean.runs \in Int /\ prClean.runs <= prDay
  /\ prConf \in [results : PrDays, runs : PrDays]

(* While a pass runs the last one is forgotten. *)
PrPhases ==
  /\ prPc \in {"idle", "results", "runs", "sessions"}
  /\ prPc # "idle" => prClean = PrNoCut

(* Nothing is left that a cutoff says should have gone. *)
PrNoResultsBefore(cut) ==
  \A x \in PrResults : prResult[x] # PrGone /\ cut # PrGone => prResult[x] >= cut
PrNoRunsBefore(cut) ==
  \A r \in PrRuns :
    prRun[r] # PrGone /\ cut # PrGone
    /\ prRun[r].status \in PrEnded /\ ~PrHasResults(r) => prRun[r].end >= cut

PrInv ==
  /\ PrTimes /\ PrPhases
  /\ PrNoResultsBefore(prClean.results) /\ PrNoRunsBefore(prClean.runs)
  /\ prPc \in {"runs", "sessions"} /\ ~prFailed => PrNoResultsBefore(prCut.results)
  /\ prPc = "sessions" /\ ~prFailed => PrNoRunsBefore(prCut.runs)

(* Rows that appear or end are no older than any cutoff. *)
LEMMA PrRowsAppear ==
  ASSUME PrInv, NEW r \in PrRuns, PrRunStep(r)
  PROVE  PrInv'
<1>0. PrResultOf[r] \subseteq PrResults
  BY DEF PrResults
<1>1. /\ UNCHANGED <<prDay, prConf, prPc, prCut, prFailed, prClean>>
      /\ DOMAIN prRun' = PrRuns /\ DOMAIN prResult' = PrResults
  BY DEF PrRunStep, PrInv, PrTimes, prJob
<1>2. \A x \in PrResults : \/ prResult'[x] = prResult[x]
                           \/ prResult[x] = PrGone /\ prResult'[x] = prDay
  BY DEF PrRunStep, PrInv, PrTimes
<1>3. \A s \in PrRuns : \/ prRun'[s] = prRun[s]
                        \/ prRun'[s].end = prDay
  BY DEF PrRunStep, PrInv, PrTimes
<1>4. PrTimes' /\ PrPhases'
  BY <1>1, <1>2, <1>3 DEF PrInv, PrTimes, PrPhases
<1>5. ASSUME NEW cut, cut # PrGone => cut \in Int /\ cut <= prDay, PrNoResultsBefore(cut)
      PROVE  PrNoResultsBefore(cut)'
  BY <1>1, <1>2, <1>5 DEF PrInv, PrTimes, PrNoResultsBefore
<1>6. ASSUME NEW s \in PrRuns, PrHasResults(s) PROVE PrHasResults(s)'
  <2>1. PrResultOf[s] \subseteq PrResults
    BY DEF PrResults
  <2>2. PICK x \in PrResultOf[s] : prResult[x] # PrGone
    BY <1>6 DEF PrHasResults
  <2>3. prResult'[x] # PrGone
    BY <1>2, <2>1, <2>2
  <2> QED BY <2>3 DEF PrHasResults
<1>7. ASSUME NEW cut, cut # PrGone => cut \in Int /\ cut <= prDay, PrNoRunsBefore(cut)
      PROVE  PrNoRunsBefore(cut)'
  <2> SUFFICES ASSUME NEW s \in PrRuns, prRun'[s] # PrGone, cut # PrGone,
                      prRun'[s].status \in PrEnded, ~PrHasResults(s)'
               PROVE  prRun'[s].end >= cut
    BY DEF PrNoRunsBefore
  <2>1. CASE prRun'[s].end = prDay
    BY <1>7, <2>1 DEF PrInv, PrTimes
  <2>2. CASE prRun'[s] = prRun[s]
    BY <1>6, <1>7, <2>2 DEF PrNoRunsBefore
  <2> QED BY <1>3, <2>1, <2>2
<1> QED BY <1>1, <1>4, <1>5, <1>7 DEF PrInv, PrTimes

(* A batch that is empty says that nothing qualifies. *)
LEMMA PrEmptyBatch ==
  ASSUME NEW rows, NEW b \in PrBatches(rows)
  PROVE  b \subseteq rows /\ (b = {} => rows = {})
<1>1. b \subseteq rows /\ (Cardinality(b) < PrBatch => b = rows)
  BY DEF PrBatches
<1>2. ASSUME b = {} PROVE rows = {}
  BY <1>1, <1>2, FS_EmptySet, PrBounds
<1> QED BY <1>1, <1>2

(* A batch of deleted results keeps the invariant; the last, empty one     *)
(* ends the phase with nothing left before the cutoff.                     *)
LEMMA PrDeletesResults ==
  ASSUME PrInv, PrResultsBatch
  PROVE  PrInv'
<1>1. PICK b \in PrBatches(PrOldResults) :
        /\ prResult' = [x \in PrResults |-> IF x \in b THEN PrGone ELSE prResult[x]]
        /\ prPc' = IF PrDrained(b) THEN "runs" ELSE "results"
  BY DEF PrResultsBatch
<1>2. b \subseteq PrOldResults /\ (b = {} => PrOldResults = {})
  BY PrEmptyBatch
<1>3. /\ prPc = "results" /\ prClean = PrNoCut
      /\ UNCHANGED <<prDay, prConf, prRun, prSession, prCut, prFailed, prClean>>
  BY DEF PrResultsBatch, prAround, PrInv, PrPhases
<1>4. PrTimes' /\ PrPhases'
  BY <1>1, <1>3 DEF PrInv, PrTimes, PrPhases
<1>5. prPc' = "runs" => PrNoResultsBefore(prCut.results)'
  <2> SUFFICES ASSUME prPc' = "runs", NEW x \in PrResults, prResult'[x] # PrGone,
                      prCut.results # PrGone
               PROVE  prResult'[x] >= prCut.results
    BY <1>3 DEF PrNoResultsBefore
  <2>1. b = {}
    BY <1>1 DEF PrDrained
  <2>2. x \notin PrOldResults /\ prResult'[x] = prResult[x]
    BY <1>1, <1>2, <2>1
  <2> QED BY <2>2 DEF PrOldResults, PrInv, PrTimes
<1> QED BY <1>1, <1>3, <1>4, <1>5 DEF PrInv, PrNoCut, PrNoResultsBefore, PrNoRunsBefore

(* The deletion of a run takes no result along: it had none. *)
LEMMA PrRunsTakeNothing ==
  ASSUME DOMAIN prResult = PrResults, PrRunsBatch
  PROVE  \A x \in PrResults : prResult'[x] = prResult[x]
BY PrEmptyBatch DEF PrRunsBatch, PrOldRuns, PrHasResults

(* The same of a batch of deleted runs.                                    *)
LEMMA PrDeletesRuns ==
  ASSUME PrInv, PrRunsBatch
  PROVE  PrInv'
<1>1. PICK b \in PrBatches(PrOldRuns) :
        /\ prRun' = [r \in PrRuns |-> IF r \in b THEN PrGone ELSE prRun[r]]
        /\ DOMAIN prResult' = PrResults
        /\ prPc' = IF b = {} THEN "sessions" ELSE "runs"
  BY DEF PrRunsBatch
<1>2. b \subseteq PrOldRuns /\ (b = {} => PrOldRuns = {})
  BY PrEmptyBatch
<1>3. /\ prPc = "runs" /\ prClean = PrNoCut
      /\ UNCHANGED <<prDay, prConf, prSession, prCut, prFailed, prClean>>
  BY DEF PrRunsBatch, prAround, PrInv, PrPhases
<1>4. \A x \in PrResults : prResult'[x] = prResult[x]
  BY PrRunsTakeNothing DEF PrInv, PrTimes
<1>5. PrTimes' /\ PrPhases'
  BY <1>1, <1>3, <1>4 DEF PrInv, PrTimes, PrPhases
<1>6. \A cut : PrNoResultsBefore(cut) => PrNoResultsBefore(cut)'
  BY <1>4 DEF PrNoResultsBefore
<1>7. \A r \in PrRuns : PrHasResults(r)' <=> PrHasResults(r)
  BY <1>4 DEF PrHasResults, PrResults
<1>8. prPc' = "sessions" => PrNoRunsBefore(prCut.runs)'
  <2> SUFFICES ASSUME prPc' = "sessions", NEW r \in PrRuns, prRun'[r] # PrGone,
                      prCut.runs # PrGone, prRun'[r].status \in PrEnded, ~PrHasResults(r)'
               PROVE  prRun'[r].end >= prCut.runs
    BY <1>3 DEF PrNoRunsBefore
  <2>1. b = {}
    BY <1>1
  <2>2. r \notin PrOldRuns /\ prRun'[r] = prRun[r]
    BY <1>1, <1>2, <2>1
  <2> QED BY <1>7, <2>2 DEF PrOldRuns, PrInv, PrTimes
<1> QED BY <1>1, <1>3, <1>5, <1>6, <1>8 DEF PrInv, PrNoCut, PrNoResultsBefore, PrNoRunsBefore

(* Every step of the retention job, of the runs that end meanwhile and of  *)
(* the clock keeps the invariant.                                          *)
LEMMA PrInductive ==
  /\ PrInit => PrInv
  /\ PrInv /\ [PrNext]_prVars => PrInv'
<1>1. PrInit => PrInv
  BY DEF PrInit, PrInv, PrTimes, PrPhases, PrNoResultsBefore, PrNoRunsBefore, PrNoCut
<1>2. ASSUME PrInv, [PrNext]_prVars PROVE PrInv'
  <2> USE <1>2 DEF PrInv
  <2>1. CASE UNCHANGED prVars
    BY <2>1 DEF prVars, PrTimes, PrPhases, PrNoResultsBefore, PrNoRunsBefore, PrHasResults
  <2>2. ASSUME NEW r \in PrRuns, PrRunStep(r) PROVE PrInv'
    BY <2>2, PrRowsAppear
  <2>3. CASE PrPass
    <3>1. CASE PrSessions
      BY <3>1 DEF PrSessions, PrEnd, prAround, PrTimes, PrPhases, PrNoResultsBefore,
         PrNoRunsBefore, PrHasResults, PrNoCut
    <3> QED BY <2>3, <3>1, PrDeletesResults, PrDeletesRuns DEF PrPass
  <2>4. CASE PrError
    BY <2>4 DEF PrError, PrEnd, prAround, PrTimes, PrPhases, PrNoResultsBefore,
       PrNoRunsBefore, PrHasResults, PrNoCut
  <2>5. CASE PrBegin
    <3>1. prConf.results \in Nat /\ prConf.runs \in Nat
      BY PrBounds DEF PrTimes
    <3> QED BY <2>5, <3>1 DEF PrBegin, PrCutoff, prAround, PrTimes, PrPhases,
            PrNoResultsBefore, PrNoRunsBefore, PrHasResults, PrNoCut
  <2>6. CASE PrNewDay
    BY <2>6 DEF PrNewDay, prJob, PrTimes, PrPhases, PrNoResultsBefore, PrNoRunsBefore,
       PrHasResults
  <2>7. ASSUME NEW c \in [results : PrDays, runs : PrDays], PrConfigure(c) PROVE PrInv'
    BY <2>7 DEF PrConfigure, prJob, PrTimes, PrPhases, PrNoResultsBefore, PrNoRunsBefore,
       PrHasResults
  <2> QED BY <2>1, <2>2, <2>3, <2>4, <2>5, <2>6, <2>7 DEF PrNext
<1> QED BY <1>1, <1>2

(* The invariant holds what a clean pass promises.                         *)
LEMMA PrComplete == PrInv => PrPassComplete
BY DEF PrInv, PrNoResultsBefore, PrNoRunsBefore, PrPassComplete

(* A result goes only in the batch that its own retention calls for: no    *)
(* run takes its results along, since a run that goes has none left.       *)
LEMMA PrKeepsResults ==
  ASSUME PrInv, [PrNext]_prVars
  PROVE  PrResultsKept
<1> SUFFICES ASSUME NEW x \in PrResults, prResult[x] # PrGone, prResult'[x] = PrGone
             PROVE  prCut.results # PrGone /\ prResult[x] < prCut.results
  BY DEF PrResultsKept
<1>0. DOMAIN prResult = PrResults
  BY DEF PrInv, PrTimes
<1>1. ~UNCHANGED prResult
  OBVIOUS
<1>2. ASSUME NEW r \in PrRuns, PrRunStep(r) PROVE FALSE
  BY <1>0, <1>2 DEF PrRunStep
<1>3. ~PrRunsBatch
  BY <1>0, PrRunsTakeNothing
<1>4. PrResultsBatch
  BY <1>1, <1>2, <1>3 DEF PrNext, PrPass, PrNewDay, PrBegin, PrError, PrConfigure, PrSessions,
     prVars
<1> QED BY <1>4, PrEmptyBatch DEF PrResultsBatch, PrOldResults

(***************************************************************************)
(* Iperf3List                                                              *)
(***************************************************************************)

(* What is about to be stored was read from a feed. *)
I3Inv ==
  /\ i3Url \in I3Urls \cup {I3NoUrl}
  /\ DOMAIN i3Pc = I3Procs /\ DOMAIN i3Reading = I3Procs
  /\ \A p \in I3Procs : i3Pc[p] \in {"fetch", "replace"} => i3Reading[p] \in I3Urls

(* Whoever is about to replace the list has read it from a feed that is    *)
(* configured or was.                                                      *)
LEMMA I3Inductive ==
  /\ I3Init => I3Inv
  /\ I3Inv /\ [I3Next]_i3Vars => I3Inv'
<1>1. I3Init => I3Inv
  BY DEF I3Init, I3Inv, I3Procs
<1>2. ASSUME I3Inv, [I3Next]_i3Vars PROVE I3Inv'
  <2> USE <1>2 DEF I3Inv, I3Procs
  <2>1. CASE UNCHANGED i3Vars
    BY <2>1 DEF i3Vars
  <2>2. ASSUME NEW u \in I3Urls \cup {I3NoUrl}, I3SetUrl(u) PROVE I3Inv'
    BY <2>2 DEF I3SetUrl
  <2>3. CASE I3Notify \/ I3NotifyFails \/ I3Shutdown
    BY <2>3 DEF I3Notify, I3NotifyFails, I3Shutdown, i3History
  <2>4. CASE I3Start \/ I3Tick \/ I3TakeKick \/ I3Leave \/ I3Call
    BY <2>4 DEF I3Start, I3Tick, I3TakeKick, I3Leave, I3Call, I3Go, i3Setting, i3History
  <2>5. ASSUME NEW p \in I3Procs, I3Refresh(p) PROVE I3Inv'
    <3>1. CASE I3Read(p)
      BY <3>1 DEF I3Read, I3Return, I3Go, i3Setting
    <3>2. CASE I3ReadFails(p)
      BY <3>2 DEF I3ReadFails, I3Return, I3Go, i3Setting
    <3>3. ASSUME NEW rows \in {"some", "empty", "error"}, I3Fetched(p, rows) PROVE I3Inv'
      BY <3>3 DEF I3Fetched, I3Worth, I3Return, I3Go, i3Setting, i3History
    <3>4. ASSUME NEW ok \in BOOLEAN, I3Replace(p, ok) PROVE I3Inv'
      BY <3>4 DEF I3Replace, I3Return, I3Go, i3Setting, i3History
    <3> QED BY <2>5, <3>1, <3>2, <3>3, <3>4 DEF I3Refresh
  <2> QED BY <2>1, <2>2, <2>3, <2>4, <2>5 DEF I3Next
<1> QED BY <1>1, <1>2

(* No step empties the table: what replaces a list is a list. *)
LEMMA I3KeepsList ==
  ASSUME I3Inv, [I3Next]_i3Vars
  PROVE  I3NeverWiped
<1> SUFFICES ASSUME i3List # I3NoList, i3List' = I3NoList PROVE FALSE
  BY DEF I3NeverWiped
<1>1. PICK p \in I3Procs : \E ok \in BOOLEAN : I3Replace(p, ok)
  BY DEF I3Next, i3Vars, i3Setting, I3SetUrl, I3Notify, I3NotifyFails, I3Start, I3Tick,
     I3TakeKick, I3Shutdown, I3Leave, I3Call, I3Refresh, I3Read, I3ReadFails, I3Fetched
<1> QED BY <1>1, I3Bounds DEF I3Replace, I3Inv

(***************************************************************************)
(* Sessions: what a change of the auth settings ends.                      *)
(***************************************************************************)

(* The configurations that are held somewhere, and the rows. *)
SnShape ==
  /\ snNow \in Nat /\ snStored \in SnConfs /\ snPurges \in Nat /\ snBuilds \in Nat
  /\ snFaults \in Nat /\ snProv \in SnConfs \cup {SnNone} /\ snRead \in SnConfs \cup {SnNone}
  /\ snAt \in {"idle", "purged", "build"} /\ (snAt = "build" => snRead \in SnConfs)
  /\ DOMAIN snCall = SnBrowsers /\ DOMAIN snCookie = SnBrowsers /\ DOMAIN snRows = SnIds
  /\ \A b \in SnBrowsers : /\ snCall[b] \in [conf : SnConfs, builds : Nat] \cup {SnNone}
                           /\ snCookie[b] \in SnIds \cup {SnNone}
  /\ \A i \in SnIds : snRows[i] # SnNone =>
       /\ DOMAIN snRows[i] = {"by", "conf", "exp", "purges", "builds"}
       /\ snRows[i].by \in SnBrowsers /\ snRows[i].exp \in Nat /\ snRows[i].builds \in Nat

(* A cookie names no session of somebody else: an id is not given again    *)
(* while a browser still sends it.                                         *)
SnOwnCookies ==
  \A b \in SnBrowsers : snCookie[b] # SnNone /\ snRows[snCookie[b]] # SnNone =>
     snRows[snCookie[b]].by = b

(* What is in the table was written after the last deletion. *)
SnSwept == \A i \in SnIds : snRows[i] # SnNone => snRows[i].purges = snPurges

(* A provider that was loaded since the last replacement is still the one. *)
SnLoaded(x) == x.builds <= snBuilds /\ (x.builds = snBuilds => x.conf = snProv)

SnLoads ==
  /\ \A b \in SnBrowsers : snCall[b] # SnNone => SnLoaded(snCall[b])
  /\ \A i \in SnIds : snRows[i] # SnNone => SnLoaded(snRows[i])
  /\ \A b \in SnBrowsers : snCall[b] # SnNone => snCall[b].conf # SnNone
  /\ \A i \in SnIds : snRows[i] # SnNone => snRows[i].conf # SnNone

(* Between two changes of the settings the watcher and the provider follow *)
(* them, as long as no query fails.                                        *)
SnFollows ==
  snFaults = 0 /\ ~snDue =>
    /\ snAt = "build" => snRead = snStored
    /\ snAt = "idle" => snProv \in {snStored, SnNone}

SnInv == SnShape /\ SnOwnCookies /\ SnSwept /\ SnLoads /\ SnFollows

(* The invariant says which sessions may outlive their configuration. *)
LEMMA SnInvSays == SnInv => SnOnlyOverlapping
<1> SUFFICES ASSUME SnInv, SnSettled, NEW i \in SnIds, snRows[i] # SnNone,
                    snRows[i].conf # snStored
             PROVE  snRows[i].purges = snPurges /\ snRows[i].builds < snBuilds
  BY DEF SnOnlyOverlapping
<1>1. snProv \in {snStored, SnNone}
  BY DEF SnInv, SnFollows, SnSettled
<1>2. SnLoaded(snRows[i]) /\ snRows[i].conf # SnNone /\ snRows[i].purges = snPurges
  BY DEF SnInv, SnLoads, SnSwept
<1>3. snRows[i].builds \in Nat /\ snBuilds \in Nat
  BY DEF SnInv, SnShape
<1> QED BY <1>1, <1>2, <1>3 DEF SnLoaded

(* The watcher sets the provider. *)
LEMMA SnBuildKeeps ==
  ASSUME SnInv, NEW ok \in BOOLEAN, SnBuild(ok)
  PROVE  SnInv'
<1>1. /\ snAt = "build" /\ snAt' = "idle" /\ snRead' = SnNone /\ snBuilds' = snBuilds + 1
      /\ snProv' = IF ok /\ snRead.oidc THEN snRead ELSE SnNone
      /\ UNCHANGED <<snNow, snStored, snDue, snLive, snState, snCall, snCookie, snRows, snPurges>>
      /\ snFaults' \in Nat
  BY DEF SnBuild, SnOutcome, SnInv, SnShape, snLogin
<1>2. SnShape'
  BY <1>1 DEF SnInv, SnShape
<1>3. SnOwnCookies' /\ SnSwept'
  BY <1>1 DEF SnInv, SnOwnCookies, SnSwept
<1>4. SnLoads'
  <2>1. \A b \in SnBrowsers : snCall[b] # SnNone => snCall[b].builds \in Nat
    BY DEF SnInv, SnShape
  <2>2. \A i \in SnIds : snRows[i] # SnNone => snRows[i].builds \in Nat
    BY DEF SnInv, SnShape
  <2>3. snBuilds \in Nat
    BY DEF SnInv, SnShape
  <2> QED BY <1>1, <2>1, <2>2, <2>3 DEF SnInv, SnLoads, SnLoaded
<1>5. SnFollows'
  <2> SUFFICES ASSUME snFaults' = 0, ~snDue PROVE snProv' \in {snStored, SnNone}
    BY <1>1 DEF SnFollows
  <2>1. snFaults = 0
    BY DEF SnInv, SnShape, SnBuild, SnOutcome
  <2>2. snRead = snStored
    BY <1>1, <2>1 DEF SnInv, SnFollows
  <2> QED BY <1>1, <2>2
<1> QED BY <1>2, <1>3, <1>4, <1>5 DEF SnInv

(* A login is let in. *)
LEMMA SnAdmitKeeps ==
  ASSUME SnInv, NEW b \in SnBrowsers, SnAdmit(b)
  PROVE  SnInv'
<1>1. PICK i \in SnIds :
        /\ snRows[i] = SnNone /\ \A c \in SnBrowsers : snCookie[c] # i
        /\ snRows' = [snRows EXCEPT ![i] = SnNewRow(b)]
        /\ snCookie' = [snCookie EXCEPT ![b] = i]
  BY DEF SnAdmit
<1>2. /\ snCall[b] # SnNone /\ snCall' = [snCall EXCEPT ![b] = SnNone]
      /\ UNCHANGED <<snNow, snStored, snDue, snAt, snRead, snLive, snProv, snState, snFaults,
                     snPurges, snBuilds>>
  BY DEF SnAdmit, snWatch, snBounds, snPast
<1>3. snCall[b].conf \in SnConfs /\ snCall[b].builds \in Nat /\ SnLoaded(snCall[b])
  BY <1>2 DEF SnInv, SnShape, SnLoads
<1>4. snNow + SnTTL(snCall[b].conf) \in Nat
  BY <1>3, SnAssumption DEF SnTTL, SnInv, SnShape
<1>5. /\ DOMAIN SnNewRow(b) = {"by", "conf", "exp", "purges", "builds"}
      /\ SnNewRow(b).by = b /\ SnNewRow(b).exp \in Nat
      /\ SnNewRow(b).conf = snCall[b].conf /\ SnNewRow(b).builds = snCall[b].builds
      /\ SnNewRow(b).purges = snPurges
  BY <1>4 DEF SnNewRow
<1>6. /\ snRows'[i] = SnNewRow(b)
      /\ \A j \in SnIds \ {i} : snRows'[j] = snRows[j]
      /\ snCookie'[b] = i /\ \A c \in SnBrowsers \ {b} : snCookie'[c] = snCookie[c]
      /\ DOMAIN snRows' = SnIds /\ DOMAIN snCookie' = SnBrowsers
      /\ DOMAIN snCall' = SnBrowsers /\ snCall'[b] = SnNone
      /\ \A c \in SnBrowsers \ {b} : snCall'[c] = snCall[c]
  BY <1>1, <1>2 DEF SnInv, SnShape
<1>7. SnShape'
  BY <1>2, <1>3, <1>5, <1>6 DEF SnInv, SnShape, SnIds
<1>8. SnOwnCookies'
  BY <1>1, <1>5, <1>6 DEF SnInv, SnOwnCookies, SnShape
<1>9. SnSwept'
  BY <1>2, <1>5, <1>6 DEF SnInv, SnSwept
<1>10. SnLoads'
  <2>1. SnLoaded(SnNewRow(b)) /\ SnNewRow(b).conf # SnNone
    BY <1>3, <1>5, SnAssumption DEF SnLoaded
  <2>2. \A x : SnLoaded(x)' <=> SnLoaded(x)
    BY <1>2 DEF SnLoaded
  <2> QED BY <1>2, <1>6, <2>1, <2>2 DEF SnInv, SnLoads, SnLoaded
<1>11. SnFollows'
  BY <1>2 DEF SnInv, SnFollows
<1> QED BY <1>7, <1>8, <1>9, <1>10, <1>11 DEF SnInv

(* Every login, logout, purge, edit and tick keeps the invariant.           *)
LEMMA SnInductive ==
  /\ SnInit => SnInv
  /\ SnInv /\ [SnNext]_snVars => SnInv'
<1>1. SnInit => SnInv
  BY DEF SnInit, SnInv, SnShape, SnOwnCookies, SnSwept, SnLoads, SnFollows
<1>2. ASSUME SnInv, [SnNext]_snVars PROVE SnInv'
  <2> USE <1>2 DEF SnInv
  <2>1. CASE UNCHANGED snVars
    BY <2>1 DEF snVars, snWatch, snLogin, snBounds, snPast, SnShape, SnOwnCookies, SnSwept,
       SnLoads, SnLoaded, SnFollows
  <2>2. CASE SnTick \/ SnEdit
    BY <2>2 DEF SnTick, SnEdit, snWatch, snLogin, snBounds, snPast, SnShape, SnOwnCookies,
       SnSwept, SnLoads, SnLoaded, SnFollows
  <2>3. CASE SnRetry
    BY <2>3 DEF SnRetry, snWatch, snLogin, snBounds, snPast, SnShape, SnOwnCookies,
       SnSwept, SnLoads, SnLoaded, SnFollows
  <2>4. ASSUME DOMAIN snRows' = SnIds,
               \A i \in SnIds : snRows'[i] \in {SnNone, snRows[i]},
               snPurges' \in Nat,
               \A i \in SnIds : snRows'[i] # SnNone => snPurges' = snPurges,
               UNCHANGED <<snNow, snStored, snRead, snProv, snCall, snCookie, snBuilds>>,
               snFaults' \in Nat, snAt' \in {"idle", "purged", snAt}, SnFollows'
        PROVE  SnInv'
    <3>1. \A i \in SnIds : snRows'[i] # SnNone => snRows'[i] = snRows[i]
      BY <2>4
    <3>2. SnShape'
      BY <2>4, <3>1 DEF SnShape
    <3>3. SnOwnCookies' /\ SnSwept' /\ SnLoads'
      BY <2>4, <3>1 DEF SnShape, SnOwnCookies, SnSwept, SnLoads, SnLoaded
    <3> QED BY <2>4, <3>2, <3>3
  <2>5. CASE DeleteExpiredSessions
    BY <2>4, <2>5 DEF DeleteExpiredSessions, snWatch, snLogin, snBounds, snPast, SnShape,
       SnFollows
  <2>6. ASSUME NEW ok \in BOOLEAN, SnPurge(ok) PROVE SnInv'
    <3>1. SnFollows'
      BY <2>6 DEF SnPurge, SnFollows
    <3>2. /\ DOMAIN snRows' = SnIds
          /\ \A i \in SnIds : snRows'[i] \in {SnNone, snRows[i]}
          /\ snPurges' \in Nat
          /\ \A i \in SnIds : snRows'[i] # SnNone => snPurges' = snPurges
      BY <2>6 DEF SnPurge, DeleteAllSessions, SnShape
    <3> QED BY <2>4, <2>6, <3>1, <3>2 DEF SnPurge, SnOutcome, SnShape, snLogin
  <2>7. ASSUME NEW ok \in BOOLEAN, SnConfigure(ok) PROVE SnInv'
    BY <2>7 DEF SnConfigure, SnOutcome, snLogin, snPast, SnShape, SnOwnCookies, SnSwept,
       SnLoads, SnLoaded, SnFollows
  <2>8. ASSUME NEW b \in SnBrowsers, oidcStart(b) \/ oidcCallback(b) \/ SnRefuse(b)
        PROVE  SnInv'
    <3>1. /\ UNCHANGED <<snNow, snStored, snDue, snAt, snRead, snProv, snCookie, snRows,
                         snFaults, snPurges, snBuilds>>
          /\ DOMAIN snCall' = SnBrowsers
      BY <2>8 DEF oidcStart, oidcCallback, SnRefuse, SnShape, snWatch, snBounds, snPast
    <3>2. \A c \in SnBrowsers :
            \/ snCall'[c] \in {snCall[c], SnNone}
            \/ snCall'[c] = [conf |-> snProv, builds |-> snBuilds] /\ snProv # SnNone
      BY <2>8 DEF oidcStart, oidcCallback, SnRefuse, SnShape
    <3>3. SnShape'
      BY <3>1, <3>2 DEF SnShape
    <3>4. SnLoads'
      <4>1. [conf |-> snProv, builds |-> snBuilds].builds <= snBuilds
        BY DEF SnShape
      <4> QED BY <3>1, <3>2, <4>1 DEF SnLoads, SnLoaded
    <3> QED BY <3>1, <3>3, <3>4 DEF SnOwnCookies, SnSwept, SnFollows
  <2>9. ASSUME NEW b \in SnBrowsers, NEW ok \in BOOLEAN, oidcLogout(b, ok) PROVE SnInv'
    <3>1. /\ snCookie[b] \in SnIds /\ snCookie' = [snCookie EXCEPT ![b] = SnNone]
          /\ snRows' = IF ok THEN [snRows EXCEPT ![snCookie[b]] = SnNone] ELSE snRows
          /\ UNCHANGED <<snNow, snStored, snDue, snAt, snRead, snProv, snCall, snPurges, snBuilds>>
          /\ snFaults' \in Nat
      BY <2>9 DEF oidcLogout, SnOutcome, SnShape, snWatch, snPast
    <3>2. /\ DOMAIN snRows' = SnIds /\ DOMAIN snCookie' = SnBrowsers
          /\ \A i \in SnIds : snRows'[i] \in {SnNone, snRows[i]}
          /\ \A c \in SnBrowsers : snCookie'[c] \in {SnNone, snCookie[c]}
      BY <3>1 DEF SnShape
    <3>3. \A i \in SnIds : snRows'[i] # SnNone => snRows'[i] = snRows[i]
      BY <3>2
    <3>4. SnShape'
      BY <3>1, <3>2, <3>3 DEF SnShape
    <3>5. SnOwnCookies' /\ SnSwept' /\ SnLoads'
      BY <3>1, <3>2, <3>3 DEF SnShape, SnOwnCookies, SnSwept, SnLoads, SnLoaded
    <3>6. SnFollows'
      BY <2>9, <3>1 DEF oidcLogout, SnOutcome, SnShape, SnFollows
    <3> QED BY <3>4, <3>5, <3>6
  <2> QED BY <2>1, <2>2, <2>3, <2>5, <2>6, <2>7, <2>8, <2>9, SnBuildKeeps, SnAdmitKeeps
          DEF SnNext
<1> QED BY <1>1, <1>2

(* A good session ends by the purge of an auth change or by the logout of  *)
(* the browser that holds its cookie.                                      *)
LEMMA SnEnds ==
  ASSUME SnInv, [SnNext]_snVars
  PROVE  SnEndsOnlyWhenDue
<1> SUFFICES ASSUME NEW i \in SnIds, SnUsable(i), snRows'[i] = SnNone
             PROVE  \/ snDue /\ ~snDue'
                    \/ snCookie[snRows[i].by] = i /\ snCookie'[snRows[i].by] = SnNone
  BY DEF SnEndsOnlyWhenDue
<1>0. snRows[i] # SnNone /\ snRows[i].exp > snNow /\ DOMAIN snRows = SnIds
      /\ snRows[i].exp \in Nat /\ snNow \in Nat
  BY DEF SnUsable, SnInv, SnShape
<1>1. ~UNCHANGED snRows
  BY <1>0
<1>2. ~DeleteExpiredSessions
  BY <1>0 DEF DeleteExpiredSessions, SnExpired
<1>3. ASSUME NEW ok \in BOOLEAN, SnPurge(ok) PROVE snDue /\ ~snDue'
  BY <1>3 DEF SnPurge
<1>4. ASSUME NEW b \in SnBrowsers, SnAdmit(b) PROVE FALSE
  BY <1>0, <1>4 DEF SnAdmit
<1>5. ASSUME NEW b \in SnBrowsers, NEW ok \in BOOLEAN, oidcLogout(b, ok)
      PROVE  snCookie[snRows[i].by] = i /\ snCookie'[snRows[i].by] = SnNone
  <2>1. snCookie[b] = i
    BY <1>0, <1>5 DEF oidcLogout
  <2>2. snRows[i].by = b
    BY <1>0, <2>1, <1>5 DEF oidcLogout, SnInv, SnOwnCookies
  <2> QED BY <1>5, <2>1, <2>2 DEF oidcLogout, SnInv, SnShape
<1> QED BY <1>1, <1>2, <1>3, <1>4, <1>5 DEF SnNext, snVars, SnTick, SnEdit, SnRetry,
        SnConfigure, SnBuild, oidcStart, oidcCallback, SnRefuse

(***************************************************************************)
(* TokenTouch: the coalesced writes of last_used_at.                       *)
(***************************************************************************)

(* The recorded times and the locals of requests. *)
TtShape ==
  /\ ttNow \in Nat
  /\ DOMAIN ttTouched = TtTokens /\ \A i \in TtTokens : ttTouched[i] \in Nat \cup {TtNone}
  /\ DOMAIN ttWrites = TtTokens /\ \A i \in TtTokens : ttWrites[i] \in Nat
  /\ DOMAIN ttReq = TtRequests
  /\ \A r \in TtRequests :
       /\ DOMAIN ttReq[r] = {"pc", "id", "now"} /\ ttReq[r].pc \in {"idle", "lock", "send"}
       /\ ttReq[r].now \in Nat /\ ttReq[r].now <= ttNow
       /\ ttReq[r].pc # "idle" => ttReq[r].id \in TtTokens
  /\ ttQueue \in Seq(TtTokens)
  /\ ttWorker \in TtTokens \cup {"select", "exited"}

(* Where a touch that was found due can be before it is written. *)
TtSending(i)   == {r \in TtRequests : ttReq[r].pc = "send" /\ ttReq[r].id = i}
TtPlaces(q, i) == {k \in DOMAIN q : q[k] = i}
TtTaken(i)     == IF ttWorker = i THEN 1 ELSE 0

TtBegun(i) == ttWrites[i] + Cardinality(TtSending(i)) + Cardinality(TtPlaces(ttQueue, i))
              + TtTaken(i)

(* A touch was found due, at a time noted under the mutex, before it is    *)
(* sent, queued, taken or written: the times noted pay for all of them.    *)
TtPaid(i) ==
  IF ttTouched[i] = TtNone THEN TtBegun(i) = 0
  ELSE (TtBegun(i) - 1) * TtMinute <= ttTouched[i] /\ ttTouched[i] <= ttNow

TtInv ==
  /\ TtShape
  /\ \A i \in TtTokens : IsFiniteSet(TtSending(i)) /\ TtPaid(i)

LEMMA TtPlacesFinite ==
  ASSUME NEW q \in Seq(TtTokens), NEW i
  PROVE  IsFiniteSet(TtPlaces(q, i)) /\ Cardinality(TtPlaces(q, i)) \in Nat
<1>1. DOMAIN q = 1 .. Len(q) /\ Len(q) \in Nat
  BY LenProperties
<1>2. IsFiniteSet(1 .. Len(q)) /\ TtPlaces(q, i) \in SUBSET (1 .. Len(q))
  BY <1>1, FS_Interval DEF TtPlaces
<1> QED BY <1>2, FS_Subset, FS_CardinalityType

(* What one more id adds to the places of the queue. *)
LEMMA TtPlacesAppend ==
  ASSUME NEW q \in Seq(TtTokens), NEW e \in TtTokens, NEW i
  PROVE  Cardinality(TtPlaces(Append(q, e), i))
           = Cardinality(TtPlaces(q, i)) + IF e = i THEN 1 ELSE 0
<1>1. /\ Len(q) \in Nat /\ DOMAIN q = 1 .. Len(q)
      /\ Append(q, e) \in Seq(TtTokens) /\ DOMAIN Append(q, e) = 1 .. Len(q) + 1
      /\ \A k \in 1 .. Len(q) : Append(q, e)[k] = q[k]
      /\ Append(q, e)[Len(q) + 1] = e
  BY AppendProperties, LenProperties
<1>2. IsFiniteSet(TtPlaces(q, i)) /\ Cardinality(TtPlaces(q, i)) \in Nat
  BY TtPlacesFinite
<1>3. CASE e = i
  <2>1. TtPlaces(Append(q, e), i) = TtPlaces(q, i) \cup {Len(q) + 1}
    BY <1>1, <1>3 DEF TtPlaces
  <2>2. Len(q) + 1 \notin TtPlaces(q, i)
    BY <1>1 DEF TtPlaces
  <2> QED BY <1>2, <1>3, <2>1, <2>2, FS_AddElement
<1>4. CASE e # i
  <2>1. TtPlaces(Append(q, e), i) = TtPlaces(q, i)
    BY <1>1, <1>4 DEF TtPlaces
  <2> QED BY <1>2, <1>4, <2>1
<1> QED BY <1>3, <1>4

(* And what taking the oldest one leaves. *)
LEMMA TtPlacesTail ==
  ASSUME NEW q \in Seq(TtTokens), q # <<>>, NEW i
  PROVE  Cardinality(TtPlaces(Tail(q), i)) + (IF Head(q) = i THEN 1 ELSE 0)
           <= Cardinality(TtPlaces(q, i))
<1>1. /\ Len(q) \in Nat \ {0} /\ DOMAIN q = 1 .. Len(q)
      /\ Tail(q) \in Seq(TtTokens) /\ DOMAIN Tail(q) = 1 .. Len(q) - 1
      /\ Head(q) = q[1] /\ \A k \in 1 .. Len(q) - 1 : Tail(q)[k] = q[k + 1]
  BY EmptySeq, LenProperties, HeadTailProperties
<1> DEFINE P == TtPlaces(q, i) \ {1}
           f == [k \in P |-> k - 1]
<1>2. /\ IsFiniteSet(TtPlaces(q, i)) /\ Cardinality(TtPlaces(q, i)) \in Nat
      /\ IsFiniteSet(TtPlaces(Tail(q), i)) /\ Cardinality(TtPlaces(Tail(q), i)) \in Nat
  BY <1>1, TtPlacesFinite
<1>3. IsFiniteSet(P) /\ Cardinality(P) = IF 1 \in TtPlaces(q, i)
                                         THEN Cardinality(TtPlaces(q, i)) - 1
                                         ELSE Cardinality(TtPlaces(q, i))
  BY <1>2, FS_RemoveElement
<1>4. Cardinality(TtPlaces(Tail(q), i)) <= Cardinality(P)
  <2>1. \A k \in P : k - 1 \in TtPlaces(Tail(q), i)
    BY <1>1 DEF TtPlaces
  <2>2. \A k \in TtPlaces(Tail(q), i) : k + 1 \in P /\ (k + 1) - 1 = k
    BY <1>1 DEF TtPlaces
  <2>3. f \in [P -> TtPlaces(Tail(q), i)]
    BY <2>1
  <2>4. \A k \in TtPlaces(Tail(q), i) : \E x \in P : f[x] = k
    BY <2>2
  <2>5. f \in Surjection(P, TtPlaces(Tail(q), i))
    BY <2>3, <2>4 DEF Surjection
  <2> HIDE DEF P, f
  <2> QED BY <1>3, <2>5, FS_Surjection
<1>5. Head(q) = i <=> 1 \in TtPlaces(q, i)
  BY <1>1 DEF TtPlaces
<1>6. Cardinality(P) \in Nat
  BY <1>3, FS_CardinalityType
<1> HIDE DEF P
<1> QED BY <1>2, <1>3, <1>4, <1>5, <1>6

(* The invariant holds the coalescing. *)
LEMMA TtCoalesces == TtInv => TtCoalesced
<1> SUFFICES ASSUME TtInv, NEW i \in TtTokens, ttWrites[i] > 0
             PROVE  (ttWrites[i] - 1) * TtMinute <= ttNow
  BY DEF TtCoalesced
<1>1. /\ ttWrites[i] \in Nat /\ ttNow \in Nat /\ ttTouched[i] \in Nat \cup {TtNone}
      /\ Cardinality(TtSending(i)) \in Nat /\ Cardinality(TtPlaces(ttQueue, i)) \in Nat
      /\ TtTaken(i) \in Nat
  BY TtPlacesFinite, FS_CardinalityType DEF TtInv, TtShape, TtTaken
<1>2. TtBegun(i) \in Nat /\ TtBegun(i) >= ttWrites[i]
  BY <1>1 DEF TtBegun
<1>3. ttTouched[i] # TtNone /\ (TtBegun(i) - 1) * TtMinute <= ttTouched[i]
      /\ ttTouched[i] <= ttNow
  BY <1>1, <1>2 DEF TtInv, TtPaid
<1> QED BY <1>1, <1>2, <1>3 DEF TtMinute

(* A step that finds nothing due may move a touch on, or drop it. *)
LEMMA TtMovesOn ==
  ASSUME TtInv, TtShape', ttTouched' = ttTouched, ttNow' >= ttNow,
         \A i \in TtTokens : /\ IsFiniteSet(TtSending(i))'
                             /\ TtBegun(i)' \in Nat /\ TtBegun(i)' <= TtBegun(i)
  PROVE  TtInv'
<1>1. ASSUME NEW i \in TtTokens PROVE TtPaid(i)'
  <2>1. /\ TtPaid(i) /\ ttTouched[i] \in Nat \cup {TtNone}
        /\ ttNow \in Nat /\ ttNow' \in Nat /\ ttTouched'[i] = ttTouched[i]
    BY DEF TtInv, TtShape
  <2>2. Cardinality(TtSending(i)) \in Nat /\ Cardinality(TtPlaces(ttQueue, i)) \in Nat
        /\ ttWrites[i] \in Nat /\ TtTaken(i) \in Nat
    BY TtPlacesFinite, FS_CardinalityType DEF TtInv, TtShape, TtTaken
  <2>3. TtBegun(i) \in Nat /\ TtBegun(i)' \in Nat /\ TtBegun(i)' <= TtBegun(i)
    BY <2>2 DEF TtBegun
  <2>4. PICK n \in Nat, m \in Nat : n = TtBegun(i) /\ m = TtBegun(i)' /\ m <= n
    BY <2>3
  <2>5. CASE ttTouched[i] = TtNone
    BY <2>1, <2>4, <2>5 DEF TtPaid
  <2>6. CASE ttTouched[i] # TtNone
    BY <2>1, <2>4, <2>6 DEF TtPaid, TtMinute
  <2> QED BY <2>5, <2>6
<1> QED BY <1>1 DEF TtInv

(* A request decides under the mutex: what it finds due is paid for by the *)
(* time it notes.                                                          *)
LEMMA TtDecideKeeps ==
  ASSUME TtInv, NEW r \in TtRequests, TtDecide(r)
  PROVE  TtInv'
<1>0. /\ TtNone \notin TtTokens /\ TtNone \notin Nat
  BY TtAssumption
<1>1. PICK i \in TtTokens, now \in Nat :
        /\ i = ttReq[r].id /\ now = ttReq[r].now /\ ttReq[r].pc = "lock"
        /\ now <= ttNow /\ ttNow \in Nat
  BY DEF TtDecide, TtInv, TtShape
<1>2. \A j \in TtTokens : /\ Cardinality(TtSending(j)) \in Nat /\ ttWrites[j] \in Nat
                          /\ Cardinality(TtPlaces(ttQueue, j)) \in Nat /\ TtTaken(j) \in Nat
                          /\ IsFiniteSet(TtSending(j)) /\ TtPaid(j)
  BY TtPlacesFinite, FS_CardinalityType DEF TtInv, TtShape, TtTaken
<1>3. /\ ttQueue' = ttQueue /\ ttWrites' = ttWrites /\ ttWorker' = ttWorker /\ ttNow' = ttNow
  BY DEF TtDecide
<1>4. \A j \in TtTokens : TtPlaces(ttQueue, j)' = TtPlaces(ttQueue, j) /\ TtTaken(j)' = TtTaken(j)
  BY <1>3 DEF TtPlaces, TtTaken
<1>5. CASE ~TtIsDue(i, now)
  <2>1. ttReq' = [ttReq EXCEPT ![r] = TtIdle] /\ ttTouched' = ttTouched
    BY <1>1, <1>5 DEF TtDecide
  <2>2. \A j \in TtTokens : TtSending(j)' = TtSending(j)
    BY <1>1, <2>1 DEF TtSending, TtIdle, TtInv, TtShape
  <2>3. TtShape'
    BY <1>3, <2>1 DEF TtIdle, TtInv, TtShape
  <2>4. \A j \in TtTokens : /\ IsFiniteSet(TtSending(j))'
                            /\ TtBegun(j)' \in Nat /\ TtBegun(j)' <= TtBegun(j)
    BY <1>2, <1>3, <1>4, <2>2 DEF TtBegun
  <2> QED BY <1>1, <1>3, <2>1, <2>3, <2>4, TtMovesOn
<1>6. CASE TtIsDue(i, now)
  <2>1. ttReq' = [ttReq EXCEPT ![r].pc = "send"] /\ ttTouched' = [ttTouched EXCEPT ![i] = now]
    BY <1>1, <1>6 DEF TtDecide
  <2>2. /\ \A s \in TtRequests : /\ DOMAIN ttReq'[s] = {"pc", "id", "now"}
                                 /\ ttReq'[s].now = ttReq[s].now /\ ttReq'[s].id = ttReq[s].id
                                 /\ ttReq'[s].pc = IF s = r THEN "send" ELSE ttReq[s].pc
        /\ DOMAIN ttReq' = TtRequests
    BY <2>1 DEF TtInv, TtShape
  <2>3. \A j \in TtTokens : ttTouched'[j] = IF j = i THEN now ELSE ttTouched[j]
    BY <2>1 DEF TtInv, TtShape
  <2>4. DOMAIN ttTouched' = TtTokens
    BY <2>1 DEF TtInv, TtShape
  <2>5. TtShape'
    BY <1>1, <1>3, <2>2, <2>3, <2>4 DEF TtInv, TtShape
  <2>6. \A j \in TtTokens : TtSending(j)' = IF j = i THEN TtSending(j) \cup {r} ELSE TtSending(j)
    BY <1>1, <2>2 DEF TtSending
  <2>7. r \notin TtSending(i)
    BY <1>1 DEF TtSending
  <2>8. \A j \in TtTokens :
          /\ IsFiniteSet(TtSending(j))'
          /\ Cardinality(TtSending(j))' = Cardinality(TtSending(j)) + IF j = i THEN 1 ELSE 0
    <3>1. IsFiniteSet(TtSending(i) \cup {r})
          /\ Cardinality(TtSending(i) \cup {r}) = Cardinality(TtSending(i)) + 1
      BY <1>1, <1>2, <2>7, FS_AddElement
    <3>2. ASSUME NEW j \in TtTokens
          PROVE  /\ IsFiniteSet(TtSending(j))'
                 /\ Cardinality(TtSending(j))' = Cardinality(TtSending(j)) + IF j = i THEN 1 ELSE 0
      <4>1. CASE j = i
        <5>1. TtSending(j)' = TtSending(i) \cup {r}
          BY <2>6, <4>1
        <5> QED BY <3>1, <4>1, <5>1
      <4>2. CASE j # i
        <5>1. TtSending(j)' = TtSending(j)
          BY <2>6, <4>2
        <5> QED BY <1>2, <4>2, <5>1
      <4> QED BY <4>1, <4>2
    <3> QED BY <3>2
  <2>9. \A j \in TtTokens : TtBegun(j)' = TtBegun(j) + IF j = i THEN 1 ELSE 0
    BY <1>2, <1>3, <1>4, <2>8 DEF TtBegun
  <2>10. \A j \in TtTokens : TtBegun(j) \in Nat
    BY <1>2 DEF TtBegun
  <2>11. ASSUME NEW j \in TtTokens, j # i PROVE TtPaid(j)'
    <3>1. TtBegun(j)' = TtBegun(j) /\ ttTouched'[j] = ttTouched[j] /\ ttNow' = ttNow
      BY <1>3, <2>3, <2>9, <2>10, <2>11
    <3>2. TtPaid(j)
      BY <1>2
    <3> QED BY <3>1, <3>2 DEF TtPaid
  <2>12. TtPaid(i)'
    <3>1. PICK n \in Nat : n = TtBegun(i) /\ TtBegun(i)' = n + 1
      BY <1>1, <2>9, <2>10
    <3>2. ttTouched'[i] = now /\ now # TtNone
      BY <1>0, <1>1, <2>3
    <3>3. ttTouched[i] = TtNone \/ (ttTouched[i] \in Nat /\ now >= ttTouched[i] + TtMinute)
      BY <1>1, <1>6 DEF TtIsDue, TtMinute, TtInv, TtShape
    <3>4. (n + 1 - 1) * TtMinute <= now
      <4>1. CASE ttTouched[i] = TtNone
        <5>1. n = 0
          BY <1>1, <1>2, <3>1, <4>1 DEF TtPaid
        <5> QED BY <1>1, <5>1 DEF TtMinute
      <4>2. CASE ttTouched[i] # TtNone
        <5>1. (n - 1) * TtMinute <= ttTouched[i]
          BY <1>1, <1>2, <3>1, <4>2 DEF TtPaid
        <5> QED BY <1>1, <3>1, <3>3, <4>2, <5>1 DEF TtMinute
      <4> QED BY <4>1, <4>2
    <3>5. TtBegun(i)' = n + 1 /\ ttNow' = ttNow
      BY <1>3, <3>1
    <3> QED BY <1>1, <3>2, <3>4, <3>5 DEF TtPaid
  <2>13. \A j \in TtTokens : IsFiniteSet(TtSending(j))' /\ TtPaid(j)'
    BY <2>8, <2>11, <2>12
  <2> QED BY <2>5, <2>13 DEF TtInv
<1> QED BY <1>5, <1>6

(* The touch that was found due is queued, or dropped. *)
LEMMA TtSendKeeps ==
  ASSUME TtInv, NEW r \in TtRequests, TtSend(r)
  PROVE  TtInv'
<1>1. PICK i \in TtTokens : i = ttReq[r].id
  BY DEF TtSend, TtInv, TtShape
<1>2. /\ ttReq[r].pc = "send" /\ ttReq' = [ttReq EXCEPT ![r] = TtIdle]
      /\ ttQueue' = Append(ttQueue, i) \/ ttQueue' = ttQueue
      /\ UNCHANGED <<ttNow, ttTouched, ttWorker, ttWrites>>
  BY <1>1 DEF TtSend
<1>3. ttQueue \in Seq(TtTokens) /\ ttQueue' \in Seq(TtTokens) /\ ttNow \in Nat
  <2>1. ttQueue \in Seq(TtTokens) /\ ttNow \in Nat
    BY DEF TtInv, TtShape
  <2>2. Append(ttQueue, i) \in Seq(TtTokens)
    BY <2>1, AppendProperties
  <2> QED BY <1>2, <2>1, <2>2
<1>4. TtShape'
  BY <1>2, <1>3 DEF TtIdle, TtInv, TtShape
<1>5. ASSUME NEW j \in TtTokens
      PROVE  IsFiniteSet(TtSending(j))' /\ TtBegun(j)' \in Nat /\ TtBegun(j)' <= TtBegun(j)
  <2>1. /\ Cardinality(TtSending(j)) \in Nat /\ ttWrites[j] \in Nat /\ TtTaken(j) \in Nat
        /\ Cardinality(TtPlaces(ttQueue, j)) \in Nat /\ IsFiniteSet(TtSending(j))
    BY <1>3, TtPlacesFinite, FS_CardinalityType DEF TtInv, TtShape, TtTaken
  <2>2. TtSending(j)' = IF j = i THEN TtSending(j) \ {r} ELSE TtSending(j)
    BY <1>1, <1>2 DEF TtSending, TtIdle, TtInv, TtShape
  <2>3. r \in TtSending(i)
    BY <1>1, <1>2 DEF TtSending
  <2>4. /\ IsFiniteSet(TtSending(j))'
        /\ Cardinality(TtSending(j))' = Cardinality(TtSending(j)) - IF j = i THEN 1 ELSE 0
    <3>1. /\ IsFiniteSet(TtSending(j) \ {r})
          /\ j = i => Cardinality(TtSending(j) \ {r}) = Cardinality(TtSending(j)) - 1
      BY <2>1, <2>3, FS_RemoveElement
    <3>2. CASE j = i
      <4>1. TtSending(j)' = TtSending(j) \ {r}
        BY <2>2, <3>2
      <4> QED BY <3>1, <3>2, <4>1
    <3>3. CASE j # i
      <4>1. TtSending(j)' = TtSending(j)
        BY <2>2, <3>3
      <4> QED BY <2>1, <3>3, <4>1
    <3> QED BY <3>2, <3>3
  <2>5. Cardinality(TtSending(j))' \in Nat
    BY <2>4, FS_CardinalityType
  <2>6. Cardinality(TtPlaces(ttQueue, j)') \in Nat
        /\ Cardinality(TtPlaces(ttQueue, j)')
             <= Cardinality(TtPlaces(ttQueue, j)) + IF j = i THEN 1 ELSE 0
    <3>1. CASE ttQueue' = ttQueue
      BY <2>1, <3>1 DEF TtPlaces
    <3>2. CASE ttQueue' = Append(ttQueue, i)
      <4>1. TtPlaces(ttQueue, j)' = TtPlaces(Append(ttQueue, i), j)
        BY <3>2 DEF TtPlaces
      <4> QED BY <1>3, <2>1, <4>1, TtPlacesAppend
    <3> QED BY <1>2, <3>1, <3>2
  <2>7. TtTaken(j)' = TtTaken(j) /\ ttWrites'[j] = ttWrites[j]
    BY <1>2 DEF TtTaken
  <2> QED BY <2>1, <2>4, <2>5, <2>6, <2>7 DEF TtBegun
<1> QED BY <1>2, <1>3, <1>4, <1>5, TtMovesOn

(* The worker takes the oldest touch, ... *)
LEMMA TtTakeKeeps ==
  ASSUME TtInv, TtTake
  PROVE  TtInv'
<1>1. /\ ttQueue \in Seq(TtTokens) /\ ttQueue # <<>> /\ ttWorker = "select"
      /\ ttWorker' = Head(ttQueue) /\ ttQueue' = Tail(ttQueue) /\ "select" \notin TtTokens
      /\ UNCHANGED <<ttNow, ttTouched, ttReq, ttWrites>> /\ ttNow \in Nat
  BY TtAssumption DEF TtTake, TtInv, TtShape
<1>2. Head(ttQueue) \in TtTokens /\ Tail(ttQueue) \in Seq(TtTokens)
  BY <1>1, HeadTailProperties
<1>3. TtShape'
  BY <1>1, <1>2 DEF TtInv, TtShape
<1>4. ASSUME NEW j \in TtTokens
      PROVE  IsFiniteSet(TtSending(j))' /\ TtBegun(j)' \in Nat /\ TtBegun(j)' <= TtBegun(j)
  <2>1. /\ Cardinality(TtSending(j)) \in Nat /\ ttWrites[j] \in Nat
        /\ Cardinality(TtPlaces(ttQueue, j)) \in Nat /\ IsFiniteSet(TtSending(j))
        /\ Cardinality(TtPlaces(Tail(ttQueue), j)) \in Nat
    BY <1>1, <1>2, TtPlacesFinite, FS_CardinalityType DEF TtInv, TtShape
  <2>2. TtSending(j)' = TtSending(j) /\ ttWrites'[j] = ttWrites[j]
        /\ TtPlaces(ttQueue, j)' = TtPlaces(Tail(ttQueue), j)
    BY <1>1 DEF TtSending, TtPlaces
  <2>3. TtTaken(j) = 0 /\ TtTaken(j)' = IF Head(ttQueue) = j THEN 1 ELSE 0
    BY <1>1 DEF TtTaken
  <2>4. Cardinality(TtPlaces(Tail(ttQueue), j)) + (IF Head(ttQueue) = j THEN 1 ELSE 0)
          <= Cardinality(TtPlaces(ttQueue, j))
    BY <1>1, TtPlacesTail
  <2> QED BY <2>1, <2>2, <2>3, <2>4 DEF TtBegun
<1> QED BY <1>1, <1>3, <1>4, TtMovesOn

(* ... and writes it. *)
LEMMA TtWriteKeeps ==
  ASSUME TtInv, doTouch
  PROVE  TtInv'
<1>1. /\ ttWorker \in TtTokens /\ ttWorker' = "select" /\ "select" \notin TtTokens
      /\ ttWrites' = [ttWrites EXCEPT ![ttWorker] = @ + 1]
      /\ UNCHANGED <<ttNow, ttTouched, ttReq, ttQueue>> /\ ttNow \in Nat
  BY TtAssumption DEF doTouch, TtInv, TtShape
<1>2. TtShape'
  BY <1>1 DEF TtInv, TtShape
<1>3. ASSUME NEW j \in TtTokens
      PROVE  IsFiniteSet(TtSending(j))' /\ TtBegun(j)' \in Nat /\ TtBegun(j)' <= TtBegun(j)
  <2>1. /\ Cardinality(TtSending(j)) \in Nat /\ ttWrites[j] \in Nat
        /\ Cardinality(TtPlaces(ttQueue, j)) \in Nat /\ IsFiniteSet(TtSending(j))
    BY TtPlacesFinite, FS_CardinalityType DEF TtInv, TtShape
  <2>2. TtSending(j)' = TtSending(j) /\ TtPlaces(ttQueue, j)' = TtPlaces(ttQueue, j)
    BY <1>1 DEF TtSending, TtPlaces
  <2>3. TtTaken(j)' = 0 /\ ttWrites'[j] = ttWrites[j] + TtTaken(j)
    BY <1>1 DEF TtTaken, TtInv, TtShape
  <2>4. TtTaken(j) \in Nat
    BY DEF TtTaken
  <2> QED BY <2>1, <2>2, <2>3, <2>4 DEF TtBegun
<1> QED BY <1>1, <1>2, <1>3, TtMovesOn

(* However requests read the time, get the mutex and send, and however     *)
(* late the worker is, no more is written than was paid for.               *)
LEMMA TtInductive ==
  /\ TtInit => TtInv
  /\ TtInv /\ [TtNext]_ttVars => TtInv'
<1>1. ASSUME TtInit PROVE TtInv
  <2>1. <<>> \in Seq(TtTokens) /\ DOMAIN <<>> = {}
    BY EmptySeq
  <2>2. TtShape
    BY <1>1, <2>1, TtAssumption DEF TtInit, TtShape, TtIdle
  <2>3. ASSUME NEW i \in TtTokens PROVE IsFiniteSet(TtSending(i)) /\ TtPaid(i)
    <3>1. TtSending(i) = {} /\ TtPlaces(ttQueue, i) = {}
      BY <1>1, <2>1 DEF TtInit, TtSending, TtPlaces, TtIdle
    <3>2. ttWrites[i] = 0 /\ TtTaken(i) = 0 /\ ttTouched[i] = TtNone
      BY <1>1, TtAssumption DEF TtInit, TtTaken
    <3>3. TtBegun(i) = 0
      BY <3>1, <3>2, FS_EmptySet DEF TtBegun
    <3> QED BY <3>1, <3>2, <3>3, FS_EmptySet DEF TtPaid
  <2> QED BY <2>2, <2>3 DEF TtInv
<1>2. ASSUME TtInv, [TtNext]_ttVars PROVE TtInv'
  <2> USE <1>2
  <2>0. /\ "select" \notin TtTokens /\ "exited" \notin TtTokens /\ ttNow \in Nat
    BY TtAssumption DEF TtInv, TtShape
  <2>1. \A j \in TtTokens :
          /\ Cardinality(TtSending(j)) \in Nat /\ ttWrites[j] \in Nat /\ TtTaken(j) \in Nat
          /\ Cardinality(TtPlaces(ttQueue, j)) \in Nat /\ IsFiniteSet(TtSending(j))
    BY TtPlacesFinite, FS_CardinalityType DEF TtInv, TtShape, TtTaken
  <2>2. ASSUME TtShape', UNCHANGED <<ttTouched, ttQueue, ttWrites>>, ttNow' >= ttNow,
               \A j \in TtTokens : TtSending(j)' = TtSending(j) /\ TtTaken(j)' = TtTaken(j)
        PROVE  TtInv'
    <3>1. \A j \in TtTokens : TtPlaces(ttQueue, j)' = TtPlaces(ttQueue, j)
      BY <2>2 DEF TtPlaces
    <3>2. \A j \in TtTokens : TtBegun(j)' = TtBegun(j) /\ TtBegun(j) \in Nat
      BY <2>1, <2>2, <3>1 DEF TtBegun
    <3>3. \A j \in TtTokens : /\ IsFiniteSet(TtSending(j))'
                              /\ TtBegun(j)' \in Nat /\ TtBegun(j)' <= TtBegun(j)
      BY <2>1, <2>2, <3>2
    <3> QED BY <2>2, <3>3, TtMovesOn
  <2>3. CASE UNCHANGED ttVars
    <3>1. TtShape' /\ ttNow' >= ttNow
      BY <2>0, <2>3 DEF ttVars, TtInv, TtShape
    <3> QED BY <2>2, <2>3, <3>1 DEF ttVars, TtSending, TtTaken
  <2>4. CASE TtTick
    <3>1. TtShape' /\ ttNow' >= ttNow
      BY <2>0, <2>4 DEF TtTick, TtInv, TtShape
    <3> QED BY <2>2, <2>4, <3>1 DEF TtTick, TtSending, TtTaken
  <2>5. CASE TtExit \/ TtClose \/ TtClosed
    <3>1. TtShape' /\ ttNow' >= ttNow
      BY <2>0, <2>5 DEF TtExit, TtClose, TtClosed, TtInv, TtShape
    <3> QED BY <2>0, <2>2, <2>5, <3>1 DEF TtExit, TtClose, TtClosed, TtSending, TtTaken
  <2>6. ASSUME NEW r \in TtRequests, maybeTouch(r) PROVE TtInv'
    <3>1. TtShape' /\ ttNow' >= ttNow
      BY <2>0, <2>6 DEF maybeTouch, TtInv, TtShape
    <3>2. \A j \in TtTokens : TtSending(j)' = TtSending(j) /\ TtTaken(j)' = TtTaken(j)
      BY <2>6 DEF maybeTouch, TtSending, TtTaken, TtInv, TtShape
    <3> QED BY <2>2, <2>6, <3>1, <3>2 DEF maybeTouch
  <2> QED BY <2>3, <2>4, <2>5, <2>6, TtTakeKeeps, TtWriteKeeps, TtDecideKeeps, TtSendKeeps
          DEF TtNext
<1> QED BY <1>1, <1>2

(***************************************************************************)
(* Access: who is let in, and the check against locking everybody out.     *)
(***************************************************************************)

(* A change of the auth section yields an auth section. *)
LEMMA AcMergeIsConf ==
  ASSUME NEW conf \in AcConf, NEW body \in AcBodies
  PROVE  mergeAuth(conf, body) \in AcConf
<1> DEFINE m == mergeAuth(conf, body)
<1>1. /\ DOMAIN conf = {"mode", "proxies", "allow", "oidc"}
      /\ conf.mode \in {"open", "forward", "token", "oidc"} /\ conf.proxies \in SUBSET AcProxies
      /\ conf.allow \in BOOLEAN /\ conf.oidc \in BOOLEAN
  BY DEF AcConf
<1>2. /\ "mode" \in DOMAIN body => body["mode"] \in {"open", "forward", "token", "oidc"}
      /\ "proxies" \in DOMAIN body => body["proxies"] \in SUBSET AcProxies
      /\ "allow" \in DOMAIN body => body["allow"] \in BOOLEAN
      /\ "oidc" \in DOMAIN body => body["oidc"] \in BOOLEAN
  <2>1. CASE body \in {[mode |-> x] : x \in {"open", "forward", "token", "oidc"}}
    BY <2>1
  <2>2. CASE body \in {[mode |-> "forward", proxies |-> {p}] : p \in AcProxies}
    BY <2>2
  <2>3. CASE body \in {[proxies |-> P] : P \in SUBSET AcProxies}
    BY <2>3
  <2>4. CASE body \in {[allow |-> b] : b \in BOOLEAN}
    BY <2>4
  <2>5. CASE body \in {[oidc |-> b] : b \in BOOLEAN}
    BY <2>5
  <2> QED BY <2>1, <2>2, <2>3, <2>4, <2>5 DEF AcBodies
<1>3. m = [k \in {"mode", "proxies", "allow", "oidc"} |->
             IF k \in DOMAIN body THEN body[k] ELSE conf[k]]
  BY <1>1 DEF mergeAuth
<1>4. /\ m.mode \in {"open", "forward", "token", "oidc"} /\ m.proxies \in SUBSET AcProxies
      /\ m.allow \in BOOLEAN /\ m.oidc \in BOOLEAN
  BY <1>1, <1>2, <1>3
<1>5. m = [mode |-> m.mode, proxies |-> m.proxies, allow |-> m.allow, oidc |-> m.oidc]
  BY <1>3
<1> HIDE DEF m
<1>6. m \in AcConf
  BY <1>4, <1>5 DEF AcConf
<1> QED BY <1>6 DEF m

(* The stamps: nothing is committed before it is checked, or in the future. *)
AcStamped ==
  /\ acTime \in Nat
  /\ \A k \in AcKeys \cup AcTokens : /\ acAt[k].read \in Nat /\ acAt[k].done \in Nat
                                     /\ acAt[k].read <= acAt[k].done /\ acAt[k].done <= acTime
  /\ DOMAIN acAt = AcKeys \cup AcTokens

(* What a request relied on is still there, or was taken after its check.  *)
AcSince(k, r) == acAt[k].done > r.read

AcPutHolds(r) ==
  /\ r.body \in AcBodies
  /\ "mode" \in DOMAIN r.body =>
       /\ r.body["mode"] = "forward" =>
            IF "proxies" \in DOMAIN r.body THEN r.body["proxies"] # {}
            ELSE acStored.proxies # {} \/ AcSince("proxies", r)
       /\ r.body["mode"] = "oidc" => acStored.oidc \/ AcSince("oidc", r)
       /\ r.body["mode"] = "token" => acIssued # {} \/ \E t \in AcTokens : AcSince(t, r)
  /\ "proxies" \in DOMAIN r.body /\ r.body["proxies"] = {} =>
       acStored.mode # "forward" \/ AcSince("mode", r)
  /\ "oidc" \in DOMAIN r.body /\ ~r.body["oidc"] =>
       acStored.mode # "oidc" \/ AcSince("mode", r)

AcDeleteHolds(r) ==
  acStored.mode = "token" =>
    \/ AcSince("mode", r)
    \/ \E u \in AcTokens \ {r.token} : u \in acIssued \/ AcSince(u, r)

(* As long as nothing else was committed, the whole check still holds. *)
AcFresh(c, r) ==
  r.read = acTime =>
    \E t \in Sent(c) : checkAuthLockout(c, t, acStored, mergeAuth(acStored, r.body))

AcRequest(c, r) ==
  /\ DOMAIN r = {"kind", "body", "token", "read"} /\ r.read \in Nat /\ r.read <= acTime
  /\ r.kind = "put" => AcPutHolds(r) /\ AcFresh(c, r)
  /\ r.kind = "delete" => AcDeleteHolds(r)

AcInv ==
  /\ AcUsable /\ AcNotLockedOut /\ AcStamped
  /\ \A c \in AcClients : acReq[c] # AcNone => AcRequest(c, acReq[c])
  /\ DOMAIN acReq = AcClients /\ acIssued \subseteq AcTokens

(* A configuration that passes the check admits the one who asks for it,   *)
(* where the change could shut them out, and somebody in any case.         *)
LEMMA AcCheckAdmits ==
  ASSUME NEW c \in AcClients, NEW t \in Sent(c), NEW conf \in AcConf, NEW new \in AcConf,
         checkAuthLockout(c, t, conf, new)
  PROVE  /\ new.mode = "token" => acIssued # {}
         /\ new.mode = "forward" => new.proxies # {}
         /\ new.mode = "oidc" => new.oidc
         /\ new.mode # conf.mode \/ (new.mode = "forward" /\ new.proxies # conf.proxies) =>
              \E u \in Sent(c) : Identify(c, u, TRUE, new) # "denied"
<1>0. new.mode \in {"open", "forward", "token", "oidc"}
  BY DEF AcConf
<1>1. CASE new.mode = "open"
  <2>1. Identify(c, t, TRUE, new) = "open"
    BY <1>1 DEF Identify
  <2> QED BY <1>1, <2>1
<1>2. CASE new.mode = "forward"
  <2>1. new.proxies # {} /\ (new.mode # conf.mode \/ new.proxies # conf.proxies =>
                               AcProxy[c] \in new.proxies)
    BY <1>2 DEF checkAuthLockout
  <2>2. AcNone \in Sent(c)
    BY DEF Sent
  <2>3. AcProxy[c] \in new.proxies => Identify(c, AcNone, TRUE, new) = "forward"
    BY <1>2 DEF Identify, identifyForward
  <2> QED BY <1>2, <2>1, <2>2, <2>3
<1>3. CASE new.mode = "token"
  <2>1. acIssued # {} /\ (new.mode # conf.mode => t \in acIssued)
    BY <1>3 DEF checkAuthLockout
  <2>2. t \in acIssued => Identify(c, t, TRUE, new) = "token"
    BY <1>3 DEF Identify, identifyToken
  <2> QED BY <1>3, <2>1, <2>2
<1>4. CASE new.mode = "oidc"
  <2>1. new.oidc
    BY <1>4 DEF checkAuthLockout
  <2>2. Identify(c, t, TRUE, new) = "oidc"
    BY <1>4 DEF Identify
  <2> QED BY <1>4, <2>1, <2>2
<1> QED BY <1>0, <1>1, <1>2, <1>3, <1>4

(* What a body may be. *)
LEMMA AcBodyIs ==
  ASSUME NEW body \in AcBodies
  PROVE  /\ DOMAIN body \subseteq AcKeys
         /\ "mode" \in DOMAIN body =>
              /\ body["mode"] \in {"open", "forward", "token", "oidc"} /\ "oidc" \notin DOMAIN body
              /\ "proxies" \in DOMAIN body => body["mode"] = "forward" /\ body["proxies"] # {}
<1>1. CASE body \in {[mode |-> x] : x \in {"open", "forward", "token", "oidc"}}
  BY <1>1 DEF AcKeys
<1>2. CASE body \in {[mode |-> "forward", proxies |-> {p}] : p \in AcProxies}
  BY <1>2 DEF AcKeys
<1>3. CASE body \in {[proxies |-> P] : P \in SUBSET AcProxies}
  BY <1>3 DEF AcKeys
<1>4. CASE body \in {[allow |-> b] : b \in BOOLEAN}
  BY <1>4 DEF AcKeys
<1>5. CASE body \in {[oidc |-> b] : b \in BOOLEAN}
  BY <1>5 DEF AcKeys
<1> QED BY <1>1, <1>2, <1>3, <1>4, <1>5 DEF AcBodies

(* What mergeAuth leaves. *)
LEMMA AcMerged ==
  ASSUME NEW conf \in AcConf, NEW body
  PROVE  /\ mergeAuth(conf, body).mode = IF "mode" \in DOMAIN body THEN body["mode"] ELSE conf.mode
         /\ mergeAuth(conf, body).proxies
              = IF "proxies" \in DOMAIN body THEN body["proxies"] ELSE conf.proxies
         /\ mergeAuth(conf, body).oidc = IF "oidc" \in DOMAIN body THEN body["oidc"] ELSE conf.oidc
<1>1. DOMAIN conf = {"mode", "proxies", "allow", "oidc"}
  BY DEF AcConf
<1> QED BY <1>1 DEF mergeAuth

(* Right after its check a PUT holds: the result is usable. *)
LEMMA AcPutBegins ==
  ASSUME AcStamped, acStored \in AcConf, NEW r, r.body \in AcBodies, NEW c \in AcClients,
         NEW t \in Sent(c),
         checkAuthLockout(c, t, acStored, mergeAuth(acStored, r.body))
  PROVE  AcPutHolds(r)
<1> DEFINE new == mergeAuth(acStored, r.body)
<1>1. new \in AcConf
  BY AcMergeIsConf
<1>2. /\ new.mode = "token" => acIssued # {}
      /\ new.mode = "forward" => new.proxies # {}
      /\ new.mode = "oidc" => new.oidc
  BY <1>1, AcCheckAdmits
<1>3. /\ new.mode = IF "mode" \in DOMAIN r.body THEN r.body["mode"] ELSE acStored.mode
      /\ new.proxies = IF "proxies" \in DOMAIN r.body THEN r.body["proxies"] ELSE acStored.proxies
      /\ new.oidc = IF "oidc" \in DOMAIN r.body THEN r.body["oidc"] ELSE acStored.oidc
  BY AcMerged
<1>4. "mode" \in DOMAIN r.body =>
        /\ "oidc" \notin DOMAIN r.body
        /\ "proxies" \in DOMAIN r.body => r.body["proxies"] # {}
  BY AcBodyIs
<1> HIDE DEF new
<1> QED BY <1>2, <1>3, <1>4 DEF AcPutHolds

(* A step takes nothing away without a stamp. *)
AcTakesOpenly ==
  /\ \A k \in AcKeys \cup AcTokens : acAt'[k].done = acAt[k].done \/ acAt'[k].done = acTime + 1
  /\ acStored'.mode = acStored.mode \/ acAt'["mode"].done = acTime + 1
  /\ acStored'.proxies = acStored.proxies \/ acAt'["proxies"].done = acTime + 1
  /\ acStored'.oidc = acStored.oidc \/ acAt'["oidc"].done = acTime + 1
  /\ \A t \in acIssued : t \in acIssued' \/ acAt'[t].done = acTime + 1

(* Then what a request relied on is still there or stamped. *)
LEMMA AcStillHolds ==
  ASSUME AcTakesOpenly, AcStamped, acIssued \subseteq AcTokens,
         NEW r, r.read \in Nat, r.read <= acTime
  PROVE  /\ AcPutHolds(r) => AcPutHolds(r)'
         /\ AcDeleteHolds(r) => AcDeleteHolds(r)'
<1>1. \A k \in AcKeys \cup AcTokens :
        /\ acAt[k].done \in Nat
        /\ (acAt'[k].done = acTime + 1) => (acAt'[k].done > r.read)
        /\ (acAt[k].done > r.read) => (acAt'[k].done > r.read)
  BY DEF AcStamped, AcTakesOpenly
<1>2. /\ acStored'.mode = acStored.mode \/ (acAt'["mode"].done > r.read)
      /\ acStored'.proxies = acStored.proxies \/ (acAt'["proxies"].done > r.read)
      /\ acStored'.oidc = acStored.oidc \/ (acAt'["oidc"].done > r.read)
      /\ (acAt["mode"].done > r.read) => (acAt'["mode"].done > r.read)
      /\ (acAt["proxies"].done > r.read) => (acAt'["proxies"].done > r.read)
      /\ (acAt["oidc"].done > r.read) => (acAt'["oidc"].done > r.read)
  BY <1>1 DEF AcTakesOpenly, AcKeys
<1>3. \A t \in AcTokens :
        /\ t \in acIssued => (t \in acIssued' \/ (acAt'[t].done > r.read))
        /\ (acAt[t].done > r.read) => (acAt'[t].done > r.read)
  BY <1>1 DEF AcTakesOpenly
<1>4. AcPutHolds(r) => AcPutHolds(r)'
  BY <1>2, <1>3 DEF AcPutHolds, AcSince
<1>5. AcDeleteHolds(r) => AcDeleteHolds(r)'
  BY <1>2, <1>3 DEF AcDeleteHolds, AcSince
<1> QED BY <1>4, <1>5

(* The stamps a commit leaves, and the other requests after it. *)
LEMMA AcCommitted ==
  ASSUME AcInv, NEW c \in AcClients, acReq[c] # AcNone, NEW changed, AcDone(c, changed)
  PROVE  /\ AcStamped' /\ DOMAIN acReq' = AcClients /\ acReq'[c] = AcNone
         /\ acTime' = acTime + 1
         /\ \A d \in AcClients \ {c} : acReq'[d] = acReq[d]
         /\ \A k \in AcKeys \cup AcTokens :
              IF k \in changed THEN acAt'[k].read = acReq[c].read /\ acAt'[k].done = acTime + 1
              ELSE acAt'[k] = acAt[k]
<1>1. acReq[c].read \in Nat /\ acReq[c].read <= acTime
  BY DEF AcInv, AcRequest
<1>2. /\ acReq' = [acReq EXCEPT ![c] = AcNone] /\ acTime' = acTime + 1
      /\ acAt' = [k \in DOMAIN acAt |->
                   IF k \in changed THEN [read |-> acReq[c].read, done |-> acTime + 1]
                   ELSE acAt[k]]
  BY DEF AcDone
<1>3. DOMAIN acReq = AcClients /\ AcStamped
  BY DEF AcInv
<1>4. \A k \in AcKeys \cup AcTokens :
        IF k \in changed THEN acAt'[k].read = acReq[c].read /\ acAt'[k].done = acTime + 1
        ELSE acAt'[k] = acAt[k]
  BY <1>2, <1>3 DEF AcStamped
<1>5. AcStamped'
  BY <1>1, <1>2, <1>3, <1>4 DEF AcStamped
<1> QED BY <1>2, <1>3, <1>4, <1>5

LEMMA AcOthersHold ==
  ASSUME AcInv, AcTakesOpenly, NEW c \in AcClients, acTime' = acTime + 1,
         NEW d \in AcClients, acReq[d] # AcNone, acReq'[d] = acReq[d]
  PROVE  AcRequest(d, acReq[d])'
<1>1. PICK r : r = acReq[d]
  OBVIOUS
<1>2. AcRequest(d, r) /\ AcStamped /\ acIssued \subseteq AcTokens /\ acTime \in Nat
  BY <1>1 DEF AcInv, AcStamped
<1>3. /\ DOMAIN r = {"kind", "body", "token", "read"} /\ r.read \in Nat /\ r.read <= acTime
      /\ r.kind = "put" => AcPutHolds(r)
      /\ r.kind = "delete" => AcDeleteHolds(r)
  BY <1>2 DEF AcRequest
<1>4. /\ r.kind = "put" => AcPutHolds(r)'
      /\ r.kind = "delete" => AcDeleteHolds(r)'
  BY <1>2, <1>3, AcStillHolds
<1>5. r.read <= acTime' /\ r.read # acTime'
  BY <1>2, <1>3
<1>6. AcRequest(d, r)'
  BY <1>3, <1>4, <1>5 DEF AcRequest, AcFresh
<1>7. acReq'[d] = r
  BY <1>1
<1> QED BY <1>6, <1>7 DEF AcRequest, AcFresh, AcPutHolds, AcDeleteHolds, AcSince

(* A request that waits beside a step that commits nothing. *)
LEMMA AcWaits ==
  ASSUME AcInv, NEW d \in AcClients, acReq[d] # AcNone, acReq'[d] = acReq[d],
         UNCHANGED <<acStored, acTime, acAt>>, acIssued \subseteq acIssued'
  PROVE  AcRequest(d, acReq[d])'
<1>1. PICK r : r = acReq[d]
  OBVIOUS
<1>2. AcRequest(d, r)
  BY <1>1 DEF AcInv
<1>3. r.kind = "put" => AcPutHolds(r)'
  BY <1>2 DEF AcRequest, AcPutHolds, AcSince
<1>4. r.kind = "delete" => AcDeleteHolds(r)'
  BY <1>2 DEF AcRequest, AcDeleteHolds, AcSince
<1>5. r.kind = "put" => AcFresh(d, r)'
  <2> SUFFICES ASSUME r.kind = "put", r.read = acTime PROVE AcFresh(d, r)'
    BY DEF AcFresh
  <2>1. PICK t \in Sent(d) : checkAuthLockout(d, t, acStored, mergeAuth(acStored, r.body))
    BY <1>2 DEF AcRequest, AcFresh
  <2>2. PICK conf, new : conf = acStored /\ new = mergeAuth(acStored, r.body)
    OBVIOUS
  <2>3. conf = acStored' /\ new = mergeAuth(acStored, r.body)'
    BY <2>2 DEF mergeAuth
  <2>4. checkAuthLockout(d, t, conf, new)
    BY <2>1, <2>2
  <2>5. new.mode \in {"open", "forward", "token", "oidc"}
    <3>1. r.body \in AcBodies /\ acStored \in AcConf
      BY <1>2 DEF AcInv, AcUsable, AcRequest, AcPutHolds
    <3>2. new \in AcConf
      BY <2>2, <3>1, AcMergeIsConf
    <3> QED BY <3>2 DEF AcConf
  <2>6. checkAuthLockout(d, t, conf, new)'
    BY <2>4, <2>5 DEF checkAuthLockout
  <2> QED BY <2>3, <2>6 DEF AcFresh, Sent
<1>6. AcRequest(d, r)'
  BY <1>2, <1>3, <1>4, <1>5 DEF AcRequest
<1>7. acReq'[d] = r
  BY <1>1
<1> QED BY <1>6, <1>7 DEF AcRequest, AcFresh, AcPutHolds, AcDeleteHolds, AcSince

(* The configuration stays usable, and its changer admitted, while no      *)
(* change is committed and no token revoked.                               *)
LEMMA AcStaysUsable ==
  ASSUME AcInv, UNCHANGED <<acStored, acTime, acAt, acLast>>, acIssued \subseteq acIssued'
  PROVE  AcUsable' /\ AcNotLockedOut' /\ AcStamped'
<1>1. AcUsable' /\ AcStamped'
  BY DEF AcInv, AcUsable, AcOverlap, AcStamped
<1>2. AcNotLockedOut'
  <2>1. ASSUME NEW c, NEW t, NEW conf \in AcConf, Identify(c, t, TRUE, conf) # "denied"
        PROVE  Identify(c, t, TRUE, conf)' # "denied"
    <3>1. identifyToken(t) # "denied" => identifyToken(t)' = identifyToken(t)
      BY DEF identifyToken
    <3>2. conf.mode \in {"open", "forward", "token", "oidc"}
      BY DEF AcConf
    <3> QED BY <2>1, <3>1, <3>2 DEF Identify, identifyForward
  <2>2. PICK conf \in AcConf : conf = acStored /\ conf = acStored'
    BY DEF AcInv, AcUsable
  <2>3. AcNotLockedOut
    BY DEF AcInv
  <2> QED BY <2>1, <2>2, <2>3 DEF AcNotLockedOut, Sent
<1> QED BY <1>1, <1>2

(* A PUT commits. *)
LEMMA AcCommitKeeps ==
  ASSUME AcInv, NEW c \in AcClients, AcCommit(c)
  PROVE  AcInv'
<1>0. PICK r : r = acReq[c]
  OBVIOUS
<1>1. /\ acReq[c] # AcNone /\ r.kind = "put" /\ acStored' = mergeAuth(acStored, r.body)
      /\ acLast' = [client |-> c, before |-> acStored, clean |-> r.read = acTime]
      /\ AcDone(c, DOMAIN r.body) /\ acIssued' = acIssued
  BY <1>0 DEF AcCommit
<1>2. /\ acStored \in AcConf /\ acIssued \subseteq AcTokens /\ AcStamped /\ AcRequest(c, r)
      /\ AcUsable
  BY <1>0, <1>1 DEF AcInv, AcUsable
<1>3. AcPutHolds(r) /\ AcFresh(c, r) /\ r.read \in Nat /\ r.read <= acTime
  BY <1>1, <1>2 DEF AcRequest
<1>4. r.body \in AcBodies
  BY <1>3 DEF AcPutHolds
<1>5. acStored' \in AcConf
  BY <1>1, <1>2, <1>4, AcMergeIsConf
<1>6. /\ acStored'.mode = IF "mode" \in DOMAIN r.body THEN r.body["mode"] ELSE acStored.mode
      /\ acStored'.proxies
           = IF "proxies" \in DOMAIN r.body THEN r.body["proxies"] ELSE acStored.proxies
      /\ acStored'.oidc = IF "oidc" \in DOMAIN r.body THEN r.body["oidc"] ELSE acStored.oidc
  BY <1>1, <1>2, AcMerged
<1>7. /\ AcStamped' /\ DOMAIN acReq' = AcClients /\ acReq'[c] = AcNone
      /\ acTime' = acTime + 1 /\ \A d \in AcClients \ {c} : acReq'[d] = acReq[d]
      /\ \A k \in AcKeys \cup AcTokens :
           IF k \in DOMAIN r.body THEN acAt'[k].read = r.read /\ acAt'[k].done = acTime + 1
           ELSE acAt'[k] = acAt[k]
  BY <1>0, <1>1, AcCommitted
<1>8. /\ DOMAIN r.body \subseteq AcKeys
      /\ "mode" \in DOMAIN r.body =>
           /\ "oidc" \notin DOMAIN r.body
           /\ "proxies" \in DOMAIN r.body => r.body["mode"] = "forward" /\ r.body["proxies"] # {}
  BY <1>4, AcBodyIs
<1>9. AcTakesOpenly
  BY <1>1, <1>6, <1>7 DEF AcTakesOpenly, AcKeys
<1>10. \A d \in AcClients : acReq'[d] # AcNone => AcRequest(d, acReq[d])'
  BY <1>7, <1>9, AcOthersHold
<1>11. AcUsable'
  <2>0. /\ \A k \in AcKeys \cup AcTokens :
             /\ acAt[k].read \in Nat /\ acAt[k].done \in Nat /\ acTime \in Nat
             /\ acAt[k].read < acTime + 1 /\ acAt[k].done # acTime + 1
             /\ k \notin DOMAIN r.body => acAt'[k] = acAt[k]
             /\ k \in DOMAIN r.body => acAt'[k].read = r.read /\ acAt'[k].done = acTime + 1
    BY <1>2, <1>7 DEF AcStamped
  <2>1. ASSUME NEW k \in AcKeys \cap DOMAIN r.body, NEW l \in (AcKeys \cup AcTokens) \ DOMAIN r.body,
               AcSince(l, r)
        PROVE  AcOverlap(k, l)' /\ AcOverlap(l, k)'
    BY <2>0, <2>1 DEF AcSince, AcOverlap
  <2>2. \A t \in AcTokens : t \notin DOMAIN r.body
    BY <1>8, AcAssumption
  <2>3. ASSUME NEW k \in (AcKeys \cup AcTokens) \ DOMAIN r.body,
               NEW l \in (AcKeys \cup AcTokens) \ DOMAIN r.body, AcOverlap(k, l)
        PROVE  AcOverlap(k, l)'
    <3>1. acAt'[k] = acAt[k] /\ acAt'[l] = acAt[l]
      BY <2>0
    <3> QED BY <2>3, <3>1 DEF AcOverlap
  <2>4. acStored'.mode = "token" /\ acIssued' = {} =>
          \E t \in AcTokens : \E k \in AcTokens \cup {"mode"} : AcOverlap(t, k)'
    <3> SUFFICES ASSUME acStored'.mode = "token", acIssued = {}
                 PROVE  \E t \in AcTokens : \E k \in AcTokens \cup {"mode"} : AcOverlap(t, k)'
      BY <1>1
    <3>1. CASE "mode" \in DOMAIN r.body
      <4>1. PICK t \in AcTokens : AcSince(t, r)
        BY <1>3, <1>6, <3>1 DEF AcPutHolds
      <4>2. AcOverlap(t, "mode")'
        BY <2>1, <2>2, <3>1, <4>1 DEF AcKeys
      <4> QED BY <4>2
    <3>2. CASE "mode" \notin DOMAIN r.body
      <4>1. PICK t \in AcTokens, k \in AcTokens \cup {"mode"} : AcOverlap(t, k)
        BY <1>2, <1>6, <3>2 DEF AcUsable
      <4>2. AcOverlap(t, k)'
        BY <2>2, <2>3, <3>2, <4>1 DEF AcKeys
      <4> QED BY <4>2
    <3> QED BY <3>1, <3>2
  <2>5. acStored'.mode = "forward" /\ acStored'.proxies = {} => AcOverlap("mode", "proxies")'
    <3> SUFFICES ASSUME acStored'.mode = "forward", acStored'.proxies = {}
                 PROVE  AcOverlap("mode", "proxies")'
      OBVIOUS
    <3>1. CASE "mode" \in DOMAIN r.body
      <4>1. "proxies" \notin DOMAIN r.body /\ AcSince("proxies", r)
        BY <1>3, <1>6, <1>8, <3>1 DEF AcPutHolds
      <4> QED BY <2>1, <3>1, <4>1 DEF AcKeys
    <3>2. CASE "mode" \notin DOMAIN r.body /\ "proxies" \in DOMAIN r.body
      <4>1. AcSince("mode", r)
        BY <1>3, <1>6, <3>2 DEF AcPutHolds
      <4> QED BY <2>1, <3>2, <4>1 DEF AcKeys
    <3>3. CASE "mode" \notin DOMAIN r.body /\ "proxies" \notin DOMAIN r.body
      <4>1. AcOverlap("mode", "proxies")
        BY <1>2, <1>6, <3>3 DEF AcUsable
      <4> QED BY <2>3, <3>3, <4>1 DEF AcKeys
    <3> QED BY <3>1, <3>2, <3>3
  <2>6. acStored'.mode = "oidc" /\ ~acStored'.oidc => AcOverlap("mode", "oidc")'
    <3> SUFFICES ASSUME acStored'.mode = "oidc", ~acStored'.oidc
                 PROVE  AcOverlap("mode", "oidc")'
      OBVIOUS
    <3>1. CASE "mode" \in DOMAIN r.body
      <4>1. "oidc" \notin DOMAIN r.body /\ AcSince("oidc", r)
        BY <1>3, <1>6, <1>8, <3>1 DEF AcPutHolds
      <4> QED BY <2>1, <3>1, <4>1 DEF AcKeys
    <3>2. CASE "mode" \notin DOMAIN r.body /\ "oidc" \in DOMAIN r.body
      <4>1. AcSince("mode", r)
        BY <1>3, <1>6, <3>2 DEF AcPutHolds
      <4> QED BY <2>1, <3>2, <4>1 DEF AcKeys
    <3>3. CASE "mode" \notin DOMAIN r.body /\ "oidc" \notin DOMAIN r.body
      <4>1. AcOverlap("mode", "oidc")
        BY <1>2, <1>6, <3>3 DEF AcUsable
      <4> QED BY <2>3, <3>3, <4>1 DEF AcKeys
    <3> QED BY <3>1, <3>2, <3>3
  <2> QED BY <1>5, <2>4, <2>5, <2>6 DEF AcUsable
<1>12. AcNotLockedOut'
  <2> SUFFICES ASSUME r.read = acTime,
                      \/ acStored'.mode # acStored.mode
                      \/ acStored'.mode = "forward" /\ acStored'.proxies # acStored.proxies
               PROVE  \E t \in Sent(c) : Identify(c, t, TRUE, acStored)' # "denied"
    BY <1>1 DEF AcNotLockedOut, Sent
  <2>1. PICK t \in Sent(c) : checkAuthLockout(c, t, acStored, acStored')
    BY <1>1, <1>3 DEF AcFresh
  <2>2. PICK u \in Sent(c) : Identify(c, u, TRUE, acStored') # "denied"
    BY <1>2, <1>5, <2>1, AcCheckAdmits
  <2>3. Identify(c, u, TRUE, acStored)' = Identify(c, u, TRUE, acStored')
    BY <1>1 DEF Identify, identifyToken, identifyForward
  <2> QED BY <2>2, <2>3
<1> QED BY <1>1, <1>2, <1>7, <1>10, <1>11, <1>12 DEF AcInv

(* A token is revoked. *)
LEMMA AcDeleteKeeps ==
  ASSUME AcInv, NEW c \in AcClients, DeleteAPIToken(c)
  PROVE  AcInv'
<1>0. PICK r : r = acReq[c]
  OBVIOUS
<1> DEFINE gone == {r.token} \cap acIssued
<1>1. /\ acReq[c] # AcNone /\ r.kind = "delete" /\ acIssued' = acIssued \ {r.token}
      /\ acLast' = AcNone /\ AcDone(c, gone) /\ acStored' = acStored
  BY <1>0 DEF DeleteAPIToken
<1>2. /\ acIssued \subseteq AcTokens /\ AcStamped /\ AcRequest(c, r) /\ AcUsable
  BY <1>0, <1>1 DEF AcInv
<1>3. AcDeleteHolds(r) /\ r.read \in Nat /\ r.read <= acTime
  BY <1>1, <1>2 DEF AcRequest
<1>4. /\ AcStamped' /\ DOMAIN acReq' = AcClients /\ acReq'[c] = AcNone
      /\ acTime' = acTime + 1 /\ \A d \in AcClients \ {c} : acReq'[d] = acReq[d]
      /\ \A k \in AcKeys \cup AcTokens :
           IF k \in gone THEN acAt'[k].read = r.read /\ acAt'[k].done = acTime + 1
           ELSE acAt'[k] = acAt[k]
  BY <1>0, <1>1, AcCommitted
<1>5. AcTakesOpenly
  BY <1>1, <1>2, <1>4 DEF AcTakesOpenly
<1>6. \A d \in AcClients : acReq'[d] # AcNone => AcRequest(d, acReq[d])'
  BY <1>4, <1>5, AcOthersHold
<1>7. AcUsable'
  <2>1. AcKeys \cap gone = {}
    BY <1>2, AcAssumption
  <2>2. acAt'["mode"] = acAt["mode"] /\ acAt'["proxies"] = acAt["proxies"]
        /\ acAt'["oidc"] = acAt["oidc"]
    BY <1>4, <2>1 DEF AcKeys
  <2>3. ASSUME acStored.mode = "token", acIssued' = {}
        PROVE  \E t \in AcTokens : \E k \in AcTokens \cup {"mode"} : AcOverlap(t, k)'
    <3>1. CASE acIssued = {}
      <4>1. PICK t \in AcTokens, k \in AcTokens \cup {"mode"} : AcOverlap(t, k)
        BY <1>2, <2>3, <3>1 DEF AcUsable
      <4>2. acAt'[t] = acAt[t] /\ acAt'[k] = acAt[k]
        BY <1>4, <2>2, <3>1
      <4>3. AcOverlap(t, k)'
        BY <4>1, <4>2 DEF AcOverlap
      <4> QED BY <4>3
    <3>2. CASE acIssued # {}
      <4>1. acIssued = {r.token} /\ r.token \in AcTokens /\ r.token \in gone
        BY <1>1, <1>2, <2>3, <3>2
      <4>2. PICK k \in AcTokens \cup {"mode"} : k # r.token /\ AcSince(k, r)
        BY <1>3, <2>3, <4>1, AcAssumption DEF AcDeleteHolds, AcKeys
      <4>3. k \in AcKeys \cup AcTokens /\ k \notin gone
        BY <4>2 DEF AcKeys
      <4>4. AcOverlap(r.token, k)'
        BY <1>2, <1>4, <4>1, <4>2, <4>3 DEF AcOverlap, AcSince, AcStamped
      <4> QED BY <4>1, <4>4
    <3> QED BY <3>1, <3>2
  <2> QED BY <1>1, <1>2, <2>2, <2>3 DEF AcUsable, AcOverlap
<1> QED BY <1>1, <1>2, <1>4, <1>6, <1>7 DEF AcInv, AcNotLockedOut

(* Between a check and its commit others may write; what they take away    *)
(* that the check relied on is stamped.                                    *)
LEMMA AcInductive ==
  /\ AcInit => AcInv
  /\ AcInv /\ [AcNext]_acVars => AcInv'
<1>1. ASSUME AcInit PROVE AcInv
  <2>1. /\ acStored \in AcConf /\ acIssued \subseteq AcTokens
        /\ acStored.mode \in {"open", "token"} /\ (acStored.mode = "token" => acIssued # {})
    BY <1>1 DEF AcInit, AcConf
  <2>2. AcStamped
    BY <1>1 DEF AcInit, AcStamped
  <2> QED BY <1>1, <2>1, <2>2 DEF AcInit, AcInv, AcUsable, AcNotLockedOut
<1>2. ASSUME AcInv, [AcNext]_acVars PROVE AcInv'
  <2> USE <1>2
  <2>0. DOMAIN acReq = AcClients /\ acIssued \subseteq AcTokens /\ AcStamped /\ acStored \in AcConf
    BY DEF AcInv, AcUsable
  <2>1. ASSUME UNCHANGED <<acStored, acTime, acAt, acLast>>, acIssued \subseteq acIssued',
               acIssued' \subseteq AcTokens, DOMAIN acReq' = AcClients,
               \A d \in AcClients : acReq'[d] = acReq[d] \/ AcRequest(d, acReq[d])'
        PROVE  AcInv'
    <3>1. \A d \in AcClients : acReq'[d] # AcNone => AcRequest(d, acReq[d])'
      BY <2>1, AcWaits
    <3> QED BY <2>1, <3>1, AcStaysUsable DEF AcInv
  <2>2. CASE UNCHANGED acVars
    BY <2>0, <2>1, <2>2 DEF acVars
  <2>3. CASE AcApply
    BY <2>0, <2>1, <2>3 DEF AcApply
  <2>4. ASSUME NEW c \in AcClients, NEW r, AcPending(c, r), AcRequest(c, r)
        PROVE  AcInv'
    <3>1. /\ UNCHANGED <<acStored, acIssued, acLast, acTime, acAt>> /\ DOMAIN acReq' = AcClients
          /\ acReq'[c] = r /\ \A d \in AcClients \ {c} : acReq'[d] = acReq[d]
      BY <2>0, <2>4 DEF AcPending
    <3>2. AcRequest(c, r)'
      <4>1. mergeAuth(acStored, r.body)' = mergeAuth(acStored, r.body)
        BY <3>1 DEF mergeAuth
      <4>2. \A t : checkAuthLockout(c, t, acStored, mergeAuth(acStored, r.body)) =>
                   checkAuthLockout(c, t, acStored, mergeAuth(acStored, r.body))'
        BY <3>1, <4>1 DEF checkAuthLockout
      <4> QED BY <2>4, <3>1, <4>2 DEF AcRequest, AcPutHolds, AcDeleteHolds, AcSince, AcFresh, Sent
    <3>3. AcRequest(c, acReq[c])'
      BY <3>1, <3>2 DEF AcRequest, AcPutHolds, AcDeleteHolds, AcSince, AcFresh
    <3> QED BY <2>0, <2>1, <3>1, <3>3
  <2>5. ASSUME NEW c \in AcClients, AcPut(c) PROVE AcInv'
    <3>1. PICK t \in Sent(c), body \in AcBodies :
            /\ checkAuthLockout(c, t, acStored, mergeAuth(acStored, body))
            /\ AcPending(c, [kind |-> "put", body |-> body, token |-> AcNone, read |-> acTime])
      BY <2>5 DEF AcPut
    <3>2. PICK r : r = [kind |-> "put", body |-> body, token |-> AcNone, read |-> acTime]
      OBVIOUS
    <3>3. /\ DOMAIN r = {"kind", "body", "token", "read"} /\ r.kind = "put" /\ r.body = body
          /\ r.read = acTime
      BY <3>2
    <3>4. AcPutHolds(r)
      BY <2>0, <3>1, <3>3, AcPutBegins
    <3>5. AcRequest(c, r)
      BY <2>0, <3>1, <3>3, <3>4 DEF AcRequest, AcFresh, AcStamped
    <3> QED BY <2>4, <3>1, <3>2, <3>5
  <2>6. ASSUME NEW c \in AcClients, deleteToken(c) PROVE AcInv'
    <3>1. PICK t \in acIssued :
            AcPending(c, [kind |-> "delete", body |-> AcNone, token |-> t, read |-> acTime])
      BY <2>6 DEF deleteToken
    <3>2. PICK r : r = [kind |-> "delete", body |-> AcNone, token |-> t, read |-> acTime]
      OBVIOUS
    <3>3. /\ DOMAIN r = {"kind", "body", "token", "read"} /\ r.kind = "delete" /\ r.token = t
          /\ r.read = acTime
      BY <3>2
    <3>4. ASSUME acStored.mode = "token" PROVE \E u \in acIssued : u # t
      <4>1. Cardinality(acIssued) > 1
        BY <2>6, <3>4 DEF deleteToken, NeedsToken
      <4>2. acIssued = {t} => Cardinality(acIssued) = 1
        BY FS_Singleton
      <4> QED BY <3>1, <4>1, <4>2
    <3>5. AcRequest(c, r)
      BY <2>0, <3>3, <3>4 DEF AcRequest, AcDeleteHolds, AcStamped
    <3> QED BY <2>4, <3>1, <3>2, <3>5
  <2>7. ASSUME NEW c \in AcClients, createToken(c) PROVE AcInv'
    BY <2>0, <2>1, <2>7 DEF createToken
  <2> QED BY <2>2, <2>3, <2>5, <2>6, <2>7, AcCommitKeeps, AcDeleteKeeps DEF AcNext
<1> QED BY <1>1, <1>2

(***************************************************************************)
(* Targets: rows, queues and the history of revisions.                     *)
(***************************************************************************)

TgRows == [opt : TgOptions, queue : Nat]

(* The versions kept of a history of n revisions. *)
TgVersions(n) == {v \in 1 .. n : v > n - TgKeep}

TgShape ==
  /\ DOMAIN tgQueues \subseteq Nat /\ tgLastQueue \in Nat
  /\ tgLast \in 1 .. TgMaxTargets
  /\ DOMAIN tgRow = TgIds /\ \A i \in TgIds : tgRow[i] \in TgRows \cup {TgNone}
  /\ DOMAIN tgRevs = TgIds
  /\ \A i \in TgIds : \E n \in Nat : DOMAIN tgRevs[i] = TgVersions(n) /\ (n > 0 <=> i <= tgLast)
  /\ \A i \in TgIds : \A v \in DOMAIN tgRevs[i] : tgRevs[i][v].opt \in TgOptions
  /\ \A i \in TgIds : i > tgLast => tgRow[i] = TgNone

(* A request in flight names a target that has a history. *)
TgPending(r, k) ==
  /\ r.action \in {"create", "update", "revert", "restore"} /\ r.opt \in TgOptions
  /\ r.action # "create" => r.id \in 1 .. k

TgInv ==
  /\ TgShape /\ TgQueueExists /\ TgHistoryCurrent
  /\ DOMAIN tgReq = TgClients
  /\ \A c \in TgClients : tgReq[c] # TgNone => TgPending(tgReq[c], tgLast)

(* The ids a target can have, and a value that is none.                    *)
LEMMA TgIdsAre ==
  /\ TgMaxTargets \in Nat \ {0} /\ TgKeep \in Nat \ {0} /\ TgIds = 1 .. TgMaxTargets
  /\ TgNone \notin TgRows
<1> QED BY TgAssumption DEF TgIds, TgRows

(* The newest version of a history whose versions are known.               *)
LEMMA TgLatestIs ==
  ASSUME NEW i \in TgIds, NEW n \in Nat, DOMAIN tgRevs[i] = TgVersions(n)
  PROVE  TgLatest(i) = n
<1>0. TgKeep \in Nat \ {0}
  BY TgIdsAre
<1>1. CASE n = 0
  <2>1. DOMAIN tgRevs[i] = {}
    BY <1>1 DEF TgVersions
  <2> QED BY <1>1, <2>1 DEF TgLatest
<1>2. CASE n > 0
  <2>1. n \in DOMAIN tgRevs[i] /\ \A w \in DOMAIN tgRevs[i] : w <= n
    BY <1>0, <1>2 DEF TgVersions
  <2>2. \A v \in DOMAIN tgRevs[i] : v \in Nat
    BY DEF TgVersions
  <2>3. \A v \in DOMAIN tgRevs[i] : (\A w \in DOMAIN tgRevs[i] : w <= v) => v = n
    BY <2>1, <2>2
  <2> QED BY <2>1, <2>3 DEF TgLatest
<1> QED BY <1>1, <1>2

(* The same after a step.                                                  *)
LEMMA TgNextLatest ==
  ASSUME NEW i \in TgIds, NEW n \in Nat, DOMAIN tgRevs'[i] = TgVersions(n)
  PROVE  TgLatest(i)' = n
<1>0. TgKeep \in Nat \ {0}
  BY TgIdsAre
<1>1. CASE n = 0
  <2>1. DOMAIN tgRevs'[i] = {}
    BY <1>1 DEF TgVersions
  <2> QED BY <1>1, <2>1 DEF TgLatest
<1>2. CASE n > 0
  <2>1. n \in DOMAIN tgRevs'[i] /\ \A w \in DOMAIN tgRevs'[i] : w <= n
    BY <1>0, <1>2 DEF TgVersions
  <2>2. \A v \in DOMAIN tgRevs'[i] : v \in Nat
    BY DEF TgVersions
  <2>3. \A v \in DOMAIN tgRevs'[i] : (\A w \in DOMAIN tgRevs'[i] : w <= v) => v = n
    BY <2>1, <2>2
  <2> QED BY <2>1, <2>3 DEF TgLatest
<1> QED BY <1>1, <1>2

(* insertRevision adds the next version and lets the oldest one behind     *)
(* TgKeep go; other histories stay.                                        *)
LEMMA TgInserted ==
  ASSUME TgShape, NEW i \in TgIds, NEW action, NEW row \in TgRows,
         insertRevision(i, action, row)
  PROVE  \E n \in Nat :
           /\ DOMAIN tgRevs[i] = TgVersions(n) /\ (n > 0 <=> i <= tgLast)
           /\ DOMAIN tgRevs' = TgIds /\ \A j \in TgIds \ {i} : tgRevs'[j] = tgRevs[j]
           /\ DOMAIN tgRevs'[i] = TgVersions(n + 1)
           /\ tgRevs'[i][n + 1] = [action |-> action, opt |-> row.opt,
                                   queue |-> row.queue, lane |-> TgNone]
           /\ \A v \in TgVersions(n + 1) :
                v # n + 1 => v \in TgVersions(n) /\ tgRevs'[i][v] = tgRevs[i][v]
<1>1. PICK n \in Nat : DOMAIN tgRevs[i] = TgVersions(n) /\ (n > 0 <=> i <= tgLast)
  BY DEF TgShape
<1>2. TgLatest(i) = n
  BY <1>1, TgLatestIs
<1>3. TgKeep \in Nat \ {0}
  BY TgIdsAre
<1> DEFINE new == n + 1
           rev == [action |-> action, opt |-> row.opt, queue |-> row.queue, lane |-> TgNone]
           f == [v \in TgPruned(DOMAIN tgRevs[i] \cup {new}, new) |->
                   IF v = new THEN rev ELSE tgRevs[i][v]]
<1>4. tgRevs' = [tgRevs EXCEPT ![i] = f]
  BY <1>2 DEF insertRevision
<1>5. TgPruned(DOMAIN tgRevs[i] \cup {new}, new) = TgVersions(new)
  BY <1>1, <1>3 DEF TgPruned, TgVersions
<1>6. DOMAIN f = TgVersions(new) /\ new \in TgVersions(new)
  <2>1. new \in TgVersions(new)
    BY <1>3 DEF TgVersions
  <2> QED BY <1>5, <2>1
<1>7. \A v \in TgVersions(new) : v # new => v \in TgVersions(n)
  BY <1>3 DEF TgVersions
<1>8. f[new] = rev /\ \A v \in TgVersions(new) : v # new => f[v] = tgRevs[i][v]
  BY <1>5, <1>6
<1>9. DOMAIN tgRevs = TgIds
  BY DEF TgShape
<1> HIDE DEF f
<1>10. tgRevs'[i] = f /\ DOMAIN tgRevs' = TgIds /\ \A j \in TgIds \ {i} : tgRevs'[j] = tgRevs[j]
  BY <1>4, <1>9
<1>11. /\ DOMAIN tgRevs'[i] = TgVersions(new) /\ tgRevs'[i][new] = rev
       /\ \A v \in TgVersions(new) :
            v # new => v \in TgVersions(n) /\ tgRevs'[i][v] = tgRevs[i][v]
  BY <1>6, <1>7, <1>8, <1>10
<1> QED BY <1>1, <1>10, <1>11

(* The write of a row and of its revision, in one transaction. *)
LEMMA TgWritten ==
  ASSUME TgShape, TgQueueExists, TgHistoryCurrent,
         NEW i \in TgIds, NEW action, NEW row \in TgRows, insertRevision(i, action, row),
         tgLast' \in 1 .. TgMaxTargets, i <= tgLast', UNCHANGED tgLane,
         \/ tgLast' = tgLast
         \/ i = tgLast + 1 /\ tgLast' = i,
         \/ /\ tgRow' = [tgRow EXCEPT ![i] = row] /\ action # "delete"
            /\ row.queue \in DOMAIN tgQueues
         \/ tgRow' = [tgRow EXCEPT ![i] = TgNone] /\ action = "delete"
  PROVE  TgShape' /\ TgQueueExists' /\ TgHistoryCurrent'
<1>0. /\ TgMaxTargets \in Nat \ {0} /\ TgKeep \in Nat \ {0} /\ TgIds = 1 .. TgMaxTargets
      /\ TgNone \notin TgRows /\ tgLast \in 1 .. TgMaxTargets
  BY TgIdsAre DEF TgShape
<1>1. PICK n \in Nat :
           /\ DOMAIN tgRevs[i] = TgVersions(n) /\ (n > 0 <=> i <= tgLast)
           /\ DOMAIN tgRevs' = TgIds /\ \A j \in TgIds \ {i} : tgRevs'[j] = tgRevs[j]
           /\ DOMAIN tgRevs'[i] = TgVersions(n + 1)
           /\ tgRevs'[i][n + 1] = [action |-> action, opt |-> row.opt,
                                   queue |-> row.queue, lane |-> TgNone]
           /\ \A v \in TgVersions(n + 1) :
                v # n + 1 => v \in TgVersions(n) /\ tgRevs'[i][v] = tgRevs[i][v]
  BY TgInserted
<1>2. \E k \in Nat : DOMAIN tgRevs'[i] = TgVersions(k) /\ (k > 0 <=> i <= tgLast')
  <2>1. n + 1 \in Nat /\ n + 1 > 0
    OBVIOUS
  <2> QED BY <1>1, <2>1
<1>3. \A j \in TgIds \ {i} : j <= tgLast' <=> j <= tgLast
  BY <1>0
<1>4. \A j \in TgIds : \E k \in Nat : DOMAIN tgRevs'[j] = TgVersions(k) /\ (k > 0 <=> j <= tgLast')
  BY <1>1, <1>2, <1>3 DEF TgShape
<1>5. \A j \in TgIds : \A v \in DOMAIN tgRevs'[j] : tgRevs'[j][v].opt \in TgOptions
  <2>1. ASSUME NEW v \in DOMAIN tgRevs'[i] PROVE tgRevs'[i][v].opt \in TgOptions
    <3>1. CASE v = n + 1
      BY <1>1, <3>1 DEF TgRows
    <3>2. CASE v # n + 1
      BY <1>1, <3>2 DEF TgShape
    <3> QED BY <3>1, <3>2
  <2> QED BY <1>1, <2>1 DEF TgShape
<1>6. /\ DOMAIN tgRow' = TgIds /\ \A j \in TgIds \ {i} : tgRow'[j] = tgRow[j]
      /\ \/ tgRow'[i] = row /\ action # "delete" /\ row.queue \in DOMAIN tgQueues
         \/ tgRow'[i] = TgNone /\ action = "delete"
  BY DEF TgShape
<1>7. TgShape'
  <2>1. \A j \in TgIds : tgRow'[j] \in TgRows \cup {TgNone}
    BY <1>6 DEF TgShape
  <2>2. \A j \in TgIds : j > tgLast' => tgRow'[j] = TgNone
    BY <1>0, <1>6 DEF TgShape
  <2>3. DOMAIN tgQueues' \subseteq Nat /\ tgLastQueue' \in Nat
    BY DEF TgShape, tgLane
  <2> QED BY <1>1, <1>4, <1>5, <1>6, <2>1, <2>2, <2>3 DEF TgShape
<1>8. TgQueueExists'
  BY <1>0, <1>6 DEF TgQueueExists, tgLane
<1>9. TgHistoryCurrent'
  <2> DEFINE Good(j) == LET last == tgRevs[j][TgLatest(j)] IN
        /\ TgLatest(j) > 0
        /\ (tgRow[j] = TgNone) = (last.action = "delete")
        /\ tgRow[j] # TgNone => /\ last.opt = tgRow[j].opt
                                /\ last.queue \in {0, tgRow[j].queue}
  <2>1. ASSUME NEW j \in 1 .. tgLast', j # i PROVE Good(j)'
    <3>1. j \in TgIds \ {i} /\ j \in 1 .. tgLast
      BY <1>0, <2>1
    <3>2. tgRevs'[j] = tgRevs[j] /\ tgRow'[j] = tgRow[j]
      BY <1>1, <1>6, <3>1
    <3>3. TgLatest(j)' = TgLatest(j)
      BY <3>2 DEF TgLatest
    <3>4. Good(j)
      BY <3>1 DEF TgHistoryCurrent
    <3> QED BY <3>2, <3>3, <3>4
  <2>2. Good(i)'
    <3>1. TgLatest(i)' = n + 1
      <4>1. n + 1 \in Nat /\ i \in TgIds
        OBVIOUS
      <4>2. DOMAIN tgRevs'[i] = TgVersions(n + 1)
        BY <1>1
      <4> QED BY <4>1, <4>2, TgNextLatest
    <3>2. /\ tgRevs'[i][n + 1].action = action /\ tgRevs'[i][n + 1].opt = row.opt
          /\ tgRevs'[i][n + 1].queue = row.queue
      BY <1>1
    <3>3. n + 1 > 0
      OBVIOUS
    <3>4. (tgRow'[i] = TgNone) = (action = "delete")
      BY <1>0, <1>6
    <3>5. tgRow'[i] # TgNone => tgRow'[i] = row
      BY <1>6
    <3> QED BY <3>1, <3>2, <3>3, <3>4, <3>5
  <2> HIDE DEF Good
  <2>3. \A j \in 1 .. tgLast' : Good(j)'
    BY <2>1, <2>2
  <2> QED BY <2>3 DEF Good, TgHistoryCurrent
<1> QED BY <1>7, <1>8, <1>9

(* A step that leaves targets and queues alone keeps what relates them.    *)
LEMMA TgSame ==
  ASSUME TgInv, UNCHANGED tgData, UNCHANGED tgQueues, tgLastQueue' \in Nat
  PROVE  TgShape' /\ TgQueueExists' /\ TgHistoryCurrent'
<1>1. TgShape'
  BY DEF TgInv, TgShape, tgData
<1>2. TgQueueExists'
  BY DEF TgInv, TgQueueExists, tgData
<1>3. \A i \in TgIds : TgLatest(i)' = TgLatest(i)
  BY DEF TgLatest, tgData
<1>4. TgHistoryCurrent'
  <2>1. TgHistoryCurrent /\ tgRow' = tgRow /\ tgRevs' = tgRevs /\ tgLast' = tgLast
    BY DEF TgInv, tgData
  <2>2. 1 .. tgLast \subseteq TgIds
    BY TgIdsAre DEF TgInv, TgShape
  <2> QED BY <1>3, <2>1, <2>2 DEF TgHistoryCurrent
<1> QED BY <1>1, <1>2, <1>4

(* So does a step that only adds a queue or removes one that no target     *)
(* names.                                                                  *)
LEMMA TgMoreQueues ==
  ASSUME TgShape, TgQueueExists, TgHistoryCurrent, UNCHANGED tgData,
         tgLastQueue' \in Nat, DOMAIN tgQueues' \subseteq Nat,
         \A i \in TgIds : tgRow[i] # TgNone => tgRow[i].queue \in DOMAIN tgQueues'
  PROVE  TgShape' /\ TgQueueExists' /\ TgHistoryCurrent'
<1>1. TgShape'
  BY DEF TgShape, tgData
<1>2. TgQueueExists'
  BY DEF TgQueueExists, tgData
<1>3. \A i \in TgIds : TgLatest(i)' = TgLatest(i)
  BY DEF TgLatest, tgData
<1>4. TgHistoryCurrent'
  <2>1. TgHistoryCurrent /\ tgRow' = tgRow /\ tgRevs' = tgRevs /\ tgLast' = tgLast
    BY DEF tgData
  <2>2. 1 .. tgLast \subseteq TgIds
    BY TgIdsAre DEF TgShape
  <2> QED BY <1>3, <2>1, <2>2 DEF TgHistoryCurrent
<1> QED BY <1>1, <1>2, <1>4

(* Every handler, with its checks before and its writes inside the         *)
(* transaction, keeps targets, queues and histories together.              *)
LEMMA TgInductive ==
  /\ TgInit => TgInv
  /\ TgInv /\ [TgNext]_tgVars => TgInv'
<1>0. /\ TgMaxTargets \in Nat \ {0} /\ TgKeep \in Nat \ {0} /\ TgIds = 1 .. TgMaxTargets
      /\ TgNone \notin TgRows
  BY TgIdsAre
<1>1. ASSUME TgInit PROVE TgInv
  <2>1. PICK o \in TgOptions :
          /\ tgRow = [i \in TgIds |-> IF i = 1 THEN [opt |-> o, queue |-> 2] ELSE TgNone]
          /\ tgRevs = [i \in TgIds |->
                [v \in (IF i = 1 THEN {1} ELSE {}) |->
                    [action |-> "create", opt |-> o, queue |-> 0, lane |-> "lan"]]]
    BY <1>1 DEF TgInit
  <2>2. tgLast = 1 /\ tgLast \in 1 .. TgMaxTargets /\ 1 \in TgIds
    BY <1>0, <1>1 DEF TgInit
  <2>3. tgQueues = [q \in 1..2 |-> IF q = 1 THEN "wan" ELSE "lan"] /\ tgLastQueue = 2
        /\ tgReq = [c \in TgClients |-> TgNone]
    BY <1>1 DEF TgInit
  <2>4. DOMAIN tgQueues = {1, 2}
    BY <2>3
  <2>5. /\ tgRow[1] = [opt |-> o, queue |-> 2]
        /\ DOMAIN tgRevs[1] = {1} /\ tgRevs[1][1].action = "create"
        /\ tgRevs[1][1].opt = o /\ tgRevs[1][1].queue = 0
    BY <2>1, <2>2
  <2>6. \A i \in TgIds : i # 1 => tgRow[i] = TgNone /\ DOMAIN tgRevs[i] = {}
    BY <2>1
  <2>7. TgVersions(1) = {1} /\ TgVersions(0) = {}
    BY <1>0 DEF TgVersions
  <2>8. \A i \in TgIds : \E n \in Nat : DOMAIN tgRevs[i] = TgVersions(n) /\ (n > 0 <=> i <= tgLast)
    <3> TAKE i \in TgIds
    <3>1. CASE i = 1
      BY <2>2, <2>5, <2>7, <3>1
    <3>2. CASE i # 1
      <4>1. ~(i <= tgLast) /\ ~(0 > 0)
        BY <1>0, <2>2, <3>2
      <4>2. DOMAIN tgRevs[i] = TgVersions(0) /\ 0 \in Nat
        BY <2>6, <2>7, <3>2
      <4> QED BY <4>1, <4>2
    <3> QED BY <3>1, <3>2
  <2>9. tgRow[1] \in TgRows /\ tgRow[1].opt = o /\ tgRow[1].queue = 2
    BY <2>5 DEF TgRows
  <2>10. TgShape
    <3>1. \A i \in TgIds : i > tgLast => tgRow[i] = TgNone
      BY <1>0, <2>2, <2>6
    <3>2. \A i \in TgIds : \A v \in DOMAIN tgRevs[i] : tgRevs[i][v].opt \in TgOptions
      BY <2>5, <2>6
    <3>3. \A i \in TgIds : tgRow[i] \in TgRows \cup {TgNone}
      BY <2>6, <2>9
    <3>4. tgLast \in 1 .. TgMaxTargets /\ DOMAIN tgQueues \subseteq Nat /\ tgLastQueue \in Nat
          /\ DOMAIN tgRow = TgIds /\ DOMAIN tgRevs = TgIds
      BY <2>1, <2>2, <2>3, <2>4
    <3> QED BY <2>8, <3>1, <3>2, <3>3, <3>4 DEF TgShape
  <2>11. TgQueueExists
    BY <2>4, <2>6, <2>9 DEF TgQueueExists
  <2>12. TgHistoryCurrent
    <3>1. TgLatest(1) = 1
      BY <2>2, <2>5, <2>7, TgLatestIs
    <3>2. 1 .. tgLast = {1}
      BY <2>2
    <3>3. tgRow[1] # TgNone
      BY <1>0, <2>9
    <3> QED BY <2>5, <2>9, <3>1, <3>2, <3>3 DEF TgHistoryCurrent
  <2> QED BY <2>3, <2>10, <2>11, <2>12 DEF TgInv
<1>2. ASSUME TgInv, [TgNext]_tgVars PROVE TgInv'
  <2>0. /\ TgShape /\ TgQueueExists /\ TgHistoryCurrent /\ DOMAIN tgReq = TgClients
        /\ \A c \in TgClients : tgReq[c] # TgNone => TgPending(tgReq[c], tgLast)
        /\ tgLast \in 1 .. TgMaxTargets
    BY <1>2 DEF TgInv, TgShape
  (* the requests in flight *)
  <2>1. ASSUME UNCHANGED tgReq, tgLast' = tgLast
        PROVE  /\ DOMAIN tgReq' = TgClients
               /\ \A c \in TgClients : tgReq'[c] # TgNone => TgPending(tgReq'[c], tgLast')
    BY <2>0, <2>1 DEF TgPending
  <2>2. ASSUME NEW c \in TgClients, NEW r, TgBegin(c, r), TgPending(r, tgLast)
        PROVE  TgInv'
    <3>1. TgShape' /\ TgQueueExists' /\ TgHistoryCurrent'
      BY <1>2, <2>0, <2>2, TgSame DEF TgBegin, tgLane, TgShape
    <3>2. TgPending(r, tgLast')
      BY <2>2 DEF TgBegin, tgData, TgPending
    <3>3. ASSUME NEW d \in TgClients, tgReq'[d] # TgNone PROVE TgPending(tgReq'[d], tgLast')
      <4>1. CASE d = c
        BY <2>0, <2>2, <3>2, <4>1 DEF TgBegin
      <4>2. CASE d # c
        BY <2>0, <2>2, <3>3, <4>2 DEF TgBegin, tgData, TgPending
      <4> QED BY <4>1, <4>2
    <3> QED BY <2>0, <2>2, <3>1, <3>3 DEF TgInv, TgBegin
  <2>3. ASSUME NEW c \in TgClients, TgAnswered(c), tgLast' >= tgLast, tgLast' \in Nat
        PROVE  /\ DOMAIN tgReq' = TgClients
               /\ \A d \in TgClients : tgReq'[d] # TgNone => TgPending(tgReq'[d], tgLast')
    <3>1. \A d \in TgClients : tgReq'[d] # TgNone => tgReq'[d] = tgReq[d] /\ TgPending(tgReq[d], tgLast)
      BY <2>0, <2>3 DEF TgAnswered
    <3>2. \A k \in 1 .. tgLast : k \in 1 .. tgLast'
      BY <1>0, <2>0, <2>3
    <3> QED BY <2>0, <2>3, <3>1, <3>2 DEF TgAnswered, TgPending
  <2>4. CASE UNCHANGED tgVars
    <3>1. UNCHANGED <<tgData, tgQueues, tgReq>> /\ tgLast' = tgLast /\ tgLastQueue' \in Nat
      BY <2>0, <2>4 DEF tgVars, tgLane, tgData, TgShape
    <3>2. TgShape' /\ TgQueueExists' /\ TgHistoryCurrent'
      BY <1>2, <3>1, TgSame
    <3> QED BY <2>1, <3>1, <3>2 DEF TgInv
  <2>5. ASSUME NEW n \in TgNames, CreateQueue(n) PROVE TgInv'
    <3>1. DOMAIN tgQueues' = DOMAIN tgQueues \cup {tgLastQueue + 1} /\ UNCHANGED <<tgData, tgReq>>
          /\ tgLastQueue' = tgLastQueue + 1
      BY <2>5 DEF CreateQueue
    <3>2. DOMAIN tgQueues' \subseteq Nat /\ tgLastQueue' \in Nat
      BY <2>0, <3>1 DEF TgShape
    <3>3. DOMAIN tgQueues \subseteq DOMAIN tgQueues'
      BY <3>1
    <3>4. \A i \in TgIds : tgRow[i] # TgNone => tgRow[i].queue \in DOMAIN tgQueues'
      BY <2>0, <3>3 DEF TgQueueExists
    <3>5. TgShape' /\ TgQueueExists' /\ TgHistoryCurrent'
      BY <2>0, <3>1, <3>2, <3>4, TgMoreQueues
    <3> QED BY <2>1, <3>1, <3>5 DEF TgInv, tgData
  <2>6. ASSUME NEW q, NEW n \in TgNames, RenameQueue(q, n) PROVE TgInv'
    <3>1. DOMAIN tgQueues' = DOMAIN tgQueues /\ UNCHANGED <<tgLastQueue, tgData, tgReq>>
      BY <2>6 DEF RenameQueue
    <3> QED BY <2>0, <2>1, <3>1, TgMoreQueues DEF TgInv, tgData, TgShape, TgQueueExists
  <2>7. ASSUME NEW q, DeleteQueue(q) PROVE TgInv'
    <3>1. /\ DOMAIN tgQueues' = DOMAIN tgQueues \ {q} /\ UNCHANGED <<tgLastQueue, tgData, tgReq>>
          /\ \A i \in TgIds : tgRow[i] # TgNone => tgRow[i].queue # q
      BY <2>7 DEF DeleteQueue
    <3> QED BY <2>0, <2>1, <3>1, TgMoreQueues DEF TgInv, tgData, TgShape, TgQueueExists
  <2>8. ASSUME NEW c \in TgClients, createTarget(c) PROVE TgInv'
    <3>1. PICK o \in TgOptions, q \in DOMAIN tgQueues :
            TgBegin(c, [action |-> "create", id |-> 0, opt |-> o, queue |-> q])
      BY <2>8 DEF createTarget
    <3>2. TgPending([action |-> "create", id |-> 0, opt |-> o, queue |-> q], tgLast)
      BY DEF TgPending
    <3> QED BY <2>2, <3>1, <3>2
  <2>9. ASSUME NEW c \in TgClients, NEW i \in TgIds, updateTarget(c, i) PROVE TgInv'
    <3>1. PICK o \in TgOptions, q \in DOMAIN tgQueues :
            i <= tgLast /\ TgBegin(c, [action |-> "update", id |-> i, opt |-> o, queue |-> q])
      BY <2>9 DEF updateTarget
    <3>2. i \in 1 .. tgLast
      BY <1>0, <2>0, <3>1
    <3>3. TgPending([action |-> "update", id |-> i, opt |-> o, queue |-> q], tgLast)
      BY <3>2 DEF TgPending
    <3> QED BY <2>2, <3>1, <3>3
  <2>10. ASSUME NEW c \in TgClients, NEW i \in TgIds, revertTargetRevision(c, i) PROVE TgInv'
    <3>0. PICK v \in DOMAIN tgRevs[i] : \E q \in resolve(tgRevs[i][v]) :
            TgBegin(c, [action |-> "revert", id |-> i, opt |-> tgRevs[i][v].opt, queue |-> q])
      BY <2>10 DEF revertTargetRevision
    <3>1. PICK q \in resolve(tgRevs[i][v]) :
            TgBegin(c, [action |-> "revert", id |-> i, opt |-> tgRevs[i][v].opt, queue |-> q])
      BY <3>0
    <3>2. PICK n \in Nat : DOMAIN tgRevs[i] = TgVersions(n) /\ (n > 0 <=> i <= tgLast)
      BY <2>0 DEF TgShape
    <3>3. i \in 1 .. tgLast /\ tgRevs[i][v].opt \in TgOptions
      <4>1. n > 0
        BY <3>2 DEF TgVersions
      <4> QED BY <1>0, <2>0, <3>2, <4>1 DEF TgShape
    <3>4. TgPending([action |-> "revert", id |-> i, opt |-> tgRevs[i][v].opt, queue |-> q], tgLast)
      BY <3>3 DEF TgPending
    <3> QED BY <2>2, <3>1, <3>4
  <2>11. ASSUME NEW c \in TgClients, NEW i \in TgIds, restoreDeletedTarget(c, i) PROVE TgInv'
    <3> DEFINE last == tgRevs[i][TgLatest(i)]
    <3>1. TgLatest(i) > 0 /\ \E q \in resolve(last) :
            TgBegin(c, [action |-> "restore", id |-> i, opt |-> last.opt, queue |-> q])
      BY <2>11 DEF restoreDeletedTarget
    <3>2. PICK n \in Nat : DOMAIN tgRevs[i] = TgVersions(n) /\ (n > 0 <=> i <= tgLast)
      BY <2>0 DEF TgShape
    <3>3. TgLatest(i) = n
      BY <3>2, TgLatestIs
    <3>4. n \in DOMAIN tgRevs[i]
      BY <1>0, <3>1, <3>2, <3>3 DEF TgVersions
    <3>5. i \in 1 .. tgLast /\ last.opt \in TgOptions
      BY <1>0, <2>0, <3>1, <3>2, <3>3, <3>4 DEF TgShape
    <3> HIDE DEF last
    <3>6. PICK q \in resolve(last) :
            TgBegin(c, [action |-> "restore", id |-> i, opt |-> last.opt, queue |-> q])
      BY <3>1
    <3>7. TgPending([action |-> "restore", id |-> i, opt |-> last.opt, queue |-> q], tgLast)
      BY <3>5 DEF TgPending
    <3> QED BY <2>2, <3>6, <3>7
  (* a transaction that is rolled back, or commits *)
  <2>12. ASSUME NEW c \in TgClients, TgAnswered(c), UNCHANGED tgData PROVE TgInv'
    <3>1. TgShape' /\ TgQueueExists' /\ TgHistoryCurrent'
      BY <1>2, <2>0, <2>12, TgSame DEF TgAnswered, tgLane, TgShape
    <3>2. tgLast' >= tgLast /\ tgLast' \in Nat
      BY <1>0, <2>0, <2>12 DEF tgData
    <3> QED BY <2>3, <2>12, <3>1, <3>2 DEF TgInv
  <2>13. ASSUME NEW c \in TgClients, TgAnswered(c), NEW i \in TgIds, NEW action, action # "delete",
                tgReq[c] # TgNone, TgJoined(tgReq[c].queue),
                tgRow' = [tgRow EXCEPT ![i] = [opt |-> tgReq[c].opt, queue |-> tgReq[c].queue]],
                insertRevision(i, action, [opt |-> tgReq[c].opt, queue |-> tgReq[c].queue]),
                tgLast' \in 1 .. TgMaxTargets, i <= tgLast',
                \/ tgLast' = tgLast
                \/ i = tgLast + 1 /\ tgLast' = i
         PROVE  TgInv'
    <3> DEFINE row == [opt |-> tgReq[c].opt, queue |-> tgReq[c].queue]
    <3>1. row \in TgRows /\ row.queue \in DOMAIN tgQueues
      BY <2>0, <2>13 DEF TgJoined, TgPending, TgRows, TgShape
    <3>2. tgRow' = [tgRow EXCEPT ![i] = row] /\ insertRevision(i, action, row)
      BY <2>13
    <3> HIDE DEF row
    <3>3. TgShape' /\ TgQueueExists' /\ TgHistoryCurrent'
      BY <2>0, <2>13, <3>1, <3>2, TgWritten DEF TgAnswered
    <3>4. tgLast' >= tgLast /\ tgLast' \in Nat
      BY <1>0, <2>0, <2>13
    <3> QED BY <2>3, <2>13, <3>3, <3>4 DEF TgInv
  <2>14. ASSUME NEW c \in TgClients, CreateTarget(c) PROVE TgInv'
    <3>1. TgAnswered(c) /\ tgReq[c] # TgNone /\ tgLast < TgMaxTargets
      BY <2>14 DEF CreateTarget
    <3>2. CASE UNCHANGED tgData
      BY <2>12, <3>1, <3>2
    <3>3. CASE ~UNCHANGED tgData
      <4> DEFINE i == tgLast + 1
      <4>1. i \in TgIds /\ i \in 1 .. TgMaxTargets
        BY <1>0, <2>0, <3>1
      <4>2. /\ TgJoined(tgReq[c].queue) /\ tgLast' = i
            /\ tgRow' = [tgRow EXCEPT ![i] = [opt |-> tgReq[c].opt, queue |-> tgReq[c].queue]]
            /\ insertRevision(i, "create", [opt |-> tgReq[c].opt, queue |-> tgReq[c].queue])
        BY <2>14, <3>3 DEF CreateTarget
      <4>3. i <= tgLast'
        BY <4>1, <4>2
      <4> HIDE DEF i
      <4>4. i = tgLast + 1
        BY DEF i
      <4> QED BY <2>13, <3>1, <4>1, <4>2, <4>3, <4>4
    <3> QED BY <3>2, <3>3
  <2>15. ASSUME NEW c \in TgClients, updateTargetWithAction(c) PROVE TgInv'
    <3>1. TgAnswered(c) /\ tgReq[c] # TgNone /\ tgReq[c].action \in {"update", "revert"}
      BY <2>15 DEF updateTargetWithAction
    <3>2. CASE UNCHANGED tgData
      BY <2>12, <3>1, <3>2
    <3>3. CASE ~UNCHANGED tgData
      <4>1. /\ TgJoined(tgReq[c].queue) /\ tgLast' = tgLast
            /\ tgRow' = [tgRow EXCEPT ![tgReq[c].id] =
                           [opt |-> tgReq[c].opt, queue |-> tgReq[c].queue]]
            /\ insertRevision(tgReq[c].id, tgReq[c].action,
                              [opt |-> tgReq[c].opt, queue |-> tgReq[c].queue])
        BY <2>15, <3>3 DEF updateTargetWithAction
      <4>2. tgReq[c].id \in 1 .. tgLast /\ tgReq[c].action # "delete"
        BY <2>0, <3>1 DEF TgPending
      <4>3. tgReq[c].id \in TgIds /\ tgReq[c].id <= tgLast'
        BY <1>0, <2>0, <4>1, <4>2
      <4> QED BY <2>0, <2>13, <3>1, <4>1, <4>2, <4>3
    <3> QED BY <3>2, <3>3
  <2>16. ASSUME NEW c \in TgClients, RestoreTarget(c) PROVE TgInv'
    <3>1. TgAnswered(c) /\ tgReq[c] # TgNone /\ tgReq[c].action = "restore"
      BY <2>16 DEF RestoreTarget
    <3>2. CASE UNCHANGED tgData
      BY <2>12, <3>1, <3>2
    <3>3. CASE ~UNCHANGED tgData
      <4>1. /\ TgJoined(tgReq[c].queue) /\ tgLast' = tgLast
            /\ tgRow' = [tgRow EXCEPT ![tgReq[c].id] =
                           [opt |-> tgReq[c].opt, queue |-> tgReq[c].queue]]
            /\ insertRevision(tgReq[c].id, "restore",
                              [opt |-> tgReq[c].opt, queue |-> tgReq[c].queue])
        BY <2>16, <3>3 DEF RestoreTarget
      <4>2. tgReq[c].id \in 1 .. tgLast
        BY <2>0, <3>1 DEF TgPending
      <4>3. tgReq[c].id \in TgIds /\ tgReq[c].id <= tgLast'
        BY <1>0, <2>0, <4>1, <4>2
      <4> QED BY <2>0, <2>13, <3>1, <4>1, <4>2, <4>3
    <3> QED BY <3>2, <3>3
  <2>17. ASSUME NEW i \in TgIds, DeleteTarget(i) PROVE TgInv'
    <3>1. /\ tgRow[i] # TgNone /\ insertRevision(i, "delete", tgRow[i])
          /\ tgRow' = [tgRow EXCEPT ![i] = TgNone] /\ UNCHANGED <<tgLane, tgLast, tgReq>>
      BY <2>17 DEF DeleteTarget
    <3>2. tgRow[i] \in TgRows /\ i <= tgLast
      BY <1>0, <2>0, <3>1 DEF TgShape
    <3>3. TgShape' /\ TgQueueExists' /\ TgHistoryCurrent'
      BY <2>0, <3>1, <3>2, TgWritten
    <3> QED BY <2>1, <3>1, <3>3 DEF TgInv
  <2> QED BY <1>2, <2>4, <2>5, <2>6, <2>7, <2>8, <2>9, <2>10, <2>11, <2>14, <2>15, <2>16, <2>17
          DEF TgNext
<1> QED BY <1>1, <1>2

(* An append to a history drops at most the revision behind TgKeep others. *)
LEMMA TgAppendKeeps ==
  ASSUME TgShape, NEW i \in TgIds, NEW action, NEW row \in TgRows,
         insertRevision(i, action, row)
  PROVE  TgHistoryKept
<1>0. TgKeep \in Nat \ {0}
  BY TgIdsAre
<1>1. PICK n \in Nat :
           /\ DOMAIN tgRevs[i] = TgVersions(n)
           /\ \A j \in TgIds \ {i} : tgRevs'[j] = tgRevs[j]
           /\ DOMAIN tgRevs'[i] = TgVersions(n + 1)
           /\ \A v \in TgVersions(n + 1) :
                v # n + 1 => v \in TgVersions(n) /\ tgRevs'[i][v] = tgRevs[i][v]
  BY TgInserted
<1>2. ASSUME NEW v \in TgVersions(n), v \in TgVersions(n + 1)
      PROVE  tgRevs'[i][v] = tgRevs[i][v]
  <2>1. v # n + 1
    BY DEF TgVersions
  <2> QED BY <1>1, <1>2, <2>1
<1>3. ASSUME NEW v \in TgVersions(n), v \notin TgVersions(n + 1)
      PROVE  Cardinality({w \in DOMAIN tgRevs'[i] : w > v}) >= TgKeep
  <2>1. v \in Nat /\ v + 1 \in Int /\ n + 1 \in Int /\ v = n + 1 - TgKeep /\ v <= n
    BY <1>0, <1>3 DEF TgVersions
  <2>2. {w \in DOMAIN tgRevs'[i] : w > v} = (v + 1) .. (n + 1)
    BY <1>0, <1>1, <2>1 DEF TgVersions
  <2>3. Cardinality((v + 1) .. (n + 1)) = TgKeep
    <3> DEFINE a == v + 1
               b == n + 1
    <3>1. a \in Int /\ b \in Int /\ ~(a > b) /\ b - a + 1 = TgKeep
      BY <1>0, <2>1
    <3> HIDE DEF a, b
    <3>2. Cardinality(a .. b) = TgKeep
      BY <3>1, FS_Interval
    <3> QED BY <3>2 DEF a, b
  <2> DEFINE newer == {w \in DOMAIN tgRevs'[i] : w > v}
  <2>4. Cardinality(newer) = TgKeep
    BY <2>2, <2>3, Zenon
  <2>5. TgKeep >= TgKeep
    BY <1>0
  <2> HIDE DEF newer
  <2>6. Cardinality(newer) >= TgKeep
    BY <2>4, <2>5
  <2> QED BY <2>6 DEF newer
<1> QED BY <1>1, <1>2, <1>3 DEF TgHistoryKept

(* A step keeps every revision that is not behind TgKeep newer ones, and   *)
(* only adds at the end.                                                   *)
LEMMA TgKeepsHistory == TgInv /\ [TgNext]_tgVars => TgHistoryKept
<1> SUFFICES ASSUME TgInv, [TgNext]_tgVars PROVE TgHistoryKept
  OBVIOUS
<1>1. CASE tgRevs' = tgRevs
  BY <1>1 DEF TgHistoryKept
<1>2. ASSUME tgRevs' # tgRevs
      PROVE  \E i \in TgIds, row \in TgRows :
               \E action \in {"create", "update", "revert", "restore", "delete"} :
                 insertRevision(i, action, row)
  <2>0. TgShape /\ TgIds = 1 .. TgMaxTargets /\ TgMaxTargets \in Nat \ {0}
    BY TgIdsAre DEF TgInv
  <2>1. TgNext
    BY <1>2 DEF tgVars, tgData
  <2>2. ASSUME NEW c \in TgClients, tgReq[c] # TgNone, TgJoined(tgReq[c].queue)
        PROVE  /\ [opt |-> tgReq[c].opt, queue |-> tgReq[c].queue] \in TgRows
               /\ tgReq[c].action # "create" => tgReq[c].id \in TgIds
    <3>1. tgReq[c].opt \in TgOptions /\ tgReq[c].queue \in Nat
      BY <2>2 DEF TgInv, TgShape, TgJoined, TgPending
    <3>2. tgReq[c].action # "create" => tgReq[c].id \in TgIds
      BY <2>0, <2>2 DEF TgInv, TgShape, TgPending
    <3> QED BY <3>1, <3>2 DEF TgRows
  <2>3. ASSUME NEW i \in TgIds, DeleteTarget(i)
        PROVE  tgRow[i] \in TgRows /\ insertRevision(i, "delete", tgRow[i])
    BY <2>0, <2>3 DEF DeleteTarget, TgShape
  <2>4. ASSUME NEW c \in TgClients, CreateTarget(c)
        PROVE  \E i \in TgIds, row \in TgRows : insertRevision(i, "create", row)
    <3>1. /\ tgReq[c] # TgNone /\ tgLast < TgMaxTargets /\ TgJoined(tgReq[c].queue)
          /\ insertRevision(tgLast + 1, "create",
                            [opt |-> tgReq[c].opt, queue |-> tgReq[c].queue])
      BY <1>2, <2>4 DEF CreateTarget, tgData
    <3>2. tgLast + 1 \in TgIds
      BY <2>0, <3>1 DEF TgShape
    <3> QED BY <2>2, <3>1, <3>2
  <2>5. ASSUME NEW c \in TgClients, updateTargetWithAction(c) \/ RestoreTarget(c)
        PROVE  \E i \in TgIds, row \in TgRows : \E action \in {"update", "revert", "restore"} :
                 insertRevision(i, action, row)
    <3>1. /\ tgReq[c] # TgNone /\ tgReq[c].action \in {"update", "revert", "restore"}
          /\ TgJoined(tgReq[c].queue)
          /\ insertRevision(tgReq[c].id, tgReq[c].action,
                            [opt |-> tgReq[c].opt, queue |-> tgReq[c].queue])
      BY <1>2, <2>5 DEF updateTargetWithAction, RestoreTarget, tgData
    <3> QED BY <2>2, <3>1
  <2>6. \/ \E i \in TgIds : DeleteTarget(i)
        \/ \E c \in TgClients : CreateTarget(c) \/ updateTargetWithAction(c) \/ RestoreTarget(c)
    <3>1. \A n, q : CreateQueue(n) \/ DeleteQueue(q) \/ RenameQueue(q, n) => tgRevs' = tgRevs
      BY DEF CreateQueue, DeleteQueue, RenameQueue, tgData
    <3>2. \A c, i : createTarget(c) \/ updateTarget(c, i) \/ revertTargetRevision(c, i)
                     \/ restoreDeletedTarget(c, i) => tgRevs' = tgRevs
      BY DEF createTarget, updateTarget, revertTargetRevision, restoreDeletedTarget, TgBegin, tgData
    <3> QED BY <1>2, <2>1, <3>1, <3>2 DEF TgNext
  <2> QED BY <2>3, <2>4, <2>5, <2>6
<1>3. ASSUME NEW i \in TgIds, NEW row \in TgRows, NEW action, insertRevision(i, action, row)
      PROVE  TgHistoryKept
  BY <1>3, TgAppendKeeps DEF TgInv
<1> QED BY <1>1, <1>2, <1>3

(***************************************************************************)
(* Overlap: the merge walk over two lists of firings.                      *)
(***************************************************************************)

(* A set of positions that is closed downwards is a prefix. *)
LEMMA OvPrefix ==
  ASSUME NEW n \in Nat, NEW S \in SUBSET (1 .. n),
         \A k \in S : \A j \in 1 .. k : j \in S
  PROVE  Cardinality(S) \in 0 .. n /\ S = 1 .. Cardinality(S)
<1>1. IsFiniteSet(1 .. n) /\ Cardinality(1 .. n) = n
  BY FS_Interval
<1>2. IsFiniteSet(S) /\ Cardinality(S) \in Nat /\ Cardinality(S) <= n
  BY <1>1, FS_Subset, FS_CardinalityType
<1>3. ASSUME NEW j \in 1 .. Cardinality(S), j \notin S PROVE FALSE
  <2>1. S \subseteq 1 .. (j - 1)
    <3> SUFFICES ASSUME NEW k \in S, ~(k < j) PROVE FALSE
      BY <1>2
    <3>1. k \in 1 .. n /\ j \in 1 .. k
      BY <1>2
    <3> QED BY <1>3, <3>1
  <2> DEFINE m == j - 1
  <2>2. m \in Nat /\ m < Cardinality(S)
    BY <1>2
  <2>3. IsFiniteSet(1 .. m) /\ Cardinality(1 .. m) = m
    BY <2>2, FS_Interval
  <2>4. S \subseteq 1 .. m
    BY <2>1
  <2> HIDE DEF m
  <2>5. Cardinality(S) <= Cardinality(1 .. m)
    BY <2>3, <2>4, FS_Subset
  <2> QED BY <1>2, <2>2, <2>3, <2>5
<1>4. ASSUME NEW k \in S PROVE k \in 1 .. Cardinality(S)
  <2>1. k \in Nat /\ k >= 1
    OBVIOUS
  <2>2. 1 .. k \subseteq S
    OBVIOUS
  <2>3. Cardinality(1 .. k) = k
    BY <2>1, FS_Interval
  <2>4. Cardinality(1 .. k) <= Cardinality(S)
    BY <1>2, <2>2, FS_Subset
  <2> QED BY <1>2, <2>1, <2>3, <2>4
<1>5. Cardinality(S) \in 0 .. n
  BY <1>2
<1>6. \A j \in 1 .. Cardinality(S) : j \in S
  BY <1>3
<1>7. S = 1 .. Cardinality(S)
  BY <1>4, <1>6
<1> QED BY <1>5, <1>7

OvSchedules == OvOthers \cup {OvSubject}

(* The fires of a schedule ascend. *)
OvListed == \A c \in OvSchedules : ovTimes[c] \in OvLists

(* A list of firings is a strictly rising sequence.                        *)
LEMMA OvListIs ==
  ASSUME NEW s \in OvLists
  PROVE  \E n \in Nat :
           /\ DOMAIN s = 1 .. n /\ \A k \in 1 .. n : s[k] \in Nat
           /\ s \in Seq(Nat) /\ Len(s) = n
           /\ \A i, j \in 1 .. n : i < j => s[i] < s[j]
<1>0. OvMaxTime \in Nat /\ OvMaxLen \in Nat
  BY OvAssumption
<1>1. PICK n \in 0 .. OvMaxLen : s \in [1..n -> 1..OvMaxTime]
  BY DEF OvLists
<1>2. n \in Nat /\ DOMAIN s = 1 .. n /\ \A k \in 1 .. n : s[k] \in Nat
  BY <1>0, <1>1
<1>3. s = [k \in 1 .. n |-> s[k]]
  BY <1>1
<1>4. s \in Seq(Nat) /\ Len(s) = n
  BY <1>1, <1>2, <1>3, LenProperties
<1> QED BY <1>2, <1>4 DEF OvLists, OvAscending

(* The firings within the horizon are a prefix of the list, so they rise   *)
(* as well.                                                                *)
LEMMA OvFires ==
  ASSUME OvListed, NEW c \in OvSchedules
  PROVE  /\ DOMAIN firesWithin(c) = OvCounted(ovTimes[c])
         /\ \A k \in OvCounted(ovTimes[c]) :
              firesWithin(c)[k] = ovTimes[c][k] /\ firesWithin(c)[k] \in Nat
         /\ Len(firesWithin(c)) \in Nat /\ DOMAIN firesWithin(c) = 1 .. Len(firesWithin(c))
         /\ \A i, j \in DOMAIN firesWithin(c) : i < j => firesWithin(c)[i] < firesWithin(c)[j]
         /\ firesWithin(c) = <<>> <=> DOMAIN firesWithin(c) = {}
<1> DEFINE s == ovTimes[c]
           m == Cardinality(OvCounted(s))
<1>0. OvWindow \in Nat /\ OvMaxFires \in Nat
  BY OvAssumption
<1>1. PICK n \in Nat :
           /\ DOMAIN s = 1 .. n /\ \A k \in 1 .. n : s[k] \in Nat
           /\ s \in Seq(Nat) /\ Len(s) = n
           /\ \A i, j \in 1 .. n : i < j => s[i] < s[j]
  BY OvListIs DEF OvListed
<1>2. OvCounted(s) \in SUBSET (1 .. n)
  BY <1>1 DEF OvCounted
<1>3. \A k \in OvCounted(s) : \A j \in 1 .. k : j \in OvCounted(s)
  <2> SUFFICES ASSUME NEW k \in OvCounted(s), NEW j \in 1 .. k PROVE j \in OvCounted(s)
    OBVIOUS
  <2>1. k \in 1 .. n /\ s[k] <= OvWindow /\ k <= OvMaxFires /\ s[k] \in Nat
    BY <1>1 DEF OvCounted
  <2>2. j \in 1 .. n /\ j <= OvMaxFires /\ s[j] \in Nat /\ (j = k \/ s[j] < s[k])
    BY <1>0, <1>1, <2>1
  <2> QED BY <1>0, <1>1, <2>1, <2>2 DEF OvCounted
<1>4. m \in 0 .. n /\ OvCounted(s) = 1 .. m
  BY <1>2, <1>3, OvPrefix
<1> HIDE DEF m
<1>5. firesWithin(c) = SubSeq(s, 1, m)
  BY DEF firesWithin, m
<1> HIDE DEF s
<1>6. /\ firesWithin(c) \in Seq(Nat) /\ Len(firesWithin(c)) = m
      /\ \A k \in 1 .. m : firesWithin(c)[k] = s[k]
  BY <1>1, <1>4, <1>5
<1>7. DOMAIN firesWithin(c) = 1 .. m /\ m \in Nat
  BY <1>4, <1>6, LenProperties
<1>8. firesWithin(c) = <<>> <=> DOMAIN firesWithin(c) = {}
  BY <1>6, <1>7, EmptySeq
<1>9. \A k \in OvCounted(s) : firesWithin(c)[k] = s[k] /\ firesWithin(c)[k] \in Nat
  BY <1>1, <1>4, <1>6
<1>10. \A i, j \in DOMAIN firesWithin(c) : i < j => firesWithin(c)[i] < firesWithin(c)[j]
  BY <1>1, <1>4, <1>6, <1>7
<1> QED BY <1>4, <1>6, <1>7, <1>8, <1>9, <1>10 DEF s

OvNearPair(o, i, j) == OvNear(OvMine[i], firesWithin(o)[j])

OvTypes ==
  /\ OvListed /\ ovShared \subseteq OvOthers /\ ovTodo \subseteq OvOthers
  /\ ovWith \in OvOthers \cup {OvNone}
  /\ ovI \in Nat \ {0} /\ ovJ \in Nat \ {0}
  /\ DOMAIN ovWarned = OvOthers

(* Everything the walk has left behind is not near anything. *)
OvWalked ==
  ovWith # OvNone =>
    /\ ovWith \in ovShared /\ ovWith \notin ovTodo
    /\ \A i \in DOMAIN OvMine, j \in DOMAIN OvTheirs :
         i < ovI \/ j < ovJ => ~OvNearPair(ovWith, i, j)

OvInv ==
  /\ OvTypes /\ OvWalked
  /\ \A o \in OvOthers : ~OvSettled(o) => ovWarned[o] = OvNone
  /\ OvFirst

(* OvFirst for one other, without LET. *)
OvNearTo(o) == {i \in DOMAIN OvMine : \E j \in DOMAIN firesWithin(o) : OvNearPair(o, i, j)}
OvFirstOf(o) ==
  IF o \in ovShared /\ OvNearTo(o) # {}
  THEN \E i \in OvNearTo(o) : ovWarned[o] = OvMine[i] /\ \A k \in OvNearTo(o) : i <= k
  ELSE ovWarned[o] = OvNone

(* OvFirst, one other schedule at a time.                                  *)
LEMMA OvFirstIs == OvFirst <=> \A o \in OvOthers : OvSettled(o) => OvFirstOf(o)
<1> QED BY DEF OvFirst, OvFirstOf, OvNearTo, OvNearPair

(* The same after a step.                                                  *)
LEMMA OvFirstIsNext ==
  UNCHANGED ovInput => (OvFirst' <=> \A o \in OvOthers : OvSettled(o)' => OvFirstOf(o)')
<1> QED BY DEF OvFirst, OvFirstOf, OvNearTo, OvNearPair

(* The lists do not change while they are walked.                          *)
LEMMA OvFixed ==
  ASSUME UNCHANGED ovInput
  PROVE  /\ OvListed' <=> OvListed
         /\ OvMine' = OvMine /\ \A o : firesWithin(o)' = firesWithin(o)
         /\ \A o : OvNearTo(o)' = OvNearTo(o)
<1> QED BY DEF ovInput, OvListed, OvMine, firesWithin, OvNearTo, OvNearPair

(* The walk moves the pointer of the earlier firing: what it leaves behind *)
(* is near to nothing that is still to come.                               *)
LEMMA OvInductive ==
  /\ OvInit => OvInv
  /\ OvInv /\ [OvNext]_ovVars => OvInv'
<1>0. /\ OvSubject \in OvSchedules /\ OvOthers \subseteq OvSchedules
      /\ OvNone \notin OvOthers /\ OvNone \notin Nat /\ OvThreshold \in Nat
  BY OvAssumption DEF OvSchedules
<1>1. ASSUME OvInit PROVE OvInv
  <2>1. OvTypes
    BY <1>1 DEF OvInit, OvTypes, OvListed, OvSchedules
  <2>2. \A o \in OvOthers : ~OvSettled(o) /\ ovWarned[o] = OvNone
    BY <1>1 DEF OvInit, OvSettled
  <2>3. OvWalked
    BY <1>1 DEF OvInit, OvWalked
  <2> QED BY <2>1, <2>2, <2>3 DEF OvInv, OvFirst
<1>2. ASSUME OvInv, [OvNext]_ovVars PROVE OvInv'
  <2>0. OvTypes /\ OvWalked /\ OvFirst
        /\ (\A o \in OvOthers : ~OvSettled(o) => ovWarned[o] = OvNone)
        /\ OvListed
    BY <1>2 DEF OvInv, OvTypes
  <2>1. \A o \in OvOthers : OvSettled(o) => OvFirstOf(o)
    BY <2>0, OvFirstIs
  (* an other that was settled and one that still waits are left alone *)
  <2>2. ASSUME NEW o \in OvOthers, UNCHANGED ovInput, ovWarned'[o] = ovWarned[o], OvFirstOf(o)
        PROVE  OvFirstOf(o)'
    BY <2>2, OvFixed DEF OvFirstOf, ovInput
  <2>3. ASSUME NEW o \in OvOthers, UNCHANGED ovInput, ovWarned'[o] = ovWarned[o],
               ~OvSettled(o), o \notin ovShared \/ OvNearTo(o) = {}
        PROVE  OvFirstOf(o)'
    BY <2>0, <2>3, OvFixed DEF OvFirstOf, ovInput
  <2>4. CASE UNCHANGED ovVars
    <3>1. UNCHANGED <<ovInput, ovTodo, ovWith, ovI, ovJ, ovWarned>>
      BY <2>4 DEF ovVars
    <3>2. OvTypes' /\ OvWalked'
      BY <2>0, <3>1, OvFixed DEF OvTypes, OvWalked, ovInput, OvTheirs, OvNearPair
    <3>3. \A o \in OvOthers : OvSettled(o)' = OvSettled(o)
      BY <3>1 DEF OvSettled
    <3>4. OvFirst'
      BY <2>1, <2>2, <3>1, <3>3, OvFirstIsNext
    <3>5. \A o \in OvOthers : ~OvSettled(o)' => ovWarned'[o] = OvNone
      BY <2>0, <3>1, <3>3
    <3> QED BY <3>2, <3>4, <3>5 DEF OvInv
  <2>5. ASSUME NEW o \in OvOthers, FindOverlaps(o) PROVE OvInv'
    <3>1. /\ ovWith = OvNone /\ o \in ovTodo /\ UNCHANGED <<ovInput, ovWarned>>
          /\ ovTodo' = (IF OvMine = << >> THEN {} ELSE ovTodo \ {o})
          /\ ovWith' = (IF o \in ovShared /\ OvMine # << >> /\ firesWithin(o) # << >>
                        THEN o ELSE OvNone)
          /\ ovI' = 1 /\ ovJ' = 1
      BY <2>5 DEF FindOverlaps
    <3>2. OvTypes'
      BY <1>0, <2>0, <3>1, OvFixed DEF OvTypes, ovInput
    <3>3. OvWalked'
      <4>1. ASSUME ovWith' # OvNone
            PROVE  ovWith' = o /\ o \in ovShared' /\ o \notin ovTodo'
        BY <3>1, <4>1 DEF ovInput
      <4>2. \A i \in DOMAIN OvMine : i \in Nat /\ i >= 1
        BY <1>0, <2>0, OvFires DEF OvMine
      <4>3. \A j \in DOMAIN firesWithin(o) : j \in Nat /\ j >= 1
        BY <1>0, <2>0, OvFires
      <4>4. OvMine' = OvMine /\ firesWithin(o)' = firesWithin(o)
        BY <3>1, OvFixed
      <4>5. ASSUME ovWith' # OvNone PROVE OvTheirs' = firesWithin(o)
        <5>1. ovWith' = o
          BY <4>1, <4>5
        <5>2. OvTheirs' = firesWithin(o)'
          BY <5>1 DEF OvTheirs, firesWithin
        <5> QED BY <4>4, <5>2
      <4>6. ASSUME ovWith' # OvNone, NEW i \in DOMAIN OvMine', NEW j \in DOMAIN OvTheirs'
            PROVE  ~(i < ovI' \/ j < ovJ')
        <5>1. i \in DOMAIN OvMine /\ j \in DOMAIN firesWithin(o)
          BY <4>4, <4>5, <4>6
        <5>2. i \in Nat /\ i >= 1 /\ j \in Nat /\ j >= 1
          BY <4>2, <4>3, <5>1
        <5> QED BY <3>1, <5>2
      <4>7. ASSUME ovWith' # OvNone
            PROVE  \A i \in DOMAIN OvMine', j \in DOMAIN OvTheirs' :
                     i < ovI' \/ j < ovJ' => ~OvNearPair(ovWith, i, j)'
        BY <4>6, <4>7
      <4> QED BY <4>1, <4>7 DEF OvWalked
    <3>4. ASSUME NEW p \in OvOthers, OvSettled(p)' PROVE OvFirstOf(p)'
      <4>1. CASE OvSettled(p)
        BY <2>1, <2>2, <3>1, <4>1
      <4>2. CASE ~OvSettled(p)
        <5>1. p \in ovTodo
          BY <1>0, <3>1, <4>2 DEF OvSettled
        <5>2. OvMine = <<>> \/ (p = o /\ (p \notin ovShared \/ firesWithin(p) = <<>>))
          BY <3>1, <3>4, <5>1 DEF OvSettled
        <5>3. OvMine = <<>> => DOMAIN OvMine = {}
          BY <1>0, <2>0, OvFires DEF OvMine
        <5>4. firesWithin(p) = <<>> => DOMAIN firesWithin(p) = {}
          BY <1>0, <2>0, OvFires
        <5>5. p \notin ovShared \/ OvNearTo(p) = {}
          BY <5>2, <5>3, <5>4 DEF OvNearTo
        <5> QED BY <2>3, <3>1, <4>2, <5>5
      <4> QED BY <4>1, <4>2
    <3>5. OvFirst'
      BY <3>1, <3>4, OvFirstIsNext
    <3>6. ASSUME NEW p \in OvOthers, ~OvSettled(p)' PROVE ovWarned'[p] = OvNone
      <4>1. ~OvSettled(p)
        BY <3>1, <3>6 DEF OvSettled
      <4> QED BY <2>0, <3>1, <4>1
    <3> QED BY <3>2, <3>3, <3>5, <3>6 DEF OvInv
  <2>6. CASE nearestCollision
    <3>00. PICK o : o = ovWith
      OBVIOUS
    <3> DEFINE t == OvMine[ovI]
               u == OvTheirs[ovJ]
    <3>0. ovWith = o /\ o # OvNone /\ UNCHANGED <<ovInput, ovTodo>> /\ ovI <= Len(OvMine) /\ ovJ <= Len(OvTheirs)
      BY <2>6, <3>00 DEF nearestCollision
    <3>1. o \in OvOthers /\ ~OvSettled(o) /\ o \in ovShared /\ o \notin ovTodo
          /\ \A i \in DOMAIN OvMine, j \in DOMAIN OvTheirs :
               i < ovI \/ j < ovJ => ~OvNearPair(o, i, j)
      BY <2>0, <3>0 DEF OvTypes, OvWalked, OvSettled
    <3>2. OvTheirs = firesWithin(o)
      BY <3>0 DEF OvTheirs
    <3>3. /\ ovI \in DOMAIN OvMine /\ DOMAIN OvMine \subseteq Nat
          /\ \A i \in DOMAIN OvMine : OvMine[i] \in Nat
          /\ \A i, k \in DOMAIN OvMine : i < k => OvMine[i] < OvMine[k]
      <4>1. OvMine = firesWithin(OvSubject)
        BY DEF OvMine
      <4>2. ovI \in Nat \ {0}
        BY <2>0 DEF OvTypes
      <4> QED BY <1>0, <2>0, <3>0, <4>1, <4>2, OvFires
    <3>4. /\ ovJ \in DOMAIN OvTheirs /\ DOMAIN OvTheirs \subseteq Nat
          /\ \A i \in DOMAIN OvTheirs : OvTheirs[i] \in Nat
          /\ \A i, k \in DOMAIN OvTheirs : i < k => OvTheirs[i] < OvTheirs[k]
      <4>1. ovJ \in Nat \ {0}
        BY <2>0 DEF OvTypes
      <4> QED BY <1>0, <2>0, <3>0, <3>1, <3>2, <4>1, OvFires
    <3>5. CASE OvNear(t, u)
      <4>1. ovWarned' = [ovWarned EXCEPT ![o] = t] /\ ovWith' = OvNone /\ UNCHANGED <<ovI, ovJ>>
        BY <2>6, <3>0, <3>5 DEF nearestCollision
      <4>2. OvTypes'
        BY <2>0, <3>0, <4>1, OvFixed DEF OvTypes, ovInput
      <4>3. OvFirstOf(o)'
        <5>1. ovI \in OvNearTo(o)
          BY <3>2, <3>3, <3>4, <3>5 DEF OvNearTo, OvNearPair
        <5>2. \A k \in OvNearTo(o) : ovI <= k
          <6> SUFFICES ASSUME NEW k \in OvNearTo(o), ~(ovI <= k) PROVE FALSE
            OBVIOUS
          <6>1. PICK j \in DOMAIN firesWithin(o) : OvNearPair(o, k, j)
            BY DEF OvNearTo
          <6>2. k \in DOMAIN OvMine /\ k < ovI
            BY <2>0, <3>3 DEF OvNearTo, OvTypes
          <6> QED BY <3>1, <3>2, <6>1, <6>2
        <5>3. ovWarned'[o] = OvMine[ovI]
          BY <2>0, <3>1, <4>1 DEF OvTypes
        <5>4. OvNearTo(o)' = OvNearTo(o) /\ OvMine' = OvMine /\ ovShared' = ovShared
          BY <3>0, OvFixed DEF ovInput
        <5>5. /\ ovI \in OvNearTo(o)
              /\ ovWarned'[o] = OvMine[ovI] /\ \A k \in OvNearTo(o) : ovI <= k
          BY <5>1, <5>2, <5>3
        <5> QED BY <3>1, <5>4, <5>5 DEF OvFirstOf
      <4>4. ASSUME NEW p \in OvOthers, p # o
            PROVE  ovWarned'[p] = ovWarned[p] /\ OvSettled(p)' = OvSettled(p)
        BY <2>0, <3>0, <4>1, <4>4, <1>0 DEF OvTypes, OvSettled
      <4>5. OvFirst'
        <5>1. ASSUME NEW p \in OvOthers, OvSettled(p)' PROVE OvFirstOf(p)'
          <6>1. CASE p = o
            BY <4>3, <6>1
          <6>2. CASE p # o
            BY <2>1, <2>2, <3>0, <4>4, <5>1, <6>2
          <6> QED BY <6>1, <6>2
        <5> QED BY <3>0, <5>1, OvFirstIsNext
      <4>6. \A p \in OvOthers : ~OvSettled(p)' => ovWarned'[p] = OvNone
        <5> SUFFICES ASSUME NEW p \in OvOthers, ~OvSettled(p)' PROVE ovWarned'[p] = OvNone
          OBVIOUS
        <5>1. p # o
          BY <1>0, <3>0, <3>1, <4>1 DEF OvSettled
        <5> QED BY <2>0, <4>4, <5>1
      <4>7. OvWalked'
        BY <4>1 DEF OvWalked
      <4> QED BY <4>2, <4>5, <4>6, <4>7 DEF OvInv
    <3>6. CASE ~OvNear(t, u)
      <4>1. /\ ovI' = OvAdvance(t, u)[1] /\ ovJ' = OvAdvance(t, u)[2]
            /\ UNCHANGED <<ovWith, ovWarned>>
        BY <2>6, <3>6 DEF nearestCollision
      <4>2. t \in Nat /\ u \in Nat /\ ovI \in Nat \ {0} /\ ovJ \in Nat \ {0}
        BY <2>0, <3>3, <3>4 DEF OvTypes
      <4> DEFINE up == t < u
      <4>3. IF t < u THEN ovI' = ovI + 1 /\ ovJ' = ovJ ELSE ovI' = ovI /\ ovJ' = ovJ + 1
        BY <4>1 DEF OvAdvance
      <4>4. OvTypes'
        <5>1. ovI' \in Nat \ {0} /\ ovJ' \in Nat \ {0}
          BY <4>2, <4>3
        <5> QED BY <2>0, <3>0, <4>1, <5>1, OvFixed DEF OvTypes, ovInput
      <4>5. ASSUME NEW i \in DOMAIN OvMine, NEW j \in DOMAIN OvTheirs, i < ovI' \/ j < ovJ'
            PROVE  ~OvNearPair(o, i, j)
        <5>0. OvMine[i] \in Nat /\ OvTheirs[j] \in Nat /\ i \in Nat /\ j \in Nat
          BY <3>3, <3>4
        <5>1. CASE i < ovI \/ j < ovJ
          BY <3>1, <5>1
        <5>2. CASE ~(i < ovI \/ j < ovJ) /\ t < u
          <6>1. i = ovI /\ j >= ovJ
            BY <4>2, <4>3, <4>5, <5>0, <5>2
          <6>2. OvTheirs[j] >= u
            BY <3>4, <4>2, <5>0, <6>1
          <6>3. ~(OvMine[i] - OvTheirs[j] <= OvThreshold /\ OvTheirs[j] - OvMine[i] <= OvThreshold)
            BY <1>0, <3>6, <4>2, <5>0, <5>2, <6>1, <6>2 DEF OvNear
          <6> QED BY <3>2, <6>3 DEF OvNearPair, OvNear
        <5>3. CASE ~(i < ovI \/ j < ovJ) /\ ~(t < u)
          <6>1. j = ovJ /\ i >= ovI
            BY <4>2, <4>3, <4>5, <5>0, <5>3
          <6>2. OvMine[i] >= t
            BY <3>3, <4>2, <5>0, <6>1
          <6>3. ~(OvMine[i] - OvTheirs[j] <= OvThreshold /\ OvTheirs[j] - OvMine[i] <= OvThreshold)
            BY <1>0, <3>6, <4>2, <5>0, <5>3, <6>1, <6>2 DEF OvNear
          <6> QED BY <3>2, <6>3 DEF OvNearPair, OvNear
        <5> QED BY <5>1, <5>2, <5>3
      <4>6. OvWalked'
        <5>1. OvMine' = OvMine /\ OvTheirs' = OvTheirs
          BY <3>0, <4>1, OvFixed DEF OvTheirs, firesWithin, ovInput
        <5>2. \A i, j : OvNearPair(ovWith, i, j)' <=> OvNearPair(ovWith, i, j)
          BY <3>0, <3>2, <4>1, <5>1, OvFixed DEF OvNearPair, OvNear, OvTheirs
        <5> QED BY <3>0, <3>1, <4>1, <4>5, <5>1, <5>2 DEF OvWalked, ovInput
      <4>7. \A p \in OvOthers : OvSettled(p)' = OvSettled(p)
        BY <3>0, <4>1 DEF OvSettled
      <4>8. OvFirst'
        BY <2>1, <2>2, <3>0, <4>1, <4>7, OvFirstIsNext
      <4>9. \A p \in OvOthers : ~OvSettled(p)' => ovWarned'[p] = OvNone
        BY <2>0, <4>1, <4>7
      <4> QED BY <4>4, <4>6, <4>8, <4>9 DEF OvInv
    <3> QED BY <3>5, <3>6
  <2>7. CASE OvNoCollision
    <3>0. PICK o : o = ovWith
      OBVIOUS
    <3>1. /\ ovWith = o /\ o # OvNone /\ (ovI > Len(OvMine) \/ ovJ > Len(OvTheirs))
          /\ ovWith' = OvNone /\ UNCHANGED <<ovInput, ovTodo, ovI, ovJ, ovWarned>>
      BY <2>7, <3>0 DEF OvNoCollision
    <3>2. o \in OvOthers /\ ~OvSettled(o) /\ o \notin ovTodo
          /\ \A i \in DOMAIN OvMine, j \in DOMAIN OvTheirs :
               i < ovI \/ j < ovJ => ~OvNearPair(o, i, j)
      BY <2>0, <3>1 DEF OvTypes, OvWalked, OvSettled
    <3>3. OvTheirs = firesWithin(o) /\ OvMine = firesWithin(OvSubject)
      BY <3>1 DEF OvTheirs, OvMine
    <3>4. ovI \in Nat /\ ovJ \in Nat
      BY <2>0 DEF OvTypes
    <3>5. \A i \in DOMAIN OvMine, j \in DOMAIN OvTheirs : i < ovI \/ j < ovJ
      <4>1. /\ Len(OvMine) \in Nat /\ DOMAIN OvMine = 1 .. Len(OvMine)
            /\ Len(OvTheirs) \in Nat /\ DOMAIN OvTheirs = 1 .. Len(OvTheirs)
        BY <1>0, <2>0, <3>2, <3>3, OvFires
      <4> QED BY <3>1, <3>4, <4>1
    <3>6. OvNearTo(o) = {}
      BY <3>2, <3>3, <3>5 DEF OvNearTo
    <3>7. OvTypes' /\ OvWalked'
      BY <2>0, <3>1, OvFixed DEF OvTypes, OvWalked, ovInput
    <3>8. ASSUME NEW p \in OvOthers, OvSettled(p)' PROVE OvFirstOf(p)'
      <4>1. CASE p = o
        <5>1. ~OvSettled(p) /\ OvNearTo(p) = {}
          BY <3>2, <3>6, <4>1
        <5> QED BY <2>3, <3>1, <5>1
      <4>2. CASE p # o
        <5>1. OvSettled(p)
          BY <3>1, <3>8, <4>2 DEF OvSettled
        <5> QED BY <2>1, <2>2, <3>1, <5>1
      <4> QED BY <4>1, <4>2
    <3>9. OvFirst'
      BY <3>1, <3>8, OvFirstIsNext
    <3>10. ASSUME NEW p \in OvOthers, ~OvSettled(p)' PROVE ovWarned'[p] = OvNone
      <4>1. ~OvSettled(p)
        BY <1>0, <3>1, <3>10 DEF OvSettled
      <4> QED BY <2>0, <3>1, <4>1
    <3> QED BY <3>7, <3>9, <3>10 DEF OvInv
  <2> QED BY <1>2, <2>4, <2>5, <2>6, <2>7 DEF OvNext
<1> QED BY <1>1, <1>2

(* A schedule that fires at most OvMaxFires times in the window is looked  *)
(* at in full.                                                             *)
LEMMA OvAllCounted ==
  ASSUME OvListed, NEW c \in OvSchedules,
         ~(Cardinality({k \in DOMAIN ovTimes[c] : ovTimes[c][k] <= OvWindow}) > OvMaxFires)
  PROVE  {k \in DOMAIN ovTimes[c] : ovTimes[c][k] <= OvWindow} = OvCounted(ovTimes[c])
<1> DEFINE s == ovTimes[c]
           in == {k \in DOMAIN s : s[k] <= OvWindow}
<1>0. OvWindow \in Nat /\ OvMaxFires \in Nat
  BY OvAssumption
<1>1. PICK n \in Nat :
           /\ DOMAIN s = 1 .. n /\ \A k \in 1 .. n : s[k] \in Nat
           /\ \A i, j \in 1 .. n : i < j => s[i] < s[j]
  BY OvListIs DEF OvListed
<1>2. in \in SUBSET (1 .. n)
  BY <1>1
<1>3. \A k \in in : \A j \in 1 .. k : j \in in
  <2> SUFFICES ASSUME NEW k \in in, NEW j \in 1 .. k PROVE j \in in
    OBVIOUS
  <2>1. k \in 1 .. n /\ s[k] <= OvWindow /\ s[k] \in Nat
    BY <1>1
  <2>2. j \in 1 .. n /\ s[j] \in Nat /\ (j = k \/ s[j] < s[k])
    BY <1>1, <2>1
  <2> QED BY <1>0, <1>1, <2>1, <2>2
<1> DEFINE m == Cardinality(in)
<1>4. ~(m > OvMaxFires)
  OBVIOUS
<1> HIDE DEF in
<1>5. m \in 0 .. n /\ in = 1 .. m
  BY <1>2, <1>3, OvPrefix
<1> HIDE DEF m
<1>6. \A k \in in : k <= OvMaxFires
  BY <1>0, <1>4, <1>5
<1> QED BY <1>6 DEF in, OvCounted

(* A warning is given if and only if some pair of firings is near.         *)
LEMMA OvWarnsRight == OvInv => OvWarns
<1> SUFFICES ASSUME OvInv PROVE OvWarns
  OBVIOUS
<1> DEFINE in(c) == {k \in DOMAIN ovTimes[c] : ovTimes[c][k] <= OvWindow}
           overlap(o) == \E i \in in(OvSubject), j \in in(o) :
                            OvNear(ovTimes[OvSubject][i], ovTimes[o][j])
<1>0. /\ OvSubject \in OvSchedules /\ OvOthers \subseteq OvSchedules /\ OvNone \notin Nat
      /\ OvListed /\ \A o \in OvOthers : OvSettled(o) => OvFirstOf(o)
  BY OvAssumption, OvFirstIs DEF OvSchedules, OvInv, OvTypes
<1>1. \A c \in OvSchedules : OvCounted(ovTimes[c]) \subseteq in(c)
  BY DEF OvCounted
<1>2. ASSUME NEW o \in OvOthers, OvNearTo(o) # {} PROVE overlap(o)
  <2>1. PICK i \in DOMAIN OvMine, j \in DOMAIN firesWithin(o) : OvNear(OvMine[i], firesWithin(o)[j])
    BY <1>2 DEF OvNearTo, OvNearPair
  <2>2. /\ i \in OvCounted(ovTimes[OvSubject]) /\ OvMine[i] = ovTimes[OvSubject][i]
        /\ j \in OvCounted(ovTimes[o]) /\ firesWithin(o)[j] = ovTimes[o][j]
    BY <1>0, OvFires DEF OvMine
  <2>3. i \in in(OvSubject) /\ j \in in(o)
    BY <1>0, <1>1, <2>2
  <2> HIDE DEF in
  <2> QED BY <2>1, <2>2, <2>3
<1>3. ASSUME NEW o \in OvOthers, overlap(o),
             \A c \in {OvSubject, o} : ~(Cardinality(in(c)) > OvMaxFires)
      PROVE  OvNearTo(o) # {}
  <2>1. in(OvSubject) = OvCounted(ovTimes[OvSubject]) /\ in(o) = OvCounted(ovTimes[o])
    <3>1. ASSUME NEW c \in {OvSubject, o} PROVE in(c) = OvCounted(ovTimes[c])
      <4>1. c \in OvSchedules /\ ~(Cardinality(in(c)) > OvMaxFires)
        BY <1>0, <1>3
      <4> QED BY <1>0, <4>1, OvAllCounted
    <3> QED BY <3>1
  <2>2. PICK i \in in(OvSubject), j \in in(o) : OvNear(ovTimes[OvSubject][i], ovTimes[o][j])
    BY <1>3
  <2> HIDE DEF in
  <2>3. /\ i \in DOMAIN OvMine /\ OvMine[i] = ovTimes[OvSubject][i]
        /\ j \in DOMAIN firesWithin(o) /\ firesWithin(o)[j] = ovTimes[o][j]
    BY <1>0, <2>1, OvFires DEF OvMine
  <2> QED BY <2>2, <2>3 DEF OvNearTo, OvNearPair
<1>4. ASSUME NEW o \in OvOthers, OvSettled(o), ovWarned[o] # OvNone
      PROVE  o \in ovShared /\ overlap(o)
  <2>1. o \in ovShared /\ OvNearTo(o) # {}
    BY <1>0, <1>4 DEF OvFirstOf
  <2> QED BY <1>2, <2>1
<1>5. ASSUME NEW o \in OvOthers, OvSettled(o), o \in ovShared, overlap(o)
      PROVE  ovWarned[o] # OvNone \/ \E c \in {OvSubject, o} : Cardinality(in(c)) > OvMaxFires
  <2> SUFFICES ASSUME \A c \in {OvSubject, o} : ~(Cardinality(in(c)) > OvMaxFires)
               PROVE  ovWarned[o] # OvNone
    OBVIOUS
  <2>1. OvNearTo(o) # {}
    BY <1>3, <1>5
  <2>2. PICK i \in OvNearTo(o) : ovWarned[o] = OvMine[i]
    BY <1>0, <1>5, <2>1 DEF OvFirstOf
  <2>3. i \in DOMAIN OvMine /\ OvMine = firesWithin(OvSubject)
    BY DEF OvNearTo, OvMine
  <2>4. OvMine[i] \in Nat
    BY <1>0, <2>3, OvFires
  <2> QED BY <1>0, <2>2, <2>4
<1> QED BY <1>4, <1>5 DEF OvWarns

(***************************************************************************)
(* Outages: the one pass over the results of all targets.                  *)
(***************************************************************************)

OuRow(t, x)  == ouResult[<<t, x>>] # OuNone
OuRead(t, x) == ~OuBefore(ouAt, <<t, x>>)

(* The incident that the failures of a target from a to b make. *)
OuIncOf(t, a, b) ==
  [target |-> t, start |-> a, end |-> b,
   status |-> IF \E x \in OuDuring(t, a, b) : ouResult[<<t, x>>] = "failed"
              THEN "failed" ELSE "degraded",
   count |-> Cardinality(OuDuring(t, a, b))]

(* The ranges of the constants.                                            *)
LEMMA OuConstants ==
  /\ OuTargets \subseteq Nat \ {0} /\ OuTimes \subseteq Nat /\ OuSkips \subseteq Nat
  /\ OuGap \in Nat /\ OuMax \in Nat /\ IsFiniteSet(OuSkips) /\ OuNone \notin Nat \X Nat
<1> QED BY OuAssumption

-----------------------------------------------------------------------------
(* Chains of failures *)

(* More time holds more results.                                           *)
LEMMA OuWider ==
  ASSUME NEW t, NEW a \in Nat, NEW b \in Nat, NEW c \in Nat, NEW d \in Nat, c <= a, b <= d
  PROVE  OuDuring(t, a, b) \subseteq OuDuring(t, c, d)
<1> SUFFICES ASSUME NEW w \in OuDuring(t, a, b) PROVE w \in OuDuring(t, c, d)
  OBVIOUS
<1>1. w \in Nat /\ w \in OuTimes /\ a <= w /\ w <= b
  BY OuConstants DEF OuDuring
<1>2. c <= w /\ w <= d
  BY <1>1
<1> QED BY <1>1, <1>2 DEF OuDuring

(* Two chains of failures of one target that overlap make one chain.       *)
LEMMA OuChain ==
  ASSUME NEW t \in OuTargets, NEW a \in Nat, NEW z \in Nat, NEW b \in Nat, NEW x \in Nat,
         a <= z, z <= b, b < x, OuJoined(t, a, b), OuJoined(t, z, x)
  PROVE  OuJoined(t, a, x)
<1>0. OuTimes \subseteq Nat /\ OuGap \in Nat
  BY OuConstants
<1>1. ASSUME NEW w \in OuDuring(t, a, x)
      PROVE  w \in OuDuring(t, a, b) \/ (w \in OuDuring(t, z, x) /\ w > b)
  <2>1. w \in OuTimes /\ w \in Nat /\ a <= w /\ w <= x /\ ouResult[<<t, w>>] # OuNone
    BY <1>0 DEF OuDuring
  <2>2. w <= b \/ (w > b /\ z <= w)
    BY <2>1
  <2> QED BY <2>1, <2>2 DEF OuDuring
<1>2. \A w \in OuDuring(t, a, x) : ouResult[<<t, w>>] # "ok"
  BY <1>1 DEF OuJoined
<1>3. OuDuring(t, z, x) \subseteq OuDuring(t, a, x) /\ OuDuring(t, a, b) \subseteq OuDuring(t, a, x)
  BY OuWider
<1>4. ASSUME NEW w \in OuDuring(t, a, x), w # x
      PROVE  \E y \in OuDuring(t, a, x) : w < y /\ y - w <= OuGap
  <2>1. CASE w \in OuDuring(t, z, x)
    BY <1>3, <1>4, <2>1 DEF OuJoined
  <2>2. CASE w \notin OuDuring(t, z, x)
    <3>1. w \in OuDuring(t, a, b) /\ w # b
      BY <1>0, <1>1, <2>2 DEF OuDuring
    <3> QED BY <1>3, <3>1 DEF OuJoined
  <2> QED BY <2>1, <2>2
<1> QED BY <1>2, <1>4 DEF OuJoined

(* A chain that runs on past the end of another can be cut there.          *)
LEMMA OuCut ==
  ASSUME NEW t \in OuTargets, NEW a \in Nat, NEW z \in Nat, NEW b \in Nat, NEW x \in Nat,
         a <= z, z <= b, b < x, OuJoined(t, a, x), OuJoined(t, z, b), z \in OuDuring(t, z, b)
  PROVE  OuJoined(t, a, b)
<1>0. OuTimes \subseteq Nat /\ OuGap \in Nat
  BY OuConstants
<1>1. OuDuring(t, a, b) \subseteq OuDuring(t, a, x) /\ OuDuring(t, z, b) \subseteq OuDuring(t, a, b)
  BY OuWider
<1>2. \A w \in OuDuring(t, a, b) : ouResult[<<t, w>>] # "ok"
  BY <1>1 DEF OuJoined
<1>3. ASSUME NEW w \in OuDuring(t, a, b), w # b
      PROVE  \E y \in OuDuring(t, a, b) : w < y /\ y - w <= OuGap
  <2>0. w \in Nat /\ w <= b
    BY <1>0 DEF OuDuring
  <2>1. CASE w >= z
    <3>1. w \in OuDuring(t, z, b)
      BY <2>1 DEF OuDuring
    <3> QED BY <1>1, <1>3, <3>1 DEF OuJoined
  <2>2. CASE w < z
    <3>1. PICK y \in OuDuring(t, a, x) : w < y /\ y - w <= OuGap
      BY <1>1, <2>0, <2>2 DEF OuJoined
    <3>2. CASE y <= b
      BY <3>1, <3>2 DEF OuDuring
    <3>3. CASE ~(y <= b)
      <4>0. y \in Nat
        BY <1>0 DEF OuDuring
      <4>1. z - w <= OuGap /\ w < z
        BY <1>0, <2>0, <2>2, <3>1, <3>3, <4>0
      <4> QED BY <1>1, <4>1
    <3> QED BY <3>2, <3>3
  <2> QED BY <2>0, <2>1, <2>2
<1> QED BY <1>2, <1>3 DEF OuJoined

(* Two incidents of a target that touch are one. *)
LEMMA OuUnique ==
  ASSUME NEW t \in OuTargets, NEW a \in OuTimes, NEW b \in OuTimes, NEW c \in OuTimes,
         NEW d \in OuTimes, a <= b, c <= d, OuIncident(t, a, b), OuIncident(t, c, d),
         c <= a, a <= d
  PROVE  a = c /\ b = d
<1>0. OuTimes \subseteq Nat
  BY OuConstants
<1>1. /\ OuJoined(t, a, b) /\ OuJoined(t, c, d)
      /\ a \in OuDuring(t, a, b) /\ {a, b, c, d} \subseteq {x \in OuTimes : OuRow(t, x)}
  BY DEF OuIncident, OuDuring, OuRow
<1>2. OuJoined(t, c, b)
  <2>1. CASE b > d
    BY <1>0, <1>1, <2>1, OuChain
  <2>2. CASE b = d
    BY <1>1, <2>2
  <2>3. CASE b < d
    BY <1>0, <1>1, <2>3, OuCut
  <2> QED BY <1>0, <2>1, <2>2, <2>3
<1>3. a = c
  BY <1>0, <1>1, <1>2 DEF OuIncident, OuRow
<1>4. ~(b > d) /\ ~(d > b)
  BY <1>1, <1>2, <1>3 DEF OuIncident, OuRow
<1> QED BY <1>0, <1>3, <1>4

(* One more failure, within the gap. *)
LEMMA OuExtend ==
  ASSUME NEW t \in OuTargets, NEW a \in OuTimes, NEW b \in OuTimes, NEW x \in OuTimes,
         a <= b, b < x, x - b <= OuGap, {a, b} \subseteq OuDuring(t, a, b),
         OuJoined(t, a, b), OuRow(t, x), ouResult[<<t, x>>] # "ok",
         \A y \in OuTimes : b < y /\ y < x => ~OuRow(t, y)
  PROVE  /\ OuDuring(t, a, x) = OuDuring(t, a, b) \cup {x} /\ x \notin OuDuring(t, a, b)
         /\ OuJoined(t, a, x)
         /\ \A z \in OuTimes : z < a /\ OuJoined(t, z, x) => OuJoined(t, z, b)
<1>0. OuTimes \subseteq Nat /\ OuGap \in Nat
  BY OuConstants
<1>1. \A z \in OuTimes : z <= b => /\ OuDuring(t, z, x) = OuDuring(t, z, b) \cup {x}
                                   /\ x \notin OuDuring(t, z, b)
  <2> SUFFICES ASSUME NEW z \in OuTimes, z <= b
               PROVE  /\ OuDuring(t, z, x) = OuDuring(t, z, b) \cup {x}
                      /\ x \notin OuDuring(t, z, b)
    OBVIOUS
  <2>1. \A w \in OuTimes : ouResult[<<t, w>>] # OuNone => ((z <= w /\ w <= x) <=> ((z <= w /\ w <= b) \/ w = x))
    <3> TAKE w \in OuTimes
    <3>1. w \in Nat /\ z \in Nat /\ b \in Nat /\ x \in Nat
      BY <1>0
    <3>2. OuRow(t, w) => ~(b < w /\ w < x)
      OBVIOUS
    <3> QED BY <3>1, <3>2 DEF OuRow
  <2>2. OuDuring(t, z, x) = OuDuring(t, z, b) \cup {x}
    BY <2>1 DEF OuDuring, OuRow
  <2>3. ~(x <= b)
    BY <1>0
  <2> QED BY <2>2, <2>3 DEF OuDuring
<1>2. OuDuring(t, a, x) = OuDuring(t, a, b) \cup {x} /\ x \notin OuDuring(t, a, b)
  BY <1>1
<1>3. OuJoined(t, a, x)
  <2>1. \A w \in OuDuring(t, a, x) : ouResult[<<t, w>>] # "ok"
    BY <1>2 DEF OuJoined
  <2>2. ASSUME NEW w \in OuDuring(t, a, x), w # x
        PROVE  \E y \in OuDuring(t, a, x) : w < y /\ y - w <= OuGap
    <3>1. w \in OuDuring(t, a, b)
      BY <1>2, <2>2
    <3>2. CASE w = b
      BY <1>2, <3>2
    <3>3. CASE w # b
      BY <1>2, <3>1, <3>3 DEF OuJoined
    <3> QED BY <3>2, <3>3
  <2> QED BY <2>1, <2>2 DEF OuJoined
<1>4. ASSUME NEW z \in OuTimes, z < a, OuJoined(t, z, x) PROVE OuJoined(t, z, b)
  <2>0. z <= b /\ z \in Nat /\ a \in Nat /\ b \in Nat /\ x \in Nat
    BY <1>0, <1>4
  <2>1. OuDuring(t, z, x) = OuDuring(t, z, b) \cup {x} /\ b \in OuDuring(t, z, b)
    BY <1>1, <2>0 DEF OuDuring
  <2>2. \A w \in OuDuring(t, z, b) : ouResult[<<t, w>>] # "ok"
    BY <1>4, <2>1 DEF OuJoined
  <2>3. ASSUME NEW w \in OuDuring(t, z, b), w # b
        PROVE  \E y \in OuDuring(t, z, b) : w < y /\ y - w <= OuGap
    <3>0. w \in Nat /\ w < b /\ w # x /\ w \in OuDuring(t, z, x)
      BY <1>0, <2>0, <2>1, <2>3 DEF OuDuring
    <3>1. PICK y \in OuDuring(t, z, x) : w < y /\ y - w <= OuGap
      BY <1>4, <3>0 DEF OuJoined
    <3>2. CASE y = x
      <4>1. w < b /\ b - w <= OuGap
        BY <1>0, <2>0, <3>0, <3>1, <3>2
      <4> QED BY <2>1, <4>1
    <3>3. CASE y # x
      BY <2>1, <3>1, <3>3
    <3> QED BY <3>2, <3>3
  <2> QED BY <2>2, <2>3 DEF OuJoined
<1> QED BY <1>2, <1>3, <1>4

(* What lies between two times is finite, so it can be counted.            *)
LEMMA OuDuringFinite ==
  ASSUME NEW t, NEW a, NEW b \in OuTimes
  PROVE  IsFiniteSet(OuDuring(t, a, b)) /\ Cardinality(OuDuring(t, a, b)) \in Nat
<1>0. b \in Nat /\ OuTimes \subseteq Nat
  BY OuConstants
<1>1. 0 \in Int /\ b \in Int /\ OuDuring(t, a, b) \subseteq 0 .. b
  <2>1. ASSUME NEW w \in OuDuring(t, a, b) PROVE w \in 0 .. b
    <3>1. w \in OuTimes /\ w <= b
      BY DEF OuDuring
    <3> QED BY <1>0, <3>1
  <2> QED BY <1>0, <2>1
<1>2. IsFiniteSet(0 .. b)
  BY <1>1, FS_Interval
<1> QED BY <1>1, <1>2, FS_Subset, FS_CardinalityType

(* An incident is not the mark for none.                                   *)
LEMMA OuIncIsRecord ==
  ASSUME NEW t \in OuTargets, NEW a \in OuTimes, NEW b \in OuTimes
  PROVE  OuIncOf(t, a, b) # OuNone
<1>1. t \in Nat /\ a \in Nat /\ b \in Nat
  BY OuConstants
<1>2. Cardinality(OuDuring(t, a, b)) \in Nat
  BY OuDuringFinite
<1> DEFINE st == IF \E x \in OuDuring(t, a, b) : ouResult[<<t, x>>] = "failed"
                 THEN "failed" ELSE "degraded"
<1>3. st \in {"degraded", "failed"} /\ OuIncOf(t, a, b) = [target |-> t, start |-> a, end |-> b, status |-> st,
                                          count |-> Cardinality(OuDuring(t, a, b))]
  <2>1. st = "failed" \/ st = "degraded"
    BY Zenon
  <2>2. st \in {"degraded", "failed"}
    <3> HIDE DEF st
    <3> QED BY <2>1
  <2>3. OuIncOf(t, a, b) = [target |-> t, start |-> a, end |-> b, status |-> st,
                            count |-> Cardinality(OuDuring(t, a, b))]
    BY DEF OuIncOf
  <2> HIDE DEF st
  <2> QED BY <2>2, <2>3
<1> HIDE DEF st
<1>4. OuIncOf(t, a, b) \in [target : Nat, status : {"degraded", "failed"},
                          start : Nat, end : Nat, count : Nat]
  BY <1>1, <1>2, <1>3
<1> QED BY <1>4, OuAssumption

-----------------------------------------------------------------------------
(* The pass *)

OuTypes ==
  /\ ouResult \in [OuTargets \X OuTimes -> {"ok", "degraded", "failed", OuNone}]
  /\ ouSkipped \subseteq OuSkips
  /\ ouAt \in (Nat \X Nat) \cup {OuNone}
  /\ IsFiniteSet(ouOut)

(* An incident that may still grow: nothing of its target is read behind it. *)
OuBegun(t, a, b) ==
  /\ {a, b} \subseteq OuDuring(t, a, b) /\ OuJoined(t, a, b)
  /\ \A z \in OuTimes : z < a /\ OuRow(t, z) => ~OuJoined(t, z, b)
  /\ OuRead(t, b)
  /\ \A y \in OuTimes : y > b /\ OuRow(t, y) => ~OuRead(t, y)

OuWhole(o) ==
  \E t \in OuTargets, a, b \in OuTimes :
    a <= b /\ o = OuIncOf(t, a, b) /\ OuIncident(t, a, b)

OuOpening ==
  ouOpen # OuNone => \E t \in OuTargets, a, b \in OuTimes :
    a <= b /\ ouOpen = OuIncOf(t, a, b) /\ OuBegun(t, a, b)

(* Every failure that was read is part of an incident. *)
OuCovered ==
  \A t \in OuTargets, x \in OuTimes :
    OuRow(t, x) /\ OuRead(t, x) /\ ouResult[<<t, x>>] # "ok" =>
      \E o \in OuFlushed : o.target = t /\ o.start <= x /\ x <= o.end

OuInv ==
  /\ OuTypes
  /\ ouAt # OuNone => /\ \A o \in ouOut : OuWhole(o) /\ OuRead(o.target, o.end)
                   /\ OuOpening /\ OuCovered
  /\ OuExact

(* The order of the pass. *)
LEMMA OuOrder ==
  ASSUME OuTypes, ouAt # OuNone, NEW r, OuNextRow(r), ouAt' = r, ouResult' = ouResult
  PROVE  \E t \in OuTargets, x \in OuTimes :
           /\ r = <<t, x>> /\ r[1] = t /\ r[2] = x /\ OuRow(t, x) /\ ~OuRead(t, x)
           /\ \A u \in OuTargets, y \in OuTimes : OuRow(u, y) =>
                /\ OuRead(u, y)' <=> (OuRead(u, y) \/ (u = t /\ y = x))
                /\ ~OuRead(u, y) => u > t \/ (u = t /\ y >= x)
                /\ OuRead(u, y) => u < t \/ (u = t /\ y < x)
<1>0. OuTargets \subseteq Nat /\ OuTimes \subseteq Nat
  BY OuConstants
<1>1. DOMAIN ouResult = OuTargets \X OuTimes
  BY DEF OuTypes
<1>2. PICK t \in OuTargets, x \in OuTimes : r = <<t, x>>
  BY <1>1 DEF OuNextRow, OuUnread, OuRows
<1>3. r[1] = t /\ r[2] = x /\ t \in Nat /\ x \in Nat
  BY <1>0, <1>2
<1>4. PICK p \in Nat, q \in Nat : ouAt = <<p, q>>
  BY DEF OuTypes
<1>5. ouAt[1] = p /\ ouAt[2] = q /\ ouAt'[1] = t /\ ouAt'[2] = x
  BY <1>3, <1>4
<1>6. OuRow(t, x) /\ ~OuRead(t, x)
  BY <1>2 DEF OuNextRow, OuUnread, OuRows, OuRow, OuRead
<1>7. ASSUME NEW u \in OuTargets, NEW y \in OuTimes
      PROVE  /\ OuRead(u, y) <=> ~(p < u \/ (p = u /\ q < y))
             /\ OuRead(u, y)' <=> ~(t < u \/ (t = u /\ x < y))
  BY <1>5 DEF OuRead, OuBefore
<1>8. ASSUME NEW u \in OuTargets, NEW y \in OuTimes, OuRow(u, y), ~OuRead(u, y)
      PROVE  (u = t /\ y = x) \/ t < u \/ (t = u /\ x < y)
  <2>1. <<u, y>> \in OuUnread
    BY <1>1, <1>8 DEF OuUnread, OuRows, OuRow, OuRead
  <2>2. <<u, y>> = r \/ OuBefore(r, <<u, y>>)
    BY <2>1 DEF OuNextRow
  <2> QED BY <1>2, <1>3, <2>2 DEF OuBefore
<1>9. p < t \/ (p = t /\ q < x)
  BY <1>6, <1>7
<1>10. ASSUME NEW u \in OuTargets, NEW y \in OuTimes, OuRow(u, y)
       PROVE  /\ OuRead(u, y)' <=> (OuRead(u, y) \/ (u = t /\ y = x))
              /\ ~OuRead(u, y) => u > t \/ (u = t /\ y >= x)
              /\ OuRead(u, y) => u < t \/ (u = t /\ y < x)
  <2>1. u \in Nat /\ y \in Nat
    BY <1>0
  <2>2. ~OuRead(u, y) => u > t \/ (u = t /\ y >= x)
    BY <1>3, <1>8, <1>10, <2>1
  <2>3. OuRead(u, y) => u < t \/ (u = t /\ y < x)
    BY <1>3, <1>7, <1>9, <2>1
  <2>4. OuRead(u, y)' => OuRead(u, y) \/ (u = t /\ y = x)
    BY <1>3, <1>7, <1>8, <1>10, <2>1
  <2>5. OuRead(u, y) \/ (u = t /\ y = x) => OuRead(u, y)'
    BY <1>3, <1>7, <2>1, <2>3
  <2> QED BY <2>2, <2>3, <2>4, <2>5
<1> QED BY <1>2, <1>3, <1>6, <1>10

(* The results do not change while they are read.                          *)
LEMMA OuRigid ==
  ASSUME ouResult' = ouResult
  PROVE  /\ \A t, x : OuRow(t, x)' <=> OuRow(t, x)
         /\ \A t, a, b : /\ OuDuring(t, a, b)' = OuDuring(t, a, b)
                         /\ OuJoined(t, a, b)' <=> OuJoined(t, a, b)
                         /\ OuIncident(t, a, b)' <=> OuIncident(t, a, b)
                         /\ OuIncOf(t, a, b)' = OuIncOf(t, a, b)
         /\ \A o : OuWhole(o)' <=> OuWhole(o)
<1>1. \A t, x : OuRow(t, x)' <=> OuRow(t, x)
  BY DEF OuRow
<1>2. \A t, a, b : OuDuring(t, a, b)' = OuDuring(t, a, b)
  BY DEF OuDuring
<1>3. \A t, a, b : OuJoined(t, a, b)' <=> OuJoined(t, a, b)
  BY <1>2 DEF OuJoined
<1>4. \A t, a, b : OuIncident(t, a, b)' <=> OuIncident(t, a, b)
  BY <1>2, <1>3 DEF OuIncident
<1>5. \A t, a, b : OuIncOf(t, a, b)' = OuIncOf(t, a, b)
  BY <1>2 DEF OuIncOf
<1>6. \A o : OuWhole(o)' <=> OuWhole(o)
  BY <1>4, <1>5 DEF OuWhole
<1> QED BY <1>1, <1>2, <1>3, <1>4, <1>5, <1>6

(* What is closed behind the row r was an incident in full. *)
LEMMA OuClosed ==
  ASSUME OuTypes, NEW u \in OuTargets, NEW a \in OuTimes, NEW b \in OuTimes, a <= b,
         OuBegun(u, a, b),
         \A y \in OuTimes : y > b /\ OuRow(u, y) => ~OuJoined(u, a, y)
  PROVE  OuWhole(OuIncOf(u, a, b))
<1>1. OuIncident(u, a, b)
  BY DEF OuIncident, OuBegun, OuRow
<1> QED BY <1>1 DEF OuWhole

(* The fields of an incident.                                              *)
LEMMA OuIncFields ==
  ASSUME NEW t, NEW a, NEW b
  PROVE  OuIncOf(t, a, b).target = t /\ OuIncOf(t, a, b).start = a /\ OuIncOf(t, a, b).end = b
<1> QED BY DEF OuIncOf

(* Every step over a row. *)
LEMMA OuReads ==
  ASSUME OuInv, ouAt # OuNone, NEW r, OuRecovered(r) \/ OuFailed(r)
  PROVE  OuInv'
<1>0. /\ OuTargets \subseteq Nat /\ OuTimes \subseteq Nat
      /\ OuNone \notin Nat \X Nat /\ OuGap \in Nat
  BY OuConstants
<1>1. /\ OuTypes /\ (\A o \in ouOut : OuWhole(o) /\ OuRead(o.target, o.end))
      /\ OuOpening /\ OuCovered
      /\ OuNextRow(r) /\ ouAt' = r /\ UNCHANGED <<ouResult, ouSkipped>>
  BY DEF OuInv, OuRecovered, OuFailed
<1>2. PICK t \in OuTargets, x \in OuTimes :
           /\ r = <<t, x>> /\ r[1] = t /\ r[2] = x /\ OuRow(t, x) /\ ~OuRead(t, x)
           /\ \A u \in OuTargets, y \in OuTimes : OuRow(u, y) =>
                /\ OuRead(u, y)' <=> (OuRead(u, y) \/ (u = t /\ y = x))
                /\ ~OuRead(u, y) => u > t \/ (u = t /\ y >= x)
                /\ OuRead(u, y) => u < t \/ (u = t /\ y < x)
  BY <1>1, OuOrder
<1>3. /\ ouAt' \in Nat \X Nat /\ ouAt' # OuNone
      /\ t \in Nat /\ x \in Nat /\ ouResult[r] = ouResult[<<t, x>>]
  BY <1>0, <1>1, <1>2
<1>4. /\ \A u, y : OuRow(u, y)' <=> OuRow(u, y)
      /\ \A u, a, b : /\ OuDuring(u, a, b)' = OuDuring(u, a, b)
                      /\ OuJoined(u, a, b)' <=> OuJoined(u, a, b)
                      /\ OuIncident(u, a, b)' <=> OuIncident(u, a, b)
                      /\ OuIncOf(u, a, b)' = OuIncOf(u, a, b)
      /\ \A o : OuWhole(o)' <=> OuWhole(o)
  BY <1>1, OuRigid
<1>5. OuExact'
  BY <1>3 DEF OuExact
(* the incident that is open, if there is one *)
<1>6. ASSUME ouOpen # OuNone
      PROVE  \E u \in OuTargets, a, b \in OuTimes :
               /\ a <= b /\ ouOpen = OuIncOf(u, a, b) /\ OuBegun(u, a, b)
               /\ ouOpen.target = u /\ ouOpen.start = a /\ ouOpen.end = b
               /\ u < t \/ (u = t /\ b < x)
               /\ \A y \in OuTimes : y > b /\ OuRow(u, y) => u = t /\ y >= x
  <2>1. PICK u \in OuTargets, a \in OuTimes, b \in OuTimes :
          a <= b /\ ouOpen = OuIncOf(u, a, b) /\ OuBegun(u, a, b)
    BY <1>1, <1>6 DEF OuOpening
  <2>2. OuRow(u, b) /\ OuRead(u, b)
    BY <2>1 DEF OuBegun, OuDuring, OuRow
  <2>3. u < t \/ (u = t /\ b < x)
    BY <1>2, <2>2
  <2>4. ASSUME NEW y \in OuTimes, y > b, OuRow(u, y) PROVE u = t /\ y >= x
    <3>1. u > t \/ (u = t /\ y >= x)
      BY <1>2, <2>1, <2>4 DEF OuBegun
    <3> QED BY <1>0, <1>3, <2>3, <3>1
  <2> QED BY <2>1, <2>3, <2>4, OuIncFields
(* everything found so far lies behind *)
<1>10. \A o \in OuFlushed : OuRead(o.target, o.end) /\ OuRead(o.target, o.end)'
  <2> SUFFICES ASSUME NEW o \in OuFlushed
               PROVE  OuRead(o.target, o.end) /\ OuRead(o.target, o.end)'
    OBVIOUS
  <2>1. \E u \in OuTargets, b \in OuTimes :
           o.target = u /\ o.end = b /\ OuRow(u, b) /\ OuRead(u, b)
    <3>1. CASE o \in ouOut
      <4>1. PICK u \in OuTargets, a \in OuTimes, b \in OuTimes :
              o = OuIncOf(u, a, b) /\ OuIncident(u, a, b)
        BY <1>1, <3>1 DEF OuWhole
      <4>2. o.target = u /\ o.end = b /\ OuRead(o.target, o.end)
        BY <1>1, <3>1, <4>1, OuIncFields
      <4>3. OuRow(u, b)
        BY <4>1 DEF OuIncident, OuDuring, OuRow
      <4> QED BY <4>2, <4>3
    <3>2. CASE o \notin ouOut
      <4>1. ouOpen # OuNone /\ o = ouOpen
        BY <3>2 DEF OuFlushed
      <4>2. PICK u \in OuTargets, a \in OuTimes, b \in OuTimes :
              o = OuIncOf(u, a, b) /\ OuBegun(u, a, b)
        BY <1>1, <4>1 DEF OuOpening
      <4>3. o.target = u /\ o.end = b
        BY <4>2, OuIncFields
      <4>4. OuRow(u, b) /\ OuRead(u, b)
        BY <4>2 DEF OuBegun, OuDuring, OuRow
      <4> QED BY <4>3, <4>4
    <3> QED BY <3>1, <3>2
  <2> QED BY <1>2, <2>1
(* what is flushed is whole *)
<1>7. ASSUME ~(OuSame(r) /\ ouResult[<<t, x>>] # "ok" /\ x - ouOpen.end <= OuGap)
      PROVE  \A o \in OuFlushed : OuWhole(o)
  <2>1. CASE ouOpen = OuNone
    BY <1>1, <2>1 DEF OuFlushed
  <2>2. CASE ouOpen # OuNone
    <3>1. PICK u \in OuTargets, a \in OuTimes, b \in OuTimes :
               /\ a <= b /\ ouOpen = OuIncOf(u, a, b) /\ OuBegun(u, a, b)
               /\ ouOpen.target = u /\ ouOpen.start = a /\ ouOpen.end = b
               /\ u < t \/ (u = t /\ b < x)
               /\ \A y \in OuTimes : y > b /\ OuRow(u, y) => u = t /\ y >= x
      BY <1>6, <2>2
    <3>2. ASSUME NEW y \in OuTimes, y > b, OuRow(u, y), OuJoined(u, a, y) PROVE FALSE
      <4>0. u = t /\ y >= x
        BY <3>1, <3>2
      <4>1. u = t /\ y >= x /\ b < x /\ a \in Nat /\ b \in Nat /\ y \in Nat
        <5>1. a \in Nat /\ b \in Nat /\ y \in Nat /\ ~(t < t)
          BY <1>0, <1>3
        <5> QED BY <3>1, <4>0, <5>1
      <4>2. CASE ouResult[<<t, x>>] = "ok"
        <5>1. x \in OuDuring(u, a, y)
          BY <1>2, <1>3, <3>1, <4>1 DEF OuDuring, OuRow
        <5> QED BY <3>2, <4>1, <4>2, <5>1 DEF OuJoined
      <4>3. CASE ouResult[<<t, x>>] # "ok"
        <5>1. x - b > OuGap
          BY <1>0, <1>2, <1>3, <1>7, <2>2, <3>1, <4>1, <4>3 DEF OuSame
        <5>2. b \in OuDuring(u, a, y) /\ b # y
          BY <3>1, <3>2, <4>1 DEF OuBegun, OuDuring
        <5>3. PICK w \in OuDuring(u, a, y) : b < w /\ w - b <= OuGap
          BY <3>2, <5>2 DEF OuJoined
        <5>4. w \in OuTimes /\ w \in Nat /\ OuRow(u, w)
          BY <1>0 DEF OuDuring, OuRow
        <5>5. w >= x
          BY <3>1, <5>3, <5>4
        <5> QED BY <1>0, <1>3, <4>1, <5>1, <5>3, <5>4, <5>5
      <4> QED BY <4>2, <4>3
    <3>3. OuWhole(ouOpen)
      BY <1>1, <3>1, <3>2, OuClosed
    <3> QED BY <1>1, <3>3 DEF OuFlushed
  <2> QED BY <2>1, <2>2
<1>8. CASE OuRecovered(r)
  <2>0. ouResult[<<t, x>>] = "ok"
    BY <1>3, <1>8 DEF OuRecovered
  <2>1. CASE OuSame(r)
    <3>1. ouOut' = OuFlushed /\ ouOpen' = OuNone
      BY <1>8, <2>1 DEF OuRecovered
    <3>2. \A o \in ouOut' : OuWhole(o)' /\ OuRead(o.target, o.end)'
      BY <1>4, <1>7, <1>10, <2>0, <3>1
    <3>3. OuOpening'
      BY <3>1 DEF OuOpening
    <3>4. OuFlushed' = OuFlushed
      BY <3>1 DEF OuFlushed
    <3>5. OuCovered'
      BY <1>1, <1>2, <1>4, <2>0, <3>4 DEF OuCovered
    <3>6. OuTypes'
      BY <1>1, <1>3, <3>1, FS_AddElement DEF OuTypes, OuFlushed
    <3> QED BY <1>5, <3>2, <3>3, <3>5, <3>6 DEF OuInv
  <2>2. CASE ~OuSame(r)
    <3>1. UNCHANGED <<ouOpen, ouOut>>
      BY <1>8, <2>2 DEF OuRecovered
    <3>2. \A o \in ouOut' : OuWhole(o)' /\ OuRead(o.target, o.end)'
      BY <1>1, <1>4, <1>10, <3>1 DEF OuFlushed
    <3>3. OuOpening'
      <4> SUFFICES ASSUME ouOpen # OuNone
                   PROVE  \E u \in OuTargets, a, b \in OuTimes :
                            a <= b /\ ouOpen = OuIncOf(u, a, b)' /\ OuBegun(u, a, b)'
        BY <3>1 DEF OuOpening
      <4>1. PICK u \in OuTargets, a \in OuTimes, b \in OuTimes :
               /\ a <= b /\ ouOpen = OuIncOf(u, a, b) /\ OuBegun(u, a, b)
               /\ ouOpen.target = u
        BY <1>6
      <4>2. u # t
        BY <1>2, <2>2, <4>1 DEF OuSame
      <4>3. OuBegun(u, a, b)'
        BY <1>2, <1>4, <4>1, <4>2 DEF OuBegun, OuDuring, OuRow
      <4> QED BY <1>4, <4>1, <4>3
    <3>4. OuFlushed' = OuFlushed
      BY <3>1 DEF OuFlushed
    <3>5. OuCovered'
      BY <1>1, <1>2, <1>4, <2>0, <3>4 DEF OuCovered
    <3>6. OuTypes'
      BY <1>1, <1>3, <3>1 DEF OuTypes
    <3> QED BY <1>5, <3>2, <3>3, <3>5, <3>6 DEF OuInv
  <2> QED BY <2>1, <2>2
<1>9. CASE OuFailed(r)
  <2>0. ouResult[<<t, x>>] \in {"degraded", "failed"}
    BY <1>3, <1>9 DEF OuFailed
  <2>1. CASE OuSame(r) /\ x - ouOpen.end <= OuGap
    <3>1. /\ ouOpen' = [ouOpen EXCEPT !.end = x, !.count = @ + 1,
                           !.status = IF ouResult[r] = "failed" THEN "failed" ELSE @]
          /\ UNCHANGED ouOut
      BY <1>2, <1>9, <2>1 DEF OuFailed
    <3>2. ouOpen # OuNone /\ ouOpen.target = t
      BY <1>2, <2>1 DEF OuSame
    <3>3. PICK a \in OuTimes, b \in OuTimes :
               /\ a <= b /\ ouOpen = OuIncOf(t, a, b) /\ OuBegun(t, a, b)
               /\ ouOpen.start = a /\ ouOpen.end = b /\ b < x
               /\ \A y \in OuTimes : y > b /\ OuRow(t, y) => y >= x
      BY <1>3, <1>6, <3>2
    <3>4. \A y \in OuTimes : b < y /\ y < x => ~OuRow(t, y)
      BY <1>0, <1>3, <3>3
    <3>5. /\ OuDuring(t, a, x) = OuDuring(t, a, b) \cup {x} /\ x \notin OuDuring(t, a, b)
          /\ OuJoined(t, a, x)
          /\ \A z \in OuTimes : z < a /\ OuJoined(t, z, x) => OuJoined(t, z, b)
      <4>1. x - b <= OuGap /\ ouResult[<<t, x>>] # "ok" /\ OuRow(t, x)
            /\ {a, b} \subseteq OuDuring(t, a, b) /\ OuJoined(t, a, b)
        BY <1>2, <2>0, <2>1, <3>3 DEF OuBegun
      <4> QED BY <3>3, <3>4, <4>1, OuExtend
    <3>6. Cardinality(OuDuring(t, a, x)) = Cardinality(OuDuring(t, a, b)) + 1
      <4>1. IsFiniteSet(OuDuring(t, a, b))
        BY OuDuringFinite
      <4> QED BY <3>5, <4>1, FS_AddElement
    <3>7. ouOpen' = OuIncOf(t, a, x)
      <4> DEFINE bad(b2) == \E y \in OuDuring(t, a, b2) : ouResult[<<t, y>>] = "failed"
      <4>1. bad(x) <=> bad(b) \/ ouResult[<<t, x>>] = "failed"
        BY <3>5
      <4>2. OuIncOf(t, a, b) = [target |-> t, start |-> a, end |-> b,
                                status |-> IF bad(b) THEN "failed" ELSE "degraded",
                                count |-> Cardinality(OuDuring(t, a, b))]
        BY DEF OuIncOf
      <4>3. OuIncOf(t, a, x) = [target |-> t, start |-> a, end |-> x,
                                status |-> IF bad(x) THEN "failed" ELSE "degraded",
                                count |-> Cardinality(OuDuring(t, a, x))]
        BY DEF OuIncOf
      <4> HIDE DEF bad
      <4>4. (IF bad(x) THEN "failed" ELSE "degraded") =
              IF ouResult[r] = "failed" THEN "failed"
              ELSE IF bad(b) THEN "failed" ELSE "degraded"
        BY <1>3, <4>1
      <4>5. ouOpen = [target |-> t, start |-> a, end |-> b,
                      status |-> IF bad(b) THEN "failed" ELSE "degraded",
                      count |-> Cardinality(OuDuring(t, a, b))]
        BY <3>3, <4>2
      <4>6. ouOpen' = [target |-> t, start |-> a, end |-> x,
                       status |-> IF ouResult[r] = "failed" THEN "failed"
                                  ELSE IF bad(b) THEN "failed" ELSE "degraded",
                       count |-> Cardinality(OuDuring(t, a, b)) + 1]
        BY <3>1, <4>5
      <4> QED BY <3>6, <4>3, <4>4, <4>6
    <3>8. OuBegun(t, a, x)'
      <4>1. {a, x} \subseteq OuDuring(t, a, x)
        BY <3>3, <3>5 DEF OuBegun
      <4>2. \A z \in OuTimes : z < a /\ OuRow(t, z) => ~OuJoined(t, z, x)
        BY <3>3, <3>5 DEF OuBegun
      <4>3. OuRead(t, x)' /\ \A y \in OuTimes : y > x /\ OuRow(t, y) => ~OuRead(t, y)'
        <5>1. OuRead(t, x)'
          BY <1>2
        <5>2. ASSUME NEW y \in OuTimes, y > x, OuRow(t, y) PROVE ~OuRead(t, y)'
          <6>1. y > b /\ y # x
            BY <1>0, <1>3, <3>3, <5>2
          <6>2. ~OuRead(t, y)
            BY <3>3, <5>2, <6>1 DEF OuBegun
          <6> QED BY <1>2, <5>2, <6>1, <6>2
        <5> QED BY <5>1, <5>2
      <4> QED BY <1>4, <3>5, <4>1, <4>2, <4>3 DEF OuBegun
    <3>9. a <= x /\ OuIncOf(t, a, x) # OuNone
      BY <1>0, <1>3, <3>3, OuIncIsRecord
    <3>10. OuOpening'
      BY <1>4, <3>7, <3>8, <3>9 DEF OuOpening
    <3>11. OuFlushed' = ouOut \cup {OuIncOf(t, a, x)} /\ OuFlushed = ouOut \cup {OuIncOf(t, a, b)}
      BY <3>1, <3>2, <3>3, <3>7, <3>9 DEF OuFlushed
    <3>12. OuCovered'
      <4> SUFFICES ASSUME NEW u \in OuTargets, NEW y \in OuTimes, OuRow(u, y), OuRead(u, y)',
                          ouResult[<<u, y>>] # "ok"
                   PROVE  \E o \in OuFlushed' : o.target = u /\ o.start <= y /\ y <= o.end
        BY <1>1, <1>4 DEF OuCovered
      <4>1. CASE u = t /\ y = x
        BY <3>9, <3>11, <4>1, <1>3, OuIncFields
      <4>2. CASE ~(u = t /\ y = x)
        <5>1. PICK o \in OuFlushed : o.target = u /\ o.start <= y /\ y <= o.end
          BY <1>1, <1>2, <4>2 DEF OuCovered
        <5>2. CASE o \in ouOut
          BY <3>11, <5>1, <5>2
        <5>3. CASE o = OuIncOf(t, a, b)
          <6>1. u = t /\ a <= y /\ y <= b
            BY <5>1, <5>3, OuIncFields
          <6>2. y <= x
            BY <1>0, <1>3, <3>3, <6>1
          <6> QED BY <3>11, <6>1, <6>2, OuIncFields
        <5> QED BY <3>11, <5>2, <5>3
      <4> QED BY <4>1, <4>2
    <3>13. \A o \in ouOut' : OuWhole(o)' /\ OuRead(o.target, o.end)'
      BY <1>1, <1>4, <1>10, <3>1 DEF OuFlushed
    <3>14. OuTypes'
      BY <1>1, <1>3, <3>1 DEF OuTypes
    <3> QED BY <1>5, <3>10, <3>12, <3>13, <3>14 DEF OuInv
  <2>2. CASE ~(OuSame(r) /\ x - ouOpen.end <= OuGap)
    <3>1. /\ ouOut' = OuFlushed
          /\ ouOpen' = [target |-> t, status |-> ouResult[<<t, x>>],
                        start |-> x, end |-> x, count |-> 1]
      BY <1>2, <1>3, <1>9, <2>2 DEF OuFailed
    <3>2. \A o \in OuFlushed : OuWhole(o)
      BY <1>7, <2>2
    <3>3. OuDuring(t, x, x) = {x} /\ OuJoined(t, x, x)
      <4>1. OuDuring(t, x, x) = {x}
        <5>1. x \in OuDuring(t, x, x)
          BY <1>2, <1>3 DEF OuDuring, OuRow
        <5>2. ASSUME NEW w \in OuDuring(t, x, x) PROVE w = x
          <6>1. w \in Nat /\ x <= w /\ w <= x
            BY <1>0 DEF OuDuring
          <6> QED BY <1>3, <6>1
        <5> QED BY <5>1, <5>2
      <4> QED BY <2>0, <4>1 DEF OuJoined
    <3>4. ouOpen' = OuIncOf(t, x, x)
      <4>1. Cardinality({x}) = 1
        BY FS_Singleton
      <4> DEFINE st == IF \E y \in OuDuring(t, x, x) : ouResult[<<t, y>>] = "failed"
                       THEN "failed" ELSE "degraded"
      <4>2. st = ouResult[<<t, x>>]
        BY <2>0, <3>3
      <4>3. OuIncOf(t, x, x) = [target |-> t, start |-> x, end |-> x, status |-> st,
                                count |-> Cardinality(OuDuring(t, x, x))]
        BY DEF OuIncOf
      <4> HIDE DEF st
      <4>4. Cardinality(OuDuring(t, x, x)) = 1
        BY <3>3, <4>1
      <4>5. OuIncOf(t, x, x) = [target |-> t, start |-> x, end |-> x,
                                status |-> ouResult[<<t, x>>], count |-> 1]
        BY <4>2, <4>3, <4>4, Zenon
      <4>6. ouOpen' = [target |-> t, start |-> x, end |-> x,
                       status |-> ouResult[<<t, x>>], count |-> 1]
        BY <3>1
      <4> QED BY <4>5, <4>6, Zenon
    <3>5. ASSUME NEW z \in OuTimes, z < x, OuRow(t, z), OuJoined(t, z, x) PROVE FALSE
      <4>1. OuRead(t, z) /\ z \in Nat
        <5>1. z \in Nat /\ ~(t > t) /\ ~(z >= x)
          BY <1>0, <1>3, <3>5
        <5> QED BY <1>2, <3>5, <5>1
      <4>2. z \in OuDuring(t, z, x) /\ ouResult[<<t, z>>] # "ok"
        BY <1>3, <3>5, <4>1 DEF OuDuring, OuJoined, OuRow
      <4>3. PICK o \in OuFlushed : o.target = t /\ o.start <= z /\ z <= o.end
        BY <1>1, <3>5, <4>1, <4>2 DEF OuCovered
      <4>4. PICK u \in OuTargets, a \in OuTimes, b \in OuTimes :
              a <= b /\ o = OuIncOf(u, a, b) /\ OuIncident(u, a, b)
        BY <3>2, <4>3 DEF OuWhole
      <4>5. u = t /\ a <= z /\ z <= b /\ a \in Nat /\ b \in Nat
        BY <1>0, <4>3, <4>4, OuIncFields
      <4>6. OuRow(t, b) /\ OuJoined(t, a, b)
        BY <4>4, <4>5 DEF OuIncident, OuDuring, OuRow
      <4>7. b < x
        <5>1. OuRead(t, b)
          BY <1>10, <4>3, <4>4, <4>5, OuIncFields
        <5> QED BY <1>2, <1>3, <4>5, <4>6, <5>1
      <4>8. OuJoined(t, a, x)
        BY <1>3, <3>5, <4>1, <4>5, <4>6, <4>7, OuChain
      <4> QED BY <1>2, <4>4, <4>5, <4>7, <4>8 DEF OuIncident, OuRow
    <3>6. OuBegun(t, x, x)'
      <4>1. OuRead(t, x)' /\ {x, x} \subseteq OuDuring(t, x, x)
        BY <1>2, <3>3
      <4>2. ASSUME NEW y \in OuTimes, y > x, OuRow(t, y) PROVE ~OuRead(t, y)'
        <5>1. y \in Nat /\ y # x /\ ~(t < t) /\ ~(y < x)
          BY <1>0, <1>3, <4>2
        <5> QED BY <1>2, <4>2, <5>1
      <4> QED BY <1>4, <3>3, <3>5, <4>1, <4>2 DEF OuBegun
    <3>7. x <= x /\ OuIncOf(t, x, x) # OuNone
      BY <1>3, OuIncIsRecord
    <3>8. OuOpening'
      BY <1>4, <3>4, <3>6, <3>7 DEF OuOpening
    <3>9. OuFlushed' = OuFlushed \cup {OuIncOf(t, x, x)}
      BY <3>1, <3>4, <3>7 DEF OuFlushed
    <3>10. OuCovered'
      <4> SUFFICES ASSUME NEW u \in OuTargets, NEW y \in OuTimes, OuRow(u, y), OuRead(u, y)',
                          ouResult[<<u, y>>] # "ok"
                   PROVE  \E o \in OuFlushed' : o.target = u /\ o.start <= y /\ y <= o.end
        BY <1>1, <1>4 DEF OuCovered
      <4>1. CASE u = t /\ y = x
        BY <3>7, <3>9, <4>1, OuIncFields
      <4>2. CASE ~(u = t /\ y = x)
        <5>1. PICK o \in OuFlushed : o.target = u /\ o.start <= y /\ y <= o.end
          BY <1>1, <1>2, <4>2 DEF OuCovered
        <5> QED BY <3>9, <5>1
      <4> QED BY <4>1, <4>2
    <3>11. \A o \in ouOut' : OuWhole(o)' /\ OuRead(o.target, o.end)'
      BY <1>4, <1>10, <3>1, <3>2
    <3>12. OuTypes'
      BY <1>1, <1>3, <3>1, FS_AddElement DEF OuTypes, OuFlushed
    <3> QED BY <1>5, <3>8, <3>10, <3>11, <3>12 DEF OuInv
  <2> QED BY <2>1, <2>2
<1> QED BY <1>8, <1>9

(* When the last row has been read, the incidents, the one still open with *)
(* them, are all and only those there are.                                 *)
LEMMA OuReturns ==
  ASSUME OuInv, OuReturn
  PROVE  OuInv'
<1> DEFINE skips == {OuSkipIncident(y) : y \in ouSkipped}
           all == OuFlushed \cup skips
<1>0. /\ OuTargets \subseteq Nat \ {0} /\ OuTimes \subseteq Nat
      /\ OuNone \notin Nat \X Nat /\ OuGap \in Nat /\ IsFiniteSet(OuSkips) /\ OuMax \in Nat
  BY OuConstants
<1>1. /\ OuTypes /\ (\A o \in ouOut : OuWhole(o)) /\ OuOpening /\ OuCovered
      /\ OuUnread = {} /\ ouAt' = OuNone /\ ouOpen' = OuNone
      /\ UNCHANGED <<ouResult, ouSkipped>>
      /\ OuNewest(all, ouOut') /\ ouAt # OuNone
  BY DEF OuInv, OuReturn
<1>2. ASSUME NEW t \in OuTargets, NEW x \in OuTimes, OuRow(t, x) PROVE OuRead(t, x)
  <2>1. <<t, x>> \in OuRows
    BY <1>1, <1>2 DEF OuRows, OuRow, OuTypes
  <2> QED BY <1>1, <2>1 DEF OuUnread, OuRead
<1>3. \A o \in OuFlushed : OuWhole(o)
  <2>1. CASE ouOpen = OuNone
    BY <1>1, <2>1 DEF OuFlushed
  <2>2. CASE ouOpen # OuNone
    <3>1. PICK u \in OuTargets, a \in OuTimes, b \in OuTimes :
            a <= b /\ ouOpen = OuIncOf(u, a, b) /\ OuBegun(u, a, b)
      BY <1>1, <2>2 DEF OuOpening
    <3>2. OuWhole(ouOpen)
      BY <1>1, <1>2, <3>1, OuClosed DEF OuBegun
    <3> QED BY <1>1, <3>2 DEF OuFlushed
  <2> QED BY <2>1, <2>2
<1>4. \A o : OuWhole(o) => o \in OuFlushed
  <2> SUFFICES ASSUME NEW t \in OuTargets, NEW a \in OuTimes, NEW b \in OuTimes,
                      a <= b, OuIncident(t, a, b)
               PROVE  OuIncOf(t, a, b) \in OuFlushed
    BY DEF OuWhole
  <2>1. OuRow(t, a) /\ ouResult[<<t, a>>] # "ok"
    BY DEF OuIncident, OuJoined, OuDuring, OuRow
  <2>2. PICK o \in OuFlushed : o.target = t /\ o.start <= a /\ a <= o.end
    BY <1>1, <1>2, <2>1 DEF OuCovered
  <2>3. PICK u \in OuTargets, c \in OuTimes, d \in OuTimes :
          c <= d /\ o = OuIncOf(u, c, d) /\ OuIncident(u, c, d)
    BY <1>3, <2>2 DEF OuWhole
  <2>4. u = t /\ c <= a /\ a <= d
    BY <2>2, <2>3, OuIncFields
  <2>5. a = c /\ b = d
    BY <2>3, <2>4, OuUnique
  <2> QED BY <2>2, <2>3, <2>4, <2>5
<1>5. OuIncidents = all
  <2> DEFINE P == {q \in OuTargets \X OuTimes \X OuTimes :
                    q[2] <= q[3] /\ OuIncident(q[1], q[2], q[3])}
  <2>1. OuIncidents = {OuIncOf(p[1], p[2], p[3]) : p \in P} \cup skips
    BY DEF OuIncidents, OuIncOf, OuSkipIncident
  <2>2. \A o : (o \in {OuIncOf(p[1], p[2], p[3]) : p \in P}) <=> OuWhole(o)
    <3>1. ASSUME NEW p \in P PROVE OuWhole(OuIncOf(p[1], p[2], p[3]))
      BY DEF OuWhole
    <3>2. ASSUME NEW t \in OuTargets, NEW a \in OuTimes, NEW b \in OuTimes,
                 a <= b, OuIncident(t, a, b)
          PROVE  OuIncOf(t, a, b) \in {OuIncOf(p[1], p[2], p[3]) : p \in P}
      <4>1. <<t, a, b>> \in P
        BY <3>2
      <4> QED BY <4>1
    <3> QED BY <3>1, <3>2 DEF OuWhole
  <2>3. {OuIncOf(p[1], p[2], p[3]) : p \in P} = OuFlushed
    BY <1>3, <1>4, <2>2
  <2> QED BY <2>1, <2>3
<1>6. OuIncidents' = OuIncidents
  BY <1>1 DEF OuIncidents, OuDuring, OuIncident, OuJoined
<1>7. IsFiniteSet(all)
  <2>1. IsFiniteSet(OuFlushed)
    BY <1>1, FS_AddElement DEF OuFlushed, OuTypes
  <2>2. IsFiniteSet(ouSkipped)
    BY <1>0, <1>1, FS_Subset DEF OuTypes
  <2>3. IsFiniteSet(skips)
    <3> DEFINE f == [y \in ouSkipped |-> OuSkipIncident(y)]
    <3>1. f \in Surjection(ouSkipped, skips)
      BY DEF Surjection
    <3> QED BY <2>2, <3>1, FS_Surjection
  <2> QED BY <2>1, <2>3, FS_Union
<1> HIDE DEF all
<1>8. /\ ouOut' \in SUBSET all
      /\ Cardinality(ouOut') = IF Cardinality(all) > OuMax THEN OuMax ELSE Cardinality(all)
      /\ \A x \in ouOut', y \in all \ ouOut' : x.start >= y.start
  BY <1>1 DEF OuNewest
<1>9. ouOut' # all => Cardinality(ouOut') = OuMax
  <2>1. IsFiniteSet(ouOut') /\ (Cardinality(all) = Cardinality(ouOut') => all = ouOut')
    BY <1>7, <1>8, FS_Subset
  <2> QED BY <1>8, <2>1
<1>10. IsFiniteSet(ouOut')
  BY <1>7, <1>8, FS_Subset
<1>11. OuExact'
  BY <1>5, <1>6, <1>8, <1>9 DEF OuExact
<1>12. OuTypes'
  BY <1>1, <1>10 DEF OuTypes
<1> QED BY <1>1, <1>11, <1>12 DEF OuInv

(* Reading the rows in order keeps the account of what has been read, and  *)
(* returning makes it the answer.                                          *)
LEMMA OuInductive ==
  /\ OuInit => OuInv
  /\ OuInv /\ [OuNext]_ouVars => OuInv'
<1>0. /\ OuTargets \subseteq Nat \ {0} /\ OuTimes \subseteq Nat
      /\ OuNone \notin Nat \X Nat /\ OuGap \in Nat /\ IsFiniteSet(OuSkips) /\ OuMax \in Nat
  BY OuConstants
<1>1. ASSUME OuInit PROVE OuInv
  <2>1. ouAt = <<0, 0>> /\ ouOpen = OuNone /\ ouOut = {} /\ ouSkipped \subseteq OuSkips
        /\ ouResult \in [OuTargets \X OuTimes -> {"ok", "degraded", "failed", OuNone}]
    BY <1>1 DEF OuInit
  <2>2. ouAt \in Nat \X Nat /\ ouAt # OuNone
    BY <1>0, <2>1
  <2>3. OuTypes
    BY <2>1, <2>2, FS_EmptySet DEF OuTypes
  <2>4. ASSUME NEW t \in OuTargets, NEW x \in OuTimes PROVE ~OuRead(t, x)
    <3>1. 0 < t
      BY <1>0
    <3> QED BY <2>1, <3>1 DEF OuRead, OuBefore
  <2> QED BY <2>1, <2>2, <2>3, <2>4 DEF OuInv, OuOpening, OuCovered, OuExact
<1>2. ASSUME OuInv, [OuNext]_ouVars PROVE OuInv'
  <2>1. CASE UNCHANGED ouVars
    <3>1. UNCHANGED <<ouResult, ouSkipped, ouAt, ouOpen, ouOut>>
      BY <2>1 DEF ouVars
    <3>2. \A t, x : OuRead(t, x)' <=> OuRead(t, x)
      BY <3>1 DEF OuRead, OuBefore
    <3>3. \A t, a, b : OuBegun(t, a, b)' <=> OuBegun(t, a, b)
      BY <3>1, <3>2, OuRigid DEF OuBegun
    <3>4. OuTypes' /\ (OuOpening' <=> OuOpening)
      BY <1>2, <3>1, <3>3, OuRigid DEF OuInv, OuTypes, OuOpening
    <3>5. OuCovered' <=> OuCovered
      BY <3>1, <3>2, OuRigid DEF OuCovered, OuFlushed
    <3>6. OuExact' <=> OuExact
      <4>1. OuIncidents' = OuIncidents
        BY <3>1 DEF OuIncidents, OuDuring, OuIncident, OuJoined
      <4> QED BY <3>1, <4>1 DEF OuExact
    <3> QED BY <1>2, <3>1, <3>2, <3>4, <3>5, <3>6, OuRigid DEF OuInv
  <2>2. ASSUME ouAt # OuNone, NEW r \in OuRows, OuRecovered(r) \/ OuFailed(r) PROVE OuInv'
    BY <1>2, <2>2, OuReads DEF OuInv
  <2>3. CASE OuReturn
    BY <1>2, <2>3, OuReturns DEF OuInv
  <2> QED BY <1>2, <2>1, <2>2, <2>3 DEF OuNext
<1> QED BY <1>1, <1>2

(***************************************************************************)
(* Together.                                                               *)
(***************************************************************************)

(* However changes, revocations, logins and edits interleave: everybody is  *)
(* locked out only after two changes that overlapped, and whoever made a    *)
(* change is let in; without failing queries a session of other settings    *)
(* belongs to a login that overlapped the change; and the writes of a token *)
(* are no more than the minutes begun.                                      *)
THEOREM AccessIsSafe == AcSpec /\ SnSpec /\ TtSpec => []AccessSafe
<1>1. AcInv => AcUsable /\ AcNotLockedOut
  BY DEF AcInv
<1> QED BY <1>1, AcInductive, SnInductive, SnInvSays, TtInductive, TtCoalesces, PTL
        DEF AcSpec, SnSpec, TtSpec, AccessSafe

(* Targets name queues that exist and have their own history, and a clean   *)
(* retention pass leaves nothing it should have taken.                      *)
THEOREM TablesDoAgree == TgSpec /\ PrSpec => []TablesAgree
<1>1. TgInv => TgQueueExists /\ TgHistoryCurrent
  BY DEF TgInv
<1> QED BY <1>1, TgInductive, PrInductive, PrComplete, PTL DEF TgSpec, PrSpec, TablesAgree

(* The walk over the firings and the pass over the results find what        *)
(* comparing all of them with each other would.                             *)
THEOREM TimesAreExact == OvSpec /\ OuSpec => []TimesExact
<1>1. OvInv => OvFirst
  BY DEF OvInv
<1>2. OuInv => OuExact
  BY DEF OuInv
<1> QED BY <1>1, <1>2, OvInductive, OvWarnsRight, OuInductive, PTL
        DEF OvSpec, OuSpec, TimesExact

(* Rows go only for their own reason: a result or session when it is due, a *)
(* revision when newer ones push it out, the list of servers never.         *)
THEOREM RowsAreKept == I3Spec /\ PrSpec /\ SnSpec /\ TgSpec => RowsKept
<1>1. /\ I3Inv /\ [I3Next]_i3Vars /\ PrInv /\ [PrNext]_prVars
      /\ SnInv /\ [SnNext]_snVars /\ TgInv /\ [TgNext]_tgVars
      => [I3NeverWiped /\ PrResultsKept /\ SnEndsOnlyWhenDue /\ TgHistoryKept]_vars
  BY I3KeepsList, PrKeepsResults, SnEnds, TgKeepsHistory
<1> QED BY <1>1, I3Inductive, PrInductive, SnInductive, TgInductive, PTL
        DEF I3Spec, PrSpec, SnSpec, TgSpec, RowsKept
=============================================================================
