------------------------------- MODULE Prune -------------------------------
(***************************************************************************)
(* The retention job (internal/prune/prune.go) and the deletions it makes  *)
(* (PruneRunsBefore in internal/store/runs.go, PruneResultsBefore in       *)
(* results.go, DeleteExpiredSessions in sessions.go), beside a runner that *)
(* goes on writing rows.                                                   *)
(*                                                                         *)
(* Time is a day number.  A run has a status and the day it ended, results *)
(* belong to runs (deleting a run cascades to them), sessions have the day *)
(* they expire.  Every operator begins with Pr.                            *)
(* X_m is a plausible wrong form of X, for mutation checks.                *)
(***************************************************************************)
EXTENDS Integers, FiniteSets

CONSTANTS
    PrRuns,         \* runs that may be created
    PrResultOf,     \* the result rows a run may write, each row of one run
    PrDays,         \* retention settings; 0 is "keep for ever"
    PrGone,         \* no such row
    PrBatch,        \* Config.Batch
    PrMaxDay, PrMaxEdits, PrMaxErrors    \* bounds

ASSUME PrBounds ==
    /\ PrBatch \in Nat \ {0} /\ PrDays \subseteq Nat
    /\ {PrMaxDay, PrMaxEdits, PrMaxErrors} \subseteq Nat
    /\ \A a, b \in PrRuns : a # b => PrResultOf[a] \cap PrResultOf[b] = {}

PrResults == UNION {PrResultOf[r] : r \in PrRuns}
PrEnded   == {"done", "failed", "canceled", "skipped"}

VARIABLES
    prDay,
    prRun,       \* runs: status, and COALESCE(finished_at, started_at)
    prResult,    \* results: started_at
    prSession,   \* the expires_at of a session
    prConf,      \* retention days
    prPc,        \* the job
    prCut,       \* now and the cutoffs of the pass, PrGone where it has none
    prFailed,    \* the pass has met an error
    prClean,     \* history: the cutoffs of the last pass, if it met no error
    prEdits, prErrors

prBounds == <<prEdits, prErrors>>
prVars   == <<prDay, prRun, prResult, prSession, prConf, prPc, prCut,
              prFailed, prClean, prBounds>>

PrNoCut == [results |-> PrGone, runs |-> PrGone, now |-> PrGone]

PrInit ==
    /\ prDay = 0
    /\ prRun = [r \in PrRuns |-> PrGone]
    /\ prResult = [x \in PrResults |-> PrGone]
    /\ prSession = 1
    /\ prConf \in [results : PrDays, runs : PrDays]
    /\ prPc = "idle" /\ prCut = PrNoCut /\ prFailed = FALSE /\ prClean = PrNoCut
    /\ prEdits = 0 /\ prErrors = 0

-----------------------------------------------------------------------------
(* What goes on around the job *)

prJob == <<prPc, prCut, prFailed, prClean>>

PrNewDay ==
    /\ prDay < PrMaxDay /\ prDay' = prDay + 1
    /\ UNCHANGED <<prRun, prResult, prSession, prConf, prJob, prBounds>>

PrConfigure(c) ==
    /\ prEdits < PrMaxEdits /\ c # prConf
    /\ prConf' = c /\ prEdits' = prEdits + 1
    /\ UNCHANGED <<prDay, prRun, prResult, prSession, prJob, prErrors>>

(* A run starts, writes its results and ends (Runner has the details). *)
PrRunStep(r) ==
    /\ \/ /\ prRun[r] = PrGone /\ \A x \in PrResultOf[r] : prResult[x] = PrGone
          /\ prDay < PrMaxDay
          /\ prRun' = [prRun EXCEPT ![r] = [status |-> "running", end |-> prDay]]
          /\ UNCHANGED prResult
       \/ /\ prRun[r] # PrGone /\ prRun[r].status = "running"
          /\ \E x \in PrResultOf[r] :
                /\ prResult[x] = PrGone
                /\ prResult' = [prResult EXCEPT ![x] = prDay]
          /\ UNCHANGED prRun
       \/ /\ prRun[r] # PrGone /\ prRun[r].status = "running"
          /\ prRun' = [prRun EXCEPT ![r] = [status |-> "done", end |-> prDay]]
          /\ UNCHANGED prResult
    /\ UNCHANGED <<prDay, prSession, prConf, prJob, prBounds>>

-----------------------------------------------------------------------------
(* Once *)

prAround == <<prDay, prConf, prEdits>>

PrCutoff(days) == IF days = 0 THEN PrGone ELSE prDay - days

(* The settings are read once; a pass that cannot read them does nothing. *)
PrBegin ==
    /\ prPc = "idle"
    /\ prPc' = "results" /\ prFailed' = FALSE
    /\ prCut' = [results |-> PrCutoff(prConf.results), runs |-> PrCutoff(prConf.runs),
                 now |-> prDay]
    /\ prClean' = PrNoCut
    /\ UNCHANGED <<prAround, prRun, prResult, prSession, prErrors>>

(* The rows of a batch: at most PrBatch of those that qualify (the code    *)
(* takes the first by id or age, the model any).                           *)
PrBatches(rows) ==
    {b \in SUBSET rows : /\ Cardinality(b) <= PrBatch
                         /\ Cardinality(b) < PrBatch => b = rows}

PrOldResults ==
    {x \in PrResults : prResult[x] # PrGone /\ prCut.results # PrGone
                       /\ prResult[x] < prCut.results}

PrDrained(b) == b = {}

PrResultsBatch ==
    /\ prPc = "results"
    /\ \E b \in PrBatches(PrOldResults) :
          /\ prResult' = [x \in PrResults |-> IF x \in b THEN PrGone ELSE prResult[x]]
          /\ prPc' = IF PrDrained(b) THEN "runs" ELSE "results"
    /\ UNCHANGED <<prAround, prRun, prSession, prCut, prFailed, prClean, prErrors>>

PrHasResults(r) == \E x \in PrResultOf[r] : prResult[x] # PrGone

(* Only ended runs without results: the deletion cascades. *)
PrOldRuns_m ==
    {r \in PrRuns : prRun[r] # PrGone /\ prCut.runs # PrGone
                    /\ prRun[r].end < prCut.runs /\ prRun[r].status \in PrEnded}
PrOldRuns ==
    {r \in PrRuns : /\ prRun[r] # PrGone /\ prCut.runs # PrGone
                    /\ prRun[r].end < prCut.runs
                    /\ prRun[r].status \in PrEnded
                    /\ ~PrHasResults(r)}

PrRunsBatch ==
    /\ prPc = "runs"
    /\ \E b \in PrBatches(PrOldRuns) :
          /\ prRun' = [r \in PrRuns |-> IF r \in b THEN PrGone ELSE prRun[r]]
          /\ prResult' = [x \in PrResults |->
                            IF \E r \in b : x \in PrResultOf[r] THEN PrGone
                                                                ELSE prResult[x]]
          /\ prPc' = IF b = {} THEN "sessions" ELSE "runs"
    /\ UNCHANGED <<prAround, prSession, prCut, prFailed, prClean, prErrors>>

PrEnd(failed) ==
    /\ prPc' = "idle" /\ prFailed' = FALSE
    /\ prClean' = IF failed THEN PrNoCut ELSE prCut
    /\ prCut' = PrNoCut

PrSessions ==
    /\ prPc = "sessions"
    /\ prSession' = IF prSession # PrGone /\ prSession <= prCut.now THEN PrGone ELSE prSession
    /\ PrEnd(prFailed)
    /\ UNCHANGED <<prAround, prRun, prResult, prErrors>>

(* A deletion fails, or the context has ended: the section is given up,    *)
(* the next one still runs.                                                *)
PrError ==
    /\ prPc \in {"results", "runs", "sessions"} /\ prErrors < PrMaxErrors
    /\ prErrors' = prErrors + 1
    /\ IF prPc = "sessions" THEN PrEnd(TRUE)
       ELSE /\ prPc' = (IF prPc = "results" THEN "runs" ELSE "sessions")
            /\ prFailed' = TRUE
            /\ UNCHANGED <<prCut, prClean>>
    /\ UNCHANGED <<prAround, prRun, prResult, prSession>>

PrPass == PrResultsBatch \/ PrRunsBatch \/ PrSessions

PrNext ==
    \/ PrNewDay \/ PrBegin \/ PrPass \/ PrError
    \/ \E c \in [results : PrDays, runs : PrDays] : PrConfigure(c)
    \/ \E r \in PrRuns : PrRunStep(r)

(* The job's goroutine runs; nothing is assumed about the rows that are    *)
(* written meanwhile.                                                      *)
PrFairness == WF_prVars(PrPass)

PrSpec == PrInit /\ [][PrNext]_prVars /\ PrFairness

-----------------------------------------------------------------------------
(* Properties *)

(* A result leaves only because of its own age and the results retention   *)
(* the pass read: a shorter retention of runs never takes results along.   *)
PrResultsKept ==
    \A x \in PrResults :
        prResult[x] # PrGone /\ prResult'[x] = PrGone =>
           prCut.results # PrGone /\ prResult[x] < prCut.results

(* A pass that reports no error has left nothing it should have removed.   *)
PrPassComplete ==
    /\ \A x \in PrResults : prResult[x] # PrGone /\ prClean.results # PrGone =>
          prResult[x] >= prClean.results
    /\ \A r \in PrRuns :
          prRun[r] # PrGone /\ prClean.runs # PrGone
          /\ prRun[r].status \in PrEnded /\ ~PrHasResults(r) =>
             prRun[r].end >= prClean.runs

(* A pass ends, although rows are written while it runs. *)
PrPassEnds == prPc # "idle" ~> prPc = "idle"
=============================================================================
