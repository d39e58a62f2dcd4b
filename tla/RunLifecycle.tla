---------------------------- MODULE RunLifecycle ----------------------------
(***************************************************************************)
(* What the runs and results tables promise to their readers (the API, the *)
(* scheduler's dedupe check, the history and the prune job), independently *)
(* of who writes them: the statuses of internal/store/runs.go and the one  *)
(* result row per target of internal/runner/runner.go.                     *)
(***************************************************************************)
EXTENDS Sequences

CONSTANTS Runs, Targets

VARIABLES
    status,   \* runs.status, "none" before the row exists
    wanted,   \* the targets the run was created for
    rows      \* its result rows, per target

vars == <<status, wanted, rows>>

Unfinished == {"queued", "running"}
Finished   == {"done", "failed", "canceled"}

(* Every target has its one row, and the row is good. *)
Complete(r) == \A t \in wanted[r] : rows[r][t] = <<"ok">>

Init ==
    /\ status = [r \in Runs |-> "none"]
    /\ wanted = [r \in Runs |-> {}]
    /\ rows = [r \in Runs |-> [t \in Targets |-> <<>>]]

Create(r, T) ==
    /\ status[r] = "none" /\ T # {}
    /\ status' = [status EXCEPT ![r] = "queued"]
    /\ wanted' = [wanted EXCEPT ![r] = T]
    /\ UNCHANGED rows

Start(r) ==
    /\ status[r] \in Unfinished
    /\ status' = [status EXCEPT ![r] = "running"]
    /\ UNCHANGED <<wanted, rows>>

(* A result is recorded once, and only for a target the run wants. *)
Record(r, t, outcome) ==
    /\ t \in wanted[r] /\ rows[r][t] = <<>>
    /\ rows' = [rows EXCEPT ![r][t] = <<outcome>>]
    /\ UNCHANGED <<status, wanted>>

(* Unfinished runs end together when a restart reaps them, one by one      *)
(* otherwise; only a complete run may be called done.                      *)
Finish(S, outcome) ==
    /\ \A r \in S : status[r] \in Unfinished
    /\ outcome = "done" => \A r \in S : Complete(r)
    /\ status' = [r \in Runs |-> IF r \in S THEN outcome ELSE status[r]]
    /\ UNCHANGED <<wanted, rows>>

Next ==
    \/ \E r \in Runs, T \in SUBSET Targets : Create(r, T)
    \/ \E r \in Runs : Start(r)
    \/ \E r \in Runs, t \in Targets, o \in {"ok", "failed"} : Record(r, t, o)
    \/ \E S \in SUBSET Runs, o \in Finished : Finish(S, o)

Spec == Init /\ [][Next]_vars
=============================================================================
