---------------------------- MODULE MCNotifier ----------------------------
(* Small instances of Notifier for TLC. *)
EXTENDS Notifier, TLC

CONSTANTS t1, s1, s2

(* Thresholds: a limit for download (or none), alerts on failure, always.  *)
Th(d, f, a) == [download |-> d, on_failure |-> f, always |-> a]
Doc(th, nulled) == [over |-> th, nulled |-> nulled]
Inherit == Th(None, None, None)

(* A document that inherits, one that turns download off and wants         *)
(* summaries.                                                              *)
MCDocs == {Doc(Inherit, {}), Doc(Th(None, None, TRUE), {"download"})}

(* The last tick of a day of 3 is quiet: the window ends at midnight. *)
MCConf(enabled) ==
    [enabled |-> enabled, defaults |-> Th(1, TRUE, None),
     cooldown |-> 2, start |-> 2, end |-> 0, recovery |-> TRUE]
MCConfs == {MCConf(TRUE), MCConf(FALSE)}

Res(ok, v, engine) == [target |-> t1, ok |-> ok, engine |-> engine,
                       val |-> "download" :> v]
MCResults == {Res(TRUE, 2, "ookla"), Res(TRUE, 0, "ookla"),
              Res(TRUE, 0, "iperf3"), Res(FALSE, 0, "ookla")}

SenderSymmetry == Permutations(Senders)
=============================================================================
