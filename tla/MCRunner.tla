------------------------------ MODULE MCRunner ------------------------------
(* Small instances of Runner for TLC.                                      *)
EXTENDS Runner, TLC

CONSTANTS r1, r2, t1, t2, qa, qb, c1, c2, s1

(* Two targets in two queues. *)
MCQueueOf == t1 :> qa @@ t2 :> qb

(* Two targets in one queue. *)
MCQueueOf1 == t1 :> qa @@ t2 :> qa

MCRequest(trigger, s, T) == [trigger |-> trigger, schedule |-> s, targets |-> T]

(* A person runs everything, cron runs everything that is enabled. *)
MCRequests == {MCRequest("manual", None, {t1, t2}),
               MCRequest("cron", s1, {t1, t2})}

(* A person runs one target. *)
MCQueueOf0 == t1 :> qa
MCSingle   == {MCRequest("manual", None, {t1})}

MCManual == {MCRequest("manual", None, {t1, t2})}

RunSymmetry == Permutations(Runs)
ClientSymmetry == Permutations(Runs) \cup Permutations(Clients)
=============================================================================
