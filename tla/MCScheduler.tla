---------------------------- MODULE MCScheduler ----------------------------
(* Small instances of Scheduler for TLC. *)
EXTENDS Scheduler, TLC

CONSTANTS sa, sb, t1, e1

(* The first row was broken by hand, so it has no entry; saving it moves   *)
(* the entry ids of both.                                                  *)
MCOrder   == <<sa, sb>>
MCRows    == sa :> [spec |-> BadSpec, enabled |-> TRUE]
          @@ sb :> [spec |-> e1, enabled |-> TRUE]
MCTargets == sa :> {t1} @@ sb :> {t1}

MCOrder1   == <<sa>>
MCRows1    == sa :> [spec |-> e1, enabled |-> TRUE]
MCTargets1 == sa :> {t1}

HandlerSymmetry == Permutations(Handlers)
=============================================================================
