------------------------------ MODULE Overlap ------------------------------
(***************************************************************************)
(* The warning about overlapping schedules (internal/scheduler/overlap.go, *)
(* overlapWarnings in internal/api/schedules.go): the fires of the next 24 *)
(* hours of two schedules are compared by one walk along both lists.       *)
(*                                                                         *)
(* Times count from the moment of the request.  When a schedule fires is   *)
(* the cron library's affair: an ascending list, empty for an expression   *)
(* or a timezone that does not parse.  X_m is a plausible wrong form of X. *)
(***************************************************************************)
EXTENDS Integers, Sequences, FiniteSets

CONSTANTS
    OvOthers,      \* the other enabled schedules
    OvSubject,     \* the schedule that was saved
    OvNone,
    OvWindow, OvThreshold, OvMaxFires,   \* overlapWindow, overlapThreshold, maxFiresPerSched
    OvMaxTime, OvMaxLen    \* bounds: the last fire and the number of fires in the model

ASSUME OvAssumption ==
    /\ {OvWindow, OvThreshold, OvMaxFires, OvMaxTime, OvMaxLen} \subseteq Nat
    /\ OvSubject \notin OvOthers /\ OvNone \notin OvOthers \cup Nat

VARIABLES
    ovTimes,     \* when a schedule fires, from now on
    ovShared,    \* the others that share a queue with the subject
    ovTodo,      \* the others still to be compared
    ovWith,      \* the other being compared
    ovI, ovJ,    \* the walk
    ovWarned     \* the time of the warning about an other, or OvNone

ovInput == <<ovTimes, ovShared>>
ovVars  == <<ovInput, ovTodo, ovWith, ovI, ovJ, ovWarned>>

OvAscending(s) == \A i, j \in DOMAIN s : i < j => s[i] < s[j]
OvLists        ==
    {s \in UNION {[1..n -> 1..OvMaxTime] : n \in 0..OvMaxLen} : OvAscending(s)}

(* A request; the queues of a schedule are those of its targets. *)
OvInit ==
    /\ ovTimes \in [OvOthers \cup {OvSubject} -> OvLists]
    /\ ovShared \in SUBSET OvOthers
    /\ ovTodo = OvOthers /\ ovWith = OvNone
    /\ ovI = 1 /\ ovJ = 1
    /\ ovWarned = [o \in OvOthers |-> OvNone]

(* firesWithin: the fires up to the end of the window, at most OvMaxFires. *)
OvCounted(s)   == {k \in DOMAIN s : s[k] <= OvWindow /\ k <= OvMaxFires}
firesWithin(c) == SubSeq(ovTimes[c], 1, Cardinality(OvCounted(ovTimes[c])))

OvMine   == firesWithin(OvSubject)
OvTheirs == firesWithin(ovWith)

(* FindOverlaps goes through the others; those without a common queue or   *)
(* without a fire are passed over.                                         *)
FindOverlaps(o) ==
    /\ ovWith = OvNone /\ o \in ovTodo
    /\ ovTodo' = IF OvMine = << >> THEN {} ELSE ovTodo \ {o}
    /\ ovWith' = IF o \in ovShared /\ OvMine # << >> /\ firesWithin(o) # << >>
                 THEN o ELSE OvNone
    /\ ovI' = 1 /\ ovJ' = 1
    /\ UNCHANGED <<ovInput, ovWarned>>

OvNear(t, u) == t - u <= OvThreshold /\ u - t <= OvThreshold

(* nearestCollision: a step of the walk.  The earlier one moves on. *)
OvAdvance_m(t, u) == IF t < u THEN <<ovI, ovJ + 1>> ELSE <<ovI + 1, ovJ>>
OvAdvance(t, u)   == IF t < u THEN <<ovI + 1, ovJ>> ELSE <<ovI, ovJ + 1>>

nearestCollision ==
    /\ ovWith # OvNone /\ ovI <= Len(OvMine) /\ ovJ <= Len(OvTheirs)
    /\ LET t == OvMine[ovI]
           u == OvTheirs[ovJ]
       IN IF OvNear(t, u)
          THEN /\ ovWarned' = [ovWarned EXCEPT ![ovWith] = t]
               /\ ovWith' = OvNone
               /\ UNCHANGED <<ovI, ovJ>>
          ELSE /\ ovI' = OvAdvance(t, u)[1] /\ ovJ' = OvAdvance(t, u)[2]
               /\ UNCHANGED <<ovWith, ovWarned>>
    /\ UNCHANGED <<ovInput, ovTodo>>

(* One of the lists is at its end: no warning. *)
OvNoCollision ==
    /\ ovWith # OvNone /\ (ovI > Len(OvMine) \/ ovJ > Len(OvTheirs))
    /\ ovWith' = OvNone
    /\ UNCHANGED <<ovInput, ovTodo, ovI, ovJ, ovWarned>>

OvNext ==
    \/ \E o \in OvOthers : FindOverlaps(o)
    \/ nearestCollision \/ OvNoCollision

OvSpec == OvInit /\ [][OvNext]_ovVars

-----------------------------------------------------------------------------
(* Properties *)

OvSettled(o) == o \notin ovTodo /\ ovWith # o

(* The walk along two lists finds what comparing all pairs finds: the time *)
(* of the warning is the first fire of the subject that has a fire of the  *)
(* other within the threshold.                                             *)
OvFirst ==
    \A o \in OvOthers :
        LET mine == OvMine
            near == {i \in DOMAIN mine : \E j \in DOMAIN firesWithin(o) :
                                            OvNear(mine[i], firesWithin(o)[j])}
        IN OvSettled(o) =>
            IF o \in ovShared /\ near # {}
            THEN \E i \in near : ovWarned[o] = mine[i] /\ \A k \in near : i <= k
            ELSE ovWarned[o] = OvNone

(* "warns when another enabled schedule that shares a queue fires within   *)
(* 60 seconds of it in the next 24 hours": every warning is right, and an  *)
(* overlap goes unreported only if a schedule fires more than OvMaxFires   *)
(* times in the window.                                                    *)
OvWarns ==
    \A o \in OvOthers :
        LET in(c) == {k \in DOMAIN ovTimes[c] : ovTimes[c][k] <= OvWindow}
            overlap == \E i \in in(OvSubject), j \in in(o) :
                          OvNear(ovTimes[OvSubject][i], ovTimes[o][j])
        IN OvSettled(o) =>
            /\ ovWarned[o] # OvNone => o \in ovShared /\ overlap
            /\ o \in ovShared /\ overlap =>
                  \/ ovWarned[o] # OvNone
                  \/ \E c \in {OvSubject, o} : Cardinality(in(c)) > OvMaxFires
=============================================================================
