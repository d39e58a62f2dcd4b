------------------------------ MODULE Outages ------------------------------
(***************************************************************************)
(* The outage timeline (Outages in internal/store/outages.go): one pass    *)
(* over the results, ordered by target and time, that collapses failures   *)
(* which follow one another into incidents; runs that were skipped are     *)
(* incidents of their own, and the newest of all are returned.             *)
(*                                                                         *)
(* A result has a target, a time and a status.  Results of deleted targets *)
(* are told apart by name, which makes a deleted target a target here.     *)
(* Error texts are left out.                                               *)
(***************************************************************************)
EXTENDS Integers, FiniteSets

CONSTANTS
    OuTargets,     \* 1..n, in the order of the query
    OuTimes,       \* instants of the period that is asked for
    OuSkips,       \* instants at which a fire may have been skipped
    OuGap,         \* gapSeconds
    OuMax,         \* maxIncidents
    OuNone,
    OuMaxResults   \* bound

ASSUME OuAssumption ==
    /\ OuTargets \subseteq Nat \ {0} /\ OuTimes \cup OuSkips \subseteq Nat
    /\ {OuGap, OuMax, OuMaxResults} \subseteq Nat /\ IsFiniteSet(OuSkips)
    /\ OuNone \notin Nat \X Nat
    /\ OuNone \notin [target : Nat, status : {"degraded", "failed"},
                    start : Nat, end : Nat, count : Nat]

VARIABLES
    ouResult,    \* the status of a target's result at an instant, or OuNone
    ouSkipped,   \* when a run was skipped
    ouAt,        \* the rows up to this one have been read
    ouOpen,      \* cur and curEnd
    ouOut        \* out

ouVars == <<ouResult, ouSkipped, ouAt, ouOpen, ouOut>>

OuInit ==
    /\ ouResult \in {f \in [OuTargets \X OuTimes -> {"ok", "degraded", "failed", OuNone}] :
                       Cardinality({x \in DOMAIN f : f[x] # OuNone}) <= OuMaxResults}
    /\ ouSkipped \in SUBSET OuSkips
    /\ ouAt = <<0, 0>>
    /\ ouOpen = OuNone /\ ouOut = {}

(* The order of the rows *)
OuBefore(r, s) == r[1] < s[1] \/ (r[1] = s[1] /\ r[2] < s[2])
OuRows         == {r \in DOMAIN ouResult : ouResult[r] # OuNone}
OuUnread       == {r \in OuRows : OuBefore(ouAt, r)}
OuNextRow(r)   == r \in OuUnread /\ \A s \in OuUnread : s = r \/ OuBefore(r, s)

OuFlushed == IF ouOpen = OuNone THEN ouOut ELSE ouOut \cup {ouOpen}

OuSame(r) == ouOpen # OuNone /\ ouOpen.target = r[1]

(* A result that is ok closes the incident of its target. *)
OuRecovered(r) ==
    /\ OuNextRow(r) /\ ouResult[r] = "ok"
    /\ IF OuSame(r) THEN ouOut' = OuFlushed /\ ouOpen' = OuNone
                    ELSE UNCHANGED <<ouOpen, ouOut>>
    /\ ouAt' = r /\ UNCHANGED <<ouResult, ouSkipped>>

(* Another failure extends the incident, or closes it and opens one. *)
OuFailed(r) ==
    /\ OuNextRow(r) /\ ouResult[r] \in {"degraded", "failed"}
    /\ IF OuSame(r) /\ r[2] - ouOpen.end <= OuGap
       THEN /\ ouOpen' = [ouOpen EXCEPT !.end = r[2], !.count = @ + 1,
                            !.status = IF ouResult[r] = "failed" THEN "failed" ELSE @]
            /\ UNCHANGED ouOut
       ELSE /\ ouOut' = OuFlushed
            /\ ouOpen' = [target |-> r[1], status |-> ouResult[r],
                          start |-> r[2], end |-> r[2], count |-> 1]
    /\ ouAt' = r /\ UNCHANGED <<ouResult, ouSkipped>>

(* The newest first, at most OuMax of them. *)
OuNewest(all, s) ==
    /\ s \in SUBSET all
    /\ Cardinality(s) = IF Cardinality(all) > OuMax THEN OuMax ELSE Cardinality(all)
    /\ \A x \in s, y \in all \ s : x.start >= y.start

OuSkipIncident(x) ==
    [target |-> OuNone, status |-> "skipped", start |-> x, end |-> x, count |-> 1]

OuReturn ==
    /\ ouAt # OuNone /\ OuUnread = {}
    /\ LET all == OuFlushed \cup {OuSkipIncident(x) : x \in ouSkipped}
       IN \E s \in SUBSET all : OuNewest(all, s) /\ ouOut' = s
    /\ ouAt' = OuNone /\ ouOpen' = OuNone
    /\ UNCHANGED <<ouResult, ouSkipped>>

OuNext == OuReturn \/ (ouAt # OuNone /\ \E r \in OuRows : OuRecovered(r) \/ OuFailed(r))

OuSpec == OuInit /\ [][OuNext]_ouVars

-----------------------------------------------------------------------------
(* Properties *)

(* What an incident is: failures of one target with no good result between *)
(* them and no pause longer than the gap, as many as belong together.      *)
OuDuring(t, a, b) == {x \in OuTimes : a <= x /\ x <= b /\ ouResult[<<t, x>>] # OuNone}
OuJoined(t, a, b) ==
    /\ \A x \in OuDuring(t, a, b) : ouResult[<<t, x>>] # "ok"
    /\ \A x \in OuDuring(t, a, b) :
          x = b \/ \E y \in OuDuring(t, a, b) : x < y /\ y - x <= OuGap
OuIncident(t, a, b) ==
    /\ {a, b} \subseteq OuDuring(t, a, b) /\ OuJoined(t, a, b)
    /\ \A x \in OuTimes : x < a /\ ouResult[<<t, x>>] # OuNone => ~OuJoined(t, x, b)
    /\ \A x \in OuTimes : x > b /\ ouResult[<<t, x>>] # OuNone => ~OuJoined(t, a, x)

OuIncidents ==
    {[target |-> p[1], start |-> p[2], end |-> p[3],
      status |-> IF \E x \in OuDuring(p[1], p[2], p[3]) : ouResult[<<p[1], x>>] = "failed"
                 THEN "failed" ELSE "degraded",
      count |-> Cardinality(OuDuring(p[1], p[2], p[3]))] :
        p \in {q \in OuTargets \X OuTimes \X OuTimes :
                 q[2] <= q[3] /\ OuIncident(q[1], q[2], q[3])}}
    \cup {[target |-> OuNone, status |-> "skipped", start |-> x, end |-> x, count |-> 1] :
             x \in ouSkipped}

(* "Consecutive failed/degraded results for the same target that are no    *)
(* more than gapSeconds apart collapse into one incident": the pass over   *)
(* the ordered rows finds exactly the incidents there are, each whole, and *)
(* only older ones than those returned are left out by the cap.            *)
OuExact ==
    ouAt = OuNone =>
        /\ ouOut \subseteq OuIncidents
        /\ ouOut # OuIncidents => Cardinality(ouOut) = OuMax
        /\ \A x \in ouOut, y \in OuIncidents \ ouOut : x.start >= y.start
=============================================================================
