----------------------------- MODULE MCServices -----------------------------
(***************************************************************************)
(* Small instances of the services around the measuring core: the          *)
(* exporters, the event hub, the server search, the two server lists, the  *)
(* retention job, the settings document, access, sessions, last-used       *)
(* times, the targets with their history, and two algorithms over times.   *)
(* In the program they run beside one another without sharing state, so    *)
(* their interleaving shows nothing new: a behaviour follows one of them,  *)
(* chosen in the initial state from Focus, and the fairness its module     *)
(* states is assumed of it.                                                *)
(***************************************************************************)
EXTENDS VmPush, VlPush, SseHub, ServerSearch, ServerList, Iperf3List, Prune,
        SettingsDoc, Access, Sessions, TokenTouch, Targets, Overlap, Outages, TLC

CONSTANTS Focus, r1, r2, r3, c1, c2, t1, p1, p2, None

VARIABLE focus

(* Two requests for one postcode, one for another. *)
MCKey == r1 :> "a" @@ r2 :> "a" @@ r3 :> "b"

(* A run with a result, and one without. *)
MCResultOf == r1 :> {"x"} @@ r2 :> {}

(* Two clients that send a token, each behind its own proxy. *)
MCBearer == c1 :> t1 @@ c2 :> t1
MCProxy  == c1 :> p1 @@ c2 :> p2

(* Everybody for a short time, one person for the default time, no OIDC. *)
MCEverybody == [oidc |-> TRUE, allowed |-> {c1, c2}, ttl |-> 1]
MCConfs     == {MCEverybody, [oidc |-> TRUE, allowed |-> {c1}, ttl |-> 0],
                [oidc |-> FALSE, allowed |-> {}, ttl |-> 1]}

vars == <<focus, vmVars, vlVars, sseVars, ssVars, slVars, i3Vars, prVars,
          docVars, acVars, snVars, ttVars, tgVars, ovVars, ouVars>>

(* The services that are not followed have one initial state; sessions     *)
(* begin with a configuration that admits everybody, access with nothing   *)
(* or in token mode.                                                       *)
Init ==
    /\ focus \in Focus
    /\ IF focus = "iperf3" THEN TRUE ELSE i3Url = I3NoUrl /\ i3List = I3NoList
    /\ IF focus = "prune" THEN TRUE ELSE prConf = [results |-> 0, runs |-> 0]
    /\ IF focus = "doc" THEN TRUE ELSE docLocked = {}
    /\ acIssued \in IF focus = "access" THEN {{}, AcTokens} ELSE {{}}
    /\ snStored = MCEverybody
    /\ IF focus = "overlap" THEN TRUE
       ELSE ovShared = {} /\ ovTimes = [c \in OvOthers \cup {OvSubject} |-> << >>]
    /\ IF focus = "outages" THEN TRUE
       ELSE ouSkipped = {} /\ ouResult = [x \in OuTargets \X OuTimes |-> None]
    /\ VmInit /\ VlInit /\ SseInit /\ SsInit /\ SlInit /\ I3Init /\ PrInit
    /\ DocInit /\ AcInit /\ SnInit /\ TtInit /\ TgInit /\ OvInit /\ OuInit
    /\ focus # "targets" => tgRow[1].opt = r1
    /\ (acStored.mode = "token") <=> (acIssued # {})

(* Only the service that is followed moves. *)
Others ==
    /\ UNCHANGED focus
    /\ IF focus = "vmpush" THEN TRUE ELSE UNCHANGED vmVars
    /\ IF focus = "vlpush" THEN TRUE ELSE UNCHANGED vlVars
    /\ IF focus = "sse" THEN TRUE ELSE UNCHANGED sseVars
    /\ IF focus = "search" THEN TRUE ELSE UNCHANGED ssVars
    /\ IF focus = "ookla" THEN TRUE ELSE UNCHANGED slVars
    /\ IF focus = "iperf3" THEN TRUE ELSE UNCHANGED i3Vars
    /\ IF focus = "prune" THEN TRUE ELSE UNCHANGED prVars
    /\ IF focus = "doc" THEN TRUE ELSE UNCHANGED docVars
    /\ IF focus = "access" THEN TRUE ELSE UNCHANGED acVars
    /\ IF focus = "sessions" THEN TRUE ELSE UNCHANGED snVars
    /\ IF focus = "touch" THEN TRUE ELSE UNCHANGED ttVars
    /\ IF focus = "targets" THEN TRUE ELSE UNCHANGED tgVars
    /\ IF focus = "overlap" THEN TRUE ELSE UNCHANGED ovVars
    /\ IF focus = "outages" THEN TRUE ELSE UNCHANGED ouVars

Next ==
    \/ focus = "vmpush" /\ VmNext /\ Others
    \/ focus = "vlpush" /\ VlNext /\ Others
    \/ focus = "sse" /\ SseNext /\ Others
    \/ focus = "search" /\ SsNext /\ Others
    \/ focus = "ookla" /\ SlNext /\ Others
    \/ focus = "iperf3" /\ I3Next /\ Others
    \/ focus = "prune" /\ PrNext /\ Others
    \/ focus = "doc" /\ DocNext /\ Others
    \/ focus = "access" /\ AcNext /\ Others
    \/ focus = "sessions" /\ SnNext /\ Others
    \/ focus = "touch" /\ TtNext /\ Others
    \/ focus = "targets" /\ TgNext /\ Others
    \/ focus = "overlap" /\ OvNext /\ Others
    \/ focus = "outages" /\ OuNext /\ Others

Spec == Init /\ [][Next]_vars

(* The strong fairness of the modules: what a select, a mutex or a timer   *)
(* grants in the end when it is wanted again and again.  One formula       *)
(* serves several modules, since only the service followed takes steps.    *)
Granted(c) ==
    /\ \/ focus = "sse" /\ (SseReceive(c) \/ SseSeeClosed(c))
       \/ /\ c = c1
          /\ \/ focus = "vmpush" /\ VmFlushEnds
             \/ focus = "ookla" /\ SlInvalidated
             \/ focus = "iperf3" /\ I3TakeKick
             \/ focus = "touch" /\ TtExit
    /\ Others

FairSpec ==
    /\ Spec
    /\ WF_vmVars(focus = "vmpush" /\ VmRun)
    /\ WF_vmVars(focus = "vmpush" /\ (VmExpire \/ VmCancel))
    /\ WF_vlVars(focus = "vlpush" /\ VlRun)
    /\ \A c \in SseClients : WF_sseVars(focus = "sse" /\ SseStream(c))
    /\ \A r \in SsRequests : WF_ssVars(focus = "search" /\ SsFly(r))
    /\ \A r \in SlRequests :
          WF_slVars(focus = "ookla" /\ \E ok \in BOOLEAN : SlFetched(r, ok))
    /\ WF_i3Vars(focus = "iperf3" /\ (I3Notify \/ I3NotifyFails))
    /\ WF_i3Vars(focus = "iperf3" /\ (I3Start \/ I3Leave))
    /\ \A p \in I3Procs : WF_i3Vars(focus = "iperf3" /\ I3Refresh(p))
    /\ WF_prVars(focus = "prune" /\ PrPass)
    /\ WF_ttVars(focus = "touch" /\ (TtTake \/ doTouch \/ TtClosed))
    /\ \A c \in SseClients : SF_vars(Granted(c))

-----------------------------------------------------------------------------
(* What the services promise together; each conjunct is about the service  *)
(* its name begins with.                                                   *)

(* A cache never holds what it should not: no incomplete answer of a       *)
(* search, no list of servers from before it was invalidated; and a        *)
(* changed feed, as long as the settings can be read, is on its way to the *)
(* loop that fetches it.                                                   *)
CachesSound == SsSafe /\ SlCacheCurrent /\ I3ChangeCarried

(* Changes of the auth settings and revocations lock everybody out only    *)
(* when two of them overlap, and whoever makes one is still let in; once   *)
(* the settings are applied, the only sessions of other settings are those *)
(* of logins that overlapped the change; and the database is written at    *)
(* most once a minute for a token.                                         *)
AccessSafe == AcUsable /\ AcNotLockedOut /\ SnOnlyOverlapping /\ TtCoalesced

(* The tables agree with one another: targets with their queues and with   *)
(* their history, and a clean retention pass with what is left.            *)
TablesAgree == TgQueueExists /\ TgHistoryCurrent /\ PrPassComplete

(* The one-pass algorithms over times find what comparing all pairs finds. *)
TimesExact == OvFirst /\ OvWarns /\ OuExact

(* Rows go only for their own reason: a server list is only ever replaced, *)
(* a result goes by its own retention, a session by time, logout or an     *)
(* auth change, a revision behind TgKeep newer ones.                       *)
RowsKept ==
    [][I3NeverWiped /\ PrResultsKept /\ SnEndsOnlyWhenDue /\ TgHistoryKept]_vars

(* Closing a writer, the hub or the middleware ends its goroutines,        *)
(* whatever the other side does.                                           *)
ClosingEnds == VmStops /\ VlStops /\ SseStreamsEnd /\ TtCloses

(* What was begun is brought to its end: a search is answered, the         *)
(* settings pump gets past the server list, a changed feed is read without *)
(* the daily tick unless reading the settings fails after the change, a    *)
(* retention pass is over some time.                                       *)
WorkEnds == SsAnswered /\ SlPumpGoesOn /\ I3ChangeSeen /\ PrPassEnds
=============================================================================
