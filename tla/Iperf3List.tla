----------------------------- MODULE Iperf3List -----------------------------
(***************************************************************************)
(* The refresher of the public iperf3 server list                          *)
(* (internal/iperf3list/refresher.go, fetch.go) with the table it fills    *)
(* (internal/store/iperf3servers.go), the settings pump that kicks it and  *)
(* POST /iperf3/servers/refresh (internal/api/iperf3.go).                  *)
(*                                                                         *)
(* The loop "run" and a request "api" refresh concurrently: each reads the *)
(* URL, fetches, and replaces the table in a transaction.  A list is the   *)
(* URL it came from; its rows are left out.  Every operator begins with    *)
(* I3.  X_m is a plausible wrong form of X, for mutation checks.           *)
(***************************************************************************)
EXTENDS Integers

CONSTANTS
    I3Urls,        \* feeds
    I3NoUrl,       \* the empty setting: refreshing is disabled
    I3NoList,      \* the table is empty, fetched_at is not set
    I3MaxEdits,    \* bound: changes of the setting
    I3MaxCalls     \* bound: POSTs

ASSUME I3Bounds ==
    /\ {I3MaxEdits, I3MaxCalls} \subseteq Nat
    /\ I3NoUrl \notin I3Urls /\ I3NoList \notin I3Urls

VARIABLES
    i3Url,       \* engines.iperf3_list_url
    i3Change,    \* the pump has a change of an engines key to handle
    i3Kick,      \* r.kick holds a token
    i3Pc,        \* the loop and the request
    i3Reading,   \* the URL each of them read
    i3List,      \* iperf3_servers and iperf3_meta.fetched_at
    i3Ended,     \* ctx is done
    i3Edits, i3Calls,
    i3Unseen,    \* history: the loop has not read the URL since it changed
    i3Failed     \* history: the pump or the loop has failed to read it since

i3Vars == <<i3Url, i3Change, i3Kick, i3Pc, i3Reading, i3List, i3Ended,
            i3Edits, i3Calls, i3Unseen, i3Failed>>

I3Procs   == {"run", "api"}
i3History == <<i3Unseen, i3Failed>>

(* The table may hold a list from an earlier process. *)
I3Init ==
    /\ i3Url \in I3Urls \cup {I3NoUrl}
    /\ i3List \in I3Urls \cup {I3NoList}
    /\ i3Change = FALSE /\ i3Kick = FALSE /\ i3Ended = FALSE
    /\ i3Pc = [p \in I3Procs |-> IF p = "run" THEN "start" ELSE "idle"]
    /\ i3Reading = [p \in I3Procs |-> I3NoUrl]
    /\ i3Edits = 0 /\ i3Calls = 0 /\ i3Unseen = FALSE /\ i3Failed = FALSE

(* PUT /settings commits a URL; the pump is told. *)
I3SetUrl(u) ==
    /\ i3Edits < I3MaxEdits /\ u # i3Url
    /\ i3Url' = u /\ i3Change' = TRUE /\ i3Edits' = i3Edits + 1
    /\ i3Unseen' = TRUE /\ i3Failed' = FALSE
    /\ UNCHANGED <<i3Kick, i3Pc, i3Reading, i3List, i3Ended, i3Calls>>

(* The watcher's engines case: Kick is a send that never blocks, ... *)
I3Kicked_m == i3Kick \/ i3Pc["run"] = "select"
I3Kicked   == TRUE

I3Notify ==
    /\ i3Change /\ i3Change' = FALSE
    /\ i3Kick' = I3Kicked
    /\ UNCHANGED <<i3Url, i3Pc, i3Reading, i3List, i3Ended, i3Edits, i3Calls,
                   i3History>>

(* ... but when the section cannot be read the change is passed over.      *)
I3NotifyFails ==
    /\ i3Change /\ i3Change' = FALSE
    /\ i3Failed' = TRUE
    /\ UNCHANGED <<i3Url, i3Kick, i3Pc, i3Reading, i3List, i3Ended, i3Edits,
                   i3Calls, i3Unseen>>

-----------------------------------------------------------------------------
i3Setting == <<i3Url, i3Change, i3Ended, i3Edits>>

I3Go(p, pc) == i3Pc' = [i3Pc EXCEPT ![p] = pc]

(* shouldRefreshOnStart: no list, an old one, or the table cannot be read. *)
I3Start ==
    /\ i3Pc["run"] = "start"
    /\ \/ I3Go("run", "read")
       \/ i3List # I3NoList /\ I3Go("run", "select")
    /\ UNCHANGED <<i3Setting, i3Kick, i3Reading, i3List, i3Calls, i3History>>

(* The loop's select: a tick, a kick, or the end of the context. *)
I3Tick ==
    /\ i3Pc["run"] = "select" /\ I3Go("run", "read")
    /\ UNCHANGED <<i3Setting, i3Kick, i3Reading, i3List, i3Calls, i3History>>

I3TakeKick ==
    /\ i3Pc["run"] = "select" /\ i3Kick
    /\ I3Go("run", "read") /\ i3Kick' = FALSE
    /\ UNCHANGED <<i3Setting, i3Reading, i3List, i3Calls, i3History>>

I3Shutdown ==
    /\ ~i3Ended /\ i3Ended' = TRUE
    /\ UNCHANGED <<i3Url, i3Change, i3Kick, i3Pc, i3Reading, i3List, i3Edits,
                   i3Calls, i3History>>

I3Leave ==
    /\ i3Pc["run"] = "select" /\ i3Ended /\ I3Go("run", "done")
    /\ UNCHANGED <<i3Setting, i3Kick, i3Reading, i3List, i3Calls, i3History>>

I3Call ==
    /\ i3Pc["api"] = "idle" /\ i3Calls < I3MaxCalls
    /\ I3Go("api", "read") /\ i3Calls' = i3Calls + 1
    /\ UNCHANGED <<i3Setting, i3Kick, i3Reading, i3List, i3History>>

-----------------------------------------------------------------------------
(* RefreshNow *)

I3Return(p) ==
    /\ I3Go(p, IF p = "run" THEN "select" ELSE "idle")
    /\ i3Reading' = [i3Reading EXCEPT ![p] = I3NoUrl]

(* URLFunc, which answers with the empty URL when the section cannot be    *)
(* read: nothing is fetched then.                                          *)
I3Read(p) ==
    /\ i3Pc[p] = "read"
    /\ IF i3Url = I3NoUrl THEN I3Return(p)
       ELSE I3Go(p, "fetch") /\ i3Reading' = [i3Reading EXCEPT ![p] = i3Url]
    /\ i3Unseen' = (i3Unseen /\ p # "run")
    /\ UNCHANGED <<i3Setting, i3Kick, i3List, i3Calls, i3Failed>>

I3ReadFails(p) ==
    /\ i3Pc[p] = "read" /\ I3Return(p)
    /\ i3Failed' = (i3Failed \/ p = "run")
    /\ UNCHANGED <<i3Setting, i3Kick, i3List, i3Calls, i3Unseen>>

I3Worth(rows) == rows = "some"

(* A failed fetch and one without a usable row leave the table alone. *)
I3Fetched(p, rows) ==
    /\ i3Pc[p] = "fetch"
    /\ IF I3Worth(rows)
       THEN /\ I3Go(p, "replace")
            /\ i3Reading' = [i3Reading EXCEPT
                  ![p] = IF rows = "some" THEN @ ELSE I3NoList]
       ELSE I3Return(p)
    /\ UNCHANGED <<i3Setting, i3Kick, i3List, i3Calls, i3History>>

(* ReplaceIperf3Servers: all of it, or nothing when a statement fails or   *)
(* the context ends.                                                       *)
I3Replace(p, ok) ==
    /\ i3Pc[p] = "replace"
    /\ i3List' = IF ok THEN i3Reading[p] ELSE i3List
    /\ I3Return(p)
    /\ UNCHANGED <<i3Setting, i3Kick, i3Calls, i3History>>

I3Refresh(p) ==
    \/ I3Read(p) \/ I3ReadFails(p)
    \/ \E rows \in {"some", "empty", "error"} : I3Fetched(p, rows)
    \/ \E ok \in BOOLEAN : I3Replace(p, ok)

I3Next ==
    \/ \E u \in I3Urls \cup {I3NoUrl} : I3SetUrl(u)
    \/ I3Notify \/ I3NotifyFails
    \/ I3Start \/ I3Tick \/ I3TakeKick \/ I3Shutdown \/ I3Leave \/ I3Call
    \/ \E p \in I3Procs : I3Refresh(p)

(* The pump, the loop and the requests run; a fetch has a timeout.  No     *)
(* tick is assumed: it comes once a day.                                   *)
I3Fairness ==
    /\ WF_i3Vars(I3Notify \/ I3NotifyFails)
    /\ WF_i3Vars(I3Start \/ I3Leave)
    /\ SF_i3Vars(I3TakeKick)
    /\ \A p \in I3Procs : WF_i3Vars(I3Refresh(p))

I3Spec == I3Init /\ [][I3Next]_i3Vars /\ I3Fairness

-----------------------------------------------------------------------------
(* Properties *)

(* A list, once there is one, is only ever replaced by another: neither an *)
(* empty feed, nor a failed fetch or transaction, nor a disabled feed      *)
(* empties the table.                                                      *)
I3NeverWiped == i3List # I3NoList => i3List' # I3NoList

(* "takes effect immediately rather than on the next 24h tick": a changed  *)
(* URL is read by the loop without the tick, also when the change comes in *)
(* the middle of a refresh or while a kick is buffered.  It does not hold  *)
(* of a change after which the section could not be read: the watcher then *)
(* does not kick, or the loop takes the feed for disabled, and the change  *)
(* waits for the tick.                                                     *)
I3ChangeSeen == i3Unseen ~> (~i3Unseen \/ i3Failed \/ i3Ended)

(* Until then it is on its way, and neither a kick that finds the buffer   *)
(* full nor a refresh that is under way with the old URL loses it.         *)
I3ChangeCarried ==
    i3Unseen => i3Failed \/ i3Change \/ i3Kick \/ i3Pc["run"] = "read"
=============================================================================
