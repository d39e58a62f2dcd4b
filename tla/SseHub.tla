------------------------------- MODULE SseHub -------------------------------
(***************************************************************************)
(* The event hub and its stream handler (internal/sse/hub.go, handler.go): *)
(* every browser connection has a handler with a buffered channel; the hub *)
(* publishes to all of them without blocking and, at shutdown, closes all  *)
(* channels so that the handlers return.                                   *)
(*                                                                         *)
(* An event is its number.  Channels are Go channels: sending on or        *)
(* closing a closed one is a panic, recorded in ssePanic.  The keepalive   *)
(* is a write like any other.  Every operator begins with Sse.             *)
(* X_m is a plausible wrong form of X, for mutation checks.                *)
(***************************************************************************)
EXTENDS Integers, Sequences, FiniteSets

CONSTANTS
    SseClients,      \* browser connections
    SseBufferSize,   \* bufferSize
    SseMaxEvents     \* bound: events published

ASSUME SseBounds == SseBufferSize \in Nat \ {0} /\ SseMaxEvents \in Nat

VARIABLES
    sseSubs,        \* the keys of h.subs
    sseHubClosed,   \* h.closed
    sseDropped,     \* h.dropped
    sseChan,        \* what a connection's channel holds
    sseChanClosed,  \* the connections whose channel is closed
    ssePc,          \* the handlers
    ssePanic,       \* a goroutine has panicked
    \* history: the last event published; the events that were published
    \* while a connection was subscribed, and those it received
    ssePublished, sseDue, sseGot

sseVars == <<sseSubs, sseHubClosed, sseDropped, sseChan, sseChanClosed, ssePc,
             ssePanic, ssePublished, sseDue, sseGot>>

SseInit ==
    /\ sseSubs = {} /\ sseHubClosed = FALSE /\ sseDropped = 0
    /\ sseChan = [c \in SseClients |-> <<>>] /\ sseChanClosed = {}
    /\ ssePc = [c \in SseClients |-> "new"]
    /\ ssePanic = FALSE
    /\ ssePublished = 0
    /\ sseDue = [c \in SseClients |-> {}] /\ sseGot = [c \in SseClients |-> {}]

(* The handler subscribes; a closed hub hands it a closed channel. *)
SseSubscribe(c) ==
    /\ ssePc[c] = "new"
    /\ ssePc' = [ssePc EXCEPT ![c] = "select"]
    /\ IF sseHubClosed
       THEN sseChanClosed' = sseChanClosed \cup {c} /\ UNCHANGED sseSubs
       ELSE sseSubs' = sseSubs \cup {c} /\ UNCHANGED sseChanClosed
    /\ UNCHANGED <<sseHubClosed, sseDropped, sseChan, ssePanic, ssePublished,
                   sseDue, sseGot>>

SseHasRoom(c) == Len(sseChan[c]) < SseBufferSize

SseLost(full) == Cardinality(full)

SsePublish ==
    /\ ssePublished < SseMaxEvents
    /\ LET e    == ssePublished + 1
           full == {c \in sseSubs : ~SseHasRoom(c)}
       IN  /\ ssePublished' = e
           /\ sseChan' = [c \in SseClients |->
                            IF c \in sseSubs \ full THEN Append(sseChan[c], e)
                                                    ELSE sseChan[c]]
           /\ sseDropped' = sseDropped + SseLost(full)
           /\ sseDue' = [c \in SseClients |->
                            IF c \in sseSubs THEN sseDue[c] \cup {e} ELSE sseDue[c]]
           /\ ssePanic' = (ssePanic \/ sseSubs \cap sseChanClosed # {})
    /\ UNCHANGED <<sseSubs, sseHubClosed, sseChanClosed, ssePc, sseGot>>

SseClose_m ==
    /\ sseHubClosed' = TRUE /\ ~sseHubClosed
    /\ sseChanClosed' = sseChanClosed \cup sseSubs
    /\ UNCHANGED <<sseSubs, sseDropped, sseChan, ssePc, ssePanic, ssePublished,
                   sseDue, sseGot>>
SseClose ==
    /\ ~sseHubClosed /\ sseHubClosed' = TRUE
    /\ sseChanClosed' = sseChanClosed \cup sseSubs
    /\ ssePanic' = (ssePanic \/ sseSubs \cap sseChanClosed # {})
    /\ sseSubs' = {}
    /\ UNCHANGED <<sseDropped, sseChan, ssePc, ssePublished, sseDue, sseGot>>

-----------------------------------------------------------------------------
(* The handler's loop *)

sseHub == <<sseSubs, sseHubClosed, sseDropped, sseChanClosed, ssePanic,
            ssePublished, sseDue>>

SseReceive(c) ==
    /\ ssePc[c] = "select" /\ sseChan[c] # <<>>
    /\ sseChan' = [sseChan EXCEPT ![c] = Tail(@)]
    /\ sseGot' = [sseGot EXCEPT ![c] = @ \cup {Head(sseChan[c])}]
    /\ ssePc' = [ssePc EXCEPT ![c] = "write"]
    /\ UNCHANGED sseHub

SseKeepalive(c) ==
    /\ ssePc[c] = "select"
    /\ ssePc' = [ssePc EXCEPT ![c] = "write"]
    /\ UNCHANGED <<sseHub, sseChan, sseGot>>

(* The write and the flush succeed, or one of them fails and the handler   *)
(* returns.                                                                *)
SseWritten(c) ==
    /\ ssePc[c] = "write"
    /\ \E next \in {"select", "cancel"} : ssePc' = [ssePc EXCEPT ![c] = next]
    /\ UNCHANGED <<sseHub, sseChan, sseGot>>

SseEnded(c) == c \in sseChanClosed /\ sseChan[c] = <<>>

(* The closed channel is seen once it is empty. *)
SseSeeClosed(c) ==
    /\ ssePc[c] = "select" /\ SseEnded(c)
    /\ ssePc' = [ssePc EXCEPT ![c] = "cancel"]
    /\ UNCHANGED <<sseHub, sseChan, sseGot>>

(* The client has gone: r.Context() is done. *)
SseGone(c) ==
    /\ ssePc[c] = "select"
    /\ ssePc' = [ssePc EXCEPT ![c] = "cancel"]
    /\ UNCHANGED <<sseHub, sseChan, sseGot>>

(* The deferred cancel: the hub may have closed the channel before. *)
SseCancel(c) ==
    /\ ssePc[c] = "cancel"
    /\ ssePc' = [ssePc EXCEPT ![c] = "gone"]
    /\ IF c \in sseSubs
       THEN /\ sseSubs' = sseSubs \ {c}
            /\ sseChanClosed' = sseChanClosed \cup {c}
            /\ ssePanic' = (ssePanic \/ c \in sseChanClosed)
       ELSE UNCHANGED <<sseSubs, sseChanClosed, ssePanic>>
    /\ UNCHANGED <<sseHubClosed, sseDropped, sseChan, ssePublished, sseDue, sseGot>>

SseStream(c) ==
    SseReceive(c) \/ SseWritten(c) \/ SseSeeClosed(c) \/ SseCancel(c)

SseNext ==
    \/ SsePublish \/ SseClose
    \/ \E c \in SseClients :
          SseSubscribe(c) \/ SseStream(c) \/ SseKeepalive(c) \/ SseGone(c)

(* A handler runs and its writes end (the peer reads, or TCP gives up); a  *)
(* closed or filled channel is always ready, the ticker only now and then. *)
SseFairness ==
    \A c \in SseClients :
        /\ WF_sseVars(SseStream(c))
        /\ SF_sseVars(SseReceive(c) \/ SseSeeClosed(c))

SseSpec == SseInit /\ [][SseNext]_sseVars /\ SseFairness

-----------------------------------------------------------------------------
(* Properties *)

(* A channel keeps its size, and a handler that has returned has left the  *)
(* hub.                                                                    *)
SseTypeOK ==
    /\ sseSubs \subseteq SseClients /\ sseChanClosed \subseteq SseClients
    /\ \A c \in SseClients : Len(sseChan[c]) <= SseBufferSize
    /\ ssePc \in [SseClients -> {"new", "select", "write", "cancel", "gone"}]
    /\ \A c \in sseSubs : ssePc[c] \in {"select", "write", "cancel"}
    /\ {sseDropped, ssePublished} \subseteq Nat

(* No publish, unsubscribe or shutdown, in whatever order, sends on or     *)
(* closes a channel that is closed already.                                *)
SseNoPanic == ~ssePanic

(* What a channel holds, and what was published to a handler and will      *)
(* never reach it.                                                         *)
SseWaiting(c) == {sseChan[c][i] : i \in DOMAIN sseChan[c]}
SseMissed == {x \in SseClients \X (1 .. ssePublished) :
                 x[2] \in sseDue[x[1]] \ (sseGot[x[1]] \cup SseWaiting(x[1]))}

(* An event that was published while a handler was subscribed was read, is *)
(* waiting, or is counted in Dropped().                                    *)
SseDropsCounted == sseDropped = Cardinality(SseMissed)

(* After the hub is closed every stream ends, new ones included. *)
SseStreamsEnd ==
    sseHubClosed ~> (\A c \in SseClients : ssePc[c] \in {"new", "gone"})

(* Whatever the order of publishing, unsubscribing and closing: no panic,  *)
(* and no event that is lost to a handler without being counted.           *)
SseSafe == SseTypeOK /\ SseNoPanic /\ SseDropsCounted
=============================================================================
