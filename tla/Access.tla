------------------------------- MODULE Access -------------------------------
(***************************************************************************)
(* Who is let in, and the changes that decide it: identity resolution      *)
(* (internal/auth), the auth section of PUT /settings with its lockout     *)
(* guard (internal/api/settings.go) and the creation and revocation of API *)
(* tokens (internal/api/tokens.go, internal/store/tokens.go).              *)
(*                                                                         *)
(* A request is identified under the configuration the middleware runs on; *)
(* a change is checked against the stored one, which the watcher applies   *)
(* later, and committed after the check.  The auth section is a mode, the  *)
(* trusted proxies, allow_tokens and whether the OIDC client is complete;  *)
(* the names of headers and groups, and the other OIDC fields, are left    *)
(* out.  An unknown mode is handled like token mode.  Logging in is        *)
(* modelled in Sessions.  Every operator begins with Ac.                   *)
(* X_m is a plausible wrong form of X, for mutation checks.                *)
(***************************************************************************)
EXTENDS Integers, FiniteSets

CONSTANTS
    AcClients,
    AcBearer,    \* the bearer token a client may send, or AcNone
    AcProxy,     \* the proxy a client's requests come through, or AcNone
    AcAdmins,    \* the clients the proxy or the provider puts in the admin group
    AcTokens,    \* API tokens that may be issued
    AcNone,
    AcMaxWrites  \* bound on requests that write

AcKeys == {"mode", "proxies", "allow", "oidc"}

ASSUME AcAssumption ==
    /\ AcBearer \in [AcClients -> AcTokens \cup {AcNone}]
    /\ AcNone \notin AcTokens /\ AcAdmins \subseteq AcClients
    /\ AcKeys \cap AcTokens = {}
    /\ AcMaxWrites \in Nat

AcProxies == {AcProxy[c] : c \in AcClients} \ {AcNone}
AcConf    == [mode : {"open", "forward", "token", "oidc"},
              proxies : SUBSET AcProxies, allow : BOOLEAN, oidc : BOOLEAN]

VARIABLES
    acStored,    \* the auth section
    acLive,      \* what the middleware was configured with
    acIssued,    \* the rows of api_tokens
    acReq,       \* a change between its check and its commit
    acLast,      \* history: the last change that was committed
    acTime,      \* history: the commits so far; a check notes it as read
    acAt,        \* history: check and commit of the last change of a key or token
    acWrites

acVars == <<acStored, acLive, acIssued, acReq, acLast, acTime, acAt, acWrites>>

(* A new installation, or one that an earlier process left with tokens. *)
AcInit ==
    /\ acIssued \in SUBSET AcTokens
    /\ acStored \in [mode : IF acIssued = {} THEN {"open"} ELSE {"open", "token"},
                     proxies : {{}}, allow : {TRUE}, oidc : {FALSE}]
    /\ acLive = acStored
    /\ acReq = [c \in AcClients |-> AcNone]
    /\ acLast = AcNone /\ acTime = 0 /\ acWrites = 0
    /\ acAt = [k \in AcKeys \cup AcTokens |-> [read |-> 0, done |-> 0]]

-----------------------------------------------------------------------------
(* Identify *)

identifyForward(c, conf) == IF AcProxy[c] \in conf.proxies THEN "forward" ELSE "denied"
identifyToken(t)         == IF t \in acIssued THEN "token" ELSE "denied"

(* A request of c with bearer token t or AcNone, and with or without the   *)
(* cookie of a session.                                                    *)
Identify(c, t, session, conf) ==
    CASE conf.mode = "open"    -> "open"
      [] conf.mode = "forward" -> IF t # AcNone /\ conf.allow
                                  THEN identifyToken(t) ELSE identifyForward(c, conf)
      [] conf.mode = "token"   -> identifyToken(t)
      [] conf.mode = "oidc"    -> IF session THEN "oidc"
                                  ELSE IF conf.allow THEN identifyToken(t) ELSE "denied"

Sources(c, t, conf) == {Identify(c, t, s, conf) : s \in BOOLEAN}
Sent(c)             == {AcBearer[c], AcNone}

(* requestIsAdmin and requestAuthIsToken *)
IsAdmin(c, source) == source \in {"open", "token"} \/ c \in AcAdmins
MayRevoke(c, t)     ==
    \E source \in Sources(c, t, acLive) \ {"denied"} : IsAdmin(c, source)
MayAdminister(c, t) ==
    \E source \in Sources(c, t, acLive) \ {"denied", "token"} : IsAdmin(c, source)

-----------------------------------------------------------------------------
(* PUT of the auth section *)

AcBodies ==
    {[mode |-> m] : m \in {"open", "forward", "token", "oidc"}}
    \cup {[mode |-> "forward", proxies |-> {p}] : p \in AcProxies}
    \cup {[proxies |-> P] : P \in SUBSET AcProxies}
    \cup {[allow |-> b] : b \in BOOLEAN}
    \cup {[oidc |-> b] : b \in BOOLEAN}

mergeAuth(conf, body) ==
    [k \in DOMAIN conf |-> IF k \in DOMAIN body THEN body[k] ELSE conf[k]]

(* checkAuthLockout, with the rules validateAuthBody adds for oidc: the    *)
(* result must admit somebody, and a switch must admit the one who made    *)
(* it.  The provider's discovery may also fail, which refuses the PUT.     *)
checkAuthLockout_m(c, t, conf, new) ==
    CASE new.mode = "open"    -> TRUE
      [] new.mode = "forward" -> /\ new.proxies # {}
                                 /\ new.mode # conf.mode => AcProxy[c] \in new.proxies
      [] new.mode = "token"   -> /\ acIssued # {}
                                 /\ new.mode # conf.mode => t \in acIssued
      [] new.mode = "oidc"    -> new.oidc
checkAuthLockout(c, t, conf, new) ==
    CASE new.mode = "open"    -> TRUE
      [] new.mode = "forward" -> /\ new.proxies # {}
                                 /\ new.mode # conf.mode \/ new.proxies # conf.proxies =>
                                       AcProxy[c] \in new.proxies
      [] new.mode = "token"   -> /\ acIssued # {}
                                 /\ new.mode # conf.mode => t \in acIssued
      [] new.mode = "oidc"    -> new.oidc

AcPending(c, r) ==
    /\ acReq[c] = AcNone /\ acWrites < AcMaxWrites
    /\ acReq' = [acReq EXCEPT ![c] = r]
    /\ acWrites' = acWrites + 1
    /\ UNCHANGED <<acStored, acLive, acIssued, acLast, acTime, acAt>>

AcPut(c) ==
    /\ \E t \in Sent(c), body \in AcBodies : LET new == mergeAuth(acStored, body) IN
          /\ MayAdminister(c, t)
          /\ checkAuthLockout(c, t, acStored, new)
          /\ AcPending(c, [kind |-> "put", body |-> body, token |-> AcNone, read |-> acTime])

(* The change of c is in: what it changed was checked and done then. *)
AcDone(c, changed) ==
    /\ acReq' = [acReq EXCEPT ![c] = AcNone]
    /\ acTime' = acTime + 1
    /\ acAt' = [k \in DOMAIN acAt |->
                  IF k \in changed THEN [read |-> acReq[c].read, done |-> acTime + 1]
                  ELSE acAt[k]]

(* Only the keys of the body are written. *)
AcCommit(c) ==
    /\ acReq[c] # AcNone /\ acReq[c].kind = "put"
    /\ acStored' = mergeAuth(acStored, acReq[c].body)
    /\ acLast' = [client |-> c, before |-> acStored, clean |-> acReq[c].read = acTime]
    /\ AcDone(c, DOMAIN acReq[c].body)
    /\ UNCHANGED <<acLive, acIssued, acWrites>>

-----------------------------------------------------------------------------
(* API tokens *)

(* A token may not create another. *)
createToken(c) ==
    /\ \E t \in Sent(c) : MayAdminister(c, t)
    /\ acReq[c] = AcNone /\ acWrites < AcMaxWrites
    /\ \E t \in AcTokens \ acIssued : acIssued' = acIssued \cup {t}
    /\ acWrites' = acWrites + 1
    /\ UNCHANGED <<acStored, acLive, acReq, acLast, acTime, acAt>>

NeedsToken   ==
    acStored.mode = "token" \/ (acStored.mode = "forward" /\ acStored.allow)

(* The count first, the deletion later. *)
deleteToken(c) ==
    /\ \E t \in Sent(c) : MayRevoke(c, t)
    /\ NeedsToken => Cardinality(acIssued) > 1
    /\ \E t \in acIssued :
          AcPending(c, [kind |-> "delete", body |-> AcNone, token |-> t, read |-> acTime])

DeleteAPIToken(c) ==
    /\ acReq[c] # AcNone /\ acReq[c].kind = "delete"
    /\ acIssued' = acIssued \ {acReq[c].token}
    /\ acLast' = AcNone
    /\ AcDone(c, {acReq[c].token} \cap acIssued)
    /\ UNCHANGED <<acStored, acLive, acWrites>>

-----------------------------------------------------------------------------
(* The watcher configures the middleware. *)
AcApply ==
    /\ acLive # acStored /\ acLive' = acStored
    /\ UNCHANGED <<acStored, acIssued, acReq, acLast, acTime, acAt, acWrites>>

AcNext ==
    \/ AcApply
    \/ \E c \in AcClients : \/ AcPut(c) \/ AcCommit(c)
                            \/ createToken(c) \/ deleteToken(c) \/ DeleteAPIToken(c)

AcSpec == AcInit /\ [][AcNext]_acVars

-----------------------------------------------------------------------------
(* Properties *)

(* Each of the last changes of k and l was checked before the other was in. *)
AcOverlap(k, l) ==
    /\ acAt[k].done # acAt[l].done
    /\ acAt[k].read < acAt[l].done /\ acAt[l].read < acAt[k].done

(* "refusing to revoke the last token while auth mode is token", "that     *)
(* would lock every caller out with no way back in": the stored            *)
(* configuration admits somebody, however changes, checked one by one,     *)
(* follow each other.  Changes that overlap do break that promise, and     *)
(* only in these ways: the last tokens were revoked by two revocations at  *)
(* once or while the mode changed, the proxies or the client were cleared  *)
(* while the mode changed to need them.  Any other history keeps it, also  *)
(* when different changes overlapped before.                               *)
AcUsable ==
    /\ acStored \in AcConf
    /\ acStored.mode = "token" /\ acIssued = {} =>
          \E t \in AcTokens : \E k \in AcTokens \cup {"mode"} : AcOverlap(t, k)
    /\ acStored.mode = "forward" /\ acStored.proxies = {} => AcOverlap("mode", "proxies")
    /\ acStored.mode = "oidc" /\ ~acStored.oidc => AcOverlap("mode", "oidc")

(* "so you cannot lock yourself out": whoever changed the mode, or the     *)
(* proxies in forward mode, is admitted by the result, in oidc mode by     *)
(* logging in, unless another change came in between the check and the     *)
(* commit.                                                                 *)
AcNotLockedOut ==
    acLast # AcNone /\ acLast.clean =>
        LET was == acLast.before IN
        acStored.mode # was.mode
        \/ (acStored.mode = "forward" /\ acStored.proxies # was.proxies) =>
            \E t \in Sent(acLast.client) :
                Identify(acLast.client, t, TRUE, acStored) # "denied"
=============================================================================
