---------------------------- MODULE SettingsDoc ----------------------------
(***************************************************************************)
(* GET and PUT of the settings document (internal/api/settings.go):        *)
(* secrets leave masked and come back masked, a PUT writes some keys, is   *)
(* checked against the sections it read and committed later in one         *)
(* transaction, and keys pinned by the environment are refused.            *)
(*                                                                         *)
(* One export target stands for VictoriaMetrics and VictoriaLogs, one key  *)
(* for each kind of rule; DocKeys lists them.  A channel's header values   *)
(* are handled like its token and are left out, so are host-less Apprise   *)
(* URLs.  A secret that a client enters for a destination is a pair whose  *)
(* first part is that destination.  The export section's own secret is     *)
(* bound to no destination: it stays when a PUT changes the url, and only  *)
(* the deprecated header goes, when a PUT writes the auth type.            *)
(* LiveSettings has what happens after the commit and the reading of a     *)
(* section key by key, Access the auth section.  Every operator begins     *)
(* with Doc.                                                               *)
(* X_m is a plausible wrong form of X, for mutation checks.                *)
(***************************************************************************)
EXTENDS Integers, Sequences, FiniteSets, Functions

CONSTANTS
    DocClients,
    DocByToken,   \* the clients that authenticate with an API token
    DocLocks,     \* the sets of keys the environment may pin
    DocNil, DocMask,
    DocMaxPuts    \* bound on PUTs

(* enabled, url, type, hname, secret and legacy are the export section,    *)
(* legacy its deprecated auth header; units and tol (sla_tolerance_pct)    *)
(* the general one; bin an engine binary; chans the channels.              *)
DocExport  == {"enabled", "url", "type", "hname", "secret", "legacy"}
DocKeys    == DocExport \cup {"units", "tol", "bin", "chans"}
DocSecrets == {"secret", "legacy"}

(* A secret and the host it was entered for; a channel of the document. *)
DocEntered == {"h1", "h2"} \X Nat
DocChannel ==
    [type : {"webhook", "apprise"}, url : {"", "h1", "h2"},
     token : {DocNil, DocMask} \cup DocEntered,
     urls : Seq([host : {"h1", "h2"}, key : {DocMask} \cup DocEntered])]

ASSUME DocAssumption ==
    /\ DocByToken \subseteq DocClients /\ DocLocks \subseteq SUBSET DocKeys /\ DocMaxPuts \in Nat
    /\ DocMask \notin {DocNil, "", "s1", "s2"} \cup DocEntered
    /\ DocNil \notin DocChannel \cup {""}

VARIABLES
    docLocked,
    docStored,   \* the settings table
    docHeld,     \* the document each client got last, and whether it is current
    docPut,      \* of each client, the PUT between its reads and its commit
    docPuts,
    docTime,     \* history: the commits so far; a PUT notes it as read
    docAt        \* history: reads and commit of the last PUT that wrote a key

docVars == <<docLocked, docStored, docHeld, docPut, docPuts, docTime, docAt>>

DocWebhook(u, t) == [type |-> "webhook", url |-> u, token |-> t, urls |-> <<>>]
DocApprise(us)   == [type |-> "apprise", url |-> "", token |-> DocNil, urls |-> us]
DocURL(h, n)     == [host |-> h, key |-> <<h, n>>]

(* An export target with a legacy header, a webhook with a token, and an   *)
(* Apprise channel with two targets on one host.                           *)
DocInit ==
    /\ docLocked \in DocLocks
    /\ docStored =
         [enabled |-> FALSE, url |-> "u1", type |-> "none", hname |-> "",
          secret |-> "s1", legacy |-> "s2", units |-> "Mbps", tol |-> 5,
          bin |-> "b1",
          chans |-> [i \in {"a", "b"} |->
              IF i = "a" THEN DocWebhook("h1", <<"h1", 1>>)
                         ELSE DocApprise(<<DocURL("h1", 1), DocURL("h1", 2)>>)]]
    /\ docHeld = << >> /\ docPut = << >>
    /\ docPuts = 0 /\ docTime = 0
    /\ docAt = [k \in DocExport |-> [read |-> 0, done |-> 0]]

-----------------------------------------------------------------------------
(* getSettings *)

DocMasked(s) == IF s = "" THEN "" ELSE DocMask
DocRedact(u) == [u EXCEPT !.key = DocMask]

DocMaskChannel(ch) ==
    [ch EXCEPT !.token = IF @ = DocNil THEN DocNil ELSE DocMask,
               !.urls = [j \in DOMAIN @ |-> DocRedact(@[j])]]

DocView ==
    [k \in DocKeys |->
        IF k \in DocSecrets THEN DocMasked(docStored[k])
        ELSE IF k = "chans"
             THEN [i \in DOMAIN docStored.chans |-> DocMaskChannel(docStored.chans[i])]
             ELSE docStored[k]]

DocGet(c) ==
    /\ c \notin DOMAIN docPut
    /\ docHeld' = [d \in DOMAIN docHeld \cup {c} |->
                     IF d = c THEN [doc |-> DocView, fresh |-> TRUE] ELSE docHeld[d]]
    /\ UNCHANGED <<docLocked, docStored, docPut, docPuts, docTime, docAt>>

-----------------------------------------------------------------------------
(* What a client may send, from the document it holds: all of it but the   *)
(* pinned keys, a new value for one key, or an edited list of channels.    *)
(* A general section always carries tol; leaving it out clears it.         *)

DocEcho(d) ==
    Restrict(d, DocKeys \ (docLocked \cup (IF "tol" \in docLocked THEN {"units"} ELSE {})))

DocOne(k, v) == [j \in {k} |-> v]

DocChannelEdits(chans) ==
    {Restrict(chans, DOMAIN chans \ {i}) : i \in DOMAIN chans}
    \cup {[chans EXCEPT ![i].url = "h2"] : i \in DOMAIN chans \cap {"a"}}
    \cup {[chans EXCEPT ![i] = DocWebhook("h2", <<"h2", 1>>)] : i \in DOMAIN chans \cap {"a"}}
    \cup {[chans EXCEPT ![i].urls = <<DocURL("h2", 1)>> \o Tail(@)] : i \in DOMAIN chans \cap {"b"}}

DocBodies(c, d) ==
    {DocEcho(d)}
    \cup {DocOne("enabled", b) : b \in BOOLEAN}
    \cup {DocOne("url", u) : u \in {"", "u2"}}
    \cup {DocOne("type", t) : t \in {"none", "custom"}}
    \cup {DocOne("hname", h) : h \in {"", "x"}}
    \cup {DocOne("bin", IF c \in DocByToken THEN "b3" ELSE "b2")}
    \cup {[k \in {"units", "tol"} |-> IF k = "units" THEN "MB/s" ELSE DocNil]}
    \cup {DocOne("chans", cs) : cs \in DocChannelEdits(d.chans)}

-----------------------------------------------------------------------------
(* mergeAppriseURLs: a submitted URL that is the redacted form of stored    *)
(* ones is the first of them that is not used yet, so the n-th of several  *)
(* that look alike is the n-th of those.                                   *)
DocRank(S, i) == Cardinality({h \in S : h <= i})

DocHit(sub, old, i) ==
    LET alike == {j \in DOMAIN old : DocRedact(old[j]) = sub[i]}
        n     == DocRank({h \in DOMAIN sub : sub[h] = sub[i]}, i)
    IN  {j \in alike : DocRank(alike, j) = n}

DocMergeURLs(sub, old) ==
    [i \in DOMAIN sub |->
        IF DocHit(sub, old, i) = {} THEN sub[i]
        ELSE old[CHOOSE j \in DocHit(sub, old, i) : TRUE]]

(* A redacted URL that none is left for cannot be resolved. *)
DocURLsLost(sub, old) ==
    \E i \in DOMAIN sub : DocHit(sub, old, i) = {} /\ sub[i].key = DocMask

DocURLsOf(old) == IF old = DocNil THEN <<>> ELSE old.urls

(* mergeChannelSecrets: a masked token is the stored one only while type   *)
(* and url are the same.                                                   *)
DocMayKeep_m(ch, old) == ch.token = DocMask => old # DocNil
DocMayKeep(ch, old) ==
    ch.token = DocMask => old # DocNil /\ old.type = ch.type /\ old.url = ch.url

DocToken(ch, old) == IF ch.token = DocMask THEN old.token ELSE ch.token

DocMergeChannel(ch, old) ==
    [ch EXCEPT !.token = DocToken(ch, old),
               !.urls = DocMergeURLs(@, DocURLsOf(old))]

DocOld(i) == IF i \in DOMAIN docStored.chans THEN docStored.chans[i] ELSE DocNil

(* Every secret can be resolved, and ValidateChannel. *)
DocChannelOk(ch, old) ==
    /\ DocMayKeep(ch, old)
    /\ ~DocURLsLost(ch.urls, DocURLsOf(old))
    /\ IF ch.type = "apprise" THEN ch.urls # <<>> ELSE ch.url # ""

(* validateEndpointURL, validateExportAuthType *)
DocRule(s) ==
    /\ s.enabled => s.url # ""
    /\ s.type = "custom" => s.hname # ""

(* validateSettings: the rule holds of the section the body leaves. *)
DocValid(b) ==
    LET v == [k \in DocExport |-> IF k \in DOMAIN b THEN b[k] ELSE docStored[k]]
    IN  DOMAIN b \cap DocExport # {} => DocRule(v)

(* setKeys: tol counts whenever the general section is there. *)
DocSetKeys_m(b) == {k \in DOMAIN b : k = "tol" => b[k] # DocNil}
DocSetKeys(b)   == DOMAIN b

(* A token may echo the engine binaries, never change them. *)
DocTokenMay(c, b) ==
    c \in DocByToken /\ "bin" \in DOMAIN b => b.bin = docStored.bin

DocAdmitted(c, b) ==
    /\ DocSetKeys(b) \cap docLocked = {}
    /\ DocTokenMay(c, b)
    /\ "chans" \in DOMAIN b =>
          \A i \in DOMAIN b.chans : DocChannelOk(b.chans[i], DocOld(i))
    /\ DocValid(b)

(* setPtr and setSecret: the mask means "keep".  Writing the auth type     *)
(* clears the legacy header in the same transaction.                       *)
DocKeeps(k, v) == k \in DocSecrets /\ v = DocMask

DocWrites(b) ==
    LET plain == {k \in DOMAIN b : ~DocKeeps(k, b[k])}
        keys  == plain \cup (IF "type" \in DOMAIN b THEN {"legacy"} ELSE {})
    IN  [k \in keys |->
           IF k = "legacy" /\ "type" \in DOMAIN b THEN ""
           ELSE IF k = "chans"
                THEN [i \in DOMAIN b.chans |-> DocMergeChannel(b.chans[i], DocOld(i))]
                ELSE b[k]]

-----------------------------------------------------------------------------
(* applySettings: everything is read, merged and checked first; a PUT that *)
(* is refused has no effect.                                               *)
DocPut(c) ==
    /\ c \in DOMAIN docHeld \ DOMAIN docPut /\ docPuts < DocMaxPuts
    /\ \E b \in DocBodies(c, docHeld[c].doc) :
          /\ DocAdmitted(c, b)
          /\ docPut' = [d \in DOMAIN docPut \cup {c} |->
                IF d = c THEN [writes |-> DocWrites(b), read |-> docTime,
                               echo |-> b = DocEcho(docHeld[c].doc)]
                ELSE docPut[d]]
    /\ docPuts' = docPuts + 1
    /\ UNCHANGED <<docLocked, docStored, docHeld, docTime, docAt>>

DocCommitted(w) == [k \in DocKeys |-> IF k \in DOMAIN w THEN w[k] ELSE docStored[k]]

(* The transaction. *)
DocCommit(c) ==
    /\ c \in DOMAIN docPut
    /\ docStored' = DocCommitted(docPut[c].writes)
    /\ docPut' = Restrict(docPut, DOMAIN docPut \ {c})
    /\ docHeld' = [d \in DOMAIN docHeld |->
                     [docHeld[d] EXCEPT !.fresh = @ /\ docStored' = docStored]]
    /\ docTime' = docTime + 1
    /\ docAt' = [k \in DocExport |->
                   IF k \in DOMAIN docPut[c].writes
                   THEN [read |-> docPut[c].read, done |-> docTime + 1] ELSE docAt[k]]
    /\ UNCHANGED <<docLocked, docPuts>>

(* A write or the commit fails: rolled back, answered with 500. *)
DocRollback(c) ==
    /\ c \in DOMAIN docPut
    /\ docPut' = Restrict(docPut, DOMAIN docPut \ {c})
    /\ UNCHANGED <<docLocked, docStored, docHeld, docPuts, docTime, docAt>>

DocNext ==
    \E c \in DocClients : DocGet(c) \/ DocPut(c) \/ DocCommit(c) \/ DocRollback(c)

DocSpec == DocInit /\ [][DocNext]_docVars

-----------------------------------------------------------------------------
(* Properties *)

DocChannels == {docStored.chans[i] : i \in DOMAIN docStored.chans}

(* "the client echoing the mask back means keep the stored value, not set  *)
(* the secret to the literal mask": whatever is echoed, edited, reordered  *)
(* or sent from an outdated document, the mask is never stored.            *)
DocNoMask ==
    /\ \A k \in DocSecrets : docStored[k] # DocMask
    /\ \A ch \in DocChannels :
          ch.token # DocMask /\ \A j \in DOMAIN ch.urls : ch.urls[j].key # DocMask

(* A channel's secret was entered for the host it is sent to: moving a     *)
(* channel, or putting back an outdated list, never carries a stored       *)
(* secret to another destination.  Nothing like it is promised, or kept,   *)
(* for the export section, whose stored secret is sent to any new url.     *)
DocSecretsStay ==
    \A ch \in DocChannels :
        /\ ch.token # DocNil => ch.token[1] = ch.url
        /\ \A j \in DOMAIN ch.urls : ch.urls[j].key[1] = ch.urls[j].host

(* Each of the last PUTs of k and l had read before the other committed.   *)
DocOverlap(k, l) ==
    /\ docAt[k].done # docAt[l].done
    /\ docAt[k].read < docAt[l].done /\ docAt[l].read < docAt[k].done

(* "empty is only allowed when the integration is disabled", and a custom  *)
(* header has a name.  A PUT is checked against what it read, so two that  *)
(* overlap do break the rule, when one writes each of the keys it relates; *)
(* in no other way is it ever broken, whatever else has overlapped.        *)
DocRuleKept ==
    /\ docStored.enabled /\ docStored.url = "" => DocOverlap("enabled", "url")
    /\ docStored.type = "custom" /\ docStored.hname = "" => DocOverlap("type", "hname")

(* The binaries that are run were named by somebody without a token. *)
DocBinByOperator == docStored.bin # "b3"

(* A pinned key keeps its value: "the key is reported by LockedKeys so the *)
(* API refuses to write it".  The deprecated header is the exception: it   *)
(* is cleared, pinned or not, by a PUT that writes the auth type.          *)
DocKeepsLocked ==
    \A k \in docLocked : docStored'[k] # docStored[k] =>
        /\ k = "legacy" /\ docStored'[k] = ""
        /\ \E c \in DOMAIN docPut \ DOMAIN docPut' : "type" \in DOMAIN docPut[c].writes

(* Sending back the document that is stored changes nothing, except that   *)
(* the auth type in it clears the deprecated header.                       *)
DocEchoNoop ==
    \A c \in DOMAIN docPut \ DOMAIN docPut' :
        docPut[c].echo /\ docHeld[c].fresh =>
           docStored' \in {docStored, [docStored EXCEPT !.legacy = ""]}

(* A PUT writes what its body means and nothing else: pinned keys stay,    *)
(* and so does everything that is only sent back, but for the deprecated   *)
(* header.                                                                 *)
DocPutExact == [][DocKeepsLocked /\ DocEchoNoop]_docVars

(* Two overlapping PUTs, with masks, changed destinations, and a caller    *)
(* that has only a token, leave a document that is fit to be used: no mask *)
(* as a secret, no channel's secret at a destination it was not entered    *)
(* for, the rules of the section broken by nothing but an overlap of the   *)
(* two keys they relate, and no binary chosen by a token.                  *)
DocSafe == DocNoMask /\ DocSecretsStay /\ DocRuleKept /\ DocBinByOperator
=============================================================================
