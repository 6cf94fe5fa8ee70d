--------------------------- MODULE SettingsStore ---------------------------
(***************************************************************************)
(* The three settings objects in R2, the copies each isolate keeps of the  *)
(* domain's and the organisation's, and the requests that read, change and *)
(* put them back without a transaction.                                    *)
(***************************************************************************)
EXTENDS TierRules

CONSTANTS
  Isolates,
  Requests, Readers,  \* requests; those of them that handle mail and only read
  Legacy,    \* [Kinds -> blobs an object may hold at the start, None: no object]
  Bodies,    \* [Kinds -> what a settings form sends]
  Rules,     \* block rules a user adds
  Domains,   \* domains the organisation may add
  Seeded,    \* whether the tier's domain is one of env.DOMAINS
  OwnDomain, \* the domain tier's domain
  MaxFaults, MaxPuts

VARIABLES
  store,   \* the object of each kind, or None
  cache,   \* [isolate -> [domain and org -> None or [etag, settings]]]
  req,     \* requests: None, or what they do and have read
  last,    \* the last put: what it read and wrote, and whether it was alone
  faults, puts

vars == <<store, cache, req, last, faults, puts>>

Cached == {"domain", "org"}
Ops == {"form", "addRule", "dropRule", "addDomain", "dropDomain", "disableHoneypot", "read"}

TypeOK ==
  /\ \A k \in Kinds : (store[k] # None => isTier(store[k]))
  /\ \A i \in Isolates, k \in Cached : cache[i][k] # None => isTier(cache[i][k].settings)
  /\ \A r \in Requests : req[r] # None => req[r].what.op \in Ops /\ req[r].kind \in Kinds
  /\ faults \in 0 .. MaxFaults /\ puts \in 0 .. MaxPuts

Init ==
  /\ store \in {s \in [Kinds -> UNION {Legacy[k] : k \in Kinds}] :
                  \A k \in Kinds : s[k] \in Legacy[k] /\ (k = "mailbox" => s[k] # None)}
  /\ cache = [i \in Isolates |-> [k \in Cached |-> None]]
  /\ req = [r \in Requests |-> None] /\ last = None
  /\ faults = 0 /\ puts = 0

(* --------------------------------------------------------------- reading --- *)

\* The etag of an object is a digest of its content, so the content stands
\* for it; None is ABSENT_ETAG.
entry(k, blob) ==
  [etag |-> blob, settings |-> IF blob = None THEN absent ELSE parseSettingsLenient(k, blob)]

\* Mutation of remember: an entry is good for ever.
keepEntry(c, k, blob) == IF c # None THEN c ELSE entry(k, blob)

\* What getOrgSettings and getDomainSettings leave in the cache for an answer
\* that found blob: a missing object never replaces an entry.
remember(c, k, blob) == IF blob = None /\ c # None THEN c ELSE entry(k, blob)

\* ... and what they return: any failure is the entry, or nothing.
fallback(c) == IF c = None THEN absent ELSE c.settings

\* getOrgSettings, getDomainSettings on an isolate when nothing fails.
reads(i, k) == remember(cache[i][k], k, store[k]).settings

(* --------------------------------------------------------------- requests --- *)

\* PUT and blocklist routes of a domain ask whether it is the organisation's.
getOwnedDomains(i) == reads(i, "org").domains \cup (IF Seeded THEN {OwnDomain} ELSE {})

allowed(i, k, what) ==
  CASE what.op = "form" -> ~refused(k, what.arg) /\ (k = "mailbox" => what.arg.honeypot = None)
                           /\ (k = "domain" => OwnDomain \in getOwnedDomains(i))
    [] what.op \in {"addRule", "dropRule"} -> k = "domain" => OwnDomain \in getOwnedDomains(i)
    [] what.op \in {"addDomain", "dropDomain"} -> k = "org"
    [] what.op = "disableHoneypot" -> k = "mailbox" /\ store[k].honeypot = "on"
    [] what.op = "read" -> k \in Cached

\* R2 answers the request's GET, or fails.
fetch(r, i, k, what, failed) ==
  /\ req[r] = None /\ allowed(i, k, what) /\ (r \in Readers <=> what.op = "read")
  /\ (what.op # "read") => puts < MaxPuts
  /\ failed => faults < MaxFaults
  /\ req' = [req EXCEPT ![r] = [iso |-> i, kind |-> k, what |-> what,
                                blob |-> store[k], failed |-> failed]]
  /\ faults' = IF failed THEN faults + 1 ELSE faults
  /\ UNCHANGED <<store, cache, last, puts>>

\* The settings a request goes on with.  The mailbox's routes read the object
\* as it is; the others read what the schema lets through.
current(q) ==
  CASE q.kind = "mailbox" -> q.blob
    [] q.kind # "mailbox" /\ q.failed -> fallback(cache[q.iso][q.kind])
    [] OTHER -> remember(cache[q.iso][q.kind], q.kind, q.blob).settings

\* Not found, or there already: nothing is written.
nothingToDo(q) ==
  \/ q.what.op = "read"
  \/ q.kind = "mailbox" /\ q.failed
  \/ q.what.op = "dropRule" /\ q.what.arg \notin current(q).rules
  \/ q.what.op = "addDomain" /\ q.what.arg \in current(q).domains
  \/ q.what.op = "dropDomain" /\ q.what.arg \notin current(q).domains

\* What the request puts back.
changed(q) ==
  LET c == current(q) IN
  CASE q.what.op = "form" -> merged(q.kind, c, stripDefaultEqual(q.what.arg))
    [] q.what.op = "addRule" -> stripDefaultEqual([c EXCEPT !.rules = appendRule(@, q.what.arg)])
    [] q.what.op = "dropRule" -> stripDefaultEqual([c EXCEPT !.rules = @ \ {q.what.arg}])
    [] q.what.op = "addDomain" -> stripDefaultEqual([c EXCEPT !.domains = @ \cup {q.what.arg}])
    [] q.what.op = "dropDomain" -> stripDefaultEqual([c EXCEPT !.domains = @ \ {q.what.arg}])
    [] q.what.op = "disableHoneypot" -> stripDefaultEqual([c EXCEPT !.honeypot = "disabled"])

\* The answer arrives; the isolate's entry is renewed.
settle(r) ==
  LET q == req[r] IN
  /\ q # None /\ nothingToDo(q)
  /\ req' = [req EXCEPT ![r] = None]
  /\ IF q.kind = "mailbox" \/ q.failed THEN UNCHANGED cache
     ELSE cache' = [cache EXCEPT ![q.iso][q.kind] = remember(@, q.kind, q.blob)]
  /\ UNCHANGED <<store, last, faults, puts>>

\* ... and the changed tier is put back, which drops the entry; or the put fails.
write(r) ==
  LET q == req[r] IN
  /\ q # None /\ ~nothingToDo(q) /\ puts < MaxPuts
  /\ store' = [store EXCEPT ![q.kind] = changed(q)]
  /\ IF q.kind = "mailbox" THEN UNCHANGED cache
     ELSE cache' = [cache EXCEPT ![q.iso][q.kind] = None]
  /\ req' = [req EXCEPT ![r] = None] /\ puts' = puts + 1
  /\ last' = [kind |-> q.kind, op |-> q.what.op, before |-> q.blob, after |-> changed(q),
              alone |-> store[q.kind] = q.blob /\ ~q.failed]
  /\ UNCHANGED faults

failWrite(r) ==
  LET q == req[r] IN
  /\ q # None /\ ~nothingToDo(q) /\ faults < MaxFaults
  /\ req' = [req EXCEPT ![r] = None] /\ faults' = faults + 1
  /\ IF q.kind = "mailbox" \/ q.failed THEN UNCHANGED cache
     ELSE cache' = [cache EXCEPT ![q.iso][q.kind] = remember(@, q.kind, q.blob)]
  /\ UNCHANGED <<store, last, puts>>

Next ==
  \E r \in Requests :
    \/ \E i \in Isolates, k \in Kinds, failed \in BOOLEAN :
         \/ \E b \in Bodies[k] : fetch(r, i, k, [op |-> "form", arg |-> b], failed)
         \/ \E op \in {"addRule", "dropRule"}, b \in Rules : fetch(r, i, k, [op |-> op, arg |-> b], failed)
         \/ \E op \in {"addDomain", "dropDomain"}, d \in Domains : fetch(r, i, k, [op |-> op, arg |-> d], failed)
         \/ \E op \in {"disableHoneypot", "read"} : fetch(r, i, k, [op |-> op, arg |-> None], failed)
    \/ settle(r) \/ write(r) \/ failWrite(r)

Spec == Init /\ [][Next]_vars

(* -------------------------------------------------------------- properties --- *)

\* A read that meets no failure sees the stored tier, whatever this isolate
\* cached before and whichever isolate wrote it (org-settings.ts:53-91,
\* domain-settings.ts:68-102).
CacheIsCurrent ==
  \A i \in Isolates, k \in Cached :
    reads(i, k) = IF store[k] = None THEN absent ELSE parseSettingsLenient(k, store[k])

\* A settings form that ran alone keeps what other routes own, and a change to
\* the rules or the domains keeps everything else of a tier its schema accepts.
WritersKeepToTheirFields ==
  last # None /\ last.alone =>
    LET before == IF last.before = None THEN absent ELSE last.before
        valid == malformed(last.kind, before) = {}
        kept(fs) == \A f \in fs : last.after[f] = before[f] \/ last.after[f] = stripDefaultEqual(before)[f]
    IN /\ last.op = "form" /\ valid =>
            /\ kept({"rules"})
            /\ last.kind = "org" => (kept({"domains"}) /\ (hasFeeds(before) => hasFeeds(last.after)))
            /\ last.kind = "mailbox" => kept({"honeypot"})
       /\ last.op \in {"addRule", "dropRule"} /\ valid => kept(DOMAIN absent \ {"rules"})
       /\ last.op \in {"addDomain", "dropDomain"} /\ valid => kept(DOMAIN absent \ {"domains"})

\* The tiers as a mail's handler sees them, each time the requests have ended.
TiersResolve ==
  (\A r \in Requests : req[r] = None) =>
  LET raw == [k \in Kinds |-> IF store[k] = None THEN absent ELSE store[k]]
      t == [k \in Kinds |-> parseSettingsLenient(k, raw[k])]
  IN RulesByPrecedence(t) /\ OrgAllowsStay(t) /\ NoticeStaysInside(raw)

SettingsSound == CacheIsCurrent /\ WritersKeepToTheirFields /\ TiersResolve

\* mailbox-settings.ts:175-183: what the lenient read drops is "never passed
\* through, ... or written back to R2 (the stored blob is untouched)".
SalvageNeverWritten ==
  ~(/\ last # None /\ last.alone /\ last.before # None
    /\ last.op \in {"addRule", "dropRule"}
    /\ \E f \in DOMAIN absent \ {"rules"} : last.after[f] # stripDefaultEqual(last.before)[f])
=============================================================================
