--------------------------- MODULE DomainPosture ---------------------------
(***************************************************************************)
(* What the domain page says a domain publishes (workers/*/posture.ts,     *)
(* workers/dmarc/{txt,bimi}.ts): lookups over DNS-over-HTTPS and, for      *)
(* MTA-STS, an HTTPS file, with results kept in KV.  `kind' is the lookup  *)
(* a behaviour is about.                                                   *)
(*                                                                         *)
(* A published record is a sequence of <<name, value>> pairs; the value of *)
(* the version tag is "exact", "cased" (another case) or "other".          *)
(***************************************************************************)
EXTENDS Naturals, Sequences, SequencesExt, FiniteSets, FiniteSetsExt, TLC

CONSTANTS
  None,
  Kinds,        \* the lookups of this instance
  Zones,        \* kind -> the zones a behaviour may start from: label -> records
  Updates,      \* kind -> what an operator may publish later
  Files,        \* the MTA-STS policy files, one after the other
  Ids, ValidIds,\* the id that goes with each file; those that are well-formed
  Probed,       \* DKIM_PROBE_SELECTORS
  Limit, MaxLookups, MaxDepth,  \* SPF: 10, 12 and 10 in the code
  Ttl, LongTtl, NegativeTtl,    \* an hour, a day and five minutes in the code
  Observed,     \* the days a seen selector counts
  MaxTime, MaxChanges, MaxFaults  \* by kind

VARIABLES kind, now, zone, file, kv, seen, past, calm, shown, changes, faults

vars == <<kind, now, zone, file, kv, seen, past, calm, shown, changes, faults>>

Labels == DOMAIN zone
world == [zone |-> zone, file |-> file]

(* ---------------------------------------------------------------- records *)

\* Tags are separated by `;' and the first of a name wins.
tagOf(record, name) ==
  LET at == {i \in DOMAIN record : record[i][1] = name}
  IN  IF at = {} THEN None ELSE record[Min(at)][2]
given(value) == value \notin {None, ""}
startsAs(record) == record # <<>> /\ record[1][1] = "v" /\ record[1][2] \in {"exact", "cased"}
\* select*Record: the first that starts with the version in any case.
selected(records) ==
  LET at == {i \in DOMAIN records : startsAs(records[i])}
  IN  IF at = {} THEN None ELSE records[Min(at)]

\* An answer of the resolver: a list of records, "none" (no Answer field, NOERROR
\* or NXDOMAIN) or "down" (a timeout, an error, a body that does not parse).
answerFor(z, label, bad, bare) ==
  LET records == IF label \in DOMAIN z THEN z[label] ELSE <<>>
  IN  [how |-> IF label \in bad THEN "down" ELSE IF records = <<>> /\ bare THEN "none" ELSE "list",
       records |-> records]
recordOf(answer) == IF answer.how = "list" THEN selected(answer.records) ELSE None

(* ------------------------------------------------- DMARC, BIMI, TLS-RPT *)

emptyDmarcTxtPosture == [p |-> None, sp |-> None, pct |-> None, rua |-> None]
parseDmarcTxt(r) ==
  IF tagOf(r, "v") # "exact" THEN emptyDmarcTxtPosture
  ELSE [p |-> tagOf(r, "p"), sp |-> tagOf(r, "sp"),
        pct |-> LET n == tagOf(r, "pct")
                IN  IF n = None THEN "100" ELSE IF n = "bad" THEN None ELSE n,
        rua |-> given(tagOf(r, "rua"))]
resolveDmarcTxt(a) ==
  IF recordOf(a) = None THEN emptyDmarcTxtPosture ELSE parseDmarcTxt(recordOf(a))

\* dmarc/bimi.ts: every failure reads as "not configured".
notConfigured == [configured |-> FALSE]
parseBimi(r) ==
  IF tagOf(r, "v") # "exact" THEN None ELSE [configured |-> TRUE, vmc |-> given(tagOf(r, "a"))]
resolveBimi(a) ==
  IF recordOf(a) = None THEN notConfigured
  ELSE IF parseBimi(recordOf(a)) = None THEN notConfigured ELSE parseBimi(recordOf(a))

\* bimi/posture.ts tells "no record" from "unavailable".
emptyBimiPosture == [configured |-> None, logo |-> None, vmc |-> None]
parseBimiTxt(r) ==
  IF tagOf(r, "v") # "exact" THEN None
  ELSE [configured |-> TRUE, logo |-> given(tagOf(r, "l")), vmc |-> given(tagOf(r, "a"))]
resolveBimiTxt(a) ==
  IF a.how # "list" THEN emptyBimiPosture
  ELSE IF recordOf(a) = None THEN [configured |-> FALSE, logo |-> FALSE, vmc |-> FALSE]
  ELSE IF parseBimiTxt(recordOf(a)) = None THEN emptyBimiPosture ELSE parseBimiTxt(recordOf(a))

emptyTlsRptPosture == [configured |-> None, endpoints |-> None]
\* The value is the sequence of the items between the commas.
parseRuaList(raw) == IF raw = None THEN <<>> ELSE SelectSeq(raw, LAMBDA s : s # "")
parseTlsRptTxt(r) ==
  IF tagOf(r, "v") # "exact" THEN None
  ELSE [configured |-> TRUE, endpoints |-> parseRuaList(tagOf(r, "rua"))]
resolveTlsRptTxt(a) ==
  IF a.how # "list" THEN emptyTlsRptPosture
  ELSE IF recordOf(a) # None /\ parseTlsRptTxt(recordOf(a)) # None THEN parseTlsRptTxt(recordOf(a))
  ELSE [configured |-> FALSE, endpoints |-> <<>>]

(* ------------------------------------------------------------------ DKIM *)

\* No v=DKIM1 is needed, an empty p= is a revoked key.
isPublishedDkimRecord(r) ==
  IF tagOf(r, "v") \in {"exact", "cased"} THEN tagOf(r, "p") # "" ELSE given(tagOf(r, "p"))
isAnyPublished(records) == \E i \in DOMAIN records : isPublishedDkimRecord(records[i])
resolveOneSelector(a) ==
  IF a.how = "down" THEN None ELSE a.how = "list" /\ isAnyPublished(a.records)
\* A row: the selector, what is published, who found it.
probeDkimSelectors(rows) == {s \in DOMAIN rows \cap Probed : rows[s] = TRUE}
mergeDkimPosture(observed, found) ==
  [s \in DOMAIN observed \cup found |->
    IF s \notin DOMAIN observed THEN [published |-> TRUE, source |-> "probed"]
    ELSE [published |-> observed[s], source |-> IF s \in found THEN "both" ELSE "observed"]]
\* getDkimSelectorsObserved with dkimObservationCutoffIso.
getDkimSelectorsObserved == {s \in DOMAIN seen : seen[s] + Observed >= now}

(* ------------------------------------------------------------------- SPF *)

emptySpfPosture == [record |-> None, all |-> None, includes |-> None, total |-> None, exceeds |-> None]
termsOf(r, name) == SelectSeq(Tail(r), LAMBDA t : t[1] = name /\ t[2] # "")
includesOf(r) == termsOf(r, "include")
\* The last redirect= and the last `all' stand.
redirectOf(r) == IF termsOf(r, "redirect") = <<>> THEN None ELSE Last(termsOf(r, "redirect"))[2]
allOf(r) == IF termsOf(r, "all") = <<>> THEN None ELSE Last(termsOf(r, "all"))[2]
lookupsOf(r) ==
  Len(termsOf(r, "a")) + Len(includesOf(r)) + (IF redirectOf(r) = None THEN 0 ELSE 1)
fetchSpfTxt(z, label, bad) == recordOf(answerFor(z, label, bad, TRUE))

\* The includes, then the redirect.
nextOf(r) ==
  LET ts == includesOf(r) \o (IF redirectOf(r) = None THEN <<>> ELSE << <<"redirect", redirectOf(r)>> >>)
  IN  [i \in DOMAIN ts |-> ts[i][2]]

RECURSIVE accumulateChain(_, _, _, _, _)
accumulateChain(target, counter, depth, z, bad) ==
  IF depth > MaxDepth \/ counter.total >= MaxLookups \/ target \in counter.visited THEN counter
  ELSE LET r == fetchSpfTxt(z, target, bad)
           visited == counter.visited \cup {target}
       IN  IF r = None THEN [counter EXCEPT !.visited = visited]
           ELSE FoldLeft(LAMBDA c, t : accumulateChain(t, c, depth + 1, z, bad),
                         [total |-> counter.total + lookupsOf(r), visited |-> visited], nextOf(r))

resolveSpfPosture(z, bad) ==
  LET r == fetchSpfTxt(z, "@", bad)
      final == FoldLeft(LAMBDA c, t : accumulateChain(t, c, 1, z, bad),
                        [total |-> lookupsOf(r), visited |-> {"@"}], nextOf(r))
  IN  IF r = None THEN emptySpfPosture
      ELSE [record |-> r, all |-> allOf(r), includes |-> Len(includesOf(r)),
            total |-> final.total, exceeds |-> final.total > Limit]

(* -------------------------------------------------------- DNSSEC, MTA-STS *)

\* The AD bit of the apex query, then a DS query.
resolveDnssecPosture(z, bad) ==
  IF "ad" \in bad \/ z["ad"] = <<>> THEN [signed |-> FALSE]
  ELSE [signed |-> TRUE, ds |-> "ds" \notin bad /\ z["ds"] # <<>>]

emptyMtaStsPosture == [mode |-> None, mx |-> None, age |-> None, id |-> None]
parseMtaStsTxt(r) ==
  IF tagOf(r, "v") = "exact" /\ tagOf(r, "id") \in ValidIds THEN tagOf(r, "id") ELSE None
resolveMtaStsTxtId(z, bad) ==
  LET r == recordOf(answerFor(z, "@", bad, FALSE))
  IN  IF r = None THEN None ELSE parseMtaStsTxt(r)
\* Key: value lines, the first of a key wins, mx repeats.
parseMtaStsPolicy(lines) ==
  IF tagOf(lines, "version") = "exact" /\ tagOf(lines, "mode") \in {"enforce", "testing", "none"}
       /\ tagOf(lines, "max_age") \notin {None, "bad"}
  THEN [mode |-> tagOf(lines, "mode"), age |-> tagOf(lines, "max_age"),
        mx |-> {lines[i][2] : i \in {j \in DOMAIN lines : lines[j][1] = "mx"}} \ {""}]
  ELSE None
\* A redirect, an error and a body that is too long are no policy.
fetchAndParseMtaStsPolicy(f, bad) ==
  IF "file" \in bad \/ Files[f].status # "ok" THEN None ELSE parseMtaStsPolicy(Files[f].lines)
mtaStsPosture(policy, id) ==
  IF policy = None THEN [emptyMtaStsPosture EXCEPT !.id = id]
  ELSE [mode |-> policy.mode, mx |-> policy.mx, age |-> policy.age, id |-> id]

(* ------------------------------------------------------------------ steps *)

\* An entry counts until it expires; a failed read is no entry.
live(store, key) == key \in DOMAIN store /\ store[key].until > now
put(store, key, value, ttl) == (key :> [value |-> value, until |-> now + ttl]) @@ store

\* One lookup with its cache: what it answers and the cache after it.
cachedOr(store, key, out, lost, value, durable) ==
  IF ~out /\ live(store, key) THEN [kv |-> store, value |-> store[key].value]
  ELSE [kv |-> IF durable /\ ~lost THEN put(store, key, value, Ttl) ELSE store, value |-> value]

\* Mutation of durable: what could not be looked up is kept as well.
anyAnswer(value) == TRUE

\* fetchTlsRptPosture leaves out what is unavailable; the others, but for
\* DKIM's rows, keep it for the hour.
durable(value) == value.configured # None

kept(out, lost, value) == cachedOr(kv, "@", out, lost, value, TRUE)
fetchDmarcTxtPosture(a, out, lost) == kept(out, lost, resolveDmarcTxt(a))
fetchBimi(a, out, lost) == kept(out, lost, resolveBimi(a))
fetchBimiPosture(a, out, lost) == kept(out, lost, resolveBimiTxt(a))
fetchTlsRptPosture(a, out, lost) ==
  LET value == resolveTlsRptTxt(a)
  IN  cachedOr(kv, "@", out, lost, value, durable(value))
fetchSpfPosture(bad, out, lost) == kept(out, lost, resolveSpfPosture(zone, bad))
fetchDnssecPosture(bad, out, lost) == kept(out, lost, resolveDnssecPosture(zone, bad))

\* The id decides the key, so it is resolved before the cache is read.
fetchMtaStsPosture(bad, out, lost) ==
  LET id == resolveMtaStsTxtId(zone, bad)
      value == mtaStsPosture(fetchAndParseMtaStsPolicy(file, bad), id)
  IN  IF id = None THEN
        [kv |-> IF lost \/ (~out /\ live(kv, "none")) THEN kv
                ELSE put(kv, "none", emptyMtaStsPosture, NegativeTtl),
         value |-> emptyMtaStsPosture]
      ELSE IF ~out /\ live(kv, id) THEN [kv |-> kv, value |-> kv[id].value]
      ELSE [kv |-> IF lost THEN kv ELSE put(kv, id, value, LongTtl), value |-> value]

\* fetchDkimPosture over the selectors, one after the other.
fetchDkimPosture(store, selectors, bad, bare, out, lost) ==
  LET one(s) == LET p == resolveOneSelector(answerFor(zone, s, bad, bare))
                IN  cachedOr(store, s, out, lost, p, p # None)
  IN  [kv |-> [s \in {t \in selectors : t \in DOMAIN one(t).kv} |-> one(s).kv[s]] @@ store,
       rows |-> [s \in selectors |-> one(s).value]]

\* The probe is part of the concurrent fan-out; the selectors the mailboxes
\* saw are looked up after it.
dkimOfDomain(badProbe, bad, bare, out, lost) ==
  LET probe == fetchDkimPosture(kv, Probed, badProbe, bare, out, lost)
      observed == fetchDkimPosture(probe.kv, getDkimSelectorsObserved, bad, bare, out, lost)
  IN  [kv |-> observed.kv, value |-> mergeDkimPosture(observed.rows, probeDkimSelectors(probe.rows))]

Calls == CASE kind = "mta-sts" -> {"@", "file"} [] OTHER -> Labels

\* GET /api/v1/domains/:domain/stats, one lookup of it, when the page itself is
\* not in the cache (see Dashboards).
View ==
  \E bad, badProbe \in SUBSET Calls, bare, out, lost \in BOOLEAN :
    LET ok == bad = {} /\ badProbe = {} /\ ~out /\ ~lost
        apex == answerFor(zone, "@", bad, bare)
        r == CASE kind = "dkim" -> dkimOfDomain(badProbe, bad, bare, out, lost)
               [] kind = "mta-sts" -> fetchMtaStsPosture(bad, out, lost)
               [] kind = "dmarc" -> fetchDmarcTxtPosture(apex, out, lost)
               [] kind = "bimi" -> fetchBimi(apex, out, lost)
               [] kind = "logo" -> fetchBimiPosture(apex, out, lost)
               [] kind = "tlsrpt" -> fetchTlsRptPosture(apex, out, lost)
               [] kind = "spf" -> fetchSpfPosture(bad, out, lost)
               [] kind = "dnssec" -> fetchDnssecPosture(bad, out, lost)
    IN  /\ ok \/ faults < MaxFaults[kind]
        /\ kind = "dkim" \/ badProbe = {}
        /\ bare => \E l \in Labels : zone[l] = <<>>
        /\ out => kv # << >>
        /\ faults' = faults + (IF ok THEN 0 ELSE 1)
        /\ calm' = IF ok THEN calm ELSE now
        /\ kv' = r.kv
        /\ shown' = [value |-> r.value, bad |-> bad \cup badProbe, bare |-> bare]
        /\ UNCHANGED <<kind, now, zone, file, seen, past, changes>>

\* recordDkimSelectorsObserved: mail with a signature of a selector arrives.
Observe ==
  /\ kind = "dkim"
  /\ \E s \in Labels :
       seen' = [t \in {u \in DOMAIN seen : seen[u] + Observed >= now} \cup {s} |->
                 IF t = s THEN now ELSE seen[t]]
  /\ seen' # seen
  /\ shown' = None
  /\ UNCHANGED <<kind, now, zone, file, kv, past, calm, changes, faults>>

\* How long an entry lives.
settledAfter == IF kind = "mta-sts" THEN LongTtl ELSE Ttl

moved == past' = past \cup {[world |-> world, until |-> now]}
disturbed == changes' = changes + 1 /\ calm' = now /\ shown' = None

\* The operator changes what the domain publishes.
Publish ==
  /\ changes < MaxChanges[kind]
  /\ kind # "mta-sts"
  /\ zone' \in Updates[kind] \ {zone}
  /\ moved /\ disturbed
  /\ UNCHANGED <<kind, now, file, kv, seen, faults>>

\* A new MTA-STS policy: the file first, then the id that announces it.
PublishFile ==
  /\ changes < MaxChanges[kind]
  /\ kind = "mta-sts" /\ file < Len(Files)
  /\ resolveMtaStsTxtId(zone, {}) \in {None, Ids[file]}
  /\ file' = file + 1
  /\ moved /\ disturbed
  /\ UNCHANGED <<kind, now, zone, kv, seen, faults>>

PublishId ==
  /\ changes < MaxChanges[kind]
  /\ kind = "mta-sts"
  /\ zone' = [zone EXCEPT !["@"] = << << <<"v", "exact">>, <<"id", Ids[file]>> >> >>]
  /\ zone' # zone
  /\ moved /\ disturbed
  /\ UNCHANGED <<kind, now, file, kv, seen, faults>>

Tick ==
  /\ now < MaxTime[kind]
  /\ now' = now + 1
  /\ shown' = None
  /\ kv' = [k \in {j \in DOMAIN kv : kv[j].until > now'} |-> kv[k]]
  /\ past' = {w \in past : w.until + settledAfter > now'}
  /\ UNCHANGED <<kind, zone, file, seen, calm, changes, faults>>

Init ==
  /\ kind \in Kinds
  /\ zone \in Zones[kind]
  /\ file = 1 /\ now = 0 /\ kv = << >> /\ seen = << >> /\ past = {} /\ calm = 0
  /\ shown = None /\ changes = 0 /\ faults = 0

Next == View \/ Observe \/ Publish \/ PublishFile \/ PublishId \/ Tick
Spec == Init /\ [][Next]_vars

(* ------------------------------------------------------------- properties *)

\* `seen' and `kv' hold what was seen and looked up, dated within the run.
TypeOK ==
  /\ kind \in Kinds /\ now \in 0..MaxTime[kind] /\ calm \in 0..now
  /\ zone \in Zones[kind] \cup Updates[kind] \/ kind = "mta-sts"
  /\ file \in DOMAIN Files
  /\ \A k \in DOMAIN kv : kv[k].until \in now + 1..now + LongTtl
  /\ DOMAIN seen \subseteq Labels /\ \A s \in DOMAIN seen : seen[s] \in 0..now
  /\ changes \in 0..MaxChanges[kind] /\ faults \in 0..MaxFaults[kind]

\* What the record of the apex reads as.
published(z, bare) ==
  LET a == answerFor(z, "@", {}, bare)
  IN  CASE kind = "dmarc" -> resolveDmarcTxt(a)
        [] kind = "bimi" -> resolveBimi(a)
        [] kind = "logo" -> resolveBimiTxt(a)
        [] kind = "tlsrpt" -> resolveTlsRptTxt(a)
        [] kind = "spf" -> resolveSpfPosture(z, {})
        [] kind = "dnssec" -> resolveDnssecPosture(z, {})

\* What was published at some time an entry of this age can be about.
recentWorlds(ttl) == {world} \cup {w.world : w \in {p \in past : p.until + ttl > now}}
unavailable ==
  CASE kind = "dmarc" -> emptyDmarcTxtPosture [] kind = "bimi" -> notConfigured
    [] kind = "logo" -> emptyBimiPosture [] OTHER -> emptyTlsRptPosture

\* The records an evaluation of the record would look up: every domain that
\* include= and redirect= reach, each counted once.
reached[z \in UNION {Zones[k] \cup Updates[k] : k \in Kinds \cap {"spf"}}, n \in 0..MaxDepth + 4] ==
  IF n = 0 THEN {"@"}
  ELSE LET found == {fetchSpfTxt(z, d, {}) : d \in reached[z, n - 1]} \ {None}
       IN  reached[z, n - 1] \cup UNION {ToSet(nextOf(r)) : r \in found}
trueLookups(z) ==
  MapThenSumSet(LAMBDA d : LET r == fetchSpfTxt(z, d, {}) IN IF r = None THEN 0 ELSE lookupsOf(r),
                reached[z, MaxDepth + 4])

\* txt.ts, bimi.ts, tlsrpt, dnssec, dkim, spf: what is shown was published within
\* the lifetime of an entry, or is "unavailable"; the parts of a result that a
\* failed call left out are left out, never invented.
ShownWasPublished ==
  shown # None =>
    CASE kind \in {"dmarc", "bimi", "logo", "tlsrpt"} ->
           \/ shown.value = unavailable
           \/ \E w \in recentWorlds(Ttl), b \in BOOLEAN : shown.value = published(w.zone, b)
      [] kind = "dnssec" ->
           shown.value.signed => \E w \in recentWorlds(Ttl) :
             w.zone["ad"] # <<>> /\ (shown.value.ds => w.zone["ds"] # <<>>)
      [] kind = "spf" ->
           shown.value.record # None => \E w \in recentWorlds(Ttl) :
             /\ shown.value.record = fetchSpfTxt(w.zone, "@", {})
             /\ shown.value.exceeds => trueLookups(w.zone) > Limit
      [] kind = "dkim" ->
           \A s \in DOMAIN shown.value :
             \/ shown.value[s].published = None
             \/ \E w \in recentWorlds(Ttl) :
                  shown.value[s].published = isAnyPublished(w.zone[s])
      [] OTHER -> TRUE

\* spf/posture.ts: with every record at hand, a cut-off walk still tells whether
\* the chain needs more lookups than the limit, and counts them when it does not.
SpfLimitExact ==
  kind = "spf" =>
    LET p == resolveSpfPosture(zone, {})
        lookups == trueLookups(zone)
    IN  p.record # None =>
          /\ p.exceeds <=> lookups > Limit
          /\ ~p.exceeds => p.total = lookups

\* mta-sts/posture.ts: "Cache key includes the policy id so a published-id change
\* auto-invalidates cached entries": a policy shown with an id is not older than
\* the one the id announced.
NoStalePolicy ==
  kind = "mta-sts" /\ shown # None /\ shown.value.mode # None =>
    \E f \in DOMAIN Files :
      /\ mtaStsPosture(parseMtaStsPolicy(Files[f].lines), shown.value.id) = shown.value
      /\ \E i \in DOMAIN Ids : Ids[i] = shown.value.id /\ f >= i

\* dkim, tlsrpt: a failure is not remembered; the next answer is about what is
\* published.
FailuresForgotten ==
  shown # None /\ shown.bad = {} =>
    /\ kind = "tlsrpt" /\ shown.value.configured = None => shown.bare
    /\ kind = "dkim" => \A s \in DOMAIN shown.value : shown.value[s].published # None

\* Without a change or a failure for as long as an entry lives, the page shows
\* what the domain publishes.
Recovers ==
  shown # None /\ now >= calm + settledAfter =>
    CASE kind = "dkim" ->
           \A s \in DOMAIN shown.value : shown.value[s].published = isAnyPublished(zone[s])
      [] kind = "mta-sts" -> shown.value = fetchMtaStsPosture({}, TRUE, TRUE).value
      [] OTHER -> \E b \in BOOLEAN : shown.value = published(zone, b)

PosturesSound ==
  /\ ShownWasPublished /\ SpfLimitExact /\ NoStalePolicy /\ FailuresForgotten /\ Recovers
=============================================================================
