---------------------------- MODULE CatchallIntel ----------------------------
(***************************************************************************)
(* Mail to an address nobody has, on a domain whose catch-all is observed: *)
(* receiveCatchall scores the probe (security/catchall.ts) and hands it to *)
(* the domain's CatchallIntelDO, which keeps counters per source, the      *)
(* local parts tried, a ring buffer of samples and a log of harvest alerts *)
(* (durableObject/catchall-intel.ts); a high score is published to the hub *)
(* and scanned out of band.  Time is in ticks; probes of one tick may      *)
(* reach the object in any order.                                          *)
(***************************************************************************)
EXTENDS Naturals, FiniteSets, FiniteSetsExt

CONSTANTS
  Probes,          \* [id -> [source, localpart, facts]], the mail that may come
  Retention,       \* domain settings: retention_days, in ticks
  SampleLimit,     \* sample_limit
  AlertThreshold,  \* harvest_alert_threshold
  Window,          \* harvest_alert_window_minutes, in ticks
  HubThreshold, ScanThreshold, AutoReport,
  None,
  MaxTime,         \* bound: ticks
  MaxFaults        \* bound: failed calls

VARIABLES
  now,
  flight,      \* [id -> "new", "scored" (stamped, not yet recorded), "done", "scanning", "scanned"]
  stamp,       \* [id -> ts of the event]
  rollup,      \* [source -> row, or None]
  localparts,  \* {[source, localpart, seen]}
  recent,      \* samples: {[id, ts, scan]}
  alerts,      \* harvest_alert_log: {[source, at]}
  hub,         \* probes published
  faults

vars == <<now, flight, stamp, rollup, localparts, recent, alerts, hub, faults>>

Ids == DOMAIN Probes
Sources == {Probes[i].source : i \in Ids}
Localparts == {Probes[i].localpart : i \in Ids}
Rollup == [count : Nat, distinct : Nat, max : 0 .. 100, seen : 0 .. MaxTime]

TypeOK ==
  /\ now \in 0 .. MaxTime /\ faults \in 0 .. MaxFaults
  /\ flight \in [Ids -> {"new", "scored", "done", "scanning", "scanned"}]
  /\ stamp \in [Ids -> 0 .. MaxTime]
  /\ rollup \in [Sources -> Rollup \cup {None}]
  /\ localparts \subseteq [source : Sources, localpart : Localparts, seen : 0 .. MaxTime]
  /\ recent \subseteq [id : Ids, ts : 0 .. MaxTime, scan : Ids \cup {None}]
  /\ alerts \subseteq [source : Sources, at : 0 .. MaxTime]
  /\ hub \subseteq Ids

Init ==
  /\ now = 0 /\ faults = 0
  /\ flight = [i \in Ids |-> "new"] /\ stamp = [i \in Ids |-> 0]
  /\ rollup = [s \in Sources |-> None]
  /\ localparts = {} /\ recent = {} /\ alerts = {} /\ hub = {}

(* ------------------------------------------------------------- the score --- *)

atMost(a, b) == IF a <= b THEN a ELSE b
toBand(score) == IF score >= 60 THEN "high" ELSE IF score >= 30 THEN "medium" ELSE "low"

\* A list lookup that fails adds nothing; the first listed URL counts.
analyzeCatchall(f) ==
  LET feed == [none |-> 0, bloom |-> 15, confirmed |-> 30]
      cti == [none |-> 0, suspicious |-> 10, malicious |-> 20]
      sum == atMost(f.auth, 30) + atMost(f.url, 25) + feed[f.feed]
               + (IF f.ip THEN cti[f.cti] + (IF f.drop THEN 25 ELSE 0) ELSE 0)
  IN  atMost(sum, 100)
score(i) == analyzeCatchall(Probes[i].facts)

(* ------------------------------------------------------------ the object --- *)

\* lazy GC, with the cutoff of the event's own time
kept(at, ts) == at + Retention >= ts

recordLocalpart(source, localpart, ts) ==
  {l \in localparts : kept(l.seen, ts) /\ ~(l.source = source /\ l.localpart = localpart)}
    \cup {[source |-> source, localpart |-> localpart, seen |-> ts]}

isNewLocalpart(source, localpart, ts) ==
  \A l \in localparts : ~(l.source = source /\ l.localpart = localpart /\ kept(l.seen, ts))

\* The counters of a source; distinct_localparts counts what was new when it
\* came, and is not lowered when local parts are collected.
collected(ts) ==
  [s \in Sources |-> IF rollup[s] # None /\ kept(rollup[s].seen, ts) THEN rollup[s] ELSE None]

upsertRollup(i, ts) ==
  LET s == Probes[i].source
      old == collected(ts)[s]
      new == IF isNewLocalpart(s, Probes[i].localpart, ts) THEN 1 ELSE 0
  IN  [collected(ts) EXCEPT ![s] =
         IF old = None THEN [count |-> 1, distinct |-> new, max |-> score(i), seen |-> ts]
         ELSE [count |-> old.count + 1, distinct |-> old.distinct + new,
               max |-> Max({old.max, score(i)}), seen |-> ts]]

\* What the ring buffer may hold after the insert: the oldest beyond the limit
\* go, in any order among equal times.
evicted(rows) ==
  {keep \in SUBSET rows :
     /\ Cardinality(keep) = atMost(SampleLimit, Cardinality(rows))
     /\ \A r \in keep, gone \in rows \ keep : gone.ts <= r.ts}

alertDue(s, row) ==
  /\ row.distinct >= AlertThreshold
  /\ \A a \in alerts : a.source = s => a.at + Window <= now

recordCatchallProbe(i) ==
  LET ts == stamp[i]
      s == Probes[i].source
      rows == {r \in recent : kept(r.ts, ts)} \cup {[id |-> i, ts |-> ts, scan |-> None]}
  IN  /\ rollup' = upsertRollup(i, ts)
      /\ localparts' = recordLocalpart(s, Probes[i].localpart, ts)
      /\ recent' \in evicted(rows)
      /\ alerts' = IF alertDue(s, rollup'[s])
                     THEN alerts \cup {[source |-> s, at |-> now]} ELSE alerts

(* ------------------------------------------------------------ the worker --- *)

\* analyzeCatchall; the event carries the time it was made.
receive(i) ==
  /\ flight[i] = "new"
  /\ flight' = [flight EXCEPT ![i] = "scored"] /\ stamp' = [stamp EXCEPT ![i] = now]
  /\ UNCHANGED <<now, rollup, localparts, recent, alerts, hub, faults>>

reportable(i) == AutoReport /\ score(i) >= HubThreshold
scannable(i) == score(i) >= ScanThreshold

\* The object is called, then the hub, and the scan is started; a failed call
\* to the object leaves no sample to scan, a failed report is dropped.
persist(i) ==
  /\ flight[i] = "scored" /\ stamp[i] = now
  /\ recordCatchallProbe(i)
  /\ flight' = [flight EXCEPT ![i] = IF scannable(i) THEN "scanning" ELSE "done"]
  /\ \/ hub' = (IF reportable(i) THEN hub \cup {i} ELSE hub) /\ UNCHANGED faults
     \/ reportable(i) /\ faults < MaxFaults /\ faults' = faults + 1 /\ UNCHANGED hub
  /\ UNCHANGED <<now, stamp>>
persistFails(i) ==
  /\ flight[i] = "scored" /\ stamp[i] = now /\ faults < MaxFaults
  /\ faults' = faults + 1
  /\ flight' = [flight EXCEPT ![i] = "done"]
  /\ hub' = IF reportable(i) THEN hub \cup {i} ELSE hub
  /\ UNCHANGED <<now, stamp, rollup, localparts, recent, alerts>>

\* runCatchallDeepScan and updateProbeDeepScan; nothing happens to a sample
\* that left the buffer.
deepScan(i) ==
  /\ flight[i] = "scanning"
  /\ recent' = {IF r.id = i THEN [r EXCEPT !.scan = i] ELSE r : r \in recent}
  /\ flight' = [flight EXCEPT ![i] = "scanned"]
  /\ UNCHANGED <<now, stamp, rollup, localparts, alerts, hub, faults>>

tick ==
  /\ now < MaxTime /\ \A i \in Ids : flight[i] # "scored"
  /\ now' = now + 1
  /\ UNCHANGED <<flight, stamp, rollup, localparts, recent, alerts, hub, faults>>

Next == tick \/ \E i \in Ids : receive(i) \/ persist(i) \/ persistFails(i) \/ deepScan(i)

Spec == Init /\ [][Next]_vars

(* ------------------------------------------------------------ properties --- *)

getSummary(limit) ==
  [probe_count |-> FoldSet(LAMBDA s, n : n + rollup[s].count, 0, {s \in Sources : rollup[s] # None}),
   distinct_sources |-> Cardinality({s \in Sources : rollup[s] # None}),
   distinct_localparts |-> Cardinality({l.localpart : l \in localparts}),
   top |-> {t \in SUBSET {s \in Sources : rollup[s] # None} :
              /\ Cardinality(t) <= limit
              /\ \A s \in t, u \in Sources \ t : rollup[u] = None \/ rollup[u].count <= rollup[s].count}]

\* A source that tried AlertThreshold local parts the object still knows has an
\* alert in the log no older than the window before its last probe: collecting
\* rows never hides a harvest (computeHarvestAlerts).
HarvestIsAlerted == \A s \in Sources :
  LET tried == {l \in localparts : l.source = s} IN
  Cardinality(tried) >= AlertThreshold =>
    \E a \in alerts : a.source = s /\ a.at + Window > Max({l.seen : l \in tried})

\* Two alerts for one source are at least a window apart.
AlertsDebounced == \A a, b \in alerts :
  a.source = b.source /\ a # b => a.at + Window <= b.at \/ b.at + Window <= a.at

\* The buffer holds at most SampleLimit samples, none older than what it gave
\* up while it was young enough, and a scan is of the sample it is on.
SamplesAreNewest ==
  /\ Cardinality(recent) <= SampleLimit
  /\ \A r \in recent : r.scan \in {None, r.id} /\ flight[r.id] # "scored"
  /\ \A i \in Ids : (flight[i] \in {"scanning", "scanned"} /\ \A r \in recent : r.id # i) =>
       Cardinality({r \in recent : r.ts >= stamp[i]}) = SampleLimit \/ stamp[i] + Retention < now

\* The counters add up: every counted source has a local part on file, it
\* counted no fewer local parts than are on file and no more than its mails,
\* and its band is that of a mail it sent; no local part is of no source.
CountersAddUp ==
  /\ \A l \in localparts : rollup[l.source] # None
  /\ \A src \in Sources : rollup[src] # None =>
       /\ \E l \in localparts : l.source = src
       /\ Cardinality({l \in localparts : l.source = src}) <= rollup[src].distinct
       /\ rollup[src].distinct <= rollup[src].count
       /\ toBand(rollup[src].max) \in {toBand(score(i)) : i \in {j \in Ids : Probes[j].source = src}}

\* ... and the summary shows no more local parts than probes.
SummaryAddsUp ==
  CountersAddUp /\ LET s == getSummary(2) IN s.distinct_localparts <= s.probe_count

CatchallSound == HarvestIsAlerted /\ AlertsDebounced /\ SamplesAreNewest /\ SummaryAddsUp
=============================================================================
