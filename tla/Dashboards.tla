----------------------------- MODULE Dashboards -----------------------------
(***************************************************************************)
(* The numbers of the dashboards (lib/dashboard-aggregation.ts and the     *)
(* mailbox object's getDashboardSummary), their caches in KV, and the      *)
(* search over all mailboxes (lib/org-search.ts).  `kind' limits what      *)
(* happens in a behaviour: mail and cases, runs, cached pages or searches. *)
(***************************************************************************)
EXTENDS Integers, Sequences, SequencesExt, FiniteSets, FiniteSetsExt, Functions, TLC

CONSTANTS
  None,
  Kinds,
  Mailboxes,     \* the mailboxes in the order they are listed
  DomainOf,      \* domainOf of each address: None without a local part or a domain
  SecondPart,    \* what follows the first @ of each address, None when empty
  Accessible,    \* the mailboxes the caller's ACL admits
  Mail,          \* kind -> the messages that may arrive: date, verdict cell, scan
  CaseIds,       \* kind -> <<mailbox, number>>
  Changes,       \* kind -> the <<status, shared>> an update of a case may leave
  Outcomes,      \* kind -> <<mailbox, status, duration>> of the runs
  VERDICT_MIX_KEYS,
  LabelOrder,    \* the labels of the messages in alphabetical order
  Day, Week, Buckets,
  TopN, SamplesPerThreat, SampleCap, SourceCap, RecentCap,  \* 5, 3, 5, 200, 5
  SearchCap, PageSize,  \* 100: searchEmails clamps the 200 it is asked for
  Ttl, MaxTime, MaxRuns, MaxFaults

VARIABLES kind, now, mail, cases, runs, kv, shown, calm, faults

vars == <<kind, now, mail, cases, runs, kv, shown, calm, faults>>

Boxes == Range(Mailboxes)
Domains == {DomainOf[m] : m \in Boxes} \ {None}
total(S, value(_)) == FoldSet(LAMBDA x, acc : acc + value(x), 0, S)
\* ORDER BY date DESC: no date comes last, and rows of one date in some order.
newest(rows) ==
  SetToSortSeq(rows, LAMBDA a, b : b.at = None \/ (a.at # None /\ a.at >= b.at))
limit(n, s) == SubSeq(s, 1, Min({n, Len(s)}))

(* -------------------------------------------------------- verdict cells *)

\* A message's `cell' is empty, text that does not parse ("junk"), or a JSON
\* object with its action and its classification's label, None when no string.
parseVerdict(r) == r.cell = "json"
parseVerdictAction(r) == IF r.cell = "json" THEN r.action ELSE None
threatActions == {"tag", "quarantine", "block"}
labelled(rows, l) == Cardinality({r \in rows : parseVerdict(r) /\ r.label = l})
computeVerdictMix(rows) == [l \in VERDICT_MIX_KEYS |-> labelled(rows, l)]
isThreat(r) == parseVerdictAction(r) \in threatActions /\ r.label \notin {None, "safe"}

(* ------------------------------------------------------ one mailbox's part *)

mailSince(m, since) == {r \in mail : r.mailbox = m /\ r.at # None /\ r.at >= since}
casesOf(m) == {c \in DOMAIN cases : c[1] = m}
countCases(m, test(_)) == Cardinality({c \in casesOf(m) : test(cases[c])})
mostRecent(S) == SetToSortSeq(S, LAMBDA a, b : cases[a].at >= cases[b].at)
topThreatSamples(m) ==
  LET source == limit(SourceCap, newest({r \in mailSince(m, now - Day) : r.cell # "empty"}))
      threats == SelectSeq(source, isThreat)
  IN  [l \in {r.label : r \in Range(threats)} |->
         limit(SampleCap, SelectSeq(threats, LAMBDA r : r.label = l))]
\* Completed runs by the time they started; two of one duration are two.
getPipelineDurations24h(m) ==
  {r \in runs : r.mailbox = m /\ r.status = "completed" /\ r.started >= now - Day /\ r.ms # None}
getDashboardSummary(m) ==
  LET closedSince(since) == countCases(m, LAMBDA c : c.status = "closed-tp" /\ c.at >= since)
      scanned(status) == Cardinality({r \in mailSince(m, now - Day) : r.scan = status})
  IN  [threatsBlocked |-> closedSince(now - Day), threatsBlocked7d |-> closedSince(now - Week),
       openCases |-> countCases(m, LAMBDA c : c.status = "open"),
       hubContributions |-> countCases(m, LAMBDA c : c.shared /\ c.at >= now - Day),
       completed |-> scanned("completed"), failed |-> scanned("failed"),
       durations |-> getPipelineDurations24h(m), verdictRows |-> mailSince(m, now - Day),
       verdictMix7d |-> computeVerdictMix(mailSince(m, now - Week)),
       topThreatSamples |-> topThreatSamples(m), recentCases |-> limit(RecentCap, mostRecent(casesOf(m)))]

\* Equal buckets, the oldest first; the end of the window is in the last.
bucketThreatPressure(rows) ==
  LET counted == {r \in rows : /\ parseVerdictAction(r) \in threatActions
                               /\ r.at # None /\ r.at >= now - Day /\ r.at <= now}
      bucketOf(r) == Min({((r.at - (now - Day)) * Buckets) \div Day, Buckets - 1})
  IN  [b \in 0..Buckets - 1 |-> Cardinality({r \in counted : bucketOf(r) = b})]
\* The ratio completed / total, as its two numbers.
pipelineSuccessRate(completed, failed) ==
  IF completed + failed = 0 THEN None ELSE <<completed, completed + failed>>
\* Linear interpolation between ranks, in twentieths.
computeP95(durations) ==
  LET sample == SetToSortSeq({d \in durations : d.ms >= 0},
                             LAMBDA a, b : a.ms <= b.ms)
      rank == 19 * (Len(sample) - 1)
      lo == rank \div 20
      weight == rank % 20
  IN  IF sample = <<>> THEN None
      ELSE IF weight = 0 THEN 20 * sample[lo + 1].ms
      ELSE sample[lo + 1].ms * (20 - weight) + sample[lo + 2].ms * weight

(* ------------------------------------------------------------ aggregation *)
\* A mailbox whose call failed (in `down') counts as a mailbox and adds nothing.

\* The first of each id, the mailboxes in their order.
samplesByCategory(summary, l) ==
  LET shipped(m) == IF m \in DOMAIN summary /\ l \in DOMAIN summary[m].topThreatSamples
                    THEN summary[m].topThreatSamples[l] ELSE <<>>
  IN  FoldLeft(LAMBDA acc, r : IF \E i \in DOMAIN acc : acc[i].id = r.id THEN acc ELSE Append(acc, r),
               <<>>, FlattenSeq([i \in DOMAIN Mailboxes |-> shipped(Mailboxes[i])]))
topThreats(summary) ==
  LET threats == {r \in UNION {summary[m].verdictRows : m \in DOMAIN summary} : isThreat(r)}
      count(l) == Cardinality({r \in threats : r.label = l})
      ranked == SetToSortSeq({r.label : r \in threats},
                  LAMBDA a, b : count(a) > count(b) \/ (count(a) = count(b) /\ LabelOrder[a] < LabelOrder[b]))
  IN  limit(TopN, [i \in DOMAIN ranked |->
        [category |-> ranked[i], count |-> count(ranked[i]),
         samples |-> limit(SamplesPerThreat, samplesByCategory(summary, ranked[i]))]])

aggregateOrgOverview(down) ==
  LET summary == [m \in Boxes \ down |-> getDashboardSummary(m)]
      sum(value(_)) == total(DOMAIN summary, LAMBDA m : value(summary[m]))
      completed == sum(LAMBDA s : s.completed)
      failed == sum(LAMBDA s : s.failed)
  IN  [threatsBlocked |-> sum(LAMBDA s : s.threatsBlocked),
       threatsBlocked7d |-> sum(LAMBDA s : s.threatsBlocked7d),
       openCases |-> sum(LAMBDA s : s.openCases),
       hubContributions |-> sum(LAMBDA s : s.hubContributions),
       mix |-> [l \in VERDICT_MIX_KEYS |-> sum(LAMBDA s : labelled(s.verdictRows, l))],
       mix7d |-> [l \in VERDICT_MIX_KEYS |-> sum(LAMBDA s : s.verdictMix7d[l])],
       topThreats |-> topThreats(summary),
       successRate |-> pipelineSuccessRate(completed, failed), runs24h |-> completed + failed,
       p95 |-> computeP95(UNION {summary[m].durations : m \in DOMAIN summary}),
       mailboxes |-> Len(Mailboxes), domains |-> Cardinality({SecondPart[m] : m \in Boxes} \ {None})]

inDomain(d) == {m \in Boxes : DomainOf[m] = d}

aggregateDomainsList(down) ==
  [d \in Domains |->
    LET summary == [m \in inDomain(d) \ down |-> getDashboardSummary(m)]
        sum(value(_)) == total(DOMAIN summary, LAMBDA m : value(summary[m]))
    IN  [mailboxes |-> Cardinality(inDomain(d)),
         threatsBlocked |-> sum(LAMBDA s : s.threatsBlocked),
         openCases |-> sum(LAMBDA s : s.openCases),
         mix |-> [l \in VERDICT_MIX_KEYS |-> sum(LAMBDA s : labelled(s.verdictRows, l))]]]

\* None, the 404, for a domain of no mailbox.  The postures: DomainPosture.
aggregateDomainStats(d, down) ==
  LET summary == [m \in inDomain(d) \ down |-> getDashboardSummary(m)]
      sum(value(_)) == total(DOMAIN summary, LAMBDA m : value(summary[m]))
  IN  IF inDomain(d) = {} THEN None
      ELSE [mailboxes |-> inDomain(d),
            threatsBlocked |-> sum(LAMBDA s : s.threatsBlocked),
            threatsBlocked7d |-> sum(LAMBDA s : s.threatsBlocked7d),
            openCases |-> sum(LAMBDA s : s.openCases),
            mix |-> [l \in VERDICT_MIX_KEYS |-> sum(LAMBDA s : labelled(s.verdictRows, l))],
            recentCases |-> limit(RecentCap,
              mostRecent(UNION {Range(summary[m].recentCases) : m \in DOMAIN summary}))]

(* ----------------------------------------------------------- org search *)

\* The conditions of a search come to the set of messages they match.
searchEmails(m, asked) ==
  limit(Min({Max({asked, 1}), SearchCap}), newest({r \in mail : r.mailbox = m /\ r.matches}))
countSearchResults(m) == Cardinality({r \in mail : r.mailbox = m /\ r.matches})
aggregateOrgSearch(perMailbox, page) ==
  LET rows == newest(UNION {Range(perMailbox[m].emails) : m \in DOMAIN perMailbox})
      start == Max({0, (page - 1) * PageSize})
  IN  [rows |-> SubSeq(rows, start + 1, Min({start + PageSize, Len(rows)})),
       total |-> total(DOMAIN perMailbox, LAMBDA m : perMailbox[m].count)]
\* GET /api/v1/org/search: what the mailboxes that answer give, two pages' worth
\* of the cap asked of each.
orgSearch(answering, page) ==
  aggregateOrgSearch([m \in Accessible \cap answering |->
    [emails |-> searchEmails(m, 2 * SearchCap), count |-> countSearchResults(m)]], page)

(* ------------------------------------------------------------------ steps *)

Receive ==
  /\ \E r \in Mail[kind] \ mail : mail' = mail \cup {r}
  /\ shown' = None
  /\ UNCHANGED <<kind, now, cases, runs, kv, calm, faults>>

createCase ==
  /\ \E c \in CaseIds[kind] \ DOMAIN cases :
       cases' = (c :> [status |-> "open", shared |-> FALSE, at |-> now]) @@ cases
  /\ shown' = None
  /\ UNCHANGED <<kind, now, mail, runs, kv, calm, faults>>

\* A status, a share with the hub or a note: updated_at is now in each case.
updateCase ==
  /\ \E c \in DOMAIN cases, change \in Changes[kind] :
       /\ cases[c].shared => change[2]
       /\ cases' = [cases EXCEPT ![c] = [status |-> change[1], shared |-> change[2], at |-> now]]
  /\ shown' = None
  /\ UNCHANGED <<kind, now, mail, runs, kv, calm, faults>>

recordPipelineRunStart ==
  /\ Cardinality(runs) < MaxRuns
  /\ \E m \in {o[1] : o \in Outcomes[kind]} :
       runs' = runs \cup {[id |-> Cardinality(runs), mailbox |-> m, started |-> now,
                          status |-> "running", ms |-> None]}
  /\ shown' = None
  /\ UNCHANGED <<kind, now, mail, cases, kv, calm, faults>>

recordPipelineRunComplete ==
  /\ \E r \in runs, o \in Outcomes[kind] :
       /\ r.status = "running" /\ r.mailbox = o[1]
       /\ runs' = (runs \ {r}) \cup {[r EXCEPT !.status = o[2], !.ms = o[3]]}
  /\ shown' = None
  /\ UNCHANGED <<kind, now, mail, cases, kv, calm, faults>>

Tick ==
  /\ now < MaxTime[kind]
  /\ now' = now + 1
  /\ kv' = [k \in {j \in DOMAIN kv : kv[j].until > now'} |-> kv[k]]
  /\ shown' = None
  /\ UNCHANGED <<kind, mail, cases, runs, calm, faults>>

\* GET /api/v1/org/overview, /domains and /domains/:domain/stats: the page in KV,
\* or, when there is none or it cannot be read, one made of the answers there
\* are, put for a minute unless the put fails.
page(key, down) ==
  CASE key = "overview" -> aggregateOrgOverview(down)
    [] key = "domains" -> aggregateDomainsList(down)
    [] OTHER -> aggregateDomainStats(key, down)
Hit(key) ==
  /\ key \in DOMAIN kv
  /\ shown' = [key |-> key, page |-> kv[key].page]
  /\ UNCHANGED <<kv, calm, faults>>
Made(key, down, readFails, putFails) ==
  /\ key \in DOMAIN kv => readFails
  /\ faults' = faults + (IF down # {} \/ readFails \/ putFails THEN 1 ELSE 0)
  /\ faults' <= MaxFaults
  /\ calm' = IF down = {} THEN calm ELSE now
  /\ LET made == page(key, down)
     IN  /\ shown' = [key |-> key, page |-> made]
         /\ kv' = IF putFails THEN kv ELSE (key :> [page |-> made, until |-> now + Ttl]) @@ kv
View ==
  /\ kind = "pages"
  /\ \E key \in {"overview", "domains"} \cup Domains :
       \/ Hit(key)
       \/ \E down \in SUBSET Boxes, readFails, putFails \in BOOLEAN : Made(key, down, readFails, putFails)
  /\ UNCHANGED <<kind, now, mail, cases, runs>>

Init ==
  /\ kind \in Kinds
  /\ now = 0 /\ mail = {} /\ cases = << >> /\ runs = {} /\ kv = << >> /\ shown = None
  /\ calm = 0 /\ faults = 0

Next == Receive \/ createCase \/ updateCase \/ recordPipelineRunStart \/ recordPipelineRunComplete
          \/ Tick \/ View
Spec == Init /\ [][Next]_vars

(* ------------------------------------------------------------- properties *)

TypeOK ==
  /\ kind \in Kinds /\ now \in 0..MaxTime[kind] /\ mail \subseteq Mail[kind]
  /\ DOMAIN cases \subseteq CaseIds[kind] /\ Cardinality(runs) <= MaxRuns
  /\ calm \in 0..now /\ faults \in 0..MaxFaults
  /\ \A k \in DOMAIN kv : kv[k].until \in now + 1..now + Ttl

\* dashboard-aggregation.ts: "Mirrors aggregateOrgOverview's mix derivation so the
\* per-domain numbers reconcile with the org-wide totals", whichever mailboxes
\* answer; a domain's page agrees with its row of the list.
NumbersReconcile ==
  LET agrees(stats, row) ==
        /\ \A f \in {"threatsBlocked", "openCases", "mix"} : stats[f] = row[f]
        /\ Cardinality(stats.mailboxes) = row.mailboxes
        /\ stats.threatsBlocked <= stats.threatsBlocked7d
      reconcile(org, list, down) ==
        LET sums(field(_)) == total(Domains, LAMBDA d : field(list[d])) IN
        /\ {m \in Boxes : DomainOf[m] = None} = {} =>
             /\ sums(LAMBDA x : x.threatsBlocked) = org.threatsBlocked
             /\ sums(LAMBDA x : x.openCases) = org.openCases
             /\ sums(LAMBDA x : x.mailboxes) = org.mailboxes
             /\ \A l \in VERDICT_MIX_KEYS : sums(LAMBDA x : x.mix[l]) = org.mix[l]
        /\ \A d \in Domains : agrees(aggregateDomainStats(d, down), list[d])
        /\ \A l \in VERDICT_MIX_KEYS : org.mix[l] <= org.mix7d[l]
  IN  kind \in {"mail", "cases"} => \A down \in SUBSET Boxes :
        reconcile(aggregateOrgOverview(down), aggregateDomainsList(down), down)

\* The threats at the top are the most frequent, the messages shown with one are
\* threats of that label, each once, and one is shown unless a mailbox has more
\* verdicts in the day than the samples are taken from.
ThreatsAreReal ==
  LET real(top, down) ==
        LET threats == {r \in mail : /\ isThreat(r) /\ r.mailbox \notin down
                                     /\ r.at # None /\ r.at >= now - Day}
            count(l) == Cardinality({r \in threats : r.label = l})
        IN  \A i \in DOMAIN top :
              /\ top[i].count = count(top[i].category)
              /\ \A r \in threats :
                   count(r.label) > top[i].count => \E j \in 1..i - 1 : top[j].category = r.label
              /\ top[i].samples = <<>> =>
                   \E m \in Boxes \ down :
                     Cardinality({r \in mailSince(m, now - Day) : r.cell # "empty"}) > SourceCap
              /\ \A j \in DOMAIN top[i].samples :
                   /\ top[i].samples[j] \in threats /\ top[i].samples[j].label = top[i].category
                   /\ \A k \in 1..j - 1 : top[i].samples[k].id # top[i].samples[j].id
  IN  kind = "mail" => \A down \in SUBSET Boxes : real(aggregateOrgOverview(down).topThreats, down)

\* Although a mailbox ships only its few most recent cases, the page of a domain
\* shows the most recent ones of all its mailboxes that answer.
RecentAreNewest ==
  kind = "cases" => \A d \in Domains, down \in SUBSET Boxes :
    LET recent == Range(aggregateDomainStats(d, down).recentCases)
        all == {c \in DOMAIN cases : c[1] \in inDomain(d) \ down}
    IN  /\ recent \subseteq all
        /\ Cardinality(recent) = Min({RecentCap, Cardinality(all)})
        /\ \A c \in recent, e \in all \ recent : cases[c].at >= cases[e].at

\* Each threat of the window is in one bucket, those of later buckets are later.
BucketsPartition ==
  LET partition(rows, buckets) ==
        /\ total(DOMAIN buckets, LAMBDA b : buckets[b]) = Cardinality(rows)
        /\ \A b \in DOMAIN buckets :
             total(0..b, LAMBDA i : buckets[i])
               = Cardinality({r \in rows : \/ (r.at - (now - Day)) * Buckets < (b + 1) * Day
                                           \/ b = Buckets - 1})
  IN  \A m \in Boxes :
        partition({r \in mailSince(m, now - Day) : r.cell = "json" /\ r.action \in threatActions /\ r.at <= now},
                  bucketThreatPressure({r \in mail : r.mailbox = m}))

\* A twentieth of the other durations at most is above the 95th percentile.
PercentileBetween ==
  LET sample == {r \in runs : /\ r.status = "completed" /\ r.started >= now - Day
                              /\ r.ms # None /\ r.ms >= 0}
      p95 == computeP95(UNION {getPipelineDurations24h(m) : m \in Boxes})
  IN  IF sample = {} THEN p95 = None
      ELSE /\ 20 * Cardinality({r \in sample : 20 * r.ms > p95}) <= Cardinality(sample) + 19
           /\ 20 * Cardinality({r \in sample : 20 * r.ms < p95}) <= 19 * Cardinality(sample) + 1
           /\ \E a, b \in sample : 20 * a.ms <= p95 /\ p95 <= 20 * b.ms

\* org-search.ts: page after page shows every match of the mailboxes that answer
\* once and newest first, when none has more than the cap; and the total is theirs.
SearchPagesAll ==
  kind = "search" => \A answering \in SUBSET Accessible :
      LET count == orgSearch(answering, 1).total
          pages == 1..(count + PageSize - 1) \div PageSize
          found == FoldLeft(LAMBDA acc, p : acc \o orgSearch(answering, p).rows, <<>>,
                            [p \in pages |-> p])
          matching == {r \in mail : r.matches /\ r.mailbox \in answering}
      IN  /\ count = Cardinality(matching)
          /\ Range(found) \subseteq matching /\ IsInjective(found)
          /\ \A i \in 1..Len(found) - 1 :
               found[i + 1].at = None \/ (found[i].at # None /\ found[i].at >= found[i + 1].at)
          /\ (\A m \in answering : countSearchResults(m) <= SearchCap) => Range(found) = matching

\* A page shown counts every mailbox again a minute after the last failed call.
PagesRecover ==
  shown # None /\ now >= calm + Ttl =>
    LET p == shown.page
    IN  shown.key # "domains" =>
          p.openCases >= Cardinality({c \in DOMAIN cases :
            /\ cases[c].status = "open" /\ cases[c].at + Ttl <= now
            /\ shown.key = "overview" \/ DomainOf[c[1]] = shown.key})

DashboardsSound ==
  /\ NumbersReconcile /\ ThreatsAreReal /\ RecentAreNewest /\ BucketsPartition
  /\ PercentileBetween /\ SearchPagesAll /\ PagesRecover
=============================================================================
