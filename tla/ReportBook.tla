----------------------------- MODULE ReportBook -----------------------------
(***************************************************************************)
(* Machine reports that arrive as mail (workers/dmarc/*.ts, tlsrpt/*.ts):  *)
(* DMARC aggregate reports, TLS reports and DMARC failure reports are told *)
(* from mail, decoded and stored in the mailbox's object; the addresses in *)
(* an aggregate report are enriched afterwards, outside the answer.  What  *)
(* cannot be ingested goes on to the security pipeline.                    *)
(***************************************************************************)
EXTENDS Naturals, Integers, Sequences, SequencesExt, FiniteSets, FiniteSetsExt

CONSTANTS
  None,
  Inboxes,      \* the mail a behaviour may start from: message -> mail
  HostOf,       \* address -> its PTR name, None when it has none
  AsnOf,        \* address -> its network, None when unknown
  Provider,     \* host -> the provider it belongs to, None when unknown
  Invalid,      \* addresses that PATCH /sources refuses
  MaxBytes, MaxRecords, MaxCount,  \* 5 MB, 1000 and 1000000 in the code
  RufLimit,     \* 100 a minute in the code
  Window, DayLength, MaxTime, MaxFaults

VARIABLES
  mail,     \* the messages and what they hold
  pc,       \* how far each has come
  now,
  reports,  \* stored reports with their rows
  sources,  \* address -> row of dmarc_sources
  tasks,    \* message -> enrichment under way, or None
  ruf,      \* stored failure reports
  ghost,    \* what users marked and lookups answered
  faults

vars == <<mail, pc, now, reports, sources, tasks, ruf, ghost, faults>>

Messages == DOMAIN mail
Addresses == DOMAIN HostOf

(* --------------------------------------------------------------- decoding *)
\* A file: its extension and type, whether its name holds a `!', and its body:
\* None, or the sizes of the chunks it unpacks to, whether it unpacks, and the
\* document in it.

size(body) == FoldLeft(LAMBDA n, c : n + c, 0, body.chunks)

\* The chunks that are kept before the stream is stopped.
kept(chunks) ==
  LET upto(n) == FoldLeft(LAMBDA t, c : t + c, 0, SubSeq(chunks, 1, n))
  IN  Max({n \in 0..Len(chunks) : upto(n) <= MaxBytes})
gunzip(body) ==
  IF kept(body.chunks) < Len(body.chunks) THEN "over" ELSE IF ~body.sound THEN "throws" ELSE "text"
\* The TLS reports' gunzip unpacks everything before the size is looked at.
tlsGunzip(body) ==
  IF ~body.sound THEN "throws" ELSE IF size(body) > MaxBytes THEN "over" ELSE "text"

isDmarcReport(m) ==
  \/ m.from = "dmarc" \/ m.subject = "dmarc"
  \/ \E i \in DOMAIN m.files : LET f == m.files[i] IN
       f.ext \in {"xml.gz", "xml.zip"} \/ (f.mime \in {"gzip", "zip", "xml"} /\ f.bang)
isTlsRptReport(m) ==
  \/ m.subject = "tls"
  \/ \E i \in DOMAIN m.files : LET f == m.files[i] IN
       f.mime \in {"tls+gzip", "tls+json"} \/ f.ext \in {"tlsrpt.gz", "tlsrpt.json", "tlsrpt"}
isDmarcRuf(m) == \E i \in DOMAIN m.files : m.files[i].mime = "feedback"

dmarcGz(f) == f.ext = "xml.gz" \/ f.mime = "gzip"
tlsGz(f) == f.mime = "tls+gzip" \/ f.ext = "tlsrpt.gz"
tlsJson(f) == f.mime = "tls+json" \/ f.ext \in {"tlsrpt.json", "tlsrpt"}

\* What each loop over the files makes of one: skipped, or the loop ends.
dmarcText(f) ==
  IF f.body = None THEN "skip"
  ELSE IF dmarcGz(f) THEN gunzip(f.body) ELSE IF f.ext = "xml" THEN "text" ELSE "skip"
tlsText(f) ==
  IF f.body = None THEN "skip"
  ELSE IF tlsGz(f) THEN tlsGunzip(f.body)
  ELSE IF ~tlsJson(f) THEN "skip" ELSE IF size(f.body) > MaxBytes THEN "over" ELSE "text"
firstText(files, text(_)) ==
  LET ends == {i \in DOMAIN files : text(files[i]) \in {"text", "over"}}
  IN  IF ends = {} THEN None
      ELSE IF text(files[Min(ends)]) = "over" THEN None ELSE files[Min(ends)].body.doc

clampCount(n) == IF n = None THEN 0 ELSE Max({0, Min({MaxCount, n})})

\* Records without an address are skipped.
parseDmarcXml(doc) ==
  [domain |-> doc.domain,
   rows |-> LET rows == SelectSeq(doc.rows, LAMBDA r : r.ip # None)
            IN  [i \in DOMAIN rows |-> [rows[i] EXCEPT !.count = clampCount(@)]]]
dmarcOf(m) ==
  LET doc == firstText(m.files, dmarcText)
      report == parseDmarcXml(doc)
  IN  IF doc = None \/ report.domain = None THEN None
      ELSE [report EXCEPT !.rows = SubSeq(@, 1, Min({Len(@), MaxRecords}))]

\* A row per policy and one per failure detail; the domain is the first
\* policy's.
policyRow(p) ==
  [ip |-> None, mx |-> None, result |-> None, good |-> clampCount(p.good), bad |-> clampCount(p.bad)]
detailRows(p) ==
  [i \in DOMAIN p.details |-> [p.details[i] EXCEPT !.bad = clampCount(@)]]
parseTlsRptJson(doc) ==
  IF ~doc.json \/ (doc.policies = <<>> /\ ~doc.named) THEN None
  ELSE [domain |-> IF doc.policies = <<>> THEN None ELSE doc.policies[1].domain,
        rows |-> FlattenSeq([i \in DOMAIN doc.policies |->
                   <<policyRow(doc.policies[i])>> \o detailRows(doc.policies[i])])]
tlsOf(m) ==
  LET doc == firstText(m.files, tlsText)
      report == IF doc = None THEN None ELSE parseTlsRptJson(doc)
  IN  IF report = None THEN None ELSE IF report.domain = None THEN None ELSE report

\* Header lines; the continuation of a folded one has no name of its own.
Personal == {"To", "Cc", "Bcc", "Subject"}
redactHeaders(lines) ==
  [i \in DOMAIN lines |-> IF lines[i].name \in Personal THEN [lines[i] EXCEPT !.text = "redacted"] ELSE lines[i]]
\* A part that is too large refuses the report; empty parts are passed over.
parseDmarcRuf(files, retainRaw) ==
  LET has(mime) == {i \in DOMAIN files : files[i].mime = mime /\ files[i].body # None}
  IN  IF \E i \in DOMAIN files : files[i].body # None /\ size(files[i].body) > MaxBytes THEN None
      ELSE IF has("feedback") = {} THEN None
      ELSE [fields |-> files[Min(has("feedback"))].body.doc,
            headers |-> IF ~retainRaw \/ has("rfc822") = {} THEN None
                        ELSE redactHeaders(files[Min(has("rfc822"))].body.doc)]

(* ---------------------------------------------------------------- storing *)

stored(how, m, report) ==
  [how |-> how, id |-> m, at |-> now, domain |-> report.domain, rows |-> report.rows]
ipsOf(report) == {report.rows[i].ip : i \in DOMAIN report.rows}
blankSource == [label |-> None, legitimate |-> FALSE, asn |-> None]
rowOf(ip) == IF ip \in DOMAIN sources THEN sources[ip] ELSE blankSource
getNewDmarcSourceIps(report) == {ip \in ipsOf(report) : rowOf(ip).label = None}
goTo(m, where) == pc' = [pc EXCEPT ![m] = where]
fault == faults < MaxFaults /\ faults' = faults + 1

\* Both tables and the start of the enrichment, in one call of the object.
insertDmarcReport(m, report) ==
  /\ reports' = reports \cup {stored("dmarc", m, report)}
  /\ tasks' = IF report.rows = <<>> THEN tasks
              ELSE [tasks EXCEPT ![m] =
                     [todo |-> getNewDmarcSourceIps(report), all |-> ipsOf(report),
                      had |-> None, geo |-> {}]]
insertTlsRptReport(m, report) ==
  reports' = reports \cup {stored("tls", m, report)} /\ UNCHANGED tasks

\* One try of the three: what was ingested is moved to the archive and that is
\* all; a call that fails, also the move, or rows that cannot be written after
\* the report's, leave the message to the next.
try(m, report, insert(_, _), how, next) ==
  \/ /\ report = None /\ goTo(m, next) /\ UNCHANGED <<reports, tasks, faults>>
  \/ /\ report # None /\ insert(m, report)
     /\ goTo(m, "diverted") /\ UNCHANGED faults
  \/ /\ report # None /\ insert(m, report)
     /\ fault /\ goTo(m, next)
  \/ /\ report # None /\ fault /\ goTo(m, next) /\ UNCHANGED tasks
     /\ \/ UNCHANGED reports
        \/ reports' = reports \cup {stored(how, m, [report EXCEPT !.rows = <<>>])}

ingestDmarcReport(m) ==
  /\ pc[m] = "new"
  /\ try(m, IF isDmarcReport(mail[m]) THEN dmarcOf(mail[m]) ELSE None, insertDmarcReport, "dmarc", "tls")
  /\ UNCHANGED <<mail, now, sources, ruf, ghost>>
ingestTlsRptReport(m) ==
  /\ pc[m] = "tls"
  /\ try(m, IF isTlsRptReport(mail[m]) THEN tlsOf(mail[m]) ELSE None, insertTlsRptReport, "tls", "ruf")
  /\ UNCHANGED <<mail, now, sources, ruf, ghost>>

\* ingestDmarcRuf: the last minute's reports are counted, then this one is
\* stored, in two calls.
waiting == {m \in Messages : pc[m] = "counted"}
recentRuf == {r \in ruf : r.at >= now - Window}
countRuf(m) ==
  /\ pc[m] = "ruf"
  /\ LET accepted == /\ isDmarcRuf(mail[m]) /\ mail[m].ruf.enabled
                     /\ Cardinality(recentRuf) < RufLimit
                     /\ parseDmarcRuf(mail[m].files, mail[m].ruf.retain) # None
     IN  /\ goTo(m, IF accepted THEN "counted" ELSE "passed")
         /\ ghost' = IF accepted THEN [ghost EXCEPT !.together = Max({@, Cardinality(waiting) + 1})]
                     ELSE ghost
  /\ UNCHANGED <<mail, now, reports, sources, tasks, ruf, faults>>
insertDmarcRufRecord(m) ==
  /\ pc[m] = "counted"
  /\ \/ /\ ruf' = ruf \cup {[id |-> m, at |-> now,
                              row |-> parseDmarcRuf(mail[m].files, mail[m].ruf.retain)]}
        /\ \/ goTo(m, "diverted") /\ UNCHANGED faults
           \/ goTo(m, "passed") /\ fault
     \/ fault /\ goTo(m, "passed") /\ UNCHANGED ruf
  /\ UNCHANGED <<mail, now, reports, sources, tasks, ghost>>

(* -------------------------------------------------------------- enriching *)

put(ip, row) == sources' = [i \in DOMAIN sources \cup {ip} |-> IF i = ip THEN row ELSE sources[i]]
\* resolvePtr and lookupIpGeo answer None for every failure.
resolvePtr(ip) == {None, HostOf[ip]}
lookupIpGeo(ip) == {None, AsnOf[ip]}
buildDmarcSourceLabel(host) ==
  IF host = None THEN None ELSE IF Provider[host] # None THEN Provider[host] ELSE host

\* One address after the other, in any order; a label once known stays.
enrichDmarcSources(m) ==
  /\ tasks[m] # None
  /\ \E ip \in tasks[m].todo : \E host \in resolvePtr(ip) :
       /\ put(ip, [rowOf(ip) EXCEPT !.label = IF @ # None THEN @ ELSE buildDmarcSourceLabel(host)])
       /\ ghost' = IF host = None THEN ghost ELSE [ghost EXCEPT !.named = @ \cup {ip}]
       /\ tasks' = [tasks EXCEPT ![m].todo = @ \ {ip}]
  /\ UNCHANGED <<mail, pc, now, reports, ruf, faults>>

finished(m, task) == tasks' = [tasks EXCEPT ![m] = IF task.geo = {} THEN None ELSE task]
\* Then the rows are read that lack a network, to be looked up all at once.
startGeo(m) ==
  /\ tasks[m] # None
  /\ tasks[m].todo = {} /\ tasks[m].had = None
  /\ LET need == {ip \in tasks[m].all : rowOf(ip).asn = None}
         others == UNION {tasks[o].geo : o \in {x \in Messages \ {m} : tasks[x] # None}}
     IN  /\ finished(m, [tasks[m] EXCEPT !.had = DOMAIN sources, !.geo = need])
         /\ ghost' = [ghost EXCEPT !.lapped = @ \cup (need \cap others)]
  /\ UNCHANGED <<mail, pc, now, reports, sources, ruf, faults>>
\* Each answer updates the row that was there then, or adds one if none is.
enrichDmarcSourcesGeo(m, ip) ==
  /\ tasks[m] # None
  /\ ip \in tasks[m].geo
  /\ \E asn \in lookupIpGeo(ip) :
       /\ IF ip \in tasks[m].had THEN put(ip, [rowOf(ip) EXCEPT !.asn = asn])
          ELSE IF ip \notin DOMAIN sources THEN put(ip, [blankSource EXCEPT !.asn = asn])
          ELSE UNCHANGED sources
       /\ ghost' = IF asn = None THEN ghost ELSE [ghost EXCEPT !.placed = @ \cup {ip}]
  /\ finished(m, [tasks[m] EXCEPT !.geo = @ \ {ip}])
  /\ UNCHANGED <<mail, pc, now, reports, ruf, faults>>

\* The object is evicted, and the enrichment with it.
evict(m) ==
  /\ tasks[m] # None /\ fault
  /\ tasks' = [tasks EXCEPT ![m] = None]
  /\ UNCHANGED <<mail, pc, now, reports, sources, ruf, ghost>>

setSourceLegitimate(ip, to) ==
  /\ ip \notin Invalid
  /\ put(ip, [rowOf(ip) EXCEPT !.legitimate = to])
  /\ ghost' = [ghost EXCEPT !.marked = IF to THEN @ \cup {ip} ELSE @ \ {ip}]
  /\ UNCHANGED <<mail, pc, now, reports, tasks, ruf, faults>>

Tick ==
  /\ now < MaxTime /\ now' = now + 1
  /\ UNCHANGED <<mail, pc, reports, sources, tasks, ruf, ghost, faults>>

Init ==
  /\ mail \in Inboxes
  /\ pc = [m \in Messages |-> "new"]
  /\ now = 0 /\ reports = {} /\ sources = << >> /\ ruf = {} /\ faults = 0
  /\ tasks = [m \in Messages |-> None]
  /\ ghost = [named |-> {}, placed |-> {}, lapped |-> {}, marked |-> {}, together |-> 0]

Next ==
  \/ Tick
  \/ \E m \in Messages :
       \/ ingestDmarcReport(m) \/ ingestTlsRptReport(m) \/ countRuf(m) \/ insertDmarcRufRecord(m)
       \/ enrichDmarcSources(m) \/ startGeo(m) \/ evict(m)
       \/ \E ip \in Addresses : enrichDmarcSourcesGeo(m, ip)
  \/ \E ip \in Addresses, to \in BOOLEAN : setSourceLegitimate(ip, to)

Spec == Init /\ [][Next]_vars

(* ---------------------------------------------------------------- reading *)

within(how, domain, since) ==
  UNION {{[at |-> r.at, row |-> r.rows[i], key |-> <<r.id, i>>] : i \in DOMAIN r.rows} :
           r \in {x \in reports : x.how = how /\ x.domain = domain /\ x.at >= since}}
aligned(row) == row.dkim = "pass" \/ row.spf = "pass"
count(rows) == MapThenSumSet(LAMBDA x : x.row.count, rows)
countIf(rows, test(_)) == count({x \in rows : test(x.row)})

\* The 200 sources a summary lists are not reached here.
getDmarcSummary(domain, since) ==
  LET rows == within("dmarc", domain, since)
  IN  {[ip |-> ip, total |-> countIf(rows, LAMBDA r : r.ip = ip),
        pass |-> countIf(rows, LAMBDA r : r.ip = ip /\ aligned(r)),
        label |-> rowOf(ip).label, asn |-> rowOf(ip).asn, legitimate |-> rowOf(ip).legitimate] :
          ip \in {x.row.ip : x \in rows}}
getDmarcAlignmentTotals(domain, since) ==
  LET rows == within("dmarc", domain, since)
  IN  [total |-> count(rows), aligned |-> countIf(rows, aligned)]
getDmarcRollup(since) ==
  {[domain |-> d, total |-> count(within("dmarc", d, since)),
    aligned |-> countIf(within("dmarc", d, since), aligned),
    failing |-> countIf(within("dmarc", d, since), LAMBDA r : r.disposition \in {"quarantine", "reject"})] :
      d \in {r.domain : r \in {x \in reports : x.how = "dmarc" /\ x.at >= since /\ x.rows # <<>>}}}
\* A result that is missing is neither equal to `pass' nor different from it.
getDmarcTimeSeries(domain, since) ==
  LET rows == within("dmarc", domain, since)
      day(x) == x.at \div DayLength
      failed(r) == r.dkim \notin {None, "pass"} /\ r.spf \notin {None, "pass"}
  IN  {[day |-> d, aligned |-> countIf({x \in rows : day(x) = d}, aligned),
        failing |-> countIf({x \in rows : day(x) = d}, failed)] : d \in {day(x) : x \in rows}}
getTlsRptSummary(domain) ==
  LET rows == within("tls", domain, 0)
      of(g) == {x \in rows : <<x.row.ip, x.row.mx>> = g}
  IN  {[group |-> g, good |-> MapThenSumSet(LAMBDA x : x.row.good, of(g)),
        bad |-> MapThenSumSet(LAMBDA x : x.row.bad, of(g))] :
          g \in {<<x.row.ip, x.row.mx>> : x \in rows}}
getTlsRptFailureRollup(domain) ==
  LET rows == {x \in within("tls", domain, 0) : x.row.result # None}
  IN  {[result |-> t, bad |-> MapThenSumSet(LAMBDA x : x.row.bad, {y \in rows : y.row.result = t})] :
          t \in {x.row.result : x \in rows}}
\* The rate of the dashboard, per cent, over the mailboxes that answered.
reduceDmarcAlignmentRate(totals) ==
  LET all == MapThenSumSet(LAMBDA t : t.total, totals)
  IN  IF all = 0 THEN None
      ELSE Min({100, (100 * MapThenSumSet(LAMBDA t : t.aligned, totals)) \div all})

(* ------------------------------------------------------------- properties *)

TypeOK ==
  /\ now \in 0..MaxTime /\ faults \in 0..MaxFaults
  /\ \A m \in Messages : pc[m] \in {"new", "tls", "ruf", "counted", "diverted", "passed"}
  /\ DOMAIN tasks = Messages /\ DOMAIN sources \subseteq Addresses
  /\ \A r \in reports : r.how \in {"dmarc", "tls"} /\ r.id \in Messages /\ r.at \in 0..now
  /\ \A r \in ruf : r.id \in Messages /\ r.at \in 0..now

\* workers/index.ts:1832-1885: a message kept from the security pipeline is
\* stored as a report, whole up to the cap on its records; whatever failed on
\* the way, it is not lost between the two.
whole(r) ==
  LET report == IF r.how = "dmarc" THEN dmarcOf(mail[r.id]) ELSE tlsOf(mail[r.id])
  IN  IF report = None THEN FALSE ELSE r.rows = report.rows
DivertedIsStored ==
  \A m \in Messages : pc[m] = "diverted" =>
    \/ \E r \in reports : r.id = m /\ whole(r)
    \/ \E r \in ruf : r.id = m

\* parser.ts:61: the stream is stopped before more than the cap is held, and
\* what is read is what was sent.
UnpackBounded ==
  \A m \in Messages : \A i \in DOMAIN mail[m].files :
    LET b == mail[m].files[i].body
    IN  b # None =>
          /\ FoldLeft(LAMBDA t, c : t + c, 0, SubSeq(b.chunks, 1, kept(b.chunks))) <= MaxBytes
          /\ gunzip(b) = "text" <=> (b.sound /\ size(b) <= MaxBytes)

\* Summary, rollup, time series and totals, four queries over the same rows,
\* tell the same numbers; a record that lacks a result is the only one missing
\* among the failing of the time series.
NumbersAgree ==
  \A d \in {r.domain : r \in reports}, since \in 0..now :
    LET t == getDmarcAlignmentTotals(d, since)
        summary == getDmarcSummary(d, since)
        series == getDmarcTimeSeries(d, since)
        failing == MapThenSumSet(LAMBDA x : x.failing, series)
    IN  /\ MapThenSumSet(LAMBDA x : x.total, summary) = t.total
        /\ MapThenSumSet(LAMBDA x : x.pass, summary) = t.aligned
        /\ MapThenSumSet(LAMBDA x : x.aligned, series) = t.aligned
        /\ failing <= t.total - t.aligned
        /\ (\A x \in within("dmarc", d, since) : x.row.dkim # None /\ x.row.spf # None) =>
             failing = t.total - t.aligned
        /\ \A x \in getDmarcRollup(since) : x.domain = d => x.total = t.total /\ x.aligned = t.aligned
        /\ reduceDmarcAlignmentRate({t}) = None <=> t.total = 0

\* A source's label is known exactly when a lookup ever told it, a user's mark
\* stays as it was set, and a network once found is only lost to a lookup of
\* another report that was under way at the same time, however enrichments of
\* several reports, evictions and marks interleave.
SourcesKept ==
  \A ip \in Addresses :
    /\ rowOf(ip).label # None <=> ip \in ghost.named
    /\ rowOf(ip).legitimate <=> ip \in ghost.marked
    /\ rowOf(ip).asn \in {None, AsnOf[ip]}
    /\ ip \in ghost.placed \ ghost.lapped => rowOf(ip).asn # None

\* ingest.ts:127: the reports of one window, with those about to be stored,
\* exceed the limit only by as many as were counted together; nothing is stored for a mailbox that did not ask, nor
\* headers it did not ask for, nor the value of a personal header.
RufBounded ==
  /\ Cardinality(recentRuf) + Cardinality(waiting) <= RufLimit + Max({0, ghost.together - 1})
  /\ \A r \in ruf : LET m == mail[r.id] IN
       /\ m.ruf.enabled /\ (r.row.headers # None => m.ruf.retain)
       /\ r.row.headers # None => \A i \in DOMAIN r.row.headers :
            r.row.headers[i].name \in Personal => r.row.headers[i].text = "redacted"

\* The sessions of a TLS report are each counted once, successes over all
\* groups and failures by result; a policy's failures and their details are
\* both among a summary's failures.
TlsCounted ==
  \A d \in {r.domain : r \in reports} :
    LET rows == within("tls", d, 0)
        summary == getTlsRptSummary(d)
    IN  /\ MapThenSumSet(LAMBDA x : x.good, summary) = MapThenSumSet(LAMBDA x : x.row.good, rows)
        /\ MapThenSumSet(LAMBDA x : x.bad, summary) = MapThenSumSet(LAMBDA x : x.row.bad, rows)
        /\ MapThenSumSet(LAMBDA x : x.bad, getTlsRptFailureRollup(d))
             <= MapThenSumSet(LAMBDA x : x.bad, summary)

ReportsKept ==
  /\ DivertedIsStored /\ UnpackBounded /\ NumbersAgree /\ SourcesKept /\ RufBounded /\ TlsCounted
=============================================================================
