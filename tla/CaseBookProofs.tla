--------------------------- MODULE CaseBookProofs ---------------------------
(***************************************************************************)
(* What holds of cases for any emails, cases, requests and domains: a      *)
(* pending summary has its job, a shared case is one the hub holds, and    *)
(* what is submitted to Cloudflare one at a time is counted.  Then of the  *)
(* client's cache, the tiers of settings and the notice of new mail.       *)
(***************************************************************************)
EXTENDS CaseBook, FiniteSetTheorems, TLAPS

Asked == [pc : {"create", "flag", "post", "note"}, email : Emails, case : Cases \cup {None}]
Late == {"putDomain", "list", "putList", "count", "putCount"}
Sending == [pc : {"labels", "domain", "cap", "send"} \cup Late, case : Cases, domain : Domains,
            email : Emails \cup {None}, seen : SUBSET Domains, count : Nat]
Keys == [domains : SUBSET Domains, list : [Cases -> SUBSET Domains], count : Nat]
Page == [case : Cases \cup {None}, shows : Rows \cup {None}, timer : BOOLEAN,
         loading : BOOLEAN, polls : 0..MaxPolls]

\* What the constants are: None is nothing else, an email has finitely many
\* domains of those there are, and the bounds are numbers.
Constants ==
  /\ None \notin Emails \cup Cases \cup Rows \cup Asked \cup Sending \cup {"pending"}
  /\ DomainsOf \in [Emails -> SUBSET Domains] /\ IsFiniteSet(Domains)
  /\ Cap \in Nat /\ MaxPolls \in Nat

(* ---------------------------------------------------------- the invariant --- *)

ServerTyped ==
  /\ stored \subseteq Emails /\ notPhish \subseteq stored /\ flagged \subseteq Emails
  /\ book \in [Cases -> Rows \cup {None}]
  /\ job \in [Cases -> {"none", "queued", "asked", "done", "lost"}]
  /\ report \in [Reports -> Asked \cup {None}] /\ hub \subseteq Cases

CloudTyped ==
  /\ sub \in [Submissions -> Sending \cup {None}] /\ kv \in Keys
  /\ accepted \in [Domains -> Nat] /\ disturbed \in BOOLEAN

PageTyped == page \in Page /\ (page.loading \/ page.timer => page.case \in Cases)

Typed == ServerTyped /\ CloudTyped /\ PageTyped

\* From its create on a report knows its case, and it notes on the case that
\* it is shared only when the hub has stored it.
ReportFits ==
  \A r \in Reports : report[r] # None =>
    /\ report[r].pc # "create" => report[r].case \in Cases
    /\ report[r].pc = "note" => report[r].case \in hub

Served == PendingHasJob /\ SharedIsHeld /\ ReportFits

\* As long as nothing is disturbed one submission is under way, and
Serial == \A s, t \in Submissions : sub[s] # None /\ sub[t] # None => s = t

\* what it has checked or read is still so,
Fresh(s) ==
  sub[s] # None =>
    /\ sub[s].pc \in {"cap", "send"} => sub[s].domain \notin kv.domains
    /\ sub[s].pc = "send" => kv.count < Cap
    /\ sub[s].pc \in Late => accepted[sub[s].domain] = 1
    /\ sub[s].pc = "putList" => sub[s].seen = kv.list[sub[s].case]
    /\ sub[s].pc \in {"count", "putCount"} => sub[s].domain \in kv.list[sub[s].case]
    /\ sub[s].pc = "putCount" => sub[s].count = kv.count

\* each domain accepted is on record but for what it has still to write,
Writes(s, pcs, d) == sub[s] # None /\ sub[s].pc \in pcs /\ sub[s].domain = d
Recorded(d) ==
  accepted[d] = 1 =>
    /\ d \in kv.domains \/ \E s \in Submissions : Writes(s, {"putDomain"}, d)
    /\ \/ \E c \in Cases : d \in kv.list[c]
       \/ \E s \in Submissions : Writes(s, {"putDomain", "list", "putList"}, d)

\* and the count is behind by that one at most.
Sent == {d \in Domains : accepted[d] = 1}
Underway == \E s \in Submissions : sub[s] # None /\ sub[s].pc \in Late
Behind ==
  /\ Cardinality(Sent) <= Cap
  /\ Cardinality(Sent) <= IF Underway THEN kv.count + 1 ELSE kv.count

Counted ==
  ~disturbed =>
    /\ Serial /\ \A s \in Submissions : Fresh(s)
    /\ \A d \in Domains : accepted[d] <= 1 /\ Recorded(d)
    /\ Behind

IInv == Typed /\ Served /\ Counted

(* ------------------------------------------------------------------ steps --- *)

\* The steps of the mailbox, of the submissions and of the page.
CaseStep(c) ==
  \/ createCase(c, None, Domains) \/ \E e \in stored : createCase(c, e, Domains)
  \/ \E s \in Statuses : setStatus(c, s)
  \/ deleteCase(c) \/ startSummary(c) \/ summaryAnswers(c) \/ summaryLost(c)
EmailStep(e) == deleteEmail(e) \/ markNotPhish(e)
ReportStep(r) ==
  \/ \E e \in Emails : reportPhish(r, e)
  \/ \E c \in Cases : reportCreates(r, c)
  \/ reportFlags(r) \/ reportPosts(r) \/ reportNotes(r)
ServerStep ==
  \/ \E c \in Cases : CaseStep(c)
  \/ \E e \in Emails : EmailStep(e)
  \/ \E r \in Reports : ReportStep(r)
CloudStep(s) ==
  \/ \E c \in Cases, d \in Domains : submitCloudflare(s, c, d)
  \/ submissionStep(s) \/ submissionLost(s)
PageStep == pageLoads \/ pollTimer \/ \E c \in Cases : openPage(c)

LEMMA NextSteps == Next <=> ServerStep \/ (\E s \in Submissions : CloudStep(s)) \/ PageStep
BY DEF Next, ServerStep, CloudStep, PageStep, CaseStep, EmailStep, ReportStep

(* ---------------------------------------------------------------- the rows --- *)

\* What an edit of a row keeps.
LEMMA ChangedRow ==
  ASSUME NEW row \in Rows
  PROVE  /\ changed(row) \in Rows /\ changed(row).email = row.email
         /\ changed(row).summary = row.summary /\ changed(row).shared = row.shared
BY DEF changed, Rows

LEMMA EditedRow ==
  ASSUME NEW row \in Rows
  PROVE  /\ \A s \in Statuses : LET r == [row EXCEPT !.status = s]
              IN r \in Rows /\ r.summary = row.summary /\ r.shared = row.shared
         /\ \A s \in {"ready", "failed"} : LET r == [row EXCEPT !.summary = s]
              IN r \in Rows /\ r.summary = s /\ r.shared = row.shared
         /\ LET r == [row EXCEPT !.shared = TRUE]
            IN r \in Rows /\ r.summary = row.summary /\ r.shared
BY DEF Rows

LEMMA FirstRow ==
  ASSUME Constants, NEW e \in Emails \cup {None}, NEW ds \in SUBSET Domains
  PROVE  /\ newRow(e, ds) \in Rows /\ ~newRow(e, ds).shared
         /\ newRow(e, ds).summary = "pending" => e # None
BY DEF newRow, Rows, Constants, Statuses

(* ------------------------------------------------------------ the mailbox --- *)

\* A step of the mailbox leaves the submissions and the page alone.
LEMMA ServerFrame ==
  ASSUME ServerStep
  PROVE  UNCHANGED <<sub, kv, accepted, disturbed, page>>
<1>1. ASSUME NEW c \in Cases, CaseStep(c) PROVE UNCHANGED <<sub, kv, accepted, disturbed, page>>
    BY <1>1 DEF CaseStep, createCase, setStatus, deleteCase, startSummary, summaryAnswers,
                summaryLost, cloud
<1>2. ASSUME NEW e \in Emails, EmailStep(e) PROVE UNCHANGED <<sub, kv, accepted, disturbed, page>>
    BY <1>2 DEF EmailStep, deleteEmail, markNotPhish, cloud
<1>3. ASSUME NEW r \in Reports, ReportStep(r) PROVE UNCHANGED <<sub, kv, accepted, disturbed, page>>
    BY <1>3 DEF ReportStep, reportPhish, reportCreates, reportFlags, reportPosts, reportNotes, cloud
<1> QED BY <1>1, <1>2, <1>3 DEF ServerStep

\* What the steps of the mailbox are to prove, apart from the reports.
Kept == ServerTyped' /\ PendingHasJob' /\ SharedIsHeld'

\* A new case has the job its pending summary needs, and is not shared yet.
LEMMA CreateKeeps ==
  ASSUME Constants, ServerTyped, PendingHasJob, SharedIsHeld, hub' = hub,
         NEW c \in Cases, NEW e \in Emails \cup {None}, NEW ds \in SUBSET Domains, create(c, e, ds)
  PROVE  /\ book' \in [Cases -> Rows \cup {None}]
         /\ job' \in [Cases -> {"none", "queued", "asked", "done", "lost"}]
         /\ PendingHasJob' /\ SharedIsHeld'
<1> DEFINE row == newRow(e, ds)
<1>1. row \in Rows /\ ~row.shared /\ (row.summary = "pending" => e # None)
    BY FirstRow
<1>2. book' = [book EXCEPT ![c] = row]
    BY DEF create
<1>3. job' = [job EXCEPT ![c] = IF e = None THEN "none" ELSE "queued"]
    BY DEF create
<1> HIDE DEF row
<1>4. book' \in [Cases -> Rows \cup {None}]
    BY <1>1, <1>2 DEF ServerTyped
<1>5. job' \in [Cases -> {"none", "queued", "asked", "done", "lost"}]
    BY <1>3 DEF ServerTyped
<1>6. PendingHasJob'
    BY <1>1, <1>2, <1>3 DEF ServerTyped, PendingHasJob
<1>7. SharedIsHeld'
    BY <1>1, <1>2 DEF ServerTyped, SharedIsHeld
<1> QED BY <1>4, <1>5, <1>6, <1>7

\* An edit of one row that keeps or settles its summary and what it shares.
LEMMA EditKeeps ==
  ASSUME ServerTyped, PendingHasJob, SharedIsHeld, hub' = hub,
         NEW c \in Cases, NEW row \in Rows, book[c] # None, book' = [book EXCEPT ![c] = row],
         job' \in [Cases -> {"none", "queued", "asked", "done", "lost"}],
         \A d \in Cases \ {c} : job'[d] = job[d],
         row.summary = "pending" => job'[c] \in {"queued", "asked", "lost"},
         row.shared => book[c].shared \/ c \in hub
  PROVE  book' \in [Cases -> Rows \cup {None}] /\ PendingHasJob' /\ SharedIsHeld'
<1>1. book' \in [Cases -> Rows \cup {None}]
    BY DEF ServerTyped
<1>2. PendingHasJob'
    BY DEF ServerTyped, PendingHasJob
<1>3. SharedIsHeld'
    BY DEF ServerTyped, SharedIsHeld
<1> QED BY <1>1, <1>2, <1>3

\* The summary job settles the row it finds, if it finds one.
LEMMA FinalizeKeeps ==
  ASSUME Constants, ServerTyped, PendingHasJob, SharedIsHeld, hub' = hub,
         NEW c \in Cases, NEW s \in {"ready", "failed"}, finalize(c, s),
         job' = [job EXCEPT ![c] = "done"]
  PROVE  /\ book' \in [Cases -> Rows \cup {None}]
         /\ job' \in [Cases -> {"none", "queued", "asked", "done", "lost"}]
         /\ PendingHasJob' /\ SharedIsHeld'
<1>1. job' \in [Cases -> {"none", "queued", "asked", "done", "lost"}]
    BY DEF ServerTyped
<1>2. CASE book[c] = None
    <2>1. book' = book
        BY <1>2 DEF finalize
    <2>2. PendingHasJob'
        BY <1>2, <2>1 DEF PendingHasJob, ServerTyped
    <2> QED BY <1>1, <2>1, <2>2 DEF ServerTyped, SharedIsHeld
<1>3. CASE book[c] # None
    <2> DEFINE mid == [book[c] EXCEPT !.summary = s]
               row == changed(mid)
    <2>1. book[c] \in Rows
        BY <1>3 DEF ServerTyped
    <2>2. mid \in Rows /\ mid.summary = s /\ mid.shared = book[c].shared
        BY <2>1, EditedRow
    <2> HIDE DEF mid
    <2>3. row \in Rows /\ row.summary = s /\ row.shared = book[c].shared
        BY <2>2, ChangedRow
    <2>4. book' = [book EXCEPT ![c] = row]
        BY <1>3 DEF finalize, mid, row
    <2> HIDE DEF row
    <2>5. \A d \in Cases \ {c} : job'[d] = job[d]
        BY DEF ServerTyped
    <2> QED BY <1>1, <1>3, <2>3, <2>4, <2>5, EditKeeps
<1> QED BY <1>2, <1>3

LEMMA CaseKeeps ==
  ASSUME Constants, ServerTyped, PendingHasJob, SharedIsHeld, NEW c \in Cases, CaseStep(c)
  PROVE  Kept /\ UNCHANGED <<report, hub>>
<1> USE DEF Kept
<1>0. ASSUME NEW e \in Emails \cup {None}, createCase(c, e, Domains)
      PROVE  Kept /\ UNCHANGED <<report, hub>>
    <2>1. UNCHANGED <<stored, notPhish, report, flagged, hub>>
        BY <1>0 DEF createCase
    <2>2. create(c, e, Domains) /\ Domains \in SUBSET Domains
        BY <1>0 DEF createCase
    <2> QED BY <1>0, <2>1, <2>2, CreateKeeps DEF ServerTyped
<1>1. ASSUME NEW s \in Statuses, setStatus(c, s) PROVE Kept /\ UNCHANGED <<report, hub>>
    <2> DEFINE mid == [book[c] EXCEPT !.status = s]
               row == changed(mid)
    <2>0. UNCHANGED <<stored, notPhish, job, report, flagged, hub>> /\ book[c] # None
        BY <1>1 DEF setStatus
    <2>1. book[c] \in Rows
        BY <2>0 DEF ServerTyped
    <2>2. mid \in Rows /\ mid.summary = book[c].summary /\ mid.shared = book[c].shared
        BY <2>1, EditedRow
    <2> HIDE DEF mid
    <2>3. row \in Rows /\ row.summary = book[c].summary /\ row.shared = book[c].shared
        BY <2>2, ChangedRow
    <2>4. book' = [book EXCEPT ![c] = row]
        BY <1>1 DEF setStatus, mid, row
    <2> HIDE DEF row
    <2>5. row.summary = "pending" => job'[c] \in {"queued", "asked", "lost"}
        BY <2>0, <2>3 DEF PendingHasJob
    <2>6. job' \in [Cases -> {"none", "queued", "asked", "done", "lost"}]
        BY <2>0 DEF ServerTyped
    <2>7. book' \in [Cases -> Rows \cup {None}] /\ PendingHasJob' /\ SharedIsHeld'
        BY <2>0, <2>3, <2>4, <2>5, <2>6, EditKeeps
    <2> QED BY <2>0, <2>7 DEF ServerTyped
<1>2. CASE deleteCase(c)
    <2>1. UNCHANGED <<stored, notPhish, job, report, flagged, hub>>
          /\ book' = [book EXCEPT ![c] = None]
        BY <1>2 DEF deleteCase
    <2> QED BY <2>1 DEF ServerTyped, PendingHasJob, SharedIsHeld
<1>3. CASE startSummary(c)
    <2>0. UNCHANGED <<stored, notPhish, report, flagged, hub>> /\ job[c] = "queued"
        BY <1>3 DEF startSummary
    <2>1. CASE job' = [job EXCEPT ![c] = "asked"] /\ UNCHANGED book
        BY <2>0, <2>1 DEF ServerTyped, PendingHasJob, SharedIsHeld
    <2>2. CASE job' = [job EXCEPT ![c] = "done"] /\ finalize(c, "failed")
        BY <2>0, <2>2, FinalizeKeeps DEF ServerTyped
    <2> QED BY <1>3, <2>1, <2>2 DEF startSummary
<1>4. CASE summaryAnswers(c)
    <2>0. UNCHANGED <<stored, notPhish, report, flagged, hub>>
          /\ job' = [job EXCEPT ![c] = "done"]
        BY <1>4 DEF summaryAnswers
    <2>1. PICK s \in {"ready", "failed"} : finalize(c, s)
        BY <1>4 DEF summaryAnswers
    <2> QED BY <2>0, <2>1, FinalizeKeeps DEF ServerTyped
<1>5. CASE summaryLost(c)
    <2>1. UNCHANGED <<stored, notPhish, book, report, flagged, hub>>
          /\ job' = [job EXCEPT ![c] = "lost"]
        BY <1>5 DEF summaryLost
    <2> QED BY <2>1 DEF ServerTyped, PendingHasJob, SharedIsHeld
<1> QED BY <1>0, <1>1, <1>2, <1>3, <1>4, <1>5 DEF CaseStep, ServerTyped

LEMMA EmailKeeps ==
  ASSUME ServerTyped, PendingHasJob, SharedIsHeld, NEW e \in Emails, EmailStep(e)
  PROVE  Kept /\ UNCHANGED <<report, hub>>
BY DEF EmailStep, deleteEmail, markNotPhish, Kept, ServerTyped, PendingHasJob, SharedIsHeld

(* ------------------------------------------------------------- the reports --- *)

\* A step of one report is judged by what the request then has in hand.
Fits(a) ==
  /\ a \in Asked
  /\ a.pc # "create" => a.case \in Cases
  /\ a.pc = "note" => a.case \in hub'

LEMMA ReportMoves ==
  ASSUME ServerTyped, ReportFits, NEW r \in Reports, NEW a,
         report' = [report EXCEPT ![r] = a], a = None \/ Fits(a), hub \subseteq hub'
  PROVE  report' \in [Reports -> Asked \cup {None}] /\ ReportFits'
<1>1. report' \in [Reports -> Asked \cup {None}]
    BY DEF ServerTyped, Fits
<1>2. ASSUME NEW q \in Reports, report'[q] # None
      PROVE  /\ report'[q].pc # "create" => report'[q].case \in Cases
             /\ report'[q].pc = "note" => report'[q].case \in hub'
    <2>1. CASE q = r
        BY <1>2, <2>1 DEF ServerTyped, Fits
    <2>2. CASE q # r
        <3>1. report'[q] = report[q]
            BY <2>2 DEF ServerTyped
        <3> QED BY <1>2, <3>1 DEF ReportFits
    <2> QED BY <2>1, <2>2
<1> QED BY <1>1, <1>2 DEF ReportFits

LEMMA ReportKeeps ==
  ASSUME Constants, ServerTyped, Served, NEW r \in Reports, ReportStep(r)
  PROVE  ServerTyped' /\ Served'
<1> DEFINE a == report[r]
<1>0. a # None => /\ a \in Asked
                  /\ a.pc # "create" => a.case \in Cases
                  /\ a.pc = "note" => a.case \in hub
    BY DEF ServerTyped, Served, ReportFits
<1>1. ASSUME NEW e \in Emails, reportPhish(r, e) PROVE ServerTyped' /\ Served'
    <2> DEFINE b == [pc |-> "create", email |-> e, case |-> None]
    <2>1. UNCHANGED <<stored, notPhish, book, job, flagged, hub>>
          /\ report' = [report EXCEPT ![r] = b]
        BY <1>1 DEF reportPhish
    <2>2. Fits(b)
        BY DEF Fits, Asked
    <2> HIDE DEF b
    <2>3. report' \in [Reports -> Asked \cup {None}] /\ ReportFits'
        BY <2>1, <2>2, ReportMoves DEF Served
    <2> QED BY <2>1, <2>3 DEF ServerTyped, Served, PendingHasJob, SharedIsHeld
<1>2. ASSUME NEW c \in Cases, reportCreates(r, c) PROVE ServerTyped' /\ Served'
    <2> DEFINE b == [a EXCEPT !.pc = "flag", !.case = c]
    <2>1. /\ UNCHANGED <<stored, notPhish, flagged, hub>> /\ a # None
          /\ create(c, a.email, DomainsOf[a.email])
          /\ report' = [report EXCEPT ![r] = b]
        BY <1>2 DEF reportCreates
    <2>2. Fits(b)
        BY <1>0, <2>1 DEF Fits, Asked
    <2> HIDE DEF b
    <2>3. report' \in [Reports -> Asked \cup {None}] /\ ReportFits'
        BY <2>1, <2>2, ReportMoves DEF Served
    <2>4. a.email \in Emails /\ DomainsOf[a.email] \in SUBSET Domains
        BY <1>0, <2>1 DEF Asked, Constants
    <2>5. /\ book' \in [Cases -> Rows \cup {None}]
          /\ job' \in [Cases -> {"none", "queued", "asked", "done", "lost"}]
          /\ PendingHasJob' /\ SharedIsHeld'
        BY <2>1, <2>4, CreateKeeps DEF Served
    <2> QED BY <2>1, <2>3, <2>5 DEF ServerTyped, Served
<1>3. CASE reportFlags(r)
    <2> DEFINE b == [a EXCEPT !.pc = "post"]
    <2>1. /\ UNCHANGED <<stored, notPhish, book, job, hub>> /\ a # None /\ a.pc = "flag"
          /\ flagged' \in {flagged, flagged \cup {a.email}}
          /\ report' = [report EXCEPT ![r] = b]
        BY <1>3 DEF reportFlags
    <2>2. Fits(b) /\ a.email \in Emails
        BY <1>0, <2>1 DEF Fits, Asked
    <2> HIDE DEF b
    <2>3. report' \in [Reports -> Asked \cup {None}] /\ ReportFits'
        BY <2>1, <2>2, ReportMoves DEF Served
    <2> QED BY <2>1, <2>2, <2>3 DEF ServerTyped, Served, PendingHasJob, SharedIsHeld
<1>4. CASE reportPosts(r)
    <2> DEFINE b == [a EXCEPT !.pc = "note"]
    <2>1. /\ UNCHANGED <<stored, notPhish, book, job, flagged>> /\ a # None /\ a.pc = "post"
          /\ \/ report' = [report EXCEPT ![r] = b] /\ hub' = hub \cup {a.case}
             \/ report' = [report EXCEPT ![r] = None] /\ hub' \in {hub, hub \cup {a.case}}
        BY <1>4 DEF reportPosts
    <2>2. a.case \in Cases /\ (a.case \in hub' => Fits(b))
        BY <1>0, <2>1 DEF Fits, Asked
    <2> HIDE DEF b
    <2>3. report' \in [Reports -> Asked \cup {None}] /\ ReportFits'
        BY <2>1, <2>2, ReportMoves DEF Served
    <2>4. hub \subseteq hub' /\ hub' \subseteq Cases
        BY <2>1, <2>2 DEF ServerTyped
    <2> QED BY <2>1, <2>3, <2>4 DEF ServerTyped, Served, PendingHasJob, SharedIsHeld
<1>5. CASE reportNotes(r)
    <2> DEFINE c == a.case
    <2>1. /\ UNCHANGED <<stored, notPhish, job, flagged, hub>> /\ a # None /\ a.pc = "note"
          /\ report' = [report EXCEPT ![r] = None]
        BY <1>5 DEF reportNotes
    <2>2. c \in Cases /\ c \in hub
        BY <1>0, <2>1
    <2>3. report' \in [Reports -> Asked \cup {None}] /\ ReportFits'
        BY <2>1, ReportMoves DEF Served
    <2>4. CASE book[c] = None
        <3>1. book' = book
            BY <1>5, <2>4 DEF reportNotes
        <3> QED BY <2>1, <2>3, <3>1 DEF ServerTyped, Served, PendingHasJob, SharedIsHeld
    <2>5. CASE book[c] # None
        <3> DEFINE mid == [book[c] EXCEPT !.shared = TRUE]
                   row == changed(mid)
        <3>1. book[c] \in Rows
            BY <2>2, <2>5 DEF ServerTyped
        <3>2. mid \in Rows /\ mid.summary = book[c].summary
            BY <3>1, EditedRow
        <3> HIDE DEF mid
        <3>3. row \in Rows /\ row.summary = book[c].summary
            BY <3>2, ChangedRow
        <3>4. book' = [book EXCEPT ![c] = row]
            BY <1>5, <2>5 DEF reportNotes, mid, row
        <3> HIDE DEF row
        <3>5. row.summary = "pending" => job'[c] \in {"queued", "asked", "lost"}
            BY <2>1, <2>2, <2>5, <3>3 DEF Served, PendingHasJob
        <3>6. job' \in [Cases -> {"none", "queued", "asked", "done", "lost"}]
              /\ \A d \in Cases \ {c} : job'[d] = job[d]
            BY <2>1 DEF ServerTyped
        <3> HIDE DEF c
        <3>7. book' \in [Cases -> Rows \cup {None}] /\ PendingHasJob' /\ SharedIsHeld'
            BY <2>1, <2>2, <2>5, <3>3, <3>4, <3>5, <3>6, EditKeeps DEF Served
        <3> QED BY <2>1, <2>3, <3>6, <3>7 DEF ServerTyped, Served
    <2> QED BY <2>4, <2>5
<1> QED BY <1>1, <1>2, <1>3, <1>4, <1>5 DEF ReportStep

LEMMA ServerKeeps ==
  ASSUME Constants, ServerTyped, Served, ServerStep
  PROVE  ServerTyped' /\ Served'
<1>1. ASSUME NEW c \in Cases, CaseStep(c) PROVE ServerTyped' /\ Served'
    <2>1. Kept /\ UNCHANGED <<report, hub>>
        BY <1>1, CaseKeeps DEF Served
    <2> QED BY <2>1 DEF Kept, Served, ReportFits
<1>2. ASSUME NEW e \in Emails, EmailStep(e) PROVE ServerTyped' /\ Served'
    <2>1. Kept /\ UNCHANGED <<report, hub>>
        BY <1>2, EmailKeeps DEF Served
    <2> QED BY <2>1 DEF Kept, Served, ReportFits
<1>3. ASSUME NEW r \in Reports, ReportStep(r) PROVE ServerTyped' /\ Served'
    BY <1>3, ReportKeeps
<1> QED BY <1>1, <1>2, <1>3 DEF ServerStep

(* ---------------------------------------------------------------- the page --- *)

\* What the page loads is a row of the book, or nothing.
LEMMA PageKeeps ==
  ASSUME Constants, ServerTyped, PageTyped, PageStep
  PROVE  PageTyped' /\ UNCHANGED server /\ UNCHANGED cloud
<1> USE DEF Page
<1>1. CASE pageLoads
    <2> DEFINE row == book[page.case]
    <2>1. row \in Rows \cup {None} /\ page.case \in Cases
        BY <1>1 DEF pageLoads, ServerTyped, PageTyped
    <2>2. page' = show(row) /\ UNCHANGED server /\ UNCHANGED cloud
        BY <1>1 DEF pageLoads, others, server
    <2> HIDE DEF row
    <2>3. PICK t \in BOOLEAN, n \in 0..MaxPolls :
            page' = [page EXCEPT !.loading = FALSE, !.shows = row, !.timer = t, !.polls = n]
        <3> DEFINE pending == row # None /\ row.summary = "pending"
                   rerun == \/ (page.shows = None) # (row = None)
                            \/ page.shows # None /\ row # None
                               /\ <<page.shows.summary, page.shows.updated>>
                                    # <<row.summary, row.updated>>
                   t == IF rerun THEN pending /\ page.polls < MaxPolls ELSE page.timer
                   n == IF pending THEN page.polls ELSE 0
        <3>1. page' = [page EXCEPT !.loading = FALSE, !.shows = row, !.timer = t, !.polls = n]
            BY <2>2 DEF show
        <3> HIDE DEF rerun, pending
        <3>2. (pending /\ page.polls < MaxPolls) \in BOOLEAN /\ page.timer \in BOOLEAN
            BY DEF PageTyped, pending
        <3>3. t \in BOOLEAN
            BY <3>2
        <3>4. n \in 0..MaxPolls
            BY DEF PageTyped, Constants
        <3> HIDE DEF t, n
        <3> QED BY <3>1, <3>3, <3>4
    <2>4. page' \in Page /\ page'.case = page.case
        BY <2>1, <2>3 DEF PageTyped
    <2> QED BY <2>1, <2>2, <2>4 DEF PageTyped
<1>2. CASE pollTimer
    <2>1. /\ page.timer /\ page.polls < MaxPolls /\ UNCHANGED server /\ UNCHANGED cloud
          /\ page' = [page EXCEPT !.timer = FALSE, !.loading = TRUE, !.polls = @ + 1]
        BY <1>2 DEF pollTimer, others, server
    <2>2. page.polls + 1 \in 0..MaxPolls /\ page.case \in Cases
        BY <2>1 DEF PageTyped, Constants
    <2>3. page' \in Page /\ page'.case = page.case
        BY <2>1, <2>2 DEF PageTyped
    <2> QED BY <2>1, <2>2, <2>3 DEF PageTyped
<1>3. ASSUME NEW c \in Cases, openPage(c)
      PROVE  PageTyped' /\ UNCHANGED server /\ UNCHANGED cloud
    BY <1>3 DEF openPage, PageTyped, others, server
<1> QED BY <1>1, <1>2, <1>3 DEF PageStep

(* --------------------------------------------------------- the submissions --- *)

\* What holds when nothing is disturbed and q is the one submission under way,
\* or None is, for the keys k and the requests a that Cloudflare accepted.
Holds(q, k, a) ==
  /\ q # None =>
       /\ q.pc \in {"cap", "send"} => q.domain \notin k.domains
       /\ q.pc = "send" => k.count < Cap
       /\ q.pc \in Late => a[q.domain] = 1
       /\ q.pc = "putList" => q.seen = k.list[q.case]
       /\ q.pc \in {"count", "putCount"} => q.domain \in k.list[q.case]
       /\ q.pc = "putCount" => q.count = k.count
  /\ \A d \in Domains :
       /\ a[d] <= 1
       /\ a[d] = 1 =>
            /\ d \in k.domains \/ (q # None /\ q.pc = "putDomain" /\ q.domain = d)
            /\ \/ \E c \in Cases : d \in k.list[c]
               \/ q # None /\ q.pc \in {"putDomain", "list", "putList"} /\ q.domain = d
  /\ Cardinality({d \in Domains : a[d] = 1}) <= Cap
  /\ Cardinality({d \in Domains : a[d] = 1})
       <= IF q # None /\ q.pc \in Late THEN k.count + 1 ELSE k.count

Alone(s) == \A t \in Submissions : t # s => sub[t] = None

LEMMA HoldsOne ==
  ASSUME CloudTyped, Counted, ~disturbed, NEW s \in Submissions, sub[s] # None
  PROVE  Alone(s) /\ Holds(sub[s], kv, accepted)
<1>1. Alone(s)
    BY DEF Counted, Serial, Alone
<1>2. \A d \in Domains : \A pcs : (\E t \in Submissions : Writes(t, pcs, d)) => Writes(s, pcs, d)
    BY <1>1 DEF Alone, Writes
<1>3. Underway => sub[s].pc \in Late
    BY <1>1 DEF Alone, Underway
<1>4. \A d \in Domains : accepted[d] <= 1 /\ Recorded(d)
    BY DEF Counted
<1>5. \A d \in Domains : accepted[d] = 1 =>
        /\ d \in kv.domains \/ Writes(s, {"putDomain"}, d)
        /\ (\E c \in Cases : d \in kv.list[c]) \/ Writes(s, {"putDomain", "list", "putList"}, d)
    BY <1>2, <1>4 DEF Recorded
<1>6. Fresh(s) /\ Behind
    BY DEF Counted
<1>7. Cardinality({d \in Domains : accepted[d] = 1}) <= Cap
    BY <1>6 DEF Behind, Sent
<1>8. Cardinality({d \in Domains : accepted[d] = 1})
        <= IF sub[s] # None /\ sub[s].pc \in Late THEN kv.count + 1 ELSE kv.count
    BY <1>3, <1>6 DEF Behind, Sent, Underway
<1>9. \A d \in Domains : accepted[d] = 1 =>
        /\ d \in kv.domains \/ (sub[s] # None /\ sub[s].pc = "putDomain" /\ sub[s].domain = d)
        /\ \/ \E c \in Cases : d \in kv.list[c]
           \/ sub[s] # None /\ sub[s].pc \in {"putDomain", "list", "putList"} /\ sub[s].domain = d
    BY <1>5 DEF Writes
<1> QED BY <1>1, <1>4, <1>6, <1>7, <1>8, <1>9 DEF Holds, Fresh

LEMMA HoldsNone ==
  ASSUME CloudTyped, Counted, ~disturbed, alone
  PROVE  Holds(None, kv, accepted)
<1>1. \A d \in Domains : accepted[d] <= 1 /\ Recorded(d)
    BY DEF Counted
<1>2. \A d \in Domains : accepted[d] = 1 => d \in kv.domains /\ \E c \in Cases : d \in kv.list[c]
    BY <1>1 DEF Recorded, Writes, alone
<1>3. ~Underway /\ Behind
    BY DEF Underway, alone, Counted
<1>4. /\ Cardinality({d \in Domains : accepted[d] = 1}) <= Cap
      /\ Cardinality({d \in Domains : accepted[d] = 1}) <= kv.count
    BY <1>3 DEF Behind, Sent
<1> QED BY <1>1, <1>2, <1>4 DEF Holds

\* A submission alone stays alone, or its step disturbs.
LEMMA CloudMoves ==
  ASSUME CloudTyped, NEW s \in Submissions, NEW q, q = None \/ q \in Sending,
         sub' = [sub EXCEPT ![s] = q],
         kv' \in Keys, accepted' \in [Domains -> Nat], disturbed' \in BOOLEAN,
         ~disturbed' => Alone(s) /\ Holds(q, kv', accepted')
  PROVE  CloudTyped' /\ Counted'
<1>1. sub' \in [Submissions -> Sending \cup {None}]
    BY DEF CloudTyped
<1>2. CloudTyped'
    BY <1>1 DEF CloudTyped
<1>3. ASSUME ~disturbed' PROVE Counted'
    <2>0. Holds(q, kv', accepted')
        BY <1>3
    <2>1. sub'[s] = q /\ \A t \in Submissions : t # s => sub'[t] = None
        BY <1>3 DEF Alone, CloudTyped
    <2>2. Serial'
        BY <2>1 DEF Serial
    <2>3. Fresh(s)'
        BY <2>0, <2>1 DEF Fresh, Holds
    <2>4. \A t \in Submissions : Fresh(t)'
        <3>1. \A t \in Submissions : t # s => Fresh(t)'
            BY <2>1 DEF Fresh
        <3> QED BY <2>3, <3>1
    <2>5. \A d \in Domains : accepted'[d] <= 1 /\ Recorded(d)'
        <3>1. \A d \in Domains : \A pcs : q # None /\ q.pc \in pcs /\ q.domain = d
                => \E t \in Submissions : Writes(t, pcs, d)'
            BY <2>1 DEF Writes
        <3>2. \A d \in Domains :
                /\ accepted'[d] <= 1
                /\ accepted'[d] = 1 =>
                     /\ d \in kv'.domains \/ (q # None /\ q.pc \in {"putDomain"} /\ q.domain = d)
                     /\ \/ \E c \in Cases : d \in kv'.list[c]
                        \/ q # None /\ q.pc \in {"putDomain", "list", "putList"} /\ q.domain = d
            BY <2>0 DEF Holds
        <3> QED BY <3>1, <3>2 DEF Recorded
    <2>6. Behind'
        <3>1. Underway' <=> q # None /\ q.pc \in Late
            BY <2>1 DEF Underway
        <3>2. /\ Cardinality({d \in Domains : accepted'[d] = 1}) <= Cap
              /\ Cardinality({d \in Domains : accepted'[d] = 1})
                   <= IF q # None /\ q.pc \in Late THEN kv'.count + 1 ELSE kv'.count
            BY <2>0 DEF Holds
        <3> QED BY <3>1, <3>2 DEF Behind, Sent
    <2> QED BY <2>2, <2>4, <2>5, <2>6 DEF Counted
<1> QED BY <1>2, <1>3 DEF Counted

\* One request more counts one domain more.
LEMMA OneMore ==
  ASSUME Constants, NEW a \in [Domains -> Nat], NEW d \in Domains, a[d] = 0,
         NEW b, b = [a EXCEPT ![d] = @ + 1]
  PROVE  /\ Cardinality({e \in Domains : a[e] = 1}) \in Nat
         /\ Cardinality({e \in Domains : b[e] = 1}) = Cardinality({e \in Domains : a[e] = 1}) + 1
<1> DEFINE A == {e \in Domains : a[e] = 1}
<1>1. {e \in Domains : b[e] = 1} = A \cup {d}
    OBVIOUS
<1>2. IsFiniteSet(A)
    BY FS_Subset DEF Constants
<1>3. d \notin A
    OBVIOUS
<1> HIDE DEF A
<1>4. Cardinality(A) \in Nat /\ Cardinality(A \cup {d}) = Cardinality(A) + 1
    BY <1>2, <1>3, FS_AddElement, FS_CardinalityType
<1> QED BY <1>1, <1>4 DEF A

\* The steps that leave the keys and what was accepted as they are.
LEMMA CheckKeeps ==
  ASSUME Constants, CloudTyped, Counted, NEW s \in Submissions,
         checkLabels(s) \/ checkDomain(s) \/ checkCap(s) \/ readList(s) \/ readCount(s)
           \/ submissionLost(s)
  PROVE  CloudTyped' /\ Counted' /\ UNCHANGED server /\ UNCHANGED page
<1> DEFINE p == sub[s]
<1>0. p # None => p \in Sending
    BY DEF CloudTyped
<1>a. ~disturbed /\ p # None => Alone(s) /\ Holds(p, kv, accepted)
    BY HoldsOne
<1>b. kv \in Keys /\ accepted \in [Domains -> Nat] /\ disturbed \in BOOLEAN
    BY DEF CloudTyped
<1>c. p # None /\ p.pc \notin Late /\ Holds(p, kv, accepted) => Holds(None, kv, accepted)
    BY DEF Holds, Late
<1>d. \A q : /\ UNCHANGED <<kv, accepted>> /\ UNCHANGED server /\ UNCHANGED page
             /\ q = None \/ q \in Sending
             /\ sub' = [sub EXCEPT ![s] = q]
             /\ disturbed' \in BOOLEAN
             /\ ~disturbed' => ~disturbed /\ p # None
             /\ ~disturbed' /\ Holds(p, kv, accepted) => Holds(q, kv, accepted)
             => CloudTyped' /\ Counted' /\ UNCHANGED server /\ UNCHANGED page
    BY <1>a, <1>b, CloudMoves
<1>e. None \notin Sending
    BY DEF Constants
<1>1. CASE checkLabels(s)
    <2> DEFINE q == [p EXCEPT !.pc = "domain"]
    <2>1. /\ UNCHANGED <<kv, accepted, disturbed, page>> /\ UNCHANGED server
          /\ p # None /\ p.pc = "labels"
          /\ sub' = [sub EXCEPT ![s] = None] \/ sub' = [sub EXCEPT ![s] = q]
        BY <1>1 DEF checkLabels, at, to, ends
    <2>2. q \in Sending /\ q # None /\ q.pc = "domain" /\ q.domain = p.domain /\ q.case = p.case
        BY <1>0, <1>e, <2>1 DEF Sending
    <2> HIDE DEF q
    <2>3. Holds(p, kv, accepted) => Holds(q, kv, accepted)
        BY <2>1, <2>2 DEF Holds, Late
    <2>4. Holds(p, kv, accepted) => Holds(None, kv, accepted)
        BY <1>c, <2>1 DEF Late
    <2> HIDE DEF p, q
    <2> QED BY <1>b, <1>d, <2>1, <2>2, <2>3, <2>4
<1>2. CASE checkDomain(s)
    <2> DEFINE q == [p EXCEPT !.pc = "cap"]
    <2>1. /\ UNCHANGED <<kv, accepted, page>> /\ UNCHANGED server
          /\ p # None /\ p.pc = "domain"
          /\ sub' = [sub EXCEPT ![s] = None] \/ sub' = [sub EXCEPT ![s] = q]
          /\ (disturbed' = disturbed \/ disturbed' = TRUE)
          /\ ~disturbed' /\ sub' = [sub EXCEPT ![s] = q]
             => p.domain \notin kv.domains \/ sub' = [sub EXCEPT ![s] = None]
        BY <1>2 DEF checkDomain, at, to, ends, fault
    <2>2. q \in Sending /\ q # None /\ q.pc = "cap" /\ q.domain = p.domain /\ q.case = p.case
        BY <1>0, <1>e, <2>1 DEF Sending
    <2> HIDE DEF q
    <2>3. Holds(p, kv, accepted) /\ p.domain \notin kv.domains => Holds(q, kv, accepted)
        BY <2>1, <2>2 DEF Holds, Late
    <2>4. Holds(p, kv, accepted) => Holds(None, kv, accepted)
        BY <1>c, <2>1 DEF Late
    <2>5. disturbed' \in BOOLEAN /\ (~disturbed' => ~disturbed)
        <3>1. disturbed' = disturbed \/ disturbed' = TRUE
            BY <2>1
        <3> HIDE DEF p
        <3> QED BY <1>b, <3>1, Zenon
    <2> HIDE DEF p, q
    <2>6. CASE sub' = [sub EXCEPT ![s] = None]
        BY <1>d, <2>1, <2>4, <2>5, <2>6
    <2>7. CASE sub' = [sub EXCEPT ![s] = q] /\ sub' # [sub EXCEPT ![s] = None]
        BY <1>d, <2>1, <2>2, <2>3, <2>5, <2>7
    <2> QED BY <2>1, <2>6, <2>7
<1>3. CASE checkCap(s)
    <2> DEFINE q == [p EXCEPT !.pc = "send"]
    <2>1. /\ UNCHANGED <<kv, accepted, page>> /\ UNCHANGED server
          /\ p # None /\ p.pc = "cap"
          /\ sub' = [sub EXCEPT ![s] = None] \/ sub' = [sub EXCEPT ![s] = q]
          /\ (disturbed' = disturbed \/ disturbed' = TRUE)
          /\ ~disturbed' /\ sub' # [sub EXCEPT ![s] = None] => ~(kv.count >= Cap)
        BY <1>3 DEF checkCap, at, to, ends, fault
    <2>2. q \in Sending /\ q # None /\ q.pc = "send" /\ q.domain = p.domain /\ q.case = p.case
        BY <1>0, <1>e, <2>1 DEF Sending
    <2> HIDE DEF q
    <2>3. Holds(p, kv, accepted) /\ ~(kv.count >= Cap) => Holds(q, kv, accepted)
        <3>1. ~(kv.count >= Cap) => kv.count < Cap
            BY <1>b DEF Keys, Constants
        <3> QED BY <2>1, <2>2, <3>1 DEF Holds, Late
    <2>4. Holds(p, kv, accepted) => Holds(None, kv, accepted)
        BY <1>c, <2>1 DEF Late
    <2>5. disturbed' \in BOOLEAN /\ (~disturbed' => ~disturbed)
        <3>1. disturbed' = disturbed \/ disturbed' = TRUE
            BY <2>1
        <3> HIDE DEF p
        <3> QED BY <1>b, <3>1, Zenon
    <2> HIDE DEF p, q
    <2>6. CASE sub' = [sub EXCEPT ![s] = None]
        BY <1>d, <2>1, <2>4, <2>5, <2>6
    <2>7. CASE sub' = [sub EXCEPT ![s] = q] /\ sub' # [sub EXCEPT ![s] = None]
        BY <1>d, <2>1, <2>2, <2>3, <2>5, <2>7
    <2> QED BY <2>1, <2>6, <2>7
<1>4. CASE readList(s)
    <2> DEFINE q == [p EXCEPT !.pc = "putList", !.seen = kv.list[p.case]]
               r == [p EXCEPT !.pc = "putList"]
    <2>1. /\ UNCHANGED <<kv, accepted, page>> /\ UNCHANGED server
          /\ p # None /\ p.pc = "list"
          /\ \/ sub' = [sub EXCEPT ![s] = q] /\ disturbed' = disturbed
             \/ sub' = [sub EXCEPT ![s] = r] /\ disturbed' = TRUE
        BY <1>4 DEF readList, at, to, fault
    <2>2. /\ q \in Sending /\ r \in Sending /\ q # None
          /\ q.domain = p.domain /\ q.case = p.case /\ q.pc = "putList" /\ q.seen = kv.list[p.case]
        BY <1>0, <1>b, <1>e, <2>1 DEF Sending, Keys, Late
    <2> HIDE DEF q, r
    <2>3. Holds(p, kv, accepted) => Holds(q, kv, accepted)
        BY <2>1, <2>2 DEF Holds, Late
    <2> HIDE DEF p, q, r
    <2>4. /\ disturbed' \in BOOLEAN
          /\ ~disturbed' => ~disturbed /\ sub' = [sub EXCEPT ![s] = q]
        <3>1. \/ sub' = [sub EXCEPT ![s] = q] /\ disturbed' = disturbed
              \/ disturbed' = TRUE
            BY <2>1
        <3> QED BY <1>b, <3>1, Zenon
    <2>5. CASE sub' = [sub EXCEPT ![s] = q]
        BY <1>d, <2>1, <2>2, <2>3, <2>4, <2>5
    <2>6. CASE sub' = [sub EXCEPT ![s] = r] /\ sub' # [sub EXCEPT ![s] = q]
        BY <1>d, <2>1, <2>2, <2>4, <2>6
    <2> QED BY <2>1, <2>5, <2>6
<1>5. CASE readCount(s)
    <2> DEFINE q == [p EXCEPT !.pc = "putCount", !.count = kv.count]
               r == [p EXCEPT !.pc = "putCount"]
    <2>1. /\ UNCHANGED <<kv, accepted, page>> /\ UNCHANGED server
          /\ p # None /\ p.pc = "count"
          /\ \/ sub' = [sub EXCEPT ![s] = q] /\ disturbed' = disturbed
             \/ sub' = [sub EXCEPT ![s] = r] /\ disturbed' = TRUE
        BY <1>5 DEF readCount, at, to, fault
    <2>2. /\ q \in Sending /\ r \in Sending /\ q # None
          /\ q.domain = p.domain /\ q.case = p.case /\ q.pc = "putCount" /\ q.count = kv.count
        BY <1>0, <1>b, <1>e, <2>1 DEF Sending, Keys, Late
    <2> HIDE DEF q, r
    <2>3. Holds(p, kv, accepted) => Holds(q, kv, accepted)
        BY <2>1, <2>2 DEF Holds, Late
    <2> HIDE DEF p, q, r
    <2>4. /\ disturbed' \in BOOLEAN
          /\ ~disturbed' => ~disturbed /\ sub' = [sub EXCEPT ![s] = q]
        <3>1. \/ sub' = [sub EXCEPT ![s] = q] /\ disturbed' = disturbed
              \/ disturbed' = TRUE
            BY <2>1
        <3> QED BY <1>b, <3>1, Zenon
    <2>5. CASE sub' = [sub EXCEPT ![s] = q]
        BY <1>d, <2>1, <2>2, <2>3, <2>4, <2>5
    <2>6. CASE sub' = [sub EXCEPT ![s] = r] /\ sub' # [sub EXCEPT ![s] = q]
        BY <1>d, <2>1, <2>2, <2>4, <2>6
    <2> QED BY <2>1, <2>5, <2>6
<1>6. CASE submissionLost(s)
    <2>1. /\ UNCHANGED <<kv, accepted, page>> /\ UNCHANGED server
          /\ sub' = [sub EXCEPT ![s] = None] /\ disturbed' = TRUE
        BY <1>6 DEF submissionLost, ends, fault
    <2> HIDE DEF p
    <2> QED BY <1>d, <2>1
<1> QED BY <1>1, <1>2, <1>3, <1>4, <1>5, <1>6

\* A request that finds nobody at work begins with nothing checked.
LEMMA SubmitKeeps ==
  ASSUME Constants, ServerTyped, CloudTyped, Counted, NEW s \in Submissions,
         NEW c \in Cases, NEW d \in Domains, submitCloudflare(s, c, d)
  PROVE  CloudTyped' /\ Counted' /\ UNCHANGED server /\ UNCHANGED page
<1> DEFINE q == [pc |-> "labels", case |-> c, domain |-> d,
                 email |-> book[c].email, seen |-> {}, count |-> 0]
<1>1. /\ UNCHANGED <<kv, accepted, page>> /\ UNCHANGED server /\ book[c] # None
      /\ sub' = [sub EXCEPT ![s] = q] /\ disturbed' = (disturbed \/ ~alone)
    BY DEF submitCloudflare
<1>2. book[c] \in Rows
    BY <1>1 DEF ServerTyped
<1>3. book[c].email \in Emails \cup {None}
    BY <1>2 DEF Rows
<1>4. q \in Sending /\ q.pc = "labels"
    BY <1>3 DEF Sending
<1> HIDE DEF q
<1>5. kv' \in Keys /\ accepted' \in [Domains -> Nat] /\ disturbed' \in BOOLEAN
    BY <1>1 DEF CloudTyped
<1>6. ~disturbed' => ~disturbed /\ alone
    BY <1>1
<1>7. alone => Alone(s)
    BY DEF alone, Alone
<1>8. Holds(None, kv, accepted) => Holds(q, kv, accepted)
    BY <1>4 DEF Holds, Late
<1>9. ~disturbed' => Alone(s) /\ Holds(q, kv', accepted')
    BY <1>1, <1>6, <1>7, <1>8, HoldsNone
<1> QED BY <1>1, <1>4, <1>5, <1>9, CloudMoves

\* Cloudflare has a domain at most once, because it was not on record.
LEMMA SendKeeps ==
  ASSUME Constants, CloudTyped, Counted, NEW s \in Submissions, sendCategorization(s)
  PROVE  CloudTyped' /\ Counted' /\ UNCHANGED server /\ UNCHANGED page
<1> DEFINE p == sub[s]
           d == p.domain
           q == [p EXCEPT !.pc = "putDomain"]
<1>1. /\ UNCHANGED <<kv, page>> /\ UNCHANGED server /\ p # None /\ p.pc = "send"
      /\ \/ /\ accepted' = [accepted EXCEPT ![d] = @ + 1]
            /\ sub' = [sub EXCEPT ![s] = q] /\ disturbed' = disturbed
         \/ /\ \E n \in {0, 1} : accepted' = [accepted EXCEPT ![d] = @ + n]
            /\ sub' = [sub EXCEPT ![s] = None] /\ disturbed' = TRUE
    BY DEF sendCategorization, at, to, ends, fault
<1>2. p \in Sending /\ None \notin Sending
    BY <1>1 DEF CloudTyped, Constants
<1>3. /\ q \in Sending /\ q # None /\ q.pc = "putDomain" /\ q.domain = d /\ d \in Domains
    BY <1>2 DEF Sending, Late
<1>4. kv \in Keys /\ accepted \in [Domains -> Nat] /\ disturbed \in BOOLEAN
    BY DEF CloudTyped
<1>5. ~disturbed => Alone(s) /\ Holds(p, kv, accepted)
    BY <1>1, HoldsOne
<1> HIDE DEF p, d, q
<1>6. CASE /\ accepted' = [accepted EXCEPT ![d] = @ + 1]
           /\ sub' = [sub EXCEPT ![s] = q] /\ disturbed' = disturbed
    <2>1. accepted' \in [Domains -> Nat]
        BY <1>3, <1>4, <1>6
    <2>2. ASSUME Holds(p, kv, accepted) PROVE Holds(q, kv', accepted')
        <3>1. /\ d \notin kv.domains /\ kv.count < Cap
              /\ \A e \in Domains :
                   /\ accepted[e] <= 1
                   /\ accepted[e] = 1 => e \in kv.domains /\ \E c \in Cases : e \in kv.list[c]
              /\ Cardinality({e \in Domains : accepted[e] = 1}) <= kv.count
            BY <1>1, <2>2 DEF Holds, Late, d
        <3>2. accepted[d] = 0
            BY <1>3, <1>4, <3>1
        <3>3. /\ Cardinality({e \in Domains : accepted[e] = 1}) \in Nat
              /\ Cardinality({e \in Domains : accepted'[e] = 1})
                   = Cardinality({e \in Domains : accepted[e] = 1}) + 1
            BY <1>3, <1>4, <1>6, <3>2, OneMore
        <3>4. /\ Cardinality({e \in Domains : accepted'[e] = 1}) <= Cap
              /\ Cardinality({e \in Domains : accepted'[e] = 1}) <= kv.count + 1
            BY <1>4, <3>1, <3>3 DEF Keys, Constants
        <3>5. accepted'[d] = 1 /\ \A e \in Domains : e # d => accepted'[e] = accepted[e]
            BY <1>3, <1>4, <1>6, <3>2
        <3>6. kv' = kv
            BY <1>1
        <3> QED BY <1>3, <3>1, <3>4, <3>5, <3>6 DEF Holds, Late
    <2>3. ~disturbed' => Alone(s) /\ Holds(q, kv', accepted')
        BY <1>5, <1>6, <2>2
    <2>4. disturbed' \in BOOLEAN /\ kv' \in Keys
        BY <1>1, <1>4, <1>6
    <2> QED BY <1>1, <1>3, <1>6, <2>1, <2>3, <2>4, CloudMoves
<1>7. CASE /\ \E n \in {0, 1} : accepted' = [accepted EXCEPT ![d] = @ + n]
           /\ sub' = [sub EXCEPT ![s] = None] /\ disturbed' = TRUE
    <2>1. accepted' \in [Domains -> Nat]
        BY <1>3, <1>4, <1>7
    <2>2. ~disturbed' => Alone(s) /\ Holds(None, kv', accepted')
        BY <1>7
    <2>3. disturbed' \in BOOLEAN /\ kv' \in Keys
        BY <1>1, <1>4, <1>7
    <2> QED BY <1>1, <1>7, <2>1, <2>2, <2>3, CloudMoves
<1> QED BY <1>1, <1>6, <1>7

\* The three keys of the record, one after the other.
LEMMA PutKeeps ==
  ASSUME Constants, CloudTyped, Counted, NEW s \in Submissions,
         putDomain(s) \/ putList(s) \/ putCount(s)
  PROVE  CloudTyped' /\ Counted' /\ UNCHANGED server /\ UNCHANGED page
<1> DEFINE p == sub[s]
           d == p.domain
           c == p.case
<1>1. UNCHANGED <<accepted, disturbed, page>> /\ UNCHANGED server /\ p # None
    BY DEF putDomain, putList, putCount, at
<1>2. p \in Sending /\ None \notin Sending
    BY <1>1 DEF CloudTyped, Constants
<1>3. /\ d \in Domains /\ c \in Cases /\ p.seen \in SUBSET Domains /\ p.count \in Nat
    BY <1>2 DEF Sending
<1>4. kv \in Keys /\ accepted \in [Domains -> Nat] /\ disturbed \in BOOLEAN
    BY DEF CloudTyped
<1>5. ~disturbed => Alone(s) /\ Holds(p, kv, accepted)
    BY <1>1, HoldsOne
<1>6. \A q : /\ q = None \/ q \in Sending
             /\ sub' = [sub EXCEPT ![s] = q] /\ kv' \in Keys
             /\ Holds(p, kv, accepted) => Holds(q, kv', accepted)
             => CloudTyped' /\ Counted'
    <2> TAKE q
    <2> HAVE /\ q = None \/ q \in Sending
             /\ sub' = [sub EXCEPT ![s] = q] /\ kv' \in Keys
             /\ Holds(p, kv, accepted) => Holds(q, kv', accepted)
    <2>1. disturbed' = disturbed /\ accepted' = accepted
        BY <1>1
    <2> HIDE DEF p
    <2>2. ~disturbed' => Alone(s) /\ Holds(q, kv', accepted')
        BY <1>5, <2>1
    <2>3. disturbed' \in BOOLEAN /\ accepted' \in [Domains -> Nat]
        BY <1>4, <2>1
    <2> QED BY <2>2, <2>3, CloudMoves
<1>7. CASE putDomain(s)
    <2> DEFINE q == [p EXCEPT !.pc = "list"]
    <2>1. /\ p.pc = "putDomain" /\ sub' = [sub EXCEPT ![s] = q]
          /\ kv' = [kv EXCEPT !.domains = @ \cup {d}]
        BY <1>7 DEF putDomain, at, to
    <2>2. /\ q \in Sending /\ q # None /\ q.pc = "list" /\ q.domain = d
        BY <1>2 DEF Sending, Late
    <2> HIDE DEF q
    <2>3. kv' \in Keys /\ kv'.domains = kv.domains \cup {d} /\ kv'.list = kv.list
          /\ kv'.count = kv.count
        BY <1>3, <1>4, <2>1 DEF Keys
    <2>4. Holds(p, kv, accepted) => Holds(q, kv', accepted)
        BY <1>1, <2>1, <2>2, <2>3 DEF Holds, Late
    <2> HIDE DEF p
    <2> QED BY <1>1, <1>6, <2>1, <2>2, <2>3, <2>4
<1>8. CASE putList(s)
    <2> DEFINE q == [p EXCEPT !.pc = "count"]
               l == p.seen \cup {d}
    <2>1. /\ p.pc = "putList" /\ sub' = [sub EXCEPT ![s] = q]
          /\ kv' = [kv EXCEPT !.list[c] = l]
        BY <1>8 DEF putList, at, to
    <2>2. /\ q \in Sending /\ q # None /\ q.pc = "count" /\ q.domain = d /\ q.case = c
        BY <1>2 DEF Sending, Late
    <2>3. l \in SUBSET Domains /\ d \in l /\ p.seen \subseteq l
        BY <1>3
    <2> HIDE DEF q, l
    <2>4. kv.list \in [Cases -> SUBSET Domains]
        BY <1>4 DEF Keys
    <2>5. kv' \in Keys /\ kv'.domains = kv.domains /\ kv'.list = [kv.list EXCEPT ![c] = l]
          /\ kv'.count = kv.count
        BY <1>3, <1>4, <2>1, <2>3, <2>4 DEF Keys
    <2>6. ASSUME Holds(p, kv, accepted) PROVE Holds(q, kv', accepted)
        <3>1. kv.list[c] \subseteq l
            BY <1>1, <2>1, <2>3, <2>6 DEF Holds
        <3>2. \A b \in Cases : kv.list[b] \subseteq kv'.list[b]
            BY <1>3, <2>4, <2>5, <3>1
        <3>3. d \in kv'.list[c]
            BY <1>3, <2>3, <2>4, <2>5
        <3>4. \A e \in Domains : accepted[e] = 1 =>
                /\ e \in kv.domains
                /\ (\E b \in Cases : e \in kv.list[b]) \/ e = d
            BY <1>1, <2>1, <2>6 DEF Holds
        <3>5. \A e \in Domains : accepted[e] = 1 =>
                e \in kv'.domains /\ \E b \in Cases : e \in kv'.list[b]
            BY <1>3, <2>5, <3>2, <3>3, <3>4
        <3>6. /\ Cardinality({e \in Domains : accepted[e] = 1}) <= Cap
              /\ Cardinality({e \in Domains : accepted[e] = 1}) <= kv'.count + 1
              /\ accepted[d] = 1 /\ \A e \in Domains : accepted[e] <= 1
            BY <1>1, <2>1, <2>5, <2>6 DEF Holds, Late
        <3> QED BY <2>2, <3>3, <3>5, <3>6 DEF Holds, Late
    <2> HIDE DEF p
    <2> QED BY <1>1, <1>6, <2>1, <2>2, <2>5, <2>6
<1>9. CASE putCount(s)
    <2>1. /\ p.pc = "putCount" /\ sub' = [sub EXCEPT ![s] = None]
          /\ kv' = [kv EXCEPT !.count = p.count + 1]
        BY <1>9 DEF putCount, at, ends
    <2>2. kv' \in Keys /\ kv'.domains = kv.domains /\ kv'.list = kv.list
          /\ kv'.count = p.count + 1
        BY <1>3, <1>4, <2>1 DEF Keys
    <2>3. Holds(p, kv, accepted) => Holds(None, kv', accepted)
        BY <1>1, <2>1, <2>2 DEF Holds, Late
    <2> HIDE DEF p
    <2> QED BY <1>1, <1>6, <2>1, <2>2, <2>3
<1> QED BY <1>7, <1>8, <1>9

LEMMA CloudKeeps ==
  ASSUME Constants, ServerTyped, CloudTyped, Counted, NEW s \in Submissions, CloudStep(s)
  PROVE  CloudTyped' /\ Counted' /\ UNCHANGED server /\ UNCHANGED page
BY SubmitKeeps, CheckKeeps, SendKeeps, PutKeeps DEF CloudStep, submissionStep

(* -------------------------------------------------------------- the theorem --- *)

LEMMA Initially == ASSUME Constants, Init PROVE IInv
<1>1. Typed
    <2>1. ServerTyped
        BY DEF Init, ServerTyped
    <2>2. CloudTyped
        <3>1. kv \in Keys
            BY DEF Init, Keys
        <3>2. sub \in [Submissions -> Sending \cup {None}] /\ accepted \in [Domains -> Nat]
            BY DEF Init
        <3> QED BY <3>1, <3>2 DEF Init, CloudTyped
    <2>3. PageTyped
        <3>1. page = [case |-> None, shows |-> None, timer |-> FALSE, loading |-> FALSE, polls |-> 0]
            BY DEF Init
        <3>2. page \in Page /\ ~page.loading /\ ~page.timer
            BY <3>1 DEF Page, Constants
        <3> QED BY <3>2 DEF PageTyped
    <2> QED BY <2>1, <2>2, <2>3 DEF Typed
<1>2. Served
    BY DEF Init, Served, PendingHasJob, SharedIsHeld, ReportFits
<1>3. {d \in Domains : accepted[d] = 1} = {}
    BY DEF Init
<1>4. Holds(None, kv, accepted)
    <2>1. Cardinality({d \in Domains : accepted[d] = 1}) = 0
        BY <1>3, FS_EmptySet
    <2>2. \A d \in Domains : accepted[d] = 0
        BY DEF Init
    <2>3. kv.count = 0 /\ Cap \in Nat
        BY DEF Init, Constants
    <2> QED BY <2>1, <2>2, <2>3 DEF Holds
<1>5. alone
    BY DEF Init, alone
<1>6. ~Underway
    BY <1>5 DEF Underway, alone
<1>7. Cardinality(Sent) <= Cap /\ Cardinality(Sent) <= kv.count
    BY <1>4 DEF Holds, Sent
<1>8. \A d \in Domains : accepted[d] = 0
    BY DEF Init
<1> QED BY <1>1, <1>2, <1>5, <1>6, <1>7, <1>8
        DEF IInv, Counted, Serial, Fresh, Recorded, Behind, alone

LEMMA Inductive == ASSUME Constants, IInv, [Next]_vars PROVE IInv'
<1>1. CASE ServerStep
    <2>1. ServerTyped' /\ Served'
        BY <1>1, ServerKeeps DEF IInv, Typed
    <2>2. UNCHANGED <<sub, kv, accepted, disturbed, page>>
        BY <1>1, ServerFrame
    <2>3. CloudTyped' /\ PageTyped'
        BY <2>2 DEF IInv, Typed, CloudTyped, PageTyped
    <2>4. Counted'
        BY <2>2 DEF IInv, Counted, Serial, Fresh, Recorded, Writes, Behind, Underway, Sent
    <2> QED BY <2>1, <2>3, <2>4 DEF IInv, Typed
<1>2. ASSUME NEW s \in Submissions, CloudStep(s) PROVE IInv'
    <2>1. CloudTyped' /\ Counted' /\ UNCHANGED server /\ UNCHANGED page
        BY <1>2, CloudKeeps DEF IInv, Typed
    <2>2. ServerTyped' /\ PageTyped'
        BY <2>1 DEF IInv, Typed, ServerTyped, PageTyped, server
    <2>3. Served'
        BY <2>1 DEF IInv, Served, PendingHasJob, SharedIsHeld, ReportFits, server
    <2> QED BY <2>1, <2>2, <2>3 DEF IInv, Typed
<1>3. CASE PageStep
    <2>1. PageTyped' /\ UNCHANGED server /\ UNCHANGED cloud
        BY <1>3, PageKeeps DEF IInv, Typed
    <2>2. ServerTyped' /\ CloudTyped'
        BY <2>1 DEF IInv, Typed, ServerTyped, CloudTyped, server, cloud
    <2>3. Served'
        BY <2>1 DEF IInv, Served, PendingHasJob, SharedIsHeld, ReportFits, server
    <2>4. Counted'
        BY <2>1 DEF IInv, Counted, Serial, Fresh, Recorded, Writes, Behind, Underway, Sent, cloud
    <2> QED BY <2>1, <2>2, <2>3, <2>4 DEF IInv, Typed
<1>4. CASE UNCHANGED vars
    <2>1. Typed'
        BY <1>4 DEF vars, IInv, Typed, ServerTyped, CloudTyped, PageTyped
    <2>2. Served'
        BY <1>4 DEF vars, IInv, Served, PendingHasJob, SharedIsHeld, ReportFits
    <2>3. Counted'
        BY <1>4 DEF vars, IInv, Counted, Serial, Fresh, Recorded, Writes, Behind, Underway, Sent
    <2> QED BY <2>1, <2>2, <2>3 DEF IInv
<1> QED BY <1>1, <1>2, <1>3, <1>4, NextSteps

LEMMA Enough == ASSUME IInv PROVE TypeOK /\ CasesTruthful
<1>1. TypeOK
    BY DEF IInv, Typed, ServerTyped, CloudTyped, PageTyped, Page, Keys, TypeOK
<1>2. SubmissionsCounted
    <2> SUFFICES ASSUME ~disturbed PROVE SubmissionsCounted
        BY DEF SubmissionsCounted
    <2>1. /\ \A d \in Domains : accepted[d] <= 1 /\ Recorded(d)
          /\ Cardinality({d \in Domains : accepted[d] = 1}) <= Cap
        BY DEF IInv, Counted, Behind, Sent
    <2>2. alone => \A d \in Domains : accepted[d] = 1 =>
                     d \in kv.domains /\ \E c \in Cases : d \in kv.list[c]
        BY <2>1 DEF Recorded, Writes, alone
    <2> QED BY <2>1, <2>2 DEF SubmissionsCounted
<1> QED BY <1>1, <1>2 DEF IInv, Served, CasesTruthful

\* Whatever overlaps or fails, a case whose summary is pending has a job that
\* will settle it or was lost, and a case that says it is shared is with the
\* hub; and as long as submissions neither overlap nor lose a call, each domain
\* is sent once, within the monthly cap, and is on record (routes/cases.ts,
\* intel/cloudflare-categorize.ts).
THEOREM CasesStayTruthful == ASSUME Constants PROVE Spec => [](TypeOK /\ CasesTruthful)
<1>1. Init => IInv
    BY Initially
<1>2. IInv /\ [Next]_vars => IInv'
    BY Inductive
<1>3. IInv => TypeOK /\ CasesTruthful
    BY Enough
<1> QED BY <1>1, <1>2, <1>3, PTL DEF Spec

-----------------------------------------------------------------------------
(* The client's cached views of the mail and its flag changes: ClientCache. *)

CONSTANTS Mutations
VARIABLES held, cache, fetch, mut, polls, lost
Cache == INSTANCE ClientCache WITH server <- held

Call == [kind : {"none", "flag", "thread"}, pc : {"idle", "sent", "applied", "gaveUp", "done"},
         id : Emails \cup {None}, to : BOOLEAN, before : [Cache!Queries -> Cache!Flags] \cup {None}]
Lists == {"list", "thread", "unified"}
CacheConstants == MaxPolls \in Nat

\* A flag change whose end will make every query be fetched, and a change the
\* client will hear of.
Unsettled(m) ==
  mut[m].pc \in {"sent", "applied"} /\ (mut[m].kind = "flag" \/ mut[m].pc = "applied")
Agrees(q, data) ==
  /\ q \in Lists => data = held
  /\ q \in Emails => data[q] = held[q]
CaughtUp(q) ==
  \/ fetch[q].pc = "asked"
  \/ fetch[q].pc = "back" /\ Agrees(q, fetch[q].data)
  \/ fetch[q].pc = "none" /\ Agrees(q, cache[q])
CacheTypes ==
  /\ held \in Cache!Flags /\ cache \in [Cache!Queries -> Cache!Flags]
  /\ fetch \in [Cache!Queries -> [pc : {"none", "asked", "back"}, data : Cache!Flags]]
  /\ mut \in [Mutations -> Call]
  /\ polls \in 0 .. MaxPolls /\ lost \in BOOLEAN
  /\ \A m \in Mutations : mut[m].pc \in {"sent", "applied"} /\ mut[m].kind = "flag" =>
       mut[m].id \in Emails /\ mut[m].before \in [Cache!Queries -> Cache!Flags]
CacheInv ==
  /\ CacheTypes
  /\ lost \/ (\E m \in Mutations : Unsettled(m)) \/ (\A q \in Cache!Queries : CaughtUp(q))

LEMMA InitCacheInv == ASSUME CacheConstants, Cache!Init PROVE CacheInv
<1>1. Cache!NoFlags \in Cache!Flags
  BY DEF Cache!NoFlags, Cache!Flags
<1>2. Cache!NotCalled \in Call
  BY DEF Cache!NotCalled, Call
<1>3. CacheTypes
  <2>1. Cache!NoFetch \in [pc : {"none", "asked", "back"}, data : Cache!Flags]
    BY <1>1 DEF Cache!NoFetch
  <2>2. Cache!NotCalled.pc = "idle"
    BY DEF Cache!NotCalled
  <2>3. lost \in BOOLEAN /\ polls \in 0..MaxPolls
    <3>1. lost = FALSE /\ polls = 0
      BY DEF Cache!Init
    <3>2. polls \in 0..MaxPolls
      BY <3>1 DEF CacheConstants
    <3>. QED BY <3>1, <3>2
  <2>4. held \in Cache!Flags /\ cache \in [Cache!Queries -> Cache!Flags]
    BY <1>1 DEF Cache!Init
  <2>. QED BY <1>2, <2>1, <2>2, <2>3, <2>4 DEF Cache!Init, CacheTypes
<1>4. \A q \in Cache!Queries : CaughtUp(q)
  BY <1>1 DEF Cache!Init, CaughtUp, Agrees, Cache!NoFetch
<1>. QED BY <1>3, <1>4 DEF CacheInv

LEMMA FetchCacheInv ==
  ASSUME CacheConstants, CacheInv, NEW q \in Cache!Queries, Cache!poll(q) \/ Cache!answer(q)
           \/ Cache!receive(q) PROVE CacheInv'
<1>1. UNCHANGED <<held, mut, lost>>
  BY DEF Cache!poll, Cache!answer, Cache!receive
<1>2. CacheTypes'
  <2>1. Cache!NoFlags \in Cache!Flags
    BY DEF Cache!NoFlags, Cache!Flags
  <2>2. CASE Cache!poll(q)
    <3>1. Cache!Asked \in [pc : {"none", "asked", "back"}, data : Cache!Flags]
      BY <2>1 DEF Cache!Asked
    <3>2. polls' \in 0..MaxPolls
      BY <2>2 DEF Cache!poll, CacheInv, CacheTypes, CacheConstants
    <3>. QED BY <2>2, <3>1, <3>2 DEF Cache!poll, CacheInv, CacheTypes
  <2>3. CASE Cache!answer(q)
    BY <2>3 DEF Cache!answer, CacheInv, CacheTypes
  <2>4. CASE Cache!receive(q)
    BY <2>4, <2>1 DEF Cache!receive, CacheInv, CacheTypes, Cache!NoFetch
  <2>. QED BY <2>2, <2>3, <2>4
<1>3. ASSUME \A p \in Cache!Queries : CaughtUp(p) PROVE \A p \in Cache!Queries : CaughtUp(p)'
  <2>1. ASSUME NEW p \in Cache!Queries, Cache!poll(q) PROVE CaughtUp(p)'
    BY <1>3, <2>1 DEF Cache!poll, CaughtUp, Agrees, Cache!Asked, CacheInv, CacheTypes
  <2>2. ASSUME NEW p \in Cache!Queries, Cache!answer(q) PROVE CaughtUp(p)'
    BY <1>3, <2>2 DEF Cache!answer, CaughtUp, Agrees, CacheInv, CacheTypes
  <2>3. ASSUME NEW p \in Cache!Queries, Cache!receive(q) PROVE CaughtUp(p)'
    <3>1. fetch[q].pc = "back" /\ Agrees(q, fetch[q].data)
      BY <1>3, <2>3 DEF Cache!receive, CaughtUp
    <3>2. CASE p = q
      BY <2>3, <3>1, <3>2 DEF Cache!receive, CaughtUp, Agrees, Cache!NoFetch, CacheInv, CacheTypes
    <3>3. CASE p # q /\ q = "thread" /\ p \in Emails
      <4>1. fetch[q].data = held
        BY <3>1, <3>3 DEF Agrees, Lists
      <4>2. cache'[p] = held /\ fetch'[p] = fetch[p] /\ held' = held
        BY <2>3, <3>3, <4>1 DEF Cache!receive, CacheInv, CacheTypes
      <4>3. CaughtUp(p)
        BY <1>3
      <4>. QED BY <4>2, <4>3 DEF CaughtUp, Agrees, CacheInv, CacheTypes
    <3>4. CASE p # q /\ ~(q = "thread" /\ p \in Emails)
      <4>1. cache'[p] = cache[p] /\ fetch'[p] = fetch[p] /\ held' = held
        BY <2>3, <3>4 DEF Cache!receive, CacheInv, CacheTypes
      <4>2. CaughtUp(p)
        BY <1>3
      <4>. QED BY <4>1, <4>2 DEF CaughtUp, Agrees
    <3>. QED BY <3>2, <3>3, <3>4
  <2>. QED BY <2>1, <2>2, <2>3
<1>. QED BY <1>1, <1>2, <1>3 DEF CacheInv, Unsettled

\* Every query is asked anew.
LEMMA Invalidated ==
  ASSUME CacheInv, Cache!invalidateEmailData
  PROVE  (\A q \in Cache!Queries : CaughtUp(q)')
         /\ fetch' \in [Cache!Queries -> [pc : {"none", "asked", "back"}, data : Cache!Flags]]
<1>1. Cache!Asked \in [pc : {"none", "asked", "back"}, data : Cache!Flags] /\ Cache!Asked.pc = "asked"
  BY DEF Cache!Asked, Cache!NoFlags, Cache!Flags
<1>. QED BY <1>1 DEF Cache!invalidateEmailData, CaughtUp

LEMMA BeginCacheInv ==
  ASSUME CacheInv, NEW m \in Mutations,
         Cache!markThreadRead(m) \/ \E e \in Emails, b \in BOOLEAN : Cache!updateEmail(m, e, b)
  PROVE  CacheInv'
<1>1. CASE Cache!markThreadRead(m)
  <2>1. mut' = [mut EXCEPT ![m] = [Cache!NotCalled EXCEPT !.kind = "thread", !.pc = "sent",
          !.to = TRUE]]
        /\ UNCHANGED <<held, cache, fetch, polls, lost>> /\ mut[m].pc = "idle"
    BY <1>1 DEF Cache!markThreadRead
  <2>2. [Cache!NotCalled EXCEPT !.kind = "thread", !.pc = "sent", !.to = TRUE] \in Call
    BY DEF Cache!NotCalled, Call
  <2>3. CacheTypes'
    BY <2>1, <2>2 DEF CacheInv, CacheTypes, Cache!NotCalled
  <2>4. \A n \in Mutations : Unsettled(n) => Unsettled(n)'
    BY <2>1 DEF Unsettled, CacheInv, CacheTypes
  <2>5. \A q \in Cache!Queries : CaughtUp(q) => CaughtUp(q)'
    BY <2>1 DEF CaughtUp, Agrees
  <2>. QED BY <2>1, <2>3, <2>4, <2>5 DEF CacheInv
<1>2. ASSUME NEW e \in Emails, NEW b \in BOOLEAN, Cache!updateEmail(m, e, b) PROVE CacheInv'
  <2>1. /\ mut' = [mut EXCEPT ![m] = [kind |-> "flag", pc |-> "sent", id |-> e, to |-> b,
             before |-> cache]]
        /\ fetch' = [fetch EXCEPT !["list"] = Cache!NoFetch]
        /\ cache' = [cache EXCEPT !["list"] = Cache!patch("list", e, b), ![e] = Cache!patch(e, e, b)]
        /\ UNCHANGED <<held, polls, lost>>
    BY <1>2 DEF Cache!updateEmail
  <2>2. [kind |-> "flag", pc |-> "sent", id |-> e, to |-> b, before |-> cache] \in Call
    BY DEF Call, CacheInv, CacheTypes
  <2>3. Cache!patch("list", e, b) \in Cache!Flags /\ Cache!patch(e, e, b) \in Cache!Flags
          /\ Cache!NoFlags \in Cache!Flags
    BY DEF Cache!patch, CacheInv, CacheTypes, Cache!Flags, Cache!Queries, Cache!NoFlags
  <2>4. CacheTypes'
    <3>1. cache' \in [Cache!Queries -> Cache!Flags]
      BY <2>1, <2>3 DEF CacheInv, CacheTypes
    <3>2. fetch' \in [Cache!Queries -> [pc : {"none", "asked", "back"}, data : Cache!Flags]]
      BY <2>1, <2>3 DEF CacheInv, CacheTypes, Cache!NoFetch
    <3>3. mut' \in [Mutations -> Call]
      BY <2>1, <2>2 DEF CacheInv, CacheTypes
    <3>4. \A n \in Mutations : mut'[n].pc \in {"sent", "applied"} /\ mut'[n].kind = "flag" =>
            mut'[n].id \in Emails /\ mut'[n].before \in [Cache!Queries -> Cache!Flags]
      BY <2>1 DEF CacheInv, CacheTypes
    <3>. QED BY <2>1, <3>1, <3>2, <3>3, <3>4 DEF CacheInv, CacheTypes
  <2>5. Unsettled(m)'
    BY <2>1 DEF Unsettled, CacheInv, CacheTypes
  <2>. QED BY <2>4, <2>5 DEF CacheInv
<1>. QED BY <1>1, <1>2

LEMMA ApplyCacheInv == ASSUME CacheInv, NEW m \in Mutations, Cache!apply(m) PROVE CacheInv'
<1>1. /\ mut[m].pc \in {"sent", "gaveUp"}
      /\ held' = [e \in Emails |-> IF mut[m].id \in {None, e} THEN mut[m].to ELSE held[e]]
      /\ lost' = (lost \/ mut[m].pc = "gaveUp")
      /\ mut' = [mut EXCEPT ![m].pc = IF mut[m].pc = "sent" THEN "applied" ELSE "done"]
      /\ UNCHANGED <<cache, fetch, polls>>
  BY DEF Cache!apply
<1>2. mut[m] \in Call
  BY DEF CacheInv, CacheTypes
<1>3. held' \in Cache!Flags /\ lost' \in BOOLEAN
  BY <1>1, <1>2 DEF CacheInv, CacheTypes, Cache!Flags, Call
<1>4. mut' \in [Mutations -> Call]
  BY <1>1, <1>2 DEF CacheInv, CacheTypes, Call
<1>5. \A n \in Mutations : mut'[n].pc \in {"sent", "applied"} /\ mut'[n].kind = "flag" =>
        mut'[n].id \in Emails /\ mut'[n].before \in [Cache!Queries -> Cache!Flags]
  BY <1>1, <1>2 DEF CacheInv, CacheTypes, Call
<1>6. CacheTypes'
  BY <1>1, <1>3, <1>4, <1>5 DEF CacheInv, CacheTypes
<1>7. lost' \/ Unsettled(m)'
  BY <1>1, <1>2 DEF Unsettled, CacheInv, CacheTypes, Call
<1>. QED BY <1>6, <1>7 DEF CacheInv

LEMMA SucceedCacheInv == ASSUME CacheInv, NEW m \in Mutations, Cache!succeed(m) PROVE CacheInv'
<1>1. /\ mut' = [mut EXCEPT ![m] = [Cache!NotCalled EXCEPT !.pc = "done"]]
      /\ UNCHANGED <<held, cache, polls, lost>> /\ Cache!invalidateEmailData
  BY DEF Cache!succeed
<1>2. [Cache!NotCalled EXCEPT !.pc = "done"] \in Call
  BY DEF Cache!NotCalled, Call
<1>3. CacheTypes'
  <2>1. fetch' \in [Cache!Queries -> [pc : {"none", "asked", "back"}, data : Cache!Flags]]
    BY <1>1, Invalidated
  <2>2. \A n \in Mutations : mut'[n] = mut[n] \/ mut'[n].pc = "done"
    BY <1>1 DEF CacheInv, CacheTypes
  <2>. QED BY <1>1, <1>2, <2>1, <2>2 DEF CacheInv, CacheTypes
<1>. QED BY <1>1, <1>3, Invalidated DEF CacheInv

LEMMA FailCacheInv == ASSUME CacheInv, NEW m \in Mutations, Cache!fail(m) PROVE CacheInv'
<1>1. PICK pc \in {"done", "gaveUp"} :
        mut' = [mut EXCEPT ![m] = [mut[m] EXCEPT !.pc = pc, !.before = None]]
  BY DEF Cache!fail
<1>2. mut[m].pc \in {"sent", "applied"} /\ UNCHANGED <<held, polls>>
  BY DEF Cache!fail
<1>3. mut[m] \in Call /\ mut' \in [Mutations -> Call]
      /\ \A n \in Mutations : (n # m /\ mut'[n] = mut[n]) \/ mut'[n].pc \in {"done", "gaveUp"}
  <2>1. mut[m] \in Call
    BY DEF CacheInv, CacheTypes
  <2>2. [mut[m] EXCEPT !.pc = pc, !.before = None] \in Call
        /\ [mut[m] EXCEPT !.pc = pc, !.before = None].pc = pc
    BY <2>1 DEF Call
  <2>. QED BY <1>1, <2>1, <2>2 DEF CacheInv, CacheTypes
<1>4. \A n \in Mutations : mut'[n].pc \in {"sent", "applied"} /\ mut'[n].kind = "flag" =>
        mut'[n].id \in Emails /\ mut'[n].before \in [Cache!Queries -> Cache!Flags]
  BY <1>3 DEF CacheInv, CacheTypes
<1>5. CASE mut[m].kind = "flag"
  <2>1. /\ cache' = [cache EXCEPT !["list"] = mut[m].before["list"],
                                  ![mut[m].id] = mut[m].before[mut[m].id]]
        /\ Cache!invalidateEmailData /\ UNCHANGED lost
    BY <1>5 DEF Cache!fail
  <2>2. mut[m].id \in Emails /\ mut[m].before \in [Cache!Queries -> Cache!Flags]
    BY <1>2, <1>5 DEF CacheInv, CacheTypes
  <2>3. cache' \in [Cache!Queries -> Cache!Flags]
    BY <2>1, <2>2 DEF CacheInv, CacheTypes, Cache!Queries
  <2>4. fetch' \in [Cache!Queries -> [pc : {"none", "asked", "back"}, data : Cache!Flags]]
    BY <2>1, Invalidated
  <2>5. CacheTypes'
    BY <1>2, <1>3, <1>4, <2>1, <2>3, <2>4 DEF CacheInv, CacheTypes
  <2>. QED BY <2>1, <2>5, Invalidated DEF CacheInv
<1>6. CASE mut[m].kind # "flag"
  <2>1. lost' = (lost \/ mut[m].pc = "applied") /\ UNCHANGED <<cache, fetch>>
    BY <1>6 DEF Cache!fail
  <2>2. lost' \in BOOLEAN
    BY <2>1 DEF CacheInv, CacheTypes
  <2>3. CacheTypes'
    BY <1>2, <1>3, <1>4, <2>1, <2>2 DEF CacheInv, CacheTypes
  <2>4. ASSUME ~lost' PROVE (\E n \in Mutations : Unsettled(n)')
                 \/ (\A q \in Cache!Queries : CaughtUp(q)')
    <3>1. ~lost /\ ~Unsettled(m)
      BY <2>4, <2>1, <1>6 DEF Unsettled
    <3>2. \A n \in Mutations : Unsettled(n) => Unsettled(n)'
      <4>1. ASSUME NEW n \in Mutations, Unsettled(n) PROVE Unsettled(n)'
        <5>1. n # m
          BY <3>1, <4>1
        <5>2. mut'[n] = mut[n]
          BY <1>1, <5>1 DEF CacheInv, CacheTypes
        <5>. QED BY <4>1, <5>2 DEF Unsettled
      <4>. QED BY <4>1
    <3>3. \A q \in Cache!Queries : CaughtUp(q) => CaughtUp(q)'
      BY <1>2, <2>1 DEF CaughtUp, Agrees
    <3>. QED BY <3>1, <3>2, <3>3 DEF CacheInv
  <2>. QED BY <2>3, <2>4 DEF CacheInv
<1>. QED BY <1>5, <1>6

LEMMA NextCacheInv == ASSUME CacheConstants, CacheInv, [Cache!Next]_(Cache!vars) PROVE CacheInv'
<1>1. CASE UNCHANGED Cache!vars
  BY <1>1 DEF Cache!vars, CacheInv, CacheTypes, CaughtUp, Agrees, Unsettled
<1>. QED BY <1>1, FetchCacheInv, BeginCacheInv, ApplyCacheInv, SucceedCacheInv,
    FailCacheInv DEF Cache!Next

LEMMA CacheInvAgrees == ASSUME CacheInv PROVE Cache!TypeOK /\ Cache!ViewsAgreeWithServer
<1>1. Cache!TypeOK
  BY DEF CacheInv, CacheTypes, Cache!TypeOK, Call
<1>2. ASSUME Cache!quiet, ~lost PROVE \A q \in Cache!Queries : Agrees(q, cache[q])
  BY <1>2 DEF CacheInv, Cache!quiet, Unsettled, CaughtUp
<1>3. Cache!ViewsAgreeWithServer
  BY <1>2 DEF Cache!ViewsAgreeWithServer, Agrees, Lists, Cache!Queries
<1>. QED BY <1>1, <1>3

\* Whatever crosses what: once no call is under way, every view of the client
\* shows what the server holds, unless a change was made it never heard of.
THEOREM ClientCatchesUp == ASSUME CacheConstants
PROVE Cache!Spec => [](Cache!TypeOK /\ Cache!ViewsAgreeWithServer)
<1>1. Cache!Init => CacheInv
  BY InitCacheInv
<1>2. CacheInv /\ [Cache!Next]_(Cache!vars) => CacheInv'
  BY NextCacheInv
<1>3. CacheInv => Cache!TypeOK /\ Cache!ViewsAgreeWithServer
  BY CacheInvAgrees
<1>. QED BY <1>1, <1>2, <1>3, PTL DEF Cache!Spec

-----------------------------------------------------------------------------
(* The three tiers of settings, their caches and how they resolve: SettingsStore. *)

CONSTANTS Matches, Addresses, Senders, Covers, Isolates, Requests, Readers, Legacy, Bodies, Rules,
          NewDomains, Seeded, OwnDomain, MaxMisses, MaxPuts
VARIABLES store, known, req, last, misses, puts
Tiers == INSTANCE SettingsStore WITH
  cache <- known, faults <- misses, MaxFaults <- MaxMisses, Domains <- NewDomains

\* A tier as an object holds it: a record of the fields, and nothing else.
Stored(b) == Tiers!isTier(b) /\ b = [f \in DOMAIN Tiers!absent |-> b[f]]
\* What the constants are: what an object may hold is a tier, and None is no
\* tier nor anything a tier says.
SettingConstants ==
  /\ \A k \in Tiers!Kinds : \A b \in (Legacy[k] \ {None}) \cup Bodies[k] : Stored(b)
  /\ Rules \subseteq Tiers!Rule /\ MaxMisses \in Nat /\ MaxPuts \in Nat
  /\ ~Tiers!isTier(None)
  /\ None \notin Tiers!SecuritySettings \cup Tiers!IntelSettings \cup Tiers!NewEmailWebhookSettings

\* What a request has read: nothing where nothing is stored.
ReadFits(q) ==
  /\ q.what.op \in Tiers!Ops /\ q.kind \in Tiers!Kinds /\ q.iso \in Isolates
  /\ q.blob # None => Stored(q.blob)
  /\ store[q.kind] = None => q.blob = None
  /\ q.kind = "mailbox" => q.blob # None
\* What it came for.
AskFits(q) ==
  /\ q.what.op = "form" => Stored(q.what.arg) /\ (q.kind = "mailbox" => q.what.arg.honeypot = None)
  /\ q.what.op \in {"addRule", "dropRule"} => q.what.arg \in Tiers!Rule
  /\ q.what.op \in {"addDomain", "dropDomain"} => q.kind = "org"
\* An entry is of a tier, and an empty one where nothing is stored.
EntryFits(k, e) == e # None => Stored(e.settings) /\ (store[k] = None => e.settings = Tiers!absent)
SettingInv ==
  /\ DOMAIN store = Tiers!Kinds /\ (\A k \in Tiers!Kinds : store[k] # None => Stored(store[k]))
  /\ store["mailbox"] # None
  /\ DOMAIN known = Isolates /\ (\A i \in Isolates, k \in Tiers!Cached : EntryFits(k, known[i][k]))
  /\ (\A i \in Isolates : DOMAIN known[i] = Tiers!Cached)
  /\ DOMAIN req = Requests /\ (\A r \in Requests : req[r] # None => ReadFits(req[r]) /\ AskFits(req[r]))
  /\ misses \in 0 .. MaxMisses /\ puts \in 0 .. MaxPuts
  /\ Tiers!WritersKeepToTheirFields

LEMMA FieldsAre ==
  DOMAIN Tiers!absent = {"security", "intel", "webhook", "sidecar", "relay", "model", "rest",
    "rules", "domains", "honeypot"}
BY DEF Tiers!absent

LEMMA AbsentIsStored == SettingConstants => Stored(Tiers!absent)
<1>1. Tiers!absent = [f \in DOMAIN Tiers!absent |-> Tiers!absent[f]]
  BY DEF Tiers!absent
<1>2. Tiers!absent.security = None /\ Tiers!absent.intel = None /\ Tiers!absent.webhook = None
        /\ Tiers!absent.rules = {}
  BY DEF Tiers!absent
<1>. QED BY <1>1, <1>2 DEF Stored, Tiers!isTier

\* A change of one field leaves the others.
LEMMA Changes ==
  ASSUME NEW b, Stored(b), NEW g \in DOMAIN Tiers!absent, NEW v, NEW c, c = [b EXCEPT ![g] = v]
  PROVE  /\ DOMAIN c = DOMAIN Tiers!absent /\ c = [f \in DOMAIN Tiers!absent |-> c[f]]
         /\ c[g] = v /\ \A f \in DOMAIN Tiers!absent : f # g => c[f] = b[f]
<1>. DEFINE D == DOMAIN Tiers!absent
<1>1. DOMAIN b = D /\ b = [f \in D |-> b[f]]
  BY DEF Stored, Tiers!isTier
<1>. HIDE DEF D
<1>2. g \in D
  BY DEF D
<1>3. DOMAIN c = D /\ c = [f \in D |-> c[f]] /\ c[g] = v /\ \A f \in D : f # g => c[f] = b[f]
  BY <1>1, <1>2
<1>. QED BY <1>3 DEF D

\* What stripDefaultEqual leaves.
LEMMA Strips ==
  ASSUME NEW b, Tiers!isTier(b), NEW c, c = Tiers!stripDefaultEqual(b)
  PROVE  /\ DOMAIN c = DOMAIN Tiers!absent /\ c = [f \in DOMAIN Tiers!absent |-> c[f]]
         /\ \A f \in DOMAIN Tiers!absent : c[f] \in {b[f], None}
         /\ c.rules = b.rules /\ c.domains = b.domains /\ c.honeypot = b.honeypot
         /\ c.sidecar = b.sidecar /\ c.relay = b.relay
         /\ Tiers!isTier(c)
<1>. DEFINE D == DOMAIN Tiers!absent
<1>1. DOMAIN b = D
  BY DEF Tiers!isTier
<1>2. c = [f \in D |-> IF Tiers!isDefaultEqual(f, b[f]) THEN None ELSE b[f]]
  BY <1>1 DEF Tiers!stripDefaultEqual
<1>3. {"security", "intel", "webhook", "sidecar", "relay", "rules", "domains", "honeypot"} \subseteq D
  BY FieldsAre
<1>. HIDE DEF D
<1>4. DOMAIN c = D /\ c = [f \in D |-> c[f]] /\ \A f \in D : c[f] \in {b[f], None}
  BY <1>2
<1>5. \A f \in {"sidecar", "relay", "rules", "domains", "honeypot"} :
        \A v : ~Tiers!isDefaultEqual(f, v)
  BY DEF Tiers!isDefaultEqual
<1>6. c.rules = b.rules /\ c.domains = b.domains /\ c.honeypot = b.honeypot
      /\ c.sidecar = b.sidecar /\ c.relay = b.relay
  BY <1>2, <1>3, <1>5
<1>7. c.security \in {b.security, None} /\ c.intel \in {b.intel, None}
        /\ c.webhook \in {b.webhook, None}
  BY <1>3, <1>4
<1>8. Tiers!isTier(c)
  BY <1>1, <1>4, <1>6, <1>7 DEF Tiers!isTier, D
<1>. QED BY <1>4, <1>6, <1>8 DEF D

\* What the lenient read makes of a tier: the webhook, the rules and the
\* allowlists above all; of a valid one, itself.
LEMMA Parses ==
  ASSUME SettingConstants, NEW k \in Tiers!Kinds, NEW b, Stored(b), NEW c,
           c = Tiers!parseSettingsLenient(k, b)
  PROVE  /\ Stored(c)
         /\ Tiers!malformed(k, b) = {} => c = b
         /\ b.rest = "bad" => c = Tiers!absent
         /\ b.rest # "bad" => c.webhook = (IF b.webhook = "bad" THEN "off" ELSE b.webhook)
<1>. DEFINE m == Tiers!malformed(k, b)
<1>1. "rest" \in m <=> b.rest = "bad"
  BY DEF Tiers!malformed
<1>2. "webhook" \in m <=> b.webhook = "bad"
  BY DEF Tiers!malformed
<1>3. m \cap {"hub", "feeds"} # {} => b.intel # None
  BY DEF Tiers!malformed
<1>4. b \in [DOMAIN Tiers!absent -> {b[f] : f \in DOMAIN Tiers!absent}]
  BY DEF Stored
<1>5. CASE b.rest = "bad"
  <2>1. c = Tiers!absent
    BY <1>1, <1>5 DEF Tiers!parseSettingsLenient
  <2>. QED BY <1>1, <1>5, <2>1, AbsentIsStored
<1>6. CASE b.rest # "bad"
  <2>1. c = Tiers!salvage(b, m)
    BY <1>1, <1>6 DEF Tiers!parseSettingsLenient
  <2>. HIDE DEF m
  <2>. DEFINE i == IF m \cap {"hub", "feeds"} = {} THEN b.intel
                   ELSE [hub |-> IF "hub" \in m THEN None ELSE b.intel.hub,
                     feeds |-> b.intel.feeds \ {"bad"}]
              s == IF "sidecar" \in m THEN None ELSE b.sidecar
              y == IF "relay" \in m THEN None ELSE b.relay
              w == IF "webhook" \in m THEN "off" ELSE b.webhook
  <2>2. c = [b EXCEPT !.intel = i, !.sidecar = s, !.relay = y, !.webhook = w]
    BY <2>1 DEF Tiers!salvage
  <2>3. i # None => i \in Tiers!IntelSettings
    <3>1. CASE m \cap {"hub", "feeds"} = {}
      BY <3>1 DEF Stored, Tiers!isTier
    <3>2. CASE m \cap {"hub", "feeds"} # {}
      <4>1. b.intel \in Tiers!IntelSettings
        BY <1>3, <3>2 DEF Stored, Tiers!isTier
      <4>2. i.hub \in {None, "ok", "bad"} /\ i.feeds \in SUBSET {"good", "bad"}
        BY <3>2, <4>1 DEF Tiers!IntelSettings
      <4>. QED BY <3>2, <4>2 DEF Tiers!IntelSettings
    <3>. QED BY <3>1, <3>2
  <2>4. w # None => w \in Tiers!NewEmailWebhookSettings
    BY DEF Stored, Tiers!isTier, Tiers!NewEmailWebhookSettings
  <2>5. m = {} => i = b.intel /\ s = b.sidecar /\ y = b.relay /\ w = b.webhook
    OBVIOUS
  <2>6. w = IF b.webhook = "bad" THEN "off" ELSE b.webhook
    BY <1>2 DEF m
  <2>. HIDE DEF i, s, y, w
  <2>7. /\ DOMAIN c = DOMAIN Tiers!absent /\ c = [f \in DOMAIN Tiers!absent |-> c[f]]
        /\ c.intel = i /\ c.webhook = w /\ c.security = b.security /\ c.rules = b.rules
        /\ (i = b.intel /\ s = b.sidecar /\ y = b.relay /\ w = b.webhook => c = b)
    <3>1. DOMAIN b = DOMAIN Tiers!absent /\ b = [f \in DOMAIN Tiers!absent |-> b[f]]
      BY DEF Stored, Tiers!isTier
    <3>. QED BY <2>2, <3>1, FieldsAre
  <2>8. Stored(c)
    <3>1. b.security # None => b.security \in Tiers!SecuritySettings
      BY DEF Stored, Tiers!isTier
    <3>2. b.rules \subseteq Tiers!Rule
      BY DEF Stored, Tiers!isTier
    <3>. QED BY <2>3, <2>4, <2>7, <3>1, <3>2 DEF Stored, Tiers!isTier
  <2>. QED BY <1>6, <2>5, <2>6, <2>7, <2>8 DEF m
<1>. QED BY <1>5, <1>6

\* What a form puts back: a tier, with what other routes own as it was.
LEMMA Merges ==
  ASSUME SettingConstants, NEW k \in Tiers!Kinds, NEW c, Stored(c), NEW arg, Stored(arg),
         k = "mailbox" => arg.honeypot = None, NEW n, n = Tiers!merged(k, c,
           Tiers!stripDefaultEqual(arg))
  PROVE  /\ Stored(n) /\ n.rules = c.rules
         /\ k = "mailbox" => n.honeypot = c.honeypot
         /\ k = "org" => n.domains = c.domains /\ (Tiers!hasFeeds(c) => Tiers!hasFeeds(n))
<1>. DEFINE s == Tiers!stripDefaultEqual(arg)
<1>1. /\ Tiers!isTier(arg) /\ DOMAIN s = DOMAIN Tiers!absent
           /\ s = [f \in DOMAIN Tiers!absent |-> s[f]] /\ Tiers!isTier(s)
      /\ s.honeypot = arg.honeypot
  <2>1. Tiers!isTier(arg)
    BY DEF Stored
  <2>. QED BY <2>1, Strips
<1>2. Stored(s)
  BY <1>1 DEF Stored
<1>3. c.rules \subseteq Tiers!Rule
  BY DEF Stored, Tiers!isTier
<1>4. n = Tiers!merged(k, c, s)
  OBVIOUS
<1>. HIDE DEF s
<1>5. /\ s.security # None => s.security \in Tiers!SecuritySettings
      /\ s.intel # None => s.intel \in Tiers!IntelSettings
      /\ s.webhook # None => s.webhook \in Tiers!NewEmailWebhookSettings
  BY <1>1 DEF Tiers!isTier
<1>6. CASE k = "mailbox"
  <2>. DEFINE h == IF c.honeypot # None THEN c.honeypot ELSE s.honeypot
              e == c.rules
  <2>1. n = [s EXCEPT !.rules = e, !.honeypot = h]
    BY <1>4, <1>6 DEF Tiers!merged, Tiers!preserveOwnedMailboxFields
  <2>2. h = c.honeypot
    BY <1>1, <1>6
  <2>3. e \subseteq Tiers!Rule
    BY <1>3
  <2>. HIDE DEF h, e
  <2>4. /\ DOMAIN n = DOMAIN Tiers!absent /\ n = [f \in DOMAIN Tiers!absent |-> n[f]]
        /\ n.rules = e /\ n.honeypot = h /\ n.security = s.security /\ n.intel = s.intel
             /\ n.webhook = s.webhook
    BY <1>1, <2>1, FieldsAre
  <2>5. Stored(n)
    BY <1>5, <2>3, <2>4 DEF Stored, Tiers!isTier
  <2>. QED BY <1>6, <2>2, <2>4, <2>5 DEF e
<1>7. CASE k = "domain"
  <2>. DEFINE e == c.rules
  <2>1. n = [s EXCEPT !.rules = e]
    BY <1>4, <1>7 DEF Tiers!merged, Tiers!mergeDomainSettingsPut
  <2>3. e \subseteq Tiers!Rule
    BY <1>3
  <2>. HIDE DEF e
  <2>4. /\ DOMAIN n = DOMAIN Tiers!absent /\ n = [f \in DOMAIN Tiers!absent |-> n[f]]
        /\ n.rules = e /\ n.security = s.security /\ n.intel = s.intel /\ n.webhook = s.webhook
    BY <1>1, <2>1, FieldsAre
  <2>5. Stored(n)
    BY <1>5, <2>3, <2>4 DEF Stored, Tiers!isTier
  <2>. QED BY <1>7, <2>4, <2>5 DEF e
<1>8. CASE k = "org"
  <2>. DEFINE e == c.rules
              d == c.domains
              i == IF Tiers!hasFeeds(c) /\ ~Tiers!hasFeeds(s)
                   THEN [hub |-> IF s.intel = None THEN None ELSE s.intel.hub, feeds |-> c.intel.feeds]
                   ELSE s.intel
  <2>1. n = [s EXCEPT !.domains = d, !.rules = e, !.intel = i]
    BY <1>4, <1>8 DEF Tiers!merged, Tiers!mergeOrgSettingsPut
  <2>3. e \subseteq Tiers!Rule
    BY <1>3
  <2>6. (i # None => i \in Tiers!IntelSettings) /\ (Tiers!hasFeeds(c) => i # None /\ i.feeds # {})
    <3>1. CASE Tiers!hasFeeds(c) /\ ~Tiers!hasFeeds(s)
      <4>1. c.intel \in Tiers!IntelSettings /\ c.intel.feeds # {}
        BY <3>1 DEF Tiers!hasFeeds, Stored, Tiers!isTier
      <4>2. s.intel # None => s.intel.hub \in {None, "ok", "bad"}
        BY <1>5 DEF Tiers!IntelSettings
      <4>3. i.hub \in {None, "ok", "bad"} /\ i.feeds = c.intel.feeds
        BY <3>1, <4>2
      <4>4. i \in Tiers!IntelSettings
        BY <3>1, <4>1, <4>2 DEF Tiers!IntelSettings
      <4>. QED BY <4>1, <4>3, <4>4 DEF SettingConstants
    <3>2. CASE Tiers!hasFeeds(c) /\ Tiers!hasFeeds(s)
      BY <1>5, <3>2 DEF Tiers!hasFeeds
    <3>3. CASE ~Tiers!hasFeeds(c)
      BY <1>5, <3>3
    <3>. QED BY <3>1, <3>2, <3>3
  <2>. HIDE DEF d, e, i
  <2>4. /\ DOMAIN n = DOMAIN Tiers!absent /\ n = [f \in DOMAIN Tiers!absent |-> n[f]]
        /\ n.rules = e /\ n.domains = d /\ n.security = s.security /\ n.intel = i
             /\ n.webhook = s.webhook
    BY <1>1, <2>1, FieldsAre
  <2>5. Stored(n)
    BY <1>5, <2>3, <2>4, <2>6 DEF Stored, Tiers!isTier
  <2>7. Tiers!hasFeeds(c) => Tiers!hasFeeds(n)
    BY <2>4, <2>6 DEF Tiers!hasFeeds
  <2>. QED BY <1>8, <2>4, <2>5, <2>7 DEF d, e
<1>. QED BY <1>6, <1>7, <1>8 DEF Tiers!Kinds

\* A change of one field that is neither of the typed blocks puts back a tier
\* that differs in that field alone, defaults aside.
LEMMA Alters ==
  ASSUME SettingConstants, NEW c, Stored(c), NEW g \in {"rules", "domains", "honeypot"}, NEW v,
         g = "rules" => v \subseteq Tiers!Rule, NEW n, n = Tiers!stripDefaultEqual([c EXCEPT ![g] = v])
  PROVE  Stored(n) /\ \A f \in DOMAIN Tiers!absent : f # g => n[f] = Tiers!stripDefaultEqual(c)[f]
<1>. DEFINE b == [c EXCEPT ![g] = v]
<1>1. g \in DOMAIN Tiers!absent
  BY FieldsAre
<1>2. /\ DOMAIN b = DOMAIN Tiers!absent /\ b = [f \in DOMAIN Tiers!absent |-> b[f]]
      /\ b[g] = v /\ \A f \in DOMAIN Tiers!absent : f # g => b[f] = c[f]
  BY <1>1, Changes
<1>3. n = Tiers!stripDefaultEqual(b)
  OBVIOUS
<1>. HIDE DEF b
<1>4. b.security = c.security /\ b.intel = c.intel /\ b.webhook = c.webhook
      /\ (b.rules = c.rules \/ (g = "rules" /\ b.rules = v))
  BY <1>2, FieldsAre
<1>5. Tiers!isTier(b)
  BY <1>2, <1>4 DEF Stored, Tiers!isTier
<1>6. Stored(n)
  BY <1>3, <1>5, Strips DEF Stored
<1>7. ASSUME NEW f \in DOMAIN Tiers!absent, f # g PROVE n[f] = Tiers!stripDefaultEqual(c)[f]
  <2>1. b[f] = c[f] /\ DOMAIN b = DOMAIN Tiers!absent /\ DOMAIN c = DOMAIN Tiers!absent
    BY <1>2, <1>7 DEF Stored, Tiers!isTier
  <2>. QED BY <1>3, <2>1 DEF Tiers!stripDefaultEqual
<1>. QED BY <1>6, <1>7

LEMMA EntryIsTier ==
  ASSUME SettingConstants, NEW k \in Tiers!Kinds, NEW blob, blob # None => Stored(blob)
  PROVE  /\ Stored(Tiers!entry(k, blob).settings)
         /\ Tiers!entry(k, blob).settings = IF blob =
              None THEN Tiers!absent ELSE Tiers!parseSettingsLenient(k, blob)
<1>1. Tiers!entry(k, blob).settings = IF blob =
        None THEN Tiers!absent ELSE Tiers!parseSettingsLenient(k, blob)
  BY DEF Tiers!entry
<1>2. Stored(Tiers!entry(k, blob).settings)
  BY <1>1, AbsentIsStored, Parses
<1>. QED BY <1>1, <1>2

\* What remember leaves in the cache fits.
LEMMA RememberFits ==
  ASSUME SettingConstants, NEW k \in Tiers!Kinds, NEW c, EntryFits(k, c), NEW blob, blob # None =>
           Stored(blob),
         store[k] = None => blob = None
  PROVE  EntryFits(k, Tiers!remember(c, k, blob)) /\ Stored(Tiers!remember(c, k, blob).settings)
<1>1. Stored(Tiers!entry(k, blob).settings) /\ (blob = None =>
        Tiers!entry(k, blob).settings = Tiers!absent)
  BY EntryIsTier
<1>. QED BY <1>1 DEF Tiers!remember, EntryFits

\* The settings a request goes on with are a tier; those of the object, if it
\* holds what the request read and that is valid.
LEMMA CurrentIsTier ==
  ASSUME SettingConstants, SettingInv, NEW r \in Requests, NEW q, q = req[r], q # None,
           ~Tiers!nothingToDo(q)
  PROVE  Stored(Tiers!current(q))
<1>1. ReadFits(q)
  BY DEF SettingInv
<1>2. CASE q.kind = "mailbox"
  <2>1. ~q.failed
    BY <1>2 DEF Tiers!nothingToDo
  <2>2. Tiers!current(q) = q.blob
    BY <1>2, <2>1 DEF Tiers!current
  <2>. QED BY <1>1, <1>2, <2>2 DEF ReadFits
<1>3. CASE q.kind # "mailbox"
  <2>1. q.kind \in Tiers!Kinds /\ q.kind \in Tiers!Cached /\ q.iso \in Isolates
    BY <1>1, <1>3 DEF ReadFits, Tiers!Kinds, Tiers!Cached
  <2>2. EntryFits(q.kind, known[q.iso][q.kind])
    BY <2>1 DEF SettingInv
  <2>3. CASE q.failed
    <3>1. Tiers!current(q) = Tiers!fallback(known[q.iso][q.kind])
      BY <1>3, <2>3 DEF Tiers!current
    <3>. QED BY <2>2, <3>1, AbsentIsStored DEF Tiers!fallback, EntryFits
  <2>4. CASE ~q.failed
    <3>1. Tiers!current(q) = Tiers!remember(known[q.iso][q.kind], q.kind, q.blob).settings
      BY <1>3, <2>4 DEF Tiers!current
    <3>. QED BY <1>1, <2>1, <2>2, <3>1, RememberFits DEF ReadFits
  <2>. QED BY <2>3, <2>4
<1>. QED BY <1>2, <1>3

LEMMA AloneIsCurrent ==
  ASSUME SettingConstants, SettingInv, NEW r \in Requests, NEW q, q = req[r], q # None,
         ~q.failed, store[q.kind] = q.blob, NEW before, before = (IF q.blob =
           None THEN Tiers!absent ELSE q.blob),
         Tiers!malformed(q.kind, before) = {}
  PROVE  Tiers!current(q) = before
<1>1. ReadFits(q)
  BY DEF SettingInv
<1>2. CASE q.kind = "mailbox"
  BY <1>1, <1>2 DEF Tiers!current, ReadFits
<1>3. CASE q.kind # "mailbox"
  <2>1. q.kind \in Tiers!Kinds /\ q.kind \in Tiers!Cached /\ q.iso \in Isolates
    BY <1>1, <1>3 DEF ReadFits, Tiers!Kinds, Tiers!Cached
  <2>2. EntryFits(q.kind, known[q.iso][q.kind])
    BY <2>1 DEF SettingInv
  <2>3. Tiers!current(q) = Tiers!remember(known[q.iso][q.kind], q.kind, q.blob).settings
    BY <1>3 DEF Tiers!current
  <2>4. CASE q.blob = None
    <3>1. Tiers!entry(q.kind, q.blob).settings = Tiers!absent
      BY <2>1, <2>4, EntryIsTier
    <3>. QED BY <2>2, <2>3, <2>4, <3>1 DEF Tiers!remember, EntryFits
  <2>5. CASE q.blob # None
    <3>1. Tiers!remember(known[q.iso][q.kind], q.kind, q.blob) = Tiers!entry(q.kind, q.blob)
      BY <2>5 DEF Tiers!remember
    <3>2. Stored(q.blob)
      BY <1>1, <2>5 DEF ReadFits
    <3>3. Tiers!entry(q.kind, q.blob).settings = Tiers!parseSettingsLenient(q.kind, q.blob)
      BY <2>1, <2>5, <3>2, EntryIsTier
    <3>4. Tiers!parseSettingsLenient(q.kind, q.blob) = q.blob
      BY <2>1, <2>5, <3>2, Parses
    <3>. QED BY <2>3, <2>5, <3>1, <3>3, <3>4
  <2>. QED BY <2>4, <2>5
<1>. QED BY <1>2, <1>3

\* What a request puts back is a tier, and keeps what WritersKeepToTheirFields
\* says of it.
KeepsFields(k, op, before, after) ==
  LET kept(fs) == \A f \in fs : after[f] = before[f] \/ after[f] = Tiers!stripDefaultEqual(before)[f] IN
  /\ op = "form" =>
       /\ kept({"rules"})
       /\ k = "org" => (kept({"domains"}) /\ (Tiers!hasFeeds(before) => Tiers!hasFeeds(after)))
       /\ k = "mailbox" => kept({"honeypot"})
  /\ op \in {"addRule", "dropRule"} => kept(DOMAIN Tiers!absent \ {"rules"})
  /\ op \in {"addDomain", "dropDomain"} => kept(DOMAIN Tiers!absent \ {"domains"})

LEMMA ChangedIsTier ==
  ASSUME SettingConstants, NEW q, ReadFits(q), AskFits(q), NEW c, c = Tiers!current(q), Stored(c),
           ~Tiers!nothingToDo(q)
  PROVE  Stored(Tiers!changed(q)) /\ KeepsFields(q.kind, q.what.op, c, Tiers!changed(q))
<1>. DEFINE n == Tiers!changed(q)
<1>1. q.kind \in Tiers!Kinds /\ q.what.op \in Tiers!Ops /\ q.what.op # "read"
  BY DEF ReadFits, Tiers!nothingToDo
<1>2. CASE q.what.op = "form"
  <2>1. n = Tiers!merged(q.kind, c, Tiers!stripDefaultEqual(q.what.arg))
    BY <1>2 DEF Tiers!changed
  <2>2. Stored(q.what.arg) /\ (q.kind = "mailbox" => q.what.arg.honeypot = None)
    BY <1>2 DEF AskFits
  <2>. HIDE DEF n
  <2>3. /\ Stored(n) /\ n.rules = c.rules
        /\ q.kind = "mailbox" => n.honeypot = c.honeypot
        /\ q.kind = "org" => n.domains = c.domains /\ (Tiers!hasFeeds(c) => Tiers!hasFeeds(n))
    BY <1>1, <2>1, <2>2, Merges
  <2>. QED BY <1>2, <2>3 DEF KeepsFields, n
<1>3. CASE q.what.op \in {"addRule", "dropRule"}
  <2>1. c.rules \subseteq Tiers!Rule /\ q.what.arg \in Tiers!Rule
    BY <1>3 DEF Stored, Tiers!isTier, AskFits
  <2>2. PICK v : n = Tiers!stripDefaultEqual([c EXCEPT !.rules = v]) /\ v \subseteq Tiers!Rule
    <3>1. CASE q.what.op = "addRule"
      <4>1. n = Tiers!stripDefaultEqual([c EXCEPT !.rules = Tiers!appendRule(c.rules, q.what.arg)])
        BY <3>1 DEF Tiers!changed
      <4>2. Tiers!appendRule(c.rules, q.what.arg) \subseteq Tiers!Rule
        BY <2>1 DEF Tiers!appendRule
      <4>. QED BY <4>1, <4>2
    <3>2. CASE q.what.op = "dropRule"
      <4>1. n = Tiers!stripDefaultEqual([c EXCEPT !.rules = c.rules \ {q.what.arg}])
        BY <3>2 DEF Tiers!changed
      <4>. QED BY <2>1, <4>1
    <3>. QED BY <1>3, <3>1, <3>2
  <2>. HIDE DEF n
  <2>3. Stored(n) /\ \A f \in DOMAIN Tiers!absent : f # "rules" => n[f] = Tiers!stripDefaultEqual(c)[f]
    BY <2>2, Alters
  <2>. QED BY <1>3, <2>3 DEF KeepsFields, n
<1>4. CASE q.what.op \in {"addDomain", "dropDomain"}
  <2>2. PICK v : n = Tiers!stripDefaultEqual([c EXCEPT !.domains = v])
    <3>1. CASE q.what.op = "addDomain"
      <4>1. n = Tiers!stripDefaultEqual([c EXCEPT !.domains = c.domains \cup {q.what.arg}])
        BY <3>1 DEF Tiers!changed
      <4>. QED BY <4>1
    <3>2. CASE q.what.op = "dropDomain"
      <4>1. n = Tiers!stripDefaultEqual([c EXCEPT !.domains = c.domains \ {q.what.arg}])
        BY <3>2 DEF Tiers!changed
      <4>. QED BY <4>1
    <3>. QED BY <1>4, <3>1, <3>2
  <2>. HIDE DEF n
  <2>3. Stored(n) /\ \A f \in DOMAIN Tiers!absent : f # "domains" =>
          n[f] = Tiers!stripDefaultEqual(c)[f]
    BY <2>2, Alters
  <2>. QED BY <1>4, <2>3 DEF KeepsFields, n
<1>5. CASE q.what.op = "disableHoneypot"
  <2>1. n = Tiers!stripDefaultEqual([c EXCEPT !.honeypot = "disabled"])
    BY <1>5 DEF Tiers!changed
  <2>. HIDE DEF n
  <2>3. Stored(n)
    BY <2>1, Alters
  <2>. QED BY <1>5, <2>3 DEF KeepsFields, n
<1>. QED BY <1>1, <1>2, <1>3, <1>4, <1>5 DEF Tiers!Ops

(* ---------------------------------------------------------- preservation --- *)

LEMMA InitSettings == ASSUME SettingConstants, Tiers!Init PROVE SettingInv
<1>1. DOMAIN store = Tiers!Kinds /\ \A k \in Tiers!Kinds : store[k] \in Legacy[k]
  BY DEF Tiers!Init
<1>2. \A k \in Tiers!Kinds : store[k] # None => Stored(store[k])
  BY <1>1 DEF SettingConstants
<1>3. store["mailbox"] # None
  BY DEF Tiers!Init, Tiers!Kinds
<1>4. DOMAIN known = Isolates /\ (\A i \in Isolates : DOMAIN known[i] = Tiers!Cached)
      /\ \A i \in Isolates, k \in Tiers!Cached : known[i][k] = None
  BY DEF Tiers!Init
<1>5. \A i \in Isolates, k \in Tiers!Cached : EntryFits(k, known[i][k])
  BY <1>4 DEF EntryFits
<1>6. DOMAIN req = Requests /\ \A r \in Requests : req[r] = None
  BY DEF Tiers!Init
<1>7. misses \in 0 .. MaxMisses /\ puts \in 0 .. MaxPuts
  BY DEF Tiers!Init, SettingConstants
<1>8. Tiers!WritersKeepToTheirFields
  BY DEF Tiers!Init, Tiers!WritersKeepToTheirFields
<1>. QED BY <1>1, <1>2, <1>3, <1>4, <1>5, <1>6, <1>7, <1>8 DEF SettingInv

LEMMA FetchSettings ==
  ASSUME SettingConstants, SettingInv, NEW r \in Requests, NEW i \in Isolates, NEW k \in Tiers!Kinds,
         NEW failed \in BOOLEAN, NEW op \in Tiers!Ops, NEW arg, Tiers!fetch(r, i, k, [op |-> op,
           arg |-> arg], failed),
         op = "form" => arg \in Bodies[k], op \in {"addRule", "dropRule"} => arg \in Rules
  PROVE  SettingInv'
<1>. DEFINE what == [op |-> op, arg |-> arg]
            new == [iso |-> i, kind |-> k, what |-> what, blob |-> store[k], failed |-> failed]
<1>1. /\ req' = [req EXCEPT ![r] = new] /\ Tiers!allowed(i, k, what)
      /\ misses' = (IF failed THEN misses + 1 ELSE misses) /\ (failed => misses < MaxMisses)
      /\ UNCHANGED <<store, known, last, puts>>
  BY DEF Tiers!fetch
<1>2. what.op = op /\ what.arg = arg
  OBVIOUS
<1>3. /\ new.what = what /\ new.kind = k /\ new.iso = i /\ new.blob = store[k]
  OBVIOUS
<1>4. op \in {"addDomain", "dropDomain"} => k = "org"
  BY <1>1, <1>2 DEF Tiers!allowed
<1>5. op = "form" => (k = "mailbox" => arg.honeypot = None)
  BY <1>1, <1>2 DEF Tiers!allowed
<1>6. op = "form" => Stored(arg)
  BY DEF SettingConstants
<1>7. op \in {"addRule", "dropRule"} => arg \in Tiers!Rule
  BY DEF SettingConstants
<1>. HIDE DEF what, new
<1>8. AskFits(new)
  BY <1>2, <1>3, <1>4, <1>5, <1>6, <1>7 DEF AskFits
<1>9. ReadFits(new)
  BY <1>2, <1>3 DEF ReadFits, SettingInv
<1>11. \A q \in Requests : req'[q] = IF q = r THEN new ELSE req[q]
  BY <1>1 DEF SettingInv
<1>12. \A q \in Requests : req'[q] # None => ReadFits(req'[q]) /\ AskFits(req'[q])
  BY <1>8, <1>9, <1>11 DEF SettingInv
<1>13. \A q \in Requests : req'[q] # None => ReadFits(req[q])' /\ AskFits(req[q])'
  BY <1>1, <1>12 DEF ReadFits, AskFits
<1>14. misses' \in 0 .. MaxMisses /\ puts' \in 0 .. MaxPuts /\ DOMAIN req' = Requests
  BY <1>1 DEF SettingInv, SettingConstants
<1>15. \A j \in Isolates, m \in Tiers!Cached : EntryFits(m, known[j][m])'
  BY <1>1 DEF SettingInv, EntryFits
<1>16. Tiers!WritersKeepToTheirFields'
  BY <1>1 DEF SettingInv, Tiers!WritersKeepToTheirFields
<1>. QED BY <1>1, <1>13, <1>14, <1>15, <1>16 DEF SettingInv

\* Of settle and failWrite: the request ends, and its answer is remembered.
LEMMA EndSettings ==
  ASSUME SettingConstants, SettingInv, NEW r \in Requests, NEW q, q = req[r], q # None,
         req' = [req EXCEPT ![r] = None], UNCHANGED <<store, last, puts>>,
         misses' = misses \/ (misses < MaxMisses /\ misses' = misses + 1),
         IF q.kind = "mailbox" \/ q.failed THEN UNCHANGED known
         ELSE known' = [known EXCEPT ![q.iso][q.kind] = Tiers!remember(@, q.kind, q.blob)]
  PROVE  SettingInv'
<1>1. ReadFits(q)
  BY DEF SettingInv
<1>2. DOMAIN known' = Isolates /\ (\A i \in Isolates : DOMAIN known'[i] = Tiers!Cached)
      /\ \A i \in Isolates, k \in Tiers!Cached :
           known'[i][k] = known[i][k] \/ (k = q.kind
             /\ known'[i][k] = Tiers!remember(known[i][k], k, q.blob))
  BY <1>1 DEF SettingInv, ReadFits
<1>3. \A i \in Isolates, k \in Tiers!Cached : EntryFits(k, known'[i][k])
  <2>. SUFFICES ASSUME NEW i \in Isolates, NEW k \in Tiers!Cached PROVE EntryFits(k, known'[i][k])
    OBVIOUS
  <2>1. EntryFits(k, known[i][k]) /\ k \in Tiers!Kinds
    BY DEF SettingInv, Tiers!Cached, Tiers!Kinds
  <2>2. k = q.kind => EntryFits(k, Tiers!remember(known[i][k], k, q.blob))
    BY <1>1, <2>1, RememberFits DEF ReadFits
  <2>. QED BY <1>2, <2>1, <2>2
<1>4. \A i \in Isolates, k \in Tiers!Cached : EntryFits(k, known[i][k])'
  BY <1>3 DEF EntryFits
<1>5. DOMAIN req' = Requests /\ \A p \in Requests : req'[p] = IF p = r THEN None ELSE req[p]
  BY DEF SettingInv
<1>6. \A p \in Requests : req'[p] # None => ReadFits(req[p])' /\ AskFits(req[p])'
  BY <1>5 DEF SettingInv, ReadFits, AskFits
<1>7. misses' \in 0 .. MaxMisses
  BY DEF SettingInv, SettingConstants
<1>8. Tiers!WritersKeepToTheirFields'
  BY DEF SettingInv, Tiers!WritersKeepToTheirFields
<1>. QED BY <1>2, <1>4, <1>5, <1>6, <1>7, <1>8 DEF SettingInv

LEMMA WriteSettings ==
  ASSUME SettingConstants, SettingInv, NEW r \in Requests, Tiers!write(r) PROVE SettingInv'
<1>. DEFINE q == req[r]
            n == Tiers!changed(q)
            before == IF q.blob = None THEN Tiers!absent ELSE q.blob
<1>1. /\ q # None /\ ~Tiers!nothingToDo(q) /\ puts < MaxPuts /\ puts' = puts + 1 /\ misses' = misses
      /\ store' = [store EXCEPT ![q.kind] = n] /\ req' = [req EXCEPT ![r] = None]
      /\ last' = [kind |-> q.kind, op |-> q.what.op, before |-> q.blob, after |-> n,
                  alone |-> store[q.kind] = q.blob /\ ~q.failed]
      /\ IF q.kind = "mailbox" THEN UNCHANGED known
         ELSE known' = [known EXCEPT ![q.iso][q.kind] = None]
  BY DEF Tiers!write
<1>2. ReadFits(q) /\ AskFits(q)
  BY <1>1 DEF SettingInv
<1>3. Stored(Tiers!current(q))
  BY <1>1, CurrentIsTier
<1>4. Stored(n) /\ KeepsFields(q.kind, q.what.op, Tiers!current(q), n)
  BY <1>1, <1>2, <1>3, ChangedIsTier
<1>5. n # None
  BY <1>4 DEF Stored, SettingConstants
<1>6. (last'.alone /\ Tiers!malformed(q.kind, before) = {}) => Tiers!current(q) = before
  <2>1. SUFFICES ASSUME last'.alone, Tiers!malformed(q.kind, before) = {}
  PROVE Tiers!current(q) = before
    OBVIOUS
  <2>2. store[q.kind] = q.blob /\ ~q.failed
    BY <1>1, <2>1
  <2>. QED BY <1>1, <2>1, <2>2, AloneIsCurrent
<1>7. last'.kind = q.kind /\ last'.op = q.what.op /\ last'.before = q.blob /\ last'.after = n
  BY <1>1
<1>. HIDE DEF n, q, before
<1>8. Tiers!WritersKeepToTheirFields'
  <2>1. (last'.alone /\ Tiers!malformed(q.kind, before) = {}) =>
          KeepsFields(q.kind, q.what.op, before, n)
    BY <1>4, <1>6
  <2>2. before = IF last'.before = None THEN Tiers!absent ELSE last'.before
    BY <1>7 DEF before
  <2>. QED BY <1>7, <2>1, <2>2 DEF Tiers!WritersKeepToTheirFields, KeepsFields
<1>9. DOMAIN store' = Tiers!Kinds /\ q.kind \in Tiers!Kinds
        /\ \A k \in Tiers!Kinds : store'[k] = IF k = q.kind THEN n ELSE store[k]
  BY <1>1, <1>2 DEF SettingInv, ReadFits
<1>10. (\A k \in Tiers!Kinds : store'[k] # None => Stored(store'[k])) /\ store'["mailbox"] # None
  BY <1>4, <1>5, <1>9 DEF SettingInv, Tiers!Kinds
<1>11. DOMAIN known' = Isolates /\ (\A i \in Isolates : DOMAIN known'[i] = Tiers!Cached)
       /\ \A i \in Isolates, k \in Tiers!Cached : known'[i][k] \in {known[i][k], None}
  BY <1>1, <1>2 DEF SettingInv, ReadFits
<1>12. \A k \in Tiers!Kinds : store'[k] = None => store[k] = None
  BY <1>5, <1>9
<1>13. \A i \in Isolates, k \in Tiers!Cached : EntryFits(k, known[i][k])'
  <2>. SUFFICES ASSUME NEW i \in Isolates, NEW k \in Tiers!Cached PROVE EntryFits(k, known[i][k])'
    OBVIOUS
  <2>1. EntryFits(k, known[i][k]) /\ k \in Tiers!Kinds
    BY DEF SettingInv, Tiers!Cached, Tiers!Kinds
  <2>. QED BY <1>11, <1>12, <2>1 DEF EntryFits
<1>14. DOMAIN req' = Requests /\ \A p \in Requests : req'[p] = IF p = r THEN None ELSE req[p]
  BY <1>1 DEF SettingInv
<1>15. \A p \in Requests : req'[p] # None => ReadFits(req[p])' /\ AskFits(req[p])'
  BY <1>12, <1>14 DEF SettingInv, ReadFits, AskFits
<1>16. misses' \in 0 .. MaxMisses /\ puts' \in 0 .. MaxPuts
  BY <1>1 DEF SettingInv, SettingConstants
<1>. QED BY <1>8, <1>9, <1>10, <1>11, <1>13, <1>14, <1>15, <1>16 DEF SettingInv

\* A request begins, whatever it is for.
Begun(r, i, k, failed, op, arg) ==
  /\ Tiers!fetch(r, i, k, [op |-> op, arg |-> arg], failed) /\ op \in Tiers!Ops
  /\ op = "form" => arg \in Bodies[k]
  /\ op \in {"addRule", "dropRule"} => arg \in Rules

LEMMA NextSettings == ASSUME SettingConstants, SettingInv, [Tiers!Next]_(Tiers!vars) PROVE SettingInv'
<1>1. CASE Tiers!Next
  <2>0. PICK r \in Requests :
          \/ \E i \in Isolates, k \in Tiers!Kinds, failed \in BOOLEAN :
               \/ \E b \in Bodies[k] : Tiers!fetch(r, i, k, [op |-> "form", arg |-> b], failed)
               \/ \E op \in {"addRule", "dropRule"}, b \in Rules : Tiers!fetch(r, i, k, [op |-> op,
                    arg |-> b], failed)
               \/ \E op \in {"addDomain", "dropDomain"}, d \in NewDomains : Tiers!fetch(r, i, k,
                    [op |-> op, arg |-> d], failed)
               \/ \E op \in {"disableHoneypot", "read"} : Tiers!fetch(r, i, k, [op |-> op,
                    arg |-> None], failed)
          \/ Tiers!settle(r) \/ Tiers!write(r) \/ Tiers!failWrite(r)
    BY <1>1 DEF Tiers!Next
  <2>1. CASE \E i \in Isolates, k \in Tiers!Kinds, failed \in BOOLEAN :
               \/ \E b \in Bodies[k] : Tiers!fetch(r, i, k, [op |-> "form", arg |-> b], failed)
               \/ \E op \in {"addRule", "dropRule"}, b \in Rules : Tiers!fetch(r, i, k, [op |-> op,
                    arg |-> b], failed)
               \/ \E op \in {"addDomain", "dropDomain"}, d \in NewDomains : Tiers!fetch(r, i, k,
                    [op |-> op, arg |-> d], failed)
               \/ \E op \in {"disableHoneypot", "read"} : Tiers!fetch(r, i, k, [op |-> op,
                    arg |-> None], failed)
    <3>0. PICK i \in Isolates, k \in Tiers!Kinds, failed \in BOOLEAN :
            \/ \E b \in Bodies[k] : Tiers!fetch(r, i, k, [op |-> "form", arg |-> b], failed)
            \/ \E op \in {"addRule", "dropRule"}, b \in Rules : Tiers!fetch(r, i, k, [op |-> op,
                 arg |-> b], failed)
            \/ \E op \in {"addDomain", "dropDomain"}, d \in NewDomains : Tiers!fetch(r, i, k,
                 [op |-> op, arg |-> d], failed)
            \/ \E op \in {"disableHoneypot", "read"} : Tiers!fetch(r, i, k, [op |-> op,
                 arg |-> None], failed)
      BY <2>1
    <3>1. ASSUME NEW b \in Bodies[k] PROVE
            Tiers!fetch(r, i, k, [op |-> "form", arg |-> b], failed) =>
              Begun(r, i, k, failed, "form", b)
      BY DEF Begun, Tiers!Ops
    <3>2. ASSUME NEW op \in {"addRule", "dropRule"}, NEW b \in Rules PROVE
            Tiers!fetch(r, i, k, [op |-> op, arg |-> b], failed) => Begun(r, i, k, failed, op, b)
      BY DEF Begun, Tiers!Ops
    <3>3. ASSUME NEW op \in {"addDomain", "dropDomain", "disableHoneypot", "read"}, NEW d PROVE
            Tiers!fetch(r, i, k, [op |-> op, arg |-> d], failed) => Begun(r, i, k, failed, op, d)
      BY DEF Begun, Tiers!Ops
    <3>4. PICK op, arg : Begun(r, i, k, failed, op, arg)
      BY <3>0, <3>1, <3>2, <3>3
    <3>. QED BY <3>4, FetchSettings DEF Begun
  <2>2. CASE Tiers!settle(r) \/ Tiers!failWrite(r)
    <3>. DEFINE q == req[r]
    <3>1. /\ q # None /\ req' = [req EXCEPT ![r] = None] /\ UNCHANGED <<store, last, puts>>
          /\ misses' = misses \/ (misses < MaxMisses /\ misses' = misses + 1)
          /\ IF q.kind = "mailbox" \/ q.failed THEN UNCHANGED known
             ELSE known' = [known EXCEPT ![q.iso][q.kind] = Tiers!remember(@, q.kind, q.blob)]
      BY <2>2 DEF Tiers!settle, Tiers!failWrite
    <3>. QED BY <3>1, EndSettings
  <2>. QED BY <2>0, <2>1, <2>2, WriteSettings
<1>2. CASE UNCHANGED Tiers!vars
  <2>1. UNCHANGED <<store, known, req, last, misses, puts>>
    BY <1>2 DEF Tiers!vars
  <2>. QED BY <2>1 DEF SettingInv, EntryFits, ReadFits, AskFits, Tiers!WritersKeepToTheirFields
<1>. QED BY <1>1, <1>2

(* -------------------------------------------------------- how tiers resolve --- *)

LEMMA Ranks ==
  /\ Tiers!Rank["mailbox"] = 3 /\ Tiers!Rank["domain"] = 2 /\ Tiers!Rank["org"] = 1
  /\ \A k \in Tiers!Kinds : Tiers!Rank[k] \in Nat /\ Tiers!Rank[k] <= 3
  /\ \A k, l \in Tiers!Kinds : Tiers!Rank[k] = Tiers!Rank[l] => k = l
<1>1. \A k \in Tiers!Kinds : Tiers!Rank[k] = CASE k = "mailbox" -> 3 [] k = "domain" -> 2 [] k =
        "org" -> 1
  BY DEF Tiers!Rank
<1>2. Tiers!Rank["mailbox"] = 3 /\ Tiers!Rank["domain"] = 2 /\ Tiers!Rank["org"] = 1
  BY <1>1 DEF Tiers!Kinds
<1>. QED BY <1>2 DEF Tiers!Kinds

LEMMA NarrowestRanks ==
  ASSUME NEW ks \in SUBSET Tiers!Kinds, ks # {}
  PROVE  Tiers!narrowest(ks) \in ks /\ \A o \in ks : Tiers!Rank[o] <= Tiers!Rank[Tiers!narrowest(ks)]
<1>1. \E k \in ks : \A o \in ks : Tiers!Rank[o] <= Tiers!Rank[k]
  <2>1. CASE "mailbox" \in ks
    BY <2>1, Ranks
  <2>2. CASE "mailbox" \notin ks /\ "domain" \in ks
    <3>1. \A o \in ks : o = "domain" \/ o = "org"
      BY <2>2 DEF Tiers!Kinds
    <3>. QED BY <2>2, <3>1, Ranks
  <2>3. CASE "mailbox" \notin ks /\ "domain" \notin ks
    <3>1. ks = {"org"}
      BY <2>3 DEF Tiers!Kinds
    <3>. QED BY <3>1, Ranks
  <2>. QED BY <2>1, <2>2, <2>3
<1>. QED BY <1>1 DEF Tiers!narrowest

\* Of any hits there is one no other is better than.
LEMMA BestExists ==
  ASSUME NEW found \in SUBSET [tier : Tiers!Kinds, rule : Tiers!Rule], found # {}
  PROVE  \E h \in found : \A o \in found : ~Tiers!better(o, h)
<1>. DEFINE k == Tiers!narrowest({h.tier : h \in found})
            own == {h \in found : h.tier = k}
            near == {h \in own : h.rule.match \in Addresses}
            set == IF near # {} THEN near ELSE own
<1>1. \A h \in found : h.tier \in Tiers!Kinds /\ h.rule.action \in Tiers!Actions
  BY DEF Tiers!Rule
<1>2. k \in {h.tier : h \in found} /\ k \in Tiers!Kinds
        /\ \A h \in found : Tiers!Rank[h.tier] <= Tiers!Rank[k]
  <2>1. {h.tier : h \in found} \in SUBSET Tiers!Kinds /\ {h.tier : h \in found} # {}
    BY <1>1
  <2>. QED BY <2>1, NarrowestRanks
<1>. HIDE DEF k
<1>3. own # {} /\ set # {} /\ set \subseteq own /\ own \subseteq found
  BY <1>2
<1>4. \A h \in set, o \in own : (h.rule.match \in Addresses) \/ (o.rule.match \notin Addresses)
  OBVIOUS
<1>5. \A h \in set, o \in own : (h.rule.match \in Addresses) = (o.rule.match \in Addresses) => o \in set
  OBVIOUS
<1>6. \A h \in own : h.tier = k
  OBVIOUS
<1>7. \A o \in found : o.tier = k => o \in own
  OBVIOUS
<1>. HIDE DEF own, set
<1>8. /\ Tiers!ActionRank["reject"] = 3 /\ Tiers!ActionRank["drop"] = 2 /\ Tiers!ActionRank["spam"] = 1
  BY DEF Tiers!ActionRank, Tiers!Actions
<1>9. \E h \in set : \A o \in set : Tiers!ActionRank[o.rule.action] <= Tiers!ActionRank[h.rule.action]
  <2>1. \A h \in set : h.rule.action = "reject" \/ h.rule.action = "drop" \/ h.rule.action = "spam"
    BY <1>1, <1>3 DEF Tiers!Actions
  <2>2. \A h \in set : Tiers!ActionRank[h.rule.action] \in 1..3
    BY <1>8, <2>1
  <2>3. CASE \E h \in set : h.rule.action = "reject"
    BY <1>8, <2>2, <2>3
  <2>4. CASE (\A h \in set : h.rule.action # "reject") /\ \E h \in set : h.rule.action = "drop"
    <3>1. \A h \in set : Tiers!ActionRank[h.rule.action] <= 2
      BY <1>8, <2>1, <2>4
    <3>. QED BY <1>8, <2>4, <3>1
  <2>5. CASE \A h \in set : h.rule.action = "spam"
    <3>1. PICK h : h \in set
      BY <1>3
    <3>. QED BY <1>8, <2>5, <3>1
  <2>. QED BY <2>1, <2>3, <2>4, <2>5
<1>10. PICK h \in set : \A o \in set :
         Tiers!ActionRank[o.rule.action] <= Tiers!ActionRank[h.rule.action]
  BY <1>9
<1>11. ASSUME NEW o \in found PROVE ~Tiers!better(o, h)
  <2>1. h.tier = k /\ h \in found /\ Tiers!Rank[k] \in Nat /\ Tiers!Rank[o.tier] \in Nat
          /\ Tiers!Rank[o.tier] <= Tiers!Rank[k]
    BY <1>1, <1>2, <1>3, <1>6, Ranks
  <2>2. CASE o.tier # k
    BY <2>1, <2>2 DEF Tiers!better
  <2>3. CASE o.tier = k
    <3>1. o \in own
      BY <1>7, <2>3
    <3>2. CASE (o.rule.match \in Addresses) # (h.rule.match \in Addresses)
      <4>1. o.rule.match \notin Addresses
        BY <1>4, <3>1, <3>2
      <4>. QED BY <2>1, <2>3, <3>2, <4>1 DEF Tiers!better
    <3>3. CASE (o.rule.match \in Addresses) = (h.rule.match \in Addresses)
      <4>1. Tiers!ActionRank[o.rule.action] <= Tiers!ActionRank[h.rule.action]
        BY <1>5, <1>10, <3>1, <3>3
      <4>2. Tiers!ActionRank[o.rule.action] \in Nat /\ Tiers!ActionRank[h.rule.action] \in Nat
        BY <1>1, <1>8, <2>1 DEF Tiers!Actions
      <4>. QED BY <2>1, <2>3, <3>3, <4>1, <4>2 DEF Tiers!better
    <3>. QED BY <3>2, <3>3
  <2>. QED BY <2>2, <2>3
<1>. QED BY <1>3, <1>10, <1>11

\* The tiers with an opinion of a sender, the hits in the first of them, and
\* those for the address.
Opines(t, s) == {k \in Tiers!Kinds : (\E h \in Tiers!hits(t, s) : h.tier = k)
  \/ Tiers!allowedAt(t[k], s)}
OwnHits(t, s) == {h \in Tiers!hits(t, s) : h.tier = Tiers!narrowest(Opines(t, s))}
NearHits(t, s) == {h \in OwnHits(t, s) : h.rule.match \in Addresses}

LEMMA PrecedenceOf ==
  ASSUME NEW t, NEW s \in Senders, Opines(t, s) # {}
  PROVE  IF OwnHits(t, s) = {} THEN Tiers!matchBlocklist(t, s) = None
         ELSE Tiers!matchBlocklist(t, s) \in (IF NearHits(t, s) # {} THEN NearHits(t,
           s) ELSE OwnHits(t, s))
<1>. DEFINE opines == Opines(t, s)
            k == Tiers!narrowest(opines)
            own == OwnHits(t, s)
            near == NearHits(t, s)
<1>0. /\ opines = {j \in Tiers!Kinds : (\E h \in Tiers!hits(t, s) : h.tier = j)
           \/ Tiers!allowedAt(t[j], s)}
      /\ k = Tiers!narrowest(opines) /\ own = {h \in Tiers!hits(t, s) : h.tier = k}
      /\ near = {h \in own : h.rule.match \in Addresses} /\ opines # {}
  BY DEF Opines, OwnHits, NearHits
<1>. SUFFICES IF own = {} THEN Tiers!matchBlocklist(t, s) = None
              ELSE Tiers!matchBlocklist(t, s) \in (IF near # {} THEN near ELSE own)
  OBVIOUS
<1>. HIDE DEF opines, k, own, near
<1>. USE <1>0
<1>. DEFINE found == Tiers!hits(t, s)
            best == CHOOSE h \in found : \A o \in found : ~Tiers!better(o, h)
            wins == \E n \in Tiers!Kinds : Tiers!Rank[n] > Tiers!Rank[best.tier]
              /\ Tiers!allowedAt(t[n], s)
<1>1. found \in SUBSET [tier : Tiers!Kinds, rule : Tiers!Rule]
        /\ \A h \in found : h.tier \in Tiers!Kinds
  BY DEF Tiers!hits
<1>2. k \in opines /\ (\A o \in opines : Tiers!Rank[o] <= Tiers!Rank[k]) /\ opines \subseteq Tiers!Kinds
  <2>1. opines \in SUBSET Tiers!Kinds
    OBVIOUS
  <2>. QED BY <2>1, NarrowestRanks
<1>3. Tiers!matchBlocklist(t, s) = IF found = {} \/ wins THEN None ELSE best
  BY DEF Tiers!matchBlocklist
<1>4. found # {} => best \in found /\ \A o \in found : ~Tiers!better(o, best)
  <2>1. found # {} => \E h \in found : \A o \in found : ~Tiers!better(o, h)
    BY <1>1, BestExists
  <2>. QED BY <2>1
<1>5. own = {h \in found : h.tier = k}
  OBVIOUS
<1>6. \A n \in Tiers!Kinds : n \in opines <=> (\E h \in found : h.tier = n) \/ Tiers!allowedAt(t[n], s)
  OBVIOUS
<1>. HIDE DEF found, best
<1>7. CASE own = {}
  <2>1. CASE found # {}
    <3>1. best.tier \in opines /\ best.tier # k /\ best.tier \in Tiers!Kinds
      BY <1>1, <1>4, <1>5, <1>6, <1>7, <2>1
    <3>2. Tiers!Rank[k] > Tiers!Rank[best.tier]
      <4>1. Tiers!Rank[best.tier] <= Tiers!Rank[k] /\ Tiers!Rank[best.tier] # Tiers!Rank[k]
        BY <1>2, <3>1, Ranks
      <4>. QED BY <1>2, <3>1, <4>1, Ranks
    <3>3. Tiers!allowedAt(t[k], s)
      BY <1>2, <1>5, <1>6, <1>7
    <3>. QED BY <1>2, <1>3, <1>7, <3>2, <3>3
  <2>. QED BY <1>3, <1>7, <2>1
<1>8. CASE own # {}
  <2>1. PICK h \in found : h.tier = k
    BY <1>5, <1>8
  <2>2. best \in found /\ (\A o \in found : ~Tiers!better(o, best)) /\ best.tier \in Tiers!Kinds
          /\ best.tier \in opines
    BY <1>1, <1>4, <1>6, <2>1
  <2>3. best.tier = k
    <3>1. Tiers!Rank[best.tier] <= Tiers!Rank[k] /\ Tiers!Rank[best.tier] \in Nat
            /\ Tiers!Rank[k] \in Nat
      BY <1>2, <2>2, Ranks
    <3>2. h.tier # best.tier => ~(Tiers!Rank[k] > Tiers!Rank[best.tier])
      BY <2>1, <2>2 DEF Tiers!better
    <3>3. h.tier # best.tier => Tiers!Rank[best.tier] = Tiers!Rank[k]
      BY <3>1, <3>2
    <3>. QED BY <1>2, <2>1, <2>2, <3>3, Ranks
  <2>4. ~wins
    <3>1. SUFFICES ASSUME NEW n \in Tiers!Kinds, Tiers!Rank[n] > Tiers!Rank[k],
            Tiers!allowedAt(t[n], s) PROVE FALSE
      BY <2>3
    <3>2. n \in opines
      BY <1>6, <3>1
    <3>3. Tiers!Rank[n] <= Tiers!Rank[k] /\ Tiers!Rank[n] \in Nat /\ Tiers!Rank[k] \in Nat
      BY <1>2, <3>2, Ranks
    <3>. QED BY <3>1, <3>3
  <2>5. Tiers!matchBlocklist(t, s) = best /\ best \in own
    BY <1>3, <1>5, <2>1, <2>2, <2>3, <2>4
  <2>6. ASSUME NEW b \in near PROVE best \in near
    <3>1. b \in found /\ b.tier = best.tier /\ b.rule.match \in Addresses
      BY <1>5, <2>3
    <3>2. best.rule.match \notin Addresses => Tiers!better(b, best)
      BY <3>1 DEF Tiers!better
    <3>. QED BY <2>2, <2>5, <3>1, <3>2
  <2>. QED BY <1>8, <2>5, <2>6
<1>. QED BY <1>7, <1>8

LEMMA Precedence == ASSUME NEW t PROVE Tiers!RulesByPrecedence(t)
<1>1. ASSUME NEW s \in Senders, Opines(t, s) = {} PROVE Tiers!matchBlocklist(t, s) = None
  <2>1. \A h \in Tiers!hits(t, s) : h.tier \in Tiers!Kinds
    BY DEF Tiers!hits
  <2>2. Tiers!hits(t, s) = {}
    BY <1>1, <2>1 DEF Opines
  <2>. QED BY <2>2 DEF Tiers!matchBlocklist
<1>2. ASSUME NEW s \in Senders PROVE
        IF Opines(t, s) = {} THEN Tiers!matchBlocklist(t, s) = None
        ELSE IF OwnHits(t, s) = {} THEN Tiers!matchBlocklist(t, s) = None
        ELSE Tiers!matchBlocklist(t, s) \in (IF NearHits(t, s) # {} THEN NearHits(t,
          s) ELSE OwnHits(t, s))
  BY <1>1, PrecedenceOf
<1>. QED BY <1>2 DEF Tiers!RulesByPrecedence, Opines, OwnHits, NearHits

LEMMA OrgAllows == ASSUME NEW t PROVE Tiers!OrgAllowsStay(t)
<1>. SUFFICES ASSUME t["mailbox"].security # None, t["org"].security # None
     PROVE  t["org"].security.allow \subseteq Tiers!security(t).allow
  BY DEF Tiers!OrgAllowsStay
<1>. DEFINE ks == Tiers!having(t, "security")
            k == Tiers!narrowest(ks)
<1>1. "mailbox" \in ks /\ ks \in SUBSET Tiers!Kinds
  BY DEF Tiers!having, Tiers!Kinds
<1>2. k \in ks /\ Tiers!Rank["mailbox"] <= Tiers!Rank[k]
  BY <1>1, NarrowestRanks
<1>3. k = "mailbox"
  <2>1. k \in Tiers!Kinds /\ "mailbox" \in Tiers!Kinds
    BY <1>1, <1>2
  <2>2. Tiers!Rank[k] = Tiers!Rank["mailbox"]
    BY <1>2, <2>1, Ranks
  <2>. QED BY <2>1, <2>2, Ranks
<1>. HIDE DEF k
<1>4. Tiers!security(t).allow = Tiers!extendAllowlistsWithOrg(t, t["mailbox"].security.allow)
  BY <1>1, <1>3 DEF Tiers!security, k
<1>. QED BY <1>4 DEF Tiers!extendAllowlistsWithOrg, Tiers!unionLowerStable

LEMMA NoticeInside ==
  ASSUME SettingConstants, NEW raw, \A k \in Tiers!Kinds : Stored(raw[k])
  PROVE Tiers!NoticeStaysInside(raw)
<1>. DEFINE t == [k \in Tiers!Kinds |-> Tiers!parseSettingsLenient(k, raw[k])]
            said == {k \in Tiers!Kinds : raw[k].webhook # None /\ raw[k].rest # "bad"}
            n == Tiers!narrowest(said)
<1>1. \A k \in Tiers!Kinds : t[k].webhook = IF raw[k].rest = "bad" THEN None
                                       ELSE IF raw[k].webhook = "bad" THEN "off" ELSE raw[k].webhook
  <2>1. Tiers!absent.webhook = None
    BY DEF Tiers!absent
  <2>2. \A k \in Tiers!Kinds : t[k] = Tiers!parseSettingsLenient(k, raw[k])
    OBVIOUS
  <2>. HIDE DEF t
  <2>. SUFFICES ASSUME NEW k \in Tiers!Kinds
       PROVE t[k].webhook = IF raw[k].rest = "bad" THEN None
                            ELSE IF raw[k].webhook = "bad" THEN "off" ELSE raw[k].webhook
    OBVIOUS
  <2>3. t[k] = Tiers!parseSettingsLenient(k, raw[k]) /\ Stored(raw[k])
    BY <2>2
  <2>4. (raw[k].rest = "bad" => t[k] = Tiers!absent)
        /\ (raw[k].rest # "bad" => t[k].webhook = IF raw[k].webhook =
             "bad" THEN "off" ELSE raw[k].webhook)
    BY <2>3, Parses
  <2>. QED BY <2>1, <2>4
<1>2. "off" # None /\ "bad" # None
  BY DEF SettingConstants, Tiers!NewEmailWebhookSettings
<1>. HIDE DEF t
<1>3. Tiers!having(t, "webhook") = said
  BY <1>1, <1>2 DEF Tiers!having
<1>4. ASSUME said # {}
      PROVE  /\ Tiers!resolveNewEmailWebhook(t) \in {n, "silent"}
             /\ Tiers!resolveNewEmailWebhook(t) = "silent" <=> raw[n].webhook # "on"
  <2>1. n \in said
    BY <1>4, NarrowestRanks
  <2>2. n # "silent" /\ n \in Tiers!Kinds
    BY <2>1 DEF Tiers!Kinds
  <2>3. t[n].webhook = "on" <=> raw[n].webhook = "on"
    BY <1>1, <2>1
  <2>4. Tiers!resolveNewEmailWebhook(t) = IF t[n].webhook = "on" THEN n ELSE "silent"
    BY <1>3, <1>4 DEF Tiers!resolveNewEmailWebhook
  <2>. QED BY <2>2, <2>3, <2>4
<1>. QED BY <1>4 DEF Tiers!NoticeStaysInside, t

LEMMA SettingImplied == ASSUME SettingConstants, SettingInv PROVE Tiers!TypeOK /\ Tiers!SettingsSound
<1>1. Tiers!TypeOK
  BY DEF SettingInv, Tiers!TypeOK, Stored, ReadFits, EntryFits
<1>2. Tiers!CacheIsCurrent
  <2>. SUFFICES ASSUME NEW i \in Isolates, NEW k \in Tiers!Cached
       PROVE Tiers!reads(i, k) = IF store[k] =
         None THEN Tiers!absent ELSE Tiers!parseSettingsLenient(k, store[k])
    BY DEF Tiers!CacheIsCurrent
  <2>1. k \in Tiers!Kinds /\ EntryFits(k, known[i][k])
    BY DEF SettingInv, Tiers!Cached, Tiers!Kinds
  <2>2. store[k] # None => Stored(store[k])
    BY <2>1 DEF SettingInv
  <2>3. Tiers!entry(k, store[k]).settings = IF store[k] =
          None THEN Tiers!absent ELSE Tiers!parseSettingsLenient(k, store[k])
    BY <2>1, <2>2, EntryIsTier
  <2>. QED BY <2>1, <2>3 DEF Tiers!reads, Tiers!remember, EntryFits
<1>3. Tiers!TiersResolve
  <2>. DEFINE raw == [k \in Tiers!Kinds |-> IF store[k] = None THEN Tiers!absent ELSE store[k]]
  <2>1. \A k \in Tiers!Kinds : Stored(raw[k])
    BY AbsentIsStored DEF SettingInv
  <2>. HIDE DEF raw
  <2>2. Tiers!NoticeStaysInside(raw)
    BY <2>1, NoticeInside
  <2>. QED BY <2>2, Precedence, OrgAllows DEF Tiers!TiersResolve, raw
<1>. QED BY <1>1, <1>2, <1>3 DEF Tiers!SettingsSound, SettingInv

\* Whatever the requests of any number of isolates read, change, put back or
\* lose: a read sees the stored tier, a writer that ran alone leaves what is
\* not its own, and the tiers resolve by their precedence (org-settings.ts,
\* domain-settings.ts, mailbox-settings.ts, blocklist.ts).
THEOREM SettingsStaySound == SettingConstants => (Tiers!Spec => [](Tiers!TypeOK /\ Tiers!SettingsSound))
<1>. SUFFICES ASSUME SettingConstants PROVE Tiers!Spec => [](Tiers!TypeOK /\ Tiers!SettingsSound)
  OBVIOUS
<1>1. Tiers!Init => SettingInv
  BY InitSettings
<1>2. SettingInv /\ [Tiers!Next]_(Tiers!vars) => SettingInv'
  BY NextSettings
<1>3. SettingInv => Tiers!TypeOK /\ Tiers!SettingsSound
  BY SettingImplied
<1>. QED BY <1>1, <1>2, <1>3, PTL DEF Tiers!Spec

-----------------------------------------------------------------------------
(* The notice of new mail and the operator's test of it: MailNotice. *)

CONSTANTS Names, Prefixed, Secrets, Global, Signing, Origin, Lower, Mails, FirstBlocks, Blocks,
          MaxSubject, MaxJsonSubject
VARIABLES tiers, flight, noticed, posts, shown
Notice == INSTANCE MailNotice WITH
  Legacy <- FirstBlocks, Bodies <- Blocks, MaxFaults <- MaxMisses, MaxEdits <- MaxPuts,
  faults <- misses, edits <- puts

isBlock(b) == b = None \/ b.enabled \in BOOLEAN
\* What the constants are: blocks are switched on or off, a test is no mail,
\* and None is no block and no answer to the operator.
NoticeConstants ==
  /\ \A k \in Notice!Kinds : \A b \in FirstBlocks[k] : isBlock(b)
  /\ \A b \in Blocks : isBlock(b)
  /\ "test" \notin DOMAIN Mails /\ MaxMisses \in Nat /\ MaxPuts \in Nat
  /\ [enabled |-> FALSE, secret |-> None, format |-> None] # None
  /\ \A b, s, d : [block |-> b, stage |-> s, detail |-> d] # None

Shape(f) == IF f = "json" THEN "json" ELSE "chat"
\* A request for this endpoint in this format: headers and shape follow.
Carries(r, target, f) ==
  /\ target # None /\ r.target = target
  /\ r.wire = Notice!onWire(Notice!headersOf(target)) /\ r.body.shape = Shape(f)
\* A mail's request is what the tiers that could be read decided when it came.
SeenBy(saw) ==
  [k \in Notice!Kinds |->
    IF k \in saw.failed THEN None ELSE Notice!parseSettingsLenient(saw.tiers[k])]
MailFits(r) ==
  /\ \A k \in Notice!Kinds : isBlock(r.saw.tiers[k])
  /\ LET hook == Notice!resolveNewEmailWebhook(SeenBy(r.saw)) IN
     Carries(r, Notice!resolveWebhookTarget(hook), hook.format)
\* A test's request is the one of the block the operator is told about.
TestFits(r) ==
  shown # None /\ Carries(r, Notice!resolveWebhookSecretTarget(shown.block.secret), shown.block.format)
ShownFits ==
  shown # None =>
    /\ shown = [block |-> shown.block, stage |-> shown.stage, detail |-> shown.detail]
    /\ shown.stage \in {"config", "secret", "sent", "ok", "delivery"}
    /\ shown.stage \in {"config", "secret"} =>
         \/ ~Notice!schemaAccepts(shown.block) \/ shown.block.secret = None
         \/ Notice!resolveWebhookSecretTarget(shown.block.secret) = None
NoticeInv ==
  /\ DOMAIN tiers = Notice!Kinds /\ (\A k \in Notice!Kinds : isBlock(tiers[k]))
  /\ DOMAIN flight = DOMAIN Mails \cup {"test"} /\ noticed \in [DOMAIN Mails -> BOOLEAN]
  /\ misses \in 0 .. MaxMisses /\ puts \in 0 .. MaxPuts
  /\ \A m \in DOMAIN Mails : flight[m] # None => MailFits(flight[m])
  /\ flight["test"] # None => TestFits(flight["test"])
  /\ \A p \in posts :
       p.job \in DOMAIN Mails \cup {"test"} /\ IF p.job = "test" THEN TestFits(p) ELSE MailFits(p)
  /\ ShownFits

LEMMA NarrowestTier ==
  ASSUME NEW said \in SUBSET Notice!Kinds, said # {}
  PROVE  Notice!narrowest(said) \in said
<1>1. \E k \in said : \A o \in said : Notice!Rank[o] <= Notice!Rank[k]
  BY DEF Notice!Kinds, Notice!Rank
<1>. QED BY <1>1 DEF Notice!narrowest

\* What the block that decides has to do with the request.
LEMMA Decided ==
  ASSUME NoticeConstants, NEW r, MailFits(r)
  PROVE  LET b == Notice!deciding(r) IN
         IF b = None THEN Global # None /\ r.target = Notice!parseWebhookSecret(Global)
         ELSE /\ b.enabled /\ b.secret # None /\ Notice!schemaAccepts(b)
              /\ Carries(r, Notice!resolveWebhookSecretTarget(b.secret), b.format)
<1>. DEFINE t == SeenBy(r.saw)
            said == {k \in Notice!Kinds \ r.saw.failed : r.saw.tiers[k] # None}
            n == Notice!narrowest(said)
            hook == Notice!resolveNewEmailWebhook(t)
<1>1. \A k \in Notice!Kinds : t[k] = IF k \in r.saw.failed
              THEN None ELSE Notice!parseSettingsLenient(r.saw.tiers[k])
  BY DEF SeenBy
<1>2. \A k \in Notice!Kinds : (t[k] # None) <=> k \in said
  <2>1. \A b : Notice!parseSettingsLenient(b) # None <=> b # None
    BY DEF Notice!parseSettingsLenient, NoticeConstants
  <2>. QED BY <1>1, <2>1
<1>3. Notice!deciding(r) = IF said = {} THEN None ELSE r.saw.tiers[n]
  BY DEF Notice!deciding
<1>4. Carries(r, Notice!resolveWebhookTarget(hook), hook.format)
  BY DEF MailFits
<1>. HIDE DEF t
<1>5. {k \in Notice!Kinds : t[k] # None} = said
  BY <1>2
<1>6. hook = IF said = {} THEN [configured |-> FALSE, secret |-> None, format |-> "chat"]
             ELSE [configured |-> TRUE, secret |-> IF t[n].enabled THEN t[n].secret ELSE None,
                   format |-> IF t[n].format = "json" THEN "json" ELSE "chat"]
  BY <1>5 DEF Notice!resolveNewEmailWebhook
<1>7. CASE said = {}
  BY <1>3, <1>4, <1>6, <1>7 DEF Notice!resolveWebhookTarget, Carries
<1>8. CASE said # {}
  <2>1. n \in said
    BY <1>8, NarrowestTier
  <2>. DEFINE b == r.saw.tiers[n]
  <2>2. b # None /\ b.enabled \in BOOLEAN /\ t[n] = Notice!parseSettingsLenient(b)
    BY <1>1, <2>1 DEF MailFits, isBlock
  <2>. HIDE DEF b, hook
  <2>3. hook.configured /\ hook.secret = (IF t[n].enabled THEN t[n].secret ELSE None)
        /\ hook.format = Shape(t[n].format)
    BY <1>6, <1>8 DEF Shape
  <2>4. hook.secret # None
    BY <1>4, <2>3 DEF Carries, Notice!resolveWebhookTarget
  <2>5. Notice!schemaAccepts(b) /\ t[n] = b
    BY <2>2, <2>3, <2>4 DEF Notice!parseSettingsLenient
  <2>6. b.enabled /\ hook.secret = b.secret /\ hook.format = Shape(b.format)
    BY <2>3, <2>4, <2>5
  <2>7. Notice!resolveWebhookTarget(hook) = Notice!resolveWebhookSecretTarget(b.secret)
    BY <2>3, <2>4, <2>6 DEF Notice!resolveWebhookTarget
  <2>8. Carries(r, Notice!resolveWebhookSecretTarget(b.secret), b.format)
    BY <1>4, <2>6, <2>7 DEF Carries, Shape
  <2>9. Notice!deciding(r) = b
    BY <1>3, <1>8 DEF b
  <2>. QED BY <2>2, <2>4, <2>5, <2>6, <2>8, <2>9
<1>. QED BY <1>7, <1>8

LEMMA NoticeImplied ==
  ASSUME NoticeConstants, NoticeInv
  PROVE  Notice!TypeOK /\ Notice!NoticeStaysScoped /\ Notice!TestTellsTruth
<1>1. Notice!TypeOK
  BY DEF NoticeInv, ShownFits, Notice!TypeOK
<1>2. \A p \in Notice!mailPosts : MailFits(p)
  BY DEF Notice!mailPosts, NoticeInv
<1>3. Notice!NoticeStaysScoped
  <2>1. SUFFICES ASSUME NEW p \in Notice!mailPosts
        PROVE IF Notice!deciding(p) = None THEN Global # None /\ p.target = Notice!parseWebhookSecret(Global)
              ELSE /\ Notice!deciding(p).enabled /\ Notice!deciding(p).secret \in Prefixed
                   /\ p.target = Notice!parseWebhookSecret(Secrets[Notice!deciding(p).secret])
    BY DEF Notice!NoticeStaysScoped
  <2>2. CASE Notice!deciding(p) = None
    BY <1>2, <2>2, Decided
  <2>3. CASE Notice!deciding(p) # None
    <3>. DEFINE b == Notice!deciding(p)
    <3>1. b.enabled /\ b.secret # None /\ Carries(p, Notice!resolveWebhookSecretTarget(b.secret), b.format)
      BY <1>2, <2>3, Decided
    <3>. QED BY <2>3, <3>1 DEF Carries, Notice!resolveWebhookSecretTarget
  <2>. QED BY <2>2, <2>3
<1>4. Notice!TestTellsTruth
  <2>1. SUFFICES ASSUME shown # None, NEW p \in Notice!mailPosts, Notice!deciding(p) # None,
                        Notice!deciding(p).secret = shown.block.secret,
                        Notice!deciding(p).format = shown.block.format
        PROVE /\ shown.stage \notin {"config", "secret"}
              /\ \A q \in posts \cup {flight["test"]} : (q # None /\ q \notin Notice!mailPosts) =>
                   q.target = p.target /\ q.wire = p.wire /\ q.body.shape = p.body.shape
    BY DEF Notice!TestTellsTruth
  <2>. DEFINE b == Notice!deciding(p)
  <2>2. b.secret # None /\ Notice!schemaAccepts(b)
        /\ Carries(p, Notice!resolveWebhookSecretTarget(b.secret), b.format)
    BY <1>2, <2>1, Decided
  <2>3. Notice!schemaAccepts(shown.block) /\ shown.block.secret # None
        /\ Carries(p, Notice!resolveWebhookSecretTarget(shown.block.secret), shown.block.format)
    BY <2>1, <2>2 DEF Notice!schemaAccepts
  <2>4. shown.stage \notin {"config", "secret"}
    BY <2>1, <2>3 DEF NoticeInv, ShownFits, Carries
  <2>5. ASSUME NEW q \in posts \cup {flight["test"]}, q # None, q \notin Notice!mailPosts
        PROVE  TestFits(q)
    BY <2>5 DEF Notice!mailPosts, NoticeInv
  <2>. QED BY <2>3, <2>4, <2>5 DEF TestFits, Carries
<1>. QED BY <1>1, <1>3, <1>4

LEMMA InitNotice == ASSUME NoticeConstants, Notice!Init PROVE NoticeInv
BY DEF NoticeConstants, Notice!Init, NoticeInv, ShownFits

LEMMA NoticeCardinality == \A S : Notice!Cardinality(S) = Cardinality(S)
BY DEF Notice!Cardinality, Cardinality

LEMMA KindsAreFew == IsFiniteSet(Notice!Kinds)
<1>1. IsFiniteSet({}) /\ IsFiniteSet({} \cup {"mailbox"})
  BY FS_EmptySet, FS_AddElement
<1>2. IsFiniteSet(({} \cup {"mailbox"}) \cup {"domain"})
  BY <1>1, FS_AddElement
<1>3. IsFiniteSet((({} \cup {"mailbox"}) \cup {"domain"}) \cup {"org"})
  BY <1>2, FS_AddElement
<1>4. Notice!Kinds = (({} \cup {"mailbox"}) \cup {"domain"}) \cup {"org"}
  BY DEF Notice!Kinds
<1>. QED BY <1>3, <1>4

LEMMA receiveEmailNotice ==
  ASSUME NoticeConstants, NoticeInv, NEW m \in DOMAIN Mails, Notice!receiveEmail(m)
  PROVE  NoticeInv'
<1>1. PICK failed \in SUBSET Notice!Kinds :
        LET seen == [k \in Notice!Kinds |-> IF k \in failed
                       THEN None ELSE Notice!parseSettingsLenient(tiers[k])] IN
        /\ noticed' = [noticed EXCEPT ![m] = TRUE]
        /\ misses' \in 0 .. MaxMisses
        /\ flight' = [flight EXCEPT ![m] = Notice!dispatchNewEmailNotification(m,
             Notice!resolveNewEmailWebhook(seen), [tiers |-> tiers, failed |-> failed])]
        /\ UNCHANGED <<tiers, posts, shown, puts>>
  <2>1. \A S \in SUBSET Notice!Kinds : IsFiniteSet(S) /\ Notice!Cardinality(S) \in Nat
    BY NoticeCardinality, FS_Subset, FS_CardinalityType, KindsAreFew
  <2>2. PICK failed \in SUBSET Notice!Kinds :
          /\ noticed' = [noticed EXCEPT ![m] = TRUE]
          /\ misses + Notice!Cardinality(failed) <= MaxMisses
          /\ misses' = misses + Notice!Cardinality(failed)
          /\ flight' = [flight EXCEPT ![m] = Notice!dispatchNewEmailNotification(m,
               Notice!resolveNewEmailWebhook([k \in Notice!Kinds |-> IF k \in failed
                       THEN None ELSE Notice!parseSettingsLenient(tiers[k])]),
               [tiers |-> tiers, failed |-> failed])]
          /\ UNCHANGED <<tiers, posts, shown, puts>>
    BY DEF Notice!receiveEmail
  <2>3. misses' \in 0 .. MaxMisses
    BY <2>1, <2>2 DEF NoticeInv, NoticeConstants
  <2>. QED BY <2>2, <2>3
<1>. DEFINE saw == [tiers |-> tiers, failed |-> failed]
            hook == Notice!resolveNewEmailWebhook(SeenBy(saw))
            r == Notice!dispatchNewEmailNotification(m, hook, saw)
<1>2. flight' = [flight EXCEPT ![m] = r] /\ DOMAIN flight = DOMAIN Mails \cup {"test"}
  BY <1>1 DEF SeenBy, NoticeInv
<1>3. r # None => MailFits(r)
  <2>. SUFFICES ASSUME r # None PROVE MailFits(r)
    OBVIOUS
  <2>. DEFINE target == Notice!resolveWebhookTarget(hook)
  <2>1. target # None
        /\ r = Notice!deliverNewEmailNotification(target, Mails[m], hook.format, saw)
    BY DEF Notice!dispatchNewEmailNotification
  <2>. HIDE DEF r, hook, target
  <2>2. r = [target |-> target, wire |-> Notice!onWire(Notice!headersOf(target)),
             body |-> Notice!payload(Mails[m], hook.format), saw |-> saw]
    BY <2>1 DEF Notice!deliverNewEmailNotification
  <2>3. Notice!payload(Mails[m], hook.format).shape = Shape(hook.format)
    BY DEF Notice!payload, Shape
  <2>4. Carries(r, target, hook.format) /\ r.saw = saw
    BY <2>1, <2>2, <2>3 DEF Carries
  <2>5. \A k \in Notice!Kinds : isBlock(r.saw.tiers[k])
    BY <2>4 DEF NoticeInv
  <2>. QED BY <2>4, <2>5 DEF MailFits, hook, target
<1>. HIDE DEF r
<1>4. m # "test" /\ flight'["test"] = flight["test"]
      /\ \A i \in DOMAIN Mails : flight'[i] = IF i = m THEN r ELSE flight[i]
  BY <1>2 DEF NoticeConstants
<1>5. noticed' \in [DOMAIN Mails -> BOOLEAN] /\ DOMAIN flight' = DOMAIN flight
  BY <1>1, <1>2 DEF NoticeInv
<1>. QED BY <1>1, <1>3, <1>4, <1>5 DEF NoticeInv, ShownFits, TestFits

LEMMA sendTestNotice ==
  ASSUME NoticeConstants, NoticeInv, NEW b \in Blocks, Notice!sendTest(b)
  PROVE  NoticeInv'
<1>. DEFINE target == IF b.secret = None THEN None ELSE Notice!resolveWebhookSecretTarget(b.secret)
            answer(stage) == [block |-> b, stage |-> stage, detail |-> <<>>]
            r == Notice!deliverNewEmailNotification(target, Notice!buildTestNotification,
                   Shape(b.format), [tiers |-> tiers, failed |-> {}])
<1>1. /\ flight["test"] = None /\ shown = None /\ UNCHANGED <<tiers, noticed, posts, misses, puts>>
      /\ \/ /\ ~Notice!schemaAccepts(b) \/ b.secret = None
            /\ shown' = answer("config") /\ UNCHANGED flight
         \/ /\ Notice!schemaAccepts(b) /\ b.secret # None /\ target = None
            /\ shown' = answer("secret") /\ UNCHANGED flight
         \/ /\ Notice!schemaAccepts(b) /\ target # None
            /\ shown' = answer("sent")
            /\ flight' = [flight EXCEPT !["test"] = r]
  BY DEF Notice!sendTest, Shape
<1>2. shown' # None /\ shown'.block = b /\ \E s : shown' = answer(s)
  BY <1>1 DEF NoticeConstants
<1>3. ShownFits'
  <2>1. PICK s :
          /\ shown' = answer(s) /\ s \in {"config", "secret", "sent"}
          /\ s = "config" => (~Notice!schemaAccepts(b) \/ b.secret = None)
          /\ s = "secret" => Notice!resolveWebhookSecretTarget(b.secret) = None
    BY <1>1
  <2>2. shown'.block = b /\ shown'.stage = s /\ shown'.detail = <<>>
    BY <2>1
  <2>. QED BY <2>1, <2>2 DEF ShownFits
<1>4. \A p \in posts : p.job # "test"
  BY <1>1 DEF NoticeInv, TestFits
<1>5. DOMAIN flight' = DOMAIN flight /\ \A m \in DOMAIN Mails : flight'[m] = flight[m]
  BY <1>1 DEF NoticeInv, NoticeConstants
<1>6. flight'["test"] # None => TestFits(flight["test"])'
  <2>1. SUFFICES ASSUME flight'["test"] # None PROVE TestFits(flight["test"])'
    OBVIOUS
  <2>2. target # None /\ flight'["test"] = r
    BY <1>1, <2>1 DEF NoticeInv
  <2>3. r.target = target /\ r.wire = Notice!onWire(Notice!headersOf(target))
        /\ r.body.shape = Shape(b.format)
    BY DEF Notice!deliverNewEmailNotification, Notice!payload, Shape
  <2>4. target = Notice!resolveWebhookSecretTarget(b.secret)
    BY <2>2
  <2>. HIDE DEF r, target
  <2>. QED BY <1>2, <2>2, <2>3, <2>4 DEF TestFits, Carries
<1>. QED BY <1>1, <1>3, <1>4, <1>5, <1>6 DEF NoticeInv

LEMMA AnsweredNotice ==
  ASSUME NoticeConstants, NoticeInv, NEW j \in DOMAIN Mails \cup {"test"}, flight[j] # None,
         flight' = [flight EXCEPT ![j] = None], posts' \in {posts, posts \cup {Notice!received(j)}},
         NEW stage \in {"ok", "delivery"}, NEW detail, Notice!answered(j, stage, detail),
         misses' \in 0 .. MaxMisses, UNCHANGED <<tiers, noticed, puts>>
  PROVE  NoticeInv'
<1>1. \A i \in DOMAIN Mails \cup {"test"} : flight'[i] = IF i = j THEN None ELSE flight[i]
  BY DEF NoticeInv
<1>2. j = "test" => shown # None
  BY DEF NoticeInv, TestFits
<1>3. \/ shown' = shown
      \/ shown # None /\ shown' = [block |-> shown.block, stage |-> stage, detail |-> detail]
  BY <1>2 DEF Notice!answered, NoticeInv, ShownFits
<1>4. (shown' # None) = (shown # None) /\ (shown # None => shown'.block = shown.block)
  BY <1>3 DEF NoticeConstants
<1>5. ShownFits'
  <2>1. CASE shown' = shown
    BY <2>1 DEF NoticeInv, ShownFits
  <2>2. CASE shown # None /\ shown' = [block |-> shown.block, stage |-> stage, detail |-> detail]
    BY <2>2 DEF ShownFits
  <2>. QED BY <1>3, <2>1, <2>2
<1>. DEFINE p0 == Notice!received(j)
<1>6. p0.job = j /\ p0.target = flight[j].target /\ p0.wire = flight[j].wire
      /\ p0.body = flight[j].body /\ p0.saw = flight[j].saw
  BY DEF Notice!received
<1>7. IF j = "test" THEN TestFits(p0) ELSE MailFits(p0)
  <2>1. CASE j = "test"
    BY <1>6, <2>1 DEF NoticeInv, TestFits, Carries
  <2>2. CASE j # "test"
    <3>1. MailFits(flight[j])
      BY <2>2 DEF NoticeInv
    <3>. HIDE DEF p0
    <3>. QED BY <1>6, <2>2, <3>1 DEF MailFits, Carries
  <2>. QED BY <2>1, <2>2
<1>. HIDE DEF p0
<1>8. \A p \in posts' : p.job \in DOMAIN Mails \cup {"test"}
                        /\ IF p.job = "test" THEN TestFits(p) ELSE MailFits(p)
  BY <1>6, <1>7 DEF NoticeInv, p0
<1>9. ASSUME NEW r, TestFits(r)
      PROVE  shown' # None
             /\ Carries(r, Notice!resolveWebhookSecretTarget(shown'.block.secret), shown'.block.format)
  BY <1>4, <1>9 DEF TestFits
<1>10. \A p \in posts' : p.job \in DOMAIN Mails \cup {"test"}
         /\ IF p.job = "test" THEN TestFits(p)' ELSE MailFits(p)
  <2>1. \A p \in posts' : TestFits(p) => TestFits(p)'
    BY <1>9 DEF TestFits
  <2>. QED BY <1>8, <2>1
<1>. QED BY <1>1, <1>5, <1>9, <1>10 DEF NoticeInv, TestFits, MailFits

LEMMA NextNotice == ASSUME NoticeConstants, NoticeInv, [Notice!Next]_(Notice!vars) PROVE NoticeInv'
<1>1. ASSUME NEW m \in DOMAIN Mails, Notice!receiveEmail(m) PROVE NoticeInv'
  BY <1>1, receiveEmailNotice
<1>2. ASSUME NEW b \in Blocks, Notice!sendTest(b) PROVE NoticeInv'
  BY <1>2, sendTestNotice
<1>3. ASSUME NEW j \in DOMAIN flight, Notice!delivered(j) PROVE NoticeInv'
  <2>1. j \in DOMAIN Mails \cup {"test"} /\ misses' \in 0 .. MaxMisses
    BY <1>3 DEF NoticeInv, Notice!delivered
  <2>. QED BY <1>3, <2>1, AnsweredNotice DEF Notice!delivered
<1>4. ASSUME NEW j \in DOMAIN flight, Notice!undelivered(j) PROVE NoticeInv'
  <2>1. j \in DOMAIN Mails \cup {"test"} /\ UNCHANGED <<tiers, noticed, puts>> /\ flight[j] # None
        /\ flight' = [flight EXCEPT ![j] = None] /\ posts' \in {posts, posts \cup {Notice!received(j)}}
        /\ \E text : Notice!answered(j, "delivery", Notice!redactTarget(text, flight[j].target))
    BY <1>4 DEF NoticeInv, Notice!undelivered
  <2>2. misses' \in 0 .. MaxMisses
    BY <1>4 DEF Notice!undelivered, NoticeInv, NoticeConstants
  <2>. QED BY <2>1, <2>2, AnsweredNotice
<1>5. ASSUME NEW k \in Notice!Kinds, NEW b \in Blocks, Notice!saveTier(k, b) PROVE NoticeInv'
  <2>1. /\ tiers' = [tiers EXCEPT ![k] = b] /\ puts' \in 0 .. MaxPuts
        /\ UNCHANGED <<flight, noticed, posts, shown, misses>>
    BY <1>5 DEF Notice!saveTier, NoticeConstants, NoticeInv
  <2>2. DOMAIN tiers' = Notice!Kinds /\ \A o \in Notice!Kinds : isBlock(tiers'[o])
    BY <2>1 DEF NoticeInv, NoticeConstants
  <2>. QED BY <2>1, <2>2 DEF NoticeInv, TestFits, ShownFits
<1>6. ASSUME UNCHANGED Notice!vars PROVE NoticeInv'
  BY <1>6 DEF NoticeInv, TestFits, ShownFits, Notice!vars
<1>. QED BY <1>1, <1>2, <1>3, <1>4, <1>5, <1>6 DEF Notice!Next

\* Whatever is saved, read in vain, sent or lost meanwhile: a notice goes to
\* the channel of the narrowest tier that could be read, or nowhere, and a
\* test meets what mail under its block meets (new-email-notify.ts).
THEOREM NoticesStayScoped ==
  NoticeConstants => (Notice!Spec => [](Notice!TypeOK /\ Notice!NoticeStaysScoped /\ Notice!TestTellsTruth))
<1>. SUFFICES ASSUME NoticeConstants
     PROVE Notice!Spec => [](Notice!TypeOK /\ Notice!NoticeStaysScoped /\ Notice!TestTellsTruth)
  OBVIOUS
<1>1. Notice!Init => NoticeInv
  BY InitNotice
<1>2. NoticeInv /\ [Notice!Next]_(Notice!vars) => NoticeInv'
  BY NextNotice
<1>3. NoticeInv => Notice!TypeOK /\ Notice!NoticeStaysScoped /\ Notice!TestTellsTruth
  BY NoticeImplied
<1>. QED BY <1>1, <1>2, <1>3, PTL DEF Notice!Spec

=============================================================================
