------------------------------ MODULE CaseBook ------------------------------
(***************************************************************************)
(* Cases of a mailbox: reporting a phish, the summary written in the       *)
(* background, the hub's copy, the submission of a domain to Cloudflare    *)
(* over a store without atomic updates, and the page that polls a case.    *)
(***************************************************************************)
EXTENDS Naturals, FiniteSets

CONSTANTS
  Emails, DomainsOf,   \* [Emails -> domains extractUrls finds in the body]
  Domains, Blocked,    \* registrable domains, and those never submitted
  Cases, Reports, Submissions,  \* case ids and slots for requests under way
  Cap,                 \* monthlyCap
  None,
  MaxFaults, MaxEdits, MaxPolls  \* bounds: failed calls, analyst's edits, polls in a minute

VARIABLES
  stored,      \* emails in the mailbox
  notPhish,    \* rows of email_feedback
  book,        \* [Cases -> None or the row with its linked email and domains]
  job,         \* [Cases -> state of generateCaseSummary]
  report,      \* [Reports -> request of report-phish, or None]
  flagged,     \* emails whose sender flagSender reached
  hub,         \* cases whose event the hub stored
  sub,         \* [Submissions -> request of submit-cloudflare, or None]
  kv,          \* cf-cat:* keys: domains, per-case lists, monthly count
  accepted,    \* [Domains -> requests Cloudflare accepted]
  page,        \* the case page: what it shows, its timer, loads under way
  disturbed,   \* submissions have overlapped or a call of one failed
  faults, edits

vars == <<stored, notPhish, book, job, report, flagged, hub, sub, kv, accepted,
          page, disturbed, faults, edits>>
server == <<stored, notPhish, book, job, report, flagged, hub>>
cloud == <<sub, kv, accepted, disturbed>>

Statuses == {"open", "closed-tp", "closed-fp"}
Rows == [status : Statuses, email : Emails \cup {None}, domains : SUBSET Domains,
         summary : {None, "pending", "ready", "failed"}, shared : BOOLEAN,
         updated : 0 .. 9]

TypeOK ==
  /\ stored \subseteq Emails /\ notPhish \subseteq stored /\ flagged \subseteq Emails
  /\ \A c \in Cases : book[c] = None \/ book[c] \in Rows
  /\ job \in [Cases -> {"none", "queued", "asked", "done", "lost"}]
  /\ hub \subseteq Cases /\ kv.domains \subseteq Domains
  /\ \A c \in Cases : kv.list[c] \subseteq Domains
  /\ kv.count \in Nat /\ accepted \in [Domains -> Nat]
  /\ disturbed \in BOOLEAN /\ page.polls \in 0 .. MaxPolls

Init ==
  /\ stored = Emails /\ notPhish = {} /\ flagged = {} /\ hub = {}
  /\ book = [c \in Cases |-> None] /\ job = [c \in Cases |-> "none"]
  /\ report = [r \in Reports |-> None] /\ sub = [s \in Submissions |-> None]
  /\ kv = [domains |-> {}, list |-> [c \in Cases |-> {}], count |-> 0]
  /\ accepted = [d \in Domains |-> 0]
  /\ page = [case |-> None, shows |-> None, timer |-> FALSE, loading |-> FALSE, polls |-> 0]
  /\ disturbed = FALSE /\ faults = 0 /\ edits = 0

canFail == faults < MaxFaults
fault == canFail /\ faults' = faults + 1

(* ------------------------------------------------------------ the case rows --- *)

\* createCase, then the summary is dispatched when an email is linked.
newRow(e, ds) ==
  [status |-> "open", email |-> e, domains |-> ds, shared |-> FALSE, updated |-> 0,
   summary |-> IF e = None THEN None ELSE "pending"]
create(c, e, ds) ==
  /\ book[c] = None /\ job[c] = "none"
  /\ book' = [book EXCEPT ![c] = newRow(e, ds)]
  /\ job' = [job EXCEPT ![c] = IF e = None THEN "none" ELSE "queued"]

createCase(c, e, ds) ==
  /\ create(c, e, ds)
  /\ UNCHANGED <<stored, notPhish, report, flagged, hub, page, faults, edits>> /\ UNCHANGED cloud

changed(row) == [row EXCEPT !.updated = IF @ = 9 THEN 0 ELSE @ + 1]

setStatus(c, s) ==
  /\ edits < MaxEdits /\ edits' = edits + 1
  /\ book[c] # None /\ book' = [book EXCEPT ![c] = changed([@ EXCEPT !.status = s])]
  /\ UNCHANGED <<stored, notPhish, job, report, flagged, hub, page, faults>> /\ UNCHANGED cloud

\* The linked email and the observables go with the case; its summary job runs on.
deleteCase(c) ==
  /\ edits < MaxEdits /\ edits' = edits + 1
  /\ book[c] # None /\ book' = [book EXCEPT ![c] = None]
  /\ UNCHANGED <<stored, notPhish, job, report, flagged, hub, page, faults>> /\ UNCHANGED cloud

\* Mutation of deleteEmail: the feedback row stays.
leaveFeedback(e) ==
  /\ edits < MaxEdits /\ edits' = edits + 1
  /\ stored' = stored \ {e} /\ e \in stored
  /\ UNCHANGED <<notPhish, book, job, report, flagged, hub, page, faults>> /\ UNCHANGED cloud

\* Deleting an email drops its feedback and leaves the case's link to it.
deleteEmail(e) ==
  /\ edits < MaxEdits /\ edits' = edits + 1
  /\ stored' = stored \ {e} /\ notPhish' = notPhish \ {e} /\ e \in stored
  /\ UNCHANGED <<book, job, report, flagged, hub, page, faults>> /\ UNCHANGED cloud

markNotPhish(e) ==
  /\ e \in stored \ notPhish /\ notPhish' = notPhish \cup {e}
  /\ UNCHANGED <<stored, book, job, report, flagged, hub, page, faults, edits>> /\ UNCHANGED cloud

(* ------------------------------------------------------------- the summary --- *)

finalize(c, status) ==
  book' = IF book[c] = None THEN book
          ELSE [book EXCEPT ![c] = changed([@ EXCEPT !.summary = status])]

\* Nothing to summarise when the case or its email is gone.
startSummary(c) ==
  /\ job[c] = "queued"
  /\ \/ book[c] # None /\ book[c].email \in stored
        /\ job' = [job EXCEPT ![c] = "asked"] /\ UNCHANGED book
     \/ ~(book[c] # None /\ book[c].email \in stored)
        /\ job' = [job EXCEPT ![c] = "done"] /\ finalize(c, "failed")
  /\ UNCHANGED <<stored, notPhish, report, flagged, hub, page, faults, edits>> /\ UNCHANGED cloud

\* Mutation of summaryAnswers: an empty answer ends the job without a status.
dropEmptyAnswer(c) ==
  /\ job[c] = "asked" /\ job' = [job EXCEPT ![c] = "done"]
  /\ finalize(c, "ready") \/ UNCHANGED book
  /\ UNCHANGED <<stored, notPhish, report, flagged, hub, page, faults, edits>> /\ UNCHANGED cloud

\* summarizeCase returns text or null, never an exception.
summaryAnswers(c) ==
  /\ job[c] = "asked" /\ job' = [job EXCEPT ![c] = "done"]
  /\ \E s \in {"ready", "failed"} : finalize(c, s)
  /\ UNCHANGED <<stored, notPhish, report, flagged, hub, page, faults, edits>> /\ UNCHANGED cloud

\* waitUntil gives no second chance: a restart loses the job.
summaryLost(c) ==
  /\ job[c] \in {"queued", "asked"} /\ job' = [job EXCEPT ![c] = "lost"] /\ fault
  /\ UNCHANGED <<stored, notPhish, book, report, flagged, hub, page, edits>> /\ UNCHANGED cloud

(* ------------------------------------------------------------ report-phish --- *)

reportPhish(r, e) ==
  /\ report[r] = None /\ e \in stored
  /\ report' = [report EXCEPT ![r] = [pc |-> "create", email |-> e, case |-> None]]
  /\ UNCHANGED <<stored, notPhish, book, job, flagged, hub, page, faults, edits>> /\ UNCHANGED cloud

reportCreates(r, c) ==
  /\ report[r] # None /\ report[r].pc = "create"
  /\ create(c, report[r].email, DomainsOf[report[r].email])
  /\ report' = [report EXCEPT ![r] = [@ EXCEPT !.pc = "flag", !.case = c]]
  /\ UNCHANGED <<stored, notPhish, flagged, hub, page, faults, edits>> /\ UNCHANGED cloud

\* flagSender is best effort.
reportFlags(r) ==
  /\ report[r] # None /\ report[r].pc = "flag"
  /\ \/ flagged' = flagged \cup {report[r].email} /\ UNCHANGED faults
     \/ UNCHANGED flagged /\ fault
  /\ report' = [report EXCEPT ![r].pc = "post"]
  /\ UNCHANGED <<stored, notPhish, book, job, hub, page, edits>> /\ UNCHANGED cloud

\* The hub may refuse, or store the event and its answer be lost.
reportPosts(r) ==
  /\ report[r] # None /\ report[r].pc = "post"
  /\ \/ /\ hub' = hub \cup {report[r].case} /\ UNCHANGED faults
        /\ report' = [report EXCEPT ![r].pc = "note"]
     \/ /\ hub' \in {hub, hub \cup {report[r].case}} /\ fault
        /\ report' = [report EXCEPT ![r] = None]
  /\ UNCHANGED <<stored, notPhish, book, job, flagged, page, edits>> /\ UNCHANGED cloud

reportNotes(r) ==
  /\ report[r] # None /\ report[r].pc = "note"
  /\ LET c == report[r].case
     IN book' = IF book[c] = None THEN book
                ELSE [book EXCEPT ![c] = changed([@ EXCEPT !.shared = TRUE])]
  /\ report' = [report EXCEPT ![r] = None]
  /\ UNCHANGED <<stored, notPhish, job, flagged, hub, page, faults, edits>> /\ UNCHANGED cloud

(* ------------------------------------------------------ submit-cloudflare --- *)

at(s, pc) == sub[s] # None /\ sub[s].pc = pc
to(s, pc) == sub' = [sub EXCEPT ![s].pc = pc]
ends(s) == sub' = [sub EXCEPT ![s] = None]
alone == \A s \in Submissions : sub[s] = None

\* The checks on the case; what fails them answers at once and changes nothing.
submitCloudflare(s, c, d) ==
  /\ sub[s] = None /\ book[c] # None /\ book[c].status = "closed-tp"
  /\ d \in book[c].domains \ Blocked
  /\ sub' = [sub EXCEPT ![s] = [pc |-> "labels", case |-> c, domain |-> d,
                                email |-> book[c].email, seen |-> {}, count |-> 0]]
  /\ disturbed' = (disturbed \/ ~alone)
  /\ UNCHANGED <<kv, accepted, page, faults, edits>> /\ UNCHANGED server

checkLabels(s) ==
  /\ at(s, "labels")
  /\ IF sub[s].email \in notPhish THEN ends(s) ELSE to(s, "domain")
  /\ UNCHANGED <<kv, accepted, disturbed, page, faults, edits>> /\ UNCHANGED server

\* A failed read counts as absent.
checkDomain(s) ==
  /\ at(s, "domain")
  /\ \/ /\ IF sub[s].domain \in kv.domains THEN ends(s) ELSE to(s, "cap")
        /\ UNCHANGED <<faults, disturbed>>
     \/ to(s, "cap") /\ fault /\ disturbed' = TRUE
  /\ UNCHANGED <<kv, accepted, page, edits>> /\ UNCHANGED server

\* A failed read counts as zero.
checkCap(s) ==
  /\ at(s, "cap")
  /\ \/ /\ IF kv.count >= Cap THEN ends(s) ELSE to(s, "send")
        /\ UNCHANGED <<faults, disturbed>>
     \/ /\ IF 0 >= Cap THEN ends(s) ELSE to(s, "send")
        /\ fault /\ disturbed' = TRUE
  /\ UNCHANGED <<kv, accepted, page, edits>> /\ UNCHANGED server

\* Cloudflare may refuse, or accept and its answer be lost.
sendCategorization(s) ==
  /\ at(s, "send")
  /\ \/ accepted' = [accepted EXCEPT ![sub[s].domain] = @ + 1] /\ to(s, "putDomain")
        /\ UNCHANGED <<faults, disturbed>>
     \/ \E n \in {0, 1} : accepted' = [accepted EXCEPT ![sub[s].domain] = @ + n]
        /\ ends(s) /\ fault /\ disturbed' = TRUE
  /\ UNCHANGED <<kv, page, edits>> /\ UNCHANGED server

\* recordSubmission: three keys, the last two read, changed and put back.
putDomain(s) ==
  /\ at(s, "putDomain")
  /\ kv' = [kv EXCEPT !.domains = @ \cup {sub[s].domain}] /\ to(s, "list")
  /\ UNCHANGED <<accepted, disturbed, page, faults, edits>> /\ UNCHANGED server
readList(s) ==
  /\ at(s, "list")
  /\ \/ sub' = [sub EXCEPT ![s].pc = "putList", ![s].seen = kv.list[sub[s].case]]
        /\ UNCHANGED <<faults, disturbed>>
     \/ to(s, "putList") /\ fault /\ disturbed' = TRUE
  /\ UNCHANGED <<kv, accepted, page, edits>> /\ UNCHANGED server
putList(s) ==
  /\ at(s, "putList") /\ to(s, "count")
  /\ kv' = [kv EXCEPT !.list[sub[s].case] = sub[s].seen \cup {sub[s].domain}]
  /\ UNCHANGED <<accepted, disturbed, page, faults, edits>> /\ UNCHANGED server
readCount(s) ==
  /\ at(s, "count")
  /\ \/ sub' = [sub EXCEPT ![s].pc = "putCount", ![s].count = kv.count]
        /\ UNCHANGED <<faults, disturbed>>
     \/ to(s, "putCount") /\ fault /\ disturbed' = TRUE
  /\ UNCHANGED <<kv, accepted, page, edits>> /\ UNCHANGED server
putCount(s) ==
  /\ at(s, "putCount") /\ ends(s)
  /\ kv' = [kv EXCEPT !.count = sub[s].count + 1]
  /\ UNCHANGED <<accepted, disturbed, page, faults, edits>> /\ UNCHANGED server

submissionStep(s) ==
  \/ checkLabels(s) \/ checkDomain(s) \/ checkCap(s) \/ sendCategorization(s)
  \/ putDomain(s) \/ readList(s) \/ putList(s) \/ readCount(s) \/ putCount(s)

\* A put that throws, or a restart, leaves the rest of the record unwritten.
submissionLost(s) ==
  /\ sub[s] # None /\ ends(s) /\ fault /\ disturbed' = TRUE
  /\ UNCHANGED <<kv, accepted, page, edits>> /\ UNCHANGED server

(* ------------------------------------------------------------ the case page --- *)

others == <<stored, notPhish, book, job, report, flagged, hub, faults, edits>>

openPage(c) ==
  /\ page.case = None
  /\ page' = [page EXCEPT !.case = c, !.loading = TRUE]
  /\ UNCHANGED others /\ UNCHANGED cloud

\* The effect arms a timer when the status or updated_at it depends on changed.
show(row) ==
  LET pending == row # None /\ row.summary = "pending"
      rerun == \/ (page.shows = None) # (row = None)
               \/ page.shows # None /\ row # None
                  /\ <<page.shows.summary, page.shows.updated>> # <<row.summary, row.updated>>
  IN [page EXCEPT !.loading = FALSE, !.shows = row,
        !.timer = IF rerun THEN pending /\ page.polls < MaxPolls ELSE @,
        !.polls = IF pending THEN @ ELSE 0]

pageLoads ==
  /\ page.loading /\ page' = show(book[page.case])
  /\ UNCHANGED others /\ UNCHANGED cloud

pollTimer ==
  /\ page.timer /\ page.polls < MaxPolls
  /\ page' = [page EXCEPT !.timer = FALSE, !.loading = TRUE, !.polls = @ + 1]
  /\ UNCHANGED others /\ UNCHANGED cloud

Next ==
  \/ \E c \in Cases :
       \/ createCase(c, None, Domains) \/ \E e \in stored : createCase(c, e, Domains)
       \/ \E s \in Statuses : setStatus(c, s)
       \/ deleteCase(c) \/ startSummary(c) \/ summaryAnswers(c) \/ summaryLost(c)
       \/ openPage(c)
  \/ \E e \in Emails : deleteEmail(e) \/ markNotPhish(e)
  \/ \E r \in Reports :
       \/ \E e \in Emails : reportPhish(r, e)
       \/ \E c \in Cases : reportCreates(r, c)
       \/ reportFlags(r) \/ reportPosts(r) \/ reportNotes(r)
  \/ \E s \in Submissions :
       \/ \E c \in Cases, d \in Domains : submitCloudflare(s, c, d)
       \/ submissionStep(s) \/ submissionLost(s)
  \/ pageLoads \/ pollTimer

Spec == Init /\ [][Next]_vars

(* -------------------------------------------------------------- properties --- *)

\* A case whose summary is pending has a job that will settle it, unless a
\* restart lost the job, whatever is edited or deleted meanwhile.
PendingHasJob ==
  \A c \in Cases : book[c] # None /\ book[c].summary = "pending" =>
    job[c] \in {"queued", "asked", "lost"}

\* A case that says it is shared is one the hub holds.
SharedIsHeld == \A c \in Cases : book[c] # None /\ book[c].shared => c \in hub

\* routes/cases.ts:135-197: as long as no two submissions overlap and none of
\* their calls fails, a domain is sent to Cloudflare once and listed under its
\* case, and no more are sent than the monthly cap.
SubmissionsCounted ==
  ~disturbed =>
    /\ \A d \in Domains : accepted[d] <= 1
    /\ Cardinality({d \in Domains : accepted[d] = 1}) <= Cap
    /\ alone => \A d \in Domains : accepted[d] = 1 =>
                  d \in kv.domains /\ \E c \in Cases : d \in kv.list[c]

CasesTruthful == PendingHasJob /\ SharedIsHeld /\ SubmissionsCounted

\* case-detail.tsx:150: "Poll for the AI co-pilot summary (issue #127) while
\* it's still generating."
PollsWhilePending ==
  page.shows # None /\ page.shows.summary = "pending" =>
    page.timer \/ page.loading \/ page.polls >= MaxPolls
=============================================================================
