----------------------------- MODULE InboxWalk -----------------------------
(***************************************************************************)
(* A reader pages through "All inboxes" (GET /api/v1/inbox) while the      *)
(* mailboxes behind it change.  A page asks every mailbox for its rows     *)
(* after the cursor, each in its own call, and merges what came back.      *)
(* The listing queries of a mailbox come first, as operators on its tables.*)
(* A row of `emails' is a record; ids, thread ids and dates are naturals   *)
(* (they are only compared), a subject is the class its normalisation      *)
(* gives it, with "" for an empty one.  Rows written before threading have *)
(* no thread id.                                                           *)
(***************************************************************************)
EXTENDS Naturals, FiniteSets, FiniteSetsExt

CONSTANTS
  NoThread,    \* the NULL thread_id or in_reply_to of a row
  Mailboxes,
  Folders,     \* the folders table, the same in every mailbox
  Seeds,       \* for each mailbox, the tables it may hold when the walk starts
  Late,        \* messages that may arrive meanwhile, as <<mailbox, row>>
  Limit,       \* rows on a page
  MaxChanges,  \* bound: changes to the mailboxes during the walk
  MaxFaults    \* bound: mailboxes whose settings or query fail

(* ----------------------------------------------------- the listing queries --- *)

Inbox == "inbox"
Sent == "sent"
Draft == "draft"

\* SELECT id FROM folders WHERE name = x OR id = x LIMIT 1: every row that
\* may come first; `folders` maps the ids to the names.
folderIds(folders, x) ==
  {f \in DOMAIN folders : f = x \/ folders[f] = x}

inFolder(emails, f) == {e \in emails : e.folder = f}

\* COALESCE(thread_id, id)
rawThread(e) == IF e.thread = NoThread THEN e.id ELSE e.thread

(* ------------------------------------------------------- conversations --- *)

\* The row an e-mail of the folder has in thread_to_conversation: a threaded
\* message belongs to its thread, a legacy one to the least thread of those
\* in the folder with its subject.
conversationRow(here, e) ==
  [raw |-> rawThread(e), subject |-> e.subject, thread |-> e.thread,
   conversation |->
     IF e.thread # NoThread THEN e.thread
     ELSE Min({rawThread(x) : x \in {y \in here : y.subject = e.subject}})]

threadToConversation(emails, f) ==
  LET here == inFolder(emails, f) IN {conversationRow(here, e) : e \in here}

\* The rows of all_emails_with_conversation an e-mail gives: one for each row
\* of the join, and the e-mail alone when there is none.
joined(table, e) ==
  LET match == {r \in table : r.raw = rawThread(e)}
  IN IF match = {} THEN {[email |-> e, row |-> NoThread, conversation |-> rawThread(e)]}
     ELSE {[email |-> e, row |-> r, conversation |-> r.conversation] : r \in match}

emailsWithConversation(emails, f) ==
  LET table == threadToConversation(emails, f)
  IN UNION {joined(table, e) : e \in emails}

sortsBefore(a, b) == a.date > b.date \/ (a.date = b.date /\ a.id > b.id)

latest(S) == CHOOSE e \in S : \A x \in S : x = e \/ sortsBefore(e, x)

\* _getThreadedEmailsImpl for one conversation: its newest message in the
\* folder with the totals over every folder.  has_draft and needs_reply look
\* the draft and the sent folder up by the names 'draft' and 'sent'.
threadedRow(emails, folders, f, c) ==
  LET all == {j \in emailsWithConversation(emails, f) : j.conversation = c}
      byName(n) == {g \in DOMAIN folders : folders[g] = n}
      newest == latest({j.email : j \in all})
      head == latest({e \in inFolder(emails, f) : \E j \in all : j.email = e})
  IN [id |-> head.id, date |-> head.date, conversation |-> c,
      thread_count |-> Cardinality(all),
      thread_unread_count |-> Cardinality({j \in all : ~j.email.read}),
      has_draft |-> \E j \in all : j.email.folder \in byName(Draft),
      needs_reply |-> /\ byName(Sent) # {} /\ byName(Draft) # {}
                      /\ newest.folder \notin byName(Sent) \cup byName(Draft)
                      /\ \E j \in all : j.email.read]

threadedRows(emails, folders, f) ==
  {threadedRow(emails, folders, f, c) :
     c \in {r.conversation : r \in threadToConversation(emails, f)}}

\* The first `limit` rows in (date DESC, id DESC) order.
firstRows(rows, limit) ==
  {r \in rows : Cardinality({x \in rows : sortsBefore(x, r)}) < limit}

\* The keyset page: the rows strictly after the cursor; no cursor is the head.
afterCursor(rows, before) ==
  {r \in rows : \A b \in before : sortsBefore(b, r)}

\* countThreadedEmails: as the listing, except that legacy mail without a
\* subject is not grouped.
countThreadedEmails(emails, f) ==
  LET here == inFolder(emails, f)
      conversation(e) == IF e.thread = NoThread /\ e.subject = ""
                           THEN e.id ELSE conversationRow(here, e).conversation
  IN Cardinality({conversation(e) : e \in here})

(* --------------------------------------------------------------- drafts --- *)

\* Drafts group by the message they answer, new ones stay alone.
draftGroup(e) == IF e.reply = NoThread THEN e.id ELSE e.reply

draftRows(emails) ==
  LET here == inFolder(emails, Draft)
      group(g) == {e \in here : draftGroup(e) = g}
  IN {[id |-> latest(group(g)).id, date |-> latest(group(g)).date,
       thread_count |-> Cardinality(group(g)),
       thread_unread_count |-> Cardinality({e \in group(g) : ~e.read})] :
        g \in {draftGroup(e) : e \in here}}

countDrafts(emails) ==
  Cardinality({draftGroup(e) : e \in inFolder(emails, Draft)})

(* ------------------------------------------------- merging the mailboxes --- *)

\* selectInboxMailboxes: the ACL first, then the flags; a mailbox whose
\* settings cannot be read is left out and reported.
selectInboxMailboxes(admitted, flags) ==
  [selected |-> {m \in admitted : flags[m] = "shown"},
   unreadable |-> {m \in admitted : flags[m] = "unreadable"}]

\* mergeInboxPages: the first `limit` of all the rows, and a cursor at the
\* last of them when more rows came than fit.
mergeInboxPages(rows, limit) ==
  LET page == firstRows(rows, limit)
      last == CHOOSE r \in page : \A x \in page : x = r \/ sortsBefore(x, r)
  IN [emails |-> page,
      nextCursor |-> IF Cardinality(rows) > limit /\ page # {}
                       THEN {[date |-> last.date, id |-> last.id]} ELSE {}]

(* --------------------------------------------------------------- the walk --- *)

VARIABLES
  mail,      \* the emails table of every mailbox
  pc,        \* "head", "query", "rest" or "done"
  waiting,   \* selected mailboxes that have not answered
  rows,      \* rows of the page under way, as <<mailbox, row>>
  cursor,    \* the cursor of the page: empty, or {date, id}
  seen,      \* how often the reader was shown a conversation
  changes,   \* changes to the mailboxes so far
  touched,   \* conversations that changed during the walk
  failed     \* mailboxes left out of some page

vars == <<mail, pc, waiting, rows, cursor, seen, changes, touched, failed>>

AllEmails == UNION {UNION Seeds[m] : m \in Mailboxes} \cup {l[2] : l \in Late}
Keys == Mailboxes \X {rawThread(e) : e \in AllEmails}

TypeOK ==
  /\ \A m \in Mailboxes : \A e \in mail[m] :
       \E x \in AllEmails : e = [x EXCEPT !.folder = e.folder, !.read = e.read]
  /\ pc \in {"head", "query", "rest", "done"}
  /\ waiting \subseteq Mailboxes /\ failed \subseteq Mailboxes
  /\ seen \in [Keys -> 0 .. 2] /\ changes \in 0 .. MaxChanges /\ touched \subseteq Keys

Init ==
  /\ mail \in {f \in [Mailboxes -> UNION {Seeds[m] : m \in Mailboxes}] :
                \A m \in Mailboxes : f[m] \in Seeds[m]}
  /\ pc = "head" /\ waiting = {} /\ rows = {} /\ cursor = {}
  /\ seen = [k \in Keys |-> 0] /\ changes = 0 /\ touched = {} /\ failed = {}

\* The route lists the mailboxes and reads ACL and settings; all of them admit
\* the reader, a settings blob may be unreadable.
openPage ==
  /\ pc \in {"head", "rest"}
  /\ \E flags \in [Mailboxes -> {"shown", "unreadable"}] :
       LET pick == selectInboxMailboxes(Mailboxes, flags)
       IN /\ Cardinality(failed \cup pick.unreadable) <= MaxFaults
          /\ waiting' = pick.selected
          /\ failed' = failed \cup pick.unreadable
  /\ pc' = "query" /\ rows' = {}
  /\ UNCHANGED <<mail, cursor, seen, changes, touched>>

\* Mutation of firstAnswer: each mailbox is asked for the rows of the page only.
firstPageOnly(m) == firstRows(afterCursor(threadedRows(mail[m], Folders, Inbox), cursor), Limit)

\* getThreadedEmails({ folder: inbox, limit: limit + 1, before })
firstAnswer(m) ==
  firstRows(afterCursor(threadedRows(mail[m], Folders, Inbox), cursor), Limit + 1)

queryMailbox(m) ==
  /\ pc = "query" /\ m \in waiting
  /\ waiting' = waiting \ {m}
  /\ \/ rows' = rows \cup {<<m, r>> : r \in firstAnswer(m)} /\ UNCHANGED failed
     \/ /\ Cardinality(failed \cup {m}) <= MaxFaults
        /\ failed' = failed \cup {m} /\ UNCHANGED rows
  /\ UNCHANGED <<mail, pc, cursor, seen, changes, touched>>

\* Every call has settled: the page is merged and shown; the reader asks for
\* the next one, if there is one.
showPage ==
  /\ pc = "query" /\ waiting = {}
  /\ LET merged == mergeInboxPages({r[2] : r \in rows}, Limit)
         shown == {<<r[1], r[2].conversation>> : r \in {x \in rows : x[2] \in merged.emails}}
     IN /\ seen' = [k \in Keys |-> IF k \in shown /\ seen[k] < 2 THEN seen[k] + 1 ELSE seen[k]]
        /\ cursor' = merged.nextCursor
        /\ pc' = IF merged.nextCursor = {} THEN "done" ELSE "rest"
  /\ rows' = {}
  /\ UNCHANGED <<mail, waiting, changes, touched, failed>>

(* ----------------------------------------- the mailboxes move on meanwhile --- *)

members(emails, c) ==
  {j.email.id : j \in {x \in emailsWithConversation(emails, Inbox) :
                         x.conversation = c /\ x.email.folder = Inbox}}

\* The mailbox becomes `emails`; a conversation with other messages in the
\* Inbox than before counts as touched.
change(m, emails) ==
  /\ pc # "done" /\ changes < MaxChanges
  /\ mail' = [mail EXCEPT ![m] = emails]
  /\ changes' = changes + 1
  /\ touched' = touched \cup
       {k \in Keys : k[1] = m /\ members(mail[m], k[2]) # members(emails, k[2])}
  /\ UNCHANGED <<pc, waiting, rows, cursor, seen, failed>>

deliver(m, e) ==
  /\ <<m, e>> \in Late
  /\ \A n \in Mailboxes : \A x \in mail[n] : x.id # e.id
  /\ change(m, mail[m] \cup {e})

moveOut(m, e) ==
  /\ e \in inFolder(mail[m], Inbox)
  /\ change(m, (mail[m] \ {e}) \cup {[e EXCEPT !.folder = "trash"]})

markThreadRead(m, t) ==
  /\ \E e \in mail[m] : e.thread = t /\ ~e.read
  /\ change(m, {IF e.thread = t THEN [e EXCEPT !.read = TRUE] ELSE e : e \in mail[m]})

Next ==
  \/ openPage \/ showPage
  \/ \E m \in Mailboxes :
       \/ queryMailbox(m)
       \/ \E e \in AllEmails : deliver(m, e)
       \/ \E e \in mail[m] : moveOut(m, e)
       \/ \E e \in AllEmails : e.thread # NoThread /\ markThreadRead(m, e.thread)

Spec == Init /\ [][Next]_vars

(* ------------------------------------------------------------- properties --- *)

\* unified-inbox.ts promises that the cursor never duplicates or skips a row:
\* a reader who pages to the end was shown every conversation that did not
\* change meanwhile, and no such conversation twice, however deliveries, moves
\* and the mailboxes' own answers interleave; only a mailbox that failed on
\* some page may be missing.
WalkShowsEachOnce ==
  \A k \in Keys \ touched :
    /\ seen[k] <= 1
    /\ pc = "done" /\ k[1] \notin failed
       /\ (\E r \in threadedRows(mail[k[1]], Folders, Inbox) : r.conversation = k[2])
       => seen[k] = 1

\* The pager's total is the number of rows the listing has, for mail that is
\* threaded or has a subject: the two are different queries (the second groups
\* legacy mail by another rule), and a total that is short hides the last page.
CountMatchesListing ==
  \A m \in Mailboxes :
    (\A e \in mail[m] : e.thread # NoThread \/ e.subject # "") =>
      /\ countThreadedEmails(mail[m], Inbox) = Cardinality(threadedRows(mail[m], Folders, Inbox))
      /\ countDrafts(mail[m]) = Cardinality(draftRows(mail[m]))

\* threaded-emails.test.ts:75 expects the count of a conversation to be the
\* number of its messages.
ThreadCountIsSize ==
  \A m \in Mailboxes : \A r \in threadedRows(mail[m], Folders, Inbox) :
    r.thread_count =
      Cardinality({j.email : j \in {x \in emailsWithConversation(mail[m], Inbox) :
                                      x.conversation = r.conversation}})
=============================================================================
