----------------------------- MODULE AgentDesk -----------------------------
(***************************************************************************)
(* The agent's answer to a new mail (agent/index.ts), the tools it and the *)
(* MCP server (mcp/index.ts) work with (lib/tools.ts), the model calls     *)
(* that scan mail and verify drafts (lib/ai.ts) and the gates to a mailbox *)
(* (lib/mailbox-acl.ts).  A tool reads, waits for a model and writes;      *)
(* other tools and users work meanwhile.                                   *)
(***************************************************************************)
EXTENDS Naturals, Sequences, FiniteSets, FiniteSetsExt, Functions

CONSTANTS
  None, NoText, \* nothing, and the empty string
  Mail,        \* [id -> row] of the mailbox at the start
  New,         \* the mail the agent is told of
  Slots,       \* ids new rows take, in order
  Jobs,        \* calls of MCP tools in flight
  Bodies,      \* what a caller writes
  Answers,     \* what a model may answer, None: the call throws
  Verdicts,    \* the action of the verdict sent along, or None
  Mailboxes,   \* the mailboxes R2 lists, in order
  Box,         \* the one whose mail is modelled
  Acls,        \* access lists, None: no list
  Tokens,      \* tokens of Cloudflare Access, None: no token
  Lower,       \* lower case: [address -> address]
  Dev,         \* local development
  ListCap,     \* 1000: objects in one answer of R2
  MaxSteps,    \* 5: stepCountIs
  MaxFaults, MaxEdits

VARIABLES
  emails,      \* [ids -> row, or None]
  made,        \* slots taken
  run,         \* the agent's run over the new mail
  job,         \* [Jobs and "agent" -> tool call in flight, or None]
  chat,        \* what the run left in the agent's chat, or None
  removed,     \* removals: who, which row and where the row was when looked at
  roots,       \* ghost: every mail, and every draft that replaced none
  gone,        \* ghost: those of them removed, moved away, or lost with a failed call
  acl,         \* [mailbox -> access list]
  session,     \* the token of the MCP session's last request
  faults, edits

vars == <<emails, made, run, job, chat, removed, roots, gone, acl, session, faults, edits>>
mailbox == <<emails, made, removed, roots, gone>>

Ids == DOMAIN Mail \cup Range(Slots)
live == {i \in Ids : emails[i] # None}
Present == Range(Mailboxes)
edit == edits < MaxEdits /\ edits' = edits + 1
fault == faults < MaxFaults /\ faults' = faults + 1

(* ------------------------------------------------------------ model calls *)

\* Of an answer's fields the first that is a string; an object nested in
\* `response', or text under a known key of the answer itself, only if it is not
\* empty.  A field is None when it is missing or not a string.
extractModelText(a) ==
  CASE a.top # None -> a.top
    [] a.top = None /\ a.response # None -> a.response
    [] OTHER -> IF a.nested \notin {None, NoText} THEN a.nested
                ELSE IF a.choices # None THEN a.choices
                ELSE IF a.direct # None THEN a.direct ELSE NoText

\* Short text is not scanned; a scanner that throws counts as a hit.
isPromptInjection(short, a) ==
  ~short /\ (a = None \/ extractModelText(a) = "YES")

\* A body is what was written and the mail it quotes at its end; only the former is
\* verified.  Too short, unchanged or more than halved: the draft as it was.
verifyDraft(b, a) ==
  IF b.text = "blank" /\ b.quote = None THEN None
  ELSE IF b.text \in {"blank", "short"} THEN b
  ELSE IF a = None THEN None
  ELSE IF extractModelText(a) = "cleaned" THEN [b EXCEPT !.text = "cleaned"] ELSE b

(* ------------------------------------------------------------------ gates *)

callerEmailFromJwt(t) == IF t = None \/ t.email = NoText THEN None ELSE t.email
callerGroupsFromJwt(t) == IF t = None THEN {} ELSE t.groups \ {None}
callerInAcl(list, email, groups) ==
  IF list = None THEN TRUE
  ELSE IF email = None THEN Dev
  ELSE \/ \E m \in list.members : Lower[m] = Lower[email]
       \/ list.groups \cap groups # {}

\* MCP: verifyMailbox, and what list_mailboxes shows.
verifyMailbox(m) ==
  m \in Present /\ callerInAcl(acl[m], callerEmailFromJwt(session), callerGroupsFromJwt(session))
listMailboxes == Range(SubSeq(Mailboxes, 1, Min({ListCap, Len(Mailboxes)})))
mcpListMailboxes ==
  IF Dev /\ callerEmailFromJwt(session) = None THEN listMailboxes
  ELSE {m \in listMailboxes :
          callerInAcl(acl[m], callerEmailFromJwt(session), callerGroupsFromJwt(session))}

\* The route to the agent of a mailbox: /agents/email-agent/<mailbox>/...
emailAgentMailboxIdFromPath(segments) ==
  IF Len(segments) >= 3 /\ SubSeq(segments, 1, 2) = <<"agents", "email-agent">> THEN segments[3] ELSE None
callerAllowedForMailbox(m, t) ==
  \/ acl[m] = None \/ Dev
  \/ /\ callerEmailFromJwt(t) # None
     /\ callerInAcl(acl[m], callerEmailFromJwt(t), callerGroupsFromJwt(t))
agentRouteOpen(segments, t) ==
  LET m == emailAgentMailboxIdFromPath(segments) IN m = None \/ callerAllowedForMailbox(m, t)

\* A request of the session brings its token; an owner changes a list.
fetch ==
  /\ session' \in Tokens
  /\ UNCHANGED mailbox /\ UNCHANGED <<run, job, chat, acl, faults, edits>>
writeMailboxAcl ==
  /\ edit
  /\ \E m \in Present, list \in Acls : acl' = [acl EXCEPT ![m] = list]
  /\ UNCHANGED mailbox /\ UNCHANGED <<run, job, chat, session, faults>>

(* ------------------------------------------------------------------ tools *)
\* Who calls a tool: a job of MCP, or the agent in a step of its run.  Bounds: a
\* slot is left for each call in flight; MCP's moves and deletes are edits.

steps == [run EXCEPT !.steps = @ + 1]
free(j) ==
  /\ job[j] = None /\ made + Cardinality({k \in DOMAIN job : job[k] # None}) < Len(Slots)
  /\ IF j = "agent" THEN run.pc = "model" /\ run.steps < MaxSteps ELSE verifyMailbox(Box)
\* The call ends, with an error if it says so; the agent's next step follows.
ends(j) == job' = [job EXCEPT ![j] = None]
begins(j, call) == job' = [job EXCEPT ![j] = call]
counted(j, drafting) ==
  run' = IF j = "agent" THEN [steps EXCEPT !.drafted = @ \/ drafting] ELSE run
erring(j) == IF j = "agent" THEN [run EXCEPT !.erred = TRUE] ELSE run
rowOf(thread, body, j, root) ==
  [folder |-> "draft", thread |-> thread, body |-> body, root |-> root,
   by |-> IF j = "agent" THEN "agent" ELSE "user"]

\* Verified, then filed under the thread of the mail it answers, or under that
\* mail's id, with the mail quoted.
toolDraftReply(j, id, b) ==
  /\ free(j)
  /\ \E a \in Answers :
       LET v == verifyDraft(b, a)
           original == emails[id]
           thread == IF original # None THEN original.thread ELSE id
       IN  IF v = None
           THEN /\ run' = IF j = "agent" THEN [steps EXCEPT !.drafted = TRUE, !.erred = TRUE] ELSE run
                /\ UNCHANGED job
           ELSE /\ counted(j, TRUE)
                /\ begins(j, [op |-> "create", id |-> id,
                     row |-> rowOf(thread, [v EXCEPT !.quote = IF original # None THEN id ELSE None], j, None)])
  /\ UNCHANGED mailbox /\ UNCHANGED <<chat, acl, session, faults, edits>>

\* A new mail, or an answer to id without a quote: the agent's is not verified.
toolDraftEmail(j, id, b) ==
  /\ free(j) /\ (j = "agent" => id = None)
  /\ \E a \in Answers :
       LET v == IF j = "agent" THEN b ELSE verifyDraft(b, a)
           thread == IF id = None THEN None ELSE IF emails[id] # None THEN emails[id].thread ELSE id
       IN  /\ v # None
           /\ begins(j, [op |-> "create", id |-> id, row |-> rowOf(thread, v, j, None)])
  /\ counted(j, TRUE)
  /\ UNCHANGED mailbox /\ UNCHANGED <<chat, acl, session, faults, edits>>

\* Mutation of toolUpdateDraft: the old draft goes before the body is verified.
deleteBeforeVerify(j, id, b) ==
  /\ free(j) /\ j # "agent" /\ id \in live
  /\ emails' = [emails EXCEPT ![id] = None]
  /\ \E a \in Answers :
       LET v == verifyDraft(IF b = None THEN emails[id].body ELSE b, a) IN
         IF v = None THEN UNCHANGED job
         ELSE begins(j, [op |-> "create", id |-> id, row |-> rowOf(emails[id].thread, v, j, emails[id].root)])
  /\ UNCHANGED <<made, removed, roots, gone, run, chat, acl, session, faults, edits>>

\* update_draft of whatever row has the id: verified first, then the row is
\* deleted and a draft made in its place.  b = None keeps the body.
toolUpdateDraft(j, id, b) ==
  /\ free(j) /\ j # "agent" /\ id \in live
  /\ \E a \in Answers :
       LET old == emails[id]
           v == verifyDraft(IF b = None THEN old.body ELSE b, a)
       IN  /\ v # None
           /\ begins(j, [op |-> "replace", id |-> id, row |-> rowOf(old.thread, v, j, old.root)])
  /\ UNCHANGED mailbox /\ UNCHANGED <<run, chat, acl, session, faults, edits>>

\* The row is looked at; only a draft is then deleted.
toolDiscardDraft(j, id) ==
  /\ free(j) /\ j = "agent" /\ counted(j, FALSE)
  /\ IF id \in live /\ emails[id].folder = "draft"
     THEN begins(j, [op |-> "delete", id |-> id, row |-> emails[id]])
     ELSE UNCHANGED job
  /\ UNCHANGED mailbox /\ UNCHANGED <<chat, acl, session, faults, edits>>

gaveUp(id) == gone' = IF id \in live THEN gone \cup {emails[id].root} ELSE gone
toolDeleteEmail(j, id) ==
  /\ free(j) /\ j # "agent" /\ id \in live /\ edit
  /\ emails' = [emails EXCEPT ![id] = None] /\ gaveUp(id)
  /\ UNCHANGED <<made, removed, roots, run, job, chat, acl, session, faults>>

toolMoveEmail(j, id, f) ==
  /\ free(j) /\ id \in live /\ counted(j, FALSE)
  /\ IF j = "agent" THEN UNCHANGED edits ELSE edit
  /\ emails' = [emails EXCEPT ![id].folder = f]
  /\ gone' = IF f = "draft" THEN gone ELSE gone \cup {emails[id].root}
  /\ UNCHANGED <<made, removed, roots, job, chat, acl, session, faults>>

\* list_emails, get_email, get_thread, search_emails and mark_email_read.
readingTool ==
  /\ free("agent") /\ counted("agent", FALSE)
  /\ UNCHANGED mailbox /\ UNCHANGED <<job, chat, acl, session, faults, edits>>

\* The writes of a call.  A row keeps the root of the draft it replaces.
create(j) ==
  /\ job[j] # None /\ job[j].op = "create" /\ made < Len(Slots)
  /\ LET id == Slots[made + 1]
         row == job[j].row
     IN  /\ emails' = [emails EXCEPT ![id] =
           [row EXCEPT !.thread = IF @ = None THEN id ELSE @, !.root = IF @ = None THEN id ELSE @]]
         /\ roots' = IF row.root = None THEN roots \cup {id} ELSE roots
  /\ made' = made + 1 /\ ends(j)
  /\ run' = IF j = "agent" THEN [run EXCEPT !.made = @ + 1] ELSE run
  /\ UNCHANGED <<chat, removed, gone, acl, session, faults, edits>>

replace(j) ==
  /\ job[j] # None /\ job[j].op = "replace"
  /\ emails' = [emails EXCEPT ![job[j].id] = None]
  /\ job' = [job EXCEPT ![j].op = "create"]
  /\ UNCHANGED <<made, removed, roots, gone, run, chat, acl, session, faults, edits>>

delete(j) ==
  /\ job[j] # None /\ job[j].op = "delete"
  /\ emails' = [emails EXCEPT ![job[j].id] = None]
  /\ removed' = removed \cup {[who |-> j, id |-> job[j].id, folder |-> job[j].row.folder]}
  /\ gaveUp(job[j].id) /\ ends(j)
  /\ UNCHANGED <<made, roots, run, chat, acl, session, faults, edits>>

\* A call to the mailbox fails, a delete perhaps after it was done: the tool
\* throws, and the draft it was to replace is lost if it was deleted.
failCall(j) ==
  /\ job[j] # None /\ fault /\ ends(j) /\ run' = erring(j)
  /\ \E done \in IF job[j].op = "create" THEN {FALSE} ELSE BOOLEAN :
       /\ emails' = IF done THEN [emails EXCEPT ![job[j].id] = None] ELSE emails
       /\ gone' = IF (done \/ job[j].op = "create") /\ job[j].row.root # None
                  THEN gone \cup {job[j].row.root} ELSE gone
  /\ UNCHANGED <<made, removed, roots, chat, acl, session, edits>>

\* The MCP server's tools.
mcpDraftReply(j) == \E id \in DOMAIN Mail, b \in Bodies : toolDraftReply(j, id, b)
mcpCreateDraft(j) == \E id \in {None, New}, b \in Bodies : toolDraftEmail(j, id, b)
mcpUpdateDraft(j) == \E id \in Ids, b \in Bodies \cup {None} : toolUpdateDraft(j, id, b)
mcpDeleteEmail(j) == \E id \in Ids : toolDeleteEmail(j, id)
mcpMoveEmail(j) == \E id \in Ids, f \in {"draft", "trash"} : toolMoveEmail(j, id, f)
mcpTool(j) ==
  mcpDraftReply(j) \/ mcpCreateDraft(j) \/ mcpUpdateDraft(j) \/ mcpDeleteEmail(j) \/ mcpMoveEmail(j)

\* The agent's: it can neither update, nor delete, nor send.
createEmailTools ==
  \/ readingTool
  \/ \E b \in Bodies : toolDraftEmail("agent", None, b)
  \/ \E id \in DOMAIN Mail, b \in Bodies : toolDraftReply("agent", id, b)
  \/ \E id \in Ids, f \in {"draft", "trash"} : toolMoveEmail("agent", id, f)
  \/ \E id \in Ids : toolDiscardDraft("agent", id)

(* --------------------------------------------------------- the agent's run *)

says(entry) == chat' = entry
to(pc) == run' = [run EXCEPT !.pc = pc]
calm == UNCHANGED mailbox /\ UNCHANGED <<job, acl, session, edits>>

\* The pipeline's verdict stops the run with a note.
handleNewEmail ==
  /\ run.pc = "idle"
  /\ \E v \in Verdicts :
       IF v \in {"tag", "quarantine", "block"}
       THEN to("done") /\ says("suspended")
       ELSE to("body") /\ UNCHANGED chat
  /\ UNCHANGED faults /\ calm

\* The question put in a chat instead: nothing is read ahead or left behind.
onChatMessage ==
  /\ run.pc = "idle" /\ run' = [run EXCEPT !.pc = "model", !.asked = TRUE]
  /\ UNCHANGED <<chat, faults>> /\ calm

\* Text that was scanned before it is used; ghost: what the model said of it.
alarm(a) == a = None \/ a.response = "YES" \/ (a.response = None /\ a.nested = "YES")
scan(short, texts, a, next) ==
  IF isPromptInjection(short, a)
  THEN /\ run' = [run EXCEPT !.pc = "done", !.alarmed = IF short THEN @ ELSE @ \cup texts]
       /\ says("blocked")
  ELSE /\ run' = [run EXCEPT !.pc = next, !.prompt = @ \cup texts,
                             !.alarmed = IF ~short /\ alarm(a) THEN @ \cup texts ELSE @]
       /\ UNCHANGED chat

preReadBody ==
  /\ run.pc = "body"
  /\ IF New \notin live \/ emails[New].body.text = "blank"
     THEN to("list") /\ UNCHANGED chat
     ELSE \E a \in Answers : scan(emails[New].body.text = "short", {<<"body", New>>}, a, "list")
  /\ UNCHANGED faults /\ calm

\* The rows of the thread; then their texts, each read on its own, and scanned
\* together.  One mail alone is no history.
listThread ==
  /\ run.pc = "list"
  /\ LET thread == {i \in live : emails[i].thread = Mail[New].thread}
     IN  run' = IF Cardinality(thread) > 1 THEN [run EXCEPT !.pc = "thread", !.thread = thread]
                ELSE [run EXCEPT !.pc = "model"]
  /\ UNCHANGED <<chat, faults>> /\ calm
preReadThread ==
  /\ run.pc = "thread"
  /\ \E a \in Answers : scan(FALSE, {<<"history", i>> : i \in run.thread \cap live}, a, "model")
  /\ UNCHANGED faults /\ calm

\* "Pre-read failed, agent will use tools": what was read so far is the prompt.
preReadFails ==
  /\ run.pc \in {"body", "list", "thread"} /\ fault /\ to("model")
  /\ UNCHANGED chat /\ calm

\* The model's last words, with or without a tool; a run over a new mail takes
\* them for the draft when no draft tool was called.
generateText ==
  /\ run.pc = "model" /\ job["agent"] = None
  /\ \E b \in Bodies \cup {[text |-> "blank", quote |-> None]} :
       IF run.asked \/ run.drafted \/ b.text = "blank"
       THEN run' = [run EXCEPT !.pc = IF run.asked THEN "done" ELSE "log", !.text = b.text] /\ UNCHANGED job
       ELSE \E a \in Answers :
              LET v == verifyDraft(b, a) IN
                /\ run' = [run EXCEPT !.pc = IF v = None THEN "log" ELSE "inline", !.text = b.text,
                                     !.erred = FALSE]
                /\ IF v = None THEN UNCHANGED job
                   ELSE begins("agent", [op |-> "create", id |-> New,
                          row |-> [rowOf(Mail[New].thread, v, "inline", None) EXCEPT !.by = "user"]])
  /\ UNCHANGED mailbox /\ UNCHANGED <<chat, acl, session, faults, edits>>

\* The draft was saved; the chat says what was done.
saved == run.pc = "inline" /\ job["agent"] = None /\ ~run.erred
persistMessages ==
  /\ run.pc = "log" \/ saved
  /\ to("done") /\ says(IF run.drafted THEN "created" ELSE run.text)
  /\ UNCHANGED faults /\ calm

\* The model, the inline draft or the chat's storage throws: nothing is said.
autoDraftFails ==
  /\ \/ run.pc \in {"model", "log"} /\ ~run.asked /\ job["agent"] = None /\ fault
     \/ run.pc = "inline" /\ job["agent"] = None /\ run.erred /\ UNCHANGED faults
  /\ to("failed") /\ UNCHANGED chat /\ calm

(* ------------------------------------------------------------------ users *)

userMoves ==
  /\ edit
  /\ \E i \in live, f \in {"inbox", "draft", "quarantine"} :
       /\ emails' = [emails EXCEPT ![i].folder = f]
       /\ gone' = IF f = "draft" THEN gone ELSE gone \cup {emails[i].root}
  /\ UNCHANGED <<made, removed, roots, run, job, chat, acl, session, faults>>
userDeletes ==
  /\ edit
  /\ \E i \in live : emails' = [emails EXCEPT ![i] = None] /\ gaveUp(i)
  /\ UNCHANGED <<made, removed, roots, run, job, chat, acl, session, faults>>

Init ==
  /\ emails = [i \in Ids |-> IF i \in DOMAIN Mail THEN Mail[i] ELSE None]
  /\ made = 0 /\ chat = None /\ removed = {} /\ roots = DOMAIN Mail /\ gone = {} /\ faults = 0 /\ edits = 0
  /\ run = [pc |-> "idle", asked |-> FALSE, prompt |-> {}, thread |-> {}, alarmed |-> {}, steps |-> 0,
            drafted |-> FALSE, erred |-> FALSE, made |-> 0, text |-> "blank"]
  /\ job = [j \in Jobs \cup {"agent"} |-> None]
  /\ acl \in [Present -> Acls] /\ session \in Tokens

agentStep ==
  \/ handleNewEmail \/ onChatMessage \/ preReadBody \/ listThread \/ preReadThread \/ preReadFails
  \/ createEmailTools \/ generateText \/ persistMessages \/ autoDraftFails
toolStep(j) == create(j) \/ replace(j) \/ delete(j) \/ failCall(j)
Next ==
  \/ agentStep \/ userMoves \/ userDeletes \/ fetch \/ writeMailboxAcl
  \/ \E j \in Jobs : mcpTool(j)
  \/ \E j \in DOMAIN job : toolStep(j)
Spec == Init /\ [][Next]_vars

(* ------------------------------------------------------------- properties *)

TypeOK ==
  /\ made \in 0..Len(Slots) /\ roots \subseteq Ids /\ gone \subseteq roots
  /\ run.steps \in 0..MaxSteps /\ run.made \in 0..made
  /\ \A i \in live : emails[i].by \in {"agent", "user"} /\ emails[i].root \in roots
  /\ \A m \in Present : acl[m] \in Acls
  /\ session \in Tokens /\ faults \in 0..MaxFaults /\ edits \in 0..MaxEdits

\* agent/index.ts:387-496: no text the scanner raised an alarm over, in whatever
\* shape its answer came, or failed on is in the prompt of an automatic draft.
PromptScanned == run.prompt \cap run.alarmed = {}

\* A run the verdict or the scanner stopped called no tool and left no draft.
BlockedLeavesNothing ==
  chat \in {"suspended", "blocked"} => run.steps = 0 /\ run.made = 0 /\ job["agent"] = None

\* The chat says a draft was created only when one was or a draft tool failed; a
\* run that ended well tells of its drafts.
ChatTrue ==
  /\ chat = "created" /\ ~run.erred => run.made > 0
  /\ run.pc = "done" /\ ~run.asked /\ run.made > 0 => chat # None
  /\ chat \notin {None, "created"} => run.made <= 1

\* The agent deletes only rows that were drafts when it looked.
AgentRemovesDrafts == \A r \in removed : r.folder = "draft"

\* tools.ts:333: "Verify the body BEFORE deleting the old draft to prevent data
\* loss": whoever updates it meanwhile, a mail or draft nobody removed is there, or
\* about to be put back.
DraftsSurvive ==
  \A r \in roots \ gone :
    \/ \E i \in live : emails[i].root = r
    \/ \E j \in DOMAIN job : job[j] # None /\ job[j].op = "create" /\ job[j].row.root = r

\* A draft is in the thread of the mail it quotes.
RepliesThreaded ==
  \A i \in live : emails[i].body.quote # None => emails[i].thread = Mail[emails[i].body.quote].thread

\* mailbox-acl.ts:158-160: in production the list of mailboxes, their tools and the
\* route to their agent have "the same ACL boundary".
GatesAgree ==
  ~Dev => \A m \in Present :
    /\ verifyMailbox(m) <=> agentRouteOpen(<<"agents", "email-agent", m>>, session)
    /\ m \in listMailboxes => (m \in mcpListMailboxes <=> verifyMailbox(m))

AgentSound ==
  /\ PromptScanned /\ BlockedLeavesNothing /\ ChatTrue /\ AgentRemovesDrafts
  /\ DraftsSurvive /\ RepliesThreaded /\ GatesAgree
=============================================================================
