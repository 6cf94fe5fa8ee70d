---------------------------- MODULE InboundMail ----------------------------
(***************************************************************************)
(* One mailbox receiving mail: receiveEmail in workers/index.ts with every *)
(* storage call an action of its own, the deep scan and the agent it leaves*)
(* running, the YARA sidecar's callbacks and the user at the inbox, all    *)
(* over the rows of the mailbox's Durable Object.                          *)
(*                                                                         *)
(* A message that receiveEmail throws on is delivered again by its origin, *)
(* and every attempt mints a new row id, so the rows are keyed by a copy   *)
(* <<message, attempt>>.                                                   *)
(***************************************************************************)
EXTENDS Verdict, FiniteSets

CONSTANTS
    Msg,            \* messages sent to the mailbox
    MaxAttempts,    \* BOUND: deliveries of one message by its origin
    MailKinds,      \* what a message may be
    MailboxKinds,   \* how the mailbox may be configured
    Fallback,       \* the settings a failed settings read resolves to
    RelayActions,   \* the relay policy's behaviour for each action
    Facts,          \* what a scan may find out
    Added,          \* what a deep scan may add to a score
    YaraDeltas,     \* what a YARA callback may add to a score
    MaxCallbacks,   \* BOUND: YARA callbacks for one copy
    UserFolders,    \* BOUND: where the user files mail
    Faults,         \* the calls that may fail
    MaxFaults       \* BOUND: failed calls of one message

Mails == [rule : {"none", "spam", "drop"}, report : BOOLEAN,
          mergeable : BOOLEAN, attached : Nat]
Settings == [honeypot : BOOLEAN, sidecar : BOOLEAN, autoDraft : BOOLEAN,
             yara : BOOLEAN, gateway : BOOLEAN, enabled : BOOLEAN,
             learning : BOOLEAN, demote : BOOLEAN, intelBlock : BOOLEAN,
             trustAllow : BOOLEAN]
Folders == {"inbox", "spam", "archive", "quarantine"}

ASSUME ModelAssumption ==
    /\ MaxAttempts \in Nat
    /\ MailKinds \subseteq Mails
    /\ MailboxKinds \subseteq Settings
    /\ Fallback \in Settings
    /\ RelayActions \in [Actions -> Behaviors]
    /\ Facts \subseteq FactRecords
    /\ Added \subseteq 0..DeepScanMaxAdd
    /\ YaraDeltas \subseteq 0..YaraScoreCap
    /\ MaxCallbacks \in Nat
    /\ UserFolders \subseteq Folders

Copy == Msg \X (1..MaxAttempts)

VARIABLES
    mail, mailbox,  \* the environment: the messages and the stored settings
    handler,        \* receiveEmail's activation for each copy
    row,            \* the emails table
    run,            \* the pipeline_runs table
    blobs,          \* the attachments in R2
    scan,           \* runDeepScan's activation for each copy
    yara,           \* YARA callbacks the sidecar may still send
    agent,          \* handleNewEmail's outcome
    sent,           \* the copies the relay target accepted
    announced,      \* the folder the clients were told
    missed,         \* ghost: the calls that failed
    moved           \* ghost: the copies the user filed last

vars == <<mail, mailbox, handler, row, run, blobs, scan, yara, agent, sent,
          announced, missed, moved>>
world == <<mail, mailbox>>
async == <<scan, yara, agent>>
outside == <<sent, announced>>

NoRow == [folder |-> "absent", joined |-> FALSE, verdict |-> "none",
          score |-> 0, deep |-> "pending", relay |-> "none"]

Init ==
    /\ mail \in [Msg -> MailKinds]
    /\ mailbox \in MailboxKinds
    /\ handler = [c \in Copy |->  [at |-> "idle", written |-> 0, spam |-> FALSE,
                                  joined |-> FALSE, recorded |-> FALSE, verdict |-> "none",
                                  result |-> "none", relay |-> "none"]]
    /\ row = [c \in Copy |-> NoRow]
    /\ run = [c \in Copy |-> "none"]
    /\ blobs = {}
    /\ scan = [c \in Copy |-> [at |-> "none", base |-> "none", score |-> 0]]
    /\ yara = [c \in Copy |-> 0]
    /\ agent = [c \in Copy |-> "none"]
    /\ sent = {}
    /\ announced = [c \in Copy |-> "none"]
    /\ missed = [c \in Copy |-> {}]
    /\ moved = {}
-----------------------------------------------------------------------------
Stored(c) == row[c].folder \in Folders

\* Mutation of Update: an upsert, which brings a deleted row back.
Upsert(c, r) == row' = [row EXCEPT ![c] = r]

\* An UPDATE ... WHERE id = c: no row, no effect.
Update(c, r) == row' = IF Stored(c) THEN [row EXCEPT ![c] = r] ELSE row

At(c, where) == handler[c].at = where
Become(c, h) == handler' = [handler EXCEPT ![c] = h]
Goto(c, where) == Become(c, [handler[c] EXCEPT !.at = where])
ScanGoto(c, where) == scan' = [scan EXCEPT ![c] = [scan[c] EXCEPT !.at = where]]

Failures(m) == {f \in (1..MaxAttempts) \X Faults : f[2] \in missed[<<m, f[1]>>]}

\* The calls fail, or their replies are lost after they took effect.
MissAll(c, calls) ==
    /\ calls \subseteq Faults
    /\ Cardinality(Failures(c[1])) + Cardinality(calls) <= MaxFaults
    /\ missed' = [missed EXCEPT ![c] = @ \cup calls]

Miss(c, call) == MissAll(c, {call})

\* resolveMailboxSettings never throws: a tier it cannot read counts as empty.
Read(c, call, s) ==
    \/ s = mailbox /\ UNCHANGED missed
    \/ s = Fallback /\ Miss(c, call)

Reads == {mailbox, Fallback}

\* What attachmentObjectKey names: one object for each attachment of a copy.
Objects(c, n) == {c} \X (1..n)
AllObjects(c) == Objects(c, mail[c[1]].attached)

Inbound(c) == IF handler[c].spam THEN "spam" ELSE "inbox"
-----------------------------------------------------------------------------
(* receiveEmail, up to the stored row. *)

\* The origin's first delivery, or a later one after a delivery that threw.
Due(c) == c[2] > 1 => handler[<<c[1], c[2] - 1>>].at \in {"threw", "crashed"}

\* The sender blocklist runs before any storage; honeypots never block.
Accept(c) ==
    /\ At(c, "idle")
    /\ Due(c)
    /\ \E s \in Reads :
         LET rule == IF s = mailbox /\ ~s.honeypot THEN mail[c[1]].rule ELSE "none"
         IN  /\ Read(c, "blockRead", s)
             /\ Become(c, [handler[c] EXCEPT
                    !.at = IF rule = "drop" THEN "blocked" ELSE "storing",
                    !.spam = (rule = "spam")])
    /\ UNCHANGED <<world, row, run, blobs, async, outside, moved>>

Unwritten(c) == At(c, "storing") /\ handler[c].written < mail[c[1]].attached
NextObject(c) == <<c, handler[c].written + 1>>

\* The key of an attachment is recorded once its put resolved.
StoreAttachment(c) ==
    /\ Unwritten(c)
    /\ blobs' = blobs \cup {NextObject(c)}
    /\ Become(c, [handler[c] EXCEPT !.written = @ + 1])
    /\ UNCHANGED <<world, row, run, async, outside, missed, moved>>

AttachmentsStored(c) ==
    /\ At(c, "storing")
    /\ handler[c].written = mail[c[1]].attached
    /\ Goto(c, "creating")
    /\ UNCHANGED <<world, row, run, blobs, async, outside, missed, moved>>

\* A put that throws may have taken effect; its key is not recorded.
StoreAttachmentFails(c) ==
    /\ Unwritten(c)
    /\ Miss(c, "r2")
    /\ blobs' \in {blobs, blobs \cup {NextObject(c)}}
    /\ Goto(c, "cleaning")
    /\ UNCHANGED <<world, row, run, async, outside, moved>>

\* Mutation of CleanUp: it forgets the key written last.
CleanUpForgetsOne(c) ==
    /\ At(c, "cleaning")
    /\ blobs' = blobs \ Objects(c, handler[c].written - 1)
    /\ Goto(c, "threw")
    /\ UNCHANGED <<world, row, run, async, outside, missed, moved>>

\* The recorded keys are deleted; Promise.allSettled hides the deletes that fail.
CleanUp(c) ==
    /\ At(c, "cleaning")
    /\ LET written == Objects(c, handler[c].written)
       IN  \E unlinked \in SUBSET written :
             /\ blobs' = blobs \ unlinked
             /\ IF unlinked = written THEN UNCHANGED missed ELSE Miss(c, "unlink")
    /\ Goto(c, "threw")
    /\ UNCHANGED <<world, row, run, async, outside, moved>>

\* A subject merge needs trusted DMARC and a thread to join.
MayJoin(c) == mail[c[1]].mergeable /\ ~handler[c].spam

\* The lookup of that thread throws, and nothing cleans up.
FindThreadFails(c) ==
    /\ At(c, "creating")
    /\ MayJoin(c)
    /\ Miss(c, "thread")
    /\ Goto(c, "threw")
    /\ UNCHANGED <<world, row, run, blobs, async, outside, moved>>

NewRow(c, joins) == [NoRow EXCEPT !.folder = Inbound(c), !.joined = joins]

CreateRow(c) ==
    /\ At(c, "creating")
    /\ \E joins \in {FALSE, MayJoin(c)} :
         /\ row' = [row EXCEPT ![c] = NewRow(c, joins)]
         /\ Become(c, [handler[c] EXCEPT !.at = "stored", !.joined = joins])
    /\ UNCHANGED <<world, run, blobs, async, outside, missed, moved>>

CreateRowFails(c) ==
    /\ At(c, "creating")
    /\ Miss(c, "create")
    /\ \/ UNCHANGED row
       \/ row' = [row EXCEPT ![c] = NewRow(c, MayJoin(c))]
    /\ Goto(c, "threw")
    /\ UNCHANGED <<world, run, blobs, async, outside, moved>>

\* Mutation of CheckHoneypot: the harvest does not return.
HarvestAndGoOn(c) ==
    /\ At(c, "stored")
    /\ Goto(c, "diverting")
    /\ UNCHANGED <<world, row, run, blobs, async, outside, missed, moved>>

\* A honeypot's mail is only harvested; everything else goes on.
CheckHoneypot(c) ==
    /\ At(c, "stored")
    /\ \E s \in Reads :
         /\ Read(c, "trapRead", s)
         /\ Goto(c, IF s.honeypot THEN "done" ELSE "diverting")
    /\ UNCHANGED <<world, row, run, blobs, async, outside, moved>>

\* DMARC and TLS-RPT reports whose ingest succeeds leave for the archive.
DivertReport(c) ==
    /\ At(c, "diverting")
    /\ mail[c[1]].report
    /\ Update(c, [row[c] EXCEPT !.folder = "archive"])
    /\ moved' = moved \ {c}
    /\ Goto(c, "done")
    /\ UNCHANGED <<world, run, blobs, async, outside, missed>>

\* The move took effect but its reply was lost: scanned as mail all the same.
DivertFails(c) ==
    /\ At(c, "diverting")
    /\ mail[c[1]].report
    /\ Miss(c, "divert")
    /\ Update(c, [row[c] EXCEPT !.folder = "archive"])
    /\ moved' = moved \ {c}
    /\ Goto(c, "starting")
    /\ UNCHANGED <<world, run, blobs, async, outside>>

\* Not a report; or one the ingest declines, or fails on, or cannot move.
KeepAsMail(c) ==
    /\ At(c, "diverting")
    /\ Goto(c, "starting")
    /\ UNCHANGED <<world, row, run, blobs, async, outside, missed, moved>>
-----------------------------------------------------------------------------
(* receiveEmail, the synchronous pipeline. *)

\* pipeline_runs.email_id references the row: no row, no run.
StartRun(c) ==
    /\ At(c, "starting")
    /\ run' = [run EXCEPT ![c] = IF Stored(c) THEN "running" ELSE "none"]
    /\ Become(c, [handler[c] EXCEPT !.at = "scanning", !.recorded = Stored(c)])
    /\ UNCHANGED <<world, row, blobs, async, outside, missed, moved>>

StartRunFails(c) ==
    /\ At(c, "starting")
    /\ Miss(c, "start")
    /\ \/ UNCHANGED run
       \/ Stored(c) /\ run' = [run EXCEPT ![c] = "running"]
    /\ Goto(c, "scanning")
    /\ UNCHANGED <<world, row, blobs, async, outside, moved>>

SkipScan(c) ==
    /\ At(c, "scanning")
    /\ \E s \in Reads : Read(c, "scanRead", s) /\ ~s.enabled
    /\ Become(c, [handler[c] EXCEPT !.at = "closing", !.result = "skipped"])
    /\ UNCHANGED <<world, row, run, blobs, async, outside, moved>>

\* Mutation of Judged: only a block is filed.
JudgedBlocksOnly(c, v) ==
    Become(c, [handler[c] EXCEPT
        !.at = IF v.action = "block" THEN "filing" ELSE "closing",
        !.verdict = v.action,
        !.result = "completed"])

\* The handler goes on with the verdict v in memory.
Judged(c, v) ==
    Become(c, [handler[c] EXCEPT
        !.at = IF v.action \in Isolating THEN "filing" ELSE "closing",
        !.verdict = v.action,
        !.result = "completed"])

Scan(c) ==
    /\ At(c, "scanning")
    /\ \E s \in Reads, f \in Facts :
         /\ Read(c, "scanRead", s)
         /\ s.enabled
         /\ Judged(c, SyncVerdict(f, s))
         /\ Update(c, [row[c] EXCEPT !.verdict = SyncVerdict(f, s).action,
                                     !.score = SyncVerdict(f, s).score])
    /\ UNCHANGED <<world, run, blobs, async, outside, moved>>

\* persistAll swallows a failed write and returns the verdict all the same.
ScanUnstored(c) ==
    /\ At(c, "scanning")
    /\ \E s \in Reads, f \in Facts :
         /\ MissAll(c, {"persist"} \cup (IF s = mailbox THEN {} ELSE {"scanRead"}))
         /\ s.enabled
         /\ Judged(c, SyncVerdict(f, s))
    /\ UNCHANGED <<world, row, run, blobs, async, outside, moved>>

ScanThrows(c) ==
    /\ At(c, "scanning")
    /\ Miss(c, "scan")
    /\ Become(c, [handler[c] EXCEPT !.at = "closing", !.result = "failed"])
    /\ UNCHANGED <<world, row, run, blobs, async, outside, moved>>

Isolate(c) ==
    /\ At(c, "filing")
    /\ Update(c, [row[c] EXCEPT !.folder = "quarantine"])
    /\ moved' = moved \ {c}
    /\ Goto(c, IF handler[c].joined THEN "detaching" ELSE "closing")
    /\ UNCHANGED <<world, run, blobs, async, outside, missed>>

IsolateFails(c) ==
    /\ At(c, "filing")
    /\ Miss(c, "move")
    /\ \/ UNCHANGED <<row, moved>>
       \/ Update(c, [row[c] EXCEPT !.folder = "quarantine"]) /\ moved' = moved \ {c}
    /\ Become(c, [handler[c] EXCEPT !.at = "closing", !.result = "failed"])
    /\ UNCHANGED <<world, run, blobs, async, outside>>

Detach(c) ==
    /\ At(c, "detaching")
    /\ Update(c, [row[c] EXCEPT !.joined = FALSE])
    /\ Goto(c, "closing")
    /\ UNCHANGED <<world, run, blobs, async, outside, missed, moved>>

DetachFails(c) ==
    /\ At(c, "detaching")
    /\ Miss(c, "detach")
    /\ Become(c, [handler[c] EXCEPT !.at = "closing", !.result = "failed"])
    /\ UNCHANGED <<world, row, run, blobs, async, outside, moved>>

CloseRun(c) ==
    /\ At(c, "closing")
    /\ run' = IF handler[c].recorded /\ run[c] # "none"
              THEN [run EXCEPT ![c] = handler[c].result]
              ELSE run
    /\ Goto(c, "relaying")
    /\ UNCHANGED <<world, row, blobs, async, outside, missed, moved>>

CloseRunFails(c) ==
    /\ At(c, "closing")
    /\ handler[c].recorded
    /\ Miss(c, "closeRun")
    /\ Goto(c, "relaying")
    /\ UNCHANGED <<world, row, run, blobs, async, outside, moved>>
-----------------------------------------------------------------------------
(* receiveEmail, the gateway relay and the fan-out. *)

Behavior(c) == BehaviorFor(handler[c].verdict, RelayActions, FALSE)

RelaySettled(c, status) ==
    Become(c, [handler[c] EXCEPT !.at = "marking", !.relay = status])

\* getDomainSettings swallows a failed read: the domain then has no policy.
Unrelayed(c) ==
    /\ At(c, "relaying")
    /\ \/ ~mailbox.gateway /\ UNCHANGED missed
       \/ mailbox.gateway /\ Miss(c, "domain")
    /\ Goto(c, "notifying")
    /\ UNCHANGED <<world, row, run, blobs, async, outside, moved>>

Withhold(c) ==
    /\ At(c, "relaying")
    /\ mailbox.gateway
    /\ Behavior(c) \in {"hold", "drop"}
    /\ RelaySettled(c, IF Behavior(c) = "hold" THEN "held" ELSE "dropped")
    /\ UNCHANGED <<world, row, run, blobs, async, outside, missed, moved>>

Relay(c) ==
    /\ At(c, "relaying")
    /\ mailbox.gateway
    /\ Behavior(c) = "relay"
    /\ sent' = sent \cup {c}
    /\ RelaySettled(c, "relayed")
    /\ UNCHANGED <<world, row, run, blobs, async, announced, missed, moved>>

\* A permanent SMTP error keeps the mirror copy and raises an alert.
RelayRefused(c) ==
    /\ At(c, "relaying")
    /\ mailbox.gateway
    /\ Behavior(c) = "relay"
    /\ Miss(c, "smtpPermanent")
    /\ RelaySettled(c, "failed")
    /\ UNCHANGED <<world, row, run, blobs, async, outside, moved>>

\* A transient one throws; the target may have accepted before it was lost.
RelayDeferred(c) ==
    /\ At(c, "relaying")
    /\ mailbox.gateway
    /\ Behavior(c) = "relay"
    /\ Miss(c, "smtpTransient")
    /\ sent' \in {sent, sent \cup {c}}
    /\ Goto(c, "threw")
    /\ UNCHANGED <<world, row, run, blobs, async, announced, moved>>

\* Mutation of MarkRelay: the whole row is saved as it was first filed.
MarkRelayOverwrites(c) ==
    /\ At(c, "marking")
    /\ Update(c, [row[c] EXCEPT !.relay = handler[c].relay, !.folder = Inbound(c)])
    /\ Goto(c, "notifying")
    /\ UNCHANGED <<world, run, blobs, async, outside, missed, moved>>

MarkRelay(c) ==
    /\ At(c, "marking")
    /\ Update(c, [row[c] EXCEPT !.relay = handler[c].relay])
    /\ Goto(c, "notifying")
    /\ UNCHANGED <<world, run, blobs, async, outside, missed, moved>>

\* Mutation of MarkRelayFails: the failed write is not caught.
MarkRelayThrows(c) ==
    /\ At(c, "marking")
    /\ Miss(c, "mark")
    /\ Goto(c, "threw")
    /\ UNCHANGED <<world, row, run, blobs, async, outside, moved>>

MarkRelayFails(c) ==
    /\ At(c, "marking")
    /\ Miss(c, "mark")
    /\ Goto(c, "notifying")
    /\ UNCHANGED <<world, row, run, blobs, async, outside, moved>>

\* Mutation of FinalFolder: the folder known before the verdict.
FirstFolder(c) == Inbound(c)

FinalFolder(c) == IF handler[c].verdict \in Isolating THEN "quarantine" ELSE Inbound(c)

Notify(c) ==
    /\ At(c, "notifying")
    /\ announced' = [announced EXCEPT ![c] = FinalFolder(c)]
    /\ Goto(c, "enqueueing")
    /\ UNCHANGED <<world, row, run, blobs, async, sent, missed, moved>>

NotifyFails(c) ==
    /\ At(c, "notifying")
    /\ Miss(c, "notify")
    /\ Goto(c, "enqueueing")
    /\ UNCHANGED <<world, row, run, blobs, async, outside, moved>>

\* The deep scan follows a verdict, the YARA requests stored attachments.
Enqueue(c) ==
    /\ At(c, "enqueueing")
    /\ ScanGoto(c, IF handler[c].verdict = "none" THEN "none" ELSE "queued")
    /\ \E s \in Reads :
         /\ Read(c, "yaraRead", s)
         /\ yara' = [yara EXCEPT ![c] =
               IF s.yara /\ mail[c[1]].attached > 0 THEN MaxCallbacks ELSE 0]
    /\ Goto(c, "asking")
    /\ UNCHANGED <<world, row, run, blobs, agent, outside, moved>>

AskAgent(c) ==
    /\ At(c, "asking")
    /\ \E s \in Reads :
         /\ Read(c, "askRead", s)
         /\ agent' = [agent EXCEPT ![c] =
               IF handler[c].spam \/ s.sidecar \/ ~s.autoDraft THEN "none" ELSE "asked"]
    /\ Goto(c, "done")
    /\ UNCHANGED <<world, row, run, blobs, scan, yara, outside, moved>>

Ended == {"idle", "blocked", "done", "threw", "crashed"}

\* The isolate dies: the handler's waitUntil work dies with it.
Crash(c) ==
    /\ handler[c].at \notin Ended
    /\ Miss(c, "crash")
    /\ Goto(c, "crashed")
    /\ ScanGoto(c, IF scan[c].at = "none" THEN "none" ELSE "dead")
    /\ UNCHANGED <<world, row, run, blobs, yara, agent, outside, moved>>
-----------------------------------------------------------------------------
(* handleNewEmail in the mailbox's agent, with the verdict it was sent. *)

AgentDrafts(c) ==
    /\ agent[c] = "asked"
    /\ handler[c].verdict \in {"none", "allow"}
    /\ agent' = [agent EXCEPT ![c] = "drafted"]
    /\ UNCHANGED <<world, handler, row, run, blobs, scan, yara, outside, missed, moved>>

\* A flagged verdict, a detected prompt injection, or a failed model call.
AgentDeclines(c) ==
    /\ agent[c] = "asked"
    /\ agent' = [agent EXCEPT ![c] = "declined"]
    /\ UNCHANGED <<world, handler, row, run, blobs, scan, yara, outside, missed, moved>>
-----------------------------------------------------------------------------
(* runDeepScan. *)

Begins(c, base, score) ==
    scan' = [scan EXCEPT ![c] = [at |-> "probing", base |-> base, score |-> score]]

\* The stored verdict and score are read once, before the slow signals.
ScanRead(c) ==
    /\ scan[c].at = "queued"
    /\ Stored(c)
    /\ Begins(c, row[c].verdict, row[c].score)
    /\ UNCHANGED <<world, handler, row, run, blobs, yara, agent, outside, missed, moved>>

\* No row, or no answer: the scan goes on without a verdict to upgrade.
ScanReadsNothing(c) ==
    /\ scan[c].at = "queued"
    /\ \/ ~Stored(c) /\ UNCHANGED missed
       \/ Miss(c, "deepRead")
    /\ Begins(c, "none", 0)
    /\ UNCHANGED <<world, handler, row, run, blobs, yara, agent, outside, moved>>

ScanKeeps(c) ==
    /\ scan[c].at = "probing"
    /\ \E a \in Added : scan[c].base = "none" \/ ~Upgrades(scan[c].base, scan[c].score, a)
    /\ ScanGoto(c, "closing")
    /\ UNCHANGED <<world, handler, row, run, blobs, yara, agent, outside, missed, moved>>

\* Mutation of ScanTightens: the deep signals' own verdict replaces the stored one.
ScanReplaces(c) ==
    /\ scan[c].at = "probing"
    /\ scan[c].base # "none"
    /\ \E a \in Added : Update(c, [row[c] EXCEPT !.verdict = ActionFor(a), !.score = a])
    /\ ScanGoto(c, "closing")
    /\ UNCHANGED <<world, handler, run, blobs, yara, agent, outside, missed, moved>>

\* Mutation of ScanTightens: the upgraded mail is not moved.
ScanForgetsToMove(c) ==
    /\ scan[c].at = "probing"
    /\ scan[c].base # "none"
    /\ \E a \in Added :
         LET new == Judge(DeepScore(scan[c].score, a))
         IN  /\ Upgrades(scan[c].base, scan[c].score, a)
             /\ Update(c, [row[c] EXCEPT !.verdict = new.action, !.score = new.score])
    /\ ScanGoto(c, "closing")
    /\ UNCHANGED <<world, handler, run, blobs, yara, agent, outside, missed, moved>>

ScanTightens(c) ==
    /\ scan[c].at = "probing"
    /\ scan[c].base # "none"
    /\ \E a \in Added :
         LET new == Judge(DeepScore(scan[c].score, a))
         IN  /\ Upgrades(scan[c].base, scan[c].score, a)
             /\ \/ /\ Update(c, [row[c] EXCEPT !.verdict = new.action, !.score = new.score])
                   /\ UNCHANGED missed
                \/ Miss(c, "deepPersist") /\ UNCHANGED row
             /\ ScanGoto(c, IF new.action \in Isolating THEN "moving" ELSE "closing")
    /\ UNCHANGED <<world, handler, run, blobs, yara, agent, outside, moved>>

ScanMoves(c) ==
    /\ scan[c].at = "moving"
    /\ \/ /\ Update(c, [row[c] EXCEPT !.folder = "quarantine"])
          /\ moved' = moved \ {c}
          /\ UNCHANGED missed
       \/ Miss(c, "deepMove") /\ UNCHANGED <<row, moved>>
    /\ ScanGoto(c, "closing")
    /\ UNCHANGED <<world, handler, run, blobs, yara, agent, outside>>

ScanCloses(c) ==
    /\ scan[c].at = "closing"
    /\ \/ Update(c, [row[c] EXCEPT !.deep = "completed"]) /\ UNCHANGED missed
       \/ Miss(c, "deepClose") /\ UNCHANGED row
    /\ ScanGoto(c, "ended")
    /\ UNCHANGED <<world, handler, run, blobs, yara, agent, outside, moved>>

ScanCrashes(c) ==
    /\ scan[c].at \in {"queued", "probing", "moving", "closing"}
    /\ At(c, "done")
    /\ Miss(c, "crash")
    /\ ScanGoto(c, "dead")
    /\ UNCHANGED <<world, handler, row, run, blobs, yara, agent, outside, moved>>
-----------------------------------------------------------------------------
(* The YARA sidecar's callback and the user's requests. *)

YaraCallback(c) ==
    /\ yara[c] > 0
    /\ yara' = [yara EXCEPT ![c] = @ - 1]
    /\ \E d \in YaraDeltas : Update(c, [row[c] EXCEPT !.score = YaraScore(@, d)])
    /\ UNCHANGED <<world, handler, run, blobs, scan, agent, outside, missed, moved>>

UserMove(c) ==
    /\ Stored(c)
    /\ \E folder \in UserFolders \ {row[c].folder} :
         row' = [row EXCEPT ![c].folder = folder]
    /\ moved' = moved \cup {c}
    /\ UNCHANGED <<world, handler, run, blobs, async, outside, missed>>

\* Deleting a row cascades to its run; its objects follow in a second call.
UserDelete(c) ==
    /\ Stored(c)
    /\ row' = [row EXCEPT ![c].folder = "deleted"]
    /\ run' = [run EXCEPT ![c] = "none"]
    /\ UNCHANGED <<world, handler, blobs, async, outside, missed, moved>>

Purge(c) ==
    /\ row[c].folder = "deleted"
    /\ row' = [row EXCEPT ![c].folder = "gone"]
    /\ \E unlinked \in SUBSET AllObjects(c) :
         /\ blobs' = blobs \ unlinked
         /\ IF unlinked = AllObjects(c) THEN UNCHANGED missed ELSE Miss(c, "purge")
    /\ UNCHANGED <<world, handler, run, async, outside, moved>>
-----------------------------------------------------------------------------
Handler(c) ==
    \/ StoreAttachment(c) \/ AttachmentsStored(c) \/ StoreAttachmentFails(c) \/ CleanUp(c)
    \/ FindThreadFails(c) \/ CreateRow(c) \/ CreateRowFails(c) \/ CheckHoneypot(c)
    \/ DivertReport(c) \/ DivertFails(c) \/ KeepAsMail(c)
    \/ StartRun(c) \/ StartRunFails(c)
    \/ SkipScan(c) \/ Scan(c) \/ ScanUnstored(c) \/ ScanThrows(c)
    \/ Isolate(c) \/ IsolateFails(c) \/ Detach(c) \/ DetachFails(c)
    \/ CloseRun(c) \/ CloseRunFails(c)
    \/ Unrelayed(c) \/ Withhold(c) \/ Relay(c) \/ RelayRefused(c) \/ RelayDeferred(c)
    \/ MarkRelay(c) \/ MarkRelayFails(c) \/ Notify(c) \/ NotifyFails(c)
    \/ Enqueue(c) \/ AskAgent(c)

DeepScan(c) ==
    \/ ScanRead(c) \/ ScanReadsNothing(c) \/ ScanKeeps(c) \/ ScanTightens(c)
    \/ ScanMoves(c) \/ ScanCloses(c)

Agent(c) == AgentDrafts(c) \/ AgentDeclines(c)

Next == \E c \in Copy :
    \/ Accept(c) \/ Handler(c) \/ Crash(c)
    \/ DeepScan(c) \/ ScanCrashes(c) \/ Agent(c)
    \/ YaraCallback(c) \/ UserMove(c) \/ UserDelete(c) \/ Purge(c)

Spec == Init /\ [][Next]_vars

\* The runtime keeps running an invocation it started, and the origin delivers
\* again.  The sidecar and the user owe nothing.
Fairness == \A c \in Copy :
    WF_vars(Accept(c)) /\ WF_vars(Handler(c)) /\ WF_vars(DeepScan(c)) /\ WF_vars(Agent(c))

FairSpec == Spec /\ Fairness
-----------------------------------------------------------------------------
(* Types. *)

Calls == {"r2", "unlink", "thread", "create", "start", "persist", "scan", "move", "detach",
          "closeRun", "domain", "smtpPermanent", "smtpTransient", "mark",
          "notify", "crash", "divert", "deepRead", "deepPersist", "deepMove",
          "deepClose", "purge", "blockRead", "trapRead", "scanRead", "yaraRead",
          "askRead"}
Places == {"idle", "blocked", "storing", "cleaning", "creating", "stored",
           "diverting", "starting", "scanning", "filing", "detaching", "closing",
           "relaying", "marking", "notifying", "enqueueing", "asking", "done",
           "threw", "crashed"}
Stages == {"none", "queued", "probing", "moving", "closing", "ended", "dead"}
Opinions == Actions \cup {"none"}
Relays == {"none", "relayed", "held", "dropped", "failed"}
Results == {"none", "completed", "skipped", "failed"}
Rows == [folder : Folders \cup {"absent", "deleted", "gone"}, joined : BOOLEAN,
         verdict : Opinions, score : 0..MaxScore, deep : {"pending", "completed"},
         relay : Relays]
Handlers == [at : Places, written : Nat, spam : BOOLEAN, joined : BOOLEAN, recorded : BOOLEAN,
             verdict : Opinions, result : Results, relay : Relays]
Scans == [at : Stages, base : Opinions, score : 0..MaxScore]

\* Every variable keeps its type; in particular every stored score stays
\* between 0 and 100 whatever the boosts, the deep scan and the callbacks add.
TypeOK ==
    /\ mail \in [Msg -> MailKinds]
    /\ mailbox \in MailboxKinds
    /\ handler \in [Copy -> Handlers]
    /\ row \in [Copy -> Rows]
    /\ run \in [Copy -> Results \cup {"running"}]
    /\ blobs \subseteq Copy \X Nat
    /\ scan \in [Copy -> Scans]
    /\ yara \in [Copy -> 0..MaxCallbacks]
    /\ agent \in [Copy -> {"none", "asked", "drafted", "declined"}]
    /\ sent \subseteq Copy
    /\ announced \in [Copy -> Folders \cup {"none"}]
    /\ missed \in [Copy -> SUBSET Calls]
    /\ moved \subseteq Copy
-----------------------------------------------------------------------------
(* Safety. *)

Failed(c, calls) == missed[c] \cap calls # {}

\* Mail whose stored verdict isolates it is in Quarantine, unless the user
\* filed it since, the step that files it is next, or that step failed: no
\* order of the pipeline, the deep scan and the user leaves it in view.
Contained == \A c \in Copy :
    Stored(c) /\ row[c].verdict \in Isolating /\ row[c].folder # "quarantine"
    => \/ c \in moved
       \/ At(c, "filing")
       \/ scan[c].at = "moving"
       \/ Failed(c, {"move", "deepMove", "crash"})

\* A row never points at attachments that are not in R2.  An attachment has no
\* row only while its mail is being stored or deleted, when it is the one whose
\* put lost its answer, or after a failed lookup, create, delete or activation.
BlobsMatchRows == \A c \in Copy :
    /\ Stored(c) => AllObjects(c) \subseteq blobs
    /\ \A i \in 1..mail[c[1]].attached : <<c, i>> \in blobs /\ ~Stored(c)
       => \/ handler[c].at \in {"storing", "cleaning", "creating"}
          \/ row[c].folder = "deleted"
          \/ i = handler[c].written + 1 /\ Failed(c, {"r2"})
          \/ i <= handler[c].written
             /\ Failed(c, {"unlink", "thread", "create", "purge", "crash"})

\* relay_status tells what happened at the backend: "relayed" only for mail it
\* accepted, a withheld or refused status never for such mail, and no status
\* on relayed mail only when writing it failed.
RelayStatusTrue == \A c \in Copy : Stored(c) =>
    /\ row[c].relay = "relayed" => c \in sent
    /\ row[c].relay \in {"held", "dropped", "failed"} => c \notin sent
    /\ c \in sent /\ At(c, "done") => row[c].relay = "relayed" \/ Failed(c, {"mark"})

\* The origin's retries reach the backend twice only if the earlier delivery
\* died after the relay or lost the relay's answer.
SentOnce == \A m \in Msg : \A i, j \in 1..MaxAttempts :
    i < j /\ {<<m, i>>, <<m, j>>} \subseteq sent
    => Failed(<<m, i>>, {"crash", "smtpTransient"})

\* A run left "running" had its start or its end lost, and a "completed" run
\* means the verdict was computed and carried out.
RunsTrue == \A c \in Copy :
    /\ run[c] = "running" =>
          \/ handler[c].at \in {"scanning", "filing", "detaching", "closing"}
          \/ Failed(c, {"start", "closeRun", "crash"})
    /\ run[c] = "completed" => ~Failed(c, {"scan", "move", "detach"})

\* What the rows, the runs and the bucket say of a message agrees with what
\* happened to it, whatever failed in between.
RecordsTrue == BlobsMatchRows /\ RelayStatusTrue /\ RunsTrue

\* A honeypot's mail is stored and nothing more: no verdict, no client told,
\* no relay, no agent, unless the read that tells it is one failed.  A sidecar
\* mailbox and one with auto-draft off never reach the agent, up to the same
\* failure, and mail blocked to Spam never does.
SilentMailboxes == \A c \in Copy :
    /\ mailbox.honeypot /\ ~Failed(c, {"trapRead"}) =>
          /\ row[c].verdict = "none"
          /\ announced[c] = "none"
          /\ agent[c] = "none"
          /\ c \notin sent
    /\ mailbox.sidecar \/ ~mailbox.autoDraft
       => agent[c] = "none" \/ Failed(c, {"askRead"})
    /\ handler[c].spam => agent[c] = "none"
-----------------------------------------------------------------------------
(* What a step may never do. *)

\* Rule 2 of SECURITY_SPEC.md: a stored verdict only ever moves to a tier at
\* least as strict, although the deep scan decides on a copy it read earlier.
VerdictOnlyTightens ==
    [][\A c \in Copy : Stored(c) /\ Stored(c)' =>
          /\ Tier(row'[c].verdict) >= Tier(row[c].verdict)
          /\ row[c].verdict # "none" => row'[c].verdict # "none"]_vars

\* Only a request of the user takes mail out of Quarantine: no step of the
\* handler, the deep scan, a callback or the agent does.  The one exception is a
\* report the user quarantined while it was ingested, which goes to Archive.
OnlyUserReleases ==
    [][\A c \in Copy : row[c].folder = "quarantine" /\ row'[c].folder # "quarantine"
          => \/ UNCHANGED <<handler, async>>
             \/ At(c, "diverting") /\ mail[c[1]].report /\ c \in moved]_vars

\* Clients are told the folder the mail is in, so that they stay silent about
\* quarantined mail, unless the user was faster or a move failed.
AnnouncedTruly ==
    [][\A c \in Copy : announced'[c] # announced[c] /\ Stored(c)
          => \/ announced'[c] = row[c].folder
             \/ c \in moved
             \/ Failed(c, {"move", "divert"})]_vars
-----------------------------------------------------------------------------
(* The abstract specification. *)

Stage(c) == CASE row[c].folder = "absent" -> "outside"
              [] row[c].folder \in {"deleted", "gone"} -> "removed"
              [] Stored(c) /\ row[c].verdict = "none" -> "stored"
              [] Stored(c) /\ row[c].verdict # "none" -> "judged"

Register == INSTANCE VerdictRegister WITH
    stage <- [c \in Copy |-> Stage(c)],
    tier <- [c \in Copy |-> Tier(row[c].verdict)]

\* The rows of the mailbox implement the verdict register: receiveEmail, the
\* deep scan and the user's requests only store, judge, tighten and remove.
ImplementsRegister == Register!Spec
-----------------------------------------------------------------------------
(* Liveness. *)

\* Every message ends delivered to a row or refused by a rule, or its last
\* delivery fails and the origin knows: none is acknowledged and lost.
MailSettles == \A m \in Msg : <>(\E k \in 1..MaxAttempts :
    LET c == <<m, k>>
    IN  \/ At(c, "done") /\ row[c].folder # "absent"
        \/ At(c, "blocked")
        \/ k = MaxAttempts /\ handler[c].at \in {"threw", "crashed"})

\* Mail given an isolating verdict gets to Quarantine, or the user gets to it.
IsolationSettles == \A c \in Copy :
    Stored(c) /\ row[c].verdict \in Isolating
    ~> \/ row[c].folder = "quarantine" \/ ~Stored(c)
       \/ c \in moved
       \/ Failed(c, {"move", "deepMove", "crash"})

\* An enqueued deep scan is recorded as completed, even when the message is
\* moved or scored by others meanwhile.
ScanSettles == \A c \in Copy :
    scan[c].at = "queued"
    ~> row[c].deep = "completed" \/ ~Stored(c) \/ Failed(c, {"deepClose", "crash"})

\* Deliveries, isolation and deep scans all come to their end.
Settles == MailSettles /\ IsolationSettles /\ ScanSettles
-----------------------------------------------------------------------------
(* What the documents say and the code does not do. *)

\* README.md:47, "learning mode (never quarantines)".
LearningNeverIsolates == \A c \in Copy :
    mailbox.learning => row[c].verdict \notin Isolating

\* docs/gateway-mode.md:5, "Mail the policy quarantines never reaches the
\* backend": mail the system put in Quarantine was not relayed.
QuarantinedNeverRelayed == \A c \in Copy :
    row[c].folder = "quarantine" /\ c \notin moved => c \notin sent

\* workers/index.ts:2051, the deep scan "only ever tightens the verdict (never
\* downgrades)": the stored score does not fall.
ScoreNeverFalls ==
    [][\A c \in Copy : Stored(c) /\ Stored(c)' => row'[c].score >= row[c].score]_vars
=============================================================================
