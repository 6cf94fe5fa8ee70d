# PhishSOC: models, checks and proofs

PhishSOC receives mail on Cloudflare Workers, scores it, keeps it in one Durable
Object per mailbox and, depending on the mailbox, relays it, quarantines it,
drafts a reply or reports it to a threat-intelligence hub.  The modules beside
this file model that code in TLA+.  TLC checks small instances; TLAPS proves the
theorems for every value of the constants.

`PROJECT.json` lists the components, the runs, the mutants, the lines each
definition stands for (`map`), the hazards and the theorems.  To repeat a run:
`tlc -config X.cfg M`, with the module the run names; to repeat the proofs:
`tlapm M.tla` for the modules whose names end in `Proofs`.

## Inventory

| Component | State it keeps | Operations | Interacts with | Hard behaviours | Modules |
|---|---|---|---|---|---|
| Inbound pipeline (`workers/index.ts` `receiveEmail`, `workers/security/index.ts`) | none of its own; writes rows, runs and blobs | receive, store, divert reports, scan, isolate, relay, announce, enqueue | mailbox object, R2, SMTP, agent | storage calls and settings reads that fail one at a time; the origin delivers again after a throw | `InboundMail` |
| Routing (`providers/cf-routing.ts`, `lib/gateway-receive.ts`) | none; reads mailboxes, domains and their settings | find the recipient, the mailbox, the relay policy, the catch-all; dispatch | Cloudflare, R2, pipeline | eight reads one after another while all of it changes | `MailRouting` |
| Verdict rules (`workers/security/verdict.ts`, `triage.ts`, `relay-policy.ts`) | none | score, triage, boost, cap, demote | pipeline, deep scan | clamps, tiers, the order of boosts and caps | `Verdict` |
| Security pipeline (`workers/security/index.ts`) | trace rows, sender history, sender graph | seven stages, four writes | scorers, feeds, mailbox object | two scans of one sender, writes that fail one by one | `ScanPipeline` |
| Deep scan (`workers/intel/deep-scan.ts` and its clients) | verdict, score, folder, status; a CTI cache | read, follow links, look up, upgrade, move, close | mailbox object, DNS, web | a verdict read long before it is overwritten; redirects into private networks; dies with its isolate | `InboundMail`, `DeepScanStages` |
| Gateway relay (`lib/gateway-relay.ts`, `smtp-client.ts`) | `relay_status` | hold, drop, relay, refuse, defer | backend MX | accepted mail whose answer is lost | `InboundMail` |
| YARA callback (`routes/yaramail-callback.ts`) | score, result row | raise the score | sidecar, mailbox object | races with the deep scan | `InboundMail` |
| Scorers (`security/auth.ts`, `urls.ts`, `attachments.ts`, `classification.ts`, `reputation.ts`, `time-rules.ts`, look-alikes) | none | score headers, links, files, sender, hour | pipeline, models | which of several headers counts; time budgets; caps | `ScoreRules`, `LinkRules` |
| Auto-draft agent, tools, MCP (`agent/index.ts`, `lib/tools.ts`, `mcp/index.ts`) | drafts, chat | scan, draft, update, discard, move | pipeline, models, users | tools read, wait for a model, then write | `AgentDesk`, `InboundMail` |
| Sidecar polling (`providers/workspace.ts`, `durableObject/sidecar-state.ts`) | cursor, lease, failures, audit, events | poll, ingest, label, audit, re-anchor | Gmail, pipeline | overlapping ticks, frozen cursors, replays | `SidecarPoll` |
| Step-up sending (`routes/webauthn.ts`, `routes/send-email.ts`, `lib/send-risk-gate.ts`) | challenges, jti, sent rows | challenge, verify, sign, consume, store, send | D1, KV, mailbox object | single use across three stores, burned tokens | `StepUpSend` |
| Step-up credentials (`routes/webauthn.ts`, `lib/webauthn-store.ts`, `lib/security-alert.ts`) | keys, challenges in D1 | enrol, confirm, recover, alert, reap | step-up sending, Access | lists read before and after a challenge; recoveries in between | `StepUpKeys` |
| Send risk (`security/send-risk*.ts`, `lib/send-risk-assess.ts`, `recipient-graph.ts`) | recipients' history, cached model verdicts | classify, assess, remember | composer, gate | lookups that fail one by one, trust by history | `SendRisk` |
| Mailbox lifecycle, access (`workers/index.ts`, `lib/mailbox-acl.ts`) | settings blob, ACL blob | create, update, delete, reap, lock down | R2, mailbox object | a reaper behind the answer, read-modify-write | `MailboxLifecycle` |
| Mailbox object, folders and mail (`durableObject/index.ts`) | rows, folders, attachments | create, move, delete, draft | all | a folder that goes while mail is on its way to it | `MailFolders` |
| Threads and unified inbox (`threaded-emails.ts`, `lib/unified-inbox.ts`) | none of its own | list, count, merge pages | mailbox objects | a cursor over mailboxes that change between pages | `InboxWalk` |
| Storage schema (`db/schema.ts`, `durableObject/migrations.ts`) | the list of applied migrations | upgrade at start | mailbox object | starts that die, rows of older releases | `SchemaUpgrade` |
| Cases and feedback (`routes/cases.ts`, `intel/cloudflare-categorize.ts`) | cases, feedback, submissions | report, summarise, share, submit | hub, Cloudflare, page | background jobs, counters without transactions | `CaseBook` |
| Settings and block rules (`lib/*-settings.ts`, `shared/*-settings.ts`, `security/blocklist.ts`) | three tiers in R2, a cache per isolate | read, merge, write back | all | stale caches, malformed legacy blobs, lost updates | `TierRules`, `SettingsStore` |
| Threat feeds (`intel/feeds.ts`, `bloom.ts`, `cidr.ts`) | several KV keys per feed | refresh, look up | pipeline, deep scan | keys published one after another, each with its own expiry | `FeedRefresh` |
| Catch-all intelligence (`durableObject/catchall-intel.ts`) | ring buffer, rollups, alerts | record, alert, collect | hub, deep scan | bounds and debounce | `CatchallIntel` |
| Hub (`hub/src/lib/aggregate.ts`, `sync.ts`) | events, corroboration, watermarks | contribute, promote, pull | peers | duplicate contributions, soft locks, dying pulls | `HubCorroboration` |
| Hub members (`hub/src/routes/orgs.ts`, `sharing-groups.ts`, `events.ts`, `admin.ts`) | orgs, invites, groups, peers | invite, accept, create, post, fetch, search, register, remove | hub | read and write in two calls; a one-time token read twice | `HubMembers` |
| Hub client (`lib/hub-config.ts`, `routes/hub-ui.ts`, `intel/report.ts`) | none | report, list, invite | hub | whose key goes to which host | `HubPosts` |
| Notices (`lib/new-email-notify.ts`) | none | resolve a channel, sign, post, test | webhooks | tiers that cannot be read | `MailNotice` |
| Machine reports (`dmarc/*.ts`, `tlsrpt/*.ts`) | reports, sources | detect, decode, store, enrich, summarise | pipeline, DNS | enrichments that overlap, caps | `ReportBook` |
| Domain posture (`*/posture.ts`, `dmarc/txt.ts`, `bimi.ts`) | KV caches | look up, parse, cache | DNS, web | stale entries, SPF chains | `DomainPosture` |
| Dashboards, org search (`lib/dashboard-aggregation.ts`, `org-search.ts`) | KV caches | aggregate, page | mailbox objects | mailboxes that do not answer | `Dashboards` |
| Client cache and composer (`app/queries/emails.ts`, `hooks/useComposeForm.ts`) | queries, form | patch, roll back, preview, send | API | answers that cross | `ClientCache`, `Compose` |
| Web client, pages | none of its own | | API | | none |

What makes each one correct is said with its module below; the hazards, at their
lines and with the properties aimed at them, are in `PROJECT.json`.

## How the modules fit together

Four state machines stand for the core and have runs and theorems of their own:
`InboundMail` (which extends the operators of `Verdict` and implements
`VerdictRegister`), `SidecarPoll`, `StepUpSend` (which implements `Confirmation`)
and `MailboxLifecycle`.  The hub, a second deployment, is `HubCorroboration`.
The components around them share no state with each other that two of their
steps could disagree about; each is a module with variables, and `MCDesk`
instantiates all of them: a variable `part` names the one a behaviour is about.
`SettingsStore` extends the operators of `TierRules`.

The modules meet where the code does.  `SidecarPoll` calls `receiveEmail`, which
it sees as the outcomes `InboundMail` allows (refused, stored and scored, stored
without a verdict, thrown).  `StepUpSend` takes a tier that `SendRisk` computes.
`MailRouting` decides which deliveries become `InboundMail`'s, and ends where that
begins.  `ScanPipeline` is the call that `InboundMail` makes in one step and `Verdict`
states as one operator.
`InboundMail` takes what `ScoreRules` and `LinkRules` compute as one sum, what
`DeepScanStages` computes as one bounded addition (`SumBounded` is that bound)
and what `TierRules` resolves as the settings of a mailbox.  `AgentDesk` is what
`InboundMail` calls `AgentDrafts`, step by step.  `StepUpKeys` says whose key may
sign what `StepUpSend` has signed, and `HubMembers` who the organisations and
groups of `HubCorroboration` are.

Mutated forms of definitions stand beside the definitions they mutate, are used
by nothing else and are marked "Mutation of".

## The scoring rules: `Verdict`

Operators without state.  `Aggregate`, `Boost`, `Corroborate`, `LearningCap` and
`ConfidenceDemote` follow `security/verdict.ts` and the second half of
`runSecurityPipeline`; `TriageTier` keeps the order of the tiers in
`security/triage.ts` (folder bypass, hard block, attachment block, hard allow)
and `TriageVerdict` what each answers; `SyncVerdict` puts them together with the
learning cap that also applies to triage blocks.  `DeepScore` and `Upgrades` are
the deep scan's rule, `YaraScore` the callback's, `BehaviorFor` the relay
policy's.  The scorers enter as one sum and the confidence as one bit, because
every rule only looks at those; what each scorer computes is in `ScoreRules` and
`LinkRules`, how the tiers fold into one set of settings in `TierRules`; the order in
which a scan comes by the facts, and what it leaves in the mailbox, is `ScanPipeline`.
The thresholds are constants of an instance, as they are for one scan.

`InboundMailProofs` shows for all thresholds, facts and settings that a higher score
never maps to a laxer action (thresholds in order), that every synchronous
verdict is an action with a score from 0 to 100, and that no synchronous verdict
of a learning mailbox isolates mail.

## Receiving mail: `InboundMail`

### State and actions

`row`, `run`, `blobs` are the `emails` and `pipeline_runs` tables and the R2
bucket; `handler`, `scan`, `agent` and `yara` are the activations of
`receiveEmail`, `runDeepScan`, `handleNewEmail` and the sidecar's callbacks, with
the values those functions hold in local variables between two awaits (`handler`
its verdict and relay status, `scan` the verdict and score it read).  Everything
is keyed by `<<message, attempt>>`, because each delivery attempt mints a row id
of its own.  `missed`, `moved` are ghosts for the properties.

Every call to storage, SMTP or another object is one action, and has a second
action in which it fails, before or after it took effect when the code cannot
tell.  The table gives the order in the code.

| Code | Actions |
|---|---|
| blocklist, `index.ts` 1697-1733 | `Accept` |
| attachments, 1733-1758 | `StoreAttachment`, `StoreAttachmentFails`, `CleanUp`, `AttachmentsStored` |
| thread and `createEmail`, 1759-1808 | `FindThreadFails`, `CreateRow`, `CreateRowFails` |
| honeypot, DMARC and TLS reports, to 1890 | `CheckHoneypot`, `DivertReport`, `DivertFails`, `KeepAsMail` |
| pipeline run and scan | `StartRun`, `SkipScan`, `Scan`, `ScanUnstored`, `ScanThrows` (and failures) |
| move to Quarantine, leave a joined thread | `Isolate`, `Detach` (and failures), `CloseRun` |
| gateway relay | `Unrelayed`, `Withhold`, `Relay`, `RelayRefused`, `RelayDeferred`, `MarkRelay` |
| fan-out | `Notify`, `Enqueue`, `AskAgent` |
| `runDeepScan` | `ScanRead`, `ScanReadsNothing`, `ScanKeeps`, `ScanTightens`, `ScanMoves`, `ScanCloses` |
| others | `AgentDrafts`, `AgentDeclines`, `YaraCallback`, `UserMove`, `UserDelete` with `Purge` |
| the platform | `Crash`, `ScanCrashes` |

What comes before, up to the check that the mailbox exists, and the passthrough of
unregistered gateway recipients are in `MailRouting`.  Left out: webhooks and alerts,
the blocked log, spam feedback to reputation, and the table of YARA results, which only
pages read.  The user moves mail to any of four folders, Quarantine included; the inbox
and the archive stand for the others.  Every stage of the handler reads the settings
anew, and a read that fails resolves to the defaults (`Read`), a fault like the others.
Attempts of one message are independent of each other
except for the count of failures.

### Checks

`inbound_safety` runs one delivery of a report, of mail a rule drops and of mail
a rule files in Spam, against a gateway, a learning, a honeypot and a sidecar
mailbox, with four scans (doubtful, suspect, confirmed by a feed, hopeless) and
any two of 27 calls failing, at once or apart, the reads of the settings and the
deletes of a clean-up included; 1.5 million states.  One copy is enough for the
safety properties because none of them but `SentOnce` relates two copies; two
faults are enough to have a failure and a failure of what handles it; scores
(25, 35, 95), additions (15, 40, YARA 30) and boosts reach every action from
both sides of each threshold and exceed 100.  It shows

- `Contained`: no interleaving of pipeline, deep scan and user leaves mail with
  an isolating verdict in view, except by the user or by a failure named;
- `RecordsTrue`: blobs (`BlobsMatchRows`), relay status (`RelayStatusTrue`) and
  run records (`RunsTrue`) agree with what happened, in spite of failures between
  them.  No row lacks its attachments.  Attachments without a row there are, and the
  property names each: the one whose put took effect and lost its answer, whose key
  was not recorded (1747), and those whose clean-up failed unseen (1755), whose thread
  lookup or `createEmail` threw behind the `try` (1786, 1796), whose isolate died, or
  whose purge failed after the row was deleted (1539-1541);
- `SilentMailboxes`: honeypots, sidecar mailboxes and refused mail wake nobody,
  unless the very read that tells the honeypot (1815), or the agent's (2113), fails;
- `VerdictOnlyTightens`, `OnlyUserReleases`, `AnnouncedTruly`: what no step does.
  One step of the handler does take mail out of Quarantine: a report the user
  quarantined while it was ingested is archived all the same (1840, 1856, 1874);
- `ImplementsRegister`: under the mapping `Stage`, `Tier`, the rows implement
  `VerdictRegister`.

`inbound_retries` delivers a gateway message without attachments twice, with any two
failures of the create, the relay, its bookkeeping and the isolate, one set of facts
and a user who files in the inbox, under fairness; 266 thousand states: `Settles`, which joins `MailSettles` (never
acknowledged and lost), `IsolationSettles` and `ScanSettles`, and the invariant
`SentOnce`.

`score_race` shows a disagreement of code and comment: a YARA raise is
overwritten by the deep scan's older score.  Two exceptions above are disagreements
too: a comment (1754) has the clean-up leave no orphaned objects behind, and another
(1810-1814) has a honeypot's mail never reach the pipeline or the agent, which it does
when the settings read fails: the defaults have no honeypot block.

### Fairness

`FairSpec` gives weak fairness to `Accept`, to the steps of a started handler, of
a deep scan and of the agent: the Workers runtime runs an invocation it started,
unless it dies, which is `Crash`, a fault with a budget; mail origins deliver
again after a temporary error, which SMTP asks of them.  The user, the YARA
sidecar and the faults owe nothing.

### Proofs

`InboundMailProofs` proves the type invariant, one lemma per action, and
`Contained`, `VerdictOnlyTightens` and `ImplementsRegister`.  `Contained` is not inductive: a scan that tightens must be
known to have read the verdict it replaces, and a filing handler must be known to
act on a stored verdict.  The invariant `IInv` adds per copy that there is no row
before `createEmail`, no stored verdict before the pipeline, no scan before
`Enqueue`, and that a scan between its read and its write holds exactly the
verdict of the row, because nobody else writes verdicts in that time.  The
action property and the refinement follow from `IInv` and one step lemma per
action.

It proves the other five properties from `RInv`, which adds to
`IInv` six facts per copy: which handler still owes a blob or its removal
(`BlobsAt`), where the relay status is set and with what (`RelayAt`), how a
handler came to its end (`EndsAt`), which run is open (`RunAt`), in which folder a
filing handler finds its mail (`FiledAt`) and which handlers have nothing left to
announce (`SilentAt`); and `InTurn`, that a delivery begins only when the one
before has thrown or died.  `RecordsTrue` alone says nothing of a handler between
two calls, and `SentOnce` follows from `EndsAt` of the earlier delivery, whose
handler does not move any more.  `TrapsStaySilent` has no hypothesis about failures:
the one that lets a trap speak is named in the property.  `UserReleases` needs
`FiledAt`: before a verdict, mail is in Quarantine only where the user put it.  Assumed: `ModelAssumption` and `ThresholdAssumption`, which only type
the constants (thresholds are natural numbers in any order).

`PipelineStaysSound` is about `ScanPipeline`, whose stages must come to the verdict
that `SyncVerdict` gives.  Its invariant says per scan what it knows at each stage
(`Knows`), what its rows tell (`Trace`), that a verdict is the operator's
(`Outcome`) and which writes are behind it (`Kept`); of the scans together only that
a sender's count is what they have added (`HistoryCounts`).

## Polling Gmail: `SidecarPoll`

### State and actions

`cursor`, `lease`, `labelError` are columns of `sidecar_state`; `rows` and
`verdict` stand for the mailbox's `emails`, `audit`, `cases` and `gaps` for the
three tables the poller appends to; `poll[p]` is the activation of
`pollWorkspaceMailbox` in tick `p`, with its local copies.  Gmail is `arrived`
and `forgotten`: a message is its position in the history, so the history id and
the number of messages coincide.  The dedupe key `KeyOf` lets a message be a
resend of an earlier one.

One tick: `ReadState`, `AcquireLease`, then `Anchor` (first run) or `List` or
`ListExpired` with `RecordGap`; per message `Heartbeat`, then `Replayed` (with
`Relabel` or `RelabelFails` in active mode) or `Fresh` with `Refuse` or `Store`,
`Score`, `ApplyLabel` or `LabelFails`, `Audit`, `OpenCase`; at the end `Close`.
`Fail`, `ReceiveFails`, `CloseUnanswered`, `Recover` and `Crash` are the ways out.
Failures of two messages recur at every poll and cost no fault but the first: one its
owner deleted in Gmail (`DeleteInGmail`), which stays listed and whose fetch answers
404 (`Gone`), and one `receiveEmail` throws on whenever it is given it (`cursed`).
Receiving a message is `InboundMail` seen from its caller: refused, stored and
scored, stored without a verdict, or thrown.

Left out: the OAuth token, the failure counter with the text of the last error
and the backoff it causes (an early return that changes no state, so a stutter),
the label ids, the user deleting rows, and `reapSidecarBodies`.  The mode of a
mailbox is fixed in a behaviour.  `LeaseExpires` happens only when no tick is
past its read: `POLL_LEASE_TTL_MS` is longer than the handling of one message and
every message renews the lease.

The ghosts name what a property excuses, so that the excuse is checked too:
`hurt` (messages whose handling a failure cut short), `unseen` (pending labels
whose signal a later success cleared, which the code does on purpose),
`robbed` (a catch block freed a lease that had passed to another tick, possible
because the lease has no owner) and `start` (the latest position monitoring was
anchored to: two first polls may both anchor, because the cursor is read before
the lease).

### Checks

`sidecar_poll`: two overlapping ticks, three messages of which one is a resend,
batch cap 1, page cap 2, both modes and one fault of any kind; 2.1 million states
under the symmetry of ticks, sound because `Tick` is only quantified over and the
run checks no liveness.  Two ticks are what overlap needs; caps below the number
of messages make both of them bite.  `NothingSkipped`: the cursor passes only
mail that is handled or in a recorded gap.  `IngestedOnce`: overlap and replay
store a message once under its key.  `Audited`: a label failure does not lose the
audit row or the case.  `PendingShown`: a missing label stays visible in health, unless two polls held
the same mail.
`CursorAdvances`: a tick with an old copy of the cursor does not move it back.

`sidecar_drains`: one tick at a time, three messages of which one is a resend, batch
cap 2, page cap 3 and any two of a failing call, receipt, label write or catch block, a
dead tick, mail deleted in Gmail and mail that always throws, under fairness; 162
thousand states: `BacklogDrains`.  Its escapes are three real limits of the code
(`NeverWedged`, without them, is violated by each): a backlog above the page cap is
listed again from its start by every poll and its tail never reached; mail a rule
refuses is refused again by every poll and may fill its batch; and a message that is
gone from Gmail, or that `receiveEmail` cannot take, throws (`workspace.ts` 302, 345)
at every poll before the cursor moves, so that no later mail of the mailbox is ever
scored.  No listing is longer than a page here; `sidecar_poll` has those.

### Fairness

`WF(Run(p))` because cron starts a tick each minute (`app.ts` `scheduled`) and
the runtime runs it; `WF(LeaseExpires)` because the lease carries its expiry.
Arrivals and faults are not fair.

### Proofs

`SidecarPollProofs` proves for any number of ticks and messages, any caps and
any faults the type invariant and five properties.

`CursorSkipsNothing` rests on `SkipInv`: the type invariant, and per poll that
its own copy of the cursor, its listing and its target are consistent (`Shaped`)
and that everything below the message it is at is accounted for (`Backed`); this
is what makes a stale cursor harmless.  Handled mail stays handled (`Grows`), so
a poll's facts survive the other polls' steps.

`StoredOnce` rests on `OnceInv`, which adds that while no lease was freed behind
its holder's back at most one poll is past its lease and the lease is held
(`LeaseHeld`), and that a message about to be stored is not stored
(`StoringFresh`).

`CursorMovesOn` adds in `AheadInv` that no poll's target is ahead of the mail and
that a poll which has fixed its target heads for the cursor or beyond it.  When
the closing patch moves the cursor on, no other poll has a target yet, because
only one is past its lease; that is where mutual exclusion enters.

`AuditedAlways` rests on `AuditInv`: scored mail that was not cut short and that
no poll still owes its audit row or its case (`Owing`) has both.  Two polls may
owe the same message at once after a freed lease; the invariant speaks of all of
them.

`PendingAlwaysShown` rests on `PendInv`: a poll remembers a failed label write of
every message it passed whose label is missing (`Noticed`), and every missing
label behind the cursor is shown in health or will be by a live poll that
remembers it (`AllSignalled`).  The closing patch is where the two meet: the
messages it moves the cursor past are those its own poll passed, or lie in a gap,
or before the start of monitoring.  The excuse `robbed` is needed: with three
faults (a catch block frees a lease that is not its own, a label write of one of
two polls on the same message fails, that poll dies) a missing label behind the
cursor is shown nowhere.

Assumed: `PollAssumption`, which types the constants.

## Sending with a step-up: `StepUpSend`

### State and actions

`challenge` is the D1 table `webauthn_challenges`, with a row that was taken or
reaped kept as "gone" so that a property can still name what it was issued for;
`issued` are the `confirm-jti` keys in KV, `consumed` the `consumed_jti` table of
each mailbox, `sentAt` the SENT rows with the hour in their date, `delivered` what
the mail provider took.  `verify` and `send` are the activations of
`/authenticate/verify` and of the sending handlers.  A token has no identity of
its own: it is named by the verification that minted it, which keeps the message,
mailbox and tier that were signed.  A message stands for its hash.

| Code | Actions |
|---|---|
| `/authenticate/options`, hourly reaper, expiry | `Options`, `Reap`, `ChallengeLapses`, `TokenLapses`, `Hour` |
| `/authenticate/verify` | `Consume`, `Prove`, `Mint`, `VerifyFails` |
| `enforceSendRiskConfirmation` | `Assess`, `Show`, `Spend`, `SpendUnanswered` |
| `POST /emails` (kind `api`), reply, forward | `Submit`, gate, `NoOriginal`, `Count`, `File`, `MarkRead` (reply), `Hand` |
| `toolSendEmail`, `toolSendReply` (kind `tool`) | `Submit`, `Count`, gate, `CheckDraft`, `Hand`, `File` |
| failures | `FileUnanswered`, `HandFails`, `Fail` |

The risk classifier, the check of the draft and the authenticator answer by
choice; an assertion that does not verify is a failure with a budget.  Left out:
users and credentials (one of each; the code compares the identity of the three
requests), the counter, registration and recovery (`StepUpKeys`), the preflight,
attachments, and the user moving or deleting SENT rows.  What a tool delivers is
the draft as its verifier rewrote it, which is not the text the token was given
for; the model follows the code in comparing the text that was submitted.

### Checks

`stepup_once`: one challenge, two verifications, two sends and two messages in one
mailbox; sends of the kinds `api`, `reply` and `tool` at tiers 0 and 2; limits of
one message an hour and one a day, in days of two hours; one failed call, lapse or
failed delivery; 1.56 million states, under the symmetry of verifications, sends
and messages, sound because nothing orders them and no liveness is checked.  Two
sends and two verifications are what replay, substitution and overlap need, and a
limit of one makes both sends meet it; the theorems cover any number of
everything.  `RiskyConfirmed` and `ConfirmedOnce` say what a step-up is for;
`ImplementsConfirmation` relates the three stores to `Confirmation`.  `LimitKept`
says that only sends that overlap exceed the hourly limit: the ghost `raced` names
the sends for which a row was filed after they were counted, because the code
counts in one call and files in another.  `RecordedInOrder` keeps the order of row
and delivery through failures.

No fairness is assumed: a client may stop anywhere.

### Proofs

`StepUpSendProofs` proves for any number of challenges, verifications, sends,
messages and mailboxes `TypeCorrect`, `OnlyConfirmed`, `SingleUse`,
`Implements`, `OnRecord` and `LimitHolds`.  The inductive invariant has two halves.  `VerifyInv`: a
verification past `consumeChallenge` holds a challenge that is gone, alone, and
past the comparison its message is the challenge's.  `SendInv`: each send is
`Careful` (a token it shows is minted; one it spent is in its mailbox's table and
was minted for its mailbox and message; nothing is out before the gate, and behind
the gate a risky send has spent a token of its tier) and no two sends spent the
same token, because both would have spent it in the same mailbox's table.  The
properties alone are not inductive: they say nothing of sends that are still on
their way.  For the refinement a challenge's stage is read off the tokens minted
from it and the sends that spent one.

`OnRecord` and `LimitHolds` rest on `CountInv`: finitely many rows are filed, so
that a count of them is a number; what a send holds and has done agrees with its
place in the order of its kind (`Ordered`); and a send that has counted but not yet
filed, and that nobody filed after, still sees the count it was admitted with
(`Within`).  `LimitKept` needs the last: the count is read long before the row is
written, and only `raced` excuses a count that has grown since.

Two more theorems are about instances.  `ComposerStaysHonest` (`Compose`): the latest
preview under way is about the fields as they stand unless a new one is due
(`LatestIsAbout`), what is on the screen is the gate's, about the fields, or about to be
replaced (`ShownIsAbout`), and a send of tier 2 began with the word typed (`TypedAtTwo`).
`TiersAreEarned` (`SendRisk`): a row of the graph counts the deliveries to its address and
holds the first and the last of them (`GraphFits`), and while nothing fails a verdict that
was shown and stored is in the cache as long as it is fresh, and the gate used it
(`VerdictsHold`).  The proof of `ShownVerdictHolds` found that the property counted the
lifetime of a verdict from the wrong moment: `send-risk-assess.ts` stores it after the
model has answered, and the entry is fresh for its lifetime from then (`stored`).

Assumed: `SendAssumption`, which types the
constants and keeps `None` apart.


## The life of a mailbox: `MailboxLifecycle`

`blob` and `acl` are the two R2 objects of an address, `rows`, `agent` and
`objects` what its Durable Objects and R2 hold of its mail; `op` holds, per
request in flight, what it read before its last await.  Saving settings, adding
a block rule, changing the ACL, creating, deleting with the reap behind the
answer, the hourly reap of honeypots and the delivery of mail are each read and
write in two steps, because R2 has no transactions.

`lifecycle` runs two requests and the cron over one creation with one failure; 1.5
million states.  `OwnerIsMember` and `TrapStaysTrap` say that a read-modify-write does not cost a
mailbox its owner, or a honeypot its nature unless a body it read was lost: the settings
save and the block rules read with `json().catch(() => ({}))` (`index.ts` 1275,
`blocklist.ts` 56 and 73) and put back what they make of it, so that one failed read
clears the honeypot block and the rules (`noBody`, `misread`).  The comment at 1276-1278
says the save must never do so; `SaveClearsNothing` states that and is violated.
`OwnerIsMember` would not notice a lost update of the list that keeps its owner, such as
a removed member coming back.  `NothingLeftBehind` says what a
deletion may leave and why.  The instance is symmetric in requests, users and
rules, which nothing orders.  Creations are bounded, so a behaviour may end with
nothing to do and deadlock is not checked.  `lifecycle_successor` needs a second
creation: the reap of the deleted mailbox then takes the successor's mail, which
the comment at the route calls a cleanup cost (`SuccessorKeepsMail`).

`MailboxLifecycleProofs` proves the type invariant and the three properties for
any number of requests.  `OwnerKept`: the owner is on the stored list because it is
on every list in flight; the invariant says both and what each stage of a request
holds.  `TrapsKept` rests on `Trapped`: while a honeypot is deployed, the stored
blob and every blob a request has read and will put back carry the honeypot block, until
a save or rule change goes on from a body it could not read.
`ReapedClean` rests on `SweptInv`: as long as no call failed and no mail came in
behind a reap, what a reap on its way has wiped is empty and what it will still
remove is on its list; the order of the reap, attachments listed before rows are
wiped, is what makes this inductive.  Assumed: the constants are typed, `None`
is none of the values, and `NoneIsNoBlob`, that it is no object either.

`RoutingStaysSound` is about `MailRouting`.  Its properties compare what the delivery
came to with what held while it was on its way, and are not inductive: nothing in
them says of a recipient already passed over why it was.  The invariant adds that the
ghost brackets the world (`Witnessed`: what always held holds now, what holds now is in
what ever held), that the address in hand is a recipient (`Addressed`), that the
recipients behind the queue had no mailbox (`Missed`), no relay or no catch-all
(`Sifted`) at the time they were looked up, and that the policy in hand drops no more
than the domain's did (`Priced`).  A change only narrows `since.always` and widens
`since.ever`, which is why all of it survives.

`FoldersStaySound` is about `MailFolders`: a request that is about to write a message's row
or to remove its objects is the only one of that message, which has no row then
(`OneHandler`); the first has stored the objects and found a folder (`StoringHas`); and a
row that is there tells whether its objects are (`RowsTell`).

## The hub: `HubCorroboration`

`events`, `attributes`, `rows` with `count` and `score`, `contributors` and
`inbound` (the peer's watermark and retry time) are D1 tables; `task` holds the
activation of a post, of a retry of one or of a pull of the peer, each D1 call a
step, with deaths between any two.  The ghosts keep apart what a property
excuses: whether the peer edited an event during a pull (`edited`), what a death
left without its credit (`lost`) or its attributes (`bare`).

`hub` runs two requests or cron ticks at once over one organisation and a peer
with two events of equal or different time, pages of one event, two sharing
groups of which one is the unrestricted one, and one trouble: a death, an edit or
what an operator changes; 1.34 million states.  `PromotionSound` joins
`CreditedOnce`, `ContributorsCredited` and `FeedsCorroborated` (what the feeds
serve had two contributors in a group the reader may see, or the reader
contributed it); `PullSkipsNothing` is the watermark's promise, with the two
excuses that `edited` and `late` name.  Pages of one event are the smallest in
which the order inside an equal timestamp and the cap on pages both matter.

`hub_pages` shows what `late` excuses: one undisturbed pull, pages of two events,
and a peer that publishes two events while its pages are fetched
(`WatermarkKeepsUnpulled`).  The flaw was met in proving the watermark: the
invariant that everything below a pull's highest timestamp lies on the pages it
fetched is not kept when a page was short and another is fetched after it.

`HubProofs` proves the type invariant, `PromotionIsSound` and `WatermarkHolds` for
any number of tasks, organisations, groups, events, any page size and any trust.
The invariant of the first two relates a request between its two statements to
the row it is about: its organisation is a contributor that is not credited.
`WatermarkInv` adds of the world that events are published in order, with times
that do not exceed the clock (`WorldInv`), of every task whether it is the peer's
(`Sides`), and while nothing was edited (`PagesInv`) that all below the stored
watermark is pulled in and, per pull (`PullInv`), that what it wants below the
page it is on is pulled in, that the events of that page it has passed are too,
and that the event in its hands has come as far as its step says.  A pull is
stated against its own page because two pulls may overlap and either may write
the watermark.  Assumed: `HubConstants`, and that `None` is neither a task nor an
event.

`FeedsStayServed` proves `RecordedIsServed`, `ListedStaysFound` and `ProbesComplete` of
`FeedRefresh`.  Its invariant bounds the keys of a feed from both sides: nothing is
published before the server has it (`NotAhead`) and nothing older than a version some
mailbox recorded (`NotBehind`); the filter goes up before its list (`FilterFirst`), and
the keys a run has written are its version's, the others as it saw them unless they
expired (`RunFits`).  `RangesExact` stays with TLC: the ranges are merged by a fold.

## The desk: the components around the pipeline

`MCDesk` instantiates twenty-two modules; one run, `desk`, explores all of them,
because none of them can move another's state.  Each invariant of the run is a
conjunction over the modules of one area, named in the module's last lines; the
theorems state the parts of these conjunctions, module by module.
Behaviours are bounded by counters and end, so deadlock is not checked.  Each
paragraph gives the state, the properties and the limits of one module.

**`InboxWalk`.**  The listing queries as operators on rows, and a
reader who pages through all mailboxes, each asked in a call of its own, while
mail arrives and moves.  `WalkShowsEachOnce` is the promise of the cursor;
`CountMatchesListing` compares the two queries of the pager.  Pages hold one row,
so that every cut occurs; rows have equal dates, legacy thread ids and two
subjects in a thread.

**`MailFolders`.**  Rows and folders in the Durable Object, where a call is
atomic; attachment objects in R2, written and removed by callers in calls of
their own.  `MailHasFolder`: no request finds the folder of its mail gone.
`ObjectsFollowRows`: an attachment can be fetched as long as it has a row, and
what is left over is accounted for.

**`ClientCache`, `Compose`.**  The web client's queries with optimistic patches,
snapshots and roll-backs, against a server that answers in any order:
`ViewsAgreeWithServer` once nothing is under way.  Mutations are numbered in the
order of their calls.  The composer with its delayed preview: `PreviewIsCurrent`
and `TierTwoWasTyped`, whatever the preview knows of the tier the gate decides.
`ClientCatchesUp` proves the first: unless an answer was lost or a mutation is still to be
settled, every query is asked again, or has an answer in hand that agrees with the server,
or agrees itself (`CaughtUp`).  A roll-back may put back an old snapshot because settling
asks every query again.

**`CaseBook`.**  Reports, the background summary, the hub's copy, the submission
of a domain to Cloudflare over KV, which has no atomic update, and the page that
polls a case.  `PendingHasJob`, `SharedIsHeld`, `SubmissionsCounted`.  KV is read
as the last write; a failed read resets counter and list, as the code does.
`case_poll` shows that the page stops polling before a slow summary is there.
`CaseBookProofs` proves `CasesTruthful`.  The three properties say nothing of a
request between two calls; the invariant adds that a report notes only what the
hub has stored (`ReportFits`), and, while nothing is disturbed, that one
submission at most is under way (`Serial`), that what it checked or read is still
so (`Fresh`), that each accepted domain is on record but for what this submission
has still to write (`Recorded`), and that the count is behind by one at most
(`Behind`).

**`TierRules`, `SettingsStore`.**  Reading with salvage, the merge of three tiers
and the precedence of block rules as operators; three objects in R2, a copy per
isolate and requests that read, change and put back.  `CacheIsCurrent`,
`WritersKeepToTheirFields`, `TiersResolve`.  The stored blobs an instance starts
from carry one malformed or partial field each.  `SettingsStaySound` proves all three:
what is stored is well formed, what a request read was stored, and nothing where nothing
is stored still (`ReadFits`), what it was asked to write is of its kind (`AskFits`), and
a copy in an isolate is of a tier, the empty one where nothing is stored (`EntryFits`).  The proof found
that the guards of the model's test for a save that changes nothing overlapped, so that
`CASE` left the answer open; it is a disjunction now, as in the code.

**`FeedRefresh`.**  A feed's refresh and its KV keys, each with its own expiry,
read by lookups at any moment.  `RecordedIsServed`, `ListedStaysFound`,
`ProbesComplete`, `RangesExact` (addresses of three bits instead of 32).  Two
assumptions: the server's content never returns to an earlier version, and two
ticks of the cron do not overlap.

**`CatchallIntel`.**  The object of a domain whose catch-all is observed: counters
per source, local parts, a ring buffer, alerts.  `HarvestIsAlerted`,
`AlertsDebounced`, `SamplesAreNewest`, `SummaryAddsUp`.  Probes of a tick may
reach the object in any order.  The counter of distinct local parts is never
decremented, so collecting rows can only alert too early; the log of alerts is
never pruned.  `HarvestsStayAlerted` proves all but the sum in `SummaryAddsUp`, a fold;
of that property it proves the part about the counters (`CountersAddUp`).

**`LinkRules`, `ScoreRules`, `SendRisk`.**  Extraction, look-alikes and scorers as
operators over material that grows a piece at a time, each checked against a
definition of what it should compute: the edit distance
(`LevenshteinIsEditDistance`), no link missed (`LinksComplete`), no result forged
by a header's place (`AuthNotForged`), a classifier bounded whatever its model
does (`ClassifierBounded`).  `SendRisk` adds the history of recipients, the
cached model verdict and the split of the quoted original: `TrustIsEarned`,
`ShownVerdictHolds`, `EvidenceOnlyRaises`, `NothingHidden`.  The truncation of
text before the model (`NEW_TEXT_CAP`, `QUOTED_CAP`) is not modelled.

**`ScanPipeline`.**  One scan per message of one mailbox: `facts` is what it has
found out so far, `rows` the trace, `writes` what became of the four writes; `stored`,
`reputation` and `graph` are the mailbox's tables, which the scans share.  A stage
that reads is one action, the failure of that read another.  `StagesAgree`: whatever
the other scans did meanwhile, the verdict is `SyncVerdict` of the facts found;
`MatchIsBest`, `TraceTells`, `RowsAddUp`, `StoredAsTold`, `WritesIndependent` and
`HistoryCounts` are joined with it in `PipelineSound`, a part of `ScoringSound`.  The
part `pipe` follows one scan through every branch, one write lost at most (by
one policy), the part `pipes` two scans of one sender through the writes.  The reset of a history at 1000 messages is not reached.
`RowsAddUp` covers every scan.  A full scan's score is the clamped sum of its rows and of
the scorers without one, plus the boosts, off-hours and detector included.  When triage
answers, its row alone is the score, and the rows of the scorers that had run keep what
those gave: the rows of that path do not sum to the score, although the comment at
`security/index.ts` 276-283 has every path's do.

**`MailRouting`.**  One delivery from Cloudflare's call to the handler that takes it:
`pc` is the stage, `queue` the recipients still to be looked up at it, `to` the address
found, `policy` the relay policy in hand; `boxes`, `org` and `settings` are the blobs in
R2, which users and administrators change between any two reads.  A settings read that
fails answers with an isolate's older copy (`past`) or with nothing, as the code's
catch blocks do.  `since` is a ghost: what held always and what ever since the
delivery came.  `EnvelopeDecides`: the header's addresses and the sender's own Received
lines choose nothing where the envelope names a recipient.  `RegisteredIsFiled`: mail
for a mailbox that is there all the while is not relayed, collected or dropped.
`OwnedOnly`: only a domain that was the operator's, with the relay or the catch-all it
asked for, gets mail.  `PassedOn` and `IgnoredForCause`: what is not kept was withdrawn
on the way or is nobody's.  They are joined in `RoutingSound`, a part of `IntelSound`.
One delivery, one change, one fault and one redelivery: deliveries share only the
world, and a second change can only undo the first.  Two consequences of the code the
properties name: a relay policy withdrawn between the two reads loses the mail even
where a catch-all is on, and since a verdict that isolates is capped to `tag` before
the policy is asked, a row `block: drop` is never honoured for a passthrough, which
`relay-policy.ts` 54-56 has it be.

**`DomainPosture`.**  Seven lookups over DNS and HTTPS with results in KV, below
the page's own cache of a minute; `kind` is the lookup of a behaviour.
`ShownWasPublished`, `SpfLimitExact`, `NoStalePolicy`, `FailuresForgotten`,
`Recovers`.  The SPF walk has limits 3, 5 and 3 for 10, 12 and 10, small enough
for chains of four names to pass each of them.  The quoting of TXT strings and
the size limits of records and policies are abstracted; of the two BIMI readers
the one `workers/index.ts` uses is modelled.

**`Dashboards`.**  Aggregation over mailboxes that may not answer, pages kept in
KV for a minute whose read or write may fail, the search over mailboxes.
`NumbersReconcile`, `ThreatsAreReal`, `RecentAreNewest`, `BucketsPartition`,
`PercentileBetween` (in twentieths), `SearchPagesAll`, `PagesRecover`.  `kind` bounds
what happens in a behaviour: mail to time 4, cases to 2, cached pages to 1, runs to
2; the top list has one place for five, so that it must choose.  The code reads a
verdict cell with two parsers, one that asks only for an object and one that asks for
a known action; both are kept.

**`ReportBook`.**  DMARC aggregate and failure reports and TLS reports: told from
mail, unpacked, decoded, stored, enriched outside the answer.
`DivertedIsStored`, `UnpackBounded`, `NumbersAgree`, `SourcesKept`,
`RufBounded`, `TlsCounted`.  The cap of 200 sources is not reached; the paged
lists are left out.  An enrichment takes the addresses of its report in any order.
`ReportsStayKept` proves `DivertedIsStored`, `SourcesKept` and `RufBounded`.  For the
sources the invariant says of every enrichment that the addresses it has passed are in
the table and that those it is about to place were there when it read it (`TaskFits`);
an address two enrichments are about to place at once is in `lapped` (`Overlap`), which
is the only way a known network is lost.  For the failure reports it bounds those stored
in the window together with those counted and not stored (`RufInv`).  The three others
are sums and unpacked sizes, which are folds, and stay with TLC.

**`DeepScanStages`.**  One scan's links with their redirects, name servers that
answer every lookup differently, archives, addresses, the CTI cache and the sum.
`RequestsGuarded`, `LandingsTrue`, `HostsCountOnce`, `CacheHonest`, `SumBounded`,
`ArchivesAgree` (the archive walk against a reference that shares its step over
one header).  A file's extensions are representatives of the sets in the code;
offsets are scaled to a window of 12 bytes.  Scores by numeric range and the
display names of feeds are left out.  `ScansStayGuarded` proves the first four: the
invariant counts a link's requests as it hops and keeps that where it has come to a
request went (`ChainFits`), says that every request belongs to a link followed so far
(`LinksFit`), and that the hosts seen are those of the rows (`HostsFit`).  The other
two, a sum and a walk, stay with TLC.

**`AgentDesk`.**  The agent's answer to new mail, its tools and the MCP server's, one
tool call a step, and the gates to a mailbox.  `PromptScanned`,
`BlockedLeavesNothing`, `ChatTrue`, `AgentRemovesDrafts`, `DraftsSurvive`,
`RepliesThreaded`, `GatesAgree`.  A text is what the caller wrote and what it
quotes; an answer of the scanner that cannot be read counts as "no"
(`lib/ai.ts` 48-51); the gates are those of production.  Two tool calls stand
for five.  `AgentStaysHonest` proves all seven: the invariant says what a tool has in
hand between its read and its write (`MailInv`), and what the run has scanned and drafted
at each step (`RunInv`); that the gates agree follows from their definitions.

**`MailNotice`.**  The notice of new mail from the tiers to the wire.
`NoticeStaysScoped`, `TestTellsTruth`, `SignatureStands`, `OneLink`,
`NoCredentialShown`.  A tier whose read fails is an absent tier, as in the code;
subjects are cut at 3 and 4 pieces for 120 and 1000 characters.
`NoticesStayScoped` proves the first two: the request of each mail is what the tiers
that could be read decided when it came (`MailFits`), that of each test is what mail
under the block the operator is told about would get (`TestFits`), and an answer of
"config" or "secret" has its cause (`ShownFits`).  The other three are about folds and
selections of pieces, and stay with TLC.

**`HubPosts`.**  A deployment as the hub's client.  `KeyStaysPaired`, `ConsentGiven`,
`ReportsAnonymous`, `PagesHonest`.  Secrets are fixed; requests run one at a
time, because each reads everything it needs.  `PostsStayHonest` proves all but
`ReportsAnonymous`, which is about the pieces a text is folded from.

**`HubMembers`.**  Who belongs to the hub and may see which event, with reads and
writes in separate calls that overlap, fail, or lose their answer: five requests,
one invite, one event, one peer, one failure.  `InvitedOnce`, `MembersVouchedFor`,
`ShownToMembers`, `PeersWhole`, joined in `MembersSound`, a part of `IntelSound`.
Names, contacts, filters of a search and the page size are left out; no two rows
get one uuid.  `HubMembersProofs` proves `MembersSound`.  Requests act on rows
they read calls ago, so the invariant relates each request to what it read
(`Fits`), and this stays true because no organisation, membership, invite or
event is taken back while requests are on their way (`Grown`).  Beside it stand what
rows say of each other: whom an invite let in is there and its issuer is a member
(`InviteFits`), a newcomer came by exactly one invite (`LetIn`), members are
vouched for (`GroupFits`), an event's group is one of its author's (`EventFits`), a
peer has both of its rows or none (`PeerFits`), and an answer shows only what is
visible still (`ShownFits`).

**`StepUpKeys`.**  The keys a step-up is signed with: enrolment, confirmation,
recovery by an administrator, alerts, expiry and reaping.  `UsedOnce`, `Vouched`
(a further key rests on an assertion with a key the user had), `FirstKeyTold`,
`NotLockedOut`, joined in `KeysSound`, a part of `AgentSound`.  The part `keys` has
one user and two requests at once, the part `owners` two users, one request each
at a time and nothing failing; both have four requests, four challenges and two
signatures.  What an authenticator answers is whether it verifies.
`StepUpKeysProofs` proves `KeysSound`.  Its invariant says what each handler has in
hand between two calls (`Handled`): a challenge it consumed and nobody has used
(`Unspent`), an assertion by a key enrolled for this user (`Verified`), a counter
the authenticator reached and a key that is not stored yet (`Metered`), a further
key only beside another or after a recovery (`Watched`); that no two handlers hold
one challenge or enrol one key (`AllApart`); and how rows rest on each other: what
used a challenge (`UsedAt`), what a registration was begun with (`IssuedAt`),
where a key comes from (`KeyAt`) and who was told of it (`Told`).

**`SchemaUpgrade`.**  The two lists of migrations over the releases a database
lives through, with starts that die and rows a release wrote between.
`SchemaReached`, `RanOnceInOrder`, `HistoryComplete`, `RefusedOnlyByName`.
Releases go forward only; an older release writes the rows its schema has room
for; a start that dies keeps all of a migration or nothing.  Types, defaults and
constraints of columns are left out.

## Where the code disagrees with its documentation

Four runs show a disagreement and are listed under `findings`: `score_race`,
`lifecycle_successor`, `case_poll` and `hub_pages`.  The modules define further properties
that quote a comment and fail; each is repeated with the configuration named.

| Property | Configuration |
|---|---|
| `InboundMail.LearningNeverIsolates` | `inbound_safety` with `MailboxKinds <- OneLearning`, `MailKinds <- OneMail`, `Facts <- SomeFacts`, `Faults <- NoFaults`, `MaxFaults = 0`; with `OneGateway` it holds |
| `SidecarPoll.NeverWedged` | `FairSpec`, `OneTick`, `Distinct`, `BothModes`, `NoFaults`, three messages, both caps 2; or `sidecar_drains` as it is |
| `SidecarPoll.FlaggedNeverLost` | `Spec`, `OneTick`, `Distinct`, `ActiveMode`, `CallOnly`, three messages, both caps 2, one fault |
| `MailboxLifecycle.SaveClearsNothing` | `lifecycle` |
| `StepUpSend.LimitsPerHour` | `stepup_once` with one message, all four kinds, tier 0 only, no faults, `HourLimit = 1`, `DayLimit = 2`, `DayHours = 3`, `MaxHour = 2` |
| `HubCorroboration.DemotedDoesNotCount` | `hub` |
| `SettingsStore.SalvageNeverWritten` | `desk`, as `Set!SalvageNeverWritten` |
| `SendRisk.FailedLookupNeverRaises` | `desk`, as `Risk!FailedLookupNeverRaises`, with `{"settings"}` among `Losses` and `LlmEnabled <- FALSE` |
| `MailFolders.MoveCountsOnce` | `desk`, as `Folds!MoveCountsOnce`, with `MaxBumps <- 2` |
| `InboxWalk.ThreadCountIsSize` | `desk`, as `Walk!ThreadCountIsSize` |

Reading the code for the models turned up more that no run shows:

- Listings: `threaded-emails.ts` 89 and 123 look folders up by the names `draft`
  and `sent`, the seeded names are `Drafts` and `Sent`, so `has_draft` and
  `needs_reply` are always false.  A folder is found by name or id with
  `LIMIT 1`, which a rename makes ambiguous.
- Posture: SPF, DMARC, BIMI and DNSSEC keep a transient failure for an hour; a
  missing MTA-STS policy file is kept for a day, although
  `mta-sts/posture.ts` 16-17 says negative results are cached briefly.
- Search: `ORG_SEARCH_PER_MAILBOX_CAP` is 200 and `searchEmails` stops at 100.
- Reports: an enrichment that fails to locate an address overwrites a network
  that was known; a redelivered aggregate report is counted twice;
  `tlsrpt/parser.ts` 12-15 bounds what it reads after unpacking all of it.
- Settings: a failed read before `POST /blocklist` or `/org/domains` is an empty
  tier, which the write then stores; one malformed field of a lenient read takes
  others with it.
- Hub: an event edited upstream during a pull shifts the pages; a pull whose
  pages are all filtered never advances; a post repeated with the uuid of one that
  died is never credited.  A domain's hub block that is unusable falls back to
  the organisation's hub.
- Members of the hub: `orgs.ts` 8 calls an invite one-time, and redemptions that
  overlap each make an organisation; one whose answer is lost uses the invite up
  for an organisation nobody has the key of.  Publishing a peer that is removed
  meanwhile answers ok.
- Credentials: two registrations begun before the first key is stored may both
  end, and the second then has no assertion behind it, which `webauthn.ts` 24-26
  promises; a registration unlocked before a recovery survives it; if the
  recovery dies behind its delete, a registration begun before it stores its key
  with no alert of either kind.
- Agent: updating a draft replaces any message by id, and loses it when the
  create behind the delete fails; a draft discarded while its update waits for
  the verifier comes back.
- Schema: a user's folder called Drafts or Quarantine stops migrations 3 and 9 at
  every start; the backfill of 32 counts an address in To and Cc twice.
- Notices: `mailbox-settings.ts` 50-54 turns a failed read into `{}`, so a muted
  tier's mail may reach a wider channel, and the `.catch` at `index.ts` 2032 is
  never reached.
- Deep scan: an address the guard refuses, a chain cut short and a bad `Location`
  all leave the link as resolved to itself; the second link to a host is not
  looked up in the feeds.

## What is proved and what is only checked

Eight modules hold theorems, each for every value of the constants.  Those about
the five core modules rest on the named assumptions of those modules alone.  The other
modules named below are parts of the desk, which only instantiates them; a theorem about
one of them stands in the proof module of a related component, which instantiates it
once more with variables of its own.  What such a theorem needs of the constants is a
definition of the proof module and a hypothesis of the theorem (`Constants`,
`PipelineConstants`, `RoutingConstants`, `FolderConstants`, `ComposeConstants`,
`RiskConstants`, `CacheConstants`, `SettingConstants`, `FeedConstants`,
`CatchallConstants`, `PostConstants`, `AgentConstants`, `ReportConstants`,
`NoticeConstants`, `DeepConstants`): `None` is
nothing else, bounds are numbers, and what a database, a hub, a mailbox or an answer
begins with is well formed.  The constants `MCDesk` gives them satisfy it, and TLC has
checked the inductive invariants on the parts of the desk before they were proved.

| Module | Theorems | About |
|---|---|---|
| `InboundMailProofs` | `ActionForMonotone`, `SyncVerdictType`, `LearningNeverIsolatesSync` | the operators of `Verdict` |
| | `TypeCorrect`, `IsolatedContained`, `VerdictsTighten`, `RegisterImplemented` | `InboundMail`: invariants, an action property, a refinement |
| | `RecordsAreTrue`, `RelayedOnce`, `TrapsStaySilent`, `UserReleases`, `AnnouncementsTrue` | `InboundMail`: invariants, action properties |
| | `PipelineStaysSound` | `ScanPipeline`: all its properties |
| | `ScansStayGuarded` | `DeepScanStages`: all but `SumBounded` and `ArchivesAgree` |
| `StepUpSendProofs` | `TypeCorrect`, `OnlyConfirmed`, `SingleUse`, `Implements`, `OnRecord`, `LimitHolds` | `StepUpSend`: invariants, an action property, a refinement |
| | `ComposerStaysHonest` | `Compose`: all its properties |
| | `TiersAreEarned` | `SendRisk`: all but `NothingHidden` |
| `SidecarPollProofs` | `TypeCorrect`, `CursorSkipsNothing`, `StoredOnce`, `CursorMovesOn`, `AuditedAlways`, `PendingAlwaysShown` | `SidecarPoll`: invariants, an action property |
| | `ReportsStayKept` | `ReportBook`: `DivertedIsStored`, `SourcesKept`, `RufBounded` |
| `MailboxLifecycleProofs` | `TypeCorrect`, `OwnerKept`, `ReapedClean`, `TrapsKept` | `MailboxLifecycle`: invariants, an action property |
| | `RoutingStaysSound`, `FoldersStaySound` | `MailRouting`, `MailFolders`: all their properties |
| `HubProofs` | `TypeCorrect`, `PromotionIsSound`, `WatermarkHolds` | `HubCorroboration`: invariants |
| | `FeedsStayServed` | `FeedRefresh`: all but `RangesExact` |
| `StepUpKeysProofs` | `KeysStaySound`, `AgentStaysHonest` | `StepUpKeys`, `AgentDesk`: all their properties |
| `HubMembersProofs` | `MembersStaySound` | `HubMembers`: all its properties |
| | `HarvestsStayAlerted`, `PostsStayHonest` | `CatchallIntel` and `HubPosts`: all but the sum and `ReportsAnonymous` |
| `CaseBookProofs` | `CasesStayTruthful`, `ClientCatchesUp`, `SettingsStaySound` | `CaseBook`, `ClientCache`, `SettingsStore`: all their properties |
| | `NoticesStayScoped` | `MailNotice`: `NoticeStaysScoped`, `TestTellsTruth` |

Every safety property the runs of the five core modules check is a theorem.
Checked on the instances only:

- what is computed by a fold, a selection from a sequence or a RECURSIVE operator, which
  would need induction over data: `InboxWalk`, `LinkRules`, `ScoreRules`, `Dashboards`,
  `DomainPosture`, `SchemaUpgrade`; and of modules above `RangesExact`, the sum of
  `SummaryAddsUp`, `NothingHidden`, `ReportsAnonymous`, `UnpackBounded`, `NumbersAgree`,
  `TlsCounted`, `SumBounded`, `ArchivesAgree`, `SignatureStands`, `OneLink` and
  `NoCredentialShown`;
- the liveness properties `Settles` and `BacklogDrains`, which are beyond the prover, as
  is `ENABLED`.

## Not modelled

- The web client's pages beyond its mail cache and composer: they show what the
  API answers and keep no state of the system's.
- Access's own login and the hub's API keys: who a caller is is taken as known.
- A first poll that anchored from an unset cursor while another did: two anchors
  are modelled, the loss between them is not stated, because monitoring has then
  not begun.
- The URL scanner (`url-scanner.ts`), which nothing calls; the MISP client, a
  format; the org agent, which reads what the dashboards read; ARC sealing.
- The mailbox's own text search, the log of blocked mail, wording and layout.

The components in `PROJECT.json` marked "partly" say in their notes what of them
is left out.
