---------------------------- MODULE SidecarPoll ----------------------------
(***************************************************************************)
(* pollWorkspaceMailbox: cron ticks that pull new mail of one Gmail mailbox*)
(* into PhishSOC, over the poller's state row in the mailbox's Durable     *)
(* Object (cursor, lease, label signal), its audit and its event log.      *)
(*                                                                         *)
(* A message is its position in Gmail's history, so a history id and the   *)
(* number of messages that arrived by then are the same number.  Every     *)
(* call to the Durable Object or to Gmail that changes or reads shared     *)
(* state is a step of its own; ticks may overlap and die.  The token, the  *)
(* counters and texts of the health badge, and the backoff they cause (an  *)
(* early return that changes nothing) are left out.                        *)
(***************************************************************************)
EXTENDS Integers, FiniteSets

CONSTANTS
    Tick,       \* cron invocations that may run at once
    MaxMail,    \* BOUND: messages that arrive
    KeyOf,      \* the dedupe key of a message, as the first message with it
    BatchCap,   \* MAX_MESSAGES_PER_POLL
    PageCap,    \* history entries in MAX_HISTORY_PAGES pages
    Modes,      \* the modes the mailbox may be in
    Faults,     \* what may go wrong: calls that fail, crashes, lost history
    MaxFaults   \* BOUND: how often

Mail == 1..MaxMail
Unset == -1     \* no cursor yet, or no cursor to write

ASSUME PollAssumption ==
    /\ MaxMail \in Nat
    /\ KeyOf \in [Mail -> Mail]
    /\ BatchCap \in Nat \ {0}
    /\ PageCap \in Nat \ {0}
    /\ Modes \subseteq {"observe", "active"}
    /\ MaxFaults \in Nat

VARIABLES
    arrived, forgotten, \* Gmail: mail so far, history no longer kept
    deleted,            \* Gmail: mail its owner deleted, still listed
    cursed,             \* mail receiveEmail throws on whenever it is given it
    mode,               \* sidecar settings
    cursor, lease, labelError,      \* sidecar_state
    rows, verdict,      \* emails: how often each message is stored, its verdict
    refused,            \* mail a blocklist rule refused
    audit, cases, gaps, \* sidecar_audit, cases, sidecar_events
    poll,               \* pollWorkspaceMailbox's activation in each tick
    failed,             \* how much went wrong
    hurt,               \* ghost: mail whose handling was cut short
    unseen,             \* ghost: pending labels whose signal a later success
                        \* cleared, or a poll behind the cursor died before raising
    robbed,             \* ghost: a poll freed a lease another poll held
    start               \* ghost: the latest "now" monitoring was anchored to

gmail == <<arrived, forgotten, deleted, cursed, mode>>
record == <<audit, cases, gaps>>
mails == <<rows, verdict, refused>>
ghosts == <<hurt, unseen, robbed, start>>
vars == <<gmail, cursor, lease, labelError, mails, record, poll, failed, ghosts>>

Idle == [at |-> "idle", from |-> Unset, upto |-> 0, to |-> Unset, next |-> 0,
         n |-> 0, applied |-> FALSE, bad |-> FALSE, good |-> FALSE]

Init ==
    /\ arrived = 0 /\ forgotten = 0 /\ deleted = {} /\ cursed = {}
    /\ mode \in Modes
    /\ cursor = Unset /\ lease = FALSE /\ labelError = FALSE
    /\ rows = [m \in Mail |-> 0]
    /\ verdict = [m \in Mail |-> "none"]
    /\ refused = {}
    /\ audit = [m \in Mail |-> "none"]
    /\ cases = {} /\ gaps = {}
    /\ poll = [p \in Tick |-> Idle]
    /\ failed = 0 /\ hurt = {} /\ unseen = {} /\ robbed = FALSE /\ start = 0
-----------------------------------------------------------------------------
At(p, where) == poll[p].at = where
Become(p, r) == poll' = [poll EXCEPT ![p] = r]
Goto(p, where) == Become(p, [poll[p] EXCEPT !.at = where])
NextMail(p) == Become(p, [poll[p] EXCEPT !.at = "looping", !.next = @ + 1])

Miss(call) ==
    /\ call \in Faults
    /\ failed < MaxFaults
    /\ failed' = failed + 1

\* Where the handling of one message can be cut short.
Handling == {"storing", "scoring", "labelling", "auditing", "casing"}
CutShort(p) ==
    /\ hurt' = IF poll[p].at \in Handling THEN hurt \cup {poll[p].next} ELSE hurt
    /\ unseen' = IF poll[p].bad
                 THEN unseen \cup {m \in 1..cursor : audit[m] = "pending"} ELSE unseen
    /\ UNCHANGED <<robbed, start>>

\* findEmailIdByMessageId, or by the provider's id where there is none.
Taken(m) == \E x \in Mail : rows[x] > 0 /\ KeyOf[x] = KeyOf[m]
-----------------------------------------------------------------------------
(* Gmail. *)

Arrive ==
    /\ arrived < MaxMail
    /\ arrived' = arrived + 1
    /\ \/ UNCHANGED <<cursed, failed>>
       \/ Miss("curse") /\ cursed' = cursed \cup {arrived'}
    /\ UNCHANGED <<forgotten, deleted, mode, cursor, lease, labelError, mails, record,
                   poll, ghosts>>

\* What its owner deletes stays in the history that is listed.
DeleteInGmail ==
    /\ Miss("delete")
    /\ \E m \in 1..arrived : deleted' = deleted \cup {m}
    /\ UNCHANGED <<arrived, forgotten, cursed, mode, cursor, lease, labelError, mails, record,
                   poll, ghosts>>

\* Gmail drops history past its retention.
Forget ==
    /\ Miss("forget")
    /\ forgotten < arrived
    /\ forgotten' = arrived
    /\ UNCHANGED <<arrived, deleted, cursed, mode, cursor, lease, labelError, mails, record,
                   poll, ghosts>>
-----------------------------------------------------------------------------
(* Starting a poll. *)

\* The state is read before the lease is taken.
ReadState(p) ==
    /\ At(p, "idle")
    /\ Become(p, [Idle EXCEPT !.at = "read", !.from = cursor])
    /\ UNCHANGED <<gmail, cursor, lease, labelError, mails, record, failed, ghosts>>

\* Mutation of AcquireLease: the lease is armed without looking at it.
SeizeLease(p) ==
    /\ At(p, "read")
    /\ lease' = TRUE
    /\ Goto(p, "leased")
    /\ UNCHANGED <<gmail, cursor, labelError, mails, record, failed, ghosts>>

\* One check-and-set in the Durable Object; a held lease ends the tick.
AcquireLease(p) ==
    /\ At(p, "read")
    /\ lease' = TRUE
    /\ IF lease THEN Become(p, Idle) ELSE Goto(p, "leased")
    /\ UNCHANGED <<gmail, cursor, labelError, mails, record, failed, ghosts>>

\* POLL_LEASE_TTL_MS exceeds the handling of one message, so a lease runs out
\* only when no tick renews it.
LeaseExpires ==
    /\ lease
    /\ \A p \in Tick : poll[p].at \in {"idle", "read"}
    /\ lease' = FALSE
    /\ UNCHANGED <<gmail, cursor, labelError, mails, record, poll, failed, ghosts>>

\* First run: monitoring starts now, without a backfill.
Anchor(p) ==
    /\ At(p, "leased")
    /\ poll[p].from = Unset
    /\ Become(p, [poll[p] EXCEPT !.at = "closing", !.to = arrived])
    /\ UNCHANGED <<gmail, cursor, lease, labelError, mails, record, failed, ghosts>>

\* Mutation of List: a listing cut off at the page cap counts as complete.
ListTruncated(p) ==
    /\ At(p, "leased")
    /\ poll[p].from # Unset
    /\ poll[p].from >= forgotten
    /\ LET last == poll[p].from + PageCap
       IN  Become(p, [poll[p] EXCEPT
              !.at = "looping",
              !.next = poll[p].from + 1,
              !.upto = IF arrived > last THEN last ELSE arrived,
              !.to = arrived])
    /\ UNCHANGED <<gmail, cursor, lease, labelError, mails, record, failed, ghosts>>

\* listNewMessageIds: at most PageCap entries; a truncated listing must not
\* move the cursor.
List(p) ==
    /\ At(p, "leased")
    /\ poll[p].from # Unset
    /\ poll[p].from >= forgotten
    /\ LET last == poll[p].from + PageCap
       IN  Become(p, [poll[p] EXCEPT
              !.at = "looping",
              !.next = poll[p].from + 1,
              !.upto = IF arrived > last THEN last ELSE arrived,
              !.to = IF arrived > last THEN Unset ELSE arrived])
    /\ UNCHANGED <<gmail, cursor, lease, labelError, mails, record, failed, ghosts>>

\* 404, the cursor is older than the history kept: re-anchor, with an event.
ListExpired(p) ==
    /\ At(p, "leased")
    /\ poll[p].from # Unset
    /\ poll[p].from < forgotten
    /\ Become(p, [poll[p] EXCEPT !.at = "gapping", !.to = arrived])
    /\ UNCHANGED <<gmail, cursor, lease, labelError, mails, record, failed, ghosts>>

RecordGap(p) ==
    /\ At(p, "gapping")
    /\ gaps' = gaps \cup {<<poll[p].from, poll[p].to>>}
    /\ Goto(p, "closing")
    /\ UNCHANGED <<gmail, cursor, lease, labelError, mails, audit, cases, failed, ghosts>>
-----------------------------------------------------------------------------
(* The loop over the listed messages. *)

More(p) == poll[p].next <= poll[p].upto

\* The cap counts processed mail.
Capped(p) == poll[p].n >= BatchCap

\* Mutation of Heartbeat: the batch cap is not looked at.
HeartbeatUncapped(p) ==
    /\ At(p, "looping")
    /\ More(p)
    /\ lease' = TRUE
    /\ Goto(p, "probing")
    /\ UNCHANGED <<gmail, cursor, labelError, mails, record, failed, ghosts>>

\* The heartbeat writes the lease without looking at it.
Heartbeat(p) ==
    /\ At(p, "looping")
    /\ More(p)
    /\ ~Capped(p)
    /\ lease' = TRUE
    /\ Goto(p, "probing")
    /\ UNCHANGED <<gmail, cursor, labelError, mails, record, failed, ghosts>>

\* getRawMessage comes before the dedupe probe.
Fetched(p) == At(p, "probing") /\ poll[p].next \notin deleted

\* Mutation of Replayed: the cap counts listed mail, replayed mail included.
ReplayedCounts(p) ==
    /\ Fetched(p)
    /\ Taken(poll[p].next)
    /\ Become(p, [poll[p] EXCEPT !.at = "looping", !.next = @ + 1, !.n = @ + 1])
    /\ UNCHANGED <<gmail, cursor, lease, labelError, mails, record, failed, ghosts>>

\* A message that is stored is not ingested again; active mode looks for a
\* label its audit row shows missing.
Replayed(p) ==
    /\ Fetched(p)
    /\ Taken(poll[p].next)
    /\ IF mode = "active" /\ audit[poll[p].next] = "pending"
       THEN Goto(p, "relabelling")
       ELSE NextMail(p)
    /\ UNCHANGED <<gmail, cursor, lease, labelError, mails, record, failed, ghosts>>

Fresh(p) ==
    /\ Fetched(p)
    /\ ~Taken(poll[p].next)
    /\ Goto(p, "storing")
    /\ UNCHANGED <<gmail, cursor, lease, labelError, mails, record, failed, ghosts>>

\* receiveEmail with a blocklist rule that matches: nothing is stored.
Refuse(p) ==
    /\ At(p, "storing")
    /\ refused' = refused \cup {poll[p].next}
    /\ Become(p, [poll[p] EXCEPT !.at = "looping", !.next = @ + 1, !.n = @ + 1])
    /\ UNCHANGED <<gmail, cursor, lease, labelError, rows, verdict, record, failed, ghosts>>

\* receiveEmail's createEmail.
Store(p) ==
    /\ At(p, "storing")
    /\ poll[p].next \notin cursed
    /\ rows' = [rows EXCEPT ![poll[p].next] = @ + 1]
    /\ Goto(p, "scoring")
    /\ UNCHANGED <<gmail, cursor, lease, labelError, verdict, refused, record, failed, ghosts>>

\* receiveEmail's result: no verdict, or one to label and audit.
Score(p) ==
    /\ At(p, "scoring")
    /\ \E v \in {"none", "clean", "flagged"} :
         /\ verdict' = [verdict EXCEPT ![poll[p].next] = v]
         /\ Become(p, [poll[p] EXCEPT
                !.n = @ + 1,
                !.applied = FALSE,
                !.next = IF v = "none" THEN @ + 1 ELSE @,
                !.at = IF v = "none" THEN "looping"
                       ELSE IF mode = "active" THEN "labelling" ELSE "auditing"])
    /\ UNCHANGED <<gmail, cursor, lease, labelError, rows, refused, record, failed, ghosts>>

ApplyLabel(p) ==
    /\ At(p, "labelling")
    /\ Become(p, [poll[p] EXCEPT !.at = "auditing", !.applied = TRUE, !.good = TRUE])
    /\ UNCHANGED <<gmail, cursor, lease, labelError, mails, record, failed, ghosts>>

\* Mutation of LabelFails: the error ends the batch.
LabelAborts(p) ==
    /\ At(p, "labelling")
    /\ Miss("label")
    /\ Goto(p, "failing")
    /\ UNCHANGED <<gmail, cursor, lease, labelError, mails, record, ghosts>>

\* A failed label write is contained, whether or not it reached Gmail.
LabelFails(p) ==
    /\ At(p, "labelling")
    /\ Miss("label")
    /\ Become(p, [poll[p] EXCEPT !.at = "auditing", !.bad = TRUE])
    /\ UNCHANGED <<gmail, cursor, lease, labelError, mails, record, ghosts>>

\* The audit row of an active mailbox is pending until its label is written.
Audit(p) ==
    /\ At(p, "auditing")
    /\ audit' = [audit EXCEPT ![poll[p].next] =
                    IF poll[p].applied \/ mode = "observe" THEN "final" ELSE "pending"]
    /\ IF verdict[poll[p].next] = "flagged" THEN Goto(p, "casing") ELSE NextMail(p)
    /\ UNCHANGED <<gmail, cursor, lease, labelError, mails, cases, gaps, failed, ghosts>>

OpenCase(p) ==
    /\ At(p, "casing")
    /\ cases' = cases \cup {poll[p].next}
    /\ NextMail(p)
    /\ UNCHANGED <<gmail, cursor, lease, labelError, mails, audit, gaps, failed, ghosts>>

Relabel(p) ==
    /\ At(p, "relabelling")
    /\ audit' = [audit EXCEPT ![poll[p].next] = "final"]
    /\ Become(p, [poll[p] EXCEPT !.at = "looping", !.next = @ + 1, !.good = TRUE])
    /\ UNCHANGED <<gmail, cursor, lease, labelError, mails, cases, gaps, failed, ghosts>>

\* The label, or the update of the audit row behind it.
RelabelFails(p) ==
    /\ At(p, "relabelling")
    /\ Miss("label")
    /\ Become(p, [poll[p] EXCEPT !.at = "looping", !.next = @ + 1, !.bad = TRUE])
    /\ UNCHANGED <<gmail, cursor, lease, labelError, mails, record, ghosts>>
-----------------------------------------------------------------------------
(* Ending a poll. *)

Ending(p) ==
    \/ At(p, "closing")
    \/ At(p, "looping") /\ (~More(p) \/ Capped(p))

\* Where the cursor goes: nowhere when the cap left listed mail unread.
Target(p) == IF At(p, "looping") /\ More(p) THEN Unset ELSE poll[p].to

\* Mutation of SignalAfter: a clean poll clears the label signal.
SignalLastPoll(p) == poll[p].bad

\* The label signal is raised by a failed write and cleared by a success only.
SignalAfter(p) == poll[p].bad \/ (labelError /\ ~poll[p].good)

\* Mutation of Patch: a frozen cursor is written back as this poll read it.
PatchStale(p) ==
    LET r == poll[p]
    IN  /\ cursor' = IF Target(p) = Unset THEN r.from ELSE Target(p)
        /\ lease' = FALSE
        /\ labelError' = SignalAfter(p)
        /\ unseen' = IF r.good /\ ~r.bad
                     THEN unseen \cup {m \in Mail : audit[m] = "pending"} ELSE unseen
        /\ start' = IF r.from = Unset /\ r.to > start THEN r.to ELSE start

\* The state patch every completed poll ends with, the lease release included.
Patch(p) ==
    LET r == poll[p]
    IN  /\ cursor' = IF Target(p) = Unset THEN cursor ELSE Target(p)
        /\ lease' = FALSE
        /\ labelError' = SignalAfter(p)
        /\ unseen' = IF r.good /\ ~r.bad
                     THEN unseen \cup {m \in Mail : audit[m] = "pending"} ELSE unseen
        /\ start' = IF r.from = Unset /\ r.to > start THEN r.to ELSE start

Close(p) ==
    /\ Ending(p)
    /\ Patch(p)
    /\ Become(p, Idle)
    /\ UNCHANGED <<gmail, mails, record, failed, hurt, robbed>>

\* The patch took effect and its reply was lost.
CloseUnanswered(p) ==
    /\ Ending(p)
    /\ Miss("closeReply")
    /\ Patch(p)
    /\ Goto(p, "failing")
    /\ UNCHANGED <<gmail, mails, record, hurt, robbed>>

\* Gmail answers 404 for a deleted message, at this poll and at every later one.
Gone(p) == At(p, "probing") /\ poll[p].next \in deleted

\* Any call in the try block fails, but the contained label writes.
Fail(p) ==
    /\ poll[p].at \in {"leased", "gapping", "looping", "probing", "scoring",
                       "auditing", "casing", "closing"}
    /\ IF Gone(p) THEN UNCHANGED failed ELSE Miss("call")
    /\ CutShort(p)
    /\ Goto(p, "failing")
    /\ UNCHANGED <<gmail, cursor, lease, labelError, mails, record>>

\* receiveEmail throws, before or after its row is stored; on cursed mail it
\* always does, before it.
ReceiveFails(p) ==
    /\ At(p, "storing")
    /\ \/ poll[p].next \in cursed /\ UNCHANGED <<rows, failed>>
       \/ /\ poll[p].next \notin cursed
          /\ Miss("receive")
          /\ rows' \in {rows, [rows EXCEPT ![poll[p].next] = @ + 1]}
    /\ CutShort(p)
    /\ Goto(p, "failing")
    /\ UNCHANGED <<gmail, cursor, lease, labelError, verdict, refused, record>>

\* The catch block frees the lease too, unless this write fails as well.
Recover(p) ==
    /\ At(p, "failing")
    /\ \/ /\ lease' = FALSE
          /\ robbed' = (robbed \/ \E q \in Tick \ {p} : ~(poll[q].at \in {"idle", "read"}))
          /\ UNCHANGED failed
       \/ Miss("recover") /\ UNCHANGED <<lease, robbed>>
    /\ Become(p, Idle)
    /\ UNCHANGED <<gmail, cursor, labelError, mails, record, hurt, unseen, start>>

Crash(p) ==
    /\ ~At(p, "idle")
    /\ Miss("crash")
    /\ CutShort(p)
    /\ Become(p, Idle)
    /\ UNCHANGED <<gmail, cursor, lease, labelError, mails, record>>
-----------------------------------------------------------------------------
Run(p) ==
    \/ ReadState(p) \/ AcquireLease(p) \/ Anchor(p) \/ List(p) \/ ListExpired(p)
    \/ RecordGap(p) \/ Heartbeat(p) \/ Replayed(p)
    \/ Fresh(p) \/ Refuse(p) \/ Store(p) \/ Score(p) \/ ApplyLabel(p) \/ LabelFails(p)
    \/ Audit(p) \/ OpenCase(p) \/ Relabel(p) \/ RelabelFails(p)
    \/ Close(p) \/ CloseUnanswered(p) \/ Fail(p) \/ ReceiveFails(p) \/ Recover(p)

Next ==
    \/ Arrive \/ DeleteInGmail \/ Forget \/ LeaseExpires
    \/ \E p \in Tick : Run(p) \/ Crash(p)

Spec == Init /\ [][Next]_vars

\* Cron starts a tick every minute, the runtime runs what it started, and an
\* unrenewed lease runs out.
Fairness == WF_vars(LeaseExpires) /\ \A p \in Tick : WF_vars(Run(p))

FairSpec == Spec /\ Fairness
-----------------------------------------------------------------------------
Places == Handling \cup
    {"idle", "read", "leased", "gapping", "looping", "probing", "relabelling",
     "closing", "failing"}
Polls == [at : Places, from : Mail \cup {0, Unset}, upto : 0..MaxMail,
          to : Mail \cup {0, Unset}, next : 0..(MaxMail + 1), n : 0..BatchCap,
          applied : BOOLEAN, bad : BOOLEAN, good : BOOLEAN]

\* Every variable keeps its type; a poll never looks past the mail that
\* arrived, nor counts past the batch cap.
TypeOK ==
    /\ arrived \in 0..MaxMail /\ forgotten \in 0..MaxMail
    /\ deleted \subseteq Mail /\ cursed \subseteq Mail
    /\ mode \in Modes
    /\ cursor \in Mail \cup {0, Unset}
    /\ lease \in BOOLEAN /\ labelError \in BOOLEAN
    /\ rows \in [Mail -> Nat]
    /\ verdict \in [Mail -> {"none", "clean", "flagged"}]
    /\ refused \subseteq Mail
    /\ audit \in [Mail -> {"none", "pending", "final"}]
    /\ cases \subseteq Mail
    /\ gaps \subseteq (Mail \cup {0}) \X (Mail \cup {0})
    /\ poll \in [Tick -> Polls]
    /\ failed \in 0..MaxFaults
    /\ hurt \subseteq Mail
    /\ unseen \subseteq Mail
    /\ robbed \in BOOLEAN
    /\ start \in 0..MaxMail

Handled(m) == Taken(m) \/ m \in refused
InGap(m) == \E g \in gaps : g[1] < m /\ m <= g[2]

Accounted(m) == Handled(m) \/ InGap(m) \/ m <= start

\* The cursor passes a message only when it is stored under its key, refused
\* by a rule, in a gap an event records, or older than the start of
\* monitoring: freezing, caps, truncation, crashes and overlap skip nothing.
NothingSkipped == \A m \in Mail : m <= cursor => Accounted(m)

\* Overlapping and replayed polls store a message once under its key, unless
\* a poll whose release went unanswered freed the next poll's lease.
IngestedOnce == ~robbed => \A x, y \in Mail :
    KeyOf[x] = KeyOf[y] => rows[x] + (IF x = y THEN 0 ELSE rows[y]) <= 1

Busy(m) == \E p \in Tick : poll[p].next = m /\ poll[p].at \in Handling

\* A scored message has its audit row, and its case when flagged, however its
\* label write went, unless a call on the way to them failed.
Audited == \A m \in Mail :
    verdict[m] # "none" /\ ~Busy(m) /\ m \notin hurt
    => audit[m] # "none" /\ (verdict[m] = "flagged" => m \in cases)

\* A label that never landed on mail behind the cursor is shown in health
\* until some label write succeeds: a quiet poll in between does not hide it,
\* unless two polls hold the same mail because one freed the other's lease.
PendingShown == ~robbed => \A m \in Mail :
    audit[m] = "pending" /\ m <= cursor =>
    labelError \/ m \in unseen \/ InGap(m) \/ m <= start \/ \E p \in Tick : poll[p].bad

\* Overlapping polls, each with its own copy of the cursor, never move it back;
\* again but for a lease freed behind its holder's back.
CursorAdvances == [][~robbed => cursor' >= cursor]_cursor

\* A message that ends every poll that reaches it.
Stuck(x) == x \in deleted \/ (x \in cursed /\ ~Taken(x))

\* Arrived mail is handled or accounted for in spite of caps, failures, retries
\* and dead ticks, as long as the backlog fits the page cap, the mail a rule
\* refuses, which is refused again by every poll, does not fill the batch, and no
\* message from the cursor on ends the polls before they come to it.
BacklogDrains == \A m \in Mail : m <= arrived ~>
    \/ Accounted(m)
    \/ arrived > cursor + PageCap
    \/ Cardinality(refused) >= BatchCap
    \/ \E x \in 1..m : x > cursor /\ Stuck(x)
-----------------------------------------------------------------------------
(* What the comments say and the code does not do. *)

\* workers/providers/workspace.ts:280, a burst "can never wedge the mailbox".
NeverWedged == \A m \in Mail : m <= arrived ~> Accounted(m)

\* workers/providers/workspace.ts:356, "the audit row + case still get written
\* below so the flagged mail is never lost".
FlaggedNeverLost == \A m \in Mail :
    verdict[m] = "flagged" /\ m <= cursor => m \in cases
=============================================================================
