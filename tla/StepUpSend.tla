----------------------------- MODULE StepUpSend -----------------------------
(***************************************************************************)
(* Sending mail: the WebAuthn step-up that mints a one-shot confirmation   *)
(* token, and the four kinds of send that the send-risk gate lets through,*)
(* over D1 (challenges), KV (issued tokens) and the mailboxes' Durable     *)
(* Objects (spent tokens, SENT rows, send limits).                         *)
(*                                                                         *)
(* Every storage call is a step; requests overlap, are submitted twice and *)
(* fail at any call.  A payload stands for its hash, a token is named by   *)
(* the verification that minted it, and the risk classifier's answer is a  *)
(* choice.  Users and credentials, one of each, are left out.              *)
(***************************************************************************)
EXTENDS Integers, FiniteSets

CONSTANTS
    Ceremony,   \* challenges issued
    Verify,     \* requests to /authenticate/verify
    Send,       \* requests to send a message
    Payload,    \* messages
    Box,        \* mailboxes
    None,       \* no ceremony, no token, no payload
    Kinds,      \* how a send is made: "api", "reply", "forward", "tool"
    Tiers,      \* the risk tiers that occur
    HourLimit,  \* sends per hour and mailbox
    DayLimit,   \* sends per day and mailbox
    DayHours,   \* hours of a day
    MaxHour,    \* BOUND: the last hour of the clock
    Faults,     \* what may go wrong: "call", "deliver", "lapse"
    MaxFaults   \* BOUND: how often

SendKinds == {"api", "reply", "forward", "tool"}

ASSUME SendAssumption ==
    /\ None \notin Ceremony \cup Verify \cup Send \cup Payload
    /\ Kinds \subseteq SendKinds
    /\ Tiers \subseteq 0..2
    /\ HourLimit \in Nat /\ DayLimit \in Nat
    /\ DayHours \in Nat \ {0}
    /\ MaxHour \in Nat /\ MaxFaults \in Nat

VARIABLES
    clock,      \* hours since the first day began
    challenge,  \* webauthn_challenges
    verify,     \* /authenticate/verify's activations, and the tokens they minted
    issued,     \* confirm-jti keys in KV
    lapsed,     \* tokens older than a minute
    consumed,   \* consumed_jti of each mailbox
    send,       \* the send requests' activations
    sentAt,     \* SENT rows: the hour in their date
    delivered,  \* messages the mail provider was handed
    failed,     \* how much went wrong
    raced       \* ghost: sends another row was filed for since they were counted

stepup == <<challenge, verify, issued, lapsed>>
rows == <<consumed, sentAt, delivered>>
vars == <<clock, stepup, send, rows, failed, raced>>

Unsent == -1

Init ==
    /\ clock = 0
    /\ challenge = [c \in Ceremony |-> [state |-> "none", payload |-> None]]
    /\ verify = [v \in Verify |-> [at |-> "idle", of |-> None, payload |-> None,
                                   box |-> None, tier |-> 0]]
    /\ issued = {} /\ lapsed = {}
    /\ consumed = [b \in Box |-> {}]
    /\ send = [s \in Send |-> [at |-> "idle", kind |-> "api", payload |-> None,
                               box |-> None, token |-> None, risk |-> 0,
                               spent |-> FALSE]]
    /\ sentAt = [s \in Send |-> Unsent]
    /\ delivered = {}
    /\ failed = 0 /\ raced = {}
-----------------------------------------------------------------------------
Miss(call) ==
    /\ call \in Faults
    /\ failed < MaxFaults
    /\ failed' = failed + 1

VGoto(v, where) == verify' = [verify EXCEPT ![v].at = where]
Become(s, r) == send' = [send EXCEPT ![s] = r]
Goto(s, where) == Become(s, [send[s] EXCEPT !.at = where])
At(s, where) == send[s].at = where

Lapse(ch) == [c \in Ceremony |->
    IF ch[c].state = "live" THEN [ch[c] EXCEPT !.state = "lapsed"] ELSE ch[c]]
Minted == {v \in Verify : verify[v].at = "minted"}

\* An hour passes, more than any challenge or token lives.
Hour ==
    /\ clock < MaxHour
    /\ clock' = clock + 1
    /\ challenge' = Lapse(challenge)
    /\ lapsed' = Minted
    /\ UNCHANGED <<verify, issued, send, rows, failed, raced>>

ChallengeLapses ==
    /\ Miss("lapse")
    /\ challenge' = Lapse(challenge)
    /\ UNCHANGED <<clock, verify, issued, lapsed, send, rows, raced>>

TokenLapses(v) ==
    /\ v \in Minted
    /\ Miss("lapse")
    /\ lapsed' = lapsed \cup {v}
    /\ UNCHANGED <<clock, challenge, verify, issued, send, rows, raced>>

\* deleteExpiredChallenges, every hour.
Reap ==
    /\ \E c \in Ceremony : challenge[c].state = "lapsed"
    /\ challenge' = [c \in Ceremony |->
         IF challenge[c].state = "lapsed" THEN [challenge[c] EXCEPT !.state = "gone"]
         ELSE challenge[c]]
    /\ UNCHANGED <<clock, verify, issued, lapsed, send, rows, failed, raced>>
-----------------------------------------------------------------------------
(* The step-up. *)

\* /authenticate/options: a challenge bound to the message.
Options(c) ==
    /\ challenge[c].state = "none"
    /\ \E p \in Payload : challenge' = [challenge EXCEPT ![c] = [state |-> "live", payload |-> p]]
    /\ UNCHANGED <<clock, verify, issued, lapsed, send, rows, failed, raced>>

Asks(v, c, p, b, t, where) == verify' = [verify EXCEPT ![v] =
    [at |-> where, of |-> c, payload |-> p, box |-> b, tier |-> t]]

\* Mutation of Consume: the challenge is read, and deleted later.
ConsumeLater(v) ==
    /\ verify[v].at = "idle"
    /\ \E c \in Ceremony, p \in Payload, b \in Box, t \in Tiers :
         /\ challenge[c].state # "none"
         /\ Asks(v, c, p, b, t, IF challenge[c].state = "live" THEN "proving" ELSE "refused")
    /\ UNCHANGED <<clock, challenge, issued, lapsed, send, rows, failed, raced>>

\* /authenticate/verify takes the challenge before anything else, in one
\* DELETE ... RETURNING.  The mailbox and the tier are the client's.
Consume(v) ==
    /\ verify[v].at = "idle"
    /\ \E c \in Ceremony, p \in Payload, b \in Box, t \in Tiers :
         /\ challenge[c].state # "none"
         /\ Asks(v, c, p, b, t, IF challenge[c].state = "live" THEN "proving" ELSE "refused")
         /\ challenge' = IF challenge[c].state = "live"
                         THEN [challenge EXCEPT ![c].state = "gone"] ELSE challenge
    /\ UNCHANGED <<clock, issued, lapsed, send, rows, failed, raced>>

\* Mutation of Prove: the message is not compared with the challenge's.
ProveAnything(v) ==
    /\ verify[v].at = "proving"
    /\ VGoto(v, "minting")
    /\ UNCHANGED <<clock, challenge, issued, lapsed, send, rows, failed, raced>>

\* The assertion, then the message: the one the challenge was issued for.
Prove(v) ==
    /\ verify[v].at = "proving"
    /\ VGoto(v, IF verify[v].payload = challenge[verify[v].of].payload
                THEN "minting" ELSE "refused")
    /\ UNCHANGED <<clock, challenge, issued, lapsed, send, rows, failed, raced>>

\* The token is signed, recorded in KV and only then answered.
Mint(v) ==
    /\ verify[v].at = "minting"
    /\ VGoto(v, "minted")
    /\ issued' = issued \cup {v}
    /\ UNCHANGED <<clock, challenge, lapsed, send, rows, failed, raced>>

\* The assertion does not verify, or a call fails: the challenge is spent.
VerifyFails(v) ==
    /\ verify[v].at \in {"proving", "minting"}
    /\ Miss("call")
    /\ VGoto(v, "failed")
    /\ issued' \in {issued, IF verify[v].at = "minting" THEN issued \cup {v} ELSE issued}
    /\ UNCHANGED <<clock, challenge, lapsed, send, rows, raced>>
-----------------------------------------------------------------------------
(* The send-risk gate. *)

\* A client sends a message, with a token it was given or without; the agent's
\* and MCP's tools look at the send limit before the gate.
Submit(s) ==
    /\ At(s, "idle")
    /\ \E k \in Kinds, p \in Payload, b \in Box, v \in Minted \cup {None} :
         Become(s, [send[s] EXCEPT !.at = IF k = "tool" THEN "counting" ELSE "assessing",
                        !.kind = k, !.payload = p, !.box = b, !.token = v])
    /\ UNCHANGED <<clock, stepup, rows, failed, raced>>

\* Where a send goes once the gate let it through; a tool checks the draft.
Passed(s) == IF send[s].kind = "tool" THEN "checking" ELSE "counting"

Assess(s) ==
    /\ At(s, "assessing")
    /\ \E t \in Tiers :
         Become(s, [send[s] EXCEPT !.risk = t,
                        !.at = IF t = 0 THEN Passed(s)
                               ELSE IF send[s].token = None THEN "refused"
                               ELSE "showing"])
    /\ UNCHANGED <<clock, stepup, rows, failed, raced>>

\* verifyConfirmationToken up to its one-shot check: signature and age, the
\* mailbox, the message, the key in KV.
Valid(s) ==
    LET v == send[s].token
    IN  /\ v \in issued \ lapsed
        /\ verify[v].payload = send[s].payload
        /\ verify[v].box = send[s].box

Show(s) ==
    /\ At(s, "showing")
    /\ Goto(s, IF Valid(s) THEN "spending" ELSE "refused")
    /\ UNCHANGED <<clock, stepup, rows, failed, raced>>

\* Mutation of Unspent: KV alone tells whether a token was used.
Issued(s) == send[s].token \in issued

Unspent(s) == send[s].token \notin consumed[send[s].box]

\* consumeJti, one INSERT OR IGNORE; the tier is compared behind it, so a
\* token for too low a tier is spent all the same.
Spend(s) ==
    /\ At(s, "spending")
    /\ IF Unspent(s)
       THEN Become(s, [send[s] EXCEPT !.spent = TRUE,
                           !.at = IF verify[send[s].token].tier < send[s].risk
                                  THEN "refused" ELSE Passed(s)])
       ELSE Goto(s, "refused")
    /\ consumed' = [consumed EXCEPT ![send[s].box] = @ \cup {send[s].token}]
    /\ UNCHANGED <<clock, stepup, sentAt, delivered, failed, raced>>

\* The spent token's answer is lost.
SpendUnanswered(s) ==
    /\ At(s, "spending")
    /\ Unspent(s)
    /\ Miss("call")
    /\ Become(s, [send[s] EXCEPT !.at = "failed", !.spent = TRUE])
    /\ consumed' = [consumed EXCEPT ![send[s].box] = @ \cup {send[s].token}]
    /\ UNCHANGED <<clock, stepup, sentAt, delivered, raced>>
-----------------------------------------------------------------------------
(* Counting, filing and handing on. *)

Day(hour) == hour \div DayHours
Filed(b) == {q \in Send : send[q].box = b /\ sentAt[q] # Unsent}

\* A SENT row's date is written as 2026-07-06T10:00:00Z and compared, as text,
\* with 2026-07-06 09:00:00: on the same day the letter T decides.
Counted(b, since) == {q \in Filed(b) : Day(sentAt[q]) >= Day(since)}

\* Mutation of AtLimit: one send too many.
OverLimit(b) ==
    \/ Cardinality(Counted(b, clock - 1)) > HourLimit
    \/ Cardinality(Counted(b, clock - DayHours)) > DayLimit

AtLimit(b) ==
    \/ Cardinality(Counted(b, clock - 1)) >= HourLimit
    \/ Cardinality(Counted(b, clock - DayHours)) >= DayLimit

\* checkSendRateLimit.
Count(s) ==
    /\ At(s, "counting")
    /\ Goto(s, IF AtLimit(send[s].box) THEN "limited"
               ELSE IF send[s].kind = "tool" THEN "assessing" ELSE "filing")
    /\ raced' = raced \ {s}
    /\ UNCHANGED <<clock, stepup, rows, failed>>

\* The message replied to or forwarded is looked up behind the gate, and may
\* be gone.
NoOriginal(s) ==
    /\ At(s, "counting")
    /\ send[s].kind \in {"reply", "forward"}
    /\ Goto(s, "refused")
    /\ UNCHANGED <<clock, stepup, rows, failed, raced>>

\* A tool hands on only a draft the model verified.
CheckDraft(s) ==
    /\ At(s, "checking")
    /\ \E where \in {"handing", "refused"} : Goto(s, where)
    /\ UNCHANGED <<clock, stepup, rows, failed, raced>>

\* Mutation of FiledNow: the date comes from a clock that is ahead.
FiledAhead(s) ==
    /\ sentAt' = [sentAt EXCEPT ![s] = clock + 1]
    /\ raced' = raced \cup {q \in Send \ {s} : send[q].box = send[s].box}

\* The row is dated by the request; sends already counted did not count it.
FiledNow(s) ==
    /\ sentAt' = [sentAt EXCEPT ![s] = clock]
    /\ raced' = raced \cup {q \in Send \ {s} : send[q].box = send[s].box}

\* storeAttachments and createEmail; a reply then marks its thread as read.
File(s) ==
    /\ At(s, "filing")
    /\ FiledNow(s)
    /\ Goto(s, CASE send[s].kind = "reply" -> "marking"
                 [] send[s].kind = "tool"  -> "done"
                 [] OTHER                  -> "handing")
    /\ UNCHANGED <<clock, stepup, consumed, delivered, failed>>

FileUnanswered(s) ==
    /\ At(s, "filing")
    /\ Miss("call")
    /\ FiledNow(s)
    /\ Goto(s, "failed")
    /\ UNCHANGED <<clock, stepup, consumed, delivered>>

MarkRead(s) ==
    /\ At(s, "marking")
    /\ Goto(s, "handing")
    /\ UNCHANGED <<clock, stepup, rows, failed, raced>>

\* The provider takes the message: behind the answer, or before the row.
Hand(s) ==
    /\ At(s, "handing")
    /\ delivered' = delivered \cup {s}
    /\ Goto(s, IF send[s].kind = "tool" THEN "filing" ELSE "done")
    /\ UNCHANGED <<clock, stepup, consumed, sentAt, failed, raced>>

\* Mutation of HandFails: a tool files the message all the same.
HandFailsQuietly(s) ==
    /\ At(s, "handing")
    /\ Miss("deliver")
    /\ delivered' \in {delivered, delivered \cup {s}}
    /\ Goto(s, IF send[s].kind = "tool" THEN "filing" ELSE "done")
    /\ UNCHANGED <<clock, stepup, consumed, sentAt, raced>>

\* A deferred delivery that fails is only logged; a tool reports it.
HandFails(s) ==
    /\ At(s, "handing")
    /\ Miss("deliver")
    /\ delivered' \in {delivered, delivered \cup {s}}
    /\ Goto(s, IF send[s].kind = "tool" THEN "failed" ELSE "done")
    /\ UNCHANGED <<clock, stepup, consumed, sentAt, raced>>

\* Any other call fails, or the isolate dies.
Fail(s) ==
    /\ send[s].at \in {"assessing", "showing", "spending", "counting", "checking",
                       "filing", "marking", "handing"}
    /\ Miss("call")
    /\ Goto(s, "failed")
    /\ UNCHANGED <<clock, stepup, rows, raced>>
-----------------------------------------------------------------------------
StepUp == \E v \in Verify : Consume(v) \/ Prove(v) \/ Mint(v) \/ VerifyFails(v)

Sending(s) ==
    \/ Submit(s) \/ Assess(s) \/ Show(s) \/ Spend(s) \/ SpendUnanswered(s)
    \/ Count(s) \/ NoOriginal(s) \/ CheckDraft(s) \/ File(s) \/ FileUnanswered(s) \/ MarkRead(s)
    \/ Hand(s) \/ HandFails(s) \/ Fail(s)

Next ==
    \/ Hour \/ ChallengeLapses \/ Reap
    \/ \E v \in Verify : TokenLapses(v)
    \/ \E c \in Ceremony : Options(c)
    \/ StepUp
    \/ \E s \in Send : Sending(s)

Spec == Init /\ [][Next]_vars
-----------------------------------------------------------------------------
(* Types. *)

Challenges == [state : {"none", "live", "lapsed", "gone"}, payload : Payload \cup {None}]
Verifications == [at : {"idle", "proving", "minting", "minted", "refused", "failed"},
                  of : Ceremony \cup {None}, payload : Payload \cup {None},
                  box : Box \cup {None}, tier : 0..2]
Sends == [at : {"idle", "counting", "assessing", "showing", "spending", "checking",
                "filing", "marking", "handing", "done", "limited", "refused", "failed"},
          kind : SendKinds, payload : Payload \cup {None},
          box : Box \cup {None}, token : Verify \cup {None}, risk : 0..2,
          spent : BOOLEAN]

\* Every variable keeps its type.
TypeOK ==
    /\ clock \in 0..MaxHour
    /\ challenge \in [Ceremony -> Challenges]
    /\ verify \in [Verify -> Verifications]
    /\ issued \subseteq Verify /\ lapsed \subseteq Verify
    /\ consumed \in [Box -> SUBSET Verify]
    /\ send \in [Send -> Sends]
    /\ sentAt \in [Send -> 0..MaxHour \cup {Unsent}]
    /\ delivered \subseteq Send
    /\ failed \in 0..MaxFaults
    /\ raced \subseteq Send
-----------------------------------------------------------------------------
(* Safety. *)

Out(s) == sentAt[s] # Unsent \/ s \in delivered
Risky(s) == send[s].risk >= 1

\* A message that needed a step-up went out, or into SENT, only with a token
\* minted for this mailbox, this message and at least this risk, from a
\* challenge issued for this message.
RiskyConfirmed == \A s \in Send : Out(s) /\ Risky(s) =>
    LET v == send[s].token
    IN  /\ v \in Minted
        /\ verify[v].box = send[s].box
        /\ verify[v].payload = send[s].payload
        /\ challenge[verify[v].of].payload = send[s].payload
        /\ verify[v].tier >= send[s].risk

\* One confirmation lets one message out: double submits, retries after a lost
\* answer and overlapping verifications do not get a second one out.
ConfirmedOnce == \A s, q \in Send :
    s # q /\ Out(s) /\ Out(q) /\ Risky(s) /\ Risky(q)
    => verify[send[s].token].of # verify[send[q].token].of

\* A person's mail is in SENT before it is handed on, a tool's mail is handed
\* on before it is in SENT: neither loses what it does first.
RecordedInOrder == \A s \in Send :
    /\ send[s].kind # "tool" /\ s \in delivered => sentAt[s] # Unsent
    /\ send[s].kind = "tool" /\ sentAt[s] # Unsent => s \in delivered

\* Only sends that overlap exceed the hourly limit of their mailbox: one that
\* was counted after all the others were filed does not.
LimitKept ==
    [][\A s \in Send : sentAt'[s] # sentAt[s] /\ s \notin raced =>
        Cardinality({q \in Filed(send[s].box) : sentAt[q] >= clock - 1}) < HourLimit]_vars
-----------------------------------------------------------------------------
(* The abstract specification. *)

\* The verification that took a challenge, if it minted.
MintedFrom(c) == {v \in Minted : verify[v].of = c}
Spenders(c) == {s \in Send : send[s].spent /\ send[s].token \in MintedFrom(c)}

Spender(c) == IF Spenders(c) = {} THEN None ELSE CHOOSE s \in Spenders(c) : TRUE

Stage(c) ==
    IF challenge[c].state = "none" THEN "idle"
    ELSE IF Spenders(c) # {} THEN "spent"
    ELSE IF MintedFrom(c) # {} THEN "confirmed"
    ELSE "asked"

Register == INSTANCE Confirmation WITH
    Ask <- Ceremony,
    Message <- Payload,
    Nobody <- None,
    stage <- [c \in Ceremony |-> Stage(c)],
    about <- [c \in Ceremony |-> challenge[c].payload],
    spender <- [c \in Ceremony |-> Spender(c)]

\* The three stores together implement one confirmation that is given once and
\* spent once.
ImplementsConfirmation == Register!Spec
-----------------------------------------------------------------------------
(* What a comment says and the code does not do. *)

\* workers/durableObject/index.ts:946, "Limits: 20 emails per hour, 100 per
\* day per mailbox": a send is refused only when that many went out.
LimitsPerHour ==
    [][\A s \in Send : At(s, "counting") /\ send'[s].at = "limited" =>
        \/ Cardinality({q \in Filed(send[s].box) : sentAt[q] >= clock - 1}) >= HourLimit
        \/ Cardinality({q \in Filed(send[s].box) : sentAt[q] >= clock - DayHours})
           >= DayLimit]_vars
=============================================================================
