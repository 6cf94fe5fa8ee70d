-------------------------- MODULE StepUpSendProofs --------------------------
(***************************************************************************)
(* For any number of challenges, verifications, sends, messages and        *)
(* mailboxes, any limits and any faults: a message that needs a step-up    *)
(* goes out only with a confirmation given for it, and a confirmation lets *)
(* one message out.                                                        *)
(***************************************************************************)
EXTENDS StepUpSend, Sequences, FiniteSetTheorems, TLAPS

\* A verification that took a challenge holds it alone.
Holding(v) == verify[v].at \in {"proving", "minting", "minted"}

Holder(v) == Holding(v) =>
    /\ verify[v].of \in Ceremony
    /\ challenge[verify[v].of].state = "gone"
    /\ verify[v].at # "proving" => verify[v].payload = challenge[verify[v].of].payload

Alone == \A v, w \in Verify :
    Holding(v) /\ Holding(w) /\ verify[v].of = verify[w].of => v = w

\* Before the gate is through with a send, and behind it.
Early(s) ==
    \/ send[s].at \in {"idle", "assessing", "showing", "spending"}
    \/ send[s].at = "counting" /\ send[s].kind = "tool"

Fresh(s) ==
    \/ send[s].at \in {"idle", "assessing"}
    \/ send[s].at = "counting" /\ send[s].kind = "tool"

Behind(s) ==
    \/ send[s].at \in {"checking", "filing", "marking", "handing"}
    \/ send[s].at = "counting" /\ send[s].kind # "tool"

\* What verifyConfirmationToken found in the token.
Shown(s) ==
    /\ send[s].token \in Minted
    /\ verify[send[s].token].payload = send[s].payload
    /\ verify[send[s].token].box = send[s].box

Cleared(s) == send[s].risk >= 1 =>
    send[s].spent /\ verify[send[s].token].tier >= send[s].risk

Careful(s) ==
    /\ send[s].token \in Minted \cup {None}
    /\ send[s].at # "idle" => send[s].box \in Box
    /\ send[s].at = "showing" => send[s].token # None
    /\ send[s].at = "spending" \/ send[s].spent => Shown(s)
    /\ send[s].spent => send[s].token \in consumed[send[s].box]
    /\ Early(s) => ~Out(s) /\ ~send[s].spent
    /\ Fresh(s) => send[s].risk = 0
    /\ Behind(s) \/ Out(s) => Cleared(s)

SpentOnce == \A s, q \in Send :
    send[s].spent /\ send[q].spent /\ send[s].token = send[q].token => s = q

VerifyInv == (\A v \in Verify : Holder(v)) /\ Alone
SendInv == (\A s \in Send : Careful(s)) /\ SpentOnce
Inv == TypeOK /\ VerifyInv /\ SendInv
-----------------------------------------------------------------------------
LEMMA Initially == Init => Inv
<1> SUFFICES ASSUME Init PROVE Inv
    OBVIOUS
<1>1. TypeOK
    BY SendAssumption DEF Init, TypeOK, Challenges, Verifications, Sends, SendKinds
<1>2. VerifyInv
    BY DEF Init, VerifyInv, Holder, Holding, Alone
<1>3. SendInv
    BY DEF Init, SendInv, Careful, SpentOnce, Shown, Early, Fresh, Behind, Out, Cleared
<1> QED BY <1>1, <1>2, <1>3 DEF Inv
-----------------------------------------------------------------------------
(* Types. *)

LEMMA MissType == ASSUME NEW call, TypeOK, Miss(call) PROVE failed' \in 0..MaxFaults
BY SendAssumption DEF Miss, TypeOK

LEMMA BecomeType ==
    ASSUME TypeOK, NEW s \in Send, NEW r \in Sends, Become(s, r)
    PROVE  send' \in [Send -> Sends]
BY DEF TypeOK, Become

Places == {"idle", "counting", "assessing", "showing", "spending", "checking",
           "filing", "marking", "handing", "done", "limited", "refused", "failed"}

LEMMA GotoType ==
    ASSUME TypeOK, NEW s \in Send, NEW where \in Places, Goto(s, where)
    PROVE  send' \in [Send -> Sends]
<1>1. send[s] \in Sends
    BY DEF TypeOK
<1>2. [send[s] EXCEPT !.at = where] \in Sends
    BY <1>1 DEF Sends, Places
<1> QED BY <1>2, BecomeType DEF Goto

LEMMA VGotoType ==
    ASSUME TypeOK, NEW v \in Verify,
           NEW where \in {"minting", "minted", "refused", "failed"}, VGoto(v, where)
    PROVE  verify' \in [Verify -> Verifications]
BY DEF TypeOK, VGoto, Verifications

LEMMA LapseType == ASSUME TypeOK PROVE Lapse(challenge) \in [Ceremony -> Challenges]
BY DEF TypeOK, Lapse, Challenges

LEMMA StepUpType ==
    ASSUME TypeOK,
           \/ Hour \/ ChallengeLapses \/ Reap
           \/ \E v \in Verify : TokenLapses(v)
           \/ \E c \in Ceremony : Options(c)
           \/ StepUp
    PROVE  TypeOK'
<1>1. CASE Hour
    BY <1>1, LapseType, SendAssumption DEF Hour, TypeOK, Minted, rows
<1>2. CASE ChallengeLapses
    BY <1>2, LapseType, MissType DEF ChallengeLapses, TypeOK, rows
<1>3. CASE Reap
    BY <1>3 DEF Reap, TypeOK, Challenges, rows
<1>4. ASSUME NEW v \in Verify, TokenLapses(v) PROVE TypeOK'
    BY <1>4, MissType DEF TokenLapses, TypeOK, rows
<1>5. ASSUME NEW c \in Ceremony, Options(c) PROVE TypeOK'
    BY <1>5 DEF Options, TypeOK, Challenges, rows
<1>6. ASSUME NEW v \in Verify, Consume(v) PROVE TypeOK'
    <2>1. PICK c \in Ceremony, p \in Payload, b \in Box, t \in Tiers :
            /\ Asks(v, c, p, b, t, IF challenge[c].state = "live" THEN "proving" ELSE "refused")
            /\ challenge' = IF challenge[c].state = "live"
                            THEN [challenge EXCEPT ![c].state = "gone"] ELSE challenge
        BY <1>6 DEF Consume
    <2>2. t \in 0..2
        BY SendAssumption
    <2>3. verify' \in [Verify -> Verifications]
        BY <2>1, <2>2 DEF Asks, TypeOK, Verifications
    <2>4. challenge' \in [Ceremony -> Challenges]
        BY <2>1 DEF TypeOK, Challenges
    <2> QED BY <1>6, <2>3, <2>4 DEF Consume, TypeOK, rows
<1>7. ASSUME NEW v \in Verify, Prove(v) PROVE TypeOK'
    BY <1>7, VGotoType DEF Prove, TypeOK, rows
<1>8. ASSUME NEW v \in Verify, Mint(v) PROVE TypeOK'
    BY <1>8, VGotoType DEF Mint, TypeOK, rows
<1>9. ASSUME NEW v \in Verify, VerifyFails(v) PROVE TypeOK'
    BY <1>9, VGotoType, MissType DEF VerifyFails, TypeOK, rows
<1> QED BY <1>1, <1>2, <1>3, <1>4, <1>5, <1>6, <1>7, <1>8, <1>9 DEF StepUp

LEMMA FiledType ==
    ASSUME TypeOK, NEW s \in Send, FiledNow(s)
    PROVE  sentAt' \in [Send -> 0..MaxHour \cup {Unsent}] /\ raced' \subseteq Send
BY DEF FiledNow, TypeOK

LEMMA SendingType ==
    ASSUME TypeOK, NEW s \in Send, Sending(s),
           At(s, "spending") => send[s].token \in Verify
    PROVE  TypeOK'
<1>h. send[s] \in Sends
    BY DEF TypeOK
<1>1. CASE Submit(s)
    <2>1. PICK k \in Kinds, p \in Payload, b \in Box, v \in Minted \cup {None} :
            Become(s, [send[s] EXCEPT !.at = IF k = "tool" THEN "counting" ELSE "assessing",
                           !.kind = k, !.payload = p, !.box = b, !.token = v])
        BY <1>1 DEF Submit
    <2> DEFINE r == [send[s] EXCEPT !.at = IF k = "tool" THEN "counting" ELSE "assessing",
                           !.kind = k, !.payload = p, !.box = b, !.token = v]
    <2>2. r \in Sends
        BY <1>h, SendAssumption DEF Sends, Minted
    <2> HIDE DEF r
    <2>3. send' \in [Send -> Sends]
        BY <2>1, <2>2, BecomeType DEF r
    <2> QED BY <1>1, <2>3 DEF Submit, TypeOK, stepup, rows
<1>2. CASE Assess(s)
    <2>1. PICK t \in Tiers :
            Become(s, [send[s] EXCEPT !.risk = t,
                           !.at = IF t = 0 THEN Passed(s)
                                  ELSE IF send[s].token = None THEN "refused"
                                  ELSE "showing"])
        BY <1>2 DEF Assess
    <2> DEFINE r == [send[s] EXCEPT !.risk = t,
                           !.at = IF t = 0 THEN Passed(s)
                                  ELSE IF send[s].token = None THEN "refused"
                                  ELSE "showing"]
    <2>2. r \in Sends
        BY <1>h, SendAssumption DEF Sends, Passed
    <2> HIDE DEF r
    <2>3. send' \in [Send -> Sends]
        BY <2>1, <2>2, BecomeType DEF r
    <2> QED BY <1>2, <2>3 DEF Assess, TypeOK, stepup, rows
<1>3. CASE Show(s)
    BY <1>3, GotoType DEF Show, TypeOK, stepup, rows, Places
<1>4. ASSUME Spend(s) \/ SpendUnanswered(s) PROVE TypeOK'
    <2>0. send[s].token \in Verify
        BY <1>4 DEF Spend, SpendUnanswered
    <2>1. send' \in [Send -> Sends]
        <3>1. \A w \in Places : [send[s] EXCEPT !.spent = TRUE, !.at = w] \in Sends
            BY <1>h DEF Sends, Places
        <3>2. \A w \in Places : [send[s] EXCEPT !.at = w, !.spent = TRUE] \in Sends
            BY <1>h DEF Sends, Places
        <3> QED BY <1>4, <3>1, <3>2, BecomeType, GotoType
                DEF Spend, SpendUnanswered, Places, Passed
    <2>2. consumed' \in [Box -> SUBSET Verify]
        BY <1>4, <2>0 DEF Spend, SpendUnanswered, TypeOK
    <2>3. failed' \in 0..MaxFaults
        BY <1>4, MissType DEF Spend, SpendUnanswered, TypeOK
    <2> QED BY <1>4, <2>1, <2>2, <2>3 DEF Spend, SpendUnanswered, TypeOK, stepup
<1>5. CASE Count(s)
    BY <1>5, GotoType DEF Count, TypeOK, stepup, rows, Places
<1>6. CASE NoOriginal(s)
    BY <1>6, GotoType DEF NoOriginal, TypeOK, stepup, rows, Places
<1>7. CASE CheckDraft(s)
    BY <1>7, GotoType DEF CheckDraft, TypeOK, stepup, rows, Places
<1>8. CASE File(s)
    BY <1>8, GotoType, FiledType DEF File, TypeOK, stepup, Places
<1>9. CASE FileUnanswered(s)
    BY <1>9, GotoType, FiledType, MissType DEF FileUnanswered, TypeOK, stepup, Places
<1>10. CASE MarkRead(s)
    BY <1>10, GotoType DEF MarkRead, TypeOK, stepup, rows, Places
<1>11. CASE Hand(s)
    BY <1>11, GotoType DEF Hand, TypeOK, stepup, Places
<1>12. CASE HandFails(s)
    BY <1>12, GotoType, MissType DEF HandFails, TypeOK, stepup, Places
<1>13. CASE Fail(s)
    BY <1>13, GotoType, MissType DEF Fail, TypeOK, stepup, rows, Places
<1> QED BY <1>1, <1>2, <1>3, <1>4, <1>5, <1>6, <1>7, <1>8, <1>9, <1>10, <1>11, <1>12,
           <1>13 DEF Sending
-----------------------------------------------------------------------------
(* A challenge is taken once. *)

LEMMA HoldersKept ==
    ASSUME VerifyInv, verify' = verify,
           \A c \in Ceremony : challenge[c].state = "gone" =>
               challenge'[c].state = "gone" /\ challenge'[c].payload = challenge[c].payload
    PROVE  VerifyInv'
BY DEF VerifyInv, Holder, Holding, Alone

\* A verification that took nothing new moves on.
LEMMA HolderMoves ==
    ASSUME TypeOK, VerifyInv, challenge' = challenge, NEW v \in Verify, Holding(v),
           NEW where \in {"minting", "minted", "refused", "failed"}, VGoto(v, where),
           where \in {"minting", "minted"} =>
               verify[v].payload = challenge[verify[v].of].payload
    PROVE  VerifyInv'
<1>1. \A w \in Verify : w # v => verify'[w] = verify[w]
    BY DEF VGoto, TypeOK
<1>2. /\ verify'[v].at = where
      /\ verify'[v].of = verify[v].of
      /\ verify'[v].payload = verify[v].payload
    BY DEF VGoto, TypeOK, Verifications
<1>3. \A w \in Verify : Holding(w)' => Holding(w) /\ verify'[w].of = verify[w].of
    BY <1>1, <1>2 DEF Holding
<1>4. Holder(v)'
    BY <1>2 DEF VerifyInv, Holder, Holding
<1>5. \A w \in Verify : Holder(w)'
    BY <1>1, <1>4 DEF VerifyInv, Holder, Holding
<1>6. Alone'
    BY <1>3 DEF VerifyInv, Alone
<1> QED BY <1>5, <1>6 DEF VerifyInv

LEMMA StepUpHolds ==
    ASSUME TypeOK, VerifyInv,
           \/ Hour \/ ChallengeLapses \/ Reap
           \/ \E v \in Verify : TokenLapses(v)
           \/ \E c \in Ceremony : Options(c)
           \/ StepUp
    PROVE  VerifyInv'
<1>1. CASE Hour
    BY <1>1, HoldersKept DEF Hour, Lapse, TypeOK
<1>2. CASE ChallengeLapses
    BY <1>2, HoldersKept DEF ChallengeLapses, Lapse, TypeOK
<1>3. CASE Reap
    <2>1. \A c \in Ceremony : challenge[c].state = "gone" => challenge'[c] = challenge[c]
        BY <1>3 DEF Reap
    <2> QED BY <1>3, <2>1, HoldersKept DEF Reap
<1>4. ASSUME NEW v \in Verify, TokenLapses(v) PROVE VerifyInv'
    BY <1>4, HoldersKept DEF TokenLapses
<1>5. ASSUME NEW c \in Ceremony, Options(c) PROVE VerifyInv'
    <2>1. \A d \in Ceremony : challenge[d].state = "gone" => challenge'[d] = challenge[d]
        BY <1>5 DEF Options, TypeOK
    <2> QED BY <1>5, <2>1, HoldersKept DEF Options
<1>6. ASSUME NEW v \in Verify, Consume(v) PROVE VerifyInv'
    <2>1. PICK c \in Ceremony, p \in Payload, b \in Box, t \in Tiers :
            /\ Asks(v, c, p, b, t, IF challenge[c].state = "live" THEN "proving" ELSE "refused")
            /\ challenge' = IF challenge[c].state = "live"
                            THEN [challenge EXCEPT ![c].state = "gone"] ELSE challenge
        BY <1>6 DEF Consume
    <2>2. \A w \in Verify : w # v => verify'[w] = verify[w]
        BY <2>1 DEF Asks, TypeOK
    <2>3. /\ verify'[v].of = c
          /\ verify'[v].at = IF challenge[c].state = "live" THEN "proving" ELSE "refused"
        BY <2>1 DEF Asks, TypeOK
    <2>4. \A d \in Ceremony :
            /\ challenge'[d].payload = challenge[d].payload
            /\ challenge[d].state = "gone" => challenge'[d].state = "gone"
        BY <2>1 DEF TypeOK, Challenges
    <2>5. challenge[c].state = "live" => challenge'[c].state = "gone"
        BY <2>1 DEF TypeOK, Challenges
    <2>6. Holder(v)'
        BY <2>3, <2>5 DEF Holder, Holding
    <2>7. \A w \in Verify : w # v => Holder(w)'
        BY <2>2, <2>4 DEF VerifyInv, Holder, Holding
    <2>8. \A w \in Verify : w # v /\ Holding(w) => challenge[verify[w].of].state = "gone"
        BY DEF VerifyInv, Holder
    <2>9. ASSUME NEW u \in Verify, NEW w \in Verify, Holding(u)', Holding(w)',
                 verify'[u].of = verify'[w].of
          PROVE  u = w
        <3>1. CASE u # v /\ w # v
            BY <2>2, <2>9, <3>1 DEF VerifyInv, Alone, Holding
        <3>2. CASE u = v /\ w # v
            BY <2>2, <2>3, <2>8, <2>9, <3>2 DEF Holding
        <3>3. CASE w = v /\ u # v
            BY <2>2, <2>3, <2>8, <2>9, <3>3 DEF Holding
        <3> QED BY <3>1, <3>2, <3>3
    <2> QED BY <2>6, <2>7, <2>9 DEF VerifyInv, Alone
<1>7. ASSUME NEW v \in Verify, Prove(v) PROVE VerifyInv'
    BY <1>7, HolderMoves DEF Prove, Holding
<1>8. ASSUME NEW v \in Verify, Mint(v) PROVE VerifyInv'
    <2>1. verify[v].payload = challenge[verify[v].of].payload
        BY <1>8 DEF Mint, VerifyInv, Holder, Holding
    <2> QED BY <1>8, <2>1, HolderMoves DEF Mint, Holding
<1>9. ASSUME NEW v \in Verify, VerifyFails(v) PROVE VerifyInv'
    BY <1>9, HolderMoves DEF VerifyFails, Holding
<1> QED BY <1>1, <1>2, <1>3, <1>4, <1>5, <1>6, <1>7, <1>8, <1>9 DEF StepUp
-----------------------------------------------------------------------------
(* What the step-up does leaves the sends and their tokens alone. *)

LEMMA MintedStays ==
    ASSUME TypeOK,
           \/ Hour \/ ChallengeLapses \/ Reap
           \/ \E v \in Verify : TokenLapses(v)
           \/ \E c \in Ceremony : Options(c)
           \/ StepUp
    PROVE  /\ \A v \in Minted : v \in Minted' /\ verify'[v] = verify[v]
           /\ UNCHANGED <<send, rows>>
<1>1. ASSUME NEW v \in Verify, Consume(v) \/ Prove(v) \/ Mint(v) \/ VerifyFails(v)
      PROVE  \A w \in Verify : verify[w].at = "minted" => verify'[w] = verify[w]
    <2>1. v \notin Minted
        BY <1>1 DEF Consume, Prove, Mint, VerifyFails, Minted
    <2>2. \A w \in Verify \ {v} : verify'[w] = verify[w]
        BY <1>1 DEF Consume, Asks, Prove, Mint, VerifyFails, VGoto, TypeOK
    <2> QED BY <2>1, <2>2 DEF Minted
<1>2. StepUp => \A w \in Verify : verify[w].at = "minted" => verify'[w] = verify[w]
    BY <1>1 DEF StepUp
<1>3. ~StepUp => verify' = verify
    BY DEF Hour, ChallengeLapses, Reap, TokenLapses, Options
<1>4. UNCHANGED <<send, rows>>
    BY DEF Hour, ChallengeLapses, Reap, TokenLapses, Options, StepUp, Consume, Prove, Mint,
           VerifyFails
<1> QED BY <1>2, <1>3, <1>4 DEF Minted

LEMMA SendsKept ==
    ASSUME SendInv, UNCHANGED <<send, rows>>,
           \A v \in Minted : v \in Minted' /\ verify'[v] = verify[v]
    PROVE  SendInv'
<1>1. ASSUME NEW s \in Send PROVE Careful(s)'
    <2>1. Careful(s)
        BY DEF SendInv
    <2>2. Shown(s) => Shown(s)'
        BY DEF Shown
    <2>3. (Early(s) <=> Early(s)') /\ (Fresh(s) <=> Fresh(s)') /\ (Behind(s) <=> Behind(s)')
          /\ (Out(s) <=> Out(s)')
        BY DEF Early, Fresh, Behind, Out, rows
    <2>4. Cleared(s) => Cleared(s)'
        BY <2>1 DEF Cleared, Careful, Shown
    <2> QED BY <2>1, <2>2, <2>3, <2>4 DEF Careful, rows
<1>2. SpentOnce'
    BY DEF SendInv, SpentOnce
<1> QED BY <1>1, <1>2 DEF SendInv
-----------------------------------------------------------------------------
(* A send moves on. *)

LEMMA OneSend ==
    ASSUME SendInv, NEW s \in Send, verify' = verify,
           \A q \in Send \ {s} :
               /\ send'[q] = send[q]
               /\ sentAt'[q] = sentAt[q]
               /\ q \in delivered' => q \in delivered,
           \A b \in Box : consumed[b] \subseteq consumed'[b],
           Careful(s)',
           send'[s].spent =>
               \/ send[s].spent /\ send'[s].token = send[s].token
               \/ \A q \in Send \ {s} : send[q].spent => send[q].token # send'[s].token
    PROVE  SendInv'
<1>1. ASSUME NEW q \in Send, q # s PROVE Careful(q)'
    <2>1. Careful(q) /\ send'[q] = send[q] /\ sentAt'[q] = sentAt[q] /\ Minted' = Minted
        BY <1>1 DEF SendInv, Minted
    <2>2. Out(q)' => Out(q)
        BY <1>1, <2>1 DEF Out
    <2>3. (Early(q)' => Early(q)) /\ (Fresh(q)' => Fresh(q)) /\ (Behind(q)' => Behind(q))
        BY <2>1 DEF Early, Fresh, Behind
    <2>4. (Shown(q) => Shown(q)') /\ (Cleared(q) => Cleared(q)')
        BY <2>1 DEF Shown, Cleared
    <2>5. send[q].spent => send[q].at # "idle"
        BY <2>1 DEF Careful, Early
    <2>6. send[q].spent => send[q].token \in consumed'[send[q].box]
        BY <2>1, <2>5 DEF Careful
    <2> QED BY <2>1, <2>2, <2>3, <2>4, <2>6 DEF Careful
<1>2. ASSUME NEW q \in Send, NEW u \in Send, send'[q].spent, send'[u].spent,
             send'[q].token = send'[u].token
      PROVE  q = u
    <2>1. \A w \in Send \ {s} : send'[w].spent => send[w].spent /\ send'[w].token = send[w].token
        OBVIOUS
    <2>2. CASE q # s /\ u # s
        BY <1>2, <2>1, <2>2 DEF SendInv, SpentOnce
    <2>3. CASE q = s /\ u # s
        BY <1>2, <2>1, <2>3 DEF SendInv, SpentOnce
    <2>4. CASE u = s /\ q # s
        BY <1>2, <2>1, <2>4 DEF SendInv, SpentOnce
    <2> QED BY <2>2, <2>3, <2>4
<1>3. \A q \in Send : Careful(q)'
    BY <1>1
<1> QED BY <1>2, <1>3 DEF SendInv, SpentOnce

LEMMA GotoFields ==
    ASSUME TypeOK, NEW s \in Send, NEW where, Goto(s, where)
    PROVE  /\ send'[s].at = where
           /\ send'[s].kind = send[s].kind
           /\ send'[s].payload = send[s].payload
           /\ send'[s].box = send[s].box
           /\ send'[s].token = send[s].token
           /\ send'[s].risk = send[s].risk
           /\ send'[s].spent = send[s].spent
           /\ \A q \in Send \ {s} : send'[q] = send[q]
BY DEF Goto, Become, TypeOK, Sends

\* A send goes to another place, and may go out if the gate is behind it.
LEMMA GotoHolds ==
    ASSUME TypeOK, SendInv, NEW s \in Send, NEW where, Goto(s, where),
           verify' = verify, consumed' = consumed,
           where # "idle", send[s].at # "idle",
           \A q \in Send \ {s} : sentAt'[q] = sentAt[q] /\ (q \in delivered' => q \in delivered),
           where = "showing" => send[s].token # None,
           where = "spending" => Shown(s),
           Fresh(s)' => Fresh(s),
           Early(s)' => Early(s) /\ (Out(s)' => Out(s)),
           Behind(s)' => Behind(s) \/ Fresh(s),
           Out(s)' => Out(s) \/ Behind(s)
    PROVE  SendInv'
<1> DEFINE Same == /\ send'[s].kind = send[s].kind
                   /\ send'[s].payload = send[s].payload
                   /\ send'[s].box = send[s].box
                   /\ send'[s].token = send[s].token
                   /\ send'[s].risk = send[s].risk
                   /\ send'[s].spent = send[s].spent
<1>1. Same /\ send'[s].at = where /\ \A q \in Send \ {s} : send'[q] = send[q]
    BY GotoFields
<1>2. Careful(s)
    BY DEF SendInv
<1>3. Minted' = Minted
    BY DEF Minted
<1>4. Shown(s) => Shown(s)'
    BY <1>1, <1>3 DEF Shown
<1>5. Fresh(s) => Cleared(s)
    BY <1>2 DEF Careful, Cleared
<1>6. Cleared(s) => Cleared(s)'
    BY <1>1 DEF Cleared
<1>7. Behind(s)' \/ Out(s)' => Cleared(s)'
    BY <1>2, <1>5, <1>6 DEF Careful
<1>8. send[s].spent => send[s].token \in consumed'[send[s].box]
    BY <1>2 DEF Careful
<1>9. Early(s)' => ~Out(s)' /\ ~send[s].spent
    BY <1>2 DEF Careful
<1>10. Careful(s)'
    BY <1>1, <1>2, <1>3, <1>4, <1>7, <1>8, <1>9 DEF Careful
<1> QED BY <1>1, <1>10, OneSend

LEMMA SubmitHolds ==
    ASSUME TypeOK, SendInv, NEW s \in Send, Submit(s)
    PROVE  SendInv'
<1>1. PICK k \in Kinds, p \in Payload, b \in Box, v \in Minted \cup {None} :
        Become(s, [send[s] EXCEPT !.at = IF k = "tool" THEN "counting" ELSE "assessing",
                       !.kind = k, !.payload = p, !.box = b, !.token = v])
    BY DEF Submit
<1>2. /\ send'[s].at = IF k = "tool" THEN "counting" ELSE "assessing"
      /\ send'[s].kind = k
      /\ send'[s].box = b
      /\ send'[s].token = v
      /\ send'[s].risk = send[s].risk
      /\ send'[s].spent = send[s].spent
      /\ \A q \in Send \ {s} : send'[q] = send[q]
    BY <1>1 DEF Become, TypeOK, Sends
<1>3. Careful(s) /\ send[s].at = "idle" /\ verify' = verify /\ rows' = rows /\ Minted' = Minted
    BY DEF SendInv, Submit, At, stepup, Minted
<1>4. ~Out(s) /\ ~send[s].spent /\ send[s].risk = 0
    BY <1>3 DEF Careful, Early, Fresh
<1>5. ~Out(s)' /\ ~Behind(s)'
    BY <1>2, <1>3, <1>4 DEF Out, Behind, rows
<1>6. Careful(s)'
    BY <1>2, <1>3, <1>4, <1>5 DEF Careful
<1> QED BY <1>2, <1>3, <1>4, <1>6, OneSend DEF rows

LEMMA AssessHolds ==
    ASSUME TypeOK, SendInv, NEW s \in Send, Assess(s)
    PROVE  SendInv'
<1>1. PICK t \in Tiers :
        Become(s, [send[s] EXCEPT !.risk = t,
                       !.at = IF t = 0 THEN Passed(s)
                              ELSE IF send[s].token = None THEN "refused"
                              ELSE "showing"])
    BY DEF Assess
<1>2. /\ send'[s].at = IF t = 0 THEN Passed(s)
                       ELSE IF send[s].token = None THEN "refused" ELSE "showing"
      /\ send'[s].risk = t
      /\ send'[s].kind = send[s].kind
      /\ send'[s].box = send[s].box
      /\ send'[s].token = send[s].token
      /\ send'[s].spent = send[s].spent
      /\ \A q \in Send \ {s} : send'[q] = send[q]
    BY <1>1 DEF Become, TypeOK, Sends
<1>3. Careful(s) /\ send[s].at = "assessing" /\ verify' = verify /\ rows' = rows
      /\ Minted' = Minted
    BY DEF SendInv, Assess, At, stepup, Minted
<1>4. ~Out(s) /\ ~send[s].spent
    BY <1>3 DEF Careful, Early
<1>5. ~Out(s)'
    BY <1>3, <1>4 DEF Out, rows
<1>6. ~Fresh(s)' /\ (Behind(s)' => send'[s].risk = 0)
      /\ send'[s].at # "spending" /\ (send'[s].at = "showing" => send'[s].token # None)
    BY <1>2 DEF Fresh, Behind, Passed
<1>7. Behind(s)' => Cleared(s)'
    BY <1>6 DEF Cleared
<1>8. Careful(s)'
    BY <1>2, <1>3, <1>4, <1>5, <1>6, <1>7 DEF Careful
<1> QED BY <1>2, <1>3, <1>4, <1>8, OneSend DEF rows

\* The one-shot check: nobody else spent the token in this mailbox, and it is
\* good in no other.
LEMMA SpendHolds ==
    ASSUME TypeOK, SendInv, NEW s \in Send, Spend(s) \/ SpendUnanswered(s)
    PROVE  SendInv'
<1>1. /\ Careful(s) /\ send[s].at = "spending" /\ verify' = verify /\ Minted' = Minted
      /\ sentAt' = sentAt /\ delivered' = delivered
      /\ consumed' = [consumed EXCEPT ![send[s].box] = @ \cup {send[s].token}]
    BY DEF SendInv, Spend, SpendUnanswered, At, stepup, Minted
<1>2. Shown(s) /\ send[s].box \in Box /\ ~Out(s) /\ ~send[s].spent
    BY <1>1 DEF Careful, Early
<1>3. /\ send[s].token \in consumed'[send[s].box]
      /\ \A b \in Box : consumed[b] \subseteq consumed'[b]
    BY <1>1, <1>2 DEF TypeOK
<1>4. PICK where \in {"refused", "failed", "checking", "counting"} :
        \/ /\ Unspent(s)
           /\ Become(s, [send[s] EXCEPT !.spent = TRUE, !.at = where])
           /\ where = "counting" => send[s].kind # "tool"
           /\ where \in {"checking", "counting"} =>
                  ~(verify[send[s].token].tier < send[s].risk)
        \/ ~Unspent(s) /\ where = "refused" /\ Goto(s, where)
    <2>1. CASE Spend(s)
        BY <2>1 DEF Spend, Passed
    <2>2. CASE SpendUnanswered(s)
        <3>1. [send[s] EXCEPT !.at = "failed", !.spent = TRUE]
              = [send[s] EXCEPT !.spent = TRUE, !.at = "failed"]
            BY DEF TypeOK, Sends
        <3> QED BY <2>2, <3>1 DEF SpendUnanswered
    <2> QED BY <2>1, <2>2
<1>5. /\ send'[s].at = where
      /\ Unspent(s) => send'[s].spent
      /\ send'[s].spent => Unspent(s)
      /\ send'[s].kind = send[s].kind
      /\ send'[s].payload = send[s].payload
      /\ send'[s].box = send[s].box
      /\ send'[s].token = send[s].token
      /\ send'[s].risk = send[s].risk
      /\ \A q \in Send \ {s} : send'[q] = send[q]
    <2>1. CASE Unspent(s)
        <3>1. send' = [send EXCEPT ![s] = [send[s] EXCEPT !.spent = TRUE, !.at = where]]
            BY <1>4, <2>1 DEF Become
        <3>2. /\ send'[s].at = where
              /\ send'[s].spent = TRUE
              /\ send'[s].kind = send[s].kind
              /\ send'[s].payload = send[s].payload
              /\ send'[s].box = send[s].box
              /\ send'[s].token = send[s].token
              /\ send'[s].risk = send[s].risk
              /\ \A q \in Send \ {s} : send'[q] = send[q]
            BY <3>1 DEF TypeOK, Sends
        <3> QED BY <2>1, <3>2, Zenon
    <2>2. CASE ~Unspent(s)
        <3>1. Goto(s, where)
            BY <1>4, <2>2
        <3>2. ~send'[s].spent
            BY <1>2, <3>1, GotoFields, Zenon
        <3>3. /\ send'[s].at = where
              /\ send'[s].kind = send[s].kind
              /\ send'[s].payload = send[s].payload
              /\ send'[s].box = send[s].box
              /\ send'[s].token = send[s].token
              /\ send'[s].risk = send[s].risk
              /\ \A q \in Send \ {s} : send'[q] = send[q]
            BY <3>1, GotoFields
        <3> QED BY <2>2, <3>2, <3>3, Zenon
    <2> QED BY <2>1, <2>2
<1>6. Shown(s)'
    BY <1>1, <1>2, <1>5 DEF Shown
<1>7. ~Out(s)' /\ ~Early(s)' /\ ~Fresh(s)'
    BY <1>1, <1>2, <1>4, <1>5 DEF Out, Early, Fresh
<1>8. Behind(s)' => Cleared(s)'
    <2>1. Behind(s)' => where \in {"checking", "counting"} /\ Unspent(s)
        BY <1>4, <1>5 DEF Behind
    <2>2. verify[send[s].token].tier \in Int /\ send[s].risk \in Int
        BY <1>2 DEF Shown, Minted, TypeOK, Verifications, Sends
    <2> QED BY <1>1, <1>4, <1>5, <2>1, <2>2 DEF Cleared
<1>9. Careful(s)'
    BY <1>1, <1>2, <1>3, <1>4, <1>5, <1>6, <1>7, <1>8 DEF Careful
<1>10. ASSUME NEW q \in Send \ {s}, send[q].spent, send[q].token = send[s].token
       PROVE  ~Unspent(s)
    <2>1. Careful(q)
        BY DEF SendInv
    <2>2. Shown(q) /\ send[q].token \in consumed[send[q].box]
        BY <1>10, <2>1 DEF Careful
    <2>3. send[q].box = send[s].box
        BY <1>2, <1>10, <2>2 DEF Shown
    <2> QED BY <1>10, <2>2, <2>3 DEF Unspent
<1>11. \A q \in Send \ {s} : sentAt'[q] = sentAt[q] /\ (q \in delivered' => q \in delivered)
    BY <1>1
<1> QED BY <1>1, <1>3, <1>5, <1>9, <1>10, <1>11, OneSend

LEMMA SendingHolds ==
    ASSUME TypeOK, SendInv, NEW s \in Send, Sending(s)
    PROVE  SendInv'
<1>h. Careful(s) /\ (Early(s) => ~Out(s) /\ ~send[s].spent)
    BY DEF SendInv, Careful
<1>k. \A where : Goto(s, where) => send'[s].at = where /\ send'[s].kind = send[s].kind
    BY GotoFields
<1> DEFINE Still == verify' = verify /\ rows' = rows
<1>g. ASSUME NEW where \in {"refused", "failed", "limited", "done", "filing", "handing", "marking",
                            "assessing", "spending"},
             Goto(s, where), Still, send[s].at # "idle",
             where = "spending" => Shown(s) /\ Early(s),
             where = "assessing" => Fresh(s),
             where \in {"filing", "handing", "marking"} => Behind(s)
      PROVE  SendInv'
    <2>1. Out(s)' <=> Out(s)
        BY <1>g DEF Out, rows
    <2>2. /\ Fresh(s)' => Fresh(s)
          /\ Early(s)' => Early(s)
          /\ Behind(s)' => Behind(s)
        BY <1>g, <1>k DEF Fresh, Early, Behind
    <2> QED BY <1>g, <2>1, <2>2, GotoHolds DEF rows
<1>f. ASSUME NEW where \in {"done", "marking", "handing", "filing", "failed"}, Goto(s, where),
             verify' = verify, consumed' = consumed, send[s].at \in {"filing", "handing"},
             \A q \in Send \ {s} :
                 sentAt'[q] = sentAt[q] /\ (q \in delivered' => q \in delivered)
      PROVE  SendInv'
    <2>1. Behind(s) /\ ~Fresh(s)' /\ ~Early(s)'
        BY <1>f, <1>k DEF Behind, Fresh, Early
    <2> QED BY <1>f, <2>1, GotoHolds
<1>1. CASE Submit(s)
    BY <1>1, SubmitHolds
<1>2. CASE Assess(s)
    BY <1>2, AssessHolds
<1>3. CASE Show(s)
    <2>1. send[s].at = "showing" /\ Still /\ send[s].token \in Minted
        BY <1>3, <1>h DEF Show, At, stepup, Careful
    <2>2. Valid(s) => Shown(s)
        BY <2>1 DEF Valid, Shown
    <2>3. Early(s)
        BY <2>1 DEF Early
    <2> QED BY <1>3, <1>g, <2>1, <2>2, <2>3 DEF Show
<1>4. CASE Spend(s) \/ SpendUnanswered(s)
    BY <1>4, SpendHolds
<1>5. CASE Count(s)
    <2>1. send[s].at = "counting" /\ Still
        BY <1>5 DEF Count, At, stepup
    <2>2. IF send[s].kind = "tool" THEN Fresh(s) ELSE Behind(s)
        BY <2>1 DEF Fresh, Behind
    <2> QED BY <1>5, <1>g, <2>1, <2>2 DEF Count
<1>6. CASE NoOriginal(s)
    BY <1>6, <1>g DEF NoOriginal, At, stepup
<1>7. CASE CheckDraft(s)
    BY <1>7, <1>g DEF CheckDraft, At, stepup, Behind
<1>8. CASE File(s) \/ FileUnanswered(s)
    <2>1. \A q \in Send \ {s} : sentAt'[q] = sentAt[q] /\ (q \in delivered' => q \in delivered)
        BY <1>8 DEF File, FileUnanswered, FiledNow, TypeOK
    <2> QED BY <1>8, <1>f, <2>1 DEF File, FileUnanswered, At, stepup
<1>9. CASE MarkRead(s)
    BY <1>9, <1>g DEF MarkRead, At, stepup, Behind
<1>10. CASE Hand(s) \/ HandFails(s)
    <2>1. \A q \in Send \ {s} : sentAt'[q] = sentAt[q] /\ (q \in delivered' => q \in delivered)
        BY <1>10 DEF Hand, HandFails
    <2> QED BY <1>10, <1>f, <2>1 DEF Hand, HandFails, At, stepup
<1>11. CASE Fail(s)
    BY <1>11, <1>g DEF Fail, stepup
<1> QED BY <1>1, <1>2, <1>3, <1>4, <1>5, <1>6, <1>7, <1>8, <1>9, <1>10, <1>11 DEF Sending
-----------------------------------------------------------------------------
LEMMA Stepwise == Inv /\ [Next]_vars => Inv'
<1> SUFFICES ASSUME Inv, [Next]_vars PROVE Inv'
    OBVIOUS
<1>1. ASSUME NEW s \in Send, Sending(s) PROVE Inv'
    <2>1. At(s, "spending") => send[s].token \in Verify
        BY DEF Inv, SendInv, Careful, Shown, Minted, At
    <2>2. challenge' = challenge /\ verify' = verify
        BY <1>1 DEF Sending, Submit, Assess, Show, Spend, SpendUnanswered, Count, NoOriginal,
                    CheckDraft, File, FileUnanswered, MarkRead, Hand, HandFails, Fail, stepup
    <2>3. VerifyInv'
        BY <2>2, HoldersKept DEF Inv
    <2> QED BY <1>1, <2>1, <2>3, SendingType, SendingHolds DEF Inv
<1>2. CASE \/ Hour \/ ChallengeLapses \/ Reap
           \/ \E v \in Verify : TokenLapses(v)
           \/ \E c \in Ceremony : Options(c)
           \/ StepUp
    BY <1>2, StepUpType, StepUpHolds, MintedStays, SendsKept DEF Inv
<1>3. CASE UNCHANGED vars
    BY <1>3 DEF vars, stepup, rows, Inv, TypeOK, VerifyInv, Holder, Holding, Alone, SendInv,
                Careful, SpentOnce, Shown, Early, Fresh, Behind, Out, Cleared, Minted
<1> QED BY <1>1, <1>2, <1>3 DEF Next

THEOREM Confirmed == Spec => []Inv
BY Initially, Stepwise, PTL DEF Spec

\* Every variable keeps its type.
THEOREM TypeCorrect == Spec => []TypeOK
<1>1. Inv => TypeOK
    BY DEF Inv
<1> QED BY <1>1, Confirmed, PTL

\* enforceSendRiskConfirmation lets a message of tier 1 or 2 pass only with a
\* token minted for this mailbox, message and tier, from a challenge issued for
\* this message, whatever the requests, their order and their failures.
THEOREM OnlyConfirmed == Spec => []RiskyConfirmed
<1>1. Inv => RiskyConfirmed
    <2> SUFFICES ASSUME Inv, NEW s \in Send, Out(s), Risky(s)
                 PROVE  LET v == send[s].token
                        IN  /\ v \in Minted
                            /\ verify[v].box = send[s].box
                            /\ verify[v].payload = send[s].payload
                            /\ challenge[verify[v].of].payload = send[s].payload
                            /\ verify[v].tier >= send[s].risk
        BY DEF RiskyConfirmed
    <2>1. send[s].spent /\ verify[send[s].token].tier >= send[s].risk /\ Shown(s)
        BY DEF Inv, SendInv, Careful, Cleared, Risky
    <2>2. send[s].token \in Verify /\ verify[send[s].token].at = "minted"
        BY <2>1 DEF Shown, Minted
    <2>3. challenge[verify[send[s].token].of].payload = verify[send[s].token].payload
        BY <2>2 DEF Inv, VerifyInv, Holder, Holding
    <2> QED BY <2>1, <2>3 DEF Shown
<1> QED BY <1>1, Confirmed, PTL

\* However often a send is submitted and a challenge verified, at most one
\* message goes out for each challenge: consumeChallenge mints at most one
\* token from it and consumeJti spends each token once.
THEOREM SingleUse == Spec => []ConfirmedOnce
<1>1. Inv => ConfirmedOnce
    <2> SUFFICES ASSUME Inv, NEW s \in Send, NEW q \in Send, s # q,
                        Out(s), Out(q), Risky(s), Risky(q),
                        verify[send[s].token].of = verify[send[q].token].of
                 PROVE  FALSE
        BY DEF ConfirmedOnce
    <2>1. \A u \in {s, q} : send[u].spent /\ send[u].token \in Verify
                            /\ verify[send[u].token].at = "minted"
        BY DEF Inv, SendInv, Careful, Cleared, Risky, Shown, Minted
    <2>2. send[s].token = send[q].token
        BY <2>1 DEF Inv, VerifyInv, Alone, Holding
    <2> QED BY <2>1, <2>2 DEF Inv, SendInv, SpentOnce
<1> QED BY <1>1, Confirmed, PTL
-----------------------------------------------------------------------------
(* The stores implement one confirmation given once and spent once. *)

LEMMA OneMinted ==
    ASSUME Inv, NEW c \in Ceremony, NEW v \in MintedFrom(c)
    PROVE  MintedFrom(c) = {v} /\ challenge[c].state = "gone"
BY DEF MintedFrom, Minted, Inv, VerifyInv, Holder, Holding, Alone

LEMMA SpenderIn ==
    ASSUME NEW c, Spenders(c) # {}
    PROVE  Spender(c) \in Spenders(c)
<1>1. PICK s : s \in Spenders(c)
    OBVIOUS
<1>2. (CHOOSE q \in Spenders(c) : TRUE) \in Spenders(c)
    BY <1>1, Zenon
<1> QED BY <1>2 DEF Spender

LEMMA SameSpender ==
    ASSUME NEW c, Spenders(c)' = Spenders(c)
    PROVE  Spender(c)' = Spender(c)
BY DEF Spender

LEMMA SameRegister ==
    ASSUME \A c \in Ceremony :
               /\ Stage(c)' = Stage(c)
               /\ Spender(c)' = Spender(c)
               /\ challenge'[c].payload = challenge[c].payload
    PROVE  UNCHANGED Register!vars
BY DEF Register!vars

LEMMA SameTokens ==
    ASSUME Minted' = Minted,
           \A v \in Minted : verify'[v].of = verify[v].of,
           \A q \in Send : /\ send'[q].spent => send[q].spent
                           /\ send[q].spent => send'[q].spent /\ send'[q].token = send[q].token
    PROVE  \A c \in Ceremony : MintedFrom(c)' = MintedFrom(c) /\ Spenders(c)' = Spenders(c)
<1>1. \A c \in Ceremony : MintedFrom(c)' = MintedFrom(c)
    BY DEF MintedFrom
<1>2. \A c \in Ceremony : Spenders(c)' = Spenders(c)
    BY <1>1 DEF Spenders
<1> QED BY <1>1, <1>2

\* A step that mints, asks and spends nothing.
LEMMA Stutters ==
    ASSUME Minted' = Minted,
           \A v \in Minted : verify'[v].of = verify[v].of,
           \A q \in Send : /\ send'[q].spent => send[q].spent
                           /\ send[q].spent => send'[q].spent /\ send'[q].token = send[q].token,
           \A c \in Ceremony :
               /\ challenge'[c].state = "none" <=> challenge[c].state = "none"
               /\ challenge'[c].payload = challenge[c].payload
    PROVE  UNCHANGED Register!vars
<1>1. ASSUME NEW c \in Ceremony
      PROVE  Stage(c)' = Stage(c) /\ Spender(c)' = Spender(c)
    <2>1. MintedFrom(c)' = MintedFrom(c) /\ Spenders(c)' = Spenders(c)
        BY SameTokens
    <2> QED BY <2>1 DEF Stage, Spender
<1> QED BY <1>1, SameRegister

LEMMA OptionsPuts ==
    ASSUME Inv, NEW c \in Ceremony, Options(c)
    PROVE  \E p \in Payload : Register!Put(c, p)
<1>1. PICK p \in Payload :
        challenge' = [challenge EXCEPT ![c] = [state |-> "live", payload |-> p]]
    BY DEF Options
<1>2. /\ \A d \in Ceremony \ {c} : challenge'[d] = challenge[d]
      /\ challenge'[c].state = "live" /\ challenge'[c].payload = p
      /\ challenge[c].state = "none"
    BY <1>1 DEF Options, Inv, TypeOK
<1>3. \A d \in Ceremony : MintedFrom(d)' = MintedFrom(d) /\ Spenders(d)' = Spenders(d)
    BY DEF Options, MintedFrom, Minted, Spenders
<1>4. MintedFrom(c) = {}
    BY <1>2, OneMinted
<1>5. Spenders(c) = {}
    BY <1>4 DEF Spenders
<1>6. Stage(c) = "idle" /\ Stage(c)' = "asked"
    BY <1>2, <1>3, <1>4, <1>5 DEF Stage
<1>7. \A d \in Ceremony \ {c} : Stage(d)' = Stage(d)
    BY <1>2, <1>3 DEF Stage
<1>8. \A d \in Ceremony : Spender(d)' = Spender(d)
    BY <1>3, SameSpender
<1> QED BY <1>2, <1>6, <1>7, <1>8 DEF Register!Put

LEMMA MintConfirms ==
    ASSUME Inv, NEW v \in Verify, Mint(v)
    PROVE  Register!Confirm(verify[v].of)
<1>c. PICK c \in Ceremony : c = verify[v].of
    BY DEF Mint, Inv, VerifyInv, Holder, Holding
<1>1. /\ challenge[c].state = "gone" /\ challenge' = challenge /\ send' = send
      /\ v \notin Minted
    BY <1>c DEF Mint, Inv, VerifyInv, Holder, Holding, Minted, rows
<1>2. /\ \A w \in Verify : verify'[w].of = verify[w].of
      /\ Minted' = Minted \cup {v}
    BY DEF Mint, VGoto, Inv, TypeOK, Verifications, Minted
<1>3. MintedFrom(c) = {}
    <2> SUFFICES ASSUME NEW w \in Verify, verify[w].at = "minted", verify[w].of = c PROVE FALSE
        BY DEF MintedFrom, Minted
    <2>1. verify[v].at = "minting" /\ Holding(v) /\ Holding(w)
        BY DEF Mint, Holding
    <2>2. v = w
        BY <1>c, <2>1 DEF Inv, VerifyInv, Alone
    <2> QED BY <2>1, <2>2
<1>4. \A d \in Ceremony \ {c} : MintedFrom(d)' = MintedFrom(d)
    <2> SUFFICES ASSUME NEW d \in Ceremony \ {c} PROVE MintedFrom(d)' = MintedFrom(d)
        OBVIOUS
    <2>1. verify'[v].of # d
        BY <1>c, <1>2
    <2> QED BY <1>2, <2>1 DEF MintedFrom, Minted
<1>5. MintedFrom(c)' = {v}
    <2>1. \A w \in Minted : verify[w].of # c
        BY <1>3 DEF MintedFrom
    <2> QED BY <1>c, <1>2, <2>1 DEF MintedFrom, Minted
<1>6. \A q \in Send : send[q].spent => send[q].token \in Minted
    BY DEF Inv, SendInv, Careful, Shown
<1>7. \A d \in Ceremony : Spenders(d)' = Spenders(d)
    <2>1. Spenders(c)' = {} /\ Spenders(c) = {}
        BY <1>1, <1>3, <1>5, <1>6 DEF Spenders
    <2>2. \A d \in Ceremony \ {c} : Spenders(d)' = Spenders(d)
        BY <1>1, <1>4 DEF Spenders
    <2> QED BY <2>1, <2>2
<1>8. Stage(c) = "asked" /\ Stage(c)' = "confirmed"
    <2>1. Spenders(c) = {}
        BY <1>3 DEF Spenders
    <2> QED BY <1>1, <1>3, <1>5, <1>7, <2>1 DEF Stage
<1>9. \A d \in Ceremony \ {c} : Stage(d)' = Stage(d)
    BY <1>1, <1>4, <1>7 DEF Stage
<1>10. \A d \in Ceremony : Spender(d)' = Spender(d)
    BY <1>7, SameSpender
<1>11. Register!Confirm(c)
    BY <1>1, <1>8, <1>9, <1>10 DEF Register!Confirm
<1> QED BY <1>c, <1>11

LEMMA SpendSpends ==
    ASSUME Inv, NEW s \in Send, Spend(s) \/ SpendUnanswered(s), Unspent(s)
    PROVE  Register!Spend(verify[send[s].token].of, s)
<1>c. PICK v \in Verify, c \in Ceremony : v = send[s].token /\ c = verify[v].of
    BY DEF Spend, SpendUnanswered, At, Inv, VerifyInv, Holder, Holding, SendInv, Careful, Shown,
           Minted
<1>1. /\ send[s].at = "spending" /\ challenge' = challenge /\ verify' = verify
      /\ ~send[s].spent /\ Shown(s)
    BY DEF Spend, SpendUnanswered, At, stepup, Inv, SendInv, Careful, Early
<1>2. v \in Minted /\ challenge[c].state = "gone"
    BY <1>c, <1>1 DEF Shown, Minted, Inv, VerifyInv, Holder, Holding
<1>3. /\ send'[s].spent = TRUE /\ send'[s].token = v
      /\ \A q \in Send \ {s} : send'[q] = send[q]
    <2>1. \E where \in Places :
            \/ send' = [send EXCEPT ![s] = [send[s] EXCEPT !.spent = TRUE, !.at = where]]
            \/ send' = [send EXCEPT ![s] = [send[s] EXCEPT !.at = where, !.spent = TRUE]]
        BY DEF Spend, SpendUnanswered, Become, Passed, Places
    <2>2. PICK where \in Places :
            \/ send' = [send EXCEPT ![s] = [send[s] EXCEPT !.spent = TRUE, !.at = where]]
            \/ send' = [send EXCEPT ![s] = [send[s] EXCEPT !.at = where, !.spent = TRUE]]
        BY <2>1
    <2>3. send[s] \in Sends /\ send \in [Send -> Sends]
        BY DEF Inv, TypeOK
    <2>4. CASE send' = [send EXCEPT ![s] = [send[s] EXCEPT !.spent = TRUE, !.at = where]]
        BY <1>c, <2>3, <2>4 DEF Sends
    <2>5. CASE send' = [send EXCEPT ![s] = [send[s] EXCEPT !.at = where, !.spent = TRUE]]
        BY <1>c, <2>3, <2>5 DEF Sends
    <2> QED BY <2>2, <2>4, <2>5
<1>4. \A q \in Send \ {s} : send[q].spent => send[q].token # v
    <2> SUFFICES ASSUME NEW q \in Send \ {s}, send[q].spent, send[q].token = v PROVE FALSE
        OBVIOUS
    <2>1. Shown(q) /\ send[q].token \in consumed[send[q].box]
        BY DEF Inv, SendInv, Careful
    <2>2. send[q].box = send[s].box
        BY <1>c, <1>1, <2>1 DEF Shown
    <2> QED BY <1>c, <2>1, <2>2 DEF Unspent
<1>5. MintedFrom(c) = {v}
    <2>1. v \in MintedFrom(c)
        BY <1>c, <1>2 DEF MintedFrom
    <2> QED BY <1>2, <2>1, OneMinted
<1>6. \A d \in Ceremony : MintedFrom(d)' = MintedFrom(d)
    BY <1>1 DEF MintedFrom, Minted
<1>7. \A d \in Ceremony \ {c} : v \notin MintedFrom(d)
    BY <1>c DEF MintedFrom
<1>8. Spenders(c) = {} /\ Spenders(c)' = {s}
    <2>1. Spenders(c) = {}
        BY <1>1, <1>4, <1>5 DEF Spenders
    <2>2. Spenders(c)' = {s}
        BY <1>3, <1>4, <1>5, <1>6 DEF Spenders
    <2> QED BY <2>1, <2>2
<1>9. \A d \in Ceremony \ {c} : Spenders(d)' = Spenders(d)
    BY <1>1, <1>3, <1>6, <1>7 DEF Spenders
<1>10. Stage(c) = "confirmed" /\ Stage(c)' = "spent"
    BY <1>1, <1>2, <1>5, <1>6, <1>8 DEF Stage
<1>11. \A d \in Ceremony \ {c} : Stage(d)' = Stage(d)
    BY <1>1, <1>6, <1>9 DEF Stage
<1>12. Spender(c)' = s
    <2>1. (CHOOSE q \in {s} : TRUE) = s
        OBVIOUS
    <2> QED BY <1>8, <2>1 DEF Spender
<1>13. \A d \in Ceremony \ {c} : Spender(d)' = Spender(d)
    BY <1>9, SameSpender
<1>14. \A d \in Ceremony : Spender(d) # s
    <2> SUFFICES ASSUME NEW d \in Ceremony, Spender(d) = s PROVE FALSE
        OBVIOUS
    <2>1. CASE Spenders(d) = {}
        BY <2>1, SendAssumption DEF Spender
    <2>2. CASE Spenders(d) # {}
        BY <1>1, <2>2, SpenderIn DEF Spenders
    <2> QED BY <2>1, <2>2
<1>15. Register!Spend(c, s)
    BY <1>1, <1>2, <1>10, <1>11, <1>12, <1>13, <1>14 DEF Register!Spend
<1> QED BY <1>c, <1>15

LEMMA StepUpMaps ==
    ASSUME Inv,
           \/ Hour \/ ChallengeLapses \/ Reap
           \/ \E v \in Verify : TokenLapses(v)
           \/ \E c \in Ceremony : Options(c)
           \/ StepUp
    PROVE  [Register!Next]_(Register!vars)
<1> DEFINE Asked == \A c \in Ceremony :
               /\ challenge'[c].state = "none" <=> challenge[c].state = "none"
               /\ challenge'[c].payload = challenge[c].payload
<1>s. ASSUME verify' = verify, send' = send, Asked PROVE UNCHANGED Register!vars
    BY <1>s, Stutters DEF Minted
<1>1. CASE Hour
    BY <1>1, <1>s DEF Hour, Lapse, Inv, TypeOK, Challenges
<1>2. CASE ChallengeLapses
    BY <1>2, <1>s DEF ChallengeLapses, Lapse, Inv, TypeOK, Challenges
<1>3. CASE Reap
    BY <1>3, <1>s DEF Reap, Inv, TypeOK, Challenges
<1>4. ASSUME NEW v \in Verify, TokenLapses(v) PROVE UNCHANGED Register!vars
    BY <1>4, <1>s DEF TokenLapses
<1>5. ASSUME NEW c \in Ceremony, Options(c) PROVE Register!Next
    BY <1>5, OptionsPuts DEF Register!Next
<1>6. ASSUME NEW v \in Verify, Consume(v) \/ Prove(v) \/ VerifyFails(v)
      PROVE  UNCHANGED Register!vars
    <2>1. send' = send /\ verify[v].at # "minted" /\ \A w \in Verify \ {v} : verify'[w] = verify[w]
        BY <1>6 DEF Consume, Asks, Prove, VerifyFails, VGoto, Inv, TypeOK
    <2>2. verify'[v].at # "minted"
        BY <1>6 DEF Consume, Asks, Prove, VerifyFails, VGoto, Inv, TypeOK, Verifications
    <2>3. Minted' = Minted /\ \A w \in Minted : verify'[w].of = verify[w].of
        BY <2>1, <2>2 DEF Minted
    <2>4. Asked
        BY <1>6 DEF Consume, Prove, VerifyFails, Inv, TypeOK, Challenges
    <2> QED BY <2>1, <2>3, <2>4, Stutters
<1>7. ASSUME NEW v \in Verify, Mint(v) PROVE Register!Next
    <2>1. verify[v].of \in Ceremony
        BY <1>7 DEF Mint, Inv, VerifyInv, Holder, Holding
    <2> QED BY <1>7, <2>1, MintConfirms DEF Register!Next
<1> QED BY <1>1, <1>2, <1>3, <1>4, <1>5, <1>6, <1>7 DEF StepUp

LEMMA SendingMaps ==
    ASSUME Inv, NEW s \in Send, Sending(s)
    PROVE  [Register!Next]_(Register!vars)
<1>1. verify' = verify /\ challenge' = challenge
    BY DEF Sending, Submit, Assess, Show, Spend, SpendUnanswered, Count, NoOriginal, CheckDraft,
           File, FileUnanswered, MarkRead, Hand, HandFails, Fail, stepup
<1>2. Careful(s) /\ TypeOK
    BY DEF Inv, SendInv
<1>q. ASSUME \A q \in Send \ {s} : send'[q] = send[q],
             send'[s].spent => send[s].spent,
             send[s].spent => send'[s].spent /\ send'[s].token = send[s].token
      PROVE  UNCHANGED Register!vars
    BY <1>q, <1>1, Stutters DEF Minted
<1>g. ASSUME NEW where, Goto(s, where) PROVE UNCHANGED Register!vars
    BY <1>g, <1>q, <1>2, GotoFields
<1>3. CASE Submit(s)
    <2>1. send[s].at = "idle" /\ ~send[s].spent
        BY <1>3, <1>2 DEF Submit, At, Careful, Early
    <2>2. (\A q \in Send \ {s} : send'[q] = send[q]) /\ (send'[s].spent => send[s].spent)
        BY <1>3 DEF Submit, Become, Inv, TypeOK, Sends
    <2> QED BY <1>q, <2>1, <2>2
<1>4. CASE Assess(s)
    <2>1. /\ \A q \in Send \ {s} : send'[q] = send[q]
          /\ send'[s].spent = send[s].spent
          /\ send'[s].token = send[s].token
        BY <1>4 DEF Assess, Become, Inv, TypeOK, Sends
    <2> QED BY <1>q, <2>1
<1>5. CASE (Spend(s) \/ SpendUnanswered(s)) /\ Unspent(s)
    <2>1. verify[send[s].token].of \in Ceremony
        BY <1>5, <1>2 DEF Spend, SpendUnanswered, At, Careful, Shown, Minted, Inv, VerifyInv,
                          Holder, Holding
    <2> QED BY <1>5, <2>1, SpendSpends DEF Register!Next
<1>6. CASE Spend(s) /\ ~Unspent(s)
    BY <1>6, <1>g DEF Spend
<1>7. CASE Show(s) \/ Count(s) \/ NoOriginal(s) \/ CheckDraft(s) \/ File(s) \/ FileUnanswered(s)
           \/ MarkRead(s) \/ Hand(s) \/ HandFails(s) \/ Fail(s)
    BY <1>7, <1>g DEF Show, Count, NoOriginal, CheckDraft, File, FileUnanswered, MarkRead, Hand,
                      HandFails, Fail
<1>8. SpendUnanswered(s) => Unspent(s)
    BY DEF SpendUnanswered
<1> QED BY <1>3, <1>4, <1>5, <1>6, <1>7, <1>8 DEF Sending

\* The challenge table, the tokens and the mailboxes' spent tokens together
\* are a register in which each question is asked, confirmed and spent at most
\* once, in this order, and each send spends at most one.
THEOREM Implements == Spec => ImplementsConfirmation
<1>1. Init => Register!Init
    BY DEF Init, Register!Init, Stage, Spender, Spenders, MintedFrom, Minted
<1>2. Inv /\ [Next]_vars => [Register!Next]_(Register!vars)
    <2> SUFFICES ASSUME Inv, [Next]_vars PROVE [Register!Next]_(Register!vars)
        OBVIOUS
    <2>1. CASE \/ Hour \/ ChallengeLapses \/ Reap
               \/ \E v \in Verify : TokenLapses(v)
               \/ \E c \in Ceremony : Options(c)
               \/ StepUp
        BY <2>1, StepUpMaps
    <2>2. CASE \E s \in Send : Sending(s)
        BY <2>2, SendingMaps
    <2>3. CASE UNCHANGED vars
        BY <2>3, Stutters DEF vars, stepup, Minted
    <2> QED BY <2>1, <2>2, <2>3 DEF Next
<1> QED BY <1>1, <1>2, Confirmed, PTL DEF Spec, ImplementsConfirmation, Register!Spec
-----------------------------------------------------------------------------
(* What is on record, and how many: the second inductive invariant. *)

\* What a send has done when it reaches a place.
Ordered(s) ==
    /\ send[s].at = "checking" => send[s].kind = "tool"
    /\ send[s].at = "marking" => send[s].kind # "tool"
    /\ send[s].kind # "tool" /\ (s \in delivered \/ send[s].at \in {"marking", "handing"})
       => sentAt[s] # Unsent
    /\ send[s].kind = "tool" /\ (sentAt[s] # Unsent \/ send[s].at = "filing")
       => s \in delivered

\* A send that was counted and has no row yet: until another send of its
\* mailbox files a row, the count it passed stands, and time only lowers it.
Due(s) ==
    \/ send[s].at = "filing"
    \/ send[s].kind = "tool"
       /\ send[s].at \in {"assessing", "showing", "spending", "checking", "handing"}
Recent(b) == {q \in Filed(b) : sentAt[q] >= clock - 1}
Within(s) == Due(s) /\ s \notin raced => Cardinality(Recent(send[s].box)) < HourLimit

\* However many sends there are, finitely many have a row.
FewRows == IsFiniteSet({q \in Send : sentAt[q] # Unsent})

CountInv == FewRows /\ \A s \in Send : Ordered(s) /\ Within(s)

LEMMA DayMonotone ==
    ASSUME NEW x \in Int, NEW y \in Int, x >= y
    PROVE  Day(x) >= Day(y)
BY SendAssumption DEF Day

LEMMA RecentFinite ==
    ASSUME FewRows, NEW b
    PROVE  IsFiniteSet(Recent(b)) /\ Cardinality(Recent(b)) \in Nat
<1>1. Recent(b) \in SUBSET {q \in Send : sentAt[q] # Unsent}
    BY DEF Recent, Filed
<1>2. IsFiniteSet(Recent(b))
    BY <1>1, FS_Subset DEF FewRows
<1> QED BY <1>2, FS_CardinalityType

\* The count compares dates by day, which counts no fewer than the last hour's.
LEMMA CountedAll ==
    ASSUME TypeOK, FewRows, NEW b, ~AtLimit(b)
    PROVE  Cardinality(Recent(b)) < HourLimit
<1>1. Recent(b) \in SUBSET Counted(b, clock - 1)
    <2> SUFFICES ASSUME NEW q \in Recent(b) PROVE q \in Counted(b, clock - 1)
        OBVIOUS
    <2>1. q \in Filed(b) /\ sentAt[q] >= clock - 1 /\ sentAt[q] \in Int /\ clock - 1 \in Int
        BY SendAssumption DEF Recent, Filed, TypeOK, Unsent
    <2>2. Day(sentAt[q]) >= Day(clock - 1)
        BY <2>1, DayMonotone
    <2> QED BY <2>1, <2>2 DEF Counted
<1>2. Counted(b, clock - 1) \in SUBSET {q \in Send : sentAt[q] # Unsent}
    BY DEF Counted, Filed
<1>3. IsFiniteSet(Counted(b, clock - 1))
    BY <1>2, FS_Subset DEF FewRows
<1>4. Cardinality(Recent(b)) <= Cardinality(Counted(b, clock - 1))
    BY <1>1, <1>3, FS_Subset
<1>5. Cardinality(Counted(b, clock - 1)) \in Nat /\ Cardinality(Recent(b)) \in Nat
    BY <1>3, RecentFinite, FS_CardinalityType
<1>6. ~(Cardinality(Counted(b, clock - 1)) >= HourLimit)
    BY DEF AtLimit
<1> QED BY <1>4, <1>5, <1>6, SendAssumption

\* While no row is filed, the rows of the last hour only get fewer.
LEMMA TimeLowers ==
    ASSUME TypeOK, TypeOK', CountInv, clock' >= clock, UNCHANGED <<send, sentAt, delivered, raced>>
    PROVE  CountInv'
<1>1. FewRows'
    BY DEF CountInv, FewRows
<1>2. ASSUME NEW s \in Send PROVE Ordered(s)' /\ Within(s)'
    <2>1. Ordered(s)'
        BY DEF CountInv, Ordered
    <2> DEFINE b == send[s].box
    <2>2. Recent(b)' \in SUBSET Recent(b)
        <3> SUFFICES ASSUME NEW q \in Recent(b)' PROVE q \in Recent(b)
            OBVIOUS
        <3>1. q \in Filed(b) /\ sentAt[q] >= clock' - 1 /\ sentAt[q] \in Int
            BY SendAssumption DEF Recent, Filed, TypeOK, Unsent
        <3>2. clock \in Int /\ clock' \in Int
            BY SendAssumption DEF TypeOK
        <3> QED BY <3>1, <3>2 DEF Recent
    <2>3. Cardinality(Recent(b)') <= Cardinality(Recent(b))
        BY <2>2, RecentFinite, FS_Subset DEF CountInv
    <2>4. Cardinality(Recent(b)) \in Nat /\ Cardinality(Recent(b)') \in Nat
        BY <2>2, RecentFinite, FS_Subset, FS_CardinalityType DEF CountInv
    <2>5. (Due(s)' <=> Due(s)) /\ (s \in raced' <=> s \in raced) /\ Within(s)
        BY DEF CountInv, Due
    <2> QED BY <2>1, <2>3, <2>4, <2>5, SendAssumption DEF Within
<1> QED BY <1>1, <1>2 DEF CountInv

\* A send that files no row.
LEMMA NoRow ==
    ASSUME Inv, CountInv, NEW s \in Send, sentAt' = sentAt, clock' = clock,
           \A q \in Send \ {s} :
               /\ send'[q] = send[q]
               /\ q \in delivered' <=> q \in delivered
               /\ q \in raced => q \in raced',
           send[s].at = "idle" \/ send'[s].box = send[s].box,
           Ordered(s)',
           Due(s)' /\ s \notin raced' => Cardinality(Recent(send'[s].box)) < HourLimit
    PROVE  CountInv'
<1>1. FewRows'
    BY DEF CountInv, FewRows
<1>2. send[s].at = "idle" => sentAt[s] = Unsent
    BY DEF Inv, SendInv, Careful, Early, Out
<1>3. \A b : Filed(b)' = Filed(b)
    BY <1>2 DEF Filed
<1>4. \A b : Recent(b)' = Recent(b)
    BY <1>3 DEF Recent
<1>5. Within(s)'
    BY <1>4 DEF Within
<1>6. ASSUME NEW q \in Send \ {s} PROVE Ordered(q)' /\ Within(q)'
    <2>1. Ordered(q) /\ Within(q) /\ send'[q] = send[q] /\ (q \in raced => q \in raced')
          /\ (q \in delivered' <=> q \in delivered)
        BY DEF CountInv
    <2>2. Ordered(q)'
        BY <2>1 DEF Ordered
    <2>3. Within(q)'
        BY <1>4, <2>1 DEF Within, Due
    <2> QED BY <2>2, <2>3
<1> QED BY <1>1, <1>5, <1>6 DEF CountInv

\* A send that files its row: the other sends of the mailbox did not count it.
LEMMA FilesRow ==
    ASSUME Inv, CountInv, NEW s \in Send, FiledNow(s), clock' = clock, delivered' = delivered,
           \A q \in Send \ {s} : send'[q] = send[q],
           send'[s].box = send[s].box, Ordered(s)', ~Due(s)'
    PROVE  CountInv'
<1>1. sentAt' = [sentAt EXCEPT ![s] = clock]
      /\ raced' = raced \cup {q \in Send \ {s} : send[q].box = send[s].box}
    BY DEF FiledNow
<1>2. FewRows'
    <2>1. IsFiniteSet({q \in Send : sentAt[q] # Unsent} \cup {s})
        BY FS_AddElement DEF CountInv, FewRows
    <2>2. {q \in Send : sentAt'[q] # Unsent} \in SUBSET ({q \in Send : sentAt[q] # Unsent} \cup {s})
        BY <1>1 DEF Inv, TypeOK
    <2> QED BY <2>1, <2>2, FS_Subset DEF FewRows
<1>3. Within(s)'
    BY DEF Within
<1>4. ASSUME NEW q \in Send \ {s} PROVE Ordered(q)' /\ Within(q)'
    <2>1. Ordered(q) /\ Within(q) /\ send'[q] = send[q] /\ sentAt'[q] = sentAt[q]
        BY <1>1 DEF CountInv, Inv, TypeOK
    <2>2. Ordered(q)'
        BY <2>1 DEF Ordered
    <2>3. CASE send[q].box = send[s].box
        BY <1>1, <2>2, <2>3 DEF Within
    <2>4. CASE send[q].box # send[s].box
        <3> DEFINE b == send[q].box
        <3>1. Filed(b)' = Filed(b) /\ s \notin Filed(b)
            BY <1>1, <2>1, <2>4 DEF Filed, Inv, TypeOK
        <3>2. \A u \in Filed(b) : sentAt'[u] = sentAt[u]
            BY <1>1, <3>1 DEF Filed, Inv, TypeOK
        <3>3. Recent(b)' = Recent(b)
            BY <2>1, <3>1, <3>2 DEF Recent
        <3>4. q \in raced => q \in raced'
            BY <1>1
        <3> QED BY <2>1, <2>2, <3>3, <3>4 DEF Within, Due
    <2> QED BY <2>3, <2>4
<1> QED BY <1>2, <1>3, <1>4 DEF CountInv

LEMMA SendingCounts ==
    ASSUME Inv, CountInv, NEW s \in Send, Sending(s)
    PROVE  CountInv'
<1>t. TypeOK /\ clock' = clock
    BY DEF Inv, Sending, Submit, Assess, Show, Spend, SpendUnanswered, Count, NoOriginal,
           CheckDraft, File, FileUnanswered, MarkRead, Hand, HandFails, Fail
<1>c. Ordered(s) /\ Within(s) /\ FewRows /\ Careful(s)
    BY DEF CountInv, Inv, SendInv
<1> DEFINE Same == UNCHANGED <<sentAt, delivered, raced>>
<1>1. CASE Submit(s)
    <2>1. PICK k \in Kinds, p \in Payload, b \in Box, v \in Minted \cup {None} :
            Become(s, [send[s] EXCEPT !.at = IF k = "tool" THEN "counting" ELSE "assessing",
                           !.kind = k, !.payload = p, !.box = b, !.token = v])
        BY <1>1 DEF Submit
    <2>2. /\ send'[s].at = IF k = "tool" THEN "counting" ELSE "assessing"
          /\ send'[s].kind = k
          /\ \A q \in Send \ {s} : send'[q] = send[q]
        BY <2>1, <1>t DEF Become, TypeOK, Sends
    <2>3. send[s].at = "idle" /\ Same /\ ~Out(s)
        BY <1>1, <1>c DEF Submit, At, rows, Careful, Early
    <2>4. Ordered(s)' /\ ~Due(s)'
        BY <2>2, <2>3 DEF Ordered, Due, Out
    <2> QED BY <1>t, <2>2, <2>3, <2>4, NoRow
<1>2. CASE Assess(s)
    <2>1. /\ \A q \in Send \ {s} : send'[q] = send[q]
          /\ send'[s].box = send[s].box
          /\ send'[s].kind = send[s].kind
          /\ \/ send'[s].at \in {"refused", "showing"}
             \/ send'[s].at = "checking" /\ send[s].kind = "tool"
             \/ send'[s].at = "counting" /\ send[s].kind # "tool"
        BY <1>2, <1>t DEF Assess, Become, Passed, TypeOK, Sends
    <2>2. send[s].at = "assessing" /\ Same
        BY <1>2 DEF Assess, At, rows
    <2>3. Ordered(s)'
        BY <1>c, <2>1, <2>2 DEF Ordered
    <2>4. Due(s)' => Due(s)
        BY <2>1, <2>2 DEF Due
    <2> QED BY <1>t, <1>c, <2>1, <2>2, <2>3, <2>4, NoRow DEF Within
<1>3. CASE Spend(s) \/ SpendUnanswered(s)
    <2>1. /\ \A q \in Send \ {s} : send'[q] = send[q]
          /\ send'[s].box = send[s].box
          /\ send'[s].kind = send[s].kind
          /\ \/ send'[s].at \in {"refused", "failed"}
             \/ send'[s].at = "checking" /\ send[s].kind = "tool"
             \/ send'[s].at = "counting" /\ send[s].kind # "tool"
        <3>1. CASE Spend(s) /\ Unspent(s)
            <4>1. send' = [send EXCEPT ![s] = [send[s] EXCEPT !.spent = TRUE,
                             !.at = IF verify[send[s].token].tier < send[s].risk
                                    THEN "refused" ELSE Passed(s)]]
                BY <3>1 DEF Spend, Become
            <4> QED BY <4>1, <1>t DEF Passed, TypeOK, Sends
        <3>2. CASE Spend(s) /\ ~Unspent(s)
            BY <3>2, <1>t, GotoFields DEF Spend
        <3>3. CASE SpendUnanswered(s)
            BY <3>3, <1>t DEF SpendUnanswered, Become, TypeOK, Sends
        <3> QED BY <1>3, <3>1, <3>2, <3>3
    <2>2. send[s].at = "spending" /\ Same
        BY <1>3 DEF Spend, SpendUnanswered, At
    <2>3. Ordered(s)'
        BY <1>c, <2>1, <2>2 DEF Ordered
    <2>4. Due(s)' => Due(s)
        BY <2>1, <2>2 DEF Due
    <2> QED BY <1>t, <1>c, <2>1, <2>2, <2>3, <2>4, NoRow DEF Within
<1>g. ASSUME NEW where, Goto(s, where), sentAt' = sentAt,
             \A q \in Send \ {s} : /\ q \in delivered' <=> q \in delivered
                                   /\ q \in raced => q \in raced',
             Ordered(s)',
             Due(s)' /\ s \notin raced' => Cardinality(Recent(send[s].box)) < HourLimit
      PROVE  CountInv'
    BY <1>g, <1>t, GotoFields, NoRow
<1>4. CASE Show(s) \/ NoOriginal(s) \/ CheckDraft(s) \/ MarkRead(s) \/ Fail(s)
    <2>1. PICK where : Goto(s, where) /\ Same /\
            \/ where \in {"refused", "failed"}
            \/ send[s].at = "showing" /\ where = "spending"
            \/ send[s].at \in {"checking", "marking"} /\ where = "handing"
        BY <1>4 DEF Show, NoOriginal, CheckDraft, MarkRead, Fail, rows, At
    <2>2. /\ send'[s].at = where /\ send'[s].kind = send[s].kind
        BY <2>1, <1>t, GotoFields
    <2>3. Ordered(s)'
        BY <1>c, <2>1, <2>2 DEF Ordered
    <2>4. Due(s)' => Due(s)
        BY <1>c, <2>1, <2>2 DEF Due, Ordered
    <2> QED BY <1>c, <1>g, <2>1, <2>3, <2>4 DEF Within
<1>5. CASE Count(s)
    <2>1. send[s].at = "counting" /\ sentAt' = sentAt /\ delivered' = delivered
          /\ raced' = raced \ {s}
        BY <1>5 DEF Count, At, rows
    <2>2. PICK where : Goto(s, where) /\
            \/ where = "limited"
            \/ ~AtLimit(send[s].box) /\ where = "assessing" /\ send[s].kind = "tool"
            \/ ~AtLimit(send[s].box) /\ where = "filing" /\ send[s].kind # "tool"
        BY <1>5 DEF Count
    <2>3. send'[s].at = where /\ send'[s].kind = send[s].kind
        BY <2>2, <1>t, GotoFields
    <2>4. Ordered(s)'
        BY <1>c, <2>1, <2>2, <2>3 DEF Ordered
    <2>5. where # "limited" => Cardinality(Recent(send[s].box)) < HourLimit
        BY <1>c, <1>t, <2>2, CountedAll
    <2>6. Due(s)' => where # "limited"
        BY <2>3 DEF Due
    <2> QED BY <1>g, <2>1, <2>2, <2>4, <2>5, <2>6
<1>6. CASE Hand(s) \/ HandFails(s)
    <2>1. send[s].at = "handing" /\ sentAt' = sentAt /\ raced' = raced
          /\ delivered' \in {delivered, delivered \cup {s}}
        BY <1>6 DEF Hand, HandFails, At
    <2>2. PICK where : Goto(s, where) /\
            \/ where \in {"done", "failed"}
            \/ where = "filing" /\ send[s].kind = "tool" /\ delivered' = delivered \cup {s}
        BY <1>6 DEF Hand, HandFails
    <2>3. send'[s].at = where /\ send'[s].kind = send[s].kind
        BY <2>2, <1>t, GotoFields
    <2>4. Ordered(s)'
        BY <1>c, <2>1, <2>2, <2>3 DEF Ordered
    <2>5. Due(s)' => Due(s)
        BY <2>1, <2>2, <2>3 DEF Due
    <2> QED BY <1>c, <1>g, <2>1, <2>2, <2>4, <2>5 DEF Within
<1>7. CASE File(s) \/ FileUnanswered(s)
    <2>1. send[s].at = "filing" /\ FiledNow(s) /\ delivered' = delivered
        BY <1>7 DEF File, FileUnanswered, At
    <2>2. PICK where : Goto(s, where) /\
            \/ where \in {"done", "failed"}
            \/ where \in {"marking", "handing"} /\ send[s].kind # "tool"
        <3>1. CASE File(s)
            BY <3>1, <1>t DEF File, TypeOK, Sends, SendKinds
        <3>2. CASE FileUnanswered(s)
            BY <3>2 DEF FileUnanswered
        <3> QED BY <1>7, <3>1, <3>2
    <2>3. send'[s].at = where /\ send'[s].kind = send[s].kind /\ send'[s].box = send[s].box
          /\ \A q \in Send \ {s} : send'[q] = send[q]
        BY <2>2, <1>t, GotoFields
    <2>4. sentAt'[s] # Unsent
        BY <2>1, <1>t, SendAssumption DEF FiledNow, TypeOK, Unsent
    <2>5. Ordered(s)' /\ ~Due(s)'
        BY <1>c, <2>1, <2>2, <2>3, <2>4 DEF Ordered, Due
    <2> QED BY <1>t, <2>1, <2>3, <2>5, FilesRow
<1> QED BY <1>1, <1>2, <1>3, <1>4, <1>5, <1>6, <1>7 DEF Sending

LEMMA CountStep == Inv /\ Inv' /\ CountInv /\ [Next]_vars => CountInv'
<1> SUFFICES ASSUME Inv, Inv', CountInv, [Next]_vars PROVE CountInv'
    OBVIOUS
<1>1. CASE \E s \in Send : Sending(s)
    BY <1>1, SendingCounts
<1>2. CASE ~(\E s \in Send : Sending(s))
    <2>1. UNCHANGED <<send, sentAt, delivered, raced>>
        BY <1>2 DEF Next, Hour, ChallengeLapses, Reap, TokenLapses, Options, StepUp, Consume,
                    Prove, Mint, VerifyFails, rows, vars
    <2>2. clock' = clock \/ clock' = clock + 1
        BY <1>2 DEF Next, Hour, ChallengeLapses, Reap, TokenLapses, Options, StepUp, Consume,
                    Prove, Mint, VerifyFails, vars
    <2>3. clock' >= clock
        BY <2>2, SendAssumption DEF Inv, TypeOK
    <2> QED BY <2>1, <2>3, TimeLowers DEF Inv
<1> QED BY <1>1, <1>2

LEMMA CountsInvariant == Spec => [](Inv /\ CountInv)
<1>1. Init => CountInv
    <2> SUFFICES ASSUME Init PROVE CountInv
        OBVIOUS
    <2>1. {q \in Send : sentAt[q] # Unsent} = {}
        BY DEF Init
    <2>2. FewRows
        BY <2>1, FS_EmptySet DEF FewRows
    <2> QED BY <2>2 DEF CountInv, Ordered, Within, Due, Init
<1> QED BY <1>1, Confirmed, CountStep, PTL DEF Spec

\* Whatever fails, a person's mail is in SENT before the provider has it, and
\* a tool's mail is with the provider before it is in SENT.
THEOREM OnRecord == Spec => []RecordedInOrder
<1>1. CountInv => RecordedInOrder
    BY DEF CountInv, Ordered, RecordedInOrder
<1> QED BY <1>1, CountsInvariant, PTL

\* The hourly limit is exceeded only by sends that overlap: a row filed by a
\* send that no other overtook since it was counted finds fewer rows of the
\* last hour than the limit, though the count compares dates as text.
THEOREM LimitHolds == Spec => LimitKept
<1>1. Inv /\ CountInv /\ [Next]_vars
      => [\A s \in Send : sentAt'[s] # sentAt[s] /\ s \notin raced =>
            Cardinality({q \in Filed(send[s].box) : sentAt[q] >= clock - 1}) < HourLimit]_vars
    <2> SUFFICES ASSUME Inv, CountInv, Next, NEW s \in Send, sentAt'[s] # sentAt[s], s \notin raced
                 PROVE  Cardinality(Recent(send[s].box)) < HourLimit
        BY DEF Recent
    <2>1. PICK q \in Send : Sending(q)
        BY DEF Next, Hour, ChallengeLapses, Reap, TokenLapses, Options, StepUp, Consume,
               Prove, Mint, VerifyFails, rows
    <2>2. File(q) \/ FileUnanswered(q)
        BY <2>1 DEF Sending, Submit, Assess, Show, Spend, SpendUnanswered, Count, NoOriginal,
                    CheckDraft, MarkRead, Hand, HandFails, Fail, rows
    <2>3. q = s /\ send[s].at = "filing"
        BY <2>2 DEF File, FileUnanswered, FiledNow, At, Inv, TypeOK
    <2> QED BY <2>3 DEF CountInv, Within, Due
<1> QED BY <1>1, CountsInvariant, PTL DEF Spec, LimitKept

-----------------------------------------------------------------------------
(* The form a send is made from, its preflight and its confirmation: Compose. *)

CONSTANTS Recipients, Nobody, Texts, Preview, Required, MaxEdits, MaxCalls
VARIABLES fields, phrase, timer, seq, previews, shown, leaving, sent, edits, calls
Comp == INSTANCE Compose WITH send <- leaving

OnScreen == [tier : Comp!Tiers, fields : Comp!Fields, by : {"preview", "gate"}]
Outgoing == [pc : {"confirm", "post"}, fields : Comp!Fields, tier : Comp!Tiers, typed : BOOLEAN]
\* What the constants are: To may be empty, the preflight and the gate name
\* tiers, None is nothing else.
ComposeConstants ==
  /\ Nobody \in Recipients /\ Preview \in [Comp!Fields -> Comp!Tiers]
       /\ Required \in [Comp!Fields -> Comp!Tiers]
  /\ None \notin OnScreen \cup Outgoing /\ MaxCalls \in Nat

\* The latest preview is about the fields as they stand, unless a new one is due.
LatestIsAbout ==
  ~timer /\ fields[1] # Nobody => \A p \in previews : p.seq = seq => p.fields = fields
\* What a preview has left on the screen is about the fields, or is replaced.
ShownIsAbout ==
  ~timer /\ fields[1] # Nobody /\ shown # None =>
    \/ shown.by = "gate" \/ shown.fields = fields \/ \E p \in previews : p.seq = seq
ShownAsAnswered == shown # None => shown.by = "gate" \/ shown = Comp!preview(shown.fields)
TypedAtTwo == leaving # None => (leaving.tier = 2 => leaving.typed)
ComposeInv ==
  /\ Comp!TypeOK /\ calls \in 0..MaxCalls /\ seq <= calls /\ \A p \in previews : p.seq <= seq
  /\ LatestIsAbout /\ ShownIsAbout /\ ShownAsAnswered /\ TypedAtTwo /\ Comp!TierTwoWasTyped

LEMMA InitComposeInv == ASSUME ComposeConstants, Comp!Init PROVE ComposeInv
<1>1. Comp!TypeOK /\ calls \in 0..MaxCalls
  <2>1. /\ fields \in Comp!Fields /\ phrase = Nobody /\ timer = FALSE /\ seq = 0 /\ previews = {}
        /\ shown = None /\ leaving = None /\ sent = {} /\ calls = 0
    BY DEF Comp!Init
  <2>2. timer \in BOOLEAN
    BY <2>1
  <2>3. phrase \in Recipients /\ seq \in 0..MaxCalls /\ calls \in 0..MaxCalls
    BY <2>1 DEF ComposeConstants
  <2>. QED BY <2>1, <2>2, <2>3 DEF Comp!TypeOK
<1>2. seq <= calls
  BY DEF Comp!Init
<1>3. \A p \in previews : p.seq <= seq
  BY DEF Comp!Init
<1>4. LatestIsAbout
  BY DEF Comp!Init, LatestIsAbout
<1>5. ShownIsAbout /\ ShownAsAnswered /\ TypedAtTwo /\ Comp!TierTwoWasTyped
  BY DEF Comp!Init, ShownIsAbout, ShownAsAnswered, TypedAtTwo, Comp!TierTwoWasTyped
<1>. QED BY <1>1, <1>2, <1>3, <1>4, <1>5 DEF ComposeInv

LEMMA EditComposeInv ==
  ASSUME ComposeConstants, ComposeInv, NEW f \in Comp!Fields, Comp!edit(f) \/ Comp!reopen(f)
  PROVE ComposeInv'
<1>1. Comp!TypeOK' /\ calls' \in 0..MaxCalls /\ seq' <= calls' /\ (\A p \in previews : p.seq <= seq)'
  BY DEF ComposeInv, Comp!TypeOK, Comp!edit, Comp!reopen, ComposeConstants, OnScreen
<1>2. LatestIsAbout' /\ ShownIsAbout'
  BY DEF ComposeInv, LatestIsAbout, ShownIsAbout, Comp!edit, Comp!reopen
<1>3. ShownAsAnswered' /\ TypedAtTwo' /\ Comp!TierTwoWasTyped'
  BY DEF ComposeInv, ShownAsAnswered, TypedAtTwo, Comp!TierTwoWasTyped, Comp!edit, Comp!reopen,
      Comp!preview
<1>. QED BY <1>1, <1>2, <1>3 DEF ComposeInv

LEMMA PreviewComposeInv ==
  ASSUME ComposeConstants, ComposeInv, Comp!firePreview \/ (\E p \in previews : Comp!previewAnswers(p))
  PROVE  ComposeInv'
<1>1. CASE Comp!firePreview
  <2>1. /\ seq' = seq + 1 /\ calls' = calls + 1 /\ calls < MaxCalls /\ ~timer'
        /\ previews' = previews \cup {[seq |-> seq + 1, fields |-> fields]}
        /\ UNCHANGED <<fields, phrase, shown, leaving, sent>>
    BY <1>1 DEF Comp!firePreview
  <2>2. [seq |-> seq + 1, fields |-> fields] \in [seq : 1..MaxCalls, fields : Comp!Fields]
    <3>1. seq \in 0..MaxCalls /\ seq <= calls /\ calls \in 0..MaxCalls /\ MaxCalls \in Nat
      BY DEF ComposeInv, Comp!TypeOK, ComposeConstants
    <3>2. seq + 1 \in 1..MaxCalls
      BY <2>1, <3>1
    <3>3. fields \in Comp!Fields
      BY DEF ComposeInv, Comp!TypeOK
    <3>. QED BY <3>2, <3>3
  <2>3. Comp!TypeOK' /\ calls' \in 0..MaxCalls /\ seq' <= calls'
    <3>1. seq' \in 0..MaxCalls /\ calls' \in 0..MaxCalls /\ seq' <= calls'
      BY <2>1 DEF ComposeInv, Comp!TypeOK, ComposeConstants
    <3>2. previews' \subseteq [seq : 1..MaxCalls, fields : Comp!Fields]
      BY <2>1, <2>2 DEF ComposeInv, Comp!TypeOK
    <3>3. timer' \in BOOLEAN
      BY <1>1 DEF Comp!firePreview
    <3>. QED BY <2>1, <3>1, <3>2, <3>3 DEF ComposeInv, Comp!TypeOK
  <2>4. \A p \in previews : p.seq \in Nat /\ p.seq <= seq
    BY DEF ComposeInv, Comp!TypeOK
  <2>5. seq \in Nat
    BY DEF ComposeInv, Comp!TypeOK
  <2>6. \A p \in previews' : p.seq <= seq' /\ (p.seq = seq' => p.fields = fields')
    BY <2>1, <2>4, <2>5
  <2>7. \E p \in previews' : p.seq = seq'
    <3>1. [seq |-> seq + 1, fields |-> fields] \in previews'
      BY <2>1
    <3>2. [seq |-> seq + 1, fields |-> fields].seq = seq'
      BY <2>1
    <3>. QED BY <3>1, <3>2
  <2>8. LatestIsAbout' /\ ShownIsAbout'
    BY <2>6, <2>7 DEF LatestIsAbout, ShownIsAbout
  <2>9. ShownAsAnswered' /\ TypedAtTwo' /\ Comp!TierTwoWasTyped'
    BY <2>1 DEF ComposeInv, ShownAsAnswered, TypedAtTwo, Comp!TierTwoWasTyped, Comp!preview
  <2>. QED BY <2>3, <2>6, <2>8, <2>9 DEF ComposeInv
<1>2. ASSUME NEW p \in previews, Comp!previewAnswers(p) PROVE ComposeInv'
  <2>1. /\ previews' = previews \ {p} /\ UNCHANGED <<fields, phrase, timer, seq, leaving, sent, calls>>
        /\ (p.seq # seq /\ shown' = shown) \/ (p.seq = seq /\ shown' \in {None, Comp!preview(p.fields)})
    BY <1>2 DEF Comp!previewAnswers
  <2>2. p.fields \in Comp!Fields /\ Comp!preview(p.fields) \in OnScreen
    BY DEF ComposeInv, Comp!TypeOK, ComposeConstants, Comp!preview, OnScreen
  <2>3. Comp!TypeOK' /\ calls' \in 0..MaxCalls /\ seq' <= calls'
    BY <2>1, <2>2 DEF ComposeInv, Comp!TypeOK, ComposeConstants, OnScreen
  <2>4. (\A q \in previews : q.seq <= seq)' /\ LatestIsAbout'
    BY <2>1 DEF ComposeInv, LatestIsAbout
  <2>5. ShownIsAbout'
    BY <2>1 DEF ComposeInv, LatestIsAbout, ShownIsAbout, Comp!preview
  <2>6. Comp!preview(p.fields) = Comp!preview(Comp!preview(p.fields).fields)
    BY DEF Comp!preview
  <2>7. ShownAsAnswered' /\ TypedAtTwo' /\ Comp!TierTwoWasTyped'
    <3>1. shown' # None => shown'.by = "gate" \/ shown' = Comp!preview(shown'.fields)
      BY <2>1, <2>6 DEF ComposeInv, ShownAsAnswered
    <3>. QED BY <3>1, <2>1 DEF ComposeInv, ShownAsAnswered, TypedAtTwo, Comp!TierTwoWasTyped,
        Comp!preview
  <2>. QED BY <2>3, <2>4, <2>5, <2>7 DEF ComposeInv
<1>. QED BY <1>1, <1>2

LEMMA SendComposeInv ==
  ASSUME ComposeConstants, ComposeInv, Comp!handleSend \/ Comp!confirm \/ Comp!post PROVE ComposeInv'
<1>1. CASE Comp!handleSend
  <2>. DEFINE tier == IF shown = None THEN 0 ELSE shown.tier
  <2>1. /\ UNCHANGED <<fields, phrase, timer, seq, previews, shown, sent>> /\ calls' = calls + 1
        /\ calls < MaxCalls
        /\ leaving' = [pc |-> IF tier = 0 THEN "post" ELSE "confirm", fields |-> fields,
                    tier |-> tier, typed |-> tier = 2]
    BY <1>1 DEF Comp!handleSend
  <2>2. tier \in Comp!Tiers
    BY DEF ComposeInv, Comp!TypeOK, Comp!Tiers
  <2>3. leaving' \in Outgoing /\ (leaving'.tier = 2 => leaving'.typed)
    BY <2>1, <2>2 DEF ComposeInv, Comp!TypeOK, Outgoing
  <2>. HIDE DEF tier
  <2>4. Comp!TypeOK' /\ calls' \in 0..MaxCalls /\ seq' <= calls' /\ (\A p \in previews : p.seq <= seq)'
    BY <2>1, <2>3 DEF ComposeInv, Comp!TypeOK, Outgoing, ComposeConstants
  <2>5. LatestIsAbout' /\ ShownIsAbout' /\ ShownAsAnswered' /\ TypedAtTwo' /\ Comp!TierTwoWasTyped'
    BY <2>1, <2>3 DEF ComposeInv, LatestIsAbout, ShownIsAbout, ShownAsAnswered, TypedAtTwo,
       Comp!TierTwoWasTyped, Comp!preview
  <2>. QED BY <2>4, <2>5 DEF ComposeInv
<1>2. CASE Comp!confirm
  <2>1. /\ UNCHANGED <<fields, phrase, timer, seq, previews, shown, sent, calls>>
        /\ leaving # None /\ leaving' \in {None, [leaving EXCEPT !.pc = "post"]}
    BY <1>2 DEF Comp!confirm
  <2>2. leaving \in Outgoing
    BY <2>1 DEF ComposeInv, Comp!TypeOK, Outgoing
  <2>3. leaving' = None \/ (leaving' \in Outgoing /\ (leaving'.tier = 2 => leaving'.typed))
    BY <2>1, <2>2 DEF ComposeInv, TypedAtTwo, Outgoing
  <2>4. Comp!TypeOK' /\ calls' \in 0..MaxCalls /\ seq' <= calls' /\ (\A p \in previews : p.seq <= seq)'
    BY <2>1, <2>3 DEF ComposeInv, Comp!TypeOK, Outgoing
  <2>5. LatestIsAbout' /\ ShownIsAbout' /\ ShownAsAnswered' /\ TypedAtTwo' /\ Comp!TierTwoWasTyped'
    BY <2>1, <2>3 DEF ComposeInv, LatestIsAbout, ShownIsAbout, ShownAsAnswered, TypedAtTwo,
       Comp!TierTwoWasTyped, Comp!preview
  <2>. QED BY <2>4, <2>5 DEF ComposeInv
<1>3. CASE Comp!post
  <2>1. /\ UNCHANGED <<fields, phrase, timer, seq, previews, calls>> /\ leaving # None
             /\ leaving' = None
        /\ \/ /\ leaving.tier >= Required[leaving.fields] /\ shown' = shown
              /\ sent' = sent \cup {[fields |-> leaving.fields, typed |-> leaving.typed]}
           \/ /\ sent' = sent
              /\ shown' = [tier |-> Required[leaving.fields], fields |-> leaving.fields, by |-> "gate"]
    BY <1>3 DEF Comp!post
  <2>2. /\ leaving \in Outgoing /\ Required[leaving.fields] \in Comp!Tiers
        /\ [tier |-> Required[leaving.fields], fields |-> leaving.fields, by |-> "gate"] \in OnScreen
        /\ [fields |-> leaving.fields, typed |-> leaving.typed] \in [fields : Comp!Fields,
             typed : BOOLEAN]
    <3>1. leaving \in Outgoing
      BY <2>1 DEF ComposeInv, Comp!TypeOK, Outgoing
    <3>. QED BY <3>1 DEF Outgoing, OnScreen, ComposeConstants
  <2>3. Comp!TypeOK' /\ calls' \in 0..MaxCalls /\ seq' <= calls' /\ (\A p \in previews : p.seq <= seq)'
    BY <2>1, <2>2 DEF ComposeInv, Comp!TypeOK, OnScreen
  <2>4. LatestIsAbout' /\ ShownIsAbout' /\ ShownAsAnswered' /\ TypedAtTwo'
    BY <2>1 DEF ComposeInv, LatestIsAbout, ShownIsAbout, ShownAsAnswered, TypedAtTwo, Comp!preview
  <2>5. leaving.tier >= Required[leaving.fields] /\ Required[leaving.fields] = 2 => leaving.typed
    BY <2>1, <2>2 DEF ComposeInv, TypedAtTwo, Outgoing, Comp!Tiers
  <2>6. Comp!TierTwoWasTyped'
    BY <2>1, <2>5 DEF ComposeInv, Comp!TierTwoWasTyped
  <2>. QED BY <2>3, <2>4, <2>6 DEF ComposeInv
<1>. QED BY <1>1, <1>2, <1>3

LEMMA NextComposeInv == ASSUME ComposeConstants, ComposeInv, [Comp!Next]_(Comp!vars) PROVE ComposeInv'
<1>1. ASSUME NEW p \in Recipients, Comp!typePhrase(p) PROVE ComposeInv'
  BY <1>1 DEF Comp!typePhrase, ComposeInv, Comp!TypeOK, LatestIsAbout, ShownIsAbout,
      ShownAsAnswered, TypedAtTwo,
     Comp!TierTwoWasTyped, Comp!preview
<1>2. CASE UNCHANGED Comp!vars
  BY <1>2 DEF Comp!vars, ComposeInv, Comp!TypeOK, LatestIsAbout, ShownIsAbout, ShownAsAnswered,
      TypedAtTwo,
     Comp!TierTwoWasTyped, Comp!preview
<1>. QED BY <1>1, <1>2, EditComposeInv, PreviewComposeInv, SendComposeInv DEF Comp!Next

LEMMA ComposeInvIsCurrent == ASSUME ComposeInv
PROVE Comp!TypeOK /\ Comp!PreviewIsCurrent /\ Comp!TierTwoWasTyped
  BY DEF ComposeInv, ShownIsAbout, ShownAsAnswered, Comp!PreviewIsCurrent

\* However a preview is slow, late or lost: what the form shows once no preview is
\* due or under way is about the fields as they stand, unless the gate put it
\* there, and a message the gate holds for tier two leaves with its phrase typed.
THEOREM ComposerStaysHonest ==
  ASSUME ComposeConstants PROVE Comp!Spec =>
           [](Comp!TypeOK /\ Comp!PreviewIsCurrent /\ Comp!TierTwoWasTyped)
<1>1. Comp!Init => ComposeInv
  BY InitComposeInv
<1>2. ComposeInv /\ [Comp!Next]_(Comp!vars) => ComposeInv'
  BY NextComposeInv
<1>3. ComposeInv => Comp!TypeOK /\ Comp!PreviewIsCurrent /\ Comp!TierTwoWasTyped
  BY ComposeInvIsCurrent
<1>. QED BY <1>1, <1>2, <1>3, PTL DEF Comp!Spec

-----------------------------------------------------------------------------
(* The tier of a send, the history and the verdict it rests on: SendRisk. *)

CONSTANTS Drafts, Samples, Answers, Losses, Domain, Internal, Imitates, Trusting, LlmEnabled, Words,
          Original, HEADER_WORDS, MaxHeader, MinAge, MaxIdle, Ttl, MaxTime,
          MaxFailures, MaxHtml, MaxShown
VARIABLES now, graph, cache, previewed, gated, log, faults, html
Risk == INSTANCE SendRisk WITH shown <- previewed, MaxFaults <- MaxFailures

\* What a draft is, its body of any kind; what the constants are: the drafts are
\* finitely many and of known addresses, None is nothing else.
Draft(T) ==
  [to : SUBSET Risk!Addresses, keyword : BOOLEAN,
   file : {"none", "executable", "custom", "macro_office", "container"}, author : {"user", "agent"},
   thread : {"none", "tag", "flagged"}, feed : {"none", "bloom", "confirmed"}, homograph : BOOLEAN,
   text : T]
SendRows == [count : Nat \ {0}, first : 0 .. MaxTime, last : 0 .. MaxTime]
Verdict == [label : Risk!OUTBOUND_LLM_LABELS, at : 0 .. MaxTime]
RiskConstants ==
  /\ IsFiniteSet(Risk!Ids) /\ (\E T : \A i \in Risk!Ids : Drafts[i] \in Draft(T))
       /\ (\E T : Samples \subseteq Draft(T))
  /\ Answers \subseteq Risk!OUTBOUND_LLM_LABELS \cup {"garbled", "unavailable", "error"}
  /\ \A l \in Losses : IsFiniteSet(l)
  /\ {MinAge, MaxIdle, Ttl, MaxTime, MaxFailures, MaxHtml} \subseteq Nat
  /\ None \notin Nat \cup Risk!OUTBOUND_LLM_LABELS \cup {"error"}
  /\ None \notin Risk!Assessment \cup SendRows \cup Verdict

RiskTypes ==
  /\ now \in 0 .. MaxTime /\ faults \in 0 .. MaxFailures
  /\ graph \in [Risk!Addresses -> SendRows \cup {None}]
  /\ cache \in [Risk!Keys -> Verdict \cup {None}]
  /\ previewed \in [Risk!Ids -> Risk!Assessment \cup {None}]
       /\ gated \in [Risk!Ids -> Risk!Assessment \cup {None}]
  /\ log \subseteq [id : Risk!Ids, at : 0 .. MaxTime]
  /\ html \in Seq(Words) /\ Len(html) <= MaxHtml
\* The deliveries to an address, and its row in the graph.
Past(a) == {l \in log : a \in Drafts[l.id].to}
Delivered == {l.id : l \in log}
LogFits ==
  /\ IsFiniteSet(log) /\ \A l \in log : l.at <= now
  /\ Cardinality(log) = Cardinality(Delivered)
RowFits(a) ==
  /\ graph[a].count = Cardinality(Past(a))
  /\ (\E l \in Past(a) : l.at = graph[a].first) /\ (\E l \in Past(a) : l.at = graph[a].last)
GraphFits == \A a \in Risk!Addresses : IF graph[a] = None THEN Past(a) = {} ELSE RowFits(a)
\* Where no call failed: a verdict that was shown and stored is in the cache
\* while it is fresh, and the gate used it if it was.
KeyOf(i) == <<Drafts[i].text, Drafts[i].author>>
Backed(i) ==
  /\ LlmEnabled /\ Drafts[i].text # None
  /\ now < previewed[i].stored + Ttl =>
       cache[KeyOf(i)] # None /\ cache[KeyOf(i)] = [label |-> previewed[i].llm,
         at |-> previewed[i].stored]
VerdictsHold ==
  faults = 0 => \A i \in Risk!Ids : (previewed[i] # None /\ previewed[i].stored # None) =>
    IF gated[i] = None THEN Backed(i)
    ELSE gated[i].at < previewed[i].stored + Ttl => gated[i].llm = previewed[i].llm
Earned == Risk!TrustIsEarned /\ \A i \in Risk!Ids : gated[i] # None => gated[i].at <= now

RiskInv == RiskTypes /\ LogFits /\ GraphFits /\ VerdictsHold /\ Earned

(* -------------------------------------------------------------- the tiers --- *)

\* The instance counts as its host does.
LEMMA RiskCardinality == \A S : Risk!Cardinality(S) = Cardinality(S)
BY DEF Risk!Cardinality, Cardinality

LEMMA TopOf ==
  ASSUME NEW S \in SUBSET {0, 1, 2}, 0 \in S PROVE Risk!Max(S) \in S /\ \A y \in S : Risk!Max(S) >= y
<1>1. \E x \in S : \A y \in S : x >= y
  <2>1. CASE 2 \in S
    BY <2>1
  <2>2. CASE 2 \notin S /\ 1 \in S
    BY <2>2
  <2>3. CASE 2 \notin S /\ 1 \notin S
    BY <2>3
  <2>. QED BY <2>1, <2>2, <2>3
<1>. QED BY <1>1 DEF Risk!Max

LEMMA TopGrows ==
  ASSUME NEW S \in SUBSET {0, 1, 2}, NEW T \in SUBSET {0, 1, 2}, 0 \in S, S \subseteq T
  PROVE  Risk!Max(S) \in 0 .. 2 /\ Risk!Max(T) \in 0 .. 2 /\ Risk!Max(T) >= Risk!Max(S)
<1>1. Risk!Max(S) \in S /\ Risk!Max(T) \in T /\ \A y \in T : Risk!Max(T) >= y
  BY TopOf
<1>2. Risk!Max(S) \in {0, 1, 2} /\ Risk!Max(T) \in {0, 1, 2} /\ Risk!Max(S) \in T
  BY <1>1
<1>3. Risk!Max(T) >= Risk!Max(S)
  BY <1>1, <1>2
<1>. QED BY <1>2, <1>3

LEMMA TiersInRange == \A d, ctx : Risk!raised(d, ctx) \in SUBSET {0, 1, 2} /\ 0 \in Risk!raised(d, ctx)
<1>. SUFFICES ASSUME NEW d, NEW ctx
      PROVE Risk!raised(d, ctx) \in SUBSET {0, 1, 2} /\ 0 \in Risk!raised(d, ctx)
  OBVIOUS
<1>1. Risk!threadTier(d) \in {0, 1, 2} /\ Risk!llmTier(d, ctx.llm) \in {0, 1, 2}
  BY DEF Risk!threadTier, Risk!llmTier
<1>2. (CASE d.file = "executable" \/ (d.file = "custom" /\ ctx.custom) -> {2}
         [] d.file \in {"macro_office", "container"} -> {1} [] OTHER -> {}) \subseteq {0, 1, 2}
  OBVIOUS
<1>3. (IF ctx.feed THEN CASE d.feed = "confirmed" -> {2} [] d.feed = "none" -> {} [] OTHER -> {1}
       ELSE {}) \subseteq {0, 1, 2}
  OBVIOUS
<1>. QED BY <1>1, <1>2, <1>3 DEF Risk!raised

LEMMA TierType == \A d, ctx : Risk!classifySend(d, ctx) \in 0 .. 2
BY TiersInRange, TopOf DEF Risk!classifySend

\* No tier at all is given only where no rule asks for one.
LEMMA TierZero ==
  ASSUME NEW d, NEW ctx, Risk!classifySend(d, ctx) = 0, Risk!external(d) # {} PROVE Risk!trusted(d, ctx)
<1>1. Risk!Max(Risk!raised(d, ctx)) = 0
  BY TiersInRange, TopOf DEF Risk!classifySend
<1>2. 1 \notin Risk!raised(d, ctx)
  BY <1>1, TiersInRange, TopOf
<1>. QED BY <1>2 DEF Risk!raised

LEMMA EvidenceRaises ==
  ASSUME NEW T, NEW d \in Draft(T), NEW r, NEW t, NEW feed \in BOOLEAN, NEW custom \in BOOLEAN, NEW l,
         NEW base, base = [rows |-> r, custom |-> FALSE, trust |-> t, feed |-> FALSE, llm |-> None],
         NEW more, more = [rows |-> r, custom |-> custom, trust |-> t, feed |-> feed, llm |-> l],
         None \notin Risk!OUTBOUND_LLM_LABELS \cup {"error"}
  PROVE  Risk!classifySend(d, more) >= Risk!classifySend(d, base)
<1>1. Risk!llmTier(d, base.llm) = 0
  BY DEF Risk!llmTier, Risk!OUTBOUND_LLM_LABELS
<1>2. Risk!trusted(d, base) = Risk!trusted(d, more) /\ Risk!imitation(d, base) = Risk!imitation(d, more)
  BY DEF Risk!trusted, Risk!imitation
<1>3. Risk!raised(d, base) \subseteq Risk!raised(d, more)
  <2>1. (CASE d.file = "executable" \/ (d.file = "custom" /\ base.custom) -> {2}
           [] d.file \in {"macro_office", "container"} -> {1} [] OTHER -> {})
        \subseteq (CASE d.file = "executable" \/ (d.file = "custom" /\ more.custom) -> {2}
                     [] d.file \in {"macro_office", "container"} -> {1} [] OTHER -> {})
    BY DEF Draft
  <2>2. base.feed = FALSE /\ base.rows = more.rows
    OBVIOUS
  <2>. QED BY <1>1, <1>2, <2>1, <2>2 DEF Risk!raised
<1>4. Risk!Max(Risk!raised(d, base)) \in 0 .. 2 /\ Risk!Max(Risk!raised(d, more)) \in 0 .. 2
      /\ Risk!Max(Risk!raised(d, more)) >= Risk!Max(Risk!raised(d, base))
  BY <1>3, TiersInRange, TopGrows
<1>. QED BY <1>4 DEF Risk!classifySend

LEMMA AgentsTierHigher ==
  ASSUME NEW T, NEW d \in Draft(T), NEW ctx
  PROVE  Risk!classifySend([d EXCEPT !.author =
           "agent"], ctx) >= Risk!classifySend([d EXCEPT !.author = "user"], ctx)
<1>. DEFINE a == [d EXCEPT !.author = "agent"]
            u == [d EXCEPT !.author = "user"]
<1>1. /\ a.to = u.to /\ a.keyword = u.keyword /\ a.file = u.file /\ a.thread = u.thread
      /\ a.feed = u.feed /\ a.homograph = u.homograph /\ a.author = "agent" /\ u.author = "user"
  BY DEF Draft
<1>. HIDE DEF a, u
<1>2. Risk!external(a) = Risk!external(u)
  BY <1>1 DEF Risk!external
<1>3. ~Risk!trusted(a, ctx)
  BY <1>1 DEF Risk!trusted
<1>4. Risk!imitation(a, ctx) = Risk!imitation(u, ctx)
  BY <1>2 DEF Risk!imitation
<1>5. Risk!threadTier(a) = Risk!threadTier(u) /\ Risk!llmTier(a, ctx.llm) = Risk!llmTier(u, ctx.llm)
  BY <1>1, <1>2 DEF Risk!threadTier, Risk!llmTier
<1>6. Risk!raised(u, ctx) \subseteq Risk!raised(a, ctx)
  BY <1>1, <1>2, <1>3, <1>4, <1>5 DEF Risk!raised
<1>7. Risk!Max(Risk!raised(u, ctx)) \in 0 .. 2 /\ Risk!Max(Risk!raised(a, ctx)) \in 0 .. 2
      /\ Risk!Max(Risk!raised(a, ctx)) >= Risk!Max(Risk!raised(u, ctx))
  BY <1>6, TiersInRange, TopGrows
<1>8. Risk!classifySend(a, ctx) >= Risk!classifySend(u, ctx)
  BY <1>1, <1>7 DEF Risk!classifySend
<1>. QED BY <1>8 DEF a, u

LEMMA EvidenceSound == ASSUME RiskConstants PROVE Risk!EvidenceOnlyRaises
<1>. DEFINE ctx(got, feed, custom, llm) ==
       [rows |-> Risk!getSendContext(got), custom |-> custom, trust |-> Trusting, feed |-> feed,
         llm |-> llm]
<1>1. PICK T : Samples \subseteq Draft(T)
  BY DEF RiskConstants
<1>2. ASSUME NEW d \in Samples, NEW got \in BOOLEAN, NEW feed \in BOOLEAN, NEW custom \in BOOLEAN,
             NEW l \in Risk!OUTBOUND_LLM_LABELS \cup {"error", "unavailable"}
      PROVE  Risk!classifySend(d, ctx(got, feed, custom, l)) >= Risk!classifySend(d, ctx(got,
               FALSE, FALSE, None))
  <2>1. d \in Draft(T)
    BY <1>1
  <2>2. None \notin Risk!OUTBOUND_LLM_LABELS \cup {"error"}
    BY DEF RiskConstants
  <2>. DEFINE r == Risk!getSendContext(got)
              base == [rows |-> r, custom |-> FALSE, trust |-> Trusting, feed |-> FALSE, llm |-> None]
              more == [rows |-> r, custom |-> custom, trust |-> Trusting, feed |-> feed, llm |-> l]
  <2>3. base = ctx(got, FALSE, FALSE, None) /\ more = ctx(got, feed, custom, l)
    OBVIOUS
  <2>. HIDE DEF r, ctx
  <2>4. Risk!classifySend(d, more) >= Risk!classifySend(d, base)
    BY <2>1, <2>2, EvidenceRaises
  <2>. QED BY <2>3, <2>4
<1>3. ASSUME NEW d \in Samples, NEW got \in BOOLEAN
      PROVE  Risk!classifySend([d EXCEPT !.author = "agent"], ctx(got, TRUE, TRUE, None))
               >= Risk!classifySend([d EXCEPT !.author = "user"], ctx(got, TRUE, TRUE, None))
  <2>1. d \in Draft(T)
    BY <1>1
  <2>. QED BY <2>1, AgentsTierHigher
<1>. QED BY <1>2, <1>3 DEF Risk!EvidenceOnlyRaises

(* ---------------------------------------------------------- the invariant --- *)

LEMMA InitRiskInv == ASSUME RiskConstants, Risk!Init PROVE RiskInv
<1>1. 0 \in 0 .. MaxTime /\ 0 \in 0 .. MaxFailures /\ 0 <= MaxHtml
  BY DEF RiskConstants
<1>2. <<>> \in Seq(Words) /\ Len(<<>>) = 0
  OBVIOUS
<1>3. RiskTypes
  BY <1>1, <1>2 DEF Risk!Init, RiskTypes
<1>4. LogFits /\ GraphFits
  <2>1. log = {} /\ Delivered = {}
    BY DEF Risk!Init, Delivered
  <2>. QED BY <2>1, FS_EmptySet DEF Risk!Init, LogFits, GraphFits, Past
<1>5. VerdictsHold /\ Earned
  BY DEF Risk!Init, VerdictsHold, Earned, Risk!TrustIsEarned
<1>. QED BY <1>3, <1>4, <1>5 DEF RiskInv

\* Nothing is touched but the clock and the body being split.
LEMMA QuietRiskInv ==
  ASSUME RiskConstants, RiskInv, Risk!tick \/ UNCHANGED Risk!vars
           \/ \E w \in Words : Risk!type(w) PROVE RiskInv'
<1>1. UNCHANGED <<graph, cache, previewed, gated, log, faults>>
  BY DEF Risk!tick, Risk!vars, Risk!type
<1>2. now \in Nat /\ now' \in 0 .. MaxTime /\ now' >= now
  BY DEF Risk!tick, Risk!vars, Risk!type, RiskInv, RiskTypes, RiskConstants
<1>3. html' \in Seq(Words) /\ Len(html') <= MaxHtml
  <2>1. html \in Seq(Words) /\ Len(html) <= MaxHtml /\ MaxHtml \in Nat
    BY DEF RiskInv, RiskTypes, RiskConstants
  <2>2. ASSUME NEW w \in Words, html' = Append(html, w), Len(html) < MaxHtml
        PROVE  html' \in Seq(Words) /\ Len(html') <= MaxHtml
    <3>1. html' \in Seq(Words) /\ Len(html') = Len(html) + 1
      BY <2>1, <2>2
    <3>. QED BY <2>1, <2>2, <3>1
  <2>3. html' = html \/ \E w \in Words : html' = Append(html, w) /\ Len(html) < MaxHtml
    BY DEF Risk!tick, Risk!vars, Risk!type
  <2>. QED BY <2>1, <2>2, <2>3
<1>4. RiskTypes'
  BY <1>1, <1>2, <1>3 DEF RiskInv, RiskTypes
<1>5. LogFits'
  <2>1. \A l \in log : l.at \in Nat
    BY DEF RiskInv, RiskTypes
  <2>. QED BY <1>1, <1>2, <2>1 DEF RiskInv, LogFits, Delivered
<1>6. GraphFits'
  BY <1>1 DEF RiskInv, GraphFits, RowFits, Past
<1>7. VerdictsHold'
  <2>1. \A i \in Risk!Ids : previewed[i] # None /\ previewed[i].stored # None =>
          previewed[i].stored \in Nat
    BY DEF RiskInv, RiskTypes, Risk!Assessment
  <2>2. Ttl \in Nat
    BY DEF RiskConstants
  <2>3. \A i \in Risk!Ids : (previewed[i] # None /\ previewed[i].stored # None
          /\ now' < previewed[i].stored + Ttl) =>
          now < previewed[i].stored + Ttl
    BY <1>2, <2>1, <2>2
  <2>. QED BY <1>1, <2>3 DEF RiskInv, VerdictsHold, Backed, KeyOf
<1>8. Earned'
  <2>1. \A i \in Risk!Ids : gated[i] # None => gated[i].at \in Nat
    BY DEF RiskInv, RiskTypes, Risk!Assessment
  <2>2. \A i \in Risk!Ids : gated[i] # None => gated[i].at <= now'
    BY <1>2, <2>1 DEF RiskInv, Earned
  <2>3. Risk!TrustIsEarned'
    BY <1>1 DEF RiskInv, Earned, Risk!TrustIsEarned, Risk!external
  <2>. QED BY <1>1, <2>2, <2>3 DEF Earned
<1>. QED BY <1>4, <1>5, <1>6, <1>7, <1>8 DEF RiskInv

\* What the gate or a preflight finds in the history is what was delivered.
LEMMA TrustRests ==
  ASSUME RiskConstants, RiskInv, NEW i \in Risk!Ids, Risk!external(Drafts[i]) # {}, NEW v, NEW lost,
         Risk!trusted(Drafts[i], Risk!gatherSendContext(i, v, lost))
  PROVE  /\ "rows" \notin lost /\ Trusting
         /\ \A a \in Risk!external(Drafts[i]) :
              /\ Cardinality(Past(a)) >= Risk!ESTABLISHED_MIN_SENDS
              /\ \E l \in Past(a) : l.at + MinAge <= now
              /\ \E l \in Past(a) : l.at + MaxIdle >= now
<1>. DEFINE ctx == Risk!gatherSendContext(i, v, lost)
<1>1. /\ ctx.rows = Risk!getSendContext("rows" \notin lost)
      /\ ctx.trust = ("settings" \notin lost /\ Trusting)
  BY DEF Risk!gatherSendContext
<1>2. /\ ctx.trust /\ ctx.rows # None
      /\ \A a \in Risk!external(Drafts[i]) : Risk!isEstablished(ctx.rows.history, a)
  BY DEF Risk!trusted
<1>. HIDE DEF ctx
<1>3. "rows" \notin lost
  BY <1>1, <1>2 DEF Risk!getSendContext
<1>4. ctx.rows.history = graph
  BY <1>1, <1>3 DEF Risk!getSendContext
<1>5. Trusting
  BY <1>1, <1>2
<1>6. ASSUME NEW a \in Risk!external(Drafts[i])
      PROVE  /\ Cardinality(Past(a)) >= Risk!ESTABLISHED_MIN_SENDS
             /\ \E l \in Past(a) : l.at + MinAge <= now
             /\ \E l \in Past(a) : l.at + MaxIdle >= now
  <2>1. a \in Risk!Addresses
    BY DEF Risk!external, RiskConstants, Draft
  <2>2. /\ graph[a] # None /\ graph[a].count >= Risk!ESTABLISHED_MIN_SENDS
        /\ now >= graph[a].first + MinAge /\ now <= graph[a].last + MaxIdle
    BY <1>2, <1>4 DEF Risk!isEstablished
  <2>3. RowFits(a)
    BY <2>1, <2>2 DEF RiskInv, GraphFits
  <2>4. graph[a].first \in Nat /\ graph[a].last \in Nat /\ MinAge \in Nat /\ MaxIdle \in Nat
          /\ now \in Nat
    BY <2>1, <2>2 DEF RiskInv, RiskTypes, SendRows, RiskConstants
  <2>. QED BY <2>2, <2>3, <2>4 DEF RowFits
<1>. QED BY <1>3, <1>5, <1>6

\* An assessment is of the moment, with a tier of the rules.
LEMMA AssessmentType ==
  ASSUME RiskConstants, RiskInv, NEW i \in Risk!Ids, NEW answer \in Answers, NEW lost \in Losses,
         NEW v, v = Risk!gatherLlmVerdict(i, answer, lost, "settings" \notin lost)
  PROVE  /\ Risk!assessSendRisk(i, answer, lost) \in Risk!Assessment
         /\ Risk!assessSendRisk(i, answer, lost).at = now
         /\ Risk!assessSendRisk(i, answer, lost).llm = v.llm
              /\ Risk!assessSendRisk(i, answer, lost).stored = v.stored
         /\ Risk!assessSendRisk(i, answer, lost).rows = ("rows" \notin lost)
         /\ Risk!assessSendRisk(i, answer, lost).tier = Risk!classifySend(Drafts[i],
              Risk!gatherSendContext(i, v, lost))
         /\ v.cache \in [Risk!Keys -> Verdict \cup {None}]
<1>. DEFINE set == "settings" \notin lost
            r == Risk!parseOutboundOutput(answer)
            k == KeyOf(i)
<1>1. now \in 0 .. MaxTime /\ cache \in [Risk!Keys -> Verdict \cup {None}]
  BY DEF RiskInv, RiskTypes
<1>2. r.label \in Risk!OUTBOUND_LLM_LABELS \cup {"unavailable", "error"}
      /\ (r.cacheable => r.label \in Risk!OUTBOUND_LLM_LABELS)
  BY DEF Risk!parseOutboundOutput, RiskConstants, Risk!OUTBOUND_LLM_LABELS
<1>3. Drafts[i].text # None => k \in Risk!Keys
  BY DEF Risk!Keys, KeyOf
<1>. HIDE DEF r
<1>4. /\ v.llm \in Risk!OUTBOUND_LLM_LABELS \cup {"unavailable", "error", None}
      /\ v.stored \in 0 .. MaxTime \cup {None}
      /\ v.cache \in [Risk!Keys -> Verdict \cup {None}]
  <2>1. CASE (set /\ ~LlmEnabled) \/ Drafts[i].text = None
    <3>1. v = [llm |-> None, stored |-> None, cache |-> cache]
      BY <2>1 DEF Risk!gatherLlmVerdict
    <3>. QED BY <1>1, <3>1
  <2>2. CASE ~((set /\ ~LlmEnabled) \/ Drafts[i].text = None) /\ "cache" \notin lost /\ Risk!fresh(k)
    <3>1. v = [llm |-> cache[k].label, stored |-> cache[k].at, cache |-> cache]
      BY <2>2 DEF Risk!gatherLlmVerdict, KeyOf
    <3>2. cache[k] \in Verdict
      BY <1>1, <1>3, <2>2 DEF Risk!fresh
    <3>. HIDE DEF k
    <3>. QED BY <1>1, <3>1, <3>2 DEF Verdict
  <2>3. CASE ~((set /\ ~LlmEnabled) \/ Drafts[i].text = None) /\ ~("cache" \notin lost /\ Risk!fresh(k))
    <3>. DEFINE puts == r.cacheable /\ "put" \notin lost
                filled == [x \in Risk!Keys |-> IF x = k THEN [label |-> r.label, at |-> now]
                                          ELSE IF Risk!fresh(x) THEN cache[x] ELSE None]
    <3>1. v = [llm |-> r.label, stored |-> IF puts THEN now ELSE None,
               cache |-> IF puts THEN filled ELSE cache]
      BY <2>3 DEF Risk!gatherLlmVerdict, KeyOf, r
    <3>2. puts => filled \in [Risk!Keys -> Verdict \cup {None}]
      BY <1>1, <1>2 DEF Verdict
    <3>. HIDE DEF filled, puts
    <3>. QED BY <1>1, <1>2, <3>1, <3>2
  <2>. QED BY <2>1, <2>2, <2>3
<1>. DEFINE a == Risk!assessSendRisk(i, answer, lost)
<1>5. a = [tier |-> Risk!classifySend(Drafts[i], Risk!gatherSendContext(i, v, lost)),
        llm |-> v.llm, at |-> now,
           stored |-> v.stored, rows |-> "rows" \notin lost]
  BY DEF Risk!assessSendRisk
<1>. HIDE DEF a
<1>6. Risk!classifySend(Drafts[i], Risk!gatherSendContext(i, v, lost)) \in 0 .. 2
  BY TierType
<1>7. a \in Risk!Assessment
  BY <1>1, <1>4, <1>5, <1>6 DEF Risk!Assessment
<1>. QED BY <1>4, <1>5, <1>7 DEF a

\* No call for the verdict fails.
Spared(lost) == \A call \in {"settings", "cache", "put"} : call \notin lost

\* Where nothing is lost: a fresh verdict stays and is the one used, and one
\* that is stored is the one given.
Served(i, v) ==
  /\ \A k \in Risk!Keys : Risk!fresh(k) => v.cache[k] = cache[k]
  /\ v.stored # None => /\ LlmEnabled /\ Drafts[i].text # None
                        /\ v.cache[KeyOf(i)] = [label |-> v.llm, at |-> v.stored]
                        /\ v.cache[KeyOf(i)] \in Verdict
  /\ (LlmEnabled /\ Drafts[i].text # None /\ Risk!fresh(KeyOf(i))) => v.llm = cache[KeyOf(i)].label
LEMMA VerdictServed ==
  ASSUME RiskConstants, RiskInv, NEW i \in Risk!Ids, NEW answer \in Answers,
         NEW lost, Spared(lost), NEW v, v = Risk!gatherLlmVerdict(i, answer, lost,
           "settings" \notin lost)
  PROVE  Served(i, v)
<1>. USE DEF Served
<1>. DEFINE r == Risk!parseOutboundOutput(answer)
            off == ~LlmEnabled \/ Drafts[i].text = None
<1>1. now \in 0 .. MaxTime /\ cache \in [Risk!Keys -> Verdict \cup {None}]
  BY DEF RiskInv, RiskTypes
<1>2. r.cacheable => r.label \in Risk!OUTBOUND_LLM_LABELS
  BY DEF Risk!parseOutboundOutput
<1>3. Drafts[i].text # None => KeyOf(i) \in Risk!Keys
  BY DEF Risk!Keys, KeyOf
<1>. HIDE DEF r
<1>4. CASE off
  <2>1. v = [llm |-> None, stored |-> None, cache |-> cache]
    BY <1>4 DEF Spared, Risk!gatherLlmVerdict
  <2>. QED BY <1>4, <2>1
<1>5. CASE ~off /\ Risk!fresh(KeyOf(i))
  <2>1. v = [llm |-> cache[KeyOf(i)].label, stored |-> cache[KeyOf(i)].at, cache |-> cache]
    BY <1>5 DEF Spared, Risk!gatherLlmVerdict, KeyOf
  <2>2. cache[KeyOf(i)] \in Verdict
    BY <1>1, <1>3, <1>5 DEF Risk!fresh
  <2>3. cache[KeyOf(i)] = [label |-> cache[KeyOf(i)].label, at |-> cache[KeyOf(i)].at]
    BY <2>2 DEF Verdict
  <2>4. v.llm = cache[KeyOf(i)].label /\ v.stored = cache[KeyOf(i)].at /\ v.cache = cache
    BY <2>1
  <2>. QED BY <1>5, <2>2, <2>3, <2>4
<1>6. CASE ~off /\ ~Risk!fresh(KeyOf(i))
  <2>. DEFINE filled == [x \in Risk!Keys |-> IF x = KeyOf(i) THEN [label |-> r.label, at |-> now]
                                        ELSE IF Risk!fresh(x) THEN cache[x] ELSE None]
              st == IF r.cacheable THEN now ELSE None
              ca == IF r.cacheable THEN filled ELSE cache
  <2>1. v = [llm |-> r.label, stored |-> st, cache |-> ca]
    BY <1>6 DEF Spared, Risk!gatherLlmVerdict, KeyOf, r
  <2>2. r.cacheable => filled[KeyOf(i)] = [label |-> r.label, at |-> now]
          /\ filled[KeyOf(i)] \in Verdict
    BY <1>1, <1>2, <1>3, <1>6 DEF Verdict
  <2>3. \A x \in Risk!Keys : Risk!fresh(x) => filled[x] = cache[x]
    BY <1>6
  <2>. HIDE DEF filled, st, ca
  <2>4. v.llm = r.label /\ v.stored = st /\ v.cache = ca
    BY <2>1
  <2>5. CASE r.cacheable
    <3>1. v.stored = now /\ v.cache = filled
      BY <2>4, <2>5 DEF st, ca
    <3>. QED BY <1>6, <2>2, <2>3, <2>4, <2>5, <3>1
  <2>6. CASE ~r.cacheable
    <3>1. v.stored = None /\ v.cache = cache
      BY <2>4, <2>6 DEF st, ca
    <3>. QED BY <1>6, <3>1
  <2>. QED BY <2>5, <2>6
<1>. QED BY <1>4, <1>5, <1>6

\* What a preflight and the gate do alike.
LEMMA AssessKeeps ==
  ASSUME RiskConstants, RiskInv, NEW i \in Risk!Ids, NEW answer \in Answers, NEW lost \in Losses,
           Risk!lose(lost),
         NEW v, v = Risk!gatherLlmVerdict(i, answer, lost, "settings" \notin lost), cache' = v.cache,
         UNCHANGED <<now, graph, log, html>>
  PROVE  /\ faults' \in 0 .. MaxFailures /\ LogFits' /\ GraphFits'
         /\ faults' = 0 => /\ faults = 0 /\ Spared(lost)
                           /\ \A j \in Risk!Ids : (previewed[j] # None
                                /\ previewed[j].stored # None /\ gated[j] = None) =>
                                LlmEnabled /\ Drafts[j].text # None
                                /\ (now < previewed[j].stored + Ttl =>
                                      /\ Risk!fresh(KeyOf(j)) /\ cache'[KeyOf(j)] = cache[KeyOf(j)]
                                      /\ cache[KeyOf(j)] = [label |-> previewed[j].llm,
                                           at |-> previewed[j].stored])
<1>1. IsFiniteSet(lost) /\ Cardinality(lost) \in Nat /\ faults \in Nat /\ MaxFailures \in Nat
  BY FS_CardinalityType DEF RiskConstants, RiskInv, RiskTypes
<1>2. faults' = faults + Cardinality(lost) /\ faults + Cardinality(lost) <= MaxFailures
  BY RiskCardinality DEF Risk!lose
<1>3. faults' \in 0 .. MaxFailures /\ (faults' = 0 => faults = 0 /\ Cardinality(lost) = 0)
  BY <1>1, <1>2
<1>4. faults' = 0 => lost = {}
  BY <1>1, <1>3, FS_EmptySet
<1>5. LogFits' /\ GraphFits'
  BY DEF RiskInv, LogFits, Delivered, GraphFits, RowFits, Past
<1>6. ASSUME faults' = 0, NEW j \in Risk!Ids, previewed[j] # None, previewed[j].stored # None,
               gated[j] = None
      PROVE  LlmEnabled /\ Drafts[j].text # None
             /\ (now < previewed[j].stored + Ttl =>
                   /\ Risk!fresh(KeyOf(j)) /\ cache'[KeyOf(j)] = cache[KeyOf(j)]
                   /\ cache[KeyOf(j)] = [label |-> previewed[j].llm, at |-> previewed[j].stored])
  <2>1. faults = 0 /\ lost = {} /\ Backed(j)
    BY <1>3, <1>4, <1>6 DEF RiskInv, VerdictsHold
  <2>2. SUFFICES ASSUME now < previewed[j].stored + Ttl
                 PROVE  /\ Risk!fresh(KeyOf(j)) /\ cache'[KeyOf(j)] = cache[KeyOf(j)]
                        /\ cache[KeyOf(j)] = [label |-> previewed[j].llm, at |-> previewed[j].stored]
    BY <2>1 DEF Backed
  <2>3. cache[KeyOf(j)] # None /\ cache[KeyOf(j)] = [label |-> previewed[j].llm,
          at |-> previewed[j].stored]
        /\ Drafts[j].text # None
    BY <2>1, <2>2 DEF Backed
  <2>4. previewed[j].stored \in Nat /\ now \in Nat /\ Ttl \in Nat
    BY <1>6 DEF RiskInv, RiskTypes, Risk!Assessment, RiskConstants
  <2>5. cache[KeyOf(j)].at = previewed[j].stored
    BY <2>3
  <2>6. Risk!fresh(KeyOf(j))
    BY <2>2, <2>3, <2>4, <2>5 DEF Risk!fresh
  <2>7. KeyOf(j) \in Risk!Keys
    BY <2>3 DEF Risk!Keys, KeyOf
  <2>8. \A k \in Risk!Keys : Risk!fresh(k) => v.cache[k] = cache[k]
    <3>1. Spared(lost)
      BY <2>1 DEF Spared
    <3>2. Served(i, v)
      BY <3>1, VerdictServed
    <3>. QED BY <3>2 DEF Served
  <2>9. v.cache[KeyOf(j)] = cache[KeyOf(j)]
    BY <2>6, <2>7, <2>8
  <2>. QED BY <2>3, <2>6, <2>9
<1>. QED BY <1>3, <1>4, <1>5, <1>6 DEF Spared

LEMMA PreflightRiskInv ==
  ASSUME RiskConstants, RiskInv, NEW i \in Risk!Ids, NEW answer \in Answers, NEW lost \in Losses,
         Risk!preflight(i, answer, lost)
  PROVE  RiskInv'
<1>. DEFINE v == Risk!gatherLlmVerdict(i, answer, lost, "settings" \notin lost)
            a == Risk!assessSendRisk(i, answer, lost)
<1>1. /\ gated[i] = None /\ Risk!lose(lost) /\ previewed' = [previewed EXCEPT ![i] = a]
           /\ cache' = v.cache
      /\ UNCHANGED <<now, graph, gated, log, html>>
  BY DEF Risk!preflight
<1>2. /\ a \in Risk!Assessment /\ a.llm = v.llm /\ a.stored = v.stored
           /\ v.cache \in [Risk!Keys -> Verdict \cup {None}]
  BY AssessmentType
<1>. DEFINE Clean(j) == LlmEnabled /\ Drafts[j].text # None
              /\ (now < previewed[j].stored + Ttl =>
                    /\ Risk!fresh(KeyOf(j)) /\ cache'[KeyOf(j)] = cache[KeyOf(j)]
                    /\ cache[KeyOf(j)] = [label |-> previewed[j].llm, at |-> previewed[j].stored])
<1>3. /\ faults' \in 0 .. MaxFailures /\ LogFits' /\ GraphFits'
      /\ faults' = 0 => /\ faults = 0 /\ Spared(lost)
                        /\ \A j \in Risk!Ids : (previewed[j] # None
                             /\ previewed[j].stored # None /\ gated[j] = None) => Clean(j)
  BY <1>1, AssessKeeps
<1>4. (Spared(lost) /\ v.stored # None) =>
        /\ LlmEnabled /\ Drafts[i].text # None
        /\ v.cache[KeyOf(i)] = [label |-> v.llm, at |-> v.stored] /\ v.cache[KeyOf(i)] \in Verdict
  BY VerdictServed DEF Served
<1>. HIDE DEF v, a
<1>5. RiskTypes'
  BY <1>1, <1>2, <1>3 DEF RiskInv, RiskTypes
<1>6. previewed'[i] = a /\ \A j \in Risk!Ids \ {i} : previewed'[j] = previewed[j]
  BY <1>1 DEF RiskInv, RiskTypes
<1>7. ASSUME faults' = 0, previewed'[i].stored # None PROVE Backed(i)'
  BY <1>1, <1>2, <1>3, <1>4, <1>6, <1>7 DEF Backed, KeyOf, RiskConstants
<1>8. ASSUME faults' = 0, NEW j \in Risk!Ids \ {i}, previewed[j] # None,
               previewed[j].stored # None, gated[j] = None
      PROVE  Backed(j)'
  BY <1>1, <1>3, <1>6, <1>8 DEF Backed, KeyOf, Risk!fresh
<1>9. VerdictsHold'
  <2>1. SUFFICES ASSUME faults' = 0, NEW j \in Risk!Ids, previewed'[j] # None,
          previewed'[j].stored # None
                 PROVE  IF gated[j] = None THEN Backed(j)'
                        ELSE gated[j].at < previewed'[j].stored + Ttl =>
                          gated[j].llm = previewed'[j].llm
    BY <1>1 DEF VerdictsHold
  <2>2. CASE j = i
    BY <1>1, <1>7, <2>1, <2>2
  <2>3. CASE j # i
    BY <1>3, <1>6, <1>8, <2>1, <2>3 DEF RiskInv, VerdictsHold
  <2>. QED BY <2>2, <2>3
<1>10. Earned'
  BY <1>1 DEF RiskInv, Earned, Risk!TrustIsEarned, Risk!external
<1>. QED BY <1>3, <1>5, <1>9, <1>10 DEF RiskInv

LEMMA GateRiskInv ==
  ASSUME RiskConstants, RiskInv, NEW i \in Risk!Ids, NEW answer \in Answers, NEW lost \in Losses,
         Risk!gate(i, answer, lost)
  PROVE  RiskInv'
<1>. DEFINE v == Risk!gatherLlmVerdict(i, answer, lost, "settings" \notin lost)
            a == Risk!assessSendRisk(i, answer, lost)
<1>1. /\ gated[i] = None /\ Risk!lose(lost) /\ gated' = [gated EXCEPT ![i] = a] /\ cache' = v.cache
      /\ UNCHANGED <<now, graph, previewed, log, html>>
  BY DEF Risk!gate
<1>2. /\ a \in Risk!Assessment /\ a.llm = v.llm /\ a.at = now /\ a.rows = ("rows" \notin lost)
      /\ a.tier = Risk!classifySend(Drafts[i], Risk!gatherSendContext(i, v, lost))
      /\ v.cache \in [Risk!Keys -> Verdict \cup {None}]
  BY AssessmentType
<1>. DEFINE Clean(j) == LlmEnabled /\ Drafts[j].text # None
              /\ (now < previewed[j].stored + Ttl =>
                    /\ Risk!fresh(KeyOf(j)) /\ cache'[KeyOf(j)] = cache[KeyOf(j)]
                    /\ cache[KeyOf(j)] = [label |-> previewed[j].llm, at |-> previewed[j].stored])
<1>3. /\ faults' \in 0 .. MaxFailures /\ LogFits' /\ GraphFits'
      /\ faults' = 0 => /\ faults = 0 /\ Spared(lost)
                        /\ \A j \in Risk!Ids : (previewed[j] # None
                             /\ previewed[j].stored # None /\ gated[j] = None) => Clean(j)
  BY <1>1, AssessKeeps
<1>4. (Spared(lost) /\ LlmEnabled /\ Drafts[i].text # None /\ Risk!fresh(KeyOf(i))) =>
        v.llm = cache[KeyOf(i)].label
  <2>1. SUFFICES ASSUME Spared(lost), LlmEnabled, Drafts[i].text # None, Risk!fresh(KeyOf(i))
                 PROVE  v.llm = cache[KeyOf(i)].label
    OBVIOUS
  <2>2. Served(i, v)
    BY <2>1, VerdictServed
  <2>. HIDE DEF v
  <2>. QED BY <2>1, <2>2 DEF Served
<1>5. (a.tier = 0 /\ Risk!external(Drafts[i]) # {}) =>
        /\ "rows" \notin lost /\ Trusting
        /\ \A b \in Risk!external(Drafts[i]) :
              /\ Cardinality(Past(b)) >= Risk!ESTABLISHED_MIN_SENDS
              /\ \E l \in Past(b) : l.at + MinAge <= now
              /\ \E l \in Past(b) : l.at + MaxIdle >= now
  <2>1. SUFFICES ASSUME a.tier = 0, Risk!external(Drafts[i]) # {}
                 PROVE  /\ "rows" \notin lost /\ Trusting
                        /\ \A b \in Risk!external(Drafts[i]) :
                              /\ Cardinality(Past(b)) >= Risk!ESTABLISHED_MIN_SENDS
                              /\ \E l \in Past(b) : l.at + MinAge <= now
                              /\ \E l \in Past(b) : l.at + MaxIdle >= now
    OBVIOUS
  <2>2. Risk!trusted(Drafts[i], Risk!gatherSendContext(i, v, lost))
    BY <1>2, <2>1, TierZero
  <2>. HIDE DEF v, a
  <2>. QED BY <2>1, <2>2, TrustRests
<1>. HIDE DEF v, a
<1>6. RiskTypes'
  BY <1>1, <1>2, <1>3 DEF RiskInv, RiskTypes
<1>7. gated'[i] = a /\ \A j \in Risk!Ids \ {i} : gated'[j] = gated[j]
  BY <1>1 DEF RiskInv, RiskTypes
<1>8. VerdictsHold'
  <2>1. SUFFICES ASSUME faults' = 0, NEW j \in Risk!Ids, previewed[j] # None, previewed[j].stored # None
                 PROVE  IF gated'[j] = None THEN Backed(j)'
                        ELSE gated'[j].at < previewed[j].stored + Ttl =>
                          gated'[j].llm = previewed[j].llm
    BY <1>1 DEF VerdictsHold
  <2>2. a # None
    BY <1>2 DEF RiskConstants
  <2>3. ASSUME j = i, now < previewed[i].stored + Ttl PROVE v.llm = previewed[i].llm
    <3>1. Clean(i) /\ Spared(lost)
      BY <1>1, <1>3, <2>1, <2>3
    <3>. QED BY <1>4, <2>3, <3>1
  <2>4. CASE j = i
    BY <1>2, <1>7, <2>2, <2>3, <2>4
  <2>5. CASE j # i /\ gated[j] = None
    <3>1. Clean(j)
      BY <1>3, <2>1, <2>5
    <3>. QED BY <1>1, <1>7, <2>5, <3>1 DEF Backed, KeyOf, Risk!fresh
  <2>6. CASE j # i /\ gated[j] # None
    BY <1>3, <1>7, <2>1, <2>6 DEF RiskInv, VerdictsHold
  <2>. QED BY <2>4, <2>5, <2>6
<1>9. Earned'
  <2>1. now \in Nat
    BY DEF RiskInv, RiskTypes
  <2>2. \A j \in Risk!Ids : gated'[j] # None => gated'[j].at <= now'
    BY <1>1, <1>2, <1>7, <2>1 DEF RiskInv, Earned
  <2>3. \A b : {l \in log : b \in Drafts[l.id].to /\ l.at <= now} = Past(b)
    BY DEF Past, RiskInv, LogFits
  <2>4. ASSUME a.tier = 0, Risk!external(Drafts[i]) # {}
        PROVE  /\ a.rows /\ Trusting
               /\ \A b \in Risk!external(Drafts[i]) :
                    LET past == {l \in log : b \in Drafts[l.id].to /\ l.at <= a.at} IN
                    /\ Cardinality(past) >= Risk!ESTABLISHED_MIN_SENDS
                    /\ \E l \in past : l.at + MinAge <= a.at
                    /\ \E l \in past : l.at + MaxIdle >= a.at
    BY <1>2, <1>5, <2>3, <2>4
  <2>5. Risk!TrustIsEarned'
    <3>1. SUFFICES ASSUME NEW j \in Risk!Ids, gated'[j] # None, gated'[j].tier = 0,
            Risk!external(Drafts[j]) # {}
                   PROVE  /\ gated'[j].rows /\ Trusting
                          /\ \A b \in Risk!external(Drafts[j]) :
                               LET past == {l \in log : b \in Drafts[l.id].to
                                 /\ l.at <= gated'[j].at} IN
                               /\ Cardinality(past) >= Risk!ESTABLISHED_MIN_SENDS
                               /\ \E l \in past : l.at + MinAge <= gated'[j].at
                               /\ \E l \in past : l.at + MaxIdle >= gated'[j].at
      BY <1>1, RiskCardinality DEF Risk!TrustIsEarned, Risk!external
    <3>2. CASE j = i
      BY <1>7, <2>4, <3>1, <3>2
    <3>3. CASE j # i
      BY <1>7, <3>1, <3>3, RiskCardinality DEF RiskInv, Earned, Risk!TrustIsEarned
    <3>. QED BY <3>2, <3>3
  <2>. QED BY <2>2, <2>5 DEF Earned
<1>. QED BY <1>3, <1>6, <1>8, <1>9 DEF RiskInv

LEMMA DeliverRiskInv == ASSUME RiskConstants, RiskInv, NEW i \in Risk!Ids, Risk!deliver(i)
PROVE RiskInv'
<1>. DEFINE new == [id |-> i, at |-> now]
            to == Drafts[i].to
<1>1. /\ gated[i] # None /\ (\A l \in log : l.id # i) /\ log' = log \cup {new}
      /\ UNCHANGED <<now, cache, previewed, gated, faults, html>>
  BY DEF Risk!deliver
<1>2. now \in 0 .. MaxTime /\ now \in Nat /\ log \subseteq [id : Risk!Ids, at : 0 .. MaxTime]
      /\ new \in [id : Risk!Ids, at : 0 .. MaxTime] /\ new.id = i /\ new.at = now
  BY DEF RiskInv, RiskTypes
<1>3. graph \in [Risk!Addresses -> SendRows \cup {None}]
  BY DEF RiskInv, RiskTypes
<1>. HIDE DEF new, to
<1>4. \A a \in Risk!Addresses : (a \notin to /\ graph'[a] = graph[a])
        \/ (a \in to /\ graph[a] = None /\ graph'[a] = [count |-> 1, first |-> now, last |-> now])
        \/ (a \in to /\ graph[a] \in SendRows /\ graph[a] # None
            /\ graph'[a] = [count |-> graph[a].count + 1, first |-> graph[a].first, last |-> now])
  <2>1. graph' = [a \in Risk!Addresses |->
          IF a \notin to THEN graph[a]
          ELSE IF graph[a] = None THEN [count |-> 1, first |-> now, last |-> now]
          ELSE [graph[a] EXCEPT !.count = @ + 1, !.last = now]]
    BY DEF Risk!deliver, Risk!recordSentRecipients, to
  <2>2. \A a \in Risk!Addresses : graph[a] # None => graph[a] \in SendRows
    BY <1>3
  <2>3. ASSUME NEW r \in SendRows
        PROVE  [r EXCEPT !.count = @ + 1, !.last = now] = [count |-> r.count + 1,
                 first |-> r.first, last |-> now]
    <3>. DEFINE x == [r EXCEPT !.count = @ + 1, !.last = now]
    <3>. DEFINE n == r.count + 1
    <3>1. x \in SendRows
      <4>1. n \in Nat \ {0} /\ x = [r EXCEPT !.count = n, !.last = now]
        BY DEF SendRows
      <4>. HIDE DEF n, x
      <4>. QED BY <1>2, <4>1 DEF SendRows
    <3>2. x.count = r.count + 1 /\ x.first = r.first /\ x.last = now
      BY DEF SendRows
    <3>. HIDE DEF x
    <3>3. x = [count |-> x.count, first |-> x.first, last |-> x.last]
      BY <3>1 DEF SendRows
    <3>4. x = [count |-> r.count + 1, first |-> r.first, last |-> now]
      BY <3>2, <3>3
    <3>. QED BY <3>4 DEF x
  <2>. QED BY <2>1, <2>2, <2>3
<1>5. graph' \in [Risk!Addresses -> SendRows \cup {None}]
  <2>1. DOMAIN graph' = Risk!Addresses /\ graph' = [a \in Risk!Addresses |-> graph'[a]]
    BY DEF Risk!deliver, Risk!recordSentRecipients
  <2>2. \A a \in Risk!Addresses : graph'[a] \in SendRows \cup {None}
    <3>1. \A r \in SendRows : r.count + 1 \in Nat \ {0} /\ r.first \in 0 .. MaxTime
      BY DEF SendRows
    <3>2. [count |-> 1, first |-> now, last |-> now] \in SendRows
      BY <1>2 DEF SendRows
    <3>3. \A r \in SendRows : [count |-> r.count + 1, first |-> r.first, last |-> now] \in SendRows
      BY <1>2, <3>1 DEF SendRows
    <3>. QED BY <1>3, <1>4, <3>2, <3>3
  <2>. QED BY <2>1, <2>2
<1>6. RiskTypes'
  BY <1>1, <1>2, <1>5 DEF RiskInv, RiskTypes
<1>7. IsFiniteSet(log) /\ \A l \in log : l.at \in Nat /\ l.at <= now
  BY <1>2 DEF RiskInv, LogFits
<1>8. new \notin log
  BY <1>1, <1>2
<1>9. LogFits'
  <2>1. IsFiniteSet(log') /\ Cardinality(log') = Cardinality(log) + 1
    BY <1>1, <1>7, <1>8, FS_AddElement
  <2>2. Delivered' = Delivered \cup {i} /\ i \notin Delivered
    BY <1>1, <1>2 DEF Delivered
  <2>3. IsFiniteSet(Delivered)
    <3>1. Delivered \subseteq Risk!Ids
      BY <1>2 DEF Delivered
    <3>. QED BY <3>1, FS_Subset DEF RiskConstants
  <2>4. Cardinality(Delivered') = Cardinality(Delivered) + 1
    BY <2>2, <2>3, FS_AddElement
  <2>5. \A l \in log' : l.at <= now'
    BY <1>1, <1>2, <1>7
  <2>. QED BY <2>1, <2>4, <2>5 DEF RiskInv, LogFits
<1>10. \A a : Past(a)' = IF a \in to THEN Past(a) \cup {new} ELSE Past(a)
  BY <1>1, <1>2 DEF Past, to
<1>11. \A a : IsFiniteSet(Past(a)) /\ Cardinality(Past(a)) \in Nat /\ new \notin Past(a)
  <2>1. \A a : Past(a) \subseteq log
    BY DEF Past
  <2>. QED BY <1>7, <1>8, <2>1, FS_Subset, FS_CardinalityType
<1>12. \A a : Cardinality(Past(a) \cup {new}) = Cardinality(Past(a)) + 1
  BY <1>11, FS_AddElement
<1>13. GraphFits'
  <2>1. SUFFICES ASSUME NEW a \in Risk!Addresses
                 PROVE  IF graph'[a] = None THEN Past(a)' = {} ELSE RowFits(a)'
    BY DEF GraphFits
  <2>2. IF graph[a] = None THEN Past(a) = {} ELSE RowFits(a)
    BY DEF RiskInv, GraphFits
  <2>3. CASE a \notin to
    <3>1. graph'[a] = graph[a] /\ Past(a)' = Past(a)
      BY <1>4, <1>10, <2>3
    <3>. QED BY <2>2, <3>1 DEF RowFits
  <2>4. CASE a \in to /\ graph[a] = None
    <3>1. graph'[a] = [count |-> 1, first |-> now, last |-> now] /\ Past(a)' = {} \cup {new}
      BY <1>4, <1>10, <2>2, <2>4
    <3>2. Cardinality(Past(a)) = 0 /\ Cardinality(Past(a)') = Cardinality(Past(a)) + 1
      BY <1>10, <1>12, <2>2, <2>4, FS_EmptySet
    <3>3. graph'[a].count = 1 /\ graph'[a].first = now /\ graph'[a].last = now /\ new \in Past(a)'
      BY <3>1
    <3>4. graph'[a] # None
      BY <1>2, <3>1 DEF RiskConstants, SendRows
    <3>. QED BY <1>2, <3>2, <3>3, <3>4 DEF RowFits
  <2>5. CASE a \in to /\ graph[a] # None
    <3>1. /\ graph'[a] = [count |-> graph[a].count + 1, first |-> graph[a].first, last |-> now]
          /\ Past(a)' = Past(a) \cup {new} /\ graph[a] \in SendRows
      BY <1>4, <1>10, <2>5
    <3>2. RowFits(a)
      BY <2>2, <2>5
    <3>3. Cardinality(Past(a)') = Cardinality(Past(a)) + 1
      BY <1>12, <3>1
    <3>4. graph'[a].count = graph[a].count + 1 /\ graph'[a].first = graph[a].first
            /\ graph'[a].last = now
      BY <3>1
    <3>5. graph'[a] # None
      <4>1. graph[a].count + 1 \in Nat \ {0} /\ graph[a].first \in 0 .. MaxTime
        BY <3>1 DEF SendRows
      <4>2. graph'[a] \in SendRows
        BY <1>2, <3>1, <4>1 DEF SendRows
      <4>. QED BY <4>2 DEF RiskConstants
    <3>6. (\E l \in Past(a) : l.at = graph[a].first) /\ new \in Past(a)' /\ Past(a) \subseteq Past(a)'
      BY <3>1, <3>2 DEF RowFits
    <3>7. graph'[a].count = Cardinality(Past(a)')
      BY <3>2, <3>3, <3>4 DEF RowFits
    <3>8. \E l \in Past(a)' : l.at = graph'[a].first
      BY <3>4, <3>6
    <3>9. \E l \in Past(a)' : l.at = graph'[a].last
      BY <1>2, <3>4, <3>6
    <3>. QED BY <3>5, <3>7, <3>8, <3>9 DEF RowFits
  <2>. QED BY <2>3, <2>4, <2>5
<1>14. VerdictsHold'
  BY <1>1 DEF RiskInv, VerdictsHold, Backed, KeyOf
<1>15. Earned'
  <2>1. \A j \in Risk!Ids : gated'[j] # None => gated'[j].at <= now'
    BY <1>1 DEF RiskInv, Earned
  <2>2. ASSUME NEW j \in Risk!Ids, gated[j] # None, gated[j].tier = 0, Risk!external(Drafts[j]) # {}
        PROVE  /\ gated[j].rows /\ Trusting
               /\ \A a \in Risk!external(Drafts[j]) :
                    LET past == {l \in log' : a \in Drafts[l.id].to /\ l.at <= gated[j].at} IN
                    /\ Cardinality(past) >= Risk!ESTABLISHED_MIN_SENDS
                    /\ \E l \in past : l.at + MinAge <= gated[j].at
                    /\ \E l \in past : l.at + MaxIdle >= gated[j].at
    <3>. DEFINE old(a) == {l \in log : a \in Drafts[l.id].to /\ l.at <= gated[j].at}
                past(a) == {l \in log' : a \in Drafts[l.id].to /\ l.at <= gated[j].at}
    <3>1. gated[j].rows /\ Trusting /\ \A a \in Risk!external(Drafts[j]) :
            /\ Cardinality(old(a)) >= Risk!ESTABLISHED_MIN_SENDS
            /\ \E l \in old(a) : l.at + MinAge <= gated[j].at
            /\ \E l \in old(a) : l.at + MaxIdle >= gated[j].at
      BY <2>2, RiskCardinality DEF RiskInv, Earned, Risk!TrustIsEarned
    <3>2. \A a : old(a) \subseteq past(a) /\ past(a) \subseteq log' /\ IsFiniteSet(log')
      BY <1>1, <1>9 DEF LogFits
    <3>. HIDE DEF old, past
    <3>3. \A a : IsFiniteSet(past(a))
      BY <3>2, FS_Subset
    <3>4. \A a : IsFiniteSet(old(a)) /\ Cardinality(old(a)) <= Cardinality(past(a))
      BY <3>2, <3>3, FS_Subset
    <3>5. \A a : Cardinality(old(a)) \in Nat /\ Cardinality(past(a)) \in Nat
      BY <3>3, <3>4, FS_CardinalityType
    <3>6. \A a \in Risk!external(Drafts[j]) : Cardinality(past(a)) >= Risk!ESTABLISHED_MIN_SENDS
      BY <3>1, <3>4, <3>5 DEF Risk!ESTABLISHED_MIN_SENDS
    <3>7. gated[j].rows /\ Trusting /\ \A a \in Risk!external(Drafts[j]) :
            /\ Cardinality(past(a)) >= Risk!ESTABLISHED_MIN_SENDS
            /\ \E l \in past(a) : l.at + MinAge <= gated[j].at
            /\ \E l \in past(a) : l.at + MaxIdle >= gated[j].at
      BY <3>1, <3>2, <3>6
    <3>. QED BY <3>7 DEF past
  <2>3. Risk!TrustIsEarned'
    BY <1>1, <2>2, RiskCardinality DEF Risk!TrustIsEarned, Risk!external
  <2>. QED BY <2>1, <2>3 DEF Earned
<1>. QED BY <1>6, <1>9, <1>13, <1>14, <1>15 DEF RiskInv

LEMMA NextRiskInv == ASSUME RiskConstants, RiskInv, [Risk!Next]_(Risk!vars) PROVE RiskInv'
<1>1. CASE Risk!tick \/ UNCHANGED Risk!vars \/ \E w \in Words : Risk!type(w)
  BY <1>1, QuietRiskInv
<1>2. CASE \E i \in Risk!Ids : Risk!deliver(i)
  BY <1>2, DeliverRiskInv
<1>3. CASE \E i \in Risk!Ids, answer \in Answers, lost \in Losses : Risk!preflight(i, answer,
        lost) \/ Risk!gate(i, answer, lost)
  BY <1>3, PreflightRiskInv, GateRiskInv
<1>. QED BY <1>1, <1>2, <1>3 DEF Risk!Next

LEMMA RiskImplied ==
  ASSUME RiskConstants, RiskInv
  PROVE  Risk!TypeOK /\ Risk!TrustIsEarned /\ Risk!ShownVerdictHolds /\ Risk!EvidenceOnlyRaises
<1>1. Risk!TypeOK
  <2>1. \A a : Cardinality(Past(a)) \in Nat /\ Cardinality(Past(a)) <= Cardinality(Risk!Ids)
    <3>1. Delivered \subseteq Risk!Ids
      BY DEF RiskInv, RiskTypes, Delivered
    <3>2. Cardinality(Delivered) <= Cardinality(Risk!Ids) /\ Cardinality(Risk!Ids) \in Nat
      BY <3>1, FS_Subset, FS_CardinalityType DEF RiskConstants
    <3>3. IsFiniteSet(log) /\ Cardinality(log) \in Nat /\ Cardinality(log) <= Cardinality(Risk!Ids)
      BY <3>2, FS_CardinalityType DEF RiskInv, LogFits
    <3>4. \A a : Past(a) \subseteq log
      BY DEF Past
    <3>5. \A a : IsFiniteSet(Past(a)) /\ Cardinality(Past(a)) <= Cardinality(log)
      BY <3>3, <3>4, FS_Subset
    <3>6. \A a : Cardinality(Past(a)) \in Nat
      BY <3>5, FS_CardinalityType
    <3>. QED BY <3>2, <3>3, <3>5, <3>6
  <2>2. \A a \in Risk!Addresses : graph[a] # None =>
          graph[a] \in SendRows /\ graph[a].count = Cardinality(Past(a))
    BY DEF RiskInv, RiskTypes, GraphFits, RowFits
  <2>3. Cardinality(Risk!Ids) \in Nat
    BY FS_CardinalityType DEF RiskConstants
  <2>. DEFINE Rows == [count : 1 .. Cardinality(Risk!Ids), first : 0 .. MaxTime, last : 0 .. MaxTime]
  <2>4. \A a \in Risk!Addresses : graph[a] \in Rows \cup {None}
    <3>1. SUFFICES ASSUME NEW a \in Risk!Addresses, graph[a] # None PROVE graph[a] \in Rows
      OBVIOUS
    <3>2. graph[a] \in SendRows /\ graph[a].count = Cardinality(Past(a))
      BY <2>2, <3>1
    <3>3. graph[a].count \in Nat \ {0}
      BY <3>2 DEF SendRows
    <3>4. graph[a].count \in 1 .. Cardinality(Risk!Ids)
      BY <2>1, <2>3, <3>2, <3>3
    <3>. QED BY <3>2, <3>4 DEF SendRows
  <2>5. graph \in [Risk!Addresses -> Rows \cup {None}]
    <3>. HIDE DEF Rows
    <3>. QED BY <2>4 DEF RiskInv, RiskTypes
  <2>. QED BY <2>5, RiskCardinality DEF RiskInv, RiskTypes, Risk!TypeOK, Verdict
<1>2. Risk!TrustIsEarned
  BY DEF RiskInv, Earned
<1>3. Risk!ShownVerdictHolds
  BY DEF RiskInv, VerdictsHold, Risk!ShownVerdictHolds
<1>. QED BY <1>1, <1>2, <1>3, EvidenceSound

\* The tier of a send (send-risk.ts, send-risk-assess.ts): no tier is given to
\* outside recipients but those the mailbox delivered to twice, long ago and
\* lately; where no call fails the gate uses the verdict the composer showed while
\* it is fresh; no evidence lowers a tier, and an agent's draft is never below the
\* user's.
THEOREM TiersAreEarned ==
  RiskConstants => (Risk!Spec =>
    [](Risk!TypeOK /\ Risk!TrustIsEarned /\ Risk!ShownVerdictHolds /\ Risk!EvidenceOnlyRaises))
<1>. SUFFICES ASSUME RiskConstants
              PROVE  Risk!Spec => [](Risk!TypeOK /\ Risk!TrustIsEarned /\ Risk!ShownVerdictHolds
                       /\ Risk!EvidenceOnlyRaises)
  OBVIOUS
<1>1. Risk!Init => RiskInv
  BY InitRiskInv
<1>2. RiskInv /\ [Risk!Next]_(Risk!vars) => RiskInv'
  BY NextRiskInv
<1>3. RiskInv => Risk!TypeOK /\ Risk!TrustIsEarned /\ Risk!ShownVerdictHolds /\ Risk!EvidenceOnlyRaises
  BY RiskImplied
<1>. QED BY <1>1, <1>2, <1>3, PTL DEF Risk!Spec

=============================================================================
