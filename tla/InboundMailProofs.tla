------------------------- MODULE InboundMailProofs -------------------------
(***************************************************************************)
(* What holds of the inbound path for every set of messages, thresholds,   *)
(* facts, settings and faults: its types, and, whatever the interleaving   *)
(* of receiveEmail, the deep scan, the sidecar and the user, that isolated *)
(* mail is contained, a verdict is never relaxed, and the rows implement   *)
(* the verdict register.  Then of the scan itself, the stages of           *)
(* ScanPipeline, and of the deep scan's way through the links of a mail.   *)
(***************************************************************************)
EXTENDS InboundMail, Sequences, FiniteSetTheorems, TLAPS
-----------------------------------------------------------------------------
(* The scoring rules, for every choice of the thresholds. *)

Scores == 0..MaxScore

\* A score maps to an action, and a verdict is judged by its own score.
LEMMA JudgeType == \A s \in Scores :
    /\ ActionFor(s) \in Actions
    /\ Judge(s) \in Verdicts
    /\ Judge(s).score = s
BY DEF Scores, Judge, ActionFor, Actions, Verdicts, MaxScore

\* Every action has a tier, and only the isolating ones reach the second.
LEMMA TierType ==
    /\ \A a \in Actions : Tier(a) \in 0..3
    /\ \A a \in Actions : a \in Isolating <=> Tier(a) >= 2
    /\ Tier("none") = 0
BY DEF Tier, Actions, Isolating

\* A higher score never maps to a laxer action, however an operator orders the
\* three thresholds of security.thresholds.
THEOREM ActionForMonotone ==
    \A s, t \in Int : s <= t => Tier(ActionFor(s)) <= Tier(ActionFor(t))
<1> SUFFICES ASSUME NEW s \in Int, NEW t \in Int, s <= t
             PROVE  Tier(ActionFor(s)) <= Tier(ActionFor(t))
    OBVIOUS
<1>1. CASE s >= BlockAt
    BY <1>1, ThresholdAssumption DEF ActionFor, Tier
<1>2. CASE s < BlockAt /\ s >= QuarantineAt
    BY <1>2, ThresholdAssumption DEF ActionFor, Tier
<1>3. CASE s < BlockAt /\ s < QuarantineAt
    BY <1>3, ThresholdAssumption DEF ActionFor, Tier
<1> QED BY <1>1, <1>2, <1>3, ThresholdAssumption

\* The clamps keep every sum of the pipeline a score.
LEMMA ClampType ==
    /\ \A n \in Int : Clamp(n) \in Scores
    /\ \A s \in Scores, b \in Nat : AtMostMax(s + b) \in Scores
BY DEF Clamp, AtMostMax, Scores, MaxScore

\* applyBoost returns a verdict.
LEMMA BoostType == \A v \in Verdicts, b \in Nat : Boost(v, b) \in Verdicts
BY ClampType, JudgeType DEF Boost, Verdicts, Scores

\* The corroboration floor returns a verdict.
LEMMA CorroborateType ==
    \A v \in Verdicts, f \in FactRecords : Corroborate(v, f) \in Verdicts
<1> SUFFICES ASSUME NEW v \in Verdicts, NEW f \in FactRecords
             PROVE  Corroborate(v, f) \in Verdicts
    OBVIOUS
<1>1. CASE v.score < QuarantineAt
    <2>1. QuarantineAt - v.score \in Nat
        BY <1>1, ThresholdAssumption DEF Verdicts, MaxScore
    <2> QED BY <2>1, BoostType DEF Corroborate
<1>2. CASE ~(v.score < QuarantineAt)
    BY <1>2 DEF Corroborate
<1> QED BY <1>1, <1>2

\* Demotions only replace the action.
LEMMA DemotionType == \A v \in Verdicts, f \in FactRecords : \A s :
    /\ LearningCap(v, s) \in Verdicts
    /\ ConfidenceDemote(v, f, s) \in Verdicts
BY DEF LearningCap, ConfidenceDemote, Verdicts, Actions

\* The classifier's path ends in a verdict.
LEMMA FullVerdictType ==
    \A f \in FactRecords : \A s : FullVerdict(f, s) \in Verdicts
<1> SUFFICES ASSUME NEW f \in FactRecords, NEW s
             PROVE  FullVerdict(f, s) \in Verdicts
    OBVIOUS
<1> DEFINE scored  == Boost(Aggregate(f.aggregate), IntelBoost(f.intel))
           boosted == Boost(Corroborate(scored, f), f.boosts)
<1>1. f.aggregate \in Int /\ f.boosts \in Nat
    BY DEF FactRecords
<1>2. Aggregate(f.aggregate) \in Verdicts
    BY <1>1, ClampType, JudgeType DEF Aggregate
<1>3. scored \in Verdicts
    BY <1>2, BoostType DEF IntelBoost
<1>4. boosted \in Verdicts
    BY <1>1, <1>3, CorroborateType, BoostType
<1>5. LearningCap(boosted, s) \in Verdicts
    BY <1>4, DemotionType
<1>6. ConfidenceDemote(LearningCap(boosted, s), f, s) \in Verdicts
    BY <1>5, DemotionType
<1> QED BY <1>6 DEF FullVerdict

\* runSecurityPipeline returns an action and a score between 0 and 100,
\* whatever the thresholds, the boosts and the corroboration floor.
THEOREM SyncVerdictType ==
    \A f \in FactRecords : \A s : SyncVerdict(f, s) \in Verdicts
<1> SUFFICES ASSUME NEW f \in FactRecords, NEW s
             PROVE  SyncVerdict(f, s) \in Verdicts
    OBVIOUS
<1>1. \A t : TriageVerdict(t) \in Verdicts
    BY DEF TriageVerdict, Verdicts, Actions, MaxScore
<1>2. \A t : LearningCap(TriageVerdict(t), s) \in Verdicts
    BY <1>1, DemotionType
<1> QED BY <1>2, FullVerdictType DEF SyncVerdict

\* In learning mode the synchronous pipeline isolates nothing, not even a
\* hard block.  (The deep scan that follows makes no such promise.)
THEOREM LearningNeverIsolatesSync ==
    \A f \in FactRecords : \A s : s.learning => SyncVerdict(f, s).action \notin Isolating
<1> SUFFICES ASSUME NEW f \in FactRecords, NEW s, s.learning
             PROVE  SyncVerdict(f, s).action \notin Isolating
    OBVIOUS
<1>1. \A v \in Verdicts : LearningCap(v, s).action \notin Isolating
    BY DEF LearningCap, Isolating, Verdicts
<1>2. \A v \in Verdicts : v.action \notin Isolating =>
          ConfidenceDemote(v, f, s).action \notin Isolating
    BY DEF ConfidenceDemote, Isolating, Verdicts
<1>3. CASE TriageTier(f, s) = "none"
    <2> DEFINE scored  == Boost(Aggregate(f.aggregate), IntelBoost(f.intel))
               boosted == Boost(Corroborate(scored, f), f.boosts)
    <2>1. f.aggregate \in Int /\ f.boosts \in Nat
        BY DEF FactRecords
    <2>2. scored \in Verdicts
        BY <2>1, ClampType, JudgeType, BoostType DEF Aggregate, IntelBoost
    <2>3. boosted \in Verdicts
        BY <2>1, <2>2, CorroborateType, BoostType
    <2>4. LearningCap(boosted, s) \in Verdicts /\ LearningCap(boosted, s).action \notin Isolating
        BY <2>3, <1>1, DemotionType
    <2>5. ConfidenceDemote(LearningCap(boosted, s), f, s).action \notin Isolating
        BY <2>4, <1>2
    <2> QED BY <1>3, <2>5 DEF SyncVerdict, FullVerdict
<1>4. CASE TriageTier(f, s) # "none"
    <2>1. TriageVerdict(TriageTier(f, s)) \in Verdicts
        BY DEF TriageVerdict, Verdicts, Actions, MaxScore
    <2> QED BY <1>1, <1>4, <2>1 DEF SyncVerdict
<1> QED BY <1>3, <1>4

\* A deep scan's score is a score, and never below the one it started from.
LEMMA DeepScoreType == \A s \in Scores, a \in 0..DeepScanMaxAdd :
    DeepScore(s, a) \in Scores /\ DeepScore(s, a) >= s
BY DEF DeepScore, AtMostMax, Scores, MaxScore, DeepScanMaxAdd

\* A callback's score is a score, and never below the stored one.
LEMMA YaraScoreType == \A s \in Scores, d \in 0..YaraScoreCap :
    YaraScore(s, d) \in Scores /\ YaraScore(s, d) >= s
BY DEF YaraScore, AtMostMax, Scores, MaxScore, YaraScoreCap
-----------------------------------------------------------------------------
(* The steps. *)

\* What can happen to one copy.
Step(c) ==
    \/ Accept(c) \/ Handler(c) \/ Crash(c)
    \/ DeepScan(c) \/ ScanCrashes(c) \/ Agent(c)
    \/ YaraCallback(c) \/ UserMove(c) \/ UserDelete(c) \/ Purge(c)
-----------------------------------------------------------------------------
(* Types of the operators the actions are written with. *)

\* An activation moved to another place is an activation.
LEMMA GotoType == \A c, p :
    handler \in [Copy -> Handlers] /\ c \in Copy /\ p \in Places /\ Goto(c, p)
    => handler' \in [Copy -> Handlers]
BY DEF Goto, Become, Handlers

\* So is one replaced by another.
LEMMA BecomeType == \A c, h :
    handler \in [Copy -> Handlers] /\ h \in Handlers /\ Become(c, h)
    => handler' \in [Copy -> Handlers]
BY DEF Become

\* An UPDATE with a row leaves rows.
LEMMA UpdateType == \A c, r :
    row \in [Copy -> Rows] /\ r \in Rows /\ Update(c, r) => row' \in [Copy -> Rows]
BY DEF Update

\* Failed calls are calls.
LEMMA MissAllType == \A c : \A calls \in SUBSET Calls :
    missed \in [Copy -> SUBSET Calls] /\ MissAll(c, calls) => missed' \in [Copy -> SUBSET Calls]
BY DEF MissAll
LEMMA MissType == \A c : \A call \in Calls :
    missed \in [Copy -> SUBSET Calls] /\ Miss(c, call) => missed' \in [Copy -> SUBSET Calls]
BY MissAllType DEF Miss

\* So is a read of the settings that failed.
LEMMA ReadType == \A c, s : \A call \in Calls :
    missed \in [Copy -> SUBSET Calls] /\ Read(c, call, s) => missed' \in [Copy -> SUBSET Calls]
BY MissType DEF Read

\* A deep scan moved to another stage is a deep scan.
LEMMA ScanGotoType == \A c, s :
    scan \in [Copy -> Scans] /\ c \in Copy /\ s \in Stages /\ ScanGoto(c, s)
    => scan' \in [Copy -> Scans]
BY DEF ScanGoto, Scans

\* The row receiveEmail inserts is a row.
LEMMA NewRowType == \A c, joins : joins \in BOOLEAN => NewRow(c, joins) \in Rows
<1>1. NoRow \in Rows
    BY DEF NoRow, Rows, Opinions, Relays, MaxScore
<1>2. \A c : Inbound(c) \in Folders
    BY DEF Inbound, Folders
<1> QED BY <1>1, <1>2 DEF NewRow, Rows
-----------------------------------------------------------------------------
(* Types. *)

\* The initial state is well typed.
LEMMA TypeOKInit == Init => TypeOK
<1> SUFFICES ASSUME Init PROVE TypeOK
    OBVIOUS
<1>1. handler \in [Copy -> Handlers]
    BY DEF Init, Handlers, Places, Opinions, Results, Relays
<1>2. NoRow \in Rows
    BY DEF NoRow, Rows, Opinions, Relays, MaxScore
<1>3. scan \in [Copy -> Scans]
    BY DEF Init, Scans, Stages, Opinions, MaxScore
<1>4. yara \in [Copy -> 0..MaxCallbacks]
    BY ModelAssumption DEF Init
<1> QED BY <1>1, <1>2, <1>3, <1>4 DEF Init, TypeOK, Results

\* A judged activation is an activation.
LEMMA JudgedType == \A c, v :
    handler \in [Copy -> Handlers] /\ c \in Copy /\ v \in Verdicts /\ Judged(c, v)
    => handler' \in [Copy -> Handlers]
<1> SUFFICES ASSUME handler \in [Copy -> Handlers], NEW c \in Copy,
                    NEW v \in Verdicts, Judged(c, v)
             PROVE  handler' \in [Copy -> Handlers]
    OBVIOUS
<1> DEFINE h == [handler[c] EXCEPT
                   !.at = IF v.action \in Isolating THEN "filing" ELSE "closing",
                   !.verdict = v.action,
                   !.result = "completed"]
<1>1. handler[c] \in Handlers /\ v.action \in Opinions
    BY DEF Verdicts, Opinions
<1>2. h \in Handlers
    BY <1>1 DEF Handlers, Places, Results
<1>3. Become(c, h)
    BY DEF Judged
<1> QED BY <1>2, <1>3, BecomeType

\* An activation that settled its relay is an activation.
LEMMA RelaySettledType == \A c, status :
    handler \in [Copy -> Handlers] /\ c \in Copy /\ status \in Relays /\ RelaySettled(c, status)
    => handler' \in [Copy -> Handlers]
<1> SUFFICES ASSUME handler \in [Copy -> Handlers], NEW c \in Copy,
                    NEW status \in Relays, RelaySettled(c, status)
             PROVE  handler' \in [Copy -> Handlers]
    OBVIOUS
<1>1. [handler[c] EXCEPT !.at = "marking", !.relay = status] \in Handlers
    BY DEF Handlers, Places
<1> QED BY <1>1, BecomeType DEF RelaySettled

\* Every step of a copy keeps the types.
LEMMA TypeOKStep == ASSUME TypeOK, NEW c \in Copy, Step(c) PROVE TypeOK'
<1>h. handler \in [Copy -> Handlers] /\ handler[c] \in Handlers
    BY DEF TypeOK
<1>r. row \in [Copy -> Rows] /\ row[c] \in Rows
    BY DEF TypeOK
<1>s. scan \in [Copy -> Scans] /\ scan[c] \in Scans
    BY DEF TypeOK
<1>m. missed \in [Copy -> SUBSET Calls]
    BY DEF TypeOK
<1>1. ASSUME Accept(c) PROVE TypeOK'
    <2>1. PICK s \in Reads : LET rule == IF s = mailbox /\ ~s.honeypot THEN mail[c[1]].rule ELSE "none"
             IN  Become(c, [handler[c] EXCEPT
                    !.at = IF rule = "drop" THEN "blocked" ELSE "storing",
                    !.spam = (rule = "spam")])
        BY <1>1 DEF Accept
    <2>2. \A p \in Places, b \in BOOLEAN : [handler[c] EXCEPT !.at = p, !.spam = b] \in Handlers
        BY <1>h DEF Handlers
    <2>3. handler' \in [Copy -> Handlers]
        BY <1>h, <2>1, <2>2, BecomeType DEF Places
    <2>4. missed' \in [Copy -> SUBSET Calls]
        BY <1>1, <1>m, ReadType DEF Accept, Calls
    <2> QED BY <1>1, <2>1, <2>2, <2>3, <2>4 DEF Accept, TypeOK, world, async, outside
<1>b. blobs \subseteq Copy \X Nat /\ NextObject(c) \in Copy \X Nat
    BY <1>h DEF TypeOK, NextObject, Handlers
<1>2. ASSUME StoreAttachment(c) PROVE TypeOK'
    <2>1. [handler[c] EXCEPT !.written = @ + 1] \in Handlers
        BY <1>h DEF Handlers
    <2>2. handler' \in [Copy -> Handlers]
        BY <1>2, <1>h, <2>1, BecomeType DEF StoreAttachment
    <2> QED BY <1>2, <1>b, <2>2 DEF StoreAttachment, TypeOK, world, async, outside
<1>48. ASSUME AttachmentsStored(c) PROVE TypeOK'
    <2>1. handler' \in [Copy -> Handlers]
        BY <1>48, <1>h, GotoType DEF AttachmentsStored, Places
    <2> QED BY <1>48, <2>1 DEF AttachmentsStored, TypeOK, world, async, outside
<1>3. ASSUME StoreAttachmentFails(c) PROVE TypeOK'
    <2>1. handler' \in [Copy -> Handlers]
        BY <1>3, <1>h, GotoType DEF StoreAttachmentFails, Places
    <2>2. missed' \in [Copy -> SUBSET Calls]
        BY <1>3, <1>m, MissType DEF StoreAttachmentFails, Calls
    <2>3. blobs' \subseteq Copy \X Nat
        BY <1>3, <1>b DEF StoreAttachmentFails
    <2> QED BY <1>3, <2>1, <2>2, <2>3 DEF StoreAttachmentFails, TypeOK, world, async, outside
<1>4. ASSUME CleanUp(c) PROVE TypeOK'
    <2>1. handler' \in [Copy -> Handlers]
        BY <1>4, <1>h, GotoType DEF CleanUp, Places
    <2>2. missed' \in [Copy -> SUBSET Calls]
        BY <1>4, <1>m, MissType DEF CleanUp, Calls
    <2>3. blobs' \subseteq Copy \X Nat
        BY <1>4, <1>b DEF CleanUp, Objects
    <2> QED BY <1>4, <2>1, <2>2, <2>3 DEF CleanUp, TypeOK, world, async, outside
<1>49. ASSUME FindThreadFails(c) PROVE TypeOK'
    <2>1. handler' \in [Copy -> Handlers]
        BY <1>49, <1>h, GotoType DEF FindThreadFails, Places
    <2>2. missed' \in [Copy -> SUBSET Calls]
        BY <1>49, <1>m, MissType DEF FindThreadFails, Calls
    <2> QED BY <1>49, <2>1, <2>2 DEF FindThreadFails, TypeOK, world, async, outside
<1>5. ASSUME CreateRow(c) PROVE TypeOK'
    <2>1. PICK joins \in {FALSE, MayJoin(c)} :
            /\ row' = [row EXCEPT ![c] = NewRow(c, joins)]
            /\ Become(c, [handler[c] EXCEPT !.at = "stored", !.joined = joins])
        BY <1>5 DEF CreateRow
    <2>2. joins \in BOOLEAN
        BY DEF MayJoin, ModelAssumption
    <2>3. row' \in [Copy -> Rows]
        BY <1>r, <2>1, <2>2, NewRowType
    <2>4. [handler[c] EXCEPT !.at = "stored", !.joined = joins] \in Handlers
        BY <1>h, <2>2 DEF Handlers, Places
    <2>5. handler' \in [Copy -> Handlers]
        BY <1>h, <2>1, <2>4, BecomeType
    <2> QED BY <1>5, <2>3, <2>5 DEF CreateRow, TypeOK, world, async, outside
<1>6. ASSUME CreateRowFails(c) PROVE TypeOK'
    <2>1. handler' \in [Copy -> Handlers]
        BY <1>6, <1>h, GotoType DEF CreateRowFails, Places
    <2>2. missed' \in [Copy -> SUBSET Calls]
        BY <1>6, <1>m, MissType DEF CreateRowFails, Calls
    <2>3. MayJoin(c) \in BOOLEAN
        BY DEF MayJoin
    <2>4. row' \in [Copy -> Rows]
        BY <1>6, <1>r, <2>3, NewRowType DEF CreateRowFails
    <2> QED BY <1>6, <2>1, <2>2, <2>3, <2>4 DEF CreateRowFails, TypeOK, world, async, outside
<1>7. ASSUME CheckHoneypot(c) PROVE TypeOK'
    <2>1. handler' \in [Copy -> Handlers]
        BY <1>7, <1>h, GotoType DEF CheckHoneypot, Places
    <2>9. missed' \in [Copy -> SUBSET Calls]
        BY <1>7, <1>m, ReadType DEF CheckHoneypot, Calls
    <2> QED BY <1>7, <2>1, <2>9 DEF CheckHoneypot, TypeOK, world, async, outside
<1>8. ASSUME DivertReport(c) PROVE TypeOK'
    <2>1. handler' \in [Copy -> Handlers]
        BY <1>8, <1>h, GotoType DEF DivertReport, Places
    <2>2. [row[c] EXCEPT !.folder = "archive"] \in Rows
        BY <1>r DEF Rows, Folders
    <2>3. row' \in [Copy -> Rows]
        BY <1>8, <1>r, <2>2, UpdateType DEF DivertReport
    <2> QED BY <1>8, <2>1, <2>2, <2>3 DEF DivertReport, TypeOK, world, async, outside
<1>45. ASSUME DivertFails(c) PROVE TypeOK'
    <2>1. handler' \in [Copy -> Handlers]
        BY <1>45, <1>h, GotoType DEF DivertFails, Places
    <2>2. missed' \in [Copy -> SUBSET Calls]
        BY <1>45, <1>m, MissType DEF DivertFails, Calls
    <2>3. [row[c] EXCEPT !.folder = "archive"] \in Rows
        BY <1>r DEF Rows, Folders
    <2>4. row' \in [Copy -> Rows]
        BY <1>45, <1>r, <2>3, UpdateType DEF DivertFails
    <2> QED BY <1>45, <2>1, <2>2, <2>4 DEF DivertFails, TypeOK, world, async, outside
<1>9. ASSUME KeepAsMail(c) PROVE TypeOK'
    <2>1. handler' \in [Copy -> Handlers]
        BY <1>9, <1>h, GotoType DEF KeepAsMail, Places
    <2> QED BY <1>9, <2>1 DEF KeepAsMail, TypeOK, world, async, outside
<1>10. ASSUME StartRun(c) PROVE TypeOK'
    <2>1. Stored(c) \in BOOLEAN
        BY DEF Stored
    <2>2. [handler[c] EXCEPT !.at = "scanning", !.recorded = Stored(c)] \in Handlers
        BY <1>h, <2>1 DEF Handlers, Places
    <2>3. handler' \in [Copy -> Handlers]
        BY <1>10, <1>h, <2>2, BecomeType DEF StartRun
    <2>4. run' \in [Copy -> Results \cup {"running"}]
        BY <1>10 DEF StartRun, TypeOK, Results
    <2> QED BY <1>10, <2>1, <2>2, <2>3, <2>4 DEF StartRun, TypeOK, world, async, outside
<1>11. ASSUME StartRunFails(c) PROVE TypeOK'
    <2>1. handler' \in [Copy -> Handlers]
        BY <1>11, <1>h, GotoType DEF StartRunFails, Places
    <2>2. missed' \in [Copy -> SUBSET Calls]
        BY <1>11, <1>m, MissType DEF StartRunFails, Calls
    <2> QED BY <1>11, <2>1, <2>2 DEF StartRunFails, TypeOK, world, async, outside
<1>12. ASSUME SkipScan(c) PROVE TypeOK'
    <2>1. [handler[c] EXCEPT !.at = "closing", !.result = "skipped"] \in Handlers
        BY <1>h DEF Handlers, Places, Results
    <2>2. handler' \in [Copy -> Handlers]
        BY <1>12, <1>h, <2>1, BecomeType DEF SkipScan
    <2>9. missed' \in [Copy -> SUBSET Calls]
        BY <1>12, <1>m, ReadType DEF SkipScan, Calls
    <2> QED BY <1>12, <2>1, <2>2, <2>9 DEF SkipScan, TypeOK, world, async, outside
<1>13. ASSUME Scan(c) PROVE TypeOK'
    <2>1. PICK s \in Reads, f \in Facts :
            /\ Judged(c, SyncVerdict(f, s))
            /\ Update(c, [row[c] EXCEPT !.verdict = SyncVerdict(f, s).action,
                                        !.score = SyncVerdict(f, s).score])
        BY <1>13 DEF Scan
    <2>2. SyncVerdict(f, s) \in Verdicts
        BY SyncVerdictType, ModelAssumption
    <2>3. handler' \in [Copy -> Handlers]
        BY <1>h, <2>1, <2>2, JudgedType
    <2>4. [row[c] EXCEPT !.verdict = SyncVerdict(f, s).action,
                         !.score = SyncVerdict(f, s).score] \in Rows
        BY <1>r, <2>2 DEF Rows, Verdicts, Opinions
    <2>5. row' \in [Copy -> Rows]
        BY <1>r, <2>1, <2>4, UpdateType
    <2>9. missed' \in [Copy -> SUBSET Calls]
        BY <1>13, <1>m, ReadType DEF Scan, Calls
    <2> QED BY <1>13, <2>1, <2>2, <2>3, <2>4, <2>5, <2>9 DEF Scan, TypeOK, world, async, outside
<1>14. ASSUME ScanUnstored(c) PROVE TypeOK'
    <2>1. PICK s \in Reads, f \in Facts : Judged(c, SyncVerdict(f, s))
        BY <1>14 DEF ScanUnstored
    <2>2. SyncVerdict(f, s) \in Verdicts
        BY SyncVerdictType, ModelAssumption
    <2>3. handler' \in [Copy -> Handlers]
        BY <1>h, <2>1, <2>2, JudgedType
    <2>4. missed' \in [Copy -> SUBSET Calls]
        BY <1>14, <1>m, MissAllType DEF ScanUnstored, Calls
    <2> QED BY <1>14, <2>1, <2>2, <2>3, <2>4 DEF ScanUnstored, TypeOK, world, async, outside
<1>15. ASSUME ScanThrows(c) PROVE TypeOK'
    <2>1. [handler[c] EXCEPT !.at = "closing", !.result = "failed"] \in Handlers
        BY <1>h DEF Handlers, Places, Results
    <2>2. handler' \in [Copy -> Handlers]
        BY <1>15, <1>h, <2>1, BecomeType DEF ScanThrows
    <2>3. missed' \in [Copy -> SUBSET Calls]
        BY <1>15, <1>m, MissType DEF ScanThrows, Calls
    <2> QED BY <1>15, <2>1, <2>2, <2>3 DEF ScanThrows, TypeOK, world, async, outside
<1>16. ASSUME Isolate(c) PROVE TypeOK'
    <2>1. handler' \in [Copy -> Handlers]
        BY <1>16, <1>h, GotoType DEF Isolate, Places
    <2>2. [row[c] EXCEPT !.folder = "quarantine"] \in Rows
        BY <1>r DEF Rows, Folders
    <2>3. row' \in [Copy -> Rows]
        BY <1>16, <1>r, <2>2, UpdateType DEF Isolate
    <2> QED BY <1>16, <2>1, <2>2, <2>3 DEF Isolate, TypeOK, world, async, outside
<1>17. ASSUME IsolateFails(c) PROVE TypeOK'
    <2>1. [handler[c] EXCEPT !.at = "closing", !.result = "failed"] \in Handlers
        BY <1>h DEF Handlers, Places, Results
    <2>2. handler' \in [Copy -> Handlers]
        BY <1>17, <1>h, <2>1, BecomeType DEF IsolateFails
    <2>3. missed' \in [Copy -> SUBSET Calls]
        BY <1>17, <1>m, MissType DEF IsolateFails, Calls
    <2>4. [row[c] EXCEPT !.folder = "quarantine"] \in Rows
        BY <1>r DEF Rows, Folders
    <2>5. row' \in [Copy -> Rows]
        BY <1>17, <1>r, <2>4, UpdateType DEF IsolateFails
    <2> QED BY <1>17, <2>1, <2>2, <2>3, <2>4, <2>5 DEF IsolateFails, TypeOK, world, async, outside
<1>18. ASSUME Detach(c) PROVE TypeOK'
    <2>1. handler' \in [Copy -> Handlers]
        BY <1>18, <1>h, GotoType DEF Detach, Places
    <2>2. [row[c] EXCEPT !.joined = FALSE] \in Rows
        BY <1>r DEF Rows
    <2>3. row' \in [Copy -> Rows]
        BY <1>18, <1>r, <2>2, UpdateType DEF Detach
    <2> QED BY <1>18, <2>1, <2>2, <2>3 DEF Detach, TypeOK, world, async, outside
<1>19. ASSUME DetachFails(c) PROVE TypeOK'
    <2>1. [handler[c] EXCEPT !.at = "closing", !.result = "failed"] \in Handlers
        BY <1>h DEF Handlers, Places, Results
    <2>2. handler' \in [Copy -> Handlers]
        BY <1>19, <1>h, <2>1, BecomeType DEF DetachFails
    <2>3. missed' \in [Copy -> SUBSET Calls]
        BY <1>19, <1>m, MissType DEF DetachFails, Calls
    <2> QED BY <1>19, <2>1, <2>2, <2>3 DEF DetachFails, TypeOK, world, async, outside
<1>20. ASSUME CloseRun(c) PROVE TypeOK'
    <2>1. handler' \in [Copy -> Handlers]
        BY <1>20, <1>h, GotoType DEF CloseRun, Places
    <2>2. handler[c].result \in Results
        BY <1>h DEF Handlers
    <2> QED BY <1>20, <2>1, <2>2 DEF CloseRun, TypeOK, world, async, outside
<1>21. ASSUME CloseRunFails(c) PROVE TypeOK'
    <2>1. handler' \in [Copy -> Handlers]
        BY <1>21, <1>h, GotoType DEF CloseRunFails, Places
    <2>2. missed' \in [Copy -> SUBSET Calls]
        BY <1>21, <1>m, MissType DEF CloseRunFails, Calls
    <2> QED BY <1>21, <2>1, <2>2 DEF CloseRunFails, TypeOK, world, async, outside
<1>22. ASSUME Unrelayed(c) PROVE TypeOK'
    <2>1. handler' \in [Copy -> Handlers]
        BY <1>22, <1>h, GotoType DEF Unrelayed, Places
    <2>2. missed' \in [Copy -> SUBSET Calls]
        BY <1>22, <1>m, MissType DEF Unrelayed, Calls
    <2> QED BY <1>22, <2>1, <2>2 DEF Unrelayed, TypeOK, world, async, outside
<1>23. ASSUME Withhold(c) PROVE TypeOK'
    <2>1. handler' \in [Copy -> Handlers]
        BY <1>23, <1>h, RelaySettledType DEF Withhold, Relays
    <2> QED BY <1>23, <2>1 DEF Withhold, TypeOK, world, async, outside
<1>24. ASSUME Relay(c) PROVE TypeOK'
    <2>1. handler' \in [Copy -> Handlers]
        BY <1>24, <1>h, RelaySettledType DEF Relay, Relays
    <2> QED BY <1>24, <2>1 DEF Relay, TypeOK, world, async, outside
<1>25. ASSUME RelayRefused(c) PROVE TypeOK'
    <2>1. handler' \in [Copy -> Handlers]
        BY <1>25, <1>h, RelaySettledType DEF RelayRefused, Relays
    <2>2. missed' \in [Copy -> SUBSET Calls]
        BY <1>25, <1>m, MissType DEF RelayRefused, Calls
    <2> QED BY <1>25, <2>1, <2>2 DEF RelayRefused, TypeOK, world, async, outside
<1>26. ASSUME RelayDeferred(c) PROVE TypeOK'
    <2>1. handler' \in [Copy -> Handlers]
        BY <1>26, <1>h, GotoType DEF RelayDeferred, Places
    <2>2. missed' \in [Copy -> SUBSET Calls]
        BY <1>26, <1>m, MissType DEF RelayDeferred, Calls
    <2> QED BY <1>26, <2>1, <2>2 DEF RelayDeferred, TypeOK, world, async, outside
<1>27. ASSUME MarkRelay(c) PROVE TypeOK'
    <2>1. handler' \in [Copy -> Handlers]
        BY <1>27, <1>h, GotoType DEF MarkRelay, Places
    <2>2. [row[c] EXCEPT !.relay = handler[c].relay] \in Rows
        BY <1>r, <1>h DEF Rows, Handlers
    <2>3. row' \in [Copy -> Rows]
        BY <1>27, <1>r, <2>2, UpdateType DEF MarkRelay
    <2> QED BY <1>27, <2>1, <2>2, <2>3 DEF MarkRelay, TypeOK, world, async, outside
<1>28. ASSUME MarkRelayFails(c) PROVE TypeOK'
    <2>1. handler' \in [Copy -> Handlers]
        BY <1>28, <1>h, GotoType DEF MarkRelayFails, Places
    <2>2. missed' \in [Copy -> SUBSET Calls]
        BY <1>28, <1>m, MissType DEF MarkRelayFails, Calls
    <2> QED BY <1>28, <2>1, <2>2 DEF MarkRelayFails, TypeOK, world, async, outside
<1>29. ASSUME Notify(c) PROVE TypeOK'
    <2>1. handler' \in [Copy -> Handlers]
        BY <1>29, <1>h, GotoType DEF Notify, Places
    <2>2. FinalFolder(c) \in Folders
        BY DEF FinalFolder, Inbound, Folders
    <2> QED BY <1>29, <2>1, <2>2 DEF Notify, TypeOK, world, async, outside
<1>30. ASSUME NotifyFails(c) PROVE TypeOK'
    <2>1. handler' \in [Copy -> Handlers]
        BY <1>30, <1>h, GotoType DEF NotifyFails, Places
    <2>2. missed' \in [Copy -> SUBSET Calls]
        BY <1>30, <1>m, MissType DEF NotifyFails, Calls
    <2> QED BY <1>30, <2>1, <2>2 DEF NotifyFails, TypeOK, world, async, outside
<1>31. ASSUME Enqueue(c) PROVE TypeOK'
    <2>1. handler' \in [Copy -> Handlers]
        BY <1>31, <1>h, GotoType DEF Enqueue, Places
    <2>2. scan' \in [Copy -> Scans]
        BY <1>31, <1>s, ScanGotoType DEF Enqueue, Stages
    <2>3. yara' \in [Copy -> 0..MaxCallbacks]
        BY <1>31, ModelAssumption DEF Enqueue, TypeOK
    <2>9. missed' \in [Copy -> SUBSET Calls]
        BY <1>31, <1>m, ReadType DEF Enqueue, Calls
    <2> QED BY <1>31, <2>1, <2>2, <2>3, <2>9 DEF Enqueue, TypeOK, world, async, outside
<1>32. ASSUME AskAgent(c) PROVE TypeOK'
    <2>1. handler' \in [Copy -> Handlers]
        BY <1>32, <1>h, GotoType DEF AskAgent, Places
    <2>9. missed' \in [Copy -> SUBSET Calls]
        BY <1>32, <1>m, ReadType DEF AskAgent, Calls
    <2> QED BY <1>32, <2>1, <2>9 DEF AskAgent, TypeOK, world, async, outside
<1>33. ASSUME Crash(c) PROVE TypeOK'
    <2>1. handler' \in [Copy -> Handlers]
        BY <1>33, <1>h, GotoType DEF Crash, Places
    <2>2. missed' \in [Copy -> SUBSET Calls]
        BY <1>33, <1>m, MissType DEF Crash, Calls
    <2>3. scan' \in [Copy -> Scans]
        BY <1>33, <1>s, ScanGotoType DEF Crash, Stages
    <2> QED BY <1>33, <2>1, <2>2, <2>3 DEF Crash, TypeOK, world, async, outside
<1>34. ASSUME ScanRead(c) PROVE TypeOK'
    <2>1. [at |-> "probing", base |-> row[c].verdict, score |-> row[c].score] \in Scans
        BY <1>r DEF Scans, Stages, Rows
    <2>2. scan' \in [Copy -> Scans]
        BY <1>34, <1>s, <2>1 DEF ScanRead, Begins
    <2> QED BY <1>34, <2>2 DEF ScanRead, TypeOK, world, async, outside
<1>46. ASSUME ScanReadsNothing(c) PROVE TypeOK'
    <2>1. [at |-> "probing", base |-> "none", score |-> 0] \in Scans
        BY DEF Scans, Stages, Opinions, MaxScore
    <2>2. scan' \in [Copy -> Scans]
        BY <1>46, <1>s, <2>1 DEF ScanReadsNothing, Begins
    <2>3. missed' \in [Copy -> SUBSET Calls]
        BY <1>46, <1>m, MissType DEF ScanReadsNothing, Calls
    <2> QED BY <1>46, <2>2, <2>3 DEF ScanReadsNothing, TypeOK, world, async, outside
<1>35. ASSUME ScanKeeps(c) PROVE TypeOK'
    <2>1. scan' \in [Copy -> Scans]
        BY <1>35, <1>s, ScanGotoType DEF ScanKeeps, Stages
    <2> QED BY <1>35, <2>1 DEF ScanKeeps, TypeOK, world, async, outside
<1>36. ASSUME ScanTightens(c) PROVE TypeOK'
    <2>1. PICK a \in Added :
            LET new == Judge(DeepScore(scan[c].score, a))
            IN  /\ \/ /\ Update(c, [row[c] EXCEPT !.verdict = new.action, !.score = new.score])
                      /\ UNCHANGED missed
                   \/ Miss(c, "deepPersist") /\ UNCHANGED row
                /\ ScanGoto(c, IF new.action \in Isolating THEN "moving" ELSE "closing")
        BY <1>36 DEF ScanTightens
    <2> DEFINE new == Judge(DeepScore(scan[c].score, a))
    <2>2. scan[c].score \in Scores
        BY <1>s DEF Scans, Scores
    <2>3. new \in Verdicts
        BY <2>2, DeepScoreType, JudgeType, ModelAssumption
    <2>4. [row[c] EXCEPT !.verdict = new.action, !.score = new.score] \in Rows
        BY <1>r, <2>3 DEF Rows, Verdicts, Opinions
    <2>5. row' \in [Copy -> Rows]
        BY <1>r, <2>1, <2>4, UpdateType
    <2>6. missed' \in [Copy -> SUBSET Calls]
        BY <1>m, <2>1, MissType DEF Calls
    <2>7. scan' \in [Copy -> Scans]
        BY <1>s, <2>1, ScanGotoType DEF Stages
    <2> QED BY <1>36, <2>1, <2>2, <2>3, <2>4, <2>5, <2>6, <2>7 DEF ScanTightens, TypeOK, world, async, outside
<1>37. ASSUME ScanMoves(c) PROVE TypeOK'
    <2>1. scan' \in [Copy -> Scans]
        BY <1>37, <1>s, ScanGotoType DEF ScanMoves, Stages
    <2>2. missed' \in [Copy -> SUBSET Calls]
        BY <1>37, <1>m, MissType DEF ScanMoves, Calls
    <2>3. [row[c] EXCEPT !.folder = "quarantine"] \in Rows
        BY <1>r DEF Rows, Folders
    <2>4. row' \in [Copy -> Rows]
        BY <1>37, <1>r, <2>3, UpdateType DEF ScanMoves
    <2> QED BY <1>37, <2>1, <2>2, <2>3, <2>4 DEF ScanMoves, TypeOK, world, async, outside
<1>38. ASSUME ScanCloses(c) PROVE TypeOK'
    <2>1. scan' \in [Copy -> Scans]
        BY <1>38, <1>s, ScanGotoType DEF ScanCloses, Stages
    <2>2. missed' \in [Copy -> SUBSET Calls]
        BY <1>38, <1>m, MissType DEF ScanCloses, Calls
    <2>3. [row[c] EXCEPT !.deep = "completed"] \in Rows
        BY <1>r DEF Rows
    <2>4. row' \in [Copy -> Rows]
        BY <1>38, <1>r, <2>3, UpdateType DEF ScanCloses
    <2> QED BY <1>38, <2>1, <2>2, <2>3, <2>4 DEF ScanCloses, TypeOK, world, async, outside
<1>39. ASSUME ScanCrashes(c) PROVE TypeOK'
    <2>1. scan' \in [Copy -> Scans]
        BY <1>39, <1>s, ScanGotoType DEF ScanCrashes, Stages
    <2>2. missed' \in [Copy -> SUBSET Calls]
        BY <1>39, <1>m, MissType DEF ScanCrashes, Calls
    <2> QED BY <1>39, <2>1, <2>2 DEF ScanCrashes, TypeOK, world, async, outside
<1>40. ASSUME AgentDrafts(c) PROVE TypeOK'
    BY <1>40 DEF AgentDrafts, TypeOK, world, async, outside
<1>41. ASSUME AgentDeclines(c) PROVE TypeOK'
    BY <1>41 DEF AgentDeclines, TypeOK, world, async, outside
<1>42. ASSUME YaraCallback(c) PROVE TypeOK'
    <2>1. yara' \in [Copy -> 0..MaxCallbacks]
        BY <1>42, ModelAssumption DEF YaraCallback, TypeOK
    <2>2. PICK d \in YaraDeltas : Update(c, [row[c] EXCEPT !.score = YaraScore(@, d)])
        BY <1>42 DEF YaraCallback
    <2>3. row[c].score \in Scores
        BY <1>r DEF Rows, Scores
    <2>4. YaraScore(row[c].score, d) \in Scores
        BY <2>3, YaraScoreType, ModelAssumption
    <2>5. [row[c] EXCEPT !.score = YaraScore(@, d)] \in Rows
        BY <1>r, <2>4 DEF Rows, Scores
    <2>6. row' \in [Copy -> Rows]
        BY <1>r, <2>2, <2>5, UpdateType
    <2> QED BY <1>42, <2>1, <2>2, <2>3, <2>4, <2>5, <2>6 DEF YaraCallback, TypeOK, world, async, outside
<1>43. ASSUME UserMove(c) PROVE TypeOK'
    <2>1. row' \in [Copy -> Rows]
        BY <1>43, <1>r, ModelAssumption DEF UserMove, Rows, Folders
    <2> QED BY <1>43, <2>1 DEF UserMove, TypeOK, world, async, outside
<1>44. ASSUME UserDelete(c) PROVE TypeOK'
    <2>1. row' \in [Copy -> Rows]
        BY <1>44, <1>r DEF UserDelete, Rows
    <2>2. run' \in [Copy -> Results \cup {"running"}]
        BY <1>44 DEF UserDelete, TypeOK, Results
    <2> QED BY <1>44, <2>1, <2>2 DEF UserDelete, TypeOK, world, async, outside
<1>47. ASSUME Purge(c) PROVE TypeOK'
    <2>1. row' \in [Copy -> Rows]
        BY <1>47, <1>r DEF Purge, Rows
    <2>2. missed' \in [Copy -> SUBSET Calls]
        BY <1>47, <1>m, MissType DEF Purge, Calls
    <2>3. blobs' \subseteq Copy \X Nat
        BY <1>47, <1>b DEF Purge, AllObjects, Objects
    <2> QED BY <1>47, <2>1, <2>2, <2>3 DEF Purge, TypeOK, world, async, outside
<1> QED BY <1>1, <1>2, <1>3, <1>4, <1>5, <1>6, <1>7, <1>8, <1>9, <1>10, <1>11, <1>12,
          <1>13, <1>14, <1>15, <1>16, <1>17, <1>18, <1>19, <1>20, <1>21, <1>22, <1>23, <1>24,
          <1>25, <1>26, <1>27, <1>28, <1>29, <1>30, <1>31, <1>32, <1>33, <1>34, <1>35, <1>36,
          <1>37, <1>38, <1>39, <1>40, <1>41, <1>42, <1>43, <1>44, <1>45, <1>46, <1>47,
          <1>48, <1>49
       DEF Step, Handler, DeepScan, Agent

\* Every variable keeps its type in every behavior, and so every stored score
\* stays between 0 and 100.
THEOREM TypeCorrect == Spec => []TypeOK
<1>1. TypeOK /\ [Next]_vars => TypeOK'
    <2> SUFFICES ASSUME TypeOK, [Next]_vars PROVE TypeOK'
        OBVIOUS
    <2>1. CASE Next
        BY <2>1, TypeOKStep DEF Next, Step
    <2>2. CASE UNCHANGED vars
        BY <2>2 DEF vars, TypeOK
    <2> QED BY <2>1, <2>2
<1> QED BY <1>1, TypeOKInit, PTL DEF Spec
-----------------------------------------------------------------------------
(* Isolation and the verdict. *)


Unstored == {"idle", "blocked", "storing", "cleaning", "creating"}
Unjudged == Unstored \cup {"stored", "diverting", "starting", "scanning"}
Fanned == {"asking", "done", "crashed"}

\* Contained, for one copy.
ContainedAt(c) ==
    Stored(c) /\ row[c].verdict \in Isolating /\ row[c].folder # "quarantine"
    => \/ c \in moved
       \/ At(c, "filing")
       \/ scan[c].at = "moving"
       \/ Failed(c, {"move", "deepMove", "crash"})

\* The inductive invariant.  No row before createEmail and no verdict before
\* the pipeline; no deep scan before the handler enqueued one, so that none runs
\* beside the pipeline; and what a probing scan read is what the row still says.
IInvAt(c) ==
    /\ handler[c].at \in Unstored => row[c].folder = "absent"
    /\ handler[c].at \in Unjudged => row[c].verdict = "none"
    /\ scan[c].at # "none" => handler[c].at \in Fanned
    /\ scan[c].at = "probing" /\ scan[c].base # "none" /\ Stored(c)
       => row[c].verdict = scan[c].base
    /\ ContainedAt(c)

IInv == TypeOK /\ \A c \in Copy : IInvAt(c)

\* What a step of copy c leaves alone.
Frame(c) == \A d \in Copy \ {c} :
    /\ handler'[d] = handler[d]
    /\ row'[d] = row[d]
    /\ scan'[d] = scan[d]
    /\ missed'[d] = missed[d]
    /\ d \in moved' <=> d \in moved

\* What a step of copy c may do to its row: nothing a reader of the verdict
\* sees, or one action of the verdict register.
Removed(folder) == folder \in {"deleted", "gone"}
Keeps(c) ==
    /\ row'[c].verdict = row[c].verdict
    /\ \/ row'[c].folder = row[c].folder
       \/ Stored(c) /\ Stored(c)'
       \/ Removed(row[c].folder) /\ Removed(row'[c].folder)
Stores(c) ==
    /\ row[c].folder = "absent" /\ Stored(c)'
    /\ row[c].verdict = "none" /\ row'[c].verdict = "none"
JudgesRow(c) ==
    /\ Stored(c) /\ Stored(c)'
    /\ row[c].verdict = "none" /\ row'[c].verdict \in Actions
TightensRow(c) ==
    /\ Stored(c) /\ Stored(c)'
    /\ row[c].verdict # "none" /\ row'[c].verdict \in Actions
    /\ Tier(row'[c].verdict) > Tier(row[c].verdict)
Removes(c) == Stored(c) /\ Removed(row'[c].folder) /\ row'[c].verdict = row[c].verdict
RowStep(c) == Keeps(c) \/ Stores(c) \/ JudgesRow(c) \/ TightensRow(c) \/ Removes(c)

\* A step that leaves the row and the deep scan of c alone.
Quiet(c) ==
    /\ row'[c] = row[c]
    /\ scan'[c] = scan[c]
    /\ c \in moved' <=> c \in moved
    /\ missed[c] \subseteq missed'[c]
-----------------------------------------------------------------------------
(* What the operators of the actions do to the copy itself. *)

\* Goto changes the place and nothing else.
LEMMA GotoAt == \A c, p :
    handler \in [Copy -> Handlers] /\ c \in Copy /\ Goto(c, p) => handler'[c].at = p
BY DEF Goto, Become, Handlers

\* So do Judged and RelaySettled.
LEMMA JudgedAt == \A c, v :
    handler \in [Copy -> Handlers] /\ c \in Copy /\ Judged(c, v)
    => handler'[c].at = IF v.action \in Isolating THEN "filing" ELSE "closing"
BY DEF Judged, Become, Handlers
LEMMA RelaySettledAt == \A c, status :
    handler \in [Copy -> Handlers] /\ c \in Copy /\ RelaySettled(c, status)
    => handler'[c].at = "marking"
BY DEF RelaySettled, Become, Handlers

\* An UPDATE replaces a stored row.
LEMMA UpdateAt == \A c, r :
    row \in [Copy -> Rows] /\ c \in Copy /\ Update(c, r)
    => row'[c] = IF Stored(c) THEN r ELSE row[c]
BY DEF Update

\* A persisted verdict changes a stored row's verdict and leaves its folder.
LEMMA JudgmentAt == \A c, a, n :
    row \in [Copy -> Rows] /\ c \in Copy
    /\ Update(c, [row[c] EXCEPT !.verdict = a, !.score = n])
    => IF Stored(c) THEN row'[c].verdict = a /\ row'[c].folder = row[c].folder
                    ELSE row'[c] = row[c]
<1> SUFFICES ASSUME row \in [Copy -> Rows], NEW c \in Copy, NEW a, NEW n,
                    Update(c, [row[c] EXCEPT !.verdict = a, !.score = n])
             PROVE  IF Stored(c) THEN row'[c].verdict = a /\ row'[c].folder = row[c].folder
                                 ELSE row'[c] = row[c]
    OBVIOUS
<1> DEFINE r == [row[c] EXCEPT !.verdict = a, !.score = n]
<1>1. r.verdict = a /\ r.folder = row[c].folder
    BY DEF Rows
<1>2. row'[c] = IF Stored(c) THEN r ELSE row[c]
    BY UpdateAt
<1> QED BY <1>1, <1>2

\* A failed call is remembered.
LEMMA MissAt == \A c, call :
    missed \in [Copy -> SUBSET Calls] /\ c \in Copy /\ Miss(c, call)
    => missed[c] \subseteq missed'[c] /\ call \in missed'[c]
BY DEF Miss, MissAll
LEMMA ReadAt == \A c, call, s :
    missed \in [Copy -> SUBSET Calls] /\ c \in Copy /\ Read(c, call, s)
    => missed[c] \subseteq missed'[c]
BY MissAt DEF Read

\* A deep scan that goes on keeps what it read.
LEMMA ScanGotoAt == \A c, s :
    scan \in [Copy -> Scans] /\ c \in Copy /\ ScanGoto(c, s)
    => scan'[c].at = s /\ scan'[c].base = scan[c].base
BY DEF ScanGoto, Scans

\* Only the place of the activation matters to a quiet step: it may not go back
\* before the row, the verdict or the deep scan, and leaves the filing of an
\* isolated message only when the move failed.
LEMMA QuietStep == ASSUME NEW c \in Copy, IInvAt(c), Quiet(c),
        handler'[c].at \in Unstored => handler[c].at \in Unstored,
        handler'[c].at \in Unjudged => handler[c].at \in Unjudged,
        handler[c].at \in Fanned => handler'[c].at \in Fanned,
        handler[c].at = "filing" => handler'[c].at = "filing" \/ "move" \in missed'[c]
    PROVE IInvAt(c)' /\ RowStep(c)
<1>1. ContainedAt(c)'
    BY DEF IInvAt, ContainedAt, Quiet, At, Failed, Stored
<1>2. IInvAt(c)'
    BY <1>1 DEF IInvAt, Quiet, Stored
<1> QED BY <1>2 DEF Quiet, RowStep, Keeps

\* The quiet steps.
LEMMA QuietSteps == ASSUME TypeOK, NEW c \in Copy, IInvAt(c),
        \/ Accept(c) \/ StoreAttachment(c) \/ AttachmentsStored(c)
        \/ StoreAttachmentFails(c) \/ CleanUp(c) \/ FindThreadFails(c)
        \/ CheckHoneypot(c) \/ KeepAsMail(c) \/ StartRun(c) \/ StartRunFails(c)
        \/ SkipScan(c) \/ ScanUnstored(c) \/ ScanThrows(c) \/ DetachFails(c)
        \/ CloseRun(c) \/ CloseRunFails(c) \/ Unrelayed(c) \/ Withhold(c)
        \/ Relay(c) \/ RelayRefused(c) \/ RelayDeferred(c) \/ MarkRelayFails(c)
        \/ Notify(c) \/ NotifyFails(c) \/ AskAgent(c) \/ AgentDrafts(c)
        \/ AgentDeclines(c)
    PROVE IInvAt(c)' /\ RowStep(c)
<1>h. handler \in [Copy -> Handlers] /\ handler[c] \in Handlers
    BY DEF TypeOK
<1>m. missed \in [Copy -> SUBSET Calls]
    BY DEF TypeOK
<1> DEFINE Goal == IInvAt(c)' /\ RowStep(c)
<1> USE DEF Unstored, Unjudged, Fanned
<1>1. ASSUME Accept(c) PROVE Goal
    BY <1>1, <1>h, <1>m, QuietStep, ReadAt DEF Accept, Quiet, At, world, async, outside,
       Become, Handlers
<1>2. ASSUME StoreAttachment(c) PROVE Goal
    BY <1>2, <1>h, <1>m, QuietStep DEF StoreAttachment, Unwritten, Quiet, At, world,
       async, outside, Become, Handlers
<1>26. ASSUME AttachmentsStored(c) PROVE Goal
    BY <1>26, <1>h, <1>m, QuietStep, GotoAt DEF AttachmentsStored, Quiet, At, world,
       async, outside
<1>3. ASSUME StoreAttachmentFails(c) PROVE Goal
    BY <1>3, <1>h, <1>m, QuietStep, GotoAt, MissAt DEF StoreAttachmentFails, Unwritten,
       Quiet, At, world, async, outside
<1>4. ASSUME CleanUp(c) PROVE Goal
    BY <1>4, <1>h, <1>m, QuietStep, GotoAt, MissAt DEF CleanUp, Quiet, At, world, async,
       outside
<1>27. ASSUME FindThreadFails(c) PROVE Goal
    <2>1. handler[c].at = "creating" /\ handler'[c].at = "threw" /\ Quiet(c)
        BY <1>27, <1>h, <1>m, GotoAt, MissAt DEF FindThreadFails, Quiet, At, async
    <2>2. row[c].verdict = "none" /\ scan[c].at = "none" /\ handler[c].at \in Unjudged
        BY <2>1 DEF IInvAt
    <2>3. ContainedAt(c)'
        BY <2>1, <2>2 DEF Quiet, ContainedAt, Isolating
    <2> QED BY <2>1, <2>2, <2>3 DEF Quiet, IInvAt, RowStep, Keeps, Stored
<1>5. ASSUME CheckHoneypot(c) PROVE Goal
    BY <1>5, <1>h, <1>m, QuietStep, GotoAt, ReadAt DEF CheckHoneypot, Quiet, At, world, async,
       outside
<1>6. ASSUME KeepAsMail(c) PROVE Goal
    BY <1>6, <1>h, <1>m, QuietStep, GotoAt DEF KeepAsMail, Quiet, At, world, async, outside
<1>7. ASSUME StartRun(c) PROVE Goal
    BY <1>7, <1>h, <1>m, QuietStep DEF StartRun, Quiet, At, world, async, outside,
       Become, Handlers
<1>8. ASSUME StartRunFails(c) PROVE Goal
    BY <1>8, <1>h, <1>m, QuietStep, GotoAt, MissAt DEF StartRunFails, Quiet, At, world,
       async, outside
<1>9. ASSUME SkipScan(c) PROVE Goal
    BY <1>9, <1>h, <1>m, QuietStep, ReadAt DEF SkipScan, Quiet, At, world, async, outside,
       Become, Handlers
<1>10. ASSUME ScanUnstored(c) PROVE Goal
    BY <1>10, <1>h, <1>m, QuietStep, JudgedAt DEF ScanUnstored, MissAll, Quiet, At,
       world, async, outside
<1>11. ASSUME ScanThrows(c) PROVE Goal
    BY <1>11, <1>h, <1>m, QuietStep, MissAt DEF ScanThrows, Quiet, At, world, async,
       outside, Become, Handlers
<1>12. ASSUME DetachFails(c) PROVE Goal
    BY <1>12, <1>h, <1>m, QuietStep, MissAt DEF DetachFails, Quiet, At, world, async,
       outside, Become, Handlers
<1>13. ASSUME CloseRun(c) PROVE Goal
    BY <1>13, <1>h, <1>m, QuietStep, GotoAt DEF CloseRun, Quiet, At, world, async, outside
<1>14. ASSUME CloseRunFails(c) PROVE Goal
    BY <1>14, <1>h, <1>m, QuietStep, GotoAt, MissAt DEF CloseRunFails, Quiet, At,
       world, async, outside
<1>15. ASSUME Unrelayed(c) PROVE Goal
    BY <1>15, <1>h, <1>m, QuietStep, GotoAt, MissAt DEF Unrelayed, Quiet, At, world,
       async, outside
<1>16. ASSUME Withhold(c) PROVE Goal
    BY <1>16, <1>h, <1>m, QuietStep, RelaySettledAt DEF Withhold, Quiet, At, world,
       async, outside
<1>17. ASSUME Relay(c) PROVE Goal
    BY <1>17, <1>h, <1>m, QuietStep, RelaySettledAt DEF Relay, Quiet, At, world, async,
       outside
<1>18. ASSUME RelayRefused(c) PROVE Goal
    BY <1>18, <1>h, <1>m, QuietStep, RelaySettledAt, MissAt DEF RelayRefused, Quiet,
       At, world, async, outside
<1>19. ASSUME RelayDeferred(c) PROVE Goal
    BY <1>19, <1>h, <1>m, QuietStep, GotoAt, MissAt DEF RelayDeferred, Quiet, At,
       world, async, outside
<1>20. ASSUME MarkRelayFails(c) PROVE Goal
    BY <1>20, <1>h, <1>m, QuietStep, GotoAt, MissAt DEF MarkRelayFails, Quiet, At,
       world, async, outside
<1>21. ASSUME Notify(c) PROVE Goal
    BY <1>21, <1>h, <1>m, QuietStep, GotoAt DEF Notify, Quiet, At, world, async, outside
<1>22. ASSUME NotifyFails(c) PROVE Goal
    BY <1>22, <1>h, <1>m, QuietStep, GotoAt, MissAt DEF NotifyFails, Quiet, At, world,
       async, outside
<1>23. ASSUME AskAgent(c) PROVE Goal
    BY <1>23, <1>h, <1>m, QuietStep, GotoAt, ReadAt DEF AskAgent, Quiet, At, world, async, outside
<1>24. ASSUME AgentDrafts(c) PROVE Goal
    BY <1>24, <1>h, <1>m, QuietStep DEF AgentDrafts, Quiet, At, world, async, outside
<1>25. ASSUME AgentDeclines(c) PROVE Goal
    BY <1>25, <1>h, <1>m, QuietStep DEF AgentDeclines, Quiet, At, world, async, outside
<1> QED BY <1>1, <1>2, <1>3, <1>4, <1>5, <1>6, <1>7, <1>8, <1>9, <1>10, <1>11, <1>12,
   <1>13, <1>14, <1>15, <1>16, <1>17, <1>18, <1>19, <1>20, <1>21, <1>22, <1>23, <1>24,
   <1>25, <1>26, <1>27

\* The steps that write the row.
LEMMA RowSteps == ASSUME TypeOK, NEW c \in Copy, IInvAt(c),
        \/ CreateRow(c) \/ CreateRowFails(c) \/ DivertReport(c) \/ DivertFails(c) \/ Scan(c)
        \/ Isolate(c) \/ IsolateFails(c) \/ Detach(c) \/ MarkRelay(c)
        \/ YaraCallback(c) \/ UserMove(c) \/ UserDelete(c) \/ Purge(c)
    PROVE IInvAt(c)' /\ RowStep(c)
<1>h. handler \in [Copy -> Handlers] /\ handler[c] \in Handlers
    BY DEF TypeOK
<1>r. row \in [Copy -> Rows] /\ row[c] \in Rows
    BY DEF TypeOK
<1>m. missed \in [Copy -> SUBSET Calls]
    BY DEF TypeOK
<1> DEFINE Goal == IInvAt(c)' /\ RowStep(c)
\* Steps that only write fields no reader of the verdict sees.
<1>q. ASSUME row'[c].verdict = row[c].verdict, row'[c].folder = row[c].folder,
             scan'[c] = scan[c], c \in moved' <=> c \in moved,
             missed[c] \subseteq missed'[c], handler'[c].at = handler[c].at
      PROVE  Goal
    <2>1. ContainedAt(c)'
        BY <1>q DEF IInvAt, ContainedAt, At, Failed, Stored
    <2> QED BY <1>q, <2>1 DEF IInvAt, RowStep, Keeps, Stored
<1>n. \A joins : NewRow(c, joins).folder \in Folders /\ NewRow(c, joins).verdict = "none"
    BY DEF NewRow, NoRow, Inbound, Folders
<1>1. ASSUME CreateRow(c) PROVE Goal
    <2>1. handler[c].at = "creating" /\ handler'[c].at = "stored"
        BY <1>1, <1>h DEF CreateRow, Become, At, Handlers
    <2>2. row'[c].folder \in Folders /\ row'[c].verdict = "none"
        BY <1>1, <1>r, <1>n DEF CreateRow
    <2>3. row[c].folder = "absent" /\ row[c].verdict = "none" /\ scan[c].at = "none"
        BY <2>1 DEF IInvAt, Unstored, Unjudged, Fanned
    <2>4. scan'[c] = scan[c]
        BY <1>1 DEF CreateRow, async
    <2>5. ContainedAt(c)'
        BY <2>2 DEF ContainedAt, Isolating
    <2> QED BY <2>1, <2>2, <2>3, <2>4, <2>5 DEF IInvAt, RowStep, Stores, Stored,
       Unstored, Unjudged
<1>2. ASSUME CreateRowFails(c) PROVE Goal
    <2>1. handler[c].at = "creating" /\ handler'[c].at = "threw"
        BY <1>2, <1>h, GotoAt DEF CreateRowFails, At
    <2>2. row[c].folder = "absent" /\ row[c].verdict = "none" /\ scan[c].at = "none"
        BY <2>1 DEF IInvAt, Unstored, Unjudged, Fanned
    <2>3. row'[c] = row[c] \/ (row'[c].folder \in Folders /\ row'[c].verdict = "none")
        BY <1>2, <1>r, <1>n DEF CreateRowFails
    <2>4. scan'[c] = scan[c]
        BY <1>2 DEF CreateRowFails, async
    <2>5. row'[c].verdict = "none"
        BY <2>2, <2>3
    <2>6. ContainedAt(c)'
        BY <2>5 DEF ContainedAt, Isolating
    <2>7. RowStep(c)
        BY <2>2, <2>3 DEF RowStep, Keeps, Stores, Stored
    <2> QED BY <2>1, <2>2, <2>4, <2>6, <2>7 DEF IInvAt, Unstored, Unjudged
<1>3. ASSUME DivertReport(c) PROVE Goal
    <2>1. handler[c].at = "diverting" /\ handler'[c].at = "done"
        BY <1>3, <1>h, GotoAt DEF DivertReport, At
    <2>2. row[c].verdict = "none" /\ scan[c].at = "none"
        BY <2>1 DEF IInvAt, Unjudged, Fanned
    <2>3. row'[c] = IF Stored(c) THEN [row[c] EXCEPT !.folder = "archive"] ELSE row[c]
        BY <1>3, <1>r, UpdateAt DEF DivertReport
    <2>4. row'[c].verdict = row[c].verdict
        BY <2>3, <1>r DEF Rows
    <2>5. Stored(c)' \/ row'[c].folder = row[c].folder
        BY <2>3, <1>r DEF Rows, Stored, Folders
    <2>6. scan'[c] = scan[c]
        BY <1>3 DEF DivertReport, async
    <2>7. ContainedAt(c)'
        BY <2>2, <2>4 DEF ContainedAt, Isolating
    <2>8. RowStep(c)
        BY <2>3, <2>4, <2>5 DEF RowStep, Keeps
    <2> QED BY <2>1, <2>2, <2>6, <2>7, <2>8 DEF IInvAt, Unstored, Unjudged
<1>12. ASSUME DivertFails(c) PROVE Goal
    <2>1. handler[c].at = "diverting" /\ handler'[c].at = "starting"
        BY <1>12, <1>h, GotoAt DEF DivertFails, At
    <2>2. row[c].verdict = "none" /\ scan[c].at = "none"
        BY <2>1 DEF IInvAt, Unjudged, Fanned
    <2>3. row'[c] = IF Stored(c) THEN [row[c] EXCEPT !.folder = "archive"] ELSE row[c]
        BY <1>12, <1>r, UpdateAt DEF DivertFails
    <2>4. row'[c].verdict = row[c].verdict
        BY <2>3, <1>r DEF Rows
    <2>5. Stored(c)' \/ row'[c].folder = row[c].folder
        BY <2>3, <1>r DEF Rows, Stored, Folders
    <2>6. scan'[c] = scan[c]
        BY <1>12 DEF DivertFails, async
    <2>7. ContainedAt(c)'
        BY <2>2, <2>4 DEF ContainedAt, Isolating
    <2>8. RowStep(c)
        BY <2>3, <2>4, <2>5 DEF RowStep, Keeps
    <2> QED BY <2>1, <2>2, <2>4, <2>6, <2>7, <2>8 DEF IInvAt, Unstored, Unjudged
<1>4. ASSUME Scan(c) PROVE Goal
    <2>1. PICK s \in Reads, f \in Facts :
            /\ Judged(c, SyncVerdict(f, s))
            /\ Update(c, [row[c] EXCEPT !.verdict = SyncVerdict(f, s).action,
                                        !.score = SyncVerdict(f, s).score])
        BY <1>4 DEF Scan
    <2> DEFINE v == SyncVerdict(f, s)
    <2>2. v.action \in Actions
        BY SyncVerdictType, ModelAssumption DEF Verdicts
    <2>3. handler[c].at = "scanning"
          /\ handler'[c].at = IF v.action \in Isolating THEN "filing" ELSE "closing"
        BY <1>4, <2>1, <1>h, JudgedAt DEF Scan, At
    <2>4. row[c].verdict = "none" /\ scan[c].at = "none"
        BY <2>3 DEF IInvAt, Unjudged, Fanned
    <2>5. IF Stored(c) THEN row'[c].verdict = v.action /\ row'[c].folder = row[c].folder
                       ELSE row'[c] = row[c]
        BY <2>1, <1>r, JudgmentAt
    <2>6. scan'[c] = scan[c]
        BY <1>4 DEF Scan, async
    <2>7. ContainedAt(c)'
        <3>1. CASE Stored(c)
            BY <3>1, <2>3, <2>5 DEF ContainedAt, At
        <3>2. CASE ~Stored(c)
            BY <3>2, <2>5 DEF ContainedAt, Stored
        <3> QED BY <3>1, <3>2
    <2>8. RowStep(c)
        <3>1. CASE Stored(c)
            BY <3>1, <2>2, <2>4, <2>5 DEF RowStep, JudgesRow, Stored
        <3>2. CASE ~Stored(c)
            BY <3>2, <2>5 DEF RowStep, Keeps
        <3> QED BY <3>1, <3>2
    <2> QED BY <2>3, <2>4, <2>6, <2>7, <2>8 DEF IInvAt, Unstored, Unjudged
<1>5. ASSUME Isolate(c) PROVE Goal
    <2>1. handler[c].at = "filing" /\ handler'[c].at \in {"detaching", "closing"}
        BY <1>5, <1>h, GotoAt DEF Isolate, At
    <2>2. scan[c].at = "none" /\ scan'[c] = scan[c]
        BY <1>5, <2>1 DEF IInvAt, Isolate, async, Fanned
    <2>3. row'[c] = IF Stored(c) THEN [row[c] EXCEPT !.folder = "quarantine"] ELSE row[c]
        BY <1>5, <1>r, UpdateAt DEF Isolate
    <2>4. /\ row'[c].verdict = row[c].verdict
          /\ IF Stored(c) THEN row'[c].folder = "quarantine" ELSE row'[c] = row[c]
        BY <2>3, <1>r DEF Rows
    <2>5. ContainedAt(c)'
        BY <2>4 DEF ContainedAt, Stored
    <2>6. RowStep(c)
        BY <2>4 DEF RowStep, Keeps, Stored, Folders
    <2> QED BY <2>1, <2>2, <2>5, <2>6 DEF IInvAt, Unstored, Unjudged
<1>6. ASSUME IsolateFails(c) PROVE Goal
    <2>1. handler[c].at = "filing" /\ handler'[c].at = "closing"
        BY <1>6, <1>h DEF IsolateFails, At, Become, Handlers
    <2>2. scan[c].at = "none" /\ scan'[c] = scan[c]
        BY <1>6, <2>1 DEF IInvAt, IsolateFails, async, Fanned
    <2>3. \/ row'[c] = row[c]
          \/ row'[c] = IF Stored(c) THEN [row[c] EXCEPT !.folder = "quarantine"] ELSE row[c]
        BY <1>6, <1>r, UpdateAt DEF IsolateFails
    <2>4. /\ row'[c].verdict = row[c].verdict
          /\ row'[c].folder = row[c].folder \/ (Stored(c) /\ row'[c].folder = "quarantine")
        BY <2>3, <1>r DEF Rows
    <2>5. "move" \in missed'[c]
        BY <1>6, <1>m, MissAt DEF IsolateFails
    <2>6. ContainedAt(c)'
        BY <2>5 DEF ContainedAt, Failed
    <2>7. RowStep(c)
        BY <2>4 DEF RowStep, Keeps, Stored, Folders
    <2> QED BY <2>1, <2>2, <2>6, <2>7 DEF IInvAt, Unstored, Unjudged
<1>7. ASSUME Detach(c) PROVE Goal
    <2>1. handler[c].at = "detaching" /\ handler'[c].at = "closing"
        BY <1>7, <1>h, GotoAt DEF Detach, At
    <2>2. scan'[c] = scan[c] /\ moved' = moved /\ missed' = missed
        BY <1>7 DEF Detach, async
    <2>3. row'[c] = IF Stored(c) THEN [row[c] EXCEPT !.joined = FALSE] ELSE row[c]
        BY <1>7, <1>r, UpdateAt DEF Detach
    <2>4. row'[c].verdict = row[c].verdict /\ row'[c].folder = row[c].folder
        BY <2>3, <1>r DEF Rows
    <2>5. ContainedAt(c)'
        BY <2>1, <2>2, <2>4 DEF IInvAt, ContainedAt, At, Failed, Stored
    <2> QED BY <2>1, <2>2, <2>4, <2>5
            DEF IInvAt, RowStep, Keeps, Stored, Unstored, Unjudged, Fanned
<1>8. ASSUME MarkRelay(c) PROVE Goal
    <2>1. handler[c].at = "marking" /\ handler'[c].at = "notifying"
        BY <1>8, <1>h, GotoAt DEF MarkRelay, At
    <2>2. scan'[c] = scan[c] /\ moved' = moved /\ missed' = missed
        BY <1>8 DEF MarkRelay, async
    <2>3. row'[c] = IF Stored(c) THEN [row[c] EXCEPT !.relay = handler[c].relay] ELSE row[c]
        BY <1>8, <1>r, UpdateAt DEF MarkRelay
    <2>4. row'[c].verdict = row[c].verdict /\ row'[c].folder = row[c].folder
        BY <2>3, <1>r DEF Rows
    <2>5. ContainedAt(c)'
        BY <2>1, <2>2, <2>4 DEF IInvAt, ContainedAt, At, Failed, Stored
    <2> QED BY <2>1, <2>2, <2>4, <2>5
            DEF IInvAt, RowStep, Keeps, Stored, Unstored, Unjudged, Fanned
<1>9. ASSUME YaraCallback(c) PROVE Goal
    <2>1. PICK d \in YaraDeltas : Update(c, [row[c] EXCEPT !.score = YaraScore(@, d)])
        BY <1>9 DEF YaraCallback
    <2>2. row'[c].verdict = row[c].verdict /\ row'[c].folder = row[c].folder
        BY <2>1, <1>r, UpdateAt DEF Rows
    <2> QED BY <1>9, <1>q, <2>2 DEF YaraCallback
<1>10. ASSUME UserMove(c) PROVE Goal
    <2>1. PICK folder \in Folders : row' = [row EXCEPT ![c].folder = folder]
        BY <1>10, ModelAssumption DEF UserMove
    <2>2. row'[c].verdict = row[c].verdict /\ row'[c].folder \in Folders
        BY <2>1, <1>r DEF Rows, Folders
    <2>3. Stored(c) /\ c \in moved' /\ scan'[c] = scan[c] /\ handler' = handler
        BY <1>10 DEF UserMove, async
    <2>4. ContainedAt(c)'
        BY <2>3 DEF ContainedAt
    <2>5. handler[c].at \notin Unstored
        BY <2>3 DEF IInvAt, Stored, Folders
    <2> QED BY <2>2, <2>3, <2>4, <2>5 DEF IInvAt, RowStep, Keeps, Stored
<1>11. ASSUME UserDelete(c) PROVE Goal
    <2>1. row'[c].verdict = row[c].verdict /\ row'[c].folder = "deleted"
        BY <1>11, <1>r DEF UserDelete, Rows
    <2>2. Stored(c) /\ scan'[c] = scan[c] /\ handler' = handler
        BY <1>11 DEF UserDelete, async
    <2>3. ~Stored(c)'
        BY <2>1 DEF Stored, Folders
    <2>4. handler[c].at \notin Unstored
        BY <2>2 DEF IInvAt, Stored, Folders
    <2> QED BY <2>1, <2>2, <2>3, <2>4 DEF IInvAt, ContainedAt, RowStep, Removes, Removed
<1>13. ASSUME Purge(c) PROVE Goal
    <2>1. row[c].folder = "deleted" /\ row'[c].folder = "gone" /\ row'[c].verdict = row[c].verdict
        BY <1>13, <1>r DEF Purge, Rows
    <2>2. ~Stored(c)' /\ scan'[c] = scan[c] /\ handler' = handler
        BY <1>13, <2>1 DEF Purge, async, Stored, Folders
    <2> QED BY <2>1, <2>2 DEF IInvAt, ContainedAt, RowStep, Keeps, Removed
<1> QED BY <1>1, <1>2, <1>3, <1>4, <1>5, <1>6, <1>7, <1>8, <1>9, <1>10, <1>11, <1>12, <1>13

\* The steps of the deep scan, and what starts and kills it.
LEMMA ScanSteps == ASSUME TypeOK, NEW c \in Copy, IInvAt(c),
        \/ Enqueue(c) \/ Crash(c) \/ ScanRead(c) \/ ScanReadsNothing(c)
        \/ ScanKeeps(c) \/ ScanTightens(c) \/ ScanMoves(c) \/ ScanCloses(c) \/ ScanCrashes(c)
    PROVE IInvAt(c)' /\ RowStep(c)
<1>h. handler \in [Copy -> Handlers] /\ handler[c] \in Handlers
    BY DEF TypeOK
<1>r. row \in [Copy -> Rows] /\ row[c] \in Rows
    BY DEF TypeOK
<1>s. scan \in [Copy -> Scans] /\ scan[c] \in Scans
    BY DEF TypeOK
<1>m. missed \in [Copy -> SUBSET Calls]
    BY DEF TypeOK
<1> DEFINE Goal == IInvAt(c)' /\ RowStep(c)
\* A scan that is not about to move anything changes stage, and no more.
<1>q. ASSUME row'[c].verdict = row[c].verdict, row'[c].folder = row[c].folder,
             c \in moved' <=> c \in moved, missed[c] \subseteq missed'[c],
             scan'[c].at # "probing", scan[c].at # "moving",
             scan'[c].at # "none" => handler'[c].at \in Fanned,
             handler'[c].at \in Unjudged => handler'[c].at = handler[c].at,
             handler[c].at = "filing" => handler'[c].at = "filing" \/ "crash" \in missed'[c]
      PROVE  Goal
    <2>1. ContainedAt(c)'
        BY <1>q DEF IInvAt, ContainedAt, At, Failed, Stored
    <2> QED BY <1>q, <2>1 DEF IInvAt, RowStep, Keeps, Stored, Unjudged
<1>1. ASSUME Enqueue(c) PROVE Goal
    <2>1. handler[c].at = "enqueueing" /\ handler'[c].at = "asking"
        BY <1>1, <1>h, GotoAt DEF Enqueue, At
    <2>2. scan[c].at = "none" /\ scan'[c].at \in {"none", "queued"}
        BY <1>1, <1>s, <2>1, ScanGotoAt DEF Enqueue, IInvAt, Fanned
    <2>3. row' = row /\ moved' = moved /\ missed[c] \subseteq missed'[c]
        BY <1>1, <1>m, ReadAt DEF Enqueue
    <2> QED BY <1>q, <2>1, <2>2, <2>3 DEF Fanned, Unjudged, Unstored
<1>2. ASSUME Crash(c) PROVE Goal
    <2>1. handler'[c].at = "crashed"
        BY <1>2, <1>h, GotoAt DEF Crash
    <2>2. "crash" \in missed'[c]
        BY <1>2, <1>m, MissAt DEF Crash
    <2>3. scan'[c].at \in {"none", "dead"}
        BY <1>2, <1>s, ScanGotoAt DEF Crash
    <2>4. row' = row
        BY <1>2 DEF Crash
    <2>5. ContainedAt(c)'
        BY <2>2 DEF ContainedAt, Failed
    <2> QED BY <2>1, <2>3, <2>4, <2>5 DEF IInvAt, RowStep, Keeps, Fanned, Unjudged, Unstored
<1>3. ASSUME ScanRead(c) PROVE Goal
    <2>1. scan'[c].at = "probing" /\ scan'[c].base = row[c].verdict
        BY <1>3, <1>s DEF ScanRead, Begins
    <2>2. scan[c].at = "queued"
        BY <1>3 DEF ScanRead
    <2>3. row' = row /\ moved' = moved /\ missed' = missed /\ handler' = handler
        BY <1>3 DEF ScanRead
    <2>4. ContainedAt(c)'
        BY <2>2, <2>3 DEF IInvAt, ContainedAt, At, Failed, Stored
    <2> QED BY <2>1, <2>2, <2>3, <2>4 DEF IInvAt, RowStep, Keeps, Stored
<1>9. ASSUME ScanReadsNothing(c) PROVE Goal
    <2>1. scan'[c].at = "probing" /\ scan'[c].base = "none"
        BY <1>9, <1>s DEF ScanReadsNothing, Begins
    <2>2. scan[c].at = "queued"
        BY <1>9 DEF ScanReadsNothing
    <2>3. row' = row /\ moved' = moved /\ handler' = handler
        BY <1>9 DEF ScanReadsNothing
    <2>4. missed[c] \subseteq missed'[c]
        BY <1>9, <1>m, MissAt DEF ScanReadsNothing
    <2>5. ContainedAt(c)'
        BY <2>2, <2>3, <2>4 DEF IInvAt, ContainedAt, At, Failed, Stored
    <2> QED BY <2>1, <2>2, <2>3, <2>5 DEF IInvAt, RowStep, Keeps, Stored
<1>4. ASSUME ScanKeeps(c) PROVE Goal
    <2>1. scan[c].at = "probing" /\ scan'[c].at = "closing"
        BY <1>4, <1>s, ScanGotoAt DEF ScanKeeps
    <2>2. row' = row /\ moved' = moved /\ missed' = missed /\ handler' = handler
        BY <1>4 DEF ScanKeeps
    <2>3. handler[c].at \in Fanned
        BY <2>1 DEF IInvAt
    <2> QED BY <1>q, <2>1, <2>2, <2>3
<1>5. ASSUME ScanTightens(c) PROVE Goal
    <2>1. PICK a \in Added :
            LET new == Judge(DeepScore(scan[c].score, a))
            IN  /\ Upgrades(scan[c].base, scan[c].score, a)
                /\ \/ /\ Update(c, [row[c] EXCEPT !.verdict = new.action, !.score = new.score])
                      /\ UNCHANGED missed
                   \/ Miss(c, "deepPersist") /\ UNCHANGED row
                /\ ScanGoto(c, IF new.action \in Isolating THEN "moving" ELSE "closing")
        BY <1>5 DEF ScanTightens
    <2> DEFINE new == Judge(DeepScore(scan[c].score, a))
    <2>2. /\ scan[c].at = "probing" /\ scan[c].base # "none"
          /\ handler' = handler /\ moved' = moved
        BY <1>5 DEF ScanTightens
    <2>3. scan[c].score \in Scores
        BY <1>s DEF Scans, Scores
    <2>4. new \in Verdicts
        BY <2>3, DeepScoreType, JudgeType, ModelAssumption
    <2>5. new.action \in Actions /\ Tier(new.action) > Tier(scan[c].base)
        BY <2>1, <2>4 DEF Upgrades, Judge, Verdicts
    <2>6. Stored(c) => row[c].verdict = scan[c].base
        BY <2>2 DEF IInvAt
    <2>7. \/ row'[c] = row[c]
          \/ Stored(c) /\ row'[c].verdict = new.action /\ row'[c].folder = row[c].folder
        BY <2>1, <1>r, JudgmentAt
    <2>8. scan'[c].at = IF new.action \in Isolating THEN "moving" ELSE "closing"
        BY <2>1, <1>s, ScanGotoAt
    <2>9. missed[c] \subseteq missed'[c]
        BY <2>1, <1>m, MissAt
    <2>10. handler[c].at \in Fanned
        BY <2>2 DEF IInvAt
    <2>11. ContainedAt(c)'
        <3>1. CASE row'[c] = row[c]
            BY <3>1, <2>2, <2>9 DEF IInvAt, ContainedAt, At, Failed, Stored
        <3>2. CASE row'[c].verdict = new.action
            BY <3>2, <2>8 DEF ContainedAt
        <3> QED BY <3>1, <3>2, <2>7
    <2>12. RowStep(c)
        <3>1. CASE row'[c] = row[c]
            BY <3>1 DEF RowStep, Keeps
        <3>2. CASE Stored(c) /\ row'[c].verdict = new.action /\ row'[c].folder = row[c].folder
            BY <3>2, <2>2, <2>5, <2>6 DEF RowStep, TightensRow, Stored
        <3> QED BY <3>1, <3>2, <2>7
    <2> QED BY <2>2, <2>8, <2>10, <2>11, <2>12 DEF IInvAt, Fanned, Unstored, Unjudged
<1>6. ASSUME ScanMoves(c) PROVE Goal
    <2>1. /\ scan[c].at = "moving" /\ scan'[c].at = "closing"
          /\ handler' = handler
        BY <1>6, <1>s, ScanGotoAt DEF ScanMoves
    <2>2. handler[c].at \in Fanned
        BY <2>1 DEF IInvAt
    <2>3. \/ row'[c] = IF Stored(c) THEN [row[c] EXCEPT !.folder = "quarantine"] ELSE row[c]
          \/ row'[c] = row[c] /\ "deepMove" \in missed'[c]
        BY <1>6, <1>r, <1>m, UpdateAt, MissAt DEF ScanMoves
    <2>4. /\ row'[c].verdict = row[c].verdict
          /\ \/ IF Stored(c) THEN row'[c].folder = "quarantine" ELSE row'[c] = row[c]
             \/ row'[c] = row[c] /\ "deepMove" \in missed'[c]
        BY <2>3, <1>r DEF Rows
    <2>5. ContainedAt(c)'
        BY <2>4 DEF ContainedAt, Stored, Failed
    <2>6. RowStep(c)
        BY <2>4 DEF RowStep, Keeps, Stored, Folders
    <2> QED BY <2>1, <2>2, <2>5, <2>6 DEF IInvAt, Fanned, Unstored, Unjudged
<1>7. ASSUME ScanCloses(c) PROVE Goal
    <2>1. scan[c].at = "closing" /\ scan'[c].at = "ended" /\ handler' = handler /\ moved' = moved
        BY <1>7, <1>s, ScanGotoAt DEF ScanCloses
    <2>2. row'[c].verdict = row[c].verdict /\ row'[c].folder = row[c].folder
        BY <1>7, <1>r, UpdateAt DEF ScanCloses, Rows
    <2>3. missed[c] \subseteq missed'[c]
        BY <1>7, <1>m, MissAt DEF ScanCloses
    <2>4. handler[c].at \in Fanned
        BY <2>1 DEF IInvAt
    <2> QED BY <1>q, <2>1, <2>2, <2>3, <2>4
<1>8. ASSUME ScanCrashes(c) PROVE Goal
    <2>1. scan'[c].at = "dead" /\ handler' = handler /\ row' = row
        BY <1>8, <1>s, ScanGotoAt DEF ScanCrashes
    <2>2. "crash" \in missed'[c]
        BY <1>8, <1>m, MissAt DEF ScanCrashes
    <2>3. handler[c].at \in Fanned
        BY <1>8 DEF ScanCrashes, At, Fanned
    <2>4. ContainedAt(c)'
        BY <2>2 DEF ContainedAt, Failed
    <2> QED BY <2>1, <2>3, <2>4 DEF IInvAt, RowStep, Keeps, Fanned, Unstored, Unjudged
<1> QED BY <1>1, <1>2, <1>3, <1>4, <1>5, <1>6, <1>7, <1>8, <1>9

\* A step of one copy leaves the rows and the activations of the others alone.
LEMMA StepFrame == ASSUME TypeOK, NEW c \in Copy, Step(c) PROVE Frame(c)
<1>t. handler \in [Copy -> Handlers] /\ row \in [Copy -> Rows] /\ scan \in [Copy -> Scans]
      /\ missed \in [Copy -> SUBSET Calls] /\ moved \subseteq Copy
    BY DEF TypeOK
<1>1. ASSUME Accept(c) PROVE Frame(c)
    BY <1>t, <1>1 DEF Frame, Accept, Read, Miss, MissAll, Become, async, outside, world
<1>2. ASSUME StoreAttachment(c) PROVE Frame(c)
    BY <1>t, <1>2 DEF Frame, StoreAttachment, Become, async, outside, world
<1>48. ASSUME AttachmentsStored(c) PROVE Frame(c)
    BY <1>t, <1>48 DEF Frame, AttachmentsStored, Goto, Become, async, outside, world
<1>3. ASSUME StoreAttachmentFails(c) PROVE Frame(c)
    BY <1>t, <1>3 DEF Frame, StoreAttachmentFails, Goto, Miss, MissAll, Become, async,
       outside, world
<1>49. ASSUME FindThreadFails(c) PROVE Frame(c)
    BY <1>t, <1>49 DEF Frame, FindThreadFails, Goto, Miss, MissAll, Become, async, outside,
       world
<1>4. ASSUME CleanUp(c) PROVE Frame(c)
    BY <1>t, <1>4 DEF Frame, CleanUp, Goto, Miss, MissAll, Become, async, outside, world
<1>5. ASSUME CreateRow(c) PROVE Frame(c)
    BY <1>t, <1>5 DEF Frame, CreateRow, Become, async, outside, world
<1>6. ASSUME CreateRowFails(c) PROVE Frame(c)
    BY <1>t, <1>6 DEF Frame, CreateRowFails, Goto, Miss, MissAll, Become, async, outside, world
<1>7. ASSUME CheckHoneypot(c) PROVE Frame(c)
    BY <1>t, <1>7 DEF Frame, CheckHoneypot, Read, Miss, MissAll, Goto, Become, async, outside, world
<1>8. ASSUME DivertReport(c) PROVE Frame(c)
    BY <1>t, <1>8 DEF Frame, DivertReport, Goto, Update, Become, async, outside, world
<1>9. ASSUME KeepAsMail(c) PROVE Frame(c)
    BY <1>t, <1>9 DEF Frame, KeepAsMail, Goto, Become, async, outside, world
<1>45. ASSUME DivertFails(c) PROVE Frame(c)
    BY <1>t, <1>45 DEF Frame, DivertFails, Goto, Update, Miss, MissAll, Become, async, outside, world
<1>10. ASSUME StartRun(c) PROVE Frame(c)
    BY <1>t, <1>10 DEF Frame, StartRun, Become, async, outside, world
<1>11. ASSUME StartRunFails(c) PROVE Frame(c)
    BY <1>t, <1>11 DEF Frame, StartRunFails, Goto, Miss, MissAll, Become, async, outside, world
<1>12. ASSUME SkipScan(c) PROVE Frame(c)
    BY <1>t, <1>12 DEF Frame, SkipScan, Read, Miss, MissAll, Become, async, outside, world
<1>13. ASSUME Scan(c) PROVE Frame(c)
    BY <1>t, <1>13 DEF Frame, Scan, Read, Miss, MissAll, Update, Judged, Become, async, outside, world
<1>14. ASSUME ScanUnstored(c) PROVE Frame(c)
    BY <1>t, <1>14 DEF Frame, ScanUnstored, Miss, MissAll, Judged, Become, async, outside, world
<1>15. ASSUME ScanThrows(c) PROVE Frame(c)
    BY <1>t, <1>15 DEF Frame, ScanThrows, Miss, MissAll, Become, async, outside, world
<1>16. ASSUME Isolate(c) PROVE Frame(c)
    BY <1>t, <1>16 DEF Frame, Isolate, Goto, Update, Become, async, outside, world
<1>17. ASSUME IsolateFails(c) PROVE Frame(c)
    BY <1>t, <1>17 DEF Frame, IsolateFails, Update, Miss, MissAll, Become, async, outside, world
<1>18. ASSUME Detach(c) PROVE Frame(c)
    BY <1>t, <1>18 DEF Frame, Detach, Goto, Update, Become, async, outside, world
<1>19. ASSUME DetachFails(c) PROVE Frame(c)
    BY <1>t, <1>19 DEF Frame, DetachFails, Miss, MissAll, Become, async, outside, world
<1>20. ASSUME CloseRun(c) PROVE Frame(c)
    BY <1>t, <1>20 DEF Frame, CloseRun, Goto, Become, async, outside, world
<1>21. ASSUME CloseRunFails(c) PROVE Frame(c)
    BY <1>t, <1>21 DEF Frame, CloseRunFails, Goto, Miss, MissAll, Become, async, outside, world
<1>22. ASSUME Unrelayed(c) PROVE Frame(c)
    BY <1>t, <1>22 DEF Frame, Unrelayed, Goto, Miss, MissAll, Become, async, outside, world
<1>23. ASSUME Withhold(c) PROVE Frame(c)
    BY <1>t, <1>23 DEF Frame, Withhold, RelaySettled, Become, async, outside, world
<1>24. ASSUME Relay(c) PROVE Frame(c)
    BY <1>t, <1>24 DEF Frame, Relay, RelaySettled, Become, async, outside, world
<1>25. ASSUME RelayRefused(c) PROVE Frame(c)
    BY <1>t, <1>25 DEF Frame, RelayRefused, Miss, MissAll, RelaySettled, Become, async, outside,
       world
<1>26. ASSUME RelayDeferred(c) PROVE Frame(c)
    BY <1>t, <1>26 DEF Frame, RelayDeferred, Goto, Miss, MissAll, Become, async, outside, world
<1>27. ASSUME MarkRelay(c) PROVE Frame(c)
    BY <1>t, <1>27 DEF Frame, MarkRelay, Goto, Update, Become, async, outside, world
<1>28. ASSUME MarkRelayFails(c) PROVE Frame(c)
    BY <1>t, <1>28 DEF Frame, MarkRelayFails, Goto, Miss, MissAll, Become, async, outside, world
<1>29. ASSUME Notify(c) PROVE Frame(c)
    BY <1>t, <1>29 DEF Frame, Notify, Goto, Become, async, outside, world
<1>30. ASSUME NotifyFails(c) PROVE Frame(c)
    BY <1>t, <1>30 DEF Frame, NotifyFails, Goto, Miss, MissAll, Become, async, outside, world
<1>31. ASSUME Enqueue(c) PROVE Frame(c)
    BY <1>t, <1>31 DEF Frame, Enqueue, Read, Miss, MissAll, Goto, ScanGoto, Become, async, outside, world
<1>32. ASSUME AskAgent(c) PROVE Frame(c)
    BY <1>t, <1>32 DEF Frame, AskAgent, Read, Miss, MissAll, Goto, Become, async, outside, world
<1>33. ASSUME Crash(c) PROVE Frame(c)
    BY <1>t, <1>33 DEF Frame, Crash, Goto, ScanGoto, Miss, MissAll, Become, async, outside, world
<1>34. ASSUME ScanRead(c) PROVE Frame(c)
    BY <1>t, <1>34 DEF Frame, ScanRead, Begins, async, outside, world
<1>46. ASSUME ScanReadsNothing(c) PROVE Frame(c)
    BY <1>t, <1>46 DEF Frame, ScanReadsNothing, Begins, Miss, MissAll, async, outside, world
<1>35. ASSUME ScanKeeps(c) PROVE Frame(c)
    BY <1>t, <1>35 DEF Frame, ScanKeeps, ScanGoto, async, outside, world
<1>36. ASSUME ScanTightens(c) PROVE Frame(c)
    BY <1>t, <1>36 DEF Frame, ScanTightens, ScanGoto, Update, Miss, MissAll, async, outside, world
<1>37. ASSUME ScanMoves(c) PROVE Frame(c)
    BY <1>t, <1>37 DEF Frame, ScanMoves, ScanGoto, Update, Miss, MissAll, async, outside, world
<1>38. ASSUME ScanCloses(c) PROVE Frame(c)
    BY <1>t, <1>38 DEF Frame, ScanCloses, ScanGoto, Update, Miss, MissAll, async, outside, world
<1>39. ASSUME ScanCrashes(c) PROVE Frame(c)
    BY <1>t, <1>39 DEF Frame, ScanCrashes, ScanGoto, Miss, MissAll, async, outside, world
<1>40. ASSUME AgentDrafts(c) PROVE Frame(c)
    BY <1>t, <1>40 DEF Frame, AgentDrafts, async, outside, world
<1>41. ASSUME AgentDeclines(c) PROVE Frame(c)
    BY <1>t, <1>41 DEF Frame, AgentDeclines, async, outside, world
<1>42. ASSUME YaraCallback(c) PROVE Frame(c)
    BY <1>t, <1>42 DEF Frame, YaraCallback, Update, async, outside, world
<1>43. ASSUME UserMove(c) PROVE Frame(c)
    BY <1>t, <1>43 DEF Frame, UserMove, async, outside, world
<1>44. ASSUME UserDelete(c) PROVE Frame(c)
    BY <1>t, <1>44 DEF Frame, UserDelete, async, outside, world
<1>47. ASSUME Purge(c) PROVE Frame(c)
    BY <1>t, <1>47 DEF Frame, Purge, Miss, MissAll, async, outside, world
<1> QED BY <1>1, <1>2, <1>3, <1>4, <1>5, <1>6, <1>7, <1>8, <1>9, <1>10, <1>11, <1>12,
   <1>13, <1>14, <1>15, <1>16, <1>17, <1>18, <1>19, <1>20, <1>21, <1>22, <1>23, <1>24,
   <1>25, <1>26, <1>27, <1>28, <1>29, <1>30, <1>31, <1>32, <1>33, <1>34, <1>35, <1>36,
   <1>37, <1>38, <1>39, <1>40, <1>41, <1>42, <1>43, <1>44, <1>45, <1>46, <1>47, <1>48,
   <1>49
       DEF Step, Handler, DeepScan, Agent
-----------------------------------------------------------------------------
(* The inductive invariant. *)

\* A step of c keeps the invariant of c and does one thing to its row.
LEMMA StepHere == ASSUME TypeOK, NEW c \in Copy, IInvAt(c), Step(c)
                  PROVE  IInvAt(c)' /\ RowStep(c)
BY QuietSteps, RowSteps, ScanSteps DEF Step, Handler, DeepScan, Agent

\* What a step leaves alone keeps its invariant.
LEMMA FrameKeeps == ASSUME NEW c \in Copy, Frame(c), NEW d \in Copy \ {c}, IInvAt(d)
                    PROVE  IInvAt(d)'
<1>1. ContainedAt(d)'
    BY DEF Frame, IInvAt, ContainedAt, At, Failed, Stored
<1> QED BY <1>1 DEF Frame, IInvAt, Stored

\* The invariant holds initially.
LEMMA IInvInit == Init => IInv
<1> SUFFICES ASSUME Init PROVE IInv
    OBVIOUS
<1>1. ASSUME NEW c \in Copy PROVE IInvAt(c)
    <2>1. handler[c].at = "idle" /\ scan[c].at = "none"
        BY DEF Init
    <2>2. row[c].folder = "absent" /\ row[c].verdict = "none"
        BY DEF Init, NoRow
    <2>3. ContainedAt(c)
        BY <2>2 DEF ContainedAt, Isolating
    <2> QED BY <2>1, <2>2, <2>3 DEF IInvAt
<1> QED BY <1>1, TypeOKInit DEF IInv

\* Every step keeps it.
LEMMA IInvNext == IInv /\ [Next]_vars => IInv'
<1> SUFFICES ASSUME IInv, [Next]_vars PROVE IInv'
    OBVIOUS
<1>1. CASE Next
    <2>1. PICK c \in Copy : Step(c)
        BY <1>1 DEF Next, Step
    <2>2. TypeOK'
        BY <2>1, TypeOKStep DEF IInv
    <2>3. IInvAt(c)'
        BY <2>1, StepHere DEF IInv
    <2>4. Frame(c)
        BY <2>1, StepFrame DEF IInv
    <2>5. \A d \in Copy \ {c} : IInvAt(d)'
        BY <2>4, FrameKeeps DEF IInv
    <2> QED BY <2>2, <2>3, <2>5 DEF IInv
<1>2. CASE UNCHANGED vars
    <2>1. TypeOK'
        BY <1>2 DEF IInv, TypeOK, vars
    <2>2. ASSUME NEW c \in Copy PROVE IInvAt(c)'
        <3>1. ContainedAt(c)'
            BY <1>2 DEF IInv, IInvAt, ContainedAt, At, Failed, Stored, vars
        <3> QED BY <1>2, <3>1 DEF IInv, IInvAt, Stored, vars
    <2> QED BY <2>1, <2>2 DEF IInv
<1> QED BY <1>1, <1>2

\* It holds in every reachable state.
LEMMA Invariant == Spec => []IInv
BY IInvInit, IInvNext, PTL DEF Spec
-----------------------------------------------------------------------------
(* The theorems. *)

\* Mail whose stored verdict isolates it is in Quarantine, unless the user filed
\* it since, its filing is the next step, or a failed call kept it where it was:
\* receiveEmail, the deep scan, the callbacks and the user cannot interleave in
\* a way that leaves it in view.
THEOREM IsolatedContained == Spec => []Contained
<1>1. IInv => Contained
    BY DEF IInv, IInvAt, Contained, ContainedAt
<1> QED BY <1>1, Invariant, PTL

\* A step of c in a reachable state: one change of its row, none of the others.
LEMMA RowChange == IInv /\ Next =>
    \E c \in Copy : RowStep(c) /\ \A d \in Copy \ {c} : row'[d] = row[d]
<1> SUFFICES ASSUME IInv, Next
             PROVE  \E c \in Copy : RowStep(c) /\ \A d \in Copy \ {c} : row'[d] = row[d]
    OBVIOUS
<1>1. PICK c \in Copy : Step(c)
    BY DEF Next, Step
<1>2. RowStep(c)
    BY <1>1, StepHere DEF IInv
<1>3. Frame(c)
    BY <1>1, StepFrame DEF IInv
<1> QED BY <1>2, <1>3 DEF Frame

\* No step relaxes or erases a stored verdict, although the deep scan decides on
\* a verdict it read before its slow signals: nothing judges the row meanwhile.
THEOREM VerdictsTighten == Spec => VerdictOnlyTightens
<1> DEFINE A == \A c \in Copy : Stored(c) /\ Stored(c)' =>
                   /\ Tier(row'[c].verdict) >= Tier(row[c].verdict)
                   /\ row[c].verdict # "none" => row'[c].verdict # "none"
<1>t. TypeOK => \A c \in Copy : Tier(row[c].verdict) \in 0..3
    <2>1. \A v \in Opinions : Tier(v) \in 0..3
        BY TierType DEF Opinions
    <2>2. TypeOK => \A c \in Copy : row[c].verdict \in Opinions
        BY DEF TypeOK, Rows
    <2> QED BY <2>1, <2>2
<1>1. IInv /\ [Next]_vars => [A]_vars
    <2> SUFFICES ASSUME IInv, Next, NEW d \in Copy, Stored(d), Stored(d)'
                 PROVE  /\ Tier(row'[d].verdict) >= Tier(row[d].verdict)
                        /\ row[d].verdict # "none" => row'[d].verdict # "none"
        OBVIOUS
    <2>1. PICK c \in Copy : RowStep(c) /\ \A e \in Copy \ {c} : row'[e] = row[e]
        BY RowChange
    <2>2. Tier(row[d].verdict) \in 0..3
        BY <1>t DEF IInv
    <2>3. CASE row'[d].verdict = row[d].verdict
        BY <2>2, <2>3
    <2>4. CASE JudgesRow(d)
        <3>1. Tier(row[d].verdict) = 0 /\ Tier(row'[d].verdict) \in 0..3
            BY <2>4, TierType DEF JudgesRow
        <3> QED BY <2>4, <3>1 DEF JudgesRow
    <2>5. CASE TightensRow(d)
        <3>1. Tier(row'[d].verdict) \in 0..3 /\ row'[d].verdict # "none"
            BY <2>5, TierType DEF TightensRow, Actions
        <3> QED BY <2>2, <2>5, <3>1 DEF TightensRow
    <2>6. \/ row'[d].verdict = row[d].verdict \/ JudgesRow(d) \/ TightensRow(d)
        BY <2>1 DEF RowStep, Keeps, Stores, Removes, Removed, Stored, Folders
    <2> QED BY <2>3, <2>4, <2>5, <2>6
<1> QED BY <1>1, Invariant, PTL DEF Spec, VerdictOnlyTightens

\* The stage of a row, before and after a step.
LEMMA StageOf == \A c :
    /\ row[c].folder = "absent" => Stage(c) = "outside"
    /\ Removed(row[c].folder) => Stage(c) = "removed"
    /\ Stored(c) => Stage(c) = IF row[c].verdict = "none" THEN "stored" ELSE "judged"
<1> SUFFICES ASSUME NEW c
             PROVE  /\ row[c].folder = "absent" => Stage(c) = "outside"
                    /\ Removed(row[c].folder) => Stage(c) = "removed"
                    /\ Stored(c) => Stage(c) = IF row[c].verdict = "none" THEN "stored" ELSE "judged"
    OBVIOUS
<1>1. CASE row[c].folder = "absent"
    BY <1>1 DEF Stage, Stored, Folders, Removed
<1>2. CASE Removed(row[c].folder)
    BY <1>2 DEF Stage, Stored, Folders, Removed
<1>3. CASE Stored(c)
    <2>1. row[c].folder # "absent" /\ ~Removed(row[c].folder)
        BY <1>3 DEF Stored, Folders, Removed
    <2> QED BY <1>3, <2>1 DEF Stage, Stored, Folders, Removed
<1> QED BY <1>1, <1>2, <1>3
LEMMA StageAfter == \A c :
    /\ Removed(row'[c].folder) => Stage(c)' = "removed"
    /\ Stored(c)' => Stage(c)' = IF row'[c].verdict = "none" THEN "stored" ELSE "judged"
<1> SUFFICES ASSUME NEW c
             PROVE  /\ Removed(row'[c].folder) => Stage(c)' = "removed"
                    /\ Stored(c)' => Stage(c)' = IF row'[c].verdict = "none" THEN "stored" ELSE "judged"
    OBVIOUS
<1>1. CASE Removed(row'[c].folder)
    BY <1>1 DEF Stage, Stored, Folders, Removed
<1>2. CASE Stored(c)'
    <2>1. row'[c].folder # "absent" /\ ~Removed(row'[c].folder)
        BY <1>2 DEF Stored, Folders, Removed
    <2> QED BY <1>2, <2>1 DEF Stage, Stored, Folders, Removed
<1> QED BY <1>1, <1>2

\* The rows implement the verdict register: each is stored once, judged at most
\* once, then only tightened, and never comes back once removed.
THEOREM RegisterImplemented == Spec => ImplementsRegister
<1> DEFINE stage == [c \in Copy |-> Stage(c)]
           tier  == [c \in Copy |-> Tier(row[c].verdict)]
<1>1. Init => Register!Init
    <2> SUFFICES ASSUME Init PROVE Register!Init
        OBVIOUS
    <2>1. \A c \in Copy : Stage(c) = "outside" /\ Tier(row[c].verdict) = 0
        BY TierType, StageOf DEF Init, NoRow
    <2> QED BY <2>1 DEF Register!Init
<1>2. IInv /\ [Next]_vars => [Register!Next]_<<stage, tier>>
    <2> SUFFICES ASSUME IInv, [Next]_vars PROVE [Register!Next]_<<stage, tier>>
        OBVIOUS
    <2>1. CASE UNCHANGED vars
        <3>1. row' = row
            BY <2>1 DEF vars
        <3>2. stage' = stage /\ tier' = tier
            BY <3>1 DEF Stage, Stored, Tier
        <3> QED BY <3>2
    <2>2. CASE Next
        <3>1. PICK c \in Copy : RowStep(c) /\ \A d \in Copy \ {c} : row'[d] = row[d]
            BY <2>2, RowChange
        <3>2. \A d \in Copy \ {c} : Stage(d)' = Stage(d) /\ Tier(row[d].verdict)' = Tier(row[d].verdict)
            BY <3>1 DEF Stage, Stored, Tier
        <3>3. /\ stage' = [stage EXCEPT ![c] = Stage(c)']
              /\ tier' = [tier EXCEPT ![c] = Tier(row'[c].verdict)]
            BY <3>2
        <3>s. stage[c] = Stage(c) /\ tier[c] = Tier(row[c].verdict)
            OBVIOUS
        <3>4. CASE Keeps(c)
            <4>1. Stage(c)' = Stage(c) /\ Tier(row'[c].verdict) = Tier(row[c].verdict)
                BY <3>4 DEF Keeps, Removed, Stage, Stored, Folders
            <4>2. stage' = stage /\ tier' = tier
                BY <3>2, <4>1
            <4> QED BY <4>2
        <3>5. CASE Stores(c)
            <4>1. Stage(c) = "outside" /\ Stage(c)' = "stored"
                BY <3>5, StageOf, StageAfter DEF Stores
            <4>2. tier' = tier
                BY <3>2, <3>5 DEF Stores
            <4>3. Register!Store(c)
                BY <3>3, <3>s, <4>1, <4>2 DEF Register!Store
            <4> QED BY <4>3 DEF Register!Next
        <3>6. CASE JudgesRow(c)
            <4>1. Stage(c) = "stored" /\ Stage(c)' = "judged"
                BY <3>6, StageOf, StageAfter DEF JudgesRow, Actions
            <4>2. Tier(row'[c].verdict) \in 0..3
                BY <3>6, TierType DEF JudgesRow
            <4>3. Register!Judge(c)
                BY <3>3, <3>s, <4>1, <4>2 DEF Register!Judge, Register!Tiers
            <4> QED BY <4>3 DEF Register!Next
        <3>7. CASE TightensRow(c)
            <4>1. Stage(c) = "judged" /\ Stage(c)' = "judged"
                BY <3>7, StageOf, StageAfter DEF TightensRow, Actions
            <4>2. Tier(row'[c].verdict) \in 0..3 /\ Tier(row'[c].verdict) > Tier(row[c].verdict)
                BY <3>7, TierType DEF TightensRow
            <4>3. stage' = stage
                BY <3>2, <4>1
            <4>4. Register!Tighten(c)
                BY <3>3, <3>s, <4>1, <4>2, <4>3 DEF Register!Tighten, Register!Tiers
            <4> QED BY <4>4 DEF Register!Next
        <3>8. CASE Removes(c)
            <4>1. Stage(c) \in {"stored", "judged"} /\ Stage(c)' = "removed"
                BY <3>8, StageOf, StageAfter DEF Removes
            <4>2. tier' = tier
                BY <3>2, <3>8 DEF Removes
            <4>3. Register!Remove(c)
                BY <3>3, <3>s, <4>1, <4>2 DEF Register!Remove
            <4> QED BY <4>3 DEF Register!Next
        <3> HIDE DEF stage, tier
        <3> QED BY <3>1, <3>4, <3>5, <3>6, <3>7, <3>8 DEF RowStep
    <2> QED BY <2>1, <2>2
<1> QED BY <1>1, <1>2, Invariant, PTL DEF Spec, ImplementsRegister, Register!Spec

(***************************************************************************)
(* What is recorded of a message is what happened to it, whatever failed:  *)
(* its attachments, its relay status, its run and the folder the clients   *)
(* are told; its origin's retries reach the backend once; and a mailbox    *)
(* that must stay silent does.                                             *)
(***************************************************************************)

\* The places before the relay has been tried, and those after it.
Unsent == Unjudged \cup {"filing", "detaching", "closing", "relaying"}
Relayed == {"notifying", "enqueueing", "asking", "done"}

\* BlobsMatchRows, for one copy: the attachments are there before the row, and
\* no others than the recorded ones and the one whose put lost its answer.
HasBlob(c, i) == <<c, i>> \in blobs
BlobsAt(c) ==
    /\ Stored(c) \/ At(c, "creating") => \A i \in 1..mail[c[1]].attached : HasBlob(c, i)
    /\ At(c, "idle") \/ At(c, "storing") => \A i \in 1..handler[c].written : HasBlob(c, i)
    /\ \A i \in Nat : HasBlob(c, i)
       => i <= handler[c].written \/ (i = handler[c].written + 1 /\ "r2" \in missed[c])
    /\ \A i \in 1..mail[c[1]].attached : HasBlob(c, i) /\ ~Stored(c)
       => \/ handler[c].at \in {"storing", "cleaning", "creating"}
          \/ row[c].folder = "deleted"
          \/ i = handler[c].written + 1 /\ "r2" \in missed[c]
          \/ Failed(c, {"unlink", "thread", "create", "purge", "crash"})

\* RelayStatusTrue, for one copy: nothing is at the backend before the relay,
\* and what the handler is about to write is what happened there.
RelayAt(c) ==
    /\ handler[c].at \in Unsent => c \notin sent /\ row[c].relay = "none"
    /\ At(c, "marking") => handler[c].relay # "none"
                           /\ (handler[c].relay = "relayed" <=> c \in sent)
    /\ row[c].relay # "none" => (row[c].relay = "relayed" <=> c \in sent)
    /\ c \in sent /\ Stored(c) /\ handler[c].at \in Relayed
       => row[c].relay = "relayed" \/ "mark" \in missed[c]

\* A delivery that ended in an error after the relay lost the relay's answer.
EndsAt(c) ==
    /\ c \in sent /\ At(c, "threw") => "smtpTransient" \in missed[c]
    /\ At(c, "crashed") => "crash" \in missed[c]

\* RunsTrue, for one copy: a result is final once the run is closed, and it is
\* "completed" only while no step of the pipeline has failed.
Unfailed(c) == "scan" \notin missed[c] /\ "move" \notin missed[c] /\ "detach" \notin missed[c]
RunAt(c) ==
    /\ run[c] = "running" =>
          \/ handler[c].at \in {"scanning", "filing", "detaching", "closing"}
          \/ "start" \in missed[c] \/ "closeRun" \in missed[c] \/ "crash" \in missed[c]
    /\ run[c] = "running" => handler[c].recorded \/ "start" \in missed[c]
    /\ handler[c].at \in Unjudged => Unfailed(c) /\ handler[c].result = "none"
    /\ handler[c].result = "completed" => Unfailed(c)
    /\ run[c] = "completed"
       => handler[c].result = "completed" /\ handler[c].at \notin {"filing", "detaching", "closing"}

\* Where the row is filed while receiveEmail runs, and what it thinks of it.
FiledAs(c, folder) ==
    row[c].folder = folder \/ c \in moved \/ "move" \in missed[c] \/ "divert" \in missed[c]
FiledAt(c) ==
    /\ handler[c].at \in Unjudged
       => (row[c].folder # "quarantine" \/ c \in moved) /\ handler[c].verdict = "none"
    /\ handler[c].at \in {"filing", "detaching"} => handler[c].verdict \in Isolating
    /\ Stored(c) /\ handler[c].at \in {"stored", "diverting", "starting", "scanning", "filing"}
       => FiledAs(c, Inbound(c))
    /\ Stored(c) /\ handler[c].at \in {"detaching", "closing", "relaying", "marking", "notifying"}
       => FiledAs(c, FinalFolder(c))

\* SilentMailboxes, for one copy: the one way out of a honeypot is a failed read.
Trapped == {"idle", "storing", "cleaning", "creating", "stored", "done", "threw", "crashed"}
SilentAt(c) ==
    /\ mailbox.honeypot =>
          \/ "trapRead" \in missed[c]
          \/ /\ handler[c].at \in Trapped /\ scan[c].at = "none"
             /\ row[c].verdict = "none" /\ announced[c] = "none"
             /\ c \notin sent /\ agent[c] = "none"
    /\ agent[c] # "none"
       => /\ At(c, "done") /\ ~handler[c].spam
          /\ "askRead" \in missed[c] \/ (~mailbox.sidecar /\ mailbox.autoDraft)

\* What is recorded of one copy.
RInvAt(c) == BlobsAt(c) /\ RelayAt(c) /\ EndsAt(c) /\ RunAt(c) /\ FiledAt(c) /\ SilentAt(c)

\* A later delivery of a message starts only after every earlier one ended in
\* an error.
InTurn == \A m \in Msg : \A i, j \in 1..MaxAttempts :
    i < j /\ handler[<<m, j>>].at # "idle" => handler[<<m, i>>].at \in {"threw", "crashed"}

RInv == IInv /\ InTurn /\ \A c \in Copy : RInvAt(c)
-----------------------------------------------------------------------------
(* What the operators of the actions do to the fields of the copy itself. *)

\* Goto changes the place and nothing else.
LEMMA GotoFields == \A c, p :
    handler \in [Copy -> Handlers] /\ c \in Copy /\ Goto(c, p)
    => /\ handler'[c].at = p
       /\ handler'[c].spam = handler[c].spam /\ handler'[c].recorded = handler[c].recorded
       /\ handler'[c].verdict = handler[c].verdict /\ handler'[c].result = handler[c].result
       /\ handler'[c].relay = handler[c].relay /\ handler'[c].written = handler[c].written
<1> SUFFICES ASSUME handler \in [Copy -> Handlers], NEW c \in Copy, NEW p, Goto(c, p)
             PROVE  /\ handler'[c].at = p
                    /\ handler'[c].spam = handler[c].spam /\ handler'[c].recorded = handler[c].recorded
                    /\ handler'[c].verdict = handler[c].verdict /\ handler'[c].result = handler[c].result
                    /\ handler'[c].relay = handler[c].relay /\ handler'[c].written = handler[c].written
    OBVIOUS
<1>1. handler'[c] = [handler[c] EXCEPT !.at = p]
    BY DEF Goto, Become
<1>2. handler[c] \in Handlers
    OBVIOUS
<1> QED BY <1>1, <1>2 DEF Handlers

\* A judged activation has its verdict and, so far, a completed pipeline.
LEMMA JudgedFields == \A c, v :
    handler \in [Copy -> Handlers] /\ c \in Copy /\ Judged(c, v)
    => /\ handler'[c].at = IF v.action \in Isolating THEN "filing" ELSE "closing"
       /\ handler'[c].verdict = v.action /\ handler'[c].result = "completed"
       /\ handler'[c].spam = handler[c].spam /\ handler'[c].recorded = handler[c].recorded
       /\ handler'[c].relay = handler[c].relay /\ handler'[c].written = handler[c].written
<1> SUFFICES ASSUME handler \in [Copy -> Handlers], NEW c \in Copy, NEW v, Judged(c, v)
             PROVE  /\ handler'[c].at = IF v.action \in Isolating THEN "filing" ELSE "closing"
                    /\ handler'[c].verdict = v.action /\ handler'[c].result = "completed"
                    /\ handler'[c].spam = handler[c].spam /\ handler'[c].recorded = handler[c].recorded
                    /\ handler'[c].relay = handler[c].relay /\ handler'[c].written = handler[c].written
    OBVIOUS
<1>1. handler'[c] = [handler[c] EXCEPT
                       !.at = IF v.action \in Isolating THEN "filing" ELSE "closing",
                       !.verdict = v.action, !.result = "completed"]
    BY DEF Judged, Become
<1>2. handler[c] \in Handlers
    OBVIOUS
<1> QED BY <1>1, <1>2 DEF Handlers

\* A settled relay is written next.
LEMMA RelayFields == \A c, status :
    handler \in [Copy -> Handlers] /\ c \in Copy /\ RelaySettled(c, status)
    => /\ handler'[c].at = "marking" /\ handler'[c].relay = status
       /\ handler'[c].spam = handler[c].spam /\ handler'[c].recorded = handler[c].recorded
       /\ handler'[c].verdict = handler[c].verdict /\ handler'[c].result = handler[c].result
       /\ handler'[c].written = handler[c].written
<1> SUFFICES ASSUME handler \in [Copy -> Handlers], NEW c \in Copy, NEW status, RelaySettled(c, status)
             PROVE  /\ handler'[c].at = "marking" /\ handler'[c].relay = status
                    /\ handler'[c].spam = handler[c].spam /\ handler'[c].recorded = handler[c].recorded
                    /\ handler'[c].verdict = handler[c].verdict /\ handler'[c].result = handler[c].result
                    /\ handler'[c].written = handler[c].written
    OBVIOUS
<1>1. handler'[c] = [handler[c] EXCEPT !.at = "marking", !.relay = status]
    BY DEF RelaySettled, Become
<1>2. handler[c] \in Handlers
    OBVIOUS
<1> QED BY <1>1, <1>2 DEF Handlers

\* A failed call is all that is added to the missed ones.
LEMMA MissFields == \A c, call :
    missed \in [Copy -> SUBSET Calls] /\ c \in Copy /\ Miss(c, call)
    => \A x : x \in missed'[c] <=> x \in missed[c] \/ x = call
BY DEF Miss, MissAll

\* A read answers with the mailbox, or has failed.
LEMMA ReadFields == \A c, call, s :
    missed \in [Copy -> SUBSET Calls] /\ c \in Copy /\ Read(c, call, s)
    => /\ \A x : x \in missed[c] => x \in missed'[c]
       /\ \A x : x \in missed'[c] => x \in missed[c] \/ x = call
       /\ s = mailbox \/ call \in missed'[c]
BY MissFields DEF Read

\* A row that gets a verdict, or whose update fails, stays where it is.
LEMMA JudgedRow == \A c, a, n :
    row \in [Copy -> Rows] /\ c \in Copy
    /\ (Update(c, [row[c] EXCEPT !.verdict = a, !.score = n]) \/ UNCHANGED row)
    => row'[c].folder = row[c].folder /\ row'[c].relay = row[c].relay
BY DEF Update, Rows
-----------------------------------------------------------------------------
(* The inductive invariant. *)

\* A step of c keeps what is recorded of c.
LEMMA StepRecords == ASSUME TypeOK, NEW c \in Copy, IInvAt(c), RInvAt(c), Step(c)
                     PROVE  RInvAt(c)'
<1>h. handler \in [Copy -> Handlers] /\ handler[c] \in Handlers
    BY DEF TypeOK
<1>r. row \in [Copy -> Rows] /\ row[c] \in Rows
    BY DEF TypeOK
<1>n. run \in [Copy -> Results \cup {"running"}] /\ run[c] \in Results \cup {"running"}
    BY DEF TypeOK
<1>s. scan \in [Copy -> Scans] /\ scan[c] \in Scans
    BY DEF TypeOK
<1>a. agent \in [Copy -> {"none", "asked", "drafted", "declined"}]
    BY DEF TypeOK
<1>o. announced \in [Copy -> Folders \cup {"none"}]
    BY DEF TypeOK
<1>m. missed \in [Copy -> SUBSET Calls]
    BY DEF TypeOK
<1>i. BlobsAt(c) /\ RelayAt(c) /\ EndsAt(c) /\ RunAt(c) /\ FiledAt(c) /\ SilentAt(c)
    BY DEF RInvAt
<1>j. /\ handler[c].at \in Unstored => row[c].folder = "absent"
      /\ handler[c].at \in Unjudged => row[c].verdict = "none"
      /\ scan[c].at # "none" => handler[c].at \in Fanned
    BY DEF IInvAt
<1>n1. \A joins :
      /\ NewRow(c, joins).folder = Inbound(c) /\ Inbound(c) \in Folders
      /\ NewRow(c, joins).verdict = "none" /\ NewRow(c, joins).relay = "none"
    BY DEF NewRow, NoRow, Inbound, Folders
<1> DEFINE Rest == RelayAt(c) /\ EndsAt(c) /\ RunAt(c) /\ FiledAt(c) /\ SilentAt(c)
<1>w. handler[c].written \in Nat /\ mail[c[1]].attached \in Nat
    BY ModelAssumption DEF TypeOK, Handlers, Mails, Copy
<1>b. ASSUME blobs' = blobs, mail' = mail, handler'[c].written = handler[c].written,
             \A x : x \in missed[c] => x \in missed'[c],
             row'[c].folder = row[c].folder \/ (Stored(c) /\ Stored(c)'),
             \/ handler'[c].at = handler[c].at
             \/ /\ handler[c].at \notin {"storing", "cleaning", "creating"}
                /\ handler'[c].at \notin {"idle", "storing", "creating"}
      PROVE  BlobsAt(c)'
    BY <1>b, <1>i DEF BlobsAt, HasBlob, At, Stored, Folders, Failed
<1> USE DEF world, async, outside, At, Stored, Unjudged, Unstored
<1>1. ASSUME Accept(c) PROVE RInvAt(c)'
    <2>1. BlobsAt(c)'
        BY <1>i, <1>j, <1>w, <1>1, <1>h, <1>m, ReadFields
           DEF Accept, Become, Handlers, BlobsAt, HasBlob, Failed, Folders
    <2>2. Rest'
        BY <1>i, <1>j, <1>1, <1>h, <1>m, ReadFields
           DEF Accept, Become, Handlers, RelayAt, Unsent, Relayed, EndsAt, RunAt,
              Unfailed, FiledAt, FiledAs, Inbound, FinalFolder, Isolating, Folders,
              SilentAt, Trapped
    <2> QED BY <2>1, <2>2 DEF RInvAt
<1>2. ASSUME StoreAttachment(c) PROVE RInvAt(c)'
    <2>3. /\ handler[c].at = "storing" /\ handler'[c].at = "storing" /\ row' = row /\ mail' = mail
          /\ handler'[c].written = handler[c].written + 1 /\ missed' = missed
          /\ ~Stored(c) /\ row[c].folder = "absent"
          /\ \A i : HasBlob(c, i)' <=> HasBlob(c, i) \/ i = handler[c].written + 1
        BY <1>2, <1>h, <1>j DEF StoreAttachment, Unwritten, NextObject, Become, Handlers,
           HasBlob, Folders
    <2>1. BlobsAt(c)'
        BY <2>3, <1>i, <1>w DEF BlobsAt, Folders, Failed
    <2>2. Rest'
        BY <1>i, <1>j, <1>2, <1>h
           DEF StoreAttachment, Unwritten, NextObject, Become, Handlers, RelayAt,
              Unsent, Relayed, EndsAt, RunAt, Unfailed, FiledAt, FiledAs, Inbound,
              FinalFolder, Isolating, Folders, SilentAt, Trapped
    <2> QED BY <2>1, <2>2 DEF RInvAt
<1>3. ASSUME AttachmentsStored(c) PROVE RInvAt(c)'
    <2>1. BlobsAt(c)'
        BY <1>i, <1>j, <1>w, <1>3, <1>h, GotoFields
           DEF AttachmentsStored, BlobsAt, HasBlob, Failed, Folders
    <2>2. Rest'
        BY <1>i, <1>j, <1>3, <1>h, GotoFields
           DEF AttachmentsStored, RelayAt, Unsent, Relayed, EndsAt, RunAt, Unfailed,
              FiledAt, FiledAs, Inbound, FinalFolder, Isolating, Folders, SilentAt,
              Trapped
    <2> QED BY <2>1, <2>2 DEF RInvAt
<1>4. ASSUME StoreAttachmentFails(c) PROVE RInvAt(c)'
    <2>1. BlobsAt(c)'
        BY <1>i, <1>j, <1>w, <1>4, <1>h, <1>m, GotoFields, MissFields
           DEF StoreAttachmentFails, Unwritten, NextObject, BlobsAt, HasBlob, Failed,
              Folders
    <2>2. Rest'
        BY <1>i, <1>j, <1>4, <1>h, <1>m, GotoFields, MissFields
           DEF StoreAttachmentFails, Unwritten, NextObject, RelayAt, Unsent, Relayed,
              EndsAt, RunAt, Unfailed, FiledAt, FiledAs, Inbound, FinalFolder,
              Isolating, Folders, SilentAt, Trapped
    <2> QED BY <2>1, <2>2 DEF RInvAt
<1>5. ASSUME CleanUp(c) PROVE RInvAt(c)'
    <2>3. /\ handler[c].at = "cleaning" /\ handler'[c].at = "threw" /\ row' = row /\ mail' = mail
          /\ handler'[c].written = handler[c].written
          /\ \A x : x \in missed[c] => x \in missed'[c]
        BY <1>5, <1>h, <1>m, GotoFields, MissFields DEF CleanUp
    <2>4. /\ \A i : HasBlob(c, i)' => HasBlob(c, i)
          /\ \A i \in 1..handler[c].written : HasBlob(c, i)' => "unlink" \in missed'[c]
        <3>1. PICK unlinked \in SUBSET Objects(c, handler[c].written) :
                /\ blobs' = blobs \ unlinked
                /\ unlinked = Objects(c, handler[c].written) \/ Miss(c, "unlink")
            BY <1>5 DEF CleanUp
        <3>2. unlinked = Objects(c, handler[c].written) \/ "unlink" \in missed'[c]
            BY <3>1, <1>m, MissFields
        <3> QED BY <3>1, <3>2 DEF HasBlob, Objects
    <2>5. ~Stored(c) /\ row[c].folder = "absent"
        BY <2>3, <1>j DEF Folders
    <2>1. BlobsAt(c)'
        BY <2>3, <2>4, <2>5, <1>i, <1>w DEF BlobsAt, Folders, Failed
    <2>2. Rest'
        BY <1>i, <1>j, <1>5, <1>h, <1>m, GotoFields, MissFields
           DEF CleanUp, Objects, RelayAt, Unsent, Relayed, EndsAt, RunAt, Unfailed,
              FiledAt, FiledAs, Inbound, FinalFolder, Isolating, Folders, SilentAt,
              Trapped
    <2> QED BY <2>1, <2>2 DEF RInvAt
<1>6. ASSUME FindThreadFails(c) PROVE RInvAt(c)'
    <2>1. BlobsAt(c)'
        BY <1>i, <1>j, <1>w, <1>6, <1>h, <1>m, GotoFields, MissFields
           DEF FindThreadFails, BlobsAt, HasBlob, Failed, Folders
    <2>2. Rest'
        BY <1>i, <1>j, <1>6, <1>h, <1>m, GotoFields, MissFields
           DEF FindThreadFails, RelayAt, Unsent, Relayed, EndsAt, RunAt, Unfailed,
              FiledAt, FiledAs, Inbound, FinalFolder, Isolating, Folders, SilentAt,
              Trapped
    <2> QED BY <2>1, <2>2 DEF RInvAt
<1>7. ASSUME CreateRow(c) PROVE RInvAt(c)'
    <2>1. BlobsAt(c)'
        BY <1>i, <1>j, <1>w, <1>7, <1>h, <1>r, <1>n1
           DEF CreateRow, Become, Handlers, Rows, BlobsAt, HasBlob, Failed, Folders
    <2>2. Rest'
        BY <1>i, <1>j, <1>7, <1>h, <1>r, <1>n1
           DEF CreateRow, Become, Handlers, Rows, RelayAt, Unsent, Relayed, EndsAt,
              RunAt, Unfailed, FiledAt, FiledAs, Inbound, FinalFolder, Isolating,
              Folders, SilentAt, Trapped
    <2> QED BY <2>1, <2>2 DEF RInvAt
<1>8. ASSUME CreateRowFails(c) PROVE RInvAt(c)'
    <2>1. BlobsAt(c)'
        BY <1>i, <1>j, <1>w, <1>8, <1>h, <1>r, <1>m, GotoFields, MissFields, <1>n1
           DEF CreateRowFails, Rows, BlobsAt, HasBlob, Failed, Folders
    <2>2. Rest'
        BY <1>i, <1>j, <1>8, <1>h, <1>r, <1>m, GotoFields, MissFields, <1>n1
           DEF CreateRowFails, Rows, RelayAt, Unsent, Relayed, EndsAt, RunAt,
              Unfailed, FiledAt, FiledAs, Inbound, FinalFolder, Isolating, Folders,
              SilentAt, Trapped
    <2> QED BY <2>1, <2>2 DEF RInvAt
<1>9. ASSUME CheckHoneypot(c) PROVE RInvAt(c)'
    <2>1. BlobsAt(c)'
        BY <1>b, <1>j, <1>9, <1>h, GotoFields, <1>m, ReadFields
           DEF CheckHoneypot, Folders
    <2>2. Rest'
        BY <1>i, <1>j, <1>9, <1>h, GotoFields, <1>m, ReadFields
           DEF CheckHoneypot, RelayAt, Unsent, Relayed, EndsAt, RunAt, Unfailed,
              FiledAt, FiledAs, Inbound, FinalFolder, Isolating, Folders, SilentAt,
              Trapped
    <2> QED BY <2>1, <2>2 DEF RInvAt
<1>10. ASSUME DivertReport(c) PROVE RInvAt(c)'
    <2>1. BlobsAt(c)'
        BY <1>b, <1>j, <1>10, <1>h, <1>r, GotoFields
           DEF DivertReport, Update, Rows, Folders
    <2>2. Rest'
        BY <1>i, <1>j, <1>10, <1>h, <1>r, GotoFields
           DEF DivertReport, Update, Rows, RelayAt, Unsent, Relayed, EndsAt, RunAt,
              Unfailed, FiledAt, FiledAs, Inbound, FinalFolder, Isolating, Folders,
              SilentAt, Trapped
    <2> QED BY <2>1, <2>2 DEF RInvAt
<1>11. ASSUME DivertFails(c) PROVE RInvAt(c)'
    <2>1. BlobsAt(c)'
        BY <1>b, <1>j, <1>11, <1>h, <1>r, <1>m, GotoFields, MissFields
           DEF DivertFails, Update, Rows, Folders
    <2>2. Rest'
        BY <1>i, <1>j, <1>11, <1>h, <1>r, <1>m, GotoFields, MissFields
           DEF DivertFails, Update, Rows, RelayAt, Unsent, Relayed, EndsAt, RunAt,
              Unfailed, FiledAt, FiledAs, Inbound, FinalFolder, Isolating, Folders,
              SilentAt, Trapped
    <2> QED BY <2>1, <2>2 DEF RInvAt
<1>12. ASSUME KeepAsMail(c) PROVE RInvAt(c)'
    <2>1. BlobsAt(c)'
        BY <1>b, <1>j, <1>12, <1>h, GotoFields
           DEF KeepAsMail, Folders
    <2>2. Rest'
        BY <1>i, <1>j, <1>12, <1>h, GotoFields
           DEF KeepAsMail, RelayAt, Unsent, Relayed, EndsAt, RunAt, Unfailed, FiledAt,
              FiledAs, Inbound, FinalFolder, Isolating, Folders, SilentAt, Trapped
    <2> QED BY <2>1, <2>2 DEF RInvAt
<1>13. ASSUME StartRun(c) PROVE RInvAt(c)'
    <2>1. BlobsAt(c)'
        BY <1>b, <1>j, <1>13, <1>h, <1>n
           DEF StartRun, Become, Handlers, Folders
    <2>2. Rest'
        BY <1>i, <1>j, <1>13, <1>h, <1>n
           DEF StartRun, Become, Handlers, RelayAt, Unsent, Relayed, EndsAt, RunAt,
              Unfailed, FiledAt, FiledAs, Inbound, FinalFolder, Isolating, Folders,
              SilentAt, Trapped
    <2> QED BY <2>1, <2>2 DEF RInvAt
<1>14. ASSUME StartRunFails(c) PROVE RInvAt(c)'
    <2>1. BlobsAt(c)'
        BY <1>b, <1>j, <1>14, <1>h, <1>m, <1>n, GotoFields, MissFields
           DEF StartRunFails, Folders
    <2>2. Rest'
        BY <1>i, <1>j, <1>14, <1>h, <1>m, <1>n, GotoFields, MissFields
           DEF StartRunFails, RelayAt, Unsent, Relayed, EndsAt, RunAt, Unfailed,
              FiledAt, FiledAs, Inbound, FinalFolder, Isolating, Folders, SilentAt,
              Trapped
    <2> QED BY <2>1, <2>2 DEF RInvAt
<1>15. ASSUME SkipScan(c) PROVE RInvAt(c)'
    <2>1. BlobsAt(c)'
        BY <1>b, <1>j, <1>15, <1>h, <1>m, ReadFields
           DEF SkipScan, Become, Handlers, Isolating, Folders
    <2>2. Rest'
        BY <1>i, <1>j, <1>15, <1>h, <1>m, ReadFields
           DEF SkipScan, Become, Handlers, Isolating, RelayAt, Unsent, Relayed,
              EndsAt, RunAt, Unfailed, FiledAt, FiledAs, Inbound, FinalFolder,
              Isolating, Folders, SilentAt, Trapped
    <2> QED BY <2>1, <2>2 DEF RInvAt
<1>16. ASSUME Scan(c) PROVE RInvAt(c)'
    <2>1. BlobsAt(c)'
        BY <1>b, <1>j, <1>16, <1>h, <1>r, JudgedFields, <1>m, ReadFields
           DEF Scan, Update, Rows, Folders
    <2>2. Rest'
        BY <1>i, <1>j, <1>16, <1>h, <1>r, JudgedFields, <1>m, ReadFields
           DEF Scan, Update, Rows, RelayAt, Unsent, Relayed, EndsAt, RunAt, Unfailed,
              FiledAt, FiledAs, Inbound, FinalFolder, Isolating, Folders, SilentAt,
              Trapped
    <2> QED BY <2>1, <2>2 DEF RInvAt
<1>17. ASSUME ScanUnstored(c) PROVE RInvAt(c)'
    <2>1. BlobsAt(c)'
        BY <1>b, <1>j, <1>17, <1>h, <1>m, JudgedFields
           DEF ScanUnstored, MissAll, Folders
    <2>2. Rest'
        BY <1>i, <1>j, <1>17, <1>h, <1>m, JudgedFields
           DEF ScanUnstored, MissAll, RelayAt, Unsent, Relayed, EndsAt, RunAt,
              Unfailed, FiledAt, FiledAs, Inbound, FinalFolder, Isolating, Folders,
              SilentAt, Trapped
    <2> QED BY <2>1, <2>2 DEF RInvAt
<1>18. ASSUME ScanThrows(c) PROVE RInvAt(c)'
    <2>1. BlobsAt(c)'
        BY <1>b, <1>j, <1>18, <1>h, <1>m, MissFields
           DEF ScanThrows, Become, Handlers, Isolating, Folders
    <2>2. Rest'
        BY <1>i, <1>j, <1>18, <1>h, <1>m, MissFields
           DEF ScanThrows, Become, Handlers, Isolating, RelayAt, Unsent, Relayed,
              EndsAt, RunAt, Unfailed, FiledAt, FiledAs, Inbound, FinalFolder,
              Isolating, Folders, SilentAt, Trapped
    <2> QED BY <2>1, <2>2 DEF RInvAt
<1>19. ASSUME Isolate(c) PROVE RInvAt(c)'
    <2>1. BlobsAt(c)'
        BY <1>b, <1>j, <1>19, <1>h, <1>r, GotoFields
           DEF Isolate, Update, Rows, Folders
    <2>2. Rest'
        BY <1>i, <1>j, <1>19, <1>h, <1>r, GotoFields
           DEF Isolate, Update, Rows, RelayAt, Unsent, Relayed, EndsAt, RunAt,
              Unfailed, FiledAt, FiledAs, Inbound, FinalFolder, Isolating, Folders,
              SilentAt, Trapped
    <2> QED BY <2>1, <2>2 DEF RInvAt
<1>20. ASSUME IsolateFails(c) PROVE RInvAt(c)'
    <2>1. BlobsAt(c)'
        BY <1>b, <1>j, <1>20, <1>h, <1>r, <1>m, MissFields
           DEF IsolateFails, Update, Become, Handlers, Rows, Folders
    <2>2. Rest'
        BY <1>i, <1>j, <1>20, <1>h, <1>r, <1>m, MissFields
           DEF IsolateFails, Update, Become, Handlers, Rows, RelayAt, Unsent, Relayed,
              EndsAt, RunAt, Unfailed, FiledAt, FiledAs, Inbound, FinalFolder,
              Isolating, Folders, SilentAt, Trapped
    <2> QED BY <2>1, <2>2 DEF RInvAt
<1>21. ASSUME Detach(c) PROVE RInvAt(c)'
    <2>1. BlobsAt(c)'
        BY <1>b, <1>j, <1>21, <1>h, <1>r, GotoFields
           DEF Detach, Update, Rows, Folders
    <2>2. Rest'
        BY <1>i, <1>j, <1>21, <1>h, <1>r, GotoFields
           DEF Detach, Update, Rows, RelayAt, Unsent, Relayed, EndsAt, RunAt,
              Unfailed, FiledAt, FiledAs, Inbound, FinalFolder, Isolating, Folders,
              SilentAt, Trapped
    <2> QED BY <2>1, <2>2 DEF RInvAt
<1>22. ASSUME DetachFails(c) PROVE RInvAt(c)'
    <2>1. BlobsAt(c)'
        BY <1>b, <1>j, <1>22, <1>h, <1>m, MissFields
           DEF DetachFails, Become, Handlers, Folders
    <2>2. Rest'
        BY <1>i, <1>j, <1>22, <1>h, <1>m, MissFields
           DEF DetachFails, Become, Handlers, RelayAt, Unsent, Relayed, EndsAt, RunAt,
              Unfailed, FiledAt, FiledAs, Inbound, FinalFolder, Isolating, Folders,
              SilentAt, Trapped
    <2> QED BY <2>1, <2>2 DEF RInvAt
<1>23. ASSUME CloseRun(c) PROVE RInvAt(c)'
    <2>1. BlobsAt(c)'
        BY <1>b, <1>j, <1>23, <1>h, <1>n, GotoFields
           DEF CloseRun, Handlers, Results, Folders
    <2>2. Rest'
        BY <1>i, <1>j, <1>23, <1>h, <1>n, GotoFields
           DEF CloseRun, Handlers, Results, RelayAt, Unsent, Relayed, EndsAt, RunAt,
              Unfailed, FiledAt, FiledAs, Inbound, FinalFolder, Isolating, Folders,
              SilentAt, Trapped
    <2> QED BY <2>1, <2>2 DEF RInvAt
<1>24. ASSUME CloseRunFails(c) PROVE RInvAt(c)'
    <2>1. BlobsAt(c)'
        BY <1>b, <1>j, <1>24, <1>h, <1>m, GotoFields, MissFields
           DEF CloseRunFails, Folders
    <2>2. Rest'
        BY <1>i, <1>j, <1>24, <1>h, <1>m, GotoFields, MissFields
           DEF CloseRunFails, RelayAt, Unsent, Relayed, EndsAt, RunAt, Unfailed,
              FiledAt, FiledAs, Inbound, FinalFolder, Isolating, Folders, SilentAt,
              Trapped
    <2> QED BY <2>1, <2>2 DEF RInvAt
<1>25. ASSUME Unrelayed(c) PROVE RInvAt(c)'
    <2>1. BlobsAt(c)'
        BY <1>b, <1>j, <1>25, <1>h, <1>m, GotoFields, MissFields
           DEF Unrelayed, Folders
    <2>2. Rest'
        BY <1>i, <1>j, <1>25, <1>h, <1>m, GotoFields, MissFields
           DEF Unrelayed, RelayAt, Unsent, Relayed, EndsAt, RunAt, Unfailed, FiledAt,
              FiledAs, Inbound, FinalFolder, Isolating, Folders, SilentAt, Trapped
    <2> QED BY <2>1, <2>2 DEF RInvAt
<1>26. ASSUME Withhold(c) PROVE RInvAt(c)'
    <2>1. BlobsAt(c)'
        BY <1>b, <1>j, <1>26, <1>h, RelayFields
           DEF Withhold, Folders
    <2>2. Rest'
        BY <1>i, <1>j, <1>26, <1>h, RelayFields
           DEF Withhold, RelayAt, Unsent, Relayed, EndsAt, RunAt, Unfailed, FiledAt,
              FiledAs, Inbound, FinalFolder, Isolating, Folders, SilentAt, Trapped
    <2> QED BY <2>1, <2>2 DEF RInvAt
<1>27. ASSUME Relay(c) PROVE RInvAt(c)'
    <2>1. BlobsAt(c)'
        BY <1>b, <1>j, <1>27, <1>h, RelayFields
           DEF Relay, Folders
    <2>2. Rest'
        BY <1>i, <1>j, <1>27, <1>h, RelayFields
           DEF Relay, RelayAt, Unsent, Relayed, EndsAt, RunAt, Unfailed, FiledAt,
              FiledAs, Inbound, FinalFolder, Isolating, Folders, SilentAt, Trapped
    <2> QED BY <2>1, <2>2 DEF RInvAt
<1>28. ASSUME RelayRefused(c) PROVE RInvAt(c)'
    <2>1. BlobsAt(c)'
        BY <1>b, <1>j, <1>28, <1>h, <1>m, RelayFields, MissFields
           DEF RelayRefused, Folders
    <2>2. Rest'
        BY <1>i, <1>j, <1>28, <1>h, <1>m, RelayFields, MissFields
           DEF RelayRefused, RelayAt, Unsent, Relayed, EndsAt, RunAt, Unfailed,
              FiledAt, FiledAs, Inbound, FinalFolder, Isolating, Folders, SilentAt,
              Trapped
    <2> QED BY <2>1, <2>2 DEF RInvAt
<1>29. ASSUME RelayDeferred(c) PROVE RInvAt(c)'
    <2>1. BlobsAt(c)'
        BY <1>b, <1>j, <1>29, <1>h, <1>m, GotoFields, MissFields
           DEF RelayDeferred, Folders
    <2>2. Rest'
        BY <1>i, <1>j, <1>29, <1>h, <1>m, GotoFields, MissFields
           DEF RelayDeferred, RelayAt, Unsent, Relayed, EndsAt, RunAt, Unfailed,
              FiledAt, FiledAs, Inbound, FinalFolder, Isolating, Folders, SilentAt,
              Trapped
    <2> QED BY <2>1, <2>2 DEF RInvAt
<1>30. ASSUME MarkRelay(c) PROVE RInvAt(c)'
    <2>1. BlobsAt(c)'
        BY <1>b, <1>j, <1>30, <1>h, <1>r, GotoFields
           DEF MarkRelay, Update, Rows, Folders
    <2>2. Rest'
        BY <1>i, <1>j, <1>30, <1>h, <1>r, GotoFields
           DEF MarkRelay, Update, Rows, RelayAt, Unsent, Relayed, EndsAt, RunAt,
              Unfailed, FiledAt, FiledAs, Inbound, FinalFolder, Isolating, Folders,
              SilentAt, Trapped
    <2> QED BY <2>1, <2>2 DEF RInvAt
<1>31. ASSUME MarkRelayFails(c) PROVE RInvAt(c)'
    <2>1. BlobsAt(c)'
        BY <1>b, <1>j, <1>31, <1>h, <1>m, GotoFields, MissFields
           DEF MarkRelayFails, Folders
    <2>2. Rest'
        BY <1>i, <1>j, <1>31, <1>h, <1>m, GotoFields, MissFields
           DEF MarkRelayFails, RelayAt, Unsent, Relayed, EndsAt, RunAt, Unfailed,
              FiledAt, FiledAs, Inbound, FinalFolder, Isolating, Folders, SilentAt,
              Trapped
    <2> QED BY <2>1, <2>2 DEF RInvAt
<1>32. ASSUME Notify(c) PROVE RInvAt(c)'
    <2>1. BlobsAt(c)'
        BY <1>b, <1>j, <1>32, <1>h, <1>o, GotoFields
           DEF Notify, Folders
    <2>2. Rest'
        BY <1>i, <1>j, <1>32, <1>h, <1>o, GotoFields
           DEF Notify, RelayAt, Unsent, Relayed, EndsAt, RunAt, Unfailed, FiledAt,
              FiledAs, Inbound, FinalFolder, Isolating, Folders, SilentAt, Trapped
    <2> QED BY <2>1, <2>2 DEF RInvAt
<1>33. ASSUME NotifyFails(c) PROVE RInvAt(c)'
    <2>1. BlobsAt(c)'
        BY <1>b, <1>j, <1>33, <1>h, <1>m, GotoFields, MissFields
           DEF NotifyFails, Folders
    <2>2. Rest'
        BY <1>i, <1>j, <1>33, <1>h, <1>m, GotoFields, MissFields
           DEF NotifyFails, RelayAt, Unsent, Relayed, EndsAt, RunAt, Unfailed,
              FiledAt, FiledAs, Inbound, FinalFolder, Isolating, Folders, SilentAt,
              Trapped
    <2> QED BY <2>1, <2>2 DEF RInvAt
<1>34. ASSUME Enqueue(c) PROVE RInvAt(c)'
    <2>1. BlobsAt(c)'
        BY <1>b, <1>j, <1>34, <1>h, <1>s, GotoFields, ScanGotoAt, <1>m, ReadFields
           DEF Enqueue, Folders
    <2>2. Rest'
        BY <1>i, <1>j, <1>34, <1>h, <1>s, GotoFields, ScanGotoAt, <1>m, ReadFields
           DEF Enqueue, RelayAt, Unsent, Relayed, EndsAt, RunAt, Unfailed, FiledAt,
              FiledAs, Inbound, FinalFolder, Isolating, Folders, SilentAt, Trapped
    <2> QED BY <2>1, <2>2 DEF RInvAt
<1>35. ASSUME AskAgent(c) PROVE RInvAt(c)'
    <2>1. BlobsAt(c)'
        BY <1>b, <1>j, <1>35, <1>h, <1>a, GotoFields, <1>m, ReadFields
           DEF AskAgent, Folders
    <2>2. Rest'
        BY <1>i, <1>j, <1>35, <1>h, <1>a, GotoFields, <1>m, ReadFields
           DEF AskAgent, RelayAt, Unsent, Relayed, EndsAt, RunAt, Unfailed, FiledAt,
              FiledAs, Inbound, FinalFolder, Isolating, Folders, SilentAt, Trapped
    <2> QED BY <2>1, <2>2 DEF RInvAt
<1>36. ASSUME Crash(c) PROVE RInvAt(c)'
    <2>s. scan[c].at = "none" => scan'[c].at = "none"
        BY <1>36, <1>s DEF Crash, ScanGoto, Scans
    <2>3. /\ handler'[c].at = "crashed" /\ row' = row /\ mail' = mail /\ blobs' = blobs
          /\ handler'[c].written = handler[c].written /\ "crash" \in missed'[c]
          /\ \A x : x \in missed[c] => x \in missed'[c]
        BY <1>36, <1>h, <1>m, GotoFields, MissFields DEF Crash
    <2>1. BlobsAt(c)'
        BY <2>3, <1>i, <1>w DEF BlobsAt, HasBlob, Failed
    <2>2. Rest'
        BY <1>i, <1>j, <1>36, <1>s, <1>h, <1>m, GotoFields, MissFields, ScanGotoAt,
           <2>s
           DEF Crash, ScanGoto, Scans, Ended, RelayAt, Unsent, Relayed, EndsAt, RunAt,
              Unfailed, FiledAt, FiledAs, Inbound, FinalFolder, Isolating, Folders,
              SilentAt, Trapped
    <2> QED BY <2>1, <2>2 DEF RInvAt
<1>37. ASSUME ScanRead(c) PROVE RInvAt(c)'
    <2>1. BlobsAt(c)'
        BY <1>b, <1>j, <1>37, <1>s
           DEF ScanRead, Begins, Folders
    <2>2. Rest'
        BY <1>i, <1>j, <1>37, <1>s
           DEF ScanRead, Begins, RelayAt, Unsent, Relayed, EndsAt, RunAt, Unfailed,
              FiledAt, FiledAs, Inbound, FinalFolder, Isolating, Folders, SilentAt,
              Trapped
    <2> QED BY <2>1, <2>2 DEF RInvAt
<1>38. ASSUME ScanReadsNothing(c) PROVE RInvAt(c)'
    <2>1. BlobsAt(c)'
        BY <1>b, <1>j, <1>38, <1>m, <1>s, MissFields
           DEF ScanReadsNothing, Begins, Folders
    <2>2. Rest'
        BY <1>i, <1>j, <1>38, <1>m, <1>s, MissFields
           DEF ScanReadsNothing, Begins, RelayAt, Unsent, Relayed, EndsAt, RunAt,
              Unfailed, FiledAt, FiledAs, Inbound, FinalFolder, Isolating, Folders,
              SilentAt, Trapped
    <2> QED BY <2>1, <2>2 DEF RInvAt
<1>39. ASSUME ScanKeeps(c) PROVE RInvAt(c)'
    <2>1. BlobsAt(c)'
        BY <1>b, <1>j, <1>39, <1>s, ScanGotoAt
           DEF ScanKeeps, Folders
    <2>2. Rest'
        BY <1>i, <1>j, <1>39, <1>s, ScanGotoAt
           DEF ScanKeeps, RelayAt, Unsent, Relayed, EndsAt, RunAt, Unfailed, FiledAt,
              FiledAs, Inbound, FinalFolder, Isolating, Folders, SilentAt, Trapped
    <2> QED BY <2>1, <2>2 DEF RInvAt
<1>40. ASSUME ScanTightens(c) PROVE RInvAt(c)'
    <2>u. PICK a \in Added :
            LET new == Judge(DeepScore(scan[c].score, a))
            IN  \/ /\ Update(c, [row[c] EXCEPT !.verdict = new.action, !.score = new.score])
                   /\ UNCHANGED missed
                \/ Miss(c, "deepPersist") /\ UNCHANGED row
        BY <1>40 DEF ScanTightens
    <2>r. row'[c].folder = row[c].folder /\ row'[c].relay = row[c].relay
        BY <2>u, <1>r, JudgedRow
    <2>m. \A x : x \in missed'[c] <=> x \in missed[c] \/ (x = "deepPersist" /\ x \in missed'[c])
        BY <2>u, <1>m, MissFields
    <2>h. /\ scan[c].at = "probing" /\ handler[c].at \in Fanned
          /\ UNCHANGED <<mail, mailbox, handler, run, blobs, yara, agent, sent, announced, moved>>
        BY <1>40, <1>j DEF ScanTightens
    <2>1. BlobsAt(c)'
        BY <1>b, <1>j, <1>40, <2>r, <2>m, <2>h, <1>m
           DEF ScanTightens, Fanned, Folders
    <2>2. Rest'
        BY <1>i, <1>j, <1>40, <2>r, <2>m, <2>h, <1>m
           DEF ScanTightens, Fanned, RelayAt, Unsent, Relayed, EndsAt, RunAt,
              Unfailed, FiledAt, FiledAs, Inbound, FinalFolder, Isolating, Folders,
              SilentAt, Trapped
    <2> QED BY <2>1, <2>2 DEF RInvAt
<1>41. ASSUME ScanMoves(c) PROVE RInvAt(c)'
    <2>1. BlobsAt(c)'
        BY <1>b, <1>j, <1>41, <1>r, <1>m, <1>s, MissFields, ScanGotoAt, <1>j
           DEF ScanMoves, Update, Rows, Fanned, Folders
    <2>2. Rest'
        BY <1>i, <1>j, <1>41, <1>r, <1>m, <1>s, MissFields, ScanGotoAt, <1>j
           DEF ScanMoves, Update, Rows, Fanned, RelayAt, Unsent, Relayed, EndsAt,
              RunAt, Unfailed, FiledAt, FiledAs, Inbound, FinalFolder, Isolating,
              Folders, SilentAt, Trapped
    <2> QED BY <2>1, <2>2 DEF RInvAt
<1>42. ASSUME ScanCloses(c) PROVE RInvAt(c)'
    <2>1. BlobsAt(c)'
        BY <1>b, <1>j, <1>42, <1>r, <1>m, <1>s, MissFields, ScanGotoAt
           DEF ScanCloses, Update, Rows, Folders
    <2>2. Rest'
        BY <1>i, <1>j, <1>42, <1>r, <1>m, <1>s, MissFields, ScanGotoAt
           DEF ScanCloses, Update, Rows, RelayAt, Unsent, Relayed, EndsAt, RunAt,
              Unfailed, FiledAt, FiledAs, Inbound, FinalFolder, Isolating, Folders,
              SilentAt, Trapped
    <2> QED BY <2>1, <2>2 DEF RInvAt
<1>43. ASSUME ScanCrashes(c) PROVE RInvAt(c)'
    <2>1. BlobsAt(c)'
        BY <1>b, <1>j, <1>43, <1>m, <1>s, MissFields, ScanGotoAt
           DEF ScanCrashes, Folders
    <2>2. Rest'
        BY <1>i, <1>j, <1>43, <1>m, <1>s, MissFields, ScanGotoAt
           DEF ScanCrashes, RelayAt, Unsent, Relayed, EndsAt, RunAt, Unfailed,
              FiledAt, FiledAs, Inbound, FinalFolder, Isolating, Folders, SilentAt,
              Trapped
    <2> QED BY <2>1, <2>2 DEF RInvAt
<1>44. ASSUME AgentDrafts(c) PROVE RInvAt(c)'
    <2>1. BlobsAt(c)'
        BY <1>b, <1>j, <1>44, <1>a
           DEF AgentDrafts, Folders
    <2>2. Rest'
        BY <1>i, <1>j, <1>44, <1>a
           DEF AgentDrafts, RelayAt, Unsent, Relayed, EndsAt, RunAt, Unfailed,
              FiledAt, FiledAs, Inbound, FinalFolder, Isolating, Folders, SilentAt,
              Trapped
    <2> QED BY <2>1, <2>2 DEF RInvAt
<1>45. ASSUME AgentDeclines(c) PROVE RInvAt(c)'
    <2>1. BlobsAt(c)'
        BY <1>b, <1>j, <1>45, <1>a
           DEF AgentDeclines, Folders
    <2>2. Rest'
        BY <1>i, <1>j, <1>45, <1>a
           DEF AgentDeclines, RelayAt, Unsent, Relayed, EndsAt, RunAt, Unfailed,
              FiledAt, FiledAs, Inbound, FinalFolder, Isolating, Folders, SilentAt,
              Trapped
    <2> QED BY <2>1, <2>2 DEF RInvAt
<1>46. ASSUME YaraCallback(c) PROVE RInvAt(c)'
    <2>1. BlobsAt(c)'
        BY <1>b, <1>j, <1>46, <1>r
           DEF YaraCallback, Update, Rows, Folders
    <2>2. Rest'
        BY <1>i, <1>j, <1>46, <1>r
           DEF YaraCallback, Update, Rows, RelayAt, Unsent, Relayed, EndsAt, RunAt,
              Unfailed, FiledAt, FiledAs, Inbound, FinalFolder, Isolating, Folders,
              SilentAt, Trapped
    <2> QED BY <2>1, <2>2 DEF RInvAt
<1>47. ASSUME UserMove(c) PROVE RInvAt(c)'
    <2>1. BlobsAt(c)'
        BY <1>b, <1>j, <1>47, <1>r, ModelAssumption
           DEF UserMove, Rows, Folders
    <2>2. Rest'
        BY <1>i, <1>j, <1>47, <1>r, ModelAssumption
           DEF UserMove, Rows, RelayAt, Unsent, Relayed, EndsAt, RunAt, Unfailed,
              FiledAt, FiledAs, Inbound, FinalFolder, Isolating, Folders, SilentAt,
              Trapped
    <2> QED BY <2>1, <2>2 DEF RInvAt
<1>48. ASSUME UserDelete(c) PROVE RInvAt(c)'
    <2>1. BlobsAt(c)'
        BY <1>i, <1>j, <1>w, <1>48, <1>r, <1>n
           DEF UserDelete, Rows, BlobsAt, HasBlob, Failed, Folders
    <2>2. Rest'
        BY <1>i, <1>j, <1>48, <1>r, <1>n
           DEF UserDelete, Rows, RelayAt, Unsent, Relayed, EndsAt, RunAt, Unfailed,
              FiledAt, FiledAs, Inbound, FinalFolder, Isolating, Folders, SilentAt,
              Trapped
    <2> QED BY <2>1, <2>2 DEF RInvAt
<1>49. ASSUME Purge(c) PROVE RInvAt(c)'
    <2>3. /\ row'[c].folder = "gone" /\ handler' = handler /\ mail' = mail
          /\ handler[c].at \notin Unstored /\ ~Stored(c)'
          /\ \A x : x \in missed[c] => x \in missed'[c]
        BY <1>49, <1>r, <1>j, <1>m, MissFields DEF Purge, Rows, Folders
    <2>4. /\ \A i : HasBlob(c, i)' => HasBlob(c, i)
          /\ \A i \in 1..mail[c[1]].attached : HasBlob(c, i)' => "purge" \in missed'[c]
        <3>1. PICK unlinked \in SUBSET AllObjects(c) :
                blobs' = blobs \ unlinked /\ (unlinked = AllObjects(c) \/ Miss(c, "purge"))
            BY <1>49 DEF Purge
        <3>2. unlinked = AllObjects(c) \/ "purge" \in missed'[c]
            BY <3>1, <1>m, MissFields
        <3> QED BY <3>1, <3>2 DEF HasBlob, AllObjects, Objects
    <2>1. BlobsAt(c)'
        BY <2>3, <2>4, <1>i, <1>w DEF BlobsAt, Failed
    <2>2. Rest'
        BY <1>i, <1>j, <1>49, <1>r, <1>m, MissFields
           DEF Purge, Rows, AllObjects, Objects, RelayAt, Unsent, Relayed, EndsAt,
              RunAt, Unfailed, FiledAt, FiledAs, Inbound, FinalFolder, Isolating,
              Folders, SilentAt, Trapped
    <2> QED BY <2>1, <2>2 DEF RInvAt
<1> QED BY <1>1, <1>2, <1>3, <1>4, <1>5, <1>6, <1>7, <1>8, <1>9, <1>10, <1>11, <1>12,
   <1>13, <1>14, <1>15, <1>16, <1>17, <1>18, <1>19, <1>20, <1>21, <1>22, <1>23, <1>24,
   <1>25, <1>26, <1>27, <1>28, <1>29, <1>30, <1>31, <1>32, <1>33, <1>34, <1>35, <1>36,
   <1>37, <1>38, <1>39, <1>40, <1>41, <1>42, <1>43, <1>44, <1>45, <1>46, <1>47, <1>48,
   <1>49
   DEF Step, Handler, DeepScan, Agent
-----------------------------------------------------------------------------
(* What else a step of one copy does. *)

\* What a step of copy c leaves alone of the others.
Others(c) ==
    /\ mail' = mail /\ mailbox' = mailbox
    /\ \A d \in Copy \ {c} :
         /\ run'[d] = run[d]
         /\ agent'[d] = agent[d]
         /\ announced'[d] = announced[d]
         /\ \A i : <<d, i>> \in blobs' <=> <<d, i>> \in blobs
         /\ d \in sent' <=> d \in sent

\* A step of one copy leaves the records of the others alone.
LEMMA StepOthers == ASSUME TypeOK, NEW c \in Copy, Step(c) PROVE Others(c)
<1>t. /\ run \in [Copy -> Results \cup {"running"}]
      /\ agent \in [Copy -> {"none", "asked", "drafted", "declined"}]
      /\ announced \in [Copy -> Folders \cup {"none"}]
    BY DEF TypeOK
<1> USE DEF Others, world, async, outside
<1>1. ASSUME Accept(c) PROVE Others(c)
    BY <1>t, <1>1 DEF Accept
<1>2. ASSUME StoreAttachment(c) PROVE Others(c)
    BY <1>t, <1>2 DEF StoreAttachment, NextObject
<1>47. ASSUME AttachmentsStored(c) PROVE Others(c)
    BY <1>t, <1>47 DEF AttachmentsStored
<1>3. ASSUME StoreAttachmentFails(c) PROVE Others(c)
    BY <1>t, <1>3 DEF StoreAttachmentFails, NextObject
<1>4. ASSUME CleanUp(c) PROVE Others(c)
    BY <1>t, <1>4 DEF CleanUp, Objects
<1>48. ASSUME FindThreadFails(c) PROVE Others(c)
    BY <1>t, <1>48 DEF FindThreadFails
<1>49. ASSUME Purge(c) PROVE Others(c)
    BY <1>t, <1>49 DEF Purge, AllObjects, Objects
<1>5. ASSUME CreateRow(c) PROVE Others(c)
    BY <1>t, <1>5 DEF CreateRow
<1>6. ASSUME CreateRowFails(c) PROVE Others(c)
    BY <1>t, <1>6 DEF CreateRowFails
<1>7. ASSUME CheckHoneypot(c) PROVE Others(c)
    BY <1>t, <1>7 DEF CheckHoneypot
<1>8. ASSUME DivertReport(c) PROVE Others(c)
    BY <1>t, <1>8 DEF DivertReport
<1>9. ASSUME DivertFails(c) PROVE Others(c)
    BY <1>t, <1>9 DEF DivertFails
<1>10. ASSUME KeepAsMail(c) PROVE Others(c)
    BY <1>t, <1>10 DEF KeepAsMail
<1>11. ASSUME StartRun(c) PROVE Others(c)
    BY <1>t, <1>11 DEF StartRun
<1>12. ASSUME StartRunFails(c) PROVE Others(c)
    BY <1>t, <1>12 DEF StartRunFails
<1>13. ASSUME SkipScan(c) PROVE Others(c)
    BY <1>t, <1>13 DEF SkipScan
<1>14. ASSUME Scan(c) PROVE Others(c)
    BY <1>t, <1>14 DEF Scan
<1>15. ASSUME ScanUnstored(c) PROVE Others(c)
    BY <1>t, <1>15 DEF ScanUnstored
<1>16. ASSUME ScanThrows(c) PROVE Others(c)
    BY <1>t, <1>16 DEF ScanThrows
<1>17. ASSUME Isolate(c) PROVE Others(c)
    BY <1>t, <1>17 DEF Isolate
<1>18. ASSUME IsolateFails(c) PROVE Others(c)
    BY <1>t, <1>18 DEF IsolateFails
<1>19. ASSUME Detach(c) PROVE Others(c)
    BY <1>t, <1>19 DEF Detach
<1>20. ASSUME DetachFails(c) PROVE Others(c)
    BY <1>t, <1>20 DEF DetachFails
<1>21. ASSUME CloseRun(c) PROVE Others(c)
    BY <1>t, <1>21 DEF CloseRun
<1>22. ASSUME CloseRunFails(c) PROVE Others(c)
    BY <1>t, <1>22 DEF CloseRunFails
<1>23. ASSUME Unrelayed(c) PROVE Others(c)
    BY <1>t, <1>23 DEF Unrelayed
<1>24. ASSUME Withhold(c) PROVE Others(c)
    BY <1>t, <1>24 DEF Withhold
<1>25. ASSUME Relay(c) PROVE Others(c)
    BY <1>t, <1>25 DEF Relay
<1>26. ASSUME RelayRefused(c) PROVE Others(c)
    BY <1>t, <1>26 DEF RelayRefused
<1>27. ASSUME RelayDeferred(c) PROVE Others(c)
    BY <1>t, <1>27 DEF RelayDeferred
<1>28. ASSUME MarkRelay(c) PROVE Others(c)
    BY <1>t, <1>28 DEF MarkRelay
<1>29. ASSUME MarkRelayFails(c) PROVE Others(c)
    BY <1>t, <1>29 DEF MarkRelayFails
<1>30. ASSUME Notify(c) PROVE Others(c)
    BY <1>t, <1>30 DEF Notify
<1>31. ASSUME NotifyFails(c) PROVE Others(c)
    BY <1>t, <1>31 DEF NotifyFails
<1>32. ASSUME Enqueue(c) PROVE Others(c)
    BY <1>t, <1>32 DEF Enqueue
<1>33. ASSUME AskAgent(c) PROVE Others(c)
    BY <1>t, <1>33 DEF AskAgent
<1>34. ASSUME Crash(c) PROVE Others(c)
    BY <1>t, <1>34 DEF Crash
<1>35. ASSUME ScanRead(c) PROVE Others(c)
    BY <1>t, <1>35 DEF ScanRead
<1>36. ASSUME ScanReadsNothing(c) PROVE Others(c)
    BY <1>t, <1>36 DEF ScanReadsNothing
<1>37. ASSUME ScanKeeps(c) PROVE Others(c)
    BY <1>t, <1>37 DEF ScanKeeps
<1>38. ASSUME ScanTightens(c) PROVE Others(c)
    BY <1>t, <1>38 DEF ScanTightens
<1>39. ASSUME ScanMoves(c) PROVE Others(c)
    BY <1>t, <1>39 DEF ScanMoves
<1>40. ASSUME ScanCloses(c) PROVE Others(c)
    BY <1>t, <1>40 DEF ScanCloses
<1>41. ASSUME ScanCrashes(c) PROVE Others(c)
    BY <1>t, <1>41 DEF ScanCrashes
<1>42. ASSUME AgentDrafts(c) PROVE Others(c)
    BY <1>t, <1>42 DEF AgentDrafts
<1>43. ASSUME AgentDeclines(c) PROVE Others(c)
    BY <1>t, <1>43 DEF AgentDeclines
<1>44. ASSUME YaraCallback(c) PROVE Others(c)
    BY <1>t, <1>44 DEF YaraCallback
<1>45. ASSUME UserMove(c) PROVE Others(c)
    BY <1>t, <1>45 DEF UserMove
<1>46. ASSUME UserDelete(c) PROVE Others(c)
    BY <1>t, <1>46 DEF UserDelete
<1> QED BY <1>1, <1>2, <1>3, <1>4, <1>5, <1>6, <1>7, <1>8, <1>9, <1>10, <1>11, <1>12,
   <1>13, <1>14, <1>15, <1>16, <1>17, <1>18, <1>19, <1>20, <1>21, <1>22, <1>23, <1>24,
   <1>25, <1>26, <1>27, <1>28, <1>29, <1>30, <1>31, <1>32, <1>33, <1>34, <1>35, <1>36,
   <1>37, <1>38, <1>39, <1>40, <1>41, <1>42, <1>43, <1>44, <1>45, <1>46, <1>47, <1>48,
   <1>49
   DEF Step, Handler, DeepScan, Agent

\* An activation that has not begun, or that ended in an error, takes no step
\* but the one that accepts a delivery that is due.
Turn(c) ==
    /\ At(c, "idle") /\ handler'[c].at # "idle" => Due(c)
    /\ handler[c].at \in {"threw", "crashed"} => handler'[c].at = handler[c].at

\* No step of an activation that ended moves it, and none but Accept begins it.
LEMMA StepTurn == ASSUME NEW c \in Copy, Step(c) PROVE Turn(c)
<1>1. ASSUME Handler(c) \/ Crash(c) PROVE handler[c].at \notin {"idle", "threw", "crashed"}
    BY <1>1 DEF Handler, At, Ended, StoreAttachment, Unwritten, AttachmentsStored,
       StoreAttachmentFails, CleanUp, FindThreadFails,
       CreateRow, CreateRowFails, CheckHoneypot, DivertReport, DivertFails,
       KeepAsMail, StartRun, StartRunFails, SkipScan, Scan, ScanUnstored, ScanThrows,
       Isolate, IsolateFails, Detach, DetachFails, CloseRun, CloseRunFails, Unrelayed,
       Withhold, Relay, RelayRefused, RelayDeferred, MarkRelay, MarkRelayFails,
       Notify, NotifyFails, Enqueue, AskAgent, Crash
<1>2. ASSUME DeepScan(c) \/ ScanCrashes(c) \/ Agent(c) \/ YaraCallback(c) \/ UserMove(c)
             \/ UserDelete(c) \/ Purge(c)
      PROVE handler' = handler
    BY <1>2 DEF DeepScan, Agent, ScanRead, ScanReadsNothing, ScanKeeps, ScanTightens,
       ScanMoves, ScanCloses, ScanCrashes, AgentDrafts, AgentDeclines, YaraCallback,
       UserMove, UserDelete, Purge
<1>3. ASSUME Accept(c) PROVE At(c, "idle") /\ Due(c)
    BY <1>3 DEF Accept
<1> QED BY <1>1, <1>2, <1>3 DEF Turn, At, Step

\* Only the user takes a row out of Quarantine; but a report that the user
\* quarantined while it was ingested goes to Archive.
Releases(c) == row[c].folder = "quarantine" /\ row'[c].folder # "quarantine"
    => UNCHANGED <<handler, async>> \/ (At(c, "diverting") /\ mail[c[1]].report /\ c \in moved)

\* No other step of receiveEmail or of the deep scan does.
LEMMA StepReleases == ASSUME TypeOK, NEW c \in Copy, IInvAt(c), RInvAt(c), Step(c)
                      PROVE  Releases(c)
<1>r. row \in [Copy -> Rows] /\ row[c] \in Rows
    BY DEF TypeOK
<1>f. /\ handler[c].at \in Unstored => row[c].folder = "absent"
      /\ handler[c].at \in Unjudged => row[c].folder # "quarantine" \/ c \in moved
    BY DEF IInvAt, RInvAt, FiledAt
<1>0. ASSUME Accept(c) \/ StoreAttachment(c) \/ AttachmentsStored(c) \/
   StoreAttachmentFails(c) \/ CleanUp(c) \/ FindThreadFails(c) \/ CheckHoneypot(c) \/ KeepAsMail(c) \/ StartRun(c) \/ StartRunFails(c)
   \/ SkipScan(c) \/ ScanUnstored(c) \/ ScanThrows(c) \/ DetachFails(c) \/ CloseRun(c)
   \/ CloseRunFails(c) \/ Unrelayed(c) \/ Withhold(c) \/ Relay(c) \/ RelayRefused(c)
   \/ RelayDeferred(c) \/ MarkRelayFails(c) \/ Notify(c) \/ NotifyFails(c) \/
   Enqueue(c) \/ AskAgent(c) \/ Crash(c) \/ ScanRead(c) \/ ScanReadsNothing(c) \/
   ScanKeeps(c) \/ ScanCrashes(c) \/ AgentDrafts(c) \/ AgentDeclines(c) PROVE row' =
   row
    BY <1>0 DEF Accept, StoreAttachment, AttachmentsStored,
       StoreAttachmentFails, CleanUp, FindThreadFails,
       CheckHoneypot, KeepAsMail, StartRun, StartRunFails, SkipScan, ScanUnstored,
       ScanThrows, DetachFails, CloseRun, CloseRunFails, Unrelayed, Withhold, Relay,
       RelayRefused, RelayDeferred, MarkRelayFails, Notify, NotifyFails, Enqueue,
       AskAgent, Crash, ScanRead, ScanReadsNothing, ScanKeeps, ScanCrashes,
       AgentDrafts, AgentDeclines
<1>1. ASSUME CreateRow(c) PROVE Releases(c)
    BY <1>r, <1>f, <1>1 DEF CreateRow, Releases, Update, At, Unjudged, Unstored, Rows
<1>2. ASSUME CreateRowFails(c) PROVE Releases(c)
    BY <1>r, <1>f, <1>2 DEF CreateRowFails, Releases, Update, At, Unjudged, Unstored, Rows
<1>3. ASSUME DivertReport(c) PROVE Releases(c)
    BY <1>r, <1>f, <1>3 DEF DivertReport, Releases, Update, At, Unjudged, Unstored, Rows
<1>4. ASSUME DivertFails(c) PROVE Releases(c)
    BY <1>r, <1>f, <1>4 DEF DivertFails, Releases, Update, At, Unjudged, Unstored, Rows
<1>5. ASSUME Scan(c) PROVE Releases(c)
    BY <1>r, <1>f, <1>5 DEF Scan, Releases, Update, At, Unjudged, Unstored, Rows
<1>6. ASSUME Isolate(c) PROVE Releases(c)
    BY <1>r, <1>f, <1>6 DEF Isolate, Releases, Update, At, Unjudged, Unstored, Rows
<1>7. ASSUME IsolateFails(c) PROVE Releases(c)
    BY <1>r, <1>f, <1>7 DEF IsolateFails, Releases, Update, At, Unjudged, Unstored, Rows
<1>8. ASSUME Detach(c) PROVE Releases(c)
    BY <1>r, <1>f, <1>8 DEF Detach, Releases, Update, At, Unjudged, Unstored, Rows
<1>9. ASSUME MarkRelay(c) PROVE Releases(c)
    BY <1>r, <1>f, <1>9 DEF MarkRelay, Releases, Update, At, Unjudged, Unstored, Rows
<1>10. ASSUME ScanTightens(c) PROVE Releases(c)
    <2>1. PICK a \in Added :
            LET new == Judge(DeepScore(scan[c].score, a))
            IN  \/ Update(c, [row[c] EXCEPT !.verdict = new.action, !.score = new.score])
                \/ UNCHANGED row
        BY <1>10 DEF ScanTightens
    <2> QED BY <2>1, <1>r, JudgedRow DEF Releases
<1>11. ASSUME ScanMoves(c) PROVE Releases(c)
    BY <1>r, <1>f, <1>11 DEF ScanMoves, Releases, Update, At, Unjudged, Unstored, Rows
<1>12. ASSUME ScanCloses(c) PROVE Releases(c)
    BY <1>r, <1>f, <1>12 DEF ScanCloses, Releases, Update, At, Unjudged, Unstored, Rows
<1>13. ASSUME YaraCallback(c) PROVE Releases(c)
    BY <1>r, <1>f, <1>13 DEF YaraCallback, Releases, Update, At, Unjudged, Unstored, Rows
<1>14. ASSUME UserMove(c) \/ UserDelete(c) \/ Purge(c) PROVE Releases(c)
    BY <1>14 DEF UserMove, UserDelete, Purge, Releases
<1> QED BY <1>0, <1>1, <1>2, <1>3, <1>4, <1>5, <1>6, <1>7, <1>8, <1>9, <1>10, <1>11,
   <1>12, <1>13, <1>14
   DEF Step, Handler, DeepScan, Agent, Releases

\* What the clients are told is where receiveEmail left the row.
Announces(c) == announced'[c] # announced[c] /\ Stored(c)
    => announced'[c] = row[c].folder \/ c \in moved \/ Failed(c, {"move", "divert"})

\* The one step that tells them knows it.
LEMMA StepAnnounces == ASSUME TypeOK, NEW c \in Copy, RInvAt(c), Step(c) PROVE Announces(c)
<1>1. ASSUME Notify(c) PROVE Announces(c)
    <2>1. announced'[c] = FinalFolder(c) /\ At(c, "notifying")
        BY <1>1 DEF Notify, TypeOK
    <2> QED BY <2>1 DEF RInvAt, FiledAt, FiledAs, Announces, At, Failed
<1>2. ASSUME Accept(c) \/ StoreAttachment(c) \/ AttachmentsStored(c) \/
   StoreAttachmentFails(c) \/ CleanUp(c) \/ FindThreadFails(c) \/ CreateRow(c) \/ CreateRowFails(c) \/ CheckHoneypot(c) \/
   DivertReport(c) \/ DivertFails(c) \/ KeepAsMail(c) \/ StartRun(c) \/
   StartRunFails(c) \/ SkipScan(c) \/ Scan(c) \/ ScanUnstored(c) \/ ScanThrows(c) \/
   Isolate(c) \/ IsolateFails(c) \/ Detach(c) \/ DetachFails(c) \/ CloseRun(c) \/
   CloseRunFails(c) \/ Unrelayed(c) \/ Withhold(c) \/ Relay(c) \/ RelayRefused(c) \/
   RelayDeferred(c) \/ MarkRelay(c) \/ MarkRelayFails(c) \/ NotifyFails(c) \/
   Enqueue(c) \/ AskAgent(c) \/ Crash(c) \/ ScanRead(c) \/ ScanReadsNothing(c) \/
   ScanKeeps(c) \/ ScanTightens(c) \/ ScanMoves(c) \/ ScanCloses(c) \/ ScanCrashes(c)
   \/ AgentDrafts(c) \/ AgentDeclines(c) \/ YaraCallback(c) \/ UserMove(c) \/
   UserDelete(c) \/ Purge(c) PROVE announced' = announced
    BY <1>2 DEF outside, Accept, StoreAttachment, AttachmentsStored,
       StoreAttachmentFails, CleanUp, FindThreadFails,
       CreateRow, CreateRowFails, CheckHoneypot, DivertReport, DivertFails,
       KeepAsMail, StartRun, StartRunFails, SkipScan, Scan, ScanUnstored, ScanThrows,
       Isolate, IsolateFails, Detach, DetachFails, CloseRun, CloseRunFails, Unrelayed,
       Withhold, Relay, RelayRefused, RelayDeferred, MarkRelay, MarkRelayFails,
       NotifyFails, Enqueue, AskAgent, Crash, ScanRead, ScanReadsNothing, ScanKeeps,
       ScanTightens, ScanMoves, ScanCloses, ScanCrashes, AgentDrafts, AgentDeclines,
       YaraCallback, UserMove, UserDelete, Purge
<1> QED BY <1>1, <1>2 DEF Step, Handler, DeepScan, Agent, Announces

\* A step of another copy keeps what is recorded of this one.
LEMMA OthersKeep == ASSUME NEW c \in Copy, Frame(c), Others(c), NEW d \in Copy \ {c}, RInvAt(d)
                    PROVE  RInvAt(d)'
<1>1. /\ handler'[d] = handler[d] /\ row'[d] = row[d] /\ scan'[d] = scan[d]
      /\ missed'[d] = missed[d] /\ (d \in moved' <=> d \in moved)
    BY DEF Frame
<1>2. /\ run'[d] = run[d] /\ agent'[d] = agent[d] /\ announced'[d] = announced[d]
      /\ (\A i : <<d, i>> \in blobs' <=> <<d, i>> \in blobs) /\ (d \in sent' <=> d \in sent)
      /\ mail' = mail /\ mailbox' = mailbox
    BY DEF Others
<1>i. BlobsAt(d) /\ RelayAt(d) /\ EndsAt(d) /\ RunAt(d) /\ FiledAt(d) /\ SilentAt(d)
    BY DEF RInvAt
<1>3. BlobsAt(d)'
    BY <1>i, <1>1, <1>2 DEF BlobsAt, HasBlob, Failed, At, Stored
<1>4. RelayAt(d)'
    BY <1>i, <1>1, <1>2 DEF RelayAt, At, Stored
<1>5. EndsAt(d)'
    BY <1>i, <1>1, <1>2 DEF EndsAt, At
<1>6. RunAt(d)'
    BY <1>i, <1>1, <1>2 DEF RunAt, Unfailed
<1>7. FiledAt(d)'
    BY <1>i, <1>1, <1>2 DEF FiledAt, FiledAs, Inbound, FinalFolder, Stored
<1>8. SilentAt(d)'
    BY <1>i, <1>1, <1>2 DEF SilentAt, At
<1> QED BY <1>3, <1>4, <1>5, <1>6, <1>7, <1>8 DEF RInvAt

\* A delivery is accepted after all the earlier ones ended in an error.
LEMMA TurnKept == ASSUME TypeOK, InTurn, NEW c \in Copy, Frame(c), Turn(c) PROVE InTurn'
<1>1. PICK m \in Msg, k \in 1..MaxAttempts : c = <<m, k>>
    BY DEF Copy
<1> SUFFICES ASSUME NEW n \in Msg, NEW i \in 1..MaxAttempts, NEW j \in 1..MaxAttempts,
                    i < j, handler'[<<n, j>>].at # "idle"
             PROVE  handler'[<<n, i>>].at \in {"threw", "crashed"}
    BY DEF InTurn
<1>2. <<n, i>> \in Copy /\ <<n, j>> \in Copy /\ <<n, i>> # <<n, j>> /\ i \in Int /\ j \in Int
    BY ModelAssumption DEF Copy
<1>3. CASE handler[<<n, j>>].at # "idle"
    <2>1. handler[<<n, i>>].at \in {"threw", "crashed"}
        BY <1>3 DEF InTurn
    <2>2. CASE <<n, i>> = c
        BY <2>1, <2>2 DEF Turn
    <2>3. CASE <<n, i>> # c
        BY <1>2, <2>1, <2>3 DEF Frame
    <2> QED BY <2>2, <2>3
<1>4. CASE handler[<<n, j>>].at = "idle"
    <2>1. <<n, j>> = c
        BY <1>2, <1>4 DEF Frame
    <2>2. Due(<<n, j>>)
        BY <1>4, <2>1 DEF Turn, At
    <2>3. j - 1 \in 1..MaxAttempts /\ handler[<<n, j - 1>>].at \in {"threw", "crashed"}
        BY <1>2, <2>2, ModelAssumption DEF Due
    <2>4. handler[<<n, i>>].at \in {"threw", "crashed"}
        <3>1. CASE i = j - 1
            BY <2>3, <3>1
        <3>2. CASE i < j - 1
            BY <2>3, <3>2 DEF InTurn
        <3> QED BY <1>2, <3>1, <3>2
    <2> QED BY <1>2, <2>1, <2>4 DEF Frame
<1> QED BY <1>3, <1>4

\* The invariant holds initially.
LEMMA RInvInit == Init => RInv
<1> SUFFICES ASSUME Init PROVE RInv
    OBVIOUS
<1>1. ASSUME NEW c \in Copy PROVE RInvAt(c)
    <2>1. /\ handler[c].at = "idle" /\ handler[c].result = "none" /\ handler[c].verdict = "none"
          /\ handler[c].written = 0 /\ row[c].folder = "absent" /\ row[c].verdict = "none" /\ row[c].relay = "none"
          /\ run[c] = "none" /\ scan[c].at = "none" /\ agent[c] = "none"
          /\ announced[c] = "none" /\ blobs = {} /\ sent = {} /\ missed[c] = {}
        BY DEF Init, NoRow
    <2>2. ~Stored(c)
        BY <2>1 DEF Stored, Folders
    <2>3. BlobsAt(c) /\ RelayAt(c) /\ EndsAt(c)
        BY <2>1, <2>2 DEF BlobsAt, HasBlob, RelayAt, EndsAt, At
    <2>4. RunAt(c)
        BY <2>1 DEF RunAt, Unfailed
    <2>5. FiledAt(c) /\ SilentAt(c)
        BY <2>1, <2>2 DEF FiledAt, SilentAt, Trapped
    <2> QED BY <2>3, <2>4, <2>5 DEF RInvAt
<1>2. InTurn
    BY DEF InTurn, Init, Copy
<1> QED BY <1>1, <1>2, IInvInit DEF RInv

\* A step does what the lemmas about one copy say.
LEMMA RStep == ASSUME RInv, Next
               PROVE  \E c \in Copy :
                        /\ RInvAt(c)' /\ Releases(c) /\ Announces(c)
                        /\ Frame(c) /\ Others(c) /\ Turn(c)
<1>1. PICK c \in Copy : Step(c)
    BY DEF Next, Step
<1>2. TypeOK /\ IInvAt(c) /\ RInvAt(c)
    BY DEF RInv, IInv
<1> QED BY <1>1, <1>2, StepRecords, StepReleases, StepAnnounces, StepFrame, StepOthers, StepTurn

\* Every step keeps it.
LEMMA RInvNext == RInv /\ [Next]_vars => RInv'
<1> SUFFICES ASSUME RInv, [Next]_vars PROVE RInv'
    OBVIOUS
<1>0. IInv'
    BY IInvNext DEF RInv
<1>1. CASE Next
    <2>1. PICK c \in Copy : RInvAt(c)' /\ Frame(c) /\ Others(c) /\ Turn(c)
        BY <1>1, RStep
    <2>2. \A d \in Copy \ {c} : RInvAt(d)'
        BY <2>1, OthersKeep DEF RInv
    <2>3. InTurn'
        BY <2>1, TurnKept DEF RInv, IInv
    <2> QED BY <1>0, <2>1, <2>2, <2>3 DEF RInv
<1>2. CASE UNCHANGED vars
    <2>1. ASSUME NEW c \in Copy PROVE RInvAt(c)'
        BY <1>2 DEF RInv, RInvAt, BlobsAt, HasBlob, Failed, RelayAt, EndsAt, RunAt, Unfailed,
           FiledAt, FiledAs,
           SilentAt, Inbound, FinalFolder, At, Stored, vars
    <2>2. InTurn'
        BY <1>2 DEF RInv, InTurn, vars
    <2> QED BY <1>0, <2>1, <2>2 DEF RInv
<1> QED BY <1>1, <1>2

\* It holds in every reachable state.
LEMMA RecordsInvariant == Spec => []RInv
BY RInvInit, RInvNext, PTL DEF Spec
-----------------------------------------------------------------------------
(* The theorems. *)

\* What the rows, the runs and the bucket say of a message agrees with what
\* happened to it: no row without its attachments, no attachment without a row
\* but the one whose put lost its answer and those a failed call left behind, no
\* relay status that is not the backend's, no run left running or called
\* completed against the facts.
THEOREM RecordsAreTrue == Spec => []RecordsTrue
<1>1. RInv => RecordsTrue
    <2> SUFFICES ASSUME RInv PROVE RecordsTrue
        OBVIOUS
    <2>0. ASSUME NEW c \in Copy PROVE RInvAt(c)
        BY DEF RInv
    <2>1. BlobsMatchRows
        <3> SUFFICES ASSUME NEW c \in Copy PROVE BlobsMatchRows!(c)
            BY DEF BlobsMatchRows
        <3> QED BY <2>0 DEF RInvAt, BlobsAt, HasBlob, AllObjects, Objects, Failed
    <2>2. RelayStatusTrue
        BY <2>0 DEF RelayStatusTrue, RInvAt, RelayAt, Relayed, At, Failed
    <2>3. RunsTrue
        BY <2>0 DEF RunsTrue, RInvAt, RunAt, Unfailed, Failed
    <2> QED BY <2>1, <2>2, <2>3 DEF RecordsTrue
<1> QED BY <1>1, RecordsInvariant, PTL

\* The retries of the origin reach the backend twice only if the earlier
\* delivery died after its relay or lost the relay's answer.
THEOREM RelayedOnce == Spec => []SentOnce
<1>1. RInv => SentOnce
    <2> SUFFICES ASSUME RInv, NEW m \in Msg, NEW i \in 1..MaxAttempts, NEW j \in 1..MaxAttempts,
                        i < j, {<<m, i>>, <<m, j>>} \subseteq sent
                 PROVE  Failed(<<m, i>>, {"crash", "smtpTransient"})
        BY DEF SentOnce
    <2>1. <<m, i>> \in Copy /\ <<m, j>> \in Copy
        BY DEF Copy
    <2>2. handler[<<m, j>>].at # "idle"
        BY <2>1 DEF RInv, RInvAt, RelayAt, Unsent, Unjudged, Unstored
    <2>3. handler[<<m, i>>].at \in {"threw", "crashed"}
        BY <2>2 DEF RInv, InTurn
    <2>4. "crash" \in missed[<<m, i>>] \/ "smtpTransient" \in missed[<<m, i>>]
        BY <2>1, <2>3 DEF RInv, RInvAt, EndsAt, At
    <2> QED BY <2>4 DEF Failed
<1> QED BY <1>1, RecordsInvariant, PTL

\* A honeypot's mail is stored and nothing more, unless the read that tells it
\* is one fails, the way out the code leaves; and the agent never hears of mail
\* to a sidecar mailbox or to one with auto-draft off, up to a failed read, nor
\* of mail filed as spam by a rule.
THEOREM TrapsStaySilent == Spec => []SilentMailboxes
<1>1. RInv => SilentMailboxes
    BY DEF RInv, RInvAt, SilentAt, SilentMailboxes, Failed
<1> QED BY <1>1, RecordsInvariant, PTL

\* Only a request of the user takes mail out of Quarantine: no step of
\* receiveEmail, the deep scan, a callback or the agent does, but the one that
\* archives a report the user quarantined while it was ingested.
THEOREM UserReleases == Spec => OnlyUserReleases
<1>1. RInv /\ [Next]_vars
      => [\A c \in Copy : row[c].folder = "quarantine" /\ row'[c].folder # "quarantine"
            => \/ UNCHANGED <<handler, async>>
               \/ At(c, "diverting") /\ mail[c[1]].report /\ c \in moved]_vars
    <2> SUFFICES ASSUME RInv, Next, NEW d \in Copy,
                        row[d].folder = "quarantine", row'[d].folder # "quarantine"
                 PROVE  \/ UNCHANGED <<handler, async>>
                        \/ At(d, "diverting") /\ mail[d[1]].report /\ d \in moved
        BY DEF vars
    <2>1. PICK c \in Copy : Releases(c) /\ Frame(c)
        BY RStep
    <2>2. d = c
        BY <2>1 DEF Frame
    <2> QED BY <2>1, <2>2 DEF Releases
<1> QED BY <1>1, RecordsInvariant, PTL DEF Spec, OnlyUserReleases

\* The folder the clients are told is the one the mail is in, unless the user
\* was faster or a move failed: no client hears of quarantined mail as inbox mail.
THEOREM AnnouncementsTrue == Spec => AnnouncedTruly
<1>1. RInv /\ [Next]_vars
      => [\A c \in Copy : announced'[c] # announced[c] /\ Stored(c)
            => \/ announced'[c] = row[c].folder
               \/ c \in moved
               \/ Failed(c, {"move", "divert"})]_vars
    <2> SUFFICES ASSUME RInv, Next, NEW d \in Copy, announced'[d] # announced[d], Stored(d)
                 PROVE  \/ announced'[d] = row[d].folder
                        \/ d \in moved
                        \/ Failed(d, {"move", "divert"})
        BY DEF vars
    <2>1. PICK c \in Copy : Announces(c) /\ Others(c)
        BY RStep
    <2>2. d = c
        BY <2>1 DEF Others
    <2> QED BY <2>1, <2>2 DEF Announces
<1> QED BY <1>1, RecordsInvariant, PTL DEF Spec, AnnouncedTruly
-----------------------------------------------------------------------------
(* The scan that reaches a verdict, stage by stage: ScanPipeline. *)

CONSTANTS ScanIds, Letters, Policies, Addresses, Names, Feeds, Before, Acquainted, LlmScores,
          CtiPriors, NoOne, None
VARIABLES letter, pc, facts, rows, verdict, writes, stored, reputation, graph, selectors
Pipe == INSTANCE ScanPipeline WITH Scans <- ScanIds

\* The instance's copy of Cardinality is the library's.
LEMMA PipeCardinality == \A S : Pipe!Cardinality(S) = Cardinality(S)
BY DEF Pipe!Cardinality, Cardinality

\* What the constants are, and that None and NoOne stand for nothing else.
PipelineConstants ==
    /\ IsFiniteSet(ScanIds) /\ IsFiniteSet(Feeds)
    /\ TagAt \in Nat /\ QuarantineAt \in Nat /\ BlockAt \in Nat
    /\ Letters \subseteq Pipe!LetterRecords /\ Policies \subseteq Pipe!PolicyRecords
    /\ LlmScores \subseteq Nat /\ CtiPriors \subseteq Nat
    /\ Before \in [Addresses -> Pipe!HistoryRecords \cup {None}]
    /\ Acquainted \in [Names \X Addresses -> Nat]
    /\ NoOne \notin Addresses \cup Names
    /\ None \notin Pipe!HistoryRecords \cup Pipe!Verdicts \cup CtiPriors \cup Policies
    /\ None \notin [verdict : Pipe!Verdicts, rows : Pipe!Traces]

(* The arithmetic of the boosts. *)

\* A verdict whose action is its score's: what the aggregation and the boosts make.
Judgements == {v \in Pipe!Verdicts : v = Pipe!Judge(v.score)}

\* A judged score is a judgement of that score.
LEMMA JudgedByScore ==
  ASSUME PipelineConstants, NEW n \in 0..Pipe!MaxScore
  PROVE  Pipe!Judge(n) \in Judgements /\ Pipe!Judge(n).score = n
BY DEF PipelineConstants, Judgements, Pipe!Judge, Pipe!ActionFor, Pipe!Verdicts, Pipe!Actions,
      Pipe!MaxScore

\* A boost makes a judgement of the capped sum, and a boost of nothing changes nothing.
LEMMA BoostJudged ==
  ASSUME PipelineConstants, NEW v \in Judgements, NEW n \in Nat
  PROVE  /\ Pipe!Boost(v, n) \in Judgements
         /\ Pipe!Boost(v, n).score = Pipe!AtMostMax(v.score + n)
         /\ Pipe!applyBoost(v, n) = Pipe!Boost(v, n)
<1>1. v.score \in 0..Pipe!MaxScore /\ v = Pipe!Judge(v.score)
  BY DEF Judgements, Pipe!Verdicts
<1>2. Pipe!AtMostMax(v.score + n) \in 0..Pipe!MaxScore
  BY <1>1 DEF Pipe!AtMostMax, Pipe!MaxScore
<1>3. n = 0 => Pipe!Boost(v, n) = v
  BY <1>1 DEF Pipe!Boost, Pipe!AtMostMax, Pipe!MaxScore
<1> QED BY <1>2, <1>3, JudgedByScore DEF Pipe!Boost, Pipe!applyBoost

\* Two boosts in a row are one boost of their sum: the cap at MaxScore loses nothing.
LEMMA BoostTwice ==
  ASSUME PipelineConstants, NEW v \in Judgements, NEW m \in Nat, NEW n \in Nat
  PROVE  Pipe!Boost(Pipe!Boost(v, m), n) = Pipe!Boost(v, m + n)
<1>1. v.score \in 0..Pipe!MaxScore
  BY DEF Judgements, Pipe!Verdicts
<1>2. Pipe!Boost(v, m).score = Pipe!AtMostMax(v.score + m)
  BY BoostJudged
<1>3. Pipe!AtMostMax(Pipe!AtMostMax(v.score + m) + n) = Pipe!AtMostMax(v.score + (m + n))
  BY <1>1 DEF Pipe!AtMostMax, Pipe!MaxScore
<1> QED BY <1>2, <1>3 DEF Pipe!Boost

\* Facts as the aggregation needs them.
Weighed(f) == f.aggregate \in Int /\ f.derivedFeeds \in Nat /\ f.intel \in Pipe!Tiers

\* The aggregation judges the clamped sum of the scorers.
LEMMA AggregateJudged ==
  ASSUME PipelineConstants, NEW n \in Int
  PROVE  Pipe!Aggregate(n) \in Judgements /\ Pipe!Aggregate(n).score = Pipe!Clamp(n)
<1>1. Pipe!Clamp(n) \in 0..Pipe!MaxScore
  BY DEF Pipe!Clamp, Pipe!AtMostMax, Pipe!MaxScore
<1> QED BY <1>1, JudgedByScore DEF Pipe!Aggregate

\* The intel boost and the corroboration floor are what Verdict calls Corroborate.
LEMMA IntelJudged ==
  ASSUME PipelineConstants, NEW f, Weighed(f)
  PROVE  /\ Pipe!IntelBoost(f.intel) \in Nat
         /\ Pipe!IntelApplied(f) = Pipe!Boost(Pipe!Aggregate(f.aggregate), Pipe!IntelBoost(f.intel))
         /\ Pipe!IntelApplied(f) \in Judgements
         /\ Pipe!IntelFloor(f) \in Nat
         /\ Pipe!applyBoost(Pipe!IntelApplied(f), Pipe!IntelFloor(f)) = Pipe!Corroborate(Pipe!IntelApplied(f), f)
         /\ Pipe!Corroborate(Pipe!IntelApplied(f), f) = Pipe!Boost(Pipe!IntelApplied(f), Pipe!IntelFloor(f))
         /\ Pipe!Corroborate(Pipe!IntelApplied(f), f) \in Judgements
<1>1. Pipe!IntelBoost(f.intel) \in Nat
  BY DEF Pipe!IntelBoost
<1>2. /\ Pipe!IntelApplied(f) = Pipe!Boost(Pipe!Aggregate(f.aggregate), Pipe!IntelBoost(f.intel))
      /\ Pipe!IntelApplied(f) \in Judgements
  BY <1>1, AggregateJudged, BoostJudged DEF Pipe!IntelApplied, Weighed
<1>3. Pipe!IntelApplied(f).score \in 0..Pipe!MaxScore
  BY <1>2 DEF Judgements, Pipe!Verdicts
<1>4. Pipe!IntelFloor(f) \in Nat
  BY <1>3 DEF Pipe!IntelFloor, PipelineConstants, Pipe!MaxScore
<1>5. Pipe!Corroborate(Pipe!IntelApplied(f), f) = Pipe!applyBoost(Pipe!IntelApplied(f), Pipe!IntelFloor(f))
  <2>1. CASE f.intel = "derived" /\ f.derivedFeeds >= 2 /\ Pipe!IntelApplied(f).score < QuarantineAt
    <3>1. QuarantineAt - Pipe!IntelApplied(f).score > 0
      BY <2>1, <1>3 DEF PipelineConstants, Pipe!MaxScore
    <3> QED BY <2>1, <3>1 DEF Pipe!Corroborate, Pipe!IntelFloor, Pipe!applyBoost
  <2>2. CASE ~(f.intel = "derived" /\ f.derivedFeeds >= 2 /\ Pipe!IntelApplied(f).score < QuarantineAt)
    BY <2>2 DEF Pipe!Corroborate, Pipe!IntelFloor, Pipe!applyBoost
  <2> QED BY <2>1, <2>2
<1> QED BY <1>1, <1>2, <1>4, <1>5, BoostJudged

\* The three boosts applied one by one are the one boost SyncVerdict applies.
LEMMA BoostedAtOnce ==
  ASSUME PipelineConstants, NEW f, Weighed(f), NEW h \in Nat, NEW d \in Nat, NEW l \in Nat
  PROVE  /\ Pipe!Boosted(f, h, d, l) = Pipe!Boost(Pipe!Corroborate(Pipe!IntelApplied(f), f), h + d + l)
         /\ Pipe!Boosted(f, h, d, l) \in Judgements
<1> DEFINE c == Pipe!Corroborate(Pipe!IntelApplied(f), f)
<1>1. c \in Judgements /\ Pipe!applyBoost(Pipe!IntelApplied(f), Pipe!IntelFloor(f)) = c
  BY IntelJudged
<1> HIDE DEF c
<1>2. Pipe!applyBoost(c, h) = Pipe!Boost(c, h) /\ Pipe!Boost(c, h) \in Judgements
  BY <1>1, BoostJudged
<1>a. h + d \in Nat /\ (h + d) + l \in Nat
  OBVIOUS
<1>3. Pipe!applyBoost(Pipe!Boost(c, h), d) = Pipe!Boost(c, h + d)
  BY <1>1, <1>2, BoostJudged, BoostTwice
<1>b. Pipe!Boost(c, h + d) \in Judgements
  BY <1>1, <1>a, BoostJudged
<1>4. Pipe!applyBoost(Pipe!Boost(c, h + d), l) = Pipe!Boost(c, (h + d) + l)
  <2>1. Pipe!applyBoost(Pipe!Boost(c, h + d), l) = Pipe!Boost(Pipe!Boost(c, h + d), l)
    BY <1>b, BoostJudged
  <2>2. Pipe!Boost(Pipe!Boost(c, h + d), l) = Pipe!Boost(c, (h + d) + l)
    BY <1>1, <1>a, BoostTwice
  <2> QED BY <2>1, <2>2
<1>c. Pipe!Boost(c, (h + d) + l) \in Judgements
  BY <1>1, <1>a, BoostJudged
<1>5. Pipe!Boosted(f, h, d, l) = Pipe!Boost(c, h + d + l)
  BY <1>1, <1>2, <1>3, <1>4 DEF Pipe!Boosted
<1> QED BY <1>c, <1>5 DEF c

(* The invariant, stage by stage, as predicates of one scan's values. *)

Unscanned == {"new", "skipped", "failed"}
Looking == {"intel", "reputation", "prior", "detect", "lookalike", "triage"}
Weighing == {"llm", "verdict"}
PipeJudged == {"store", "urls", "history", "graph", "done"}

\* What scan m knows at stage p.
Knows(m, p, f) ==
    /\ p \notin Unscanned => f.policy \in Policies
    /\ f.match = "confirmed" <=> "confirmed" \in f.heard
    /\ f.match = "derived" <=> "derived" \in f.heard /\ "confirmed" \notin f.heard
    /\ f.match = "none" <=> f.heard \subseteq {"none"}
    /\ "confirmed" \in f.heard => f.at > m.links
    /\ p \in Unscanned \cup Looking \cup {"llm"} => f.llm = 0

\* What its rows say at stage p.
Trace(m, p, f, r) ==
    /\ p = "new" => r = Pipe!Fillers
    /\ p \notin Unscanned => r["auth"].contrib = m.auth
    /\ p \in Looking \cup Weighing => r["url"].contrib = m.url /\ r["intel"].contrib = 0
    /\ p \in {"detect", "lookalike", "triage"} \cup Weighing =>
         r["reputation"].contrib = Pipe!scoreReputation(f.rep, f.prior)
    /\ p \in Looking => r["triage"] = Pipe!Row("skipped", 0)
    /\ p \in Weighing => r["triage"] = Pipe!Row("ok", 0)
    /\ p \in Looking \cup {"llm"} => r["llm"] = Pipe!Row("skipped", 0)
    /\ p = "verdict" => r["llm"].contrib = f.llm
    /\ p # "failed" => \A i \in Pipe!Stages : r[i].status # "failed"

\* The parts of TraceTells and RowsAddUp about one verdict.
Tells(m, f, r, v) ==
    /\ r["verdict"] = Pipe!Row("ok", v.score)
    /\ Pipe!TierOf(m, f) # "none" =>
         /\ r["triage"] = Pipe!Row("short_circuited", v.score)
         /\ r["llm"] = Pipe!Row("skipped", 0)
         /\ r["intel"].contrib = 0
    /\ Pipe!TierOf(m, f) = "none" => r["triage"] = Pipe!Row("ok", 0)
    /\ \A i \in Pipe!Stages : r[i].status # "failed"
AddsUp(m, f, r, v) ==
    LET weighed == r["auth"].contrib + (r["url"].contrib - f.lookalike)
                     + r["reputation"].contrib + r["llm"].contrib
    IN  IF Pipe!TierOf(m, f) = "none"
        THEN v.score = Pipe!AtMostMax(Pipe!Clamp(weighed + m.rest) + r["intel"].contrib
                                        + f.hours + f.detector + f.lookalike)
        ELSE /\ v.score = r["triage"].contrib + r["llm"].contrib + r["intel"].contrib
             /\ r["auth"].contrib = m.auth /\ r["url"].contrib = m.url
             /\ r["reputation"].contrib = Pipe!scoreReputation(f.rep, f.prior)

\* What it concluded.
Outcome(m, p, f, r, v) ==
    /\ p \in PipeJudged <=> v # None
    /\ p \in Weighing => Pipe!TierOf(m, f) = "none"
    /\ v # None => /\ v = Pipe!SyncVerdict(Pipe!FactsOf(m, f), f.policy)
                   /\ Tells(m, f, r, v)
                   /\ AddsUp(m, f, r, v)

\* What became of it in the mailbox.
Owes(m, w) == CASE w = "verdict"    -> TRUE
                [] w = "urls"       -> m.links > 0
                [] w = "reputation" -> m.sender # NoOne
                [] OTHER            -> m.sender # NoOne /\ m.name # NoOne
Attempted(p) == CASE p = "urls"    -> {"verdict"}
                  [] p = "history" -> {"verdict", "urls"}
                  [] p = "graph"   -> {"verdict", "urls", "reputation"}
                  [] p = "done"    -> Pipe!Writes
                  [] OTHER         -> {}
Accounted(m, p, r, v, w, st, sel) ==
    /\ st # None => st = [verdict |-> v, rows |-> r]
    /\ m.stateless => /\ p \notin {"store", "urls", "history", "graph"}
                      /\ st = None /\ sel = "none"
                      /\ \A x \in Pipe!Writes : w[x] = "unwritten"
    /\ v = None => st = None
    /\ ~m.stateless =>
         \A x \in Pipe!Writes : w[x] # "unwritten" <=> x \in Attempted(p) /\ Owes(m, x)

ScanInv(s) ==
    /\ Knows(letter[s], pc[s], facts[s])
    /\ Trace(letter[s], pc[s], facts[s], rows[s])
    /\ Outcome(letter[s], pc[s], facts[s], rows[s], verdict[s])
    /\ Accounted(letter[s], pc[s], rows[s], verdict[s], writes[s], stored[s], selectors[s])

PipeInv == Pipe!TypeOK /\ (\A s \in ScanIds : ScanInv(s)) /\ Pipe!HistoryCounts

\* A step of one scan leaves the others where they were.
Only(s) ==
    /\ letter' = letter
    /\ \A t \in ScanIds \ {s} :
         /\ pc'[t] = pc[t] /\ facts'[t] = facts[t] /\ rows'[t] = rows[t]
         /\ verdict'[t] = verdict[t] /\ writes'[t] = writes[t]
         /\ stored'[t] = stored[t] /\ selectors'[t] = selectors[t]

\* A scan whose values stay keeps its part of the invariant.
LEMMA OthersKept ==
  ASSUME NEW s \in ScanIds, Only(s), NEW t \in ScanIds \ {s}, ScanInv(t)
  PROVE  ScanInv(t)'
<1>1. /\ letter'[t] = letter[t] /\ pc'[t] = pc[t] /\ facts'[t] = facts[t] /\ rows'[t] = rows[t]
      /\ verdict'[t] = verdict[t] /\ writes'[t] = writes[t]
      /\ stored'[t] = stored[t] /\ selectors'[t] = selectors[t]
  BY DEF Only
<1> QED BY <1>1 DEF ScanInv

\* Every step of a scan leaves the values of the other scans alone.
LEMMA StepOnly ==
  ASSUME Pipe!TypeOK, NEW s \in ScanIds, Pipe!Step(s)
  PROVE  Only(s)
<1> USE DEF Pipe!TypeOK, Only, Pipe!At, Pipe!Box
<1>1. CASE Pipe!Skip(s) \/ Pipe!Unresolved(s) BY <1>1 DEF Pipe!Skip, Pipe!Unresolved
<1>2. CASE Pipe!Start(s) BY <1>2 DEF Pipe!Start
<1>3. CASE Pipe!Observed(s) BY <1>3 DEF Pipe!Observed
<1>4. CASE Pipe!LookUp(s) BY <1>4 DEF Pipe!LookUp
<1>5. CASE Pipe!LookedUp(s) BY <1>5 DEF Pipe!LookedUp
<1>6. CASE Pipe!ReadReputation(s) \/ Pipe!ReputationFails(s) BY <1>6 DEF Pipe!ReadReputation,
      Pipe!ReputationFails
<1>7. CASE Pipe!AskCti(s) BY <1>7 DEF Pipe!AskCti
<1>8. CASE Pipe!Detect(s) \/ Pipe!CompareOwnDomains(s) BY <1>8 DEF Pipe!Detect,
      Pipe!CompareOwnDomains
<1>9. CASE Pipe!ShortCircuit(s) BY <1>9 DEF Pipe!ShortCircuit
<1>10. CASE Pipe!PassTriage(s) \/ Pipe!Classify(s) BY <1>10 DEF Pipe!PassTriage, Pipe!Classify
<1>11. CASE Pipe!Conclude(s) BY <1>11 DEF Pipe!Conclude
<1>12. CASE Pipe!PersistVerdict(s) \/ Pipe!InsertUrls(s) BY <1>12 DEF Pipe!PersistVerdict,
      Pipe!InsertUrls, Pipe!Attempt
<1>13. CASE Pipe!UpdateHistory(s) BY <1>13 DEF Pipe!UpdateHistory, Pipe!Attempt
<1>14. CASE Pipe!UpdateGraph(s) BY <1>14 DEF Pipe!UpdateGraph, Pipe!Attempt
<1> QED BY <1>1, <1>2, <1>3, <1>4, <1>5, <1>6, <1>7, <1>8, <1>9, <1>10, <1>11, <1>12, <1>13, <1>14
       DEF Pipe!Step

(* What each stage does to its scan. *)

\* The types of one scan's values.
LEMMA LetterType ==
  ASSUME PipelineConstants, Pipe!TypeOK, NEW s \in ScanIds
  PROVE  /\ letter[s] \in Pipe!LetterRecords /\ pc[s] \in Pipe!Places
         /\ facts[s] \in Pipe!FoundRecords /\ rows[s] \in Pipe!Traces
         /\ verdict[s] \in Pipe!Verdicts \cup {None}
BY DEF Pipe!TypeOK, PipelineConstants

\* The reputation scorer adds a natural number.
LEMMA ReputationType ==
  ASSUME PipelineConstants, NEW r \in Pipe!HistoryRecords \cup {None}, NEW p \in CtiPriors \cup {None}
  PROVE  Pipe!scoreReputation(r, p) \in Nat
BY DEF PipelineConstants, Pipe!scoreReputation, Pipe!HistoryRecords

\* What a scan found is what the aggregation needs.
LEMMA FactsType ==
  ASSUME PipelineConstants, NEW m \in Pipe!LetterRecords, NEW f \in Pipe!FoundRecords
  PROVE  Weighed(Pipe!FactsOf(m, f))
<1>1. Pipe!scoreReputation(f.rep, f.prior) \in Nat
  BY ReputationType DEF Pipe!FoundRecords
<1>2. m.auth + m.url + Pipe!scoreReputation(f.rep, f.prior) + f.llm + m.rest \in Int
  BY <1>1 DEF Pipe!FoundRecords, Pipe!LetterRecords
<1>3. IsFiniteSet(f.feeds) /\ f.match \in Pipe!Tiers
  BY FS_Subset DEF Pipe!FoundRecords, PipelineConstants
<1>4. Cardinality(f.feeds) \in Nat
  BY <1>3, FS_CardinalityType
<1> QED BY <1>2, <1>3, <1>4, PipeCardinality DEF Weighed, Pipe!FactsOf

\* Triage looks at the letter, the history, the match and the settings alone.
LEMMA TierKept ==
  ASSUME NEW m, NEW f, NEW g, f.rep = g.rep, f.match = g.match, f.policy = g.policy
  PROVE  Pipe!TierOf(m, f) = Pipe!TierOf(m, g)
BY DEF Pipe!TierOf, Pipe!TriageTier, Pipe!FolderBypass, Pipe!HardBlock, Pipe!HardAllow, Pipe!FactsOf

\* The tracer's operations, row by row.
LEMMA TracerType ==
  ASSUME NEW t \in Pipe!Traces, NEW i \in Pipe!Stages, NEW n \in Int
  PROVE  /\ Pipe!measure(t, i) \in Pipe!Traces /\ Pipe!setContrib(t, i, n) \in Pipe!Traces
         /\ Pipe!measureFailed(t, i) \in Pipe!Traces /\ Pipe!markSkipped(t, i) \in Pipe!Traces
         /\ Pipe!shortCircuitTriage(t, n) \in Pipe!Traces /\ Pipe!completeVerdict(t, n) \in Pipe!Traces
BY DEF Pipe!measure, Pipe!setContrib, Pipe!measureFailed, Pipe!markSkipped,
      Pipe!shortCircuitTriage, Pipe!completeVerdict, Pipe!Row,
       Pipe!Traces, Pipe!Statuses, Pipe!Stages

\* A measured stage is ok and keeps its contribution.
LEMMA Measured ==
  ASSUME NEW t \in Pipe!Traces, NEW i \in Pipe!Stages, NEW j \in Pipe!Stages
  PROVE  Pipe!measure(t, i)[j] = IF j = i THEN Pipe!Row("ok", t[j].contrib) ELSE t[j]
BY DEF Pipe!measure, Pipe!Row, Pipe!Traces

\* A contribution changes one row.
LEMMA Contributed ==
  ASSUME NEW t \in Pipe!Traces, NEW i \in Pipe!Stages, NEW n \in Int, NEW j \in Pipe!Stages
  PROVE  Pipe!setContrib(t, i, n)[j] = IF j = i THEN Pipe!Row(t[j].status, n) ELSE t[j]
BY DEF Pipe!setContrib, Pipe!Row, Pipe!Traces

\* The seven stages.
LEMMA StageNames == /\ "auth" \in Pipe!Stages /\ "url" \in Pipe!Stages /\ "reputation" \in Pipe!Stages
                    /\ "intel" \in Pipe!Stages /\ "triage" \in Pipe!Stages /\ "llm" \in Pipe!Stages
                    /\ "verdict" \in Pipe!Stages
BY DEF Pipe!Stages

\* The fields of a row.
LEMMA RowFields == \A status, n : Pipe!Row(status, n).status = status /\ Pipe!Row(status, n).contrib = n
BY DEF Pipe!Row

\* The rows the tracer writes as a whole.
LEMMA Closed ==
  ASSUME NEW t \in Pipe!Traces, NEW n \in Int, NEW j \in Pipe!Stages
  PROVE  /\ Pipe!markSkipped(t, "llm")[j] = IF j = "llm" THEN Pipe!Row("skipped", 0) ELSE t[j]
         /\ Pipe!shortCircuitTriage(t, n)[j] = IF j = "triage" THEN Pipe!Row("short_circuited", n) ELSE t[j]
         /\ Pipe!completeVerdict(t, n)[j] = IF j = "verdict" THEN Pipe!Row("ok", n) ELSE t[j]
BY DEF Pipe!markSkipped, Pipe!shortCircuitTriage, Pipe!completeVerdict, Pipe!Traces, Pipe!Stages

\* A scan that does not start, or whose settings fail, keeps the invariant.
LEMMA SkipKept ==
  ASSUME PipelineConstants, Pipe!TypeOK, NEW s \in ScanIds, ScanInv(s), Pipe!Skip(s) \/ Pipe!Unresolved(s)
  PROVE  Pipe!TypeOK' /\ ScanInv(s)'
<1>1. pc[s] = "new" /\ pc'[s] \in {"skipped", "failed"}
  BY DEF Pipe!Skip, Pipe!Unresolved, Pipe!At, Pipe!TypeOK
<1>2. UNCHANGED <<letter, facts, rows, verdict, writes, stored, reputation, graph, selectors>>
  BY DEF Pipe!Skip, Pipe!Unresolved, Pipe!At, Pipe!Box
<1>3. Pipe!TypeOK'
  BY <1>2 DEF Pipe!TypeOK, Pipe!Skip, Pipe!Unresolved, Pipe!At, Pipe!Places
<1>4. Knows(letter[s], pc[s], facts[s])'
  BY <1>1, <1>2 DEF ScanInv, Knows, Unscanned
<1>5. Trace(letter[s], pc[s], facts[s], rows[s])'
  BY <1>1, <1>2 DEF ScanInv, Trace, Unscanned, Looking, Weighing, Pipe!Fillers, Pipe!Row
<1>6. Outcome(letter[s], pc[s], facts[s], rows[s], verdict[s])'
  BY <1>1, <1>2 DEF ScanInv, Outcome, PipeJudged, Weighing
<1>7. Accounted(letter[s], pc[s], rows[s], verdict[s], writes[s], stored[s], selectors[s])'
  BY <1>1, <1>2 DEF ScanInv, Accounted, Attempted
<1> QED BY <1>3, <1>4, <1>5, <1>6, <1>7 DEF ScanInv

\* The pure stages keep the invariant (AuthScorer, URL scorer).
LEMMA StartKept ==
  ASSUME PipelineConstants, Pipe!TypeOK, NEW s \in ScanIds, ScanInv(s), Pipe!Start(s)
  PROVE  Pipe!TypeOK' /\ ScanInv(s)'
<1>1. pc[s] = "new" /\ pc'[s] = "intel"
  BY DEF Pipe!Start, Pipe!At, Pipe!TypeOK
<1>2. UNCHANGED <<letter, verdict, writes, stored, reputation, graph>>
  BY DEF Pipe!Start, Pipe!At
<1>3. PICK p \in Policies : facts' = [facts EXCEPT ![s].policy = p]
  BY DEF Pipe!Start
<1>a. facts'[s] = [facts[s] EXCEPT !.policy = p]
  BY <1>3 DEF Pipe!TypeOK
<1>4. /\ facts'[s] = [facts[s] EXCEPT !.policy = p] /\ facts'[s] \in Pipe!FoundRecords
      /\ facts'[s].policy = p /\ facts'[s].match = facts[s].match /\ facts'[s].heard = facts[s].heard
      /\ facts'[s].at = facts[s].at /\ facts'[s].llm = facts[s].llm
  <2> DEFINE f == facts[s]
  <2>1. f \in Pipe!FoundRecords
    BY LetterType
  <2> HIDE DEF f
  <2>2. [f EXCEPT !.policy = p] \in Pipe!FoundRecords
    BY <2>1 DEF Pipe!FoundRecords
  <2>3. LET g == [f EXCEPT !.policy = p] IN
          g.policy = p /\ g.match = f.match /\ g.heard = f.heard /\ g.at = f.at /\ g.llm = f.llm
    BY <2>1 DEF Pipe!FoundRecords
  <2> QED BY <1>a, <2>2, <2>3 DEF f
<1>5. rows[s] = Pipe!Fillers
  BY <1>1 DEF ScanInv, Trace
<1>6. rows' = [rows EXCEPT ![s] =
         Pipe!setContrib(Pipe!measure(Pipe!setContrib(Pipe!measure(rows[s], "auth"), "auth", letter[s].auth), "url"),
                    "url", letter[s].url)]
  BY DEF Pipe!Start
<1>7. /\ rows'[s] \in Pipe!Traces
      /\ \A i \in Pipe!Stages : rows'[s][i] = IF i = "auth" THEN Pipe!Row("ok", letter[s].auth)
                        ELSE IF i = "url" THEN Pipe!Row("ok", letter[s].url) ELSE Pipe!Row("skipped", 0)
  <2> DEFINE n == letter[s].auth  k == letter[s].url
             t1 == Pipe!measure(Pipe!Fillers, "auth")  t2 == Pipe!setContrib(t1, "auth", n)
             t3 == Pipe!measure(t2, "url")        t4 == Pipe!setContrib(t3, "url", k)
  <2>1. n \in Int /\ k \in Int /\ "auth" \in Pipe!Stages /\ "url" \in Pipe!Stages
    BY LetterType DEF Pipe!LetterRecords, Pipe!Stages
  <2>2. Pipe!Fillers \in Pipe!Traces /\ \A i \in Pipe!Stages : Pipe!Fillers[i] = Pipe!Row("skipped", 0)
    BY DEF Pipe!Fillers, Pipe!Traces, Pipe!Row, Pipe!Statuses
  <2>3. rows'[s] = t4
    BY <1>5, <1>6 DEF Pipe!TypeOK
  <2> HIDE DEF n, k
  <2>4. t1 \in Pipe!Traces /\ t2 \in Pipe!Traces /\ t3 \in Pipe!Traces /\ t4 \in Pipe!Traces
    BY <2>1, <2>2, TracerType
  <2>5. \A i \in Pipe!Stages : t1[i] = IF i = "auth" THEN Pipe!Row("ok", Pipe!Fillers[i].contrib) ELSE Pipe!Fillers[i]
    BY <2>1, <2>2, Measured
  <2>6. \A i \in Pipe!Stages : t2[i] = IF i = "auth" THEN Pipe!Row(t1[i].status, n) ELSE t1[i]
    BY <2>1, <2>4, Contributed
  <2>7. \A i \in Pipe!Stages : t3[i] = IF i = "url" THEN Pipe!Row("ok", t2[i].contrib) ELSE t2[i]
    BY <2>1, <2>4, Measured
  <2>8. \A i \in Pipe!Stages : t4[i] = IF i = "url" THEN Pipe!Row(t3[i].status, k) ELSE t3[i]
    BY <2>1, <2>4, Contributed
  <2> HIDE DEF t1, t2, t3, t4
  <2>9. \A i \in Pipe!Stages : t4[i] = IF i = "auth" THEN Pipe!Row("ok", n)
                          ELSE IF i = "url" THEN Pipe!Row("ok", k) ELSE Pipe!Row("skipped", 0)
    <3> TAKE i \in Pipe!Stages
    <3>1. CASE i = "auth"
      <4>1. t1[i].status = "ok"
        BY <3>1, <2>5, RowFields
      <4>2. t2[i] = Pipe!Row("ok", n)
        BY <3>1, <4>1, <2>6
      <4> QED BY <3>1, <4>2, <2>7, <2>8
    <3>2. CASE i = "url"
      <4>1. t3[i].status = "ok"
        BY <3>2, <2>7, RowFields
      <4> QED BY <3>2, <4>1, <2>8
    <3>3. CASE i # "auth" /\ i # "url"
      BY <3>3, <2>2, <2>5, <2>6, <2>7, <2>8
    <3> QED BY <3>1, <3>2, <3>3
  <2> QED BY <2>3, <2>4, <2>9 DEF n, k
<1>8. Pipe!TypeOK'
  <2>1. pc' \in [ScanIds -> Pipe!Places]
    BY DEF Pipe!Start, Pipe!At, Pipe!TypeOK, Pipe!Places
  <2>2. facts' \in [ScanIds -> Pipe!FoundRecords]
    BY <1>3, <1>4 DEF Pipe!TypeOK
  <2>3. rows' \in [ScanIds -> Pipe!Traces]
    BY <1>6, <1>7 DEF Pipe!TypeOK
  <2>4. selectors' \in [ScanIds -> {"none", "sent", "landed", "lost"}]
    BY DEF Pipe!Start, Pipe!TypeOK
  <2> QED BY <1>2, <2>1, <2>2, <2>3, <2>4 DEF Pipe!TypeOK
<1>9. Knows(letter[s], pc[s], facts[s])'
  BY <1>1, <1>2, <1>4, LetterType DEF ScanInv, Knows, Unscanned, Looking, Pipe!FoundRecords
<1>10. Trace(letter[s], pc[s], facts[s], rows[s])'
  BY <1>1, <1>2, <1>7 DEF Trace, Unscanned, Looking, Weighing, Pipe!Row, Pipe!Stages
<1>11. Outcome(letter[s], pc[s], facts[s], rows[s], verdict[s])'
  BY <1>1, <1>2 DEF ScanInv, Outcome, PipeJudged, Weighing
<1>12. Accounted(letter[s], pc[s], rows[s], verdict[s], writes[s], stored[s], selectors[s])'
  <2>1. letter[s].stateless => selectors'[s] = selectors[s]
    BY DEF Pipe!Start, Pipe!TypeOK
  <2> QED BY <1>1, <1>2, <2>1 DEF ScanInv, Accounted, Attempted, Outcome, PipeJudged
<1> QED BY <1>8, <1>9, <1>10, <1>11, <1>12 DEF ScanInv

\* The DKIM observations keep the invariant, whenever they land.
LEMMA ObservedKept ==
  ASSUME PipelineConstants, Pipe!TypeOK, NEW s \in ScanIds, ScanInv(s), Pipe!Observed(s)
  PROVE  Pipe!TypeOK' /\ ScanInv(s)'
<1>1. /\ UNCHANGED <<letter, pc, facts, rows, verdict, writes, stored, reputation, graph>>
      /\ selectors[s] = "sent"
  BY DEF Pipe!Observed
<1>2. selectors' \in [ScanIds -> {"none", "sent", "landed", "lost"}]
  BY DEF Pipe!Observed, Pipe!TypeOK
<1>3. Pipe!TypeOK'
  BY <1>1, <1>2 DEF Pipe!TypeOK
<1>4. Accounted(letter[s], pc[s], rows[s], verdict[s], writes[s], stored[s], selectors[s])'
  BY <1>1 DEF ScanInv, Accounted
<1> QED BY <1>1, <1>3, <1>4 DEF ScanInv

\* One link's answer keeps the match the best tier heard.
LEMMA LookUpKept ==
  ASSUME PipelineConstants, Pipe!TypeOK, NEW s \in ScanIds, ScanInv(s), Pipe!LookUp(s)
  PROVE  Pipe!TypeOK' /\ ScanInv(s)'
<1> DEFINE f == facts[s]
<1>1. /\ UNCHANGED <<letter, pc, rows, verdict, writes, stored, reputation, graph, selectors>>
      /\ pc[s] = "intel" /\ f.at <= letter[s].links
  BY DEF Pipe!LookUp, Pipe!Box
<1>2. PICK hit \in Pipe!Hits :
         facts' = [facts EXCEPT ![s] =
           [facts[s] EXCEPT
                     !.feeds = facts[s].feeds \cup hit.feeds,
                     !.heard = facts[s].heard \cup {hit.tier},
                     !.match = IF hit.tier = "confirmed" THEN "confirmed"
                               ELSE Pipe!better(facts[s].match, hit.tier),
                     !.at = IF hit.tier = "confirmed" THEN letter[s].links + 1
                            ELSE facts[s].at + 1]]
  BY DEF Pipe!LookUp
<1> DEFINE g == facts'[s]
<1>3. f \in Pipe!FoundRecords /\ letter[s].links \in Nat
  BY LetterType DEF Pipe!LetterRecords
<1>4. hit.tier \in Pipe!Tiers /\ hit.feeds \subseteq Feeds
  BY DEF Pipe!Hits, Pipe!Tiers
<1>5. g = [f EXCEPT !.feeds = f.feeds \cup hit.feeds, !.heard = f.heard \cup {hit.tier},
                     !.match = IF hit.tier = "confirmed" THEN "confirmed"
                               ELSE Pipe!better(f.match, hit.tier),
                     !.at = IF hit.tier = "confirmed" THEN letter[s].links + 1 ELSE f.at + 1]
  BY <1>2 DEF Pipe!TypeOK
<1>6. /\ g.feeds = f.feeds \cup hit.feeds /\ g.heard = f.heard \cup {hit.tier}
      /\ g.match = IF hit.tier = "confirmed" THEN "confirmed" ELSE Pipe!better(f.match, hit.tier)
      /\ g.at = IF hit.tier = "confirmed" THEN letter[s].links + 1 ELSE f.at + 1
      /\ g.policy = f.policy /\ g.rep = f.rep /\ g.prior = f.prior /\ g.llm = f.llm
  BY <1>3, <1>5 DEF Pipe!FoundRecords
<1>7. g.match \in Pipe!Tiers /\ g.at \in Nat
  BY <1>3, <1>4, <1>6 DEF Pipe!better, Pipe!Tiers, Pipe!FoundRecords
<1>8. g \in Pipe!FoundRecords
  BY <1>3, <1>4, <1>5, <1>6, <1>7 DEF Pipe!FoundRecords
<1>9. Pipe!TypeOK'
  BY <1>1, <1>2, <1>8 DEF Pipe!TypeOK
<1>10. Knows(letter[s], pc[s], facts[s])'
  <2>1. Knows(letter[s], pc[s], f)
    BY DEF ScanInv
  <2>2. "confirmed" \notin f.heard /\ f.match # "confirmed"
    BY <1>1, <1>3, <2>1 DEF Knows, Pipe!FoundRecords
  <2>3. g.match = "confirmed" <=> "confirmed" \in g.heard
    BY <1>4, <1>6, <2>1, <2>2 DEF Knows, Pipe!better, Pipe!Tiers
  <2>4. g.match = "derived" <=> "derived" \in g.heard /\ "confirmed" \notin g.heard
    BY <1>3, <1>4, <1>6, <2>1, <2>2 DEF Knows, Pipe!better, Pipe!Tiers, Pipe!FoundRecords
  <2>5. g.match = "none" <=> g.heard \subseteq {"none"}
    BY <1>3, <1>4, <1>6, <2>1, <2>2 DEF Knows, Pipe!better, Pipe!Tiers, Pipe!FoundRecords
  <2>6. "confirmed" \in g.heard => g.at > letter[s].links
    BY <1>3, <1>6, <2>2
  <2>7. pc'[s] = "intel" /\ letter'[s] = letter[s]
    BY <1>1
  <2>8. f.policy \in Policies /\ f.llm = 0
    BY <1>1, <2>1 DEF Knows, Unscanned, Looking
  <2> QED BY <1>6, <2>3, <2>4, <2>5, <2>6, <2>7, <2>8 DEF Knows
<1>11. Trace(letter[s], pc[s], facts[s], rows[s])'
  <2>1. Trace(letter[s], "intel", f, rows[s])
    BY <1>1 DEF ScanInv
  <2>2. Trace(letter[s], "intel", g, rows[s])
    BY <2>1 DEF Trace, Unscanned, Looking, Weighing
  <2> QED BY <1>1, <2>2
<1>12. Outcome(letter[s], pc[s], facts[s], rows[s], verdict[s])'
  BY <1>1 DEF ScanInv, Outcome, PipeJudged, Weighing
<1> QED BY <1>1, <1>9, <1>10, <1>11, <1>12 DEF ScanInv

\* The end of the intel stage keeps the invariant.
LEMMA LookedUpKept ==
  ASSUME PipelineConstants, Pipe!TypeOK, NEW s \in ScanIds, ScanInv(s), Pipe!LookedUp(s)
  PROVE  Pipe!TypeOK' /\ ScanInv(s)'
<1>1. /\ UNCHANGED <<letter, facts, verdict, writes, stored, reputation, graph, selectors>>
      /\ pc[s] = "intel" /\ pc'[s] = "reputation" /\ pc' \in [ScanIds -> Pipe!Places]
  BY DEF Pipe!LookedUp, Pipe!At, Pipe!Box, Pipe!TypeOK, Pipe!Places
<1>2. rows' = [rows EXCEPT ![s] = Pipe!measure(rows[s], "intel")]
  BY DEF Pipe!LookedUp
<1>3. rows[s] \in Pipe!Traces /\ rows'[s] = Pipe!measure(rows[s], "intel")
  BY <1>2, LetterType DEF Pipe!TypeOK
<1>4. /\ rows'[s] \in Pipe!Traces
      /\ \A i \in Pipe!Stages : rows'[s][i] = IF i = "intel" THEN Pipe!Row("ok", rows[s][i].contrib)
                                        ELSE rows[s][i]
  <2> DEFINE r == rows[s]  q == rows'[s]
  <2>1. r \in Pipe!Traces /\ q = Pipe!measure(r, "intel")
    BY <1>3
  <2> HIDE DEF r, q
  <2>2. \A i \in Pipe!Stages : q[i] = IF i = "intel" THEN Pipe!Row("ok", r[i].contrib) ELSE r[i]
    BY <2>1, Measured, StageNames
  <2>3. q \in Pipe!Traces
    <3>1. 0 \in Int
      OBVIOUS
    <3> QED BY <2>1, <3>1, TracerType, StageNames
  <2> QED BY <2>2, <2>3 DEF r, q
<1>5. Pipe!TypeOK'
  BY <1>1, <1>2, <1>4 DEF Pipe!TypeOK
<1>6. Knows(letter[s], pc[s], facts[s])'
  BY <1>1 DEF ScanInv, Knows, Unscanned, Looking
<1>7. Trace(letter[s], pc[s], facts[s], rows[s])'
  <2>1. Trace(letter[s], "intel", facts[s], rows[s])
    BY <1>1 DEF ScanInv
  <2>2. Trace(letter[s], "reputation", facts[s], rows'[s])
    BY <2>1, <1>4, RowFields DEF Trace, Unscanned, Looking, Weighing, Pipe!Stages
  <2> QED BY <1>1, <2>2
<1>8. Outcome(letter[s], pc[s], facts[s], rows[s], verdict[s])'
  BY <1>1 DEF ScanInv, Outcome, PipeJudged, Weighing
<1>9. Accounted(letter[s], pc[s], rows[s], verdict[s], writes[s], stored[s], selectors[s])'
  BY <1>1 DEF ScanInv, Accounted, Attempted, Outcome, PipeJudged
<1> QED BY <1>5, <1>6, <1>7, <1>8, <1>9 DEF ScanInv

\* Reading the sender's history keeps the invariant.
LEMMA ReadKept ==
  ASSUME PipelineConstants, Pipe!TypeOK, NEW s \in ScanIds, ScanInv(s), Pipe!ReadReputation(s)
  PROVE  Pipe!TypeOK' /\ ScanInv(s)'
<1> DEFINE f == facts[s]  rep == IF Pipe!Asks(s) THEN reputation[letter[s].sender] ELSE None
<1>1. /\ UNCHANGED <<letter, verdict, writes, stored, reputation, graph, selectors>>
      /\ pc[s] = "reputation" /\ pc'[s] = "prior" /\ pc' \in [ScanIds -> Pipe!Places]
  BY DEF Pipe!ReadReputation, Pipe!At, Pipe!Box, Pipe!TypeOK, Pipe!Places
<1>2. rows' = [rows EXCEPT ![s] = Pipe!measure(rows[s], "reputation")]
  BY DEF Pipe!ReadReputation
<1>3. rows[s] \in Pipe!Traces /\ rows'[s] = Pipe!measure(rows[s], "reputation")
  BY <1>2, LetterType DEF Pipe!TypeOK
<1>4. /\ rows'[s] \in Pipe!Traces
      /\ \A i \in Pipe!Stages : rows'[s][i] = IF i = "reputation" THEN Pipe!Row("ok", rows[s][i].contrib)
                                        ELSE rows[s][i]
  <2> DEFINE r == rows[s]  q == rows'[s]
  <2>1. r \in Pipe!Traces /\ q = Pipe!measure(r, "reputation")
    BY <1>3
  <2> HIDE DEF r, q
  <2>2. \A i \in Pipe!Stages : q[i] = IF i = "reputation" THEN Pipe!Row("ok", r[i].contrib) ELSE r[i]
    BY <2>1, Measured, StageNames
  <2>3. q \in Pipe!Traces
    <3>1. 0 \in Int
      OBVIOUS
    <3> QED BY <2>1, <3>1, TracerType, StageNames
  <2> QED BY <2>2, <2>3 DEF r, q
<1>5. rep \in Pipe!HistoryRecords \cup {None}
  BY LetterType DEF Pipe!Asks, Pipe!TypeOK, Pipe!LetterRecords
<1>6. facts' = [facts EXCEPT ![s].rep = rep]
  BY DEF Pipe!ReadReputation
<1>7. facts'[s] = [f EXCEPT !.rep = rep]
  BY <1>6 DEF Pipe!TypeOK
<1>8. /\ facts'[s] \in Pipe!FoundRecords
      /\ facts'[s].policy = f.policy /\ facts'[s].match = f.match /\ facts'[s].heard = f.heard
      /\ facts'[s].at = f.at /\ facts'[s].llm = f.llm
  <2>1. f \in Pipe!FoundRecords
    BY LetterType
  <2> HIDE DEF f, rep
  <2> QED BY <2>1, <1>5, <1>7 DEF Pipe!FoundRecords
<1>9. Pipe!TypeOK'
  BY <1>1, <1>2, <1>4, <1>6, <1>7, <1>8 DEF Pipe!TypeOK
<1>10. Knows(letter[s], pc[s], facts[s])'
  BY <1>1, <1>8 DEF ScanInv, Knows, Unscanned, Looking
<1>11. Trace(letter[s], pc[s], facts[s], rows[s])'
  <2>1. Trace(letter[s], "reputation", f, rows[s])
    BY <1>1 DEF ScanInv
  <2> HIDE DEF f
  <2>2. Trace(letter[s], "prior", facts'[s], rows'[s])
    BY <2>1, <1>4, RowFields DEF Trace, Unscanned, Looking, Weighing, Pipe!Stages
  <2> QED BY <1>1, <2>2
<1>12. Outcome(letter[s], pc[s], facts[s], rows[s], verdict[s])'
  BY <1>1 DEF ScanInv, Outcome, PipeJudged, Weighing
<1>13. Accounted(letter[s], pc[s], rows[s], verdict[s], writes[s], stored[s], selectors[s])'
  BY <1>1 DEF ScanInv, Accounted, Attempted, Outcome, PipeJudged
<1> QED BY <1>9, <1>10, <1>11, <1>12, <1>13 DEF ScanInv

\* A mailbox that does not answer keeps the invariant: the scan wrote nothing.
LEMMA FailKept ==
  ASSUME PipelineConstants, Pipe!TypeOK, NEW s \in ScanIds, ScanInv(s), Pipe!ReputationFails(s)
  PROVE  Pipe!TypeOK' /\ ScanInv(s)'
<1>1. /\ UNCHANGED <<letter, facts, verdict, writes, stored, reputation, graph, selectors>>
      /\ pc[s] = "reputation" /\ pc'[s] = "failed" /\ pc' \in [ScanIds -> Pipe!Places]
  BY DEF Pipe!ReputationFails, Pipe!At, Pipe!Box, Pipe!TypeOK, Pipe!Places
<1>2. rows' \in [ScanIds -> Pipe!Traces]
  BY LetterType, TracerType DEF Pipe!ReputationFails, Pipe!TypeOK, Pipe!Stages
<1>3. Pipe!TypeOK'
  BY <1>1, <1>2 DEF Pipe!TypeOK
<1>4. Knows(letter[s], pc[s], facts[s])'
  BY <1>1 DEF ScanInv, Knows, Unscanned, Looking
<1>5. Trace(letter[s], pc[s], facts[s], rows[s])'
  BY <1>1 DEF Trace, Unscanned, Looking, Weighing
<1>6. Outcome(letter[s], pc[s], facts[s], rows[s], verdict[s])'
  BY <1>1 DEF ScanInv, Outcome, PipeJudged, Weighing
<1>7. Accounted(letter[s], pc[s], rows[s], verdict[s], writes[s], stored[s], selectors[s])'
  BY <1>1 DEF ScanInv, Accounted, Attempted, Outcome, PipeJudged
<1> QED BY <1>3, <1>4, <1>5, <1>6, <1>7 DEF ScanInv

\* The CTI prior and the reputation row keep the invariant.
LEMMA AskKept ==
  ASSUME PipelineConstants, Pipe!TypeOK, NEW s \in ScanIds, ScanInv(s), Pipe!AskCti(s)
  PROVE  Pipe!TypeOK' /\ ScanInv(s)'
<1> DEFINE f == facts[s]
<1>1. /\ UNCHANGED <<letter, verdict, writes, stored, reputation, graph, selectors>>
      /\ pc[s] = "prior" /\ pc'[s] = "detect" /\ pc' \in [ScanIds -> Pipe!Places]
  BY DEF Pipe!AskCti, Pipe!At, Pipe!Box, Pipe!TypeOK, Pipe!Places
<1>2. PICK p \in CtiPriors \cup {None} :
         /\ facts' = [facts EXCEPT ![s].prior = p]
         /\ rows' = [rows EXCEPT ![s] =
                       Pipe!setContrib(rows[s], "reputation", Pipe!scoreReputation(f.rep, p))]
  BY DEF Pipe!AskCti
<1>3. Pipe!scoreReputation(f.rep, p) \in Nat
  BY ReputationType, LetterType DEF Pipe!FoundRecords
<1>4. rows[s] \in Pipe!Traces /\ rows'[s] = Pipe!setContrib(rows[s], "reputation", Pipe!scoreReputation(f.rep, p))
  BY <1>2, LetterType DEF Pipe!TypeOK
<1>5. /\ rows'[s] \in Pipe!Traces
      /\ \A i \in Pipe!Stages : rows'[s][i] = IF i = "reputation"
                                        THEN Pipe!Row(rows[s][i].status, Pipe!scoreReputation(f.rep, p))
                                        ELSE rows[s][i]
  <2> DEFINE n == Pipe!scoreReputation(f.rep, p)
  <2>1. n \in Int
    BY <1>3
  <2>2. rows'[s] = Pipe!setContrib(rows[s], "reputation", n)
    BY <1>4
  <2> HIDE DEF n
  <2>3. rows'[s] \in Pipe!Traces
    BY <1>4, <2>1, <2>2, TracerType, StageNames
  <2>4. \A i \in Pipe!Stages : rows'[s][i] = IF i = "reputation" THEN Pipe!Row(rows[s][i].status, n)
                                       ELSE rows[s][i]
    BY <1>4, <2>1, <2>2, Contributed, StageNames
  <2> QED BY <2>3, <2>4 DEF n
<1>6. facts'[s] = [f EXCEPT !.prior = p]
  BY <1>2 DEF Pipe!TypeOK
<1>7. /\ facts'[s] \in Pipe!FoundRecords
      /\ facts'[s].policy = f.policy /\ facts'[s].match = f.match /\ facts'[s].heard = f.heard
      /\ facts'[s].at = f.at /\ facts'[s].llm = f.llm /\ facts'[s].rep = f.rep
      /\ facts'[s].prior = p
  <2>1. f \in Pipe!FoundRecords
    BY LetterType
  <2> HIDE DEF f
  <2> QED BY <2>1, <1>6 DEF Pipe!FoundRecords
<1>8. Pipe!TypeOK'
  <2>1. facts' \in [ScanIds -> Pipe!FoundRecords]
    BY <1>2, <1>6, <1>7 DEF Pipe!TypeOK
  <2>2. rows' \in [ScanIds -> Pipe!Traces]
    BY <1>2, <1>4, <1>5 DEF Pipe!TypeOK
  <2> QED BY <1>1, <2>1, <2>2 DEF Pipe!TypeOK
<1>9. Knows(letter[s], pc[s], facts[s])'
  BY <1>1, <1>7 DEF ScanInv, Knows, Unscanned, Looking
<1>10. Trace(letter[s], pc[s], facts[s], rows[s])'
  <2>1. Trace(letter[s], "prior", f, rows[s])
    BY <1>1 DEF ScanInv
  <2>2. Pipe!scoreReputation(facts'[s].rep, facts'[s].prior) = Pipe!scoreReputation(f.rep, p)
    BY <1>7
  <2> DEFINE g == facts'[s]
  <2> HIDE DEF f, g
  <2>3. Trace(letter[s], "detect", g, rows'[s])
    BY <2>1, <2>2, <1>5, RowFields DEF Trace, Unscanned, Looking, Weighing, Pipe!Stages, g
  <2> QED BY <1>1, <2>3 DEF g
<1>11. Outcome(letter[s], pc[s], facts[s], rows[s], verdict[s])'
  BY <1>1 DEF ScanInv, Outcome, PipeJudged, Weighing
<1>12. Accounted(letter[s], pc[s], rows[s], verdict[s], writes[s], stored[s], selectors[s])'
  BY <1>1 DEF ScanInv, Accounted, Attempted, Outcome, PipeJudged
<1> QED BY <1>8, <1>9, <1>10, <1>11, <1>12 DEF ScanInv

\* The two detectors touch one number each.
LEMMA DetectorsKept ==
  ASSUME PipelineConstants, Pipe!TypeOK, NEW s \in ScanIds, ScanInv(s), Pipe!Detect(s) \/ Pipe!CompareOwnDomains(s)
  PROVE  Pipe!TypeOK' /\ ScanInv(s)'
<1> DEFINE f == facts[s]
<1>1. /\ UNCHANGED <<letter, rows, verdict, writes, stored, reputation, graph, selectors>>
      /\ pc[s] \in {"detect", "lookalike"} /\ pc'[s] \in {"lookalike", "triage"}
      /\ pc' \in [ScanIds -> Pipe!Places]
  BY DEF Pipe!Detect, Pipe!CompareOwnDomains, Pipe!At, Pipe!Box, Pipe!TypeOK, Pipe!Places
<1>2. \/ \E n \in {0, 10, 15, 25} : facts' = [facts EXCEPT ![s].detector = n]
      \/ \E n \in 0..25 : facts' = [facts EXCEPT ![s].lookalike = n]
  <2>1. letter[s].lookalike \in 0..25
    BY LetterType DEF Pipe!LetterRecords
  <2>2. CASE Pipe!Detect(s)
    <3>1. Pipe!detectorScore(letter[s].name, letter[s].sender) \in {0, 10, 15, 25}
      BY DEF Pipe!detectorScore
    <3>2. PICK n \in {0, Pipe!detectorScore(letter[s].name, letter[s].sender)} :
               facts' = [facts EXCEPT ![s].detector = n]
      BY <2>2 DEF Pipe!Detect
    <3>3. n \in {0, 10, 15, 25}
      BY <3>1, <3>2
    <3> QED BY <3>2, <3>3
  <2>3. CASE Pipe!CompareOwnDomains(s)
    <3>1. PICK n \in {0, letter[s].lookalike} : facts' = [facts EXCEPT ![s].lookalike = n]
      BY <2>3 DEF Pipe!CompareOwnDomains
    <3>2. n \in 0..25
      BY <2>1, <3>1
    <3> QED BY <3>1, <3>2
  <2> QED BY <2>2, <2>3
<1>3. \/ \E n \in {0, 10, 15, 25} : facts'[s] = [f EXCEPT !.detector = n]
      \/ \E n \in 0..25 : facts'[s] = [f EXCEPT !.lookalike = n]
  BY <1>2 DEF Pipe!TypeOK
<1>4. /\ facts'[s] \in Pipe!FoundRecords
      /\ facts'[s].policy = f.policy /\ facts'[s].match = f.match /\ facts'[s].heard = f.heard
      /\ facts'[s].at = f.at /\ facts'[s].llm = f.llm /\ facts'[s].rep = f.rep
      /\ facts'[s].prior = f.prior
  <2>1. f \in Pipe!FoundRecords
    BY LetterType
  <2> HIDE DEF f
  <2> QED BY <2>1, <1>3 DEF Pipe!FoundRecords
<1>5. facts' \in [ScanIds -> Pipe!FoundRecords]
  BY <1>2, <1>4 DEF Pipe!TypeOK
<1>6. Pipe!TypeOK'
  BY <1>1, <1>5 DEF Pipe!TypeOK
<1>7. Knows(letter[s], pc[s], facts[s])'
  BY <1>1, <1>4 DEF ScanInv, Knows, Unscanned, Looking
<1>8. Trace(letter[s], pc[s], facts[s], rows[s])'
  <2>1. Trace(letter[s], pc[s], f, rows[s])
    BY DEF ScanInv
  <2>2. Pipe!scoreReputation(facts'[s].rep, facts'[s].prior) = Pipe!scoreReputation(f.rep, f.prior)
    BY <1>4
  <2> DEFINE g == facts'[s]
  <2> HIDE DEF f, g
  <2>3. Trace(letter[s], pc'[s], g, rows[s])
    BY <2>1, <2>2, <1>1 DEF Trace, Unscanned, Looking, Weighing, g
  <2> QED BY <1>1, <2>3 DEF g
<1>9. Outcome(letter[s], pc[s], facts[s], rows[s], verdict[s])'
  BY <1>1 DEF ScanInv, Outcome, PipeJudged, Weighing
<1>10. Accounted(letter[s], pc[s], rows[s], verdict[s], writes[s], stored[s], selectors[s])'
  BY <1>1 DEF ScanInv, Accounted, Attempted, Outcome, PipeJudged
<1> QED BY <1>6, <1>7, <1>8, <1>9, <1>10 DEF ScanInv

\* A letter no triage tier answers keeps the invariant.
LEMMA PassKept ==
  ASSUME PipelineConstants, Pipe!TypeOK, NEW s \in ScanIds, ScanInv(s), Pipe!PassTriage(s)
  PROVE  Pipe!TypeOK' /\ ScanInv(s)'
<1>1. /\ UNCHANGED <<letter, facts, verdict, writes, stored, reputation, graph, selectors>>
      /\ pc[s] = "triage" /\ pc'[s] = "llm" /\ pc' \in [ScanIds -> Pipe!Places]
      /\ Pipe!TierOf(letter[s], facts[s]) = "none"
  BY DEF Pipe!PassTriage, Pipe!At, Pipe!Box, Pipe!TypeOK, Pipe!Places
<1>2. rows' = [rows EXCEPT ![s] = Pipe!measure(rows[s], "triage")]
  BY DEF Pipe!PassTriage
<1>3. rows[s] \in Pipe!Traces /\ rows'[s] = Pipe!measure(rows[s], "triage")
  BY <1>2, LetterType DEF Pipe!TypeOK
<1>4. /\ rows'[s] \in Pipe!Traces
      /\ \A i \in Pipe!Stages : rows'[s][i] = IF i = "triage" THEN Pipe!Row("ok", rows[s][i].contrib)
                                        ELSE rows[s][i]
  <2> DEFINE r == rows[s]  q == rows'[s]
  <2>1. r \in Pipe!Traces /\ q = Pipe!measure(r, "triage")
    BY <1>3
  <2> HIDE DEF r, q
  <2>2. \A i \in Pipe!Stages : q[i] = IF i = "triage" THEN Pipe!Row("ok", r[i].contrib) ELSE r[i]
    BY <2>1, Measured, StageNames
  <2>3. q \in Pipe!Traces
    <3>1. 0 \in Int
      OBVIOUS
    <3> QED BY <2>1, <3>1, TracerType, StageNames
  <2> QED BY <2>2, <2>3 DEF r, q
<1>5. Pipe!TypeOK'
  BY <1>1, <1>2, <1>4 DEF Pipe!TypeOK
<1>6. Knows(letter[s], pc[s], facts[s])'
  BY <1>1 DEF ScanInv, Knows, Unscanned, Looking
<1>7. Trace(letter[s], pc[s], facts[s], rows[s])'
  <2>1. Trace(letter[s], "triage", facts[s], rows[s])
    BY <1>1 DEF ScanInv
  <2> DEFINE r == rows[s]  q == rows'[s]
  <2>2. r["triage"] = Pipe!Row("skipped", 0)
    BY <2>1 DEF Trace, Looking
  <2>3. q["triage"] = Pipe!Row("ok", 0)
    BY <2>2, <1>4, RowFields, StageNames
  <2>4. \A i \in Pipe!Stages \ {"triage"} : q[i] = r[i]
    BY <1>4
  <2> HIDE DEF r, q
  <2>5. Trace(letter[s], "llm", facts[s], q)
    BY <2>1, <2>3, <2>4, RowFields DEF Trace, Unscanned, Looking, Weighing, Pipe!Stages, r
  <2> QED BY <1>1, <2>5 DEF q
<1>8. Outcome(letter[s], pc[s], facts[s], rows[s], verdict[s])'
  BY <1>1 DEF ScanInv, Outcome, PipeJudged
<1>9. Accounted(letter[s], pc[s], rows[s], verdict[s], writes[s], stored[s], selectors[s])'
  BY <1>1 DEF ScanInv, Accounted, Attempted, Outcome, PipeJudged
<1> QED BY <1>5, <1>6, <1>7, <1>8, <1>9 DEF ScanInv

\* The learning cap and the demotion change the action, never the score.
LEMMA CapType ==
  ASSUME PipelineConstants, NEW v \in Pipe!Verdicts, NEW f, NEW p
  PROVE  /\ Pipe!LearningCap(v, p) \in Pipe!Verdicts /\ Pipe!LearningCap(v, p).score = v.score
         /\ Pipe!ConfidenceDemote(v, f, p) \in Pipe!Verdicts /\ Pipe!ConfidenceDemote(v, f, p).score = v.score
BY DEF Pipe!LearningCap, Pipe!ConfidenceDemote, Pipe!Verdicts, Pipe!Actions

\* A triage tier that answers keeps the invariant: its row tells the verdict.
LEMMA ShortKept ==
  ASSUME PipelineConstants, Pipe!TypeOK, NEW s \in ScanIds, ScanInv(s), Pipe!ShortCircuit(s)
  PROVE  Pipe!TypeOK' /\ ScanInv(s)'
<1> DEFINE m == letter[s]  f == facts[s]  tier == Pipe!TierOf(m, f)
           v == Pipe!LearningCap(Pipe!TriageVerdict(tier), f.policy)  r == rows[s]  q == rows'[s]
           r1 == Pipe!measure(r, "triage")  r2 == Pipe!shortCircuitTriage(r1, v.score)
           r3 == Pipe!setContrib(r2, "intel", 0)
<1>1. /\ UNCHANGED <<letter, facts, writes, stored, reputation, graph, selectors>>
      /\ pc[s] = "triage" /\ pc'[s] = (IF m.stateless THEN "done" ELSE "store")
      /\ pc' \in [ScanIds -> Pipe!Places] /\ tier # "none"
      /\ verdict' = [verdict EXCEPT ![s] = v]
      /\ rows' = [rows EXCEPT ![s] = Pipe!completeVerdict(r3, v.score)]
  BY DEF Pipe!ShortCircuit, Pipe!At, Pipe!Box, Pipe!TypeOK, Pipe!Places
<1>2. verdict'[s] = v /\ q = Pipe!completeVerdict(r3, v.score) /\ r \in Pipe!Traces
  BY <1>1, LetterType DEF Pipe!TypeOK
<1>3. Pipe!TriageVerdict(tier) \in Pipe!Verdicts
  BY DEF Pipe!TriageVerdict, Pipe!Verdicts, Pipe!Actions, Pipe!MaxScore
<1>4. v \in Pipe!Verdicts /\ v # None /\ v.score \in Int
  <2>1. v \in Pipe!Verdicts
    BY <1>3, CapType
  <2> QED BY <2>1 DEF Pipe!Verdicts, PipelineConstants, Pipe!MaxScore
<1>5. Pipe!TierOf(m, f) # "none" /\ v = Pipe!SyncVerdict(Pipe!FactsOf(m, f), f.policy)
  BY <1>1 DEF Pipe!SyncVerdict, Pipe!TierOf
<1> HIDE DEF v, r, tier
<1>6. r1 \in Pipe!Traces /\ r2 \in Pipe!Traces /\ r3 \in Pipe!Traces /\ Pipe!completeVerdict(r3, v.score) \in Pipe!Traces
  <2>0. 0 \in Int
    OBVIOUS
  <2>1. r1 \in Pipe!Traces
    BY <1>2, <2>0, TracerType, StageNames
  <2>2. r2 \in Pipe!Traces
    BY <2>1, <1>4, TracerType, StageNames
  <2>3. r3 \in Pipe!Traces
    BY <2>2, <2>0, TracerType, StageNames
  <2> QED BY <2>1, <2>2, <2>3, <1>4, TracerType, StageNames
<1>7. /\ q["verdict"] = Pipe!Row("ok", v.score) /\ q["triage"] = Pipe!Row("short_circuited", v.score)
      /\ q["intel"].contrib = 0 /\ q["intel"].status = r["intel"].status
      /\ \A i \in Pipe!Stages \ {"verdict", "triage", "intel"} : q[i] = r[i]
  <2>0. 0 \in Int
    OBVIOUS
  <2>1. \A i \in Pipe!Stages : r1[i] = IF i = "triage" THEN Pipe!Row("ok", r[i].contrib) ELSE r[i]
    BY <1>2, Measured, StageNames
  <2>2. \A i \in Pipe!Stages : r2[i] = IF i = "triage" THEN Pipe!Row("short_circuited", v.score) ELSE r1[i]
    BY <1>4, <1>6, Closed
  <2>3. \A i \in Pipe!Stages : r3[i] = IF i = "intel" THEN Pipe!Row(r2[i].status, 0) ELSE r2[i]
    BY <2>0, <1>6, Contributed, StageNames
  <2>4. \A i \in Pipe!Stages : q[i] = IF i = "verdict" THEN Pipe!Row("ok", v.score) ELSE r3[i]
    BY <1>2, <1>4, <1>6, Closed
  <2> HIDE DEF r1, r2, r3, q
  <2> QED BY <2>1, <2>2, <2>3, <2>4, RowFields, StageNames
<1>8. Pipe!TypeOK'
  <2>1. verdict' \in [ScanIds -> Pipe!Verdicts \cup {None}]
    BY <1>1, <1>4 DEF Pipe!TypeOK
  <2>2. rows' \in [ScanIds -> Pipe!Traces]
    BY <1>1, <1>6 DEF Pipe!TypeOK
  <2> QED BY <1>1, <2>1, <2>2 DEF Pipe!TypeOK
<1>9. Knows(letter[s], pc[s], facts[s])'
  BY <1>1 DEF ScanInv, Knows, Unscanned, Looking, PipeJudged
<1>10. Trace(m, "triage", f, r)
  BY <1>1 DEF ScanInv, r
<1>11. \A i \in Pipe!Stages : q[i].status # "failed"
  <2> TAKE i \in Pipe!Stages
  <2>1. r[i].status # "failed"
    BY <1>10 DEF Trace
  <2> HIDE DEF q
  <2> QED BY <1>7, <2>1, RowFields
<1>12. q["llm"] = Pipe!Row("skipped", 0) /\ q["auth"] = r["auth"]
  <2>1. r["llm"] = Pipe!Row("skipped", 0)
    BY <1>10 DEF Trace, Looking
  <2> QED BY <1>7, <2>1, StageNames
<1>13. Trace(letter[s], pc[s], facts[s], rows[s])'
  <2>1. r["auth"].contrib = m.auth
    BY <1>10 DEF Trace, Unscanned
  <2>2. \A p \in {"done", "store"} : Trace(m, p, f, q)
    BY <2>1, <1>11, <1>12 DEF Trace, Unscanned, Looking, Weighing
  <2> QED BY <1>1, <2>2
<1>14. Outcome(letter[s], pc[s], facts[s], rows[s], verdict[s])'
  <2>1. Tells(m, f, q, v)
    BY <1>5, <1>7, <1>11, <1>12 DEF Tells
  <2>2. AddsUp(m, f, q, v)
    <3>1. q["triage"].contrib = v.score /\ q["llm"].contrib = 0 /\ q["intel"].contrib = 0
      BY <1>4, <1>7, <1>12, RowFields
    <3>2. /\ q["auth"].contrib = m.auth /\ q["url"].contrib = m.url
          /\ q["reputation"].contrib = Pipe!scoreReputation(f.rep, f.prior)
      BY <1>7, <1>10, StageNames DEF Trace, Unscanned, Looking
    <3> QED BY <3>1, <3>2, <1>4, <1>5 DEF AddsUp
  <2>3. \A p \in {"done", "store"} : Outcome(m, p, f, q, v)
    BY <2>1, <2>2, <1>4, <1>5 DEF Outcome, PipeJudged, Weighing
  <2> QED BY <1>1, <1>2, <2>3
<1>15. Accounted(letter[s], pc[s], rows[s], verdict[s], writes[s], stored[s], selectors[s])'
  <2>1. verdict[s] = None
    BY <1>1 DEF ScanInv, Outcome, PipeJudged
  <2>2. Accounted(m, "triage", r, None, writes[s], stored[s], selectors[s])
    BY <2>1, <1>1 DEF ScanInv, r
  <2>3. Accounted(m, IF m.stateless THEN "done" ELSE "store", q, v, writes[s], stored[s], selectors[s])
    BY <2>2, <1>4 DEF Accounted, Attempted
  <2> QED BY <1>1, <1>2, <2>3
<1> QED BY <1>8, <1>9, <1>13, <1>14, <1>15 DEF ScanInv

\* The classifier stage, skipped or not, keeps the invariant.
LEMMA ClassifyKept ==
  ASSUME PipelineConstants, Pipe!TypeOK, NEW s \in ScanIds, ScanInv(s), Pipe!Classify(s)
  PROVE  Pipe!TypeOK' /\ ScanInv(s)'
<1> DEFINE m == letter[s]  f == facts[s]  g == facts'[s]  r == rows[s]  q == rows'[s]
<1>1. /\ UNCHANGED <<letter, verdict, writes, stored, reputation, graph, selectors>>
      /\ pc[s] = "llm" /\ pc'[s] = "verdict" /\ pc' \in [ScanIds -> Pipe!Places]
  BY DEF Pipe!Classify, Pipe!At, Pipe!Box, Pipe!TypeOK, Pipe!Places
<1>2. /\ Knows(m, "llm", f) /\ Trace(m, "llm", f, r) /\ Pipe!TierOf(m, f) = "none"
      /\ f \in Pipe!FoundRecords /\ r \in Pipe!Traces
  BY <1>1, LetterType DEF ScanInv, Outcome, Weighing
<1>3. \/ facts' = facts /\ rows' = [rows EXCEPT ![s] = Pipe!markSkipped(r, "llm")]
      \/ \E n \in Nat : /\ facts' = [facts EXCEPT ![s].llm = n]
                        /\ rows' = [rows EXCEPT ![s] = Pipe!setContrib(Pipe!measure(r, "llm"), "llm", n)]
  BY DEF Pipe!Classify, PipelineConstants
<1>4. \/ g = f /\ q = Pipe!markSkipped(r, "llm")
      \/ \E n \in Nat : g = [f EXCEPT !.llm = n] /\ q = Pipe!setContrib(Pipe!measure(r, "llm"), "llm", n)
  <2>1. CASE facts' = facts /\ rows' = [rows EXCEPT ![s] = Pipe!markSkipped(r, "llm")]
    BY <2>1 DEF Pipe!TypeOK
  <2>2. CASE \E n \in Nat : /\ facts' = [facts EXCEPT ![s].llm = n]
                           /\ rows' = [rows EXCEPT ![s] = Pipe!setContrib(Pipe!measure(r, "llm"), "llm", n)]
    <3>1. PICK n \in Nat : /\ facts' = [facts EXCEPT ![s].llm = n]
                          /\ rows' = [rows EXCEPT ![s] = Pipe!setContrib(Pipe!measure(r, "llm"), "llm", n)]
      BY <2>2
    <3>2. g = [f EXCEPT !.llm = n]
      BY <3>1 DEF Pipe!TypeOK
    <3>3. q = Pipe!setContrib(Pipe!measure(r, "llm"), "llm", n)
      BY <3>1 DEF Pipe!TypeOK
    <3> QED BY <3>2, <3>3
  <2> QED BY <1>3, <2>1, <2>2
<1> HIDE DEF f, g, r, q
<1>5. /\ g \in Pipe!FoundRecords /\ g.llm \in Nat
      /\ g.policy = f.policy /\ g.match = f.match /\ g.heard = f.heard /\ g.at = f.at
      /\ g.rep = f.rep /\ g.prior = f.prior
  BY <1>2, <1>4 DEF Pipe!FoundRecords
<1>6. /\ q \in Pipe!Traces
      /\ q["llm"].contrib = g.llm /\ q["llm"].status # "failed"
      /\ \A i \in Pipe!Stages \ {"llm"} : q[i] = r[i]
  <2>1. CASE g = f /\ q = Pipe!markSkipped(r, "llm")
    <3>0. 0 \in Int
      OBVIOUS
    <3>1. q \in Pipe!Traces
      BY <1>2, <2>1, <3>0, TracerType, StageNames
    <3>2. \A i \in Pipe!Stages : q[i] = IF i = "llm" THEN Pipe!Row("skipped", 0) ELSE r[i]
      BY <1>2, <2>1, <3>0, Closed
    <3>3. g.llm = 0
      BY <1>2, <2>1 DEF Knows
    <3> QED BY <3>1, <3>2, <3>3, RowFields, StageNames
  <2>2. CASE \E n \in Nat : g = [f EXCEPT !.llm = n] /\ q = Pipe!setContrib(Pipe!measure(r,
        "llm"), "llm", n)
    <3>1. PICK n \in Nat : g = [f EXCEPT !.llm = n] /\ q = Pipe!setContrib(Pipe!measure(r, "llm"), "llm", n)
      BY <2>2
    <3> DEFINE t == Pipe!measure(r, "llm")
    <3>2. n \in Int /\ t \in Pipe!Traces
      BY <1>2, TracerType, StageNames
    <3>3. q \in Pipe!Traces
      BY <3>1, <3>2, TracerType, StageNames
    <3>4. \A i \in Pipe!Stages : t[i] = IF i = "llm" THEN Pipe!Row("ok", r[i].contrib) ELSE r[i]
      BY <1>2, Measured, StageNames
    <3>5. q = Pipe!setContrib(t, "llm", n)
      BY <3>1
    <3> HIDE DEF t
    <3>6. \A i \in Pipe!Stages : q[i] = IF i = "llm" THEN Pipe!Row(t[i].status, n) ELSE t[i]
      BY <3>2, <3>5, Contributed, StageNames
    <3>7. g.llm = n
      BY <3>1, <1>2 DEF Pipe!FoundRecords
    <3> QED BY <3>3, <3>4, <3>6, <3>7, RowFields, StageNames
  <2> QED BY <1>4, <2>1, <2>2
<1>7. Pipe!TypeOK'
  <2>1. facts' \in [ScanIds -> Pipe!FoundRecords]
    BY <1>3, <1>5 DEF Pipe!TypeOK, g
  <2>2. rows' \in [ScanIds -> Pipe!Traces]
    BY <1>3, <1>6 DEF Pipe!TypeOK, q
  <2> QED BY <1>1, <2>1, <2>2 DEF Pipe!TypeOK
<1>8. Knows(m, "verdict", g)
  BY <1>2, <1>5 DEF Knows, Unscanned, Looking
<1>9. Trace(m, "verdict", g, q)
  <2>1. Pipe!scoreReputation(g.rep, g.prior) = Pipe!scoreReputation(f.rep, f.prior)
    BY <1>5
  <2>2. \A i \in Pipe!Stages : q[i].status # "failed"
    BY <1>2, <1>6 DEF Trace
  <2> QED BY <1>2, <1>6, <2>1, <2>2, StageNames DEF Trace, Unscanned, Looking, Weighing
<1>10. Pipe!TierOf(m, g) = "none"
  BY <1>2, <1>5, TierKept
<1>11. Outcome(letter[s], pc[s], facts[s], rows[s], verdict[s])'
  <2>1. verdict[s] = None
    BY <1>1 DEF ScanInv, Outcome, PipeJudged
  <2> QED BY <1>1, <1>10, <2>1 DEF Outcome, PipeJudged, g
<1>12. Accounted(letter[s], pc[s], rows[s], verdict[s], writes[s], stored[s], selectors[s])'
  BY <1>1 DEF ScanInv, Accounted, Attempted, Outcome, PipeJudged
<1> QED BY <1>1, <1>7, <1>8, <1>9, <1>11, <1>12 DEF ScanInv, g, q

\* The aggregation and its boosts reach SyncVerdict and rows that add up.
LEMMA ConcludeKept ==
  ASSUME PipelineConstants, Pipe!TypeOK, NEW s \in ScanIds, ScanInv(s), Pipe!Conclude(s)
  PROVE  Pipe!TypeOK' /\ ScanInv(s)'
<1> DEFINE m == letter[s]  f == facts[s]  g == facts'[s]  r == rows[s]  q == rows'[s]  w == verdict'[s]
           o == Pipe!FactsOf(m, f)  l == f.lookalike
<1>1. /\ UNCHANGED <<letter, writes, stored, reputation, graph, selectors>>
      /\ pc[s] = "verdict" /\ pc'[s] = (IF m.stateless THEN "done" ELSE "store")
      /\ pc' \in [ScanIds -> Pipe!Places]
  BY DEF Pipe!Conclude, Pipe!At, Pipe!Box, Pipe!TypeOK, Pipe!Places
<1>2. /\ Knows(m, "verdict", f) /\ Trace(m, "verdict", f, r) /\ Pipe!TierOf(m, f) = "none"
      /\ f \in Pipe!FoundRecords /\ r \in Pipe!Traces /\ m \in Pipe!LetterRecords
  BY <1>1, LetterType DEF ScanInv, Outcome, Weighing
<1>3. PICK h \in {0, 10}, c \in BOOLEAN :
        LET capped == Pipe!LearningCap(Pipe!Boosted(o, h, f.detector, l), f.policy)
            v == Pipe!ConfidenceDemote(capped, [o EXCEPT !.confident = c], f.policy)
            named == IF o.intel = "none" THEN r
                     ELSE Pipe!setContrib(r, "intel", Pipe!IntelBoost(o.intel) + Pipe!IntelFloor(o))
            linked == IF l > 0 THEN Pipe!setContrib(named, "url", m.url + l) ELSE named
        IN  /\ facts' = [facts EXCEPT ![s] = [f EXCEPT !.hours = h, !.confident = c]]
            /\ verdict' = [verdict EXCEPT ![s] = v]
            /\ rows' = [rows EXCEPT ![s] = Pipe!completeVerdict(Pipe!measure(linked, "verdict"), v.score)]
  BY DEF Pipe!Conclude
<1> DEFINE b == Pipe!Boosted(o, h, f.detector, l)
           capped == Pipe!LearningCap(b, f.policy)
           v == Pipe!ConfidenceDemote(capped, [o EXCEPT !.confident = c], f.policy)
           k == Pipe!IntelBoost(o.intel) + Pipe!IntelFloor(o)
           named == IF o.intel = "none" THEN r ELSE Pipe!setContrib(r, "intel", k)
           linked == IF l > 0 THEN Pipe!setContrib(named, "url", m.url + l) ELSE named
           closed == Pipe!measure(linked, "verdict")
<1>4. /\ g = [f EXCEPT !.hours = h, !.confident = c]
      /\ w = v /\ q = Pipe!completeVerdict(closed, v.score)
  <2>1. g = [f EXCEPT !.hours = h, !.confident = c]
    BY <1>3 DEF Pipe!TypeOK
  <2>2. w = v
    BY <1>3 DEF Pipe!TypeOK
  <2>3. q = Pipe!completeVerdict(closed, v.score)
    BY <1>3 DEF Pipe!TypeOK
  <2> QED BY <2>1, <2>2, <2>3
<1>5. Weighed(o) /\ o.intel = f.match
  BY <1>2, FactsType DEF Pipe!FactsOf
<1>6. l \in Nat /\ f.detector \in Nat /\ h \in Nat
  BY <1>2 DEF Pipe!FoundRecords
<1>7. /\ b = Pipe!Boost(Pipe!Corroborate(Pipe!IntelApplied(o), o), h + f.detector + l) /\ b \in Judgements
      /\ Pipe!IntelBoost(o.intel) \in Nat /\ Pipe!IntelFloor(o) \in Nat
      /\ Pipe!IntelApplied(o) = Pipe!Boost(Pipe!Aggregate(o.aggregate), Pipe!IntelBoost(o.intel))
      /\ Pipe!Corroborate(Pipe!IntelApplied(o), o) = Pipe!Boost(Pipe!IntelApplied(o), Pipe!IntelFloor(o))
  <2> HIDE DEF o, l
  <2> QED BY <1>5, <1>6, BoostedAtOnce, IntelJudged
<1>8. v \in Pipe!Verdicts /\ v.score = b.score /\ v # None /\ v.score \in Int
  <2>1. b \in Pipe!Verdicts
    BY <1>7 DEF Judgements
  <2> HIDE DEF b
  <2>2. capped \in Pipe!Verdicts /\ capped.score = b.score
    BY <2>1, CapType
  <2> HIDE DEF capped
  <2>3. v \in Pipe!Verdicts /\ v.score = capped.score
    BY <2>2, CapType
  <2> QED BY <2>2, <2>3 DEF Pipe!Verdicts, PipelineConstants, Pipe!MaxScore
<1>9. /\ g \in Pipe!FoundRecords
      /\ g.policy = f.policy /\ g.match = f.match /\ g.heard = f.heard /\ g.at = f.at
      /\ g.rep = f.rep /\ g.prior = f.prior /\ g.llm = f.llm /\ g.feeds = f.feeds
      /\ g.detector = f.detector /\ g.lookalike = l /\ g.hours = h /\ g.confident = c
  <2> HIDE DEF f, g
  <2> QED BY <1>2, <1>4 DEF Pipe!FoundRecords
<1>10. Pipe!TierOf(m, g) = "none"
  BY <1>2, <1>9, TierKept
<1>11. v = Pipe!SyncVerdict(Pipe!FactsOf(m, g), f.policy)
  <2> DEFINE e == Pipe!FactsOf(m, g)
  <2>1. /\ e.aggregate = o.aggregate /\ e.intel = o.intel /\ e.derivedFeeds = o.derivedFeeds
        /\ e.boosts = h + f.detector + l /\ e.confident = c
    BY <1>9 DEF Pipe!FactsOf
  <2>2. [o EXCEPT !.confident = c].confident = c
    BY DEF Pipe!FactsOf
  <2>3. Pipe!TriageTier(e, f.policy) = "none"
    BY <1>10, <1>9 DEF Pipe!TierOf
  <2> HIDE DEF e, o, l, f
  <2>4. Pipe!Corroborate(Pipe!IntelApplied(o), e) = Pipe!Corroborate(Pipe!IntelApplied(o), o)
    BY <2>1 DEF Pipe!Corroborate
  <2>5. Pipe!Boost(Pipe!Corroborate(Pipe!Boost(Pipe!Aggregate(e.aggregate), Pipe!IntelBoost(e.intel)), e), e.boosts) = b
    BY <1>7, <2>1, <2>4
  <2>6. Pipe!FullVerdict(e, f.policy) = Pipe!ConfidenceDemote(capped, e, f.policy)
    BY <2>5 DEF Pipe!FullVerdict
  <2>7. Pipe!ConfidenceDemote(capped, e, f.policy) = v
    BY <2>1, <2>2 DEF Pipe!ConfidenceDemote
  <2> QED BY <2>3, <2>6, <2>7 DEF Pipe!SyncVerdict, e
<1>12. m.url \in Nat /\ m.auth \in Int /\ k \in Nat
  BY <1>2, <1>7 DEF Pipe!LetterRecords
<1> HIDE DEF b, capped, v, o, l, f, r, k
<1>13. /\ named \in Pipe!Traces
       /\ \A i \in Pipe!Stages : named[i] = IF i = "intel" /\ o.intel # "none" THEN Pipe!Row(r[i].status, k)
                                     ELSE r[i]
  <2>1. CASE o.intel = "none"
    BY <2>1, <1>2
  <2>2. CASE o.intel # "none"
    <3>1. k \in Int
      BY <1>12
    <3>2. named = Pipe!setContrib(r, "intel", k)
      BY <2>2
    <3> HIDE DEF named
    <3>3. named \in Pipe!Traces
      BY <1>2, <3>1, <3>2, TracerType, StageNames
    <3>4. \A i \in Pipe!Stages : named[i] = IF i = "intel" THEN Pipe!Row(r[i].status, k) ELSE r[i]
      BY <1>2, <3>1, <3>2, Contributed, StageNames
    <3> QED BY <2>2, <3>3, <3>4
  <2> QED BY <2>1, <2>2
<1> HIDE DEF named
<1>14. /\ linked \in Pipe!Traces
       /\ \A i \in Pipe!Stages : linked[i] = IF i = "url" /\ l > 0 THEN Pipe!Row(named[i].status, m.url + l)
                                      ELSE named[i]
  <2>1. CASE ~(l > 0)
    BY <2>1, <1>13
  <2>2. CASE l > 0
    <3> DEFINE n == m.url + l
    <3>1. n \in Int
      BY <1>6, <1>12
    <3>2. linked = Pipe!setContrib(named, "url", n)
      BY <2>2
    <3> HIDE DEF linked, n
    <3>3. linked \in Pipe!Traces
      BY <1>13, <3>1, <3>2, TracerType, StageNames
    <3>4. \A i \in Pipe!Stages : linked[i] = IF i = "url" THEN Pipe!Row(named[i].status, n) ELSE named[i]
      BY <1>13, <3>1, <3>2, Contributed, StageNames
    <3> QED BY <2>2, <3>3, <3>4 DEF n
  <2> QED BY <2>1, <2>2
<1> HIDE DEF linked
<1>15. /\ closed \in Pipe!Traces
       /\ \A i \in Pipe!Stages : closed[i] = IF i = "verdict" THEN Pipe!Row("ok", linked[i].contrib)
                                      ELSE linked[i]
  <2>0. 0 \in Int
    OBVIOUS
  <2>1. closed \in Pipe!Traces
    BY <1>14, <2>0, TracerType, StageNames
  <2> QED BY <1>14, <2>1, Measured, StageNames
<1> HIDE DEF closed
<1>16. /\ q \in Pipe!Traces
       /\ \A i \in Pipe!Stages : q[i] = IF i = "verdict" THEN Pipe!Row("ok", v.score) ELSE closed[i]
  <2>1. q \in Pipe!Traces
    BY <1>4, <1>8, <1>15, TracerType, StageNames
  <2> QED BY <1>4, <1>8, <1>15, <2>1, Closed
<1> HIDE DEF q
<1>17. /\ q["verdict"] = Pipe!Row("ok", v.score)
       /\ \A i \in {"auth", "reputation", "triage", "llm"} : q[i] = r[i]
  BY <1>13, <1>14, <1>15, <1>16, StageNames
<1>18. q["url"].contrib = m.url + l /\ q["url"].status = r["url"].status
  <2>1. r["url"].contrib = m.url
    BY <1>2 DEF Trace, Weighing
  <2>2. named["url"] = r["url"] /\ q["url"] = linked["url"]
    BY <1>13, <1>15, <1>16, StageNames
  <2>3. CASE l > 0
    BY <2>2, <2>3, <1>14, RowFields, StageNames
  <2>4. CASE ~(l > 0)
    BY <2>1, <2>2, <2>4, <1>6, <1>12, <1>14, StageNames
  <2> QED BY <2>3, <2>4
<1>19. q["intel"].contrib = k /\ q["intel"].status = r["intel"].status
  <2>1. q["intel"] = named["intel"]
    BY <1>14, <1>15, <1>16, StageNames
  <2>2. CASE o.intel # "none"
    BY <2>1, <2>2, <1>13, RowFields, StageNames
  <2>3. CASE o.intel = "none"
    <3>1. r["intel"].contrib = 0
      BY <1>2 DEF Trace, Weighing
    <3>2. k = 0
      BY <2>3 DEF k, Pipe!IntelBoost, Pipe!IntelFloor
    <3> QED BY <2>1, <2>3, <3>1, <3>2, <1>13, StageNames
  <2> QED BY <2>2, <2>3
<1>20. /\ r["auth"].contrib = m.auth /\ r["reputation"].contrib = Pipe!scoreReputation(f.rep, f.prior)
       /\ r["triage"] = Pipe!Row("ok", 0) /\ r["llm"].contrib = f.llm
       /\ \A i \in Pipe!Stages : r[i].status # "failed"
  BY <1>2 DEF Trace, Unscanned, Weighing
<1>21. \A i \in Pipe!Stages : q[i].status # "failed"
  <2> TAKE i \in Pipe!Stages
  <2>1. CASE i = "verdict"
    BY <2>1, <1>17, RowFields
  <2>2. CASE i \in {"auth", "reputation", "triage", "llm"}
    BY <2>2, <1>17, <1>20
  <2>3. CASE i \in {"url", "intel"}
    BY <2>3, <1>18, <1>19, <1>20
  <2> QED BY <2>1, <2>2, <2>3 DEF Pipe!Stages
<1>22. Pipe!TypeOK'
  <2>1. facts' \in [ScanIds -> Pipe!FoundRecords]
    BY <1>3, <1>9 DEF Pipe!TypeOK, g
  <2>2. rows' \in [ScanIds -> Pipe!Traces]
    BY <1>3, <1>16 DEF Pipe!TypeOK, q
  <2>3. verdict' \in [ScanIds -> Pipe!Verdicts \cup {None}]
    BY <1>3, <1>4, <1>8 DEF Pipe!TypeOK
  <2> QED BY <1>1, <2>1, <2>2, <2>3 DEF Pipe!TypeOK
<1>23. \A p \in {"done", "store"} : Knows(m, p, g)
  <2> HIDE DEF g
  <2> QED BY <1>2, <1>9 DEF Knows, Unscanned, Looking
<1>24. \A p \in {"done", "store"} : Trace(m, p, g, q)
  BY <1>17, <1>20, <1>21 DEF Trace, Unscanned, Looking, Weighing
<1>25. Tells(m, g, q, v)
  BY <1>10, <1>17, <1>20, <1>21 DEF Tells
<1>26. AddsUp(m, g, q, v)
  <2> DEFINE x == Pipe!scoreReputation(f.rep, f.prior)  ib == Pipe!IntelBoost(o.intel)
             fl == Pipe!IntelFloor(o)  unlisted == h + f.detector + l
  <2>1. /\ x \in Nat /\ f.llm \in Nat /\ m.rest \in Int
        /\ ib \in Nat /\ fl \in Nat /\ unlisted \in Nat
    <3>1. x \in Nat /\ f.llm \in Nat
      BY <1>2, ReputationType DEF Pipe!FoundRecords
    <3>2. m.rest \in Int
      BY <1>2 DEF Pipe!LetterRecords
    <3> QED BY <3>1, <3>2, <1>6, <1>7
  <2>2. q["auth"].contrib = m.auth /\ q["reputation"].contrib = x /\ q["llm"].contrib = f.llm
    BY <1>17, <1>20
  <2>3. o.aggregate = m.auth + m.url + x + f.llm + m.rest
    BY DEF o, Pipe!FactsOf
  <2> HIDE DEF x, ib, fl, unlisted
  <2>4. o.aggregate \in Int
    BY <2>1, <2>3, <1>12
  <2>5. v.score = Pipe!AtMostMax(Pipe!AtMostMax(Pipe!AtMostMax(Pipe!Clamp(o.aggregate) + ib) + fl)
                                   + unlisted)
    <3> DEFINE a == Pipe!Aggregate(o.aggregate)
    <3>1. a \in Judgements /\ a.score = Pipe!Clamp(o.aggregate)
      BY <2>4, AggregateJudged
    <3>2. b = Pipe!Boost(Pipe!Boost(Pipe!Boost(a, ib), fl), unlisted)
      BY <1>7 DEF ib, fl, unlisted
    <3> HIDE DEF a
    <3>3. Pipe!Boost(a, ib) \in Judgements /\ Pipe!Boost(a, ib).score = Pipe!AtMostMax(a.score + ib)
      BY <3>1, <2>1, BoostJudged
    <3>4. /\ Pipe!Boost(Pipe!Boost(a, ib), fl) \in Judgements
          /\ Pipe!Boost(Pipe!Boost(a, ib), fl).score = Pipe!AtMostMax(Pipe!Boost(a, ib).score + fl)
      BY <3>3, <2>1, BoostJudged
    <3>5. b.score = Pipe!AtMostMax(Pipe!Boost(Pipe!Boost(a, ib), fl).score + unlisted)
      BY <3>2, <3>4, <2>1, BoostJudged
    <3> QED BY <3>1, <3>3, <3>4, <3>5, <1>8
  <2>6. Pipe!AtMostMax(Pipe!AtMostMax(Pipe!AtMostMax(Pipe!Clamp(o.aggregate) + ib) + fl) + unlisted)
        = Pipe!AtMostMax(Pipe!Clamp(o.aggregate) + (ib + fl) + unlisted)
    BY <2>1, <2>4 DEF Pipe!AtMostMax, Pipe!Clamp, Pipe!MaxScore
  <2>7. q["url"].contrib = m.url + l /\ q["intel"].contrib = ib + fl
    BY <1>18, <1>19 DEF k, ib, fl
  <2> DEFINE weighed == q["auth"].contrib + (q["url"].contrib - l)
                          + q["reputation"].contrib + q["llm"].contrib
  <2>8. weighed + m.rest = o.aggregate
    BY <2>1, <2>2, <2>3, <2>7, <1>6, <1>12
  <2> HIDE DEF weighed
  <2>9. Pipe!Clamp(o.aggregate) + (ib + fl) + unlisted
        = Pipe!Clamp(weighed + m.rest) + q["intel"].contrib + h + f.detector + l
    <3>1. Pipe!Clamp(o.aggregate) \in Int
      BY <2>4 DEF Pipe!Clamp, Pipe!AtMostMax, Pipe!MaxScore
    <3> QED BY <3>1, <2>1, <2>7, <2>8, <1>6 DEF unlisted
  <2>10. v.score = Pipe!AtMostMax(Pipe!Clamp(weighed + m.rest) + q["intel"].contrib
                                    + h + f.detector + l)
    BY <2>5, <2>6, <2>9
  <2> QED BY <2>10, <1>9, <1>10 DEF AddsUp, weighed
<1>27. \A p \in {"done", "store"} : Outcome(m, p, g, q, v)
  BY <1>8, <1>9, <1>11, <1>25, <1>26 DEF Outcome, PipeJudged, Weighing
<1>28. Accounted(letter[s], pc[s], rows[s], verdict[s], writes[s], stored[s], selectors[s])'
  <2>1. verdict[s] = None
    BY <1>1 DEF ScanInv, Outcome, PipeJudged
  <2>2. Accounted(m, "verdict", r, None, writes[s], stored[s], selectors[s])
    BY <2>1, <1>1 DEF ScanInv, r
  <2>3. Accounted(m, IF m.stateless THEN "done" ELSE "store", q, v, writes[s], stored[s], selectors[s])
    BY <2>2, <1>8 DEF Accounted, Attempted
  <2> QED BY <1>1, <1>4, <2>3 DEF q
<1>29. Knows(letter[s], pc[s], facts[s])' /\ Trace(letter[s], pc[s], facts[s], rows[s])'
  BY <1>1, <1>23, <1>24 DEF g, q
<1>30. Outcome(letter[s], pc[s], facts[s], rows[s], verdict[s])'
  BY <1>1, <1>4, <1>27 DEF g, q
<1> QED BY <1>22, <1>28, <1>29, <1>30 DEF ScanInv

(* The four writes. *)

\* A write is attempted once, where it is owed, and no other with it.
LEMMA AttemptType ==
  ASSUME Pipe!TypeOK, NEW s \in ScanIds, NEW x \in Pipe!Writes, NEW ok \in BOOLEAN, Pipe!Attempt(s, x, ok)
  PROVE  /\ writes' \in [ScanIds -> [Pipe!Writes -> {"unwritten", "landed", "lost"}]]
         /\ \A t \in ScanIds, y \in Pipe!Writes :
              t # s \/ y # x => writes'[t][y] = writes[t][y]
         /\ writes'[s][x] = IF ~Pipe!Due(s, x) THEN writes[s][x] ELSE IF ok THEN "landed" ELSE "lost"
<1> DEFINE n == IF ~Pipe!Due(s, x) THEN writes[s][x] ELSE IF ok THEN "landed" ELSE "lost"
<1>1. writes' = [writes EXCEPT ![s][x] = n]
  BY DEF Pipe!Attempt
<1>2. n \in {"unwritten", "landed", "lost"}
  BY DEF Pipe!TypeOK
<1> HIDE DEF n
<1>3. writes \in [ScanIds -> [Pipe!Writes -> {"unwritten", "landed", "lost"}]]
  BY DEF Pipe!TypeOK
<1>4. writes' \in [ScanIds -> [Pipe!Writes -> {"unwritten", "landed", "lost"}]]
  BY <1>1, <1>2, <1>3
<1>5. \A t \in ScanIds, y \in Pipe!Writes : t # s \/ y # x => writes'[t][y] = writes[t][y]
  BY <1>1, <1>3
<1>6. writes'[s][x] = n
  BY <1>1, <1>3
<1> QED BY <1>4, <1>5, <1>6 DEF n

\* The invariant and the model mean the same writes.
LEMMA OwesIsDue == \A s \in ScanIds, x \in Pipe!Writes : Pipe!Due(s, x) <=> Owes(letter[s], x)
BY DEF Pipe!Due, Owes

\* Storing the verdict keeps the invariant: what is stored is what was told.
LEMMA PersistKept ==
  ASSUME PipelineConstants, Pipe!TypeOK, NEW s \in ScanIds, ScanInv(s), Pipe!PersistVerdict(s)
  PROVE  Pipe!TypeOK' /\ ScanInv(s)'
<1> DEFINE m == letter[s]
<1>1. /\ UNCHANGED <<letter, facts, rows, verdict, reputation, graph, selectors>>
      /\ pc[s] = "store" /\ pc'[s] = "urls" /\ pc' \in [ScanIds -> Pipe!Places]
  BY DEF Pipe!PersistVerdict, Pipe!At, Pipe!TypeOK, Pipe!Places
<1>2. PICK ok \in BOOLEAN :
        /\ Pipe!Attempt(s, "verdict", ok)
        /\ stored' = [stored EXCEPT ![s] =
             IF ok THEN [verdict |-> verdict[s], rows |-> rows[s]] ELSE @]
  BY DEF Pipe!PersistVerdict
<1>3. /\ Accounted(m, "store", rows[s], verdict[s], writes[s], stored[s], selectors[s])
      /\ Outcome(m, "store", facts[s], rows[s], verdict[s])
  BY <1>1 DEF ScanInv
<1>4. verdict[s] \in Pipe!Verdicts /\ rows[s] \in Pipe!Traces /\ verdict[s] # None /\ ~m.stateless
  BY <1>3, LetterType DEF Outcome, PipeJudged, Accounted, PipelineConstants
<1>5. /\ stored'[s] = IF ok THEN [verdict |-> verdict[s], rows |-> rows[s]] ELSE stored[s]
      /\ stored' \in [ScanIds -> [verdict : Pipe!Verdicts, rows : Pipe!Traces] \cup {None}]
  BY <1>2, <1>4 DEF Pipe!TypeOK
<1>6. /\ writes' \in [ScanIds -> [Pipe!Writes -> {"unwritten", "landed", "lost"}]]
      /\ writes'[s]["verdict"] # "unwritten"
      /\ \A x \in Pipe!Writes \ {"verdict"} : writes'[s][x] = writes[s][x]
  BY <1>2, AttemptType DEF Pipe!Writes, Pipe!Due
<1>7. Pipe!TypeOK'
  BY <1>1, <1>5, <1>6 DEF Pipe!TypeOK
<1>8. Knows(letter[s], pc[s], facts[s])'
  BY <1>1 DEF ScanInv, Knows, Unscanned, Looking
<1>9. Trace(letter[s], pc[s], facts[s], rows[s])'
  BY <1>1 DEF ScanInv, Trace, Unscanned, Looking, Weighing
<1>10. Outcome(letter[s], pc[s], facts[s], rows[s], verdict[s])'
  BY <1>1, <1>3 DEF Outcome, PipeJudged, Weighing
<1>11. \A x \in Pipe!Writes : writes'[s][x] # "unwritten" <=> x \in {"verdict"} /\ Owes(m, x)
  <2> TAKE x \in Pipe!Writes
  <2>1. CASE x = "verdict"
    BY <2>1, <1>6 DEF Owes
  <2>2. CASE x # "verdict"
    BY <2>2, <1>3, <1>4, <1>6 DEF Accounted, Attempted
  <2> QED BY <2>1, <2>2
<1>12. Accounted(m, "urls", rows[s], verdict[s], writes'[s], stored'[s], selectors[s])
  BY <1>3, <1>4, <1>5, <1>11 DEF Accounted, Attempted
<1> QED BY <1>1, <1>7, <1>8, <1>9, <1>10, <1>12 DEF ScanInv

\* The insert of the links keeps the invariant.
LEMMA UrlsKept ==
  ASSUME PipelineConstants, Pipe!TypeOK, NEW s \in ScanIds, ScanInv(s), Pipe!InsertUrls(s)
  PROVE  Pipe!TypeOK' /\ ScanInv(s)'
<1> DEFINE m == letter[s]
<1>1. /\ UNCHANGED <<letter, facts, rows, verdict, stored, reputation, graph, selectors>>
      /\ pc[s] = "urls" /\ pc'[s] = "history" /\ pc' \in [ScanIds -> Pipe!Places]
  BY DEF Pipe!InsertUrls, Pipe!At, Pipe!TypeOK, Pipe!Places
<1>2. PICK ok \in BOOLEAN : Pipe!Attempt(s, "urls", ok)
  BY DEF Pipe!InsertUrls
<1>3. Accounted(m, "urls", rows[s], verdict[s], writes[s], stored[s], selectors[s])
  BY <1>1 DEF ScanInv
<1>4. ~m.stateless
  BY <1>3 DEF Accounted
<1>5. /\ writes' \in [ScanIds -> [Pipe!Writes -> {"unwritten", "landed", "lost"}]]
      /\ writes'[s]["urls"] # "unwritten" <=> writes[s]["urls"] # "unwritten" \/ Owes(m, "urls")
      /\ \A x \in Pipe!Writes \ {"urls"} : writes'[s][x] = writes[s][x]
  BY <1>2, AttemptType, OwesIsDue DEF Pipe!Writes
<1>6. Pipe!TypeOK'
  BY <1>1, <1>5 DEF Pipe!TypeOK
<1>7. Knows(letter[s], pc[s], facts[s])'
  BY <1>1 DEF ScanInv, Knows, Unscanned, Looking
<1>8. Trace(letter[s], pc[s], facts[s], rows[s])'
  BY <1>1 DEF ScanInv, Trace, Unscanned, Looking, Weighing
<1>9. Outcome(letter[s], pc[s], facts[s], rows[s], verdict[s])'
  BY <1>1 DEF ScanInv, Outcome, PipeJudged, Weighing
<1>10. \A x \in Pipe!Writes : writes'[s][x] # "unwritten" <=> x \in {"verdict", "urls"} /\ Owes(m, x)
  <2> TAKE x \in Pipe!Writes
  <2>1. writes[s][x] # "unwritten" <=> x \in {"verdict"} /\ Owes(m, x)
    BY <1>3, <1>4 DEF Accounted, Attempted
  <2> QED BY <2>1, <1>5
<1>11. Accounted(m, "history", rows[s], verdict[s], writes'[s], stored[s], selectors[s])
  BY <1>3, <1>4, <1>10 DEF Accounted, Attempted
<1> QED BY <1>1, <1>6, <1>7, <1>8, <1>9, <1>11 DEF ScanInv

\* A sender's history grows by one message.
LEMMA GrownType ==
  ASSUME NEW h, h = None \/ h \in Pipe!HistoryRecords, NEW n \in Nat
  PROVE  Pipe!grown(h, n) \in Pipe!HistoryRecords /\ Pipe!grown(h, n).count = Pipe!Count(h) + 1
<1>1. CASE h = None
  BY <1>1 DEF Pipe!grown, Pipe!HistoryRecords, Pipe!Count
<1>2. CASE h # None
  <2>1. h \in Pipe!HistoryRecords
    BY <1>2
  <2>2. /\ h = [count |-> h.count, total |-> h.total, flagged |-> h.flagged]
        /\ h.count \in Nat /\ h.total \in Nat /\ h.flagged \in BOOLEAN
    BY <2>1 DEF Pipe!HistoryRecords
  <2>3. Pipe!grown(h, n) = [h EXCEPT !.count = h.count + 1, !.total = h.total + n]
    BY <1>2 DEF Pipe!grown
  <2>4. Pipe!Count(h) = h.count
    BY <1>2 DEF Pipe!Count
  <2>5. Pipe!grown(h, n) = [count |-> h.count + 1, total |-> h.total + n, flagged |-> h.flagged]
    BY <2>2, <2>3
  <2>6. h.count + 1 \in Nat /\ h.total + n \in Nat
    BY <2>2
  <2> QED BY <2>2, <2>4, <2>5, <2>6 DEF Pipe!HistoryRecords
<1> QED BY <1>1, <1>2

\* The update of the history keeps the invariant of its scan.
LEMMA HistoryKept ==
  ASSUME PipelineConstants, Pipe!TypeOK, NEW s \in ScanIds, ScanInv(s), Pipe!UpdateHistory(s)
  PROVE  Pipe!TypeOK' /\ ScanInv(s)'
<1> DEFINE m == letter[s]
<1>1. /\ UNCHANGED <<letter, facts, rows, verdict, stored, graph, selectors>>
      /\ pc[s] = "history" /\ pc'[s] = "graph" /\ pc' \in [ScanIds -> Pipe!Places]
  BY DEF Pipe!UpdateHistory, Pipe!At, Pipe!TypeOK, Pipe!Places
<1>2. PICK ok \in BOOLEAN :
        /\ Pipe!Attempt(s, "reputation", ok)
        /\ IF ok /\ Pipe!Due(s, "reputation") THEN Pipe!upsertSenderReputation(m.sender, verdict[s].score)
           ELSE UNCHANGED reputation
  BY DEF Pipe!UpdateHistory
<1>3. Accounted(m, "history", rows[s], verdict[s], writes[s], stored[s], selectors[s])
  BY <1>1 DEF ScanInv
<1>4. ~m.stateless
  BY <1>3 DEF Accounted
<1>5. /\ writes' \in [ScanIds -> [Pipe!Writes -> {"unwritten", "landed", "lost"}]]
      /\ writes'[s]["reputation"] # "unwritten"
           <=> writes[s]["reputation"] # "unwritten" \/ Owes(m, "reputation")
      /\ \A x \in Pipe!Writes \ {"reputation"} : writes'[s][x] = writes[s][x]
  BY <1>2, AttemptType, OwesIsDue DEF Pipe!Writes
<1>6. reputation' \in [Addresses -> Pipe!HistoryRecords \cup {None}]
  <2>1. verdict[s].score \in Nat
    <3>1. verdict[s] # None
      BY <1>1 DEF ScanInv, Outcome, PipeJudged
    <3> QED BY <3>1, LetterType DEF Pipe!Verdicts, Pipe!MaxScore
  <2>2. reputation \in [Addresses -> Pipe!HistoryRecords \cup {None}]
    BY DEF Pipe!TypeOK
  <2>3. CASE Pipe!upsertSenderReputation(m.sender, verdict[s].score)
    <3> DEFINE new == Pipe!grown(reputation[m.sender], verdict[s].score)
    <3>1. reputation' = [reputation EXCEPT ![m.sender] = new]
      BY <2>3 DEF Pipe!upsertSenderReputation
    <3>2. m.sender \in Addresses => new \in Pipe!HistoryRecords
      <4> SUFFICES ASSUME m.sender \in Addresses PROVE new \in Pipe!HistoryRecords
        OBVIOUS
      <4>1. reputation[m.sender] = None \/ reputation[m.sender] \in Pipe!HistoryRecords
        BY <2>2
      <4> QED BY <2>1, <4>1, GrownType
    <3> HIDE DEF new
    <3> QED BY <2>2, <3>1, <3>2
  <2> QED BY <1>2, <2>2, <2>3
<1>7. Pipe!TypeOK'
  BY <1>1, <1>5, <1>6 DEF Pipe!TypeOK
<1>8. Knows(letter[s], pc[s], facts[s])'
  BY <1>1 DEF ScanInv, Knows, Unscanned, Looking
<1>9. Trace(letter[s], pc[s], facts[s], rows[s])'
  BY <1>1 DEF ScanInv, Trace, Unscanned, Looking, Weighing
<1>10. Outcome(letter[s], pc[s], facts[s], rows[s], verdict[s])'
  BY <1>1 DEF ScanInv, Outcome, PipeJudged, Weighing
<1>11. \A x \in Pipe!Writes :
         writes'[s][x] # "unwritten" <=> x \in {"verdict", "urls", "reputation"} /\ Owes(m, x)
  <2> TAKE x \in Pipe!Writes
  <2>1. writes[s][x] # "unwritten" <=> x \in {"verdict", "urls"} /\ Owes(m, x)
    BY <1>3, <1>4 DEF Accounted, Attempted
  <2> QED BY <2>1, <1>5
<1>12. Accounted(m, "graph", rows[s], verdict[s], writes'[s], stored[s], selectors[s])
  BY <1>3, <1>4, <1>11 DEF Accounted, Attempted
<1> QED BY <1>1, <1>7, <1>8, <1>9, <1>10, <1>12 DEF ScanInv

\* The update of the sender graph keeps the invariant.
LEMMA GraphKept ==
  ASSUME PipelineConstants, Pipe!TypeOK, NEW s \in ScanIds, ScanInv(s), Pipe!UpdateGraph(s)
  PROVE  Pipe!TypeOK' /\ ScanInv(s)'
<1> DEFINE m == letter[s]
<1>1. /\ UNCHANGED <<letter, facts, rows, verdict, stored, reputation, selectors>>
      /\ pc[s] = "graph" /\ pc'[s] = "done" /\ pc' \in [ScanIds -> Pipe!Places]
  BY DEF Pipe!UpdateGraph, Pipe!At, Pipe!TypeOK, Pipe!Places
<1>2. PICK ok \in BOOLEAN :
        /\ Pipe!Attempt(s, "graph", ok)
        /\ graph' = IF ok /\ Pipe!Due(s, "graph") THEN [graph EXCEPT ![<<m.name, m.sender>>] = @ + 1]
                    ELSE graph
  BY DEF Pipe!UpdateGraph
<1>3. Accounted(m, "graph", rows[s], verdict[s], writes[s], stored[s], selectors[s])
  BY <1>1 DEF ScanInv
<1>4. ~m.stateless
  BY <1>3 DEF Accounted
<1>5. /\ writes' \in [ScanIds -> [Pipe!Writes -> {"unwritten", "landed", "lost"}]]
      /\ writes'[s]["graph"] # "unwritten" <=> writes[s]["graph"] # "unwritten" \/ Owes(m, "graph")
      /\ \A x \in Pipe!Writes \ {"graph"} : writes'[s][x] = writes[s][x]
  BY <1>2, AttemptType, OwesIsDue DEF Pipe!Writes
<1>6. graph' \in [Names \X Addresses -> Nat]
  <2>1. graph \in [Names \X Addresses -> Nat]
    BY DEF Pipe!TypeOK
  <2>2. CASE graph' = [graph EXCEPT ![<<m.name, m.sender>>] = @ + 1]
    <3> DEFINE x == <<m.name, m.sender>>
    <3>1. x \in Names \X Addresses => graph[x] + 1 \in Nat
      BY <2>1
    <3>2. graph' = [graph EXCEPT ![x] = graph[x] + 1]
      BY <2>2
    <3> HIDE DEF x
    <3> QED BY <2>1, <3>1, <3>2
  <2> QED BY <1>2, <2>1, <2>2
<1>7. Pipe!TypeOK'
  BY <1>1, <1>5, <1>6 DEF Pipe!TypeOK
<1>8. Knows(letter[s], pc[s], facts[s])'
  BY <1>1 DEF ScanInv, Knows, Unscanned, Looking
<1>9. Trace(letter[s], pc[s], facts[s], rows[s])'
  BY <1>1 DEF ScanInv, Trace, Unscanned, Looking, Weighing
<1>10. Outcome(letter[s], pc[s], facts[s], rows[s], verdict[s])'
  BY <1>1 DEF ScanInv, Outcome, PipeJudged, Weighing
<1>11. \A x \in Pipe!Writes : writes'[s][x] # "unwritten" <=> x \in Pipe!Writes /\ Owes(m, x)
  <2> TAKE x \in Pipe!Writes
  <2>1. writes[s][x] # "unwritten" <=> x \in {"verdict", "urls", "reputation"} /\ Owes(m, x)
    BY <1>3, <1>4 DEF Accounted, Attempted
  <2> QED BY <2>1, <1>5 DEF Pipe!Writes
<1>12. Accounted(m, "done", rows[s], verdict[s], writes'[s], stored[s], selectors[s])
  BY <1>3, <1>4, <1>11 DEF Accounted, Attempted
<1> QED BY <1>1, <1>7, <1>8, <1>9, <1>10, <1>12 DEF ScanInv

\* Marking a sender changes its history alone.
LEMMA FlagKept ==
  ASSUME Pipe!TypeOK, NEW a \in Addresses, Pipe!FlagSender(a)
  PROVE  Pipe!TypeOK' /\ UNCHANGED <<letter, pc, facts, rows, verdict, stored, graph, selectors, writes>>
<1>1. UNCHANGED <<letter, pc, facts, rows, verdict, stored, graph, selectors, writes>>
  BY DEF Pipe!FlagSender
<1>2. reputation' \in [Addresses -> Pipe!HistoryRecords \cup {None}]
  BY DEF Pipe!FlagSender, Pipe!TypeOK, Pipe!HistoryRecords
<1> QED BY <1>1, <1>2 DEF Pipe!TypeOK

(* The history of a sender. *)

\* Only the update of the history adds to what a sender was told of.
LEMMA CountsWhenUntouched ==
  ASSUME Pipe!HistoryCounts, letter' = letter,
         \A a \in Addresses : Pipe!Count(reputation'[a]) = Pipe!Count(reputation[a]),
         \A t \in ScanIds : writes'[t]["reputation"] = writes[t]["reputation"]
  PROVE  Pipe!HistoryCounts'
<1>1. \A a \in Addresses : Pipe!Told(a)' = Pipe!Told(a)
  BY DEF Pipe!Told
<1> QED BY <1>1 DEF Pipe!HistoryCounts

\* Marking a sender counts no message.
LEMMA CountsWhenFlagged ==
  ASSUME PipelineConstants, Pipe!TypeOK, Pipe!HistoryCounts, NEW a \in Addresses, Pipe!FlagSender(a)
  PROVE  Pipe!HistoryCounts'
<1>1. letter' = letter /\ writes' = writes /\ reputation[a] # None
  BY DEF Pipe!FlagSender
<1>2. PICK b \in BOOLEAN : reputation' = [reputation EXCEPT ![a].flagged = b]
  BY DEF Pipe!FlagSender
<1>3. reputation[a] \in Pipe!HistoryRecords
  BY <1>1 DEF Pipe!TypeOK
<1>4. reputation'[a] = [reputation[a] EXCEPT !.flagged = b]
  BY <1>2 DEF Pipe!TypeOK
<1>5. reputation'[a].count = reputation[a].count /\ reputation'[a] # None
  <2>1. [reputation[a] EXCEPT !.flagged = b] \in Pipe!HistoryRecords
    BY <1>3 DEF Pipe!HistoryRecords
  <2> QED BY <1>3, <1>4, <2>1 DEF PipelineConstants, Pipe!HistoryRecords
<1>6. \A x \in Addresses \ {a} : reputation'[x] = reputation[x]
  BY <1>2 DEF Pipe!TypeOK
<1>7. \A x \in Addresses : Pipe!Count(reputation'[x]) = Pipe!Count(reputation[x])
  BY <1>1, <1>5, <1>6 DEF Pipe!Count
<1>8. \A t \in ScanIds : writes'[t]["reputation"] = writes[t]["reputation"]
  BY <1>1
<1> QED BY <1>1, <1>7, <1>8, CountsWhenUntouched

\* The update counts its own message once, whoever else counted meanwhile.
LEMMA CountsWhenUpdated ==
  ASSUME PipelineConstants, Pipe!TypeOK, Pipe!HistoryCounts, NEW s \in ScanIds, ScanInv(s), Pipe!UpdateHistory(s)
  PROVE  Pipe!HistoryCounts'
<1> DEFINE m == letter[s]
<1>1. letter' = letter /\ pc[s] = "history"
  BY DEF Pipe!UpdateHistory, Pipe!At
<1>2. PICK ok \in BOOLEAN :
        /\ Pipe!Attempt(s, "reputation", ok)
        /\ IF ok /\ Pipe!Due(s, "reputation") THEN Pipe!upsertSenderReputation(m.sender, verdict[s].score)
           ELSE UNCHANGED reputation
  BY DEF Pipe!UpdateHistory
<1>3. writes[s]["reputation"] = "unwritten"
  <2>1. Accounted(m, "history", rows[s], verdict[s], writes[s], stored[s], selectors[s])
    BY <1>1 DEF ScanInv
  <2>2. "reputation" \in Pipe!Writes /\ "reputation" \notin Attempted("history")
    BY DEF Pipe!Writes, Attempted
  <2> QED BY <2>1, <2>2 DEF Accounted
<1>4. writes' = [writes EXCEPT ![s]["reputation"] =
                   IF ~Pipe!Due(s, "reputation") THEN "unwritten" ELSE IF ok THEN "landed" ELSE "lost"]
  BY <1>2, <1>3 DEF Pipe!Attempt
<1>5. /\ writes'[s]["reputation"]
           = IF ~Pipe!Due(s, "reputation") THEN "unwritten" ELSE IF ok THEN "landed" ELSE "lost"
      /\ \A t \in ScanIds \ {s} : writes'[t] = writes[t]
  BY <1>4 DEF Pipe!TypeOK, Pipe!Writes
<1>6. CASE ~(ok /\ Pipe!Due(s, "reputation"))
  <2>1. reputation' = reputation
    BY <1>2, <1>6
  <2>2. \A a \in Addresses : Pipe!Told(a)' = Pipe!Told(a)
    BY <1>1, <1>3, <1>5, <1>6 DEF Pipe!Told
  <2> QED BY <2>1, <2>2 DEF Pipe!HistoryCounts
<1>7. CASE ok /\ Pipe!Due(s, "reputation")
  <2>1. reputation' = [reputation EXCEPT ![m.sender] = Pipe!grown(reputation[m.sender], verdict[s].score)]
    BY <1>2, <1>7 DEF Pipe!upsertSenderReputation
  <2>2. PICK x \in Addresses : x = m.sender
    BY <1>7, LetterType DEF Pipe!Due, Pipe!LetterRecords
  <2>3. Pipe!Count(reputation'[x]) = Pipe!Count(reputation[x]) + 1
    <3>1. verdict[s] # None
      BY <1>1 DEF ScanInv, Outcome, PipeJudged
    <3>2. verdict[s].score \in Nat
      BY <3>1, LetterType DEF Pipe!Verdicts, Pipe!MaxScore
    <3>3. reputation \in [Addresses -> Pipe!HistoryRecords \cup {None}]
      BY DEF Pipe!TypeOK
    <3>4. reputation[x] = None \/ reputation[x] \in Pipe!HistoryRecords
      BY <2>2, <3>3
    <3> DEFINE new == Pipe!grown(reputation[x], verdict[s].score)
    <3>5. new \in Pipe!HistoryRecords /\ new.count = Pipe!Count(reputation[x]) + 1
      BY <3>2, <3>4, GrownType
    <3>6. reputation'[x] = new
      BY <2>1, <2>2, <3>3
    <3>7. new # None
      BY <3>5 DEF PipelineConstants
    <3> HIDE DEF new
    <3> QED BY <3>5, <3>6, <3>7 DEF Pipe!Count
  <2>4. /\ Pipe!Told(x)' = Pipe!Told(x) \cup {s}
        /\ s \notin Pipe!Told(x)
        /\ \A a \in Addresses \ {x} : Pipe!Told(a)' = Pipe!Told(a)
    BY <2>2, <1>1, <1>3, <1>5, <1>7 DEF Pipe!Told
  <2>5. \A a \in Addresses : IsFiniteSet(Pipe!Told(a)) /\ Cardinality(Pipe!Told(a)) \in Nat
    BY FS_Subset, FS_CardinalityType DEF Pipe!Told, PipelineConstants
  <2>6. Cardinality(Pipe!Told(x)') = Cardinality(Pipe!Told(x)) + 1
    BY <2>2, <2>4, <2>5, FS_AddElement
  <2>7. Pipe!Count(Before[x]) \in Int
    BY <2>2 DEF Pipe!Count, PipelineConstants, Pipe!HistoryRecords
  <2>8. \A a \in Addresses \ {x} : reputation'[a] = reputation[a]
    BY <2>1, <2>2 DEF Pipe!TypeOK
  <2> SUFFICES ASSUME NEW a \in Addresses
               PROVE  Pipe!Count(reputation'[a]) = Pipe!Count(Before[a]) + Cardinality(Pipe!Told(a)')
    BY PipeCardinality DEF Pipe!HistoryCounts
  <2>9. Pipe!Count(reputation[a]) = Pipe!Count(Before[a]) + Cardinality(Pipe!Told(a))
    BY PipeCardinality DEF Pipe!HistoryCounts
  <2>10. CASE a = x
    BY <2>3, <2>5, <2>6, <2>7, <2>9, <2>10
  <2>11. CASE a # x
    BY <2>4, <2>8, <2>9, <2>11
  <2> QED BY <2>10, <2>11
<1> QED BY <1>6, <1>7

\* Every step of a scan keeps the counts of the histories.
LEMMA CountsKept ==
  ASSUME PipelineConstants, Pipe!TypeOK, Pipe!HistoryCounts, NEW s \in ScanIds, ScanInv(s), Pipe!Step(s)
  PROVE  Pipe!HistoryCounts'
<1>1. CASE Pipe!UpdateHistory(s)
  BY <1>1, CountsWhenUpdated
<1>2. CASE ~Pipe!UpdateHistory(s)
  <2>1. letter' = letter
    BY StepOnly DEF Only
  <2>2. reputation' = reputation
    <3> USE DEF Pipe!Box
    <3>1. CASE Pipe!Skip(s) \/ Pipe!Start(s) \/ Pipe!Unresolved(s) \/ Pipe!Observed(s)
          \/ Pipe!LookUp(s) \/ Pipe!LookedUp(s)
      BY <3>1 DEF Pipe!Skip, Pipe!Start, Pipe!Unresolved, Pipe!Observed, Pipe!LookUp, Pipe!LookedUp
    <3>2. CASE Pipe!ReadReputation(s) \/ Pipe!ReputationFails(s) \/ Pipe!AskCti(s) \/ Pipe!Detect(s)
                 \/ Pipe!CompareOwnDomains(s) \/ Pipe!ShortCircuit(s) \/ Pipe!PassTriage(s)
      BY <3>2 DEF Pipe!ReadReputation, Pipe!ReputationFails, Pipe!AskCti, Pipe!Detect,
            Pipe!CompareOwnDomains,
                  Pipe!ShortCircuit, Pipe!PassTriage
    <3>3. CASE Pipe!Classify(s) \/ Pipe!Conclude(s) \/ Pipe!PersistVerdict(s)
          \/ Pipe!InsertUrls(s) \/ Pipe!UpdateGraph(s)
      BY <3>3 DEF Pipe!Classify, Pipe!Conclude, Pipe!PersistVerdict, Pipe!InsertUrls,
            Pipe!UpdateGraph
    <3> QED BY <1>2, <3>1, <3>2, <3>3 DEF Pipe!Step
  <2>3. \A t \in ScanIds : writes'[t]["reputation"] = writes[t]["reputation"]
    <3>1. CASE Pipe!PersistVerdict(s) \/ Pipe!InsertUrls(s) \/ Pipe!UpdateGraph(s)
      <4>1. PICK w \in {"verdict", "urls", "graph"}, ok \in BOOLEAN : Pipe!Attempt(s, w, ok)
        BY <3>1 DEF Pipe!PersistVerdict, Pipe!InsertUrls, Pipe!UpdateGraph
      <4> QED BY <4>1 DEF Pipe!Attempt, Pipe!TypeOK, Pipe!Writes
    <3>2. CASE Pipe!Skip(s) \/ Pipe!Start(s) \/ Pipe!Unresolved(s) \/ Pipe!Observed(s)
          \/ Pipe!LookUp(s) \/ Pipe!LookedUp(s)
      BY <3>2 DEF Pipe!Skip, Pipe!Start, Pipe!Unresolved, Pipe!Observed, Pipe!LookUp,
            Pipe!LookedUp, Pipe!Box
    <3>3. CASE Pipe!ReadReputation(s) \/ Pipe!ReputationFails(s) \/ Pipe!AskCti(s) \/ Pipe!Detect(s)
                 \/ Pipe!CompareOwnDomains(s) \/ Pipe!ShortCircuit(s) \/ Pipe!PassTriage(s) \/ Pipe!Classify(s)
                 \/ Pipe!Conclude(s)
      BY <3>3 DEF Pipe!ReadReputation, Pipe!ReputationFails, Pipe!AskCti, Pipe!Detect,
            Pipe!CompareOwnDomains,
                  Pipe!ShortCircuit, Pipe!PassTriage, Pipe!Classify, Pipe!Conclude, Pipe!Box
    <3> QED BY <1>2, <3>1, <3>2, <3>3 DEF Pipe!Step
  <2> QED BY <2>1, <2>2, <2>3, CountsWhenUntouched
<1> QED BY <1>1, <1>2

\* The invariant holds at first.
LEMMA InitHolds ==
  ASSUME PipelineConstants, Pipe!Init
  PROVE  PipeInv
<1>1. Pipe!NoFacts \in Pipe!FoundRecords
  BY DEF Pipe!NoFacts, Pipe!FoundRecords, Pipe!Tiers
<1>2. Pipe!Fillers \in Pipe!Traces /\ \A i \in Pipe!Stages : Pipe!Fillers[i] = Pipe!Row("skipped", 0)
  BY DEF Pipe!Fillers, Pipe!Traces, Pipe!Row, Pipe!Statuses
<1>3. Pipe!TypeOK
  <2>1. letter \in [ScanIds -> Letters] /\ pc \in [ScanIds -> Pipe!Places]
    BY DEF Pipe!Init, Pipe!Places
  <2>2. facts \in [ScanIds -> Pipe!FoundRecords] /\ rows \in [ScanIds -> Pipe!Traces]
    BY <1>1, <1>2 DEF Pipe!Init
  <2>3. verdict \in [ScanIds -> Pipe!Verdicts \cup {None}]
    BY DEF Pipe!Init
  <2>4. writes \in [ScanIds -> [Pipe!Writes -> {"unwritten", "landed", "lost"}]]
    BY DEF Pipe!Init
  <2>5. /\ stored \in [ScanIds -> [verdict : Pipe!Verdicts, rows : Pipe!Traces] \cup {None}]
        /\ selectors \in [ScanIds -> {"none", "sent", "landed", "lost"}]
    BY DEF Pipe!Init
  <2>6. reputation \in [Addresses -> Pipe!HistoryRecords \cup {None}] /\ graph \in [Names \X Addresses -> Nat]
    BY DEF Pipe!Init, PipelineConstants
  <2> QED BY <2>1, <2>2, <2>3, <2>4, <2>5, <2>6 DEF Pipe!TypeOK
<1>4. ASSUME NEW s \in ScanIds PROVE ScanInv(s)
  <2>1. /\ pc[s] = "new" /\ facts[s] = Pipe!NoFacts /\ rows[s] = Pipe!Fillers /\ verdict[s] = None
        /\ stored[s] = None /\ selectors[s] = "none" /\ \A w \in Pipe!Writes : writes[s][w] = "unwritten"
    BY DEF Pipe!Init
  <2>2. Knows(letter[s], "new", Pipe!NoFacts)
    BY DEF Knows, Pipe!NoFacts, Unscanned
  <2>3. Trace(letter[s], "new", Pipe!NoFacts, Pipe!Fillers)
    BY <1>2, RowFields DEF Trace, Unscanned, Looking, Weighing
  <2>4. Outcome(letter[s], "new", Pipe!NoFacts, Pipe!Fillers, None)
    BY DEF Outcome, PipeJudged, Weighing
  <2>5. Accounted(letter[s], "new", Pipe!Fillers, None, writes[s], None, "none")
    BY <2>1 DEF Accounted, Attempted
  <2> QED BY <2>1, <2>2, <2>3, <2>4, <2>5 DEF ScanInv
<1>5. Pipe!HistoryCounts
  <2>1. \A a \in Addresses : Pipe!Told(a) = {}
    BY DEF Pipe!Told, Pipe!Init, Pipe!Writes
  <2>2. \A a \in Addresses : Pipe!Count(Before[a]) \in Nat
    BY DEF Pipe!Count, PipelineConstants, Pipe!HistoryRecords
  <2>3. reputation = Before
    BY DEF Pipe!Init
  <2> QED BY <2>1, <2>2, <2>3, FS_EmptySet, PipeCardinality DEF Pipe!HistoryCounts
<1> QED BY <1>3, <1>4, <1>5 DEF PipeInv

\* Every step of every scan keeps the invariant.
LEMMA StepHolds ==
  ASSUME PipelineConstants, PipeInv, NEW s \in ScanIds, Pipe!Step(s)
  PROVE  PipeInv'
<1>1. Pipe!TypeOK /\ ScanInv(s) /\ Pipe!HistoryCounts
  BY DEF PipeInv
<1>2. Pipe!TypeOK' /\ ScanInv(s)'
  <2>1. CASE Pipe!Skip(s) \/ Pipe!Unresolved(s) BY <1>1, <2>1, SkipKept
  <2>2. CASE Pipe!Start(s) BY <1>1, <2>2, StartKept
  <2>3. CASE Pipe!Observed(s) BY <1>1, <2>3, ObservedKept
  <2>4. CASE Pipe!LookUp(s) BY <1>1, <2>4, LookUpKept
  <2>5. CASE Pipe!LookedUp(s) BY <1>1, <2>5, LookedUpKept
  <2>6. CASE Pipe!ReadReputation(s) BY <1>1, <2>6, ReadKept
  <2>7. CASE Pipe!ReputationFails(s) BY <1>1, <2>7, FailKept
  <2>8. CASE Pipe!AskCti(s) BY <1>1, <2>8, AskKept
  <2>9. CASE Pipe!Detect(s) \/ Pipe!CompareOwnDomains(s) BY <1>1, <2>9, DetectorsKept
  <2>10. CASE Pipe!ShortCircuit(s) BY <1>1, <2>10, ShortKept
  <2>11. CASE Pipe!PassTriage(s) BY <1>1, <2>11, PassKept
  <2>12. CASE Pipe!Classify(s) BY <1>1, <2>12, ClassifyKept
  <2>13. CASE Pipe!Conclude(s) BY <1>1, <2>13, ConcludeKept
  <2>14. CASE Pipe!PersistVerdict(s) BY <1>1, <2>14, PersistKept
  <2>15. CASE Pipe!InsertUrls(s) BY <1>1, <2>15, UrlsKept
  <2>16. CASE Pipe!UpdateHistory(s) BY <1>1, <2>16, HistoryKept
  <2>17. CASE Pipe!UpdateGraph(s) BY <1>1, <2>17, GraphKept
  <2> QED BY <2>1, <2>2, <2>3, <2>4, <2>5, <2>6, <2>7, <2>8, <2>9, <2>10, <2>11, <2>12, <2>13,
             <2>14, <2>15, <2>16, <2>17 DEF Pipe!Step
<1>3. ASSUME NEW t \in ScanIds \ {s} PROVE ScanInv(t)'
  <2>1. ScanInv(t) /\ Only(s)
    BY <1>1, StepOnly DEF PipeInv
  <2> QED BY <2>1, OthersKept
<1>4. Pipe!HistoryCounts'
  BY <1>1, CountsKept
<1> QED BY <1>2, <1>3, <1>4 DEF PipeInv

\* The user keeps the invariant.
LEMMA FlagHolds ==
  ASSUME PipelineConstants, PipeInv, NEW a \in Addresses, Pipe!FlagSender(a)
  PROVE  PipeInv'
<1>1. Pipe!TypeOK' /\ UNCHANGED <<letter, pc, facts, rows, verdict, stored, graph, selectors, writes>>
  BY FlagKept DEF PipeInv
<1>2. ASSUME NEW s \in ScanIds PROVE ScanInv(s)'
  BY <1>1 DEF PipeInv, ScanInv
<1>3. Pipe!HistoryCounts'
  BY CountsWhenFlagged DEF PipeInv
<1> QED BY <1>1, <1>2, <1>3 DEF PipeInv

\* Nothing happening keeps the invariant.
LEMMA StutterHolds ==
  ASSUME PipeInv, UNCHANGED Pipe!vars
  PROVE  PipeInv'
<1>1. UNCHANGED <<letter, pc, facts, rows, verdict, writes, stored, reputation, graph, selectors>>
  BY DEF Pipe!vars
<1>2. Pipe!TypeOK'
  BY <1>1 DEF PipeInv, Pipe!TypeOK
<1>3. ASSUME NEW s \in ScanIds PROVE ScanInv(s)'
  BY <1>1 DEF PipeInv, ScanInv
<1>4. Pipe!HistoryCounts'
  BY <1>1 DEF PipeInv, Pipe!HistoryCounts, Pipe!Told
<1> QED BY <1>2, <1>3, <1>4 DEF PipeInv

\* The invariant says all that a scan promises.
LEMMA SoundFromInvariant ==
  ASSUME PipelineConstants, PipeInv
  PROVE  Pipe!PipelineSound
<1>1. \A s \in ScanIds : ScanInv(s)
  BY DEF PipeInv
<1>2. Pipe!MatchIsBest
  BY <1>1 DEF Pipe!MatchIsBest, ScanInv, Knows
<1>3. Pipe!StagesAgree
  BY <1>1 DEF Pipe!StagesAgree, ScanInv, Outcome
<1>4. Pipe!TraceTells
  BY <1>1 DEF Pipe!TraceTells, ScanInv, Outcome, Tells
<1>5. Pipe!RowsAddUp
  BY <1>1 DEF Pipe!RowsAddUp, ScanInv, Outcome, AddsUp
<1>6. Pipe!StoredAsTold
  <2> SUFFICES ASSUME NEW s \in ScanIds
      PROVE  /\ stored[s] # None => stored[s] = [verdict |-> verdict[s], rows |-> rows[s]]
             /\ letter[s].stateless \/ verdict[s] = None =>
                  stored[s] = None /\ \A w \in Pipe!Writes : writes[s][w] = "unwritten"
             /\ letter[s].stateless => selectors[s] = "none"
    BY DEF Pipe!StoredAsTold
  <2>1. Accounted(letter[s], pc[s], rows[s], verdict[s], writes[s], stored[s], selectors[s])
    BY <1>1 DEF ScanInv
  <2>2. verdict[s] = None => Attempted(pc[s]) = {}
    BY <1>1 DEF ScanInv, Outcome, PipeJudged, Attempted
  <2> QED BY <2>1, <2>2 DEF Accounted
<1>7. Pipe!WritesIndependent
  <2> SUFFICES ASSUME NEW s \in ScanIds, pc[s] = "done", ~letter[s].stateless, NEW w \in Pipe!Writes
               PROVE  writes[s][w] # "unwritten" <=> Pipe!Due(s, w)
    BY DEF Pipe!WritesIndependent
  <2>1. Accounted(letter[s], "done", rows[s], verdict[s], writes[s], stored[s], selectors[s])
    BY <1>1 DEF ScanInv
  <2> QED BY <2>1, OwesIsDue DEF Accounted, Attempted
<1> QED BY <1>2, <1>3, <1>4, <1>5, <1>6, <1>7 DEF Pipe!PipelineSound, PipeInv

\* Whatever scans of one mailbox interleave, whichever writes fail and whatever the
\* user marks meanwhile: a scan reaches the verdict SyncVerdict gives for the facts
\* it found, its rows tell and add up to that verdict, the mailbox holds exactly
\* what the caller was told, and no message is lost from a sender's history.
THEOREM PipelineStaysSound ==
  ASSUME PipelineConstants
  PROVE  Pipe!Spec => [](Pipe!TypeOK /\ Pipe!PipelineSound)
<1>1. Pipe!Init => PipeInv
  BY InitHolds
<1>2. PipeInv /\ [Pipe!Next]_(Pipe!vars) => PipeInv'
  BY StepHolds, FlagHolds, StutterHolds DEF Pipe!Next
<1>3. PipeInv => Pipe!TypeOK /\ Pipe!PipelineSound
  BY SoundFromInvariant DEF PipeInv
<1> QED BY <1>1, <1>2, <1>3, PTL DEF Pipe!Spec
-----------------------------------------------------------------------------
(* One deep scan through its links: DeepScanStages. *)

CONSTANTS Scanned, Dns, Web, Domain, Literals, Private, Homographs, Rdap, Listed, Cti, CtiKey,
          Dropped, Now, CtiKept, MaxHops, MaxHosts, PerHost
VARIABLES scanning, step, at, chain, requests, links, hosts, ips, parts, raised, cached, lapses
Deep == INSTANCE DeepScanStages WITH
  Mails <- Scanned, mail <- scanning, pc <- step, sent <- requests, rows <- links,
  Kept <- CtiKept, verdict <- raised, cache <- cached, faults <- lapses

isSeq(s) == Len(s) \in Nat /\ s = [i \in 1 .. Len(s) |-> s[i]]
\* What the constants are: private addresses are addresses, a link that is
\* listed or imitates has a host, what the CTI cache holds at first is so.
DeepConstants ==
  /\ MaxHops \in Nat /\ Private \subseteq Literals /\ None \notin Homographs
  /\ \A u \in DOMAIN Listed : u.host # None /\ Listed[u] # None
  /\ \A c \in CtiKept : \A ip \in DOMAIN c : c[ip] # "corrupt" => (c[ip] = "miss" <=> Cti[ip] = None)

\* The requests of a link, and whether one of them went to u.
Mine(l) == {j \in DOMAIN requests : requests[j].link = l}
Went(l, u) == \E j \in Mine(l) : requests[j].url = u
Following == {"check", "fetch", "judge"}

\* A link counts its requests as it hops, and where it lands a request went.
ChainFits ==
  /\ chain = [original |-> chain.original, current |-> chain.current, resolved |-> chain.resolved,
              hops |-> chain.hops, title |-> chain.title, truncated |-> chain.truncated]
  /\ chain.hops \in 0 .. MaxHops /\ chain.truncated \in BOOLEAN
  /\ step # "judge" => chain.resolved = chain.original /\ ~chain.truncated
  /\ step = "check" => Cardinality(Mine(at)) = chain.hops
  /\ step = "fetch" => /\ Cardinality(Mine(at)) = chain.hops + 1 /\ chain.hops < MaxHops
                       /\ Went(at, chain.current)
  /\ step = "judge" => /\ Cardinality(Mine(at)) \in 0 .. MaxHops
                       /\ chain.truncated => Cardinality(Mine(at)) = MaxHops
                       /\ chain.resolved # chain.original => Went(at, chain.resolved)
\* Requests belong to the links followed so far.
LinksFit ==
  /\ isSeq(requests) /\ isSeq(links) /\ isSeq(hosts) /\ at \in Nat /\ at >= 1
  /\ Len(links) = at - 1
  /\ \A j \in DOMAIN requests :
       requests[j].link \in 1 .. (IF step \in Following THEN at ELSE at - 1)
  /\ \A l \in 1 .. (at - 1) : Cardinality(Mine(l)) \in 0 .. MaxHops
Guarded(r) ==
  /\ r.url.scheme \in {"http", "https"} /\ r.url.host \notin Private
  /\ r.url.host \in Literals \/ Deep!resolveHostIps(r.guard) \cap Private = {}
\* The hosts seen are those of the rows.
HostsFit ==
  {hosts[i] : i \in DOMAIN hosts} = {links[j].chain.resolved.host : j \in DOMAIN links} \ {None}
DeepInv ==
  /\ LinksFit /\ HostsFit /\ (step \in Following => ChainFits)
  /\ \A j \in DOMAIN requests : Guarded(requests[j])
  /\ Deep!LandingsTrue /\ Deep!HostsCountOnce /\ Deep!CacheHonest

LEMMA DeepCardinality == \A S : Deep!Cardinality(S) = Cardinality(S)
BY DEF Deep!Cardinality, Cardinality

LEMMA Appended ==
  ASSUME NEW s, isSeq(s), NEW e
  PROVE  /\ isSeq(Append(s, e)) /\ DOMAIN Append(s, e) = 1 .. (Len(s) + 1)
         /\ Len(Append(s, e)) = Len(s) + 1 /\ Append(s, e)[Len(s) + 1] = e
         /\ \A i \in DOMAIN s : Append(s, e)[i] = s[i]
         /\ DOMAIN s = 1 .. Len(s)
<1>. DEFINE S == {s[i] : i \in 1 .. Len(s)} \cup {e}
<1>1. s \in Seq(S) /\ e \in S
  BY DEF isSeq
<1>. HIDE DEF S
<1>2. Append(s, e) \in Seq(S) /\ Len(Append(s, e)) = Len(s) + 1 /\ Len(s) \in Nat
  BY <1>1
<1>3. DOMAIN s = 1 .. Len(s) /\ Append(s, e)[Len(s) + 1] = e
      /\ \A i \in 1 .. Len(s) : Append(s, e)[i] = s[i]
  BY <1>1, <1>2
<1>4. Append(s, e) = [i \in 1 .. Len(Append(s, e)) |-> Append(s, e)[i]]
  <2>1. \A q \in Seq(S) : q = [i \in 1 .. Len(q) |-> q[i]]
    OBVIOUS
  <2>. QED BY <1>2, <2>1
<1>. QED BY <1>2, <1>3, <1>4 DEF isSeq

LEMMA MineFinite == ASSUME isSeq(requests), NEW l PROVE IsFiniteSet(Mine(l)) /\ Cardinality(Mine(l)) \in Nat
<1>1. IsFiniteSet(1 .. Len(requests)) /\ Mine(l) \subseteq 1 .. Len(requests)
  BY FS_Interval DEF isSeq, Mine
<1>. QED BY <1>1, FS_Subset, FS_CardinalityType

LEMMA InitDeep == ASSUME DeepConstants, Deep!Init PROVE DeepInv
<1>1. requests = <<>> /\ links = <<>> /\ hosts = <<>> /\ at = 1 /\ step = "urls" /\ cached \in CtiKept
  BY DEF Deep!Init
<1>2. \A s : s = <<>> => isSeq(s) /\ DOMAIN s = {} /\ Len(s) = 0
  BY DEF isSeq
<1>3. LinksFit /\ HostsFit
  BY <1>1, <1>2 DEF LinksFit, HostsFit
<1>4. Deep!LandingsTrue /\ Deep!HostsCountOnce
  BY <1>1, <1>2 DEF Deep!LandingsTrue, Deep!HostsCountOnce
<1>5. Deep!CacheHonest
  BY <1>1 DEF Deep!CacheHonest, DeepConstants
<1>. QED BY <1>1, <1>2, <1>3, <1>4, <1>5 DEF DeepInv, Following

\* What is about the rows alone.
LEMMA RowsKept ==
  ASSUME DeepInv, UNCHANGED <<scanning, links, hosts>>,
         \A i \in DOMAIN links : Mine(i)' = Mine(i)
                                 /\ \A j \in Mine(i) : requests'[j] = requests[j]
  PROVE  Deep!LandingsTrue' /\ Deep!HostsCountOnce' /\ HostsFit'
<1>1. Deep!HostsCountOnce' /\ HostsFit'
  <2>1. links' = links /\ hosts' = hosts
    OBVIOUS
  <2>2. Deep!HostsCountOnce'
    BY <2>1 DEF DeepInv, Deep!HostsCountOnce
  <2>3. HostsFit'
    BY <2>1 DEF DeepInv, HostsFit
  <2>. QED BY <2>2, <2>3
<1>2. \A i \in DOMAIN links : Mine(i) = {j \in DOMAIN requests : requests[j].link = i}
        /\ Mine(i) = {j \in DOMAIN requests' : requests'[j].link = i}
  BY DEF Mine
<1>3. Deep!LandingsTrue'
  <2>1. links' = links /\ scanning' = scanning
    OBVIOUS
  <2>2. SUFFICES ASSUME NEW i \in DOMAIN links
        PROVE LET c == links[i].chain
                  mine == {j \in DOMAIN requests' : requests'[j].link = i}
              IN /\ c.resolved # c.original => \E j \in mine : requests'[j].url = c.resolved
                 /\ \A t \in links[i].tags : t[1] = "redirect_host_change" =>
                      /\ Domain[c.resolved.host] # Domain[c.original.host]
                      /\ ~(scanning.sender.dmarc /\ scanning.sender.domain # None
                             /\ Domain[c.resolved.host] = scanning.sender.domain)
                 /\ c.truncated <=> <<"redirect_chain_too_long", 5>> \in links[i].tags
                 /\ c.truncated => Deep!Cardinality(mine) = MaxHops
    BY <2>1 DEF Deep!LandingsTrue
  <2>. DEFINE M == {j \in DOMAIN requests : requests[j].link = i}
              c == links[i].chain
  <2>3. {j \in DOMAIN requests' : requests'[j].link = i} = M /\ \A j \in M : requests'[j] = requests[j]
    BY <1>2, <2>2
  <2>4. /\ c.resolved # c.original => \E j \in M : requests[j].url = c.resolved
        /\ \A t \in links[i].tags : t[1] = "redirect_host_change" =>
             /\ Domain[c.resolved.host] # Domain[c.original.host]
             /\ ~(scanning.sender.dmarc /\ scanning.sender.domain # None
                    /\ Domain[c.resolved.host] = scanning.sender.domain)
        /\ c.truncated <=> <<"redirect_chain_too_long", 5>> \in links[i].tags
        /\ c.truncated => Deep!Cardinality(M) = MaxHops
    BY <2>2 DEF DeepInv, Deep!LandingsTrue
  <2>5. c.resolved # c.original => \E j \in M : requests'[j].url = c.resolved
    BY <2>3, <2>4
  <2>. HIDE DEF M
  <2>. QED BY <2>3, <2>4, <2>5
<1>. QED BY <1>1, <1>3

\* A step that asks nothing and follows no link.
LEMMA AsidesKeep ==
  ASSUME DeepInv, UNCHANGED <<scanning, at, chain, requests, links, hosts>>,
         step \notin Following, step' \notin Following, Deep!CacheHonest'
  PROVE  DeepInv'
<1>1. Deep!LandingsTrue' /\ Deep!HostsCountOnce' /\ HostsFit'
  BY RowsKept DEF Mine
<1>2. LinksFit'
  BY DEF DeepInv, LinksFit, Mine
<1>. QED BY <1>1, <1>2 DEF DeepInv

LEMMA FollowKeeps == ASSUME DeepConstants, DeepInv, Deep!Follow PROVE DeepInv'
<1>1. /\ step = "urls" /\ step' \in {"judge", "check"} /\ chain' = Deep!fresh(scanning.links[at])
      /\ UNCHANGED <<scanning, at, requests, links, hosts, cached>>
  BY DEF Deep!Follow
<1>2. Deep!LandingsTrue' /\ Deep!HostsCountOnce' /\ HostsFit'
  BY <1>1, RowsKept DEF Mine
<1>3. LinksFit' /\ Mine(at) = {}
  BY <1>1 DEF DeepInv, LinksFit, Mine, Following
<1>4. Cardinality(Mine(at)') = 0
  BY <1>1, <1>3, FS_EmptySet DEF Mine
<1>5. ChainFits'
  BY <1>1, <1>4 DEF ChainFits, Deep!fresh, DeepConstants
<1>6. Deep!CacheHonest'
  BY <1>1 DEF DeepInv, Deep!CacheHonest
<1>. QED BY <1>1, <1>2, <1>3, <1>5, <1>6 DEF DeepInv

LEMMA Allowed ==
  ASSUME DeepConstants, NEW u, NEW a, ~Deep!checkSsrf(u, a), NEW l
  PROVE  Guarded([url |-> u, guard |-> a, link |-> l])
BY DEF DeepConstants, Deep!checkSsrf, Guarded

LEMMA CheckKeeps == ASSUME DeepConstants, DeepInv, Deep!Check PROVE DeepInv'
<1>1. step = "check" /\ UNCHANGED <<scanning, at, links, hosts, cached>>
  BY DEF Deep!Check
<1>2. Deep!CacheHonest'
  BY <1>1 DEF DeepInv, Deep!CacheHonest
<1>3. ChainFits /\ Cardinality(Mine(at)) = chain.hops /\ chain.hops \in 0 .. MaxHops
  BY <1>1 DEF DeepInv, ChainFits, Following
<1>4. CASE chain.hops = MaxHops
  <2>1. chain' = [chain EXCEPT !.truncated = TRUE] /\ step' = "judge" /\ UNCHANGED requests
    BY <1>4 DEF Deep!Check
  <2>2. Deep!LandingsTrue' /\ Deep!HostsCountOnce' /\ HostsFit'
    BY <1>1, <2>1, RowsKept DEF Mine
  <2>3. LinksFit'
    BY <1>1, <2>1 DEF DeepInv, LinksFit, Mine, Following
  <2>4. Mine(at)' = Mine(at)
    BY <1>1, <2>1 DEF Mine
  <2>5. ChainFits'
    BY <1>1, <1>3, <1>4, <2>1, <2>4 DEF ChainFits
  <2>. QED BY <1>1, <1>2, <2>1, <2>2, <2>3, <2>5 DEF DeepInv
<1>5. CASE chain.hops # MaxHops
  <2>1. PICK a \in Dns[chain.current.host] :
          /\ step' = IF Deep!checkSsrf(chain.current, a) THEN "judge" ELSE "fetch"
          /\ requests' = IF Deep!checkSsrf(chain.current, a) THEN requests
                     ELSE Append(requests, [url |-> chain.current, guard |-> a, link |-> at])
          /\ UNCHANGED chain
    BY <1>5 DEF Deep!Check
  <2>2. CASE Deep!checkSsrf(chain.current, a)
    <3>1. step' = "judge" /\ UNCHANGED <<requests, chain>>
      BY <2>1, <2>2
    <3>2. Deep!LandingsTrue' /\ Deep!HostsCountOnce' /\ HostsFit'
      BY <1>1, <3>1, RowsKept DEF Mine
    <3>3. LinksFit' /\ Mine(at)' = Mine(at)
      BY <1>1, <3>1 DEF DeepInv, LinksFit, Mine, Following
    <3>4. ChainFits'
      BY <1>1, <1>3, <3>1, <3>3 DEF ChainFits
    <3>. QED BY <1>1, <1>2, <3>1, <3>2, <3>3, <3>4 DEF DeepInv
  <2>3. CASE ~Deep!checkSsrf(chain.current, a)
    <3>. DEFINE e == [url |-> chain.current, guard |-> a, link |-> at]
    <3>1. step' = "fetch" /\ requests' = Append(requests, e) /\ chain' = chain
      BY <2>1, <2>3
    <3>2. Guarded(e) /\ e.url = chain.current /\ e.link = at
      BY <2>3, Allowed
    <3>. HIDE DEF e
    <3>3. isSeq(requests) /\ at \in Nat /\ Len(links) = at - 1 /\ DOMAIN links = 1 .. (at - 1)
      BY DEF DeepInv, LinksFit, isSeq
    <3>. DEFINE n == Len(requests) + 1
    <3>4. /\ isSeq(requests') /\ DOMAIN requests' = 1 .. n /\ requests'[n] = e
          /\ \A i \in DOMAIN requests : requests'[i] = requests[i]
          /\ DOMAIN requests = 1 .. (n - 1) /\ n \in Nat /\ n >= 1
      BY <3>1, <3>3, Appended DEF isSeq
    <3>. HIDE DEF n
    <3>5. \A l : l # at => Mine(l)' = Mine(l)
      BY <1>1, <3>2, <3>4 DEF Mine
    <3>6. Mine(at)' = Mine(at) \cup {n} /\ n \notin Mine(at)
      BY <1>1, <3>2, <3>4 DEF Mine
    <3>7. Cardinality(Mine(at)') = chain.hops + 1
      <4>1. IsFiniteSet(Mine(at))
        BY <3>3, MineFinite
      <4>2. Cardinality(Mine(at) \cup {n}) = Cardinality(Mine(at)) + 1
        BY <3>6, <4>1, FS_AddElement
      <4>. QED BY <1>3, <3>6, <4>2
    <3>8. LinksFit'
      <4>1. \A j \in DOMAIN requests' : requests'[j].link \in 1 .. at
        BY <1>1, <3>2, <3>3, <3>4 DEF DeepInv, LinksFit, Following
      <4>2. \A l \in 1 .. (at - 1) : Cardinality(Mine(l)') \in 0 .. MaxHops
        BY <3>3, <3>5 DEF DeepInv, LinksFit
      <4>3. isSeq(links') /\ isSeq(hosts') /\ at' = at /\ at >= 1 /\ Len(links') = at' - 1
        BY <1>1 DEF DeepInv, LinksFit
      <4>4. step' \in Following
        BY <3>1 DEF Following
      <4>. QED BY <3>3, <3>4, <4>1, <4>2, <4>3, <4>4 DEF LinksFit
    <3>9. Deep!LandingsTrue' /\ Deep!HostsCountOnce' /\ HostsFit'
      <4>1. \A i \in DOMAIN links : Mine(i)' = Mine(i)
              /\ \A j \in Mine(i) : requests'[j] = requests[j]
        <5> TAKE i \in DOMAIN links
        <5>1. i # at
          BY <3>3
        <5>2. \A j \in Mine(i) : requests'[j] = requests[j]
          BY <3>4 DEF Mine
        <5>. QED BY <3>5, <5>1, <5>2
      <4>. QED BY <1>1, <4>1, RowsKept
    <3>10. Went(at, chain.current)'
      BY <1>1, <3>1, <3>2, <3>4, <3>6 DEF Went
    <3>11. ChainFits'
      <4>1. at' = at /\ chain' = chain /\ step' = "fetch" /\ Cardinality(Mine(at))' = chain.hops + 1
        BY <1>1, <3>1, <3>7
      <4>2. chain.hops < MaxHops /\ chain.hops \in 0 .. MaxHops
        BY <1>3, <1>5 DEF DeepConstants
      <4>. QED BY <1>1, <1>3, <3>10, <4>1, <4>2 DEF ChainFits
    <3>12. \A j \in DOMAIN requests' : Guarded(requests'[j])
      BY <3>2, <3>4 DEF DeepInv
    <3>. QED BY <1>2, <3>8, <3>9, <3>11, <3>12 DEF DeepInv
  <2>. QED BY <2>2, <2>3
<1>. QED BY <1>4, <1>5

\* A link that hops on or ends, after a request.
LEMMA HopKeeps ==
  ASSUME DeepConstants, DeepInv, step = "fetch", UNCHANGED <<scanning, at, requests, links, hosts, cached>>,
         NEW hops, NEW current, NEW resolved, NEW title, hops \in {chain.hops, chain.hops + 1},
         chain' = [original |-> chain.original, current |-> current, resolved |-> resolved,
                   hops |-> hops, title |-> title, truncated |-> chain.truncated],
         \/ step' = "judge" /\ resolved \in {chain.original, chain.current}
         \/ step' = "check" /\ resolved = chain.original /\ hops = chain.hops + 1
  PROVE  DeepInv'
<1>1. Deep!CacheHonest'
  BY DEF DeepInv, Deep!CacheHonest
<1>2. Deep!LandingsTrue' /\ Deep!HostsCountOnce' /\ HostsFit'
  BY RowsKept DEF Mine
<1>3. LinksFit' /\ Mine(at)' = Mine(at) /\ step' \in Following
  BY DEF DeepInv, LinksFit, Mine, Following
<1>4. ChainFits /\ Cardinality(Mine(at)) = chain.hops + 1 /\ chain.hops < MaxHops /\ Went(at, chain.current)
      /\ chain.hops \in 0 .. MaxHops /\ ~chain.truncated
  BY DEF DeepInv, ChainFits, Following
<1>5. Went(at, chain.current)' <=> \E j \in Mine(at) : requests[j].url = chain'.current
  BY <1>3 DEF Went
<1>6. ASSUME resolved = chain.current PROVE Went(at, chain.resolved)'
  BY <1>3, <1>4, <1>6 DEF Went
<1>7. ChainFits'
  BY <1>3, <1>4, <1>6 DEF ChainFits, DeepConstants
<1>. QED BY <1>1, <1>2, <1>3, <1>7 DEF DeepInv

LEMMA FetchKeeps == ASSUME DeepConstants, DeepInv, Deep!Fetch \/ Deep!FetchFails PROVE DeepInv'
<1>1. step = "fetch" /\ UNCHANGED <<scanning, at, requests, links, hosts, cached>>
  BY DEF Deep!Fetch, Deep!FetchFails
<1>2. /\ chain = [original |-> chain.original, current |-> chain.current, resolved |-> chain.resolved,
                  hops |-> chain.hops, title |-> chain.title, truncated |-> chain.truncated]
      /\ chain.resolved = chain.original
  BY <1>1 DEF DeepInv, ChainFits, Following
<1>. DEFINE hop == [chain EXCEPT !.hops = @ + 1]
            To(c, r, h, t) == [original |-> chain.original, current |-> c, resolved |-> r,
                   hops |-> h, title |-> t, truncated |-> chain.truncated]
<1>3. CASE Deep!FetchFails
  <2>1. step' = "judge" /\ chain' = To(chain.current, chain.current, chain.hops, chain.title)
    BY <1>2, <1>3 DEF Deep!FetchFails
  <2>. QED BY <1>1, <2>1, HopKeeps
<1>4. CASE Deep!Fetch
  <2>1. PICK r \in Web[chain.current] :
          IF r.status = "redirect" THEN Deep!Redirected(Deep!absolutize(chain.current, r.location), hop)
          ELSE chain' = [hop EXCEPT !.resolved = chain.current, !.title = r.title] /\ step' = "judge"
    BY <1>4 DEF Deep!Fetch
  <2>2. CASE r.status # "redirect"
    <3>1. step' = "judge" /\ chain' = To(chain.current, chain.current, chain.hops + 1, r.title)
      BY <1>2, <2>1, <2>2
    <3>. QED BY <1>1, <3>1, HopKeeps
  <2>3. CASE r.status = "redirect"
    <3>. DEFINE next == Deep!absolutize(chain.current, r.location)
    <3>1. Deep!Redirected(next, hop)
      BY <2>1, <2>3
    <3>. HIDE DEF next
    <3>2. CASE next = None
      <4>1. step' = "judge" /\ chain' = To(chain.current, chain.original, chain.hops + 1, chain.title)
        BY <1>2, <3>1, <3>2 DEF Deep!Redirected
      <4>. QED BY <1>1, <4>1, HopKeeps
    <3>3. CASE next # None
      <4>1. \/ chain' = [hop EXCEPT !.resolved = hop.current] /\ step' = "judge"
            \/ chain' = [hop EXCEPT !.current = next] /\ step' = "check"
        BY <3>1, <3>3 DEF Deep!Redirected
      <4>2. CASE chain' = [hop EXCEPT !.resolved = hop.current] /\ step' = "judge"
        <5>1. chain' = To(chain.current, chain.current, chain.hops + 1, chain.title) /\ step' = "judge"
          BY <1>2, <4>2
        <5>. QED BY <1>1, <5>1, HopKeeps
      <4>3. CASE chain' = [hop EXCEPT !.current = next] /\ step' = "check"
        <5>1. chain' = To(next, chain.original, chain.hops + 1, chain.title) /\ step' = "check"
          BY <1>2, <4>3
        <5>. QED BY <1>1, <5>1, HopKeeps
      <4>. QED BY <4>1, <4>2, <4>3
    <3>. QED BY <3>2, <3>3
  <2>. QED BY <2>2, <2>3
<1>. QED BY <1>3, <1>4

(* ---------------------------------------------------------------- the rows --- *)

\* What a link's tags say.
NamesOf(tags) == {t[1] : t \in tags}
LEMMA TagsTell ==
  ASSUME NEW c, c.truncated \in BOOLEAN, NEW first \in BOOLEAN, NEW feed, NEW known
  PROVE  LET tags == Deep!tagsOf(c, first, feed, known) IN
         /\ \A t \in tags : t[1] = "redirect_host_change" =>
              /\ Domain[c.resolved.host] # Domain[c.original.host]
              /\ ~(scanning.sender.dmarc /\ scanning.sender.domain # None
                     /\ Domain[c.resolved.host] = scanning.sender.domain)
         /\ c.truncated <=> <<"redirect_chain_too_long", 5>> \in tags
         /\ ~first => NamesOf(tags) \cap {"resolved_homograph", "domain_age", "intel_match"} = {}
         /\ first /\ c.resolved.host \in Homographs => "resolved_homograph" \in NamesOf(tags)
         /\ first /\ feed # None => "intel_match" \in NamesOf(tags)
<1>. DEFINE host == c.resolved.host
            home == scanning.sender.dmarc /\ scanning.sender.domain # None
                      /\ Domain[host] = scanning.sender.domain
            own(tag, points) == IF points > 0 THEN {<<tag, points>>} ELSE {}
            turned == own("redirect_host_change", IF Deep!hostChanged(c) /\ ~home THEN 10 ELSE 0)
            long == own("redirect_chain_too_long", IF c.truncated THEN 5 ELSE 0)
            imitates == own("resolved_homograph", IF host \in Homographs THEN 15 ELSE 0)
            young == own("domain_age", IF known THEN Deep!freshness(Deep!lookupDomainAge(host)) ELSE 0)
            listed == own("intel_match", IF feed # None THEN 20 ELSE 0)
            tags == Deep!tagsOf(c, first, feed, known)
<1>1. tags = turned \cup long \cup (IF ~first THEN {} ELSE imitates \cup young \cup listed)
  BY DEF Deep!tagsOf
<1>2. turned = IF Deep!hostChanged(c) /\ ~home THEN {<<"redirect_host_change", 10>>} ELSE {}
  OBVIOUS
<1>3. long = IF c.truncated THEN {<<"redirect_chain_too_long", 5>>} ELSE {}
  OBVIOUS
<1>4. imitates = IF host \in Homographs THEN {<<"resolved_homograph", 15>>} ELSE {}
  OBVIOUS
<1>5. \A t \in young : t[1] = "domain_age"
  OBVIOUS
<1>6. listed = IF feed # None THEN {<<"intel_match", 20>>} ELSE {}
  OBVIOUS
<1>. HIDE DEF turned, long, imitates, young, listed, tags
<1>7. \A t \in tags : t[1] = "redirect_host_change" => Deep!hostChanged(c) /\ ~home
  BY <1>1, <1>2, <1>3, <1>4, <1>5, <1>6
<1>8. c.truncated <=> <<"redirect_chain_too_long", 5>> \in tags
  BY <1>1, <1>2, <1>3, <1>4, <1>5, <1>6
<1>9. ~first => NamesOf(tags) \cap {"resolved_homograph", "domain_age", "intel_match"} = {}
  BY <1>1, <1>2, <1>3 DEF NamesOf
<1>10. first /\ host \in Homographs => "resolved_homograph" \in NamesOf(tags)
  <2>1. <<"resolved_homograph", 15>>[1] = "resolved_homograph"
    OBVIOUS
  <2>2. first /\ host \in Homographs => <<"resolved_homograph", 15>> \in tags
    BY <1>1, <1>4
  <2>. QED BY <2>1, <2>2 DEF NamesOf
<1>11. first /\ feed # None => "intel_match" \in NamesOf(tags)
  <2>1. <<"intel_match", 20>>[1] = "intel_match"
    OBVIOUS
  <2>2. first /\ feed # None => <<"intel_match", 20>> \in tags
    BY <1>1, <1>6
  <2>. QED BY <2>1, <2>2 DEF NamesOf
<1>. QED BY <1>7, <1>8, <1>9, <1>10, <1>11 DEF tags, Deep!hostChanged

LEMMA JudgeKeeps == ASSUME DeepConstants, DeepInv, Deep!Judge PROVE DeepInv'
<1>. DEFINE host == chain.resolved.host
            first == host # None /\ host \notin Deep!ToSet(hosts)
            feed(broken) == IF "feeds" \notin broken /\ chain.resolved \in DOMAIN Listed
                            THEN Listed[chain.resolved] ELSE None
            entry(broken) == [link |-> at, chain |-> chain, broken |-> broken,
                      tags |-> Deep!tagsOf(chain, first, feed(broken), "rdap" \notin broken)]
<1>1. PICK broken \in SUBSET {"rdap", "feeds"} :
        /\ ~first => broken = {}
        /\ links' = Append(links, entry(broken))
        /\ hosts' = IF first THEN Append(hosts, host) ELSE hosts
  BY DEF Deep!Judge
<1>2. step = "judge" /\ at' = at + 1 /\ step' = "urls" /\ UNCHANGED <<scanning, chain, requests, cached>>
  BY DEF Deep!Judge
<1>. DEFINE w == entry(broken)
            tags == w.tags
<1>3. ChainFits /\ step \in Following /\ LinksFit
  BY <1>2 DEF DeepInv, Following
<1>4. first \in BOOLEAN /\ chain.truncated \in BOOLEAN
  BY <1>3 DEF ChainFits
<1>5. w.chain = chain /\ w.broken = broken /\ w.link = at
      /\ w.tags = Deep!tagsOf(chain, first, feed(broken), "rdap" \notin broken)
  OBVIOUS
<1>6. /\ \A t \in tags : t[1] = "redirect_host_change" =>
              /\ Domain[host] # Domain[chain.original.host]
              /\ ~(scanning.sender.dmarc /\ scanning.sender.domain # None
                     /\ Domain[host] = scanning.sender.domain)
      /\ chain.truncated <=> <<"redirect_chain_too_long", 5>> \in tags
      /\ ~first => NamesOf(tags) \cap {"resolved_homograph", "domain_age", "intel_match"} = {}
      /\ first /\ host \in Homographs => "resolved_homograph" \in NamesOf(tags)
      /\ first /\ feed(broken) # None => "intel_match" \in NamesOf(tags)
  <2>. HIDE DEF first, feed
  <2>. QED BY <1>4, <1>5, TagsTell
<1>7. ("feeds" \notin broken /\ chain.resolved \in DOMAIN Listed) => feed(broken) # None /\ host # None
  BY DEF DeepConstants
<1>8. Deep!ToSet(hosts) = {hosts[i] : i \in DOMAIN hosts}
  BY DEF Deep!ToSet
<1>9. first <=> (host # None /\ \A j \in DOMAIN links : links[j].chain.resolved.host # host)
  BY <1>8 DEF DeepInv, HostsFit
<1>. HIDE DEF w, first, feed, host
<1>10. /\ isSeq(links') /\ DOMAIN links' = 1 .. at /\ links'[at] = w /\ Len(links') = at
       /\ DOMAIN links = 1 .. (at - 1) /\ at \in Nat /\ at >= 1
       /\ \A i \in DOMAIN links : links'[i] = links[i]
  <2>1. isSeq(links) /\ Len(links) = at - 1 /\ at \in Nat /\ at >= 1
    BY <1>3 DEF LinksFit
  <2>2. links' = Append(links, w)
    BY <1>1 DEF w
  <2>. QED BY <2>1, <2>2, Appended
<1>11. /\ isSeq(hosts') /\ \A i \in DOMAIN hosts : hosts'[i] = hosts[i]
       /\ ~first => hosts' = hosts
       /\ first => \E n \in Nat : /\ DOMAIN hosts = 1 .. n /\ DOMAIN hosts' = 1 .. (n + 1)
                                  /\ hosts'[n + 1] = host
  <2>1. isSeq(hosts)
    BY <1>3 DEF LinksFit
  <2>2. CASE ~first
    BY <1>1, <2>1, <2>2
  <2>3. CASE first
    <3>1. hosts' = Append(hosts, host) /\ Len(hosts) \in Nat
      BY <1>1, <2>1, <2>3 DEF isSeq
    <3>2. /\ isSeq(hosts') /\ DOMAIN hosts' = 1 .. (Len(hosts) + 1) /\ hosts'[Len(hosts) + 1] = host
          /\ \A i \in DOMAIN hosts : hosts'[i] = hosts[i]
          /\ DOMAIN hosts = 1 .. Len(hosts)
      BY <2>1, <3>1, Appended
    <3>. QED BY <2>3, <3>1, <3>2
  <2>. QED BY <2>2, <2>3
<1>12. Mine(at)' = {j \in DOMAIN requests : requests[j].link = at + 1} /\ \A l : Mine(l) = {j \in DOMAIN requests : requests[j].link = l}
  BY <1>2 DEF Mine
<1>13. LinksFit'
  <2>1. \A l \in 1 .. (at' - 1) : Cardinality({j \in DOMAIN requests : requests[j].link = l}) \in 0 .. MaxHops
    <3>1. Cardinality(Mine(at)) \in 0 .. MaxHops
      BY <1>2, <1>3 DEF ChainFits
    <3>2. \A l \in 1 .. (at - 1) : Cardinality(Mine(l)) \in 0 .. MaxHops
      BY <1>3 DEF LinksFit
    <3>3. \A l \in 1 .. (at' - 1) : l \in 1 .. (at - 1) \/ l = at
      BY <1>2, <1>10
    <3>. QED BY <1>12, <3>1, <3>2, <3>3
  <2>2. \A j \in DOMAIN requests : requests[j].link \in 1 .. at
    BY <1>3 DEF LinksFit
  <2>. QED BY <1>2, <1>3, <1>10, <1>11, <2>1, <2>2 DEF LinksFit, Mine, Following
<1>14. HostsFit'
  <2>. DEFINE H == {hosts[i] : i \in DOMAIN hosts}
              R == {links[j].chain.resolved.host : j \in DOMAIN links}
  <2>1. {links'[j].chain.resolved.host : j \in DOMAIN links'} = R \cup {host}
    BY <1>5, <1>10 DEF host
  <2>2. {hosts'[i] : i \in DOMAIN hosts'} = IF first THEN H \cup {host} ELSE H
    BY <1>11
  <2>3. H = R \ {None}
    BY DEF DeepInv, HostsFit
  <2>4. first <=> (host # None /\ host \notin R)
    BY <1>9
  <2>. QED BY <2>1, <2>2, <2>3, <2>4 DEF HostsFit
<1>15. Deep!HostsCountOnce'
  <2>1. \A i, j \in DOMAIN hosts' : hosts'[i] = hosts'[j] => i = j
    <3>1. \A i, j \in DOMAIN hosts : hosts[i] = hosts[j] => i = j
      BY DEF DeepInv, Deep!HostsCountOnce
    <3>2. first => \A i \in DOMAIN hosts : hosts[i] # host
      BY <1>8 DEF first, host
    <3>. QED BY <1>11, <3>1, <3>2
  <2>. DEFINE Once(r, i) ==
                LET h == r[i].chain.resolved.host
                    earlier == \E j \in 1 .. (i - 1) : r[j].chain.resolved.host = h
                    named == {t[1] : t \in r[i].tags}
                IN /\ earlier => named \cap {"resolved_homograph", "domain_age", "intel_match"} = {}
                   /\ ~earlier /\ h \in Homographs => "resolved_homograph" \in named
                   /\ ~earlier /\ "feeds" \notin r[i].broken /\ r[i].chain.resolved \in DOMAIN Listed =>
                        "intel_match" \in named
  <2>2. \A i \in DOMAIN links : Once(links, i)
    BY DEF DeepInv, Deep!HostsCountOnce
  <2>3. \A i \in 1 .. (at - 1) : Once(links', i)
    <3>1. SUFFICES ASSUME NEW i \in 1 .. (at - 1) PROVE Once(links', i)
      OBVIOUS
    <3>2. \A j \in 1 .. i : links'[j] = links[j]
      BY <1>10, <3>1
    <3>3. Once(links, i)
      BY <1>10, <2>2, <3>1
    <3>4. (\E j \in 1 .. (i - 1) : links'[j].chain.resolved.host = links[i].chain.resolved.host)
          <=> (\E j \in 1 .. (i - 1) : links[j].chain.resolved.host = links[i].chain.resolved.host)
      BY <3>1, <3>2
    <3>. QED BY <3>1, <3>2, <3>3, <3>4
  <2>4. Once(links', at)
    <3>1. (\E j \in 1 .. (at - 1) : links'[j].chain.resolved.host = host) <=>
          (\E j \in DOMAIN links : links[j].chain.resolved.host = host)
      BY <1>10
    <3>2. links'[at].chain = chain /\ links'[at].tags = tags /\ links'[at].broken = broken
          /\ chain.resolved.host = host
      BY <1>5, <1>10 DEF host
    <3>3. None \notin Homographs
      BY DEF DeepConstants
    <3>. DEFINE earlier == \E j \in 1 .. (at - 1) : links'[j].chain.resolved.host = host
    <3>4. first <=> (host # None /\ ~earlier)
      BY <1>9, <3>1
    <3>. HIDE DEF earlier, tags
    <3>5. /\ earlier => NamesOf(tags) \cap {"resolved_homograph", "domain_age", "intel_match"} = {}
          /\ ~earlier /\ host \in Homographs => "resolved_homograph" \in NamesOf(tags)
          /\ ~earlier /\ "feeds" \notin broken /\ chain.resolved \in DOMAIN Listed =>
               "intel_match" \in NamesOf(tags)
      BY <1>6, <1>7, <3>3, <3>4 DEF tags
    <3>. QED BY <3>2, <3>5 DEF earlier, NamesOf
  <2>. HIDE DEF Once
  <2>5. \A i \in DOMAIN links' : i \in 1 .. (at - 1) \/ i = at
    BY <1>10
  <2>6. \A i \in DOMAIN links' : Once(links', i)
    BY <2>3, <2>4, <2>5
  <2>. QED BY <2>1, <2>6 DEF Deep!HostsCountOnce, Once
<1>16. Deep!LandingsTrue'
  <2>. DEFINE Lands(r, i) ==
                LET c == r.chain
                    mine == {j \in DOMAIN requests : requests[j].link = i}
                IN /\ c.resolved # c.original => \E j \in mine : requests[j].url = c.resolved
                   /\ \A t \in r.tags : t[1] = "redirect_host_change" =>
                        /\ Domain[c.resolved.host] # Domain[c.original.host]
                        /\ ~(scanning.sender.dmarc /\ scanning.sender.domain # None
                               /\ Domain[c.resolved.host] = scanning.sender.domain)
                   /\ c.truncated <=> <<"redirect_chain_too_long", 5>> \in r.tags
                   /\ c.truncated => Deep!Cardinality(mine) = MaxHops
  <2>1. \A i \in DOMAIN links : Lands(links[i], i)
    BY DEF DeepInv, Deep!LandingsTrue
  <2>2. Lands(w, at)
    <3>1. /\ chain.truncated => Cardinality(Mine(at)) = MaxHops
          /\ chain.resolved # chain.original => Went(at, chain.resolved)
      BY <1>2, <1>3 DEF ChainFits
    <3>2. Mine(at) = {j \in DOMAIN requests : requests[j].link = at}
      BY DEF Mine
    <3>. QED BY <1>5, <1>6, <3>1, <3>2, DeepCardinality DEF Went, host
  <2>. HIDE DEF Lands
  <2>3. \A i \in DOMAIN links' : Lands(links'[i], i)
    <3>1. \A i \in DOMAIN links' : i \in DOMAIN links \/ i = at
      BY <1>10
    <3>. QED BY <1>10, <2>1, <2>2, <3>1
  <2>. QED BY <1>2, <2>3 DEF Deep!LandingsTrue, Lands
<1>17. Deep!CacheHonest' /\ \A j \in DOMAIN requests' : Guarded(requests'[j])
  BY <1>2 DEF DeepInv, Deep!CacheHonest
<1>. QED BY <1>2, <1>13, <1>14, <1>15, <1>16, <1>17 DEF DeepInv, Following

LEMMA ScanCtiKeeps == ASSUME DeepConstants, DeepInv, Deep!ScanCti PROVE DeepInv'
<1>. DEFINE asked == IF CtiKey THEN ips ELSE {}
<1>1. PICK failing \in SUBSET asked :
        LET got == [ip \in asked |-> Deep!lookupIp(ip, ip \in failing)]
            kept == {ip \in DOMAIN got : got[ip] # "transient"}
        IN cached' = [ip \in DOMAIN cached \cup kept |-> IF ip \in kept THEN got[ip] ELSE cached[ip]]
  BY DEF Deep!ScanCti
<1>2. step = "cti" /\ step' = "lists" /\ UNCHANGED <<scanning, at, chain, requests, links, hosts>>
  BY DEF Deep!ScanCti
<1>3. Deep!CacheHonest'
  <2>. DEFINE got == [ip \in asked |-> Deep!lookupIp(ip, ip \in failing)]
              kept == {ip \in DOMAIN got : got[ip] # "transient"}
  <2>1. \A ip \in kept : (got[ip] = "miss") <=> (Cti[ip] = None)
    <3>1. SUFFICES ASSUME NEW ip \in kept PROVE (got[ip] = "miss") <=> (Cti[ip] = None)
      OBVIOUS
    <3>2. got[ip] = Deep!lookupIp(ip, ip \in failing) /\ got[ip] # "transient"
      OBVIOUS
    <3>3. ip \in DOMAIN cached /\ cached[ip] # "corrupt" => (cached[ip] = "miss" <=> Cti[ip] = None)
      BY DEF DeepInv, Deep!CacheHonest
    <3>. HIDE DEF got, kept
    <3>. QED BY <3>2, <3>3 DEF Deep!lookupIp
  <2>2. \A ip \in DOMAIN cached : cached[ip] # "corrupt" => (cached[ip] = "miss" <=> Cti[ip] = None)
    BY DEF DeepInv, Deep!CacheHonest
  <2>3. cached' = [ip \in DOMAIN cached \cup kept |-> IF ip \in kept THEN got[ip] ELSE cached[ip]]
    BY <1>1
  <2>. HIDE DEF got, kept
  <2>. QED BY <2>1, <2>2, <2>3 DEF Deep!CacheHonest
<1>. QED BY <1>2, <1>3, AsidesKeep DEF Following

LEMMA NextDeep == ASSUME DeepConstants, DeepInv, [Deep!Next]_(Deep!vars) PROVE DeepInv'
<1>1. CASE Deep!Follow
  BY <1>1, FollowKeeps
<1>2. CASE Deep!Check
  BY <1>2, CheckKeeps
<1>3. CASE Deep!Fetch \/ Deep!FetchFails
  BY <1>3, FetchKeeps
<1>4. CASE Deep!Judge
  BY <1>4, JudgeKeeps
<1>5. CASE Deep!ScanCti
  BY <1>5, ScanCtiKeeps
<1>6. CASE Deep!ScanUrls \/ Deep!UrlStageFails \/ Deep!ScanAttachments \/ Deep!FileStageFails
           \/ Deep!ResolveHosts \/ Deep!ScanIpFeeds \/ Deep!Finish
  <2>1. /\ UNCHANGED <<scanning, at, chain, requests, links, hosts, cached>>
        /\ step \notin Following /\ step' \notin Following
    BY <1>6 DEF Deep!ScanUrls, Deep!UrlStageFails, Deep!ScanAttachments, Deep!FileStageFails,
         Deep!StageFails, Deep!ResolveHosts, Deep!ScanIpFeeds, Deep!Finish, Following
  <2>2. Deep!CacheHonest'
    BY <2>1 DEF DeepInv, Deep!CacheHonest
  <2>. QED BY <2>1, <2>2, AsidesKeep
<1>7. CASE UNCHANGED Deep!vars
  <2>1. UNCHANGED <<scanning, at, chain, requests, links, hosts, cached, step>>
    BY <1>7 DEF Deep!vars
  <2>2. Deep!LandingsTrue' /\ Deep!HostsCountOnce' /\ HostsFit'
    BY <2>1, RowsKept DEF Mine
  <2>. QED BY <2>1, <2>2 DEF DeepInv, LinksFit, ChainFits, Mine, Went, Deep!CacheHonest
<1>. QED BY <1>1, <1>2, <1>3, <1>4, <1>5, <1>6, <1>7 DEF Deep!Next

LEMMA DeepImplied == ASSUME DeepConstants, DeepInv PROVE Deep!RequestsGuarded
<1>1. \A l \in 1 .. at : Cardinality(Mine(l)) <= MaxHops
  <2>1. SUFFICES ASSUME NEW l \in 1 .. at PROVE Cardinality(Mine(l)) <= MaxHops
    OBVIOUS
  <2>2. at \in Nat /\ MaxHops \in Nat
    BY DEF DeepInv, LinksFit, DeepConstants
  <2>3. CASE l # at
    BY <2>2, <2>3 DEF DeepInv, LinksFit
  <2>4. CASE l = at /\ step \in Following
    BY <2>2, <2>4 DEF DeepInv, ChainFits, Following
  <2>5. CASE l = at /\ step \notin Following
    <3>1. Mine(l) = {}
      BY <2>2, <2>5 DEF DeepInv, LinksFit, Mine
    <3>. QED BY <2>2, <3>1, FS_EmptySet
  <2>. QED BY <2>3, <2>4, <2>5
<1>2. \A l : Deep!Cardinality({i \in DOMAIN requests : requests[i].link = l}) = Cardinality(Mine(l))
  BY DeepCardinality DEF Mine
<1>. QED BY <1>1, <1>2 DEF Deep!RequestsGuarded, DeepInv, Guarded

\* Whatever name servers and sites answer and whichever calls fail: no request
\* leaves for a private target, a link ends where a request went, a host counts
\* once, and an outage is not remembered as a miss (intel/deep-scan.ts).
THEOREM ScansStayGuarded ==
  DeepConstants => (Deep!Spec => [](/\ Deep!RequestsGuarded /\ Deep!LandingsTrue
                                    /\ Deep!HostsCountOnce /\ Deep!CacheHonest))
<1>. DEFINE P == /\ Deep!RequestsGuarded /\ Deep!LandingsTrue
                 /\ Deep!HostsCountOnce /\ Deep!CacheHonest
<1>. SUFFICES ASSUME DeepConstants PROVE Deep!Spec => []P
  OBVIOUS
<1>1. Deep!Init => DeepInv
  BY InitDeep
<1>2. DeepInv /\ [Deep!Next]_(Deep!vars) => DeepInv'
  BY NextDeep
<1>3. DeepInv => P
  BY DeepImplied DEF DeepInv
<1>. QED BY <1>1, <1>2, <1>3, PTL DEF Deep!Spec

=============================================================================
