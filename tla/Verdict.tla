------------------------------ MODULE Verdict ------------------------------
(***************************************************************************)
(* The scoring rules of the security pipeline, without their I/O: how a    *)
(* score becomes an action, which triage tier answers before the scorers,  *)
(* what each boost, cap and demotion does to a verdict, when the deep scan *)
(* upgrades a stored one, and what a gateway does with an action.          *)
(*                                                                         *)
(* A verdict is [action, score]; explanations, signals and traces are left *)
(* out.  The sum of the five scorers is one number of the facts, because   *)
(* every rule below only looks at that sum.                                *)
(***************************************************************************)
EXTENDS Integers

CONSTANTS
    TagAt,          \* security.thresholds.tag
    QuarantineAt,   \* security.thresholds.quarantine
    BlockAt         \* security.thresholds.block

ASSUME ThresholdAssumption ==
    /\ TagAt \in Nat
    /\ QuarantineAt \in Nat
    /\ BlockAt \in Nat

MaxScore == 100
DeepScanMaxAdd == 40
YaraScoreCap == 30

Actions == {"allow", "tag", "quarantine", "block"}
Isolating == {"quarantine", "block"}

Verdicts == [action : Actions, score : 0..MaxScore]

\* What one scan can find out about a message.
FactRecords ==
    [folder        : {"none", "skip_all"},      \* the folder's policy mode
     flagged       : BOOLEAN,                   \* sender flagged in this mailbox
     intel         : {"none", "bloom", "derived", "confirmed"},
     derivedFeeds  : 0..3,                      \* feeds with a derived hit
     badAttachment : BOOLEAN,                   \* the attachment gate says block
     dmarcPass     : BOOLEAN,
     identified    : BOOLEAN,   \* trusted authserv-id, header.from, bound From
     allowlisted   : BOOLEAN,
     history       : BOOLEAN,   \* enough clean messages from this sender
     aggregate     : Int,       \* the scorers' sum, mitigations applied
     boosts        : 0..65,     \* off-hours, sender graph, own-domain lookalike
     confident     : BOOLEAN]   \* confidence >= min_confidence_for_quarantine

\* The resolved settings the pipeline looks at.
SecuritySettings ==
    [enabled : BOOLEAN, learning : BOOLEAN, demote : BOOLEAN,
     intelBlock : BOOLEAN, trustAllow : BOOLEAN]
-----------------------------------------------------------------------------
(* Scores and actions. *)

Tier(a) == CASE a = "block"      -> 3
             [] a = "quarantine" -> 2
             [] a = "tag"        -> 1
             [] OTHER            -> 0

ActionFor(s) ==
    IF s >= BlockAt THEN "block"
    ELSE IF s >= QuarantineAt THEN "quarantine"
    ELSE IF s >= TagAt THEN "tag"
    ELSE "allow"

AtMostMax(n) == IF n > MaxScore THEN MaxScore ELSE n
Clamp(n) == IF n < 0 THEN 0 ELSE AtMostMax(n)

Judge(s) == [action |-> ActionFor(s), score |-> s]

Aggregate(n) == Judge(Clamp(n))

Boost(v, b) == Judge(AtMostMax(v.score + b))

IntelBoost(intel) == CASE intel \in {"derived", "confirmed"} -> 20
                       [] intel = "bloom"                    -> 5
                       [] OTHER                              -> 0

\* Derived hits in two feeds corroborate each other up to the quarantine
\* threshold.
Corroborate(v, f) ==
    IF f.intel = "derived" /\ f.derivedFeeds >= 2 /\ v.score < QuarantineAt
    THEN Boost(v, QuarantineAt - v.score)
    ELSE v

LearningCap(v, s) ==
    IF s.learning /\ v.action \in Isolating THEN [v EXCEPT !.action = "tag"] ELSE v

ConfidenceDemote(v, f, s) ==
    IF s.demote /\ v.action = "quarantine" /\ ~f.confident
    THEN [v EXCEPT !.action = "tag"]
    ELSE v
-----------------------------------------------------------------------------
(* Triage: the tiers that answer without the classifier, in their order.    *)

FolderBypass(f) == f.folder = "skip_all"
HardBlock(f, s) == s.intelBlock /\ (f.flagged \/ f.intel = "confirmed")
HardAllow(f, s) ==
    /\ s.trustAllow
    /\ f.dmarcPass
    /\ f.identified
    /\ f.allowlisted \/ (f.history /\ ~f.flagged)

TriageTier(f, s) ==
    IF FolderBypass(f) THEN "folder_bypass"
    ELSE IF HardBlock(f, s) THEN "hard_block"
    ELSE IF f.badAttachment THEN "attachment_block"
    ELSE IF HardAllow(f, s) THEN "hard_allow"
    ELSE "none"

TriageVerdict(t) ==
    IF t \in {"hard_block", "attachment_block"}
    THEN [action |-> "quarantine", score |-> 100]
    ELSE [action |-> "allow", score |-> 0]
-----------------------------------------------------------------------------
(* The pipeline's verdict, and what may change a stored one. *)

FullVerdict(f, s) ==
    LET scored   == Boost(Aggregate(f.aggregate), IntelBoost(f.intel))
        boosted  == Boost(Corroborate(scored, f), f.boosts)
    IN  ConfidenceDemote(LearningCap(boosted, s), f, s)

SyncVerdict(f, s) ==
    LET t == TriageTier(f, s)
    IN  IF t = "none" THEN FullVerdict(f, s) ELSE LearningCap(TriageVerdict(t), s)

\* Mutation of DeepScore: the sum is not capped.
DeepScoreUncapped(stored, added) == stored + added

\* runDeepScan's rule: the threshold action of the raised score replaces the
\* stored verdict only when its tier is above the one the scan started from.
DeepScore(stored, added) == AtMostMax(stored + added)
Upgrades(base, stored, added) ==
    /\ added > 0
    /\ Tier(ActionFor(DeepScore(stored, added))) > Tier(base)

\* applyYaraSignal's rule on the stored score.
YaraScore(stored, delta) ==
    IF AtMostMax(stored + delta) > stored THEN AtMostMax(stored + delta) ELSE stored

\* behaviorFor: a missing verdict relays, and a recipient without a mailbox has
\* nowhere to hold mail.
Behaviors == {"relay", "hold", "drop"}
BehaviorFor(a, policy, passthrough) ==
    IF a = "none" \/ (passthrough /\ policy[a] = "hold") THEN "relay" ELSE policy[a]
=============================================================================
