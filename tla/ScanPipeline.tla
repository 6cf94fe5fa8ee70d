---------------------------- MODULE ScanPipeline ----------------------------
(***************************************************************************)
(* runSecurityPipeline of workers/security/index.ts, stage by stage: what  *)
(* each stage reads and when, the seven rows of the trace, the branch that *)
(* answers without the classifier, the boosts after the aggregation, and   *)
(* the four writes of persistAll.  Scans of one mailbox interleave: the    *)
(* sender's history is read early and written last.                        *)
(*                                                                         *)
(* Verdict states the outcome of a whole scan as one operator; here the    *)
(* stages reach it.  The scorers are numbers of a letter, their rules are  *)
(* those of ScoreRules and LinkRules.                                      *)
(***************************************************************************)
EXTENDS Verdict, FiniteSets

LOCAL Sums == INSTANCE FiniteSetsExt

CONSTANTS
    Scans,          \* the messages scanned, one scan each
    Letters,        \* what a message may be, see LetterRecords
    Policies,       \* what the resolved settings may be
    Addresses, Names, Feeds,
    Before,         \* sender_reputation at first: [Addresses -> HistoryRecords \cup {None}]
    Acquainted,     \* sender_graph at first: [Names \X Addresses -> Nat]
    LlmScores,      \* what scoreClassification may return
    CtiPriors,      \* what firstTimeSenderPriorFromCti may return
    NoOne, None

VARIABLES
    letter,         \* letter[s]: the message of scan s
    pc,             \* the stage scan s is at
    facts,          \* what scan s has found out so far
    rows,           \* the StageTracer's records of scan s
    verdict,        \* the FinalVerdict of scan s, None before
    writes,         \* what became of each write of persistAll
    stored,         \* the mailbox: verdict and trace of each message
    reputation,     \* the mailbox: sender_reputation
    graph,          \* the mailbox: sender_graph
    selectors       \* DKIM observations of a scan: "none", "sent", "landed", "lost"

vars == <<letter, pc, facts, rows, verdict, writes, stored, reputation, graph, selectors>>

Stages == {"auth", "url", "reputation", "intel", "triage", "llm", "verdict"}
Statuses == {"ok", "skipped", "failed", "short_circuited"}
Writes == {"verdict", "urls", "reputation", "graph"}
Tiers == {"none", "bloom", "derived", "confirmed"}
Places == {"new", "intel", "reputation", "prior", "detect", "lookalike", "triage", "llm",
           "verdict", "store", "urls", "history", "graph", "done", "skipped", "failed"}

LetterRecords ==
    [sender : Addresses \cup {NoOne}, name : Names \cup {NoOne}, links : 0..3,
     auth : Int, url : Nat, rest : Int, lookalike : 0..25,
     dmarcPass : BOOLEAN, identified : BOOLEAN, allowlisted : BOOLEAN,
     badAttachment : BOOLEAN, signed : BOOLEAN, routed : BOOLEAN,
     folder : {"none", "skip_all", "skip_classifier"}, stateless : BOOLEAN]

PolicyRecords ==
    [enabled : BOOLEAN, learning : BOOLEAN, demote : BOOLEAN, intelBlock : BOOLEAN,
     trustAllow : BOOLEAN, senderGraph : BOOLEAN, ownLookalike : BOOLEAN,
     ctiKey : BOOLEAN, minMessages : Nat]

\* total / count is avg_score; the cap of message_count at 1000 is not reached.
HistoryRecords == [count : Nat, total : Nat, flagged : BOOLEAN]
-----------------------------------------------------------------------------
(* The scorers that read the mailbox. *)

scoreReputation(rep, prior) ==
    IF rep = None \/ rep.count = 0 THEN IF prior # None THEN prior ELSE 5
    ELSE (IF rep.flagged THEN 15 ELSE 0) + (IF rep.total > 70 * rep.count THEN 10 ELSE 0)

\* SenderGraphDetector.score: a known name from an address it never used.
TotalHistory(name) == Sums!MapThenSumSet(LAMBDA a : graph[<<name, a>>], Addresses)
detectorScore(name, sender) ==
    IF \/ \A a \in Addresses : graph[<<name, a>>] = 0
       \/ sender # NoOne /\ graph[<<name, sender>>] > 0
    THEN 0
    ELSE IF TotalHistory(name) >= 5 THEN 25 ELSE IF TotalHistory(name) >= 2 THEN 15 ELSE 10

\* The facts triage and the aggregation see, as Verdict names them.
FactsOf(m, f) ==
    [folder        |-> IF m.folder = "skip_all" THEN "skip_all" ELSE "none",
     flagged       |-> f.rep # None /\ f.rep.flagged,
     intel         |-> f.match,
     derivedFeeds  |-> Cardinality(f.feeds),
     badAttachment |-> m.badAttachment,
     dmarcPass     |-> m.dmarcPass,
     identified    |-> m.identified,
     allowlisted   |-> m.allowlisted,
     history       |-> /\ f.rep # None
                       /\ f.policy.minMessages > 0
                       /\ f.rep.count >= f.policy.minMessages
                       /\ f.rep.total < 20 * f.rep.count,
     aggregate     |-> m.auth + m.url + scoreReputation(f.rep, f.prior) + f.llm + m.rest,
     boosts        |-> f.hours + f.detector + f.lookalike,
     confident     |-> f.confident]
TierOf(m, f) == TriageTier(FactsOf(m, f), f.policy)
-----------------------------------------------------------------------------
(* StageTracer *)

Traces == [Stages -> [status : Statuses, contrib : Int]]
Row(status, n) == [status |-> status, contrib |-> n]
Fillers == [i \in Stages |-> Row("skipped", 0)]
measure(t, i) == [t EXCEPT ![i].status = "ok"]
measureFailed(t, i) == [t EXCEPT ![i].status = "failed"]
setContrib(t, i, n) == [t EXCEPT ![i].contrib = n]
markSkipped(t, i) == [t EXCEPT ![i] = Row("skipped", 0)]
shortCircuitTriage(t, n) == [t EXCEPT !["triage"] = Row("short_circuited", n)]
completeVerdict(t, n) == [t EXCEPT !["verdict"] = Row("ok", n)]

\* What a scan knows: the settings it resolved, the link it is at, its match and
\* the feeds with a derived hit, what the detectors and the classifier scored.
\* `heard' is what the feeds answered so far; the code keeps only the match.
FoundRecords ==
    [policy : Policies \cup {None}, at : Nat, match : Tiers, feeds : SUBSET Feeds,
     heard : SUBSET Tiers, rep : HistoryRecords \cup {None}, prior : CtiPriors \cup {None},
     detector : {0, 10, 15, 25}, lookalike : 0..25, llm : Nat, hours : {0, 10},
     confident : BOOLEAN]
NoFacts == [policy |-> None, at |-> 1, match |-> "none", feeds |-> {}, heard |-> {}, rep |-> None, prior |-> None,
            detector |-> 0, lookalike |-> 0, llm |-> 0, hours |-> 0, confident |-> TRUE]

TypeOK ==
    /\ letter \in [Scans -> Letters]
    /\ pc \in [Scans -> Places]
    /\ facts \in [Scans -> FoundRecords]
    /\ rows \in [Scans -> Traces]
    /\ verdict \in [Scans -> Verdicts \cup {None}]
    /\ writes \in [Scans -> [Writes -> {"unwritten", "landed", "lost"}]]
    /\ stored \in [Scans -> [verdict : Verdicts, rows : Traces] \cup {None}]
    /\ reputation \in [Addresses -> HistoryRecords \cup {None}]
    /\ graph \in [Names \X Addresses -> Nat]
    /\ selectors \in [Scans -> {"none", "sent", "landed", "lost"}]

Init ==
    /\ letter \in [Scans -> Letters]
    /\ pc = [s \in Scans |-> "new"]
    /\ facts = [s \in Scans |-> NoFacts]
    /\ rows = [s \in Scans |-> Fillers]
    /\ verdict = [s \in Scans |-> None]
    /\ writes = [s \in Scans |-> [w \in Writes |-> "unwritten"]]
    /\ stored = [s \in Scans |-> None]
    /\ reputation = Before
    /\ graph = Acquainted
    /\ selectors = [s \in Scans |-> "none"]
-----------------------------------------------------------------------------
(* The stages *)

Box == <<stored, reputation, graph, selectors, writes>>
At(s, from, to) == pc[s] = from /\ pc' = [pc EXCEPT ![s] = to] /\ UNCHANGED letter

\* The settings are resolved once; a mailbox with security off is not scanned.
Skip(s) ==
    /\ At(s, "new", "skipped")
    /\ \E p \in Policies : ~p.enabled
    /\ UNCHANGED <<facts, rows, verdict, Box>>

\* The two pure stages; the DKIM observations leave for the mailbox unawaited.
Start(s) ==
    /\ At(s, "new", "intel")
    /\ \E p \in Policies : p.enabled /\ facts' = [facts EXCEPT ![s].policy = p]
    /\ rows' = [rows EXCEPT ![s] =
         setContrib(measure(setContrib(measure(@, "auth"), "auth", letter[s].auth), "url"),
                    "url", letter[s].url)]
    /\ selectors' = [selectors EXCEPT ![s] =
         IF letter[s].signed /\ ~letter[s].stateless THEN "sent" ELSE @]
    /\ UNCHANGED <<verdict, stored, reputation, graph, writes>>

\* R2 refuses the settings: the caller files the message without a verdict.
Unresolved(s) == At(s, "new", "failed") /\ UNCHANGED <<facts, rows, verdict, Box>>

Observed(s) ==
    /\ selectors[s] = "sent"
    /\ \E o \in {"landed", "lost"} : selectors' = [selectors EXCEPT ![s] = o]
    /\ UNCHANGED <<letter, pc, facts, rows, verdict, stored, reputation, graph, writes>>

\* One link: a confirmed hit ends the walk, a derived one displaces a bloom hit.
Hits == {[tier |-> "none", feeds |-> {}], [tier |-> "bloom", feeds |-> {}],
         [tier |-> "confirmed", feeds |-> {}]}
          \cup {[tier |-> "derived", feeds |-> F] : F \in SUBSET Feeds \ {{}}}
better(match, tier) ==
    IF tier = "none" THEN match
    ELSE IF match = "none" \/ (tier = "derived" /\ match # "derived") THEN tier
    ELSE match
LookUp(s) ==
    LET f == facts[s]
    IN  /\ pc[s] = "intel"
        /\ f.at <= letter[s].links
        /\ \E hit \in Hits :
             facts' = [facts EXCEPT ![s] =
               [f EXCEPT !.feeds = f.feeds \cup hit.feeds,
                         !.heard = f.heard \cup {hit.tier},
                         !.match = IF hit.tier = "confirmed" THEN "confirmed"
                                   ELSE better(f.match, hit.tier),
                         !.at = IF hit.tier = "confirmed" THEN letter[s].links + 1 ELSE f.at + 1]]
        /\ UNCHANGED <<letter, pc, rows, verdict, Box>>
LookedUp(s) ==
    /\ At(s, "intel", "reputation")
    /\ facts[s].at > letter[s].links
    /\ rows' = [rows EXCEPT ![s] = measure(@, "intel")]
    /\ UNCHANGED <<facts, verdict, Box>>

\* A stateless scan has no mailbox to ask.
Asks(s) == ~letter[s].stateless /\ letter[s].sender # NoOne
ReadReputation(s) ==
    /\ At(s, "reputation", "prior")
    /\ facts' = [facts EXCEPT ![s].rep = IF Asks(s) THEN reputation[letter[s].sender] ELSE None]
    /\ rows' = [rows EXCEPT ![s] = measure(@, "reputation")]
    /\ UNCHANGED <<verdict, Box>>

\* The mailbox does not answer: the stage throws, and the pipeline with it.
ReputationFails(s) ==
    /\ At(s, "reputation", "failed")
    /\ Asks(s)
    /\ rows' = [rows EXCEPT ![s] = measureFailed(@, "reputation")]
    /\ UNCHANGED <<facts, verdict, Box>>

\* Only an unknown sender's address is looked up; lookupIp swallows its errors.
AskCti(s) ==
    LET f == facts[s]
    IN  /\ At(s, "prior", "detect")
        /\ \E p \in IF (f.rep = None \/ f.rep.count = 0) /\ f.policy.ctiKey /\ letter[s].routed
                    THEN CtiPriors \cup {None} ELSE {None} :
             /\ facts' = [facts EXCEPT ![s].prior = p]
             /\ rows' = [rows EXCEPT ![s] =
                           setContrib(@, "reputation", scoreReputation(f.rep, p))]
        /\ UNCHANGED <<verdict, Box>>

\* A detector that fails scores nothing.
Detect(s) ==
    /\ At(s, "detect", "lookalike")
    /\ \E n \in IF ~letter[s].stateless /\ facts[s].policy.senderGraph /\ letter[s].name # NoOne
                THEN {0, detectorScore(letter[s].name, letter[s].sender)} ELSE {0} :
         facts' = [facts EXCEPT ![s].detector = n]
    /\ UNCHANGED <<rows, verdict, Box>>

\* Without the organisation's settings fewer own domains are compared.
CompareOwnDomains(s) ==
    /\ At(s, "lookalike", "triage")
    /\ \E n \in IF facts[s].policy.ownLookalike THEN {0, letter[s].lookalike} ELSE {0} :
         facts' = [facts EXCEPT ![s].lookalike = n]
    /\ UNCHANGED <<rows, verdict, Box>>

\* A tier that fires answers for all later stages; what the intel stage found is
\* named on its row and counted on triage's.
ShortCircuit(s) ==
    LET v == LearningCap(TriageVerdict(TierOf(letter[s], facts[s])), facts[s].policy)
    IN  /\ At(s, "triage", IF letter[s].stateless THEN "done" ELSE "store")
        /\ TierOf(letter[s], facts[s]) # "none"
        /\ verdict' = [verdict EXCEPT ![s] = v]
        /\ rows' = [rows EXCEPT ![s] = completeVerdict(setContrib(shortCircuitTriage(
                      measure(@, "triage"), v.score), "intel", 0), v.score)]
        /\ UNCHANGED <<facts, Box>>
PassTriage(s) ==
    /\ At(s, "triage", "llm")
    /\ TierOf(letter[s], facts[s]) = "none"
    /\ rows' = [rows EXCEPT ![s] = measure(@, "triage")]
    /\ UNCHANGED <<facts, verdict, Box>>

\* The classifier answers, an error and a timeout included, or is skipped.
Classify(s) ==
    /\ At(s, "llm", "verdict")
    /\ IF letter[s].folder = "skip_classifier"
       THEN rows' = [rows EXCEPT ![s] = markSkipped(@, "llm")] /\ UNCHANGED facts
       ELSE \E n \in LlmScores :
              /\ facts' = [facts EXCEPT ![s].llm = n]
              /\ rows' = [rows EXCEPT ![s] = setContrib(measure(@, "llm"), "llm", n)]
    /\ UNCHANGED <<verdict, Box>>

\* The aggregation and what is applied to it, in the order of the code.
applyBoost(v, n) == IF n > 0 THEN Boost(v, n) ELSE v
IntelApplied(f) == applyBoost(Aggregate(f.aggregate), IntelBoost(f.intel))
IntelFloor(f) ==
    IF f.intel = "derived" /\ f.derivedFeeds >= 2 /\ IntelApplied(f).score < QuarantineAt
    THEN QuarantineAt - IntelApplied(f).score ELSE 0
Boosted(f, hours, detector, lookalike) ==
    applyBoost(applyBoost(applyBoost(applyBoost(IntelApplied(f), IntelFloor(f)), hours), detector),
               lookalike)
Conclude(s) ==
    /\ At(s, "verdict", IF letter[s].stateless THEN "done" ELSE "store")
    /\ \E hours \in {0, 10}, confident \in BOOLEAN :
         LET f == FactsOf(letter[s], facts[s])  p == facts[s].policy
             d == facts[s].detector  l == facts[s].lookalike
             capped == LearningCap(Boosted(f, hours, d, l), p)
             v == ConfidenceDemote(capped, [f EXCEPT !.confident = confident], p)
             named == IF f.intel = "none" THEN rows[s]
                      ELSE setContrib(rows[s], "intel", IntelBoost(f.intel) + IntelFloor(f))
             linked == IF l > 0 THEN setContrib(named, "url", letter[s].url + l) ELSE named
         IN  /\ facts' = [facts EXCEPT ![s] =
                            [facts[s] EXCEPT !.hours = hours, !.confident = confident]]
             /\ verdict' = [verdict EXCEPT ![s] = v]
             /\ rows' = [rows EXCEPT ![s] = completeVerdict(measure(linked, "verdict"), v.score)]
    /\ UNCHANGED Box
-----------------------------------------------------------------------------
(* persistAll: four writes, each of which may fail alone. *)

Due(s, w) == CASE w = "verdict"    -> TRUE
               [] w = "urls"       -> letter[s].links > 0
               [] w = "reputation" -> letter[s].sender # NoOne
               [] OTHER            -> letter[s].sender # NoOne /\ letter[s].name # NoOne

Attempt(s, w, landed) ==
    writes' = [writes EXCEPT ![s][w] =
                 IF ~Due(s, w) THEN @ ELSE IF landed THEN "landed" ELSE "lost"]

PersistVerdict(s) ==
    /\ At(s, "store", "urls")
    /\ \E ok \in BOOLEAN :
         /\ Attempt(s, "verdict", ok)
         /\ stored' = [stored EXCEPT ![s] =
              IF ok THEN [verdict |-> verdict[s], rows |-> rows[s]] ELSE @]
    /\ UNCHANGED <<facts, rows, verdict, reputation, graph, selectors>>

InsertUrls(s) ==
    /\ At(s, "urls", "history")
    /\ \E ok \in BOOLEAN : Attempt(s, "urls", ok)
    /\ UNCHANGED <<facts, rows, verdict, stored, reputation, graph, selectors>>

grown(old, n) ==
    IF old = None THEN [count |-> 1, total |-> n, flagged |-> FALSE]
    ELSE [old EXCEPT !.count = old.count + 1, !.total = old.total + n]
upsertSenderReputation(a, n) ==
    reputation' = [reputation EXCEPT ![a] = grown(reputation[a], n)]
UpdateHistory(s) ==
    /\ At(s, "history", "graph")
    /\ \E ok \in BOOLEAN :
         /\ Attempt(s, "reputation", ok)
         /\ IF ok /\ Due(s, "reputation")
            THEN upsertSenderReputation(letter[s].sender, verdict[s].score)
            ELSE UNCHANGED reputation
    /\ UNCHANGED <<facts, rows, verdict, stored, graph, selectors>>

UpdateGraph(s) ==
    /\ At(s, "graph", "done")
    /\ \E ok \in BOOLEAN :
         /\ Attempt(s, "graph", ok)
         /\ graph' = IF ok /\ Due(s, "graph")
                     THEN [graph EXCEPT ![<<letter[s].name, letter[s].sender>>] = @ + 1] ELSE graph
    /\ UNCHANGED <<facts, rows, verdict, stored, reputation, selectors>>

\* The user marks a sender the mailbox has a row of.
FlagSender(a) ==
    /\ reputation[a] # None
    /\ \E b \in BOOLEAN : reputation' = [reputation EXCEPT ![a].flagged = b]
    /\ UNCHANGED <<letter, pc, facts, rows, verdict, stored, graph, selectors, writes>>

Step(s) ==
    \/ Skip(s) \/ Start(s) \/ Unresolved(s) \/ Observed(s) \/ LookUp(s) \/ LookedUp(s)
    \/ ReadReputation(s) \/ ReputationFails(s) \/ AskCti(s) \/ Detect(s)
    \/ CompareOwnDomains(s) \/ ShortCircuit(s) \/ PassTriage(s) \/ Classify(s)
    \/ Conclude(s) \/ PersistVerdict(s) \/ InsertUrls(s) \/ UpdateHistory(s)
    \/ UpdateGraph(s)

Next == (\E s \in Scans : Step(s)) \/ (\E a \in Addresses : FlagSender(a))

Spec == Init /\ [][Next]_vars
-----------------------------------------------------------------------------
(* What a scan promises. *)

\* The match is the best tier any looked-up link had, in whatever order the
\* links stand, so a bloom hit never hides a listed link (the intel stage).
MatchIsBest ==
    \A s \in Scans :
      LET heard == facts[s].heard  m == facts[s].match
      IN  /\ m = "confirmed" <=> "confirmed" \in heard
          /\ m = "derived" <=> "derived" \in heard /\ "confirmed" \notin heard
          /\ m = "none" <=> heard \subseteq {"none"}

\* The stages reach the verdict that Verdict's SyncVerdict gives for the facts
\* they found, whatever other scans did to the mailbox meanwhile (index.ts).
StagesAgree ==
    \A s \in Scans : verdict[s] # None =>
      verdict[s] = SyncVerdict(FactsOf(letter[s], facts[s]), facts[s].policy)

\* The trace tells the verdict: its last row is the score, a tier that fired
\* stands on triage's row alone and no classifier was asked (StageTracer).
TraceTells ==
    \A s \in Scans : verdict[s] # None =>
      /\ rows[s]["verdict"] = Row("ok", verdict[s].score)
      /\ TierOf(letter[s], facts[s]) # "none" =>
           /\ rows[s]["triage"] = Row("short_circuited", verdict[s].score)
           /\ rows[s]["llm"] = Row("skipped", 0)
           /\ rows[s]["intel"].contrib = 0
      /\ TierOf(letter[s], facts[s]) = "none" => rows[s]["triage"] = Row("ok", 0)
      /\ \A i \in Stages : rows[s][i].status # "failed"

\* What the rows account for.  A full scan's score is the clamped weight of its
\* rows and of the scorers that have none, plus the boosts: none is counted twice
\* or left out, the corroboration floor included, though a lookalike's stands on
\* the url row.  Where triage answered its row alone is the score, and the rows
\* before it keep what their scorers gave (StageTracer).
RowsAddUp ==
    \A s \in Scans : verdict[s] # None =>
      LET m == letter[s]  f == facts[s]  r == rows[s]
          weighed == r["auth"].contrib + (r["url"].contrib - f.lookalike)
                       + r["reputation"].contrib + r["llm"].contrib
      IN  IF TierOf(m, f) = "none"
          THEN verdict[s].score = AtMostMax(Clamp(weighed + m.rest) + r["intel"].contrib
                                              + f.hours + f.detector + f.lookalike)
          ELSE /\ verdict[s].score = r["triage"].contrib + r["llm"].contrib + r["intel"].contrib
               /\ r["auth"].contrib = m.auth /\ r["url"].contrib = m.url
               /\ r["reputation"].contrib = scoreReputation(f.rep, f.prior)

\* The mailbox keeps exactly what the caller was told, and a scan without a
\* mailbox or without a verdict wrote nothing (persistAll).
StoredAsTold ==
    \A s \in Scans :
      /\ stored[s] # None => stored[s] = [verdict |-> verdict[s], rows |-> rows[s]]
      /\ letter[s].stateless \/ verdict[s] = None =>
           stored[s] = None /\ \A w \in Writes : writes[s][w] = "unwritten"
      /\ letter[s].stateless => selectors[s] = "none"

\* A write that fails takes no other with it: a scan that ends tried all it owed.
WritesIndependent ==
    \A s \in Scans : pc[s] = "done" /\ ~letter[s].stateless =>
      \A w \in Writes : writes[s][w] # "unwritten" <=> Due(s, w)

\* Scans that end in any order lose none of each other's messages: the history
\* of a sender grew by the scans whose update landed (upsertSenderReputation).
Told(a) == {s \in Scans : letter[s].sender = a /\ writes[s]["reputation"] = "landed"}
Count(history) == IF history = None THEN 0 ELSE history.count
HistoryCounts ==
    \A a \in Addresses : Count(reputation[a]) = Count(Before[a]) + Cardinality(Told(a))

PipelineSound ==
    MatchIsBest /\ StagesAgree /\ TraceTells /\ RowsAddUp /\ StoredAsTold /\ WritesIndependent /\ HistoryCounts
=============================================================================
