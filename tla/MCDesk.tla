------------------------------- MODULE MCDesk -------------------------------
(***************************************************************************)
(* Small instances of the components around the mail pipeline.  They       *)
(* share no state, so a behaviour is about one of them, the one `part'     *)
(* names: v1, v2, ... stand for its variables, and what it does not use is *)
(* None.                                                                   *)
(***************************************************************************)
EXTENDS Naturals, FiniteSets, TLC, Integers, Sequences

CONSTANTS None

VARIABLES part, v1, v2, v3, v4, v5, v6, v7, v8, v9, v10, v11, v12, v13, v14

vars == <<part, v1, v2, v3, v4, v5, v6, v7, v8, v9, v10, v11, v12, v13, v14>>
Unused(from) ==
  /\ (from <= 4 => v4 = None) /\ (from <= 5 => v5 = None) /\ (from <= 6 => v6 = None)
  /\ (from <= 7 => v7 = None) /\ (from <= 8 => v8 = None) /\ (from <= 9 => v9 = None)
  /\ (from <= 10 => v10 = None)
  /\ v11 = None /\ v12 = None /\ v13 = None /\ v14 = None
Same == UNCHANGED <<v11, v12, v13, v14>>

(* -------------------------------------------------------------- InboxWalk --- *)
\* Threads of two messages with one and with two subjects, legacy mail without
\* a thread, equal dates, a draft.

CONSTANT NoThread
mailOf(id, folder, thread, subject, date) ==
  [id |-> id, folder |-> folder, thread |-> thread, subject |-> subject, date |-> date,
   read |-> id % 2 = 0, reply |-> IF folder = "draft" THEN 4 ELSE NoThread]
SeedFolders == [f \in {"inbox", "sent", "draft", "trash"} |->
  CASE f = "inbox" -> "Inbox" [] f = "sent" -> "Sent"
    [] f = "draft" -> "Drafts" [] OTHER -> "Trash"]
SmallSeeds == [m \in {"a", "b"} |-> IF m = "a" THEN
  {{mailOf(1, "inbox", 1, "s", 5), mailOf(2, "inbox", 1, "s", 6), mailOf(3, "inbox", NoThread, "s", 4)},
   {mailOf(1, "inbox", 1, "s", 5), mailOf(2, "inbox", 1, "t", 6), mailOf(3, "inbox", 3, "s", 6)}}
  ELSE
  {{mailOf(4, "inbox", 4, "u", 6), mailOf(5, "inbox", NoThread, "", 3), mailOf(6, "draft", 4, "u", 7)}}]
OneLate == {<<"a", mailOf(7, "inbox", 1, "s", 9)>>, <<"b", mailOf(8, "inbox", 8, "v", 9)>>}

Walk == INSTANCE InboxWalk WITH
  Mailboxes <- {"a", "b"}, Folders <- SeedFolders, Seeds <- SmallSeeds, Late <- OneLate,
  Limit <- 1, MaxChanges <- 2, MaxFaults <- 1,
  mail <- v1, pc <- v2, waiting <- v3, rows <- v4, cursor <- v5, seen <- v6,
  changes <- v7, touched <- v8, failed <- v9

(* ------------------------------------------------------------ MailFolders --- *)

OwnSlug == [n \in {"mine"} |-> "own"]
Folds == INSTANCE MailFolders WITH
  Ids <- {"i1", "i2"}, FolderIds <- {"inbox", "sent", "spam", "draft", "own"}, Names <- {"mine"},
  Slug <- OwnSlug, Blocked <- {"i1"}, Verified <- {"own"}, Slots <- {"s1"},
  MaxFaults <- 1, MaxBumps <- 1,
  folders <- v1, emails <- v2, objects <- v3, bumps <- v4, stranded <- v5, faults <- v6, op <- v7

(* ------------------------------------------------------------ ClientCache --- *)

Cache == INSTANCE ClientCache WITH
  Emails <- {"e1"}, Mutations <- {"x1", "x2"}, MaxPolls <- 1,
  server <- v1, cache <- v2, fetch <- v3, mut <- v4, polls <- v5, lost <- v6

(* ---------------------------------------------------------------- Compose --- *)
\* A body the preview underrates.

SomePreview == [f \in {"", "friend", "stranger"} \X {"plain", "payment"} |->
  IF f[1] = "stranger" THEN 1 ELSE 0]
SomeRequired == [f \in {"", "friend", "stranger"} \X {"plain", "payment"} |->
  CASE f = <<"stranger", "payment">> -> 2 [] f[1] = "stranger" \/ f[2] = "payment" -> 1 [] OTHER -> 0]
Comp == INSTANCE Compose WITH
  Recipients <- {"", "friend", "stranger"}, Nobody <- "", Texts <- {"plain", "payment"},
  Preview <- SomePreview, Required <- SomeRequired, MaxEdits <- 3, MaxCalls <- 3,
  fields <- v1, phrase <- v2, timer <- v3, seq <- v4, previews <- v5, shown <- v6,
  send <- v7, sent <- v8, edits <- v9, calls <- v10

(* --------------------------------------------------------------- CaseBook --- *)
\* "cases": a report, the summary and the page; "submit": two submissions.

BothDomains == [e \in {"e1"} |-> {"d1", "d2"}]
Book == INSTANCE CaseBook WITH
  Emails <- {"e1"}, DomainsOf <- BothDomains, Domains <- {"d1", "d2"}, Blocked <- {},
  Cases <- {"c1"}, Reports <- {"r1"}, Submissions <- {"s1", "s2"}, Cap <- 1,
  MaxFaults <- 1, MaxEdits <- 2, MaxPolls <- 2,
  stored <- v1, notPhish <- v2, book <- v3, job <- v4, report <- v5, flagged <- v6, hub <- v7,
  sub <- v8, kv <- v9, accepted <- v10, page <- v11, disturbed <- v12, faults <- v13, edits <- v14

(* ---------------------------------------------------------- SettingsStore --- *)
\* Two isolates, a writer and a reader of the three tiers, with legacy blobs
\* that carry one malformed or partial field.

tier(s, w, other) ==
  [security |-> s, intel |-> None, webhook |-> w, sidecar |-> None, relay |-> None,
   model |-> None, rest |-> None, rules |-> {}, domains |-> {}, honeypot |-> None]
secure(set, allow, hours, full) == [set |-> set, allow |-> allow, hours |-> hours, full |-> full]
blank == tier(None, None, None)
ruleOf(m, a) == [match |-> m, action |-> a]
SomeLegacy == [k \in {"mailbox", "domain", "org"} |->
  CASE k = "mailbox" ->
         {[blank EXCEPT !.security = secure({"enabled"}, {"dom"}, {"timezone"}, FALSE), !.honeypot = "on"],
          [blank EXCEPT !.webhook = "bad", !.sidecar = "bad", !.rules = {ruleOf("dom", "spam")}]}
    [] k = "domain" ->
         {[blank EXCEPT !.webhook = "on", !.relay = "bad", !.rules = {ruleOf("dom", "reject")}]}
    [] k = "org" ->
         {None, [blank EXCEPT !.security = secure({}, {"addr"}, {"start_hour"}, FALSE), !.webhook = "on",
                              !.intel = [hub |-> "ok", feeds |-> {"good"}], !.domains = {"own"}]}]
SomeBodies == [k \in {"mailbox", "domain", "org"} |->
  CASE k = "mailbox" -> {[blank EXCEPT !.security = secure({}, {}, {}, TRUE), !.webhook = "empty"]}
    [] k = "domain" -> {[blank EXCEPT !.security = secure({}, {"addr"}, {}, FALSE)]}
    [] k = "org" -> {[blank EXCEPT !.model = "listed", !.intel = [hub |-> None, feeds |-> {}]]}]
Set == INSTANCE SettingsStore WITH
  Matches <- {"addr", "dom"}, Addresses <- {"addr"}, Senders <- {"s1", "s2"},
  Covers <- [m \in {"addr", "dom"} |-> IF m = "addr" THEN {"s1"} ELSE {"s1", "s2"}],
  Isolates <- {"i1", "i2"}, Requests <- {"w", "h"}, Readers <- {"h"},
  Legacy <- SomeLegacy, Bodies <- SomeBodies, Rules <- {ruleOf("addr", "drop")},
  Domains <- {"new"}, Seeded <- TRUE, OwnDomain <- "own", MaxFaults <- 1, MaxPuts <- 1,
  store <- v1, cache <- v2, req <- v3, last <- v4, faults <- v5, puts <- v6

(* ------------------------------------------------------------ FeedRefresh --- *)
\* Links with and without path segments and a hash; the third version of the
\* feed is longer than the cap.

link(tokens, hash) ==
  [base |-> "p", tokens |-> tokens, hash |-> hash, path |-> FALSE, ip |-> 5, prefix |-> 2]
AllLinks ==
  {link(t, h) : t \in {<<>>, <<"a">>, <<"b">>, <<"a", "b">>, <<"b", "a">>, <<"a", "b", "c">>, <<"a", "a">>},
                h \in {"", "h"}}
ThreeContents ==
  << <<link(<<"a">>, ""), link(<<"a", "b">>, "h")>>, <<link(<<"a">>, "")>>,
     <<link(<<>>, ""), link(<<"a">>, ""), link(<<"a", "b">>, "h")>> >>
Feed == INSTANCE FeedRefresh WITH
  Mailboxes <- {"m1", "m2"}, Contents <- ThreeContents, Links <- AllLinks, NoHash <- "", Cap <- 2,
  FalseHits <- {link(<<"b">>, "")}, Width <- 3, MaxExpired <- 1, MaxDeaths <- 1, MaxMoves <- 2,
  kind <- v1, server <- v2, kv <- v3, state <- v4, recent <- v5, owner <- v6, run <- v7,
  expired <- v8, deaths <- v9, moves <- v10

(* ---------------------------------------------------------- CatchallIntel --- *)
\* Two sources; one tries a local part again after it was collected.

quietProbe == [auth |-> 10, url |-> 0, feed |-> "none", ip |-> TRUE, cti |-> "none", drop |-> FALSE]
loudProbe == [auth |-> 40, url |-> 30, feed |-> "confirmed", ip |-> TRUE, cti |-> "malicious", drop |-> TRUE]
FourProbes ==
  << [source |-> "x", localpart |-> "a", facts |-> quietProbe],
     [source |-> "x", localpart |-> "b", facts |-> loudProbe],
     [source |-> "x", localpart |-> "a", facts |-> loudProbe],
     [source |-> "y", localpart |-> "a", facts |-> [loudProbe EXCEPT !.ip = FALSE]] >>
Catch == INSTANCE CatchallIntel WITH
  Probes <- FourProbes, Retention <- 1, SampleLimit <- 2, AlertThreshold <- 2, Window <- 2,
  HubThreshold <- 60, ScanThreshold <- 50, AutoReport <- TRUE, MaxTime <- 3, MaxFaults <- 1,
  now <- v1, flight <- v2, stamp <- v3, rollup <- v4, localparts <- v5, recent <- v6,
  alerts <- v7, hub <- v8, faults <- v9

(* ---------------------------------------------------- LinkRules --- *)
\* An own domain of two labels, an imitation that folds to it, one by
\* skeleton, one glued with a hyphen, a shortener; more links than the cap.

ownHost == << <<"a", "c", "m", "e">>, <<"c", "o">> >>
foldedHost == << <<"@", "c", "m", "e">>, <<"c", "o">> >>
shortHost == << <<"w">>, <<"c", "o">> >>
otherOwn == << <<"w">>, <<"c", "o">>, <<"u">> >>
SomeHosts ==
  {ownHost, << <<"w">> >> \o ownHost, foldedHost, << <<"a", "c", "r", "n", "e">>, <<"c", "o">> >>,
   << <<"a", "c", "m", "e", "-", "h">>, <<"c", "o">> >>, << <<"a", "c", "m", "e">>, <<"n", "e">> >>, otherOwn}
occurs(u, h, f) == [url |-> u, host |-> h, form |-> f, text |-> u]
SomeLinks ==
  {occurs("u1", ownHost, "anchor"), occurs("u1", ownHost, "bare"), occurs("u2", foldedHost, "bare"),
   occurs("u2", foldedHost, "anchor"), occurs("u3", shortHost, "href"), occurs("u4", None, "anchor")}
Links == INSTANCE LinkRules WITH
  Letters <- {"a", "b"}, Occurrences <- SomeLinks, Hosts <- SomeHosts,
  HIGH_VALUE_DOMAINS <- {ownHost}, SHORTENER_DOMAINS <- {shortHost},
  MULTI_LABEL_PUBLIC_SUFFIXES <- {<< <<"c", "o">>, <<"u">> >>}, Folded <- [c \in {"@"} |-> "a"],
  Anchors <- <<ownHost, otherOwn>>, Cap <- 2, MaxWord <- 3, MaxBody <- 4,
  body <- v1, words <- v2, sender <- v3

(* ------------------------------------------------- ScanPipeline --- *)
\* A correspondent, a stranger under his name, the stranger to no mailbox, a
\* folder without classifier, an executable from an allowlisted sender.

friend == [sender |-> "a", name |-> "n", links |-> 1, auth |-> 0 - 10, url |-> 0, rest |-> 0,
           lookalike |-> 0, dmarcPass |-> TRUE, identified |-> TRUE, allowlisted |-> FALSE,
           badAttachment |-> FALSE, signed |-> TRUE, routed |-> TRUE, folder |-> "none",
           stateless |-> FALSE]
stranger == [friend EXCEPT !.sender = "b", !.links = 2, !.auth = 20, !.url = 20, !.lookalike = 25,
                           !.dmarcPass = FALSE, !.identified = FALSE, !.signed = FALSE]
SomeLetters ==
  {friend, stranger, [stranger EXCEPT !.stateless = TRUE, !.signed = TRUE],
   [stranger EXCEPT !.folder = "skip_classifier", !.sender = None, !.links = 0, !.rest = 25],
   [friend EXCEPT !.allowlisted = TRUE, !.badAttachment = TRUE]}
everything == [enabled |-> TRUE, learning |-> FALSE, demote |-> FALSE, intelBlock |-> TRUE,
               trustAllow |-> TRUE, senderGraph |-> TRUE, ownLookalike |-> TRUE, ctiKey |-> TRUE,
               minMessages |-> 2]
ScanPolicies ==
  {everything, [everything EXCEPT !.learning = TRUE], [everything EXCEPT !.enabled = FALSE],
   [everything EXCEPT !.demote = TRUE, !.intelBlock = FALSE, !.trustAllow = FALSE]}
Correspondent == [a \in {"a", "b"} |->
  IF a = "a" THEN [count |-> 2, total |-> 20, flagged |-> FALSE] ELSE None]
OneName == [p \in {"n"} \X {"a", "b"} |-> IF p[2] = "a" THEN 2 ELSE 0]
Pipe == INSTANCE ScanPipeline WITH
  TagAt <- 30, QuarantineAt <- 60, BlockAt <- 80,
  Scans <- {"s1", "s2"}, Letters <- SomeLetters, Policies <- ScanPolicies,
  Addresses <- {"a", "b"}, Names <- {"n"}, Feeds <- {"f", "g"}, Before <- Correspondent,
  Acquainted <- OneName, LlmScores <- {0, 30}, CtiPriors <- {20}, NoOne <- None,
  letter <- v1, pc <- v2, facts <- v3, rows <- v4, verdict <- v5, writes <- v6, stored <- v7,
  reputation <- v8, graph <- v9, selectors <- v10

(* --------------------------------------------------- ScoreRules --- *)
\* Two trusted headers that disagree, a forged and an anonymous one, hops.

auth(id, results, from, dkim) ==
  [key |-> "authentication-results", id |-> id, results |-> results, from |-> from, dkim |-> dkim, ips |-> <<>>]
received(ips) ==
  [key |-> "received", id |-> None, results |-> <<>>, from |-> None, dkim |-> {}, ips |-> ips]
SomeHeaders ==
  {auth(<<"mx", "own">>, << <<"spf", "pass">>, <<"dmarc", "fail">> >>, "d1", {"s1"}),
   auth(<<"own">>, << <<"dkim", "fail">>, <<"dmarc", "pass">>, <<"dmarc", "fail">> >>, "d2", {"s2"}),
   auth(<<"own">>, << <<"spf", "softfail">> >>, "d3", {}),
   auth(<<"own", "else">>, << <<"dmarc", "pass">>, <<"spf", "pass">> >>, "d1", {"s3"}),
   auth(None, << <<"dkim", "pass">> >>, None, {}), received(<<"10.", "8.">>), received(<<"127.">>)}
attached(e, c) == [ext |-> e, category |-> c]
SomeFiles ==
  {attached("", "executable"), attached("exe", "executable"), attached("iso", "container"),
   attached("docm", "macro_office"), attached("pdf", "safe")}
SomePolicies ==
  {[action |-> [executable |-> x, container |-> "score", macro_office |-> m], custom |-> c] :
     x \in {"block", "score", "ignore"}, m \in {"score", "ignore"}, c \in {{}, {"pdf"}, {"iso"}}}
reply(how, ms, label, conf) == [how |-> how, ms |-> ms, label |-> label, confidence |-> conf]
Replies ==
  {reply(h, t, l, 7) : h \in {"answers", "throws", "garbage"}, t \in {1, 3, 6}, l \in {"safe", "phishing", "wat"}}
    \cup {reply("answers", 2, "bec", 12)}
SomeCalls ==
  {[sysone |-> s, chat |-> c, skip |-> k] : c \in Replies, k \in BOOLEAN,
     s \in {None, reply("answers", 2, "safe", 10), reply("answers", 4, "safe", 10), reply("throws", 3, "safe", 0)}}
SomeSenders ==
  {[rep |-> r, cti |-> c] :
     r \in {None} \cup {[count |-> n, flagged |-> f, avg |-> a] : n \in {0, 9, 40}, f \in BOOLEAN, a \in {70, 71}},
     c \in {None} \cup {[reputation |-> x, anonymised |-> y] :
                          x \in {"malicious", "suspicious", "unknown", "known"}, y \in BOOLEAN}}
SomeClocks ==
  {[hours |-> [boost |-> b, weekdays_only |-> TRUE, start |-> s, end |-> e], hour |-> h, weekday |-> d] :
     b \in BOOLEAN, s \in {7, 22, 99}, e \in {6, 7, 19}, h \in {None, 0, 6, 7, 19, 22, 23}, d \in {0, 3}}
Score == INSTANCE ScoreRules WITH
  Headers <- SomeHeaders, Trusted <- {<<"own">>}, Private <- {"10.", "127."}, Files <- SomeFiles,
  Policies <- SomePolicies, Calls <- SomeCalls, Senders <- SomeSenders, Clocks <- SomeClocks,
  MaxHeaders <- 3, MaxFiles <- 3, headers <- v1, files <- v2, fact <- v3

(* ----------------------------------------------------- SendRisk --- *)
\* Two messages that make a correspondent, a third that may be trusted.

draft(to, text) ==
  [to |-> to, keyword |-> FALSE, file |-> "none", author |-> "user", thread |-> "none",
   feed |-> "none", homograph |-> FALSE, text |-> text]
ThreeDrafts ==
  << draft({"p"}, "x"), [draft({"p"}, None) EXCEPT !.feed = "bloom"], draft({"p", "own"}, "x") >>
SomeSamples ==
  {[draft(t, None) EXCEPT !.keyword = k, !.file = f, !.thread = r, !.feed = e] :
     t \in {{"p"}, {"own"}}, k \in BOOLEAN, f \in {"none", "custom", "container"},
     r \in {"none", "flagged"}, e \in {"none", "bloom", "confirmed"}}
Risk == INSTANCE SendRisk WITH
  Drafts <- ThreeDrafts, Samples <- SomeSamples, Answers <- {"safe", "garbled"},
  Losses <- {{}, {"rows", "put"}}, Domain <- [a \in {"p", "own"} |-> a], Internal <- "own",
  Imitates <- {}, Trusting <- TRUE, LlmEnabled <- TRUE, Words <- {"(", ")", ">", "h", "o", "n"},
  Original <- <<"o", "o">>, HEADER_WORDS <- {"h"}, MaxHeader <- 1, MinAge <- 1, MaxIdle <- 2,
  Ttl <- 2, MaxTime <- 2, MaxFaults <- 1, MaxHtml <- 4, MaxShown <- 1,
  now <- v1, graph <- v2, cache <- v3, shown <- v4, gated <- v5, log <- v6, faults <- v7, html <- v8

(* ------------------------------------------------ DomainPosture --- *)
\* A record in the wrong case before a good one, a revoked key beside a live
\* one, SPF chains with repeats and loops, a policy file that redirects.
txt(marker, tags) == << <<"v", marker>> >> \o tags
onApex(records) == [l \in {"@"} |-> records]
spfOf(terms) == <<txt("exact", terms)>>
SomeTerms ==
  {<<>>, << <<"include", "x">> >>, << <<"include", "y">>, <<"a", "h">> >>,
   << <<"include", "x">>, <<"redirect", "y">> >>, << <<"include", "y">>, <<"include", "z">>, <<"all", "-">> >>}
SomeZones == [k \in {"dmarc", "bimi", "logo", "tlsrpt", "dkim", "spf", "dnssec", "mta-sts"} |->
  CASE k = "dmarc" ->
         {onApex(<<>>), onApex(<<txt("other", <<>>), txt("exact", << <<"p", "reject">>, <<"p", "none">>, <<"rua", "">> >>)>>),
          onApex(<<txt("cased", << <<"p", "none">> >>), txt("exact", << <<"p", "reject">> >>)>>)}
    [] k \in {"bimi", "logo"} ->
         {onApex(<<>>), onApex(<<txt("exact", << <<"l", "u">>, <<"a", "">> >>)>>), onApex(<<txt("cased", <<>>)>>)}
    [] k = "tlsrpt" -> {onApex(<<>>), onApex(<<txt("exact", << <<"rua", <<"m", "", "h">> >> >>)>>)}
    [] k = "dkim" ->
         {[s \in {"google", "own"} |-> IF s = "own" THEN <<txt("exact", << <<"p", "k">> >>)>>
                                       ELSE << << <<"p", "">> >>, << <<"p", "k">> >> >>]}
    [] k = "spf" -> {[d \in {"@", "x", "y", "z"} |-> IF d = "z" THEN spfOf(<< <<"a", "h">> >>) ELSE spfOf(f[d])] :
                       f \in {g \in [{"@", "x", "y"} -> SomeTerms] : Len(g["x"]) # 2 /\ Len(g["y"]) < 2}}
    [] k = "dnssec" -> {[l \in {"ad", "ds"} |-> IF l \in s THEN <<"set">> ELSE <<>>] : s \in SUBSET {"ad", "ds"}}
    [] k = "mta-sts" -> {onApex(<<>>)}]
SomeUpdates == [k \in {"dmarc", "bimi", "logo", "tlsrpt", "dkim", "spf", "dnssec", "mta-sts"} |->
  CASE k = "dkim" -> {[s \in {"google", "own"} |-> IF s = "own" THEN << << <<"v", "exact">>, <<"p", "">> >> >> ELSE <<>>]}
    [] k = "spf" -> {[d \in {"@", "x", "y", "z"} |-> <<>>]}
    [] OTHER -> SomeZones[k]]
policyFile(mode) ==
  [status |-> "ok", lines |-> << <<"version", "exact">>, <<"mode", mode>>, <<"mx", "m">>, <<"max_age", "9">> >>]
Post == INSTANCE DomainPosture WITH
  Kinds <- DOMAIN SomeZones, Zones <- SomeZones, Updates <- SomeUpdates,
  Files <- <<[policyFile("none") EXCEPT !.status = "redirect"], policyFile("testing"), policyFile("enforce")>>,
  Ids <- <<"i1", "i2", "i3">>, ValidIds <- {"i2", "i3"}, Probed <- {"google"},
  Limit <- 3, MaxLookups <- 5, MaxDepth <- 3, Ttl <- 1, LongTtl <- 2, NegativeTtl <- 1, Observed <- 1,
  MaxTime <- [k \in DOMAIN SomeZones |-> CASE k = "spf" -> 0 [] OTHER -> 3],
  MaxChanges <- [k \in DOMAIN SomeZones |-> CASE k = "mta-sts" -> 4 [] k = "spf" -> 0 [] OTHER -> 1],
  MaxFaults <- [k \in DOMAIN SomeZones |-> 1],
  kind <- v1, now <- v2, zone <- v3, file <- v4, kv <- v5, seen <- v6, past <- v7, calm <- v8,
  shown <- v9, changes <- v10, faults <- v11

(* --------------------------------------------------- Dashboards --- *)
\* Labels no mix counts, verdicts that do not parse, equal dates at both ends of
\* the day, more matches than the cap.
row(id, m, at, cell, action, label) ==
  [id |-> id, mailbox |-> m, at |-> at, cell |-> cell, action |-> action, label |-> label,
   matches |-> id # 4, scan |-> IF id = 1 THEN "failed" ELSE "completed"]
judged(id, m, at, action, label) == row(id, m, at, "json", action, label)
SomeMail == [k \in {"mail", "cases", "pages", "runs", "search"} |->
  CASE k = "mail" ->
         {judged(1, "m1", 0, "block", "phishing"), judged(2, "m1", 1, "tag", "other"),
          judged(3, "m1", 3, "quarantine", "phishing"), judged(5, "m3", 0, None, "spam"), row(6, "m3", 2, "junk", None, None),
          judged(7, "m3", 1, "tag", None), judged(1, "m2", 0, "block", "phishing")}
    [] k = "search" ->
         {row(i, "m1", i, "empty", None, None) : i \in 1..4}
           \cup {row(i, "m2", i - 4, "empty", None, None) : i \in 5..7} \cup {row(8, "m3", None, "empty", None, None)}
    [] OTHER -> {}]
Dash == INSTANCE Dashboards WITH
  Kinds <- DOMAIN SomeMail, Mailboxes <- <<"m1", "m2", "m3">>,
  DomainOf <- [m \in {"m1", "m2", "m3"} |-> IF m = "m3" THEN "d2" ELSE "d1"],
  SecondPart <- [m \in {"m1", "m2", "m3"} |-> IF m = "m3" THEN "d2" ELSE "d1"],
  Accessible <- {"m1", "m2", "m3"}, Mail <- SomeMail,
  CaseIds <- [k \in DOMAIN SomeMail |-> CASE k = "pages" -> {<<"m1", 1>>} [] k = "cases" -> {<<"m1", 1>>, <<"m1", 2>>, <<"m2", 1>>} [] OTHER -> {}],
  Changes <- [k \in DOMAIN SomeMail |-> CASE k = "pages" -> {}
                [] OTHER -> {<<"closed-dup", FALSE>>, <<"closed-tp", TRUE>>}],
  Outcomes <- [k \in DOMAIN SomeMail |-> IF k = "runs"
                 THEN {<<"m1", "completed", 3>>, <<"m1", "completed", -1>>, <<"m2", "completed", 9>>, <<"m2", "failed", 5>>}
                 ELSE {}],
  LabelOrder <- [l \in {"other", "phishing", "safe", "spam"} |->
                   CASE l = "other" -> 1 [] l = "phishing" -> 2 [] l = "safe" -> 3 [] OTHER -> 4],
  VERDICT_MIX_KEYS <- {"phishing", "safe", "spam"},
  Day <- 2, Week <- 3, Buckets <- 4, TopN <- 1, SamplesPerThreat <- 2, SampleCap <- 2, SourceCap <- 3,
  RecentCap <- 1, SearchCap <- 2, PageSize <- 2, Ttl <- 1,
  MaxTime <- [k \in DOMAIN SomeMail |-> CASE k = "mail" -> 4 [] k = "pages" -> 1 [] k = "cases" -> 1 [] k = "runs" -> 2 [] OTHER -> 0],
  MaxRuns <- 3, MaxFaults <- 1,
  kind <- v1, now <- v2, mail <- v3, cases <- v4, runs <- v5, kv <- v6, shown <- v7, calm <- v8, faults <- v9

(* --------------------------------------------------- ReportBook --- *)
\* Two aggregate reports about one address; failure reports of three senders
\* at a limit of one; TLS reports, one taken for a DMARC report.
bodyOf(chunks, sound, doc) == [chunks |-> chunks, sound |-> sound, doc |-> doc]
piece(ext, mime, b) == [ext |-> ext, mime |-> mime, bang |-> ext = "bin", body |-> b]
message(subject, files) ==
  [from |-> "any", subject |-> subject, files |-> files, ruf |-> [enabled |-> TRUE, retain |-> TRUE]]
tally(ip, n, dkim, spf, d) == [ip |-> ip, count |-> n, dkim |-> dkim, spf |-> spf, disposition |-> d]
xmlDoc(domain, rows) == [domain |-> domain, rows |-> rows]
firstRows == <<tally("p", 2, "pass", "fail", "none"), tally(None, 9, "pass", "pass", "none"),
               tally("q", -1, "fail", "fail", "reject"), tally("p", 1, None, "fail", "quarantine")>>
secondRows == <<tally("p", 9, "fail", "fail", "reject"), tally("host", None, "pass", "pass", "none")>>
tlsSession(ip, t, bad) == [ip |-> ip, mx |-> "m", result |-> t, good |-> 0, bad |-> bad]
tlsDoc(json, named, ps) == [json |-> json, named |-> named, policies |-> ps]
failure(headers) ==
  message("", <<piece("", "feedback", None), piece("", "feedback", bodyOf(<<1>>, TRUE, "arf")),
                piece("", "rfc822", bodyOf(<<1>>, TRUE, headers))>>)
mailHeaders == <<[name |-> "From", text |-> "x"], [name |-> "Subject", text |-> "y"]>>
SomeInboxes ==
  {[m \in {"r1", "r2"} |->
      IF m = "r1" THEN
        message("dmarc", <<piece("xml.zip", "zip", bodyOf(<<1>>, TRUE, None)), piece("xml.gz", "gzip", bodyOf(<<1>>, FALSE, None)),
                           piece("bin", "gzip", bodyOf(<<2, 0, 2>>, TRUE, xmlDoc("d", firstRows)))>>)
      ELSE message("", <<piece("xml.gz", "gzip", bodyOf(<<1>>, TRUE, xmlDoc("d", secondRows)))>>)],
   [m \in {"r1", "r2", "r3"} |->
      CASE m = "r1" -> failure(mailHeaders)
        [] m = "r2" -> [failure(mailHeaders) EXCEPT !.ruf = [enabled |-> TRUE, retain |-> FALSE]]
        [] m = "r3" -> failure(mailHeaders)],
   [m \in {"r1", "r2", "r3"} |->
      CASE m = "r1" ->
             message("dmarc", <<piece("xml.gz", "tls+gzip", bodyOf(<<1, 4>>, TRUE, None))>>)
        [] m = "r2" ->
             message("tls", <<piece("tlsrpt.gz", "", bodyOf(<<1>>, FALSE, None)),
                              piece("tlsrpt", "", bodyOf(<<4>>, TRUE, tlsDoc(TRUE, FALSE,
                                <<[domain |-> "d", good |-> 9, bad |-> 2,
                                   details |-> <<tlsSession("p", "t1", 1), tlsSession("p", None, 1)>>]>>)))>>)
        [] m = "r3" ->
             [message("", <<piece("xml", "tls+json", bodyOf(<<1>>, TRUE, [domain |-> None, rows |-> <<>>] @@ tlsDoc(TRUE, TRUE, <<>>)))>>)
                EXCEPT !.from = "dmarc", !.ruf.enabled = FALSE]]}
Rep == INSTANCE ReportBook WITH
  Inboxes <- SomeInboxes, HostOf <- [a \in {"p", "q", "host"} |-> IF a = "host" THEN None ELSE a],
  AsnOf <- [a \in {"p", "q", "host"} |-> IF a = "p" THEN "as" ELSE None],
  Provider <- [h \in {"p", "q"} |-> IF h = "p" THEN "big" ELSE None], Invalid <- {"q", "host"},
  MaxBytes <- 4, MaxRecords <- 2, MaxCount <- 3, RufLimit <- 1, Window <- 0, DayLength <- 1,
  MaxTime <- 1, MaxFaults <- 1,
  mail <- v1, pc <- v2, now <- v3, reports <- v4, sources <- v5, tasks <- v6, ruf <- v7,
  ghost <- v8, faults <- v9

(* ----------------------------------------------- DeepScanStages --- *)
\* Redirects that stay, leave, loop and end on a private name; a name that
\* answers now public, now private; archives whose sizes lie.
webLink(h, p) == [scheme |-> "https", host |-> h, path |-> p]
answerOf(ips) == [i \in DOMAIN ips |-> [type |-> IF ips[i] = "v6" THEN "AAAA" ELSE "A", ip |-> ips[i]]]
pageOf(t) == [status |-> "page", location |-> None, title |-> t]
redirectTo(u) == [status |-> "redirect", location |-> u, title |-> None]
header(t, p, size, long, add) == [type |-> t, password |-> p, size |-> size, long |-> long, add |-> add]
someFile(name, mime, words, headers) ==
  [name |-> name, mime |-> mime, words |-> words, size |-> 9, tiny |-> FALSE, magic |-> TRUE,
   len |-> 12, headers |-> headers]
forgedRar ==
  [o \in {1, 3, 8, 12} |->
     CASE o = 1 -> header("main", FALSE, 2, TRUE, 15) [] o = 3 -> header("file", FALSE, 2, TRUE, 3)
       [] o = 8 -> header("file", TRUE, 2, FALSE, 0) [] OTHER -> header("file", TRUE, 2, FALSE, 0)]
SomeScans ==
  {[links |-> <<webLink("a", "x"), webLink("own", "y"), webLink("a", "z")>>, files |-> <<>>,
    sender |-> [domain |-> "o", dmarc |-> TRUE], base |-> [score |-> 10, action |-> "allow"]],
   [links |-> <<webLink("loop", "x"), webLink(None, "m")>>,
    files |-> <<someFile(<<"a", "pdf", "exe">>, "pdf", "none", <<>>)>>,
    sender |-> [domain |-> None, dmarc |-> FALSE], base |-> [score |-> 70, action |-> "quarantine"]],
   [links |-> <<webLink("a", "x")>>,
    files |-> <<someFile(<<"a", "rar">>, "zip", "bait", forgedRar),
                someFile(<<"c", "rar">>, "none", "none",
                 [o \in {1, 2} |-> header("file", o = 2, 1, FALSE, 0)]),
                [someFile(<<"b", "zip">>, "zip", "executable",
                   [o \in {2, 5} |-> header("file", o = 5, 2, FALSE, 0)]) EXCEPT !.magic = FALSE]>>,
    sender |-> [domain |-> "o", dmarc |-> FALSE], base |-> None]}
Scan == INSTANCE DeepScanStages WITH
  Mails <- SomeScans,
  Dns <- [h \in {"a", "b", "own", "loop", "in", "ten"} |->
    CASE h = "a" -> {<<>>, answerOf(<<"p1", "p2", "p3">>)} [] h = "b" -> {answerOf(<<"p1">>), answerOf(<<"ten">>)}
      [] h = "in" -> {<<>>, answerOf(<<"v6">>)} [] OTHER -> {<<>>, answerOf(<<"p2">>)}],
  Web <- [u \in {webLink("a", "x"), webLink("a", "z"), webLink("b", "x"), webLink("own", "y"), webLink("own", "h"),
                 webLink("loop", "x"), webLink("in", "x")} |->
    CASE u = webLink("a", "x") -> {pageOf("t"), redirectTo(webLink("b", "x")), redirectTo(webLink("in", "x"))}
      [] u = webLink("a", "z") -> {redirectTo(webLink("own", "h"))}
      [] u = webLink("own", "y") -> {redirectTo(webLink("own", "h"))}
      [] u = webLink("loop", "x") -> {redirectTo(webLink(None, "x")), redirectTo(webLink("ten", "x")), redirectTo(None)}
      [] OTHER -> {pageOf(None)}],
  Domain <- [h \in {"a", "b", "own", "loop", "in", "ten"} |-> IF h = "own" THEN "o" ELSE h],
  Literals <- {"ten", "v6"}, Private <- {"ten", "v6"}, Homographs <- {"b"},
  Rdap <- [h \in {"a", "b", "own", "loop", "in"} |->
    CASE h = "a" -> <<[action |-> "registration", date |-> 98], [action |-> "registration", date |-> 90],
                      [action |-> "changed", date |-> 1]>>
      [] h = "b" -> <<[action |-> "registration", date |-> 101]>> [] OTHER -> None],
  Listed <- [u \in {webLink("a", "z"), webLink("own", "h")} |-> "derived"],
  Cti <- [ip \in {"p1", "p2", "p3", "ten", "v6"} |->
    CASE ip = "p1" -> [behaviors |-> {"phishing", None}, classifications |-> {"tor"}, reputation |-> "Malicious"]
      [] ip = "p3" -> [behaviors |-> {}, classifications |-> {}, reputation |-> "suspicious"] [] OTHER -> None],
  Kept <- {[i \in {} |-> "miss"], [i \in {"p1", "p2"} |-> IF i = "p1" THEN "corrupt" ELSE "miss"]},
  CtiKey <- TRUE, Dropped <- {"p2"}, Now <- 100,
  MaxHops <- 3, MaxHosts <- 2, PerHost <- 2, MaxFaults <- 1,
  mail <- v1, pc <- v2, at <- v3, chain <- v4, sent <- v5, rows <- v6, hosts <- v7, ips <- v8,
  parts <- v9, verdict <- v10, cache <- v11, faults <- v12

(* ----------------------------------------------------- AgentDesk --- *)
\* A mail and an earlier one of its thread; a short body and a long one;
\* answers in every shape.  "agent": a run and the users; "tools": a chat and
\* MCP, one tool each, or two of MCP, one fault or edit; "gates": the lists and the tokens alone.
written(t) == [text |-> t, quote |-> None]
aMail(id, t) == [folder |-> "inbox", thread |-> "t", body |-> written(t), root |-> id, by |-> "user"]
answerIn(top, response, nested, choices, direct) ==
  [top |-> top, response |-> response, nested |-> nested, choices |-> choices, direct |-> direct]
person(e, gs) == [email |-> e, groups |-> gs]
Agent == INSTANCE AgentDesk WITH
  NoText <- "",
  Mail <- [i \in {"e1", "e2"} |-> aMail(i, IF i = "e1" THEN "long" ELSE "short")], New <- "e1",
  Slots <- <<"s1", "s2">>, Jobs <- {"j1", "j2"}, Bodies <- {written("long")},
  Answers <- {None, answerIn(None, None, "YES", None, None), answerIn(None, None, "", "YES", None),
              answerIn(None, "cleaned", None, None, None), answerIn(None, None, None, "", "YES")},
  Verdicts <- {None, "allow", "tag", "quarantine", "block"}, Mailboxes <- <<"m1", "m2", "m3">>, Box <- "m1",
  Acls <- {None, [members |-> {}, groups |-> {}], [members |-> {"U"}, groups |-> {}],
           [members |-> {"w"}, groups |-> {"g"}]},
  Tokens <- {None, person("", {"g"}), person("u", {None}), person("w", {}), person("x", {"g", "h"})},
  Lower <- [a \in {"u", "U", "w", "x"} |-> IF a = "U" THEN "u" ELSE a], Dev <- FALSE, ListCap <- 2,
  MaxSteps <- 2, MaxFaults <- 1, MaxEdits <- 1,
  emails <- v1, made <- v2, run <- v3, job <- v4, chat <- v5, removed <- v6, roots <- v7, gone <- v8,
  acl <- v9, session <- v10, faults <- v11, edits <- v12

(* --------------------------------------------------- MailNotice --- *)
\* A bare URL, an envelope with header names in two cases and one without a
\* URL; a short subject that forges a link and a long one.
block(on, name, f) == [enabled |-> on, secret |-> name, format |-> f]
hdr(n, v) == [name |-> n, value |-> v]
SomeNotices == [m \in {"m1", "m2"} |-> IF m = "m1"
  THEN [sender |-> <<"<", "u", "|", "x", ">">>, subject |-> <<"a", "<", "b", "c", "d">>, verdict |-> "quarantine"]
  ELSE [sender |-> <<>>, subject |-> <<>>, verdict |-> None]]
Notice == INSTANCE MailNotice WITH
  Names <- {"N1", "N2", "N3", "N4", "other"}, Prefixed <- {"N1", "N2", "N3", "N4"},
  Secrets <- [n \in {"N1", "N2", "N3", "N4", "other"} |->
    CASE n = "N1" -> [form |-> "url", url |-> "u1"]
      [] n = "N2" -> [form |-> "envelope", url |-> "u2", headers |->
           <<hdr("Content-Type", "own"), hdr("authorization", "key"), hdr("odd", None),
             hdr("x-phishsoc-signature", "forged"), hdr("X-Phishsoc-Signature", "before")>>]
      [] n = "N3" -> [form |-> "envelope", url |-> None, headers |-> <<>>]
      [] n = "N4" -> None [] OTHER -> [form |-> "url", url |-> "u3"]],
  Global <- [form |-> "url", url |-> "u0"], Signing <- TRUE, Origin <- TRUE,
  Lower <- [n \in {"content-type", "Content-Type", "authorization", "odd", "x-phishsoc-signature",
                   "X-Phishsoc-Signature"} |->
    CASE n = "Content-Type" -> "content-type" [] n = "X-Phishsoc-Signature" -> "x-phishsoc-signature" [] OTHER -> n],
  Mails <- SomeNotices,
  Legacy <- [k \in {"mailbox", "domain", "org"} |->
    CASE k = "mailbox" -> {None, block(FALSE, "N1", None), block(TRUE, "other", None)}
      [] k = "domain" -> {None}
      [] k = "org" -> {None, block(TRUE, "N1", "chat")}],
  Bodies <- {block(TRUE, "N1", "chat"), block(TRUE, "N2", "json"), block(FALSE, None, None),
             block(TRUE, "N3", None), block(TRUE, "N4", None), block(TRUE, "other", None)},
  MaxSubject <- 3, MaxJsonSubject <- 4, MaxFaults <- 1, MaxEdits <- 1,
  tiers <- v1, flight <- v2, noticed <- v3, posts <- v4, shown <- v5, faults <- v6, edits <- v7

(* ----------------------------------------------------- HubPosts --- *)
\* Hubs on a pinned host, on another and over plain http; a block that only
\* has feeds; a sender on an own domain and one without an address.
web(s, h) == [scheme |-> s, host |-> h]
intel(u, s, g, on) == [hub |-> [url |-> u, org |-> "o", secret |-> s, group |-> g, auto |-> on]]
SomeCaptures == [m \in {"m1", "m2", "m3"} |->
  [sender |-> CASE m = "m1" -> <<"u", "x">> [] m = "m2" -> <<"u", "own">> [] OTHER -> <<>>,
   subject |-> "s", to |-> {"box"}, body |-> "text", owned |-> m = "m2",
   urls |-> {[url |-> "l", host |-> "h"]}, files |-> {"f"}]]
Posting == INSTANCE HubPosts WITH
  Hosts <- {"Hub", "hub", "else"}, Allowed <- {"hub"},
  Lower <- [h \in {"Hub", "hub", "else"} |-> IF h = "Hub" THEN "hub" ELSE h],
  Prefixed <- {"K1", "K2"},
  Keys <- [n \in {"K1", "K2", "other"} |-> CASE n = "K1" -> "k1" [] n = "K2" -> None [] OTHER -> "k3"],
  Legacy <- [k \in {"mailbox", "domain", "org"} |->
    CASE k = "mailbox" -> {None, [hub |-> None]}
      [] k = "domain" -> {None, intel(web("https", "else"), "K1", None, FALSE), intel(web("https", "Hub"), "other", None, TRUE)}
      [] k = "org" -> {intel(web("https", "Hub"), "K1", "g", TRUE), intel(web("https", "hub"), "K2", None, TRUE)}],
  Bodies <- {intel(web("https", "hub"), "K1", None, FALSE), intel(web("http", "hub"), "K1", None, TRUE), [hub |-> None]},
  Mails <- SomeCaptures, Box <- "box", MaxRequests <- 2, MaxFaults <- 1, MaxEdits <- 1,
  tiers <- v1, req <- v2, hub <- v3, invites <- v4, sent <- v5, shown <- v6, requests <- v7,
  faults <- v8, edits <- v9

(* --------------------------------------------------- HubMembers --- *)
\* An org that founds a group, two that may join, a peer; one invite, one event.
Membership == INSTANCE HubMembers WITH
  Founders <- {"o1"}, Newcomers <- {"o2", "o3"}, Peers <- {"p"}, SyntheticOrg <- [p \in {"p"} |-> "op"],
  Groups <- {"g"}, Slots <- {"r1", "r2"}, MaxRequests <- 5, MaxRows <- 1, MaxFaults <- 1,
  orgs <- v1, members <- v2, owner <- v3, invites <- v4, events <- v5, peers <- v6, inbound <- v7,
  req <- v8, shown <- v9, requests <- v10, faults <- v11

(* --------------------------------------------------- StepUpKeys --- *)
\* A user without a key or with one.  "keys": his own requests, two at a time;
\* "owners": two users, one request at a time and nothing failing.
Keyring == INSTANCE StepUpKeys WITH
  Users <- {"u", "v"}, Interactive <- {"u", "v"}, Admins <- {"u"}, Keys <- {"k1", "k2"},
  Approved <- {"k1", "k2"}, Histories <- {<<>>, <<[key |-> "k1", sub |-> "u"]>>},
  Slots <- {"r1", "r2"}, MaxRequests <- 4, MaxChallenges <- 4, MaxSigned <- 2, MaxFaults <- 1,
  credentials <- v1, challenges <- v2, req <- v3, signed <- v4, alerts <- v5, requests <- v6, faults <- v7

(* ------------------------------------------------ SchemaUpgrade --- *)
\* Mail to the same address twice; folders named as one that is seeded later.
UpSlug == [n \in {"Draft", "Quarantine"} |-> IF n = "Draft" THEN "draft" ELSE "quarantine"]
UpMail == [m \in {"m1", "m2"} |-> IF m = "m1" THEN <<"a1", "a2">> ELSE <<"a1", "a1">>]
Upgrade == INSTANCE SchemaUpgrade WITH
  Kind <- "mailbox", Releases <- {2, 37}, Names <- {"Draft", "Quarantine"}, Slug <- UpSlug,
  Mail <- UpMail, MaxDeaths <- 1,
  release <- v1, db <- v2, up <- v3, saved <- v4, deaths <- v5
UpgradeProbes == INSTANCE SchemaUpgrade WITH
  Kind <- "catchall", Releases <- {1, 3}, Names <- {}, Slug <- UpSlug, Mail <- UpMail, MaxDeaths <- 2,
  release <- v1, db <- v2, up <- v3, saved <- v4, deaths <- v5

(* ------------------------------------------------- MailRouting --- *)
\* An own domain that is seeded, one that comes and goes behind a gateway, a
\* foreign one; a copy whose `to' is another recipient, forged lines, a header
\* alone, nothing at all.
delivered(rcpt, dest, stamp, below, head) ==
  [rcpt |-> rcpt, to |-> dest, stamp |-> stamp, below |-> below, header |-> head,
   declared |-> 1, bytes |-> 1, parses |-> TRUE]
domainBlock(on, rows, seen) == [enabled |-> on, host |-> TRUE, actions |-> rows, catchall |-> seen]
SomeDomainBlocks ==
  {domainBlock(FALSE, [v \in {} |-> "drop"], TRUE), domainBlock(TRUE, [v \in {} |-> "drop"], TRUE),
   domainBlock(TRUE, [v \in {"tag"} |-> "drop"], FALSE)}
Routing == INSTANCE MailRouting WITH
  Addresses <- {"a", "b", "g", "x", "nowhere"}, Domains <- {"own", "gate", "else"},
  DomainOf <- [m \in {"a", "b", "g", "x", "nowhere"} |->
    CASE m \in {"a", "b"} -> "own" [] m = "g" -> "gate" [] m = "x" -> "else" [] OTHER -> None],
  Seed <- {"own"}, AllowLists <- {{}, {"a", "b"}},
  Events <- {delivered("g", "a", "for", <<"b">>, <<"a">>), delivered("b", "b", "bare", <<"a">>, <<"a", "g">>),
             delivered("x", None, "none", <<>>, <<"nowhere", "x", "a", "g">>),
             delivered("x", None, "none", <<>>, <<"b", "a">>), delivered("x", None, "bare", <<"a">>, <<>>),
             [delivered("a", "a", "for", <<>>, <<>>) EXCEPT !.bytes = 2]},
  DomainSettings <- SomeDomainBlocks, MAX_EMAIL_SIZE <- 2, MaxTries <- 1, MaxChanges <- 1, MaxFaults <- 1,
  allow <- v1, boxes <- v2, org <- v3, settings <- v4, past <- v5, pc <- v6, event <- v7, queue <- v8,
  to <- v9, policy <- v10, since <- v11, tries <- v12, changes <- v13, faults <- v14

(* ------------------------------------------------------------------------- *)

Init ==
  \/ part = "walk" /\ Walk!Init /\ Unused(10)
  \/ part = "folders" /\ Folds!Init /\ Unused(8)
  \/ part = "cache" /\ Cache!Init /\ Unused(7)
  \/ part = "compose" /\ Comp!Init /\ Unused(11)
  \/ part \in {"cases", "submit"} /\ Book!Init
  \/ part = "settings" /\ Set!Init /\ Unused(7)
  \/ part = "feeds" /\ Feed!Init /\ Unused(11)
  \/ part = "catchall" /\ Catch!Init /\ Unused(10)
  \/ part = "links" /\ Links!Init /\ Unused(4)
  \/ part = "pipe" /\ Pipe!Init /\ v1["s2"] = friend /\ Unused(11)
  \/ part = "pipes" /\ Pipe!Init /\ v1["s1"] = friend /\ v1["s2"].sender = "a" /\ Unused(11)
  \/ part = "scores" /\ Score!Init /\ Unused(4)
  \/ part = "risk" /\ Risk!Init /\ Unused(9)
  \/ part = "posture" /\ Post!Init /\ v12 = None /\ v13 = None /\ v14 = None
  \/ part = "dash" /\ Dash!Init /\ Unused(10)
  \/ part = "reports" /\ Rep!Init /\ Unused(10)
  \/ part = "scan" /\ Scan!Init /\ v13 = None /\ v14 = None
  \/ part \in {"agent", "tools", "gates"} /\ Agent!Init /\ v13 = None /\ v14 = None
     /\ (part # "gates" => v10 = None /\ \A m \in DOMAIN v9 : v9[m] = None)
  \/ part = "notice" /\ Notice!Init /\ Unused(8)
  \/ part = "posts" /\ Posting!Init /\ Unused(10)
  \/ part \in {"keys", "owners"} /\ Keyring!Init /\ Unused(8)
  \/ part = "members" /\ Membership!Init /\ v12 = None /\ v13 = None /\ v14 = None
  \/ part = "routing" /\ Routing!Init /\ v2 \subseteq {"a", "b"} /\ v3 \subseteq {"gate"}
     /\ v4["else"].actions # << >> /\ ~v4["own"].enabled
  \/ part = "upgrade" /\ Upgrade!Init /\ Unused(6)
  \/ part = "upgradeProbes" /\ UpgradeProbes!Init /\ Unused(6)

Walking == part = "walk" /\ Walk!Next /\ UNCHANGED <<part, v10>> /\ Same
\* Of the system folders the inbox alone is renamed; i1, of a blocked sender, is not
\* sent mail, and i2 is not spam.
Filing ==
  /\ part = "folders" /\ Folds!Next /\ UNCHANGED <<part, v8, v9, v10>> /\ Same
  /\ \A f \in {"sent", "spam", "draft"} : v1'[f] = f
  /\ v2'["i1"] # None => v2'["i1"].folder # "sent"
  /\ v2'["i2"] # None => v2'["i2"].folder # "spam"
\* The mutations are numbered in the order of their calls; the first sets the flag.
Caching ==
  /\ part = "cache" /\ Cache!Next /\ UNCHANGED <<part, v7, v8, v9, v10>> /\ Same
  /\ v4'["x2"].pc # "idle" => v4'["x1"].pc # "idle"
  /\ v4'["x1"].pc = "sent" => v4'["x1"].to
Composing == part = "compose" /\ Comp!Next /\ UNCHANGED part /\ Same
Reporting == part = "cases" /\ Book!Next /\ UNCHANGED <<part, v8>>
Submitting ==
  /\ part = "submit" /\ Book!Next /\ UNCHANGED <<part, v5, v11>>
  /\ v4' # v4 => v3["c1"] = None
  /\ v14' <= 1
\* Isolates are alike: the writer's is i1.
Configuring ==
  /\ part = "settings" /\ Set!Next /\ UNCHANGED <<part, v7, v8, v9, v10>> /\ Same
  /\ v3'["w"] # None => v3'["w"].iso = "i1"
Refreshing == part = "feeds" /\ Feed!Next /\ UNCHANGED part /\ Same
Probing == part = "catchall" /\ Catch!Next /\ UNCHANGED <<part, v10>> /\ Same
Linking == part = "links" /\ Links!Next /\ UNCHANGED <<part, v4, v5, v6, v7, v8, v9, v10>> /\ Same
\* In a single scan the selectors land or get lost at its end, at most one of its
\* writes is lost, and mail to no mailbox or without a sender is scanned under one policy;
\* under the others no write is lost.
Staging ==
  /\ part = "pipe" /\ Pipe!Next /\ v2'["s2"] = "new" /\ UNCHANGED part /\ Same
  /\ v10'["s1"] \in {"landed", "lost"} => v2'["s1"] \in {"done", "failed"}
  /\ Cardinality({w \in DOMAIN v6'["s1"] : v6'["s1"][w] = "lost"})
       <= IF v3'["s1"].policy \in {None, everything} THEN 1 ELSE 0
  /\ v1["s1"].stateless \/ v1["s1"].sender = None => v3'["s1"].policy \in {None, everything}
StagingTwo ==
  /\ part = "pipes" /\ Pipe!Next /\ UNCHANGED part /\ Same
  /\ \A s \in {"s1", "s2"} :
       /\ v3'[s].match = "none" /\ v3'[s].lookalike = 0 /\ v3'[s].hours = 0 /\ v3'[s].confident
       /\ v3'[s].policy \in {None, everything} /\ v10'[s] \notin {"landed", "lost"}
       /\ \A w \in {"verdict", "urls", "graph"} : v6'[s][w] # "lost"
Scoring == part = "scores" /\ Score!Next /\ UNCHANGED <<part, v4, v5, v6, v7, v8, v9, v10>> /\ Same
Weighing == part = "risk" /\ Risk!Next /\ UNCHANGED <<part, v9, v10>> /\ Same
LookingUp == part = "posture" /\ Post!Next /\ UNCHANGED <<part, v12, v13, v14>>
Summing == part = "dash" /\ Dash!Next /\ UNCHANGED <<part, v10>> /\ Same
\* A new day begins when no enrichment is under way.
Ingesting ==
  /\ part = "reports" /\ Rep!Next /\ UNCHANGED <<part, v10>> /\ Same
  /\ v3' # v3 => \A m \in DOMAIN v6 : v6[m] = None
Scanning == part = "scan" /\ Scan!Next /\ UNCHANGED <<part, v13, v14>>
Answering ==
  /\ part = "agent" /\ UNCHANGED <<part, v13, v14>>
  /\ Agent!agentStep \/ Agent!toolStep("agent") \/ Agent!userMoves \/ Agent!userDeletes
Drafting ==
  /\ part = "tools" /\ UNCHANGED <<part, v13, v14>>
  /\ \/ Agent!onChatMessage \/ Agent!createEmailTools
     \/ \E j \in {"j1", "j2"} : Agent!mcpTool(j)
     \/ \E j \in DOMAIN v4 : Agent!toolStep(j)
  /\ (v4["j2"] = None /\ v4'["j2"] # None) => v4["j1"] # None
  /\ v3'.pc = "model" => v4'["j2"] = None
  /\ v3'.steps <= 1 /\ v11' + v12' <= 1
Admitting ==
  /\ part = "gates" /\ UNCHANGED <<part, v13, v14>>
  /\ Agent!fetch \/ Agent!writeMailboxAcl
Notifying == part = "notice" /\ Notice!Next /\ UNCHANGED <<part, v8, v9, v10>> /\ Same
Publishing == part = "posts" /\ Posting!Next /\ UNCHANGED <<part, v10>> /\ Same
Enrolling ==
  /\ part = "keys" /\ Keyring!Next /\ UNCHANGED <<part, v8, v9, v10>> /\ Same
  /\ \A r \in DOMAIN v3' : v3'[r] # None => v3'[r].sub = "u" /\ v3'[r].op \in {"add", "enrol", "recover"}
  /\ (v3["r2"] = None /\ v3'["r2"] # None) => v3["r1"] # None
Confirming ==
  /\ part = "owners" /\ Keyring!Next /\ UNCHANGED <<part, v8, v9, v10>> /\ Same
  /\ v3'["r2"] = None /\ v7' = 0 /\ \A c \in DOMAIN v2' : v2'[c].state # "expired"
Joining ==
  /\ part = "members" /\ Membership!Next /\ UNCHANGED <<part, v12, v13, v14>>
  /\ (v8["r2"] = None /\ v8'["r2"] # None) => v8["r1"] # None
Routed == part = "routing" /\ Routing!Next /\ UNCHANGED part
Upgrading == part = "upgrade" /\ Upgrade!Next /\ UNCHANGED <<part, v6, v7, v8, v9, v10>> /\ Same
UpgradingProbes == part = "upgradeProbes" /\ UpgradeProbes!Next /\ UNCHANGED <<part, v6, v7, v8, v9, v10>> /\ Same

Next ==
  \/ Walking \/ Filing \/ Caching \/ Composing \/ Reporting \/ Submitting
  \/ Configuring \/ Refreshing \/ Probing \/ Linking \/ Staging \/ StagingTwo \/ Scoring
  \/ Weighing \/ LookingUp \/ Summing \/ Ingesting \/ Scanning
  \/ Answering \/ Drafting \/ Admitting \/ Notifying \/ Publishing
  \/ Enrolling \/ Confirming \/ Joining \/ Routed
  \/ Upgrading \/ UpgradingProbes

Spec == Init /\ [][Next]_vars

TypeOK ==
  /\ part = "walk" => Walk!TypeOK
  /\ part = "folders" => Folds!TypeOK
  /\ part = "cache" => Cache!TypeOK
  /\ part = "compose" => Comp!TypeOK
  /\ part \in {"cases", "submit"} => Book!TypeOK
  /\ part = "settings" => Set!TypeOK
  /\ part = "feeds" => Feed!TypeOK
  /\ part = "catchall" => Catch!TypeOK
  /\ part = "links" => Links!TypeOK
  /\ part \in {"pipe", "pipes"} => Pipe!TypeOK
  /\ part = "scores" => Score!TypeOK
  /\ part = "risk" => Risk!TypeOK
  /\ part = "posture" => Post!TypeOK
  /\ part = "dash" => Dash!TypeOK
  /\ part = "reports" => Rep!TypeOK
  /\ part = "scan" => Scan!TypeOK
  /\ part \in {"agent", "tools", "gates"} => Agent!TypeOK
  /\ part = "notice" => Notice!TypeOK
  /\ part = "posts" => Posting!TypeOK
  /\ part \in {"keys", "owners"} => Keyring!TypeOK
  /\ part = "members" => Membership!TypeOK
  /\ part = "routing" => Routing!TypeOK
  /\ part = "upgrade" => Upgrade!TypeOK
  /\ part = "upgradeProbes" => UpgradeProbes!TypeOK

\* app/routes/unified-inbox.tsx: paging through the unified inbox shows every
\* conversation that did not change meanwhile exactly once, and
\* countThreadedEmails counts the conversations getThreadedEmails lists.
WalkSound == part = "walk" => Walk!WalkShowsEachOnce /\ Walk!CountMatchesListing
\* Every message has a folder, and attachment objects follow the rows.
FoldersSound ==
  /\ part = "folders" => Folds!MailHasFolder /\ Folds!ObjectsFollowRows
  /\ part = "upgradeProbes" => UpgradeProbes!SchemaReached /\ UpgradeProbes!RanOnceInOrder
  /\ part = "upgrade" => Upgrade!SchemaReached /\ Upgrade!RanOnceInOrder /\ Upgrade!HistoryComplete
                          /\ Upgrade!RefusedOnlyByName
\* When nothing is under way the client's views agree with the server; what
\* the composer shows is current, and tier two was typed.
ClientHonest ==
  /\ part = "cache" => Cache!ViewsAgreeWithServer
  /\ part = "compose" => Comp!PreviewIsCurrent /\ Comp!TierTwoWasTyped
\* Summaries settle, shared cases are held, submissions are counted.
CasesTruthful == part \in {"cases", "submit"} => Book!CasesTruthful
\* Caches are the stored tier or an earlier one, writers keep to their fields,
\* and the tiers resolve as documented (mailbox-settings.ts, blocklist.ts).
SettingsSound ==
  /\ part = "settings" => Set!SettingsSound
  /\ part = "notice" => Notice!NoticeStaysScoped /\ Notice!TestTellsTruth /\ Notice!SignatureStands
                       /\ Notice!OneLink /\ Notice!NoCredentialShown
\* The recorded version of a feed is the one served, listed links stay found,
\* probes miss no listed prefix, ranges are exact (feeds.ts); a harvest of the
\* catch-all is alerted once a window, and its counters and samples add up
\* (catchall-intel.ts); a deep scan follows links under its guard and adds no
\* more than its stages may (deep-scan.ts); what the hub is told has a key, a
\* consent and no name in it, and only members see it (hub-config.ts, orgs.ts).
IntelSound ==
  /\ part = "feeds" => Feed!FeedsSound
  /\ part = "catchall" => Catch!CatchallSound
  /\ part = "scan" => Scan!ScanSound
  /\ part = "posts" => Posting!KeyStaysPaired /\ Posting!ConsentGiven /\ Posting!ReportsAnonymous
                      /\ Posting!PagesHonest
  /\ part = "members" => Membership!MembersSound
  /\ part = "routing" => Routing!RoutingSound
\* No header, file name, look-alike or quote escapes the rules made for it, the
\* model's failures stay within their bounds, and a send is trusted only to
\* those it was sent to before (security/*.ts, send-risk*.ts).
ScoringSound ==
  /\ part = "links" => Links!LinksSound
  /\ part \in {"pipe", "pipes"} => Pipe!PipelineSound
  /\ part = "scores" => Score!ScorersSound
  /\ part = "risk" => Risk!SendRiskSound
\* What a domain publishes is shown as it was published, and the SPF limit is
\* told exactly (workers/*/posture.ts); the numbers of the dashboards reconcile
\* (dashboard-aggregation.ts, org-search.ts); machine reports are stored whole or left
\* to the pipeline, and what is known of their sources stays (dmarc/ingest.ts).
ReportsSound ==
  /\ part = "posture" => Post!PosturesSound
  /\ part = "dash" => Dash!DashboardsSound
  /\ part = "reports" => Rep!ReportsKept
\* The agent drafts only over scanned mail and says what it did, no tool loses a
\* draft, and every gate to a mailbox is the same (agent/index.ts, tools.ts,
\* mailbox-acl.ts); and the keys that keep it from sending are a person's own
\* (webauthn.ts).
AgentSound ==
  /\ part \in {"agent", "tools", "gates"} => Agent!AgentSound
  /\ part \in {"keys", "owners"} => Keyring!KeysSound
\* case-detail.tsx:150: "Poll for the AI co-pilot summary (issue #127) while
\* it's still generating."
PollsWhilePending == part \in {"cases", "submit"} => Book!PollsWhilePending
=============================================================================
