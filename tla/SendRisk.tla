------------------------------ MODULE SendRisk ------------------------------
(***************************************************************************)
(* The tier of an outgoing message: the rules of classifySend              *)
(* (security/send-risk.ts), the context gathered for them with failing     *)
(* lookups (lib/send-risk-assess.ts), the model's verdict with its cache   *)
(* (security/send-risk-llm.ts, durableObject/send-risk-llm-cache.ts), the  *)
(* history of recipients (durableObject/recipient-graph.ts) and the split  *)
(* of the quoted original from what the user wrote.                        *)
(***************************************************************************)
EXTENDS Naturals, Sequences, FiniteSets, FiniteSetsExt, SequencesExt

CONSTANTS
  Drafts,      \* [id -> [to, keyword, file, author, thread, feed, homograph, text]]
  Samples,     \* drafts the rules are compared on
  Answers,     \* what the model may answer: labels, "garbled", "unavailable", "error"
  Losses,      \* sets of lookups that fail together
  Domain,      \* [address -> domain]
  Internal,    \* the mailbox's domain
  Imitates,    \* {<<domain, anchor>>}, what lookalikeAnchor finds
  Trusting,    \* send_risk.trust_known_recipients
  LlmEnabled,  \* send_risk.llm_enabled
  Words,       \* what a body is made of
  Original,    \* the words of the message replied to
  HEADER_WORDS,
  MaxHeader,   \* MAX_HEADER_TOKENS
  MinAge, MaxIdle, Ttl, None,
  MaxTime, MaxFaults, MaxHtml,
  MaxShown     \* bound: drafts with a preflight

ESTABLISHED_MIN_SENDS == 2
KNOWN_DOMAIN_MIN_SENDS == 2
OUTBOUND_LLM_LABELS == {"safe", "victim_response", "malicious_outbound", "data_exposure", "suspicious"}
Ids == DOMAIN Drafts
Addresses == DOMAIN Domain
Keys == {<<Drafts[i].text, Drafts[i].author>> : i \in {j \in Ids : Drafts[j].text # None}}

VARIABLES
  now,
  graph,    \* recipient_graph: [address -> [count, first, last] or None]
  cache,    \* send_risk_llm_cache: [key -> [label, at] or None]
  shown,    \* [id -> the last preflight, or None]
  gated,    \* [id -> the gate's assessment, or None]
  log,      \* deliveries: {[id, at]}
  faults,
  html      \* the body being split

vars == <<now, graph, cache, shown, gated, log, faults, html>>

Assessment == [tier : 0 .. 2, llm : OUTBOUND_LLM_LABELS \cup {"unavailable", "error", None},
               at : 0 .. MaxTime, stored : 0 .. MaxTime \cup {None}, rows : BOOLEAN]
TypeOK ==
  /\ now \in 0 .. MaxTime /\ faults \in 0 .. MaxFaults
  /\ graph \in [Addresses -> [count : 1 .. Cardinality(Ids), first : 0 .. MaxTime, last : 0 .. MaxTime] \cup {None}]
  /\ cache \in [Keys -> [label : OUTBOUND_LLM_LABELS, at : 0 .. MaxTime] \cup {None}]
  /\ shown \in [Ids -> Assessment \cup {None}] /\ gated \in [Ids -> Assessment \cup {None}]
  /\ log \subseteq [id : Ids, at : 0 .. MaxTime]
  /\ html \in Seq(Words) /\ Len(html) <= MaxHtml

Init ==
  /\ now = 0 /\ faults = 0 /\ log = {} /\ html = <<>>
  /\ graph = [a \in Addresses |-> None] /\ cache = [k \in Keys |-> None]
  /\ shown = [i \in Ids |-> None] /\ gated = [i \in Ids |-> None]

(* ------------------------------------------------------ the recipient graph --- *)

sum(domain) == FoldSet(LAMBDA a, n : n + graph[a].count, 0,
                       {a \in Addresses : Domain[a] = domain /\ graph[a] # None})
\* _getSendContextImpl; None when the call fails.
getSendContext(ok) ==
  IF ~ok THEN None
  ELSE [history |-> graph, counts |-> [d \in {Domain[a] : a \in Addresses} |-> sum(d)],
        known |-> {d \in {Domain[a] : a \in Addresses} : sum(d) >= KNOWN_DOMAIN_MIN_SENDS}]

recordSentRecipients(to) ==
  graph' = [a \in Addresses |->
    IF a \notin to THEN graph[a]
    ELSE IF graph[a] = None THEN [count |-> 1, first |-> now, last |-> now]
    ELSE [graph[a] EXCEPT !.count = @ + 1, !.last = now]]

isEstablished(history, a) ==
  /\ history[a] # None /\ history[a].count >= ESTABLISHED_MIN_SENDS
  /\ now >= history[a].first + MinAge /\ now <= history[a].last + MaxIdle

(* ----------------------------------------------------------------- the rules --- *)

external(d) == {a \in d.to : Domain[a] # Internal}
\* An agent's drafts are trusted to nobody.
trusted(d, ctx) ==
  /\ ctx.trust /\ ctx.rows # None /\ d.author # "agent" /\ external(d) # {}
  /\ \A a \in external(d) : isEstablished(ctx.rows.history, a)

\* A new domain is compared with those the mailbox sends to and its own.
imitation(d, ctx) ==
  /\ ctx.rows # None
  /\ \E a \in external(d) :
       /\ ctx.rows.counts[Domain[a]] = 0
       /\ \E anchor \in ctx.rows.known \cup {Internal} : <<Domain[a], anchor>> \in Imitates

llmTier(d, label) ==
  CASE label \in {"victim_response", "malicious_outbound"} -> 2
    [] label = "data_exposure" -> IF external(d) # {} THEN 2 ELSE 1
    [] label \in {"suspicious", "error"} -> 1
    [] OTHER -> 0

threadTier(d) ==
  CASE d.thread = "flagged" -> IF external(d) # {} THEN 2 ELSE 1
    [] d.thread = "tag" /\ external(d) # {} -> 1
    [] OTHER -> 0

\* `raise': the tier is the highest any rule gives.
raised(d, ctx) ==
  {0} \cup (IF d.keyword THEN {2} ELSE {})
      \cup (CASE d.file = "executable" \/ (d.file = "custom" /\ ctx.custom) -> {2}
              [] d.file \in {"macro_office", "container"} -> {1} [] OTHER -> {})
      \cup (IF Cardinality(d.to) > 10 THEN {1} ELSE {})
      \cup (IF external(d) # {} /\ ~trusted(d, ctx) THEN {1} ELSE {})
      \cup (IF imitation(d, ctx) THEN {2} ELSE {})
      \cup (IF ctx.rows # None THEN {threadTier(d)} ELSE {})
      \cup (IF ctx.feed THEN CASE d.feed = "confirmed" -> {2} [] d.feed = "none" -> {} [] OTHER -> {1}
            ELSE {})
      \cup (IF d.homograph THEN {1} ELSE {}) \cup {llmTier(d, ctx.llm)}

\* Whatever an agent wrote that is not harmless takes the second tier.
classifySend(d, ctx) ==
  LET tier == Max(raised(d, ctx)) IN IF d.author = "agent" /\ tier > 0 THEN 2 ELSE tier

(* --------------------------------------------------------------- the verdict --- *)

fresh(k) == cache[k] # None /\ cache[k].at + Ttl > now
\* The model asked on a miss: a label, or what its failure reads as.  Only a
\* label from a well-formed answer is stored, and a failed store is ignored.
parseOutboundOutput(answer) ==
  IF answer \in OUTBOUND_LLM_LABELS THEN [label |-> answer, cacheable |-> TRUE]
  ELSE [label |-> IF answer = "garbled" THEN "suspicious" ELSE answer, cacheable |-> FALSE]

\* What gatherLlmVerdict returns, when the verdict was stored, and the cache
\* after it; settings that could not be read disable nothing.
gatherLlmVerdict(i, answer, lost, settings) ==
  LET k == <<Drafts[i].text, Drafts[i].author>>
      r == parseOutboundOutput(answer)
  IN  IF (settings /\ ~LlmEnabled) \/ Drafts[i].text = None
        THEN [llm |-> None, stored |-> None, cache |-> cache]
      ELSE IF "cache" \notin lost /\ fresh(k)
        THEN [llm |-> cache[k].label, stored |-> cache[k].at, cache |-> cache]
      ELSE [llm |-> r.label, stored |-> IF r.cacheable /\ "put" \notin lost THEN now ELSE None,
            cache |-> IF r.cacheable /\ "put" \notin lost
              THEN [x \in Keys |-> IF x = k THEN [label |-> r.label, at |-> now]
                                   ELSE IF fresh(x) THEN cache[x] ELSE None]
              ELSE cache]

gatherSendContext(i, v, lost) ==
  [rows |-> getSendContext("rows" \notin lost), custom |-> "settings" \notin lost,
   trust |-> "settings" \notin lost /\ Trusting, feed |-> "feed" \notin lost, llm |-> v.llm]

assessSendRisk(i, answer, lost) ==
  LET v == gatherLlmVerdict(i, answer, lost, "settings" \notin lost) IN
  [tier |-> classifySend(Drafts[i], gatherSendContext(i, v, lost)), llm |-> v.llm, at |-> now,
   stored |-> v.stored, rows |-> "rows" \notin lost]

lose(lost) == faults + Cardinality(lost) <= MaxFaults /\ faults' = faults + Cardinality(lost)

preflight(i, answer, lost) ==
  /\ gated[i] = None /\ lose(lost)
  /\ Cardinality({j \in Ids : shown[j] # None} \cup {i}) <= MaxShown
  /\ shown' = [shown EXCEPT ![i] = assessSendRisk(i, answer, lost)]
  /\ cache' = gatherLlmVerdict(i, answer, lost, "settings" \notin lost).cache
  /\ UNCHANGED <<now, graph, gated, log, html>>

gate(i, answer, lost) ==
  /\ gated[i] = None /\ lose(lost)
  /\ gated' = [gated EXCEPT ![i] = assessSendRisk(i, answer, lost)]
  /\ cache' = gatherLlmVerdict(i, answer, lost, "settings" \notin lost).cache
  /\ UNCHANGED <<now, graph, shown, log, html>>

\* The row in SENT and with it the recipients' counts.
deliver(i) ==
  /\ gated[i] # None /\ \A l \in log : l.id # i
  /\ recordSentRecipients(Drafts[i].to) /\ log' = log \cup {[id |-> i, at |-> now]}
  /\ UNCHANGED <<now, cache, shown, gated, faults, html>>

tick == now < MaxTime /\ now' = now + 1 /\ UNCHANGED <<graph, cache, shown, gated, log, faults, html>>
\* Bodies to split are built apart from the drafts.
type(w) ==
  /\ now = 0 /\ \A i \in Ids : shown[i] = None /\ gated[i] = None
  /\ Len(html) < MaxHtml /\ html' = Append(html, w)
  /\ UNCHANGED <<now, graph, cache, shown, gated, log, faults>>

Next ==
  \/ \E w \in Words : type(w)
  \/ /\ html = <<>>
     /\ \/ tick
        \/ \E i \in Ids : deliver(i)
        \/ \E i \in Ids, answer \in Answers, lost \in Losses :
             preflight(i, answer, lost) \/ gate(i, answer, lost)

Spec == Init /\ [][Next]_vars

(* ----------------------------------------------------------------- the quote --- *)

\* "(" and ")" open and close a block quote, ">" is the forward marker; the
\* quote ends with its own closing tag, or with the body.
closing(h, i) ==
  LET depth(j) == Cardinality({n \in i .. j : h[n] = "("}) - Cardinality({n \in i .. j : h[n] = ")"})
      ends == {j \in i .. Len(h) : h[j] = ")" /\ depth(j) = 0}
  IN  IF ends = {} THEN Len(h) ELSE Min(ends)

splitQuotedHtml(h) ==
  LET from[i \in 1 .. Len(h) + 1] ==
        LET marks == {j \in i .. Len(h) : h[j] \in {"(", ">"}}
            m == Min(marks)
            end == IF h[m] = ">" THEN Len(h) ELSE closing(h, m)
            plain(j) == IF j < i THEN <<>> ELSE << [text |-> SubSeq(h, i, j), quote |-> FALSE] >>
        IN  IF i > Len(h) THEN <<>>
            ELSE IF marks = {} THEN plain(Len(h))
            ELSE plain(m - 1) \o << [text |-> SubSeq(h, m, end), quote |-> TRUE] >> \o from[end + 1]
  IN  from[1]

tokens(t) == SelectSeq(t, LAMBDA w : w \notin {"(", ")", ">"})
\* An optional header, then a run of the original's words.
isGenuineQuote(q) == \E i \in 0 .. MaxHeader :
  /\ i < Len(q) /\ \A j \in 1 .. i : q[j] \in HEADER_WORDS
  /\ \E s \in 0 .. Len(Original) : \E n \in 1 .. Len(Original) :
       s + n <= Len(Original) /\ SubSeq(q, i + 1, Len(q)) = SubSeq(Original, s + 1, s + n)

authored(h) ==
  FlattenSeq([i \in DOMAIN splitQuotedHtml(h) |->
    LET s == splitQuotedHtml(h)[i] t == tokens(s.text) IN
    IF s.quote /\ isGenuineQuote(t) THEN <<>> ELSE t])
\* None: there is nothing of the sender's to judge.
buildOutboundClassifierInput(h, inherited) == IF authored(h) = <<>> /\ inherited THEN None ELSE authored(h)

(* --------------------------------------------------------------- properties --- *)

\* A tier of 0 for a message that leaves the organisation was given only with
\* the history in hand, to recipients each delivered to twice, first long ago
\* and lately enough (send-risk.ts, established correspondents).
TrustIsEarned == \A i \in Ids :
  (gated[i] # None /\ gated[i].tier = 0 /\ external(Drafts[i]) # {}) =>
    /\ gated[i].rows /\ Trusting
    /\ \A a \in external(Drafts[i]) :
         LET past == {l \in log : a \in Drafts[l.id].to /\ l.at <= gated[i].at} IN
         /\ Cardinality(past) >= ESTABLISHED_MIN_SENDS
         /\ \E l \in past : l.at + MinAge <= gated[i].at
         /\ \E l \in past : l.at + MaxIdle >= gated[i].at

\* The verdict the composer showed is the one the gate uses for Ttl after it was
\* stored, which may be before it was shown, unless a call failed: a model that
\* changes its mind does not change the tier under the user.
ShownVerdictHolds == \A i \in Ids :
  (/\ shown[i] # None /\ gated[i] # None /\ shown[i].stored # None
   /\ gated[i].at < shown[i].stored + Ttl /\ faults = 0) => gated[i].llm = shown[i].llm

\* No evidence lowers a tier, and an agent's draft is never below the user's.
EvidenceOnlyRaises == (\A i \in Ids : shown[i] = None /\ gated[i] = None) /\ html = <<>> => \A d \in Samples, rows \in BOOLEAN :
  LET ctx(feed, custom, llm) ==
        [rows |-> getSendContext(rows), custom |-> custom, trust |-> Trusting, feed |-> feed, llm |-> llm]
      base == classifySend(d, ctx(FALSE, FALSE, None))
  IN  /\ \A feed, custom \in BOOLEAN, l \in OUTBOUND_LLM_LABELS \cup {"error", "unavailable"} :
           classifySend(d, ctx(feed, custom, l)) >= base
      /\ classifySend([d EXCEPT !.author = "agent"], ctx(TRUE, TRUE, None))
           >= classifySend([d EXCEPT !.author = "user"], ctx(TRUE, TRUE, None))

\* Nothing the sender wrote hides in quote markup: every word that neither the
\* original nor a quote's header has is judged, in the order it was written.
NothingHidden ==
  LET own(t) == SelectSeq(t, LAMBDA w : w \notin ToSet(Original) \cup HEADER_WORDS) IN
  /\ own(authored(html)) = own(tokens(html))
  /\ FlattenSeq([i \in DOMAIN splitQuotedHtml(html) |-> splitQuotedHtml(html)[i].text]) = html
  /\ own(tokens(html)) # <<>> => buildOutboundClassifierInput(html, TRUE) # None

SendRiskSound == TrustIsEarned /\ ShownVerdictHolds /\ EvidenceOnlyRaises /\ NothingHidden

\* send-risk-assess.ts:16: "A failed lookup drops only the rules that depend on
\* it and never raises the send above what the stateless rules decide".
FailedLookupNeverRaises == \A i \in Ids :
  gated[i] # None /\ ~LlmEnabled => gated[i].llm = None
=============================================================================
