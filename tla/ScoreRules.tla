------------------------------ MODULE ScoreRules ------------------------------
(***************************************************************************)
(* The synchronous scorers of the pipeline besides links: the results of   *)
(* Authentication-Results headers and the originating hop (security/       *)
(* auth.ts), attachments by extension (attachments.ts), the classifier's   *)
(* answer and budget (classification.ts), the sender's reputation          *)
(* (reputation.ts) and business hours (time-rules.ts).  The state is the   *)
(* message, grown a piece at a time.  Confidences are in tenths.           *)
(***************************************************************************)
EXTENDS Integers, Sequences, SequencesExt

CONSTANTS
  Headers,     \* [key, id, results, from, dkim, ips]
  Trusted,     \* trusted_authserv_ids, each a sequence of labels
  Private,     \* addresses of private, loopback and link-local space
  Files,       \* filenames, each with its extension and its class
  Policies,    \* attachment policies
  Calls,       \* [sysone, chat] outcomes of the model calls: [how, ms, label, confidence]
  Senders,     \* [rep, cti] what is known of the sender
  Clocks,      \* [hours, hour, weekday] a time of arrival
  None,
  MaxHeaders, MaxFiles

VARIABLES headers, files, fact   \* fact: [kind, of] one policy, call, sender or clock

vars == <<headers, files, fact>>
isFact(f) ==
  \/ f.kind = "policy" /\ f.of \in Policies
  \/ f.kind = "call" /\ f.of \in Calls
  \/ f.kind = "sender" /\ f.of \in Senders
  \/ f.kind = "clock" /\ f.of \in Clocks

TypeOK ==
  /\ headers \in Seq(Headers) /\ Len(headers) <= MaxHeaders
  /\ files \in Seq(Files) /\ Len(files) <= MaxFiles
  /\ fact = None \/ isFact(fact)

Init == headers = <<>> /\ files = <<>> /\ fact = None

header(h) ==
  /\ files = <<>> /\ fact = None /\ Len(headers) < MaxHeaders
  /\ headers' = Append(headers, h) /\ UNCHANGED <<files, fact>>
attach(f) ==
  /\ fact # None /\ fact.kind = "policy" /\ Len(files) < MaxFiles
  /\ files' = Append(files, f) /\ UNCHANGED <<headers, fact>>
learn(k, of) ==
  /\ headers = <<>> /\ fact = None
  /\ fact' = [kind |-> k, of |-> of] /\ UNCHANGED <<headers, files>>

Next ==
  \/ \E h \in Headers : header(h)
  \/ \E f \in Files : attach(f)
  \/ \E p \in Policies : learn("policy", p)
  \/ \E c \in Calls : learn("call", c)
  \/ \E s \in Senders : learn("sender", s)
  \/ \E c \in Clocks : learn("clock", c)

(* ---------------------------------------------------------------- auth.ts --- *)

Methods == {"spf", "dkim", "dmarc"}
emptyVerdict ==
  [result |-> [m \in Methods |-> "none"], set |-> {}, authservId |-> None, trusted |-> FALSE,
   headerFrom |-> None, dkimObservations |-> {}]
gating == Trusted # {}
matchesTrusted(id) == \E t \in Trusted : IsSuffix(t, id)
accepts(h) == ~gating \/ (h.id # None /\ matchesTrusted(h.id))

\* One header into the verdict; a method keeps the first result it had.
takeResult(v, r) ==
  IF r[1] \in v.set THEN v
  ELSE [v EXCEPT !.result[r[1]] = r[2], !.set = @ \cup {r[1]}]

\* Mutation of takeHeader: header.from is of the last header that names one.
anyFrom(v, h) ==
  IF ~accepts(h) THEN v
  ELSE LET w == FoldLeft(takeResult, v, h.results) IN
       [w EXCEPT !.authservId = IF @ = None THEN h.id ELSE @, !.trusted = @ \/ gating,
                 !.headerFrom = IF h.from # None THEN h.from ELSE @,
                 !.dkimObservations = @ \cup h.dkim]

takeHeader(v, h) ==
  IF ~accepts(h) THEN v
  ELSE LET w == FoldLeft(takeResult, v, h.results) IN
       [w EXCEPT !.authservId = IF @ = None THEN h.id ELSE @, !.trusted = @ \/ gating,
                 !.headerFrom = IF "dmarc" \in w.set \ v.set THEN h.from ELSE @,
                 !.dkimObservations = @ \cup h.dkim]

findAuthHeaders(hs) == SelectSeq(hs, LAMBDA h : h.key = "authentication-results")
parseAuthResults(hs) == FoldLeft(takeHeader, emptyVerdict, findAuthHeaders(hs))

scoreAuth(v) ==
  LET raw == (IF v.result["dmarc"] = "fail" THEN 20 ELSE 0)
               + (IF v.result["spf"] \in {"fail", "softfail"} THEN 10 ELSE 0)
               + (IF v.result["dkim"] = "fail" THEN 10 ELSE 0)
  IN  (IF raw > 30 THEN 30 ELSE raw) - (IF v.result["dmarc"] = "pass" THEN 10 ELSE 0)
confidenceAuth(v) ==
  IF v.trusted THEN 9 ELSE IF \A m \in Methods : v.result[m] = "none" THEN 2 ELSE 5

isPrivateOrLoopbackIp(ip) == ip \in Private
findReceivedHeaders(hs) == SelectSeq(hs, LAMBDA h : h.key = "received")
\* The first public address of the most recent hop that names one.
extractReceivedFromIp(hs) ==
  LET public == SelectSeq(FlattenSeq([i \in DOMAIN findReceivedHeaders(hs) |-> findReceivedHeaders(hs)[i].ips]),
                          LAMBDA ip : ~isPrivateOrLoopbackIp(ip))
  IN  IF public = <<>> THEN None ELSE public[1]

(* --------------------------------------------------------- attachments.ts --- *)

classifyAttachment(f) == IF f.ext = "" THEN "safe" ELSE f.category
\* The custom list is consulted first and always blocks.
attachmentAction(f, policy) ==
  IF f.ext # "" /\ f.ext \in policy.custom THEN "block"
  ELSE IF classifyAttachment(f) = "safe" THEN "ignore" ELSE policy.action[classifyAttachment(f)]
boost == [container |-> 25, macro_office |-> 15, executable |-> 40]
scoreAttachments(fs, policy) ==
  [hardBlock |-> \E i \in DOMAIN fs : attachmentAction(fs[i], policy) = "block",
   score |-> FoldLeft(LAMBDA n, f : n + (IF attachmentAction(f, policy) = "score"
                                            THEN boost[classifyAttachment(f)] ELSE 0), 0, fs)]

(* ------------------------------------------------------ classification.ts --- *)

Budget == 5
JevTimeout == 3
\* A call that may take `within'; a reply that is no JSON is read as suspicious.
parseClassifierOutput(r) ==
  IF r.how = "garbage" THEN [label |-> "suspicious", confidence |-> 3]
  ELSE [label |-> IF r.label \in {"safe", "spam", "phishing", "bec", "suspicious"} THEN r.label ELSE "suspicious",
        confidence |-> IF r.confidence < 0 THEN 0 ELSE IF r.confidence > 10 THEN 10 ELSE r.confidence]
withTimeout(r, within) == IF r.ms > within THEN [how |-> "timeout", ms |-> within] ELSE r

\* System One first, then the chat model with what is left of the budget.
classifyWithChat(r, spent, skip) ==
  LET c == withTimeout(r, Budget - spent) IN
  [ms |-> spent + c.ms,
   result |-> IF c.how = "timeout" /\ skip THEN [label |-> "unavailable", confidence |-> 0]
              ELSE IF c.how \in {"timeout", "throws"} THEN [label |-> "error", confidence |-> 3]
              ELSE parseClassifierOutput(c)]
classifyEmail(c) ==
  IF c.sysone = None THEN classifyWithChat(c.chat, 0, c.skip)
  ELSE LET s == withTimeout(c.sysone, JevTimeout) IN
       IF s.how = "answers" THEN [ms |-> s.ms, result |-> parseClassifierOutput(s)]
       ELSE classifyWithChat(c.chat, s.ms, c.skip)

labelScore == [safe |-> 0, spam |-> 20, suspicious |-> 30, error |-> 30, bec |-> 45, phishing |-> 50]
scoreClassification(r) ==
  IF r.label = "unavailable" THEN 0 ELSE (labelScore[r.label] * (10 + r.confidence) + 10) \div 20

(* ---------------------------------------------- reputation.ts, time-rules --- *)

\* The largest single match of the sender's address in the CTI answer.
firstTimeSenderPriorFromCti(cti) ==
  IF cti.reputation = "malicious" THEN 20
  ELSE IF cti.reputation = "suspicious" \/ cti.anonymised THEN 10
  ELSE IF cti.reputation \in {"known", "benign", "safe"} THEN 1 ELSE 5

scoreReputation(s) ==
  IF s.rep = None \/ s.rep.count = 0
    THEN IF s.cti # None THEN firstTimeSenderPriorFromCti(s.cti) ELSE 5
  ELSE (IF s.rep.flagged THEN 15 ELSE 0) + (IF s.rep.avg > 70 THEN 10 ELSE 0)
\* 0.3 + 0.06 per message, at most 0.9, in hundredths.
confidenceReputation(s) ==
  IF s.rep = None \/ s.rep.count = 0 THEN IF s.cti # None THEN 70 ELSE 30
  ELSE IF s.rep.flagged THEN 95
  ELSE IF 30 + 6 * s.rep.count > 90 THEN 90 ELSE 30 + 6 * s.rep.count

clampHour(v, fallback) == IF v \in 0 .. 23 THEN v ELSE fallback
inHours(h, start, end) == IF start <= end THEN h >= start /\ h < end ELSE h >= start \/ h < end
scoreOffHours(c) ==
  IF c.hours = None \/ ~c.hours.boost \/ c.hour = None THEN 0
  ELSE IF c.hours.weekdays_only /\ c.weekday \in {0, 6} THEN 10
  ELSE IF inHours(c.hour, clampHour(c.hours.start, 7), clampHour(c.hours.end, 19)) THEN 0 ELSE 10

(* ------------------------------------------------------------ properties --- *)

\* A header that is not of a trusted server changes nothing wherever it stands;
\* DMARC's domain is of the header whose result counts; adding a header after
\* the others never replaces a result, so a forged copy below cannot either.
AuthNotForged ==
  LET v == parseAuthResults(headers)
      n == Len(headers)
      auth == SelectSeq(headers, LAMBDA h : h.key = "authentication-results" /\ accepts(h))
      has(h) == \E i \in DOMAIN h.results : h.results[i][1] = "dmarc"
      first == SelectSeq(auth, has)
  IN  /\ v = parseAuthResults(auth)
      /\ v.headerFrom = IF first = <<>> THEN None ELSE first[1].from
      /\ v.trusted = (gating /\ auth # <<>>)
      /\ n > 0 => LET u == parseAuthResults(SubSeq(headers, 1, n - 1)) IN
           /\ \A m \in u.set : v.result[m] = u.result[m]
           /\ u.authservId # None => v.authservId = u.authservId
      /\ scoreAuth(v) \in -10 .. 30 /\ (gating /\ confidenceAuth(v) = 9 => v.trusted)
      /\ extractReceivedFromIp(headers) \notin Private

\* The custom list only tightens: with it nothing that blocked passes and no
\* score is lost but to a block; the order of the files does not matter.
AttachmentsTighten ==
  fact # None /\ fact.kind = "policy" =>
    LET p == fact.of
        bare == scoreAttachments(files, [p EXCEPT !.custom = {}])
        full == scoreAttachments(files, p)
    IN  /\ bare.hardBlock => full.hardBlock
        /\ full.score >= bare.score \/ full.hardBlock
        /\ full = scoreAttachments(Reverse(files), p)

\* The classifier answers within its budget whatever the models do, a broken
\* one weighs like suspicion and never less than safe, and only a time-out
\* that the mailbox lets pass takes it out.
ClassifierBounded ==
  fact # None /\ fact.kind = "call" =>
    LET r == classifyEmail(fact.of) IN
    /\ r.ms <= Budget
    /\ scoreClassification(r.result) \in 0 .. 50
    /\ r.result.label = "unavailable" => fact.of.skip /\ r.ms = Budget
    /\ r.result.label = "error" => scoreClassification(r.result) >= 15
    /\ (r.result.label = "safe" /\ fact.of.sysone = None) => fact.of.chat.label = "safe"

\* A sender the mailbox knows weighs by its history only, one from an address
\* known as bad never less than one nothing is known of; each hour is inside
\* a window or inside the window turned around, unless the window is empty.
SenderAndHours ==
  /\ fact # None /\ fact.kind = "sender" =>
       LET s == fact.of IN
       /\ scoreReputation(s) \in 0 .. 25 /\ confidenceReputation(s) \in 30 .. 95
       /\ (s.cti # None /\ (s.cti.reputation \in {"malicious", "suspicious"} \/ s.cti.anonymised)
            /\ (s.rep = None \/ s.rep.count = 0)) => scoreReputation(s) > scoreReputation([s EXCEPT !.cti = None])
  /\ fact # None /\ fact.kind = "clock" =>
       LET c == fact.of IN
       c.hours # None /\ c.hour # None =>
         LET a == clampHour(c.hours.start, 7) b == clampHour(c.hours.end, 19) IN
         /\ a # b => inHours(c.hour, a, b) # inHours(c.hour, b, a)
         /\ a = b => ~inHours(c.hour, a, b)
         /\ scoreOffHours(c) = 0 => ~c.hours.boost \/ (inHours(c.hour, a, b) /\ ~(c.hours.weekdays_only /\ c.weekday \in {0, 6}))

ScorersSound == AuthNotForged /\ AttachmentsTighten /\ ClassifierBounded /\ SenderAndHours
=============================================================================
