----------------------------- MODULE MailNotice -----------------------------
(***************************************************************************)
(* The notice of new mail: where a mail's notice goes by the tiers of the  *)
(* settings, what is on the wire, and what the "Send test" button tells    *)
(* the operator about it (workers/lib/new-email-notify.ts).  A text is a   *)
(* sequence of characters and of longer pieces that no field can contain.  *)
(***************************************************************************)
EXTENDS Naturals, FiniteSets, SequencesExt

CONSTANTS
  Names,       \* of Worker Secrets
  Prefixed,    \* those that begin with NEW_EMAIL_WEBHOOK_
  Secrets,     \* [Names -> what is stored there, or None]
  Global,      \* the value of NEW_EMAIL_WEBHOOK_URL, or None
  Signing,     \* is NEW_EMAIL_WEBHOOK_SIGNING_SECRET set
  Origin,      \* is RP_ORIGIN set
  Lower,       \* [header names -> the name without regard to case]
  Mails,       \* [mail |-> [sender, subject, verdict]]
  Legacy,      \* [Kinds -> the blocks a tier may hold at first]
  Bodies,      \* the blocks the operator may test and save
  MaxSubject, MaxJsonSubject, MaxFaults, MaxEdits, None

VARIABLES
  tiers,       \* [Kinds -> a block or None]
  flight,      \* [mails and "test" -> the request under way, or None]
  noticed,     \* mail whose notice was decided: [DOMAIN Mails -> BOOLEAN]
  posts,       \* what an endpoint received
  shown,       \* the operator's last test: [block, stage, detail], or None
  faults, edits

vars == <<tiers, flight, noticed, posts, shown, faults, edits>>

Kinds == {"mailbox", "domain", "org"}
Rank == [k \in Kinds |-> CASE k = "mailbox" -> 3 [] k = "domain" -> 2 [] k = "org" -> 1]
Signature == "x-phishsoc-signature"

(* ------------------------------------------------------------- the message --- *)

sanitizeField(text) == SelectSeq(text, LAMBDA c : c \notin {"<", ">", "|"})

upTo(text, n) == IF Len(text) > n THEN SubSeq(text, 1, n) ELSE text

truncateSubject(subject) ==
  LET clean == sanitizeField(subject) IN
  IF Len(clean) > MaxSubject THEN upTo(clean, MaxSubject) \o <<"...">> ELSE clean

orElse(text, default) == IF text = <<>> THEN default ELSE text

buildDeepLink == IF Origin THEN <<"link">> ELSE <<>>

\* The fields are parted by " | ", which is here the piece "and".
buildMessageText(n) ==
  <<"and">> \o sanitizeField(orElse(n.sender, <<"unknown">>))
    \o <<"and">> \o truncateSubject(orElse(n.subject, <<"(no subject)">>))
    \o (IF n.verdict = None THEN <<>> ELSE <<"and", n.verdict>>)
    \o (IF buildDeepLink = <<>> THEN <<>> ELSE <<"and", "<">> \o buildDeepLink \o <<"|", "open", ">">>)

buildJsonPayload(n) ==
  [sender |-> n.sender, subject |-> upTo(n.subject, MaxJsonSubject), verdict |-> n.verdict,
   url |-> IF buildDeepLink = <<>> THEN None ELSE buildDeepLink]

payload(n, format) ==
  IF format = "json" THEN [shape |-> "json", fields |-> buildJsonPayload(n)]
                     ELSE [shape |-> "chat", text |-> buildMessageText(n)]

buildTestNotification == [sender |-> <<"test">>, subject |-> <<"t">>, verdict |-> "test"]

(* --------------------------------------------------------- the destination --- *)

\* A bare URL, or {url, headers}; a header that is no string is dropped.
parseWebhookSecret(v) ==
  CASE v.form = "url" -> [url |-> v.url, headers |-> <<>>]
    [] v.form = "envelope" /\ v.url \notin {None, ""} ->
         [url |-> v.url, headers |-> SelectSeq(v.headers, LAMBDA h : h.value # None)]
    [] OTHER -> None

resolveWebhookSecretTarget(name) ==
  IF name \notin Prefixed \/ Secrets[name] = None THEN None ELSE parseWebhookSecret(Secrets[name])

schemaAccepts(b) == (b.secret # None => b.secret \in Prefixed) /\ b.format # "bad"

\* A stored block the schema refuses is muted on read.
parseSettingsLenient(b) ==
  IF b # None /\ ~schemaAccepts(b) THEN [enabled |-> FALSE, secret |-> None, format |-> None] ELSE b

narrowest(ks) == CHOOSE k \in ks : \A o \in ks : Rank[o] <= Rank[k]

\* The most specific tier wins as a whole; nothing is merged.
resolveNewEmailWebhook(t) ==
  LET said == {k \in Kinds : t[k] # None} IN
  IF said = {} THEN [configured |-> FALSE, secret |-> None, format |-> "chat"]
  ELSE LET b == t[narrowest(said)] IN
       [configured |-> TRUE, secret |-> IF b.enabled THEN b.secret ELSE None,
        format |-> IF b.format = "json" THEN "json" ELSE "chat"]

resolveWebhookTarget(hook) ==
  CASE ~hook.configured -> IF Global = None THEN None ELSE parseWebhookSecret(Global)
    [] hook.configured /\ hook.secret = None -> None
    [] OTHER -> resolveWebhookSecretTarget(hook.secret)

(* ------------------------------------------------------------- the request --- *)

\* An assignment to a key of a JavaScript object: its place is kept.
assign(fields, h) ==
  IF \E i \in DOMAIN fields : fields[i].name = h.name
  THEN [i \in DOMAIN fields |-> IF fields[i].name = h.name THEN h ELSE fields[i]]
  ELSE Append(fields, h)

field(n, v) == [name |-> n, value |-> v]

\* The signature is assigned after the envelope's headers.
headersOf(target) ==
  LET spread == FoldLeft(assign, <<field("content-type", "json")>>, target.headers) IN
  IF Signing THEN assign(spread, field(Signature, "signed")) ELSE spread

\* fetch() joins the values of the keys that differ in case only.
onWire(fields) ==
  [n \in {Lower[fields[i].name] : i \in DOMAIN fields} |->
     LET same == SelectSeq(fields, LAMBDA h : Lower[h.name] = n) IN
     [i \in DOMAIN same |-> same[i].value]]

deliverNewEmailNotification(target, n, format, saw) ==
  [target |-> target, wire |-> onWire(headersOf(target)), body |-> payload(n, format), saw |-> saw]

dispatchNewEmailNotification(m, hook, saw) ==
  LET target == resolveWebhookTarget(hook) IN
  IF target = None THEN None ELSE deliverNewEmailNotification(target, Mails[m], hook.format, saw)

(* -------------------------------------------------------------- the actions --- *)

Init ==
  /\ tiers \in {t \in [Kinds -> UNION {Legacy[k] : k \in Kinds}] : \A k \in Kinds : t[k] \in Legacy[k]}
  /\ flight = [j \in DOMAIN Mails \cup {"test"} |-> None]
  /\ noticed = [m \in DOMAIN Mails |-> FALSE]
  /\ posts = {} /\ shown = None /\ faults = 0 /\ edits = 0

\* A mail was filed and given its verdict.  A tier whose read fails is as
\* good as absent, to the settings as to this code.
receiveEmail(m) ==
  \E failed \in SUBSET Kinds :
    LET seen == [k \in Kinds |-> IF k \in failed THEN None ELSE parseSettingsLenient(tiers[k])] IN
    /\ ~noticed[m] /\ noticed' = [noticed EXCEPT ![m] = TRUE]
    /\ faults + Cardinality(failed) <= MaxFaults /\ faults' = faults + Cardinality(failed)
    /\ flight' = [flight EXCEPT ![m] =
         dispatchNewEmailNotification(m, resolveNewEmailWebhook(seen), [tiers |-> tiers, failed |-> failed])]
    /\ UNCHANGED <<tiers, posts, shown, edits>>

\* POST /api/v1/new-email-webhook/test with a block that need not be saved.
sendTest(b) ==
  LET target == IF b.secret = None THEN None ELSE resolveWebhookSecretTarget(b.secret)
      answer(stage) == [block |-> b, stage |-> stage, detail |-> <<>>]
  IN
  /\ flight["test"] = None /\ shown = None /\ UNCHANGED <<tiers, noticed, posts, faults, edits>>
  /\ \/ /\ ~schemaAccepts(b) \/ b.secret = None
        /\ shown' = answer("config") /\ UNCHANGED flight
     \/ /\ schemaAccepts(b) /\ b.secret # None /\ target = None
        /\ shown' = answer("secret") /\ UNCHANGED flight
     \/ /\ schemaAccepts(b) /\ target # None
        /\ shown' = answer("sent")
        /\ flight' = [flight EXCEPT !["test"] =
             deliverNewEmailNotification(target, buildTestNotification,
               IF b.format = "json" THEN "json" ELSE "chat", [tiers |-> tiers, failed |-> {}])]

\* What an error says of the request may hold its URL or a header's value.
redactTarget(text, target) ==
  SelectSeq(text, LAMBDA c : c # target.url /\ \A i \in DOMAIN target.headers : c # target.headers[i].value)

answered(j, stage, detail) ==
  shown' = IF j = "test" THEN [shown EXCEPT !.stage = stage, !.detail = detail] ELSE shown

received(j) ==
  [job |-> j, target |-> flight[j].target, wire |-> flight[j].wire, body |-> flight[j].body, saw |-> flight[j].saw]

\* The endpoint takes the request and answers 2xx or something else.
delivered(j) ==
  /\ flight[j] # None /\ flight' = [flight EXCEPT ![j] = None]
  /\ posts' = posts \cup {received(j)}
  /\ \E stage \in {"ok", "delivery"} : answered(j, stage, <<>>)
  /\ UNCHANGED <<tiers, noticed, faults, edits>>

\* A transport failure, before the endpoint has the request or after.
undelivered(j) ==
  /\ flight[j] # None /\ flight' = [flight EXCEPT ![j] = None]
  /\ faults < MaxFaults /\ faults' = faults + 1
  /\ posts' \in {posts, posts \cup {received(j)}}
  /\ \E text \in {<<flight[j].target.url>>}
                   \cup {<<"failed", h.value>> : h \in ToSet(flight[j].target.headers)} :
       answered(j, "delivery", redactTarget(text, flight[j].target))
  /\ UNCHANGED <<tiers, noticed, edits>>

saveTier(k, b) ==
  /\ edits < MaxEdits /\ edits' = edits + 1
  /\ schemaAccepts(b) /\ tiers' = [tiers EXCEPT ![k] = b]
  /\ UNCHANGED <<flight, noticed, posts, shown, faults>>

Next ==
  \/ \E m \in DOMAIN Mails : receiveEmail(m)
  \/ \E b \in Bodies : sendTest(b)
  \/ \E j \in DOMAIN flight : delivered(j) \/ undelivered(j)
  \/ \E k \in Kinds, b \in Bodies : saveTier(k, b)

Spec == Init /\ [][Next]_vars

(* ----------------------------------------------------------- the properties --- *)

TypeOK ==
  /\ DOMAIN tiers = Kinds /\ noticed \in [DOMAIN Mails -> BOOLEAN]
  /\ shown # None => shown.stage \in {"config", "secret", "sent", "ok", "delivery"}
  /\ \A p \in posts : p.job \in DOMAIN flight
  /\ faults <= MaxFaults /\ edits <= MaxEdits

mailPosts == {p \in posts : p.job # "test"} \cup
             {flight[m] : m \in {m \in DOMAIN Mails : flight[m] # None}}
\* The block that decides, among the tiers as they were then.
deciding(p) ==
  LET said == {k \in Kinds \ p.saw.failed : p.saw.tiers[k] # None} IN
  IF said = {} THEN None ELSE p.saw.tiers[narrowest(said)]

\* Once a tier that could be read says something, the notice goes to the
\* channel that tier names or nowhere (new-email-notify.ts:382-384), and the
\* deployment's channel gets only what no tier claimed.
NoticeStaysScoped ==
  \A p \in mailPosts :
    IF deciding(p) = None THEN Global # None /\ p.target = parseWebhookSecret(Global)
    ELSE /\ deciding(p).enabled /\ deciding(p).secret \in Prefixed
         /\ p.target = parseWebhookSecret(Secrets[deciding(p).secret])

\* "Send test" tells what mail will meet: the same endpoint, headers and
\* shape, and a test that found no usable secret stands for mail unsent.
TestTellsTruth ==
  shown # None =>
    \A p \in mailPosts :
      (deciding(p) # None /\ deciding(p).secret = shown.block.secret
         /\ deciding(p).format = shown.block.format) =>
        /\ shown.stage \notin {"config", "secret"}
        /\ \A q \in posts \cup {flight["test"]} :
             (q # None /\ q \notin mailPosts) =>
               q.target = p.target /\ q.wire = p.wire /\ q.body.shape = p.body.shape

\* With a signing secret every request carries the signature, and an envelope
\* can neither replace nor drop it (new-email-notify.ts:221-225).  It can only
\* add to it: a key that differs in case is another key, and fetch joins both.
SignatureStands ==
  \A p \in posts :
    Signing =>
      LET others == {h \in ToSet(p.target.headers) : h.name # Signature /\ Lower[h.name] = Signature} IN
      /\ Signature \in DOMAIN p.wire
      /\ ToSet(p.wire[Signature]) = {"signed"} \cup {h.value : h \in others}

\* A chat text holds one link, the product's own, at its end; no sender and
\* no subject can write another.
OneLink ==
  \A p \in posts : p.body.shape = "chat" =>
    LET t == p.body.text
        openings == {i \in DOMAIN t : t[i] \in {"<", "|", ">"}} IN
    openings = IF Origin THEN {Len(t) - 4, Len(t) - 2, Len(t)} ELSE {}

\* What the operator reads of a failed test names neither the URL nor a
\* header's value, which are credentials.
NoCredentialShown ==
  (shown # None /\ shown.block.secret # None /\ shown.block.secret \in Prefixed) =>
    LET target == resolveWebhookSecretTarget(shown.block.secret) IN
    target # None =>
      \A i \in DOMAIN shown.detail :
        shown.detail[i] \notin {target.url} \cup {h.value : h \in ToSet(target.headers)}
=============================================================================
