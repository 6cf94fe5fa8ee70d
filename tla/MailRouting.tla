---------------------------- MODULE MailRouting ----------------------------
(***************************************************************************)
(* Where a delivery goes before any pipeline sees it.  normalizeInbound    *)
(* (providers/cf-routing.ts) finds the recipient and asks R2, one read at  *)
(* a time, for a mailbox, for a relay policy and for a catch-all;          *)
(* receiveEmail looks for the mailbox once more, and                       *)
(* receiveGatewayPassthrough (lib/gateway-receive.ts) for the policy.      *)
(* Meanwhile mailboxes come and go, domains and their settings change, and *)
(* reads fail.  Deliveries share nothing but that world, so one is         *)
(* followed.  An address is a value with a domain, or None of it.          *)
(***************************************************************************)
EXTENDS Naturals, Sequences

CONSTANTS
  Addresses, Domains,
  DomainOf,       \* [Addresses -> Domains \cup {None}]
  Seed,           \* env.DOMAINS
  AllowLists,     \* what env.EMAIL_ADDRESSES may be
  Events,         \* deliveries, see Event
  DomainSettings, \* what a domain's settings may say, see Settings
  MAX_EMAIL_SIZE,
  None,
  MaxTries, MaxChanges, MaxFaults   \* bounds

VerdictActions == {"allow", "tag", "quarantine", "block"}
Behaviors == {"relay", "hold", "drop"}

\* rcpt is whom the sender's server named.  Cloudflare adds a Received line, with
\* a `for' clause of rcpt or with none, above the sender's own lines (below);
\* event.to may be another address, or missing.
Event ==
  [rcpt : Addresses, to : Addresses \cup {None}, stamp : {"for", "bare", "none"},
   below : Seq(Addresses \cup {None}), header : Seq(Addresses), declared : Nat, bytes : Nat,
   parses : BOOLEAN]

\* relay.enabled, relay.target.host, relay.actions; catchall_intel.enabled
Settings ==
  [enabled : BOOLEAN, host : BOOLEAN, actions : UNION {[S -> Behaviors] : S \in SUBSET VerdictActions},
   catchall : BOOLEAN]

VARIABLES
  allow,     \* env.EMAIL_ADDRESSES
  boxes,     \* addresses whose mailbox JSON is in R2
  org,       \* the organisation's domains
  settings,  \* [Domains -> Settings]
  past,      \* what org and settings have been: an isolate may still hold it
  pc, event,
  queue,     \* the recipients, by position, still to be looked up at this stage
  to,        \* the address the delivery is for, once it is known
  policy,    \* the relay policy receiveGatewayPassthrough acts on
  since,     \* what held always and what ever since the delivery came
  tries, changes, faults

vars == <<allow, boxes, org, settings, past, pc, event, queue, to, policy, since, tries, changes, faults>>
delivery == <<pc, event, queue, to, policy, tries>>
world == <<boxes, org, settings, past, changes>>

(* --------------------------------------------------------------- the policy --- *)

empty == [enabled |-> FALSE, host |-> FALSE, actions |-> [a \in {} |-> "relay"], catchall |-> FALSE]
DEFAULT_RELAY_ACTIONS ==
  [a \in VerdictActions |-> CASE a = "quarantine" -> "hold" [] a = "block" -> "drop" [] OTHER -> "relay"]

resolveRelayPolicy(s) ==
  IF ~s.enabled \/ ~s.host THEN None
  ELSE [a \in VerdictActions |-> IF a \in DOMAIN s.actions THEN s.actions[a] ELSE DEFAULT_RELAY_ACTIONS[a]]

\* What becomes of a passthrough: nothing to hold it in, and a verdict that
\* isolates is capped first; a pipeline that threw (None) relays.
tagCap(verdict) == IF verdict \in {"quarantine", "block"} THEN "tag" ELSE verdict
behaviorFor(verdict, p) ==
  IF verdict = None \/ p[verdict] = "hold" THEN "relay" ELSE p[verdict]

(* ------------------------------------------------------------ the recipient --- *)

\* The `for' clauses of the Received lines, from the top.
received(e) ==
  CASE e.stamp = "for" -> <<e.rcpt>> \o e.below
    [] e.stamp = "bare" -> <<None>> \o e.below
    [] OTHER -> <<>>

\* Mutation of topReceivedForAddress: any line with a `for' clause will do.
firstForClause(lines) ==
  LET named == SelectSeq(lines, LAMBDA a : a # None) IN IF named = <<>> THEN None ELSE Head(named)

\* Only the top line is Cloudflare's.
topReceivedForAddress(lines) == IF lines = <<>> THEN None ELSE Head(lines)

envelopeRecipient(e) ==
  LET receivedFor == topReceivedForAddress(received(e)) IN IF receivedFor # None THEN receivedFor ELSE e.to

\* The header's addresses count only when there is no envelope recipient.
recipients(e) == IF envelopeRecipient(e) # None THEN <<envelopeRecipient(e)>> ELSE e.header

\* Those whose mailbox may take the mail: the ones on the allow-list or,
\* without a list, the first.
registered(e) ==
  IF allow # {} THEN {i \in DOMAIN recipients(e) : recipients(e)[i] \in allow} ELSE {1}

\* The recipient that is looked up next.
first(i) == i \in queue /\ \A j \in queue : i <= j
address(i) == recipients(event)[i]

streamToArrayBuffer(e) == 0 < e.declared /\ e.declared <= MAX_EMAIL_SIZE /\ e.bytes <= e.declared

(* ----------------------------------------------------------------- the world --- *)

\* getOrgSettings and getDomainSettings never throw: a read that fails is the
\* isolate's copy, which may be an earlier state, or nothing.
fails == faults < MaxFaults /\ faults' = faults + 1
ReadOrg(domains) ==
  \/ domains = org /\ UNCHANGED <<faults, since>>
  \/ /\ fails /\ since' = [since EXCEPT !.failed = TRUE]
     /\ domains \in {{}} \cup {w.org : w \in past}
ReadDomain(d, s) ==
  \/ s = settings[d] /\ UNCHANGED <<faults, since>>
  \/ /\ fails /\ since' = [since EXCEPT !.failed = TRUE]
     /\ s \in {empty} \cup {w.settings[d] : w \in past}

getOwnedDomains(domains) == Seed \cup domains

\* What the properties ask of the world: mailboxes, owned domains, those with a
\* relay, with one that drops no mail that is merely tagged, with a catch-all.
facts(b, o, s) ==
  [boxes |-> b, owned |-> Seed \cup o,
   relays |-> {d \in Domains : s[d].enabled /\ s[d].host},
   spares |-> {d \in Domains : \A v \in DOMAIN s[d].actions \cap {"allow", "tag"} : s[d].actions[v] # "drop"},
   catchalls |-> {d \in Domains : s[d].catchall}]
World ==
  [boxes : SUBSET Addresses, owned : SUBSET Domains, relays : SUBSET Domains, spares : SUBSET Domains,
   catchalls : SUBSET Domains]
both(w, v) ==
  [boxes |-> w.boxes \cap v.boxes, owned |-> w.owned \cap v.owned, relays |-> w.relays \cap v.relays,
   spares |-> w.spares \cap v.spares, catchalls |-> w.catchalls \cap v.catchalls]
either(w, v) ==
  [boxes |-> w.boxes \cup v.boxes, owned |-> w.owned \cup v.owned, relays |-> w.relays \cup v.relays,
   spares |-> w.spares \cup v.spares, catchalls |-> w.catchalls \cup v.catchalls]

\* Users and administrators: POST and DELETE of mailboxes, domains, settings,
\* as long as the delivery is not over.
Ended == {"filed", "relayed", "dropped", "collected", "ignored"}
Change(b, o, s) ==
  /\ pc \notin Ended /\ changes < MaxChanges /\ changes' = changes + 1
  /\ boxes' = b /\ org' = o /\ settings' = s
  /\ past' = past \cup {[org |-> o, settings |-> s]}
  /\ since' = [since EXCEPT !.always = both(@, facts(b, o, s)), !.ever = either(@, facts(b, o, s))]
  /\ UNCHANGED <<delivery, allow>>

CreateMailbox(a) ==
  /\ a \notin boxes /\ (allow = {} \/ a \in allow)
  /\ Change(boxes \cup {a}, org, settings) /\ UNCHANGED faults
DeleteMailbox(a) == a \in boxes /\ Change(boxes \ {a}, org, settings) /\ UNCHANGED faults

\* The handlers of domains read the organisation's settings the same way: after
\* a read that fails they write back what the isolate had.
ReadBack(domains) ==
  \/ domains = org /\ UNCHANGED faults
  \/ fails /\ domains \in {{}} \cup {w.org : w \in past}
AddDomain(d, domains) ==
  d \notin domains /\ ReadBack(domains) /\ Change(boxes, domains \cup {d}, settings)
DropDomain(d, domains) ==
  d \in domains /\ ReadBack(domains) /\ Change(boxes, domains \ {d}, settings)
PutDomainSettings(d, s, domains) ==
  /\ d \in getOwnedDomains(domains) /\ ReadBack(domains)
  /\ Change(boxes, org, [settings EXCEPT ![d] = s])

(* -------------------------------------------------------------- normalizeInbound --- *)

Goto(stage, q) == pc' = stage /\ queue' = q

\* Cloudflare calls email(); the stream is read and parsed, the recipients are
\* found.  Whatever throws makes Cloudflare deliver again, or bounce.
Arrive ==
  /\ pc = "new"
  /\ since' = [always |-> facts(boxes, org, settings), ever |-> facts(boxes, org, settings), failed |-> FALSE]
  /\ CASE ~streamToArrayBuffer(event) \/ ~event.parses \/ recipients(event) = <<>> -> Goto("thrown", {})
       [] OTHER -> Goto(IF registered(event) = {} THEN "unregistered" ELSE "mailbox", registered(event))
  /\ UNCHANGED <<world, event, to, policy, tries, allow, faults>>

\* env.BUCKET.head of a mailbox, at first and again in receiveEmail.
HeadThrows ==
  /\ pc \in {"mailbox", "found"} /\ fails /\ Goto("thrown", {})
  /\ UNCHANGED <<world, event, to, policy, tries, allow, since>>

FindMailbox(i) ==
  /\ pc = "mailbox" /\ first(i) /\ address(i) \in boxes
  /\ Goto("found", {}) /\ to' = address(i)
  /\ UNCHANGED <<world, event, policy, tries, allow, since, faults>>

\* An address on the allow-list without a mailbox is dropped.
MissMailbox(i) ==
  /\ pc = "mailbox" /\ first(i) /\ address(i) \notin boxes
  /\ CASE queue # {i} -> Goto("mailbox", queue \ {i})
       [] queue = {i} /\ allow # {} -> Goto("ignored", {})
       [] OTHER -> Goto("unregistered", {})
  /\ UNCHANGED <<world, event, to, policy, tries, allow, since, faults>>

\* resolveUnregistered and then resolveCatchall begin with the domains the
\* operator owns; recipients elsewhere are passed over.
Among(stage, q) ==
  CASE q # {} -> Goto(stage, q)
    [] q = {} /\ stage = "gateway" -> Goto("catchall", {})
    [] OTHER -> Goto("ignored", {})
ReadOwned(domains) ==
  /\ pc \in {"unregistered", "catchall"} /\ ReadOrg(domains)
  /\ Among(IF pc = "unregistered" THEN "gateway" ELSE "observed",
           {i \in DOMAIN recipients(event) : DomainOf[address(i)] \in getOwnedDomains(domains)})
  /\ UNCHANGED <<world, event, to, policy, tries, allow>>

ResolveGateway(i, s) ==
  /\ pc = "gateway" /\ first(i) /\ ReadDomain(DomainOf[address(i)], s)
  /\ IF resolveRelayPolicy(s) # None
     THEN Goto("passthrough", {}) /\ to' = address(i)
     ELSE Among("gateway", queue \ {i}) /\ UNCHANGED to
  /\ UNCHANGED <<world, event, policy, tries, allow>>

ResolveCatchall(i, s) ==
  /\ pc = "observed" /\ first(i) /\ ReadDomain(DomainOf[address(i)], s)
  /\ IF s.catchall
     THEN Goto("collected", {}) /\ to' = address(i)
     ELSE Among("observed", queue \ {i}) /\ UNCHANGED to
  /\ UNCHANGED <<world, event, policy, tries, allow>>

(* ------------------------------------------------------------------ the dispatch --- *)

\* receiveEmail: the mailbox may have gone since; the rest is InboundMail.
ReceiveEmail ==
  /\ pc = "found" /\ Goto(IF to \in boxes THEN "filed" ELSE "ignored", {})
  /\ UNCHANGED <<world, event, to, policy, tries, allow, since, faults>>

\* receiveGatewayPassthrough: the policy may have gone since; then the scan,
\* which keeps nothing, and the relay.
ReceivePassthrough(s) ==
  /\ pc = "passthrough" /\ ReadDomain(DomainOf[to], s)
  /\ policy' = resolveRelayPolicy(s)
  /\ Goto(IF resolveRelayPolicy(s) = None THEN "ignored" ELSE "scan", {})
  /\ UNCHANGED <<world, event, to, tries, allow>>

ScanPassthrough(verdict) ==
  /\ pc = "scan"
  /\ Goto(IF behaviorFor(tagCap(verdict), policy) = "drop" THEN "dropped" ELSE "relay", {})
  /\ UNCHANGED <<world, event, to, policy, tries, allow, since, faults>>

\* A refusal and a deferral both throw: there is no local copy.
Relay ==
  /\ pc = "relay" /\ Goto("relayed", {})
  /\ UNCHANGED <<world, event, to, policy, tries, allow, since, faults>>
RelayThrows ==
  /\ pc = "relay" /\ fails /\ Goto("thrown", {})
  /\ UNCHANGED <<world, event, to, policy, tries, allow, since>>

Redeliver ==
  /\ pc = "thrown" /\ tries < MaxTries
  /\ Goto("new", {}) /\ tries' = tries + 1 /\ to' = None /\ policy' = None
  /\ UNCHANGED <<world, event, allow, since, faults>>

Init ==
  /\ allow \in AllowLists /\ boxes \in SUBSET Addresses /\ org \in SUBSET Domains
  /\ settings \in [Domains -> DomainSettings]
  /\ past = {[org |-> org, settings |-> settings]}
  /\ event \in Events /\ pc = "new" /\ queue = {} /\ to = None /\ policy = None
  /\ since = [always |-> facts(boxes, org, settings), ever |-> facts(boxes, org, settings), failed |-> FALSE]
  /\ tries = 0 /\ changes = 0 /\ faults = 0

Next ==
  \/ Arrive \/ HeadThrows \/ ReceiveEmail \/ Relay \/ RelayThrows \/ Redeliver
  \/ \E domains \in SUBSET Domains : ReadOwned(domains)
  \/ \E i \in queue : FindMailbox(i) \/ MissMailbox(i)
  \/ \E s \in DomainSettings \cup {empty} :
       ReceivePassthrough(s) \/ \E i \in queue : ResolveGateway(i, s) \/ ResolveCatchall(i, s)
  \/ \E v \in VerdictActions \cup {None} : ScanPassthrough(v)
  \/ \E a \in Addresses : CreateMailbox(a) \/ DeleteMailbox(a)
  \/ \E d \in Domains, domains \in SUBSET Domains :
       \/ AddDomain(d, domains) \/ DropDomain(d, domains)
       \/ \E s \in DomainSettings : PutDomainSettings(d, s, domains)

Spec == Init /\ [][Next]_vars

(* ------------------------------------------------------------- properties --- *)

Stages == {"new", "mailbox", "found", "filed", "unregistered", "gateway", "catchall", "observed",
           "passthrough", "scan", "relay", "relayed", "dropped", "collected", "ignored", "thrown"}
Passing == {"passthrough", "scan", "relay", "relayed", "dropped"}

TypeOK ==
  /\ allow \in AllowLists /\ boxes \subseteq Addresses /\ org \subseteq Domains
  /\ settings \in [Domains -> DomainSettings]
  /\ past \subseteq [org : SUBSET Domains, settings : [Domains -> DomainSettings]]
  /\ event \in Events /\ pc \in Stages /\ to \in Addresses \cup {None}
  /\ queue \subseteq DOMAIN recipients(event)
  /\ policy \in [VerdictActions -> Behaviors] \cup {None}
  /\ since \in [always : World, ever : World, failed : BOOLEAN]
  /\ tries \in 0 .. MaxTries /\ changes \in 0 .. MaxChanges /\ faults \in 0 .. MaxFaults

\* Whom the delivery is for, if anything the sender did not write says so.
namedByServer(e) == IF e.stamp = "for" THEN e.rcpt ELSE e.to

\* cf-routing.ts: the mailbox, the relay and the catch-all are chosen strictly
\* by the envelope recipient; the header's addresses and the sender's own
\* Received lines choose nothing as long as there is one.
EnvelopeDecides ==
  to # None =>
    IF namedByServer(event) # None THEN to = namedByServer(event)
    ELSE \E i \in DOMAIN event.header : to = event.header[i]

\* Mail for a recipient that has a mailbox all the while is never relayed,
\* collected or dropped, whatever fails; the one exception is mail found for
\* another recipient of the header, whose mailbox went before receiveEmail.
\* And an address on the allow-list is filed or dropped: it fails closed.
Resolving == {"unregistered", "gateway", "catchall", "observed", "collected"}
RegisteredIsFiled ==
  /\ pc \in Passing \cup Resolving \cup {"ignored"} =>
       \/ \A i \in registered(event) : address(i) \notin since.always.boxes
       \/ pc = "ignored" /\ to \in since.ever.boxes \ since.always.boxes
  /\ pc \in Passing \cup Resolving => allow = {} \/ registered(event) = {}

\* SMTP credentials are given to the relay of a domain, and mail to its
\* catch-all, only if the operator owned the domain and had asked for it while
\* the mail was on its way; after a failed read, if the domain was his once.
OwnedOnly ==
  pc \in Passing \cup {"collected"} =>
    /\ DomainOf[to] \in Seed \cup UNION {w.org : w \in past}
    /\ ~since.failed =>
         /\ DomainOf[to] \in since.ever.owned
         /\ DomainOf[to] \in IF pc = "collected" THEN since.ever.catchalls ELSE since.ever.relays

\* A relay policy goes before a catch-all, and what is passed on is not lost to
\* its verdict: the cap leaves only the rows for allow and tag.
PassedOn ==
  /\ pc = "collected" /\ ~since.failed =>
       \A i \in DOMAIN recipients(event) :
         DomainOf[address(i)] \notin since.always.owned \cap since.always.relays
  /\ pc = "dropped" /\ ~since.failed => DomainOf[to] \notin since.always.spares

\* Mail is acknowledged and kept nowhere only if it is for an address on the
\* allow-list without a mailbox, if its mailbox or policy was withdrawn on the
\* way, or if none of its domains was owned, and relayed or observed, throughout.
IgnoredForCause ==
  pc = "ignored" /\ ~since.failed =>
    \/ allow # {} /\ registered(event) # {}
    \/ to \in since.ever.boxes \ since.always.boxes
    \/ to # None /\ DomainOf[to] \in since.ever.relays \ since.always.relays
    \/ \A i \in DOMAIN recipients(event) :
         DomainOf[address(i)] \notin since.always.owned \cap (since.always.relays \cup since.always.catchalls)

RoutingSound == EnvelopeDecides /\ RegisteredIsFiled /\ OwnedOnly /\ PassedOn /\ IgnoredForCause
=============================================================================
