------------------------------ MODULE HubPosts ------------------------------
(***************************************************************************)
(* A deployment as a client of the hub: whose key goes to which host, what *)
(* is reported with whose consent, what a report holds, and what the pages *)
(* about the hub show.  A tier's intel block is None, or its hub part,     *)
(* which may be None (a block that only has feeds).                        *)
(***************************************************************************)
EXTENDS Naturals, FiniteSets, SequencesExt, TLC

CONSTANTS
  Hosts,       \* [scheme, host] of the URLs settings may name
  Allowed,     \* the hosts in HUB_ALLOWED_HOSTS, in lower case
  Lower,       \* [hosts -> the host in lower case]
  Prefixed,    \* names that begin with HUB_SECRET_
  Keys,        \* [names of secrets -> the key, or None]
  Legacy,      \* [Kinds -> the blocks a tier may hold at first]
  Bodies,      \* the blocks the operator may save
  Mails,       \* [mail |-> [sender, subject, to, body, urls, files, owned]]
  Box,         \* the mailbox, which a honeypot's title names
  MaxRequests, MaxFaults, MaxEdits, None

VARIABLES
  tiers,       \* [Kinds -> an intel block or None]
  req,         \* the request on its way to the hub, or None
  hub,         \* events the hub stored
  invites,     \* invite tokens the hub issued
  sent,        \* every request that reached the wire
  shown,       \* the last answer to the browser, or None
  requests, faults, edits

vars == <<tiers, req, hub, invites, sent, shown, requests, faults, edits>>

Kinds == {"mailbox", "domain", "org"}
Rank == [k \in Kinds |-> CASE k = "mailbox" -> 3 [] k = "domain" -> 2 [] k = "org" -> 1]
Reports == {"case", "honeypot", "probes"}
Pages == {"contributions", "destroylist", "sharing-groups"}

(* ----------------------------------------------------------- configuration --- *)

hostAllowed(url) == url.scheme = "https" /\ Lower[url.host] \in Allowed

\* Complete, a secret meant for hubs, a host the operator pinned; or nothing.
validateHubConfig(b) ==
  IF /\ b # None /\ None \notin {b.url, b.org, b.secret}
     /\ b.secret \in Prefixed /\ hostAllowed(b.url)
  THEN b ELSE None

narrowest(ks) == CHOOSE k \in ks : \A o \in ks : Rank[o] <= Rank[k]

\* The whole intel block is replaced: one without a hub hides the wider ones.
loadHubConfig(t) ==
  LET said == {k \in Kinds : t[k] # None} IN
  IF said = {} THEN None ELSE validateHubConfig(t[narrowest(said)].hub)

\* Mail without a mailbox: here a domain's unusable hub gives way to the org's.
loadHubConfigForDomain(t) ==
  LET of(k) == IF t[k] = None THEN None ELSE validateHubConfig(t[k].hub) IN
  IF of("domain") # None THEN of("domain") ELSE of("org")

credentials(cfg) ==
  IF cfg = None \/ Keys[cfg.secret] = None THEN None ELSE [cfg |-> cfg, key |-> Keys[cfg.secret]]
loadHubCredentials(t) == credentials(loadHubConfig(t))
loadHubCredentialsForDomain(t) == credentials(loadHubConfigForDomain(t))

(* -------------------------------------------------------------- the reports --- *)

attribute(type, value, ids) == [type |-> type, value |-> value, ids |-> ids]
hash(text) == <<"sha256", text>>

\* The sender is split at "@"; its second part counts as the domain.
buildMispEvent(cfg, m, title) ==
  [title |-> title, level |-> "2", org |-> cfg.org, group |-> cfg.group,
   distribution |-> IF cfg.group = None THEN "1" ELSE "4", tags |-> {"tlp:amber", "phishing"},
   attributes |->
     {attribute("email-src", m.sender, TRUE), attribute("email-subject", <<m.subject>>, FALSE),
      attribute("sha256", hash(m.body), FALSE)}
     \cup (IF Len(m.sender) < 2 THEN {} ELSE {attribute("email-src-display-name", <<m.sender[2]>>, FALSE)})
     \cup {attribute("url", <<u.url>>, TRUE) : u \in m.urls}
     \cup {attribute("domain", <<u.host>>, TRUE) : u \in m.urls}
     \cup {attribute("sha256", hash(f), TRUE) : f \in m.files}]

buildHoneypotMispEvent(cfg, m) ==
  [buildMispEvent(cfg, m, <<Box>> \o m.sender) EXCEPT !.level = "1", !.tags = @ \cup {"honeypot"}]

\* No caller passes the hashes of the attachments.
eventOf(what, cfg, m) ==
  CASE what = "case" -> buildMispEvent(cfg, [m EXCEPT !.files = {}], <<m.subject>>)
    [] what = "honeypot" -> buildHoneypotMispEvent(cfg, [m EXCEPT !.files = {}])
    [] what = "probes" -> [title |-> <<"probes">>, level |-> "2", org |-> cfg.org, group |-> cfg.group,
         distribution |-> IF cfg.group = None THEN "1" ELSE "4", tags |-> {"tlp:white", "catchall-probe"},
         attributes |-> {attribute("domain", <<m.sender[2]>>, TRUE)}]

(* -------------------------------------------------------------- the actions --- *)

Init ==
  /\ tiers \in {t \in [Kinds -> UNION {Legacy[k] : k \in Kinds}] : \A k \in Kinds : t[k] \in Legacy[k]}
  /\ req = None /\ hub = {} /\ invites = 0 /\ sent = {} /\ shown = None
  /\ requests = 0 /\ faults = 0 /\ edits = 0

\* A tier whose read fails is as good as absent.
reading(failed) == [k \in Kinds |-> IF k \in failed THEN None ELSE tiers[k]]

begin(what, failed) ==
  /\ req = None /\ requests < MaxRequests /\ requests' = requests + 1
  /\ faults + Cardinality(failed) <= MaxFaults /\ faults' = faults + Cardinality(failed)
  /\ UNCHANGED <<tiers, hub, invites, edits>>

outgoing(what, creds, event, failed) ==
  [what |-> what, url |-> creds.cfg.url, key |-> creds.key, event |-> event,
   saw |-> [tiers |-> tiers, failed |-> failed]]

silent(what, creds, mail) ==
  \/ creds = None \/ ~creds.cfg.auto
  \/ what = "honeypot" /\ (mail.owned \/ mail.sender = <<>>)

\* A confirmed case, a honeypot's mail or a high catch-all probe.
report(what, m) ==
  \E failed \in SUBSET Kinds :
    LET creds == IF what = "probes" THEN loadHubCredentialsForDomain(reading(failed))
                                    ELSE loadHubCredentials(reading(failed))
        mail == Mails[m]
    IN
    /\ what = "probes" => Len(mail.sender) > 1
    /\ begin(what, failed) /\ shown' = shown
    /\ req' = IF silent(what, creds, mail) THEN None ELSE outgoing(what, creds, eventOf(what, creds.cfg, mail), failed)
    /\ sent' = IF silent(what, creds, mail) THEN sent ELSE sent \cup {req'}

\* The pages answer 200 and "not configured"; an invite answers 412.
withHubClient(what) ==
  \E failed \in SUBSET Kinds :
    LET creds == loadHubCredentials(reading(failed)) IN
    /\ begin(what, failed)
    /\ \/ /\ creds = None /\ UNCHANGED <<req, sent>>
          /\ shown' = [what |-> what, data |-> {}, status |-> IF what = "invites" THEN 412 ELSE 200]
       \/ /\ creds # None /\ shown' = None
          /\ req' = outgoing(what, creds, None, failed) /\ sent' = sent \cup {req'}

answering(status, data) ==
  shown' = [what |-> req.what, data |-> data, status |-> status]

holds(what) ==
  CASE what = "contributions" -> {[org |-> e.org, n |-> Cardinality(e.attributes)] : e \in hub}
    [] what = "destroylist" -> {a.value : a \in UNION {{a \in e.attributes : a.ids} : e \in hub}}
    [] what = "sharing-groups" -> {"group"} [] OTHER -> {}

\* What happens at the hub when the request reaches it.
takes(ok) ==
  /\ hub' = IF ok /\ req.what \in Reports THEN hub \cup {req.event} ELSE hub
  /\ invites' = IF ok /\ req.what = "invites" THEN invites + 1 ELSE invites

\* The hub answers: data, a refusal (which a page shows as an empty list and an
\* invite passes on).
answered(ok) ==
  /\ req # None /\ req' = None /\ takes(ok)
  /\ CASE req.what \in Reports -> shown' = shown
       [] req.what \in Pages -> answering(200, IF ok THEN holds(req.what) ELSE {})
       [] req.what = "invites" -> answering(IF ok THEN 201 ELSE 403, IF ok THEN {invites'} ELSE {})
  /\ UNCHANGED <<tiers, sent, requests, faults, edits>>

\* The request or its answer is lost: a page fails, an invite says so, and a
\* report is forgotten.
unanswered ==
  /\ req # None /\ req' = None /\ faults < MaxFaults /\ faults' = faults + 1
  /\ \E ok \in BOOLEAN : takes(ok)
  /\ CASE req.what \in Reports -> shown' = shown
       [] req.what \in Pages -> answering(500, {})
       [] req.what = "invites" -> answering(502, {})
  /\ UNCHANGED <<tiers, sent, requests, edits>>

saveTier(k, b) ==
  /\ edits < MaxEdits /\ edits' = edits + 1 /\ tiers' = [tiers EXCEPT ![k] = b]
  /\ UNCHANGED <<req, hub, invites, sent, shown, requests, faults>>

Next ==
  \/ \E what \in Reports, m \in DOMAIN Mails : report(what, m)
  \/ \E what \in Pages \cup {"invites"} : withHubClient(what)
  \/ \E ok \in BOOLEAN : answered(ok)
  \/ unanswered
  \/ \E k \in Kinds, b \in Bodies : saveTier(k, b)

Spec == Init /\ [][Next]_vars

(* ----------------------------------------------------------- the properties --- *)

TypeOK ==
  /\ DOMAIN tiers = Kinds /\ invites \in 0..MaxRequests /\ requests <= MaxRequests
  /\ req # None => req.what \in Reports \cup Pages \cup {"invites"}
  /\ shown # None => shown.status \in {200, 201, 403, 412, 500, 502}
  /\ faults <= MaxFaults /\ edits <= MaxEdits

\* The blocks a request could rest on, as they were when it was begun.
blocksOf(s) == {s.saw.tiers[k].hub : k \in {k \in Kinds \ s.saw.failed : s.saw.tiers[k] # None}} \ {None}

\* A key is one meant for hubs, and goes only to a pinned host that the very
\* block names which names the key (hub-config.ts:46-53): two tiers never mix.
KeyStaysPaired ==
  \A s \in sent :
    /\ s.url.scheme = "https" /\ Lower[s.url.host] \in Allowed
    /\ \E b \in blocksOf(s) : b.url = s.url /\ b.secret \in Prefixed /\ Keys[b.secret] = s.key

\* An event leaves only if the block that names its hub opts in, and that
\* block is the narrowest one that could be read; only probes, which have no
\* mailbox, may pass over a domain's block, and then it is an unusable one.
ConsentGiven ==
  \A s \in sent : s.what \in Reports =>
    LET said == {k \in Kinds \ s.saw.failed : s.saw.tiers[k] # None}
        b(k) == s.saw.tiers[k].hub
        rests(k) == /\ k \in said /\ b(k) # None /\ b(k).auto /\ b(k).url = s.url
                    /\ b(k).org = s.event.org /\ b(k).group = s.event.group
    IN
    IF s.what # "probes" THEN rests(narrowest(said))
    ELSE \/ rests("domain")
         \/ rests("org") /\ ("domain" \notin said \/ validateHubConfig(b("domain")) = None)

\* No attribute holds a recipient or the text of the mail, whoever reports
\* (report.ts:8-11); a honeypot's events, and only they, carry raised trust.
\* (A honeypot's title does name its mailbox.)
ReportsAnonymous ==
  \A s \in sent : s.what \in Reports =>
    /\ \A a \in s.event.attributes, m \in DOMAIN Mails :
         ToSet(a.value) \cap (Mails[m].to \cup {Mails[m].body} \cup Mails[m].files) # {} => a.value[1] = "sha256"
    /\ (s.what = "honeypot") <=> (s.event.level = "1" /\ "honeypot" \in s.event.tags)
    /\ s.event.distribution = "4" <=> s.event.group # None

\* A page shows what the hub holds, or less; an invite's token is shown only
\* if the hub issued it for this very request, and a token the browser never
\* saw is one whose answer was lost.
PagesHonest ==
  /\ shown # None => /\ shown.what \in Pages => shown.data \subseteq holds(shown.what)
                     /\ (shown.what = "invites" /\ shown.data # {}) => shown.data = {invites}
  /\ (invites = requests /\ faults = 0 /\ edits = 0) => shown = None \/ shown.data = {invites}
=============================================================================
