----------------------------- MODULE TierRules -----------------------------
(***************************************************************************)
(* Settings live in three tiers: a mailbox, its domain, the organisation.  *)
(* How a stored tier is read, how the tiers resolve, and whom the block    *)
(* rules stop.  A tier is a record; None is an absent field and "bad" one  *)
(* its schema refuses.                                                     *)
(***************************************************************************)
EXTENDS Naturals, FiniteSets

CONSTANTS
  Matches,    \* addresses and domains that rules and allowlists name
  Addresses,  \* those of them that are addresses
  Senders,
  Covers,     \* [Matches -> SUBSET Senders]
  None

Kinds == {"mailbox", "domain", "org"}
Rank == [k \in Kinds |-> CASE k = "mailbox" -> 3 [] k = "domain" -> 2 [] k = "org" -> 1]
narrowest(ks) == CHOOSE k \in ks : \A o \in ks : Rank[o] <= Rank[k]

(* ------------------------------------------------------------- the schemas --- *)

Actions == {"reject", "drop", "spam"}
Rule == [match : Matches, action : Actions]

HourFields == {"timezone", "start_hour"}
\* A security block: the fields that differ from the default, the allowlists,
\* business hours by field, and whether the block spells every field out.
SecuritySettings ==
  [set : SUBSET {"enabled", "thresholds"}, allow : SUBSET Matches,
   hours : SUBSET HourFields, full : BOOLEAN]

IntelSettings == [hub : {None, "ok", "bad"}, feeds : SUBSET {"good", "bad"}]

NewEmailWebhookSettings == {"on", "off", "empty", "bad"}

absent ==
  [security |-> None, intel |-> None, webhook |-> None, sidecar |-> None, relay |-> None,
   model |-> None, rest |-> None, rules |-> {}, domains |-> {}, honeypot |-> None]

isTier(b) ==
  /\ DOMAIN b = DOMAIN absent
  /\ b.security # None => b.security \in SecuritySettings
  /\ b.intel # None => b.intel \in IntelSettings
  /\ b.webhook # None => b.webhook \in NewEmailWebhookSettings
  /\ b.rules \subseteq Rule

\* What the schema of a tier names and would refuse.  A mailbox has no relay
\* and the wider tiers no sidecar: there such a block passes through.
malformed(k, b) ==
  {f \in {"webhook", "rest"} : b[f] = "bad"}
    \cup {f \in {"sidecar"} : k = "mailbox" /\ b.sidecar = "bad"}
    \cup {f \in {"relay"} : k = "domain" /\ b.relay = "bad"}
    \cup {f \in {"hub"} : b.intel # None /\ b.intel.hub = "bad"}
    \cup {f \in {"feeds"} : b.intel # None /\ "bad" \in b.intel.feeds}

\* What OrgSettingsWrite adds on the way in.
refused(k, b) == malformed(k, b) # {} \/ (k = "org" /\ b.model = "unlisted")

(* --------------------------------------------------------------- reading --- *)

\* Drop the broken block and keep the tier; a broken webhook is muted, because
\* an absent one would fall through to a wider tier.
salvage(b, broken) ==
  [b EXCEPT
    !.intel = IF broken \cap {"hub", "feeds"} = {} THEN @
              ELSE [hub |-> IF "hub" \in broken THEN None ELSE @.hub, feeds |-> @.feeds \ {"bad"}],
    !.sidecar = IF "sidecar" \in broken THEN None ELSE @,
    !.relay = IF "relay" \in broken THEN None ELSE @,
    !.webhook = IF "webhook" \in broken THEN "off" ELSE @]

parseSettingsLenient(k, b) ==
  IF "rest" \in malformed(k, b) THEN absent ELSE salvage(b, malformed(k, b))

(* --------------------------------------------------------------- writing --- *)

\* A block that spells out the defaults is dropped, or a form that shows them
\* would shadow the wider tiers.  A muted webhook is kept.
isDefaultEqual(field, v) ==
  CASE field = "security" -> v # None /\ v = [set |-> {}, allow |-> {}, hours |-> {}, full |-> TRUE]
    [] field = "intel" -> v # None /\ v = [hub |-> None, feeds |-> {}]
    [] field = "webhook" -> v = "empty"
    [] field \in {"model", "rest"} -> v = "default"
    [] OTHER -> FALSE

stripDefaultEqual(b) ==
  [f \in DOMAIN b |-> IF isDefaultEqual(f, b[f]) THEN None ELSE b[f]]

preserveOwnedMailboxFields(existing, incoming) ==
  [incoming EXCEPT !.rules = existing.rules,
                   !.honeypot = IF existing.honeypot # None THEN existing.honeypot ELSE @]

hasFeeds(b) == b.intel # None /\ b.intel.feeds # {}

mergeOrgSettingsPut(current, incoming) ==
  [incoming EXCEPT
    !.domains = current.domains, !.rules = current.rules,
    !.intel = IF hasFeeds(current) /\ ~hasFeeds(incoming)
              THEN [hub |-> IF @ = None THEN None ELSE @.hub, feeds |-> current.intel.feeds]
              ELSE @]

mergeDomainSettingsPut(current, incoming) == [incoming EXCEPT !.rules = current.rules]

merged(k, current, incoming) ==
  CASE k = "mailbox" -> preserveOwnedMailboxFields(current, incoming)
    [] k = "domain" -> mergeDomainSettingsPut(current, incoming)
    [] k = "org" -> mergeOrgSettingsPut(current, incoming)

\* A new rule replaces the one with the same match.
appendRule(rules, r) == {o \in rules : o.match # r.match} \cup {r}

(* ------------------------------------------------------------- resolution --- *)
\* t is the parsed tiers, by kind.

having(t, field) == {k \in Kinds : t[k][field] # None}

unionLowerStable(a, b) == a \cup b

extendAllowlistsWithOrg(t, allow) ==
  unionLowerStable(IF t["org"].security = None THEN {} ELSE t["org"].security.allow, allow)

\* The tier a business-hours field comes from; without a timezone there are none.
hourTiers(t, f) == {k \in having(t, "security") : f \in t[k].security.hours}
mergeBusinessHoursAcrossTiers(t) ==
  [f \in HourFields |-> IF hourTiers(t, f) = {} THEN "default" ELSE narrowest(hourTiers(t, f))]
normalizeSecurity(hours) == IF hours["timezone"] = "default" THEN None ELSE hours

mergeSecurityWithDefault(t, k) ==
  [f \in {"enabled", "thresholds"} |-> IF f \in t[k].security.set THEN k ELSE "default"]

security(t) ==
  LET ks == having(t, "security") IN
  IF ks = {} THEN [fields |-> [f \in {"enabled", "thresholds"} |-> "default"], allow |-> {}, hours |-> None]
  ELSE LET k == narrowest(ks) IN
       [fields |-> mergeSecurityWithDefault(t, k),
        allow |-> IF k = "mailbox" THEN extendAllowlistsWithOrg(t, t[k].security.allow)
                                   ELSE t[k].security.allow,
        hours |-> normalizeSecurity(mergeBusinessHoursAcrossTiers(t))]

\* The classifier has no domain tier, and an unlisted model of the org is not used.
classifierModel(t) ==
  CASE t["mailbox"].model # None -> t["mailbox"].model
    [] t["mailbox"].model = None /\ t["org"].model = "listed" -> "listed"
    [] OTHER -> "default"

intel(t) == IF having(t, "intel") = {} THEN [hub |-> None, feeds |-> {}]
            ELSE t[narrowest(having(t, "intel"))].intel

\* Where the new-mail notice goes: a tier's own channel, nowhere, or, when no
\* tier says anything, the deployment's one.
resolveNewEmailWebhook(t) ==
  IF having(t, "webhook") = {} THEN "global"
  ELSE LET k == narrowest(having(t, "webhook")) IN
       IF t[k].webhook = "on" THEN k ELSE "silent"

resolveMailboxSettings(t) ==
  [security |-> security(t), intel |-> intel(t), model |-> classifierModel(t),
   webhook |-> resolveNewEmailWebhook(t)]

(* ------------------------------------------------------------- block rules --- *)

ActionRank == [a \in Actions |-> CASE a = "reject" -> 3 [] a = "drop" -> 2 [] a = "spam" -> 1]

hits(t, s) ==
  {h \in [tier : Kinds, rule : Rule] : h.rule \in t[h.tier].rules /\ s \in Covers[h.rule.match]}

\* The narrower tier first, then the address, then the harsher action.
better(a, b) ==
  IF a.tier # b.tier THEN Rank[a.tier] > Rank[b.tier]
  ELSE IF (a.rule.match \in Addresses) # (b.rule.match \in Addresses) THEN a.rule.match \in Addresses
  ELSE ActionRank[a.rule.action] > ActionRank[b.rule.action]

allowedAt(b, s) == b.security # None /\ \E m \in b.security.allow : s \in Covers[m]

\* The best rule, unless a tier narrower than its own allows the sender.
matchBlocklist(t, s) ==
  LET found == hits(t, s)
      best == CHOOSE h \in found : \A o \in found : ~better(o, h)
  IN IF found = {} THEN None
     ELSE IF \E k \in Kinds : Rank[k] > Rank[best.tier] /\ allowedAt(t[k], s) THEN None
     ELSE best

(* -------------------------------------------------------------- properties --- *)

\* Reading upwards from the mailbox, the first tier with an opinion of the
\* sender decides: its rule for the address, else for the domain, else its
\* allowlist (workers/security/blocklist.ts:58-84).
RulesByPrecedence(t) == \A s \in Senders :
  LET opines == {k \in Kinds : (\E h \in hits(t, s) : h.tier = k) \/ allowedAt(t[k], s)}
      verdict == matchBlocklist(t, s)
  IN IF opines = {} THEN verdict = None
     ELSE LET k == narrowest(opines)
              own == {h \in hits(t, s) : h.tier = k}
              byAddress == {h \in own : h.rule.match \in Addresses}
          IN IF own = {} THEN verdict = None
             ELSE verdict \in (IF byAddress # {} THEN byAddress ELSE own)

\* The organisation's allowlist holds in a mailbox with settings of its own.
OrgAllowsStay(t) ==
  (t["mailbox"].security # None /\ t["org"].security # None)
    => t["org"].security.allow \subseteq security(t).allow

\* A tier that says something about the notice, even something unreadable,
\* is never passed over for a wider channel, as long as the rest of the tier
\* can be read (shared/mailbox-settings.ts:246-256).
NoticeStaysInside(raw) ==
  LET t == [k \in Kinds |-> parseSettingsLenient(k, raw[k])]
      said == {k \in Kinds : raw[k].webhook # None /\ raw[k].rest # "bad"}
  IN said # {} => resolveNewEmailWebhook(t) \in {narrowest(said), "silent"}
                  /\ (resolveNewEmailWebhook(t) = "silent" <=> raw[narrowest(said)].webhook # "on")
=============================================================================
