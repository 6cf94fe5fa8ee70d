---------------------------- MODULE FeedRefresh ----------------------------
(***************************************************************************)
(* One threat feed: the hourly refresh that fetches it and publishes it in *)
(* KV under several keys that expire by themselves, the state a mailbox's  *)
(* Durable Object keeps of the last fetch, and the lookups of links and    *)
(* addresses that read the keys at any moment.                             *)
(* The server's contents are versions; its ETag names one, and no earlier  *)
(* content comes back.                                                     *)
(***************************************************************************)
EXTENDS Naturals, Sequences, FiniteSets, SequencesExt

CONSTANTS
  Mailboxes,
  Contents,     \* the feed's successive contents: sequences of links or ranges
  Links,        \* links mail may hold: [base, tokens, hash, path]
  NoHash,       \* the hash of a link without one
  Cap,          \* EXACT_KEY_CAP
  FalseHits,    \* keys every filter holds by collision
  Width,        \* bits of an address (32)
  None,
  MaxExpired, MaxDeaths, MaxMoves   \* bounds

VARIABLES
  kind,     \* the feed's kind: "url" or "ip-cidr"
  server,   \* the version the feed's server holds
  kv,       \* [key -> None or [version, format]]
  state,    \* [mailbox -> None or [etag]]: intel_feed_state
  recent,   \* mailboxes that fetched within refreshHours
  owner,    \* the first mailbox the cron meets with this feed
  run,      \* the refresh under way, or None
  expired, deaths, moves

vars == <<kind, server, kv, state, recent, owner, run, expired, deaths, moves>>

FEED_BLOB_FORMAT == 2
Keys == {"bloom", "exact", "cidrs"}
requiredBlobs == IF kind = "ip-cidr" THEN {"cidrs"} ELSE {"bloom", "exact"}
Versions == DOMAIN Contents
Blob == [version : Versions, format : 1 .. FEED_BLOB_FORMAT]

TypeOK ==
  /\ kind \in {"url", "ip-cidr"} /\ server \in Versions
  /\ kv \in [Keys -> Blob \cup {None}]
  /\ state \in [Mailboxes -> [etag : Versions \cup {None}] \cup {None}]
  /\ recent \subseteq Mailboxes /\ owner \in Mailboxes
  /\ run # None => /\ run.pc \in {"fetch", "bloom", "exact", "cidrs", "record"}
                   /\ run.fresh \subseteq requiredBlobs

\* An older build may have published the first version.
Init ==
  /\ kind \in {"url", "ip-cidr"} /\ server = 1
  /\ kv \in {[k \in Keys |-> IF k \in requiredBlobs THEN b ELSE None] :
               b \in {None, [version |-> 1, format |-> 1]}}
  /\ state = [m \in Mailboxes |-> IF kv["exact"] # None THEN [etag |-> 1] ELSE None]
  /\ recent = {} /\ owner \in Mailboxes /\ run = None
  /\ expired = 0 /\ deaths = 0 /\ moves = 0

(* ----------------------------------------------------------- environment --- *)

\* The feed changes; the mailbox whose settings name it first changes; hours
\* pass; a key reaches its TTL, which no key written by this run can.
change ==
  /\ server < Len(Contents) /\ server' = server + 1
  /\ UNCHANGED <<kind, kv, state, recent, owner, run, expired, deaths, moves>>

moveOwner(m) ==
  /\ run = None /\ m # owner /\ moves < MaxMoves
  /\ owner' = m /\ moves' = moves + 1
  /\ UNCHANGED <<kind, server, kv, state, recent, run, expired, deaths>>

elapse ==
  /\ run = None /\ recent # {} /\ recent' = {}
  /\ UNCHANGED <<kind, server, kv, state, owner, run, expired, deaths, moves>>

expire(k) ==
  /\ kv[k] # None /\ expired < MaxExpired /\ (run # None => k \notin run.fresh)
  /\ kv' = [kv EXCEPT ![k] = None] /\ expired' = expired + 1
  /\ UNCHANGED <<kind, server, state, recent, owner, run, deaths, moves>>

\* The isolate ends, or a KV call fails: the next tick starts over.
die ==
  /\ run # None /\ deaths < MaxDeaths
  /\ run' = None /\ deaths' = deaths + 1
  /\ UNCHANGED <<kind, server, kv, state, recent, owner, expired, moves>>

(* --------------------------------------------------------------- refresh --- *)

\* Mutation of intact: any key that is still there vouches for the rest.
anyLeft(blobs) == \E k \in requiredBlobs : blobs[k] # None

\* What a 304 could vouch for: every key alive, in this build's format.
intact(blobs) ==
  /\ \A k \in requiredBlobs : blobs[k] # None
  /\ kind = "ip-cidr" \/ blobs["exact"].format = FEED_BLOB_FORMAT

\* The keys are read before the fetch; only intact ones make it conditional.
start ==
  /\ run = None /\ owner \notin recent
  /\ run' = [pc |-> "fetch", seen |-> kv, fresh |-> {}, version |-> server,
             etag |-> IF intact(kv) /\ state[owner] # None THEN state[owner].etag ELSE None,
             publish |-> FALSE, answerTag |-> None]
  /\ UNCHANGED <<kind, server, kv, state, recent, owner, expired, deaths, moves>>

firstKey == IF kind = "ip-cidr" THEN "cidrs" ELSE "bloom"

\* Not modified: the values just read are written again, to renew their TTL.
answer304 ==
  /\ run # None /\ run.pc = "fetch" /\ run.etag = server
  /\ run' = [run EXCEPT !.pc = firstKey, !.version = server, !.answerTag = run.etag]
  /\ UNCHANGED <<kind, server, kv, state, recent, owner, expired, deaths, moves>>

\* The content, with or without an ETag; an empty one is not published.
answer200(tag) ==
  /\ run # None /\ run.pc = "fetch" /\ tag \in {server, None}
  /\ IF Contents[server] = <<>> THEN run' = None
     ELSE run' = [run EXCEPT !.pc = firstKey, !.version = server, !.publish = TRUE, !.answerTag = tag]
  /\ UNCHANGED <<kind, server, kv, state, recent, owner, expired, deaths, moves>>

\* An error, a timeout, or a 304 nobody asked for.
answerError ==
  /\ run # None /\ run.pc = "fetch" /\ run' = None
  /\ UNCHANGED <<kind, server, kv, state, recent, owner, expired, deaths, moves>>

put(k) ==
  /\ run # None /\ run.pc = k
  /\ kv' = [kv EXCEPT ![k] = IF run.publish THEN [version |-> run.version, format |-> FEED_BLOB_FORMAT]
                                            ELSE run.seen[k]]
  /\ run' = [run EXCEPT !.pc = IF k = "bloom" THEN "exact" ELSE "record", !.fresh = @ \cup {k}]
  /\ UNCHANGED <<kind, server, state, recent, owner, expired, deaths, moves>>

upsertIntelFeedState ==
  /\ run # None /\ run.pc = "record"
  /\ state' = [state EXCEPT ![owner] = [etag |-> run.answerTag]]
  /\ recent' = recent \cup {owner} /\ run' = None
  /\ UNCHANGED <<kind, server, kv, owner, expired, deaths, moves>>

Next ==
  \/ change \/ (\E m \in Mailboxes : moveOwner(m)) \/ elapse \/ (\E k \in Keys : expire(k)) \/ die
  \/ start \/ answer304 \/ (\E tag \in Versions \cup {None} : answer200(tag)) \/ answerError
  \/ (\E k \in Keys : put(k)) \/ upsertIntelFeedState

Spec == Init /\ [][Next]_vars

(* --------------------------------------------------------- what is stored --- *)

values(v) == ToSet(Contents[v])
exactSet(v) == {Contents[v][i] : i \in {j \in DOMAIN Contents[v] : j <= Cap}}
pathKey(base) == [base |-> base, tokens |-> <<>>, hash |-> NoHash, path |-> TRUE]

\* Since format 2 the filter also holds one key per path.
feedBloomKeys(b) ==
  values(b.version) \cup (IF b.format = 1 THEN {} ELSE {pathKey(l.base) : l \in values(b.version)})

checkBloom(b, key) == key \in feedBloomKeys(b) \cup FalseHits

(* ---------------------------------------------------------- looking links up --- *)

\* The keys that decide whether the exact list is worth loading for a link.
derivedProbes(p) ==
  IF p.tokens = <<>> /\ p.hash = NoHash THEN {}
  ELSE {pathKey(p.base)}
       \cup (IF p.hash # NoHash THEN {[p EXCEPT !.hash = NoHash]} ELSE {})
       \cup {[p EXCEPT !.tokens = q[1], !.hash = q[2]] :
               q \in (IF p.tokens = <<>> THEN {} ELSE {<<>>} \cup {<<t>> : t \in ToSet(p.tokens)})
                     \X {p.hash, NoHash}}

times(t, s) == Cardinality({i \in DOMAIN s : s[i] = t})

\* A listed link with the same path whose query the link extends, or the same
\* link but for its fragment.
derives(entry, p) ==
  /\ entry.base = p.base /\ entry.hash \in {NoHash, p.hash}
  /\ IF entry.tokens = p.tokens THEN entry.hash # p.hash
     ELSE \A t \in ToSet(entry.tokens) : times(t, entry.tokens) <= times(t, p.tokens)

findDerived(exact, p) == {e \in exact : derives(e, p)}

\* Confirmed, derived, or in the filter only.
matchUrlAgainstFeeds(p) ==
  IF kv["bloom"] = None THEN "none"
  ELSE LET bloom == kv["bloom"]
           exact == IF kv["exact"] = None THEN {} ELSE exactSet(kv["exact"].version)
           hit == checkBloom(bloom, p)
       IN CASE hit /\ p \in exact -> "confirmed"
            [] ~(hit /\ p \in exact)
               /\ (hit \/ \E k \in derivedProbes(p) : checkBloom(bloom, k))
               /\ findDerived(exact, p) # {} -> "derived"
            [] OTHER -> IF hit THEN "bloom" ELSE "none"

(* -------------------------------------------------------- looking addresses up --- *)

\* A range: an address with its low bits cut off, and how many bits count.
block(prefix) == 2 ^ (Width - prefix)
parseCidr(ip, prefix) == [network |-> ip - (ip % block(prefix)), prefix |-> prefix]
ipInCidr(ip, c) == ip - (ip % block(c.prefix)) = c.network
findCidrMatch(ip, cidrs) == \E i \in DOMAIN cidrs : ipInCidr(ip, cidrs[i])
ranges(v) == [i \in DOMAIN Contents[v] |-> parseCidr(Contents[v][i].ip, Contents[v][i].prefix)]
checkIpAgainstFeeds(ip) == kv["cidrs"] # None /\ findCidrMatch(ip, ranges(kv["cidrs"].version))

(* -------------------------------------------------------------- properties --- *)

\* When a refresh is about to be recorded, every key the lookups need is there
\* and holds what the server held when it was asked, also when the server said
\* "not modified" (feeds.ts:370-457).
RecordedIsServed ==
  run # None /\ run.pc = "record" =>
    \A k \in requiredBlobs : kv[k] # None /\ kv[k].version = run.version
                             /\ kv[k].format = FEED_BLOB_FORMAT

\* A link every version lists within the cap is confirmed at every moment the
\* keys live, also between the two puts of a new version.
ListedStaysFound ==
  kind = "url" /\ kv["bloom"] # None /\ kv["exact"] # None =>
    \A p \in Links : (\A v \in Versions : p \in exactSet(v)) => matchUrlAgainstFeeds(p) = "confirmed"

\* The probes never hide a derived match: with both keys of one version, a link
\* is derived whenever the exact list has an entry for it (feeds.ts:648-699).
ProbesComplete ==
  (/\ kind = "url" /\ kv["bloom"] # None /\ kv["exact"] # None
   /\ kv["bloom"] = kv["exact"] /\ kv["bloom"].format = FEED_BLOB_FORMAT) =>
    \A p \in Links : findDerived(exactSet(kv["exact"].version), p) # {}
                       => matchUrlAgainstFeeds(p) \in {"derived", "confirmed"}

\* An address is found exactly when a listed range holds it.
RangesExact ==
  kind = "ip-cidr" /\ kv["cidrs"] # None =>
    \A ip \in 0 .. 2 ^ Width - 1 :
      checkIpAgainstFeeds(ip) <=>
        \E i \in DOMAIN Contents[kv["cidrs"].version] :
          LET r == Contents[kv["cidrs"].version][i]
              first == (r.ip \div block(r.prefix)) * block(r.prefix)
          IN ip \in first .. first + block(r.prefix) - 1

FeedsSound == RecordedIsServed /\ ListedStaysFound /\ ProbesComplete /\ RangesExact
=============================================================================
