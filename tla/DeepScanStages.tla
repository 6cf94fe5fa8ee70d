--------------------------- MODULE DeepScanStages ---------------------------
(***************************************************************************)
(* The stages of one deep scan: every link of the mail is followed through *)
(* its redirects, the attachments are scored, the hosts where the links    *)
(* end are looked up by address, and the sum raises the verdict.           *)
(*                                                                         *)
(* A name server may answer every lookup differently and each request may  *)
(* fail (MaxFaults of them).  A file name is the sequence of its segments  *)
(* between dots; a header stands at its offset in an archive.              *)
(***************************************************************************)
EXTENDS Naturals, Integers, Sequences, SequencesExt, FiniteSets, FiniteSetsExt

CONSTANTS
  Mails,       \* mails: links, files, sender and the stored verdict
  Dns,         \* host -> the answers its name servers may give
  Web,         \* link -> the responses a request may get
  Domain,      \* host -> registrable domain
  Literals,    \* the hosts that are addresses
  Private,     \* private addresses
  Homographs,  \* hosts that imitate
  Rdap,        \* host -> its registration events, None without an answer
  Listed,      \* link -> "confirmed" or "derived"
  Cti,         \* address -> what CrowdSec knows, None for a 404
  CtiKey,      \* is a CTI key configured
  Dropped,     \* addresses on an IP list that was fetched
  Now,         \* today
  Kept,        \* what the CTI cache may hold
  MaxHops, MaxHosts, PerHost, MaxFaults, None

VARIABLES
  mail,    \* the mail under scan
  pc,      \* the stage
  at,      \* the link followed
  chain,   \* what resolveUrl knows of it
  sent,    \* requests to links, with the guard's last word on each
  rows,    \* the scanned links
  hosts,   \* the hosts seen, in order
  ips,     \* their addresses
  parts,   \* what each stage added
  verdict, \* the stored verdict
  cache,   \* CTI answers kept
  faults   \* requests that failed so far

vars == <<mail, pc, at, chain, sent, rows, hosts, ips, parts, verdict, cache, faults>>

least(a, b) == IF a < b THEN a ELSE b

(* ------------------------------------------------------------ redirects --- *)

\* Records of one type with a well-formed address.
queryDoh(answer, type) ==
  {r.ip : r \in {x \in ToSet(answer) : x.type = type /\ x.ip # None}}
resolveHostIps(answer) == queryDoh(answer, "A") \cup queryDoh(answer, "AAAA")

\* Is `url' refused, given what its name server answers now?
checkSsrf(url, answer) ==
  \/ url.scheme \notin {"http", "https"}
  \/ IF url.host \in Literals THEN url.host \in Private
     ELSE resolveHostIps(answer) \cap Private # {}

\* None when the location is no URL; without a host it is relative.
absolutize(base, loc) ==
  IF loc = None THEN None
  ELSE IF loc.host = None THEN [base EXCEPT !.path = loc.path] ELSE loc

fresh(url) ==
  [original |-> url, current |-> url, resolved |-> url, hops |-> 0, title |-> None,
   truncated |-> FALSE]

\* resolveUrl answers null for a link without a host.
Follow ==
  /\ pc = "urls" /\ at <= Len(mail.links)
  /\ chain' = fresh(mail.links[at])
  /\ pc' = IF mail.links[at].host = None THEN "judge" ELSE "check"
  /\ UNCHANGED <<mail, at, sent, rows, hosts, ips, parts, verdict, cache, faults>>

Check ==
  /\ pc = "check"
  /\ IF chain.hops = MaxHops
     THEN chain' = [chain EXCEPT !.truncated = TRUE] /\ pc' = "judge" /\ UNCHANGED sent
     ELSE \E a \in Dns[chain.current.host] :
            /\ pc' = IF checkSsrf(chain.current, a) THEN "judge" ELSE "fetch"
            /\ sent' = IF checkSsrf(chain.current, a) THEN sent
                       ELSE Append(sent, [url |-> chain.current, guard |-> a, link |-> at])
            /\ UNCHANGED chain
  /\ UNCHANGED <<mail, at, rows, hosts, ips, parts, verdict, cache, faults>>

\* The redirect target passes the guard before it becomes current.
Redirected(next, hop) ==
  IF next = None THEN chain' = hop /\ pc' = "judge"
  ELSE \E a \in Dns[next.host] :
         IF checkSsrf(next, a)
         THEN chain' = [hop EXCEPT !.resolved = hop.current] /\ pc' = "judge"
         ELSE chain' = [hop EXCEPT !.current = next] /\ pc' = "check"

Fetch ==
  /\ pc = "fetch"
  /\ \E r \in Web[chain.current] :
       LET hop == [chain EXCEPT !.hops = @ + 1] IN
       IF r.status = "redirect" THEN Redirected(absolutize(chain.current, r.location), hop)
       ELSE chain' = [hop EXCEPT !.resolved = chain.current, !.title = r.title] /\ pc' = "judge"
  /\ UNCHANGED <<mail, at, sent, rows, hosts, ips, parts, verdict, cache, faults>>

FetchFails ==
  /\ pc = "fetch" /\ faults < MaxFaults
  /\ chain' = [chain EXCEPT !.resolved = chain.current] /\ pc' = "judge"
  /\ faults' = faults + 1
  /\ UNCHANGED <<mail, at, sent, rows, hosts, ips, parts, verdict, cache>>

hostChanged(c) == c.original.host # None /\ Domain[c.resolved.host] # Domain[c.original.host]

(* --------------------------------------------------------------- judging --- *)

\* Days since the earliest registration, None without one.
parseRdapAge(events) ==
  LET dates == {e.date : e \in {x \in ToSet(events) : x.action = "registration" /\ x.date # None}}
  IN IF dates = {} THEN None ELSE Now - Min(dates)

lookupDomainAge(host) == IF Rdap[host] = None THEN None ELSE parseRdapAge(Rdap[host])
freshness(age) == IF age = None \/ age < 0 \/ age >= 30 THEN 0 ELSE IF age < 7 THEN 20 ELSE 10

\* The tags of a link with their points; host-bound ones only the first time.
tagsOf(c, first, feed, known) ==
  LET host == c.resolved.host
      home == mail.sender.dmarc /\ mail.sender.domain # None
                /\ Domain[host] = mail.sender.domain
      own(tag, points) == IF points > 0 THEN {<<tag, points>>} ELSE {}
  IN own("redirect_host_change", IF hostChanged(c) /\ ~home THEN 10 ELSE 0)
       \cup own("redirect_chain_too_long", IF c.truncated THEN 5 ELSE 0)
       \cup (IF ~first THEN {} ELSE
               own("resolved_homograph", IF host \in Homographs THEN 15 ELSE 0)
                 \cup own("domain_age", IF known THEN freshness(lookupDomainAge(host)) ELSE 0)
                 \cup own("intel_match", IF feed # None THEN 20 ELSE 0))

\* The rest of the loop's body: the row is written whatever the lookups say.
Judge ==
  /\ pc = "judge"
  /\ \E broken \in SUBSET {"rdap", "feeds"} :
       LET host == chain.resolved.host
           first == host # None /\ host \notin ToSet(hosts)
           feed == IF "feeds" \notin broken /\ chain.resolved \in DOMAIN Listed
                   THEN Listed[chain.resolved] ELSE None
       IN /\ Cardinality(broken) + faults <= MaxFaults
          /\ (~first => broken = {})
          /\ rows' = Append(rows, [link |-> at, chain |-> chain, broken |-> broken,
                                   tags |-> tagsOf(chain, first, feed, "rdap" \notin broken)])
          /\ hosts' = IF first THEN Append(hosts, host) ELSE hosts
          /\ faults' = faults + Cardinality(broken)
  /\ at' = at + 1 /\ pc' = "urls"
  /\ UNCHANGED <<mail, chain, sent, ips, parts, verdict, cache>>

points(tags) == MapThenSumSet(LAMBDA t : t[2], tags)

ScanUrls ==
  /\ pc = "urls" /\ at > Len(mail.links)
  /\ parts' = [parts EXCEPT !.urls =
       least(30, MapThenSumSet(LAMBDA i : points(rows[i].tags), DOMAIN rows))]
  /\ pc' = "files"
  /\ UNCHANGED <<mail, at, chain, sent, rows, hosts, ips, verdict, cache, faults>>

\* A stage that throws adds nothing; the later ones still run.
StageFails(stage, next) ==
  /\ pc = stage /\ faults < MaxFaults /\ pc' = next
  /\ faults' = faults + 1
  /\ UNCHANGED <<mail, at, chain, sent, rows, hosts, ips, parts, verdict, cache>>

UrlStageFails == at = 1 /\ StageFails("urls", "files")
FileStageFails == StageFails("files", "hosts")

(* ----------------------------------------------------------- attachments --- *)

finalExtension(name) == IF Len(name) < 2 THEN "" ELSE Last(name)
penultimateExtension(name) == IF Len(name) < 3 THEN "" ELSE name[Len(name) - 1]

DANGEROUS_EXTENSIONS == {"exe", "js"}
MACRO_OFFICE_EXTENSIONS == {"docm"}
ARCHIVE_EXTENSIONS == {"zip", "rar", "7z", "gz"}
MIME_EXT_MAP == [pdf |-> {"pdf"}, jpeg |-> {"jpg", "jpeg"}, zip |-> {"zip"}]
isLikelyPenultimateCover(ext) == ext \in {"pdf", "doc"}

FLAG_POINTS == [zero_byte |-> 5, dangerous_extension |-> 40, macro_enabled_office |-> 20,
  double_extension |-> 15, extension_mime_mismatch |-> 15, encrypted_archive |-> 25,
  executable_in_archive_name |-> 10, suspicious_archive_name |-> 5]

flagsOf(file, encrypted) ==
  LET last == finalExtension(file.name)
      prev == penultimateExtension(file.name)
      archive == last \in ARCHIVE_EXTENSIONS
      raised == [f \in DOMAIN FLAG_POINTS |->
        CASE f = "zero_byte" -> file.size = 0
          [] f = "dangerous_extension" -> last \in DANGEROUS_EXTENSIONS
          [] f = "macro_enabled_office" -> last \in MACRO_OFFICE_EXTENSIONS
          [] f = "double_extension" -> isLikelyPenultimateCover(prev) /\ last # prev
          [] f = "extension_mime_mismatch" ->
               file.mime \in DOMAIN MIME_EXT_MAP /\ last # "" /\ last \notin MIME_EXT_MAP[file.mime]
          [] f = "encrypted_archive" -> encrypted
          [] f = "executable_in_archive_name" -> archive /\ file.words = "executable"
          [] OTHER -> archive /\ ~encrypted /\ file.words = "bait"]
  IN {f \in DOMAIN FLAG_POINTS : raised[f]}

scoreAttachment(flags) == least(100, MapThenSumSet(LAMBDA f : FLAG_POINTS[f], flags))

\* The best verdict counts, not their sum.
aggregateAttachmentSignals(scores) == least(30, Max({0} \cup scores))

\* The first local header in the window decides.
ZIP_MIN_LEN == 3
ARCHIVE_SCAN_WINDOW == 12
detectEncryptedZip(file) ==
  LET hits == {i \in DOMAIN file.headers : i <= least(file.len - ZIP_MIN_LEN, ARCHIVE_SCAN_WINDOW)}
  IN hits # {} /\ file.headers[Min(hits)].password

\* ADD_SIZE is read as a signed number of AddBits bits, and only when it is there.
AddRange == 16
signed(n) == IF n >= AddRange \div 2 THEN n - AddRange ELSE n
RAR4_MIN_LEN == 2
HEAD_LEN == 2
LONG_LEN == 3
MAX_BLOCKS == 3
blank == [type |-> "none", password |-> FALSE, size |-> 0, long |-> FALSE, add |-> 0]
headerAt(file, o) == IF o \in DOMAIN file.headers THEN file.headers[o] ELSE blank

advance(file, o, h) ==
  IF h.long /\ o + LONG_LEN <= file.len /\ signed(h.add) > 0 THEN h.size + signed(h.add) ELSE h.size

\* One turn of the block walk: [offset, found, stopped].
walkBlock(file, w) ==
  IF w.stopped \/ w.offset + HEAD_LEN > file.len THEN w
  ELSE LET h == headerAt(file, w.offset)
           step == advance(file, w.offset, h)
       IN IF h.type \in {"main", "file"} /\ h.password THEN [w EXCEPT !.found = TRUE, !.stopped = TRUE]
          ELSE IF h.size < HEAD_LEN \/ step > ARCHIVE_SCAN_WINDOW THEN [w EXCEPT !.stopped = TRUE]
          ELSE [w EXCEPT !.offset = @ + step]

detectEncryptedRar(file) ==
  /\ file.len >= RAR4_MIN_LEN /\ file.magic
  /\ FoldLeft(LAMBDA w, i : walkBlock(file, w), [offset |-> 1, found |-> FALSE, stopped |-> FALSE],
              [i \in 1..MAX_BLOCKS |-> i]).found

detectEncryptedArchive(file, ext) ==
  CASE ext = "zip" -> detectEncryptedZip(file)
    [] ext = "rar" -> detectEncryptedRar(file)
    [] OTHER -> FALSE

\* A lost object or a failed read leaves the file without the signal.
detectArchiveSignals(file, lost) ==
  /\ finalExtension(file.name) \in {"zip", "rar", "7z"} /\ ~file.tiny /\ ~lost
  /\ detectEncryptedArchive(file, finalExtension(file.name))

ScanAttachments ==
  /\ pc = "files"
  /\ \E lost \in SUBSET DOMAIN mail.files :
       LET scores == {scoreAttachment(flagsOf(mail.files[i], detectArchiveSignals(mail.files[i], i \in lost))) :
                        i \in DOMAIN mail.files}
       IN /\ Cardinality(lost) + faults <= MaxFaults
          /\ parts' = [parts EXCEPT !.files = aggregateAttachmentSignals(scores)]
          /\ faults' = faults + Cardinality(lost)
  /\ pc' = "hosts"
  /\ UNCHANGED <<mail, at, chain, sent, rows, hosts, ips, verdict, cache>>

(* ------------------------------------------------------------- addresses --- *)

\* With no consumer of the addresses no name is looked up.
ipStageEnabled == CtiKey \/ Dropped # {}

\* The first records of each host's A answer.
resolveHostA(answer) ==
  LET good == SelectSeq(answer, LAMBDA r : r.type = "A" /\ r.ip # None)
  IN {good[i].ip : i \in 1..least(PerHost, Len(good))}

ResolveHosts ==
  /\ pc = "hosts"
  /\ LET asked == IF ipStageEnabled THEN {hosts[i] : i \in 1..least(MaxHosts, Len(hosts))} ELSE {}
     IN \E answers \in [asked -> UNION {Dns[h] : h \in asked} \cup {<<>>}] :
          /\ \A h \in asked : answers[h] \in Dns[h]
          /\ ips' = UNION {resolveHostA(answers[h]) : h \in asked}
  /\ pc' = "cti"
  /\ UNCHANGED <<mail, at, chain, sent, rows, hosts, parts, verdict, cache, faults>>

collectReputation(raw) ==
  IF raw \in {"malicious", "suspicious", "known", "benign", "safe"} THEN raw ELSE "unknown"

normalize(body) ==
  [classifications |-> body.classifications \ {None}, behaviors |-> body.behaviors \ {None},
   reputation |-> collectReputation(body.reputation)]

\* The answer to a lookup of `ip', given the cached entry and whether it fails.
lookupIp(ip, fails) ==
  IF ip \in DOMAIN cache /\ cache[ip] # "corrupt" THEN cache[ip]
  ELSE IF fails THEN "transient"
  ELSE IF Cti[ip] = None THEN "miss" ELSE "known"

ctiScore(s) ==
  Max({0} \cup (IF s.behaviors \cap {"phishing", "exploit"} # {} THEN {25} ELSE {})
          \cup (IF s.reputation = "malicious" THEN {15} ELSE {})
          \cup (IF s.reputation = "suspicious" THEN {10} ELSE {})
          \cup (IF s.classifications \cap {"tor", "vpn:public", "data_center"} # {} THEN {10} ELSE {}))

\* A rate limit, an error and an unreadable body are never cached.
ScanCti ==
  /\ pc = "cti"
  /\ \E failing \in SUBSET (IF CtiKey THEN ips ELSE {}) :
       LET got == [ip \in (IF CtiKey THEN ips ELSE {}) |-> lookupIp(ip, ip \in failing)]
           known == {ip \in DOMAIN got : got[ip] = "known"}
           kept == {ip \in DOMAIN got : got[ip] # "transient"}
       IN /\ Cardinality(failing) + faults <= MaxFaults
          /\ parts' = [parts EXCEPT !.cti =
               least(25, MapThenSumSet(LAMBDA ip : ctiScore(normalize(Cti[ip])), known))]
          /\ cache' = [ip \in DOMAIN cache \cup kept |-> IF ip \in kept THEN got[ip] ELSE cache[ip]]
          /\ faults' = faults + Cardinality(failing)
  /\ pc' = "lists"
  /\ UNCHANGED <<mail, at, chain, sent, rows, hosts, ips, verdict>>

ScanIpFeeds ==
  /\ pc = "lists"
  /\ parts' = [parts EXCEPT !.lists = least(25, 20 * Cardinality(ips \cap Dropped))]
  /\ pc' = "finish"
  /\ UNCHANGED <<mail, at, chain, sent, rows, hosts, ips, verdict, cache, faults>>

(* --------------------------------------------------------------- verdict --- *)

actionForScore(score) ==
  CASE score >= 80 -> "block" [] score >= 60 /\ score < 80 -> "quarantine"
    [] score >= 30 /\ score < 60 -> "tag" [] OTHER -> "allow"
tierIndex(a) == CASE a = "allow" -> 0 [] a = "tag" -> 1 [] a = "quarantine" -> 2 [] a = "block" -> 3

addedScore == least(40, parts.urls + parts.files + parts.cti + parts.lists)

\* Only a higher action is stored, with the score that earned it.
Finish ==
  /\ pc = "finish"
  /\ verdict' =
       IF mail.base = None \/ addedScore = 0 THEN verdict
       ELSE LET score == least(100, mail.base.score + addedScore)
                action == actionForScore(score)
            IN IF tierIndex(action) > tierIndex(verdict.action)
               THEN [score |-> score, action |-> action] ELSE verdict
  /\ pc' = "done"
  /\ UNCHANGED <<mail, at, chain, sent, rows, hosts, ips, parts, cache, faults>>

nothing == [urls |-> 0, files |-> 0, cti |-> 0, lists |-> 0]

Init ==
  /\ mail \in Mails /\ verdict = mail.base /\ pc = "urls" /\ at = 1 /\ chain = None
  /\ sent = <<>> /\ rows = <<>> /\ hosts = <<>> /\ ips = {} /\ parts = nothing
  /\ cache \in Kept /\ faults = 0

Next ==
  \/ Follow \/ Check \/ Fetch \/ FetchFails \/ Judge \/ ScanUrls \/ UrlStageFails
  \/ ScanAttachments \/ FileStageFails \/ ResolveHosts \/ ScanCti \/ ScanIpFeeds \/ Finish

Spec == Init /\ [][Next]_vars

(* ------------------------------------------------------------ properties --- *)

TypeOK ==
  /\ mail \in Mails /\ at \in 1..(Len(mail.links) + 1) /\ Len(rows) <= Len(mail.links)
  /\ pc \in {"urls", "check", "fetch", "judge", "files", "hosts", "cti", "lists", "finish", "done"}
  /\ \A ip \in DOMAIN cache : cache[ip] \in {"miss", "known", "corrupt"}
  /\ faults \in 0..MaxFaults

\* resolveUrl: no request leaves for a private address or for a target whose
\* name, at the guard's last look, was private, though the answer may differ from the one before the
\* redirect was taken; a link costs at most MaxHops requests.
RequestsGuarded ==
  /\ \A i \in DOMAIN sent :
       /\ sent[i].url.scheme \in {"http", "https"}
       /\ sent[i].url.host \notin Private
       /\ sent[i].url.host \in Literals \/ resolveHostIps(sent[i].guard) \cap Private = {}
  /\ \A l \in 1..at : Cardinality({i \in DOMAIN sent : sent[i].link = l}) <= MaxHops

\* scanUrls: a link is said to end elsewhere only where a request of this scan
\* went, and never for the sender's own site once DMARC passed; a chain cut
\* short is told apart from one that ended.
LandingsTrue ==
  \A i \in DOMAIN rows :
    LET c == rows[i].chain
        mine == {j \in DOMAIN sent : sent[j].link = i}
    IN /\ c.resolved # c.original => \E j \in mine : sent[j].url = c.resolved
       /\ \A t \in rows[i].tags : t[1] = "redirect_host_change" =>
            /\ Domain[c.resolved.host] # Domain[c.original.host]
            /\ ~(mail.sender.dmarc /\ mail.sender.domain # None
                   /\ Domain[c.resolved.host] = mail.sender.domain)
       /\ c.truncated <=> <<"redirect_chain_too_long", 5>> \in rows[i].tags
       /\ c.truncated => Cardinality(mine) = MaxHops

\* scanUrls: registration and imitation of a host count once per mail whatever
\* number of links end there, and a failed lookup takes nothing else away.
HostsCountOnce ==
  /\ \A i, j \in DOMAIN hosts : hosts[i] = hosts[j] => i = j
  /\ \A i \in DOMAIN rows :
       LET host == rows[i].chain.resolved.host
           earlier == \E j \in 1..(i - 1) : rows[j].chain.resolved.host = host
           named == {t[1] : t \in rows[i].tags}
       IN /\ earlier => named \cap {"resolved_homograph", "domain_age", "intel_match"} = {}
          /\ ~earlier /\ host \in Homographs => "resolved_homograph" \in named
          /\ ~earlier /\ "feeds" \notin rows[i].broken /\ rows[i].chain.resolved \in DOMAIN Listed =>
               "intel_match" \in named

\* lookupIp: a rate limit or an outage is never remembered as "not in the
\* dataset", nor a miss as a reputation.
CacheHonest ==
  \A ip \in DOMAIN cache : cache[ip] # "corrupt" => (cache[ip] = "miss" <=> Cti[ip] = None)

\* runDeepScan: what the scan adds is bounded stage by stage and in all, every
\* link has its row before the verdict moves, and the verdict only rises.
SumBounded ==
  /\ parts.urls <= 30 /\ parts.files <= 30 /\ parts.cti <= 25 /\ parts.lists <= 25
  /\ verdict # mail.base =>
       /\ tierIndex(verdict.action) > tierIndex(mail.base.action)
       /\ verdict.score \in mail.base.score..(mail.base.score + 40)
  /\ parts.urls > 0 => Len(rows) = Len(mail.links)

\* detectEncryptedRar: only a header that lies on the chain from the first one
\* makes an archive encrypted, however the sizes are forged.
onChain[f \in UNION {ToSet(m.files) : m \in Mails}, k \in 1..MAX_BLOCKS] ==
  IF k = 1 THEN {1}
  ELSE {o + advance(f, o, headerAt(f, o)) :
          o \in {x \in onChain[f, k - 1] :
                   /\ x + HEAD_LEN <= f.len /\ headerAt(f, x).size >= HEAD_LEN
                   /\ advance(f, x, headerAt(f, x)) <= ARCHIVE_SCAN_WINDOW}}
ArchivesAgree ==
  pc = "done" => \A i \in DOMAIN mail.files :
    LET f == mail.files[i]
    IN f.magic => detectEncryptedRar(f) =
         \E k \in 1..MAX_BLOCKS : \E o \in onChain[f, k] :
           o + HEAD_LEN <= f.len /\ o \in DOMAIN f.headers
             /\ f.headers[o].password /\ f.headers[o].type \in {"main", "file"}

\* All of the above.
ScanSound ==
  /\ RequestsGuarded /\ LandingsTrue /\ HostsCountOnce
  /\ CacheHonest /\ SumBounded /\ ArchivesAgree
=============================================================================
