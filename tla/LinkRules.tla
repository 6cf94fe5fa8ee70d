------------------------------ MODULE LinkRules ------------------------------
(***************************************************************************)
(* The links of a message and the domains that imitate others: extraction  *)
(* and homograph rules (security/urls.ts), the look-alike of an anchor     *)
(* (security/send-risk.ts) and the imitation of the organisation's own     *)
(* domains (security/own-domain-lookalike.ts).  A host is a sequence of    *)
(* labels, a label a sequence of characters.  The state is the material,   *)
(* grown a piece at a time; the operators are what the code computes of it.*)
(***************************************************************************)
EXTENDS Naturals, Sequences, SequencesExt

CONSTANTS
  Letters,     \* alphabet of the words the distance is checked on
  Occurrences, \* what a body may hold: [url, host (or None), form, text]
  Hosts,       \* domains a sender or a link may name
  HIGH_VALUE_DOMAINS, SHORTENER_DOMAINS, MULTI_LABEL_PUBLIC_SUFFIXES,
  Folded,      \* [confusable letter -> Latin letter], other letters are not in it
  Anchors,     \* the organisation's domains; the first is the mailbox's
  Cap, None,
  MaxWord, MaxBody

VARIABLES body, words, sender

vars == <<body, words, sender>>

TypeOK ==
  /\ body \in Seq(Occurrences) /\ Len(body) <= MaxBody
  /\ words \in Seq(Letters) \X Seq(Letters)
  /\ sender \in Hosts \cup {None}

Init == body = <<>> /\ words = << <<>>, <<>> >> /\ sender = None

grow(o) == Len(body) < MaxBody /\ body' = Append(body, o) /\ UNCHANGED words
spell(i, c) ==
  /\ body = <<>> /\ sender = None /\ Len(words[i]) < MaxWord
  /\ words' = [words EXCEPT ![i] = Append(@, c)] /\ UNCHANGED <<body, sender>>
name(h) == sender = None /\ body = <<>> /\ sender' = h /\ UNCHANGED <<body, words>>

Next ==
  \/ \E o \in Occurrences : words = << <<>>, <<>> >> /\ sender = None /\ grow(o) /\ UNCHANGED sender
  \/ \E i \in {1, 2}, c \in Letters : spell(i, c)
  \/ \E h \in Hosts : words = << <<>>, <<>> >> /\ name(h)

(* ------------------------------------------------------- hosts and words --- *)

text(host) == FoldLeft(LAMBDA s, l : IF s = <<>> THEN l ELSE s \o <<".">> \o l, <<>>, host)
least(S) == CHOOSE n \in S : \A m \in S : n <= m

\* The two-row table: each row from the one before it.
levenshtein(a, b) ==
  LET nextRow(prev, i) ==
        FoldLeft(LAMBDA curr, j :
                   Append(curr, least({curr[j] + 1, prev[j + 1] + 1,
                                       prev[j] + (IF a[i] = b[j] THEN 0 ELSE 1)})),
                 <<i>>, [j \in 1 .. Len(b) |-> j])
  IN  Last(FoldLeft(nextRow, [j \in 1 .. Len(b) + 1 |-> j - 1], [i \in 1 .. Len(a) |-> i]))

lastLabels(host, n) == SubSeq(host, Len(host) - n + 1, Len(host))
registrableDomain(host) ==
  IF Len(host) < 2 THEN host
  ELSE IF Len(host) >= 3 /\ lastLabels(host, 2) \in MULTI_LABEL_PUBLIC_SUFFIXES
         THEN lastLabels(host, 3) ELSE lastLabels(host, 2)

foreign(c) == c \in DOMAIN Folded
isHomographic(host) ==
  \/ \E i \in DOMAIN host : \E j \in DOMAIN host[i] : foreign(host[i][j])
  \/ /\ ~\E d \in HIGH_VALUE_DOMAINS : IsSuffix(d, host)
     /\ \E d \in HIGH_VALUE_DOMAINS :
          levenshtein(text(registrableDomain(host)), text(d)) \in 1 .. 2

(* ------------------------------------------------------------ extraction --- *)

\* Anchors with their text, then every href, then every bare URL; the same raw
\* URL is kept once, and nothing is added once Cap links are listed.
pushUrl(out, o, display) ==
  IF Len(out) >= Cap \/ o.host = None \/ (\E i \in DOMAIN out : out[i].url = o.url) THEN out
  ELSE Append(out, [url |-> o.url, hostname |-> o.host, display |-> IF display THEN o.text ELSE None,
                    is_homograph |-> isHomographic(o.host),
                    is_shortener |-> o.host \in SHORTENER_DOMAINS
                                       \/ registrableDomain(o.host) \in SHORTENER_DOMAINS])

extractUrls(b) ==
  LET of(forms) == SelectSeq(b, LAMBDA o : o.form \in forms)
      anchors == FoldLeft(LAMBDA out, o : pushUrl(out, o, TRUE), <<>>, of({"anchor"}))
      hrefs == FoldLeft(LAMBDA out, o : pushUrl(out, o, FALSE), anchors, of({"anchor", "href"}))
  IN  FoldLeft(LAMBDA out, o : pushUrl(out, o, FALSE), hrefs, b)

scoreUrls(urls) ==
  (IF \E i \in DOMAIN urls : urls[i].is_homograph THEN 20 ELSE 0)
    + (IF \E i \in DOMAIN urls : urls[i].is_shortener THEN 5 ELSE 0)

(* ------------------------------------------------------------ imitations --- *)

\* rn -> m, vv -> w, then 0 -> o, 1 -> l.
confusableSkeleton(d) ==
  LET pair(c) == IF c = "r" THEN <<"n", "m">> ELSE IF c = "v" THEN <<"v", "w">> ELSE None
      digit(c) == IF c = "0" THEN "o" ELSE IF c = "1" THEN "l" ELSE c
      walk[i \in 1 .. Len(d) + 2] ==
        IF i > Len(d) THEN <<>>
        ELSE IF i < Len(d) /\ d[i] \in {"r", "v"} /\ d[i + 1] = pair(d[i])[1]
          THEN <<pair(d[i])[2]>> \o walk[i + 2]
          ELSE <<digit(d[i])>> \o walk[i + 1]
  IN  walk[1]

near(d, a) ==
  LET dist == levenshtein(d, a) shorter == least({Len(a), Len(d)}) IN
  \/ dist = 1 /\ shorter >= 6
  \/ dist = 2 /\ shorter >= 10

imitates(d, anchor) ==
  LET a == text(registrableDomain(anchor)) IN
  a # d /\ (confusableSkeleton(d) = confusableSkeleton(a) \/ near(d, a))

sameName(d, own) ==
  LET o == registrableDomain(own) IN d # o /\ Len(o[1]) >= 4 /\ d[1] = o[1]

\* The first anchor the domain imitates, or the own domain under another suffix.
lookalikeAnchor(host, anchors, internal) ==
  LET d == registrableDomain(host)
      hits == SelectSeq(anchors, LAMBDA a : imitates(text(d), a))
  IN  IF hits # <<>> THEN hits[1] ELSE IF sameName(d, internal) THEN internal ELSE None

foldDomain(host) ==
  [i \in DOMAIN host |->
    [j \in DOMAIN host[i] |-> IF foreign(host[i][j]) THEN Folded[host[i][j]] ELSE host[i][j]]]

splitAt(label) ==
  FoldLeft(LAMBDA parts, c : IF c = "-" THEN Append(parts, <<>>)
                             ELSE [parts EXCEPT ![Len(parts)] = Append(@, c)], << <<>> >>, label)

hyphenatedAnchor(reg, anchors) ==
  LET parts == splitAt(reg[1])
      glued(a) == LET n == registrableDomain(a)[1] IN Len(n) >= 4 /\ n \in {parts[1], Last(parts)}
      hits == SelectSeq(anchors, glued)
  IN  IF Len(parts) > 1 /\ hits # <<>> THEN hits[1] ELSE None

matchAnchor(host, anchors, mailbox) ==
  LET own(reg) == SelectSeq(anchors, LAMBDA a : registrableDomain(a) = reg)
      reg == registrableDomain(foldDomain(host))
      near_ == lookalikeAnchor(foldDomain(host), anchors, mailbox)
  IN  IF own(registrableDomain(host)) # <<>> THEN None
      ELSE IF own(reg) # <<>> THEN own(reg)[1]
      ELSE IF near_ # None THEN near_ ELSE hyphenatedAnchor(reg, anchors)

\* A sender scores before a link; one match is enough.
scoreOwnDomainLookalike(senders, links) ==
  LET anchors == [i \in DOMAIN Anchors |-> foldDomain(Anchors[i])]
      match(h) == matchAnchor(h, anchors, anchors[1]) # None
  IN  IF \E h \in senders : match(h) THEN 25 ELSE IF \E h \in links : match(h) THEN 15 ELSE 0

(* ------------------------------------------------------------ properties --- *)

\* The table's corner is the edit distance: none for equal words, otherwise
\* one more than the nearest pair of words a single edit away.
LevenshteinIsEditDistance ==
  LET a == words[1] b == words[2]
      dist[i \in 0 .. Len(a), j \in 0 .. Len(b)] ==
        IF i = 0 THEN j ELSE IF j = 0 THEN i
        ELSE IF a[i] = b[j] THEN dist[i - 1, j - 1]
        ELSE 1 + least({dist[i - 1, j], dist[i, j - 1], dist[i - 1, j - 1]})
  IN  levenshtein(a, b) = dist[Len(a), Len(b)] /\ levenshtein(a, b) = levenshtein(b, a)

\* What LinksComplete asks of a list of links.
ListsLinks(out, listed, links, anchored) ==
  /\ listed \subseteq links
  /\ Len(out) < Cap => listed = links
  /\ listed \subseteq anchored \/ anchored \subseteq listed
  /\ \A i, j \in DOMAIN out : out[i].url = out[j].url => i = j
  /\ \A i \in DOMAIN out : (out[i].display # None) = (out[i].url \in anchored)
  /\ scoreUrls(out) <= 25
\* Within the cap no link of the body is missed, whatever form it has, none is
\* listed twice, and one that is an anchor keeps an anchor's text; beyond the
\* cap only bare links are lost to anchors.
LinksComplete ==
  LET urls(forms) == {body[i].url : i \in {j \in DOMAIN body : body[j].host # None /\ body[j].form \in forms}}
      complete(out) ==
        ListsLinks(out, {out[i].url : i \in DOMAIN out}, urls({body[i].form : i \in DOMAIN body}), urls({"anchor"}))
  IN  complete(extractUrls(body))

\* The organisation's own domains and their subdomains are never imitations of
\* each other; what folds to one of them without being it always is.
OwnDomainsTold ==
  LET isOwn(reg) == \E i \in DOMAIN Anchors : reg = registrableDomain(Anchors[i])
      told(ours, folds, score) == (ours => score = 0) /\ ((folds /\ ~ours) => score = 25)
  IN  sender # None =>
        told(isOwn(registrableDomain(sender)), isOwn(registrableDomain(foldDomain(sender))),
             scoreOwnDomainLookalike({sender}, {}))

LinksSound == LevenshteinIsEditDistance /\ LinksComplete /\ OwnDomainsTold
=============================================================================
