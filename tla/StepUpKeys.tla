----------------------------- MODULE StepUpKeys -----------------------------
(***************************************************************************)
(* The keys step-up sending rests on: how a user's first key is enrolled,  *)
(* how a further one is unlocked by a key he has, what an administrator's  *)
(* recovery clears, and which challenge may be used for what.  What a send *)
(* does with the token minted here is in StepUpSend.  A handler waits for  *)
(* the database between its steps; req[r].at is the call it waits for.     *)
(***************************************************************************)
EXTENDS Naturals, FiniteSets, Sequences

CONSTANTS
  Users,       \* the subjects of Access identities
  Interactive, \* those with an email: people, neither services nor agents
  Admins,      \* those on WEBAUTHN_ADMIN_EMAILS
  Keys,        \* the key pairs authenticators make, each made once
  Approved,    \* those whose model WEBAUTHN_AAGUID_ALLOWLIST admits
  Histories,   \* what may have been enrolled before: sequences of [key, sub]
  Slots, MaxRequests, MaxChallenges, MaxSigned, MaxFaults, None

VARIABLES
  credentials, \* webauthn_credentials: [Keys -> row or None]
  challenges,  \* webauthn_challenges, those deleted included, as issued
  req,         \* [Slots -> the handler running, or None]
  signed,      \* [Keys -> the authenticator's counter, None until made]
  alerts,      \* keys and users the operator was alerted of
  requests, faults

vars == <<credentials, challenges, req, signed, alerts, requests, faults>>

isInteractive(u) == u \in Interactive
\* An allowlist with nobody on it admits nobody.
isWebauthnAdmin(u) == isInteractive(u) /\ u \in Admins
listBySub(u) == {k \in Keys : credentials[k] # None /\ credentials[k].sub = u}

(* -------------------------------------------------------------- the browser --- *)

\* A registration that was completed.
done(h) ==
  [sub |-> h.sub, type |-> "registration", state |-> "gone", by |-> None, proof |-> 0, held |-> {},
   uses |-> <<[op |-> "enrol", sub |-> h.sub, key |-> h.key]>>]

Init ==
  /\ \E h \in Histories :
       LET rowOf(k) == {[sub |-> h[i].sub, counter |-> 0, from |-> i, quiet |-> FALSE] :
                        i \in {i \in DOMAIN h : h[i].key = k}} IN
       /\ credentials = [k \in Keys |-> IF rowOf(k) = {} THEN None ELSE CHOOSE row \in rowOf(k) : TRUE]
       /\ challenges = [i \in DOMAIN h |-> done(h[i])]
       /\ signed = [k \in Keys |-> IF rowOf(k) = {} THEN None ELSE 0]
       /\ alerts = {h[i].key : i \in DOMAIN h}
  /\ req = [r \in Slots |-> None] /\ requests = 0 /\ faults = 0

\* held and over are for the properties: the keys the user had when they were
\* listed, and whether a recovery cleared them since.
handler(op, u, at, key, c, count) ==
  [op |-> op, sub |-> u, at |-> at, key |-> key, chal |-> c, count |-> count,
   by |-> None, first |-> FALSE, held |-> {}, over |-> FALSE]

starts(r, h) ==
  /\ req[r] = None /\ req' = [req EXCEPT ![r] = h]
  /\ requests < MaxRequests /\ requests' = requests + 1

\* An authenticator signs a challenge somebody was issued; its counter goes up.
signs(k, c) ==
  /\ c \in DOMAIN challenges /\ signed[k] # None /\ signed[k] < MaxSigned
  /\ signed' = [signed EXCEPT ![k] = @ + 1]

\* A registration signs with a key pair made for it.
makes(k, c) ==
  /\ c \in DOMAIN challenges /\ signed[k] = None
  /\ signed' = [signed EXCEPT ![k] = 0]

postRegisterOptions(r, u) ==
  /\ isInteractive(u)
  /\ \/ starts(r, handler("add", u, "list", None, 0, 0)) /\ signed' = signed
     \/ \E k \in Keys, c \in DOMAIN challenges :
          signs(k, c) /\ starts(r, handler("add", u, "list", k, c, signed[k] + 1))
  /\ UNCHANGED <<credentials, challenges, alerts, faults>>

postRegisterVerify(r, u) ==
  /\ isInteractive(u)
  /\ \E k \in Keys, c \in DOMAIN challenges :
       makes(k, c) /\ starts(r, handler("enrol", u, "consume", k, c, 0))
  /\ UNCHANGED <<credentials, challenges, alerts, faults>>

postAuthenticateVerify(r, u) ==
  /\ \E k \in Keys, c \in DOMAIN challenges :
       signs(k, c) /\ starts(r, handler("send", u, "consume", k, c, signed[k] + 1))
  /\ UNCHANGED <<credentials, challenges, alerts, faults>>

\* The list it reads only fills in the options, here and below.
postAuthenticateOptions(r, u) ==
  /\ starts(r, handler("ask", u, "issue", None, 0, 0))
  /\ UNCHANGED <<credentials, challenges, signed, alerts, faults>>

postRecover(r, admin, u) ==
  /\ isWebauthnAdmin(admin)
  /\ starts(r, handler("recover", u, "clear", None, 0, 0))
  /\ UNCHANGED <<credentials, challenges, signed, alerts, faults>>

(* ------------------------------------------------------------- the handlers --- *)

expected(op) ==
  CASE op = "add" -> "register-stepup" [] op = "enrol" -> "registration" [] OTHER -> "authentication"

issued(h) ==
  CASE h.op = "ask" -> "authentication"
    [] h.op = "add" /\ h.by = None /\ h.held # {} -> "register-stepup"
    [] OTHER -> "registration"

consumable(h) ==
  /\ challenges[h.chal].state = "live"
  /\ challenges[h.chal].type = expected(h.op) /\ challenges[h.chal].sub = h.sub

\* verifyAuthenticationResponse refuses a counter that did not go up.
owned(h) ==
  /\ credentials[h.key] # None /\ credentials[h.key].sub = h.sub
  /\ h.count > credentials[h.key].counter

\* What the call a handler waits for does to the tables.  A challenge leaves
\* with the call that reads it, unless it expired.  Each use is noted on it.
used(h) == [challenges EXCEPT ![h.chal].uses = Append(@, [op |-> h.op, sub |-> h.sub, key |-> h.key])]

consumeChallenge(h) ==
  /\ challenges' = IF challenges[h.chal].state = "live"
                   THEN [challenges EXCEPT ![h.chal].state = "gone"] ELSE challenges
  /\ UNCHANGED credentials

updateCounter(h) ==
  /\ credentials' = IF credentials[h.key] = None THEN credentials
                    ELSE [credentials EXCEPT ![h.key].counter = h.count]
  /\ challenges' = used(h)

putChallenge(h) ==
  /\ Len(challenges) < MaxChallenges
  /\ challenges' = Append(challenges,
       [sub |-> h.sub, type |-> issued(h), state |-> "live", by |-> h.by, proof |-> h.chal,
        held |-> h.held, uses |-> <<>>])
  /\ UNCHANGED credentials

createCredential(h, quiet) ==
  /\ credentials' = [credentials EXCEPT ![h.key] =
       [sub |-> h.sub, counter |-> 0, from |-> h.chal, quiet |-> quiet]]
  /\ challenges' = used(h)

deleteAllBySub(h) ==
  /\ credentials' = [k \in Keys |-> IF k \in listBySub(h.sub) THEN None ELSE credentials[k]]
  /\ UNCHANGED challenges

call(r, point) == req[r] # None /\ req[r].at = point /\ UNCHANGED <<signed, alerts, requests, faults>>
goes(r, point) == req' = [req EXCEPT ![r].at = point]
ends(r) == req' = [req EXCEPT ![r] = None]

\* The listing of register/options chooses among its three answers; that of
\* register/verify tells whether the key is the user's first.
listed(r) ==
  LET h == req[r]
      mine == listBySub(h.sub)
  IN
  /\ call(r, "list") /\ UNCHANGED <<credentials, challenges>>
  /\ req' = [req EXCEPT ![r] =
       [h EXCEPT !.held = mine, !.first = mine = {},
                 !.at = CASE h.op = "enrol" -> "insert"
                          [] h.op = "add" /\ mine # {} /\ h.key # None -> "consume"
                          [] OTHER -> "issue"]]

\* The challenge is gone before anything is verified; an attestation must
\* verify and its model be allowed before the key is stored.
consumed(r) ==
  LET h == req[r] IN
  /\ call(r, "consume") /\ consumeChallenge(h)
  /\ \/ consumable(h) /\ h.op # "enrol" /\ goes(r, "lookup")
     \/ consumable(h) /\ h.op = "enrol" /\ h.key \in Approved /\ goes(r, "list")
     \/ ends(r)

lookedUp(r) ==
  /\ call(r, "lookup") /\ UNCHANGED <<credentials, challenges>>
  /\ \/ owned(req[r]) /\ goes(r, "count")
     \/ ends(r)

\* The assertion is accepted: a token for a send, or a challenge to register.
counted(r) ==
  /\ call(r, "count") /\ updateCounter(req[r])
  /\ IF req[r].op = "send" THEN ends(r)
     ELSE req' = [req EXCEPT ![r].by = req[r].key, ![r].at = "issue"]

put(r) == call(r, "issue") /\ putChallenge(req[r]) /\ ends(r)

created(r) ==
  /\ call(r, "insert") /\ createCredential(req[r], req[r].over)
  /\ IF req[r].first THEN goes(r, "tell") ELSE ends(r)

\* Registrations under way for the user are noted: they listed other keys.
clears(r, next) ==
  /\ deleteAllBySub(req[r])
  /\ req' = [q \in Slots |->
       IF q = r THEN next
       ELSE IF req[q] # None /\ req[q].sub = req[r].sub THEN [req[q] EXCEPT !.over = TRUE]
       ELSE req[q]]

cleared(r) == call(r, "clear") /\ clears(r, [req[r] EXCEPT !.at = "tell"])

\* dispatchSecurityAlert is not waited for, and its failure is only logged.
dispatchSecurityAlert(r) ==
  /\ req[r] # None /\ req[r].at = "tell" /\ ends(r)
  /\ alerts' = alerts \cup {IF req[r].op = "recover" THEN req[r].sub ELSE req[r].key}
  /\ UNCHANGED <<credentials, challenges, signed, requests, faults>>

\* A call fails, or takes effect and its answer is lost: 500, or 401 and 403
\* where the handler catches it.
fails(r) ==
  /\ req[r] # None /\ req[r].at # "tell" /\ faults < MaxFaults /\ faults' = faults + 1
  /\ UNCHANGED <<signed, alerts, requests>>
  /\ \/ ends(r) /\ UNCHANGED <<credentials, challenges>>
     \/ ends(r) /\ req[r].at = "consume" /\ consumeChallenge(req[r])
     \/ ends(r) /\ req[r].at = "count" /\ updateCounter(req[r])
     \/ ends(r) /\ req[r].at = "insert" /\ createCredential(req[r], TRUE)
     \/ req[r].at = "clear" /\ clears(r, None)

(* ----------------------------------------------------------------- the clock --- *)

expire(c) ==
  /\ challenges[c].state = "live" /\ challenges' = [challenges EXCEPT ![c].state = "expired"]
  /\ UNCHANGED <<credentials, req, signed, alerts, requests, faults>>

deleteExpiredChallenges ==
  /\ \E c \in DOMAIN challenges : challenges[c].state = "expired"
  /\ challenges' = [c \in DOMAIN challenges |->
       IF challenges[c].state = "expired" THEN [challenges[c] EXCEPT !.state = "gone"] ELSE challenges[c]]
  /\ UNCHANGED <<credentials, req, signed, alerts, requests, faults>>

Step(r) ==
  \/ listed(r) \/ consumed(r) \/ lookedUp(r) \/ counted(r) \/ put(r) \/ created(r)
  \/ cleared(r) \/ dispatchSecurityAlert(r) \/ fails(r)

Next ==
  \/ \E r \in Slots, u \in Users :
       \/ postRegisterOptions(r, u) \/ postRegisterVerify(r, u)
       \/ postAuthenticateOptions(r, u) \/ postAuthenticateVerify(r, u)
       \/ \E admin \in Users : postRecover(r, admin, u)
  \/ \E r \in Slots : Step(r)
  \/ \E c \in DOMAIN challenges : expire(c)
  \/ deleteExpiredChallenges

Spec == Init /\ [][Next]_vars

(* ----------------------------------------------------------- the properties --- *)

Types == {"registration", "authentication", "register-stepup"}

TypeOK ==
  /\ \A k \in Keys : credentials[k] # None =>
       /\ credentials[k].sub \in Users /\ credentials[k].from \in DOMAIN challenges
       /\ credentials[k].counter \in 0..MaxSigned
  /\ \A c \in DOMAIN challenges :
       challenges[c].type \in Types /\ challenges[c].state \in {"live", "expired", "gone"}
  /\ \A r \in Slots : req[r] # None =>
       req[r].at \in {"list", "consume", "lookup", "count", "issue", "insert", "clear", "tell"}
  /\ \A k \in Keys : signed[k] \in (0..MaxSigned) \cup {None}
  /\ alerts \subseteq Keys \cup Users /\ requests <= MaxRequests /\ faults <= MaxFaults

\* A challenge serves one purpose, once, and the user it was issued to, whoever
\* else answers it at the same time; a send, or a further registration, by an
\* assertion of a key that this user enrolled (webauthn.ts:17-22).
UsedOnce ==
  \A c \in DOMAIN challenges :
    LET ch == challenges[c]
        enrolled(x) == \E d \in DOMAIN challenges : \E i \in DOMAIN challenges[d].uses :
                         challenges[d].uses[i] = [op |-> "enrol", sub |-> x.sub, key |-> x.key]
    IN
    /\ Len(ch.uses) <= 1
    /\ \A i \in DOMAIN ch.uses :
         /\ expected(ch.uses[i].op) = ch.type /\ ch.uses[i].sub = ch.sub
         /\ ch.state = "gone" /\ enrolled(ch.uses[i])

\* Every key a user has was made for a registration of his own, and that one
\* was begun when he had no key, or unlocked by an assertion of a key of his
\* (webauthn.ts:24-26).  Two registrations begun before the first key was
\* stored may both end, so the second then has no assertion behind it.
Vouched ==
  \A k \in Keys : credentials[k] # None =>
    LET ch == challenges[credentials[k].from] IN
    /\ k \in Approved /\ ch.type = "registration" /\ ch.sub = credentials[k].sub
    /\ ch.uses = <<[op |-> "enrol", sub |-> ch.sub, key |-> k]>>
    /\ ch.by = None => ch.held = {}
    /\ ch.by # None => challenges[ch.proof].uses = <<[op |-> "add", sub |-> ch.sub, key |-> ch.by]>>

\* A user with keys has one the operator was, or is about to be, alerted of
\* (webauthn.ts:403-406), unless the insert lost its answer or a recovery came
\* between the listing and the insert.  That recovery is alerted itself, or
\* else lost its answer: then neither is.
FirstKeyTold ==
  \A u \in Users : listBySub(u) # {} =>
    \E k \in listBySub(u) :
      \/ k \in alerts \/ credentials[k].quiet
      \/ \E r \in Slots : req[r] # None /\ req[r].at = "tell" /\ req[r].key = k

\* The stored counter never passes the authenticator's, although two
\* assertions may write it out of order: no user is locked out by it.
NotLockedOut ==
  \A k \in Keys : credentials[k] # None => credentials[k].counter <= signed[k]

KeysSound == UsedOnce /\ Vouched /\ FirstKeyTold /\ NotLockedOut
=============================================================================
