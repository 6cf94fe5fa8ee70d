--------------------------- MODULE StepUpKeysProofs ---------------------------
(***************************************************************************)
(* What holds of step-up credentials for any users, keys, administrators   *)
(* and number of overlapping requests: a challenge is used once and for    *)
(* what it was issued, a key rests on an assertion of an earlier one, the  *)
(* operator hears of first keys, and no counter locks a user out.          *)
(***************************************************************************)
EXTENDS StepUpKeys, SequenceTheorems, TLAPS

Ops == {"add", "enrol", "send", "ask", "recover"}
Points == {"list", "consume", "lookup", "count", "issue", "insert", "clear", "tell"}
Use == [op : Ops, sub : Users, key : Keys]
Row == [sub : Users, counter : Nat, from : Nat, quiet : BOOLEAN]
Challenge ==
  [sub : Users, type : Types, state : {"live", "expired", "gone"}, by : Keys \cup {None},
   proof : Nat, held : SUBSET Keys, uses : Seq(Use)]
Handler ==
  [op : Ops, sub : Users, at : Points, key : Keys \cup {None}, chal : Nat, count : Nat,
   by : Keys \cup {None}, first : BOOLEAN, held : SUBSET Keys, over : BOOLEAN]

Enrolment == [key : Keys \cap Approved, sub : Users]

\* What the constants are: None is nothing else, a database starts with
\* enrolments of distinct keys of admitted models, and the bounds are numbers.
Constants ==
  /\ None \notin Keys \cup Nat \cup Row \cup Handler
  /\ \A h \in Histories :
       /\ h \in Seq(Enrolment)
       /\ \A i, j \in DOMAIN h : h[i].key = h[j].key => i = j
  /\ MaxRequests \in Nat /\ MaxFaults \in Nat /\ MaxSigned \in Nat

(* ---------------------------------------------------------- the invariant --- *)

Typed ==
  /\ credentials \in [Keys -> Row \cup {None}] /\ challenges \in Seq(Challenge)
  /\ req \in [Slots -> Handler \cup {None}] /\ signed \in [Keys -> (0..MaxSigned) \cup {None}]
  /\ alerts \subseteq Keys \cup Users /\ requests \in 0..MaxRequests /\ faults \in 0..MaxFaults

\* Which calls a handler makes, and what it has in hand then.
Shape(h) ==
  /\ h.op = "enrol" => h.at \in {"consume", "list", "insert", "tell"} /\ h.key \in Keys /\ h.by = None
  /\ h.op = "send" => h.at \in {"consume", "lookup", "count"} /\ h.key \in Keys /\ h.by = None
  /\ h.op = "add" =>
       /\ h.at \in {"list", "consume", "lookup", "count", "issue"}
       /\ h.at \in {"consume", "lookup", "count"} => h.key \in Keys
       /\ h.by # None => h.at = "issue" /\ h.key \in Keys
  /\ h.op = "ask" => h.at = "issue" /\ h.by = None
  /\ h.op = "recover" => h.at \in {"clear", "tell"} /\ h.key = None
  /\ h.key # None => h.chal \in DOMAIN challenges

\* From the call that consumes its challenge to the one that uses it a handler
\* holds it, and nobody used it.
Holds(h) == h.at \in {"lookup", "count", "insert"} \/ (h.op = "enrol" /\ h.at = "list")
Unspent(h) ==
  Holds(h) =>
    /\ challenges[h.chal].state = "gone" /\ challenges[h.chal].type = expected(h.op)
    /\ challenges[h.chal].sub = h.sub /\ challenges[h.chal].uses = <<>>

EnrolledBy(u, k) ==
  \E d \in DOMAIN challenges : challenges[d].uses = <<[op |-> "enrol", sub |-> u, key |-> k]>>
UnlockedBy(c, u, k) ==
  c \in DOMAIN challenges /\ challenges[c].uses = <<[op |-> "add", sub |-> u, key |-> k]>>

\* What a handler has verified.
Verified(h) ==
  /\ Holds(h) /\ h.op = "enrol" => h.key \in Approved
  /\ h.at = "count" => EnrolledBy(h.sub, h.key)
  /\ h.by # None => UnlockedBy(h.chal, h.sub, h.by)

\* The counter in an assertion is one the authenticator reached, and a key to
\* be stored is a new one.
Enrolling(h) == h.op = "enrol" /\ h.at \in {"consume", "list", "insert"}
Metered(h) ==
  /\ h.op \in {"add", "send"} /\ h.key # None => signed[h.key] # None /\ h.count <= signed[h.key]
  /\ Enrolling(h) => signed[h.key] # None /\ credentials[h.key] = None

\* A key that is not the first is stored while its user has another, or after
\* a recovery took it.
Watched(h) == h.op = "enrol" /\ h.at = "insert" /\ ~h.first => h.over \/ listBySub(h.sub) # {}

Handled(h) == Shape(h) /\ Unspent(h) /\ Verified(h) /\ Metered(h) /\ Watched(h)

\* No two handlers hold one challenge or enrol one key.
Apart(r, q) ==
  /\ Holds(req[r]) /\ Holds(req[q]) => req[r].chal # req[q].chal
  /\ Enrolling(req[r]) /\ Enrolling(req[q]) => req[r].key # req[q].key

UsedAt(c) ==
  LET ch == challenges[c] IN
  \/ ch.uses = <<>>
  \/ \E u \in Use :
       /\ ch.uses = <<u>> /\ expected(u.op) = ch.type /\ u.sub = ch.sub
       /\ ch.state = "gone" /\ EnrolledBy(u.sub, u.key)

\* A registration is begun by a user without keys, or unlocked.
IssuedAt(c) ==
  LET ch == challenges[c] IN
  ch.type = "registration" =>
    /\ ch.by = None => ch.held = {}
    /\ ch.by # None => UnlockedBy(ch.proof, ch.sub, ch.by)

KeyAt(k) ==
  /\ signed[k] = None => credentials[k] = None
  /\ credentials[k] # None =>
       /\ credentials[k].counter <= signed[k] /\ k \in Approved
       /\ credentials[k].from \in DOMAIN challenges
       /\ challenges[credentials[k].from].type = "registration"
       /\ challenges[credentials[k].from].sub = credentials[k].sub
       /\ challenges[credentials[k].from].uses = <<[op |-> "enrol", sub |-> credentials[k].sub, key |-> k]>>

Telling(k) == \E r \in Slots : req[r] # None /\ req[r].at = "tell" /\ req[r].key = k
Told(u) ==
  listBySub(u) # {} => \E k \in listBySub(u) : k \in alerts \/ credentials[k].quiet \/ Telling(k)

Handlers == \A r \in Slots : req[r] # None => Handled(req[r])
AllApart == \A r, q \in Slots : r # q /\ req[r] # None /\ req[q] # None => Apart(r, q)
Rows ==
  /\ \A c \in DOMAIN challenges : UsedAt(c) /\ IssuedAt(c)
  /\ \A k \in Keys : KeyAt(k)
  /\ \A u \in Users : Told(u)

IInv == Typed /\ Handlers /\ AllApart /\ Rows

(* ------------------------------------------------------- what a step keeps --- *)

\* Rows of challenges stay; what was used stays used.
Grown ==
  \A c \in DOMAIN challenges :
    /\ c \in DOMAIN challenges'
    /\ LET a == challenges[c] b == challenges'[c] IN
       /\ b.sub = a.sub /\ b.type = a.type /\ b.by = a.by /\ b.proof = a.proof /\ b.held = a.held
       /\ a.state = "gone" => b.state = "gone"
       /\ a.uses # <<>> => b.uses = a.uses

Rising ==
  /\ signed' \in [Keys -> (0..MaxSigned) \cup {None}]
  /\ \A k \in Keys : signed[k] # None => signed'[k] # None /\ signed[k] <= signed'[k]

StillTold ==
  alerts \subseteq alerts' /\ \A k \in Keys : Telling(k) => Telling(k)' \/ k \in alerts'

LEMMA GrownKeeps ==
  ASSUME Grown, NEW u, NEW k
  PROVE  /\ EnrolledBy(u, k) => EnrolledBy(u, k)'
         /\ \A c : UnlockedBy(c, u, k) => UnlockedBy(c, u, k)'
<1>1. ASSUME NEW d \in DOMAIN challenges, NEW s, challenges[d].uses = <<s>>
      PROVE  d \in DOMAIN challenges' /\ challenges'[d].uses = <<s>>
  <2>1. challenges[d].uses # <<>>
    BY <1>1
  <2> QED BY <1>1, <2>1 DEF Grown
<1>2. EnrolledBy(u, k) => EnrolledBy(u, k)'
  BY <1>1 DEF EnrolledBy
<1>3. \A c : UnlockedBy(c, u, k) => UnlockedBy(c, u, k)'
  BY <1>1 DEF UnlockedBy
<1> QED BY <1>2, <1>3

LEMMA HandlerTyped ==
  ASSUME NEW h \in Handler
  PROVE  /\ h.op \in Ops /\ h.sub \in Users /\ h.at \in Points /\ h.key \in Keys \cup {None}
         /\ h.chal \in Nat /\ h.count \in Nat /\ h.by \in Keys \cup {None}
         /\ h.first \in BOOLEAN /\ h.held \in SUBSET Keys /\ h.over \in BOOLEAN
BY DEF Handler

LEMMA HolderShape ==
  ASSUME Constants, NEW h \in Handler, Shape(h), Holds(h)
  PROVE  h.op \in {"add", "send", "enrol"} /\ h.key \in Keys /\ h.chal \in DOMAIN challenges
<1>1. h.op \in Ops
  BY HandlerTyped
<1>2. h.op \in {"add", "send", "enrol"} /\ h.key \in Keys
  BY <1>1 DEF Shape, Holds, Ops
<1>3. h.key # None
  BY <1>2 DEF Constants
<1> QED BY <1>2, <1>3 DEF Shape

\* A handler whose challenge and key nobody touches keeps what it has.
LEMMA OthersKept ==
  ASSUME Constants, Typed, Grown, Rising, NEW h \in Handler, Handled(h),
         Holds(h) => challenges'[h.chal].uses = challenges[h.chal].uses,
         Enrolling(h) => credentials'[h.key] = None,
         h.over \/ (listBySub(h.sub) # {} => listBySub(h.sub)' # {})
  PROVE  Handled(h)'
<1>1. Shape(h)'
  <2>1. Shape(h)
    BY DEF Handled
  <2>2. h.chal \in DOMAIN challenges => h.chal \in DOMAIN challenges'
    BY DEF Grown
  <2> QED BY <2>1, <2>2 DEF Shape
<1>2. Unspent(h)'
  <2> SUFFICES ASSUME Holds(h) PROVE Unspent(h)'
    BY DEF Unspent, Holds
  <2>1. h.chal \in DOMAIN challenges
    BY HolderShape DEF Handled
  <2>2. Unspent(h)
    BY DEF Handled
  <2> QED BY <2>1, <2>2 DEF Unspent, Grown
<1>3. Verified(h)'
  <2>1. Verified(h)
    BY DEF Handled
  <2>2. EnrolledBy(h.sub, h.key) => EnrolledBy(h.sub, h.key)'
    BY GrownKeeps
  <2>3. UnlockedBy(h.chal, h.sub, h.by) => UnlockedBy(h.chal, h.sub, h.by)'
    BY GrownKeeps
  <2> QED BY <2>1, <2>2, <2>3 DEF Verified, Holds
<1>4. Metered(h)'
  <2>1. Metered(h)
    BY DEF Handled
  <2>2. ASSUME h.op \in {"add", "send"}, h.key # None
        PROVE  signed'[h.key] # None /\ h.count <= signed'[h.key]
    <3>1. signed[h.key] # None /\ h.count <= signed[h.key] /\ h.key \in Keys
      BY <2>1, <2>2, HandlerTyped DEF Metered
    <3>2. signed'[h.key] # None /\ signed[h.key] <= signed'[h.key]
      BY <3>1 DEF Rising
    <3>3. signed[h.key] \in Nat /\ signed'[h.key] \in Nat /\ h.count \in Nat
      BY <3>1, <3>2, HandlerTyped DEF Typed, Rising
    <3> QED BY <3>1, <3>2, <3>3
  <2>3. ASSUME Enrolling(h) PROVE signed'[h.key] # None /\ credentials'[h.key] = None
    <3>1. signed[h.key] # None /\ h.key \in Keys
      BY <2>1, <2>3 DEF Metered, Enrolling, Handled, Shape
    <3> QED BY <2>3, <3>1 DEF Rising
  <2> QED BY <2>2, <2>3 DEF Metered, Enrolling
<1>5. Watched(h)'
  BY DEF Handled, Watched
<1> QED BY <1>1, <1>2, <1>3, <1>4, <1>5 DEF Handled

LEMMA UsedKept ==
  ASSUME Grown, NEW c \in DOMAIN challenges, UsedAt(c), challenges'[c].uses = challenges[c].uses
  PROVE  UsedAt(c)'
<1>1. CASE challenges[c].uses = <<>>
  BY <1>1 DEF UsedAt
<1>2. ASSUME NEW u \in Use,
             challenges[c].uses = <<u>>, expected(u.op) = challenges[c].type,
             u.sub = challenges[c].sub, challenges[c].state = "gone", EnrolledBy(u.sub, u.key)
      PROVE  UsedAt(c)'
  <2>1. EnrolledBy(u.sub, u.key)'
    BY <1>2, GrownKeeps
  <2>2. /\ challenges'[c].type = challenges[c].type /\ challenges'[c].sub = challenges[c].sub
        /\ challenges'[c].state = "gone"
    BY <1>2 DEF Grown
  <2> QED BY <1>2, <2>1, <2>2 DEF UsedAt, expected
<1> QED BY <1>1, <1>2 DEF UsedAt

LEMMA IssuedKept ==
  ASSUME Grown, NEW c \in DOMAIN challenges, IssuedAt(c)
  PROVE  IssuedAt(c)'
<1>1. LET a == challenges[c] b == challenges'[c] IN
      b.sub = a.sub /\ b.type = a.type /\ b.by = a.by /\ b.proof = a.proof /\ b.held = a.held
  BY DEF Grown
<1>2. \A d, u, k : UnlockedBy(d, u, k) => UnlockedBy(d, u, k)'
  BY GrownKeeps
<1> QED BY <1>1, <1>2 DEF IssuedAt

\* A key that stays as it is, or that a recovery takes.
LEMMA KeyKept ==
  ASSUME Constants, Typed, Grown, Rising, NEW k \in Keys, KeyAt(k),
         credentials'[k] \in {credentials[k], None}
  PROVE  KeyAt(k)'
<1>1. signed'[k] = None => credentials'[k] = None
  BY DEF KeyAt, Rising
<1>2. CASE credentials'[k] = None
  BY <1>2 DEF KeyAt
<1>3. CASE credentials'[k] = credentials[k] /\ credentials[k] # None
  <2> DEFINE row == credentials[k]
  <2>1. row \in Row /\ row.counter \in Nat
    BY <1>3 DEF Typed, Row
  <2>2. signed[k] # None /\ row.counter <= signed[k]
    BY <1>3 DEF KeyAt
  <2>3. signed'[k] # None /\ signed[k] <= signed'[k]
    BY <2>2 DEF Rising
  <2>4. signed[k] \in Nat /\ signed'[k] \in Nat
    BY <2>2, <2>3 DEF Typed, Rising
  <2>5. row.counter <= signed'[k]
    BY <2>1, <2>2, <2>3, <2>4
  <2>6. /\ row.from \in DOMAIN challenges
        /\ challenges[row.from].type = "registration" /\ challenges[row.from].sub = row.sub
        /\ challenges[row.from].uses = <<[op |-> "enrol", sub |-> row.sub, key |-> k]>>
        /\ k \in Approved
    BY <1>3 DEF KeyAt
  <2>7. challenges[row.from].uses # <<>>
    BY <2>6
  <2>8. /\ row.from \in DOMAIN challenges'
        /\ challenges'[row.from].type = "registration" /\ challenges'[row.from].sub = row.sub
        /\ challenges'[row.from].uses = challenges[row.from].uses
    BY <2>6, <2>7 DEF Grown
  <2> QED BY <1>1, <1>3, <2>5, <2>6, <2>8 DEF KeyAt
<1> QED BY <1>2, <1>3

\* Alerts and quiet keys stay; who is telling of a key has told in the end.
LEMMA ToldKept ==
  ASSUME NEW u \in Users, Told(u),
         \A k \in listBySub(u) : k \in listBySub(u)' /\ credentials'[k].quiet = credentials[k].quiet,
         listBySub(u) = {} => listBySub(u)' = {},
         StillTold
  PROVE  Told(u)'
<1>0. alerts \subseteq alerts' /\ \A k \in Keys : Telling(k) => Telling(k)' \/ k \in alerts'
  BY DEF StillTold
<1> SUFFICES ASSUME listBySub(u)' # {}
             PROVE  \E k \in listBySub(u)' : k \in alerts' \/ credentials'[k].quiet \/ Telling(k)'
  BY DEF Told
<1>1. PICK k \in listBySub(u) : k \in alerts \/ credentials[k].quiet \/ Telling(k)
  BY DEF Told
<1>2. k \in Keys
  BY DEF listBySub
<1> QED BY <1>0, <1>1, <1>2

LEMMA HandlerKept ==
  ASSUME Constants, Typed, Handlers, Grown, Rising, NEW q \in Slots, req[q] # None, req'[q] = req[q],
         Holds(req[q]) => challenges'[req[q].chal].uses = challenges[req[q].chal].uses,
         Enrolling(req[q]) => credentials'[req[q].key] = None,
         listBySub(req[q].sub) # {} => listBySub(req[q].sub)' # {}
  PROVE  Handled(req[q])'
<1>1. PICK h : h = req[q]
  OBVIOUS
<1>2. h \in Handler /\ Handled(h)
  BY <1>1 DEF Typed, Handlers
<1>3. Handled(h)'
  <2>1. Holds(h) => challenges'[h.chal].uses = challenges[h.chal].uses
    BY <1>1
  <2>2. Enrolling(h) => credentials'[h.key] = None
    BY <1>1
  <2>3. PICK u : u = h.sub
    OBVIOUS
  <2>4. listBySub(h.sub) # {} => listBySub(h.sub)' # {}
    BY <1>1, <2>3
  <2> QED BY <1>2, <2>1, <2>2, <2>4, OthersKept
<1>4. req'[q] = h
  BY <1>1
<1> QED BY <1>3, <1>4

\* What a handler takes in hand, no other has.
Separate(r, x) ==
  \A q \in Slots \ {r} : req[q] # None /\ x # None =>
    /\ Holds(x) /\ Holds(req[q]) => x.chal # req[q].chal
    /\ Enrolling(x) /\ Enrolling(req[q]) => x.key # req[q].key

\* The step of one handler: every other keeps what it has, and whose key it is.
LEMMA OneSteps ==
  ASSUME Constants, IInv, Typed', Grown, Rising,
         NEW r \in Slots, NEW x \in Handler \cup {None}, req' = [req EXCEPT ![r] = x],
         x # None => Handled(x)',
         Separate(r, x),
         \A q \in Slots \ {r} : req[q] # None =>
           /\ Holds(req[q]) => challenges'[req[q].chal].uses = challenges[req[q].chal].uses
           /\ Enrolling(req[q]) => credentials'[req[q].key] = None,
         \A u \in Users : listBySub(u) # {} => listBySub(u)' # {},
         Rows'
  PROVE  IInv'
<1>0. Typed
  BY DEF IInv
<1>1. ASSUME NEW q \in Slots, req'[q] # None PROVE Handled(req[q])'
  <2>1. CASE q = r
    <3>1. req'[q] = x
      BY <1>0, <2>1 DEF Typed
    <3>2. Handled(x)'
      BY <1>1, <3>1
    <3> QED BY <3>1, <3>2
  <2>2. CASE q # r
    <3>1. req'[q] = req[q] /\ req[q] # None /\ req[q].sub \in Users
      BY <1>0, <1>1, <2>2 DEF Typed, Handler
    <3> QED BY <1>0, <2>2, <3>1, HandlerKept DEF IInv
  <2> QED BY <2>1, <2>2
<1>2. AllApart'
  <2> SUFFICES ASSUME NEW p \in Slots, NEW q \in Slots, p # q, req'[p] # None, req'[q] # None
               PROVE  Apart(p, q)'
    BY DEF AllApart
  <2>1. CASE p # r /\ q # r
    <3>1. req'[p] = req[p] /\ req'[q] = req[q]
      BY <1>0, <2>1 DEF Typed
    <3> QED BY <3>1 DEF IInv, AllApart, Apart, Holds, Enrolling
  <2>2. CASE p = r
    <3>1. req'[p] = x /\ req'[q] = req[q]
      BY <1>0, <2>2 DEF Typed
    <3> QED BY <2>2, <3>1 DEF Apart, Holds, Enrolling, Separate
  <2>3. CASE q = r
    <3>1. req'[q] = x /\ req'[p] = req[p]
      BY <1>0, <2>3 DEF Typed
    <3> QED BY <2>3, <3>1 DEF Apart, Holds, Enrolling, Separate
  <2> QED BY <2>1, <2>2, <2>3
<1>3. Handlers'
  BY <1>1 DEF Handlers
<1> QED BY <1>2, <1>3 DEF IInv

(* ---------------------------------------------- steps that leave the tables --- *)

LEMMA TablesStay ==
  ASSUME UNCHANGED <<credentials, challenges>>
  PROVE  Grown /\ \A u : listBySub(u)' = listBySub(u)
BY DEF Grown, listBySub

LEMMA StillRows ==
  ASSUME Constants, IInv, Rising, UNCHANGED <<credentials, challenges>>,
         StillTold
  PROVE  Rows'
<1>0. Typed /\ Rows /\ Grown
  BY TablesStay DEF IInv
<1>1. \A c \in DOMAIN challenges' : UsedAt(c)' /\ IssuedAt(c)'
  BY <1>0, UsedKept, IssuedKept DEF Rows
<1>2. \A k \in Keys : KeyAt(k)'
  BY <1>0, KeyKept DEF Rows
<1>3. ASSUME NEW u \in Users PROVE Told(u)'
  <2>1. Told(u)
    BY <1>0 DEF Rows
  <2>2. listBySub(u)' = listBySub(u)
    BY TablesStay
  <2> QED BY <2>1, <2>2, ToldKept
<1> QED BY <1>1, <1>2, <1>3 DEF Rows

\* Nobody but the handler that leaves "tell" stops telling.
LEMMA TellingStays ==
  ASSUME Typed, NEW r \in Slots, NEW x, req' = [req EXCEPT ![r] = x],
         req[r] = None \/ req[r].at # "tell"
  PROVE  \A k : Telling(k) => Telling(k)'
<1> SUFFICES ASSUME NEW k, Telling(k) PROVE Telling(k)'
  OBVIOUS
<1>1. PICK q \in Slots : req[q] # None /\ req[q].at = "tell" /\ req[q].key = k
  BY DEF Telling
<1>2. q # r
  BY <1>1
<1>3. req'[q] = req[q]
  BY <1>2 DEF Typed
<1> QED BY <1>1, <1>3 DEF Telling

LEMMA SignedStays ==
  ASSUME Typed, UNCHANGED signed
  PROVE  Rising
BY DEF Typed, Rising

\* A handler whose next place holds and enrols nothing new.
LEMMA Lighter ==
  ASSUME IInv, NEW r \in Slots, req[r] # None, NEW x,
         Holds(x) => Holds(req[r]) /\ x.chal = req[r].chal,
         Enrolling(x) => Enrolling(req[r]) /\ x.key = req[r].key
  PROVE  Separate(r, x)
BY DEF IInv, AllApart, Apart, Separate

LEMMA StepsStill ==
  ASSUME Constants, IInv, Typed', Rising, UNCHANGED <<credentials, challenges>>,
         NEW r \in Slots, NEW x \in Handler \cup {None}, req' = [req EXCEPT ![r] = x],
         x # None => Handled(x)',
         Separate(r, x),
         StillTold
  PROVE  IInv'
<1>1. Grown /\ \A u \in Users : listBySub(u) # {} => listBySub(u)' # {}
  BY TablesStay
<1>2. Rows'
  BY StillRows
<1>3. \A q \in Slots \ {r} : req[q] # None /\ Enrolling(req[q]) => credentials'[req[q].key] = None
  <2> SUFFICES ASSUME NEW q \in Slots, req[q] # None, Enrolling(req[q])
               PROVE  credentials[req[q].key] = None
    OBVIOUS
  <2> QED BY DEF IInv, Handlers, Handled, Metered
<1> QED BY <1>1, <1>2, <1>3, OneSteps

(* -------------------------------------------------------------- the requests --- *)

LEMMA Begins ==
  ASSUME Constants, IInv, Rising, NEW r \in Slots, NEW x \in Handler, starts(r, x),
         UNCHANGED <<credentials, challenges, alerts, faults>>,
         Handled(x)', ~Holds(x), Enrolling(x) => signed[x.key] = None
  PROVE  IInv'
<1>0. Typed
  BY DEF IInv
<1>1. req[r] = None /\ req' = [req EXCEPT ![r] = x] /\ requests' \in 0..MaxRequests
  BY <1>0 DEF starts, Typed, Constants
<1>2. Typed'
  BY <1>0, <1>1 DEF Typed, Rising
<1>3. \A k \in Keys : Telling(k) => Telling(k)'
  BY <1>0, <1>1, TellingStays
<1>4. Separate(r, x)
  BY DEF IInv, Handlers, Handled, Metered, Separate
<1>5. StillTold
  BY <1>3 DEF StillTold
<1>6. UNCHANGED <<credentials, challenges>>
  OBVIOUS
<1> QED BY <1>1, <1>2, <1>4, <1>5, <1>6, StepsStill

\* An authenticator's counter goes up, a new key pair's starts.
LEMMA SignsRises ==
  ASSUME Constants, Typed, NEW k \in Keys, NEW c, signs(k, c)
  PROVE  /\ Rising /\ c \in DOMAIN challenges /\ c \in Nat /\ signed[k] + 1 \in Nat
         /\ signed'[k] # None /\ signed'[k] = signed[k] + 1
<1>1. signed[k] \in 0..MaxSigned /\ signed[k] < MaxSigned /\ MaxSigned \in Nat /\ None \notin Nat
  BY DEF signs, Typed, Constants
<1>2. signed[k] + 1 \in 0..MaxSigned /\ signed[k] + 1 # None
  BY <1>1
<1>3. signed' = [signed EXCEPT ![k] = signed[k] + 1]
  BY DEF signs
<1>4. signed' \in [Keys -> (0..MaxSigned) \cup {None}]
  BY <1>2, <1>3 DEF Typed
<1>5. ASSUME NEW j \in Keys, signed[j] # None PROVE signed'[j] # None /\ signed[j] <= signed'[j]
  <2>1. CASE j = k
    BY <1>1, <1>2, <1>3, <2>1 DEF Typed
  <2>2. CASE j # k
    <3>1. signed'[j] = signed[j] /\ signed[j] \in Nat
      BY <1>3, <1>5, <2>2 DEF Typed
    <3> QED BY <1>5, <3>1
  <2> QED BY <2>1, <2>2
<1>6. c \in DOMAIN challenges /\ c \in Nat
  BY DEF signs, Typed
<1>7. signed'[k] = signed[k] + 1
  BY <1>3 DEF Typed
<1> QED BY <1>1, <1>2, <1>4, <1>5, <1>6, <1>7 DEF Rising

LEMMA MakesRises ==
  ASSUME Constants, Typed, NEW k \in Keys, NEW c, makes(k, c)
  PROVE  Rising /\ c \in DOMAIN challenges /\ c \in Nat /\ signed[k] = None /\ signed'[k] # None
<1>1. signed' = [signed EXCEPT ![k] = 0] /\ signed[k] = None /\ 0 # None /\ 0 \in 0..MaxSigned
  BY DEF makes, Constants
<1>2. signed' \in [Keys -> (0..MaxSigned) \cup {None}] /\ signed'[k] = 0
  BY <1>1 DEF Typed
<1>3. ASSUME NEW j \in Keys, signed[j] # None PROVE signed'[j] # None /\ signed[j] <= signed'[j]
  <2>1. signed'[j] = signed[j] /\ signed[j] \in Nat
    BY <1>1, <1>3 DEF Typed
  <2> QED BY <1>3, <2>1
<1>4. c \in DOMAIN challenges /\ c \in Nat
  BY DEF makes, Typed
<1> QED BY <1>1, <1>2, <1>3, <1>4 DEF Rising

LEMMA AddBegins ==
  ASSUME Constants, IInv, NEW r \in Slots, NEW u \in Users, postRegisterOptions(r, u)
  PROVE  IInv'
<1>0. Typed
  BY DEF IInv
<1>1. CASE starts(r, handler("add", u, "list", None, 0, 0)) /\ signed' = signed
  <2> DEFINE x == handler("add", u, "list", None, 0, 0)
  <2>1. x \in Handler /\ x.op = "add" /\ x.at = "list" /\ x.key = None /\ x.by = None
    BY DEF handler, Handler, Ops, Points
  <2> HIDE DEF x
  <2>2. Handled(x)' /\ ~Holds(x) /\ ~Enrolling(x)
    BY <2>1 DEF Handled, Shape, Unspent, Verified, Metered, Watched, Holds, Enrolling
  <2>3. starts(r, x)
    BY <1>1 DEF x
  <2> QED BY <1>0, <1>1, <2>1, <2>2, <2>3, SignedStays, Begins DEF postRegisterOptions
<1>2. ASSUME NEW k \in Keys, NEW c \in DOMAIN challenges, signs(k, c),
             starts(r, handler("add", u, "list", k, c, signed[k] + 1))
      PROVE  IInv'
  <2>1. /\ Rising /\ c \in Nat /\ signed[k] + 1 \in Nat /\ signed'[k] # None /\ signed'[k] = signed[k] + 1
    BY <1>0, <1>2, SignsRises
  <2>2. PICK n \in Nat : n = signed[k] + 1
    BY <2>1
  <2> DEFINE x == handler("add", u, "list", k, c, n)
  <2>3. /\ x \in Handler /\ x.op = "add" /\ x.at = "list" /\ x.key = k /\ x.by = None
        /\ x.chal = c /\ x.count = n
    BY <2>1 DEF handler, Handler, Ops, Points
  <2>4. starts(r, x)
    BY <1>2, <2>2
  <2> HIDE DEF x
  <2>5. ~Holds(x) /\ ~Enrolling(x)
    BY <2>3 DEF Holds, Enrolling
  <2>6. c \in DOMAIN challenges'
    BY DEF postRegisterOptions
  <2>7. Shape(x)' /\ Metered(x)'
    BY <2>1, <2>2, <2>3, <2>6 DEF Shape, Metered, Enrolling
  <2>8. Handled(x)'
    BY <2>3, <2>7 DEF Handled, Unspent, Verified, Watched, Holds
  <2> QED BY <2>1, <2>3, <2>4, <2>5, <2>8, Begins DEF postRegisterOptions
<1> QED BY <1>1, <1>2 DEF postRegisterOptions

LEMMA EnrolBegins ==
  ASSUME Constants, IInv, NEW r \in Slots, NEW u \in Users, postRegisterVerify(r, u)
  PROVE  IInv'
<1>0. Typed
  BY DEF IInv
<1>1. PICK k \in Keys, c \in DOMAIN challenges : makes(k, c) /\ starts(r, handler("enrol", u, "consume", k, c, 0))
  BY DEF postRegisterVerify
<1>2. Rising /\ c \in Nat /\ signed[k] = None /\ signed'[k] # None
  BY <1>0, <1>1, MakesRises
<1> DEFINE x == handler("enrol", u, "consume", k, c, 0)
<1>3. x \in Handler /\ x.op = "enrol" /\ x.at = "consume" /\ x.key = k /\ x.by = None /\ x.chal = c
  BY <1>2 DEF handler, Handler, Ops, Points
<1>4. starts(r, x)
  BY <1>1
<1> HIDE DEF x
<1>5. credentials'[k] = None
  BY <1>2 DEF postRegisterVerify, IInv, Rows, KeyAt
<1>6. c \in DOMAIN challenges'
  BY DEF postRegisterVerify
<1>7. Shape(x)' /\ Metered(x)' /\ ~Holds(x)
  BY <1>2, <1>3, <1>5, <1>6 DEF Shape, Metered, Enrolling, Holds
<1>8. Handled(x)'
  BY <1>3, <1>7, <1>2 DEF Handled, Unspent, Verified, Watched, Holds
<1> QED BY <1>2, <1>3, <1>4, <1>7, <1>8, Begins DEF postRegisterVerify

LEMMA SendBegins ==
  ASSUME Constants, IInv, NEW r \in Slots, NEW u \in Users, postAuthenticateVerify(r, u)
  PROVE  IInv'
<1>0. Typed
  BY DEF IInv
<1>1. PICK k \in Keys, c \in DOMAIN challenges :
        signs(k, c) /\ starts(r, handler("send", u, "consume", k, c, signed[k] + 1))
  BY DEF postAuthenticateVerify
<1>2. /\ Rising /\ c \in Nat /\ signed[k] + 1 \in Nat /\ signed'[k] # None /\ signed'[k] = signed[k] + 1
  BY <1>0, <1>1, SignsRises
<1>3. PICK n \in Nat : n = signed[k] + 1
  BY <1>2
<1> DEFINE x == handler("send", u, "consume", k, c, n)
<1>4. /\ x \in Handler /\ x.op = "send" /\ x.at = "consume" /\ x.key = k /\ x.by = None
      /\ x.chal = c /\ x.count = n
  BY <1>2 DEF handler, Handler, Ops, Points
<1>5. starts(r, x)
  BY <1>1, <1>3
<1> HIDE DEF x
<1>6. ~Holds(x) /\ ~Enrolling(x)
  BY <1>4 DEF Holds, Enrolling
<1>7. c \in DOMAIN challenges'
  BY DEF postAuthenticateVerify
<1>8. Shape(x)' /\ Metered(x)'
  BY <1>2, <1>3, <1>4, <1>7 DEF Shape, Metered, Enrolling
<1>9. Handled(x)'
  BY <1>4, <1>8 DEF Handled, Unspent, Verified, Watched, Holds
<1> QED BY <1>2, <1>4, <1>5, <1>6, <1>9, Begins DEF postAuthenticateVerify

\* A request that carries no key.
LEMMA BareBegins ==
  ASSUME Constants, IInv, NEW r \in Slots, NEW u \in Users,
         \/ postAuthenticateOptions(r, u)
         \/ \E admin \in Users : postRecover(r, admin, u)
  PROVE  IInv'
<1>0. Typed
  BY DEF IInv
<1>1. PICK op \in {"ask", "recover"} :
        /\ starts(r, handler(op, u, IF op = "ask" THEN "issue" ELSE "clear", None, 0, 0))
        /\ UNCHANGED <<credentials, challenges, signed, alerts, faults>>
  BY DEF postAuthenticateOptions, postRecover
<1>2. PICK at \in {"issue", "clear"} : at = IF op = "ask" THEN "issue" ELSE "clear"
  OBVIOUS
<1> DEFINE x == handler(op, u, at, None, 0, 0)
<1>3. x \in Handler /\ x.op = op /\ x.at = at /\ x.key = None /\ x.by = None
  BY DEF handler, Handler, Ops, Points
<1>4. starts(r, x)
  BY <1>1, <1>2
<1> HIDE DEF x
<1>5. Handled(x)' /\ ~Holds(x) /\ ~Enrolling(x)
  BY <1>2, <1>3 DEF Handled, Shape, Unspent, Verified, Metered, Watched, Holds, Enrolling
<1> QED BY <1>0, <1>1, <1>3, <1>4, <1>5, SignedStays, Begins

(* -------------------------------------------------------------- the answers --- *)

\* A handler that ends, whatever it did, leaves the others theirs.
LEMMA NoneHolds == ASSUME NEW r PROVE Separate(r, None)
BY DEF Separate

LEMMA ListedKeeps ==
  ASSUME Constants, IInv, NEW r \in Slots, listed(r)
  PROVE  IInv'
<1>0. Typed /\ req[r] # None
  BY DEF IInv, listed, call
<1>1. PICK h : h = req[r]
  OBVIOUS
<1>2. h \in Handler /\ Handled(h) /\ h.at = "list"
  BY <1>0, <1>1 DEF IInv, Handlers, Typed, listed, call
<1>3. h.op \in {"add", "enrol"}
  BY <1>2, HandlerTyped DEF Handled, Shape, Ops
<1> DEFINE mine == listBySub(h.sub)
           point == CASE h.op = "enrol" -> "insert"
                      [] h.op = "add" /\ mine # {} /\ h.key # None -> "consume"
                      [] OTHER -> "issue"
<1>4. PICK x : x = [h EXCEPT !.held = mine, !.first = mine = {}, !.at = point]
  OBVIOUS
<1>5. req' = [req EXCEPT ![r] = x]
  BY <1>1, <1>4 DEF listed
<1>6. mine \subseteq Keys
  BY DEF listBySub
<1>7. point \in {"insert", "consume", "issue"} /\ (point = "insert" <=> h.op = "enrol")
  BY <1>3
<1>8. /\ x \in Handler /\ x.op = h.op /\ x.sub = h.sub /\ x.key = h.key /\ x.chal = h.chal
      /\ x.by = h.by /\ x.count = h.count /\ x.over = h.over /\ x.at = point /\ x.first = (mine = {})
  BY <1>2, <1>4, <1>6, <1>7 DEF Handler, Points
<1>9. point = "consume" => h.key \in Keys
  BY <1>2, <1>3, HandlerTyped
<1>10. (x.first = FALSE) => listBySub(x.sub) # {}
  BY <1>8
<1> HIDE DEF mine, point
<1>11. Holds(x) => Holds(h) /\ x.chal = h.chal
  BY <1>2, <1>3, <1>7, <1>8 DEF Holds
<1>12. Enrolling(x) => Enrolling(h) /\ x.key = h.key
  BY <1>2, <1>7, <1>8 DEF Enrolling
<1>13. Separate(r, x)
  <2>1. Holds(x) => Holds(req[r]) /\ x.chal = req[r].chal
    BY <1>1, <1>11
  <2>2. Enrolling(x) => Enrolling(req[r]) /\ x.key = req[r].key
    BY <1>1, <1>12
  <2> QED BY <1>0, <2>1, <2>2, Lighter
<1>14. Handled(x)
  <2>1. Shape(x)
    BY <1>2, <1>3, <1>7, <1>8, <1>9 DEF Handled, Shape
  <2>2. Unspent(x)
    BY <1>2, <1>8, <1>11 DEF Handled, Unspent
  <2>3. Verified(x)
    BY <1>2, <1>7, <1>8, <1>11 DEF Handled, Verified
  <2>4. Metered(x)
    BY <1>2, <1>8, <1>12 DEF Handled, Metered
  <2>5. Watched(x)
    BY <1>10 DEF Watched
  <2> QED BY <2>1, <2>2, <2>3, <2>4, <2>5 DEF Handled
<1>15. UNCHANGED <<credentials, challenges, signed, alerts, requests, faults>>
  BY DEF listed, call
<1>16. Handled(x)'
  BY <1>14, <1>15 DEF Handled, Shape, Unspent, Verified, Metered, Watched, Holds, Enrolling,
                      EnrolledBy, UnlockedBy, listBySub, expected
<1>17. Typed'
  BY <1>0, <1>5, <1>8, <1>15 DEF Typed
<1>18. StillTold
  <2>1. req[r].at # "tell"
    BY <1>1, <1>2
  <2>2. \A k : Telling(k) => Telling(k)'
    BY <1>0, <1>5, <2>1, TellingStays
  <2> QED BY <1>15, <2>2 DEF StillTold
<1>19. Rising
  BY <1>0, <1>15, SignedStays
<1>20. UNCHANGED <<credentials, challenges>>
  BY <1>15
<1> QED BY <1>5, <1>8, <1>13, <1>16, <1>17, <1>18, <1>19, <1>20, StepsStill

LEMMA LookedUpKeeps ==
  ASSUME Constants, IInv, NEW r \in Slots, lookedUp(r)
  PROVE  IInv'
<1>0. /\ Typed /\ req[r] # None /\ req[r].at = "lookup"
      /\ UNCHANGED <<credentials, challenges, signed, alerts, requests, faults>>
  BY DEF IInv, lookedUp, call
<1>1. Rising /\ UNCHANGED <<credentials, challenges>>
  BY <1>0, SignedStays
<1>2. ASSUME NEW x, req' = [req EXCEPT ![r] = x] PROVE StillTold
  <2>1. \A k : Telling(k) => Telling(k)'
    BY <1>0, <1>2, TellingStays
  <2> QED BY <1>0, <2>1 DEF StillTold
<1>3. CASE ends(r)
  <2>1. req' = [req EXCEPT ![r] = None]
    BY <1>3 DEF ends
  <2>2. Typed'
    BY <1>0, <2>1 DEF Typed
  <2> QED BY <1>1, <1>2, <2>1, <2>2, NoneHolds, StepsStill
<1>4. CASE owned(req[r]) /\ goes(r, "count")
  <2>1. PICK h : h = req[r]
    OBVIOUS
  <2>2. h \in Handler /\ Handled(h) /\ h.at = "lookup"
    BY <1>0, <2>1 DEF IInv, Handlers, Typed
  <2>3. PICK x : x = [h EXCEPT !.at = "count"]
    OBVIOUS
  <2>4. req' = [req EXCEPT ![r] = x]
    BY <1>4, <2>1, <2>3 DEF goes
  <2>5. /\ x \in Handler /\ x.op = h.op /\ x.sub = h.sub /\ x.key = h.key /\ x.chal = h.chal
        /\ x.by = h.by /\ x.count = h.count /\ x.at = "count"
    BY <2>2, <2>3 DEF Handler, Points
  <2>6. Holds(h) /\ h.op \in {"add", "send"} /\ h.key \in Keys
    BY <2>2, HandlerTyped DEF Holds, Handled, Shape, Ops
  <2>7. credentials[h.key] # None /\ credentials[h.key].sub = h.sub
    BY <1>4, <2>1 DEF owned
  <2>8. EnrolledBy(h.sub, h.key)
    BY <2>6, <2>7 DEF IInv, Rows, KeyAt, EnrolledBy
  <2>9. Separate(r, x)
    <3>1. Holds(req[r]) /\ x.chal = req[r].chal /\ ~Enrolling(x)
      BY <2>1, <2>5, <2>6 DEF Enrolling
    <3> QED BY <1>0, <3>1, Lighter
  <2>10. Handled(x)
    BY <2>2, <2>5, <2>6, <2>8 DEF Handled, Shape, Unspent, Verified, Metered, Watched, Holds, Enrolling
  <2>11. Handled(x)'
    BY <1>0, <2>10 DEF Handled, Shape, Unspent, Verified, Metered, Watched, Holds, Enrolling,
                       EnrolledBy, UnlockedBy, listBySub, expected
  <2>12. Typed'
    BY <1>0, <2>4, <2>5 DEF Typed
  <2> QED BY <1>1, <1>2, <2>4, <2>5, <2>9, <2>11, <2>12, StepsStill
<1> QED BY <1>3, <1>4 DEF lookedUp

LEMMA AlertKeeps ==
  ASSUME Constants, IInv, NEW r \in Slots, dispatchSecurityAlert(r)
  PROVE  IInv'
<1>0. /\ Typed /\ req[r] # None /\ req[r].at = "tell"
      /\ UNCHANGED <<credentials, challenges, signed, requests, faults>>
      /\ req' = [req EXCEPT ![r] = None]
      /\ alerts' = alerts \cup {IF req[r].op = "recover" THEN req[r].sub ELSE req[r].key}
  BY DEF IInv, dispatchSecurityAlert, ends
<1>1. PICK h : h = req[r]
  OBVIOUS
<1>2. h \in Handler /\ Handled(h) /\ h.at = "tell"
  BY <1>0, <1>1 DEF IInv, Handlers, Typed
<1>3. h.sub \in Users /\ ((h.op = "enrol" /\ h.key \in Keys) \/ (h.op = "recover" /\ h.key = None))
  <2>1. h.op \in Ops /\ h.sub \in Users
    BY <1>2, HandlerTyped
  <2>2. Shape(h)
    BY <1>2 DEF Handled
  <2>3. h.op = "enrol" \/ h.op = "recover"
    BY <1>2, <2>1, <2>2 DEF Shape, Ops
  <2> QED BY <1>2, <2>1, <2>2, <2>3 DEF Shape
<1>4. Typed'
  <2>1. alerts' \subseteq Keys \cup Users
    BY <1>0, <1>1, <1>3 DEF Typed
  <2> QED BY <1>0, <2>1 DEF Typed
<1>5. StillTold
  <2>1. ASSUME NEW k \in Keys, NEW q \in Slots, req[q] # None, req[q].at = "tell", req[q].key = k
        PROVE  Telling(k)' \/ k \in alerts'
    <3>1. CASE q = r
      <4>1. h.op = "enrol" /\ h.key = k
        BY <1>1, <1>3, <2>1, <3>1 DEF Constants
      <4> QED BY <1>0, <1>1, <4>1
    <3>2. CASE q # r
      <4>1. req'[q] = req[q]
        BY <1>0, <3>2 DEF Typed
      <4> QED BY <2>1, <4>1 DEF Telling
    <3> QED BY <3>1, <3>2
  <2> QED BY <1>0, <2>1 DEF StillTold, Telling
<1>6. Rising /\ UNCHANGED <<credentials, challenges>>
  BY <1>0, SignedStays
<1> QED BY <1>0, <1>4, <1>5, <1>6, NoneHolds, StepsStill

(* --------------------------------------------- steps that write a challenge --- *)

LEMMA ChallengeTyped ==
  ASSUME Typed, NEW c \in DOMAIN challenges
  PROVE  /\ challenges[c] \in Challenge /\ c \in Nat
         /\ challenges[c].state \in {"live", "expired", "gone"} /\ challenges[c].uses \in Seq(Use)
<1>1. challenges[c] \in Challenge /\ c \in Nat
  BY DEF Typed
<1> QED BY <1>1 DEF Challenge

\* Only states change, towards "gone".
Ageing ==
  /\ challenges' \in Seq(Challenge) /\ DOMAIN challenges' = DOMAIN challenges
  /\ \A c \in DOMAIN challenges :
       LET a == challenges[c] b == challenges'[c] IN
       /\ b.sub = a.sub /\ b.type = a.type /\ b.by = a.by /\ b.proof = a.proof /\ b.held = a.held
       /\ b.uses = a.uses /\ (a.state = "gone" => b.state = "gone")

LEMMA AgeingGrows ==
  ASSUME Ageing
  PROVE  Grown
BY DEF Ageing, Grown

LEMMA AgeingRows ==
  ASSUME Constants, IInv, Ageing, Rising, UNCHANGED credentials, StillTold
  PROVE  Rows'
<1>0. Typed /\ Rows /\ Grown
  BY AgeingGrows DEF IInv
<1>1. \A c \in DOMAIN challenges' : UsedAt(c)' /\ IssuedAt(c)'
  BY <1>0, UsedKept, IssuedKept DEF Rows, Ageing
<1>2. \A k \in Keys : KeyAt(k)'
  BY <1>0, KeyKept DEF Rows
<1>3. ASSUME NEW u \in Users PROVE Told(u)'
  <2>1. Told(u)
    BY <1>0 DEF Rows
  <2>2. listBySub(u)' = listBySub(u)
    BY DEF listBySub
  <2> QED BY <2>1, <2>2, ToldKept
<1> QED BY <1>1, <1>2, <1>3 DEF Rows

LEMMA AgeingSteps ==
  ASSUME Constants, IInv, Typed', Ageing, UNCHANGED <<credentials, signed>>,
         NEW r \in Slots, NEW x \in Handler \cup {None}, req' = [req EXCEPT ![r] = x],
         x # None => Handled(x)', Separate(r, x), StillTold
  PROVE  IInv'
<1>0. Typed /\ Handlers /\ Grown /\ Rising
  BY AgeingGrows, SignedStays DEF IInv
<1>1. Rows'
  BY <1>0, AgeingRows
<1>2. \A u \in Users : listBySub(u) # {} => listBySub(u)' # {}
  BY DEF listBySub
<1>3. ASSUME NEW q \in Slots, req[q] # None
      PROVE  /\ Holds(req[q]) => challenges'[req[q].chal].uses = challenges[req[q].chal].uses
             /\ Enrolling(req[q]) => credentials'[req[q].key] = None
  <2>1. PICK h : h = req[q]
    OBVIOUS
  <2>2. h \in Handler /\ Handled(h)
    BY <1>0, <1>3, <2>1 DEF Typed, Handlers
  <2>3. Holds(h) => h.chal \in DOMAIN challenges
    BY <2>2, HolderShape DEF Handled
  <2>4. Enrolling(h) => credentials[h.key] = None
    BY <2>2 DEF Handled, Metered
  <2> QED BY <2>1, <2>3, <2>4 DEF Ageing
<1> QED BY <1>0, <1>1, <1>2, <1>3, OneSteps

LEMMA ConsumeAges ==
  ASSUME Typed, NEW h \in Handler, h.chal \in DOMAIN challenges, consumeChallenge(h)
  PROVE  /\ Ageing /\ UNCHANGED credentials
         /\ challenges[h.chal].state = "live" => challenges'[h.chal].state = "gone"
<1> DEFINE c == h.chal
           gone == [challenges[c] EXCEPT !.state = "gone"]
<1>1. CASE challenges[c].state = "live"
  <2>1. challenges' = [challenges EXCEPT ![c] = gone]
    BY <1>1 DEF consumeChallenge
  <2>2. gone \in Challenge
    BY ChallengeTyped DEF Challenge
  <2>3. challenges' \in Seq(Challenge) /\ DOMAIN challenges' = DOMAIN challenges
    BY <2>1, <2>2 DEF Typed
  <2>4. ASSUME NEW d \in DOMAIN challenges
        PROVE  challenges'[d] = IF d = c THEN gone ELSE challenges[d]
    BY <2>1 DEF Typed
  <2>5. /\ gone.sub = challenges[c].sub /\ gone.type = challenges[c].type /\ gone.by = challenges[c].by
        /\ gone.proof = challenges[c].proof /\ gone.held = challenges[c].held
        /\ gone.uses = challenges[c].uses /\ gone.state = "gone"
    BY ChallengeTyped DEF Challenge
  <2> HIDE DEF gone
  <2> QED BY <2>3, <2>4, <2>5 DEF Ageing, consumeChallenge
<1>2. CASE challenges[c].state # "live"
  BY <1>2 DEF consumeChallenge, Ageing, Typed
<1> QED BY <1>1, <1>2

LEMMA ConsumedKeeps ==
  ASSUME Constants, IInv, NEW r \in Slots, consumed(r)
  PROVE  IInv'
<1>0. /\ Typed /\ req[r] # None /\ req[r].at = "consume" /\ consumeChallenge(req[r])
      /\ UNCHANGED <<signed, alerts, requests, faults>>
  BY DEF IInv, consumed, call
<1>1. PICK h : h = req[r]
  OBVIOUS
<1>2. h \in Handler /\ Handled(h) /\ h.at = "consume" /\ consumeChallenge(h)
  BY <1>0, <1>1 DEF IInv, Handlers, Typed
<1>3. h.key \in Keys /\ h.key # None /\ h.chal \in DOMAIN challenges /\ h.op \in {"add", "send", "enrol"}
  BY <1>2, HandlerTyped DEF Handled, Shape, Ops, Constants
<1>4. /\ Ageing /\ UNCHANGED credentials
      /\ challenges[h.chal].state = "live" => challenges'[h.chal].state = "gone"
  BY <1>0, <1>2, <1>3, ConsumeAges
<1>5. ASSUME NEW x \in Handler \cup {None}, req' = [req EXCEPT ![r] = x] PROVE Typed' /\ StillTold
  <2>1. \A k : Telling(k) => Telling(k)'
    BY <1>0, <1>5, TellingStays
  <2>2. StillTold
    BY <1>0, <2>1 DEF StillTold
  <2>3. Typed'
    BY <1>0, <1>4, <1>5 DEF Typed, Ageing
  <2> QED BY <2>2, <2>3
<1>6. CASE ends(r)
  <2>1. req' = [req EXCEPT ![r] = None]
    BY <1>6 DEF ends
  <2> QED BY <1>0, <1>4, <1>5, <2>1, NoneHolds, AgeingSteps
<1>7. ASSUME NEW at \in {"lookup", "list"}, consumable(h), at = "lookup" <=> h.op # "enrol",
             h.op = "enrol" => h.key \in Approved, goes(r, at)
      PROVE  IInv'
  <2>1. PICK x : x = [h EXCEPT !.at = at]
    OBVIOUS
  <2>2. req' = [req EXCEPT ![r] = x]
    BY <1>1, <1>7, <2>1 DEF goes
  <2>3. /\ x \in Handler /\ x.op = h.op /\ x.sub = h.sub /\ x.key = h.key /\ x.chal = h.chal
        /\ x.by = h.by /\ x.count = h.count /\ x.at = at /\ x.first = h.first /\ x.over = h.over
    BY <1>2, <2>1 DEF Handler, Points
  <2>4. /\ challenges[h.chal].state = "live" /\ challenges[h.chal].type = expected(h.op)
        /\ challenges[h.chal].sub = h.sub
    BY <1>7 DEF consumable
  <2>5. challenges[h.chal].uses = <<>>
    BY <1>3, <2>4 DEF IInv, Rows, UsedAt
  <2>6. /\ challenges'[h.chal].state = "gone" /\ challenges'[h.chal].type = expected(h.op)
        /\ challenges'[h.chal].sub = h.sub /\ challenges'[h.chal].uses = <<>>
        /\ DOMAIN challenges' = DOMAIN challenges
    BY <1>3, <1>4, <2>4, <2>5 DEF Ageing
  <2>7. Shape(x)' /\ Unspent(x)'
    BY <1>2, <1>3, <1>7, <2>3, <2>6 DEF Handled, Shape, Unspent
  <2>8. Verified(x)'
    BY <1>2, <1>3, <1>7, <2>3 DEF Handled, Shape, Verified
  <2>9. Metered(x)' /\ Watched(x)'
    BY <1>0, <1>2, <1>4, <1>7, <2>3 DEF Handled, Metered, Watched, Enrolling
  <2>10. Separate(r, x)
    <3> SUFFICES ASSUME NEW q \in Slots \ {r}, req[q] # None
                 PROVE  /\ Holds(x) /\ Holds(req[q]) => x.chal # req[q].chal
                        /\ Enrolling(x) /\ Enrolling(req[q]) => x.key # req[q].key
      BY DEF Separate
    <3>1. Holds(req[q]) => challenges[req[q].chal].state = "gone"
      BY DEF IInv, Handlers, Handled, Unspent
    <3>2. Enrolling(x) => Enrolling(req[r]) /\ x.key = req[r].key
      BY <1>0, <1>1, <2>3 DEF Enrolling
    <3>3. Enrolling(req[r]) /\ Enrolling(req[q]) => req[r].key # req[q].key
      BY <1>0 DEF IInv, AllApart, Apart
    <3> QED BY <2>3, <2>4, <3>1, <3>2, <3>3
  <2>11. Handled(x)'
    BY <2>7, <2>8, <2>9 DEF Handled
  <2> QED BY <1>0, <1>4, <1>5, <2>2, <2>3, <2>10, <2>11, AgeingSteps
<1> QED BY <1>1, <1>6, <1>7 DEF consumed

(* ------------------------------------------------------ a challenge is issued --- *)

LEMMA PutKeeps ==
  ASSUME Constants, IInv, NEW r \in Slots, put(r)
  PROVE  IInv'
<1>0. /\ Typed /\ Rows /\ req[r] # None /\ req[r].at = "issue" /\ putChallenge(req[r])
      /\ UNCHANGED <<signed, alerts, requests, faults>> /\ req' = [req EXCEPT ![r] = None]
  BY DEF IInv, put, call, ends
<1>1. PICK h : h = req[r]
  OBVIOUS
<1>2. h \in Handler /\ Handled(h) /\ h.at = "issue" /\ putChallenge(h)
  BY <1>0, <1>1 DEF IInv, Handlers, Typed
<1>3. h.op \in {"add", "ask"} /\ (h.op = "ask" => h.by = None)
  <2>1. h.op \in Ops /\ Shape(h)
    BY <1>2, HandlerTyped DEF Handled
  <2> QED BY <1>2, <2>1 DEF Shape, Ops
<1>4. PICK type \in Types : type = issued(h)
  BY <1>3 DEF issued, Types
<1>5. PICK new : new = [sub |-> h.sub, type |-> type, state |-> "live", by |-> h.by, proof |-> h.chal,
                        held |-> h.held, uses |-> <<>>]
  OBVIOUS
<1>6. new \in Challenge
  <2>1. h.sub \in Users /\ h.by \in Keys \cup {None} /\ h.chal \in Nat /\ h.held \in SUBSET Keys
    BY <1>2, HandlerTyped
  <2>2. <<>> \in Seq(Use)
    OBVIOUS
  <2> QED BY <1>5, <2>1, <2>2 DEF Challenge
<1>7. challenges' = Append(challenges, new) /\ UNCHANGED credentials
  BY <1>2, <1>4, <1>5 DEF putChallenge
<1>n. PICK n \in Nat : n = Len(challenges) + 1
  BY <1>0 DEF Typed
<1>8. /\ challenges' \in Seq(Challenge) /\ DOMAIN challenges' = DOMAIN challenges \cup {n}
      /\ challenges'[n] = new
      /\ \A c \in DOMAIN challenges : challenges'[c] = challenges[c]
  <2>1. challenges \in Seq(Challenge)
    BY <1>0 DEF Typed
  <2> QED BY <1>6, <1>7, <1>n, <2>1
<1>9. Grown /\ Rising
  BY <1>0, <1>8, SignedStays DEF Grown
<1>10. Typed'
  BY <1>0, <1>7, <1>8 DEF Typed
<1>11. StillTold
  <2>1. \A k : Telling(k) => Telling(k)'
    BY <1>0, TellingStays
  <2> QED BY <1>0, <2>1 DEF StillTold
<1>12. IssuedAt(n)' /\ UsedAt(n)'
  <2>1. UsedAt(n)'
    BY <1>5, <1>8 DEF UsedAt
  <2>2. type = "registration" => h.op = "add" /\ (h.by = None => h.held = {})
    BY <1>3, <1>4 DEF issued
  <2>3. h.by # None => UnlockedBy(h.chal, h.sub, h.by)'
    BY <1>2, <1>9, GrownKeeps DEF Handled, Verified
  <2>4. IssuedAt(n)'
    BY <1>5, <1>8, <2>2, <2>3 DEF IssuedAt
  <2> QED BY <2>1, <2>4
<1>13. Rows'
  <2>1. ASSUME NEW c \in DOMAIN challenges' PROVE UsedAt(c)' /\ IssuedAt(c)'
    <3>1. CASE c \in DOMAIN challenges
      BY <1>0, <1>8, <1>9, <3>1, UsedKept, IssuedKept DEF Rows
    <3>2. CASE c = n
      BY <1>12, <3>2
    <3> QED BY <1>8, <3>1, <3>2
  <2>2. \A k \in Keys : KeyAt(k)'
    BY <1>0, <1>7, <1>9, KeyKept DEF Rows
  <2>3. ASSUME NEW u \in Users PROVE Told(u)'
    <3>1. Told(u)
      BY <1>0 DEF Rows
    <3>2. listBySub(u)' = listBySub(u)
      BY <1>7 DEF listBySub
    <3> QED BY <1>7, <1>11, <3>1, <3>2, ToldKept
  <2> QED BY <2>1, <2>2, <2>3 DEF Rows
<1>14. ASSUME NEW q \in Slots \ {r}, req[q] # None
       PROVE  /\ Holds(req[q]) => challenges'[req[q].chal].uses = challenges[req[q].chal].uses
              /\ Enrolling(req[q]) => credentials'[req[q].key] = None
  <2>1. PICK g : g = req[q]
    OBVIOUS
  <2>2. g \in Handler /\ Handled(g)
    BY <1>0, <1>14, <2>1 DEF Typed, IInv, Handlers
  <2>3. Holds(g) => g.chal \in DOMAIN challenges
    BY <2>2, HolderShape DEF Handled
  <2>4. Enrolling(g) => credentials[g.key] = None
    BY <2>2 DEF Handled, Metered
  <2> QED BY <1>7, <1>8, <2>1, <2>3, <2>4
<1>15. \A u \in Users : listBySub(u) # {} => listBySub(u)' # {}
  BY <1>7 DEF listBySub
<1> QED BY <1>0, <1>9, <1>10, <1>13, <1>14, <1>15, NoneHolds, OneSteps

(* -------------------------------------------------------- a challenge is used --- *)

UseOf(h) == [op |-> h.op, sub |-> h.sub, key |-> h.key]

\* The challenge a handler holds gets its one use.
Spends(h) ==
  /\ h.chal \in DOMAIN challenges
  /\ challenges' \in Seq(Challenge) /\ DOMAIN challenges' = DOMAIN challenges
  /\ \A d \in DOMAIN challenges \ {h.chal} : challenges'[d] = challenges[d]
  /\ LET a == challenges[h.chal] b == challenges'[h.chal] IN
     /\ b.sub = a.sub /\ b.type = a.type /\ b.by = a.by /\ b.proof = a.proof /\ b.held = a.held
     /\ b.state = a.state /\ a.uses = <<>> /\ b.uses = <<UseOf(h)>>
     /\ a.state = "gone" /\ a.type = expected(h.op) /\ a.sub = h.sub

LEMMA UsedSpends ==
  ASSUME Constants, Typed, NEW h \in Handler, Handled(h), Holds(h), challenges' = used(h)
  PROVE  Spends(h) /\ UseOf(h) \in Use
<1>1. h.chal \in DOMAIN challenges /\ h.key \in Keys /\ h.op \in Ops /\ h.sub \in Users
  BY HolderShape, HandlerTyped DEF Handled
<1>2. UseOf(h) \in Use
  BY <1>1 DEF UseOf, Use
<1>3. /\ challenges[h.chal].state = "gone" /\ challenges[h.chal].type = expected(h.op)
      /\ challenges[h.chal].sub = h.sub /\ challenges[h.chal].uses = <<>>
  BY DEF Handled, Unspent
<1> DEFINE c == h.chal
           spent == [challenges[c] EXCEPT !.uses = <<UseOf(h)>>]
<1>4. challenges[c] \in Challenge
  BY <1>1, ChallengeTyped
<1>5. challenges' = [challenges EXCEPT ![c] = [challenges[c] EXCEPT !.uses = Append(challenges[c].uses, UseOf(h))]]
  BY DEF used, UseOf
<1>6. Append(challenges[c].uses, UseOf(h)) = <<UseOf(h)>> /\ <<UseOf(h)>> \in Seq(Use)
  BY <1>2, <1>3
<1>7. challenges' = [challenges EXCEPT ![c] = spent]
  BY <1>5, <1>6
<1>8. /\ spent \in Challenge /\ spent.uses = <<UseOf(h)>> /\ spent.sub = challenges[c].sub
      /\ spent.type = challenges[c].type /\ spent.by = challenges[c].by /\ spent.held = challenges[c].held
      /\ spent.proof = challenges[c].proof /\ spent.state = challenges[c].state
  <2>1. PICK ss \in Seq(Use) : ss = <<UseOf(h)>>
    BY <1>6
  <2> QED BY <1>4, <2>1 DEF Challenge
<1> HIDE DEF spent
<1>9. challenges' \in Seq(Challenge) /\ DOMAIN challenges' = DOMAIN challenges
  <2>1. spent \in Challenge /\ challenges \in Seq(Challenge)
    BY <1>8 DEF Typed
  <2>2. c \in 1 .. Len(challenges)
    BY <1>1, <2>1
  <2>3. /\ [challenges EXCEPT ![c] = spent] \in Seq(Challenge)
        /\ Len([challenges EXCEPT ![c] = spent]) = Len(challenges)
    BY <2>1, <2>2, ExceptSeq
  <2> QED BY <1>7, <2>1, <2>3
<1>10. challenges'[c] = spent /\ \A d \in DOMAIN challenges \ {c} : challenges'[d] = challenges[d]
  BY <1>1, <1>7 DEF Typed
<1> QED BY <1>1, <1>2, <1>3, <1>8, <1>9, <1>10 DEF Spends

LEMMA SpendsGrows ==
  ASSUME NEW h, Spends(h)
  PROVE  Grown
<1> SUFFICES ASSUME NEW c \in DOMAIN challenges
             PROVE  /\ c \in DOMAIN challenges'
                    /\ LET a == challenges[c] b == challenges'[c] IN
                       /\ b.sub = a.sub /\ b.type = a.type /\ b.by = a.by /\ b.proof = a.proof /\ b.held = a.held
                       /\ a.state = "gone" => b.state = "gone"
                       /\ a.uses # <<>> => b.uses = a.uses
  BY DEF Grown
<1>1. CASE c = h.chal
  BY <1>1 DEF Spends
<1>2. CASE c # h.chal
  BY <1>2 DEF Spends
<1> QED BY <1>1, <1>2

LEMMA SpendsRows ==
  ASSUME Constants, IInv, NEW h \in Handler, Spends(h), UseOf(h) \in Use, EnrolledBy(h.sub, h.key)'
  PROVE  \A c \in DOMAIN challenges' : UsedAt(c)' /\ IssuedAt(c)'
<1>0. Typed /\ Rows /\ Grown
  BY SpendsGrows DEF IInv
<1> SUFFICES ASSUME NEW c \in DOMAIN challenges PROVE UsedAt(c)' /\ IssuedAt(c)'
  BY DEF Spends
<1>1. IssuedAt(c)'
  BY <1>0, IssuedKept DEF Rows
<1>2. CASE c # h.chal
  BY <1>0, <1>1, <1>2, UsedKept DEF Rows, Spends
<1>3. CASE c = h.chal
  <2>1. /\ challenges'[c].uses = <<UseOf(h)>> /\ challenges'[c].type = expected(h.op)
        /\ challenges'[c].sub = h.sub /\ challenges'[c].state = "gone"
    BY <1>3 DEF Spends
  <2>2. UseOf(h).op = h.op /\ UseOf(h).sub = h.sub /\ UseOf(h).key = h.key
    BY DEF UseOf
  <2>3. PICK u \in Use : u = UseOf(h) /\ u.op = h.op /\ u.sub = h.sub /\ u.key = h.key
    BY <2>2
  <2>4. EnrolledBy(u.sub, u.key)'
    BY <2>3
  <2>5. UsedAt(c)'
    BY <2>1, <2>3, <2>4 DEF UsedAt, expected
  <2> QED BY <1>1, <2>5
<1> QED BY <1>2, <1>3

\* What the others hold is not what this handler spends.
LEMMA SpendsLeaves ==
  ASSUME Constants, IInv, NEW r \in Slots, req[r] # None, Holds(req[r]), Spends(req[r]),
         NEW q \in Slots \ {r}, req[q] # None
  PROVE  /\ Holds(req[q]) => challenges'[req[q].chal].uses = challenges[req[q].chal].uses
         /\ Enrolling(req[r]) /\ Enrolling(req[q]) => req[r].key # req[q].key
         /\ Enrolling(req[q]) => req[q].key \in Keys /\ credentials[req[q].key] = None
<1>1. Apart(r, q)
  BY DEF IInv, AllApart
<1>2. PICK g : g = req[q]
  OBVIOUS
<1>3. g \in Handler /\ Handled(g)
  BY <1>2 DEF Typed, IInv, Handlers
<1>4. Holds(g) => g.chal \in DOMAIN challenges
  BY <1>3, HolderShape DEF Handled
<1>5. Enrolling(g) => g.key \in Keys /\ credentials[g.key] = None
  BY <1>3 DEF Handled, Metered, Enrolling, Shape
<1>6. Holds(g) => g.chal # req[r].chal
  BY <1>1, <1>2 DEF Apart
<1>7. Holds(g) => challenges'[g.chal].uses = challenges[g.chal].uses
  BY <1>4, <1>6 DEF Spends
<1> QED BY <1>1, <1>2, <1>5, <1>7 DEF Apart

(* ----------------------------------------------------- an assertion is counted --- *)

\* The counter of an assertion is stored, if its key still is.
LEMMA CountTables ==
  ASSUME Constants, IInv, NEW r \in Slots, NEW h \in Handler, Handled(h), h.at = "count",
         updateCounter(h), UNCHANGED signed
  PROVE  /\ Spends(h) /\ UseOf(h) \in Use /\ Grown /\ Rising
         /\ credentials' \in [Keys -> Row \cup {None}]
         /\ \A k \in Keys : credentials[k] = None => credentials'[k] = None
         /\ \A u : listBySub(u)' = listBySub(u)
         /\ \A k \in Keys : credentials[k] # None => credentials'[k].quiet = credentials[k].quiet
         /\ \A k \in Keys : KeyAt(k)'
<1>0. Typed /\ Holds(h)
  BY DEF IInv, Holds
<1>1. Spends(h) /\ UseOf(h) \in Use
  BY <1>0, UsedSpends DEF updateCounter
<1>2. Grown /\ Rising
  BY <1>0, <1>1, SpendsGrows, SignedStays
<1>3. h.key \in Keys /\ h.count \in Nat
  BY <1>0, HolderShape, HandlerTyped DEF Handled
<1>4. CASE credentials[h.key] = None
  <2>1. credentials' = credentials
    BY <1>4 DEF updateCounter
  <2>2. \A k \in Keys : KeyAt(k)'
    BY <1>0, <1>2, <2>1, KeyKept DEF IInv, Rows
  <2>3. \A u : listBySub(u)' = listBySub(u)
    BY <2>1 DEF listBySub
  <2> QED BY <1>0, <1>1, <1>2, <2>1, <2>2, <2>3 DEF Typed
<1>5. CASE credentials[h.key] # None
  <2> DEFINE old == credentials[h.key]
             row == [old EXCEPT !.counter = h.count]
  <2>1. old \in Row
    BY <1>0, <1>3, <1>5 DEF Typed
  <2>2. row \in Row /\ row # None /\ row.sub = old.sub /\ row.from = old.from /\ row.quiet = old.quiet
        /\ row.counter = h.count
    <3>1. row \in Row /\ row.sub = old.sub /\ row.from = old.from /\ row.quiet = old.quiet /\ row.counter = h.count
      BY <1>3, <2>1 DEF Row
    <3>2. None \notin Row
      BY DEF Constants
    <3> QED BY <3>1, <3>2
  <2>3. credentials' = [credentials EXCEPT ![h.key] = row]
    BY <1>5 DEF updateCounter
  <2> HIDE DEF row
  <2>4. credentials' \in [Keys -> Row \cup {None}] /\ credentials'[h.key] = row
        /\ \A k \in Keys \ {h.key} : credentials'[k] = credentials[k]
    BY <1>0, <1>3, <2>2, <2>3 DEF Typed
  <2>5. \A k \in Keys : credentials[k] = None => credentials'[k] = None
    BY <1>5, <2>4
  <2>6. \A u : listBySub(u)' = listBySub(u)
    BY <1>3, <1>5, <2>2, <2>4 DEF listBySub
  <2>7. \A k \in Keys : credentials[k] # None => credentials'[k].quiet = credentials[k].quiet
    BY <2>2, <2>4
  <2>8. KeyAt(h.key)'
    <3>1. signed[h.key] # None /\ h.count <= signed[h.key]
      <4>1. h.op \in {"add", "send"} /\ h.key # None
        BY <1>3, HandlerTyped DEF Handled, Shape, Ops, Constants
      <4> QED BY <4>1 DEF Handled, Metered
    <3>2. /\ h.key \in Approved /\ old.from \in DOMAIN challenges
          /\ challenges[old.from].type = "registration" /\ challenges[old.from].sub = old.sub
          /\ challenges[old.from].uses = <<[op |-> "enrol", sub |-> old.sub, key |-> h.key]>>
      BY <1>3, <1>5 DEF IInv, Rows, KeyAt
    <3>3. challenges[old.from].uses # <<>>
      BY <3>2
    <3>4. /\ old.from \in DOMAIN challenges'
          /\ challenges'[old.from].type = "registration" /\ challenges'[old.from].sub = old.sub
          /\ challenges'[old.from].uses = challenges[old.from].uses
      BY <1>2, <3>2, <3>3 DEF Grown
    <3>5. signed' = signed
      OBVIOUS
    <3> QED BY <2>2, <2>4, <3>1, <3>2, <3>4, <3>5 DEF KeyAt
  <2>9. ASSUME NEW k \in Keys \ {h.key} PROVE KeyAt(k)'
    <3>1. KeyAt(k)
      BY DEF IInv, Rows
    <3>2. credentials'[k] \in {credentials[k], None}
      BY <2>4
    <3> QED BY <1>0, <1>2, <3>1, <3>2, KeyKept
  <2>10. \A k \in Keys : KeyAt(k)'
    BY <2>8, <2>9
  <2> QED BY <1>1, <1>2, <2>4, <2>5, <2>6, <2>7, <2>10
<1> QED BY <1>4, <1>5

LEMMA CountSteps ==
  ASSUME Constants, IInv, NEW r \in Slots, req[r] # None, req[r].at = "count", updateCounter(req[r]),
         UNCHANGED <<signed, alerts, requests>>, faults' \in 0..MaxFaults,
         NEW x \in Handler \cup {None}, req' = [req EXCEPT ![r] = x],
         x # None => Handled(x)', Separate(r, x)
  PROVE  IInv'
<1>0. Typed /\ Rows
  BY DEF IInv
<1>1. PICK h : h = req[r]
  OBVIOUS
<1>2. h \in Handler /\ Handled(h) /\ h.at = "count" /\ updateCounter(h) /\ Holds(h)
  BY <1>0, <1>1 DEF IInv, Handlers, Typed, Holds
<1>3. /\ Spends(h) /\ UseOf(h) \in Use /\ Grown /\ Rising
      /\ credentials' \in [Keys -> Row \cup {None}]
      /\ \A k \in Keys : credentials[k] = None => credentials'[k] = None
      /\ \A u : listBySub(u)' = listBySub(u)
      /\ \A k \in Keys : credentials[k] # None => credentials'[k].quiet = credentials[k].quiet
      /\ \A k \in Keys : KeyAt(k)'
  BY <1>2, CountTables
<1>4. Typed'
  BY <1>0, <1>3 DEF Typed, Spends
<1>5. StillTold
  <2>1. \A k : Telling(k) => Telling(k)'
    BY <1>0, TellingStays
  <2> QED BY <2>1 DEF StillTold
<1>6. Rows'
  <2>1. \A c \in DOMAIN challenges' : UsedAt(c)' /\ IssuedAt(c)'
    <3>1. EnrolledBy(h.sub, h.key)'
      <4>1. EnrolledBy(h.sub, h.key)
        BY <1>2 DEF Handled, Verified
      <4> QED BY <1>3, <4>1, GrownKeeps
    <3> QED BY <1>2, <1>3, <3>1, SpendsRows
  <2>2. ASSUME NEW u \in Users PROVE Told(u)'
    <3>1. Told(u) /\ listBySub(u)' = listBySub(u)
      BY <1>0, <1>3 DEF Rows
    <3>2. \A k \in listBySub(u) : credentials'[k].quiet = credentials[k].quiet
      BY <1>3 DEF listBySub
    <3> QED BY <1>5, <3>1, <3>2, ToldKept
  <2> QED BY <1>3, <2>1, <2>2 DEF Rows
<1>7. ASSUME NEW q \in Slots \ {r}, req[q] # None
      PROVE  /\ Holds(req[q]) => challenges'[req[q].chal].uses = challenges[req[q].chal].uses
             /\ Enrolling(req[q]) => credentials'[req[q].key] = None
  BY <1>1, <1>2, <1>3, <1>7, SpendsLeaves
<1>8. \A u \in Users : listBySub(u) # {} => listBySub(u)' # {}
  BY <1>3
<1> QED BY <1>3, <1>4, <1>6, <1>7, <1>8, OneSteps

LEMMA CountedKeeps ==
  ASSUME Constants, IInv, NEW r \in Slots, counted(r)
  PROVE  IInv'
<1>0. /\ Typed /\ req[r] # None /\ req[r].at = "count" /\ updateCounter(req[r])
      /\ UNCHANGED <<signed, alerts, requests, faults>> /\ faults' \in 0..MaxFaults
  BY DEF IInv, counted, call, Typed
<1>1. CASE req[r].op = "send"
  <2>1. req' = [req EXCEPT ![r] = None]
    BY <1>1 DEF counted, ends
  <2> QED BY <1>0, <2>1, NoneHolds, CountSteps
<1>2. CASE req[r].op # "send"
  <2>1. PICK h : h = req[r]
    OBVIOUS
  <2>2. h \in Handler /\ Handled(h) /\ h.at = "count" /\ updateCounter(h)
    BY <1>0, <2>1 DEF IInv, Handlers, Typed
  <2>3. h.op = "add" /\ h.key \in Keys /\ h.key # None /\ h.chal \in DOMAIN challenges /\ Holds(h)
    BY <1>2, <2>1, <2>2, HandlerTyped DEF Handled, Shape, Ops, Holds, Constants
  <2>4. PICK x : x = [h EXCEPT !.by = h.key, !.at = "issue"]
    OBVIOUS
  <2>5. req' = [req EXCEPT ![r] = x]
    <3>1. req' = [req EXCEPT ![r].by = req[r].key, ![r].at = "issue"]
      BY <1>2 DEF counted
    <3>2. r \in DOMAIN req
      BY <1>0 DEF Typed
    <3> QED BY <2>1, <2>4, <3>1, <3>2
  <2>6. /\ x \in Handler /\ x.op = "add" /\ x.sub = h.sub /\ x.key = h.key /\ x.chal = h.chal
        /\ x.by = h.key /\ x.count = h.count /\ x.at = "issue"
    BY <2>2, <2>3, <2>4 DEF Handler, Points
  <2>7. ~Holds(x) /\ ~Enrolling(x)
    BY <2>6 DEF Holds, Enrolling
  <2>8. Spends(h)
    BY <1>0, <2>2, <2>3, CountTables
  <2>9. UnlockedBy(h.chal, h.sub, h.key)'
    BY <2>3, <2>8 DEF Spends, UseOf, UnlockedBy
  <2>10. Shape(x)'
    BY <2>3, <2>6, <2>8 DEF Shape, Spends
  <2>11. Metered(x)'
    BY <1>0, <2>2, <2>3, <2>6 DEF Handled, Metered, Enrolling
  <2>12. Handled(x)'
    BY <2>6, <2>7, <2>9, <2>10, <2>11 DEF Handled, Unspent, Verified, Watched, Holds
  <2>13. Separate(r, x)
    BY <2>7 DEF Separate
  <2> QED BY <1>0, <2>5, <2>6, <2>12, <2>13, CountSteps
<1> QED BY <1>1, <1>2

(* ------------------------------------------------------------- a key is stored --- *)

LEMMA InsertTables ==
  ASSUME Constants, IInv, NEW h \in Handler, Handled(h), h.at = "insert", NEW quiet \in BOOLEAN,
         createCredential(h, quiet), UNCHANGED signed
  PROVE  /\ Spends(h) /\ UseOf(h) \in Use /\ Grown /\ Rising /\ Holds(h) /\ Enrolling(h)
         /\ h.op = "enrol" /\ h.key \in Keys /\ EnrolledBy(h.sub, h.key)'
         /\ credentials' \in [Keys -> Row \cup {None}]
         /\ \A k \in Keys \ {h.key} : credentials'[k] = credentials[k]
         /\ h.key \in listBySub(h.sub)' /\ credentials'[h.key].quiet = quiet
         /\ \A k \in Keys : KeyAt(k)'
<1>0. Typed /\ Holds(h)
  BY DEF IInv, Holds
<1>1. Spends(h) /\ UseOf(h) \in Use
  BY <1>0, UsedSpends DEF createCredential
<1>2. Grown /\ Rising
  BY <1>0, <1>1, SpendsGrows, SignedStays
<1>3. h.key \in Keys /\ h.sub \in Users /\ h.chal \in DOMAIN challenges /\ h.chal \in Nat
  BY <1>0, HolderShape, HandlerTyped DEF Handled
<1>4. h.op = "enrol" /\ Enrolling(h)
  <2>1. h.op \in Ops /\ Shape(h)
    BY HandlerTyped DEF Handled
  <2>2. h.op = "enrol"
    BY <2>1 DEF Shape, Ops
  <2> QED BY <2>2 DEF Enrolling
<1>5. /\ challenges'[h.chal].type = "registration" /\ challenges'[h.chal].sub = h.sub
      /\ challenges'[h.chal].uses = <<[op |-> "enrol", sub |-> h.sub, key |-> h.key]>>
      /\ h.chal \in DOMAIN challenges'
  BY <1>1, <1>4 DEF Spends, UseOf, expected
<1>6. EnrolledBy(h.sub, h.key)'
  BY <1>5 DEF EnrolledBy
<1> DEFINE row == [sub |-> h.sub, counter |-> 0, from |-> h.chal, quiet |-> quiet]
<1>7. row \in Row /\ row # None /\ row.sub = h.sub /\ row.counter = 0 /\ row.from = h.chal /\ row.quiet = quiet
  <2>1. row \in Row
    BY <1>3 DEF Row
  <2> QED BY <2>1 DEF Constants
<1>8. credentials' = [credentials EXCEPT ![h.key] = row]
  BY DEF createCredential
<1> HIDE DEF row
<1>9. credentials' \in [Keys -> Row \cup {None}] /\ credentials'[h.key] = row
      /\ \A k \in Keys \ {h.key} : credentials'[k] = credentials[k]
  BY <1>0, <1>3, <1>7, <1>8 DEF Typed
<1>10. h.key \in listBySub(h.sub)' /\ credentials'[h.key].quiet = quiet
  BY <1>3, <1>7, <1>9 DEF listBySub
<1>11. KeyAt(h.key)'
  <2>1. signed[h.key] # None /\ h.key \in Approved
    BY <1>0, <1>4 DEF Handled, Metered, Verified
  <2>2. signed'[h.key] \in Nat /\ signed'[h.key] # None
    BY <1>0, <1>3, <2>1 DEF Typed
  <2> QED BY <1>5, <1>7, <1>9, <2>1, <2>2 DEF KeyAt
<1>12. ASSUME NEW k \in Keys \ {h.key} PROVE KeyAt(k)'
  <2>1. KeyAt(k) /\ credentials'[k] \in {credentials[k], None}
    BY <1>9 DEF IInv, Rows
  <2> QED BY <1>0, <1>2, <2>1, KeyKept
<1>13. \A k \in Keys : KeyAt(k)'
  BY <1>11, <1>12
<1> QED BY <1>0, <1>1, <1>2, <1>3, <1>4, <1>6, <1>9, <1>10, <1>13

\* Who hears of the key: the operator, or nobody because it was stored quietly,
\* or the user had a key that the operator was told of.
LEMMA InsertSteps ==
  ASSUME Constants, IInv, NEW r \in Slots, req[r] # None, req[r].at = "insert",
         NEW quiet \in BOOLEAN, createCredential(req[r], quiet),
         UNCHANGED <<signed, alerts, requests>>, faults' \in 0..MaxFaults,
         NEW x \in Handler \cup {None}, req' = [req EXCEPT ![r] = x],
         x # None => Handled(x)', Separate(r, x),
         \/ quiet
         \/ x # None /\ x.at = "tell" /\ x.key = req[r].key
         \/ listBySub(req[r].sub) # {}
  PROVE  IInv'
<1>0. Typed /\ Rows
  BY DEF IInv
<1>1. PICK h : h = req[r]
  OBVIOUS
<1>2. h \in Handler /\ Handled(h) /\ h.at = "insert" /\ createCredential(h, quiet)
  BY <1>0, <1>1 DEF IInv, Handlers, Typed
<1>3. /\ Spends(h) /\ UseOf(h) \in Use /\ Grown /\ Rising /\ Holds(h) /\ Enrolling(h)
      /\ h.op = "enrol" /\ h.key \in Keys /\ EnrolledBy(h.sub, h.key)'
      /\ credentials' \in [Keys -> Row \cup {None}]
      /\ \A k \in Keys \ {h.key} : credentials'[k] = credentials[k]
      /\ h.key \in listBySub(h.sub)' /\ credentials'[h.key].quiet = quiet
      /\ \A k \in Keys : KeyAt(k)'
  BY <1>2, InsertTables
<1>4. Typed'
  BY <1>0, <1>3 DEF Typed, Spends
<1>5. StillTold
  <2>1. \A k : Telling(k) => Telling(k)'
    BY <1>0, TellingStays
  <2> QED BY <2>1 DEF StillTold
<1>6. credentials[h.key] = None
  BY <1>2, <1>3 DEF Handled, Metered
<1>7. \A u : \A k \in listBySub(u) : k # h.key /\ k \in listBySub(u)' /\ credentials'[k].quiet = credentials[k].quiet
  BY <1>3, <1>6 DEF listBySub
<1>8. \A c \in DOMAIN challenges' : UsedAt(c)' /\ IssuedAt(c)'
  BY <1>2, <1>3, SpendsRows
<1>9. ASSUME NEW u \in Users PROVE Told(u)'
  <2>1. Told(u)
    BY <1>0 DEF Rows
  <2>2. CASE listBySub(u) # {}
    BY <1>5, <1>7, <2>1, <2>2, ToldKept
  <2>3. CASE listBySub(u) = {} /\ u # h.sub
    <3>1. listBySub(u)' = {}
      <4>1. \A k \in Keys \ {h.key} : k \notin listBySub(u)'
        BY <1>3, <2>3 DEF listBySub
      <4>2. credentials'[h.key].sub = h.sub
        BY <1>3 DEF listBySub
      <4>3. h.key \notin listBySub(u)'
        BY <2>3, <4>2 DEF listBySub
      <4> QED BY <4>1, <4>3 DEF listBySub
    <3> QED BY <3>1 DEF Told
  <2>4. CASE listBySub(u) = {} /\ u = h.sub
    <3>1. quiet \/ (x # None /\ x.at = "tell" /\ x.key = h.key)
      <4>1. listBySub(req[r].sub) = {}
        BY <1>1, <2>4
      <4> QED BY <1>1, <4>1
    <3>2. x # None /\ x.at = "tell" /\ x.key = h.key => Telling(h.key)'
      BY <1>0 DEF Telling, Typed
    <3>3. h.key \in listBySub(u)' /\ (credentials'[h.key].quiet \/ Telling(h.key)')
      BY <1>3, <2>4, <3>1, <3>2
    <3> QED BY <3>3 DEF Told
  <2> QED BY <2>2, <2>3, <2>4
<1>10. Rows'
  BY <1>3, <1>8, <1>9 DEF Rows
<1>11. ASSUME NEW q \in Slots \ {r}, req[q] # None
       PROVE  /\ Holds(req[q]) => challenges'[req[q].chal].uses = challenges[req[q].chal].uses
              /\ Enrolling(req[q]) => credentials'[req[q].key] = None
  <2>1. /\ Holds(req[q]) => challenges'[req[q].chal].uses = challenges[req[q].chal].uses
        /\ Enrolling(req[r]) /\ Enrolling(req[q]) => req[r].key # req[q].key
        /\ Enrolling(req[q]) => req[q].key \in Keys /\ credentials[req[q].key] = None
    BY <1>1, <1>3, <1>11, SpendsLeaves
  <2> QED BY <1>1, <1>3, <2>1
<1>12. \A u \in Users : listBySub(u) # {} => listBySub(u)' # {}
  BY <1>7
<1> QED BY <1>3, <1>4, <1>10, <1>11, <1>12, OneSteps

LEMMA CreatedKeeps ==
  ASSUME Constants, IInv, NEW r \in Slots, created(r)
  PROVE  IInv'
<1>0. /\ Typed /\ req[r] # None /\ req[r].at = "insert" /\ createCredential(req[r], req[r].over)
      /\ UNCHANGED <<signed, alerts, requests, faults>> /\ faults' \in 0..MaxFaults
  BY DEF IInv, created, call, Typed
<1>1. PICK h : h = req[r]
  OBVIOUS
<1>2. h \in Handler /\ Handled(h) /\ h.at = "insert" /\ createCredential(h, h.over) /\ h.over \in BOOLEAN
  BY <1>0, <1>1, HandlerTyped DEF IInv, Handlers, Typed
<1>3. h.op = "enrol" /\ h.key \in Keys /\ Spends(h)
  BY <1>0, <1>2, InsertTables
<1>4. CASE ~h.first
  <2>1. req' = [req EXCEPT ![r] = None]
    BY <1>1, <1>4 DEF created, ends
  <2>2. h.over \/ listBySub(h.sub) # {}
    BY <1>2, <1>3, <1>4 DEF Handled, Watched
  <2>3. req[r].over \/ listBySub(req[r].sub) # {}
    BY <1>1, <2>2
  <2>4. req[r].over \in BOOLEAN
    BY <1>1, <1>2
  <2> QED BY <1>0, <2>1, <2>3, <2>4, NoneHolds, InsertSteps
<1>5. CASE h.first
  <2>1. PICK x : x = [h EXCEPT !.at = "tell"]
    OBVIOUS
  <2>2. req' = [req EXCEPT ![r] = x]
    BY <1>1, <1>5, <2>1 DEF created, goes
  <2>3. /\ x \in Handler /\ x # None /\ x.op = "enrol" /\ x.sub = h.sub /\ x.key = h.key /\ x.chal = h.chal
        /\ x.by = h.by /\ x.count = h.count /\ x.at = "tell"
    <3>1. /\ x \in Handler /\ x.op = "enrol" /\ x.sub = h.sub /\ x.key = h.key /\ x.chal = h.chal
          /\ x.by = h.by /\ x.count = h.count /\ x.at = "tell"
      BY <1>2, <1>3, <2>1 DEF Handler, Points
    <3> QED BY <3>1 DEF Constants
  <2>4. ~Holds(x) /\ ~Enrolling(x)
    BY <2>3 DEF Holds, Enrolling
  <2>5. h.by = None /\ h.chal \in DOMAIN challenges
    BY <1>2, <1>3 DEF Handled, Shape, Spends
  <2>6. Shape(x)'
    BY <1>3, <2>3, <2>5 DEF Shape, Spends
  <2>7. Handled(x)'
    BY <2>3, <2>4, <2>5, <2>6 DEF Handled, Unspent, Verified, Metered, Watched, Holds, Enrolling
  <2>8. Separate(r, x)
    BY <2>4 DEF Separate
  <2>9. x # None /\ x.at = "tell" /\ x.key = req[r].key /\ req[r].over \in BOOLEAN
    BY <1>1, <1>2, <2>3
  <2> QED BY <1>0, <2>2, <2>3, <2>7, <2>8, <2>9, InsertSteps
<1> QED BY <1>4, <1>5

(* ----------------------------------------------------------- a recovery clears --- *)

\* A registration under way may store its key whatever its user has left.
LEMMA OverKept ==
  ASSUME Constants, Typed, Grown, Rising, NEW h \in Handler, Handled(h), UNCHANGED challenges,
         Enrolling(h) => credentials'[h.key] = None,
         NEW g, g = [h EXCEPT !.over = TRUE]
  PROVE  g \in Handler /\ Handled(g)'
<1>1. /\ g \in Handler /\ g.op = h.op /\ g.sub = h.sub /\ g.key = h.key /\ g.chal = h.chal
      /\ g.by = h.by /\ g.count = h.count /\ g.at = h.at /\ g.first = h.first /\ g.over = TRUE
  BY DEF Handler
<1>2. Handled(g)
  BY <1>1 DEF Handled, Shape, Unspent, Verified, Metered, Watched, Holds, Enrolling
<1>3. Enrolling(g) => credentials'[g.key] = None
  BY <1>1 DEF Enrolling
<1>4. g.over
  BY <1>1
<1>5. Holds(g) => challenges'[g.chal].uses = challenges[g.chal].uses
  OBVIOUS
<1> HIDE DEF Handled
<1>6. Handled(g)'
  BY <1>1, <1>2, <1>3, <1>4, <1>5, OthersKept
<1> QED BY <1>1, <1>6

LEMMA ClearSteps ==
  ASSUME Constants, IInv, NEW r \in Slots, req[r] # None, req[r].at = "clear",
         NEW x \in Handler \cup {None}, clears(r, x), x # None => Handled(x)' /\ ~Holds(x) /\ ~Enrolling(x),
         UNCHANGED <<signed, alerts, requests>>, faults' \in 0..MaxFaults
  PROVE  IInv'
<1>0. Typed /\ Rows /\ UNCHANGED challenges
  BY DEF IInv, clears, deleteAllBySub
<1>1. PICK u : u = req[r].sub
  OBVIOUS
<1>2. credentials' = [k \in Keys |-> IF k \in listBySub(u) THEN None ELSE credentials[k]]
  BY <1>1 DEF clears, deleteAllBySub
<1>3. req' = [q \in Slots |->
        IF q = r THEN x
        ELSE IF req[q] # None /\ req[q].sub = u THEN [req[q] EXCEPT !.over = TRUE]
        ELSE req[q]]
  BY <1>1 DEF clears
<1>4. Grown /\ Rising
  BY <1>0, SignedStays DEF Grown
<1>5. \A k \in Keys : credentials'[k] \in {credentials[k], None}
  BY <1>2
<1>6. credentials' \in [Keys -> Row \cup {None}]
  BY <1>0, <1>2 DEF Typed
<1>7. listBySub(u)' = {} /\ \A w : w # u => listBySub(w)' = listBySub(w)
  BY <1>2 DEF listBySub
<1>8. \A k \in Keys : credentials[k] = None => credentials'[k] = None
  BY <1>2
<1>9. ASSUME NEW q \in Slots \ {r}
      PROVE  /\ req'[q] \in Handler \cup {None} /\ (req'[q] # None => req[q] # None /\ Handled(req[q])')
             /\ req[q] # None => /\ req'[q] # None /\ req'[q].at = req[q].at /\ req'[q].op = req[q].op
                                 /\ req'[q].key = req[q].key /\ req'[q].chal = req[q].chal
  <2>1. CASE req[q] = None
    BY <1>3, <2>1
  <2>2. CASE req[q] # None /\ req[q].sub = u
    <3>1. PICK h : h = req[q]
      OBVIOUS
    <3>2. h \in Handler /\ Handled(h)
      BY <1>0, <2>2, <3>1 DEF Typed, IInv, Handlers
    <3>3. PICK g : g = [h EXCEPT !.over = TRUE]
      OBVIOUS
    <3>4. req'[q] = g
      BY <1>3, <2>2, <3>1, <3>3
    <3>5. Enrolling(h) => credentials'[h.key] = None
      <4>1. Enrolling(h) => h.key \in Keys /\ credentials[h.key] = None
        BY <3>2 DEF Handled, Metered, Shape, Enrolling
      <4> QED BY <1>8, <4>1
    <3>6. g \in Handler /\ Handled(g)'
      BY <1>0, <1>4, <3>2, <3>3, <3>5, OverKept
    <3>7. g.at = h.at /\ g.op = h.op /\ g.key = h.key /\ g.chal = h.chal
      BY <3>2, <3>3 DEF Handler
    <3>8. g # None
      BY <3>6 DEF Constants
    <3> QED BY <2>2, <3>1, <3>4, <3>6, <3>7, <3>8
  <2>3. CASE req[q] # None /\ req[q].sub # u
    <3>1. req'[q] = req[q] /\ req[q] \in Handler /\ Handled(req[q])
      BY <1>0, <1>3, <2>3 DEF Typed, IInv, Handlers
    <3>2. Enrolling(req[q]) => credentials'[req[q].key] = None
      <4>1. PICK h : h = req[q]
        OBVIOUS
      <4>2. Enrolling(h) => h.key \in Keys /\ credentials[h.key] = None
        BY <3>1, <4>1 DEF Handled, Metered, Shape, Enrolling
      <4> QED BY <1>8, <4>1, <4>2
    <3>3. listBySub(req[q].sub) # {} => listBySub(req[q].sub)' # {}
      <4>1. PICK w : w = req[q].sub
        OBVIOUS
      <4>2. listBySub(w)' = listBySub(w)
        BY <1>7, <2>3, <4>1
      <4>3. w = (req[q].sub)'
        BY <3>1, <4>1
      <4> QED BY <4>1, <4>2, <4>3
    <3>4. Holds(req[q]) => challenges'[req[q].chal].uses = challenges[req[q].chal].uses
      BY <1>0
    <3>5. Handlers
      BY DEF IInv
    <3>6. Handled(req[q])'
      BY <1>0, <1>4, <2>3, <3>1, <3>2, <3>3, <3>4, <3>5, HandlerKept
    <3> QED BY <2>3, <3>1, <3>6
  <2> QED BY <2>1, <2>2, <2>3
<1>10. Typed'
  <2>1. req' \in [Slots -> Handler \cup {None}]
    BY <1>3, <1>9
  <2> QED BY <1>0, <1>6, <2>1 DEF Typed
<1>11. StillTold
  <2>1. ASSUME NEW k \in Keys, NEW q \in Slots, req[q] # None, req[q].at = "tell", req[q].key = k
        PROVE  Telling(k)'
    <3>1. q # r
      BY <2>1
    <3>2. req'[q] # None /\ req'[q].at = "tell" /\ req'[q].key = k
      BY <1>9, <2>1, <3>1
    <3> QED BY <3>2 DEF Telling
  <2> QED BY <2>1 DEF StillTold, Telling
<1>12. Rows'
  <2>1. \A c \in DOMAIN challenges' : UsedAt(c)' /\ IssuedAt(c)'
    BY <1>0, <1>4, UsedKept, IssuedKept DEF Rows
  <2>2. \A k \in Keys : KeyAt(k)'
    BY <1>0, <1>4, <1>5, KeyKept DEF Rows
  <2>3. ASSUME NEW w \in Users PROVE Told(w)'
    <3>1. CASE w = u
      BY <1>7, <3>1 DEF Told
    <3>2. CASE w # u
      <4>1. Told(w) /\ listBySub(w)' = listBySub(w)
        BY <1>0, <1>7, <3>2 DEF Rows
      <4>2. \A k \in listBySub(w) : credentials'[k].quiet = credentials[k].quiet
        BY <1>2, <3>2 DEF listBySub
      <4> QED BY <1>11, <4>1, <4>2, ToldKept
    <3> QED BY <3>1, <3>2
  <2> QED BY <2>1, <2>2, <2>3 DEF Rows
<1>13. Handlers'
  <2> SUFFICES ASSUME NEW q \in Slots, req'[q] # None PROVE Handled(req[q])'
    BY DEF Handlers
  <2>1. CASE q = r
    <3>1. req'[q] = x /\ x # None
      BY <1>3, <2>1
    <3>2. Handled(x)'
      BY <3>1
    <3> QED BY <3>1, <3>2
  <2>2. CASE q # r
    BY <1>9, <2>2
  <2> QED BY <2>1, <2>2
<1>14. AllApart'
  <2> SUFFICES ASSUME NEW p \in Slots, NEW q \in Slots, p # q, req'[p] # None, req'[q] # None
               PROVE  Apart(p, q)'
    BY DEF AllApart
  <2>1. CASE p # r /\ q # r
    <3>1. /\ req[p] # None /\ req'[p].at = req[p].at /\ req'[p].op = req[p].op
          /\ req'[p].key = req[p].key /\ req'[p].chal = req[p].chal
      BY <1>9, <2>1
    <3>2. /\ req[q] # None /\ req'[q].at = req[q].at /\ req'[q].op = req[q].op
          /\ req'[q].key = req[q].key /\ req'[q].chal = req[q].chal
      BY <1>9, <2>1
    <3>3. Apart(p, q)
      BY <3>1, <3>2 DEF IInv, AllApart
    <3> QED BY <3>1, <3>2, <3>3 DEF Apart, Holds, Enrolling
  <2>2. CASE p = r \/ q = r
    <3>1. req'[r] = x
      BY <1>3
    <3>2. ~Holds(x) /\ ~Enrolling(x)
      BY <2>2, <3>1
    <3> QED BY <2>2, <3>1, <3>2 DEF Apart, Holds, Enrolling
  <2> QED BY <2>1, <2>2
<1> QED BY <1>10, <1>12, <1>13, <1>14 DEF IInv

LEMMA ClearedKeeps ==
  ASSUME Constants, IInv, NEW r \in Slots, cleared(r)
  PROVE  IInv'
<1>0. /\ Typed /\ req[r] # None /\ req[r].at = "clear" /\ clears(r, [req[r] EXCEPT !.at = "tell"])
      /\ UNCHANGED <<signed, alerts, requests, faults>> /\ faults' \in 0..MaxFaults
      /\ UNCHANGED challenges
  BY DEF IInv, cleared, call, Typed, clears, deleteAllBySub
<1>1. PICK h : h = req[r]
  OBVIOUS
<1>2. h \in Handler /\ Handled(h) /\ h.at = "clear"
  BY <1>0, <1>1 DEF IInv, Handlers, Typed
<1>3. h.op = "recover" /\ h.key = None
  <2>1. h.op \in Ops /\ Shape(h)
    BY <1>2, HandlerTyped DEF Handled
  <2> QED BY <1>2, <2>1 DEF Shape, Ops
<1>4. PICK x : x = [h EXCEPT !.at = "tell"]
  OBVIOUS
<1>5. clears(r, x)
  BY <1>0, <1>1, <1>4
<1>6. /\ x \in Handler /\ x.op = "recover" /\ x.sub = h.sub /\ x.key = None /\ x.chal = h.chal
      /\ x.by = h.by /\ x.count = h.count /\ x.at = "tell"
  BY <1>2, <1>3, <1>4 DEF Handler, Points
<1>7. ~Holds(x) /\ ~Enrolling(x)
  BY <1>6 DEF Holds, Enrolling
<1>8. x.by # None => UnlockedBy(x.chal, x.sub, x.by)'
  <2>1. Grown
    BY <1>0 DEF Grown
  <2> QED BY <1>2, <1>6, <2>1, GrownKeeps DEF Handled, Verified
<1>9. Handled(x)'
  BY <1>6, <1>7, <1>8 DEF Handled, Shape, Unspent, Verified, Metered, Watched, Holds, Enrolling
<1> QED BY <1>0, <1>5, <1>6, <1>7, <1>9, ClearSteps

(* -------------------------------------------------- a call fails, and the clock --- *)

LEMMA FailsKeeps ==
  ASSUME Constants, IInv, NEW r \in Slots, fails(r)
  PROVE  IInv'
<1>0. /\ Typed /\ req[r] # None /\ req[r].at # "tell" /\ UNCHANGED <<signed, alerts, requests>>
  BY DEF IInv, fails
<1>1. faults' \in 0..MaxFaults
  BY DEF IInv, Typed, fails, Constants
<1>2. ends(r) => req' = [req EXCEPT ![r] = None]
  BY DEF ends
<1>3. req' = [req EXCEPT ![r] = None] => StillTold
  <2> SUFFICES ASSUME req' = [req EXCEPT ![r] = None] PROVE StillTold
    OBVIOUS
  <2>1. \A k : Telling(k) => Telling(k)'
    BY <1>0, TellingStays
  <2> QED BY <1>0, <2>1 DEF StillTold
<1>4. Rising
  BY <1>0, SignedStays
<1>5. CASE ends(r) /\ UNCHANGED <<credentials, challenges>>
  <2>1. Typed'
    BY <1>0, <1>1, <1>2, <1>5 DEF Typed
  <2> QED BY <1>2, <1>3, <1>4, <1>5, <2>1, NoneHolds, StepsStill
<1>6. CASE ends(r) /\ req[r].at = "consume" /\ consumeChallenge(req[r])
  <2>1. PICK h : h = req[r]
    OBVIOUS
  <2>2. h \in Handler /\ Handled(h) /\ h.at = "consume" /\ consumeChallenge(h)
    BY <1>0, <1>6, <2>1 DEF IInv, Handlers, Typed
  <2>3. h.chal \in DOMAIN challenges
    BY <2>2, HandlerTyped DEF Handled, Shape, Ops, Constants
  <2>4. Ageing /\ UNCHANGED credentials
    BY <1>0, <2>2, <2>3, ConsumeAges
  <2>5. Typed'
    BY <1>0, <1>1, <1>2, <1>6, <2>4 DEF Typed, Ageing
  <2>6. UNCHANGED <<credentials, signed>>
    BY <1>0, <2>4
  <2> QED BY <1>2, <1>3, <1>6, <2>4, <2>5, <2>6, NoneHolds, AgeingSteps
<1>7. CASE ends(r) /\ req[r].at = "count" /\ updateCounter(req[r])
  BY <1>0, <1>1, <1>2, <1>7, NoneHolds, CountSteps
<1>8. CASE ends(r) /\ req[r].at = "insert" /\ createCredential(req[r], TRUE)
  BY <1>0, <1>1, <1>2, <1>8, NoneHolds, InsertSteps
<1>9. CASE req[r].at = "clear" /\ clears(r, None)
  BY <1>0, <1>1, <1>9, ClearSteps
<1> QED BY <1>5, <1>6, <1>7, <1>8, <1>9 DEF fails

\* The clock touches no handler.
LEMMA AgeingKeeps ==
  ASSUME Constants, IInv, Ageing, UNCHANGED <<credentials, req, signed, alerts, requests, faults>>
  PROVE  IInv'
<1>0. Typed /\ Handlers /\ Grown /\ Rising
  BY AgeingGrows, SignedStays DEF IInv
<1>1. StillTold
  BY DEF StillTold, Telling
<1>2. Rows'
  BY <1>0, <1>1, AgeingRows
<1>3. Typed'
  BY <1>0 DEF Typed, Ageing
<1>4. ASSUME NEW q \in Slots, req'[q] # None PROVE Handled(req[q])'
  <2>1. PICK h : h = req[q]
    OBVIOUS
  <2>2. h \in Handler /\ Handled(h)
    BY <1>0, <1>4, <2>1 DEF Typed, Handlers
  <2>3. Holds(h) => challenges'[h.chal].uses = challenges[h.chal].uses
    BY <2>2, HolderShape DEF Handled, Ageing
  <2>4. Enrolling(h) => credentials'[h.key] = None
    BY <2>2 DEF Handled, Metered
  <2>5. listBySub(h.sub) # {} => listBySub(h.sub)' # {}
    BY DEF listBySub
  <2>6. Handled(h)'
    BY <1>0, <2>2, <2>3, <2>4, <2>5, OthersKept
  <2>7. req'[q] = h
    BY <2>1
  <2> QED BY <2>6, <2>7
<1>5. AllApart'
  BY DEF IInv, AllApart, Apart, Holds, Enrolling
<1> QED BY <1>2, <1>3, <1>4, <1>5 DEF IInv, Handlers

LEMMA ClockKeeps ==
  ASSUME Constants, IInv, (\E c \in DOMAIN challenges : expire(c)) \/ deleteExpiredChallenges
  PROVE  IInv'
<1>0. Typed /\ challenges \in Seq(Challenge)
  BY DEF IInv, Typed
<1>1. UNCHANGED <<credentials, req, signed, alerts, requests, faults>>
  BY DEF expire, deleteExpiredChallenges
<1>2. ASSUME NEW c \in DOMAIN challenges, NEW s \in {"live", "expired", "gone"}
      PROVE  LET b == [challenges[c] EXCEPT !.state = s] IN
             /\ b \in Challenge /\ b.sub = challenges[c].sub /\ b.type = challenges[c].type
             /\ b.by = challenges[c].by /\ b.proof = challenges[c].proof /\ b.held = challenges[c].held
             /\ b.uses = challenges[c].uses /\ b.state = s
  <2>1. challenges[c] \in Challenge
    BY <1>0, ChallengeTyped
  <2> QED BY <2>1 DEF Challenge
<1>3. ASSUME NEW c \in DOMAIN challenges, expire(c) PROVE Ageing
  <2>1. PICK b : b = [challenges[c] EXCEPT !.state = "expired"]
    OBVIOUS
  <2>2. /\ b \in Challenge /\ b.sub = challenges[c].sub /\ b.type = challenges[c].type
        /\ b.by = challenges[c].by /\ b.proof = challenges[c].proof /\ b.held = challenges[c].held
        /\ b.uses = challenges[c].uses
    BY <1>2, <2>1
  <2>3. challenges' = [challenges EXCEPT ![c] = b] /\ challenges[c].state = "live"
    BY <1>3, <2>1 DEF expire
  <2>4. c \in 1 .. Len(challenges)
    BY <1>0
  <2>5. /\ challenges' \in Seq(Challenge) /\ Len(challenges') = Len(challenges)
        /\ \A d \in 1 .. Len(challenges) : challenges'[d] = IF d = c THEN b ELSE challenges[d]
    BY <1>0, <2>2, <2>3, <2>4, ExceptSeq
  <2>6. DOMAIN challenges' = DOMAIN challenges /\ DOMAIN challenges = 1 .. Len(challenges)
    BY <1>0, <2>5
  <2> QED BY <2>2, <2>3, <2>5, <2>6 DEF Ageing
<1>4. ASSUME deleteExpiredChallenges PROVE Ageing
  <2> DEFINE new(c) == IF challenges[c].state = "expired" THEN [challenges[c] EXCEPT !.state = "gone"] ELSE challenges[c]
  <2>1. challenges' = [c \in DOMAIN challenges |-> new(c)]
    BY <1>4 DEF deleteExpiredChallenges
  <2>2. \A c \in DOMAIN challenges :
          /\ new(c) \in Challenge /\ new(c).sub = challenges[c].sub /\ new(c).type = challenges[c].type
          /\ new(c).by = challenges[c].by /\ new(c).proof = challenges[c].proof /\ new(c).held = challenges[c].held
          /\ new(c).uses = challenges[c].uses /\ (challenges[c].state = "gone" => new(c).state = "gone")
    BY <1>0, <1>2, ChallengeTyped
  <2> HIDE DEF new
  <2>3. DOMAIN challenges = 1 .. Len(challenges) /\ Len(challenges) \in Nat
    BY <1>0
  <2>4. challenges' \in Seq(Challenge)
    <3>1. challenges' \in [1 .. Len(challenges) -> Challenge]
      BY <2>1, <2>2, <2>3
    <3> QED BY <2>3, <3>1
  <2>5. DOMAIN challenges' = DOMAIN challenges /\ \A c \in DOMAIN challenges : challenges'[c] = new(c)
    BY <2>1
  <2> QED BY <2>2, <2>4, <2>5 DEF Ageing
<1> QED BY <1>1, <1>3, <1>4, AgeingKeeps

(* ------------------------------------------------------------------ the theorem --- *)

LEMMA InitHolds ==
  ASSUME Constants, Init
  PROVE  IInv
<1>1. PICK h \in Histories :
        LET rowOf(k) == {[sub |-> h[i].sub, counter |-> 0, from |-> i, quiet |-> FALSE] :
                         i \in {i \in DOMAIN h : h[i].key = k}} IN
        /\ credentials = [k \in Keys |-> IF rowOf(k) = {} THEN None ELSE CHOOSE row \in rowOf(k) : TRUE]
        /\ challenges = [i \in DOMAIN h |-> done(h[i])]
        /\ signed = [k \in Keys |-> IF rowOf(k) = {} THEN None ELSE 0]
        /\ alerts = {h[i].key : i \in DOMAIN h}
  BY DEF Init
<1>2. /\ req = [r \in Slots |-> None] /\ requests = 0 /\ faults = 0
  BY DEF Init
<1>3. h \in Seq(Enrolment)
  BY DEF Constants
<1>4. DOMAIN h = 1 .. Len(h) /\ Len(h) \in Nat /\ \A i \in DOMAIN h : i \in Nat
  BY <1>3
<1>5. \A i \in DOMAIN h : h[i].key \in Keys /\ h[i].key \in Approved /\ h[i].sub \in Users
  <2>1. \A i \in DOMAIN h : h[i] \in Enrolment
    BY <1>3
  <2> QED BY <2>1 DEF Enrolment
<1>6. ASSUME NEW i \in DOMAIN h
      PROVE  /\ done(h[i]) \in Challenge /\ challenges[i] = done(h[i]) /\ challenges[i].sub = h[i].sub
             /\ challenges[i].type = "registration" /\ challenges[i].state = "gone" /\ challenges[i].by = None
             /\ challenges[i].held = {} /\ challenges[i].uses = <<[op |-> "enrol", sub |-> h[i].sub, key |-> h[i].key]>>
             /\ [op |-> "enrol", sub |-> h[i].sub, key |-> h[i].key] \in Use
  <2>1. [op |-> "enrol", sub |-> h[i].sub, key |-> h[i].key] \in Use
    BY <1>5 DEF Use, Ops
  <2>2. PICK u \in Use : u = [op |-> "enrol", sub |-> h[i].sub, key |-> h[i].key]
    BY <2>1
  <2>3. <<u>> \in Seq(Use)
    OBVIOUS
  <2>4. done(h[i]) = [sub |-> h[i].sub, type |-> "registration", state |-> "gone", by |-> None, proof |-> 0,
                      held |-> {}, uses |-> <<u>>]
    BY <2>2 DEF done
  <2>5. done(h[i]) \in Challenge
    BY <1>5, <2>3, <2>4 DEF Challenge, Types
  <2>6. challenges[i] = done(h[i])
    BY <1>1
  <2> QED BY <2>1, <2>2, <2>4, <2>5, <2>6
<1>7. challenges \in Seq(Challenge) /\ DOMAIN challenges = DOMAIN h
  <2>1. challenges \in [1 .. Len(h) -> Challenge]
    BY <1>1, <1>4, <1>6
  <2> QED BY <1>4, <2>1
<1> DEFINE rows(k) == {[sub |-> h[i].sub, counter |-> 0, from |-> i, quiet |-> FALSE] :
                       i \in {i \in DOMAIN h : h[i].key = k}}
<1>8. \A k \in Keys : /\ credentials[k] = IF rows(k) = {} THEN None ELSE CHOOSE row \in rows(k) : TRUE
                      /\ signed[k] = IF rows(k) = {} THEN None ELSE 0
  BY <1>1
<1>9. ASSUME NEW k \in Keys, credentials[k] # None
      PROVE  /\ signed[k] = 0 /\ k \in alerts /\ credentials[k] \in Row /\ credentials[k].counter = 0
             /\ k \in Approved /\ credentials[k].from \in DOMAIN h
             /\ h[credentials[k].from].key = k /\ h[credentials[k].from].sub = credentials[k].sub
  <2>1. rows(k) # {} /\ credentials[k] \in rows(k)
    BY <1>8, <1>9
  <2>2. PICK i \in DOMAIN h : h[i].key = k /\ credentials[k] = [sub |-> h[i].sub, counter |-> 0, from |-> i, quiet |-> FALSE]
    BY <2>1
  <2>3. credentials[k] \in Row
    BY <1>4, <1>5, <2>2 DEF Row
  <2>4. signed[k] = 0 /\ k \in alerts
    BY <1>1, <1>8, <2>1, <2>2
  <2> QED BY <1>5, <2>2, <2>3, <2>4
<1>10. Typed
  <2>1. credentials \in [Keys -> Row \cup {None}]
    <3>1. credentials = [k \in Keys |-> credentials[k]]
      BY <1>1
    <3> QED BY <1>9, <3>1
  <2>2. signed \in [Keys -> (0..MaxSigned) \cup {None}]
    <3>1. signed = [k \in Keys |-> signed[k]] /\ 0 \in 0..MaxSigned
      BY <1>1 DEF Constants
    <3> QED BY <1>8, <3>1
  <2>3. alerts \subseteq Keys \cup Users
    BY <1>1, <1>5
  <2>4. requests \in 0..MaxRequests /\ faults \in 0..MaxFaults
    BY <1>2 DEF Constants
  <2>5. req \in [Slots -> Handler \cup {None}]
    BY <1>2
  <2> QED BY <1>7, <2>1, <2>2, <2>3, <2>4, <2>5 DEF Typed
<1>11. Handlers /\ AllApart
  BY <1>2 DEF Handlers, AllApart
<1>12. ASSUME NEW c \in DOMAIN challenges PROVE UsedAt(c) /\ IssuedAt(c)
  <2>1. c \in DOMAIN h
    BY <1>7
  <2>2. PICK u \in Use : u = [op |-> "enrol", sub |-> h[c].sub, key |-> h[c].key]
    BY <1>6, <2>1
  <2>3. /\ challenges[c].uses = <<u>> /\ challenges[c].sub = u.sub /\ challenges[c].state = "gone"
        /\ challenges[c].type = "registration" /\ u.op = "enrol" /\ challenges[c].by = None
        /\ challenges[c].held = {} /\ u = [op |-> "enrol", sub |-> u.sub, key |-> u.key]
    BY <1>6, <2>1, <2>2
  <2>4. EnrolledBy(u.sub, u.key)
    BY <2>3 DEF EnrolledBy
  <2>5. UsedAt(c)
    BY <2>3, <2>4 DEF UsedAt, expected
  <2> QED BY <2>3, <2>5 DEF IssuedAt
<1>13. ASSUME NEW k \in Keys PROVE KeyAt(k)
  <2>1. signed[k] = None => credentials[k] = None
    BY <1>9 DEF Constants
  <2>2. CASE credentials[k] = None
    BY <2>1, <2>2 DEF KeyAt
  <2>3. CASE credentials[k] # None
    <3> DEFINE i == credentials[k].from
    <3>1. /\ signed[k] = 0 /\ credentials[k].counter = 0 /\ k \in Approved /\ i \in DOMAIN h
          /\ h[i].key = k /\ h[i].sub = credentials[k].sub
      BY <1>9, <2>3
    <3>2. /\ challenges[i].sub = h[i].sub /\ challenges[i].type = "registration"
          /\ challenges[i].uses = <<[op |-> "enrol", sub |-> h[i].sub, key |-> h[i].key]>>
      BY <1>6, <3>1
    <3> QED BY <1>7, <2>1, <3>1, <3>2 DEF KeyAt
  <2> QED BY <2>2, <2>3
<1>14. ASSUME NEW u \in Users PROVE Told(u)
  BY <1>9 DEF Told, listBySub
<1> QED BY <1>10, <1>11, <1>12, <1>13, <1>14 DEF IInv, Rows

LEMMA StepKeeps ==
  ASSUME Constants, IInv, NEW r \in Slots, Step(r)
  PROVE  IInv'
BY ListedKeeps, ConsumedKeeps, LookedUpKeeps, CountedKeeps, PutKeeps, CreatedKeeps, ClearedKeeps,
   AlertKeeps, FailsKeeps DEF Step

LEMMA NextKeeps ==
  ASSUME Constants, IInv, [Next]_vars
  PROVE  IInv'
<1>1. CASE \E r \in Slots, u \in Users :
             \/ postRegisterOptions(r, u) \/ postRegisterVerify(r, u)
             \/ postAuthenticateOptions(r, u) \/ postAuthenticateVerify(r, u)
             \/ \E admin \in Users : postRecover(r, admin, u)
  BY <1>1, AddBegins, EnrolBegins, SendBegins, BareBegins
<1>2. CASE \E r \in Slots : Step(r)
  BY <1>2, StepKeeps
<1>3. CASE (\E c \in DOMAIN challenges : expire(c)) \/ deleteExpiredChallenges
  BY <1>3, ClockKeeps
<1>4. CASE UNCHANGED vars
  <2>1. UNCHANGED <<credentials, req, signed, alerts, requests, faults>> /\ challenges' = challenges
    BY <1>4 DEF vars
  <2>2. Ageing
    BY <2>1 DEF Ageing, IInv, Typed
  <2> QED BY <2>1, <2>2, AgeingKeeps
<1> QED BY <1>1, <1>2, <1>3, <1>4 DEF Next

LEMMA Sound ==
  ASSUME Constants, IInv
  PROVE  TypeOK /\ KeysSound
<1>0. Typed /\ Rows
  BY DEF IInv
<1>1. UsedOnce
  <2> SUFFICES ASSUME NEW c \in DOMAIN challenges
               PROVE  LET ch == challenges[c]
                          enrolled(x) == \E d \in DOMAIN challenges : \E i \in DOMAIN challenges[d].uses :
                                           challenges[d].uses[i] = [op |-> "enrol", sub |-> x.sub, key |-> x.key]
                      IN
                      /\ Len(ch.uses) <= 1
                      /\ \A i \in DOMAIN ch.uses :
                           /\ expected(ch.uses[i].op) = ch.type /\ ch.uses[i].sub = ch.sub
                           /\ ch.state = "gone" /\ enrolled(ch.uses[i])
    BY DEF UsedOnce
  <2>1. CASE challenges[c].uses = <<>>
    BY <2>1
  <2>2. CASE challenges[c].uses # <<>>
    <3>1. PICK u \in Use :
            /\ challenges[c].uses = <<u>> /\ expected(u.op) = challenges[c].type /\ u.sub = challenges[c].sub
            /\ challenges[c].state = "gone" /\ EnrolledBy(u.sub, u.key)
      BY <1>0, <2>2 DEF Rows, UsedAt
    <3>2. PICK d \in DOMAIN challenges : challenges[d].uses = <<[op |-> "enrol", sub |-> u.sub, key |-> u.key]>>
      BY <3>1 DEF EnrolledBy
    <3>3. 1 \in DOMAIN challenges[d].uses /\ challenges[d].uses[1] = [op |-> "enrol", sub |-> u.sub, key |-> u.key]
      BY <3>2
    <3>4. /\ Len(challenges[c].uses) <= 1
          /\ \A i \in DOMAIN challenges[c].uses : challenges[c].uses[i] = u
      BY <3>1
    <3> QED BY <3>1, <3>3, <3>4
  <2> QED BY <2>1, <2>2
<1>2. Vouched
  <2> SUFFICES ASSUME NEW k \in Keys, credentials[k] # None
               PROVE  LET ch == challenges[credentials[k].from] IN
                      /\ k \in Approved /\ ch.type = "registration" /\ ch.sub = credentials[k].sub
                      /\ ch.uses = <<[op |-> "enrol", sub |-> ch.sub, key |-> k]>>
                      /\ ch.by = None => ch.held = {}
                      /\ ch.by # None => challenges[ch.proof].uses = <<[op |-> "add", sub |-> ch.sub, key |-> ch.by]>>
    BY DEF Vouched
  <2>1. PICK c : c = credentials[k].from
    OBVIOUS
  <2>2. /\ k \in Approved /\ c \in DOMAIN challenges /\ challenges[c].type = "registration"
        /\ challenges[c].sub = credentials[k].sub
        /\ challenges[c].uses = <<[op |-> "enrol", sub |-> challenges[c].sub, key |-> k]>>
    BY <1>0, <2>1 DEF Rows, KeyAt
  <2>3. IssuedAt(c)
    BY <1>0, <2>2 DEF Rows
  <2> QED BY <2>1, <2>2, <2>3 DEF IssuedAt, UnlockedBy
<1>3. FirstKeyTold
  BY <1>0 DEF FirstKeyTold, Rows, Told, Telling
<1>4. NotLockedOut
  BY <1>0 DEF NotLockedOut, Rows, KeyAt
<1>5. TypeOK
  <2>1. ASSUME NEW k \in Keys, credentials[k] # None
        PROVE  /\ credentials[k].sub \in Users /\ credentials[k].from \in DOMAIN challenges
               /\ credentials[k].counter \in 0..MaxSigned
    <3>1. credentials[k] \in Row
      BY <1>0, <2>1 DEF Typed
    <3>2. credentials[k].sub \in Users /\ credentials[k].counter \in Nat
      BY <3>1 DEF Row
    <3>3. credentials[k].from \in DOMAIN challenges /\ signed[k] # None /\ credentials[k].counter <= signed[k]
      BY <1>0, <2>1 DEF Rows, KeyAt
    <3>4. signed[k] \in 0..MaxSigned /\ MaxSigned \in Nat
      BY <1>0, <3>3 DEF Typed, Constants
    <3> QED BY <3>2, <3>3, <3>4
  <2>2. ASSUME NEW c \in DOMAIN challenges
        PROVE  challenges[c].type \in Types /\ challenges[c].state \in {"live", "expired", "gone"}
    <3>1. challenges[c] \in Challenge
      BY <1>0, ChallengeTyped
    <3> QED BY <3>1 DEF Challenge
  <2>3. ASSUME NEW r \in Slots, req[r] # None PROVE req[r].at \in Points
    <3>1. req[r] \in Handler
      BY <1>0, <2>3 DEF Typed
    <3> QED BY <3>1 DEF Handler
  <2>4. requests <= MaxRequests /\ faults <= MaxFaults
    BY <1>0 DEF Typed, Constants
  <2> QED BY <1>0, <2>1, <2>2, <2>3, <2>4 DEF TypeOK, Typed, Points
<1> QED BY <1>1, <1>2, <1>3, <1>4, <1>5 DEF KeysSound

\* Whoever registers, unlocks and recovers at the same time, and whatever call
\* fails: a challenge is used once, by whom and for what it was issued; a key
\* is there because its user had none or another of his keys unlocked it; the
\* operator hears of each first key; and a stored counter never passes the
\* authenticator's.
THEOREM KeysStaySound == ASSUME Constants PROVE Spec => [](TypeOK /\ KeysSound)
<1>1. Init => IInv
  BY InitHolds
<1>2. IInv /\ [Next]_vars => IInv'
  BY NextKeeps
<1>3. IInv => TypeOK /\ KeysSound
  BY Sound
<1> QED BY <1>1, <1>2, <1>3, PTL DEF Spec

-----------------------------------------------------------------------------
(* The agent, the tools and the gates to a mailbox: AgentDesk. *)

CONSTANTS NoText, Mail, New, Spots, Jobs, Bodies, Answers, Verdicts, Mailboxes, Box, Acls, Tokens, Lower,
          Dev, ListCap, MaxSteps, MaxMisses, MaxEdits
VARIABLES emails, made, run, job, chat, removed, roots, gone, acl, session, misses, edits
Agent == INSTANCE AgentDesk WITH Slots <- Spots, MaxFaults <- MaxMisses, faults <- misses

Notes == {"created", "suspended", "blocked"}
\* What is written, with the mail it may quote; a row, in the thread of that mail.
isBody(b) ==
  /\ b = [text |-> b.text, quote |-> b.quote] /\ b.text \notin Notes \cup {None}
  /\ b.quote # None => b.quote \in DOMAIN Mail
isRow(r) ==
  /\ r = [folder |-> r.folder, thread |-> r.thread, body |-> r.body, root |-> r.root, by |-> r.by]
  /\ isBody(r.body) /\ r.by \in {"agent", "user"}
  /\ r.body.quote # None => r.thread = Mail[r.body.quote].thread
isCall(c) == c = [op |-> c.op, id |-> c.id, row |-> c.row]
\* What the constants are: the mail is of rows, a slot is used once and no
\* mail's, a caller quotes nothing, an answer that is a string has no fields, and
\* None is nothing else.
AgentConstants ==
  /\ \A i \in DOMAIN Mail : isRow(Mail[i]) /\ Mail[i].root = i /\ Mail[i].thread # None
  /\ New \in DOMAIN Mail /\ Spots \in Seq(Range(Spots))
  /\ \A n \in 1 .. Len(Spots) : Spots[n] \notin DOMAIN Mail
  /\ \A n, m \in 1 .. Len(Spots) : Spots[n] = Spots[m] => n = m
  /\ \A b \in Bodies : isBody(b) /\ b.quote = None
  /\ \A a \in Answers \ {None} : a.top # None => a.response = None /\ a.nested = None
  /\ "YES" \notin {None, NoText} /\ "agent" \notin Jobs
  /\ None \notin Agent!Ids \cup Agent!Present \cup Notes \cup {"blank", "cleaned"}
       /\ ~isRow(None) /\ ~isCall(None)
  /\ MaxSteps \in Nat /\ MaxMisses \in Nat /\ MaxEdits \in Nat

Spare == {Spots[n] : n \in made + 1 .. Len(Spots)}
\* A call carries a row; what it is to remove has that row's root.
CallFits(c) ==
  /\ isCall(c) /\ c.op \in {"create", "replace", "delete"} /\ isRow(c.row)
  /\ c.row.root \in roots \cup {None}
  /\ c.op # "create" => /\ c.id \in Agent!Ids \ Spare /\ c.row.root \in roots
                        /\ emails[c.id] # None => emails[c.id].root = c.row.root
  /\ c.op = "delete" => c.row.folder = "draft"
RowFits(i, r) ==
  isRow(r) /\ r.root \in roots /\ (i \in DOMAIN Mail => r.thread = Mail[i].thread)
MailInv ==
  /\ DOMAIN emails = Agent!Ids /\ DOMAIN job = Jobs \cup {"agent"} /\ made \in 0 .. Len(Spots)
  /\ \A i \in Agent!Ids : emails[i] # None => RowFits(i, emails[i])
  /\ \A i \in Spare : emails[i] = None
  /\ \A j \in DOMAIN job : job[j] # None => CallFits(job[j])
  /\ roots \subseteq Agent!Ids /\ gone \subseteq roots
  /\ Agent!AgentRemovesDrafts /\ Agent!DraftsSurvive

\* The agent's run, by where it is.
Run ==
  [pc : {"idle", "body", "list", "thread", "model", "log", "inline", "done", "failed"}, asked : BOOLEAN,
   prompt : SUBSET ({"body", "history"} \X Agent!Ids), thread : SUBSET Agent!Ids,
   alarmed : SUBSET ({"body", "history"} \X Agent!Ids), steps : 0 .. MaxSteps, drafted : BOOLEAN,
     erred : BOOLEAN,
   made : Nat, text : {b.text : b \in Bodies} \cup {"blank"}]
Drafting == job["agent"] # None /\ job["agent"].op = "create"
RunInv ==
  /\ run \in Run /\ run.made <= made
  /\ run.pc \in {"idle", "body", "list", "thread"} =>
       /\ run.steps = 0 /\ run.made = 0 /\ ~run.drafted /\ ~run.asked /\ job["agent"] = None
       /\ run.alarmed = {} /\ run.prompt \subseteq {<<"body", New>>}
            /\ (run.pc \in {"idle", "body"} => run.prompt = {})
  /\ run.pc \notin {"model", "inline"} => job["agent"] = None
  /\ job["agent"] # None => job["agent"].op \in {"create", "delete"}
  /\ Agent!PromptScanned
  /\ run.pc # "done" => chat = None
  /\ run.pc \in {"model", "log"} =>
       /\ ~run.drafted => run.made = 0 /\ ~Drafting
       /\ run.drafted /\ ~run.erred => run.made > 0 \/ Drafting
  /\ run.pc = "log" => ~run.asked
  /\ run.pc = "inline" => ~run.asked /\ ~run.drafted /\ run.made <= 1 /\ (Drafting => run.made = 0)
  /\ run.pc = "done" =>
       /\ chat \in {"suspended", "blocked"} => run.steps = 0 /\ run.made = 0
       /\ chat = "created" /\ ~run.erred => run.made > 0
       /\ ~run.asked => chat # None
       /\ chat \notin {None, "created"} => run.made <= 1
RestInv ==
  /\ acl \in [Agent!Present -> Acls] /\ session \in Tokens /\ misses \in 0 .. MaxMisses
       /\ edits \in 0 .. MaxEdits

LEMMA VerifiedBody ==
  ASSUME AgentConstants, NEW b, isBody(b), NEW a, NEW v, v = Agent!verifyDraft(b, a), v # None
  PROVE  isBody(v) /\ v.quote = b.quote
<1>1. v = b \/ v = [b EXCEPT !.text = "cleaned"]
  BY DEF Agent!verifyDraft
<1>2. CASE v = b
  BY <1>2
<1>3. CASE v = [b EXCEPT !.text = "cleaned"]
  <2>1. b = [text |-> b.text, quote |-> b.quote]
    BY DEF isBody
  <2>2. v = [text |-> "cleaned", quote |-> b.quote]
    BY <1>3, <2>1
  <2>3. "cleaned" \notin Notes \cup {None}
    BY DEF AgentConstants, Notes
  <2>. QED BY <2>2, <2>3 DEF isBody
<1>. QED BY <1>1, <1>2, <1>3

LEMMA RowIsRow ==
  ASSUME NEW thread, NEW body, isBody(body), NEW j, NEW root, NEW r,
         r = Agent!rowOf(thread, body, j, root),
         body.quote # None => thread = Mail[body.quote].thread
  PROVE  isRow(r) /\ r.thread = thread /\ r.root = root /\ r.body = body /\ r.folder = "draft"
<1>1. r = [folder |-> "draft", thread |-> thread, body |-> body, root |-> root,
           by |-> IF j = "agent" THEN "agent" ELSE "user"]
  BY DEF Agent!rowOf
<1>. QED BY <1>1 DEF isRow

\* A text is in the prompt only if the model raised no alarm.
LEMMA ScanHears ==
  ASSUME AgentConstants, NEW a \in Answers, Agent!alarm(a)
  PROVE a = None \/ Agent!extractModelText(a) = "YES"
<1>. SUFFICES ASSUME a # None PROVE Agent!extractModelText(a) = "YES"
  OBVIOUS
<1>1. "YES" # None /\ "YES" # NoText /\ (a.top # None => a.response = None /\ a.nested = None)
  BY DEF AgentConstants
<1>2. a.top = None
  BY <1>1 DEF Agent!alarm
<1>3. CASE a.response = "YES"
  BY <1>1, <1>2, <1>3 DEF Agent!extractModelText
<1>4. CASE a.response = None /\ a.nested = "YES"
  BY <1>1, <1>2, <1>4 DEF Agent!extractModelText
<1>. QED BY <1>3, <1>4 DEF Agent!alarm

(* ---------------------------------------------------------------- the gates *)

LEMMA GatesSame == ASSUME AgentConstants, ~Dev, NEW m \in Agent!Present PROVE
  /\ Agent!verifyMailbox(m) <=> Agent!agentRouteOpen(<<"agents", "email-agent", m>>, session)
  /\ m \in Agent!listMailboxes => (m \in Agent!mcpListMailboxes <=> Agent!verifyMailbox(m))
<1>. DEFINE segments == <<"agents", "email-agent", m>>
<1>1. Agent!emailAgentMailboxIdFromPath(segments) = m
  <2>1. Len(segments) = 3 /\ segments[1] = "agents" /\ segments[2] = "email-agent" /\ segments[3] = m
    OBVIOUS
  <2>2. SubSeq(segments, 1, 2) = <<"agents", "email-agent">>
    <3>. DEFINE S == {"agents", "email-agent", m}
                s == SubSeq(segments, 1, 2)
                t == <<"agents", "email-agent">>
    <3>1. segments[1] \in S /\ segments[2] \in S
      OBVIOUS
    <3>2. t \in Seq(S) /\ Len(t) = 2 /\ t[1] = "agents" /\ t[2] = "email-agent"
      OBVIOUS
    <3>. HIDE DEF S, s, t, segments
    <3>3. \A i \in 1 .. 2 : segments[i] \in S
      BY <3>1
    <3>4. s \in Seq(S) /\ Len(s) = 2 /\ s[1] = segments[1] /\ s[2] = segments[2]
      BY <3>3, SubSeqProperties DEF s
    <3>5. s = t
      BY <2>1, <3>2, <3>4, SeqEqual
    <3>. QED BY <3>5 DEF s, t
  <2>. QED BY <2>1, <2>2 DEF Agent!emailAgentMailboxIdFromPath
<1>2. m # None
  BY DEF AgentConstants
<1>3. Agent!agentRouteOpen(segments, session) <=> Agent!callerAllowedForMailbox(m, session)
  BY <1>1, <1>2 DEF Agent!agentRouteOpen
<1>4. Agent!callerAllowedForMailbox(m, session)
        <=> Agent!callerInAcl(acl[m], Agent!callerEmailFromJwt(session),
          Agent!callerGroupsFromJwt(session))
  BY DEF Agent!callerAllowedForMailbox, Agent!callerInAcl
<1>. QED BY <1>3, <1>4 DEF Agent!verifyMailbox, Agent!mcpListMailboxes

(* ------------------------------------------------- the mailbox and the calls *)

\* A call that begins fits: the row is not in the mailbox yet.
LEMMA BeginsFits ==
  ASSUME AgentConstants, MailInv, NEW j \in DOMAIN job, job[j] = None, NEW c, CallFits(c),
         job' = [job EXCEPT ![j] = c], UNCHANGED Agent!mailbox
  PROVE  MailInv'
<1>1. UNCHANGED <<emails, made, removed, roots, gone>>
  BY DEF Agent!mailbox
<1>2. DOMAIN job' = DOMAIN job /\ job'[j] = c /\ \A k \in DOMAIN job : k # j => job'[k] = job[k]
  OBVIOUS
<1>3. \A k \in DOMAIN job : job'[k] # None => CallFits(job'[k])
  BY <1>2 DEF MailInv
<1>4. \A k \in DOMAIN job' : job'[k] # None => CallFits(job[k])'
  BY <1>1, <1>2, <1>3 DEF CallFits, Spare
<1>5. Agent!DraftsSurvive'
  <2>. SUFFICES ASSUME NEW r \in roots \ gone
       PROVE  \/ \E i \in Agent!live : emails[i].root = r
              \/ \E k \in DOMAIN job : job'[k] # None /\ job'[k].op = "create" /\ job'[k].row.root = r
    BY <1>1, <1>2 DEF Agent!DraftsSurvive, Agent!live
  <2>1. \/ \E i \in Agent!live : emails[i].root = r
        \/ \E k \in DOMAIN job : job[k] # None /\ job[k].op = "create" /\ job[k].row.root = r
    BY DEF MailInv, Agent!DraftsSurvive
  <2>. QED BY <1>2, <2>1
<1>. QED BY <1>1, <1>2, <1>4, <1>5 DEF MailInv, RowFits, Spare, Agent!AgentRemovesDrafts

LEMMA SameMail == ASSUME MailInv, UNCHANGED Agent!mailbox, UNCHANGED job PROVE MailInv'
<1>1. UNCHANGED <<emails, made, removed, roots, gone, job>>
  BY DEF Agent!mailbox
<1>. QED BY <1>1 DEF MailInv, RowFits, CallFits, Spare, Agent!AgentRemovesDrafts,
    Agent!DraftsSurvive, Agent!live

\* Rows go, their roots are given up, and calls end.
Loses ==
  /\ UNCHANGED <<made, roots>> /\ Agent!AgentRemovesDrafts' /\ gone \subseteq gone'
       /\ gone' \subseteq roots
  /\ DOMAIN emails' = Agent!Ids /\ DOMAIN job' = DOMAIN job
  /\ \A i \in Agent!Ids : \/ emails'[i] = emails[i]
                          \/ emails'[i] = None /\ (emails[i] # None => emails[i].root \in gone')
  /\ \A k \in DOMAIN job : \/ job'[k] = job[k]
                           \/ /\ job'[k] = None
                              /\ job[k].op = "create" => job[k].row.root \in gone' \cup {None}
LEMMA LostMail == ASSUME AgentConstants, MailInv, Loses PROVE MailInv'
<1>. USE DEF Loses
<1>1. Spare' = Spare
  BY DEF Spare
<1>2. \A i \in Agent!Ids : emails'[i] # None => RowFits(i, emails[i])'
  BY DEF MailInv, RowFits
<1>3. \A i \in Spare : emails'[i] = None
  <2>1. Spare \subseteq Agent!Ids
    BY DEF Spare, Agent!Ids, Agent!Range, Range, MailInv, AgentConstants
  <2>. QED BY <2>1 DEF MailInv
<1>4. \A k \in DOMAIN job' : job'[k] # None => CallFits(job[k])'
  BY <1>1 DEF MailInv, CallFits
<1>5. Agent!DraftsSurvive'
  <2>. SUFFICES ASSUME NEW r \in roots \ gone'
       PROVE  \/ \E i \in Agent!Ids : emails'[i] # None /\ emails'[i].root = r
              \/ \E k \in DOMAIN job : job'[k] # None /\ job'[k].op = "create" /\ job'[k].row.root = r
    BY DEF Agent!DraftsSurvive, Agent!live
  <2>1. \/ \E i \in Agent!Ids : emails[i] # None /\ emails[i].root = r
        \/ \E k \in DOMAIN job : job[k] # None /\ job[k].op = "create" /\ job[k].row.root = r
    BY DEF MailInv, Agent!DraftsSurvive, Agent!live
  <2>2. r # None
    BY DEF MailInv, AgentConstants
  <2>. QED BY <2>1, <2>2
<1>. QED BY <1>1, <1>2, <1>3, <1>4, <1>5 DEF MailInv

LEMMA LiveIsNotSpare == ASSUME MailInv, NEW id \in Agent!live
PROVE id \in Agent!Ids \ Spare /\ RowFits(id, emails[id])
BY DEF MailInv, Agent!live

\* Of userDeletes, toolDeleteEmail and delete: a row goes and its root is given up.
LEMMA RemovedMail ==
  ASSUME AgentConstants, MailInv, NEW id \in Agent!Ids \ Spare,
           emails' = [emails EXCEPT ![id] = None], Agent!gaveUp(id),
         UNCHANGED <<made, roots>>, Agent!AgentRemovesDrafts',
         \/ UNCHANGED job
         \/ \E j \in DOMAIN job : job[j] # None /\ job[j].op # "create"
              /\ job' = [job EXCEPT ![j] = None]
  PROVE  MailInv'
<1>1. DOMAIN emails' = Agent!Ids /\ emails'[id] = None /\ \A i \in Agent!Ids : i # id =>
        emails'[i] = emails[i]
  BY DEF MailInv
<1>2. DOMAIN job' = DOMAIN job
      /\ \A k \in DOMAIN job : \/ job'[k] = job[k]
                               \/ job'[k] = None /\ job[k].op # "create"
  OBVIOUS
<1>3. gone \subseteq gone' /\ gone' \subseteq roots /\ (emails[id] # None => emails[id].root \in gone')
  <2>1. id \in Agent!live <=> emails[id] # None
    BY DEF Agent!live
  <2>2. emails[id] # None => emails[id].root \in roots
    BY DEF MailInv, RowFits
  <2>. QED BY <2>1, <2>2 DEF Agent!gaveUp, MailInv
<1>4. \A i \in Agent!Ids : \/ emails'[i] = emails[i]
                           \/ emails'[i] = None /\ (emails[i] # None => emails[i].root \in gone')
  BY <1>1, <1>3
<1>5. \A k \in DOMAIN job : \/ job'[k] = job[k]
                            \/ /\ job'[k] = None
                               /\ job[k].op = "create" => job[k].row.root \in gone' \cup {None}
  BY <1>2
<1>6. DOMAIN emails' = Agent!Ids /\ DOMAIN job' = DOMAIN job /\ gone \subseteq gone'
        /\ gone' \subseteq roots
  BY <1>1, <1>2, <1>3
<1>7. Loses
  BY <1>4, <1>5, <1>6 DEF Loses
<1>. QED BY <1>7, LostMail

LEMMA FailedMail == ASSUME AgentConstants, MailInv, NEW j \in DOMAIN job, Agent!failCall(j)
PROVE MailInv'
<1>. DEFINE c == job[j]
<1>1. c # None /\ CallFits(c)
  BY DEF Agent!failCall, MailInv
<1>2. PICK lost \in (IF c.op = "create" THEN {FALSE} ELSE BOOLEAN) :
        /\ emails' = (IF lost THEN [emails EXCEPT ![c.id] = None] ELSE emails)
        /\ gone' = (IF (lost \/ c.op = "create") /\ c.row.root # None
                     THEN gone \cup {c.row.root} ELSE gone)
  BY DEF Agent!failCall
<1>3. UNCHANGED <<made, removed, roots>> /\ job' = [job EXCEPT ![j] = None]
  BY DEF Agent!failCall, Agent!ends
<1>4. DOMAIN job' = DOMAIN job /\ job'[j] = None /\ \A k \in DOMAIN job : k # j => job'[k] = job[k]
  BY <1>3
<1>5. c.row.root # None => c.row.root \in roots
  BY <1>1 DEF CallFits
<1>6. gone \subseteq gone' /\ gone' \subseteq roots /\ (c.op = "create" =>
        c.row.root \in gone' \cup {None})
  BY <1>2, <1>5 DEF MailInv
<1>7. DOMAIN emails' = Agent!Ids
      /\ \A i \in Agent!Ids : \/ emails'[i] = emails[i]
                              \/ emails'[i] = None /\ (emails[i] # None => emails[i].root \in gone')
  <2>1. CASE ~lost
    BY <1>2, <2>1 DEF MailInv
  <2>2. CASE lost
    <3>1. c.op # "create" /\ c.row.root \in roots /\ c.id \in Agent!Ids
          /\ (emails[c.id] # None => emails[c.id].root = c.row.root)
      BY <1>1, <1>2, <2>2 DEF CallFits
    <3>2. c.row.root # None
      BY <3>1 DEF MailInv, AgentConstants
    <3>3. c.row.root \in gone' /\ emails' = [emails EXCEPT ![c.id] = None]
      BY <1>2, <2>2, <3>2
    <3>. QED BY <3>1, <3>3 DEF MailInv
  <2>. QED BY <2>1, <2>2
<1>8. Agent!AgentRemovesDrafts'
  BY <1>3 DEF MailInv, Agent!AgentRemovesDrafts
<1>9. \A k \in DOMAIN job : \/ job'[k] = job[k]
                            \/ /\ job'[k] = None
                               /\ job[k].op = "create" => job[k].row.root \in gone' \cup {None}
  BY <1>4, <1>6
<1>10. DOMAIN job' = DOMAIN job /\ UNCHANGED <<made, roots>>
  BY <1>3, <1>4
<1>11. Loses
  BY <1>6, <1>7, <1>8, <1>9, <1>10 DEF Loses
<1>. QED BY <1>11, LostMail

\* Of userMoves and toolMoveEmail.
LEMMA MovedMail ==
  ASSUME AgentConstants, MailInv, NEW id \in Agent!live, NEW f,
           emails' = [emails EXCEPT ![id].folder = f],
         gone' = (IF f = "draft" THEN gone ELSE gone \cup {emails[id].root}),
         UNCHANGED <<made, removed, roots, job>>
  PROVE  MailInv'
<1>1. id \in Agent!Ids /\ RowFits(id, emails[id])
  BY DEF Agent!live, MailInv
<1>. DEFINE old == emails[id]
            new == [old EXCEPT !.folder = f]
<1>2. DOMAIN emails' = Agent!Ids /\ emails'[id] = new /\ \A i \in Agent!Ids : i # id =>
        emails'[i] = emails[i]
  BY <1>1 DEF MailInv
<1>3. old = [folder |-> old.folder, thread |-> old.thread, body |-> old.body, root |-> old.root,
        by |-> old.by]
  BY <1>1 DEF RowFits, isRow
<1>. HIDE DEF old
<1>4. new = [folder |-> f, thread |-> old.thread, body |-> old.body, root |-> old.root, by |-> old.by]
  BY <1>3
<1>5. isRow(old) /\ old.root \in roots /\ (id \in DOMAIN Mail => old.thread = Mail[id].thread)
  BY <1>1 DEF RowFits, old
<1>. HIDE DEF new
<1>6. isRow(new) /\ new.root = old.root /\ new.thread = old.thread
  BY <1>4, <1>5 DEF isRow
<1>7. new # None
  BY <1>6 DEF AgentConstants
<1>8. \A i \in Agent!Ids : emails'[i] # None => RowFits(i, emails'[i])
  BY <1>2, <1>5, <1>6 DEF MailInv, RowFits
<1>9. \A i \in Agent!Ids : (emails'[i] = None <=> emails[i] = None)
                     /\ (emails[i] # None => emails'[i].root = emails[i].root)
  BY <1>2, <1>6, <1>7 DEF old, Agent!live
<1>10. Spare' = Spare /\ gone \subseteq gone' /\ gone' \subseteq roots
  BY <1>5 DEF Spare, MailInv, old
<1>11. Agent!DraftsSurvive'
  <2>. SUFFICES ASSUME NEW r \in roots \ gone'
       PROVE  \/ \E i \in Agent!Ids : emails'[i] # None /\ emails'[i].root = r
              \/ \E k \in DOMAIN job : job[k] # None /\ job[k].op = "create" /\ job[k].row.root = r
    BY DEF Agent!DraftsSurvive, Agent!live
  <2>1. \/ \E i \in Agent!Ids : emails[i] # None /\ emails[i].root = r
        \/ \E k \in DOMAIN job : job[k] # None /\ job[k].op = "create" /\ job[k].row.root = r
    BY <1>10 DEF MailInv, Agent!DraftsSurvive, Agent!live
  <2>. QED BY <1>9, <2>1
<1>12. \A i \in Agent!Ids : emails'[i] # None => RowFits(i, emails[i])'
  BY <1>8 DEF RowFits
<1>13. \A k \in DOMAIN job : job[k] # None => CallFits(job[k])'
  BY <1>9, <1>10 DEF MailInv, CallFits
<1>14. \A i \in Spare : emails'[i] = None
  <2>1. Spare \subseteq Agent!Ids
    BY DEF Spare, Agent!Ids, Agent!Range, Range, MailInv, AgentConstants
  <2>. QED BY <1>9, <2>1 DEF MailInv
<1>. QED BY <1>2, <1>10, <1>11, <1>12, <1>13, <1>14 DEF MailInv, Agent!AgentRemovesDrafts

LEMMA CreatedMail == ASSUME AgentConstants, MailInv, NEW j \in DOMAIN job, Agent!create(j)
PROVE MailInv'
<1>. DEFINE c == job[j]
            id == Spots[made + 1]
            row == c.row
            thread == IF row.thread = None THEN id ELSE row.thread
            root == IF row.root = None THEN id ELSE row.root
            new == [row EXCEPT !.thread = thread, !.root = root]
<1>1. c # None /\ CallFits(c) /\ c.op = "create" /\ made < Len(Spots)
  BY DEF Agent!create, MailInv
<1>2. emails' = [emails EXCEPT ![id] = new] /\ made' = made + 1 /\ UNCHANGED <<removed, gone>>
      /\ roots' = (IF row.root = None THEN roots \cup {id} ELSE roots)
           /\ job' = [job EXCEPT ![j] = None]
  BY DEF Agent!create, Agent!ends
<1>3. Len(Spots) \in Nat /\ made \in 0 .. Len(Spots) /\ made + 1 \in 1 .. Len(Spots)
  BY <1>1 DEF MailInv, AgentConstants
<1>4. id \in Spare /\ id \in Agent!Ids /\ id \notin DOMAIN Mail
  BY <1>3 DEF Spare, Agent!Ids, Agent!Range, Range, AgentConstants
<1>5. Spare' \subseteq Spare /\ id \notin Spare'
  <2>1. \A n \in made' + 1 .. Len(Spots) : n \in made + 1 .. Len(Spots) /\ n \in 1 .. Len(Spots)
          /\ n # made + 1
    BY <1>2, <1>3
  <2>. QED BY <1>3, <2>1 DEF Spare, AgentConstants
<1>6. isRow(row) /\ (row.root = None \/ row.root \in roots)
  BY <1>1 DEF CallFits
<1>7. row = [folder |-> row.folder, thread |-> row.thread, body |-> row.body, root |-> row.root,
        by |-> row.by]
  BY <1>6 DEF isRow
<1>8. row.body.quote # None => row.thread = Mail[row.body.quote].thread /\ row.thread # None
  <2>1. row.body.quote # None => row.body.quote \in DOMAIN Mail
          /\ row.thread = Mail[row.body.quote].thread
    BY <1>6 DEF isRow, isBody
  <2>. QED BY <2>1 DEF AgentConstants
<1>. HIDE DEF row, thread, root, id, c
<1>20. new = [row EXCEPT !.thread = thread, !.root = root]
  BY DEF new
<1>. HIDE DEF new
<1>9. new = [folder |-> row.folder, thread |-> thread, body |-> row.body, root |-> root, by |-> row.by]
  BY <1>7, <1>20
<1>10. isRow(new) /\ new.root = root
  BY <1>6, <1>8, <1>9 DEF isRow, thread
<1>11. new # None
  BY <1>10 DEF AgentConstants
<1>12. DOMAIN emails' = Agent!Ids /\ emails'[id] = new /\ \A i \in Agent!Ids : i # id =>
         emails'[i] = emails[i]
  BY <1>2, <1>4 DEF MailInv
<1>13. DOMAIN job' = DOMAIN job /\ job'[j] = None /\ \A k \in DOMAIN job : k # j => job'[k] = job[k]
  BY <1>2
<1>14. roots \subseteq roots' /\ root \in roots' /\ roots' \subseteq Agent!Ids
  BY <1>2, <1>4, <1>6 DEF MailInv, root
<1>15. \A i \in Agent!Ids : emails'[i] # None => RowFits(i, emails[i])'
  BY <1>4, <1>10, <1>12, <1>14 DEF MailInv, RowFits
<1>16. \A k \in DOMAIN job' : job'[k] # None => CallFits(job[k])'
  <2>. SUFFICES ASSUME NEW k \in DOMAIN job, k # j, job[k] # None PROVE CallFits(job[k])'
    BY <1>13
  <2>1. CallFits(job[k]) /\ job'[k] = job[k]
    BY <1>13 DEF MailInv
  <2>2. job[k].op # "create" => job[k].id \in Agent!Ids \ Spare'
          /\ emails'[job[k].id] = emails[job[k].id]
    BY <1>4, <1>5, <1>12, <2>1 DEF CallFits
  <2>. QED BY <1>14, <2>1, <2>2 DEF CallFits
<1>17. Agent!DraftsSurvive'
  <2>. SUFFICES ASSUME NEW r \in roots' \ gone
       PROVE  \/ \E i \in Agent!Ids : emails'[i] # None /\ emails'[i].root = r
              \/ \E k \in DOMAIN job : job'[k] # None /\ job'[k].op = "create" /\ job'[k].row.root = r
    BY <1>2, <1>13 DEF Agent!DraftsSurvive, Agent!live
  <2>1. CASE r = root
    BY <1>4, <1>10, <1>11, <1>12, <2>1
  <2>2. CASE r # root
    <3>1. r \in roots /\ r # None
      BY <1>2, <1>14, <2>2 DEF AgentConstants, root
    <3>2. r # row.root
      BY <2>2, <3>1 DEF root
    <3>3. \/ \E i \in Agent!Ids : emails[i] # None /\ emails[i].root = r
          \/ \E k \in DOMAIN job : job[k] # None /\ job[k].op = "create" /\ job[k].row.root = r
      BY <3>1 DEF MailInv, Agent!DraftsSurvive, Agent!live
    <3>4. emails[id] = None
      BY <1>4 DEF MailInv
    <3>. QED BY <1>12, <1>13, <3>2, <3>3, <3>4 DEF row, c
  <2>. QED BY <2>1, <2>2
<1>18. \A i \in Spare' : emails'[i] = None
  <2>1. Spare \subseteq Agent!Ids
    BY DEF Spare, Agent!Ids, Agent!Range, Range, MailInv, AgentConstants
  <2>. QED BY <1>5, <1>12, <2>1 DEF MailInv
<1>19. made' \in 0 .. Len(Spots) /\ gone' \subseteq roots' /\ Agent!AgentRemovesDrafts'
  BY <1>2, <1>3, <1>14 DEF MailInv, Agent!AgentRemovesDrafts
<1>. QED BY <1>12, <1>13, <1>14, <1>15, <1>16, <1>17, <1>18, <1>19 DEF MailInv

LEMMA ReplacedMail == ASSUME AgentConstants, MailInv, NEW j \in DOMAIN job, Agent!replace(j)
PROVE MailInv'
<1>. DEFINE c == job[j]
            new == [c EXCEPT !.op = "create"]
<1>1. c # None /\ CallFits(c) /\ c.op = "replace"
  BY DEF Agent!replace, MailInv
<1>2. emails' = [emails EXCEPT ![c.id] = None] /\ job' = [job EXCEPT ![j] = new]
      /\ UNCHANGED <<made, removed, roots, gone>>
  BY DEF Agent!replace
<1>3. c = [op |-> c.op, id |-> c.id, row |-> c.row] /\ c.id \in Agent!Ids
      /\ (emails[c.id] # None => emails[c.id].root = c.row.root)
  BY <1>1 DEF CallFits, isCall
<1>. HIDE DEF c
<1>4. new = [op |-> "create", id |-> c.id, row |-> c.row]
  BY <1>3
<1>. HIDE DEF new
<1>5. isCall(new) /\ new.op = "create" /\ new.row = c.row /\ CallFits(new)
  BY <1>1, <1>4 DEF CallFits, isCall
<1>6. new # None
  BY <1>5 DEF AgentConstants
<1>7. DOMAIN emails' = Agent!Ids /\ emails'[c.id] = None /\ \A i \in Agent!Ids : i # c.id =>
        emails'[i] = emails[i]
  BY <1>2, <1>3 DEF MailInv
<1>8. DOMAIN job' = DOMAIN job /\ job'[j] = new /\ \A k \in DOMAIN job : k # j => job'[k] = job[k]
  BY <1>2
<1>9. Spare' = Spare
  BY <1>2 DEF Spare
<1>10. \A i \in Agent!Ids : emails'[i] # None => RowFits(i, emails[i])'
  BY <1>2, <1>7 DEF MailInv, RowFits
<1>11. \A k \in DOMAIN job' : job'[k] # None => CallFits(job[k])'
  <2>. SUFFICES ASSUME NEW k \in DOMAIN job, job'[k] # None PROVE CallFits(job[k])'
    BY <1>8
  <2>1. CallFits(job'[k])
    BY <1>5, <1>8 DEF MailInv
  <2>. QED BY <1>2, <1>7, <1>9, <2>1 DEF CallFits
<1>12. Agent!DraftsSurvive'
  <2>. SUFFICES ASSUME NEW r \in roots \ gone
       PROVE  \/ \E i \in Agent!Ids : emails'[i] # None /\ emails'[i].root = r
              \/ \E k \in DOMAIN job : job'[k] # None /\ job'[k].op = "create" /\ job'[k].row.root = r
    BY <1>2, <1>8 DEF Agent!DraftsSurvive, Agent!live
  <2>1. \/ \E i \in Agent!Ids : emails[i] # None /\ emails[i].root = r
        \/ \E k \in DOMAIN job : job[k] # None /\ job[k].op = "create" /\ job[k].row.root = r
    BY DEF MailInv, Agent!DraftsSurvive, Agent!live
  <2>2. c.op # "create"
    BY <1>1
  <2>. QED BY <1>3, <1>5, <1>6, <1>7, <1>8, <2>1, <2>2 DEF c
<1>13. \A i \in Spare : emails'[i] = None
  <2>1. Spare \subseteq Agent!Ids
    BY DEF Spare, Agent!Ids, Agent!Range, Range, MailInv, AgentConstants
  <2>. QED BY <1>7, <2>1 DEF MailInv
<1>. QED BY <1>2, <1>7, <1>8, <1>9, <1>10, <1>11, <1>12, <1>13 DEF MailInv, Agent!AgentRemovesDrafts

LEMMA DeletedMail == ASSUME AgentConstants, MailInv, NEW j \in DOMAIN job, Agent!delete(j)
PROVE MailInv'
<1>. DEFINE c == job[j]
<1>1. c # None /\ CallFits(c) /\ c.op = "delete"
  BY DEF Agent!delete, MailInv
<1>2. emails' = [emails EXCEPT ![c.id] = None] /\ Agent!gaveUp(c.id) /\ job' = [job EXCEPT ![j] = None]
      /\ UNCHANGED <<made, roots>> /\ removed' = removed \cup {[who |-> j, id |-> c.id,
           folder |-> c.row.folder]}
  BY DEF Agent!delete, Agent!ends
<1>3. c.id \in Agent!Ids \ Spare /\ c.row.folder = "draft"
  BY <1>1 DEF CallFits
<1>4. Agent!AgentRemovesDrafts'
  BY <1>2, <1>3 DEF MailInv, Agent!AgentRemovesDrafts
<1>. QED BY <1>1, <1>2, <1>3, <1>4, RemovedMail

(* ------------------------------------------------- what a tool is about to write *)

LEMMA NewRowFits ==
  ASSUME AgentConstants, MailInv, NEW c, NEW id, NEW row, c = [op |-> "create", id |-> id, row |-> row],
         isRow(row), row.root = None
  PROVE  CallFits(c)
<1>1. c = [op |-> c.op, id |-> c.id, row |-> c.row] /\ c.op = "create" /\ c.row = row
  OBVIOUS
<1>. QED BY <1>1 DEF CallFits, isCall

LEMMA RepliedMail ==
  ASSUME AgentConstants, MailInv, NEW j \in DOMAIN job, NEW id \in DOMAIN Mail, NEW b \in Bodies,
         Agent!toolDraftReply(j, id, b)
  PROVE  MailInv'
<1>. DEFINE original == emails[id]
            thread == IF original # None THEN original.thread ELSE id
<1>1. UNCHANGED Agent!mailbox /\ job[j] = None
  BY DEF Agent!toolDraftReply, Agent!free
<1>2. PICK a \in Answers :
        \/ UNCHANGED job
        \/ /\ Agent!verifyDraft(b, a) # None
           /\ job' = [job EXCEPT ![j] =
                [op |-> "create", id |-> id,
                 row |-> Agent!rowOf(thread,
                   [Agent!verifyDraft(b, a) EXCEPT !.quote = IF original # None THEN id ELSE None],
                     j, None)]]
  BY DEF Agent!toolDraftReply, Agent!begins
<1>3. CASE UNCHANGED job
  BY <1>1, <1>3, SameMail
<1>4. CASE ~UNCHANGED job
  <2>. DEFINE v == Agent!verifyDraft(b, a)
              quote == IF original # None THEN id ELSE None
              body == [v EXCEPT !.quote = quote]
              row == Agent!rowOf(thread, body, j, None)
              c == [op |-> "create", id |-> id, row |-> row]
  <2>1. v # None /\ job' = [job EXCEPT ![j] = c]
    BY <1>2, <1>4
  <2>2. isBody(v)
    BY <2>1, VerifiedBody DEF AgentConstants
  <2>3. v = [text |-> v.text, quote |-> v.quote] /\ v.text \notin Notes \cup {None}
    BY <2>2 DEF isBody
  <2>4. id \in Agent!Ids /\ (original # None => original.thread = Mail[id].thread)
    BY DEF MailInv, RowFits, Agent!Ids
  <2>. HIDE DEF v, quote
  <2>5. body = [text |-> v.text, quote |-> quote]
    BY <2>3
  <2>. HIDE DEF body
  <2>6. isBody(body) /\ body.quote = quote
    BY <2>3, <2>5 DEF isBody, quote
  <2>7. body.quote # None => thread = Mail[body.quote].thread
    BY <2>4, <2>6 DEF quote
  <2>. HIDE DEF thread
  <2>8. isRow(row) /\ row.root = None
    BY <2>6, <2>7, RowIsRow
  <2>. HIDE DEF row
  <2>9. CallFits(c)
    BY <2>8, NewRowFits
  <2>. QED BY <1>1, <2>1, <2>9, BeginsFits
<1>. QED BY <1>3, <1>4

LEMMA DraftedMail ==
  ASSUME AgentConstants, MailInv, NEW j \in DOMAIN job, NEW id, NEW b \in Bodies,
           Agent!toolDraftEmail(j, id, b)
  PROVE  MailInv'
<1>. DEFINE thread == IF id = None THEN None ELSE IF emails[id] # None THEN emails[id].thread ELSE id
            v(a) == IF j = "agent" THEN b ELSE Agent!verifyDraft(b, a)
            row(a) == Agent!rowOf(thread, v(a), j, None)
            c(a) == [op |-> "create", id |-> id, row |-> row(a)]
<1>1. UNCHANGED Agent!mailbox /\ job[j] = None
  BY DEF Agent!toolDraftEmail, Agent!free
<1>2. PICK a \in Answers : v(a) # None /\ job' = [job EXCEPT ![j] = c(a)]
  BY DEF Agent!toolDraftEmail, Agent!begins
<1>3. isBody(b) /\ b.quote = None
  BY DEF AgentConstants
<1>4. isBody(v(a)) /\ v(a).quote = None
  BY <1>2, <1>3, VerifiedBody
<1>. HIDE DEF v, thread
<1>5. isRow(row(a)) /\ row(a).root = None
  BY <1>4, RowIsRow
<1>. HIDE DEF row
<1>6. CallFits(c(a))
  BY <1>5, NewRowFits
<1>. QED BY <1>1, <1>2, <1>6, BeginsFits

LEMMA UpdatedMail ==
  ASSUME AgentConstants, MailInv, NEW j \in DOMAIN job, NEW id \in Agent!Ids,
           NEW b \in Bodies \cup {None},
         Agent!toolUpdateDraft(j, id, b)
  PROVE  MailInv'
<1>. DEFINE old == emails[id]
            body == IF b = None THEN old.body ELSE b
            v(a) == Agent!verifyDraft(body, a)
            row(a) == Agent!rowOf(old.thread, v(a), j, old.root)
            c(a) == [op |-> "replace", id |-> id, row |-> row(a)]
<1>1. UNCHANGED Agent!mailbox /\ job[j] = None /\ id \in Agent!live
  BY DEF Agent!toolUpdateDraft, Agent!free
<1>2. PICK a \in Answers : v(a) # None /\ job' = [job EXCEPT ![j] = c(a)]
  BY DEF Agent!toolUpdateDraft, Agent!begins
<1>3. id \in Agent!Ids \ Spare /\ isRow(old) /\ old.root \in roots
  BY <1>1, LiveIsNotSpare DEF RowFits
<1>4. isBody(body) /\ (body.quote # None => old.thread = Mail[body.quote].thread)
  BY <1>3 DEF isRow, AgentConstants
<1>. HIDE DEF body
<1>5. isBody(v(a)) /\ v(a).quote = body.quote
  BY <1>2, <1>4, VerifiedBody
<1>. HIDE DEF v
<1>6. isRow(row(a)) /\ row(a).root = old.root
  BY <1>4, <1>5, RowIsRow
<1>. HIDE DEF row
<1>7. CallFits(c(a))
  <2>1. c(a) = [op |-> c(a).op, id |-> c(a).id, row |-> c(a).row]
        /\ c(a).op = "replace" /\ c(a).id = id /\ c(a).row = row(a)
    OBVIOUS
  <2>. HIDE DEF c
  <2>. QED BY <1>3, <1>6, <2>1 DEF CallFits, isCall
<1>. QED BY <1>1, <1>2, <1>7, BeginsFits

LEMMA DiscardedMail ==
  ASSUME AgentConstants, MailInv, NEW j \in DOMAIN job, NEW id \in Agent!Ids,
           Agent!toolDiscardDraft(j, id)
  PROVE  MailInv'
<1>1. UNCHANGED Agent!mailbox /\ job[j] = None
  BY DEF Agent!toolDiscardDraft, Agent!free
<1>2. CASE id \in Agent!live /\ emails[id].folder = "draft"
  <2>. DEFINE row == emails[id]
              c == [op |-> "delete", id |-> id, row |-> row]
  <2>1. job' = [job EXCEPT ![j] = c]
    BY <1>2 DEF Agent!toolDiscardDraft, Agent!begins
  <2>2. id \in Agent!Ids \ Spare /\ isRow(row) /\ row.root \in roots /\ row.folder = "draft"
    BY <1>2, LiveIsNotSpare DEF RowFits
  <2>. HIDE DEF row
  <2>3. c = [op |-> c.op, id |-> c.id, row |-> c.row] /\ c.op = "delete" /\ c.id = id /\ c.row = row
    OBVIOUS
  <2>. HIDE DEF c
  <2>4. CallFits(c)
    BY <2>2, <2>3 DEF CallFits, isCall, row
  <2>. QED BY <1>1, <2>1, <2>4, BeginsFits
<1>3. CASE ~(id \in Agent!live /\ emails[id].folder = "draft")
  BY <1>1, <1>3, SameMail DEF Agent!toolDiscardDraft
<1>. QED BY <1>2, <1>3

\* The inline draft of generateText.
LEMMA InlineMail == ASSUME AgentConstants, MailInv, Agent!generateText PROVE MailInv'
<1>. DEFINE blank == [text |-> "blank", quote |-> None]
            v(b, a) == Agent!verifyDraft(b, a)
            own(b, a) == Agent!rowOf(Mail[New].thread, v(b, a), "inline", None)
            row(b, a) == [own(b, a) EXCEPT !.by = "user"]
            c(b, a) == [op |-> "create", id |-> New, row |-> row(b, a)]
<1>1. UNCHANGED Agent!mailbox /\ job["agent"] = None /\ "agent" \in DOMAIN job
  BY DEF Agent!generateText, MailInv
<1>2. PICK b \in Bodies \cup {blank} :
        \/ UNCHANGED job
        \/ \E a \in Answers : v(b, a) # None /\ job' = [job EXCEPT !["agent"] = c(b, a)]
  BY DEF Agent!generateText, Agent!begins
<1>3. isBody(b) /\ b.quote = None
  <2>1. CASE b \in Bodies
    BY <2>1 DEF AgentConstants
  <2>2. CASE b = blank
    <3>1. b.text = "blank" /\ b.quote = None /\ b = [text |-> b.text, quote |-> b.quote]
      BY <2>2
    <3>2. "blank" \notin Notes \cup {None}
      BY DEF Notes, AgentConstants
    <3>. QED BY <3>1, <3>2 DEF isBody
  <2>. QED BY <2>1, <2>2
<1>4. CASE UNCHANGED job
  BY <1>1, <1>4, SameMail
<1>5. CASE ~UNCHANGED job
  <2>1. PICK a \in Answers : v(b, a) # None /\ job' = [job EXCEPT !["agent"] = c(b, a)]
    BY <1>2, <1>5
  <2>2. isBody(v(b, a)) /\ v(b, a).quote = None
    BY <1>3, <2>1, VerifiedBody
  <2>. HIDE DEF v
  <2>3. own(b, a) = [folder |-> "draft", thread |-> Mail[New].thread, body |-> v(b, a),
          root |-> None, by |-> "user"]
    BY DEF Agent!rowOf
  <2>4. row(b, a) = own(b, a)
    BY <2>3
  <2>5. isRow(own(b, a)) /\ own(b, a).root = None
    BY <2>2, RowIsRow
  <2>. HIDE DEF row, own
  <2>6. CallFits(c(b, a))
    BY <2>4, <2>5, NewRowFits
  <2>. QED BY <1>1, <2>1, <2>6, BeginsFits
<1>. QED BY <1>4, <1>5

LEMMA MailStep == ASSUME AgentConstants, MailInv, [Agent!Next]_(Agent!vars) PROVE MailInv'
<1>1. CASE UNCHANGED Agent!vars
  BY <1>1, SameMail DEF Agent!vars, Agent!mailbox
<1>2. ASSUME UNCHANGED Agent!mailbox, UNCHANGED job PROVE MailInv'
  BY <1>2, SameMail
<1>3. ASSUME NEW j \in DOMAIN job, NEW id \in Agent!live, NEW f, Agent!toolMoveEmail(j, id,
               f) PROVE MailInv'
  BY <1>3, MovedMail DEF Agent!toolMoveEmail
<1>4. CASE Agent!agentStep
  <2>1. CASE Agent!handleNewEmail \/ Agent!onChatMessage \/ Agent!preReadBody
          \/ Agent!listThread \/ Agent!preReadThread
             \/ Agent!preReadFails \/ Agent!persistMessages \/ Agent!autoDraftFails
    BY <1>2, <2>1 DEF Agent!handleNewEmail, Agent!onChatMessage, Agent!preReadBody,
        Agent!listThread, Agent!preReadThread, Agent!preReadFails,
       Agent!persistMessages, Agent!autoDraftFails, Agent!calm
  <2>2. CASE Agent!createEmailTools
    <3>1. "agent" \in DOMAIN job
      BY DEF MailInv
    <3>2. CASE Agent!readingTool
      BY <1>2, <3>2 DEF Agent!readingTool
    <3>3. CASE \E b \in Bodies : Agent!toolDraftEmail("agent", None, b)
      BY <3>1, <3>3, DraftedMail
    <3>4. CASE \E id \in DOMAIN Mail, b \in Bodies : Agent!toolDraftReply("agent", id, b)
      BY <3>1, <3>4, RepliedMail
    <3>5. CASE \E id \in Agent!Ids, f \in {"draft", "trash"} : Agent!toolMoveEmail("agent", id, f)
      BY <1>3, <3>1, <3>5 DEF Agent!toolMoveEmail
    <3>6. CASE \E id \in Agent!Ids : Agent!toolDiscardDraft("agent", id)
      BY <3>1, <3>6, DiscardedMail
    <3>. QED BY <2>2, <3>2, <3>3, <3>4, <3>5, <3>6 DEF Agent!createEmailTools
  <2>3. CASE Agent!generateText
    BY <2>3, InlineMail
  <2>. QED BY <1>4, <2>1, <2>2, <2>3 DEF Agent!agentStep
<1>5. CASE Agent!userMoves
  BY <1>5, MovedMail DEF Agent!userMoves
<1>6. ASSUME NEW id \in Agent!live, emails' = [emails EXCEPT ![id] = None], Agent!gaveUp(id),
             UNCHANGED <<made, removed, roots, job>>
      PROVE  MailInv'
  <2>1. Agent!AgentRemovesDrafts'
    BY <1>6 DEF MailInv, Agent!AgentRemovesDrafts
  <2>. QED BY <1>6, <2>1, LiveIsNotSpare, RemovedMail
<1>7. CASE Agent!userDeletes
  BY <1>6, <1>7 DEF Agent!userDeletes
<1>8. CASE Agent!fetch \/ Agent!writeMailboxAcl
  BY <1>2, <1>8 DEF Agent!fetch, Agent!writeMailboxAcl
<1>9. CASE \E j \in Jobs : Agent!mcpTool(j)
  <2>. SUFFICES ASSUME NEW j \in DOMAIN job, Agent!mcpTool(j) PROVE MailInv'
    BY <1>9 DEF MailInv
  <2>1. CASE Agent!mcpDraftReply(j)
    BY <2>1, RepliedMail DEF Agent!mcpDraftReply
  <2>2. CASE Agent!mcpCreateDraft(j)
    BY <2>2, DraftedMail DEF Agent!mcpCreateDraft
  <2>3. CASE Agent!mcpUpdateDraft(j)
    BY <2>3, UpdatedMail DEF Agent!mcpUpdateDraft
  <2>4. CASE Agent!mcpDeleteEmail(j)
    BY <1>6, <2>4 DEF Agent!mcpDeleteEmail, Agent!toolDeleteEmail
  <2>5. CASE Agent!mcpMoveEmail(j)
    BY <1>3, <2>5 DEF Agent!mcpMoveEmail, Agent!toolMoveEmail
  <2>. QED BY <2>1, <2>2, <2>3, <2>4, <2>5 DEF Agent!mcpTool
<1>10. CASE \E j \in DOMAIN job : Agent!toolStep(j)
  BY <1>10, CreatedMail, ReplacedMail, DeletedMail, FailedMail DEF Agent!toolStep
<1>. QED BY <1>1, <1>4, <1>5, <1>7, <1>8, <1>9, <1>10 DEF Agent!Next

(* ------------------------------------------------------------ the agent's run *)

LEMMA RunSame ==
  ASSUME AgentConstants, MailInv, MailInv', RunInv, UNCHANGED <<run, chat>>,
           job'["agent"] = job["agent"], made <= made'
  PROVE  RunInv'
<1>1. run.made <= made'
  BY DEF RunInv, Run, MailInv, AgentConstants
<1>. QED BY <1>1 DEF RunInv, Agent!PromptScanned, Drafting

LEMMA RunFields == ASSUME run \in Run PROVE
  /\ run = [pc |-> run.pc, asked |-> run.asked, prompt |-> run.prompt, thread |-> run.thread,
            alarmed |-> run.alarmed, steps |-> run.steps, drafted |-> run.drafted, erred |-> run.erred,
            made |-> run.made, text |-> run.text]
  /\ run.pc \in {"idle", "body", "list", "thread", "model", "log", "inline", "done", "failed"}
  /\ run.asked \in BOOLEAN /\ run.drafted \in BOOLEAN /\ run.erred \in BOOLEAN
  /\ run.prompt \in SUBSET ({"body", "history"} \X Agent!Ids)
       /\ run.alarmed \in SUBSET ({"body", "history"} \X Agent!Ids)
  /\ run.thread \in SUBSET Agent!Ids /\ run.steps \in 0 .. MaxSteps /\ run.made \in Nat
  /\ run.text \in {b.text : b \in Bodies} \cup {"blank"}
BY DEF Run

LEMMA RunBegins == ASSUME AgentConstants, MailInv, RunInv, Agent!handleNewEmail
  \/ Agent!onChatMessage PROVE RunInv'
<1>1. run \in Run /\ run.pc = "idle" /\ job' = job /\ made' = made
  BY DEF Agent!handleNewEmail, Agent!onChatMessage, Agent!calm, Agent!mailbox, RunInv
<1>2. CASE Agent!handleNewEmail
  <2>1. PICK pc \in {"done", "body"} :
          /\ run' = [run EXCEPT !.pc = pc]
          /\ IF pc = "done" THEN chat' = "suspended" ELSE chat' = chat
    BY <1>2 DEF Agent!handleNewEmail, Agent!to, Agent!says
  <2>2. run' \in Run
    BY <1>1, <2>1 DEF Run
  <2>3. run'.pc = pc /\ run'.asked = run.asked /\ run'.prompt = run.prompt /\ run'.alarmed = run.alarmed
        /\ run'.steps = run.steps /\ run'.drafted = run.drafted /\ run'.erred = run.erred
             /\ run'.made = run.made
    BY <1>1, <2>1 DEF Run
  <2>. QED BY <1>1, <2>1, <2>2, <2>3 DEF RunInv, Agent!PromptScanned, Drafting, AgentConstants,
      Notes
<1>3. CASE Agent!onChatMessage
  <2>1. run' = [run EXCEPT !.pc = "model", !.asked = TRUE] /\ chat' = chat
    BY <1>3 DEF Agent!onChatMessage
  <2>2. run' \in Run
    BY <1>1, <2>1 DEF Run
  <2>3. run'.pc = "model" /\ run'.asked = TRUE /\ run'.prompt = run.prompt /\ run'.alarmed = run.alarmed
        /\ run'.steps = run.steps /\ run'.drafted = run.drafted /\ run'.erred = run.erred
             /\ run'.made = run.made
    BY <1>1, <2>1 DEF Run
  <2>. QED BY <1>1, <2>1, <2>2, <2>3 DEF RunInv, Agent!PromptScanned, Drafting, AgentConstants,
      Notes
<1>. QED BY <1>2, <1>3

\* A text scanned is in the prompt, or what the model raised an alarm over.
LEMMA ScanKeeps ==
  ASSUME AgentConstants, MailInv, RunInv, NEW short \in BOOLEAN, NEW texts \in SUBSET ({"body",
           "history"} \X Agent!Ids),
         texts \cap run.prompt = {}, NEW a \in Answers, NEW next,
         \/ run.pc = "body" /\ next = "list" /\ texts = {<<"body", New>>}
         \/ run.pc = "thread" /\ next = "model" /\ short = FALSE,
         Agent!scan(short, texts, a, next), UNCHANGED <<job, made>>
  PROVE  RunInv'
<1>1. run \in Run /\ run.pc \in {"body", "thread"} /\ next \in {"list", "model"}
  BY DEF RunInv
<1>2. run.steps = 0 /\ run.made = 0 /\ ~run.drafted /\ ~run.asked /\ job["agent"] = None
        /\ run.alarmed = {}
      /\ run.prompt \subseteq {<<"body", New>>} /\ (run.pc = "body" => run.prompt = {}) /\ chat = None
  BY <1>1 DEF RunInv
<1>3. Agent!isPromptInjection(short, a) => ~short
  BY DEF Agent!isPromptInjection
<1>4. ~short /\ Agent!alarm(a) => Agent!isPromptInjection(short, a)
  BY ScanHears DEF Agent!isPromptInjection
<1>5. CASE Agent!isPromptInjection(short, a)
  <2>1. run' = [run EXCEPT !.pc = "done", !.alarmed = run.alarmed \cup texts] /\ chat' = "blocked"
    BY <1>3, <1>5 DEF Agent!scan, Agent!says
  <2>2. run' \in Run
    BY <1>1, <2>1 DEF Run
  <2>3. run'.pc = "done" /\ run'.asked = run.asked /\ run'.prompt = run.prompt /\ run'.alarmed = texts
        /\ run'.steps = run.steps /\ run'.drafted = run.drafted /\ run'.erred = run.erred
             /\ run'.made = run.made
    BY <1>1, <1>2, <2>1 DEF Run
  <2>4. Agent!PromptScanned'
    BY <2>3 DEF Agent!PromptScanned
  <2>5. run'.made <= made'
    BY <1>2, <2>3 DEF RunInv
  <2>. QED BY <1>2, <2>1, <2>2, <2>3, <2>4, <2>5 DEF RunInv, Drafting, AgentConstants, Notes
<1>6. CASE ~Agent!isPromptInjection(short, a)
  <2>1. run' = [run EXCEPT !.pc = next, !.prompt = run.prompt \cup texts, !.alarmed = run.alarmed]
        /\ chat' = chat
    BY <1>4, <1>6 DEF Agent!scan
  <2>2. run' \in Run
    BY <1>1, <2>1 DEF Run
  <2>3. run'.pc = next /\ run'.asked = run.asked /\ run'.prompt = run.prompt \cup texts
          /\ run'.alarmed = {}
        /\ run'.steps = run.steps /\ run'.drafted = run.drafted /\ run'.erred = run.erred
             /\ run'.made = run.made
    BY <1>1, <1>2, <2>1 DEF Run
  <2>4. Agent!PromptScanned'
    BY <2>3 DEF Agent!PromptScanned
  <2>5. run'.made <= made'
    BY <1>2, <2>3 DEF RunInv
  <2>. QED BY <1>2, <2>1, <2>2, <2>3, <2>4, <2>5 DEF RunInv, Drafting, AgentConstants, Notes
<1>. QED BY <1>5, <1>6

LEMMA RunReads ==
  ASSUME AgentConstants, MailInv, RunInv, Agent!preReadBody \/ Agent!listThread \/ Agent!preReadThread
           \/ Agent!preReadFails
  PROVE  RunInv'
<1>1. run \in Run /\ run.pc \in {"body", "list", "thread"} /\ UNCHANGED <<job, made>>
  BY DEF Agent!preReadBody, Agent!listThread, Agent!preReadThread, Agent!preReadFails,
      Agent!calm, Agent!mailbox, RunInv
<1>2. run.steps = 0 /\ run.made = 0 /\ ~run.drafted /\ ~run.asked /\ job["agent"] = None
        /\ run.alarmed = {}
      /\ run.prompt \subseteq {<<"body", New>>} /\ (run.pc = "body" => run.prompt = {}) /\ chat = None
  BY <1>1 DEF RunInv
<1>3. New \in Agent!Ids /\ run.thread \subseteq Agent!Ids
  BY <1>1 DEF AgentConstants, Agent!Ids, Run
<1>4. ASSUME NEW pc \in {"list", "thread", "model"}, NEW thread \in SUBSET Agent!Ids, chat' = chat,
             run' = [run EXCEPT !.pc = pc, !.thread = thread]
      PROVE  RunInv'
  <2>1. run' \in Run
    BY <1>1, <1>4 DEF Run
  <2>2. run'.pc = pc /\ run'.asked = run.asked /\ run'.prompt = run.prompt /\ run'.alarmed = run.alarmed
        /\ run'.steps = run.steps /\ run'.drafted = run.drafted /\ run'.erred = run.erred
             /\ run'.made = run.made
    BY <1>1, <1>4 DEF Run
  <2>. QED BY <1>1, <1>2, <1>4, <2>1, <2>2 DEF RunInv, Agent!PromptScanned, Drafting
<1>5. ASSUME NEW pc, run' = [run EXCEPT !.pc = pc]
      PROVE run' = [run EXCEPT !.pc = pc, !.thread = run.thread]
  BY <1>1, <1>5 DEF Run
<1>6. CASE Agent!preReadBody
  <2>1. CASE run' = [run EXCEPT !.pc = "list"] /\ chat' = chat
    BY <1>3, <1>4, <1>5, <2>1
  <2>2. CASE ~(run' = [run EXCEPT !.pc = "list"] /\ chat' = chat)
    <3>1. PICK a \in Answers : Agent!scan(emails[New].body.text = "short", {<<"body", New>>}, a, "list")
      BY <1>6, <2>2 DEF Agent!preReadBody, Agent!to
    <3>2. {<<"body", New>>} \in SUBSET ({"body", "history"} \X Agent!Ids) /\ run.pc = "body"
          /\ {<<"body", New>>} \cap run.prompt = {}
      BY <1>2, <1>3, <1>6 DEF Agent!preReadBody
    <3>. QED BY <1>1, <3>1, <3>2, ScanKeeps
  <2>. QED BY <2>1, <2>2
<1>7. CASE Agent!listThread
  <2>. DEFINE thread == {i \in Agent!live : emails[i].thread = Mail[New].thread}
  <2>1. thread \in SUBSET Agent!Ids
    BY DEF Agent!live
  <2>. HIDE DEF thread
  <2>2. chat' = chat /\ \/ run' = [run EXCEPT !.pc = "thread", !.thread = thread]
                        \/ run' = [run EXCEPT !.pc = "model"]
    BY <1>7 DEF Agent!listThread, thread
  <2>. QED BY <1>3, <1>4, <1>5, <2>1, <2>2
<1>8. CASE Agent!preReadThread
  <2>. DEFINE texts == {<<"history", i>> : i \in run.thread \cap Agent!live}
  <2>1. PICK a \in Answers : Agent!scan(FALSE, texts, a, "model")
    BY <1>8 DEF Agent!preReadThread
  <2>2. texts \in SUBSET ({"body", "history"} \X Agent!Ids)
    BY <1>3
  <2>3. texts \cap run.prompt = {} /\ run.pc = "thread"
    BY <1>2, <1>8 DEF Agent!preReadThread
  <2>. HIDE DEF texts
  <2>. QED BY <1>1, <2>1, <2>2, <2>3, ScanKeeps
<1>9. CASE Agent!preReadFails
  BY <1>3, <1>4, <1>5, <1>9 DEF Agent!preReadFails, Agent!to
<1>. QED BY <1>6, <1>7, <1>8, <1>9

\* A tool of the agent's: the run counts a step, and may have begun a draft.
LEMMA RunTools ==
  ASSUME AgentConstants, MailInv, RunInv, run.pc = "model", run.steps < MaxSteps, job["agent"] = None,
         UNCHANGED <<chat, made>>, DOMAIN job' = DOMAIN job, NEW drafted \in BOOLEAN,
           NEW erred \in BOOLEAN,
         run' = [run EXCEPT !.steps = run.steps + 1, !.drafted = run.drafted \/ drafted,
                            !.erred = run.erred \/ erred],
         \/ job'["agent"] = None /\ (drafted => erred)
         \/ drafted /\ ~erred /\ job'["agent"] # None /\ job'["agent"].op = "create"
         \/ ~drafted /\ job'["agent"] # None /\ job'["agent"].op = "delete"
  PROVE  RunInv'
<1>1. run \in Run /\ run.steps \in 0 .. MaxSteps /\ MaxSteps \in Nat /\ run.drafted \in BOOLEAN
        /\ run.erred \in BOOLEAN
  BY RunFields DEF RunInv, AgentConstants
<1>2. run.steps + 1 \in 0 .. MaxSteps /\ (run.drafted \/ drafted) \in BOOLEAN
      /\ (run.erred \/ erred) \in BOOLEAN
  BY <1>1
<1>. DEFINE d == run.drafted \/ drafted
            e == run.erred \/ erred
<1>3. d \in BOOLEAN /\ e \in BOOLEAN
        /\ run' = [run EXCEPT !.steps = run.steps + 1, !.drafted = d, !.erred = e]
  OBVIOUS
<1>. HIDE DEF d, e
<1>4. run' \in Run
  BY <1>1, <1>2, <1>3 DEF Run
<1>5. run'.pc = run.pc /\ run'.asked = run.asked /\ run'.prompt = run.prompt
        /\ run'.alarmed = run.alarmed
      /\ run'.drafted = d /\ run'.erred = e /\ run'.made = run.made
  BY <1>1, <1>3 DEF Run
<1>6. Agent!PromptScanned'
  BY <1>5 DEF RunInv, Agent!PromptScanned
<1>7. ~d => run.made = 0 /\ ~Drafting'
  BY DEF d, RunInv, Drafting
<1>8. d /\ ~e => run.made > 0 \/ Drafting'
  BY DEF d, e, RunInv, Drafting
<1>. QED BY <1>4, <1>5, <1>6, <1>7, <1>8 DEF RunInv

LEMMA CountedRun ==
  ASSUME run \in Run, NEW drafted \in BOOLEAN, NEW erred \in BOOLEAN,
         \/ ~erred /\ run' = [Agent!steps EXCEPT !.drafted = @ \/ drafted]
         \/ drafted /\ erred /\ run' = [Agent!steps EXCEPT !.drafted = TRUE, !.erred = TRUE]
  PROVE  run' = [run EXCEPT !.steps = run.steps + 1, !.drafted = run.drafted \/ drafted,
                            !.erred = run.erred \/ erred]
<1>. DEFINE Fields(n, d, e) ==
       [pc |-> run.pc, asked |-> run.asked, prompt |-> run.prompt, thread |-> run.thread,
        alarmed |-> run.alarmed, steps |-> n, drafted |-> d, erred |-> e, made |-> run.made,
          text |-> run.text]
            s == Agent!steps
            n == run.steps + 1
            d == run.drafted \/ drafted
            e == run.erred \/ erred
            r == [run EXCEPT !.steps = n, !.drafted = d, !.erred = e]
<1>1. run = Fields(run.steps, run.drafted, run.erred) /\ run.drafted \in BOOLEAN
        /\ run.erred \in BOOLEAN
  BY RunFields
<1>2. s = [run EXCEPT !.steps = n]
  BY DEF Agent!steps
<1>3. d \in BOOLEAN /\ e \in BOOLEAN /\ (erred => d = TRUE /\ e = TRUE) /\ (~erred => e = run.erred)
      /\ (\/ ~erred /\ run' = [s EXCEPT !.drafted = d]
          \/ erred /\ run' = [s EXCEPT !.drafted = TRUE, !.erred = TRUE])
  <2>1. [Agent!steps EXCEPT !.drafted = @ \/ drafted] = [s EXCEPT !.drafted = run.drafted \/ drafted]
    <3>1. s.drafted = run.drafted
      BY <1>1, <1>2
    <3>. QED BY <3>1
  <2>. QED BY <1>1, <2>1, Zenon
<1>. HIDE DEF s, n, d, e
<1>4. s = Fields(n, run.drafted, run.erred)
  BY <1>1, <1>2
<1>5. r = Fields(n, d, e)
  <2>1. r = [run EXCEPT !.steps = n, !.drafted = d, !.erred = e]
    OBVIOUS
  <2>. HIDE DEF r
  <2>. QED BY <1>1, <2>1
<1>. HIDE DEF r
<1>6. ASSUME ~erred PROVE run' = r
  <2>1. run' = [s EXCEPT !.drafted = d] /\ e = run.erred
    BY <1>3, <1>6, Zenon
  <2>2. run' = Fields(n, d, run.erred)
    BY <1>4, <2>1
  <2>. HIDE DEF Fields
  <2>. QED BY <1>5, <2>1, <2>2, Zenon
<1>7. ASSUME erred PROVE run' = r
  <2>1. run' = [s EXCEPT !.drafted = TRUE, !.erred = TRUE] /\ d = TRUE /\ e = TRUE
    BY <1>3, <1>7, Zenon
  <2>2. run' = Fields(n, TRUE, TRUE)
    BY <1>4, <2>1
  <2>. HIDE DEF Fields
  <2>. QED BY <1>5, <2>1, <2>2, Zenon
<1>8. run' = r
  BY <1>6, <1>7, Zenon
<1>. QED BY <1>8, Zenon DEF r, n, d, e

LEMMA CallIsCall == ASSUME AgentConstants, NEW c, isCall(c) PROVE c # None
BY DEF AgentConstants

LEMMA RunCallsTool == ASSUME AgentConstants, MailInv, RunInv, Agent!createEmailTools PROVE RunInv'
<1>1. run \in Run /\ job["agent"] = None /\ "agent" \in DOMAIN job
  <2>1. Agent!free("agent")
    BY DEF Agent!createEmailTools, Agent!readingTool, Agent!toolDraftEmail,
        Agent!toolDraftReply, Agent!toolMoveEmail, Agent!toolDiscardDraft
  <2>. QED BY <2>1 DEF RunInv, MailInv, Agent!free
<1>2. run.pc = "model" /\ run.steps < MaxSteps /\ UNCHANGED <<chat, made>>
  <2>1. Agent!free("agent")
    BY DEF Agent!createEmailTools, Agent!readingTool, Agent!toolDraftEmail,
        Agent!toolDraftReply, Agent!toolMoveEmail, Agent!toolDiscardDraft
  <2>2. UNCHANGED <<chat, made>>
    BY DEF Agent!createEmailTools, Agent!readingTool, Agent!toolDraftEmail,
        Agent!toolDraftReply, Agent!toolMoveEmail, Agent!toolDiscardDraft, Agent!mailbox
  <2>. QED BY <2>1, <2>2 DEF Agent!free
<1>3. ASSUME NEW drafted \in BOOLEAN, NEW erred \in BOOLEAN, DOMAIN job' = DOMAIN job,
             \/ ~erred /\ run' = [Agent!steps EXCEPT !.drafted = @ \/ drafted]
             \/ drafted /\ erred /\ run' = [Agent!steps EXCEPT !.drafted = TRUE, !.erred = TRUE],
             \/ job'["agent"] = None /\ (drafted => erred)
             \/ drafted /\ ~erred /\ job'["agent"] # None /\ job'["agent"].op = "create"
             \/ ~drafted /\ job'["agent"] # None /\ job'["agent"].op = "delete"
      PROVE  RunInv'
  <2>1. run' = [run EXCEPT !.steps = run.steps + 1, !.drafted = run.drafted \/ drafted,
                           !.erred = run.erred \/ erred]
    BY <1>1, <1>3, CountedRun
  <2>. QED BY <1>1, <1>2, <1>3, <2>1, RunTools
<1>4. ASSUME UNCHANGED job, Agent!counted("agent", FALSE) PROVE RunInv'
  BY <1>1, <1>3, <1>4 DEF Agent!counted
<1>5. ASSUME NEW op \in {"create", "delete"}, NEW id, NEW row, Agent!begins("agent", [op |-> op,
               id |-> id, row |-> row])
      PROVE  /\ DOMAIN job' = DOMAIN job /\ job'["agent"] # None /\ job'["agent"].op = op
  <2>. DEFINE c == [op |-> op, id |-> id, row |-> row]
  <2>1. c = [op |-> c.op, id |-> c.id, row |-> c.row] /\ c.op = op
    OBVIOUS
  <2>2. job' = [job EXCEPT !["agent"] = c]
    BY <1>5 DEF Agent!begins
  <2>. HIDE DEF c
  <2>3. c # None
    BY <2>1, CallIsCall DEF isCall
  <2>. QED BY <1>1, <2>1, <2>2, <2>3
<1>6. CASE Agent!readingTool
  BY <1>4, <1>6 DEF Agent!readingTool
<1>7. CASE \E b \in Bodies : Agent!toolDraftEmail("agent", None, b)
  <2>1. Agent!counted("agent", TRUE)
          /\ \E row : Agent!begins("agent", [op |-> "create", id |-> None, row |-> row])
    BY <1>7 DEF Agent!toolDraftEmail
  <2>2. DOMAIN job' = DOMAIN job /\ job'["agent"] # None /\ job'["agent"].op = "create"
    BY <1>5, <2>1
  <2>. QED BY <1>3, <2>1, <2>2 DEF Agent!counted
<1>8. CASE \E id \in DOMAIN Mail, b \in Bodies : Agent!toolDraftReply("agent", id, b)
  <2>1. PICK id \in DOMAIN Mail :
          \/ run' = [Agent!steps EXCEPT !.drafted = TRUE, !.erred = TRUE] /\ UNCHANGED job
          \/ Agent!counted("agent", TRUE)
               /\ \E row : Agent!begins("agent", [op |-> "create", id |-> id, row |-> row])
    BY <1>8 DEF Agent!toolDraftReply
  <2>2. CASE run' = [Agent!steps EXCEPT !.drafted = TRUE, !.erred = TRUE] /\ UNCHANGED job
    BY <1>1, <1>3, <2>2
  <2>3. CASE Agent!counted("agent", TRUE)
          /\ \E row : Agent!begins("agent", [op |-> "create", id |-> id, row |-> row])
    <3>1. DOMAIN job' = DOMAIN job /\ job'["agent"] # None /\ job'["agent"].op = "create"
      BY <1>5, <2>3
    <3>. QED BY <1>3, <2>3, <3>1 DEF Agent!counted
  <2>. QED BY <2>1, <2>2, <2>3
<1>9. CASE \E id \in Agent!Ids, f \in {"draft", "trash"} : Agent!toolMoveEmail("agent", id, f)
  BY <1>4, <1>9 DEF Agent!toolMoveEmail
<1>10. CASE \E id \in Agent!Ids : Agent!toolDiscardDraft("agent", id)
  <2>1. PICK id \in Agent!Ids : /\ Agent!counted("agent", FALSE)
                          /\ \/ UNCHANGED job
                             \/ Agent!begins("agent", [op |-> "delete", id |-> id, row |-> emails[id]])
    BY <1>10 DEF Agent!toolDiscardDraft
  <2>2. CASE UNCHANGED job
    BY <1>4, <2>1, <2>2
  <2>3. CASE Agent!begins("agent", [op |-> "delete", id |-> id, row |-> emails[id]])
    <3>1. DOMAIN job' = DOMAIN job /\ job'["agent"] # None /\ job'["agent"].op = "delete"
      BY <1>5, <2>3
    <3>. QED BY <1>3, <2>1, <3>1 DEF Agent!counted
  <2>. QED BY <2>1, <2>2, <2>3
<1>. QED BY <1>6, <1>7, <1>8, <1>9, <1>10 DEF Agent!createEmailTools

\* The writes of the calls: only the agent's own change its run.
LEMMA RunWrites ==
  ASSUME AgentConstants, MailInv, MailInv', RunInv, NEW j \in DOMAIN job, Agent!toolStep(j)
  PROVE RunInv'
<1>1. run \in Run /\ chat' = chat /\ made' \in {made, made + 1} /\ made \in Nat
  <2>1. run \in Run /\ made \in Nat
    BY DEF RunInv, MailInv, AgentConstants
  <2>2. chat' = chat /\ (made' = made \/ made' = made + 1)
    BY DEF Agent!toolStep, Agent!create, Agent!replace, Agent!delete, Agent!failCall
  <2>. QED BY <2>1, <2>2
<1>2. CASE j # "agent"
  <2>1. run' = run
    BY <1>2 DEF Agent!toolStep, Agent!create, Agent!replace, Agent!delete, Agent!failCall,
        Agent!erring
  <2>2. job'["agent"] = job["agent"]
    <3>1. "agent" \in DOMAIN job
      BY DEF MailInv
    <3>2. \E c : job' = [job EXCEPT ![j] = c]
      BY DEF Agent!toolStep, Agent!create, Agent!replace, Agent!delete, Agent!failCall, Agent!ends
    <3>. QED BY <1>2, <3>1, <3>2
  <2>3. made <= made'
    BY <1>1
  <2>. QED BY <1>1, <2>1, <2>2, <2>3, RunSame
<1>3. CASE j = "agent"
  <2>1. job["agent"] # None /\ "agent" \in DOMAIN job /\ run.pc \in {"model", "inline"}
        /\ job["agent"].op \in {"create", "delete"} /\ chat = None
    BY <1>1, <1>3 DEF Agent!toolStep, Agent!create, Agent!replace, Agent!delete,
        Agent!failCall, RunInv
  <2>2. run.made \in Nat /\ run.made <= made
    BY <1>1 DEF RunInv, Run
  <2>3. CASE Agent!create("agent")
    <3>1. run' = [run EXCEPT !.made = run.made + 1] /\ made' = made + 1 /\ job'["agent"] = None
            /\ Drafting
      BY <2>1, <2>3 DEF Agent!create, Agent!ends, Drafting
    <3>2. run.made + 1 \in Nat /\ run.made + 1 <= made' /\ run.made + 1 > 0 /\ (run.made = 0 =>
            run.made + 1 <= 1)
      BY <1>1, <2>2, <3>1
    <3>. DEFINE n == run.made + 1
    <3>. HIDE DEF n
    <3>3. run' = [run EXCEPT !.made = n] /\ n \in Nat /\ n <= made' /\ n > 0 /\ (run.made = 0 => n <= 1)
      BY <3>1, <3>2 DEF n
    <3>4. run' \in Run
      BY <1>1, <3>3 DEF Run
    <3>5. run'.pc = run.pc /\ run'.asked = run.asked /\ run'.prompt = run.prompt
            /\ run'.alarmed = run.alarmed
          /\ run'.steps = run.steps /\ run'.drafted = run.drafted /\ run'.erred = run.erred
               /\ run'.made = n
      BY <1>1, <3>3 DEF Run
    <3>. QED BY <1>1, <2>1, <3>1, <3>3, <3>4, <3>5 DEF RunInv, Agent!PromptScanned, Drafting
  <2>4. CASE Agent!delete("agent")
    <3>1. run' = run /\ made' = made /\ job'["agent"] = None /\ ~Drafting
      BY <2>1, <2>4 DEF Agent!delete, Agent!ends, Drafting
    <3>. QED BY <1>1, <2>1, <3>1 DEF RunInv, Agent!PromptScanned, Drafting
  <2>5. CASE Agent!failCall("agent")
    <3>1. run' = [run EXCEPT !.erred = TRUE] /\ made' = made /\ job'["agent"] = None
      BY <2>1, <2>5 DEF Agent!failCall, Agent!ends, Agent!erring
    <3>2. run' \in Run
      BY <1>1, <3>1 DEF Run
    <3>3. run'.pc = run.pc /\ run'.asked = run.asked /\ run'.prompt = run.prompt
            /\ run'.alarmed = run.alarmed
          /\ run'.steps = run.steps /\ run'.drafted = run.drafted /\ run'.erred = TRUE
               /\ run'.made = run.made
      BY <1>1, <3>1 DEF Run
    <3>. QED BY <1>1, <2>1, <3>1, <3>2, <3>3 DEF RunInv, Agent!PromptScanned, Drafting
  <2>6. ~Agent!replace("agent")
    BY <2>1 DEF Agent!replace
  <2>. QED BY <1>3, <2>3, <2>4, <2>5, <2>6 DEF Agent!toolStep
<1>. QED BY <1>2, <1>3

LEMMA RunSpeaks == ASSUME AgentConstants, MailInv, RunInv, Agent!generateText PROVE RunInv'
<1>. DEFINE texts == {b.text : b \in Bodies} \cup {"blank"}
<1>1. run \in Run /\ run.pc = "model" /\ job["agent"] = None /\ "agent" \in DOMAIN job
        /\ chat' = chat /\ made' = made
      /\ chat = None
  BY DEF Agent!generateText, Agent!mailbox, MailInv, RunInv
<1>2. PICK b \in Bodies \cup {[text |-> "blank", quote |-> None]} :
        \/ /\ run.asked \/ run.drafted \/ b.text = "blank"
           /\ run' = [run EXCEPT !.pc = IF run.asked THEN "done" ELSE "log", !.text = b.text]
                /\ UNCHANGED job
        \/ /\ ~run.asked /\ ~run.drafted
           /\ run' = [run EXCEPT !.pc = "log", !.text = b.text, !.erred = FALSE] /\ UNCHANGED job
        \/ /\ ~run.asked /\ ~run.drafted
           /\ run' = [run EXCEPT !.pc = "inline", !.text = b.text, !.erred = FALSE]
           /\ \E row : Agent!begins("agent", [op |-> "create", id |-> New, row |-> row])
  BY DEF Agent!generateText
<1>. DEFINE text == b.text
<1>3. text \in texts
  BY <1>2
<1>. HIDE DEF text
<1>4. CASE /\ run.asked \/ run.drafted \/ b.text = "blank"
           /\ run' = [run EXCEPT !.pc = IF run.asked THEN "done" ELSE "log", !.text = b.text]
                /\ UNCHANGED job
  <2>. DEFINE pc == IF run.asked THEN "done" ELSE "log"
  <2>1. pc \in {"done", "log"} /\ (pc = "log" <=> ~run.asked)
          /\ run' = [run EXCEPT !.pc = pc, !.text = text]
    BY <1>4 DEF text
  <2>. HIDE DEF pc
  <2>2. run' \in Run
    BY <1>1, <1>3, <2>1 DEF Run
  <2>3. run'.pc = pc /\ run'.asked = run.asked /\ run'.prompt = run.prompt /\ run'.alarmed = run.alarmed
        /\ run'.steps = run.steps /\ run'.drafted = run.drafted /\ run'.erred = run.erred
             /\ run'.made = run.made
    BY <1>1, <2>1 DEF Run
  <2>. QED BY <1>1, <1>4, <2>1, <2>2, <2>3 DEF RunInv, Agent!PromptScanned, Drafting,
      AgentConstants, Notes
<1>5. CASE /\ ~run.asked /\ ~run.drafted
           /\ run' = [run EXCEPT !.pc = "log", !.text = b.text, !.erred = FALSE] /\ UNCHANGED job
  <2>1. run' = [run EXCEPT !.pc = "log", !.text = text, !.erred = FALSE]
    BY <1>5 DEF text
  <2>2. run' \in Run
    BY <1>1, <1>3, <2>1 DEF Run
  <2>3. run'.pc = "log" /\ run'.asked = run.asked /\ run'.prompt = run.prompt
          /\ run'.alarmed = run.alarmed
        /\ run'.steps = run.steps /\ run'.drafted = run.drafted /\ run'.made = run.made
    BY <1>1, <2>1 DEF Run
  <2>. QED BY <1>1, <1>5, <2>2, <2>3 DEF RunInv, Agent!PromptScanned, Drafting
<1>6. CASE /\ ~run.asked /\ ~run.drafted
           /\ run' = [run EXCEPT !.pc = "inline", !.text = b.text, !.erred = FALSE]
           /\ \E row : Agent!begins("agent", [op |-> "create", id |-> New, row |-> row])
  <2>1. run' = [run EXCEPT !.pc = "inline", !.text = text, !.erred = FALSE]
    BY <1>6 DEF text
  <2>2. run' \in Run
    BY <1>1, <1>3, <2>1 DEF Run
  <2>3. run'.pc = "inline" /\ run'.asked = run.asked /\ run'.prompt = run.prompt
          /\ run'.alarmed = run.alarmed
        /\ run'.steps = run.steps /\ run'.drafted = run.drafted /\ run'.made = run.made
    BY <1>1, <2>1 DEF Run
  <2>4. job'["agent"] # None => job'["agent"].op = "create"
    <3>. PICK row : job' = [job EXCEPT !["agent"] = [op |-> "create", id |-> New, row |-> row]]
      BY <1>6 DEF Agent!begins
    <3>. QED BY <1>1
  <2>5. run.made = 0 /\ Agent!PromptScanned' /\ run'.made <= made'
    BY <1>1, <1>6, <2>3 DEF RunInv, Agent!PromptScanned
  <2>. QED BY <1>1, <1>6, <2>2, <2>3, <2>4, <2>5 DEF RunInv, Drafting
<1>. QED BY <1>2, <1>4, <1>5, <1>6

LEMMA RunEnds == ASSUME AgentConstants, MailInv, RunInv, Agent!persistMessages
  \/ Agent!autoDraftFails PROVE RunInv'
<1>1. run \in Run /\ run.pc \in {"model", "log", "inline"} /\ UNCHANGED <<job, made>>
        /\ job["agent"] = None
      /\ chat = None
  BY DEF Agent!persistMessages, Agent!autoDraftFails, Agent!saved, Agent!calm, Agent!mailbox, RunInv
<1>2. PICK pc \in {"done", "failed"} : run' = [run EXCEPT !.pc = pc] /\ (pc = "done" =>
        Agent!persistMessages)
                                      /\ (pc = "failed" => chat' = chat)
  BY DEF Agent!persistMessages, Agent!autoDraftFails, Agent!to
<1>3. run' \in Run
  BY <1>1, <1>2 DEF Run
<1>4. run'.pc = pc /\ run'.asked = run.asked /\ run'.prompt = run.prompt /\ run'.alarmed = run.alarmed
      /\ run'.steps = run.steps /\ run'.drafted = run.drafted /\ run'.erred = run.erred
           /\ run'.made = run.made
  BY <1>1, <1>2 DEF Run
<1>5. CASE pc = "failed"
  BY <1>1, <1>2, <1>3, <1>4, <1>5 DEF RunInv, Agent!PromptScanned, Drafting
<1>6. CASE pc = "done"
  <2>1. chat' = (IF run.drafted THEN "created" ELSE run.text) /\ run.pc \in {"log", "inline"}
        /\ (run.pc = "inline" => ~run.erred)
    BY <1>2, <1>6 DEF Agent!persistMessages, Agent!says, Agent!saved
  <2>2. run.text \notin Notes \cup {None}
    <3>1. run.text \in {b.text : b \in Bodies} \cup {"blank"}
      BY <1>1, RunFields
    <3>2. "blank" \notin Notes \cup {None}
      BY DEF Notes, AgentConstants
    <3>3. \A b \in Bodies : b.text \notin Notes \cup {None}
      BY DEF AgentConstants, isBody
    <3>. QED BY <3>1, <3>2, <3>3
  <2>3. chat' \notin {"suspended", "blocked"} /\ chat' # None /\ (chat' = "created" <=> run.drafted)
    BY <2>1, <2>2 DEF Notes, AgentConstants
  <2>4. (run.drafted /\ ~run.erred => run.made > 0) /\ (~run.drafted => run.made <= 1)
    BY <1>1, <2>1 DEF RunInv, Drafting
  <2>5. run'.made <= made' /\ Agent!PromptScanned'
    BY <1>1, <1>4 DEF RunInv, Agent!PromptScanned
  <2>. QED BY <1>1, <1>3, <1>4, <1>6, <2>3, <2>4, <2>5 DEF RunInv, Drafting
<1>. QED BY <1>5, <1>6

LEMMA RunStep == ASSUME AgentConstants, MailInv, MailInv', RunInv, [Agent!Next]_(Agent!vars)
PROVE RunInv'
<1>1. ASSUME UNCHANGED <<run, chat, job, made>> PROVE RunInv'
  <2>1. made <= made' /\ job'["agent"] = job["agent"]
    BY <1>1 DEF MailInv, AgentConstants
  <2>. QED BY <1>1, <2>1, RunSame
<1>2. CASE UNCHANGED Agent!vars
  BY <1>1, <1>2 DEF Agent!vars
<1>3. CASE Agent!agentStep
  BY <1>3, RunBegins, RunReads, RunCallsTool, RunSpeaks, RunEnds DEF Agent!agentStep
<1>4. CASE Agent!userMoves \/ Agent!userDeletes \/ Agent!fetch \/ Agent!writeMailboxAcl
  BY <1>1, <1>4 DEF Agent!userMoves, Agent!userDeletes, Agent!fetch, Agent!writeMailboxAcl,
      Agent!mailbox
<1>5. CASE \E j \in Jobs : Agent!mcpTool(j)
  <2>1. PICK j \in Jobs : Agent!mcpTool(j)
    BY <1>5
  <2>2. j # "agent"
    BY DEF AgentConstants
  <2>3. run' = run /\ chat' = chat /\ made' = made
    BY <2>1, <2>2 DEF Agent!mcpTool, Agent!mcpDraftReply, Agent!mcpCreateDraft,
        Agent!mcpUpdateDraft, Agent!mcpDeleteEmail, Agent!mcpMoveEmail,
       Agent!toolDraftReply, Agent!toolDraftEmail, Agent!toolUpdateDraft, Agent!toolDeleteEmail,
         Agent!toolMoveEmail, Agent!counted, Agent!mailbox
  <2>4. job'["agent"] = job["agent"]
    <3>1. "agent" \in DOMAIN job
      BY DEF MailInv
    <3>2. job' = job \/ \E c : Agent!begins(j, c)
      <4>1. CASE Agent!mcpDraftReply(j)
        BY <4>1 DEF Agent!mcpDraftReply, Agent!toolDraftReply
      <4>2. CASE Agent!mcpCreateDraft(j)
        BY <4>2 DEF Agent!mcpCreateDraft, Agent!toolDraftEmail
      <4>3. CASE Agent!mcpUpdateDraft(j)
        BY <4>3 DEF Agent!mcpUpdateDraft, Agent!toolUpdateDraft
      <4>4. CASE Agent!mcpDeleteEmail(j) \/ Agent!mcpMoveEmail(j)
        BY <4>4 DEF Agent!mcpDeleteEmail, Agent!mcpMoveEmail, Agent!toolDeleteEmail,
            Agent!toolMoveEmail
      <4>. QED BY <2>1, <4>1, <4>2, <4>3, <4>4 DEF Agent!mcpTool
    <3>. QED BY <2>2, <3>1, <3>2 DEF Agent!begins
  <2>5. made <= made'
    BY <2>3 DEF MailInv, AgentConstants
  <2>. QED BY <2>3, <2>4, <2>5, RunSame
<1>6. CASE \E j \in DOMAIN job : Agent!toolStep(j)
  BY <1>6, RunWrites
<1>. QED BY <1>2, <1>3, <1>4, <1>5, <1>6 DEF Agent!Next

(* ------------------------------------------------------- the lists and the bounds *)

RestStep ==
  /\ acl' = acl \/ \E m \in Agent!Present, list \in Acls : acl' = [acl EXCEPT ![m] = list]
  /\ session' = session \/ session' \in Tokens
  /\ misses' = misses \/ Agent!fault
  /\ edits' = edits \/ Agent!edit

LEMMA RestSteps == ASSUME [Agent!Next]_(Agent!vars) PROVE RestStep
<1>. USE DEF RestStep
<1>1. CASE UNCHANGED Agent!vars
  BY <1>1 DEF Agent!vars
<1>2. CASE Agent!agentStep
  <2>1. CASE Agent!handleNewEmail \/ Agent!onChatMessage \/ Agent!preReadBody
          \/ Agent!listThread \/ Agent!preReadThread
             \/ Agent!preReadFails \/ Agent!persistMessages \/ Agent!autoDraftFails
    BY <2>1 DEF Agent!handleNewEmail, Agent!onChatMessage, Agent!preReadBody, Agent!listThread,
        Agent!preReadThread, Agent!preReadFails,
       Agent!persistMessages, Agent!autoDraftFails, Agent!calm
  <2>2. CASE Agent!createEmailTools \/ Agent!generateText
    BY <2>2 DEF Agent!createEmailTools, Agent!readingTool, Agent!toolDraftEmail,
        Agent!toolDraftReply, Agent!toolMoveEmail, Agent!toolDiscardDraft,
       Agent!generateText
  <2>. QED BY <1>2, <2>1, <2>2 DEF Agent!agentStep
<1>3. CASE Agent!userMoves \/ Agent!userDeletes \/ Agent!fetch \/ Agent!writeMailboxAcl
  BY <1>3 DEF Agent!userMoves, Agent!userDeletes, Agent!fetch, Agent!writeMailboxAcl
<1>4. CASE \E j \in Jobs : Agent!mcpTool(j)
  BY <1>4 DEF Agent!mcpTool, Agent!mcpDraftReply, Agent!mcpCreateDraft, Agent!mcpUpdateDraft,
      Agent!mcpDeleteEmail, Agent!mcpMoveEmail,
     Agent!toolDraftReply, Agent!toolDraftEmail, Agent!toolUpdateDraft, Agent!toolDeleteEmail,
       Agent!toolMoveEmail
<1>5. CASE \E j \in DOMAIN job : Agent!toolStep(j)
  BY <1>5 DEF Agent!toolStep, Agent!create, Agent!replace, Agent!delete, Agent!failCall
<1>. QED BY <1>1, <1>2, <1>3, <1>4, <1>5 DEF Agent!Next

LEMMA RestKeeps == ASSUME AgentConstants, RestInv, [Agent!Next]_(Agent!vars) PROVE RestInv'
<1>1. RestStep
  BY RestSteps
<1>2. acl' \in [Agent!Present -> Acls]
  BY <1>1 DEF RestStep, RestInv
<1>3. misses' \in 0 .. MaxMisses /\ edits' \in 0 .. MaxEdits
  BY <1>1 DEF RestStep, RestInv, Agent!fault, Agent!edit, AgentConstants
<1>. QED BY <1>1, <1>2, <1>3 DEF RestStep, RestInv

(* ---------------------------------------------------------------- the theorem *)

LEMMA StartsWell == ASSUME AgentConstants, Agent!Init PROVE MailInv /\ RunInv /\ RestInv
<1>1. MailInv
  <2>1. DOMAIN emails = Agent!Ids /\ made = 0 /\ roots = DOMAIN Mail /\ gone = {} /\ removed = {}
        /\ DOMAIN job = Jobs \cup {"agent"} /\ (\A j \in DOMAIN job : job[j] = None)
        /\ \A i \in Agent!Ids : emails[i] = IF i \in DOMAIN Mail THEN Mail[i] ELSE None
    BY DEF Agent!Init
  <2>2. 0 \in 0 .. Len(Spots) /\ \A i \in Spare : i \in Agent!Ids /\ i \notin DOMAIN Mail
    BY <2>1 DEF Spare, Agent!Ids, Agent!Range, Range, AgentConstants
  <2>3. \A i \in DOMAIN Mail : i \in Agent!Ids /\ isRow(Mail[i]) /\ Mail[i] # None /\ Mail[i].root = i
    BY DEF Agent!Ids, AgentConstants
  <2>4. \A i \in Agent!Ids : emails[i] # None => RowFits(i, emails[i])
    BY <2>1, <2>3 DEF RowFits
  <2>5. Agent!DraftsSurvive
    BY <2>1, <2>3 DEF Agent!DraftsSurvive, Agent!live
  <2>. QED BY <2>1, <2>2, <2>3, <2>4, <2>5 DEF MailInv, Agent!AgentRemovesDrafts
<1>2. RunInv
  <2>1. run = [pc |-> "idle", asked |-> FALSE, prompt |-> {}, thread |-> {}, alarmed |-> {},
          steps |-> 0,
               drafted |-> FALSE, erred |-> FALSE, made |-> 0, text |-> "blank"]
        /\ made = 0 /\ chat = None /\ job["agent"] = None
    BY DEF Agent!Init
  <2>2. 0 \in 0 .. MaxSteps
    BY DEF AgentConstants
  <2>3. run \in Run
    BY <2>1, <2>2 DEF Run
  <2>. QED BY <2>1, <2>3 DEF RunInv, Agent!PromptScanned, Drafting
<1>3. RestInv
  BY DEF Agent!Init, RestInv, AgentConstants
<1>. QED BY <1>1, <1>2, <1>3

LEMMA SoundFollows == ASSUME AgentConstants, MailInv, RunInv, RestInv
PROVE Agent!TypeOK /\ Agent!AgentSound
<1>1. Agent!TypeOK
  <2>1. run.steps \in 0 .. MaxSteps /\ run.made \in 0 .. made
    <3>1. run.steps \in 0 .. MaxSteps /\ run.made \in Nat /\ run.made <= made /\ made \in Nat
      BY RunFields DEF RunInv, MailInv, AgentConstants
    <3>. QED BY <3>1
  <2>2. \A i \in Agent!live : emails[i].by \in {"agent", "user"} /\ emails[i].root \in roots
    BY LiveIsNotSpare DEF RowFits, isRow
  <2>. QED BY <2>1, <2>2 DEF Agent!TypeOK, MailInv, RestInv
<1>2. run \in Run /\ (chat # None => run.pc = "done") /\ None \notin Notes
  BY DEF RunInv, AgentConstants
<1>3. Agent!BlockedLeavesNothing
  BY <1>2 DEF Agent!BlockedLeavesNothing, RunInv, Notes
<1>4. Agent!ChatTrue
  BY <1>2 DEF Agent!ChatTrue, RunInv, Notes
<1>5. Agent!RepliesThreaded
  BY LiveIsNotSpare DEF Agent!RepliesThreaded, RowFits, isRow
<1>6. Agent!GatesAgree
  BY GatesSame DEF Agent!GatesAgree
<1>. QED BY <1>1, <1>3, <1>4, <1>5, <1>6 DEF Agent!AgentSound, MailInv, RunInv

\* AgentDesk's properties for any mailbox, callers, answers and bounds: only
\* scanned text is in the prompt, a stopped run leaves nothing, the chat tells of
\* the drafts there are, only drafts are removed and none is lost, a draft is in the
\* thread of what it quotes, and the gates to a mailbox agree.
THEOREM AgentStaysHonest == ASSUME AgentConstants
PROVE Agent!Spec => [](Agent!TypeOK /\ Agent!AgentSound)
<1>. DEFINE Inv == MailInv /\ RunInv /\ RestInv
<1>1. Agent!Init => Inv
  BY StartsWell
<1>2. Inv /\ [Agent!Next]_(Agent!vars) => Inv'
  BY MailStep, RunStep, RestKeeps
<1>3. Inv => Agent!TypeOK /\ Agent!AgentSound
  BY SoundFollows
<1>. QED BY <1>1, <1>2, <1>3, PTL DEF Agent!Spec

=============================================================================
