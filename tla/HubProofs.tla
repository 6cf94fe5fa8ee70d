------------------------------ MODULE HubProofs ------------------------------
(***************************************************************************)
(* What holds of the hub for any organisations, groups, values, events and *)
(* number of overlapping requests: the variables keep their types, credits *)
(* are counted once, the feeds list what two organisations contributed, and*)
(* the watermark passes no event of the peer that is not pulled in.        *)
(***************************************************************************)
EXTENDS HubCorroboration, Sequences, FiniteSetTheorems, WellFoundedInduction, TLAPS

(* ------------------------------------------------------- the next event --- *)

LEMMA Smallest ==
  ASSUME NEW T \in SUBSET Nat, T # {}
  PROVE  \E x \in T : \A y \in T : x <= y
<1> DEFINE R == OpToRel(<, Nat)
<1>1. \A x, y \in Nat : x < y => <<x, y>> \in R
  BY DEF OpToRel
<1>2. IsWellFoundedOn(R, Nat)
  BY NatLessThanWellFounded
<1> HIDE DEF R
<1>3. PICK x \in T : \A y \in T : ~(<<y, x>> \in R)
  BY <1>2, WFMin
<1>4. ASSUME NEW y \in T PROVE x <= y
  <2>1. x \in Nat /\ y \in Nat
    OBVIOUS
  <2>2. ~(y < x)
    BY <1>1, <1>3, <2>1
  <2> QED BY <2>1, <2>2
<1> QED BY <1>4

LEMMA EarliestIsIn ==
  ASSUME NEW batch \in SUBSET (PeerEvents \X Times), batch # {}
  PROVE  /\ Earliest(batch) \in batch
         /\ \A x \in batch :
              LET b == Earliest(batch) IN b[2] < x[2] \/ (b[2] = x[2] /\ b[1] <= x[1])
<1>1. Times \subseteq Nat /\ PeerEvents \subseteq Nat
  BY HubConstants DEF Times
<1>2. PICK m \in {b[2] : b \in batch} : \A y \in {b[2] : b \in batch} : m <= y
  <2>1. \A b \in batch : b[2] \in Nat
    BY <1>1
  <2>2. {b[2] : b \in batch} \in SUBSET Nat
    BY <2>1
  <2>3. {b[2] : b \in batch} # {}
    OBVIOUS
  <2> QED BY <2>2, <2>3, Smallest
<1> DEFINE F == {b \in batch : b[2] = m}
<1>3. PICK n \in {b[1] : b \in F} : \A y \in {b[1] : b \in F} : n <= y
  <2>1. \A b \in F : b[1] \in Nat
    BY <1>1
  <2>2. {b[1] : b \in F} \in SUBSET Nat
    BY <2>1
  <2>3. F # {}
    BY <1>2
  <2>4. {b[1] : b \in F} # {}
    BY <2>3
  <2> HIDE DEF F
  <2> QED BY <2>2, <2>4, Smallest
<1>4. PICK b \in F : b[1] = n
  BY <1>3
<1>5. ASSUME NEW x \in batch
      PROVE  b[2] < x[2] \/ (b[2] = x[2] /\ b[1] <= x[1])
  <2>1. m <= x[2] /\ m \in Nat /\ x[2] \in Nat
    BY <1>1, <1>2
  <2>2. x[2] = m => n <= x[1]
    BY <1>3
  <2> QED BY <2>1, <2>2, <1>4
<1> QED BY <1>4, <1>5 DEF Earliest

(* ---------------------------------------------------------- type correctness --- *)

LEMMA WantedFits ==
  ASSUME NEW batch \in SUBSET (PeerEvents \X Times)
  PROVE  Wanted(batch) \in SUBSET (PeerEvents \X Times)
BY DEF Wanted

\* What the local steps make of a task is a task again.
LEMMA NextEventFits ==
  ASSUME NEW r \in Task, NEW batch \in SUBSET (PeerEvents \X Times)
  PROVE  NextEvent(r, batch) \in Task
<1>1. CASE Wanted(batch) = {}
  <2> DEFINE p == r.page + 1
  <2>2. p \in Nat
    BY DEF Task
  <2>1. [r EXCEPT !.pc = "fetch", !.page = p, !.batch = {}] \in Task
    BY <2>2 DEF Task, Pcs
  <2> QED BY <1>1, <2>1 DEF NextEvent
<1>2. CASE Wanted(batch) # {}
  <2> DEFINE b == Earliest(Wanted(batch))
  <2>1. b \in PeerEvents \X Times
    BY <1>2, WantedFits, EarliestIsIn
  <2>2. b[1] \in Uuids /\ b[2] \in Times
    BY <2>1 DEF Uuids
  <2>3. Wanted(batch) \ {b} \in SUBSET (PeerEvents \X Times)
    BY WantedFits
  <2> HIDE DEF b
  <2>4. [r EXCEPT !.pc = "upsert", !.uuid = b[1], !.ts = b[2], !.batch = Wanted(batch) \ {b}] \in Task
    BY <2>2, <2>3 DEF Task, Pcs
  <2> QED BY <1>2, <2>4 DEF NextEvent, b
<1> QED BY <1>1, <1>2

LEMMA ProceedFits ==
  ASSUME NEW r \in Task
  PROVE  Proceed(r) \in Task \cup {None}
<1>1. CASE r.todo # {}
  <2>1. [r EXCEPT !.pc = "row"] \in Task
    BY DEF Task, Pcs
  <2> QED BY <1>1, <2>1 DEF Proceed
<1>2. CASE r.todo = {} /\ r.org # Peer
  BY <1>2 DEF Proceed
<1>3. CASE r.todo = {} /\ r.org = Peer
  <2> DEFINE s == [r EXCEPT !.top = IF r.ts > @ THEN r.ts ELSE @]
  <2>1. s \in Task
    BY DEF Task
  <2>2. r.batch \in SUBSET (PeerEvents \X Times)
    BY DEF Task
  <2> HIDE DEF s
  <2>3. NextEvent(s, r.batch) \in Task
    BY <2>1, <2>2, NextEventFits
  <2> QED BY <1>3, <2>3 DEF Proceed, s
<1> QED BY <1>1, <1>2, <1>3

LEMMA BecomeFits ==
  ASSUME TypeOK, NEW t \in Tasks, NEW r \in Task \cup {None}, Become(t, r)
  PROVE  task' \in [Tasks -> Task \cup {None}]
BY DEF TypeOK, Become

LEMMA AtFits ==
  ASSUME TypeOK, NEW t \in Tasks, task[t] # None
  PROVE  task[t] \in Task
BY DEF TypeOK

LEMMA TypeInit == Init => TypeOK
<1> SUFFICES ASSUME Init PROVE TypeOK
  OBVIOUS
<1>1. trust \in [Orgs -> Trusts] /\ members \subseteq Groups \X Orgs /\ public \subseteq Groups
  BY HubConstants DEF Init
<1>2. 0 \in Times /\ 1 \in Times
  BY HubConstants DEF Times
<1>3. upstream \in [PeerEvents -> Times] /\ clock \in Times /\ inbound \in [enabled : BOOLEAN, mark : Times, retry : BOOLEAN]
  BY <1>2 DEF Init
<1>4. events \in [Uuids -> [org : Orgs, group : Groups, ts : Times] \cup {None}]
  BY DEF Init
<1>5. count \in [Keys -> Nat] /\ score \in [Keys -> Nat] /\ credits \in [Keys \X Orgs -> Nat]
  BY DEF Init
<1>6. task \in [Tasks -> Task \cup {None}]
  BY DEF Init
<1>7. trouble \in 0 .. MaxTrouble
  BY HubConstants DEF Init
<1> QED BY <1>1, <1>3, <1>4, <1>5, <1>6, <1>7 DEF Init, TypeOK

LEMMA RequestFits ==
  ASSUME NEW o \in Orgs
  PROVE  Request("selected", o) \in Task
<1>1. 0 \in Times /\ 0 \in Nat
  BY HubConstants DEF Times
<1>2. NullGroup \in Groups
  BY HubConstants
<1> QED BY <1>1, <1>2 DEF Request, Task, Pcs

LEMMA TypePost ==
  ASSUME TypeOK, NEW t \in Tasks, NEW o \in Orgs, NEW u \in Posts, NEW g \in Groups,
         PostEvent(t, o, u, g)
  PROVE  TypeOK'
<1>1. [Request("insert", o) EXCEPT !.uuid = u, !.group = g] \in Task
  <2>1. Request("selected", o) \in Task
    BY RequestFits
  <2> QED BY <2>1 DEF Request, Task, Pcs, Uuids
<1>2. task' \in [Tasks -> Task \cup {None}]
  BY <1>1, BecomeFits DEF PostEvent
<1> QED BY <1>2 DEF PostEvent, TypeOK, settings, corroboration, world

LEMMA TypeInsert ==
  ASSUME TypeOK, NEW t \in Tasks, InsertEvent(t)
  PROVE  TypeOK'
<1>1. task[t] \in Task
  BY AtFits DEF InsertEvent, At
<1>2. [task[t] EXCEPT !.pc = "attributes"] \in Task
  BY <1>1 DEF Task, Pcs, InsertEvent, At
<1>3. task' \in [Tasks -> Task \cup {None}]
  BY <1>2, BecomeFits DEF InsertEvent, Goto, End
<1>4. CASE events[task[t].uuid] = None
  <2>1. [org |-> task[t].org, group |-> task[t].group, ts |-> 0] \in
          [org : Orgs, group : Groups, ts : Times]
    BY <1>1, HubConstants DEF Task, Times
  <2>2. events' \in [Uuids -> [org : Orgs, group : Groups, ts : Times] \cup {None}]
    BY <1>4, <2>1 DEF InsertEvent, TypeOK
  <2> QED BY <1>3, <2>2 DEF InsertEvent, TypeOK, settings, corroboration, world
<1>5. CASE events[task[t].uuid] # None
  BY <1>3, <1>5 DEF InsertEvent, TypeOK, settings, corroboration, world
<1> QED BY <1>4, <1>5

LEMMA TypeAttributes ==
  ASSUME TypeOK, NEW t \in Tasks, InsertAttributes(t)
  PROVE  TypeOK'
<1>1. task[t] \in Task
  BY AtFits DEF InsertAttributes, At
<1>2. [task[t] EXCEPT !.pc = "trust"] \in Task
  BY <1>1 DEF Task, Pcs, InsertAttributes, At
<1>3. task' \in [Tasks -> Task \cup {None}]
  BY <1>2, BecomeFits DEF InsertAttributes, Goto, End
<1>4. task[t].uuid \in Uuids
  BY <1>1 DEF Task, InsertAttributes, At
<1>5. attributes' \subseteq Uuids
  BY <1>4 DEF InsertAttributes, TypeOK, At
<1> QED BY <1>3, <1>5 DEF InsertAttributes, TypeOK, settings, corroboration, world

LEMMA TypeTrust ==
  ASSUME TypeOK, NEW t \in Tasks, ReadTrust(t)
  PROVE  TypeOK'
<1>1. task[t] \in Task /\ At(t, "trust")
  BY AtFits DEF ReadTrust, At
<1> DEFINE at == {<<task[t].group, trust[task[t].org]>>} \cup task[t].targets
           todo == {<<<<a[1], v>>, a[2]>> : a \in at, v \in ValuesOf[task[t].uuid]}
<1>2. at \in SUBSET (Groups \X Trusts)
  BY <1>1 DEF Task, TypeOK
<1>3. ValuesOf[task[t].uuid] \in SUBSET Values
  <2>1. task[t].uuid \in Uuids
    BY <1>1 DEF Task, At
  <2> QED BY <2>1, HubConstants
<1> HIDE DEF at
<1>4. todo \in SUBSET Credit
  BY <1>2, <1>3 DEF Credit, Keys
<1> HIDE DEF todo
<1>5. [task[t] EXCEPT !.todo = todo] \in Task
  BY <1>1, <1>4 DEF Task
<1>6. Proceed([task[t] EXCEPT !.todo = todo]) \in Task \cup {None}
  BY <1>5, ProceedFits
<1>7. task' \in [Tasks -> Task \cup {None}]
  BY <1>6, BecomeFits DEF ReadTrust, at, todo
<1> QED BY <1>7 DEF ReadTrust, TypeOK, settings, corroboration, world

LEMMA TypeRow ==
  ASSUME TypeOK, NEW t \in Tasks, NEW c \in Credit, UpsertRow(t, c)
  PROVE  TypeOK'
<1>1. task[t] \in Task /\ c[1] \in Keys
  BY AtFits DEF UpsertRow, At, Credit
<1>2. [task[t] EXCEPT !.pc = "contribute", !.now = c, !.todo = @ \ {c}] \in Task
  <2>1. task[t].todo \ {c} \in SUBSET Credit
    BY <1>1 DEF Task
  <2> QED BY <1>1, <2>1 DEF Task, Pcs
<1>3. task' \in [Tasks -> Task \cup {None}]
  BY <1>2, BecomeFits DEF UpsertRow
<1> QED BY <1>1, <1>3 DEF UpsertRow, TypeOK, settings, world

LEMMA TypeContribute ==
  ASSUME TypeOK, NEW t \in Tasks, AddContributor(t)
  PROVE  TypeOK'
<1>1. task[t] \in Task /\ task[t].now \in Credit /\ task[t].org \in Orgs
  <2>1. task[t] \in Task
    BY AtFits DEF AddContributor, At
  <2> QED BY <2>1 DEF AddContributor, At, Task
<1>2. [task[t] EXCEPT !.pc = "credit"] \in Task
  BY <1>1 DEF Task, Pcs
<1>3. task' \in [Tasks -> Task \cup {None}]
  BY <1>1, <1>2, ProceedFits, BecomeFits DEF AddContributor, Goto
<1>4. contributors' \subseteq Keys \X Orgs
  BY <1>1 DEF AddContributor, TypeOK, Credit
<1> QED BY <1>3, <1>4 DEF AddContributor, TypeOK, settings, world

LEMMA TypeCredit ==
  ASSUME TypeOK, NEW t \in Tasks, CreditRow(t)
  PROVE  TypeOK'
<1>1. task[t] \in Task /\ task[t].now \in Credit /\ task[t].org \in Orgs
  <2>1. task[t] \in Task
    BY AtFits DEF CreditRow, At
  <2> QED BY <2>1 DEF CreditRow, At, Task
<1>2. task[t].now[1] \in Keys /\ task[t].now[2] \in Nat
  BY <1>1, HubConstants DEF Credit
<1>3. task' \in [Tasks -> Task \cup {None}]
  BY <1>1, ProceedFits, BecomeFits DEF CreditRow
<1>4. count' \in [Keys -> Nat] /\ score' \in [Keys -> Nat] /\ credits' \in [Keys \X Orgs -> Nat]
  BY <1>1, <1>2 DEF CreditRow, TypeOK
<1> QED BY <1>3, <1>4 DEF CreditRow, TypeOK, settings, world

LEMMA TypeDie ==
  ASSUME TypeOK, NEW t \in Tasks, Die(t)
  PROVE  TypeOK'
<1>1. task[t] \in Task
  BY AtFits DEF Die
<1>2. task' \in [Tasks -> Task \cup {None}]
  BY BecomeFits DEF Die, End
<1>3. lost' \subseteq Keys \X Orgs
  <2>1. CASE At(t, "credit")
    <3>1. task[t].now[1] \in Keys /\ task[t].org \in Orgs
      BY <1>1, <2>1 DEF At, Credit, Task
    <3> QED BY <2>1, <3>1 DEF Die, TypeOK
  <2>2. CASE ~At(t, "credit")
    BY <2>2 DEF Die, TypeOK
  <2> QED BY <2>1, <2>2
<1>4. trouble' \in 0 .. MaxTrouble
  BY HubConstants DEF Die, TypeOK
<1>5. bare' \subseteq Uuids
  BY <1>1 DEF Die, TypeOK, At, Task
<1> QED BY <1>2, <1>3, <1>4, <1>5 DEF Die, TypeOK, settings, world

LEMMA TypeSelect ==
  ASSUME TypeOK, NEW t \in Tasks, SelectPeer(t)
  PROVE  TypeOK'
<1> DEFINE r == [Request("selected", Peer) EXCEPT
                  !.group = DefaultGroup, !.since = inbound.mark, !.top = inbound.mark]
<1>1. r \in Task
  <2>1. Request("selected", Peer) \in Task
    BY RequestFits, HubConstants
  <2>2. inbound.mark \in Times /\ DefaultGroup \in Groups
    BY HubConstants DEF TypeOK
  <2> QED BY <2>1, <2>2 DEF Task
<1> HIDE DEF r
<1>2. task' \in [Tasks -> Task \cup {None}]
  BY <1>1, BecomeFits DEF SelectPeer, r
<1> QED BY <1>2 DEF SelectPeer, TypeOK, settings, corroboration, world

LEMMA TypeLock ==
  ASSUME TypeOK, NEW t \in Tasks, LockPeer(t)
  PROVE  TypeOK'
<1>1. [task[t] EXCEPT !.pc = "load"] \in Task
  BY AtFits DEF LockPeer, At, Task, Pcs
<1>2. task' \in [Tasks -> Task \cup {None}]
  BY <1>1, BecomeFits DEF LockPeer, Goto
<1>3. inbound' \in [enabled : BOOLEAN, mark : Times, retry : BOOLEAN]
  BY DEF LockPeer, TypeOK
<1> QED BY <1>2, <1>3 DEF LockPeer, TypeOK, settings, corroboration, world

LEMMA TypePullFails ==
  ASSUME TypeOK, NEW t \in Tasks, PullFails(t)
  PROVE  TypeOK'
<1>1. task' \in [Tasks -> Task \cup {None}]
  BY BecomeFits DEF PullFails, End
<1>2. inbound' \in [enabled : BOOLEAN, mark : Times, retry : BOOLEAN]
  BY DEF PullFails, TypeOK
<1>3. trouble' \in 0 .. MaxTrouble
  BY HubConstants DEF PullFails, TypeOK
<1> QED BY <1>1, <1>2, <1>3 DEF PullFails, TypeOK, settings, corroboration, world

LEMMA TypeLoad ==
  ASSUME TypeOK, NEW t \in Tasks, LoadTargets(t)
  PROVE  TypeOK'
<1> DEFINE to == {<<g, Multiplied[trust[Peer]]>> :
                    g \in {h \in Groups \ {DefaultGroup} : \E o \in subscribed : <<h, o>> \in members}}
<1>1. to \in SUBSET (Groups \X Trusts)
  <2>1. Multiplied[trust[Peer]] \in Trusts
    BY HubConstants DEF TypeOK
  <2> QED BY <2>1
<1> HIDE DEF to
<1>2. [task[t] EXCEPT !.pc = "fetch", !.page = 1, !.targets = to] \in Task
  <2>1. task[t] \in Task
    BY AtFits DEF LoadTargets, At
  <2> QED BY <1>1, <2>1 DEF Task, Pcs
<1>3. task' \in [Tasks -> Task \cup {None}]
  BY <1>2, BecomeFits DEF LoadTargets, to
<1> QED BY <1>3 DEF LoadTargets, TypeOK, settings, corroboration, world

LEMMA TypeFetch ==
  ASSUME TypeOK, NEW t \in Tasks, FetchPage(t)
  PROVE  TypeOK'
<1>1. task[t] \in Task
  BY AtFits DEF FetchPage, At
<1> DEFINE page == PageOf(task[t].since, task[t].page)
<1>2. page \in SUBSET (PeerEvents \X Times)
  <2>1. \A e \in PeerEvents : upstream[e] \in Times
    BY DEF TypeOK
  <2> DEFINE here_ == {f \in Listed(task[t].since) :
                        /\ (task[t].page - 1) * PageSize <= Rank(f, task[t].since)
                        /\ Rank(f, task[t].since) < task[t].page * PageSize}
  <2>2. page = {<<e, upstream[e]>> : e \in here_}
    BY DEF PageOf
  <2>3. here_ \in SUBSET PeerEvents
    BY DEF Listed
  <2> HIDE DEF here_, page
  <2> QED BY <2>1, <2>2, <2>3
<1> HIDE DEF page
<1>3. NextEvent(task[t], page) \in Task
  BY <1>1, <1>2, NextEventFits
<1>4. [task[t] EXCEPT !.pc = "finish"] \in Task
  BY <1>1 DEF Task, Pcs
<1>5. task' \in [Tasks -> Task \cup {None}]
  BY <1>3, <1>4, BecomeFits DEF FetchPage, Goto, page
<1> QED BY <1>5 DEF FetchPage, TypeOK, settings, corroboration, world

LEMMA TypeUpsert ==
  ASSUME TypeOK, NEW t \in Tasks, UpsertEvent(t)
  PROVE  TypeOK'
<1>1. task[t] \in Task
  BY AtFits DEF UpsertEvent, At
<1>2. [task[t] EXCEPT !.pc = "attributes"] \in Task
  BY <1>1 DEF Task, Pcs, UpsertEvent, At
<1>3. task' \in [Tasks -> Task \cup {None}]
  BY <1>2, BecomeFits DEF UpsertEvent, Goto
<1>4. [org |-> Peer, group |-> DefaultGroup, ts |-> task[t].ts] \in
        [org : Orgs, group : Groups, ts : Times]
  BY <1>1, HubConstants DEF Task
<1>5. events' \in [Uuids -> [org : Orgs, group : Groups, ts : Times] \cup {None}]
  BY <1>4 DEF UpsertEvent, TypeOK
<1> QED BY <1>3, <1>5 DEF UpsertEvent, TypeOK, settings, corroboration, world

LEMMA TypeFinish ==
  ASSUME TypeOK, NEW t \in Tasks, FinishPull(t)
  PROVE  TypeOK'
<1>1. task[t].top \in Times
  BY AtFits DEF FinishPull, At, Task
<1>2. inbound' \in [enabled : BOOLEAN, mark : Times, retry : BOOLEAN]
  BY <1>1 DEF FinishPull, TypeOK
<1>3. task' \in [Tasks -> Task \cup {None}]
  BY BecomeFits DEF FinishPull, End
<1> QED BY <1>2, <1>3 DEF FinishPull, TypeOK, settings, corroboration, world

\* The peer's side and the operators leave events, rows and tasks alone.
LEMMA TypeOutside ==
  ASSUME TypeOK,
         \/ RetryDue \/ Tick \/ \E e \in PeerEvents : Publish(e) \/ Edit(e)
         \/ \E o \in Orgs : Subscribe(o) \/ \E x \in Trusts : SetTrust(o, x)
         \/ \E g \in Groups : SetPublic(g)
         \/ DeletePeer
  PROVE  TypeOK'
<1> USE HubConstants DEF TypeOK, settings, corroboration, world, here
<1>1. CASE RetryDue
  BY <1>1 DEF RetryDue
<1>2. CASE Tick
  <2>1. clock' \in Times
    BY <1>2 DEF Tick, Times
  <2> QED BY <1>2, <2>1 DEF Tick
<1>3. CASE \E e \in PeerEvents : Publish(e)
  BY <1>3 DEF Publish
<1>4. CASE \E e \in PeerEvents : Edit(e)
  <2>1. edited' \in BOOLEAN /\ trouble' \in 0 .. MaxTrouble
    BY <1>4 DEF Edit, Pulling
  <2>2. upstream' \in [PeerEvents -> Times]
    BY <1>4 DEF Edit
  <2> QED BY <1>4, <2>1, <2>2 DEF Edit
<1>5. CASE \E o \in Orgs : Subscribe(o)
  BY <1>5 DEF Subscribe, Administer
<1>6. CASE \E o \in Orgs, x \in Trusts : SetTrust(o, x)
  BY <1>6 DEF SetTrust, Administer
<1>7. CASE \E g \in Groups : SetPublic(g)
  BY <1>7 DEF SetPublic, Administer
<1>8. CASE DeletePeer
  <2>1. inbound' \in [enabled : BOOLEAN, mark : Times, retry : BOOLEAN]
    BY <1>8 DEF DeletePeer
  <2>2. trouble' \in 0 .. MaxTrouble
    BY <1>8 DEF DeletePeer, Administer
  <2> QED BY <1>8, <2>1, <2>2 DEF DeletePeer, Administer
<1> QED BY <1>1, <1>2, <1>3, <1>4, <1>5, <1>6, <1>7, <1>8

LEMMA TypeStep == TypeOK /\ [Next]_vars => TypeOK'
<1> SUFFICES ASSUME TypeOK, [Next]_vars PROVE TypeOK'
  OBVIOUS
<1>1. ASSUME NEW t \in Tasks, NEW o \in Orgs, NEW u \in Posts, NEW g \in Groups, PostEvent(t, o, u, g)
      PROVE  TypeOK'
  BY <1>1, TypePost
<1>2. ASSUME NEW t \in Tasks,
             \/ InsertEvent(t) \/ InsertAttributes(t) \/ ReadTrust(t)
             \/ AddContributor(t) \/ CreditRow(t) \/ Die(t)
      PROVE  TypeOK'
  BY <1>2, TypeInsert, TypeAttributes, TypeTrust, TypeContribute, TypeCredit, TypeDie
<1>3. ASSUME NEW t \in Tasks, NEW c \in Credit, UpsertRow(t, c)
      PROVE  TypeOK'
  BY <1>3, TypeRow
<1>4. ASSUME NEW t \in Tasks,
             \/ SelectPeer(t) \/ LockPeer(t) \/ LoadTargets(t) \/ PullFails(t)
             \/ FetchPage(t) \/ UpsertEvent(t) \/ FinishPull(t)
      PROVE  TypeOK'
  BY <1>4, TypeSelect, TypeLock, TypeLoad, TypePullFails, TypeFetch, TypeUpsert, TypeFinish
<1>5. CASE UNCHANGED vars
  BY <1>5 DEF TypeOK, vars, settings, corroboration, world
<1> QED BY <1>1, <1>2, <1>3, <1>4, <1>5, TypeOutside DEF Next

\* Every variable keeps its type, for any number of overlapping requests.
THEOREM TypeCorrect == Spec => []TypeOK
BY TypeInit, TypeStep, PTL DEF Spec

(* ------------------------------------------------------------- promotion --- *)

Pending(t, k, o) == At(t, "credit") /\ task[t].org = o /\ task[t].now[1] = k

\* A pending credit is of a contributor no one has credited, and is the only
\* one; the count is the number of organisations credited.
CreditsPending ==
  /\ \A k \in Keys, o \in Orgs :
       /\ credits[<<k, o>>] \in {0, 1}
       /\ credits[<<k, o>>] = 1 => <<k, o>> \in contributors
       /\ <<k, o>> \in contributors /\ credits[<<k, o>>] = 0 =>
            <<k, o>> \in lost \/ \E t \in Tasks : Pending(t, k, o)
       /\ \A t \in Tasks : Pending(t, k, o) =>
            <<k, o>> \in contributors /\ credits[<<k, o>>] = 0 /\ <<k, o>> \notin lost
       /\ \A t, u \in Tasks : Pending(t, k, o) /\ Pending(u, k, o) => t = u
  /\ \A x \in lost : x \in contributors /\ credits[x] = 0
Counted == \A k \in Keys : count[k] = Cardinality({o \in Orgs : credits[<<k, o>>] = 1})
HubInv == TypeOK /\ CreditsPending /\ Counted

LEMMA HubInit == Init => HubInv
<1> SUFFICES ASSUME Init PROVE HubInv
  OBVIOUS
<1>1. TypeOK
  BY TypeInit
<1>2. CreditsPending
  BY DEF Init, CreditsPending, Pending, At
<1>3. ASSUME NEW k \in Keys PROVE count[k] = Cardinality({o \in Orgs : credits[<<k, o>>] = 1})
  <2>1. {o \in Orgs : credits[<<k, o>>] = 1} = {}
    BY DEF Init
  <2>2. Cardinality({}) = 0
    BY FS_EmptySet
  <2> QED BY <2>1, <2>2 DEF Init
<1> QED BY <1>1, <1>2, <1>3 DEF HubInv, Counted

\* The local steps lead to no credit.
LEMMA ProceedGoes ==
  ASSUME NEW r \in Task
  PROVE  Proceed(r) # None => Proceed(r).pc \in {"row", "fetch", "upsert"}
<1> DEFINE s == [r EXCEPT !.top = IF r.ts > @ THEN r.ts ELSE @]
<1>1. s \in Task
  BY DEF Task
<1> HIDE DEF s
<1>2. NextEvent(s, r.batch).pc \in {"fetch", "upsert"}
  BY <1>1 DEF NextEvent, Task
<1>3. [r EXCEPT !.pc = "row"].pc = "row"
  BY DEF Task
<1> QED BY <1>2, <1>3 DEF Proceed, s

\* A step that leaves the credits alone and starts none.
Quiet ==
  /\ UNCHANGED <<count, credits, contributors, lost>>
  /\ \A t \in Tasks, k \in Keys, o \in Orgs : Pending(t, k, o)' <=> Pending(t, k, o)

LEMMA QuietKeeps == HubInv /\ TypeOK' /\ Quiet => HubInv'
<1> SUFFICES ASSUME HubInv, TypeOK', Quiet PROVE HubInv'
  OBVIOUS
<1>1. CreditsPending'
  BY DEF HubInv, Quiet, CreditsPending
<1>2. Counted'
  BY DEF HubInv, Quiet, Counted
<1> QED BY <1>1, <1>2 DEF HubInv

LEMMA BecomeQuiet ==
  ASSUME TypeOK, NEW t \in Tasks, NEW r, Become(t, r), ~At(t, "credit"), r # None => r.pc # "credit",
         UNCHANGED <<count, credits, contributors, lost>>
  PROVE  Quiet
<1>1. ASSUME NEW u \in Tasks PROVE At(u, "credit")' <=> At(u, "credit")
  BY DEF TypeOK, Become, At
<1>2. ASSUME NEW u \in Tasks, At(u, "credit") PROVE task'[u] = task[u]
  <2>1. u # t
    BY <1>2
  <2> QED BY <2>1 DEF TypeOK, Become
<1> QED BY <1>1, <1>2 DEF Quiet, Pending

LEMMA SameTasksQuiet ==
  UNCHANGED <<task, count, credits, contributors, lost>> => Quiet
BY DEF Quiet, Pending, At

LEMMA InvPosting ==
  ASSUME HubInv, NEW t \in Tasks,
         \/ \E o \in Orgs, u \in Posts, g \in Groups : PostEvent(t, o, u, g)
         \/ InsertEvent(t) \/ InsertAttributes(t) \/ ReadTrust(t)
         \/ \E c \in Credit : UpsertRow(t, c)
  PROVE  Quiet
<1> USE DEF corroboration
<1>1. CASE \E o \in Orgs, u \in Posts, g \in Groups : PostEvent(t, o, u, g)
  <2>1. PICK o \in Orgs, u \in Posts, g \in Groups : PostEvent(t, o, u, g)
    BY <1>1
  <2> DEFINE r == [Request("insert", o) EXCEPT !.uuid = u, !.group = g]
  <2>2. r.pc = "insert"
    BY DEF Request
  <2> HIDE DEF r
  <2>3. ~At(t, "credit") /\ Become(t, r)
    BY <2>1 DEF PostEvent, At, r
  <2> QED BY <2>1, <2>2, <2>3, BecomeQuiet DEF HubInv, PostEvent
<1>2. CASE InsertEvent(t)
  <2>1. task[t] \in Task /\ ~At(t, "credit")
    BY <1>2, AtFits DEF HubInv, InsertEvent, At
  <2> DEFINE r == [task[t] EXCEPT !.pc = "attributes"]
  <2>2. r.pc = "attributes"
    BY <2>1 DEF Task
  <2> HIDE DEF r
  <2>3. Become(t, r) \/ Become(t, None)
    BY <1>2 DEF InsertEvent, Goto, End, r
  <2> QED BY <1>2, <2>1, <2>2, <2>3, BecomeQuiet DEF HubInv, InsertEvent
<1>3. CASE InsertAttributes(t)
  <2>1. task[t] \in Task /\ ~At(t, "credit")
    BY <1>3, AtFits DEF HubInv, InsertAttributes, At
  <2> DEFINE r == [task[t] EXCEPT !.pc = "trust"]
  <2>2. r.pc = "trust"
    BY <2>1 DEF Task
  <2> HIDE DEF r
  <2>3. Become(t, r) \/ Become(t, None)
    BY <1>3 DEF InsertAttributes, Goto, End, r
  <2> QED BY <1>3, <2>1, <2>2, <2>3, BecomeQuiet DEF HubInv, InsertAttributes
<1>4. CASE ReadTrust(t)
  <2>1. task[t] \in Task /\ ~At(t, "credit") /\ task[t].uuid \in Uuids
    BY <1>4, AtFits DEF HubInv, ReadTrust, At, Task
  <2> DEFINE at == {<<task[t].group, trust[task[t].org]>>} \cup task[t].targets
             todo == {<<<<a[1], v>>, a[2]>> : a \in at, v \in ValuesOf[task[t].uuid]}
  <2>2. todo \in SUBSET Credit
    <3>1. at \in SUBSET (Groups \X Trusts)
      BY <2>1 DEF HubInv, Task, TypeOK
    <3>2. ValuesOf[task[t].uuid] \in SUBSET Values
      BY <2>1, HubConstants
    <3> HIDE DEF at
    <3> QED BY <3>1, <3>2 DEF Credit, Keys
  <2> HIDE DEF todo
  <2> DEFINE r == Proceed([task[t] EXCEPT !.todo = todo])
  <2>3. [task[t] EXCEPT !.todo = todo] \in Task
    BY <2>1, <2>2 DEF Task
  <2>4. r # None => r.pc \in {"row", "fetch", "upsert"}
    BY <2>3, ProceedGoes
  <2>5. Become(t, r)
    BY <1>4 DEF ReadTrust, todo
  <2> HIDE DEF r
  <2> QED BY <1>4, <2>1, <2>4, <2>5, BecomeQuiet DEF HubInv, ReadTrust
<1>5. CASE \E c \in Credit : UpsertRow(t, c)
  <2>1. PICK c \in Credit : UpsertRow(t, c)
    BY <1>5
  <2>2. task[t] \in Task /\ ~At(t, "credit")
    BY <2>1, AtFits DEF HubInv, UpsertRow, At
  <2> DEFINE r == [task[t] EXCEPT !.pc = "contribute", !.now = c, !.todo = @ \ {c}]
  <2>3. r.pc = "contribute"
    BY <2>2 DEF Task
  <2>4. Become(t, r)
    BY <2>1 DEF UpsertRow
  <2> HIDE DEF r
  <2> QED BY <2>1, <2>2, <2>3, <2>4, BecomeQuiet DEF HubInv, UpsertRow
<1> QED BY <1>1, <1>2, <1>3, <1>4, <1>5

LEMMA InvPulling ==
  ASSUME HubInv, NEW t \in Tasks,
         \/ SelectPeer(t) \/ LockPeer(t) \/ LoadTargets(t) \/ PullFails(t)
         \/ FetchPage(t) \/ UpsertEvent(t) \/ FinishPull(t)
  PROVE  Quiet
<1> USE DEF corroboration
<1>1. CASE SelectPeer(t)
  <2> DEFINE r == [Request("selected", Peer) EXCEPT
                    !.group = DefaultGroup, !.since = inbound.mark, !.top = inbound.mark]
  <2>1. r.pc = "selected"
    BY DEF Request
  <2>2. Become(t, r) /\ ~At(t, "credit")
    BY <1>1 DEF SelectPeer, At
  <2> HIDE DEF r
  <2> QED BY <1>1, <2>1, <2>2, BecomeQuiet DEF HubInv, SelectPeer
<1>2. CASE LockPeer(t)
  <2>1. task[t] \in Task /\ ~At(t, "credit")
    BY <1>2, AtFits DEF HubInv, LockPeer, At
  <2> DEFINE r == [task[t] EXCEPT !.pc = "load"]
  <2>2. r.pc = "load" /\ Become(t, r)
    BY <1>2, <2>1 DEF LockPeer, Goto, Task
  <2> HIDE DEF r
  <2> QED BY <1>2, <2>1, <2>2, BecomeQuiet DEF HubInv, LockPeer
<1>3. CASE PullFails(t)
  <2>1. ~At(t, "credit") /\ Become(t, None)
    BY <1>3 DEF PullFails, At, End
  <2> QED BY <1>3, <2>1, BecomeQuiet DEF HubInv, PullFails
<1>4. CASE LoadTargets(t)
  <2>1. task[t] \in Task /\ ~At(t, "credit")
    BY <1>4, AtFits DEF HubInv, LoadTargets, At
  <2> DEFINE to == {<<g, Multiplied[trust[Peer]]>> :
                      g \in {h \in Groups \ {DefaultGroup} : \E o \in subscribed : <<h, o>> \in members}}
             r == [task[t] EXCEPT !.pc = "fetch", !.page = 1, !.targets = to]
  <2>2. Become(t, r)
    BY <1>4 DEF LoadTargets
  <2> HIDE DEF to
  <2>3. r.pc = "fetch"
    BY <2>1 DEF Task
  <2> HIDE DEF r
  <2> QED BY <1>4, <2>1, <2>2, <2>3, BecomeQuiet DEF HubInv, LoadTargets
<1>5. CASE FetchPage(t)
  <2>1. task[t] \in Task /\ ~At(t, "credit")
    BY <1>5, AtFits DEF HubInv, FetchPage, At
  <2> DEFINE page == PageOf(task[t].since, task[t].page)
             n == NextEvent(task[t], page)
             f == [task[t] EXCEPT !.pc = "finish"]
  <2>2. Become(t, n) \/ Become(t, f)
    BY <1>5 DEF FetchPage, Goto
  <2> HIDE DEF page
  <2>3. n.pc \in {"fetch", "upsert"} /\ f.pc = "finish"
    BY <2>1 DEF NextEvent, Task
  <2> HIDE DEF n, f
  <2> QED BY <1>5, <2>1, <2>2, <2>3, BecomeQuiet DEF HubInv, FetchPage
<1>6. CASE UpsertEvent(t)
  <2>1. task[t] \in Task /\ ~At(t, "credit")
    BY <1>6, AtFits DEF HubInv, UpsertEvent, At
  <2> DEFINE r == [task[t] EXCEPT !.pc = "attributes"]
  <2>2. r.pc = "attributes" /\ Become(t, r)
    BY <1>6, <2>1 DEF UpsertEvent, Goto, Task
  <2> HIDE DEF r
  <2> QED BY <1>6, <2>1, <2>2, BecomeQuiet DEF HubInv, UpsertEvent
<1>7. CASE FinishPull(t)
  <2>1. ~At(t, "credit") /\ Become(t, None)
    BY <1>7 DEF FinishPull, At, End
  <2> QED BY <1>7, <2>1, BecomeQuiet DEF HubInv, FinishPull
<1> QED BY <1>1, <1>2, <1>3, <1>4, <1>5, <1>6, <1>7

LEMMA Working ==
  ASSUME HubInv, NEW t \in Tasks, At(t, "contribute") \/ At(t, "credit")
  PROVE  /\ task[t] \in Task /\ task[t].org \in Orgs
         /\ task[t].now[1] \in Keys /\ task[t].now[2] \in Nat
<1>1. task[t] \in Task /\ task[t].now \in Credit /\ task[t].org \in Orgs
  BY AtFits DEF HubInv, At, Task
<1> QED BY <1>1, HubConstants DEF Credit

LEMMA InvContribute ==
  ASSUME HubInv, TypeOK', NEW t \in Tasks, AddContributor(t)
  PROVE  HubInv'
<1> DEFINE k0 == task[t].now[1]
           o0 == task[t].org
<1>1. task[t] \in Task /\ o0 \in Orgs /\ k0 \in Keys /\ ~At(t, "credit") /\ At(t, "contribute")
  BY Working DEF AddContributor, At
<1>2. CASE <<k0, o0>> \in contributors
  <2>1. Become(t, Proceed(task[t])) /\ UNCHANGED <<count, credits, lost>> /\ contributors' = contributors
    BY <1>2 DEF AddContributor, TypeOK, HubInv
  <2>2. Proceed(task[t]) # None => Proceed(task[t]).pc # "credit"
    BY <1>1, ProceedGoes
  <2>3. Quiet
    BY <1>1, <2>1, <2>2, BecomeQuiet DEF HubInv
  <2> QED BY <2>3, QuietKeeps
<1>3. CASE <<k0, o0>> \notin contributors
  <2> DEFINE r == [task[t] EXCEPT !.pc = "credit"]
  <2>1. r # None /\ r.pc = "credit" /\ r.org = o0 /\ r.now = task[t].now
    <3>1. r.pc = "credit" /\ r.org = o0 /\ r.now = task[t].now
      BY <1>1 DEF Task
    <3>3. r \in Task
      BY <1>1 DEF At, Task, Pcs
    <3> QED BY <3>1, <3>3, NoneIsNoTask
  <2>2. task' = [task EXCEPT ![t] = r] /\ contributors' = contributors \cup {<<k0, o0>>}
        /\ UNCHANGED <<count, credits, lost>>
    BY <1>3 DEF AddContributor, Goto, Become
  <2> HIDE DEF r
  <2>3. ASSUME NEW u \in Tasks, NEW k \in Keys, NEW o \in Orgs
        PROVE  Pending(u, k, o)' <=> Pending(u, k, o) \/ (u = t /\ k = k0 /\ o = o0)
    <3>1. CASE u = t
      BY <3>1, <2>1, <2>2, <1>1 DEF Pending, At, HubInv, TypeOK
    <3>2. CASE u # t
      BY <3>2, <2>2 DEF Pending, At, HubInv, TypeOK
    <3> QED BY <3>1, <3>2
  <2>4. credits[<<k0, o0>>] = 0 /\ <<k0, o0>> \notin lost
    BY <1>1, <1>3 DEF HubInv, CreditsPending
  <2>5. \A u \in Tasks : ~Pending(u, k0, o0)
    BY <1>1, <1>3 DEF HubInv, CreditsPending
  <2> HIDE DEF k0, o0
  <2>6. ASSUME NEW k \in Keys, NEW o \in Orgs
        PROVE  /\ credits'[<<k, o>>] \in {0, 1}
               /\ credits'[<<k, o>>] = 1 => <<k, o>> \in contributors'
               /\ <<k, o>> \in contributors' /\ credits'[<<k, o>>] = 0 =>
                    <<k, o>> \in lost' \/ \E u \in Tasks : Pending(u, k, o)'
               /\ \A u \in Tasks : Pending(u, k, o)' =>
                    <<k, o>> \in contributors' /\ credits'[<<k, o>>] = 0 /\ <<k, o>> \notin lost'
               /\ \A u, w \in Tasks : Pending(u, k, o)' /\ Pending(w, k, o)' => u = w
    <3>1. CASE k = k0 /\ o = o0
      BY <3>1, <2>2, <2>3, <2>4, <2>5, <1>1
    <3>2. CASE ~(k = k0 /\ o = o0)
      <4>1. \A u \in Tasks : Pending(u, k, o)' <=> Pending(u, k, o)
        BY <3>2, <2>3
      <4>2. <<k, o>> \in contributors' <=> <<k, o>> \in contributors
        BY <3>2, <2>2
      <4> QED BY <4>1, <4>2, <2>2 DEF HubInv, CreditsPending
    <3> QED BY <3>1, <3>2
  <2>7. \A x \in lost' : x \in contributors' /\ credits'[x] = 0
    BY <2>2 DEF HubInv, CreditsPending
  <2>8. CreditsPending'
    BY <2>6, <2>7 DEF CreditsPending
  <2>9. Counted'
    BY <2>2 DEF HubInv, Counted
  <2> QED BY <2>8, <2>9 DEF HubInv
<1> QED BY <1>2, <1>3

LEMMA InvCredit ==
  ASSUME HubInv, TypeOK', NEW t \in Tasks, CreditRow(t)
  PROVE  HubInv'
<1> DEFINE k0 == task[t].now[1]
           o0 == task[t].org
           r == Proceed(task[t])
<1>1. task[t] \in Task /\ o0 \in Orgs /\ k0 \in Keys /\ At(t, "credit")
  BY Working DEF CreditRow
<1>2. r # None => r.pc # "credit"
  BY <1>1, ProceedGoes
<1>3. Pending(t, k0, o0)
  BY <1>1 DEF Pending
<1>4. /\ task' = [task EXCEPT ![t] = r] /\ UNCHANGED <<contributors, lost>>
      /\ count' = [count EXCEPT ![k0] = @ + 1]
      /\ credits' = [credits EXCEPT ![<<k0, o0>>] = @ + 1]
  BY DEF CreditRow, Become
<1>5. credits[<<k0, o0>>] = 0 /\ <<k0, o0>> \in contributors /\ <<k0, o0>> \notin lost
  BY <1>1, <1>3 DEF HubInv, CreditsPending
<1>6. ASSUME NEW u \in Tasks, NEW k \in Keys, NEW o \in Orgs
      PROVE  Pending(u, k, o)' <=> Pending(u, k, o) /\ u # t
  <2> HIDE DEF r
  <2>1. CASE u = t
    BY <2>1, <1>2, <1>4 DEF Pending, At, HubInv, TypeOK
  <2>2. CASE u # t
    BY <2>2, <1>4 DEF Pending, At, HubInv, TypeOK
  <2> QED BY <2>1, <2>2
<1>7. \A k \in Keys, o \in Orgs : Pending(t, k, o) => k = k0 /\ o = o0
  BY DEF Pending
<1> HIDE DEF k0, o0, r
<1>8. /\ credits'[<<k0, o0>>] = 1
      /\ \A k \in Keys, o \in Orgs : ~(k = k0 /\ o = o0) => credits'[<<k, o>>] = credits[<<k, o>>]
  BY <1>1, <1>4, <1>5 DEF HubInv, TypeOK
<1>9. ASSUME NEW k \in Keys, NEW o \in Orgs
      PROVE  /\ credits'[<<k, o>>] \in {0, 1}
             /\ credits'[<<k, o>>] = 1 => <<k, o>> \in contributors'
             /\ <<k, o>> \in contributors' /\ credits'[<<k, o>>] = 0 =>
                  <<k, o>> \in lost' \/ \E u \in Tasks : Pending(u, k, o)'
             /\ \A u \in Tasks : Pending(u, k, o)' =>
                  <<k, o>> \in contributors' /\ credits'[<<k, o>>] = 0 /\ <<k, o>> \notin lost'
             /\ \A u, w \in Tasks : Pending(u, k, o)' /\ Pending(w, k, o)' => u = w
  <2>1. CASE k = k0 /\ o = o0
    <3>1. \A u \in Tasks : ~Pending(u, k, o)'
      BY <2>1, <1>1, <1>3, <1>6 DEF HubInv, CreditsPending
    <3> QED BY <2>1, <3>1, <1>4, <1>5, <1>8
  <2>2. CASE ~(k = k0 /\ o = o0)
    <3>1. \A u \in Tasks : Pending(u, k, o)' <=> Pending(u, k, o)
      BY <2>2, <1>6, <1>7
    <3> QED BY <2>2, <3>1, <1>4, <1>8 DEF HubInv, CreditsPending
  <2> QED BY <2>1, <2>2
<1>10. \A x \in lost' : x \in contributors' /\ credits'[x] = 0
  <2> SUFFICES ASSUME NEW x \in lost PROVE x \in contributors /\ credits'[x] = 0
    BY <1>4
  <2>1. x \in contributors /\ credits[x] = 0 /\ x # <<k0, o0>>
    BY <1>5 DEF HubInv, CreditsPending
  <2>2. x \in Keys \X Orgs
    BY DEF HubInv, TypeOK
  <2> QED BY <2>1, <2>2, <1>4 DEF HubInv, TypeOK
<1>11. CreditsPending'
  BY <1>9, <1>10 DEF CreditsPending
<1>12. ASSUME NEW k \in Keys
       PROVE  count'[k] = Cardinality({o \in Orgs : credits'[<<k, o>>] = 1})
  <2> DEFINE S == {o \in Orgs : credits[<<k, o>>] = 1}
  <2>1. count[k] = Cardinality(S) /\ IsFiniteSet(S)
    BY HubConstants, FS_Subset DEF HubInv, Counted
  <2>2. CASE k = k0
    <3>1. {o \in Orgs : credits'[<<k, o>>] = 1} = S \cup {o0}
      BY <2>2, <1>1, <1>8
    <3>2. o0 \notin S
      BY <2>2, <1>5
    <3> HIDE DEF S
    <3>3. Cardinality(S \cup {o0}) = Cardinality(S) + 1
      BY <2>1, <3>2, FS_AddElement
    <3>4. count'[k] = count[k] + 1
      BY <2>2, <1>4 DEF HubInv, TypeOK
    <3> QED BY <2>1, <3>1, <3>3, <3>4
  <2>3. CASE k # k0
    <3>1. {o \in Orgs : credits'[<<k, o>>] = 1} = S
      BY <2>3, <1>8
    <3>2. count'[k] = count[k]
      BY <2>3, <1>4 DEF HubInv, TypeOK
    <3> QED BY <2>1, <3>1, <3>2
  <2> QED BY <2>2, <2>3
<1>13. Counted'
  BY <1>12 DEF Counted
<1> QED BY <1>11, <1>13 DEF HubInv

LEMMA InvDie ==
  ASSUME HubInv, TypeOK', NEW t \in Tasks, Die(t)
  PROVE  HubInv'
<1>1. CASE ~At(t, "credit")
  <2>1. Become(t, None) /\ UNCHANGED <<count, credits, contributors, lost>>
    BY <1>1 DEF Die, End
  <2> QED BY <1>1, <2>1, BecomeQuiet, QuietKeeps DEF HubInv
<1>2. CASE At(t, "credit")
  <2> DEFINE k0 == task[t].now[1]
             o0 == task[t].org
  <2>1. o0 \in Orgs /\ k0 \in Keys /\ Pending(t, k0, o0)
    BY <1>2, Working DEF Pending
  <2>2. /\ task' = [task EXCEPT ![t] = None] /\ lost' = lost \cup {<<k0, o0>>}
        /\ UNCHANGED <<count, credits, contributors>>
    BY <1>2 DEF Die, End, Become
  <2>3. ASSUME NEW u \in Tasks, NEW k \in Keys, NEW o \in Orgs
        PROVE  Pending(u, k, o)' <=> Pending(u, k, o) /\ u # t
    <3>1. CASE u = t
      BY <3>1, <2>2 DEF Pending, At, HubInv, TypeOK
    <3>2. CASE u # t
      BY <3>2, <2>2 DEF Pending, At, HubInv, TypeOK
    <3> QED BY <3>1, <3>2
  <2>4. \A k \in Keys, o \in Orgs : Pending(t, k, o) => k = k0 /\ o = o0
    BY DEF Pending
  <2>5. credits[<<k0, o0>>] = 0 /\ <<k0, o0>> \in contributors
    BY <2>1 DEF HubInv, CreditsPending
  <2> HIDE DEF k0, o0
  <2>6. ASSUME NEW k \in Keys, NEW o \in Orgs
        PROVE  /\ credits'[<<k, o>>] \in {0, 1}
               /\ credits'[<<k, o>>] = 1 => <<k, o>> \in contributors'
               /\ <<k, o>> \in contributors' /\ credits'[<<k, o>>] = 0 =>
                    <<k, o>> \in lost' \/ \E u \in Tasks : Pending(u, k, o)'
               /\ \A u \in Tasks : Pending(u, k, o)' =>
                    <<k, o>> \in contributors' /\ credits'[<<k, o>>] = 0 /\ <<k, o>> \notin lost'
               /\ \A u, w \in Tasks : Pending(u, k, o)' /\ Pending(w, k, o)' => u = w
    <3>1. CASE k = k0 /\ o = o0
      <4>1. \A u \in Tasks : ~Pending(u, k, o)'
        BY <3>1, <2>1, <2>3 DEF HubInv, CreditsPending
      <4> QED BY <3>1, <4>1, <2>2, <2>5
    <3>2. CASE ~(k = k0 /\ o = o0)
      <4>1. \A u \in Tasks : Pending(u, k, o)' <=> Pending(u, k, o)
        BY <3>2, <2>3, <2>4
      <4>2. <<k, o>> \in lost' <=> <<k, o>> \in lost
        BY <3>2, <2>2
      <4> QED BY <4>1, <4>2, <2>2 DEF HubInv, CreditsPending
    <3> QED BY <3>1, <3>2
  <2>7. \A x \in lost' : x \in contributors' /\ credits'[x] = 0
    BY <2>2, <2>5 DEF HubInv, CreditsPending
  <2>8. CreditsPending'
    BY <2>6, <2>7 DEF CreditsPending
  <2>9. Counted'
    BY <2>2 DEF HubInv, Counted
  <2> QED BY <2>8, <2>9 DEF HubInv
<1> QED BY <1>1, <1>2

LEMMA InvStep == HubInv /\ [Next]_vars => HubInv'
<1> SUFFICES ASSUME HubInv, [Next]_vars PROVE HubInv'
  OBVIOUS
<1>1. TypeOK'
  BY TypeStep DEF HubInv
<1>2. ASSUME NEW t \in Tasks,
             \/ \E o \in Orgs, u \in Posts, g \in Groups : PostEvent(t, o, u, g)
             \/ InsertEvent(t) \/ InsertAttributes(t) \/ ReadTrust(t)
             \/ \E c \in Credit : UpsertRow(t, c)
      PROVE  HubInv'
  BY <1>1, <1>2, InvPosting, QuietKeeps
<1>3. ASSUME NEW t \in Tasks,
             \/ SelectPeer(t) \/ LockPeer(t) \/ LoadTargets(t) \/ PullFails(t)
             \/ FetchPage(t) \/ UpsertEvent(t) \/ FinishPull(t)
      PROVE  HubInv'
  BY <1>1, <1>3, InvPulling, QuietKeeps
<1>4. ASSUME NEW t \in Tasks, AddContributor(t) \/ CreditRow(t) \/ Die(t)
      PROVE  HubInv'
  BY <1>1, <1>4, InvContribute, InvCredit, InvDie
<1>5. CASE \/ RetryDue \/ Tick \/ \E e \in PeerEvents : Publish(e) \/ Edit(e)
           \/ \E o \in Orgs : Subscribe(o) \/ \E x \in Trusts : SetTrust(o, x)
           \/ \E g \in Groups : SetPublic(g)
           \/ DeletePeer
  <2>1. UNCHANGED <<task, count, credits, contributors, lost>>
    BY <1>5 DEF RetryDue, Tick, Publish, Edit, Subscribe, SetTrust, SetPublic, DeletePeer, Administer,
                here, corroboration
  <2> QED BY <1>1, <2>1, SameTasksQuiet, QuietKeeps
<1>6. CASE UNCHANGED vars
  BY <1>1, <1>6, SameTasksQuiet, QuietKeeps DEF vars, corroboration
<1> QED BY <1>2, <1>3, <1>4, <1>5, <1>6 DEF Next

(* ------------------------------------------------------------ the feeds --- *)

LEMMA TwoOfTwo ==
  ASSUME NEW S, IsFiniteSet(S), Cardinality(S) >= 2
  PROVE  \E o, p \in S : o # p
<1>1. PICK o : o \in S
  BY FS_EmptySet
<1>2. Cardinality(S \ {o}) = Cardinality(S) - 1 /\ IsFiniteSet(S \ {o})
  BY <1>1, FS_RemoveElement
<1>3. Cardinality(S) \in Nat
  BY FS_CardinalityType
<1>4. S \ {o} # {}
  BY <1>2, <1>3, FS_EmptySet
<1> QED BY <1>1, <1>4

LEMMA CorroboratedByTwo ==
  ASSUME HubInv, NEW g \in Groups, NEW v \in Values, Corroborated(<<g, v>>)
  PROVE  TwoContributed(g, v)
<1> DEFINE S == {o \in Orgs : credits[<<<<g, v>>, o>>] = 1}
<1>1. <<g, v>> \in Keys
  BY DEF Keys
<1>2. Cardinality(S) >= 2
  BY <1>1 DEF HubInv, Counted, Corroborated, PromotionContributors
<1>3. IsFiniteSet(S)
  BY HubConstants, FS_Subset
<1> HIDE DEF S
<1>4. PICK o, p \in S : o # p
  BY <1>2, <1>3, TwoOfTwo
<1> USE DEF S
<1>5. o \in Orgs /\ p \in Orgs /\ {<<<<g, v>>, o>>, <<<<g, v>>, p>>} \subseteq contributors
  BY <1>1, <1>4 DEF HubInv, CreditsPending
<1> QED BY <1>4, <1>5 DEF TwoContributed

LEMMA InvPromotion == HubInv => PromotionSound
<1> SUFFICES ASSUME HubInv PROVE PromotionSound
  OBVIOUS
<1>1. CreditedOnce
  <2>1. ASSUME NEW k \in Keys, NEW o \in Orgs PROVE credits[<<k, o>>] <= 1
    <3>1. credits[<<k, o>>] \in {0, 1}
      BY DEF HubInv, CreditsPending
    <3> QED BY <3>1
  <2> QED BY <2>1 DEF HubInv, Counted, CreditedOnce
<1>2. ContributorsCredited
  <2> SUFFICES ASSUME NEW k \in Keys, NEW o \in Orgs
               PROVE  /\ credits[<<k, o>>] > 0 => <<k, o>> \in contributors
                      /\ <<k, o>> \in contributors /\ credits[<<k, o>>] = 0 =>
                           <<k, o>> \in lost \/ \E t \in Tasks : Pending(t, k, o)
    BY DEF ContributorsCredited, Pending
  <2>1. credits[<<k, o>>] \in {0, 1}
    BY DEF HubInv, CreditsPending
  <2> QED BY <2>1 DEF HubInv, CreditsPending
<1>3. \A v \in PublicFeed : \E g \in public : TwoContributed(g, v)
  <2> SUFFICES ASSUME NEW g \in public, NEW v \in Promoted(g, None) PROVE TwoContributed(g, v)
    BY DEF PublicFeed
  <2>1. g \in Groups /\ v \in Values
    BY DEF HubInv, TypeOK, Promoted
  <2>2. <<<<g, v>>, None>> \notin contributors
    BY HubConstants DEF HubInv, TypeOK
  <2>3. Corroborated(<<g, v>>)
    BY <2>2 DEF Promoted
  <2> QED BY <2>1, <2>3, CorroboratedByTwo
<1>4. ASSUME NEW o \in Orgs, NEW v \in Destroylist(o)
      PROVE  \E g \in Groups : /\ g = NullGroup \/ <<g, o>> \in members
                               /\ TwoContributed(g, v) \/ <<<<g, v>>, o>> \in contributors
  <2>1. PICK g \in {NullGroup} \cup {h \in Groups : <<h, o>> \in members} : v \in Promoted(g, o)
    BY <1>4 DEF Destroylist
  <2>2. g \in Groups /\ v \in Values
    BY <2>1, HubConstants DEF Promoted
  <2>3. Corroborated(<<g, v>>) \/ <<<<g, v>>, o>> \in contributors
    BY <2>1 DEF Promoted
  <2> QED BY <2>1, <2>2, <2>3, CorroboratedByTwo
<1> QED BY <1>1, <1>2, <1>3, <1>4 DEF PromotionSound, FeedsCorroborated

\* However posts, pulls and their deaths interleave, an organisation is
\* credited once in a row, and what a feed lists two of them contributed.
THEOREM PromotionIsSound == Spec => []PromotionSound
<1>1. Spec => []HubInv
  BY HubInit, InvStep, PTL DEF Spec
<1> QED BY <1>1, InvPromotion, PTL

(* ---------------------------------------------------------- the watermark --- *)

Kept == PeerEvents \ (Ours \cup Unwanted)
Due(e) == e \in Kept \ late /\ upstream[e] > 0
Published == {e \in PeerEvents : upstream[e] > 0}

\* The three parts of an event that is pulled in.
StoredNow(e) == events[e] # None /\ events[e].ts = upstream[e]
Attributed(e) ==
  e \in attributes \cup bare \/ \E t \in Tasks : At(t, "attributes") /\ task[t].uuid = e
CreditedAll(e) == \A v \in ValuesOf[e] : <<<<DefaultGroup, v>>, Peer>> \in contributors

AtWork == {"upsert", "attributes", "trust", "row", "contribute", "credit"}

\* How far a pull has got with its event.
OnEvent(r) ==
  /\ r.uuid \in Kept /\ upstream[r.uuid] = r.ts /\ r.ts > 0
  /\ r.pc # "upsert" => StoredNow(r.uuid)
  /\ r.pc \in {"trust", "row", "contribute", "credit"} => Attributed(r.uuid)
  /\ r.pc \in {"row", "contribute", "credit"} =>
       \A v \in ValuesOf[r.uuid] :
         \/ <<<<DefaultGroup, v>>, Peer>> \in contributors
         \/ \E x \in Trusts : <<<<DefaultGroup, v>>, x>> \in r.todo
         \/ r.pc = "contribute" /\ r.now[1] = <<DefaultGroup, v>>

\* The events on the first n pages of a pull.
Within(r, n) == {e \in Listed(r.since) : Rank(e, r.since) < n * PageSize}

\* What is left of the page comes after the event.
Ahead(r) ==
  \A b \in r.batch : /\ b[1] \in Kept /\ upstream[b[1]] = b[2] /\ b[2] > 0 /\ b[2] >= r.since
                     /\ Before(r.uuid, b[1])
                     /\ Rank(b[1], r.since) < r.page * PageSize

\* What is behind a pull is pulled in: all before the time it has reached, the
\* pages it has finished, and of the page under way what is neither its event
\* nor still ahead.
Paged(r) ==
  /\ r.group = DefaultGroup /\ r.since <= r.top /\ r.top <= clock
  /\ \A e \in PeerEvents : Due(e) /\ upstream[e] < r.top => PulledIn(e)
  /\ r.pc = "fetch" => r.page > 0 /\ \A e \in Within(r, r.page - 1) : Due(e) => PulledIn(e)
  /\ r.pc \in AtWork =>
       /\ Ahead(r)
       /\ \A e \in PeerEvents : Due(e) /\ Before(e, r.uuid) => PulledIn(e)
       /\ \A e \in Within(r, r.page) :
            Due(e) => PulledIn(e) \/ e = r.uuid \/ <<e, upstream[e]>> \in r.batch

PullInv(r) == Paged(r) /\ (r.pc \in AtWork => OnEvent(r))

\* The peer has published finitely many events, in the order of their numbers.
WorldInv ==
  /\ IsFiniteSet(Published)
  /\ \A e, f \in PeerEvents : upstream[e] > 0 /\ f < e => upstream[f] > 0
  /\ \A e \in PeerEvents : upstream[e] <= clock
  /\ clock > 0

\* Posts and pulls keep to their own steps.
Sides ==
  \A t \in Tasks : task[t] # None =>
    /\ task[t].pc \in {"selected", "load", "fetch", "upsert", "finish"} => task[t].org = Peer
    /\ task[t].pc = "insert" => task[t].org # Peer

PagesInv ==
  ~edited =>
    /\ inbound.mark <= clock
    /\ \A e \in PeerEvents : Due(e) /\ upstream[e] < inbound.mark => PulledIn(e)
    /\ \A r \in Task : r.org = Peer /\ (\E t \in Tasks : task[t] = r) => PullInv(r)

WatermarkInv == TypeOK /\ WorldInv /\ Sides /\ PagesInv

LEMMA PulledInParts ==
  ASSUME NEW e
  PROVE  PulledIn(e) <=> StoredNow(e) /\ Attributed(e) /\ CreditedAll(e)
BY DEF PulledIn, StoredNow, Attributed, CreditedAll

LEMMA WatermarkInit == Init => WatermarkInv
<1> SUFFICES ASSUME Init PROVE WatermarkInv
  OBVIOUS
<1>1. TypeOK
  BY TypeInit
<1>2. Published = {}
  BY DEF Init, Published
<1>3. WorldInv
  BY <1>2, FS_EmptySet DEF Init, WorldInv
<1>4. Sides
  BY DEF Init, Sides
<1>5. PagesInv
  BY NoneIsNoTask DEF Init, PagesInv, Due
<1> QED BY <1>1, <1>3, <1>4, <1>5 DEF WatermarkInv

(* ------------------------------------------------------------- the list --- *)

LEMMA Numbers ==
  ASSUME TypeOK
  PROVE  /\ PeerEvents \subseteq Nat /\ Times \subseteq Nat
         /\ \A e \in PeerEvents : upstream[e] \in Nat
         /\ clock \in Nat /\ inbound.mark \in Nat
BY HubConstants DEF TypeOK, Times

LEMMA RankFits ==
  ASSUME TypeOK, WorldInv, NEW s, NEW e \in PeerEvents
  PROVE  Rank(e, s) \in Nat /\ IsFiniteSet({f \in Listed(s) : Before(f, e)})
<1>1. {f \in Listed(s) : Before(f, e)} \subseteq Published
  BY DEF Listed, Published
<1>2. IsFiniteSet({f \in Listed(s) : Before(f, e)})
  BY <1>1, FS_Subset DEF WorldInv
<1> QED BY <1>2, FS_CardinalityType DEF Rank

\* What comes earlier in the list has no higher place.
LEMMA RankGrows ==
  ASSUME TypeOK, WorldInv, NEW s, NEW e \in PeerEvents, NEW f \in PeerEvents, Before(f, e)
  PROVE  Rank(f, s) <= Rank(e, s)
<1> DEFINE F == {g \in Listed(s) : Before(g, f)}
           E == {g \in Listed(s) : Before(g, e)}
<1>1. F \subseteq E
  <2> SUFFICES ASSUME NEW g \in Listed(s), Before(g, f) PROVE Before(g, e)
    OBVIOUS
  <2>1. g \in PeerEvents
    BY DEF Listed
  <2> QED BY <2>1, Numbers DEF Before
<1>2. IsFiniteSet(E)
  BY RankFits
<1> HIDE DEF E, F
<1>3. Cardinality(F) <= Cardinality(E)
  BY <1>1, <1>2, FS_Subset
<1> QED BY <1>3 DEF E, F, Rank

\* The next event of a page, or the next page, finds what is behind pulled in.
LEMMA NextPaged ==
  ASSUME TypeOK, WorldInv, NEW q \in Task, NEW batch \in SUBSET (PeerEvents \X Times),
         NEW x, x = NextEvent(q, batch),
         q.group = DefaultGroup, q.since <= q.top, q.top <= clock,
         \A e \in PeerEvents : Due(e) /\ upstream[e] < q.top => PulledIn(e),
         \A e \in Within(q, q.page) : Due(e) => PulledIn(e) \/ <<e, upstream[e]>> \in batch,
         \A b \in batch : /\ upstream[b[1]] = b[2] /\ b[2] > 0 /\ b[2] >= q.since
                          /\ Rank(b[1], q.since) < q.page * PageSize
  PROVE  PullInv(x)
<1>1. /\ q.page \in Nat /\ q.since \in Nat /\ q.top \in Nat /\ PageSize \in Nat
      /\ q.page * PageSize \in Nat
  BY HubConstants DEF Task, Times
<1>2. \A e \in PeerEvents : Due(e) /\ <<e, upstream[e]>> \in batch
        => <<e, upstream[e]>> \in Wanted(batch)
  BY DEF Due, Kept, Wanted
<1>3. \A b \in batch : b[1] \in PeerEvents /\ b[2] \in Times /\ b = <<b[1], b[2]>>
  OBVIOUS
<1>4. \A e \in Within(q, q.page) : e \in PeerEvents
  BY DEF Within, Listed
<1>5. CASE Wanted(batch) = {}
  <2> DEFINE p == q.page + 1
  <2>1. x = [q EXCEPT !.pc = "fetch", !.page = p, !.batch = {}]
    BY <1>5 DEF NextEvent
  <2>2. /\ x.pc = "fetch" /\ x.page = p /\ x.since = q.since /\ x.top = q.top
        /\ x.group = q.group
    BY <2>1 DEF Task
  <2>3. p > 0 /\ p - 1 = q.page
    BY <1>1
  <2>4. Within(x, x.page - 1) = Within(q, q.page)
    BY <2>2, <2>3 DEF Within
  <2>5. \A e \in Within(q, q.page) : Due(e) => PulledIn(e)
    BY <1>2, <1>4, <1>5
  <2> HIDE DEF p
  <2> QED BY <2>2, <2>3, <2>4, <2>5 DEF PullInv, Paged, AtWork
<1>6. CASE Wanted(batch) # {}
  <2> DEFINE b == Earliest(Wanted(batch))
             rest == Wanted(batch) \ {b}
  <2>1. /\ b \in Wanted(batch)
        /\ \A y \in Wanted(batch) : b[2] < y[2] \/ (b[2] = y[2] /\ b[1] <= y[1])
    <3>1. Wanted(batch) \in SUBSET (PeerEvents \X Times)
      BY WantedFits
    <3> HIDE DEF rest
    <3> QED BY <1>6, <3>1, EarliestIsIn
  <2>2. x = [q EXCEPT !.pc = "upsert", !.uuid = b[1], !.ts = b[2], !.batch = rest]
    BY <1>6 DEF NextEvent
  <2>3. Wanted(batch) \subseteq batch /\ \A y \in Wanted(batch) : y[1] \in Kept
    BY <1>3 DEF Wanted, Kept
  <2> HIDE DEF b
  <2>4. /\ x.pc = "upsert" /\ x.uuid = b[1] /\ x.ts = b[2] /\ x.batch = rest
        /\ x.since = q.since /\ x.top = q.top /\ x.page = q.page /\ x.group = q.group
    BY <2>2 DEF Task
  <2> HIDE DEF rest
  <2>5. /\ b[1] \in Kept /\ b[1] \in PeerEvents /\ upstream[b[1]] = b[2] /\ b[2] > 0
        /\ Rank(b[1], q.since) < q.page * PageSize
    BY <1>3, <2>1, <2>3
  <2>6. OnEvent(x)
    BY <2>4, <2>5 DEF OnEvent
  <2>7. Ahead(x)
    <3> SUFFICES ASSUME NEW c \in Wanted(batch), c # b
                 PROVE  /\ c[1] \in Kept /\ upstream[c[1]] = c[2] /\ c[2] > 0 /\ c[2] >= q.since
                        /\ Before(b[1], c[1]) /\ Rank(c[1], q.since) < q.page * PageSize
      BY <2>4 DEF Ahead, rest
    <3>1. c \in batch /\ b \in batch /\ c[1] \in Kept
      BY <2>1, <2>3
    <3>2. c[1] = b[1] => c = b
      BY <1>3, <3>1
    <3>3. Before(b[1], c[1])
      BY <1>3, <2>1, <2>5, <3>1, <3>2, Numbers DEF Before
    <3> QED BY <3>1, <3>3
  <2>8. ASSUME NEW e \in PeerEvents, Due(e), Before(e, b[1])
        PROVE  PulledIn(e)
    <3>1. CASE e \in Listed(q.since)
      <4>1. Rank(e, q.since) <= Rank(b[1], q.since)
        BY <2>5, <2>8, RankGrows
      <4>2. Rank(e, q.since) < q.page * PageSize
        <5>1. Rank(e, q.since) \in Nat /\ Rank(b[1], q.since) \in Nat
          BY <2>5, RankFits
        <5> DEFINE n == q.page * PageSize
        <5>2. n \in Nat /\ Rank(b[1], q.since) < n
          BY <1>1, <2>5
        <5> HIDE DEF n
        <5>3. Rank(e, q.since) < n
          BY <4>1, <5>1, <5>2
        <5> QED BY <5>3 DEF n
      <4>3. e \in Within(q, q.page)
        BY <3>1, <4>2 DEF Within
      <4>4. <<e, upstream[e]>> \notin Wanted(batch)
        BY <2>1, <2>5, <2>8, Numbers DEF Before
      <4> QED BY <2>8, <4>3, <4>4, <1>2
    <3>2. CASE e \notin Listed(q.since)
      <4>1. upstream[e] < q.top
        BY <2>8, <3>2, <1>1, Numbers DEF Listed, Due
      <4> QED BY <2>8, <4>1
    <3> QED BY <3>1, <3>2
  <2>9. ASSUME NEW e \in Within(q, q.page), Due(e)
        PROVE  PulledIn(e) \/ e = b[1] \/ <<e, upstream[e]>> \in rest
    <3>1. PulledIn(e) \/ <<e, upstream[e]>> \in Wanted(batch)
      BY <1>2, <1>4, <2>9
    <3>2. <<e, upstream[e]>>[1] = e
      OBVIOUS
    <3> QED BY <3>1, <3>2 DEF rest
  <2>10. Within(x, x.page) = Within(q, q.page)
    BY <2>4 DEF Within
  <2>11. Paged(x)
    <3>1. x.pc # "fetch"
      BY <2>4
    <3> QED BY <2>4, <2>7, <2>8, <2>9, <2>10, <3>1 DEF Paged
  <2> QED BY <2>6, <2>11 DEF PullInv
<1> QED BY <1>5, <1>6

(* --------------------------------------------------- what others' steps keep --- *)

\* No step takes back what an event has.
Keeps ==
  /\ \A e \in PeerEvents : /\ StoredNow(e) => StoredNow(e)'
                           /\ Attributed(e) => Attributed(e)'
  /\ contributors \subseteq contributors'

SameWorld == upstream' = upstream /\ late' = late /\ clock <= clock'

LEMMA SameList ==
  ASSUME upstream' = upstream
  PROVE  /\ \A s : Listed(s)' = Listed(s)
         /\ \A e, f : Before(e, f)' <=> Before(e, f)
         /\ \A e, s : Rank(e, s)' = Rank(e, s)
<1>1. ASSUME NEW s PROVE Listed(s)' = Listed(s)
  BY DEF Listed
<1>2. ASSUME NEW e, NEW f PROVE Before(e, f)' <=> Before(e, f)
  BY DEF Before
<1>3. ASSUME NEW e, NEW s PROVE Rank(e, s)' = Rank(e, s)
  <2> DEFINE A == {f \in Listed(s) : Before(f, e)}
             B == {f \in Listed(s)' : Before(f, e)'}
  <2>1. A = B
    BY <1>1, <1>2
  <2>2. Rank(e, s) = Cardinality(A) /\ Rank(e, s)' = Cardinality(B)
    BY DEF Rank
  <2> HIDE DEF A, B
  <2> QED BY <2>1, <2>2
<1> QED BY <1>1, <1>2, <1>3

LEMMA KeepsPulledIn ==
  ASSUME Keeps, NEW e \in PeerEvents, PulledIn(e)
  PROVE  PulledIn(e)'
<1>1. StoredNow(e)' /\ Attributed(e)' /\ CreditedAll(e)'
  BY PulledInParts DEF Keeps, CreditedAll
<1> QED BY <1>1 DEF PulledIn, StoredNow, Attributed, CreditedAll

LEMMA FrameOnEvent ==
  ASSUME Keeps, SameWorld, NEW r, OnEvent(r)
  PROVE  OnEvent(r)'
<1>1. r.uuid \in PeerEvents
  BY DEF OnEvent, Kept
<1>2. /\ StoredNow(r.uuid) => StoredNow(r.uuid)'
      /\ Attributed(r.uuid) => Attributed(r.uuid)'
      /\ contributors \subseteq contributors'
  BY <1>1 DEF Keeps
<1> QED BY <1>2 DEF OnEvent, SameWorld, Kept

LEMMA FramePaged ==
  ASSUME TypeOK, TypeOK', Keeps, SameWorld, NEW r \in Task, Paged(r)
  PROVE  Paged(r)'
<1>1. \A e \in PeerEvents : PulledIn(e) => PulledIn(e)'
  BY KeepsPulledIn
<1>2. \A e : Due(e)' <=> Due(e)
  BY DEF Due, Kept, SameWorld
<1>3. /\ \A s : Listed(s)' = Listed(s)
      /\ \A e, f : Before(e, f)' <=> Before(e, f)
      /\ \A e, s : Rank(e, s)' = Rank(e, s)
  BY SameList DEF SameWorld
<1>4. \A n : Within(r, n)' = Within(r, n)
  <2> TAKE n
  <2> DEFINE A == {e \in Listed(r.since) : Rank(e, r.since) < n * PageSize}
             B == {e \in Listed(r.since)' : Rank(e, r.since)' < n * PageSize}
  <2>1. A = B
    BY <1>3
  <2>2. Within(r, n) = A /\ Within(r, n)' = B
    BY DEF Within
  <2> HIDE DEF A, B
  <2> QED BY <2>1, <2>2
<1>5. \A n : Within(r, n) \subseteq PeerEvents
  BY DEF Within, Listed
<1>6. r.group = DefaultGroup /\ r.since <= r.top /\ r.top <= clock'
  <2>1. r.top \in Nat /\ clock \in Nat /\ clock' \in Nat
    BY Numbers DEF TypeOK, Times, Task
  <2> QED BY <2>1 DEF Paged, SameWorld
<1>7. \A e \in PeerEvents : Due(e)' /\ upstream'[e] < r.top => PulledIn(e)'
  BY <1>1, <1>2 DEF Paged, SameWorld
<1>8. r.pc = "fetch" => r.page > 0 /\ \A e \in Within(r, r.page - 1)' : Due(e)' => PulledIn(e)'
  BY <1>1, <1>2, <1>4, <1>5 DEF Paged
<1>9. ASSUME r.pc \in AtWork
      PROVE  /\ Ahead(r)'
             /\ \A e \in PeerEvents : Due(e)' /\ Before(e, r.uuid)' => PulledIn(e)'
             /\ \A e \in Within(r, r.page)' :
                  Due(e)' => PulledIn(e)' \/ e = r.uuid \/ <<e, upstream'[e]>> \in r.batch
  <2>1. Ahead(r)'
    <3>1. Ahead(r)
      BY <1>9 DEF Paged
    <3> QED BY <3>1, <1>3 DEF Ahead, SameWorld, Kept
  <2>2. \A e \in PeerEvents : Due(e)' /\ Before(e, r.uuid)' => PulledIn(e)'
    BY <1>1, <1>2, <1>3, <1>9 DEF Paged
  <2>3. \A e \in Within(r, r.page)' :
           Due(e)' => PulledIn(e)' \/ e = r.uuid \/ <<e, upstream'[e]>> \in r.batch
    BY <1>1, <1>2, <1>4, <1>5, <1>9 DEF Paged, SameWorld
  <2> QED BY <2>1, <2>2, <2>3
<1> QED BY <1>6, <1>7, <1>8, <1>9 DEF Paged, AtWork

LEMMA KeepsBy ==
  ASSUME TypeOK, NEW t \in Tasks, NEW x, task' = [task EXCEPT ![t] = x], upstream' = upstream,
         contributors \subseteq contributors', bare \subseteq bare',
         \A e \in PeerEvents : StoredNow(e) => StoredNow(e)',
         \A e \in attributes \ attributes' : x # None /\ x.pc = "attributes" /\ x.uuid = e,
         At(t, "attributes") => task[t].uuid \in attributes' \cup bare'
  PROVE  Keeps
<1> SUFFICES ASSUME NEW e \in PeerEvents, Attributed(e) PROVE Attributed(e)'
  BY DEF Keeps
<1>1. \A u \in Tasks : task'[u] = IF u = t THEN x ELSE task[u]
  BY DEF TypeOK
<1>2. CASE e \in attributes \cup bare
  <2>1. CASE e \in attributes' \cup bare'
    BY <2>1 DEF Attributed
  <2>2. CASE e \notin attributes' \cup bare'
    <3>1. At(t, "attributes")' /\ task'[t].uuid = e
      BY <1>1, <1>2, <2>2 DEF At
    <3> QED BY <3>1 DEF Attributed
  <2> QED BY <2>1, <2>2
<1>3. ASSUME NEW u \in Tasks, At(u, "attributes"), task[u].uuid = e
      PROVE  Attributed(e)'
  <2>1. CASE u = t
    BY <1>3, <2>1 DEF Attributed
  <2>2. CASE u # t
    <3>1. At(u, "attributes")' /\ task'[u].uuid = e
      BY <1>1, <1>3, <2>2 DEF At
    <3> QED BY <3>1 DEF Attributed
  <2> QED BY <2>1, <2>2
<1> QED BY <1>2, <1>3 DEF Attributed

(* --------------------------------------------------------------- the pulls --- *)

\* A pull that keeps to its event keeps its pages.
LEMMA SameEvent ==
  ASSUME NEW q \in Task, NEW x \in Task, Paged(q), q.pc \in AtWork, x.pc \in AtWork,
         x.uuid = q.uuid, x.ts = q.ts, x.since = q.since, x.top = q.top, x.page = q.page,
         x.batch = q.batch, x.group = q.group
  PROVE  Paged(x)
<1>1. \A n : Within(x, n) = Within(q, n)
  BY DEF Within
<1>2. Ahead(x)
  BY DEF Ahead, Paged
<1>3. x.pc # "fetch"
  BY DEF AtWork
<1> QED BY <1>1, <1>2, <1>3 DEF Paged

\* An event that is pulled in is behind its pull.
LEMMA EventDone ==
  ASSUME TypeOK, WorldInv, NEW q \in Task, Paged(q), q.pc \in AtWork, q.org = Peer, q.todo = {},
         q.uuid \in Kept, upstream[q.uuid] = q.ts, q.ts > 0, PulledIn(q.uuid),
         NEW x, x = Proceed(q)
  PROVE  PullInv(x)
<1> DEFINE top == IF q.ts > q.top THEN q.ts ELSE q.top
           s == [q EXCEPT !.top = top]
<1>1. x = NextEvent(s, s.batch)
  BY DEF Proceed, Task
<1>2. /\ q.uuid \in PeerEvents /\ q.ts \in Nat /\ q.top \in Nat /\ q.since \in Nat /\ clock \in Nat
      /\ q.ts <= clock
  BY Numbers DEF Kept, Task, WorldInv, TypeOK, Times
<1>3. s \in Task
  BY DEF Task
<1>4. /\ s.group = q.group /\ s.since = q.since /\ s.top = top /\ s.page = q.page
      /\ s.batch = q.batch
  BY DEF Task
<1>5. s.group = DefaultGroup /\ s.since <= s.top /\ s.top <= clock
  BY <1>2, <1>4 DEF Paged
<1>6. ASSUME NEW e \in PeerEvents, Due(e), upstream[e] < s.top PROVE PulledIn(e)
  <2>1. CASE upstream[e] < q.top
    BY <1>6, <2>1 DEF Paged
  <2>2. CASE ~(upstream[e] < q.top)
    <3>1. Before(e, q.uuid)
      BY <1>2, <1>4, <1>6, <2>2, Numbers DEF Before
    <3> QED BY <1>6, <3>1 DEF Paged
  <2> QED BY <2>1, <2>2
<1>7. \A e \in Within(s, s.page) : Due(e) => PulledIn(e) \/ <<e, upstream[e]>> \in s.batch
  <2>1. Within(s, s.page) = Within(q, q.page)
    BY <1>4 DEF Within
  <2> QED BY <1>4, <2>1 DEF Paged
<1>8. \A b \in s.batch : /\ upstream[b[1]] = b[2] /\ b[2] > 0 /\ b[2] >= s.since
                         /\ Rank(b[1], s.since) < s.page * PageSize
  BY <1>4 DEF Paged, Ahead
<1>9. s.batch \in SUBSET (PeerEvents \X Times)
  BY <1>3 DEF Task
<1> HIDE DEF s, top
<1> QED BY <1>1, <1>3, <1>5, <1>6, <1>7, <1>8, <1>9, NextPaged

\* A task's step keeps the invariant if it takes nothing back, and what the
\* task becomes is behind no event.
LEMMA PagesBy ==
  ASSUME WatermarkInv, TypeOK', NEW t \in Tasks, NEW x \in Task \cup {None},
         task' = [task EXCEPT ![t] = x], UNCHANGED world,
         Keeps, ~edited,
         \/ inbound'.mark = inbound.mark
         \/ /\ inbound'.mark <= clock
            /\ \A e \in PeerEvents : Due(e) /\ upstream[e] < inbound'.mark => PulledIn(e),
         x = None \/ x.org # Peer \/ PullInv(x)'
  PROVE  PagesInv'
<1>1. SameWorld
  BY Numbers DEF WatermarkInv, SameWorld, world
<1>2. inbound'.mark <= clock'
  BY DEF WatermarkInv, PagesInv, world
<1>3. ASSUME NEW e \in PeerEvents, Due(e)', upstream'[e] < inbound'.mark PROVE PulledIn(e)'
  <2>1. Due(e) /\ upstream[e] < inbound'.mark
    BY <1>3 DEF Due, Kept, world
  <2>2. PulledIn(e)
    BY <2>1 DEF WatermarkInv, PagesInv
  <2> QED BY <2>2, KeepsPulledIn
<1>4. ASSUME NEW r \in Task, r.org = Peer, NEW u \in Tasks, task'[u] = r PROVE PullInv(r)'
  <2>1. CASE u = t
    <3>1. r = x
      BY <1>4, <2>1 DEF WatermarkInv, TypeOK
    <3>2. PullInv(x)'
      BY <1>4, <3>1, NoneIsNoTask
    <3> QED BY <3>1, <3>2
  <2>2. CASE u # t
    <3>1. task[u] = r
      BY <1>4, <2>2 DEF WatermarkInv, TypeOK
    <3>2. PullInv(r)
      BY <1>4, <3>1 DEF WatermarkInv, PagesInv
    <3>3. Paged(r)'
      BY <1>1, <3>2, FramePaged DEF PullInv, WatermarkInv
    <3>4. r.pc \in AtWork => OnEvent(r)'
      BY <1>1, <3>2, FrameOnEvent DEF PullInv
    <3> QED BY <3>3, <3>4 DEF PullInv, AtWork
  <2> QED BY <2>1, <2>2
<1> QED BY <1>2, <1>3, <1>4 DEF PagesInv

LEMMA FramePull ==
  ASSUME TypeOK, TypeOK', Keeps, SameWorld, NEW r \in Task, PullInv(r)
  PROVE  PullInv(r)'
BY FramePaged, FrameOnEvent DEF PullInv, AtWork

LEMMA PullOf ==
  ASSUME WatermarkInv, ~edited, NEW t \in Tasks, NEW q, q = task[t], q # None, q.org = Peer
  PROVE  q \in Task /\ PullInv(q)
<1>1. q \in Task
  BY AtFits DEF WatermarkInv
<1> QED BY <1>1 DEF WatermarkInv, PagesInv

\* The next attribute, or the next event once all attributes are credited.
LEMMA ProceedWork ==
  ASSUME TypeOK, WorldInv, NEW q \in Task, Paged(q), q.pc \in AtWork, q.org = Peer,
         q.uuid \in Kept, upstream[q.uuid] = q.ts, q.ts > 0,
         StoredNow(q.uuid), Attributed(q.uuid),
         \A v \in ValuesOf[q.uuid] : \/ <<<<DefaultGroup, v>>, Peer>> \in contributors
                                     \/ \E y \in Trusts : <<<<DefaultGroup, v>>, y>> \in q.todo,
         NEW x, x = Proceed(q)
  PROVE  PullInv(x)
<1>1. CASE q.todo # {}
  <2>1. x = [q EXCEPT !.pc = "row"]
    BY <1>1 DEF Proceed
  <2>2. /\ x \in Task /\ x.pc = "row" /\ x.uuid = q.uuid /\ x.ts = q.ts /\ x.since = q.since
        /\ x.top = q.top /\ x.page = q.page /\ x.batch = q.batch /\ x.group = q.group
        /\ x.todo = q.todo
    BY <2>1 DEF Task, Pcs
  <2>3. Paged(x)
    BY <2>2, SameEvent DEF AtWork
  <2>4. OnEvent(x)
    BY <2>2 DEF OnEvent
  <2> QED BY <2>3, <2>4 DEF PullInv
<1>2. CASE q.todo = {}
  <2>1. CreditedAll(q.uuid)
    BY <1>2 DEF CreditedAll
  <2>2. PulledIn(q.uuid)
    BY <2>1, PulledInParts
  <2> QED BY <1>2, <2>2, EventDone
<1> QED BY <1>1, <1>2

LEMMA LocalStep ==
  ASSUME WatermarkInv, TypeOK', ~edited, NEW t \in Tasks, NEW x,
         task' = [task EXCEPT ![t] = x], UNCHANGED world,
         UNCHANGED <<events, attributes, contributors, bare>>, ~At(t, "attributes"),
         \/ inbound'.mark = inbound.mark
         \/ /\ inbound'.mark <= clock
            /\ \A e \in PeerEvents : Due(e) /\ upstream[e] < inbound'.mark => PulledIn(e),
         x = None \/ x.org # Peer \/ PullInv(x)
  PROVE  PagesInv'
<1>1. TypeOK /\ x \in Task \cup {None}
  <2>1. task'[t] = x
    BY DEF WatermarkInv, TypeOK
  <2> QED BY <2>1 DEF WatermarkInv, TypeOK
<1>2. \A e \in PeerEvents : StoredNow(e) => StoredNow(e)'
  BY DEF StoredNow, world
<1>3. Keeps
  BY <1>1, <1>2, KeepsBy DEF world
<1>4. SameWorld
  BY <1>1, Numbers DEF SameWorld, world
<1>5. x = None \/ x.org # Peer \/ PullInv(x)'
  BY <1>1, <1>3, <1>4, FramePull
<1> QED BY <1>1, <1>3, <1>5, PagesBy

LEMMA PagesPost ==
  ASSUME WatermarkInv, TypeOK', ~edited, NEW t \in Tasks, NEW o \in Orgs, NEW u \in Posts,
         NEW g \in Groups, PostEvent(t, o, u, g)
  PROVE  PagesInv'
<1>1. PICK x : x = [Request("insert", o) EXCEPT !.uuid = u, !.group = g]
  OBVIOUS
<1>2. x.org # Peer
  BY <1>1 DEF PostEvent, Request
<1>3. task' = [task EXCEPT ![t] = x] /\ ~At(t, "attributes")
  BY <1>1 DEF PostEvent, Become, At
<1>4. UNCHANGED <<events, attributes, contributors, bare, world, inbound>>
  BY DEF PostEvent, corroboration
<1> QED BY <1>2, <1>3, <1>4, LocalStep

LEMMA PagesSelect ==
  ASSUME WatermarkInv, TypeOK', ~edited, NEW t \in Tasks, SelectPeer(t)
  PROVE  PagesInv'
<1>1. PICK x : x = [Request("selected", Peer) EXCEPT
                      !.group = DefaultGroup, !.since = inbound.mark, !.top = inbound.mark]
  OBVIOUS
<1>2. x.pc = "selected" /\ x.group = DefaultGroup /\ x.since = inbound.mark /\ x.top = inbound.mark
  BY <1>1 DEF Request
<1>3. task' = [task EXCEPT ![t] = x] /\ ~At(t, "attributes")
  BY <1>1 DEF SelectPeer, Become, At
<1>4. UNCHANGED <<events, attributes, contributors, bare, world, inbound>>
  BY DEF SelectPeer, corroboration
<1>5. PullInv(x)
  BY <1>2, Numbers DEF PullInv, Paged, AtWork, WatermarkInv, PagesInv
<1> QED BY <1>3, <1>4, <1>5, LocalStep

LEMMA PagesLock ==
  ASSUME WatermarkInv, TypeOK', ~edited, NEW t \in Tasks, LockPeer(t)
  PROVE  PagesInv'
<1>1. PICK q : q = task[t]
  OBVIOUS
<1>2. q # None /\ q.pc = "selected" /\ q.org = Peer
  BY <1>1 DEF LockPeer, At, WatermarkInv, Sides
<1>3. q \in Task /\ PullInv(q)
  BY <1>1, <1>2, PullOf
<1>4. PICK x : x = [q EXCEPT !.pc = "load"]
  OBVIOUS
<1>5. x.pc = "load" /\ x.group = q.group /\ x.since = q.since /\ x.top = q.top
  BY <1>3, <1>4 DEF Task
<1>6. PullInv(x)
  BY <1>3, <1>5 DEF PullInv, Paged, AtWork
<1>7. task' = [task EXCEPT ![t] = x] /\ ~At(t, "attributes")
  BY <1>1, <1>2, <1>4 DEF LockPeer, Goto, Become, At
<1>8. UNCHANGED <<events, attributes, contributors, bare, world>> /\ inbound'.mark = inbound.mark
  BY DEF LockPeer, corroboration, WatermarkInv, TypeOK
<1> QED BY <1>6, <1>7, <1>8, LocalStep

LEMMA PagesLoad ==
  ASSUME WatermarkInv, TypeOK', ~edited, NEW t \in Tasks, LoadTargets(t)
  PROVE  PagesInv'
<1>1. PICK q : q = task[t]
  OBVIOUS
<1>2. q # None /\ q.pc = "load" /\ q.org = Peer
  BY <1>1 DEF LoadTargets, At, WatermarkInv, Sides
<1>3. q \in Task /\ PullInv(q)
  BY <1>1, <1>2, PullOf
<1>4. PICK x : /\ task' = [task EXCEPT ![t] = x]
               /\ \E to : x = [q EXCEPT !.pc = "fetch", !.page = 1, !.targets = to]
  BY <1>1 DEF LoadTargets, Become
<1>5. /\ x.pc = "fetch" /\ x.group = q.group /\ x.since = q.since /\ x.top = q.top
      /\ x.page = 1
  BY <1>3, <1>4 DEF Task
<1>6. Within(x, x.page - 1) = {}
  <2>1. (x.page - 1) * PageSize = 0
    BY <1>5, HubConstants
  <2>2. \A e \in Listed(x.since) : e \in PeerEvents
    BY DEF Listed
  <2>3. \A e \in PeerEvents : Rank(e, x.since) \in Nat
    BY RankFits DEF WatermarkInv
  <2>4. \A n \in Nat : ~(n < 0)
    OBVIOUS
  <2> QED BY <2>1, <2>2, <2>3, <2>4 DEF Within
<1>7. PullInv(x)
  BY <1>3, <1>5, <1>6 DEF PullInv, Paged, AtWork
<1>8. ~At(t, "attributes") /\ UNCHANGED <<events, attributes, contributors, bare, world, inbound>>
  BY <1>1, <1>2 DEF LoadTargets, corroboration, At
<1> QED BY <1>4, <1>7, <1>8, LocalStep

LEMMA PagesFetch ==
  ASSUME WatermarkInv, TypeOK', ~edited, NEW t \in Tasks, FetchPage(t)
  PROVE  PagesInv'
<1>1. PICK q : q = task[t]
  OBVIOUS
<1>2. q # None /\ q.pc = "fetch" /\ q.org = Peer
  BY <1>1 DEF FetchPage, At, WatermarkInv, Sides
<1>3. q \in Task /\ PullInv(q)
  BY <1>1, <1>2, PullOf
<1>4. PICK batch : batch = PageOf(q.since, q.page)
  OBVIOUS
<1>5. PICK x : /\ task' = [task EXCEPT ![t] = x]
               /\ x = [q EXCEPT !.pc = "finish"] \/ x = NextEvent(q, batch)
  BY <1>1, <1>4 DEF FetchPage, Become, Goto
<1>6. ASSUME x = [q EXCEPT !.pc = "finish"] PROVE PullInv(x)
  <2>1. x.pc = "finish" /\ x.group = q.group /\ x.since = q.since /\ x.top = q.top
    BY <1>3, <1>6 DEF Task
  <2> QED BY <1>3, <2>1 DEF PullInv, Paged, AtWork
<1>7. ASSUME x = NextEvent(q, batch) PROVE PullInv(x)
  <2>1. Paged(q)
    BY <1>3 DEF PullInv
  <2>2. batch = {<<e, upstream[e]>> : e \in {f \in Listed(q.since) :
                     /\ (q.page - 1) * PageSize <= Rank(f, q.since)
                     /\ Rank(f, q.since) < q.page * PageSize}}
    BY <1>4 DEF PageOf
  <2>3. \A e \in Listed(q.since) : e \in PeerEvents /\ upstream[e] > 0 /\ upstream[e] >= q.since
    BY DEF Listed
  <2>4. \A b \in batch : /\ b[1] \in PeerEvents /\ b = <<b[1], b[2]>>
                         /\ upstream[b[1]] = b[2] /\ b[2] > 0 /\ b[2] >= q.since
                         /\ Rank(b[1], q.since) < q.page * PageSize
    BY <2>2, <2>3
  <2>5. batch \in SUBSET (PeerEvents \X Times)
    BY <2>4 DEF WatermarkInv, TypeOK
  <2>6. ASSUME NEW e \in Within(q, q.page), Due(e)
        PROVE  PulledIn(e) \/ <<e, upstream[e]>> \in batch
    <3> DEFINE n == (q.page - 1) * PageSize
    <3>1. e \in Listed(q.since) /\ Rank(e, q.since) < q.page * PageSize
      BY <2>6 DEF Within
    <3>2. n \in Int /\ Rank(e, q.since) \in Nat
      <4>1. q.page - 1 \in Int /\ PageSize \in Int
        BY <1>3, HubConstants DEF Task
      <4>2. n \in Int
        BY <4>1
      <4> QED BY <2>3, <3>1, <4>2, RankFits DEF WatermarkInv
    <3>3. CASE Rank(e, q.since) < n
      <4>1. e \in Within(q, q.page - 1)
        BY <3>1, <3>3 DEF Within
      <4> QED BY <1>2, <2>1, <2>6, <4>1 DEF Paged
    <3>4. CASE n <= Rank(e, q.since)
      BY <2>2, <3>1, <3>4
    <3> HIDE DEF n
    <3> QED BY <3>2, <3>3, <3>4
  <2>7. q.group = DefaultGroup /\ q.since <= q.top /\ q.top <= clock
        /\ \A e \in PeerEvents : Due(e) /\ upstream[e] < q.top => PulledIn(e)
    BY <2>1 DEF Paged
  <2> QED BY <1>3, <1>7, <2>4, <2>5, <2>6, <2>7, NextPaged DEF WatermarkInv
<1>8. ~At(t, "attributes") /\ UNCHANGED <<events, attributes, contributors, bare, world, inbound>>
  BY <1>1, <1>2 DEF FetchPage, corroboration, At
<1> QED BY <1>5, <1>6, <1>7, <1>8, LocalStep

LEMMA PagesFinish ==
  ASSUME WatermarkInv, TypeOK', ~edited, NEW t \in Tasks, FinishPull(t) \/ PullFails(t)
  PROVE  PagesInv'
<1>1. PICK q : q = task[t]
  OBVIOUS
<1>2. q # None /\ q.pc \in {"load", "fetch", "finish"} /\ q.org = Peer
  BY <1>1 DEF FinishPull, PullFails, At, WatermarkInv, Sides
<1>3. q \in Task /\ PullInv(q)
  BY <1>1, <1>2, PullOf
<1>4. task' = [task EXCEPT ![t] = None] /\ ~At(t, "attributes")
  BY <1>1, <1>2 DEF FinishPull, PullFails, End, Become, At
<1>5. UNCHANGED <<events, attributes, contributors, bare, world>>
  BY DEF FinishPull, PullFails, corroboration
<1>6. inbound'.mark \in {inbound.mark, q.top}
  BY <1>1 DEF FinishPull, PullFails, WatermarkInv, TypeOK
<1>7. q.top <= clock /\ \A e \in PeerEvents : Due(e) /\ upstream[e] < q.top => PulledIn(e)
  BY <1>3 DEF PullInv, Paged
<1> QED BY <1>4, <1>5, <1>6, <1>7, LocalStep

LEMMA PagesRow ==
  ASSUME WatermarkInv, TypeOK', ~edited, NEW t \in Tasks, NEW c \in Credit, UpsertRow(t, c)
  PROVE  PagesInv'
<1>1. PICK q : q = task[t]
  OBVIOUS
<1>2. q # None /\ q.pc = "row" /\ c \in q.todo
  BY <1>1 DEF UpsertRow, At
<1>3. PICK x : /\ task' = [task EXCEPT ![t] = x]
               /\ x = [q EXCEPT !.pc = "contribute", !.now = c, !.todo = @ \ {c}]
  BY <1>1 DEF UpsertRow, Become
<1>4. ~At(t, "attributes") /\ UNCHANGED <<events, attributes, contributors, bare, world, inbound>>
  BY <1>1, <1>2 DEF UpsertRow, At
<1>5. q \in Task
  BY <1>1, <1>2, AtFits DEF WatermarkInv
<1>6. /\ x.pc = "contribute" /\ x.uuid = q.uuid /\ x.ts = q.ts /\ x.since = q.since
      /\ x.top = q.top /\ x.page = q.page /\ x.batch = q.batch /\ x.group = q.group
      /\ x.org = q.org /\ x.now = c /\ x.todo = q.todo \ {c}
  BY <1>3, <1>5 DEF Task
<1>7. x \in Task
  <2> DEFINE rest == q.todo \ {c}
  <2>1. rest \in SUBSET Credit
    BY <1>5 DEF Task
  <2>2. x = [q EXCEPT !.pc = "contribute", !.now = c, !.todo = rest]
    BY <1>3
  <2> HIDE DEF rest
  <2>3. "contribute" \in Pcs /\ c \in Credit \cup {None}
    BY DEF Pcs
  <2> QED BY <1>5, <2>1, <2>2, <2>3 DEF Task
<1>8. ASSUME x.org = Peer PROVE PullInv(x)
  <2>1. PullInv(q)
    BY <1>1, <1>2, <1>6, <1>8, PullOf
  <2>2. Paged(x)
    BY <1>2, <1>5, <1>6, <1>7, <2>1, SameEvent DEF PullInv, AtWork
  <2>3. OnEvent(q)
    BY <1>2, <2>1 DEF PullInv, AtWork
  <2>4. ASSUME NEW v \in ValuesOf[q.uuid]
        PROVE  \/ <<<<DefaultGroup, v>>, Peer>> \in contributors
               \/ \E y \in Trusts : <<<<DefaultGroup, v>>, y>> \in q.todo \ {c}
               \/ c[1] = <<DefaultGroup, v>>
    <3>1. CASE <<<<DefaultGroup, v>>, Peer>> \in contributors
      BY <3>1
    <3>2. ASSUME NEW y \in Trusts, <<<<DefaultGroup, v>>, y>> \in q.todo
          PROVE  (\E z \in Trusts : <<<<DefaultGroup, v>>, z>> \in q.todo \ {c}) \/ c[1] = <<DefaultGroup, v>>
      BY <3>2
    <3> QED BY <1>2, <2>3, <3>1, <3>2 DEF OnEvent
  <2>5. OnEvent(x)
    BY <1>2, <1>6, <2>3, <2>4 DEF OnEvent
  <2> QED BY <2>2, <2>5 DEF PullInv
<1> QED BY <1>3, <1>4, <1>8, LocalStep

\* What a credited or known contributor leaves to do.
LEMMA PagesProceed ==
  ASSUME WatermarkInv, TypeOK', ~edited, NEW t \in Tasks, NEW q, q = task[t], q # None,
         q.pc \in {"contribute", "credit"}, <<q.now[1], q.org>> \in contributors,
         Become(t, Proceed(q)),
         UNCHANGED <<events, attributes, contributors, bare, world, inbound>>
  PROVE  PagesInv'
<1>1. PICK x : x = Proceed(q)
  OBVIOUS
<1>2. q \in Task
  BY AtFits DEF WatermarkInv
<1>3. task' = [task EXCEPT ![t] = x] /\ ~At(t, "attributes")
  BY <1>1 DEF Become, At
<1>4. ASSUME q.org = Peer PROVE PullInv(x)
  <2>1. PullInv(q)
    BY <1>4, PullOf
  <2>2. Paged(q) /\ OnEvent(q)
    BY <2>1 DEF PullInv, AtWork
  <2>3. q.pc \in AtWork
    BY DEF AtWork
  <2>4. /\ q.uuid \in Kept /\ upstream[q.uuid] = q.ts /\ q.ts > 0
        /\ StoredNow(q.uuid) /\ Attributed(q.uuid)
    BY <2>2 DEF OnEvent
  <2>5. \A v \in ValuesOf[q.uuid] :
          \/ <<<<DefaultGroup, v>>, Peer>> \in contributors
          \/ \E y \in Trusts : <<<<DefaultGroup, v>>, y>> \in q.todo
    BY <1>4, <2>2 DEF OnEvent
  <2> QED BY <1>1, <1>2, <1>4, <2>2, <2>3, <2>4, <2>5, ProceedWork DEF WatermarkInv
<1>5. ASSUME q.org # Peer PROVE x = None \/ x.org # Peer
  <2>1. CASE q.todo # {}
    <3>1. x = [q EXCEPT !.pc = "row"]
      BY <1>1, <2>1 DEF Proceed
    <3>2. x.org = q.org
      BY <1>2, <3>1 DEF Task
    <3> QED BY <1>5, <3>2
  <2>2. CASE q.todo = {}
    BY <1>1, <1>5, <2>2 DEF Proceed
  <2> QED BY <2>1, <2>2
<1>6. x = None \/ x.org # Peer \/ PullInv(x)
  BY <1>4, <1>5
<1> QED BY <1>3, <1>6, LocalStep

LEMMA PagesCredit ==
  ASSUME WatermarkInv, TypeOK', ~edited, NEW t \in Tasks, CreditRow(t),
         HubInv
  PROVE  PagesInv'
<1>1. PICK q : q = task[t]
  OBVIOUS
<1>2. q # None /\ q.pc = "credit" /\ Become(t, Proceed(q))
  BY <1>1 DEF CreditRow, At
<1>3. <<q.now[1], q.org>> \in contributors
  <2>1. q.now[1] \in Keys /\ q.org \in Orgs
    BY <1>1, <1>2, Working DEF At
  <2>2. Pending(t, q.now[1], q.org)
    BY <1>1, <1>2 DEF Pending, At
  <2> QED BY <2>1, <2>2 DEF HubInv, CreditsPending
<1>4. UNCHANGED <<events, attributes, contributors, bare, world, inbound>>
  BY DEF CreditRow
<1> QED BY <1>1, <1>2, <1>3, <1>4, PagesProceed

LEMMA PagesContribute ==
  ASSUME WatermarkInv, TypeOK', ~edited, NEW t \in Tasks, AddContributor(t)
  PROVE  PagesInv'
<1>1. PICK q : q = task[t]
  OBVIOUS
<1>2. q # None /\ q.pc = "contribute"
  BY <1>1 DEF AddContributor, At
<1>3. UNCHANGED <<events, attributes, bare, world, inbound>>
      /\ contributors' = contributors \cup {<<q.now[1], q.org>>}
  BY <1>1 DEF AddContributor
<1>4. CASE <<q.now[1], q.org>> \in contributors
  <2>1. Become(t, Proceed(q)) /\ contributors' = contributors
    BY <1>1, <1>3, <1>4 DEF AddContributor
  <2> QED BY <1>1, <1>2, <1>3, <1>4, <2>1, PagesProceed
<1>5. CASE <<q.now[1], q.org>> \notin contributors
  <2>1. PICK x : /\ task' = [task EXCEPT ![t] = x]
                 /\ x = [q EXCEPT !.pc = "credit"]
    BY <1>1, <1>5 DEF AddContributor, Goto, Become
  <2>2. q \in Task
    BY <1>1, <1>2, AtFits DEF WatermarkInv
  <2>3. x \in Task
    BY <1>2, <2>1, <2>2 DEF Task, Pcs
  <2>4. /\ x.pc = "credit" /\ x.uuid = q.uuid /\ x.ts = q.ts /\ x.since = q.since
        /\ x.top = q.top /\ x.page = q.page /\ x.batch = q.batch /\ x.group = q.group
        /\ x.org = q.org /\ x.now = q.now /\ x.todo = q.todo
    BY <2>1, <2>2 DEF Task
  <2>5. Keeps
    <3>1. \A e \in PeerEvents : StoredNow(e) => StoredNow(e)'
      BY <1>3 DEF StoredNow, world
    <3>2. ~At(t, "attributes") /\ upstream' = upstream /\ attributes' = attributes
          /\ bare \subseteq bare' /\ contributors \subseteq contributors'
      BY <1>1, <1>2, <1>3 DEF At, world
    <3> QED BY <2>1, <3>1, <3>2, KeepsBy DEF WatermarkInv
  <2>6. SameWorld
    BY <1>3, Numbers DEF SameWorld, world, WatermarkInv
  <2>7. ASSUME x.org = Peer PROVE PullInv(x)'
    <3>1. Paged(q) /\ OnEvent(q)
      <4>1. PullInv(q)
        BY <1>1, <1>2, <2>4, <2>7, PullOf
      <4> QED BY <1>2, <4>1 DEF PullInv, AtWork
    <3>2. Paged(x)'
      <4>1. Paged(x)
        BY <1>2, <2>2, <2>3, <2>4, <3>1, SameEvent DEF AtWork
      <4> QED BY <2>3, <2>5, <2>6, <4>1, FramePaged DEF WatermarkInv
    <3>3. OnEvent(q)'
      BY <2>5, <2>6, <3>1, FrameOnEvent
    <3>4. \A v \in ValuesOf[x.uuid] :
            \/ <<<<DefaultGroup, v>>, Peer>> \in contributors'
            \/ \E y \in Trusts : <<<<DefaultGroup, v>>, y>> \in x.todo
      BY <1>2, <1>3, <2>4, <2>7, <3>3 DEF OnEvent
    <3>5. OnEvent(x)'
      BY <1>2, <2>4, <3>3, <3>4 DEF OnEvent
    <3> QED BY <3>2, <3>5 DEF PullInv
  <2> QED BY <1>3, <2>1, <2>3, <2>5, <2>7, PagesBy
<1> QED BY <1>4, <1>5

LEMMA PagesTrust ==
  ASSUME WatermarkInv, TypeOK', ~edited, NEW t \in Tasks, ReadTrust(t)
  PROVE  PagesInv'
<1>1. PICK q : q = task[t]
  OBVIOUS
<1>2. q # None /\ q.pc = "trust"
  BY <1>1 DEF ReadTrust, At
<1>3. q \in Task
  BY <1>1, <1>2, AtFits DEF WatermarkInv
<1> DEFINE at == {<<q.group, trust[q.org]>>} \cup q.targets
           todo == {<<<<a[1], v>>, a[2]>> : a \in at, v \in ValuesOf[q.uuid]}
<1>4. task' = [task EXCEPT ![t] = Proceed([q EXCEPT !.todo = todo])]
  BY <1>1 DEF ReadTrust, Become
<1>6. at \in SUBSET (Groups \X Trusts)
  BY <1>3 DEF Task, WatermarkInv, TypeOK
<1>7. todo \in SUBSET Credit
  <2>1. ValuesOf[q.uuid] \in SUBSET Values
    <3>1. q.uuid \in Uuids
      BY <1>2, <1>3 DEF Task
    <3> QED BY <3>1, HubConstants
  <2> HIDE DEF at
  <2> QED BY <1>6, <2>1 DEF Credit, Keys
<1>8. <<q.group, trust[q.org]>> \in at
  OBVIOUS
<1> HIDE DEF at
<1>9. ASSUME NEW v \in ValuesOf[q.uuid] PROVE <<<<q.group, v>>, trust[q.org]>> \in todo
  <2> DEFINE a == <<q.group, trust[q.org]>>
  <2>1. a \in at /\ a[1] = q.group /\ a[2] = trust[q.org]
    BY <1>8
  <2> HIDE DEF a
  <2>2. <<<<a[1], v>>, a[2]>> \in todo
    BY <2>1
  <2> HIDE DEF todo
  <2> QED BY <2>1, <2>2
<1> HIDE DEF todo
<1>p. PICK p : p = [q EXCEPT !.todo = todo]
  OBVIOUS
<1>5. PICK x : task' = [task EXCEPT ![t] = x] /\ x = Proceed(p)
  BY <1>4, <1>p
<1>10. /\ p \in Task /\ p.pc = "trust" /\ p.uuid = q.uuid /\ p.ts = q.ts /\ p.since = q.since
       /\ p.top = q.top /\ p.page = q.page /\ p.batch = q.batch /\ p.group = q.group
       /\ p.org = q.org /\ p.todo = todo
  BY <1>2, <1>3, <1>p, <1>7 DEF Task
<1>11. ASSUME q.org = Peer PROVE PullInv(x)
  <2>1. Paged(q) /\ OnEvent(q)
    <3>1. PullInv(q)
      BY <1>1, <1>2, <1>11, PullOf
    <3> QED BY <1>2, <3>1 DEF PullInv, AtWork
  <2>2. Paged(p)
    BY <1>2, <1>3, <1>10, <2>1, SameEvent DEF AtWork
  <2>3. /\ p.uuid \in Kept /\ upstream[p.uuid] = p.ts /\ p.ts > 0
        /\ StoredNow(p.uuid) /\ Attributed(p.uuid)
    BY <1>2, <1>10, <2>1 DEF OnEvent
  <2>4. \A v \in ValuesOf[p.uuid] : \E y \in Trusts : <<<<DefaultGroup, v>>, y>> \in p.todo
    <3>1. trust[q.org] \in Trusts /\ q.group = DefaultGroup
      BY <1>3, <2>1 DEF Task, Paged, WatermarkInv, TypeOK
    <3> QED BY <1>9, <1>10, <3>1
  <2>5. p.pc \in AtWork /\ p.org = Peer
    BY <1>10, <1>11 DEF AtWork
  <2> QED BY <1>5, <1>10, <2>2, <2>3, <2>4, <2>5, ProceedWork DEF WatermarkInv
<1>12. ASSUME q.org # Peer PROVE x = None \/ x.org # Peer
  <2>1. CASE p.todo # {}
    <3>1. x = [p EXCEPT !.pc = "row"]
      BY <1>5, <2>1 DEF Proceed
    <3>2. x.org = p.org
      BY <1>10, <3>1 DEF Task
    <3> QED BY <1>10, <1>12, <3>2
  <2>2. CASE p.todo = {}
    BY <1>5, <1>10, <1>12, <2>2 DEF Proceed
  <2> QED BY <2>1, <2>2
<1>13. ~At(t, "attributes") /\ UNCHANGED <<events, attributes, contributors, bare, world, inbound>>
  BY <1>1, <1>2 DEF ReadTrust, corroboration, At
<1> QED BY <1>5, <1>11, <1>12, <1>13, LocalStep

LEMMA PagesDie ==
  ASSUME WatermarkInv, TypeOK', ~edited, NEW t \in Tasks, Die(t)
  PROVE  PagesInv'
<1>1. task' = [task EXCEPT ![t] = None] /\ UNCHANGED <<events, attributes, contributors, world, inbound>>
  BY DEF Die, End, Become
<1>2. bare \subseteq bare' /\ (At(t, "attributes") => task[t].uuid \in bare')
  BY DEF Die
<1>3. \A e \in PeerEvents : StoredNow(e) => StoredNow(e)'
  BY <1>1 DEF StoredNow, world
<1>4. Keeps
  BY <1>1, <1>2, <1>3, KeepsBy DEF WatermarkInv, world
<1> QED BY <1>1, <1>4, PagesBy

LEMMA PagesInsert ==
  ASSUME WatermarkInv, TypeOK', ~edited, NEW t \in Tasks, InsertEvent(t)
  PROVE  PagesInv'
<1>1. PICK q : q = task[t]
  OBVIOUS
<1>2. q # None /\ q.pc = "insert" /\ q.org # Peer
  BY <1>1 DEF InsertEvent, At, WatermarkInv, Sides
<1>3. q \in Task
  BY <1>1, <1>2, AtFits DEF WatermarkInv
<1>4. PICK x : /\ task' = [task EXCEPT ![t] = x]
               /\ x = None \/ x = [q EXCEPT !.pc = "attributes"]
  BY <1>1 DEF InsertEvent, Goto, End, Become
<1>5. x = None \/ x.org # Peer
  <2>1. [q EXCEPT !.pc = "attributes"].org = q.org
    BY <1>3 DEF Task
  <2> QED BY <1>2, <1>4, <2>1
<1>6. x \in Task \cup {None}
  <2>1. task'[t] = x
    BY <1>4 DEF WatermarkInv, TypeOK
  <2> QED BY <2>1 DEF TypeOK
<1>7. UNCHANGED <<attributes, contributors, bare, world, inbound>> /\ ~At(t, "attributes")
  BY <1>1, <1>2 DEF InsertEvent, corroboration, At
<1>8. ASSUME NEW e \in PeerEvents, StoredNow(e) PROVE StoredNow(e)'
  <2>1. events[e] # None /\ e \in Uuids
    BY <1>8 DEF StoredNow, Uuids
  <2>2. events'[e] = events[e]
    BY <1>1, <1>3, <2>1 DEF InsertEvent, WatermarkInv, TypeOK
  <2> QED BY <1>7, <1>8, <2>2 DEF StoredNow, world
<1>9. Keeps
  BY <1>4, <1>7, <1>8, KeepsBy DEF WatermarkInv, world
<1> QED BY <1>4, <1>5, <1>6, <1>7, <1>9, PagesBy

LEMMA PagesAttributes ==
  ASSUME WatermarkInv, TypeOK', ~edited, NEW t \in Tasks, InsertAttributes(t)
  PROVE  PagesInv'
<1>1. PICK q : q = task[t]
  OBVIOUS
<1>2. q # None /\ q.pc = "attributes"
  BY <1>1 DEF InsertAttributes, At
<1>3. q \in Task
  BY <1>1, <1>2, AtFits DEF WatermarkInv
<1>4. PICK x : /\ task' = [task EXCEPT ![t] = x]
               /\ x = None \/ x = [q EXCEPT !.pc = "trust"]
  BY <1>1 DEF InsertAttributes, Goto, End, Become
<1>5. UNCHANGED <<events, contributors, bare, world, inbound>> /\ attributes' = attributes \cup {q.uuid}
  BY <1>1 DEF InsertAttributes, corroboration
<1>6. x \in Task \cup {None}
  <2>1. task'[t] = x
    BY <1>4 DEF WatermarkInv, TypeOK
  <2> QED BY <2>1 DEF TypeOK
<1>7. \A e \in PeerEvents : StoredNow(e) => StoredNow(e)'
  BY <1>5 DEF StoredNow, world
<1>8. Keeps
  BY <1>1, <1>4, <1>5, <1>7, KeepsBy DEF WatermarkInv, world
<1>9. SameWorld
  BY <1>5, Numbers DEF SameWorld, world, WatermarkInv
<1>10. ASSUME x # None, x.org = Peer PROVE PullInv(x)'
  <2>1. x = [q EXCEPT !.pc = "trust"]
    BY <1>4, <1>10
  <2>2. /\ x.pc = "trust" /\ x.uuid = q.uuid /\ x.ts = q.ts /\ x.since = q.since
        /\ x.top = q.top /\ x.page = q.page /\ x.batch = q.batch /\ x.group = q.group
        /\ x.org = q.org
    BY <1>3, <2>1 DEF Task
  <2>3. Paged(q) /\ OnEvent(q) /\ x \in Task
    <3>1. PullInv(q)
      BY <1>1, <1>2, <1>10, <2>2, PullOf
    <3> QED BY <1>2, <1>6, <1>10, <3>1 DEF PullInv, AtWork
  <2>4. Paged(x)'
    <3>1. Paged(x)
      BY <1>2, <1>3, <2>2, <2>3, SameEvent DEF AtWork
    <3> QED BY <1>8, <1>9, <2>3, <3>1, FramePaged DEF WatermarkInv
  <2>5. OnEvent(q)'
    BY <1>8, <1>9, <2>3, FrameOnEvent
  <2>6. Attributed(x.uuid)'
    BY <1>5, <2>2 DEF Attributed
  <2>7. OnEvent(x)'
    BY <1>2, <2>2, <2>5, <2>6 DEF OnEvent
  <2> QED BY <2>4, <2>7 DEF PullInv
<1> QED BY <1>4, <1>5, <1>6, <1>8, <1>10, PagesBy

LEMMA PagesUpsert ==
  ASSUME WatermarkInv, TypeOK', ~edited, NEW t \in Tasks, UpsertEvent(t)
  PROVE  PagesInv'
<1>1. PICK q : q = task[t]
  OBVIOUS
<1>2. q # None /\ q.pc = "upsert" /\ q.org = Peer
  BY <1>1 DEF UpsertEvent, At, WatermarkInv, Sides
<1>3. q \in Task /\ PullInv(q)
  BY <1>1, <1>2, PullOf
<1>4. Paged(q) /\ OnEvent(q)
  BY <1>2, <1>3 DEF PullInv, AtWork
<1>5. q.uuid \in Kept /\ q.uuid \in Uuids /\ upstream[q.uuid] = q.ts /\ q.ts > 0
  BY <1>4 DEF OnEvent, Kept, Uuids
<1>6. PICK x : /\ task' = [task EXCEPT ![t] = x]
               /\ x = [q EXCEPT !.pc = "attributes"]
  BY <1>1 DEF UpsertEvent, Goto, Become
<1>7. /\ x.pc = "attributes" /\ x.uuid = q.uuid /\ x.ts = q.ts /\ x.since = q.since
      /\ x.top = q.top /\ x.page = q.page /\ x.batch = q.batch /\ x.group = q.group
      /\ x.org = q.org
  BY <1>3, <1>6 DEF Task
<1>8. x \in Task
  BY <1>3, <1>5, <1>6 DEF Task, Pcs
<1>9. /\ UNCHANGED <<contributors, bare, world, inbound>>
      /\ attributes' = attributes \ {q.uuid}
      /\ events' = [events EXCEPT ![q.uuid] = [org |-> Peer, group |-> DefaultGroup, ts |-> q.ts]]
  BY <1>1 DEF UpsertEvent, corroboration
<1>10. events'[q.uuid] # None /\ events'[q.uuid].ts = q.ts
  <2>1. [org |-> Peer, group |-> DefaultGroup, ts |-> q.ts] \in [org : Orgs, group : Groups, ts : Times]
    BY <1>3, HubConstants DEF Task
  <2>2. events'[q.uuid] = [org |-> Peer, group |-> DefaultGroup, ts |-> q.ts]
    BY <1>5, <1>9 DEF WatermarkInv, TypeOK
  <2> QED BY <2>1, <2>2, NoneIsNoEvent
<1>11. StoredNow(q.uuid)'
  BY <1>5, <1>9, <1>10 DEF StoredNow, world
<1>12. ASSUME NEW e \in PeerEvents, StoredNow(e) PROVE StoredNow(e)'
  <2>1. CASE e = q.uuid
    BY <1>11, <2>1
  <2>2. CASE e # q.uuid
    <3>1. e \in Uuids
      BY DEF Uuids
    <3>2. events'[e] = events[e]
      BY <1>9, <2>2, <3>1 DEF WatermarkInv, TypeOK
    <3> QED BY <1>9, <1>12, <3>2 DEF StoredNow, world
  <2> QED BY <2>1, <2>2
<1>13. Keeps
  <2>1. ~At(t, "attributes")
    BY <1>1, <1>2 DEF At
  <2>2. \A e \in attributes \ attributes' : x # None /\ x.pc = "attributes" /\ x.uuid = e
    BY <1>7, <1>8, <1>9, NoneIsNoTask
  <2> QED BY <1>6, <1>9, <1>12, <2>1, <2>2, KeepsBy DEF WatermarkInv, world
<1>14. SameWorld
  BY <1>9, Numbers DEF SameWorld, world, WatermarkInv
<1>15. Paged(x)'
  <2>1. Paged(x)
    BY <1>2, <1>3, <1>4, <1>7, <1>8, SameEvent DEF AtWork
  <2> QED BY <1>8, <1>13, <1>14, <2>1, FramePaged DEF WatermarkInv
<1>16. OnEvent(x)'
  BY <1>5, <1>7, <1>9, <1>11 DEF OnEvent, Kept, world
<1>17. PullInv(x)'
  BY <1>15, <1>16 DEF PullInv
<1> QED BY <1>6, <1>8, <1>9, <1>13, <1>17, PagesBy

(* ---------------------------------------------------------- the peer's side --- *)

\* What touches neither the tasks nor what the peer has published.
LEMMA PagesElsewhere ==
  ASSUME WatermarkInv, TypeOK', ~edited,
         UNCHANGED <<task, events, attributes, contributors, bare, upstream, late>>,
         inbound'.mark = inbound.mark, clock <= clock'
  PROVE  PagesInv'
<1>1. Keeps
  BY DEF Keeps, StoredNow, Attributed, At
<1>2. SameWorld
  BY DEF SameWorld
<1>3. inbound'.mark <= clock'
  BY Numbers DEF WatermarkInv, PagesInv, TypeOK, Times
<1>4. ASSUME NEW e \in PeerEvents, Due(e)', upstream'[e] < inbound'.mark PROVE PulledIn(e)'
  <2>1. PulledIn(e)
    BY <1>4 DEF Due, Kept, WatermarkInv, PagesInv
  <2> QED BY <1>1, <2>1, KeepsPulledIn
<1>5. ASSUME NEW r \in Task, r.org = Peer, NEW t \in Tasks, task'[t] = r PROVE PullInv(r)'
  <2>1. PullInv(r)
    BY <1>5 DEF WatermarkInv, PagesInv
  <2> QED BY <1>1, <1>2, <2>1, FramePull DEF WatermarkInv
<1> QED BY <1>3, <1>4, <1>5 DEF PagesInv

\* A new event takes the last place of every list.
LEMMA LastPlace ==
  ASSUME TypeOK, TypeOK', WorldInv, NEW n \in PeerEvents, Publish(n)
  PROVE  /\ \A e \in PeerEvents : e # n => upstream'[e] = upstream[e]
         /\ upstream[n] = 0 /\ upstream'[n] = clock
         /\ \A e, f \in PeerEvents : e # n /\ f # n => (Before(e, f)' <=> Before(e, f))
         /\ \A e \in Published : Before(e, n)' /\ ~Before(n, e)' /\ e # n
<1>1. /\ upstream' = [upstream EXCEPT ![n] = clock] /\ upstream[n] = 0
      /\ \A f \in PeerEvents : f < n => upstream[f] > 0
  BY DEF Publish
<1>2. (\A e \in PeerEvents : e # n => upstream'[e] = upstream[e]) /\ upstream'[n] = clock
  BY <1>1 DEF TypeOK
<1>3. \A e, f \in PeerEvents : e # n /\ f # n => (Before(e, f)' <=> Before(e, f))
  BY <1>2 DEF Before
<1>4. ASSUME NEW e \in Published PROVE Before(e, n)' /\ ~Before(n, e)' /\ e # n
  <2>1. e \in PeerEvents /\ upstream[e] > 0 /\ upstream[e] <= clock /\ e # n
    BY <1>1, Numbers DEF Published, WorldInv
  <2>2. e < n
    <3>1. ~(n < e)
      BY <1>1, <2>1, Numbers DEF WorldInv
    <3>2. e \in Nat /\ n \in Nat
      BY <2>1, HubConstants
    <3> QED BY <2>1, <3>1, <3>2
  <2>3. upstream'[e] = upstream[e] /\ upstream'[n] = clock /\ upstream[e] \in Nat /\ clock \in Nat
    BY <1>2, <2>1, Numbers
  <2>4. e \in Nat /\ n \in Nat
    BY <2>1, HubConstants
  <2>5. upstream'[e] < upstream'[n] \/ (upstream'[e] = upstream'[n] /\ e < n)
    BY <2>1, <2>2, <2>3
  <2>6. ~(upstream'[n] < upstream'[e] \/ (upstream'[n] = upstream'[e] /\ n < e))
    BY <2>1, <2>2, <2>3, <2>4
  <2> QED BY <2>1, <2>5, <2>6 DEF Before
<1> QED BY <1>1, <1>2, <1>3, <1>4

LEMMA RankStays ==
  ASSUME TypeOK, TypeOK', WorldInv, NEW n \in PeerEvents, Publish(n), NEW s \in Nat
  PROVE  /\ \A e \in Published : Rank(e, s)' = Rank(e, s)
         /\ s <= clock => Rank(n, s)' = Cardinality(Listed(s))
         /\ Listed(s)' = IF s <= clock THEN Listed(s) \cup {n} ELSE Listed(s)
<1>1. Listed(s)' = IF s <= clock THEN Listed(s) \cup {n} ELSE Listed(s)
  <2>1. /\ \A e \in PeerEvents : e # n => upstream'[e] = upstream[e]
        /\ upstream[n] = 0 /\ upstream'[n] = clock /\ clock > 0 /\ clock \in Nat
    BY LastPlace, Numbers DEF WorldInv
  <2>2. n \notin Listed(s)
    BY <2>1 DEF Listed
  <2>3. n \in Listed(s)' <=> s <= clock
    BY <2>1 DEF Listed
  <2>4. \A e \in PeerEvents : e # n => (e \in Listed(s)' <=> e \in Listed(s))
    BY <2>1 DEF Listed
  <2>5. Listed(s) \subseteq PeerEvents /\ Listed(s)' \subseteq PeerEvents
    BY DEF Listed
  <2> QED BY <2>2, <2>3, <2>4, <2>5
<1>2. Listed(s) \subseteq Published
  BY DEF Listed, Published
<1>3. Published \subseteq PeerEvents /\ n \notin Published
  BY LastPlace DEF Published
<1>4. ASSUME NEW e \in Published PROVE Rank(e, s)' = Rank(e, s)
  <2> DEFINE A == {f \in Listed(s) : Before(f, e)}
             B == {f \in Listed(s)' : Before(f, e)'}
  <2>1. \A f \in Listed(s) : Before(f, e)' <=> Before(f, e)
    BY <1>2, <1>3, LastPlace
  <2>2. ~Before(n, e)'
    BY LastPlace
  <2>3. A = B
    BY <1>1, <2>1, <2>2
  <2>4. Rank(e, s) = Cardinality(A) /\ Rank(e, s)' = Cardinality(B)
    BY DEF Rank
  <2> HIDE DEF A, B
  <2> QED BY <2>3, <2>4
<1>5. ASSUME s <= clock PROVE Rank(n, s)' = Cardinality(Listed(s))
  <2> DEFINE B == {f \in Listed(s)' : Before(f, n)'}
  <2>1. \A f \in Listed(s) : Before(f, n)'
    BY <1>2, LastPlace
  <2>2. ~Before(n, n)'
    BY Numbers, LastPlace DEF Before
  <2>3. B = Listed(s)
    BY <1>1, <1>5, <2>1, <2>2
  <2>4. Rank(n, s)' = Cardinality(B)
    BY DEF Rank
  <2> HIDE DEF B
  <2> QED BY <2>3, <2>4
<1> QED BY <1>1, <1>4, <1>5

\* The event is on no page a pull has fetched, or it is late.
LEMMA PullPublish ==
  ASSUME TypeOK, TypeOK', WorldInv, NEW n \in PeerEvents, Publish(n),
         NEW r \in Task, r.org = Peer, NEW t \in Tasks, task[t] = r, PullInv(r)
  PROVE  PullInv(r)'
<1>1. /\ \A e \in PeerEvents : e # n => upstream'[e] = upstream[e]
      /\ upstream[n] = 0 /\ upstream'[n] = clock /\ clock \in Nat /\ clock' = clock
      /\ late' = IF BehindAPage THEN late \cup {n} ELSE late
      /\ UNCHANGED <<task, events, attributes, contributors, bare>>
  BY LastPlace, Numbers DEF Publish, here, corroboration
<1>2. /\ \A e \in PeerEvents : e # n => (Due(e)' <=> Due(e))
      /\ Due(n)' => ~BehindAPage
  BY <1>1 DEF Due, Kept
<1>3. ASSUME NEW e \in PeerEvents, e # n, PulledIn(e) PROVE PulledIn(e)'
  BY <1>1, <1>3 DEF PulledIn, At
<1>4. \A e : Due(e) => e \in Published
  BY DEF Due, Kept, Published
<1>5. Paged(r) /\ r.group = DefaultGroup /\ r.since <= r.top /\ r.top <= clock
      /\ r.since \in Nat /\ r.top \in Nat /\ r.since <= clock
  BY <1>1 DEF PullInv, Paged, Task, Times
<1>6. /\ \A e \in Published : Rank(e, r.since)' = Rank(e, r.since)
      /\ Rank(n, r.since)' = Cardinality(Listed(r.since))
      /\ Listed(r.since)' = Listed(r.since) \cup {n}
  BY <1>5, RankStays
<1>7. Listed(r.since) \subseteq Published /\ Published \subseteq PeerEvents
  BY DEF Listed, Published
<1>8. Due(n)' => ~(Cardinality(Listed(r.since)) < Fetched(r))
  <2>1. r # None
    BY NoneIsNoTask
  <2> QED BY <1>2, <2>1 DEF BehindAPage
<1>9. \A e \in PeerEvents : Due(e)' /\ upstream'[e] < r.top => PulledIn(e)'
  <2> SUFFICES ASSUME NEW e \in PeerEvents, Due(e)', upstream'[e] < r.top PROVE PulledIn(e)'
    OBVIOUS
  <2>1. e # n
    BY <1>1, <1>5
  <2>2. PulledIn(e)
    BY <1>1, <1>2, <1>5, <2>1 DEF Paged
  <2> QED BY <1>3, <2>1, <2>2
<1>10. ASSUME NEW m, Fetched(r) = m * PageSize, NEW e \in Within(r, m)', Due(e)'
       PROVE  e # n /\ e \in Within(r, m) /\ Due(e) /\ e \in PeerEvents
  <2>1. e \in Listed(r.since)' /\ Rank(e, r.since)' < m * PageSize
    BY <1>10 DEF Within
  <2>2. e # n
    BY <1>6, <1>8, <1>10, <2>1
  <2>3. e \in Listed(r.since) /\ e \in Published /\ e \in PeerEvents
    BY <1>6, <1>7, <2>1, <2>2
  <2>4. Rank(e, r.since) < m * PageSize
    BY <1>6, <2>1, <2>3
  <2> QED BY <1>2, <1>10, <2>2, <2>3, <2>4 DEF Within
<1>11. ASSUME r.pc = "fetch"
       PROVE  r.page > 0 /\ \A e \in Within(r, r.page - 1)' : Due(e)' => PulledIn(e)'
  <2>1. Fetched(r) = (r.page - 1) * PageSize
    BY <1>11 DEF Fetched
  <2> QED BY <1>3, <1>5, <1>10, <1>11, <2>1 DEF Paged
<1>12. ASSUME r.pc \in AtWork
       PROVE  /\ OnEvent(r)' /\ Ahead(r)'
              /\ \A e \in PeerEvents : Due(e)' /\ Before(e, r.uuid)' => PulledIn(e)'
              /\ \A e \in Within(r, r.page)' :
                   Due(e)' => PulledIn(e)' \/ e = r.uuid \/ <<e, upstream'[e]>> \in r.batch
  <2>1. OnEvent(r)
    BY <1>12 DEF PullInv
  <2>2. r.uuid \in PeerEvents /\ r.uuid # n /\ upstream[r.uuid] > 0 /\ r.uuid \in Published
    BY <1>1, <2>1 DEF OnEvent, Kept, Published
  <2>3. OnEvent(r)'
    <3>1. upstream'[r.uuid] = upstream[r.uuid]
      BY <1>1, <2>2
    <3> QED BY <1>1, <2>1, <3>1 DEF OnEvent, StoredNow, Attributed, At, Kept
  <2>4. Ahead(r)'
    <3> SUFFICES ASSUME NEW b \in r.batch
                 PROVE  /\ b[1] \in Kept /\ upstream'[b[1]] = b[2] /\ b[2] > 0 /\ b[2] >= r.since
                        /\ Before(r.uuid, b[1])' /\ Rank(b[1], r.since)' < r.page * PageSize
      BY DEF Ahead, Kept
    <3>1. /\ b[1] \in Kept /\ upstream[b[1]] = b[2] /\ b[2] > 0 /\ b[2] >= r.since
          /\ Before(r.uuid, b[1]) /\ Rank(b[1], r.since) < r.page * PageSize
      BY <1>5, <1>12 DEF Paged, Ahead
    <3>2. b[1] \in PeerEvents /\ b[1] \in Published /\ b[1] # n
      BY <1>1, <3>1 DEF Kept, Published
    <3>3. Before(r.uuid, b[1])'
      BY <2>2, <3>1, <3>2, LastPlace
    <3> QED BY <1>1, <1>6, <3>1, <3>2, <3>3
  <2>5. ASSUME NEW e \in PeerEvents, Due(e)', Before(e, r.uuid)' PROVE PulledIn(e)'
    <3>1. e # n
      BY <2>2, <2>5, LastPlace
    <3>2. Due(e) /\ Before(e, r.uuid)
      BY <1>2, <2>2, <2>5, <3>1, LastPlace
    <3> QED BY <1>3, <1>5, <1>12, <3>1, <3>2 DEF Paged
  <2>6. ASSUME NEW e \in Within(r, r.page)', Due(e)'
        PROVE  PulledIn(e)' \/ e = r.uuid \/ <<e, upstream'[e]>> \in r.batch
    <3>1. Fetched(r) = r.page * PageSize
      BY <1>12 DEF Fetched, AtWork
    <3>2. e # n /\ e \in Within(r, r.page) /\ Due(e) /\ e \in PeerEvents
      BY <1>10, <2>6, <3>1
    <3>3. PulledIn(e) \/ e = r.uuid \/ <<e, upstream[e]>> \in r.batch
      BY <1>5, <1>12, <3>2 DEF Paged
    <3> QED BY <1>1, <1>3, <3>2, <3>3
  <2> QED BY <2>3, <2>4, <2>5, <2>6
<1>13. r.group = DefaultGroup /\ r.since <= r.top /\ r.top <= clock'
  BY <1>1, <1>5
<1>14. Paged(r)'
  BY <1>9, <1>11, <1>12, <1>13 DEF Paged, AtWork
<1> QED BY <1>12, <1>14 DEF PullInv, AtWork

LEMMA PagesPublish ==
  ASSUME WatermarkInv, TypeOK', ~edited, NEW n \in PeerEvents, Publish(n)
  PROVE  PagesInv'
<1>1. TypeOK /\ WorldInv /\ PagesInv
  BY DEF WatermarkInv
<1>2. /\ \A e \in PeerEvents : e # n => upstream'[e] = upstream[e]
      /\ upstream'[n] = clock /\ inbound.mark <= clock /\ clock \in Nat /\ inbound.mark \in Nat
  BY <1>1, LastPlace, Numbers DEF PagesInv
<1>3. UNCHANGED <<task, events, attributes, contributors, bare, inbound, clock>>
      /\ late \subseteq late'
  BY DEF Publish, here, corroboration
<1>4. ASSUME NEW e \in PeerEvents, Due(e)', upstream'[e] < inbound'.mark PROVE PulledIn(e)'
  <2>1. e # n
    BY <1>2, <1>3, <1>4
  <2>2. Due(e) /\ upstream[e] < inbound.mark
    BY <1>2, <1>3, <1>4, <2>1 DEF Due, Kept
  <2>3. PulledIn(e)
    BY <1>1, <2>2 DEF PagesInv
  <2> QED BY <1>2, <1>3, <2>1, <2>3 DEF PulledIn, At
<1>5. ASSUME NEW r \in Task, r.org = Peer, NEW t \in Tasks, task'[t] = r PROVE PullInv(r)'
  <2>1. PullInv(r) /\ task[t] = r
    BY <1>1, <1>3, <1>5 DEF PagesInv
  <2> QED BY <1>1, <1>5, <2>1, PullPublish
<1> QED BY <1>2, <1>3, <1>4, <1>5 DEF PagesInv

LEMMA PagesEdit ==
  ASSUME WatermarkInv, TypeOK', ~edited', NEW n \in PeerEvents, Edit(n)
  PROVE  PagesInv'
<1>1. TypeOK /\ WorldInv /\ PagesInv
  BY DEF WatermarkInv
<1>2. ~edited /\ ~Pulling
  BY DEF Edit
<1>3. /\ \A e \in PeerEvents : e # n => upstream'[e] = upstream[e]
      /\ upstream'[n] = clock /\ inbound.mark <= clock /\ clock \in Nat /\ inbound.mark \in Nat
      /\ UNCHANGED <<task, events, attributes, contributors, bare, inbound, clock, late>>
  BY <1>1, <1>2, Numbers DEF PagesInv, Edit, here, corroboration, TypeOK
<1>4. ASSUME NEW e \in PeerEvents, Due(e)', upstream'[e] < inbound'.mark PROVE PulledIn(e)'
  <2>1. e # n
    BY <1>3, <1>4
  <2>2. Due(e) /\ upstream[e] < inbound.mark
    BY <1>3, <1>4, <2>1 DEF Due, Kept
  <2>3. PulledIn(e)
    BY <1>1, <1>2, <2>2 DEF PagesInv
  <2> QED BY <1>3, <2>1, <2>3 DEF PulledIn, At
<1>5. ASSUME NEW r \in Task, r.org = Peer, NEW t \in Tasks, task'[t] = r PROVE FALSE
  BY <1>2, <1>3, <1>5, NoneIsNoTask DEF Pulling
<1> QED BY <1>3, <1>4, <1>5 DEF PagesInv

(* --------------------------------------------------------- the other parts --- *)

LEMMA WorldPublish ==
  ASSUME TypeOK, TypeOK', WorldInv, NEW n \in PeerEvents, Publish(n)
  PROVE  WorldInv'
<1>1. /\ \A e \in PeerEvents : e # n => upstream'[e] = upstream[e]
      /\ upstream[n] = 0 /\ upstream'[n] = clock /\ clock' = clock
      /\ \A f \in PeerEvents : f < n => upstream[f] > 0
  BY LastPlace DEF Publish
<1>2. clock > 0 /\ clock \in Nat
  BY Numbers DEF WorldInv
<1>3. Published' = Published \cup {n}
  BY <1>1, <1>2 DEF Published
<1>4. IsFiniteSet(Published')
  BY <1>3, FS_AddElement DEF WorldInv
<1>5. ASSUME NEW e \in PeerEvents, NEW f \in PeerEvents, upstream'[e] > 0, f < e
      PROVE  upstream'[f] > 0
  <2>1. CASE f = n
    BY <1>1, <1>2, <2>1
  <2>2. CASE f # n
    <3>1. upstream[f] > 0
      BY <1>1, <1>5 DEF WorldInv
    <3> QED BY <1>1, <2>2, <3>1
  <2> QED BY <2>1, <2>2
<1>6. \A e \in PeerEvents : upstream'[e] <= clock'
  BY <1>1, <1>2 DEF WorldInv
<1> QED BY <1>1, <1>2, <1>4, <1>5, <1>6 DEF WorldInv

LEMMA WorldEdit ==
  ASSUME TypeOK, WorldInv, NEW n \in PeerEvents, Edit(n)
  PROVE  WorldInv'
<1>1. /\ \A e \in PeerEvents : e # n => upstream'[e] = upstream[e]
      /\ upstream[n] > 0 /\ upstream'[n] = clock /\ clock' = clock
  BY DEF Edit, TypeOK
<1>2. clock > 0 /\ clock \in Nat
  BY Numbers DEF WorldInv
<1>3. \A e \in PeerEvents : upstream'[e] > 0 <=> upstream[e] > 0
  BY <1>1, <1>2
<1>4. Published' = Published
  BY <1>3 DEF Published
<1>5. \A e \in PeerEvents : upstream'[e] <= clock'
  BY <1>1, <1>2 DEF WorldInv
<1> QED BY <1>1, <1>3, <1>4, <1>5 DEF WorldInv

LEMMA WorldStep ==
  ASSUME TypeOK, TypeOK', WorldInv, UNCHANGED upstream, clock <= clock'
  PROVE  WorldInv'
<1>1. Published' = Published
  BY DEF Published
<1>2. \A e \in PeerEvents : upstream'[e] <= clock'
  BY Numbers DEF WorldInv, TypeOK, Times
<1>3. clock' > 0
  BY Numbers DEF WorldInv, TypeOK, Times
<1> QED BY <1>1, <1>2, <1>3 DEF WorldInv

Sided(r) ==
  /\ r.pc \in {"selected", "load", "fetch", "upsert", "finish"} => r.org = Peer
  /\ r.pc = "insert" => r.org # Peer

LEMMA SidesBy ==
  ASSUME TypeOK, Sides, NEW t \in Tasks, NEW x, Become(t, x), x = None \/ Sided(x)
  PROVE  Sides'
<1>1. \A u \in Tasks : task'[u] = IF u = t THEN x ELSE task[u]
  BY DEF TypeOK, Become
<1> QED BY <1>1 DEF Sides, Sided

LEMMA NextEventSided ==
  ASSUME NEW q \in Task, q.org = Peer, NEW batch
  PROVE  Sided(NextEvent(q, batch))
<1>1. PICK x : x = NextEvent(q, batch)
  OBVIOUS
<1>2. x.org = Peer /\ x.pc \in {"fetch", "upsert"}
  BY <1>1 DEF NextEvent, Task
<1> QED BY <1>1, <1>2 DEF Sided

LEMMA ProceedSided ==
  ASSUME NEW q \in Task
  PROVE  Proceed(q) = None \/ Sided(Proceed(q))
<1>1. CASE q.todo # {}
  <2>1. Proceed(q).pc = "row"
    BY <1>1 DEF Proceed, Task
  <2> QED BY <2>1 DEF Sided
<1>2. CASE q.todo = {} /\ q.org # Peer
  BY <1>2 DEF Proceed
<1>3. CASE q.todo = {} /\ q.org = Peer
  <2>1. PICK s : s = [q EXCEPT !.top = IF q.ts > @ THEN q.ts ELSE @]
    OBVIOUS
  <2>2. s \in Task /\ s.org = Peer
    BY <1>3, <2>1 DEF Task
  <2>3. Proceed(q) = NextEvent(s, q.batch)
    BY <1>3, <2>1 DEF Proceed
  <2> QED BY <2>2, <2>3, NextEventSided
<1> QED BY <1>1, <1>2, <1>3

LEMMA SidesPost ==
  ASSUME TypeOK, Sides, NEW t \in Tasks,
         \/ \E o \in Orgs, u \in Posts, g \in Groups : PostEvent(t, o, u, g)
         \/ InsertEvent(t) \/ InsertAttributes(t) \/ ReadTrust(t)
         \/ \E c \in Credit : UpsertRow(t, c)
         \/ AddContributor(t) \/ CreditRow(t) \/ Die(t)
  PROVE  Sides'
<1>1. PICK q : q = task[t]
  OBVIOUS
<1>2. q # None => q \in Task /\ Sided(q)
  BY <1>1, AtFits DEF Sides, Sided
<1>3. ASSUME NEW o \in Orgs, NEW u \in Posts, NEW g \in Groups, PostEvent(t, o, u, g)
      PROVE  Sides'
  <2>1. PICK x : x = [Request("insert", o) EXCEPT !.uuid = u, !.group = g]
    OBVIOUS
  <2>2. Sided(x)
    BY <1>3, <2>1 DEF Sided, PostEvent, Request
  <2> QED BY <1>3, <2>1, <2>2, SidesBy DEF PostEvent
<1>4. ASSUME NEW pc \in {"attributes", "trust", "credit"}, q # None, Goto(t, pc) PROVE Sides'
  <2>1. PICK x : x = [q EXCEPT !.pc = pc]
    OBVIOUS
  <2>2. Sided(x)
    BY <1>2, <1>4, <2>1 DEF Sided, Task
  <2> QED BY <1>1, <1>4, <2>1, <2>2, SidesBy DEF Goto
<1>5. ASSUME End(t) PROVE Sides'
  BY <1>5, SidesBy DEF End
<1>6. ASSUME NEW r \in Task, Become(t, Proceed(r)) PROVE Sides'
  BY <1>6, ProceedSided, SidesBy
<1>7. CASE InsertEvent(t)
  BY <1>1, <1>4, <1>5, <1>7 DEF InsertEvent, At
<1>8. CASE InsertAttributes(t)
  BY <1>1, <1>4, <1>5, <1>8 DEF InsertAttributes, At
<1>9. CASE ReadTrust(t)
  <2>1. PICK todo : Become(t, Proceed([q EXCEPT !.todo = todo])) /\ todo \in SUBSET Credit
    <3>1. q \in Task
      BY <1>1, <1>2, <1>9 DEF ReadTrust, At
    <3>2. At(t, "trust")
      BY <1>9 DEF ReadTrust
    <3>3. {<<q.group, trust[q.org]>>} \cup q.targets \subseteq Groups \X Trusts
      BY <3>1 DEF Task, TypeOK
    <3>4. ValuesOf[q.uuid] \subseteq Values
      BY <1>1, <3>1, <3>2, HubConstants DEF At, Task
    <3> DEFINE at == {<<q.group, trust[q.org]>>} \cup q.targets
               td == {<<<<a[1], v>>, a[2]>> : a \in at, v \in ValuesOf[q.uuid]}
    <3>5. td \subseteq Credit
      <4> SUFFICES ASSUME NEW a \in at, NEW v \in ValuesOf[q.uuid]
                   PROVE  <<<<a[1], v>>, a[2]>> \in Credit
        OBVIOUS
      <4>1. a[1] \in Groups /\ a[2] \in Trusts
        BY <3>3
      <4> QED BY <3>4, <4>1 DEF Credit, Keys
    <3>6. Become(t, Proceed([q EXCEPT !.todo = td]))
      BY <1>1, <1>9 DEF ReadTrust
    <3> HIDE DEF td
    <3> QED BY <3>5, <3>6
  <2>2. PICK r : r = [q EXCEPT !.todo = todo]
    OBVIOUS
  <2>3. r \in Task
    BY <1>1, <1>2, <1>9, <2>1, <2>2 DEF ReadTrust, At, Task
  <2> QED BY <1>6, <2>1, <2>2, <2>3
<1>10. ASSUME NEW c \in Credit, UpsertRow(t, c) PROVE Sides'
  <2>1. PICK x : x = [q EXCEPT !.pc = "contribute", !.now = c, !.todo = @ \ {c}]
    OBVIOUS
  <2>2. q \in Task
    BY <1>1, <1>2, <1>10 DEF UpsertRow, At
  <2>3. x.pc = "contribute"
    BY <2>1, <2>2 DEF Task
  <2>4. Sided(x)
    BY <2>3 DEF Sided
  <2>5. Become(t, x)
    BY <1>1, <1>10, <2>1 DEF UpsertRow
  <2> QED BY <2>4, <2>5, SidesBy
<1>11. CASE AddContributor(t)
  <2>1. q \in Task /\ q # None
    BY <1>1, <1>2, <1>11 DEF AddContributor, At
  <2>2. Become(t, Proceed(q)) \/ Goto(t, "credit")
    BY <1>1, <1>11 DEF AddContributor
  <2> QED BY <1>4, <1>6, <2>1, <2>2
<1>12. CASE CreditRow(t)
  <2>1. q \in Task /\ Become(t, Proceed(q))
    BY <1>1, <1>2, <1>12 DEF CreditRow, At
  <2> QED BY <1>6, <2>1
<1>13. CASE Die(t)
  BY <1>5, <1>13 DEF Die
<1> QED BY <1>3, <1>7, <1>8, <1>9, <1>10, <1>11, <1>12, <1>13

LEMMA SidesPull ==
  ASSUME TypeOK, Sides, NEW t \in Tasks,
         \/ SelectPeer(t) \/ LockPeer(t) \/ LoadTargets(t) \/ PullFails(t)
         \/ FetchPage(t) \/ UpsertEvent(t) \/ FinishPull(t)
  PROVE  Sides'
<1>1. PICK q : q = task[t]
  OBVIOUS
<1>2. q # None => q \in Task /\ Sided(q)
  BY <1>1, AtFits DEF Sides, Sided
<1>3. ASSUME NEW x, Become(t, x), x.org = Peer, x.pc # "insert" PROVE Sides'
  BY <1>3, SidesBy DEF Sided
<1>4. ASSUME NEW pc \in {"load", "attributes", "finish"}, q \in Task, q.org = Peer, Goto(t, pc)
      PROVE  Sides'
  <2>1. PICK x : x = [q EXCEPT !.pc = pc]
    OBVIOUS
  <2>2. x.org = Peer /\ x.pc # "insert"
    BY <1>4, <2>1 DEF Task
  <2> QED BY <1>1, <1>3, <1>4, <2>1, <2>2 DEF Goto
<1>5. CASE SelectPeer(t)
  <2>1. PICK x : x = [Request("selected", Peer) EXCEPT
                        !.group = DefaultGroup, !.since = inbound.mark, !.top = inbound.mark]
    OBVIOUS
  <2>2. x.org = Peer /\ x.pc = "selected"
    BY <2>1 DEF Request
  <2> QED BY <1>3, <1>5, <2>1, <2>2 DEF SelectPeer
<1>6. CASE PullFails(t) \/ FinishPull(t)
  BY <1>6, SidesBy DEF PullFails, FinishPull, End
<1>7. CASE LockPeer(t) \/ UpsertEvent(t)
  <2>1. q \in Task /\ q.org = Peer
    BY <1>1, <1>2, <1>7 DEF LockPeer, UpsertEvent, At, Sided
  <2> QED BY <1>4, <1>7, <2>1 DEF LockPeer, UpsertEvent
<1>8. CASE LoadTargets(t)
  <2>1. q \in Task /\ q.org = Peer
    BY <1>1, <1>2, <1>8 DEF LoadTargets, At, Sided
  <2>2. PICK x : /\ Become(t, x)
                 /\ \E to : x = [q EXCEPT !.pc = "fetch", !.page = 1, !.targets = to]
    BY <1>1, <1>8 DEF LoadTargets
  <2>3. x.org = Peer /\ x.pc = "fetch"
    BY <2>1, <2>2 DEF Task
  <2>4. x.pc # "insert"
    BY <2>3
  <2> QED BY <1>3, <2>2, <2>3, <2>4
<1>9. CASE FetchPage(t)
  <2>1. q \in Task /\ q.org = Peer
    BY <1>1, <1>2, <1>9 DEF FetchPage, At, Sided
  <2>2. PICK batch : batch = PageOf(q.since, q.page)
    OBVIOUS
  <2>3. Goto(t, "finish") \/ Become(t, NextEvent(q, batch))
    BY <1>1, <1>9, <2>2 DEF FetchPage
  <2> QED BY <1>4, <2>1, <2>3, NextEventSided, SidesBy
<1> QED BY <1>5, <1>6, <1>7, <1>8, <1>9

(* ---------------------------------------------------------------- the step --- *)

LEMMA WatermarkTask ==
  ASSUME WatermarkInv, HubInv, TypeOK', NEW t \in Tasks,
         \/ \E o \in Orgs, u \in Posts, g \in Groups : PostEvent(t, o, u, g)
         \/ InsertEvent(t) \/ InsertAttributes(t) \/ ReadTrust(t)
         \/ \E c \in Credit : UpsertRow(t, c)
         \/ AddContributor(t) \/ CreditRow(t) \/ Die(t)
         \/ SelectPeer(t) \/ LockPeer(t) \/ LoadTargets(t) \/ PullFails(t)
         \/ FetchPage(t) \/ UpsertEvent(t) \/ FinishPull(t)
  PROVE  WatermarkInv'
<1>1. UNCHANGED world
  <2>1. ASSUME NEW o \in Orgs, NEW u \in Posts, NEW g \in Groups, PostEvent(t, o, u, g)
        PROVE  UNCHANGED world
    BY <2>1 DEF PostEvent
  <2>2. ASSUME NEW c \in Credit, UpsertRow(t, c) PROVE UNCHANGED world
    BY <2>2 DEF UpsertRow
  <2>3. CASE InsertEvent(t) \/ InsertAttributes(t) \/ ReadTrust(t) \/ AddContributor(t)
    BY <2>3 DEF InsertEvent, InsertAttributes, ReadTrust, AddContributor
  <2>4. CASE CreditRow(t) \/ Die(t) \/ SelectPeer(t) \/ LockPeer(t) \/ LoadTargets(t)
    BY <2>4 DEF CreditRow, Die, SelectPeer, LockPeer, LoadTargets
  <2>5. CASE PullFails(t) \/ FetchPage(t) \/ UpsertEvent(t) \/ FinishPull(t)
    BY <2>5 DEF PullFails, FetchPage, UpsertEvent, FinishPull
  <2> QED BY <2>1, <2>2, <2>3, <2>4, <2>5
<1>2. WorldInv'
  <2>1. UNCHANGED upstream /\ clock <= clock'
    BY <1>1, Numbers DEF WatermarkInv, world
  <2> QED BY <2>1, WorldStep DEF WatermarkInv
<1>3. Sides'
  BY SidesPost, SidesPull DEF WatermarkInv
<1>4. PagesInv'
  <2>1. CASE edited
    BY <1>1, <2>1 DEF PagesInv, world
  <2>2. CASE ~edited
    BY <2>2, PagesPost, PagesInsert, PagesAttributes, PagesTrust, PagesRow, PagesContribute,
       PagesCredit, PagesDie, PagesSelect, PagesLock, PagesLoad, PagesFetch, PagesUpsert, PagesFinish
  <2> QED BY <2>1, <2>2
<1> QED BY <1>2, <1>3, <1>4 DEF WatermarkInv

LEMMA WatermarkOutside ==
  ASSUME WatermarkInv, TypeOK',
         \/ RetryDue \/ Tick \/ \E e \in PeerEvents : Publish(e) \/ Edit(e)
         \/ \E o \in Orgs : Subscribe(o) \/ \E x \in Trusts : SetTrust(o, x)
         \/ \E g \in Groups : SetPublic(g)
         \/ DeletePeer \/ UNCHANGED vars
  PROVE  WatermarkInv'
<1>1. Sides'
  <2>1. UNCHANGED task
    BY DEF RetryDue, Tick, Publish, Edit, Subscribe, SetTrust, SetPublic, DeletePeer, Administer,
           here, vars
  <2> QED BY <2>1 DEF WatermarkInv, Sides
<1>2. ASSUME NEW n \in PeerEvents, Publish(n) PROVE WorldInv' /\ PagesInv'
  <2>1. WorldInv'
    BY <1>2, WorldPublish DEF WatermarkInv
  <2>2. CASE edited
    BY <1>2, <2>1, <2>2 DEF Publish, PagesInv
  <2>3. CASE ~edited
    BY <1>2, <2>1, <2>3, PagesPublish
  <2> QED BY <2>2, <2>3
<1>3. ASSUME NEW n \in PeerEvents, Edit(n) PROVE WorldInv' /\ PagesInv'
  <2>1. WorldInv'
    BY <1>3, WorldEdit DEF WatermarkInv
  <2>2. CASE edited'
    BY <2>1, <2>2 DEF PagesInv
  <2>3. CASE ~edited'
    BY <1>3, <2>1, <2>3, PagesEdit
  <2> QED BY <2>2, <2>3
<1>4. CASE \/ RetryDue \/ Tick
           \/ \E o \in Orgs : Subscribe(o) \/ \E x \in Trusts : SetTrust(o, x)
           \/ \E g \in Groups : SetPublic(g)
           \/ DeletePeer \/ UNCHANGED vars
  <2>1. /\ UNCHANGED <<task, events, attributes, contributors, bare, upstream, late, edited>>
        /\ clock' = clock \/ clock' = clock + 1
    BY <1>4 DEF RetryDue, Tick, Subscribe, SetTrust, SetPublic, DeletePeer, Administer,
                here, vars, corroboration, world
  <2>2. clock <= clock'
    BY <2>1, Numbers DEF WatermarkInv
  <2>3. inbound'.mark = inbound.mark
    BY <1>4 DEF RetryDue, Tick, Subscribe, SetTrust, SetPublic, DeletePeer, Administer,
                here, vars, WatermarkInv, TypeOK
  <2>4. WorldInv'
    BY <2>1, <2>2, WorldStep DEF WatermarkInv
  <2>5. PagesInv'
    <3>1. CASE edited
      BY <2>1, <3>1 DEF PagesInv
    <3>2. CASE ~edited
      BY <2>1, <2>2, <2>3, <3>2, PagesElsewhere
    <3> QED BY <3>1, <3>2
  <2> QED BY <1>1, <2>4, <2>5 DEF WatermarkInv
<1> QED BY <1>1, <1>2, <1>3, <1>4 DEF WatermarkInv

LEMMA WatermarkStep == WatermarkInv /\ HubInv /\ [Next]_vars => WatermarkInv'
<1> SUFFICES ASSUME WatermarkInv, HubInv, [Next]_vars PROVE WatermarkInv'
  OBVIOUS
<1>1. TypeOK'
  BY TypeStep DEF WatermarkInv
<1>2. ASSUME NEW t \in Tasks,
             \/ \E o \in Orgs, u \in Posts, g \in Groups : PostEvent(t, o, u, g)
             \/ InsertEvent(t) \/ InsertAttributes(t) \/ ReadTrust(t)
             \/ \E c \in Credit : UpsertRow(t, c)
             \/ AddContributor(t) \/ CreditRow(t) \/ Die(t)
             \/ SelectPeer(t) \/ LockPeer(t) \/ LoadTargets(t) \/ PullFails(t)
             \/ FetchPage(t) \/ UpsertEvent(t) \/ FinishPull(t)
      PROVE  WatermarkInv'
  BY <1>1, <1>2, WatermarkTask
<1> QED BY <1>1, <1>2, WatermarkOutside DEF Next

LEMMA WatermarkSkips == WatermarkInv => PullSkipsNothing
<1> SUFFICES ASSUME WatermarkInv, ~edited, NEW e \in Passed \ late PROVE PulledIn(e)
  BY DEF PullSkipsNothing
<1>1. e \in PeerEvents /\ Due(e) /\ upstream[e] < inbound.mark
  BY DEF Passed, Due, Kept
<1> QED BY <1>1 DEF WatermarkInv, PagesInv

\* The watermark of the peer passes no event that is not stored, given its
\* attributes and credited, whatever the size of its pages, the events that
\* share a timestamp and the pulls that overlap or die.
THEOREM WatermarkHolds == Spec => []PullSkipsNothing
<1>1. Spec => []HubInv
  BY HubInit, InvStep, PTL DEF Spec
<1>2. Spec => []WatermarkInv
  BY <1>1, WatermarkInit, WatermarkStep, PTL DEF Spec
<1> QED BY <1>2, WatermarkSkips, PTL

-----------------------------------------------------------------------------
(* The threat feeds, the hub's own among them, as a mailbox fetches them: FeedRefresh. *)

CONSTANTS Mailboxes, Contents, Links, NoHash, Cap, FalseHits, Width, MaxExpired, MaxDeaths, MaxMoves
VARIABLES kind, server, kv, state, recent, owner, run, expired, deaths, moves
Feed == INSTANCE FeedRefresh

RunOf == [pc : {"fetch", "bloom", "exact", "cidrs", "record"}, seen :
  [Feed!Keys -> Feed!Blob \cup {None}],
          fresh : SUBSET Feed!Keys, version : Feed!Versions, etag : Feed!Versions \cup {None},
          publish : BOOLEAN, answerTag : Feed!Versions \cup {None}]
\* What the constants are: versions are numbered, queries are sequences, None
\* is nothing else.
LinksListed == UNION {Feed!values(v) : v \in Feed!Versions}
Queried == \E T : \A l \in LinksListed \cup Links : l.tokens \in Seq(T)
FeedConstants ==
  /\ Feed!Versions = 1 .. Len(Contents) /\ Len(Contents) \in Nat \ {0}
  /\ Queried /\ None \notin Feed!Versions \cup Feed!Blob \cup RunOf \cup [etag :
       Feed!Versions \cup {None}]

FeedTypes ==
  /\ kind \in {"url", "ip-cidr"} /\ server \in Feed!Versions
  /\ kv \in [Feed!Keys -> Feed!Blob \cup {None}]
  /\ state \in [Mailboxes -> [etag : Feed!Versions \cup {None}] \cup {None}]
  /\ recent \subseteq Mailboxes /\ owner \in Mailboxes /\ run \in RunOf \cup {None}

\* The tag a mailbox would send, as of the last fetch it recorded.
TagOf(m) == IF state[m] = None THEN None ELSE state[m].etag
\* Nothing is published before the server has it, ...
NotAhead == \A k \in Feed!requiredBlobs : kv[k] # None => kv[k].version <= server
\* ... and nothing older than what a mailbox recorded, nor in an older format
\* if the only key is there.
NotBehind ==
  \A m \in Mailboxes : TagOf(m) # None =>
    /\ TagOf(m) <= server
    /\ \A k \in Feed!requiredBlobs : kv[k] # None =>
         TagOf(m) <= kv[k].version /\ (kind = "ip-cidr" => kv[k].format = Feed!FEED_BLOB_FORMAT)
\* The filter is published before the list it is the filter of.
FilterFirst(blobs) ==
  kind = "url" /\ blobs["exact"] # None /\ blobs["exact"].format = Feed!FEED_BLOB_FORMAT =>
    blobs["bloom"] = None \/ blobs["bloom"].format = Feed!FEED_BLOB_FORMAT

\* What a blob is that answers for version v.
Serves(b, v) == b # None /\ b.version = v /\ b.format = Feed!FEED_BLOB_FORMAT
WrittenBefore(r) == CASE r.pc \in {"fetch", "bloom", "cidrs"} -> {} [] r.pc = "exact" -> {"bloom"}
               [] r.pc = "record" -> Feed!requiredBlobs
\* A run: the keys it wrote are its version's, the others as it saw them unless
\* they expired; a tag it sent was worth sending; what it rewrites is current.
RunFits(r) ==
  /\ r.pc \in {"bloom", "exact"} => kind = "url"
  /\ r.pc = "cidrs" => kind = "ip-cidr"
  /\ r.fresh = WrittenBefore(r) /\ r.version <= server
  /\ \A k \in Feed!requiredBlobs \ r.fresh : kv[k] \in {None, r.seen[k]}
  /\ \A k \in r.fresh : Serves(kv[k], r.version)
  /\ FilterFirst(r.seen)
  /\ r.pc = "fetch" =>
       /\ r.etag # None => /\ Feed!intact(r.seen) /\ r.etag <= server
                           /\ \A k \in Feed!requiredBlobs :
                                /\ r.seen[k].version \in r.etag .. server
                                /\ kind = "ip-cidr" => r.seen[k].format = Feed!FEED_BLOB_FORMAT
  /\ r.pc # "fetch" =>
       /\ r.answerTag \in {None, r.version}
       /\ \A m \in Mailboxes : TagOf(m) # None => TagOf(m) <= r.version
       /\ ~r.publish => \A k \in Feed!requiredBlobs : Serves(r.seen[k], r.version)
FeedInv ==
  /\ FeedTypes /\ NotAhead /\ NotBehind /\ FilterFirst(kv)
  /\ run # None => RunFits(run)

LEMMA FeedInvSound == ASSUME FeedConstants, FeedInv PROVE Feed!TypeOK /\ Feed!RecordedIsServed
<1>1. Feed!RecordedIsServed
  BY DEF FeedInv, Feed!RecordedIsServed, RunFits, WrittenBefore, Serves
<1>2. run # None => run.fresh \subseteq Feed!requiredBlobs
  BY DEF FeedInv, FeedTypes, RunOf, RunFits, WrittenBefore, Feed!requiredBlobs
<1>. QED BY <1>1, <1>2 DEF FeedInv, FeedTypes, Feed!TypeOK, RunOf

LEMMA InitFeedInv == ASSUME FeedConstants, Feed!Init PROVE FeedInv
<1>1. 1 \in Feed!Versions /\ 1 \in 1 .. Feed!FEED_BLOB_FORMAT
  BY DEF FeedConstants, Feed!FEED_BLOB_FORMAT
<1>2. PICK b \in {None, [version |-> 1, format |-> 1]} :
        kv = [k \in Feed!Keys |-> IF k \in Feed!requiredBlobs THEN b ELSE None]
  BY DEF Feed!Init
<1>3. b \in Feed!Blob \cup {None} /\ (b # None => b.version = 1 /\ b.format = 1)
  BY <1>1 DEF Feed!Blob
<1>4. \A m \in Mailboxes : state[m] = None \/ (state[m] = [etag |-> 1] /\ kind = "url")
  BY <1>2 DEF Feed!Init, Feed!Keys, Feed!requiredBlobs
<1>5. FeedTypes
  BY <1>1, <1>2, <1>3 DEF Feed!Init, FeedTypes
<1>6. NotAhead
  BY <1>2, <1>3 DEF Feed!Init, NotAhead, Feed!requiredBlobs, Feed!Keys
<1>7. NotBehind
  BY <1>2, <1>3, <1>4 DEF Feed!Init, NotBehind, TagOf, Feed!requiredBlobs, Feed!Keys
<1>8. FilterFirst(kv)
  BY <1>2, <1>3 DEF FilterFirst, Feed!Keys, Feed!requiredBlobs, Feed!FEED_BLOB_FORMAT
<1>. QED BY <1>5, <1>6, <1>7, <1>8 DEF FeedInv, Feed!Init

\* A run stays fit when the server moves on and keys it did not write expire.
LEMMA RunStaysFit ==
  ASSUME FeedConstants, NEW r \in RunOf, RunFits(r), UNCHANGED <<kind, state>>,
         server \in Nat, server' \in Nat, server <= server',
         \A k \in Feed!Keys : kv'[k] = kv[k] \/ (k \notin r.fresh /\ kv'[k] = None)
  PROVE  RunFits(r)'
<1>1. Feed!requiredBlobs' = Feed!requiredBlobs /\ Feed!requiredBlobs \subseteq Feed!Keys
      /\ \A m \in Mailboxes : TagOf(m)' = TagOf(m)
  BY DEF Feed!requiredBlobs, Feed!Keys, TagOf
<1>2. r.version \in Nat /\ (r.etag # None => r.etag \in Nat) /\ r.fresh \subseteq Feed!Keys
  BY DEF RunOf, FeedConstants
<1>3. WrittenBefore(r)' = WrittenBefore(r) /\ FilterFirst(r.seen)' = FilterFirst(r.seen)
      /\ Feed!intact(r.seen)' = Feed!intact(r.seen)
  BY <1>1 DEF WrittenBefore, FilterFirst, Feed!intact
<1>4. r.version <= server'
  BY <1>2 DEF RunFits
<1>5. (\A k \in Feed!requiredBlobs \ r.fresh : kv'[k] \in {None, r.seen[k]})
      /\ \A k \in r.fresh : Serves(kv'[k], r.version)
  BY <1>1, <1>2 DEF RunFits
<1>6. r.pc = "fetch" /\ r.etag # None =>
        /\ Feed!intact(r.seen) /\ r.etag <= server'
        /\ \A k \in Feed!requiredBlobs :
             /\ r.seen[k].version \in r.etag .. server'
             /\ kind = "ip-cidr" => r.seen[k].format = Feed!FEED_BLOB_FORMAT
  BY <1>2 DEF RunFits
<1>. QED BY <1>1, <1>3, <1>4, <1>5, <1>6 DEF RunFits, Serves

LEMMA WorldFeedInv ==
  ASSUME FeedConstants, FeedInv,
         Feed!change \/ Feed!elapse \/ Feed!die \/ (\E m \in Mailboxes : Feed!moveOwner(m))
           \/ (\E k \in Feed!Keys : Feed!expire(k))
  PROVE  FeedInv'
<1>1. CASE Feed!change
  <2>1. server' = server + 1 /\ server' \in Feed!Versions
        /\ UNCHANGED <<kind, kv, state, recent, owner, run>>
    BY <1>1 DEF Feed!change, FeedConstants, FeedInv, FeedTypes
  <2>2. server \in Nat
    BY DEF FeedConstants, FeedInv, FeedTypes
  <2>3. FeedTypes' /\ FilterFirst(kv)'
    BY <2>1 DEF FeedInv, FeedTypes, FilterFirst
  <2>4. \A k \in Feed!requiredBlobs : kv[k] # None => kv[k].version \in Nat
    BY DEF FeedInv, FeedTypes, Feed!requiredBlobs, Feed!Keys, Feed!Blob, FeedConstants
  <2>5. \A m \in Mailboxes : TagOf(m) # None => TagOf(m) \in Nat
    BY DEF FeedInv, FeedTypes, TagOf, FeedConstants
  <2>6. NotAhead' /\ NotBehind'
    BY <2>1, <2>2, <2>4, <2>5 DEF FeedInv, NotAhead, NotBehind, Feed!requiredBlobs, TagOf
  <2>7. ASSUME NEW r \in RunOf, run = r PROVE RunFits(r)'
    <3>1. RunFits(r)
      BY <2>7 DEF FeedInv, FeedConstants
    <3>. QED BY <2>1, <2>2, <3>1, RunStaysFit
  <2>8. (run # None => RunFits(run))'
    BY <2>1, <2>7 DEF FeedInv, FeedTypes
  <2>. QED BY <2>3, <2>6, <2>8 DEF FeedInv
<1>2. CASE Feed!elapse \/ Feed!die \/ \E m \in Mailboxes : Feed!moveOwner(m)
  <2>1. UNCHANGED <<kind, server, kv, state>> /\ recent' \subseteq Mailboxes /\ owner' \in Mailboxes
        /\ run' \in {None, run}
    BY <1>2 DEF Feed!elapse, Feed!die, Feed!moveOwner, FeedInv, FeedTypes
  <2>2. FeedTypes' /\ NotAhead' /\ NotBehind' /\ FilterFirst(kv)'
    BY <2>1 DEF FeedInv, FeedTypes, NotAhead, NotBehind, FilterFirst, Feed!requiredBlobs, TagOf
  <2>3. ASSUME NEW r \in RunOf, run = r PROVE RunFits(r)'
    <3>1. RunFits(r) /\ server \in Nat
      BY <2>3 DEF FeedInv, FeedTypes, FeedConstants
    <3>. QED BY <2>1, <3>1, RunStaysFit
  <2>4. (run # None => RunFits(run))'
    BY <2>1, <2>3 DEF FeedInv, FeedTypes
  <2>. QED BY <2>2, <2>4 DEF FeedInv
<1>3. ASSUME NEW k \in Feed!Keys, Feed!expire(k) PROVE FeedInv'
  <2>1. kv' = [kv EXCEPT ![k] = None] /\ UNCHANGED <<kind, server, state, recent, owner, run>>
        /\ (run # None => k \notin run.fresh)
    BY <1>3 DEF Feed!expire
  <2>2. \A j \in Feed!Keys : kv'[j] = kv[j] \/ (j = k /\ kv'[j] = None)
    BY <2>1 DEF FeedInv, FeedTypes
  <2>3. Feed!requiredBlobs \subseteq Feed!Keys /\ Feed!requiredBlobs' = Feed!requiredBlobs
    BY <2>1 DEF Feed!requiredBlobs, Feed!Keys
  <2>4. FeedTypes'
    BY <2>1 DEF FeedInv, FeedTypes
  <2>5. NotAhead' /\ NotBehind'
    BY <2>1, <2>2, <2>3 DEF FeedInv, NotAhead, NotBehind, TagOf
  <2>6. FilterFirst(kv)'
    BY <2>1, <2>2 DEF FeedInv, FilterFirst, Feed!Keys
  <2>7. ASSUME NEW r \in RunOf, run = r PROVE RunFits(r)'
    <3>1. RunFits(r) /\ server \in Nat /\ k \notin r.fresh
      BY <2>1, <2>7 DEF FeedInv, FeedTypes, FeedConstants
    <3>. QED BY <2>1, <2>2, <3>1, RunStaysFit
  <2>8. (run # None => RunFits(run))'
    BY <2>1, <2>7 DEF FeedInv, FeedTypes
  <2>. QED BY <2>4, <2>5, <2>6, <2>8 DEF FeedInv
<1>. QED BY <1>1, <1>2, <1>3

\* The keys and what is known of them stay, the run goes on as r, or ends.
LEMMA SameKeys ==
  ASSUME FeedInv, UNCHANGED <<kind, server, kv, state, recent, owner>>,
         run' = None \/ (run' \in RunOf /\ RunFits(run)')
  PROVE  FeedInv'
BY DEF FeedInv, FeedTypes, NotAhead, NotBehind, FilterFirst, Feed!requiredBlobs, TagOf

\* A run that fits, fits in the next state when only the run has changed.
LEMMA RunGoesOn ==
  ASSUME FeedConstants, FeedInv, UNCHANGED <<kind, server, kv, state>>, NEW r \in RunOf, RunFits(r),
         run' = r
  PROVE  RunFits(run)'
<1>1. server \in Nat
  BY DEF FeedInv, FeedTypes, FeedConstants
<1>2. RunFits(r)'
  BY <1>1, RunStaysFit
<1>. QED BY <1>2

LEMMA StartFeedInv == ASSUME FeedConstants, FeedInv, Feed!start PROVE FeedInv'
<1>. DEFINE tag == IF Feed!intact(kv) /\ state[owner] # None THEN state[owner].etag ELSE None
            r == [pc |-> "fetch", seen |-> kv, fresh |-> {}, version |-> server,
                  etag |-> tag, publish |-> FALSE, answerTag |-> None]
<1>1. run' = r /\ UNCHANGED <<kind, server, kv, state, recent, owner>>
  BY DEF Feed!start
<1>2. tag \in Feed!Versions \cup {None} /\ (tag # None => Feed!intact(kv) /\ tag = TagOf(owner))
  BY DEF FeedInv, FeedTypes, TagOf
<1>3. r \in RunOf
  BY <1>2 DEF FeedInv, FeedTypes, RunOf
<1>4. server \in Nat /\ Feed!requiredBlobs \subseteq Feed!Keys /\ owner \in Mailboxes
        /\ Feed!Versions \subseteq Nat
  BY DEF FeedInv, FeedTypes, Feed!requiredBlobs, Feed!Keys, FeedConstants
<1>5. ASSUME tag # None
      PROVE  /\ Feed!intact(kv) /\ tag <= server
             /\ \A k \in Feed!requiredBlobs :
                  /\ kv[k].version \in tag .. server
                  /\ kind = "ip-cidr" => kv[k].format = Feed!FEED_BLOB_FORMAT
  <2>1. Feed!intact(kv) /\ tag = TagOf(owner) /\ tag \in Nat
    BY <1>2, <1>4, <1>5
  <2>2. \A k \in Feed!requiredBlobs : kv[k] # None /\ kv[k].version \in Nat
    BY <1>4, <2>1 DEF Feed!intact, FeedInv, FeedTypes, Feed!Blob
  <2>3. tag <= server /\ \A k \in Feed!requiredBlobs :
          tag <= kv[k].version /\ kv[k].version <= server
          /\ (kind = "ip-cidr" => kv[k].format = Feed!FEED_BLOB_FORMAT)
    BY <1>4, <1>5, <2>1, <2>2 DEF FeedInv, NotBehind, NotAhead
  <2>. QED BY <1>4, <2>1, <2>2, <2>3
<1>6. RunFits(r)
  <2>1. r.pc = "fetch" /\ r.fresh = {} /\ r.version = server /\ r.etag = tag /\ r.seen = kv
    OBVIOUS
  <2>. HIDE DEF r, tag
  <2>2. r.fresh = WrittenBefore(r) /\ r.version <= server
    BY <1>4, <2>1 DEF WrittenBefore
  <2>3. FilterFirst(r.seen) /\ \A k \in Feed!requiredBlobs \ r.fresh : kv[k] \in {None, r.seen[k]}
    BY <2>1 DEF FeedInv
  <2>. QED BY <1>5, <2>1, <2>2, <2>3 DEF RunFits
<1>. HIDE DEF r, tag
<1>7. PICK q \in RunOf : q = r
  BY <1>3
<1>8. run' = q /\ RunFits(q)
  BY <1>1, <1>6, <1>7
<1>. QED BY <1>1, <1>8, SameKeys, RunGoesOn

LEMMA AnswerFeedInv ==
  ASSUME FeedConstants, FeedInv,
         Feed!answer304 \/ Feed!answerError
           \/ \E tag \in Feed!Versions \cup {None} : Feed!answer200(tag)
  PROVE  FeedInv'
<1>0. /\ UNCHANGED <<kind, server, kv, state, recent, owner>> /\ run \in RunOf /\ RunFits(run)
      /\ run.pc = "fetch" /\ server \in Nat /\ Feed!Versions \subseteq Nat /\ server \in Feed!Versions
  <2>1. UNCHANGED <<kind, server, kv, state, recent, owner>> /\ run # None /\ run.pc = "fetch"
    BY DEF Feed!answer304, Feed!answerError, Feed!answer200
  <2>. QED BY <2>1 DEF FeedInv, FeedTypes, FeedConstants
<1>1. PICK q \in RunOf : q = run
  BY <1>0
<1>2. RunFits(q) /\ q.pc = "fetch" /\ q.fresh = {}
  BY <1>0, <1>1 DEF RunFits, WrittenBefore
<1>3. \A m \in Mailboxes : TagOf(m) # None => TagOf(m) <= server
  BY DEF FeedInv, NotBehind
<1>4. \A r \in RunOf :
        /\ r.pc = Feed!firstKey /\ r.fresh = {} /\ r.seen = q.seen /\ r.version = server
        /\ r.answerTag \in {None, server}
        /\ ~r.publish => \A k \in Feed!requiredBlobs : Serves(r.seen[k], server)
        => RunFits(r)
  <2>1. SUFFICES ASSUME NEW r \in RunOf, r.pc = Feed!firstKey, r.fresh = {}, r.seen = q.seen,
                        r.version = server, r.answerTag \in {None, server},
                        ~r.publish => \A k \in Feed!requiredBlobs : Serves(r.seen[k], server)
                 PROVE  RunFits(r)
    OBVIOUS
  <2>2. /\ r.pc # "fetch" /\ WrittenBefore(r) = {} /\ (r.pc = "bloom" => kind = "url") /\ r.pc # "exact"
        /\ (r.pc = "cidrs" => kind = "ip-cidr")
    BY <2>1 DEF Feed!firstKey, WrittenBefore, FeedInv, FeedTypes
  <2>3. FilterFirst(r.seen) /\ \A k \in Feed!requiredBlobs : kv[k] \in {None, r.seen[k]}
    BY <1>2, <2>1 DEF RunFits
  <2>4. r.version <= server
    BY <1>0, <2>1
  <2>. QED BY <1>3, <2>1, <2>2, <2>3, <2>4 DEF RunFits
<1>5. CASE Feed!answerError
  BY <1>0, <1>5, SameKeys DEF Feed!answerError
<1>6. CASE Feed!answer304
  <2>. DEFINE r == [q EXCEPT !.pc = Feed!firstKey, !.version = server, !.answerTag = q.etag]
  <2>1. run' = r /\ q.etag = server
    BY <1>1, <1>6 DEF Feed!answer304
  <2>2. r \in RunOf /\ r.pc = Feed!firstKey /\ r.fresh = {} /\ r.seen = q.seen /\ r.version = server
        /\ r.answerTag = server
    BY <1>0, <1>2, <2>1 DEF RunOf, Feed!firstKey
  <2>. HIDE DEF r
  <2>3. ASSUME NEW k \in Feed!requiredBlobs PROVE Serves(q.seen[k], server)
    <3>1. q.etag # None
      BY <1>0, <2>1 DEF FeedConstants
    <3>2. /\ Feed!intact(q.seen) /\ q.seen[k].version \in server .. server
          /\ (kind = "ip-cidr" => q.seen[k].format = Feed!FEED_BLOB_FORMAT)
      BY <1>2, <2>1, <3>1 DEF RunFits
    <3>3. q.seen[k] # None /\ q.seen[k].version = server
      BY <1>0, <3>2 DEF Feed!intact
    <3>4. q.seen[k].format = Feed!FEED_BLOB_FORMAT
      <4>1. CASE kind = "ip-cidr"
        BY <3>2, <4>1
      <4>2. CASE kind = "url"
        <5>1. k \in {"bloom", "exact"} /\ q.seen["exact"] # None
              /\ q.seen["exact"].format = Feed!FEED_BLOB_FORMAT
          BY <3>2, <4>2 DEF Feed!intact, Feed!requiredBlobs
        <5>. QED BY <1>2, <3>3, <4>2, <5>1 DEF RunFits, FilterFirst
      <4>. QED BY <4>1, <4>2 DEF FeedInv, FeedTypes
    <3>. QED BY <3>3, <3>4 DEF Serves
  <2>4. RunFits(r)
    BY <1>4, <2>2, <2>3
  <2>5. PICK p \in RunOf : p = r
    BY <2>2
  <2>. QED BY <1>0, <2>1, <2>4, <2>5, SameKeys, RunGoesOn
<1>7. ASSUME NEW tag \in Feed!Versions \cup {None}, Feed!answer200(tag) PROVE FeedInv'
  <2>1. CASE run' = None
    BY <1>0, <2>1, SameKeys
  <2>2. CASE run' # None
    <3>. DEFINE r == [q EXCEPT !.pc = Feed!firstKey, !.version = server, !.publish = TRUE,
           !.answerTag = tag]
    <3>1. run' = r /\ tag \in {server, None}
      BY <1>1, <1>7, <2>2 DEF Feed!answer200
    <3>2. r \in RunOf /\ r.pc = Feed!firstKey /\ r.fresh = {} /\ r.seen = q.seen /\ r.version = server
          /\ r.answerTag = tag /\ r.publish
      BY <1>0, <1>2, <3>1 DEF RunOf, Feed!firstKey
    <3>. HIDE DEF r
    <3>3. RunFits(r)
      BY <1>4, <3>1, <3>2
    <3>4. PICK p \in RunOf : p = r
      BY <3>2
    <3>. QED BY <1>0, <3>1, <3>3, <3>4, SameKeys, RunGoesOn
  <2>. QED BY <2>1, <2>2
<1>. QED BY <1>5, <1>6, <1>7


LEMMA PutFeedInv == ASSUME FeedConstants, FeedInv, NEW k \in Feed!Keys, Feed!put(k) PROVE FeedInv'
<1>0. /\ UNCHANGED <<kind, server, state, recent, owner>> /\ run \in RunOf /\ RunFits(run)
      /\ run.pc = k /\ server \in Nat /\ Feed!Versions \subseteq Nat
  <2>1. UNCHANGED <<kind, server, state, recent, owner>> /\ run # None /\ run.pc = k
    BY DEF Feed!put
  <2>. QED BY <2>1 DEF FeedInv, FeedTypes, FeedConstants
<1>1. PICK q \in RunOf : q = run
  BY <1>0
<1>. DEFINE w == IF q.publish THEN [version |-> q.version, format |-> Feed!FEED_BLOB_FORMAT]
                 ELSE q.seen[k]
            r == [q EXCEPT !.pc = IF k = "bloom" THEN "exact" ELSE "record", !.fresh = q.fresh \cup {k}]
<1>2. kv' = [kv EXCEPT ![k] = w] /\ run' = r
  BY <1>1 DEF Feed!put
<1>3. k \in Feed!requiredBlobs /\ q.pc = k /\ RunFits(q) /\ q.version \in Feed!Versions
        /\ q.version \in Nat
      /\ q.version <= server
  BY <1>0, <1>1 DEF Feed!Keys, RunFits, Feed!requiredBlobs, RunOf
<1>4. Serves(w, q.version) /\ w \in Feed!Blob
  <2>1. CASE q.publish
    BY <1>3, <2>1 DEF Serves, Feed!Blob, Feed!FEED_BLOB_FORMAT, FeedConstants
  <2>2. CASE ~q.publish
    BY <1>3, <2>2 DEF RunFits, Feed!Keys, Serves, RunOf
  <2>. QED BY <2>1, <2>2
<1>5. r \in RunOf /\ r.fresh = q.fresh \cup {k} /\ r.seen = q.seen /\ r.version = q.version
      /\ r.publish = q.publish /\ r.answerTag = q.answerTag
      /\ r.pc = IF k = "bloom" THEN "exact" ELSE "record"
  BY DEF RunOf
<1>. HIDE DEF w, r
<1>6. \A j \in Feed!Keys : kv'[j] = IF j = k THEN w ELSE kv[j]
  BY <1>2 DEF FeedInv, FeedTypes
<1>7. Feed!requiredBlobs' = Feed!requiredBlobs /\ Feed!requiredBlobs \subseteq Feed!Keys
      /\ \A m \in Mailboxes : TagOf(m)' = TagOf(m)
  BY <1>0 DEF Feed!requiredBlobs, Feed!Keys, TagOf
<1>8. FeedTypes'
  <2>1. kv' \in [Feed!Keys -> Feed!Blob \cup {None}]
    BY <1>2, <1>4 DEF FeedInv, FeedTypes
  <2>. QED BY <1>0, <1>2, <1>5, <2>1 DEF FeedInv, FeedTypes
<1>9. \A m \in Mailboxes : TagOf(m) # None => TagOf(m) <= q.version
  BY <1>3 DEF RunFits, Feed!Keys
<1>10. NotAhead' /\ NotBehind'
  BY <1>0, <1>3, <1>4, <1>6, <1>7, <1>9 DEF FeedInv, NotAhead, NotBehind, Serves
<1>11. FilterFirst(kv)'
  <2>1. CASE k = "bloom"
    BY <1>0, <1>4, <1>6, <2>1 DEF FilterFirst, Serves, Feed!Keys
  <2>2. CASE k = "exact"
    BY <1>0, <1>3, <1>6, <2>2 DEF FilterFirst, Serves, Feed!Keys, RunFits, WrittenBefore
  <2>3. CASE k = "cidrs"
    BY <1>0, <1>3, <2>3 DEF FilterFirst, RunFits
  <2>. QED BY <2>1, <2>2, <2>3 DEF Feed!Keys
<1>12. q.fresh = WrittenBefore(q) /\ k \notin q.fresh /\ r.fresh = WrittenBefore(r)
       /\ (r.pc = "exact" => kind = "url") /\ r.pc \in {"exact", "record"}
  BY <1>3, <1>5 DEF RunFits, WrittenBefore, Feed!requiredBlobs, Feed!Keys, FeedInv, FeedTypes
<1>13. RunFits(run)'
  <2>1. PICK p \in RunOf : p = r
    BY <1>5
  <2>2. p.fresh = WrittenBefore(p) /\ p.fresh = q.fresh \cup {k}
    BY <1>5, <1>12, <2>1
  <2>3. \A j \in Feed!requiredBlobs \ p.fresh : kv'[j] \in {None, p.seen[j]}
    BY <1>3, <1>5, <1>6, <1>7, <2>1, <2>2 DEF RunFits
  <2>4. \A j \in p.fresh : Serves(kv'[j], p.version)
    <3>1. \A j \in q.fresh : Serves(kv[j], q.version) /\ j \in Feed!Keys
      BY <1>3 DEF RunFits, RunOf
    <3>. QED BY <1>4, <1>5, <1>6, <2>1, <2>2, <3>1
  <2>5. FilterFirst(p.seen) /\ p.version <= server /\ p.answerTag \in {None, p.version}
        /\ (~p.publish => \A j \in Feed!requiredBlobs : Serves(p.seen[j], p.version))
    BY <1>3, <1>5, <2>1 DEF RunFits, Feed!Keys
  <2>6. WrittenBefore(p)' = WrittenBefore(p) /\ FilterFirst(p.seen)' = FilterFirst(p.seen)
    BY <1>0, <1>7 DEF WrittenBefore, FilterFirst
  <2>7. RunFits(p)'
    BY <1>0, <1>5, <1>7, <1>9, <1>12, <2>1, <2>2, <2>3, <2>4, <2>5, <2>6 DEF RunFits, Serves
  <2>. QED BY <1>2, <2>1, <2>7
<1>. QED BY <1>8, <1>10, <1>11, <1>13 DEF FeedInv

LEMMA RecordFeedInv == ASSUME FeedConstants, FeedInv, Feed!upsertIntelFeedState PROVE FeedInv'
<1>0. /\ UNCHANGED <<kind, server, kv, owner>> /\ run \in RunOf /\ RunFits(run)
      /\ run.pc = "record" /\ server \in Nat /\ Feed!Versions \subseteq Nat
      /\ state' = [state EXCEPT ![owner] = [etag |-> run.answerTag]]
      /\ recent' = recent \cup {owner} /\ run' = None /\ owner \in Mailboxes
  <2>1. UNCHANGED <<kind, server, kv, owner>> /\ run # None /\ run.pc = "record"
        /\ state' = [state EXCEPT ![owner] = [etag |-> run.answerTag]]
        /\ recent' = recent \cup {owner} /\ run' = None
    BY DEF Feed!upsertIntelFeedState
  <2>. QED BY <2>1 DEF FeedInv, FeedTypes, FeedConstants
<1>1. run.version \in Nat /\ run.version <= server /\ run.answerTag \in {None, run.version}
      /\ (\A k \in Feed!requiredBlobs : Serves(kv[k], run.version))
      /\ [etag |-> run.answerTag] \in [etag : Feed!Versions \cup {None}]
  BY <1>0 DEF RunFits, RunOf, WrittenBefore
<1>2. FeedTypes'
  BY <1>0, <1>1 DEF FeedInv, FeedTypes
<1>3. \A m \in Mailboxes : TagOf(m)' = TagOf(m) \/ TagOf(m)' \in {None, run.version}
  <2>1. ASSUME NEW m \in Mailboxes, m # owner PROVE TagOf(m)' = TagOf(m)
    BY <1>0, <2>1 DEF TagOf, FeedInv, FeedTypes
  <2>2. TagOf(owner)' \in {None, run.version}
    <3>1. state'[owner] = [etag |-> run.answerTag]
      BY <1>0 DEF FeedInv, FeedTypes
    <3>. QED BY <1>0, <1>1, <3>1 DEF TagOf
  <2>. QED BY <1>0, <2>1, <2>2
<1>4. Feed!requiredBlobs' = Feed!requiredBlobs
  BY <1>0 DEF Feed!requiredBlobs
<1>5. NotBehind'
  BY <1>0, <1>1, <1>3, <1>4 DEF FeedInv, NotBehind, Serves
<1>6. NotAhead' /\ FilterFirst(kv)'
  BY <1>0, <1>4 DEF FeedInv, NotAhead, FilterFirst
<1>. QED BY <1>0, <1>2, <1>5, <1>6 DEF FeedInv

LEMMA NextFeedInv == ASSUME FeedConstants, FeedInv, [Feed!Next]_(Feed!vars) PROVE FeedInv'
<1>1. CASE UNCHANGED Feed!vars
  <2>1. run' = None \/ (run' \in RunOf /\ RunFits(run)')
    <3>1. CASE run # None
      <4>1. PICK q \in RunOf : q = run
        BY <3>1 DEF FeedInv, FeedTypes
      <4>. QED BY <1>1, <3>1, <4>1, RunGoesOn DEF FeedInv, Feed!vars
    <3>. QED BY <1>1, <3>1 DEF Feed!vars
  <2>. QED BY <1>1, <2>1, SameKeys DEF Feed!vars
<1>. QED BY <1>1, WorldFeedInv, StartFeedInv, AnswerFeedInv, PutFeedInv, RecordFeedInv DEF Feed!Next

LEMMA ListedIsFound == ASSUME FeedInv PROVE Feed!ListedStaysFound
<1>1. SUFFICES ASSUME kv["bloom"] # None, kv["exact"] # None,
                      NEW p \in Links, \A v \in Feed!Versions : p \in Feed!exactSet(v)
               PROVE  Feed!matchUrlAgainstFeeds(p) = "confirmed"
  BY DEF Feed!ListedStaysFound
<1>2. kv["bloom"].version \in Feed!Versions /\ kv["exact"].version \in Feed!Versions
  BY <1>1 DEF FeedInv, FeedTypes, Feed!Keys, Feed!Blob
<1>3. p \in Feed!values(kv["bloom"].version)
  BY <1>1, <1>2 DEF Feed!exactSet, Feed!values, Feed!ToSet
<1>4. Feed!checkBloom(kv["bloom"], p)
  BY <1>3 DEF Feed!checkBloom, Feed!feedBloomKeys
<1>. QED BY <1>1, <1>2, <1>4 DEF Feed!matchUrlAgainstFeeds

\* The instance counts as its host does.
LEMMA FeedCardinality == \A S : Feed!Cardinality(S) = Cardinality(S)
BY DEF Feed!Cardinality, Cardinality

LEMMA NoTokens == \A t : Feed!times(t, <<>>) = 0
<1>1. \A t : {i \in DOMAIN <<>> : <<>>[i] = t} = {}
  OBVIOUS
<1>. QED BY <1>1, FS_EmptySet, FeedCardinality DEF Feed!times
LEMMA HasToken == ASSUME NEW T, NEW s \in Seq(T), NEW i \in DOMAIN s
PROVE Feed!times(s[i], s) \in Nat \ {0}
<1>1. {j \in DOMAIN s : s[j] = s[i]} \subseteq 1 .. Len(s) /\ Len(s) \in Nat /\ DOMAIN s = 1 .. Len(s)
  OBVIOUS
<1>2. IsFiniteSet(1 .. Len(s))
  BY <1>1, FS_Interval
<1>3. IsFiniteSet({j \in DOMAIN s : s[j] = s[i]})
  BY <1>1, <1>2, FS_Subset
<1>4. {j \in DOMAIN s : s[j] = s[i]} # {}
  OBVIOUS
<1>. QED BY <1>3, <1>4, FS_CardinalityType, FS_EmptySet, FeedCardinality DEF Feed!times

\* The probes of a link that has a query or a hash hold the key of its path.
LEMMA PathIsProbed ==
  ASSUME NEW p, ~(p.tokens = <<>> /\ p.hash = NoHash)
  PROVE Feed!pathKey(p.base) \in Feed!derivedProbes(p)
BY DEF Feed!derivedProbes

\* A link without either derives from nothing but itself.
LEMMA PlainDerivesNothing ==
  ASSUME NEW T, NEW p, NEW e, p.tokens = <<>>, p.hash = NoHash, e.tokens \in Seq(T)
  PROVE ~Feed!derives(e, p)
<1>1. CASE e.tokens = p.tokens
  <2>1. Feed!derives(e, p) => e.hash \in {NoHash, p.hash} /\ e.hash # p.hash
    BY <1>1, Zenon DEF Feed!derives
  <2>2. e.hash \in {NoHash, p.hash} => e.hash = p.hash
    BY Zenon
  <2>. QED BY <2>1, <2>2, Zenon
<1>2. CASE e.tokens # p.tokens
  <2>1. e.tokens # <<>>
    BY <1>2, Zenon
  <2>2. 1 \in DOMAIN e.tokens /\ e.tokens[1] \in Feed!ToSet(e.tokens)
    <3>1. 1 \in DOMAIN e.tokens
      BY <2>1
    <3>. QED BY <3>1 DEF Feed!ToSet
  <2>3. Feed!times(e.tokens[1], e.tokens) \in Nat \ {0}
    BY <2>2, HasToken
  <2>4. ~ (Feed!times(e.tokens[1], e.tokens) <= Feed!times(e.tokens[1], <<>>))
    <3>1. Feed!times(e.tokens[1], <<>>) = 0
      BY NoTokens
    <3>2. \A n \in Nat \ {0} : ~(n <= 0)
      OBVIOUS
    <3>. QED BY <2>3, <3>1, <3>2
  <2>5. ~ (Feed!times(e.tokens[1], e.tokens) <= Feed!times(e.tokens[1], p.tokens))
    BY <2>4, Zenon
  <2>. QED BY <1>2, <2>2, <2>5, Zenon DEF Feed!derives
<1>. QED BY <1>1, <1>2

LEMMA ProbesAreComplete == ASSUME FeedConstants, FeedInv PROVE Feed!ProbesComplete
<1>1. SUFFICES ASSUME kv["bloom"] # None, kv["exact"] # None, kv["bloom"] = kv["exact"],
                      kv["bloom"].format = Feed!FEED_BLOB_FORMAT, NEW p \in Links,
                      Feed!findDerived(Feed!exactSet(kv["exact"].version), p) # {}
               PROVE  Feed!matchUrlAgainstFeeds(p) \in {"derived", "confirmed"}
  BY DEF Feed!ProbesComplete
<1>. DEFINE b == kv["bloom"]
<1>2. PICK e \in Feed!exactSet(b.version) : Feed!derives(e, p)
  BY <1>1 DEF Feed!findDerived
<1>0. b.version \in Feed!Versions
  BY <1>1 DEF FeedInv, FeedTypes, Feed!Keys, Feed!Blob
<1>3. e \in Feed!values(b.version) /\ e \in LinksListed
  BY <1>0, <1>1 DEF Feed!exactSet, Feed!values, Feed!ToSet, LinksListed
<1>4. PICK T : \A l \in LinksListed \cup Links : l.tokens \in Seq(T)
  BY DEF Queried, FeedConstants
<1>5. ~(p.tokens = <<>> /\ p.hash = NoHash)
  BY <1>2, <1>3, <1>4, PlainDerivesNothing, Zenon
<1>6. Feed!pathKey(p.base) \in Feed!derivedProbes(p)
  BY <1>5, PathIsProbed
<1>7. e.base = p.base
  BY <1>2 DEF Feed!derives
<1>8. b.format # 1
  BY <1>1 DEF Feed!FEED_BLOB_FORMAT
<1>9. Feed!pathKey(p.base) \in Feed!feedBloomKeys(b)
  BY <1>3, <1>7, <1>8 DEF Feed!feedBloomKeys
<1>10. Feed!checkBloom(b, Feed!pathKey(p.base))
  BY <1>9 DEF Feed!checkBloom
<1>. QED BY <1>1, <1>6, <1>10 DEF Feed!matchUrlAgainstFeeds
\* Whoever refreshes, whenever keys expire, isolates end and the feed changes:
\* what a refresh is about to record is what lookups find, in this build's
\* format, a link every version lists is confirmed while its keys live, and no
\* link that derives from a listed one is missed by its probes.
THEOREM FeedsStayServed ==
  ASSUME FeedConstants PROVE Feed!Spec =>
           [](Feed!TypeOK /\ Feed!RecordedIsServed /\ Feed!ListedStaysFound /\ Feed!ProbesComplete)
<1>1. Feed!Init => FeedInv
  BY InitFeedInv
<1>2. FeedInv /\ [Feed!Next]_(Feed!vars) => FeedInv'
  BY NextFeedInv
<1>3. FeedInv => Feed!TypeOK /\ Feed!RecordedIsServed /\ Feed!ListedStaysFound /\ Feed!ProbesComplete
  BY FeedInvSound, ListedIsFound, ProbesAreComplete
<1>. QED BY <1>1, <1>2, <1>3, PTL DEF Feed!Spec

=============================================================================
