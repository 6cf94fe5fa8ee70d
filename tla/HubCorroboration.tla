-------------------------- MODULE HubCorroboration --------------------------
(***************************************************************************)
(* The hub: organisations post events into sharing groups, the cron pulls  *)
(* events of a peer, each attribute credits its organisation once in a row *)
(* of `corroboration', and the feeds serve what enough of them agree on.   *)
(* Every D1 call is a step, and a request may die between any two.         *)
(* Attributes are values of the promotable types; trust counts in halves.  *)
(***************************************************************************)
EXTENDS Integers, FiniteSets

CONSTANTS
  Orgs, Peer,        \* organisations; the synthetic one of the inbound peer
  Groups, NullGroup, \* sharing groups; the NULL one every org may use
  Values,
  Posts, PeerEvents, \* event uuids: posted by an org, published by the peer
  ValuesOf,          \* [Posts \cup PeerEvents -> SUBSET Values]
  Ours,              \* peer events that carry the uuid of an org of this hub
  Unwanted,          \* peer events the tag filter drops
  DefaultGroup,      \* the peer's default_sharing_group_uuid
  Tasks,             \* requests and cron ticks that may be under way at once
  Trusts,            \* trusts an operator gives
  InitialTrust,      \* [Orgs -> Trusts]
  Multiplied,        \* [Trusts -> Trusts]: the peer's trust times a subscriber's multiplier
  PageSize, MaxPages,
  None,
  MaxTime, MaxTrouble  \* bounds: upstream clock; crashes, edits, operators' changes

Uuids == Posts \cup PeerEvents

ASSUME HubConstants ==
  /\ IsFiniteSet(Orgs) /\ Peer \in Orgs /\ {NullGroup, DefaultGroup} \subseteq Groups
  /\ PeerEvents \subseteq Nat /\ ValuesOf \in [Uuids -> SUBSET Values]
  /\ Trusts \subseteq Nat /\ InitialTrust \in [Orgs -> Trusts] /\ Multiplied \in [Trusts -> Trusts]
  /\ PageSize \in Nat /\ MaxPages \in Nat /\ MaxTime \in Nat \ {0} /\ MaxTrouble \in Nat
  /\ None \notin Orgs

PromotionScore == 4
PromotionContributors == 2

Keys == Groups \X Values

VARIABLES
  trust,         \* [Orgs -> Trusts]
  members,       \* sharing_group_orgs
  public,        \* groups with is_public = 1
  subscribed,    \* orgs subscribed to the peer
  events,        \* [uuid -> None or its org, group and timestamp]
  attributes,    \* uuids whose attribute rows are written
  rows,          \* keys with a row
  count, score,  \* [Keys -> Nat]
  contributors,  \* corroboration_contributors
  credits,       \* [Keys \X Orgs -> how often the UPDATE was carried out]
  task,          \* [Tasks -> request or pull under way, or None]
  inbound,       \* the inbound_peers row: enabled, watermark, next_retry_at ahead
  upstream,      \* [PeerEvents -> timestamp, 0 before it is published]
  edited,        \* an event was edited upstream during a pull
  late,          \* events published behind a short page a pull had fetched
  lost,          \* credits that died with their request
  bare,          \* events whose request died before their attributes
  clock, trouble

corroboration == <<rows, count, score, contributors, credits, lost, bare>>
settings == <<trust, members, public, subscribed>>
world == <<upstream, edited, late, clock>>
vars == <<settings, events, attributes, corroboration, task, inbound, world, trouble>>

Credit == Keys \X Trusts
Times == 0 .. MaxTime
Pcs == {"insert", "attributes", "trust", "row", "contribute", "credit",
        "selected", "load", "fetch", "upsert", "finish"}
Task ==
  {r \in [pc : Pcs, org : Orgs, uuid : Uuids \cup {None}, group : Groups, ts : Times,
          todo : SUBSET Credit, now : Credit \cup {None},
          since : Times, top : Times, page : Nat,
          batch : SUBSET (PeerEvents \X Times), targets : SUBSET (Groups \X Trusts)] :
     /\ r.pc \in {"insert", "upsert", "attributes", "trust"} => r.uuid \in Uuids
     /\ r.pc \in {"contribute", "credit"} => r.now \in Credit}

ASSUME NoneIsNoTask == None \notin Task
ASSUME NoneIsNoEvent == None \notin [org : Orgs, group : Groups, ts : Times]

TypeOK ==
  /\ trust \in [Orgs -> Trusts] /\ members \subseteq Groups \X Orgs
  /\ public \subseteq Groups /\ subscribed \subseteq Orgs
  /\ events \in [Uuids -> [org : Orgs, group : Groups, ts : Times] \cup {None}]
  /\ attributes \subseteq Uuids /\ rows \subseteq Keys
  /\ count \in [Keys -> Nat] /\ score \in [Keys -> Nat]
  /\ contributors \subseteq Keys \X Orgs /\ credits \in [Keys \X Orgs -> Nat]
  /\ task \in [Tasks -> Task \cup {None}]
  /\ inbound \in [enabled : BOOLEAN, mark : Times, retry : BOOLEAN]
  /\ upstream \in [PeerEvents -> Times] /\ clock \in Times
  /\ edited \in BOOLEAN /\ late \subseteq PeerEvents /\ lost \subseteq Keys \X Orgs /\ bare \subseteq Uuids
  /\ trouble \in 0 .. MaxTrouble

Request(pc, o) ==
  [pc |-> pc, org |-> o, uuid |-> None, group |-> NullGroup, ts |-> 0, todo |-> {}, now |-> None,
   since |-> 0, top |-> 0, page |-> 0, batch |-> {}, targets |-> {}]

Init ==
  /\ trust = InitialTrust /\ public = {} /\ subscribed = {}
  /\ members = (Groups \ {NullGroup}) \X Orgs
  /\ events = [u \in Uuids |-> None] /\ attributes = {}
  /\ rows = {} /\ count = [k \in Keys |-> 0] /\ score = [k \in Keys |-> 0]
  /\ contributors = {} /\ credits = [x \in Keys \X Orgs |-> 0] /\ lost = {} /\ bare = {}
  /\ task = [t \in Tasks |-> None]
  /\ inbound = [enabled |-> TRUE, mark |-> 0, retry |-> FALSE]
  /\ upstream = [e \in PeerEvents |-> 0] /\ edited = FALSE /\ late = {} /\ clock = 1
  /\ trouble = 0

\* What follows without a call: the next attribute, the end of a post, or the
\* next event of the page that is neither ours nor filtered, or the next page.
Wanted(batch) == {b \in batch : b[1] \notin Ours \cup Unwanted}
Earliest(batch) ==
  CHOOSE b \in batch : \A x \in batch : b[2] < x[2] \/ (b[2] = x[2] /\ b[1] <= x[1])
NextEvent(r, batch) ==
  IF Wanted(batch) = {} THEN [r EXCEPT !.pc = "fetch", !.page = @ + 1, !.batch = {}]
  ELSE LET b == Earliest(Wanted(batch))
       IN [r EXCEPT !.pc = "upsert", !.uuid = b[1], !.ts = b[2], !.batch = Wanted(batch) \ {b}]
Proceed(r) ==
  CASE r.todo # {} -> [r EXCEPT !.pc = "row"]
    [] r.todo = {} /\ r.org # Peer -> None
    [] OTHER -> NextEvent([r EXCEPT !.top = IF r.ts > @ THEN r.ts ELSE @], r.batch)

At(t, pc) == task[t] # None /\ task[t].pc = pc
Become(t, r) == task' = [task EXCEPT ![t] = r]
Goto(t, pc) == Become(t, [task[t] EXCEPT !.pc = pc])
End(t) == Become(t, None)
Pulling == \E t \in Tasks : task[t] # None /\ task[t].org = Peer

(* --------------------------------------------------------- posting events --- *)

\* POST /events by a member of the group; an org stays a member for ever.
PostEvent(t, o, u, g) ==
  /\ task[t] = None /\ o # Peer
  /\ g = NullGroup \/ <<g, o>> \in members
  /\ Become(t, [Request("insert", o) EXCEPT !.uuid = u, !.group = g])
  /\ UNCHANGED <<settings, events, attributes, corroboration, inbound, world, trouble>>

\* A uuid the table has already is an error: a retry of a post that died goes
\* no further than this.
InsertEvent(t) ==
  /\ At(t, "insert")
  /\ IF events[task[t].uuid] = None
       THEN /\ events' = [events EXCEPT ![task[t].uuid] =
                            [org |-> task[t].org, group |-> task[t].group, ts |-> 0]]
            /\ Goto(t, "attributes")
       ELSE End(t) /\ UNCHANGED events
  /\ UNCHANGED <<settings, attributes, corroboration, inbound, world, trouble>>

\* The attributes of a peer's event keep their uuids: rows an overlapping pull
\* has put in make the batch fail, and the pull dies.
InsertAttributes(t) ==
  /\ At(t, "attributes")
  /\ IF task[t].uuid \in attributes THEN End(t) ELSE Goto(t, "trust")
  /\ attributes' = attributes \cup {task[t].uuid}
  /\ UNCHANGED <<settings, events, corroboration, inbound, world, trouble>>

\* applyCorroboration reads the org's trust once; a pulled event is applied to
\* the default group and, at its own trust, to each subscriber's group.
ReadTrust(t) ==
  /\ At(t, "trust")
  /\ LET at == {<<task[t].group, trust[task[t].org]>>} \cup task[t].targets
     IN Become(t, Proceed([task[t] EXCEPT
          !.todo = {<<<<a[1], v>>, a[2]>> : a \in at, v \in ValuesOf[task[t].uuid]}]))
  /\ UNCHANGED <<settings, events, attributes, corroboration, inbound, world, trouble>>

\* INSERT ... ON CONFLICT for the next attribute (a NULL group never conflicts,
\* but the row read back is the first one).
UpsertRow(t, c) ==
  /\ At(t, "row") /\ c \in task[t].todo
  /\ Become(t, [task[t] EXCEPT !.pc = "contribute", !.now = c, !.todo = @ \ {c}])
  /\ rows' = rows \cup {c[1]}
  /\ UNCHANGED <<count, score, contributors, credits, lost, bare>>
  /\ UNCHANGED <<settings, events, attributes, inbound, world, trouble>>

\* Mutation of AddContributor: the row of the org is put in whether new or not.
AddAlways(t) ==
  /\ At(t, "contribute") /\ Goto(t, "credit")
  /\ contributors' = contributors \cup {<<task[t].now[1], task[t].org>>}
  /\ UNCHANGED <<rows, count, score, credits, lost, bare>>
  /\ UNCHANGED <<settings, events, attributes, inbound, world, trouble>>

\* INSERT OR IGNORE: a second contribution of the org goes no further.
AddContributor(t) ==
  /\ At(t, "contribute")
  /\ LET x == <<task[t].now[1], task[t].org>>
     IN /\ contributors' = contributors \cup {x}
        /\ IF x \in contributors THEN Become(t, Proceed(task[t])) ELSE Goto(t, "credit")
  /\ UNCHANGED <<rows, count, score, credits, lost, bare>>
  /\ UNCHANGED <<settings, events, attributes, inbound, world, trouble>>

CreditRow(t) ==
  /\ At(t, "credit") /\ Become(t, Proceed(task[t]))
  /\ LET k == task[t].now[1]
     IN /\ count' = [count EXCEPT ![k] = @ + 1]
        /\ score' = [score EXCEPT ![k] = @ + task[t].now[2]]
        /\ credits' = [credits EXCEPT ![<<k, task[t].org>>] = @ + 1]
  /\ UNCHANGED <<rows, contributors, lost, bare>>
  /\ UNCHANGED <<settings, events, attributes, inbound, world, trouble>>

\* A D1 call throws or the isolate goes: what was written stays.  A credit
\* that was next is never made, for the contributor is known from now on.
Die(t) ==
  /\ task[t] # None /\ trouble < MaxTrouble /\ trouble' = trouble + 1
  /\ End(t)
  /\ lost' = IF At(t, "credit") THEN lost \cup {<<task[t].now[1], task[t].org>>} ELSE lost
  /\ bare' = IF At(t, "attributes") THEN bare \cup {task[t].uuid} ELSE bare
  /\ UNCHANGED <<rows, count, score, contributors, credits>>
  /\ UNCHANGED <<settings, events, attributes, inbound, world>>

(* --------------------------------------------------------------- pulling --- *)

\* The cron selects the peers that are due, and gets to each in its turn.
SelectPeer(t) ==
  /\ task[t] = None /\ inbound.enabled /\ ~inbound.retry
  /\ Become(t, [Request("selected", Peer) EXCEPT
                  !.group = DefaultGroup, !.since = inbound.mark, !.top = inbound.mark])
  /\ UNCHANGED <<settings, events, attributes, corroboration, inbound, world, trouble>>

LockPeer(t) ==
  /\ At(t, "selected") /\ Goto(t, "load")
  /\ inbound' = [inbound EXCEPT !.retry = inbound.enabled]
  /\ UNCHANGED <<settings, events, attributes, corroboration, world, trouble>>

\* finishWithError: the watermark stays, the peer is due again later.
PullFails(t) ==
  /\ At(t, "load") \/ At(t, "fetch")
  /\ trouble < MaxTrouble /\ trouble' = trouble + 1
  /\ End(t) /\ inbound' = [inbound EXCEPT !.retry = inbound.enabled]
  /\ UNCHANGED <<settings, events, attributes, corroboration, world>>

\* loadSubscriptionTargets: every group of every subscriber but the default one.
LoadTargets(t) ==
  /\ At(t, "load")
  /\ Become(t, [task[t] EXCEPT !.pc = "fetch", !.page = 1,
       !.targets = {<<g, Multiplied[trust[Peer]]>> :
                      g \in {h \in Groups \ {DefaultGroup} : \E o \in subscribed : <<h, o>> \in members}}])
  /\ UNCHANGED <<settings, events, attributes, corroboration, inbound, world, trouble>>

\* restSearch of the peer: the n-th page of its events from `since' on, by
\* timestamp and then in an order that does not change.
Before(e, f) == upstream[e] < upstream[f] \/ (upstream[e] = upstream[f] /\ e < f)
Listed(since) == {e \in PeerEvents : upstream[e] > 0 /\ upstream[e] >= since}
Rank(e, since) == Cardinality({f \in Listed(since) : Before(f, e)})
PageOf(since, n) ==
  {<<e, upstream[e]>> : e \in {f \in Listed(since) : /\ (n - 1) * PageSize <= Rank(f, since)
                                                    /\ Rank(f, since) < n * PageSize}}

FetchPage(t) ==
  /\ At(t, "fetch")
  /\ LET page == PageOf(task[t].since, task[t].page)
     IN IF task[t].page > MaxPages \/ page = {} THEN Goto(t, "finish")
        ELSE Become(t, NextEvent(task[t], page))
  /\ UNCHANGED <<settings, events, attributes, corroboration, inbound, world, trouble>>

\* INSERT OR REPLACE and the DELETE of its attributes, in one batch.
UpsertEvent(t) ==
  /\ At(t, "upsert") /\ Goto(t, "attributes")
  /\ events' = [events EXCEPT ![task[t].uuid] =
                  [org |-> Peer, group |-> DefaultGroup, ts |-> task[t].ts]]
  /\ attributes' = attributes \ {task[t].uuid}
  /\ UNCHANGED <<settings, corroboration, inbound, world, trouble>>

\* Mutation of FinishPull: the watermark is the time the pull ended.
FinishPullNow(t) ==
  /\ At(t, "finish") /\ End(t)
  /\ inbound' = IF inbound.enabled THEN [inbound EXCEPT !.mark = clock, !.retry = FALSE]
                ELSE inbound
  /\ UNCHANGED <<settings, events, attributes, corroboration, world, trouble>>

\* The end of pullFromPeer; a peer deleted meanwhile has no row to update.
FinishPull(t) ==
  /\ At(t, "finish") /\ End(t)
  /\ inbound' = IF inbound.enabled THEN [inbound EXCEPT !.mark = task[t].top, !.retry = FALSE]
                ELSE inbound
  /\ UNCHANGED <<settings, events, attributes, corroboration, world, trouble>>

\* next_retry_at passes: 4 minutes after a lock, 10 after an error.
RetryDue ==
  /\ inbound.retry /\ inbound' = [inbound EXCEPT !.retry = FALSE]
  /\ UNCHANGED <<settings, events, attributes, corroboration, task, world, trouble>>

(* ------------------------------------------------------------ the peer's side --- *)

here == <<settings, events, attributes, corroboration, task, inbound>>

Tick ==
  /\ clock < MaxTime /\ clock' = clock + 1
  /\ UNCHANGED <<upstream, edited, late, trouble>> /\ UNCHANGED here

\* The places of the list that a pull which may fetch more has fetched.
Fetched(r) ==
  CASE r.pc \in {"selected", "load", "finish"} -> 0
    [] r.pc = "fetch" -> (r.page - 1) * PageSize
    [] OTHER -> r.page * PageSize
BehindAPage ==
  \E t \in Tasks : /\ task[t] # None /\ task[t].org = Peer
                   /\ Cardinality(Listed(task[t].since)) < Fetched(task[t])

\* An event takes the time as its timestamp, and the last place of the list;
\* the peer numbers its events as they are published.
Publish(e) ==
  /\ upstream[e] = 0 /\ \A f \in PeerEvents : f < e => upstream[f] > 0
  /\ upstream' = [upstream EXCEPT ![e] = clock]
  /\ late' = IF BehindAPage THEN late \cup {e} ELSE late
  /\ UNCHANGED <<edited, clock, trouble>> /\ UNCHANGED here

Edit(e) ==
  /\ trouble < MaxTrouble /\ trouble' = trouble + 1
  /\ upstream[e] > 0 /\ clock > upstream[e] /\ upstream' = [upstream EXCEPT ![e] = clock]
  /\ edited' = (edited \/ Pulling)
  /\ UNCHANGED <<late, clock>> /\ UNCHANGED here

(* -------------------------------------------------------------- operators --- *)

Administer ==
  /\ trouble < MaxTrouble /\ trouble' = trouble + 1
  /\ UNCHANGED <<events, attributes, corroboration, task, world>>

SetTrust(o, x) ==
  /\ Administer /\ x # trust[o] /\ trust' = [trust EXCEPT ![o] = x]
  /\ UNCHANGED <<members, public, subscribed, inbound>>

SetPublic(g) ==
  /\ Administer /\ g # NullGroup
  /\ public' \in {public \cup {g}, public \ {g}} /\ UNCHANGED <<trust, members, subscribed, inbound>>

Subscribe(o) ==
  /\ Administer /\ inbound.enabled /\ o # Peer
  /\ subscribed' \in {subscribed \cup {o}, subscribed \ {o}}
  /\ UNCHANGED <<trust, members, public, inbound>>

\* Mutation of DeletePeer: the lock is set on the row that is gone.
DeletePeerLocked ==
  /\ Administer /\ inbound.enabled
  /\ inbound' = [inbound EXCEPT !.mark = None] /\ subscribed' = {}
  /\ UNCHANGED <<trust, members, public>>

\* The rows of the peer go; its org and its events stay.
DeletePeer ==
  /\ Administer /\ inbound.enabled
  /\ inbound' = [inbound EXCEPT !.enabled = FALSE, !.retry = FALSE] /\ subscribed' = {}
  /\ UNCHANGED <<trust, members, public>>

Next ==
  \/ \E t \in Tasks :
       \/ \E o \in Orgs, u \in Posts, g \in Groups : PostEvent(t, o, u, g)
       \/ InsertEvent(t) \/ InsertAttributes(t) \/ ReadTrust(t)
       \/ \E c \in Credit : UpsertRow(t, c)
       \/ AddContributor(t) \/ CreditRow(t) \/ Die(t)
       \/ SelectPeer(t) \/ LockPeer(t) \/ LoadTargets(t) \/ PullFails(t)
       \/ FetchPage(t) \/ UpsertEvent(t) \/ FinishPull(t)
  \/ RetryDue \/ Tick \/ \E e \in PeerEvents : Publish(e) \/ Edit(e)
  \/ \E o \in Orgs : Subscribe(o) \/ \E x \in Trusts : SetTrust(o, x)
  \/ \E g \in Groups : SetPublic(g)
  \/ DeletePeer

Spec == Init /\ [][Next]_vars

(* ------------------------------------------------------------- the feeds --- *)

\* getPromotedForSharingGroup: what is corroborated, and the caller's own.
Corroborated(k) == score[k] >= PromotionScore /\ count[k] >= PromotionContributors
Promoted(g, caller) ==
  {v \in Values : <<g, v>> \in rows
                  /\ (Corroborated(<<g, v>>) \/ <<<<g, v>>, caller>> \in contributors)}

\* GET /feeds/destroylist.txt of an org, over all its groups.
Destroylist(o) ==
  UNION {Promoted(g, o) : g \in {NullGroup} \cup {h \in Groups : <<h, o>> \in members}}

\* GET /feeds/public/destroylist.txt.
PublicFeed == UNION {Promoted(g, None) : g \in public}

\* GET /corroboration: the rows of the org that another org shares.
CorroboratedCount(o) ==
  Cardinality({k \in Keys : <<k, o>> \in contributors
                 /\ \E p \in Orgs \ {o} : <<k, p>> \in contributors})

(* ------------------------------------------------------------- properties --- *)

\* However posts, pulls, retries and deaths interleave, an org is credited at
\* most once in a row, and the count is what was credited.
CreditedOnce ==
  \A k \in Keys :
    /\ \A o \in Orgs : credits[<<k, o>>] <= 1
    /\ count[k] = Cardinality({o \in Orgs : credits[<<k, o>>] = 1})

\* A contributor that is not credited is about to be, or its request died
\* between the two statements: then it never will be, whatever is retried.
ContributorsCredited ==
  \A k \in Keys, o \in Orgs :
    /\ credits[<<k, o>>] > 0 => <<k, o>> \in contributors
    /\ <<k, o>> \in contributors /\ credits[<<k, o>>] = 0 =>
         \/ <<k, o>> \in lost
         \/ \E t \in Tasks : At(t, "credit") /\ task[t].org = o /\ task[t].now[1] = k

\* feeds.ts promises sybil resistance: what the public feed lists was
\* contributed by two organisations to a group that is public, and what an
\* org's feed lists by two, or by the org itself, to a group it may read.
TwoContributed(g, v) ==
  \E o, p \in Orgs : o # p /\ {<<<<g, v>>, o>>, <<<<g, v>>, p>>} \subseteq contributors
FeedsCorroborated ==
  /\ \A v \in PublicFeed : \E g \in public : TwoContributed(g, v)
  /\ \A o \in Orgs : \A v \in Destroylist(o) :
       \E g \in Groups : /\ g = NullGroup \/ <<g, o>> \in members
                         /\ TwoContributed(g, v) \/ <<<<g, v>>, o>> \in contributors

PromotionSound == CreditedOnce /\ ContributorsCredited /\ FeedsCorroborated

\* An event of the peer is stored with its attributes and credited.  Only a
\* pull that outlived its lock and died on an event another pull had stored
\* leaves that event bare.
PulledIn(e) ==
  /\ events[e] # None /\ events[e].ts = upstream[e]
  /\ \/ e \in attributes \cup bare
     \/ \E t \in Tasks : At(t, "attributes") /\ task[t].uuid = e
  /\ \A v \in ValuesOf[e] : <<<<DefaultGroup, v>>, Peer>> \in contributors
Passed == {e \in PeerEvents \ (Ours \cup Unwanted) : upstream[e] > 0 /\ upstream[e] < inbound.mark}

\* sync.ts:7: the watermark passes no event of the peer that is not pulled in,
\* as long as the peer edits none while a pull is under way and the event was
\* not published behind a short page; pages, dying and overlapping pulls, and
\* events that share a timestamp notwithstanding.
PullSkipsNothing == ~edited => \A e \in Passed \ late : PulledIn(e)

\* sync.ts:199-203 orders the pages by timestamp so that no pull "would advance
\* the watermark past unprocessed older events and never come back for them".
WatermarkKeepsUnpulled == \A e \in Passed : PulledIn(e)

\* routes/admin.ts:235 says that an org demoted to trust 0 no longer affects
\* the corroboration score.
DemotedDoesNotCount ==
  \A g \in public : \A v \in PublicFeed :
    \E o \in Orgs : trust[o] > 0 /\ <<<<g, v>>, o>> \in contributors
=============================================================================
