-------------------------- MODULE HubMembersProofs --------------------------
(***************************************************************************)
(* What holds of the hub's members for any organisations, groups, peers    *)
(* and number of overlapping requests: who is in a group was vouched for,  *)
(* nobody is shown what is not his or his groups', an invite makes an      *)
(* organisation while it is unredeemed, and a peer's two rows agree.       *)
(***************************************************************************)
EXTENDS HubMembers, FiniteSetTheorems, SequenceTheorems, TLAPS

Ops == {"accept", "invite", "group", "event", "get", "search", "register", "remove", "publish"}
Points == {"read", "check", "select", "write"}
Joined == [org : AllOrgs, saw : Nat]
Invite ==
  [group : Groups \cup {None}, by : AllOrgs, state : {"open", "used", "expired"}, joined : Seq(Joined)]
Event == [org : AllOrgs, group : Groups \cup {None}]
Handler ==
  [op : Ops, at : Points, org : AllOrgs \cup {None}, group : Groups \cup {None},
   row : Nat \cup Peers \cup {None}, groups : SUBSET Groups, due : SUBSET Nat, saw : Nat]

\* What the constants are: an invite makes an organisation that was not there,
\* nor is the one of a peer, None is nothing else, and the bounds are numbers.
Constants ==
  /\ Newcomers \cap Founders = {} /\ \A p \in Peers : SyntheticOrg[p] \notin Newcomers
  /\ None \notin AllOrgs \cup (SUBSET AllOrgs) \cup Groups \cup BOOLEAN \cup Handler
  /\ MaxRequests \in Nat /\ MaxFaults \in Nat

(* ---------------------------------------------------------- the invariant --- *)

Tables ==
  /\ orgs \subseteq AllOrgs /\ members \in [Groups -> (SUBSET AllOrgs) \cup {None}]
  /\ owner \in [Groups -> AllOrgs \cup {None}]
  /\ invites \in Seq(Invite) /\ events \in Seq(Event)
  /\ peers \in [Peers -> BOOLEAN \cup {None}] /\ inbound \in [Peers -> Groups \cup {None}]

Typed ==
  /\ Tables /\ req \in [Slots -> Handler \cup {None}]
  /\ requests \in 0..MaxRequests /\ faults \in 0..MaxFaults

\* What a request has in hand before each of its calls.
Fits(h) ==
  /\ h.op = "accept" =>
       h.at \in {"read", "write"} /\ h.row \in DOMAIN invites /\ (h.at = "write" => h.saw = 0)
  /\ h.op \in {"invite", "event"} =>
       /\ h.at \in {"check", "write"} /\ h.org \in orgs
       /\ h.at = "write" /\ h.group # None => h.group \in groupsOf(h.org)
  /\ h.op = "group" => h.at = "write" /\ h.org \in orgs
  /\ h.op = "get" =>
       /\ h.at \in {"read", "check"} /\ h.row \in DOMAIN events /\ h.due = {}
       /\ h.at = "check" => h.group # None /\ h.group = events[h.row].group
  /\ h.op = "search" =>
       /\ h.at \in {"read", "select"}
       /\ h.at = "select" => h.groups \subseteq groupsOf(h.org) /\ h.due \subseteq visible(h.org, h.groups)
  /\ h.op = "register" =>
       /\ h.at \in {"check", "write"} /\ h.row \in Peers /\ h.group \in Groups
       /\ h.at = "write" => members[h.group] # None
  /\ h.op \in {"remove", "publish"} => h.at \in {"read", "write"} /\ h.row \in Peers

\* An invite into a group is by a member, and whom it let in is there.
InviteFits(i) ==
  LET invite == invites[i] IN
  /\ invite.by \in orgs
  /\ invite.group # None => members[invite.group] # None /\ invite.by \in members[invite.group]
  /\ joinedBy(i) \subseteq orgs
  /\ (invite.joined # <<>>) <=> (invite.state = "used")
  /\ \A k \in DOMAIN invite.joined : invite.joined[k].saw = 0

\* One invite, and no other, let an organisation in.
OnlyBy(o, i) == o \in joinedBy(i) /\ \A j \in DOMAIN invites : o \in joinedBy(j) => j = i
LetIn(o) == \E i \in DOMAIN invites : OnlyBy(o, i)

VouchedFor(o, g) ==
  \/ o = owner[g]
  \/ \E p \in Peers : o = SyntheticOrg[p]
  \/ \E i \in DOMAIN invites :
       invites[i].group = g /\ o \in joinedBy(i) /\ invites[i].by \in members[g] \ {o}

GroupFits(g) == members[g] # None => members[g] \subseteq orgs /\ \A o \in members[g] : VouchedFor(o, g)

EventFits(n) ==
  events[n].org \in orgs /\ (events[n].group # None => events[n].group \in groupsOf(events[n].org))

PeerFits(p) ==
  /\ (peers[p] = None) <=> (inbound[p] = None)
  /\ inbound[p] # None => members[inbound[p]] # None /\ SyntheticOrg[p] \in members[inbound[p]]

ShownFits(s) == s.due \subseteq s.events /\ s.events \subseteq visible(s.org, groupsOf(s.org))

World ==
  /\ \A i \in DOMAIN invites : InviteFits(i)
  /\ \A o \in orgs \cap Newcomers : LetIn(o)
  /\ \A g \in Groups : GroupFits(g)
  /\ \A n \in DOMAIN events : EventFits(n)
  /\ \A p \in Peers : PeerFits(p)
Shown == \A s \in shown : ShownFits(s)
Handlers == \A r \in Slots : req[r] # None => Fits(req[r])

IInv == Typed /\ World /\ Shown /\ Handlers

(* ------------------------------------------------------- what a step keeps --- *)

\* Nothing takes back an organisation, a membership, an invite or an event.
Grown ==
  /\ orgs \subseteq orgs'
  /\ \A g \in Groups : members[g] # None => members'[g] # None /\ members[g] \subseteq members'[g]
  /\ \A i \in DOMAIN invites :
       i \in DOMAIN invites' /\ invites'[i].group = invites[i].group /\ invites'[i].by = invites[i].by
  /\ \A i \in DOMAIN invites : joinedBy(i) \subseteq joinedBy(i)'
  /\ \A n \in DOMAIN events : n \in DOMAIN events' /\ events'[n] = events[n]

LEMMA GroupsGrow ==
  ASSUME Grown, NEW o
  PROVE  groupsOf(o) \subseteq groupsOf(o)'
BY DEF Grown, groupsOf

LEMMA VisibleGrows ==
  ASSUME Grown, NEW o, NEW gs
  PROVE  visible(o, gs) \subseteq visible(o, gs)'
BY DEF Grown, visible

LEMMA FitsKept ==
  ASSUME Grown, NEW h \in Handler, Fits(h)
  PROVE  Fits(h)'
<1>0. h.op \in Ops /\ h.group \in Groups \cup {None}
  BY DEF Handler
<1>1. \A i \in DOMAIN invites : i \in DOMAIN invites'
  BY DEF Grown
<1>2. \A n \in DOMAIN events : n \in DOMAIN events' /\ events'[n] = events[n]
  BY DEF Grown
<1>3. orgs \subseteq orgs' /\ \A g \in Groups : members[g] # None => members'[g] # None
  BY DEF Grown
<1>4. groupsOf(h.org) \subseteq groupsOf(h.org)'
  BY GroupsGrow
<1>5. visible(h.org, h.groups) \subseteq visible(h.org, h.groups)'
  BY VisibleGrows
<1> QED BY <1>0, <1>1, <1>2, <1>3, <1>4, <1>5 DEF Fits

LEMMA ShownKept ==
  ASSUME Grown, NEW s, ShownFits(s)
  PROVE  ShownFits(s)'
<1>1. PICK o : o = s.org
  OBVIOUS
<1>2. groupsOf(o) \subseteq groupsOf(o)'
  BY GroupsGrow
<1>3. visible(o, groupsOf(o)) \subseteq visible(o, groupsOf(o))'
  BY <1>2 DEF Grown, visible
<1> QED BY <1>1, <1>3 DEF ShownFits

LEMMA EventKept ==
  ASSUME Grown, NEW n \in DOMAIN events, EventFits(n)
  PROVE  EventFits(n)'
<1>1. events'[n] = events[n] /\ orgs \subseteq orgs'
  BY DEF Grown
<1>2. PICK o : o = events[n].org
  OBVIOUS
<1>3. groupsOf(o) \subseteq groupsOf(o)'
  BY GroupsGrow
<1> QED BY <1>1, <1>2, <1>3 DEF EventFits

LEMMA InviteKept ==
  ASSUME Tables, Grown, NEW i \in DOMAIN invites, InviteFits(i), invites'[i] = invites[i]
  PROVE  InviteFits(i)'
<1>1. joinedBy(i)' = joinedBy(i)
  BY DEF joinedBy
<1>2. PICK v : v = invites[i]
  OBVIOUS
<1>3. v \in Invite
  BY <1>2 DEF Tables
<1>4. v.group \in Groups \cup {None}
  BY <1>3 DEF Invite
<1>5. v.group # None => members'[v.group] # None /\ v.by \in members'[v.group]
  BY <1>2, <1>4 DEF InviteFits, Grown
<1> QED BY <1>1, <1>2, <1>5 DEF InviteFits, Grown

LEMMA PeerKept ==
  ASSUME Tables, Grown, NEW p \in Peers, PeerFits(p), peers'[p] = None <=> peers[p] = None,
         inbound'[p] = inbound[p]
  PROVE  PeerFits(p)'
<1>1. inbound[p] # None => inbound[p] \in Groups
  BY DEF Tables
<1> QED BY <1>1 DEF PeerFits, Grown

\* A member that was one stays vouched for.
LEMMA VouchedKept ==
  ASSUME Grown, NEW g \in Groups, members[g] # None, owner'[g] = owner[g], NEW o, VouchedFor(o, g)
  PROVE  VouchedFor(o, g)'
<1>1. CASE o = owner[g] \/ \E p \in Peers : o = SyntheticOrg[p]
  BY <1>1 DEF VouchedFor
<1>2. ASSUME NEW i \in DOMAIN invites, invites[i].group = g, o \in joinedBy(i), invites[i].by \in members[g] \ {o}
      PROVE  VouchedFor(o, g)'
  <2>1. i \in DOMAIN invites' /\ invites'[i].group = g /\ invites'[i].by = invites[i].by
    BY <1>2 DEF Grown
  <2>2. o \in joinedBy(i)' /\ invites[i].by \in members'[g] \ {o}
    BY <1>2 DEF Grown
  <2> QED BY <2>1, <2>2 DEF VouchedFor
<1> QED BY <1>1, <1>2 DEF VouchedFor

LEMMA GroupKept ==
  ASSUME Grown, NEW g \in Groups, GroupFits(g), members'[g] = members[g], owner'[g] = owner[g]
  PROVE  GroupFits(g)'
<1> SUFFICES ASSUME members[g] # None PROVE GroupFits(g)'
  BY DEF GroupFits
<1>1. members[g] \subseteq orgs'
  BY DEF GroupFits, Grown
<1>2. \A o \in members[g] : VouchedFor(o, g)'
  BY VouchedKept DEF GroupFits
<1> QED BY <1>1, <1>2 DEF GroupFits

\* Who joined before still joined by one invite, while nobody joins twice.
LEMMA LetInKept ==
  ASSUME Grown, NEW o, LetIn(o),
         \A i \in DOMAIN invites' : o \in joinedBy(i)' => i \in DOMAIN invites /\ o \in joinedBy(i)
  PROVE  LetIn(o)'
<1>1. PICK i \in DOMAIN invites : OnlyBy(o, i)
  BY DEF LetIn
<1>2. i \in DOMAIN invites' /\ o \in joinedBy(i)'
  BY <1>1 DEF OnlyBy, Grown
<1> QED BY <1>1, <1>2 DEF OnlyBy, LetIn

LEMMA StandStill ==
  ASSUME UNCHANGED tables
  PROVE  Grown /\ (Tables => Tables') /\ (World => World')
BY DEF tables, Grown, joinedBy, Tables, World, InviteFits, LetIn, OnlyBy, GroupFits, VouchedFor, EventFits,
       PeerFits, groupsOf

(* ---------------------------------------------------------------- the writes --- *)

Keeps == Tables' /\ Grown /\ World'

LEMMA NoneApart ==
  ASSUME Constants
  PROVE  (\A g \in Groups : g # None) /\ None \notin BOOLEAN /\ None \notin Handler
BY DEF Constants

\* The members of a group, with one more.
LEMMA JoinsGrows ==
  ASSUME Constants, Tables, NEW o \in AllOrgs, NEW g \in Groups \cup {None},
         g # None => members[g] # None, joins(o, g)
  PROVE  /\ members' \in [Groups -> (SUBSET AllOrgs) \cup {None}]
         /\ \A f \in Groups : members[f] # None => members'[f] # None /\ members[f] \subseteq members'[f]
         /\ \A f \in Groups : f # g => members'[f] = members[f]
         /\ g # None => members'[g] = members[g] \cup {o}
<1>1. CASE g = None
  <2>1. members' = members
    BY <1>1 DEF joins
  <2> QED BY <1>1, <2>1 DEF Tables
<1>2. CASE g # None
  <2>1. members[g] \in SUBSET AllOrgs /\ g \in Groups
    BY <1>2 DEF Tables
  <2>2. PICK s \in SUBSET AllOrgs : s = members[g] \cup {o}
    BY <2>1
  <2>3. members' = [members EXCEPT ![g] = s]
    BY <1>2, <2>2 DEF joins
  <2>4. s # None
    BY <2>2 DEF Constants
  <2> QED BY <1>2, <2>1, <2>2, <2>3, <2>4 DEF Tables
<1> QED BY <1>1, <1>2

LEMMA RedeemKeeps ==
  ASSUME Constants, Tables, World, NEW h \in Handler, h.row \in DOMAIN invites, h.saw = 0, redeem(h)
  PROVE  Keeps
<1> DEFINE n == h.row
<1>1. PICK v : v = invites[n]
  OBVIOUS
<1>2. /\ v \in Invite /\ v.group \in Groups \cup {None} /\ v.by \in AllOrgs
      /\ v.joined \in Seq(Joined) /\ InviteFits(n)
  <2>1. v \in Invite
    BY <1>1 DEF Tables
  <2>2. InviteFits(n)
    BY DEF World
  <2> QED BY <2>1, <2>2 DEF Invite
<1>3. PICK o \in Newcomers \ orgs :
        /\ orgs' = orgs \cup {o} /\ joins(o, v.group)
        /\ invites' = [invites EXCEPT ![n].state = "used", ![n].joined = Append(@, [org |-> o, saw |-> h.saw])]
        /\ UNCHANGED <<owner, events, peers, inbound>>
  BY <1>1 DEF redeem
<1>4. o \in AllOrgs
  BY DEF AllOrgs
<1>5. PICK j \in Joined : j = [org |-> o, saw |-> 0]
  BY <1>4 DEF Joined
<1>6. PICK w : w = [v EXCEPT !.state = "used", !.joined = Append(v.joined, j)]
  OBVIOUS
<1>7. invites' = [invites EXCEPT ![n] = w]
  <2>1. invites' = [invites EXCEPT ![n].state = "used", ![n].joined = Append(@, j)]
    BY <1>3, <1>5
  <2>2. invites \in Seq(Invite)
    BY DEF Tables
  <2> QED BY <1>1, <1>6, <2>1, <2>2
<1>8. w.group = v.group /\ w.by = v.by /\ w.state = "used" /\ w.joined = Append(v.joined, j) /\ w \in Invite
  <2>1. Append(v.joined, j) \in Seq(Joined)
    BY <1>2, <1>5
  <2>2. PICK js \in Seq(Joined) : js = Append(v.joined, j)
    BY <2>1
  <2> QED BY <1>2, <1>6, <2>2 DEF Invite
<1>9. /\ invites' \in Seq(Invite) /\ DOMAIN invites' = DOMAIN invites
      /\ invites'[n] = w /\ \A i \in DOMAIN invites \ {n} : invites'[i] = invites[i]
  <2>1. invites \in Seq(Invite) /\ n \in 1 .. Len(invites) /\ DOMAIN invites = 1 .. Len(invites)
    BY DEF Tables
  <2>2. /\ invites' \in Seq(Invite) /\ Len(invites') = Len(invites)
        /\ \A i \in 1 .. Len(invites) : invites'[i] = IF i = n THEN w ELSE invites[i]
    BY <1>7, <1>8, <2>1, ExceptSeq
  <2>3. DOMAIN invites' = 1 .. Len(invites')
    BY <2>2
  <2> QED BY <2>1, <2>2, <2>3
<1>10. /\ DOMAIN w.joined = DOMAIN v.joined \cup {Len(v.joined) + 1}
       /\ \A k \in DOMAIN v.joined : w.joined[k] = v.joined[k]
       /\ w.joined[Len(v.joined) + 1] = j /\ w.joined # <<>>
  <2>1. PICK js \in Seq(Joined) : js = v.joined
    BY <1>2
  <2>2. w.joined = Append(js, j)
    BY <1>8, <2>1
  <2>3. /\ DOMAIN Append(js, j) = DOMAIN js \cup {Len(js) + 1} /\ Append(js, j)[Len(js) + 1] = j
        /\ \A k \in DOMAIN js : Append(js, j)[k] = js[k]
        /\ Append(js, j) # <<>>
    OBVIOUS
  <2> QED BY <2>1, <2>2, <2>3
<1>11. joinedBy(n)' = joinedBy(n) \cup {o} /\ \A i \in DOMAIN invites \ {n} : joinedBy(i)' = joinedBy(i)
  <2>1. joinedBy(n) = {v.joined[k].org : k \in DOMAIN v.joined}
    BY <1>1 DEF joinedBy
  <2>2. joinedBy(n)' = {w.joined[k].org : k \in DOMAIN w.joined}
    BY <1>9 DEF joinedBy
  <2>3. j.org = o
    BY <1>5
  <2>4. joinedBy(n)' = joinedBy(n) \cup {o}
    BY <1>10, <2>1, <2>2, <2>3
  <2>5. \A i \in DOMAIN invites \ {n} : joinedBy(i)' = joinedBy(i)
    BY <1>9 DEF joinedBy
  <2> QED BY <2>4, <2>5
<1>12. v.group # None => members[v.group] # None /\ v.by \in members[v.group]
  BY <1>1, <1>2 DEF InviteFits
<1>13. /\ members' \in [Groups -> (SUBSET AllOrgs) \cup {None}]
       /\ \A f \in Groups : members[f] # None => members'[f] # None /\ members[f] \subseteq members'[f]
       /\ \A f \in Groups : f # v.group => members'[f] = members[f]
       /\ v.group # None => members'[v.group] = members[v.group] \cup {o}
  BY <1>2, <1>3, <1>4, <1>12, JoinsGrows
<1>14. Grown
  <2>1. \A i \in DOMAIN invites : i \in DOMAIN invites' /\ invites'[i].group = invites[i].group
                                  /\ invites'[i].by = invites[i].by
    BY <1>1, <1>8, <1>9
  <2>2. \A i \in DOMAIN invites : joinedBy(i) \subseteq joinedBy(i)'
    BY <1>11
  <2> QED BY <1>3, <1>13, <2>1, <2>2 DEF Grown
<1>15. Tables'
  BY <1>3, <1>4, <1>9, <1>13 DEF Tables
<1>16. ASSUME NEW i \in DOMAIN invites' PROVE InviteFits(i)'
  <2>1. i \in DOMAIN invites /\ InviteFits(i)
    BY <1>9, <1>16 DEF World
  <2>2. CASE i # n
    BY <1>9, <1>14, <2>1, <2>2, InviteKept
  <2>3. CASE i = n
    <3>1. w.by \in orgs' /\ (w.group # None => members'[w.group] # None /\ w.by \in members'[w.group])
      BY <1>1, <1>2, <1>3, <1>8, <1>12, <1>13 DEF InviteFits
    <3>2. joinedBy(n)' \subseteq orgs'
      BY <1>2, <1>3, <1>11 DEF InviteFits
    <3>3. \A k \in DOMAIN w.joined : w.joined[k].saw = 0
      <4>1. \A k \in DOMAIN v.joined : v.joined[k].saw = 0
        BY <1>1, <1>2 DEF InviteFits
      <4>2. j.saw = 0
        BY <1>5
      <4> QED BY <1>10, <4>1, <4>2
    <3> QED BY <1>8, <1>9, <1>10, <2>3, <3>1, <3>2, <3>3 DEF InviteFits
  <2> QED BY <2>2, <2>3
<1>17. ASSUME NEW x \in orgs' \cap Newcomers PROVE LetIn(x)'
  <2>1. \A i \in DOMAIN invites : joinedBy(i) \subseteq orgs
    BY DEF World, InviteFits
  <2>2. CASE x = o
    <3>1. \A i \in DOMAIN invites' : o \in joinedBy(i)' => i = n
      BY <1>9, <1>11, <2>1
    <3>2. n \in DOMAIN invites' /\ o \in joinedBy(n)'
      BY <1>9, <1>11
    <3> QED BY <2>2, <3>1, <3>2 DEF LetIn, OnlyBy
  <2>3. CASE x # o
    <3>1. LetIn(x)
      BY <1>3, <2>3 DEF World
    <3>2. \A i \in DOMAIN invites' : x \in joinedBy(i)' => i \in DOMAIN invites /\ x \in joinedBy(i)
      BY <1>9, <1>11, <2>3
    <3> QED BY <1>14, <3>1, <3>2, LetInKept
  <2> QED BY <2>2, <2>3
<1>18. ASSUME NEW g \in Groups PROVE GroupFits(g)'
  <2>0. GroupFits(g) /\ owner'[g] = owner[g]
    BY <1>3 DEF World
  <2>1. CASE g # v.group
    BY <1>13, <1>14, <2>0, <2>1, GroupKept
  <2>2. CASE g = v.group
    <3>1. g # None /\ members[g] # None /\ members'[g] = members[g] \cup {o} /\ v.by \in members[g]
      <4>1. g # None
        BY NoneApart
      <4> QED BY <1>12, <1>13, <2>2, <4>1
    <3>2. members[g] \subseteq orgs /\ \A x \in members[g] : VouchedFor(x, g)'
      BY <1>14, <2>0, <3>1, VouchedKept DEF GroupFits
    <3>3. VouchedFor(o, g)'
      <4>1. n \in DOMAIN invites' /\ o \in joinedBy(n)' /\ invites'[n].group = g /\ invites'[n].by = v.by
        BY <1>8, <1>9, <1>11, <2>2
      <4>2. v.by \in members'[g] \ {o}
        BY <3>1, <3>2
      <4> QED BY <4>1, <4>2 DEF VouchedFor
    <3> QED BY <1>3, <3>1, <3>2, <3>3 DEF GroupFits
  <2> QED BY <2>1, <2>2
<1>19. \A e \in DOMAIN events' : EventFits(e)'
  BY <1>3, <1>14, EventKept DEF World
<1>20. \A p \in Peers : PeerFits(p)'
  BY <1>3, <1>14, PeerKept DEF World
<1> QED BY <1>14, <1>15, <1>16, <1>17, <1>18, <1>19, <1>20 DEF Keeps, World

LEMMA IssueKeeps ==
  ASSUME Constants, Tables, World, NEW h \in Handler, h.org \in orgs,
         h.group # None => h.group \in groupsOf(h.org), issue(h)
  PROVE  Keeps
<1>1. h.group \in Groups \cup {None} /\ h.org \in AllOrgs
  BY DEF Handler, Tables
<1>2. PICK v : v = [group |-> h.group, by |-> h.org, state |-> "open", joined |-> <<>>]
  OBVIOUS
<1>3. v \in Invite
  <2>1. <<>> \in Seq(Joined)
    OBVIOUS
  <2> QED BY <1>1, <1>2, <2>1 DEF Invite
<1>4. invites' = Append(invites, v) /\ UNCHANGED <<orgs, members, owner, events, peers, inbound>>
  BY <1>2 DEF issue
<1>n. PICK n \in Nat : n = Len(invites) + 1
  BY DEF Tables
<1>5. /\ invites' \in Seq(Invite) /\ DOMAIN invites' = DOMAIN invites \cup {n}
      /\ invites'[n] = v /\ \A i \in DOMAIN invites : invites'[i] = invites[i]
  <2>1. invites \in Seq(Invite)
    BY DEF Tables
  <2> QED BY <1>3, <1>4, <1>n, <2>1
<1>6. \A i \in DOMAIN invites : joinedBy(i)' = joinedBy(i)
  BY <1>5 DEF joinedBy
<1>7. joinedBy(n)' = {}
  BY <1>2, <1>5 DEF joinedBy
<1>8. Grown
  BY <1>4, <1>5, <1>6 DEF Grown
<1>9. Tables'
  BY <1>4, <1>5 DEF Tables
<1>10. ASSUME NEW i \in DOMAIN invites' PROVE InviteFits(i)'
  <2>1. CASE i \in DOMAIN invites
    BY <1>5, <1>8, <2>1, InviteKept DEF World
  <2>2. CASE i = n
    <3>1. v.group # None => members'[v.group] # None /\ v.by \in members'[v.group]
      BY <1>2, <1>4 DEF groupsOf
    <3> QED BY <1>2, <1>4, <1>5, <1>7, <2>2, <3>1 DEF InviteFits
  <2> QED BY <1>5, <2>1, <2>2
<1>11. ASSUME NEW x \in orgs' \cap Newcomers PROVE LetIn(x)'
  <2>1. LetIn(x)
    BY <1>4 DEF World
  <2>2. \A i \in DOMAIN invites' : x \in joinedBy(i)' => i \in DOMAIN invites /\ x \in joinedBy(i)
    BY <1>5, <1>6, <1>7
  <2> QED BY <1>8, <2>1, <2>2, LetInKept
<1>12. \A g \in Groups : GroupFits(g)'
  BY <1>4, <1>8, GroupKept DEF World
<1>13. \A e \in DOMAIN events' : EventFits(e)'
  BY <1>4, <1>8, EventKept DEF World
<1>14. \A p \in Peers : PeerFits(p)'
  BY <1>4, <1>8, PeerKept DEF World
<1> QED BY <1>8, <1>9, <1>10, <1>11, <1>12, <1>13, <1>14 DEF Keeps, World

LEMMA CreateKeeps ==
  ASSUME Constants, Tables, World, NEW h \in Handler, h.org \in orgs, createGroup(h)
  PROVE  Keeps
<1>1. PICK g \in Groups :
        /\ members[g] = None /\ members' = [members EXCEPT ![g] = {h.org}]
        /\ owner' = [owner EXCEPT ![g] = h.org]
        /\ UNCHANGED <<orgs, invites, events, peers, inbound>>
  BY DEF createGroup
<1>2. h.org \in AllOrgs
  BY DEF Tables
<1>3. PICK s \in SUBSET AllOrgs : s = {h.org}
  BY <1>2
<1>4. s # None /\ members' = [members EXCEPT ![g] = s]
  BY <1>1, <1>3 DEF Constants
<1>5. /\ members' \in [Groups -> (SUBSET AllOrgs) \cup {None}] /\ owner' \in [Groups -> AllOrgs \cup {None}]
      /\ members'[g] = {h.org} /\ owner'[g] = h.org
      /\ \A f \in Groups \ {g} : members'[f] = members[f] /\ owner'[f] = owner[f]
  BY <1>1, <1>2, <1>3, <1>4 DEF Tables
<1>6. \A i \in DOMAIN invites : joinedBy(i)' = joinedBy(i)
  BY <1>1 DEF joinedBy
<1>7. Grown
  BY <1>1, <1>5, <1>6 DEF Grown
<1>8. Tables'
  BY <1>1, <1>5 DEF Tables
<1>9. \A i \in DOMAIN invites' : InviteFits(i)'
  BY <1>1, <1>7, InviteKept DEF World
<1>10. ASSUME NEW x \in orgs' \cap Newcomers PROVE LetIn(x)'
  <2>1. LetIn(x)
    BY <1>1 DEF World
  <2> QED BY <1>1, <1>6, <1>7, <2>1, LetInKept
<1>11. ASSUME NEW f \in Groups PROVE GroupFits(f)'
  <2>1. CASE f # g
    BY <1>5, <1>7, <2>1, GroupKept DEF World
  <2>2. CASE f = g
    BY <1>1, <1>5, <2>2 DEF GroupFits, VouchedFor
  <2> QED BY <2>1, <2>2
<1>12. \A e \in DOMAIN events' : EventFits(e)'
  BY <1>1, <1>7, EventKept DEF World
<1>13. \A p \in Peers : PeerFits(p)'
  BY <1>1, <1>7, PeerKept DEF World
<1> QED BY <1>7, <1>8, <1>9, <1>10, <1>11, <1>12, <1>13 DEF Keeps, World

LEMMA InsertKeeps ==
  ASSUME Constants, Tables, World, NEW h \in Handler, h.org \in orgs,
         h.group # None => h.group \in groupsOf(h.org), insertEvent(h)
  PROVE  Keeps
<1>1. h.group \in Groups \cup {None} /\ h.org \in AllOrgs
  BY DEF Handler, Tables
<1>2. PICK e : e = [org |-> h.org, group |-> h.group]
  OBVIOUS
<1>3. e \in Event /\ e.org = h.org /\ e.group = h.group
  BY <1>1, <1>2 DEF Event
<1>4. events' = Append(events, e) /\ UNCHANGED <<orgs, members, owner, invites, peers, inbound>>
  BY <1>2 DEF insertEvent
<1>n. PICK n \in Nat : n = Len(events) + 1
  BY DEF Tables
<1>5. /\ events' \in Seq(Event) /\ DOMAIN events' = DOMAIN events \cup {n}
      /\ events'[n] = e /\ \A i \in DOMAIN events : events'[i] = events[i]
  <2>1. events \in Seq(Event)
    BY DEF Tables
  <2> QED BY <1>3, <1>4, <1>n, <2>1
<1>6. \A i \in DOMAIN invites : joinedBy(i)' = joinedBy(i)
  BY <1>4 DEF joinedBy
<1>7. Grown
  BY <1>4, <1>5, <1>6 DEF Grown
<1>8. Tables'
  BY <1>4, <1>5 DEF Tables
<1>9. \A i \in DOMAIN invites' : InviteFits(i)'
  BY <1>4, <1>7, InviteKept DEF World
<1>10. ASSUME NEW x \in orgs' \cap Newcomers PROVE LetIn(x)'
  <2>1. LetIn(x)
    BY <1>4 DEF World
  <2> QED BY <1>4, <1>6, <1>7, <2>1, LetInKept
<1>11. \A g \in Groups : GroupFits(g)'
  BY <1>4, <1>7, GroupKept DEF World
<1>12. ASSUME NEW i \in DOMAIN events' PROVE EventFits(i)'
  <2>1. CASE i \in DOMAIN events
    BY <1>7, <2>1, EventKept DEF World
  <2>2. CASE i = n
    <3>1. groupsOf(h.org)' = groupsOf(h.org)
      BY <1>4 DEF groupsOf
    <3>2. PICK o : o = h.org
      OBVIOUS
    <3>3. groupsOf(o)' = groupsOf(o)
      BY <1>4 DEF groupsOf
    <3> QED BY <1>3, <1>4, <1>5, <2>2, <3>2, <3>3 DEF EventFits
  <2> QED BY <1>5, <2>1, <2>2
<1>13. \A p \in Peers : PeerFits(p)'
  BY <1>4, <1>7, PeerKept DEF World
<1> QED BY <1>7, <1>8, <1>9, <1>10, <1>11, <1>12, <1>13 DEF Keeps, World

LEMMA RegisterKeeps ==
  ASSUME Constants, Tables, World, NEW h \in Handler, h.row \in Peers, h.group \in Groups,
         members[h.group] # None, registerPeer(h)
  PROVE  Keeps
<1>1. PICK o : o = SyntheticOrg[h.row]
  OBVIOUS
<1>2. /\ orgs' = orgs \cup {o} /\ joins(o, h.group) /\ UNCHANGED <<owner, invites, events>>
      /\ peers' = [peers EXCEPT ![h.row] = FALSE] /\ inbound' = [inbound EXCEPT ![h.row] = h.group]
  BY <1>1 DEF registerPeer
<1>3. o \in AllOrgs /\ o \notin Newcomers /\ \E p \in Peers : o = SyntheticOrg[p]
  BY <1>1 DEF AllOrgs, Constants
<1>4. /\ members' \in [Groups -> (SUBSET AllOrgs) \cup {None}]
      /\ \A f \in Groups : members[f] # None => members'[f] # None /\ members[f] \subseteq members'[f]
      /\ \A f \in Groups : f # h.group => members'[f] = members[f]
      /\ members'[h.group] = members[h.group] \cup {o}
  <2>1. PICK g \in Groups : g = h.group /\ g # None
    BY NoneApart
  <2> QED BY <1>2, <1>3, <2>1, JoinsGrows
<1>5. /\ peers' \in [Peers -> BOOLEAN \cup {None}] /\ inbound' \in [Peers -> Groups \cup {None}]
      /\ peers'[h.row] = FALSE /\ inbound'[h.row] = h.group
      /\ \A p \in Peers \ {h.row} : peers'[p] = peers[p] /\ inbound'[p] = inbound[p]
  BY <1>2 DEF Tables
<1>6. \A i \in DOMAIN invites : joinedBy(i)' = joinedBy(i)
  BY <1>2 DEF joinedBy
<1>7. Grown
  BY <1>2, <1>4, <1>6 DEF Grown
<1>8. Tables'
  BY <1>2, <1>3, <1>4, <1>5 DEF Tables
<1>9. \A i \in DOMAIN invites' : InviteFits(i)'
  BY <1>2, <1>7, InviteKept DEF World
<1>10. ASSUME NEW x \in orgs' \cap Newcomers PROVE LetIn(x)'
  <2>1. LetIn(x)
    BY <1>2, <1>3 DEF World
  <2> QED BY <1>2, <1>6, <1>7, <2>1, LetInKept
<1>11. ASSUME NEW g \in Groups PROVE GroupFits(g)'
  <2>0. GroupFits(g) /\ owner'[g] = owner[g]
    BY <1>2 DEF World
  <2>1. CASE g # h.group
    BY <1>4, <1>7, <2>0, <2>1, GroupKept
  <2>2. CASE g = h.group
    <3>1. members[g] # None /\ members'[g] = members[g] \cup {o}
      BY <1>4, <2>2
    <3>2. members[g] \subseteq orgs /\ \A x \in members[g] : VouchedFor(x, g)'
      BY <1>7, <2>0, <3>1, VouchedKept DEF GroupFits
    <3>3. VouchedFor(o, g)'
      BY <1>3 DEF VouchedFor
    <3> QED BY <1>2, <3>1, <3>2, <3>3 DEF GroupFits
  <2> QED BY <2>1, <2>2
<1>12. \A e \in DOMAIN events' : EventFits(e)'
  BY <1>2, <1>7, EventKept DEF World
<1>13. ASSUME NEW p \in Peers PROVE PeerFits(p)'
  <2>1. CASE p # h.row
    BY <1>5, <1>7, <2>1, PeerKept DEF World
  <2>2. CASE p = h.row
    <3>1. peers'[p] # None /\ inbound'[p] # None
      BY <1>5, <2>2, NoneApart
    <3> QED BY <1>1, <1>4, <1>5, <2>2, <3>1 DEF PeerFits
  <2> QED BY <2>1, <2>2
<1> QED BY <1>7, <1>8, <1>9, <1>10, <1>11, <1>12, <1>13 DEF Keeps, World

\* Removing and publishing only touch the two rows of a peer.
LEMMA PeerRowsKeep ==
  ASSUME Constants, Tables, World, UNCHANGED <<orgs, members, owner, invites, events>>,
         peers' \in [Peers -> BOOLEAN \cup {None}], inbound' \in [Peers -> Groups \cup {None}],
         \A p \in Peers : \/ peers'[p] = None /\ inbound'[p] = None
                          \/ (peers'[p] = None <=> peers[p] = None) /\ inbound'[p] = inbound[p]
  PROVE  Keeps
<1>1. \A i \in DOMAIN invites : joinedBy(i)' = joinedBy(i)
  BY DEF joinedBy
<1>2. Grown
  BY <1>1 DEF Grown
<1>3. Tables'
  BY DEF Tables
<1>4. \A i \in DOMAIN invites' : InviteFits(i)'
  BY <1>2, InviteKept DEF World
<1>5. ASSUME NEW x \in orgs' \cap Newcomers PROVE LetIn(x)'
  <2>1. LetIn(x)
    BY DEF World
  <2> QED BY <1>1, <1>2, <2>1, LetInKept
<1>6. \A g \in Groups : GroupFits(g)'
  BY <1>2, GroupKept DEF World
<1>7. \A e \in DOMAIN events' : EventFits(e)'
  BY <1>2, EventKept DEF World
<1>8. ASSUME NEW p \in Peers PROVE PeerFits(p)'
  <2>1. CASE peers'[p] = None /\ inbound'[p] = None
    BY <2>1 DEF PeerFits
  <2>2. CASE (peers'[p] = None <=> peers[p] = None) /\ inbound'[p] = inbound[p]
    BY <1>2, <2>2, PeerKept DEF World
  <2> QED BY <2>1, <2>2
<1> QED BY <1>2, <1>3, <1>4, <1>5, <1>6, <1>7, <1>8 DEF Keeps, World

LEMMA RemoveKeeps ==
  ASSUME Constants, Tables, World, NEW h \in Handler, h.row \in Peers, removePeer(h)
  PROVE  Keeps
<1>1. /\ peers' = [peers EXCEPT ![h.row] = None] /\ inbound' = [inbound EXCEPT ![h.row] = None]
      /\ UNCHANGED <<orgs, members, owner, invites, events>>
  BY DEF removePeer
<1>2. peers' \in [Peers -> BOOLEAN \cup {None}] /\ inbound' \in [Peers -> Groups \cup {None}]
  BY <1>1 DEF Tables
<1>3. \A p \in Peers : \/ peers'[p] = None /\ inbound'[p] = None
                       \/ (peers'[p] = None <=> peers[p] = None) /\ inbound'[p] = inbound[p]
  BY <1>1 DEF Tables
<1> QED BY <1>1, <1>2, <1>3, PeerRowsKeep

LEMMA PublishKeeps ==
  ASSUME Constants, Tables, World, NEW h \in Handler, h.row \in Peers, publishPeer(h)
  PROVE  Keeps
<1>0. UNCHANGED <<orgs, members, owner, invites, events, inbound>>
  BY DEF publishPeer
<1>1. PICK b \in BOOLEAN : peers[h.row] # None => b = ~peers[h.row]
  <2>1. peers[h.row] # None => peers[h.row] \in BOOLEAN
    BY DEF Tables
  <2>2. CASE peers[h.row] = TRUE
    BY <2>2
  <2>3. CASE peers[h.row] = FALSE
    BY <2>3
  <2>4. CASE peers[h.row] = None
    BY <2>4
  <2> QED BY <2>1, <2>2, <2>3, <2>4
<1>2. peers' = IF peers[h.row] = None THEN peers ELSE [peers EXCEPT ![h.row] = b]
  BY <1>1 DEF publishPeer
<1>3. peers' \in [Peers -> BOOLEAN \cup {None}] /\ inbound' \in [Peers -> Groups \cup {None}]
  BY <1>0, <1>2 DEF Tables
<1>4. \A p \in Peers : (peers'[p] = None <=> peers[p] = None) /\ inbound'[p] = inbound[p]
  <2>1. b # None
    BY NoneApart
  <2> QED BY <1>0, <1>2, <2>1 DEF Tables
<1> QED BY <1>0, <1>3, <1>4, PeerRowsKeep

LEMMA WritesKeep ==
  ASSUME Constants, Tables, World, NEW h \in Handler, Fits(h), h.at = "write", writes(h)
  PROVE  Keeps
<1>1. CASE h.op = "accept" /\ redeem(h)
  BY <1>1, RedeemKeeps DEF Fits
<1>2. CASE h.op = "invite" /\ issue(h)
  BY <1>2, IssueKeeps DEF Fits
<1>3. CASE h.op = "group" /\ createGroup(h)
  BY <1>3, CreateKeeps DEF Fits
<1>4. CASE h.op = "event" /\ insertEvent(h)
  BY <1>4, InsertKeeps DEF Fits
<1>5. CASE h.op = "register" /\ registerPeer(h)
  BY <1>5, RegisterKeeps DEF Fits
<1>6. CASE h.op = "remove" /\ removePeer(h)
  BY <1>6, RemoveKeeps DEF Fits
<1>7. CASE h.op = "publish" /\ publishPeer(h)
  BY <1>7, PublishKeeps DEF Fits
<1> QED BY <1>1, <1>2, <1>3, <1>4, <1>5, <1>6, <1>7 DEF writes

(* ----------------------------------------------------------------- the steps --- *)

\* One request steps: the others' rows are still what they read.
LEMMA Steps ==
  ASSUME Constants, IInv, Keeps, NEW r \in Slots, NEW x \in Handler \cup {None},
         req' = [req EXCEPT ![r] = x], x # None => Fits(x)', Shown',
         requests' \in 0..MaxRequests, faults' \in 0..MaxFaults
  PROVE  IInv'
<1>1. Typed'
  BY DEF IInv, Typed, Keeps
<1>2. ASSUME NEW q \in Slots, req'[q] # None PROVE Fits(req[q])'
  <2>1. CASE q = r
    <3>1. req'[q] = x
      BY <2>1 DEF IInv, Typed
    <3>2. Fits(x)'
      BY <1>2, <3>1
    <3> QED BY <3>1, <3>2
  <2>2. CASE q # r
    <3>1. PICK h : h = req[q]
      OBVIOUS
    <3>2. req'[q] = h
      BY <2>2, <3>1 DEF IInv, Typed
    <3>3. h \in Handler /\ Fits(h)
      BY <1>2, <3>1, <3>2 DEF IInv, Typed, Handlers
    <3>4. Fits(h)'
      BY <3>3, FitsKept DEF Keeps
    <3> QED BY <3>2, <3>4
  <2> QED BY <2>1, <2>2
<1> QED BY <1>1, <1>2 DEF IInv, Keeps, Handlers

\* A step that writes no table.
LEMMA ReadsKeep ==
  ASSUME Constants, IInv, UNCHANGED <<tables, requests, faults>>, NEW r \in Slots,
         NEW x \in Handler \cup {None}, req' = [req EXCEPT ![r] = x], x # None => Fits(x), Shown'
  PROVE  IInv'
<1>0. UNCHANGED tables
  OBVIOUS
<1>1. Keeps
  BY <1>0, StandStill DEF IInv, Typed, Keeps
<1>2. x # None => Fits(x)'
  BY <1>1, FitsKept DEF Keeps
<1>3. requests' \in 0..MaxRequests /\ faults' \in 0..MaxFaults
  BY DEF IInv, Typed
<1> QED BY <1>1, <1>2, <1>3, Steps

\* What was shown stays shown to whom it may be.
LEMMA ShownStays ==
  ASSUME IInv, Keeps, shown' = shown
  PROVE  Shown'
BY ShownKept DEF IInv, Shown, Keeps

LEMMA AnswerFits ==
  ASSUME IInv, UNCHANGED <<tables, requests, faults>>, NEW h \in Handler, NEW ns, answers(h, ns),
         h.due \subseteq ns, ns \subseteq visible(h.org, groupsOf(h.org))
  PROVE  Shown'
<1>0. UNCHANGED tables
  OBVIOUS
<1>1. Grown
  BY <1>0, StandStill
<1>2. PICK s : s = [org |-> h.org, events |-> ns, due |-> h.due]
  OBVIOUS
<1>3. shown' = shown \cup {s}
  BY <1>2 DEF answers
<1>4. ShownFits(s)
  BY <1>2 DEF ShownFits
<1>5. \A a \in shown \cup {s} : ShownFits(a)'
  BY <1>1, <1>4, ShownKept DEF IInv, Shown
<1> QED BY <1>3, <1>5 DEF Shown

LEMMA BeginKeeps ==
  ASSUME Constants, IInv, NEW r \in Slots, NEW h \in Handler, Fits(h),
         req' = [req EXCEPT ![r] = h], requests < MaxRequests, requests' = requests + 1,
         UNCHANGED <<tables, shown, faults>>
  PROVE  IInv'
<1>0. UNCHANGED tables /\ shown' = shown
  OBVIOUS
<1>1. Keeps
  BY <1>0, StandStill DEF IInv, Typed, Keeps
<1>2. Fits(h)'
  BY <1>1, FitsKept DEF Keeps
<1>3. Shown'
  BY <1>0, <1>1, ShownStays
<1>4. requests' \in 0..MaxRequests /\ faults' \in 0..MaxFaults
  BY DEF IInv, Typed, Constants
<1> QED BY <1>1, <1>2, <1>3, <1>4, Steps

LEMMA RequestsKeep ==
  ASSUME Constants, IInv, NEW r \in Slots,
         \/ postAccept(r)
         \/ \E o \in orgs \cap (Founders \cup Newcomers) :
              \/ postSharingGroup(r, o) \/ getEvent(r, o) \/ restSearch(r, o)
              \/ \E g \in Groups \cup {None} : postInvite(r, o, g) \/ postEvent(r, o, g)
         \/ \E p \in Peers : deletePeer(r, p) \/ patchPeer(r, p) \/ \E g \in Groups : postPeer(r, p, g)
  PROVE  IInv'
<1> DEFINE new(op, at, o, g, row) ==
      [op |-> op, at |-> at, org |-> o, group |-> g, row |-> row, groups |-> {}, due |-> {}, saw |-> 0]
<1>0. Tables /\ orgs \subseteq AllOrgs
  BY DEF IInv, Typed, Tables
<1>1. ASSUME NEW op \in Ops, NEW at \in Points, NEW o \in AllOrgs \cup {None}, NEW g \in Groups \cup {None},
             NEW row \in Nat \cup Peers \cup {None}, begin(r, op, at, o, g, row),
             \A h \in Handler : h = new(op, at, o, g, row) => Fits(h)
      PROVE  IInv'
  <2>1. PICK h \in Handler : h = new(op, at, o, g, row)
    BY <1>1 DEF Handler
  <2>2. req' = [req EXCEPT ![r] = h]
    BY <1>1, <2>1 DEF begin
  <2>3. requests < MaxRequests /\ requests' = requests + 1 /\ UNCHANGED <<tables, shown, faults>>
    BY <1>1 DEF begin
  <2> QED BY <1>1, <2>1, <2>2, <2>3, BeginKeeps
<1>2. CASE postAccept(r)
  <2>1. PICK i \in DOMAIN invites : begin(r, "accept", "read", None, None, i)
    BY <1>2 DEF postAccept
  <2>2. i \in Nat
    BY <1>0 DEF Tables
  <2>3. \A h \in Handler : h = new("accept", "read", None, None, i) => Fits(h)
    BY DEF Fits
  <2> QED BY <1>1, <2>1, <2>2, <2>3 DEF Ops, Points
<1>3. ASSUME NEW o \in orgs, NEW g \in Groups \cup {None}, postInvite(r, o, g) \/ postEvent(r, o, g)
      PROVE  IInv'
  <2>1. PICK op \in {"invite", "event"}, at \in {"check", "write"} :
          begin(r, op, at, o, g, None) /\ (at = "write" => g = None)
    BY <1>3 DEF postInvite, postEvent
  <2>2. \A h \in Handler : h = new(op, at, o, g, None) => Fits(h)
    BY <2>1 DEF Fits
  <2> QED BY <1>0, <1>1, <2>1, <2>2 DEF Ops, Points
<1>4. ASSUME NEW o \in orgs, postSharingGroup(r, o) PROVE IInv'
  <2>1. \A h \in Handler : h = new("group", "write", o, None, None) => Fits(h)
    BY DEF Fits
  <2> QED BY <1>0, <1>1, <1>4, <2>1 DEF Ops, Points, postSharingGroup
<1>5. ASSUME NEW o \in orgs, getEvent(r, o) PROVE IInv'
  <2>1. PICK n \in DOMAIN events : begin(r, "get", "read", o, None, n)
    BY <1>5 DEF getEvent
  <2>2. n \in Nat
    BY <1>0 DEF Tables
  <2>3. \A h \in Handler : h = new("get", "read", o, None, n) => Fits(h)
    BY DEF Fits
  <2> QED BY <1>0, <1>1, <2>1, <2>2, <2>3 DEF Ops, Points
<1>6. ASSUME NEW o \in orgs, restSearch(r, o) PROVE IInv'
  <2>1. \A h \in Handler : h = new("search", "read", o, None, None) => Fits(h)
    BY DEF Fits
  <2> QED BY <1>0, <1>1, <1>6, <2>1 DEF Ops, Points, restSearch
<1>7. ASSUME NEW p \in Peers, deletePeer(r, p) \/ patchPeer(r, p) PROVE IInv'
  <2>1. PICK op \in {"remove", "publish"} : begin(r, op, "read", None, None, p)
    BY <1>7 DEF deletePeer, patchPeer
  <2>2. \A h \in Handler : h = new(op, "read", None, None, p) => Fits(h)
    BY DEF Fits
  <2> QED BY <1>1, <2>1, <2>2 DEF Ops, Points
<1>8. ASSUME NEW p \in Peers, NEW g \in Groups, postPeer(r, p, g) PROVE IInv'
  <2>1. \A h \in Handler : h = new("register", "check", None, g, p) => Fits(h)
    BY DEF Fits
  <2> QED BY <1>1, <1>8, <2>1 DEF Ops, Points, postPeer
<1> QED BY <1>2, <1>3, <1>4, <1>5, <1>6, <1>7, <1>8

LEMMA AtHand ==
  ASSUME IInv, NEW r \in Slots, req[r] # None
  PROVE  req[r] \in Handler /\ Fits(req[r]) /\ req[r].op \in Ops
<1>1. req[r] \in Handler /\ Fits(req[r])
  BY DEF IInv, Typed, Handlers
<1> QED BY <1>1 DEF Handler

\* A handler moved on is a handler.
LEMMA Moved ==
  ASSUME NEW h \in Handler, NEW at \in Points
  PROVE  LET x == [h EXCEPT !.at = at] IN
         /\ x \in Handler /\ x.op = h.op /\ x.at = at /\ x.org = h.org /\ x.group = h.group
         /\ x.row = h.row /\ x.groups = h.groups /\ x.due = h.due /\ x.saw = h.saw
BY DEF Handler

LEMMA EndKeeps ==
  ASSUME Constants, IInv, NEW r \in Slots, ends(r), UNCHANGED <<tables, requests, faults>>, Shown'
  PROVE  IInv'
<1>1. req' = [req EXCEPT ![r] = None]
  BY DEF ends
<1> QED BY <1>1, ReadsKeep

LEMMA ReadKeeps ==
  ASSUME Constants, IInv, NEW r \in Slots, readRow(r)
  PROVE  IInv'
<1>1. PICK h : h = req[r]
  OBVIOUS
<1>2. h \in Handler /\ Fits(h) /\ h.op \in Ops /\ h.at = "read" /\ UNCHANGED <<tables, requests, faults>>
  BY <1>1, AtHand DEF readRow, waits
<1>3. UNCHANGED tables
  BY <1>2
<1>4. shown' = shown => Shown'
  <2>1. Keeps
    BY <1>3, StandStill DEF IInv, Typed, Keeps
  <2> QED BY <2>1, ShownStays
<1>5. shown' = shown /\ ends(r) => IInv'
  BY <1>2, <1>4, EndKeeps
<1>6. ASSUME NEW x \in Handler, shown' = shown, goes(r, x), Fits(x) PROVE IInv'
  <2>1. req' = [req EXCEPT ![r] = x]
    BY <1>6 DEF goes
  <2> QED BY <1>2, <1>4, <1>6, <2>1, ReadsKeep
<1>7. CASE h.op = "accept"
  <2>1. /\ shown' = shown
        /\ IF invites[h.row].state = "open"
           THEN goes(r, [h EXCEPT !.at = "write", !.saw = Len(invites[h.row].joined)]) ELSE ends(r)
    BY <1>1, <1>7 DEF readRow
  <2>2. CASE invites[h.row].state = "open"
    <3>1. h.row \in DOMAIN invites /\ InviteFits(h.row)
      BY <1>2, <1>7 DEF Fits, IInv, World
    <3>2. invites[h.row].joined = <<>>
      BY <2>2, <3>1 DEF InviteFits
    <3>3. PICK x : x = [h EXCEPT !.at = "write", !.saw = 0]
      OBVIOUS
    <3>4. x \in Handler /\ x.op = "accept" /\ x.at = "write" /\ x.row = h.row /\ x.saw = 0
      BY <1>2, <1>7, <3>3 DEF Handler, Points
    <3>5. goes(r, x)
      BY <2>1, <2>2, <3>2, <3>3
    <3>6. Fits(x)
      BY <3>1, <3>4 DEF Fits
    <3> QED BY <1>6, <2>1, <3>4, <3>5, <3>6
  <2>3. CASE invites[h.row].state # "open"
    BY <1>5, <2>1, <2>3
  <2> QED BY <2>2, <2>3
<1>8. CASE h.op = "get"
  <2>1. IF events[h.row].org = h.org THEN answers(h, {h.row}) /\ ends(r)
        ELSE /\ shown' = shown
             /\ IF events[h.row].group = None THEN ends(r)
                ELSE goes(r, [h EXCEPT !.at = "check", !.group = events[h.row].group])
    BY <1>1, <1>8 DEF readRow
  <2>2. h.row \in DOMAIN events /\ h.due = {}
    BY <1>2, <1>8 DEF Fits
  <2>3. CASE events[h.row].org = h.org
    <3>1. {h.row} \subseteq visible(h.org, groupsOf(h.org)) /\ h.due \subseteq {h.row}
      BY <2>2, <2>3 DEF visible
    <3>2. answers(h, {h.row}) /\ ends(r)
      BY <2>1, <2>3
    <3>3. Shown'
      BY <1>2, <3>1, <3>2, AnswerFits
    <3> QED BY <1>2, <3>2, <3>3, EndKeeps
  <2>4. CASE events[h.row].org # h.org /\ events[h.row].group = None
    BY <1>5, <2>1, <2>4
  <2>5. CASE events[h.row].org # h.org /\ events[h.row].group # None
    <3>1. PICK g : g = events[h.row].group
      OBVIOUS
    <3>2. g \in Groups
      <4>1. events[h.row] \in Event
        BY <2>2 DEF IInv, Typed, Tables
      <4> QED BY <2>5, <3>1, <4>1 DEF Event
    <3>3. PICK x : x = [h EXCEPT !.at = "check", !.group = g]
      OBVIOUS
    <3>4. /\ x \in Handler /\ x.op = "get" /\ x.at = "check" /\ x.row = h.row /\ x.group = g /\ x.due = h.due
      BY <1>2, <1>8, <3>2, <3>3 DEF Handler, Points
    <3>5. goes(r, x) /\ shown' = shown
      BY <2>1, <2>5, <3>1, <3>3
    <3>6. Fits(x)
      BY <2>2, <2>5, <3>1, <3>4 DEF Fits
    <3> QED BY <1>6, <3>4, <3>5, <3>6
  <2> QED BY <2>3, <2>4, <2>5
<1>9. CASE h.op = "search"
  <2>1. /\ shown' = shown
        /\ goes(r, [h EXCEPT !.at = "select", !.groups = groupsOf(h.org), !.due = visible(h.org, groupsOf(h.org))])
    BY <1>1, <1>9 DEF readRow
  <2>2. PICK gs : gs = groupsOf(h.org)
    OBVIOUS
  <2>3. PICK due : due = visible(h.org, gs)
    OBVIOUS
  <2>4. PICK x : x = [h EXCEPT !.at = "select", !.groups = gs, !.due = due]
    OBVIOUS
  <2>5. gs \in SUBSET Groups /\ due \in SUBSET Nat
    <3>1. \A n \in DOMAIN events : n \in Nat
      BY DEF IInv, Typed, Tables
    <3> QED BY <2>2, <2>3, <3>1 DEF groupsOf, visible
  <2>6. x \in Handler /\ x.op = "search" /\ x.at = "select" /\ x.org = h.org /\ x.groups = gs /\ x.due = due
    BY <1>2, <1>9, <2>4, <2>5 DEF Handler, Points
  <2>7. goes(r, x) /\ shown' = shown
    BY <2>1, <2>2, <2>3, <2>4
  <2>8. Fits(x)
    BY <2>2, <2>3, <2>6 DEF Fits
  <2> QED BY <1>6, <2>6, <2>7, <2>8
<1>10. CASE h.op \in {"remove", "publish"}
  <2>1. shown' = shown /\ IF inbound[h.row] = None THEN ends(r) ELSE goes(r, [h EXCEPT !.at = "write"])
    BY <1>1, <1>10 DEF readRow
  <2>2. PICK x : x = [h EXCEPT !.at = "write"]
    OBVIOUS
  <2>3. x \in Handler /\ x.op = h.op /\ x.at = "write" /\ x.row = h.row
    BY <1>2, <2>2 DEF Handler, Points
  <2>4. Fits(x)
    BY <1>2, <1>10, <2>3 DEF Fits
  <2>5. ends(r) \/ goes(r, x)
    BY <2>1, <2>2
  <2> QED BY <1>5, <1>6, <2>1, <2>3, <2>4, <2>5
<1>11. h.op \in {"accept", "get", "search", "remove", "publish"}
  BY <1>2 DEF Fits, Ops
<1> QED BY <1>7, <1>8, <1>9, <1>10, <1>11

LEMMA CheckKeeps ==
  ASSUME Constants, IInv, NEW r \in Slots, checkGroup(r)
  PROVE  IInv'
<1>1. PICK h : h = req[r]
  OBVIOUS
<1>2. h \in Handler /\ Fits(h) /\ h.op \in Ops /\ h.at = "check" /\ UNCHANGED <<tables, requests, faults>>
  BY <1>1, AtHand DEF checkGroup, waits
<1>3. UNCHANGED tables
  BY <1>2
<1>4. shown' = shown => Shown'
  <2>1. Keeps
    BY <1>3, StandStill DEF IInv, Typed, Keeps
  <2> QED BY <2>1, ShownStays
<1>5. shown' = shown /\ ends(r) => IInv'
  BY <1>2, <1>4, EndKeeps
<1>6. PICK x : x = [h EXCEPT !.at = "write"]
  OBVIOUS
<1>7. x \in Handler /\ x.op = h.op /\ x.at = "write" /\ x.org = h.org /\ x.group = h.group /\ x.row = h.row
  BY <1>2, <1>6 DEF Handler, Points
<1>8. ASSUME shown' = shown, goes(r, [h EXCEPT !.at = "write"]), Fits(x) PROVE IInv'
  <2>1. req' = [req EXCEPT ![r] = x]
    BY <1>6, <1>8 DEF goes
  <2> QED BY <1>2, <1>4, <1>7, <1>8, <2>1, ReadsKeep
<1>9. CASE h.op = "get"
  <2>1. ends(r) /\ IF h.group \in groupsOf(h.org) THEN answers(h, {h.row}) ELSE shown' = shown
    BY <1>1, <1>9 DEF checkGroup
  <2>2. CASE h.group \in groupsOf(h.org)
    <3>1. h.row \in DOMAIN events /\ h.due = {} /\ h.group = events[h.row].group
      BY <1>2, <1>9 DEF Fits
    <3>2. {h.row} \subseteq visible(h.org, groupsOf(h.org)) /\ h.due \subseteq {h.row}
      BY <2>2, <3>1 DEF visible
    <3>3. answers(h, {h.row})
      BY <2>1, <2>2
    <3>4. Shown'
      BY <1>2, <3>2, <3>3, AnswerFits
    <3> QED BY <1>2, <2>1, <3>4, EndKeeps
  <2>3. CASE h.group \notin groupsOf(h.org)
    BY <1>5, <2>1, <2>3
  <2> QED BY <2>2, <2>3
<1>10. CASE h.op = "register"
  <2>1. shown' = shown /\ ((members[h.group] # None /\ goes(r, [h EXCEPT !.at = "write"])) \/ ends(r))
    BY <1>1, <1>10 DEF checkGroup
  <2>2. members[h.group] # None => Fits(x)
    BY <1>2, <1>7, <1>10 DEF Fits
  <2> QED BY <1>5, <1>8, <2>1, <2>2
<1>11. CASE h.op \in {"invite", "event"}
  <2>1. shown' = shown /\ IF h.group \in groupsOf(h.org) THEN goes(r, [h EXCEPT !.at = "write"]) ELSE ends(r)
    BY <1>1, <1>11 DEF checkGroup
  <2>2. h.group \in groupsOf(h.org) => Fits(x)
    BY <1>2, <1>7, <1>11 DEF Fits
  <2> QED BY <1>5, <1>8, <2>1, <2>2
<1>12. h.op \in {"get", "register", "invite", "event"}
  BY <1>2 DEF Fits, Ops
<1> QED BY <1>9, <1>10, <1>11, <1>12

LEMMA SelectKeeps ==
  ASSUME Constants, IInv, NEW r \in Slots, selectEvents(r)
  PROVE  IInv'
<1>1. PICK h : h = req[r]
  OBVIOUS
<1>2. /\ h \in Handler /\ Fits(h) /\ h.op \in Ops /\ h.at = "select" /\ UNCHANGED <<tables, requests, faults>>
      /\ answers(h, visible(h.org, h.groups)) /\ ends(r)
  BY <1>1, AtHand DEF selectEvents, waits
<1>3. h.groups \subseteq groupsOf(h.org) /\ h.due \subseteq visible(h.org, h.groups)
  BY <1>2 DEF Fits, Ops
<1>4. visible(h.org, h.groups) \subseteq visible(h.org, groupsOf(h.org))
  BY <1>3 DEF visible
<1>5. Shown'
  BY <1>2, <1>3, <1>4, AnswerFits
<1> QED BY <1>2, <1>5, EndKeeps

LEMMA WriteKeeps ==
  ASSUME Constants, IInv, NEW r \in Slots, writeRows(r) \/ fails(r)
  PROVE  IInv'
<1>1. PICK h : h = req[r]
  OBVIOUS
<1>2. req[r] # None /\ req' = [req EXCEPT ![r] = None] /\ shown' = shown
  BY DEF writeRows, fails, waits, ends
<1>3. h \in Handler /\ Fits(h)
  BY <1>1, <1>2, AtHand
<1>4. requests' \in 0..MaxRequests /\ faults' \in 0..MaxFaults
  BY DEF IInv, Typed, Constants, writeRows, fails
<1>5. UNCHANGED tables \/ (h.at = "write" /\ writes(h))
  BY <1>1 DEF writeRows, fails, waits
<1>6. Keeps
  <2>1. Tables /\ World
    BY DEF IInv, Typed
  <2>2. CASE UNCHANGED tables
    BY <2>1, <2>2, StandStill DEF Keeps
  <2>3. CASE h.at = "write" /\ writes(h)
    BY <1>3, <2>1, <2>3, WritesKeep
  <2> QED BY <1>5, <2>2, <2>3
<1>7. Shown'
  BY <1>2, <1>6, ShownStays
<1> QED BY <1>2, <1>4, <1>6, <1>7, Steps

LEMMA ExpireKeeps ==
  ASSUME Constants, IInv, NEW n \in DOMAIN invites, expire(n)
  PROVE  IInv'
<1>0. /\ Tables /\ World /\ UNCHANGED <<orgs, members, owner, events, peers, inbound, req, shown, requests, faults>>
      /\ invites[n].state = "open" /\ invites' = [invites EXCEPT ![n].state = "expired"]
  BY DEF IInv, Typed, expire
<1>1. PICK v : v = invites[n]
  OBVIOUS
<1>2. PICK w : w = [v EXCEPT !.state = "expired"]
  OBVIOUS
<1>3. v \in Invite
  BY <1>0, <1>1 DEF Tables
<1>4. w \in Invite /\ w.group = v.group /\ w.by = v.by /\ w.joined = v.joined /\ w.state = "expired"
  BY <1>2, <1>3 DEF Invite
<1>5. /\ invites' \in Seq(Invite) /\ DOMAIN invites' = DOMAIN invites
      /\ invites'[n] = w /\ \A i \in DOMAIN invites \ {n} : invites'[i] = invites[i]
  <2>1. invites \in Seq(Invite) /\ n \in 1 .. Len(invites) /\ DOMAIN invites = 1 .. Len(invites)
    BY <1>0 DEF Tables
  <2>2. invites' = [invites EXCEPT ![n] = w]
    BY <1>0, <1>1, <1>2
  <2>3. /\ invites' \in Seq(Invite) /\ Len(invites') = Len(invites)
        /\ \A i \in 1 .. Len(invites) : invites'[i] = IF i = n THEN w ELSE invites[i]
    BY <1>4, <2>1, <2>2, ExceptSeq
  <2>4. DOMAIN invites' = 1 .. Len(invites')
    BY <2>3
  <2> QED BY <2>1, <2>3, <2>4
<1>6. \A i \in DOMAIN invites : joinedBy(i)' = joinedBy(i)
  BY <1>1, <1>4, <1>5 DEF joinedBy
<1>7. Grown
  <2>1. \A i \in DOMAIN invites : i \in DOMAIN invites' /\ invites'[i].group = invites[i].group
                                  /\ invites'[i].by = invites[i].by
    BY <1>1, <1>4, <1>5
  <2> QED BY <1>0, <1>6, <2>1 DEF Grown
<1>8. Tables'
  BY <1>0, <1>5 DEF Tables
<1>9. ASSUME NEW i \in DOMAIN invites' PROVE InviteFits(i)'
  <2>0. i \in DOMAIN invites /\ InviteFits(i)
    BY <1>0, <1>5, <1>9 DEF World
  <2>1. CASE i # n
    BY <1>0, <1>5, <1>7, <2>0, <2>1, InviteKept
  <2>2. CASE i = n
    <3>1. v.joined = <<>> /\ v.by \in orgs /\ (v.group # None => members[v.group] # None /\ v.by \in members[v.group])
      BY <1>0, <1>1, <2>0, <2>2 DEF InviteFits
    <3>2. joinedBy(n)' \subseteq orgs'
      BY <1>0, <1>6, <2>0, <2>2 DEF InviteFits
    <3> QED BY <1>0, <1>4, <1>5, <2>2, <3>1, <3>2 DEF InviteFits
  <2> QED BY <2>1, <2>2
<1>10. ASSUME NEW x \in orgs' \cap Newcomers PROVE LetIn(x)'
  <2>1. LetIn(x)
    BY <1>0 DEF World
  <2> QED BY <1>5, <1>6, <1>7, <2>1, LetInKept
<1>11. \A g \in Groups : GroupFits(g)'
  BY <1>0, <1>7, GroupKept DEF World
<1>12. \A e \in DOMAIN events' : EventFits(e)'
  BY <1>0, <1>7, EventKept DEF World
<1>13. \A p \in Peers : PeerFits(p)'
  BY <1>0, <1>7, PeerKept DEF World
<1>14. Keeps
  BY <1>7, <1>8, <1>9, <1>10, <1>11, <1>12, <1>13 DEF Keeps, World
<1>15. Shown'
  BY <1>0, <1>14, ShownStays
<1>16. Typed'
  BY <1>0, <1>8 DEF IInv, Typed
<1>17. ASSUME NEW q \in Slots, req'[q] # None PROVE Fits(req[q])'
  <2>1. PICK h : h = req[q]
    OBVIOUS
  <2>2. h \in Handler /\ Fits(h) /\ req'[q] = h
    BY <1>0, <1>17, <2>1 DEF IInv, Typed, Handlers
  <2>3. Fits(h)'
    BY <1>7, <2>2, FitsKept
  <2> QED BY <2>2, <2>3
<1> QED BY <1>14, <1>15, <1>16, <1>17 DEF IInv, Keeps, Handlers

(* --------------------------------------------------------------- the theorem --- *)

LEMMA InitHolds ==
  ASSUME Constants, Init
  PROVE  IInv
<1>1. Tables
  <2>1. <<>> \in Seq(Invite) /\ <<>> \in Seq(Event)
    OBVIOUS
  <2> QED BY <2>1 DEF Init, Tables, AllOrgs
<1>2. Typed
  BY <1>1 DEF Init, Typed, Constants
<1>3. World
  BY DEF Init, World, Constants, GroupFits, PeerFits
<1> QED BY <1>2, <1>3 DEF Init, IInv, Shown, Handlers

LEMMA NextKeeps ==
  ASSUME Constants, IInv, [Next]_vars
  PROVE  IInv'
<1>1. CASE \E r \in Slots :
             \/ postAccept(r)
             \/ \E o \in orgs \cap (Founders \cup Newcomers) :
                  \/ postSharingGroup(r, o) \/ getEvent(r, o) \/ restSearch(r, o)
                  \/ \E g \in Groups \cup {None} : postInvite(r, o, g) \/ postEvent(r, o, g)
             \/ \E p \in Peers : deletePeer(r, p) \/ patchPeer(r, p) \/ \E g \in Groups : postPeer(r, p, g)
  BY <1>1, RequestsKeep
<1>2. CASE \E r \in Slots : readRow(r) \/ checkGroup(r) \/ selectEvents(r) \/ writeRows(r) \/ fails(r)
  BY <1>2, ReadKeeps, CheckKeeps, SelectKeeps, WriteKeeps
<1>3. CASE \E n \in DOMAIN invites : expire(n)
  BY <1>3, ExpireKeeps
<1>4. CASE UNCHANGED vars
  <2>1. UNCHANGED <<tables, req, shown, requests, faults>> /\ UNCHANGED tables
    BY <1>4 DEF vars, tables
  <2>2. Keeps
    BY <2>1, StandStill DEF IInv, Typed, Keeps
  <2>3. Shown'
    BY <2>1, <2>2, ShownStays
  <2>4. Typed'
    BY <2>1, <2>2 DEF IInv, Typed, Keeps
  <2>5. ASSUME NEW q \in Slots, req'[q] # None PROVE Fits(req[q])'
    <3>1. PICK h : h = req[q]
      OBVIOUS
    <3>2. h \in Handler /\ Fits(h) /\ req'[q] = h
      BY <2>1, <2>5, <3>1 DEF IInv, Typed, Handlers
    <3>3. Fits(h)'
      BY <2>2, <3>2, FitsKept DEF Keeps
    <3> QED BY <3>2, <3>3
  <2> QED BY <2>2, <2>3, <2>4, <2>5 DEF IInv, Keeps, Handlers
<1> QED BY <1>1, <1>2, <1>3, <1>4 DEF Next

LEMMA Sound ==
  ASSUME Constants, IInv
  PROVE  TypeOK /\ MembersSound
<1>0. Typed /\ Tables /\ World /\ Shown
  BY DEF IInv, Typed
<1>1. InvitedOnce
  <2>1. ASSUME NEW o \in orgs \cap Newcomers PROVE Cardinality({i \in DOMAIN invites : o \in joinedBy(i)}) = 1
    <3>1. PICK i \in DOMAIN invites : OnlyBy(o, i)
      BY <1>0 DEF World, LetIn
    <3>2. {j \in DOMAIN invites : o \in joinedBy(j)} = {i}
      BY <3>1 DEF OnlyBy
    <3> QED BY <3>2, FS_Singleton
  <2>2. ASSUME NEW i \in DOMAIN invites
        PROVE  /\ (invites[i].joined # <<>>) <=> (invites[i].state = "used")
               /\ \A k \in DOMAIN invites[i].joined : invites[i].joined[k].saw = 0
    BY <1>0 DEF World, InviteFits
  <2> QED BY <2>1, <2>2 DEF InvitedOnce
<1>2. MembersVouchedFor
  BY <1>0 DEF World, GroupFits, VouchedFor, MembersVouchedFor
<1>3. ShownToMembers
  BY <1>0 DEF World, Shown, ShownFits, EventFits, ShownToMembers
<1>4. PeersWhole
  BY <1>0 DEF World, PeerFits, PeersWhole
<1>5. TypeOK
  <2>1. \A g \in Groups : members[g] = None \/ members[g] \subseteq orgs
    BY <1>0 DEF World, GroupFits
  <2>2. ASSUME NEW i \in DOMAIN invites PROVE invites[i].state \in {"open", "used", "expired"}
    <3>1. invites[i] \in Invite
      BY <1>0 DEF Tables
    <3> QED BY <3>1 DEF Invite
  <2>3. \A n \in DOMAIN events : events[n].org \in orgs
    BY <1>0 DEF World, EventFits
  <2>4. ASSUME NEW r \in Slots, req[r] # None PROVE req[r].at \in {"read", "check", "select", "write"}
    <3>1. req[r] \in Handler
      BY <1>0, <2>4 DEF Typed
    <3> QED BY <3>1 DEF Handler, Points
  <2>5. \A p \in Peers : peers[p] \in BOOLEAN \cup {None} /\ inbound[p] \in Groups \cup {None}
    BY <1>0 DEF Tables
  <2>6. requests <= MaxRequests /\ faults <= MaxFaults /\ orgs \subseteq AllOrgs
    BY <1>0 DEF Typed, Tables, Constants
  <2> QED BY <2>1, <2>2, <2>3, <2>4, <2>5, <2>6 DEF TypeOK
<1> QED BY <1>1, <1>2, <1>3, <1>4, <1>5 DEF MembersSound

\* However requests overlap, fail or lose their answer: an organisation that an
\* invite let in used that one alone and found it unredeemed; who is in a group
\* made it, came with a peer, or was invited by a member; no search or lookup
\* answers with an event of another's group; and a peer has both its rows or
\* neither.
THEOREM MembersStaySound == ASSUME Constants PROVE Spec => [](TypeOK /\ MembersSound)
<1>1. Init => IInv
  BY InitHolds
<1>2. IInv /\ [Next]_vars => IInv'
  BY NextKeeps
<1>3. IInv => TypeOK /\ MembersSound
  BY Sound
<1> QED BY <1>1, <1>2, <1>3, PTL DEF Spec

-----------------------------------------------------------------------------
(* What a domain keeps of its catch-all, and reports to the hub: CatchallIntel. *)

CONSTANTS Probes, Retention, SampleLimit, AlertThreshold, Window, HubThreshold, ScanThreshold,
          AutoReport, MaxTime, MaxFailures
VARIABLES now, flight, stamp, rollup, localparts, recent, alerts, hub, failures
Catch == INSTANCE CatchallIntel WITH faults <- failures, MaxFaults <- MaxFailures

Facts == [auth : Nat, url : Nat, feed : {"none", "bloom", "confirmed"}, ip : BOOLEAN,
          cti : {"none", "suspicious", "malicious"}, drop : BOOLEAN]
\* What the constants are: a domain's limits are positive (domain-settings.ts),
\* None is nothing else.
CatchallConstants ==
  /\ \A i \in Catch!Ids : Probes[i].facts \in Facts
  /\ {Retention, SampleLimit, AlertThreshold, Window} \subseteq Nat \ {0}
  /\ MaxTime \in Nat /\ MaxFailures \in Nat /\ None \notin Catch!Ids \cup Catch!Rollup

PartsOf(s) == {l \in localparts : l.source = s}
\* Alerts are in the past; two for a source are a window apart.
AlertsFit == Catch!AlertsDebounced /\ \A a \in alerts : a.at <= now
\* A local part is on file once, and not after its source's last mail.
PartsFit ==
  /\ IsFiniteSet(localparts)
  /\ \A l \in localparts : rollup[l.source] # None /\ l.seen <= rollup[l.source].seen
  /\ \A l, m \in localparts : l.source = m.source /\ l.localpart = m.localpart => l = m
Counts(s) ==
  /\ rollup[s].seen <= now
  /\ \E l \in localparts : l.source = s /\ l.seen = rollup[s].seen
  /\ Cardinality(PartsOf(s)) <= rollup[s].distinct /\ rollup[s].distinct <= rollup[s].count
  /\ \E i \in Catch!Ids : Probes[i].source = s /\ rollup[s].max = Catch!score(i)
CountsFit == \A s \in Catch!Sources : rollup[s] # None => Counts(s)
Alerted ==
  \A s \in Catch!Sources : Cardinality(PartsOf(s)) >= AlertThreshold =>
    \E a \in alerts : a.source = s /\ \A l \in PartsOf(s) : a.at + Window > l.seen
\* A sample is of a probe that was recorded, under its time, once.
SamplesFit ==
  /\ IsFiniteSet(recent) /\ Cardinality(recent) <= SampleLimit
  /\ \A r \in recent : /\ r.scan \in {None, r.id} /\ r.ts = stamp[r.id]
                       /\ flight[r.id] \in {"done", "scanning", "scanned"}
  /\ \A r, q \in recent : r.id = q.id => r = q
Younger(i) == {r \in recent : r.ts >= stamp[i]}
\* A probe gone from the buffer was old, or gave way to as many as it holds.
Evicted ==
  \A i \in Catch!Ids : (flight[i] \in {"scanning", "scanned"} /\ \A r \in recent : r.id # i) =>
    Cardinality(Younger(i)) = SampleLimit \/ stamp[i] + Retention < now
StampsPast == \A i \in Catch!Ids : stamp[i] <= now

CatchallInv ==
  /\ Catch!TypeOK /\ AlertsFit /\ PartsFit /\ CountsFit /\ Alerted /\ SamplesFit /\ Evicted
       /\ StampsPast

LEMMA ScoreType == ASSUME CatchallConstants, NEW i \in Catch!Ids PROVE Catch!score(i) \in 0 .. 100
<1>. DEFINE f == Probes[i].facts
            feed == [none |-> 0, bloom |-> 15, confirmed |-> 30]
            cti == [none |-> 0, suspicious |-> 10, malicious |-> 20]
            sum == Catch!atMost(f.auth, 30) + Catch!atMost(f.url, 25) + feed[f.feed]
                     + (IF f.ip THEN cti[f.cti] + (IF f.drop THEN 25 ELSE 0) ELSE 0)
<1>1. f \in Facts
  BY DEF CatchallConstants
<1>2. feed[f.feed] \in Nat /\ cti[f.cti] \in Nat
  BY <1>1 DEF Facts
<1>3. Catch!atMost(f.auth, 30) \in Nat /\ Catch!atMost(f.url, 25) \in Nat
  BY <1>1 DEF Facts, Catch!atMost
<1>4. sum \in Nat
  BY <1>2, <1>3
<1>5. Catch!score(i) = Catch!atMost(sum, 100)
  BY DEF Catch!score, Catch!analyzeCatchall
<1>. HIDE DEF sum
<1>. QED BY <1>4, <1>5 DEF Catch!atMost

\* The instance counts as its host does.
LEMMA CatchCardinality == \A S : Catch!Cardinality(S) = Cardinality(S)
BY DEF Catch!Cardinality, Cardinality

LEMMA MaxOfTwo == ASSUME NEW a \in Nat, NEW b \in Nat PROVE Catch!Max({a, b}) \in {a, b}
<1>1. \E x \in {a, b} : \A y \in {a, b} : x >= y
  <2>1. CASE a >= b
    BY <2>1
  <2>2. CASE b >= a
    BY <2>2
  <2>. QED BY <2>1, <2>2
<1>. QED BY <1>1 DEF Catch!Max

LEMMA InitCatchallInv == ASSUME CatchallConstants, Catch!Init PROVE CatchallInv
<1>1. 0 \in 0 .. MaxTime /\ 0 \in 0 .. MaxFailures
  BY DEF CatchallConstants
<1>2. Catch!TypeOK
  BY <1>1 DEF Catch!Init, Catch!TypeOK
<1>3. AlertsFit
  BY DEF Catch!Init, AlertsFit, Catch!AlertsDebounced
<1>4. IsFiniteSet({}) /\ Cardinality({}) = 0
  BY FS_EmptySet
<1>5. PartsFit /\ CountsFit
  BY <1>4 DEF Catch!Init, PartsFit, CountsFit
<1>6. Alerted
  <2>1. \A s \in Catch!Sources : PartsOf(s) = {}
    BY DEF Catch!Init, PartsOf
  <2>. QED BY <1>4, <2>1 DEF Alerted, CatchallConstants
<1>7. SamplesFit
  BY <1>4 DEF Catch!Init, SamplesFit, CatchallConstants
<1>8. Evicted /\ StampsPast
  BY DEF Catch!Init, Evicted, StampsPast
<1>. QED BY <1>2, <1>3, <1>5, <1>6, <1>7, <1>8 DEF CatchallInv

LEMMA QuietCatchallInv ==
  ASSUME CatchallConstants, CatchallInv,
         Catch!tick \/ UNCHANGED Catch!vars \/ \E i \in Catch!Ids : Catch!receive(i)
           \/ Catch!persistFails(i)
  PROVE  CatchallInv'
<1>1. now \in Nat /\ \A i \in Catch!Ids : stamp[i] \in Nat
  BY DEF CatchallInv, Catch!TypeOK
<1>2. CASE Catch!tick
  <2>1. now' = now + 1 /\ now' \in 0 .. MaxTime
        /\ UNCHANGED <<flight, stamp, rollup, localparts, recent, alerts, hub, failures>>
    BY <1>2 DEF Catch!tick, CatchallInv, Catch!TypeOK, CatchallConstants
  <2>2. Catch!TypeOK'
    BY <2>1 DEF CatchallInv, Catch!TypeOK
  <2>3. AlertsFit'
    <3>1. \A a \in alerts : a.at \in Nat
      BY DEF CatchallInv, Catch!TypeOK
    <3>. QED BY <1>1, <2>1, <3>1 DEF CatchallInv, AlertsFit, Catch!AlertsDebounced
  <2>4. CountsFit'
    <3>1. \A s \in Catch!Sources : rollup[s] # None => rollup[s].seen \in Nat
      BY DEF CatchallInv, Catch!TypeOK, Catch!Rollup
    <3>. QED BY <1>1, <2>1, <3>1 DEF CatchallInv, CountsFit, Counts, PartsOf, Catch!score
  <2>5. PartsFit' /\ Alerted' /\ SamplesFit'
    BY <2>1 DEF CatchallInv, PartsFit, Alerted, SamplesFit, PartsOf
  <2>6. Evicted' /\ StampsPast'
    BY <1>1, <2>1 DEF CatchallInv, Evicted, StampsPast, Younger, CatchallConstants
  <2>. QED BY <2>2, <2>3, <2>4, <2>5, <2>6 DEF CatchallInv
<1>3. CASE UNCHANGED Catch!vars
  <2>1. Catch!TypeOK' /\ AlertsFit' /\ PartsFit' /\ Alerted' /\ StampsPast'
    BY <1>3 DEF Catch!vars, CatchallInv, Catch!TypeOK, AlertsFit, Catch!AlertsDebounced,
        PartsFit, Alerted, PartsOf,
      StampsPast
  <2>2. CountsFit' /\ SamplesFit' /\ Evicted'
    BY <1>3 DEF Catch!vars, CatchallInv, CountsFit, Counts, PartsOf, SamplesFit, Evicted, Younger
  <2>. QED BY <2>1, <2>2 DEF CatchallInv
<1>4. ASSUME NEW i \in Catch!Ids, Catch!receive(i) PROVE CatchallInv'
  <2>1. /\ flight[i] = "new" /\ flight' = [flight EXCEPT ![i] = "scored"]
        /\ stamp' = [stamp EXCEPT ![i] = now]
        /\ UNCHANGED <<now, rollup, localparts, recent, alerts, hub, failures>>
    BY <1>4 DEF Catch!receive
  <2>2. Catch!TypeOK'
    BY <2>1 DEF CatchallInv, Catch!TypeOK
  <2>3. AlertsFit' /\ PartsFit' /\ CountsFit' /\ Alerted'
    BY <2>1 DEF CatchallInv, AlertsFit, Catch!AlertsDebounced, PartsFit, CountsFit, Counts,
        PartsOf, Alerted
  <2>4. \A j \in Catch!Ids : (j # i /\ flight'[j] = flight[j] /\ stamp'[j] = stamp[j])
                       \/ (j = i /\ flight'[j] = "scored" /\ stamp'[j] = now)
    BY <2>1 DEF CatchallInv, Catch!TypeOK
  <2>5. \A r \in recent : r.id \in Catch!Ids /\ r.id # i
    BY <2>1 DEF CatchallInv, SamplesFit, Catch!TypeOK
  <2>6. SamplesFit'
    BY <2>1, <2>4, <2>5 DEF CatchallInv, SamplesFit
  <2>7. Evicted' /\ StampsPast'
    BY <1>1, <2>1, <2>4 DEF CatchallInv, Evicted, StampsPast, Younger
  <2>. QED BY <2>2, <2>3, <2>6, <2>7 DEF CatchallInv
<1>5. ASSUME NEW i \in Catch!Ids, Catch!persistFails(i) PROVE CatchallInv'
  <2>1. /\ flight[i] = "scored" /\ flight' = [flight EXCEPT ![i] = "done"]
        /\ failures' = failures + 1 /\ failures < MaxFailures /\ hub' \subseteq hub \cup {i}
        /\ UNCHANGED <<now, stamp, rollup, localparts, recent, alerts>>
    BY <1>5 DEF Catch!persistFails
  <2>2. Catch!TypeOK'
    <3>1. failures' \in 0 .. MaxFailures
      BY <2>1 DEF CatchallInv, Catch!TypeOK, CatchallConstants
    <3>2. hub' \subseteq Catch!Ids
      BY <2>1 DEF CatchallInv, Catch!TypeOK
    <3>. QED BY <2>1, <3>1, <3>2 DEF CatchallInv, Catch!TypeOK
  <2>3. AlertsFit' /\ PartsFit' /\ CountsFit' /\ Alerted'
    BY <2>1 DEF CatchallInv, AlertsFit, Catch!AlertsDebounced, PartsFit, CountsFit, Counts,
        PartsOf, Alerted
  <2>4. \A j \in Catch!Ids : (j # i /\ flight'[j] = flight[j]) \/ (j = i /\ flight'[j] = "done")
    BY <2>1 DEF CatchallInv, Catch!TypeOK
  <2>5. \A r \in recent : r.id \in Catch!Ids
    BY DEF CatchallInv, Catch!TypeOK
  <2>6. SamplesFit'
    BY <2>1, <2>4, <2>5 DEF CatchallInv, SamplesFit
  <2>7. Evicted' /\ StampsPast'
    BY <2>1, <2>4 DEF CatchallInv, Evicted, StampsPast, Younger
  <2>. QED BY <2>2, <2>3, <2>6, <2>7 DEF CatchallInv
<1>. QED BY <1>2, <1>3, <1>4, <1>5

\* One row put for another leaves as many.
LEMMA Swapped ==
  ASSUME NEW S, IsFiniteSet(S), NEW x \in S, NEW y, y \notin S \ {x}
  PROVE  IsFiniteSet((S \ {x}) \cup {y}) /\ Cardinality((S \ {x}) \cup {y}) = Cardinality(S)
<1>1. IsFiniteSet(S \ {x}) /\ Cardinality(S \ {x}) = Cardinality(S) - 1
  BY FS_RemoveElement
<1>2. Cardinality(S) \in Nat
  BY FS_CardinalityType
<1>3. /\ IsFiniteSet((S \ {x}) \cup {y})
      /\ Cardinality((S \ {x}) \cup {y}) = Cardinality(S \ {x}) + 1
  BY <1>1, FS_AddElement
<1>. QED BY <1>1, <1>2, <1>3

LEMMA DeepScanCatchallInv ==
  ASSUME CatchallConstants, CatchallInv, NEW i \in Catch!Ids, Catch!deepScan(i) PROVE CatchallInv'
<1>1. /\ flight[i] = "scanning" /\ flight' = [flight EXCEPT ![i] = "scanned"]
      /\ recent' = {IF r.id = i THEN [r EXCEPT !.scan = i] ELSE r : r \in recent}
      /\ UNCHANGED <<now, stamp, rollup, localparts, alerts, hub, failures>>
  BY DEF Catch!deepScan
<1>2. \A j \in Catch!Ids : (j # i /\ flight'[j] = flight[j]) \/ (j = i /\ flight'[j] = "scanned")
  BY <1>1 DEF CatchallInv, Catch!TypeOK
<1>3. AlertsFit' /\ PartsFit' /\ CountsFit' /\ Alerted' /\ StampsPast'
  BY <1>1 DEF CatchallInv, AlertsFit, Catch!AlertsDebounced, PartsFit, CountsFit, Counts,
      PartsOf, Alerted,
    StampsPast
<1>4. CASE \A r \in recent : r.id # i
  <2>1. recent' = recent
    BY <1>1, <1>4
  <2>2. Catch!TypeOK'
    BY <1>1, <2>1 DEF CatchallInv, Catch!TypeOK
  <2>3. \A r \in recent : r.id \in Catch!Ids
    BY DEF CatchallInv, Catch!TypeOK
  <2>4. SamplesFit'
    BY <1>1, <1>2, <2>1, <2>3 DEF CatchallInv, SamplesFit
  <2>5. Evicted'
    BY <1>1, <1>2, <2>1 DEF CatchallInv, Evicted, Younger
  <2>. QED BY <1>3, <2>2, <2>4, <2>5 DEF CatchallInv
<1>5. ASSUME NEW x \in recent, x.id = i PROVE CatchallInv'
  <2>. DEFINE y == [x EXCEPT !.scan = i]
  <2>1. x \in [id : Catch!Ids, ts : 0 .. MaxTime, scan : Catch!Ids \cup {None}]
    BY DEF CatchallInv, Catch!TypeOK
  <2>2. y \in [id : Catch!Ids, ts : 0 .. MaxTime, scan : Catch!Ids \cup {None}] /\ y.id = i
          /\ y.ts = x.ts /\ y.scan = i
    BY <1>5, <2>1
  <2>3. \A r \in recent : r.id = i => r = x
    BY <1>5 DEF CatchallInv, SamplesFit
  <2>4. recent' = (recent \ {x}) \cup {y}
    <3>. DEFINE F(r) == IF r.id = i THEN [r EXCEPT !.scan = i] ELSE r
    <3>1. recent' = {F(r) : r \in recent}
      BY <1>1
    <3>2. \A r \in recent : F(r) = IF r = x THEN y ELSE r
      BY <1>5, <2>3
    <3>. HIDE DEF F, y
    <3>. QED BY <1>5, <3>1, <3>2
  <2>. HIDE DEF y
  <2>5. y \notin recent \ {x}
    BY <2>2, <2>3
  <2>6. IsFiniteSet(recent') /\ Cardinality(recent') = Cardinality(recent)
    BY <2>4, <2>5, Swapped DEF CatchallInv, SamplesFit
  <2>7. Catch!TypeOK'
    BY <1>1, <2>2, <2>4 DEF CatchallInv, Catch!TypeOK
  <2>8. SamplesFit'
    <3>1. \A r \in recent : r.id \in Catch!Ids
      BY DEF CatchallInv, Catch!TypeOK
    <3>2. \A r \in recent' : \/ r \in recent /\ r.id # i
                             \/ r = y
      BY <2>3, <2>4
    <3>3. \A r \in recent' : /\ r.scan \in {None, r.id} /\ r.ts = stamp'[r.id]
                             /\ flight'[r.id] \in {"done", "scanning", "scanned"}
      BY <1>1, <1>2, <1>5, <2>2, <3>1, <3>2 DEF CatchallInv, SamplesFit
    <3>4. \A r, q \in recent' : r.id = q.id => r = q
      BY <2>2, <3>2 DEF CatchallInv, SamplesFit
    <3>. QED BY <2>6, <3>3, <3>4 DEF CatchallInv, SamplesFit
  <2>9. Evicted'
    <3>1. SUFFICES ASSUME NEW j \in Catch!Ids, flight'[j] \in {"scanning", "scanned"},
                          \A r \in recent' : r.id # j
                   PROVE  Cardinality(Younger(j)') = SampleLimit \/ stamp[j] + Retention < now
      BY <1>1 DEF Evicted
    <3>2. flight[j] \in {"scanning", "scanned"} /\ j # i
      BY <1>1, <1>2, <2>2, <2>4, <3>1
    <3>3. \A r \in recent : r.id # j
      BY <1>5, <2>4, <3>1, <3>2
    <3>4. Cardinality(Younger(j)') = Cardinality(Younger(j))
      <4>1. CASE x.ts >= stamp[j]
        <5>1. x \in Younger(j) /\ Younger(j)' = (Younger(j) \ {x}) \cup {y} /\ y \notin Younger(j) \ {x}
          BY <1>1, <2>2, <2>4, <2>5, <4>1 DEF Younger
        <5>2. IsFiniteSet(Younger(j))
          BY FS_Subset DEF Younger, CatchallInv, SamplesFit
        <5>. QED BY <5>1, <5>2, Swapped
      <4>2. CASE ~(x.ts >= stamp[j])
        <5>1. Younger(j)' = Younger(j)
          BY <1>1, <2>2, <2>4, <4>2 DEF Younger
        <5>. QED BY <5>1
      <4>. QED BY <4>1, <4>2
    <3>. QED BY <3>2, <3>3, <3>4 DEF CatchallInv, Evicted
  <2>. QED BY <1>3, <2>7, <2>8, <2>9 DEF CatchallInv
<1>. QED BY <1>4, <1>5

\* The row of a probe's local part, whether it was new, and which counters stay.
ProbePart(i) == [source |-> Probes[i].source, localpart |-> Probes[i].localpart, seen |-> now]
ProbeIsFirst(i) == Catch!isNewLocalpart(Probes[i].source, Probes[i].localpart, now)
Stays(t) == rollup[t] # None /\ Catch!kept(rollup[t].seen, now)

\* What a probe does to the counters, row by row, and to the local parts on file.
LEMMA ProbeRecords ==
  ASSUME CatchallConstants, CatchallInv, NEW i \in Catch!Ids, stamp[i] = now,
           Catch!recordCatchallProbe(i),
         NEW s, s = Probes[i].source
  PROVE  /\ s \in Catch!Sources
         /\ ProbePart(i) \in [source : Catch!Sources, localpart : Catch!Localparts, seen : 0 .. MaxTime]
         /\ localparts' = {l \in localparts : Catch!kept(l.seen, now)
                             /\ ~(l.source = s /\ l.localpart =
                                  Probes[i].localpart)} \cup {ProbePart(i)}
         /\ \A t \in Catch!Sources \ {s} : rollup'[t] = IF Stays(t) THEN rollup[t] ELSE None
         /\ rollup'[s] \in Catch!Rollup /\ rollup'[s].seen = now
         /\ rollup'[s].distinct =
              (IF Stays(s) THEN rollup[s].distinct ELSE 0) + (IF ProbeIsFirst(i) THEN 1 ELSE 0)
         /\ rollup'[s].count = (IF Stays(s) THEN rollup[s].count ELSE 0) + 1
         /\ rollup'[s].max \in {Catch!score(i)} \cup (IF Stays(s) THEN {rollup[s].max} ELSE {})
         /\ rollup' \in [Catch!Sources -> Catch!Rollup \cup {None}]
<1>. DEFINE new == ProbePart(i)
            first == ProbeIsFirst(i)
            one == IF first THEN 1 ELSE 0
            stays(t) == Stays(t)
            old == Catch!collected(now)[s]
            row == IF old = None THEN [count |-> 1, distinct |-> one, max |-> Catch!score(i),
              seen |-> now]
                   ELSE [count |-> old.count + 1, distinct |-> old.distinct + one,
                         max |-> Catch!Max({old.max, Catch!score(i)}), seen |-> now]
<1>1. s \in Catch!Sources /\ Probes[i].localpart \in Catch!Localparts /\ now \in 0 .. MaxTime
  BY DEF Catch!Sources, Catch!Localparts, CatchallInv, Catch!TypeOK
<1>2. new \in [source : Catch!Sources, localpart : Catch!Localparts, seen : 0 .. MaxTime]
  BY <1>1 DEF ProbePart
<1>3. localparts' = {l \in localparts : Catch!kept(l.seen, now)
                       /\ ~(l.source = s /\ l.localpart = Probes[i].localpart)} \cup {new}
  BY DEF Catch!recordCatchallProbe, Catch!recordLocalpart, ProbePart
<1>4. rollup' = [Catch!collected(now) EXCEPT ![s] = row]
  BY DEF Catch!recordCatchallProbe, Catch!upsertRollup, ProbeIsFirst
<1>5. rollup \in [Catch!Sources -> Catch!Rollup \cup {None}]
  BY DEF CatchallInv, Catch!TypeOK
<1>6. Catch!collected(now) \in [Catch!Sources -> Catch!Rollup \cup {None}]
      /\ \A t \in Catch!Sources : Catch!collected(now)[t] = IF stays(t) THEN rollup[t] ELSE None
  BY <1>5 DEF Catch!collected, Stays
<1>7. Catch!score(i) \in 0 .. 100 /\ one \in {0, 1}
  BY ScoreType
<1>8. \A t \in Catch!Sources \ {s} : rollup'[t] = IF stays(t) THEN rollup[t] ELSE None
  <2>. HIDE DEF stays, row
  <2>. QED BY <1>1, <1>4, <1>6
<1>9. rollup'[s] = row
  <2>. HIDE DEF row
  <2>. QED BY <1>1, <1>4, <1>6
<1>10. old = IF stays(s) THEN rollup[s] ELSE None
  BY <1>1, <1>6
<1>. HIDE DEF old, one, first
<1>11. CASE stays(s)
  <2>1. old = rollup[s] /\ old \in Catch!Rollup /\ old # None
    BY <1>1, <1>5, <1>10, <1>11 DEF CatchallConstants, Stays
  <2>2. old.max \in Nat /\ Catch!score(i) \in Nat /\ old.max \in 0 .. 100 /\ old.count \in Nat
          /\ old.distinct \in Nat
    BY <1>7, <2>1 DEF Catch!Rollup
  <2>3. Catch!Max({old.max, Catch!score(i)}) \in {old.max, Catch!score(i)}
    BY <2>2, MaxOfTwo
  <2>4. row = [count |-> old.count + 1, distinct |-> old.distinct + one,
               max |-> Catch!Max({old.max, Catch!score(i)}), seen |-> now]
    BY <2>1
  <2>5. row \in Catch!Rollup /\ row.seen = now /\ row.distinct = rollup[s].distinct + one
        /\ row.count = rollup[s].count + 1 /\ row.max \in {Catch!score(i), rollup[s].max}
    BY <1>1, <1>7, <2>1, <2>2, <2>3, <2>4 DEF Catch!Rollup
  <2>6. rollup' \in [Catch!Sources -> Catch!Rollup \cup {None}]
    <3>. HIDE DEF row
    <3>. QED BY <1>4, <1>6, <2>5
  <2>. QED BY <1>1, <1>2, <1>3, <1>8, <1>9, <1>11, <2>5, <2>6 DEF one, first, stays
<1>12. CASE ~stays(s)
  <2>1. old = None
    BY <1>10, <1>12
  <2>2. row = [count |-> 1, distinct |-> one, max |-> Catch!score(i), seen |-> now]
    BY <2>1
  <2>3. row \in Catch!Rollup /\ row.seen = now /\ row.distinct = 0 + one
        /\ row.count = 0 + 1 /\ row.max = Catch!score(i)
    BY <1>1, <1>7, <2>2 DEF Catch!Rollup
  <2>4. rollup' \in [Catch!Sources -> Catch!Rollup \cup {None}]
    <3>. HIDE DEF row
    <3>. QED BY <1>4, <1>6, <2>3
  <2>. QED BY <1>1, <1>2, <1>3, <1>8, <1>9, <1>12, <2>3, <2>4 DEF one, first
<1>. QED BY <1>11, <1>12

LEMMA ProbeCounts ==
  ASSUME CatchallConstants, CatchallInv, NEW i \in Catch!Ids, stamp[i] = now,
           Catch!recordCatchallProbe(i),
         UNCHANGED <<now, stamp>>
  PROVE  /\ PartsFit' /\ CountsFit' /\ Alerted' /\ AlertsFit'
         /\ rollup' \in [Catch!Sources -> Catch!Rollup \cup {None}]
              /\ alerts' \subseteq [source : Catch!Sources, at : 0 .. MaxTime]
         /\ localparts' \subseteq [source : Catch!Sources, localpart : Catch!Localparts,
              seen : 0 .. MaxTime]
<1>. DEFINE s == Probes[i].source
            p == Probes[i].localpart
            new == ProbePart(i)
            first == ProbeIsFirst(i)
            stays(t) == Stays(t)
            K(t) == {l \in PartsOf(t) : Catch!kept(l.seen, now)}
            K1 == {l \in K(s) : l.localpart # p}
<1>1. s \in Catch!Sources /\ new \in [source : Catch!Sources, localpart : Catch!Localparts,
        seen : 0 .. MaxTime]
      /\ localparts' = {l \in localparts : Catch!kept(l.seen, now) /\ ~(l.source = s
           /\ l.localpart = p)} \cup {new}
  BY ProbeRecords
<1>2. /\ \A t \in Catch!Sources \ {s} : rollup'[t] = IF stays(t) THEN rollup[t] ELSE None
      /\ rollup'[s] \in Catch!Rollup /\ rollup'[s].seen = now
      /\ rollup' \in [Catch!Sources -> Catch!Rollup \cup {None}]
  BY ProbeRecords
<1>3. /\ rollup'[s].distinct = (IF stays(s) THEN rollup[s].distinct ELSE 0) + (IF first THEN 1 ELSE 0)
      /\ rollup'[s].count = (IF stays(s) THEN rollup[s].count ELSE 0) + 1
      /\ rollup'[s].max \in {Catch!score(i)} \cup (IF stays(s) THEN {rollup[s].max} ELSE {})
  BY ProbeRecords
<1>4. now \in Nat /\ now \in 0 .. MaxTime /\ Retention \in Nat /\ Window \in Nat \ {0}
        /\ AlertThreshold \in Nat \ {0}
  BY DEF CatchallInv, Catch!TypeOK, CatchallConstants
<1>5. \A l \in localparts : l.source \in Catch!Sources /\ l.seen \in Nat /\ l.seen <= now
      /\ rollup[l.source] # None /\ rollup[l.source] \in Catch!Rollup /\ rollup[l.source].seen \in Nat
      /\ rollup[l.source].seen <= now /\ l.seen <= rollup[l.source].seen
  <2>1. SUFFICES ASSUME NEW l \in localparts
                 PROVE  l.source \in Catch!Sources /\ l.seen \in Nat /\ l.seen <= now
                        /\ rollup[l.source] # None /\ rollup[l.source] \in Catch!Rollup
                        /\ rollup[l.source].seen \in Nat
                        /\ rollup[l.source].seen <= now /\ l.seen <= rollup[l.source].seen
    OBVIOUS
  <2>2. l.source \in Catch!Sources /\ l.seen \in Nat
    BY DEF CatchallInv, Catch!TypeOK
  <2>3. rollup[l.source] # None /\ l.seen <= rollup[l.source].seen
    BY DEF CatchallInv, PartsFit
  <2>4. rollup[l.source] \in Catch!Rollup /\ rollup[l.source].seen \in Nat
    BY <2>2, <2>3 DEF CatchallInv, Catch!TypeOK, Catch!Rollup
  <2>5. rollup[l.source].seen <= now
    BY <2>2, <2>3 DEF CatchallInv, CountsFit, Counts
  <2>. QED BY <1>4, <2>2, <2>3, <2>4, <2>5
<1>6. \A l \in localparts : Catch!kept(l.seen, now) => stays(l.source)
  BY <1>4, <1>5 DEF Catch!kept, Stays
<1>. HIDE DEF first, stays, new
<1>7. new.source = s /\ new.localpart = p /\ new.seen = now
  BY DEF new, ProbePart
<1>8. IsFiniteSet(localparts) /\ \A t : IsFiniteSet(PartsOf(t)) /\ IsFiniteSet(K(t))
        /\ Cardinality(K(t)) <= Cardinality(PartsOf(t))
        /\ Cardinality(K(t)) \in Nat /\ Cardinality(PartsOf(t)) \in Nat
  <2>1. IsFiniteSet(localparts)
    BY DEF CatchallInv, PartsFit
  <2>2. \A t : PartsOf(t) \subseteq localparts /\ K(t) \subseteq PartsOf(t)
    BY DEF PartsOf
  <2>3. \A t : IsFiniteSet(PartsOf(t))
    BY <2>1, <2>2, FS_Subset
  <2>. HIDE DEF K
  <2>4. \A t : IsFiniteSet(K(t)) /\ Cardinality(K(t)) <= Cardinality(PartsOf(t))
    BY <2>2, <2>3, FS_Subset
  <2>. QED BY <2>1, <2>3, <2>4, FS_CardinalityType
<1>9. PartsOf(s)' = K1 \cup {new} /\ new \notin K1
  BY <1>1, <1>7 DEF PartsOf
<1>10. \A t \in Catch!Sources \ {s} : PartsOf(t)' = K(t)
  BY <1>1, <1>7 DEF PartsOf
<1>11. IsFiniteSet(localparts')
  <2>1. IsFiniteSet({l \in localparts : Catch!kept(l.seen, now) /\ ~(l.source = s /\ l.localpart = p)})
    BY <1>8, FS_Subset
  <2>. QED BY <1>1, <2>1, FS_AddElement
<1>12. PartsFit'
  <2>1. \A l \in localparts' : l = new \/ (l \in localparts /\ Catch!kept(l.seen, now)
                                           /\ ~(l.source = s /\ l.localpart = p))
    BY <1>1
  <2>2. \A l \in localparts' : rollup'[l.source] # None /\ l.seen <= rollup'[l.source].seen
    <3>1. SUFFICES ASSUME NEW l \in localparts'
    PROVE rollup'[l.source] # None /\ l.seen <= rollup'[l.source].seen
      OBVIOUS
    <3>2. rollup'[s] # None
      BY <1>2 DEF CatchallConstants
    <3>3. CASE l = new
      BY <1>2, <1>4, <1>7, <3>2, <3>3
    <3>4. CASE l # new /\ l.source = s
      BY <1>2, <1>4, <1>5, <2>1, <3>2, <3>4
    <3>5. CASE l # new /\ l.source # s
      BY <1>2, <1>5, <1>6, <2>1, <3>5
    <3>. QED BY <3>3, <3>4, <3>5
  <2>3. \A l, m \in localparts' : l.source = m.source /\ l.localpart = m.localpart => l = m
    BY <1>7, <2>1 DEF CatchallInv, PartsFit
  <2>. QED BY <1>11, <2>2, <2>3 DEF PartsFit
<1>13. IsFiniteSet(K1) /\ Cardinality(K1) \in Nat
       /\ Cardinality(K1) <= Cardinality(K(s)) - (IF first THEN 0 ELSE 1)
  <2>1. K1 \subseteq K(s) /\ IsFiniteSet(K1) /\ Cardinality(K1) <= Cardinality(K(s))
          /\ Cardinality(K1) \in Nat
    <3>1. K1 \subseteq K(s)
      OBVIOUS
    <3>. HIDE DEF K, K1
    <3>. QED BY <1>8, <3>1, FS_Subset, FS_CardinalityType
  <2>2. CASE first
    BY <1>8, <2>1, <2>2
  <2>3. CASE ~first
    <3>1. PICK l \in localparts : l.source = s /\ l.localpart = p /\ Catch!kept(l.seen, now)
      BY <2>3 DEF first, ProbeIsFirst, Catch!isNewLocalpart
    <3>2. l \in K(s) /\ l \notin K1
      BY <3>1 DEF PartsOf
    <3>. HIDE DEF K, K1
    <3>3. K1 \subseteq K(s) \ {l}
      BY <2>1, <3>2
    <3>4. IsFiniteSet(K(s) \ {l}) /\ Cardinality(K(s) \ {l}) = Cardinality(K(s)) - 1
      BY <1>8, <3>2, FS_RemoveElement
    <3>5. Cardinality(K1) <= Cardinality(K(s)) - 1
      BY <3>3, <3>4, FS_Subset
    <3>. QED BY <2>1, <2>3, <3>5
  <2>. QED BY <2>2, <2>3
<1>14. Cardinality(PartsOf(s)') = Cardinality(K1) + 1
  <2>. HIDE DEF K1
  <2>. QED BY <1>9, <1>13, FS_AddElement
<1>15. ~stays(s) => first /\ K(s) = {}
  BY <1>6 DEF PartsOf, first, ProbeIsFirst, Catch!isNewLocalpart
<1>16. stays(s) => /\ Cardinality(PartsOf(s)) <= rollup[s].distinct
         /\ rollup[s].distinct <= rollup[s].count
                   /\ rollup[s].distinct \in Nat /\ rollup[s].count \in Nat
                   /\ \E j \in Catch!Ids : Probes[j].source = s /\ rollup[s].max = Catch!score(j)
  <2>1. SUFFICES ASSUME stays(s)
                 PROVE  /\ Cardinality(PartsOf(s)) <= rollup[s].distinct
                             /\ rollup[s].distinct <= rollup[s].count
                        /\ rollup[s].distinct \in Nat /\ rollup[s].count \in Nat
                        /\ \E j \in Catch!Ids : Probes[j].source = s /\ rollup[s].max = Catch!score(j)
    OBVIOUS
  <2>2. rollup[s] # None /\ rollup[s] \in Catch!Rollup
    BY <1>1, <2>1 DEF stays, Stays, CatchallInv, Catch!TypeOK
  <2>. QED BY <1>1, <2>2 DEF CatchallInv, CountsFit, Counts, Catch!Rollup
<1>17. Counts(s)'
  <2>1. Cardinality(PartsOf(s)') <= rollup'[s].distinct
    <3>1. CASE stays(s)
      <4>. HIDE DEF K, K1
      <4>. QED BY <1>3, <1>8, <1>13, <1>14, <1>16, <3>1
    <3>2. CASE ~stays(s)
      <4>1. Cardinality(K(s)) = 0 /\ first
        BY <1>15, <3>2, FS_EmptySet
      <4>. HIDE DEF K, K1
      <4>. QED BY <1>3, <1>13, <1>14, <3>2, <4>1
    <3>. QED BY <3>1, <3>2
  <2>2. rollup'[s].distinct <= rollup'[s].count
    BY <1>3, <1>16
  <2>3. new \in localparts'
    BY <1>1
  <2>4. \E j \in Catch!Ids : Probes[j].source = s /\ rollup'[s].max = Catch!score(j)
    BY <1>3, <1>16
  <2>5. rollup'[s].seen <= now' /\ new.source = s /\ new.seen = rollup'[s].seen
    BY <1>2, <1>4, <1>7
  <2>. QED BY <2>1, <2>2, <2>3, <2>4, <2>5 DEF Counts, Catch!score
<1>18. ASSUME NEW t \in Catch!Sources \ {s}, rollup'[t] # None PROVE Counts(t)'
  <2>1. stays(t) /\ rollup'[t] = rollup[t]
    BY <1>2, <1>18
  <2>2. rollup[t] # None /\ Catch!kept(rollup[t].seen, now)
    BY <2>1 DEF stays, Stays
  <2>3. Counts(t) /\ rollup[t].distinct \in Nat
    BY <2>2 DEF CatchallInv, CountsFit, Catch!TypeOK, Catch!Rollup
  <2>4. Cardinality(PartsOf(t)') <= rollup'[t].distinct
    <3>1. Cardinality(PartsOf(t)') <= Cardinality(PartsOf(t)) /\ Cardinality(PartsOf(t)') \in Nat
      <4>. HIDE DEF K
      <4>. QED BY <1>8, <1>10
    <3>2. Cardinality(PartsOf(t)) \in Nat
      <4>. HIDE DEF K
      <4>. QED BY <1>8
    <3>3. Cardinality(PartsOf(t)) <= rollup[t].distinct
      BY <2>3 DEF Counts
    <3>. QED BY <2>1, <2>3, <3>1, <3>2, <3>3
  <2>5. \E l \in localparts' : l.source = t /\ l.seen = rollup'[t].seen
    BY <1>1, <2>1, <2>2, <2>3 DEF Counts
  <2>. QED BY <2>1, <2>3, <2>4, <2>5 DEF Counts, Catch!score
<1>19. CountsFit'
  BY <1>17, <1>18 DEF CountsFit
<1>20. alerts' = (IF Catch!alertDue(s, rollup'[s]) THEN alerts \cup {[source |-> s,
         at |-> now]} ELSE alerts)
  BY DEF Catch!recordCatchallProbe
<1>21. AlertsFit' /\ alerts' \subseteq [source : Catch!Sources, at : 0 .. MaxTime]
  <2>1. \A a \in alerts : a.at \in Nat /\ a.at <= now
    BY DEF CatchallInv, Catch!TypeOK, AlertsFit
  <2>2. CASE alerts' = alerts
    BY <2>2 DEF CatchallInv, Catch!TypeOK, AlertsFit, Catch!AlertsDebounced
  <2>3. CASE Catch!alertDue(s, rollup'[s]) /\ alerts' = alerts \cup {[source |-> s, at |-> now]}
    <3>1. \A a \in alerts : a.source = s => a.at + Window <= now
      BY <2>3 DEF Catch!alertDue
    <3>2. Catch!AlertsDebounced'
      BY <2>1, <2>3, <3>1 DEF CatchallInv, AlertsFit, Catch!AlertsDebounced
    <3>3. \A a \in alerts' : a.at <= now'
      BY <1>4, <2>1, <2>3
    <3>. QED BY <1>1, <1>4, <2>3, <3>2, <3>3 DEF CatchallInv, Catch!TypeOK, AlertsFit
  <2>. QED BY <1>20, <2>2, <2>3
<1>22. Alerted'
  <2>1. \A a \in alerts : a.at \in Nat
    BY DEF CatchallInv, Catch!TypeOK
  <2>2. ASSUME Cardinality(PartsOf(s)') >= AlertThreshold
        PROVE  \E a \in alerts' : a.source = s /\ \A l \in PartsOf(s)' : a.at + Window > l.seen
    <3>1. rollup'[s].distinct >= AlertThreshold
      <4>1. rollup'[s].distinct \in Nat /\ Cardinality(PartsOf(s)') \in Nat
        BY <1>2, <1>13, <1>14 DEF Catch!Rollup
      <4>. QED BY <1>4, <1>17, <2>2, <4>1 DEF Counts
    <3>2. \E a \in alerts' : a.source = s /\ a.at + Window > now
      <4>1. CASE Catch!alertDue(s, rollup'[s])
        <5>1. [source |-> s, at |-> now] \in alerts'
          BY <1>20, <4>1
        <5>2. now + Window > now
          BY <1>4
        <5>. QED BY <5>1, <5>2
      <4>2. CASE ~Catch!alertDue(s, rollup'[s])
        <5>1. PICK a \in alerts : a.source = s /\ ~(a.at + Window <= now)
          BY <3>1, <4>2 DEF Catch!alertDue
        <5>. QED BY <1>4, <1>20, <2>1, <5>1
      <4>. QED BY <4>1, <4>2
    <3>3. \A l \in PartsOf(s)' : l.seen \in Nat /\ l.seen <= now
      BY <1>4, <1>5, <1>7, <1>9 DEF PartsOf
    <3>4. \A a \in alerts' : a.at \in Nat
      BY <1>21
    <3>. QED BY <1>4, <3>2, <3>3, <3>4
  <2>3. ASSUME NEW t \in Catch!Sources \ {s}, Cardinality(PartsOf(t)') >= AlertThreshold
        PROVE  \E a \in alerts' : a.source = t /\ \A l \in PartsOf(t)' : a.at + Window > l.seen
    <3>1. Cardinality(PartsOf(t)) >= AlertThreshold /\ PartsOf(t)' \subseteq PartsOf(t)
      <4>1. K(t) \subseteq PartsOf(t)
        OBVIOUS
      <4>. HIDE DEF K
      <4>. QED BY <1>4, <1>8, <1>10, <2>3, <4>1
    <3>2. alerts \subseteq alerts'
      BY <1>20
    <3>. QED BY <3>1, <3>2 DEF CatchallInv, Alerted
  <2>. QED BY <2>2, <2>3 DEF Alerted
<1>. QED
  <2>1. localparts' \subseteq [source : Catch!Sources, localpart : Catch!Localparts,
          seen : 0 .. MaxTime]
    BY <1>1 DEF CatchallInv, Catch!TypeOK
  <2>. QED BY <1>2, <1>12, <1>19, <1>21, <1>22, <2>1

\* The buffer after a probe: what left it was old, or as many younger ones stay.
LEMMA ProbeSamples ==
  ASSUME CatchallConstants, CatchallInv, NEW i \in Catch!Ids, flight[i] = "scored", stamp[i] = now,
         Catch!recordCatchallProbe(i), NEW to \in {"scanning", "done"},
         flight' = [flight EXCEPT ![i] = to], UNCHANGED <<now, stamp>>
  PROVE  SamplesFit' /\ Evicted' /\ recent' \subseteq [id : Catch!Ids, ts : 0 .. MaxTime,
           scan : Catch!Ids \cup {None}]
<1>. DEFINE new == [id |-> i, ts |-> now, scan |-> None]
            young == {r \in recent : Catch!kept(r.ts, now)}
            rows == young \cup {new}
<1>1. recent' \in Catch!evicted(rows)
  BY DEF Catch!recordCatchallProbe
<1>2. new \in [id : Catch!Ids, ts : 0 .. MaxTime, scan : Catch!Ids \cup {None}]
      /\ new.id = i /\ new.ts = now /\ new.scan = None /\ now \in Nat
  BY DEF CatchallInv, Catch!TypeOK
<1>3. recent \subseteq [id : Catch!Ids, ts : 0 .. MaxTime, scan : Catch!Ids \cup {None}]
        /\ IsFiniteSet(recent)
      /\ Cardinality(recent) <= SampleLimit /\ Cardinality(recent) \in Nat
  BY FS_CardinalityType DEF CatchallInv, Catch!TypeOK, SamplesFit
<1>4. /\ \A r \in recent : r.ts = stamp[r.id] /\ r.id \in Catch!Ids /\ r.ts \in Nat
      /\ \A j \in Catch!Ids : stamp[j] \in Nat /\ stamp[j] <= now
      /\ Retention \in Nat /\ SampleLimit \in Nat
  BY DEF CatchallInv, Catch!TypeOK, SamplesFit, StampsPast, CatchallConstants
<1>5. \A j \in Catch!Ids : (j # i /\ flight'[j] = flight[j]) \/ (j = i /\ flight'[j] = to)
  BY DEF CatchallInv, Catch!TypeOK
<1>. HIDE DEF new
<1>6. IsFiniteSet(rows) /\ Cardinality(rows) \in Nat
  <2>1. IsFiniteSet(young)
    BY <1>3, FS_Subset
  <2>. HIDE DEF young
  <2>. QED BY <2>1, FS_AddElement, FS_CardinalityType
<1>7. /\ recent' \subseteq rows /\ Cardinality(recent') = Catch!atMost(SampleLimit, Cardinality(rows))
      /\ \A r \in recent', gone \in rows \ recent' : gone.ts <= r.ts
  <2>. HIDE DEF rows
  <2>. QED BY <1>1, CatchCardinality DEF Catch!evicted
<1>8. IsFiniteSet(recent') /\ Cardinality(recent') \in Nat /\ Cardinality(recent') <= SampleLimit
  <2>. HIDE DEF rows
  <2>1. IsFiniteSet(recent')
    BY <1>6, <1>7, FS_Subset
  <2>2. Cardinality(recent') \in Nat
    BY <2>1, FS_CardinalityType
  <2>. QED BY <1>4, <1>6, <1>7, <2>1, <2>2 DEF Catch!atMost
<1>9. \A r \in recent' : r = new \/ (r \in recent /\ Catch!kept(r.ts, now))
  BY <1>7
<1>10. \A r \in recent : r.id # i
  BY DEF CatchallInv, SamplesFit
<1>11. recent' \subseteq [id : Catch!Ids, ts : 0 .. MaxTime, scan : Catch!Ids \cup {None}]
  BY <1>2, <1>3, <1>9
<1>12. SamplesFit'
  <2>1. \A r \in recent : r.scan \in {None, r.id} /\ flight[r.id] \in {"done", "scanning", "scanned"}
    BY DEF CatchallInv, SamplesFit
  <2>2. \A r \in recent' : /\ r.scan \in {None, r.id} /\ r.ts = stamp'[r.id]
                           /\ flight'[r.id] \in {"done", "scanning", "scanned"}
    BY <1>2, <1>4, <1>5, <1>9, <1>10, <2>1
  <2>3. \A r, q \in recent : r.id = q.id => r = q
    BY DEF CatchallInv, SamplesFit
  <2>4. \A r, q \in recent' : r.id = q.id => r = q
    BY <1>2, <1>9, <1>10, <2>3
  <2>. QED BY <1>8, <2>2, <2>4 DEF SamplesFit
<1>13. ASSUME NEW j \in Catch!Ids, \A r \in recent' : r.ts >= stamp[j],
                Cardinality(recent') = SampleLimit
       PROVE  Cardinality(Younger(j)') = SampleLimit
  <2>1. Younger(j)' = recent'
    BY <1>13 DEF Younger
  <2>. QED BY <1>13, <2>1
<1>14. ASSUME NEW j \in Catch!Ids, NEW g \in rows, g \notin recent', g.ts = stamp[j]
       PROVE  Cardinality(Younger(j)') = SampleLimit
  <2>1. \A r \in recent' : r.ts >= stamp[j]
    <3>1. \A r \in recent' : r.ts \in Nat
      BY <1>11
    <3>. QED BY <1>4, <1>7, <1>14, <3>1
  <2>2. Cardinality(recent') = SampleLimit
    <3>. HIDE DEF rows
    <3>1. recent' # rows
      BY <1>14
    <3>2. Cardinality(recent') # Cardinality(rows)
      BY <1>6, <1>7, <3>1, FS_Subset
    <3>. QED BY <1>7, <3>2 DEF Catch!atMost
  <2>. QED BY <1>13, <2>1, <2>2
<1>15. ASSUME NEW j \in Catch!Ids, flight'[j] \in {"scanning", "scanned"}, \A r \in recent' : r.id # j
       PROVE  Cardinality(Younger(j)') = SampleLimit \/ stamp[j] + Retention < now
  <2>1. CASE j = i
    <3>1. new \notin recent'
      BY <1>2, <1>15, <2>1
    <3>. QED BY <1>2, <1>14, <2>1, <3>1
  <2>2. ASSUME j # i, NEW r \in recent, r.id = j
        PROVE  Cardinality(Younger(j)') = SampleLimit \/ stamp[j] + Retention < now
    <3>1. r.ts = stamp[j] /\ r \notin recent'
      BY <1>4, <1>15, <2>2
    <3>2. CASE Catch!kept(r.ts, now)
      BY <1>14, <3>1, <3>2
    <3>3. CASE ~Catch!kept(r.ts, now)
      BY <1>4, <3>1, <3>3, <1>2 DEF Catch!kept
    <3>. QED BY <3>2, <3>3
  <2>3. ASSUME j # i, \A r \in recent : r.id # j, Cardinality(Younger(j)) = SampleLimit
        PROVE  Cardinality(Younger(j)') = SampleLimit \/ stamp[j] + Retention < now
    <3>1. Younger(j) \subseteq recent
      BY DEF Younger
    <3>2. IsFiniteSet(Younger(j)) /\ Cardinality(Younger(j)) <= Cardinality(recent)
      BY <1>3, <3>1, FS_Subset
    <3>3. Cardinality(Younger(j)) = Cardinality(recent)
      BY <1>3, <1>4, <2>3, <3>2
    <3>4. Younger(j) = recent
      BY <1>3, <3>1, <3>3, FS_Subset
    <3>5. \A r \in recent : r.ts >= stamp[j]
      BY <3>4 DEF Younger
    <3>6. CASE \E r \in recent : ~Catch!kept(r.ts, now)
      BY <1>2, <1>4, <3>5, <3>6 DEF Catch!kept
    <3>7. CASE \A r \in recent : Catch!kept(r.ts, now)
      <4>1. rows = recent \cup {new}
        BY <3>7
      <4>2. Cardinality(rows) >= SampleLimit
        <5>. HIDE DEF rows
        <5>1. recent \subseteq rows
          BY <4>1
        <5>2. Cardinality(recent) <= Cardinality(rows)
          BY <1>6, <5>1, FS_Subset
        <5>. QED BY <1>3, <1>4, <1>6, <2>3, <3>3, <5>2
      <4>3. Cardinality(recent') = SampleLimit
        <5>. HIDE DEF rows
        <5>. QED BY <1>4, <1>6, <1>7, <4>2 DEF Catch!atMost
      <4>4. \A r \in recent' : r.ts >= stamp[j]
        BY <1>2, <1>4, <1>9, <3>5
      <4>. QED BY <1>13, <4>3, <4>4
    <3>. QED BY <3>6, <3>7
  <2>4. j # i => flight[j] \in {"scanning", "scanned"}
    BY <1>5, <1>15
  <2>5. (j # i /\ \A r \in recent : r.id # j) =>
          Cardinality(Younger(j)) = SampleLimit \/ stamp[j] + Retention < now
    BY <2>4 DEF CatchallInv, Evicted
  <2>. QED BY <2>1, <2>2, <2>3, <2>5
<1>16. Evicted'
  BY <1>15 DEF Evicted
<1>. QED BY <1>11, <1>12, <1>16

LEMMA PersistCatchallInv ==
  ASSUME CatchallConstants, CatchallInv, NEW i \in Catch!Ids, Catch!persist(i) PROVE CatchallInv'
<1>1. /\ flight[i] = "scored" /\ stamp[i] = now /\ Catch!recordCatchallProbe(i)
           /\ UNCHANGED <<now, stamp>>
      /\ flight' = [flight EXCEPT ![i] = IF Catch!scannable(i) THEN "scanning" ELSE "done"]
      /\ hub' \subseteq hub \cup {i} /\ (failures' = failures \/ (failures < MaxFailures
           /\ failures' = failures + 1))
  BY DEF Catch!persist
<1>2. PICK to \in {"scanning", "done"} : flight' = [flight EXCEPT ![i] = to]
  BY <1>1
<1>3. SamplesFit' /\ Evicted' /\ recent' \subseteq [id : Catch!Ids, ts : 0 .. MaxTime,
        scan : Catch!Ids \cup {None}]
  BY <1>1, <1>2, ProbeSamples
<1>4. /\ PartsFit' /\ CountsFit' /\ Alerted' /\ AlertsFit'
      /\ rollup' \in [Catch!Sources -> Catch!Rollup \cup {None}]
           /\ alerts' \subseteq [source : Catch!Sources, at : 0 .. MaxTime]
      /\ localparts' \subseteq [source : Catch!Sources, localpart : Catch!Localparts,
           seen : 0 .. MaxTime]
  BY <1>1, ProbeCounts
<1>5. flight' \in [Catch!Ids -> {"new", "scored", "done", "scanning", "scanned"}]
  BY <1>2 DEF CatchallInv, Catch!TypeOK
<1>6. hub' \subseteq Catch!Ids
  BY <1>1 DEF CatchallInv, Catch!TypeOK
<1>7. failures' \in 0 .. MaxFailures
  BY <1>1 DEF CatchallInv, Catch!TypeOK, CatchallConstants
<1>8. now' \in 0 .. MaxTime /\ stamp' \in [Catch!Ids -> 0 .. MaxTime] /\ StampsPast'
  BY <1>1 DEF CatchallInv, Catch!TypeOK, StampsPast
<1>9. Catch!TypeOK'
  BY <1>3, <1>4, <1>5, <1>6, <1>7, <1>8 DEF Catch!TypeOK
<1>. QED BY <1>3, <1>4, <1>8, <1>9 DEF CatchallInv

LEMMA NextCatchallInv == ASSUME CatchallConstants, CatchallInv, [Catch!Next]_(Catch!vars)
PROVE CatchallInv'
BY QuietCatchallInv, PersistCatchallInv, DeepScanCatchallInv DEF Catch!Next

LEMMA CatchallImplied ==
  ASSUME CatchallConstants, CatchallInv
  PROVE  Catch!TypeOK /\ Catch!HarvestIsAlerted /\ Catch!AlertsDebounced
           /\ Catch!SamplesAreNewest /\ Catch!CountersAddUp
<1>1. Catch!TypeOK /\ Catch!AlertsDebounced
  BY DEF CatchallInv, AlertsFit
<1>2. Catch!SamplesAreNewest
  BY CatchCardinality DEF CatchallInv, SamplesFit, Evicted, Younger, Catch!SamplesAreNewest
<1>3. Catch!HarvestIsAlerted
  <2>1. SUFFICES ASSUME NEW s \in Catch!Sources, Cardinality(PartsOf(s)) >= AlertThreshold
                 PROVE  \E a \in alerts : a.source = s
                          /\ a.at + Window > Catch!Max({l.seen : l \in PartsOf(s)})
    BY CatchCardinality DEF Catch!HarvestIsAlerted, PartsOf
  <2>2. PICK a \in alerts : a.source = s /\ \A l \in PartsOf(s) : a.at + Window > l.seen
    BY <2>1 DEF CatchallInv, Alerted
  <2>3. PartsOf(s) # {}
    <3>1. AlertThreshold \in Nat \ {0}
      BY DEF CatchallConstants
    <3>. QED BY <2>1, <3>1, FS_EmptySet
  <2>4. PICK m \in PartsOf(s) : \A l \in PartsOf(s) : m.seen >= l.seen
    <3>1. PICK l \in PartsOf(s) : TRUE
      BY <2>3
    <3>2. l \in localparts /\ l.source = s
      BY DEF PartsOf
    <3>3. rollup[s] # None
      BY <3>2 DEF CatchallInv, PartsFit
    <3>4. PICK m \in localparts : m.source = s /\ m.seen = rollup[s].seen
      BY <3>3 DEF CatchallInv, CountsFit, Counts
    <3>5. \A q \in PartsOf(s) : q.seen <= rollup[s].seen /\ q.seen \in Nat
      BY DEF PartsOf, CatchallInv, PartsFit, Catch!TypeOK
    <3>6. m \in PartsOf(s)
      BY <3>4 DEF PartsOf
    <3>. QED BY <3>4, <3>5, <3>6
  <2>. DEFINE S == {l.seen : l \in PartsOf(s)}
  <2>5. m.seen \in S /\ \A y \in S : m.seen >= y
    BY <2>4
  <2>6. Catch!Max(S) \in S
    <3>. HIDE DEF S
    <3>. QED BY <2>5 DEF Catch!Max
  <2>7. a.at + Window > Catch!Max(S)
    <3>1. PICK l \in PartsOf(s) : Catch!Max(S) = l.seen
      BY <2>6
    <3>. QED BY <2>2, <3>1
  <2>. QED BY <2>2, <2>7
<1>4. Catch!CountersAddUp
  <2>1. \A l \in localparts : rollup[l.source] # None
    BY DEF CatchallInv, PartsFit
  <2>2. ASSUME NEW src \in Catch!Sources, rollup[src] # None
        PROVE  /\ \E l \in localparts : l.source = src
               /\ Cardinality({l \in localparts : l.source = src}) <= rollup[src].distinct
               /\ rollup[src].distinct <= rollup[src].count
               /\ Catch!toBand(rollup[src].max) \in {Catch!toBand(Catch!score(i)) :
                    i \in {j \in Catch!Ids : Probes[j].source = src}}
    <3>1. Counts(src)
      BY <2>2 DEF CatchallInv, CountsFit
    <3>2. PICK i \in Catch!Ids : Probes[i].source = src /\ rollup[src].max = Catch!score(i)
      BY <3>1 DEF Counts
    <3>3. Catch!toBand(rollup[src].max) = Catch!toBand(Catch!score(i))
            /\ i \in {j \in Catch!Ids : Probes[j].source = src}
      BY <3>2
    <3>. QED BY <3>1, <3>3 DEF Counts, PartsOf
  <2>. QED BY <2>1, <2>2, CatchCardinality DEF Catch!CountersAddUp
<1>. QED BY <1>1, <1>2, <1>3, <1>4

\* A domain's catch-all intelligence (catchall-intel.ts): a source that tried as
\* many local parts as the threshold has an alert in the log that covers its last
\* probe, two alerts are a window apart, the buffer gives up nothing younger than
\* what it keeps, and the counters agree with what is on file.
THEOREM HarvestsStayAlerted ==
  CatchallConstants =>
    (Catch!Spec => [](Catch!TypeOK /\ Catch!HarvestIsAlerted /\ Catch!AlertsDebounced
      /\ Catch!SamplesAreNewest /\ Catch!CountersAddUp))
<1>. SUFFICES ASSUME CatchallConstants
              PROVE  Catch!Spec => [](Catch!TypeOK /\ Catch!HarvestIsAlerted
                       /\ Catch!AlertsDebounced /\ Catch!SamplesAreNewest
                                 /\ Catch!CountersAddUp)
  OBVIOUS
<1>1. Catch!Init => CatchallInv
  BY InitCatchallInv
<1>2. CatchallInv /\ [Catch!Next]_(Catch!vars) => CatchallInv'
  BY NextCatchallInv
<1>3. CatchallInv => Catch!TypeOK /\ Catch!HarvestIsAlerted /\ Catch!AlertsDebounced
        /\ Catch!SamplesAreNewest /\ Catch!CountersAddUp
  BY CatchallImplied
<1>. QED BY <1>1, <1>2, <1>3, PTL DEF Catch!Spec

-----------------------------------------------------------------------------
(* A deployment's requests to a hub, and what it shows of the answers: HubPosts. *)

CONSTANTS Hosts, Allowed, Lower, Prefixed, Keys, Legacy, Bodies, Mails, Box,
          MaxBegun, MaxMisses, MaxEdits
VARIABLES tiers, msg, stored, issued, sent, reply, begun, misses, edits
Post == INSTANCE HubPosts WITH req <- msg, invites <- issued, shown <- reply, requests <- begun, faults <- misses, MaxRequests <- MaxBegun, MaxFaults <- MaxMisses, hub <- stored

\* What the constants are: the bounds are numbers.
PostConstants == {MaxBegun, MaxMisses, MaxEdits} \subseteq Nat

\* A request rests on the blocks that could be read when it was begun.
Consented(s) ==
  s.what \in Post!Reports =>
    LET said == {k \in Post!Kinds \ s.saw.failed : s.saw.tiers[k] # None}
        b(k) == s.saw.tiers[k].hub
        rests(k) == /\ k \in said /\ b(k) # None /\ b(k).auto /\ b(k).url = s.url
                    /\ b(k).org = s.event.org /\ b(k).group = s.event.group
    IN
    IF s.what # "probes" THEN rests(Post!narrowest(said))
    ELSE \/ rests("domain")
         \/ rests("org") /\ ("domain" \notin said \/ Post!validateHubConfig(b("domain")) = None)
Paired(s) ==
  /\ s.url.scheme = "https" /\ Lower[s.url.host] \in Allowed
  /\ \E b \in Post!blocksOf(s) : b.url = s.url /\ b.secret \in Prefixed /\ Keys[b.secret] = s.key
\* An invite on its way counts, and clears what the browser showed.
PostCounts ==
  /\ issued \in Nat /\ begun \in Nat /\ misses \in Nat /\ edits \in Nat
  /\ begun <= MaxBegun /\ misses <= MaxMisses /\ edits <= MaxEdits
  /\ issued <= begun /\ (msg # None => issued < begun)
PageFits ==
  /\ msg # None => /\ msg.what \in Post!Reports \cup Post!Pages \cup {"invites"}
                   /\ msg.what = "invites" => reply = None
  /\ reply # None => /\ reply.status \in {200, 201, 403, 412, 500, 502}
                     /\ reply.what \in Post!Pages => reply.data \subseteq Post!holds(reply.what)
                     /\ (reply.what = "invites" /\ reply.data # {}) => reply.data = {issued}
  /\ (issued = begun /\ misses = 0) => reply = None \/ reply.data = {issued}
PostInv ==
  /\ DOMAIN tiers = Post!Kinds /\ PostCounts /\ PageFits
  /\ \A s \in sent : Paired(s) /\ Consented(s)

\* The instance counts as its host does.
LEMMA PostCardinality == \A S : Post!Cardinality(S) = Cardinality(S)
BY DEF Post!Cardinality, Cardinality

LEMMA NarrowestIsOne == ASSUME NEW ks \in SUBSET Post!Kinds, ks # {} PROVE Post!narrowest(ks) \in ks
<1>1. \E k \in ks : \A o \in ks : Post!Rank[o] <= Post!Rank[k]
  <2>1. \A k \in Post!Kinds : Post!Rank[k] = CASE k = "mailbox" -> 3 [] k = "domain" -> 2 [] k =
          "org" -> 1
    BY DEF Post!Rank
  <2>2. Post!Rank["mailbox"] = 3 /\ Post!Rank["domain"] = 2 /\ Post!Rank["org"] = 1
    BY <2>1 DEF Post!Kinds
  <2>3. CASE "mailbox" \in ks
    BY <2>2, <2>3 DEF Post!Kinds
  <2>4. CASE "mailbox" \notin ks /\ "domain" \in ks
    <3>1. \A o \in ks : o = "domain" \/ o = "org"
      BY <2>4 DEF Post!Kinds
    <3>. QED BY <2>2, <2>4, <3>1
  <2>5. CASE "mailbox" \notin ks /\ "domain" \notin ks
    <3>1. ks = {"org"}
      BY <2>5 DEF Post!Kinds
    <3>. QED BY <2>2, <3>1
  <2>. QED BY <2>3, <2>4, <2>5
<1>. QED BY <1>1 DEF Post!narrowest

\* A tier that was read is one that is there, and could be.
LEMMA ReadIsSaid ==
  ASSUME NEW failed \in SUBSET Post!Kinds, NEW k \in Post!Kinds
  PROVE  /\ Post!reading(failed)[k] # None <=> k \notin failed /\ tiers[k] # None
         /\ Post!reading(failed)[k] # None => Post!reading(failed)[k] = tiers[k]
BY DEF Post!reading

LEMMA ValidConfig ==
  ASSUME NEW b, Post!validateHubConfig(b) # None
  PROVE  /\ Post!validateHubConfig(b) = b /\ b # None
         /\ b.secret \in Prefixed /\ b.url.scheme = "https" /\ Lower[b.url.host] \in Allowed
BY DEF Post!validateHubConfig, Post!hostAllowed

\* Which tier's block a mailbox's credentials are of, and which a domain's.
LEMMA MailboxCredentials ==
  ASSUME NEW failed \in SUBSET Post!Kinds, NEW creds,
           creds = Post!loadHubCredentials(Post!reading(failed)), creds # None,
         NEW said, said = {k \in Post!Kinds \ failed : tiers[k] # None}
  PROVE  /\ Post!narrowest(said) \in said /\ creds.cfg = tiers[Post!narrowest(said)].hub
         /\ creds.cfg # None /\ creds.cfg.secret \in Prefixed /\ creds.key = Keys[creds.cfg.secret]
         /\ creds.cfg.url.scheme = "https" /\ Lower[creds.cfg.url.host] \in Allowed
<1>. DEFINE t == Post!reading(failed)
            cfg == Post!loadHubConfig(t)
<1>1. {k \in Post!Kinds : t[k] # None} = said
  BY ReadIsSaid
<1>2. cfg # None /\ creds = [cfg |-> cfg, key |-> Keys[cfg.secret]]
  BY DEF Post!loadHubCredentials, Post!credentials
<1>. HIDE DEF t
<1>3. said # {} /\ cfg = Post!validateHubConfig(t[Post!narrowest(said)].hub)
  BY <1>1, <1>2 DEF Post!loadHubConfig
<1>4. Post!narrowest(said) \in said
  BY <1>3, NarrowestIsOne
<1>5. t[Post!narrowest(said)] = tiers[Post!narrowest(said)]
  BY <1>4, ReadIsSaid DEF t
<1>. HIDE DEF cfg
<1>6. cfg = tiers[Post!narrowest(said)].hub /\ cfg.secret \in Prefixed
      /\ cfg.url.scheme = "https" /\ Lower[cfg.url.host] \in Allowed
  BY <1>2, <1>3, <1>5, ValidConfig
<1>. QED BY <1>2, <1>4, <1>6

LEMMA DomainCredentials ==
  ASSUME NEW failed \in SUBSET Post!Kinds, NEW creds,
           creds = Post!loadHubCredentialsForDomain(Post!reading(failed)),
         creds # None, NEW said, said = {k \in Post!Kinds \ failed : tiers[k] # None}
  PROVE  /\ \E k \in said : /\ creds.cfg = tiers[k].hub
                            /\ \/ k = "domain"
                               \/ k = "org" /\ ("domain" \notin said
                                    \/ Post!validateHubConfig(tiers["domain"].hub) = None)
         /\ creds.cfg # None /\ creds.cfg.secret \in Prefixed /\ creds.key = Keys[creds.cfg.secret]
         /\ creds.cfg.url.scheme = "https" /\ Lower[creds.cfg.url.host] \in Allowed
<1>. DEFINE t == Post!reading(failed)
            cfg == Post!loadHubConfigForDomain(t)
            of(k) == IF t[k] = None THEN None ELSE Post!validateHubConfig(t[k].hub)
<1>1. cfg # None /\ creds = [cfg |-> cfg, key |-> Keys[cfg.secret]]
  BY DEF Post!loadHubCredentialsForDomain, Post!credentials
<1>2. cfg = IF of("domain") # None THEN of("domain") ELSE of("org")
  BY DEF Post!loadHubConfigForDomain
<1>3. "domain" \in Post!Kinds /\ "org" \in Post!Kinds
  BY DEF Post!Kinds
<1>4. \A k \in Post!Kinds : of(k) # None => k \in said /\ of(k) = Post!validateHubConfig(tiers[k].hub)
  BY ReadIsSaid
<1>5. ("domain" \in said /\ of("domain") = None) => Post!validateHubConfig(tiers["domain"].hub) = None
  BY <1>3, ReadIsSaid
<1>. HIDE DEF cfg, of
<1>6. PICK k \in said : /\ cfg = Post!validateHubConfig(tiers[k].hub)
                        /\ \/ k = "domain"
                           \/ k = "org" /\ ("domain" \notin said
                                \/ Post!validateHubConfig(tiers["domain"].hub) = None)
  BY <1>1, <1>2, <1>3, <1>4, <1>5
<1>7. cfg = tiers[k].hub /\ cfg.secret \in Prefixed /\ cfg.url.scheme = "https"
        /\ Lower[cfg.url.host] \in Allowed
  BY <1>1, <1>6, ValidConfig
<1>. QED BY <1>1, <1>6, <1>7

LEMMA EventIsOfBlock ==
  ASSUME NEW what \in Post!Reports, NEW cfg, NEW m, NEW e, e = Post!eventOf(what, cfg, m)
  PROVE  e.org = cfg.org /\ e.group = cfg.group
<1>1. ASSUME NEW n, NEW title
      PROVE  Post!buildMispEvent(cfg, n, title).org = cfg.org
               /\ Post!buildMispEvent(cfg, n, title).group = cfg.group
  BY DEF Post!buildMispEvent
<1>2. ASSUME NEW n
      PROVE  Post!buildHoneypotMispEvent(cfg, n).org = cfg.org
               /\ Post!buildHoneypotMispEvent(cfg, n).group = cfg.group
  BY DEF Post!buildHoneypotMispEvent, Post!buildMispEvent
<1>3. CASE what = "case"
  BY <1>1, <1>3 DEF Post!eventOf
<1>4. CASE what = "honeypot"
  BY <1>2, <1>4 DEF Post!eventOf
<1>5. CASE what = "probes"
  BY <1>5 DEF Post!eventOf
<1>. QED BY <1>3, <1>4, <1>5 DEF Post!Reports

(* ---------------------------------------------------------- the invariant --- *)

LEMMA InitPostInv == ASSUME PostConstants, Post!Init PROVE PostInv
<1>1. DOMAIN tiers = Post!Kinds /\ sent = {}
  BY DEF Post!Init
<1>2. PostCounts
  BY DEF Post!Init, PostCounts, PostConstants
<1>3. PageFits
  BY DEF Post!Init, PageFits
<1>. QED BY <1>1, <1>2, <1>3 DEF PostInv

\* What every request does to the counters.
LEMMA BeginFits ==
  ASSUME PostConstants, PostInv, NEW what, NEW failed \in SUBSET Post!Kinds, Post!begin(what, failed)
  PROVE  PostCounts' /\ issued' < begun' /\ UNCHANGED <<tiers, stored, issued, edits>>
<1>1. IsFiniteSet(failed)
  <2>1. IsFiniteSet(Post!Kinds)
    <3>1. IsFiniteSet({"mailbox"}) /\ IsFiniteSet({"domain"}) /\ IsFiniteSet({"org"})
      BY FS_Singleton
    <3>2. IsFiniteSet({"mailbox"} \cup {"domain"})
      BY <3>1, FS_Union
    <3>3. IsFiniteSet(({"mailbox"} \cup {"domain"}) \cup {"org"})
      BY <3>1, <3>2, FS_Union
    <3>4. Post!Kinds = ({"mailbox"} \cup {"domain"}) \cup {"org"}
      BY DEF Post!Kinds
    <3>. QED BY <3>3, <3>4
  <2>. QED BY <2>1, FS_Subset
<1>2. Cardinality(failed) \in Nat
  BY <1>1, FS_CardinalityType
<1>3. /\ begun < MaxBegun /\ begun' = begun + 1
      /\ misses + Cardinality(failed) <= MaxMisses /\ misses' = misses + Cardinality(failed)
      /\ UNCHANGED <<tiers, stored, issued, edits>>
  BY PostCardinality DEF Post!begin
<1>4. issued' < begun' /\ begun' \in Nat /\ misses' \in Nat /\ begun' <= MaxBegun
      /\ misses' <= MaxMisses /\ issued' <= begun'
  BY <1>2, <1>3 DEF PostInv, PostCounts, PostConstants
<1>. QED BY <1>3, <1>4 DEF PostInv, PostCounts

\* A request that leaves with a mailbox's or a domain's credentials is paired.
LEMMA OutgoingPaired ==
  ASSUME NEW what, NEW creds, NEW event, NEW failed \in SUBSET Post!Kinds,
         NEW k \in Post!Kinds \ failed, tiers[k] # None, creds.cfg = tiers[k].hub, creds.cfg # None,
         creds.cfg.secret \in Prefixed, creds.key = Keys[creds.cfg.secret],
         creds.cfg.url.scheme = "https", Lower[creds.cfg.url.host] \in Allowed,
         NEW s, s = Post!outgoing(what, creds, event, failed)
  PROVE  Paired(s)
<1>1. /\ s.url = creds.cfg.url /\ s.key = creds.key
      /\ s.saw = [tiers |-> tiers, failed |-> failed]
  BY DEF Post!outgoing
<1>2. s.saw.tiers = tiers /\ s.saw.failed = failed
  BY <1>1
<1>3. creds.cfg \in Post!blocksOf(s)
  BY <1>2 DEF Post!blocksOf
<1>. QED BY <1>1, <1>3 DEF Paired

LEMMA ReportPostInv ==
  ASSUME PostConstants, PostInv, NEW what \in Post!Reports, NEW m \in DOMAIN Mails, Post!report(what, m)
  PROVE  PostInv'
<1>. DEFINE mail == Mails[m]
<1>1. PICK failed \in SUBSET Post!Kinds :
        LET creds == IF what = "probes" THEN Post!loadHubCredentialsForDomain(Post!reading(failed))
                                        ELSE Post!loadHubCredentials(Post!reading(failed))
        IN  /\ Post!begin(what, failed) /\ reply' = reply
            /\ msg' = IF Post!silent(what, creds, mail) THEN None
                      ELSE Post!outgoing(what, creds, Post!eventOf(what, creds.cfg, mail), failed)
            /\ sent' = IF Post!silent(what, creds, mail) THEN sent ELSE sent \cup {msg'}
  BY DEF Post!report
<1>. DEFINE creds == IF what = "probes" THEN Post!loadHubCredentialsForDomain(Post!reading(failed))
                                        ELSE Post!loadHubCredentials(Post!reading(failed))
            event == Post!eventOf(what, creds.cfg, mail)
            said == {k \in Post!Kinds \ failed : tiers[k] # None}
<1>2. /\ Post!begin(what, failed) /\ reply' = reply
      /\ \/ msg' = None /\ sent' = sent
         \/ /\ ~Post!silent(what, creds, mail) /\ msg' = Post!outgoing(what, creds, event, failed)
            /\ sent' = sent \cup {msg'}
  BY <1>1
<1>. HIDE DEF creds
<1>3. PostCounts' /\ issued' < begun' /\ UNCHANGED <<tiers, stored, issued, edits>>
  BY <1>2, BeginFits
<1>4. msg' # None => msg'.what = what
  BY <1>2 DEF Post!outgoing
<1>5. PageFits'
  <2>1. what # "invites"
    BY DEF Post!Reports
  <2>2. issued' # begun'
    BY <1>3 DEF PostCounts
  <2>. QED BY <1>2, <1>3, <1>4, <2>1, <2>2 DEF PostInv, PageFits, Post!holds
<1>6. ASSUME ~Post!silent(what, creds, mail), msg' = Post!outgoing(what, creds, event, failed)
      PROVE  Paired(msg') /\ Consented(msg')
  <2>. DEFINE s == msg'
  <2>1. creds # None /\ creds.cfg.auto
    BY <1>6 DEF Post!silent
  <2>2. /\ s.what = what /\ s.url = creds.cfg.url /\ s.event = event
        /\ s.saw = [tiers |-> tiers, failed |-> failed]
    BY <1>6 DEF Post!outgoing
  <2>3. s.saw.tiers = tiers /\ s.saw.failed = failed
    BY <2>2
  <2>4. event.org = creds.cfg.org /\ event.group = creds.cfg.group
    BY EventIsOfBlock
  <2>5. CASE what = "probes"
    <3>1. creds = Post!loadHubCredentialsForDomain(Post!reading(failed))
      BY <2>5 DEF creds
    <3>2. PICK k \in said :
            /\ creds.cfg = tiers[k].hub
            /\ \/ k = "domain"
               \/ k = "org" /\ ("domain" \notin said
                    \/ Post!validateHubConfig(tiers["domain"].hub) = None)
      BY <2>1, <3>1, DomainCredentials
    <3>3. /\ creds.cfg # None /\ creds.cfg.secret \in Prefixed /\ creds.key = Keys[creds.cfg.secret]
          /\ creds.cfg.url.scheme = "https" /\ Lower[creds.cfg.url.host] \in Allowed
      BY <2>1, <3>1, DomainCredentials
    <3>4. Paired(s)
      BY <1>6, <3>2, <3>3, OutgoingPaired
    <3>5. Consented(s)
      <4>. HIDE DEF s, event
      <4>. QED BY <2>1, <2>2, <2>3, <2>4, <2>5, <3>2, <3>3 DEF Consented
    <3>. QED BY <3>4, <3>5
  <2>6. CASE what # "probes"
    <3>1. creds = Post!loadHubCredentials(Post!reading(failed))
      BY <2>6 DEF creds
    <3>2. /\ Post!narrowest(said) \in said /\ creds.cfg = tiers[Post!narrowest(said)].hub
          /\ creds.cfg # None /\ creds.cfg.secret \in Prefixed /\ creds.key = Keys[creds.cfg.secret]
          /\ creds.cfg.url.scheme = "https" /\ Lower[creds.cfg.url.host] \in Allowed
      BY <2>1, <3>1, MailboxCredentials
    <3>3. Paired(s)
      BY <1>6, <3>2, OutgoingPaired
    <3>4. Consented(s)
      <4>. HIDE DEF s, event
      <4>. QED BY <2>1, <2>2, <2>3, <2>4, <2>6, <3>2 DEF Consented
    <3>. QED BY <3>3, <3>4
  <2>. QED BY <2>5, <2>6
<1>7. \A s \in sent' : Paired(s) /\ Consented(s)
  BY <1>2, <1>6 DEF PostInv
<1>. QED BY <1>3, <1>5, <1>7 DEF PostInv, Paired, Consented, Post!blocksOf

LEMMA PagePostInv ==
  ASSUME PostConstants, PostInv, NEW what \in Post!Pages \cup {"invites"}, Post!withHubClient(what)
  PROVE  PostInv'
<1>1. PICK failed \in SUBSET Post!Kinds :
        LET creds == Post!loadHubCredentials(Post!reading(failed)) IN
        /\ Post!begin(what, failed)
        /\ \/ /\ creds = None /\ UNCHANGED <<msg, sent>>
              /\ reply' = [what |-> what, data |-> {}, status |-> IF what = "invites" THEN 412 ELSE 200]
           \/ /\ creds # None /\ reply' = None
              /\ msg' = Post!outgoing(what, creds, None, failed) /\ sent' = sent \cup {msg'}
  BY DEF Post!withHubClient
<1>. DEFINE creds == Post!loadHubCredentials(Post!reading(failed))
            said == {k \in Post!Kinds \ failed : tiers[k] # None}
<1>2. /\ Post!begin(what, failed) /\ msg = None
      /\ \/ /\ UNCHANGED <<msg, sent>>
            /\ reply' = [what |-> what, data |-> {}, status |-> IF what = "invites" THEN 412 ELSE 200]
         \/ /\ creds # None /\ reply' = None
            /\ msg' = Post!outgoing(what, creds, None, failed) /\ sent' = sent \cup {msg'}
  BY <1>1 DEF Post!begin
<1>. HIDE DEF creds
<1>3. PostCounts' /\ issued' < begun' /\ UNCHANGED <<tiers, stored, issued, edits>>
  BY <1>2, BeginFits
<1>4. issued' # begun'
  BY <1>3 DEF PostCounts
<1>5. PageFits'
  <2>1. CASE UNCHANGED <<msg, sent>>
             /\ reply' = [what |-> what, data |-> {}, status |-> IF what = "invites" THEN 412 ELSE 200]
    <3>1. reply'.status \in {412, 200} /\ reply'.data = {}
      BY <2>1
    <3>2. msg' = None
      BY <1>2, <2>1
    <3>. QED BY <1>4, <3>1, <3>2 DEF PageFits
  <2>2. CASE reply' = None /\ msg' = Post!outgoing(what, creds, None, failed)
    <3>1. msg'.what = what
      BY <2>2 DEF Post!outgoing
    <3>. QED BY <2>2, <3>1 DEF PageFits
  <2>. QED BY <1>2, <2>1, <2>2
<1>6. ASSUME creds # None, msg' = Post!outgoing(what, creds, None, failed)
      PROVE  Paired(msg') /\ Consented(msg')
  <2>1. /\ Post!narrowest(said) \in said /\ creds.cfg = tiers[Post!narrowest(said)].hub
        /\ creds.cfg # None /\ creds.cfg.secret \in Prefixed /\ creds.key = Keys[creds.cfg.secret]
        /\ creds.cfg.url.scheme = "https" /\ Lower[creds.cfg.url.host] \in Allowed
    BY <1>6, MailboxCredentials DEF creds
  <2>2. Paired(msg')
    BY <1>6, <2>1, OutgoingPaired
  <2>3. msg'.what = what /\ what \notin Post!Reports
    BY <1>6 DEF Post!outgoing, Post!Pages, Post!Reports
  <2>4. Consented(msg')
    BY <2>3 DEF Consented
  <2>. QED BY <2>2, <2>4
<1>7. \A s \in sent' : Paired(s) /\ Consented(s)
  BY <1>2, <1>6 DEF PostInv
<1>. QED BY <1>3, <1>5, <1>7 DEF PostInv

\* What the hub holds only grows.
LEMMA HoldsGrows == ASSUME stored \subseteq stored', NEW what
PROVE Post!holds(what) \subseteq Post!holds(what)'
<1>1. CASE what = "contributions"
  BY <1>1 DEF Post!holds
<1>2. CASE what = "destroylist"
  BY <1>2 DEF Post!holds
<1>3. CASE what # "contributions" /\ what # "destroylist"
  BY <1>3 DEF Post!holds
<1>. QED BY <1>1, <1>2, <1>3

LEMMA AnswerPostInv ==
  ASSUME PostConstants, PostInv, (\E ok \in BOOLEAN : Post!answered(ok)) \/ Post!unanswered
  PROVE PostInv'
<1>1. PICK ok \in BOOLEAN : Post!takes(ok)
  BY DEF Post!answered, Post!unanswered
<1>2. /\ msg # None /\ msg' = None /\ UNCHANGED <<tiers, sent, begun, edits>>
      /\ misses' = misses \/ (misses < MaxMisses /\ misses' = misses + 1)
  BY DEF Post!answered, Post!unanswered
<1>3. stored \subseteq stored' /\ (issued' = issued \/ (msg.what = "invites" /\ issued' = issued + 1))
  BY <1>1 DEF Post!takes
<1>n. /\ MaxMisses \in Nat /\ misses \in Nat /\ misses <= MaxMisses
      /\ issued \in Nat /\ begun \in Nat /\ issued < begun
      /\ begun <= MaxBegun /\ edits \in Nat /\ edits <= MaxEdits
  BY <1>2 DEF PostConstants, PostInv, PostCounts
<1>4. PostCounts'
  <2>1. misses' \in Nat /\ misses' <= MaxMisses
    BY <1>2, <1>n
  <2>2. issued' \in Nat /\ issued' <= begun
    BY <1>3, <1>n
  <2>3. UNCHANGED <<begun, edits>> /\ msg' = None
    BY <1>2
  <2>. QED BY <1>n, <2>1, <2>2, <2>3 DEF PostCounts
<1>5. msg.what \in Post!Reports \cup Post!Pages \cup {"invites"} /\ (msg.what = "invites" =>
        reply = None)
  BY <1>2 DEF PostInv, PageFits
<1>6. misses' = 0 => \E yes \in BOOLEAN : Post!answered(yes)
  <2>1. CASE Post!unanswered
    <3>1. misses' = misses + 1
      BY <2>1 DEF Post!unanswered
    <3>. QED BY <1>n, <3>1
  <2>. QED BY <2>1
<1>7. CASE msg.what \in Post!Reports
  <2>1. reply' = reply /\ issued' = issued
    <3>1. msg.what \notin Post!Pages /\ msg.what # "invites"
      BY <1>7 DEF Post!Reports, Post!Pages
    <3>. QED BY <1>3, <1>7, <3>1 DEF Post!answered, Post!unanswered
  <2>2. issued' # begun'
    BY <1>2, <2>1 DEF PostInv, PostCounts
  <2>3. \A what : Post!holds(what) \subseteq Post!holds(what)'
    BY <1>3, HoldsGrows
  <2>4. PageFits'
    BY <1>2, <2>1, <2>2, <2>3 DEF PostInv, PageFits
  <2>. QED BY <1>2, <1>4, <2>4 DEF PostInv
<1>8. CASE msg.what \in Post!Pages
  <2>1. msg.what \notin Post!Reports /\ msg.what # "invites"
    BY <1>8 DEF Post!Reports, Post!Pages
  <2>2. stored' = stored /\ issued' = issued
    BY <1>1, <2>1 DEF Post!takes
  <2>3. \/ \E yes \in BOOLEAN : reply' =
             [what |-> msg.what, data |-> IF yes THEN Post!holds(msg.what) ELSE {}, status |-> 200]
        \/ reply' = [what |-> msg.what, data |-> {}, status |-> 500]
    BY <1>8, <2>1 DEF Post!answered, Post!unanswered, Post!answering
  <2>4. reply'.what = msg.what /\ reply'.data \subseteq Post!holds(msg.what)
          /\ reply'.status \in {200, 500}
    BY <2>3
  <2>5. issued' # begun'
    BY <1>2, <2>2 DEF PostInv, PostCounts
  <2>6. Post!holds(msg.what)' = Post!holds(msg.what) \/ TRUE
    OBVIOUS
  <2>7. PageFits'
    <3>1. \A what : Post!holds(what) \subseteq Post!holds(what)'
      BY <1>3, HoldsGrows
    <3>2. PICK w : w = msg.what
      OBVIOUS
    <3>3. reply'.what = w /\ w # "invites" /\ reply'.data \subseteq Post!holds(w)
      BY <2>1, <2>4, <3>2
    <3>4. reply'.data \subseteq Post!holds(w)'
      BY <3>1, <3>3
    <3>. QED BY <1>2, <2>4, <2>5, <3>3, <3>4 DEF PageFits
  <2>. QED BY <1>2, <1>4, <2>7 DEF PostInv
<1>9. CASE msg.what = "invites"
  <2>1. msg.what \notin Post!Reports /\ msg.what \notin Post!Pages
    BY <1>9 DEF Post!Reports, Post!Pages
  <2>2. ASSUME NEW yes \in BOOLEAN, Post!answered(yes)
        PROVE  /\ reply' = [what |-> "invites", data |-> IF yes THEN {issued'} ELSE {},
                            status |-> IF yes THEN 201 ELSE 403]
               /\ issued' = IF yes THEN issued + 1 ELSE issued
    BY <1>9, <2>1, <2>2 DEF Post!answered, Post!answering, Post!takes
  <2>3. ASSUME Post!unanswered PROVE reply' = [what |-> "invites", data |-> {}, status |-> 502]
    BY <1>9, <2>1, <2>3 DEF Post!unanswered, Post!answering
  <2>4. reply'.what = "invites" /\ reply'.data \in {{}, {issued'}} /\ reply'.status \in {201, 403, 502}
    BY <2>2, <2>3
  <2>5. (issued' = begun' /\ misses' = 0) => reply'.data = {issued'}
    <3>1. SUFFICES ASSUME issued' = begun', misses' = 0 PROVE reply'.data = {issued'}
      OBVIOUS
    <3>2. PICK yes \in BOOLEAN : Post!answered(yes)
      BY <1>6, <3>1
    <3>3. issued < begun' /\ issued \in Nat
      BY <1>2 DEF PostInv, PostCounts
    <3>4. yes = TRUE
      <4>1. CASE yes = FALSE
        BY <2>2, <3>1, <3>2, <3>3, <4>1
      <4>. QED BY <4>1
    <3>5. reply' = [what |-> "invites", data |-> {issued'}, status |-> 201]
      BY <2>2, <3>2, <3>4
    <3>. QED BY <3>5
  <2>6. "invites" \notin Post!Pages
    BY DEF Post!Pages
  <2>7. PageFits'
    BY <1>2, <2>4, <2>5, <2>6 DEF PageFits
  <2>. QED BY <1>2, <1>4, <2>7 DEF PostInv
<1>. QED BY <1>5, <1>7, <1>8, <1>9

LEMMA QuietPostInv ==
  ASSUME PostConstants, PostInv, UNCHANGED Post!vars
           \/ \E k \in Post!Kinds, b \in Bodies : Post!saveTier(k, b)
  PROVE  PostInv'
<1>1. DOMAIN tiers' = Post!Kinds /\ UNCHANGED <<msg, stored, issued, sent, reply, begun, misses>>
      /\ (edits' = edits \/ (edits < MaxEdits /\ edits' = edits + 1))
  BY DEF Post!vars, Post!saveTier, PostInv
<1>2. PostCounts'
  <2>1. /\ edits \in Nat /\ edits <= MaxEdits /\ MaxEdits \in Nat /\ PostCounts
    BY DEF PostConstants, PostInv, PostCounts
  <2>2. edits' \in Nat /\ edits' <= MaxEdits
    BY <1>1, <2>1
  <2>. QED BY <1>1, <2>1, <2>2 DEF PostCounts
<1>3. PageFits'
  BY <1>1 DEF PostInv, PageFits, Post!holds
<1>. QED BY <1>1, <1>2, <1>3 DEF PostInv

LEMMA NextPostInv == ASSUME PostConstants, PostInv, [Post!Next]_(Post!vars) PROVE PostInv'
BY ReportPostInv, PagePostInv, AnswerPostInv, QuietPostInv DEF Post!Next

LEMMA PostImplied ==
  ASSUME PostConstants, PostInv PROVE Post!TypeOK /\ Post!KeyStaysPaired /\ Post!ConsentGiven
           /\ Post!PagesHonest
<1>0. issued \in 0..MaxBegun
  <2>1. issued \in Nat /\ begun \in Nat /\ issued <= begun /\ begun <= MaxBegun /\ MaxBegun \in Nat
    BY DEF PostConstants, PostInv, PostCounts
  <2>. QED BY <2>1
<1>1. Post!TypeOK
  BY <1>0 DEF PostInv, PostCounts, PageFits, Post!TypeOK
<1>2. Post!KeyStaysPaired
  BY DEF PostInv, Paired, Post!KeyStaysPaired
<1>3. Post!ConsentGiven
  BY DEF PostInv, Consented, Post!ConsentGiven
<1>4. Post!PagesHonest
  BY DEF PostInv, PageFits, Post!PagesHonest
<1>. QED BY <1>1, <1>2, <1>3, <1>4

\* A deployment's hub requests (hub-config.ts, report.ts): a key goes only to the
\* pinned host its own block names, nothing is reported but where the block that
\* counts opts in, and a page shows what the hub holds.
THEOREM PostsStayHonest ==
  PostConstants => (Post!Spec =>
    [](Post!TypeOK /\ Post!KeyStaysPaired /\ Post!ConsentGiven /\ Post!PagesHonest))
<1>. SUFFICES ASSUME PostConstants
      PROVE Post!Spec => [](Post!TypeOK /\ Post!KeyStaysPaired /\ Post!ConsentGiven /\ Post!PagesHonest)
  OBVIOUS
<1>1. Post!Init => PostInv
  BY InitPostInv
<1>2. PostInv /\ [Post!Next]_(Post!vars) => PostInv'
  BY NextPostInv
<1>3. PostInv => Post!TypeOK /\ Post!KeyStaysPaired /\ Post!ConsentGiven /\ Post!PagesHonest
  BY PostImplied
<1>. QED BY <1>1, <1>2, <1>3, PTL DEF Post!Spec

=============================================================================
