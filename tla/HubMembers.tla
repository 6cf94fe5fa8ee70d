----------------------------- MODULE HubMembers -----------------------------
(***************************************************************************)
(* Who belongs to the hub and to its sharing groups, and who may see which *)
(* event: invites, groups, events of members, and the peers an operator    *)
(* registers.  A handler reads first and writes in a later call; nothing   *)
(* takes a membership back.                                                *)
(***************************************************************************)
EXTENDS Naturals, FiniteSets, Sequences

CONSTANTS
  Founders,    \* orgs with a key from the start
  Newcomers,   \* orgs invites may create
  Peers,       \* peers the operator may register
  SyntheticOrg, \* [Peers -> the org its events will be of]
  Groups,      \* sharing groups that may be created
  Slots, MaxRequests, MaxRows, MaxFaults, None

VARIABLES
  orgs,        \* orgs, with the key of each
  members,     \* sharing_group_orgs: [Groups -> set of orgs, None before creation]
  owner,       \* [Groups -> the org that created it]
  invites,     \* sequence of [group, by, state, joined]
  events,      \* sequence of [org, group]
  peers,       \* [Peers -> discoverable, None without a row]
  inbound,     \* inbound_peers: [Peers -> its default group, None without a row]
  req,         \* [Slots -> the handler running, or None]
  shown,       \* answers given: [org, events, due]
  requests, faults

vars == <<orgs, members, owner, invites, events, peers, inbound, req, shown, requests, faults>>
tables == <<orgs, members, owner, invites, events, peers, inbound>>

groupsOf(o) == {g \in Groups : members[g] # None /\ o \in members[g]}
visible(o, gs) == {n \in DOMAIN events : events[n].org = o \/ events[n].group \in gs}

Init ==
  /\ orgs = Founders /\ members = [g \in Groups |-> None] /\ owner = [g \in Groups |-> None]
  /\ invites = <<>> /\ events = <<>>
  /\ peers = [p \in Peers |-> None] /\ inbound = [p \in Peers |-> None]
  /\ req = [r \in Slots |-> None] /\ shown = {} /\ requests = 0 /\ faults = 0

(* ------------------------------------------------------------- the requests --- *)

begin(r, op, at, org, group, row) ==
  /\ req[r] = None /\ requests < MaxRequests /\ requests' = requests + 1
  /\ req' = [req EXCEPT ![r] = [op |-> op, at |-> at, org |-> org, group |-> group, row |-> row,
                                groups |-> {}, due |-> {}, saw |-> 0]]
  /\ UNCHANGED <<tables, shown, faults>>

\* Open to anyone who has a token; the rate limit only refuses.
postAccept(r) == \E i \in DOMAIN invites : begin(r, "accept", "read", None, None, i)

\* The rest is asked by an org that exists (requireOrg).
postInvite(r, o, g) == begin(r, "invite", IF g = None THEN "write" ELSE "check", o, g, None)
postSharingGroup(r, o) == begin(r, "group", "write", o, None, None)
postEvent(r, o, g) == begin(r, "event", IF g = None THEN "write" ELSE "check", o, g, None)
getEvent(r, o) == \E n \in DOMAIN events : begin(r, "get", "read", o, None, n)
restSearch(r, o) == begin(r, "search", "read", o, None, None)

\* Behind HUB_ADMIN_KEY.
postPeer(r, p, g) == begin(r, "register", "check", None, g, p)
deletePeer(r, p) == begin(r, "remove", "read", None, None, p)
patchPeer(r, p) == begin(r, "publish", "read", None, None, p)

(* -------------------------------------------------------------- the answers --- *)

waits(r, point) == req[r] # None /\ req[r].at = point
goes(r, h) == req' = [req EXCEPT ![r] = h]
ends(r) == req' = [req EXCEPT ![r] = None]
answers(h, ns) == shown' = shown \cup {[org |-> h.org, events |-> ns, due |-> h.due]}

\* The row a request is about: an invite neither redeemed nor expired, an event
\* of one's own or of a group, a peer that is there, the groups one is in.
readRow(r) ==
  LET h == req[r] IN
  /\ waits(r, "read") /\ UNCHANGED <<tables, requests, faults>>
  /\ CASE h.op = "accept" ->
            /\ shown' = shown
            /\ IF invites[h.row].state = "open"
               THEN goes(r, [h EXCEPT !.at = "write", !.saw = Len(invites[h.row].joined)]) ELSE ends(r)
       [] h.op = "get" ->
            IF events[h.row].org = h.org THEN answers(h, {h.row}) /\ ends(r)
            ELSE /\ shown' = shown
                 /\ IF events[h.row].group = None THEN ends(r)
                    ELSE goes(r, [h EXCEPT !.at = "check", !.group = events[h.row].group])
       [] h.op = "search" ->
            /\ shown' = shown
            /\ goes(r, [h EXCEPT !.at = "select", !.groups = groupsOf(h.org), !.due = visible(h.org, groupsOf(h.org))])
       [] h.op \in {"remove", "publish"} ->
            /\ shown' = shown
            /\ IF inbound[h.row] = None THEN ends(r) ELSE goes(r, [h EXCEPT !.at = "write"])

\* Only members invite into a group, post to it and see its events; a peer
\* needs a group that exists and answers a probe, unless that is skipped.
checkGroup(r) ==
  LET h == req[r] IN
  /\ waits(r, "check") /\ UNCHANGED <<tables, requests, faults>>
  /\ CASE h.op = "get" -> ends(r) /\ IF h.group \in groupsOf(h.org) THEN answers(h, {h.row}) ELSE shown' = shown
       [] h.op = "register" ->
            /\ shown' = shown
            /\ \/ members[h.group] # None /\ goes(r, [h EXCEPT !.at = "write"])
               \/ ends(r)
       [] OTHER -> /\ shown' = shown
                   /\ IF h.group \in groupsOf(h.org) THEN goes(r, [h EXCEPT !.at = "write"]) ELSE ends(r)

selectEvents(r) ==
  /\ waits(r, "select") /\ answers(req[r], visible(req[r].org, req[r].groups)) /\ ends(r)
  /\ UNCHANGED <<tables, requests, faults>>

joins(o, g) == members' = IF g = None THEN members ELSE [members EXCEPT ![g] = @ \cup {o}]

\* One batch makes the org, its key and its membership, and marks the invite.
redeem(h) ==
  LET invite == invites[h.row] IN
  \E o \in Newcomers \ orgs :
    /\ orgs' = orgs \cup {o} /\ joins(o, invite.group)
    /\ invites' = [invites EXCEPT ![h.row].state = "used", ![h.row].joined = Append(@, [org |-> o, saw |-> h.saw])]
    /\ UNCHANGED <<owner, events, peers, inbound>>

issue(h) ==
  /\ Len(invites) < MaxRows
  /\ invites' = Append(invites, [group |-> h.group, by |-> h.org, state |-> "open", joined |-> <<>>])
  /\ UNCHANGED <<orgs, members, owner, events, peers, inbound>>

createGroup(h) ==
  \E g \in Groups :
    /\ members[g] = None /\ members' = [members EXCEPT ![g] = {h.org}] /\ owner' = [owner EXCEPT ![g] = h.org]
    /\ UNCHANGED <<orgs, invites, events, peers, inbound>>

insertEvent(h) ==
  /\ Len(events) < MaxRows /\ events' = Append(events, [org |-> h.org, group |-> h.group])
  /\ UNCHANGED <<orgs, members, owner, invites, peers, inbound>>

registerPeer(h) ==
  /\ SyntheticOrg[h.row] \notin orgs
  /\ orgs' = orgs \cup {SyntheticOrg[h.row]} /\ joins(SyntheticOrg[h.row], h.group)
  /\ peers' = [peers EXCEPT ![h.row] = FALSE] /\ inbound' = [inbound EXCEPT ![h.row] = h.group]
  /\ UNCHANGED <<owner, invites, events>>

\* The synthetic org stays, for its events.
removePeer(h) ==
  /\ peers' = [peers EXCEPT ![h.row] = None] /\ inbound' = [inbound EXCEPT ![h.row] = None]
  /\ UNCHANGED <<orgs, members, owner, invites, events>>

\* An update of a row that is gone changes nothing, and is answered with ok.
publishPeer(h) ==
  /\ peers' = IF peers[h.row] = None THEN peers ELSE [peers EXCEPT ![h.row] = ~@]
  /\ UNCHANGED <<orgs, members, owner, invites, events, inbound>>

writes(h) ==
  \/ h.op = "accept" /\ redeem(h)
  \/ h.op = "invite" /\ issue(h)
  \/ h.op = "group" /\ createGroup(h)
  \/ h.op = "event" /\ insertEvent(h)
  \/ h.op = "register" /\ registerPeer(h)
  \/ h.op = "remove" /\ removePeer(h)
  \/ h.op = "publish" /\ publishPeer(h)

writeRows(r) == waits(r, "write") /\ writes(req[r]) /\ ends(r) /\ UNCHANGED <<shown, requests, faults>>

\* A call fails, or takes effect and its answer is lost: an accepted invite is
\* then used up by an org nobody has the key of.
fails(r) ==
  /\ req[r] # None /\ faults < MaxFaults /\ faults' = faults + 1
  /\ ends(r) /\ UNCHANGED <<shown, requests>>
  /\ \/ UNCHANGED tables
     \/ req[r].at = "write" /\ writes(req[r])

expire(i) ==
  /\ invites[i].state = "open" /\ invites' = [invites EXCEPT ![i].state = "expired"]
  /\ UNCHANGED <<orgs, members, owner, events, peers, inbound, req, shown, requests, faults>>

Next ==
  \/ \E r \in Slots :
       \/ postAccept(r)
       \/ \E o \in orgs \cap (Founders \cup Newcomers) :
            \/ postSharingGroup(r, o) \/ getEvent(r, o) \/ restSearch(r, o)
            \/ \E g \in Groups \cup {None} : postInvite(r, o, g) \/ postEvent(r, o, g)
       \/ \E p \in Peers : deletePeer(r, p) \/ patchPeer(r, p) \/ \E g \in Groups : postPeer(r, p, g)
       \/ readRow(r) \/ checkGroup(r) \/ selectEvents(r) \/ writeRows(r) \/ fails(r)
  \/ \E i \in DOMAIN invites : expire(i)

Spec == Init /\ [][Next]_vars

(* ----------------------------------------------------------- the properties --- *)

AllOrgs == Founders \cup Newcomers \cup {SyntheticOrg[p] : p \in Peers}

TypeOK ==
  /\ orgs \subseteq AllOrgs /\ \A g \in Groups : members[g] = None \/ members[g] \subseteq orgs
  /\ \A i \in DOMAIN invites : invites[i].state \in {"open", "used", "expired"}
  /\ \A n \in DOMAIN events : events[n].org \in orgs
  /\ \A p \in Peers : peers[p] \in BOOLEAN \cup {None} /\ inbound[p] \in Groups \cup {None}
  /\ \A r \in Slots : req[r] # None => req[r].at \in {"read", "check", "select", "write"}
  /\ requests <= MaxRequests /\ faults <= MaxFaults

joinedBy(i) == {invites[i].joined[k].org : k \in DOMAIN invites[i].joined}

\* An org is there because it was from the start, an operator registered its
\* peer, or it redeemed one invite, which nobody had redeemed when it was read:
\* only overlapping redemptions share a token (orgs.ts:8).  It expires unused or
\* not at all.
InvitedOnce ==
  /\ \A o \in orgs \cap Newcomers : Cardinality({i \in DOMAIN invites : o \in joinedBy(i)}) = 1
  /\ \A i \in DOMAIN invites :
       /\ (invites[i].joined # <<>>) <=> (invites[i].state = "used")
       /\ \A k \in DOMAIN invites[i].joined : invites[i].joined[k].saw = 0

\* A member of a group created it, came with a peer that was put into it, or
\* redeemed an invite of an org that was a member already (orgs.ts:113).
MembersVouchedFor ==
  \A g \in Groups : members[g] # None =>
    \A o \in members[g] :
      \/ o = owner[g]
      \/ \E p \in Peers : o = SyntheticOrg[p]
      \/ \E i \in DOMAIN invites :
           invites[i].group = g /\ o \in joinedBy(i) /\ invites[i].by \in members[g] \ {o}

\* An org is shown its own events and those of its groups, and a page that is not
\* full leaves out none that it could see when it asked (events.ts:142,169),
\* although the memberships are read before the events are.
ShownToMembers ==
  /\ \A s \in shown : s.due \subseteq s.events /\ s.events \subseteq visible(s.org, groupsOf(s.org))
  /\ \A n \in DOMAIN events : events[n].group # None => events[n].group \in groupsOf(events[n].org)

\* A peer and its inbound row come and go together, however registrations,
\* removals and updates overlap, and a registered peer's org is in its group.
PeersWhole ==
  \A p \in Peers :
    /\ (peers[p] = None) <=> (inbound[p] = None)
    /\ inbound[p] # None => SyntheticOrg[p] \in members[inbound[p]]

MembersSound == InvitedOnce /\ MembersVouchedFor /\ ShownToMembers /\ PeersWhole
=============================================================================
