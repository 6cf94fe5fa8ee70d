------------------------ MODULE MCHubCorroboration ------------------------
(* Small instances of HubCorroboration for TLC. *)
EXTENDS HubCorroboration, TLC

CONSTANTS t1, t2, o1, g1, g2, v1, p1

TwoTasks == {t1, t2}
TwoOrgs == {o1, Peer}
TwoGroups == {g1, g2}
OneValue == {v1}
OnePost == {p1}
TwoEvents == {1, 2}
ThreeEvents == {1, 2, 3}
OneTask == {t1}
NoEvents == {}
AllV == [u \in Posts \cup PeerEvents |-> {v1}]
TrustTwo == {0, 2}
Plain == [x \in Trusts |-> x]
AllTwo == [o \in Orgs |-> 2]
Alike == Permutations(TwoTasks)
=============================================================================
