------------------------- MODULE MCMailboxLifecycle -------------------------
(* Small instances of MailboxLifecycle for TLC. *)
EXTENDS MailboxLifecycle, TLC

CONSTANTS s1, s2, u1, u2, g1, m1, m2, r1

OneSlot == {s1}
TwoSlots == {s1, s2}
TwoUsers == {u1, u2}
OneGroup == {g1}
NoGroups == {}
OneMail == {m1}
TwoMails == {m1, m2}
OneRule == {r1}
AllKinds == BlobKinds \cup AclKinds \cup {"create", "delete", "deliver"}
Alike == Permutations(TwoSlots) \cup Permutations(TwoUsers)
LifeKinds == {"create", "delete", "deliver"}
=============================================================================
