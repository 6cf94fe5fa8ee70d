-------------------------- MODULE VerdictRegister --------------------------
(***************************************************************************)
(* What a reader of a mailbox may rely on about the verdict of each stored *)
(* copy of a message, whoever writes it: a copy is stored once, judged at  *)
(* most once, tightened afterwards and never relaxed, and removed for good.*)
(***************************************************************************)
EXTENDS Integers

CONSTANT Copy
VARIABLES stage, tier

Tiers == 0..3

Init ==
    /\ stage = [c \in Copy |-> "outside"]
    /\ tier = [c \in Copy |-> 0]

Store(c) ==
    /\ stage[c] = "outside"
    /\ stage' = [stage EXCEPT ![c] = "stored"]
    /\ UNCHANGED tier

Judge(c) ==
    /\ stage[c] = "stored"
    /\ stage' = [stage EXCEPT ![c] = "judged"]
    /\ \E t \in Tiers : tier' = [tier EXCEPT ![c] = t]

Tighten(c) ==
    /\ stage[c] = "judged"
    /\ \E t \in Tiers : t > tier[c] /\ tier' = [tier EXCEPT ![c] = t]
    /\ UNCHANGED stage

Remove(c) ==
    /\ stage[c] \in {"stored", "judged"}
    /\ stage' = [stage EXCEPT ![c] = "removed"]
    /\ UNCHANGED tier

Next == \E c \in Copy : Store(c) \/ Judge(c) \/ Tighten(c) \/ Remove(c)

Spec == Init /\ [][Next]_<<stage, tier>>
=============================================================================
