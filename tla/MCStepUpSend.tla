---------------------------- MODULE MCStepUpSend ----------------------------
(***************************************************************************)
(* A small instance of StepUpSend: one challenge, two of everything that   *)
(* must not be confused, limits of one, days of two hours.                 *)
(***************************************************************************)
EXTENDS StepUpSend, TLC

CONSTANTS c1, v1, v2, s1, s2, p1, p2, b1

OneCeremony == {c1}
TwoVerifies == {v1, v2}
TwoSends == {s1, s2}
TwoPayloads == {p1, p2}
OneBox == {b1}
ThreeKinds == {"api", "reply", "tool"}
TwoTiers == {0, 2}
Trouble == {"call", "lapse", "deliver"}

Symmetry == Permutations(TwoVerifies) \cup Permutations(TwoSends) \cup Permutations(TwoPayloads)
=============================================================================
