--------------------------- MODULE MCSidecarPoll ---------------------------
(***************************************************************************)
(* Small instances of SidecarPoll: three messages, the second a resend of  *)
(* the first; at most two ticks; caps so small that batches   *)
(* and pages overflow.                                                     *)
(***************************************************************************)
EXTENDS SidecarPoll, TLC

CONSTANTS t1, t2

Resent == [m \in Mail |-> IF m = 2 THEN 1 ELSE m]
Distinct == [m \in Mail |-> m]
BothModes == {"observe", "active"}
ActiveMode == {"active"}
TwoTicks == {t1, t2}
OneTick == {t1}
AllFaults == {"forget", "label", "call", "receive", "recover", "crash",
    "closeReply", "delete", "curse"}
BrokenCalls == {"call", "recover", "label", "crash", "receive", "delete", "curse"}
CallOnly == {"call"}
NoFaults == {}
\* Ticks differ in nothing.
Ticks == Permutations(TwoTicks)
=============================================================================
