---------------------------- MODULE Confirmation ----------------------------
(***************************************************************************)
(* What a step-up confirmation promises: the user is asked about one       *)
(* message, confirms it at most once, and at most one send spends the      *)
(* confirmation, each send at most one of them.                            *)
(***************************************************************************)
CONSTANTS
    Ask,        \* the questions put to the user
    Send,       \* the sends that may spend an answer
    Message,    \* what a question is about
    Nobody      \* spent by no send

VARIABLES stage, about, spender
vars == <<stage, about, spender>>

Stages == {"idle", "asked", "confirmed", "spent"}

Init ==
    /\ stage = [a \in Ask |-> "idle"]
    /\ about \in [Ask -> Message \cup {Nobody}]
    /\ spender = [a \in Ask |-> Nobody]

Put(a, m) ==
    /\ stage[a] = "idle"
    /\ stage' = [stage EXCEPT ![a] = "asked"]
    /\ about' = [about EXCEPT ![a] = m]
    /\ UNCHANGED spender

Confirm(a) ==
    /\ stage[a] = "asked"
    /\ stage' = [stage EXCEPT ![a] = "confirmed"]
    /\ UNCHANGED <<about, spender>>

Spend(a, s) ==
    /\ stage[a] = "confirmed"
    /\ \A b \in Ask : spender[b] # s
    /\ stage' = [stage EXCEPT ![a] = "spent"]
    /\ spender' = [spender EXCEPT ![a] = s]
    /\ UNCHANGED about

Next == \E a \in Ask :
    \/ \E m \in Message : Put(a, m)
    \/ Confirm(a)
    \/ \E s \in Send : Spend(a, s)

Spec == Init /\ [][Next]_vars
=============================================================================
