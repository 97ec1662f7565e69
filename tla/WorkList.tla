------------------------------ MODULE WorkList ------------------------------
(***************************************************************************)
(* What the test client promises of its input (README, "Client"): each     *)
(* message is sent by one thread, once; and when all of them are over, the *)
(* results of those that were answered are reported, once.                 *)
(***************************************************************************)
EXTENDS Naturals

VARIABLES
    pending, doing, answered,   \* messages, by their place in the input
    report                      \* the messages reported, once there is one

vars == <<pending, doing, answered, report>>
NoReport == {0}

Init == pending = {} /\ doing = {} /\ answered = {} /\ report = NoReport

\* The input is read while there is nothing else.
Load ==
    /\ pending = {} /\ doing = {} /\ answered = {} /\ report = NoReport
    /\ pending' \in SUBSET (Nat \ {0})
    /\ UNCHANGED <<doing, answered, report>>

Take(m) ==
    /\ m \in pending
    /\ pending' = pending \ {m} /\ doing' = doing \cup {m}
    /\ UNCHANGED <<answered, report>>

Answer(m) ==
    /\ m \in doing
    /\ doing' = doing \ {m} /\ answered' = answered \cup {m}
    /\ UNCHANGED <<pending, report>>

\* A call fails, before or after the message was taken.
GiveUp(m) ==
    /\ m \in pending \cup doing
    /\ pending' = pending \ {m} /\ doing' = doing \ {m}
    /\ UNCHANGED <<answered, report>>

Report ==
    /\ report = NoReport
    /\ pending = {} /\ doing = {}
    /\ report' = answered
    /\ UNCHANGED <<pending, doing, answered>>

Next ==
    \/ Load \/ Report
    \/ \E m \in pending : Take(m) \/ GiveUp(m)
    \/ \E m \in doing : Answer(m) \/ GiveUp(m)

Spec == Init /\ [][Next]_vars
=============================================================================
