----------------------------- MODULE ConsentPromise -----------------------------
(***************************************************************************)
(* What the desktop application promises about a request for approval,     *)
(* told without cards, slots, queues, handlers or time limits: it is       *)
(* asked, and answered once; only a user answers yes; an answer stands;    *)
(* and what it asks for is done after a yes and at most once.              *)
(***************************************************************************)
EXTENDS Naturals

CONSTANT Requests

VARIABLES
    stage,     \* stage[r]: "unasked", "asked", "approved" or "refused"
    consents,  \* requests that a user said yes to
    acted      \* acted[r]: how often it was carried out

Init ==
    /\ stage = [r \in Requests |-> "unasked"]
    /\ consents = {}
    /\ acted = [r \in Requests |-> 0]

Ask(r) ==
    /\ stage[r] = "unasked"
    /\ stage' = [stage EXCEPT ![r] = "asked"]
    /\ UNCHANGED <<consents, acted>>

Approve(r) ==
    /\ stage[r] = "asked"
    /\ stage' = [stage EXCEPT ![r] = "approved"]
    /\ consents' = consents \cup {r}
    /\ UNCHANGED acted

\* By the user, an emergency stop, or the time limit.
Refuse(r) ==
    /\ stage[r] = "asked"
    /\ stage' = [stage EXCEPT ![r] = "refused"]
    /\ UNCHANGED <<consents, acted>>

Act(r) ==
    /\ stage[r] = "approved" /\ acted[r] = 0
    /\ acted' = [acted EXCEPT ![r] = 1]
    /\ UNCHANGED <<stage, consents>>

Next == \E r \in Requests : Ask(r) \/ Approve(r) \/ Refuse(r) \/ Act(r)

Spec == Init /\ [][Next]_<<stage, consents, acted>>
=================================================================================
