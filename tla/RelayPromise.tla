---------------------------- MODULE RelayPromise ----------------------------
(***************************************************************************)
(* What the signing relay promises about one write, told without ticks,    *)
(* queues, locks or chains: a permitted write is sent and then reported;   *)
(* it is sent again only when its last report was lost, and never after it *)
(* was reported.                                                           *)
(***************************************************************************)
EXTENDS Naturals

CONSTANTS
    Writes,     \* the writes the node-agent asks for
    Permitted   \* those the wallet is willing to sign

VARIABLES
    phase,      \* phase[w]: "open", "sent" or "reported"
    sends       \* sends[w]: transactions broadcast for w

Init ==
    /\ phase = [w \in Writes |-> "open"]
    /\ sends = [w \in Writes |-> 0]

Send(w) ==
    /\ w \in Permitted /\ phase[w] = "open"
    /\ phase' = [phase EXCEPT ![w] = "sent"]
    /\ sends' = [sends EXCEPT ![w] = @ + 1]

\* The network took the transaction, the wallet never learnt so.
SendUnheard(w) ==
    /\ w \in Permitted /\ phase[w] = "open"
    /\ sends' = [sends EXCEPT ![w] = @ + 1]
    /\ UNCHANGED phase

Report(w) ==
    /\ phase[w] = "sent"
    /\ phase' = [phase EXCEPT ![w] = "reported"]
    /\ UNCHANGED sends

LoseReport(w) ==
    /\ phase[w] = "sent"
    /\ phase' = [phase EXCEPT ![w] = "open"]
    /\ UNCHANGED sends

Next == \E w \in Writes :
            Send(w) \/ SendUnheard(w) \/ Report(w) \/ LoseReport(w)

Spec == Init /\ [][Next]_<<phase, sends>>
=============================================================================
