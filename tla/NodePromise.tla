------------------------------ MODULE NodePromise ------------------------------
(***************************************************************************)
(* What the embedded node promises about its runs, told without tasks,     *)
(* locks, handles or workers: one run at a time has the node, from opening *)
(* its storage to letting go of it; a run begins to serve in the network   *)
(* that is configured at that moment; and a run that has ended is over.    *)
(***************************************************************************)
CONSTANTS
    Runs,      \* storages opened, one per start that comes so far
    Networks,
    None

VARIABLES
    network,   \* the network the configuration names
    phase,     \* phase[i]: "new", "opening", "serving", "stopping" or "ended"
    home       \* home[i]: the network run i was opened for

HasNode(i) == phase[i] \in {"opening", "serving", "stopping"}

Init ==
    /\ network \in Networks
    /\ phase = [i \in Runs |-> "new"]
    /\ home = [i \in Runs |-> None]

Configure ==
    /\ network' \in Networks
    /\ UNCHANGED <<phase, home>>

Open(i) ==
    /\ phase[i] = "new" /\ ~\E j \in Runs : HasNode(j)
    /\ phase' = [phase EXCEPT ![i] = "opening"]
    /\ home' = [home EXCEPT ![i] = network]
    /\ UNCHANGED network

\* The listener could not be set up.
Abort(i) ==
    /\ phase[i] = "opening"
    /\ phase' = [phase EXCEPT ![i] = "ended"]
    /\ UNCHANGED <<network, home>>

Serve(i) ==
    /\ phase[i] = "opening" /\ home[i] = network
    /\ phase' = [phase EXCEPT ![i] = "serving"]
    /\ UNCHANGED <<network, home>>

Stop(i) ==
    /\ phase[i] = "serving"
    /\ phase' = [phase EXCEPT ![i] = "stopping"]
    /\ UNCHANGED <<network, home>>

Release(i) ==
    /\ phase[i] = "stopping"
    /\ phase' = [phase EXCEPT ![i] = "ended"]
    /\ UNCHANGED <<network, home>>

Next ==
    \/ Configure
    \/ \E i \in Runs :
         Open(i) \/ Abort(i) \/ Serve(i) \/ Stop(i) \/ Release(i)

Spec == Init /\ [][Next]_<<network, phase, home>>
================================================================================
