--------------------------- MODULE MCSigningRelay ---------------------------
(***************************************************************************)
(* Small instances of SigningRelay for TLC.                                *)
(***************************************************************************)
EXTENDS SigningRelay

CONSTANTS job1, job2, main, local

Write(intent, job, defects) ==
    [intent |-> intent, job |-> job, defects |-> defects]

\* A write with a known selector over malformed arguments, a write for a
\* tier the agent cannot prove, and behind them a privileged write.
RefusedThenClaim ==
    <<Write("heartbeat", job1, {"args"}), Write("startExecution", job2, {}),
      Write("claimRewards", job1, {})>>

\* The two writes of a job that the chain accepts only from some block on.
CompleteAndReveal ==
    <<Write("completeJob", job1, {}), Write("submitResult", job1, {})>>

\* A refused write, one the network may refuse, and a privileged write.
RejectedThenClaim ==
    <<Write("startExecution", job2, {}), Write("heartbeat", job1, {}),
      Write("claimRewards", job1, {})>>

OneCompletion == <<Write("completeJob", job1, {})>>

TierByJob == [j \in Jobs |-> IF j = job2 THEN 1 ELSE 0]
=============================================================================
