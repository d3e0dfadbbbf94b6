------------------------------ MODULE MCMcpHost ------------------------------
(***************************************************************************)
(* Small instances of McpHost for TLC.                                     *)
(***************************************************************************)
EXTENDS McpHost, TLC

CONSTANTS c1, c2, g1, g2, g3, g4, k1, k2

\* Every token may grant the one policy above ReadOnly.
HighCeiling == [k \in Tokens |-> MaxPolicy]

\* Bound: a restart leaves what an empty host starts with, so the sessions past
\* the total cap are only opened before it.
SessionsAfterRestart == restarts > 0 => Cardinality(Stored) <= MaxTotal

Symmetry == Permutations(Calls) \cup Permutations(Grants)
==============================================================================
