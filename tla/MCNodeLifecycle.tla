---------------------------- MODULE MCNodeLifecycle ----------------------------
(***************************************************************************)
(* Small instances of NodeLifecycle for TLC.                               *)
(***************************************************************************)
EXTENDS NodeLifecycle, TLC

CONSTANTS t1, t2, devnet, testnet

Symmetry == Permutations(Tasks)
================================================================================
