--------------------------- MODULE MCWalletCustody ---------------------------
(***************************************************************************)
(* Small instances of WalletCustody for TLC.                               *)
(***************************************************************************)
EXTENDS WalletCustody, TLC

CONSTANTS t1, t2, a1, a2

Symmetry == Permutations(Tasks) \cup Permutations(Accounts)
==============================================================================
