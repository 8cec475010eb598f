------------------------- MODULE MCWalletAllocation -------------------------
(* Instances of WalletAllocation for TLC. *)
EXTENDS WalletAllocation, TLC

CONSTANTS u1, u2, r1, r2, r3

Symmetric == Permutations(User) \cup Permutations(Request)
=============================================================================
