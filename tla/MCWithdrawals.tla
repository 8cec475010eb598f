--------------------------- MODULE MCWithdrawals ---------------------------
(* Instances of Withdrawals for TLC. *)
EXTENDS Withdrawals, TLC

CONSTANTS w1, w2

\* Tokens of two units: both requests ask for one token.
OneToken == [w \in Withdrawal |-> 2]

Symmetric == Permutations(Withdrawal)
=============================================================================
