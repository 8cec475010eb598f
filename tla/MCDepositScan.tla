--------------------------- MODULE MCDepositScan ---------------------------
(* Instances of DepositScan for TLC. *)
EXTENDS DepositScan

CONSTANTS v1, v2, w1, w2, x1, e1, t1, t2, g1, s1, g2, n1

\* EVM: a deposit to one of two wallets.  TRON: a transaction that pays two wallets, and
\* a prefunding.  Solana: a deposit and noise of one account, and a prefunding.
Networks ==
  [w \in Wallet |->
     CASE w \in {v1, v2} -> "EVM" [] w \in {w1, w2} -> "TRON" [] w = x1 -> "SOLANA"]
Recipients ==
  [t \in Transfer |->
     CASE t = e1 -> v1 [] t \in {t1, g1} -> w1 [] t = t2 -> w2 [] t \in {s1, g2, n1} -> x1]
Tokens == [t \in Transfer |-> IF t \in {g1, g2} THEN "native" ELSE "USDT"]
Hashes == [t \in Transfer |-> IF t = t2 THEN t1 ELSE t]
Kinds == [t \in Transfer |-> CASE t \in {g1, g2} -> "gas" [] t = n1 -> "noise" [] OTHER -> "deposit"]
=============================================================================
