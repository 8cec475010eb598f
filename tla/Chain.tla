------------------------------- MODULE Chain -------------------------------
(***************************************************************************)
(* The blockchain as the worker process sees it through the adapters       *)
(* (src/src/blockchain/adapters): deposits that arrive, mature or are      *)
(* reorganised away, and sweep transactions that are broadcast first and   *)
(* settled later.  None of this is code of the gateway: every definition   *)
(* is external and says only what the workers can tell apart.              *)
(*                                                                         *)
(* An account is one (deposit address, token) pair.  Every payment row     *)
(* stands for one transfer of one unit to its account; an account is a     *)
(* permanent address (README.md:150), so several payments may share it.    *)
(***************************************************************************)
EXTENDS Naturals, FiniteSets

CONSTANTS
  Payment,      \* transfers to deposit addresses, one payment row each
  Account,      \* (deposit address, token) pairs
  AccountOf,    \* the account a payment's transfer pays into
  Tx,           \* hashes of sweep transactions (BOUND: broadcasts per behaviour)
  NoPayment,    \* not a payment
  NoTx,         \* a null sweepTxHash
  Adversity     \* the faults a configuration admits

Faults == {"throw", "crash", "slow", "reorg", "revert"}

ASSUME AccountAssumption == AccountOf \in [Payment -> Account]
ASSUME NullAssumption == NoTx \notin Tx /\ NoPayment \notin Payment
ASSUME AdversityAssumption == Adversity \subseteq Faults

VARIABLES
  deposit,      \* what the chain shows of each payment's transfer
  bal,          \* the balance of each account, in units
  txs           \* every sweep transaction hash

chainVars == <<deposit, bal, txs>>

DepositState == {"none", "seen", "mature", "orphaned"}
TxState == {"unused", "pending", "success", "failed"}

ChainTypeOK ==
  /\ deposit \in [Payment -> DepositState]
  /\ bal \in [Account -> Nat]
  /\ txs \in [Tx -> [state: TxState, by: Payment \cup {NoPayment}, amt: Nat]]

ChainInit ==
  /\ deposit = [p \in Payment |-> "none"]
  /\ bal = [a \in Account |-> 0]
  /\ txs = [t \in Tx |-> [state |-> "unused", by |-> NoPayment, amt |-> 0]]

\* The payments for which a sweep transaction was broadcast, whatever became of it.
Broadcasted == {txs[t].by : t \in Tx} \ {NoPayment}

\* A transfer to the account is included in a block.
Land(p) ==
  /\ deposit[p] = "none"
  /\ deposit' = [deposit EXCEPT ![p] = "seen"]
  /\ bal' = [bal EXCEPT ![AccountOf[p]] = @ + 1]
  /\ UNCHANGED txs

\* The transfer reaches the confirmations config.confirmations asks for.
Mature(p) ==
  /\ deposit[p] = "seen"
  /\ deposit' = [deposit EXCEPT ![p] = "mature"]
  /\ UNCHANGED <<bal, txs>>

\* A reorganisation removes a transfer that is not yet mature.
Orphan(p) ==
  /\ "reorg" \in Adversity
  /\ deposit[p] = "seen"
  /\ bal[AccountOf[p]] > 0
  /\ deposit' = [deposit EXCEPT ![p] = "orphaned"]
  /\ bal' = [bal EXCEPT ![AccountOf[p]] = @ - 1]
  /\ UNCHANGED txs

\* The network accepts a transaction t that moves amt units out of p's account.
Send(p, t, amt) ==
  /\ txs[t].state = "unused"
  /\ txs' = [txs EXCEPT ![t] = [state |-> "pending", by |-> p, amt |-> amt]]

\* A pending transaction is executed: it moves its amount if the account still
\* holds it, and fails otherwise, or reverts for a reason of the chain's own.
Settle(t) ==
  /\ txs[t].state = "pending"
  /\ \/ /\ bal[AccountOf[txs[t].by]] >= txs[t].amt
        /\ bal' = [bal EXCEPT ![AccountOf[txs[t].by]] = @ - txs[t].amt]
        /\ txs' = [txs EXCEPT ![t].state = "success"]
     \/ /\ \/ bal[AccountOf[txs[t].by]] < txs[t].amt
           \/ "revert" \in Adversity
        /\ txs' = [txs EXCEPT ![t].state = "failed"]
        /\ UNCHANGED bal
  /\ UNCHANGED deposit
=============================================================================
