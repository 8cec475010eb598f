---------------------------- MODULE PayoutLedger ----------------------------
(***************************************************************************)
(* What withdrawals promise, without saying how: an ordered withdrawal is  *)
(* paid at most once and only while it is undecided, it is decided once,   *)
(* and it is decided completed only if it was paid.                        *)
(***************************************************************************)
EXTENDS Naturals

CONSTANT Withdrawal

VARIABLES
  outcome,   \* "none" before it is ordered, "open", "completed" or "failed"
  payments   \* how many transactions were broadcast for it

vars == <<outcome, payments>>

Init ==
  /\ outcome = [w \in Withdrawal |-> "none"]
  /\ payments = [w \in Withdrawal |-> 0]

Becomes(w, from, to) ==
  /\ outcome[w] = from
  /\ outcome' = [outcome EXCEPT ![w] = to]
  /\ UNCHANGED payments

Order(w) == Becomes(w, "none", "open")

Pay(w) ==
  /\ outcome[w] = "open"
  /\ payments[w] = 0
  /\ payments' = [payments EXCEPT ![w] = 1]
  /\ UNCHANGED outcome

Complete(w) == payments[w] = 1 /\ Becomes(w, "open", "completed")
Fail(w) == Becomes(w, "open", "failed")

Next == \E w \in Withdrawal : Order(w) \/ Pay(w) \/ Complete(w) \/ Fail(w)

Spec == Init /\ [][Next]_vars
=============================================================================
