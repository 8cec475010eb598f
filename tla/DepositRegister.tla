-------------------------- MODULE DepositRegister --------------------------
(***************************************************************************)
(* What the scan for deposits promises about the money of the payments     *)
(* table, without saying how transfers are found: only a transfer on the   *)
(* chain is credited, once at most, and only one that was credited is      *)
(* announced.                                                              *)
(***************************************************************************)
EXTENDS Naturals

CONSTANT Transfer   \* transfers to deposit addresses

VARIABLES
  creditable,   \* the transfers that may be credited to a user; never changes
  landed,       \* transfers on the chain
  credits,      \* how many payments were recorded for each transfer
  told          \* transfers whose PAYMENT_DETECTED was queued

vars == <<creditable, landed, credits, told>>

Init ==
  /\ creditable \in SUBSET Transfer
  /\ landed = {}
  /\ credits = [t \in Transfer |-> 0]
  /\ told = {}

Land(S) ==
  /\ landed' = landed \cup S
  /\ UNCHANGED <<creditable, credits, told>>

Credit(t) ==
  /\ t \in landed \cap creditable
  /\ credits[t] = 0
  /\ credits' = [credits EXCEPT ![t] = 1]
  /\ UNCHANGED <<creditable, landed, told>>

Tell(t) ==
  /\ credits[t] > 0
  /\ told' = told \cup {t}
  /\ UNCHANGED <<creditable, landed, credits>>

Next ==
  \/ \E S \in SUBSET Transfer : Land(S)
  \/ \E t \in Transfer : Credit(t) \/ Tell(t)

Spec == Init /\ [][Next]_vars
=============================================================================
