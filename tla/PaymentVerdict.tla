--------------------------- MODULE PaymentVerdict ---------------------------
(***************************************************************************)
(* What the pipeline promises about a deposit, without saying how: one     *)
(* verdict is passed on it and never taken back; it is accepted only once  *)
(* the chain confirmed it; nothing is swept for a deposit that was not     *)
(* accepted; and the operator is only ever told what the verdict is, and   *)
(* that a payment is done only after a sweep was broadcast for it.         *)
(***************************************************************************)
CONSTANT Payment

VARIABLES
  verdict,   \* "open", "accepted" or "rejected"
  mature,    \* deposits with the required confirmations
  swept,     \* payments for which a sweep was broadcast
  told       \* the event types queued for each payment

vars == <<verdict, mature, swept, told>>

Init ==
  /\ verdict = [p \in Payment |-> "open"]
  /\ mature = {}
  /\ swept = {}
  /\ told = [p \in Payment |-> {}]

Mature(p) ==
  /\ mature' = mature \cup {p}
  /\ UNCHANGED <<verdict, swept, told>>

Accept(p) ==
  /\ verdict[p] = "open"
  /\ p \in mature
  /\ verdict' = [verdict EXCEPT ![p] = "accepted"]
  /\ UNCHANGED <<mature, swept, told>>

Reject(S) ==
  /\ \A p \in S : verdict[p] = "open"
  /\ verdict' = [p \in Payment |-> IF p \in S THEN "rejected" ELSE verdict[p]]
  /\ UNCHANGED <<mature, swept, told>>

Sweep(p) ==
  /\ verdict[p] = "accepted"
  /\ swept' = swept \cup {p}
  /\ UNCHANGED <<verdict, mature, told>>

MayTell(p, e) ==
  \/ e = "PAYMENT_DETECTED"
  \/ e = "PAYMENT_CONFIRMED" /\ verdict[p] = "accepted"
  \/ e = "PAYMENT_COMPLETED" /\ p \in swept
  \/ e = "PAYMENT_FAILED" /\ verdict[p] = "rejected"

Tell(p, e) ==
  /\ MayTell(p, e)
  /\ told' = [told EXCEPT ![p] = @ \cup {e}]
  /\ UNCHANGED <<verdict, mature, swept>>

Event == {"PAYMENT_DETECTED", "PAYMENT_CONFIRMED", "PAYMENT_COMPLETED", "PAYMENT_FAILED"}

Next ==
  \/ \E p \in Payment : Mature(p) \/ Accept(p) \/ Sweep(p)
  \/ \E S \in SUBSET Payment : Reject(S)
  \/ \E p \in Payment, e \in Event : Tell(p, e)

Spec == Init /\ [][Next]_vars
=============================================================================
