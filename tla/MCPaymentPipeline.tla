------------------------- MODULE MCPaymentPipeline -------------------------
(* Instances of PaymentPipeline for TLC. *)
EXTENDS PaymentPipeline, TLC

CONSTANTS p1, p2, a1, a2, j1, j2, j3, t1, t2, t3, r1, r2

OneAccount == [p \in Payment |-> a1]
OwnAccounts == p1 :> a1 @@ p2 :> a2

Symmetric == Permutations(Job) \cup Permutations(Tx)
SymmetricPayments == Permutations(Payment) \cup Permutations(Job) \cup Permutations(Tx)

\* Nothing reads which webhooks were queued but CompletedIsAnnounced, that of the
\* completion.
WithoutOtherEvents ==
  <<chainVars, rowVars, queueVars, sweep, watcherVars, recoveryVars, crashes,
    {p \in Payment : "PAYMENT_COMPLETED" \in events[p]}>>
=============================================================================
