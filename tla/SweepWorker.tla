----------------------------- MODULE SweepWorker -----------------------------
(***************************************************************************)
(* The sweep worker: the BullMQ processor of src/src/workers/sweepWorker.ts *)
(* around SweepService.sweepPayment (src/src/services/sweepService.ts).     *)
(* A job is a sequence of awaits; every action is the code between two of  *)
(* them.  sweep[j] holds the processor's locals.                           *)
(*                                                                         *)
(*   claimed   updateMany claimed the row                                  *)
(*   funded    getBalance returned, gas is paid for                        *)
(*   sent      the network accepted the transaction, the call is awaited   *)
(*   recorded  payment.sweepTxHash holds the hash                          *)
(*   notify    sweepPayment returned; PAYMENT_COMPLETED is next            *)
(***************************************************************************)
EXTENDS PaymentStore

CONSTANTS
  SweepConcurrency,      \* jobs processed at a time; createWorker(.., 2)
  WaitsForConfirmation   \* sendTransaction returns only after success
                         \* (Solana), or at broadcast (EVM, TRON)

ASSUME ConcurrencyAssumption == SweepConcurrency \in Nat \ {0}
ASSUME WaitsAssumption == WaitsForConfirmation \in BOOLEAN

VARIABLE sweep

SweepPc == {"idle", "claimed", "funded", "sent", "recorded", "notify"}
IdleSweep == [pc |-> "idle", amt |-> 0, tx |-> NoTx]

SweepTypeOK == sweep \in [Job -> [pc: SweepPc, amt: Nat, tx: Tx \cup {NoTx}]]
SweepInit == sweep = [j \in Job |-> IdleSweep]

Pay(j) == queue[j].pay
Acc(j) == AccountOf[queue[j].pay]

\* The processor's awaits return, one after the other.
GoTo(j, pc) == sweep' = [sweep EXCEPT ![j].pc = pc]

-----------------------------------------------------------------------------
CanStart(j) ==
  /\ queue[j].state = "waiting"
  /\ Cardinality(Active) < SweepConcurrency

\* Mutant: a job that lost the claim ends without its webhook.
StartSweepQuietly(j) ==
  /\ CanStart(j)
  /\ \/ /\ Claimable(Pay(j))
        /\ queue' = [queue EXCEPT ![j].state = "active"]
        /\ SetStatus(Pay(j), "SWEEPING")
        /\ GoTo(j, "claimed")
     \/ /\ ~Claimable(Pay(j))
        /\ queue' = [queue EXCEPT ![j] = FreeSlot]
        /\ UNCHANGED <<status, aged, sweep>>
  /\ UNCHANGED <<sweepTx, events, failedJobs, refused, chainVars>>

\* A job is taken from the queue and sweepPayment tries to claim the payment.
\* When the claim matches no row sweepPayment returns, and the processor goes
\* on to its webhook as it does after a sweep.
StartSweep(j) ==
  /\ CanStart(j)
  /\ queue' = [queue EXCEPT ![j].state = "active"]
  /\ \/ /\ Claimable(Pay(j))
        /\ SetStatus(Pay(j), "SWEEPING")
        /\ GoTo(j, "claimed")
     \/ /\ ~Claimable(Pay(j))
        /\ GoTo(j, "notify")
        /\ UNCHANGED <<status, aged>>
  /\ UNCHANGED <<sweepTx, events, failedJobs, refused, chainVars>>

\* The claim's updateMany throws before it changed anything.
ClaimThrows(j) ==
  /\ "throw" \in Adversity
  /\ CanStart(j)
  /\ FailJob(j)
  /\ UNCHANGED <<rowVars, events, sweep, chainVars>>

\* The balance is the whole account, whoever paid it in; gas follows.
ReadBalance(j) ==
  /\ sweep[j].pc = "claimed"
  /\ bal[Acc(j)] > 0
  /\ sweep' = [sweep EXCEPT ![j] = [@ EXCEPT !.pc = "funded", !.amt = bal[Acc(j)]]]
  /\ UNCHANGED <<storeVars, chainVars>>

\* sendTransaction hands the signed transaction to the network.
Broadcast(j) ==
  /\ sweep[j].pc = "funded"
  /\ \E t \in Tx :
       /\ Send(Pay(j), t, sweep[j].amt)
       /\ sweep' = [sweep EXCEPT ![j] = [@ EXCEPT !.pc = "sent", !.tx = t]]
  /\ UNCHANGED <<storeVars, deposit, bal>>

\* Mutant: sendTransaction no longer waits for the confirmation.
SendReturnedAtOnce(j) == txs[sweep[j].tx].state # "failed"

\* What sendTransaction waits for before it returns the hash.
SendReturned(j) == WaitsForConfirmation => txs[sweep[j].tx].state = "success"

\* sendTransaction returned: the hash is written to the row, its status is not.
RecordTx(j) ==
  /\ sweep[j].pc = "sent"
  /\ SendReturned(j)
  /\ sweepTx' = [sweepTx EXCEPT ![Pay(j)] = sweep[j].tx]
  /\ aged' = aged \ {Pay(j)}
  /\ GoTo(j, "recorded")
  /\ UNCHANGED <<status, events, queueVars, chainVars>>

Complete(j) ==
  /\ sweep[j].pc = "recorded"
  /\ CompleteRow(Pay(j), sweep[j].tx)
  /\ GoTo(j, "notify")
  /\ UNCHANGED <<events, queueVars, chainVars>>

\* The webhook is queued whatever the row says by now, and the job is done.
NotifyCompleted(j) ==
  /\ sweep[j].pc = "notify"
  /\ QueueWebhook(Pay(j), "PAYMENT_COMPLETED")
  /\ FinishJob(j)
  /\ sweep' = [sweep EXCEPT ![j] = IdleSweep]
  /\ UNCHANGED <<rowVars, chainVars>>

\* An await rejects: an empty account; a transaction the node refuses, since the
\* account no longer holds the amount (or the hashes of Tx are used up); one that
\* failed while it was waited for; or any database or RPC error.
Rejects(j) ==
  \/ sweep[j].pc = "claimed" /\ bal[Acc(j)] = 0
  \/ /\ sweep[j].pc = "funded"
     /\ bal[Acc(j)] < sweep[j].amt \/ \A t \in Tx : txs[t].state # "unused"
  \/ sweep[j].pc = "sent" /\ WaitsForConfirmation /\ txs[sweep[j].tx].state = "failed"
  \/ sweep[j].pc # "idle" /\ "throw" \in Adversity

SweepThrows(j) ==
  /\ Rejects(j)
  /\ FailJob(j)
  /\ sweep' = [sweep EXCEPT ![j] = IdleSweep]
  /\ UNCHANGED <<rowVars, events, chainVars>>

-----------------------------------------------------------------------------
SweepStep(j) ==
  \/ ReadBalance(j) \/ Broadcast(j) \/ RecordTx(j) \/ Complete(j)
  \/ NotifyCompleted(j) \/ SweepThrows(j)

SweepNext == \E j \in Job : StartSweep(j) \/ ClaimThrows(j) \/ SweepStep(j)

\* The worker process dies with everything a processor holds.
SweepCrash == sweep' = [j \in Job |-> IdleSweep]
=============================================================================
