---------------------------- MODULE SweepRecovery ----------------------------
(***************************************************************************)
(* recoverStuckSweeps (src/src/worker.ts): run once at startup, before the *)
(* block watcher starts, and from then on by a timer every five minutes    *)
(* that does not wait for the previous run.  rec[r] holds one run's        *)
(* locals: todo and seen are the rows findMany returned (their sweepTxHash *)
(* as it was then), cur is the payment of the loop.                        *)
(*                                                                         *)
(*   idle      no run                                                      *)
(*   loop      the next of todo is taken                                   *)
(*   complete  the chain confirmed seen[cur]                               *)
(*   reset     it did not, or there was no hash to ask for                 *)
(*   add       the row is CONFIRMED again, its sweep job is next           *)
(***************************************************************************)
EXTENDS PaymentStore

CONSTANT Recoverer   \* runs of recoverStuckSweeps alive at one time (BOUND)

VARIABLES rec, booted

recoveryVars == <<rec, booted>>

RecoveryPc == {"idle", "loop", "complete", "reset", "add"}
NothingSeen == [p \in Payment |-> NoTx]
IdleRecovery == [pc |-> "idle", todo |-> {}, seen |-> NothingSeen, cur |-> NoPayment]

RecoveryTypeOK ==
  /\ rec \in [Recoverer -> [pc: RecoveryPc, todo: SUBSET Payment,
                            seen: [Payment -> Tx \cup {NoTx}],
                            cur: Payment \cup {NoPayment}]]
  /\ booted \in BOOLEAN

RecoveryInit ==
  /\ rec = [r \in Recoverer |-> IdleRecovery]
  /\ booted = FALSE

Takes(r, p, pc) ==
  rec' = [rec EXCEPT ![r] = [@ EXCEPT !.pc = pc, !.cur = p, !.todo = rec[r].todo \ {p}]]
GoesOn(r) == rec' = [rec EXCEPT ![r] = [@ EXCEPT !.pc = "loop", !.cur = NoPayment]]

-----------------------------------------------------------------------------
Stuck == {p \in Payment : status[p] = "SWEEPING" /\ p \in aged}

\* findMany.  Until the startup run has ended there is no other.
ReadStuck(r) ==
  /\ rec[r].pc = "idle"
  /\ Stuck # {}
  /\ booted \/ \A o \in Recoverer : rec[o].pc = "idle"
  /\ rec' = [rec EXCEPT ![r] = [pc |-> "loop", todo |-> Stuck, cur |-> NoPayment,
                                seen |-> [p \in Payment |->
                                            IF p \in Stuck THEN sweepTx[p] ELSE NoTx]]]
  /\ UNCHANGED <<storeVars, chainVars, booted>>

\* The startup run ends, having found nothing or thrown: main starts the watcher.
Boot ==
  /\ ~booted
  /\ \A o \in Recoverer : rec[o].pc = "idle"
  /\ Stuck = {} \/ "throw" \in Adversity
  /\ booted' = TRUE
  /\ UNCHANGED <<storeVars, chainVars, rec>>

SweepSucceeded(r, p) == rec[r].seen[p] # NoTx /\ txs[rec[r].seen[p]].state = "success"

\* getTransaction of the hash the snapshot holds, if it holds one.  TRON's and
\* Solana's answer null when a call of theirs throws: the hash seems unknown.
Lookup(r, p) ==
  /\ rec[r].pc = "loop"
  /\ p \in rec[r].todo
  /\ \/ SweepSucceeded(r, p) /\ Takes(r, p, "complete")
     \/ (~SweepSucceeded(r, p) \/ "throw" \in Adversity) /\ Takes(r, p, "reset")
  /\ UNCHANGED <<storeVars, chainVars, booted>>

\* onSweepCompleted; no webhook is queued.
RecoverCompleted(r) ==
  /\ rec[r].pc = "complete"
  /\ CompleteRow(rec[r].cur, rec[r].seen[rec[r].cur])
  /\ GoesOn(r)
  /\ UNCHANGED <<events, queueVars, chainVars, booted>>

\* An update by id: the row may have moved on since the snapshot.
ResetToConfirmed(r) ==
  /\ rec[r].pc = "reset"
  /\ SetStatus(rec[r].cur, "CONFIRMED")
  /\ sweepTx' = [sweepTx EXCEPT ![rec[r].cur] = NoTx]
  /\ rec' = [rec EXCEPT ![r].pc = "add"]
  /\ UNCHANGED <<events, queueVars, chainVars, booted>>

RequeueRecovered(r) ==
  /\ rec[r].pc = "add"
  /\ AddJob(rec[r].cur)
  /\ GoesOn(r)
  /\ UNCHANGED <<rowVars, events, chainVars, booted>>

\* The loop's catch goes on: the row is CONFIRMED again, and no job is there for it.
RecoveredRefused(r) ==
  /\ rec[r].pc = "add"
  /\ RefuseJob(rec[r].cur)
  /\ GoesOn(r)
  /\ UNCHANGED <<rowVars, events, chainVars, booted>>

\* A call of the loop's body throws (getTransaction too, on EVM networks: whatever
\* Lookup would have found, the row is not written): the next payment is taken.
RecoveryThrows(r) ==
  /\ "throw" \in Adversity
  /\ rec[r].pc \in {"complete", "reset"}
  /\ GoesOn(r)
  /\ UNCHANGED <<storeVars, chainVars, booted>>

EndRecovery(r) ==
  /\ rec[r].pc = "loop"
  /\ rec[r].todo = {}
  /\ rec' = [rec EXCEPT ![r] = IdleRecovery]
  /\ booted' = TRUE
  /\ UNCHANGED <<storeVars, chainVars>>

-----------------------------------------------------------------------------
RecoveryStep(r) ==
  \/ ReadStuck(r) \/ RecoverCompleted(r) \/ ResetToConfirmed(r)
  \/ RequeueRecovered(r) \/ RecoveredRefused(r) \/ RecoveryThrows(r) \/ EndRecovery(r)
  \/ \E p \in Payment : Lookup(r, p)

RecoveryCrash ==
  /\ rec' = [r \in Recoverer |-> IdleRecovery]
  /\ booted' = FALSE
=============================================================================
