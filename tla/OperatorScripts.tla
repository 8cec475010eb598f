-------------------------- MODULE OperatorScripts --------------------------
(***************************************************************************)
(* The scripts an operator runs by hand beside the worker:                 *)
(* src/scripts/requeue-confirmed.js, which adds a sweep job for every      *)
(* CONFIRMED payment, and src/scripts/reset-stuck.js, which takes SWEEPING *)
(* payments back to CONFIRMED.  They are processes of their own: they read *)
(* and write the same rows and the same queue, between any two steps of    *)
(* the worker, and end without one of its crashes.                         *)
(*                                                                         *)
(* The jobs of requeue-confirmed have an id, `sweep-<payment>'.  BullMQ    *)
(* ignores an add whose id it knows; it forgets the id of a job that       *)
(* completed (removeOnComplete) and keeps that of one that failed          *)
(* (removeOnFail: false).  They have one attempt.                          *)
(***************************************************************************)
EXTENDS PaymentPipeline

VARIABLES
  found,        \* the rows requeue-confirmed has still to queue
  scriptJobs,   \* the live jobs it added
  failedIds     \* payments whose job of it is in the failed set

scriptVars == <<found, scriptJobs, failedIds>>
allVars == <<vars, scriptVars>>

OpsInit ==
  /\ Init
  /\ found = {} /\ scriptJobs = {} /\ failedIds = {}

\* The pipeline does not know of the scripts.
PipelineFrame == UNCHANGED <<chainVars, sweep, watcherVars, recoveryVars, crashes, events>>

-----------------------------------------------------------------------------
(* BullMQ *)

\* A job of p with the script's id is waiting, active or failed.
IdIsKnown(p) == p \in failedIds \/ \E j \in scriptJobs : Pay(j) = p

\* What a step of the pipeline does to the jobs of the script: one that is gone has
\* completed, or its only attempt failed.
FollowJobs ==
  /\ scriptJobs' = {j \in scriptJobs : Live(j)'}
  /\ failedIds' = failedIds \cup
       {Pay(j) : j \in {k \in scriptJobs : ~Live(k)' /\ ~NotifyCompleted(k)}}

-----------------------------------------------------------------------------
(* requeue-confirmed.js *)

\* Mutant: the status is missing from the WHERE clause.
ReadAnyStatus ==
  /\ found = {}
  /\ found' = {p \in Payment : status[p] # "NONE"}
  /\ UNCHANGED <<vars, scriptJobs, failedIds>>

ReadConfirmed ==
  /\ found = {}
  /\ found' = {p \in Payment : status[p] = "CONFIRMED"}
  /\ UNCHANGED <<vars, scriptJobs, failedIds>>

\* Mutant: the id is not given.
QueueUnnamed(p) ==
  /\ p \in found
  /\ found' = found \ {p}
  /\ \E j \in Job :
       /\ ~Live(j)
       /\ queue' = [queue EXCEPT ![j] = [state |-> "waiting", pay |-> p,
                                         left |-> 1, stalled |-> FALSE]]
       /\ scriptJobs' = scriptJobs \cup {j}
  /\ UNCHANGED <<rowVars, failedJobs, refused, failedIds>> /\ PipelineFrame

\* sweepQueue.add for a row that was CONFIRMED when it was read.
QueueConfirmedRow(p) ==
  /\ p \in found
  /\ found' = found \ {p}
  /\ \/ IdIsKnown(p) /\ UNCHANGED <<queue, scriptJobs>>
     \/ /\ ~IdIsKnown(p)
        /\ \E j \in Job :
             /\ ~Live(j)
             /\ queue' = [queue EXCEPT ![j] = [state |-> "waiting", pay |-> p,
                                               left |-> 1, stalled |-> FALSE]]
             /\ scriptJobs' = scriptJobs \cup {j}
  /\ UNCHANGED <<rowVars, failedJobs, refused, failedIds>> /\ PipelineFrame

\* A call throws, or the operator stops the script.
ScriptDies ==
  /\ found # {}
  /\ found' = {}
  /\ UNCHANGED <<vars, scriptJobs, failedIds>>

-----------------------------------------------------------------------------
(* reset-stuck.js *)

\* One updateMany, whoever is sweeping the rows at this moment.
ResetStuck ==
  LET reset == {p \in Payment : status[p] = "SWEEPING" /\ sweepTx[p] = NoTx}
  IN  /\ reset # {}
      /\ status' = [p \in Payment |-> IF p \in reset THEN "CONFIRMED" ELSE status[p]]
      /\ aged' = aged \ reset
      /\ UNCHANGED <<sweepTx, queueVars, scriptVars>> /\ PipelineFrame

-----------------------------------------------------------------------------
Scripts == ReadConfirmed \/ ScriptDies \/ ResetStuck \/ \E p \in Payment : QueueConfirmedRow(p)

OpsNext == (Next /\ FollowJobs /\ UNCHANGED found) \/ Scripts

OpsSpec == OpsInit /\ [][OpsNext]_allVars

-----------------------------------------------------------------------------
(* Properties.  KeepsPromise, SweptOnlyIfMature and CompletionBacked of      *)
(* PaymentPipeline are asked of OpsSpec, too.                                *)

\* Running requeue-confirmed again and again never gives a payment two jobs of the
\* script's at a time, and never one that is not accepted: neither the reset of
\* reset-stuck nor the stalls and failures of the worker duplicate or revive an id
\* (requeue-confirmed.js's jobId).
OneJobPerId ==
  /\ \A j \in scriptJobs :
       /\ Live(j) /\ PastConfirmation(Pay(j))
       /\ Pay(j) \notin failedIds
  /\ \A i, j \in scriptJobs : Pay(i) = Pay(j) => i = j
=============================================================================
