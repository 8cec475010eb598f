# Verification of the crypto payment gateway

TLA+ models of the gateway in this repository: what its processes do between two
awaits, what may come in between, what of it is checked by TLC on small instances and
what is proved by TLAPS for every instance. Paths below are relative to the repository.

1. [The system](#1-the-system)
2. [Modules and how they correspond to the code](#2-modules)
3. [Properties, runs and what they show](#3-runs)
4. [Bounds](#4-bounds)
5. [Fairness](#5-fairness)
6. [Disagreements with the documentation](#6-disagreements)
7. [What is proved](#7-proofs)
8. [What is not modelled, and the plan](#8-plan)

## 1. The system

Two kinds of processes share a PostgreSQL database and a Redis server: the API server
(`src/index.ts`, several instances may run) and one worker process (`src/worker.ts`),
restarted by its supervisor when it dies. In the worker everything runs on one event loop:
steps of different components interleave at every `await`, never in between.

| Component | State it keeps | Operations | Talks to |
|---|---|---|---|
| Block watcher, one loop per network (`workers/blockWatcher.ts`) | `lastScannedBlocks`, `lastScanTimestamps`, `requeuedOnStartup` in memory; rows of `payments` | expire DETECTED rows older than 24 h, requeue payments without a sweep hash, check confirmations, scan wallets for deposits | chain, `payments`, `webhook_events`, sweep queue |
| Sweep worker (`workers/sweepWorker.ts`, `services/sweepService.ts`) | BullMQ jobs (5 attempts, 2 at a time), `payments.sweepTxHash` | claim, read balance, prefund gas, broadcast, record the hash, complete, queue the webhook | chain, `payments`, `webhook_events` |
| Recovery (`recoverStuckSweeps` in `worker.ts`) | none of its own | at startup and every 5 minutes: rows SWEEPING for 10 minutes are completed or reset and requeued | chain, `payments`, sweep queue |
| Withdrawals (`api/routes/withdrawals.ts`, `services/withdrawalService.ts`, `workers/withdrawalWorker.ts`) | `withdrawals`, BullMQ jobs (3 attempts, 3 at a time) | accept or refuse a request, create the row, enqueue, claim, pay, complete or fail, queue the webhook | chain (hot wallet), `webhook_events` |
| Webhook delivery (`services/webhookService.ts`, `workers/webhookWorker.ts`) | `webhook_events` | every 5 s: read due events in batches, POST them, mark or schedule a retry | the operator's endpoint, settings |
| Webhook replay, settings (`api/routes/admin.ts`, `services/settingsService.ts`) | `webhook_events.replayCount`, `settings` | reset an event to be delivered again, at most MAX_WEBHOOK_REPLAYS times; change the URL | webhook delivery |
| Deposit addresses (`services/userWalletService.ts`, `api/routes/deposits.ts`) | `user_wallets`, `user_wallet_counters` | get or create the permanent address of a user on a network | HD wallet |
| HD wallet, keystore (`blockchain/wallet`) | the seed | derive keys | none |
| Adapters (`blockchain/adapters`) | an RPC client each | balance, send, look up, find transfers | RPC nodes |
| Alerts, authentication, read-only endpoints, configuration | a map of cooldowns | send a message, check a key, list rows | none |
| Scripts of the operator (`scripts/*.js`) | none | requeue CONFIRMED payments, reset stuck ones | `payments`, sweep queue |

### What is hard, and what makes each component correct

* **Payment pipeline** (watcher, sweep worker, recovery). Three actors write the same row
  by id from snapshots that may be stale; a payment can have several jobs at once; the
  process may die between any two writes, with the broadcast of a transaction among them;
  a permanent address may hold several deposits while a sweep takes its whole balance.
  Correct means: no sweep before the confirmations, a verdict (accepted or expired) on
  every deposit that is never taken back, an accepted payment that always has somebody to
  move it on, funds that leave the address in the end, a COMPLETED row that names a
  transaction of its own, and webhooks that are true and arrive.
* **Deposit scan** (watcher, adapters, addresses). A scan reads wallets and rows, then the
  latest block, then each wallet, an await each; blocks come and wallets are allocated in
  between, and the window for the next scan is taken from some of these moments. Each
  network finds transfers in its own way. Correct means: no transfer falls between two
  windows, none is credited twice, rows for real deposits only, and every deposit is
  recorded in the end. The code does not keep all of this; sections 3 and 6 say how far
  it goes.
* **Operator's scripts.** They read and write the rows and the queue of a running worker,
  and are run again and again. Correct means: what the pipeline promises still holds, and
  a payment does not collect jobs.
* **Withdrawals.** A job is retried after any failure, also after the broadcast; API
  process and worker may die between two steps; the balance is read and not reserved.
  Correct means: no withdrawal is paid twice or after it was decided, COMPLETED only if
  paid, and the operator is told.
* **Webhook delivery.** Cycles overlap, since the timer does not wait; each writes the
  number of attempts it read earlier, over the other's and over a replay's. Correct
  means: no event drops out of the schedule, none counts as delivered that was not, every
  one comes to an end.
* **Deposit addresses.** Concurrent first requests race for a counter and two unique keys.
  Correct means: an address is given once, for ever, to one user on one network, indices
  have no gap (the wallets can be found again from the seed), and a request that loses
  the race loses it only to its own user.

The list of hazards with their lines is in PROJECT.json.

## 2. Modules

    Chain            the chain as the workers see it (external)
      PaymentStore   payments rows, webhook rows of a payment, the sweep queue
        SweepWorker, BlockWatcher, SweepRecovery    one actor each
          PaymentPipeline   the actors interleaved, crashes, fairness, properties
             implements  PaymentVerdict   (abstract)
             MCPaymentPipeline, PaymentPipelineProofs, OwnershipProofs (on it)
          OperatorScripts   the scripts beside the pipeline
             implements  PaymentVerdict
             MCOperatorScripts, OperatorScriptProofs (on OwnershipProofs)
    DepositScan      window of blocks, wallets' loop, what each adapter finds
             implements  DepositRegister  (abstract)
             MCDepositScan, DepositScanProofs
    Withdrawals      requests, jobs, processors, hot wallet
             implements  PayoutLedger     (abstract)
             MCWithdrawals, WithdrawalProofs
    WebhookDelivery  cycles, flights, replays, settings
             MCWebhookDelivery, WebhookProofs
    WalletAllocation getOrCreate's transaction and derivation paths
             implements  AddressBook      (abstract)
             MCWalletAllocation, WalletProofs

Conventions shared by all of them. An action is the code between two awaits. The local
variables of a handler that survive an await are state (`sweep[j]`, `watcher`, `rec[r]`,
`proc[w]`, `cycle[c]`, `request[r]`); what the handler was about to do is its `pc`. A
statement that may throw has a second action for it, enabled when `"throw"` is in
`Adversity`; a configuration names the faults it admits. Time is left out: a row grows
old, a retry becomes due, at any moment.

* **Chain.** `deposit[p]` is the transfer behind payment `p`: none, seen, mature (the
  confirmations `config.confirmations` asks for) or orphaned by a reorganisation. `bal` is
  the balance of an account, `txs` the sweep transactions: pending after the broadcast,
  then success or failed. Amounts are units of one deposit. Gas and its prefunding are
  inside the broadcast.
* **PaymentStore.** `status`, `sweepTx` are columns of `payments`; `aged` says that a row
  is older than its status allows; `events[p]` are the types of the `webhook_events`
  queued for `p`; `queue` holds BullMQ's jobs with the attempts left and whether they have
  stalled once, `failedJobs` the payments with a job in the failed set. `Claimable` is the
  WHERE clause of the claim. `AddJob` is `sweepQueue.add`, `RefuseJob` the same call when
  Redis answers with an error (full, read-only): the job does not exist and the caller's
  promise rejects. `refused` is a history variable, the payments whose last add in this
  process was refused; no guard reads it.
* **SweepWorker.** `StartSweep` takes a job and runs the claim; a claim that matches no row
  returns, and goes on to `NotifyCompleted`, as the code does. `SendReturned` tells the
  adapters apart: Solana's `sendTransaction` waits for the confirmation
  (`WaitsForConfirmation`), EVM's and TRON's do not. `SweepThrows` is BullMQ's retry.
* **BlockWatcher.** `scanNetwork` in the order of the code, one phase per await: expire,
  requeue, check, wallets. `ExpireStuck` and `Confirm` write by id, whatever the row has
  become; `requeued` is `requeuedOnStartup`, written before the add is awaited, so that
  `RequeueRefused` leaves a payment in it that has no job; it is lost in a crash. One
  network is modelled, since a loop reads only rows of its network.
* **SweepRecovery.** One run is a snapshot (`todo`, `seen`) and a loop that looks a hash up
  and completes or resets by id; `RecoveredRefused` is its add that rejects after the
  reset, into the catch of the loop. `booted` keeps the watcher waiting for the first run;
  the queue's workers are created before it, so jobs run beside it.
* **PaymentPipeline.** Composes the three, adds the crash of the process (locals are lost,
  BullMQ returns stalled jobs once), fairness, properties and the inductive invariant.
* **OperatorScripts.** `found` is what `requeue-confirmed.js` has still to queue,
  `scriptJobs` the jobs with its ids, `failedIds` the ids BullMQ keeps because their job
  failed (`removeOnFail: false`). `FollowJobs` accompanies each step of the pipeline: a job of
  the script that is gone completed, and its id with it, or failed. `ResetStuck` is the
  one `updateMany` of `reset-stuck.js`, whoever is sweeping those rows.
* **DepositScan.** The part of the watcher that BlockWatcher abstracts to "a scan finds any
  transfer or none". `network` picks the loop a behaviour shows; `window` holds
  `lastScannedBlocks` and `lastScanTimestamps` of the network and the first block read since
  the start (`origin`); `scan` the locals of `scanNetwork`. `credits` counts the rows written
  for a transfer; `passed` is a history variable, the transfers in blocks over which a scan
  of this process moved the window without having looked at their wallet. `Findable` is
  `findIncomingTransfers`: logs of the window (ERC-20), its blocks (native EVM), a page
  since a timestamp (TRON), the latest page of signatures whatever they are of (Solana).
  `Kind` tells deposits from the master wallet's prefundings and from noise, all else an
  account takes part in: its own sweeps, failed transactions. `FindableAtFault` is what a
  scan returns when the adapter swallows an error, which need not be nothing. A block is
  the unit of time: a transfer of block b has timestamp b, so `EndScan` leaves the block of the scan's
  start beside the time of its end, as the code does. `CheckPending` and `ReadWallets` take rows
  out of `pending` as checkConfirmations and expireStuckDetected may; which ones is
  BlockWatcher's affair.
* **DepositRegister.** What the scan promises about money: only a transfer on the chain is
  credited, once at most, and only what was credited is announced. What may be credited is
  fixed from the start: deposits, and on Solana the prefunding, whose sender the adapter
  does not hand on (section 6).
* **PaymentVerdict.** What the pipeline promises from outside: verdicts open, accepted,
  rejected; acceptance only of mature deposits; sweeps only of accepted ones; a webhook
  only if it is true. `PaymentVerdict` allows `PAYMENT_COMPLETED` once a sweep was
  broadcast, since the stronger reading does not hold (section 6).
* **Withdrawals.** Request, row, job and processor of a withdrawal share its index (one
  request adds one job). `Requested`, `Fee` and `Net` compute as the code does: the request
  in whole tokens by `BigInt`, the balance in smallest units. `Start` claims PENDING rows
  only; a claim that matches nothing ends in `NotifyCompleted`, as in the code.
* **PayoutLedger.** Ordered, paid at most once while open, decided once, completed only if
  paid.
* **WebhookDelivery.** A cycle is a run of `deliverPending`; `flight[e]` the delivery of an
  event of its batch, `seen[e]` the attempts that were read. `ScheduleRetry` writes
  `seen + 1`. `CheckReplay` and `Replay` are the two statements of the replay handler.
* **WalletAllocation.** `Count` is the upsert of the counter: its row lock serialises the
  transactions of one network (`Locked`). `Create` commits counter and wallet together;
  `CreateFails` rolls both back. `UserPath` holds the derivation paths; an address is its
  path.
* **AddressBook.** Addresses are assigned once, to one owner, and told only afterwards.

Every module with code carries a few operators marked "Mutant": small plausible bugs. Each
checked property is broken by one of them under the very configuration that checks it.

## 3. Runs

| Run | Properties | Instance | States |
|---|---|---|---|
| PipelineFaults | TypeOK, ConfirmedIsOwned, CompletionBacked, ClaimedIsWorkedOn, CompletedIsAnnounced | one payment, 2 jobs, 2 hashes, adapter that waits, calls throw, sweeps revert, recoveries race live jobs, one crash | 2.5 million |
| PipelineShared | SweptOnlyIfMature, OneJobPerId, ClaimedIsWorkedOn, KeepsPromise | two payments to one address, 2 jobs, 2 hashes, reorganisations, the operator's scripts any number of times, no recoveries | 2.4 million |
| PipelineLive | DetectedIsDecided, AcceptedIsSwept, CompletedIsTold | one payment, 2 jobs, 3 hashes, one crash, reorganisations, with fairness | 340 thousand |
| DepositScanning | TypeOK, NoGap, UntoldAreFaults, KeepsRegister, WatchedIsDetected | three networks in turn with all faults on each: a deposit to one of two wallets (EVM); a transaction that pays two wallets, and a prefunding (TRON); a deposit, a prefunding and noise of one account (Solana); pages of one, three blocks, two faults, with fairness | 420 thousand |
| WithdrawalFaults | TypeOK, PendingIsNotDone, KeepsLedger, QueuedIsTold | two withdrawals, funds for one, all faults, two crashes, with fairness | 280 thousand |
| WebhookFaults | TypeOK, PendingIsScheduled, ReplaysAreBounded, DeliveredIsReceived, PendingIsSettled | one event, two cycles, two replays, all faults, one crash, with fairness | 77 thousand |
| WalletFaults | TypeOK, IndicesAreUsed, FailedIsAllocated, KeepsBook | two users, two EVM networks, two requests, all faults | 48 thousand |

What they show:

* **PipelineFaults.** Whatever throws or dies between the status CONFIRMED and the sweep
  job, the payment has a job, is in the hands of the watcher or the recovery, or will be
  found by the next scan; failing that, its job has used up its attempts and is in the
  failed set, or Redis refused the last job that this process added for it. The last case
  is a flaw (section 6): such a payment has nobody until a restart. The property says that
  it is the only one, and that a restart heals it, which depends on `requeuedOnStartup` being
  forgotten in a crash. A COMPLETED
  row names a transaction broadcast for this payment, and a successful one where the
  adapter waits, even when a recovery and a live job, or two jobs, work on it at once. A
  claim outlives its process: a row SWEEPING without a hash has a job that works on it or
  will claim it again, which is the second alternative of the claim's WHERE clause at work
  (without it, the stalled job's retry finds nothing to claim). And though the recovery
  completes rows without a webhook, none is completed in silence: the job
  that broadcast, or one that lost the claim to it, is still there to announce it.
* **PipelineShared.** Nothing is swept before its confirmations, and the pipeline
  implements PaymentVerdict when two deposits share an address and are reorganised. The
  watcher's unconditional writes are safe because it alone moves rows into and out of
  DETECTED. All of it holds with `requeue-confirmed.js` and `reset-stuck.js` run at any
  moment; a payment has at most one job under the script's id. What the scripts cannot
  promise is that a reset row is not being swept: a second processor may then
  sweep beside the first, which PaymentVerdict allows. A claim of the second is not left
  without a job either, when it is reset once more or the process dies.
* **PipelineLive.** A deposit is decided even if its block is reorganised away; an accepted
  one leaves its address in the end, with a crash at any point, in particular between
  broadcast and hash: the claim's second alternative and the recovery make up for it; and
  after one crash payment.completed is still queued, because the retried job notifies even
  when it loses the claim. That lost-claim notification is at once a flaw (section 6) and what makes
  this hold.
* **DepositScanning.** Every fault happens on every network, and the properties say
  exactly what is lost then. On ETH and BSC an ERC-20 deposit between the first block
  read since the start and the last one scanned has a row, or lies in a block that a scan
  passed over for its wallet: a throw made the scan leave the wallet, or the wallet was
  allocated while `getLatestBlock` was awaited (NoGap). So blocks mined during a scan are not
  lost, since the window's last block is the one read before the wallets are fetched, and
  neither are the deposits of wallets allocated at any other moment. What was mined before
  the origin of a restarted window is lost, too (WatchedIsDetected). Solana rereads its
  latest page and needs no window, hence it recovers from every fault, unless a full page
  of signatures of any kind lies before the deposit. No transfer is credited twice, though
  windows overlap by a block and pages are read again when its row is long decided
  (KeepsRegister). Rows that nobody is told of exist, and are no more than the faults: a
  scan announces a row before it creates the next. NoGap and WatchedIsDetected are about
  deposits with a transaction of their own: of a transaction that pays two wallets,
  which is in the instance, one gets no row (section 6). Native deposits on ETH and BSC
  are not watched for (section 6).
* **WithdrawalFaults.** A withdrawal is paid at most once: the claim asks for PENDING, so
  no retry can pay again. It is never reopened, and its webhook is queued unless the job
  ends in the failed set. The lost-claim success report of section 6 can hit a withdrawal
  that failed or is stuck, but never one still PENDING; and a PENDING row without a
  job means that its handler has not queued it yet, died before it did, or had its job
  refused by Redis. Nothing picks such a row up again (section 6).
* **WebhookFaults.** Cycles overlap and set attempts back, replays land in the middle of
  deliveries, and still `attempts < MaxAttempts` is equivalent to being scheduled for each
  undelivered event, and every event comes to an end: in one cycle after another
  its attempts grow. Replays that overlap can pass the limit, by fewer than there are
  requests at once: each has read a count below it.
* **WalletFaults.** The upsert's row lock makes indices gapless and the unique key on
  addresses never fails; the one on (user, network) does, and then only for a user whose
  other request has created the wallet.

Five further runs check one documented statement each and find it violated (section 6).

## 4. Bounds

* `Job`, `Tx`, `Recoverer`, `MaxCrashes`: two jobs are what a payment needs for two
  processors to race (a third repeats the second); two or three hashes give a retried sweep
  a second and third broadcast; when they are used up the node refuses (`Rejects`). One run
  of the recovery at a time races live jobs, which is the interesting case; overlapping
  runs of it are covered by the proofs. One crash of the pipeline makes a job stall once;
  two in WithdrawalFaults let it stall for good.
* `MaxAttempts` 2 instead of 5 or 3: one retry and one final failure.
* `Payment`: one payment exercises every interleaving of the three actors; two at one
  address add the shared balance. Payments at different addresses interact only through
  the queue's concurrency. `SweepConcurrency` is the code's.
* `found` and the scripts: their jobs share the two slots of `Job` with the worker's; the
  scripts run any number of times. PipelineShared has no recovery, whose race with live jobs is
  PipelineFaults' subject; the proofs have both.
* PipelineFaults has a VIEW: TLC tells states apart by everything but the webhooks other
  than `PAYMENT_COMPLETED`. No guard and none of the run's properties reads those, and
  nothing removes a webhook, so two states that differ in them alone have the same
  futures. OwnershipProofs do without it.
* DepositScanning: `MaxBlock` 3 puts a transfer before, in and after a scan's window and lets
  a restart with `MaxBlocksBack` 1 begin behind it; `PageSize` 1 makes two entries too many
  for a page; `MaxFaults` 2 is a fault in a scan and one in the next. Each network has the
  transfers whose handling differs there, since a behaviour shows one network. There are no
  reorganisations in DepositScan: Chain has them.
* `Unit` 2 and `Funds` 2: two requests for a token of two units against one token, so that
  a request is refused after the first payout, and a payout fails when both were accepted.
* `Cycle`, `Replayer`: two of each overlap; `MaxReplays` 1 lets two replays race past it.
  `BatchSize` 1 with one event makes each batch full, so a cycle may go on to the next.
* `Request`: two requests of one user or of two. That is what a race for a counter or a key needs.
* Symmetry only in runs without liveness.

The proofs have none of these bounds, except that they are stated of the same
specifications (`MaxCrashes` any natural number, any finite sets).

CHECK_DEADLOCK FALSE is set for withdrawals only: when every request was answered and every
job is done, nothing happens any more.

## 5. Fairness

* Weak fairness of what follows an await: promises are resolved, RPC calls have
  timeouts. Weak fairness of the watcher's loop, the timers and the delivery's steps.
* Strong fairness of taking a job (`StartSweep`, `Start`): BullMQ's queue is first-in
  first-out, so a job that can start again and again is started; delays are finite.
* Strong fairness of `ReadBatch` and `ScheduleRetry`: the database does not refuse the same
  statement each time. `findMany` has no ORDER BY, so nothing is assumed of *which* events
  a full batch holds; with more than `BatchSize` due events the code guarantees no
  individual event its turn, and none is claimed.
* The chain settles what was broadcast and buries what it included, rows grow old.
* Weak fairness of `ScanStep` (DepositScan): the loop goes on, every request is answered or
  times out. Failing calls are finitely many there, and crashes, too: a network that
  fails for ever detects nothing.
* Never forced: faults, crashes, new transfers, requests, finding a transfer in a scan.

## 6. Disagreements

Violated by a run, which finds the shortest behaviour:

| Run | The statement | What happens |
|---|---|---|
| DepositMissed | "We detect the deposit on-chain" (`docs/API.md:41`) | TRON: the transfer is mined while the wallets are fetched; the timestamp is taken after that (`blockWatcher.ts:188`), so no later request covers it |
| SharedAccount | a CONFIRMED payment is completed (`README.md:172`) | the sweep of one payment takes the balance of both, the other finds zero and fails for ever |
| CompletedThoughFailed | withdrawal.completed: transfer confirmed (`docs/API.md:260`) | the retry of a failed withdrawal loses its claim and the processor reports success |
| FailedThoughPaid | withdrawal.failed: transfer failed (`docs/API.md:261`) | the update after the broadcast throws, and the catch marks and reports FAILED |
| LeftProcessing | a queued withdrawal is executed (`docs/API.md:159`) | a crash after the claim leaves PROCESSING, which no claim matches and nothing recovers |

Seen while modelling and visible in the actions named, without a run of their own:

* A sweep job that Redis refuses leaves a CONFIRMED payment without anybody until a restart:
  `requeeLostSweeps` has put the id into its set before the add (`blockWatcher.ts:115-116`),
  and the recovery swallows the error of its own add after the reset (`worker.ts:72-74`),
  against "reset to CONFIRMED so sweep retries" (`worker.ts:66`). `RequeueRefused` and
  `RecoveredRefused` show it, and ConfirmedIsOwned names it as its exception.
* Native deposits on ETH and BSC are never detected (`IsScanned`): the scan for them waits for
  a pending row of the native token (`blockWatcher.ts:208`), and nothing else writes the
  first. `docs/API.md` lists ETH and BNB as supported tokens and `README.md:154` has the
  reader send test ETH. DepositIsDetected, which DepositMissed finds violated on TRON, is
  violated by a native deposit on EVM in the same way, without any fault.
* On ETH and BSC a wallet whose scan throws, and a wallet allocated while `getLatestBlock` is
  awaited, is passed over although the window moves on (`LeaveWallet`, `BeginAt`): its
  deposits in that window are lost, and so are those in the blocks before the five that a
  restart reads (`FirstBlock`), against "We detect the deposit on-chain" (`docs/API.md:41`).
* One transaction that pays two deposit addresses, or in two tokens, gets one row, for
  whichever the scan meets first (`IsDuplicate`; `txHash` is unique), against the same line.
* On Solana a deposit behind 50 newer signatures of its account, the account's own sweeps,
  failed transactions and spam included, is never seen (`SolanaTransfers`).
* A withdrawal whose job Redis refuses, or whose handler dies before the add, stays PENDING
  for ever (`RequestThrows`, `RequestLost`); `getPendingWithdrawals` has no caller.
* Gas that the master wallet sends ahead of a sweep on Solana is recorded as a deposit
  (`FromMaster`; `blockWatcher.ts:327`).
* `queueWebhook` throws after the row was created: the deposit is never announced
  (`RecordThrows`, then `IsDuplicate`).
* `recoverStuckSweeps` resets by id what it read as SWEEPING: when a slow job has completed the row
  meanwhile, COMPLETED becomes CONFIRMED again (`ResetToConfirmed`), against the order of
  `README.md:172`.
* The hot wallet's balance in smallest units is compared with a number of tokens
  (`EnoughFunds`): requests it cannot pay are accepted, against "Insufficient funds in hot
  wallet" (`withdrawalService.ts:36`).
* Once a job of `requeue-confirmed.js` has failed, later runs do nothing for that payment
  (`IdIsKnown`).
* Two jobs may own one sweep (`Requeue` beside a live job; the claim's retry clause matches
  while the first works), although `sweepService.ts:42` says another worker owns it.
* After a crash between broadcast and hash, `Claimable` matches a payment that has been
  broadcast, against the comment at `sweepService.ts:29`.
* payment.completed is queued after a lost claim, when another job is still sweeping
  (`StartSweep`, `NotifyCompleted`; `sweepWorker.ts:24`).
* Sweeps and payouts are COMPLETED at the broadcast on EVM and TRON and stay so if the
  transaction fails.
* A second stall fails a job for good: a completed payment is then told to nobody.
* `BigInt` refuses amounts with decimals, which the schema and `docs/API.md:174` allow; the
  fee is truncated to whole tokens (1% of 50 is 0; `docs/API.md:407` says 0.5).
* Overlapping cycles lose failures (`ScheduleRetry` writes `seen + 1`), so an event may be
  tried more often than `docs/API.md:301` says; two replays can pass the limit of
  `admin.ts:164`; a delivery in flight can overwrite a replay.
* Two concurrent first requests for an address: one is answered 500 (`CreateFails`).

## 7. Proofs

All proofs follow one pattern: an inductive invariant `IInv`, stated beside the component
and true of every reachable state, is shown to hold initially and to be kept by each action;
the theorems follow from it.

| Module | Theorems | The inductive invariant and why it is needed |
|---|---|---|
| PaymentPipelineProofs | TypeCorrect, NothingSweptUnconfirmed (SweptOnlyIfMature), CompletionIsBacked (CompletionBacked), PipelineKeepsPromise (KeepsPromise) | `SweptOnlyIfMature` is not inductive: a job, a snapshot or a hash in flight leads to a sweep later. IInv says that everything in flight is about a payment that was already decided the way its holder believes (`JobsAreAccepted`, `TxsAreAccepted`, `WatcherIsCurrent`, `RecoveryIsAccepted`), that only mature deposits were accepted, and that every hash held belongs to its payment (`SweepsAreBacked`, `RowsAreBacked`) |
| OwnershipProofs | OnlyRefusedAreOrphaned (ConfirmedIsOwned), ClaimsAreWorkedOn (ClaimedIsWorkedOn), NobodyCompletesInSilence (CompletedIsAnnounced) | `OwnedInv`: an owner that may go away leaves another behind. None of the three is inductive, since a row moves between CONFIRMED, SWEEPING and COMPLETED under the hands of its job. `ConfirmedIsSafe`: a job will claim the row or works on it, the failed set has its job, or it has no hash and is either untouched by this process, so that the next scan requeues it, or in the hands of a recovery that will add a job; in the last case the webhook is told or coming, since another recovery may complete the row again. An add that Redis refused leaves the row as it was, with `refused` in the place of the owner, until another add or a restart. `SweepingIsSafe`: the same job, or the hash is recorded and the webhook told or coming: the job of a row with a hash may have left for its webhook. A job that only notifies does not count as working, because it will end without moving the row. It uses IInv |
| OperatorScriptProofs | IdsStayApart (OneJobPerId), ScriptsSweepNothingUnconfirmed (SweptOnlyIfMature), ScriptsLeaveClaimsWorkedOn (ClaimedIsWorkedOn), ScriptsOrphanOnlyRefused (ConfirmedIsOwned, CompletedIsAnnounced), ScriptsCompleteTruly (CompletionBacked), ScriptsKeepPromise (KeepsPromise) | IInv and OwnedInv of the pipeline, which the scripts keep as well: `requeue-confirmed` only adds jobs, and what `reset-stuck` takes from a job the same job, or the claim's retry, can take back. And that the rows found are accepted ones |
| DepositScanProofs | TypeCorrect, ScanKeepsRegister (KeepsRegister), WindowHasNoGap (NoGap), EachFaultSilencesOne (UntoldAreFaults) | `OnlyLanded`: what is in hand is on the chain and came in, and is of one wallet, so that leaving the wallet lets go of nobody else's. `GapInv`: the snapshot of wallets has everybody who can have been paid up to the block read, or was late (`SnapshotIsComplete`), and what is in the window and not recorded is in hand, still to be fetched, or in a block passed over (`NothingPassedOver`). It admits every fault. ScanKeepsRegister: a row is only written for a transaction without one, so a transfer's count goes from none to one. `UntoldInv`: a row is in hand (`scan.cur`) only until its webhook was queued, so a fault that lets go of it adds one to the untold and one to the faults; the rest is the cardinality of finite sets |
| WithdrawalProofs | TypeCorrect, WithdrawalsKeepLedger (KeepsLedger), PendingIsNeverDone (PendingIsNotDone), FeeIsRoundedDown, PayoutIsWithinRequest | a processor's belief about its row is true (`ProcIsCurrent`), PENDING rows are unpaid and COMPLETED ones paid once (`RowsAreTrue`), a request's row exists exactly from its creation on (`RequestsAreTrue`). `DoneIsClaimed` for PendingIsNeverDone: whoever reports success, or ends the job, found the row claimed, and no row is given back. The two theorems on amounts need no invariant: they bound the fee and the payout for every request, unit and percentage (hazard `withdrawalService.ts:40`) |
| WebhookProofs | TypeCorrect, NoEventIsForgotten (PendingIsScheduled), DeliveryIsReal (DeliveredIsReceived), ReplayLimitHolds (ReplaysAreBounded) | `AcceptedIsReceived`: a delivery about to mark its event was accepted; the bound on `seen` in the type invariant keeps attempts within their limit. ReplaysAreBounded is inductive with the types: a request that has checked counts as a replay to come |
| WalletProofs | TypeCorrect, IndicesHaveNoGap (IndicesAreUsed), FailureIsHarmless (FailedIsAllocated), AllocationKeepsBook (KeepsBook) | `LockIsExclusive`: one transaction per network holds the counter, one past the committed value; `AnswerHasWallet` for what clients are told |

Assumptions are the named ASSUMEs of the component modules: what the constants are, that
null values are none of the others, and that limits are natural numbers. Refinement is
proved as initial states to initial states and each step to an abstract step or a stutter.
The theorems about WebhookDelivery assume that the requests in flight are finitely many
(ReplayerAssumption).

Updates of several fields of one record are written `[f EXCEPT ![x] = [@ EXCEPT !.a = ..,
!.b = ..]]`, with one path into `f`, the old value of a field spelt out as `f[x].b`. TLC
reads the form with several paths (`![x].a = .., ![x].b = ..`) in the same way, but tlapm 1.4.5
encodes it for its SMT solver as if each update were made to the original `f[x]`,
which is contradictory and would make a proof worthless; a second `@` inside the nested
update is expanded wrongly, too. No module has either form. As a test that no proof rests on
such an encoding, the obligations sent to the SMT solver were solved again without their
goals: only cases that really are impossible came out contradictory.

Model-checked only: the liveness properties (DetectedIsDecided, AcceptedIsSwept,
CompletedIsTold, WatchedIsDetected, QueuedIsTold, PendingIsSettled), since fairness and
ENABLED are outside the proof system's reach, and the violated statements. Every safety
property of a run is also a theorem.

## 8. Plan

The modules were written in this order, most important behaviour first: Chain and
PaymentStore, the three actors and their composition, the abstract verdict, its proofs;
withdrawals; webhook delivery; deposit addresses; the deposit scan; the scripts; the proofs
of ownership, with the scripts and without. What would come next:

1. **Deposits end to end**: allocation composed with the scan and the pipeline, one payment
   per transfer to an allocated address. DepositScan already has allocation as an action and
   leaves the pipeline's verdicts open.
2. **TronSigner**: the private key set on a shared client, with an await before `send`
   reads it (`adapters/tron.ts:91`); it depends on what `contract()` of the library awaits.
3. **Gas prefunding** as steps of a sweep of its own: a fixed wait of five seconds, repeated
   on each retry (`sweepService.ts:145`).
4. **WatchLoop**: `watchNetwork`'s backoff and the alerts' cooldown.

Not modelled: cryptography of keystore and HD wallet, signatures of webhooks and the URL
policy (pure functions), alerts (no other component reads their state), authentication and
read-only endpoints, configuration, `scripts/setup.js` (it writes configuration files before
anything runs), the web pages, gas prefunding inside a sweep, nonces, and the length of
backoffs. PROJECT.json lists each with its status.
