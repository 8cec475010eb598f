---------------------------- MODULE DepositScan ----------------------------
(***************************************************************************)
(* How the block watcher finds deposits: scanNetwork's window of blocks,   *)
(* checkUserWalletForDeposit (src/src/workers/blockWatcher.ts) and what    *)
(* each adapter's scan returns (src/src/blockchain/adapters).  BlockWatcher*)
(* has the rest of the loop, and lets a scan find any transfer or none;    *)
(* here is which ones it finds.                                            *)
(*                                                                         *)
(* A loop per network runs, on rows of its network only: `network' says    *)
(* which of them a behaviour shows.  A block is the unit of time: a        *)
(* transfer of block b has the timestamp b, and Date.now() after block b   *)
(* and before the next lies between b and b + 1.                           *)
(*                                                                         *)
(*   idle      between two scans                                           *)
(*   tip       the rows and wallets were read, getLatestBlock is awaited   *)
(*   check     the confirmations of the pending rows are checked           *)
(*   wallets   the next wallet and token is fetched                        *)
(*   record    a row for each of the transfers found                       *)
(*   announce  the row of cur exists, its webhook is next                  *)
(***************************************************************************)
EXTENDS Integers, FiniteSets

CONSTANTS
  Network,        \* among "EVM" (ETH and BSC), "TRON", "SOLANA"
  Wallet, NetworkOf,              \* rows of user_wallets
  Token, Native,
  Transfer, To, TokenOf, HashOf,  \* the transfers there may be
  Kind,           \* "deposit", "gas" (the master wallet's prefunding) or "noise":
                  \* what else the account is in, as a sweep or a failed transaction
  MaxBlocksBack,  \* 5: how far a first scan goes back
  MaxNativeScan,  \* 50: blocks read for native EVM transfers
  PageSize,       \* 50: the limit of one TRON or Solana request
  Adversity,      \* among "throw", "crash", "late" (a wallet is allocated between
                  \* findMany and the answer of getLatestBlock)
  MaxBlock, MaxFaults,    \* blocks, failing calls and crashes (BOUNDS)
  NoWallet, NoTransfer

ASSUME NetworkAssumption ==
  /\ Network \subseteq {"EVM", "TRON", "SOLANA"}
  /\ Adversity \subseteq {"throw", "crash", "late"}
ASSUME TransferAssumption ==
  /\ NetworkOf \in [Wallet -> Network]
  /\ To \in [Transfer -> Wallet]
  /\ TokenOf \in [Transfer -> Token]
  /\ Kind \in [Transfer -> {"deposit", "gas", "noise"}]
  /\ Native \in Token
  /\ \A t \in Transfer : Kind[t] = "gas" => TokenOf[t] = Native
  /\ NoWallet \notin Wallet /\ NoTransfer \notin Transfer
ASSUME LimitAssumption ==
  /\ MaxBlocksBack \in Nat /\ MaxNativeScan \in Nat /\ PageSize \in Nat
  /\ MaxBlock \in Nat /\ MaxFaults \in Nat

VARIABLES
  network,   \* never changes
  tip,       \* the latest block
  landed,    \* the block of each transfer, 0 before it has one
  known,     \* the wallets of user_wallets
  born,      \* the block at which each was created
  credits,   \* how many payments rows were written for each transfer
  pending,   \* the transfers with a row that is DETECTED
  told,      \* transfers whose PAYMENT_DETECTED was queued
  window,    \* lastScannedBlocks, lastScanTimestamps; origin is the first
             \* block that was read since the process started
  passed,    \* the transfers in blocks that a scan of this process passed over
             \* (history variable)
  scan,      \* scanNetwork's locals
  faults     \* failing calls and crashes so far

chainVars == <<tip, landed>>
rowVars == <<credits, pending, told>>
windowVars == <<window, passed>>
vars == <<network, chainVars, known, born, rowVars, windowVars, scan, faults>>

\* The transfers with a payments row.
rows == {t \in Transfer : credits[t] > 0}

IdleScan == [pc |-> "idle", wallets |-> {}, pend |-> {}, from |-> 0, to |-> 0, since |-> 0,
             todo |-> {}, wallet |-> NoWallet, found |-> {}, cur |-> NoTransfer]
NoWindow == [set |-> FALSE, block |-> 0, time |-> 0, origin |-> 0]

ScanPc == {"idle", "tip", "check", "wallets", "record", "announce"}
ScanState == [pc: ScanPc, wallets: SUBSET Wallet, pend: SUBSET Transfer,
              from: Nat, to: Nat, since: Nat, todo: SUBSET (Wallet \X Token),
              wallet: Wallet \cup {NoWallet}, found: SUBSET Transfer,
              cur: Transfer \cup {NoTransfer}]

TypeOK ==
  /\ network \in Network
  /\ tip \in Nat
  /\ landed \in [Transfer -> Nat]
  /\ known \subseteq Wallet
  /\ born \in [Wallet -> Nat]
  /\ credits \in [Transfer -> Nat]
  /\ pending \subseteq rows /\ told \subseteq Transfer
  /\ window \in [set: BOOLEAN, block: Nat, time: Nat, origin: Nat]
  /\ passed \subseteq Transfer
  /\ scan \in ScanState
  /\ faults \in Nat

Init ==
  /\ network \in Network
  /\ tip = 0
  /\ landed = [t \in Transfer |-> 0]
  /\ known = {}
  /\ born = [w \in Wallet |-> 0]
  /\ credits = [t \in Transfer |-> 0]
  /\ pending = {} /\ told = {}
  /\ window = NoWindow
  /\ passed = {}
  /\ scan = IdleScan
  /\ faults = 0

At(pc) == scan.pc = pc
MayHappen(fault) == fault \in Adversity

\* A call fails, or the process does.
Fault(fault) ==
  /\ MayHappen(fault)
  /\ faults < MaxFaults
  /\ faults' = faults + 1

-----------------------------------------------------------------------------
(* The chain and the API.                                                   *)

\* A prefunding is sent for a payment that is being swept.
IsSent(t) ==
  /\ landed[t] = 0
  /\ To[t] \in known
  /\ Kind[t] = "gas" => \E r \in rows \ pending : To[r] = To[t]

\* A block with the transfers of S, all those of their transactions.
Mine(S) ==
  /\ tip < MaxBlock
  /\ \A t \in S, u \in Transfer : HashOf[u] = HashOf[t] => u \in S
  /\ tip' = tip + 1
  /\ landed' = [t \in Transfer |-> IF t \in S THEN tip + 1 ELSE landed[t]]
  /\ UNCHANGED <<network, known, born, rowVars, windowVars, scan, faults>>

\* userWalletService.getOrCreate, in the API's process.
Allocate(w) ==
  /\ NetworkOf[w] = network
  /\ w \notin known
  /\ At("tip") => MayHappen("late")
  /\ known' = known \cup {w}
  /\ born' = [born EXCEPT ![w] = tip]
  /\ UNCHANGED <<network, chainVars, rowVars, windowVars, scan, faults>>

-----------------------------------------------------------------------------
(* What the adapters find for a wallet and a token.                         *)

OnChain(w, k) == {t \in Transfer : landed[t] > 0 /\ To[t] = w /\ TokenOf[t] = k}

Incoming(S) == {t \in S : Kind[t] # "noise"}

\* The newest PageSize of S, in one of the orders the node may list them.
Pages(S) ==
  {P \in SUBSET S :
     /\ \A t \in P, u \in S \ P : landed[t] >= landed[u]
     /\ IF Cardinality(S) <= PageSize THEN P = S ELSE Cardinality(P) = PageSize}

\* evm.ts: eth_getLogs from the last block scanned on, it included.
Erc20Transfers(w, k) ==
  Incoming({t \in OnChain(w, k) : landed[t] >= scan.from /\ landed[t] <= scan.to})

\* evm.ts: the blocks after the last one scanned.
NativeTransfers(w, k) ==
  Incoming({t \in OnChain(w, k) : /\ landed[t] > scan.from /\ landed[t] <= scan.to
                                  /\ landed[t] > scan.to - MaxNativeScan})

\* tron.ts: one page since min_timestamp, of TRC-20 transfers to the account, or of all
\* its transactions, of which the transfers are kept.
TronTransfers(w, k) ==
  LET recent == {t \in OnChain(w, k) : landed[t] >= scan.since}
  IN  IF k = Native THEN {Incoming(P) : P \in Pages(recent)} ELSE Pages(Incoming(recent))

\* Mutant: the scan stops at the last block it knows.
SolanaTransfersUntil(w, k) ==
  {Incoming(P) : P \in Pages({t \in OnChain(w, k) : window.set => landed[t] > window.block})}

\* solana.ts: the latest page of signatures, whatever they are of, read again in every
\* scan; the incoming transfers are kept.
SolanaTransfers(w, k) == {Incoming(P) : P \in Pages(OnChain(w, k))}

\* findIncomingTransfers: what the scan of k in w may return.
Findable(w, k) ==
  CASE network = "EVM" /\ k = Native -> {NativeTransfers(w, k)}
    [] network = "EVM" /\ k # Native -> {Erc20Transfers(w, k)}
    [] network = "TRON" -> TronTransfers(w, k)
    [] network = "SOLANA" -> SolanaTransfers(w, k)

\* What it may return when the node fails and nothing is thrown: tron.ts catches the
\* error of its only request; a block (evm.ts) or a transaction (solana.ts) that the
\* node does not give is skipped, and solana.ts catches a token's errors.
FindableAtFault(w, k) ==
  CASE network = "TRON" -> {{}}
    [] network = "SOLANA" \/ k = Native -> UNION {SUBSET F : F \in Findable(w, k)}
    [] OTHER -> {}

\* Where the adapter does not catch the error of a request.
Rethrows(k) == network = "EVM" \/ (network = "SOLANA" /\ k = Native)

-----------------------------------------------------------------------------
(* scanNetwork *)

\* expireStuckDetected (BlockWatcher) fails D of the pending rows; findMany of those
\* that are left and of the wallets; without any the scan returns.
ReadWallets ==
  /\ At("idle")
  /\ known # {}
  /\ \E D \in SUBSET pending :
       /\ pending' = pending \ D
       /\ scan' = [scan EXCEPT !.pc = "tip", !.wallets = known, !.pend = pending \ D]
  /\ UNCHANGED <<network, chainVars, known, born, credits, told, windowVars, faults>>

\* Mutant: the window may begin before the first block.
FirstBlockUnchecked(age) == tip - (IF age + 2 < MaxBlocksBack THEN age + 2 ELSE MaxBlocksBack)

\* The first block of a first scan, when the oldest wallet has this age.
FirstBlock(age) ==
  LET back == IF age + 2 < MaxBlocksBack THEN age + 2 ELSE MaxBlocksBack
  IN  IF tip > back THEN tip - back ELSE 0

Oldest(w) == w \in scan.wallets /\ \A v \in scan.wallets : born[w] <= born[v]

\* In the wallets of W, a scan leaves out the blocks before the one that the next scan
\* begins with.
PassOver(W, from, to) ==
  passed' = passed \cup {t \in Transfer : To[t] \in W /\ landed[t] \in (from .. to - 1) \ {0}}

\* A wallet allocated after findMany is not in this scan, and the next one begins
\* at the block of now.
BeginAt(from, since) ==
  /\ scan' = [scan EXCEPT !.pc = "check", !.to = tip, !.from = from, !.since = since]
  /\ PassOver(known \ scan.wallets, from, tip)

\* getLatestBlock answers: the window goes on where the last scan ended, or
\* begins as far back as the oldest wallet and MaxBlocksBack allow.
ReadTip ==
  /\ At("tip")
  /\ \/ window.set /\ BeginAt(window.block, window.time)
     \/ /\ ~window.set
        /\ \E w \in scan.wallets : Oldest(w) /\ BeginAt(FirstBlock(tip - born[w]), born[w])
  /\ UNCHANGED <<network, chainVars, known, born, rowVars, window, faults>>

\* Native EVM transfers are looked for only where a row of the token is pending.
IsScanned(w, k) ==
  network = "EVM" /\ k = Native => \E r \in scan.pend : To[r] = w /\ TokenOf[r] = k

\* checkConfirmations (BlockWatcher) decides D of the pending rows; the wallets
\* are next.
CheckPending ==
  /\ At("check")
  /\ \E D \in SUBSET scan.pend : pending' = pending \ D
  /\ scan' = [scan EXCEPT !.pc = "wallets",
                          !.todo = {x \in scan.wallets \X Token : IsScanned(x[1], x[2])}]
  /\ UNCHANGED <<network, chainVars, known, born, credits, told, windowVars, faults>>

\* One wallet after the other.
CanFetch(w, k) ==
  /\ At("wallets")
  /\ <<w, k>> \in scan.todo
  /\ w = scan.wallet \/ \A l \in Token : <<scan.wallet, l>> \notin scan.todo

FetchOf(w, k, F) ==
  scan' = [scan EXCEPT !.pc = IF F = {} THEN "wallets" ELSE "record", !.wallet = w,
                       !.todo = @ \ {<<w, k>>}, !.found = F]

Fetch(w, k) ==
  /\ CanFetch(w, k)
  /\ \E F \in Findable(w, k) : FetchOf(w, k, F)
  /\ UNCHANGED <<network, chainVars, known, born, rowVars, windowVars, faults>>

FetchFindsLess(w, k) ==
  /\ CanFetch(w, k)
  /\ Fault("throw")
  /\ \E F \in FindableAtFault(w, k) : FetchOf(w, k, F)
  /\ UNCHANGED <<network, chainVars, known, born, rowVars, windowVars>>

\* The catch around a wallet: its other tokens are left out, and the scan goes on to
\* move the window.
LeaveWallet(w) ==
  /\ scan' = [scan EXCEPT !.pc = "wallets", !.wallet = w, !.todo = {x \in @ : x[1] # w},
                          !.found = {}, !.cur = NoTransfer]
  /\ PassOver({w}, scan.from, scan.to)

FetchThrows(w, k) ==
  /\ CanFetch(w, k)
  /\ Rethrows(k)
  /\ Fault("throw")
  /\ LeaveWallet(w)
  /\ UNCHANGED <<network, chainVars, known, born, rowVars, window>>

-----------------------------------------------------------------------------
(* checkUserWalletForDeposit, for each transfer found *)

\* findIncomingTransfers keeps the sender, except on Solana.
FromMaster(t) == Kind[t] = "gas" /\ network # "SOLANA"

\* Mutant: only the rows that are still DETECTED are compared.
IsDuplicatePending(t) == \E r \in pending : HashOf[r] = HashOf[t]

\* txHash is unique in payments (P2002).
IsDuplicate(t) == \E r \in rows : HashOf[r] = HashOf[t]

Done(t) ==
  scan' = [scan EXCEPT !.pc = IF scan.found = {t} THEN "wallets" ELSE "record",
                       !.found = @ \ {t}, !.cur = NoTransfer]

Skip(t) ==
  /\ At("record")
  /\ t \in scan.found
  /\ FromMaster(t) \/ IsDuplicate(t)
  /\ Done(t)
  /\ UNCHANGED <<network, chainVars, known, born, rowVars, windowVars, faults>>

Record(t) ==
  /\ At("record")
  /\ t \in scan.found
  /\ ~FromMaster(t) /\ ~IsDuplicate(t)
  /\ credits' = [credits EXCEPT ![t] = @ + 1]
  /\ pending' = pending \cup {t}
  /\ scan' = [scan EXCEPT !.pc = "announce", !.cur = t]
  /\ UNCHANGED <<network, chainVars, known, born, told, windowVars, faults>>

\* Mutant: the webhook of a row is forgotten.
AnnounceNothing ==
  /\ At("announce")
  /\ Done(scan.cur)
  /\ UNCHANGED <<network, chainVars, known, born, rowVars, windowVars, faults>>

Announce ==
  /\ At("announce")
  /\ told' = told \cup {scan.cur}
  /\ Done(scan.cur)
  /\ UNCHANGED <<network, chainVars, known, born, credits, pending, windowVars, faults>>

RecordThrows ==
  /\ At("record") \/ At("announce")
  /\ Fault("throw")
  /\ LeaveWallet(scan.wallet)
  /\ UNCHANGED <<network, chainVars, known, born, rowVars, window>>

-----------------------------------------------------------------------------
(* The end of a scan.                                                       *)

\* Mutant: the last block is the one of now, as the timestamp is.
EndScanAtTip ==
  /\ At("wallets")
  /\ scan.todo = {}
  /\ window' = [set |-> TRUE, block |-> tip, time |-> tip + 1,
                origin |-> IF window.set THEN window.origin ELSE scan.from]
  /\ scan' = IdleScan
  /\ UNCHANGED <<network, chainVars, known, born, rowVars, passed, faults>>

\* The last block is the one that was read at the start of the scan, the
\* timestamp is the one of its end.
EndScan ==
  /\ At("wallets")
  /\ scan.todo = {}
  /\ window' = [set |-> TRUE, block |-> scan.to, time |-> tip + 1,
                origin |-> IF window.set THEN window.origin ELSE scan.from]
  /\ scan' = IdleScan
  /\ UNCHANGED <<network, chainVars, known, born, rowVars, passed, faults>>

\* findMany or getLatestBlock throws: watchNetwork starts over after its backoff.
ScanThrows ==
  /\ At("tip")
  /\ Fault("throw")
  /\ scan' = IdleScan
  /\ UNCHANGED <<network, chainVars, known, born, rowVars, windowVars>>

Crash ==
  /\ Fault("crash")
  /\ scan' = IdleScan
  /\ window' = NoWindow
  /\ passed' = {}
  /\ UNCHANGED <<network, chainVars, known, born, rowVars>>

ScanStep ==
  \/ ReadWallets \/ ReadTip \/ CheckPending \/ Announce \/ RecordThrows \/ EndScan \/ ScanThrows
  \/ \E w \in Wallet, k \in Token : Fetch(w, k) \/ FetchThrows(w, k) \/ FetchFindsLess(w, k)
  \/ \E t \in Transfer : Skip(t) \/ Record(t)

Next ==
  \/ ScanStep
  \/ \E S \in SUBSET {t \in Transfer : IsSent(t)} : Mine(S)
  \/ \E w \in Wallet : Allocate(w)
  \/ Crash

Spec == Init /\ [][Next]_vars

\* The loop goes on; blocks, wallets and crashes are never forced.  The calls that
\* fail are finitely many (MaxFaults).
Fairness == WF_vars(ScanStep)

FairSpec == Spec /\ Fairness

-----------------------------------------------------------------------------
(* Properties. *)

\* The deposits with a transaction of their own (txHash is unique in payments).
OwnDeposit ==
  {t \in Transfer : Kind[t] = "deposit" /\ \A u \in Transfer : HashOf[u] = HashOf[t] => u = t}

IsErc20(t) == t \in OwnDeposit /\ TokenOf[t] # Native

\* On ETH and BSC every ERC-20 deposit of a transaction of its own is recorded that is
\* in a block from the first one read since the process started up to the last one
\* scanned, which the next scan reads again; unless a scan of its wallet was left
\* through the catch, or the wallet was allocated while that scan asked for the
\* latest block.  Blocks, wallets, restarts and the awaits of a scan are in between
\* (scanNetwork's lastScanned, scanErc20Transfers).
NoGap ==
  network = "EVM" /\ window.set =>
    \A t \in Transfer :
      IsErc20(t) /\ landed[t] \in (window.origin .. window.block - 1) \ {0}
      => t \in rows \/ t \in passed

\* The rows nobody was told of, but for the one whose webhook is next.
Untold == (rows \ told) \ {scan.cur}

\* No more deposits are recorded without a PAYMENT_DETECTED than calls failed or the
\* process crashed: a row that exists is announced before anything else can end its
\* wallet's scan, and each fault silences one row at most, although no later scan
\* makes up for it (the P2002 `continue' of checkUserWalletForDeposit).
UntoldAreFaults == Cardinality(Untold) <= faults

\* The scans keep the promise of DepositRegister: however often a transfer is found, in
\* windows that overlap, in pages that are read again and after a restart, it is
\* credited once at most (checkUserWalletForDeposit).  Solana's scan does not say who
\* sent a transfer: the master's prefunding may be credited there.
Register == INSTANCE DepositRegister WITH
  creditable <- {t \in Transfer : \/ Kind[t] = "deposit"
                                  \/ Kind[t] = "gas" /\ network = "SOLANA"},
  landed <- {t \in Transfer : landed[t] > 0}

KeepsRegister == Register!Spec

\* Where the scans promise to find every deposit.
IsWatched(t) == network = "SOLANA" \/ (network = "EVM" /\ TokenOf[t] # Native)

\* Where the scans may leave one: on ETH and BSC in a block that a scan of the wallet
\* passed over, or before the first block read since a restart; on Solana behind
\* a page of signatures at least as new.
MayBeMissed(t) ==
  \/ /\ network = "EVM"
     /\ \/ t \in passed
        \/ window.set /\ landed[t] < window.origin
  \/ /\ network = "SOLANA"
     /\ Cardinality({u \in OnChain(To[t], TokenOf[t]) : landed[u] >= landed[t]}) > PageSize

\* A deposit with a transaction of its own that the scans watch for gets a row in the
\* end, or is left where they may leave one, through failing calls, nodes that give half
\* an answer, late wallets and crashes (scanNetwork, scanErc20Transfers, scanSignatures).
WatchedIsDetected ==
  \A t \in OwnDeposit : IsWatched(t) /\ landed[t] > 0 ~> t \in rows \/ MayBeMissed(t)

-----------------------------------------------------------------------------
(* The inductive invariants. *)

Reading == scan.pc \in {"check", "wallets", "record", "announce"}
Looping == scan.pc \in {"wallets", "record", "announce"}

\* Rows, and transfers about to become rows, came in and are on the chain; announced
\* ones have a row; and what is in hand, between a fetch and the next, is of one wallet.
OnlyLanded ==
  /\ \A t \in rows \cup scan.found : landed[t] > 0 /\ Kind[t] # "noise"
  /\ \A t \in scan.found : To[t] = scan.wallet
  /\ told \subseteq rows
  /\ At("announce") => scan.cur \in rows
  /\ ~At("record") /\ ~At("announce") => scan.found = {}

IInv == TypeOK /\ OnlyLanded

\* A row is in hand only until its webhook was queued.
UntoldInv ==
  /\ IsFiniteSet(rows)
  /\ ~At("announce") => scan.cur = NoTransfer
  /\ UntoldAreFaults

\* Who can have been paid before the last block of a scan is in its snapshot of the
\* wallets, or late; and no window ends beyond the chain.
SnapshotIsComplete ==
  /\ \A t \in Transfer : landed[t] <= tip /\ (landed[t] > 0 => To[t] \in known)
  /\ window.set => window.block <= tip
  /\ Reading =>
       /\ scan.to <= tip
       /\ window.set => scan.from = window.block
       /\ \A t \in Transfer :
            landed[t] \in (scan.from .. scan.to - 1) \ {0}
            => To[t] \in scan.wallets \/ t \in passed

\* Of the blocks of a scan, what is not recorded is in hand, still to be fetched, or in
\* a block that was passed over.
NothingPassedOver ==
  Looping =>
    \A t \in Transfer :
      IsErc20(t) /\ landed[t] \in (scan.from .. scan.to - 1) \ {0}
      => \/ t \in rows \cup scan.found
         \/ <<To[t], TokenOf[t]>> \in scan.todo
         \/ t \in passed

GapInv == network = "EVM" => SnapshotIsComplete /\ NothingPassedOver /\ NoGap

-----------------------------------------------------------------------------
(* What the documents say, and the code does not keep. *)

\* docs/API.md:41, "We detect the deposit on-chain": every transfer a user sends to
\* a deposit address is recorded in the end (scanNetwork).
DepositIsDetected ==
  \A t \in Transfer : Kind[t] = "deposit" /\ landed[t] > 0 ~> t \in rows
=============================================================================
