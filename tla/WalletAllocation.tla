--------------------------- MODULE WalletAllocation ---------------------------
(***************************************************************************)
(* Deposit addresses: UserWalletService.getOrCreate behind                 *)
(* POST /deposits/address, with the derivation paths of                    *)
(* src/src/blockchain/wallet/hdWallet.ts.                                  *)
(*                                                                         *)
(* A request is interleaved at every statement of the database:            *)
(*   idle     no request                                                   *)
(*   find     findUnique is next                                           *)
(*   upsert   no wallet was found: the counter is next                     *)
(*   create   the transaction holds the counter's row lock, with the index *)
(*            it counted; the wallet is next                               *)
(*   answer   the wallet is committed or was found                         *)
(*   failed   a unique key is violated, the transaction is rolled back     *)
(*   thrown   a statement failed; both are answered with 500               *)
(* What the transaction wrote is its own until it commits, so the counter  *)
(* of the database moves with the wallet, in Create.                       *)
(*                                                                         *)
(* An address is the derivation path of its key: no two keys have the same *)
(* address.                                                                *)
(***************************************************************************)
EXTENDS Naturals, FiniteSets

CONSTANTS
  User,
  Network,      \* some of the networks of schema.prisma
  Request,      \* requests in progress at one time (BOUND)
  NoAddress,    \* of a user without a wallet
  Adversity     \* the faults a configuration admits

ASSUME UserAssumption == IsFiniteSet(User)
ASSUME NetworkAssumption == Network \subseteq {"ETH", "BSC", "TRON", "SOLANA"}
ASSUME AdversityAssumption == Adversity \subseteq {"throw", "crash"}

VARIABLES
  wallet,     \* user_wallets: the hdIndex of an owner, 0 without a row
  counter,    \* user_wallet_counters
  request,
  told        \* owners and addresses the clients were answered with

vars == <<wallet, counter, request, told>>

Owner == User \X Network
Pc == {"idle", "find", "upsert", "create", "answer", "failed", "thrown"}
RequestState == [pc: Pc, owner: Owner, index: Nat]

TypeOK ==
  /\ wallet \in [Owner -> Nat]
  /\ counter \in [Network -> Nat]
  /\ request \in [Request -> RequestState]
  /\ \A r \in Request : request[r].pc = "create" => request[r].index > 0
  /\ told \subseteq Owner \X (Nat \X Nat \X Nat \X Nat)

NetworkOf(o) == o[2]

Init ==
  /\ wallet = [o \in Owner |-> 0]
  /\ counter = [n \in Network |-> 0]
  /\ request \in [Request -> [pc: {"idle"}, owner: Owner, index: {0}]]
  /\ told = {}

-----------------------------------------------------------------------------
(* The keys. *)

\* Mutant: both EVM networks derive from the first account.
PathOfCoinType(n, i) ==
  CASE n = "ETH"    -> <<60, 0, 1, i>>
    [] n = "BSC"    -> <<60, 0, 1, i>>
    [] n = "TRON"   -> <<195, 0, 1, i>>
    [] n = "SOLANA" -> <<501, i, 1, 0>>

\* m/44'/coin'/account'/change/index, and m/44'/501'/index'/1' on Solana.
UserPath(n, i) ==
  CASE n = "ETH"    -> <<60, 0, 1, i>>
    [] n = "BSC"    -> <<60, 1, 1, i>>
    [] n = "TRON"   -> <<195, 0, 1, i>>
    [] n = "SOLANA" -> <<501, i, 1, 0>>

Address(o, i) == UserPath(NetworkOf(o), i)

\* A user without a wallet has no path.
ASSUME NoAddressAssumption == NoAddress \notin Nat \X Nat \X Nat \X Nat

-----------------------------------------------------------------------------
(* getOrCreate *)

\* The request's owner and index.
Of(r) == request[r].owner
Index(r) == request[r].index

Goes(r, from, to) ==
  /\ request[r].pc = from
  /\ request' = [request EXCEPT ![r].pc = to]

Ask(r) ==
  /\ request[r].pc = "idle"
  /\ \E o \in Owner : request' = [request EXCEPT ![r] = [pc |-> "find", owner |-> o, index |-> 0]]
  /\ UNCHANGED <<wallet, counter, told>>

Find(r) ==
  /\ IF wallet[Of(r)] # 0 THEN Goes(r, "find", "answer") ELSE Goes(r, "find", "upsert")
  /\ UNCHANGED <<wallet, counter, told>>

\* Mutant: the counter is read without a lock.
NeverLocked(n) == FALSE

\* The upsert of the counter locks its row until the transaction ends.
Locked(n) == \E r \in Request : request[r].pc = "create" /\ NetworkOf(Of(r)) = n

\* Mutant: the wallet takes the index before it is incremented.
CountBefore(r) ==
  /\ request[r].pc = "upsert"
  /\ ~Locked(NetworkOf(Of(r)))
  /\ request' = [request EXCEPT ![r] = [@ EXCEPT !.pc = "create", !.index = counter[NetworkOf(Of(r))]]]
  /\ UNCHANGED <<wallet, counter, told>>

Count(r) ==
  /\ request[r].pc = "upsert"
  /\ ~Locked(NetworkOf(Of(r)))
  /\ request' = [request EXCEPT ![r] = [@ EXCEPT !.pc = "create",
                                                 !.index = counter[NetworkOf(Of(r))] + 1]]
  /\ UNCHANGED <<wallet, counter, told>>

\* The unique keys of user_wallets: (user_id, network) and (network, address).
Insertable(o, i) ==
  /\ wallet[o] = 0
  /\ \A p \in Owner : NetworkOf(p) = NetworkOf(o) => wallet[p] # i

Create(r) ==
  /\ Insertable(Of(r), Index(r))
  /\ Goes(r, "create", "answer")
  /\ wallet' = [wallet EXCEPT ![Of(r)] = Index(r)]
  /\ counter' = [counter EXCEPT ![NetworkOf(Of(r))] = Index(r)]
  /\ UNCHANGED told

\* Mutant: the counter is not part of the transaction.
CreateFailsCounted(r) ==
  /\ ~Insertable(Of(r), Index(r))
  /\ Goes(r, "create", "failed")
  /\ counter' = [counter EXCEPT ![NetworkOf(Of(r))] = Index(r)]
  /\ UNCHANGED <<wallet, told>>

\* A unique key is violated: the transaction is rolled back, the counter with it.
CreateFails(r) ==
  /\ ~Insertable(Of(r), Index(r))
  /\ Goes(r, "create", "failed")
  /\ UNCHANGED <<wallet, counter, told>>

Answer(r) ==
  /\ Goes(r, "answer", "idle")
  /\ told' = told \cup {<<Of(r), Address(Of(r), wallet[Of(r)])>>}
  /\ UNCHANGED <<wallet, counter>>

AnswerError(r) ==
  /\ Goes(r, "failed", "idle") \/ Goes(r, "thrown", "idle")
  /\ UNCHANGED <<wallet, counter, told>>

\* A statement or the commit fails, or the transaction takes too long.
Throw(r) ==
  /\ "throw" \in Adversity
  /\ \/ Goes(r, "find", "thrown") \/ Goes(r, "upsert", "thrown") \/ Goes(r, "create", "thrown")
  /\ UNCHANGED <<wallet, counter, told>>

\* The API process dies: its requests go unanswered, its transactions are rolled back.
Crash ==
  /\ "crash" \in Adversity
  /\ request' = [r \in Request |-> [request[r] EXCEPT !.pc = "idle"]]
  /\ UNCHANGED <<wallet, counter, told>>

Next == Crash \/ \E r \in Request :
  Ask(r) \/ Find(r) \/ Count(r) \/ Create(r) \/ CreateFails(r) \/ Answer(r) \/ AnswerError(r) \/ Throw(r)

Spec == Init /\ [][Next]_vars

-----------------------------------------------------------------------------
(* Properties. *)

\* The wallets of a network use the indices up to its counter, each of them once,
\* whatever fails or races: the addresses can be found again from the seed
\* (getOrCreate's transaction).
IndicesAreUsed ==
  \A n \in Network :
    /\ \A i \in 1..counter[n] : \E o \in Owner : NetworkOf(o) = n /\ wallet[o] = i
    /\ \A o, p \in Owner :
         NetworkOf(o) = n /\ NetworkOf(p) = n /\ wallet[o] = wallet[p] /\ wallet[o] # 0 => o = p
    /\ \A o \in Owner : NetworkOf(o) = n => wallet[o] <= counter[n]

\* An address is given once and for ever, to nobody else on any network, and a
\* client is told no other (getOrCreate; hdWallet.ts:23).
BookOf == [o \in Owner |-> IF wallet[o] = 0 THEN NoAddress ELSE Address(o, wallet[o])]

Book == INSTANCE AddressBook WITH book <- BookOf

KeepsBook == Book!Spec

\* A request that loses the race for the unique keys leaves its owner a wallet, to be
\* found when the client asks again; nobody loses it to another user's request
\* (getOrCreate's row lock).
FailedIsAllocated == \A r \in Request : request[r].pc = "failed" => wallet[Of(r)] # 0

-----------------------------------------------------------------------------
(* The inductive invariant of the proofs. *)

\* The counter's row lock is held by one request per network, which counted one
\* more than the committed counter.
LockIsExclusive ==
  \A r \in Request : request[r].pc = "create" =>
    /\ Index(r) = counter[NetworkOf(Of(r))] + 1
    /\ \A q \in Request : request[q].pc = "create" /\ NetworkOf(Of(q)) = NetworkOf(Of(r)) => q = r

\* A request that is about to be answered has a wallet to answer with.
AnswerHasWallet == \A r \in Request : request[r].pc = "answer" => wallet[Of(r)] # 0

IInv == TypeOK /\ IndicesAreUsed /\ FailedIsAllocated /\ LockIsExclusive /\ AnswerHasWallet

=============================================================================
