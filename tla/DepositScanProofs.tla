------------------------- MODULE DepositScanProofs -------------------------
(* Theorems about DepositScan, for every number of transfers, wallets,      *)
(* tokens and blocks, every size of a page and every set of faults.         *)
EXTENDS DepositScan, FiniteSetTheorems, TLAPS

\* What an adapter may find is on the chain, in the wallet and of the token, and comes
\* in; whether the node fails or not.
LEMMA FindableIsOnChain ==
  ASSUME TypeOK, NEW w, NEW k, NEW F \in Findable(w, k)
  PROVE  F \subseteq Incoming(OnChain(w, k))
<1>1. network \in {"EVM", "TRON", "SOLANA"}
  BY NetworkAssumption DEF TypeOK
<1>2. \A S : \A P \in Pages(S) : P \subseteq S
  BY DEF Pages
<1>3. \A S, T : S \subseteq T => Incoming(S) \subseteq Incoming(T)
  BY DEF Incoming
<1>4. CASE network = "EVM" /\ k = Native
  <2>1. F = NativeTransfers(w, k)
    BY <1>4 DEF Findable
  <2> QED
    BY <2>1, <1>3 DEF NativeTransfers
<1>5. CASE network = "EVM" /\ k # Native
  <2>1. F = Erc20Transfers(w, k)
    BY <1>5 DEF Findable
  <2> QED
    BY <2>1, <1>3 DEF Erc20Transfers
<1>6. CASE network = "TRON"
  <2>1. F \in TronTransfers(w, k)
    BY <1>6 DEF Findable
  <2> DEFINE recent == {t \in OnChain(w, k) : landed[t] >= scan.since}
  <2>2. recent \subseteq OnChain(w, k)
    OBVIOUS
  <2>3. CASE k = Native
    <3>1. PICK P \in Pages(recent) : F = Incoming(P)
      BY <2>1, <2>3 DEF TronTransfers
    <3>2. P \subseteq OnChain(w, k)
      BY <3>1, <2>2, <1>2
    <3> QED
      BY <3>1, <3>2, <1>3
  <2>4. CASE k # Native
    <3>1. F \in Pages(Incoming(recent))
      BY <2>1, <2>4 DEF TronTransfers
    <3>2. F \subseteq Incoming(recent)
      BY <3>1, <1>2
    <3> QED
      BY <3>2, <2>2, <1>3
  <2> QED
    BY <2>3, <2>4
<1>7. CASE network = "SOLANA"
  <2>1. F \in SolanaTransfers(w, k)
    BY <1>7 DEF Findable
  <2>2. PICK P \in Pages(OnChain(w, k)) : F = Incoming(P)
    BY <2>1 DEF SolanaTransfers
  <2>3. P \subseteq OnChain(w, k)
    BY <1>2, <2>2
  <2> QED
    BY <2>2, <2>3, <1>3
<1> QED
  BY <1>1, <1>4, <1>5, <1>6, <1>7

\* The same of a node that fails.
LEMMA FoundAtFaultIsOnChain ==
  ASSUME TypeOK, NEW w, NEW k, NEW F \in FindableAtFault(w, k)
  PROVE  F \subseteq Incoming(OnChain(w, k))
<1>1. F = {} \/ \E G \in Findable(w, k) : F \subseteq G
  <2>1. CASE network = "TRON"
    BY <2>1 DEF FindableAtFault
  <2>2. CASE network # "TRON" /\ (network = "SOLANA" \/ k = Native)
    BY <2>2 DEF FindableAtFault
  <2>3. CASE network # "TRON" /\ ~(network = "SOLANA" \/ k = Native)
    BY <2>3 DEF FindableAtFault
  <2> QED
    BY <2>1, <2>2, <2>3
<1> QED
  BY <1>1, FindableIsOnChain

\* A fetch hands over a set of incoming transfers of its wallet and token.
LEMMA FetchHandsOver ==
  ASSUME TypeOK, NEW w, NEW k, Fetch(w, k) \/ FetchFindsLess(w, k)
  PROVE  \E F \in SUBSET Incoming(OnChain(w, k)) : FetchOf(w, k, F)
BY FindableIsOnChain, FoundAtFaultIsOnChain DEF Fetch, FetchFindsLess

\* Rows are kept, and Record writes one.
LEMMA RowsStay == ASSUME UNCHANGED credits PROVE UNCHANGED rows
BY DEF rows

LEMMA RowsGrow ==
  ASSUME TypeOK, NEW t \in Transfer, Record(t)
  PROVE  rows' = rows \cup {t}
<1>1. \A u \in Transfer : credits'[u] = IF u = t THEN credits[t] + 1 ELSE credits[u]
  BY DEF Record, TypeOK
<1>2. \A u \in Transfer : credits[u] \in Nat
  BY DEF TypeOK
<1> QED
  BY <1>1, <1>2 DEF rows

\* The first block of a window is a block.
LEMMA FirstBlockIsBlock ==
  ASSUME tip \in Nat, NEW age \in Int
  PROVE  FirstBlock(age) \in Nat
BY LimitAssumption DEF FirstBlock

\* The network of a behaviour does not change.
LEMMA NetworkStays == ASSUME [Next]_vars PROVE network' = network
BY DEF Next, ScanStep, vars, ReadWallets, ReadTip, CheckPending, Announce, RecordThrows, EndScan,
       ScanThrows, Fetch, FetchThrows, FetchFindsLess, Skip, Record, Mine, Allocate, Crash

-----------------------------------------------------------------------------
(* Types. *)

\* The invariants hold initially.
LEMMA InitInvariants == Init => IInv /\ GapInv
<1> SUFFICES ASSUME Init PROVE IInv /\ GapInv
  OBVIOUS
<1>1. rows = {}
  BY DEF Init, rows
<1>2. TypeOK
  BY <1>1 DEF Init, TypeOK, ScanState, ScanPc, IdleScan, NoWindow
<1>3. OnlyLanded
  BY <1>1 DEF Init, OnlyLanded, At, IdleScan
<1>4. GapInv
  BY DEF Init, IdleScan, NoWindow, GapInv, SnapshotIsComplete, NothingPassedOver, NoGap, Reading,
         Looping
<1> QED
  BY <1>2, <1>3, <1>4 DEF IInv

\* Every step keeps the types.
LEMMA StepKeepsTypes == ASSUME TypeOK, OnlyLanded, [Next]_vars PROVE TypeOK'
<1> USE DEF TypeOK, ScanState, ScanPc
<1>0. UNCHANGED credits => UNCHANGED rows
  BY RowsStay
<1>1. ASSUME NEW S \in SUBSET {t \in Transfer : IsSent(t)}, Mine(S) PROVE TypeOK'
  BY <1>0, <1>1 DEF Mine, rowVars, windowVars
<1>2. ASSUME NEW w \in Wallet, Allocate(w) PROVE TypeOK'
  BY <1>0, <1>2 DEF Allocate, rowVars, chainVars, windowVars
<1>3. CASE ReadWallets
  <2>1. PICK D \in SUBSET pending :
          /\ pending' = pending \ D
          /\ scan' = [scan EXCEPT !.pc = "tip", !.wallets = known, !.pend = pending \ D]
    BY <1>3 DEF ReadWallets
  <2>2. pending \subseteq Transfer
    BY DEF rows
  <2>3. scan' \in ScanState
    BY <2>1, <2>2
  <2> QED
    BY <1>0, <1>3, <2>1, <2>3 DEF ReadWallets, chainVars, windowVars
<1>4. CASE ReadTip
  <2>1. PICK from \in Nat, since \in Nat : BeginAt(from, since)
    <3>1. CASE window.set /\ BeginAt(window.block, window.time)
      BY <3>1
    <3>2. ASSUME NEW w \in scan.wallets, BeginAt(FirstBlock(tip - born[w]), born[w])
          PROVE  \E from \in Nat, since \in Nat : BeginAt(from, since)
      <4>1. tip - born[w] \in Int /\ born[w] \in Nat
        OBVIOUS
      <4>2. FirstBlock(tip - born[w]) \in Nat
        BY <4>1, FirstBlockIsBlock
      <4> QED
        BY <3>2, <4>1, <4>2
    <3> QED
      BY <1>4, <3>1, <3>2 DEF ReadTip
  <2>2. scan' \in ScanState
    BY <2>1 DEF BeginAt
  <2>3. passed' \subseteq Transfer
    BY <2>1 DEF BeginAt, PassOver
  <2> QED
    BY <1>0, <1>4, <2>2, <2>3 DEF ReadTip, rowVars, chainVars
<1>5. CASE CheckPending
  BY <1>0, <1>5 DEF CheckPending, chainVars, windowVars
<1>6. ASSUME NEW w \in Wallet, NEW k \in Token, Fetch(w, k) \/ FetchFindsLess(w, k) PROVE TypeOK'
  <2>1. PICK F \in SUBSET Incoming(OnChain(w, k)) : FetchOf(w, k, F)
    BY <1>6, FetchHandsOver
  <2>2. F \subseteq Transfer
    BY DEF OnChain, Incoming
  <2>3. scan' \in ScanState
    BY <2>1, <2>2 DEF FetchOf
  <2>4. UNCHANGED <<network, tip, landed, known, born, credits, pending, told, window, passed>>
    BY <1>6 DEF Fetch, FetchFindsLess, rowVars, chainVars, windowVars
  <2>5. faults' \in Nat
    BY <1>6 DEF Fetch, FetchFindsLess, Fault
  <2> QED
    BY <1>0, <2>3, <2>4, <2>5
<1>7. ASSUME NEW w \in Wallet \cup {NoWallet}, LeaveWallet(w), Fault("throw"),
             UNCHANGED <<network, chainVars, known, born, rowVars, window>>
      PROVE  TypeOK'
  <2>1. scan' \in ScanState
    BY <1>7 DEF LeaveWallet
  <2>2. passed' \subseteq Transfer
    BY <1>7 DEF LeaveWallet, PassOver
  <2> QED
    BY <1>0, <1>7, <2>1, <2>2 DEF Fault, rowVars, chainVars
<1>8. ASSUME NEW w \in Wallet, NEW k \in Token, FetchThrows(w, k) PROVE TypeOK'
  BY <1>7, <1>8 DEF FetchThrows
<1>9. ASSUME NEW t \in Transfer, Skip(t) PROVE TypeOK'
  BY <1>0, <1>9 DEF Skip, Done, rowVars, chainVars, windowVars
<1>10. ASSUME NEW t \in Transfer, Record(t) PROVE TypeOK'
  <2>1. rows' = rows \cup {t}
    BY <1>10, RowsGrow
  <2>2. credits' \in [Transfer -> Nat]
    BY <1>10 DEF Record
  <2>3. scan' \in ScanState
    BY <1>10 DEF Record
  <2> QED
    BY <1>10, <2>1, <2>2, <2>3 DEF Record, chainVars, windowVars
<1>11. CASE Announce
  <2>1. scan.cur \in Transfer
    BY <1>11 DEF Announce, OnlyLanded, rows
  <2> QED
    BY <1>0, <2>1, <1>11 DEF Announce, Done, chainVars, windowVars
<1>12. CASE RecordThrows
  BY <1>7, <1>12 DEF RecordThrows
<1>13. CASE EndScan
  BY <1>0, <1>13 DEF EndScan, IdleScan, rowVars, chainVars
<1>14. CASE ScanThrows
  BY <1>0, <1>14 DEF ScanThrows, Fault, IdleScan, rowVars, chainVars, windowVars
<1>15. CASE Crash
  BY <1>0, <1>15 DEF Crash, Fault, IdleScan, NoWindow, rowVars, chainVars
<1>16. CASE UNCHANGED vars
  BY <1>0, <1>16 DEF vars, rowVars, chainVars, windowVars
<1> QED
  BY <1>1, <1>2, <1>3, <1>4, <1>5, <1>6, <1>8, <1>9, <1>10, <1>11, <1>12, <1>13,
     <1>14, <1>15, <1>16 DEF Next, ScanStep

-----------------------------------------------------------------------------
(* Rows are deposits on the chain. *)

\* Every step keeps rows, and what may become rows, incoming and on the chain.
LEMMA StepKeepsLanded == ASSUME TypeOK, OnlyLanded, [Next]_vars PROVE OnlyLanded'
<1> USE DEF TypeOK, ScanState, ScanPc, OnlyLanded, At
<1>0. UNCHANGED credits => UNCHANGED rows
  BY RowsStay
<1>1. ASSUME NEW S \in SUBSET {t \in Transfer : IsSent(t)}, Mine(S) PROVE OnlyLanded'
  <2>1. \A t \in Transfer : landed[t] > 0 => landed'[t] > 0
    BY <1>1 DEF Mine
  <2>2. UNCHANGED <<rows, told, scan>>
    BY <1>0, <1>1 DEF Mine, rowVars
  <2>3. rows \cup scan.found \subseteq Transfer
    BY DEF rows
  <2> QED
    BY <2>1, <2>2, <2>3
<1>2. ASSUME scan'.pc \notin {"record", "announce"}, scan'.found = {},
             UNCHANGED <<landed, rows, told>>
      PROVE  OnlyLanded'
  BY <1>2
<1>3. CASE \/ \E w \in Wallet : Allocate(w)
           \/ ReadWallets \/ ReadTip \/ CheckPending
           \/ UNCHANGED vars
  <2>1. UNCHANGED <<landed, rows, told>>
    BY <1>0, <1>3 DEF Allocate, ReadWallets, ReadTip, CheckPending, vars, chainVars, rowVars
  <2>2. CASE ReadWallets \/ CheckPending
    <3>1. scan'.found = {} /\ scan'.pc \in {"tip", "wallets"}
      BY <2>2 DEF ReadWallets, CheckPending
    <3> QED
      BY <1>2, <2>1, <3>1
  <2>3. CASE ReadTip
    <3>1. PICK from, since : BeginAt(from, since)
      BY <2>3 DEF ReadTip
    <3>2. scan'.found = {} /\ scan'.pc = "check"
      BY <2>3, <3>1 DEF ReadTip, BeginAt
    <3> QED
      BY <1>2, <2>1, <3>2
  <2>4. CASE UNCHANGED scan
    BY <2>1, <2>4
  <2> QED
    BY <1>3, <2>2, <2>3, <2>4 DEF Allocate, vars
<1>6. ASSUME NEW w \in Wallet, NEW k \in Token, Fetch(w, k) \/ FetchFindsLess(w, k)
      PROVE  OnlyLanded'
  <2>1. PICK F \in SUBSET Incoming(OnChain(w, k)) : FetchOf(w, k, F)
    BY <1>6, FetchHandsOver
  <2>2. \A t \in F : landed[t] > 0 /\ Kind[t] # "noise" /\ To[t] = w
    BY DEF OnChain, Incoming
  <2>3. /\ scan'.found = F /\ scan'.wallet = w
        /\ scan'.pc = IF F = {} THEN "wallets" ELSE "record"
    BY <2>1 DEF FetchOf
  <2>4. UNCHANGED <<landed, rows, told>>
    BY <1>0, <1>6 DEF Fetch, FetchFindsLess, rowVars, chainVars
  <2> QED
    BY <2>2, <2>3, <2>4
<1>7. ASSUME NEW w, LeaveWallet(w), UNCHANGED <<landed, rows, told>>
      PROVE  OnlyLanded'
  BY <1>2, <1>7 DEF LeaveWallet
<1>8. ASSUME NEW w \in Wallet, NEW k \in Token, FetchThrows(w, k) PROVE OnlyLanded'
  BY <1>0, <1>7, <1>8 DEF FetchThrows, rowVars, chainVars
<1>10. ASSUME NEW t, Done(t), UNCHANGED <<landed, rows>>, told' \subseteq rows
       PROVE  OnlyLanded'
  BY <1>10 DEF Done
<1>11. ASSUME NEW t \in Transfer, Skip(t) PROVE OnlyLanded'
  BY <1>0, <1>10, <1>11 DEF Skip, rowVars, chainVars
<1>12. ASSUME NEW t \in Transfer, Record(t) PROVE OnlyLanded'
  <2>1. /\ scan'.pc = "announce" /\ scan'.cur = t /\ scan'.found = scan.found
        /\ scan'.wallet = scan.wallet /\ t \in scan.found /\ UNCHANGED <<landed, told>>
    BY <1>12 DEF Record, chainVars
  <2>2. rows' = rows \cup {t}
    BY <1>12, RowsGrow
  <2> QED
    BY <2>1, <2>2
<1>13. CASE Announce
  <2>1. scan.cur \in rows
    BY <1>13 DEF Announce
  <2> QED
    BY <2>1, <1>0, <1>10, <1>13 DEF Announce, chainVars
<1>14. CASE RecordThrows
  BY <1>0, <1>7, <1>14 DEF RecordThrows, rowVars, chainVars
<1>15. CASE EndScan \/ ScanThrows \/ Crash
  <2>1. scan' = IdleScan /\ UNCHANGED <<landed, rows, told>>
    BY <1>0, <1>15 DEF EndScan, ScanThrows, Crash, rowVars, chainVars
  <2> QED
    BY <1>2, <2>1 DEF IdleScan
<1> QED
  BY <1>1, <1>3, <1>6, <1>8, <1>11, <1>12, <1>13, <1>14, <1>15 DEF Next, ScanStep

-----------------------------------------------------------------------------
(* What holds of every behaviour. *)

\* IInv is an invariant.
LEMMA Invariance == Spec => []IInv
<1>1. Init => IInv
  BY InitInvariants
<1>2. IInv /\ [Next]_vars => IInv'
  BY StepKeepsTypes, StepKeepsLanded DEF IInv
<1> QED
  BY <1>1, <1>2, PTL DEF Spec

\* The variables keep their types (scanNetwork's locals, its two maps, and the rows
\* it writes): FirstBlock never goes below the first block.
THEOREM TypeCorrect == Spec => []TypeOK
BY Invariance, PTL DEF IInv

-----------------------------------------------------------------------------
(* Each fault silences one row at most.                                      *)

\* A set with at most one element more has at most one element more.
LEMMA OneMore ==
  ASSUME NEW S, IsFiniteSet(S), NEW x, NEW T \in SUBSET (S \cup {x})
  PROVE  /\ IsFiniteSet(T)
         /\ Cardinality(T) \in Nat /\ Cardinality(S) \in Nat
         /\ Cardinality(T) <= Cardinality(S) + 1
<1>1. IsFiniteSet(S \cup {x}) /\ Cardinality(S \cup {x}) \in {Cardinality(S), Cardinality(S) + 1}
  BY FS_AddElement
<1>2. IsFiniteSet(T) /\ Cardinality(T) <= Cardinality(S \cup {x})
  BY <1>1, FS_Subset
<1>3. Cardinality(T) \in Nat /\ Cardinality(S) \in Nat
  BY <1>2, FS_CardinalityType
<1> QED
  BY <1>1, <1>2, <1>3

\* Every step keeps the untold rows in number below the faults.
LEMMA StepKeepsUntold == ASSUME IInv, UntoldInv, [Next]_vars PROVE UntoldInv'
<1> USE DEF IInv, TypeOK, ScanState, ScanPc, UntoldInv, UntoldAreFaults, At
<1>0. IsFiniteSet(Untold) /\ NoTransfer \notin rows
  BY FS_Subset, TransferAssumption DEF Untold, rows
<1>11. UNCHANGED credits => UNCHANGED rows
  BY RowsStay
<1>1. ASSUME Untold' \subseteq Untold, faults' = faults PROVE UntoldAreFaults'
  <2>1. /\ Cardinality(Untold') <= Cardinality(Untold)
        /\ Cardinality(Untold') \in Nat /\ Cardinality(Untold) \in Nat
    BY <1>0, <1>1, FS_Subset, FS_CardinalityType
  <2> QED
    BY <1>1, <2>1
<1>2. ASSUME UNCHANGED <<rows, told>>, faults' = faults + 1 PROVE UntoldAreFaults'
  <2>1. Untold' \subseteq Untold \cup {scan.cur}
    BY <1>2 DEF Untold
  <2>2. /\ Cardinality(Untold') <= Cardinality(Untold) + 1
        /\ Cardinality(Untold') \in Nat /\ Cardinality(Untold) \in Nat
    BY <1>0, <2>1, OneMore
  <2> QED
    BY <1>2, <2>2
<1>3. ASSUME UNCHANGED <<rows, told, faults>>, scan'.cur = scan.cur, scan'.pc # "announce",
             scan.pc # "announce"
      PROVE  UntoldInv'
  <2>1. Untold' \subseteq Untold
    BY <1>3 DEF Untold
  <2> QED
    BY <1>1, <1>3, <2>1
<1>4. CASE \/ ReadWallets \/ ReadTip \/ CheckPending
           \/ \E w \in Wallet, k \in Token : Fetch(w, k)
  <2>1. UNCHANGED <<rows, told, faults>>
    BY <1>4, <1>11 DEF ReadWallets, ReadTip, CheckPending, Fetch, rowVars
  <2>2. CASE ReadWallets \/ CheckPending
    BY <1>3, <2>1, <2>2 DEF ReadWallets, CheckPending
  <2>3. CASE ReadTip
    <3>1. scan'.cur = scan.cur /\ scan'.pc = "check" /\ scan.pc = "tip"
      BY <2>3 DEF ReadTip, BeginAt
    <3> QED
      BY <1>3, <2>1, <3>1
  <2>4. ASSUME NEW w \in Wallet, NEW k \in Token, Fetch(w, k) PROVE UntoldInv'
    <3>1. PICK F : FetchOf(w, k, F)
      BY <2>4 DEF Fetch
    <3>2. scan'.cur = scan.cur /\ scan'.pc \in {"wallets", "record"} /\ scan.pc = "wallets"
      BY <2>4, <3>1 DEF Fetch, FetchOf, CanFetch
    <3> QED
      BY <1>3, <2>1, <3>2
  <2> QED
    BY <1>4, <2>2, <2>3, <2>4
<1>5. CASE EndScan
  <2>1. scan.cur = NoTransfer /\ scan'.cur = NoTransfer /\ scan'.pc = "idle"
        /\ UNCHANGED <<rows, told, faults>>
    BY <1>5, <1>11 DEF EndScan, IdleScan, rowVars
  <2> QED
    BY <1>1, <2>1 DEF Untold
<1>6. CASE \/ RecordThrows \/ ScanThrows \/ Crash
           \/ \E w \in Wallet, k \in Token : FetchThrows(w, k) \/ FetchFindsLess(w, k)
  <2>1. UNCHANGED <<rows, told>> /\ faults' = faults + 1
    BY <1>6, <1>11
       DEF RecordThrows, ScanThrows, Crash, FetchThrows, FetchFindsLess, Fault, rowVars
  <2>2. CASE RecordThrows \/ \E w \in Wallet, k \in Token : FetchThrows(w, k)
    <3>1. scan'.pc = "wallets" /\ scan'.cur = NoTransfer
      BY <2>2 DEF RecordThrows, FetchThrows, LeaveWallet
    <3> QED
      BY <1>2, <2>1, <3>1
  <2>3. CASE ScanThrows \/ Crash
    BY <2>3, <1>2, <2>1 DEF ScanThrows, Crash, IdleScan
  <2>4. ASSUME NEW w \in Wallet, NEW k \in Token, FetchFindsLess(w, k) PROVE UntoldInv'
    <3>1. PICK F : FetchOf(w, k, F)
      BY <2>4 DEF FetchFindsLess
    <3>2. scan'.cur = scan.cur /\ scan'.pc \in {"wallets", "record"} /\ scan.pc = "wallets"
      BY <2>4, <3>1 DEF FetchFindsLess, FetchOf, CanFetch
    <3> QED
      BY <1>2, <2>1, <3>2
  <2> QED
    BY <1>6, <2>2, <2>3, <2>4
<1>7. ASSUME NEW t \in Transfer, Skip(t) PROVE UntoldInv'
  <2>1. scan.cur = NoTransfer /\ scan'.cur = NoTransfer /\ scan'.pc # "announce"
        /\ UNCHANGED <<rows, told, faults>>
    BY <1>7, <1>11 DEF Skip, Done, rowVars
  <2> QED
    BY <1>1, <2>1 DEF Untold
<1>8. ASSUME NEW t \in Transfer, Record(t) PROVE UntoldInv'
  <2>1. scan'.cur = t /\ scan'.pc = "announce" /\ scan.cur = NoTransfer
        /\ rows' = rows \cup {t} /\ UNCHANGED <<told, faults>>
    BY <1>8, RowsGrow DEF Record
  <2>2. Untold' \subseteq Untold
    BY <1>0, <2>1 DEF Untold
  <2>3. IsFiniteSet(rows')
    BY <2>1, FS_AddElement
  <2> QED
    BY <1>1, <2>1, <2>2, <2>3
<1>9. CASE Announce
  <2>1. scan'.cur = NoTransfer /\ scan'.pc # "announce"
        /\ told' = told \cup {scan.cur} /\ UNCHANGED <<rows, faults>>
    BY <1>9, <1>11 DEF Announce, Done
  <2>2. Untold' \subseteq Untold
    BY <2>1 DEF Untold
  <2> QED
    BY <1>1, <2>1, <2>2
<1>10. CASE \/ \E S \in SUBSET {t \in Transfer : IsSent(t)} : Mine(S)
            \/ \E w \in Wallet : Allocate(w)
            \/ UNCHANGED vars
  <2>1. UNCHANGED <<rows, told, scan, faults>>
    BY <1>10, <1>11 DEF Mine, Allocate, vars, rowVars
  <2> QED
    BY <1>1, <2>1 DEF Untold
<1> QED
  BY <1>4, <1>5, <1>6, <1>7, <1>8, <1>9, <1>10 DEF Next, ScanStep

\* However long the watcher runs, and whatever fails, no more recorded deposits go
\* without their PAYMENT_DETECTED than there were faults (checkUserWalletForDeposit:
\* the row is created before its webhook is queued, and never looked at again).
THEOREM EachFaultSilencesOne == Spec => []UntoldAreFaults
<1>1. Init => UntoldInv
  <2> SUFFICES ASSUME Init PROVE UntoldInv
    OBVIOUS
  <2>1. rows = {}
    BY DEF Init, rows
  <2> QED
    BY <2>1, FS_EmptySet DEF Init, UntoldInv, UntoldAreFaults, Untold, IdleScan, At
<1>2. IInv /\ UntoldInv /\ [Next]_vars => UntoldInv'
  BY StepKeepsUntold
<1>3. UntoldInv => UntoldAreFaults
  BY DEF UntoldInv
<1> QED
  BY <1>1, <1>2, <1>3, Invariance, PTL DEF Spec

-----------------------------------------------------------------------------
(* The scans implement DepositRegister. *)

\* Each step is a step of DepositRegister, or changes nothing it speaks of.
LEMMA StepKeepsRegister ==
  ASSUME IInv, [Next]_vars
  PROVE  [Register!Next]_(Register!vars)
<1> USE DEF IInv, TypeOK
<1>0. network' = network
  BY NetworkStays
<1>1. ASSUME UNCHANGED <<landed, credits, told>> PROVE UNCHANGED Register!vars
  BY <1>0, <1>1 DEF Register!vars
<1>2. ASSUME NEW S \in SUBSET {t \in Transfer : IsSent(t)}, Mine(S) PROVE Register!Land(S)
  <2>1. \A t \in Transfer : landed'[t] = IF t \in S THEN tip + 1 ELSE landed[t]
    BY <1>2 DEF Mine
  <2>2. {t \in Transfer : landed'[t] > 0} = {t \in Transfer : landed[t] > 0} \cup S
    BY <2>1
  <2> QED
    BY <1>0, <1>2, <2>2 DEF Register!Land, Mine, rowVars
<1>3. ASSUME NEW t \in Transfer, Record(t) PROVE Register!Credit(t)
  <2>1. landed[t] > 0 /\ Kind[t] # "noise"
    BY <1>3 DEF Record, OnlyLanded
  <2>2. Kind[t] = "deposit" \/ (Kind[t] = "gas" /\ network = "SOLANA")
    BY <1>3, <2>1, TransferAssumption DEF Record, FromMaster
  <2>3. credits[t] = 0
    <3>1. t \notin rows
      BY <1>3 DEF Record, IsDuplicate
    <3> QED
      BY <3>1 DEF rows
  <2>4. credits' = [credits EXCEPT ![t] = 1]
    BY <1>3, <2>3 DEF Record
  <2> QED
    BY <1>0, <1>3, <2>1, <2>2, <2>3, <2>4 DEF Record, Register!Credit, chainVars
<1>4. CASE Announce
  <2>1. scan.cur \in rows
    BY <1>4 DEF Announce, OnlyLanded
  <2>2. scan.cur \in Transfer /\ credits[scan.cur] > 0
    BY <2>1 DEF rows
  <2>3. Register!Tell(scan.cur)
    BY <1>0, <1>4, <2>2 DEF Announce, Register!Tell, chainVars
  <2> QED
    BY <2>2, <2>3 DEF Register!Next
<1>5. CASE \/ ReadWallets \/ ReadTip \/ CheckPending \/ RecordThrows \/ EndScan \/ ScanThrows
           \/ Crash \/ UNCHANGED vars
           \/ \E w \in Wallet : Allocate(w)
           \/ \E t \in Transfer : Skip(t)
           \/ \E w \in Wallet, k \in Token :
                Fetch(w, k) \/ FetchThrows(w, k) \/ FetchFindsLess(w, k)
  <2>1. UNCHANGED <<landed, credits, told>>
    BY <1>5 DEF ReadWallets, ReadTip, CheckPending, RecordThrows, EndScan, ScanThrows, Crash,
                Allocate, Skip, Fetch, FetchThrows, FetchFindsLess, vars, chainVars, rowVars
  <2> QED
    BY <1>1, <2>1
<1> QED
  BY <1>2, <1>3, <1>4, <1>5 DEF Next, ScanStep, Register!Next

\* The scans keep the register: a transfer is credited once at most, however often it is
\* found, and only one that came in and is on the chain; none is the master's
\* prefunding where the sender is known; and PAYMENT_DETECTED is for credited
\* transfers only (checkUserWalletForDeposit).
THEOREM ScanKeepsRegister == Spec => KeepsRegister
<1>1. Init => Register!Init
  BY DEF Init, Register!Init
<1>2. IInv /\ [Next]_vars => [Register!Next]_(Register!vars)
  BY StepKeepsRegister
<1> QED
  BY <1>1, <1>2, Invariance, PTL DEF Spec, KeepsRegister, Register!Spec

-----------------------------------------------------------------------------
(* The window has no gap but what was passed over.                           *)

\* The first scan of a process begins at a block, and the next where the last ended.
LEMMA BeginsAtBlock ==
  ASSUME TypeOK, ReadTip
  PROVE  \E from \in Nat, since \in Nat :
           BeginAt(from, since) /\ (window.set => from = window.block)
<1>1. CASE window.set /\ BeginAt(window.block, window.time)
  BY <1>1 DEF TypeOK
<1>2. ASSUME ~window.set, NEW w \in scan.wallets, BeginAt(FirstBlock(tip - born[w]), born[w])
      PROVE  \E from \in Nat, since \in Nat :
               BeginAt(from, since) /\ (window.set => from = window.block)
  <2>1. tip \in Nat /\ tip - born[w] \in Int /\ born[w] \in Nat
    BY DEF TypeOK, ScanState
  <2>2. FirstBlock(tip - born[w]) \in Nat
    BY <2>1, FirstBlockIsBlock
  <2> QED
    BY <1>2, <2>1, <2>2
<1> QED
  BY <1>1, <1>2 DEF ReadTip

\* A step within a scan moves neither its blocks nor its wallets, and only adds to the
\* rows and to what was passed over.
LEMMA ScanGoesOn ==
  ASSUME TypeOK,
         \/ CheckPending \/ Announce \/ RecordThrows
         \/ \E w \in Wallet, k \in Token :
              Fetch(w, k) \/ FetchThrows(w, k) \/ FetchFindsLess(w, k)
         \/ \E t \in Transfer : Skip(t) \/ Record(t)
  PROVE  /\ Reading /\ scan'.pc \in {"wallets", "record", "announce"}
         /\ scan'.to = scan.to /\ scan'.from = scan.from /\ scan'.wallets = scan.wallets
         /\ UNCHANGED <<tip, landed, known, window>>
         /\ passed \subseteq passed'
         /\ rows \subseteq rows'
<1> USE DEF TypeOK, ScanState, ScanPc, Reading, At
<1>0. UNCHANGED credits => UNCHANGED rows
  BY RowsStay
<1>1. CASE CheckPending
  BY <1>0, <1>1 DEF CheckPending, chainVars, windowVars
<1>2. ASSUME NEW t, Done(t)
      PROVE  /\ scan'.pc \in {"wallets", "record"}
             /\ scan'.to = scan.to /\ scan'.from = scan.from /\ scan'.wallets = scan.wallets
  BY <1>2 DEF Done
<1>3. CASE Announce
  BY <1>0, <1>2, <1>3 DEF Announce, chainVars, windowVars
<1>4. ASSUME NEW t \in Transfer, Skip(t)
      PROVE  /\ Reading /\ scan'.pc \in {"wallets", "record", "announce"}
             /\ scan'.to = scan.to /\ scan'.from = scan.from /\ scan'.wallets = scan.wallets
             /\ UNCHANGED <<tip, landed, known, window>>
             /\ passed \subseteq passed' /\ rows \subseteq rows'
  BY <1>0, <1>2, <1>4 DEF Skip, chainVars, windowVars, rowVars
<1>5. ASSUME NEW t \in Transfer, Record(t)
      PROVE  /\ Reading /\ scan'.pc \in {"wallets", "record", "announce"}
             /\ scan'.to = scan.to /\ scan'.from = scan.from /\ scan'.wallets = scan.wallets
             /\ UNCHANGED <<tip, landed, known, window>>
             /\ passed \subseteq passed' /\ rows \subseteq rows'
  <2>1. rows \subseteq rows'
    BY <1>5, RowsGrow
  <2> QED
    BY <1>5, <2>1 DEF Record, chainVars, windowVars
<1>6. ASSUME NEW w, LeaveWallet(w)
      PROVE  /\ scan'.pc = "wallets"
             /\ scan'.to = scan.to /\ scan'.from = scan.from /\ scan'.wallets = scan.wallets
             /\ passed \subseteq passed'
  BY <1>6 DEF LeaveWallet, PassOver
<1>7. CASE RecordThrows
  <2>1. LeaveWallet(scan.wallet) /\ Reading /\ UNCHANGED <<tip, landed, known, window, credits>>
    BY <1>7 DEF RecordThrows, chainVars, rowVars
  <2> QED
    BY <1>0, <1>6, <2>1
<1>8. ASSUME NEW w \in Wallet, NEW k \in Token,
             Fetch(w, k) \/ FetchThrows(w, k) \/ FetchFindsLess(w, k)
      PROVE  /\ Reading /\ scan'.pc \in {"wallets", "record", "announce"}
             /\ scan'.to = scan.to /\ scan'.from = scan.from /\ scan'.wallets = scan.wallets
             /\ UNCHANGED <<tip, landed, known, window>>
             /\ passed \subseteq passed' /\ rows \subseteq rows'
  <2>1. Reading /\ UNCHANGED <<tip, landed, known, window, credits>>
    BY <1>8 DEF Fetch, FetchThrows, FetchFindsLess, CanFetch, chainVars, rowVars, windowVars
  <2>2. CASE FetchThrows(w, k)
    BY <1>0, <1>6, <2>1, <2>2 DEF FetchThrows
  <2>3. CASE Fetch(w, k) \/ FetchFindsLess(w, k)
    <3>1. PICK F : FetchOf(w, k, F)
      BY <2>3 DEF Fetch, FetchFindsLess
    <3>2. /\ scan'.pc \in {"wallets", "record"}
          /\ scan'.to = scan.to /\ scan'.from = scan.from /\ scan'.wallets = scan.wallets
      BY <3>1 DEF FetchOf
    <3>3. UNCHANGED passed
      BY <2>3 DEF Fetch, FetchFindsLess, windowVars
    <3> QED
      BY <1>0, <2>1, <3>2, <3>3
  <2> QED
    BY <1>8, <2>2, <2>3
<1> QED
  BY <1>1, <1>3, <1>4, <1>5, <1>7, <1>8

\* Every step keeps the snapshot of wallets complete.
LEMMA StepKeepsSnapshot ==
  ASSUME IInv, GapInv, network = "EVM", [Next]_vars
  PROVE  SnapshotIsComplete'
<1> USE DEF IInv, TypeOK, ScanState, ScanPc, GapInv, SnapshotIsComplete, Reading, At
<1>2. ASSUME NEW S \in SUBSET {t \in Transfer : IsSent(t)}, Mine(S) PROVE SnapshotIsComplete'
  <2>1. \A t \in Transfer : landed'[t] = IF t \in S THEN tip + 1 ELSE landed[t]
    BY <1>2 DEF Mine
  <2>2. \A t \in S : landed[t] = 0 /\ To[t] \in known
    BY <1>2 DEF IsSent
  <2>3. UNCHANGED <<known, window, scan, passed>> /\ tip' = tip + 1
    BY <1>2 DEF Mine, windowVars
  <2>4. \A t \in Transfer : landed'[t] <= tip' /\ (landed'[t] > 0 => To[t] \in known')
    BY <2>1, <2>2, <2>3
  <2>5. ASSUME Reading, NEW t \in Transfer, landed'[t] \in (scan.from .. scan.to - 1) \ {0}
        PROVE  To[t] \in scan.wallets \/ t \in passed
    <3>1. landed'[t] = landed[t]
      BY <2>1, <2>5
    <3> QED
      BY <2>5, <3>1
  <2> QED
    BY <2>3, <2>4, <2>5
<1>3. ASSUME NEW w \in Wallet, Allocate(w) PROVE SnapshotIsComplete'
  BY <1>3 DEF Allocate, chainVars, windowVars
<1>4. CASE ReadWallets
  BY <1>4 DEF ReadWallets, chainVars, windowVars
<1>5. CASE ReadTip
  <2>1. PICK from \in Nat, since \in Nat :
          BeginAt(from, since) /\ (window.set => from = window.block)
    BY <1>5, BeginsAtBlock
  <2>2. /\ scan'.pc = "check" /\ scan'.to = tip /\ scan'.wallets = scan.wallets
        /\ scan'.from = from
    BY <2>1 DEF BeginAt
  <2>3. UNCHANGED <<tip, landed, known, window>>
    BY <1>5 DEF ReadTip, chainVars
  <2>4. ASSUME NEW t \in Transfer, landed[t] \in (from .. tip - 1) \ {0}
        PROVE  To[t] \in scan.wallets \/ t \in passed'
    <3>1. To[t] \in known
      BY <2>4
    <3> QED
      BY <2>1, <2>4, <3>1 DEF BeginAt, PassOver
  <2> QED
    BY <2>1, <2>2, <2>3, <2>4
<1>6. CASE \/ CheckPending \/ Announce \/ RecordThrows
           \/ \E w \in Wallet, k \in Token :
                Fetch(w, k) \/ FetchThrows(w, k) \/ FetchFindsLess(w, k)
           \/ \E t \in Transfer : Skip(t) \/ Record(t)
  <2>1. /\ Reading /\ scan'.pc \in {"wallets", "record", "announce"}
        /\ scan'.to = scan.to /\ scan'.from = scan.from /\ scan'.wallets = scan.wallets
        /\ UNCHANGED <<tip, landed, known, window>>
        /\ passed \subseteq passed'
    BY <1>6, ScanGoesOn
  <2> QED
    BY <2>1
<1>7. CASE EndScan
  <2>1. /\ scan'.pc = "idle" /\ window'.block = scan.to /\ scan.to <= tip
        /\ UNCHANGED <<tip, landed, known>>
    BY <1>7 DEF EndScan, IdleScan, chainVars
  <2> QED
    BY <2>1
<1>8. CASE ScanThrows \/ Crash
  <2>1. /\ scan'.pc = "idle" /\ (window' = window \/ window' = NoWindow)
        /\ UNCHANGED <<tip, landed, known>>
    BY <1>8 DEF ScanThrows, Crash, IdleScan, chainVars, windowVars
  <2> QED
    BY <2>1 DEF NoWindow
<1>9. CASE UNCHANGED vars
  BY <1>9 DEF vars, chainVars, windowVars
<1> QED
  BY <1>2, <1>3, <1>4, <1>5, <1>6, <1>7, <1>8, <1>9 DEF Next, ScanStep

\* Every step keeps the unrecorded deposits of the window in hand, to be fetched, or
\* passed over.
LEMMA StepPassesNothingOver ==
  ASSUME IInv, GapInv, network = "EVM", [Next]_vars
  PROVE  NothingPassedOver'
<1> USE DEF IInv, TypeOK, ScanState, ScanPc, GapInv, NothingPassedOver, Looping, At
<1>0. UNCHANGED credits => UNCHANGED rows
  BY RowsStay
<1>1. \A t : IsErc20(t)' <=> IsErc20(t)
  BY DEF IsErc20
<1>2. ASSUME NEW S \in SUBSET {t \in Transfer : IsSent(t)}, Mine(S) PROVE NothingPassedOver'
  <2>1. \A t \in Transfer : landed'[t] = IF t \in S THEN tip + 1 ELSE landed[t]
    BY <1>2 DEF Mine
  <2>2. UNCHANGED <<rows, scan, passed>> /\ (Looping => scan.to <= tip)
    BY <1>0, <1>2 DEF Mine, rowVars, windowVars, SnapshotIsComplete, Reading
  <2>3. ASSUME Looping, NEW t \in Transfer, landed'[t] \in (scan.from .. scan.to - 1) \ {0}
        PROVE  landed'[t] = landed[t]
    BY <2>1, <2>2, <2>3
  <2> QED
    BY <1>1, <2>2, <2>3
<1>3. ASSUME NEW w \in Wallet, Allocate(w) PROVE NothingPassedOver'
  BY <1>0, <1>1, <1>3 DEF Allocate, chainVars, rowVars, windowVars
<1>4. CASE ReadWallets \/ ReadTip \/ EndScan \/ ScanThrows \/ Crash
  <2>1. ReadWallets => scan'.pc = "tip"
    BY DEF ReadWallets
  <2>2. ReadTip => scan'.pc = "check"
    BY BeginsAtBlock DEF BeginAt
  <2>3. EndScan \/ ScanThrows \/ Crash => scan'.pc = "idle"
    BY DEF EndScan, ScanThrows, Crash, IdleScan
  <2> QED
    BY <1>4, <2>1, <2>2, <2>3
<1>5. CASE CheckPending
  <2>1. /\ scan'.from = scan.from /\ scan'.to = scan.to /\ scan'.wallets = scan.wallets
        /\ UNCHANGED landed /\ passed \subseteq passed' /\ rows \subseteq rows'
    BY <1>5, ScanGoesOn
  <2>2. scan'.todo = {x \in scan.wallets \X Token : IsScanned(x[1], x[2])}
    BY <1>5 DEF CheckPending
  <2>3. \A t \in Transfer : landed[t] \in (scan.from .. scan.to - 1) \ {0}
                            => To[t] \in scan.wallets \/ t \in passed
    BY <1>5 DEF CheckPending, SnapshotIsComplete, Reading
  <2>4. \A t \in Transfer : TokenOf[t] # Native => IsScanned(To[t], TokenOf[t])
    BY DEF IsScanned
  <2> QED
    BY <1>1, <2>1, <2>2, <2>3, <2>4, TransferAssumption DEF IsErc20
<1>6. ASSUME Looping, scan'.from = scan.from, scan'.to = scan.to,
             UNCHANGED landed, passed \subseteq passed', rows \subseteq rows',
             \A t \in Transfer :
               /\ IsErc20(t) /\ landed[t] \in (scan.from .. scan.to - 1) \ {0}
               /\ t \in scan.found \/ <<To[t], TokenOf[t]>> \in scan.todo
               => \/ t \in rows' \cup scan'.found \cup passed'
                  \/ <<To[t], TokenOf[t]>> \in scan'.todo
      PROVE  NothingPassedOver'
  BY <1>1, <1>6
<1>7. ASSUME NEW w \in Wallet, NEW k \in Token, Fetch(w, k) PROVE NothingPassedOver'
  <2>1. PICK F \in Findable(w, k) : FetchOf(w, k, F)
    BY <1>7 DEF Fetch
  <2>2. /\ scan'.from = scan.from /\ scan'.to = scan.to
        /\ UNCHANGED landed /\ passed \subseteq passed' /\ rows \subseteq rows'
    BY <1>7, ScanGoesOn
  <2>3. /\ scan'.found = F /\ scan'.todo = scan.todo \ {<<w, k>>}
        /\ scan.found = {} /\ Looping
    BY <1>7, <2>1 DEF FetchOf, Fetch, CanFetch, OnlyLanded
  <2>4. ASSUME NEW t \in Transfer, IsErc20(t), landed[t] \in (scan.from .. scan.to - 1) \ {0},
               <<To[t], TokenOf[t]>> = <<w, k>>
        PROVE  t \in F
    <3>1. F = Erc20Transfers(w, k)
      BY <2>1, <2>4 DEF Findable, IsErc20
    <3> QED
      BY <2>4, <3>1 DEF Erc20Transfers, OnChain, Incoming, IsErc20, OwnDeposit
  <2> QED
    BY <1>6, <2>2, <2>3, <2>4
<1>8. ASSUME NEW w \in Wallet, NEW k \in Token, FetchFindsLess(w, k) PROVE NothingPassedOver'
  <2>1. PICK F \in FindableAtFault(w, k) : FetchOf(w, k, F)
    BY <1>8 DEF FetchFindsLess
  <2>2. k = Native
    BY <2>1 DEF FindableAtFault
  <2>3. /\ scan'.from = scan.from /\ scan'.to = scan.to
        /\ UNCHANGED landed /\ passed \subseteq passed' /\ rows \subseteq rows'
    BY <1>8, ScanGoesOn
  <2>4. /\ scan'.todo = scan.todo \ {<<w, k>>} /\ scan.found = {} /\ Looping
    BY <1>8, <2>1 DEF FetchOf, FetchFindsLess, CanFetch, OnlyLanded
  <2>5. \A t \in Transfer : IsErc20(t) => <<To[t], TokenOf[t]>> # <<w, k>>
    BY <2>2 DEF IsErc20
  <2> QED
    BY <1>6, <2>3, <2>4, <2>5
<1>9. ASSUME NEW w, LeaveWallet(w), Looping,
             \A t \in scan.found : To[t] = w,
             UNCHANGED landed, rows \subseteq rows'
      PROVE  NothingPassedOver'
  <2>1. /\ scan'.from = scan.from /\ scan'.to = scan.to
        /\ scan'.todo = {x \in scan.todo : x[1] # w}
        /\ passed' = passed \cup {t \in Transfer :
                                    /\ To[t] \in {w}
                                    /\ landed[t] \in (scan.from .. scan.to - 1) \ {0}}
    BY <1>9 DEF LeaveWallet, PassOver
  <2>2. ASSUME NEW t \in Transfer, landed[t] \in (scan.from .. scan.to - 1) \ {0},
               t \in scan.found \/ <<To[t], TokenOf[t]>> \in scan.todo
        PROVE  t \in passed' \/ <<To[t], TokenOf[t]>> \in scan'.todo
    BY <1>9, <2>1, <2>2
  <2> QED
    BY <1>6, <1>9, <2>1, <2>2
<1>10. ASSUME NEW w \in Wallet, NEW k \in Token, FetchThrows(w, k) PROVE NothingPassedOver'
  <2>1. UNCHANGED landed /\ rows \subseteq rows'
    BY <1>10, ScanGoesOn
  <2>2. LeaveWallet(w) /\ scan.found = {} /\ Looping
    BY <1>10 DEF FetchThrows, CanFetch, OnlyLanded
  <2> QED
    BY <1>9, <2>1, <2>2
<1>11. CASE RecordThrows
  <2>1. UNCHANGED landed /\ rows \subseteq rows'
    BY <1>11, ScanGoesOn
  <2>2. LeaveWallet(scan.wallet) /\ Looping
    BY <1>11 DEF RecordThrows
  <2>3. \A t \in scan.found : To[t] = scan.wallet
    BY <1>11 DEF RecordThrows, OnlyLanded
  <2> QED
    BY <1>9, <2>1, <2>2, <2>3
<1>12. ASSUME NEW t, Done(t), At("record") \/ At("announce"),
              UNCHANGED landed, passed \subseteq passed', rows \subseteq rows',
              IsErc20(t) => t \in rows
       PROVE  NothingPassedOver'
  <2>1. /\ Looping /\ scan'.from = scan.from /\ scan'.to = scan.to
        /\ scan'.todo = scan.todo /\ scan'.found = scan.found \ {t}
    BY <1>12 DEF Done
  <2> QED
    BY <1>6, <1>12, <2>1
<1>13. ASSUME NEW t \in Transfer, Skip(t) PROVE NothingPassedOver'
  <2>1. UNCHANGED landed /\ passed \subseteq passed' /\ rows \subseteq rows'
    BY <1>13, ScanGoesOn
  <2>2. IsErc20(t) => t \in rows
    BY <1>13 DEF Skip, FromMaster, IsDuplicate, IsErc20, OwnDeposit, rows
  <2> QED
    BY <1>12, <1>13, <2>1, <2>2 DEF Skip
<1>14. ASSUME NEW t \in Transfer, Record(t) PROVE NothingPassedOver'
  <2>1. /\ scan'.from = scan.from /\ scan'.to = scan.to
        /\ UNCHANGED landed /\ passed \subseteq passed' /\ rows \subseteq rows'
    BY <1>14, ScanGoesOn
  <2>2. Looping /\ scan'.todo = scan.todo /\ scan'.found = scan.found
    BY <1>14 DEF Record
  <2> QED
    BY <1>6, <2>1, <2>2
<1>15. CASE Announce
  <2>1. UNCHANGED landed /\ passed \subseteq passed' /\ rows \subseteq rows'
    BY <1>15, ScanGoesOn
  <2>2. scan.cur \in rows
    BY <1>15 DEF Announce, OnlyLanded
  <2> QED
    BY <1>12, <1>15, <2>1, <2>2 DEF Announce
<1>16. CASE UNCHANGED vars
  BY <1>0, <1>1, <1>16 DEF vars, chainVars, rowVars, windowVars
<1> QED
  BY <1>2, <1>3, <1>4, <1>5, <1>7, <1>8, <1>10, <1>11, <1>13, <1>14, <1>15, <1>16
     DEF Next, ScanStep

\* Every step keeps the window without a gap but what was passed over.
LEMMA StepKeepsNoGap ==
  ASSUME IInv, GapInv, network = "EVM", [Next]_vars
  PROVE  NoGap'
<1> USE DEF IInv, TypeOK, ScanState, ScanPc, GapInv, NoGap, At
<1>0. network' = network /\ (UNCHANGED credits => UNCHANGED rows)
  BY NetworkStays, RowsStay
<1>1. \A t : IsErc20(t)' <=> IsErc20(t)
  BY DEF IsErc20
<1>2. ASSUME UNCHANGED <<landed, window>>, rows \subseteq rows', passed \subseteq passed'
      PROVE  NoGap'
  BY <1>0, <1>1, <1>2
<1>3. ASSUME NEW S \in SUBSET {t \in Transfer : IsSent(t)}, Mine(S) PROVE NoGap'
  <2>1. \A t \in Transfer : landed'[t] = IF t \in S THEN tip + 1 ELSE landed[t]
    BY <1>3 DEF Mine
  <2>2. UNCHANGED <<rows, window, passed>> /\ (window.set => window.block <= tip)
    BY <1>0, <1>3 DEF Mine, rowVars, windowVars, SnapshotIsComplete
  <2>3. ASSUME window.set, NEW t \in Transfer,
               landed'[t] \in (window.origin .. window.block - 1) \ {0}
        PROVE  landed'[t] = landed[t]
    BY <2>1, <2>2, <2>3
  <2> QED
    BY <1>0, <1>1, <2>2, <2>3
<1>4. CASE EndScan
  <2>1. /\ window' = [set |-> TRUE, block |-> scan.to, time |-> tip + 1,
                      origin |-> IF window.set THEN window.origin ELSE scan.from]
        /\ scan.todo = {} /\ scan.pc = "wallets" /\ UNCHANGED <<landed, rows, passed>>
    BY <1>0, <1>4 DEF EndScan, chainVars, rowVars
  <2>2. \A t \in Transfer :
          IsErc20(t) /\ landed[t] \in (scan.from .. scan.to - 1) \ {0}
          => t \in rows \/ t \in passed
    BY <2>1 DEF NothingPassedOver, Looping, OnlyLanded
  <2>3. window.set => scan.from = window.block
    BY <2>1 DEF SnapshotIsComplete, Reading
  <2>4. ASSUME NEW t \in Transfer, IsErc20(t),
               landed[t] \in (window'.origin .. window'.block - 1) \ {0}
        PROVE  t \in rows \/ t \in passed
    <3>1. CASE landed[t] \in scan.from .. scan.to - 1
      BY <2>2, <2>4, <3>1
    <3>2. CASE landed[t] \notin scan.from .. scan.to - 1
      <4>1. window.set /\ landed[t] \in (window.origin .. window.block - 1) \ {0}
        BY <2>1, <2>3, <2>4, <3>2
      <4> QED
        BY <2>4, <4>1
    <3> QED
      BY <3>1, <3>2
  <2> QED
    BY <1>0, <1>1, <2>1, <2>4
<1>5. CASE Crash
  BY <1>5 DEF Crash, NoWindow
<1>6. CASE \/ CheckPending \/ Announce \/ RecordThrows
           \/ \E w \in Wallet, k \in Token :
                Fetch(w, k) \/ FetchThrows(w, k) \/ FetchFindsLess(w, k)
           \/ \E t \in Transfer : Skip(t) \/ Record(t)
  BY <1>2, <1>6, ScanGoesOn
<1>7. CASE ReadTip
  <2>1. UNCHANGED <<landed, window, rows>>
    BY <1>0, <1>7 DEF ReadTip, rowVars, chainVars
  <2>2. passed \subseteq passed'
    BY <1>7, BeginsAtBlock DEF BeginAt, PassOver
  <2> QED
    BY <1>2, <2>1, <2>2
<1>8. CASE \/ ReadWallets \/ ScanThrows \/ UNCHANGED vars
           \/ \E w \in Wallet : Allocate(w)
  <2>1. UNCHANGED <<landed, window, rows, passed>>
    BY <1>0, <1>8 DEF ReadWallets, ScanThrows, Allocate, vars, chainVars, rowVars, windowVars
  <2> QED
    BY <1>2, <2>1
<1> QED
  BY <1>3, <1>4, <1>5, <1>6, <1>7, <1>8 DEF Next, ScanStep

\* On ETH and BSC, whatever fails, crashes and is allocated late, the window has no gap
\* but what was passed over: every ERC-20 deposit of a transaction of its own, from the
\* first block read since the process started up to the last block scanned, is
\* recorded, or it is in a block that a scan of its wallet left through the catch, or
\* that was mined before the wallet's first scan (scanNetwork's lastScanned).
THEOREM WindowHasNoGap == Spec => []NoGap
<1>1. Init => GapInv
  BY InitInvariants
<1>2. IInv /\ GapInv /\ [Next]_vars => GapInv'
  <2>1. SUFFICES ASSUME IInv, GapInv, [Next]_vars, network = "EVM" PROVE GapInv'
    BY NetworkStays DEF GapInv
  <2>2. SnapshotIsComplete' /\ NothingPassedOver' /\ NoGap'
    BY <2>1, StepKeepsSnapshot, StepPassesNothingOver, StepKeepsNoGap
  <2> QED
    BY <2>2 DEF GapInv
<1>3. GapInv => NoGap
  BY DEF GapInv, NoGap
<1> QED
  BY <1>1, <1>2, <1>3, Invariance, PTL DEF Spec
=============================================================================
