---------------------------- MODULE WalletProofs ----------------------------
(* Theorems about WalletAllocation, for every number of users and requests, *)
(* every set of networks and every set of faults.                           *)
EXTENDS WalletAllocation, TLAPS

\* The fields of a request.
LEMMA RequestFields ==
  ASSUME TypeOK, NEW r \in Request
  PROVE  /\ request[r] \in RequestState
         /\ Of(r) \in Owner /\ Index(r) \in Nat /\ request[r].pc \in Pc
         /\ NetworkOf(Of(r)) \in Network
BY DEF TypeOK, RequestState, Of, Index, NetworkOf, Owner

\* A request that goes on keeps its owner and its index, and leaves the others.
LEMMA GoesOn ==
  ASSUME TypeOK, NEW r \in Request, NEW from \in Pc, NEW to \in Pc, Goes(r, from, to)
  PROVE  /\ request' \in [Request -> RequestState]
         /\ request[r].pc = from /\ request'[r].pc = to
         /\ request'[r].owner = request[r].owner /\ request'[r].index = request[r].index
         /\ \A q \in Request : q # r => request'[q] = request[q]
BY DEF Goes, TypeOK, RequestState

\* No two owners share a path, and no two indices of one owner do.
LEMMA PathIsOneToOne ==
  ASSUME NEW m \in Network, NEW n \in Network, NEW i \in Nat, NEW j \in Nat,
         UserPath(m, i) = UserPath(n, j)
  PROVE  m = n /\ i = j
BY NetworkAssumption DEF UserPath

\* A path is four numbers.
LEMMA PathIsPath ==
  ASSUME NEW n \in Network, NEW i \in Nat
  PROVE  UserPath(n, i) \in Nat \X Nat \X Nat \X Nat
BY NetworkAssumption DEF UserPath

\* The invariant holds initially.
LEMMA InitIInv == Init => IInv
BY DEF Init, IInv, TypeOK, RequestState, Pc, IndicesAreUsed, FailedIsAllocated, LockIsExclusive,
       AnswerHasWallet, Of, Index, NetworkOf, Owner

-----------------------------------------------------------------------------
(* Every step keeps the invariant.                                          *)

\* A request that goes on without a statement that writes keeps the invariant, if
\* it does not take the lock, and has a wallet when it is to be answered.
LEMMA GoingKeepsIInv ==
  ASSUME IInv, NEW r \in Request, NEW from \in Pc, NEW to \in Pc \ {"create"},
         Goes(r, from, to), UNCHANGED <<wallet, counter>>,
         told' \subseteq Owner \X (Nat \X Nat \X Nat \X Nat),
         to \in {"answer", "failed"} => wallet[Of(r)] # 0
  PROVE  IInv'
<1>1. /\ request' \in [Request -> RequestState]
      /\ request'[r].pc = to
      /\ request'[r].owner = request[r].owner /\ request'[r].index = request[r].index
      /\ \A q \in Request : q # r => request'[q] = request[q]
  BY GoesOn DEF IInv
<1>2. TypeOK'
  BY <1>1 DEF IInv, TypeOK
<1>3. IndicesAreUsed'
  BY DEF IInv, IndicesAreUsed
<1>4. LockIsExclusive'
  BY <1>1 DEF IInv, LockIsExclusive, Of, Index
<1>5. AnswerHasWallet' /\ FailedIsAllocated'
  BY <1>1 DEF IInv, AnswerHasWallet, FailedIsAllocated, Of
<1> QED
  BY <1>2, <1>3, <1>4, <1>5 DEF IInv

\* A new request, and the death of the process, write nothing.
LEMMA AskKeepsIInv == ASSUME IInv, NEW r \in Request, Ask(r) PROVE IInv'
<1>1. PICK o \in Owner : request' = [request EXCEPT ![r] = [pc |-> "find", owner |-> o, index |-> 0]]
  BY DEF Ask
<1>2. /\ request' \in [Request -> RequestState]
      /\ request'[r].pc = "find"
      /\ \A q \in Request : q # r => request'[q] = request[q]
  BY <1>1 DEF IInv, TypeOK, RequestState, Pc
<1>3. TypeOK'
  BY <1>2 DEF Ask, IInv, TypeOK
<1>4. IndicesAreUsed'
  BY DEF Ask, IInv, IndicesAreUsed
<1>5. LockIsExclusive' /\ AnswerHasWallet' /\ FailedIsAllocated'
  BY <1>2 DEF Ask, IInv, LockIsExclusive, AnswerHasWallet, FailedIsAllocated, Of, Index
<1> QED
  BY <1>3, <1>4, <1>5 DEF IInv

\* The API process dies, and its transactions with it.
LEMMA CrashKeepsIInv == ASSUME IInv, Crash PROVE IInv'
<1>1. request' \in [Request -> RequestState] /\ \A r \in Request : request'[r].pc = "idle"
  BY DEF Crash, IInv, TypeOK, RequestState, Pc
<1>2. TypeOK'
  BY <1>1 DEF Crash, IInv, TypeOK
<1>3. IndicesAreUsed'
  BY DEF Crash, IInv, IndicesAreUsed
<1>4. LockIsExclusive' /\ AnswerHasWallet' /\ FailedIsAllocated'
  BY <1>1 DEF LockIsExclusive, AnswerHasWallet, FailedIsAllocated
<1> QED
  BY <1>2, <1>3, <1>4 DEF IInv

\* The lock is taken.
LEMMA CountKeepsIInv == ASSUME IInv, NEW r \in Request, Count(r) PROVE IInv'
<1> DEFINE n == NetworkOf(Of(r))
           next == [request[r] EXCEPT !.pc = "create", !.index = counter[n] + 1]
<1>1. n \in Network /\ counter[n] + 1 \in Nat /\ counter[n] + 1 > 0
  BY RequestFields DEF IInv, TypeOK
<1>2. next \in RequestState /\ next.pc = "create" /\ next.owner = Of(r) /\ next.index = counter[n] + 1
  BY <1>1, RequestFields DEF IInv, RequestState, Pc, Of
<1>3. request' = [request EXCEPT ![r] = next]
  BY DEF Count, IInv, TypeOK
<1> HIDE DEF next
<1>4. /\ request' \in [Request -> RequestState] /\ request'[r] = next
      /\ \A q \in Request : q # r => request'[q] = request[q]
  BY <1>2, <1>3 DEF IInv, TypeOK
<1>5. TypeOK'
  BY <1>1, <1>2, <1>4 DEF Count, IInv, TypeOK
<1>6. IndicesAreUsed'
  BY DEF Count, IInv, IndicesAreUsed
<1>7. LockIsExclusive'
  BY <1>2, <1>4 DEF Count, Locked, IInv, LockIsExclusive, Of, Index
<1>8. AnswerHasWallet' /\ FailedIsAllocated'
  BY <1>2, <1>4 DEF Count, IInv, AnswerHasWallet, FailedIsAllocated, Of
<1> QED
  BY <1>5, <1>6, <1>7, <1>8 DEF IInv

\* The wallet and the counter are committed.
LEMMA CreateKeepsIInv == ASSUME IInv, NEW r \in Request, Create(r) PROVE IInv'
<1> DEFINE o == Of(r)
           n == NetworkOf(o)
           i == Index(r)
<1>1. /\ request' \in [Request -> RequestState]
      /\ request[r].pc = "create" /\ request'[r].pc = "answer"
      /\ request'[r].owner = request[r].owner /\ request'[r].index = request[r].index
      /\ \A q \in Request : q # r => request'[q] = request[q]
  BY GoesOn DEF Create, IInv, Pc
<1>2. o \in Owner /\ n \in Network /\ i \in Nat /\ i > 0
  BY <1>1, RequestFields DEF IInv, TypeOK, Index
<1>3. i = counter[n] + 1 /\ counter[n] \in Nat
  BY <1>1, <1>2 DEF IInv, LockIsExclusive, TypeOK
<1>4. wallet[o] = 0 /\ wallet' = [wallet EXCEPT ![o] = i] /\ counter' = [counter EXCEPT ![n] = i]
  BY DEF Create, Insertable
<1>5. TypeOK'
  BY <1>1, <1>2, <1>4 DEF Create, IInv, TypeOK
<1>6. \A m \in Network : m # n => counter'[m] = counter[m]
      /\ \A p \in Owner : p # o => wallet'[p] = wallet[p]
      /\ wallet'[o] = i /\ counter'[n] = i /\ NetworkOf(o) = n
  BY <1>2, <1>4 DEF IInv, TypeOK
<1>7. IndicesAreUsed'
  <2> SUFFICES ASSUME NEW m \in Network
      PROVE  /\ \A k \in 1..counter'[m] : \E p \in Owner : NetworkOf(p) = m /\ wallet'[p] = k
             /\ \A p, q \in Owner :
                  NetworkOf(p) = m /\ NetworkOf(q) = m /\ wallet'[p] = wallet'[q] /\ wallet'[p] # 0 => p = q
             /\ \A p \in Owner : NetworkOf(p) = m => wallet'[p] <= counter'[m]
    BY DEF IndicesAreUsed
  <2>1. /\ \A k \in 1..counter[m] : \E p \in Owner : NetworkOf(p) = m /\ wallet[p] = k
        /\ \A p, q \in Owner :
             NetworkOf(p) = m /\ NetworkOf(q) = m /\ wallet[p] = wallet[q] /\ wallet[p] # 0 => p = q
        /\ \A p \in Owner : NetworkOf(p) = m => wallet[p] <= counter[m]
    BY DEF IInv, IndicesAreUsed
  <2> HIDE DEF o, n, i
  <2>2. CASE m # n
    BY <1>2, <1>4, <2>1, <2>2 DEF IInv, TypeOK, n
  <2>3. CASE m = n
    <3>1. \A p \in Owner : NetworkOf(p) = m => wallet[p] < i /\ wallet[p] \in Nat
      BY <1>3, <2>1, <2>3 DEF IInv, TypeOK
    <3>2. counter'[m] = i /\ wallet'[o] = i /\ \A p \in Owner : p # o => wallet'[p] = wallet[p]
      BY <1>2, <1>4, <2>3 DEF IInv, TypeOK
    <3>3. ASSUME NEW k \in 1..counter'[m]
          PROVE  \E p \in Owner : NetworkOf(p) = m /\ wallet'[p] = k
      <4>1. CASE k = i
        BY <1>2, <2>3, <3>2, <4>1 DEF n
      <4>2. CASE k # i
        <5>1. k \in 1..counter[m]
          BY <1>3, <2>3, <3>2, <4>2
        <5>2. PICK p \in Owner : NetworkOf(p) = m /\ wallet[p] = k
          BY <2>1, <5>1
        <5>3. p # o
          BY <1>4, <5>1, <5>2
        <5> QED
          BY <3>2, <5>2, <5>3
      <4> QED
        BY <4>1, <4>2
    <3>4. \A p \in Owner : NetworkOf(p) = m => wallet'[p] <= counter'[m]
      BY <1>2, <3>1, <3>2
    <3>5. ASSUME NEW p \in Owner, NEW q \in Owner, NetworkOf(p) = m, NetworkOf(q) = m,
                 wallet'[p] = wallet'[q], wallet'[p] # 0
          PROVE  p = q
      BY <2>1, <3>1, <3>2, <3>5
    <3> QED
      BY <3>3, <3>4, <3>5
  <2> QED
    BY <2>2, <2>3
<1>8. LockIsExclusive'
  <2> SUFFICES ASSUME NEW q \in Request, request'[q].pc = "create"
      PROVE  /\ Index(q)' = counter'[NetworkOf(Of(q))'] + 1
             /\ \A p \in Request : request'[p].pc = "create" /\ NetworkOf(Of(p))' = NetworkOf(Of(q))' => p = q
    BY DEF LockIsExclusive, NetworkOf
  <2>1. q # r /\ request'[q] = request[q] /\ NetworkOf(Of(q)) # n
    BY <1>1 DEF IInv, LockIsExclusive
  <2>2. counter'[NetworkOf(Of(q))] = counter[NetworkOf(Of(q))]
    BY <1>4, <2>1, RequestFields DEF IInv, TypeOK
  <2> QED
    BY <1>1, <2>1, <2>2 DEF IInv, LockIsExclusive, Of, Index, NetworkOf
<1>9. AnswerHasWallet' /\ FailedIsAllocated'
  <2> SUFFICES ASSUME NEW q \in Request, request'[q].pc \in {"answer", "failed"}
      PROVE  wallet'[Of(q)'] # 0
    BY DEF AnswerHasWallet, FailedIsAllocated
  <2>1. CASE q = r
    BY <1>1, <1>2, <1>4, <2>1 DEF Of, IInv, TypeOK
  <2>2. CASE q # r
    BY <1>1, <1>2, <1>4, <2>2, RequestFields
       DEF Of, IInv, TypeOK, AnswerHasWallet, FailedIsAllocated
  <2> QED
    BY <2>1, <2>2
<1> QED
  BY <1>5, <1>7, <1>8, <1>9 DEF IInv

\* A transaction that is rolled back, and every other step of a request.
LEMMA RequestKeepsIInv ==
  ASSUME IInv, NEW r \in Request,
         Find(r) \/ CreateFails(r) \/ Answer(r) \/ AnswerError(r) \/ Throw(r)
  PROVE  IInv'
<1> USE DEF Pc
<1>1. told \subseteq Owner \X (Nat \X Nat \X Nat \X Nat)
  BY DEF IInv, TypeOK
<1>2. CASE Find(r)
  BY <1>1, <1>2, GoingKeepsIInv DEF Find
<1>3. CASE CreateFails(r)
  <2>1. request[r].pc = "create"
    BY <1>3 DEF CreateFails, Goes
  <2>2. Index(r) = counter[NetworkOf(Of(r))] + 1 /\ counter[NetworkOf(Of(r))] \in Nat
    BY <2>1, RequestFields DEF IInv, LockIsExclusive, TypeOK
  <2>3. \A p \in Owner : NetworkOf(p) = NetworkOf(Of(r)) => wallet[p] # Index(r)
    BY <2>2, RequestFields DEF IInv, IndicesAreUsed, TypeOK
  <2>4. wallet[Of(r)] # 0
    BY <1>3, <2>3 DEF CreateFails, Insertable
  <2> QED
    BY <1>1, <1>3, <2>4, GoingKeepsIInv DEF CreateFails
<1>4. CASE Answer(r)
  <2>1. <<Of(r), Address(Of(r), wallet[Of(r)])>> \in Owner \X (Nat \X Nat \X Nat \X Nat)
    BY RequestFields, PathIsPath DEF IInv, TypeOK, Address
  <2> QED
    BY <1>1, <1>4, <2>1, GoingKeepsIInv DEF Answer
<1>5. CASE AnswerError(r)
  BY <1>1, <1>5, GoingKeepsIInv DEF AnswerError
<1>6. CASE Throw(r)
  BY <1>1, <1>6, GoingKeepsIInv DEF Throw
<1> QED
  BY <1>2, <1>3, <1>4, <1>5, <1>6

\* What is left alone keeps the invariant.
LEMMA StutterKeepsIInv == ASSUME IInv, UNCHANGED vars PROVE IInv'
BY DEF vars, IInv, TypeOK, IndicesAreUsed, FailedIsAllocated, LockIsExclusive, AnswerHasWallet,
       Of, Index

\* The invariant holds in every reachable state.
LEMMA AlwaysIInv == Spec => []IInv
<1>1. IInv /\ [Next]_vars => IInv'
  BY AskKeepsIInv, CrashKeepsIInv, CountKeepsIInv, CreateKeepsIInv, RequestKeepsIInv,
     StutterKeepsIInv DEF Next
<1> QED
  BY <1>1, InitIInv, PTL DEF Spec

-----------------------------------------------------------------------------
(* The theorems.                                                            *)

\* Every variable keeps its type.
THEOREM TypeCorrect == Spec => []TypeOK
BY AlwaysIInv, PTL DEF IInv

\* The wallets of a network use the indices up to its counter, each of them once,
\* whatever fails or races (getOrCreate's transaction and its row lock).
THEOREM IndicesHaveNoGap == Spec => []IndicesAreUsed
BY AlwaysIInv, PTL DEF IInv

\* A request fails on a unique key only if its owner has a wallet: nobody loses an
\* index to the request of another (getOrCreate's row lock).
THEOREM FailureIsHarmless == Spec => []FailedIsAllocated
BY AlwaysIInv, PTL DEF IInv

\* An address is given once and for ever, to nobody else on any network, and a
\* client is told no other (getOrCreate, UserPath).  NoAddress is no path.
THEOREM AllocationKeepsBook == Spec => KeepsBook
<1>1. Init => Book!Init
  BY DEF Init, Book!Init, BookOf, Book!Owners, Owner
<1>2. ASSUME IInv, IInv', NEW r \in Request, Create(r)
      PROVE  Book!Assign(Of(r))
  <2> DEFINE o == Of(r)
  <2>1. o \in Owner /\ Index(r) \in Nat /\ Index(r) > 0 /\ NetworkOf(o) \in Network
    BY <1>2, RequestFields DEF Create, Goes, IInv, TypeOK, Index
  <2>2. wallet[o] = 0 /\ wallet' = [wallet EXCEPT ![o] = Index(r)] /\ told' = told
    BY <1>2 DEF Create, Insertable
  <2> HIDE DEF o
  <2>3. wallet'[o] = Index(r) /\ \A p \in Owner : p # o => wallet'[p] = wallet[p]
    BY <1>2, <2>1, <2>2 DEF IInv, TypeOK
  <2>4. BookOf[o] = NoAddress /\ BookOf'[o] = Address(o, wallet'[o])
    BY <2>1, <2>2, <2>3 DEF BookOf
  <2>5. BookOf'[o] # NoAddress
    BY <2>1, <2>3, <2>4, PathIsPath, NoAddressAssumption DEF Address
  <2>6. ASSUME NEW p \in Owner, p # o
        PROVE  BookOf'[p] = BookOf[p] /\ BookOf[p] # BookOf'[o]
    <3>1. BookOf'[p] = BookOf[p]
      BY <2>3, <2>6 DEF BookOf
    <3>2. CASE wallet[p] = 0
      <4>1. BookOf[p] = NoAddress
        BY <2>6, <3>2 DEF BookOf
      <4> QED
        BY <2>5, <3>1, <4>1
    <3>3. CASE wallet[p] # 0
      <4>1. Address(p, wallet'[p]) # Address(o, wallet'[o])
        <5>1. wallet'[p] \in Nat /\ wallet'[o] \in Nat /\ wallet'[p] # 0 /\ NetworkOf(p) \in Network
          BY <1>2, <2>1, <2>3, <2>6, <3>3 DEF IInv, TypeOK, NetworkOf, Owner
        <5>2. ~(NetworkOf(p) = NetworkOf(o) /\ wallet'[p] = wallet'[o])
          BY <1>2, <2>1, <2>6, <5>1 DEF IInv, IndicesAreUsed
        <5> QED
          BY <2>1, <5>1, <5>2, PathIsOneToOne DEF Address
      <4> QED
        BY <2>3, <2>4, <2>6, <3>3, <4>1 DEF BookOf
    <3> QED
      BY <3>1, <3>2, <3>3
  <2> QED
    BY <2>1, <2>2, <2>4, <2>5, <2>6 DEF Book!Assign, Book!Owners, Owner, o
<1>3. ASSUME IInv, NEW r \in Request, Answer(r)
      PROVE  Book!Tell(Of(r))
  <2>1. Of(r) \in Owner /\ wallet[Of(r)] # 0
    BY <1>3, RequestFields DEF Answer, Goes, IInv, AnswerHasWallet
  <2>2. BookOf[Of(r)] = Address(Of(r), wallet[Of(r)]) /\ BookOf' = BookOf
    BY <1>3, <2>1 DEF Answer, BookOf
  <2>3. BookOf[Of(r)] # NoAddress
    BY <1>3, <2>1, <2>2, RequestFields, PathIsPath, NoAddressAssumption DEF Address, IInv, TypeOK
  <2> QED
    BY <1>3, <2>1, <2>2, <2>3 DEF Answer, Book!Tell
<1>4. IInv /\ IInv' /\ [Next]_vars => [Book!Next]_(Book!vars)
  <2> SUFFICES ASSUME IInv, IInv', [Next]_vars PROVE [Book!Next]_(Book!vars)
    OBVIOUS
  <2>1. CASE UNCHANGED <<wallet, told>>
    BY <2>1 DEF BookOf, Book!vars
  <2>2. ASSUME NEW r \in Request, Create(r)
        PROVE  Book!Next
    BY <1>2, <2>2, RequestFields DEF Book!Next, Book!Owners, Owner, IInv
  <2>3. ASSUME NEW r \in Request, Answer(r)
        PROVE  Book!Next
    BY <1>3, <2>3, RequestFields DEF Book!Next, Book!Owners, Owner, IInv
  <2>4. ASSUME NEW r \in Request,
               Ask(r) \/ Find(r) \/ Count(r) \/ CreateFails(r) \/ AnswerError(r) \/ Throw(r)
        PROVE  UNCHANGED <<wallet, told>>
    BY <2>4 DEF Ask, Find, Count, CreateFails, AnswerError, Throw
  <2> QED
    BY <2>1, <2>2, <2>3, <2>4 DEF Next, Crash, vars
<1> QED
  BY <1>1, <1>4, AlwaysIInv, PTL DEF Spec, KeepsBook, Book!Spec
=============================================================================
