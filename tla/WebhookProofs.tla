--------------------------- MODULE WebhookProofs ---------------------------
(* Theorems about WebhookDelivery, for every number of events, cycles,      *)
(* replays and crashes, every limit, batch size and set of faults.          *)
EXTENDS WebhookDelivery, FiniteSetTheorems, TLAPS

USE DEF Flight, Pending

\* The invariant holds initially.
LEMMA InitIInv == Init => IInv
BY LimitAssumption, UrlAssumption
   DEF Init, IInv, TypeOK, PendingIsScheduled, AcceptedIsReceived, NoRow, IdleCycle, Row,
       CycleState, Due

\* What is left alone keeps the invariant.
LEMMA StutterKeepsIInv == ASSUME IInv, UNCHANGED vars PROVE IInv'
BY DEF vars, IInv, TypeOK, PendingIsScheduled, AcceptedIsReceived

-----------------------------------------------------------------------------
(* Every step keeps the invariant.                                          *)

\* The row of one event is written: it keeps its type and its schedule.
LEMMA RowKeepsIInv ==
  ASSUME IInv, NEW e \in Event,
         UNCHANGED <<url, cycle, replayer, received, crashes>>,
         event' \in [Event -> Row],
         \A d \in Event : d # e => event'[d] = event[d],
         Pending(e)' => (event'[e].attempts < MaxAttempts <=> event'[e].due # "never")
  PROVE  IInv'
<1>1. TypeOK'
  BY DEF IInv, TypeOK
<1>2. PendingIsScheduled'
  BY DEF IInv, PendingIsScheduled
<1>3. AcceptedIsReceived'
  BY DEF IInv, AcceptedIsReceived
<1> QED
  BY <1>1, <1>2, <1>3 DEF IInv

\* Only a cycle moves: its deliveries must be of the type of a cycle's, and the
\* accepted ones must have been received.
LEMMA CycleKeepsIInv ==
  ASSUME IInv, NEW c \in Cycle,
         UNCHANGED <<event, url, replayer>>,
         crashes' \in 0..MaxCrashes,
         received \subseteq received', received' \subseteq Event,
         NEW new \in CycleState,
         cycle' = [cycle EXCEPT ![c] = new],
         \A e \in Event : new.flight[e] = "accepted" => e \in received'
  PROVE  IInv'
<1>1. TypeOK'
  BY DEF IInv, TypeOK
<1>2. PendingIsScheduled'
  BY DEF IInv, PendingIsScheduled
<1>3. AcceptedIsReceived'
  BY DEF IInv, TypeOK, AcceptedIsReceived
<1> QED
  BY <1>1, <1>2, <1>3 DEF IInv

\* A cycle whose fields are replaced by fields of their types is a cycle.
LEMMA CycleFields ==
  ASSUME NEW k \in CycleState, NEW pc \in {"idle", "read", "deliver"},
         NEW u \in {"none", "https"}, NEW full \in BOOLEAN, NEW f \in [Event -> Flight],
         NEW g \in [Event -> 0..(MaxAttempts - 1)]
  PROVE  /\ [k EXCEPT !.pc = pc] \in CycleState
         /\ [k EXCEPT !.pc = pc].flight = k.flight
         /\ [k EXCEPT !.pc = pc, !.url = u] \in CycleState
         /\ [k EXCEPT !.pc = pc, !.url = u].flight = k.flight
         /\ [k EXCEPT !.flight = f, !.seen = g] \in CycleState
         /\ [k EXCEPT !.flight = f, !.seen = g].flight = f
         /\ [k EXCEPT !.pc = pc, !.full = full, !.flight = f, !.seen = g] \in CycleState
         /\ [k EXCEPT !.pc = pc, !.full = full, !.flight = f, !.seen = g].flight = f
BY DEF CycleState

\* An idle cycle has the type of a cycle, and delivers nothing.
LEMMA IdleIsCycle ==
  /\ IdleCycle \in CycleState
  /\ \A e \in Event : IdleCycle.flight[e] = "none"
BY LimitAssumption DEF IdleCycle, CycleState

\* A delivery that goes on leaves the others where they were.
LEMMA FliesType ==
  ASSUME TypeOK, NEW c \in Cycle, NEW e \in Event, NEW from \in Flight, NEW to \in Flight,
         Flies(c, e, from, to)
  PROVE  /\ cycle' \in [Cycle -> CycleState]
         /\ \A d \in Cycle, b \in Event :
              cycle'[d].flight[b] = IF d = c /\ b = e THEN to ELSE cycle[d].flight[b]
<1> DEFINE f == [cycle[c].flight EXCEPT ![e] = to]
           g == [cycle[c].seen EXCEPT ![e] = IF to = "none" THEN 0 ELSE @]
           flown == [cycle[c] EXCEPT !.flight = f, !.seen = g]
<1>0. cycle[c] \in CycleState
  BY DEF TypeOK
<1>1. flown \in CycleState /\ flown.flight = f
  <2>1. f \in [Event -> Flight]
    BY <1>0 DEF CycleState
  <2>2. g \in [Event -> 0..(MaxAttempts - 1)]
    BY <1>0, LimitAssumption DEF CycleState
  <2> HIDE DEF f, g
  <2> QED
    BY <1>0, <2>1, <2>2 DEF CycleState
<1>2. cycle' = [cycle EXCEPT ![c] = flown]
  BY DEF Flies, TypeOK
<1>4. \A b \in Event : flown.flight[b] = IF b = e THEN to ELSE cycle[c].flight[b]
  BY <1>0, <1>1 DEF CycleState
<1> HIDE DEF flown
<1> QED
  BY <1>1, <1>2, <1>4 DEF TypeOK

\* A delivery goes on, and writes at most its own row.
LEMMA FlightKeepsIInv ==
  ASSUME IInv, NEW c \in Cycle, NEW e \in Event, NEW from \in Flight, NEW to \in Flight,
         Flies(c, e, from, to),
         UNCHANGED <<url, replayer, crashes>>,
         received \subseteq received', received' \subseteq Event,
         to = "accepted" => e \in received',
         event' \in [Event -> Row],
         \A d \in Event : d # e => event'[d] = event[d],
         Pending(e)' => (event'[e].attempts < MaxAttempts <=> event'[e].due # "never")
  PROVE  IInv'
<1>1. TypeOK'
  BY FliesType DEF IInv, TypeOK
<1>2. PendingIsScheduled'
  BY DEF IInv, PendingIsScheduled
<1>3. AcceptedIsReceived'
  <2>1. \A d \in Cycle, b \in Event :
          cycle'[d].flight[b] = IF d = c /\ b = e THEN to ELSE cycle[d].flight[b]
    BY FliesType DEF IInv
  <2> QED
    BY <2>1 DEF IInv, AcceptedIsReceived
<1> QED
  BY <1>1, <1>2, <1>3 DEF IInv

\* The rows of the events and the replay requests.
LEMMA RowStepKeepsIInv ==
  ASSUME IInv, NEW e \in Event, Queue(e) \/ BecomeDue(e)
  PROVE  IInv'
<1>1. CASE Queue(e)
  <2>1. 0 \in 0..MaxAttempts /\ 0 < MaxAttempts
    BY LimitAssumption
  <2>2. NewRow \in Row /\ NewRow.attempts < MaxAttempts /\ NewRow.due # "never"
    BY <2>1 DEF NewRow, Row, Due
  <2> QED
    BY <1>1, <2>2, RowKeepsIInv DEF Queue, IInv, TypeOK
<1>2. CASE BecomeDue(e)
  <2> DEFINE row == [event[e] EXCEPT !.due = "now"]
  <2>1. row \in Row /\ row.attempts = event[e].attempts /\ row.due = "now"
        /\ row.queued = event[e].queued /\ row.delivered = event[e].delivered
    BY DEF IInv, TypeOK, Row, Due
  <2> HIDE DEF row
  <2>2. event' = [event EXCEPT ![e] = row]
    BY <1>2 DEF BecomeDue, row
  <2>3. Pending(e)' => (event'[e].attempts < MaxAttempts <=> event'[e].due # "never")
    BY <1>2, <2>1, <2>2 DEF BecomeDue, IInv, TypeOK, PendingIsScheduled
  <2> QED
    BY <1>2, <2>1, <2>2, <2>3, RowKeepsIInv DEF BecomeDue, IInv, TypeOK
<1> QED
  BY <1>1, <1>2

\* A cycle begins, reads, or ends.
LEMMA CyclePcKeepsIInv ==
  ASSUME IInv, NEW c \in Cycle, StartCycle(c) \/ ReadBatch(c) \/ ReadThrows(c) \/ EndBatch(c)
  PROVE  IInv'
<1> USE DEF IInv, TypeOK
<1>1. crashes' \in 0..MaxCrashes /\ received' = received /\ UNCHANGED <<event, url, replayer>>
  BY DEF StartCycle, ReadBatch, ReadThrows, EndBatch
<1>2. cycle[c] \in CycleState /\ \A e \in Event : cycle[c].flight[e] = "accepted" => e \in received
  BY DEF AcceptedIsReceived
<1>3. CASE StartCycle(c)
  <2> DEFINE new == [cycle[c] EXCEPT !.pc = "read", !.url = url]
  <2>1. new \in CycleState /\ new.flight = cycle[c].flight
    BY <1>2, UrlAssumption DEF CycleState
  <2>2. cycle' = [cycle EXCEPT ![c] = new]
    BY <1>3 DEF StartCycle
  <2> HIDE DEF new
  <2> QED
    BY <1>1, <1>2, <2>1, <2>2, CycleKeepsIInv
<1>4. CASE ReadBatch(c)
  <2>1. PICK batch \in SUBSET DueEvents :
          cycle' = [cycle EXCEPT ![c] = [@ EXCEPT
            !.pc = IF batch = {} THEN "idle" ELSE "deliver",
            !.full = Cardinality(batch) = BatchSize,
            !.flight = [e \in Event |-> IF e \in batch THEN "posting" ELSE "none"],
            !.seen = [e \in Event |-> IF e \in batch THEN event[e].attempts ELSE 0]]]
    BY <1>4 DEF ReadBatch, kSubset
  <2> DEFINE pc == IF batch = {} THEN "idle" ELSE "deliver"
             full == Cardinality(batch) = BatchSize
             f == [e \in Event |-> IF e \in batch THEN "posting" ELSE "none"]
             g == [e \in Event |-> IF e \in batch THEN event[e].attempts ELSE 0]
             new == [cycle[c] EXCEPT !.pc = pc, !.full = full, !.flight = f, !.seen = g]
  <2>2. g \in [Event -> 0..(MaxAttempts - 1)]
    BY LimitAssumption DEF DueEvents, IsDue, Row
  <2>3. f \in [Event -> Flight] /\ \A e \in Event : f[e] # "accepted"
    OBVIOUS
  <2>4. pc \in {"idle", "read", "deliver"} /\ full \in BOOLEAN
    OBVIOUS
  <2>5. cycle' = [cycle EXCEPT ![c] = new]
    BY <2>1
  <2> HIDE DEF pc, full, f, g
  <2>6. new \in CycleState /\ new.flight = f
    BY <1>2, <2>2, <2>3, <2>4 DEF CycleState
  <2> HIDE DEF new
  <2> QED
    BY <1>1, <2>3, <2>5, <2>6, CycleKeepsIInv
<1>5. CASE ReadThrows(c)
  BY <1>1, <1>5, IdleIsCycle, CycleKeepsIInv DEF ReadThrows
<1>6. CASE EndBatch(c) /\ cycle' = [cycle EXCEPT ![c].pc = "read"]
  <2> DEFINE new == [cycle[c] EXCEPT !.pc = "read"]
  <2>1. new \in CycleState /\ new.flight = cycle[c].flight
    BY <1>2 DEF CycleState
  <2>2. cycle' = [cycle EXCEPT ![c] = new]
    BY <1>6
  <2> HIDE DEF new
  <2> QED
    BY <1>1, <1>2, <2>1, <2>2, CycleKeepsIInv
<1>7. CASE EndBatch(c) /\ cycle' = [cycle EXCEPT ![c] = IdleCycle]
  BY <1>1, <1>7, IdleIsCycle, CycleKeepsIInv
<1> QED
  BY <1>3, <1>4, <1>5, <1>6, <1>7 DEF EndBatch

\* A delivery posts its event and writes its row.
LEMMA FlightStepKeepsIInv ==
  ASSUME IInv, NEW c \in Cycle, NEW e \in Event,
         \/ DeliverNowhere(c, e) \/ NowhereThrows(c, e) \/ PostAccepted(c, e) \/ PostFails(c, e)
         \/ MarkDelivered(c, e) \/ MarkThrows(c, e)
         \/ ScheduleRetry(c, e) \/ ScheduleThrows(c, e)
  PROVE  IInv'
<1> USE DEF IInv, TypeOK
<1>1. event[e] \in Row /\ cycle[c].seen[e] \in 0..(MaxAttempts - 1)
      /\ (Pending(e) => (event[e].attempts < MaxAttempts <=> event[e].due # "never"))
  BY DEF CycleState, PendingIsScheduled
<1>2. CASE DeliverNowhere(c, e)
  <2> DEFINE row == [event[e] EXCEPT !.delivered = TRUE]
  <2>1. row \in Row /\ row.delivered
    BY <1>1 DEF Row
  <2>2. event' = [event EXCEPT ![e] = row]
    BY <1>2 DEF DeliverNowhere
  <2> HIDE DEF row
  <2> QED
    BY <1>2, <2>1, <2>2, FlightKeepsIInv DEF DeliverNowhere
<1>3. CASE PostAccepted(c, e)
  BY <1>1, <1>3, FlightKeepsIInv DEF PostAccepted
<1>4. CASE PostFails(c, e)
  BY <1>1, <1>4, FlightKeepsIInv DEF PostFails
<1>5. CASE MarkDelivered(c, e)
  <2> DEFINE row == [event[e] EXCEPT !.delivered = TRUE, !.attempts = cycle[c].seen[e] + 1]
  <2>1. cycle[c].seen[e] + 1 \in 0..MaxAttempts
    BY <1>1, LimitAssumption
  <2>2. row \in Row /\ row.delivered
    BY <1>1, <2>1 DEF Row
  <2>3. event' = [event EXCEPT ![e] = row]
    BY <1>5 DEF MarkDelivered
  <2> HIDE DEF row
  <2> QED
    BY <1>5, <2>2, <2>3, FlightKeepsIInv DEF MarkDelivered
<1>6. CASE MarkThrows(c, e)
  BY <1>1, <1>6, FlightKeepsIInv DEF MarkThrows
<1>7. CASE ScheduleRetry(c, e)
  <2> DEFINE next == cycle[c].seen[e] + 1
             due == IF LastAttempt(next) THEN "never" ELSE "later"
             row == [event[e] EXCEPT !.attempts = next, !.due = due]
  <2>1. next \in 0..MaxAttempts /\ due \in Due /\ (next < MaxAttempts <=> due # "never")
    BY <1>1, LimitAssumption DEF LastAttempt, Due
  <2>2. event' = [event EXCEPT ![e] = row]
    BY <1>7 DEF ScheduleRetry
  <2> HIDE DEF next, due
  <2>3. row \in Row /\ row.attempts = next /\ row.due = due
    BY <1>1, <2>1 DEF Row
  <2> HIDE DEF row
  <2>4. event'[e] = row /\ event' \in [Event -> Row] /\ \A d \in Event : d # e => event'[d] = event[d]
    BY <2>2, <2>3
  <2>5. Flies(c, e, "rejected", "none") /\ UNCHANGED <<url, replayer, received, crashes>>
    BY <1>7 DEF ScheduleRetry
  <2>6. Pending(e)' => (event'[e].attempts < MaxAttempts <=> event'[e].due # "never")
    BY <2>1, <2>3, <2>4
  <2> QED
    BY <2>4, <2>5, <2>6, FlightKeepsIInv
<1>8. CASE NowhereThrows(c, e) \/ ScheduleThrows(c, e)
  BY <1>1, <1>8, FlightKeepsIInv DEF NowhereThrows, ScheduleThrows
<1> QED
  BY <1>2, <1>3, <1>4, <1>5, <1>6, <1>7, <1>8

\* A row that is replayed is a row, due now and with no attempts.
LEMMA ReplayedRow ==
  ASSUME NEW k \in Row
  PROVE  LET row == [k EXCEPT !.delivered = FALSE, !.due = "now", !.attempts = 0, !.replays = @ + 1]
         IN  row \in Row /\ row.attempts = 0 /\ row.due = "now"
<1>1. k.replays + 1 \in Nat /\ 0 \in 0..MaxAttempts
  BY LimitAssumption DEF Row
<1> QED
  BY <1>1 DEF Row, Due

\* The operator's replays and settings, and the death of the worker.
LEMMA AdminKeepsIInv ==
  ASSUME IInv,
         \/ ChangeUrl \/ Crash
         \/ \E r \in Replayer : Replay(r) \/ \E e \in Event : CheckReplay(r, e)
  PROVE  IInv'
<1> USE DEF IInv, TypeOK
<1>1. CASE ChangeUrl
  BY <1>1 DEF ChangeUrl, PendingIsScheduled, AcceptedIsReceived
<1>2. CASE Crash
  <2>1. TypeOK' /\ PendingIsScheduled'
    BY <1>2, LimitAssumption, IdleIsCycle DEF Crash, PendingIsScheduled
  <2>2. AcceptedIsReceived'
    BY <1>2, IdleIsCycle DEF Crash, AcceptedIsReceived
  <2> QED
    BY <2>1, <2>2
<1>3. ASSUME NEW r \in Replayer, NEW e \in Event, CheckReplay(r, e)
      PROVE  IInv'
  BY <1>3 DEF CheckReplay, PendingIsScheduled, AcceptedIsReceived
<1>4. ASSUME NEW r \in Replayer, Replay(r)
      PROVE  IInv'
  <2>1. replayer[r] \in Event
    BY <1>4 DEF Replay
  <2> DEFINE e == replayer[r]
             row == [event[e] EXCEPT !.delivered = FALSE, !.due = "now", !.attempts = 0,
                                     !.replays = @ + 1]
  <2>2. row \in Row /\ row.attempts = 0 /\ row.due = "now"
    <3>1. event[e] \in Row
      BY <2>1
    <3> QED
      BY <3>1, ReplayedRow
  <2>3. event' = [event EXCEPT ![e] = row]
    BY <1>4, <2>1 DEF Replay
  <2> HIDE DEF row
  <2>4. TypeOK'
    <3>1. event' \in [Event -> Row]
      BY <2>2, <2>3
    <3>2. replayer' \in [Replayer -> Event \cup {NoEvent}]
      BY <1>4 DEF Replay
    <3> QED
      BY <1>4, <3>1, <3>2 DEF Replay
  <2>5. PendingIsScheduled'
    BY <2>1, <2>2, <2>3, LimitAssumption DEF PendingIsScheduled
  <2>6. AcceptedIsReceived'
    BY <1>4 DEF Replay, AcceptedIsReceived
  <2> QED
    BY <2>4, <2>5, <2>6
<1> QED
  BY <1>1, <1>2, <1>3, <1>4

\* The invariant holds in every reachable state.
LEMMA AlwaysIInv == Spec => []IInv
<1>1. IInv /\ [Next]_vars => IInv'
  <2> SUFFICES ASSUME IInv, [Next]_vars PROVE IInv'
    OBVIOUS
  <2>1. CASE UNCHANGED vars
    BY <2>1, StutterKeepsIInv
  <2>2. CASE Next
    BY <2>2, RowStepKeepsIInv, CyclePcKeepsIInv, FlightStepKeepsIInv, AdminKeepsIInv
       DEF Next, CycleStep, CycleFlight
  <2> QED
    BY <2>1, <2>2
<1> QED
  BY <1>1, InitIInv, PTL DEF Spec

-----------------------------------------------------------------------------
(* The theorems.                                                            *)

\* Every variable keeps its type; in particular no interleaving of cycles counts
\* more attempts than MaxAttempts (scheduleRetry).
THEOREM TypeCorrect == Spec => []TypeOK
BY AlwaysIInv, PTL DEF IInv

\* An undelivered event with attempts left is always scheduled, and one without
\* never is (scheduleRetry, the replay handler, deliverPending's WHERE clause).
THEOREM NoEventIsForgotten == Spec => []PendingIsScheduled
BY AlwaysIInv, PTL DEF IInv

\* An event counts as delivered only if the endpoint accepted it, or its cycle had
\* no endpoint to send it to (deliver).
THEOREM DeliveryIsReal == Spec => DeliveredIsReceived
<1> DEFINE Real ==
      \A e \in Event : Pending(e) /\ event'[e].delivered =>
        \/ e \in received
        \/ \E c \in Cycle : cycle[c].url = "none" /\ cycle[c].flight[e] = "posting"
<1>1. IInv /\ [Next]_vars => [Real]_vars
  <2> SUFFICES ASSUME IInv, [Next]_vars,
                      NEW e \in Event, Pending(e), event'[e].delivered
               PROVE  \/ e \in received
                      \/ \E c \in Cycle : cycle[c].url = "none" /\ cycle[c].flight[e] = "posting"
    OBVIOUS
  <2> USE DEF IInv, TypeOK
  <2>1. CASE event' = event
    BY <2>1
  <2>2. ASSUME NEW d \in Event, Queue(d) \/ BecomeDue(d)
        PROVE  FALSE
    BY <2>2 DEF Queue, BecomeDue, NewRow, Row
  <2>3. ASSUME NEW r \in Replayer, Replay(r)
        PROVE  FALSE
    BY <2>3 DEF Replay, Row
  <2>4. ASSUME NEW c \in Cycle, NEW d \in Event, DeliverNowhere(c, d)
        PROVE  cycle[c].url = "none" /\ cycle[c].flight[e] = "posting"
    BY <2>4 DEF DeliverNowhere, Flies, Row
  <2>5. ASSUME NEW c \in Cycle, NEW d \in Event, MarkDelivered(c, d)
        PROVE  e \in received
    BY <2>5 DEF MarkDelivered, Flies, AcceptedIsReceived, Row
  <2>6. ASSUME NEW c \in Cycle, NEW d \in Event, ScheduleRetry(c, d)
        PROVE  FALSE
    BY <2>6 DEF ScheduleRetry, Row
  <2>7. ASSUME NEW c \in Cycle, NEW d \in Event,
               \/ NowhereThrows(c, d) \/ PostAccepted(c, d) \/ PostFails(c, d)
               \/ MarkThrows(c, d) \/ ScheduleThrows(c, d)
        PROVE  event' = event
    BY <2>7 DEF NowhereThrows, PostAccepted, PostFails, MarkThrows, ScheduleThrows
  <2>8. ASSUME NEW c \in Cycle,
               StartCycle(c) \/ ReadBatch(c) \/ ReadThrows(c) \/ EndBatch(c)
        PROVE  event' = event
    BY <2>8 DEF StartCycle, ReadBatch, ReadThrows, EndBatch
  <2>9. ASSUME NEW r \in Replayer, NEW d \in Event, CheckReplay(r, d)
        PROVE  event' = event
    BY <2>9 DEF CheckReplay
  <2>10. CASE ChangeUrl \/ Crash \/ UNCHANGED vars
    BY <2>1, <2>10 DEF ChangeUrl, Crash, vars
  <2> QED
    BY <2>1, <2>2, <2>3, <2>4, <2>5, <2>6, <2>7, <2>8, <2>9, <2>10 DEF Next, CycleStep, CycleFlight
<1> QED
  BY <1>1, AlwaysIInv, PTL DEF Spec, DeliveredIsReceived

\* Replays, and the requests for them, that stay or become no more keep the bound.
LEMMA NoMoreReplays ==
  ASSUME IInv, ReplaysAreBounded,
         \A e \in Event : event'[e].replays <= event[e].replays /\ event'[e].replays \in Nat,
         UNCHANGED replayer
  PROVE  ReplaysAreBounded'
<1>1. \A e \in Event : Cardinality(Replaying(e)) \in Nat /\ event[e].replays \in Nat
  BY ReplayerAssumption, FS_Subset, FS_CardinalityType DEF Replaying, IInv, TypeOK, Row
<1>2. \A e : Replaying(e)' = Replaying(e)
  BY DEF Replaying
<1>3. Cardinality(Replayer) \in Nat
  BY ReplayerAssumption, FS_CardinalityType
<1> QED
  BY <1>1, <1>2, <1>3, LimitAssumption DEF ReplaysAreBounded

\* A request that checks the limit is counted with those that will replay.
LEMMA CheckKeepsBound ==
  ASSUME IInv, ReplaysAreBounded, NEW r \in Replayer, NEW e \in Event, CheckReplay(r, e)
  PROVE  ReplaysAreBounded'
<1> USE DEF IInv, TypeOK, Row
<1>1. Cardinality(Replayer) \in Nat
  BY ReplayerAssumption, FS_CardinalityType
<1>2. \A d \in Event : d # e => Replaying(d)' = Replaying(d)
  BY EventAssumption DEF CheckReplay, Replaying
<1>3. Cardinality(Replaying(e)') <= Cardinality(Replayer) /\ Cardinality(Replaying(e)') \in Nat
  BY ReplayerAssumption, FS_Subset, FS_CardinalityType DEF Replaying
<1>4. event' = event /\ event[e].replays < MaxReplays
  BY DEF CheckReplay
<1> QED
  BY <1>1, <1>2, <1>3, <1>4, LimitAssumption DEF ReplaysAreBounded

\* A replay that is done was counted when it was checked.
LEMMA ReplayKeepsBound ==
  ASSUME IInv, ReplaysAreBounded, NEW r \in Replayer, Replay(r)
  PROVE  ReplaysAreBounded'
<1> USE DEF IInv, TypeOK, Row
<1>1. PICK e \in Event : e = replayer[r]
  BY DEF Replay
<1>2. \A d \in Event : d # e => Replaying(d)' = Replaying(d) /\ event'[d] = event[d]
  BY <1>1, EventAssumption DEF Replay, Replaying
<1>3. Replaying(e)' = Replaying(e) \ {r} /\ r \in Replaying(e)
  BY <1>1, EventAssumption DEF Replay, Replaying
<1>4. /\ Cardinality(Replaying(e)') = Cardinality(Replaying(e)) - 1
      /\ Cardinality(Replaying(e)) \in Nat
  <2>1. IsFiniteSet(Replaying(e))
    BY ReplayerAssumption, FS_Subset DEF Replaying
  <2> QED
    BY <1>3, <2>1, FS_RemoveElement, FS_CardinalityType
<1>5. event'[e].replays = event[e].replays + 1 /\ event[e].replays \in Nat
  BY <1>1 DEF Replay
<1> QED
  BY <1>2, <1>4, <1>5 DEF ReplaysAreBounded

\* However requests overlap, the limit is passed by no more replays than there can be
\* requests beside one that keeps it (the replay handler's check, and its update).
THEOREM ReplayLimitHolds == Spec => []ReplaysAreBounded
<1>1. Init => ReplaysAreBounded
  <2> SUFFICES ASSUME Init, NEW e \in Event
               PROVE  event[e].replays + Cardinality(Replaying(e)) = 0
    BY DEF ReplaysAreBounded
  <2>1. Replaying(e) = {}
    BY EventAssumption DEF Init, Replaying
  <2> QED
    BY <2>1, FS_EmptySet DEF Init, NoRow
<1>2. IInv /\ ReplaysAreBounded /\ [Next]_vars => ReplaysAreBounded'
  <2> SUFFICES ASSUME IInv, ReplaysAreBounded, [Next]_vars PROVE ReplaysAreBounded'
    OBVIOUS
  <2> USE DEF IInv, TypeOK, Row
  <2>1. CASE UNCHANGED <<event, replayer>>
    BY <2>1, NoMoreReplays
  <2>2. ASSUME NEW e \in Event, Queue(e) \/ BecomeDue(e) PROVE ReplaysAreBounded'
    BY <2>2, NoMoreReplays DEF Queue, BecomeDue, NewRow
  <2>3. ASSUME NEW c \in Cycle, NEW e \in Event, CycleFlight(c, e) PROVE ReplaysAreBounded'
    <3>1. UNCHANGED replayer /\ \A d \in Event : event'[d].replays = event[d].replays
      <4>1. CASE DeliverNowhere(c, e)
        BY <4>1 DEF DeliverNowhere
      <4>2. CASE MarkDelivered(c, e)
        BY <4>2 DEF MarkDelivered
      <4>3. CASE ScheduleRetry(c, e)
        BY <4>3 DEF ScheduleRetry
      <4>4. CASE \/ NowhereThrows(c, e) \/ PostAccepted(c, e) \/ PostFails(c, e)
                 \/ MarkThrows(c, e) \/ ScheduleThrows(c, e)
        BY <4>4 DEF NowhereThrows, PostAccepted, PostFails, MarkThrows, ScheduleThrows
      <4> QED
        BY <2>3, <4>1, <4>2, <4>3, <4>4 DEF CycleFlight
    <3> QED
      BY <3>1, NoMoreReplays
  <2>4. ASSUME NEW c \in Cycle, StartCycle(c) \/ ReadBatch(c) \/ ReadThrows(c) \/ EndBatch(c)
        PROVE  UNCHANGED <<event, replayer>>
    BY <2>4 DEF StartCycle, ReadBatch, ReadThrows, EndBatch
  <2>5. CASE ChangeUrl \/ Crash \/ UNCHANGED vars
    BY <2>1, <2>5 DEF ChangeUrl, Crash, vars
  <2> QED
    BY <2>1, <2>2, <2>3, <2>4, <2>5, CheckKeepsBound, ReplayKeepsBound DEF Next, CycleStep
<1> QED
  BY <1>1, <1>2, AlwaysIInv, PTL DEF Spec
=============================================================================
