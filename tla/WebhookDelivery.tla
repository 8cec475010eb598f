--------------------------- MODULE WebhookDelivery ---------------------------
(***************************************************************************)
(* Webhook delivery: the rows of webhook_events, the poller of             *)
(* src/src/workers/webhookWorker.ts, which starts deliverPending every     *)
(* five seconds whether or not the last run has ended, the replay and the  *)
(* settings handlers of src/src/api/routes/admin.ts, and the operator's    *)
(* endpoint.                                                               *)
(*                                                                         *)
(* A cycle is one run of deliverPending, interleaved at every await:       *)
(*   idle      no run                                                      *)
(*   read      the settings are read, the next batch is next               *)
(*   deliver   the deliveries of the batch run side by side (flight)       *)
(* and flight[e] is the delivery of one event of the batch:                *)
(*   none      not in the batch, or settled                                *)
(*   posting   the row was read, the POST is awaited                       *)
(*   accepted  the endpoint answered 2xx, the row is not updated yet       *)
(*   rejected  it did not, or not in time: scheduleRetry is next           *)
(*                                                                         *)
(* Time is left out: nextRetryAt is "never" (null), "later" or "now", and  *)
(* later becomes now at any moment.                                        *)
(***************************************************************************)
EXTENDS Naturals, FiniteSets, FiniteSetsExt

CONSTANTS
  Event,
  Cycle,         \* runs of deliverPending alive at one time (BOUND)
  Replayer,      \* replay requests in progress at one time (BOUND)
  MaxAttempts,   \* config.webhook.maxRetries
  MaxReplays,    \* MAX_WEBHOOK_REPLAYS
  BatchSize,     \* BATCH_SIZE
  Urls,          \* what settings.webhookUrl may be; "none" is null
  Adversity,     \* the faults a configuration admits
  MaxCrashes,    \* crashes of the worker process (BOUND)
  NoEvent        \* what an idle replay request has checked

ASSUME LimitAssumption ==
  /\ MaxAttempts \in Nat \ {0}
  /\ MaxReplays \in Nat
  /\ BatchSize \in Nat \ {0}
  /\ MaxCrashes \in Nat
ASSUME EventAssumption == IsFiniteSet(Event) /\ NoEvent \notin Event
ASSUME ReplayerAssumption == IsFiniteSet(Replayer)
ASSUME UrlAssumption == Urls \subseteq {"none", "https"} /\ Urls # {}
ASSUME AdversityAssumption == Adversity \subseteq {"throw", "crash", "replay"}

VARIABLES
  event,      \* webhook_events
  url,        \* settings.webhookUrl
  cycle,
  replayer,   \* the event each replay request has checked
  received,   \* events the endpoint has accepted
  crashes

vars == <<event, url, cycle, replayer, received, crashes>>

Due == {"never", "later", "now"}
Flight == {"none", "posting", "accepted", "rejected"}

NoRow == [queued |-> FALSE, delivered |-> FALSE, attempts |-> 0, due |-> "never", replays |-> 0]
NewRow == [queued |-> TRUE, delivered |-> FALSE, attempts |-> 0, due |-> "now", replays |-> 0]
IdleCycle == [pc |-> "idle", url |-> "none", full |-> FALSE,
              flight |-> [e \in Event |-> "none"], seen |-> [e \in Event |-> 0]]

Row == [queued: BOOLEAN, delivered: BOOLEAN, attempts: 0..MaxAttempts, due: Due, replays: Nat]
CycleState == [pc: {"idle", "read", "deliver"}, url: {"none", "https"}, full: BOOLEAN,
               flight: [Event -> Flight], seen: [Event -> 0..(MaxAttempts - 1)]]

TypeOK ==
  /\ event \in [Event -> Row]
  /\ url \in Urls
  /\ cycle \in [Cycle -> CycleState]
  /\ replayer \in [Replayer -> Event \cup {NoEvent}]
  /\ received \subseteq Event
  /\ crashes \in 0..MaxCrashes

Init ==
  /\ event = [e \in Event |-> NoRow]
  /\ url \in Urls
  /\ cycle = [c \in Cycle |-> IdleCycle]
  /\ replayer = [r \in Replayer |-> NoEvent]
  /\ received = {}
  /\ crashes = 0

-----------------------------------------------------------------------------
(* The row of an event. *)

Pending(e) == event[e].queued /\ ~event[e].delivered

\* Given up: no cycle will look at it again.
Dead(e) == Pending(e) /\ event[e].due = "never"

\* The WHERE clause of deliverPending.
IsDue(e) == Pending(e) /\ event[e].attempts < MaxAttempts /\ event[e].due = "now"

\* queueWebhook
Queue(e) ==
  /\ ~event[e].queued
  /\ event' = [event EXCEPT ![e] = NewRow]
  /\ UNCHANGED <<url, cycle, replayer, received, crashes>>

BecomeDue(e) ==
  /\ event[e].due = "later"
  /\ event' = [event EXCEPT ![e].due = "now"]
  /\ UNCHANGED <<url, cycle, replayer, received, crashes>>

-----------------------------------------------------------------------------
(* deliverPending *)

\* getSettings: the whole cycle uses the URL it read.
StartCycle(c) ==
  /\ cycle[c].pc = "idle"
  /\ cycle' = [cycle EXCEPT ![c] = [@ EXCEPT !.pc = "read", !.url = url]]
  /\ UNCHANGED <<event, url, replayer, received, crashes>>

DueEvents == {e \in Event : IsDue(e)}
BatchLimit == IF Cardinality(DueEvents) < BatchSize THEN Cardinality(DueEvents) ELSE BatchSize

\* findMany: the rows' attempts are the ones of this moment, until they are written.
ReadBatch(c) ==
  /\ cycle[c].pc = "read"
  /\ \E batch \in kSubset(BatchLimit, DueEvents) :
       cycle' = [cycle EXCEPT ![c] = [@ EXCEPT
         !.pc = IF batch = {} THEN "idle" ELSE "deliver",
         !.full = Cardinality(batch) = BatchSize,
         !.flight = [e \in Event |-> IF e \in batch THEN "posting" ELSE "none"],
         !.seen = [e \in Event |-> IF e \in batch THEN event[e].attempts ELSE 0]]]
  /\ UNCHANGED <<event, url, replayer, received, crashes>>

\* findMany throws: the timer's catch logs it, and the cycle ends.
ReadThrows(c) ==
  /\ "throw" \in Adversity
  /\ cycle[c].pc = "read"
  /\ cycle' = [cycle EXCEPT ![c] = IdleCycle]
  /\ UNCHANGED <<event, url, replayer, received, crashes>>

\* The flight of e is where it was said to be, and goes on to the next stage.
Flies(c, e, from, to) ==
  /\ cycle[c].flight[e] = from
  /\ cycle' = [cycle EXCEPT ![c] = [@ EXCEPT !.flight[e] = to,
                                         !.seen[e] = IF to = "none" THEN 0
                                                          ELSE cycle[c].seen[e]]]

\* Without a URL there is nobody to tell: the event counts as delivered.
DeliverNowhere(c, e) ==
  /\ cycle[c].url = "none"
  /\ Flies(c, e, "posting", "none")
  /\ event' = [event EXCEPT ![e].delivered = TRUE]
  /\ UNCHANGED <<url, replayer, received, crashes>>

\* The update throws, and allSettled takes no notice: the event is still due.
NowhereThrows(c, e) ==
  /\ "throw" \in Adversity
  /\ cycle[c].url = "none"
  /\ Flies(c, e, "posting", "none")
  /\ UNCHANGED <<event, url, replayer, received, crashes>>

PostAccepted(c, e) ==
  /\ cycle[c].url = "https"
  /\ Flies(c, e, "posting", "accepted")
  /\ received' = received \cup {e}
  /\ UNCHANGED <<event, url, replayer, crashes>>

\* The endpoint refuses, or its answer is lost or late: it may have seen the event.
PostFails(c, e) ==
  /\ cycle[c].url = "https"
  /\ Flies(c, e, "posting", "rejected")
  /\ received' \in {received, received \cup {e}}
  /\ UNCHANGED <<event, url, replayer, crashes>>

\* Mutant: response.ok is not looked at.
MarkDeliveredAnyway(c, e) ==
  /\ \/ Flies(c, e, "accepted", "none")
     \/ Flies(c, e, "rejected", "none")
  /\ event' = [event EXCEPT ![e] = [@ EXCEPT !.delivered = TRUE,
                                             !.attempts = cycle[c].seen[e] + 1]]
  /\ UNCHANGED <<url, replayer, received, crashes>>

MarkDelivered(c, e) ==
  /\ Flies(c, e, "accepted", "none")
  /\ event' = [event EXCEPT ![e] = [@ EXCEPT !.delivered = TRUE,
                                             !.attempts = cycle[c].seen[e] + 1]]
  /\ UNCHANGED <<url, replayer, received, crashes>>

\* The update throws inside the try: the catch schedules a retry.
MarkThrows(c, e) ==
  /\ "throw" \in Adversity
  /\ Flies(c, e, "accepted", "rejected")
  /\ UNCHANGED <<event, url, replayer, received, crashes>>

LastAttempt(n) == n >= MaxAttempts

\* Mutant: the attempts are counted in the database, past the limit too.
ScheduleRetryIncrementing(c, e) ==
  LET next == event[e].attempts + 1 IN
  /\ Flies(c, e, "rejected", "none")
  /\ event' = [event EXCEPT ![e] = [@ EXCEPT !.attempts = next,
                                         !.due = IF LastAttempt(next) THEN "never" ELSE "later"]]
  /\ UNCHANGED <<url, replayer, received, crashes>>

\* Mutant: the attempt is not counted.
ScheduleRetryUncounted(c, e) ==
  /\ Flies(c, e, "rejected", "none")
  /\ event' = [event EXCEPT ![e] = [@ EXCEPT !.attempts = cycle[c].seen[e], !.due = "later"]]
  /\ UNCHANGED <<url, replayer, received, crashes>>

\* scheduleRetry writes the attempts that were read plus one, whatever they are now.
ScheduleRetry(c, e) ==
  LET next == cycle[c].seen[e] + 1 IN
  /\ Flies(c, e, "rejected", "none")
  /\ event' = [event EXCEPT ![e] = [@ EXCEPT !.attempts = next,
                                         !.due = IF LastAttempt(next) THEN "never" ELSE "later"]]
  /\ UNCHANGED <<url, replayer, received, crashes>>

\* allSettled takes no notice.
ScheduleThrows(c, e) ==
  /\ "throw" \in Adversity
  /\ Flies(c, e, "rejected", "none")
  /\ UNCHANGED <<event, url, replayer, received, crashes>>

\* A full batch is followed by another, at most MAX_BATCHES of them.
EndBatch(c) ==
  /\ cycle[c].pc = "deliver"
  /\ \A e \in Event : cycle[c].flight[e] = "none"
  /\ \/ cycle[c].full /\ cycle' = [cycle EXCEPT ![c].pc = "read"]
     \/ cycle' = [cycle EXCEPT ![c] = IdleCycle]
  /\ UNCHANGED <<event, url, replayer, received, crashes>>

CycleFlight(c, e) ==
  \/ DeliverNowhere(c, e) \/ NowhereThrows(c, e) \/ PostAccepted(c, e) \/ PostFails(c, e)
  \/ MarkDelivered(c, e) \/ MarkThrows(c, e)
  \/ ScheduleRetry(c, e) \/ ScheduleThrows(c, e)

CycleStep(c) ==
  \/ ReadBatch(c) \/ ReadThrows(c) \/ EndBatch(c)
  \/ \E e \in Event : CycleFlight(c, e)

-----------------------------------------------------------------------------
(* The admin API. *)

ChangeUrl ==
  /\ url' \in Urls \ {url}
  /\ UNCHANGED <<event, cycle, replayer, received, crashes>>

\* Mutant: the last replay may be taken once more.
CheckReplayInclusive(r, e) ==
  /\ "replay" \in Adversity
  /\ replayer[r] = NoEvent
  /\ event[e].queued
  /\ event[e].replays <= MaxReplays
  /\ replayer' = [replayer EXCEPT ![r] = e]
  /\ UNCHANGED <<event, url, cycle, received, crashes>>

\* The limit is checked on a row that was read...
CheckReplay(r, e) ==
  /\ "replay" \in Adversity
  /\ replayer[r] = NoEvent
  /\ event[e].queued
  /\ event[e].replays < MaxReplays
  /\ replayer' = [replayer EXCEPT ![r] = e]
  /\ UNCHANGED <<event, url, cycle, received, crashes>>

\* Mutant: the replay makes the event due, and forgets to reset its attempts.
ReplayKeepsAttempts(r) ==
  /\ replayer[r] # NoEvent
  /\ replayer' = [replayer EXCEPT ![r] = NoEvent]
  /\ event' = [event EXCEPT ![replayer[r]] = [@ EXCEPT !.delivered = FALSE, !.due = "now",
                                                   !.replays = event[replayer[r]].replays + 1]]
  /\ UNCHANGED <<url, cycle, received, crashes>>

\* ...before another statement resets it.
Replay(r) ==
  /\ replayer[r] # NoEvent
  /\ replayer' = [replayer EXCEPT ![r] = NoEvent]
  /\ event' = [event EXCEPT ![replayer[r]] = [@ EXCEPT !.delivered = FALSE, !.due = "now",
                                                   !.attempts = 0, !.replays = event[replayer[r]].replays + 1]]
  /\ UNCHANGED <<url, cycle, received, crashes>>

\* The worker process dies with its cycles.
Crash ==
  /\ "crash" \in Adversity
  /\ crashes < MaxCrashes
  /\ crashes' = crashes + 1
  /\ cycle' = [c \in Cycle |-> IdleCycle]
  /\ UNCHANGED <<event, url, replayer, received>>

-----------------------------------------------------------------------------
Next ==
  \/ \E e \in Event : Queue(e) \/ BecomeDue(e)
  \/ \E c \in Cycle : StartCycle(c) \/ CycleStep(c)
  \/ \E r \in Replayer : Replay(r) \/ \E e \in Event : CheckReplay(r, e)
  \/ ChangeUrl \/ Crash

Spec == Init /\ [][Next]_vars

\* The timer goes on, the fetch is aborted after ten seconds, time passes, and the
\* database does not refuse every statement for ever (SF).  findMany has no ORDER BY:
\* which events are in a batch that is full is not fair to any of them, so this is
\* enough only as long as BatchSize covers the events.
Fairness ==
  /\ \A c \in Cycle : /\ WF_vars(StartCycle(c)) /\ SF_vars(ReadBatch(c)) /\ WF_vars(EndBatch(c))
                      /\ \A e \in Event : /\ WF_vars(CycleFlight(c, e))
                                          /\ SF_vars(DeliverNowhere(c, e))
                                          /\ SF_vars(ScheduleRetry(c, e))
  /\ \A e \in Event : WF_vars(BecomeDue(e))

FairSpec == Spec /\ Fairness

-----------------------------------------------------------------------------
(* Properties. *)

\* An undelivered event with attempts left is always scheduled, and one without
\* never is, however cycles, replays and crashes interleave: no event drops out
\* of deliverPending's WHERE clause unnoticed (scheduleRetry, the replay handler).
PendingIsScheduled ==
  \A e \in Event : Pending(e) => (event[e].attempts < MaxAttempts <=> event[e].due # "never")

\* An event counts as delivered only if the endpoint accepted it, or its cycle had
\* no endpoint to send it to (deliver).
DeliveredIsReceived ==
  [][\A e \in Event : Pending(e) /\ event'[e].delivered =>
       \/ e \in received
       \/ \E c \in Cycle : cycle[c].url = "none" /\ cycle[c].flight[e] = "posting"]_vars

\* The requests that checked e and will replay it.
Replaying(e) == {r \in Replayer : replayer[r] = e}

\* The limit of the replays is passed by requests that overlap, and by no more of them
\* than there can be beside one that keeps it: a request that read the last replay as
\* free is counted before it replays (the replay handler's findUnique, and its update).
ReplaysAreBounded ==
  \A e \in Event :
    LET replays == event[e].replays + Cardinality(Replaying(e))
    IN  replays > 0 => replays < MaxReplays + Cardinality(Replayer)

\* Every event is delivered or given up in the end, though overlapping cycles may
\* set its attempts back (deliverPending, scheduleRetry).
PendingIsSettled ==
  \A e \in Event : event[e].queued ~> event[e].delivered \/ Dead(e)

-----------------------------------------------------------------------------
(* The inductive invariant of the proofs. *)

\* A delivery that is about to mark its event was accepted by the endpoint.
AcceptedIsReceived ==
  \A c \in Cycle, e \in Event : cycle[c].flight[e] = "accepted" => e \in received

IInv == TypeOK /\ PendingIsScheduled /\ AcceptedIsReceived

=============================================================================
