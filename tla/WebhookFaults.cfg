SPECIFICATION FairSpec
CONSTANTS
  e1 = e1  e2 = e2  c1 = c1  c2 = c2  r1 = r1  r2 = r2  NoEvent = NoEvent
  Event = {e1}
  Cycle = {c1, c2}
  Replayer = {r1, r2}
  MaxAttempts = 2
  MaxReplays = 1
  BatchSize = 1
  Urls = {"none", "https"}
  Adversity = {"throw", "crash", "replay"}
  MaxCrashes = 1
INVARIANTS TypeOK PendingIsScheduled ReplaysAreBounded
PROPERTIES DeliveredIsReceived PendingIsSettled
