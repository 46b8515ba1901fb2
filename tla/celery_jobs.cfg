\* A worker of two processes that reads the queue the server publishes to.
SPECIFICATION FairSpec
CONSTANTS
  Jobs = {j1}
  Slots = {w1, w2}
  WorkerQueues = {"celery"}
  MaxRetries = 1
  MaxCrashes = 1
  MaxRepeats = 1
INVARIANTS
  TypeOK
  OpenJobsAreAttended
  OneRunAtATime
  WorkIsBounded
PROPERTIES
  FinishedRunsAgainForACause
  KeepsLifecycle
  JobsSettleForGood
\* Once every job is finished, nothing happens.
CHECK_DEADLOCK FALSE
