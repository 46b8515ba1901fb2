\* Both stores, a capacity of one, one restart at any moment.
SPECIFICATION FairSpec
CONSTANTS
  Jobs = {j1, j2}
  MaxInlineJobs = 1
  MaxNodes = 2
  MaxRestarts = 1
INVARIANTS
  TypeOK
  MemoryCeilingHolds
  AcceptedIsPollable
  OpenJobsAreAttended
  ReportedFailureIsNamed
PROPERTIES
  KeepsLifecycle
  AcceptedJobsSettle
  SlotsComeBack
\* Once every request is answered and every job ended, nothing happens.
CHECK_DEADLOCK FALSE
