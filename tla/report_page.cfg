\* Two jobs, overlapping polls, one failure, one reset.
SPECIFICATION FairSpec
CONSTANTS
  Jobs = {j1, j2}
  NoJob = NoJob
  Frames = 3
  MaxPolls = 2
  MaxFailures = 1
  MaxReopenings = 1
  MaxResets = 1
  MaxLoaders = 3
INVARIANTS
  TypeOK
  WaitingIsAttended
  DoneIsComplete
PROPERTIES
  OutcomeStands
  PageSettles
CHECK_DEADLOCK FALSE
