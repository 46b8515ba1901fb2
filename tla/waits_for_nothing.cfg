\* One job, requests that fail: the comment at page.tsx:107.
SPECIFICATION Spec
CONSTANTS
  Jobs = {j1}
  NoJob = NoJob
  Frames = 2
  MaxPolls = 2
  MaxFailures = 1
  MaxReopenings = 0
  MaxResets = 1
  MaxLoaders = 2
INVARIANT NeverWaitsForNothing
CHECK_DEADLOCK FALSE
