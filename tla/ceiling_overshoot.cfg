\* Two requests pass the check before either is counted.
SPECIFICATION Spec
CONSTANTS
  Jobs = {j1, j2}
  MaxInlineJobs = 1
  MaxNodes = 1
  MaxRestarts = 0
INVARIANTS
  CeilingHolds
\* Once every request is answered and every job ended, nothing happens.
CHECK_DEADLOCK FALSE
