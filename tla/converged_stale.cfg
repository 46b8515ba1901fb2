\* A review of nothing keeps the converged of the round before.
SPECIFICATION Spec
CONSTANTS
  Texts = {t1}
  Urls = {u1}
  Unsourced = none
  Questions = {q1}
  Blank = blank
  MaxRounds = 2
  MaxFlagged = 5
  MaxTargeted = 3
  MaxCitations = 30
INVARIANTS
  ConvergedWasMeasured
\* A job that has ended takes no further step.
CHECK_DEADLOCK FALSE
