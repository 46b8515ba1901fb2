\* The pipeline implements its promise, and ends, with every limit reached:
\* two flags of which one is searched again, one citation of two.
SPECIFICATION FairSpec
CONSTANTS
  Texts = {t1, t2}
  Urls = {u1}
  Unsourced = none
  Questions = {q1, q2}
  Blank = blank
  MaxRounds = 2
  MaxFlagged = 2
  MaxTargeted = 1
  MaxCitations = 1
INVARIANTS
  ReResearchIsTargeted
PROPERTIES
  KeepsPromise
  JobEnds
\* A job that has ended takes no further step.
CHECK_DEADLOCK FALSE
