\* What survives the re-research loop: three texts, two pages, three rounds.
SPECIFICATION Spec
CONSTANTS
  Texts = {t1, t2, t3}
  Urls = {u1, u2}
  Unsourced = none
  Questions = {q1}
  Blank = blank
  MaxRounds = 3
  MaxFlagged = 5
  MaxTargeted = 3
  MaxCitations = 30
SYMMETRY Symmetry
INVARIANTS
  TypeOK
  EndsWithReportOrError
  ApprovedClaimsSurvive
  ClaimsAreCited
  NoRefutedClaimApproved
  ConvergedWasReviewed
  LoopIsBounded
\* A job that has ended takes no further step.
CHECK_DEADLOCK FALSE
