\* Two processes, one after the other or refused; a cap below the design's worst case, and one above.
SPECIFICATION Spec
CONSTANTS
  Pids = {p1, p2}
  NoPid = NoPid
  q1 = q1
  r1 = r1
  r2 = r2
  w1 = w1
  Prompts = {r1, r2, w1}
  Queries = {q1}
  WorstOf <- MCWorstOf
  CreditsOf <- MCCreditsOf
  HardMaxUsd = 7
  HardMaxCredits = 2
  MaxRetries = 1
  Design <- MCDesign
  CallsOf <- MCCallsOf
  PlannedOf <- MCPlannedOf
  Caps = {5, 7}
  CreditCaps = {1}
  MaxLaunches = 2
SYMMETRY Symmetry
INVARIANTS
  TypeOK
  CapHolds
  LedgerCoversBill
  OneSpender
  PaidOnce
  RecordsAreWhole
CHECK_DEADLOCK FALSE
