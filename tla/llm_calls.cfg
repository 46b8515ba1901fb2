\* Two jobs, nodes of up to two parallel calls, a budget two nodes can spend.
SPECIFICATION Spec
CONSTANTS
  Jobs = {j1, j2}
  Budget = 3
  Floor = 1
  Limits = {3}
  MaxInput = 1
  MaxFan = 2
  MaxNodes = 3
  MaxAttempts = 2
SYMMETRY Symmetry
INVARIANTS
  TypeOK
  LearnedNameWorks
  OverrunIsBounded
  
CHECK_DEADLOCK FALSE
