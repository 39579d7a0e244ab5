CONSTANTS
  Requests  = {r1, r2, r3}
  Start     = start
  None      = none
  Agents    = {firefox}
  LockAt    = 2
  MaxFaults = 1

SPECIFICATION Spec

SYMMETRY Symmetry

CHECK_DEADLOCK FALSE

INVARIANTS AccountIsWhole SessionsKnowThePassword
PROPERTIES SavesLoseOnlyToOverlap RevocationsLast CodesAreSpentOnce
