CONSTANTS
  Keep       = 1
  MaxBackups = 3
  MaxDeletes = 1
  MaxFaults  = 1

SPECIFICATION Spec

CHECK_DEADLOCK FALSE

INVARIANTS DumpsAreAccountedFor
PROPERTIES RunsEndOnce WindowIsEnforced
