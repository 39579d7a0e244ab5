CONSTANTS
  t1 = t1
  i1 = i1
  u1 = u1
  u2 = u2
  Topics = {t1}
  Ideas = {i1}
  Users = {u1}
  Actor <- ActorOfTopics
  NoKey = NoKey
  NoUser = NoUser
  MaxAttempts = 2
  MaxStalls = 1
  MaxAsks = 1
  MaxDeletes = 1
  MaxFaults = 2
  MaxCrashes = 1
CHECK_DEADLOCK FALSE
SPECIFICATION Spec
INVARIANTS LinksResolve CommittedOnce OrphansAreExcused
