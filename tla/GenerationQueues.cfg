CONSTANTS
  i1 = i1
  u1 = u1
  u2 = u2
  Topics = {}
  Ideas = {i1}
  Users = {u1, u2}
  Actor <- NoActors
  NoKey = NoKey
  NoUser = NoUser
  MaxAttempts = 3
  MaxStalls = 1
  MaxAsks = 1
  MaxDeletes = 0
  MaxFaults = 2
  MaxCrashes = 1

  t1 = t1
  t2 = t2
  k1 = k1
  k2 = k2
  Themes = {t1, t2}
  Barren = {t2}
  HashKeys = {k1, k2}
  Hashes <- MCHashes
  MaxCalls = 2
  Servers = {s1, s2}
  None = none
  MaxTries = 3
  MaxMishaps = 2

CHECK_DEADLOCK FALSE

SPECIFICATION QueuesSpec

INVARIANTS PreviewsAreKept

PROPERTIES QueuesDrain
