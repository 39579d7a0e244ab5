CONSTANTS
  k1 = k1
  k2 = k2
  k3 = k3
  Calls <- ThreeCalls
  FailureThreshold = 2
  ResetTimeout = 2
  MaxRetries = 1
  MaxErrors = 9
  MaxResets = 1
SPECIFICATION FairBreakerSpec
INVARIANTS CountMatchesState
PROPERTIES NoEarlyProbe OnlyQuietForgives Recovers
