CONSTANTS
  Campaigns = {c1}
  w1 = w1
  w2 = w2
  Workers <- WorkerSlots
  NStages = 2
  NoCampaign = NoCampaign
  NoWorker = NoWorker
  MaxAttempts = 3
  MaxStalls = 1
  MaxFaults = 2
  MaxCrashes = 2
SPECIFICATION Spec
SYMMETRY Symmetry
INVARIANTS LinksResolve AnnouncedIsStored
PROPERTIES LifecycleSpec
CHECK_DEADLOCK FALSE
