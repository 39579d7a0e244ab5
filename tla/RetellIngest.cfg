CONSTANTS
  Rows          = {r1, r2}
  Mails         = {r1, r2, m}
  Poison        = {m}
  Starts        <- MCStarts
  Threshold     = 3
  HalfOpenAfter = 4
  Deliveries    = 2
  MaxAdmin      = 1
  MaxFaults     = 1
  None          = none

SPECIFICATION Spec

CHECK_DEADLOCK FALSE

INVARIANTS DeliveriesAreKept LateMailsReachTheProvider
PROPERTIES EverythingSettles
