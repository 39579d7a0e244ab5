CONSTANTS
  Zone      = 0
  Leads     = {l1, l2}
  Addresses = {e1, e2}
  Requests  = {r1, r2}
  Times     = {510, 930}
  Openings  = {480, 510}
  None      = none
  Keep      = keep
  MaxEdits  = 1
  MaxFaults = 1

SPECIFICATION Spec

SYMMETRY Symmetry

CHECK_DEADLOCK FALSE

INVARIANTS LeadsAreConsistent
PROPERTIES BookingsAreSpaced DeclinedIsFinal AddressesAreKept
