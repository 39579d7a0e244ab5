CONSTANTS
  Users     = {u1}
  Roles     = {super, editor}
  Perms     = {p}
  Super     = super
  Checks    = {k1, k2}
  Changes   = {c1, c2}
  Absent    = none
  MaxLosses = 1

SPECIFICATION Spec

CHECK_DEADLOCK FALSE

INVARIANTS RulesAreTrue
PROPERTIES ChangesShowInTheEnd
