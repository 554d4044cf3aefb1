SPECIFICATION Spec
CONSTANTS
  Processes = {p1, p2}
  Keys = {k1}
  MaxPings = 2
INVARIANTS
  IdsStand
CHECK_DEADLOCK FALSE
