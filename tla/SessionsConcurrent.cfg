SPECIFICATION Spec
CONSTANTS
  Emails = {ana}
  Devices = {app}
  Handlers = {h1,h2}
  Patient = FALSE
  Faults = TRUE
  MaxCalls = 4
SYMMETRY Symmetry
INVARIANTS
  TypeOK
  NoOrphanTokens
  DeadOnArrivalIsRefused
CHECK_DEADLOCK FALSE
