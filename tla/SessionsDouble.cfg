SPECIFICATION Spec
CONSTANTS
  Emails = {ana}
  Devices = {app}
  Handlers = {h1,h2}
  Patient = FALSE
  Faults = FALSE
  MaxCalls = 4
INVARIANTS
  OneLivePerLogin
CHECK_DEADLOCK FALSE
