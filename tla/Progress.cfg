SPECIFICATION SideBySide
CONSTANTS
  Users = {adm, ana}
  Admins = {adm}
  Beers = {b1, b2}
  Handlers = {h1, h2}
  Faults = TRUE
  MaxCalls = 2
  Nobody = Nobody
  Calls = {c1}
  MaxRetries = 3
  Resends = 2
  Requests = {q1, q2, q3}
  None = None
  Processes = {p1, p2}
  Keys = {k1}
  MaxPings = 2
INVARIANTS
  AllTypesOK
  NoDanglingRow
  ApprovalTakesEffect
  EffectsBounded
  CancelStopsAttempts
  OnePool
  ServesOnlyMigrated
  ReferencesHold
PROPERTIES
  OnlyJudgedBeersGo
  EveryDecisionAnswered
  StaticNeverWaits
  StopsWhenTold
CHECK_DEADLOCK FALSE
