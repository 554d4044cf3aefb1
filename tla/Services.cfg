SPECIFICATION SideBySide
CONSTANTS
  Writers = {w1, w2}
  Readers = {r1}
  Data = {d1}
  Keep = 1
  PerSecond = 2
  MaxEvents = 2
  MaxTime = 2
  Texts = {t1, t2}
  Flagged = {t2}
  Checkers = {c1, c2}
  TTL = 1
  EndOfTime = 2
  Emails = {ea, eb, ec}
  AdminEmail = ea
  Identities = {s1}
  Endpoints = {p1}
  Workers = {g1, g2}
  TokenTTL = 1
  LastHour = 2
  MaxAsks = 3
  NoIdentity = NoIdentity
  People = {ana}
  Devices = {app, web}
  Handlers = {h1, h2}
  MaxCalls = 4
  Kids = {k1, k2}
  Logins = {l1, l2}
  MaxAge = 1
  KeyTTL = 1
  LastTime = 2
  NotYet = NotYet
  PageSize = 2
  MaxItem = 3
  MaxChanges = 2
SYMMETRY Symmetry
INVARIANTS
  AllTypesOK
  AdminsAreSeeded
  SessionsSurvive
  OneLivePerLogin
PROPERTIES
  MissesOnlyLate
  LeniencyExpires
  PowerOutlivesByTTL
  ProfileIsFresh
  WithdrawnKeysDie
  PublishedKeysWork
  MissesOnlyShifted
CHECK_DEADLOCK FALSE
