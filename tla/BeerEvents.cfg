SPECIFICATION Spec
CONSTANTS
  Beers = {b1}
  Users = {admin, ana}
  Admins = {admin}
  Names = {"ipa"}
  Handlers = {h1, h2}
  Ops <- AllOps
  EventsOn = TRUE
  Faults = TRUE
  Sent <- AppsOnly
  MaxCalls = 3
  NoBeer = NoBeer
  NoUser = NoUser
  NoHandler = NoHandler
SYMMETRY Symmetry
INVARIANTS
  TypeOK
  LocksMatchTransactions
  AcknowledgedIsRecorded
  CacheIsBacked
PROPERTIES
  CommentsSurvive
  Implements
CHECK_DEADLOCK FALSE
