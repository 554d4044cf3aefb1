SPECIFICATION Spec
CONSTANTS
  Beers = {b1}
  Users = {admin}
  Admins = {admin}
  Names = {"ipa"}
  Handlers = {h1}
  Ops <- AllOps
  EventsOn = TRUE
  Faults = FALSE
  Sent <- AppsOnly
  MaxCalls = 2
  NoBeer = NoBeer
  NoUser = NoUser
  NoHandler = NoHandler
INVARIANTS
  DeletionHonoured
CHECK_DEADLOCK FALSE
