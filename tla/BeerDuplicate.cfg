SPECIFICATION Spec
CONSTANTS
  Beers = {b1, b2}
  Users = {ana}
  Admins = {}
  Names = {"ipa"}
  Handlers = {h1, h2}
  Ops <- CreateOnly
  EventsOn = TRUE
  Faults = FALSE
  Sent <- AppsOnly
  MaxCalls = 2
  NoBeer = NoBeer
  NoUser = NoUser
  NoHandler = NoHandler
PROPERTIES
  CreatedNameIsNew
CHECK_DEADLOCK FALSE
