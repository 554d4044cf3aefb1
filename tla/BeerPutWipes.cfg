SPECIFICATION Spec
CONSTANTS
  Beers = {b1}
  Users = {ana, bea}
  Admins = {}
  Names = {"ipa"}
  Handlers = {h1, h2}
  Ops <- CommentAndUpdate
  EventsOn = TRUE
  Faults = FALSE
  Sent <- AppsOnly
  MaxCalls = 2
  NoBeer = NoBeer
  NoUser = NoUser
  NoHandler = NoHandler
PROPERTIES
  OnlyAdminsRemove
CHECK_DEADLOCK FALSE
