SPECIFICATION FairSpec
CONSTANTS
  Beers = {b1}
  Users = {admin, ana}
  Admins = {admin}
  Names = {"ipa"}
  Handlers = {h1, h2}
  Ops <- AllOps
  EventsOn = FALSE
  Faults = TRUE
  Sent <- OneOfItsOwn
  MaxCalls = 2
  NoBeer = NoBeer
  NoUser = NoUser
  NoHandler = NoHandler
PROPERTIES
  CommentsSurvive
  EveryRequestAnswered
  Implements
CHECK_DEADLOCK FALSE
