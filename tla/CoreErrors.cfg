CONSTANTS
  Types = {1}
  Handlers = {h1}
  NoHandler = NULL
  NoEvent = none
  HandlerResults = {"OK", "EMPTY"}
  PostKinds = {"post"}
  AsyncTable = FALSE
  Capacity = 2
  Budget = 1
  MaxHandlers = 1
  MaxDrain = 1
  TickWidth = 1
  MaxPosts = 2
  MaxInits = 1
SPECIFICATION Spec
PROPERTIES HandlerErrorsPropagate
