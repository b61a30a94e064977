CONSTANTS
  Types = {1, 99}
  Handlers = {h1}
  NoHandler = NULL
  NoEvent = none
  HandlerResults = {"OK", "INVALID_ARG"}
  PostKinds = {"post", "try_post"}
  AsyncTable = TRUE
  Capacity = 3
  Budget = 1
  MaxHandlers = 2
  MaxDrain = 2
  TickWidth = 2
  MaxPosts = 4
  MaxInits = 2
SPECIFICATION Spec
INVARIANTS EventConservation HandlersSafe
PROPERTIES CountersNeverDecrease OkMeansDrained ImplementsDelivery
