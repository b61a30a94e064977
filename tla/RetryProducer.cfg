CONSTANTS
  Types = {0, 1}
  Handlers = {h1}
  NoHandler = NULL
  NoEvent = none
  HandlerResults = {"OK"}
  PostKinds = {"post", "try_post"}
  AsyncTable = FALSE
  Capacity = 3
  Budget = 1
  MaxHandlers = 1
  MaxDrain = 1
  TickWidth = 1
  MaxPosts = 16
  MaxInits = 1
  Producers = {p, q}
  MaxRequests = 2
SPECIFICATION RetryFairSpec
INVARIANTS ThrottleKeepsRoom SnapshotCoherent RequestsAccounted
PROPERTIES RequestsSettle ImplementsFairDelivery
