CONSTANTS
  States = {"s1", "s2", "s3"}
  Events = {"a", "b"}
  Uninit = "UNINIT"
  NoId = "a"
  Rows <- SmallTable
  Initial = "s1"
  Results = {"OK", "INVALID_ARG"}
  Callbacks = {{}, {"dispatch"}}
  Depth = 2
  MaxEvents = 4
  MaxStarts = 2
SPECIFICATION FairSpec
INVARIANTS EveryDispatchAccounted EntryExitPaired
PROPERTIES ImplementsMachine CallsReturn
CHECK_DEADLOCK FALSE
