CONSTANTS
  Events = {e1, e2}
  Zero = zero
  Capacity = 3
  MaxDropped = 1
  MaxBatch = 2
  Depth = 2
  Results = {"OK", "INVALID_ARG", "EMPTY"}
  CounterWidth = 3
SPECIFICATION DSpec
INVARIANTS EveryEventCounted
PROPERTIES ImplementsFifo ResultsHonest CallsReturn
