CONSTANTS
  Capacity = 2
  TickPeriod = 2
  CounterWidth = 4
  Debounce = 1
  ClockWidth = 2
  Bytes = {"a"}
  MaxInputs = 2
  Attempts = 3
  DriversFail = TRUE
  ProbeFails = FALSE
SPECIFICATION Spec
INVARIANTS InputsArriveInOrder CountersAgree
PROPERTIES BacklogKeepsDraining BurstReported
