CONSTANTS
  Capacity = 2
  TickPeriod = 2
  CounterWidth = 8
  Debounce = 1
  ClockWidth = 2
  Bytes = {"a"}
  MaxInputs = 3
  Attempts = 0
  DriversFail = FALSE
  ProbeFails = TRUE
  LogInterval = 2
SPECIFICATION ReportSpec
INVARIANT ReportAddsUp
