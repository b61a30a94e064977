CONSTANTS
  Bytes = {"a", "s", "S", "r", "d", "?", "x"}
  MaxInputs = 5
  ProbeFails = TRUE
  Debounce = 3
  ClockWidth = 7
  MaxUptime = 18
  MaxPresses = 4
  BufSize = 96
  MaxDigits = 10
  Scale = 4
  MaxWhole = 2
SPECIFICATION MCSpec
INVARIANTS ProbeFollowsApp BridgeAndFsmAgree ResponseFaithful
PROPERTIES AnswersMatchCounters FaultLatched DebounceExact
CHECK_DEADLOCK FALSE
