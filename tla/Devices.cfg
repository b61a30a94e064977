CONSTANTS
  NumAxes = 3
  MaxSteps = 3
  IntMax = 9
  Word = 32
  Speeds = {2, 8}
  Accels = {2}
  Decels = {0, 1}
  MaxMove = 4
  MaxPosition = 1
  Reasons = {r1, r2}
  DebounceUs = 2
  MaxTime = 7
  Pins = {a, b}
  Nobody = none
  MaxCount = 3
  Callbacks = {c1, c2}
  Null = NULL
  Wanted = {0, 3, 7}
  MaxAccel = 2
  MaxSpeed = 3
  MaxRate = 2
  Errors <- MCErrors
  Gains <- MCGains
  SampleTime = 2
  IntegralMax = 5
  Samples = {0, 1, 3}
  Window = 3
SPECIFICATION MCSpec
INVARIANTS PulsesExact StepperSound FaultHeldAndHeard SignalsSound
