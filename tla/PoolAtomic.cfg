CONSTANTS
  Threads = {t1}
  Isr = isr
  NoOne = none
  NoBlock = NULL
  Modes = {"ATOMIC"}
  NumBlocks = 3
  WordBits = 2
  CounterWidth = 4
SPECIFICATION Spec
INVARIANT ThreadAndIsrSafe
