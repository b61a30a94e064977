CONSTANTS
  Threads = {t1, t2, t3}
  Isr = isr
  NoOne = none
  NoBlock = NULL
  Modes = {"NONE", "MUTEX"}
  NumBlocks = 3
  WordBits = 2
  CounterWidth = 4
  RingCount = 3
  Messages = {m1, m2}
  NoMessage = nothing
  MaxDropped = 2
  Ids = {d1, d2, d3}
  Budget = 1
  MaxIds = 2
  MaxTime = 5
  MaxMisses = 2
  Tasks = {k1, k2, k3}
  Capacity = 2
  NumSlots = 2
  Creators = {c1, c2}
  Null = NULL
  NumPins = 3
  Callbacks = {f1, f2}
SPECIFICATION MCSpec
INVARIANTS BlocksConserved RecordsExact SlotsKeepTheirOwners
PROPERTY PoolTellsTruth
