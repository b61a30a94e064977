SPECIFICATION PipelineSpec
CONSTANTS
  CmdDepth = 2
  SegDepth = 1
  Unit = 4
  Targets <- MCTargets
  MaxLines = 4
INVARIANT PulsesFollowPlan
PROPERTIES ReadyOnlyWhenDrained Settles
CHECK_DEADLOCK FALSE
