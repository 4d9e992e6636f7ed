SPECIFICATION FairSpec
CONSTANTS
  N = 2
  Feeds = {1}
  BarTimes <- TwoBars
  MaxTime = 4
  MaxFrames = 2
  MaxInserts = 1
INVARIANTS
  CallbacksOnce
  FramesBeforeCallbacks
  BarsExact
PROPERTIES
  CallbacksRun
  StopEnds
CHECK_DEADLOCK FALSE
