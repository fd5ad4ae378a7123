SPECIFICATION FairSpec
CONSTANTS
  TargetQueue = 1
  Prefill = 0
  StableBuffer = FALSE
  ThreadModes = {TRUE}
  CoreModes = {TRUE}
  Capacity = 2
  Targets = {1}
  Buffers = {0}
  Batches = {2}
  Controls = {}
  CoreControls = {"pause"}
  QueueMayFail = FALSE
  MaxFrames = 6
  MaxControls = 1
CHECK_DEADLOCK FALSE
PROPERTIES
  StopReturns
