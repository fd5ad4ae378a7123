SPECIFICATION FairSpec
CONSTANTS
  TargetQueue = 1
  Prefill = 4
  StableBuffer = FALSE
  ThreadModes = {TRUE}
  CoreModes = {FALSE}
  Capacity = 2
  Targets = {1}
  Buffers = {0}
  Batches = {2}
  Controls = {}
  CoreControls = {}
  QueueMayFail = FALSE
  MaxFrames = 6
  MaxControls = 0
CHECK_DEADLOCK FALSE
PROPERTIES
  PlaybackStarts
