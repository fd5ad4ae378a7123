SPECIFICATION FairSpec
CONSTANTS
  TargetQueue = 1
  Prefill = 2
  StableBuffer = FALSE
  ThreadModes = {TRUE, FALSE}
  CoreModes = {TRUE, FALSE}
  Capacity = 2
  Targets = {2}
  Buffers = {0, 3}
  Batches = {3}
  Controls <- AllControls
  CoreControls <- PlayingControls
  QueueMayFail = FALSE
  MaxFrames = 6
  MaxControls = 2
CHECK_DEADLOCK FALSE
PROPERTIES
  ThreadsReturn
  PlaybackStarts
