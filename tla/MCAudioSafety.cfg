SPECIFICATION Spec
CONSTANTS
  TargetQueue = 1
  Prefill = 2
  StableBuffer = FALSE
  ThreadModes = {TRUE, FALSE}
  CoreModes = {TRUE, FALSE}
  Capacity = 2
  Targets = {2}
  Buffers = {0, 3}
  Batches = {1, 3}
  Controls <- AllControls
  CoreControls <- AllControls
  QueueMayFail = TRUE
  MaxFrames = 4
  MaxControls = 2
CHECK_DEADLOCK FALSE
INVARIANTS
  TypeOK
  SoundIntact
  CapacityBound
  FlushBarrier
  ProviderRespected
PROPERTIES
  ImplementsPipe
