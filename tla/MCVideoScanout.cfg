SPECIFICATION Spec
CONSTANTS
  None = None
  Buffers = {b1, b2}
  Callers <- Threads
  Pictures <- FrameNumbers
  Surfaces = {s1, s2, s3}
  Directs = {TRUE, FALSE}
  Threadeds = {FALSE}
  FastForward = FALSE
  Layouts = {0, 1}
  MaxFrames = 3
  MaxChanges = 0
INVARIANTS
  ScanoutLocked
