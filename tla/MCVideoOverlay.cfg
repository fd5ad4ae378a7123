SPECIFICATION Spec
CONSTANTS
  None = None
  Buffers = {b1, b2}
  Callers <- Threads
  Pictures <- FrameNumbers
  Surfaces = {s1, s2, s3}
  Directs = {FALSE}
  Threadeds = {FALSE}
  FastForward = TRUE
  Layouts = {0, 1}
  MaxFrames = 5
  MaxChanges = 2
INVARIANTS
  NoStaleOverlay
