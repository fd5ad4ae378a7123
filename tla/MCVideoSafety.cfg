SPECIFICATION Spec
CONSTANTS
  None = None
  Buffers = {b1, b2}
  Callers <- Threads
  Pictures <- FrameNumbers
  Surfaces = {s1, s2, s3}
  Directs = {TRUE, FALSE}
  Threadeds = {TRUE, FALSE}
  FastForward = TRUE
  Layouts = {0, 1}
  MaxFrames = 5
  MaxChanges = 1
SYMMETRY SurfaceSymmetry
INVARIANTS
  NoMismatch
  NoTearing
  SurfacesAccounted
  QuietAfterwards
PROPERTIES
  ScanInOrder
  KeepsContract
