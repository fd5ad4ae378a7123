SPECIFICATION FairFrontendSpec
CONSTANTS
  Slots = {s1}
  Latest = latest
  NoPath = NoPath
  MaxContent = 2
  MaxCrashes = 0
  MaxRequests = 1
  MaxExecs = 2
  MaxPosts = 5
  Media = {original, second, third}
  Original = original
  NoMedia = NoMedia
  MaxChanges = 2
  MaxToggles = 1
  MaxEntries = 3
  Texts = {t1, t2, t3}
  NoText = NoText
  MaxNotes = 4
  SkipsPoll = FALSE
  Benchmarks = {FALSE}
  MaxSkip = 2
  MaxPeriod = 3
  MaxCooldown = 1
  MaxDropped = 5
  MaxPads = 2
  MaxQueue = 2
  MaxText = 1
  BufferCount = 3
  Sizes = {1, 2}
  Target = 2
  CoreThreads = {TRUE, FALSE}
  MaxBatches = 6
  MaxControls = 2
  Buttons = {pad1, pad2}
  MaxReports = 3
  MaxWaiting = 4
  Parts = {"saves", "life", "loop"}
CHECK_DEADLOCK FALSE
PROPERTIES
  LoadSettles
  StartupSettles
  ExitHonoured
