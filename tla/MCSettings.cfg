SPECIFICATION SettingsSpec
CONSTANTS
  Settings = {"a", "b"}
  NoSetting = "none"
  Values <- ShortValues
  FirstFiles <- HandWritten
  MaxSaves = 1
  Packs = {p1, p2}
  MaxChoices = 4
  Options = {"sorting", "variant"}
  Sensitive = {"sorting"}
  Variant = "variant"
  Catalogs <- SmallCatalogs
  MaxVersion = 4
  MaxLaunches = 4
  Remaps <- SomeRemaps
  Holds <- SomeHolds
  Positions <- SomePositions
  MaxSettings = 1
  Cases <- SettingCases
  WrittenTexts <- TextsOf
  Numbers <- Nums
  MaxPresses = 2
  MaxStarts = 3
  Setups <- SomeSetups
  Panels <- PanelSizes
  Windows <- WindowSizes
  Asked <- GeometriesOf
  Chosen <- SomeRatios
  MaxReshapes = 2
  Warmups = {0, 2}
  Limits = {0, 2}
  Duration = 2
  Delay = 1
  MaxClock = 4
  MaxSamples = 2
  Bos = {11, 12, 13}
  BufferMax = 2
  MaxResizes = 2
  Keys <- CoreOptions
  SizeKey = "size"
  Texts <- OptionTexts
  Registrations <- RegistrationLists
  Overrides <- ProfileOverrides
  Counters = {1, 2, 3}
  MAX_COUNTERS = 2
  Descriptions <- TypeLists
  MaxType = 1023
  SizeOf <- SizesOf
  NoText = "none"
  Addresses = {1, 2, 3}
  Contents = {0, 1}
  Unpainted = 0
  MaxGeneration = 11
  DisplaySizes = {1, 2}
  Parts = {"settings", "decorations", "profiles", "catalogs", "controls", "preferences", "geometry", "benchmark", "resources", "options", "renderer", "devices", "drawing", "decorating", "swapping", "sharing", "window"}
CHECK_DEADLOCK FALSE
INVARIANTS
  SettingsKept
  DecorationsTrue
  ProfileTrue
  ControlsTrue
  PictureTrue
  ReportTrue
  OwnersLast
  EnvironmentHonoured
  SdlPictureTrue
PROPERTIES
  CatalogAdvances
