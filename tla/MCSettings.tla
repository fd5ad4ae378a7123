----------------------------- MODULE MCSettings -----------------------------
(***************************************************************************)
(* Instances, for TLC, of the components that decide what the settings     *)
(* are and what they do, and of what the program opens, measures and       *)
(* closes by them: the display's objects and the benchmark.  They share no *)
(* variable and each is checked by itself, as in MCFrontend.               *)
(***************************************************************************)
EXTENDS ConfigFile, Decorations, GameProfiles, CatalogUpdate, Controls,
        Preferences, Geometry, Benchmark, Go2Resources, CoreEnvironment,
        SdlVideo

CONSTANT Parts  \* the components a run checks

VARIABLE part

\* What may be chosen for a component that is not checked is chosen once.
StillChosen ==
  /\ part # "settings" => cfgFile = << >>
  /\ part # "decorations" =>
       /\ enabled = FALSE /\ pixelPerfect = FALSE
       /\ installed = [q \in Packs |-> {}]
       /\ chosenPack = CHOOSE q \in Packs : TRUE

\* Every catalog with at most three records of a game, for each of which only
\* best_performance may inherit or ask for another core.
CatalogRecord(inherits, sets) ==
  [there |-> TRUE, inherits |-> inherits, sets |-> sets]
NoRecord == [there |-> FALSE, inherits |-> FALSE, sets |-> {}]
ValidatedRecords ==
  {NoRecord, CatalogRecord(FALSE, {}), CatalogRecord(FALSE, {"sorting"})}
PerformanceRecords ==
  ValidatedRecords \cup
    {CatalogRecord(TRUE, {}), CatalogRecord(TRUE, {"sorting"}),
     CatalogRecord(FALSE, {"variant"})}
SmallCatalogs ==
  {c \in [Scopes \X Modes -> PerformanceRecords] :
     /\ \A sc \in Scopes : c[<<sc, BestValidated>>] \in ValidatedRecords
     /\ Cardinality({i \in DOMAIN c : c[i].there}) <= 3}
TitleOnly ==
  [i \in Scopes \X Modes |->
     IF i = <<"game", BestValidated>> THEN CatalogRecord(FALSE, {})
     ELSE NoRecord]

\* The parts that are not checked: a game with a title and no update.
ProfilesChosen ==
  IF part = "profiles" THEN ProfInit
  ELSE /\ catalog = TitleOnly /\ mapped = TRUE /\ written = Unset
       /\ manual = {} /\ wished = "disabled" /\ ProfInit
UpdatesChosen ==
  IF part = "catalogs" THEN UpdateInit
  ELSE /\ builtin = 1 /\ localFile = NoCatalog /\ cached = NoCatalog
       /\ UpdateInit

\* Any device with the default settings, and one with any settings; what the
\* picture's turn does to the sticks and what the cores read of them are apart.
NoRemap == [l \in {} |-> ""]
SomeRemaps ==
  {NoRemap, [a |-> "B", b |-> "A", l1 |-> "X", x |-> "TopLeft"]}
SomeHolds == {{}, {"X"}}
Thumb(x, y) == [x |-> x, y |-> y]
SomePositions ==
  {[left |-> Centred, right |-> Centred],
   [left |-> Thumb(1, 0), right |-> Centred],
   [left |-> Centred, right |-> Thumb(0, -1)]}
OneDevice == device = "rk3566" /\ gpio = FALSE
Unturned == tateState = "disabled" /\ tall = FALSE
OneMode ==
  analogToDigital = "left_forced" /\ swapSticks = FALSE /\ n64 = FALSE
ControlsChosen ==
  /\ swapShoulders = FALSE
  /\ IF part = "controls"
     THEN \/ Unturned /\ OneMode /\ ControlsInit
          \/ /\ OneDevice /\ buttons = initButtons(device, gpio, NoRemap)
             /\ Unturned \/ OneMode
             /\ ControlsInit
     ELSE /\ OneDevice /\ buttons = initButtons(device, gpio, NoRemap)
          /\ Unturned /\ OneMode /\ ControlsInit

\* No configuration, for the parts that are not checked.
PreferencesChosen ==
  IF part = "preferences" THEN PrefInit
  ELSE /\ watched = CHOOSE c \in Cases : "aspect_ratio" \in c.settings
       /\ readable = FALSE /\ PrefInit

\* A window with the default settings, for the parts that are not checked.
GeometryChosen ==
  IF part = "geometry" THEN GeoInit
  ELSE /\ handset = "SDL" /\ geoCore = "generic" /\ hardware = FALSE
       /\ screen = CHOOSE w \in Windows : TRUE
       /\ opt_aspect = NoRatio /\ tate = "disabled" /\ perfect = FALSE
       /\ opening = NoSize /\ GeoInit

BenchmarkChosen ==
  /\ part # "benchmark" =>
       /\ warmup = CHOOSE n \in Warmups : TRUE
       /\ limit = CHOOSE n \in Limits : TRUE
       /\ threaded = FALSE
  /\ BenchInit
ResourcesChosen == (part # "resources" => isOpenGL = FALSE) /\ Go2ResInit

\* A core's calls are checked kind by kind: they meet in the phases alone.
EnvironmentChosen ==
  /\ part # "renderer" => build = "gl" /\ renderer = "auto"
  /\ part # "options" => conf_map = [k \in Keys |-> NoText]
  /\ EnvInit

\* The SDL2 platform's picture, of some surfaces at a time and on one of its
\* two ways, and its window, without surfaces.
SurfacesOf ==
  [drawing |-> {"base", "full"}, decorating |-> {"base"} \cup Pair,
   swapping |-> Pair, sharing |-> {"full", "corner"}]
GenerationsOf ==
  [drawing |-> 4, decorating |-> 6, swapping |-> 5, sharing |-> 4]
SdlParts == DOMAIN SurfacesOf
SdlVideoChosen ==
  /\ part # "window" =>
       /\ vsync_enabled = FALSE
       /\ windowSize = CHOOSE n \in DisplaySizes : TRUE
  /\ SdlVideoInit
SdlPictureNext ==
  /\ PictureSteps \/ DeviceSteps
  /\ next_surface_generation' <= GenerationsOf[part]
  /\ \A s \in SdlSlots \ SurfacesOf[part] : slotOf'[s] = NoAddress
  /\ ~vsync_applied'
  /\ shownBy' # IF part \in {"drawing", "decorating"} THEN "context"
                ELSE "presenter"
  /\ IF part = "swapping" THEN TRUE ELSE UNCHANGED sdlFilterVars

SettingsInit ==
  /\ part \in Parts
  /\ StillChosen
  /\ CfgInit
  /\ DecoInit
  /\ ProfilesChosen
  /\ UpdatesChosen
  /\ ControlsChosen
  /\ PreferencesChosen
  /\ GeometryChosen
  /\ BenchmarkChosen
  /\ ResourcesChosen
  /\ EnvironmentChosen
  /\ SdlVideoChosen

Only(p) ==
  /\ part = p /\ UNCHANGED part
  /\ IF p = "settings" THEN TRUE ELSE UNCHANGED cfgVars
  /\ IF p = "decorations" THEN TRUE ELSE UNCHANGED decoVars
  /\ IF p = "profiles" THEN TRUE ELSE UNCHANGED profVars
  /\ IF p = "catalogs" THEN TRUE ELSE UNCHANGED updateVars
  /\ IF p = "controls" THEN TRUE ELSE UNCHANGED controlVars
  /\ IF p = "preferences" THEN TRUE ELSE UNCHANGED prefVars
  /\ IF p = "geometry" THEN TRUE ELSE UNCHANGED geoVars
  /\ IF p = "benchmark" THEN TRUE ELSE UNCHANGED benchVars
  /\ IF p = "resources" THEN TRUE ELSE UNCHANGED resVars
  /\ IF p \in {"options", "renderer", "devices"} THEN TRUE
     ELSE UNCHANGED envVars
  /\ IF p \in SdlParts \cup {"window"} THEN TRUE
     ELSE UNCHANGED sdlVideoVars

AnyFormat == SetPixelFormat("XRGB8888")
SettingsNext ==
  \/ Only("settings") /\ CfgNext
  \/ Only("decorations") /\ DecoNext
  \/ Only("profiles") /\ ProfNext
  \/ Only("catalogs") /\ UpdateNext
  \/ Only("controls") /\ ControlsNext
  \/ Only("preferences") /\ PrefNext
  \/ Only("geometry") /\ GeoNext
  \/ Only("benchmark") /\ BenchNext
  \/ Only("resources") /\ Go2ResNext
  \/ Only("options") /\ (Phases \/ OptionCalls \/ AnyFormat)
  \/ Only("renderer") /\ (Phases \/ RenderCalls)
  \/ Only("devices") /\ (Phases \/ DeviceCalls \/ AnyFormat)
  \/ \E p \in SdlParts : Only(p) /\ SdlPictureNext
  \/ Only("window") /\ (DeviceSteps \/ WindowSteps)

SettingsVars ==
  <<part, cfgVars, decoVars, profVars, updateVars, controlVars, prefVars,
    geoVars, benchVars, resVars, envVars, sdlVideoVars>>
SettingsSpec == SettingsInit /\ [][SettingsNext]_SettingsVars

\* What is written is what is read, and what is read is what was shown.
SettingsKept == SettingsSurvive /\ PreferencesKept

-----------------------------------------------------------------------------
(* Values of constants.                                                    *)

\* Every value of at most three characters that mean something to the parser.
Characters == {"n", "'", "\"", "\\", "#", " ", "\n"}
ShortValues == UNION {[1 .. n -> Characters] : n \in 0 .. 3}

\* Configurations with comments, a mark, entries that are none, entries that
\* are written twice, and values that end within a quotation.
Entry(k, mark, separated, t) ==
  [key |-> k, bom |-> mark, sep |-> separated, text |-> t]
HandWritten ==
  {<< >>,
   <<Entry("none", FALSE, FALSE, << >>),
     Entry("a", FALSE, TRUE, <<" ", "n", " ", "#", "n">>),
     Entry("b", FALSE, TRUE, <<"\"", "n", "\"", "n">>)>>,
   <<Entry("a", TRUE, TRUE, <<"n">>), Entry("b", FALSE, TRUE, <<"n", "#">>),
     Entry("a", FALSE, FALSE, << >>)>>,
   <<Entry("a", FALSE, TRUE, <<"n">>),
     Entry("b", FALSE, TRUE, <<"'", "n", "\\", "'", "'", ";">>),
     Entry("a", FALSE, TRUE, <<"\"", "n">>)>>}

\* Settings that meet: two that exclude or follow each other, or share a file.
SettingGroups ==
  {{"auto_save", "auto_load"}, {"frameskip", "adaptive_frameskip"},
   {"video_multithread_mode", "force_video_multithread"},
   {"analog_to_digital", "force_left_analog_stick"}, {"aspect_ratio"},
   {"audio_buffer", "audio_stable_buffer"}, {"mouse_speed_factor"},
   {"tate_mode", "video_filter"}, {"video_renderer", "video_shader"},
   {"ui_profile", "vsync"}, {"log_level", "core_log_level"},
   {"show_loading_screen", "audio_disabled"},
   {"swap_sticks", "loop_declared_fps"}}
TextsOf ==
  [s \in UNION SettingGroups |->
     CASE s \in DOMAIN Lists ->
            {Head(Lists[s][2]), "enabled", "disabled", "linear", "?"}
       [] s \in DOMAIN SavedLevels -> {"DEBUG", "?"}
       [] s = "aspect_ratio" -> {"2:1", "auto", "?"}
       [] s = "audio_buffer" -> {"256", "4096", "3000", "?"}
       [] s = "mouse_speed_factor" -> {"50", "10", "1", "0"}
       [] s = "frameskip" -> {"0", "3", "5", "9"}
       [] OTHER -> {"true", "off", "?"}]
Cmd(a, d, b) == [aspect |-> a, analog |-> d, bench |-> b]
NoCmd == Cmd(0, "", << >>)
CommandsFor(g) ==
  {NoCmd} \cup
  CASE "aspect_ratio" \in g -> {Cmd(750000, "none", << >>)}
    [] "analog_to_digital" \in g -> {Cmd(0, "right", << >>)}
    [] "auto_save" \in g -> {Cmd(0, "", << <<"fps_counter", TRUE>> >>)}
    [] "frameskip" \in g ->
         {Cmd(0, "", << <<"frameskip", 2>>, <<"adaptive_frameskip", TRUE>> >>)}
    [] OTHER -> {}
ProfilesFor(g) ==
  {<< >>} \cup
  CASE "frameskip" \in g ->
         {[frameskip |-> "2"], [adaptive_frameskip |-> "true"]}
    [] "audio_buffer" \in g ->
         {[audio_stable_buffer |-> "true", audio_buffer |-> "512"]}
    [] OTHER -> {}
SettingCases ==
  {[settings |-> g, commands |-> CommandsFor(g), profiles |-> ProfilesFor(g)] :
     g \in SettingGroups}
Nums == -1 .. 51 \cup {256, 512, 1024, 2048, 3000, 4096}

\* Panels upright and on their side, wider and narrower than the games; games
\* whose sizes grow, shrink and turn; cores the code makes an exception for.
PanelSizes ==
  [RG351P |-> <<320, 480>>, RG552 |-> <<1152, 1920>>, RG351V |-> <<640, 480>>,
   RG353 |-> <<640, 480>>, RG503 |-> <<960, 544>>]
WindowSizes == {<<1280, 720>>, <<640, 480>>, <<500, 900>>}
Setup(d, c, hw) == [handset |-> d, core |-> c, hardware |-> hw]
SomeSetups ==
  {Setup(d, "generic", d = "RG503") :
     d \in {"RG351P", "RG552", "RG351V", "RG503", "SDL"}} \cup
  {Setup("RG351P", "mgba", FALSE), Setup("RG552", "flycast", TRUE),
   Setup("RG353", "flycast", TRUE), Setup("RG503", "n64", TRUE),
   Setup("SDL", "dosbox", FALSE), Setup("RG351V", "ppsspp", TRUE),
   Setup("RG351P", "duckstation", FALSE),
   Setup("RG351V", "duckstation", FALSE)}
Size(b, m, r) == [base |-> b, max |-> m, ratio |-> r]
GeometriesOf ==
  [generic |-> {Size(<<256, 224>>, <<512, 448>>, <<4, 3>>),
                Size(<<320, 240>>, <<320, 240>>, <<0, 1>>),
                Size(<<224, 288>>, <<288, 288>>, <<3, 4>>),
                Size(<<256, 0>>, <<512, 448>>, <<4, 3>>),
                Size(<<256, 224>>, <<256, 0>>, <<4, 3>>),
                Size(<<640, 480>>, <<640, 480>>, <<16, 9>>)},
   mgba |-> {Size(<<240, 160>>, <<240, 160>>, <<3, 2>>)},
   flycast |-> {Size(<<640, 480>>, <<640, 640>>, <<4, 3>>),
                Size(<<480, 640>>, <<640, 640>>, <<3, 4>>)},
   n64 |-> {Size(<<640, 480>>, <<640, 480>>, <<4, 3>>)},
   dosbox |-> {Size(<<320, 200>>, <<320, 200>>, <<8, 5>>),
               Size(<<640, 480>>, <<640, 480>>, <<4, 3>>)},
   ppsspp |-> {Size(NoSize, NoSize, NoRatio),
               Size(<<480, 272>>, <<480, 272>>, <<16, 9>>)},
   duckstation |-> {Size(<<320, 240>>, <<700, 576>>, <<4, 3>>)}]
SomeRatios == {<<16, 9>>}

\* A core with an option for its size and another, which registers both, or
\* one in the older form and one that is malformed; profiles that lay over
\* nothing, the size, or both.
CoreOptions == {"size", "other"}
OptionTexts == {"320x240", "640x480", "1024x768"}
SizesOf ==
  [t \in OptionTexts |-> IF t = "1024x768" THEN "unknown" ELSE t]
RegistrationLists ==
  {<<Definition("size", "640x480", NoText),
     Definition("other", "320x240", NoText)>>,
   <<Definition("other", NoText, "1024x768"),
     Definition("size", NoText, NoText)>>}
LaidOver(t, u) == [k \in Keys |-> IF k = "size" THEN t ELSE u]
ProfileOverrides ==
  {LaidOver(NoText, NoText), LaidOver("640x480", NoText),
   LaidOver("1024x768", "320x240")}
TypeLists == {{}, {1, 257}, {513}}

=============================================================================
