---------------------------- MODULE Preferences ----------------------------
(***************************************************************************)
(* What the settings are: initConfig reads them from the configuration,    *)
(* the command line, a game's profile (applyTransientConfigOverrides) and  *)
(* a benchmark's settings come on top, the menu shows and changes them     *)
(* (menu_setup.cpp) and saves each change with one or two calls of         *)
(* persistConfigSetting, any of which may fail.  A setting is named        *)
(* without its "retrorun_"; how a file is written is in ConfigFile.        *)
(* Left out: the hotkey of the fps counter and the decoration that forces  *)
(* pixel perfect, which save nothing, and the core with a ratio of its own.*)
(***************************************************************************)
EXTENDS Integers, Sequences, FiniteSets

LOCAL INSTANCE TLC
LOCAL INSTANCE SequencesExt
LOCAL INSTANCE FiniteSetsExt

CONSTANTS Cases,        \* [settings, commands, profiles]: settings to look
                        \* at, command lines and profiles that may give them
          WrittenTexts, \* what a file may say of a setting
          Numbers,      \* the integers that texts of settings stand for
          MaxPresses,   \* bound: changes in the menu
          MaxStarts     \* bound: starts of the program

ASSUME PreferencesAssumption ==
  /\ \A c \in Cases : c.settings \subseteq DOMAIN WrittenTexts
  /\ MaxPresses \in Nat /\ MaxStarts \in Nat /\ Numbers \subseteq Int

VARIABLES
  watched,   \* the case
  readable,  \* there is a configuration file
  prefFile,  \* what it says: a function from settings to texts
  prefMap,   \* conf_map
  pref,      \* the variables of the settings
  prefPc,    \* "off" or "running"
  command,   \* the command line of this start
  profile,   \* what the game's profile gives
  presses, starts, \* bounds
  expected   \* history: what the menu should show after a restart

prefVars == <<watched, readable, prefFile, prefMap, pref, prefPc, command,
              profile, presses, starts, expected>>

-----------------------------------------------------------------------------
(* Reading a setting.                                                      *)

Truths == {"true", "enabled", "yes", "on", "1"}
Untruths == {"false", "disabled", "no", "off", "0"}

configValueIsTrue(m, s, fallback) ==
  CASE s \in DOMAIN m /\ m[s] \in Truths -> TRUE
    [] s \in DOMAIN m /\ m[s] \in Untruths -> FALSE
    [] OTHER -> fallback

configValueInteger(m, s, fallback, low, high) ==
  LET meant == {n \in Numbers : /\ s \in DOMAIN m /\ m[s] = ToString(n)
                                /\ low <= n /\ n <= high}
  IN IF meant = {} THEN fallback ELSE CHOOSE n \in meant : TRUE

\* The value a text names, or else the fallback.
Named(m, s, meanings, fallback) ==
  IF s \in DOMAIN m /\ m[s] \in DOMAIN meanings THEN meanings[m[s]]
  ELSE fallback

TateModeTexts ==
  [enabled |-> "ENABLED", disabled |-> "DISABLED", reversed |-> "REVERSED",
   reverted |-> "REVERSED", auto |-> "AUTO"]
AnalogTexts ==
  [none |-> "NONE", disabled |-> "NONE", left |-> "LEFT_ANALOG",
   right |-> "RIGHT_ANALOG", left_forced |-> "LEFT_ANALOG_FORCED",
   right_forced |-> "RIGHT_ANALOG_FORCED"]
RendererTexts ==
  [auto |-> "Auto", software |-> "Software", opengl |-> "OpenGL",
   vulkan |-> "Vulkan"]
FilterTexts ==
  [nearest |-> "NEAREST", linear |-> "LINEAR", off |-> "DEFAULT",
   default |-> "DEFAULT"]
ShaderTexts ==
  [scanlines |-> "SCANLINES", crt |-> "CRT", off |-> "OFF", none |-> "OFF"]
UIProfileTexts ==
  [auto |-> "Auto", handheld |-> "Handheld", desktop |-> "Desktop"]
ThreadTexts ==
  [auto |-> "Auto", enabled |-> "Enabled", on |-> "Enabled",
   true |-> "Enabled", disabled |-> "Disabled", off |-> "Disabled",
   false |-> "Disabled"]

\* An aspect ratio in millionths; 0 is the core's.
AspectTexts ==
  [a \in {"2:1", "4:3", "5:4", "16:9", "16:10", "1:1", "3:2", "auto"} |->
     CASE a = "2:1" -> 2000000 [] a = "4:3" -> 1333333
       [] a = "5:4" -> 1250000 [] a = "16:9" -> 1777777
       [] a = "16:10" -> 1600000 [] a = "1:1" -> 1000000
       [] a = "3:2" -> 1500000 [] a = "auto" -> 0]
getAspectRatio(text) ==
  IF text \in DOMAIN AspectTexts THEN AspectTexts[text] ELSE 0

-----------------------------------------------------------------------------
(* initConfig.                                                             *)

\* The variables before it.
Initially ==
  [auto_save |-> FALSE, auto_load |-> FALSE, fps_counter |-> FALSE,
   video_renderer |-> "Auto", vsync |-> FALSE, video_filter |-> "DEFAULT",
   video_shader |-> "OFF", aspect_ratio |-> 0,
   analog_to_digital |-> "LEFT_ANALOG_FORCED", loop_declared_fps |-> TRUE,
   swap_l1r1_with_l2r2 |-> FALSE, swap_sticks |-> FALSE,
   audio_buffer |-> -1, mouse_speed_factor |-> 5, tate_mode |-> "DISABLED",
   disable_rumble |-> FALSE, alternative_input_mode |-> FALSE,
   audio_stable_buffer |-> FALSE, force_audio_multithread |-> FALSE,
   force_video_multithread |-> FALSE, video_multithread_mode |-> "Auto",
   drm_direct_scanout |-> FALSE, adaptive_frameskip |-> FALSE,
   frameskip |-> 0, enable_key_log |-> FALSE, ui_profile |-> "Auto",
   pixel_perfect |-> FALSE, audio_disabled |-> FALSE]

ReadScreen(m) ==
  [fps_counter |-> configValueIsTrue(m, "fps_counter", FALSE),
   video_renderer |-> Named(m, "video_renderer", RendererTexts, "Auto"),
   vsync |-> configValueIsTrue(m, "vsync", FALSE),
   video_filter |-> Named(m, "video_filter", FilterTexts, "DEFAULT"),
   video_shader |-> Named(m, "video_shader", ShaderTexts, "OFF")]

\* An aspect ratio of the command line comes before the configuration's.
ReadAspect(m, given) ==
  [aspect_ratio |->
     IF given # 0 THEN given
     ELSE Named(m, "aspect_ratio", AspectTexts, 0)]

ReadSaves(m) ==
  LET saves == configValueIsTrue(m, "auto_save", FALSE)
  IN [auto_save |-> saves,
      auto_load |-> configValueIsTrue(m, "auto_load", saves)]

\* The setting it replaced counts only without it.
ReadAnalog(m) ==
  [analog_to_digital |->
     IF "analog_to_digital" \notin DOMAIN m
          /\ "force_left_analog_stick" \in DOMAIN m
          /\ ~configValueIsTrue(m, "force_left_analog_stick", FALSE)
     THEN "NONE"
     ELSE Named(m, "analog_to_digital", AnalogTexts, "LEFT_ANALOG_FORCED")]

ReadControls(m) ==
  [loop_declared_fps |-> configValueIsTrue(m, "loop_declared_fps", TRUE),
   swap_l1r1_with_l2r2 |-> configValueIsTrue(m, "swap_l1r1_with_l2r2", FALSE),
   swap_sticks |-> configValueIsTrue(m, "swap_sticks", FALSE)]

ReadSound(m) ==
  [audio_buffer |-> configValueInteger(m, "audio_buffer", -1, -1, 65536),
   audio_stable_buffer |->
     configValueIsTrue(m, "audio_stable_buffer", FALSE),
   force_audio_multithread |->
     configValueIsTrue(m, "force_audio_multithread", FALSE)]

ReadPlayer(m) ==
  [mouse_speed_factor |->
     configValueInteger(m, "mouse_speed_factor", 5, 1, 100),
   tate_mode |-> Named(m, "tate_mode", TateModeTexts, "DISABLED"),
   disable_rumble |-> configValueIsTrue(m, "disable_rumble", FALSE),
   alternative_input_mode |->
     configValueIsTrue(m, "alternative_input_mode", FALSE)]

ReadThreads(m) ==
  [force_video_multithread |->
     configValueIsTrue(m, "force_video_multithread", FALSE),
   video_multithread_mode |->
     Named(m, "video_multithread_mode", ThreadTexts, "Auto"),
   drm_direct_scanout |-> configValueIsTrue(m, "drm_direct_scanout", FALSE)]

\* A fixed frame skip comes before an adaptive one.
ReadSkips(m) ==
  LET skip == configValueInteger(m, "frameskip", 0, 0, 5)
  IN [frameskip |-> skip,
      adaptive_frameskip |->
        skip = 0 /\ configValueIsTrue(m, "adaptive_frameskip", FALSE)]

ReadRest(m) ==
  [enable_key_log |-> configValueIsTrue(m, "enable_key_log", FALSE),
   ui_profile |-> Named(m, "ui_profile", UIProfileTexts, "Auto"),
   pixel_perfect |-> configValueIsTrue(m, "pixel_perfect", FALSE)]

\* Without a file nothing is read.
initConfig(m, given) ==
  IF ~readable THEN ReadAspect(<< >>, given) @@ Initially
  ELSE ReadScreen(m) @@ ReadAspect(m, given) @@ ReadSaves(m)
         @@ ReadAnalog(m) @@ ReadControls(m) @@ ReadSound(m)
         @@ ReadPlayer(m) @@ ReadThreads(m) @@ ReadSkips(m) @@ ReadRest(m)
         @@ Initially

-----------------------------------------------------------------------------
(* What comes on top of it.                                                *)

Exclusive(p) ==
  IF p.frameskip > 0 THEN [p EXCEPT !.adaptive_frameskip = FALSE] ELSE p

\* applyTransientConfigOverrides: m has the overrides o already, and only some
\* settings are read again.
Reread == {"loop_declared_fps", "audio_stable_buffer",
           "force_audio_multithread", "force_video_multithread",
           "drm_direct_scanout", "adaptive_frameskip"}
applyTransientConfigOverrides(p, m, o) ==
  Exclusive(
    [s \in DOMAIN p |->
       CASE s \in DOMAIN o /\ s \in Reread ->
              configValueIsTrue(m, s, s # "drm_direct_scanout" /\ p[s])
         [] s \in DOMAIN o /\ s = "video_multithread_mode" ->
              Named(m, s, ThreadTexts, p[s])
         [] s \in DOMAIN o /\ s = "frameskip" ->
              configValueInteger(m, s, p[s], 0, 5)
         [] s \in DOMAIN o /\ s = "audio_buffer" ->
              configValueInteger(m, s, p[s], -1, 65536)
         [] OTHER -> p[s]])

\* applyBenchmarkSetting for each that is given; the last one wins.
applyBenchmarkSetting(p, b) ==
  CASE b[1] = "frameskip" -> Exclusive([p EXCEPT !.frameskip = b[2]])
    [] b = <<"adaptive_frameskip", TRUE>> ->
         [p EXCEPT !.adaptive_frameskip = TRUE, !.frameskip = 0]
    [] OTHER -> [p EXCEPT ![b[1]] = b[2]]
Benched(p, c) == FoldLeft(applyBenchmarkSetting, p, c.bench)

\* In a benchmark nothing is saved at the end.
AfterCommand(p, c) ==
  LET q == IF c.bench = << >> THEN p
           ELSE Benched([p EXCEPT !.auto_save = FALSE], c)
  IN IF c.analog = "" THEN q
     ELSE [q EXCEPT !.analog_to_digital = AnalogTexts[c.analog]]

-----------------------------------------------------------------------------
(* What the menu shows.                                                    *)

Tates == <<"DISABLED", "ENABLED", "REVERSED", "AUTO">>
Analogs == <<"NONE", "LEFT_ANALOG", "RIGHT_ANALOG", "LEFT_ANALOG_FORCED",
             "RIGHT_ANALOG_FORCED">>
AnalogNames == <<"none", "left", "right", "left_forced", "right_forced">>
Renderers == <<"Auto", "Software", "OpenGL", "Vulkan">>
Filters == <<"DEFAULT", "NEAREST", "LINEAR">>
Shaders == <<"OFF", "SCANLINES", "CRT">>
UIProfiles == <<"Auto", "Handheld", "Desktop">>
ThreadModes == <<"Auto", "Disabled", "Enabled">>
Levels == <<"DEBUG", "INFO", "WARNING", "ERROR">>
AspectNames == <<"2:1", "4:3", "5:4", "16:9", "16:10", "1:1", "3:2", "auto">>
Buffers == <<-1, 256, 512, 1024, 2048, 4096>>

TateNames == <<"disabled", "enabled", "reversed", "auto">>
RendererNames == <<"auto", "software", "opengl", "vulkan">>
FilterNames == <<"off", "nearest", "linear">>
ShaderNames == <<"off", "scanlines", "crt">>
UIProfileNames == <<"auto", "handheld", "desktop">>
ThreadNamesSwapped == <<"auto", "enabled", "disabled">>
ThreadNames == <<"auto", "disabled", "enabled">>

\* The enumerations of the menu, with the texts that are saved of them.
Lists ==
  [tate_mode |-> <<Tates, TateNames>>,
   analog_to_digital |-> <<Analogs, AnalogNames>>,
   video_renderer |-> <<Renderers, RendererNames>>,
   video_filter |-> <<Filters, FilterNames>>,
   video_shader |-> <<Shaders, ShaderNames>>,
   ui_profile |-> <<UIProfiles, UIProfileNames>>,
   video_multithread_mode |-> <<ThreadModes, ThreadNames>>]

\* Switches whose variable is looked at no more once the core runs: the menu
\* shows and changes what is saved of them.
SavedSwitches ==
  [show_loading_screen |-> TRUE, audio_stable_buffer |-> FALSE,
   force_audio_multithread |-> FALSE, achievements_unofficial |-> FALSE,
   achievements_encore |-> FALSE, log_to_file |-> FALSE]
SavedLevels == [log_level |-> 2, core_log_level |-> 4]

Abs(n) == IF n < 0 THEN -n ELSE n

\* getClosestValue: a name of the ratios that is not "auto" (the second 4:3 of
\* the table is not kept), the greater ratio losing a tie.
getClosestValue(value) ==
  LET rank(i) == <<Abs(AspectTexts[AspectNames[i]] - value),
                   AspectTexts[AspectNames[i]]>>
  IN IF value = 0 THEN 8
     ELSE CHOOSE i \in 1 .. 7 : \A j \in 1 .. 7 :
            \/ rank(i)[1] < rank(j)[1]
            \/ rank(i)[1] = rank(j)[1] /\ rank(i)[2] <= rank(j)[2]

logLevelIndex(m, s) ==
  IF s \in DOMAIN m /\ Contains(Levels, m[s])
  THEN CHOOSE i \in DOMAIN Levels : Levels[i] = m[s] ELSE SavedLevels[s]

ShownOf(p, m, s) ==
  CASE s \in DOMAIN SavedSwitches ->
         configValueIsTrue(m, s, SavedSwitches[s])
    [] s \in DOMAIN SavedLevels -> logLevelIndex(m, s)
    [] s = "aspect_ratio" -> getClosestValue(p[s])
    [] OTHER -> p[s]

-----------------------------------------------------------------------------
(* What a press of left or right does: the variables after it, and the     *)
(* settings it saves in their order.                                       *)

Texted(b) == IF b THEN "true" ELSE "false"
Around(i, n, by) == ((i - 1 + by + n) % n) + 1

LiveSwitches ==
  {"swap_l1r1_with_l2r2", "swap_sticks", "loop_declared_fps", "auto_save",
   "auto_load", "fps_counter", "alternative_input_mode", "vsync",
   "pixel_perfect", "disable_rumble", "enable_key_log",
   "drm_direct_scanout"}

PressSwitch(s) ==
  [values |-> [pref EXCEPT ![s] = ~@], saves |-> << <<s, Texted(~pref[s])>> >>]

PressSavedSwitch(s) ==
  [values |-> pref,
   saves |->
     << <<s, Texted(~configValueIsTrue(prefMap, s, SavedSwitches[s]))>> >>]

PressLevel(s, by) ==
  [values |-> pref,
   saves |-> << <<s, Levels[Around(logLevelIndex(prefMap, s), 4, by)]>> >>]

PressList(s, by) ==
  LET values == Lists[s][1]
      i == CHOOSE j \in DOMAIN values : values[j] = pref[s]
      j == Around(i, Len(values), by)
  IN [values |-> [pref EXCEPT ![s] = values[j]],
      saves |-> << <<s, Lists[s][2][j]>> >>]

\* Once the selector is used, the setting it replaced is gone.
PressThreads(by) ==
  LET p == PressList("video_multithread_mode", by)
  IN [values |-> [p.values EXCEPT !.force_video_multithread = FALSE],
      saves |-> << <<"force_video_multithread", "false">> >> \o p.saves]

PressAspect(by) ==
  LET i == Around(getClosestValue(pref.aspect_ratio), 8, by)
  IN [values |-> [pref EXCEPT !.aspect_ratio = getAspectRatio(AspectNames[i])],
      saves |-> << <<"aspect_ratio", AspectNames[i]>> >>]

PressMouse(by) ==
  LET now == pref.mouse_speed_factor
      n == IF by < 0 THEN IF now <= 1 THEN 10 ELSE now - 1
           ELSE IF now >= 10 THEN 1 ELSE now + 1
  IN [values |-> [pref EXCEPT !.mouse_speed_factor = n],
      saves |-> << <<"mouse_speed_factor", ToString(n)>> >>]

\* A size that is none of the menu's stands before the first one.
PressBuffer(by) ==
  LET at == {i \in DOMAIN Buffers : Buffers[i] = pref.audio_buffer}
      i == Around(IF at = {} THEN 0 ELSE CHOOSE j \in at : TRUE, 6, by)
  IN [values |-> [pref EXCEPT !.audio_buffer = Buffers[i]],
      saves |-> << <<"audio_buffer", ToString(Buffers[i])>> >>]

PressAdaptive ==
  LET on == ~pref.adaptive_frameskip
      resets == on /\ pref.frameskip > 0
  IN [values |-> [pref EXCEPT !.adaptive_frameskip = on,
                              !.frameskip = IF resets THEN 0 ELSE @],
      saves |-> (IF resets THEN << <<"frameskip", "0">> >> ELSE << >>)
                  \o << <<"adaptive_frameskip", Texted(on)>> >>]

PressFixed(by) ==
  LET n == (pref.frameskip + 6 + by) % 6
      resets == n > 0 /\ pref.adaptive_frameskip
  IN [values |-> [pref EXCEPT !.frameskip = n,
                              !.adaptive_frameskip = @ /\ ~resets],
      saves |-> (IF resets THEN << <<"adaptive_frameskip", "false">> >>
                 ELSE << >>)
                  \o << <<"frameskip", ToString(n)>> >>]

Pressed(s, by) ==
  CASE s \in LiveSwitches -> PressSwitch(s)
    [] s \in DOMAIN SavedSwitches -> PressSavedSwitch(s)
    [] s \in DOMAIN SavedLevels -> PressLevel(s, by)
    [] s = "video_multithread_mode" -> PressThreads(by)
    [] s \in DOMAIN Lists \ {"video_multithread_mode"} -> PressList(s, by)
    [] s = "aspect_ratio" -> PressAspect(by)
    [] s = "mouse_speed_factor" -> PressMouse(by)
    [] s = "audio_buffer" -> PressBuffer(by)
    [] s = "adaptive_frameskip" -> PressAdaptive
    [] s = "frameskip" -> PressFixed(by)
    [] s = "audio_disabled" ->
         [values |-> [pref EXCEPT ![s] = ~@], saves |-> << >>]

InMenu ==
  LiveSwitches \cup DOMAIN SavedSwitches \cup DOMAIN SavedLevels
    \cup DOMAIN Lists
    \cup {"aspect_ratio", "mouse_speed_factor", "audio_buffer",
          "adaptive_frameskip", "frameskip", "audio_disabled"}
Kept == InMenu \cup {"force_video_multithread"}

-----------------------------------------------------------------------------
(* The program.                                                            *)

\* What this start does not take from the configuration: what the profile or
\* the command line gives, and what they switch off with it.
GivenBesides(c) ==
  LET given == DOMAIN profile \cup {b[1] : b \in ToSet(c.bench)}
  IN given
       \cup (IF given \cap {"frameskip", "adaptive_frameskip"} # {}
             THEN {"frameskip", "adaptive_frameskip"} ELSE {})
       \cup (IF c.aspect # 0 THEN {"aspect_ratio"} ELSE {})
       \cup (IF c.analog # "" THEN {"analog_to_digital"} ELSE {})
       \cup (IF c.bench # << >> THEN {"auto_save"} ELSE {})

\* A setting nobody saves, auto_load while it follows auto_save, and an
\* adaptive skip that only a fixed one of the file switches off.
NotKept(m) ==
  {"audio_disabled"}
    \cup (IF /\ "auto_load" \in DOMAIN m
             /\ m["auto_load"] \in Truths \cup Untruths
          THEN {} ELSE {"auto_load"})
    \cup (IF /\ configValueIsTrue(m, "adaptive_frameskip", FALSE)
             /\ ReadSkips(m).frameskip > 0
          THEN {"adaptive_frameskip"} ELSE {})

NoCommand == [aspect |-> 0, analog |-> "", bench |-> << >>]

PrefInit ==
  /\ watched \in Cases /\ profile \in watched.profiles /\ readable \in BOOLEAN
  /\ prefFile \in UNION {[d -> UNION {WrittenTexts[s] : s \in d}] :
                           d \in {d \in SUBSET watched.settings :
                                    readable \/ d = {}}}
  /\ \A s \in DOMAIN prefFile : prefFile[s] \in WrittenTexts[s]
  /\ prefMap = << >> /\ pref = Initially /\ prefPc = "off"
  /\ command = NoCommand /\ presses = 0 /\ starts = 0 /\ expected = << >>

\* retrorun_main: the configuration, the command line, the profile, and once
\* more the settings of the benchmark.
Start ==
  /\ prefPc = "off" /\ starts < MaxStarts /\ starts' = starts + 1
  /\ prefPc' = "running"
  /\ \E c \in watched.commands :
       /\ command' = c
       /\ prefMap' = profile @@ prefFile
       /\ pref' = Benched(applyTransientConfigOverrides(
                            AfterCommand(initConfig(prefFile, c.aspect), c),
                            prefMap', profile), c)
  /\ expected' =
       LET new == (watched.settings \cap Kept)
                    \ (GivenBesides(command') \cup NotKept(prefFile))
       IN expected @@ [s \in new |-> ShownOf(pref', prefMap', s)]
  /\ UNCHANGED <<watched, readable, prefFile, profile, presses>>

SavedBy(m, saves) == FoldLeft(LAMBDA f, e : (e[1] :> e[2]) @@ f, m, saves)

\* A press, of which each save may fail; the power may go in the middle.
PressSetting ==
  /\ prefPc = "running" /\ presses < MaxPresses /\ presses' = presses + 1
  /\ \E s \in watched.settings \cap InMenu, by \in {-1, 1} :
       LET p == Pressed(s, by)
           n == Len(p.saves)
       IN \E done \in SUBSET (1 .. n), reached \in 0 .. n :
            LET saved == SelectSeq([i \in 1 .. n |->
                           IF i \in done THEN p.saves[i] ELSE << >>],
                           LAMBDA e : e # << >>)
                all == {p.saves[i][1] : i \in 1 .. n}
                kept == IF done # 1 .. n THEN {}
                        ELSE (all \cap Kept) \ NotKept(prefFile')
            IN /\ done \subseteq 1 .. reached /\ (done # {} => readable)
               /\ prefPc' = IF reached = n THEN "running" ELSE "off"
               /\ pref' = p.values
               /\ prefFile' = SavedBy(prefFile, saved)
               /\ prefMap' = SavedBy(prefMap, saved)
               /\ expected' =
                    [t \in (DOMAIN expected \ (all \cup NotKept(prefFile')))
                            \cup kept |->
                       IF t \in kept THEN ShownOf(pref', prefMap', t)
                       ELSE expected[t]]
  /\ UNCHANGED <<watched, readable, command, profile, starts>>

Stop ==
  /\ prefPc = "running" /\ prefPc' = "off" /\ starts < MaxStarts
  /\ UNCHANGED <<watched, readable, prefFile, prefMap, pref, command, profile,
                 presses, starts, expected>>

PrefNext == Start \/ PressSetting \/ Stop

PrefSpec == PrefInit /\ [][PrefNext]_prefVars

-----------------------------------------------------------------------------
(* Properties.                                                             *)

\* What the menu shows of a setting is what it showed before the restart, or
\* what the player last chose and was saved, but for what this start does not
\* take from the configuration.
ShownAsSaved ==
  prefPc = "running" =>
    \A s \in DOMAIN expected \ GivenBesides(command) :
      ShownOf(pref, prefMap, s) = expected[s]

\* Frames are skipped in one way at a time.
OneSkip == pref.frameskip > 0 => ~pref.adaptive_frameskip

PreferencesKept == ShownAsSaved /\ OneSkip
=============================================================================
