-------------------------- MODULE CoreEnvironment --------------------------
(***************************************************************************)
(* What a core and the frontend agree on through core_environment          *)
(* (core/core_loader.cpp) between core_load and core_close: the options    *)
(* and their values (config/config.cpp, core/core_option_resolution.h),    *)
(* the pixel format and the renderer, with what video_configure and        *)
(* video_prepare_core_unload make of them (video/video.cpp), the           *)
(* performance counters, and the kind of controller (menu_setup.cpp).      *)
(*                                                                         *)
(* Each call is made by the core, at a time of its choosing between the    *)
(* phases of its life; the frontend remembers, and acts on what it         *)
(* remembers much later.  A core behaves as libretro.h asks: it settles    *)
(* the format and the renderer while it loads the game, gives up a         *)
(* renderer it was refused, and reads what it has registered anew.         *)
(*                                                                         *)
(* Left out: the calls that answer with a constant or a callback; the      *)
(* audio and video info, the disk control, the keyboard and the pace,      *)
(* which are AvUpdates', Achievements', SdlInput's and FramePacing's.      *)
(***************************************************************************)
EXTENDS Naturals, Sequences

CONSTANTS
  Keys,          \* core options
  SizeKey,       \* the one among them that chooses the core's picture size
  Texts,         \* values of options
  Registrations, \* lists of definitions a core may register
  Overrides,     \* what a profile may lay over the configuration
  Counters,      \* performance counters of the core
  MAX_COUNTERS,
  Descriptions,  \* lists of controller types a core may announce
  MaxType,       \* the greatest id of a type, UINT_MAX
  SizeOf,        \* the picture size a value stands for, or "unknown"
  NoText         \* no value

ASSUME EnvironmentAssumption ==
  /\ SizeKey \in Keys /\ NoText \notin Texts
  /\ MAX_COUNTERS \in Nat
  /\ MaxType \in Nat /\ Descriptions \subseteq SUBSET (0 .. MaxType)
  /\ SizeOf \in [Texts -> {"320x240", "640x480", "unknown"}]

VARIABLES
  build,        \* what the frontend was built for
  renderer,     \* sdlVideoRenderer
  envPc,        \* the phase of the core's life
  conf_map,     \* the configured values
  variables,    \* the default values the core registered
  updated,      \* coreVariablesUpdated
  coreSize,     \* resolution
  known,        \* the options as the core last read them
  color_format, \* of the core's picture
  hwRequest,    \* isOpenGL, the version and the hooks the frontend keeps
  granted,      \* the renderer the core believes it was given
  target,       \* context3D or surface
  called,       \* the hooks of the core that were called
  counters,     \* perf_counters
  controllerMap, deviceTypeSelected,
  offered,      \* the types the menu has names for
  port,         \* the type of controller the core was told of
  turned        \* whether the player has changed it

choiceOfBuild == <<build, renderer>>
coreOptionVars == <<conf_map, variables, updated, coreSize, known>>
renderVars == <<color_format, hwRequest, granted, target, called>>
counterMapVars == counters
deviceVars ==
  <<controllerMap, deviceTypeSelected, offered, port, turned>>
envVars == <<choiceOfBuild, envPc, coreOptionVars, renderVars,
             counterMapVars, deviceVars>>

Unread == "unread"
NoFormat == "none"
NoRequest == [type |-> "none", hooks |-> 0]
NoTarget == [kind |-> "none"]
Joypad == 1
AtariJoystick == 257
Untold == 0

EnvInit ==
  /\ \/ build = "go2" /\ renderer = "auto"
     \/ build \in {"gles", "gl"}
        /\ renderer \in {"auto", "software", "vulkan"}
  /\ envPc = "init"
  /\ conf_map \in [Keys -> Texts \cup {NoText}]
  /\ variables = [k \in Keys |-> NoText] /\ updated = FALSE
  /\ coreSize = "unknown" /\ known = [k \in Keys |-> Unread]
  /\ color_format = NoFormat /\ hwRequest = NoRequest /\ granted = NoRequest
  /\ target = NoTarget /\ called = << >> /\ counters = << >>
  /\ controllerMap = {} /\ deviceTypeSelected = Joypad /\ offered = {}
  /\ port = Untold /\ turned = FALSE

CoreLives == envPc \in {"init", "load", "configure", "running"}

-----------------------------------------------------------------------------
(* Options.                                                                *)

\* A definition: an option with its default, or the first of its values.  The
\* older form, a text, names values only, or is malformed and names none.
Definition(k, default, first) ==
  [key |-> k, default_value |-> default, first |-> first]
DefaultOf(d) == IF d.default_value # NoText THEN d.default_value ELSE d.first

\* registerCoreOptions: a definition without a default is ignored, and leaves
\* what there was.  Mutant: it is not ignored.
RegisteredAll(list) ==
  [k \in Keys |->
     LET of == {i \in DOMAIN list : list[i].key = k}
     IN IF of = {} THEN variables[k]
        ELSE DefaultOf(list[CHOOSE i \in of : \A j \in of : j <= i])]
registerCoreOptions(list) ==
  [k \in Keys |->
     LET of == {i \in DOMAIN list :
                  list[i].key = k /\ DefaultOf(list[i]) # NoText}
     IN IF of = {} THEN variables[k]
        ELSE DefaultOf(list[CHOOSE i \in of : \A j \in of : j <= i])]

\* SET_CORE_OPTIONS, SET_CORE_OPTIONS_INTL and SET_VARIABLES.
SetCoreOptions ==
  /\ CoreLives /\ \E list \in Registrations :
       /\ variables' = registerCoreOptions(list)
       /\ known' = [k \in Keys |->
                      IF \E i \in DOMAIN list : list[i].key = k THEN Unread
                      ELSE known[k]]
  /\ UNCHANGED <<choiceOfBuild, envPc, conf_map, updated, coreSize,
                 renderVars, counterMapVars, deviceVars>>

\* GET_VARIABLE: a configured value before a registered one.
Value(k) == IF conf_map[k] # NoText THEN conf_map[k] ELSE variables[k]

\* updateResolutionFromCoreOption, of a configured value.
SizeAfterRead(ks) ==
  LET size == IF SizeKey \in ks /\ conf_map[SizeKey] # NoText
              THEN SizeOf[conf_map[SizeKey]] ELSE "unknown"
  IN IF size = "unknown" THEN coreSize ELSE size

ReadOptions(ks) ==
  /\ known' = [k \in Keys |-> IF k \in ks THEN Value(k) ELSE known[k]]
  /\ coreSize' = SizeAfterRead(ks)

GetVariable ==
  /\ CoreLives /\ \E k \in Keys : ReadOptions({k})
  /\ UNCHANGED <<choiceOfBuild, envPc, conf_map, variables, updated,
                 renderVars, counterMapVars, deviceVars>>

\* GET_VARIABLE_UPDATE, which consumes what it tells; a core that is told
\* reads again what it has read.
GetVariableUpdate ==
  /\ envPc = "running" /\ updated /\ updated' = FALSE
  /\ ReadOptions({k \in Keys : known[k] # Unread})
  /\ UNCHANGED <<choiceOfBuild, envPc, conf_map, variables, renderVars,
                 counterMapVars, deviceVars>>

OptionCalls == SetCoreOptions \/ GetVariable \/ GetVariableUpdate

\* applyTransientConfigOverrides.  Mutant: only a value that was there before
\* counts as changed.
Overlaid(over) ==
  [k \in Keys |-> IF over[k] # NoText THEN over[k] ELSE conf_map[k]]
ChangedOnly(over) ==
  \E k \in Keys : conf_map[k] # NoText /\ Overlaid(over)[k] # conf_map[k]
Changes(over) == \E k \in Keys : Overlaid(over)[k] # conf_map[k]

-----------------------------------------------------------------------------
(* The format and the renderer.                                            *)

Formats == {"RGBA5551", "RGB565", "XRGB8888"}

\* SET_PIXEL_FORMAT: a format it does not know changes nothing.
SetPixelFormat(f) ==
  /\ envPc = "load" /\ f \in Formats /\ color_format' = f
  /\ UNCHANGED <<choiceOfBuild, envPc, coreOptionVars, hwRequest, granted,
                 target, called, counterMapVars, deviceVars>>

\* The kinds of context a core may ask for.
ContextTypes ==
  {"opengl", "opengl_core", "opengles2", "opengles3", "opengles_version",
   "vulkan"}

\* GET_PREFERRED_HW_RENDER.
preferred ==
  CASE build = "go2" -> "opengles3"
    [] build # "go2" /\ renderer = "software" -> "none"
    [] build # "go2" /\ renderer = "vulkan" -> "vulkan"
    [] build = "gles" /\ renderer = "auto" -> "opengles3"
    [] build = "gl" /\ renderer = "auto" -> "opengl_core"

Provided(type) ==
  /\ build = "go2" \/ renderer = "auto"
  /\ IF build = "gl" THEN type \in {"opengl", "opengl_core"}
     ELSE type \in {"opengles2", "opengles3", "opengles_version"}

\* SET_HW_RENDER.  A core that is refused draws by itself or asks for another
\* kind.  Mutant: the request is kept before it is judged.
KeptUnjudged(request) == request
Judged(request) == IF Provided(request.type) THEN request ELSE hwRequest
SetHwRender ==
  /\ envPc = "load" /\ granted = NoRequest
  /\ \E type \in ContextTypes, hooks \in {1, 2} :
       LET request == [type |-> type, hooks |-> hooks]
       IN /\ hwRequest' = Judged(request)
          /\ granted' = IF Provided(type) THEN request ELSE granted
  /\ UNCHANGED <<choiceOfBuild, envPc, coreOptionVars, color_format, target,
                 called, counterMapVars, deviceVars>>

RenderCalls == SetHwRender \/ \E f \in Formats : SetPixelFormat(f)

\* A surface: the 5551 format, which the display has not, is drawn as 565.
SurfaceFormat == IF color_format = "RGBA5551" THEN "RGB565" ELSE color_format
MadeTarget ==
  IF hwRequest # NoRequest
  THEN [kind |-> "context"]
  ELSE [kind |-> "surface", format |-> SurfaceFormat]

-----------------------------------------------------------------------------
(* Performance counters and controllers.                                   *)

\* runloop_performance_counter_register, with the flag the core's own counter
\* carries; the log names each.
Register(c) ==
  /\ CoreLives /\ c \in Counters
  /\ counters' =
       IF (\E i \in DOMAIN counters : counters[i] = c)
            \/ Len(counters) >= MAX_COUNTERS
       THEN counters ELSE Append(counters, c)
  /\ UNCHANGED <<choiceOfBuild, envPc, coreOptionVars, renderVars,
                 deviceVars>>

\* SET_CONTROLLER_INFO: the types of the first port that have a name.
SetControllerInfo ==
  /\ CoreLives /\ \E types \in Descriptions :
       controllerMap' = controllerMap \cup types
  /\ UNCHANGED <<choiceOfBuild, envPc, coreOptionVars, renderVars,
                 counterMapVars, deviceTypeSelected, offered, port, turned>>

\* The next of the map's types, around its ends, or the one before.
NextType(t) ==
  LET above == {u \in controllerMap : u > t}
      least(s) == CHOOSE u \in s : \A v \in s : u <= v
  IN IF above # {} THEN least(above) ELSE least(controllerMap)
PreviousType(t) ==
  LET below == {u \in controllerMap : u < t}
      most(s) == CHOOSE u \in s : \A v \in s : u >= v
  IN IF below # {} THEN most(below) ELSE most(controllerMap)

\* setDeviceType.  A type the core did not announce is the player's for good.
setDeviceType ==
  /\ envPc = "running" /\ turned' = TRUE
  /\ deviceTypeSelected' \in
       IF deviceTypeSelected \in controllerMap
       THEN {NextType(deviceTypeSelected), PreviousType(deviceTypeSelected)}
       ELSE {deviceTypeSelected}
  /\ port' = deviceTypeSelected'
  /\ UNCHANGED <<choiceOfBuild, envPc, coreOptionVars, renderVars,
                 counterMapVars, controllerMap, offered>>

DeviceCalls ==
  SetControllerInfo \/ setDeviceType \/ \E c \in Counters : Register(c)

-----------------------------------------------------------------------------
(* The phases of a core's life.                                            *)

\* The end of core_load, which knows Atari's joystick by the core's name, and
\* applyFlycastGameCatalog.
EndInit ==
  /\ envPc = "init" /\ envPc' = "load"
  /\ port' \in {Untold, AtariJoystick}
  /\ \E over \in Overrides :
       conf_map' = Overlaid(over) /\ updated' = (updated \/ Changes(over))
  /\ UNCHANGED <<choiceOfBuild, variables, coreSize, known, renderVars,
                 counterMapVars, controllerMap, deviceTypeSelected, offered,
                 turned>>

\* core_load_game, from the core's answer to its audio and video info.
EndLoad ==
  /\ envPc = "load" /\ envPc' = "configure"
  /\ UNCHANGED <<choiceOfBuild, coreOptionVars, renderVars, counterMapVars,
                 deviceVars>>

\* video_configure, and the menu, made once with the types there are.  A core
\* that settled no format has no surface, and a context may not be had: the
\* process ends.
video_configure_core ==
  /\ envPc = "configure"
  /\ \/ /\ envPc' = "ended" /\ UNCHANGED <<target, called, offered>>
     \/ /\ hwRequest # NoRequest \/ color_format # NoFormat
        /\ envPc' = "running" /\ target' = MadeTarget
        /\ called' = IF hwRequest # NoRequest
                     THEN Append(called, <<"reset", hwRequest.hooks>>)
                     ELSE called
        /\ offered' = controllerMap
  /\ UNCHANGED <<choiceOfBuild, coreOptionVars, color_format, hwRequest,
                 granted, counterMapVars, controllerMap, deviceTypeSelected,
                 port, turned>>

\* video_prepare_core_unload, core_deinit and core_close.
EndCore ==
  /\ envPc = "running" /\ envPc' = "closed"
  /\ called' = IF target.kind = "context"
               THEN Append(called, <<"destroy", hwRequest.hooks>>)
               ELSE called
  /\ target' = NoTarget /\ granted' = NoRequest
  /\ hwRequest' = [hwRequest EXCEPT !.hooks = 0]
  /\ UNCHANGED <<choiceOfBuild, coreOptionVars, color_format, counterMapVars,
                 deviceVars>>

Phases == EndInit \/ EndLoad \/ video_configure_core \/ EndCore

EnvNext == OptionCalls \/ RenderCalls \/ DeviceCalls \/ Phases
EnvSpec == EnvInit /\ [][EnvNext]_envVars

-----------------------------------------------------------------------------
(* Properties.                                                             *)

\* An option a core has read has that value still, unless the frontend is
\* going to tell it of a change: the player's, else the profile's, else the
\* default the core registered last.  And the frontend makes pictures of the
\* size the core has read, if it is one of the two it knows.
OptionsCurrent ==
  \A k \in Keys :
    known[k] # Unread =>
      /\ updated \/ known[k] = Value(k)
      /\ k = SizeKey /\ ~updated /\ conf_map[k] # NoText
           => SizeOf[known[k]] \in {"unknown", coreSize}

\* Core and frontend agree on who draws, through refusals and new requests:
\* what was granted is what is kept, a refusal leaves nothing behind.  The game
\* then has the context, or a surface of the core's format, and the hooks of
\* the granted request are called once each, the context's end after its
\* start.  What the frontend says it prefers it grants, unless it prefers none
\* or what this build has not.
RendererHonoured ==
  /\ CoreLives => hwRequest = granted
  /\ envPc = "running" =>
       IF granted # NoRequest
       THEN /\ target.kind = "context"
            /\ called = << <<"reset", granted.hooks>> >>
       ELSE /\ called = << >> /\ target.kind = "surface"
            /\ target.format = color_format \/ color_format = "RGBA5551"
  /\ envPc = "closed" =>
       called = << >> \/ \E h \in {1, 2} :
                           called = << <<"reset", h>>, <<"destroy", h>> >>
  /\ preferred \in {"none", "vulkan"} \/ Provided(preferred)

\* What the player chose of the controller types is what the core was told
\* last, and a type it announced or the pad itself;
\* and no counter is logged twice, whatever a core registers again.
DevicesTold ==
  /\ turned => port = deviceTypeSelected
  /\ deviceTypeSelected \in controllerMap \cup {Joypad}
  /\ \A i, j \in DOMAIN counters : counters[i] = counters[j] => i = j

\* What a core and the frontend agreed on is what each goes on with.
EnvironmentHonoured == OptionsCurrent /\ RendererHonoured /\ DevicesTold
=============================================================================
