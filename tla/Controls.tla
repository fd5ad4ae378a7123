------------------------------ MODULE Controls ------------------------------
(***************************************************************************)
(* What the core reads of the gamepad: initButtons maps logical buttons to *)
(* those of the device, getInputUp ... getInputY turn them with the        *)
(* picture, core_input_state lets a stick stand for the directional pad,   *)
(* exchanges sticks and shoulder buttons, and for the N64 presses buttons  *)
(* for the right stick in the state of the gamepad itself (input.cpp).     *)
(* An axis is at one of its ends or in the middle.                         *)
(***************************************************************************)
EXTENDS Integers, Sequences, FiniteSets

CONSTANTS Remaps,     \* assignments of buttons (stringToGo2Button has read)
          Holds,      \* sets of physical buttons a poll may find
          Positions,  \* positions of the two sticks a poll may find
          MaxSettings \* bound: changes made in the menu

Directions == {"up", "down", "left", "right"}
Faces == {"a", "b", "x", "y"}
Shoulders == {"l1", "r1", "l2", "r2"}
Logical == Directions \cup Faces \cup Shoulders \cup
             {"l3", "r3", "select", "start"}

Physical == {"DPadUp", "DPadDown", "DPadLeft", "DPadRight", "A", "B", "X",
             "Y", "F1", "F2", "F3", "F4", "F5", "F6", "SELECT", "START",
             "TopLeft", "TopRight", "TriggerLeft", "TriggerRight", "THUMBL",
             "THUMBR", "MENU"}

Sticks == {"left", "right"}
Centred == [x |-> 0, y |-> 0]
Thumbs == [x : -1 .. 1, y : -1 .. 1]

ASSUME ControlsAssumption ==
  /\ Holds \subseteq SUBSET Physical
  /\ Positions \subseteq [Sticks -> Thumbs]
  /\ \A m \in Remaps : DOMAIN m \subseteq Logical
  /\ MaxSettings \in Nat

VARIABLES
  device,   \* the device and platform
  gpio,     \* gpio_joypad
  buttons,  \* upButton ... r3Button
  n64,      \* Retrorun_Core is RETRORUN_CORE_PARALLEL_N64
  tall,     \* a core of Flycast with an aspect_ratio below 1
  tateState, analogToDigital, swapSticks, swapShoulders,
  settings, \* bound
  now,      \* gamepadState: the buttons
  thumbs,   \* gamepadState: the sticks
  prev,     \* prevGamepadState: the buttons
  requested, \* coreAnalogRequested: the ports
  drove,    \* history: sticks the core has read in this frame, with the use
  found,    \* history: the buttons the last poll found
  before,   \* history: those the poll before found
  changing, \* history: requested or a setting has changed in this frame
  added     \* history: what the frame before added to the buttons

configVars == <<device, gpio, buttons, n64, tall>>
settingVars == <<tateState, analogToDigital, swapSticks, swapShoulders,
                 settings>>
pollVars == <<now, thumbs, prev, found, before, added>>
controlVars == <<configVars, settingVars, pollVars, requested, drove,
                 changing>>

-----------------------------------------------------------------------------
(* initButtons.                                                            *)

\* RG351V, RG351MP, one with an RK3566 in either of its layouts, the ARC-D,
\* the Miniloong; a standard gamepad of SDL.
Models == {"rg351v", "rg351mp", "rk3566", "gosuper", "arcd", "miniloong",
            "rg351v-sdl", "sdl"}

With(map, changes) ==
  [l \in Logical |-> IF l \in DOMAIN changes THEN changes[l] ELSE map[l]]

DefaultButtons ==
  [up |-> "DPadUp", down |-> "DPadDown", left |-> "DPadLeft",
   right |-> "DPadRight", a |-> "A", b |-> "B", x |-> "X", y |-> "Y",
   select |-> "F1", start |-> "F6", l1 |-> "TopLeft", r1 |-> "TopRight",
   l2 |-> "F4", r2 |-> "F3", l3 |-> "F2", r3 |-> "F5"]

GpioButtons ==
  [start |-> "F2", l2 |-> "TriggerLeft", r2 |-> "TriggerRight", l3 |-> "F3",
   r3 |-> "F4"]
StandardButtons ==
  [l2 |-> "TriggerLeft", r2 |-> "TriggerRight", select |-> "SELECT",
   start |-> "START", l3 |-> "THUMBL", r3 |-> "THUMBR"]
GoSuperButtons ==
  [select |-> "F1", start |-> "F2", l3 |-> "F3", r3 |-> "F4"]
ArcButtons == [a |-> "B", b |-> "A", x |-> "Y", y |-> "X"]

DeviceButtons(d, isGpio) ==
  LET base == IF isGpio THEN With(DefaultButtons, GpioButtons)
              ELSE DefaultButtons
  IN CASE d = "gosuper" ->
            With(With(base, StandardButtons), GoSuperButtons)
       [] d = "arcd" -> With(With(base, StandardButtons), ArcButtons)
       [] d \in {"rk3566", "miniloong", "sdl"} -> With(base, StandardButtons)
       [] d = "rg351v-sdl" -> DefaultButtons
       [] d \in {"rg351v", "rg351mp"} -> base

\* applyButtonRemapping.
initButtons(d, isGpio, remap) == With(DeviceButtons(d, isGpio), remap)

-----------------------------------------------------------------------------
(* What the core reads.                                                    *)

isTate == \/ tateState \in {"enabled", "reversed"}
          \/ tateState = "auto" /\ tall

\* The button that stands for another one in a picture that is turned.
Clockwise == [up |-> "left", right |-> "up", down |-> "right",
              left |-> "down", a |-> "x", b |-> "a", y |-> "b", x |-> "y"]
CounterClockwise == [up |-> "right", right |-> "down", down |-> "left",
                     left |-> "up", a |-> "b", b |-> "y", y |-> "x",
                     x |-> "a"]

getInput(l) ==
  CASE ~isTate -> buttons[l]
    [] isTate /\ tateState = "reversed" -> buttons[CounterClockwise[l]]
    [] OTHER -> buttons[Clockwise[l]]

\* analogToDigitalDirectionPressed.
directionPressed(thumb, d) ==
  CASE ~isTate ->
         (CASE d = "up" -> thumb.y < 0 [] d = "down" -> thumb.y > 0
            [] d = "left" -> thumb.x < 0 [] d = "right" -> thumb.x > 0)
    [] isTate /\ tateState = "reversed" ->
         (CASE d = "up" -> thumb.x > 0 [] d = "down" -> thumb.x < 0
            [] d = "left" -> thumb.y < 0 [] d = "right" -> thumb.y > 0)
    [] OTHER ->
         (CASE d = "up" -> thumb.x < 0 [] d = "down" -> thumb.x > 0
            [] d = "left" -> thumb.y > 0 [] d = "right" -> thumb.y < 0)

\* The axes as core_input_state gives them; without a turn its two inversions
\* of y cancel out.
analogAxes(thumb) ==
  CASE ~isTate -> thumb
    [] isTate /\ tateState = "reversed" -> [x |-> thumb.y, y |-> -thumb.x]
    [] OTHER -> [x |-> -thumb.y, y |-> thumb.x]

Other(stick) == IF stick = "left" THEN "right" ELSE "left"
Exchanged(stick) == IF swapSticks THEN Other(stick) ELSE stick

\* effectiveAnalogToDigitalMode.
effectiveMode(port) ==
  IF analogToDigital \in {"left", "right"} /\ port \in requested THEN "none"
  ELSE analogToDigital

\* The index a mode is about.
MappedIndex(mode) ==
  CASE mode \in {"left", "left_forced"} -> {"left"}
    [] mode \in {"right", "right_forced"} -> {"right"}
    [] mode = "none" -> {}

\* Mutant: the stick that stands for the pad is not exchanged.
SameStick(index) == index

\* The stick that stands for the directional pad.
PadStick(index) == Exchanged(index)

\* The physical buttons behind the shoulders.
Shoulder(l) ==
  LET real(s) == IF s = "l1" /\ ~gpio THEN "TopLeft"
                 ELSE IF s = "r1" /\ ~gpio THEN "TopRight" ELSE buttons[s]
      partner == [l1 |-> "l2", l2 |-> "l1", r1 |-> "r2", r2 |-> "r1"]
  IN IF swapShoulders THEN real(partner[l]) ELSE real(l)

\* The button of the device a logical button is read from.
ReadFrom(l) ==
  CASE l \in Directions \cup Faces -> getInput(l)
    [] l \in Shoulders -> Shoulder(l)
    [] OTHER -> buttons[l]

\* The buttons of the N64's C pad.
CButtons ==
  LET t == thumbs["right"]
      c == (IF t.y < 0 THEN {"x"} ELSE {}) \cup
           (IF t.y > 0 THEN {"b"} ELSE {}) \cup
           (IF t.x < 0 THEN {"y"} ELSE {}) \cup
           (IF t.x > 0 THEN {"a"} ELSE {})
  IN IF n64 /\ c # {} THEN {buttons[l] : l \in c \cup {"r2"}} ELSE {}

-----------------------------------------------------------------------------

ControlsInit ==
  /\ device \in Models
  /\ gpio \in (IF device = "rg351mp" THEN {TRUE} ELSE BOOLEAN)
  /\ \E remap \in Remaps : buttons = initButtons(device, gpio, remap)
  /\ n64 \in BOOLEAN /\ tall \in BOOLEAN
  /\ tateState \in {"disabled", "enabled", "reversed", "auto"}
  /\ analogToDigital \in
       {"none", "left", "right", "left_forced", "right_forced"}
  /\ swapSticks \in BOOLEAN /\ swapShoulders \in BOOLEAN /\ settings = 0
  /\ now = {} /\ prev = {} /\ thumbs = [s \in Sticks |-> Centred]
  /\ requested = {} /\ drove = {} /\ found = {} /\ before = {}
  /\ changing = FALSE /\ added = {}

\* input_gamepad_read: the states change places, the older is overwritten.
GamepadRead ==
  /\ prev' = now /\ now' \in Holds /\ thumbs' \in Positions
  /\ found' = now' /\ before' = found /\ added' = now \ found
  /\ drove' = {} /\ changing' = FALSE
  /\ UNCHANGED <<configVars, settingVars, requested>>

\* core_input_state: the right stick's buttons are pressed into the state.
StateChanges == now' = now \cup CButtons

\* A direction of the first player's pad, which a stick may stand for.
ReadPad(l) ==
  /\ StateChanges
  /\ LET used == {s \in {PadStick(i) : i \in MappedIndex(effectiveMode(0))} :
                    directionPressed(thumbs[s], l)}
     IN drove' = IF getInput(l) \in now' THEN drove
                 ELSE drove \cup {<<s, "pad">> : s \in used}
  /\ UNCHANGED <<configVars, settingVars, thumbs, prev, found, before, added,
                 requested, changing>>

\* Any other button.
ReadButton ==
  /\ StateChanges
  /\ UNCHANGED <<configVars, settingVars, thumbs, prev, found, before, added,
                 requested, changing, drove>>

\* An axis of the analog device.
ReadAxis(port, index) ==
  /\ StateChanges /\ requested' = requested \cup {port}
  /\ changing' = (changing \/ port \notin requested)
  /\ LET mode == IF analogToDigital \in {"left", "right"} THEN "none"
                 ELSE analogToDigital
         stick == Exchanged(index)
     IN drove' = IF port = 0 /\ index \notin MappedIndex(mode)
                    /\ thumbs[stick] # Centred
                 THEN drove \cup {<<stick, "axis">>} ELSE drove
  /\ UNCHANGED <<configVars, settingVars, thumbs, prev, found, before, added>>

\* The modes in the order the menu goes through them, in either direction.
TateModes == <<"disabled", "enabled", "reversed", "auto">>
AnalogModes == <<"none", "left", "right", "left_forced", "right_forced">>
Beside(modes, mode) ==
  LET n == Len(modes)
  IN {modes[j] : j \in {k \in 1 .. n : \E i \in 1 .. n :
                         modes[i] = mode /\ (k - i) % n \in {1, n - 1}}}

\* A change in the menu, which is polled like the core.
ChangeSetting ==
  /\ settings < MaxSettings /\ settings' = settings + 1
  /\ \/ /\ tateState' \in Beside(TateModes, tateState)
        /\ UNCHANGED <<analogToDigital, swapSticks, swapShoulders>>
     \/ /\ analogToDigital' \in Beside(AnalogModes, analogToDigital)
        /\ UNCHANGED <<tateState, swapSticks, swapShoulders>>
     \/ /\ swapSticks' = ~swapSticks
        /\ UNCHANGED <<tateState, analogToDigital, swapShoulders>>
     \/ /\ swapShoulders' = ~swapShoulders
        /\ UNCHANGED <<tateState, analogToDigital, swapSticks>>
  /\ changing' = TRUE
  /\ UNCHANGED <<configVars, pollVars, requested, drove>>

ControlsNext ==
  \/ GamepadRead
  \/ \E l \in Directions : ReadPad(l)
  \/ \E port \in {0, 1}, index \in Sticks : ReadAxis(port, index)
  \/ ReadButton
  \/ ChangeSetting

ControlsSpec == ControlsInit /\ [][ControlsNext]_controlVars

-----------------------------------------------------------------------------
(* Properties.                                                             *)

\* The directions of the device around its circle, each with a face button.
Circle == <<{"up", "x"}, {"right", "a"}, {"down", "b"}, {"left", "y"}>>

\* A stick that points in a direction of the device.
Pointed(i) == CASE i = 1 -> [x |-> 0, y |-> -1] [] i = 2 -> [x |-> 1, y |-> 0]
                [] i = 3 -> [x |-> 0, y |-> 1] [] i = 4 -> [x |-> -1, y |-> 0]

\* However the picture is turned, the pad, the face buttons, a stick that
\* stands for the pad and the axes are turned by the same angle (getInputUp to
\* getInputY, analogToDigitalDirectionPressed, core_input_state).
TurnedAsOne ==
  \E quarters \in 0 .. 3 :
    LET next(i) == 1 + ((i + quarters - 1) % 4)
    IN /\ (isTate <=> quarters # 0)
       /\ \A i \in 1 .. 4 :
            /\ \A l \in Directions :
                 directionPressed(Pointed(i), l) <=> l \in Circle[next(i)]
            /\ analogAxes(Pointed(i)) = Pointed(next(i))
            /\ \A l \in Circle[i], m \in Circle[next(i)] :
                 (l \in Faces <=> m \in Faces) => getInput(m) = buttons[l]

\* No two logical buttons of the core are read from one button, on any device
\* and with any exchange, unless the player has assigned one twice or assigned
\* l1 or r1, which only the device with a gpio gamepad looks at.
ButtonsApart ==
  LET std == DeviceButtons(device, gpio)
      apart(f(_)) ==
        Cardinality({f(l) : l \in Logical}) = Cardinality(Logical)
      assigned(l) == buttons[l]
  IN /\ apart(assigned)
     /\ gpio \/ \A l \in {"l1", "r1"} : buttons[l] = std[l]
     => apart(ReadFrom)

\* A stick moves the pad or the axes of the core but not both in one frame,
\* unless the core asks for the axes for the first time in that frame or the
\* player changed a setting.
OneUse ==
  changing \/
    \A s \in Sticks : ~({<<s, "pad">>, <<s, "axis">>} \subseteq drove)

\* What a poll finds pressed and the state before did not have was pressed
\* between the two; and all that was is found, but for buttons that the stick
\* of the N64 had pressed.
EdgesTrue ==
  now = found => /\ now \ prev \subseteq found \ before
                /\ (found \ before) \ added \subseteq now \ prev

\* The controls the core reads: the four parts above.
ControlsTrue == TurnedAsOne /\ ButtonsApart /\ OneUse /\ EdgesTrue
=============================================================================
