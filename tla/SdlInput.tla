------------------------------ MODULE SdlInput ------------------------------
(***************************************************************************)
(* The input of the SDL platform: rr_input_state_read drains the events of *)
(* the gamepads and of the physical keyboard, opens a gamepad again, and   *)
(* forwards keys to the core or to the text editor of input/keyboard.cpp,  *)
(* which the gamepad drives, too.                                          *)
(***************************************************************************)
EXTENDS Integers, Sequences

CONSTANTS MaxPads,   \* bound: gamepads attached, each with an id of its own
          MaxQueue,  \* bound: events waiting
          MaxText    \* bound: characters of a text (128 in the code)

ASSUME InputAssumption ==
  MaxPads \in Nat /\ MaxQueue \in Nat /\ MaxText \in Nat

VARIABLES
  attached,   \* the gamepads that are plugged in
  lastPad,    \* the id of the last one that was
  events,     \* the queue of SDL
  readPc,     \* rr_input_state_read: "no", "drain"
  changed,    \* controller_change
  pad,        \* input->controller: an id, or NoPad
  pressed,    \* the keys held down
  forwarded,  \* forwarded_keys
  coreKeys,   \* the keys the core believes to be down
  callback,   \* s_core_keyboard_cb is set
  editing,    \* s_text_editing, with s_virtual_visible and s_text_accept
  justOpened, \* s_virtual_just_opened
  text,       \* the length of s_text_value
  swallowed   \* history: keys whose release was read while editing

padVars == <<attached, lastPad, changed, pad>>
keyVars == <<pressed, forwarded, coreKeys, callback>>
editVars == <<editing, justOpened, text>>
sdlVars == <<padVars, events, readPc, keyVars, editVars, swallowed>>

NoPad == 0

\* A letter reaches the core; the keys of is_frontend_hotkey stand for buttons:
\* "return" is one that also ends an edit, as RETURN and ESCAPE do.
Keys == {"letter", "return"}
FrontendKeys == {"return"}

SdlInit ==
  /\ attached = {} /\ lastPad = NoPad /\ events = <<>> /\ readPc = "no"
  /\ changed = FALSE /\ pad = NoPad /\ pressed = {} /\ forwarded = {}
  /\ coreKeys = {} /\ callback = FALSE
  /\ editing = FALSE /\ justOpened = FALSE /\ text = 0 /\ swallowed = {}

-----------------------------------------------------------------------------
(* The devices.                                                            *)

Event(what, of) == [what |-> what, of |-> of]
Queued(es) == Len(events) + Len(es) <= MaxQueue /\ events' = events \o es

PlugIn ==
  /\ lastPad < MaxPads /\ lastPad' = lastPad + 1
  /\ attached' = attached \cup {lastPad'}
  /\ Queued(<<Event("added", lastPad')>>)

Unplug ==
  \E p \in attached :
    /\ attached' = attached \ {p} /\ Queued(<<Event("removed", p)>>)
    /\ UNCHANGED lastPad

\* "KMSDRM can report a controller refresh as ADDED followed by REMOVED".
RefreshPad ==
  \E p \in attached :
    /\ lastPad < MaxPads /\ lastPad' = lastPad + 1
    /\ attached' = (attached \ {p}) \cup {lastPad'}
    /\ Queued(<<Event("added", lastPad'), Event("removed", p)>>)

Keystroke ==
  \E k \in Keys :
    \/ /\ k \notin pressed /\ pressed' = pressed \cup {k}
       /\ Queued(IF k = "letter" THEN <<Event("down", k), Event("text", k)>>
                 ELSE <<Event("down", k)>>)
    \/ /\ k \in pressed /\ pressed' = pressed \ {k}
       /\ Queued(<<Event("up", k)>>)

Devices ==
  \/ /\ PlugIn \/ Unplug \/ RefreshPad
     /\ UNCHANGED <<readPc, changed, pad, keyVars, editVars, swallowed>>
  \/ /\ Keystroke
     /\ UNCHANGED <<readPc, padVars, forwarded, coreKeys, callback, editVars,
                    swallowed>>

-----------------------------------------------------------------------------
(* The text editor.                                                        *)

\* finish_text_edit, with the callback of who asked.
Finish == editing' = FALSE /\ UNCHANGED <<justOpened, text>>
Type == text' = IF text < MaxText THEN text + 1 ELSE text
Erase == text' = IF text > 0 THEN text - 1 ELSE text

\* rr_keyboard_virtual_input: the edit is cancelled, or a key of the board is
\* chosen: a character, backspace, return, escape, or one that changes the
\* board.  (The release of the key that ends the edit reaches the core, which
\* has not seen it pressed.)
EditorInput ==
  /\ readPc = "no" /\ events = <<>> /\ editing
  /\ IF justOpened
     THEN justOpened' = FALSE /\ UNCHANGED <<editing, text>>
     ELSE \/ Finish
          \/ /\ Type \/ Erase \/ UNCHANGED text
             /\ UNCHANGED <<editing, justOpened>>
  /\ UNCHANGED <<events, readPc, padVars, keyVars, swallowed>>

\* The menu asks for a user name or a password.
EditorOpen ==
  /\ readPc = "no" /\ events = <<>> /\ ~editing
  /\ editing' = TRUE /\ justOpened' = TRUE /\ text' \in 0 .. MaxText
  /\ UNCHANGED <<events, readPc, padVars, keyVars, swallowed>>

\* core_environment and core_deinit.
CoreKeyboard ==
  /\ readPc = "no" /\ UNCHANGED <<events, readPc, padVars, pressed,
                                     forwarded, swallowed>>
  /\ \/ callback' = TRUE /\ UNCHANGED <<coreKeys, editVars>>
     \/ /\ callback /\ callback' = FALSE /\ coreKeys' = {}
        /\ editing' = FALSE /\ UNCHANGED <<justOpened, text>>

-----------------------------------------------------------------------------
(* rr_input_state_read.                                                    *)

ReadBegin ==
  /\ readPc = "no" /\ readPc' = "drain" /\ changed' = FALSE
  /\ UNCHANGED <<attached, lastPad, pad, events, keyVars, editVars,
                 swallowed>>

\* Mutant: a removed gamepad is closed, and another one only looked for when
\* one is added.
AddedOnly(e) == e.what = "added"
PadChange(e) == e.what = "added" \/ (e.what = "removed" /\ e.of = pad)

PadEvent(e) ==
  /\ e.what \in {"added", "removed"}
  /\ changed' = (changed \/ PadChange(e))
  /\ pad' = IF e.what = "removed" /\ e.of = pad THEN NoPad ELSE pad
  /\ UNCHANGED <<attached, lastPad, keyVars, editVars, swallowed>>

\* rr_sdl_dispatch_key_event while a text is edited: releases are ignored.
EditEvent(e) ==
  /\ editing /\ e.what \in {"down", "up"}
  /\ IF e.what = "down" /\ e.of = "return" THEN Finish
     ELSE UNCHANGED editVars
  /\ swallowed' = IF e.what = "up" THEN swallowed \cup {e.of} ELSE swallowed
  /\ UNCHANGED <<padVars, keyVars>>

\* And otherwise.  A release is forwarded if the press was.
KeyEvent(e) ==
  /\ ~editing /\ e.what \in {"down", "up"}
  /\ \/ /\ e.what = "down" /\ callback /\ e.of \notin FrontendKeys
        /\ forwarded' = forwarded \cup {e.of}
        /\ coreKeys' = coreKeys \cup {e.of}
     \/ /\ e.what = "down" /\ (~callback \/ e.of \in FrontendKeys)
        /\ UNCHANGED <<forwarded, coreKeys>>
     \/ /\ e.what = "up" /\ forwarded' = forwarded \ {e.of}
        /\ coreKeys' = IF e.of \in forwarded /\ callback
                       THEN coreKeys \ {e.of} ELSE coreKeys
  /\ swallowed' = swallowed \ {e.of}
  /\ UNCHANGED <<padVars, pressed, callback, editVars>>

\* A character is typed, or given to the core without a key.
TextEvent(e) ==
  /\ e.what = "text"
  /\ IF editing THEN Type /\ UNCHANGED <<editing, justOpened>>
     ELSE UNCHANGED editVars
  /\ UNCHANGED <<padVars, keyVars, swallowed>>

Drain ==
  /\ readPc = "drain" /\ events # <<>> /\ events' = Tail(events)
  /\ LET e == Head(events)
     IN PadEvent(e) \/ EditEvent(e) \/ KeyEvent(e) \/ TextEvent(e)
  /\ UNCHANGED readPc

\* A handle SDL has invalidated is closed; then the first gamepad is opened,
\* if there was a change.
ReadEnd ==
  /\ readPc = "drain" /\ events = <<>> /\ readPc' = "no"
  /\ LET lost == pad # NoPad /\ pad \notin attached
     IN IF (pad = NoPad \/ lost) /\ (changed \/ lost)
        THEN pad' \in IF attached = {} THEN {NoPad} ELSE attached
        ELSE UNCHANGED pad
  /\ changed' = FALSE
  /\ UNCHANGED <<attached, lastPad, events, keyVars, editVars, swallowed>>

SdlNext == \/ Devices \/ EditorInput \/ EditorOpen \/ CoreKeyboard
           \/ ReadBegin \/ Drain \/ ReadEnd
SdlSpec == SdlInit /\ [][SdlNext]_sdlVars

-----------------------------------------------------------------------------
(* Properties.                                                             *)

\* In whatever order gamepads come and go and their events are delivered,
\* once these have been read the gamepad in use is one that is there, and
\* there is one in use if there is any.
PadFollows ==
  readPc = "no" /\ events = <<>> =>
    IF attached = {} THEN pad = NoPad ELSE pad \in attached

\* No key is down for the core that nobody holds, once the events have been
\* read, unless its release came while a text was edited (which ignores it);
\* then the next release still lifts it.  The frontend's keys are never down
\* for the core.
KeysFollow ==
  /\ coreKeys \subseteq forwarded \ FrontendKeys
  /\ readPc = "no" /\ events = <<>>
       => coreKeys \subseteq pressed \cup swallowed

\* Whatever is plugged, pulled, pressed and edited, the devices the core sees
\* are those the user holds.
DevicesFollow == PadFollows /\ KeysFollow
=============================================================================
