-------------------------- MODULE InputProperties ---------------------------
(***************************************************************************)
(* What the player moves in and holds: lists, menus, gamepads and keys.    *)
(***************************************************************************)
EXTENDS AchievementView, MenuNavigation, SdlInput, Go2Pad

\* What the player is shown of a list or a menu exists and can be left: the
\* details are of an entry of the list, and the button B leads out.
PlaceKept == DetailExists /\ WayBack

\* On both platforms what the core sees of gamepads and keys is what is held.
GamepadsFollow == DevicesFollow /\ Go2PadFollows
=============================================================================
