--------------------------- MODULE MenuNavigation ---------------------------
(***************************************************************************)
(* The menus: menu_manager.cpp, menu.cpp and menu_item.cpp over the tree   *)
(* main.cpp builds, the buttons of manageMenu, and those who move in it    *)
(* from outside: the hotkey that opens the menu, the reset of the core and *)
(* the end of the DRM diagnostic.  The selection of a menu that is not on  *)
(* the way to the current one is set again when it is entered.             *)
(***************************************************************************)
EXTENDS Integers, Sequences

-----------------------------------------------------------------------------
(* The items, as far as handle_input tells them apart: a value changes by  *)
(* LEFT and RIGHT, a page is only shown, a heading cannot be selected, a   *)
(* link leads to a menu, and a question or quit asks no or yes.            *)

Value == [kind |-> "value", to |-> "none"]
ShownPage == [kind |-> "page", to |-> "none"]
Heading == [kind |-> "heading", to |-> "none"]
Resume == [kind |-> "resume", to |-> "none"]
Link(m) == [kind |-> "link", to |-> m]
Question(q) == [kind |-> "question", to |-> q]
QuitItem == [kind |-> "quit", to |-> "none"]

\* main.cpp; menus of values only differ in their length, slots in their name.
Items ==
  [main     |-> <<Resume, Value, Link("info"), Link("settings"),
                  Link("states"), Link("quit")>>,
   info     |-> <<Link("page"), Link("drm"), Link("catalog")>>,
   page     |-> <<ShownPage>>,
   drm      |-> <<Link("drm_test")>>,
   drm_test |-> <<Question("drm")>>,
   catalog  |-> <<Value, Link("games")>>,
   games    |-> <<Value, Heading, Value, Value, Heading, Value>>,
   settings |-> <<Link("values"), Link("video"), Link("reset")>>,
   values   |-> <<Value, Value>>,
   video    |-> <<Value, Link("decorations"), Value>>,
   decorations |-> <<Value, Link("remove")>>,
   remove   |-> <<Question("remove")>>,
   reset    |-> <<Question("reset")>>,
   states   |-> <<Link("load"), Link("save")>>,
   load     |-> <<Link("load_slot"), Link("load_slot")>>,
   load_slot |-> <<Question("load")>>,
   save     |-> <<Link("save_slot"), Link("save_slot")>>,
   save_slot |-> <<Question("save")>>,
   quit     |-> <<QuitItem>>]
Menus == DOMAIN Items
Questions == {"drm", "remove", "reset", "load", "save", "quit"}

VARIABLES
  sessionOpen,\* input_info_requested
  trail,      \* queueMenus and, last, currentMenu_: the menu and the index of
              \* the item selected in it
  answers,    \* the questions whose value is yes
  turned,     \* "no", "right" or "reversed": isTate and tateState
  testing     \* drmDirectScanoutDiagnosticActive

menuVars == <<sessionOpen, trail, answers, turned, testing>>

At(m) == [menu |-> m, item |-> 1]
Current == trail[Len(trail)]
Selected == Items[Current.menu][Current.item]
Selectable(m, i) == Items[m][i].kind # "heading"

MenuInit ==
  /\ sessionOpen = FALSE /\ trail = <<At("main")>> /\ answers = {}
  /\ turned = "no" /\ testing = FALSE

-----------------------------------------------------------------------------
(* Moving.                                                                 *)

\* buttonPressedIs: the direction a button stands for on a turned display.
Means(button) ==
  CASE turned = "no" -> button
    [] turned = "reversed" -> [up |-> "left", down |-> "right",
                               right |-> "up", left |-> "down"][button]
    [] OTHER -> [up |-> "right", down |-> "left",
                 right |-> "down", left |-> "up"][button]

\* The next selectable item in a direction; past the end, the one nearest to
\* it.
Above(m, i) == {k \in 1 .. Len(Items[m]) : k < i /\ Selectable(m, k)}
Below(m, i) == {k \in 1 .. Len(Items[m]) : k > i /\ Selectable(m, k)}
Least(s) == CHOOSE k \in s : \A j \in s : k <= j
Greatest(s) == CHOOSE k \in s : \A j \in s : k >= j
Move(m, i, direction) ==
  CASE direction = "up" /\ Above(m, i) # {} -> Greatest(Above(m, i))
    [] direction = "up" -> Least(Above(m, Len(Items[m]) + 1))
    [] direction = "down" /\ Below(m, i) # {} -> Least(Below(m, i))
    [] OTHER -> Greatest(Below(m, 0))

Select(direction) ==
  /\ trail' = [trail EXCEPT ![Len(trail)].item =
                 Move(Current.menu, Current.item, direction)]
  /\ UNCHANGED <<sessionOpen, answers, turned, testing>>

\* LEFT and RIGHT: the answer of a question changes; a value is stored (and
\* the one of the Tate mode turns the display); other items ignore them.
Toggled(q) == IF q \in answers THEN answers \ {q} ELSE answers \cup {q}
Asked(item) == IF item.kind = "quit" THEN "quit" ELSE item.to
Change ==
  /\ answers' = IF Selected.kind \in {"question", "quit"}
                THEN Toggled(Asked(Selected)) ELSE answers
  /\ turned' \in IF Selected.kind = "value" THEN {"no", "right", "reversed"}
                 ELSE {turned}
  /\ UNCHANGED <<sessionOpen, trail, testing>>

Back(t) == IF Len(t) > 1 THEN SubSeq(t, 1, Len(t) - 1) ELSE t

\* The callbacks of the questions: a state is loaded or saved and the menu
\* closed; so does the reset, which also goes back (resetMenu); the test of
\* the DRM leaves the menu for three seconds.
Effect(q) ==
  /\ sessionOpen' = (q = "remove")
  /\ testing' = (q = "drm")

\* An answered question leads back, whatever the answer.  Mutant: it stays.
StaysAsked(t) == t
Answered(t) == Back(t)

\* A yes to the quit item ends the program (isRunning).
Press_A ==
  \/ /\ Selected.kind = "question" /\ UNCHANGED <<answers, turned>>
     /\ LET q == Selected.to
            yes == q \in answers
        IN /\ trail' = Answered(IF yes /\ q = "reset" THEN Back(trail)
                                ELSE trail)
           /\ IF yes THEN Effect(q) ELSE UNCHANGED <<sessionOpen, testing>>
  \/ /\ Selected.kind = "link" /\ trail' = Append(trail, At(Selected.to))
     /\ UNCHANGED <<sessionOpen, answers, turned, testing>>
  \/ /\ Selected.kind = "resume" /\ sessionOpen' = FALSE
     /\ UNCHANGED <<trail, answers, turned, testing>>

Press_B ==
  /\ trail' = Back(trail)
  /\ UNCHANGED <<sessionOpen, answers, turned, testing>>

Press_Direction ==
  \E button \in {"up", "down", "left", "right"} :
    \/ /\ Means(button) \in {"up", "down"} /\ Select(Means(button))
    \/ /\ Means(button) \in {"left", "right"} /\ Change

HandleInput == sessionOpen /\ (Press_A \/ Press_B \/ Press_Direction)

-----------------------------------------------------------------------------
(* From outside.                                                           *)

\* The hotkey; opening begins a session at the root.
MenuHotkey ==
  /\ ~testing /\ sessionOpen' = ~sessionOpen
  /\ trail' = IF sessionOpen THEN trail ELSE <<At("main")>>
  /\ UNCHANGED <<answers, turned, testing>>

\* The deadline of the diagnostic: its page becomes the current menu, on top
\* of what is on the stack.
DiagnosticEnds ==
  /\ testing /\ testing' = FALSE /\ sessionOpen' = TRUE
  /\ trail' = Append(SubSeq(trail, 1, Len(trail) - 1), At("drm"))
  /\ UNCHANGED <<answers, turned>>

MenuNext == HandleInput \/ MenuHotkey \/ DiagnosticEnds
MenuSpec == MenuInit /\ [][MenuNext]_menuVars

-----------------------------------------------------------------------------
(* Properties.                                                             *)

\* Wherever the user, the reset and the diagnostic have moved, the way back
\* is the way that was taken: each menu on the stack has the link to the next
\* one selected, from the main menu on; and what is selected can be.
WayBack ==
  /\ trail[1].menu = "main"
  /\ \A n \in 1 .. Len(trail) : Selectable(trail[n].menu, trail[n].item)
  /\ \A n \in 1 .. Len(trail) - 1 :
       Items[trail[n].menu][trail[n].item] = Link(trail[n + 1].menu)
=============================================================================
