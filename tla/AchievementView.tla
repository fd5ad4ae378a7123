-------------------------- MODULE AchievementView --------------------------
(***************************************************************************)
(* What services/achievements.cpp shows: the list of the achievements with *)
(* its filter and its page of details, and the notifications, one at a     *)
(* time for four seconds each.                                             *)
(***************************************************************************)
EXTENDS Integers, Sequences, FiniteSets

CONSTANTS MaxEntries, \* bound: achievements of a set
          Texts,      \* texts of notifications
          NoText,
          MaxNotes    \* bound: notifications

ASSUME ViewAssumption ==
  NoText \notin Texts /\ MaxEntries \in Nat /\ MaxNotes \in Nat

VARIABLES
  entries,   \* achievement_entries: whether each is unlocked
  filter,    \* achievement_view_filter
  selected,  \* achievement_view_selected
  detail, visible, fresh, \* achievement_view_detail, _visible, _just_opened
  shown, waiting,         \* notification_text, notification_queue
  notes                   \* bound

viewVars == <<entries, filter, selected, detail, visible, fresh, shown,
              waiting, notes>>
listVars == <<entries, filter, selected, detail, visible, fresh>>

ViewInit ==
  /\ entries = << >> /\ filter = 0 /\ selected = 0
  /\ detail = FALSE /\ visible = FALSE /\ fresh = FALSE
  /\ shown = NoText /\ waiting = << >> /\ notes = 0

\* filtered_achievement_indices: all, the locked, the unlocked.
Listed(f) ==
  Cardinality({i \in DOMAIN entries :
    f = 0 \/ (f = 1 /\ ~entries[i]) \/ (f = 2 /\ entries[i])})

\* achievements_view_open takes the list as it is then, empty without a game.
OpenView ==
  /\ ~visible /\ visible' = TRUE /\ fresh' = TRUE /\ detail' = FALSE
  /\ selected' = 0 /\ filter' = 0
  /\ \E n \in 0 .. MaxEntries : entries' \in [1 .. n -> BOOLEAN]
  /\ UNCHANGED <<shown, waiting, notes>>

\* Mutant: the selection stays as it is when the filter shortens the list.
Unclamped(s, n) == s
Clamped(s, n) == IF s < n THEN s ELSE n - 1

\* achievements_view_input, with one button or several at once.  The press
\* that opened the view is not seen by it; B leaves the details, then the view.
ViewInput(prev, next, left, right, accept, cancel) ==
  LET f == (filter + (IF left THEN 2 ELSE 0) + (IF right THEN 1 ELSE 0)) % 3
      n == Listed(f)
      a == Clamped(selected, n)
      b == IF prev THEN (a + n - 1) % n ELSE a
      c == IF next THEN (b + 1) % n ELSE b
  IN
  /\ visible
  /\ IF fresh THEN fresh' = FALSE /\ UNCHANGED <<filter, selected, detail,
                                                 visible>>
     ELSE /\ UNCHANGED fresh
          /\ IF cancel
             THEN /\ visible' = detail /\ detail' = FALSE
                  /\ UNCHANGED <<filter, selected>>
             ELSE /\ UNCHANGED visible
                  /\ IF detail THEN UNCHANGED <<filter, selected, detail>>
                     ELSE /\ filter' = f
                          /\ selected' = IF n = 0 THEN 0 ELSE c
                          /\ detail' = (n > 0 /\ accept)
  /\ UNCHANGED <<entries, shown, waiting, notes>>

\* notify: a text that is shown or waits is not shown again.
Notify(t) ==
  /\ notes < MaxNotes /\ notes' = notes + 1
  /\ IF shown = t \/ \E i \in DOMAIN waiting : waiting[i] = t
     THEN UNCHANGED <<shown, waiting>>
     ELSE IF shown = NoText THEN shown' = t /\ UNCHANGED waiting
          ELSE waiting' = Append(waiting, t) /\ UNCHANGED shown
  /\ UNCHANGED listVars

\* update_notification, after four seconds.  It is only called while a text
\* is shown.
UpdateNotification ==
  /\ shown # NoText
  /\ IF waiting = << >> THEN shown' = NoText /\ UNCHANGED waiting
     ELSE shown' = Head(waiting) /\ waiting' = Tail(waiting)
  /\ UNCHANGED <<listVars, notes>>

ViewNext ==
  \/ OpenView \/ UpdateNotification \/ \E t \in Texts : Notify(t)
  \/ \E b \in {{"up"}, {"down"}, {"left"}, {"right"}, {"accept"}, {"cancel"},
               {"left", "accept"}, {"right", "accept"}} :
       ViewInput("up" \in b, "down" \in b, "left" \in b, "right" \in b,
                 "accept" \in b, "cancel" \in b)
ViewSpec == ViewInit /\ [][ViewNext]_viewVars

-----------------------------------------------------------------------------
(* Properties.                                                             *)

\* The details are drawn of the entry that is selected without a check: the
\* selection is an entry of the filtered list whenever they are, and no
\* notification waits while none is shown, since nobody would take it out.
DetailExists ==
  /\ detail => selected < Listed(filter)
  /\ shown = NoText => waiting = << >>
=============================================================================
