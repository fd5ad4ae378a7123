---------------------------- MODULE FrontendLoop ----------------------------
(***************************************************************************)
(* The loop of main.cpp with the hotkeys of input/input.cpp, the pages the *)
(* menu opens, the pause, fast-forward and the DRM diagnostic: what an     *)
(* iteration does, and what the buttons do to it.  A core polls, reads the *)
(* input and shows frames while main is in retro_run (loopPc "core"); the  *)
(* worker of the video pipeline writes pause_requested, too (checkPaused). *)
(***************************************************************************)
EXTENDS Integers

CONSTANTS SkipsPoll,  \* the core may return without polling the input
          Benchmarks  \* benchmark_requested(): the values to check

ASSUME LoopAssumption == SkipsPoll \in BOOLEAN /\ Benchmarks \subseteq BOOLEAN

VARIABLES
  loopPc,      \* where main is
  ui,          \* the request flags of input.h and globals.h; modal: the
               \* keyboard, the file browser or the achievements are open
  isRunning, measuring,
  realPause,   \* of this iteration
  audioPaused, \* audioTransitionPaused
  inhibit,     \* the core's override forbids toggling fast-forward
  savedFfwd,   \* drmDiagnosticSavedFastForward
  polled,      \* inputPolledThisFrame; "read": and the core has read it
  painter,     \* the video worker in checkPaused: "idle", "job", or the
               \* value it is about to write
  held,        \* controls held down: "none", "game", or "page" if a page was
               \* open while they were down
  latch,       \* frontendInputReleaseLatch
  unseen,      \* history: the menu was opened where the core reads nothing
  drawn        \* history: main drew a frame since inputPause or info changed

loopVars == <<loopPc, ui, isRunning, measuring, realPause, audioPaused,
              inhibit, savedFfwd, polled, painter, held, latch, unseen, drawn>>

Quiet == [pause |-> FALSE, inputPause |-> FALSE, info |-> FALSE,
          credits |-> FALSE, ffwd |-> FALSE, drm |-> FALSE, loading |-> TRUE,
          modal |-> FALSE, exit |-> FALSE, exitFirst |-> FALSE]

LoopInit ==
  /\ loopPc = "top" /\ ui \in {Quiet, [Quiet EXCEPT !.loading = FALSE]}
  /\ isRunning = TRUE /\ measuring \in Benchmarks /\ realPause = FALSE
  /\ audioPaused = FALSE /\ inhibit = FALSE /\ savedFfwd = FALSE
  /\ polled = "no" /\ painter = "idle" /\ held = "none" /\ latch = FALSE
  /\ unseen = FALSE /\ drawn = FALSE

PageOpen(u) == u.info \/ u.modal

\* Main changes the flags: a frame shown before does not count any more.
SetUi(u) ==
  /\ ui' = u
  /\ unseen' = IF u.info /\ ~ui.info THEN loopPc # "core" ELSE unseen
  /\ drawn' = (drawn /\ u.inputPause = ui.inputPause /\ u.info = ui.info)

-----------------------------------------------------------------------------
(* The buttons: core_input_poll.                                           *)

\* manageMenu: what the items of the menus do to the flags.  The reset of the
\* core closes the menu only.  Saving, loading and resuming restore the pause.
\* Another item than the first takes a poll, and so a drawing, to get to.
Closed(u) == [u EXCEPT !.info = FALSE, !.pause = u.inputPause]
MenuActions(u) ==
  {u, Closed(u)} \cup
  IF ~drawn THEN {}
  ELSE {[u EXCEPT !.credits = TRUE], [u EXCEPT !.info = FALSE],
        [u EXCEPT !.modal = TRUE]}
Diagnostic(u) == [u EXCEPT !.drm = TRUE, !.ffwd = FALSE, !.info = FALSE,
                           !.credits = FALSE, !.pause = FALSE]

\* Not while the loading screen is shown: the menu; and outside of it, pause
\* and fast-forward.  The program ends when exit is held or pressed again.
ToggleInfo(u) == [u EXCEPT !.info = ~u.info, !.pause = ~u.info,
                           !.credits = FALSE]
TogglePause(u) == [u EXCEPT !.inputPause = ~u.inputPause,
                            !.pause = u.pause /\ ~u.inputPause]
HoldExit(u) == IF u.exitFirst THEN {[u EXCEPT !.exit = TRUE], u}
               ELSE {[u EXCEPT !.exitFirst = TRUE]}
Hotkeys(u) ==
  {u} \cup (IF u.loading THEN {} ELSE {ToggleInfo(u)})
      \cup (IF u.info THEN {} ELSE HoldExit(u))
      \cup (IF u.info \/ u.loading THEN {} ELSE {TogglePause(u)})
      \cup (IF u.info \/ u.loading \/ inhibit THEN {}
            ELSE {[u EXCEPT !.ffwd = ~u.ffwd]})

\* A page takes all the buttons, also the one that has just opened it.
AfterMenu(u) == IF u.modal THEN {u} ELSE Hotkeys(u)
Polled(u) ==
  IF u.modal THEN {u, [u EXCEPT !.modal = FALSE]}
  ELSE IF u.credits THEN UNION {Hotkeys(v) : v \in
                                  {u, [u EXCEPT !.credits = FALSE]}}
  ELSE IF u.info THEN UNION {AfterMenu(v) : v \in MenuActions(u)}
  ELSE Hotkeys(u)

\* The window's or the device's own button, and the time after which an exit
\* has to be held anew.
Begun(u) == {u, [u EXCEPT !.exit = TRUE], [u EXCEPT !.exitFirst = FALSE]}

Held(u) == held' \in {"none", IF PageOpen(ui) \/ PageOpen(u) \/ held = "page"
                              THEN "page" ELSE "game"}

\* While the diagnostic runs the buttons are read, and that is all.  Of the
\* menu's items, the one that quits and the one that starts the diagnostic
\* write more than the flags of a page.
Poll ==
  \/ /\ ui.drm /\ SetUi(ui) /\ Held(ui) /\ UNCHANGED <<isRunning, savedFfwd>>
  \/ /\ ~ui.drm
     /\ \E b \in Begun(ui) : \E u \in Polled(b) : SetUi(u) /\ Held(u)
     /\ UNCHANGED <<isRunning, savedFfwd>>
  \/ /\ ~ui.drm /\ ui.info /\ ~ui.credits /\ ~ui.modal /\ drawn
     /\ \/ isRunning' = FALSE /\ SetUi(ui) /\ UNCHANGED savedFfwd
        \/ /\ SetUi(Diagnostic(ui)) /\ savedFfwd' = ui.ffwd
           /\ UNCHANGED isRunning
     /\ Held(ui')

-----------------------------------------------------------------------------
(* The pictures: core_video_refresh down to uiRenderOverlays.              *)

\* checkPaused.  Mutant: the menu alone pauses.
MenuPauses(u) == ~u.drm /\ u.info
PauseWanted(u) == ~u.drm /\ (u.inputPause \/ u.info)

\* Main draws, after it has waited for the worker.
Draw ==
  /\ painter = "idle" /\ drawn' = TRUE
  /\ ui' = [ui EXCEPT !.pause = PauseWanted(ui), !.loading = FALSE]

Threaded == ~PageOpen(ui) /\ ~ui.credits /\ ~ui.inputPause /\ ~ui.ffwd
              /\ ~ui.loading

Refresh ==
  /\ loopPc = "core"
  /\ \/ Draw /\ UNCHANGED painter
     \/ Threaded /\ painter = "idle" /\ painter' = "job"
        /\ UNCHANGED <<ui, drawn>>
  /\ UNCHANGED <<loopPc, isRunning, measuring, realPause, audioPaused, inhibit,
                 savedFfwd, polled, held, latch, unseen>>

\* The worker reads the flags, then writes its own.
PaintRead ==
  /\ painter = "job"
  /\ painter' = IF PauseWanted(ui) THEN "pause" ELSE "play"
  /\ UNCHANGED <<loopPc, ui, isRunning, measuring, realPause, audioPaused,
                 inhibit, savedFfwd, polled, held, latch, unseen, drawn>>

PaintWrite ==
  /\ painter \in {"pause", "play"} /\ painter' = "idle"
  /\ ui' = [ui EXCEPT !.pause = (painter = "pause")]
  /\ UNCHANGED <<loopPc, isRunning, measuring, realPause, audioPaused, inhibit,
                 savedFfwd, polled, held, latch, unseen, drawn>>

-----------------------------------------------------------------------------
(* An iteration.                                                           *)

Cleared(u) == [u EXCEPT !.info = FALSE, !.credits = FALSE, !.pause = FALSE,
                        !.inputPause = FALSE, !.ffwd = FALSE]
Results(u) == [u EXCEPT !.drm = FALSE, !.ffwd = savedFfwd, !.info = TRUE,
                        !.credits = FALSE, !.pause = TRUE]

\* A benchmark clears what the buttons asked for; the diagnostic ends after
\* three seconds, on its page.
Enter(u) ==
  /\ SetUi(u)
  /\ realPause' = (u.pause /\ u.inputPause) /\ audioPaused' = u.pause
  /\ loopPc' = IF u.info THEN "menu" ELSE IF realPause' THEN "paused"
               ELSE "core"

Iterate ==
  /\ loopPc = "top" /\ isRunning /\ polled' = "no"
  /\ LET u == IF measuring THEN Cleared(ui) ELSE ui IN
     \/ Enter(u)
     \/ u.drm /\ Enter(Results(u))
  /\ UNCHANGED <<isRunning, measuring, inhibit, savedFfwd, painter, held,
                 latch>>

\* The window of the benchmark is over.
Deadline ==
  /\ loopPc = "top" /\ isRunning /\ measuring /\ isRunning' = FALSE
  /\ UNCHANGED <<loopPc, ui, measuring, realPause, audioPaused, inhibit,
                 savedFfwd, polled, painter, held, latch, unseen, drawn>>

Leave ==
  /\ loopPc = "top" /\ ~isRunning /\ loopPc' = "stopped"
  /\ UNCHANGED <<ui, isRunning, measuring, realPause, audioPaused, inhibit,
                 savedFfwd, polled, painter, held, latch, unseen, drawn>>

PollFrame == UNCHANGED <<measuring, realPause, audioPaused, inhibit, painter,
                         latch>>

\* The menu is polled and drawn; nothing else of the iteration happens.
MenuPoll ==
  /\ loopPc = "menu" /\ Poll /\ UNCHANGED polled /\ PollFrame
  /\ loopPc' = IF ui'.info THEN "draw" ELSE "top"

MenuDraw ==
  /\ loopPc = "draw" /\ Draw /\ loopPc' = "top"
  /\ UNCHANGED <<isRunning, measuring, realPause, audioPaused, inhibit,
                 savedFfwd, polled, painter, held, latch, unseen>>

PausedPoll ==
  /\ loopPc = "paused" /\ Poll /\ loopPc' = "end" /\ UNCHANGED polled
  /\ PollFrame

\* The core polls and then reads.
CorePoll ==
  /\ loopPc = "core" /\ polled # "polled" /\ Poll /\ polled' = "polled"
  /\ UNCHANGED loopPc /\ PollFrame

\* core_input_state with frontendCapturesCoreInput.  The latch is set when the
\* core reads while a page is open, and holds until every control is up.
\* Mutant: there is none.
NotLatched == PageOpen(ui)
Captured == PageOpen(ui) \/ (latch /\ held # "none")

CoreReads ==
  /\ loopPc = "core" /\ polled = "polled" /\ polled' = "read"
  /\ latch' = IF ui.drm THEN latch ELSE Captured
  /\ UNCHANGED <<loopPc, ui, isRunning, measuring, realPause, audioPaused,
                 inhibit, savedFfwd, painter, held, unseen, drawn>>

\* SET_FASTFORWARDING_OVERRIDE.
Override ==
  /\ loopPc = "core" /\ inhibit' \in BOOLEAN
  /\ \E f \in BOOLEAN : SetUi([ui EXCEPT !.ffwd = f])
  /\ UNCHANGED <<loopPc, isRunning, measuring, realPause, audioPaused,
                 savedFfwd, polled, painter, held, latch>>

CoreReturns ==
  /\ loopPc = "core" /\ polled # "polled" /\ (polled = "no" => SkipsPoll)
  /\ loopPc' = IF polled = "no" THEN "fallback" ELSE "update"
  /\ UNCHANGED <<ui, isRunning, measuring, realPause, audioPaused, inhibit,
                 savedFfwd, polled, painter, held, latch, unseen, drawn>>

FallbackPoll ==
  /\ loopPc = "fallback" /\ Poll /\ loopPc' = "update" /\ UNCHANGED polled
  /\ PollFrame

\* An AV update that cannot be applied ends the loop.
Update ==
  /\ loopPc = "update" /\ loopPc' = "end" /\ isRunning' \in {isRunning, FALSE}
  /\ UNCHANGED <<ui, measuring, realPause, audioPaused, inhibit, savedFfwd,
                 polled, painter, held, latch, unseen, drawn>>

\* Mutant: the exit is not looked at while the game is paused.
ExitPlaying == ui.exit /\ ~realPause
ExitSeen == ui.exit

\* PumpLoadStateAsync: a state that was applied ends the pause.  Then the
\* requests; a slot saved or loaded by its hotkey goes through the menu's code.
EndIteration ==
  /\ loopPc = "end" /\ loopPc' = "top"
  /\ \E u \in {ui, [ui EXCEPT !.inputPause = FALSE, !.pause = FALSE]} :
       IF ExitSeen THEN isRunning' = FALSE /\ SetUi(u)
       ELSE /\ UNCHANGED isRunning
            /\ \E v \in {u, Closed(u)} : SetUi(v)
  /\ UNCHANGED <<measuring, realPause, audioPaused, inhibit, savedFfwd, polled,
                 painter, held, latch>>

Main == \/ Iterate \/ Leave \/ MenuPoll \/ MenuDraw \/ PausedPoll
        \/ CoreReads \/ CoreReturns \/ FallbackPoll \/ Update \/ EndIteration
Painter == PaintRead \/ PaintWrite

LoopNext == Main \/ Painter \/ Deadline \/ CorePoll \/ Refresh \/ Override
LoopSpec == LoopInit /\ [][LoopNext]_loopVars

-----------------------------------------------------------------------------
(* Properties.                                                             *)

\* Once a frame was drawn with the pause requested, the game stands still:
\* opening and closing the menu, the diagnostic, or the worker's late write of
\* pause_requested cost it at most the frames until the next one drawn.
PauseTakesHold ==
  [][Iterate /\ loopPc' = "core" /\ ui'.inputPause /\ ~ui'.drm
       => ~drawn']_loopVars

\* The diagnostic measures a running game: neither the user's pause, nor a
\* page, nor the worker's late write pauses it.  Only a slot whose hotkey was
\* pressed just before can, when its turn comes.
DiagnosticRuns ==
  [][ui.drm /\ ui'.drm /\ ui'.pause => ui.pause \/ EndIteration]_loopVars

\* Pauses are kept, and kept from a measurement.
PauseHonoured == PauseTakesHold /\ DiagnosticRuns

\* An exit that was asked for ends the loop, unless the user has the menu
\* open, whose iterations do not look at it.
ExitHonoured == ui.exit ~> (loopPc = "stopped" \/ ui.info)

\* changelog.txt: "Prevent menu input from leaking into the running core".  A
\* control that was down while a page was open is kept from the core until
\* every control is up, whatever the diagnostic, the pause and further pages do
\* meanwhile, unless the menu was opened in an iteration in which the core
\* could not read (paused, not polling, or by the diagnostic's end).
MenuCaptured ==
  [][CoreReads /\ ~ui.drm /\ held = "page" => latch' \/ unseen]_loopVars
=============================================================================
