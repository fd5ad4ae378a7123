----------------------------- MODULE Benchmark ------------------------------
(***************************************************************************)
(* A benchmark (src/diagnostics/benchmark.cpp): a warm-up, a window in     *)
(* which everything is counted, and a report once the program has stopped  *)
(* what it counts.                                                         *)
(*                                                                         *)
(* Four threads count.  Main opens and closes the window at the top of its *)
(* loop and measures its frames; a picture is posted by the video worker,  *)
(* or by main without one, and shown by it or by the presenter's render    *)
(* thread, after the window has closed perhaps.  A picture therefore keeps *)
(* the generation of the window it was posted in, 0 outside of one, and    *)
(* the report is right only if everybody is done when it is made.          *)
(*                                                                         *)
(* The presenter's buffers and the worker's slot are Presenter and         *)
(* VideoPipeline; here they are a queue and an occupied poster.  Left out: *)
(* the times that are measured, the counters no sum depends on, metadata.  *)
(* A tick of the clock is a quarter of a second.                           *)
(***************************************************************************)
EXTENDS Integers, Sequences

CONSTANTS
  Warmups,   \* the warm-ups that are asked for
  Limits,    \* the limits of frames, 0 for none
  Duration,  \* the window's length
  Delay,     \* confirm_input_delay_seconds
  MaxClock,  \* bound on the clock
  MaxSamples \* bound on the measured frames

\* benchmark_configure has refused the others.
ASSUME BenchAssumption ==
  Warmups \subseteq Nat /\ Limits \subseteq Nat /\ Duration \in Nat \ {0}

VARIABLES
  warmup, limit,      \* the options; a video worker or not
  threaded,
  clock,
  started, completed, failed,
  opened, closed,     \* measurement_started, measurement_ended
  collecting, generation,
  mainPc, going,      \* main, and isRunning
  measured,           \* measureBenchmarkFrame
  core_frames, samples, presented, direct, fallback,
  poster,             \* who posts a picture: its step, and the generation
  shown,              \* the generations of the pictures to be shown
  shower,             \* the render thread: its step, and its picture's
  owed,               \* the pictures of the window, posted or shown
  outcome             \* what the report came to

windowVars == <<started, completed, opened, closed, collecting, generation>>
counterVars == <<core_frames, samples, presented, direct, fallback>>
optionVars == <<warmup, limit, threaded>>
showVars == <<poster, shown, shower, owed>>
benchVars == <<optionVars, clock, windowVars, failed, mainPc, going, measured,
               counterVars, showVars, outcome>>

Step(at, generation_) == [at |-> at, of |-> generation_]
Resting == Step("idle", 0)

-----------------------------------------------------------------------------
(* The window.                                                             *)

\* benchmark_configure, and the program's way to its loop.
BenchInit ==
  /\ warmup \in Warmups /\ limit \in Limits /\ threaded \in BOOLEAN
  /\ clock = 0
  /\ started = FALSE /\ completed = FALSE /\ failed = FALSE
  /\ opened = 0 /\ closed = 0
  /\ collecting = FALSE /\ generation = 0
  /\ mainPc = "warmup" /\ going = TRUE /\ measured = FALSE
  /\ core_frames = 0 /\ samples = 0
  /\ presented = 0 /\ direct = 0 /\ fallback = 0
  /\ poster = Resting /\ shown = << >> /\ shower = Resting /\ owed = 0
  /\ outcome = "none"

LimitReached == limit # 0 /\ core_frames >= limit
WarmedUp == clock >= warmup
Opens == ~failed /\ ~started /\ WarmedUp
Closes ==
  /\ ~failed /\ started /\ ~completed
  /\ LimitReached \/ clock >= opened + Duration

\* reset_counters, and the first generation.
OpenWindow ==
  /\ core_frames' = 0 /\ samples' = 0
  /\ presented' = 0 /\ direct' = 0 /\ fallback' = 0
  /\ opened' = clock /\ started' = TRUE
  /\ generation' = 1 /\ collecting' = TRUE
  /\ UNCHANGED <<completed, closed>>

CloseWindow ==
  /\ collecting' = FALSE /\ closed' = clock /\ completed' = TRUE
  /\ UNCHANGED <<started, opened, generation, counterVars>>

benchmark_update_window ==
  \/ Opens /\ OpenWindow
  \/ Closes /\ CloseWindow
  \/ ~Opens /\ ~Closes /\ UNCHANGED <<windowVars, counterVars>>

\* benchmark_begin_warmup: without a warm-up the window opens at once.
BeginWarmup ==
  /\ mainPc = "warmup" /\ mainPc' = "loop"
  /\ IF warmup = 0 THEN benchmark_update_window
     ELSE UNCHANGED <<windowVars, counterVars>>
  /\ UNCHANGED <<optionVars, clock, failed, going, measured, showVars,
                 outcome>>

\* The synthetic presses: A, then B half a second after its release.
ConfirmPressed ==
  /\ ~started
  /\ clock \in {Delay, Delay + 3}

-----------------------------------------------------------------------------
(* Main's loop.                                                            *)

\* The top of the loop: benchmark_deadline_reached ends it; the hotkeys'
\* requests are dropped; the frame is measured if the window is open now.
LoopTop ==
  /\ mainPc = "loop" /\ going
  /\ samples < MaxSamples \/ Closes
  /\ benchmark_update_window
  /\ going' = ~completed' /\ measured' = collecting'
  /\ mainPc' = IF completed' THEN "stop" ELSE "core"
  /\ UNCHANGED <<optionVars, clock, failed, showVars, outcome>>

LoopEnds ==
  /\ mainPc = "loop" /\ ~going
  /\ mainPc' = "stop"
  /\ UNCHANGED <<optionVars, clock, windowVars, failed, going, measured,
                 counterVars, showVars, outcome>>

\* retro_run shows a picture, if it does: the callback waits for the poster.
VideoCallback ==
  /\ mainPc = "core" /\ poster.at = "idle"
  /\ poster' = Step("given", 0) /\ mainPc' = "returning"
  /\ UNCHANGED <<optionVars, clock, windowVars, failed, going, measured,
                 counterVars, shown, shower, owed, outcome>>

\* retro_run returns, between benchmark_core_begin and _core_end.
CoreEnds ==
  /\ mainPc \in {"core", "returning"}
  /\ mainPc = "returning" => threaded \/ poster.at = "idle"
  /\ core_frames' = IF measured THEN core_frames + 1 ELSE core_frames
  /\ mainPc' = "frame"
  /\ UNCHANGED <<optionVars, clock, windowVars, failed, going, measured,
                 samples, presented, direct, fallback, showVars, outcome>>

\* A frame in which the core does not run.
Paused ==
  /\ mainPc = "core" /\ mainPc' = "frame"
  /\ UNCHANGED <<optionVars, clock, windowVars, failed, going, measured,
                 counterVars, showVars, outcome>>

\* benchmark_frame_end, of a frame that was begun: a sample of each kind.
FrameEnd ==
  /\ mainPc = "frame" /\ mainPc' = "loop"
  /\ samples' = IF measured THEN samples + 1 ELSE samples
  /\ UNCHANGED <<optionVars, clock, windowVars, failed, going, measured,
                 core_frames, presented, direct, fallback, showVars, outcome>>

\* New timing or geometry that cannot be applied: benchmark_abort.
UpdateFails ==
  /\ mainPc = "frame" /\ going
  /\ going' = FALSE /\ failed' = TRUE /\ collecting' = FALSE
  /\ UNCHANGED <<optionVars, clock, started, completed, opened, closed,
                 generation, mainPc, measured, counterVars, showVars, outcome>>

\* The player leaves.
Quit ==
  /\ mainPc = "frame" /\ going
  /\ going' = FALSE
  /\ UNCHANGED <<optionVars, clock, windowVars, failed, mainPc, measured,
                 counterVars, showVars, outcome>>

Tick ==
  /\ clock < MaxClock /\ clock' = clock + 1
  /\ UNCHANGED <<optionVars, windowVars, failed, mainPc, going, measured,
                 counterVars, showVars, outcome>>

-----------------------------------------------------------------------------
(* A picture's way to the screen.                                          *)

\* benchmark_capture_generation.
Capture == IF collecting THEN generation ELSE 0

Owes(generation_) == IF generation_ = 0 THEN 0 ELSE 1

\* A post for the queue, or one straight to the screen, which waits until
\* nothing is queued.
PostQueued ==
  /\ poster.at = "given" /\ poster' = Step("drawing", Capture)
  /\ owed' = owed + Owes(Capture)
  /\ UNCHANGED <<shown, shower>>

PostDirect ==
  /\ poster.at = "given" /\ shown = << >> /\ shower.at = "idle"
  /\ poster' = Step("flipping", Capture)
  /\ owed' = owed + Owes(Capture)
  /\ UNCHANGED <<shown, shower>>

\* The plane refuses the picture, which takes the other way.
DirectFails ==
  /\ poster.at = "flipping" /\ poster' = Step("given", 0)
  /\ owed' = owed - Owes(poster.of)
  /\ UNCHANGED <<shown, shower>>

QueuePicture ==
  /\ poster.at = "drawing" /\ Len(shown) < 2
  /\ shown' = Append(shown, poster.of) /\ poster' = Resting
  /\ UNCHANGED <<shower, owed>>

TakePicture ==
  /\ shower.at = "idle" /\ shown # << >>
  /\ shower' = Step("flipping", Head(shown)) /\ shown' = Tail(shown)
  /\ UNCHANGED <<poster, owed>>

Post == PostQueued \/ PostDirect \/ DirectFails \/ QueuePicture \/ TakePicture
PostStep ==
  /\ Post
  /\ UNCHANGED <<optionVars, clock, windowVars, failed, mainPc, going,
                 measured, counterVars, outcome>>

Ours(generation_) == generation_ # 0 /\ generation_ = generation

\* benchmark_presentation_completed counts in two steps: the picture, then
\* its kind.  Only then may a drain of the presenter return.
PictureShown(thread, kind) ==
  \/ /\ thread.at = "flipping"
     /\ presented' = IF Ours(thread.of) THEN presented + 1 ELSE presented
     /\ UNCHANGED <<direct, fallback>>
  \/ /\ thread.at = "counted" /\ UNCHANGED presented
     /\ LET one == IF thread.of = 0 THEN 0 ELSE 1
        IN  /\ direct' = IF kind = "direct" THEN direct + one ELSE direct
            /\ fallback' =
                 IF kind = "fallback" THEN fallback + one ELSE fallback

\* The generation was looked at before the first of the two.
AfterStep(thread) ==
  IF thread.at = "flipping"
  THEN Step("counted", IF Ours(thread.of) THEN thread.of ELSE 0)
  ELSE Resting

PosterShows ==
  /\ PictureShown(poster, "direct") /\ poster' = AfterStep(poster)
  /\ UNCHANGED <<optionVars, clock, windowVars, failed, mainPc, going,
                 measured, core_frames, samples, shown, shower, owed, outcome>>

RenderShows ==
  /\ PictureShown(shower, "fallback") /\ shower' = AfterStep(shower)
  /\ UNCHANGED <<optionVars, clock, windowVars, failed, mainPc, going,
                 measured, core_frames, samples, poster, shown, owed, outcome>>

-----------------------------------------------------------------------------
(* The end.                                                                *)

\* video_prepare_core_unload: the worker is done, then the presenter.
\* Mutant: the presenter's queue is empty already.
QueueDrained == shown = << >>
PresenterDrained == shown = << >> /\ shower.at = "idle"

StopVideo ==
  /\ mainPc = "stop" /\ mainPc' = "report"
  /\ poster.at = "idle" /\ PresenterDrained
  /\ UNCHANGED <<optionVars, clock, windowVars, failed, going, measured,
                 counterVars, showVars, outcome>>

Valid == ~failed /\ started /\ completed

\* benchmark_finish_and_report: the file may not be writable.
Report ==
  /\ mainPc = "report" /\ mainPc' = "done"
  /\ collecting' = FALSE /\ generation' = 0
  /\ outcome' \in IF ~Valid THEN {"invalid"}
                  ELSE IF presented # direct + fallback THEN {"inconsistent"}
                  ELSE {"ok", "unwritten"}
  /\ UNCHANGED <<optionVars, clock, started, completed, failed, opened, closed,
                 going, measured, counterVars, showVars>>

BenchNext ==
  \/ BeginWarmup \/ LoopTop \/ LoopEnds \/ VideoCallback \/ CoreEnds \/ Paused
  \/ FrameEnd \/ UpdateFails \/ Quit \/ Tick \/ PostStep \/ PosterShows
  \/ RenderShows \/ StopVideo \/ Report

BenchSpec == BenchInit /\ [][BenchNext]_benchVars

-----------------------------------------------------------------------------

\* Each picture of the window is counted once, whoever showed it and however
\* late, and none of another time; a window that was completed is never
\* thrown away as inconsistent.
PicturesCounted ==
  /\ outcome # "inconsistent"
  /\ outcome \in {"ok", "unwritten"} => presented = owed

\* The window is as long as it was asked to be, in time or in frames, every
\* core frame has its samples, and the synthetic presses are over when the
\* first of them is measured.
WindowKept ==
  /\ outcome \in {"ok", "unwritten"} =>
       \/ closed - opened >= Duration
       \/ limit # 0 /\ core_frames = limit
  /\ limit # 0 => core_frames <= limit
  /\ mainPc = "loop" => core_frames <= samples
  /\ measured => ~ConfirmPressed

\* The report (src/diagnostics/benchmark.cpp:416) is about the window that was
\* asked for: its pictures, all of them, and its frames.
ReportTrue == PicturesCounted /\ WindowKept
=============================================================================
