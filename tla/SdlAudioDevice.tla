--------------------------- MODULE SdlAudioDevice ---------------------------
(***************************************************************************)
(* The SDL2 playback provider behind rr_audio_* (audio_backend_sdl2.cpp),  *)
(* as a passive component: a record and one operator per entry point.  The *)
(* module has no variables; the engine owns the record.                    *)
(*                                                                         *)
(* A frame is its production number, so the SDL queue is a sequence of     *)
(* numbers.  Silence the provider inserts itself, volume scaling, time     *)
(* stretching and the statistics are left out: none of them decides        *)
(* whether a call blocks, what it returns or what the device may play.     *)
(***************************************************************************)
EXTENDS Integers, Sequences

CONSTANTS
  TargetQueue,  \* target_queue: SDL's queue above which submit waits
  Prefill,      \* prefill_frames: reserve needed before playback starts
  StableBuffer  \* retrorun_audio_stable_buffer

ASSUME DeviceAssumption ==
  /\ TargetQueue \in Nat \ {0}
  /\ Prefill \in Nat
  /\ StableBuffer \in BOOLEAN

\* The type of the record: open between create and destroy, running when
\* SDL's callback consumes the queue (SDL_PauseAudioDevice(device, 0)),
\* starting while submit has decided on that call but not yet made it; late
\* (history) when frames came in a pause and did not start it.
Device ==
  [open: BOOLEAN, cancelled: BOOLEAN, paused: BOOLEAN, started: BOOLEAN,
   starting: BOOLEAN, running: BOOLEAN, late: BOOLEAN, queue: Seq(Nat)]

\* Without prefill and without the stable buffer playback starts at once.
StartsAtOnce == ~StableBuffer /\ Prefill = 0

NoDevice ==
  [open |-> FALSE, cancelled |-> FALSE, paused |-> FALSE, started |-> FALSE,
   starting |-> FALSE, running |-> FALSE, late |-> FALSE, queue |-> << >>]

DeviceCreate ==
  [NoDevice EXCEPT !.open = TRUE, !.started = StartsAtOnce,
                   !.running = StartsAtOnce]

\* submit leaves its wait loop when the queue has drained to the target or
\* the device was cancelled ...
SubmitReturns(d) == d.cancelled \/ Len(d.queue) <= TargetQueue

\* ... and the frames are queued unless it was cancelled.
SubmitAccepts(d) == ~d.cancelled

\* The submission that completes the reserve decides to start the device.
\* The stable-buffer branch does not look at the paused flag.  Mutants: the
\* reserve branch does not either; an off-by-one.
StartedThoughPaused(d, queue) ==
  StableBuffer \/ (Prefill > 0 /\ Len(queue) >= Prefill)
StartedAbove(d, queue) ==
  \/ StableBuffer
  \/ Prefill > 0 /\ Len(queue) > Prefill /\ ~d.paused
StartedBy(d, queue) ==
  \/ StableBuffer
  \/ Prefill > 0 /\ Len(queue) >= Prefill /\ ~d.paused

DeviceSubmit(d, frames) ==
  LET queue == d.queue \o frames
      start == ~d.started /\ StartedBy(d, queue)
  IN  [d EXCEPT !.queue = queue, !.started = @ \/ start, !.starting = start,
                !.late = @ \/ (d.paused /\ ~d.started /\ ~start)]

\* ... and makes it the last thing submit does.
DeviceStart(d) ==
  [d EXCEPT !.running = @ \/ d.starting, !.starting = FALSE]

\* Clears the SDL queue and arms the next start; a device that has to
\* collect its reserve again is stopped meanwhile.
DeviceFlush(d) ==
  [d EXCEPT !.queue = << >>, !.started = StartsAtOnce,
            !.running = @ /\ StartsAtOnce, !.late = FALSE]

\* Leaving pause starts playback only if the device was started before: a
\* reserve that was completed in the pause does not start it.
DevicePause(d, paused) ==
  [d EXCEPT !.paused = paused,
            !.running = ~paused /\ (@ \/ d.started)]

DeviceCancel(d) == [d EXCEPT !.cancelled = TRUE]

\* SDL's own callback: plays the oldest frame of a running device.
CanPlay(d) == d.open /\ d.running /\ d.queue # << >>

DevicePlay(d) == [d EXCEPT !.queue = Tail(@)]
=============================================================================
