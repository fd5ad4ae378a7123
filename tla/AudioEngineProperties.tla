----------------------- MODULE AudioEngineProperties ------------------------
(***************************************************************************)
(* What the audio engine promises, stated over AudioEngine's state.        *)
(***************************************************************************)
EXTENDS AudioEngine

(* Frames by the place that holds them. *)

DataCommands == {i \in DOMAIN commands : IsData(commands[i])}
QueuedFrames == UNION {commands[i].lo..commands[i].hi : i \in DataCommands}

\* The command the worker popped, until the provider has taken it.
HeldFrames == IF wpc = "submit" THEN wcmd.lo..wcmd.hi ELSE {}

\* Parts of the current chunk are in the deque already although the chunk
\* is erased from the staging only when all of it is.
Unsubmitted == staging - offset
StagedFrames == (produced - Unsubmitted + 1)..produced

DeviceFrames == {device.queue[i] : i \in DOMAIN device.queue}

LiveFrames == StagedFrames \cup QueuedFrames \cup HeldFrames \cup DeviceFrames

-----------------------------------------------------------------------------
MainStages ==
  {"create", "reset", "idle", "unstage", "erase", "send", "await", "direct",
   "retarget", "rebuffer", "close", "cancel", "stop", "destroy", "release",
   "halted"}

\* Every variable keeps its type; frame counts never go below zero (they
\* are size_t in the code, where an underflow wraps around).
TypeOK ==
  /\ threaded \in BOOLEAN /\ coreThread \in BOOLEAN
  /\ buffer \in Nat /\ wanted \in Nat
  /\ staging \in Nat /\ target \in Nat \ {0}
  /\ cbOwner \in {"none", "producer"}
  /\ commands \in Seq(Command) /\ queued \in Nat /\ inFlight \in Nat
  /\ state \in {"Stopped", "Running", "Paused", "Stopping"}
  /\ nextId \in Nat /\ ackedId \in Nat
  /\ asleep \subseteq {"main", "producer", "worker"}
  /\ device \in Device
  /\ backend \in BOOLEAN /\ callbacks \in BOOLEAN /\ ffwd \in BOOLEAN
  /\ mpc \in MainStages
  /\ mop \in ControlNames \cup {"boot", "none", "shutdown"}
  /\ msend \in ControlTypes /\ mid \in Nat
  /\ transition \in BOOLEAN /\ controls \in Nat
  /\ ppc \in {"idle", "lock", "volume", "chunks", "submit", "start"}
  /\ pn \in Nat /\ chunk \in Nat \ {0} /\ offset \in Nat
  /\ wpc \in {"none", "wait", "submit", "submitted", "execute", "publish",
              "ack", "dead"}
  /\ wcmd \in Command
  /\ produced \in Nat /\ settled \in Nat /\ dropped \in Nat /\ flushed \in Nat
  /\ heard \in Nat /\ mark \in Nat /\ barrier \in Nat
  /\ rebuilt \in BOOLEAN /\ untold \in BOOLEAN

\* Every frame the core delivered is accounted for: it is staged, queued, in
\* the worker's hands, was accepted by the provider, or was counted as
\* dropped or discarded by a flush; and queued_frames, which the code keeps
\* by hand in four places, is what the deque really holds.  No frame is lost
\* silently or counted twice, through any interleaving of flushes, refusals
\* and the shutdown (submit_chunk, audio_flush, audio_deinit).
Conservation ==
  /\ produced = settled + dropped + flushed + queued + Unsubmitted
                + (IF wpc = "submit" THEN Size(wcmd) ELSE 0)
  /\ queued = Cardinality(QueuedFrames)

\* Back-pressure works: the frames in the deque and those in the worker's
\* hands together never exceed capacity_frames.
CapacityBound == queued + inFlight <= Capacity

\* Sound is heard in the order it was produced and never twice: every frame
\* upstream is younger than every frame downstream of it, across the
\* staging, the deque, the worker and the provider.
InOrder ==
  /\ \A i, j \in DOMAIN device.queue :
       i < j => device.queue[i] < device.queue[j]
  /\ \A i, j \in DataCommands : i < j => commands[i].hi < commands[j].lo
  /\ \A f \in DeviceFrames : heard < f
  /\ \A f \in HeldFrames : \A g \in DeviceFrames : g < f
  /\ \A f \in QueuedFrames : \A g \in HeldFrames \cup DeviceFrames : g < f
  /\ \A f \in StagedFrames :
       \A g \in QueuedFrames \cup HeldFrames \cup DeviceFrames : g < f

\* No sound is lost, repeated or heard out of order, through any interleaving
\* of callbacks, flushes, refusals and the shutdown.  A change of the sample
\* rate rebuilds the engine without callback_mutex, perhaps under a callback
\* of a core thread: nothing is claimed once one began.
SoundIntact == rebuilt \/ (Conservation /\ InOrder)

\* audio_flush is a barrier: once it has returned, no frame staged before it
\* is left anywhere, so that no sound from before a loaded state, a reset or
\* a pause can be heard after it.
FlushBarrier == \A f \in LiveFrames : f > barrier

\* One thread makes every call to the provider but rr_audio_cancel: the
\* worker, or main when the core has no thread of its own.
ProviderSerialised == threaded \/ ~coreThread

\* While the game is paused the device is silent, also when a core thread
\* goes on producing: the worker has executed the Pause before audio_pause
\* returns, and nothing but a Resume starts the device again.  A core thread
\* that submits without the worker is excluded: its submission may have
\* decided to start the device before the Pause and start it afterwards.  So
\* is a provider that a change of the rate made in the pause: audio_init does
\* not pause it, and main does not say so again.
PausedIsSilent ==
  ProviderSerialised /\ mpc = "idle" /\ transition /\ ~untold =>
    ~device.running /\ state = "Paused"

\* The provider is used only between rr_audio_create and rr_audio_destroy:
\* neither the worker nor a callback that passed its checks can reach a
\* destroyed device; but for a core thread's change of the rate, as above.
BackendAlive ==
  rebuilt \/
    /\ wpc \in {"submit", "execute"} => device.open
    /\ ppc \in {"volume", "chunks", "submit", "start"} => device.open

\* What the provider may expect: no call while it does not exist, and to be
\* left silent in a pause.
ProviderRespected == PausedIsSilent /\ BackendAlive

\* The engine implements the abstract pipe: whatever its threads do, the core
\* and the loudspeaker see a pipe that keeps the order, plays no frame twice
\* and whose flushes are barriers, until the engine is rebuilt under a core
\* thread.
Pipe == INSTANCE AudioPipe WITH pipe <- LiveFrames

ImplementsPipe == Pipe!Init /\ [][Pipe!Next \/ rebuilt']_Pipe!vars

-----------------------------------------------------------------------------
(* Liveness *)

\* A submission waits for room on a device that will not play: it is paused,
\* or it got its reserve in a pause, whose end does not start it.  A core that
\* runs on main gets there when a pause was left behind (restartCore) and it
\* shows no frame that is drawn: main is in the callback, or waits for a
\* worker that is in the submission, and nobody is left to resume the device.
\* Only the cancel of a shutdown or of a change of the rate ends the wait.
Stuck ==
  /\ ~SubmitReturns(device) /\ ~device.running
  /\ device.paused \/ (device.late /\ Len(device.queue) >= Prefill)
  /\ IF threaded THEN wpc = "submit" ELSE ppc = "submit"
  /\ mop \notin {"rate", "shutdown"}

\* Every control operation main starts comes to its end: flush, pause,
\* resume, reconfiguration and shutdown all return, but for the wait above;
\* the shutdown and the new rate return also then.
ControlReturns == (mpc # "idle") ~> (mpc \in {"idle", "halted"} \/ Stuck)

\* audio_deinit comes to its end although the backend is waiting: the
\* shutdown started from the main loop halts.
StopReturns == (mop = "shutdown") ~> (mpc = "halted")

\* Every callback of the core returns: back-pressure delays the core, it
\* never blocks it for good but on a device that is left paused.
CallbackReturns == (ppc # "idle") ~> (ppc = "idle" \/ Stuck)

\* Nobody is blocked for good, neither main in its controls nor the core in a
\* callback, except by a submission that waits for such a device.
ThreadsReturn == ControlReturns /\ CallbackReturns

\* The documented prefill: playback is delayed until the reserve exists, so
\* a core that is blocked by back-pressure ends up with a device that plays,
\* unless it was paused meanwhile.
PlaybackStarts ==
  (ppc = "submit" /\ "producer" \in asleep)
    ~> (device.running \/ ppc = "idle" \/ Stuck)
=============================================================================
