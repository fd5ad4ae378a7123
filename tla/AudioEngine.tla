---------------------------- MODULE AudioEngine ----------------------------
(***************************************************************************)
(* RetroRun's audio engine (src/audio/audio.cpp).  Three threads share it: *)
(*                                                                         *)
(*   main      runs audio_init, audio_flush, audio_pause, audio_resume,    *)
(*             audio_reconfigure and audio_deinit, one at a time;          *)
(*   producer  the thread on which the core calls core_audio_sample and    *)
(*             core_audio_sample_batch.  It is main itself while main is   *)
(*             inside retro_run, or a thread inside the core;              *)
(*   worker    audio_worker_loop, when forceAudioMultithread is set.       *)
(*                                                                         *)
(* A frame is its production number.  A vector of samples holds frames     *)
(* with consecutive numbers, so `staging' is the number of frames staged   *)
(* (the last ones produced) and a Data command is an interval lo..hi.      *)
(*                                                                         *)
(* One action is one critical section of engine.mutex or callback_mutex,   *)
(* or one call into the playback provider.  A notify after the unlock is   *)
(* part of the critical section it follows: predicates are evaluated under *)
(* the mutex, so the delay changes only when a sleeper wakes.  Sleeping is *)
(* explicit (the variable asleep): a waiter runs again only when somebody  *)
(* notifies its condition variable.                                        *)
(***************************************************************************)
EXTENDS SdlAudioDevice, FiniteSets

CONSTANTS
  ThreadModes,  \* the settings of forceAudioMultithread considered
  CoreModes,    \* whether the core has a thread of its own that produces
  Capacity,     \* capacity_frames
  Targets,      \* possible values of frequency / fps, in frames
  Buffers,      \* values of retrorun_audio_buffer; 0 is "not configured"
  Batches,      \* sizes of the batches the core delivers
  Controls,     \* the operations main performs while the game runs ...
  CoreControls, \* ... and those it performs beside a core thread
  QueueMayFail, \* SDL_QueueAudio may return an error
  MaxFrames,    \* bound: frames the core produces
  MaxControls   \* bound: control operations before the shutdown

ControlNames ==
  {"flush", "ffwd", "pause", "resume", "resize", "retime", "rate"}

ASSUME EngineAssumption ==
  /\ ThreadModes \subseteq BOOLEAN /\ CoreModes \subseteq BOOLEAN
  /\ QueueMayFail \in BOOLEAN
  /\ Capacity \in Nat \ {0}
  /\ Targets \subseteq Nat \ {0} /\ Targets # {}
  /\ Buffers \subseteq Nat /\ Batches \subseteq Nat \ {0}
  /\ Controls \subseteq ControlNames /\ CoreControls \subseteq ControlNames
  /\ MaxFrames \in Nat /\ MaxControls \in Nat

VARIABLES
  \* --- fixed for a run of the program
  threaded,     \* forceAudioMultithread
  coreThread,   \* the core produces audio on a thread of its own
  buffer,       \* retrorun_audio_buffer, fixed by the first audio_init
  wanted,       \* new_retrorun_audio_buffer: the menu's choice
  \* --- AudioEngine, guarded by callback_mutex
  staging,      \* frames in the staging vector
  target,       \* target_frames
  cbOwner,      \* holder of callback_mutex: "none" or "producer"
  \* --- AudioEngine, guarded by mutex
  commands,     \* the deque of commands
  queued,       \* queued_frames
  inFlight,     \* in_flight_frames
  state,        \* Stopped, Running, Paused, Stopping
  nextId,       \* next_command_id
  ackedId,      \* acknowledged_id
  asleep,       \* threads blocked on space, ready or acknowledged
  \* --- unguarded
  backend,      \* engine.backend is not null
  device,       \* the provider behind it
  callbacks,    \* core_callbacks_enabled()
  ffwd,         \* input_ffwd_requested
  \* --- threads: program counter and locals
  mpc, mop, msend, mid, transition, controls,
  ppc, pn, chunk, offset,
  wpc, wcmd,
  \* --- history
  produced,     \* frames staged so far; the number of the latest
  settled,      \* frames the provider accepted (and those of earlier engines)
  dropped, flushed, \* frames_dropped, flush_discarded_frames
  heard,        \* the frame last played
  mark,         \* produced when the current flush emptied the staging
  barrier,      \* mark of the last flush that returned
  rebuilt,      \* a change of the rate began beside a core thread
  untold        \* the provider was made in a pause it was not told of

modeVars == <<threaded, coreThread, rebuilt, untold>>
stageVars == <<staging, target, cbOwner>>
dequeVars == <<commands, queued>>
idVars == <<nextId, ackedId>>
lifeVars == <<callbacks, ffwd, backend, buffer, wanted>>
opVars == <<mop, msend, mid, transition, controls>>
mainVars == <<mpc, opVars, lifeVars, mark, barrier>>
producerVars == <<ppc, pn, chunk, offset, produced>>
workerVars == <<wpc, wcmd>>
engineVars == <<stageVars, dequeVars, inFlight, state, idVars, asleep>>
countVars == <<settled, dropped, flushed>>
vars == <<modeVars, engineVars, mainVars, producerVars, workerVars, countVars,
          device, heard>>

-----------------------------------------------------------------------------
(* Commands.                                                               *)

ControlTypes == {"Flush", "Pause", "Resume", "Stop"}
Data(lo, hi) == [type |-> "Data", id |-> 0, lo |-> lo, hi |-> hi]
Control(type, id) == [type |-> type, id |-> id, lo |-> 1, hi |-> 0]
NoCommand == Control("Stop", 0)
Command == [type: ControlTypes \cup {"Data"}, id: Nat, lo: Nat, hi: Nat]

Size(c) == c.hi - c.lo + 1
Frames(c) == [i \in 1..Size(c) |-> c.lo + i - 1]
IsData(c) == c.type = "Data"

\* The commands a flush leaves in the deque.  Mutant: all of them.
EveryCommand(c) == TRUE
IsControl(c) == c.type # "Data"

\* SelectSeq(s, IsControl), without the recursion a proof cannot unfold.
Remaining(s) ==
  LET at == {i \in DOMAIN s : IsControl(s[i])}
      nth(n) == CHOOSE i \in at : Cardinality({j \in at : j <= i}) = n
  IN  [n \in 1..Cardinality(at) |-> s[nth(n)]]

Wake(threads) == asleep' = asleep \ threads
-----------------------------------------------------------------------------
Init ==
  /\ threaded \in ThreadModes /\ coreThread \in CoreModes
  /\ staging = 0 /\ target = 1 /\ cbOwner = "none"
  /\ buffer \in Buffers /\ wanted = buffer
  /\ commands = << >> /\ queued = 0 /\ inFlight = 0 /\ state = "Stopped"
  /\ nextId = 1 /\ ackedId = 0 /\ asleep = {}
  /\ backend = FALSE /\ device = NoDevice
  /\ callbacks = TRUE /\ ffwd = FALSE
  /\ mpc = "create" /\ mop = "boot" /\ msend = "Flush" /\ mid = 0
  /\ transition = FALSE /\ controls = 0
  /\ ppc = "idle" /\ pn = 0 /\ chunk = 1 /\ offset = 0
  /\ wpc = "none" /\ wcmd = NoCommand
  /\ produced = 0 /\ settled = 0 /\ dropped = 0 /\ flushed = 0
  /\ heard = 0 /\ mark = 0 /\ barrier = 0
  /\ rebuilt = FALSE /\ untold = FALSE

-----------------------------------------------------------------------------
(* The producer: core_audio_sample and core_audio_sample_batch.            *)

\* Without a thread of its own the core produces only inside retro_run,
\* which main calls between control operations.  It does so in a pause, too:
\* restartCore closes the menu and leaves pause_requested set, and the game
\* runs with its sound paused until a frame is drawn (FrontendLoop).
\* A core thread starts with the first retro_run, after audio_init.
MayProduce == mop # "boot" /\ (coreThread \/ mpc = "idle")

\* The checks before the lock: callbacks enabled and not fast-forwarding.
CallbackEnter(n) ==
  /\ ppc = "idle" /\ MayProduce /\ produced + n <= MaxFrames
  /\ callbacks /\ ~ffwd
  /\ ppc' = "lock" /\ pn' = n
  /\ UNCHANGED <<modeVars, engineVars, mainVars, chunk, offset, produced,
                 workerVars, countVars, device, heard>>

\* The checks under callback_mutex.  Mutant: none, those before it suffice.
NoRecheck == TRUE
StillWanted == callbacks /\ backend

CallbackLock ==
  /\ ppc = "lock" /\ cbOwner = "none"
  /\ IF StillWanted
     THEN ppc' = "volume" /\ cbOwner' = "producer"
     ELSE ppc' = "idle" /\ UNCHANGED cbOwner
  /\ UNCHANGED <<modeVars, staging, target, dequeVars, inFlight, state, idVars,
                 asleep, mainVars, pn, chunk, offset, produced, workerVars,
                 countVars, device, heard>>

\* update_volume() calls the provider; core_audio_sample_batch, not
\* core_audio_sample, takes over the menu's choice; then the batch is staged
\* and flush_staging_chunks reads the threshold once for all its chunks.
CallbackStage ==
  /\ ppc = "volume"
  /\ \/ target' = IF wanted > 0 THEN wanted ELSE target
     \/ pn = 1 /\ UNCHANGED target
  /\ staging' = staging + pn /\ produced' = produced + pn
  /\ chunk' = target' /\ ppc' = "chunks"
  /\ UNCHANGED <<modeVars, cbOwner, dequeVars, inFlight, state, idVars, asleep,
                 mainVars, pn, offset, workerVars, countVars, device, heard>>

\* flush_staging_chunks: the next full chunk, or the end of the callback.
CallbackNext ==
  /\ ppc = "chunks" /\ (staging >= chunk => backend)
  /\ IF staging >= chunk
     THEN ppc' = "submit" /\ UNCHANGED cbOwner
     ELSE ppc' = "idle" /\ cbOwner' = "none"
  /\ UNCHANGED <<modeVars, staging, target, dequeVars, inFlight, state, idVars,
                 asleep, mainVars, pn, chunk, offset, produced, workerVars,
                 countVars, device, heard>>

\* staging.erase(begin, begin + target).  Erasing more than is there is
\* undefined; it needs an unlocked clear (audio_deinit) under a callback.
\* Mutant: the staging cleared.
UnstagedAll(n) == 0
Unstaged(n) == IF staging >= n THEN staging - n ELSE 0

\* The staged frame the chunk starts with.  Mutant: the part of the chunk
\* submitted before is submitted again.
PartRepeated == produced - staging + 1 - offset
Oldest == IF produced >= staging THEN produced - staging + 1 ELSE 1

Part == IF Capacity <= chunk - offset THEN Capacity ELSE chunk - offset

\* The wait predicate on `space'.  Mutant: frames in flight take no room.
FitsDeque == queued + Part <= Capacity
Fits == queued + inFlight + Part <= Capacity

\* submit_chunk, threaded: one turn of its loop under engine.mutex, entered
\* anew after each notification of `space'.
SubmitPush ==
  /\ threaded /\ ppc = "submit" /\ "producer" \notin asleep
  /\ state # "Stopping" /\ Fits
  /\ commands' = Append(commands,
                        Data(Oldest + offset, Oldest + offset + Part - 1))
  /\ queued' = queued + Part
  /\ Wake({"worker"})
  /\ IF offset + Part = chunk
     THEN staging' = Unstaged(chunk) /\ offset' = 0 /\ ppc' = "chunks"
     ELSE offset' = offset + Part /\ UNCHANGED <<staging, ppc>>
  /\ UNCHANGED <<modeVars, target, cbOwner, inFlight, state, idVars, mainVars,
                 pn, chunk, produced, workerVars, countVars, device, heard>>

SubmitWait ==
  /\ threaded /\ ppc = "submit" /\ "producer" \notin asleep
  /\ state # "Stopping" /\ ~Fits
  /\ asleep' = asleep \cup {"producer"}
  /\ UNCHANGED <<modeVars, stageVars, dequeVars, inFlight, state, idVars,
                 mainVars, producerVars, workerVars, countVars, device, heard>>

SubmitRefused ==
  /\ threaded /\ ppc = "submit" /\ "producer" \notin asleep
  /\ state = "Stopping"
  /\ dropped' = dropped + (chunk - offset)
  /\ staging' = Unstaged(chunk) /\ offset' = 0 /\ ppc' = "chunks"
  /\ UNCHANGED <<modeVars, target, cbOwner, dequeVars, inFlight, state, idVars,
                 asleep, mainVars, pn, chunk, produced, workerVars, settled,
                 flushed, device, heard>>

\* What a submission of n frames does to the provider and the counters.
ProviderTakes(c) ==
  \/ /\ SubmitAccepts(device)
     /\ device' = DeviceSubmit(device, Frames(c))
     /\ settled' = settled + Size(c)
     /\ UNCHANGED dropped
  \/ /\ ~SubmitAccepts(device) \/ QueueMayFail
     /\ dropped' = dropped + Size(c)
     /\ UNCHANGED <<settled, device>>

\* submit_chunk, not threaded: the callback itself waits for the provider.
SubmitDirect ==
  /\ ~threaded /\ ppc = "submit" /\ SubmitReturns(device)
  /\ ProviderTakes(Data(Oldest, Oldest + chunk - 1))
  /\ staging' = Unstaged(chunk) /\ ppc' = "start"
  /\ UNCHANGED <<modeVars, target, cbOwner, dequeVars, inFlight, state, idVars,
                 asleep, mainVars, pn, chunk, offset, produced, workerVars,
                 flushed, heard>>

\* The end of that submission.  A control operation of main may have come
\* between the decision to start the device and the start.
SubmitStart ==
  /\ ppc = "start"
  /\ device' = DeviceStart(device) /\ ppc' = "chunks"
  /\ UNCHANGED <<modeVars, engineVars, mainVars, pn, chunk, offset, produced,
                 workerVars, countVars, heard>>

\* submit_chunk returns at once without a backend; the chunk is erased.
SubmitNowhere ==
  /\ ppc = "chunks" /\ staging >= chunk /\ ~backend
  /\ staging' = Unstaged(chunk)
  /\ UNCHANGED <<modeVars, target, cbOwner, dequeVars, inFlight, state, idVars,
                 asleep, mainVars, producerVars, workerVars, countVars, device,
                 heard>>

Submit == \/ SubmitNowhere \/ SubmitPush \/ SubmitWait \/ SubmitRefused
          \/ SubmitDirect \/ SubmitStart

Producer ==
  \/ \E n \in Batches : CallbackEnter(n)
  \/ CallbackLock \/ CallbackStage \/ CallbackNext \/ Submit

-----------------------------------------------------------------------------
(* The worker: audio_worker_loop.                                          *)

WorkerSleep ==
  /\ wpc = "wait" /\ "worker" \notin asleep /\ commands = << >>
  /\ asleep' = asleep \cup {"worker"}
  /\ UNCHANGED <<modeVars, stageVars, dequeVars, inFlight, state, idVars,
                 mainVars, producerVars, workerVars, countVars, device, heard>>

\* The front command moves out of the deque; the pop notifies `space'.
WorkerPop ==
  /\ wpc = "wait" /\ "worker" \notin asleep /\ commands # << >>
  /\ wcmd' = Head(commands) /\ commands' = Tail(commands)
  /\ IF IsData(Head(commands))
     THEN /\ queued' = queued - Size(Head(commands))
          /\ inFlight' = Size(Head(commands))
          /\ wpc' = "submit"
     ELSE wpc' = "execute" /\ UNCHANGED <<queued, inFlight>>
  /\ Wake({"producer"})
  /\ UNCHANGED <<modeVars, stageVars, state, idVars, mainVars, producerVars,
                 countVars, device, heard>>

\* rr_audio_submit, outside the lock: returns when the provider lets it.
WorkerSubmit ==
  /\ wpc = "submit" /\ SubmitReturns(device)
  /\ ProviderTakes(wcmd)
  /\ wpc' = "submitted"
  /\ UNCHANGED <<modeVars, engineVars, mainVars, producerVars, wcmd, flushed,
                 heard>>

\* The end of the submission, which no other call to the provider can meet
\* (all but rr_audio_cancel are the worker's); then in_flight_frames = 0, and
\* the second notification of `space'.
WorkerSettle ==
  /\ wpc = "submitted"
  /\ device' = DeviceStart(device)
  /\ inFlight' = 0 /\ wpc' = "wait"
  /\ Wake({"producer"})
  /\ UNCHANGED <<modeVars, stageVars, dequeVars, state, idVars, mainVars,
                 producerVars, wcmd, countVars, heard>>

\* The provider call of a control command.
Executed(type) ==
  CASE type = "Flush"  -> DeviceFlush(device)
    [] type = "Pause"  -> DevicePause(device, TRUE)
    [] type = "Resume" -> DevicePause(device, FALSE)
    [] OTHER           -> device

WorkerExecute ==
  /\ wpc = "execute"
  /\ device' = Executed(wcmd.type)
  /\ wpc' = IF wcmd.type \in {"Pause", "Resume"} THEN "publish" ELSE "ack"
  /\ UNCHANGED <<modeVars, engineVars, mainVars, producerVars, wcmd, countVars,
                 heard>>

\* Pause and Resume record the new state before they are acknowledged.
WorkerPublish ==
  /\ wpc = "publish"
  /\ state' = IF wcmd.type = "Pause" THEN "Paused" ELSE "Running"
  /\ wpc' = "ack"
  /\ UNCHANGED <<modeVars, stageVars, dequeVars, inFlight, idVars, asleep,
                 mainVars, producerVars, wcmd, countVars, device, heard>>

WorkerAck ==
  /\ wpc = "ack"
  /\ ackedId' = IF wcmd.id > ackedId THEN wcmd.id ELSE ackedId
  /\ Wake({"main"})
  /\ wpc' = IF wcmd.type = "Stop" THEN "dead" ELSE "wait"
  /\ UNCHANGED <<modeVars, stageVars, dequeVars, inFlight, state, nextId,
                 mainVars, producerVars, wcmd, countVars, device, heard>>

Worker == \/ WorkerSleep \/ WorkerPop \/ WorkerSubmit \/ WorkerSettle
          \/ WorkerExecute \/ WorkerPublish \/ WorkerAck

-----------------------------------------------------------------------------
(* Main: the control operations.                                           *)

\* Main's own thread runs the callbacks when the core has none.
MainIdle == mpc = "idle" /\ (coreThread \/ ppc = "idle")

\* The first stage of each operation.
FirstStage(op) ==
  CASE op = "resume"             -> IF threaded THEN "send" ELSE "direct"
    [] op \in {"rate", "shutdown"} -> "close"
    [] OTHER                     -> "unstage"

\* What the main loop calls for: a pause or resume on an edge of
\* pause_requested, a flush for a reset, a loaded state or a disk change, a
\* flush when fast-forward starts, another buffer size from the menu, and
\* new timing or a new sample rate after retro_run.
Calls(op) ==
  /\ op = "pause" => ~transition
  /\ op = "resume" => transition

Begin(op) ==
  /\ MainIdle /\ op \in (IF coreThread THEN CoreControls ELSE Controls)
  /\ controls < MaxControls /\ Calls(op)
  /\ controls' = controls + 1
  /\ mop' = op /\ msend' = IF op = "resume" THEN "Resume" ELSE "Flush"
  /\ transition' = (op = "pause" \/ (transition /\ op # "resume"))
  /\ ffwd' = IF op = "ffwd" THEN ~ffwd ELSE ffwd
  /\ wanted' \in (IF op = "resize" THEN Buffers ELSE {wanted})
  /\ mpc' = IF op = "resize" \/ (op = "ffwd" /\ ffwd) THEN "idle"
            ELSE FirstStage(op)
  /\ rebuilt' = (rebuilt \/ (coreThread /\ op = "rate"))
  /\ untold' = (op \notin {"pause", "resume"}
                   /\ (untold \/ (op = "rate" /\ transition)))
  /\ UNCHANGED <<threaded, coreThread, engineVars, mid, callbacks, backend,
                 buffer, mark, barrier, producerVars, workerVars, countVars,
                 device, heard>>

\* The end of main(): core_disable_callbacks, then audio_deinit.
BeginShutdown ==
  /\ MainIdle
  /\ mop' = "shutdown" /\ callbacks' = FALSE /\ mpc' = FirstStage("shutdown")
  /\ UNCHANGED <<modeVars, engineVars, msend, mid, transition, controls, ffwd,
                 backend, buffer, wanted, mark, barrier, producerVars,
                 workerVars, countVars, device, heard>>

\* audio_flush and audio_deinit clear the staging under callback_mutex.
ClearStaging(next) ==
  /\ cbOwner = "none"
  /\ flushed' = flushed + staging /\ staging' = 0
  /\ mark' = produced
  /\ mpc' = next
  /\ UNCHANGED <<modeVars, target, cbOwner, dequeVars, inFlight, state, idVars,
                 asleep, opVars, lifeVars, barrier, producerVars, workerVars,
                 settled, dropped, device, heard>>

FlushStaging ==
  /\ mpc = "unstage"
  /\ ClearStaging(IF threaded THEN "erase" ELSE "direct")

\* audio_flush: the Data commands leave the deque.
FlushErase ==
  /\ mpc = "erase"
  /\ commands' = Remaining(commands)
  /\ queued' = 0 /\ flushed' = flushed + queued
  /\ Wake({"producer"})
  /\ mpc' = "send"
  /\ UNCHANGED <<modeVars, stageVars, inFlight, state, idVars, opVars,
                 lifeVars, mark, barrier, producerVars, workerVars, settled,
                 dropped, device, heard>>

\* enqueue_control: Stop goes to the front, everything else to the back.
SendControl ==
  /\ mpc = "send"
  /\ LET control == Control(msend, nextId)
     IN  commands' = IF msend = "Stop" THEN <<control>> \o commands
                                       ELSE Append(commands, control)
  /\ mid' = nextId /\ nextId' = nextId + 1
  /\ Wake({"worker"})
  /\ mpc' = "await"
  /\ UNCHANGED <<modeVars, stageVars, queued, inFlight, state, ackedId, mop,
                 msend, transition, controls, lifeVars, mark, barrier,
                 producerVars, workerVars, countVars, device, heard>>

\* The wait predicate on `acknowledged'.  Mutants: a flag instead of the
\* command's number; an off-by-one.
AnyAcknowledged == ackedId > 0
NextAcknowledged == ackedId > mid
Acknowledged == ackedId >= mid

\* wait_ack blocks on `acknowledged' ...
AwaitSleep ==
  /\ mpc = "await" /\ "main" \notin asleep /\ ~Acknowledged
  /\ asleep' = asleep \cup {"main"}
  /\ UNCHANGED <<modeVars, stageVars, dequeVars, inFlight, state, idVars,
                 mainVars, producerVars, workerVars, countVars, device, heard>>

\* The stage that follows a completed command.
NextStage(type) ==
  CASE type = "Flush" /\ mop = "pause"  -> "send"
    [] type = "Flush" /\ mop = "retime" -> "retarget"
    [] type = "Stop"                    -> "destroy"
    [] OTHER                            -> "idle"

\* ... until the worker has executed the command.
AwaitDone ==
  /\ mpc = "await" /\ "main" \notin asleep /\ Acknowledged
  /\ mpc' = NextStage(msend)
  /\ msend' = IF msend = "Flush" /\ mop = "pause" THEN "Pause" ELSE msend
  /\ barrier' = IF msend = "Flush" THEN mark ELSE barrier
  /\ UNCHANGED <<modeVars, engineVars, mop, mid, transition, controls,
                 lifeVars, mark, producerVars, workerVars, countVars, device,
                 heard>>

\* Without a worker main calls the provider itself.
DirectControl ==
  /\ mpc = "direct"
  /\ device' = Executed(msend)
  /\ state' = IF msend = "Pause" THEN "Paused"
              ELSE IF msend = "Resume" THEN "Running" ELSE state
  /\ mpc' = IF msend = "Flush" /\ mop = "pause" THEN "direct"
            ELSE NextStage(msend)
  /\ msend' = IF msend = "Flush" /\ mop = "pause" THEN "Pause" ELSE msend
  /\ barrier' = IF msend = "Flush" THEN mark ELSE barrier
  /\ UNCHANGED <<modeVars, stageVars, dequeVars, inFlight, idVars, asleep, mop,
                 mid, transition, controls, lifeVars, mark, producerVars,
                 workerVars, countVars, heard>>

\* audio_reconfigure at the same frequency: the threshold is written twice,
\* without callback_mutex: the new timing first, then the buffer size, which
\* audio_init has set if the configuration had not.
Retarget ==
  /\ mpc \in {"retarget", "rebuffer"}
  /\ IF mpc = "retarget"
     THEN target' \in Targets /\ mpc' = "rebuffer"
     ELSE target' = buffer /\ mpc' = "idle"
  /\ UNCHANGED <<modeVars, staging, cbOwner, dequeVars, inFlight, state,
                 idVars, asleep, opVars, lifeVars, mark, barrier, producerVars,
                 workerVars, countVars, device, heard>>

\* audio_deinit, in the order of the code: the staging under callback_mutex,
CloseStaging == mpc = "close" /\ ClearStaging("cancel")

\* then rr_audio_cancel,
CloseCancel ==
  /\ mpc = "cancel"
  /\ device' = DeviceCancel(device)
  /\ mpc' = IF threaded THEN "stop" ELSE "destroy"
  /\ UNCHANGED <<modeVars, engineVars, opVars, lifeVars, mark, barrier,
                 producerVars, workerVars, countVars, heard>>

\* then Stopping and an empty deque,
CloseStop ==
  /\ mpc = "stop"
  /\ state' = "Stopping"
  /\ commands' = << >> /\ queued' = 0 /\ flushed' = flushed + queued
  /\ Wake({"producer"})
  /\ mpc' = "send" /\ msend' = "Stop"
  /\ UNCHANGED <<modeVars, stageVars, inFlight, idVars, mop, mid, transition,
                 controls, lifeVars, mark, barrier, producerVars, workerVars,
                 settled, dropped, device, heard>>

\* then, once Stop is acknowledged, worker.join() and rr_audio_destroy,
CloseDestroy ==
  /\ mpc = "destroy" /\ (threaded => wpc = "dead")
  /\ device' = NoDevice
  /\ mpc' = "release"
  /\ UNCHANGED <<modeVars, engineVars, opVars, lifeVars, mark, barrier,
                 producerVars, workerVars, countVars, heard>>

\* and last the backend pointer, the staging again and the state, unlocked.
CloseRelease ==
  /\ mpc = "release"
  /\ backend' = FALSE /\ staging' = 0 /\ state' = "Stopped"
  /\ mpc' = IF mop = "shutdown" THEN "halted" ELSE "create"
  /\ UNCHANGED <<modeVars, target, cbOwner, dequeVars, inFlight, idVars,
                 asleep, opVars, callbacks, ffwd, buffer, wanted, mark,
                 barrier, producerVars, workerVars, countVars, device, heard>>

\* audio_init: the backend becomes visible first,
CreateBackend ==
  /\ mpc = "create"
  /\ device' = DeviceCreate /\ backend' = TRUE
  /\ mpc' = "reset"
  /\ UNCHANGED <<modeVars, engineVars, opVars, callbacks, ffwd, buffer, wanted,
                 mark, barrier, producerVars, workerVars, countVars, heard>>

\* then every field is reset, unlocked, and the worker started.
ResetEngine ==
  /\ mpc = "reset"
  /\ target' \in (IF buffer = 0 THEN Targets ELSE {buffer})
  /\ buffer' = target'
  /\ staging' = 0 /\ commands' = << >> /\ queued' = 0 /\ inFlight' = 0
  /\ state' = "Running" /\ nextId' = 1 /\ ackedId' = 0
  /\ settled' = produced /\ dropped' = 0 /\ flushed' = 0
  /\ wpc' = IF threaded THEN "wait" ELSE "none"
  /\ mop' = "none" /\ mpc' = "idle"
  /\ UNCHANGED <<modeVars, cbOwner, asleep, msend, mid, transition, controls,
                 callbacks, ffwd, backend, wanted, mark, barrier, producerVars,
                 wcmd, device, heard>>

Main ==
  \/ \E op \in ControlNames : Begin(op)
  \/ BeginShutdown
  \/ FlushStaging \/ FlushErase \/ SendControl \/ AwaitSleep \/ AwaitDone
  \/ DirectControl \/ Retarget
  \/ CloseStaging \/ CloseCancel \/ CloseStop \/ CloseDestroy \/ CloseRelease
  \/ CreateBackend \/ ResetEngine

-----------------------------------------------------------------------------
\* SDL's callback thread plays one frame.
Play ==
  /\ CanPlay(device)
  /\ heard' = Head(device.queue) /\ device' = DevicePlay(device)
  /\ UNCHANGED <<modeVars, engineVars, mainVars, producerVars, workerVars,
                 countVars>>

\* The process is over; whatever the core's thread still calls is refused.
Halted == mpc = "halted" /\ ppc = "idle" /\ UNCHANGED vars

Next == Producer \/ Worker \/ Main \/ Play \/ Halted

Spec == Init /\ [][Next]_vars

\* Threads are scheduled and the device plays what it may play.  Main is not
\* obliged to start an operation, nor the core to produce.
MainStep == Main /\ mpc # "idle"
ProducerStep == Producer /\ ppc # "idle"

FairSpec ==
  /\ Spec
  /\ WF_vars(ProducerStep) /\ WF_vars(Worker) /\ WF_vars(MainStep)
  /\ WF_vars(Play)
=============================================================================
