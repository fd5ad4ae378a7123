# RetroRun in TLA+

A verification project for [RetroRun](../src/README.md), a libretro frontend
for handheld consoles written in C++.  It models the parts of the program in
which several threads meet, and the sequential parts in which long series of
calls or failures in the middle can go wrong; states what makes them correct,
checks the models with TLC on small instances and proves the most important
invariants with TLAPS for every value of the constants.

Paths below are relative to `src/src/` unless they begin with `doc/` or
`tests/`.

## 1. Inventory

RetroRun is one process.  The *main* thread loads a libretro core, calls its
`retro_run` once per frame, and handles input, menus and services in between.
The core calls back for video, audio and input, usually from inside
`retro_run`, that is on main; some cores (Flycast with its threaded renderer)
call back from a thread of their own.  Beside these the frontend starts an
audio worker, a video worker, a presenter thread, a load-state worker, HTTP
and hash workers for achievements, a network poller and an animator during
startup.

| Component | State | Operations | Hard behaviour | What makes it correct |
|---|---|---|---|---|
| Audio engine (`audio/audio.cpp`) | staging vector, threshold, deque of commands with hand-kept frame counts, state, command ids | `core_audio_sample(_batch)`, `audio_flush/pause/resume/reconfigure/init/deinit`, worker loop | three threads, two mutexes, three condition variables; a producer that sleeps holding a mutex | order, bounded, no frame lost silently, flush is a barrier, paused is silent, every operation returns |
| SDL2 audio provider (`audio/audio_backend_sdl2.cpp`) | SDL queue, `started`, `paused`, `cancelled` | create, submit, flush, pause, cancel, destroy | waits for the device; the device's own thread drains it | starts when the reserve exists, never while paused |
| GO2 / OpenAL provider (`go2/audio.cpp`), selection (`audio/platform_audio_hybrid.cpp`) | recycled OpenAL buffers; a function table | as above | same contract | same |
| Presenter (`go2/display.cpp`, `go2/queue.cpp`) | two buffers, free and used queue, two semaphores, a pending count | post, post_direct, drain, destroy, render thread | semaphore and queue are separate; a shutdown wakes the thread once | no buffer drawn while scanned out, none lost, drain means drained |
| Video pipeline (`video/video.cpp`) | pending slot, frame in flight, locked scan-out surface | `core_video_refresh`, submit, drain, stop, geometry change, unload | main waits for the worker, the worker for the presenter | each locked surface is released exactly once; nothing on its way to the screen after a drain |
| Pending AV updates (`core/pending_video_updates.h`) | geometry and timing posted by the core | post, take | producer on a core thread | last update wins, none is lost |
| Save states (`core/savestate.cpp`, `core/state_*.h`) | slot files, preview, sidecar, an asynchronous load | save, load, pump, shutdown | crash between two files; save while a load runs | a sidecar never describes another state |
| Core loader (`core/core_loader.cpp`, `core/core_option_resolution.h`) | library handle, callbacks gate, options | load, unload, option updates | staged load with rollback | callbacks only between load and unload |
| Disk control (`core/disk_control.cpp`) | ejected, image index | eject, select, insert | one of three steps fails | the disk that was in comes back |
| Archive content, VFS (`core/archive_content.cpp`, `core/vfs.h`) | extraction directory, files | extract, open, remove | ownership of the temporary directory | removed exactly once |
| Main loop (`main.cpp`) | frame counters, pending requests | one iteration; startup and shutdown order | order of eight services at exit | nothing used after it is destroyed |
| Input (`input/*.cpp`, `go2/input.cpp`) | button states, hotkey combinations | poll, edge detection | combinations that overlap | each press acts once |
| Menus (`menu/*.cpp`) | stack of menus, selection | navigate, change a value | a value shared with a core thread | selection stays in range |
| Configuration (`config/config.cpp`, `config_file.cpp`, `globals.cpp`) | a table of globals, a file | read, rewrite | atomic rewrite | old or new file, never half of one |
| Flycast catalog (`config/flycast_*.cpp`, `catalog_precedence.h`) | profiles | lookup, update | precedence of four sources | the documented precedence |
| Achievements (`services/achievements.cpp`, `achievement_disc.cpp`) | client, HTTP and hash workers | login, identify, change media, shutdown | late answers of cancelled requests | no answer applied to another game |
| Network status (`services/network_status.cpp`) | a flag, a worker | start, stop | stop while it sleeps | stop returns |
| Decoration catalog (`video/decoration_catalog.cpp`) | cache files, a download | request, cancel | shutdown during a download | no half-written file is used |
| Composition, fonts, UI (`video/video-helper.cpp`, ...) | pixels | draw | none a model would tell apart | - |
| Benchmark (`diagnostics/benchmark.cpp`) | a window, counters, a generation | open, close, count, report | four threads count, some after the window has closed | every picture of the window counted once |
| GO2 display (`go2/display.cpp`, `platform/platform_go2.cpp`) | descriptors, buffers, GBM and EGL objects | create, resize, lock, destroy | ten steps that may fail; objects that need each other | nothing outlives what it needs, nothing is left |
| Core's environment calls (`core/core_loader.cpp`) | options, format, renderer, devices, counters | register, read, request, told once | repeated, refused and late calls | what was granted last is what is made and told |
| SDL2 picture (`platform/platform_sdl.cpp`) | surfaces, textures by address, one overlay texture, GL bindings | create, map, present, swap, resize | addresses used again, uploads that fail, a GL context shared with the core | what is shown is what is there; the core finds its GL state |
| File browser, system info, logger, js2xbox | - | I/O | - | - |

How they interact: main owns every component and calls it; the core's
callbacks enter the audio engine and the video pipeline; the audio worker is
the only caller of the audio provider when it exists; main and the video
worker both post to the presenter; a load, a reset or a disk change
synchronises the video pipeline first, and a load or a disk change flushes the
audio engine as well; the shutdown stops the services one after the other and
disables the callbacks before it closes audio and video.

The hazards of each part, with their lines, are in `PROJECT.json`.

## 2. Modules and plan

| Order | Module | Models | State |
|---|---|---|---|
| 1 | `SdlAudioDevice` | the SDL2 provider as operators on one record | done |
| 1 | `AudioEngine` | `audio.cpp` with its callers, composed with the device | done |
| 1 | `AudioPipe` | what the engine promises: a pipe that may lose frames, keeps their order and can be flushed | done |
| 1 | `AudioEngineProperties`, `MCAudioEngine`, `AudioEngineProofs`, `AudioSoundProofs` | properties, instances, proofs | done |
| 2 | `Presenter` | `go2_presenter`: buffers, queues, semaphores, render thread | done |
| 2 | `VideoPipeline` | the hardware path of `video.cpp`, EXTENDS `Presenter` | done |
| 2 | `VideoProperties`, `MCVideo`, `VideoProofs`, `VideoSurfaceProofs` | properties, instances, proofs | done |
| 3 | `SaveStates`, `CoreProofs` | the asynchronous load; state, sidecar and preview as files that survive a crash | done |
| 4 | `CoreLifecycle`, `CoreProofs` | a process from its arguments to its end: loading in stages, restart with another core, the shutdown order, every failing exit | done |
| 4 | `AvUpdates`, `FrontendProofs` | geometry and timing posted by the core | done |
| 5 | `Achievements`, `FrontendProofs` | the hashing thread, the requests, media changes by the disk control, restarts of the service | done |
| 5 | `AchievementView`, `InputProofs` | the list of achievements and the notifications | done |
| 6 | `FrontendLoop`, `FrontendProofs` | an iteration of the loop, hotkeys, pause, menu, diagnostic, input latch | done |
| 6 | `FramePacing`, `FrontendProofs` | fixed and adaptive frame skipping, across `main.cpp`, `video.cpp` and the settings | done |
| 6 | `MenuNavigation`, `SdlInput`, `InputProofs` | the stack of menus; gamepads, keys and the text editor of the SDL platform | done |
| 7 | `Go2Audio`, `FrontendProofs` | the OpenAL provider with its buffers and underruns | done |
| 7 | `ConfigFile` | parsing, quoting and rewriting of the configuration file | done |
| 7 | `Decorations`, `FrontendProofs` | packs downloaded by a thread; the scaling a decoration forces | done |
| 8 | `GameProfiles`, `FrontendProofs` | the profile a Flycast game runs with: composition, selection, precedence, restart, options the core reads | done |
| 8 | `CatalogUpdate`, `FrontendProofs` | which catalog a launch uses, and the process that looks for a newer one | done |
| 8 | `Go2Pad`, `InputProofs` | the evdev gamepad of the GO2 platform: the thread that reads it, the copy main takes, its end | done |
| 8 | `Controls`, `InputProofs` | what the core reads of a gamepad: layouts, remapping, turned pictures, sticks that stand for the pad | done |
| 9 | `Preferences` | what the settings are: file, command line, benchmark, profile, menu, restarts | done |
| 9 | `Geometry`, `CoreProofs` | the sizes a core asks for, its surface or context, and the rectangle of the panel a frame is scaled to | done |
| 10 | `Benchmark`, `DisplayProofs` | the measured window of a benchmark, the pictures shown late, and its report | done |
| 10 | `Go2Resources`, `DisplayProofs` | what the GO2 display owns: card, buffers, threads, GBM and EGL objects; every way in and out | done |
| 11 | `CoreEnvironment`, `CoreProofs` | what a core asks of the frontend in its environment calls, from its load to its end | done |
| 11 | `SdlVideo`, `DisplayProofs` | the SDL2 platform's surfaces, textures and window, and its two ways to show a frame | done |
| 3-11 | `InputProperties` | what the list, the menus and the gamepads of both platforms promise together | done |
| 3-11 | `MCFrontend`, `MCSettings` | the instances of the modules 3 to 11: what runs beside the core, and what is chosen, opened and measured for it | done |

Abstract specifications: `AudioPipe` is implemented by `AudioEngine`
(`ImplementsPipe`, whose mapping takes the set of the frames on their way for
the pipe); `PresenterSpec` is what the presenter may expect of any callers, and
`VideoPipeline` keeps to it (`KeepsContract`).  Both are checked and proved.

What could come next: the decoration's surface inside `VideoPipeline` (hazard at
main.cpp:1860); the proof of what `Preferences` says of the settings before they
are written, and of where `Geometry` puts the picture on the panels there are.

No module that a theorem is about uses a `RECURSIVE` operator.

## 3. The audio engine

### Correspondence

`AudioEngine` has four processes: **main** (`mpc`), the **producer**
(`ppc`), which is main itself inside `retro_run` or a thread of the core
(`coreThread`), the **worker** (`wpc`), and the device's own thread
(`Play`).  A core without a thread produces between two operations of main, in
a pause, too: `restartCore` closes the menu and leaves `pause_requested` set, so
that the loop pauses the sound and runs the game until a frame that is drawn
corrects the flag (finding 37).

One action is one critical section of `engine.mutex`, one call of the provider,
or one unlocked step; a wait on a condition variable is a pair of
actions, one that goes to sleep with its predicate false and one that goes on.

| Code | Model |
|---|---|
| `core_audio_sample(_batch)` 602-632 | `CallbackEnter`, `CallbackLock`, `CallbackStage` |
| `flush_staging_chunks`, `submit_chunk` 300-355 | `CallbackNext`, `SubmitPush/Wait/Refused`, without the worker `SubmitDirect/Start/Nowhere` |
| `audio_worker_loop` 216-277 | `WorkerSleep/Pop/Submit/Settle/Execute/Publish/Ack` |
| `enqueue_control`, `wait_ack` 279-297 | `SendControl`, `AwaitSleep`, `AwaitDone` |
| `audio_flush`, `audio_pause`, `audio_resume` 484-536 | `Begin`, `FlushStaging`, `FlushErase`, `DirectControl` |
| `audio_reconfigure` 468-482 | flush, then `Retarget`, or at a new rate the closing and `CreateBackend`, `ResetEngine` |
| `audio_deinit` 538-573 | `CloseStaging/Cancel/Stop/Destroy/Release` |
| `audio_backend_sdl2.cpp` | the operators of `SdlAudioDevice` on the record `device` |

A frame is its number in the order of production; a command is a record; the
sound itself is not modelled.

### Runs

* `audio_safety`: batches of 1 or 3 frames into a capacity of 2, so that a
  batch is split; 4 frames, enough for one queued, one in flight, one on the
  device and one staged at once; 2 control operations, so that every ordered
  pair of flush, pause, resume, fast-forward, resize, retime and rate occurs; a queue that may refuse a chunk; with and without
  worker and core thread.  Shows that every
  frame is staged, queued, in flight, on the device, played, or counted as
  dropped or discarded (`Conservation`), in order (`InOrder`; both are
  `SoundIntact`), within the
  capacity, that nothing staged before a flush survives it (`FlushBarrier`),
  that a paused device plays nothing (`PausedIsSilent`; not claimed for a core
  thread without the worker, whose submission can start the device again, nor
  for a provider that a change of the rate made in the pause, `untold`), that no call reaches a
  destroyed provider (`BackendAlive`; with the pause `ProviderRespected`), and
  the refinement.  A change of the
  rate beside a core thread rebuilds the engine without `callback_mutex`:
  `SoundIntact`, `BackendAlive` and the refinement do not survive it
  (hazard at audio.cpp:473) and are claimed until one begins (the history
  variable `rebuilt`); the others are claimed for ever.
* `audio_live`: under fairness, `ThreadsReturn` (the conjunction of
  `ControlReturns` and `CallbackReturns`) and `PlaybackStarts`; beside a core
  thread only with operations that leave the device playing, because of
  finding 1.  Two operations, so that a core runs in a pause that was left
  behind, and after it.  What the code does not bring to an end there is `Stuck`
  and nothing else: a submission that waits for room on a device that is paused
  (finding 37), or whose reserve was completed in the pause (`late` in
  `SdlAudioDevice`, finding 38), while main is in no shutdown and no change of
  the rate, whose cancel would end the wait.  Without that disjunct TLC finds
  the wait; with it, every other one is still excluded.
* Deadlock is not checked in the audio runs: the program may stop there for good
  (finding 1, `Stuck`).
* `audio_stop`, `audio_prefill`: findings 1 and 3.

The bounds are the smallest at which every action fires and every queue is
once full and once empty; larger ones only add repetitions of the same cycles,
because no action depends on more than the fill levels and the oldest frame.

### Fairness

Weak fairness of each thread: main while it is inside an operation, the
producer while it is inside a callback, the worker, the device while it may
play.  The operating system schedules threads, SDL drains a started device,
and main is not obliged to start an operation nor the core to produce.
`callback_mutex` and the other mutexes are held for bounded stretches except
while waiting for space, and there the wait itself is what the properties
are about; production is bounded, so a mutex is not taken over and over.

### What is left out

`notify` is folded into the critical section before it; spurious wake-ups
are not modelled (every wait re-checks its predicate, so that one would be a
stutter).  Silence insertion, volume, time stretching, statistics and
`audio_queue_snapshot`; a failing `audio_init`; toggling
`forceAudioMultithread` while the engine runs; a core thread that starts before
the boot is over.  Unlocked plain writes are single steps, also where two
threads meet on them (finding 2).  The stable-buffer option is an operand of
the device (`StableBuffer`), FALSE in every run.

## 4. The presenter and the video pipeline

### Correspondence

`Presenter` is `go2_presenter` alone: for each caller `cpc`, for the render
thread `rpc`.  A semaphore operation, a critical section of `queueMutex`, the
blit and the page flip are one action each, because the hazard is exactly that
a semaphore and its queue change in two steps.

| Code | Model |
|---|---|
| `go2_presenter_post`, `_post_multiple` | `PostWait`, `PostGranted` / `PostTry`, `PostRejected`, `PopFree`, `Draw`, `PushUsed`, `PostDone` |
| `go2_presenter_drain` | `DrainSleep`, `DrainDone` |
| `go2_presenter_destroy` | `Terminate`, `WakeRender`, `Release` |
| `go2_presenter_renderloop` | `RenderWait/Check/Pop/Flip/Settle/Recycle/Post/Quit` |

`VideoPipeline` EXTENDS it with main and the video worker as callers.

| Code | Model |
|---|---|
| `core_video_refresh` 1496-1561 | `Callback` (swap and lock), `DirectDrain/Present/Settle`, `Fallback`, `DirectDisable`, `Submit`, `Plain`, `MainPosting/Posted/Unlock` |
| `video_worker_loop` | `WorkerSleep/Take/Exit/Refresh/Posting/Posted/Unlock/Settle` |
| `video_worker_submit`, `_drain` | `Submit`, `MainSleep`, the predicates `HasSpace`, `WorkerQuiet` |
| `video_synchronize` | `SyncStart/Worker/Done` |
| end of `main`, `video_prepare_core_unload`, `video_deinit` | `Shutdown`, `StopWorker`, `JoinWorker`, `Unload`, `DeinitRelease`, `DeinitDestroy` |
| `uiRenderOverlays` | `Compose`, `Base`, `Less` |
| the display controller | `Vblank` (external) |

### Runs

* `video_safety`: two buffers and three surfaces, the code's own numbers
  (`BUFFER_COUNT`, `BUFFER_MAX`), so that nothing about the pools is scaled
  down; every surface is accounted for, one is always left, and none is read
  after it was given back, and every variable keeps its type
  (`SurfacesAccounted`); after a synchronisation
  nothing is on its way, and at the end nothing is left
  (`QuietAfterwards`); 5 frames, which fill the scan-out, both buffers, the
  pending slot and the one in flight and go round once; one change of the
  overlays or of fast-forward; direct, threaded and plain frames mixed freely.  Surfaces are
  symmetric: no action names one.  Two changes, or six frames, have been
  checked as well, without a difference.
* `video_live`: 3 frames under fairness.
* `video_own_frame`, `video_scanout`, `video_overlay`: findings.

`ScanInOrder` is about the frame a buffer was posted for.  What is drawn into
it may be a newer one (finding 4), and then the picture does go back when the
clean-up ends.

### Fairness

Weak fairness of main while it is inside a callback or an operation, of the
worker, of the render thread (the kernel confirms every page flip, for which the
code waits without limit), and of the vblank.  Starting a frame or an operation
is never required.

### What is left out

Frame skipping (early returns that touch nothing modelled here), software
cores (they post from main only), the loading animation and its wait, a mode
setting, page flip or vblank wait that fails, the decoration's own surface,
geometry and pixels.  The branch of `video_worker_submit` for a stopping worker
is kept although main, its only caller, is then inside `video_worker_stop`.
The worker's reads of `x`, `y`, `w`, `h` while main may write them are a
hazard without a property.

## 5. The frontend's other components

### Correspondence

| Code | Model |
|---|---|
| **`SaveStates`** | a session is `Boot` ... `ShutdownLoad`; the files outlive it |
| `StartLoadStateAsync` and its thread 172-296 | `LoadStart`, then `ReadState`, `VerifyState`, `Publish`, `RaiseFlag`, `ThreadEnd` |
| `PumpLoadStateAsync` 298-348 | `PumpReady` (result out), `PumpApply` (join, apply) |
| `SaveState`, `state_file::write`, `state_context::record` | `Serialize`, `Invalidate`, `Rename`, `Record`, `Capture`, each of which may fail, with `Crash` between any two |
| hotkeys, menu, loop, start and end of the session | `Press`, `MenuChoice`, `LoopLoad`, `LoopSave`, `Boot`, `Exit`, `ShutdownLoad` |
| **`CoreLifecycle`** | `lifePc` goes through `retrorun_main` |
| `core_load`, `core_load_game`, `ArchiveContent::prepare` | `Open`, `CoreInit`, `LoadGame`, `Prepare`, each with `Fail` |
| `maybeRestartWithFlycastCoreVariant` | `AskVariant`, `Restart` (`execv`), `Proceed` |
| the end of `retrorun_main` 1822-1907 | `Order` and one action per step |
| `rr_runtime_fail`, `std::exit` | `Fail`, `ExitCall` |
| **`AvUpdates`**: `PendingVideoUpdates`, the loop's takes | `StageAv`, `StageGeometry`, `TakeAv`, `TakeGeometry`, `Configure` |
| **`Achievements`**: `start_disc_hash` and its thread | `HashStart`, `HashJoin`; `Hash`, `HashCheck`, `HashPublish` |
| `achievements_frame` | `PumpTake`, `PumpHash`, `LoginComplete`, `GameLoaded`, `MediaChanged`, `BadgeDone` |
| `achievements_init`, `_shutdown`, the menu | `ShutdownBegin`, `ShutdownJoin`, `Toggle` |
| `rr_disk_control_add_and_select` | `InsertDisc` with `ChangeMedia` |
| **`AchievementView`**: list, details, notifications | `OpenView`, `ViewInput`, `Notify`, `UpdateNotification` |
| **`FrontendLoop`**: an iteration of `main.cpp` 1392-1638 | `Iterate`, then `MenuPoll`/`MenuDraw`, `PausedPoll`, or `CorePoll`/`CoreReads`/`Refresh`/`CoreReturns`, `Update`; `EndIteration` |
| `core_input_poll`, `frontendCapturesCoreInput` | `Poll` with `Hotkeys` and `MenuActions`; `Captured` |
| `checkPaused`, called by main or by the video worker | `Draw`; `PaintRead`, `PaintWrite` |
| **`FramePacing`**: gates of `core_video_refresh`, frame debt of the loop | `VideoRefresh`, `LoopEnd`, `MenuSetting`, `Page` |
| **`MenuNavigation`**: `MenuManager::handle_input` | `HandleInput` (`Press_A`, `Press_B`, `Press_Direction`), `MenuHotkey`, `DiagnosticEnds` |
| **`SdlInput`**: `rr_input_state_read`, `keyboard.cpp` | `ReadBegin`, `Drain`, `ReadEnd`; `EditorOpen`, `EditorInput`, `CoreKeyboard`; SDL's queue is external |
| **`Go2Audio`**: `playAudio`, flush, pause, cancel | `SubmitBegin/Wait/Queue/Start`, `Flush`, `Pause`, `Unpause`, `Cancel`; OpenAL is external |
| **`ConfigFile`**: `parse`, `encodeValue`, the rewrite | the operators `parse`, `encodeValue`, `Rewritten`; `SaveSetting`, `WriteLines`, `RenameFile`, `SaveFails`, `RestartProgram` |
| **`Decorations`**: `decoration.cpp`, `download_pack`, the menu | `DrawBegin/Loads/Fails`; `FetchDone/Rename/Installed/Reload/End`; `SelectPack`, `RemovePack`, `InstallPack`, `SetEnabled`, `CatalogUpdate` |
| **`GameProfiles`**: `parseCatalog`, `resolveProfile`, `resolveScopedProfile`, `selectProfile` | operators of the same names on the records of one game |
| `core_load`, `applyFlycastGameCatalog`, the restart, `core_load_game`, the first frames | `CoreLoads`, `ApplyFlycastGameCatalog`, `RestartWithVariant`, `CoreLoadsGame`, `CoreRuns` |
| **`CatalogUpdate`**: the choice in `applyFlycastGameCatalog`, `scheduleCatalogUpdate`, `downloadAndInstall` | `Launch`; `Download`, `Replace`, `Dies`, `DayPasses` |
| **`Go2Pad`**: `input_task`, `go2_input_state_read`, `go2_input_destroy` | `Fill`, `ReadEvents`, `ButtonEvent`, `OverrunEvent`, `SynEvent`, `PublishButton`; `StateRead`, `CopyButton`; `Destroy`, `JoinAll`; the device is external (`Report`) |
| **`Controls`**: `initButtons`, `getInputUp` ... `getInputY`, `core_input_state` | operators of the same names; `GamepadRead`, `ReadPad`, `ReadAxis`, `ReadButton`, `ChangeSetting` |
| **`Preferences`**: `initConfig`, `applyTransientConfigOverrides`, `applyBenchmarkSetting`, the options | operators of the same names, `ReadScreen` ... `ReadRest` for the parts of `initConfig`; `Start` |
| **`Geometry`**: `video_configure`, `video_reconfigure_geometry`, `video_reconfigure_base_geometry`, `prepareScreen` and its callers in the menu | actions and operators of the same names; the branches of `prepareScreen` are `PixelPerfect`, `DuckStationView`, `fitAspect`, `Landscape`, `LandscapeUpright` (which compares with the window's height over its width on SDL, and with the panel's width over its height elsewhere) and `Portrait`; a float ratio is a pair of integers; sizes with a zero are refused (`Given`) |
| **`Benchmark`**: `benchmark_update_window`, the frame, the picture's way, `benchmark_finish_and_report` | `LoopTop`; `CoreEnds`, `FrameEnd`; `PostQueued`, `PostDirect`, `QueuePicture`, `TakePicture`, `PosterShows`, `RenderShows`; `StopVideo`, `Report` |
| **`Go2Resources`**: the functions that create and destroy | operators of the same names, sets of objects and sequences of them; `Release` destroys the next one |
| `video_show_startup_loading`, `video_configure`, `go2_context_create` | `LoadingCard` ... `Animate`; `Configure` ... `CreateContext`, `CreatePipeline`, `CreatePicture`, one action per call that may fail |
| `core_video_refresh`, `go2_context_surface_lock`, `video_deinit` | `LockFront`, `ShowDirect`, `NotDirect`, `Settle`, `FallBack`, `ComposeFrame`; `Deinit` |
| **`CoreEnvironment`**: `core_environment`, `registerCoreOptions`, the choice in `video_configure`, `setDeviceType` | `SetCoreOptions`, `GetVariable`, `GetVariableUpdate`; `SetPixelFormat`, `SetHwRender` with `Provided` and `Judged`; `SetControllerInfo`, `Register`; `EndInit`, `EndLoad`, `video_configure_core`, `EndCore` |
| **`SdlVideo`**: surfaces, `render_surface`, `rr_presenter_post(_multiple)` | `Created`, `Destroyed`, `Mapped`; operators on a step of a present, `Present` |
| `rr_context_swap_buffers` and what it calls | `SwappedFramebuffer`, `SwappedDefault`, `blit_overlay`, `draw_post_processed_frame`: operators on the OpenGL state by its names; `SwapBuffers` |
| the functions of `menu_setup.cpp` | `ShownOf` and `Pressed`; `PressSetting` with each save failing and the power going between two |

Contents of states are numbers, media and packs are model values, a hash is
equality.  A thread that main joins is a program counter with a value for
"ended", so that a join is a guard and forgetting to join is visible.

### One instance for many

`MCFrontend` and `MCSettings` EXTEND these modules.  They have no variable in common: each sees
its neighbours through actions of its own (the hotkeys that
request a save are in `SaveStates`, what they do to the pause is in
`FrontendLoop`).  The variable `part` names the component a behaviour is
about; the others stay in one initial state.  The states of a run are then the
sum, not the product, of the components', and a counterexample is one of a
single component.

### Runs

* `frontend_safety` (2.1 million states), and from `SettingsKept` on `settings_safety`
  (590 thousand states).

  | Property | Says | Bounds |
  |---|---|---|
  | `FilesMatch` | an image, and while no process died a sidecar, belongs to the state it stands beside | one slot beside the automatic state; 2 contents, an old and a new one; 1 crash; 2 requests, a save against a load or a load against a second |
  | `OneLoad` | a state that was read has one owner; no load over another; nothing left after the session | the same |
  | `OrderlyEnd`, of `CoreOutlivesUsers` | hooks, achievements and the hardware context end before the core they call; while it may call it finds its devices | 2 restarts, one more than allowed |
  | and `EndsClean` | no way out leaves extracted content; an orderly end has stopped all | the same |
  | `LatestApplied` | geometry and timing in use are the last posted, or one that was refused | 5 posts, each kind against each in both orders |
  | `NoStaleHash` | only the media announced last reaches the client | 3 discs, 2 changes, 1 restart of the service |
  | `NothingForgotten` | no announced media is lost; a badge is loading exactly while one download is under way | the same |
  | `PlaceKept`, of `DetailExists` | the details shown are of an achievement of the list | 3 entries, any subset filtered; 3 texts and 4 notes wrap the queue of notifications |
  | and `WayBack` | the button B leads out of every menu | complete for a tree with each kind of item |
  | `PauseHonoured` | a pause that was drawn holds, the diagnostic is not paused | no counter: the state space is complete |
  | `MenuCaptured` | controls held in a page do not reach the core | complete |
  | `GameShown` | at most `fixedSkip + 1` frames dropped in a row | skips to 2, periods to 3 |
  | `GamepadsFollow`, of `DevicesFollow` | gamepads and keys the core sees are those that are held | 2 gamepads, 2 queued events |
  | and `Go2PadFollows` | a button that was told is published as it is held, and copied so; nothing uses the gamepad that is freed | 2 buttons, 2 reports in any order of their events, 4 waiting events, so that two chords overrun the device; any threads not created |
  | `SoundRecovers` | no replay after an underrun, a full queue plays | 3 buffers, 6 batches of 1 or 2, 2 controls |
  | `SettingsKept`, of `SettingsSurvive` | what is saved is read again | every value of up to 3 of the 7 characters that mean something to the parser; 5 files written by hand |
  | and `PreferencesKept` | the menu shows after a restart what was chosen and saved, nothing meant for one session stays, and frames are skipped in one way | 13 groups of settings that meet, each with valid, odd and absent texts; 2 changes, 3 starts |
  | `ProfileTrue` | the settings in use are those of the most specific record for the mode, the player's own are kept, the core has read them | every catalog with at most 3 records over 3 scopes and 2 modes, of 2 settings |
  | `CatalogAdvances` | no launch uses an older catalog than the one before | 4 versions, 4 launches, a worker that may die at any step |
  | `ControlsTrue` | pad, face buttons and sticks turn by one angle, no two buttons of the core share one of the device, a stick moves the pad or the axes, edges are true | 8 devices with both layouts and 2 assignments; every setting of one device; 1 change in the menu |
  | `DecorationsTrue` | only complete packs are called installed; `pixel_perfect` comes back | 2 packs, 4 choices |
  | `PictureTrue` | every frame fits in the surface made for it, the ratio in use is the one asked for last, the picture lies in the panel and has this ratio along the frame's own axes | 13 pairs of a device and a core: panels upright, on their side, and windows; games that grow, shrink and turn; 2 requests of the core or the player |
  | `ReportTrue` | a valid report counts each picture of its window once, whoever showed it and when, and none of another time; the window is as long as it was asked to be | warm-ups of 0 and 2, no limit or 2 frames, a window of 2; up to 2 frames, 5 ticks |
  | `OwnersLast` | no object is destroyed before what needs it, what the plane shows is alive, and nothing is left over by a failure or at the end | hardware and software cores, 3 GBM buffers for 2 records, so that one is too many; 2 resizes |
  | `EnvironmentHonoured` | every option the core reads is the one in force and a change is told once; the format and the renderer made are those granted last; the devices told are the core's | 2 options registered in 2 orders, 3 texts, 3 profiles; 3 builds with each renderer; 3 lists of devices |
  | `SdlPictureTrue`, of `PictureCurrent` and `SwapsTrue` | a surface is shown with the contents it has, whatever was at its address before and whatever could not be uploaded; the game once in every frame; the core's OpenGL is as it left it | the two ways apart, with 2 or 3 surfaces at 3 addresses, 2 contents, up to 5 generations; every failing upload and texture |
  | and `WindowTrue` | vertical synchronisation is what is said of it, the renderer's size is the display's | 2 sizes, any refusal |

* `frontend_live` (320 thousand states), under fairness: a load comes to its
  end (`LoadSettles`), a start gets to the loop or to its end
  (`StartupSettles`), an exit asked for outside of the menu ends the loop
  (`ExitHonoured`).

Deadlock is not checked in these: a process that ended takes no more steps.

### Fairness

* `SaveFairness`: weak for the loading thread and for main's own steps, strong
  for `PumpReady`, because every iteration without the menu pumps
  before it looks at a request: a main that keeps saving cannot pass over a
  result for ever.  The player is not obliged to anything; a menu kept open is
  an outcome of `LoadSettles`.
* `LifeFairness`: weak for startup and shutdown, which wait for nobody.
* `LoopFairness`: weak for main, the worker and for a core that polls and
  reads; strong for its return, which is disabled between a poll and a read.  A
  core that returns without polling is left out of this run (`SkipsPoll`).

### What is left out

The battery memory but for its failures, the mouse, rumble, unlocks and hardcore mode (rcheevos), the timing of the loop, and what a setting does outside of the
modules above.

## 6. Findings

A finding with a run is a violated property of that run.  The others were met
while modelling: the model does what the code does, and the property that
would be violated excludes precisely that case by a condition or a history
variable, which is named.

1. `audio_stop`: the shutdown can hang.  `audio_deinit` takes
   `callback_mutex` before it cancels the provider, but a core thread's
   callback may hold it while it waits for space that only the cancel would
   make.
2. `audio_reconfigure` writes the threshold without the mutex that is there to
   give it one owner (audio.cpp:473).
3. `audio_prefill`: with `PREFILL_MS` above `TARGET_MS` playback never
   starts.
4. `video_own_frame`: with an overlay on the screen the video worker draws
   `gles_surface` and not its job's surface.
5. `video_scanout`: the end of a direct scanout unlocks the surface without
   waiting for a vblank.
6. `video_overlay`: posts rejected during fast-forward use up the cleaning of
   the recycled buffers.
7. config_file.cpp:289: a value that starts with a single quote is written
   unquoted and read as a quotation (last line of `SettingsSurvive`).
8. main.cpp:734: `--start-new` leaves the automatic saving on, against
   docs/state-previews.md:59 (`Boot` chooses `autoSave` freely).
9. main.cpp:906: the automatic state has a file of its own, against
   docs/state-previews.md:24 (`Latest`).
10. input.cpp:1384: a menu opened where the core does not read leaves no
    latch, and the controls held reach the core (`unseen` in `MenuCaptured`).
11. platform_sdl.cpp:1859: a key released while a text is edited stays down
    for the core (`swallowed` in `KeysFollow`).
12. savestate.cpp:427: `exit` with joinable threads aborts the process
    (outcome `"aborted"` in `EndsClean`).
13. go2/audio.cpp:415: a reserve that does not fit into the OpenAL buffers is
    never complete (`ReserveFits` in `FullQueuePlays`).
14. go2/audio.cpp:664: a source that runs dry within a submission, or before
    the pause ends, replays its buffers (`dry` in `NothingReplayed`).
15. state_context.h:21: a crash between the two renames leaves the old sidecar
    beside the new state (`crashes = 0` in `SidecarDescribes`).
16. flycast_game_catalog.cpp:2526: a `best_performance` record with a title
    alone counts as tested, against
    profiles/flycast2022-lowend/GAME_PROFILE_MODES.md:73 (excluded in
    `UntestedUntouched`).
17. flycast_game_catalog.cpp:2977: a device's records are composed over its
    chip's only if a table knows the device's name (`mapped` in `Beneath`).
18. go2/input.cpp:495: a thread that could not be created goes unnoticed, and
    the end of the gamepad cancels it (`missing`, `"crashed"` in `Go2Pad`).
19. go2/input.cpp:432: the first report releases what has been held since the
    start (`stale` in `Settled`).
20. input.cpp:1408: assignments of l1 and r1 have no effect on the core without
    a gpio gamepad, against doc/CONTROLS.md:64 (excluded in `ButtonsApart`).
21. input.cpp:1416: the N64's C buttons are read from the right stick also when
    the sticks are exchanged, against doc/CONFIGURATION.md:69 (`CButtons`).
22. config.cpp:1062: a file with both kinds of frame skip loses the adaptive one
    for the session only (excluded in `NotKept`).
23. config.cpp:446: a number outside of its range becomes the default, against
    doc/CONFIGURATION.md:58, which says it is clamped.
24. config.cpp:183: a profile's or the benchmark's vsync does not reach what the
    menu shows.
25. video.cpp:792: a tall game with the panel's own ratio is placed where
    the last frame was (`StaysStale` in `PictureInside`).
26. video.cpp:460: a context is called too small for what it would hold, once
    a smaller geometry was accepted (`maxSize` against `allocated`).
27. video.cpp:300: DOSBox's 4:3 lasts until the first change (`RatioFollows`).
28. video.cpp:572: pixel perfect scaling mixes up the axes of a panel on its side
    (`Overlarge`).
29. video.cpp:256: a display or a presenter that could not be made is used
    without a look (left out of `Go2Resources`).
30. display.cpp:1379: neither is looked at what the presenter's buffers are made
    of (left out of `Go2Resources`).
31. display.cpp:790: a surface that is destroyed stays mapped (mappings are left
    out of `Go2Resources`).
32. main.cpp:1821: after an early end the measured window is still open
    (`LoopEnds` in `Benchmark`).
33. platform_sdl.cpp:1502: for a core that draws in the window, a decoration
    without shader and rotation makes the game's picture vanish (excluded in
    `GameSeenOnce`).
34. platform_sdl.cpp:1102: the buffer of vertices stays bound when the shaders
    are made within a swap (`array` in `CoreStateKept`).
35. platform_sdl.cpp:1354: two overlays on the screen are uploaded in every frame,
    against the comment at 1362 (`UploadedIs`).
36. video.cpp:88: without a request the format is none at all, against
    libretro.h:568 (`NoFormat` in `CoreEnvironment`).
37. menu_setup.cpp:812: `restartCore` leaves `pause_requested` set, and the game
    runs with its sound paused until a frame is drawn; a core whose frames are
    scanned out directly, null or skipped fills the queue, and main waits for
    good (`Stuck` in `ThreadsReturn` and `PlaybackStarts`).  A new rate in such
    a pause makes a provider that nobody pauses (`untold` in
    `PausedIsSilent`).
38. audio_backend_sdl2.cpp:260: a reserve that is completed in a pause starts the
    device neither then nor at the pause's end (`late` in `Stuck`).

## 7. Proofs

`AudioEngineProofs` proves, for every capacity, batch size, buffer size,
target and number of frames and operations, with or without worker and core thread, and
with changes of the sample rate:

| Theorem | Property |
|---|---|
| `TypeCorrect` | `TypeOK`; above all no hand-kept count falls below zero |
| `CapacityRespected` | `CapacityBound` |
| `FlushIsBarrier` | `FlushBarrier` |

They assume `DeviceAssumption` and `EngineAssumption` only.  The invariant is
`IndInv == TypeOK /\ Chunking /\ Loads /\ Protocol /\ Barrier`:

* `Chunking`: how far a callback is with its batch; needed so that a part
  taken from the staging vector is neither empty nor longer than it.
* `Loads`: the counts are the sums of what they count.  A sum over the deque
  would be recursive; `Carries` says instead that there is a function of
  partial sums, which each push and pop extends or shifts.  Without it
  `queued_frames` might underflow in a pop.
* `Protocol`: the only control command under way is the one main waits for,
  and its id is above every acknowledged one; so an acknowledgement means
  that the command before which the old frames stood has been executed.
* `Barrier`: stage by stage through a flush, in which of the places (staging,
  deque, worker's hands, device) no frame older than the flush is left.

`VideoProofs` proves, for any number of frame buffers, surfaces, frames,
layouts and (for the presenter) callers:

| Theorem | Property |
|---|---|
| `PresenterCorrect` | the presenter's invariant `PresenterInv`, for any callers that keep to its contract |
| `ContractKept` | `KeepsContract`: the video pipeline is such callers |
| `MismatchFree` | `NoMismatch`, in the composed system |
| `TearingFree` | `NoTearing`, in the composed system |

They assume `PresenterAssumption` and `VideoAssumption` only.  The presenter's
invariant is `PresenterInv == PresenterTypes /\ Counts /\ Endgame /\
QueuesApart /\ CallersApart /\ RenderApart`:

* `Counts`: each semaphore is the length of its queue, less the callers (or
  the render thread) that have been promised an entry and not taken it, and
  less the entries not yet announced; `pending` is the used queue and the
  frame being flipped.  `NoMismatch` alone is not inductive: that the queue is
  not empty at a pop follows only from this sum over all callers.
* `Endgame`: `terminating` is set only when no call is in progress, which is
  what the contract promises; `Counts` holds until then.
* `QueuesApart`, `CallersApart`, `RenderApart`: each buffer is in one place (a
  queue, a caller's hands, the flip in progress, the screen).

`PipelineInv` says at which program counters of main and worker a call of the
presenter may be under way, that the worker has ended before the presenter is
destroyed, and that what is posted exists.  `StepMaps` shows with it that every
step of the pipeline is one of the presenter or leaves the presenter alone;
hence `PresenterInv` holds in the composed system too.

`AudioSoundProofs` builds on the first invariant:

| Theorem | Property |
|---|---|
| `SoundHolds` | `SoundIntact` |
| `BackendHolds` | `BackendAlive` |
| `ProviderHolds` | `ProviderRespected`, under `~StableBuffer` |
| `PipeImplemented` | `ImplementsPipe`, the refinement of `AudioPipe` |

`SoundInv == Life /\ (rebuilt \/ (Chain /\ Counted))` is added to `IndInv`, and
`PauseInv == Pauses /\ (ProviderSerialised => Starts /\ Silent)` to both:

* `Life`: at which program counters main is opening or closing the engine, that
  nobody is in a callback then, and that the provider is there at all others.
  A core thread breaks the second in a change of the rate (hazard at
  audio.cpp:473); from there on `rebuilt` holds and nothing is claimed.
* `Chain`: what the core delivered last is staged; whatever is in the deque, the
  worker's hands or the device's queue is older, and each place's frames are
  older than those of the place behind it.  `InOrder` compares only what has
  been heard, and is not inductive.
* `Counted`: the counters add up to `produced`, and `queued_frames` is the
  number of frames in the deque.  The sum is one over places, and `Loads` has
  already shown what each of them holds.
* `Silent`: since when the device is paused, and until main leaves the pause or
  a change of the rate makes another provider in it (`untold`).  While the Pause
  is under way, only an answered one has silenced the device; `Pauses` knows which operation
  main is in, and `Starts` who may still start the device and that a
  submission which found the device paused will not.
* `~StableBuffer` is needed: with the stable buffer a submission starts the
  device without looking whether it is paused (audio_backend_sdl2.cpp:256); the
  property is false there, and no run sets it.
* The refinement goes action by action: a callback is a `Produce`, a device step a
  `Hear`, a refused or erased chunk and a close are a `Lose`, and the return from
  a flush is the `Flush`, by `FlushIsBarrier`.  All other steps stutter.  The
  abstract pipe is a set, so that a step that moves frames from one place to the
  next is a stutter whatever sequences they are kept in.

`VideoSurfaceProofs` builds on `PresenterInv` and `PipelineInv`:

| Theorem | Property | Inductive invariant |
|---|---|---|
| `SurfacesHold` | `SurfacesAccounted` | `SurfaceInv == VideoTypes /\ NoneLost /\ WorkerPlace /\ Alone /\ Held /\ Bases` |
| `QuietHolds` | `QuietAfterwards` | the same |
| `OrderHolds` | `ScanInOrder` | `OrderInv`, on top of it |

* `Held`: the pending job, the worker's, the scanned surface and main's are
  locked, differ from each other, and nothing else is locked.  At a swap
  only the worker's two or the scanned one are, and the pool of three (`Cardinality(Surfaces) >= 3`, the
  code's `BUFFER_MAX`; an assumption of the module) has one left.
* `Alone`: where the code relies on having drained the worker (a direct
  scan-out, a synchronisation, the end) the worker has nothing.
* `NoneLost`: the presenter's buffers are all released at its end, which
  `PresenterInv` does not need.
* `OrderInv` lines up screen, flip, used queue, the callers' hands, the worker's
  job and the pending one by the number of their frames.

`CoreProofs`, for any number of restarts of the process, any options,
registrations, profiles, formats and renderers, any slots, contents and
crashes, and any panels and geometries:

| Theorem | Property | Inductive invariant |
|---|---|---|
| `OrderlyEndHolds` | `OrderlyEnd`: nothing outlives what it calls into, and a normal end leaves nothing | `LifeInv == LifeTypes /\ CoreStage /\ UpStage /\ ThreadStage /\ TempStage /\ OrderlyEnd` |
| `EnvironmentHolds` | `EnvironmentHonoured` | `EnvInv == EnvTypes /\ RenderStage /\ EnvironmentHonoured` |
| `SaveTypesHold`, `FilesMatchHolds`, `OneLoadHolds` | `SaveTypeOK`, `FilesMatch`, `OneLoad` | `Types`, `FileInv`, `LoadInv` |
| `SizesHold` | (two parts of `PictureTrue`) `RatioFollows`, and `SurfaceHolds` | `GeoInv`: both, with the types of the sizes |

* `CoreStage`, `UpStage`, `ThreadStage`, `TempStage`: per stage of a start or a
  shutdown, what the core has been told, which subsystems are up, which threads
  run, and whether an extracted archive is there.  `OrderlyEnd` alone
  does not say why an end leaves nothing.
* `RenderStage`: what the core was granted is one of its requests, and no hook of
  it is called before its game is loaded.
* Controller types are unsigned numbers in C++: `MaxType` bounds the ids that a
  core may register (`UINT_MAX`), because the code looks for the greatest or the
  least of them.
* `FileInv` adds to `FilesMatch` what holds in the middle of a save
  (`SaveUnderWay`): the old image is gone before the new state comes, and the
  new state is there before it is described.
* `LoadInv` adds to `OneLoad` that the flag is only up once the thread has
  nothing more to hand over, and that main only applies what such a thread has
  left; `OneLoad` alone does not exclude that the flag is raised again while
  main applies a result.
* `SizesHold` leaves `SurfaceHolds` open for `FixedSize`, mGBA and Flycast: the code
  gives their surfaces a size of its own, which holds what these cores send and not
  what any core could ask for.  Flycast draws in a context, and mGBA's frames
  are bounded by the instance.

`DisplayProofs`, for any set of scanout buffers and number of resizes, and every
warm-up, limit and duration of a benchmark:

| Theorem | Property | Inductive invariant |
|---|---|---|
| `OwnersHold` | `OwnersLast` | `ResInv == ObjectTypes /\ MayBe /\ Doomed /\ MustBe /\ Buffers` |
| `ReportHolds` | `ReportTrue` | `BenchInv == BenchTypes /\ WindowStage /\ FramesCounted /\ PicturesStage` |
| `SdlPictureHolds` | `SdlPictureTrue` | `PixInv == PixTypes /\ SlotsPlaced /\ SlotsApart /\ GenerationsPast /\ TexturesTrue(textures) /\ (shownBy = "context" => ContextTrue(context)) /\ WindowTrue` |

* `ObjectTypes`: the list of what is still to be destroyed is `Orderly`: everything
  alive that needs one of its entries is in that entry or an earlier one; so each
  prefix of it leaves a closed set behind.  `Doomed` says at which stages there
  is such a list, `MayBe` and `MustBe` bound what is alive at each stage from above
  and below; the constants of the model are its five surfaces and the
  buffers, whose numbers are above theirs (`Go2ResAssumption`).
* `FramesCounted`, `PicturesStage`: the pictures owed are those presented, those
  not yet counted and those still queued; those presented were shown directly,
  or composed, or are between the two counters.  `ReportTrue` only says this at
  the report.
* `GenerationsPast`, `TexturesTrue`, `ContextTrue`: every surface is older than the
  counter of generations, and what was uploaded from an address has the contents
  that are there unless they are of another generation.  So a surface that malloc
  puts where another was is not taken for it.  `SdlPictureTrue` speaks of frames
  that may be shown, so the proof follows a present (`PresentTrue`) and a
  swap (`SwapTrue`) step by step, failures included: within a swap the first
  unit is active and what the swap does not save is the core's (`InSwap`), and
  what is drawn over the game adds no second one (`OneGame`).  malloc returns no address 0
  for a surface (`SdlVideoAssumption`).

`FrontendProofs`, for every value of the constants (media, packs, skips, and the
bounds on requests):

| Theorem | Property | Inductive invariant |
|---|---|---|
| `LatestAppliedHolds` | `LatestApplied` | `AvInv == AvTypes /\ NothingLost`: what is not in use yet is pending, in one of two places |
| `GameShownHolds` | `GameShown` | `PaceInv == PaceTypes /\ OneSkip /\ PageResets /\ OneSeries` |
| `NoStaleHashHolds`, `NothingForgottenHolds` | `NoStaleHash`, `NothingForgotten` | `AchInv == AchTypes /\ HashInv /\ LoginInv /\ OneBadge` |
| `DecorationsHold` | `DecorationsTrue` | `DecoInv == DecoTypes /\ Flags /\ Fetching /\ Forcing` |
| `CatalogAdvancesHolds` | `CatalogAdvances` | `UpdateInv == UpdateTypes /\ OneCheck /\ OnlyNewer`: the one check under way compares with the catalog that is still the best |
| `PauseHolds`, `CaptureHolds` | `PauseHonoured`, `MenuCaptured` | `LoopInv == LoopTypes /\ TestApart /\ PauseDrawn /\ PageLatched` |
| `NothingReplayedHolds` | (half of `SoundRecovers`) | `Go2Inv == Go2Types /\ Made /\ PlayingIs /\ DryRecovers` |
| `ProfilesHold` | `ProfileTrue` | `ProfInv == ProfTypes /\ ConfIs /\ CoreIs`: what is configured is the player's, or the selected profile laid over it |

All assume the modules' own named assumptions on the constants only, but for
`ProviderHolds`.  In each module every action has a step of its own in the proof that
the invariant is kept.

* `OneSeries`: what the fixed skip has dropped and what it is still to drop
  are one series; a decision the adaptive skip left behind is from before the
  frame shown last.  `OneSkip` is why the two never add up: the file, the
  profile, the benchmark and the menu all keep them exclusive.
* `HashInv`: whatever the thread works on, has published, or main is about to
  announce is of the media announced last (`HashTargets`).  This is not so while
  main waits in a join; `Handover` says that nothing is left when it is through.
  `LoginInv` says that there is one login and that nothing is identified before
  it ends, so that the content it identifies then is the last one announced.
* `Fetching` says which files a download has put in place at each of its
  steps, and that the pack it is about is still the one selected; `Forcing`
  keeps what the player set together with the decoration that forces it.
* `PauseDrawn`: what was drawn last has the pause it asks for, and a picture the
  worker still has was made while nothing asked for one, so its late write
  cannot undo the pause.  `TestApart` keeps pages and that write apart
  from the diagnostic.  `PageLatched`: a page that is open, and a control held
  since one was, are kept from the core, or will be by the read that follows the
  poll just made.
* `DryRecovers`: an OpenAL source that ran dry either holds nothing that was heard
  (`Unheard`), or stands where the next submission finds it and takes back what it
  holds before it starts it (`Unrecovered`).
* `ProfilesHold` joins two ways to find a setting.  `parseCatalog` composes a
  product for each scope and mode from other products; `Author` walks down from
  the record that serves the mode, through what each record starts from
  (`Beneath`), to the first that gives the setting.  `Grounded` says that a
  product is its record over the product of the record beneath, or over the
  defaults at a record of the game; as each is of a lower rank (`Rank`), a line has at
  most four records and ends at the game (`LineageIs`), and so the settings and
  the validation of a product are those of its line (`SettingsAre`, `TestedIs`).

`InputProofs`, for any buttons, keys and gamepads, any lengths of the queues and
lists, and any number of reports and notifications:

| Theorem | Property | Inductive invariants |
|---|---|---|
| `GamepadsHold` | `GamepadsFollow` | `PadInv == PadTypes /\ ToldTruth /\ Publication /\ Copies` (GO2), `SdlInv == SdlTypes /\ PadAwaited /\ KeysAwaited` (SDL) |
| `PlaceHolds` | `PlaceKept` | `MenuInv`, `ViewInv == ViewTypes /\ DetailExists` |
| `ControlsHold` | `ControlsTrue` | `ControlsInv == ControlTypes /\ FrameUse /\ Polled` |

The components share nothing, so each theorem joins two specifications, and each
invariant is proved of its own.

* `GamepadsFollow` speaks of empty queues only.  `ToldTruth` says what the events
  on their way mean: of each button, the last that waits in the kernel's buffer,
  or else in what the thread has read, or else what it has collected, is what is
  held.  `Publication` and `Copies` follow that to what main is shown, one button
  at a time.  A chord fits the kernel's buffer (`PadAssumption`: it has room for
  all buttons, the end of a report and the mark of an overrun; evdev's has 64
  entries at least, and these gamepads fewer buttons).
* `PadAwaited`, `KeysAwaited`: what SDL's queue still has to say.  A gamepad in
  use that is gone has its removal waiting, and one that is there an addition, or
  a change already seen; a key that is down for the core and not held has its
  release waiting, behind any press of it.
* `MenuInv` is `WayBack` with the types of the stack (`IsWay`), and that the
  diagnostic runs with the menu closed and its page on top.  What it needs of
  the tree of menus (`GoodMenus`: each has a first item to select, and the question of the
  diagnostic is reached through its page only) is proved menu by menu.
* `FrameUse`: in a frame without a change, a stick that moved the pad is one the
  mode maps, and one that moved the axes is one it does not, read for a core that
  had asked for axes before; the exchange of the sticks keeps the two apart.
  `Polled` says what two polls and the reads between them leave in the states
  of the gamepad.  The turns of the picture and the exchange of the shoulders are
  permutations of the logical buttons (`SameButtons`), so that nothing is read
  twice unless it was assigned twice.

Only model-checked:

* `SettingsKept` (`ConfigFile` and `Preferences`): it compares strings before
  and after parsing and quoting, for which one would have to induct over them.
* `FullQueuePlays`, the other half of `SoundRecovers`: that a full queue reaches
  the reserve is a bound on a sum over the queue, for which one would have to
  induct over its length.
* Where `PictureTrue` says that the picture is inside the panel and keeps its
  ratio: it speaks of the panels the devices have and of the sizes their cores ask
  for.  For any panels it is not true (on one that is wider than high but
  narrower than 4:3, `DuckStationView` is too wide, and a ratio far from the panel's rounds to nothing),
  and to assume what makes it true would be to state these data a second time.  Its
  parts on sizes and ratios do not depend on them and are proved (`SizesHold`).
* Liveness under fairness and `ENABLED` are beyond the prover.


## 8. Not modelled

The status and the reason of every component are in `PROJECT.json`.

* Data: the tables of the Flycast catalog, of the settings, of key codes and
  of hardware, the layout of menus and pages.  They make up most of the lines
  of the program, and nothing in them depends on an order of steps.
* Input and output: windows, modes and formats of DRM, RGA, the file browser, `/proc`, the
  VFS.  Where one of them may fail and the code answers the failure, the answer
  is an action of the module that calls it.
* Pixels and sound: composition, fonts, blending, volume, stretching.
* Measurements: statistics, metadata, the logger, the profiler.
* Network status: one thread and one flag, with the protocol of `Decorations`;
  `CoreLifecycle` has that it is joined.

## 9. Running

    tlc -config MCAudioSafety.cfg MCAudioEngine
    tlc -config MCVideoSafety.cfg MCVideo
    tlc -config MCFrontendSafety.cfg MCFrontend
    tlc -config MCSettings.cfg MCSettings
    tlapm AudioEngineProofs.tla
    tlapm AudioSoundProofs.tla
    tlapm VideoProofs.tla
    tlapm VideoSurfaceProofs.tla
    tlapm CoreProofs.tla
    tlapm FrontendProofs.tla
    tlapm InputProofs.tla
    tlapm DisplayProofs.tla

Each `.cfg` names one run of `PROJECT.json`; those of `audio_stop`,
`audio_prefill`, `video_own_frame`, `video_scanout` and `video_overlay` end with
a counterexample.
