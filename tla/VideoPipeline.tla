--------------------------- MODULE VideoPipeline ----------------------------
(***************************************************************************)
(* The way of a hardware-rendered frame from the core's callback to the    *)
(* screen (src/video/video.cpp, GO2 build), composed with the presenter.   *)
(*                                                                         *)
(*   main      runs core_video_refresh inside retro_run, video_synchronize,*)
(*             video_prepare_core_unload and video_deinit;                 *)
(*   worker    video_worker_loop, started by the first threaded frame;     *)
(*   render    the presenter's thread (module Presenter);                  *)
(*   display   the controller, which takes over a plane at the next vblank.*)
(*                                                                         *)
(* A frame is a GBM surface, locked by the callback and to be unlocked by  *)
(* whoever is done with it.  It is composed by uiRenderOverlays and posted *)
(* to the presenter by main or by the worker, or handed to a DRM plane     *)
(* (direct scanout).  Left out: the early returns of the callback (frame   *)
(* skipping), which touch none of this; software cores, which post from    *)
(* main only; pixels and geometry.                                         *)
(***************************************************************************)
EXTENDS Presenter

CONSTANTS
  Surfaces,  \* the surfaces of the GBM pool: BUFFER_MAX of them
  Directs,   \* whether direct scanout may be allowed for a frame
  Threadeds, \* whether a frame may go to the worker
  FastForward, \* whether main may fast-forward
  Layouts,   \* overlay layouts (complete_overlay_mask); 0 shows none
  MaxFrames, \* bound: frames the core delivers
  MaxChanges \* bound: changes of the layout and of fast-forward

ASSUME VideoAssumption ==
  /\ IsFiniteSet(Surfaces) /\ None \notin Surfaces
  /\ Cardinality(Surfaces) >= 3
  /\ Callers = {"main", "worker"}
  /\ Directs \subseteq BOOLEAN /\ Threadeds \subseteq BOOLEAN
  /\ FastForward \in BOOLEAN
  /\ Layouts \subseteq Nat /\ 0 \in Layouts
  /\ MaxFrames \in Nat /\ MaxChanges \in Nat /\ 0..MaxFrames = Pictures

VARIABLES
  locked,    \* surfaces locked with gbm_surface_lock_front_buffer
  content,   \* the frame in each surface
  gles,      \* gles_surface: the one locked last
  scanout,   \* directScanoutSurface
  plane,     \* the surface the plane was last set to ...
  onPlane,   \* ... and the one the controller reads
  mpc,       \* main's pc
  frame,     \* the frames delivered so far
  ffwd,      \* input_ffwd_requested
  layout,    \* the overlays to show
  changes,
  started, stopping, \* videoWorkerStarted, videoWorkerStopping
  job,       \* videoWorkerJob, None unless videoWorkerPending
  inFlight,  \* videoWorkerInFlight
  wpc, wjob, \* the worker: its pc and its job
  asleep,    \* threads blocked on videoWorkerReady and videoWorkerSpace
  seen, cleanup, \* previous_overlay_mask, overlay_cleanup_frames
  shot,      \* per thread: the arguments of its post
  cleaned,   \* per buffer: the layout it was last cleaned for
  synced     \* history: no frame since video_synchronize returned

surfaceVars == <<locked, content, gles>>
planeVars == <<scanout, plane, onPlane>>
frameVars == <<frame, synced>>
choiceVars == <<ffwd, layout, changes>>
jobVars == <<started, stopping, job, inFlight>>
workerVars == <<wpc, wjob>>
overlayVars == <<seen, cleanup, shot>>
videoVars == <<surfaceVars, planeVars, mpc, frameVars, choiceVars, jobVars,
               workerVars, asleep, overlayVars, cleaned>>
vars == <<presenterVars, videoVars>>

Unset == -1
Shot == [base: Surfaces \cup {None}, clean: BOOLEAN,
         layout: Layouts \cup {Unset}]

NoShot == [base |-> None, clean |-> FALSE, layout |-> Unset]

Init ==
  /\ PresenterInit
  /\ locked = {} /\ content = [s \in Surfaces |-> 0] /\ gles = None
  /\ scanout = None /\ plane = None /\ onPlane = None
  /\ mpc = "idle"
  /\ frame = 0 /\ synced = FALSE /\ ffwd = FALSE /\ layout = 0 /\ changes = 0
  /\ started = FALSE /\ stopping = FALSE /\ job = None /\ inFlight = FALSE
  /\ wpc = "none" /\ wjob = None /\ asleep = {}
  /\ seen = Unset /\ cleanup = 0
  /\ shot = [t \in Callers |-> NoShot]
  /\ cleaned = [b \in Buffers |-> Unset]

Wake(t) == asleep' = asleep \ {t}
Awake(t) == t \notin asleep

-----------------------------------------------------------------------------
(* Composing and posting a frame, on main's or the worker's thread.        *)

\* What main composes.  In the worker: the job's surface, unless something
\* is to be shown on top of it, when uiRenderOverlays takes gles_surface.
Base(s, visible) == IF visible THEN gles ELSE s

\* After a change of the layout the next three frames clear the buffer they
\* are drawn into.
CleanFrames == 3

Less(left) == IF left > 0 THEN left - 1 ELSE 0

\* core_video_refresh_OPENGL up to the post, with uiRenderOverlays.
Compose(t, s) ==
  LET left == IF layout # seen THEN CleanFrames ELSE cleanup
      visible == layout # 0 \/ left > 0
  IN  /\ shot' = [shot EXCEPT ![t] =
                    [base |-> Base(s, visible), clean |-> left > 0,
                     layout |-> layout]]
      /\ cleanup' = Less(left)
      /\ seen' = layout

\* The frame a thread posts; its pixels are those of shot[t].base.
Posted(t) == content[IF t = "worker" THEN wjob ELSE gles]

\* The stages of the post; the flag for fast-forward is read at its start.
PostStep(t) ==
  \/ ~ffwd /\ PostWait(t) /\ UNCHANGED cleaned
  \/ ffwd /\ PostTry(t) /\ UNCHANGED cleaned
  \/ PostGranted(t) /\ UNCHANGED cleaned
  \/ PopFree(t) /\ UNCHANGED cleaned
  \/ /\ Draw(t, Posted(t))
     /\ cleaned' = IF shot[t].clean
                   THEN [cleaned EXCEPT ![cbuf[t]] = shot[t].layout]
                   ELSE cleaned
  \/ PushUsed(t) /\ UNCHANGED cleaned

PostEnd(t) ==
  /\ PostDone(t) \/ (ffwd /\ PostRejected(t))
  /\ shot' = [shot EXCEPT ![t] = NoShot]

-----------------------------------------------------------------------------
(* The worker.                                                             *)

WorkerSleep ==
  /\ wpc = "wait" /\ Awake("worker") /\ job = None /\ ~stopping
  /\ asleep' = asleep \cup {"worker"}
  /\ UNCHANGED <<presenterVars, surfaceVars, planeVars, mpc, frameVars,
                 choiceVars, jobVars, workerVars, overlayVars, cleaned>>

WorkerTake ==
  /\ wpc = "wait" /\ Awake("worker") /\ job # None
  /\ wjob' = job /\ job' = None /\ inFlight' = TRUE
  /\ wpc' = "refresh" /\ Wake("main")
  /\ UNCHANGED <<presenterVars, surfaceVars, planeVars, mpc, frameVars,
                 choiceVars, started, stopping, overlayVars, cleaned>>

WorkerExit ==
  /\ wpc = "wait" /\ Awake("worker") /\ job = None /\ stopping
  /\ wpc' = "dead"
  /\ UNCHANGED <<presenterVars, surfaceVars, planeVars, mpc, frameVars,
                 choiceVars, jobVars, wjob, asleep, overlayVars, cleaned>>

WorkerRefresh ==
  /\ wpc = "refresh" /\ Compose("worker", wjob)
  /\ wpc' = "post"
  /\ UNCHANGED <<presenterVars, surfaceVars, planeVars, mpc, frameVars,
                 choiceVars, jobVars, wjob, asleep, cleaned>>

WorkerPosting ==
  /\ wpc = "post" /\ PostStep("worker")
  /\ UNCHANGED <<surfaceVars, planeVars, mpc, frameVars, choiceVars, jobVars,
                 workerVars, asleep, overlayVars>>

WorkerPosted ==
  /\ wpc = "post" /\ PostEnd("worker")
  /\ wpc' = "unlock"
  /\ UNCHANGED <<surfaceVars, planeVars, mpc, frameVars, choiceVars, jobVars,
                 wjob, asleep, seen, cleanup, cleaned>>

WorkerUnlock ==
  /\ wpc = "unlock"
  /\ locked' = locked \ {wjob} /\ wjob' = None
  /\ wpc' = "settle"
  /\ UNCHANGED <<presenterVars, content, gles, planeVars, mpc, frameVars,
                 choiceVars, jobVars, asleep, overlayVars, cleaned>>

\* Mutant: nobody is told that the frame is done.
Unnotified == asleep
Notified == asleep \ {"main"}

WorkerSettle ==
  /\ wpc = "settle"
  /\ inFlight' = FALSE /\ asleep' = Notified
  /\ wpc' = "wait"
  /\ UNCHANGED <<presenterVars, surfaceVars, planeVars, mpc, frameVars,
                 choiceVars, started, stopping, job, wjob, overlayVars,
                 cleaned>>

Worker == \/ WorkerSleep \/ WorkerTake \/ WorkerExit \/ WorkerRefresh
          \/ WorkerPosting \/ WorkerPosted \/ WorkerUnlock \/ WorkerSettle

-----------------------------------------------------------------------------
(* Waiting for the worker and the presenter.                               *)

\* The wait predicate of video_worker_drain.  Mutant: the pending frame only.
NothingQueued == job = None
WorkerQuiet == job = None /\ ~inFlight

\* The wait predicate of video_worker_submit.  Mutant: no back-pressure.
NoPressure == TRUE
HasSpace == stopping \/ job = None

\* video_worker_drain and video_worker_submit block on videoWorkerSpace.
MainSleep ==
  /\ Awake("main")
  /\ \/ mpc \in {"direct", "plain", "sync"} /\ ~WorkerQuiet
     \/ mpc = "stop" /\ started /\ ~WorkerQuiet
     \/ mpc = "submit" /\ ~HasSpace
  /\ asleep' = asleep \cup {"main"}
  /\ UNCHANGED <<presenterVars, surfaceVars, planeVars, mpc, frameVars,
                 choiceVars, jobVars, workerVars, overlayVars, cleaned>>

\* The places at which main calls go2_presenter_drain.
Draining ==
  mpc \in {"present", "disable", "synced", "drain", "release", "destroy"}

MainDrain ==
  /\ Draining /\ DrainSleep("main")
  /\ UNCHANGED videoVars

-----------------------------------------------------------------------------
(* Main: core_video_refresh.                                               *)

\* eglSwapBuffers and the lock of the new front buffer, which must not be
\* one that is still locked: a pool without one is exit(1).
Callback ==
  /\ mpc = "idle" /\ frame < MaxFrames
  /\ frame' = frame + 1 /\ synced' = FALSE
  /\ \E s \in Surfaces \ locked :
       /\ locked' = locked \cup {s} /\ gles' = s
       /\ content' = [content EXCEPT ![s] = frame']
  /\ \E direct \in Directs : mpc' = IF direct THEN "direct" ELSE "fallback"
  /\ UNCHANGED <<presenterVars, planeVars, choiceVars, jobVars, workerVars,
                 asleep, overlayVars, cleaned>>

\* Direct scanout: the worker is drained, then the presenter, ...
DirectDrain ==
  /\ mpc = "direct" /\ Awake("main") /\ WorkerQuiet
  /\ mpc' = "present"
  /\ UNCHANGED <<presenterVars, surfaceVars, planeVars, frameVars, choiceVars,
                 jobVars, workerVars, asleep, overlayVars, cleaned>>

\* ... then the plane is set, if the mode is and the driver accepts it; ...
DirectPresent ==
  /\ mpc = "present" /\ DrainDone("main")
  /\ \/ scan # None /\ plane' = gles /\ mpc' = "vblank"
     \/ mpc' = "fallback" /\ UNCHANGED plane
  /\ UNCHANGED <<surfaceVars, scanout, onPlane, frameVars, choiceVars, jobVars,
                 workerVars, asleep, overlayVars, cleaned>>

\* ... and after the vblank the surface shown before is released.
\* Mutant: it is not.
KeepScanout == locked
LessScanout == locked \ {scanout}

DirectSettle ==
  /\ mpc = "vblank" /\ onPlane = plane
  /\ locked' = LessScanout /\ scanout' = gles
  /\ mpc' = "idle"
  /\ UNCHANGED <<presenterVars, content, gles, plane, onPlane, frameVars,
                 choiceVars, jobVars, workerVars, asleep, overlayVars,
                 cleaned>>

\* The frame goes to the worker or not: never while fast-forwarding.
Choose == \E threaded \in Threadeds :
  mpc' = IF threaded /\ ~ffwd THEN "submit" ELSE "plain"

\* A frame that is not scanned out directly ends the direct scanout: drain,
\* disable the plane, release its surface.
Fallback ==
  /\ mpc = "fallback"
  /\ IF scanout # None THEN mpc' = "disable" ELSE Choose
  /\ UNCHANGED <<presenterVars, surfaceVars, planeVars, frameVars, choiceVars,
                 jobVars, workerVars, asleep, overlayVars, cleaned>>

EndScanout ==
  /\ plane' = None /\ locked' = LessScanout /\ scanout' = None
  /\ UNCHANGED <<content, gles, onPlane>>

DirectDisable ==
  /\ mpc = "disable" /\ DrainDone("main")
  /\ EndScanout
  /\ Choose
  /\ UNCHANGED <<frameVars, choiceVars, jobVars, workerVars, asleep,
                 overlayVars, cleaned>>

\* video_worker_submit; the first call starts the worker.
Submit ==
  /\ mpc = "submit" /\ Awake("main") /\ HasSpace
  /\ started' = TRUE /\ wpc' = IF started THEN wpc ELSE "wait"
  /\ IF stopping THEN locked' = locked \ {gles} /\ UNCHANGED job
                 ELSE job' = gles /\ UNCHANGED locked
  /\ Wake("worker") /\ mpc' = "idle"
  /\ UNCHANGED <<presenterVars, content, gles, planeVars, frameVars,
                 choiceVars, stopping, inFlight, wjob, overlayVars, cleaned>>

\* The same work on main's own thread, once the worker is idle.
Plain ==
  /\ mpc = "plain" /\ Awake("main") /\ WorkerQuiet
  /\ Compose("main", gles)
  /\ mpc' = "post"
  /\ UNCHANGED <<presenterVars, surfaceVars, planeVars, frameVars, choiceVars,
                 jobVars, workerVars, asleep, cleaned>>

MainPosting ==
  /\ mpc = "post" /\ PostStep("main")
  /\ UNCHANGED <<surfaceVars, planeVars, mpc, frameVars, choiceVars, jobVars,
                 workerVars, asleep, overlayVars>>

MainPosted ==
  /\ mpc = "post" /\ PostEnd("main")
  /\ mpc' = "unlock"
  /\ UNCHANGED <<surfaceVars, planeVars, frameVars, choiceVars, jobVars,
                 workerVars, asleep, seen, cleanup, cleaned>>

MainUnlock ==
  /\ mpc = "unlock"
  /\ locked' = locked \ {gles} /\ mpc' = "idle"
  /\ UNCHANGED <<presenterVars, content, gles, planeVars, frameVars,
                 choiceVars, jobVars, workerVars, asleep, overlayVars,
                 cleaned>>

Refresh == \/ Callback \/ DirectDrain \/ DirectPresent \/ DirectSettle
           \/ Fallback \/ DirectDisable \/ Submit
           \/ Plain \/ MainPosting \/ MainPosted \/ MainUnlock

-----------------------------------------------------------------------------
(* Main: what it does between two frames.                                  *)

\* The overlays change, or fast-forward is switched.
Change ==
  /\ mpc = "idle" /\ changes < MaxChanges /\ changes' = changes + 1
  /\ \/ layout' \in Layouts \ {layout} /\ UNCHANGED ffwd
     \/ FastForward /\ ffwd' = ~ffwd /\ UNCHANGED layout
  /\ UNCHANGED <<presenterVars, surfaceVars, planeVars, mpc, frameVars,
                 jobVars, workerVars, asleep, overlayVars, cleaned>>

\* video_synchronize: before a state is saved or loaded, a reset, a disk
\* change or a new geometry.
SyncStart ==
  /\ mpc = "idle" /\ mpc' = "sync"
  /\ UNCHANGED <<presenterVars, surfaceVars, planeVars, frameVars, choiceVars,
                 jobVars, workerVars, asleep, overlayVars, cleaned>>

SyncWorker ==
  /\ mpc = "sync" /\ Awake("main") /\ WorkerQuiet
  /\ mpc' = "synced"
  /\ UNCHANGED <<presenterVars, surfaceVars, planeVars, frameVars, choiceVars,
                 jobVars, workerVars, asleep, overlayVars, cleaned>>

SyncDone ==
  /\ mpc = "synced" /\ DrainDone("main")
  /\ synced' = TRUE /\ mpc' = "idle"
  /\ UNCHANGED <<surfaceVars, planeVars, frame, choiceVars, jobVars,
                 workerVars, asleep, overlayVars, cleaned>>

\* The end of main(): callbacks are disabled, then
\* video_prepare_core_unload stops the worker ...
Shutdown ==
  /\ mpc = "idle" /\ mpc' = "stop"
  /\ UNCHANGED <<presenterVars, surfaceVars, planeVars, frameVars, choiceVars,
                 jobVars, workerVars, asleep, overlayVars, cleaned>>

\* Mutant: video_worker_stop does nothing.
SkipStop ==
  /\ mpc = "stop" /\ mpc' = "drain"
  /\ UNCHANGED <<presenterVars, surfaceVars, planeVars, frameVars, choiceVars,
                 jobVars, workerVars, asleep, overlayVars, cleaned>>

StopWorker ==
  /\ mpc = "stop"
  /\ IF started
     THEN /\ Awake("main") /\ WorkerQuiet
          /\ stopping' = TRUE /\ Wake("worker") /\ mpc' = "join"
     ELSE mpc' = "drain" /\ UNCHANGED <<stopping, asleep>>
  /\ UNCHANGED <<presenterVars, surfaceVars, planeVars, frameVars, choiceVars,
                 started, job, inFlight, workerVars, overlayVars, cleaned>>

JoinWorker ==
  /\ mpc = "join" /\ wpc = "dead"
  /\ started' = FALSE /\ stopping' = FALSE /\ job' = None /\ inFlight' = FALSE
  /\ mpc' = "drain"
  /\ UNCHANGED <<presenterVars, surfaceVars, planeVars, frameVars, choiceVars,
                 workerVars, asleep, overlayVars, cleaned>>

\* ... and drains the presenter;
Unload ==
  /\ mpc = "drain" /\ DrainDone("main") /\ mpc' = "release"
  /\ UNCHANGED <<surfaceVars, planeVars, frameVars, choiceVars, jobVars,
                 workerVars, asleep, overlayVars, cleaned>>

\* video_deinit: stop (nothing is started any more) and drain again, end the
\* direct scanout, ...
DeinitRelease ==
  /\ mpc = "release" /\ DrainDone("main")
  /\ IF scanout # None THEN EndScanout
                       ELSE UNCHANGED <<surfaceVars, planeVars>>
  /\ mpc' = "destroy"
  /\ UNCHANGED <<frameVars, choiceVars, jobVars, workerVars, asleep,
                 overlayVars, cleaned>>

\* ... and destroy the presenter.
DeinitDestroy ==
  /\ mpc = "destroy" /\ Destroying("main")
  /\ mpc' = IF cpc'["main"] = "gone" THEN "gone" ELSE "destroy"
  /\ UNCHANGED <<surfaceVars, planeVars, frameVars, choiceVars, jobVars,
                 workerVars, asleep, overlayVars, cleaned>>

Between == \/ Change \/ SyncStart \/ SyncWorker \/ SyncDone
           \/ Shutdown \/ StopWorker \/ JoinWorker \/ Unload
           \/ DeinitRelease \/ DeinitDestroy

-----------------------------------------------------------------------------
\* The display controller takes over the plane.
Vblank ==
  /\ onPlane # plane /\ onPlane' = plane
  /\ UNCHANGED <<presenterVars, surfaceVars, scanout, plane, mpc, frameVars,
                 choiceVars, jobVars, workerVars, asleep, overlayVars,
                 cleaned>>

RenderThread == Render /\ UNCHANGED videoVars

Main == MainSleep \/ MainDrain \/ Refresh \/ Between

Gone == mpc = "gone" /\ UNCHANGED vars

Next == Main \/ Worker \/ RenderThread \/ Vblank \/ Gone

Spec == Init /\ [][Next]_vars

\* Threads are scheduled and the display refreshes; main is not obliged to
\* start anything.
FairSpec ==
  /\ Spec
  /\ WF_vars(Main /\ mpc # "idle") /\ WF_vars(Worker)
  /\ WF_vars(RenderThread) /\ WF_vars(Vblank)
=============================================================================
